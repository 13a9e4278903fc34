---- MODULE MCApprovals ----
EXTENDS Approvals
CONSTANTS r1, r2, t1, k1, k2
R2 == {r1, r2}
COne == [r \in {r1} |-> k1]
TOne == [r \in R2 |-> t1]
====
