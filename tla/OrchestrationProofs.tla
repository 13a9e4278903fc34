-------------------------- MODULE OrchestrationProofs --------------------------
(***************************************************************************)
(* Proofs about turns that ask several engines, for any number of engines, *)
(* stops and retries: the outcome is that of the whole, and the turn keeps *)
(* the contract of a single turn.  They rest on what each place of the     *)
(* root handler says about the collectors and the synthesis (Gathered).    *)
(***************************************************************************)
EXTENDS Orchestration, FiniteSetTheorems, TLAPS

(* The types of what the proofs read. *)
Typed ==
    /\ pc \in {"new", "gathering", "synthesis", "cleanup", "ended"}
    /\ at \in [Runs -> {"preparing", "running", "closed", "over"}]
    /\ collector \in [Engines -> {"none", "open", "ok", "failed"}]
    /\ terminal \in {"none", "done", "error"}
    /\ erred \in BOOLEAN /\ stopping \in BOOLEAN

Failed == erred \/ \A e \in Engines : collector[e] = "failed"

(* What holds at each place of the root handler. *)
Gathered ==
    /\ pc = "new" => /\ \A r \in Runs : at[r] = "preparing"
                     /\ \A e \in Engines : collector[e] = "none"
    /\ pc \in {"new", "gathering"} =>
          terminal = "none" /\ ~erred /\ ~stopping /\ at[Synthesis] = "preparing"
    /\ pc = "gathering" => /\ \E e \in Engines : collector[e] = "open"
                           /\ \A e \in Engines : collector[e] # "none"
    /\ pc \in {"synthesis", "cleanup", "ended"} =>
          \A e \in Engines : collector[e] \in {"ok", "failed"}
    /\ pc = "synthesis" => /\ at[Synthesis] # "over"
                           /\ \E e \in Engines : collector[e] = "ok"
                           /\ terminal = "error" <=> erred
    /\ pc \in {"cleanup", "ended"} =>
          /\ at[Synthesis] \in {"preparing", "over"}
          /\ ~stopping => /\ terminal = IF Failed THEN "error" ELSE "done"
                          /\ terminal = "done" => at[Synthesis] = "over"
    /\ pc = "ended" => \A e \in Engines : at[e] = "over"

OrchestrationInv == Typed /\ Gathered

LEMMA InitEstablishes == OrchestrationInit => OrchestrationInv
BY EnginesAssumption DEF OrchestrationInit, OrchestrationInv, Typed, Gathered, Runs

(* What a report does, whoever makes it. *)
Reported(place) ==
    \/ UNCHANGED <<pc, terminal, collector, erred>>
    \/ /\ pc = "synthesis" /\ pc' = place /\ collector' = collector
       /\ \/ terminal' = "error" /\ erred'
          \/ terminal' = Recorded("done") /\ erred' = erred
    \/ /\ pc = "gathering" /\ erred' = erred
       /\ collector' \in [Engines -> {"none", "open", "ok", "failed"}]
       /\ \A e \in Engines : collector[e] # "none" => collector'[e] # "none"
       /\ \/ /\ \E e \in Engines : collector'[e] = "open"
             /\ UNCHANGED <<pc, terminal>>
          \/ /\ \A e \in Engines : collector'[e] = "failed"
             /\ pc' = "cleanup" /\ terminal' = "error"
          \/ /\ \A e \in Engines : collector'[e] # "open"
             /\ \E e \in Engines : collector'[e] # "failed"
             /\ pc' = "synthesis" /\ UNCHANGED terminal

LEMMA SettleReports ==
    ASSUME OrchestrationInv, NEW e \in Engines, collector[e] = "open", NEW good,
           Settle(e, good), erred' = erred, NEW place
    PROVE  Reported(place)
<1>1. pc = "gathering"
    BY DEF OrchestrationInv, Typed, Gathered
<1>2. /\ collector' \in [Engines -> {"none", "open", "ok", "failed"}]
      /\ \A f \in Engines : collector[f] # "none" => collector'[f] # "none"
    BY DEF Settle, OrchestrationInv, Typed
<1>3. FanIn(collector')
    BY DEF Settle
<1>4. QED
    BY <1>1, <1>2, <1>3 DEF Reported, FanIn, Recorded

LEMMA SaysReports ==
    ASSUME OrchestrationInv, NEW r \in Runs, NEW type \in {"done", "error"}, NEW place,
           Says(r, type, place), r = Synthesis => pc = "synthesis"
    PROVE  Reported(place)
<1>1. CASE r = Synthesis
    <2>1. CASE type = "error"
        BY <1>1, <2>1 DEF Says, Reported, Recorded
    <2>2. CASE type = "done"
        BY <1>1, <2>2 DEF Says, Reported, OrchestrationInv, Typed
    <2>3. QED
        BY <2>1, <2>2
<1>2. CASE r # Synthesis
    <2>1. r \in Engines
        BY <1>2 DEF Runs
    <2>2. CASE collector[r] = "open"
        BY <1>2, <2>1, <2>2, SettleReports DEF Says
    <2>3. CASE collector[r] # "open"
        BY <1>2, <2>3 DEF Says, Reported
    <2>4. QED
        BY <2>2, <2>3
<1>3. QED
    BY <1>1, <1>2

(* A handler that moves, or reports, leaves the root where it may be. *)
LEMMA ReportPreserves ==
    ASSUME OrchestrationInv, NEW r \in Runs, NEW place \in {pc, "cleanup"},
           Reported(place), pc # "new",
           at' = at \/ (at[r] # "over" /\ at' = [at EXCEPT ![r] = "over"]),
           r = Synthesis => pc = "synthesis",
           pc = "synthesis" /\ pc' = "cleanup" => r = Synthesis /\ at'[r] = "over",
           r = Synthesis /\ at' # at => pc' = "cleanup",
           stopping' = stopping
    PROVE  OrchestrationInv'
<1>1. Typed'
    <2>1. at' \in [Runs -> {"preparing", "running", "closed", "over"}]
        BY DEF OrchestrationInv, Typed
    <2>2. QED
        BY <2>1 DEF OrchestrationInv, Typed, Reported, Recorded
<1>2. Synthesis \in Runs /\ \A e \in Engines : e \in Runs /\ e # Synthesis
    BY EnginesAssumption DEF Runs
<1>3. /\ r # Synthesis => at'[Synthesis] = at[Synthesis]
      /\ \A e \in Engines : at[e] = "over" => at'[e] = "over"
      /\ at'[Synthesis] \in {at[Synthesis], "over"}
    BY <1>2 DEF OrchestrationInv, Typed
<1>4. Gathered'
    <2>1. CASE UNCHANGED <<pc, terminal, collector, erred>>
        BY <1>1, <1>2, <1>3, <2>1 DEF OrchestrationInv, Typed, Gathered, Failed
    <2>2. CASE /\ pc = "synthesis" /\ pc' = place /\ collector' = collector
               /\ \/ terminal' = "error" /\ erred'
                  \/ terminal' = Recorded("done") /\ erred' = erred
        <3>1. \E e \in Engines : collector'[e] = "ok"
            BY <2>2 DEF OrchestrationInv, Gathered
        <3>2. terminal' = "error" <=> erred'
            BY <2>2 DEF OrchestrationInv, Gathered, Recorded
        <3>3. terminal' \in {"error", "done"}
            BY <2>2 DEF Recorded
        <3>4. \A e \in Engines : collector'[e] \in {"ok", "failed"}
            BY <2>2 DEF OrchestrationInv, Gathered
        <3>5. CASE place = pc
            BY <1>3, <2>2, <3>1, <3>2, <3>4, <3>5 DEF OrchestrationInv, Gathered
        <3>6. CASE place = "cleanup"
            BY <1>3, <2>2, <3>1, <3>2, <3>3, <3>4, <3>6 DEF Gathered, Failed
        <3>7. QED
            BY <3>5, <3>6
    <2>3. CASE /\ pc = "gathering" /\ erred' = erred
               /\ collector' \in [Engines -> {"none", "open", "ok", "failed"}]
               /\ \A e \in Engines : collector[e] # "none" => collector'[e] # "none"
               /\ \E e \in Engines : collector'[e] = "open"
               /\ UNCHANGED <<pc, terminal>>
        BY <1>3, <2>3 DEF OrchestrationInv, Gathered
    <2>4. CASE /\ pc = "gathering" /\ erred' = erred
               /\ \A e \in Engines : collector'[e] = "failed"
               /\ pc' = "cleanup" /\ terminal' = "error"
        BY <1>3, <2>4 DEF OrchestrationInv, Gathered, Failed
    <2>5. CASE /\ pc = "gathering" /\ erred' = erred
               /\ collector' \in [Engines -> {"none", "open", "ok", "failed"}]
               /\ \A e \in Engines : collector[e] # "none" => collector'[e] # "none"
               /\ \A e \in Engines : collector'[e] # "open"
               /\ \E e \in Engines : collector'[e] # "failed"
               /\ pc' = "synthesis" /\ UNCHANGED terminal
        <3>1. /\ \A e \in Engines : collector'[e] \in {"ok", "failed"}
              /\ \E e \in Engines : collector'[e] = "ok"
            BY <2>5 DEF OrchestrationInv, Gathered
        <3>2. at'[Synthesis] = "preparing" /\ terminal' = "none" /\ ~erred'
            BY <1>3, <2>5 DEF OrchestrationInv, Gathered
        <3>3. QED
            BY <2>5, <3>1, <3>2 DEF Gathered
    <2>6. QED
        BY <2>1, <2>2, <2>3, <2>4, <2>5 DEF Reported
<1>5. QED
    BY <1>1, <1>4 DEF OrchestrationInv

LEMMA NextPreserves == OrchestrationInv /\ [OrchestrationNext]_orchestrationVars => OrchestrationInv'
<1> SUFFICES ASSUME OrchestrationInv, [OrchestrationNext]_orchestrationVars
             PROVE  OrchestrationInv'
    OBVIOUS
<1>0. Synthesis \in Runs /\ \A e \in Engines : e \in Runs /\ e # Synthesis
    BY EnginesAssumption DEF Runs
<1>1. CASE UNCHANGED orchestrationVars
    BY <1>1 DEF orchestrationVars, runVars, OrchestrationInv, Typed, Gathered, Failed
<1>2. CASE FanOut
    <2>1. Engines # {}
        BY EnginesAssumption, FS_EmptySet
    <2>2. /\ collector' \in [Engines -> {"none", "open", "ok", "failed"}]
          /\ \A e \in Engines : collector'[e] = "open"
        BY <1>2 DEF FanOut
    <2>3. QED
        BY <1>2, <2>1, <2>2 DEF FanOut, runVars, OrchestrationInv, Typed, Gathered
<1>3. CASE Stop
    <2>1. collector' \in [Engines -> {"none", "open", "ok", "failed"}]
        BY <1>3 DEF Stop, OrchestrationInv, Typed
    <2>2. \A e \in Engines : collector'[e] \in {"ok", "failed"}
        BY <1>3 DEF Stop, UnderWay, OrchestrationInv, Typed, Gathered
    <2>3. \A e \in Engines : collector[e] = "ok" => collector'[e] = "ok"
        BY <1>3 DEF Stop, OrchestrationInv, Typed
    <2>4. QED
        BY <1>3, <2>1, <2>2, <2>3 DEF Stop, UnderWay, Recorded, runVars, OrchestrationInv, Typed, Gathered
<1>4. CASE Cleanup
    BY <1>4 DEF Cleanup, runVars, OrchestrationInv, Typed, Gathered, Failed
<1>5. ASSUME NEW e \in Engines, Answers(e)
      PROVE  OrchestrationInv'
    BY <1>5 DEF Answers, runVars, OrchestrationInv, Typed, Gathered, Failed
<1>6. ASSUME NEW e \in Engines, TimesOut(e)
      PROVE  OrchestrationInv'
    <2>1. pc = "gathering" /\ e # Synthesis
        BY <1>0, <1>6 DEF TimesOut, OrchestrationInv, Typed, Gathered
    <2>2. Reported("cleanup")
        BY <1>6, SettleReports DEF TimesOut
    <2>3. QED
        BY <1>0, <1>6, <2>1, <2>2, ReportPreserves DEF TimesOut
<1>7. ASSUME NEW r \in Runs, RunStep(r)
      PROVE  OrchestrationInv'
    <2>1. CASE Spawn(r) \/ ProcessExits(r) \/ HandlerRetries(r)
        <3>1. /\ UNCHANGED <<pc, collector, terminal, erred, stopping>>
              /\ pc # "new" /\ at[r] # "over"
              /\ \E place \in {"preparing", "running", "closed"} : at' = [at EXCEPT ![r] = place]
            BY <2>1 DEF Spawn, ProcessExits, HandlerRetries, Preparing, Moves, OrchestrationInv, Gathered
        <3>2. r = Synthesis => pc = "synthesis"
            BY <2>1 DEF Spawn, ProcessExits, HandlerRetries, Preparing, OrchestrationInv, Typed, Gathered
        <3>3. PICK place \in {"preparing", "running", "closed"} : at' = [at EXCEPT ![r] = place]
            BY <3>1
        <3>4. /\ at' \in [Runs -> {"preparing", "running", "closed", "over"}]
              /\ r = Synthesis => at'[Synthesis] # "over"
              /\ r # Synthesis => at'[Synthesis] = at[Synthesis]
              /\ pc # "ended"
            BY <1>0, <3>1, <3>2, <3>3 DEF OrchestrationInv, Typed, Gathered, Runs
        <3>5. QED
            BY <3>1, <3>2, <3>4 DEF OrchestrationInv, Typed, Gathered, Failed
    <2>2. CASE SpawnFails(r)
        <3>1. r = Synthesis => pc = "synthesis"
            BY <2>2 DEF SpawnFails, Preparing
        <3>2. Reported("cleanup")
            BY <2>2, <3>1, SaysReports DEF SpawnFails
        <3>3. /\ pc # "new" /\ at[r] = "preparing" /\ at' = [at EXCEPT ![r] = "over"]
              /\ stopping' = stopping
            BY <2>2 DEF SpawnFails, Preparing, Moves, OrchestrationInv, Typed
        <3>4. /\ r = Synthesis => pc' = "cleanup"
              /\ pc = "synthesis" /\ pc' = "cleanup" => r = Synthesis
            BY <2>2, <3>1 DEF SpawnFails, Says, Runs, OrchestrationInv, Gathered
        <3>5. at'[r] = "over"
            BY <3>3 DEF OrchestrationInv, Typed
        <3>6. QED
            BY <3>1, <3>2, <3>3, <3>4, <3>5, ReportPreserves
    <2>3. CASE HandlerReturns(r)
        <3>1. r = Synthesis => pc = "synthesis"
            BY <2>3 DEF HandlerReturns, OrchestrationInv, Typed, Gathered
        <3>2. PICK type \in {"done", "error"} : Says(r, type, "cleanup")
            BY <2>3 DEF HandlerReturns
        <3>3. Reported("cleanup")
            BY <3>1, <3>2, SaysReports
        <3>4. /\ pc # "new" /\ at[r] = "closed" /\ at' = [at EXCEPT ![r] = "over"]
              /\ stopping' = stopping
            BY <2>3 DEF HandlerReturns, Moves, OrchestrationInv, Gathered
        <3>5. /\ r = Synthesis => pc' = "cleanup"
              /\ pc = "synthesis" /\ pc' = "cleanup" => r = Synthesis
            BY <3>1, <3>2 DEF Says, Runs, OrchestrationInv, Gathered
        <3>6. at'[r] = "over"
            BY <3>4 DEF OrchestrationInv, Typed
        <3>7. QED
            BY <3>1, <3>3, <3>4, <3>5, <3>6, ReportPreserves
    <2>4. ASSUME NEW type \in {"done", "error"}, EngineReports(r, type)
          PROVE  OrchestrationInv'
        <3>1. r = Synthesis => pc = "synthesis"
            BY <2>4 DEF EngineReports, OrchestrationInv, Typed, Gathered
        <3>2. Reported(pc)
            BY <2>4, <3>1, SaysReports DEF EngineReports
        <3>3. pc # "new" /\ at' = at /\ stopping' = stopping
            BY <2>4 DEF EngineReports, OrchestrationInv, Gathered
        <3>4. pc = "synthesis" => pc' # "cleanup"
            BY <2>4, <3>1 DEF EngineReports, Says, Runs, OrchestrationInv, Gathered
        <3>5. QED
            BY <3>1, <3>2, <3>3, <3>4, ReportPreserves
    <2>5. CASE KillReturns(r)
        BY <2>5 DEF KillReturns, runVars, OrchestrationInv, Typed, Gathered, Failed
    <2>6. QED
        BY <1>7, <2>1, <2>2, <2>3, <2>4, <2>5 DEF RunStep
<1>8. QED
    BY <1>1, <1>2, <1>3, <1>4, <1>5, <1>6, <1>7 DEF OrchestrationNext

THEOREM OrchestrationInvariance == OrchestrationSpec => []OrchestrationInv
BY InitEstablishes, NextPreserves, PTL DEF OrchestrationSpec

(* The outcome of a turn that asked several engines is that of the whole. *)
THEOREM OutcomeOfTheWhole == OrchestrationSpec => []OutcomeIsItsOwn
<1>1. OrchestrationInv => OutcomeIsItsOwn
    BY DEF OrchestrationInv, Gathered, Failed, OutcomeIsItsOwn
<1>2. QED
    BY <1>1, OrchestrationInvariance, PTL
-----------------------------------------------------------------------------
(* What the places do not read: the books of the runs and of the stops. *)
Books ==
    /\ said \subseteq Runs /\ held \subseteq Runs /\ kills \subseteq Runs
    /\ retried \in [Runs -> SUBSET RetryReasons]
    /\ text \subseteq Engines
    /\ stops \in Nat

LEMMA BooksAreKept == Typed /\ Books /\ [OrchestrationNext]_orchestrationVars => Books'
<1> SUFFICES ASSUME Typed, Books, [OrchestrationNext]_orchestrationVars PROVE Books'
    OBVIOUS
<1> USE DEF Books, Typed, runVars
<1>1. CASE UNCHANGED orchestrationVars
    BY <1>1 DEF orchestrationVars
<1>2. CASE FanOut \/ Cleanup \/ Stop
    BY <1>2 DEF FanOut, Cleanup, Stop
<1>3. ASSUME NEW r \in Runs, RunStep(r) PROVE Books'
    BY <1>3 DEF RunStep, Spawn, SpawnFails, EngineReports, ProcessExits, HandlerRetries,
                HandlerReturns, KillReturns
<1>4. ASSUME NEW e \in Engines, Answers(e) \/ TimesOut(e) PROVE Books'
    BY <1>4 DEF Answers, TimesOut, Runs
<1>5. QED
    BY <1>1, <1>2, <1>3, <1>4 DEF OrchestrationNext

(* Whatever is reported, retried, stopped or killed, every variable of a turn
   that asks several engines keeps its type. *)
THEOREM OrchestrationTypes == OrchestrationSpec => []OrchestrationTypeOK
<1>1. OrchestrationInit => Books
    BY DEF OrchestrationInit, Books
<1>2. OrchestrationInv /\ Books => OrchestrationTypeOK
    BY DEF OrchestrationInv, Typed, Books, OrchestrationTypeOK
<1>3. OrchestrationInv => Typed
    BY DEF OrchestrationInv
<1>4. QED
    BY <1>1, <1>2, <1>3, BooksAreKept, OrchestrationInvariance, PTL DEF OrchestrationSpec
-----------------------------------------------------------------------------
Running == \E r \in Runs : at[r] = "running"
Between == {"gathering", "synthesis", "cleanup"}

ContractStep == [FanOutContract!ContractNext]_(FanOutContract!contractVars)

LEMMA InitMaps == OrchestrationInit => FanOutContract!ContractInit
BY DEF OrchestrationInit, FanOutContract!ContractInit, Phase, Turn

LEMMA QuietMaps ==
    ASSUME Phase' = Phase, (pc = "new") <=> (pc' = "new"), stopping' = stopping
    PROVE  ContractStep
BY DEF ContractStep, FanOutContract!contractVars

(* The one turn becomes what its phase becomes. *)
LEMMA Becoming ==
    ASSUME NEW p, Phase' = p
    PROVE  FanOutContract!Becomes("turn", p)
BY DEF FanOutContract!Becomes, Turn

(* While the turn is under way, starting the first of its processes executes,
   and the end of the last one ceases. *)
LEMMA ExecutionMaps ==
    ASSUME pc \in Between, pc' \in Between, stopping' = stopping, Running' => Running \/ ~stopping
    PROVE  ContractStep
<1>1. /\ Phase = IF Running THEN "executing" ELSE "accepted"
      /\ Phase' = IF Running' THEN "executing" ELSE "accepted"
    BY DEF Phase, Between, Running
<1>2. "turn" \in Turn /\ \A u \in Turn : u = "turn"
    BY DEF Turn
<1>3. CASE Running <=> Running'
    BY <1>1, <1>3, QuietMaps DEF Between
<1>4. CASE ~Running /\ Running'
    <2>1. FanOutContract!Becomes("turn", "executing")
        BY <1>1, <1>4, Becoming
    <2>2. FanOutContract!Execute("turn")
        BY <1>1, <1>2, <1>4, <2>1 DEF FanOutContract!Execute, Any, Between
    <2>3. QED
        BY <1>2, <2>2 DEF ContractStep, FanOutContract!ContractNext
<1>5. CASE Running /\ ~Running'
    <2>1. FanOutContract!Becomes("turn", "accepted")
        BY <1>1, <1>5, Becoming
    <2>2. FanOutContract!Cease("turn")
        BY <1>1, <1>2, <1>5, <2>1 DEF FanOutContract!Cease, Between
    <2>3. QED
        BY <1>2, <2>2 DEF ContractStep, FanOutContract!ContractNext
<1>6. QED
    BY <1>3, <1>4, <1>5

LEMMA FanOutMaps == ASSUME OrchestrationInv, FanOut PROVE ContractStep
<1>1. "turn" \in Turn /\ \A u \in Turn : u = "turn"
    BY DEF Turn
<1>2. Phase = "new" /\ Phase' = "accepted" /\ pc = "new" /\ pc' # "new" /\ stopping' = stopping
    BY DEF FanOut, runVars, Phase, OrchestrationInv, Gathered
<1>3. FanOutContract!Becomes("turn", "accepted")
    BY <1>2, Becoming
<1>4. FanOutContract!AcceptTurn("turn", "conversation", {})
    BY <1>1, <1>2, <1>3 DEF FanOutContract!AcceptTurn, FanOutContract!UnderWay, Turn
<1>5. QED
    BY <1>1, <1>4 DEF ContractStep, FanOutContract!ContractNext

LEMMA StopMaps == ASSUME OrchestrationInv, Stop PROVE ContractStep
<1>1. "turn" \in Turn /\ \A u \in Turn : u = "turn"
    BY DEF Turn
<1>2. pc \in Between /\ pc' \in Between /\ at' = at /\ stopping'
    BY DEF Stop, UnderWay, runVars, Between
<1>3. Phase' = Phase /\ Phase \in {"accepted", "executing"}
    BY <1>2 DEF Phase, Between
<1>4. FanOutContract!AskStop("turn")
    BY <1>1, <1>2, <1>3 DEF FanOutContract!AskStop, FanOutContract!UnderWay, Between, Turn
<1>5. QED
    BY <1>1, <1>4 DEF ContractStep, FanOutContract!ContractNext

LEMMA CleanupMaps == ASSUME OrchestrationInv, Cleanup PROVE ContractStep
<1>1. "turn" \in Turn /\ \A u \in Turn : u = "turn"
    BY DEF Turn
<1>2. ~Running
    BY DEF Cleanup, Running, Runs, OrchestrationInv, Gathered
<1>3. Phase = "accepted"
    BY <1>2 DEF Cleanup, Phase, Running
<1>4. pc' = "ended" /\ pc # "new" /\ stopping' = stopping /\ terminal' = terminal
    BY DEF Cleanup
<1>5. PICK p \in {"completed", "failed", "stopped"} :
          Phase' = p /\ (p = "stopped" <=> stopping)
    BY <1>4 DEF Phase
<1>6. FanOutContract!Becomes("turn", p)
    BY <1>5, Becoming
<1>7. FanOutContract!Report("turn")
    BY <1>1, <1>3, <1>4, <1>5, <1>6 DEF FanOutContract!Report, FanOutContract!Reported
<1>8. QED
    BY <1>1, <1>7 DEF ContractStep, FanOutContract!ContractNext

(* As the contract sees it, every step is one of a single turn, or none. *)
LEMMA StepMaps ==
    ASSUME OrchestrationInv, OrchestrationInv', [OrchestrationNext]_orchestrationVars
    PROVE  ContractStep
<1>1. CASE UNCHANGED orchestrationVars
    BY <1>1, QuietMaps DEF orchestrationVars, runVars, Phase
<1>2. CASE FanOut \/ Stop \/ Cleanup
    BY <1>2, FanOutMaps, StopMaps, CleanupMaps
<1>3. ASSUME NEW e \in Engines, Answers(e) \/ TimesOut(e)
      PROVE  ContractStep
    <2>1. pc \in Between /\ pc' \in Between /\ at' = at /\ stopping' = stopping
        BY <1>3 DEF Answers, TimesOut, Settle, FanIn, runVars, Between, OrchestrationInv, Typed, Gathered
    <2>2. QED
        BY <2>1, ExecutionMaps DEF Running
<1>4. ASSUME NEW r \in Runs, RunStep(r)
      PROVE  ContractStep
    <2>1. CASE KillReturns(r)
        BY <2>1, QuietMaps DEF KillReturns, runVars, Phase
    <2>2. CASE ~KillReturns(r)
        <3>1. pc # "ended"
            BY <1>4, <2>2 DEF RunStep, Spawn, SpawnFails, EngineReports, ProcessExits, HandlerRetries,
                          HandlerReturns, Preparing, Runs, OrchestrationInv, Gathered
        <3>2. pc # "new"
            BY <1>4, <2>2 DEF RunStep, Spawn, SpawnFails, EngineReports, ProcessExits, HandlerRetries,
                          HandlerReturns, Preparing, OrchestrationInv, Gathered
        <3>3. pc' \in Between
            BY <1>4, <2>2, <3>1, <3>2 DEF RunStep, Spawn, SpawnFails, EngineReports, ProcessExits, HandlerRetries,
                          HandlerReturns, Says, Settle, FanIn, Between, OrchestrationInv, Typed
        <3>4. stopping' = stopping /\ (Running' => Running \/ ~stopping)
            BY <1>4, <2>2 DEF RunStep, Spawn, SpawnFails, EngineReports, ProcessExits, HandlerRetries,
                          HandlerReturns, Moves, Running, OrchestrationInv, Typed
        <3>5. QED
            BY <3>1, <3>2, <3>3, <3>4, ExecutionMaps DEF Between, OrchestrationInv, Typed
    <2>3. QED
        BY <2>1, <2>2
<1>5. QED
    BY <1>1, <1>2, <1>3, <1>4 DEF OrchestrationNext

(* However many engines a turn asks, it does what the contract allows one turn. *)
THEOREM FanOutIsOneTurn == OrchestrationSpec => FanOutKeepsContract
<1>1. OrchestrationInv /\ OrchestrationInv' /\ [OrchestrationNext]_orchestrationVars =>
          [FanOutContract!ContractNext]_(FanOutContract!contractVars)
    BY StepMaps DEF ContractStep
<1>2. QED
    BY <1>1, InitMaps, OrchestrationInvariance, PTL
       DEF OrchestrationSpec, FanOutKeepsContract, FanOutContract!ContractSpec
==============================================================================
