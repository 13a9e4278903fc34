------------------------------ MODULE LeaseKeys ------------------------------
(***************************************************************************)
(* The keys under which a turn leases what it must not share: the engine   *)
(* session it resumes and the project folder it works in                   *)
(* (sidecar/src/executionLeases.ts, workspaceLeaseKey and conflicts).      *)
(*                                                                         *)
(* A path is the sequence of the folder names it goes through, as typed.   *)
(* Separators, a trailing slash and the \\?\ prefix spell the same         *)
(* sequence; the letter case is what workspaceLeaseKey really removes, so  *)
(* it is a function of the names here.                                     *)
(***************************************************************************)
EXTENDS Sequences, SequencesExt

CONSTANTS Sessions,   \* engine session ids (agent_id)
          Folders,    \* absolute project paths, each a sequence of names
          Lower       \* Lower[n]: the name n with its letters lower-cased

ASSUME FoldersAssumption == Folders \subseteq Seq(DOMAIN Lower)

SessionKey(s) == [kind |-> "session", of |-> s]

WorkspaceLeaseKey(path) ==
    [kind |-> "workspace", of |-> [i \in DOMAIN path |-> Lower[path[i]]]]

IsWorkspace(key) == key.kind = "workspace"

(* Deliberately wrong: only equal keys conflict. *)
ConflictsEqualOnly(a, b) == a = b

(* Equal keys conflict, and so do a folder and any folder below it. *)
Conflicts(a, b) ==
    \/ a = b
    \/ /\ IsWorkspace(a) /\ IsWorkspace(b)
       /\ IsStrictPrefix(a.of, b.of) \/ IsStrictPrefix(b.of, a.of)

(* What one turn asks for: at most one session and at most one folder. *)
KeySet(session, folder) ==
    {SessionKey(s) : s \in session} \cup {WorkspaceLeaseKey(f) : f \in folder}

AtMostOne(S) == {{}} \cup {{x} : x \in S}

KeySets == {KeySet(ss, fs) : ss \in AtMostOne(Sessions), fs \in AtMostOne(Folders)}
==============================================================================
