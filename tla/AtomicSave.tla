----------------------------- MODULE AtomicSave -----------------------------
(***************************************************************************)
(* What an audited save promises its caller: the rows of the request and    *)
(* one audit log for each of them are stored together, once, or not at all. *)
(* It does not promise that a save that returns has stored them: an attempt *)
(* that is run again may find nothing left to write.  AuditedSave, with its *)
(* attempts, transactions and lost answers, implements this module.         *)
(***************************************************************************)
EXTENDS Naturals

CONSTANTS Entries,    \* rows of audited tables
          CallerLogs  \* audit logs the caller adds itself

VARIABLES
    requested,  \* what the caller asked to write
    data,       \* what is stored
    logs,       \* the audit logs stored, per entry
    outcome     \* "running", "ok", "failed", or "unknown": once an answer was lost the
                \* caller may be told either, and nothing more is written

vars == <<requested, data, logs, outcome>>

Init ==
    /\ requested \in SUBSET (Entries \cup CallerLogs)
    /\ data = {}
    /\ logs = [e \in Entries |-> 0]
    /\ outcome = "running"

\* The caller learns of it, or the answer is lost; it is not told of a failure.
Write ==
    /\ outcome = "running"
    /\ data' = requested
    /\ logs' = [e \in Entries |-> IF e \in requested THEN 1 ELSE 0]
    /\ outcome' \in {"ok", "unknown"}
    /\ UNCHANGED requested

\* The save fails, or an attempt finds nothing to write and commits that.
WriteNothing ==
    /\ outcome = "running"
    /\ outcome' \in {"ok", "failed", "unknown"}
    /\ UNCHANGED <<requested, data, logs>>

Next == Write \/ WriteNothing

Spec == Init /\ [][Next]_vars
=============================================================================
