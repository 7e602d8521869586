----------------------------- MODULE LeasedWork -----------------------------
(***************************************************************************)
(* What a lease on a row promises (repositories/lease.py), with nothing of *)
(* the queue, the retries or the sweep that drive it: a worker takes the   *)
(* row only when nobody's lease on it is live, keeps it while it renews,   *)
(* and only the worker the row still names may put down a result, which    *)
(* ends its tenure.  A worker that was overtaken leaves no trace.  Once    *)
(* the row is deleted nothing more is recorded.                            *)
(***************************************************************************)
EXTENDS Naturals

CONSTANTS Workers, Nobody

VARIABLES
    holder,   \* the worker the row names; one that died, or nobody
    live,     \* whether the lease is unexpired
    results,  \* how many results have been recorded
    deleted   \* whether the row is soft-deleted

vars == <<holder, live, results, deleted>>

Init == holder = Nobody /\ ~live /\ results = 0 /\ ~deleted

Take(w) ==
    /\ ~live /\ ~deleted
    /\ holder' = w /\ live' = TRUE
    /\ UNCHANGED <<results, deleted>>

\* A heartbeat, or a lease cut to the moment a retry is due.
Renew(w) ==
    /\ holder = w
    /\ live' \in BOOLEAN
    /\ UNCHANGED <<holder, results, deleted>>

Lapse ==
    /\ live /\ live' = FALSE
    /\ UNCHANGED <<holder, results, deleted>>

\* The outcome and the end of the tenure are one write; a failure records no result.
Record(w) ==
    /\ holder = w /\ ~deleted
    /\ results' \in {results, results + 1}
    /\ holder' = Nobody /\ live' = FALSE
    /\ UNCHANGED deleted

\* The holder's process is gone; the row goes on naming an id that never comes back.
Die ==
    /\ holder \in Workers /\ holder' \notin Workers \cup {Nobody}
    /\ UNCHANGED <<live, results, deleted>>

Delete ==
    /\ ~deleted /\ deleted' = TRUE
    /\ UNCHANGED <<holder, live, results>>

Next == (\E w \in Workers : Take(w) \/ Renew(w) \/ Record(w)) \/ Lapse \/ Die \/ Delete

Spec == Init /\ [][Next]_vars
=============================================================================
