------------------------------ MODULE Checklist ------------------------------
(***************************************************************************)
(* One checklist module: its row and lease, the generation jobs that       *)
(* propose changes to it, the chat that proposes more, the reviewers who   *)
(* apply or discard the proposals, and the testers who record results on   *)
(* its items meanwhile.                                                    *)
(*                                                                         *)
(* Generation requests and review decisions read and then write without a  *)
(* lock, and are split between the two; an item edit is one step.          *)
(* PostgreSQL runs at READ COMMITTED, and the ORM writes only the columns  *)
(* a request changed from what it had loaded.                              *)
(*                                                                         *)
(* The topic is a set of records: which one a worker meets first, and      *)
(* whether it meets one twice, is not decided here.  Hosts' clocks are not *)
(* compared, so a retry may come before or after the lease that was held   *)
(* for it runs out.  The indexed project is taken to be there and stable.  *)
(***************************************************************************)
EXTENDS Naturals, FiniteSets

CONSTANTS
    Workers,       \* checklist worker processes
    Users,         \* sessions of project members that request and review
    JobIds,        \* pool standing for uuid4(); an id is reused once no copy is left
    ChangeSets,    \* bound: change-set ids, each used once
    Items,         \* bound: checklist-item ids, each used once
    Verdicts,      \* what a tester may record on an item
    Proposals,     \* the operation sets a model may propose
    MaxAttempts,   \* settings.kafka_max_attempts
    Rungs,         \* len(CHECKLIST_RETRY_TOPICS)
    MaxQueue,      \* bound: records on the topic plus unpublished messages
    MaxTurns,      \* bound: chat turns streaming at once
    MaxRequests,   \* bound: generation requests and renames
    MaxFaults,     \* bound: failures, crashes, redeliveries, lost messages
    HeartbeatMayFail \* whether renewals may die or come too late under a live run

None == "none"     \* SQL NULL, for owner, job and change-set columns
Dead == "dead"     \* the id of a worker process that is gone
Human == "human"   \* the author of an item's wording

Operation ==
    [op : {"add"}, item : {None}] \cup [op : {"update", "remove"}, item : Items]

ASSUME ChecklistAssumption ==
    /\ MaxAttempts \in Nat \ {0} /\ Rungs \in Nat
    /\ MaxQueue \in Nat /\ MaxTurns \in Nat
    /\ MaxRequests \in Nat /\ MaxFaults \in Nat
    /\ HeartbeatMayFail \in BOOLEAN
    /\ Proposals \subseteq SUBSET Operation

ASSUME DistinctAssumption ==
    /\ None \notin Workers \cup JobIds \cup ChangeSets
    /\ Dead \notin Workers /\ Dead # None
    /\ Human \notin ChangeSets

ASSUME FiniteAssumption == IsFiniteSet(ChangeSets)

VARIABLES
    row,     \* the checklist_modules row
    sets,    \* change-set id -> its row
    items,   \* item id -> its row
    req,     \* user -> the request in flight: generate, apply or discard
    turns,   \* chat turns being streamed
    run,     \* worker -> the generation job it is in
    topic,   \* records on the generation topic
    retry,   \* records waiting on the retry rungs
    outbox,  \* messages owed to the topic and not yet on it
    budget   \* what is left of each bound

vars == <<row, sets, items, req, turns, run, topic, retry, outbox, budget>>
data == <<sets, items>>
queue == <<topic, retry, outbox>>

-----------------------------------------------------------------------------
ChecklistModuleStatus == {"empty", "generating", "review", "ready", "failed"}
Untested == "untested"

Message == [job : JobIds, attempt : Nat]

ChecklistModule ==
    [status : ChecklistModuleStatus, deleted : BOOLEAN,
     lease : {"none", "live", "expired"}, owner : Workers \cup {None, Dead},
     lastJob : JobIds \cup {None},
     aged : BOOLEAN]    \* updated_at is older than the sweep's cutoff

ChangeSet ==
    [status : {"absent", "pending", "applied", "discarded"}, deleted : BOOLEAN,
     origin : {"generation", "chat"}, operations : SUBSET Operation]

Item ==
    [state : {"absent", "live", "deleted"}, by : ChangeSets \cup {Human},
     result : Verdicts \cup {Untested}]

Request ==
    [pc : {"idle", "generate", "read", "apply", "loaded", "discard"},
     set : ChangeSets \cup {None}, seen : ChecklistModuleStatus,
     view : [Items -> Item]]

Job ==
    [pc : {"idle", "running", "proposed", "handle", "produce", "done"},
     job : JobIds \cup {None}, attempt : Nat,
     error : {"none", "terminal", "retryable", "unexpected", "aborted"},
     beating : BOOLEAN]

Budget == [requests : Nat, faults : Nat]

TypeOK ==
    /\ row \in ChecklistModule
    /\ sets \in [ChangeSets -> ChangeSet]
    /\ items \in [Items -> Item]
    /\ req \in [Users -> Request]
    /\ turns \in Nat
    /\ run \in [Workers -> Job]
    /\ topic \in SUBSET Message
    /\ retry \in SUBSET Message
    /\ outbox \in Nat
    /\ budget \in Budget

NoSet == [status |-> "absent", deleted |-> FALSE, origin |-> "chat", operations |-> {}]
NoItem == [state |-> "absent", by |-> Human, result |-> Untested]
NoView == [i \in Items |-> NoItem]
NoRequest == [pc |-> "idle", set |-> None, seen |-> "empty", view |-> NoView]
Idle == [pc |-> "idle", job |-> None, attempt |-> 0, error |-> "none", beating |-> FALSE]

\* ChecklistModuleService.create: an empty module, nothing asked of it yet.
Init ==
    /\ row = [status |-> "empty", deleted |-> FALSE, lease |-> "none", owner |-> None,
              lastJob |-> None, aged |-> FALSE]
    /\ sets = [c \in ChangeSets |-> NoSet]
    /\ items = [i \in Items |-> NoItem]
    /\ req = [u \in Users |-> NoRequest]
    /\ turns = 0
    /\ run = [w \in Workers |-> Idle]
    /\ topic = {} /\ retry = {} /\ outbox = 0
    /\ budget = [requests |-> MaxRequests, faults |-> MaxFaults]

-----------------------------------------------------------------------------
(* Helpers *)

Live == ~row.deleted
Owns(w) == row.owner = w
Pending(c) == sets[c].status = "pending" /\ ~sets[c].deleted
LiveItems == {i \in Items : items[i].state = "live"}

\* The id the pool gives out next: which one is all the same, so it is one choice.
FreshIds ==
    LET free == JobIds \ ({m.job : m \in topic \cup retry}
                           \cup {run[w].job : w \in Workers} \cup {row.lastJob})
    IN {j \in free : j = CHOOSE k \in free : TRUE}

Fault == /\ budget.faults > 0
         /\ budget' = [budget EXCEPT !.faults = @ - 1]

Move(w, stage) == run' = [run EXCEPT ![w] = [@ EXCEPT !.pc = stage]]

\* A proposal is stored: a pending change set under an id nobody used (again, the next).
Store(c, origin, operations) ==
    /\ sets[c].status = "absent"
    /\ c = CHOOSE b \in ChangeSets : sets[b].status = "absent"
    /\ sets' = [sets EXCEPT ![c] = [status |-> "pending", deleted |-> FALSE,
                                    origin |-> origin, operations |-> operations]]

-----------------------------------------------------------------------------
(* lease.py on checklist_modules: the row each statement leaves behind.    *)
(* Every write of the row sets updated_at.                                 *)

\* Mutant: the claim no longer looks at the lease.
ClaimableUnderALiveLease(j) == Live /\ row.lastJob # j

Claimable(j) == Live /\ row.lastJob # j /\ row.lease # "live"

ClaimedRow(w, j) ==
    [row EXCEPT !.owner = w, !.lease = "live", !.lastJob = j,
                !.status = "generating", !.aged = FALSE]

\* renew_lease: guarded on the owner only.
RenewedRow(w) ==
    IF Owns(w) THEN [row EXCEPT !.lease = "live", !.aged = FALSE] ELSE row

\* The WHERE clause of release_lease and of defer_lease.
Releasable(w) == Owns(w) /\ Live

ReleasedRow(j, status) ==
    [row EXCEPT !.status = status, !.owner = None, !.lease = "none",
                !.lastJob = j, !.aged = FALSE]

\* checklist_next_destination names the dead-letter topic.
LadderSpent(attempt) == attempt >= MaxAttempts - 1 \/ attempt >= Rungs

\* defer_lease: the lease is cut to the delay of the next rung; the dead-letter
\* topic's delay is zero.
DeferredRow(attempt) ==
    [row EXCEPT !.lease = IF LadderSpent(attempt) THEN "expired" ELSE "live",
                !.aged = FALSE]

\* Mutant: the sweep passes over a module whose dead worker's lease ran out.
StrandedOnlyUnleased == Live /\ row.status = "generating" /\ row.aged /\ row.lease = "none"

\* claim_stranded_rows' WHERE clause.
Stranded == Live /\ row.status = "generating" /\ row.aged /\ row.lease # "live"

-----------------------------------------------------------------------------
(* ChecklistModuleService: request, rename, delete *)

\* request_generation's checks, made on what it reads.
RequestRead(u) ==
    /\ req[u].pc = "idle" /\ Live
    /\ row.status # "generating"
    /\ ~\E c \in ChangeSets : Pending(c)
    /\ budget.requests > 0
    /\ budget' = [budget EXCEPT !.requests = @ - 1]
    /\ req' = [req EXCEPT ![u] = [NoRequest EXCEPT !.pc = "generate"]]
    /\ UNCHANGED <<row, data, turns, run, queue>>

\* It commits `generating` whatever happened since, then publishes the job.
RequestCommit(u) ==
    /\ req[u].pc = "generate"
    /\ row' = [row EXCEPT !.status = "generating", !.aged = FALSE]
    /\ outbox' = outbox + 1
    /\ req' = [req EXCEPT ![u] = NoRequest]
    /\ UNCHANGED <<data, turns, run, topic, retry, budget>>

\* update: a new name or path; of the state kept here only updated_at moves.
Update ==
    /\ Live
    /\ budget.requests > 0
    /\ budget' = [budget EXCEPT !.requests = @ - 1]
    /\ row' = [row EXCEPT !.aged = FALSE]
    /\ UNCHANGED <<data, req, turns, run, queue>>

\* delete: the module, its items and its change sets go in one transaction.
Delete ==
    /\ Live
    /\ row' = [row EXCEPT !.deleted = TRUE, !.aged = FALSE]
    /\ sets' = [c \in ChangeSets |->
                  IF sets[c].status = "absent" THEN sets[c]
                  ELSE [sets[c] EXCEPT !.deleted = TRUE]]
    /\ items' = [i \in Items |->
                  IF items[i].state = "live" THEN [items[i] EXCEPT !.state = "deleted"]
                  ELSE items[i]]
    /\ UNCHANGED <<req, turns, run, queue, budget>>

\* enqueue_checklist, or reconcile_modules_once's produce_to, of a message owed.
Publish ==
    /\ outbox > 0
    /\ outbox' = outbox - 1
    /\ \E j \in FreshIds : topic' = topic \cup {[job |-> j, attempt |-> 0]}
    /\ UNCHANGED <<row, data, req, turns, run, retry, budget>>

\* The broker refuses it, or the process dies between the commit and the publish.
PublishLost ==
    /\ outbox > 0
    /\ Fault
    /\ outbox' = outbox - 1
    /\ UNCHANGED <<row, data, req, turns, run, topic, retry>>

-----------------------------------------------------------------------------
(* The module's chat *)

\* prepare_turn: the module is readable, and nothing else is asked of it.
PrepareTurn ==
    /\ Live /\ turns < MaxTurns
    /\ turns' = turns + 1
    /\ UNCHANGED <<row, data, req, run, queue, budget>>

\* mark_in_review: a live module goes to `review`, whatever it was doing.
InReviewRow == IF Live THEN [row EXCEPT !.status = "review", !.aged = FALSE] ELSE row

\* _finalise_checklist_turn: the stream ended, with a proposal or without one.
FinaliseTurn ==
    /\ turns > 0
    /\ turns' = turns - 1
    /\ \/ /\ \E c \in ChangeSets, operations \in Proposals : Store(c, "chat", operations)
          /\ row' = InReviewRow
       \/ UNCHANGED <<row, sets>>
    /\ UNCHANGED <<items, req, run, queue, budget>>

-----------------------------------------------------------------------------
(* ChecklistChangeSetService: apply and discard *)

\* _require_pending reads the change set: pending, or refused.
RequirePending(u, c) ==
    /\ req[u].pc = "idle"
    /\ Pending(c)
    /\ req' = [req EXCEPT ![u] = [NoRequest EXCEPT !.pc = "read", !.set = c]]
    /\ UNCHANGED <<row, data, turns, run, queue, budget>>

\* Then its module, and goes on with the decision, or is refused when that is gone.
RequireModule(u) ==
    /\ req[u].pc = "read"
    /\ IF Live
       THEN \E decision \in {"apply", "discard"} :
              req' = [req EXCEPT ![u] = [@ EXCEPT !.pc = decision, !.seen = row.status]]
       ELSE req' = [req EXCEPT ![u] = NoRequest]
    /\ UNCHANGED <<row, data, turns, run, queue, budget>>

\* apply loads the items its operations name.
LoadItems(u) ==
    /\ req[u].pc = "apply"
    /\ LET named == {o.item : o \in sets[req[u].set].operations} IN
         req' = [req EXCEPT ![u] = [@ EXCEPT !.pc = "loaded",
                   !.view = [i \in Items |-> IF i \in named THEN items[i] ELSE NoItem]]]
    /\ UNCHANGED <<row, data, turns, run, queue, budget>>

\* Mutant: the item is written back whole, as it was loaded.
AppliedItemWhole(u, wanted, new, i) ==
    LET c == req[u].set
        named == {o.op : o \in {p \in wanted : p.item = i /\ req[u].view[i].state = "live"}}
        row0 == req[u].view[i] IN
    CASE i \in new -> [state |-> "live", by |-> c, result |-> Untested]
      [] "remove" \in named -> [row0 EXCEPT !.state = "deleted"]
      [] "update" \in named -> [row0 EXCEPT !.by = c]
      [] OTHER -> items[i]

\* _apply_one over the operations wanted: an operation whose item was gone when it
\* was loaded is skipped, an update writes the wording only, and a new item starts
\* untested.
AppliedItem(u, wanted, new, i) ==
    LET c == req[u].set
        named == {o.op : o \in {p \in wanted : p.item = i /\ req[u].view[i].state = "live"}} IN
    [state |-> CASE i \in new -> "live"
                 [] "remove" \in named -> "deleted"
                 [] OTHER -> items[i].state,
     by |-> IF i \in new \/ "update" \in named THEN c ELSE items[i].by,
     result |-> IF i \in new THEN Untested ELSE items[i].result]

\* _settle_module: `ready` or `empty`, written if it differs from the status loaded.
SettledRow(seen, itemsLeft) ==
    LET landed == IF itemsLeft THEN "ready" ELSE "empty" IN
    [row EXCEPT !.status = IF landed = seen THEN @ ELSE landed, !.aged = FALSE]

\* The decision is written on the change set, whatever it holds by now.
Decide(c, decision) == sets' = [sets EXCEPT ![c].status = decision]

\* Mutant: the items are written and the change set is not marked.
ApplyUndecided(u) ==
    /\ req[u].pc = "loaded"
    /\ \E wanted \in SUBSET sets[req[u].set].operations, new \in SUBSET Items :
         /\ \A i \in new : items[i].state = "absent"
         /\ Cardinality(new) = Cardinality({o \in wanted : o.op = "add"})
         /\ items' = [i \in Items |-> AppliedItem(u, wanted, new, i)]
    /\ row' = SettledRow(req[u].seen, \E i \in Items : items'[i].state = "live")
    /\ req' = [req EXCEPT ![u] = NoRequest]
    /\ UNCHANGED <<sets, turns, run, queue, budget>>

\* The rest of apply, one commit: the items, the decision, the module's status.
ApplyCommit(u) ==
    /\ req[u].pc = "loaded"
    /\ \E wanted \in SUBSET sets[req[u].set].operations, new \in SUBSET Items :
         /\ \A i \in new : items[i].state = "absent"
         /\ Cardinality(new) = Cardinality({o \in wanted : o.op = "add"})
         /\ items' = [i \in Items |-> AppliedItem(u, wanted, new, i)]
    /\ Decide(req[u].set, "applied")
    /\ row' = SettledRow(req[u].seen, \E i \in Items : items'[i].state = "live")
    /\ req' = [req EXCEPT ![u] = NoRequest]
    /\ UNCHANGED <<turns, run, queue, budget>>

\* Mutant: the module is not settled.
DiscardUnsettled(u) ==
    /\ req[u].pc = "discard"
    /\ Decide(req[u].set, "discarded")
    /\ req' = [req EXCEPT ![u] = NoRequest]
    /\ UNCHANGED <<row, items, turns, run, queue, budget>>

\* The rest of discard, one commit: the decision and the module's status.
DiscardCommit(u) ==
    /\ req[u].pc = "discard"
    /\ Decide(req[u].set, "discarded")
    /\ row' = SettledRow(req[u].seen, LiveItems # {})
    /\ req' = [req EXCEPT ![u] = NoRequest]
    /\ UNCHANGED <<items, turns, run, queue, budget>>

-----------------------------------------------------------------------------
(* ChecklistItemService *)

Write(i, item) ==
    /\ items' = [items EXCEPT ![i] = item]
    /\ UNCHANGED <<row, sets, req, turns, run, queue, budget>>

CreateItem(i) ==
    /\ Live /\ items[i].state = "absent"
    /\ Write(i, [state |-> "live", by |-> Human, result |-> Untested])

\* update: the wording becomes the caller's; the result stays.
UpdateItem(i) ==
    /\ items[i].state = "live"
    /\ Write(i, [items[i] EXCEPT !.by = Human])

SetResult(i, v) ==
    /\ items[i].state = "live"
    /\ Write(i, [items[i] EXCEPT !.result = v])

DeleteItem(i) ==
    /\ items[i].state = "live"
    /\ Write(i, [items[i] EXCEPT !.state = "deleted"])

\* clear_results: whichever live rows the filter on screen selects.
ClearResults ==
    /\ Live
    /\ \E selected \in SUBSET LiveItems :
         items' = [i \in Items |->
                     IF i \in selected THEN [items[i] EXCEPT !.result = Untested]
                     ELSE items[i]]
    /\ UNCHANGED <<row, sets, req, turns, run, queue, budget>>

-----------------------------------------------------------------------------
(* The worker: handle_checklist_message around ChecklistGenerator.run *)

Claim(w, m) ==
    /\ run[w].pc = "idle" /\ m \in topic
    /\ Claimable(m.job)
    /\ row' = ClaimedRow(w, m.job)
    /\ run' = [run EXCEPT ![w] = [Idle EXCEPT !.pc = "running", !.job = m.job,
                                    !.attempt = m.attempt, !.beating = TRUE]]
    /\ topic' = topic \ {m}
    /\ UNCHANGED <<data, req, turns, retry, outbox, budget>>

\* JobOutcome.SKIPPED, and the offset is committed.
Skip(w, m) ==
    /\ run[w].pc = "idle" /\ m \in topic
    /\ ~Claimable(m.job)
    /\ topic' = topic \ {m}
    /\ UNCHANGED <<row, data, req, turns, run, retry, outbox, budget>>

\* The claim's own transaction fails; the record is passed over.
ClaimRaises(w, m) ==
    /\ run[w].pc = "idle" /\ m \in topic
    /\ Fault
    /\ topic' = topic \ {m}
    /\ UNCHANGED <<row, data, req, turns, run, retry, outbox>>

\* The model has answered: the heartbeat stops before the outcome is recorded.
Propose(w) ==
    /\ run[w].pc = "running"
    /\ run' = [run EXCEPT ![w] = [@ EXCEPT !.pc = "proposed", !.beating = FALSE]]
    /\ UNCHANGED <<row, data, req, turns, queue, budget>>

\* The change set is staged, the module released, and both committed -- or neither.
Finish(w) ==
    /\ run[w].pc = "proposed"
    /\ IF Releasable(w)
       THEN /\ \E c \in ChangeSets, operations \in Proposals :
                 Store(c, "generation", operations)
            /\ row' = ReleasedRow(run[w].job, "review")
       ELSE UNCHANGED <<row, sets>>
    /\ Move(w, "done")
    /\ UNCHANGED <<items, req, turns, queue, budget>>

\* The run raises.  "aborted" is an unclassified failure that leaves the session's
\* transaction unusable: a statement failed, or the release was already staged in it.
Raises(w, error) ==
    /\ \/ run[w].pc = "running"
       \/ run[w].pc = "proposed" /\ error = "aborted"
    /\ Fault
    /\ run' = [run EXCEPT ![w] = [@ EXCEPT !.pc = "handle", !.error = error,
                                           !.beating = FALSE]]
    /\ UNCHANGED <<row, data, req, turns, queue>>

\* Which failures end the job: handle_checklist_message's except clauses.
Over(error, attempt) ==
    CASE error = "terminal" -> TRUE
      [] error = "retryable" -> LadderSpent(attempt)
      [] OTHER -> attempt >= 1

\* _fail, then a dead-letter record nobody consumes.  There is no rollback first, so
\* after an aborted transaction nothing is recorded.
Fail(w) ==
    /\ run[w].pc = "handle" /\ Over(run[w].error, run[w].attempt)
    /\ row' = IF Releasable(w) /\ run[w].error # "aborted"
              THEN ReleasedRow(run[w].job, "failed") ELSE row
    /\ Move(w, "done")
    /\ UNCHANGED <<data, req, turns, queue, budget>>

\* _defer: rolled back, then the lease is held until the retry is due.
Defer(w) ==
    /\ run[w].pc = "handle" /\ ~Over(run[w].error, run[w].attempt)
    /\ row' = IF Releasable(w) THEN DeferredRow(run[w].attempt) ELSE row
    /\ Move(w, "produce")
    /\ UNCHANGED <<data, req, turns, queue, budget>>

\* _route_failure after a deferral: the next rung under a fresh job id, or, when the
\* ladder has none, the dead-letter topic.
RouteFailure(w) ==
    /\ run[w].pc = "produce"
    /\ IF LadderSpent(run[w].attempt)
       THEN retry' = retry
       ELSE \E j \in FreshIds :
              retry' = retry \cup {[job |-> j, attempt |-> run[w].attempt + 1]}
    /\ Move(w, "done")
    /\ UNCHANGED <<row, data, req, turns, topic, outbox, budget>>

CommitOffset(w) ==
    /\ run[w].pc = "done"
    /\ run' = [run EXCEPT ![w] = Idle]
    /\ UNCHANGED <<row, data, req, turns, queue, budget>>

\* A database or broker fault escapes the handler; _process_guarded absorbs it and
\* the record is passed over.
Escapes(w) ==
    /\ run[w].pc \in {"handle", "produce"}
    /\ Fault
    /\ run' = [run EXCEPT ![w] = Idle]
    /\ UNCHANGED <<row, data, req, turns, queue>>

\* The process dies: its record is delivered again, its id never comes back.
Crash(w) ==
    /\ run[w].pc # "idle"
    /\ Fault
    /\ row' = IF Owns(w) THEN [row EXCEPT !.owner = Dead] ELSE row
    /\ topic' = topic \cup {[job |-> run[w].job, attempt |-> run[w].attempt]}
    /\ run' = [run EXCEPT ![w] = Idle]
    /\ UNCHANGED <<data, req, turns, retry, outbox>>

\* renew_until_lost.
Heartbeat(w) ==
    /\ run[w].beating
    /\ ~Owns(w) \/ row.lease # "live"
    /\ row' = RenewedRow(w)
    /\ run' = [run EXCEPT ![w] = [@ EXCEPT !.beating = Owns(w)]]
    /\ UNCHANGED <<data, req, turns, queue, budget>>

HeartbeatFails(w) ==
    /\ HeartbeatMayFail /\ run[w].beating
    /\ Fault
    /\ run' = [run EXCEPT ![w] = [@ EXCEPT !.beating = FALSE]]
    /\ UNCHANGED <<row, data, req, turns, queue>>

-----------------------------------------------------------------------------
(* The broker, the clock, the retry consumers and the sweep *)

\* A rebalance hands the record of a running job to another worker as well.
Redeliver(w) ==
    /\ run[w].pc # "idle"
    /\ Fault
    /\ topic' = topic \cup {[job |-> run[w].job, attempt |-> run[w].attempt]}
    /\ UNCHANGED <<row, data, req, turns, run, retry, outbox>>

RetryDue(m) ==
    /\ m \in retry
    /\ retry' = retry \ {m}
    /\ topic' = topic \cup {m}
    /\ UNCHANGED <<row, data, req, turns, run, outbox, budget>>

\* The re-produce fails and is absorbed; the next commit acknowledges the record.
RetryLost(m) ==
    /\ m \in retry
    /\ Fault
    /\ retry' = retry \ {m}
    /\ UNCHANGED <<row, data, req, turns, run, topic, outbox>>

\* The owner renewed its lease less than a renewal interval ago: it is in its run, or
\* has just left it to record the outcome.
Holding(w) == Owns(w) /\ (run[w].beating \/ run[w].pc = "proposed")

LeaseExpires ==
    /\ Live /\ row.lease = "live"
    /\ ~\E w \in Workers : Holding(w)
    /\ row' = [row EXCEPT !.lease = "expired"]
    /\ UNCHANGED <<data, req, turns, run, queue, budget>>

\* A stalled worker is outrun by its own lease; its next tick comes too late.
LeaseOutrun ==
    /\ HeartbeatMayFail /\ Live /\ row.lease = "live"
    /\ \E w \in Workers : Holding(w)
    /\ Fault
    /\ row' = [row EXCEPT !.lease = "expired"]
    /\ UNCHANGED <<data, req, turns, run, queue>>

\* STRANDED_AFTER_SECONDS pass without a write, where the sweep would look.
Age ==
    /\ Live /\ row.status = "generating" /\ row.lease # "live" /\ ~row.aged
    /\ row' = [row EXCEPT !.aged = TRUE]
    /\ UNCHANGED <<data, req, turns, run, queue, budget>>

\* reconcile_modules_once: the row is stamped, and a message for it is owed.
Sweep ==
    /\ Stranded
    /\ Cardinality(topic) + outbox < MaxQueue
    /\ row' = [row EXCEPT !.aged = FALSE]
    /\ outbox' = outbox + 1
    /\ UNCHANGED <<data, req, turns, run, topic, retry, budget>>

-----------------------------------------------------------------------------
UserStep(u) ==
    \/ RequestRead(u)
    \/ \E c \in ChangeSets : RequirePending(u, c)

\* What a request goes on to do.
UserProgress(u) ==
    RequestCommit(u) \/ RequireModule(u) \/ LoadItems(u) \/ ApplyCommit(u) \/ DiscardCommit(u)

ItemStep ==
    \/ \E i \in Items : CreateItem(i) \/ UpdateItem(i) \/ DeleteItem(i)
                          \/ \E v \in Verdicts \cup {Untested} : SetResult(i, v)
    \/ ClearResults

WorkerStep(w) ==
    \/ \E m \in topic : Claim(w, m) \/ Skip(w, m)
    \/ Propose(w) \/ Finish(w) \/ Fail(w) \/ Defer(w) \/ RouteFailure(w)
    \/ CommitOffset(w) \/ Heartbeat(w)

WorkerFault(w) ==
    \/ \E m \in topic : ClaimRaises(w, m)
    \/ \E error \in {"terminal", "retryable", "unexpected", "aborted"} : Raises(w, error)
    \/ Escapes(w) \/ Crash(w) \/ HeartbeatFails(w) \/ Redeliver(w)

Next ==
    \/ \E u \in Users : UserStep(u) \/ UserProgress(u)
    \/ Update \/ Delete \/ PrepareTurn \/ FinaliseTurn
    \/ ItemStep
    \/ Publish \/ PublishLost
    \/ \E w \in Workers : WorkerStep(w) \/ WorkerFault(w)
    \/ \E m \in retry : RetryDue(m) \/ RetryLost(m)
    \/ LeaseExpires \/ LeaseOutrun \/ Age \/ Sweep

Spec == Init /\ [][Next]_vars

\* Consumers poll, the sweep and the clock tick, a handler or request that began goes
\* on.  Nobody has to ask for anything, and nothing has to fail.
Fairness ==
    /\ \A w \in Workers : WF_vars(WorkerStep(w))
    /\ \A u \in Users : WF_vars(UserProgress(u))
    /\ WF_vars(Publish) /\ WF_vars(LeaseExpires) /\ WF_vars(Age) /\ WF_vars(Sweep)
    /\ WF_vars(\E m \in retry : RetryDue(m))

FairSpec == Spec /\ Fairness

-----------------------------------------------------------------------------
(* Properties that hold *)

\* Two workers whose heartbeats are alive are never generating for the same module,
\* whatever the topic, the retry rungs and the sweep deliver.
OneGenerator ==
    \A v, w \in Workers : run[v].beating /\ run[w].beating => v = w

\* The Review-changes badge is never on a module with nothing to review, although
\* decisions, chat turns and generations overlap without a lock between them.
ReviewHasProposal ==
    Live /\ row.status = "review" => \E c \in ChangeSets : Pending(c)

\* Wording that a model wrote is on an item only once somebody decided its change set.
ModelTextWasReviewed ==
    \A i \in Items, c \in ChangeSets :
        items[i].by = c => sets[c].status \in {"applied", "discarded"}

\* A transaction that decides a change set or moves the module never changes a result
\* recorded on an item, even one recorded between its read and its commit.
ResultsAreTheTesters ==
    [][\A i \in Items :
         items[i].state = "live" /\ items'[i].result # items[i].result
           => row' = row /\ sets' = sets]_vars

\* A generation's proposal appears only in the transaction that takes the module to
\* `review` and drops the lease: a run that lost its lease leaves nothing behind.
ProposalLandsWithRelease ==
    [][\A c \in ChangeSets :
         sets[c].status = "absent" /\ sets'[c].status = "pending"
             /\ sets'[c].origin = "generation"
           => row.owner \in Workers /\ row'.status = "review" /\ row'.lease = "none"]_vars

\* The proposals that came from generations.
Generated == {c \in ChangeSets : sets[c].status # "absent" /\ sets[c].origin = "generation"}

Work == INSTANCE LeasedWork WITH
    Nobody <- None, holder <- row.owner, live <- row.lease = "live",
    results <- Cardinality(Generated), deleted <- row.deleted

\* Generation keeps the promise of the lease whatever is redelivered, retried or swept
\* and although heartbeats die: one tenure at a time, taken only when no lease is live,
\* and a proposal only from the worker the row still names, as its tenure ends.
LeaseHonoured == Work!Spec

\* A module shown as generating stops being so: the job ends, or another replaces it.
GenerationSettles == (Live /\ row.status = "generating") ~> (~Live \/ row.status # "generating")

=============================================================================
