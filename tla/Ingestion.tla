------------------------------ MODULE Ingestion ------------------------------
(***************************************************************************)
(* Indexing one project: the `projects` row and its lease, the ingest      *)
(* topic with its retry ladder, the workers that claim and run jobs, the   *)
(* reconcile sweep, project deletion, and the vector store they share.     *)
(*                                                                         *)
(* One project is modelled: messages are keyed by project, so a project's  *)
(* jobs share one partition and meet another project's only by waiting     *)
(* for a worker, and waiting is already unbounded here.                    *)
(*                                                                         *)
(* Time is not a number.  A lease is "live" until a time-out step makes it *)
(* "expired", and every age the sweep looks at may have been reached.      *)
(* Every database transaction is one step; everything the code awaits      *)
(* between two transactions is a place where the others may move.          *)
(* A live lease outlasts the moment between a claim and its first renewal. *)
(***************************************************************************)
EXTENDS Naturals, Sequences, FiniteSets

CONSTANTS
    Workers,       \* ingestion worker processes
    JobIds,        \* pool standing for uuid4(); an id is reused only once no copy of it is left
    Commits,       \* what the branch may point at when a run clones it
    ChunksOf,      \* commit -> the chunk slots (file, chunk index) it produces
    MaxAttempts,   \* settings.kafka_max_attempts
    Rungs,         \* len(RETRY_TOPICS)
    MaxGen,        \* bound: generations
    MaxQueue,      \* bound: records not fetched yet plus unpublished messages
    MaxRequests,   \* bound: reindex requests
    MaxEvals,      \* bound: eval runs started
    MaxFaults,     \* bound: failures, crashes, rebalances, lost or doubled messages
    HeartbeatMayFail \* whether renewals may die or come too late under a live run

ASSUME IngestionAssumption ==
    /\ MaxAttempts \in Nat \ {0}
    /\ Rungs \in Nat
    /\ MaxGen \in Nat /\ MaxQueue \in Nat /\ MaxRequests \in Nat
    /\ MaxEvals \in Nat /\ MaxFaults \in Nat
    /\ HeartbeatMayFail \in BOOLEAN
    /\ ChunksOf \in [Commits -> SUBSET Nat]

None == "none"   \* SQL NULL, for owner, job and commit columns
Dead == "dead"   \* the id of a worker process that is gone; a restart draws a new one

ASSUME NoneAssumption ==
    /\ None \notin Workers \cup JobIds \cup Commits
    /\ Dead \notin Workers /\ Dead # None

VARIABLES
    row,       \* the projects row
    points,    \* Qdrant: the project's points, at most one per (generation, slot)
    run,       \* worker -> the ingestion job it is in
    log,       \* the partition: records past the committed offset
    position,  \* how many of them the current holder has fetched
    holder,    \* the group member the partition is assigned to
    retry,     \* records waiting on the retry rungs
    outbox,    \* messages committed to be published and not yet on the partition
    del,       \* the DELETE request in flight
    evalRun,   \* the project's eval run
    budget     \* what is left of each bound

vars == <<row, points, run, log, position, holder, retry, outbox, del, evalRun, budget>>
kafka == <<log, position, holder, retry, outbox>>

-----------------------------------------------------------------------------
ProjectStatus == {"absent", "pending", "cloning", "indexing", "ready", "failed"}
BUSY_STATUSES == {"pending", "cloning", "indexing"}

Message == [job : JobIds, attempt : Nat]

\* `late` is not the program's: whoever wrote the point had lost the row by then.
Point == [gen : Nat, slot : Nat, commit : Commits, late : BOOLEAN]

Project ==
    [status : ProjectStatus, deleted : BOOLEAN, flag : BOOLEAN,
     lease : {"none", "live", "expired"}, owner : Workers \cup {None, Dead},
     lastJob : JobIds \cup {None},
     gen : Nat, collection : BOOLEAN, commit : Commits \cup {None}]

Stage == {"idle", "claimed", "clone", "index", "drop", "discard",
          "route", "produce", "done", "raised"}

Job ==
    [pc : Stage, job : JobIds \cup {None}, attempt : Nat, unexpected : BOOLEAN,
     seen : ProjectStatus, gen : Nat, commit : Commits \cup {None}, todo : SUBSET Nat,
     beating : BOOLEAN, mine : BOOLEAN]

Idle == [pc |-> "idle", job |-> None, attempt |-> 0, unexpected |-> FALSE,
         seen |-> "absent", gen |-> 0, commit |-> None, todo |-> {},
         beating |-> FALSE, mine |-> FALSE]

Deletion == [pc : {"idle", "read", "flushed", "wiped"}, saw : BOOLEAN, wiped : BOOLEAN]
EvalReader == [state : {"none", "queued", "reading"}, gen : Nat]
Budget == [requests : Nat, evals : Nat, faults : Nat]

TypeOK ==
    /\ row \in Project
    /\ points \in SUBSET Point
    /\ run \in [Workers -> Job]
    /\ log \in Seq(Message)
    /\ position \in Nat
    /\ holder \in Workers
    /\ retry \in SUBSET Message
    /\ outbox \in Nat
    /\ del \in Deletion
    /\ evalRun \in EvalReader
    /\ budget \in Budget

Init ==
    /\ row = [status |-> "absent", deleted |-> FALSE, flag |-> FALSE,
              lease |-> "none", owner |-> None, lastJob |-> None,
              gen |-> 0, collection |-> FALSE, commit |-> None]
    /\ points = {}
    /\ run = [w \in Workers |-> Idle]
    /\ log = <<>> /\ position = 0 /\ holder \in Workers
    /\ retry = {} /\ outbox = 0
    /\ del = [pc |-> "idle", saw |-> FALSE, wiped |-> FALSE]
    /\ evalRun = [state |-> "none", gen |-> 0]
    /\ budget = [requests |-> MaxRequests, evals |-> MaxEvals, faults |-> MaxFaults]

-----------------------------------------------------------------------------
(* Helpers *)

\* The row exists for the API and for every guarded UPDATE.
Live == row.status # "absent" /\ ~row.deleted

\* No transaction holds the row's lock.  Only deletion keeps it across an await.
RowFree == del.pc \in {"idle", "read"}

InRun(w) == run[w].pc \in {"claimed", "clone", "index"}

UsedIds == {log[i].job : i \in 1..Len(log)} \cup {m.job : m \in retry}
             \cup {run[w].job : w \in Workers} \cup {row.lastJob}

\* uuid4(): an id no record, run or row carries.  Ids are only ever compared.
FreshIds == JobIds \ UsedIds

Generation(g) == {p \in points : p.gen = g}

\* One fault is spent; nothing else in the budget moves.
Fault == /\ budget.faults > 0
         /\ budget' = [budget EXCEPT !.faults = @ - 1]

Owns(w) == row.owner = w

\* The worker's job moves to a stage, with its heartbeat as it is or stopped.
Move(w, stage) == run' = [run EXCEPT ![w] = [@ EXCEPT !.pc = stage]]
Stop(w, stage) == run' = [run EXCEPT ![w] = [@ EXCEPT !.pc = stage, !.beating = FALSE]]

-----------------------------------------------------------------------------
(* lease.py: the five statements on the row, as the row they leave behind *)

\* Mutant: the claim no longer looks at the lease.
ClaimableUnderALiveLease(j) == Live /\ row.lastJob # j

Claimable(j) == Live /\ row.lastJob # j /\ row.lease # "live"

\* ProjectRepository.claim: a ready project stays ready and raises the flag.
ClaimedRow(w, j) ==
    [row EXCEPT !.owner = w, !.lease = "live", !.lastJob = j,
                !.status = IF row.status = "ready" THEN "ready" ELSE "cloning",
                !.flag = (row.status = "ready")]

\* ProjectRepository.renew_lease: guarded on the owner only.
RenewedRow(w) == IF Owns(w) THEN [row EXCEPT !.lease = "live"] ELSE row

\* ProjectRepository.set_status: guarded on the primary key only.
StatusRow(s) == [row EXCEPT !.status = s]

\* release_lease's WHERE clause.
Releasable(w) == Owns(w) /\ ~row.deleted

\* Mutant: the lease is dropped and the outcome is not written.
ReleasedRowWithoutStatus(j, s) ==
    [row EXCEPT !.flag = FALSE, !.owner = None, !.lease = "none", !.lastJob = j]

ReleasedRow(j, s) ==
    [row EXCEPT !.status = s, !.flag = FALSE, !.owner = None, !.lease = "none",
                !.lastJob = j]

\* ProjectRepository.abandon: the lease is expired, the owner stays.
AbandonedRow(w) ==
    IF Owns(w) THEN [row EXCEPT !.lease = "expired", !.flag = FALSE] ELSE row

\* Mutant: find_stranded before it grew its third branch.
StrandedTwoBranches ==
    /\ Live
    /\ \/ row.status = "pending" /\ row.lease = "none"
       \/ row.lease = "expired"

\* ProjectRepository.find_stranded, with every age reached.
Stranded ==
    /\ Live
    /\ \/ row.status = "pending" /\ row.lease = "none"
       \/ row.lease = "expired"
       \/ row.flag /\ row.lease = "none"

-----------------------------------------------------------------------------
(* The API process *)

\* ProjectService.create: the row is committed, then the publish is attempted.
Create ==
    /\ row.status = "absent"
    /\ row' = StatusRow("pending")
    /\ outbox' = outbox + 1
    /\ UNCHANGED <<points, run, log, position, holder, retry, del, evalRun, budget>>

\* ProjectService.reindex: under the row lock, the flag goes up before the publish.
Reindex ==
    /\ Live /\ RowFree
    /\ row.status \notin BUSY_STATUSES /\ ~row.flag
    /\ evalRun.state = "none"
    /\ budget.requests > 0
    /\ budget' = [budget EXCEPT !.requests = @ - 1]
    /\ row' = [row EXCEPT !.flag = TRUE]
    /\ outbox' = outbox + 1
    /\ UNCHANGED <<points, run, log, position, holder, retry, del, evalRun>>

\* Mutant: a message nobody owes is published.
PublishUnasked ==
    /\ outbox' = outbox - 1
    /\ \E j \in FreshIds : log' = Append(log, [job |-> j, attempt |-> 0])
    /\ UNCHANGED <<row, points, run, position, holder, retry, del, evalRun, budget>>

\* KafkaIngestionQueue.enqueue of a message some transaction decided on.
Publish ==
    /\ outbox > 0
    /\ outbox' = outbox - 1
    /\ \E j \in FreshIds : log' = Append(log, [job |-> j, attempt |-> 0])
    /\ UNCHANGED <<row, points, run, position, holder, retry, del, evalRun, budget>>

\* The broker refuses it, or the publishing process dies first.
PublishLost ==
    /\ outbox > 0
    /\ Fault
    /\ outbox' = outbox - 1
    /\ UNCHANGED <<row, points, run, log, position, holder, retry, del, evalRun>>

\* EvalService.start_run: refused unless the index is served and stable.
StartEvalRun ==
    /\ Live /\ RowFree
    /\ row.status = "ready" /\ row.collection /\ ~row.flag
    /\ evalRun.state = "none"
    /\ budget.evals > 0
    /\ budget' = [budget EXCEPT !.evals = @ - 1]
    /\ evalRun' = [state |-> "queued", gen |-> 0]
    /\ UNCHANGED <<row, points, run, kafka, del>>

\* EvalRunner reads active_generation once and scores every pair against it.
ReadEvalGeneration ==
    /\ evalRun.state = "queued"
    /\ Live
    /\ evalRun' = [state |-> "reading", gen |-> row.gen]
    /\ UNCHANGED <<row, points, run, kafka, del, budget>>

\* The run ends, or the project's deletion takes it along.
FinishEvalRun ==
    /\ evalRun.state # "none"
    /\ evalRun' = [state |-> "none", gen |-> 0]
    /\ UNCHANGED <<row, points, run, kafka, del, budget>>

(* ProjectService.delete, split where it awaits. *)

\* require_readable_project: the row is read, embedding_collection with it.
DeleteRead ==
    /\ del.pc = "idle" /\ Live
    /\ del' = [del EXCEPT !.pc = "read", !.saw = row.collection]
    /\ UNCHANGED <<row, points, run, kafka, evalRun, budget>>

\* soft_delete flushes the UPDATE: the row stays locked until the end.
DeleteFlush ==
    /\ del.pc = "read"
    /\ del' = [del EXCEPT !.pc = "flushed"]
    /\ UNCHANGED <<row, points, run, kafka, evalRun, budget>>

\* store.delete_project, only for a project that was read with a collection.
DeleteWipe ==
    /\ del.pc = "flushed" /\ del.saw
    /\ points' = {}
    /\ del' = [del EXCEPT !.pc = "wiped", !.wiped = TRUE]
    /\ UNCHANGED <<row, run, kafka, evalRun, budget>>

DeleteCommit ==
    /\ \/ del.pc = "flushed" /\ ~del.saw
       \/ del.pc = "wiped"
    /\ row' = [row EXCEPT !.deleted = TRUE]
    /\ evalRun' = [state |-> "none", gen |-> 0]
    /\ del' = [del EXCEPT !.pc = "idle"]
    /\ UNCHANGED <<points, run, kafka, budget>>

\* Qdrant refuses (503), or the API process dies: nothing is committed.
DeleteAbort ==
    /\ del.pc \in {"flushed", "wiped"}
    /\ Fault
    /\ del' = [del EXCEPT !.pc = "idle"]
    /\ UNCHANGED <<row, points, run, kafka, evalRun>>

-----------------------------------------------------------------------------
(* The worker process: PausingConsumer around handle_message *)

\* handle_message's claim, on the next record of the partition.
Claim(w) ==
    /\ run[w].pc = "idle" /\ holder = w /\ position < Len(log)
    /\ RowFree
    /\ row.gen < MaxGen
    /\ LET m == log[position + 1] IN
         /\ Claimable(m.job)
         /\ row' = ClaimedRow(w, m.job)
         /\ run' = [run EXCEPT ![w] = [Idle EXCEPT !.pc = "claimed", !.job = m.job,
                        !.attempt = m.attempt, !.beating = TRUE, !.mine = TRUE]]
    /\ position' = position + 1
    /\ UNCHANGED <<points, log, holder, retry, outbox, del, evalRun, budget>>

\* JobOutcome.SKIPPED: a live lease, a finished job id, or a deleted row.
Skip(w) ==
    /\ run[w].pc = "idle" /\ holder = w /\ position < Len(log)
    /\ RowFree
    /\ LET m == log[position + 1] IN
         /\ ~Claimable(m.job)
         /\ run' = [run EXCEPT ![w] = [Idle EXCEPT !.pc = "done", !.job = m.job,
                                                  !.mine = TRUE]]
    /\ position' = position + 1
    /\ UNCHANGED <<row, points, log, holder, retry, outbox, del, evalRun, budget>>

\* IngestionPipeline.run reads the row it was claimed on; a deleted one ends the job.
Load(w) ==
    /\ run[w].pc = "claimed"
    /\ IF Live
       THEN run' = [run EXCEPT ![w] = [@ EXCEPT !.pc = "clone", !.seen = row.status,
                                                !.gen = row.gen]]
       ELSE Stop(w, "done")
    /\ UNCHANGED <<row, points, kafka, del, evalRun, budget>>

\* _advance_status: a first index moves on to `indexing`, a reindex stays `ready`.
AdvancedRow(w) == IF run[w].seen = "ready" THEN row ELSE StatusRow("indexing")

\* The clone returns commit c.
CloneDone(w, c) ==
    /\ run[w].pc = "clone"
    /\ RowFree
    /\ row' = AdvancedRow(w)
    /\ run' = [run EXCEPT ![w] = [@ EXCEPT !.pc = "index", !.commit = c,
                                           !.todo = ChunksOf[c]]]
    /\ UNCHANGED <<points, kafka, del, evalRun, budget>>

\* The point a run writes for a slot: under the generation after the one it read.
Chunk(w, s) ==
    [gen |-> run[w].gen + 1, slot |-> s, commit |-> run[w].commit, late |-> ~Owns(w)]

\* Mutant: a point that is there already is not written again.
UpsertedIfAbsent(q) ==
    IF \E p \in points : p.gen = q.gen /\ p.slot = q.slot THEN points ELSE points \cup {q}

\* QdrantVectorStore.upsert: point_id is made of slot and generation, so whoever wrote
\* this one before is overwritten.
Upserted(q) == {p \in points : p.gen # q.gen \/ p.slot # q.slot} \cup {q}

\* _flush: one batch embedded and upserted.
Flush(w) ==
    /\ run[w].pc = "index"
    /\ \E s \in run[w].todo :
         /\ \A t \in run[w].todo : s <= t
         /\ points' = Upserted(Chunk(w, s))
         /\ run' = [run EXCEPT ![w].todo = @ \ {s}]
    /\ UNCHANGED <<row, kafka, del, evalRun, budget>>

\* release(READY): the pointer flips, if the row is still ours to write.
ReleaseReady(w) ==
    /\ run[w].pc = "index" /\ run[w].todo = {}
    /\ RowFree
    /\ IF Releasable(w)
       THEN /\ row' = [ReleasedRow(run[w].job, "ready") EXCEPT
                          !.gen = run[w].gen + 1, !.collection = TRUE,
                          !.commit = run[w].commit]
            /\ Stop(w, "drop")
       ELSE /\ row' = row
            /\ Stop(w, "discard")
    /\ UNCHANGED <<points, kafka, del, evalRun, budget>>

\* delete_generation of what the flip superseded; a first index superseded nothing.
DropSuperseded(w) ==
    /\ run[w].pc = "drop"
    /\ points' = IF run[w].gen = 0 THEN points ELSE points \ Generation(run[w].gen)
    /\ Move(w, "done")
    /\ UNCHANGED <<row, kafka, del, evalRun, budget>>

\* Mutant: a refused run drops its generation whoever holds the project now.
DiscardAlways(w) ==
    /\ run[w].pc = "discard"
    /\ points' = points \ Generation(run[w].gen + 1)
    /\ Move(w, "done")
    /\ UNCHANGED <<row, kafka, del, evalRun, budget>>

\* _discard_unclaimed_generation: only a deleted project's points go.
Discard(w) ==
    /\ run[w].pc = "discard"
    /\ points' = IF Live THEN points ELSE points \ Generation(run[w].gen + 1)
    /\ Move(w, "done")
    /\ UNCHANGED <<row, kafka, del, evalRun, budget>>

\* Where a terminal failure refused its release goes: a run that wrote under a
\* generation discards it, and a discard that fails may be the handler's own.
AfterRefusal(pc) ==
    CASE pc = "clone" -> {"done"}
      [] pc \in {"index", "drop"} -> {"discard"}
      [] OTHER -> {"discard", "done"}

\* TerminalIngestionError: `failed` is recorded if the row is still ours.
FailTerminal(w) ==
    /\ run[w].pc \in {"clone", "index", "drop", "discard"}
    /\ RowFree /\ Fault
    /\ IF Releasable(w)
       THEN /\ row' = ReleasedRow(run[w].job, "failed")
            /\ Stop(w, "done")
       ELSE /\ row' = row
            /\ \E next \in AfterRefusal(run[w].pc) : Stop(w, next)
    /\ UNCHANGED <<points, kafka, del, evalRun>>

\* RetryableIngestionError: the lease and the points are left as they are.
FailRetryable(w) ==
    /\ run[w].pc \in {"clone", "index", "drop", "discard"}
    /\ Fault
    /\ Stop(w, "route")
    /\ UNCHANGED <<row, points, kafka, del, evalRun>>

\* Any other exception: the run is abandoned, then routed with one retry at most.
\* Reading the row ("claimed") is outside the pipeline's try, so nothing is abandoned;
\* nor is it when the abandon's own transaction fails.
FailUnexpected(w) ==
    /\ run[w].pc \in {"claimed", "clone", "index", "drop", "discard"}
    /\ RowFree /\ Fault
    /\ \/ row' = row
       \/ run[w].pc # "claimed" /\ row' = AbandonedRow(w)
    /\ run' = [run EXCEPT ![w] = [@ EXCEPT !.pc = "route", !.unexpected = TRUE,
                                           !.beating = FALSE]]
    /\ UNCHANGED <<points, kafka, del, evalRun>>

\* next_destination, with _route_failure's shortcut for unclassified errors.
Spent(attempt, unexpected) ==
    \/ unexpected /\ attempt >= 1
    \/ attempt >= MaxAttempts - 1
    \/ attempt >= Rungs

\* _route_failure, rungs left: hold the lease until the retry is due, then produce.
RouteRetry(w) ==
    /\ run[w].pc = "route" /\ ~Spent(run[w].attempt, run[w].unexpected)
    /\ RowFree
    /\ row' = RenewedRow(w)
    /\ Move(w, "produce")
    /\ UNCHANGED <<points, kafka, del, evalRun, budget>>

\* _route_failure, ladder spent: `failed` first, then the dead-letter record,
\* which nothing consumes.
RouteDead(w) ==
    /\ run[w].pc = "route" /\ Spent(run[w].attempt, run[w].unexpected)
    /\ RowFree
    /\ row' = IF Releasable(w) THEN ReleasedRow(run[w].job, "failed") ELSE row
    /\ Move(w, "done")
    /\ UNCHANGED <<points, kafka, del, evalRun, budget>>

\* produce_to(retry topic) with a fresh job id.
ProduceRetry(w) ==
    /\ run[w].pc = "produce"
    /\ \E j \in FreshIds :
         retry' = retry \cup {[job |-> j, attempt |-> run[w].attempt + 1]}
    /\ Move(w, "done")
    /\ UNCHANGED <<row, points, log, position, holder, outbox, del, evalRun, budget>>

\* The claim's own transaction fails; the record is passed over.
ClaimRaises(w) ==
    /\ run[w].pc = "idle" /\ holder = w /\ position < Len(log)
    /\ Fault
    /\ position' = position + 1
    /\ UNCHANGED <<row, points, run, log, holder, retry, outbox, del, evalRun>>

\* A database or broker fault escapes the job; _process_guarded absorbs it.
Raise(w) ==
    /\ run[w].pc \in {"route", "produce", "done"}
    /\ Fault
    /\ Move(w, "raised")
    /\ UNCHANGED <<row, points, kafka, del, evalRun>>

\* _commit, if the partition is still ours, then resume.
CommitOffset(w) ==
    /\ run[w].pc = "done"
    /\ IF run[w].mine
       THEN log' = SubSeq(log, position + 1, Len(log)) /\ position' = 0
       ELSE UNCHANGED <<log, position>>
    /\ run' = [run EXCEPT ![w] = Idle]
    /\ UNCHANGED <<row, points, holder, retry, outbox, del, evalRun, budget>>

\* The fetch position stays past the record that raised.
Absorb(w) ==
    /\ run[w].pc = "raised"
    /\ run' = [run EXCEPT ![w] = Idle]
    /\ UNCHANGED <<row, points, kafka, del, evalRun, budget>>

\* The process dies.  Its id dies with it; its partition is read again from the
\* committed offset by whoever is assigned next.
Crash(w) ==
    /\ run[w].pc # "idle"
    /\ Fault
    /\ run' = [run EXCEPT ![w] = Idle]
    /\ row' = IF Owns(w) THEN [row EXCEPT !.owner = Dead] ELSE row
    /\ IF holder = w
       THEN position' = 0 /\ holder' \in Workers
       ELSE UNCHANGED <<position, holder>>
    /\ UNCHANGED <<points, log, retry, outbox, del, evalRun>>

\* renew_until_lost: a tick extends our own lease, or finds it lost and ends the task.
Heartbeat(w) ==
    /\ run[w].beating /\ RowFree
    /\ ~Owns(w) \/ row.lease # "live"
    /\ row' = RenewedRow(w)
    /\ run' = [run EXCEPT ![w] = [@ EXCEPT !.beating = Owns(w)]]
    /\ UNCHANGED <<points, kafka, del, evalRun, budget>>

\* The heartbeat task ends on an exception; nothing in the run notices.
HeartbeatFails(w) ==
    /\ HeartbeatMayFail /\ InRun(w) /\ run[w].beating
    /\ Fault
    /\ run' = [run EXCEPT ![w] = [@ EXCEPT !.beating = FALSE]]
    /\ UNCHANGED <<row, points, kafka, del, evalRun>>

-----------------------------------------------------------------------------
(* The broker, the clock, the retry consumers and the sweep *)

\* The group reassigns the partition; fetching restarts at the committed offset.
Rebalance(w) ==
    /\ w # holder
    /\ Fault
    /\ holder' = w /\ position' = 0
    /\ run' = [v \in Workers |-> [run[v] EXCEPT !.mine = FALSE]]
    /\ UNCHANGED <<row, points, log, retry, outbox, del, evalRun>>

\* A lease runs out unless its owner is in a run and still renewing it.
LeaseExpires ==
    /\ Live /\ row.lease = "live"
    /\ ~\E w \in Workers : Owns(w) /\ run[w].beating
    /\ row' = [row EXCEPT !.lease = "expired"]
    /\ UNCHANGED <<points, run, kafka, del, evalRun, budget>>

\* A stalled worker is outrun by its own lease; its next tick comes too late.
LeaseOutrun ==
    /\ HeartbeatMayFail /\ Live /\ row.lease = "live"
    /\ \E w \in Workers : Owns(w) /\ run[w].beating
    /\ Fault
    /\ row' = [row EXCEPT !.lease = "expired"]
    /\ UNCHANGED <<points, run, kafka, del, evalRun>>

\* RetryConsumer: a due message is re-produced unchanged, then committed.  Its
\* not_before_ms was computed before the lease hold, so it may come first.
RetryDue(m) ==
    /\ m \in retry
    /\ Len(log) < MaxQueue + position
    /\ log' = Append(log, m)
    /\ retry' = retry \ {m}
    /\ UNCHANGED <<row, points, run, position, holder, outbox, del, evalRun, budget>>

\* The commit after the re-produce is lost: the record will be read again.
RetryDoubled(m) ==
    /\ m \in retry
    /\ Len(log) < MaxQueue + position
    /\ Fault
    /\ log' = Append(log, m)
    /\ UNCHANGED <<row, points, run, position, holder, retry, outbox, del, evalRun>>

\* The re-produce fails: _release_guarded absorbs it, the fetch position stays past
\* the record, and the next commit on the rung acknowledges it.
RetryLost(m) ==
    /\ m \in retry
    /\ Fault
    /\ retry' = retry \ {m}
    /\ UNCHANGED <<row, points, run, log, position, holder, outbox, del, evalRun>>

\* reconcile_once: a stranded project is found, and a message for it is owed.
Sweep ==
    /\ Stranded
    /\ Len(log) + outbox < MaxQueue + position
    /\ outbox' = outbox + 1
    /\ UNCHANGED <<row, points, run, log, position, holder, retry, del, evalRun, budget>>

-----------------------------------------------------------------------------
WorkerStep(w) ==
    \/ Claim(w) \/ Skip(w) \/ Load(w) \/ (\E c \in Commits : CloneDone(w, c))
    \/ Flush(w) \/ ReleaseReady(w) \/ DropSuperseded(w) \/ Discard(w)
    \/ RouteRetry(w) \/ RouteDead(w) \/ ProduceRetry(w)
    \/ CommitOffset(w) \/ Absorb(w) \/ Heartbeat(w)

WorkerFault(w) ==
    \/ FailTerminal(w) \/ FailRetryable(w) \/ FailUnexpected(w)
    \/ ClaimRaises(w) \/ Raise(w) \/ Crash(w) \/ HeartbeatFails(w) \/ Rebalance(w)

DeleteStep == DeleteRead \/ DeleteFlush \/ DeleteWipe \/ DeleteCommit \/ DeleteAbort

EvalStep == StartEvalRun \/ ReadEvalGeneration \/ FinishEvalRun

Next ==
    \/ Create \/ Reindex \/ Publish \/ PublishLost
    \/ EvalStep
    \/ DeleteStep
    \/ \E w \in Workers : WorkerStep(w) \/ WorkerFault(w)
    \/ LeaseExpires \/ LeaseOutrun \/ Sweep
    \/ \E m \in retry : RetryDue(m) \/ RetryDoubled(m) \/ RetryLost(m)

Spec == Init /\ [][Next]_vars

\* What the processes do without being asked: consumers poll, the sweep and the
\* clock tick, a handler that began goes on.  Requests and faults are not fair.
Fairness ==
    /\ \A w \in Workers : WF_vars(WorkerStep(w))
    /\ WF_vars(Publish) /\ WF_vars(Sweep) /\ WF_vars(LeaseExpires)
    /\ WF_vars(\E m \in retry : RetryDue(m))
    /\ WF_vars(DeleteFlush \/ DeleteWipe \/ DeleteCommit)

FairSpec == Spec /\ Fairness

-----------------------------------------------------------------------------
(* Properties that hold *)

\* Two workers whose heartbeats are alive are never inside the same project's run:
\* the claim is the deduplication boundary, whatever Kafka redelivers.
OneRunner ==
    \A v, w \in Workers :
        InRun(v) /\ run[v].beating /\ InRun(w) /\ run[w].beating => v = w

\* Every chunk slot of the commit a served project names holds that commit's chunk in
\* the generation served.  The one exception is a slot over which a worker that had lost
\* the project wrote: it holds a chunk, perhaps of the commit that worker had cloned.
\* A deletion that has reached the vector store leaves nothing.
ServedIndexComplete ==
    Live /\ row.status = "ready" /\ ~del.wiped =>
        \A s \in ChunksOf[row.commit] :
            \E p \in Generation(row.gen) : p.slot = s /\ (p.commit = row.commit \/ p.late)

\* The served generation moves one step at a time and never back: a run that derived
\* its number from an older pointer never lands.
PointerAdvancesByOne == [][row'.gen \in {row.gen, row.gen + 1}]_vars

Work == INSTANCE LeasedWork WITH
    Nobody <- None, holder <- row.owner, live <- row.lease = "live",
    results <- row.gen, deleted <- row.deleted

\* Indexing keeps the promise of the lease although heartbeats die and stale workers go
\* on: one tenure at a time, taken only when no lease is live, and a new generation
\* served only by the worker the row still names, as its tenure ends.
LeaseHonoured == Work!Spec

\* A run in flight when the project is deleted never writes its outcome: no flip, no
\* collection, no return to `ready`.
DeletedRowIsFinal ==
    [][row.deleted => /\ row'.deleted /\ row'.gen = row.gen
                      /\ row'.collection = row.collection
                      /\ row'.status = "ready" => row.status = "ready"]_vars

\* A project shown as cloning or indexing always has a lease on it, live or expired,
\* so either a worker is on it or the sweep will find it.
BusyIsRecoverable ==
    Live /\ row.status \in {"cloning", "indexing"} => row.lease # "none"

\* Every indexing run that was asked for comes to an end: the project stops looking
\* busy, whatever was lost, crashed or doubled on the way.
Settles ==
    (Live /\ (row.status \in BUSY_STATUSES \/ row.flag))
        ~> (~Live \/ (row.status \notin BUSY_STATUSES /\ ~row.flag))

=============================================================================
