------------------------------ MODULE MockData ------------------------------
(***************************************************************************)
(* The mock dataset of one checklist module: its row and lease, the        *)
(* generation jobs and chat turns that propose records, the decisions on   *)
(* their change sets, and the records themselves.                          *)
(*                                                                         *)
(* The dataset row is made by the first request or chat turn that needs    *)
(* it.  A chat turn checks the dataset before it streams and writes when   *)
(* the stream ends, minutes later; requests and decisions read and then    *)
(* commit, without a lock.  An update of a record writes its whole fields  *)
(* column, merged onto the fields that were loaded.                        *)
(*                                                                         *)
(* The topic is a set of records, as in Checklist: order and duplication   *)
(* are not decided here.  Field values are the change set that wrote them. *)
(***************************************************************************)
EXTENDS Naturals, FiniteSets

CONSTANTS
    Workers,      \* mock-data worker processes
    Users,        \* project members with a request in flight
    JobIds,       \* pool standing for uuid4(); an id is reused once no copy is left
    ChangeSets,   \* bound: change-set ids, each used once
    Records,      \* bound: record ids, each used once
    Keys,         \* the field keys of the dataset
    Proposals,    \* the operation sets a model may propose
    Unusable,     \* operations the wire schema refuses
    MaxAttempts,  \* settings.kafka_max_attempts
    Rungs,        \* len(MOCK_DATA_RETRY_TOPICS)
    MaxQueue,     \* bound: records on the topic plus unpublished messages
    MaxTurns,     \* bound: chat turns
    MaxRequests,  \* bound: generation requests
    MaxFaults,    \* bound: failures, crashes, redeliveries, lost messages
    None          \* SQL NULL

Dead == "dead"    \* the id of a worker process that is gone

Operation ==
    [op : {"add"}, record : {None}, keys : {Keys}] \cup
    [op : {"update"}, record : Records, keys : (SUBSET Keys) \ {{}}] \cup
    [op : {"remove"}, record : Records, keys : {{}}]

ASSUME MockDataAssumption ==
    /\ MaxAttempts \in Nat \ {0} /\ Rungs \in Nat /\ MaxQueue \in Nat
    /\ MaxTurns \in Nat /\ MaxRequests \in Nat /\ MaxFaults \in Nat
    /\ Proposals \subseteq SUBSET Operation /\ Unusable \subseteq Operation
    /\ None \notin Workers \cup JobIds \cup ChangeSets \cup Records
    /\ Dead \notin Workers \cup {None}

ASSUME FiniteAssumption == IsFiniteSet(ChangeSets)

VARIABLES
    row,      \* the mock_data_datasets row
    sets,     \* change-set id -> its row
    records,  \* record id -> its row
    req,      \* user -> the request in flight and what it has read
    turns,    \* chat turns being streamed
    run,      \* worker -> the generation job it is in
    topic,    \* records on the generation topic
    retry,    \* records waiting on the retry rungs
    outbox,   \* messages owed to the topic and not yet on it
    budget    \* what is left of each bound

vars == <<row, sets, records, req, turns, run, topic, retry, outbox, budget>>
data == <<sets, records>>
queue == <<topic, retry, outbox>>

-----------------------------------------------------------------------------
MockDataDatasetStatus == {"empty", "generating", "review", "ready", "failed"}

ASSUME NullAssumption == None \notin MockDataDatasetStatus

\* `status` is None until the row is made.
MockDataDataset ==
    [status : MockDataDatasetStatus \cup {None}, deleted : BOOLEAN,
     lease : {"none", "live", "expired"}, owner : Workers \cup {None, Dead},
     lastJob : JobIds \cup {None},
     aged : BOOLEAN]    \* updated_at is older than the sweep's cutoff

MockDataChangeSet ==
    [status : {"absent", "pending", "applied", "discarded"}, deleted : BOOLEAN,
     origin : {"generation", "chat"}, operations : SUBSET Operation]

MockDataRecord ==
    [state : {"absent", "live", "deleted"}, fields : [Keys -> ChangeSets \cup {None}]]

\* `crossed` is no data of the program's: another decision has committed since the read.
Request ==
    [pc : {"idle", "generate", "apply", "discard"}, set : ChangeSets \cup {None},
     seen : MockDataDatasetStatus \cup {None}, view : [Records -> MockDataRecord],
     crossed : BOOLEAN]

MockDataJobMessage == [job : JobIds, attempt : Nat]

Job ==
    [pc : {"idle", "running", "proposed", "handle", "produce", "done"},
     job : JobIds \cup {None}, attempt : Nat,
     error : {"none", "terminal", "retryable", "unexpected", "aborted"},
     beating : BOOLEAN]

TypeOK ==
    /\ row \in MockDataDataset
    /\ sets \in [ChangeSets -> MockDataChangeSet]
    /\ records \in [Records -> MockDataRecord]
    /\ req \in [Users -> Request]
    /\ turns \in Nat
    /\ run \in [Workers -> Job]
    /\ topic \in SUBSET MockDataJobMessage
    /\ retry \in SUBSET MockDataJobMessage
    /\ outbox \in Nat
    /\ budget \in [requests : Nat, turns : Nat, faults : Nat]

NoRecord == [state |-> "absent", fields |-> [k \in Keys |-> None]]
NoRequest == [pc |-> "idle", set |-> None, seen |-> None,
              view |-> [i \in Records |-> NoRecord], crossed |-> FALSE]
Idle == [pc |-> "idle", job |-> None, attempt |-> 0, error |-> "none", beating |-> FALSE]

Init ==
    /\ row = [status |-> None, deleted |-> FALSE, lease |-> "none", owner |-> None,
              lastJob |-> None, aged |-> FALSE]
    /\ sets = [c \in ChangeSets |->
                  [status |-> "absent", deleted |-> FALSE, origin |-> "chat", operations |-> {}]]
    /\ records = [i \in Records |-> NoRecord]
    /\ req = [u \in Users |-> NoRequest]
    /\ turns = 0
    /\ run = [w \in Workers |-> Idle]
    /\ topic = {} /\ retry = {} /\ outbox = 0
    /\ budget = [requests |-> MaxRequests, turns |-> MaxTurns, faults |-> MaxFaults]

-----------------------------------------------------------------------------
Live == ~row.deleted
Owns(w) == row.owner = w
ListForModule == {i \in Records : records[i].state = "live"}
Pending(c) == sets[c].status = "pending" /\ ~sets[c].deleted
PendingForModule == {c \in ChangeSets : Pending(c)}

FreshIds == JobIds \ ({m.job : m \in topic \cup retry} \cup {run[w].job : w \in Workers}
                        \cup {row.lastJob})

Spend(kind) == budget[kind] > 0 /\ budget' = [budget EXCEPT ![kind] = @ - 1]

Move(w, stage) == run' = [run EXCEPT ![w].pc = stage]

\* The row on first use: `empty`.
GetOrCreate == IF row.status = None THEN [row EXCEPT !.status = "empty"] ELSE row

\* stored_mock_data_operation drops what the wire schema cannot represent.
StoredOperations(proposed) == proposed \ Unusable

Store(c, origin, proposed) ==
    /\ sets[c].status = "absent"
    /\ sets' = [sets EXCEPT ![c] = [status |-> "pending", deleted |-> FALSE, origin |-> origin,
                                    operations |-> StoredOperations(proposed)]]

-----------------------------------------------------------------------------
\* MockDataDatasetRepository on the lease: the row each statement leaves behind.

Claimable(j) == Live /\ row.status # None /\ row.lastJob # j /\ row.lease # "live"

ClaimedRow(w, j) ==
    [row EXCEPT !.owner = w, !.lease = "live", !.lastJob = j, !.status = "generating",
                !.aged = FALSE]

RenewedRow(w) == IF Owns(w) THEN [row EXCEPT !.lease = "live", !.aged = FALSE] ELSE row

\* Mutant: the outcome is written whoever the row names.
ReleasableByAnyone(w) == Live

Releasable(w) == Owns(w) /\ Live

ReleasedRow(j, status) ==
    [row EXCEPT !.status = status, !.owner = None, !.lease = "none", !.lastJob = j,
                !.aged = FALSE]

\* mock_data_next_destination names the dead-letter topic, whose delay is zero.
LadderSpent(attempt) == attempt >= MaxAttempts - 1 \/ attempt >= Rungs

DeferredRow(attempt) ==
    [row EXCEPT !.lease = IF LadderSpent(attempt) THEN "expired" ELSE "live", !.aged = FALSE]

\* Mutant: a proposal moves the dataset to `review` whatever it is doing.
MarkedInReviewAlways ==
    IF Live THEN [row EXCEPT !.status = "review", !.aged = FALSE] ELSE row

MarkedInReview ==
    IF Live /\ row.status # "generating"
    THEN [row EXCEPT !.status = "review", !.aged = FALSE] ELSE row

Stranded == Live /\ row.status = "generating" /\ row.aged /\ row.lease # "live"

-----------------------------------------------------------------------------
\* MockDataDatasetService.

RequestRead(u) ==
    /\ req[u].pc = "idle" /\ Live
    /\ row.status # "generating" /\ PendingForModule = {}
    /\ Spend("requests")
    /\ req' = [req EXCEPT ![u] = [NoRequest EXCEPT !.pc = "generate", !.seen = row.status]]
    /\ UNCHANGED <<row, data, turns, run, queue>>

\* Two first requests both insert the row; the unique key fails the second.
RequestCommit(u) ==
    /\ req[u].pc = "generate"
    /\ req' = [req EXCEPT ![u] = NoRequest]
    /\ IF req[u].seen = None /\ row.status # None
       THEN UNCHANGED <<row, outbox>>
       ELSE /\ row' = [row EXCEPT !.status = "generating", !.aged = FALSE]
            /\ outbox' = outbox + 1
    /\ UNCHANGED <<data, turns, run, topic, retry, budget>>

\* A chat turn is refused while the dataset is generating.
PrepareTurn ==
    /\ Live /\ row.status # "generating"
    /\ Spend("turns")
    /\ row' = GetOrCreate
    /\ turns' = turns + 1
    /\ UNCHANGED <<data, req, run, queue>>

\* The stream ended, was cut off, or failed; a proposal it had made by then is kept.
FinaliseTurn ==
    /\ turns > 0
    /\ turns' = turns - 1
    /\ \/ /\ \E c \in ChangeSets, proposed \in Proposals : Store(c, "chat", proposed)
          /\ row' = MarkedInReview
       \/ UNCHANGED <<row, sets>>
    /\ UNCHANGED <<records, req, run, queue, budget>>

DeleteRecord(i) ==
    /\ Live /\ i \in ListForModule
    /\ records' = [records EXCEPT ![i].state = "deleted"]
    /\ UNCHANGED <<row, sets, req, turns, run, queue, budget>>

\* Deleting the module takes its dataset, change sets and records with it.
DeletedSets == [c \in ChangeSets |-> IF sets[c].status = "absent" THEN sets[c]
                                     ELSE [sets[c] EXCEPT !.deleted = TRUE]]
DeletedRecords == [i \in Records |-> IF records[i].state = "live"
                                     THEN [records[i] EXCEPT !.state = "deleted"]
                                     ELSE records[i]]
DeleteModule ==
    /\ Live
    /\ row' = [row EXCEPT !.deleted = TRUE]
    /\ sets' = DeletedSets
    /\ records' = DeletedRecords
    /\ UNCHANGED <<req, turns, run, queue, budget>>

-----------------------------------------------------------------------------
\* MockDataChangeSetService.

\* _require_pending, the records its operations name, and the dataset's status.
RequirePending(u, c) ==
    /\ req[u].pc = "idle" /\ Live /\ Pending(c)
    /\ \E decision \in {"apply", "discard"} :
         req' = [req EXCEPT ![u] = [NoRequest EXCEPT
                    !.pc = decision, !.set = c, !.seen = row.status,
                    !.view = [i \in Records |->
                                 IF \E o \in sets[c].operations : o.record = i
                                 THEN records[i] ELSE NoRecord]]]
    /\ UNCHANGED <<row, data, turns, run, queue, budget>>

Accepted(u, wanted, i, op) ==
    req[u].view[i].state = "live" /\ \E o \in wanted : o.record = i /\ o.op = op

\* Mutant: an update replaces the record's fields instead of merging into them.
MergedFieldsReplaced(u, wanted, i) ==
    LET named == UNION {o.keys : o \in {p \in wanted : p.record = i}} IN
    [k \in Keys |-> IF k \in named THEN req[u].set ELSE None]

\* The named keys over the fields as they were loaded.
MergedFields(u, wanted, i) ==
    LET named == UNION {o.keys : o \in {p \in wanted : p.record = i}} IN
    [k \in Keys |-> IF k \in named THEN req[u].set ELSE req[u].view[i].fields[k]]

\* An operation whose record was gone when it was loaded is skipped.
ApplyOne(u, wanted, new, i) ==
    [state |-> CASE i \in new -> "live"
                 [] Accepted(u, wanted, i, "remove") -> "deleted"
                 [] OTHER -> records[i].state,
     fields |-> CASE i \in new -> [k \in Keys |-> req[u].set]
                  [] Accepted(u, wanted, i, "update") -> MergedFields(u, wanted, i)
                  [] OTHER -> records[i].fields]

\* Mutant: the dataset's status is left as it was.
SettledRowUnsettled(seen, recordsLeft) == [row EXCEPT !.aged = FALSE]

\* `ready` or `empty`, written if it differs from the status loaded.
SettledRow(seen, recordsLeft) ==
    LET landed == IF recordsLeft THEN "ready" ELSE "empty" IN
    [row EXCEPT !.status = IF landed = seen THEN @ ELSE landed, !.aged = FALSE]

Decided(u, decision) ==
    /\ sets' = [sets EXCEPT ![req[u].set].status = decision]
    /\ req' = [v \in Users |->
                 IF v = u THEN NoRequest
                 ELSE IF req[v].pc = "idle" THEN req[v] ELSE [req[v] EXCEPT !.crossed = TRUE]]

Apply(u) ==
    /\ req[u].pc = "apply"
    /\ \E wanted \in SUBSET sets[req[u].set].operations, new \in SUBSET Records :
         /\ \A i \in new : records[i].state = "absent"
         /\ Cardinality(new) = Cardinality({o \in wanted : o.op = "add"})
         /\ records' = [i \in Records |-> ApplyOne(u, wanted, new, i)]
    /\ row' = SettledRow(req[u].seen, \E i \in Records : records'[i].state = "live")
    /\ Decided(u, "applied")
    /\ UNCHANGED <<turns, run, queue, budget>>

Discard(u) ==
    /\ req[u].pc = "discard"
    /\ row' = SettledRow(req[u].seen, ListForModule # {})
    /\ Decided(u, "discarded")
    /\ UNCHANGED <<records, turns, run, queue, budget>>

-----------------------------------------------------------------------------
\* The worker: handle_mock_data_message around MockDataGenerator.run.

Claim(w, m) ==
    /\ run[w].pc = "idle" /\ m \in topic /\ Claimable(m.job)
    /\ row' = ClaimedRow(w, m.job)
    /\ run' = [run EXCEPT ![w] = [Idle EXCEPT !.pc = "running", !.job = m.job,
                                    !.attempt = m.attempt, !.beating = TRUE]]
    /\ topic' = topic \ {m}
    /\ UNCHANGED <<data, req, turns, retry, outbox, budget>>

Skip(w, m) ==
    /\ run[w].pc = "idle" /\ m \in topic /\ ~Claimable(m.job)
    /\ topic' = topic \ {m}
    /\ UNCHANGED <<row, data, req, turns, run, retry, outbox, budget>>

\* The source is read and the model has answered; the heartbeat stops with it.
Propose(w) ==
    /\ run[w].pc = "running"
    /\ run' = [run EXCEPT ![w].pc = "proposed", ![w].beating = FALSE]
    /\ UNCHANGED <<row, data, req, turns, queue, budget>>

\* The change set is staged, the dataset released, and both committed -- or neither.
Finish(w) ==
    /\ run[w].pc = "proposed"
    /\ IF Releasable(w)
       THEN /\ \E c \in ChangeSets, proposed \in Proposals : Store(c, "generation", proposed)
            /\ row' = ReleasedRow(run[w].job, "review")
       ELSE UNCHANGED <<row, sets>>
    /\ Move(w, "done")
    /\ UNCHANGED <<records, req, turns, queue, budget>>

\* "aborted" is an unclassified failure that leaves the session's transaction unusable.
Raises(w, error) ==
    /\ \/ run[w].pc = "running"
       \/ run[w].pc = "proposed" /\ error \in {"terminal", "aborted"}
    /\ Spend("faults")
    /\ run' = [run EXCEPT ![w].pc = "handle", ![w].error = error, ![w].beating = FALSE]
    /\ UNCHANGED <<row, data, req, turns, queue>>

\* Which failures end the job: the except clauses.
Over(error, attempt) ==
    CASE error = "terminal" -> TRUE
      [] error = "retryable" -> LadderSpent(attempt)
      [] OTHER -> attempt >= 1

Fail(w) ==
    /\ run[w].pc = "handle" /\ Over(run[w].error, run[w].attempt)
    /\ row' = IF Releasable(w) /\ run[w].error # "aborted"
              THEN ReleasedRow(run[w].job, "failed") ELSE row
    /\ Move(w, "done")
    /\ UNCHANGED <<data, req, turns, queue, budget>>

Defer(w) ==
    /\ run[w].pc = "handle" /\ ~Over(run[w].error, run[w].attempt)
    /\ row' = IF Releasable(w) THEN DeferredRow(run[w].attempt) ELSE row
    /\ Move(w, "produce")
    /\ UNCHANGED <<data, req, turns, queue, budget>>

RouteFailure(w) ==
    /\ run[w].pc = "produce"
    /\ IF LadderSpent(run[w].attempt) THEN retry' = retry
       ELSE \E j \in FreshIds :
              retry' = retry \cup {[job |-> j, attempt |-> run[w].attempt + 1]}
    /\ Move(w, "done")
    /\ UNCHANGED <<row, data, req, turns, topic, outbox, budget>>

CommitOffset(w) ==
    /\ run[w].pc = "done"
    /\ run' = [run EXCEPT ![w] = Idle]
    /\ UNCHANGED <<row, data, req, turns, queue, budget>>

\* The process dies: its record is delivered again, its id never comes back.
Crash(w) ==
    /\ run[w].pc # "idle"
    /\ Spend("faults")
    /\ row' = IF Owns(w) THEN [row EXCEPT !.owner = Dead] ELSE row
    /\ topic' = topic \cup {[job |-> run[w].job, attempt |-> run[w].attempt]}
    /\ run' = [run EXCEPT ![w] = Idle]
    /\ UNCHANGED <<data, req, turns, retry, outbox>>

Renew(w) ==
    /\ run[w].beating
    /\ ~Owns(w) \/ row.lease # "live"
    /\ row' = RenewedRow(w)
    /\ run' = [run EXCEPT ![w].beating = Owns(w)]
    /\ UNCHANGED <<data, req, turns, queue, budget>>

\* A rebalance hands the record of a running job to another worker as well.
Redeliver(w) ==
    /\ run[w].pc # "idle"
    /\ Spend("faults")
    /\ topic' = topic \cup {[job |-> run[w].job, attempt |-> run[w].attempt]}
    /\ UNCHANGED <<row, data, req, turns, run, retry, outbox>>

-----------------------------------------------------------------------------
\* The broker, the clock, the retry consumer and the sweep.

Publish ==
    /\ outbox > 0
    /\ outbox' = outbox - 1
    /\ \E j \in FreshIds : topic' = topic \cup {[job |-> j, attempt |-> 0]}
    /\ UNCHANGED <<row, data, req, turns, run, retry, budget>>

PublishLost ==
    /\ outbox > 0
    /\ Spend("faults")
    /\ outbox' = outbox - 1
    /\ UNCHANGED <<row, data, req, turns, run, topic, retry>>

RetryDue(m) ==
    /\ m \in retry
    /\ retry' = retry \ {m} /\ topic' = topic \cup {m}
    /\ UNCHANGED <<row, data, req, turns, run, outbox, budget>>

\* A lease runs out once its owner has stopped renewing, or is stalled past it.
Expire ==
    /\ Live /\ row.lease = "live"
    /\ IF \E w \in Workers : Owns(w) /\ (run[w].beating \/ run[w].pc = "proposed")
       THEN Spend("faults") ELSE UNCHANGED budget
    /\ row' = [row EXCEPT !.lease = "expired"]
    /\ UNCHANGED <<data, req, turns, run, queue>>

Age ==
    /\ Live /\ row.status = "generating" /\ row.lease # "live" /\ ~row.aged
    /\ row' = [row EXCEPT !.aged = TRUE]
    /\ UNCHANGED <<data, req, turns, run, queue, budget>>

\* reconcile_mock_data_once: the row is stamped and a message for it owed.
Sweep ==
    /\ Stranded
    /\ Cardinality(topic) + outbox < MaxQueue
    /\ row' = [row EXCEPT !.aged = FALSE]
    /\ outbox' = outbox + 1
    /\ UNCHANGED <<data, req, turns, run, topic, retry, budget>>

-----------------------------------------------------------------------------
Progress(u) == RequestCommit(u) \/ Apply(u) \/ Discard(u)

WorkerStep(w) ==
    \/ \E m \in topic : Claim(w, m) \/ Skip(w, m)
    \/ Propose(w) \/ Finish(w) \/ Fail(w) \/ Defer(w) \/ RouteFailure(w)
    \/ CommitOffset(w) \/ Renew(w)

WorkerFault(w) ==
    \/ \E error \in {"terminal", "retryable", "unexpected", "aborted"} : Raises(w, error)
    \/ Crash(w) \/ Redeliver(w)

Next ==
    \/ \E u \in Users :
         RequestRead(u) \/ (\E c \in ChangeSets : RequirePending(u, c)) \/ Progress(u)
    \/ PrepareTurn \/ FinaliseTurn
    \/ (\E i \in Records : DeleteRecord(i)) \/ DeleteModule
    \/ \E w \in Workers : WorkerStep(w) \/ WorkerFault(w)
    \/ Publish \/ PublishLost \/ (\E m \in retry : RetryDue(m))
    \/ Expire \/ Age \/ Sweep

Spec == Init /\ [][Next]_vars

-----------------------------------------------------------------------------
\* The proposals generation has recorded.
Generated == {c \in ChangeSets : sets[c].status # "absent" /\ sets[c].origin = "generation"}

Work == INSTANCE LeasedWork WITH
    Nobody <- None, holder <- row.owner, live <- row.lease = "live",
    results <- Cardinality(Generated), deleted <- row.deleted

\* Whatever the queue redelivers, the ladder retries and the sweep repeats, generation
\* keeps the promise of the lease: one tenure at a time, and a proposal only from the
\* worker the row still names, in the transaction that ends its tenure.
LeaseHonoured == Work!Spec

\* "review" never stands over nothing to review, although turns, decisions and
\* generations overlap without a lock; and every state is well typed.
ReviewHasProposal == TypeOK /\ (Live /\ row.status = "review" => PendingForModule # {})

\* `generating` is "the only signal the reconcile sweep has" (mock_data_dataset.py:345):
\* a chat turn that began before the generation does not take it away when it ends
\* during it.  Only the run's outcome and a reviewer's decision do.
GeneratingIsKept ==
    [][Live /\ row.status = "generating" /\ row'.status # "generating"
         => \/ row.owner \in Workers /\ row'.owner = None
            \/ \E u \in Users : req[u].pc \in {"apply", "discard"} /\ req'[u].pc = "idle"]_vars

\* A decision nothing has crossed keeps every field value its operations do not name,
\* and never brings a deleted record back.
DecisionsTouchWhatTheyName ==
    [][\A u \in Users : req[u].pc = "apply" /\ req'[u].pc = "idle" /\ ~req[u].crossed
         => \A i \in Records :
              /\ records[i].state = "deleted" => records'[i].state = "deleted"
              /\ records[i].state # "absent" => \A k \in Keys :
                   records'[i].fields[k] # records[i].fields[k]
                     => \E o \in sets[req[u].set].operations : o.record = i /\ k \in o.keys]_vars
=============================================================================
