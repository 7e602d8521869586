-------------------------------- MODULE Eval --------------------------------
(***************************************************************************)
(* Eval sets and eval runs of one project.  A set is generated from the    *)
(* index, or translated pair for pair from a ready set; a run answers and  *)
(* judges a set's pairs, committing results in batches, and can be resumed *)
(* by another worker after a crash.  Both are jobs on one topic, leased    *)
(* with the statements of repositories/lease.py.                           *)
(*                                                                         *)
(* Requests that take row locks (start_run, delete_set, the translation    *)
(* part of create_set, reindex) are one step; create_set reads the project *)
(* before it and without a lock.  A set's pairs and a run's results are    *)
(* deleted with it in one transaction, so they carry no flag of their own. *)
(* The topic is a set of records: order is not decided here.               *)
(***************************************************************************)
EXTENDS Naturals, FiniteSets

CONSTANTS
    Workers,       \* eval worker processes
    Build,         \* worker -> the prompts and model it was deployed with
    Sets,          \* bound: eval-set ids, each used once
    Native,        \* bound: the ids among them for sets generated from the index
    Starts,        \* bound: where behaviours start: the sets that are ready, and how many set
                   \* creations, runs, toggled exclusions, reindexes and faults are to come
    Runs,          \* bound: eval-run ids, each used once
    Positions,     \* positions of a set's pairs
    JobIds,        \* pool standing for uuid4()
    Width,         \* settings.eval_answer_concurrency
    ResultBatch,   \* RESULT_BATCH
    MaxAttempts,   \* settings.kafka_max_attempts
    Rungs,         \* len(EVAL_RETRY_TOPICS)
    StallAtStart,  \* whether a worker may outstay its lease before its heartbeat starts
    MaxQueue,      \* bound: records on the topic plus unpublished messages
    None           \* SQL NULL

Dead == "dead"     \* the id of a worker process that is gone
Targets == Sets \cup Runs
Budget == [creations : Nat, runs : Nat, exclusions : Nat, reindexes : Nat, faults : Nat]

ASSUME EvalAssumption ==
    /\ Width \in Nat \ {0} /\ ResultBatch \in Nat \ {0}
    /\ MaxAttempts \in Nat \ {0} /\ Rungs \in Nat /\ StallAtStart \in BOOLEAN
    /\ MaxQueue \in Nat
    /\ None \notin Workers \cup JobIds \cup Sets \cup Runs
    /\ Dead \notin Workers \cup {None} /\ Sets \cap Runs = {} /\ Native \subseteq Sets
    /\ \A start \in Starts : start.ready \subseteq Native /\ start.budget \in Budget
    /\ Positions # {} /\ IsFiniteSet(Positions)

VARIABLES
    project,  \* what eval jobs read of the project row
    sets,     \* set id -> its row
    pairs,    \* set id -> its pairs by position
    runs,     \* run id -> its row
    results,  \* run id -> its committed results by position
    asked,    \* create_set requests that have passed the project's checks
    job,      \* worker -> the job it is in
    topic,    \* records on the eval topic
    retry,    \* records waiting on the retry rungs
    outbox,   \* jobs owed to the topic and not yet on it
    budget    \* what is left of each bound

vars == <<project, sets, pairs, runs, results, asked, job, topic, retry, outbox, budget>>
rows == <<sets, pairs, runs, results>>
queue == <<topic, retry, outbox>>

-----------------------------------------------------------------------------
\* `coming`: a reindex is queued or running, whatever the flag says.
Project == [generation : Nat, reindexing : BOOLEAN, coming : BOOLEAN, deleted : BOOLEAN]

Stamp == [build : {Build[w] : w \in Workers}, generation : Nat]

\* `working` is `generating` for a set and `running` for a run; `aged` says that updated_at
\* is older than the sweep's cutoff.
Status == {"absent", "working", "ready", "failed"}

SetRow ==
    [status : Status, deleted : BOOLEAN, lease : {"none", "live", "expired"},
     owner : Workers \cup {None, Dead}, lastJob : JobIds \cup {None}, aged : BOOLEAN,
     source : Sets \cup {None}, pairCount : Nat]

EvalPair == [state : {"absent", "live"}, excluded : BOOLEAN, faithful : BOOLEAN]

EvalVerdict == {"correct", "error"}

EvalResult == [verdict : EvalVerdict, stamp : Stamp] \cup {None}

ASSUME NullAssumption == None \notin Stamp \cup [verdict : EvalVerdict, stamp : Stamp]

Tally == [answered : Nat, correct : Nat, errors : Nat]

\* `steady` is no data of the program's: no pair was excluded or included since it started.
RunRow ==
    [status : Status, deleted : BOOLEAN, lease : {"none", "live", "expired"},
     owner : Workers \cup {None, Dead}, lastJob : JobIds \cup {None}, aged : BOOLEAN,
     set : Sets \cup {None}, stamp : Stamp \cup {None}, tally : Tally, steady : BOOLEAN]

EvalJobMessage == [target : Targets, job : JobIds, attempt : Nat]

\* `unsaved` holds the results the job's session has not committed.
Job ==
    [pc : {"idle", "claimed", "begun", "working", "over", "handle", "produce", "done"},
     target : Targets \cup {None}, job : JobIds \cup {None}, attempt : Nat,
     error : {"none", "terminal", "retryable", "unexpected"}, beating : BOOLEAN,
     stamp : Stamp \cup {None}, fresh : BOOLEAN,
     todo : SUBSET Positions, unsaved : [Positions -> EvalResult],
     made : [Positions -> EvalPair]]

TypeOK ==
    /\ project \in Project
    /\ sets \in [Sets -> SetRow]
    /\ pairs \in [Sets -> [Positions -> EvalPair]]
    /\ runs \in [Runs -> RunRow]
    /\ results \in [Runs -> [Positions -> EvalResult]]
    /\ asked \in BOOLEAN
    /\ job \in [Workers -> Job]
    /\ topic \in SUBSET EvalJobMessage /\ retry \in SUBSET EvalJobMessage
    /\ outbox \in SUBSET Targets
    /\ budget \in Budget

NoPair == [state |-> "absent", excluded |-> FALSE, faithful |-> TRUE]
NoTally == [answered |-> 0, correct |-> 0, errors |-> 0]
Idle == [pc |-> "idle", target |-> None, job |-> None, attempt |-> 0, error |-> "none",
         beating |-> FALSE, stamp |-> None, fresh |-> FALSE, todo |-> {},
         unsaved |-> [p \in Positions |-> None], made |-> [p \in Positions |-> NoPair]]

EvalSet(source) ==
    [status |-> "working", deleted |-> FALSE, lease |-> "none", owner |-> None,
     lastJob |-> None, aged |-> FALSE, source |-> source, pairCount |-> 0]

EvalRun(s) ==
    [status |-> "working", deleted |-> FALSE, lease |-> "none", owner |-> None,
     lastJob |-> None, aged |-> FALSE, set |-> s, stamp |-> None, tally |-> NoTally,
     steady |-> TRUE]

Init ==
    /\ project = [generation |-> 1, reindexing |-> FALSE, coming |-> FALSE, deleted |-> FALSE]
    /\ \E start \in Starts :
         /\ sets = [s \in Sets |-> IF s \in start.ready
                      THEN [EvalSet(None) EXCEPT !.status = "ready",
                                                 !.pairCount = Cardinality(Positions)]
                      ELSE [EvalSet(None) EXCEPT !.status = "absent", !.pairCount = 0]]
         /\ pairs = [s \in Sets |-> [p \in Positions |-> IF s \in start.ready
                      THEN [NoPair EXCEPT !.state = "live"] ELSE NoPair]]
         /\ budget = start.budget
    /\ runs = [r \in Runs |-> [EvalRun(None) EXCEPT !.status = "absent"]]
    /\ results = [r \in Runs |-> [p \in Positions |-> None]]
    /\ asked = FALSE
    /\ job = [w \in Workers |-> Idle]
    /\ topic = {} /\ retry = {} /\ outbox = {}

-----------------------------------------------------------------------------
Row(t) == IF t \in Sets THEN sets[t] ELSE runs[t]
Live(row) == row.status # "absent" /\ ~row.deleted
Working(t) == Live(Row(t)) /\ Row(t).status = "working"

Put(t, row) ==
    /\ sets' = IF t \in Sets THEN [sets EXCEPT ![t] = row] ELSE sets
    /\ runs' = IF t \in Runs THEN [runs EXCEPT ![t] = row] ELSE runs

Spend(kind) == budget[kind] > 0 /\ budget' = [budget EXCEPT ![kind] = @ - 1]

\* An id is reused once no copy of it is left for this target.
FreshIds(t) == JobIds \ ({m.job : m \in {x \in topic \cup retry : x.target = t}}
                           \cup {job[w].job : w \in {x \in Workers : job[x].target = t}}
                           \cup {Row(t).lastJob})

ListForSet(s) == {p \in Positions : pairs[s][p].state = "live"}
Included(s) == {p \in ListForSet(s) : ~pairs[s][p].excluded}

ActiveForSet(s) == {r \in Runs : Working(r) /\ runs[r].set = s}

LiveTranslation(s) == {x \in Sets : Live(sets[x]) /\ sets[x].source = s}
GeneratingTranslationOf(s) == {x \in LiveTranslation(s) : sets[x].status = "working"}

-----------------------------------------------------------------------------
\* repositories/lease.py on a row: what each statement needs, and leaves behind.

\* Mutant: a live lease does not keep another job off the row.
ClaimableWhileHeld(t, j) == Working(t) /\ Row(t).lastJob # j

Claimable(t, j) == Working(t) /\ Row(t).lastJob # j /\ Row(t).lease # "live"

ClaimedRow(w, t, j) ==
    [Row(t) EXCEPT !.owner = w, !.lease = "live", !.lastJob = j, !.aged = FALSE]

\* skip_deleted: the heartbeat of a deleted row ends.
Renewable(w, t) == Row(t).owner = w /\ ~Row(t).deleted

RenewedRow(t) == [Row(t) EXCEPT !.lease = "live", !.aged = FALSE]

Releasable(w, t) == Row(t).owner = w /\ ~Row(t).deleted

ReleasedRow(t, j, status) ==
    [Row(t) EXCEPT !.status = status, !.owner = None, !.lease = "none", !.lastJob = j,
                   !.aged = FALSE]

\* eval_next_destination: the dead-letter topic, whose delay is zero.
LadderSpent(attempt) == attempt >= MaxAttempts - 1 \/ attempt >= Rungs

DeferredRow(t, attempt) ==
    [Row(t) EXCEPT !.lease = IF LadderSpent(attempt) THEN "expired" ELSE "live",
                   !.aged = FALSE]

Stranded(t) == Working(t) /\ Row(t).aged /\ Row(t).lease # "live"

-----------------------------------------------------------------------------
\* EvalService and the project's requests.

\* create_set reads the project: indexed, and no reindex in flight.
CreateSetRead ==
    /\ ~asked /\ ~project.deleted /\ ~project.reindexing
    /\ Spend("creations")
    /\ asked' = TRUE
    /\ UNCHANGED <<project, rows, job, queue>>

\* _new_translation under the source's row lock.
Translatable(s) ==
    /\ Live(sets[s]) /\ sets[s].status = "ready" /\ sets[s].source = None
    /\ LiveTranslation(s) = {}

CreateSetCommit(s, source) ==
    /\ asked /\ sets[s].status = "absent"
    /\ IF s \in Native THEN source = None ELSE source # None /\ Translatable(source)
    /\ sets' = [sets EXCEPT ![s] = EvalSet(source)]
    /\ outbox' = outbox \cup {s}
    /\ asked' = FALSE
    /\ UNCHANGED <<project, pairs, runs, results, job, topic, retry, budget>>

\* Mutant: only runs of the set itself are looked for.
DeletableBlind(s) == ActiveForSet(s) = {} /\ sets[s].status # "working"

Deletable(s) ==
    /\ ActiveForSet(s) = {}
    /\ sets[s].status # "working" /\ GeneratingTranslationOf(s) = {}

DeleteSet(s) ==
    /\ Live(sets[s]) /\ ~project.deleted /\ Deletable(s)
    /\ sets' = [sets EXCEPT ![s].deleted = TRUE]
    /\ runs' = [r \in Runs |-> IF runs[r].set = s THEN [runs[r] EXCEPT !.deleted = TRUE]
                               ELSE runs[r]]
    /\ UNCHANGED <<project, pairs, results, asked, job, queue, budget>>

SetExcluded(s, p) ==
    /\ Live(sets[s]) /\ ~project.deleted /\ p \in ListForSet(s)
    /\ Spend("exclusions")
    /\ pairs' = [pairs EXCEPT ![s][p].excluded = ~@]
    /\ runs' = [r \in Runs |-> IF runs[r].set = s THEN [runs[r] EXCEPT !.steady = FALSE]
                               ELSE runs[r]]
    /\ UNCHANGED <<project, sets, results, asked, job, queue>>

Startable(s) ==
    /\ sets[s].status = "ready" /\ ActiveForSet(s) = {}
    /\ ~project.reindexing /\ Included(s) # {}

\* The project's row and the set's are locked from before the checks to the commit.
StartRun(r, s) ==
    /\ runs[r].status = "absent"
    /\ ~project.deleted /\ Live(sets[s]) /\ Startable(s)
    /\ Spend("runs")
    /\ runs' = [runs EXCEPT ![r] = EvalRun(s)]
    /\ outbox' = outbox \cup {r}
    /\ UNCHANGED <<project, sets, pairs, results, asked, job, topic, retry>>

\* ProjectService.reindex; refused while a run of the project is running.
Reindex ==
    /\ ~project.deleted /\ ~project.reindexing /\ ~project.coming
    /\ \A r \in Runs : ~Working(r)
    /\ Spend("reindexes")
    /\ project' = [project EXCEPT !.reindexing = TRUE, !.coming = TRUE]
    /\ UNCHANGED <<rows, asked, job, queue>>

\* An unexpected failure lowers the flag; the job comes back from the retry ladder.
AbandonReindex ==
    /\ project.reindexing
    /\ Spend("faults")
    /\ project' = [project EXCEPT !.reindexing = FALSE]
    /\ UNCHANGED <<rows, asked, job, queue>>

FinishReindex ==
    /\ project.coming /\ ~project.deleted
    /\ project' = [project EXCEPT !.generation = @ + 1, !.reindexing = FALSE, !.coming = FALSE]
    /\ UNCHANGED <<rows, asked, job, queue, budget>>

DeleteProject ==
    /\ ~project.deleted
    /\ project' = [project EXCEPT !.deleted = TRUE]
    /\ sets' = [s \in Sets |-> IF sets[s].status = "absent" THEN sets[s]
                               ELSE [sets[s] EXCEPT !.deleted = TRUE]]
    /\ runs' = [r \in Runs |-> IF runs[r].status = "absent" THEN runs[r]
                               ELSE [runs[r] EXCEPT !.deleted = TRUE]]
    /\ UNCHANGED <<pairs, results, asked, job, queue, budget>>

-----------------------------------------------------------------------------
\* handle_eval_message: the claim, and what ends a job that raised.

Claim(w, m) ==
    /\ job[w].pc = "idle" /\ m \in topic /\ Claimable(m.target, m.job)
    /\ Put(m.target, ClaimedRow(w, m.target, m.job))
    /\ job' = [job EXCEPT ![w] = [Idle EXCEPT !.pc = "claimed", !.target = m.target,
                                    !.job = m.job, !.attempt = m.attempt]]
    /\ topic' = topic \ {m}
    /\ UNCHANGED <<project, pairs, results, asked, retry, outbox, budget>>

Skip(w, m) ==
    /\ job[w].pc = "idle" /\ m \in topic /\ ~Claimable(m.target, m.job)
    /\ topic' = topic \ {m}
    /\ UNCHANGED <<project, rows, asked, job, retry, outbox, budget>>

Returned(w) == [Idle EXCEPT !.pc = "done", !.target = job[w].target, !.job = job[w].job,
                            !.attempt = job[w].attempt]

\* The session's uncommitted rows are rolled back with every error.
Raised(w, error) ==
    [Returned(w) EXCEPT !.pc = "handle", !.error = error]

Raises(w, error) ==
    /\ job[w].pc \in {"claimed", "begun", "working"}
    /\ Spend("faults")
    /\ job' = [job EXCEPT ![w] = Raised(w, error)]
    /\ UNCHANGED <<project, rows, asked, queue>>

\* Which failures end the job: the except clauses.
Over(error, attempt) ==
    CASE error = "terminal" -> TRUE
      [] error = "retryable" -> LadderSpent(attempt)
      [] OTHER -> attempt >= 1

TallyForRun(r) ==
    [answered |-> Cardinality({p \in Positions : results[r][p] # None}),
     correct |-> Cardinality({p \in Positions : results[r][p] # None
                                                  /\ results[r][p].verdict = "correct"}),
     errors |-> Cardinality({p \in Positions : results[r][p] # None
                                                 /\ results[r][p].verdict = "error"})]

\* _SetLease.fail, and _RunLease.fail with the tallies of what was committed.
FailedRow(t, j) ==
    IF t \in Sets THEN ReleasedRow(t, j, "failed")
    ELSE [ReleasedRow(t, j, "failed") EXCEPT !.tally = TallyForRun(t)]

Fail(w) ==
    /\ job[w].pc = "handle" /\ Over(job[w].error, job[w].attempt)
    /\ IF Releasable(w, job[w].target)
       THEN Put(job[w].target, FailedRow(job[w].target, job[w].job))
       ELSE UNCHANGED <<sets, runs>>
    /\ job' = [job EXCEPT ![w] = Returned(w)]
    /\ UNCHANGED <<project, pairs, results, asked, queue, budget>>

Defer(w) ==
    /\ job[w].pc = "handle" /\ ~Over(job[w].error, job[w].attempt)
    /\ IF Releasable(w, job[w].target)
       THEN Put(job[w].target, DeferredRow(job[w].target, job[w].attempt))
       ELSE UNCHANGED <<sets, runs>>
    /\ job' = [job EXCEPT ![w] = [Returned(w) EXCEPT !.pc = "produce"]]
    /\ UNCHANGED <<project, pairs, results, asked, queue, budget>>

RouteFailure(w) ==
    /\ job[w].pc = "produce"
    /\ IF LadderSpent(job[w].attempt) THEN retry' = retry
       ELSE \E j \in FreshIds(job[w].target) :
              retry' = retry \cup {[target |-> job[w].target, job |-> j,
                                    attempt |-> job[w].attempt + 1]}
    /\ job' = [job EXCEPT ![w] = Returned(w)]
    /\ UNCHANGED <<project, rows, asked, topic, outbox, budget>>

CommitOffset(w) ==
    /\ job[w].pc = "done"
    /\ job' = [job EXCEPT ![w] = Idle]
    /\ UNCHANGED <<project, rows, asked, queue, budget>>

\* The process dies: its record is delivered again, its id never comes back.
Crash(w) ==
    /\ job[w].pc # "idle"
    /\ Spend("faults")
    /\ IF Row(job[w].target).owner = w
       THEN Put(job[w].target, [Row(job[w].target) EXCEPT !.owner = Dead])
       ELSE UNCHANGED <<sets, runs>>
    /\ topic' = topic \cup {[target |-> job[w].target, job |-> job[w].job,
                             attempt |-> job[w].attempt]}
    /\ job' = [job EXCEPT ![w] = Idle]
    /\ UNCHANGED <<project, pairs, results, asked, retry, outbox>>

Renew(w) ==
    /\ job[w].beating
    /\ ~Renewable(w, job[w].target) \/ Row(job[w].target).lease # "live"
    /\ IF Renewable(w, job[w].target)
       THEN Put(job[w].target, RenewedRow(job[w].target)) /\ UNCHANGED job
       ELSE job' = [job EXCEPT ![w].beating = FALSE] /\ UNCHANGED <<sets, runs>>
    /\ UNCHANGED <<project, pairs, results, asked, queue, budget>>

-----------------------------------------------------------------------------
\* EvalSetGenerator.

InJob(w, pc, targets) == job[w].pc = pc /\ job[w].target \in targets

\* The set and the project are read; the generation is the source's for a translation.
BeginGeneration(w) ==
    /\ InJob(w, "claimed", Sets)
    /\ job' = [job EXCEPT ![w] =
         IF sets[@.target].deleted \/ project.deleted THEN Raised(w, "terminal")
         ELSE [@ EXCEPT !.pc = "working", !.beating = TRUE]]
    /\ UNCHANGED <<project, rows, asked, queue, budget>>

\* _sample: one pair for each chunk whose question is usable.
Sampled(chosen) ==
    [p \in Positions |-> IF p \in chosen THEN [NoPair EXCEPT !.state = "live"] ELSE NoPair]

\* _translate: every source pair, excluded if it is in the source or came out unfaithful.
Translated(s, chosen) ==
    [p \in Positions |->
       IF p \in ListForSet(sets[s].source)
       THEN [state |-> "live", faithful |-> p \in chosen,
             excluded |-> p \notin chosen \/ pairs[sets[s].source][p].excluded]
       ELSE NoPair]

\* The model calls of the set; each is preceded by a look at the heartbeat.
Generate(w) ==
    /\ InJob(w, "working", Sets)
    /\ \/ ~job[w].beating /\ job' = [job EXCEPT ![w] = Raised(w, "retryable")]
       \/ \E chosen \in SUBSET Positions :
            job' = [job EXCEPT ![w].pc = "over", ![w].beating = FALSE, ![w].made =
                      IF sets[job[w].target].source = None THEN Sampled(chosen)
                      ELSE Translated(job[w].target, chosen)]
    /\ UNCHANGED <<project, rows, asked, queue, budget>>

\* Mutant: the pairs are committed before the release is known to have matched.
FinishGenerationEarly(w) ==
    /\ InJob(w, "over", Sets)
    /\ LET s == job[w].target made == job[w].made
           count == Cardinality({p \in Positions : made[p].state = "live"})
           usable == \E p \in Positions : made[p].state = "live" /\ made[p].faithful IN
       /\ IF ~Releasable(w, s) THEN UNCHANGED sets
          ELSE IF usable
          THEN sets' = [sets EXCEPT ![s] = [ReleasedRow(s, job[w].job, "ready")
                                              EXCEPT !.pairCount = count]]
          ELSE sets' = [sets EXCEPT ![s] = ReleasedRow(s, job[w].job, "failed")]
       /\ pairs' = IF usable THEN [pairs EXCEPT ![s] = made] ELSE pairs
    /\ job' = [job EXCEPT ![w] = Returned(w)]
    /\ UNCHANGED <<project, runs, results, asked, queue, budget>>

\* The pairs and the release are one commit, or are both rolled back.
FinishGeneration(w) ==
    /\ InJob(w, "over", Sets)
    /\ LET s == job[w].target made == job[w].made
           count == Cardinality({p \in Positions : made[p].state = "live"})
           usable == \E p \in Positions : made[p].state = "live" /\ made[p].faithful IN
       IF ~Releasable(w, s) THEN UNCHANGED <<sets, pairs>>
       ELSE IF usable
       THEN /\ sets' = [sets EXCEPT ![s] = [ReleasedRow(s, job[w].job, "ready")
                                              EXCEPT !.pairCount = count]]
            /\ pairs' = [pairs EXCEPT ![s] = made]
       ELSE /\ sets' = [sets EXCEPT ![s] = ReleasedRow(s, job[w].job, "failed")]
            /\ UNCHANGED pairs
    /\ job' = [job EXCEPT ![w] = Returned(w)]
    /\ UNCHANGED <<project, runs, results, asked, queue, budget>>

-----------------------------------------------------------------------------
\* EvalRunner.

StampOf(w) == [build |-> Build[w], generation |-> project.generation]

\* Mutant: a run resumed under another build or generation is not refused.
ComparableAlways(w, r) == TRUE

\* _stamp_provenance: a field already stamped is compared.
Comparable(w, r) == runs[r].stamp \in {None, StampOf(w)}

\* The run and the project are read, and the stamp decided on what was read.
BeginRun(w) ==
    /\ InJob(w, "claimed", Runs)
    /\ job' = [job EXCEPT ![w] =
         IF runs[@.target].deleted \/ project.deleted \/ ~Comparable(w, @.target)
         THEN Raised(w, "terminal")
         ELSE [@ EXCEPT !.pc = "begun", !.stamp = StampOf(w),
                        !.fresh = runs[job[w].target].stamp = None]]
    /\ UNCHANGED <<project, rows, asked, queue, budget>>

PairIdsForRun(r) == {p \in Positions : results[r][p] # None}

\* The stamp is committed; what is left to answer is read; the heartbeat starts.
StampRun(w) ==
    /\ InJob(w, "begun", Runs)
    /\ LET r == job[w].target IN
       /\ runs' = IF job[w].fresh THEN [runs EXCEPT ![r].stamp = job[w].stamp] ELSE runs
       /\ job' = [job EXCEPT ![w].pc = "working", ![w].beating = TRUE,
                             ![w].todo = IF runs[r].deleted THEN {}
                                         ELSE Included(runs[r].set) \ PairIdsForRun(r)]
    /\ UNCHANGED <<project, sets, pairs, results, asked, queue, budget>>

Unsaved(w) == {p \in Positions : job[w].unsaved[p] # None}

\* A chunk is answered and judged together; a model failure is a verdict, not an error.
AnswerAndJudge(w) ==
    /\ InJob(w, "working", Runs) /\ job[w].todo # {}
    /\ Cardinality(Unsaved(w)) < ResultBatch
    /\ \E chunk \in SUBSET job[w].todo, wrong \in SUBSET job[w].todo :
         /\ chunk # {} /\ wrong \subseteq chunk
         /\ \/ Cardinality(chunk) = Width
            \/ chunk = job[w].todo /\ Cardinality(chunk) < Width
         /\ job' = [job EXCEPT
              ![w].todo = @ \ chunk,
              ![w].unsaved = [p \in Positions |->
                 IF p \notin chunk THEN @[p]
                 ELSE [verdict |-> IF p \in wrong THEN "error" ELSE "correct",
                       stamp |-> job[w].stamp]]]
    /\ UNCHANGED <<project, rows, asked, queue, budget>>

\* Mutant: the batch is committed on the word of the heartbeat alone.
HoldForCommitUnread(w) == TRUE

\* The run's row is live and still this worker's, and locked until the commit.
HoldForCommit(w) == ~runs[job[w].target].deleted /\ runs[job[w].target].owner = w

\* The unique (run, pair) index.
Collides(w) == \E p \in Unsaved(w) : results[job[w].target][p] # None

Saved(w) == [p \in Positions |-> IF p \in Unsaved(w) THEN job[w].unsaved[p]
                                 ELSE results[job[w].target][p]]

CommitBatch(w) ==
    /\ InJob(w, "working", Runs) /\ Cardinality(Unsaved(w)) >= ResultBatch
    /\ IF job[w].beating /\ ~Collides(w) /\ HoldForCommit(w)
       THEN /\ results' = [results EXCEPT ![job[w].target] = Saved(w)]
            /\ job' = [job EXCEPT ![w].unsaved = Idle.unsaved]
       ELSE /\ UNCHANGED results
            /\ job' = [job EXCEPT ![w] =
                 Raised(w, IF job[w].beating /\ Collides(w) THEN "unexpected" ELSE "retryable")]
    /\ UNCHANGED <<project, sets, pairs, runs, asked, queue, budget>>

\* Everything is answered: one more look at the heartbeat, which then stops.
EndAnswering(w) ==
    /\ InJob(w, "working", Runs) /\ job[w].todo = {}
    /\ Cardinality(Unsaved(w)) < ResultBatch
    /\ job' = [job EXCEPT ![w] = IF @.beating THEN [@ EXCEPT !.pc = "over", !.beating = FALSE]
                                 ELSE Raised(w, "retryable")]
    /\ UNCHANGED <<project, rows, asked, queue, budget>>

\* The last results, the tallies and the release are one commit, or are rolled back.
FinishRun(w) ==
    /\ InJob(w, "over", Runs)
    /\ LET r == job[w].target
           rows_ == {p \in Positions : Saved(w)[p] # None}
           count(v) == Cardinality({p \in rows_ : Saved(w)[p].verdict = v}) IN
       IF Collides(w) \/ ~Releasable(w, r)
       THEN /\ job' = [job EXCEPT ![w] =
                         Raised(w, IF Collides(w) THEN "unexpected" ELSE "retryable")]
            /\ UNCHANGED <<runs, results>>
       ELSE /\ runs' = [runs EXCEPT ![r] = [ReleasedRow(r, job[w].job, "ready") EXCEPT !.tally =
                 [answered |-> Cardinality(rows_), correct |-> count("correct"),
                  errors |-> count("error")]]]
            /\ results' = [results EXCEPT ![r] = Saved(w)]
            /\ job' = [job EXCEPT ![w] = Returned(w)]
    /\ UNCHANGED <<project, sets, pairs, asked, queue, budget>>

-----------------------------------------------------------------------------
\* The broker, the clock, the retry consumer and the sweep.

Publish(t) ==
    /\ t \in outbox
    /\ outbox' = outbox \ {t}
    /\ \E j \in FreshIds(t) : topic' = topic \cup {[target |-> t, job |-> j, attempt |-> 0]}
    /\ UNCHANGED <<project, rows, asked, job, retry, budget>>

PublishLost(t) ==
    /\ t \in outbox
    /\ Spend("faults")
    /\ outbox' = outbox \ {t}
    /\ UNCHANGED <<project, rows, asked, job, topic, retry>>

RetryDue(m) ==
    /\ m \in retry
    /\ retry' = retry \ {m} /\ topic' = topic \cup {m}
    /\ UNCHANGED <<project, rows, asked, job, outbox, budget>>

\* A lease runs out once its owner has stopped renewing, or is stalled past it.
Expire(t) ==
    /\ Live(Row(t)) /\ Row(t).lease = "live"
    /\ IF \E w \in Workers : Row(t).owner = w /\ job[w].target = t
                               /\ job[w].pc \in {"claimed", "begun", "working", "over"}
       THEN /\ Spend("faults")
            /\ StallAtStart \/ \E w \in Workers : Row(t).owner = w
                                 /\ job[w].pc \in {"working", "over"}
       ELSE UNCHANGED budget
    /\ Put(t, [Row(t) EXCEPT !.lease = "expired"])
    /\ UNCHANGED <<project, pairs, results, asked, job, queue>>

Age(t) ==
    /\ Working(t) /\ Row(t).lease # "live" /\ ~Row(t).aged
    /\ Put(t, [Row(t) EXCEPT !.aged = TRUE])
    /\ UNCHANGED <<project, pairs, results, asked, job, queue, budget>>

\* reconcile_eval_once: the row is stamped and a message for it owed.
Sweep(t) ==
    /\ Stranded(t)
    /\ Cardinality(topic) + Cardinality(outbox) < MaxQueue
    /\ Put(t, [Row(t) EXCEPT !.aged = FALSE])
    /\ outbox' = outbox \cup {t}
    /\ UNCHANGED <<project, pairs, results, asked, job, topic, retry, budget>>

-----------------------------------------------------------------------------
Requests ==
    \/ CreateSetRead
    \/ \E s \in Sets, source \in Sets \cup {None} : CreateSetCommit(s, source)
    \/ \E s \in Sets : DeleteSet(s) \/ (\E p \in Positions : SetExcluded(s, p))
    \/ \E r \in Runs, s \in Sets : StartRun(r, s)
    \/ Reindex \/ AbandonReindex \/ FinishReindex \/ DeleteProject

WorkerStep(w) ==
    \/ \E m \in topic : Claim(w, m) \/ Skip(w, m)
    \/ Fail(w) \/ Defer(w) \/ RouteFailure(w) \/ CommitOffset(w) \/ Renew(w)
    \/ BeginGeneration(w) \/ Generate(w) \/ FinishGeneration(w)
    \/ BeginRun(w) \/ StampRun(w) \/ AnswerAndJudge(w) \/ CommitBatch(w)
    \/ EndAnswering(w) \/ FinishRun(w)

WorkerFault(w) ==
    \/ \E error \in {"terminal", "retryable", "unexpected"} : Raises(w, error)
    \/ Crash(w)

Delivery(t) == Publish(t) \/ Expire(t) \/ Age(t) \/ Sweep(t)

Next ==
    \/ Requests
    \/ \E w \in Workers : WorkerStep(w) \/ WorkerFault(w)
    \/ \E t \in Targets : Delivery(t) \/ PublishLost(t)
    \/ \E m \in retry : RetryDue(m)

Spec == Init /\ [][Next]_vars

-----------------------------------------------------------------------------
Work(t) == INSTANCE LeasedWork WITH
    Nobody <- None, holder <- Row(t).owner, live <- Row(t).lease = "live",
    results <- IF Row(t).status = "ready" THEN 1 ELSE 0, deleted <- Row(t).deleted

\* Each set's generation and each run keeps the promise of the lease, whatever the queue
\* redelivers and the sweep repeats: every step is one LeasedWork allows for that row.
LeaseHonoured == [][\A t \in Targets : [Work(t)!Next]_(Work(t)!vars)]_vars

\* A translation being generated always has a live, ready source: "a generator reading a
\* set that vanishes under it would fail with a reason that is not true" (services/eval.py).
TranslationHasSource ==
    \A s \in Sets : Working(s) /\ sets[s].source # None
        => Live(sets[sets[s].source]) /\ sets[sets[s].source].status = "ready"

\* Pairs are written once, with the `ready` that counts them, and never by a worker that
\* was overtaken; and every state is well typed.
SetIsWhole ==
    /\ TypeOK
    /\ \A s \in Sets :
        IF sets[s].status = "ready"
        THEN sets[s].pairCount = Cardinality(ListForSet(s)) /\ ListForSet(s) # {}
        ELSE ListForSet(s) = {}

\* The summary of a finished run says exactly what its results say, whoever finished it
\* and however often it was resumed.
SummaryMatchesResults ==
    \A r \in Runs : Live(runs[r]) /\ runs[r].status # "working" => runs[r].tally = TallyForRun(r)

\* A run is `done` only when every pair it was to answer has a result, over any number of
\* resumptions, if nobody changed the exclusions meanwhile.
DoneIsComplete ==
    \A r \in Runs : runs[r].status = "ready" /\ runs[r].steady
        => \A p \in Included(runs[r].set) : results[r][p] # None

\* A finished run adds up: no batch landed after its summary, none was lost with a worker
\* or counted when it was rolled back.
RunAddsUp == SummaryMatchesResults /\ DoneIsComplete

\* Every result of a run was answered under the stamp the run carries, also when a worker
\* of another build, or another generation of the index, resumed it.
OneProvenance ==
    \A r \in Runs, p \in Positions : results[r][p] # None => results[r][p].stamp = runs[r].stamp
=============================================================================
