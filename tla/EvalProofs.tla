----------------------------- MODULE EvalProofs -----------------------------
(***************************************************************************)
(* What holds of Eval for every number of workers, sets, runs, positions,  *)
(* jobs, attempts, batches and faults.                                     *)
(***************************************************************************)
EXTENDS Eval, FiniteSetTheorems, TLAPS

-----------------------------------------------------------------------------
(* Rows *)

LEMMA RowOf ==
    /\ \A t \in Sets : t \in Targets /\ t \notin Runs /\ Row(t) = sets[t]
    /\ \A t \in Runs : t \in Targets /\ t \notin Sets /\ Row(t) = runs[t]
  BY EvalAssumption DEF Targets, Row

\* A write to one row leaves the others.
LEMMA PutRow ==
    ASSUME sets \in [Sets -> SetRow], runs \in [Runs -> RunRow], NEW t \in Targets, NEW row,
           t \in Sets => row \in SetRow, t \in Runs => row \in RunRow, Put(t, row)
    PROVE  /\ sets' \in [Sets -> SetRow] /\ runs' \in [Runs -> RunRow]
           /\ Row(t)' = row /\ \A x \in Targets \ {t} : Row(x)' = Row(x)
  BY EvalAssumption DEF Put, Row, Targets

\* Every row the statements of repositories/lease.py leave behind is a row.
LEMMA RowTypes ==
    ASSUME sets \in [Sets -> SetRow], runs \in [Runs -> RunRow], NEW t \in Targets
    PROVE  /\ \A w \in Workers, j \in JobIds :
                /\ t \in Sets => ClaimedRow(w, t, j) \in SetRow
                /\ t \in Runs => ClaimedRow(w, t, j) \in RunRow
           /\ t \in Sets => RenewedRow(t) \in SetRow
           /\ t \in Runs => RenewedRow(t) \in RunRow
           /\ \A j \in JobIds \cup {None}, s \in Status :
                /\ t \in Sets => ReleasedRow(t, j, s) \in SetRow
                /\ t \in Runs => ReleasedRow(t, j, s) \in RunRow
           /\ \A a \in Nat :
                /\ t \in Sets => DeferredRow(t, a) \in SetRow
                /\ t \in Runs => DeferredRow(t, a) \in RunRow
           /\ \A l \in {"none", "live", "expired"} :
                /\ t \in Sets => [Row(t) EXCEPT !.lease = l] \in SetRow
                /\ t \in Runs => [Row(t) EXCEPT !.lease = l] \in RunRow
           /\ \A b \in BOOLEAN :
                /\ t \in Sets => [Row(t) EXCEPT !.aged = b] \in SetRow
                /\ t \in Runs => [Row(t) EXCEPT !.aged = b] \in RunRow
           /\ t \in Sets => [Row(t) EXCEPT !.owner = Dead] \in SetRow
           /\ t \in Runs => [Row(t) EXCEPT !.owner = Dead] \in RunRow
<1>1. CASE t \in Sets
  <2>1. t \notin Runs /\ Row(t) \in SetRow
    BY <1>1, RowOf
  <2>2. \A w \in Workers, j \in JobIds : ClaimedRow(w, t, j) \in SetRow
    BY <2>1 DEF ClaimedRow, SetRow
  <2>3. RenewedRow(t) \in SetRow /\ [Row(t) EXCEPT !.owner = Dead] \in SetRow
    BY <2>1 DEF RenewedRow, SetRow
  <2>4. \A j \in JobIds \cup {None}, s \in Status : ReleasedRow(t, j, s) \in SetRow
    BY <2>1 DEF ReleasedRow, SetRow
  <2>5. \A a \in Nat : DeferredRow(t, a) \in SetRow
    BY <2>1 DEF DeferredRow, SetRow
  <2>6. /\ \A l \in {"none", "live", "expired"} : [Row(t) EXCEPT !.lease = l] \in SetRow
        /\ \A b \in BOOLEAN : [Row(t) EXCEPT !.aged = b] \in SetRow
    BY <2>1 DEF SetRow
  <2> QED BY <2>1, <2>2, <2>3, <2>4, <2>5, <2>6
<1>2. CASE t \in Runs
  <2>1. t \notin Sets /\ Row(t) \in RunRow
    BY <1>2, RowOf
  <2>2. \A w \in Workers, j \in JobIds : ClaimedRow(w, t, j) \in RunRow
    BY <2>1 DEF ClaimedRow, RunRow
  <2>3. RenewedRow(t) \in RunRow /\ [Row(t) EXCEPT !.owner = Dead] \in RunRow
    BY <2>1 DEF RenewedRow, RunRow
  <2>4. \A j \in JobIds \cup {None}, s \in Status : ReleasedRow(t, j, s) \in RunRow
    BY <2>1 DEF ReleasedRow, RunRow
  <2>5. \A a \in Nat : DeferredRow(t, a) \in RunRow
    BY <2>1 DEF DeferredRow, RunRow
  <2>6. /\ \A l \in {"none", "live", "expired"} : [Row(t) EXCEPT !.lease = l] \in RunRow
        /\ \A b \in BOOLEAN : [Row(t) EXCEPT !.aged = b] \in RunRow
    BY <2>1 DEF RunRow
  <2> QED BY <2>1, <2>2, <2>3, <2>4, <2>5, <2>6
<1> QED BY <1>1, <1>2 DEF Targets

-----------------------------------------------------------------------------
(* Type correctness *)

\* What the stage of a job says of it: past the claim it knows its target and its id, only
\* runs are stamped, and its unsaved results carry its stamp.
Shaped(j) ==
    /\ j.pc # "idle" => j.target \in Targets /\ j.job \in JobIds
    /\ j.pc = "begun" => j.target \in Runs
    /\ j.pc \in {"begun", "working", "over"} /\ j.target \in Runs => j.stamp \in Stamp
    /\ j.pc = "over" /\ j.target \in Runs => j.todo = {}
    /\ \A p \in Positions : j.unsaved[p] # None =>
         j.pc \in {"working", "over"} /\ j.unsaved[p].stamp = j.stamp

Shapes == \A w \in Workers : Shaped(job[w])

TypeInv == TypeOK /\ Shapes

LEMMA IdleTypes == Idle \in Job /\ Shaped(Idle) /\ Idle.pc = "idle"
<1>1. NoPair \in EvalPair
  BY DEF NoPair, EvalPair
<1>2. /\ [p \in Positions |-> None] \in [Positions -> EvalResult]
      /\ [p \in Positions |-> NoPair] \in [Positions -> EvalPair]
  BY <1>1 DEF EvalResult
<1> QED BY <1>2 DEF Idle, Job, Shaped

\* One worker's job is replaced by another well-shaped one.
LEMMA JobTypes ==
    ASSUME job \in [Workers -> Job], Shapes, NEW w \in Workers, NEW r \in Job, Shaped(r),
           job' = [job EXCEPT ![w] = r]
    PROVE  /\ job' \in [Workers -> Job] /\ Shapes'
           /\ job'[w] = r /\ \A x \in Workers \ {w} : job'[x] = job[x]
  BY DEF Shapes

\* A job that ended, or raised, keeps its target and its id and loses its results.
LEMMA ReturnedTypes ==
    ASSUME TypeInv, NEW w \in Workers, job[w].pc # "idle"
    PROVE  /\ Returned(w) \in Job /\ Shaped(Returned(w)) /\ Returned(w).pc = "done"
           /\ \A e \in {"terminal", "retryable", "unexpected"} :
                Raised(w, e) \in Job /\ Shaped(Raised(w, e)) /\ Raised(w, e).pc = "handle"
           /\ LET r == [Returned(w) EXCEPT !.pc = "produce"] IN
                r \in Job /\ Shaped(r) /\ r.pc = "produce"
<1>1. job[w].target \in Targets /\ job[w].job \in JobIds /\ job[w].attempt \in Nat
  BY DEF TypeInv, TypeOK, Shapes, Shaped, Job
<1>2. /\ Returned(w) \in Job /\ Returned(w).pc = "done" /\ Returned(w).unsaved = Idle.unsaved
      /\ Returned(w).target = job[w].target /\ Returned(w).job = job[w].job
  BY <1>1, IdleTypes DEF Returned, Job
<1>3. \A p \in Positions : Idle.unsaved[p] = None
  BY DEF Idle
<1>4. Shaped(Returned(w))
  BY <1>1, <1>2, <1>3 DEF Shaped
<1>5. ASSUME NEW e \in {"terminal", "retryable", "unexpected"}
      PROVE  Raised(w, e) \in Job /\ Shaped(Raised(w, e)) /\ Raised(w, e).pc = "handle"
  <2>1. /\ Raised(w, e) \in Job /\ Raised(w, e).pc = "handle"
        /\ Raised(w, e).unsaved = Idle.unsaved
        /\ Raised(w, e).target = job[w].target /\ Raised(w, e).job = job[w].job
    BY <1>2 DEF Raised, Job
  <2> QED BY <1>1, <1>3, <2>1 DEF Shaped
<1>6. LET r == [Returned(w) EXCEPT !.pc = "produce"] IN
        r \in Job /\ Shaped(r) /\ r.pc = "produce"
  <2> DEFINE r == [Returned(w) EXCEPT !.pc = "produce"]
  <2>1. /\ r \in Job /\ r.pc = "produce" /\ r.unsaved = Idle.unsaved
        /\ r.target = job[w].target /\ r.job = job[w].job
    BY <1>2 DEF Job
  <2>2. Shaped(r)
    <3> HIDE DEF r
    <3> QED BY <1>1, <1>3, <2>1 DEF Shaped
  <2> QED BY <2>1, <2>2
<1> QED BY <1>2, <1>4, <1>5, <1>6

\* The jobs that the steps of a worker leave behind are jobs.
LEMMA MadeTypes ==
    ASSUME NEW j \in Job, NEW made \in [Positions -> EvalPair]
    PROVE  [j EXCEPT !.pc = "over", !.beating = FALSE, !.made = made] \in Job
  BY DEF Job

Begun(j, stamp, fresh) == [j EXCEPT !.pc = "begun", !.stamp = stamp, !.fresh = fresh]
StampedJob(j, todo) == [j EXCEPT !.pc = "working", !.beating = TRUE, !.todo = todo]
Answered(j, todo, unsaved) == [j EXCEPT !.todo = todo, !.unsaved = unsaved]

LEMMA BegunTypes ==
    ASSUME NEW j \in Job, NEW stamp \in Stamp, NEW fresh \in BOOLEAN
    PROVE  /\ Begun(j, stamp, fresh) \in Job /\ Begun(j, stamp, fresh).pc = "begun"
           /\ Begun(j, stamp, fresh).stamp = stamp /\ Begun(j, stamp, fresh).fresh = fresh
           /\ Begun(j, stamp, fresh).target = j.target /\ Begun(j, stamp, fresh).job = j.job
           /\ Begun(j, stamp, fresh).unsaved = j.unsaved
<1>1. Begun(j, stamp, fresh) \in Job
  BY DEF Job, Begun
<1> QED BY <1>1 DEF Job, Begun

LEMMA StampRowTypes ==
    ASSUME NEW row \in RunRow, NEW stamp \in Stamp
    PROVE  [row EXCEPT !.stamp = stamp] \in RunRow
  BY DEF RunRow

LEMMA StampedTypes ==
    ASSUME NEW j \in Job, NEW todo \in SUBSET Positions
    PROVE  /\ StampedJob(j, todo) \in Job /\ StampedJob(j, todo).pc = "working"
           /\ StampedJob(j, todo).todo = todo /\ StampedJob(j, todo).stamp = j.stamp
           /\ StampedJob(j, todo).target = j.target /\ StampedJob(j, todo).job = j.job
           /\ StampedJob(j, todo).unsaved = j.unsaved
<1>1. StampedJob(j, todo) \in Job
  BY DEF Job, StampedJob
<1> QED BY <1>1 DEF Job, StampedJob

LEMMA AnsweredTypes ==
    ASSUME NEW j \in Job, NEW todo \in SUBSET Positions,
           NEW unsaved \in [Positions -> EvalResult]
    PROVE  /\ Answered(j, todo, unsaved) \in Job /\ Answered(j, todo, unsaved).pc = j.pc
           /\ Answered(j, todo, unsaved).todo = todo
           /\ Answered(j, todo, unsaved).stamp = j.stamp
           /\ Answered(j, todo, unsaved).target = j.target
           /\ Answered(j, todo, unsaved).job = j.job
           /\ Answered(j, todo, unsaved).unsaved = unsaved
<1>1. Answered(j, todo, unsaved) \in Job
  BY DEF Job, Answered
<1> QED BY <1>1 DEF Job, Answered

LEMMA SavedJobTypes ==
    ASSUME NEW j \in Job, NEW r, r = [j EXCEPT !.unsaved = Idle.unsaved]
    PROVE  /\ r \in Job /\ r.pc = j.pc /\ r.todo = j.todo /\ r.stamp = j.stamp
           /\ r.target = j.target /\ r.job = j.job /\ r.unsaved = Idle.unsaved
<1>1. Idle.unsaved \in [Positions -> EvalResult]
  BY IdleTypes DEF Job
<1>2. r \in Job
  BY <1>1 DEF Job
<1> QED BY <1>2 DEF Job

LEMMA EndedTypes ==
    ASSUME NEW j \in Job, NEW r, r = [j EXCEPT !.pc = "over", !.beating = FALSE]
    PROVE  /\ r \in Job /\ r.pc = "over" /\ r.todo = j.todo /\ r.stamp = j.stamp
           /\ r.target = j.target /\ r.job = j.job /\ r.unsaved = j.unsaved
<1>1. r \in Job
  BY DEF Job
<1> QED BY <1>1 DEF Job

LEMMA SpendTypes ==
    ASSUME budget \in Budget, NEW kind \in {"creations", "runs", "exclusions", "reindexes", "faults"},
           Spend(kind)
    PROVE  budget' \in Budget
  BY DEF Spend, Budget

\* How many positions have a property is a number.
LEMMA CountTypes ==
    ASSUME NEW S \in SUBSET Positions
    PROVE  IsFiniteSet(S) /\ Cardinality(S) \in Nat
  BY EvalAssumption, FS_Subset, FS_CardinalityType

LEMMA FailedTypes ==
    ASSUME TypeInv, NEW t \in Targets, NEW j \in JobIds
    PROVE  /\ t \in Sets => FailedRow(t, j) \in SetRow /\ FailedRow(t, j) = ReleasedRow(t, j, "failed")
           /\ t \in Runs => /\ FailedRow(t, j) \in RunRow
                            /\ FailedRow(t, j) = [ReleasedRow(t, j, "failed")
                                                    EXCEPT !.tally = TallyForRun(t)]
<1>1. "failed" \in Status
  BY DEF Status
<1>2. CASE t \in Sets
  BY <1>1, <1>2, RowTypes, RowOf DEF FailedRow, TypeInv, TypeOK
<1>3. CASE t \in Runs
  <2>1. TallyForRun(t) \in Tally
    <3>1. /\ Cardinality({p \in Positions : results[t][p] # None}) \in Nat
          /\ Cardinality({p \in Positions : results[t][p] # None
                                              /\ results[t][p].verdict = "correct"}) \in Nat
          /\ Cardinality({p \in Positions : results[t][p] # None
                                              /\ results[t][p].verdict = "error"}) \in Nat
      BY CountTypes
    <3> QED BY <3>1 DEF TallyForRun, Tally
  <2>2. ReleasedRow(t, j, "failed") \in RunRow /\ t \notin Sets
    BY <1>1, <1>3, RowTypes, RowOf DEF TypeInv, TypeOK
  <2> QED BY <2>1, <2>2 DEF FailedRow, RunRow
<1> QED BY <1>2, <1>3 DEF Targets

\* A deleted row, and an unsteady run.
LEMMA FlagTypes ==
    /\ \A row \in SetRow : [row EXCEPT !.deleted = TRUE] \in SetRow
    /\ \A row \in RunRow : [row EXCEPT !.deleted = TRUE] \in RunRow
    /\ \A row \in RunRow : [row EXCEPT !.steady = FALSE] \in RunRow
<1>1. ASSUME NEW row \in SetRow PROVE [row EXCEPT !.deleted = TRUE] \in SetRow
  BY DEF SetRow
<1>2. ASSUME NEW row \in RunRow PROVE [row EXCEPT !.deleted = TRUE] \in RunRow
  BY DEF RunRow
<1>3. ASSUME NEW row \in RunRow PROVE [row EXCEPT !.steady = FALSE] \in RunRow
  BY DEF RunRow
<1> QED BY <1>1, <1>2, <1>3

\* A job whose heartbeat stopped, and one that starts generating.
LEMMA BeatTypes ==
    ASSUME NEW j \in Job, NEW r, r = [j EXCEPT !.beating = FALSE]
    PROVE  /\ r \in Job /\ r.pc = j.pc /\ r.target = j.target /\ r.job = j.job
           /\ r.stamp = j.stamp /\ r.todo = j.todo /\ r.unsaved = j.unsaved
<1>1. r \in Job
  BY DEF Job
<1>2. r.pc = j.pc /\ r.target = j.target /\ r.job = j.job
  BY DEF Job
<1>3. r.stamp = j.stamp /\ r.todo = j.todo /\ r.unsaved = j.unsaved
  BY DEF Job
<1> QED BY <1>1, <1>2, <1>3

LEMMA BeginTypes ==
    ASSUME NEW j \in Job, NEW r, r = [j EXCEPT !.pc = "working", !.beating = TRUE]
    PROVE  /\ r \in Job /\ r.pc = "working" /\ r.target = j.target /\ r.job = j.job
           /\ r.stamp = j.stamp /\ r.unsaved = j.unsaved
<1>1. r \in Job
  BY DEF Job
<1>2. r.pc = "working" /\ r.target = j.target /\ r.job = j.job
  BY DEF Job
<1>3. r.stamp = j.stamp /\ r.unsaved = j.unsaved
  BY DEF Job
<1> QED BY <1>1, <1>2, <1>3

LEMMA NewRowTypes ==
    /\ \A source \in Sets \cup {None} : EvalSet(source) \in SetRow
    /\ \A s \in Sets \cup {None} : EvalRun(s) \in RunRow
<1>1. NoTally \in Tally
  BY DEF NoTally, Tally
<1> QED BY <1>1 DEF EvalSet, EvalRun, SetRow, RunRow, Status

\* The initial state is well typed.
LEMMA TypeInit == Init => TypeInv
<1> SUFFICES ASSUME Init PROVE TypeInv
  OBVIOUS
<1>1. PICK start \in Starts :
         /\ sets = [s \in Sets |-> IF s \in start.ready
                      THEN [EvalSet(None) EXCEPT !.status = "ready",
                                                 !.pairCount = Cardinality(Positions)]
                      ELSE [EvalSet(None) EXCEPT !.status = "absent", !.pairCount = 0]]
         /\ pairs = [s \in Sets |-> [p \in Positions |-> IF s \in start.ready
                      THEN [NoPair EXCEPT !.state = "live"] ELSE NoPair]]
         /\ budget = start.budget
  BY DEF Init
<1>2. sets \in [Sets -> SetRow]
  <2>1. Cardinality(Positions) \in Nat
    BY CountTypes
  <2>2. /\ [EvalSet(None) EXCEPT !.status = "ready", !.pairCount = Cardinality(Positions)] \in SetRow
        /\ [EvalSet(None) EXCEPT !.status = "absent", !.pairCount = 0] \in SetRow
    <3>1. EvalSet(None) \in SetRow
      BY NewRowTypes
    <3> HIDE DEF Init
    <3> QED BY <2>1, <3>1, Zenon DEF SetRow, Status
  <2> QED BY <1>1, <2>2
<1>3. pairs \in [Sets -> [Positions -> EvalPair]]
  <2>1. NoPair \in EvalPair /\ [NoPair EXCEPT !.state = "live"] \in EvalPair
    BY DEF NoPair, EvalPair
  <2> QED BY <1>1, <2>1
<1>4. runs \in [Runs -> RunRow]
  <2>1. [EvalRun(None) EXCEPT !.status = "absent"] \in RunRow
    BY NewRowTypes DEF RunRow, Status
  <2> QED BY <2>1 DEF Init
<1>5. results \in [Runs -> [Positions -> EvalResult]]
  BY DEF Init, EvalResult
<1>6. job \in [Workers -> Job] /\ Shapes
  BY IdleTypes DEF Init, Shapes
<1>7. budget \in Budget
  BY <1>1, EvalAssumption
<1>8. project \in Project
  BY DEF Init, Project
<1> QED BY <1>2, <1>3, <1>4, <1>5, <1>6, <1>7, <1>8 DEF TypeInv, TypeOK, Init

\* What the requests write is well typed.
LEMMA RequestTypes == TypeInv /\ Requests => TypeInv'
<1> SUFFICES ASSUME TypeInv, Requests PROVE TypeInv'
  OBVIOUS
<1> USE DEF TypeInv, TypeOK, rows, queue, Shapes
<1>1. CASE CreateSetRead
  <2>1. budget' \in Budget
    BY <1>1, SpendTypes DEF CreateSetRead
  <2> QED BY <1>1, <2>1 DEF CreateSetRead
<1>2. ASSUME NEW s \in Sets, NEW source \in Sets \cup {None}, CreateSetCommit(s, source)
      PROVE  TypeInv'
  <2>1. sets' \in [Sets -> SetRow] /\ outbox' \in SUBSET Targets
    BY <1>2, NewRowTypes, RowOf DEF CreateSetCommit
  <2> QED BY <1>2, <2>1 DEF CreateSetCommit
<1>3. ASSUME NEW s \in Sets, DeleteSet(s) PROVE TypeInv'
  <2>1. [sets[s] EXCEPT !.deleted = TRUE] \in SetRow
    BY DEF SetRow
  <2>2. \A r \in Runs : [runs[r] EXCEPT !.deleted = TRUE] \in RunRow
    BY FlagTypes
  <2>3. sets' \in [Sets -> SetRow] /\ runs' \in [Runs -> RunRow]
    BY <1>3, <2>1, <2>2 DEF DeleteSet
  <2> QED BY <1>3, <2>3 DEF DeleteSet
<1>4. ASSUME NEW s \in Sets, NEW p \in Positions, SetExcluded(s, p) PROVE TypeInv'
  <2>1. budget' \in Budget
    BY <1>4, SpendTypes DEF SetExcluded
  <2>2. \A r \in Runs : [runs[r] EXCEPT !.steady = FALSE] \in RunRow
    BY FlagTypes
  <2>3. runs' \in [Runs -> RunRow]
    BY <1>4, <2>2 DEF SetExcluded
  <2>4. pairs' \in [Sets -> [Positions -> EvalPair]]
    <3>1. pairs[s] \in [Positions -> EvalPair]
      OBVIOUS
    <3>2. [pairs[s][p] EXCEPT !.excluded = ~pairs[s][p].excluded] \in EvalPair
      BY <3>1 DEF EvalPair
    <3>3. pairs' = [pairs EXCEPT ![s] =
                      [pairs[s] EXCEPT ![p] =
                         [pairs[s][p] EXCEPT !.excluded = ~pairs[s][p].excluded]]]
      BY <1>4 DEF SetExcluded
    <3> QED BY <3>1, <3>2, <3>3
  <2> QED BY <1>4, <2>1, <2>3, <2>4 DEF SetExcluded
<1>5. ASSUME NEW r \in Runs, NEW s \in Sets, StartRun(r, s) PROVE TypeInv'
  <2>1. runs' \in [Runs -> RunRow] /\ outbox' \in SUBSET Targets
    BY <1>5, NewRowTypes, RowOf DEF StartRun
  <2>2. budget' \in Budget
    BY <1>5, SpendTypes DEF StartRun
  <2> QED BY <1>5, <2>1, <2>2 DEF StartRun
<1>6. CASE Reindex \/ AbandonReindex \/ FinishReindex
  <2>1. project' \in Project
    <3>1. CASE Reindex
      BY <3>1 DEF Reindex, Project
    <3>2. CASE AbandonReindex
      BY <3>2 DEF AbandonReindex, Project
    <3>3. CASE FinishReindex
      <4>1. project.generation + 1 \in Nat /\ project.deleted \in BOOLEAN
        BY DEF Project
      <4>2. PICK g \in Nat : g = project.generation + 1
        BY <4>1
      <4>3. [project EXCEPT !.generation = g, !.reindexing = FALSE, !.coming = FALSE] \in Project
        BY DEF Project
      <4> QED BY <3>3, <4>2, <4>3 DEF FinishReindex
    <3> QED BY <1>6, <3>1, <3>2, <3>3
  <2>2. budget' \in Budget
    BY <1>6, SpendTypes DEF Reindex, AbandonReindex, FinishReindex
  <2> QED BY <1>6, <2>1, <2>2 DEF Reindex, AbandonReindex, FinishReindex
<1>7. CASE DeleteProject
  <2>1. project' \in Project
    BY <1>7 DEF DeleteProject, Project
  <2>2. \A s \in Sets : [sets[s] EXCEPT !.deleted = TRUE] \in SetRow
    BY DEF SetRow
  <2>3. \A r \in Runs : [runs[r] EXCEPT !.deleted = TRUE] \in RunRow
    BY FlagTypes
  <2>4. sets' \in [Sets -> SetRow] /\ runs' \in [Runs -> RunRow]
    BY <1>7, <2>2, <2>3 DEF DeleteProject
  <2> QED BY <1>7, <2>1, <2>4 DEF DeleteProject
<1> QED BY <1>1, <1>2, <1>3, <1>4, <1>5, <1>6, <1>7 DEF Requests

\* So is what the broker, the clock and the sweep write.
LEMMA DeliveryTypes ==
    ASSUME TypeInv,
           \/ \E t \in Targets : Delivery(t) \/ PublishLost(t)
           \/ \E m \in retry : RetryDue(m)
    PROVE  TypeInv'
<1> USE DEF TypeInv, TypeOK, rows, queue, Shapes
<1>1. ASSUME NEW t \in Targets, Publish(t) PROVE TypeInv'
  BY <1>1 DEF Publish, FreshIds, EvalJobMessage
<1>2. ASSUME NEW t \in Targets, PublishLost(t) PROVE TypeInv'
  <2>1. budget' \in Budget
    BY <1>2, SpendTypes DEF PublishLost
  <2> QED BY <1>2, <2>1 DEF PublishLost
<1>3. ASSUME NEW t \in Targets, Expire(t) PROVE TypeInv'
  <2>1. budget' \in Budget
    BY <1>3, SpendTypes DEF Expire
  <2>2. sets' \in [Sets -> SetRow] /\ runs' \in [Runs -> RunRow]
    BY <1>3, PutRow, RowTypes DEF Expire
  <2> QED BY <1>3, <2>1, <2>2 DEF Expire
<1>4. ASSUME NEW t \in Targets, Age(t) \/ Sweep(t) PROVE TypeInv'
  <2>1. sets' \in [Sets -> SetRow] /\ runs' \in [Runs -> RunRow]
    BY <1>4, PutRow, RowTypes DEF Age, Sweep
  <2> QED BY <1>4, <2>1 DEF Age, Sweep
<1>5. ASSUME NEW m \in retry, RetryDue(m) PROVE TypeInv'
  BY <1>5 DEF RetryDue
<1> QED BY <1>1, <1>2, <1>3, <1>4, <1>5 DEF Delivery

\* What a run's results become with a batch saved.
LEMMA SavedTypes ==
    ASSUME TypeInv, NEW w \in Workers, job[w].target \in Runs
    PROVE  /\ Saved(w) \in [Positions -> EvalResult]
           /\ \A p \in Positions :
                Saved(w)[p] = IF job[w].unsaved[p] # None THEN job[w].unsaved[p]
                              ELSE results[job[w].target][p]
<1>1. /\ job[w].unsaved \in [Positions -> EvalResult]
      /\ results[job[w].target] \in [Positions -> EvalResult]
  BY DEF TypeInv, TypeOK, Job
<1> QED BY <1>1 DEF Saved, Unsaved

\* What the worker's steps write is well typed.
LEMMA WorkerTypes ==
    ASSUME TypeInv, NEW w \in Workers, WorkerStep(w) \/ WorkerFault(w)
    PROVE  TypeInv'
<1> USE DEF TypeInv, TypeOK, rows, queue
<1>1. ASSUME NEW m \in topic, Claim(w, m) PROVE TypeInv'
  <2>1. m.target \in Targets /\ m.job \in JobIds /\ m.attempt \in Nat
    BY DEF EvalJobMessage
  <2>2. sets' \in [Sets -> SetRow] /\ runs' \in [Runs -> RunRow]
    BY <1>1, <2>1, PutRow, RowTypes DEF Claim
  <2> DEFINE r == [Idle EXCEPT !.pc = "claimed", !.target = m.target, !.job = m.job,
                               !.attempt = m.attempt]
  <2>3. r \in Job
    BY <2>1, IdleTypes DEF Job
  <2>4. r.pc = "claimed" /\ r.target = m.target /\ r.job = m.job /\ r.unsaved = Idle.unsaved
    BY IdleTypes DEF Job
  <2>5. \A p \in Positions : Idle.unsaved[p] = None
    BY DEF Idle
  <2>6. job' = [job EXCEPT ![w] = r]
    BY <1>1 DEF Claim
  <2> HIDE DEF r
  <2>7. Shaped(r)
    BY <2>1, <2>4, <2>5 DEF Shaped
  <2>8. job' \in [Workers -> Job] /\ Shapes'
    BY <2>3, <2>6, <2>7, JobTypes
  <2> QED BY <1>1, <2>2, <2>8 DEF Claim
<1>2. ASSUME NEW m \in topic, Skip(w, m) PROVE TypeInv'
  BY <1>2 DEF Skip, Shapes
<1>3. ASSUME job[w].pc # "idle", NEW r, job' = [job EXCEPT ![w] = r],
             \/ r = Idle \/ r = Returned(w) \/ r = [Returned(w) EXCEPT !.pc = "produce"]
             \/ \E e \in {"terminal", "retryable", "unexpected"} : r = Raised(w, e)
      PROVE  job' \in [Workers -> Job] /\ Shapes'
  <2>1. r \in Job /\ Shaped(r)
    BY <1>3, IdleTypes, ReturnedTypes
  <2> QED BY <1>3, <2>1, JobTypes
<1>4. CASE Fail(w)
  <2>0. job[w].pc # "idle" /\ job[w].target \in Targets /\ job[w].job \in JobIds
    BY <1>4 DEF Fail, Shapes, Shaped
  <2>1. sets' \in [Sets -> SetRow] /\ runs' \in [Runs -> RunRow]
    <3>1. CASE Put(job[w].target, FailedRow(job[w].target, job[w].job))
      BY <2>0, <3>1, PutRow, FailedTypes
    <3> QED BY <1>4, <3>1 DEF Fail
  <2>2. job' \in [Workers -> Job] /\ Shapes'
    BY <1>3, <1>4, <2>0 DEF Fail
  <2> QED BY <1>4, <2>1, <2>2 DEF Fail
<1>5. CASE Defer(w)
  <2>0. job[w].pc # "idle" /\ job[w].target \in Targets /\ job[w].attempt \in Nat
    BY <1>5 DEF Defer, Shapes, Shaped, Job
  <2>1. sets' \in [Sets -> SetRow] /\ runs' \in [Runs -> RunRow]
    <3>1. CASE Put(job[w].target, DeferredRow(job[w].target, job[w].attempt))
      BY <2>0, <3>1, PutRow, RowTypes
    <3> QED BY <1>5, <3>1 DEF Defer
  <2>2. job' \in [Workers -> Job] /\ Shapes'
    BY <1>3, <1>5, <2>0 DEF Defer
  <2> QED BY <1>5, <2>1, <2>2 DEF Defer
<1>6. CASE RouteFailure(w)
  <2>0. /\ job[w].pc # "idle" /\ job[w].target \in Targets /\ job[w].attempt + 1 \in Nat
    BY <1>6 DEF RouteFailure, Shapes, Shaped, Job
  <2>1. retry' \in SUBSET EvalJobMessage
    BY <1>6, <2>0 DEF RouteFailure, FreshIds, EvalJobMessage
  <2>2. job' \in [Workers -> Job] /\ Shapes'
    BY <1>3, <1>6, <2>0 DEF RouteFailure
  <2> QED BY <1>6, <2>1, <2>2 DEF RouteFailure
<1>7. CASE CommitOffset(w)
  <2>1. job' \in [Workers -> Job] /\ Shapes'
    BY <1>3, <1>7 DEF CommitOffset
  <2> QED BY <1>7, <2>1 DEF CommitOffset
<1>8. CASE Crash(w)
  <2>0. /\ job[w].pc # "idle" /\ job[w].target \in Targets /\ job[w].job \in JobIds
        /\ job[w].attempt \in Nat
    BY <1>8 DEF Crash, Shapes, Shaped, Job
  <2>1. sets' \in [Sets -> SetRow] /\ runs' \in [Runs -> RunRow]
    <3>1. CASE Put(job[w].target, [Row(job[w].target) EXCEPT !.owner = Dead])
      BY <2>0, <3>1, PutRow, RowTypes
    <3> QED BY <1>8, <3>1 DEF Crash
  <2>2. job' \in [Workers -> Job] /\ Shapes'
    BY <1>3, <1>8, <2>0 DEF Crash
  <2>3. topic' \in SUBSET EvalJobMessage
    BY <1>8, <2>0 DEF Crash, EvalJobMessage
  <2>4. budget' \in Budget
    BY <1>8, SpendTypes DEF Crash
  <2> QED BY <1>8, <2>1, <2>2, <2>3, <2>4 DEF Crash
<1>9. CASE \E error \in {"terminal", "retryable", "unexpected"} : Raises(w, error)
  <2>1. job' \in [Workers -> Job] /\ Shapes'
    BY <1>3, <1>9 DEF Raises
  <2>2. budget' \in Budget
    BY <1>9, SpendTypes DEF Raises
  <2> QED BY <1>9, <2>1, <2>2 DEF Raises
<1>10. CASE Renew(w)
  <2>1. CASE Renewable(w, job[w].target)
    <3>1. Put(job[w].target, RenewedRow(job[w].target)) /\ job' = job
      BY <1>10, <2>1 DEF Renew
    <3>2. job[w].target \in Targets \/ UNCHANGED <<sets, runs>>
      BY <3>1 DEF Put, Targets
    <3>3. sets' \in [Sets -> SetRow] /\ runs' \in [Runs -> RunRow]
      BY <3>1, <3>2, PutRow, RowTypes
    <3> QED BY <1>10, <3>1, <3>3 DEF Renew, Shapes
  <2>2. CASE ~Renewable(w, job[w].target)
    <3> DEFINE r == [job[w] EXCEPT !.beating = FALSE]
    <3>1. /\ r \in Job /\ r.pc = job[w].pc /\ r.target = job[w].target /\ r.job = job[w].job
          /\ r.stamp = job[w].stamp /\ r.todo = job[w].todo /\ r.unsaved = job[w].unsaved
      <4>1. job[w] \in Job
        OBVIOUS
      <4> HIDE DEF TypeInv, TypeOK, Shapes
      <4> QED BY <4>1, BeatTypes
    <3>2. job' = [job EXCEPT ![w] = r] /\ UNCHANGED <<sets, runs>>
      BY <1>10, <2>2 DEF Renew
    <3> HIDE DEF r
    <3>3. Shaped(r)
      BY <3>1 DEF Shapes, Shaped
    <3>4. job' \in [Workers -> Job] /\ Shapes'
      BY <3>1, <3>2, <3>3, JobTypes
    <3> QED BY <1>10, <3>2, <3>4 DEF Renew
  <2> QED BY <2>1, <2>2
<1>11. ASSUME NEW r \in Job, job' = [job EXCEPT ![w] = r], r.target = job[w].target,
              r.job = job[w].job, r.stamp = job[w].stamp, r.unsaved = job[w].unsaved,
              job[w].pc \in {"claimed", "working"}, r.pc \in {"working", "over"},
              job[w].target \in Sets
       PROVE  job' \in [Workers -> Job] /\ Shapes'
  <2>1. Shaped(job[w]) /\ job[w].target \notin Runs
    BY <1>11, RowOf DEF Shapes
  <2>2. Shaped(r)
    BY <1>11, <2>1 DEF Shaped
  <2> QED BY <1>11, <2>2, JobTypes
<1>12. CASE BeginGeneration(w)
  <2> DEFINE r == [job[w] EXCEPT !.pc = "working", !.beating = TRUE]
  <2>1. job' = [job EXCEPT ![w] = Raised(w, "terminal")] \/ job' = [job EXCEPT ![w] = r]
    BY <1>12 DEF BeginGeneration
  <2>2. /\ r \in Job /\ r.pc = "working" /\ r.target = job[w].target /\ r.job = job[w].job
        /\ r.stamp = job[w].stamp /\ r.unsaved = job[w].unsaved
    <3>1. job[w] \in Job
      OBVIOUS
    <3> HIDE DEF TypeInv, TypeOK, Shapes
    <3> QED BY <3>1, BeginTypes
  <2> HIDE DEF r
  <2>3. job[w].pc = "claimed" /\ job[w].target \in Sets
    BY <1>12 DEF BeginGeneration, InJob
  <2>4. job' \in [Workers -> Job] /\ Shapes'
    BY <1>3, <1>11, <2>1, <2>2, <2>3
  <2> QED BY <1>12, <2>4 DEF BeginGeneration
<1>13. CASE Generate(w)
  <2>1. job[w].pc = "working" /\ job[w].target \in Sets
    BY <1>13 DEF Generate, InJob
  <2>2. CASE job' = [job EXCEPT ![w] = Raised(w, "retryable")]
    <3>1. job' \in [Workers -> Job] /\ Shapes'
      BY <1>3, <2>1, <2>2
    <3> QED BY <1>13, <3>1 DEF Generate
  <2>3. CASE job' # [job EXCEPT ![w] = Raised(w, "retryable")]
    <3>1. PICK chosen \in SUBSET Positions :
            job' = [job EXCEPT ![w].pc = "over", ![w].beating = FALSE, ![w].made =
                      IF sets[job[w].target].source = None THEN Sampled(chosen)
                      ELSE Translated(job[w].target, chosen)]
      BY <1>13, <2>3 DEF Generate
    <3>2. PICK made : made = IF sets[job[w].target].source = None THEN Sampled(chosen)
                             ELSE Translated(job[w].target, chosen)
      OBVIOUS
    <3>3. Sampled(chosen) \in [Positions -> EvalPair]
      <4>1. NoPair \in EvalPair /\ [NoPair EXCEPT !.state = "live"] \in EvalPair
        BY DEF NoPair, EvalPair
      <4> QED BY <4>1 DEF Sampled
    <3>4. ASSUME sets[job[w].target].source # None
          PROVE  Translated(job[w].target, chosen) \in [Positions -> EvalPair]
      <4>1. sets[job[w].target].source \in Sets
        BY <2>1, <3>4 DEF SetRow
      <4>2. ASSUME NEW p \in Positions PROVE Translated(job[w].target, chosen)[p] \in EvalPair
        <5>1. NoPair \in EvalPair
          BY DEF NoPair, EvalPair
        <5>2. pairs[sets[job[w].target].source][p].excluded \in BOOLEAN
          BY <4>1 DEF EvalPair
        <5>3. [state |-> "live", faithful |-> p \in chosen,
               excluded |-> p \notin chosen \/ pairs[sets[job[w].target].source][p].excluded]
                \in EvalPair
          BY <5>2 DEF EvalPair
        <5> QED BY <5>1, <5>3 DEF Translated
      <4>3. Translated(job[w].target, chosen) \in [Positions -> EvalPair]
        BY <4>2 DEF Translated
      <4> QED BY <4>3
    <3>5. made \in [Positions -> EvalPair]
      BY <3>2, <3>3, <3>4
    <3> DEFINE r == [job[w] EXCEPT !.pc = "over", !.beating = FALSE, !.made = made]
    <3>6. /\ r.pc = "over" /\ r.target = job[w].target /\ r.job = job[w].job
          /\ r.stamp = job[w].stamp /\ r.unsaved = job[w].unsaved
      BY DEF Job
    <3>9. r \in Job
      BY <3>5, MadeTypes
    <3>7. job' = [job EXCEPT ![w] = r]
      BY <3>1, <3>2
    <3> HIDE DEF r
    <3>8. job' \in [Workers -> Job] /\ Shapes'
      BY <1>11, <2>1, <3>6, <3>7, <3>9
    <3> QED BY <1>13, <3>8 DEF Generate
  <2> QED BY <2>2, <2>3
<1>14. CASE FinishGeneration(w)
  <2>1. job[w].pc # "idle" /\ job[w].target \in Sets /\ job[w].job \in JobIds
    BY <1>14 DEF FinishGeneration, InJob, Shapes, Shaped
  <2>2. job' \in [Workers -> Job] /\ Shapes'
    BY <1>3, <1>14, <2>1 DEF FinishGeneration
  <2>3. PICK count \in Nat :
          count = Cardinality({p \in Positions : job[w].made[p].state = "live"})
    BY CountTypes
  <2>4. /\ ReleasedRow(job[w].target, job[w].job, "ready") \in SetRow
        /\ ReleasedRow(job[w].target, job[w].job, "failed") \in SetRow
    BY <2>1, RowTypes, RowOf DEF Status
  <2>5. [ReleasedRow(job[w].target, job[w].job, "ready") EXCEPT !.pairCount = count] \in SetRow
    BY <2>4 DEF SetRow
  <2>6. job[w].made \in [Positions -> EvalPair]
    BY DEF Job
  <2>7. sets' \in [Sets -> SetRow] /\ pairs' \in [Sets -> [Positions -> EvalPair]]
    BY <1>14, <2>1, <2>3, <2>4, <2>5, <2>6 DEF FinishGeneration
  <2> QED BY <1>14, <2>2, <2>7 DEF FinishGeneration
<1>15. CASE BeginRun(w)
  <2>0. /\ job[w].pc = "claimed" /\ job[w].target \in Runs
        /\ job[w].target \in Targets /\ job[w].job \in JobIds
        /\ \A p \in Positions : job[w].unsaved[p] = None
    BY <1>15, RowOf DEF BeginRun, InJob, Shapes, Shaped
  <2>1. StampOf(w) \in Stamp
    BY DEF StampOf, Stamp, Project
  <2>2. PICK fresh \in BOOLEAN : fresh = (runs[job[w].target].stamp = None)
    OBVIOUS
  <2>3. PICK r : r = Begun(job[w], StampOf(w), fresh)
    OBVIOUS
  <2>4. /\ r \in Job /\ r.pc = "begun" /\ r.stamp \in Stamp
        /\ r.target = job[w].target /\ r.job = job[w].job /\ r.unsaved = job[w].unsaved
    BY <2>1, <2>3, BegunTypes
  <2>5. Shaped(r)
    BY <2>0, <2>4 DEF Shaped
  <2>6. job' = [job EXCEPT ![w] = Raised(w, "terminal")] \/ job' = [job EXCEPT ![w] = r]
    BY <1>15, <2>2, <2>3 DEF BeginRun, Begun
  <2>7. job' \in [Workers -> Job] /\ Shapes'
    BY <1>3, <2>0, <2>4, <2>5, <2>6, JobTypes
  <2> QED BY <1>15, <2>7 DEF BeginRun
<1>16. CASE StampRun(w)
  <2>0. /\ job[w].pc = "begun" /\ job[w].target \in Runs /\ job[w].stamp \in Stamp
        /\ job[w].target \in Targets /\ job[w].job \in JobIds
        /\ \A p \in Positions : job[w].unsaved[p] = None
    BY <1>16, RowOf DEF StampRun, InJob, Shapes, Shaped
  <2>1. PICK todo \in SUBSET Positions :
          todo = IF runs[job[w].target].deleted THEN {}
                 ELSE Included(runs[job[w].target].set) \ PairIdsForRun(job[w].target)
    BY DEF Included, ListForSet
  <2>2. PICK r : r = StampedJob(job[w], todo)
    OBVIOUS
  <2>3. /\ r \in Job /\ r.pc = "working" /\ r.stamp = job[w].stamp
        /\ r.target = job[w].target /\ r.job = job[w].job /\ r.unsaved = job[w].unsaved
    BY <2>2, StampedTypes
  <2>4. job' = [job EXCEPT ![w] = r]
    BY <1>16, <2>1, <2>2 DEF StampRun, StampedJob
  <2>5. Shaped(r)
    BY <2>0, <2>3 DEF Shaped
  <2>6. job' \in [Workers -> Job] /\ Shapes'
    BY <2>3, <2>4, <2>5, JobTypes
  <2>7. [runs[job[w].target] EXCEPT !.stamp = job[w].stamp] \in RunRow
    <3>1. runs[job[w].target] \in RunRow
      BY <2>0
    <3> QED BY <2>0, <3>1, StampRowTypes
  <2>8. runs' \in [Runs -> RunRow]
    BY <1>16, <2>0, <2>7 DEF StampRun
  <2> QED BY <1>16, <2>6, <2>8 DEF StampRun
<1>17. CASE AnswerAndJudge(w)
  <2>0. /\ job[w].pc = "working" /\ job[w].target \in Runs /\ job[w].stamp \in Stamp
        /\ job[w].target \in Targets /\ job[w].job \in JobIds
        /\ \A p \in Positions : job[w].unsaved[p] # None =>
             job[w].unsaved[p].stamp = job[w].stamp
        /\ job[w].todo \in SUBSET Positions /\ job[w].unsaved \in [Positions -> EvalResult]
    BY <1>17, RowOf DEF AnswerAndJudge, InJob, Shapes, Shaped, Job
  <2>1. PICK chunk \in SUBSET job[w].todo, wrong \in SUBSET job[w].todo :
          job' = [job EXCEPT
              ![w].todo = @ \ chunk,
              ![w].unsaved = [p \in Positions |->
                 IF p \notin chunk THEN @[p]
                 ELSE [verdict |-> IF p \in wrong THEN "error" ELSE "correct",
                       stamp |-> job[w].stamp]]]
    BY <1>17 DEF AnswerAndJudge
  <2>2. PICK unsaved : unsaved = [p \in Positions |->
                 IF p \notin chunk THEN job[w].unsaved[p]
                 ELSE [verdict |-> IF p \in wrong THEN "error" ELSE "correct",
                       stamp |-> job[w].stamp]]
    OBVIOUS
  <2>3. PICK todo \in SUBSET Positions : todo = job[w].todo \ chunk
    BY <2>0
  <2>4. /\ unsaved \in [Positions -> EvalResult]
        /\ \A p \in Positions : unsaved[p] # None => unsaved[p].stamp = job[w].stamp
    BY <2>0, <2>2 DEF EvalResult, EvalVerdict
  <2>5. PICK r : r = Answered(job[w], todo, unsaved)
    OBVIOUS
  <2>6. job' = [job EXCEPT ![w] = r]
    BY <2>1, <2>2, <2>3, <2>5 DEF Answered
  <2>7. /\ r \in Job /\ r.pc = "working" /\ r.stamp = job[w].stamp
        /\ r.target = job[w].target /\ r.job = job[w].job /\ r.unsaved = unsaved
    BY <2>0, <2>4, <2>5, AnsweredTypes
  <2>8. Shaped(r)
    BY <2>0, <2>4, <2>7 DEF Shaped
  <2>9. job' \in [Workers -> Job] /\ Shapes'
    BY <2>6, <2>7, <2>8, JobTypes
  <2> QED BY <1>17, <2>9 DEF AnswerAndJudge
<1>18. CASE CommitBatch(w)
  <2>0. job[w].pc = "working" /\ job[w].target \in Runs /\ Shaped(job[w])
    BY <1>18 DEF CommitBatch, InJob, Shapes
  <2>1. CASE job[w].beating /\ ~Collides(w) /\ HoldForCommit(w)
    <3>1. /\ results' = [results EXCEPT ![job[w].target] = Saved(w)]
          /\ job' = [job EXCEPT ![w].unsaved = Idle.unsaved]
      BY <1>18, <2>1 DEF CommitBatch
    <3>2. results' \in [Runs -> [Positions -> EvalResult]]
      BY <2>0, <3>1, SavedTypes
    <3>3. PICK r : r = [job[w] EXCEPT !.unsaved = Idle.unsaved]
      OBVIOUS
    <3>4. job' = [job EXCEPT ![w] = r]
      BY <3>1, <3>3
    <3>5. /\ r \in Job /\ r.pc = job[w].pc /\ r.stamp = job[w].stamp /\ r.todo = job[w].todo
          /\ r.target = job[w].target /\ r.job = job[w].job /\ r.unsaved = Idle.unsaved
      BY <3>3, SavedJobTypes
    <3>6. \A p \in Positions : Idle.unsaved[p] = None
      BY DEF Idle
    <3>7. Shaped(r)
      BY <2>0, <3>5, <3>6 DEF Shaped
    <3>8. job' \in [Workers -> Job] /\ Shapes'
      BY <3>4, <3>5, <3>7, JobTypes
    <3> QED BY <1>18, <3>2, <3>8 DEF CommitBatch
  <2>2. CASE ~(job[w].beating /\ ~Collides(w) /\ HoldForCommit(w))
    <3>1. /\ results' = results
          /\ \E e \in {"terminal", "retryable", "unexpected"} :
               job' = [job EXCEPT ![w] = Raised(w, e)]
      BY <1>18, <2>2 DEF CommitBatch
    <3>2. job' \in [Workers -> Job] /\ Shapes'
      BY <1>3, <2>0, <3>1
    <3> QED BY <1>18, <3>1, <3>2 DEF CommitBatch
  <2> QED BY <2>1, <2>2
<1>19. CASE EndAnswering(w)
  <2>0. /\ job[w].pc = "working" /\ job[w].target \in Runs /\ job[w].todo = {}
        /\ Shaped(job[w])
    BY <1>19 DEF EndAnswering, InJob, Shapes
  <2>1. PICK r : r = [job[w] EXCEPT !.pc = "over", !.beating = FALSE]
    OBVIOUS
  <2>2. job' = [job EXCEPT ![w] = Raised(w, "retryable")] \/ job' = [job EXCEPT ![w] = r]
    BY <1>19, <2>1 DEF EndAnswering
  <2>3. /\ r \in Job /\ r.pc = "over" /\ r.todo = job[w].todo /\ r.stamp = job[w].stamp
        /\ r.target = job[w].target /\ r.job = job[w].job /\ r.unsaved = job[w].unsaved
    BY <2>1, EndedTypes
  <2>4. Shaped(r)
    BY <2>0, <2>3 DEF Shaped
  <2>5. job' \in [Workers -> Job] /\ Shapes'
    BY <1>3, <2>0, <2>2, <2>3, <2>4, JobTypes
  <2> QED BY <1>19, <2>5 DEF EndAnswering
<1>20. CASE FinishRun(w)
  <2>0. job[w].pc = "over" /\ job[w].target \in Runs /\ job[w].job \in JobIds
    BY <1>20 DEF FinishRun, InJob, Shapes, Shaped
  <2>1. CASE Collides(w) \/ ~Releasable(w, job[w].target)
    <3>1. /\ UNCHANGED <<runs, results>>
          /\ \E e \in {"terminal", "retryable", "unexpected"} :
               job' = [job EXCEPT ![w] = Raised(w, e)]
      BY <1>20, <2>1 DEF FinishRun
    <3>2. job' \in [Workers -> Job] /\ Shapes'
      BY <1>3, <2>0, <3>1
    <3> QED BY <1>20, <3>1, <3>2 DEF FinishRun
  <2>2. CASE ~(Collides(w) \/ ~Releasable(w, job[w].target))
    <3> DEFINE rows_ == {p \in Positions : Saved(w)[p] # None}
               count(v) == Cardinality({p \in rows_ : Saved(w)[p].verdict = v})
               tally == [answered |-> Cardinality(rows_), correct |-> count("correct"),
                         errors |-> count("error")]
               released == ReleasedRow(job[w].target, job[w].job, "ready")
    <3>1. /\ runs' = [runs EXCEPT ![job[w].target] = [released EXCEPT !.tally = tally]]
          /\ results' = [results EXCEPT ![job[w].target] = Saved(w)]
          /\ job' = [job EXCEPT ![w] = Returned(w)]
      BY <1>20, <2>2 DEF FinishRun
    <3>2. tally \in Tally
      <4>1. Cardinality(rows_) \in Nat /\ count("correct") \in Nat /\ count("error") \in Nat
        BY CountTypes
      <4> QED BY <4>1 DEF Tally
    <3>3. released \in RunRow
      BY <2>0, RowTypes, RowOf DEF Status
    <3> HIDE DEF tally, released
    <3>4. [released EXCEPT !.tally = tally] \in RunRow
      BY <3>2, <3>3 DEF RunRow
    <3>5. runs' \in [Runs -> RunRow] /\ results' \in [Runs -> [Positions -> EvalResult]]
      BY <2>0, <3>1, <3>4, SavedTypes
    <3>6. job' \in [Workers -> Job] /\ Shapes'
      BY <1>3, <2>0, <3>1
    <3> QED BY <1>20, <3>5, <3>6 DEF FinishRun
  <2> QED BY <2>1, <2>2
<1> QED
  BY <1>1, <1>2, <1>4, <1>5, <1>6, <1>7, <1>8, <1>9, <1>10, <1>12, <1>13, <1>14, <1>15, <1>16,
     <1>17, <1>18, <1>19, <1>20
     DEF WorkerStep, WorkerFault

\* Every step keeps the types and the shapes.
LEMMA TypeNext == TypeInv /\ [Next]_vars => TypeInv'
<1>1. ASSUME TypeInv, UNCHANGED vars PROVE TypeInv'
  BY <1>1 DEF vars, TypeInv, TypeOK, Shapes
<1> QED BY <1>1, RequestTypes, WorkerTypes, DeliveryTypes DEF Next

-----------------------------------------------------------------------------
(* What a step may do to a row *)

\* What the lease and the status of a row may become in a step: nothing; the row is made; it
\* is deleted; a worker takes it, renews or cuts its lease, or ends its job; the lease
\* lapses; the worker dies.
Alike(a, b) ==
    b.status = a.status /\ b.owner = a.owner /\ b.lease = a.lease /\ b.deleted = a.deleted

Made(a, b) ==
    /\ a.status = "absent" /\ b.status = "working"
    /\ b.owner = None /\ b.lease = "none" /\ ~b.deleted

Deleted(a, b) ==
    /\ a.status # "absent" /\ ~a.deleted /\ b.deleted
    /\ b.status = a.status /\ b.owner = a.owner /\ b.lease = a.lease

Taken(a, b) ==
    /\ a.status = "working" /\ a.lease # "live" /\ ~a.deleted
    /\ b.status = "working" /\ b.owner \in Workers /\ b.lease = "live" /\ ~b.deleted

Kept(a, b) ==
    /\ a.owner \in Workers /\ b.status = a.status /\ b.owner = a.owner
    /\ b.deleted = a.deleted

Lapsed(a, b) ==
    /\ a.status # "absent" /\ a.lease = "live" /\ b.lease = "expired"
    /\ b.status = a.status /\ b.owner = a.owner /\ b.deleted = a.deleted

Ended(a, b) ==
    /\ a.owner \in Workers /\ ~a.deleted /\ b.status \in {"ready", "failed"}
    /\ b.owner = None /\ b.lease = "none" /\ ~b.deleted

Orphaned(a, b) ==
    /\ a.owner \in Workers /\ b.owner = Dead
    /\ b.status = a.status /\ b.lease = a.lease /\ b.deleted = a.deleted

WorkStep(a, b) ==
    \/ Alike(a, b) \/ Made(a, b) \/ Kept(a, b) \/ Lapsed(a, b) \/ Orphaned(a, b)

RowStep(a, b) == WorkStep(a, b) \/ Deleted(a, b) \/ Taken(a, b) \/ Ended(a, b)

\* A step also leaves alone which set a row was translated from, or is a run of, and what was
\* counted when its work ended.
Joined(t, a, b) ==
    /\ t \in Sets /\ a.status # "absent" =>
         b.source = a.source /\ (a.status # "working" => b.pairCount = a.pairCount)
    /\ t \in Runs => IF b.status = "absent" THEN b.set = a.set /\ b.stamp = a.stamp
                     ELSE a.status # "absent" =>
                            /\ b.set = a.set /\ (b.steady => a.steady)
                            /\ a.status # "working" => b.tally = a.tally

Moved(t, a, b) == WorkStep(a, b) /\ Joined(t, a, b)
Stepped(t, a, b) == RowStep(a, b) /\ Joined(t, a, b)

\* An owned row is being worked on, and an id not yet used has no lease.
RowSound(row) ==
    /\ row.owner # None => row.status = "working"
    /\ row.status = "absent" => row.lease = "none" /\ ~row.deleted

\* A run has a ready set for as long as it has a row, and a job has a row.
RowInv ==
    /\ \A t \in Targets : RowSound(Row(t))
    /\ \A r \in Runs : IF runs[r].status = "absent" THEN runs[r].set = None /\ runs[r].stamp = None
                       ELSE runs[r].set \in Sets /\ sets[runs[r].set].status = "ready"
    /\ \A w \in Workers : job[w].pc # "idle" => Row(job[w].target).status # "absent"

\* Each statement of repositories/lease.py is such a step.
LEMMA StatementMoves ==
    ASSUME TypeInv, RowInv, NEW t \in Targets
    PROVE  /\ \A w \in Workers, j \in JobIds :
                Claimable(t, j) => /\ Taken(Row(t), ClaimedRow(w, t, j))
                                   /\ Joined(t, Row(t), ClaimedRow(w, t, j))
                                   /\ ClaimedRow(w, t, j).owner = w
           /\ \A w \in Workers : Renewable(w, t) => Moved(t, Row(t), RenewedRow(t))
           /\ \A w \in Workers, j \in JobIds, s \in {"ready", "failed"} :
                Releasable(w, t) => /\ Ended(Row(t), ReleasedRow(t, j, s))
                                    /\ Joined(t, Row(t), ReleasedRow(t, j, s))
           /\ \A w \in Workers, a \in Nat :
                Releasable(w, t) => Moved(t, Row(t), DeferredRow(t, a))
           /\ Row(t).owner \in Workers => Moved(t, Row(t), [Row(t) EXCEPT !.owner = Dead])
           /\ Live(Row(t)) /\ Row(t).lease = "live"
                => Moved(t, Row(t), [Row(t) EXCEPT !.lease = "expired"])
           /\ \A b \in BOOLEAN : Moved(t, Row(t), [Row(t) EXCEPT !.aged = b])
           /\ Moved(t, Row(t), Row(t))
<1> DEFINE row == Row(t)
<1>1. row \in SetRow \/ row \in RunRow
  BY RowOf DEF TypeInv, TypeOK, Targets
<1>2. t \in Sets => row \in SetRow
  BY RowOf DEF TypeInv, TypeOK
<1>3. t \in Runs => row \in RunRow
  BY RowOf DEF TypeInv, TypeOK
<1>4. row.owner # None => row.status = "working"
  BY DEF RowInv, RowSound
<1>5. None \notin Workers
  BY EvalAssumption
<1> USE DEF Moved, WorkStep, Joined
<1>6. ASSUME NEW w \in Workers, NEW j \in JobIds, Claimable(t, j)
      PROVE  /\ Taken(Row(t), ClaimedRow(w, t, j))
             /\ Joined(t, Row(t), ClaimedRow(w, t, j))
             /\ ClaimedRow(w, t, j).owner = w
  <2>1. Taken(row, ClaimedRow(w, t, j)) /\ ClaimedRow(w, t, j).owner = w
    BY <1>1, <1>6 DEF ClaimedRow, Claimable, Working, Live, Taken, SetRow, RunRow
  <2>2. t \in Sets => ClaimedRow(w, t, j).source = row.source /\ ClaimedRow(w, t, j).pairCount = row.pairCount
    BY <1>2 DEF ClaimedRow, SetRow
  <2>3. t \in Runs => /\ ClaimedRow(w, t, j).set = row.set /\ ClaimedRow(w, t, j).steady = row.steady
                     /\ ClaimedRow(w, t, j).tally = row.tally
    BY <1>3 DEF ClaimedRow, RunRow
  <2>4. ClaimedRow(w, t, j).status # "absent"
    BY <2>1 DEF Taken
  <2> QED BY <2>1, <2>2, <2>3, <2>4
<1>7. ASSUME NEW w \in Workers, Renewable(w, t) PROVE Moved(t, Row(t), RenewedRow(t))
  <2>1. Kept(row, RenewedRow(t)) /\ RenewedRow(t).status = "working"
    BY <1>1, <1>4, <1>5, <1>7 DEF RenewedRow, Renewable, Kept, SetRow, RunRow
  <2>2. t \in Sets => RenewedRow(t).source = row.source /\ RenewedRow(t).pairCount = row.pairCount
    BY <1>2 DEF RenewedRow, SetRow
  <2>3. t \in Runs => /\ RenewedRow(t).set = row.set /\ RenewedRow(t).steady = row.steady
                     /\ RenewedRow(t).tally = row.tally
    BY <1>3 DEF RenewedRow, RunRow
  <2> QED BY <2>1, <2>2, <2>3
<1>8. ASSUME NEW w \in Workers, NEW j \in JobIds, NEW s \in {"ready", "failed"},
             Releasable(w, t)
      PROVE  /\ Ended(Row(t), ReleasedRow(t, j, s))
             /\ Joined(t, Row(t), ReleasedRow(t, j, s))
  <2>1. Ended(row, ReleasedRow(t, j, s)) /\ ReleasedRow(t, j, s).status # "absent"
    BY <1>1, <1>8 DEF ReleasedRow, Releasable, Ended, SetRow, RunRow
  <2>2. t \in Sets => ReleasedRow(t, j, s).source = row.source /\ ReleasedRow(t, j, s).pairCount = row.pairCount
    BY <1>2 DEF ReleasedRow, SetRow
  <2>3. t \in Runs => /\ ReleasedRow(t, j, s).set = row.set /\ ReleasedRow(t, j, s).steady = row.steady
                     /\ ReleasedRow(t, j, s).tally = row.tally
    BY <1>3 DEF ReleasedRow, RunRow
  <2> QED BY <2>1, <2>2, <2>3
<1>9. ASSUME NEW w \in Workers, NEW a \in Nat, Releasable(w, t)
      PROVE  Moved(t, Row(t), DeferredRow(t, a))
  <2>1. Kept(row, DeferredRow(t, a)) /\ DeferredRow(t, a).status = "working"
    BY <1>1, <1>4, <1>5, <1>9 DEF DeferredRow, Releasable, Kept, SetRow, RunRow
  <2>2. t \in Sets => DeferredRow(t, a).source = row.source /\ DeferredRow(t, a).pairCount = row.pairCount
    BY <1>2 DEF DeferredRow, SetRow
  <2>3. t \in Runs => /\ DeferredRow(t, a).set = row.set /\ DeferredRow(t, a).steady = row.steady
                     /\ DeferredRow(t, a).tally = row.tally
    BY <1>3 DEF DeferredRow, RunRow
  <2> QED BY <2>1, <2>2, <2>3
<1>10. ASSUME Row(t).owner \in Workers PROVE Moved(t, Row(t), [Row(t) EXCEPT !.owner = Dead])
  <2> DEFINE dead == [Row(t) EXCEPT !.owner = Dead]
  <2>1. Orphaned(row, dead) /\ dead.status = "working"
    BY <1>1, <1>4, <1>5, <1>10 DEF Orphaned, SetRow, RunRow
  <2>2. t \in Sets => dead.source = row.source /\ dead.pairCount = row.pairCount
    BY <1>2 DEF SetRow
  <2>3. t \in Runs => /\ dead.set = row.set /\ dead.steady = row.steady
                     /\ dead.tally = row.tally
    BY <1>3 DEF RunRow
  <2> QED BY <2>1, <2>2, <2>3
<1>11. ASSUME Live(Row(t)), Row(t).lease = "live"
       PROVE  Moved(t, Row(t), [Row(t) EXCEPT !.lease = "expired"])
  <2> DEFINE lapsed == [Row(t) EXCEPT !.lease = "expired"]
  <2>1. Lapsed(row, lapsed) /\ lapsed.status # "absent"
    BY <1>1, <1>11 DEF Lapsed, Live, SetRow, RunRow
  <2>2. t \in Sets => lapsed.source = row.source /\ lapsed.pairCount = row.pairCount
    BY <1>2 DEF SetRow
  <2>3. t \in Runs => /\ lapsed.set = row.set /\ lapsed.steady = row.steady
                     /\ lapsed.tally = row.tally
    BY <1>3 DEF RunRow
  <2> QED BY <2>1, <2>2, <2>3
<1>12. ASSUME NEW b \in BOOLEAN PROVE Moved(t, Row(t), [Row(t) EXCEPT !.aged = b])
  <2> DEFINE aged == [Row(t) EXCEPT !.aged = b]
  <2>1. Alike(row, aged)
    BY <1>1 DEF Alike, SetRow, RunRow
  <2>2. t \in Sets => aged.source = row.source /\ aged.pairCount = row.pairCount
    BY <1>2 DEF SetRow
  <2>3. t \in Runs => /\ aged.set = row.set /\ aged.steady = row.steady
                     /\ aged.tally = row.tally /\ aged.stamp = row.stamp
    BY <1>3 DEF RunRow
  <2> QED BY <2>1, <2>2, <2>3
<1>13. Moved(t, Row(t), Row(t))
  BY DEF Alike
<1> QED BY <1>6, <1>7, <1>8, <1>9, <1>10, <1>11, <1>12, <1>13

\* A step keeps the stamp of a run that has its row; one that loses a live lease, or its
\* owner.
SameStamp(t, a, b) == t \in Runs /\ a.status # "absent" => b.stamp = a.stamp

Loses(a, b) ==
    a.owner \in Workers /\ a.lease = "live" /\ ~(b.owner = a.owner /\ b.lease = "live")

LEMMA StatementStamps ==
    ASSUME TypeInv, NEW t \in Targets
    PROVE  /\ \A w \in Workers, j \in JobIds :
                SameStamp(t, Row(t), ClaimedRow(w, t, j))
           /\ SameStamp(t, Row(t), RenewedRow(t)) /\ ~Loses(Row(t), RenewedRow(t))
           /\ \A j \in JobIds, s \in Status : SameStamp(t, Row(t), ReleasedRow(t, j, s))
           /\ \A j \in JobIds : SameStamp(t, Row(t), FailedRow(t, j))
           /\ \A a \in Nat : SameStamp(t, Row(t), DeferredRow(t, a))
           /\ SameStamp(t, Row(t), [Row(t) EXCEPT !.owner = Dead])
           /\ SameStamp(t, Row(t), [Row(t) EXCEPT !.lease = "expired"])
           /\ \A b \in BOOLEAN : /\ SameStamp(t, Row(t), [Row(t) EXCEPT !.aged = b])
                                 /\ ~Loses(Row(t), [Row(t) EXCEPT !.aged = b])
           /\ SameStamp(t, Row(t), Row(t)) /\ ~Loses(Row(t), Row(t))
<1>1. Row(t) \in SetRow \/ Row(t) \in RunRow
  BY RowOf DEF TypeInv, TypeOK, Targets
<1>2. t \in Runs => Row(t) \in RunRow
  BY RowOf DEF TypeInv, TypeOK
<1>3. ~Loses(Row(t), RenewedRow(t)) /\ ~Loses(Row(t), Row(t))
  BY <1>1 DEF Loses, RenewedRow, SetRow, RunRow
<1>4. \A b \in BOOLEAN : ~Loses(Row(t), [Row(t) EXCEPT !.aged = b])
  BY <1>1 DEF Loses, SetRow, RunRow
<1>5. \A j \in JobIds, s \in Status : SameStamp(t, Row(t), ReleasedRow(t, j, s))
  BY <1>2 DEF SameStamp, ReleasedRow, RunRow
<1>6. ASSUME NEW j \in JobIds PROVE SameStamp(t, Row(t), FailedRow(t, j))
  <2> DEFINE row == ReleasedRow(t, j, "failed")
  <2>1. t \in Runs => row \in RunRow /\ FailedRow(t, j) = [row EXCEPT !.tally = TallyForRun(t)]
    BY FailedTypes, RowTypes DEF Status, TypeInv, TypeOK
  <2>2. SameStamp(t, Row(t), row)
    BY <1>5 DEF Status
  <2> HIDE DEF row
  <2>3. t \in Runs => [row EXCEPT !.tally = TallyForRun(t)].stamp = row.stamp
    BY <2>1 DEF RunRow
  <2> QED BY <2>1, <2>2, <2>3 DEF SameStamp
<1>7. /\ \A w \in Workers, j \in JobIds : SameStamp(t, Row(t), ClaimedRow(w, t, j))
      /\ SameStamp(t, Row(t), RenewedRow(t))
      /\ \A a \in Nat : SameStamp(t, Row(t), DeferredRow(t, a))
  BY <1>2 DEF SameStamp, ClaimedRow, RenewedRow, DeferredRow, RunRow
<1>8. /\ SameStamp(t, Row(t), [Row(t) EXCEPT !.owner = Dead])
      /\ SameStamp(t, Row(t), [Row(t) EXCEPT !.lease = "expired"])
      /\ \A b \in BOOLEAN : SameStamp(t, Row(t), [Row(t) EXCEPT !.aged = b])
      /\ SameStamp(t, Row(t), Row(t))
  BY <1>2 DEF SameStamp, RunRow
<1> QED BY <1>3, <1>4, <1>5, <1>6, <1>7, <1>8

\* A run is stamped by a worker that begins it, and a lease is lost by its owner, or lapses.
StampedBy(r, stamp) ==
    \E w \in Workers :
      StampRun(w) /\ job[w].target = r /\ job[w].fresh /\ stamp = job[w].stamp

LostBy(w, t) ==
    \/ Expire(t)
    \/ /\ job[w].target = t
       /\ Fail(w) \/ Defer(w) \/ Crash(w) \/ FinishGeneration(w) \/ FinishRun(w)

\* A row gets an owner only from that worker's claim.
TakenBy(w, t) == \E m \in topic : Claim(w, m) /\ m.target = t

NewOwner(a, b) == b.owner \in Workers /\ b.owner # a.owner

\* The work on a row ends when its job fails or finishes, and nowhere else.
EndedBy(t) ==
    \E w \in Workers : job[w].target = t /\ (Fail(w) \/ FinishGeneration(w) \/ FinishRun(w))

\* Every row makes one of these steps; a set is made only by create_set, deleted only by its
\* own request or with the project; and a run is only made of a ready set.
Moves ==
    /\ \A t \in Targets : /\ Stepped(t, Row(t), Row(t)')
                          /\ Ended(Row(t), Row(t)') => EndedBy(t)
                          /\ NewOwner(Row(t), Row(t)') => TakenBy(Row(t)'.owner, t)
                          /\ Loses(Row(t), Row(t)') => LostBy(Row(t).owner, t)
                          /\ SameStamp(t, Row(t), Row(t)') \/ StampedBy(t, Row(t)'.stamp)
    /\ \A s \in Sets : Deleted(sets[s], sets'[s]) => DeleteSet(s) \/ DeleteProject
    /\ \A s \in Sets : sets[s].status = "absent" /\ sets'[s].status # "absent" =>
         \E source \in Sets \cup {None} : CreateSetCommit(s, source)
    /\ \A r \in Runs : runs[r].status = "absent" /\ runs'[r].status # "absent" =>
         runs'[r].set \in Sets /\ sets[runs'[r].set].status = "ready"

LEMMA MovedIsStepped ==
    ASSUME NEW t, NEW a, NEW b, Moved(t, a, b)
    PROVE  Stepped(t, a, b) /\ ~Deleted(a, b) /\ ~Ended(a, b) /\ ~NewOwner(a, b)
<1>1. ~Deleted(a, b) /\ ~Ended(a, b) /\ ~NewOwner(a, b)
  BY EvalAssumption
     DEF Moved, WorkStep, Deleted, Alike, Made, Kept, Lapsed, Ended, Orphaned, NewOwner
<1> QED BY <1>1 DEF Moved, Stepped, RowStep

LEMMA MovesNone ==
    ASSUME TypeInv, RowInv, UNCHANGED <<sets, runs>>
    PROVE  Moves
<1>1. \A t \in Targets : Row(t)' = Row(t)
  BY DEF Row
<1>2. \A t \in Targets : Moved(t, Row(t), Row(t)')
  BY <1>1, StatementMoves
<1>3. \A t \in Targets : SameStamp(t, Row(t), Row(t)') /\ ~Loses(Row(t), Row(t)')
  BY <1>1, StatementStamps
<1> QED BY <1>2, <1>3, MovedIsStepped, RowOf DEF Moves, Deleted

LEMMA MovesOne ==
    ASSUME TypeInv, RowInv, NEW t \in Targets, NEW row, t \in Sets => row \in SetRow,
           t \in Runs => row \in RunRow, Put(t, row), Row(t).status # "absent",
           \/ Moved(t, Row(t), row)
           \/ Joined(t, Row(t), row) /\ Ended(Row(t), row) /\ EndedBy(t)
           \/ Joined(t, Row(t), row) /\ Taken(Row(t), row) /\ TakenBy(row.owner, t),
           Loses(Row(t), row) => LostBy(Row(t).owner, t),
           SameStamp(t, Row(t), row) \/ StampedBy(t, row.stamp)
    PROVE  Moves
<1>1. Row(t)' = row /\ \A x \in Targets \ {t} : Row(x)' = Row(x)
  BY PutRow DEF TypeInv, TypeOK
<1>2. \A x \in Targets \ {t} : Moved(x, Row(x), Row(x)')
  BY <1>1, StatementMoves
<1>3. /\ Stepped(t, Row(t), row) /\ ~Deleted(Row(t), row)
      /\ Ended(Row(t), row) => EndedBy(t)
      /\ NewOwner(Row(t), row) => TakenBy(row.owner, t)
  BY MovedIsStepped, EvalAssumption DEF Stepped, RowStep, Deleted, Ended, Taken, NewOwner
<1>4. /\ \A r \in Runs : r \in Targets /\ Row(r) = runs[r] /\ Row(r)' = runs'[r]
      /\ \A s \in Sets : s \in Targets /\ Row(s) = sets[s] /\ Row(s)' = sets'[s]
  BY RowOf, EvalAssumption DEF Row, Targets
<1>5. \A x \in Targets : /\ Stepped(x, Row(x), Row(x)') /\ ~Deleted(Row(x), Row(x)')
                         /\ Ended(Row(x), Row(x)') => EndedBy(x)
                         /\ NewOwner(Row(x), Row(x)') => TakenBy(Row(x)'.owner, x)
  BY <1>1, <1>2, <1>3, MovedIsStepped
<1>6. \A x \in Targets : /\ Loses(Row(x), Row(x)') => LostBy(Row(x).owner, x)
                         /\ SameStamp(x, Row(x), Row(x)') \/ StampedBy(x, Row(x)'.stamp)
  BY <1>1, StatementStamps
<1> QED BY <1>1, <1>4, <1>5, <1>6 DEF Moves

\* A write to one set, or to one run.
LEMMA PutSet ==
    ASSUME TypeInv, NEW t \in Sets, NEW row, sets' = [sets EXCEPT ![t] = row], runs' = runs
    PROVE  Put(t, row)
  BY RowOf DEF Put

LEMMA PutRun ==
    ASSUME TypeInv, NEW t \in Runs, NEW row, runs' = [runs EXCEPT ![t] = row], sets' = sets
    PROVE  Put(t, row)
  BY RowOf DEF Put

Asked(t, a, b) ==
    Stepped(t, a, b) /\ ~Ended(a, b) /\ ~NewOwner(a, b) /\ ~Loses(a, b) /\ SameStamp(t, a, b)

LEMMA RequestMoves ==
    ASSUME TypeInv, RowInv, Requests
    PROVE  Moves
<1> USE DEF rows, queue
<1>0. ASSUME \A s \in Sets : Asked(s, sets[s], sets'[s]),
             \A s \in Sets : Deleted(sets[s], sets'[s]) => DeleteSet(s) \/ DeleteProject,
             \A s \in Sets : sets[s].status = "absent" /\ sets'[s].status # "absent" =>
               \E source \in Sets \cup {None} : CreateSetCommit(s, source),
             \A r \in Runs : Asked(r, runs[r], runs'[r]),
             \A r \in Runs : runs[r].status = "absent" /\ runs'[r].status # "absent" =>
               runs'[r].set \in Sets /\ sets[runs'[r].set].status = "ready"
      PROVE  Moves
  <2>1. \A t \in Targets : \/ t \in Sets /\ Row(t) = sets[t] /\ Row(t)' = sets'[t]
                           \/ t \in Runs /\ Row(t) = runs[t] /\ Row(t)' = runs'[t]
    BY EvalAssumption DEF Row, Targets
  <2> QED BY <1>0, <2>1 DEF Moves, Asked
<1>S. /\ \A s \in Sets : Asked(s, sets[s], sets[s])
      /\ \A s \in Sets : ~Deleted(sets[s], sets[s])
      /\ \A r \in Runs : Asked(r, runs[r], runs[r])
  <2>1. \A t \in Targets : Moved(t, Row(t), Row(t))
    BY StatementMoves
  <2>2. \A t \in Targets : Asked(t, Row(t), Row(t)) /\ ~Deleted(Row(t), Row(t))
    BY <2>1, MovedIsStepped, StatementStamps DEF Asked
  <2> QED BY <2>2, RowOf
<1>R. \A r \in Runs : /\ runs[r] \in RunRow
                      /\ runs[r].status # "absent" <=> runs[r].set # None
  BY EvalAssumption DEF RowInv, TypeInv, TypeOK
<1>T. sets \in [Sets -> SetRow] /\ runs \in [Runs -> RunRow]
  BY DEF TypeInv, TypeOK
<1>1. CASE CreateSetRead \/ Reindex \/ AbandonReindex \/ FinishReindex
  BY <1>1, MovesNone DEF CreateSetRead, Reindex, AbandonReindex, FinishReindex
<1>2. ASSUME NEW s \in Sets, NEW source \in Sets \cup {None}, CreateSetCommit(s, source)
      PROVE  Moves
  <2>1. /\ sets[s].status = "absent" /\ runs' = runs /\ sets'[s] = EvalSet(source)
        /\ \A x \in Sets \ {s} : sets'[x] = sets[x]
    BY <1>2, <1>T DEF CreateSetCommit
  <2>2. Asked(s, sets[s], sets'[s])
    <3>1. Made(sets[s], sets'[s]) /\ ~Ended(sets[s], sets'[s])
          /\ ~NewOwner(sets[s], sets'[s])
      BY <2>1, EvalAssumption DEF Made, Ended, NewOwner, EvalSet
    <3>2. ~Loses(sets[s], sets'[s])
      BY <2>1, RowOf, EvalAssumption DEF Loses, RowInv, RowSound
    <3> QED BY <2>1, <3>1, <3>2, RowOf DEF Asked, SameStamp, Stepped, RowStep, WorkStep, Joined
  <2>3. ~Deleted(sets[s], sets'[s])
    BY <2>1 DEF Deleted
  <2> QED BY <1>0, <1>2, <1>S, <2>1, <2>2, <2>3
<1>D. \A r \in Runs : runs[r].status # "absent" =>
        Asked(r, runs[r], [runs[r] EXCEPT !.deleted = TRUE])
  <2> TAKE r \in Runs
  <2> HAVE runs[r].status # "absent"
  <2> DEFINE row == [runs[r] EXCEPT !.deleted = TRUE]
  <2>1. (Alike(runs[r], row) \/ Deleted(runs[r], row)) /\ ~Ended(runs[r], row)
        /\ ~NewOwner(runs[r], row) /\ ~Loses(runs[r], row)
    BY <1>R DEF Loses, Alike, Deleted, Ended, NewOwner, RunRow
  <2>2. /\ row.set = runs[r].set /\ row.stamp = runs[r].stamp
        /\ row.steady = runs[r].steady /\ row.tally = runs[r].tally
    BY <1>R DEF RunRow
  <2> QED BY <2>1, <2>2, RowOf DEF Asked, SameStamp, Stepped, RowStep, WorkStep, Joined
<1>E. \A s \in Sets : sets[s].status # "absent" =>
        Asked(s, sets[s], [sets[s] EXCEPT !.deleted = TRUE])
  <2> TAKE s \in Sets
  <2> HAVE sets[s].status # "absent"
  <2> DEFINE row == [sets[s] EXCEPT !.deleted = TRUE]
  <2>1. (Alike(sets[s], row) \/ Deleted(sets[s], row)) /\ ~Ended(sets[s], row)
        /\ ~NewOwner(sets[s], row) /\ ~Loses(sets[s], row)
    BY <1>T DEF Loses, Alike, Deleted, Ended, NewOwner, SetRow
  <2>2. row.source = sets[s].source /\ row.pairCount = sets[s].pairCount
    BY <1>T DEF SetRow
  <2> QED BY <2>1, <2>2, RowOf DEF Asked, SameStamp, Stepped, RowStep, WorkStep, Joined
<1>3. ASSUME NEW s \in Sets, DeleteSet(s) PROVE Moves
  <2>1. /\ sets[s].status # "absent" /\ sets' = [sets EXCEPT ![s].deleted = TRUE]
        /\ runs' = [r \in Runs |-> IF runs[r].set = s THEN [runs[r] EXCEPT !.deleted = TRUE]
                                   ELSE runs[r]]
    BY <1>3 DEF DeleteSet, Live
  <2>2. \A x \in Sets : Asked(x, sets[x], sets'[x])
    <3>1. /\ sets'[s] = [sets[s] EXCEPT !.deleted = TRUE]
          /\ \A x \in Sets \ {s} : sets'[x] = sets[x]
      BY <1>T, <2>1
    <3> QED BY <1>E, <1>S, <2>1, <3>1
  <2>3. s # None
    BY EvalAssumption
  <2>4. ASSUME NEW r \in Runs
        PROVE  Asked(r, runs[r], runs'[r]) /\ (runs[r].status = "absent" => runs'[r] = runs[r])
    BY <1>D, <1>S, <1>R, <2>1, <2>3
  <2>5. /\ \A x \in Sets \ {s} : sets'[x] = sets[x]
        /\ sets[s].status # "absent"
    BY <1>T, <2>1
  <2> QED BY <1>0, <1>3, <1>S, <2>2, <2>4, <2>5
<1>4. ASSUME NEW s \in Sets, NEW p \in Positions, SetExcluded(s, p) PROVE Moves
  <2>1. ASSUME NEW r \in Runs
        PROVE  Asked(r, runs[r], runs'[r]) /\ runs'[r].status = runs[r].status
    <3> DEFINE row == [runs[r] EXCEPT !.steady = FALSE]
    <3>1. /\ Alike(runs[r], row) /\ row.set = runs[r].set /\ row.stamp = runs[r].stamp
          /\ row.status = runs[r].status /\ row.steady = FALSE /\ row.tally = runs[r].tally
          /\ ~Ended(runs[r], row) /\ ~NewOwner(runs[r], row) /\ ~Loses(runs[r], row)
      BY <1>R, EvalAssumption DEF Loses, Alike, Ended, NewOwner, RunRow
    <3>2. Asked(r, runs[r], row)
      BY <3>1, RowOf DEF Asked, SameStamp, Stepped, RowStep, WorkStep, Joined
    <3>3. runs'[r] = row \/ runs'[r] = runs[r]
      BY <1>4 DEF SetExcluded
    <3> QED BY <1>S, <3>1, <3>2, <3>3
  <2> QED BY <1>0, <1>4, <1>S, <2>1 DEF SetExcluded
<1>5. ASSUME NEW r \in Runs, NEW s \in Sets, StartRun(r, s) PROVE Moves
  <2>1. /\ runs[r].status = "absent" /\ sets[s].status = "ready" /\ sets' = sets
        /\ runs'[r] = EvalRun(s) /\ \A x \in Runs \ {r} : runs'[x] = runs[x]
    BY <1>5, <1>T DEF StartRun, Startable
  <2>2. Asked(r, runs[r], runs'[r]) /\ runs'[r].set = s
    <3>1. Made(runs[r], runs'[r]) /\ ~Ended(runs[r], runs'[r]) /\ runs'[r].set = s
          /\ ~NewOwner(runs[r], runs'[r])
      BY <2>1, EvalAssumption DEF Made, Ended, NewOwner, EvalRun
    <3>2. ~Loses(runs[r], runs'[r])
      BY <2>1, RowOf, EvalAssumption DEF Loses, RowInv, RowSound
    <3> QED BY <2>1, <3>1, <3>2, RowOf DEF Asked, SameStamp, Stepped, RowStep, WorkStep, Joined, Made
  <2> QED BY <1>0, <1>S, <2>1, <2>2
<1>6. CASE DeleteProject
  <2>1. \A s \in Sets : Asked(s, sets[s], sets'[s])
    BY <1>6, <1>E, <1>S DEF DeleteProject
  <2>3. \A s \in Sets : sets[s].status = "absent" => sets'[s] = sets[s]
    BY <1>6 DEF DeleteProject
  <2>2. \A r \in Runs : /\ Asked(r, runs[r], runs'[r])
                        /\ runs[r].status = "absent" => runs'[r] = runs[r]
    BY <1>6, <1>D, <1>S DEF DeleteProject
  <2> QED BY <1>0, <1>6, <2>1, <2>2, <2>3
<1> QED BY <1>1, <1>2, <1>3, <1>4, <1>5, <1>6 DEF Requests

\* What is counted when work ends, or stamped, does not change the step.
LEMMA CountMoves ==
    ASSUME NEW t \in Targets, NEW a, NEW b, NEW value, Joined(t, a, b)
    PROVE  /\ t \in Sets /\ b \in SetRow /\ a.status = "working" =>
                LET c == [b EXCEPT !.pairCount = value] IN
                Joined(t, a, c) /\ (Ended(a, b) => Ended(a, c))
           /\ t \in Runs /\ b \in RunRow /\ a.status = "working" =>
                LET c == [b EXCEPT !.tally = value] IN
                Joined(t, a, c) /\ (Ended(a, b) => Ended(a, c)) /\ c.stamp = b.stamp
           /\ t \in Runs /\ b \in RunRow /\ b.status # "absent" /\ Alike(a, b) =>
                Moved(t, a, [b EXCEPT !.stamp = value]) /\ Alike(a, [b EXCEPT !.stamp = value])
<1>1. ASSUME t \in Sets, b \in SetRow, a.status = "working"
      PROVE  LET c == [b EXCEPT !.pairCount = value] IN
             Joined(t, a, c) /\ (Ended(a, b) => Ended(a, c))
  <2> DEFINE c == [b EXCEPT !.pairCount = value]
  <2>1. /\ c.status = b.status /\ c.owner = b.owner /\ c.lease = b.lease
        /\ c.deleted = b.deleted /\ c.source = b.source
    BY <1>1 DEF SetRow
  <2> HIDE DEF c
  <2>2. Joined(t, a, c) /\ (Ended(a, b) => Ended(a, c))
    BY <1>1, <2>1, RowOf DEF Joined, Ended
  <2> QED BY <2>2 DEF c
<1>2. ASSUME t \in Runs, b \in RunRow, a.status = "working"
      PROVE  LET c == [b EXCEPT !.tally = value] IN
             Joined(t, a, c) /\ (Ended(a, b) => Ended(a, c)) /\ c.stamp = b.stamp
  <2> DEFINE c == [b EXCEPT !.tally = value]
  <2>1. /\ c.status = b.status /\ c.owner = b.owner /\ c.lease = b.lease
        /\ c.deleted = b.deleted /\ c.set = b.set /\ c.stamp = b.stamp /\ c.steady = b.steady
    BY <1>2 DEF RunRow
  <2> HIDE DEF c
  <2>2. Joined(t, a, c) /\ (Ended(a, b) => Ended(a, c)) /\ c.stamp = b.stamp
    BY <1>2, <2>1, RowOf DEF Joined, Ended
  <2> QED BY <2>2 DEF c
<1>3. ASSUME t \in Runs, b \in RunRow, b.status # "absent", Alike(a, b)
      PROVE  Moved(t, a, [b EXCEPT !.stamp = value]) /\ Alike(a, [b EXCEPT !.stamp = value])
  <2> DEFINE c == [b EXCEPT !.stamp = value]
  <2>1. /\ c.status = b.status /\ c.owner = b.owner /\ c.lease = b.lease
        /\ c.deleted = b.deleted /\ c.set = b.set /\ c.steady = b.steady /\ c.tally = b.tally
    BY <1>3 DEF RunRow
  <2> HIDE DEF c
  <2>2. Moved(t, a, c) /\ Alike(a, c)
    BY <1>3, <2>1, RowOf DEF Moved, Joined, WorkStep, Alike
  <2> QED BY <2>2 DEF c
<1> QED BY <1>1, <1>2, <1>3

LEMMA FailedMoves ==
    ASSUME TypeInv, RowInv, NEW w \in Workers, NEW t \in Targets, NEW j \in JobIds,
           Releasable(w, t)
    PROVE  Joined(t, Row(t), FailedRow(t, j)) /\ Ended(Row(t), FailedRow(t, j))
<1> DEFINE row == ReleasedRow(t, j, "failed")
<1>1. Joined(t, Row(t), row) /\ Ended(Row(t), row)
  BY StatementMoves
<1>2. t \in Runs => row \in RunRow
  BY RowTypes DEF Status, TypeInv, TypeOK
<1>3. CASE t \in Sets
  BY <1>1, <1>3, FailedTypes
<1>4. CASE t \in Runs
  <2>1. FailedRow(t, j) = [row EXCEPT !.tally = TallyForRun(t)]
    BY <1>4, FailedTypes
  <2>2. Row(t).status = "working"
    BY EvalAssumption DEF Releasable, RowInv, RowSound
  <2> HIDE DEF row
  <2>3. \A tally : Joined(t, Row(t), [row EXCEPT !.tally = tally])
                     /\ Ended(Row(t), [row EXCEPT !.tally = tally])
    BY <1>1, <1>2, <1>4, <2>2, CountMoves
  <2> QED BY <2>1, <2>3
<1> QED BY <1>3, <1>4 DEF Targets

LEMMA WorkerMoves ==
    ASSUME TypeInv, RowInv, NEW w \in Workers, WorkerStep(w) \/ WorkerFault(w)
    PROVE  Moves
<1> USE DEF rows, queue
<1>T. sets \in [Sets -> SetRow] /\ runs \in [Runs -> RunRow]
  BY DEF TypeInv, TypeOK
<1>J. job[w].pc # "idle" => job[w].target \in Targets /\ job[w].job \in JobIds
  BY DEF TypeInv, Shapes, Shaped
<1>N. job[w].pc # "idle" => Row(job[w].target).status # "absent"
  BY DEF RowInv
<1>W. ASSUME NEW t \in Targets, Row(t).owner \in Workers PROVE Row(t).status = "working"
  BY <1>W, EvalAssumption DEF RowInv, RowSound
<1>1. ASSUME NEW m \in topic, Claim(w, m) PROVE Moves
  <2>1. m.target \in Targets /\ m.job \in JobIds
    BY DEF EvalJobMessage, TypeInv, TypeOK
  <2>2. Claimable(m.target, m.job) /\ Put(m.target, ClaimedRow(w, m.target, m.job))
    BY <1>1 DEF Claim
  <2>3. Row(m.target).status # "absent"
    BY <2>2 DEF Claimable, Working, Live
  <2>4. /\ m.target \in Sets => ClaimedRow(w, m.target, m.job) \in SetRow
        /\ m.target \in Runs => ClaimedRow(w, m.target, m.job) \in RunRow
    BY <1>T, <2>1, RowTypes
  <2>5. /\ Joined(m.target, Row(m.target), ClaimedRow(w, m.target, m.job))
        /\ Taken(Row(m.target), ClaimedRow(w, m.target, m.job))
        /\ TakenBy(ClaimedRow(w, m.target, m.job).owner, m.target)
    BY <1>1, <2>1, <2>2, StatementMoves DEF TakenBy
  <2>6. /\ SameStamp(m.target, Row(m.target), ClaimedRow(w, m.target, m.job))
        /\ ~Loses(Row(m.target), ClaimedRow(w, m.target, m.job))
    BY <2>1, <2>5, StatementStamps DEF Loses, Taken
  <2> QED BY <2>1, <2>2, <2>3, <2>4, <2>5, <2>6, MovesOne
<1>2. CASE UNCHANGED <<sets, runs>>
  BY <1>2, MovesNone
<1>4. CASE Fail(w)
  <2>1. CASE Releasable(w, job[w].target)
    <3> DEFINE t == job[w].target
               row == FailedRow(job[w].target, job[w].job)
    <3>1. t \in Targets /\ job[w].job \in JobIds /\ Row(t).status # "absent"
      BY <1>4, <1>J, <1>N DEF Fail
    <3>2. Put(t, row)
      BY <1>4, <2>1 DEF Fail
    <3>3. (t \in Sets => row \in SetRow) /\ (t \in Runs => row \in RunRow)
      BY <3>1, FailedTypes
    <3>4. Joined(t, Row(t), row) /\ Ended(Row(t), row)
      BY <2>1, <3>1, FailedMoves
    <3>5. EndedBy(t) /\ LostBy(Row(t).owner, t)
      BY <1>4, <2>1 DEF EndedBy, LostBy, Releasable
    <3>6. SameStamp(t, Row(t), row)
      BY <3>1, StatementStamps
    <3> QED BY <3>1, <3>2, <3>3, <3>4, <3>5, <3>6, MovesOne
  <2> QED BY <1>2, <1>4, <2>1 DEF Fail
<1>5. CASE Defer(w)
  <2>1. CASE Releasable(w, job[w].target)
    <3> DEFINE t == job[w].target
               row == DeferredRow(job[w].target, job[w].attempt)
    <3>1. t \in Targets /\ job[w].attempt \in Nat /\ Row(t).status # "absent"
      BY <1>5, <1>J, <1>N DEF Defer, TypeInv, TypeOK, Job
    <3>2. Put(t, row)
      BY <1>5, <2>1 DEF Defer
    <3>3. (t \in Sets => row \in SetRow) /\ (t \in Runs => row \in RunRow)
      BY <1>T, <3>1, RowTypes
    <3>4. Moved(t, Row(t), row)
      BY <2>1, <3>1, StatementMoves
    <3>5. SameStamp(t, Row(t), row) /\ LostBy(Row(t).owner, t)
      BY <1>5, <2>1, <3>1, StatementStamps DEF LostBy, Releasable
    <3> QED BY <3>1, <3>2, <3>3, <3>4, <3>5, MovesOne
  <2> QED BY <1>2, <1>5, <2>1 DEF Defer
<1>6. CASE Crash(w)
  <2>1. CASE Row(job[w].target).owner = w
    <3> DEFINE t == job[w].target
               row == [Row(job[w].target) EXCEPT !.owner = Dead]
    <3>1. t \in Targets /\ Row(t).status # "absent"
      BY <1>6, <1>J, <1>N DEF Crash
    <3>2. Put(t, row)
      BY <1>6, <2>1 DEF Crash
    <3>3. (t \in Sets => row \in SetRow) /\ (t \in Runs => row \in RunRow)
      BY <1>T, <3>1, RowTypes
    <3>4. Moved(t, Row(t), row)
      BY <2>1, <3>1, StatementMoves
    <3>5. SameStamp(t, Row(t), row) /\ LostBy(Row(t).owner, t)
      BY <1>6, <2>1, <3>1, StatementStamps DEF LostBy
    <3> QED BY <3>1, <3>2, <3>3, <3>4, <3>5, MovesOne
  <2> QED BY <1>2, <1>6, <2>1 DEF Crash
<1>7. CASE Renew(w)
  <2>1. CASE Renewable(w, job[w].target) /\ job[w].target \in Targets
    <3> DEFINE t == job[w].target
               row == RenewedRow(job[w].target)
    <3>1. t \in Targets /\ Row(t).status # "absent"
      BY <1>W, <2>1 DEF Renewable
    <3>2. Put(t, row)
      BY <1>7, <2>1 DEF Renew
    <3>3. (t \in Sets => row \in SetRow) /\ (t \in Runs => row \in RunRow)
      BY <1>T, <3>1, RowTypes
    <3>4. Moved(t, Row(t), row)
      BY <2>1, <3>1, StatementMoves
    <3>5. SameStamp(t, Row(t), row) /\ ~Loses(Row(t), row)
      BY <3>1, StatementStamps
    <3> QED BY <3>1, <3>2, <3>3, <3>4, <3>5, MovesOne
  <2> QED BY <1>2, <1>7, <2>1 DEF Renew, Put, Targets
<1>8. CASE FinishGeneration(w)
  <2> DEFINE t == job[w].target
             count == Cardinality({p \in Positions : job[w].made[p].state = "live"})
             ready == ReleasedRow(job[w].target, job[w].job, "ready")
             failed == ReleasedRow(job[w].target, job[w].job, "failed")
             counted == [ready EXCEPT !.pairCount = count]
  <2>0. t \in Sets /\ t \in Targets /\ job[w].job \in JobIds /\ Row(t).status # "absent"
    BY <1>8, <1>J, <1>N DEF FinishGeneration, InJob
  <2>1. /\ UNCHANGED runs
        /\ UNCHANGED sets \/ (Releasable(w, t) /\ sets' = [sets EXCEPT ![t] = counted])
             \/ (Releasable(w, t) /\ sets' = [sets EXCEPT ![t] = failed])
    BY <1>8 DEF FinishGeneration
  <2>2. ready \in SetRow /\ failed \in SetRow
    BY <1>T, <2>0, RowTypes DEF Status
  <2>3. counted \in SetRow
    <3>1. PICK n \in Nat : n = count
      BY CountTypes
    <3> HIDE DEF ready, count
    <3> QED BY <2>2, <3>1 DEF SetRow
  <2>4. CASE Releasable(w, t)
    <3>1. /\ Joined(t, Row(t), ready) /\ Ended(Row(t), ready)
          /\ Joined(t, Row(t), failed) /\ Ended(Row(t), failed)
      BY <2>0, <2>4, StatementMoves
    <3>2. Joined(t, Row(t), counted) /\ Ended(Row(t), counted)
      <4>1. Row(t).status = "working"
        BY <1>W, <2>0, <2>4 DEF Releasable
      <4> QED BY <2>0, <2>2, <3>1, <4>1, CountMoves
    <3>4. EndedBy(t) /\ LostBy(Row(t).owner, t)
      BY <1>8, <2>4 DEF EndedBy, LostBy, Releasable
    <3> HIDE DEF counted, failed
    <3>3. ASSUME NEW row, row = counted \/ row = failed, sets' = [sets EXCEPT ![t] = row],
                 runs' = runs
          PROVE  Moves
      <4>1. Put(t, row)
        BY <2>0, <3>3, PutSet
      <4>2. SameStamp(t, Row(t), row)
        BY <2>0, RowOf DEF SameStamp
      <4> QED BY <2>0, <2>2, <2>3, <3>1, <3>2, <3>3, <3>4, <4>1, <4>2, MovesOne, RowOf
    <3> QED BY <1>2, <2>1, <3>3
  <2> QED BY <1>2, <2>1, <2>4
<1>9. CASE StampRun(w)
  <2> DEFINE t == job[w].target
             row == [runs[t] EXCEPT !.stamp = job[w].stamp]
  <2>0. /\ t \in Runs /\ t \in Targets /\ Row(t) = runs[t] /\ Row(t).status # "absent"
        /\ job[w].stamp \in Stamp
    BY <1>9, <1>J, <1>N, RowOf DEF StampRun, InJob, TypeInv, Shapes, Shaped
  <2>1. sets' = sets /\ (runs' = runs \/ (job[w].fresh /\ runs' = [runs EXCEPT ![t] = row]))
    BY <1>9 DEF StampRun
  <2>2. row \in RunRow
    BY <1>T, <2>0, StampRowTypes
  <2>3. Moved(t, Row(t), row) /\ Alike(Row(t), row)
    <3>1. Joined(t, Row(t), runs[t]) /\ Alike(Row(t), runs[t])
      BY <2>0, StatementMoves DEF Moved, Alike
    <3> QED BY <1>T, <2>0, <3>1, CountMoves
  <2>5. row.stamp = job[w].stamp
    BY <1>T, <2>0 DEF RunRow
  <2> HIDE DEF row
  <2>4. CASE job[w].fresh /\ runs' = [runs EXCEPT ![t] = row]
    <3>1. Put(t, row)
      BY <2>0, <2>1, <2>4, PutRun
    <3>2. StampedBy(t, row.stamp) /\ ~Loses(Row(t), row)
      BY <1>9, <2>3, <2>4, <2>5 DEF StampedBy, Loses, Alike
    <3> QED BY <2>0, <2>2, <2>3, <3>1, <3>2, MovesOne, RowOf
  <2> QED BY <1>2, <2>1, <2>4
<1>10. CASE FinishRun(w)
  <2> DEFINE t == job[w].target
             rows_ == {p \in Positions : Saved(w)[p] # None}
             count(v) == Cardinality({p \in rows_ : Saved(w)[p].verdict = v})
             tally == [answered |-> Cardinality(rows_), correct |-> count("correct"),
                       errors |-> count("error")]
             ready == ReleasedRow(job[w].target, job[w].job, "ready")
             row == [ready EXCEPT !.tally = tally]
  <2>0. t \in Runs /\ t \in Targets /\ job[w].job \in JobIds /\ Row(t).status # "absent"
    BY <1>10, <1>J, <1>N DEF FinishRun, InJob
  <2>1. /\ UNCHANGED sets
        /\ UNCHANGED runs \/ (Releasable(w, t) /\ runs' = [runs EXCEPT ![t] = row])
    BY <1>10 DEF FinishRun
  <2>2. ready \in RunRow
    BY <1>T, <2>0, RowTypes DEF Status
  <2>3. tally \in Tally
    <3>1. Cardinality(rows_) \in Nat /\ count("correct") \in Nat /\ count("error") \in Nat
      BY CountTypes
    <3> QED BY <3>1 DEF Tally
  <2> HIDE DEF tally, ready
  <2>4. row \in RunRow
    BY <2>2, <2>3 DEF RunRow
  <2>5. CASE Releasable(w, t) /\ runs' = [runs EXCEPT ![t] = row]
    <3>1. Joined(t, Row(t), ready) /\ Ended(Row(t), ready)
      BY <2>0, <2>5, StatementMoves DEF ready
    <3>2. Joined(t, Row(t), row) /\ Ended(Row(t), row)
      <4>1. Row(t).status = "working"
        BY <1>W, <2>0, <2>5 DEF Releasable
      <4> QED BY <2>0, <2>2, <3>1, <4>1, CountMoves
    <3>4. EndedBy(t) /\ LostBy(Row(t).owner, t)
      BY <1>10, <2>5 DEF EndedBy, LostBy, Releasable
    <3>5. SameStamp(t, Row(t), row)
      <4>1. SameStamp(t, Row(t), ready)
        BY <2>0, StatementStamps DEF Status, ready
      <4>2. row.stamp = ready.stamp
        BY <2>2 DEF RunRow
      <4> QED BY <4>1, <4>2 DEF SameStamp
    <3> HIDE DEF row
    <3>3. Put(t, row)
      BY <2>0, <2>1, <2>5, PutRun
    <3> QED BY <2>0, <2>4, <3>2, <3>3, <3>4, <3>5, MovesOne, RowOf
  <2> QED BY <1>2, <2>1, <2>5
<1>11. CASE \/ \E m \in topic : Skip(w, m)
            \/ RouteFailure(w) \/ CommitOffset(w) \/ BeginGeneration(w) \/ Generate(w)
            \/ BeginRun(w) \/ AnswerAndJudge(w) \/ CommitBatch(w) \/ EndAnswering(w)
            \/ \E error \in {"terminal", "retryable", "unexpected"} : Raises(w, error)
  <2>1. UNCHANGED <<sets, runs>>
    BY <1>11 DEF Skip, RouteFailure, CommitOffset, BeginGeneration, Generate, BeginRun,
                 AnswerAndJudge, CommitBatch, EndAnswering, Raises
  <2> QED BY <1>2, <2>1
<1> QED BY <1>1, <1>4, <1>5, <1>6, <1>7, <1>8, <1>9, <1>10, <1>11 DEF WorkerStep, WorkerFault

LEMMA DeliveryMoves ==
    ASSUME TypeInv, RowInv,
           \/ \E t \in Targets : Delivery(t) \/ PublishLost(t)
           \/ \E m \in retry : RetryDue(m)
    PROVE  Moves
<1> USE DEF rows, queue
<1>T. sets \in [Sets -> SetRow] /\ runs \in [Runs -> RunRow]
  BY DEF TypeInv, TypeOK
<1>1. ASSUME NEW t \in Targets, Publish(t) \/ PublishLost(t) PROVE Moves
  BY <1>1, MovesNone DEF Publish, PublishLost
<1>2. ASSUME NEW m \in retry, RetryDue(m) PROVE Moves
  BY <1>2, MovesNone DEF RetryDue
<1>3. ASSUME NEW t \in Targets, Expire(t) PROVE Moves
  <2> DEFINE row == [Row(t) EXCEPT !.lease = "expired"]
  <2>1. Live(Row(t)) /\ Row(t).lease = "live" /\ Put(t, row) /\ Row(t).status # "absent"
    BY <1>3 DEF Expire, Live
  <2>2. (t \in Sets => row \in SetRow) /\ (t \in Runs => row \in RunRow)
    BY <1>T, RowTypes
  <2>3. Moved(t, Row(t), row)
    BY <2>1, StatementMoves
  <2>4. SameStamp(t, Row(t), row) /\ LostBy(Row(t).owner, t)
    BY <1>3, StatementStamps DEF LostBy
  <2> HIDE DEF row
  <2> QED BY <2>1, <2>2, <2>3, <2>4, MovesOne
<1>4. ASSUME NEW t \in Targets, Age(t) \/ Sweep(t) PROVE Moves
  <2>1. PICK b \in BOOLEAN : Put(t, [Row(t) EXCEPT !.aged = b])
    BY <1>4 DEF Age, Sweep
  <2> DEFINE row == [Row(t) EXCEPT !.aged = b]
  <2>2. (t \in Sets => row \in SetRow) /\ (t \in Runs => row \in RunRow)
    BY <1>T, RowTypes
  <2>3. Moved(t, Row(t), row) /\ Row(t).status # "absent"
    BY <1>4, StatementMoves DEF Age, Sweep, Stranded, Working, Live
  <2>4. SameStamp(t, Row(t), row) /\ ~Loses(Row(t), row)
    BY StatementStamps
  <2> HIDE DEF row
  <2> QED BY <2>1, <2>2, <2>3, <2>4, MovesOne DEF row
<1> QED BY <1>1, <1>2, <1>3, <1>4 DEF Delivery

LEMMA StepMoves == TypeInv /\ RowInv /\ [Next]_vars => Moves
  BY RequestMoves, WorkerMoves, DeliveryMoves, MovesNone DEF Next, vars

\* What such a step keeps of one row: it stays sound, is never unmade, and a ready row, as
\* one whose work failed, is never worked on again.
LEMMA SoundMoves ==
    ASSUME NEW a, NEW b, RowSound(a), RowStep(a, b)
    PROVE  /\ RowSound(b)
           /\ a.status # "absent" => b.status # "absent"
           /\ a.status \in {"ready", "failed"} => b.status = a.status
           /\ b.status = "working" => a.status \in {"absent", "working"}
           /\ a.deleted => b.deleted
  BY EvalAssumption
     DEF RowSound, RowStep, WorkStep, Alike, Made, Deleted, Taken, Kept, Lapsed, Ended, Orphaned

LEMMA SetStands ==
    ASSUME TypeInv, RowInv, Moves
    PROVE  /\ \A s \in Sets : sets[s].status \in {"ready", "failed"} =>
                sets'[s].status = sets[s].status
           /\ \A t \in Targets : Row(t).status # "absent" => Row(t)'.status # "absent"
<1>1. \A t \in Targets : RowSound(Row(t)) /\ RowStep(Row(t), Row(t)')
  BY DEF RowInv, Moves, Stepped
<1>2. \A s \in Sets : s \in Targets /\ Row(s) = sets[s] /\ Row(s)' = sets'[s]
  BY DEF Row, Targets
<1> QED BY <1>1, <1>2, SoundMoves

\* A job keeps its target from the claim on.
LEMMA JobTarget ==
    ASSUME TypeInv, NEW w \in Workers, WorkerStep(w) \/ WorkerFault(w)
    PROVE  /\ \A x \in Workers \ {w} : job'[x] = job[x]
           /\ \/ job'[w].target = job[w].target /\ (job'[w].pc # "idle" => job[w].pc # "idle")
              \/ job'[w].pc = "idle"
              \/ \E m \in topic : Claim(w, m) /\ job'[w].target = m.target
<1> DEFINE Goal == /\ \A x \in Workers \ {w} : job'[x] = job[x]
                   /\ \/ job'[w].target = job[w].target /\ (job'[w].pc # "idle" => job[w].pc # "idle")
                      \/ job'[w].pc = "idle"
                      \/ \E m \in topic : Claim(w, m) /\ job'[w].target = m.target
<1>T. job \in [Workers -> Job]
  BY DEF TypeInv, TypeOK
<1>1. ASSUME NEW r, job' = [job EXCEPT ![w] = r],
             r.pc = "idle" \/ (r.target = job[w].target /\ job[w].pc # "idle")
      PROVE  Goal
  BY <1>1, <1>T
<1>2. /\ Idle.pc = "idle" /\ Returned(w).target = job[w].target
      /\ [Returned(w) EXCEPT !.pc = "produce"].target = job[w].target
      /\ \A e : Raised(w, e).target = job[w].target
  BY DEF Returned, Raised, Idle
<1>3. ASSUME UNCHANGED job PROVE Goal
  BY <1>3
<1>4. ASSUME NEW m \in topic, Claim(w, m) PROVE Goal
  <2>1. [Idle EXCEPT !.pc = "claimed", !.target = m.target, !.job = m.job,
                     !.attempt = m.attempt].target = m.target
    BY DEF Idle
  <2> QED BY <1>4, <1>T, <2>1 DEF Claim
<1>5. CASE \/ Fail(w) \/ Defer(w) \/ RouteFailure(w) \/ CommitOffset(w) \/ Crash(w)
           \/ FinishGeneration(w) \/ FinishRun(w)
           \/ \E error \in {"terminal", "retryable", "unexpected"} : Raises(w, error)
  BY <1>1, <1>2, <1>5
     DEF Fail, Defer, RouteFailure, CommitOffset, Crash, FinishGeneration, FinishRun, Raises,
         InJob
<1>6. ASSUME NEW r \in Job, job' = [job EXCEPT ![w] = r], r.target = job[w].target,
             r.pc = job[w].pc \/ job[w].pc # "idle"
      PROVE  Goal
  BY <1>6, <1>T
<1>7. CASE Renew(w)
  <2> DEFINE r == [job[w] EXCEPT !.beating = FALSE]
  <2>1. r \in Job /\ r.target = job[w].target /\ r.pc = job[w].pc
    BY <1>T, BeatTypes
  <2> QED BY <1>3, <1>6, <1>7, <2>1 DEF Renew
<1>8. CASE BeginGeneration(w) \/ BeginRun(w)
  <2>1. job[w].pc # "idle"
    BY <1>8 DEF BeginGeneration, BeginRun, InJob
  <2>2. \E r : job' = [job EXCEPT ![w] = r] /\ r.target = job[w].target
    <3>1. CASE BeginGeneration(w)
      <4>1. [job[w] EXCEPT !.pc = "working", !.beating = TRUE].target = job[w].target
        BY <1>T DEF Job
      <4> QED BY <1>2, <3>1, <4>1 DEF BeginGeneration
    <3>2. CASE BeginRun(w)
      <4>1. [job[w] EXCEPT !.pc = "begun", !.stamp = StampOf(w),
                           !.fresh = runs[job[w].target].stamp = None].target = job[w].target
        BY <1>T DEF Job
      <4> QED BY <1>2, <3>2, <4>1 DEF BeginRun
    <3> QED BY <1>8, <3>1, <3>2
  <2> QED BY <1>1, <2>1, <2>2
<1>9. CASE \/ Generate(w) \/ StampRun(w) \/ AnswerAndJudge(w) \/ CommitBatch(w)
           \/ EndAnswering(w)
  <2>1. job[w].pc # "idle"
    BY <1>9 DEF Generate, StampRun, AnswerAndJudge, CommitBatch, EndAnswering, InJob
  <2>2. CASE \E e : job' = [job EXCEPT ![w] = Raised(w, e)]
    BY <1>1, <1>2, <2>1, <2>2
  <2>3. CASE \E made : job' = [job EXCEPT ![w].pc = "over", ![w].beating = FALSE,
                                          ![w].made = made]
    BY <1>T, <2>1, <2>3 DEF Job
  <2>4. CASE \E todo : job' = [job EXCEPT ![w].pc = "working", ![w].beating = TRUE,
                                          ![w].todo = todo]
    BY <1>T, <2>1, <2>4 DEF Job
  <2>5. CASE \E todo, unsaved : job' = [job EXCEPT ![w].todo = todo, ![w].unsaved = unsaved]
    BY <1>T, <2>1, <2>5 DEF Job
  <2>6. CASE job' = [job EXCEPT ![w].unsaved = Idle.unsaved]
    BY <1>T, <2>1, <2>6 DEF Job
  <2>7. CASE job' = [job EXCEPT ![w] = [job[w] EXCEPT !.pc = "over", !.beating = FALSE]]
    BY <1>T, <2>1, <2>7 DEF Job
  <2>8. CASE Generate(w)
    BY <2>2, <2>3, <2>8 DEF Generate
  <2>9. CASE StampRun(w)
    BY <2>4, <2>9 DEF StampRun
  <2>10. CASE AnswerAndJudge(w)
    BY <2>5, <2>10 DEF AnswerAndJudge
  <2>11. CASE CommitBatch(w)
    BY <2>2, <2>6, <2>11 DEF CommitBatch
  <2>12. CASE EndAnswering(w)
    BY <2>2, <2>7, <2>12 DEF EndAnswering
  <2> QED BY <1>9, <2>8, <2>9, <2>10, <2>11, <2>12
<1>10. CASE \E m \in topic : Skip(w, m)
  BY <1>3, <1>10 DEF Skip
<1> QED BY <1>4, <1>5, <1>7, <1>8, <1>9, <1>10 DEF WorkerStep, WorkerFault

LEMMA RowNext == TypeInv /\ RowInv /\ [Next]_vars => RowInv'
<1> SUFFICES ASSUME TypeInv, RowInv, [Next]_vars PROVE RowInv'
  OBVIOUS
<1>1. Moves
  BY StepMoves
<1>2. ASSUME NEW t \in Targets PROVE RowSound(Row(t)')
  BY <1>1, SoundMoves DEF Moves, Stepped, RowInv
<1>3. ASSUME NEW r \in Runs
      PROVE  IF runs'[r].status = "absent" THEN runs'[r].set = None /\ runs'[r].stamp = None
             ELSE runs'[r].set \in Sets /\ sets'[runs'[r].set].status = "ready"
  <2>1. Row(r) = runs[r] /\ Row(r)' = runs'[r] /\ r \in Targets
    BY EvalAssumption DEF Row, Targets
  <2>2. RowSound(runs[r]) /\ Stepped(r, runs[r], runs'[r])
    BY <1>1, <2>1 DEF Moves, RowInv
  <2>3. runs[r].status # "absent" => runs'[r].status # "absent"
    BY <2>2, SoundMoves DEF Stepped
  <2>4. CASE runs'[r].status = "absent"
    BY <2>2, <2>3, <2>4 DEF Stepped, Joined, RowInv
  <2>5. CASE runs'[r].status # "absent"
    <3>1. runs'[r].set \in Sets /\ sets[runs'[r].set].status = "ready"
      BY <1>1, <2>2, <2>5 DEF Stepped, Joined, Moves, RowInv
    <3> QED BY <1>1, <2>5, <3>1, SetStands
  <2> QED BY <2>4, <2>5
<1>4. ASSUME NEW x \in Workers, job'[x].pc # "idle"
      PROVE  Row(job[x].target)'.status # "absent"
  <2>1. \A y \in Workers : job[y].pc # "idle" =>
          job[y].target \in Targets /\ Row(job[y].target).status # "absent"
    BY DEF RowInv, TypeInv, Shapes, Shaped
  <2>2. \A t \in Targets : Row(t).status # "absent" => Row(t)'.status # "absent"
    BY <1>1, SetStands
  <2>3. job'[x].target \in Targets /\ Row(job'[x].target).status # "absent"
    <3>1. ASSUME NEW w \in Workers, WorkerStep(w) \/ WorkerFault(w)
          PROVE  job'[x].target \in Targets /\ Row(job'[x].target).status # "absent"
      <4>1. ASSUME NEW m \in topic, Claim(x, m), job'[x].target = m.target
            PROVE  job'[x].target \in Targets /\ Row(job'[x].target).status # "absent"
        BY <4>1 DEF Claim, Claimable, Working, Live, TypeInv, TypeOK, EvalJobMessage
      <4> QED BY <1>4, <2>1, <3>1, <4>1, JobTarget
    <3>2. UNCHANGED job => job'[x].target \in Targets /\ Row(job'[x].target).status # "absent"
      BY <1>4, <2>1
    <3>3. Requests => UNCHANGED job
      BY DEF Requests, CreateSetRead, CreateSetCommit, DeleteSet, SetExcluded, StartRun,
             Reindex, AbandonReindex, FinishReindex, DeleteProject
    <3>4. \A t \in Targets : Delivery(t) \/ PublishLost(t) => UNCHANGED job
      BY DEF Delivery, Publish, Expire, Age, Sweep, PublishLost
    <3>5. \A m \in retry : RetryDue(m) => UNCHANGED job
      BY DEF RetryDue
    <3> QED BY <3>1, <3>2, <3>3, <3>4, <3>5 DEF Next, vars
  <2>4. PICK t \in Targets : t = job'[x].target
    BY <2>3
  <2>5. Row(t)'.status # "absent"
    BY <2>2, <2>3, <2>4
  <2> QED BY <2>4, <2>5 DEF Row
<1> QED BY <1>2, <1>3, <1>4 DEF RowInv

LEMMA RowInit == Init => RowInv
<1> SUFFICES ASSUME Init PROVE RowInv
  OBVIOUS
<1>1. ASSUME NEW s \in Sets
      PROVE  sets[s].owner = None /\ sets[s].lease = "none" /\ sets[s].deleted = FALSE
  <2>1. PICK start \in Starts :
          sets = [x \in Sets |-> IF x \in start.ready
                      THEN [EvalSet(None) EXCEPT !.status = "ready",
                                                 !.pairCount = Cardinality(Positions)]
                      ELSE [EvalSet(None) EXCEPT !.status = "absent", !.pairCount = 0]]
    BY DEF Init
  <2> QED BY <2>1 DEF EvalSet
<1>2. ASSUME NEW r \in Runs
      PROVE  /\ runs[r].owner = None /\ runs[r].lease = "none" /\ runs[r].deleted = FALSE
             /\ runs[r].status = "absent" /\ runs[r].set = None /\ runs[r].stamp = None
  BY DEF Init, EvalRun
<1>3. \A w \in Workers : job[w].pc = "idle"
  BY IdleTypes DEF Init
<1>4. \A t \in Targets : RowSound(Row(t))
  BY <1>1, <1>2, RowOf DEF Targets, RowSound
<1> QED BY <1>2, <1>3, <1>4 DEF RowInv

-----------------------------------------------------------------------------
(* The theorems *)

\* Every step maps to a step of the lease's promise, or to a stutter, for every row.
LEMMA LeaseStep ==
    ASSUME TypeInv, RowInv, [Next]_vars, NEW t \in Targets
    PROVE  [Work(t)!Next]_(Work(t)!vars)
<1> DEFINE a == Row(t)
           b == Row(t)'
<1>1. RowSound(a) /\ RowStep(a, b)
  BY StepMoves DEF Moves, Stepped, RowInv
<1>2. a.deleted \in BOOLEAN /\ b.deleted \in BOOLEAN
  BY TypeNext, RowOf, EvalAssumption DEF Row, Targets, TypeInv, TypeOK, SetRow, RunRow
<1>3. CASE Alike(a, b) \/ Made(a, b)
  BY <1>1, <1>2, <1>3 DEF Alike, Made, RowSound, Work!vars
<1>4. CASE Deleted(a, b)
  BY <1>2, <1>4 DEF Deleted, Work!Next, Work!Delete
<1>5. CASE Taken(a, b)
  <2>1. Work(t)!Take(b.owner) /\ b.owner \in Workers
    BY <1>2, <1>5 DEF Taken, Work!Take
  <2> QED BY <2>1 DEF Work!Next
<1>6. CASE Kept(a, b)
  <2>1. Work(t)!Renew(a.owner) /\ a.owner \in Workers
    BY <1>2, <1>6 DEF Kept, Work!Renew
  <2> QED BY <2>1 DEF Work!Next
<1>7. CASE Lapsed(a, b)
  BY <1>2, <1>7 DEF Lapsed, Work!Next, Work!Lapse
<1>8. CASE Ended(a, b)
  <2>1. a.status = "working"
    BY <1>1, <1>8, EvalAssumption DEF Ended, RowSound
  <2>2. Work(t)!Record(a.owner) /\ a.owner \in Workers
    BY <1>2, <1>8, <2>1 DEF Ended, Work!Record
  <2> QED BY <2>2 DEF Work!Next
<1>9. CASE Orphaned(a, b)
  BY <1>2, <1>9, EvalAssumption DEF Orphaned, Work!Next, Work!Die
<1> QED BY <1>1, <1>3, <1>4, <1>5, <1>6, <1>7, <1>8, <1>9 DEF RowStep, WorkStep

\* The generation of every set and every run keeps what a lease promises: a worker takes the
\* row only when no lease on it is live, only the worker it names writes, and that ends its
\* tenure, whatever the queue redelivers, the sweep repeats and the workers lose.
THEOREM EvalLeaseSafe == Spec => LeaseHonoured
<1>1. Init => TypeInv /\ RowInv
  BY TypeInit, RowInit
<1>2. TypeInv /\ RowInv /\ [Next]_vars => TypeInv' /\ RowInv'
  BY TypeNext, RowNext
<1>3. TypeInv /\ RowInv /\ [Next]_vars => \A t \in Targets : [Work(t)!Next]_(Work(t)!vars)
  BY LeaseStep
<1> QED BY <1>1, <1>2, <1>3, PTL DEF Spec, LeaseHonoured

\* The invariant that rows and translations keep together.
SourceInv == TypeInv /\ RowInv /\ TranslationHasSource

LEMMA SourceNext == SourceInv /\ [Next]_vars => SourceInv'
<1> SUFFICES ASSUME SourceInv, [Next]_vars PROVE TranslationHasSource'
  BY TypeNext, RowNext DEF SourceInv
<1> USE DEF SourceInv
<1>1. Moves
  BY StepMoves
<1>2. /\ \A s \in Sets : Row(s) = sets[s] /\ Row(s)' = sets'[s] /\ s \in Targets
      /\ \A s \in Sets : sets[s].deleted \in BOOLEAN /\ sets'[s].deleted \in BOOLEAN
      /\ \A s \in Sets : sets[s].source \in Sets \cup {None}
  BY TypeNext DEF Row, Targets, TypeInv, TypeOK, SetRow
<1>3. \A s \in Sets : RowSound(sets[s]) /\ Stepped(s, sets[s], sets'[s])
  BY <1>1, <1>2 DEF Moves, RowInv
<1> SUFFICES ASSUME NEW s \in Sets, sets'[s].status = "working", ~sets'[s].deleted,
                    sets'[s].source # None
             PROVE  /\ sets'[sets'[s].source].status = "ready"
                    /\ ~sets'[sets'[s].source].deleted
  BY <1>2 DEF TranslationHasSource, Working, Live
<1>4. CASE sets[s].status = "absent"
  <2>1. PICK source \in Sets \cup {None} : CreateSetCommit(s, source)
    BY <1>1, <1>4 DEF Moves
  <2>2. sets'[s] = EvalSet(source) /\ \A x \in Sets \ {s} : sets'[x] = sets[x]
    BY <2>1 DEF CreateSetCommit, TypeInv, TypeOK
  <2>3. sets'[s].source = source
    BY <2>2 DEF EvalSet
  <2>4. Translatable(source) /\ source \in Sets
    BY <2>1, <2>3 DEF CreateSetCommit
  <2>5. sets[source].status = "ready" /\ ~sets[source].deleted
    BY <2>4 DEF Translatable, Live
  <2> QED BY <1>4, <2>2, <2>3, <2>4, <2>5
<1>5. CASE sets[s].status # "absent"
  <2>1. sets[s].status = "working" /\ ~sets[s].deleted /\ sets'[s].source = sets[s].source
    BY <1>3, <1>5, SoundMoves DEF Stepped, Joined
  <2>2. PICK x \in Sets : x = sets[s].source
    BY <1>2, <2>1
  <2>3. sets[x].status = "ready" /\ ~sets[x].deleted
    BY <1>2, <2>1, <2>2 DEF TranslationHasSource, Working, Live
  <2>4. sets'[x].status = "ready"
    BY <1>3, <2>3, SoundMoves DEF Stepped
  <2>5. ~sets'[x].deleted
    <3> SUFFICES ASSUME sets'[x].deleted PROVE FALSE
      OBVIOUS
    <3>1. Deleted(sets[x], sets'[x])
      BY <1>2, <1>3, <2>3
         DEF Stepped, RowStep, WorkStep, Alike, Made, Taken, Kept, Lapsed, Ended, Orphaned
    <3>2. DeleteSet(x) \/ DeleteProject
      BY <1>1, <3>1 DEF Moves
    <3>3. ~DeleteSet(x)
      <4>1. s \in GeneratingTranslationOf(x)
        BY <2>1, <2>2 DEF GeneratingTranslationOf, LiveTranslation, Live
      <4> QED BY <4>1 DEF DeleteSet, Deletable
    <3>4. ~DeleteProject
      <4> SUFFICES ASSUME DeleteProject PROVE FALSE
        OBVIOUS
      <4>1. sets'[s] = [sets[s] EXCEPT !.deleted = TRUE]
        BY <1>5 DEF DeleteProject
      <4>2. sets[s] \in SetRow
        BY DEF TypeInv, TypeOK
      <4>3. sets'[s].deleted = TRUE
        BY <4>1, <4>2 DEF SetRow
      <4> QED BY <4>3
    <3> QED BY <3>2, <3>3, <3>4
  <2> QED BY <2>1, <2>2, <2>4, <2>5
<1> QED BY <1>4, <1>5

\* A translation that is being generated has a live, ready source: create_set takes the source
\* under its lock, and delete_set looks for translations that still read it.
THEOREM TranslationsAreSafe == Spec => []TranslationHasSource
<1>1. Init => SourceInv
  <2> SUFFICES ASSUME Init PROVE TranslationHasSource
    BY TypeInit, RowInit DEF SourceInv
  <2>1. \A s \in Sets : sets[s].status # "working"
    BY DEF Init, EvalSet
  <2> QED BY <2>1, RowOf DEF TranslationHasSource, Working
<1>2. SourceInv => TranslationHasSource
  BY DEF SourceInv
<1> QED BY <1>1, <1>2, SourceNext, PTL DEF Spec

\* The pairs are written by a toggled exclusion, and where a generation ends.
LEMMA PairsStep ==
    ASSUME [Next]_vars, ~\E w \in Workers : FinishGeneration(w),
           ~\E s \in Sets, p \in Positions : SetExcluded(s, p)
    PROVE  pairs' = pairs
<1> USE DEF rows
<1>1. CASE Requests
  BY <1>1 DEF Requests, CreateSetRead, CreateSetCommit, DeleteSet, StartRun, Reindex,
              AbandonReindex, FinishReindex, DeleteProject
<1>2. ASSUME NEW w \in Workers, WorkerStep(w) PROVE pairs' = pairs
  BY <1>2 DEF WorkerStep, Claim, Skip, Fail, Defer, RouteFailure, CommitOffset, Renew,
              BeginGeneration, Generate, BeginRun, StampRun, AnswerAndJudge, CommitBatch,
              EndAnswering, FinishRun
<1>3. ASSUME NEW w \in Workers, WorkerFault(w) PROVE pairs' = pairs
  BY <1>3 DEF WorkerFault, Raises, Crash
<1>4. ASSUME NEW t \in Targets, Delivery(t) \/ PublishLost(t) PROVE pairs' = pairs
  BY <1>4 DEF Delivery, Publish, Expire, Age, Sweep, PublishLost
<1>5. ASSUME NEW m \in retry, RetryDue(m) PROVE pairs' = pairs
  BY <1>5 DEF RetryDue
<1> QED BY <1>1, <1>2, <1>3, <1>4, <1>5 DEF Next, vars

\* Work that ends other than by finishing ends as failed.
LEMMA FailEnds ==
    ASSUME TypeInv, NEW w \in Workers, Fail(w), NEW t \in Targets, t = job[w].target,
           Releasable(w, t)
    PROVE  Row(t)'.status = "failed" /\ (t \in Runs => runs'[t].tally = TallyForRun(t))
<1>1. job[w].job \in JobIds
  BY DEF Fail, TypeInv, Shapes, Shaped
<1>2. Put(t, FailedRow(t, job[w].job))
  BY DEF Fail
<1>3. /\ t \in Sets => FailedRow(t, job[w].job) \in SetRow
      /\ t \in Runs => FailedRow(t, job[w].job) \in RunRow
  BY <1>1, FailedTypes
<1>4. Row(t)' = FailedRow(t, job[w].job)
  BY <1>2, <1>3, PutRow DEF TypeInv, TypeOK
<1>5. ReleasedRow(t, job[w].job, "failed").status = "failed"
  BY RowOf DEF ReleasedRow, TypeInv, TypeOK, Targets, SetRow, RunRow
<1>6. t \in Runs => ReleasedRow(t, job[w].job, "failed") \in RunRow
  BY <1>1, RowTypes DEF Status, TypeInv, TypeOK
<1>7. CASE t \in Sets
  BY <1>1, <1>4, <1>5, <1>7, FailedTypes, RowOf
<1>8. CASE t \in Runs
  <2> DEFINE row == ReleasedRow(t, job[w].job, "failed")
  <2>1. FailedRow(t, job[w].job) = [row EXCEPT !.tally = TallyForRun(t)]
    BY <1>1, <1>8, FailedTypes
  <2>2. row \in RunRow /\ row.status = "failed"
    BY <1>5, <1>6, <1>8
  <2> HIDE DEF row
  <2>3. /\ [row EXCEPT !.tally = TallyForRun(t)].status = "failed"
        /\ [row EXCEPT !.tally = TallyForRun(t)].tally = TallyForRun(t)
    BY <2>2 DEF RunRow
  <2>4. Row(t)' = runs'[t]
    BY <1>8, EvalAssumption DEF Row
  <2> QED BY <1>4, <2>1, <2>3, <2>4
<1> QED BY <1>7, <1>8 DEF Targets

SetInv == TypeInv /\ RowInv /\ SetIsWhole

LEMMA SetNext == SetInv /\ [Next]_vars => SetInv'
<1> SUFFICES ASSUME SetInv, [Next]_vars, NEW s \in Sets
             PROVE  IF sets'[s].status = "ready"
                    THEN sets'[s].pairCount = Cardinality(ListForSet(s)') /\ ListForSet(s)' # {}
                    ELSE ListForSet(s)' = {}
  BY TypeNext, RowNext DEF SetInv, SetIsWhole, TypeInv
<1> USE DEF SetInv
<1>1. IF sets[s].status = "ready"
      THEN sets[s].pairCount = Cardinality(ListForSet(s)) /\ ListForSet(s) # {}
      ELSE ListForSet(s) = {}
  BY DEF SetIsWhole
<1>2. Row(s) = sets[s] /\ Row(s)' = sets'[s] /\ s \in Targets
  BY DEF Row, Targets
<1>3. /\ sets[s] \in SetRow /\ sets \in [Sets -> SetRow]
      /\ pairs \in [Sets -> [Positions -> EvalPair]] /\ job \in [Workers -> Job]
  BY DEF TypeInv, TypeOK
<1>4. ASSUME UNCHANGED <<sets[s], pairs[s]>>
      PROVE  IF sets'[s].status = "ready"
             THEN sets'[s].pairCount = Cardinality(ListForSet(s)') /\ ListForSet(s)' # {}
             ELSE ListForSet(s)' = {}
  <2>1. ListForSet(s)' = ListForSet(s)
    BY <1>4 DEF ListForSet
  <2> QED BY <1>1, <1>4, <2>1
<1>5. ASSUME NEW w \in Workers, FinishGeneration(w)
      PROVE  IF sets'[s].status = "ready"
             THEN sets'[s].pairCount = Cardinality(ListForSet(s)') /\ ListForSet(s)' # {}
             ELSE ListForSet(s)' = {}
  <2> DEFINE t == job[w].target
             made == job[w].made
             live == {p \in Positions : made[p].state = "live"}
             ready == ReleasedRow(t, job[w].job, "ready")
  <2>1. t \in Sets
    BY <1>5 DEF FinishGeneration, InJob
  <2>2. CASE s # t \/ ~Releasable(w, t)
    BY <1>3, <1>4, <1>5, <2>1, <2>2 DEF FinishGeneration
  <2>3. CASE s = t /\ Releasable(w, t)
    <3>1. sets[s].status = "working"
      BY <1>2, <2>3, EvalAssumption DEF Releasable, RowInv, RowSound
    <3>2. CASE \E p \in Positions : made[p].state = "live" /\ made[p].faithful
      <4>1. /\ sets' = [sets EXCEPT ![t] = [ready EXCEPT !.pairCount = Cardinality(live)]]
            /\ pairs' = [pairs EXCEPT ![t] = made]
        BY <1>5, <2>3, <3>2 DEF FinishGeneration
      <4>2. sets'[s] = [ready EXCEPT !.pairCount = Cardinality(live)] /\ pairs'[s] = made
        BY <1>3, <2>3, <4>1
      <4>3. ready.status = "ready" /\ ready \in SetRow
        <5>1. job[w].job \in JobIds
          BY <1>5 DEF FinishGeneration, InJob, TypeInv, Shapes, Shaped
        <5>2. ready \in SetRow
          BY <1>2, <2>3, <5>1, RowTypes DEF Status, TypeInv, TypeOK
        <5>3. ready.status = "ready"
          BY <1>2, <1>3, <2>3 DEF ReleasedRow, SetRow
        <5> QED BY <5>2, <5>3
      <4>4. ListForSet(s)' = live
        BY <4>2 DEF ListForSet
      <4> HIDE DEF ready
      <4>5. sets'[s].status = "ready" /\ sets'[s].pairCount = Cardinality(live)
        BY <4>2, <4>3 DEF SetRow
      <4>6. live # {}
        BY <3>2
      <4> QED BY <4>4, <4>5, <4>6
    <3>3. CASE ~\E p \in Positions : made[p].state = "live" /\ made[p].faithful
      <4>1. sets'[s] = ReleasedRow(t, job[w].job, "failed") /\ pairs' = pairs
        BY <1>3, <1>5, <2>3, <3>3 DEF FinishGeneration
      <4>2. sets'[s].status = "failed"
        BY <1>2, <1>3, <2>3, <4>1 DEF ReleasedRow, SetRow
      <4>3. ListForSet(s)' = ListForSet(s)
        BY <4>1 DEF ListForSet
      <4> QED BY <1>1, <3>1, <4>2, <4>3
    <3> QED BY <3>2, <3>3
  <2> QED BY <2>2, <2>3
<1>6. ASSUME NEW x \in Sets, NEW q \in Positions, SetExcluded(x, q)
      PROVE  IF sets'[s].status = "ready"
             THEN sets'[s].pairCount = Cardinality(ListForSet(s)') /\ ListForSet(s)' # {}
             ELSE ListForSet(s)' = {}
  <2>1. sets' = sets
    BY <1>6 DEF SetExcluded
  <2>2. ASSUME NEW p \in Positions PROVE pairs'[s][p].state = pairs[s][p].state
    <3>1. pairs' = [pairs EXCEPT ![x] = [pairs[x] EXCEPT ![q] =
                     [pairs[x][q] EXCEPT !.excluded = ~pairs[x][q].excluded]]]
      BY <1>6 DEF SetExcluded
    <3>2. [pairs[x][q] EXCEPT !.excluded = ~pairs[x][q].excluded].state = pairs[x][q].state
      BY <1>3 DEF EvalPair
    <3> QED BY <1>3, <3>1, <3>2
  <2>3. ListForSet(s)' = ListForSet(s)
    BY <2>2 DEF ListForSet
  <2> QED BY <1>1, <2>1, <2>3
<1>7. CASE /\ ~\E w \in Workers : FinishGeneration(w)
           /\ ~\E x \in Sets, p \in Positions : SetExcluded(x, p)
  <2>1. ListForSet(s)' = ListForSet(s)
    BY <1>7, PairsStep DEF ListForSet
  <2>2. /\ RowSound(sets[s]) /\ Stepped(s, sets[s], sets'[s])
        /\ Ended(sets[s], sets'[s]) => EndedBy(s)
    BY <1>2, StepMoves DEF Moves, RowInv
  <2>3. CASE sets[s].status = "ready"
    <3>1. sets'[s].status = "ready" /\ sets'[s].pairCount = sets[s].pairCount
      BY <2>2, <2>3, SoundMoves DEF Stepped, Joined
    <3> QED BY <1>1, <2>1, <2>3, <3>1
  <2>4. CASE sets[s].status # "ready"
    <3>1. CASE Ended(sets[s], sets'[s])
      <4>1. PICK w \in Workers : job[w].target = s /\ (Fail(w) \/ FinishRun(w))
        BY <1>7, <2>2, <3>1 DEF EndedBy
      <4>2. ~FinishRun(w)
        BY <4>1, EvalAssumption DEF FinishRun, InJob
      <4>3. CASE Releasable(w, s)
        BY <1>1, <1>2, <2>1, <2>4, <4>1, <4>2, <4>3, FailEnds
      <4>4. CASE ~Releasable(w, s)
        BY <1>1, <2>1, <2>4, <4>1, <4>2, <4>4 DEF Fail
      <4> QED BY <4>3, <4>4
    <3>2. CASE ~Ended(sets[s], sets'[s])
      <4>1. sets'[s].status # "ready"
        BY <2>2, <2>4, <3>2
           DEF Stepped, RowStep, WorkStep, Alike, Made, Deleted, Taken, Kept, Lapsed, Orphaned
      <4> QED BY <1>1, <2>1, <2>4, <4>1
    <3> QED BY <3>1, <3>2
  <2> QED BY <2>3, <2>4
<1> QED BY <1>5, <1>6, <1>7

\* A ready set has exactly the pairs it counts, and some; any other set has none: the pairs
\* and the release of the row are one commit, of the worker the row names.
THEOREM SetsAreWhole == Spec => []SetIsWhole
<1>1. Init => SetInv
  <2> SUFFICES ASSUME Init PROVE SetIsWhole
    BY TypeInit, RowInit DEF SetInv
  <2>1. PICK start \in Starts :
         /\ sets = [s \in Sets |-> IF s \in start.ready
                      THEN [EvalSet(None) EXCEPT !.status = "ready",
                                                 !.pairCount = Cardinality(Positions)]
                      ELSE [EvalSet(None) EXCEPT !.status = "absent", !.pairCount = 0]]
         /\ pairs = [s \in Sets |-> [p \in Positions |-> IF s \in start.ready
                      THEN [NoPair EXCEPT !.state = "live"] ELSE NoPair]]
    BY DEF Init
  <2>2. ASSUME NEW s \in Sets
        PROVE  IF sets[s].status = "ready"
               THEN sets[s].pairCount = Cardinality(ListForSet(s)) /\ ListForSet(s) # {}
               ELSE ListForSet(s) = {}
    <3>1. CASE s \in start.ready
      <4>1. sets[s].status = "ready" /\ sets[s].pairCount = Cardinality(Positions)
        BY <2>1, <3>1 DEF EvalSet
      <4>2. ListForSet(s) = Positions
        BY <2>1, <3>1 DEF ListForSet, NoPair
      <4> QED BY <4>1, <4>2, EvalAssumption
    <3>2. CASE s \notin start.ready
      <4>1. sets[s].status = "absent"
        BY <2>1, <3>2 DEF EvalSet
      <4>2. ListForSet(s) = {}
        BY <2>1, <3>2 DEF ListForSet, NoPair
      <4> QED BY <4>1, <4>2
    <3> QED BY <3>1, <3>2
  <2> QED BY <2>2, TypeInit DEF SetIsWhole, TypeInv
<1>2. SetInv => SetIsWhole
  BY DEF SetInv
<1> QED BY <1>1, <1>2, SetNext, PTL DEF Spec

-----------------------------------------------------------------------------
(* What a run's results and its summary say of each other *)

\* Results are written by the worker the run's row names, and then they only grow.
LEMMA ResultsStep ==
    ASSUME TypeInv, [Next]_vars, NEW r \in Runs
    PROVE  \/ results'[r] = results[r]
           \/ \E w \in Workers :
                /\ job[w].target = r /\ runs[r].owner = w /\ ~runs[r].deleted
                /\ job[w].pc \in {"working", "over"}
                /\ results'[r] = Saved(w) /\ ~Collides(w)
                /\ CommitBatch(w) \/ FinishRun(w)
<1> USE DEF rows
<1>0. results \in [Runs -> [Positions -> EvalResult]]
  BY DEF TypeInv, TypeOK
<1>1. CASE Requests
  BY <1>1 DEF Requests, CreateSetRead, CreateSetCommit, DeleteSet, SetExcluded, StartRun,
              Reindex, AbandonReindex, FinishReindex, DeleteProject
<1>2. ASSUME NEW w \in Workers, WorkerStep(w), ~CommitBatch(w), ~FinishRun(w)
      PROVE  results' = results
  BY <1>2 DEF WorkerStep, Claim, Skip, Fail, Defer, RouteFailure, CommitOffset, Renew,
              BeginGeneration, Generate, FinishGeneration, BeginRun, StampRun,
              AnswerAndJudge, EndAnswering
<1>3. ASSUME NEW w \in Workers, WorkerFault(w) PROVE results' = results
  BY <1>3 DEF WorkerFault, Raises, Crash
<1>4. ASSUME NEW t \in Targets, Delivery(t) \/ PublishLost(t) PROVE results' = results
  BY <1>4 DEF Delivery, Publish, Expire, Age, Sweep, PublishLost
<1>5. ASSUME NEW m \in retry, RetryDue(m) PROVE results' = results
  BY <1>5 DEF RetryDue
<1>6. ASSUME NEW w \in Workers, CommitBatch(w), results'[r] # results[r]
      PROVE  /\ job[w].target = r /\ runs[r].owner = w /\ ~runs[r].deleted
             /\ job[w].pc \in {"working", "over"}
             /\ results'[r] = Saved(w) /\ ~Collides(w)
  BY <1>0, <1>6 DEF CommitBatch, InJob, HoldForCommit
<1>7. ASSUME NEW w \in Workers, FinishRun(w), results'[r] # results[r]
      PROVE  /\ job[w].target = r /\ runs[r].owner = w /\ ~runs[r].deleted
             /\ job[w].pc \in {"working", "over"}
             /\ results'[r] = Saved(w) /\ ~Collides(w)
  <2>1. job[w].target \in Runs /\ job[w].pc = "over"
    BY <1>7 DEF FinishRun, InJob
  <2>2. /\ ~Collides(w) /\ Releasable(w, job[w].target)
        /\ results' = [results EXCEPT ![job[w].target] = Saved(w)]
    BY <1>7 DEF FinishRun
  <2> QED BY <1>0, <1>7, <2>1, <2>2, RowOf DEF Releasable
<1> QED BY <1>1, <1>2, <1>3, <1>4, <1>5, <1>6, <1>7 DEF Next, vars

\* What a finishing run leaves: nothing new, or everything it saved and the count of it.
LEMMA FinishEnds ==
    ASSUME TypeInv, NEW w \in Workers, FinishRun(w), NEW r \in Runs, r = job[w].target
    PROVE  \/ UNCHANGED <<runs, results>>
           \/ /\ Releasable(w, r) /\ results'[r] = Saved(w)
              /\ runs'[r].status = "ready" /\ runs'[r].tally = TallyForRun(r)'
<1> DEFINE rows_ == {p \in Positions : Saved(w)[p] # None}
           count(v) == Cardinality({p \in rows_ : Saved(w)[p].verdict = v})
           tally == [answered |-> Cardinality(rows_), correct |-> count("correct"),
                     errors |-> count("error")]
           ready == ReleasedRow(job[w].target, job[w].job, "ready")
<1>1. CASE Collides(w) \/ ~Releasable(w, r)
  BY <1>1 DEF FinishRun
<1>2. CASE ~(Collides(w) \/ ~Releasable(w, r))
  <2>1. /\ runs' = [runs EXCEPT ![r] = [ready EXCEPT !.tally = tally]]
        /\ results' = [results EXCEPT ![r] = Saved(w)]
    BY <1>2 DEF FinishRun
  <2>2. runs'[r] = [ready EXCEPT !.tally = tally] /\ results'[r] = Saved(w)
    BY <2>1 DEF TypeInv, TypeOK
  <2>3. ready \in RunRow /\ ready.status = "ready"
    <3>1. job[w].job \in JobIds
      BY DEF FinishRun, InJob, TypeInv, Shapes, Shaped
    <3>2. ready \in RunRow
      BY <3>1, RowOf, RowTypes DEF Status, TypeInv, TypeOK
    <3>3. ready.status = "ready"
      BY RowOf DEF ReleasedRow, TypeInv, TypeOK, RunRow
    <3> QED BY <3>2, <3>3
  <2>4. tally = TallyForRun(r)'
    <3>1. \A v : {p \in rows_ : Saved(w)[p].verdict = v} =
                 {p \in Positions : results'[r][p] # None /\ results'[r][p].verdict = v}
      BY <2>2
    <3>2. rows_ = {p \in Positions : results'[r][p] # None}
      BY <2>2
    <3> QED BY <3>1, <3>2 DEF TallyForRun
  <2> HIDE DEF ready, tally
  <2>5. runs'[r].status = "ready" /\ runs'[r].tally = tally
    BY <2>2, <2>3 DEF RunRow
  <2> QED BY <1>2, <2>2, <2>4, <2>5
<1> QED BY <1>1, <1>2

\* A finished or failed run counts exactly its results, also when it is deleted.
SummaryInv ==
    \A r \in Runs : runs[r].status \in {"ready", "failed"} => runs[r].tally = TallyForRun(r)

LEMMA SummaryNext == TypeInv /\ RowInv /\ SummaryInv /\ [Next]_vars => SummaryInv'
<1> SUFFICES ASSUME TypeInv, RowInv, SummaryInv, [Next]_vars, NEW r \in Runs,
                    runs'[r].status \in {"ready", "failed"}
             PROVE  runs'[r].tally = TallyForRun(r)'
  BY DEF SummaryInv
<1>1. Row(r) = runs[r] /\ Row(r)' = runs'[r] /\ r \in Targets
  BY EvalAssumption DEF Row, Targets
<1>2. /\ RowSound(runs[r]) /\ Stepped(r, runs[r], runs'[r])
      /\ Ended(runs[r], runs'[r]) => EndedBy(r)
  BY <1>1, StepMoves DEF Moves, RowInv
<1>3. CASE runs[r].status \in {"ready", "failed"}
  <2>1. runs'[r].status = runs[r].status
    BY <1>2, <1>3, SoundMoves DEF Stepped
  <2>2. runs'[r].tally = runs[r].tally
    BY <1>2, <1>3, <2>1 DEF Stepped, Joined
  <2>3. runs[r].owner = None
    BY <1>2, <1>3 DEF RowSound
  <2>4. results'[r] = results[r]
    BY <2>3, ResultsStep, EvalAssumption
  <2>5. TallyForRun(r)' = TallyForRun(r)
    BY <2>4 DEF TallyForRun
  <2> QED BY <1>3, <2>2, <2>5 DEF SummaryInv
<1>4. CASE runs[r].status \notin {"ready", "failed"}
  <2>1. Ended(runs[r], runs'[r])
    BY <1>2, <1>4
       DEF Stepped, RowStep, WorkStep, Alike, Made, Deleted, Taken, Kept, Lapsed, Orphaned
  <2>2. PICK w \in Workers : job[w].target = r /\ (Fail(w) \/ FinishGeneration(w) \/ FinishRun(w))
    BY <1>2, <2>1 DEF EndedBy
  <2>3. ~FinishGeneration(w)
    BY <2>2, EvalAssumption DEF FinishGeneration, InJob
  <2>4. CASE Fail(w)
    <3>1. Releasable(w, r)
      BY <1>4, <2>2, <2>4 DEF Fail
    <3>2. runs'[r].tally = TallyForRun(r)
      BY <2>2, <2>4, <3>1, <1>1, FailEnds
    <3>3. TallyForRun(r)' = TallyForRun(r)
      BY <2>4 DEF Fail, TallyForRun
    <3> QED BY <3>2, <3>3
  <2>5. CASE FinishRun(w)
    BY <1>4, <2>2, <2>5, FinishEnds
  <2> QED BY <2>2, <2>3, <2>4, <2>5
<1> QED BY <1>3, <1>4

\* A set that is ready keeps its pairs, and its exclusions but for a toggled one.
LEMMA IncludedStep ==
    ASSUME TypeInv, RowInv, [Next]_vars, NEW s \in Sets, sets[s].status = "ready"
    PROVE  Included(s)' = Included(s) \/ \E p \in Positions : SetExcluded(s, p)
<1> SUFFICES ASSUME ~\E p \in Positions : SetExcluded(s, p) PROVE pairs'[s] = pairs[s]
  BY DEF Included, ListForSet
<1>0. pairs \in [Sets -> [Positions -> EvalPair]]
  BY DEF TypeInv, TypeOK
<1>1. ASSUME NEW x \in Sets, NEW p \in Positions, SetExcluded(x, p) PROVE pairs'[s] = pairs[s]
  BY <1>0, <1>1 DEF SetExcluded
<1>2. ASSUME NEW w \in Workers, FinishGeneration(w) PROVE pairs'[s] = pairs[s]
  <2>1. CASE job[w].target = s /\ Releasable(w, s)
    BY <2>1, RowOf, EvalAssumption DEF Releasable, RowInv, RowSound
  <2>2. CASE ~(job[w].target = s /\ Releasable(w, s))
    BY <1>0, <1>2, <2>2 DEF FinishGeneration
  <2> QED BY <2>1, <2>2
<1> QED BY <1>1, <1>2, PairsStep

Running(j) == j.pc \in {"working", "over"} /\ j.target \in Runs

\* How a job comes to be answering, or goes on.
Continued(w) ==
    /\ job[w].pc \in {"working", "over"}
    /\ job'[w].todo = job[w].todo /\ job'[w].unsaved = job[w].unsaved

Started(w) ==
    /\ StampRun(w)
    /\ job'[w].todo = IF runs[job[w].target].deleted THEN {}
                      ELSE Included(runs[job[w].target].set) \ PairIdsForRun(job[w].target)

AnsweredSome(w) ==
    /\ AnswerAndJudge(w)
    /\ \A p \in Positions :
         /\ p \in job[w].todo => p \in job'[w].todo \/ job'[w].unsaved[p] # None
         /\ job[w].unsaved[p] # None => job'[w].unsaved[p] # None

Committed(w) ==
    /\ CommitBatch(w)
    /\ job'[w].todo = job[w].todo
    /\ results' = [results EXCEPT ![job[w].target] = Saved(w)]

LEMMA RunningStep ==
    ASSUME TypeInv, [Next]_vars, NEW w \in Workers, Running(job'[w])
    PROVE  /\ job'[w].target = job[w].target /\ job'[w].stamp = job[w].stamp
           /\ job[w].pc # "idle"
           /\ Continued(w) \/ Started(w) \/ AnsweredSome(w) \/ Committed(w)
<1> DEFINE Goal == /\ job'[w].target = job[w].target /\ job'[w].stamp = job[w].stamp
                   /\ job[w].pc # "idle"
                   /\ Continued(w) \/ Started(w) \/ AnsweredSome(w) \/ Committed(w)
<1> SUFFICES Goal
  OBVIOUS
<1> USE DEF rows, Running
<1>T. job \in [Workers -> Job]
  BY DEF TypeInv, TypeOK
<1>0. ASSUME job'[w] = job[w] PROVE Goal
  BY <1>0 DEF Continued
<1>N. ASSUME NEW r, job' = [job EXCEPT ![w] = r], r.pc \notin {"working", "over"} PROVE Goal
  BY <1>N, <1>T
<1>R. /\ Idle.pc = "idle" /\ Returned(w).pc = "done"
      /\ [Returned(w) EXCEPT !.pc = "produce"].pc = "produce"
      /\ \A e : Raised(w, e).pc = "handle"
  BY DEF Returned, Raised, Idle
<1>1. ASSUME NEW x \in Workers \ {w}, WorkerStep(x) \/ WorkerFault(x) PROVE Goal
  BY <1>0, <1>1, JobTarget
<1>2. ASSUME NEW m \in topic, Claim(w, m) PROVE Goal
  <2>1. [Idle EXCEPT !.pc = "claimed", !.target = m.target, !.job = m.job,
                     !.attempt = m.attempt].pc = "claimed"
    BY DEF Idle
  <2> QED BY <1>2, <1>N, <2>1 DEF Claim
<1>3. CASE \/ Fail(w) \/ Defer(w) \/ RouteFailure(w) \/ CommitOffset(w) \/ Crash(w)
           \/ FinishGeneration(w) \/ FinishRun(w)
           \/ \E error \in {"terminal", "retryable", "unexpected"} : Raises(w, error)
  BY <1>N, <1>R, <1>3
     DEF Fail, Defer, RouteFailure, CommitOffset, Crash, FinishGeneration, FinishRun, Raises
<1>4. CASE Renew(w)
  <2> DEFINE r == [job[w] EXCEPT !.beating = FALSE]
  <2>1. /\ r.target = job[w].target /\ r.pc = job[w].pc /\ r.todo = job[w].todo
        /\ r.unsaved = job[w].unsaved /\ r.stamp = job[w].stamp
    BY <1>T DEF Job
  <2> HIDE DEF r
  <2>2. job' = job \/ job' = [job EXCEPT ![w] = r]
    BY <1>4 DEF Renew, r
  <2> QED BY <1>0, <1>T, <2>1, <2>2 DEF Continued
<1>5. CASE BeginGeneration(w) \/ Generate(w)
  <2>1. job[w].target \in Sets
    BY <1>5 DEF BeginGeneration, Generate, InJob
  <2>2. job'[w].pc = "idle" \/ job'[w].target = job[w].target \/ \E m \in topic : Claim(w, m)
    BY <1>5, JobTarget DEF WorkerStep
  <2> QED BY <1>2, <2>1, <2>2, EvalAssumption
<1>6. CASE BeginRun(w)
  <2>1. [job[w] EXCEPT !.pc = "begun", !.stamp = StampOf(w),
                       !.fresh = runs[job[w].target].stamp = None].pc = "begun"
    BY <1>T DEF Job
  <2> QED BY <1>N, <1>R, <1>6, <2>1 DEF BeginRun
<1>7. CASE StampRun(w)
  <2>1. PICK todo :
          /\ todo = IF runs[job[w].target].deleted THEN {}
                    ELSE Included(runs[job[w].target].set) \ PairIdsForRun(job[w].target)
          /\ job' = [job EXCEPT ![w].pc = "working", ![w].beating = TRUE, ![w].todo = todo]
    BY <1>7 DEF StampRun
  <2>2. /\ job'[w].todo = todo /\ job'[w].target = job[w].target
        /\ job'[w].stamp = job[w].stamp
    BY <1>T, <2>1 DEF Job
  <2> QED BY <1>7, <2>1, <2>2 DEF Started, StampRun, InJob
<1>8. CASE AnswerAndJudge(w)
  <2>1. PICK chunk \in SUBSET job[w].todo, wrong \in SUBSET job[w].todo :
          job' = [job EXCEPT
            ![w].todo = @ \ chunk,
            ![w].unsaved = [p \in Positions |->
               IF p \notin chunk THEN @[p]
               ELSE [verdict |-> IF p \in wrong THEN "error" ELSE "correct",
                     stamp |-> job[w].stamp]]]
    BY <1>8 DEF AnswerAndJudge
  <2>2. PICK unsaved : unsaved = [p \in Positions |->
               IF p \notin chunk THEN job[w].unsaved[p]
               ELSE [verdict |-> IF p \in wrong THEN "error" ELSE "correct",
                     stamp |-> job[w].stamp]]
    OBVIOUS
  <2>3. job[w].stamp \in Stamp
    BY <1>8 DEF AnswerAndJudge, InJob, TypeInv, Shapes, Shaped
  <2>4. \A v \in EvalVerdict : [verdict |-> v, stamp |-> job[w].stamp] # None
    BY <2>3, NullAssumption
  <2>5. \A p \in Positions : IF p \in chunk THEN unsaved[p] # None
                             ELSE unsaved[p] = job[w].unsaved[p]
    BY <2>2, <2>4 DEF EvalVerdict
  <2>6. job' = [job EXCEPT ![w].todo = job[w].todo \ chunk, ![w].unsaved = unsaved]
    BY <2>1, <2>2
  <2>7. /\ job'[w].todo = job[w].todo \ chunk /\ job'[w].target = job[w].target
        /\ job'[w].stamp = job[w].stamp /\ job'[w].unsaved = unsaved
    BY <1>T, <2>6 DEF Job
  <2> QED BY <1>8, <2>5, <2>7 DEF AnsweredSome, AnswerAndJudge, InJob
<1>9. CASE CommitBatch(w)
  <2>1. CASE job[w].beating /\ ~Collides(w) /\ HoldForCommit(w)
    <3>1. /\ results' = [results EXCEPT ![job[w].target] = Saved(w)]
          /\ job' = [job EXCEPT ![w].unsaved = Idle.unsaved]
      BY <1>9, <2>1 DEF CommitBatch
    <3>2. /\ job'[w].todo = job[w].todo /\ job'[w].target = job[w].target
          /\ job'[w].stamp = job[w].stamp
      BY <1>T, <3>1 DEF Job
    <3> QED BY <1>9, <3>1, <3>2 DEF Committed, CommitBatch, InJob
  <2>2. CASE ~(job[w].beating /\ ~Collides(w) /\ HoldForCommit(w))
    <3>1. \E e : job' = [job EXCEPT ![w] = Raised(w, e)]
      BY <1>9, <2>2 DEF CommitBatch
    <3> QED BY <1>N, <1>R, <3>1
  <2> QED BY <2>1, <2>2
<1>10. CASE EndAnswering(w)
  <2> DEFINE r == [job[w] EXCEPT !.pc = "over", !.beating = FALSE]
  <2>1. /\ r.target = job[w].target /\ r.todo = job[w].todo
        /\ r.unsaved = job[w].unsaved /\ r.stamp = job[w].stamp
    BY <1>T DEF Job
  <2>2. job' = [job EXCEPT ![w] = r] \/ job' = [job EXCEPT ![w] = Raised(w, "retryable")]
    BY <1>10 DEF EndAnswering
  <2> HIDE DEF r
  <2>3. job[w].pc = "working"
    BY <1>10 DEF EndAnswering, InJob
  <2> QED BY <1>N, <1>R, <1>T, <2>1, <2>2, <2>3 DEF Continued
<1>11. ASSUME UNCHANGED job PROVE Goal
  BY <1>0, <1>11
<1>12. CASE Requests \/ (\E m \in topic : Skip(w, m))
  BY <1>11, <1>12
     DEF Skip, Requests, CreateSetRead, CreateSetCommit, DeleteSet, SetExcluded, StartRun,
         Reindex, AbandonReindex, FinishReindex, DeleteProject
<1>13. CASE \/ \E t \in Targets : Delivery(t) \/ PublishLost(t)
            \/ \E m \in retry : RetryDue(m)
  BY <1>11, <1>13 DEF Delivery, Publish, Expire, Age, Sweep, PublishLost, RetryDue
<1> HIDE DEF Goal
<1>14. ASSUME WorkerStep(w) \/ WorkerFault(w) PROVE Goal
  BY <1>2, <1>3, <1>4, <1>5, <1>6, <1>7, <1>8, <1>9, <1>10, <1>12, <1>14
     DEF WorkerStep, WorkerFault
<1> QED BY <1>1, <1>11, <1>12, <1>13, <1>14 DEF Next, vars

\* Until its worker is overtaken, every pair a run was to answer is still to do, waiting to be
\* saved, or saved.
DoneInv ==
    \A w \in Workers :
      Running(job[w]) /\ HoldForCommit(w) /\ runs[job[w].target].steady =>
        \A p \in Included(runs[job[w].target].set) :
          p \in job[w].todo \/ job[w].unsaved[p] # None \/ results[job[w].target][p] # None

\* What a step changes of a run that keeps its row: an owner comes by its own claim, the run
\* keeps its set, and the pairs it counts on unless it is marked unsteady.
LEMMA RunStep ==
    ASSUME TypeInv, RowInv, [Next]_vars, NEW r \in Runs, runs[r].status # "absent"
    PROVE  /\ runs'[r].set = runs[r].set /\ runs[r].set \in Sets
           /\ runs'[r].steady => /\ runs[r].steady
                                 /\ Included(runs[r].set)' = Included(runs[r].set)
           /\ \A w \in Workers : runs'[r].owner = w =>
                runs[r].owner = w \/ \E m \in topic : Claim(w, m)
           /\ runs[r].deleted => runs'[r].deleted
<1>1. Row(r) = runs[r] /\ Row(r)' = runs'[r] /\ r \in Targets
  BY EvalAssumption DEF Row, Targets
<1>2. /\ RowSound(runs[r]) /\ Stepped(r, runs[r], runs'[r])
      /\ NewOwner(runs[r], runs'[r]) => TakenBy(runs'[r].owner, r)
  BY <1>1, StepMoves DEF Moves, RowInv
<1>3. runs'[r].status # "absent" /\ (runs[r].deleted => runs'[r].deleted)
  BY <1>2, SoundMoves DEF Stepped
<1>4. runs'[r].set = runs[r].set /\ (runs'[r].steady => runs[r].steady)
  BY <1>2, <1>3 DEF Stepped, Joined
<1>5. runs[r].set \in Sets /\ sets[runs[r].set].status = "ready"
  BY DEF RowInv
<1>6. ASSUME NEW p \in Positions, SetExcluded(runs[r].set, p) PROVE runs'[r].steady = FALSE
  <2>1. runs'[r] = [runs[r] EXCEPT !.steady = FALSE]
    BY <1>6 DEF SetExcluded
  <2>2. runs[r] \in RunRow
    BY DEF TypeInv, TypeOK
  <2> QED BY <2>1, <2>2 DEF RunRow
<1>7. runs'[r].steady => Included(runs[r].set)' = Included(runs[r].set)
  <2>1. PICK s \in Sets : s = runs[r].set
    BY <1>5
  <2>2. Included(s)' = Included(s) \/ \E p \in Positions : SetExcluded(s, p)
    BY <1>5, <2>1, IncludedStep
  <2> QED BY <1>4, <1>6, <2>1, <2>2 DEF Included, ListForSet
<1>8. \A w \in Workers : runs'[r].owner = w => runs[r].owner = w \/ \E m \in topic : Claim(w, m)
  BY <1>2 DEF NewOwner, TakenBy
<1> QED BY <1>3, <1>4, <1>5, <1>7, <1>8

LEMMA DoneNext == TypeInv /\ RowInv /\ DoneInv /\ [Next]_vars => DoneInv'
<1> SUFFICES ASSUME TypeInv, RowInv, DoneInv, [Next]_vars, NEW w \in Workers,
                    Running(job'[w]), HoldForCommit(w)', runs'[job'[w].target].steady,
                    NEW p \in Included(runs[job[w].target].set)'
             PROVE  \/ p \in job'[w].todo \/ job'[w].unsaved[p] # None
                    \/ results'[job'[w].target][p] # None
  BY DEF DoneInv
<1>1. /\ job'[w].target = job[w].target /\ job[w].pc # "idle"
      /\ Continued(w) \/ Started(w) \/ AnsweredSome(w) \/ Committed(w)
  BY RunningStep
<1>2. PICK r \in Runs : r = job[w].target
  BY <1>1 DEF Running
<1>3. Row(r) = runs[r] /\ r \in Targets /\ runs[r].status # "absent" /\ runs'[r].steady
  BY <1>1, <1>2, RowOf DEF RowInv
<1>4. /\ runs'[r].set = runs[r].set /\ runs[r].set \in Sets /\ runs[r].steady
      /\ Included(runs[r].set)' = Included(runs[r].set)
  BY <1>3, RunStep
<1>5. p \in Included(runs[r].set) /\ p \in Positions
  BY <1>1, <1>2, <1>4 DEF Included, ListForSet
<1>6. runs'[r].owner = w /\ ~runs'[r].deleted
  BY <1>1, <1>2 DEF HoldForCommit
<1>7. runs[r].owner = w /\ ~runs[r].deleted
  <2>1. ASSUME NEW m \in topic, Claim(w, m) PROVE FALSE
    BY <1>1, <2>1 DEF Claim
  <2> QED BY <1>3, <1>6, <2>1, RunStep
<1>8. Running(job[w]) =>
        p \in job[w].todo \/ job[w].unsaved[p] # None \/ results[r][p] # None
  BY <1>2, <1>4, <1>5, <1>7 DEF DoneInv, HoldForCommit
<1>9. \A x \in Workers : job[x].target = r =>
        \A q \in Positions : Saved(x)[q] = IF job[x].unsaved[q] # None THEN job[x].unsaved[q]
                                           ELSE results[r][q]
  BY SavedTypes
<1>10. results[r][p] # None => results'[r][p] # None
  BY <1>5, <1>9, ResultsStep
<1>11. CASE Continued(w)
  BY <1>1, <1>2, <1>8, <1>10, <1>11 DEF Continued, Running
<1>12. CASE Started(w)
  <2>1. results' = results
    BY <1>12 DEF Started, StampRun, rows
  <2> QED BY <1>1, <1>2, <1>5, <1>7, <1>12, <2>1 DEF Started, PairIdsForRun
<1>13. CASE AnsweredSome(w)
  <2>1. Running(job[w])
    BY <1>13 DEF AnsweredSome, AnswerAndJudge, InJob, Running
  <2> QED BY <1>1, <1>2, <1>5, <1>8, <1>10, <1>13, <2>1 DEF AnsweredSome
<1>14. CASE Committed(w)
  <2>1. Running(job[w])
    BY <1>14 DEF Committed, CommitBatch, InJob, Running
  <2>2. results'[r] = Saved(w)
    BY <1>2, <1>14 DEF Committed, TypeInv, TypeOK
  <2> QED BY <1>1, <1>2, <1>5, <1>8, <1>9, <1>14, <2>1, <2>2 DEF Committed
<1> QED BY <1>1, <1>11, <1>12, <1>13, <1>14

RunInv == TypeInv /\ RowInv /\ SummaryInv /\ DoneInv /\ DoneIsComplete

LEMMA RunNext == RunInv /\ [Next]_vars => RunInv'
<1> SUFFICES ASSUME RunInv, [Next]_vars, NEW r \in Runs, runs'[r].status = "ready",
                    runs'[r].steady, NEW p \in Included(runs[r].set)'
             PROVE  results'[r][p] # None
  BY TypeNext, RowNext, SummaryNext, DoneNext DEF RunInv, DoneIsComplete
<1> USE DEF RunInv
<1>1. Row(r) = runs[r] /\ Row(r)' = runs'[r] /\ r \in Targets
  BY EvalAssumption DEF Row, Targets
<1>2. /\ RowSound(runs[r]) /\ Stepped(r, runs[r], runs'[r])
      /\ Ended(runs[r], runs'[r]) => EndedBy(r)
  BY <1>1, StepMoves DEF Moves, RowInv
<1>3. runs[r].status # "absent"
  BY <1>2, EvalAssumption
     DEF Stepped, RowStep, WorkStep, Alike, Made, Deleted, Taken, Kept, Lapsed, Ended, Orphaned,
         RowSound
<1>4. /\ runs'[r].set = runs[r].set /\ runs[r].steady
      /\ Included(runs[r].set)' = Included(runs[r].set)
  BY <1>3, RunStep
<1>5. p \in Included(runs[r].set) /\ p \in Positions
  BY <1>4 DEF Included, ListForSet
<1>6. CASE runs[r].status = "ready"
  <2>1. runs[r].owner = None
    BY <1>2, <1>6 DEF RowSound
  <2>2. results'[r] = results[r]
    BY <2>1, ResultsStep, EvalAssumption
  <2> QED BY <1>4, <1>5, <1>6, <2>2 DEF DoneIsComplete
<1>7. CASE runs[r].status # "ready"
  <2>1. Ended(runs[r], runs'[r])
    BY <1>2, <1>7
       DEF Stepped, RowStep, WorkStep, Alike, Made, Deleted, Taken, Kept, Lapsed, Orphaned
  <2>2. PICK w \in Workers : job[w].target = r /\ (Fail(w) \/ FinishGeneration(w) \/ FinishRun(w))
    BY <1>2, <2>1 DEF EndedBy
  <2>3. ~FinishGeneration(w)
    BY <2>2, EvalAssumption DEF FinishGeneration, InJob
  <2>4. ~Fail(w)
    <3> SUFFICES ASSUME Fail(w) PROVE FALSE
      OBVIOUS
    <3>1. Releasable(w, r)
      BY <1>7, <2>2 DEF Fail
    <3>2. runs'[r].status = "failed"
      BY <1>1, <2>2, <3>1, FailEnds
    <3> QED BY <3>2
  <2>5. FinishRun(w)
    BY <2>2, <2>3, <2>4
  <2>6. Releasable(w, r) /\ results'[r] = Saved(w)
    BY <1>7, <2>2, <2>5, FinishEnds
  <2>7. Running(job[w]) /\ job[w].pc = "over"
    BY <2>5 DEF FinishRun, InJob, Running
  <2>8. job[w].todo = {}
    BY <2>7 DEF TypeInv, Shapes, Shaped, Running
  <2>9. HoldForCommit(w)
    BY <1>1, <2>2, <2>6 DEF HoldForCommit, Releasable
  <2>10. job[w].unsaved[p] # None \/ results[r][p] # None
    BY <1>4, <1>5, <2>2, <2>7, <2>8, <2>9 DEF DoneInv
  <2>11. Saved(w)[p] = IF job[w].unsaved[p] # None THEN job[w].unsaved[p] ELSE results[r][p]
    BY <1>5, <2>2, SavedTypes
  <2> QED BY <2>6, <2>10, <2>11
<1> QED BY <1>6, <1>7

\* A finished run adds up: its summary is the count of its results, and it has one for every
\* pair it was to answer, however often it was resumed.
THEOREM RunsAddUp == Spec => []RunAddsUp
<1>1. Init => RunInv
  <2> SUFFICES ASSUME Init PROVE SummaryInv /\ DoneInv /\ DoneIsComplete
    BY TypeInit, RowInit DEF RunInv
  <2>1. \A r \in Runs : runs[r].status = "absent"
    BY DEF Init, EvalRun
  <2>2. \A w \in Workers : job[w].pc = "idle"
    BY IdleTypes DEF Init
  <2> QED BY <2>1, <2>2 DEF SummaryInv, DoneInv, DoneIsComplete, Running
<1>2. RunInv => RunAddsUp
  <2> SUFFICES ASSUME RunInv, NEW r \in Runs, Live(runs[r]), runs[r].status # "working"
               PROVE  runs[r].tally = TallyForRun(r)
    BY DEF RunInv, RunAddsUp, SummaryMatchesResults
  <2>1. runs[r].status \in {"ready", "failed"}
    BY DEF RunInv, TypeInv, TypeOK, RunRow, Status, Live
  <2> QED BY <2>1 DEF RunInv, SummaryInv
<1> QED BY <1>1, <1>2, RunNext, PTL DEF Spec

-----------------------------------------------------------------------------
(* Provenance *)

\* How a job comes to be claimed or begun, or stays so.
ClaimedNow(w) ==
    /\ job'[w].pc = "claimed"
    /\ \E m \in topic : Claim(w, m) /\ job'[w].target = m.target

BegunNow(w) ==
    /\ BeginRun(w) /\ Comparable(w, job[w].target) /\ job'[w].target = job[w].target
    /\ job'[w].stamp = StampOf(w)
    /\ job'[w].fresh = (runs[job[w].target].stamp = None)

Waits(w) ==
    /\ job'[w].target = job[w].target /\ job'[w].pc = job[w].pc
    /\ job'[w].stamp = job[w].stamp /\ job'[w].fresh = job[w].fresh

LEMMA ClaimingStep ==
    ASSUME TypeInv, [Next]_vars, NEW w \in Workers, job'[w].pc \in {"claimed", "begun"}
    PROVE  ClaimedNow(w) \/ BegunNow(w) \/ Waits(w)
<1> DEFINE Goal == ClaimedNow(w) \/ BegunNow(w) \/ Waits(w)
<1> SUFFICES Goal
  OBVIOUS
<1> USE DEF rows
<1>T. job \in [Workers -> Job]
  BY DEF TypeInv, TypeOK
<1>0. ASSUME job'[w] = job[w] PROVE Goal
  BY <1>0 DEF Waits
<1>N. ASSUME NEW r, job' = [job EXCEPT ![w] = r], r.pc \notin {"claimed", "begun"} PROVE Goal
  BY <1>N, <1>T
<1>R. /\ Idle.pc = "idle" /\ Returned(w).pc = "done"
      /\ [Returned(w) EXCEPT !.pc = "produce"].pc = "produce"
      /\ \A e : Raised(w, e).pc = "handle"
  BY DEF Returned, Raised, Idle
<1>1. ASSUME NEW x \in Workers \ {w}, WorkerStep(x) \/ WorkerFault(x) PROVE Goal
  BY <1>0, <1>1, JobTarget
<1>2. ASSUME NEW m \in topic, Claim(w, m) PROVE Goal
  <2> DEFINE r == [Idle EXCEPT !.pc = "claimed", !.target = m.target, !.job = m.job,
                               !.attempt = m.attempt]
  <2>1. r.pc = "claimed" /\ r.target = m.target
    BY DEF Idle
  <2>2. job' = [job EXCEPT ![w] = r]
    BY <1>2 DEF Claim
  <2> HIDE DEF r
  <2> QED BY <1>2, <1>T, <2>1, <2>2 DEF ClaimedNow
<1>3. CASE \/ Fail(w) \/ Defer(w) \/ RouteFailure(w) \/ CommitOffset(w) \/ Crash(w)
           \/ FinishGeneration(w) \/ FinishRun(w)
           \/ \E error \in {"terminal", "retryable", "unexpected"} : Raises(w, error)
  BY <1>N, <1>R, <1>3
     DEF Fail, Defer, RouteFailure, CommitOffset, Crash, FinishGeneration, FinishRun, Raises
<1>4. CASE Renew(w)
  <2> DEFINE r == [job[w] EXCEPT !.beating = FALSE]
  <2>1. /\ r.target = job[w].target /\ r.pc = job[w].pc /\ r.stamp = job[w].stamp
        /\ r.fresh = job[w].fresh
    BY <1>T DEF Job
  <2> HIDE DEF r
  <2>2. job' = job \/ job' = [job EXCEPT ![w] = r]
    BY <1>4 DEF Renew, r
  <2> QED BY <1>0, <1>T, <2>1, <2>2 DEF Waits
<1>5. CASE BeginGeneration(w) \/ Generate(w) \/ StampRun(w) \/ EndAnswering(w)
  <2>1. \A b, made : [job[w] EXCEPT !.pc = "over", !.beating = b, !.made = made].pc = "over"
    BY <1>T DEF Job
  <2>2. CASE BeginGeneration(w)
    <3>1. [job[w] EXCEPT !.pc = "working", !.beating = TRUE].pc = "working"
      BY <1>T DEF Job
    <3> QED BY <1>N, <1>R, <2>2, <3>1 DEF BeginGeneration
  <2>3. CASE Generate(w)
    <3>1. \/ job' = [job EXCEPT ![w] = Raised(w, "retryable")]
          \/ \E made : job' = [job EXCEPT ![w].pc = "over", ![w].beating = FALSE,
                                          ![w].made = made]
      BY <2>3 DEF Generate
    <3>2. job'[w].pc \in {"over", "handle"}
      BY <1>R, <1>T, <3>1 DEF Job
    <3> QED BY <3>2
  <2>4. CASE StampRun(w)
    <3>1. \E todo : job' = [job EXCEPT ![w].pc = "working", ![w].beating = TRUE,
                                       ![w].todo = todo]
      BY <2>4 DEF StampRun
    <3>2. job'[w].pc = "working"
      BY <1>T, <3>1 DEF Job
    <3> QED BY <3>2
  <2>5. CASE EndAnswering(w)
    <3>1. [job[w] EXCEPT !.pc = "over", !.beating = FALSE].pc = "over"
      BY <1>T DEF Job
    <3> QED BY <1>N, <1>R, <2>5, <3>1 DEF EndAnswering
  <2> QED BY <1>5, <2>2, <2>3, <2>4, <2>5
<1>6. CASE BeginRun(w)
  <2> DEFINE fresh == runs[job[w].target].stamp = None
             r == Begun(job[w], StampOf(w), fresh)
  <2>1. \/ job' = [job EXCEPT ![w] = Raised(w, "terminal")]
        \/ job' = [job EXCEPT ![w] = r] /\ Comparable(w, job[w].target)
    BY <1>6 DEF BeginRun, Begun
  <2>2. r.target = job[w].target /\ r.stamp = StampOf(w) /\ r.fresh = fresh
    BY <1>T DEF Job, Begun
  <2> HIDE DEF r
  <2> QED BY <1>6, <1>N, <1>R, <1>T, <2>1, <2>2 DEF BegunNow
<1>8. CASE AnswerAndJudge(w) \/ CommitBatch(w)
  <2>1. job[w].pc = "working"
    BY <1>8 DEF AnswerAndJudge, CommitBatch, InJob
  <2>2. \/ \E e : job' = [job EXCEPT ![w] = Raised(w, e)]
        \/ job'[w].pc = job[w].pc
    <3>1. CASE AnswerAndJudge(w)
      BY <1>T, <3>1 DEF AnswerAndJudge, Job
    <3>2. CASE CommitBatch(w)
      BY <1>T, <3>2 DEF CommitBatch, Job
    <3> QED BY <1>8, <3>1, <3>2
  <2> QED BY <1>N, <1>R, <2>1, <2>2
<1>11. ASSUME UNCHANGED job PROVE Goal
  BY <1>0, <1>11
<1>12. CASE Requests \/ (\E m \in topic : Skip(w, m))
  BY <1>11, <1>12
     DEF Skip, Requests, CreateSetRead, CreateSetCommit, DeleteSet, SetExcluded, StartRun,
         Reindex, AbandonReindex, FinishReindex, DeleteProject
<1>13. CASE \/ \E t \in Targets : Delivery(t) \/ PublishLost(t)
            \/ \E m \in retry : RetryDue(m)
  BY <1>11, <1>13 DEF Delivery, Publish, Expire, Age, Sweep, PublishLost, RetryDue
<1> HIDE DEF Goal
<1>14. ASSUME WorkerStep(w) \/ WorkerFault(w) PROVE Goal
  BY <1>2, <1>3, <1>4, <1>5, <1>6, <1>8, <1>12, <1>14 DEF WorkerStep, WorkerFault
<1> QED BY <1>1, <1>11, <1>12, <1>13, <1>14 DEF Next, vars

\* A claim is kept until the work is begun: the lease it took cannot lapse before the
\* heartbeat starts.
ClaimInv ==
    \A w \in Workers : job[w].pc \in {"claimed", "begun"} =>
      Row(job[w].target).owner = w /\ Row(job[w].target).lease = "live"

LEMMA ClaimNext ==
    ASSUME ~StallAtStart
    PROVE  TypeInv /\ RowInv /\ ClaimInv /\ [Next]_vars => ClaimInv'
<1> SUFFICES ASSUME TypeInv, RowInv, ClaimInv, [Next]_vars, NEW w \in Workers,
                    job'[w].pc \in {"claimed", "begun"}
             PROVE  (Row(job[w].target).owner = w /\ Row(job[w].target).lease = "live")'
  BY DEF ClaimInv
<1>1. TypeInv' /\ Moves
  BY TypeNext, StepMoves
<1>2. PICK t \in Targets : t = job'[w].target
  BY <1>1 DEF TypeInv, Shapes, Shaped
<1>3. Row(job[w].target)' = Row(t)'
  BY <1>2 DEF Row
<1>4. CASE ClaimedNow(w)
  <2>1. PICK m \in topic : Claim(w, m) /\ m.target = t
    BY <1>2, <1>4 DEF ClaimedNow
  <2>2. m.job \in JobIds
    BY DEF TypeInv, TypeOK, EvalJobMessage
  <2>3. Put(t, ClaimedRow(w, t, m.job))
    BY <2>1 DEF Claim
  <2>4. Row(t)' = ClaimedRow(w, t, m.job)
    BY <2>2, <2>3, PutRow, RowTypes DEF TypeInv, TypeOK
  <2>5. Row(t) \in SetRow \/ Row(t) \in RunRow
    BY RowOf DEF TypeInv, TypeOK, Targets
  <2>6. ClaimedRow(w, t, m.job).owner = w /\ ClaimedRow(w, t, m.job).lease = "live"
    BY <2>5 DEF ClaimedRow, SetRow, RunRow
  <2> QED BY <1>3, <2>4, <2>6
<1>5. CASE BegunNow(w) \/ Waits(w)
  <2>1. job[w].target = t /\ job[w].pc \in {"claimed", "begun"}
    BY <1>2, <1>5 DEF BegunNow, BeginRun, InJob, Waits
  <2>2. Row(t).owner = w /\ Row(t).lease = "live"
    BY <2>1 DEF ClaimInv
  <2>3. ASSUME Expire(t) PROVE FALSE
    <3>1. \E x \in Workers : Row(t).owner = x /\ job[x].pc \in {"working", "over"}
      BY <2>1, <2>2, <2>3 DEF Expire
    <3> QED BY <2>1, <2>2, <3>1
  <2>4. ASSUME Fail(w) \/ Defer(w) \/ Crash(w) \/ FinishGeneration(w) \/ FinishRun(w) PROVE FALSE
    <3>1. job[w].pc \notin {"handle", "over"}
      BY <2>1
    <3>2. Crash(w)
      BY <2>4, <3>1 DEF Fail, Defer, FinishGeneration, FinishRun, InJob
    <3>3. job' = [job EXCEPT ![w] = Idle] /\ job \in [Workers -> Job]
      BY <3>2 DEF Crash, TypeInv, TypeOK
    <3> QED BY <3>3, IdleTypes
  <2>5. ~LostBy(w, t)
    BY <2>3, <2>4 DEF LostBy
  <2>6. ~Loses(Row(t), Row(t)')
    BY <1>1, <2>2, <2>5 DEF Moves
  <2> QED BY <1>3, <2>2, <2>6 DEF Loses
<1> QED BY <1>4, <1>5, ClaimingStep

\* So a run is stamped only by the worker that owns it.
LEMMA StampStep ==
    ASSUME TypeInv, RowInv, ClaimInv, [Next]_vars, NEW r \in Runs, runs[r].status # "absent"
    PROVE  \/ runs'[r].stamp = runs[r].stamp
           \/ \E x \in Workers :
                /\ StampRun(x) /\ job[x].target = r /\ runs[r].owner = x
                /\ job[x].fresh /\ runs'[r].stamp = job[x].stamp
<1>1. Row(r) = runs[r] /\ Row(r)' = runs'[r] /\ r \in Targets
  BY EvalAssumption DEF Row, Targets
<1>2. SameStamp(r, runs[r], runs'[r]) \/ StampedBy(r, runs'[r].stamp)
  BY <1>1, StepMoves DEF Moves
<1>3. ASSUME NEW x \in Workers, StampRun(x), job[x].target = r PROVE runs[r].owner = x
  BY <1>1, <1>3 DEF StampRun, InJob, ClaimInv
<1> QED BY <1>2, <1>3 DEF SameStamp, StampedBy

\* A worker that has begun a run knows whether it is stamped; one that works on it, while it
\* owns it, works under its stamp.
StampInv ==
    \A w \in Workers :
      /\ job[w].pc = "begun" =>
           runs[job[w].target].stamp = IF job[w].fresh THEN None ELSE job[w].stamp
      /\ Running(job[w]) /\ runs[job[w].target].owner = w =>
           job[w].stamp = runs[job[w].target].stamp

LEMMA StampNext ==
    TypeInv /\ RowInv /\ ClaimInv /\ StampInv /\ [Next]_vars => StampInv'
<1> SUFFICES ASSUME TypeInv, RowInv, ClaimInv, StampInv, [Next]_vars, NEW w \in Workers
             PROVE  /\ job'[w].pc = "begun" =>
                         runs'[job'[w].target].stamp = IF job'[w].fresh THEN None ELSE job'[w].stamp
                    /\ Running(job'[w]) /\ runs'[job'[w].target].owner = w =>
                         job'[w].stamp = runs'[job'[w].target].stamp
  BY DEF StampInv
<1>1. ASSUME job'[w].pc = "begun"
      PROVE  runs'[job'[w].target].stamp = IF job'[w].fresh THEN None ELSE job'[w].stamp
  <2>1. BegunNow(w) \/ Waits(w)
    BY <1>1, ClaimingStep DEF ClaimedNow
  <2>2. job'[w].target = job[w].target
    BY <2>1 DEF BegunNow, Waits
  <2>3. CASE BegunNow(w)
    <3>1. runs' = runs /\ runs[job[w].target].stamp \in {None, job'[w].stamp}
      BY <2>3 DEF BegunNow, BeginRun, Comparable, rows
    <3> QED BY <2>2, <2>3, <3>1 DEF BegunNow
  <2>4. CASE Waits(w)
    <3>1. /\ job[w].pc = "begun" /\ job'[w].pc = "begun"
          /\ job'[w].fresh = job[w].fresh /\ job'[w].stamp = job[w].stamp
      BY <1>1, <2>4 DEF Waits
    <3>2. PICK r \in Runs : r = job[w].target
      BY <3>1 DEF TypeInv, Shapes, Shaped
    <3>3. Row(r) = runs[r] /\ runs[r].owner = w /\ runs[r].status # "absent"
      BY <3>1, <3>2, RowOf DEF ClaimInv, RowInv
    <3>4. ~StampRun(w)
      <4>1. ASSUME StampRun(w) PROVE FALSE
        <5>1. \E todo : job' = [job EXCEPT ![w].pc = "working", ![w].beating = TRUE,
                                           ![w].todo = todo]
          BY <4>1 DEF StampRun
        <5>2. job'[w].pc = "working"
          BY <5>1 DEF Job, TypeInv, TypeOK
        <5> QED BY <3>1, <5>2
      <4> QED BY <4>1
    <3>5. runs'[r].stamp = runs[r].stamp
      BY <3>3, <3>4, StampStep
    <3> QED BY <2>2, <3>1, <3>2, <3>5 DEF StampInv
  <2> QED BY <2>1, <2>3, <2>4
<1>2. ASSUME Running(job'[w]), runs'[job'[w].target].owner = w
      PROVE  job'[w].stamp = runs'[job'[w].target].stamp
  <2>1. /\ job'[w].target = job[w].target /\ job'[w].stamp = job[w].stamp /\ job[w].pc # "idle"
        /\ Running(job[w]) \/ StampRun(w)
    BY <1>2, RunningStep
       DEF Continued, Started, AnsweredSome, Committed, AnswerAndJudge, CommitBatch, InJob, Running
  <2>2. PICK r \in Runs : r = job[w].target
    BY <1>2, <2>1 DEF Running
  <2>3. Row(r) = runs[r] /\ runs[r].status # "absent"
    BY <2>1, <2>2, RowOf DEF RowInv
  <2>4. ASSUME NEW m \in topic, Claim(w, m) PROVE FALSE
    BY <2>1, <2>4 DEF Claim
  <2>5. runs[r].owner = w
    BY <1>2, <2>1, <2>2, <2>3, <2>4, RunStep
  <2>6. CASE StampRun(w)
    <3>1. job[w].pc = "begun" /\ runs' = IF job[w].fresh
                                          THEN [runs EXCEPT ![r].stamp = job[w].stamp] ELSE runs
      BY <2>2, <2>6 DEF StampRun, InJob
    <3>2. runs[r].stamp = IF job[w].fresh THEN None ELSE job[w].stamp
      BY <2>2, <3>1 DEF StampInv
    <3>3. runs'[r].stamp = job[w].stamp
      BY <3>1, <3>2 DEF TypeInv, TypeOK, RunRow
    <3> QED BY <2>1, <2>2, <3>3
  <2>7. CASE ~StampRun(w)
    <3>1. runs'[r].stamp = runs[r].stamp
      BY <2>3, <2>5, <2>7, StampStep
    <3> QED BY <2>1, <2>2, <2>5, <2>7, <3>1 DEF StampInv
  <2> QED BY <2>6, <2>7
<1> QED BY <1>1, <1>2

ProvenanceInv == TypeInv /\ RowInv /\ ClaimInv /\ StampInv /\ OneProvenance

LEMMA ProvenanceNext ==
    ASSUME ~StallAtStart
    PROVE  ProvenanceInv /\ [Next]_vars => ProvenanceInv'
<1> SUFFICES ASSUME ProvenanceInv, [Next]_vars PROVE ProvenanceInv'
  OBVIOUS
<1>1. TypeInv /\ RowInv /\ ClaimInv /\ StampInv /\ OneProvenance
  BY DEF ProvenanceInv
<1>2. TypeInv' /\ RowInv' /\ ClaimInv' /\ StampInv'
  BY <1>1, TypeNext, RowNext, ClaimNext, StampNext
<1>3. ASSUME NEW r \in Runs, NEW p \in Positions, results'[r][p] # None
      PROVE  results'[r][p].stamp = runs'[r].stamp
  <2>1. Row(r) = runs[r] /\ runs[r] \in RunRow /\ results[r] \in [Positions -> EvalResult]
    BY <1>1, RowOf DEF TypeInv, TypeOK
  <2>2. results[r][p] # None => /\ results[r][p].stamp \in Stamp
                                /\ results[r][p].stamp = runs[r].stamp
    BY <1>1, <2>1 DEF OneProvenance, EvalResult
  <2>3. results[r][p] # None => runs[r].status # "absent" /\ runs'[r].stamp = runs[r].stamp
    <3> SUFFICES ASSUME results[r][p] # None
                 PROVE  runs[r].status # "absent" /\ runs'[r].stamp = runs[r].stamp
      OBVIOUS
    <3>1. runs[r].stamp # None
      BY <2>2, NullAssumption
    <3>2. runs[r].status # "absent"
      BY <1>1, <3>1 DEF RowInv
    <3>3. ASSUME NEW x \in Workers, StampRun(x), job[x].target = r, job[x].fresh PROVE FALSE
      BY <1>1, <3>1, <3>3 DEF StampInv, StampRun, InJob
    <3> QED BY <1>1, <3>2, <3>3, StampStep
  <2>4. CASE results'[r] = results[r]
    BY <1>3, <2>2, <2>3, <2>4
  <2>5. ASSUME NEW w \in Workers, job[w].target = r, runs[r].owner = w,
               job[w].pc \in {"working", "over"}, results'[r] = Saved(w)
        PROVE  results'[r][p].stamp = runs'[r].stamp
    <3>1. Running(job[w]) /\ job[w].stamp = runs[r].stamp
      BY <1>1, <2>5 DEF StampInv, Running
    <3>2. results'[r][p] = IF job[w].unsaved[p] # None THEN job[w].unsaved[p] ELSE results[r][p]
      BY <2>5 DEF Saved, Unsaved
    <3>3. CASE job[w].unsaved[p] # None
      <4>1. job[w].unsaved[p].stamp = job[w].stamp
        BY <1>1, <3>3 DEF TypeInv, Shapes, Shaped
      <4>2. runs[r].status # "absent"
        BY <1>1, <2>1, <2>5 DEF RowInv
      <4>3. ASSUME NEW x \in Workers, StampRun(x), runs[r].owner = x PROVE FALSE
        BY <2>5, <4>3 DEF StampRun, InJob
      <4>4. runs'[r].stamp = runs[r].stamp
        BY <1>1, <4>2, <4>3, StampStep
      <4> QED BY <3>1, <3>2, <3>3, <4>1, <4>4
    <3>4. CASE job[w].unsaved[p] = None
      BY <1>3, <2>2, <2>3, <3>2, <3>4
    <3> QED BY <3>3, <3>4
  <2> QED BY <1>1, <2>4, <2>5, ResultsStep
<1> QED BY <1>2, <1>3 DEF ProvenanceInv, OneProvenance

\* Every result of a run was answered under the stamp the run carries, whatever the builds of
\* the workers that resumed it (EvalRunner._stamp_provenance), so long as no worker outstays
\* its lease before its heartbeat has started; without that, two could stamp one run.
THEOREM ResultsOfOneProvenance ==
    ASSUME ~StallAtStart
    PROVE  Spec => []OneProvenance
<1>1. Init => ProvenanceInv
  <2> SUFFICES ASSUME Init PROVE ProvenanceInv
    OBVIOUS
  <2>1. TypeInv /\ RowInv
    BY TypeInit, RowInit
  <2>2. \A w \in Workers : job[w].pc = "idle"
    BY IdleTypes DEF Init
  <2>3. ClaimInv /\ StampInv
    BY <2>2 DEF ClaimInv, StampInv, Running
  <2>4. OneProvenance
    BY DEF Init, OneProvenance
  <2> QED BY <2>1, <2>3, <2>4 DEF ProvenanceInv
<1>2. ProvenanceInv => OneProvenance
  BY DEF ProvenanceInv
<1>3. ProvenanceInv /\ [Next]_vars => ProvenanceInv'
  BY ProvenanceNext
<1> QED BY <1>1, <1>2, <1>3, PTL DEF Spec
=============================================================================
