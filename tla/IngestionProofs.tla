--------------------------- MODULE IngestionProofs ---------------------------
(***************************************************************************)
(* What holds of Ingestion for every number of workers, jobs, commits,     *)
(* chunks, attempts, requests and faults.                                  *)
(***************************************************************************)
EXTENDS Ingestion, SequenceTheorems, TLAPS

-----------------------------------------------------------------------------
(* Type correctness *)

\* A run past its clone knows the commit it is indexing.
CommitKnown == \A w \in Workers : run[w].pc = "index" => run[w].commit \in Commits

\* The fetch position is inside the partition.
FetchedInLog == position <= Len(log)

TypeInv == TypeOK /\ CommitKnown /\ FetchedInLog

\* Every row the repository's statements leave behind is a row.
LEMMA RowTypes ==
    ASSUME row \in Project
    PROVE  /\ \A w \in Workers, j \in JobIds : ClaimedRow(w, j) \in Project
           /\ \A w \in Workers : RenewedRow(w) \in Project
           /\ \A s \in ProjectStatus : StatusRow(s) \in Project
           /\ \A j \in JobIds \cup {None}, s \in ProjectStatus : ReleasedRow(j, s) \in Project
           /\ \A w \in Workers : AbandonedRow(w) \in Project
<1>1. \A w \in Workers, j \in JobIds : ClaimedRow(w, j) \in Project
  BY DEF ClaimedRow, Project, ProjectStatus
<1>2. \A w \in Workers : RenewedRow(w) \in Project
  BY DEF RenewedRow, Project
<1>3. \A s \in ProjectStatus : StatusRow(s) \in Project
  BY DEF StatusRow, Project
<1>4. \A j \in JobIds \cup {None}, s \in ProjectStatus : ReleasedRow(j, s) \in Project
  BY DEF ReleasedRow, Project
<1>5. \A w \in Workers : AbandonedRow(w) \in Project
  BY DEF AbandonedRow, Project
<1> QED BY <1>1, <1>2, <1>3, <1>4, <1>5

\* One worker's job is replaced by another well-typed one.
LEMMA RunTypes ==
    ASSUME run \in [Workers -> Job], CommitKnown,
           NEW w \in Workers, NEW r \in Job,
           r.pc = "index" => r.commit \in Commits,
           run' = [run EXCEPT ![w] = r]
    PROVE  run' \in [Workers -> Job] /\ CommitKnown'
  BY DEF CommitKnown

\* A change of stage, with or without the heartbeat stopped, is such a replacement.
LEMMA MoveTypes ==
    ASSUME run \in [Workers -> Job], CommitKnown,
           NEW w \in Workers, NEW stage \in Stage \ {"index"},
           Move(w, stage) \/ Stop(w, stage)
    PROVE  run' \in [Workers -> Job] /\ CommitKnown'
<1> DEFINE moved == [run[w] EXCEPT !.pc = stage]
           stopped == [run[w] EXCEPT !.pc = stage, !.beating = FALSE]
<1>1. moved \in Job /\ moved.pc # "index" /\ stopped \in Job /\ stopped.pc # "index"
  BY DEF Job
<1>2. CASE Move(w, stage)
  <2>1. run' = [run EXCEPT ![w] = moved]
    BY <1>2 DEF Move
  <2> QED BY <1>1, <2>1, RunTypes
<1>3. CASE Stop(w, stage)
  <2>1. run' = [run EXCEPT ![w] = stopped]
    BY <1>3 DEF Stop
  <2> QED BY <1>1, <2>1, RunTypes
<1> QED BY <1>2, <1>3

\* So is what a run copies from the row it was claimed on.
LEMMA LoadedTypes ==
    ASSUME NEW r \in Job, NEW s \in ProjectStatus, NEW g \in Nat
    PROVE  LET loaded == [r EXCEPT !.pc = "clone", !.seen = s, !.gen = g]
           IN  loaded \in Job /\ loaded.pc = "clone"
  BY DEF Job, Stage

\* A run that has cloned its commit, about to index the commit's chunks.
LEMMA ClonedTypes ==
    ASSUME NEW r \in Job, NEW c \in Commits
    PROVE  LET cloned == [r EXCEPT !.pc = "index", !.commit = c, !.todo = ChunksOf[c]]
           IN  cloned \in Job /\ cloned.commit = c
<1>1. ChunksOf[c] \in SUBSET Nat
  BY IngestionAssumption
<1> QED BY <1>1 DEF Job, Stage

\* The initial state is well typed.
LEMMA TypeInit == Init => TypeInv
<1> SUFFICES ASSUME Init PROVE TypeInv
  OBVIOUS
<1>1. row \in Project
  BY DEF Init, Project, ProjectStatus
<1>2. run \in [Workers -> Job] /\ CommitKnown
  BY DEF Init, Job, Idle, Stage, ProjectStatus, CommitKnown
<1>3. /\ log \in Seq(Message) /\ position \in Nat /\ FetchedInLog /\ holder \in Workers
      /\ points \in SUBSET Point /\ retry \in SUBSET Message /\ outbox \in Nat
  BY DEF Init, FetchedInLog
<1>4. del \in Deletion /\ evalRun \in EvalReader /\ budget \in Budget
  BY IngestionAssumption DEF Init, Deletion, EvalReader, Budget
<1> QED BY <1>1, <1>2, <1>3, <1>4 DEF TypeInv, TypeOK

\* Every step keeps the types: one case per action, one step per variable it writes.
LEMMA TypeNext == TypeInv /\ [Next]_vars => TypeInv'
<1> SUFFICES ASSUME TypeInv, [Next]_vars PROVE TypeInv'
  OBVIOUS
<1> USE DEF TypeInv, TypeOK, CommitKnown, FetchedInLog, kafka
<1>1. CASE Create
  <2>1. row' \in Project
    BY <1>1 DEF Create, Project, ProjectStatus, StatusRow
  <2>2. outbox' \in Nat
    BY <1>1 DEF Create
  <2> QED BY <1>1, <2>1, <2>2 DEF Create
<1>2. CASE Reindex
  <2>1. row' \in Project
    BY <1>2 DEF Reindex, Project
  <2>2. outbox' \in Nat
    BY <1>2 DEF Reindex
  <2>3. budget' \in Budget
    BY <1>2 DEF Reindex, Budget
  <2> QED BY <1>2, <2>1, <2>2, <2>3 DEF Reindex
<1>3. CASE Publish
  <2>1. PICK j \in FreshIds : log' = Append(log, [job |-> j, attempt |-> 0])
    BY <1>3 DEF Publish
  <2>2. [job |-> j, attempt |-> 0] \in Message
    BY DEF FreshIds, Message
  <2>3. log' \in Seq(Message) /\ Len(log') = Len(log) + 1
    BY <2>1, <2>2
  <2>4. outbox' \in Nat
    BY <1>3 DEF Publish
  <2> QED BY <1>3, <2>3, <2>4 DEF Publish
<1>4. CASE PublishLost
  <2>1. outbox' \in Nat
    BY <1>4 DEF PublishLost
  <2>2. budget' \in Budget
    BY <1>4 DEF PublishLost, Budget, Fault
  <2> QED BY <1>4, <2>1, <2>2 DEF PublishLost
<1>5. CASE StartEvalRun
  <2>1. evalRun' \in EvalReader
    BY <1>5 DEF StartEvalRun, EvalReader
  <2>2. budget' \in Budget
    BY <1>5 DEF StartEvalRun, Budget
  <2> QED BY <1>5, <2>1, <2>2 DEF StartEvalRun
<1>6. CASE ReadEvalGeneration
  <2>1. evalRun' \in EvalReader
    BY <1>6 DEF ReadEvalGeneration, EvalReader, Project
  <2> QED BY <1>6, <2>1 DEF ReadEvalGeneration
<1>7. CASE FinishEvalRun
  <2>1. evalRun' \in EvalReader
    BY <1>7 DEF FinishEvalRun, EvalReader
  <2> QED BY <1>7, <2>1 DEF FinishEvalRun
<1>8. CASE DeleteRead
  <2>1. del' \in Deletion
    BY <1>8 DEF DeleteRead, Deletion, Project
  <2> QED BY <1>8, <2>1 DEF DeleteRead
<1>9. CASE DeleteFlush
  <2>1. del' \in Deletion
    BY <1>9 DEF DeleteFlush, Deletion
  <2> QED BY <1>9, <2>1 DEF DeleteFlush
<1>10. CASE DeleteWipe
  <2>1. del' \in Deletion
    BY <1>10 DEF DeleteWipe, Deletion
  <2>2. points' \in SUBSET Point
    BY <1>10 DEF DeleteWipe
  <2> QED BY <1>10, <2>1, <2>2 DEF DeleteWipe
<1>11. CASE DeleteCommit
  <2>1. del' \in Deletion
    BY <1>11 DEF DeleteCommit, Deletion
  <2>2. row' \in Project
    BY <1>11 DEF DeleteCommit, Project
  <2>3. evalRun' \in EvalReader
    BY <1>11 DEF DeleteCommit, EvalReader
  <2> QED BY <1>11, <2>1, <2>2, <2>3 DEF DeleteCommit
<1>12. CASE DeleteAbort
  <2>1. del' \in Deletion
    BY <1>12 DEF DeleteAbort, Deletion
  <2>2. budget' \in Budget
    BY <1>12 DEF DeleteAbort, Budget, Fault
  <2> QED BY <1>12, <2>1, <2>2 DEF DeleteAbort
<1>13. CASE LeaseExpires
  <2>1. row' \in Project
    BY <1>13 DEF LeaseExpires, Project
  <2> QED BY <1>13, <2>1 DEF LeaseExpires
<1>14. CASE LeaseOutrun
  <2>1. row' \in Project
    BY <1>14 DEF LeaseOutrun, Project
  <2>2. budget' \in Budget
    BY <1>14 DEF LeaseOutrun, Budget, Fault
  <2> QED BY <1>14, <2>1, <2>2 DEF LeaseOutrun
<1>15. CASE Sweep
  <2>1. outbox' \in Nat
    BY <1>15 DEF Sweep
  <2> QED BY <1>15, <2>1 DEF Sweep
<1>16. ASSUME NEW w \in Workers, WorkerStep(w) PROVE TypeInv'
  <2>1. CASE Claim(w)
    <3>1. log[position + 1] \in Message
      BY <2>1 DEF Claim
    <3>2. row' \in Project
      BY <2>1, <3>1, RowTypes DEF Claim, Message
    <3>3. run' \in [Workers -> Job] /\ CommitKnown'
      BY <2>1, <3>1 DEF Claim, Message, Job, Idle, Stage, ProjectStatus
    <3>4. position' \in Nat /\ FetchedInLog'
      BY <2>1 DEF Claim
    <3> QED BY <2>1, <3>2, <3>3, <3>4 DEF Claim
  <2>2. CASE Skip(w)
    <3>1. log[position + 1] \in Message
      BY <2>2 DEF Skip
    <3>2. run' \in [Workers -> Job] /\ CommitKnown'
      BY <2>2, <3>1 DEF Skip, Message, Job, Idle, Stage, ProjectStatus
    <3>3. position' \in Nat /\ FetchedInLog'
      BY <2>2 DEF Skip
    <3> QED BY <2>2, <3>2, <3>3 DEF Skip
  <2>3. CASE Load(w)
    <3> DEFINE loaded == [run[w] EXCEPT !.pc = "clone", !.seen = row.status, !.gen = row.gen]
    <3>1. loaded \in Job /\ loaded.pc = "clone"
      <4>1. run[w] \in Job /\ row.status \in ProjectStatus /\ row.gen \in Nat
        BY DEF Project
      <4> QED BY <4>1, LoadedTypes
    <3>2. CASE Live
      <4>1. run' = [run EXCEPT ![w] = loaded]
        BY <2>3, <3>2 DEF Load
      <4>2. run' \in [Workers -> Job] /\ CommitKnown'
        BY <4>1, <3>1, RunTypes
      <4> QED BY <2>3, <4>2 DEF Load
    <3>3. CASE ~Live
      <4>1. run' \in [Workers -> Job] /\ CommitKnown'
        BY <2>3, <3>3, MoveTypes DEF Load, Stage
      <4> QED BY <2>3, <4>1 DEF Load
    <3> QED BY <3>2, <3>3
  <2>4. CASE \E c \in Commits : CloneDone(w, c)
    <3>1. PICK c \in Commits : CloneDone(w, c)
      BY <2>4
    <3> DEFINE cloned == [run[w] EXCEPT !.pc = "index", !.commit = c, !.todo = ChunksOf[c]]
    <3>2. row' \in Project
      BY <3>1, RowTypes DEF CloneDone, AdvancedRow, ProjectStatus
    <3>3. cloned \in Job /\ cloned.commit \in Commits
      <4>1. run[w] \in Job
        OBVIOUS
      <4> QED BY <4>1, ClonedTypes
    <3>4. run' = [run EXCEPT ![w] = cloned]
      BY <3>1 DEF CloneDone
    <3>5. run' \in [Workers -> Job] /\ CommitKnown'
      BY <3>3, <3>4, RunTypes
    <3> QED BY <3>1, <3>2, <3>5 DEF CloneDone
  <2>5. CASE Flush(w)
    <3>1. PICK s \in run[w].todo :
            /\ points' = Upserted(Chunk(w, s))
            /\ run' = [run EXCEPT ![w].todo = @ \ {s}]
      BY <2>5 DEF Flush
    <3> DEFINE flushed == [run[w] EXCEPT !.todo = run[w].todo \ {s}]
    <3>2. Chunk(w, s) \in Point
      BY <2>5 DEF Flush, Job, Point, Chunk
    <3>3. points' \in SUBSET Point
      BY <3>1, <3>2 DEF Upserted
    <3>4. flushed \in Job /\ flushed.commit = run[w].commit /\ flushed.pc = run[w].pc
      BY DEF Job
    <3>5. run' = [run EXCEPT ![w] = flushed]
      BY <3>1
    <3>6. run' \in [Workers -> Job] /\ CommitKnown'
      BY <3>4, <3>5, RunTypes
    <3> QED BY <2>5, <3>3, <3>6 DEF Flush
  <2>6. CASE ReleaseReady(w)
    <3>1. ReleasedRow(run[w].job, "ready") \in Project
      BY RowTypes DEF Job, ProjectStatus
    <3>2. run[w].gen + 1 \in Nat /\ run[w].commit \in Commits \cup {None}
      BY DEF Job
    <3>3. [ReleasedRow(run[w].job, "ready") EXCEPT !.gen = run[w].gen + 1, !.collection = TRUE,
                                                 !.commit = run[w].commit] \in Project
      BY <3>1, <3>2 DEF Project
    <3>4. row' \in Project
      BY <2>6, <3>3 DEF ReleaseReady
    <3>5. run' \in [Workers -> Job] /\ CommitKnown'
      BY <2>6, MoveTypes DEF ReleaseReady, Stage
    <3> QED BY <2>6, <3>4, <3>5 DEF ReleaseReady
  <2>7. CASE DropSuperseded(w)
    <3>1. points' \in SUBSET Point
      BY <2>7 DEF DropSuperseded, Generation
    <3>2. run' \in [Workers -> Job] /\ CommitKnown'
      BY <2>7, MoveTypes DEF DropSuperseded, Stage
    <3> QED BY <2>7, <3>1, <3>2 DEF DropSuperseded
  <2>8. CASE Discard(w)
    <3>1. points' \in SUBSET Point
      BY <2>8 DEF Discard, Generation
    <3>2. run' \in [Workers -> Job] /\ CommitKnown'
      BY <2>8, MoveTypes DEF Discard, Stage
    <3> QED BY <2>8, <3>1, <3>2 DEF Discard
  <2>9. CASE RouteRetry(w)
    <3>1. row' \in Project
      BY <2>9, RowTypes DEF RouteRetry
    <3>2. run' \in [Workers -> Job] /\ CommitKnown'
      BY <2>9, MoveTypes DEF RouteRetry, Stage
    <3> QED BY <2>9, <3>1, <3>2 DEF RouteRetry
  <2>10. CASE RouteDead(w)
    <3>1. row' \in Project
      BY <2>10, RowTypes DEF RouteDead, Job, ProjectStatus
    <3>2. run' \in [Workers -> Job] /\ CommitKnown'
      BY <2>10, MoveTypes DEF RouteDead, Stage
    <3> QED BY <2>10, <3>1, <3>2 DEF RouteDead
  <2>11. CASE ProduceRetry(w)
    <3>1. retry' \in SUBSET Message
      BY <2>11 DEF ProduceRetry, FreshIds, Message, Job
    <3>2. run' \in [Workers -> Job] /\ CommitKnown'
      BY <2>11, MoveTypes DEF ProduceRetry, Stage
    <3> QED BY <2>11, <3>1, <3>2 DEF ProduceRetry
  <2>12. CASE CommitOffset(w)
    <3>1. SubSeq(log, position + 1, Len(log)) \in Seq(Message)
      BY SubSeqProperties
    <3>2. \/ log' = log /\ position' = position
          \/ log' = SubSeq(log, position + 1, Len(log)) /\ position' = 0
      BY <2>12 DEF CommitOffset
    <3>3. log' \in Seq(Message)
      BY <3>1, <3>2
    <3>4. position' \in Nat /\ FetchedInLog'
      BY <3>2, <3>3
    <3>5. run' \in [Workers -> Job] /\ CommitKnown'
      BY <2>12 DEF CommitOffset, Job, Stage, Idle, ProjectStatus
    <3> QED BY <2>12, <3>3, <3>4, <3>5 DEF CommitOffset
  <2>13. CASE Absorb(w)
    <3>1. run' \in [Workers -> Job] /\ CommitKnown'
      BY <2>13 DEF Absorb, Job, Stage, Idle, ProjectStatus
    <3> QED BY <2>13, <3>1 DEF Absorb
  <2>14. CASE Heartbeat(w)
    <3> DEFINE beat == [run[w] EXCEPT !.beating = Owns(w)]
    <3>1. row' \in Project
      BY <2>14, RowTypes DEF Heartbeat
    <3>2. beat \in Job /\ beat.pc = run[w].pc /\ beat.commit = run[w].commit
      BY DEF Job, Owns
    <3>3. run' = [run EXCEPT ![w] = beat]
      BY <2>14 DEF Heartbeat
    <3>4. run' \in [Workers -> Job] /\ CommitKnown'
      BY <3>2, <3>3, RunTypes
    <3> QED BY <2>14, <3>1, <3>4 DEF Heartbeat
  <2> QED
    BY <1>16, <2>1, <2>2, <2>3, <2>4, <2>5, <2>6, <2>7, <2>8, <2>9, <2>10, <2>11, <2>12,
       <2>13, <2>14 DEF WorkerStep
<1>17. ASSUME NEW w \in Workers, WorkerFault(w) PROVE TypeInv'
  <2>1. CASE FailTerminal(w)
    <3>1. row' \in Project
      BY <2>1, RowTypes DEF FailTerminal, Job, ProjectStatus
    <3>2. AfterRefusal(run[w].pc) \subseteq {"discard", "done"}
      BY DEF AfterRefusal
    <3>3. PICK stage \in {"discard", "done"} : Stop(w, stage)
      BY <2>1, <3>2 DEF FailTerminal
    <3>4. run' \in [Workers -> Job] /\ CommitKnown'
      BY <3>3, MoveTypes DEF Stage
    <3>5. budget' \in Budget
      BY <2>1 DEF FailTerminal, Budget, Fault
    <3> QED BY <2>1, <3>1, <3>4, <3>5 DEF FailTerminal
  <2>2. CASE FailRetryable(w)
    <3>1. run' \in [Workers -> Job] /\ CommitKnown'
      BY <2>2, MoveTypes DEF FailRetryable, Stage
    <3>2. budget' \in Budget
      BY <2>2 DEF FailRetryable, Budget, Fault
    <3> QED BY <2>2, <3>1, <3>2 DEF FailRetryable
  <2>3. CASE FailUnexpected(w)
    <3> DEFINE routed == [run[w] EXCEPT !.pc = "route", !.unexpected = TRUE, !.beating = FALSE]
    <3>1. row' \in Project
      BY <2>3, RowTypes DEF FailUnexpected
    <3>2. routed \in Job /\ routed.pc = "route"
      BY DEF Job, Stage
    <3>3. run' = [run EXCEPT ![w] = routed]
      BY <2>3 DEF FailUnexpected
    <3>4. run' \in [Workers -> Job] /\ CommitKnown'
      BY <3>2, <3>3, RunTypes
    <3>5. budget' \in Budget
      BY <2>3 DEF FailUnexpected, Budget, Fault
    <3> QED BY <2>3, <3>1, <3>4, <3>5 DEF FailUnexpected
  <2>4. CASE ClaimRaises(w)
    <3>1. position' \in Nat /\ FetchedInLog' /\ holder' \in Workers
      BY <2>4 DEF ClaimRaises
    <3>2. budget' \in Budget
      BY <2>4 DEF ClaimRaises, Budget, Fault
    <3> QED BY <2>4, <3>1, <3>2 DEF ClaimRaises
  <2>5. CASE Raise(w)
    <3>1. run' \in [Workers -> Job] /\ CommitKnown'
      BY <2>5, MoveTypes DEF Raise, Stage
    <3>2. budget' \in Budget
      BY <2>5 DEF Raise, Budget, Fault
    <3> QED BY <2>5, <3>1, <3>2 DEF Raise
  <2>6. CASE Crash(w)
    <3>1. row' \in Project
      BY <2>6 DEF Crash, Project
    <3>2. run' \in [Workers -> Job] /\ CommitKnown'
      BY <2>6 DEF Crash, Job, Stage, Idle, ProjectStatus
    <3>3. position' \in Nat /\ FetchedInLog' /\ holder' \in Workers
      BY <2>6 DEF Crash
    <3>4. budget' \in Budget
      BY <2>6 DEF Crash, Budget, Fault
    <3> QED BY <2>6, <3>1, <3>2, <3>3, <3>4 DEF Crash
  <2>7. CASE HeartbeatFails(w)
    <3> DEFINE silent == [run[w] EXCEPT !.beating = FALSE]
    <3>1. silent \in Job /\ silent.pc = run[w].pc /\ silent.commit = run[w].commit
      BY DEF Job
    <3>2. run' = [run EXCEPT ![w] = silent]
      BY <2>7 DEF HeartbeatFails
    <3>3. run' \in [Workers -> Job] /\ CommitKnown'
      BY <3>1, <3>2, RunTypes
    <3>4. budget' \in Budget
      BY <2>7 DEF HeartbeatFails, Budget, Fault
    <3> QED BY <2>7, <3>3, <3>4 DEF HeartbeatFails
  <2>8. CASE Rebalance(w)
    <3> DEFINE lost(v) == [run[v] EXCEPT !.mine = FALSE]
    <3>1. \A v \in Workers : lost(v) \in Job
      BY DEF Job
    <3>2. run' \in [Workers -> Job]
      BY <2>8, <3>1 DEF Rebalance
    <3>3. CommitKnown'
      BY <2>8 DEF Rebalance, Job
    <3>4. position' \in Nat /\ FetchedInLog' /\ holder' \in Workers
      BY <2>8 DEF Rebalance
    <3>5. budget' \in Budget
      BY <2>8 DEF Rebalance, Budget, Fault
    <3> QED BY <2>8, <3>2, <3>3, <3>4, <3>5 DEF Rebalance
  <2> QED BY <1>17, <2>1, <2>2, <2>3, <2>4, <2>5, <2>6, <2>7, <2>8 DEF WorkerFault
<1>18. ASSUME NEW m \in retry, RetryDue(m) \/ RetryDoubled(m) \/ RetryLost(m)
      PROVE  TypeInv'
  <2>1. /\ log' \in Seq(Message) /\ Len(log) <= Len(log')
        /\ retry' \in SUBSET Message
    BY <1>18 DEF RetryDue, RetryDoubled, RetryLost
  <2>2. budget' \in Budget
    BY <1>18 DEF RetryDue, RetryDoubled, RetryLost, Budget, Fault
  <2> QED BY <1>18, <2>1, <2>2 DEF RetryDue, RetryDoubled, RetryLost
<1>19. CASE UNCHANGED vars
  BY <1>19 DEF vars
<1> QED
  BY <1>1, <1>2, <1>3, <1>4, <1>5, <1>6, <1>7, <1>8, <1>9, <1>10, <1>11, <1>12, <1>13,
     <1>14, <1>15, <1>16, <1>17, <1>18, <1>19
     DEF Next, EvalStep, DeleteStep

\* Every reachable state is well typed, for every number of workers, commits and faults.
THEOREM TypeCorrect == Spec => []TypeOK
<1>1. TypeInv => TypeOK
  BY DEF TypeInv
<1> QED BY <1>1, TypeInit, TypeNext, PTL DEF Spec

-----------------------------------------------------------------------------
(* Who writes what: the actions a proof about one variable has to look at *)

WritesRow(w) ==
    \/ Claim(w) \/ (\E c \in Commits : CloneDone(w, c)) \/ ReleaseReady(w)
    \/ RouteRetry(w) \/ RouteDead(w) \/ Heartbeat(w)
    \/ FailTerminal(w) \/ FailUnexpected(w) \/ Crash(w)

WritesPoints(w) == Flush(w) \/ DropSuperseded(w) \/ Discard(w)

\* Outside the workers, five actions write the projects row and none writes a job.
LEMMA RunWriters ==
    ASSUME [Next]_vars
    PROVE  \/ UNCHANGED <<row, run>>
           \/ Create \/ Reindex \/ DeleteCommit \/ LeaseExpires \/ LeaseOutrun
           \/ \E w \in Workers : WorkerStep(w) \/ WorkerFault(w)
<1>1. CASE Publish \/ PublishLost \/ EvalStep \/ Sweep \/ UNCHANGED vars
  BY <1>1 DEF Publish, PublishLost, EvalStep, StartEvalRun, ReadEvalGeneration, FinishEvalRun,
              Sweep, vars
<1>2. CASE DeleteStep
  BY <1>2 DEF DeleteStep, DeleteRead, DeleteFlush, DeleteWipe, DeleteAbort
<1>3. CASE \E m \in retry : RetryDue(m) \/ RetryDoubled(m) \/ RetryLost(m)
  BY <1>3 DEF RetryDue, RetryDoubled, RetryLost
<1> QED BY <1>1, <1>2, <1>3 DEF Next

\* The worker's actions that write the projects row.
LEMMA RowWriters ==
    ASSUME [Next]_vars
    PROVE  \/ row' = row
           \/ Create \/ Reindex \/ DeleteCommit \/ LeaseExpires \/ LeaseOutrun
           \/ \E w \in Workers : WritesRow(w)
<1>1. ASSUME NEW w \in Workers, WorkerStep(w) PROVE row' = row \/ WritesRow(w)
  BY <1>1 DEF WorkerStep, WritesRow, Skip, Load, Flush, DropSuperseded, Discard,
              ProduceRetry, CommitOffset, Absorb
<1>2. ASSUME NEW w \in Workers, WorkerFault(w) PROVE row' = row \/ WritesRow(w)
  BY <1>2 DEF WorkerFault, WritesRow, FailRetryable, ClaimRaises, Raise, HeartbeatFails,
              Rebalance
<1> QED BY <1>1, <1>2, RunWriters

\* The actions that write the vector store.
LEMMA PointWriters ==
    ASSUME [Next]_vars
    PROVE  points' = points \/ DeleteWipe \/ \E w \in Workers : WritesPoints(w)
<1>1. CASE Create \/ Reindex \/ Publish \/ PublishLost \/ EvalStep \/ DeleteStep
           \/ LeaseExpires \/ LeaseOutrun \/ Sweep \/ UNCHANGED vars
  BY <1>1 DEF Create, Reindex, Publish, PublishLost, EvalStep, StartEvalRun,
              ReadEvalGeneration, FinishEvalRun, DeleteStep, DeleteRead, DeleteFlush,
              DeleteCommit, DeleteAbort, LeaseExpires, LeaseOutrun, Sweep, vars
<1>2. ASSUME NEW w \in Workers, WorkerStep(w) PROVE points' = points \/ WritesPoints(w)
  BY <1>2 DEF WorkerStep, WritesPoints, Claim, Skip, Load, CloneDone, ReleaseReady,
              RouteRetry, RouteDead, ProduceRetry, CommitOffset, Absorb, Heartbeat
<1>3. ASSUME NEW w \in Workers, WorkerFault(w) PROVE points' = points
  BY <1>3 DEF WorkerFault, FailTerminal, FailRetryable, FailUnexpected, ClaimRaises, Raise,
              Crash, HeartbeatFails, Rebalance
<1>4. CASE \E m \in retry : RetryDue(m) \/ RetryDoubled(m) \/ RetryLost(m)
  BY <1>4 DEF RetryDue, RetryDoubled, RetryLost
<1> QED BY <1>1, <1>2, <1>3, <1>4 DEF Next

-----------------------------------------------------------------------------
(* One live run per project, as long as heartbeats keep up *)

\* What a change of stage leaves in the worker's job, and everyone else's.
LEMMA MoveFields ==
    ASSUME run \in [Workers -> Job], NEW w \in Workers, NEW stage, Move(w, stage)
    PROVE  /\ run'[w].pc = stage /\ run'[w].beating = run[w].beating
           /\ run'[w].gen = run[w].gen /\ run'[w].commit = run[w].commit
           /\ run'[w].todo = run[w].todo
           /\ \A v \in Workers \ {w} : run'[v] = run[v]
  BY DEF Move, Job

\* The same for a run that ends: its heartbeat is over.
LEMMA StopFields ==
    ASSUME run \in [Workers -> Job], NEW w \in Workers, NEW stage, Stop(w, stage)
    PROVE  /\ run'[w].pc = stage /\ run'[w].beating = FALSE
           /\ run'[w].gen = run[w].gen /\ run'[w].commit = run[w].commit
           /\ run'[w].todo = run[w].todo
           /\ \A v \in Workers \ {w} : run'[v] = run[v]
  BY DEF Stop, Job

\* What reading the row leaves in the worker's job.
LEMMA LoadFields ==
    ASSUME TypeInv, NEW w \in Workers, Load(w)
    PROVE  /\ \/ run'[w].pc = "done" /\ run'[w].beating = FALSE
              \/ run'[w].pc = "clone" /\ run'[w].gen = row.gen /\ run'[w].beating = run[w].beating
           /\ \A v \in Workers \ {w} : run'[v] = run[v]
<1>1. CASE Live
  BY <1>1 DEF Load, TypeInv, TypeOK, Job
<1>2. CASE ~Live
  BY <1>2, StopFields DEF Load, TypeInv, TypeOK
<1> QED BY <1>1, <1>2

\* What a release leaves in the row.
LEMMA ReleasedFields ==
    ASSUME row \in Project, NEW j, NEW s
    PROVE  /\ ReleasedRow(j, s).status = s /\ ReleasedRow(j, s).owner = None
           /\ ReleasedRow(j, s).lease = "none" /\ ReleasedRow(j, s).deleted = row.deleted
           /\ ReleasedRow(j, s).gen = row.gen /\ ReleasedRow(j, s).commit = row.commit
           /\ ReleasedRow(j, s).collection = row.collection
  BY DEF ReleasedRow, Project

\* A run that ends, by whatever route, stops renewing; if it wrote its outcome it was
\* the owner and the row has none now.
LEMMA RunEnds ==
    ASSUME TypeInv, NEW w \in Workers,
           ReleaseReady(w) \/ FailTerminal(w)
    PROVE  /\ run'[w].pc \in {"drop", "discard", "done"} /\ run'[w].beating = FALSE
           /\ run'[w].gen = run[w].gen
           /\ \A v \in Workers \ {w} : run'[v] = run[v]
<1>1. PICK stage \in {"drop", "discard", "done"} : Stop(w, stage)
  <2>1. AfterRefusal(run[w].pc) \subseteq {"discard", "done"}
    BY DEF AfterRefusal
  <2> QED BY <2>1 DEF ReleaseReady, FailTerminal
<1> QED BY <1>1, StopFields DEF TypeInv, TypeOK

\* What the flip leaves in the row.
LEMMA Flipped ==
    ASSUME TypeInv, NEW w \in Workers, ReleaseReady(w), Releasable(w)
    PROVE  /\ row'.gen = run[w].gen + 1 /\ row'.commit = run[w].commit
           /\ row'.status = "ready" /\ row'.owner = None /\ row'.deleted = row.deleted
           /\ row'.lease = "none"
<1> DEFINE released == ReleasedRow(run[w].job, "ready")
<1>1. released \in Project
  BY RowTypes DEF TypeInv, TypeOK, Job, ProjectStatus
<1>2. row' = [released EXCEPT !.gen = run[w].gen + 1, !.collection = TRUE,
                              !.commit = run[w].commit]
  BY DEF ReleaseReady
<1>3. /\ row'.owner = released.owner /\ row'.status = released.status
      /\ row'.deleted = released.deleted /\ row'.lease = released.lease
      /\ row'.gen = run[w].gen + 1 /\ row'.commit = run[w].commit
  BY <1>1, <1>2 DEF Project
<1> QED BY <1>3, ReleasedFields DEF TypeInv, TypeOK

\* An outcome is written by the owner of a row that is not deleted, or not at all.
LEMMA OutcomeWritten ==
    ASSUME TypeInv, NEW w \in Workers,
           ReleaseReady(w) \/ FailTerminal(w) \/ RouteDead(w)
    PROVE  \/ row' = row
           \/ /\ Owns(w) /\ ~row.deleted /\ row'.owner = None
              /\ row'.status \in {"ready", "failed"} /\ row'.deleted = row.deleted
<1>1. CASE ReleaseReady(w)
  <2>1. CASE Releasable(w)
    BY <1>1, <2>1, Flipped DEF Releasable
  <2> QED BY <1>1, <2>1 DEF ReleaseReady
<1>2. CASE FailTerminal(w) \/ RouteDead(w)
  BY <1>2, ReleasedFields DEF FailTerminal, RouteDead, Releasable, TypeInv, TypeOK
<1> QED BY <1>1, <1>2

\* A worker renews exactly while it is inside a run, and then it owns a live lease.
Beats ==
    /\ \A w \in Workers : InRun(w) <=> run[w].beating
    /\ \A w \in Workers : run[w].beating => Owns(w) /\ row.lease = "live"

\* A worker that stops renewing outside a run, having written the row only as its owner,
\* disturbs no other worker's renewals: no other worker was renewing that row.
LEMMA BeatsStopped ==
    ASSUME Beats, NEW w \in Workers, ~InRun(w)', run'[w].beating = FALSE,
           \A v \in Workers \ {w} : run'[v] = run[v],
           row' = row \/ row.owner = w
    PROVE  Beats'
<1>1. ASSUME NEW v \in Workers PROVE InRun(v)' <=> run'[v].beating
  <2>1. CASE v = w
    BY <2>1
  <2>2. CASE v # w
    <3>1. run'[v] = run[v]
      BY <2>2
    <3> QED BY <3>1 DEF Beats, InRun
  <2> QED BY <2>1, <2>2
<1>2. ASSUME NEW v \in Workers, run'[v].beating PROVE Owns(v)' /\ row'.lease = "live"
  <2>1. v # w /\ run'[v] = run[v]
    BY <1>2
  <2>2. row.owner = v /\ row.lease = "live"
    BY <1>2, <2>1 DEF Beats, Owns
  <2>3. row' = row
    BY <2>1, <2>2
  <2> QED BY <2>2, <2>3 DEF Owns
<1> QED BY <1>1, <1>2 DEF Beats

\* No step lets a renewing worker lose its lease.
LEMMA BeatsNext ==
    ASSUME ~HeartbeatMayFail, TypeInv, Beats, [Next]_vars
    PROVE  Beats'
<1> USE NoneAssumption DEF TypeInv, TypeOK, Beats, InRun, Owns, Job, Project, kafka
<1>1. CASE UNCHANGED <<row, run>>
  BY <1>1
<1>2. CASE Create
  BY <1>2 DEF Create, StatusRow
<1>3. CASE Reindex
  BY <1>3 DEF Reindex
<1>4. CASE DeleteCommit
  BY <1>4 DEF DeleteCommit
<1>5. CASE LeaseExpires
  BY <1>5 DEF LeaseExpires
<1>6. CASE LeaseOutrun
  BY <1>6 DEF LeaseOutrun
<1>7. ASSUME NEW w \in Workers, WorkerStep(w) PROVE Beats'
  <2>1. CASE Claim(w)
    BY <2>1 DEF Claim, ClaimedRow, Claimable, Idle
  <2>2. CASE Skip(w)
    BY <2>2 DEF Skip, Idle
  <2>3. CASE Load(w)
    <3>1. /\ \/ run'[w].pc = "done" /\ run'[w].beating = FALSE
             \/ run'[w].pc = "clone" /\ run'[w].beating = run[w].beating
          /\ \A v \in Workers \ {w} : run'[v] = run[v]
      BY <2>3, LoadFields
    <3> QED BY <2>3, <3>1 DEF Load
  <2>4. CASE \E c \in Commits : CloneDone(w, c)
    BY <2>4 DEF CloneDone, AdvancedRow, StatusRow
  <2>5. CASE Flush(w)
    BY <2>5 DEF Flush
  <2>6. CASE ReleaseReady(w)
    <3>1. ~InRun(w)' /\ run'[w].beating = FALSE /\ \A v \in Workers \ {w} : run'[v] = run[v]
      BY <2>6, RunEnds
    <3>2. row' = row \/ row.owner = w
      BY <2>6, OutcomeWritten
    <3> HIDE DEF TypeInv, TypeOK, Beats, InRun, Owns, Job, Project, kafka
    <3> QED BY <3>1, <3>2, BeatsStopped
  <2>7. CASE DropSuperseded(w)
    BY <2>7 DEF DropSuperseded, Move
  <2>8. CASE Discard(w)
    BY <2>8 DEF Discard, Move
  <2>9. CASE RouteRetry(w)
    BY <2>9 DEF RouteRetry, RenewedRow, Move
  <2>10. CASE RouteDead(w)
    <3>1. ~InRun(w)' /\ run'[w].beating = FALSE /\ \A v \in Workers \ {w} : run'[v] = run[v]
      BY <2>10, MoveFields DEF RouteDead
    <3>2. row' = row \/ row.owner = w
      BY <2>10, OutcomeWritten
    <3> HIDE DEF TypeInv, TypeOK, Beats, InRun, Owns, Job, Project, kafka
    <3> QED BY <3>1, <3>2, BeatsStopped
  <2>11. CASE ProduceRetry(w)
    BY <2>11 DEF ProduceRetry, Move
  <2>12. CASE CommitOffset(w)
    BY <2>12 DEF CommitOffset, Idle
  <2>13. CASE Absorb(w)
    BY <2>13 DEF Absorb, Idle
  <2>14. CASE Heartbeat(w)
    BY <2>14 DEF Heartbeat, RenewedRow
  <2> QED BY <1>7, <2>1, <2>2, <2>3, <2>4, <2>5, <2>6, <2>7, <2>8, <2>9, <2>10, <2>11,
    <2>12, <2>13, <2>14
    DEF WorkerStep
<1>8. ASSUME NEW w \in Workers, WorkerFault(w) PROVE Beats'
  <2>1. CASE FailTerminal(w)
    <3>1. ~InRun(w)' /\ run'[w].beating = FALSE /\ \A v \in Workers \ {w} : run'[v] = run[v]
      BY <2>1, RunEnds
    <3>2. row' = row \/ row.owner = w
      BY <2>1, OutcomeWritten
    <3> HIDE DEF TypeInv, TypeOK, Beats, InRun, Owns, Job, Project, kafka
    <3> QED BY <3>1, <3>2, BeatsStopped
  <2>2. CASE FailRetryable(w)
    BY <2>2 DEF FailRetryable, Stop
  <2>3. CASE FailUnexpected(w)
    BY <2>3 DEF FailUnexpected, AbandonedRow
  <2>4. CASE ClaimRaises(w)
    BY <2>4 DEF ClaimRaises
  <2>5. CASE Raise(w)
    BY <2>5 DEF Raise, Move
  <2>6. CASE Crash(w)
    BY <2>6 DEF Crash, Idle
  <2>7. CASE HeartbeatFails(w)
    BY <2>7 DEF HeartbeatFails
  <2>8. CASE Rebalance(w)
    <3>1. \A v \in Workers : run'[v].pc = run[v].pc /\ run'[v].beating = run[v].beating
      BY <2>8 DEF Rebalance
    <3>2. row' = row
      BY <2>8 DEF Rebalance
    <3> QED BY <3>1, <3>2
  <2> QED BY <1>8, <2>1, <2>2, <2>3, <2>4, <2>5, <2>6, <2>7, <2>8
    DEF WorkerFault
<1> QED BY <1>1, <1>2, <1>3, <1>4, <1>5, <1>6, <1>7, <1>8, RunWriters

\* With heartbeats that keep up, no two workers are ever inside the same project's run.
THEOREM OneRunnerSafe ==
    ASSUME ~HeartbeatMayFail
    PROVE  Spec => []OneRunner
<1>1. Init => Beats
  BY DEF Init, Beats, InRun, Idle
<1>2. TypeInv /\ Beats /\ [Next]_vars => Beats'
  BY BeatsNext
<1>3. Beats => OneRunner
  BY DEF Beats, OneRunner, Owns
<1> QED BY <1>1, <1>2, <1>3, TypeInit, TypeNext, PTL DEF Spec

\* With heartbeats that keep up, a project shown as cloning or indexing has a lease.
LEMMA BusyNext ==
    ASSUME ~HeartbeatMayFail, TypeInv, Beats, BusyIsRecoverable, [Next]_vars
    PROVE  BusyIsRecoverable'
<1> USE NoneAssumption DEF TypeInv, TypeOK, BusyIsRecoverable, Live, Project, kafka
<1>1. CASE row' = row
  BY <1>1
<1>2. CASE Create
  BY <1>2 DEF Create, StatusRow
<1>3. CASE Reindex
  BY <1>3 DEF Reindex
<1>4. CASE DeleteCommit
  BY <1>4 DEF DeleteCommit
<1>5. CASE LeaseExpires
  BY <1>5 DEF LeaseExpires
<1>6. CASE LeaseOutrun
  BY <1>6 DEF LeaseOutrun
<1>7. ASSUME NEW w \in Workers, WritesRow(w) PROVE BusyIsRecoverable'
  <2>1. CASE Claim(w)
    BY <2>1 DEF Claim, ClaimedRow, Claimable
  <2>2. CASE \E c \in Commits : CloneDone(w, c)
    BY <2>2 DEF CloneDone, AdvancedRow, StatusRow, Beats, InRun
  <2>3. CASE ReleaseReady(w)
    <3>1. row' = row \/ row'.status = "ready"
      BY <2>3 DEF ReleaseReady, ReleasedRow
    <3> QED BY <3>1
  <2>4. CASE RouteRetry(w)
    BY <2>4 DEF RouteRetry, RenewedRow
  <2>5. CASE RouteDead(w)
    BY <2>5 DEF RouteDead, Releasable, ReleasedRow
  <2>6. CASE Heartbeat(w)
    BY <2>6 DEF Heartbeat, RenewedRow
  <2>7. CASE FailTerminal(w)
    BY <2>7 DEF FailTerminal, Releasable, ReleasedRow
  <2>8. CASE FailUnexpected(w)
    BY <2>8 DEF FailUnexpected, AbandonedRow
  <2>9. CASE Crash(w)
    BY <2>9 DEF Crash
  <2> QED BY <1>7, <2>1, <2>2, <2>3, <2>4, <2>5, <2>6, <2>7, <2>8, <2>9
    DEF WritesRow
<1> QED BY <1>1, <1>2, <1>3, <1>4, <1>5, <1>6, <1>7, RowWriters

\* With heartbeats that keep up, no project is left looking busy with nobody on it and
\* no lease for the sweep to find.
THEOREM BusyIsRecoverableSafe ==
    ASSUME ~HeartbeatMayFail
    PROVE  Spec => []BusyIsRecoverable
<1>1. Init => Beats /\ BusyIsRecoverable
  BY DEF Init, Beats, InRun, Idle, BusyIsRecoverable, Live
<1>2. TypeInv /\ Beats /\ [Next]_vars => Beats'
  BY BeatsNext
<1>3. TypeInv /\ Beats /\ BusyIsRecoverable /\ [Next]_vars => BusyIsRecoverable'
  BY BusyNext
<1> QED BY <1>1, <1>2, <1>3, TypeInit, TypeNext, PTL DEF Spec

-----------------------------------------------------------------------------
(* The served index *)

\* The owner of a run works from the served generation.
Fresh == \A w \in Workers :
            Owns(w) /\ run[w].pc \in {"clone", "index"} => run[w].gen = row.gen

\* What a finished run is about to drop is older than what is served.
DropsOld == \A w \in Workers : run[w].pc = "drop" => run[w].gen < row.gen

\* No step lets an owner fall behind the pointer.
LEMMA FreshNext ==
    ASSUME TypeInv, Fresh, [Next]_vars
    PROVE  Fresh'
<1> USE NoneAssumption DEF TypeInv, TypeOK, Fresh, Owns, Job, Project, kafka
<1>1. CASE UNCHANGED <<row, run>>
  BY <1>1
<1>2. CASE Create
  BY <1>2 DEF Create, StatusRow
<1>3. CASE Reindex
  BY <1>3 DEF Reindex
<1>4. CASE DeleteCommit
  BY <1>4 DEF DeleteCommit
<1>5. CASE LeaseExpires
  BY <1>5 DEF LeaseExpires
<1>6. CASE LeaseOutrun
  BY <1>6 DEF LeaseOutrun
<1>7. ASSUME NEW w \in Workers, WorkerStep(w) PROVE Fresh'
  <2>1. CASE Claim(w)
    BY <2>1 DEF Claim, ClaimedRow, Claimable, Idle
  <2>2. CASE Skip(w)
    BY <2>2 DEF Skip, Idle
  <2>3. CASE Load(w)
    <3>1. /\ run'[w].pc = "done" \/ run'[w].gen = row.gen
          /\ \A v \in Workers \ {w} : run'[v] = run[v]
      BY <2>3, LoadFields
    <3> QED BY <2>3, <3>1 DEF Load
  <2>4. CASE \E c \in Commits : CloneDone(w, c)
    BY <2>4 DEF CloneDone, AdvancedRow, StatusRow
  <2>5. CASE Flush(w)
    BY <2>5 DEF Flush
  <2>6. CASE ReleaseReady(w)
    <3>1. run'[w].pc \notin {"clone", "index"} /\ \A v \in Workers \ {w} : run'[v] = run[v]
      BY <2>6, RunEnds
    <3>2. row' = row \/ row'.owner = None
      BY <2>6, OutcomeWritten
    <3> QED BY <3>1, <3>2
  <2>7. CASE DropSuperseded(w)
    BY <2>7 DEF DropSuperseded, Move
  <2>8. CASE Discard(w)
    BY <2>8 DEF Discard, Move
  <2>9. CASE RouteRetry(w)
    BY <2>9 DEF RouteRetry, RenewedRow, Move
  <2>10. CASE RouteDead(w)
    BY <2>10 DEF RouteDead, Releasable, ReleasedRow, Move
  <2>11. CASE ProduceRetry(w)
    BY <2>11 DEF ProduceRetry, Move
  <2>12. CASE CommitOffset(w)
    BY <2>12 DEF CommitOffset, Idle
  <2>13. CASE Absorb(w)
    BY <2>13 DEF Absorb, Idle
  <2>14. CASE Heartbeat(w)
    BY <2>14 DEF Heartbeat, RenewedRow
  <2> QED BY <1>7, <2>1, <2>2, <2>3, <2>4, <2>5, <2>6, <2>7, <2>8, <2>9, <2>10, <2>11,
    <2>12, <2>13, <2>14
    DEF WorkerStep
<1>8. ASSUME NEW w \in Workers, WorkerFault(w) PROVE Fresh'
  <2>1. CASE FailTerminal(w)
    <3>1. run'[w].pc \notin {"clone", "index"} /\ \A v \in Workers \ {w} : run'[v] = run[v]
      BY <2>1, RunEnds
    <3>2. row' = row \/ row'.owner = None
      BY <2>1, OutcomeWritten
    <3> QED BY <3>1, <3>2
  <2>2. CASE FailRetryable(w)
    BY <2>2 DEF FailRetryable, Stop
  <2>3. CASE FailUnexpected(w)
    <3>1. run'[w].pc = "route" /\ \A v \in Workers \ {w} : run'[v] = run[v]
      BY <2>3 DEF FailUnexpected
    <3>2. row'.owner = row.owner /\ row'.gen = row.gen
      BY <2>3 DEF FailUnexpected, AbandonedRow
    <3> QED BY <3>1, <3>2
  <2>4. CASE ClaimRaises(w)
    BY <2>4 DEF ClaimRaises
  <2>5. CASE Raise(w)
    BY <2>5 DEF Raise, Move
  <2>6. CASE Crash(w)
    BY <2>6 DEF Crash, Idle
  <2>7. CASE HeartbeatFails(w)
    BY <2>7 DEF HeartbeatFails
  <2>8. CASE Rebalance(w)
    BY <2>8 DEF Rebalance
  <2> QED BY <1>8, <2>1, <2>2, <2>3, <2>4, <2>5, <2>6, <2>7, <2>8
    DEF WorkerFault
<1> QED BY <1>1, <1>2, <1>3, <1>4, <1>5, <1>6, <1>7, <1>8, RunWriters

\* Only the owner's release moves the pointer, and by one.
LEMMA PointerStep ==
    ASSUME TypeInv, Fresh, [Next]_vars
    PROVE  \/ row'.gen = row.gen
           \/ /\ row'.gen = row.gen + 1 /\ row'.owner = None
              /\ \E w \in Workers : ReleaseReady(w) /\ Releasable(w)
<1> DEFINE Goal == \/ row'.gen = row.gen
                   \/ /\ row'.gen = row.gen + 1 /\ row'.owner = None
                      /\ \E w \in Workers : ReleaseReady(w) /\ Releasable(w)
<1> SUFFICES Goal
  OBVIOUS
<1> USE DEF TypeInv, TypeOK, Project, kafka
<1>1. CASE row' = row
  BY <1>1
<1>2. CASE Create
  BY <1>2 DEF Create, StatusRow
<1>3. CASE Reindex
  BY <1>3 DEF Reindex
<1>4. CASE DeleteCommit
  BY <1>4 DEF DeleteCommit
<1>5. CASE LeaseExpires
  BY <1>5 DEF LeaseExpires
<1>6. CASE LeaseOutrun
  BY <1>6 DEF LeaseOutrun
<1>7. ASSUME NEW w \in Workers, WritesRow(w) PROVE Goal
  <2>1. CASE Claim(w)
    BY <2>1 DEF Claim, ClaimedRow, Claimable
  <2>2. CASE \E c \in Commits : CloneDone(w, c)
    BY <2>2 DEF CloneDone, AdvancedRow, StatusRow
  <2>3. CASE ReleaseReady(w)
    <3>1. CASE Releasable(w)
      <4>1. run[w].gen = row.gen
        BY <2>3, <3>1 DEF ReleaseReady, Releasable, Fresh
      <4>2. row'.gen = run[w].gen + 1 /\ row'.owner = None
        BY <2>3, <3>1, Flipped
      <4> QED BY <2>3, <3>1, <4>1, <4>2
    <3> QED BY <2>3, <3>1 DEF ReleaseReady
  <2>4. CASE RouteRetry(w)
    BY <2>4 DEF RouteRetry, RenewedRow
  <2>5. CASE RouteDead(w)
    BY <2>5 DEF RouteDead, Releasable, ReleasedRow
  <2>6. CASE Heartbeat(w)
    BY <2>6 DEF Heartbeat, RenewedRow
  <2>7. CASE FailTerminal(w)
    BY <2>7 DEF FailTerminal, Releasable, ReleasedRow
  <2>8. CASE FailUnexpected(w)
    BY <2>8 DEF FailUnexpected, AbandonedRow
  <2>9. CASE Crash(w)
    BY <2>9 DEF Crash
  <2> QED BY <1>7, <2>1, <2>2, <2>3, <2>4, <2>5, <2>6, <2>7, <2>8, <2>9
    DEF WritesRow
<1> QED BY <1>1, <1>2, <1>3, <1>4, <1>5, <1>6, <1>7, RowWriters

\* The served generation moves by one or not at all, whatever heartbeats do.
THEOREM PointerSafe == Spec => PointerAdvancesByOne
<1>1. Init => Fresh
  BY DEF Init, Fresh, Idle
<1>2. TypeInv /\ Fresh /\ [Next]_vars => Fresh'
  BY FreshNext
<1>3. TypeInv /\ Fresh /\ [Next]_vars => [row'.gen \in {row.gen, row.gen + 1}]_vars
  BY PointerStep
<1> QED BY <1>1, <1>2, <1>3, TypeInit, TypeNext, PTL DEF Spec, PointerAdvancesByOne

-----------------------------------------------------------------------------
\* Every step is, for the lease, a step of LeasedWork or none.
LEMMA LeaseStep ==
    ASSUME TypeInv, Fresh, [Next]_vars
    PROVE  [Work!Next]_(Work!vars)
<1> DEFINE Same == /\ row'.owner = row.owner /\ row'.lease = row.lease
                   /\ row'.gen = row.gen /\ row'.deleted = row.deleted
           Goal == [Work!Next]_(Work!vars)
<1>0. Same => Goal
  BY DEF Work!vars
<1> SUFFICES Goal
  OBVIOUS
<1> HIDE DEF Goal
<1> USE DEF TypeInv, TypeOK, Project, kafka
<1>1. CASE row' = row
  BY <1>0, <1>1
<1>2. CASE Create
  BY <1>0, <1>2 DEF Create, StatusRow
<1>3. CASE Reindex
  BY <1>0, <1>3 DEF Reindex
<1>4. CASE DeleteCommit
  <2>1. row'.owner = row.owner /\ row'.lease = row.lease /\ row'.gen = row.gen /\ row'.deleted
    BY <1>4 DEF DeleteCommit
  <2>2. CASE row.deleted
    BY <1>0, <2>1, <2>2
  <2>3. CASE ~row.deleted
    <3>1. Work!Delete
      BY <2>1, <2>3 DEF Work!Delete
    <3> QED BY <3>1 DEF Goal, Work!Next
  <2> QED BY <2>2, <2>3
<1>5. CASE LeaseExpires
  BY <1>5 DEF LeaseExpires, Goal, Work!Next, Work!Lapse
<1>6. CASE LeaseOutrun
  BY <1>6 DEF LeaseOutrun, Goal, Work!Next, Work!Lapse
<1>7. ASSUME NEW w \in Workers, WritesRow(w) PROVE Goal
  <2>1. CASE Claim(w)
    <3>1. Work!Take(w)
      BY <2>1 DEF Claim, ClaimedRow, Claimable, Live, Work!Take
    <3> QED BY <3>1 DEF Goal, Work!Next
  <2>2. CASE \E c \in Commits : CloneDone(w, c)
    BY <1>0, <2>2 DEF CloneDone, AdvancedRow, StatusRow
  <2>3. CASE ReleaseReady(w)
    <3>1. CASE Releasable(w)
      <4>1. run[w].gen = row.gen
        BY <2>3, <3>1 DEF ReleaseReady, Releasable, Fresh
      <4>2. /\ row'.gen = run[w].gen + 1 /\ row'.owner = None
            /\ row'.lease = "none" /\ row'.deleted = row.deleted
        BY <2>3, <3>1, Flipped
      <4>3. Work!Record(w)
        BY <3>1, <4>1, <4>2 DEF Releasable, Owns, Work!Record
      <4> QED BY <4>3 DEF Goal, Work!Next
    <3> QED BY <1>1, <2>3, <3>1 DEF ReleaseReady
  <2>4. CASE RouteRetry(w)
    <3>1. row' = row \/ Work!Renew(w)
      BY <2>4 DEF RouteRetry, RenewedRow, Owns, Work!Renew
    <3> QED BY <1>1, <3>1 DEF Goal, Work!Next
  <2>5. CASE RouteDead(w)
    <3>1. row' = row \/ Work!Record(w)
      BY <2>5 DEF RouteDead, Releasable, ReleasedRow, Owns, Work!Record
    <3> QED BY <1>1, <3>1 DEF Goal, Work!Next
  <2>6. CASE Heartbeat(w)
    <3>1. row' = row \/ Work!Renew(w)
      BY <2>6 DEF Heartbeat, RenewedRow, Owns, Work!Renew
    <3> QED BY <1>1, <3>1 DEF Goal, Work!Next
  <2>7. CASE FailTerminal(w)
    <3>1. row' = row \/ Work!Record(w)
      BY <2>7 DEF FailTerminal, Releasable, ReleasedRow, Owns, Work!Record
    <3> QED BY <1>1, <3>1 DEF Goal, Work!Next
  <2>8. CASE FailUnexpected(w)
    <3>1. row' = row \/ Work!Renew(w)
      BY <2>8 DEF FailUnexpected, AbandonedRow, Owns, Work!Renew
    <3> QED BY <1>1, <3>1 DEF Goal, Work!Next
  <2>9. CASE Crash(w)
    <3>1. row' = row \/ Work!Die
      BY <2>9, NoneAssumption DEF Crash, Owns, Work!Die
    <3> QED BY <1>1, <3>1 DEF Goal, Work!Next
  <2> QED BY <1>7, <2>1, <2>2, <2>3, <2>4, <2>5, <2>6, <2>7, <2>8, <2>9
    DEF WritesRow
<1> QED BY <1>1, <1>2, <1>3, <1>4, <1>5, <1>6, <1>7, RowWriters

\* Refinement: indexing implements LeasedWork, from its initial state and step for step,
\* whatever heartbeats do.
THEOREM LeaseSafe == Spec => LeaseHonoured
<1>1. Init => Fresh
  BY DEF Init, Fresh, Idle
<1>2. TypeInv /\ Fresh /\ [Next]_vars => Fresh'
  BY FreshNext
<1>3. Init => Work!Init
  BY DEF Init, Work!Init
<1>4. TypeInv /\ Fresh /\ [Next]_vars => [Work!Next]_(Work!vars)
  BY LeaseStep
<1> QED BY <1>1, <1>2, <1>3, <1>4, TypeInit, TypeNext, PTL DEF Spec, LeaseHonoured, Work!Spec

-----------------------------------------------------------------------------
\* Nothing a step writes onto a deleted row makes it served again.
LEMMA DeletedStep ==
    ASSUME TypeInv, [Next]_vars, row.deleted
    PROVE  /\ row'.deleted /\ row'.gen = row.gen /\ row'.collection = row.collection
           /\ row'.status = "ready" => row.status = "ready"
<1> DEFINE Goal == /\ row'.deleted /\ row'.gen = row.gen /\ row'.collection = row.collection
                   /\ row'.status = "ready" => row.status = "ready"
<1> SUFFICES Goal
  OBVIOUS
<1> USE DEF TypeInv, TypeOK, Project, Live, kafka
<1>1. CASE row' = row
  BY <1>1
<1>2. CASE Create
  BY <1>2 DEF Create, StatusRow
<1>3. CASE Reindex
  BY <1>3 DEF Reindex
<1>4. CASE DeleteCommit
  BY <1>4 DEF DeleteCommit
<1>5. CASE LeaseExpires
  BY <1>5 DEF LeaseExpires
<1>6. CASE LeaseOutrun
  BY <1>6 DEF LeaseOutrun
<1>7. ASSUME NEW w \in Workers, WritesRow(w) PROVE Goal
  <2>1. CASE Claim(w)
    BY <2>1 DEF Claim, ClaimedRow, Claimable
  <2>2. CASE \E c \in Commits : CloneDone(w, c)
    BY <2>2 DEF CloneDone, AdvancedRow, StatusRow
  <2>3. CASE ReleaseReady(w)
    BY <2>3 DEF ReleaseReady, Releasable, ReleasedRow
  <2>4. CASE RouteRetry(w)
    BY <2>4 DEF RouteRetry, RenewedRow
  <2>5. CASE RouteDead(w)
    BY <2>5 DEF RouteDead, Releasable, ReleasedRow
  <2>6. CASE Heartbeat(w)
    BY <2>6 DEF Heartbeat, RenewedRow
  <2>7. CASE FailTerminal(w)
    BY <2>7 DEF FailTerminal, Releasable, ReleasedRow
  <2>8. CASE FailUnexpected(w)
    BY <2>8 DEF FailUnexpected, AbandonedRow
  <2>9. CASE Crash(w)
    BY <2>9 DEF Crash
  <2> QED BY <1>7, <2>1, <2>2, <2>3, <2>4, <2>5, <2>6, <2>7, <2>8, <2>9
    DEF WritesRow
<1> QED BY <1>1, <1>2, <1>3, <1>4, <1>5, <1>6, <1>7, RowWriters

\* The generation a run is about to drop stays behind the pointer.
LEMMA DropsOldNext ==
    ASSUME TypeInv, Fresh, DropsOld, [Next]_vars
    PROVE  DropsOld'
<1>0. row.gen \in Nat /\ row'.gen \in Nat /\ row'.gen >= row.gen
  BY PointerStep, TypeNext DEF TypeInv, TypeOK, Project
<1> USE <1>0 DEF TypeInv, TypeOK, DropsOld, Job, kafka
<1>1. CASE UNCHANGED <<row, run>>
  BY <1>1
<1>2. CASE Create
  BY <1>2 DEF Create, StatusRow
<1>3. CASE Reindex
  BY <1>3 DEF Reindex
<1>4. CASE DeleteCommit
  BY <1>4 DEF DeleteCommit
<1>5. CASE LeaseExpires
  BY <1>5 DEF LeaseExpires
<1>6. CASE LeaseOutrun
  BY <1>6 DEF LeaseOutrun
<1>7. ASSUME NEW w \in Workers, WorkerStep(w) PROVE DropsOld'
  <2>1. CASE Claim(w)
    BY <2>1 DEF Claim, ClaimedRow, Claimable, Idle
  <2>2. CASE Skip(w)
    BY <2>2 DEF Skip, Idle
  <2>3. CASE Load(w)
    BY <2>3 DEF Load, Stop
  <2>4. CASE \E c \in Commits : CloneDone(w, c)
    BY <2>4 DEF CloneDone, AdvancedRow, StatusRow
  <2>5. CASE Flush(w)
    BY <2>5 DEF Flush
  <2>6. CASE ReleaseReady(w)
    <3>1. run'[w].gen = run[w].gen /\ \A v \in Workers \ {w} : run'[v] = run[v]
      BY <2>6, RunEnds
    <3>2. CASE Releasable(w)
      <4>1. row'.gen = run[w].gen + 1
        BY <2>6, <3>2, Flipped
      <4> QED BY <3>1, <4>1
    <3>3. CASE ~Releasable(w)
      <4>1. run'[w].pc = "discard"
        BY <2>6, <3>3, StopFields DEF ReleaseReady
      <4> QED BY <3>1, <4>1
    <3> QED BY <3>2, <3>3
  <2>7. CASE DropSuperseded(w)
    BY <2>7 DEF DropSuperseded, Move
  <2>8. CASE Discard(w)
    BY <2>8 DEF Discard, Move
  <2>9. CASE RouteRetry(w)
    BY <2>9 DEF RouteRetry, RenewedRow, Move
  <2>10. CASE RouteDead(w)
    BY <2>10 DEF RouteDead, Releasable, ReleasedRow, Move
  <2>11. CASE ProduceRetry(w)
    BY <2>11 DEF ProduceRetry, Move
  <2>12. CASE CommitOffset(w)
    BY <2>12 DEF CommitOffset, Idle
  <2>13. CASE Absorb(w)
    BY <2>13 DEF Absorb, Idle
  <2>14. CASE Heartbeat(w)
    BY <2>14 DEF Heartbeat, RenewedRow
  <2> QED BY <1>7, <2>1, <2>2, <2>3, <2>4, <2>5, <2>6, <2>7, <2>8, <2>9, <2>10, <2>11,
    <2>12, <2>13, <2>14
    DEF WorkerStep
<1>8. ASSUME NEW w \in Workers, WorkerFault(w) PROVE DropsOld'
  <2>1. CASE FailTerminal(w)
    <3>1. AfterRefusal(run[w].pc) \subseteq {"discard", "done"}
      BY DEF AfterRefusal
    <3>2. PICK stage \in {"discard", "done"} : Stop(w, stage)
      BY <2>1, <3>1 DEF FailTerminal
    <3>3. run'[w].pc # "drop" /\ \A v \in Workers \ {w} : run'[v] = run[v]
      BY <3>2, StopFields
    <3> QED BY <3>3
  <2>2. CASE FailRetryable(w)
    BY <2>2 DEF FailRetryable, Stop
  <2>3. CASE FailUnexpected(w)
    BY <2>3 DEF FailUnexpected, AbandonedRow
  <2>4. CASE ClaimRaises(w)
    BY <2>4 DEF ClaimRaises
  <2>5. CASE Raise(w)
    BY <2>5 DEF Raise, Move
  <2>6. CASE Crash(w)
    BY <2>6 DEF Crash, Idle
  <2>7. CASE HeartbeatFails(w)
    BY <2>7 DEF HeartbeatFails
  <2>8. CASE Rebalance(w)
    BY <2>8 DEF Rebalance
  <2> QED BY <1>8, <2>1, <2>2, <2>3, <2>4, <2>5, <2>6, <2>7, <2>8
    DEF WorkerFault
<1> QED BY <1>1, <1>2, <1>3, <1>4, <1>5, <1>6, <1>7, <1>8, RunWriters

\* A row nobody created has no owner.
Unclaimed == row.status = "absent" => row.owner = None

\* Only a row that exists is claimed.
LEMMA UnclaimedNext ==
    ASSUME TypeInv, Unclaimed, [Next]_vars
    PROVE  Unclaimed'
<1> USE NoneAssumption DEF TypeInv, TypeOK, Unclaimed, Project, Live, Owns, kafka
<1>1. CASE row' = row
  BY <1>1
<1>2. CASE Create
  BY <1>2 DEF Create, StatusRow
<1>3. CASE Reindex
  BY <1>3 DEF Reindex
<1>4. CASE DeleteCommit
  BY <1>4 DEF DeleteCommit
<1>5. CASE LeaseExpires
  BY <1>5 DEF LeaseExpires
<1>6. CASE LeaseOutrun
  BY <1>6 DEF LeaseOutrun
<1>7. ASSUME NEW w \in Workers, WritesRow(w) PROVE Unclaimed'
  <2>1. CASE Claim(w)
    BY <2>1 DEF Claim, ClaimedRow, Claimable
  <2>2. CASE \E c \in Commits : CloneDone(w, c)
    BY <2>2 DEF CloneDone, AdvancedRow, StatusRow
  <2>3. CASE ReleaseReady(w)
    <3>1. row' = row \/ row'.status = "ready"
      BY <2>3 DEF ReleaseReady, ReleasedRow
    <3> QED BY <3>1
  <2>4. CASE RouteRetry(w)
    BY <2>4 DEF RouteRetry, RenewedRow
  <2>5. CASE RouteDead(w)
    BY <2>5 DEF RouteDead, Releasable, ReleasedRow
  <2>6. CASE Heartbeat(w)
    BY <2>6 DEF Heartbeat, RenewedRow
  <2>7. CASE FailTerminal(w)
    BY <2>7 DEF FailTerminal, Releasable, ReleasedRow
  <2>8. CASE FailUnexpected(w)
    BY <2>8 DEF FailUnexpected, AbandonedRow
  <2>9. CASE Crash(w)
    BY <2>9 DEF Crash
  <2> QED BY <1>7, <2>1, <2>2, <2>3, <2>4, <2>5, <2>6, <2>7, <2>8, <2>9
    DEF WritesRow
<1> QED BY <1>1, <1>2, <1>3, <1>4, <1>5, <1>6, <1>7, RowWriters

\* The slot of this generation holds the commit's chunk, or what a stale worker wrote.
Has(g, s, c) == \E p \in points : p.gen = g /\ p.slot = s /\ (p.commit = c \/ p.late)

\* What an upsert leaves in a slot: the new point in its own, the old ones elsewhere.
LEMMA UpsertKeeps ==
    ASSUME NEW q, NEW g, NEW s, NEW c, Has(g, s, c), points' = Upserted(q),
           q.gen = g /\ q.slot = s => q.commit = c \/ q.late
    PROVE  Has(g, s, c)'
<1>1. CASE q.gen = g /\ q.slot = s
  BY <1>1 DEF Has, Upserted
<1>2. CASE ~(q.gen = g /\ q.slot = s)
  <2>1. PICK p \in points : p.gen = g /\ p.slot = s /\ (p.commit = c \/ p.late)
    BY DEF Has
  <2>2. p \in points'
    BY <1>2, <2>1 DEF Upserted
  <2> QED BY <2>1, <2>2 DEF Has
<1> QED BY <1>1, <1>2

\* While the project lives and no deletion has reached the vector store, no step loses
\* a point of the served generation or of a newer one, and only a stale worker may
\* change the commit it is of -- unless the owner is writing another there.
LEMMA KeepsPoints ==
    ASSUME TypeInv, DropsOld, [Next]_vars, Live', ~del'.wiped,
           NEW g \in Nat, g >= row.gen, NEW s, NEW c, Has(g, s, c),
           \A v \in Workers : Owns(v) /\ run[v].pc = "index" /\ run[v].gen + 1 = g
                                => run[v].commit = c
    PROVE  Has(g, s, c)'
<1> USE DEF TypeInv, TypeOK, kafka
<1>1. CASE points' = points
  BY <1>1 DEF Has
<1>2. CASE DeleteWipe
  BY <1>2 DEF DeleteWipe
<1>3. ASSUME NEW w \in Workers, WritesPoints(w) PROVE Has(g, s, c)'
  <2>1. CASE Flush(w)
    <3>1. PICK t \in run[w].todo : run[w].pc = "index" /\ points' = Upserted(Chunk(w, t))
      BY <2>1 DEF Flush
    <3> DEFINE q == Chunk(w, t)
    <3>2. q.gen = g /\ q.slot = s => q.commit = c \/ q.late
      BY <3>1 DEF Chunk
    <3> QED BY <3>1, <3>2, UpsertKeeps
  <2>2. CASE DropSuperseded(w)
    <3>1. run[w].gen < g
      BY <2>2 DEF DropSuperseded, DropsOld, Job, Project
    <3>2. PICK p \in points : p.gen = g /\ p.slot = s /\ (p.commit = c \/ p.late)
      BY DEF Has
    <3>3. p \in points'
      BY <2>2, <3>1, <3>2 DEF DropSuperseded, Generation, Job
    <3> QED BY <3>2, <3>3 DEF Has
  <2>3. CASE Discard(w)
    BY <2>3 DEF Discard, Live, Has
  <2> QED BY <1>3, <2>1, <2>2, <2>3 DEF WritesPoints
<1> QED BY <1>1, <1>2, <1>3, PointWriters

\* Where a run in its index stage comes from: it was there before, it has just cloned,
\* or it has flushed one more batch.
LEMMA IndexStep ==
    ASSUME TypeInv, [Next]_vars, NEW w \in Workers, run'[w].pc = "index", row'.owner = w
    PROVE  \/ run'[w].todo = ChunksOf[run'[w].commit]
           \/ /\ run[w].pc = "index" /\ row.owner = w /\ run'[w].commit = run[w].commit
              /\ run'[w].todo = run[w].todo \/ Flush(w)
<1> DEFINE Goal == \/ run'[w].todo = ChunksOf[run'[w].commit]
                   \/ /\ run[w].pc = "index" /\ row.owner = w
                      /\ run'[w].commit = run[w].commit
                      /\ run'[w].todo = run[w].todo \/ Flush(w)
<1> SUFFICES Goal
  OBVIOUS
<1> USE NoneAssumption DEF TypeInv, TypeOK, Job, Project, Owns, kafka
<1>1. CASE UNCHANGED <<row, run>>
  BY <1>1
<1>2. CASE Create
  BY <1>2 DEF Create, StatusRow
<1>3. CASE Reindex
  BY <1>3 DEF Reindex
<1>4. CASE DeleteCommit
  BY <1>4 DEF DeleteCommit
<1>5. CASE LeaseExpires
  BY <1>5 DEF LeaseExpires
<1>6. CASE LeaseOutrun
  BY <1>6 DEF LeaseOutrun
<1>7. ASSUME NEW v \in Workers, WorkerStep(v) PROVE Goal
  <2>1. CASE Claim(v)
    BY <2>1 DEF Claim, ClaimedRow, Claimable, Idle
  <2>2. CASE Skip(v)
    BY <2>2 DEF Skip, Idle
  <2>3. CASE Load(v)
    <3>1. run'[v].pc # "index" /\ \A u \in Workers \ {v} : run'[u] = run[u]
      BY <2>3, LoadFields
    <3> QED BY <2>3, <3>1 DEF Load
  <2>4. CASE \E c \in Commits : CloneDone(v, c)
    BY <2>4 DEF CloneDone, AdvancedRow, StatusRow
  <2>5. CASE Flush(v)
    <3>1. PICK t \in run[v].todo : run' = [run EXCEPT ![v].todo = @ \ {t}]
      BY <2>5 DEF Flush
    <3>2. row' = row /\ run[v].pc = "index"
      BY <2>5 DEF Flush
    <3>3. /\ run'[v].pc = run[v].pc /\ run'[v].commit = run[v].commit
          /\ \A u \in Workers \ {v} : run'[u] = run[u]
      BY <3>1
    <3> QED BY <2>5, <3>2, <3>3
  <2>6. CASE ReleaseReady(v)
    <3>1. run'[v].pc # "index" /\ \A u \in Workers \ {v} : run'[u] = run[u]
      BY <2>6, RunEnds
    <3>2. row' = row \/ row'.owner = None
      BY <2>6, OutcomeWritten
    <3> QED BY <3>1, <3>2
  <2>7. CASE DropSuperseded(v)
    BY <2>7 DEF DropSuperseded, Move
  <2>8. CASE Discard(v)
    BY <2>8 DEF Discard, Move
  <2>9. CASE RouteRetry(v)
    BY <2>9 DEF RouteRetry, RenewedRow, Move
  <2>10. CASE RouteDead(v)
    BY <2>10 DEF RouteDead, Releasable, ReleasedRow, Move
  <2>11. CASE ProduceRetry(v)
    BY <2>11 DEF ProduceRetry, Move
  <2>12. CASE CommitOffset(v)
    BY <2>12 DEF CommitOffset, Idle
  <2>13. CASE Absorb(v)
    BY <2>13 DEF Absorb, Idle
  <2>14. CASE Heartbeat(v)
    BY <2>14 DEF Heartbeat, RenewedRow
  <2> QED BY <1>7, <2>1, <2>2, <2>3, <2>4, <2>5, <2>6, <2>7, <2>8, <2>9, <2>10, <2>11,
    <2>12, <2>13, <2>14
    DEF WorkerStep
<1>8. ASSUME NEW v \in Workers, WorkerFault(v) PROVE Goal
  <2>1. CASE FailTerminal(v)
    <3>1. run'[v].pc # "index" /\ \A u \in Workers \ {v} : run'[u] = run[u]
      BY <2>1, RunEnds
    <3>2. row' = row \/ row'.owner = None
      BY <2>1, OutcomeWritten
    <3> QED BY <3>1, <3>2
  <2>2. CASE FailRetryable(v)
    BY <2>2 DEF FailRetryable, Stop
  <2>3. CASE FailUnexpected(v)
    <3>1. run'[v].pc = "route" /\ \A u \in Workers \ {v} : run'[u] = run[u]
      BY <2>3 DEF FailUnexpected
    <3>2. row'.owner = row.owner
      BY <2>3 DEF FailUnexpected, AbandonedRow
    <3> QED BY <3>1, <3>2
  <2>4. CASE ClaimRaises(v)
    BY <2>4 DEF ClaimRaises
  <2>5. CASE Raise(v)
    BY <2>5 DEF Raise, Move
  <2>6. CASE Crash(v)
    BY <2>6 DEF Crash, Idle
  <2>7. CASE HeartbeatFails(v)
    BY <2>7 DEF HeartbeatFails
  <2>8. CASE Rebalance(v)
    BY <2>8 DEF Rebalance
  <2> QED BY <1>8, <2>1, <2>2, <2>3, <2>4, <2>5, <2>6, <2>7, <2>8
    DEF WorkerFault
<1> QED BY <1>1, <1>2, <1>3, <1>4, <1>5, <1>6, <1>7, <1>8, RunWriters

\* A project becomes served only by a flip; a served one keeps its pointer and commit
\* until the next.
LEMMA ReadyStep ==
    ASSUME TypeInv, [Next]_vars, row'.status = "ready"
    PROVE  \/ row.status = "ready" /\ row'.gen = row.gen /\ row'.commit = row.commit
           \/ \E w \in Workers : ReleaseReady(w) /\ Releasable(w)
<1> DEFINE Goal == \/ row.status = "ready" /\ row'.gen = row.gen /\ row'.commit = row.commit
                   \/ \E w \in Workers : ReleaseReady(w) /\ Releasable(w)
<1> SUFFICES Goal
  OBVIOUS
<1> USE DEF TypeInv, TypeOK, Project, kafka
<1>1. CASE row' = row
  BY <1>1
<1>2. CASE Create
  BY <1>2 DEF Create, StatusRow
<1>3. CASE Reindex
  BY <1>3 DEF Reindex
<1>4. CASE DeleteCommit
  BY <1>4 DEF DeleteCommit
<1>5. CASE LeaseExpires
  BY <1>5 DEF LeaseExpires
<1>6. CASE LeaseOutrun
  BY <1>6 DEF LeaseOutrun
<1>7. ASSUME NEW w \in Workers, WritesRow(w) PROVE Goal
  <2>1. CASE Claim(w)
    BY <2>1 DEF Claim, ClaimedRow, Claimable
  <2>2. CASE \E c \in Commits : CloneDone(w, c)
    BY <2>2 DEF CloneDone, AdvancedRow, StatusRow
  <2>3. CASE ReleaseReady(w)
    BY <2>3 DEF ReleaseReady
  <2>4. CASE RouteRetry(w)
    BY <2>4 DEF RouteRetry, RenewedRow
  <2>5. CASE RouteDead(w)
    BY <2>5 DEF RouteDead, Releasable, ReleasedRow
  <2>6. CASE Heartbeat(w)
    BY <2>6 DEF Heartbeat, RenewedRow
  <2>7. CASE FailTerminal(w)
    BY <2>7 DEF FailTerminal, Releasable, ReleasedRow
  <2>8. CASE FailUnexpected(w)
    BY <2>8 DEF FailUnexpected, AbandonedRow
  <2>9. CASE Crash(w)
    BY <2>9 DEF Crash
  <2> QED BY <1>7, <2>1, <2>2, <2>3, <2>4, <2>5, <2>6, <2>7, <2>8, <2>9
    DEF WritesRow
<1> QED BY <1>1, <1>2, <1>3, <1>4, <1>5, <1>6, <1>7, RowWriters

\* A project stays alive only if it was, or is created now.
LEMMA LiveStep ==
    ASSUME TypeInv, [Next]_vars, Live'
    PROVE  Live \/ row.status = "absent"
<1>1. row.deleted => row'.deleted
  BY DeletedStep
<1> QED BY <1>1 DEF Live

\* A wipe is never forgotten.
LEMMA WipedStep ==
    ASSUME TypeInv, [Next]_vars, ~del'.wiped
    PROVE  ~del.wiped
<1>1. CASE UNCHANGED del
  BY <1>1
<1>2. CASE DeleteStep
  BY <1>2 DEF DeleteStep, DeleteRead, DeleteFlush, DeleteWipe, DeleteCommit, DeleteAbort,
              TypeInv, TypeOK, Deletion
<1>3. UNCHANGED del \/ DeleteStep
  <2>1. CASE Create \/ Reindex \/ Publish \/ PublishLost \/ EvalStep
             \/ LeaseExpires \/ LeaseOutrun \/ Sweep \/ UNCHANGED vars
    BY <2>1 DEF Create, Reindex, Publish, PublishLost, EvalStep, StartEvalRun,
                ReadEvalGeneration, FinishEvalRun, LeaseExpires, LeaseOutrun, Sweep, vars
  <2>2. ASSUME NEW w \in Workers, WorkerStep(w) PROVE UNCHANGED del
    BY <2>2 DEF WorkerStep, Claim, Skip, Load, CloneDone, Flush, ReleaseReady,
                DropSuperseded, Discard, RouteRetry, RouteDead, ProduceRetry, CommitOffset,
                Absorb, Heartbeat
  <2>3. ASSUME NEW w \in Workers, WorkerFault(w) PROVE UNCHANGED del
    BY <2>3 DEF WorkerFault, FailTerminal, FailRetryable, FailUnexpected, ClaimRaises,
                Raise, Crash, HeartbeatFails, Rebalance
  <2>4. CASE \E m \in retry : RetryDue(m) \/ RetryDoubled(m) \/ RetryLost(m)
    BY <2>4 DEF RetryDue, RetryDoubled, RetryLost
  <2> QED BY <2>1, <2>2, <2>3, <2>4 DEF Next
<1> QED BY <1>1, <1>2, <1>3

\* What the owner has flushed so far is in the generation after the served one.
Written ==
    Live /\ ~del.wiped =>
        \A w \in Workers : Owns(w) /\ run[w].pc = "index" =>
            \A s \in ChunksOf[run[w].commit] \ run[w].todo :
                Has(row.gen + 1, s, run[w].commit)

\* ServedIndexComplete, in terms of Has.
ServedHas ==
    Live /\ row.status = "ready" /\ ~del.wiped =>
        \A s \in ChunksOf[row.commit] : Has(row.gen, s, row.commit)

\* No step takes from the owner what it has flushed.
LEMMA WrittenNext ==
    ASSUME TypeInv, Fresh, DropsOld, Unclaimed, Written, [Next]_vars
    PROVE  Written'
<1> SUFFICES ASSUME Live', ~del'.wiped, NEW w \in Workers, Owns(w)', run'[w].pc = "index",
                    NEW s \in ChunksOf[run'[w].commit] \ run'[w].todo
             PROVE  Has(row.gen + 1, s, run[w].commit)'
  BY DEF Written
<1>1. /\ run[w].pc = "index" /\ row.owner = w /\ run'[w].commit = run[w].commit
      /\ run'[w].todo = run[w].todo \/ Flush(w)
  BY IndexStep DEF Owns
<1>2. row.gen \in Nat /\ row'.gen = row.gen
  BY PointerStep, NoneAssumption DEF Owns, TypeInv, TypeOK, Project
<1>3. Live /\ ~del.wiped
  <2>1. row.owner # None
    BY <1>1, NoneAssumption
  <2> QED BY <2>1, LiveStep, WipedStep DEF Unclaimed
<1> DEFINE c == run[w].commit
<1>4. ASSUME Has(row.gen + 1, s, c) PROVE Has(row.gen + 1, s, run[w].commit)'
  <2>1. row.gen + 1 \in Nat /\ row.gen + 1 >= row.gen
    BY <1>2
  <2>2. \A v \in Workers :
           Owns(v) /\ run[v].pc = "index" /\ run[v].gen + 1 = row.gen + 1
               => run[v].commit = c
    BY <1>1 DEF Owns
  <2>3. \E p \in points' : p.gen = row.gen + 1 /\ p.slot = s /\ (p.commit = c \/ p.late)
    BY <1>4, <2>1, <2>2, KeepsPoints DEF Has
  <2> QED BY <1>1, <1>2, <2>3 DEF Has
<1>5. CASE s \notin run[w].todo
  <2>1. Has(row.gen + 1, s, c)
    BY <1>1, <1>3, <1>5 DEF Written, Owns
  <2> QED BY <1>4, <2>1
<1>6. CASE s \in run[w].todo
  <2>1. PICK t \in run[w].todo :
          /\ points' = Upserted(Chunk(w, t))
          /\ run' = [run EXCEPT ![w].todo = @ \ {t}]
    BY <1>1, <1>6 DEF Flush
  <2>2. s = t
    BY <1>6, <2>1 DEF TypeInv, TypeOK, Job
  <2>3. run[w].gen = row.gen
    BY <1>1 DEF Fresh, Owns
  <2> DEFINE q == Chunk(w, t)
  <2>4. q \in points' /\ q.gen = row'.gen + 1 /\ q.slot = s /\ q.commit = run'[w].commit
    BY <1>1, <1>2, <2>1, <2>2, <2>3 DEF Upserted, Chunk
  <2> QED BY <2>4 DEF Has
<1> QED BY <1>5, <1>6

\* A flip serves a generation its owner has written out, and no step thins it after.
LEMMA ServedNext ==
    ASSUME TypeInv, Fresh, DropsOld, Unclaimed, Written, ServedHas, [Next]_vars
    PROVE  ServedHas'
<1> SUFFICES ASSUME Live', row'.status = "ready", ~del'.wiped,
                    NEW s \in ChunksOf[row'.commit]
             PROVE  Has(row.gen, s, row.commit)'
  BY DEF ServedHas
<1>0. row.gen \in Nat
  BY DEF TypeInv, TypeOK, Project
<1>1. CASE row.status = "ready" /\ row'.gen = row.gen /\ row'.commit = row.commit
  <2>1. Live /\ ~del.wiped
    BY <1>1, LiveStep, WipedStep
  <2> DEFINE c == row.commit
  <2>2. Has(row.gen, s, c)
    BY <1>1, <2>1 DEF ServedHas
  <2>3. \A v \in Workers :
           Owns(v) /\ run[v].pc = "index" /\ run[v].gen + 1 = row.gen => run[v].commit = c
    BY <1>0 DEF Fresh
  <2>4. \E p \in points' : p.gen = row.gen /\ p.slot = s /\ (p.commit = c \/ p.late)
    BY <1>0, <2>2, <2>3, KeepsPoints DEF Has
  <2> QED BY <1>1, <2>4 DEF Has
<1>2. ASSUME NEW w \in Workers, ReleaseReady(w), Releasable(w)
      PROVE  Has(row.gen, s, row.commit)'
  <2>1. /\ run[w].pc = "index" /\ run[w].todo = {} /\ Owns(w) /\ points' = points
        /\ del' = del
    BY <1>2 DEF ReleaseReady, Releasable
  <2>2. row'.gen = run[w].gen + 1 /\ row'.commit = run[w].commit /\ run[w].gen = row.gen
    BY <1>2, <2>1, Flipped DEF Fresh
  <2>3. Live
    BY <2>1, LiveStep, NoneAssumption DEF Unclaimed, Owns
  <2>4. Has(row.gen + 1, s, run[w].commit)
    BY <2>1, <2>2, <2>3 DEF Written
  <2> QED BY <2>1, <2>2, <2>4 DEF Has
<1> QED BY <1>1, <1>2, ReadyStep

\* A run in flight when the project is deleted never writes its outcome.
THEOREM DeletedFinal == Spec => DeletedRowIsFinal
<1> DEFINE Final == row.deleted => /\ row'.deleted /\ row'.gen = row.gen
                                   /\ row'.collection = row.collection
                                   /\ row'.status = "ready" => row.status = "ready"
<1>1. TypeInv /\ [Next]_vars => [Final]_vars
  BY DeletedStep
<1> QED BY <1>1, TypeInit, TypeNext, PTL DEF Spec, DeletedRowIsFinal

\* However many workers have lost their leases and are still writing and deleting, every
\* chunk slot of the commit a served project names holds that commit's chunk, or one that
\* such a worker wrote there.
THEOREM ServedSafe == Spec => []ServedIndexComplete
<1> DEFINE Inv == Fresh /\ DropsOld /\ Unclaimed /\ Written /\ ServedHas
<1>1. Init => Inv
  BY DEF Init, Fresh, DropsOld, Unclaimed, Written, ServedHas, Live, Idle
<1>2. TypeInv /\ Inv /\ [Next]_vars => Inv'
  BY FreshNext, DropsOldNext, UnclaimedNext, WrittenNext, ServedNext
<1>3. Inv => ServedIndexComplete
  BY DEF ServedHas, ServedIndexComplete, Has, Generation
<1> QED BY <1>1, <1>2, <1>3, TypeInit, TypeNext, PTL DEF Spec

\* No point was written by a worker that had lost the project.
OnTime == \A p \in points : ~p.late

\* A worker in a run that keeps renewing owns the row, so what it writes is on time.
LEMMA OnTimeNext ==
    ASSUME TypeInv, Beats, OnTime, [Next]_vars
    PROVE  OnTime'
<1>1. CASE points' = points
  BY <1>1 DEF OnTime
<1>2. CASE DeleteWipe
  BY <1>2 DEF DeleteWipe, OnTime
<1>3. ASSUME NEW w \in Workers, WritesPoints(w) PROVE OnTime'
  <2>1. CASE Flush(w)
    <3>1. PICK s \in run[w].todo : run[w].pc = "index" /\ points' = Upserted(Chunk(w, s))
      BY <2>1 DEF Flush
    <3>2. ~Chunk(w, s).late
      BY <3>1 DEF Beats, InRun, Chunk
    <3> QED BY <3>1, <3>2 DEF OnTime, Upserted
  <2>2. CASE DropSuperseded(w)
    BY <2>2 DEF DropSuperseded, OnTime
  <2>3. CASE Discard(w)
    BY <2>3 DEF Discard, OnTime
  <2> QED BY <1>3, <2>1, <2>2, <2>3 DEF WritesPoints
<1> QED BY <1>1, <1>2, <1>3, PointWriters

\* A served project answers from the commit it names.
ServedIndexExact ==
    Live /\ row.status = "ready" /\ ~del.wiped =>
        \A s \in ChunksOf[row.commit] :
            \E p \in Generation(row.gen) : p.slot = s /\ p.commit = row.commit

\* With heartbeats that keep up, every chunk slot of the commit a served project names
\* holds that commit's chunk, whatever fails, is retried or finds the branch moved.
THEOREM ServedExact ==
    ASSUME ~HeartbeatMayFail
    PROVE  Spec => []ServedIndexExact
<1> DEFINE Inv == Fresh /\ DropsOld /\ Unclaimed /\ Written /\ ServedHas
           Timely == Beats /\ OnTime
<1>1. Init => Inv
  BY DEF Init, Fresh, DropsOld, Unclaimed, Written, ServedHas, Live, Idle
<1>2. TypeInv /\ Inv /\ [Next]_vars => Inv'
  BY FreshNext, DropsOldNext, UnclaimedNext, WrittenNext, ServedNext
<1>3. Init => Timely
  BY DEF Init, Beats, OnTime, InRun, Idle
<1>4. TypeInv /\ Timely /\ [Next]_vars => Timely'
  BY BeatsNext, OnTimeNext
<1>5. Inv /\ Timely => ServedIndexExact
  BY DEF ServedHas, ServedIndexExact, OnTime, Has, Generation
<1> QED BY <1>1, <1>2, <1>3, <1>4, <1>5, TypeInit, TypeNext, PTL DEF Spec

=============================================================================
