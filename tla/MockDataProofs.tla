--------------------------- MODULE MockDataProofs ---------------------------
(***************************************************************************)
(* What holds of MockData for every number of workers, users, jobs, change *)
(* sets, records, keys, proposals, turns, requests and faults.             *)
(***************************************************************************)
EXTENDS MockData, FiniteSetTheorems, TLAPS

-----------------------------------------------------------------------------
(* Type correctness *)

Budget == [requests : Nat, turns : Nat, faults : Nat]

\* A job past the claim knows its id, which a crash puts back on the topic.
Working == \A w \in Workers : run[w].pc # "idle" => run[w].job \in JobIds

Deciding(u) == req[u].pc \in {"apply", "discard"}

\* A decision in flight is about a change set that exists.
Decides ==
    \A u \in Users :
        Deciding(u) => req[u].set \in ChangeSets /\ sets[req[u].set].status # "absent"

TypeInv == TypeOK /\ Working /\ Decides

\* Every row the statements on mock_data_datasets leave behind is a row.
LEMMA RowTypes ==
    ASSUME row \in MockDataDataset
    PROVE  /\ \A w \in Workers, j \in JobIds : ClaimedRow(w, j) \in MockDataDataset
           /\ \A w \in Workers : RenewedRow(w) \in MockDataDataset
           /\ \A j \in JobIds \cup {None}, s \in MockDataDatasetStatus :
                ReleasedRow(j, s) \in MockDataDataset
           /\ \A a \in Nat : DeferredRow(a) \in MockDataDataset
           /\ MarkedInReview \in MockDataDataset
           /\ GetOrCreate \in MockDataDataset
           /\ \A s, b : SettledRow(s, b) \in MockDataDataset
<1>1. \A w \in Workers, j \in JobIds : ClaimedRow(w, j) \in MockDataDataset
  BY DEF ClaimedRow, MockDataDataset, MockDataDatasetStatus
<1>2. \A w \in Workers : RenewedRow(w) \in MockDataDataset
  BY DEF RenewedRow, MockDataDataset
<1>3. \A j \in JobIds \cup {None}, s \in MockDataDatasetStatus :
        ReleasedRow(j, s) \in MockDataDataset
  BY DEF ReleasedRow, MockDataDataset
<1>4. \A a \in Nat : DeferredRow(a) \in MockDataDataset
  BY DEF DeferredRow, MockDataDataset
<1>5. MarkedInReview \in MockDataDataset
  BY DEF MarkedInReview, MockDataDataset, MockDataDatasetStatus
<1>6. GetOrCreate \in MockDataDataset
  BY DEF GetOrCreate, MockDataDataset, MockDataDatasetStatus
<1>7. \A s, b : SettledRow(s, b) \in MockDataDataset
  BY DEF SettledRow, MockDataDataset, MockDataDatasetStatus
<1> QED BY <1>1, <1>2, <1>3, <1>4, <1>5, <1>6, <1>7

\* One worker's job is replaced by another well-typed one.
LEMMA RunTypes ==
    ASSUME run \in [Workers -> Job], Working,
           NEW w \in Workers, NEW r \in Job,
           r.pc = "idle" \/ r.job \in JobIds,
           run' = [run EXCEPT ![w] = r]
    PROVE  run' \in [Workers -> Job] /\ Working'
  BY DEF Working

\* A change of stage keeps the job.
LEMMA MoveTypes ==
    ASSUME run \in [Workers -> Job], Working, NEW w \in Workers, run[w].pc # "idle",
           NEW stage \in {"produce", "done"}, Move(w, stage)
    PROVE  run' \in [Workers -> Job] /\ Working'
<1> DEFINE moved == [run[w] EXCEPT !.pc = stage]
<1>1. moved \in Job /\ moved.job \in JobIds
  BY DEF Job, Working
<1>2. run' = [run EXCEPT ![w] = moved]
  BY DEF Move
<1> QED BY <1>1, <1>2, RunTypes

\* So does a worker that lets its record go.
LEMMA IdleTypes ==
    ASSUME run \in [Workers -> Job], Working, NEW w \in Workers,
           run' = [run EXCEPT ![w] = Idle]
    PROVE  run' \in [Workers -> Job] /\ Working'
<1>1. Idle \in Job /\ Idle.pc = "idle"
  BY DEF Idle, Job
<1> QED BY <1>1, RunTypes

\* What a stored proposal is, and that it was nobody's before.
LEMMA Stored ==
    ASSUME sets \in [ChangeSets -> MockDataChangeSet],
           NEW c \in ChangeSets, NEW proposed \in Proposals,
           NEW origin \in {"generation", "chat"}, Store(c, origin, proposed)
    PROVE  /\ sets' \in [ChangeSets -> MockDataChangeSet]
           /\ sets[c].status = "absent" /\ sets'[c].status = "pending"
           /\ ~sets'[c].deleted /\ sets'[c].origin = origin
           /\ \A b \in ChangeSets : b # c => sets'[b] = sets[b]
<1> DEFINE stored == [status |-> "pending", deleted |-> FALSE, origin |-> origin,
                      operations |-> StoredOperations(proposed)]
<1>1. stored \in MockDataChangeSet
  BY MockDataAssumption DEF MockDataChangeSet, StoredOperations
<1>2. sets' = [sets EXCEPT ![c] = stored] /\ sets[c].status = "absent"
  BY DEF Store
<1> QED BY <1>1, <1>2

\* No decision in flight loses its change set to a stored proposal.
LEMMA StoreTypes ==
    ASSUME sets \in [ChangeSets -> MockDataChangeSet], Decides, req' = req,
           NEW c \in ChangeSets, NEW proposed \in Proposals,
           NEW origin \in {"generation", "chat"}, Store(c, origin, proposed)
    PROVE  sets' \in [ChangeSets -> MockDataChangeSet] /\ Decides'
  BY Stored DEF Decides, Deciding

\* A request of one kind leaves a budget.
LEMMA SpendTypes ==
    ASSUME budget \in Budget, NEW kind \in {"requests", "turns", "faults"}, Spend(kind)
    PROVE  budget' \in Budget
  BY DEF Spend, Budget

LEMMA NothingTypes == NoRecord \in MockDataRecord /\ NoRequest \in Request
<1>1. NoRecord \in MockDataRecord
  BY DEF NoRecord, MockDataRecord
<1> QED BY <1>1 DEF NoRequest, Request, MockDataDatasetStatus

\* The initial state is well typed.
LEMMA TypeInit == Init => TypeInv
<1> SUFFICES ASSUME Init PROVE TypeInv
  OBVIOUS
<1>1. row \in MockDataDataset
  BY DEF Init, MockDataDataset, MockDataDatasetStatus
<1>2. sets \in [ChangeSets -> MockDataChangeSet]
  BY DEF Init, MockDataChangeSet
<1>3. records \in [Records -> MockDataRecord]
  BY NothingTypes DEF Init
<1>4. req \in [Users -> Request] /\ Decides
  BY NothingTypes DEF Init, NoRequest, Decides, Deciding
<1>5. run \in [Workers -> Job] /\ Working
  BY DEF Init, Job, Idle, Working
<1>6. /\ turns \in Nat /\ topic \in SUBSET MockDataJobMessage
      /\ retry \in SUBSET MockDataJobMessage /\ outbox \in Nat
  BY DEF Init
<1>7. budget \in Budget
  BY MockDataAssumption DEF Init, Budget
<1> QED BY <1>1, <1>2, <1>3, <1>4, <1>5, <1>6, <1>7 DEF TypeInv, TypeOK, Budget

\* A decision recorded on an existing change set leaves change sets, and leaves the
\* other requests as they were but for having been crossed.
LEMMA DecidedTypes ==
    ASSUME TypeInv, NEW u \in Users, Deciding(u),
           NEW decision \in {"applied", "discarded"}, Decided(u, decision)
    PROVE  /\ sets' \in [ChangeSets -> MockDataChangeSet] /\ req' \in [Users -> Request]
           /\ Decides'
           /\ \A c \in ChangeSets :
                /\ c # req[u].set => sets'[c] = sets[c]
                /\ sets'[c].status = IF c = req[u].set THEN decision ELSE sets[c].status
                /\ sets'[c].deleted = sets[c].deleted /\ sets'[c].origin = sets[c].origin
                /\ sets'[c].operations = sets[c].operations
           /\ req'[u] = NoRequest
           /\ \A v \in Users \ {u} :
                /\ req'[v].pc = req[v].pc /\ req'[v].set = req[v].set
                /\ req'[v].seen = req[v].seen /\ req'[v].view = req[v].view
                /\ req[v].pc # "idle" => req'[v].crossed
<1> USE DEF TypeInv, TypeOK
<1> DEFINE decided == [sets[req[u].set] EXCEPT !.status = decision]
<1>0. req[u].set \in ChangeSets
  BY DEF Decides
<1>1. /\ decided \in MockDataChangeSet /\ decided.status = decision
      /\ decided.deleted = sets[req[u].set].deleted
      /\ decided.origin = sets[req[u].set].origin
      /\ decided.operations = sets[req[u].set].operations
  BY <1>0 DEF MockDataChangeSet
<1>2. sets' = [sets EXCEPT ![req[u].set] = decided]
  BY DEF Decided
<1>3. /\ sets' \in [ChangeSets -> MockDataChangeSet]
      /\ \A c \in ChangeSets :
           /\ c # req[u].set => sets'[c] = sets[c]
           /\ sets'[c].status = IF c = req[u].set THEN decision ELSE sets[c].status
           /\ sets'[c].deleted = sets[c].deleted /\ sets'[c].origin = sets[c].origin
           /\ sets'[c].operations = sets[c].operations
  <2> HIDE DEF decided
  <2> QED BY <1>0, <1>1, <1>2
<1>4. req'[u] = NoRequest
  BY DEF Decided
<1>5. ASSUME NEW v \in Users \ {u}
      PROVE  /\ req'[v] \in Request
             /\ req'[v].pc = req[v].pc /\ req'[v].set = req[v].set
             /\ req'[v].seen = req[v].seen /\ req'[v].view = req[v].view
             /\ req[v].pc # "idle" => req'[v].crossed
  BY DEF Decided, Request
<1>6. req' \in [Users -> Request]
  BY <1>4, <1>5, NothingTypes DEF Decided
<1>7. Decides'
  BY <1>3, <1>4, <1>5 DEF Decides, Deciding, NoRequest
<1> QED BY <1>3, <1>4, <1>5, <1>6, <1>7

\* What an operation set leaves of a record is a record.
LEMMA AppliedTypes ==
    ASSUME records \in [Records -> MockDataRecord], NEW u \in Users, req[u] \in Request,
           req[u].set \in ChangeSets, NEW wanted, NEW new, NEW i \in Records
    PROVE  ApplyOne(u, wanted, new, i) \in MockDataRecord
<1>1. /\ records[i].state \in {"absent", "live", "deleted"}
      /\ records[i].fields \in [Keys -> ChangeSets \cup {None}]
  BY DEF MockDataRecord
<1>2. [k \in Keys |-> req[u].set] \in [Keys -> ChangeSets \cup {None}]
  OBVIOUS
<1>3. MergedFields(u, wanted, i) \in [Keys -> ChangeSets \cup {None}]
  <2>1. req[u].view[i].fields \in [Keys -> ChangeSets \cup {None}]
    BY DEF Request, MockDataRecord
  <2>2. \A k \in Keys : MergedFields(u, wanted, i)[k] \in ChangeSets \cup {None}
    BY <2>1 DEF MergedFields
  <2> QED BY <2>2 DEF MergedFields
<1>4. ApplyOne(u, wanted, new, i).state \in {"absent", "live", "deleted"}
  BY <1>1 DEF ApplyOne
<1>5. ApplyOne(u, wanted, new, i).fields \in [Keys -> ChangeSets \cup {None}]
  BY <1>1, <1>2, <1>3 DEF ApplyOne
<1> QED BY <1>4, <1>5 DEF ApplyOne, MockDataRecord

\* Every step keeps the types: one case per action, one step per variable it writes.
LEMMA TypeNext == TypeInv /\ [Next]_vars => TypeInv'
<1> SUFFICES ASSUME TypeInv, [Next]_vars PROVE TypeInv'
  OBVIOUS
<1> USE DEF TypeInv, TypeOK, data, queue, Budget
<1>1. ASSUME NEW u \in Users, RequestRead(u) PROVE TypeInv'
  <2> DEFINE asked == [NoRequest EXCEPT !.pc = "generate", !.seen = row.status]
  <2>1. asked \in Request /\ ~(asked.pc \in {"apply", "discard"})
    BY NothingTypes DEF Request, MockDataDataset
  <2>2. req' = [req EXCEPT ![u] = asked]
    BY <1>1 DEF RequestRead
  <2>3. req' \in [Users -> Request] /\ Decides'
    <3> HIDE DEF asked
    <3> QED BY <1>1, <2>1, <2>2 DEF RequestRead, Decides, Deciding
  <2>4. budget' \in Budget
    BY <1>1, SpendTypes DEF RequestRead
  <2> QED BY <1>1, <2>3, <2>4 DEF RequestRead, Working
<1>2. ASSUME NEW u \in Users, NEW c \in ChangeSets, RequirePending(u, c) PROVE TypeInv'
  <2>1. PICK decision \in {"apply", "discard"} :
          req' = [req EXCEPT ![u] = [NoRequest EXCEPT
                    !.pc = decision, !.set = c, !.seen = row.status,
                    !.view = [i \in Records |->
                                 IF \E o \in sets[c].operations : o.record = i
                                 THEN records[i] ELSE NoRecord]]]
    BY <1>2 DEF RequirePending
  <2>2. PICK view : view = [i \in Records |->
                              IF \E o \in sets[c].operations : o.record = i
                              THEN records[i] ELSE NoRecord]
    OBVIOUS
  <2>3. view \in [Records -> MockDataRecord]
    BY <2>2, NothingTypes
  <2> DEFINE asked == [NoRequest EXCEPT !.pc = decision, !.set = c, !.seen = row.status,
                                        !.view = view]
  <2>4. asked \in Request /\ asked.set = c
    BY <2>3, NothingTypes DEF Request, MockDataDataset
  <2>5. req' = [req EXCEPT ![u] = asked]
    BY <2>1, <2>2
  <2>6. sets[c].status # "absent" /\ sets' = sets
    BY <1>2 DEF RequirePending, Pending
  <2>7. req' \in [Users -> Request] /\ Decides'
    <3> HIDE DEF asked
    <3> QED BY <2>4, <2>5, <2>6 DEF Decides, Deciding
  <2> QED BY <1>2, <2>7 DEF RequirePending, Working
<1>3. ASSUME NEW u \in Users, RequestCommit(u) PROVE TypeInv'
  <2> DEFINE generating == [row EXCEPT !.status = "generating", !.aged = FALSE]
  <2>0. generating \in MockDataDataset
    BY DEF MockDataDataset, MockDataDatasetStatus
  <2>1. row' \in MockDataDataset /\ outbox' \in Nat
    <3>1. CASE req[u].seen = None /\ row.status # None
      <4>1. row' = row /\ outbox' = outbox
        BY <1>3, <3>1 DEF RequestCommit
      <4> QED BY <4>1
    <3>2. CASE ~(req[u].seen = None /\ row.status # None)
      <4>1. row' = generating /\ outbox' = outbox + 1
        BY <1>3, <3>2 DEF RequestCommit
      <4> HIDE DEF generating
      <4> QED BY <2>0, <4>1
    <3> QED BY <3>1, <3>2
  <2>2. req' \in [Users -> Request] /\ Decides'
    BY <1>3, NothingTypes DEF RequestCommit, NoRequest, Decides, Deciding
  <2> QED BY <1>3, <2>1, <2>2 DEF RequestCommit, Working
<1>4. ASSUME NEW u \in Users, Apply(u) PROVE TypeInv'
  <2>1. Deciding(u) /\ Decided(u, "applied")
    BY <1>4 DEF Apply, Deciding
  <2>2. /\ sets' \in [ChangeSets -> MockDataChangeSet] /\ req' \in [Users -> Request]
        /\ Decides'
    BY <2>1, DecidedTypes
  <2>3. records' \in [Records -> MockDataRecord]
    BY <1>4, <2>1, AppliedTypes DEF Apply, Decides
  <2>4. row' \in MockDataDataset
    BY <1>4, RowTypes DEF Apply
  <2> QED BY <1>4, <2>2, <2>3, <2>4 DEF Apply, Working
<1>5. ASSUME NEW u \in Users, Discard(u) PROVE TypeInv'
  <2>1. Deciding(u) /\ Decided(u, "discarded")
    BY <1>5 DEF Discard, Deciding
  <2>2. /\ sets' \in [ChangeSets -> MockDataChangeSet] /\ req' \in [Users -> Request]
        /\ Decides'
    BY <2>1, DecidedTypes
  <2>3. row' \in MockDataDataset
    BY <1>5, RowTypes DEF Discard
  <2> QED BY <1>5, <2>2, <2>3 DEF Discard, Working
<1>6. CASE PrepareTurn
  <2>1. row' \in MockDataDataset /\ turns' \in Nat /\ budget' \in Budget
    BY <1>6, RowTypes, SpendTypes DEF PrepareTurn
  <2> QED BY <1>6, <2>1 DEF PrepareTurn, Working, Decides, Deciding
<1>7. CASE FinaliseTurn
  <2>1. turns' \in Nat
    BY <1>7 DEF FinaliseTurn
  <2>2. row' \in MockDataDataset
    BY <1>7, RowTypes DEF FinaliseTurn
  <2>3. sets' \in [ChangeSets -> MockDataChangeSet] /\ Decides'
    <3>1. CASE sets' = sets
      BY <1>7, <3>1 DEF FinaliseTurn, Decides, Deciding
    <3>2. CASE \E c \in ChangeSets, proposed \in Proposals : Store(c, "chat", proposed)
      BY <1>7, <3>2, StoreTypes DEF FinaliseTurn
    <3> QED BY <1>7, <3>1, <3>2 DEF FinaliseTurn
  <2> QED BY <1>7, <2>1, <2>2, <2>3 DEF FinaliseTurn, Working
<1>8. ASSUME NEW i \in Records, DeleteRecord(i) PROVE TypeInv'
  <2>1. [records[i] EXCEPT !.state = "deleted"] \in MockDataRecord
    BY DEF MockDataRecord
  <2>2. records' \in [Records -> MockDataRecord]
    BY <1>8, <2>1 DEF DeleteRecord
  <2> QED BY <1>8, <2>2 DEF DeleteRecord, Working, Decides, Deciding
<1>9. CASE DeleteModule
  <2>1. row' \in MockDataDataset
    BY <1>9 DEF DeleteModule, MockDataDataset
  <2>2. ASSUME NEW c \in ChangeSets
        PROVE  /\ DeletedSets[c] \in MockDataChangeSet
               /\ DeletedSets[c].status = sets[c].status
    BY DEF DeletedSets, MockDataChangeSet
  <2>3. ASSUME NEW i \in Records PROVE DeletedRecords[i] \in MockDataRecord
    BY DEF DeletedRecords, MockDataRecord
  <2>4. sets' \in [ChangeSets -> MockDataChangeSet] /\ Decides'
    <3>1. sets' = DeletedSets /\ req' = req
      BY <1>9 DEF DeleteModule
    <3>2. DeletedSets = [c \in ChangeSets |-> DeletedSets[c]]
      BY DEF DeletedSets
    <3> QED BY <2>2, <3>1, <3>2 DEF Decides, Deciding
  <2>5. records' \in [Records -> MockDataRecord]
    <3>1. DeletedRecords = [i \in Records |-> DeletedRecords[i]]
      BY DEF DeletedRecords
    <3> QED BY <1>9, <2>3, <3>1 DEF DeleteModule
  <2> QED BY <1>9, <2>1, <2>4, <2>5 DEF DeleteModule, Working
<1>10. ASSUME NEW w \in Workers, WorkerStep(w) PROVE TypeInv'
  <2>1. CASE \E m \in topic : Claim(w, m)
    <3>1. PICK m \in topic : Claim(w, m)
      BY <2>1
    <3>2. m.job \in JobIds /\ m.attempt \in Nat
      BY DEF MockDataJobMessage
    <3> DEFINE claimed == [Idle EXCEPT !.pc = "running", !.job = m.job,
                                       !.attempt = m.attempt, !.beating = TRUE]
    <3>3. claimed \in Job /\ claimed.job \in JobIds
      BY <3>2 DEF Idle, Job
    <3>4. run' = [run EXCEPT ![w] = claimed]
      BY <3>1 DEF Claim
    <3>5. run' \in [Workers -> Job] /\ Working'
      BY <3>3, <3>4, RunTypes
    <3>6. row' \in MockDataDataset /\ topic' \in SUBSET MockDataJobMessage
      BY <3>1, <3>2, RowTypes DEF Claim
    <3> QED BY <3>1, <3>5, <3>6 DEF Claim, Decides, Deciding
  <2>2. CASE \E m \in topic : Skip(w, m)
    BY <2>2 DEF Skip, Working, Decides, Deciding
  <2>3. CASE Propose(w)
    <3> DEFINE proposed == [run[w] EXCEPT !.pc = "proposed", !.beating = FALSE]
    <3>1. proposed \in Job /\ proposed.job \in JobIds
      BY <2>3 DEF Propose, Job, Working
    <3>2. run' = [run EXCEPT ![w] = proposed]
      BY <2>3 DEF Propose
    <3>3. run' \in [Workers -> Job] /\ Working'
      BY <3>1, <3>2, RunTypes
    <3> QED BY <2>3, <3>3 DEF Propose, Decides, Deciding
  <2>4. CASE Finish(w)
    <3>1. row' \in MockDataDataset
      BY <2>4, RowTypes DEF Finish, Job, MockDataDatasetStatus
    <3>2. sets' \in [ChangeSets -> MockDataChangeSet] /\ Decides'
      <4>1. CASE Releasable(w)
        BY <2>4, <4>1, StoreTypes DEF Finish
      <4>2. CASE ~Releasable(w)
        BY <2>4, <4>2 DEF Finish, Decides, Deciding
      <4> QED BY <4>1, <4>2
    <3>3. run' \in [Workers -> Job] /\ Working'
      BY <2>4, MoveTypes DEF Finish
    <3> QED BY <2>4, <3>1, <3>2, <3>3 DEF Finish
  <2>5. CASE Fail(w)
    <3>1. row' \in MockDataDataset
      BY <2>5, RowTypes DEF Fail, Job, MockDataDatasetStatus
    <3>2. run' \in [Workers -> Job] /\ Working'
      BY <2>5, MoveTypes DEF Fail
    <3> QED BY <2>5, <3>1, <3>2 DEF Fail, Decides, Deciding
  <2>6. CASE Defer(w)
    <3>1. row' \in MockDataDataset
      BY <2>6, RowTypes DEF Defer, Job
    <3>2. run' \in [Workers -> Job] /\ Working'
      BY <2>6, MoveTypes DEF Defer
    <3> QED BY <2>6, <3>1, <3>2 DEF Defer, Decides, Deciding
  <2>7. CASE RouteFailure(w)
    <3>1. retry' \in SUBSET MockDataJobMessage
      BY <2>7 DEF RouteFailure, FreshIds, MockDataJobMessage, Job
    <3>2. run' \in [Workers -> Job] /\ Working'
      BY <2>7, MoveTypes DEF RouteFailure
    <3> QED BY <2>7, <3>1, <3>2 DEF RouteFailure, Decides, Deciding
  <2>8. CASE CommitOffset(w)
    <3>1. run' \in [Workers -> Job] /\ Working'
      BY <2>8, IdleTypes DEF CommitOffset
    <3> QED BY <2>8, <3>1 DEF CommitOffset, Decides, Deciding
  <2>9. CASE Renew(w)
    <3> DEFINE beat == [run[w] EXCEPT !.beating = Owns(w)]
    <3>1. beat \in Job /\ (beat.pc = "idle" \/ beat.job \in JobIds)
      BY DEF Job, Owns, Working
    <3>2. run' = [run EXCEPT ![w] = beat]
      BY <2>9 DEF Renew
    <3>3. run' \in [Workers -> Job] /\ Working'
      BY <3>1, <3>2, RunTypes
    <3>4. row' \in MockDataDataset
      BY <2>9, RowTypes DEF Renew
    <3> QED BY <2>9, <3>3, <3>4 DEF Renew, Decides, Deciding
  <2> QED BY <1>10, <2>1, <2>2, <2>3, <2>4, <2>5, <2>6, <2>7, <2>8, <2>9 DEF WorkerStep
<1>11. ASSUME NEW w \in Workers, WorkerFault(w) PROVE TypeInv'
  <2>1. budget' \in Budget
    BY <1>11, SpendTypes DEF WorkerFault, Raises, Crash, Redeliver
  <2>2. CASE \E error \in {"terminal", "retryable", "unexpected", "aborted"} : Raises(w, error)
    <3>1. PICK error \in {"terminal", "retryable", "unexpected", "aborted"} : Raises(w, error)
      BY <2>2
    <3> DEFINE raised == [run[w] EXCEPT !.pc = "handle", !.error = error, !.beating = FALSE]
    <3>2. raised \in Job /\ raised.job \in JobIds
      BY <3>1 DEF Raises, Job, Working
    <3>3. run' = [run EXCEPT ![w] = raised]
      BY <3>1 DEF Raises
    <3>4. run' \in [Workers -> Job] /\ Working'
      BY <3>2, <3>3, RunTypes
    <3> QED BY <2>1, <3>1, <3>4 DEF Raises, Decides, Deciding
  <2>3. CASE Crash(w)
    <3>1. row' \in MockDataDataset
      BY <2>3 DEF Crash, MockDataDataset
    <3>2. topic' \in SUBSET MockDataJobMessage
      BY <2>3 DEF Crash, MockDataJobMessage, Job, Working
    <3>3. run' \in [Workers -> Job] /\ Working'
      BY <2>3, IdleTypes DEF Crash
    <3> QED BY <2>1, <2>3, <3>1, <3>2, <3>3 DEF Crash, Decides, Deciding
  <2>4. CASE Redeliver(w)
    <3>1. topic' \in SUBSET MockDataJobMessage
      BY <2>4 DEF Redeliver, MockDataJobMessage, Job, Working
    <3> QED BY <2>1, <2>4, <3>1 DEF Redeliver, Working, Decides, Deciding
  <2> QED BY <1>11, <2>2, <2>3, <2>4 DEF WorkerFault
<1>12. CASE Publish \/ PublishLost
  <2>1. outbox' \in Nat /\ budget' \in Budget
    BY <1>12, SpendTypes DEF Publish, PublishLost
  <2>2. topic' \in SUBSET MockDataJobMessage
    BY <1>12 DEF Publish, PublishLost, FreshIds, MockDataJobMessage
  <2> QED BY <1>12, <2>1, <2>2 DEF Publish, PublishLost, Working, Decides, Deciding
<1>13. ASSUME NEW m \in retry, RetryDue(m) PROVE TypeInv'
  BY <1>13 DEF RetryDue, Working, Decides, Deciding
<1>14. CASE Expire \/ Age \/ Sweep
  <2>1. row' \in MockDataDataset
    BY <1>14 DEF Expire, Age, Sweep, MockDataDataset
  <2>2. outbox' \in Nat /\ budget' \in Budget
    BY <1>14, SpendTypes DEF Expire, Age, Sweep
  <2> QED BY <1>14, <2>1, <2>2 DEF Expire, Age, Sweep, Working, Decides, Deciding
<1>15. CASE UNCHANGED vars
  BY <1>15 DEF vars, Working, Decides, Deciding
<1> QED
  BY <1>1, <1>2, <1>3, <1>4, <1>5, <1>6, <1>7, <1>8, <1>9, <1>10, <1>11, <1>12, <1>13, <1>14,
     <1>15
     DEF Next, Progress

-----------------------------------------------------------------------------
(* A dataset in review has a proposal to review *)

\* A proposal whose reviewers all loaded the dataset as `review`, so that whichever of
\* them commits first also takes the dataset out of `review`.
Firm(c) ==
    Pending(c) /\ \A u \in Users : Deciding(u) /\ req[u].set = c => req[u].seen = "review"

InReview == Live /\ row.status = "review"

ReviewInv == InReview => \E c \in ChangeSets : Firm(c)

\* A step that leaves the proposals alone, starts no decision on a dataset that is not in
\* review, and does not put it in review.
LEMMA ReviewKept ==
    ASSUME ReviewInv, sets' = sets, InReview' => InReview,
           \A u \in Users :
             Deciding(u)' => \/ /\ Deciding(u) /\ req'[u].set = req[u].set
                                /\ req'[u].seen = req[u].seen
                             \/ req'[u].seen = row.status
    PROVE  ReviewInv'
<1> SUFFICES ASSUME InReview' PROVE \E c \in ChangeSets : Firm(c)'
  BY DEF ReviewInv
<1>1. PICK c \in ChangeSets : Firm(c)
  BY DEF ReviewInv
<1>2. Firm(c)'
  BY <1>1 DEF Firm, Pending, InReview
<1> QED BY <1>2

\* A new proposal is firm: nobody can be deciding it yet.
LEMMA ReviewStored ==
    ASSUME TypeInv, req' = req, NEW c \in ChangeSets, NEW proposed \in Proposals,
           NEW origin \in {"generation", "chat"}, Store(c, origin, proposed)
    PROVE  ReviewInv'
<1>1. sets[c].status = "absent" /\ sets'[c].status = "pending" /\ ~sets'[c].deleted
  BY Stored DEF TypeInv, TypeOK
<1>2. \A u \in Users : Deciding(u) => req[u].set # c
  BY <1>1 DEF TypeInv, Decides
<1>3. Firm(c)'
  BY <1>1, <1>2 DEF Firm, Pending, Deciding
<1> QED BY <1>3 DEF ReviewInv

\* A commit that leaves the dataset in review decided some other proposal.
LEMMA ReviewDecided ==
    ASSUME TypeInv, ReviewInv, NEW u \in Users, Deciding(u),
           NEW decision \in {"applied", "discarded"}, NEW recordsLeft \in BOOLEAN,
           Decided(u, decision), row' = SettledRow(req[u].seen, recordsLeft)
    PROVE  ReviewInv'
<1> SUFFICES ASSUME InReview' PROVE \E c \in ChangeSets : Firm(c)'
  BY DEF ReviewInv
<1>1. InReview /\ req[u].seen # "review"
  BY DEF TypeInv, TypeOK, InReview, Live, SettledRow, MockDataDataset
<1>2. PICK c \in ChangeSets : Firm(c)
  BY <1>1 DEF ReviewInv
<1>3. c # req[u].set
  BY <1>1, <1>2 DEF Firm
<1>4. sets'[c] = sets[c]
  BY <1>3, DecidedTypes
<1>5. ~Deciding(u)'
  BY DecidedTypes DEF Deciding, NoRequest
<1>6. \A x \in Users \ {u} : /\ Deciding(x)' <=> Deciding(x)
                             /\ req'[x].set = req[x].set /\ req'[x].seen = req[x].seen
  BY DecidedTypes DEF Deciding
<1>7. Firm(c)'
  BY <1>2, <1>4, <1>5, <1>6 DEF Firm, Pending
<1> QED BY <1>7

LEMMA ReviewNext == TypeInv /\ ReviewInv /\ [Next]_vars => ReviewInv'
<1> SUFFICES ASSUME TypeInv, ReviewInv, [Next]_vars PROVE ReviewInv'
  OBVIOUS
<1> USE DEF data, queue
<1> DEFINE Same == /\ sets' = sets /\ (InReview' => InReview)
                   /\ \A u \in Users :
                        Deciding(u)' => \/ /\ Deciding(u) /\ req'[u].set = req[u].set
                                           /\ req'[u].seen = req[u].seen
                                        \/ req'[u].seen = row.status
<1>0. Same => ReviewInv'
  BY ReviewKept
<1>K. ASSUME req' = req, sets' = sets, InReview' => InReview PROVE Same
  BY <1>K DEF Deciding
<1>1. ASSUME NEW u \in Users, RequestRead(u) PROVE ReviewInv'
  <2>1. \A x \in Users : Deciding(x)' => Deciding(x) /\ req'[x] = req[x]
    BY <1>1 DEF RequestRead, TypeInv, TypeOK, Deciding, NoRequest
  <2>2. row' = row /\ sets' = sets
    BY <1>1 DEF RequestRead
  <2>3. Same
    BY <2>1, <2>2 DEF InReview, Live
  <2> QED BY <1>0, <2>3
<1>2. ASSUME NEW u \in Users, NEW c \in ChangeSets, RequirePending(u, c) PROVE ReviewInv'
  <2>1. \A x \in Users \ {u} : req'[x] = req[x]
    BY <1>2 DEF RequirePending, TypeInv, TypeOK
  <2>2. req'[u].seen = row.status
    BY <1>2 DEF RequirePending, TypeInv, TypeOK, NoRequest
  <2>3. row' = row /\ sets' = sets
    BY <1>2 DEF RequirePending
  <2>4. Same
    BY <2>1, <2>2, <2>3 DEF InReview, Live, Deciding
  <2> QED BY <1>0, <2>4
<1>3. ASSUME NEW u \in Users, RequestCommit(u) PROVE ReviewInv'
  <2>1. \A x \in Users : Deciding(x)' => Deciding(x) /\ req'[x] = req[x]
    BY <1>3 DEF RequestCommit, TypeInv, TypeOK, Deciding, NoRequest
  <2>2. row' = row \/ row'.status = "generating"
    BY <1>3 DEF RequestCommit, TypeInv, TypeOK, MockDataDataset
  <2>3. sets' = sets
    BY <1>3 DEF RequestCommit
  <2>4. Same
    BY <2>1, <2>2, <2>3 DEF InReview, Live
  <2> QED BY <1>0, <2>4
<1>4. ASSUME NEW u \in Users, Apply(u) PROVE ReviewInv'
  <2>1. Deciding(u) /\ Decided(u, "applied")
    BY <1>4 DEF Apply, Deciding
  <2>2. PICK left \in BOOLEAN : left = (\E i \in Records : records'[i].state = "live")
    OBVIOUS
  <2>3. row' = SettledRow(req[u].seen, left)
    BY <1>4, <2>2 DEF Apply
  <2> QED BY <2>1, <2>3, ReviewDecided
<1>5. ASSUME NEW u \in Users, Discard(u) PROVE ReviewInv'
  <2>1. Deciding(u) /\ Decided(u, "discarded")
    BY <1>5 DEF Discard, Deciding
  <2>2. PICK left \in BOOLEAN : left = (ListForModule # {})
    OBVIOUS
  <2>3. row' = SettledRow(req[u].seen, left)
    BY <1>5, <2>2 DEF Discard
  <2> QED BY <2>1, <2>3, ReviewDecided
<1>6. CASE PrepareTurn
  <2>1. InReview' => InReview
    BY <1>6 DEF PrepareTurn, GetOrCreate, InReview, Live, TypeInv, TypeOK, MockDataDataset
  <2>2. req' = req /\ sets' = sets
    BY <1>6 DEF PrepareTurn
  <2> QED BY <1>0, <1>K, <2>1, <2>2
<1>7. CASE FinaliseTurn
  <2>1. CASE \E c \in ChangeSets, proposed \in Proposals : Store(c, "chat", proposed)
    BY <1>7, <2>1, ReviewStored DEF FinaliseTurn
  <2>2. CASE UNCHANGED <<row, sets>>
    <3>1. req' = req
      BY <1>7 DEF FinaliseTurn
    <3> QED BY <1>0, <1>K, <2>2, <3>1 DEF InReview, Live
  <2> QED BY <1>7, <2>1, <2>2 DEF FinaliseTurn
<1>8. ASSUME NEW i \in Records, DeleteRecord(i) PROVE ReviewInv'
  <2>1. UNCHANGED <<row, sets, req>>
    BY <1>8 DEF DeleteRecord
  <2> QED BY <1>0, <1>K, <2>1 DEF InReview, Live
<1>9. CASE DeleteModule
  BY <1>9 DEF DeleteModule, ReviewInv, InReview, Live, TypeInv, TypeOK, MockDataDataset
<1>10. ASSUME NEW w \in Workers, WorkerStep(w) PROVE ReviewInv'
  <2>1. req' = req
    BY <1>10 DEF WorkerStep, Claim, Skip, Propose, Finish, Fail, Defer, RouteFailure,
                 CommitOffset, Renew
  <2>2. CASE Finish(w) /\ Releasable(w)
    BY <2>1, <2>2, ReviewStored DEF Finish
  <2>3. CASE ~(Finish(w) /\ Releasable(w))
    <3>1. sets' = sets
      BY <1>10, <2>3 DEF WorkerStep, Claim, Skip, Propose, Finish, Fail, Defer, RouteFailure,
                         CommitOffset, Renew
    <3>2. \/ row' = row
          \/ \E m \in topic : row' = ClaimedRow(w, m.job)
          \/ row' = ReleasedRow(run[w].job, "failed")
          \/ row' = DeferredRow(run[w].attempt)
          \/ row' = RenewedRow(w)
      BY <1>10, <2>3 DEF WorkerStep, Claim, Skip, Propose, Finish, Fail, Defer, RouteFailure,
                         CommitOffset, Renew
    <3>3. InReview' => InReview
      BY <3>2 DEF ClaimedRow, ReleasedRow, DeferredRow, RenewedRow, InReview, Live, TypeInv,
                  TypeOK, MockDataDataset
    <3> QED BY <1>0, <1>K, <2>1, <3>1, <3>3
  <2> QED BY <2>2, <2>3
<1>11. ASSUME NEW w \in Workers, WorkerFault(w) PROVE ReviewInv'
  <2>1. req' = req /\ sets' = sets
    BY <1>11 DEF WorkerFault, Raises, Crash, Redeliver
  <2>2. row' = row \/ row' = [row EXCEPT !.owner = Dead]
    BY <1>11 DEF WorkerFault, Raises, Crash, Redeliver
  <2>3. InReview' => InReview
    BY <2>2 DEF InReview, Live, TypeInv, TypeOK, MockDataDataset
  <2> QED BY <1>0, <1>K, <2>1, <2>3
<1>12. CASE Publish \/ PublishLost \/ (\E m \in retry : RetryDue(m)) \/ UNCHANGED vars
  <2>1. UNCHANGED <<row, sets, req>>
    BY <1>12 DEF Publish, PublishLost, RetryDue, vars
  <2> QED BY <1>0, <1>K, <2>1 DEF InReview, Live
<1>13. CASE Expire \/ Age \/ Sweep
  <2>1. req' = req /\ sets' = sets
    BY <1>13 DEF Expire, Age, Sweep
  <2>2. InReview' => InReview
    BY <1>13 DEF Expire, Age, Sweep, InReview, Live, TypeInv, TypeOK, MockDataDataset
  <2> QED BY <1>0, <1>K, <2>1, <2>2
<1> QED
  BY <1>1, <1>2, <1>3, <1>4, <1>5, <1>6, <1>7, <1>8, <1>9, <1>10, <1>11, <1>12, <1>13
     DEF Next, Progress

\* A dataset in review always has a proposal somebody can decide, and every state is well
\* typed: turns, decisions and generations may overlap as they like.
THEOREM DatasetReviewSafe == Spec => []ReviewHasProposal
<1>1. Init => ReviewInv
  BY NullAssumption DEF Init, ReviewInv, InReview, MockDataDatasetStatus
<1>2. TypeInv /\ ReviewInv => ReviewHasProposal
  BY DEF TypeInv, ReviewInv, InReview, Firm, ReviewHasProposal, PendingForModule
<1> QED BY <1>1, <1>2, TypeInit, TypeNext, ReviewNext, PTL DEF Spec

-----------------------------------------------------------------------------
(* `generating` is the sweep's signal *)

LEMMA GeneratingStep ==
    ASSUME TypeInv, [Next]_vars, Live, row.status = "generating", row'.status # "generating"
    PROVE  \/ row.owner \in Workers /\ row'.owner = None
           \/ \E u \in Users : req[u].pc \in {"apply", "discard"} /\ req'[u].pc = "idle"
<1> DEFINE Goal == \/ row.owner \in Workers /\ row'.owner = None
                   \/ \E u \in Users : req[u].pc \in {"apply", "discard"} /\ req'[u].pc = "idle"
<1> USE DEF TypeInv, TypeOK, MockDataDataset
<1>1. CASE row' = row
  BY <1>1
<1>2. ASSUME NEW u \in Users, RequestCommit(u) PROVE Goal
  BY <1>2 DEF RequestCommit
<1>3. ASSUME NEW u \in Users, Apply(u) \/ Discard(u) PROVE Goal
  <2>1. Deciding(u) /\ (Decided(u, "applied") \/ Decided(u, "discarded"))
    BY <1>3 DEF Apply, Discard, Deciding
  <2>2. req'[u].pc = "idle"
    BY <2>1 DEF Decided, NoRequest
  <2> QED BY <2>1, <2>2 DEF Deciding
<1>4. CASE PrepareTurn \/ FinaliseTurn
  BY <1>4 DEF PrepareTurn, FinaliseTurn, MarkedInReview
<1>5. CASE DeleteModule \/ Expire \/ Age \/ Sweep
  BY <1>5 DEF DeleteModule, Expire, Age, Sweep
<1>6. ASSUME NEW w \in Workers, WorkerStep(w) PROVE Goal
  <2>1. \/ row' = row
        \/ \E m \in topic : row' = ClaimedRow(w, m.job)
        \/ Owns(w) /\ (\E s \in {"review", "failed"} : row' = ReleasedRow(run[w].job, s))
        \/ row' = DeferredRow(run[w].attempt)
        \/ row' = RenewedRow(w)
    BY <1>6 DEF WorkerStep, Claim, Skip, Propose, Finish, Fail, Defer, RouteFailure,
                CommitOffset, Renew, Releasable
  <2> QED BY <2>1 DEF ClaimedRow, ReleasedRow, DeferredRow, RenewedRow, Owns
<1>7. ASSUME NEW w \in Workers, WorkerFault(w) PROVE Goal
  BY <1>7 DEF WorkerFault, Raises, Crash, Redeliver
<1>8. ASSUME NEW u \in Users, RequestRead(u) \/ (\E c \in ChangeSets : RequirePending(u, c))
      PROVE  Goal
  BY <1>8 DEF RequestRead, RequirePending
<1>9. CASE \/ (\E i \in Records : DeleteRecord(i)) \/ Publish \/ PublishLost
           \/ (\E m \in retry : RetryDue(m)) \/ UNCHANGED vars
  BY <1>9 DEF DeleteRecord, Publish, PublishLost, RetryDue, vars
<1> QED BY <1>2, <1>3, <1>4, <1>5, <1>6, <1>7, <1>8, <1>9 DEF Next, Progress

\* Nothing takes `generating` away from a dataset but the end of its worker's tenure and a
\* reviewer's decision; in particular no chat turn does, however late it ends.
THEOREM GeneratingStands == Spec => GeneratingIsKept
<1>1. TypeInv /\ [Next]_vars
        => [Live /\ row.status = "generating" /\ row'.status # "generating"
              => \/ row.owner \in Workers /\ row'.owner = None
                 \/ \E u \in Users : req[u].pc \in {"apply", "discard"} /\ req'[u].pc = "idle"]_vars
  BY GeneratingStep
<1> QED BY <1>1, TypeInit, TypeNext, PTL DEF Spec, GeneratingIsKept

-----------------------------------------------------------------------------
(* Decisions touch what their operations name *)

\* What a decision loaded of a record is still what the record holds, unless another
\* decision has come between: nothing else writes fields, or brings a record back.
ViewInv ==
    \A u \in Users : req[u].pc = "apply" /\ ~req[u].crossed =>
        \A i \in Records : req[u].view[i].state = "live" =>
            records[i].state \in {"live", "deleted"} /\ records[i].fields = req[u].view[i].fields

\* Only decisions write a record's fields; the rest may only delete it.
FieldsKept ==
    \A i \in Records :
        /\ records'[i].fields = records[i].fields
        /\ \/ records'[i].state = records[i].state
           \/ records[i].state = "live" /\ records'[i].state = "deleted"

LEMMA ViewKept ==
    ASSUME ViewInv, FieldsKept, \A u \in Users : req'[u].pc = "apply" => req'[u] = req[u]
    PROVE  ViewInv'
  BY DEF ViewInv, FieldsKept

\* The steps that are no decision and load nothing.
LEMMA OthersKeepFields ==
    ASSUME TypeInv, [Next]_vars, \A u \in Users : ~Apply(u) /\ ~Discard(u)
    PROVE  FieldsKept
<1> USE DEF TypeInv, TypeOK, data
<1>1. ASSUME records' = records PROVE FieldsKept
  BY <1>1 DEF FieldsKept
<1>2. ASSUME NEW i \in Records, DeleteRecord(i) PROVE FieldsKept
  <2> DEFINE gone == [records[i] EXCEPT !.state = "deleted"]
  <2>1. gone.fields = records[i].fields /\ gone.state = "deleted" /\ records[i].state = "live"
    BY <1>2 DEF DeleteRecord, ListForModule, MockDataRecord
  <2>2. records' = [records EXCEPT ![i] = gone]
    BY <1>2 DEF DeleteRecord
  <2> HIDE DEF gone
  <2> QED BY <2>1, <2>2 DEF FieldsKept
<1>3. CASE DeleteModule
  <2>1. records' = DeletedRecords
    BY <1>3 DEF DeleteModule
  <2>2. ASSUME NEW i \in Records
        PROVE  /\ DeletedRecords[i].fields = records[i].fields
               /\ \/ DeletedRecords[i].state = records[i].state
                  \/ records[i].state = "live" /\ DeletedRecords[i].state = "deleted"
    BY DEF DeletedRecords, MockDataRecord
  <2> QED BY <2>1, <2>2 DEF FieldsKept
<1>4. ASSUME NEW w \in Workers, WorkerStep(w) \/ WorkerFault(w) PROVE records' = records
  BY <1>4 DEF WorkerStep, WorkerFault, Claim, Skip, Propose, Finish, Fail, Defer, RouteFailure,
              CommitOffset, Renew, Raises, Crash, Redeliver
<1>5. ASSUME NEW u \in Users,
             RequestRead(u) \/ (\E c \in ChangeSets : RequirePending(u, c)) \/ RequestCommit(u)
      PROVE  records' = records
  BY <1>5 DEF RequestRead, RequirePending, RequestCommit
<1>6. CASE \/ PrepareTurn \/ FinaliseTurn \/ Publish \/ PublishLost
           \/ (\E m \in retry : RetryDue(m)) \/ Expire \/ Age \/ Sweep \/ UNCHANGED vars
  BY <1>1, <1>6 DEF PrepareTurn, FinaliseTurn, Publish, PublishLost, RetryDue, Expire, Age,
                    Sweep, vars
<1> QED BY <1>1, <1>2, <1>3, <1>4, <1>5, <1>6 DEF Next, Progress

\* What becomes of the requests in a step that is no decision.
LEMMA OthersKeepRequests ==
    ASSUME TypeInv, [Next]_vars, \A u \in Users : ~Apply(u) /\ ~Discard(u),
           NEW u \in Users, req[u].pc = "apply" \/ req'[u].pc = "apply"
    PROVE  \/ req'[u] = req[u]
           \/ req[u].pc = "idle" /\ \E c \in ChangeSets : RequirePending(u, c)
<1> USE DEF TypeInv, TypeOK, data
<1>1. ASSUME NEW x \in Users, RequestRead(x) PROVE req'[u] = req[u]
  <2>1. \A y \in Users \ {x} : req'[y] = req[y]
    BY <1>1 DEF RequestRead
  <2>2. req[x].pc = "idle" /\ req'[x].pc = "generate"
    BY <1>1 DEF RequestRead, NoRequest
  <2> QED BY <2>1, <2>2
<1>2. ASSUME NEW x \in Users, RequestCommit(x) PROVE req'[u] = req[u]
  <2>1. \A y \in Users \ {x} : req'[y] = req[y]
    BY <1>2 DEF RequestCommit
  <2>2. req[x].pc = "generate" /\ req'[x].pc = "idle"
    BY <1>2 DEF RequestCommit, NoRequest
  <2> QED BY <2>1, <2>2
<1>3. ASSUME NEW x \in Users, NEW c \in ChangeSets, RequirePending(x, c)
      PROVE  req'[u] = req[u] \/ (x = u /\ req[u].pc = "idle")
  BY <1>3 DEF RequirePending
<1>4. ASSUME NEW w \in Workers, WorkerStep(w) \/ WorkerFault(w) PROVE req' = req
  BY <1>4 DEF WorkerStep, WorkerFault, Claim, Skip, Propose, Finish, Fail, Defer, RouteFailure,
              CommitOffset, Renew, Raises, Crash, Redeliver
<1>5. CASE \/ PrepareTurn \/ FinaliseTurn \/ (\E i \in Records : DeleteRecord(i)) \/ DeleteModule
           \/ Publish \/ PublishLost \/ (\E m \in retry : RetryDue(m))
           \/ Expire \/ Age \/ Sweep \/ UNCHANGED vars
  BY <1>5 DEF PrepareTurn, FinaliseTurn, DeleteRecord, DeleteModule, Publish, PublishLost,
              RetryDue, Expire, Age, Sweep, vars
<1> QED BY <1>1, <1>2, <1>3, <1>4, <1>5 DEF Next, Progress

LEMMA ViewNext == TypeInv /\ ViewInv /\ [Next]_vars => ViewInv'
<1> SUFFICES ASSUME TypeInv, ViewInv, [Next]_vars PROVE ViewInv'
  OBVIOUS
<1>1. ASSUME NEW u \in Users, Apply(u) \/ Discard(u) PROVE ViewInv'
  <2>1. Deciding(u) /\ (Decided(u, "applied") \/ Decided(u, "discarded"))
    BY <1>1 DEF Apply, Discard, Deciding
  <2>2. \A x \in Users : req'[x].pc = "apply" => req'[x].crossed
    BY <2>1, DecidedTypes DEF NoRequest
  <2> QED BY <2>2 DEF ViewInv
<1>2. CASE \A u \in Users : ~Apply(u) /\ ~Discard(u)
  <2>1. FieldsKept
    BY <1>2, OthersKeepFields
  <2>2. ASSUME NEW u \in Users, NEW c \in ChangeSets, RequirePending(u, c) PROVE ViewInv'
    <3>1. records' = records /\ \A x \in Users \ {u} : req'[x] = req[x]
      BY <2>2 DEF RequirePending, TypeInv, TypeOK, data
    <3>2. \A i \in Records : req'[u].view[i] = records[i] \/ req'[u].view[i] = NoRecord
      BY <2>2 DEF RequirePending, TypeInv, TypeOK, NoRequest
    <3>3. \A i \in Records : req'[u].view[i].state = "live" => req'[u].view[i] = records[i]
      BY <3>2 DEF NoRecord
    <3> QED BY <3>1, <3>3 DEF ViewInv
  <2>3. CASE \A u \in Users, c \in ChangeSets : ~RequirePending(u, c)
    <3>1. \A u \in Users : req'[u].pc = "apply" => req'[u] = req[u]
      BY <1>2, <2>3, OthersKeepRequests
    <3> QED BY <2>1, <3>1, ViewKept
  <2> QED BY <2>2, <2>3
<1> QED BY <1>1, <1>2

\* The fields of a record an update reached are the loaded ones but for the named keys.
LEMMA UpdateKeeps ==
    ASSUME NEW u \in Users, NEW wanted \in SUBSET sets[req[u].set].operations,
           NEW i \in Records, NEW k \in Keys,
           \A o \in sets[req[u].set].operations : ~(o.record = i /\ k \in o.keys)
    PROVE  MergedFields(u, wanted, i)[k] = req[u].view[i].fields[k]
  BY DEF MergedFields

LEMMA DecisionStep ==
    ASSUME TypeInv, ViewInv, [Next]_vars, NEW u \in Users,
           req[u].pc = "apply", req'[u].pc = "idle", ~req[u].crossed, NEW i \in Records
    PROVE  /\ records[i].state = "deleted" => records'[i].state = "deleted"
           /\ records[i].state # "absent" => \A k \in Keys :
                records'[i].fields[k] # records[i].fields[k]
                  => \E o \in sets[req[u].set].operations : o.record = i /\ k \in o.keys
<1>1. Apply(u)
  <2>1. PICK x \in Users : Apply(x) \/ Discard(x)
    <3>1. CASE \A x \in Users : ~Apply(x) /\ ~Discard(x)
      BY <3>1, OthersKeepRequests
    <3> QED BY <3>1
  <2>2. Deciding(x) /\ (Decided(x, "applied") \/ Decided(x, "discarded"))
    BY <2>1 DEF Apply, Discard, Deciding
  <2>3. x = u
    BY <2>2, DecidedTypes
  <2> QED BY <2>1, <2>3 DEF Discard
<1>2. PICK wanted \in SUBSET sets[req[u].set].operations, new \in SUBSET Records :
        /\ \A j \in new : records[j].state = "absent"
        /\ records' = [j \in Records |-> ApplyOne(u, wanted, new, j)]
  BY <1>1 DEF Apply
<1>3. records'[i] = ApplyOne(u, wanted, new, i)
  BY <1>2
<1>4. records[i].state = "deleted" => records'[i].state = "deleted"
  BY <1>2, <1>3 DEF ApplyOne
<1>5. ASSUME records[i].state # "absent", NEW k \in Keys,
             records'[i].fields[k] # records[i].fields[k]
      PROVE  \E o \in sets[req[u].set].operations : o.record = i /\ k \in o.keys
  <2>1. i \notin new
    BY <1>2, <1>5
  <2>2. /\ Accepted(u, wanted, i, "update")
        /\ records'[i].fields = MergedFields(u, wanted, i)
    BY <1>3, <1>5, <2>1 DEF ApplyOne
  <2>3. records[i].fields = req[u].view[i].fields
    BY <2>2 DEF Accepted, ViewInv
  <2> QED BY <1>5, <2>2, <2>3, UpdateKeeps
<1> QED BY <1>4, <1>5

\* Applying a change set that no other decision has crossed keeps every field value its
\* operations do not name, and never brings a deleted record back.
THEOREM DecisionsAreExact == Spec => DecisionsTouchWhatTheyName
<1>1. Init => ViewInv
  BY DEF Init, ViewInv, NoRequest
<1>2. TypeInv /\ ViewInv /\ [Next]_vars
        => [\A u \in Users : req[u].pc = "apply" /\ req'[u].pc = "idle" /\ ~req[u].crossed
             => \A i \in Records :
                  /\ records[i].state = "deleted" => records'[i].state = "deleted"
                  /\ records[i].state # "absent" => \A k \in Keys :
                       records'[i].fields[k] # records[i].fields[k]
                         => \E o \in sets[req[u].set].operations :
                              o.record = i /\ k \in o.keys]_vars
  BY DecisionStep
<1> QED BY <1>1, <1>2, TypeInit, TypeNext, ViewNext, PTL DEF Spec, DecisionsTouchWhatTheyName

-----------------------------------------------------------------------------
(* Generation implements LeasedWork *)

\* Only the origin of a stored change set, and that it is stored, decide what Generated is.
LEMMA GeneratedKept ==
    ASSUME \A c \in ChangeSets :
             /\ sets'[c].status = "absent" <=> sets[c].status = "absent"
             /\ sets[c].status # "absent" => sets'[c].origin = sets[c].origin
    PROVE  Generated' = Generated
  BY DEF Generated

\* Storing a proposal adds one to the generated ones, or none when it came from chat.
LEMMA GeneratedStored ==
    ASSUME TypeInv, NEW c \in ChangeSets, NEW proposed \in Proposals,
           NEW origin \in {"generation", "chat"}, Store(c, origin, proposed)
    PROVE  /\ origin = "chat" => Generated' = Generated
           /\ origin = "generation" => Cardinality(Generated)' = Cardinality(Generated) + 1
<1>1. /\ sets[c].status = "absent" /\ sets'[c].status = "pending" /\ sets'[c].origin = origin
      /\ \A b \in ChangeSets : b # c => sets'[b] = sets[b]
  BY Stored DEF TypeInv, TypeOK
<1>2. CASE origin = "chat"
  BY <1>1, <1>2 DEF Generated
<1>3. CASE origin = "generation"
  <2>1. Generated' = Generated \cup {c} /\ c \notin Generated
    BY <1>1, <1>3 DEF Generated
  <2>2. IsFiniteSet(Generated)
    BY FiniteAssumption, FS_Subset DEF Generated
  <2>3. Cardinality(Generated \cup {c}) = Cardinality(Generated) + 1
    BY <2>1, <2>2, FS_AddElement
  <2> QED BY <1>3, <2>1, <2>3
<1> QED BY <1>2, <1>3

\* Every step is one of LeasedWork's or changes nothing the mapping reads.
LEMMA LeaseStep ==
    ASSUME TypeInv, [Next]_vars
    PROVE  [Work!Next]_(Work!vars)
<1> DEFINE Same == /\ row'.owner = row.owner /\ row'.lease = row.lease
                   /\ row'.deleted = row.deleted
           Goal == [Work!Next]_(Work!vars)
<1>0. Same /\ Generated' = Generated => Goal
  BY DEF Work!vars
<1> SUFFICES Goal
  OBVIOUS
<1> HIDE DEF Goal
<1>K. sets' = sets => Generated' = Generated
  BY GeneratedKept
<1> USE DEF data, queue
<1>1. CASE UNCHANGED <<row, sets>>
  BY <1>0, <1>1, <1>K
<1>2. CASE \E u \in Users : RequestRead(u) \/ (\E c \in ChangeSets : RequirePending(u, c))
  BY <1>1, <1>2 DEF RequestRead, RequirePending
<1>3. CASE \E u \in Users : RequestCommit(u)
  <2>1. Same
    BY <1>3 DEF RequestCommit, TypeInv, TypeOK, MockDataDataset
  <2> QED BY <1>0, <1>3, <1>K, <2>1 DEF RequestCommit
<1>4. ASSUME NEW u \in Users, Apply(u) \/ Discard(u) PROVE Goal
  <2>1. Deciding(u) /\ (Decided(u, "applied") \/ Decided(u, "discarded"))
    BY <1>4 DEF Apply, Discard, Deciding
  <2>2. Same
    BY <1>4 DEF Apply, Discard, SettledRow, TypeInv, TypeOK, MockDataDataset
  <2>3. \A c \in ChangeSets :
          /\ sets'[c].status = "absent" <=> sets[c].status = "absent"
          /\ sets'[c].origin = sets[c].origin
    BY <2>1, DecidedTypes DEF TypeInv, Decides
  <2>4. Generated' = Generated
    BY <2>3, GeneratedKept
  <2> QED BY <1>0, <2>2, <2>4
<1>5. CASE DeleteModule
  <2>1. /\ row'.owner = row.owner /\ row'.lease = row.lease
        /\ ~row.deleted /\ row'.deleted
    BY <1>5 DEF DeleteModule, Live, TypeInv, TypeOK, MockDataDataset
  <2>2. Generated' = Generated
    <3>1. \A c \in ChangeSets :
            DeletedSets[c].status = sets[c].status /\ DeletedSets[c].origin = sets[c].origin
      BY DEF DeletedSets, TypeInv, TypeOK, MockDataChangeSet
    <3> QED BY <1>5, <3>1, GeneratedKept DEF DeleteModule
  <2>3. Work!Delete
    BY <2>1, <2>2 DEF Work!Delete
  <2> QED BY <2>3 DEF Goal, Work!Next
<1>6. CASE FinaliseTurn
  <2>1. Same
    BY <1>6 DEF FinaliseTurn, MarkedInReview, TypeInv, TypeOK, MockDataDataset
  <2>2. Generated' = Generated
    <3>1. CASE sets' = sets
      BY <1>K, <3>1
    <3>2. CASE \E c \in ChangeSets, proposed \in Proposals : Store(c, "chat", proposed)
      BY <3>2, GeneratedStored
    <3> QED BY <1>6, <3>1, <3>2 DEF FinaliseTurn
  <2> QED BY <1>0, <2>1, <2>2
<1>7. CASE PrepareTurn \/ Age \/ Sweep
  <2>1. Same
    BY <1>7 DEF PrepareTurn, GetOrCreate, Age, Sweep, TypeInv, TypeOK, MockDataDataset
  <2>2. sets' = sets
    BY <1>7 DEF PrepareTurn, Age, Sweep
  <2> QED BY <1>0, <1>K, <2>1, <2>2
<1>8. CASE Expire
  <2>1. /\ row'.owner = row.owner /\ row'.deleted = row.deleted
        /\ row.lease = "live" /\ row'.lease = "expired" /\ sets' = sets
    BY <1>8 DEF Expire, TypeInv, TypeOK, MockDataDataset
  <2>2. Work!Lapse
    BY <1>K, <2>1 DEF Work!Lapse
  <2> QED BY <2>2 DEF Goal, Work!Next
<1>9. ASSUME NEW w \in Workers, WorkerStep(w) PROVE Goal
  <2>1. CASE \E m \in topic : Claim(w, m)
    <3>1. /\ row.lease # "live" /\ ~row.deleted /\ row'.owner = w /\ row'.lease = "live"
          /\ row'.deleted = row.deleted /\ sets' = sets
      BY <2>1 DEF Claim, Claimable, ClaimedRow, Live, TypeInv, TypeOK, MockDataDataset
    <3>2. Work!Take(w)
      BY <1>K, <3>1 DEF Work!Take
    <3> QED BY <3>2 DEF Goal, Work!Next
  <2>2. CASE \/ \E m \in topic : Skip(w, m)
             \/ Propose(w) \/ RouteFailure(w) \/ CommitOffset(w)
    BY <1>1, <2>2 DEF Skip, Propose, RouteFailure, CommitOffset
  <2>3. CASE Finish(w) /\ Releasable(w)
    <3>1. /\ row.owner = w /\ ~row.deleted /\ row'.owner = None /\ row'.lease = "none"
          /\ row'.deleted = row.deleted
      BY <2>3 DEF Finish, Releasable, Owns, Live, ReleasedRow, TypeInv, TypeOK, MockDataDataset
    <3>2. Cardinality(Generated)' = Cardinality(Generated) + 1
      BY <2>3, GeneratedStored DEF Finish
    <3>3. Work!Record(w)
      BY <3>1, <3>2 DEF Work!Record
    <3> QED BY <3>3 DEF Goal, Work!Next
  <2>4. CASE Finish(w) /\ ~Releasable(w)
    BY <1>1, <2>4 DEF Finish
  <2>5. CASE Fail(w)
    <3>1. sets' = sets
      BY <2>5 DEF Fail
    <3>2. \/ row' = row
          \/ /\ row.owner = w /\ ~row.deleted /\ row'.owner = None /\ row'.lease = "none"
             /\ row'.deleted = row.deleted
      BY <2>5 DEF Fail, Releasable, Owns, Live, ReleasedRow, TypeInv, TypeOK, MockDataDataset
    <3>3. row' = row \/ Work!Record(w)
      BY <1>K, <3>1, <3>2 DEF Work!Record
    <3> QED BY <1>1, <3>1, <3>3 DEF Goal, Work!Next
  <2>6. CASE Defer(w) \/ Renew(w)
    <3>1. sets' = sets
      BY <2>6 DEF Defer, Renew
    <3>2. \/ row' = row
          \/ row.owner = w /\ row'.owner = w /\ row'.deleted = row.deleted
      BY <2>6 DEF Defer, Renew, Releasable, Owns, DeferredRow, RenewedRow, TypeInv, TypeOK,
                  MockDataDataset
    <3>3. row' = row \/ Work!Renew(w)
      BY <1>K, <3>1, <3>2 DEF Work!Renew
    <3> QED BY <1>1, <3>1, <3>3 DEF Goal, Work!Next
  <2> QED BY <1>9, <2>1, <2>2, <2>3, <2>4, <2>5, <2>6 DEF WorkerStep
<1>10. ASSUME NEW w \in Workers, WorkerFault(w) PROVE Goal
  <2>1. CASE Crash(w)
    <3>1. sets' = sets
      BY <2>1 DEF Crash
    <3>2. \/ row' = row
          \/ /\ row.owner = w /\ row'.owner = Dead /\ row'.lease = row.lease
             /\ row'.deleted = row.deleted
      BY <2>1 DEF Crash, Owns, TypeInv, TypeOK, MockDataDataset
    <3>3. row' = row \/ Work!Die
      BY <1>K, <3>1, <3>2, MockDataAssumption DEF Work!Die
    <3> QED BY <1>1, <3>1, <3>3 DEF Goal, Work!Next
  <2>2. CASE \/ \E error \in {"terminal", "retryable", "unexpected", "aborted"} :
                  Raises(w, error)
             \/ Redeliver(w)
    <3>1. UNCHANGED <<row, sets>>
      BY <2>2 DEF Raises, Redeliver
    <3> QED BY <1>1, <3>1
  <2> QED BY <1>10, <2>1, <2>2 DEF WorkerFault
<1>11. CASE \/ (\E i \in Records : DeleteRecord(i)) \/ Publish \/ PublishLost
            \/ (\E m \in retry : RetryDue(m)) \/ UNCHANGED vars
  BY <1>1, <1>11 DEF DeleteRecord, Publish, PublishLost, RetryDue, vars
<1> QED
  BY <1>2, <1>3, <1>4, <1>5, <1>6, <1>7, <1>8, <1>9, <1>10, <1>11 DEF Next, Progress

\* Refinement: mock-data generation implements LeasedWork, from its initial state and step
\* for step, although a stalled worker may outlive its lease and chat turns write too.
THEOREM DatasetLeaseSafe == Spec => LeaseHonoured
<1>1. Init => Work!Init
  <2> SUFFICES ASSUME Init PROVE Work!Init
    OBVIOUS
  <2>1. Generated = {}
    BY DEF Init, Generated
  <2>2. Cardinality(Generated) = 0
    BY <2>1, FS_EmptySet
  <2> QED BY <2>2 DEF Init, Work!Init
<1>2. TypeInv /\ [Next]_vars => [Work!Next]_(Work!vars)
  BY LeaseStep
<1> QED BY <1>1, <1>2, TypeInit, TypeNext, PTL DEF Spec, LeaseHonoured, Work!Spec
=============================================================================
