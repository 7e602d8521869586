--------------------------- MODULE ChecklistProofs ---------------------------
(***************************************************************************)
(* What holds of Checklist for every number of workers, users, jobs,       *)
(* change sets, items, attempts, requests and faults.                      *)
(***************************************************************************)
EXTENDS Checklist, FiniteSetTheorems, TLAPS

-----------------------------------------------------------------------------
(* Type correctness *)

\* A job past the claim knows its id, which a crash puts back on the topic.
Working == \A w \in Workers : run[w].pc # "idle" => run[w].job \in JobIds

Deciding(u) == req[u].pc \in {"apply", "loaded", "discard"}

\* A decision in flight is about a change set that exists.
Decides ==
    \A u \in Users :
        Deciding(u) \/ req[u].pc = "read"
          => req[u].set \in ChangeSets /\ sets[req[u].set].status # "absent"

TypeInv == TypeOK /\ Working /\ Decides

\* Every row the statements on checklist_modules leave behind is a row.
LEMMA RowTypes ==
    ASSUME row \in ChecklistModule
    PROVE  /\ \A w \in Workers, j \in JobIds : ClaimedRow(w, j) \in ChecklistModule
           /\ \A w \in Workers : RenewedRow(w) \in ChecklistModule
           /\ \A j \in JobIds \cup {None}, s \in ChecklistModuleStatus :
                ReleasedRow(j, s) \in ChecklistModule
           /\ \A a \in Nat : DeferredRow(a) \in ChecklistModule
           /\ InReviewRow \in ChecklistModule
           /\ \A s, b : SettledRow(s, b) \in ChecklistModule
<1>1. \A w \in Workers, j \in JobIds : ClaimedRow(w, j) \in ChecklistModule
  BY DEF ClaimedRow, ChecklistModule, ChecklistModuleStatus
<1>2. \A w \in Workers : RenewedRow(w) \in ChecklistModule
  BY DEF RenewedRow, ChecklistModule
<1>3. \A j \in JobIds \cup {None}, s \in ChecklistModuleStatus :
        ReleasedRow(j, s) \in ChecklistModule
  BY DEF ReleasedRow, ChecklistModule
<1>4. \A a \in Nat : DeferredRow(a) \in ChecklistModule
  BY DEF DeferredRow, ChecklistModule
<1>5. InReviewRow \in ChecklistModule
  BY DEF InReviewRow, ChecklistModule, ChecklistModuleStatus
<1>6. \A s, b : SettledRow(s, b) \in ChecklistModule
  BY DEF SettledRow, ChecklistModule, ChecklistModuleStatus
<1> QED BY <1>1, <1>2, <1>3, <1>4, <1>5, <1>6

\* One worker's job is replaced by another well-typed one.
LEMMA RunTypes ==
    ASSUME run \in [Workers -> Job], Working,
           NEW w \in Workers, NEW r \in Job,
           r.pc = "idle" \/ r.job \in JobIds,
           run' = [run EXCEPT ![w] = r]
    PROVE  run' \in [Workers -> Job] /\ Working'
  BY DEF Working

\* A change of stage keeps the job.
LEMMA MoveTypes ==
    ASSUME run \in [Workers -> Job], Working, NEW w \in Workers, run[w].pc # "idle",
           NEW stage \in {"produce", "done"}, Move(w, stage)
    PROVE  run' \in [Workers -> Job] /\ Working'
<1> DEFINE moved == [run[w] EXCEPT !.pc = stage]
<1>1. moved \in Job /\ moved.job \in JobIds
  BY DEF Job, Working
<1>2. run' = [run EXCEPT ![w] = moved]
  BY DEF Move
<1> QED BY <1>1, <1>2, RunTypes

\* So does a worker that lets its record go.
LEMMA IdleTypes ==
    ASSUME run \in [Workers -> Job], Working, NEW w \in Workers,
           run' = [run EXCEPT ![w] = Idle]
    PROVE  run' \in [Workers -> Job] /\ Working'
<1>1. Idle \in Job /\ Idle.pc = "idle"
  BY DEF Idle, Job
<1> QED BY <1>1, RunTypes

\* A stored proposal is a change set, and no decision in flight loses its own.
LEMMA StoreTypes ==
    ASSUME sets \in [ChangeSets -> ChangeSet], Decides, req' = req,
           NEW c \in ChangeSets, NEW operations \in Proposals,
           NEW origin \in {"generation", "chat"}, Store(c, origin, operations)
    PROVE  sets' \in [ChangeSets -> ChangeSet] /\ Decides'
<1> DEFINE stored == [status |-> "pending", deleted |-> FALSE, origin |-> origin,
                      operations |-> operations]
<1>1. stored \in ChangeSet
  BY ChecklistAssumption DEF ChangeSet
<1>2. sets' = [sets EXCEPT ![c] = stored] /\ stored.status # "absent"
  BY DEF Store
<1> QED BY <1>1, <1>2 DEF Decides, Deciding

\* A fault leaves a budget.
LEMMA FaultTypes == budget \in Budget /\ Fault => budget' \in Budget
  BY DEF Fault, Budget

\* The initial state is well typed.
LEMMA TypeInit == Init => TypeInv
<1> SUFFICES ASSUME Init PROVE TypeInv
  OBVIOUS
<1>1. row \in ChecklistModule
  BY DEF Init, ChecklistModule, ChecklistModuleStatus
<1>2. sets \in [ChangeSets -> ChangeSet] /\ items \in [Items -> Item]
  BY DEF Init, ChangeSet, NoSet, Item, NoItem
<1>3. req \in [Users -> Request] /\ Decides
  BY DEF Init, Request, NoRequest, NoView, NoItem, Item, ChecklistModuleStatus, Decides,
         Deciding
<1>4. run \in [Workers -> Job] /\ Working
  BY DEF Init, Job, Idle, Working
<1>5. turns \in Nat /\ topic \in SUBSET Message /\ retry \in SUBSET Message /\ outbox \in Nat
  BY DEF Init
<1>6. budget \in Budget
  BY ChecklistAssumption DEF Init, Budget
<1> QED BY <1>1, <1>2, <1>3, <1>4, <1>5, <1>6 DEF TypeInv, TypeOK

\* A request goes back to idle and its change set, if decided, stays one.
LEMMA DoneTypes ==
    ASSUME req \in [Users -> Request], Decides, NEW u \in Users,
           req' = [req EXCEPT ![u] = NoRequest],
           \A c \in ChangeSets : sets[c].status # "absent" => sets'[c].status # "absent"
    PROVE  req' \in [Users -> Request] /\ Decides'
<1>1. NoRequest \in Request /\ NoRequest.pc = "idle"
  BY DEF NoRequest, NoView, NoItem, Request, Item, ChecklistModuleStatus
<1> QED BY <1>1 DEF Decides, Deciding

\* A request that passed the module guard, on its way to its decision.
LEMMA GoingTypes ==
    ASSUME NEW x \in Request, NEW d \in {"apply", "discard"}, NEW s \in ChecklistModuleStatus
    PROVE  LET going == [x EXCEPT !.pc = d, !.seen = s]
           IN  going \in Request /\ going.set = x.set
  BY DEF Request

\* What an operation set leaves of an item is an item.
LEMMA AppliedTypes ==
    ASSUME items \in [Items -> Item], NEW u \in Users, req[u].set \in ChangeSets,
           NEW wanted, NEW new, NEW i \in Items
    PROVE  AppliedItem(u, wanted, new, i) \in Item
<1>1. items[i] \in Item
  OBVIOUS
<1> QED BY <1>1 DEF AppliedItem, Item

\* A decision recorded on an existing change set leaves change sets.
LEMMA DecidedTypes ==
    ASSUME sets \in [ChangeSets -> ChangeSet], NEW c \in ChangeSets,
           NEW s \in {"applied", "discarded"}, Decide(c, s)
    PROVE  /\ sets' \in [ChangeSets -> ChangeSet]
           /\ \A b \in ChangeSets : sets'[b].status = IF b = c THEN s ELSE sets[b].status
           /\ \A b \in ChangeSets : b # c => sets'[b] = sets[b]
           /\ \A b \in ChangeSets : /\ sets'[b].deleted = sets[b].deleted
                                   /\ sets'[b].origin = sets[b].origin
<1> DEFINE decided == [sets[c] EXCEPT !.status = s]
<1>1. /\ decided \in ChangeSet /\ decided.status = s
      /\ decided.deleted = sets[c].deleted /\ decided.origin = sets[c].origin
  BY DEF ChangeSet
<1>2. sets' = [sets EXCEPT ![c] = decided]
  BY DEF Decide
<1> QED BY <1>1, <1>2

\* Every step keeps the types: one case per action, one step per variable it writes.
LEMMA TypeNext == TypeInv /\ [Next]_vars => TypeInv'
<1> SUFFICES ASSUME TypeInv, [Next]_vars PROVE TypeInv'
  OBVIOUS
<1> USE DEF TypeInv, TypeOK, data, queue
<1>1. ASSUME NEW u \in Users, UserStep(u) PROVE TypeInv'
  <2>1. CASE RequestRead(u)
    <3>1. [NoRequest EXCEPT !.pc = "generate"] \in Request
      BY DEF NoRequest, NoView, NoItem, Request, Item, ChecklistModuleStatus
    <3>2. req' \in [Users -> Request] /\ Decides'
      BY <2>1, <3>1 DEF RequestRead, Decides, Deciding, NoRequest
    <3>3. budget' \in Budget
      BY <2>1 DEF RequestRead, Budget
    <3> QED BY <2>1, <3>2, <3>3 DEF RequestRead, Working
  <2>2. CASE \E c \in ChangeSets : RequirePending(u, c)
    <3>1. PICK c \in ChangeSets : RequirePending(u, c)
      BY <2>2
    <3> DEFINE asked == [NoRequest EXCEPT !.pc = "read", !.set = c]
    <3>2. asked \in Request /\ asked.set = c
      BY DEF NoRequest, NoView, NoItem, Request, Item, ChecklistModuleStatus
    <3>3. req' = [req EXCEPT ![u] = asked] /\ sets[c].status = "pending" /\ sets' = sets
      BY <3>1 DEF RequirePending, Pending
    <3>4. req' \in [Users -> Request] /\ Decides'
      BY <3>2, <3>3 DEF Decides, Deciding
    <3> QED BY <3>1, <3>4 DEF RequirePending, Working
  <2> QED BY <1>1, <2>1, <2>2 DEF UserStep
<1>2. ASSUME NEW u \in Users, UserProgress(u) PROVE TypeInv'
  <2>1. CASE RequestCommit(u)
    <3>1. row' \in ChecklistModule
      BY <2>1 DEF RequestCommit, ChecklistModule, ChecklistModuleStatus
    <3>2. req' \in [Users -> Request] /\ Decides'
      BY <2>1, DoneTypes DEF RequestCommit
    <3>3. outbox' \in Nat
      BY <2>1 DEF RequestCommit
    <3> QED BY <2>1, <3>1, <3>2, <3>3 DEF RequestCommit, Working
  <2>2. CASE LoadItems(u)
    <3>1. PICK view \in [Items -> Item] :
            req' = [req EXCEPT ![u] = [req[u] EXCEPT !.pc = "loaded", !.view = view]]
      <4> DEFINE named == {o.item : o \in sets[req[u].set].operations}
                 view == [i \in Items |-> IF i \in named THEN items[i] ELSE NoItem]
      <4>1. view \in [Items -> Item]
        BY DEF NoItem, Item
      <4>2. req' = [req EXCEPT ![u] = [req[u] EXCEPT !.pc = "loaded", !.view = view]]
        BY <2>2 DEF LoadItems
      <4> QED BY <4>1, <4>2
    <3> DEFINE loaded == [req[u] EXCEPT !.pc = "loaded", !.view = view]
    <3>2. loaded \in Request /\ loaded.set = req[u].set
      BY DEF Request
    <3>3. req[u].set \in ChangeSets /\ sets[req[u].set].status # "absent" /\ sets' = sets
      BY <2>2 DEF LoadItems, Decides, Deciding
    <3>4. req' \in [Users -> Request] /\ Decides'
      BY <3>1, <3>2, <3>3 DEF Decides, Deciding
    <3> QED BY <2>2, <3>4 DEF LoadItems, Working
  <2>3. CASE ApplyCommit(u)
    <3>1. req[u].set \in ChangeSets
      BY <2>3 DEF ApplyCommit, Decides, Deciding
    <3>2. /\ sets' \in [ChangeSets -> ChangeSet]
          /\ \A c \in ChangeSets : sets[c].status # "absent" => sets'[c].status # "absent"
      <4>1. Decide(req[u].set, "applied")
        BY <2>3 DEF ApplyCommit
      <4> QED BY <3>1, <4>1, DecidedTypes
    <3>3. items' \in [Items -> Item]
      BY <2>3, <3>1, AppliedTypes DEF ApplyCommit
    <3>4. row' \in ChecklistModule
      BY <2>3, RowTypes DEF ApplyCommit
    <3>5. req' \in [Users -> Request] /\ Decides'
      BY <2>3, <3>2, DoneTypes DEF ApplyCommit
    <3> QED BY <2>3, <3>2, <3>3, <3>4, <3>5 DEF ApplyCommit, Working
  <2>4. CASE DiscardCommit(u)
    <3>1. req[u].set \in ChangeSets
      BY <2>4 DEF DiscardCommit, Decides, Deciding
    <3>2. /\ sets' \in [ChangeSets -> ChangeSet]
          /\ \A c \in ChangeSets : sets[c].status # "absent" => sets'[c].status # "absent"
      <4>1. Decide(req[u].set, "discarded")
        BY <2>4 DEF DiscardCommit
      <4> QED BY <3>1, <4>1, DecidedTypes
    <3>3. row' \in ChecklistModule
      BY <2>4, RowTypes DEF DiscardCommit
    <3>4. req' \in [Users -> Request] /\ Decides'
      BY <2>4, <3>2, DoneTypes DEF DiscardCommit
    <3> QED BY <2>4, <3>2, <3>3, <3>4 DEF DiscardCommit, Working
  <2>5. CASE RequireModule(u)
    <3>1. CASE Live
      <4>1. PICK decision \in {"apply", "discard"} :
              req' = [req EXCEPT ![u] = [req[u] EXCEPT !.pc = decision, !.seen = row.status]]
        BY <2>5, <3>1 DEF RequireModule
      <4> DEFINE going == [req[u] EXCEPT !.pc = decision, !.seen = row.status]
      <4>2. going \in Request /\ going.set = req[u].set
        <5>1. req[u] \in Request /\ row.status \in ChecklistModuleStatus
          BY DEF ChecklistModule
        <5> QED BY <5>1, GoingTypes
      <4>3. req[u].set \in ChangeSets /\ sets[req[u].set].status # "absent" /\ sets' = sets
        BY <2>5 DEF RequireModule, Decides
      <4>4. req' \in [Users -> Request] /\ Decides'
        BY <4>1, <4>2, <4>3 DEF Decides, Deciding
      <4> QED BY <2>5, <4>4 DEF RequireModule, Working
    <3>2. CASE ~Live
      <4>1. req' \in [Users -> Request] /\ Decides'
        BY <2>5, <3>2, DoneTypes DEF RequireModule
      <4> QED BY <2>5, <4>1 DEF RequireModule, Working
    <3> QED BY <3>1, <3>2
  <2> QED BY <1>2, <2>1, <2>2, <2>3, <2>4, <2>5 DEF UserProgress
<1>3. CASE Update
  <2>1. row' \in ChecklistModule
    BY <1>3 DEF Update, ChecklistModule
  <2>2. budget' \in Budget
    BY <1>3 DEF Update, Budget
  <2> QED BY <1>3, <2>1, <2>2 DEF Update, Working, Decides, Deciding
<1>4. CASE Delete
  <2>1. row' \in ChecklistModule
    BY <1>4 DEF Delete, ChecklistModule
  <2>2. \A c \in ChangeSets : /\ [sets[c] EXCEPT !.deleted = TRUE] \in ChangeSet
                              /\ [sets[c] EXCEPT !.deleted = TRUE].status = sets[c].status
    BY DEF ChangeSet
  <2>3. sets' \in [ChangeSets -> ChangeSet] /\ Decides'
    BY <1>4, <2>2 DEF Delete, Decides, Deciding
  <2>4. \A i \in Items : [items[i] EXCEPT !.state = "deleted"] \in Item
    BY DEF Item
  <2>5. items' \in [Items -> Item]
    BY <1>4, <2>4 DEF Delete
  <2> QED BY <1>4, <2>1, <2>3, <2>5 DEF Delete, Working
<1>5. CASE PrepareTurn
  BY <1>5 DEF PrepareTurn, Working, Decides, Deciding
<1>6. CASE FinaliseTurn
  <2>1. turns' \in Nat
    BY <1>6 DEF FinaliseTurn
  <2>2. row' \in ChecklistModule
    BY <1>6, RowTypes DEF FinaliseTurn
  <2>3. sets' \in [ChangeSets -> ChangeSet] /\ Decides'
    <3>1. CASE \E c \in ChangeSets, operations \in Proposals : Store(c, "chat", operations)
      BY <1>6, <3>1, StoreTypes DEF FinaliseTurn
    <3>2. CASE sets' = sets
      BY <1>6, <3>2 DEF FinaliseTurn, Decides, Deciding
    <3> QED BY <1>6, <3>1, <3>2 DEF FinaliseTurn
  <2> QED BY <1>6, <2>1, <2>2, <2>3 DEF FinaliseTurn, Working
<1>7. CASE ItemStep
  <2>1. items' \in [Items -> Item]
    <3>1. CASE \E i \in Items : CreateItem(i) \/ UpdateItem(i) \/ DeleteItem(i)
      BY <3>1 DEF CreateItem, UpdateItem, DeleteItem, Write, Item
    <3>2. CASE \E i \in Items, v \in Verdicts \cup {Untested} : SetResult(i, v)
      <4>1. PICK i \in Items, v \in Verdicts \cup {Untested} : SetResult(i, v)
        BY <3>2
      <4>2. [items[i] EXCEPT !.result = v] \in Item
        BY DEF Item
      <4> QED BY <4>1, <4>2 DEF SetResult, Write
    <3>3. CASE ClearResults
      BY <3>3 DEF ClearResults, Item
    <3> QED BY <1>7, <3>1, <3>2, <3>3 DEF ItemStep
  <2>2. UNCHANGED <<row, sets, req, turns, run, topic, retry, outbox, budget>>
    BY <1>7 DEF ItemStep, CreateItem, UpdateItem, DeleteItem, SetResult, ClearResults, Write
  <2> QED BY <2>1, <2>2 DEF Working, Decides, Deciding
<1>8. CASE Publish
  <2>1. topic' \in SUBSET Message /\ outbox' \in Nat
    BY <1>8 DEF Publish, FreshIds, Message
  <2> QED BY <1>8, <2>1 DEF Publish, Working, Decides, Deciding
<1>9. CASE PublishLost
  <2>1. outbox' \in Nat /\ budget' \in Budget
    BY <1>9, FaultTypes DEF PublishLost
  <2> QED BY <1>9, <2>1 DEF PublishLost, Working, Decides, Deciding
<1>10. ASSUME NEW w \in Workers, WorkerStep(w) PROVE TypeInv'
  <2>1. CASE \E m \in topic : Claim(w, m)
    <3>1. PICK m \in topic : Claim(w, m)
      BY <2>1
    <3> DEFINE claimed == [Idle EXCEPT !.pc = "running", !.job = m.job,
                             !.attempt = m.attempt, !.beating = TRUE]
    <3>2. row' \in ChecklistModule
      BY <3>1, RowTypes DEF Claim, Message
    <3>3. claimed \in Job /\ claimed.job \in JobIds
      BY DEF Idle, Job, Message
    <3>4. run' = [run EXCEPT ![w] = claimed]
      BY <3>1 DEF Claim
    <3>5. run' \in [Workers -> Job] /\ Working'
      BY <3>3, <3>4, RunTypes
    <3> QED BY <3>1, <3>2, <3>5 DEF Claim, Decides, Deciding
  <2>2. CASE \E m \in topic : Skip(w, m)
    BY <2>2 DEF Skip, Working, Decides, Deciding
  <2>3. CASE Propose(w)
    <3> DEFINE proposed == [run[w] EXCEPT !.pc = "proposed", !.beating = FALSE]
    <3>1. proposed \in Job /\ proposed.job \in JobIds
      BY <2>3 DEF Propose, Job, Working
    <3>2. run' = [run EXCEPT ![w] = proposed]
      BY <2>3 DEF Propose
    <3>3. run' \in [Workers -> Job] /\ Working'
      BY <3>1, <3>2, RunTypes
    <3> QED BY <2>3, <3>3 DEF Propose, Decides, Deciding
  <2>4. CASE Finish(w)
    <3>1. row' \in ChecklistModule
      BY <2>4, RowTypes DEF Finish, Job, ChecklistModuleStatus
    <3>2. sets' \in [ChangeSets -> ChangeSet] /\ Decides'
      <4>1. CASE Releasable(w)
        BY <2>4, <4>1, StoreTypes DEF Finish
      <4>2. CASE ~Releasable(w)
        BY <2>4, <4>2 DEF Finish, Decides, Deciding
      <4> QED BY <4>1, <4>2
    <3>3. run' \in [Workers -> Job] /\ Working'
      BY <2>4, MoveTypes DEF Finish
    <3> QED BY <2>4, <3>1, <3>2, <3>3 DEF Finish
  <2>5. CASE Fail(w)
    <3>1. row' \in ChecklistModule
      BY <2>5, RowTypes DEF Fail, Job, ChecklistModuleStatus
    <3>2. run' \in [Workers -> Job] /\ Working'
      BY <2>5, MoveTypes DEF Fail
    <3> QED BY <2>5, <3>1, <3>2 DEF Fail, Decides, Deciding
  <2>6. CASE Defer(w)
    <3>1. row' \in ChecklistModule
      BY <2>6, RowTypes DEF Defer, Job
    <3>2. run' \in [Workers -> Job] /\ Working'
      BY <2>6, MoveTypes DEF Defer
    <3> QED BY <2>6, <3>1, <3>2 DEF Defer, Decides, Deciding
  <2>7. CASE RouteFailure(w)
    <3>1. retry' \in SUBSET Message
      BY <2>7 DEF RouteFailure, FreshIds, Message, Job
    <3>2. run' \in [Workers -> Job] /\ Working'
      BY <2>7, MoveTypes DEF RouteFailure
    <3> QED BY <2>7, <3>1, <3>2 DEF RouteFailure, Decides, Deciding
  <2>8. CASE CommitOffset(w)
    <3>1. run' \in [Workers -> Job] /\ Working'
      BY <2>8, IdleTypes DEF CommitOffset
    <3> QED BY <2>8, <3>1 DEF CommitOffset, Decides, Deciding
  <2>9. CASE Heartbeat(w)
    <3> DEFINE beat == [run[w] EXCEPT !.beating = Owns(w)]
    <3>1. beat \in Job /\ (beat.pc = "idle" \/ beat.job \in JobIds)
      BY DEF Job, Owns, Working
    <3>2. run' = [run EXCEPT ![w] = beat]
      BY <2>9 DEF Heartbeat
    <3>3. run' \in [Workers -> Job] /\ Working'
      BY <3>1, <3>2, RunTypes
    <3>4. row' \in ChecklistModule
      BY <2>9, RowTypes DEF Heartbeat
    <3> QED BY <2>9, <3>3, <3>4 DEF Heartbeat, Decides, Deciding
  <2> QED BY <1>10, <2>1, <2>2, <2>3, <2>4, <2>5, <2>6, <2>7, <2>8, <2>9 DEF WorkerStep
<1>11. ASSUME NEW w \in Workers, WorkerFault(w) PROVE TypeInv'
  <2>1. budget' \in Budget
    BY <1>11, FaultTypes
       DEF WorkerFault, ClaimRaises, Raises, Escapes, Crash, HeartbeatFails, Redeliver
  <2>2. CASE \E m \in topic : ClaimRaises(w, m)
    BY <2>1, <2>2 DEF ClaimRaises, Working, Decides, Deciding
  <2>3. CASE \E error \in {"terminal", "retryable", "unexpected", "aborted"} : Raises(w, error)
    <3>1. PICK error \in {"terminal", "retryable", "unexpected", "aborted"} : Raises(w, error)
      BY <2>3
    <3> DEFINE raised == [run[w] EXCEPT !.pc = "handle", !.error = error, !.beating = FALSE]
    <3>2. raised \in Job /\ raised.job \in JobIds
      BY <3>1 DEF Raises, Job, Working
    <3>3. run' = [run EXCEPT ![w] = raised]
      BY <3>1 DEF Raises
    <3>4. run' \in [Workers -> Job] /\ Working'
      BY <3>2, <3>3, RunTypes
    <3> QED BY <2>1, <3>1, <3>4 DEF Raises, Decides, Deciding
  <2>4. CASE Escapes(w)
    <3>1. run' \in [Workers -> Job] /\ Working'
      BY <2>4, IdleTypes DEF Escapes
    <3> QED BY <2>1, <2>4, <3>1 DEF Escapes, Decides, Deciding
  <2>5. CASE Crash(w)
    <3>1. row' \in ChecklistModule
      BY <2>5 DEF Crash, ChecklistModule
    <3>2. topic' \in SUBSET Message
      BY <2>5 DEF Crash, Message, Job, Working
    <3>3. run' \in [Workers -> Job] /\ Working'
      BY <2>5, IdleTypes DEF Crash
    <3> QED BY <2>1, <2>5, <3>1, <3>2, <3>3 DEF Crash, Decides, Deciding
  <2>6. CASE HeartbeatFails(w)
    <3> DEFINE silent == [run[w] EXCEPT !.beating = FALSE]
    <3>1. silent \in Job /\ (silent.pc = "idle" \/ silent.job \in JobIds)
      BY DEF Job, Working
    <3>2. run' = [run EXCEPT ![w] = silent]
      BY <2>6 DEF HeartbeatFails
    <3>3. run' \in [Workers -> Job] /\ Working'
      BY <3>1, <3>2, RunTypes
    <3> QED BY <2>1, <2>6, <3>3 DEF HeartbeatFails, Decides, Deciding
  <2>7. CASE Redeliver(w)
    <3>1. topic' \in SUBSET Message
      BY <2>7 DEF Redeliver, Message, Job, Working
    <3> QED BY <2>1, <2>7, <3>1 DEF Redeliver, Working, Decides, Deciding
  <2> QED BY <1>11, <2>2, <2>3, <2>4, <2>5, <2>6, <2>7 DEF WorkerFault
<1>12. ASSUME NEW m \in retry, RetryDue(m) \/ RetryLost(m) PROVE TypeInv'
  <2>1. topic' \in SUBSET Message /\ retry' \in SUBSET Message /\ budget' \in Budget
    BY <1>12, FaultTypes DEF RetryDue, RetryLost
  <2> QED BY <1>12, <2>1 DEF RetryDue, RetryLost, Working, Decides, Deciding
<1>13. CASE LeaseExpires \/ LeaseOutrun \/ Age \/ Sweep
  <2>1. row' \in ChecklistModule
    BY <1>13 DEF LeaseExpires, LeaseOutrun, Age, Sweep, ChecklistModule
  <2>2. outbox' \in Nat /\ budget' \in Budget
    BY <1>13, FaultTypes DEF LeaseExpires, LeaseOutrun, Age, Sweep
  <2> QED BY <1>13, <2>1, <2>2
          DEF LeaseExpires, LeaseOutrun, Age, Sweep, Working, Decides, Deciding
<1>14. CASE UNCHANGED vars
  BY <1>14 DEF vars, Working, Decides, Deciding
<1> QED
  BY <1>1, <1>2, <1>3, <1>4, <1>5, <1>6, <1>7, <1>8, <1>9, <1>10, <1>11, <1>12, <1>13, <1>14
     DEF Next

\* Every reachable state is well typed, for every number of workers, users and faults.
THEOREM ChecklistTypeCorrect == Spec => []TypeOK
<1>1. TypeInv => TypeOK
  BY DEF TypeInv
<1> QED BY <1>1, TypeInit, TypeNext, PTL DEF Spec

-----------------------------------------------------------------------------
(* A module in review has a proposal to review *)

\* A proposal whose reviewers all loaded the module as `review`, so that whichever of
\* them commits first also takes the module out of `review`.
Firm(c) ==
    Pending(c) /\ \A u \in Users : Deciding(u) /\ req[u].set = c => req[u].seen = "review"

InReview == Live /\ row.status = "review"

ReviewInv == InReview => \E c \in ChangeSets : Firm(c)

\* A step that touches neither proposals nor requests, nor puts the module in review.
LEMMA ReviewKept ==
    ASSUME ReviewInv, sets' = sets, req' = req, InReview' => InReview
    PROVE  ReviewInv'
  BY DEF ReviewInv, Firm, Pending, Deciding

\* A new proposal is firm: nobody can be deciding it yet.
LEMMA ReviewStored ==
    ASSUME TypeInv, req' = req, NEW c \in ChangeSets, NEW operations \in Proposals,
           NEW origin \in {"generation", "chat"}, Store(c, origin, operations)
    PROVE  ReviewInv'
<1>1. sets[c].status = "absent" /\ sets'[c].status = "pending" /\ ~sets'[c].deleted
  BY DEF Store, TypeInv, TypeOK
<1>2. \A u \in Users : Deciding(u) => req[u].set # c
  BY <1>1 DEF TypeInv, Decides
<1>3. Firm(c)'
  BY <1>1, <1>2 DEF Firm, Pending, Deciding
<1> QED BY <1>3 DEF ReviewInv

\* A commit that leaves the module in review decided some other proposal.
LEMMA ReviewDecided ==
    ASSUME TypeInv, ReviewInv, NEW u \in Users, Deciding(u),
           NEW s \in {"applied", "discarded"}, NEW itemsLeft \in BOOLEAN,
           Decide(req[u].set, s), row' = SettledRow(req[u].seen, itemsLeft),
           req' = [req EXCEPT ![u] = NoRequest]
    PROVE  ReviewInv'
<1> SUFFICES ASSUME InReview' PROVE \E c \in ChangeSets : Firm(c)'
  BY DEF ReviewInv
<1>1. InReview /\ req[u].seen # "review"
  BY DEF TypeInv, TypeOK, InReview, Live, SettledRow, ChecklistModule
<1>2. PICK c \in ChangeSets : Firm(c)
  BY <1>1 DEF ReviewInv
<1>3. c # req[u].set /\ req[u].set \in ChangeSets
  BY <1>1, <1>2 DEF Firm, TypeInv, Decides
<1>4. sets'[c] = sets[c]
  BY <1>3, DecidedTypes DEF TypeInv, TypeOK
<1>5. \A x \in Users : Deciding(x)' => Deciding(x) /\ req'[x] = req[x]
  BY DEF TypeInv, TypeOK, Deciding, NoRequest
<1>6. Firm(c)'
  BY <1>2, <1>4, <1>5 DEF Firm, Pending
<1> QED BY <1>6

LEMMA ReviewNext == TypeInv /\ ReviewInv /\ [Next]_vars => ReviewInv'
<1> SUFFICES ASSUME TypeInv, ReviewInv, [Next]_vars PROVE ReviewInv'
  OBVIOUS
<1> USE DEF data, queue
<1>1. ASSUME NEW u \in Users, UserStep(u) PROVE ReviewInv'
  <2>1. CASE RequestRead(u)
    <3>1. \A x \in Users : Deciding(x)' => Deciding(x) /\ req'[x] = req[x]
      BY <2>1 DEF RequestRead, TypeInv, TypeOK, Deciding, NoRequest
    <3> QED BY <2>1, <3>1 DEF RequestRead, ReviewInv, InReview, Live, Firm, Pending
  <2>2. CASE \E c \in ChangeSets : RequirePending(u, c)
    <3>1. \A x \in Users : Deciding(x)' => Deciding(x) /\ req'[x] = req[x]
      BY <2>2 DEF RequirePending, TypeInv, TypeOK, Deciding, NoRequest
    <3>2. row' = row /\ sets' = sets
      BY <2>2 DEF RequirePending
    <3> QED BY <3>1, <3>2 DEF ReviewInv, InReview, Live, Firm, Pending
  <2> QED BY <1>1, <2>1, <2>2 DEF UserStep
<1>2. ASSUME NEW u \in Users, UserProgress(u) PROVE ReviewInv'
  <2>1. CASE RequestCommit(u)
    <3>1. row'.status = "generating"
      BY <2>1 DEF RequestCommit, TypeInv, TypeOK, ChecklistModule
    <3> QED BY <3>1 DEF ReviewInv, InReview
  <2>2. CASE LoadItems(u)
    <3>1. /\ Deciding(u) /\ req'[u].set = req[u].set /\ req'[u].seen = req[u].seen
          /\ \A x \in Users \ {u} : req'[x] = req[x]
      BY <2>2 DEF LoadItems, Deciding, TypeInv, TypeOK, Request
    <3>2. sets' = sets /\ row' = row
      BY <2>2 DEF LoadItems
    <3>3. \A c \in ChangeSets : Firm(c) => Firm(c)'
      BY <3>1, <3>2 DEF Firm, Pending, Deciding
    <3> QED BY <3>2, <3>3 DEF ReviewInv, InReview, Live
  <2>3. CASE ApplyCommit(u)
    <3>1. /\ Deciding(u) /\ Decide(req[u].set, "applied")
          /\ row' = SettledRow(req[u].seen, \E i \in Items : items'[i].state = "live")
          /\ req' = [req EXCEPT ![u] = NoRequest]
      BY <2>3 DEF ApplyCommit, Deciding
    <3> QED BY <3>1, ReviewDecided
  <2>4. CASE DiscardCommit(u)
    <3>1. /\ Deciding(u) /\ Decide(req[u].set, "discarded")
          /\ row' = SettledRow(req[u].seen, LiveItems # {})
          /\ req' = [req EXCEPT ![u] = NoRequest]
      BY <2>4 DEF DiscardCommit, Deciding
    <3> QED BY <3>1, ReviewDecided
  <2>5. CASE RequireModule(u)
    <3> SUFFICES ASSUME InReview PROVE \E c \in ChangeSets : Firm(c)'
      BY <2>5 DEF RequireModule, ReviewInv, InReview, Live
    <3>1. PICK c \in ChangeSets : Firm(c)
      BY DEF ReviewInv
    <3>2. req'[u].seen = "review" /\ \A x \in Users \ {u} : req'[x] = req[x]
      BY <2>5 DEF RequireModule, TypeInv, TypeOK, Request, InReview
    <3>3. sets' = sets
      BY <2>5 DEF RequireModule
    <3>4. Firm(c)'
      BY <3>1, <3>2, <3>3 DEF Firm, Pending, Deciding
    <3> QED BY <3>4
  <2> QED BY <1>2, <2>1, <2>2, <2>3, <2>4, <2>5 DEF UserProgress
<1>3. CASE Update \/ PrepareTurn
  <2>1. InReview' => InReview
    BY <1>3 DEF Update, PrepareTurn, TypeInv, TypeOK, ChecklistModule, InReview, Live
  <2> QED BY <1>3, <2>1, ReviewKept DEF Update, PrepareTurn
<1>4. CASE Delete
  <2>1. row'.deleted
    BY <1>4 DEF Delete, TypeInv, TypeOK, ChecklistModule
  <2> QED BY <2>1 DEF ReviewInv, InReview, Live
<1>5. CASE FinaliseTurn
  <2>1. CASE \E c \in ChangeSets, operations \in Proposals : Store(c, "chat", operations)
    BY <1>5, <2>1, ReviewStored DEF FinaliseTurn
  <2>2. CASE row' = row /\ sets' = sets
    BY <1>5, <2>2, ReviewKept DEF FinaliseTurn, InReview, Live
  <2> QED BY <1>5, <2>1, <2>2 DEF FinaliseTurn
<1>6. CASE ItemStep
  <2>1. row' = row /\ sets' = sets /\ req' = req
    BY <1>6 DEF ItemStep, CreateItem, UpdateItem, DeleteItem, SetResult, ClearResults, Write
  <2> QED BY <2>1, ReviewKept DEF InReview, Live
<1>7. CASE Publish \/ PublishLost
  BY <1>7, ReviewKept DEF Publish, PublishLost, InReview, Live
<1>8. ASSUME NEW w \in Workers, WorkerStep(w) PROVE ReviewInv'
  <2>1. CASE \E m \in topic : Claim(w, m) \/ Skip(w, m)
    <3>1. InReview' => InReview
      BY <2>1 DEF Claim, Skip, ClaimedRow, TypeInv, TypeOK, ChecklistModule, InReview, Live
    <3> QED BY <2>1, <3>1, ReviewKept DEF Claim, Skip
  <2>2. CASE Finish(w)
    <3>1. CASE Releasable(w)
      BY <2>2, <3>1, ReviewStored DEF Finish
    <3>2. CASE ~Releasable(w)
      BY <2>2, <3>2, ReviewKept DEF Finish, InReview, Live
    <3> QED BY <3>1, <3>2
  <2>3. CASE Fail(w) \/ Defer(w) \/ Heartbeat(w)
    <3>1. InReview' => InReview
      BY <2>3 DEF Fail, Defer, Heartbeat, ReleasedRow, DeferredRow, RenewedRow, TypeInv,
                  TypeOK, ChecklistModule, InReview, Live
    <3> QED BY <2>3, <3>1, ReviewKept DEF Fail, Defer, Heartbeat
  <2>4. CASE Propose(w) \/ RouteFailure(w) \/ CommitOffset(w)
    BY <2>4, ReviewKept DEF Propose, RouteFailure, CommitOffset, InReview, Live
  <2> QED BY <1>8, <2>1, <2>2, <2>3, <2>4 DEF WorkerStep
<1>9. ASSUME NEW w \in Workers, WorkerFault(w) PROVE ReviewInv'
  <2>1. InReview' => InReview
    BY <1>9 DEF WorkerFault, ClaimRaises, Raises, Escapes, Crash, HeartbeatFails, Redeliver,
                TypeInv, TypeOK, ChecklistModule, InReview, Live
  <2>2. sets' = sets /\ req' = req
    BY <1>9 DEF WorkerFault, ClaimRaises, Raises, Escapes, Crash, HeartbeatFails, Redeliver
  <2> QED BY <2>1, <2>2, ReviewKept
<1>10. ASSUME NEW m \in retry, RetryDue(m) \/ RetryLost(m) PROVE ReviewInv'
  BY <1>10, ReviewKept DEF RetryDue, RetryLost, InReview, Live
<1>11. CASE LeaseExpires \/ LeaseOutrun \/ Age \/ Sweep
  <2>1. InReview' => InReview
    BY <1>11 DEF LeaseExpires, LeaseOutrun, Age, Sweep, TypeInv, TypeOK, ChecklistModule,
                 InReview, Live
  <2> QED BY <1>11, <2>1, ReviewKept DEF LeaseExpires, LeaseOutrun, Age, Sweep
<1>12. CASE UNCHANGED vars
  BY <1>12, ReviewKept DEF vars, InReview, Live
<1> QED
  BY <1>1, <1>2, <1>3, <1>4, <1>5, <1>6, <1>7, <1>8, <1>9, <1>10, <1>11, <1>12 DEF Next

\* A live module in `review` always has a pending proposal, however apply, discard, chat
\* turns, generation runs, crashes and deletes overlap.
THEOREM ReviewSafe == Spec => []ReviewHasProposal
<1>1. Init => ReviewInv
  BY DEF Init, ReviewInv, InReview
<1>2. ReviewInv => ReviewHasProposal
  BY DEF ReviewInv, InReview, Firm, ReviewHasProposal
<1> QED BY <1>1, <1>2, TypeInit, TypeNext, ReviewNext, PTL DEF Spec

-----------------------------------------------------------------------------
(* Model wording, results and proposals *)

\* No step creates an item's wording but the ones that name its author.
LEMMA ReviewedKept ==
    ASSUME ModelTextWasReviewed, items' = items,
           \A c \in ChangeSets : sets[c].status \in {"applied", "discarded"}
                                   => sets'[c].status \in {"applied", "discarded"}
    PROVE  ModelTextWasReviewed'
  BY DEF ModelTextWasReviewed

\* A proposal is stored under an id that no item carries.
LEMMA StoreReviewed ==
    ASSUME TypeInv, ModelTextWasReviewed, items' = items,
           NEW b \in ChangeSets, NEW operations, NEW origin, Store(b, origin, operations)
    PROVE  ModelTextWasReviewed'
<1>1. /\ sets[b].status = "absent"
      /\ \A c \in ChangeSets : c # b => sets'[c] = sets[c]
  BY DEF Store, TypeInv, TypeOK
<1> QED BY <1>1 DEF ModelTextWasReviewed

LEMMA ModelTextNext ==
    TypeInv /\ ModelTextWasReviewed /\ [Next]_vars => ModelTextWasReviewed'
<1> SUFFICES ASSUME TypeInv, ModelTextWasReviewed, [Next]_vars PROVE ModelTextWasReviewed'
  OBVIOUS
<1> USE DEF data, queue
<1>1. ASSUME NEW u \in Users, UserStep(u) PROVE ModelTextWasReviewed'
  BY <1>1, ReviewedKept DEF UserStep, RequestRead, RequirePending
<1>2. ASSUME NEW u \in Users, UserProgress(u) PROVE ModelTextWasReviewed'
  <2>1. CASE RequestCommit(u) \/ RequireModule(u) \/ LoadItems(u)
    BY <2>1, ReviewedKept DEF RequestCommit, RequireModule, LoadItems
  <2>2. CASE ApplyCommit(u)
    <3>1. req[u].set \in ChangeSets /\ Decide(req[u].set, "applied")
      BY <2>2 DEF ApplyCommit, TypeInv, Decides, Deciding
    <3>2. \A c \in ChangeSets :
            sets'[c].status = IF c = req[u].set THEN "applied" ELSE sets[c].status
      BY <3>1, DecidedTypes DEF TypeInv, TypeOK
    <3>3. \A i \in Items : items'[i].by \in {req[u].set, items[i].by}
      BY <2>2 DEF ApplyCommit, AppliedItem
    <3> QED BY <3>2, <3>3 DEF ModelTextWasReviewed
  <2>3. CASE DiscardCommit(u)
    <3>1. req[u].set \in ChangeSets /\ Decide(req[u].set, "discarded")
      BY <2>3 DEF DiscardCommit, TypeInv, Decides, Deciding
    <3>2. \A c \in ChangeSets :
            sets'[c].status = IF c = req[u].set THEN "discarded" ELSE sets[c].status
      BY <3>1, DecidedTypes DEF TypeInv, TypeOK
    <3>3. items' = items
      BY <2>3 DEF DiscardCommit
    <3> QED BY <3>2, <3>3, ReviewedKept
  <2> QED BY <1>2, <2>1, <2>2, <2>3 DEF UserProgress
<1>3. CASE Delete
  <2>1. \A c \in ChangeSets : sets'[c].status = sets[c].status
    BY <1>3 DEF Delete, TypeInv, TypeOK, ChangeSet
  <2>2. \A i \in Items : items'[i].by = items[i].by
    BY <1>3 DEF Delete, TypeInv, TypeOK, Item
  <2> QED BY <2>1, <2>2 DEF ModelTextWasReviewed
<1>4. CASE Update \/ PrepareTurn \/ Publish \/ PublishLost \/ LeaseExpires \/ LeaseOutrun
             \/ Age \/ Sweep \/ UNCHANGED vars
  BY <1>4, ReviewedKept DEF Update, PrepareTurn, Publish, PublishLost, LeaseExpires,
                            LeaseOutrun, Age, Sweep, vars
<1>5. CASE FinaliseTurn
  <2>1. CASE \E c \in ChangeSets, operations \in Proposals : Store(c, "chat", operations)
    BY <1>5, <2>1, StoreReviewed DEF FinaliseTurn
  <2>2. CASE sets' = sets
    BY <1>5, <2>2, ReviewedKept DEF FinaliseTurn
  <2> QED BY <1>5, <2>1, <2>2 DEF FinaliseTurn
<1>6. CASE ItemStep
  <2>1. sets' = sets
    BY <1>6 DEF ItemStep, CreateItem, UpdateItem, DeleteItem, SetResult, ClearResults, Write
  <2>2. \A i \in Items : items'[i].by \in {Human, items[i].by}
    <3>1. CASE \E i \in Items : CreateItem(i) \/ UpdateItem(i) \/ DeleteItem(i)
      BY <3>1 DEF CreateItem, UpdateItem, DeleteItem, Write, TypeInv, TypeOK, Item
    <3>2. CASE \E i \in Items, v \in Verdicts \cup {Untested} : SetResult(i, v)
      BY <3>2 DEF SetResult, Write, TypeInv, TypeOK, Item
    <3>3. CASE ClearResults
      BY <3>3 DEF ClearResults, TypeInv, TypeOK, Item
    <3> QED BY <1>6, <3>1, <3>2, <3>3 DEF ItemStep
  <2> QED BY <2>1, <2>2, DistinctAssumption DEF ModelTextWasReviewed
<1>7. ASSUME NEW w \in Workers, WorkerStep(w) PROVE ModelTextWasReviewed'
  <2>1. items' = items
    BY <1>7 DEF WorkerStep, Claim, Skip, Propose, Finish, Fail, Defer, RouteFailure,
                CommitOffset, Heartbeat
  <2>2. CASE Finish(w) /\ Releasable(w)
    BY <2>1, <2>2, StoreReviewed DEF Finish
  <2>3. CASE ~(Finish(w) /\ Releasable(w))
    <3>1. sets' = sets
      BY <1>7, <2>3 DEF WorkerStep, Claim, Skip, Propose, Finish, Fail, Defer,
                        RouteFailure, CommitOffset, Heartbeat
    <3> QED BY <2>1, <3>1, ReviewedKept
  <2> QED BY <2>2, <2>3
<1>8. ASSUME NEW w \in Workers, WorkerFault(w) PROVE ModelTextWasReviewed'
  BY <1>8, ReviewedKept
     DEF WorkerFault, ClaimRaises, Raises, Escapes, Crash, HeartbeatFails, Redeliver
<1>9. ASSUME NEW m \in retry, RetryDue(m) \/ RetryLost(m) PROVE ModelTextWasReviewed'
  BY <1>9, ReviewedKept DEF RetryDue, RetryLost
<1> QED BY <1>1, <1>2, <1>3, <1>4, <1>5, <1>6, <1>7, <1>8, <1>9 DEF Next

\* No item ever carries a model's wording before somebody decided the change set it came
\* in, whatever chat turns, generations and item edits do meanwhile.
THEOREM ModelTextSafe == Spec => []ModelTextWasReviewed
<1>1. Init => ModelTextWasReviewed
  BY DistinctAssumption DEF Init, NoItem, ModelTextWasReviewed
<1> QED BY <1>1, TypeInit, TypeNext, ModelTextNext, PTL DEF Spec

\* Only item edits, and the creation of an item, write results.
LEMMA ResultsStep ==
    ASSUME TypeInv, [Next]_vars, NEW i \in Items, items[i].state = "live",
           items'[i].result # items[i].result
    PROVE  row' = row /\ sets' = sets
<1> USE DEF data, queue
<1>1. CASE items' = items
  BY <1>1
<1>2. CASE ItemStep
  BY <1>2 DEF ItemStep, CreateItem, UpdateItem, DeleteItem, SetResult, ClearResults, Write
<1>3. CASE Delete
  <2>1. items'[i].result = items[i].result
    BY <1>3 DEF Delete, TypeInv, TypeOK, Item
  <2> QED BY <2>1
<1>4. ASSUME NEW u \in Users, ApplyCommit(u) PROVE FALSE
  <2>1. items'[i].result = items[i].result
    BY <1>4 DEF ApplyCommit, AppliedItem
  <2> QED BY <2>1
<1>5. CASE \E u \in Users : UserStep(u)
  BY <1>1, <1>5 DEF UserStep, RequestRead, RequirePending
<1>6. CASE \E u \in Users : UserProgress(u)
  BY <1>1, <1>4, <1>6 DEF UserProgress, RequestCommit, RequireModule, LoadItems,
                           DiscardCommit
<1>7. CASE \E w \in Workers : WorkerStep(w)
  BY <1>1, <1>7 DEF WorkerStep, Claim, Skip, Propose, Finish, Fail, Defer, RouteFailure,
                    CommitOffset, Heartbeat
<1>8. CASE \E w \in Workers : WorkerFault(w)
  BY <1>1, <1>8
     DEF WorkerFault, ClaimRaises, Raises, Escapes, Crash, HeartbeatFails, Redeliver
<1>9. CASE Update \/ PrepareTurn \/ FinaliseTurn \/ Publish \/ PublishLost \/ LeaseExpires
             \/ LeaseOutrun \/ Age \/ Sweep \/ UNCHANGED vars
             \/ \E m \in retry : RetryDue(m) \/ RetryLost(m)
  BY <1>1, <1>9 DEF Update, PrepareTurn, FinaliseTurn, Publish, PublishLost, LeaseExpires,
                    LeaseOutrun, Age, Sweep, RetryDue, RetryLost, vars
<1> QED BY <1>2, <1>3, <1>5, <1>6, <1>7, <1>8, <1>9 DEF Next

\* No decision, run or request ever changes a result a tester recorded, even one recorded
\* between its read and its commit.
THEOREM ResultsKept == Spec => ResultsAreTheTesters
<1>1. TypeInv /\ [Next]_vars
        => [\A i \in Items : items[i].state = "live" /\ items'[i].result # items[i].result
              => row' = row /\ sets' = sets]_vars
  BY ResultsStep
<1> QED BY <1>1, TypeInit, TypeNext, PTL DEF Spec, ResultsAreTheTesters

\* Only Finish stores a generation's proposal, and it releases the module with it.
LEMMA ProposalStep ==
    ASSUME TypeInv, [Next]_vars, NEW c \in ChangeSets, sets[c].status = "absent",
           sets'[c].status = "pending", sets'[c].origin = "generation"
    PROVE  row.owner \in Workers /\ row'.status = "review" /\ row'.lease = "none"
<1> USE DEF data, queue
<1>1. sets' # sets
  OBVIOUS
<1>2. ASSUME NEW w \in Workers, WorkerStep(w)
      PROVE  row.owner \in Workers /\ row'.status = "review" /\ row'.lease = "none"
  <2>1. Finish(w) /\ Releasable(w)
    BY <1>1, <1>2 DEF WorkerStep, Claim, Skip, Propose, Finish, Fail, Defer, RouteFailure,
                      CommitOffset, Heartbeat
  <2>2. row' = ReleasedRow(run[w].job, "review") /\ row.owner \in Workers
    BY <2>1 DEF Finish, Releasable, Owns
  <2> QED BY <2>2 DEF ReleasedRow, TypeInv, TypeOK, ChecklistModule
<1>3. ASSUME FinaliseTurn PROVE FALSE
  <2>1. PICK b \in ChangeSets, operations \in Proposals : Store(b, "chat", operations)
    BY <1>1, <1>3 DEF FinaliseTurn
  <2>2. sets'[b].origin = "chat" /\ \A d \in ChangeSets : d # b => sets'[d] = sets[d]
    BY <2>1 DEF Store, TypeInv, TypeOK
  <2> QED BY <2>2
<1>4. ASSUME NEW u \in Users, UserStep(u) \/ UserProgress(u) PROVE FALSE
  <2>1. PICK s \in {"applied", "discarded"} :
          Deciding(u) /\ Decide(req[u].set, s)
    BY <1>1, <1>4 DEF UserStep, RequestRead, RequirePending, UserProgress, RequestCommit,
                      RequireModule, LoadItems, ApplyCommit, DiscardCommit, Deciding
  <2>2. req[u].set \in ChangeSets
    BY <2>1 DEF TypeInv, Decides
  <2>3. sets'[c].status \in {s, sets[c].status}
    BY <2>1, <2>2, DecidedTypes DEF TypeInv, TypeOK
  <2> QED BY <2>3
<1>5. ASSUME Delete PROVE FALSE
  BY <1>5 DEF Delete, TypeInv, TypeOK
<1>6. ASSUME ItemStep PROVE FALSE
  BY <1>1, <1>6
     DEF ItemStep, CreateItem, UpdateItem, DeleteItem, SetResult, ClearResults, Write
<1>7. ASSUME NEW w \in Workers, WorkerFault(w) PROVE FALSE
  BY <1>1, <1>7
     DEF WorkerFault, ClaimRaises, Raises, Escapes, Crash, HeartbeatFails, Redeliver
<1>8. ASSUME \/ Update \/ PrepareTurn \/ Publish \/ PublishLost \/ LeaseExpires
             \/ LeaseOutrun \/ Age \/ Sweep \/ UNCHANGED vars
             \/ \E m \in retry : RetryDue(m) \/ RetryLost(m)
      PROVE  FALSE
  BY <1>1, <1>8 DEF Update, PrepareTurn, Publish, PublishLost, LeaseExpires, LeaseOutrun,
                    Age, Sweep, RetryDue, RetryLost, vars
<1> QED BY <1>2, <1>3, <1>4, <1>5, <1>6, <1>7, <1>8 DEF Next

\* A generation's proposal lands in the transaction that releases the module or not at
\* all: a worker that lost its lease leaves no proposal behind.
THEOREM ProposalAtomic == Spec => ProposalLandsWithRelease
<1>1. TypeInv /\ [Next]_vars
        => [\A c \in ChangeSets :
              sets[c].status = "absent" /\ sets'[c].status = "pending"
                  /\ sets'[c].origin = "generation"
                => row.owner \in Workers /\ row'.status = "review" /\ row'.lease = "none"]_vars
  BY ProposalStep
<1> QED BY <1>1, TypeInit, TypeNext, PTL DEF Spec, ProposalLandsWithRelease

-----------------------------------------------------------------------------
(* One generator at a time *)

\* A worker that still renews its lease is in its run, and the lease is its own.
BeatInv ==
    \A w \in Workers : run[w].beating => Owns(w) /\ row.lease = "live" /\ run[w].pc = "running"

\* A worker that stops renewing disturbs nobody.
LEMMA BeatStopped ==
    ASSUME TypeInv, BeatInv, NEW w \in Workers, NEW r, ~r.beating,
           run' = [run EXCEPT ![w] = r], row' = row
    PROVE  BeatInv'
  BY DEF TypeInv, TypeOK, BeatInv, Owns

LEMMA BeatNext ==
    ASSUME ~HeartbeatMayFail, TypeInv, BeatInv, [Next]_vars
    PROVE  BeatInv'
<1> USE DEF data, queue
<1>1. ASSUME row'.owner = row.owner, row'.lease = row.lease, run' = run PROVE BeatInv'
  BY <1>1 DEF BeatInv, Owns
<1>2. ASSUME NEW u \in Users, UserStep(u) \/ UserProgress(u) PROVE BeatInv'
  BY <1>1, <1>2 DEF UserStep, RequestRead, RequirePending, UserProgress, RequestCommit,
                    RequireModule, LoadItems, ApplyCommit, DiscardCommit, SettledRow, TypeInv, TypeOK,
                    ChecklistModule
<1>3. CASE Update \/ Delete \/ PrepareTurn \/ FinaliseTurn \/ Publish \/ PublishLost
             \/ Age \/ Sweep \/ UNCHANGED vars
  BY <1>1, <1>3 DEF Update, Delete, PrepareTurn, FinaliseTurn, InReviewRow, Publish,
                    PublishLost, Age, Sweep, vars, TypeInv, TypeOK, ChecklistModule
<1>4. CASE ItemStep
  BY <1>1, <1>4
     DEF ItemStep, CreateItem, UpdateItem, DeleteItem, SetResult, ClearResults, Write
<1>5. ASSUME NEW w \in Workers, WorkerStep(w) PROVE BeatInv'
  <2>1. CASE \E m \in topic : Claim(w, m)
    <3>1. row.lease # "live" /\ row'.owner = w /\ row'.lease = "live"
      BY <2>1 DEF Claim, Claimable, ClaimedRow, TypeInv, TypeOK, ChecklistModule
    <3>2. \A x \in Workers : ~run[x].beating
      BY <3>1 DEF BeatInv
    <3>3. run'[w].pc = "running" /\ \A x \in Workers : x # w => run'[x] = run[x]
      BY <2>1 DEF Claim, Idle, TypeInv, TypeOK
    <3> QED BY <3>1, <3>2, <3>3 DEF BeatInv, Owns
  <2>2. CASE \E m \in topic : Skip(w, m)
    BY <1>1, <2>2 DEF Skip
  <2>3. CASE Propose(w) \/ RouteFailure(w) \/ CommitOffset(w)
    <3>1. CASE Propose(w)
      <4> DEFINE r == [run[w] EXCEPT !.pc = "proposed", !.beating = FALSE]
      <4>1. ~r.beating
        BY DEF TypeInv, TypeOK, Job
      <4> QED BY <3>1, <4>1, BeatStopped DEF Propose
    <3>2. CASE RouteFailure(w)
      <4> DEFINE r == [run[w] EXCEPT !.pc = "done"]
      <4>1. ~r.beating
        BY <3>2 DEF RouteFailure, BeatInv, TypeInv, TypeOK, Job
      <4> QED BY <3>2, <4>1, BeatStopped DEF RouteFailure, Move
    <3>3. CASE CommitOffset(w)
      <4>1. ~Idle.beating
        BY DEF Idle
      <4> QED BY <3>3, <4>1, BeatStopped DEF CommitOffset
    <3> QED BY <2>3, <3>1, <3>2, <3>3
  <2>4. CASE Finish(w) \/ Fail(w) \/ Defer(w)
    <3>1. ~run[w].beating
      BY <2>4 DEF BeatInv, Finish, Fail, Defer
    <3>2. \A x \in Workers : run'[x].beating => x # w /\ run'[x] = run[x]
      BY <2>4, <3>1 DEF Finish, Fail, Defer, Move, TypeInv, TypeOK, Job
    <3>3. ASSUME NEW x \in Workers, run'[x].beating PROVE row' = row
      <4>1. ~Owns(w)
        BY <3>2, <3>3 DEF BeatInv, Owns
      <4> QED BY <2>4, <4>1 DEF Finish, Fail, Defer, Releasable
    <3> QED BY <3>2, <3>3 DEF BeatInv, Owns
  <2>5. CASE Heartbeat(w)
    BY <2>5 DEF Heartbeat, BeatInv
  <2> QED BY <1>5, <2>1, <2>2, <2>3, <2>4, <2>5 DEF WorkerStep
<1>6. ASSUME NEW w \in Workers, WorkerFault(w) PROVE BeatInv'
  <2>1. CASE (\E m \in topic : ClaimRaises(w, m)) \/ Redeliver(w) \/ HeartbeatFails(w)
    BY <1>1, <2>1 DEF ClaimRaises, Redeliver, HeartbeatFails
  <2>2. CASE \/ \E error \in {"terminal", "retryable", "unexpected", "aborted"} :
                  Raises(w, error)
             \/ Escapes(w)
    <3>1. CASE Escapes(w)
      <4>1. ~Idle.beating
        BY DEF Idle
      <4> QED BY <3>1, <4>1, BeatStopped DEF Escapes
    <3>2. ASSUME NEW error \in {"terminal", "retryable", "unexpected", "aborted"},
                 Raises(w, error)
          PROVE  BeatInv'
      <4> DEFINE r == [run[w] EXCEPT !.pc = "handle", !.error = error, !.beating = FALSE]
      <4>1. ~r.beating
        BY DEF TypeInv, TypeOK, Job
      <4> QED BY <3>2, <4>1, BeatStopped DEF Raises
    <3> QED BY <2>2, <3>1, <3>2
  <2>3. CASE Crash(w)
    <3>1. \A x \in Workers : run'[x].beating => x # w /\ run'[x] = run[x]
      BY <2>3 DEF Crash, Idle, TypeInv, TypeOK
    <3>2. ASSUME NEW x \in Workers, run'[x].beating PROVE row' = row
      BY <2>3, <3>1, <3>2 DEF Crash, BeatInv, Owns
    <3> QED BY <3>1, <3>2 DEF BeatInv, Owns
  <2> QED BY <1>6, <2>1, <2>2, <2>3 DEF WorkerFault
<1>7. ASSUME NEW m \in retry, RetryDue(m) \/ RetryLost(m) PROVE BeatInv'
  BY <1>1, <1>7 DEF RetryDue, RetryLost
<1>8. CASE LeaseExpires
  <2>1. \A w \in Workers : ~run[w].beating
    BY <1>8 DEF LeaseExpires, Holding, BeatInv
  <2> QED BY <1>8, <2>1 DEF LeaseExpires, BeatInv
<1>9. CASE LeaseOutrun
  BY <1>9 DEF LeaseOutrun
<1> QED BY <1>2, <1>3, <1>4, <1>5, <1>6, <1>7, <1>8, <1>9 DEF Next

\* As long as heartbeats neither die nor come too late, two workers never generate for
\* the module at once, however often records are redelivered, retried or swept.
THEOREM OneGeneratorSafe ==
    ASSUME ~HeartbeatMayFail
    PROVE  Spec => []OneGenerator
<1>1. Init => BeatInv
  BY DEF Init, Idle, BeatInv
<1>2. BeatInv => OneGenerator
  BY DEF BeatInv, OneGenerator, Owns
<1>3. TypeInv /\ BeatInv /\ [Next]_vars => BeatInv'
  BY BeatNext
<1> QED BY <1>1, <1>2, <1>3, TypeInit, TypeNext, PTL DEF Spec

-----------------------------------------------------------------------------
(* Generation implements LeasedWork *)

\* Only the origin of a stored change set, and that it is stored, decide what Generated is.
LEMMA GeneratedKept ==
    ASSUME \A c \in ChangeSets :
             /\ sets'[c].status = "absent" <=> sets[c].status = "absent"
             /\ sets[c].status # "absent" => sets'[c].origin = sets[c].origin
    PROVE  Generated' = Generated
  BY DEF Generated

\* Storing a proposal adds one to the generated ones, or none when it came from chat.
LEMMA GeneratedStored ==
    ASSUME TypeInv, NEW c \in ChangeSets, NEW operations,
           NEW origin \in {"generation", "chat"}, Store(c, origin, operations)
    PROVE  /\ origin = "chat" => Generated' = Generated
           /\ origin = "generation" => Cardinality(Generated)' = Cardinality(Generated) + 1
<1>1. /\ sets[c].status = "absent" /\ sets'[c].status = "pending" /\ sets'[c].origin = origin
      /\ \A b \in ChangeSets : b # c => sets'[b] = sets[b]
  BY DEF Store, TypeInv, TypeOK
<1>2. CASE origin = "chat"
  BY <1>1, <1>2 DEF Generated
<1>3. CASE origin = "generation"
  <2>1. Generated' = Generated \cup {c} /\ c \notin Generated
    BY <1>1, <1>3 DEF Generated
  <2>2. IsFiniteSet(Generated)
    BY FiniteAssumption, FS_Subset DEF Generated
  <2>3. Cardinality(Generated \cup {c}) = Cardinality(Generated) + 1
    BY <2>1, <2>2, FS_AddElement
  <2> QED BY <1>3, <2>1, <2>3
<1> QED BY <1>2, <1>3

\* Every step is one of LeasedWork's or changes nothing the mapping reads.
LEMMA LeaseStep ==
    ASSUME TypeInv, [Next]_vars
    PROVE  [Work!Next]_(Work!vars)
<1> DEFINE Same == /\ row'.owner = row.owner /\ row'.lease = row.lease
                   /\ row'.deleted = row.deleted
           Goal == [Work!Next]_(Work!vars)
<1>0. Same /\ Generated' = Generated => Goal
  BY DEF Work!vars
<1> SUFFICES Goal
  OBVIOUS
<1> HIDE DEF Goal
<1>K. sets' = sets => Generated' = Generated
  BY GeneratedKept
<1> USE DEF data, queue
<1>1. CASE UNCHANGED <<row, sets>>
  BY <1>0, <1>1, <1>K
<1>2. ASSUME NEW u \in Users, UserStep(u) \/ UserProgress(u) PROVE Goal
  <2>1. CASE \/ RequestRead(u) \/ RequireModule(u) \/ LoadItems(u)
             \/ \E c \in ChangeSets : RequirePending(u, c)
    <3>1. RequestRead(u) => UNCHANGED <<row, sets>>
      BY DEF RequestRead
    <3>2. RequireModule(u) => UNCHANGED <<row, sets>>
      BY DEF RequireModule
    <3>3. LoadItems(u) => UNCHANGED <<row, sets>>
      BY DEF LoadItems
    <3>4. ASSUME NEW c \in ChangeSets, RequirePending(u, c) PROVE UNCHANGED <<row, sets>>
      BY <3>4 DEF RequirePending
    <3> QED BY <1>1, <2>1, <3>1, <3>2, <3>3, <3>4
  <2>2. CASE RequestCommit(u)
    <3>1. Same
      BY <2>2 DEF RequestCommit, TypeInv, TypeOK, ChecklistModule
    <3> QED BY <1>0, <1>K, <2>2, <3>1 DEF RequestCommit
  <2>3. ASSUME NEW s \in {"applied", "discarded"}, Deciding(u), Decide(req[u].set, s),
               NEW itemsLeft, row' = SettledRow(req[u].seen, itemsLeft)
        PROVE  Goal
    <3>1. Same
      BY <2>3 DEF SettledRow, TypeInv, TypeOK, ChecklistModule
    <3>2. req[u].set \in ChangeSets /\ sets[req[u].set].status # "absent"
      BY <2>3 DEF TypeInv, Decides
    <3>3. \A c \in ChangeSets :
            /\ sets'[c].status = IF c = req[u].set THEN s ELSE sets[c].status
            /\ sets'[c].origin = sets[c].origin
      BY <2>3, <3>2 DEF Decide, TypeInv, TypeOK, ChangeSet
    <3>4. Generated' = Generated
      BY <3>2, <3>3, GeneratedKept
    <3> QED BY <1>0, <3>1, <3>4
  <2>4. CASE ApplyCommit(u)
    <3>1. Deciding(u) /\ Decide(req[u].set, "applied")
      BY <2>4 DEF ApplyCommit, Deciding
    <3>2. row' = SettledRow(req[u].seen, \E i \in Items : items'[i].state = "live")
      BY <2>4 DEF ApplyCommit
    <3> QED BY <2>3, <3>1, <3>2
  <2>5. CASE DiscardCommit(u)
    <3>1. Deciding(u) /\ Decide(req[u].set, "discarded")
      BY <2>5 DEF DiscardCommit, Deciding
    <3>2. row' = SettledRow(req[u].seen, LiveItems # {})
      BY <2>5 DEF DiscardCommit
    <3> QED BY <2>3, <3>1, <3>2
  <2> QED BY <1>2, <2>1, <2>2, <2>4, <2>5 DEF UserStep, UserProgress
<1>3. CASE Delete
  <2>1. /\ row'.owner = row.owner /\ row'.lease = row.lease
        /\ ~row.deleted /\ row'.deleted
    BY <1>3 DEF Delete, Live, TypeInv, TypeOK, ChecklistModule
  <2>2. Generated' = Generated
    <3>1. \A c \in ChangeSets :
            sets'[c].status = sets[c].status /\ sets'[c].origin = sets[c].origin
      BY <1>3 DEF Delete, TypeInv, TypeOK, ChangeSet
    <3> QED BY <3>1, GeneratedKept
  <2>3. Work!Delete
    BY <2>1, <2>2 DEF Work!Delete
  <2> QED BY <2>3 DEF Goal, Work!Next
<1>4. CASE FinaliseTurn
  <2>1. Same
    BY <1>4 DEF FinaliseTurn, InReviewRow, TypeInv, TypeOK, ChecklistModule
  <2>2. Generated' = Generated
    <3>1. CASE sets' = sets
      BY <1>K, <3>1
    <3>2. CASE \E c \in ChangeSets, operations \in Proposals : Store(c, "chat", operations)
      BY <3>2, GeneratedStored
    <3> QED BY <1>4, <3>1, <3>2 DEF FinaliseTurn
  <2> QED BY <1>0, <2>1, <2>2
<1>5. CASE ItemStep
  BY <1>1, <1>5
     DEF ItemStep, CreateItem, UpdateItem, DeleteItem, SetResult, ClearResults, Write
<1>6. CASE Update \/ Age \/ Sweep
  <2>1. Same
    BY <1>6 DEF Update, Age, Sweep, TypeInv, TypeOK, ChecklistModule
  <2>2. sets' = sets
    BY <1>6 DEF Update, Age, Sweep
  <2> QED BY <1>0, <1>K, <2>1, <2>2
<1>7. CASE LeaseExpires \/ LeaseOutrun
  <2>1. /\ row'.owner = row.owner /\ row'.deleted = row.deleted
        /\ row.lease = "live" /\ row'.lease = "expired" /\ sets' = sets
    BY <1>7 DEF LeaseExpires, LeaseOutrun, TypeInv, TypeOK, ChecklistModule
  <2>2. Work!Lapse
    BY <1>K, <2>1 DEF Work!Lapse
  <2> QED BY <2>2 DEF Goal, Work!Next
<1>8. ASSUME NEW w \in Workers, WorkerStep(w) PROVE Goal
  <2>1. CASE \E m \in topic : Claim(w, m)
    <3>1. /\ row.lease # "live" /\ ~row.deleted /\ row'.owner = w /\ row'.lease = "live"
          /\ row'.deleted = row.deleted /\ sets' = sets
      BY <2>1 DEF Claim, Claimable, ClaimedRow, Live, TypeInv, TypeOK, ChecklistModule
    <3>2. Work!Take(w)
      BY <1>K, <3>1 DEF Work!Take
    <3> QED BY <3>2 DEF Goal, Work!Next
  <2>2. CASE \/ \E m \in topic : Skip(w, m)
             \/ Propose(w) \/ RouteFailure(w) \/ CommitOffset(w)
    BY <1>1, <2>2 DEF Skip, Propose, RouteFailure, CommitOffset
  <2>3. CASE Finish(w) /\ Releasable(w)
    <3>1. /\ row.owner = w /\ ~row.deleted /\ row'.owner = None /\ row'.lease = "none"
          /\ row'.deleted = row.deleted
      BY <2>3 DEF Finish, Releasable, Owns, Live, ReleasedRow, TypeInv, TypeOK, ChecklistModule
    <3>2. Cardinality(Generated)' = Cardinality(Generated) + 1
      BY <2>3, GeneratedStored DEF Finish
    <3>3. Work!Record(w)
      BY <3>1, <3>2 DEF Work!Record
    <3> QED BY <3>3 DEF Goal, Work!Next
  <2>4. CASE Finish(w) /\ ~Releasable(w)
    BY <1>1, <2>4 DEF Finish
  <2>5. CASE Fail(w)
    <3>1. sets' = sets
      BY <2>5 DEF Fail
    <3>2. \/ row' = row
          \/ /\ row.owner = w /\ ~row.deleted /\ row'.owner = None /\ row'.lease = "none"
             /\ row'.deleted = row.deleted
      BY <2>5 DEF Fail, Releasable, Owns, Live, ReleasedRow, TypeInv, TypeOK, ChecklistModule
    <3>3. row' = row \/ Work!Record(w)
      BY <1>K, <3>1, <3>2 DEF Work!Record
    <3> QED BY <1>1, <3>1, <3>3 DEF Goal, Work!Next
  <2>6. CASE Defer(w) \/ Heartbeat(w)
    <3>1. sets' = sets
      BY <2>6 DEF Defer, Heartbeat
    <3>2. \/ row' = row
          \/ row.owner = w /\ row'.owner = w /\ row'.deleted = row.deleted
      BY <2>6 DEF Defer, Heartbeat, Releasable, Owns, DeferredRow, RenewedRow, TypeInv, TypeOK,
                  ChecklistModule
    <3>3. row' = row \/ Work!Renew(w)
      BY <1>K, <3>1, <3>2 DEF Work!Renew
    <3> QED BY <1>1, <3>1, <3>3 DEF Goal, Work!Next
  <2> QED BY <1>8, <2>1, <2>2, <2>3, <2>4, <2>5, <2>6 DEF WorkerStep
<1>9. ASSUME NEW w \in Workers, WorkerFault(w) PROVE Goal
  <2>1. CASE Crash(w)
    <3>1. sets' = sets
      BY <2>1 DEF Crash
    <3>2. \/ row' = row
          \/ /\ row.owner = w /\ row'.owner = Dead /\ row'.lease = row.lease
             /\ row'.deleted = row.deleted
      BY <2>1 DEF Crash, Owns, TypeInv, TypeOK, ChecklistModule
    <3>3. row' = row \/ Work!Die
      BY <1>K, <3>1, <3>2, DistinctAssumption DEF Work!Die
    <3> QED BY <1>1, <3>1, <3>3 DEF Goal, Work!Next
  <2>2. CASE \/ \E m \in topic : ClaimRaises(w, m)
             \/ \E error \in {"terminal", "retryable", "unexpected", "aborted"} :
                  Raises(w, error)
             \/ Escapes(w) \/ HeartbeatFails(w) \/ Redeliver(w)
    <3>1. UNCHANGED <<row, sets>>
      BY <2>2 DEF ClaimRaises, Raises, Escapes, HeartbeatFails, Redeliver
    <3> QED BY <1>1, <3>1
  <2> QED BY <1>9, <2>1, <2>2 DEF WorkerFault
<1>10. CASE \/ PrepareTurn \/ Publish \/ PublishLost \/ UNCHANGED vars
            \/ \E m \in retry : RetryDue(m) \/ RetryLost(m)
  BY <1>1, <1>10 DEF PrepareTurn, Publish, PublishLost, RetryDue, RetryLost, vars
<1> QED BY <1>2, <1>3, <1>4, <1>5, <1>6, <1>7, <1>8, <1>9, <1>10 DEF Next

\* Refinement: generation implements LeasedWork, from its initial state and step for step,
\* whatever heartbeats do: a proposal only from the worker the row still names.
THEOREM GenerationLeaseSafe == Spec => LeaseHonoured
<1>1. Init => Work!Init
  <2> SUFFICES ASSUME Init PROVE Work!Init
    OBVIOUS
  <2>1. Generated = {}
    BY DEF Init, Generated, NoSet
  <2>2. Cardinality(Generated) = 0
    BY <2>1, FS_EmptySet
  <2> QED BY <2>2 DEF Init, Work!Init
<1>2. TypeInv /\ [Next]_vars => [Work!Next]_(Work!vars)
  BY LeaseStep
<1> QED BY <1>1, <1>2, TypeInit, TypeNext, PTL DEF Spec, LeaseHonoured, Work!Spec
=============================================================================
