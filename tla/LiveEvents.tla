----------------------------- MODULE LiveEvents -----------------------------
(***************************************************************************)
(* Live updates: an event is staged on a database session, submitted when  *)
(* the transaction commits, sent to Kafka best effort, read back by the    *)
(* API process's hub and put on the bounded queue of every open `/events`  *)
(* stream, which re-checks its caller before it forwards anything about a  *)
(* project.                                                                *)
(*                                                                         *)
(* One session and one API process; the events are about one project.  The *)
(* topic has several partitions and no key, so records are a set: they may *)
(* overtake one another.  Time is counted in ticks, long compared with a   *)
(* step of the event loop: a tick never falls between a re-check and the   *)
(* frame it was made for.                                                  *)
(***************************************************************************)
EXTENDS Naturals, Sequences, FiniteSets, Accounts

CONSTANTS
    Streams,     \* connections a client may have open
    Owner,       \* stream -> the user it belongs to
    Notices,     \* events of kind `notification`
    Recipients,  \* notice -> the users the fan-out resolved
    Changes,     \* events of every other kind, about the project
    QueueSize,   \* QUEUE_SIZE
    Window,      \* _RECHECK_REUSE_SECONDS, in ticks
    Heartbeat    \* settings.live_events_heartbeat_seconds, in ticks

Events == Notices \cup Changes
RESYNC == "resync"
CLOSE == "close"

ASSUME LiveAssumption ==
    /\ Owner \in [Streams -> Users] /\ Recipients \in [Notices -> SUBSET Users]
    /\ Notices \cap Changes = {} /\ None \notin Events \cup {RESYNC, CLOSE}
    /\ {RESYNC, CLOSE} \cap Events = {}
    /\ QueueSize \in Nat \ {0} /\ Window \in Nat \ {0} /\ Heartbeat \in Nat \ {0}

VARIABLES
    staged,   \* session.info[_STAGED_KEY]
    fate,     \* event -> what became of the transaction that staged it
    sends,    \* events whose _send task is pending
    wire,     \* records the hub's consumer has yet to read
    up,       \* KafkaLiveEventHub._available
    streams,  \* stream -> its generator and its queue
    access,   \* user -> what a re-check finds
    since     \* user -> ticks since that last changed

liveVars == <<staged, fate, sends, wire, up, streams, access, since>>

-----------------------------------------------------------------------------
\* `gone`: no such user, a password to change, or the session signed out.
Access == {"member", "outsider", "gone"}

QueueItem == Events \cup {RESYNC, CLOSE}

Late == Window + Heartbeat     \* nothing distinguishes later ticks

\* `age` is the ticks since last_checked_at, Window standing for longer or never;
\* `beat` the ticks towards next_heartbeat_due; `current` whether the AuthenticatedUser
\* in hand may read the project.  `told` is the last event forwarded, `owed` the events
\* committed since the client last refetched which it has not been told of; neither is
\* data of the program's.
Stream ==
    [pc : {"closed", "accepted", "wait", "beat", "check", "forward"},
     queue : Seq(QueueItem), inResync : BOOLEAN, closed : BOOLEAN,
     item : QueueItem \cup {None}, current : BOOLEAN,
     age : 0..Window, beat : 0..Heartbeat,
     told : Events \cup {None}, owed : SUBSET Events]

NoStream ==
    [pc |-> "closed", queue |-> <<>>, inResync |-> FALSE, closed |-> FALSE,
     item |-> None, current |-> FALSE, age |-> Window, beat |-> 0,
     told |-> None, owed |-> {}]

LiveTypeOK ==
    /\ staged \subseteq Events /\ sends \subseteq Events /\ wire \subseteq Events
    /\ fate \in [Events -> {"idle", "staged", "committed"}]
    /\ up \in BOOLEAN
    /\ \A s \in Streams : streams[s] \in Stream /\ Len(streams[s].queue) <= QueueSize
    /\ access \in [Users -> Access]
    /\ since \in [Users -> 0..Late]

LiveInit ==
    /\ staged = {} /\ sends = {} /\ wire = {}
    /\ fate = [e \in Events |-> "idle"]
    /\ up = FALSE
    /\ streams = [s \in Streams |-> NoStream]
    /\ access = [u \in Users |-> "member"]
    /\ since = [u \in Users |-> Late]

Subscribed(st) == st.pc \notin {"closed", "accepted"}

Holds(st) == {st.queue[i] : i \in DOMAIN st.queue} \cup {st.item}

\* An event's id may be used again once no part of the system holds it.
Unused(e) ==
    /\ e \notin staged \cup sends \cup wire
    /\ \A s \in Streams : e \notin Holds(streams[s]) \cup streams[s].owed

-----------------------------------------------------------------------------
(* Staging: app/live/staging.py *)

StageLiveEvent(e) ==
    /\ Unused(e)
    /\ staged' = staged \cup {e}
    /\ fate' = [fate EXCEPT ![e] = "staged"]
    /\ UNCHANGED <<sends, wire, up, streams, access, since>>

PublishStaged ==
    /\ staged # {}
    /\ sends' = sends \cup staged
    /\ staged' = {}
    /\ fate' = [e \in Events |-> IF fate[e] = "staged" THEN "committed" ELSE fate[e]]
    /\ streams' = [s \in Streams |->
         IF Subscribed(streams[s]) THEN [streams[s] EXCEPT !.owed = @ \cup staged]
         ELSE streams[s]]
    /\ UNCHANGED <<wire, up, access, since>>

\* Mutant: a rollback leaves what was staged for the session's next commit.
KeepStaged ==
    /\ staged # {}
    /\ fate' = [e \in Events |-> IF fate[e] = "staged" THEN "idle" ELSE fate[e]]
    /\ UNCHANGED <<staged, sends, wire, up, streams, access, since>>

\* A rollback, or a session closed with its transaction open.
DiscardStaged ==
    /\ staged # {}
    /\ staged' = {}
    /\ fate' = [e \in Events |-> IF fate[e] = "staged" THEN "idle" ELSE fate[e]]
    /\ UNCHANGED <<sends, wire, up, streams, access, since>>

-----------------------------------------------------------------------------
(* The publisher and the hub: app/live/kafka.py *)

\* The broker takes the record; a hub that is not connected will never read it.
Send(e) ==
    /\ e \in sends
    /\ sends' = sends \ {e}
    /\ wire' = IF up THEN wire \cup {e} ELSE wire
    /\ UNCHANGED <<staged, fate, up, streams, access, since>>

\* No producer, no event loop, a failed delivery, a process that ends: logged, and lost.
SendLost(e) ==
    /\ e \in sends
    /\ sends' = sends \ {e}
    /\ streams' = [s \in Streams |-> [streams[s] EXCEPT !.owed = @ \ {e}]]
    /\ UNCHANGED <<staged, fate, wire, up, access, since>>

\* Mutant: a queue marked as holding `resync` is skipped until it is marked otherwise.
DeliveredUnlessMarked(st, e) ==
    IF st.closed \/ st.inResync THEN st
    ELSE IF Len(st.queue) < QueueSize THEN [st EXCEPT !.queue = Append(@, e)]
    ELSE [st EXCEPT !.queue = <<RESYNC>>, !.inResync = TRUE]

Delivered(st, e) ==
    IF st.closed \/ (st.inResync /\ st.queue # <<>>) THEN st
    ELSE IF Len(st.queue) < QueueSize THEN [st EXCEPT !.queue = Append(@, e), !.inResync = FALSE]
    ELSE [st EXCEPT !.queue = <<RESYNC>>, !.inResync = TRUE]

Resynced(st) ==
    IF st.closed \/ (st.inResync /\ st.queue # <<>>) THEN st
    ELSE [st EXCEPT !.queue = <<RESYNC>>, !.inResync = TRUE]

ClosedDown(st) == [st EXCEPT !.queue = <<CLOSE>>, !.closed = TRUE, !.inResync = FALSE]

ToEvery(F(_)) ==
    [s \in Streams |-> IF Subscribed(streams[s]) THEN F(streams[s]) ELSE streams[s]]

Dispatch(e) ==
    /\ up /\ e \in wire
    /\ wire' = wire \ {e}
    /\ streams' = ToEvery(LAMBDA st : Delivered(st, e))
    /\ UNCHANGED <<staged, fate, sends, up, access, since>>

\* Reads from the end: what is on the topic by now is not read.
HubConnect ==
    /\ ~up
    /\ up' = TRUE
    /\ wire' = {}
    /\ streams' = ToEvery(Resynced)
    /\ UNCHANGED <<staged, fate, sends, access, since>>

\* A read or the health check raises, or a reconnection fails: whoever has subscribed
\* since the loss is closed too.
HubLost ==
    /\ up' = FALSE
    /\ wire' = {}
    /\ streams' = ToEvery(ClosedDown)
    /\ UNCHANGED <<staged, fate, sends, access, since>>

-----------------------------------------------------------------------------
(* A stream: app/api/routes/events.py and app/live/stream.py *)

Outside == <<staged, fate, sends, wire, up, access, since>>

Becomes(s, st) == streams' = [streams EXCEPT ![s] = st] /\ UNCHANGED Outside

\* The route answers 503 unless the hub is available; the generator has not begun.
StreamEvents(s) ==
    /\ streams[s].pc = "closed"
    /\ up /\ access[Owner[s]] # "gone"
    /\ Becomes(s, [NoStream EXCEPT !.pc = "accepted",
                                   !.current = (access[Owner[s]] = "member")])

\* Registers the queue and yields `ready`, on which the client refetches everything.
Subscribe(s) ==
    /\ streams[s].pc = "accepted"
    /\ Becomes(s, [streams[s] EXCEPT !.pc = "wait"])

\* Where an item leads: only an event about the project needs a re-check.
After(item) ==
    IF item = None THEN "wait"
    ELSE IF item = CLOSE THEN "closed"
    ELSE IF item \in Changes THEN "check" ELSE "forward"

Continued(st, item) ==
    IF After(item) = "closed" THEN NoStream
    ELSE [st EXCEPT !.pc = After(item), !.item = item]

\* queue.get() returns, or the heartbeat is due.
Wake(s) ==
    LET st == streams[s] IN
    /\ st.pc = "wait"
    /\ st.queue # <<>> \/ st.beat = Heartbeat
    /\ LET item == IF st.queue = <<>> THEN None ELSE Head(st.queue)
           taken == [st EXCEPT !.queue = IF @ = <<>> THEN @ ELSE Tail(@), !.told = None]
       IN  IF st.beat = Heartbeat THEN Becomes(s, [taken EXCEPT !.pc = "beat", !.item = item])
           ELSE Becomes(s, Continued(taken, item))

\* Mutant: a reused check extends its own window.
RecheckOrReuseExtends(s) ==
    IF streams[s].age < Window THEN [streams[s] EXCEPT !.age = 0]
    ELSE IF access[Owner[s]] = "gone" THEN NoStream
    ELSE [streams[s] EXCEPT !.current = (access[Owner[s]] = "member"), !.age = 0]

\* The stream with the user it may go on with, or no stream.
RecheckOrReuse(s) ==
    IF streams[s].age < Window THEN streams[s]
    ELSE IF access[Owner[s]] = "gone" THEN NoStream
    ELSE [streams[s] EXCEPT !.current = (access[Owner[s]] = "member"), !.age = 0]

SendHeartbeat(s) ==
    LET st == RecheckOrReuse(s) IN
    /\ streams[s].pc = "beat"
    /\ Becomes(s, IF st = NoStream THEN st ELSE Continued([st EXCEPT !.beat = 0], st.item))

\* Mutant: a re-check keeps its slot of the semaphore, and the next one waits for ever.
CheckBeforeForwardStarved(s) ==
    LET st == RecheckOrReuse(s) IN
    /\ streams[s].pc = "check" /\ streams[s].age < Window
    /\ Becomes(s, IF st = NoStream THEN st ELSE [st EXCEPT !.pc = "forward"])

CheckBeforeForward(s) ==
    LET st == RecheckOrReuse(s) IN
    /\ streams[s].pc = "check"
    /\ Becomes(s, IF st = NoStream THEN st ELSE [st EXCEPT !.pc = "forward"])

LiveEventVisibleTo(s, e) ==
    IF e \in Notices THEN Owner[s] \in Recipients[e] ELSE streams[s].current

\* What the owner is not entitled to is not owed: someone else's notice, and an event on a
\* project gained or lost within the reuse window.
Entitled(s, e) ==
    IF e \in Notices THEN Owner[s] \in Recipients[e]
    ELSE access[Owner[s]] = "member" /\ since[Owner[s]] >= Window

Forward(s) ==
    LET st == streams[s]
        next == [st EXCEPT !.pc = "wait", !.item = None]
    IN
    /\ st.pc = "forward"
    /\ IF st.item = RESYNC THEN Becomes(s, [next EXCEPT !.owed = {}])
       ELSE IF LiveEventVisibleTo(s, st.item)
         THEN Becomes(s, [next EXCEPT !.told = st.item, !.owed = @ \ {st.item}])
       ELSE Becomes(s, IF Entitled(s, st.item) THEN next
                       ELSE [next EXCEPT !.owed = @ \ {st.item}])

\* The client leaves, the stream reaches its cap, or a re-check raises.
StreamEnds(s) ==
    /\ streams[s].pc # "closed"
    /\ Becomes(s, NoStream)

-----------------------------------------------------------------------------
(* What changes around a stream *)

\* Membership granted or revoked, account deactivated, session signed out; and back.
AccessChanges(u) ==
    /\ \E a \in Access \ {access[u]} : access' = [access EXCEPT ![u] = a]
    /\ since' = [since EXCEPT ![u] = 0]
    /\ UNCHANGED <<staged, fate, sends, wire, up, streams>>

\* A stream whose client is slow to take a frame stays in `wait` through many ticks.
Tick ==
    /\ \A s \in Streams : streams[s].pc \in {"closed", "wait"}
    /\ since' = [u \in Users |-> IF since[u] < Late THEN since[u] + 1 ELSE Late]
    /\ streams' = ToEvery(LAMBDA st :
         [st EXCEPT !.age = IF @ < Window THEN @ + 1 ELSE @,
                    !.beat = IF @ < Heartbeat THEN @ + 1 ELSE @])
    /\ UNCHANGED <<staged, fate, sends, wire, up, access>>

LiveNext ==
    \/ \E e \in Events : StageLiveEvent(e) \/ Send(e) \/ SendLost(e) \/ Dispatch(e)
    \/ PublishStaged \/ DiscardStaged \/ HubConnect \/ HubLost \/ Tick
    \/ \E s \in Streams :
         \/ StreamEvents(s) \/ Subscribe(s) \/ Wake(s) \/ SendHeartbeat(s)
         \/ CheckBeforeForward(s) \/ Forward(s) \/ StreamEnds(s)
    \/ \E u \in Users : AccessChanges(u)

LiveSpec == LiveInit /\ [][LiveNext]_liveVars

\* The event loop runs its tasks: a send ends, the hub polls and reconnects, a stream with
\* something to do does it.  Nothing makes a client stay, a tick pass or a writer write.
LiveFairness ==
    /\ WF_liveVars(HubConnect)
    /\ \A e \in Events : WF_liveVars(Send(e)) /\ WF_liveVars(Dispatch(e))
    /\ \A s \in Streams :
         WF_liveVars(Wake(s) \/ SendHeartbeat(s) \/ CheckBeforeForward(s) \/ Forward(s))

LiveFairSpec == LiveSpec /\ LiveFairness

-----------------------------------------------------------------------------
\* Only what was committed is announced: nothing a rolled-back transaction staged is sent
\* by a later commit of the same session, reaches the topic, or waits in a queue.  The
\* types, the bound of the queues among them, hold besides.
OnlyCommittedIsAnnounced ==
    /\ LiveTypeOK
    /\ \A e \in sends \cup wire \cup UNION {Holds(streams[s]) \cap Events : s \in Streams} :
      fate[e] = "committed"

\* A stream told to end still holds the marker that ends it, whatever is delivered or
\* resynced after it.
CloseIsKept(s) == streams[s].closed => CLOSE \in Holds(streams[s])

\* No event is silently dropped for an open stream: one its client has not been told of is
\* on its way, or the client will be told to refetch everything or to reconnect, and that
\* marker is never displaced.
NothingSilentlyMissed ==
    \A s \in Streams :
      /\ CloseIsKept(s)
      /\ \A e \in streams[s].owed :
           \/ e \in sends \cup wire \cup Holds(streams[s])
           \/ {RESYNC, CLOSE} \cap Holds(streams[s]) # {}
           \/ ~up

\* No event about a project is forwarded to someone who lost it, or whose session ended,
\* longer ago than the reuse window, however often the check was reused meanwhile.  Notices
\* are forwarded without a check of their own, so a signed-out session may still get them,
\* but never past the heartbeat that follows the last reused check, however busy its queue.
NothingPastTheRecheck ==
    [][\A s \in Streams : streams'[s].told # streams[s].told =>
         /\ streams'[s].told \in Changes
              => access[Owner[s]] = "member" \/ since[Owner[s]] < Window
         /\ streams'[s].told \in Notices
              => access[Owner[s]] # "gone" \/ since[Owner[s]] < Late]_liveVars

\* Every event owed to an open stream is in the end told, or covered by a refetch, or the
\* stream ends, or the event was lost on its way to the broker.
EveryoneHears ==
    \A s \in Streams : \A e \in Events : (e \in streams[s].owed) ~> (e \notin streams[s].owed)
=============================================================================
