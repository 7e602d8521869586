------------------------------- MODULE Outbox -------------------------------
(***************************************************************************)
(* Notifications of one type: the fan-out that writes one row for each     *)
(* recipient in its caller's transaction, the bell that reads them, the    *)
(* mail drains that lease pending rows, hand them to the relay and record  *)
(* the outcome, and the prune.                                             *)
(*                                                                         *)
(* A drain's claim is one committed statement; sending is outside any      *)
(* transaction; each outcome is a transaction of its own.  Which of the    *)
(* claimable rows come first is left open.  Delivery to browsers is        *)
(* LiveEvents.                                                             *)
(***************************************************************************)
EXTENDS Naturals, FiniteSets, Accounts

CONSTANTS
    EventIds,          \* pool of event ids, used again once an event is pruned
    Drains,            \* worker processes running mail_loop
    ClaimBatch,        \* CLAIM_BATCH
    MaxEmailAttempts,  \* MAX_EMAIL_ATTEMPTS
    MaxFaults,         \* bound: dead drains, leases overrun, restarts with mail switched
    MaxChanges         \* bound: changes of membership, account or preference

Keys == EventIds \X Users

ASSUME OutboxAssumption ==
    /\ ClaimBatch \in Nat \ {0} /\ MaxEmailAttempts \in Nat \ {0} /\ MaxFaults \in Nat
    /\ MaxChanges \in Nat
    /\ None \notin EventIds /\ None \notin Keys
    /\ None \notin {"pending", "sent", "failed", "skipped", "refused", "4xx", "5xx", "connection"}

VARIABLES
    eligible,  \* users who hold the event's permission through a live membership
    active,    \* users whose account is live
    prefs,     \* user -> the preference row, absence read as on
    mailOn,    \* settings.mail_enabled
    events,    \* event id -> how old it is, or absent
    rows,      \* <<event, user>> -> the delivery, or None
    raising,   \* the transaction that is raising an event
    drain,     \* drain -> the pass it is in
    faults,    \* what is left of MaxFaults
    changes    \* what is left of MaxChanges

outboxVars == <<eligible, active, prefs, mailOn, events, rows, raising, drain, faults, changes>>

-----------------------------------------------------------------------------
NotificationPreference == [inApp : BOOLEAN, email : BOOLEAN]

\* `stale` is older than STALE_AFTER, `expired` older than the retention window.
NotificationEvent == {"absent", "fresh", "stale", "expired"}

EmailState == {None, "pending", "sent", "failed", "skipped"}

\* `accepted` counts the times the relay took the mail; `doubt`: a pass ended, or a lease
\* ran out, with the row still in a drain's hands, or the relay's answer was lost.  Both
\* are no data of the program's.
Notification ==
    [visible : BOOLEAN, read : BOOLEAN, email : EmailState, attempts : Nat,
     lease : {"none", "live", "expired"}, accepted : Nat, doubt : BOOLEAN]

\* `claimed` maps what is left of the batch to the recipient's account as claimed.
PendingEmail == [attempts : Nat, deactivated : BOOLEAN]

\* NULL is no row and no claim.
ASSUME NullAssumption == None \notin Notification /\ None \notin PendingEmail

Pass ==
    [claimed : [Keys -> PendingEmail \cup {None}],
     marking : Keys \cup {None}, outcome : EmailState]

NoPass == [claimed |-> [k \in Keys |-> None], marking |-> None, outcome |-> None]

OutboxTypeOK ==
    /\ eligible \subseteq Users /\ active \subseteq Users
    /\ prefs \in [Users -> NotificationPreference]
    /\ mailOn \in BOOLEAN
    /\ events \in [EventIds -> NotificationEvent]
    /\ \A k \in Keys : rows[k] \in Notification \cup {None}
    /\ \A k \in Keys : rows[k] # None => events[k[1]] # "absent"
    /\ raising = None \/ raising \in [event : EventIds, to : SUBSET Users]
    /\ drain \in [Drains -> Pass]
    /\ faults \in 0..MaxFaults /\ changes \in 0..MaxChanges

OutboxInit ==
    /\ eligible = Users /\ active = Users
    /\ prefs = [u \in Users |-> [inApp |-> TRUE, email |-> TRUE]]
    /\ mailOn = TRUE
    /\ events = [e \in EventIds |-> "absent"]
    /\ rows = [k \in Keys |-> None]
    /\ raising = None
    /\ drain = [d \in Drains |-> NoPass]
    /\ faults = MaxFaults /\ changes = MaxChanges

HeldBy(d) == {k \in Keys : drain[d].claimed[k] # None}

Idle(d) == HeldBy(d) = {}

-----------------------------------------------------------------------------
(* The fan-out: app/services/notification_fanout.py *)

RecipientsFor == eligible \cap active

ResolveNotificationRecipients(excluding) == RecipientsFor \ excluding

\* The actor, where the type excludes one, does not hear of what they did.
RaiseEvent(e) ==
    /\ raising = None /\ events[e] = "absent"
    /\ \A d \in Drains : \A k \in HeldBy(d) : k[1] # e
    /\ \E excluding \in {{}} \cup {{u} : u \in Users} :
         raising' = [event |-> e, to |-> ResolveNotificationRecipients(excluding)]
    /\ UNCHANGED <<eligible, active, prefs, mailOn, events, rows, drain, faults, changes>>

\* The caller names the one recipient, a member or not.
RaiseDirect(e) ==
    /\ raising = None /\ events[e] = "absent"
    /\ \A d \in Drains : \A k \in HeldBy(d) : k[1] # e
    /\ \E u \in Users : raising' = [event |-> e, to |-> {u}]
    /\ UNCHANGED <<eligible, active, prefs, mailOn, events, rows, drain, faults, changes>>

MutedInApp(u) == ~prefs[u].inApp

MutedEmail(u) == ~prefs[u].email

Delivery(u) ==
    [visible |-> ~MutedInApp(u), read |-> FALSE,
     email |-> IF mailOn /\ ~MutedEmail(u) THEN "pending" ELSE None,
     attempts |-> 0, lease |-> "none", accepted |-> 0, doubt |-> FALSE]

\* The event is written even for no recipient; the caller commits it with its own change.
WriteAndCommit ==
    /\ raising # None
    /\ events' = [events EXCEPT ![raising.event] = "fresh"]
    /\ rows' = [k \in Keys |->
         IF k[1] = raising.event /\ k[2] \in raising.to THEN Delivery(k[2]) ELSE rows[k]]
    /\ raising' = None
    /\ UNCHANGED <<eligible, active, prefs, mailOn, drain, faults, changes>>

CallerRollsBack ==
    /\ raising # None
    /\ raising' = None
    /\ UNCHANGED <<eligible, active, prefs, mailOn, events, rows, drain, faults, changes>>

-----------------------------------------------------------------------------
(* The bell: app/services/notification.py *)

Unread(u) == {k \in Keys : k[2] = u /\ rows[k] # None /\ rows[k].visible /\ ~rows[k].read}

MarkRead(k) ==
    /\ rows[k] # None
    /\ rows' = [rows EXCEPT ![k].read = TRUE]
    /\ UNCHANGED <<eligible, active, prefs, mailOn, events, raising, drain, faults, changes>>

MarkAllRead(u) ==
    /\ Unread(u) # {}
    /\ rows' = [k \in Keys |-> IF k \in Unread(u) THEN [rows[k] EXCEPT !.read = TRUE] ELSE rows[k]]
    /\ UNCHANGED <<eligible, active, prefs, mailOn, events, raising, drain, faults, changes>>

UpdatePreferences(u) ==
    /\ changes > 0
    /\ changes' = changes - 1
    /\ \E p \in NotificationPreference \ {prefs[u]} : prefs' = [prefs EXCEPT ![u] = p]
    /\ UNCHANGED <<eligible, active, mailOn, events, rows, raising, drain, faults>>

-----------------------------------------------------------------------------
(* The drain: app/mail/outbox.py *)

\* Mutant: a claim looks at the state and not at the lease.
ClaimableWhileLeased(k) ==
    rows[k] # None /\ rows[k].email = "pending"

\* Mutant: a lease, once taken, is never seen to run out.
ClaimableNeverLeased(k) ==
    rows[k] # None /\ rows[k].email = "pending" /\ rows[k].lease = "none"

Claimable(k) ==
    rows[k] # None /\ rows[k].email = "pending" /\ rows[k].lease # "live"

ClaimPendingEmail(d) ==
    /\ Idle(d) /\ mailOn
    /\ \E batch \in SUBSET {k \in Keys : Claimable(k)} :
         /\ batch # {} /\ Cardinality(batch) <= ClaimBatch
         /\ rows' = [k \in Keys |->
              IF k \in batch THEN [rows[k] EXCEPT !.lease = "live", !.attempts = @ + 1]
              ELSE rows[k]]
         /\ drain' = [drain EXCEPT ![d].claimed = [k \in Keys |->
              IF k \in batch
                THEN [attempts |-> rows[k].attempts + 1, deactivated |-> k[2] \notin active]
              ELSE None]]
    /\ UNCHANGED <<eligible, active, prefs, mailOn, events, raising, faults, changes>>

Skippable(d, k) ==
    drain[d].claimed[k].deactivated \/ events[k[1]] \in {"stale", "expired"}

RetriesLeft(p) == p.attempts < MaxEmailAttempts

\* A refused sender, recipient or login, a reply of the 4xx or 5xx class, or a connection
\* that failed or timed out: whether trying again may help.
Retryable(error) == error \in {"4xx", "connection"}

\* What the relay did with the mail and the error the sender saw, if any: a connection
\* may fail after the relay took the message.
RelayAnswers ==
    {[took |-> TRUE, error |-> None], [took |-> TRUE, error |-> "connection"]} \cup
    {[took |-> FALSE, error |-> x] : x \in {"refused", "4xx", "5xx", "connection"}}

Handed(row, answer) ==
    IF row = None \/ ~answer.took THEN row
    ELSE [row EXCEPT !.accepted = @ + 1, !.doubt = IF answer.error = None THEN @ ELSE TRUE]

Outcome(p, answer) ==
    IF answer.error = None THEN "sent"
    ELSE IF Retryable(answer.error) /\ RetriesLeft(p) THEN None ELSE "failed"

\* The next row of the batch: skipped, failed by an error that is not the relay's, or sent.
Deliver(d, k) ==
    /\ k \in HeldBy(d) /\ drain[d].marking = None
    /\ \/ /\ Skippable(d, k)
          /\ drain' = [drain EXCEPT ![d].marking = k, ![d].outcome = "skipped"]
          /\ UNCHANGED rows
       \/ /\ ~Skippable(d, k)
          /\ drain' = [drain EXCEPT ![d].marking = k, ![d].outcome = "failed"]
          /\ UNCHANGED rows
       \/ /\ ~Skippable(d, k)
          /\ \E answer \in RelayAnswers :
               LET outcome == Outcome(drain[d].claimed[k], answer) IN
               /\ rows' = [rows EXCEPT ![k] = Handed(@, answer)]
               /\ drain' = IF outcome = None THEN [drain EXCEPT ![d].claimed[k] = None]
                           ELSE [drain EXCEPT ![d].marking = k, ![d].outcome = outcome]
    /\ UNCHANGED <<eligible, active, prefs, mailOn, events, raising, faults, changes>>

\* Mutant: the outcome is written whatever the row says by now.
MarkEmailUnguarded(d) ==
    LET k == drain[d].marking IN
    /\ k # None
    /\ rows' = IF rows[k] # None
                 THEN [rows EXCEPT ![k].email = drain[d].outcome, ![k].lease = "none"]
               ELSE rows
    /\ drain' = [drain EXCEPT ![d].claimed[k] = None, ![d].marking = None, ![d].outcome = None]
    /\ UNCHANGED <<eligible, active, prefs, mailOn, events, raising, faults, changes>>

MarkEmail(d) ==
    LET k == drain[d].marking IN
    /\ k # None
    /\ rows' = IF rows[k] # None /\ rows[k].email = "pending"
                 THEN [rows EXCEPT ![k].email = drain[d].outcome, ![k].lease = "none"]
               ELSE rows
    /\ drain' = [drain EXCEPT ![d].claimed[k] = None, ![d].marking = None, ![d].outcome = None]
    /\ UNCHANGED <<eligible, active, prefs, mailOn, events, raising, faults, changes>>

Doubted(keys) ==
    [k \in Keys |-> IF k \in keys /\ rows[k] # None THEN [rows[k] EXCEPT !.doubt = TRUE]
                    ELSE rows[k]]

\* The worker dies, or a failing database ends the pass.
DrainDies(d) ==
    /\ faults > 0 /\ ~Idle(d)
    /\ faults' = faults - 1
    /\ rows' = Doubted(HeldBy(d))
    /\ drain' = [drain EXCEPT ![d] = NoPass]
    /\ UNCHANGED <<eligible, active, prefs, mailOn, events, raising, changes>>

\* Mail is switched in the settings: the workers are restarted, with or without mail_loop.
SwitchMail ==
    /\ faults > 0
    /\ faults' = faults - 1
    /\ mailOn' = ~mailOn
    /\ rows' = Doubted(UNION {HeldBy(d) : d \in Drains})
    /\ drain' = [d \in Drains |-> NoPass]
    /\ UNCHANGED <<eligible, active, prefs, events, raising, changes>>

-----------------------------------------------------------------------------
(* Time, accounts and memberships *)

InHand(k) == \E d \in Drains : k \in HeldBy(d)

LeaseLapses(k) ==
    /\ rows[k] # None /\ rows[k].lease = "live" /\ ~InHand(k)
    /\ rows' = [rows EXCEPT ![k].lease = "expired"]
    /\ UNCHANGED <<eligible, active, prefs, mailOn, events, raising, drain, faults, changes>>

\* A pass outlasts CLAIM_LEASE.
LeaseOverrun(k) ==
    /\ faults > 0
    /\ rows[k] # None /\ rows[k].lease = "live" /\ InHand(k)
    /\ faults' = faults - 1
    /\ rows' = [rows EXCEPT ![k].lease = "expired", ![k].doubt = TRUE]
    /\ UNCHANGED <<eligible, active, prefs, mailOn, events, raising, drain, changes>>

Ages(e) ==
    /\ events[e] \in {"fresh", "stale"}
    /\ events' = [events EXCEPT ![e] = IF @ = "fresh" THEN "stale" ELSE "expired"]
    /\ UNCHANGED <<eligible, active, prefs, mailOn, rows, raising, drain, faults, changes>>

\* Deletes the event; its deliveries go with it.
DeleteOlderThan(e) ==
    /\ events[e] = "expired"
    /\ events' = [events EXCEPT ![e] = "absent"]
    /\ rows' = [k \in Keys |-> IF k[1] = e THEN None ELSE rows[k]]
    /\ UNCHANGED <<eligible, active, prefs, mailOn, raising, drain, faults, changes>>

AccountChanges(u) ==
    /\ changes > 0
    /\ changes' = changes - 1
    /\ \/ /\ eligible' = IF u \in eligible THEN eligible \ {u} ELSE eligible \cup {u}
          /\ UNCHANGED active
       \/ /\ active' = IF u \in active THEN active \ {u} ELSE active \cup {u}
          /\ UNCHANGED eligible
    /\ UNCHANGED <<prefs, mailOn, events, rows, raising, drain, faults>>

OutboxNext ==
    \/ \E e \in EventIds : RaiseEvent(e) \/ RaiseDirect(e) \/ Ages(e) \/ DeleteOlderThan(e)
    \/ WriteAndCommit \/ CallerRollsBack \/ SwitchMail
    \/ \E k \in Keys : MarkRead(k) \/ LeaseLapses(k) \/ LeaseOverrun(k)
    \/ \E u \in Users : MarkAllRead(u) \/ UpdatePreferences(u) \/ AccountChanges(u)
    \/ \E d \in Drains :
         \/ ClaimPendingEmail(d) \/ MarkEmail(d) \/ DrainDies(d)
         \/ \E k \in Keys : Deliver(d, k)

OutboxSpec == OutboxInit /\ [][OutboxNext]_outboxVars

\* mail_loop goes round every minute and its passes go on; leases run out with time.
OutboxFairness ==
    /\ \A d \in Drains :
         /\ WF_outboxVars(ClaimPendingEmail(d)) /\ WF_outboxVars(MarkEmail(d))
         /\ WF_outboxVars(\E k \in Keys : Deliver(d, k))
    /\ \A k \in Keys : WF_outboxVars(LeaseLapses(k))

OutboxFairSpec == OutboxSpec /\ OutboxFairness

-----------------------------------------------------------------------------
\* A recipient gets the mail once, unless a pass died or outlasted its lease with the row
\* in hand, or the relay's answer was lost: the lease keeps every other drain off the row.
SentOnceUnlessInDoubt ==
    \A k \in Keys : rows[k] # None /\ rows[k].accepted > 1 => rows[k].doubt

\* The recorded outcome is what happened: `sent` was taken by the relay, and without
\* doubt a row that failed or was skipped never was.
OutcomeIsTrue ==
    \A k \in Keys : rows[k] # None =>
      /\ rows[k].email = "sent" => rows[k].accepted > 0
      /\ rows[k].email \in {"failed", "skipped"} /\ ~rows[k].doubt => rows[k].accepted = 0

\* Retries end: without a died or overrun pass no row is claimed more than
\* MAX_EMAIL_ATTEMPTS times.
AttemptsAreBounded ==
    \A k \in Keys : rows[k] # None /\ ~rows[k].doubt => rows[k].attempts <= MaxEmailAttempts

\* What a row says of its mail is what the relay saw, in well-typed states: taken once
\* unless in doubt, `sent` only if taken, given up only if not, after so many attempts.
RecordMatchesRelay == OutboxTypeOK /\ SentOnceUnlessInDoubt /\ OutcomeIsTrue /\ AttemptsAreBounded

\* An outcome, once recorded, is never replaced by that of a drain that lost the race.
OutcomeIsFinal ==
    [][\A k \in Keys :
         rows[k] # None /\ rows[k].email \in {"sent", "failed", "skipped"}
           => rows'[k] = None \/ rows'[k].email = rows[k].email]_outboxVars

\* While mail is on every pending row comes to an outcome, or is pruned.
PendingSettles ==
    \A k \in Keys :
      (rows[k] # None /\ rows[k].email = "pending")
        ~> (rows[k] = None \/ rows[k].email # "pending" \/ ~mailOn)
=============================================================================
