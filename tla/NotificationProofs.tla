------------------------- MODULE NotificationProofs -------------------------
(***************************************************************************)
(* Proofs about what reaches a recipient: by mail (Outbox), what a         *)
(* delivery's row says of its mail is what the relay saw, for any number   *)
(* of recipients, drains, attempts and faults; and in the browser          *)
(* (LiveEvents), for any number of streams, users and events, any queue    *)
(* size, reuse window and heartbeat.                                       *)
(***************************************************************************)
EXTENDS Outbox, LiveEvents, TLAPS

-----------------------------------------------------------------------------
(* The mail: its inductive invariant *)

Row == Notification \cup {None}

Holding(d, k) == drain[d].claimed[k] # None

Sending(d, k) == drain[d].marking = k /\ drain[d].outcome = "sent"

\* A pass records the outcome of a row it still holds.
Marking ==
    \A d \in Drains : drain[d].marking # None =>
        /\ drain[d].marking \in Keys /\ Holding(d, drain[d].marking)
        /\ drain[d].outcome \in {"sent", "failed", "skipped"}

\* An event being raised is not in the table yet, and no pass holds a row of it from the
\* last time its id was used.
Raising ==
    raising # None =>
        /\ events[raising.event] = "absent"
        /\ \A d \in Drains, k \in Keys : Holding(d, k) => k[1] # raising.event

MailTypeInv == OutboxTypeOK /\ rows \in [Keys -> Row] /\ Marking /\ Raising

\* Without doubt one pass at most holds a row, its lease is live, the row is pending with
\* the attempts the pass was told, and the relay took it only if the pass is about to say so.
Clear(k) ==
    /\ \A d \in Drains : Holding(d, k) =>
         /\ rows[k].lease = "live" /\ rows[k].email = "pending"
         /\ drain[d].claimed[k].attempts = rows[k].attempts
         /\ \A c \in Drains : Holding(c, k) => c = d
    /\ rows[k].attempts <= MaxEmailAttempts
    /\ rows[k].email = "pending" /\ ~InHand(k) => rows[k].attempts < MaxEmailAttempts
    /\ rows[k].accepted <= 1
    /\ rows[k].email \in {None, "failed", "skipped"} => rows[k].accepted = 0
    /\ rows[k].email = "pending" =>
         rows[k].accepted = 0 \/ \E d \in Drains : Sending(d, k)

\* `sent` is written, and about to be, only for what the relay took.
Taken(k) ==
    rows[k].email = "sent" \/ (\E d \in Drains : Sending(d, k)) => rows[k].accepted > 0

KeyInv(k) == rows[k] # None => Taken(k) /\ (rows[k].doubt \/ Clear(k))

RelayInv == \A k \in Keys : KeyInv(k)

-----------------------------------------------------------------------------
(* Types *)

LEMMA MailTypeInit == OutboxInit => MailTypeInv
  BY OutboxAssumption, NullAssumption
     DEF OutboxInit, MailTypeInv, OutboxTypeOK, Marking, Raising, NoPass, Pass, Row, NotificationPreference,
         NotificationEvent, Keys, EmailState, Holding

\* What a claim and the relay's taking it leave of a row.
LEMMA ClaimedRow ==
    ASSUME NEW row \in Notification
    PROVE  [row EXCEPT !.lease = "live", !.attempts = @ + 1] \in Notification
<1>1. row.attempts + 1 \in Nat
  BY DEF Notification
<1> QED BY <1>1, Zenon DEF Notification

LEMMA HandedRow ==
    ASSUME NEW row \in Row, NEW answer
    PROVE  Handed(row, answer) \in Row /\ (row = None => Handed(row, answer) = None)
<1>1. CASE row = None \/ ~answer.took
  BY <1>1 DEF Handed
<1>2. CASE row \in Notification /\ row # None /\ answer.took
  <2>1. row.accepted + 1 \in Nat
    BY <1>2 DEF Notification
  <2>2. (IF answer.error = None THEN row.doubt ELSE TRUE) \in BOOLEAN
    BY <1>2 DEF Notification
  <2>3. [row EXCEPT !.accepted = @ + 1, !.doubt = IF answer.error = None THEN @ ELSE TRUE]
          \in Notification
    BY <1>2, <2>1, <2>2, Zenon DEF Notification
  <2> QED BY <1>2, <2>3 DEF Handed, Row
<1> QED BY <1>1, <1>2 DEF Row

\* A pass changes by what it holds and by what it is about to record.
PassTyped(p) ==
    /\ p \in Pass
    /\ p.marking # None => /\ p.marking \in Keys /\ p.claimed[p.marking] # None
                           /\ p.outcome \in {"sent", "failed", "skipped"}

LEMMA PassStep ==
    ASSUME MailTypeInv, NEW d \in Drains, NEW p, PassTyped(p), drain' = [drain EXCEPT ![d] = p]
    PROVE  drain' \in [Drains -> Pass] /\ Marking'
  BY DEF MailTypeInv, OutboxTypeOK, Marking, Holding, PassTyped

\* A row that changes stays a row, and none appears.
LEMMA RowStep ==
    ASSUME MailTypeInv, events' = events,
           rows' \in [Keys -> Row], \A k \in Keys : rows[k] = None => rows'[k] = None
    PROVE  \A k \in Keys : rows'[k] \in Notification \cup {None}
                             /\ (rows'[k] # None => events'[k[1]] # "absent")
  BY DEF MailTypeInv, OutboxTypeOK, Row

\* Steps that leave the passes and the event being raised alone.
LEMMA RaisingKept ==
    ASSUME MailTypeInv, UNCHANGED <<raising, events>>,
           \A d \in Drains, k \in Keys : Holding(d, k)' => Holding(d, k) \/ rows[k] # None
    PROVE  Raising'
  BY DEF MailTypeInv, OutboxTypeOK, Raising

LEMMA NoPassTyped == PassTyped(NoPass) /\ \A k \in Keys : NoPass.claimed[k] = None
  BY DEF PassTyped, NoPass, Pass, EmailState

LEMMA DoubtedTypes ==
    ASSUME MailTypeInv, NEW keys, rows' = Doubted(keys)
    PROVE  rows' \in [Keys -> Row] /\ \A k \in Keys : rows[k] = None => rows'[k] = None
  BY DEF MailTypeInv, Row, Notification, Doubted

LEMMA MailTypeNext == MailTypeInv /\ [OutboxNext]_outboxVars => MailTypeInv'
<1> SUFFICES ASSUME MailTypeInv, [OutboxNext]_outboxVars PROVE MailTypeInv'
  OBVIOUS
<1>T. OutboxTypeOK /\ rows \in [Keys -> Row] /\ Marking /\ Raising
  BY DEF MailTypeInv
<1>1. ASSUME NEW e \in EventIds, RaiseEvent(e) \/ RaiseDirect(e) PROVE MailTypeInv'
  <2>1. UNCHANGED <<eligible, active, prefs, mailOn, events, rows, drain, faults, changes>>
    BY <1>1 DEF RaiseEvent, RaiseDirect
  <2>2. /\ raising' \in [event : EventIds, to : SUBSET Users] /\ raising'.event = e
        /\ events[e] = "absent" /\ \A d \in Drains, k \in Keys : Holding(d, k) => k[1] # e
    BY <1>1, <1>T DEF RaiseEvent, RaiseDirect, ResolveNotificationRecipients, RecipientsFor,
                      HeldBy, Holding, OutboxTypeOK
  <2>3. OutboxTypeOK'
    BY <1>T, <2>1, <2>2 DEF OutboxTypeOK
  <2>4. Raising' /\ Marking'
    BY <1>T, <2>1, <2>2 DEF Raising, Holding, Marking
  <2> QED BY <1>T, <2>1, <2>3, <2>4 DEF MailTypeInv
<1>2. ASSUME NEW e \in EventIds, Ages(e) PROVE MailTypeInv'
  <2>1. events' \in [EventIds -> NotificationEvent]
        /\ \A x \in EventIds : events'[x] = "absent" <=> events[x] = "absent"
    BY <1>2, <1>T DEF Ages, OutboxTypeOK, NotificationEvent
  <2>2. raising # None => raising.event \in EventIds
    BY <1>T DEF OutboxTypeOK
  <2>3. UNCHANGED <<eligible, active, prefs, mailOn, rows, raising, drain, faults, changes>>
    BY <1>2 DEF Ages
  <2>4. \A k \in Keys : k[1] \in EventIds
    BY DEF Keys
  <2>5. OutboxTypeOK'
    BY <1>T, <2>1, <2>3, <2>4 DEF OutboxTypeOK
  <2> QED BY <1>T, <2>1, <2>2, <2>3, <2>5 DEF MailTypeInv, Raising, Marking, Holding
<1>3. ASSUME NEW e \in EventIds, DeleteOlderThan(e) PROVE MailTypeInv'
  <2>1. /\ events' \in [EventIds -> NotificationEvent]
        /\ \A x \in EventIds : events'[x] = IF x = e THEN "absent" ELSE events[x]
    BY <1>3, <1>T DEF DeleteOlderThan, OutboxTypeOK, NotificationEvent
  <2>2. raising # None => raising.event \in EventIds
    BY <1>T DEF OutboxTypeOK
  <2>3. UNCHANGED <<eligible, active, prefs, mailOn, raising, drain, faults, changes>>
    BY <1>3 DEF DeleteOlderThan
  <2>4. \A k \in Keys : k[1] \in EventIds
    BY DEF Keys
  <2>5. /\ rows' \in [Keys -> Row]
        /\ \A k \in Keys : rows'[k] = IF k[1] = e THEN None ELSE rows[k]
    BY <1>3, <1>T DEF DeleteOlderThan, Row
  <2>6. OutboxTypeOK'
    BY <1>T, <2>1, <2>3, <2>4, <2>5 DEF OutboxTypeOK
  <2> QED BY <1>T, <2>1, <2>2, <2>3, <2>5, <2>6 DEF MailTypeInv, Raising, Marking, Holding
<1>4. CASE WriteAndCommit
  <2>1. /\ raising.event \in EventIds /\ raising.to \subseteq Users /\ raising' = None
        /\ UNCHANGED <<eligible, active, prefs, mailOn, drain, faults, changes>>
    BY <1>4, <1>T DEF WriteAndCommit, OutboxTypeOK
  <2>2. /\ events' \in [EventIds -> NotificationEvent]
        /\ \A x \in EventIds : events'[x] = IF x = raising.event THEN "fresh" ELSE events[x]
    BY <1>4, <2>1, <1>T DEF WriteAndCommit, OutboxTypeOK, NotificationEvent
  <2>3. \A u \in Users : Delivery(u) \in Notification
    BY <1>T DEF Delivery, OutboxTypeOK, Notification, EmailState, MutedInApp, MutedEmail,
                NotificationPreference
  <2>4. \A k \in Keys : k[1] \in EventIds /\ k[2] \in Users
    BY DEF Keys
  <2>5. /\ rows' \in [Keys -> Row]
        /\ \A k \in Keys : rows'[k] = rows[k] \/ k[1] = raising.event
    BY <1>4, <1>T, <2>3, <2>4 DEF WriteAndCommit, Row
  <2>6. \A k \in Keys : rows'[k] # None => events'[k[1]] # "absent"
    BY <1>T, <2>2, <2>4, <2>5 DEF OutboxTypeOK
  <2>7. OutboxTypeOK'
    BY <1>T, <2>1, <2>2, <2>5, <2>6 DEF OutboxTypeOK, Row
  <2> QED BY <1>T, <2>1, <2>5, <2>7 DEF MailTypeInv, Raising, Marking, Holding
<1>5. CASE CallerRollsBack
  BY <1>5, <1>T DEF CallerRollsBack, MailTypeInv, OutboxTypeOK, Raising, Marking, Holding
<1>6. ASSUME NEW k \in Keys, MarkRead(k) \/ LeaseLapses(k) \/ LeaseOverrun(k) PROVE MailTypeInv'
  <2>1. /\ UNCHANGED <<eligible, active, prefs, mailOn, events, raising, drain, changes>>
        /\ faults' \in 0..MaxFaults
    BY <1>6, <1>T, OutboxAssumption DEF MarkRead, LeaseLapses, LeaseOverrun, OutboxTypeOK
  <2>2. rows' \in [Keys -> Row] /\ \A x \in Keys : rows[x] = None => rows'[x] = None
    <3>1. rows[k] \in Notification
      BY <1>6, <1>T DEF MarkRead, LeaseLapses, LeaseOverrun, Row
    <3>2. PICK row \in Notification : rows' = [rows EXCEPT ![k] = row]
      <4>1. CASE MarkRead(k)
        BY <3>1, <4>1 DEF MarkRead, Notification
      <4>2. CASE LeaseLapses(k)
        BY <3>1, <4>2 DEF LeaseLapses, Notification
      <4>3. CASE LeaseOverrun(k)
        BY <3>1, <4>3 DEF LeaseOverrun, Notification
      <4> QED BY <1>6, <4>1, <4>2, <4>3
    <3> QED BY <1>T, <3>1, <3>2, NullAssumption DEF Row
  <2>3. OutboxTypeOK'
    BY <1>T, <2>1, <2>2, RowStep DEF OutboxTypeOK
  <2> QED BY <1>T, <2>1, <2>2, <2>3 DEF MailTypeInv, Raising, Marking, Holding
<1>7. ASSUME NEW u \in Users, MarkAllRead(u) \/ UpdatePreferences(u) \/ AccountChanges(u)
      PROVE  MailTypeInv'
  <2>1. /\ UNCHANGED <<mailOn, events, raising, drain, faults>>
        /\ eligible' \subseteq Users /\ active' \subseteq Users
        /\ prefs' \in [Users -> NotificationPreference] /\ changes' \in 0..MaxChanges
    BY <1>7, <1>T, OutboxAssumption DEF MarkAllRead, UpdatePreferences, AccountChanges, OutboxTypeOK
  <2>2. rows' \in [Keys -> Row] /\ \A x \in Keys : rows[x] = None => rows'[x] = None
    <3>1. \/ rows' = rows
          \/ rows' = [k \in Keys |-> IF k \in Unread(u) THEN [rows[k] EXCEPT !.read = TRUE]
                                     ELSE rows[k]]
      BY <1>7 DEF MarkAllRead, UpdatePreferences, AccountChanges
    <3>2. \A k \in Unread(u) : rows[k] \in Notification /\ rows[k] # None
      BY <1>T DEF Unread, Row
    <3>3. \A k \in Unread(u) : [rows[k] EXCEPT !.read = TRUE] \in Notification
      BY <3>2 DEF Notification
    <3> QED BY <1>T, <3>1, <3>2, <3>3 DEF Row
  <2>3. OutboxTypeOK'
    BY <1>T, <2>1, <2>2, RowStep DEF OutboxTypeOK
  <2> QED BY <1>T, <2>1, <2>2, <2>3 DEF MailTypeInv, Raising, Marking, Holding
<1>8. CASE SwitchMail
  <2>1. /\ UNCHANGED <<eligible, active, prefs, events, raising, changes>>
        /\ faults' \in 0..MaxFaults /\ mailOn' \in BOOLEAN
        /\ drain' = [d \in Drains |-> NoPass]
    BY <1>8, <1>T, OutboxAssumption DEF SwitchMail, OutboxTypeOK
  <2>2. rows' \in [Keys -> Row] /\ \A x \in Keys : rows[x] = None => rows'[x] = None
    BY <1>8, DoubtedTypes DEF SwitchMail
  <2>3. /\ drain' \in [Drains -> Pass] /\ Marking'
        /\ \A d \in Drains, k \in Keys : ~Holding(d, k)'
    BY <2>1, NoPassTyped DEF PassTyped, Marking, Holding
  <2>4. Raising'
    BY <2>1, <2>3, RaisingKept
  <2>5. OutboxTypeOK'
    BY <1>T, <2>1, <2>2, <2>3, RowStep DEF OutboxTypeOK
  <2> QED BY <2>2, <2>3, <2>4, <2>5 DEF MailTypeInv
<1>9. ASSUME NEW d \in Drains, ClaimPendingEmail(d) PROVE MailTypeInv'
  <2>1. PICK batch \in SUBSET {k \in Keys : Claimable(k)} :
          /\ rows' = [k \in Keys |->
               IF k \in batch THEN [rows[k] EXCEPT !.lease = "live", !.attempts = @ + 1]
               ELSE rows[k]]
          /\ drain' = [drain EXCEPT ![d].claimed = [k \in Keys |->
               IF k \in batch
                 THEN [attempts |-> rows[k].attempts + 1, deactivated |-> k[2] \notin active]
               ELSE None]]
    BY <1>9 DEF ClaimPendingEmail
  <2>2. UNCHANGED <<eligible, active, prefs, mailOn, events, raising, faults, changes>>
        /\ Idle(d)
    BY <1>9 DEF ClaimPendingEmail
  <2>3. \A k \in batch : rows[k] \in Notification /\ rows[k] # None
    BY <2>1, <1>T DEF Claimable, Row
  <2>4. rows' \in [Keys -> Row] /\ \A x \in Keys : rows[x] = None => rows'[x] = None
    BY <1>T, <2>1, <2>3, ClaimedRow DEF Row
  <2> DEFINE claimed == [k \in Keys |->
               IF k \in batch
                 THEN [attempts |-> rows[k].attempts + 1, deactivated |-> k[2] \notin active]
               ELSE None]
             p == [drain[d] EXCEPT !.claimed = claimed]
  <2>5. claimed \in [Keys -> PendingEmail \cup {None}]
    <3>1. ASSUME NEW k \in batch
          PROVE  [attempts |-> rows[k].attempts + 1, deactivated |-> k[2] \notin active]
                   \in PendingEmail
      <4>1. rows[k].attempts + 1 \in Nat
        BY <2>3 DEF Notification
      <4>2. CASE k[2] \in active
        BY <4>1, <4>2 DEF PendingEmail
      <4>3. CASE k[2] \notin active
        BY <4>1, <4>3 DEF PendingEmail
      <4> QED BY <4>2, <4>3
    <3> QED BY <3>1
  <2>6. drain[d] \in Pass /\ drain[d].marking = None
    BY <1>T, <2>2 DEF OutboxTypeOK, Marking, Idle, HeldBy, Holding
  <2> HIDE DEF claimed
  <2>7. PassTyped(p)
    BY <2>5, <2>6 DEF PassTyped, Pass
  <2>8. drain' = [drain EXCEPT ![d] = p]
    BY <2>1, <1>T DEF claimed, OutboxTypeOK
  <2>9. drain' \in [Drains -> Pass] /\ Marking'
    BY <2>7, <2>8, PassStep
  <2>10. \A c \in Drains, k \in Keys : Holding(c, k)' => Holding(c, k) \/ rows[k] # None
    BY <1>T, <2>3, <2>6, <2>8 DEF claimed, Holding, OutboxTypeOK, Pass
  <2>11. OutboxTypeOK'
    BY <1>T, <2>2, <2>4, <2>9, RowStep DEF OutboxTypeOK
  <2> QED BY <2>2, <2>4, <2>9, <2>10, <2>11, RaisingKept DEF MailTypeInv
<1>10. ASSUME NEW d \in Drains, MarkEmail(d) PROVE MailTypeInv'
  <2> DEFINE k == drain[d].marking
             p == [drain[d] EXCEPT !.claimed[k] = None, !.marking = None, !.outcome = None]
  <2>1. /\ UNCHANGED <<eligible, active, prefs, mailOn, events, raising, faults, changes>>
        /\ k \in Keys /\ drain[d].outcome \in EmailState /\ drain[d] \in Pass
    BY <1>10, <1>T DEF MarkEmail, Marking, EmailState, OutboxTypeOK
  <2>2. rows' \in [Keys -> Row] /\ \A x \in Keys : rows[x] = None => rows'[x] = None
    BY <1>10, <1>T, <2>1 DEF MarkEmail, Row, Notification
  <2>3. drain' = [drain EXCEPT ![d] = p]
    BY <1>10, <1>T, <2>1 DEF MarkEmail, OutboxTypeOK, Pass
  <2>4. PassTyped(p) /\ \A x \in Keys : p.claimed[x] # None => drain[d].claimed[x] # None
    BY <2>1 DEF PassTyped, Pass, EmailState
  <2>5. drain' \in [Drains -> Pass] /\ Marking'
    BY <2>3, <2>4, PassStep
  <2>6. \A c \in Drains, x \in Keys : Holding(c, x)' => Holding(c, x)
    BY <1>T, <2>3, <2>4 DEF Holding, OutboxTypeOK
  <2>7. OutboxTypeOK'
    BY <1>T, <2>1, <2>2, <2>5, RowStep DEF OutboxTypeOK
  <2> QED BY <2>1, <2>2, <2>5, <2>6, <2>7, RaisingKept DEF MailTypeInv
<1>11. ASSUME NEW d \in Drains, DrainDies(d) PROVE MailTypeInv'
  <2>1. /\ UNCHANGED <<eligible, active, prefs, mailOn, events, raising, changes>>
        /\ faults' \in 0..MaxFaults /\ drain' = [drain EXCEPT ![d] = NoPass]
    BY <1>11, <1>T, OutboxAssumption DEF DrainDies, OutboxTypeOK
  <2>2. rows' \in [Keys -> Row] /\ \A x \in Keys : rows[x] = None => rows'[x] = None
    BY <1>11, DoubtedTypes DEF DrainDies
  <2>3. drain' \in [Drains -> Pass] /\ Marking'
    BY <2>1, NoPassTyped, PassStep
  <2>4. \A c \in Drains, x \in Keys : Holding(c, x)' => Holding(c, x)
    BY <1>T, <2>1, NoPassTyped DEF Holding, OutboxTypeOK
  <2>5. OutboxTypeOK'
    BY <1>T, <2>1, <2>2, <2>3, RowStep DEF OutboxTypeOK
  <2> QED BY <2>1, <2>2, <2>3, <2>4, <2>5, RaisingKept DEF MailTypeInv
<1>12. ASSUME NEW d \in Drains, NEW k \in Keys, Deliver(d, k) PROVE MailTypeInv'
  <2>1. /\ UNCHANGED <<eligible, active, prefs, mailOn, events, raising, faults, changes>>
        /\ drain[d] \in Pass /\ drain[d].claimed[k] # None
    BY <1>12, <1>T DEF Deliver, HeldBy, OutboxTypeOK
  <2>2. rows' \in [Keys -> Row] /\ \A x \in Keys : rows[x] = None => rows'[x] = None
    <3>1. rows' = rows \/ \E answer \in RelayAnswers :
            rows' = [rows EXCEPT ![k] = Handed(rows[k], answer)]
      BY <1>12 DEF Deliver
    <3>2. \A answer \in RelayAnswers :
            Handed(rows[k], answer) \in Row /\ (rows[k] = None => Handed(rows[k], answer) = None)
      BY <1>T, HandedRow
    <3> QED BY <1>T, <3>1, <3>2
  <2>3. \/ \E o \in {"sent", "failed", "skipped"} :
             drain' = [drain EXCEPT ![d].marking = k, ![d].outcome = o]
        \/ drain' = [drain EXCEPT ![d].claimed[k] = None] /\ drain[d].marking = None
    BY <1>12 DEF Deliver, Outcome
  <2>4. PICK p : PassTyped(p) /\ drain' = [drain EXCEPT ![d] = p]
                 /\ \A x \in Keys : p.claimed[x] # None => drain[d].claimed[x] # None
    <3>1. CASE \E o \in {"sent", "failed", "skipped"} :
                 drain' = [drain EXCEPT ![d].marking = k, ![d].outcome = o]
      <4>1. PICK o \in {"sent", "failed", "skipped"} :
              drain' = [drain EXCEPT ![d].marking = k, ![d].outcome = o]
        BY <3>1
      <4> DEFINE p == [drain[d] EXCEPT !.marking = k, !.outcome = o]
      <4>2. PassTyped(p) /\ p.claimed = drain[d].claimed
        BY <2>1 DEF PassTyped, Pass, EmailState
      <4>3. drain' = [drain EXCEPT ![d] = p]
        BY <4>1, <1>T DEF OutboxTypeOK
      <4> QED BY <4>2, <4>3
    <3>2. CASE drain' = [drain EXCEPT ![d].claimed[k] = None] /\ drain[d].marking = None
      <4> DEFINE p == [drain[d] EXCEPT !.claimed[k] = None]
      <4>2. PassTyped(p) /\ \A x \in Keys : p.claimed[x] # None => drain[d].claimed[x] # None
        BY <2>1, <3>2 DEF PassTyped, Pass, EmailState
      <4>3. drain' = [drain EXCEPT ![d] = p]
        BY <3>2, <1>T DEF OutboxTypeOK
      <4> QED BY <4>2, <4>3
    <3> QED BY <2>3, <3>1, <3>2
  <2>5. drain' \in [Drains -> Pass] /\ Marking'
    BY <2>4, PassStep
  <2>6. \A c \in Drains, x \in Keys : Holding(c, x)' => Holding(c, x)
    BY <1>T, <2>4 DEF Holding, OutboxTypeOK
  <2>7. OutboxTypeOK'
    BY <1>T, <2>1, <2>2, <2>5, RowStep DEF OutboxTypeOK
  <2> QED BY <2>1, <2>2, <2>5, <2>6, <2>7, RaisingKept DEF MailTypeInv
<1>13. CASE UNCHANGED outboxVars
  BY <1>13, <1>T DEF outboxVars, MailTypeInv, OutboxTypeOK, Raising, Marking, Holding
<1> QED BY <1>1, <1>2, <1>3, <1>4, <1>5, <1>6, <1>7, <1>8, <1>9, <1>10, <1>11, <1>12, <1>13
        DEF OutboxNext

-----------------------------------------------------------------------------
(* What the relay saw *)

LEMMA InHandDef ==
    \A k \in Keys : /\ InHand(k) <=> \E d \in Drains : Holding(d, k)
                    /\ InHand(k)' <=> \E d \in Drains : Holding(d, k)'
  BY DEF InHand, HeldBy, Holding

\* A step that changes neither what a row says of its mail nor who has it in hand.
LEMMA KeyKept ==
    ASSUME NEW k \in Keys, KeyInv(k),
           rows'[k] # None =>
             /\ rows[k] # None /\ rows'[k].email = rows[k].email
             /\ rows'[k].attempts = rows[k].attempts /\ rows'[k].lease = rows[k].lease
             /\ rows'[k].accepted = rows[k].accepted /\ rows'[k].doubt = rows[k].doubt,
           \A d \in Drains : /\ drain'[d].claimed[k] = drain[d].claimed[k]
                             /\ Sending(d, k)' <=> Sending(d, k)
    PROVE  KeyInv(k)'
<1>1. \A d \in Drains : Holding(d, k)' <=> Holding(d, k)
  BY DEF Holding
<1>2. InHand(k)' <=> InHand(k)
  BY <1>1, InHandDef
<1> QED BY <1>1, <1>2 DEF KeyInv, Taken, Clear

\* A step that leaves the passes alone and changes nothing a row says of its mail.
LEMMA RowsKept ==
    ASSUME RelayInv, drain' = drain,
           \A k \in Keys : rows'[k] # None =>
             /\ rows[k] # None /\ rows'[k].email = rows[k].email
             /\ rows'[k].attempts = rows[k].attempts /\ rows'[k].lease = rows[k].lease
             /\ rows'[k].accepted = rows[k].accepted /\ rows'[k].doubt = rows[k].doubt
    PROVE  RelayInv'
<1> SUFFICES ASSUME NEW k \in Keys PROVE KeyInv(k)'
  BY DEF RelayInv
<1>1. \A d \in Drains : drain'[d].claimed[k] = drain[d].claimed[k] /\ (Sending(d, k)' <=> Sending(d, k))
  BY DEF Sending
<1> QED BY <1>1, KeyKept DEF RelayInv

\* Passes that end leave the rows they held in doubt, and the others as they were.
LEMMA PassesEnd ==
    ASSUME MailTypeInv, RelayInv, NEW ended \in SUBSET Drains,
           rows' = Doubted(UNION {HeldBy(d) : d \in ended}),
           \A d \in Drains : drain'[d] = IF d \in ended THEN NoPass ELSE drain[d]
    PROVE  RelayInv'
<1> SUFFICES ASSUME NEW k \in Keys PROVE KeyInv(k)'
  BY DEF RelayInv
<1>1. CASE \E d \in ended : Holding(d, k)
  <2>1. k \in UNION {HeldBy(d) : d \in ended}
    BY <1>1 DEF HeldBy, Holding
  <2>2. rows'[k] # None => /\ rows[k] # None /\ rows'[k].doubt
                           /\ rows'[k].email = rows[k].email /\ rows'[k].accepted = rows[k].accepted
    BY <2>1 DEF Doubted, MailTypeInv, Row, Notification
  <2>3. \A d \in Drains : Sending(d, k)' => Sending(d, k)
    BY OutboxAssumption DEF Sending, NoPass
  <2> QED BY <2>2, <2>3 DEF RelayInv, KeyInv, Taken
<1>2. CASE ~\E d \in ended : Holding(d, k)
  <2>1. k \notin UNION {HeldBy(d) : d \in ended}
    BY <1>2 DEF HeldBy, Holding
  <2>2. rows'[k] = rows[k]
    BY <2>1 DEF Doubted
  <2>3. \A d \in Drains : drain'[d].claimed[k] = drain[d].claimed[k]
    BY <1>2, NoPassTyped DEF Holding
  <2>4. \A d \in Drains : Sending(d, k)' <=> Sending(d, k)
    BY <1>2, OutboxAssumption DEF Sending, NoPass, MailTypeInv, Marking
  <2> QED BY <2>2, <2>3, <2>4, KeyKept DEF RelayInv
<1> QED BY <1>1, <1>2

LEMMA ClaimRelay ==
    ASSUME MailTypeInv, RelayInv, NEW d \in Drains, ClaimPendingEmail(d)
    PROVE  RelayInv'
<1> SUFFICES ASSUME NEW k \in Keys PROVE KeyInv(k)'
  BY DEF RelayInv
<1>1. PICK batch \in SUBSET {x \in Keys : Claimable(x)} :
        /\ rows' = [x \in Keys |->
             IF x \in batch THEN [rows[x] EXCEPT !.lease = "live", !.attempts = @ + 1]
             ELSE rows[x]]
        /\ drain' = [drain EXCEPT ![d].claimed = [x \in Keys |->
             IF x \in batch
               THEN [attempts |-> rows[x].attempts + 1, deactivated |-> x[2] \notin active]
             ELSE None]]
  BY DEF ClaimPendingEmail
<1> DEFINE claimed == [x \in Keys |->
             IF x \in batch
               THEN [attempts |-> rows[x].attempts + 1, deactivated |-> x[2] \notin active]
             ELSE None]
           p == [drain[d] EXCEPT !.claimed = claimed]
<1>0. ~Holding(d, k) /\ drain[d] \in Pass
  BY DEF ClaimPendingEmail, Idle, HeldBy, Holding, MailTypeInv, OutboxTypeOK
<1>a. drain' = [drain EXCEPT ![d] = p]
  BY <1>1 DEF MailTypeInv, OutboxTypeOK
<1>b. claimed[k] = IF k \in batch
        THEN [attempts |-> rows[k].attempts + 1, deactivated |-> k[2] \notin active] ELSE None
  OBVIOUS
<1> HIDE DEF claimed
<1>c. p.claimed = claimed /\ p.marking = drain[d].marking /\ p.outcome = drain[d].outcome
  BY <1>0 DEF Pass
<1> HIDE DEF p
<1>2. /\ drain'[d].claimed = claimed
      /\ \A c \in Drains : drain'[c].marking = drain[c].marking /\ drain'[c].outcome = drain[c].outcome
      /\ \A c \in Drains : c # d => drain'[c].claimed[k] = drain[c].claimed[k]
  BY <1>a, <1>c DEF MailTypeInv, OutboxTypeOK
<1>3. \A c \in Drains : Sending(c, k)' <=> Sending(c, k)
  BY <1>2 DEF Sending
<1>4. CASE k \notin batch
  <2>1. rows'[k] = rows[k] /\ drain'[d].claimed[k] = None
    BY <1>1, <1>b, <1>2, <1>4
  <2> QED BY <1>0, <1>2, <1>3, <2>1, KeyKept DEF RelayInv, Holding
<1>5. CASE k \in batch
  <2>1. /\ rows[k] \in Notification /\ rows[k] # None /\ rows[k].email = "pending"
        /\ rows[k].lease # "live"
    BY <1>1, <1>5 DEF Claimable, MailTypeInv, Row
  <2>2. rows'[k] = [rows[k] EXCEPT !.lease = "live", !.attempts = rows[k].attempts + 1]
    BY <1>1, <1>5
  <2>3. /\ rows'[k].lease = "live" /\ rows'[k].attempts = rows[k].attempts + 1
        /\ rows'[k].email = "pending" /\ rows'[k].accepted = rows[k].accepted
        /\ rows'[k].doubt = rows[k].doubt
    BY <2>1, <2>2 DEF Notification
  <2>4. drain'[d].claimed[k].attempts = rows[k].attempts + 1
    BY <1>b, <1>2, <1>5
  <2>5. KeyInv(k)
    BY DEF RelayInv
  <2>6. CASE rows[k].doubt
    BY <1>3, <2>1, <2>3, <2>5, <2>6, OutboxAssumption DEF KeyInv, Taken
  <2>7. CASE ~rows[k].doubt
    <3>1. \A c \in Drains : ~Holding(c, k) /\ ~Sending(c, k)
      BY <2>1, <2>5, <2>7, OutboxAssumption DEF KeyInv, Clear, MailTypeInv, Marking, Sending
    <3>2. rows[k].attempts < MaxEmailAttempts /\ rows[k].accepted = 0
      BY <2>1, <2>5, <2>7, <3>1, InHandDef DEF KeyInv, Clear
    <3>3. \A c \in Drains : Holding(c, k)' => c = d
      BY <1>2, <3>1 DEF Holding
    <3>4. drain'[d].claimed[k] # None
      <4>1. drain'[d].claimed[k]
              = [attempts |-> rows[k].attempts + 1, deactivated |-> k[2] \notin active]
        BY <1>b, <1>2, <1>5
      <4>2. drain'[d].claimed[k] \in PendingEmail
        <5>1. rows[k].attempts + 1 \in Nat
          BY <2>1 DEF Notification
        <5>2. CASE k[2] \in active
          BY <4>1, <5>1, <5>2 DEF PendingEmail
        <5>3. CASE k[2] \notin active
          BY <4>1, <5>1, <5>3 DEF PendingEmail
        <5> QED BY <5>2, <5>3
      <4> QED BY <4>2, NullAssumption
    <3>5. InHand(k)'
      BY <3>4, InHandDef DEF Holding
    <3>6. Clear(k)'
      BY <2>1, <2>3, <2>4, <3>2, <3>3, <3>5, OutboxAssumption DEF Clear, Notification
    <3>7. Taken(k)'
      BY <1>3, <2>3, <3>1, OutboxAssumption DEF Taken
    <3> QED BY <3>6, <3>7 DEF KeyInv
  <2> QED BY <2>6, <2>7
<1> QED BY <1>4, <1>5

\* In a step of pass d a row it does not touch is as it was.
LEMMA OtherRow ==
    ASSUME NEW d \in Drains, NEW x \in Keys, KeyInv(x), rows'[x] = rows[x],
           \A c \in Drains : c # d => drain'[c] = drain[c],
           drain'[d].claimed[x] = drain[d].claimed[x], ~Sending(d, x), ~Sending(d, x)'
    PROVE  KeyInv(x)'
<1>1. \A c \in Drains : drain'[c].claimed[x] = drain[c].claimed[x] /\ (Sending(c, x)' <=> Sending(c, x))
  BY DEF Sending
<1> QED BY <1>1, KeyKept

\* What a pass can do with the next row of its batch.
LEMMA DeliverCases ==
    ASSUME MailTypeInv, NEW d \in Drains, NEW k \in Keys, Deliver(d, k)
    PROVE  /\ Holding(d, k) /\ drain[d].marking = None
           /\ \A c \in Drains : c # d => drain'[c] = drain[c]
           /\ \A x \in Keys : x # k => /\ drain'[d].claimed[x] = drain[d].claimed[x]
                                       /\ rows'[x] = rows[x]
           /\ drain'[d].marking \in {k, None}
           /\ \/ /\ rows' = rows /\ drain'[d].claimed = drain[d].claimed
                 /\ drain'[d].outcome # "sent"
              \/ /\ rows'[k] = Handed(rows[k], [took |-> TRUE, error |-> None])
                 /\ drain'[d].claimed = drain[d].claimed
                 /\ drain'[d].marking = k /\ drain'[d].outcome = "sent"
              \/ rows'[k] = Handed(rows[k], [took |-> TRUE, error |-> "connection"])
              \/ /\ rows' = rows /\ drain'[d].claimed = [drain[d].claimed EXCEPT ![k] = None]
                 /\ drain'[d].marking = None /\ RetriesLeft(drain[d].claimed[k])
<1>1. /\ drain[d] \in Pass /\ drain \in [Drains -> Pass] /\ rows \in [Keys -> Row]
      /\ drain[d].claimed \in [Keys -> PendingEmail \cup {None}]
  BY DEF MailTypeInv, OutboxTypeOK, Pass
<1>2. Holding(d, k) /\ drain[d].marking = None
  BY DEF Deliver, HeldBy, Holding
<1> DEFINE marked(o) == [drain EXCEPT ![d].marking = k, ![d].outcome = o]
           dropped == [drain EXCEPT ![d].claimed[k] = None]
<1>3. ASSUME NEW o
      PROVE  /\ marked(o)[d].claimed = drain[d].claimed
             /\ marked(o)[d].marking = k /\ marked(o)[d].outcome = o
             /\ \A c \in Drains : c # d => marked(o)[c] = drain[c]
  BY <1>1 DEF Pass
<1>4. /\ dropped[d].claimed = [drain[d].claimed EXCEPT ![k] = None]
      /\ dropped[d].marking = drain[d].marking
      /\ \A c \in Drains : c # d => dropped[c] = drain[c]
  BY <1>1 DEF Pass
<1>5. \/ rows' = rows /\ \E o \in {"failed", "skipped"} : drain' = marked(o)
      \/ /\ rows' = [rows EXCEPT ![k] = Handed(rows[k], [took |-> TRUE, error |-> None])]
         /\ drain' = marked("sent")
      \/ /\ rows' = [rows EXCEPT ![k] = Handed(rows[k], [took |-> TRUE, error |-> "connection"])]
         /\ drain' = dropped \/ \E o \in {"failed"} : drain' = marked(o)
      \/ rows' = rows /\ drain' = dropped /\ RetriesLeft(drain[d].claimed[k])
  <2> HIDE DEF marked, dropped
  <2>1. CASE rows' = rows /\ \E o \in {"failed", "skipped"} :
                drain' = [drain EXCEPT ![d].marking = k, ![d].outcome = o]
    BY <2>1 DEF marked
  <2>2. CASE \E answer \in RelayAnswers :
               /\ rows' = [rows EXCEPT ![k] = Handed(rows[k], answer)]
               /\ drain' = IF Outcome(drain[d].claimed[k], answer) = None THEN dropped
                           ELSE marked(Outcome(drain[d].claimed[k], answer))
    <3>1. PICK answer \in RelayAnswers :
               /\ rows' = [rows EXCEPT ![k] = Handed(rows[k], answer)]
               /\ drain' = IF Outcome(drain[d].claimed[k], answer) = None THEN dropped
                           ELSE marked(Outcome(drain[d].claimed[k], answer))
      BY <2>2
    <3>2. CASE answer = [took |-> TRUE, error |-> None]
      <4>1. Outcome(drain[d].claimed[k], answer) = "sent" /\ "sent" # None
        BY <3>2, OutboxAssumption DEF Outcome
      <4> QED BY <3>1, <3>2, <4>1
    <3>3. CASE answer = [took |-> TRUE, error |-> "connection"]
      <4>1. /\ Outcome(drain[d].claimed[k], answer) \in {None, "failed"} /\ "failed" # None
        BY <3>3, OutboxAssumption DEF Outcome
      <4> QED BY <3>1, <3>3, <4>1
    <3>4. CASE answer \in {[took |-> FALSE, error |-> x] : x \in {"refused", "4xx", "5xx", "connection"}}
      <4>1. ~answer.took /\ answer.error # None
        BY <3>4, OutboxAssumption
      <4>2. rows' = rows
        BY <1>1, <3>1, <4>1 DEF Handed
      <4>3. \/ Outcome(drain[d].claimed[k], answer) = None /\ RetriesLeft(drain[d].claimed[k])
            \/ Outcome(drain[d].claimed[k], answer) = "failed" /\ "failed" # None
        BY <4>1, OutboxAssumption DEF Outcome
      <4> QED BY <3>1, <4>2, <4>3
    <3> QED BY <3>2, <3>3, <3>4 DEF RelayAnswers
  <2> QED BY <2>1, <2>2 DEF Deliver, marked, dropped
<1> HIDE DEF marked, dropped
<1>6. "failed" # "sent" /\ "skipped" # "sent"
  OBVIOUS
<1> QED BY <1>1, <1>2, <1>3, <1>4, <1>5, <1>6

LEMMA DeliverRelay ==
    ASSUME MailTypeInv, RelayInv, NEW d \in Drains, NEW k \in Keys, Deliver(d, k)
    PROVE  RelayInv'
<1> SUFFICES ASSUME NEW x \in Keys PROVE KeyInv(x)'
  BY DEF RelayInv
<1>0. KeyInv(x) /\ x # None /\ \A c \in Drains : Sending(c, x) => Holding(c, x)
  BY OutboxAssumption DEF RelayInv, MailTypeInv, Marking, Sending
<1>1. /\ Holding(d, k) /\ drain[d].marking = None
      /\ \A c \in Drains : c # d => drain'[c] = drain[c]
      /\ x # k => drain'[d].claimed[x] = drain[d].claimed[x] /\ rows'[x] = rows[x]
      /\ drain'[d].marking \in {k, None}
  BY DeliverCases
<1>2. ~Sending(d, x)
  BY <1>0, <1>1 DEF Sending
<1>3. CASE x # k
  <2>1. ~Sending(d, x)'
    BY <1>0, <1>1, <1>3 DEF Sending
  <2> QED BY <1>0, <1>1, <1>2, <1>3, <2>1, OtherRow
<1>4. CASE x = k /\ rows' = rows /\ drain'[d].claimed = drain[d].claimed
           /\ drain'[d].outcome # "sent"
  <2>1. ~Sending(d, x)'
    BY <1>4 DEF Sending
  <2> QED BY <1>0, <1>1, <1>2, <1>4, <2>1, OtherRow
<1>5. ASSUME x = k, rows[k] # None PROVE rows[k] \in Notification /\ rows[k].accepted \in Nat
  BY <1>5 DEF MailTypeInv, Row, Notification
<1>6. CASE /\ x = k /\ rows'[k] = Handed(rows[k], [took |-> TRUE, error |-> None])
           /\ drain'[d].claimed = drain[d].claimed
           /\ drain'[d].marking = k /\ drain'[d].outcome = "sent"
  <2>1. CASE rows[k] = None
    BY <1>6, <2>1 DEF Handed, KeyInv
  <2>2. CASE rows[k] # None
    <3>1. rows'[k] = [rows[k] EXCEPT !.accepted = rows[k].accepted + 1, !.doubt = rows[k].doubt]
      BY <1>6, <2>2 DEF Handed
    <3>2. /\ rows'[k].email = rows[k].email /\ rows'[k].attempts = rows[k].attempts
          /\ rows'[k].lease = rows[k].lease /\ rows'[k].accepted = rows[k].accepted + 1
          /\ rows'[k].doubt = rows[k].doubt
      BY <1>5, <1>6, <2>2, <3>1 DEF Notification
    <3>3. Taken(k)'
      BY <1>5, <1>6, <2>2, <3>2 DEF Taken
    <3>4. \A c \in Drains : drain'[c].claimed[k] = drain[c].claimed[k]
      BY <1>1, <1>6
    <3>5. \A c \in Drains : Holding(c, k)' <=> Holding(c, k)
      BY <3>4 DEF Holding
    <3>6. ASSUME Clear(k) PROVE Clear(k)'
      <4>1. rows[k].email = "pending" /\ \A c \in Drains : Holding(c, k) => c = d
        BY <3>6, <1>1 DEF Clear
      <4>2. ~\E c \in Drains : Sending(c, k)
        BY <4>1, <1>0, <1>2, <1>6
      <4>3. rows[k].accepted = 0
        BY <3>6, <4>1, <4>2 DEF Clear
      <4>4. InHand(k)'
        BY <1>1, <3>5, InHandDef
      <4>5. Sending(d, k)'
        BY <1>6 DEF Sending
      <4> QED BY <3>2, <3>4, <3>5, <3>6, <4>1, <4>3, <4>4, <4>5, OutboxAssumption DEF Clear
    <3> QED BY <1>0, <1>6, <2>2, <3>2, <3>3, <3>6 DEF KeyInv
  <2> QED BY <2>1, <2>2
<1>7. CASE x = k /\ rows'[k] = Handed(rows[k], [took |-> TRUE, error |-> "connection"])
  <2>1. CASE rows[k] = None
    BY <1>7, <2>1 DEF Handed, KeyInv
  <2>2. CASE rows[k] # None
    <3>1. rows'[k] = [rows[k] EXCEPT !.accepted = rows[k].accepted + 1, !.doubt = TRUE]
      BY <1>7, <2>2, OutboxAssumption DEF Handed
    <3>2. rows'[k].accepted = rows[k].accepted + 1 /\ rows'[k].doubt
      BY <1>5, <1>7, <2>2, <3>1 DEF Notification
    <3> QED BY <1>5, <1>7, <2>2, <3>2 DEF KeyInv, Taken
  <2> QED BY <2>1, <2>2
<1>8. CASE /\ x = k /\ rows' = rows /\ drain'[d].claimed = [drain[d].claimed EXCEPT ![k] = None]
           /\ drain'[d].marking = None /\ RetriesLeft(drain[d].claimed[k])
  <2>1. \A c \in Drains : Sending(c, k)' <=> Sending(c, k)
    BY <1>0, <1>1, <1>2, <1>8 DEF Sending
  <2>2. ~Holding(d, k)' /\ \A c \in Drains : c # d => (Holding(c, k)' <=> Holding(c, k))
    BY <1>1, <1>8 DEF Holding, MailTypeInv, OutboxTypeOK, Pass
  <2>3. rows[k] # None => Taken(k)'
    BY <1>0, <1>8, <2>1 DEF KeyInv, Taken
  <2>4. ASSUME rows[k] # None, Clear(k) PROVE Clear(k)'
    <3>1. /\ rows[k].email = "pending" /\ rows[k].attempts < MaxEmailAttempts
          /\ \A c \in Drains : Holding(c, k) => c = d
      BY <2>4, <1>1, <1>8 DEF Clear, RetriesLeft
    <3>2. ~\E c \in Drains : Sending(c, k)
      BY <3>1, <1>0, <1>2, <1>8
    <3>3. rows[k].accepted = 0
      BY <2>4, <3>1, <3>2 DEF Clear
    <3>4. \A c \in Drains : ~Holding(c, k)'
      BY <2>2, <3>1
    <3>5. rows'[k] = rows[k] /\ rows[k].attempts \in Nat
      BY <1>5, <1>8, <2>4 DEF Notification
    <3> QED BY <3>1, <3>3, <3>4, <3>5, OutboxAssumption DEF Clear
  <2> QED BY <1>0, <1>8, <2>3, <2>4 DEF KeyInv
<1> QED BY <1>3, <1>4, <1>6, <1>7, <1>8, DeliverCases

LEMMA MarkRelay ==
    ASSUME MailTypeInv, RelayInv, NEW d \in Drains, MarkEmail(d)
    PROVE  RelayInv'
<1> SUFFICES ASSUME NEW x \in Keys PROVE KeyInv(x)'
  BY DEF RelayInv
<1>0. KeyInv(x) /\ x # None /\ \A c \in Drains : Sending(c, x) => Holding(c, x)
  BY OutboxAssumption DEF RelayInv, MailTypeInv, Marking, Sending
<1>1. PICK k \in Keys :
        /\ k = drain[d].marking /\ Holding(d, k) /\ drain[d].outcome \in {"sent", "failed", "skipped"}
        /\ drain[d] \in Pass /\ drain[d].claimed \in [Keys -> PendingEmail \cup {None}]
  BY DEF MarkEmail, MailTypeInv, OutboxTypeOK, Marking, Pass
<1> DEFINE p == [drain[d] EXCEPT !.claimed[k] = None, !.marking = None, !.outcome = None]
<1>2. drain' = [drain EXCEPT ![d] = p]
  BY <1>1 DEF MarkEmail, MailTypeInv, OutboxTypeOK, Pass
<1>3. p.claimed = [drain[d].claimed EXCEPT ![k] = None] /\ p.marking = None
  BY <1>1 DEF Pass
<1>4. rows' = IF rows[k] # None /\ rows[k].email = "pending"
                THEN [rows EXCEPT ![k].email = drain[d].outcome, ![k].lease = "none"]
              ELSE rows
  BY <1>1 DEF MarkEmail
<1> HIDE DEF p
<1>5. /\ drain'[d].claimed = [drain[d].claimed EXCEPT ![k] = None] /\ drain'[d].marking = None
      /\ \A c \in Drains : c # d => drain'[c] = drain[c]
  BY <1>2, <1>3 DEF MailTypeInv, OutboxTypeOK
<1>6. ~Sending(d, x)' /\ \A c \in Drains : Sending(c, x)' => Sending(c, x)
  BY <1>0, <1>5 DEF Sending
<1>7. CASE x # k
  <2>1. drain'[d].claimed[x] = drain[d].claimed[x] /\ ~Sending(d, x)
    BY <1>1, <1>5, <1>7 DEF Sending
  <2>2. rows'[x] = rows[x]
    BY <1>1, <1>4, <1>7 DEF MailTypeInv
  <2> QED BY <1>0, <1>5, <1>6, <2>1, <2>2, OtherRow
<1>8. CASE x = k /\ rows' = rows /\ ~(rows[k] # None /\ rows[k].email = "pending")
  BY <1>0, <1>1, <1>6, <1>8 DEF KeyInv, Taken, Clear
<1>9. CASE /\ x = k /\ rows[k] # None /\ rows[k].email = "pending"
           /\ rows' = [rows EXCEPT ![k].email = drain[d].outcome, ![k].lease = "none"]
  <2>1. rows[k] \in Notification /\ rows \in [Keys -> Row]
    BY <1>1, <1>9 DEF MailTypeInv, Row
  <2>2. /\ rows'[k].email = drain[d].outcome /\ rows'[k].attempts = rows[k].attempts
        /\ rows'[k].accepted = rows[k].accepted /\ rows'[k].doubt = rows[k].doubt
    BY <1>1, <1>9, <2>1 DEF Notification
  <2>3. drain[d].outcome = "sent" => Sending(d, k)
    BY <1>1 DEF Sending
  <2>4. Taken(k)'
    BY <1>0, <1>1, <1>6, <1>9, <2>2, <2>3 DEF KeyInv, Taken
  <2>5. ASSUME Clear(k) PROVE Clear(k)'
    <3>1. \A c \in Drains : Holding(c, k) => c = d
      BY <1>1, <2>5 DEF Clear
    <3>2. \A c \in Drains : ~Holding(c, k)'
      BY <1>1, <1>5, <3>1 DEF Holding
    <3>3. drain[d].outcome # "sent" => ~\E c \in Drains : Sending(c, k)
      BY <1>0, <1>9, <3>1 DEF Sending
    <3>4. drain[d].outcome # "sent" => rows[k].accepted = 0
      BY <1>9, <2>5, <3>3 DEF Clear
    <3> QED BY <1>1, <2>2, <2>5, <3>2, <3>4, OutboxAssumption DEF Clear
  <2> QED BY <1>0, <1>9, <2>2, <2>4, <2>5 DEF KeyInv
<1> QED BY <1>4, <1>7, <1>8, <1>9

LEMMA RelayInit == OutboxInit => RelayInv
  BY DEF OutboxInit, RelayInv, KeyInv

LEMMA RelayNext == MailTypeInv /\ RelayInv /\ [OutboxNext]_outboxVars => RelayInv'
<1> SUFFICES ASSUME MailTypeInv, RelayInv, [OutboxNext]_outboxVars PROVE RelayInv'
  OBVIOUS
<1>T. OutboxTypeOK /\ rows \in [Keys -> Row] /\ Marking /\ Raising
  BY DEF MailTypeInv
<1>1. ASSUME UNCHANGED <<rows, drain>> PROVE RelayInv'
  BY <1>1, RowsKept
<1>2. ASSUME NEW e \in EventIds, RaiseEvent(e) \/ RaiseDirect(e) \/ Ages(e) PROVE RelayInv'
  BY <1>1, <1>2 DEF RaiseEvent, RaiseDirect, Ages
<1>3. ASSUME NEW e \in EventIds, DeleteOlderThan(e) PROVE RelayInv'
  BY <1>3, <1>T, RowsKept DEF DeleteOlderThan
<1>4. CASE WriteAndCommit
  <2> SUFFICES ASSUME NEW k \in Keys PROVE KeyInv(k)'
    BY DEF RelayInv
  <2>1. drain' = drain /\ rows'[k] = IF k[1] = raising.event /\ k[2] \in raising.to
                                       THEN Delivery(k[2]) ELSE rows[k]
    BY <1>4 DEF WriteAndCommit
  <2>2. \A d \in Drains : drain'[d].claimed[k] = drain[d].claimed[k] /\ (Sending(d, k)' <=> Sending(d, k))
    BY <2>1 DEF Sending
  <2>3. CASE k[1] = raising.event /\ k[2] \in raising.to
    <3>1. \A d \in Drains : ~Holding(d, k) /\ ~Sending(d, k)
      BY <1>4, <1>T, <2>3, OutboxAssumption DEF WriteAndCommit, Raising, Marking, Sending
    <3>2. \A d \in Drains : ~Holding(d, k)' /\ ~Sending(d, k)'
      BY <2>2, <3>1 DEF Holding
    <3>3. /\ rows'[k].email \in {None, "pending"} /\ rows'[k].attempts = 0 /\ rows'[k].accepted = 0
      BY <2>1, <2>3 DEF Delivery
    <3>4. 0 < MaxEmailAttempts /\ 0 <= MaxEmailAttempts
      BY OutboxAssumption
    <3> QED BY <3>2, <3>3, <3>4, OutboxAssumption DEF KeyInv, Taken, Clear
  <2>4. CASE ~(k[1] = raising.event /\ k[2] \in raising.to)
    BY <2>1, <2>2, <2>4, KeyKept DEF RelayInv
  <2> QED BY <2>3, <2>4
<1>5. CASE CallerRollsBack
  BY <1>1, <1>5 DEF CallerRollsBack
<1>6. ASSUME NEW k \in Keys, MarkRead(k) PROVE RelayInv'
  <2>1. rows[k] \in Notification /\ rows' = [rows EXCEPT ![k].read = TRUE] /\ drain' = drain
        /\ rows[k] # None
    BY <1>6, <1>T DEF MarkRead, Row
  <2> QED BY <1>T, <2>1, RowsKept DEF Notification
<1>7. ASSUME NEW k \in Keys, LeaseLapses(k) \/ LeaseOverrun(k) PROVE RelayInv'
  <2> SUFFICES ASSUME NEW x \in Keys PROVE KeyInv(x)'
    BY DEF RelayInv
  <2>1. /\ rows[k] \in Notification /\ rows[k] # None /\ drain' = drain
        /\ x # k => rows'[x] = rows[x]
    BY <1>7, <1>T DEF LeaseLapses, LeaseOverrun, Row
  <2>2. \A d \in Drains : drain'[d].claimed[x] = drain[d].claimed[x] /\ (Sending(d, x)' <=> Sending(d, x))
    BY <2>1 DEF Sending
  <2>3. CASE x # k
    BY <2>1, <2>2, <2>3, KeyKept DEF RelayInv
  <2>4. /\ rows'[k].email = rows[k].email /\ rows'[k].attempts = rows[k].attempts
        /\ rows'[k].accepted = rows[k].accepted
    BY <1>7, <1>T, <2>1 DEF LeaseLapses, LeaseOverrun, Notification
  <2>5. KeyInv(k)
    BY DEF RelayInv
  <2>6. CASE x = k /\ LeaseOverrun(k)
    <3>1. rows'[k].doubt
      BY <1>T, <2>1, <2>6 DEF LeaseOverrun, Notification
    <3>2. Taken(k)'
      BY <2>1, <2>2, <2>4, <2>5, <2>6 DEF KeyInv, Taken
    <3> QED BY <2>6, <3>1, <3>2 DEF KeyInv
  <2>7. CASE x = k /\ LeaseLapses(k)
    <3>1. rows'[k].doubt = rows[k].doubt /\ ~InHand(k)
      BY <1>T, <2>1, <2>7 DEF LeaseLapses, Notification
    <3>2. Taken(k)'
      BY <2>1, <2>2, <2>4, <2>5, <2>7 DEF KeyInv, Taken
    <3>3. \A d \in Drains : ~Holding(d, k) /\ ~Holding(d, k)'
      BY <2>2, <2>7, <3>1, InHandDef DEF Holding
    <3>4. Clear(k) => Clear(k)'
      BY <2>2, <2>4, <2>7, <3>1, <3>3 DEF Clear
    <3> QED BY <2>1, <2>5, <2>7, <3>1, <3>2, <3>4 DEF KeyInv
  <2> QED BY <1>7, <2>3, <2>6, <2>7
<1>8. ASSUME NEW u \in Users, MarkAllRead(u) PROVE RelayInv'
  <2>1. drain' = drain /\ \A k \in Keys :
          rows'[k] = IF k \in Unread(u) THEN [rows[k] EXCEPT !.read = TRUE] ELSE rows[k]
    BY <1>8 DEF MarkAllRead
  <2>2. \A k \in Unread(u) : rows[k] \in Notification /\ rows[k] # None
    BY <1>T DEF Unread, Row
  <2> QED BY <2>1, <2>2, RowsKept DEF Notification
<1>9. ASSUME NEW u \in Users, UpdatePreferences(u) \/ AccountChanges(u) PROVE RelayInv'
  BY <1>1, <1>9 DEF UpdatePreferences, AccountChanges
<1>10. CASE SwitchMail
  BY <1>10, PassesEnd DEF SwitchMail
<1>11. ASSUME NEW d \in Drains, DrainDies(d) PROVE RelayInv'
  <2>1. UNION {HeldBy(c) : c \in {d}} = HeldBy(d)
    OBVIOUS
  <2>2. \A c \in Drains : drain'[c] = IF c \in {d} THEN NoPass ELSE drain[c]
    BY <1>11, <1>T DEF DrainDies, OutboxTypeOK
  <2> QED BY <1>11, <2>1, <2>2, PassesEnd DEF DrainDies
<1>12. CASE UNCHANGED outboxVars
  BY <1>1, <1>12 DEF outboxVars
<1> QED BY <1>2, <1>3, <1>4, <1>5, <1>6, <1>7, <1>8, <1>9, <1>10, <1>11, <1>12,
           ClaimRelay, DeliverRelay, MarkRelay DEF OutboxNext

\* mail/outbox.py: what a delivery's row records is what the relay saw.  It took the mail
\* at most once and never for a row given up, unless a pass or an answer was lost with the
\* row in hand; `sent` was taken; and no row is tried more often than the ceiling.
THEOREM RelaySafe == OutboxSpec => []RecordMatchesRelay
<1>1. OutboxInit => MailTypeInv /\ RelayInv
  BY MailTypeInit, RelayInit
<1>2. MailTypeInv /\ RelayInv /\ [OutboxNext]_outboxVars => (MailTypeInv /\ RelayInv)'
  BY MailTypeNext, RelayNext
<1>3. MailTypeInv /\ RelayInv => RecordMatchesRelay
  <2> SUFFICES ASSUME MailTypeInv, RelayInv PROVE RecordMatchesRelay
    OBVIOUS
  <2>1. \A k \in Keys : rows[k] # None => KeyInv(k) /\ rows[k].accepted \in Nat
    BY DEF RelayInv, MailTypeInv, Row, Notification
  <2>2. SentOnceUnlessInDoubt /\ AttemptsAreBounded
    BY <2>1 DEF SentOnceUnlessInDoubt, AttemptsAreBounded, KeyInv, Clear
  <2>3. OutcomeIsTrue
    BY <2>1 DEF OutcomeIsTrue, KeyInv, Clear, Taken
  <2> QED BY <2>2, <2>3 DEF RecordMatchesRelay, MailTypeInv
<1> QED BY <1>1, <1>2, <1>3, PTL DEF OutboxSpec

-----------------------------------------------------------------------------
(* Outcomes are final *)

\* mail/outbox.py: no later claim, pass or mark replaces an outcome that was recorded.
THEOREM OutcomesStand == OutboxSpec => OutcomeIsFinal
<1> DEFINE Kept == \A k \in Keys :
             rows[k] # None /\ rows[k].email \in {"sent", "failed", "skipped"}
               => rows'[k] = None \/ rows'[k].email = rows[k].email
<1>1. MailTypeInv /\ [OutboxNext]_outboxVars => Kept
  <2> SUFFICES ASSUME MailTypeInv, [OutboxNext]_outboxVars, NEW k \in Keys,
                      rows[k] # None, rows[k].email \in {"sent", "failed", "skipped"}
               PROVE  rows'[k] = None \/ rows'[k].email = rows[k].email
    OBVIOUS
  <2>T. OutboxTypeOK /\ Raising /\ rows \in [Keys -> Row] /\ rows[k] \in Notification
    BY DEF MailTypeInv, Row
  <2>1. CASE UNCHANGED rows
    BY <2>1
  <2>2. ASSUME NEW e \in EventIds, DeleteOlderThan(e) PROVE rows'[k] = None \/ rows'[k] = rows[k]
    BY <2>2 DEF DeleteOlderThan
  <2>3. CASE WriteAndCommit
    <3>1. k[1] # raising.event
      BY <2>3, <2>T DEF WriteAndCommit, Raising, OutboxTypeOK
    <3> QED BY <2>3, <3>1 DEF WriteAndCommit
  <2>4. ASSUME NEW x \in Keys, MarkRead(x) \/ LeaseLapses(x) \/ LeaseOverrun(x)
        PROVE  rows'[k].email = rows[k].email
    <3>1. CASE MarkRead(x)
      BY <3>1, <2>T DEF MarkRead, Notification
    <3>2. CASE LeaseLapses(x)
      BY <3>2, <2>T DEF LeaseLapses, Notification
    <3>3. CASE LeaseOverrun(x)
      BY <3>3, <2>T DEF LeaseOverrun, Notification
    <3> QED BY <2>4, <3>1, <3>2, <3>3
  <2>5. ASSUME NEW u \in Users, MarkAllRead(u) PROVE rows'[k].email = rows[k].email
    BY <2>5, <2>T DEF MarkAllRead, Notification
  <2>6. ASSUME NEW keys, rows' = Doubted(keys) PROVE rows'[k].email = rows[k].email
    BY <2>6, <2>T DEF Doubted, Notification
  <2>7. ASSUME NEW d \in Drains, ClaimPendingEmail(d) PROVE rows'[k] = rows[k]
    BY <2>7 DEF ClaimPendingEmail, Claimable
  <2>8. ASSUME NEW d \in Drains, MarkEmail(d) PROVE rows'[k] = rows[k]
    BY <2>8, <2>T DEF MarkEmail
  <2>9. ASSUME NEW d \in Drains, NEW x \in Keys, Deliver(d, x)
        PROVE  rows'[k].email = rows[k].email
    <3>1. \A answer : rows[k] # None => Handed(rows[k], answer).email = rows[k].email
      BY <2>T DEF Handed, Notification
    <3>2. rows' = rows \/ \E answer \in RelayAnswers : rows' = [rows EXCEPT ![x] = Handed(rows[x], answer)]
      BY <2>9 DEF Deliver
    <3> QED BY <2>T, <3>1, <3>2
  <2>10. ASSUME SwitchMail \/ \E d \in Drains : DrainDies(d) PROVE rows'[k].email = rows[k].email
    BY <2>6, <2>10 DEF SwitchMail, DrainDies
  <2>11. ASSUME \/ \E e \in EventIds : RaiseEvent(e) \/ RaiseDirect(e) \/ Ages(e)
                \/ CallerRollsBack \/ UNCHANGED outboxVars
                \/ \E u \in Users : UpdatePreferences(u) \/ AccountChanges(u)
         PROVE  UNCHANGED rows
    BY <2>11 DEF RaiseEvent, RaiseDirect, Ages, CallerRollsBack, outboxVars, UpdatePreferences,
                 AccountChanges
  <2> QED BY <2>1, <2>2, <2>3, <2>4, <2>5, <2>7, <2>8, <2>9, <2>10, <2>11 DEF OutboxNext
<1>2. OutboxSpec => []MailTypeInv
  BY MailTypeInit, MailTypeNext, PTL DEF OutboxSpec
<1>3. MailTypeInv /\ [OutboxNext]_outboxVars => [Kept]_outboxVars
  BY <1>1
<1> QED BY <1>2, <1>3, PTL DEF OutboxSpec, OutcomeIsFinal

-----------------------------------------------------------------------------
(* Live events: the inductive invariant, a stream's part of it a predicate of its *)
(* record *)

Items(q) == {q[i] : i \in DOMAIN q}

\* Which item a stream may have in hand where, and what its two flags say of its queue.
Shaped(st) ==
    /\ st \in Stream /\ Len(st.queue) <= QueueSize
    /\ st.pc \in {"closed", "accepted"} =>
         /\ st.queue = <<>> /\ ~st.closed /\ st.owed = {} /\ st.item = None
         /\ st.age = Window
    /\ st.pc = "closed" => st.told = None
    /\ st.pc = "wait" => st.item = None
    /\ st.pc = "check" => st.item \in Changes
    /\ st.pc = "forward" => st.item \in Events \cup {RESYNC}
    /\ st.closed => CLOSE \in Holds(st)
    /\ st.inResync => st.queue \in {<<>>, <<RESYNC>>}

\* What the last check is still good for, a being what one would find now and t the
\* ticks since that changed.
Timed(st, a, t) ==
    /\ st.age < Window /\ t > st.age => a # "gone" /\ st.current = (a = "member")
    /\ st.pc = "forward" /\ st.item \in Changes => st.age < Window
    /\ st.pc # "closed" /\ a = "gone" =>
         \/ t < Window + st.beat
         \/ st.pc \in {"wait", "beat"} /\ st.beat = Heartbeat

Covered(st, flying, connected) ==
    \A e \in st.owed : \/ e \in flying \cup Holds(st)
                       \/ {RESYNC, CLOSE} \cap Holds(st) # {}
                       \/ ~connected

Announced(st, fates) == \A e \in Holds(st) \cap Events : fates[e] = "committed"

BusInv ==
    /\ staged \subseteq Events /\ sends \subseteq Events /\ wire \subseteq Events
    /\ fate \in [Events -> {"idle", "staged", "committed"}]
    /\ up \in BOOLEAN
    /\ access \in [Users -> Access] /\ since \in [Users -> 0..Late]
    /\ \A e \in staged : fate[e] = "staged"
    /\ \A e \in sends \cup wire : fate[e] = "committed"

StreamInv ==
    /\ streams \in [Streams -> Stream]
    /\ \A s \in Streams :
         /\ Shaped(streams[s])
         /\ Timed(streams[s], access[Owner[s]], since[Owner[s]])
         /\ Covered(streams[s], sends \cup wire, up)
         /\ Announced(streams[s], fate)

LiveInv == BusInv /\ StreamInv

-----------------------------------------------------------------------------
(* Queues *)

LEMMA ItemsAppend ==
    ASSUME NEW S, NEW q \in Seq(S), NEW e \in S
    PROVE  /\ Append(q, e) \in Seq(S) /\ Len(Append(q, e)) = Len(q) + 1
           /\ Items(Append(q, e)) = Items(q) \cup {e}
<1>1. DOMAIN q = 1..Len(q) /\ DOMAIN Append(q, e) = 1..(Len(q) + 1) /\ Len(q) \in Nat
  OBVIOUS
<1>2. \A i \in 1..Len(q) : Append(q, e)[i] = q[i]
  OBVIOUS
<1>3. Append(q, e)[Len(q) + 1] = e
  OBVIOUS
<1>4. \A x \in Items(Append(q, e)) : x \in Items(q) \cup {e}
  BY <1>1, <1>2, <1>3 DEF Items
<1>5. \A x \in Items(q) \cup {e} : x \in Items(Append(q, e))
  BY <1>1, <1>2, <1>3 DEF Items
<1>6. Items(Append(q, e)) = Items(q) \cup {e}
  BY <1>4, <1>5
<1> QED BY <1>6

LEMMA ItemsTail ==
    ASSUME NEW S, NEW q \in Seq(S), q # <<>>
    PROVE  /\ Head(q) \in S /\ Tail(q) \in Seq(S) /\ Len(Tail(q)) = Len(q) - 1
           /\ Items(q) = Items(Tail(q)) \cup {Head(q)}
<1>1. /\ Head(q) \in S /\ Tail(q) \in Seq(S) /\ Len(Tail(q)) = Len(q) - 1
      /\ Len(q) \in Nat \ {0} /\ Head(q) = q[1]
      /\ DOMAIN q = 1..Len(q) /\ DOMAIN Tail(q) = 1..(Len(q) - 1)
  OBVIOUS
<1>2. \A i \in 1..(Len(q) - 1) : Tail(q)[i] = q[i + 1]
  OBVIOUS
<1>3. ASSUME NEW i \in 1..Len(q) PROVE q[i] \in Items(Tail(q)) \cup {Head(q)}
  <2>1. CASE i = 1
    BY <1>1, <2>1
  <2>2. CASE i # 1
    <3>1. i - 1 \in 1..(Len(q) - 1) /\ (i - 1) + 1 = i
      BY <1>1, <2>2
    <3>2. Tail(q)[i - 1] = q[i]
      BY <1>2, <3>1
    <3> QED BY <1>1, <3>1, <3>2 DEF Items
  <2> QED BY <2>1, <2>2
<1>4. ASSUME NEW i \in 1..(Len(q) - 1) PROVE Tail(q)[i] \in Items(q)
  <2>1. i + 1 \in 1..Len(q) /\ Tail(q)[i] = q[i + 1]
    BY <1>1, <1>2
  <2> QED BY <1>1, <2>1 DEF Items
<1>5. Head(q) \in Items(q)
  BY <1>1 DEF Items
<1>6. Items(q) = Items(Tail(q)) \cup {Head(q)}
  BY <1>1, <1>3, <1>4, <1>5 DEF Items
<1> QED BY <1>1, <1>6

LEMMA ItemsShort ==
    /\ Items(<<>>) = {} /\ \A S : <<>> \in Seq(S) /\ Len(<<>>) = 0
    /\ \A x : Items(<<x>>) = {x} /\ Len(<<x>>) = 1
<1>1. Items(<<>>) = {} /\ \A S : <<>> \in Seq(S) /\ Len(<<>>) = 0
  BY DEF Items
<1>2. ASSUME NEW x PROVE Items(<<x>>) = {x} /\ Len(<<x>>) = 1
  BY DEF Items
<1> QED BY <1>1, <1>2

LEMMA Singleton ==
    ASSUME NEW S, NEW x \in S
    PROVE  <<x>> \in Seq(S) /\ <<x>> # <<>> /\ Head(<<x>>) = x /\ Tail(<<x>>) = <<>>
  OBVIOUS

-----------------------------------------------------------------------------
(* Streams *)

\* All but the queue and its flags.
Kept(n, st) ==
    /\ n.pc = st.pc /\ n.item = st.item /\ n.current = st.current /\ n.age = st.age
    /\ n.beat = st.beat /\ n.told = st.told /\ n.owed = st.owed

LEMMA HoldsItems == \A st : Holds(st) = Items(st.queue) \cup {st.item}
  BY DEF Holds, Items

LEMMA NoStreamShaped ==
    /\ Shaped(NoStream) /\ NoStream \in Stream /\ NoStream.pc = "closed" /\ NoStream.owed = {}
    /\ NoStream.told = None /\ Holds(NoStream) = {None} /\ NoStream.age = Window
    /\ \A a, t : Timed(NoStream, a, t)
    /\ \A f, c : Covered(NoStream, f, c)
    /\ \A fates : Announced(NoStream, fates)
<1>1. /\ NoStream.queue = <<>> /\ NoStream.pc = "closed" /\ NoStream.owed = {}
      /\ NoStream.told = None /\ NoStream.item = None /\ NoStream.age = Window
      /\ NoStream.inResync = FALSE /\ NoStream.closed = FALSE
  BY DEF NoStream
<1>2. NoStream \in Stream
  BY LiveAssumption, ItemsShort DEF NoStream, Stream
<1>3. Holds(NoStream) = {None}
  BY <1>1, HoldsItems, ItemsShort
<1>4. Shaped(NoStream)
  <2>1. Len(<<>>) <= QueueSize
    BY LiveAssumption, ItemsShort
  <2> QED BY <1>1, <1>2, <2>1 DEF Shaped
<1>5. \A a, t : Timed(NoStream, a, t)
  BY <1>1, LiveAssumption DEF Timed
<1>6. \A f, c : Covered(NoStream, f, c)
  BY <1>1 DEF Covered
<1>7. \A fates : Announced(NoStream, fates)
  BY <1>3, LiveAssumption DEF Announced
<1> QED BY <1>1, <1>2, <1>3, <1>4, <1>5, <1>6, <1>7

\* A stream of which only the queue and its flags are new.
LEMMA Requeued ==
    ASSUME NEW st, Shaped(st), Subscribed(st), NEW n \in Stream, Kept(n, st),
           Len(n.queue) <= QueueSize,
           n.closed => CLOSE \in Items(n.queue) \cup {st.item},
           n.inResync => n.queue \in {<<>>, <<RESYNC>>}
    PROVE  Shaped(n) /\ Holds(n) = Items(n.queue) \cup {st.item}
<1>1. Holds(n) = Items(n.queue) \cup {st.item}
  BY HoldsItems DEF Kept
<1> QED BY <1>1 DEF Shaped, Kept, Subscribed

\* What a stream holds after a record, a resync or a closing: the event, or a marker that
\* covers it.
LEMMA DeliveredShaped ==
    ASSUME NEW st, Shaped(st), Subscribed(st), NEW e \in Events, NEW n, n = Delivered(st, e)
    PROVE  /\ Shaped(n) /\ Kept(n, st) /\ Holds(n) \subseteq Holds(st) \cup {e, RESYNC}
           /\ \/ {RESYNC, CLOSE} \cap Holds(n) # {}
              \/ Holds(n) = Holds(st) \cup {e}
<1>1. st \in Stream /\ st.queue \in Seq(QueueItem) /\ st.closed \in BOOLEAN /\ e \in QueueItem
      /\ RESYNC \in QueueItem /\ Len(st.queue) \in Nat
  BY DEF Shaped, Stream, QueueItem
<1>2. CASE st.closed \/ (st.inResync /\ st.queue # <<>>)
  <2>1. n = st
    BY <1>2 DEF Delivered
  <2>2. {RESYNC, CLOSE} \cap Holds(st) # {}
    BY <1>2, HoldsItems, ItemsShort DEF Shaped
  <2> QED BY <2>1, <2>2 DEF Kept
<1>3. CASE ~(st.closed \/ (st.inResync /\ st.queue # <<>>)) /\ Len(st.queue) < QueueSize
  <2>1. n = [st EXCEPT !.queue = Append(st.queue, e), !.inResync = FALSE]
    BY <1>3 DEF Delivered
  <2>2. Append(st.queue, e) \in Seq(QueueItem) /\ Len(Append(st.queue, e)) <= QueueSize
        /\ Items(Append(st.queue, e)) = Items(st.queue) \cup {e}
    BY <1>1, <1>3, ItemsAppend, LiveAssumption
  <2>3. n \in Stream
    BY <1>1, <2>1, <2>2 DEF Stream
  <2>4. n.queue = Append(st.queue, e) /\ n.inResync = FALSE /\ ~n.closed
    BY <1>1, <1>3, <2>1 DEF Stream
  <2>5. Kept(n, st)
    BY <1>1, <2>1 DEF Stream, Kept
  <2>6. Shaped(n) /\ Holds(n) = Items(n.queue) \cup {st.item}
    BY <2>2, <2>3, <2>4, <2>5, Requeued
  <2> QED BY <2>2, <2>4, <2>5, <2>6, HoldsItems
<1>4. CASE ~(st.closed \/ (st.inResync /\ st.queue # <<>>)) /\ ~(Len(st.queue) < QueueSize)
  <2>1. n = [st EXCEPT !.queue = <<RESYNC>>, !.inResync = TRUE]
    BY <1>4 DEF Delivered
  <2>2. <<RESYNC>> \in Seq(QueueItem) /\ Len(<<RESYNC>>) <= QueueSize
        /\ Items(<<RESYNC>>) = {RESYNC}
    BY <1>1, ItemsShort, Singleton, LiveAssumption
  <2>3. n \in Stream
    BY <1>1, <2>1, <2>2 DEF Stream
  <2>4. n.queue = <<RESYNC>> /\ ~n.closed
    BY <1>1, <1>4, <2>1 DEF Stream
  <2>5. Kept(n, st)
    BY <1>1, <2>1 DEF Stream, Kept
  <2>6. Shaped(n) /\ Holds(n) = Items(n.queue) \cup {st.item}
    BY <2>2, <2>3, <2>4, <2>5, Requeued
  <2> QED BY <2>2, <2>4, <2>5, <2>6, HoldsItems
<1> QED BY <1>2, <1>3, <1>4

LEMMA ResyncedShaped ==
    ASSUME NEW st, Shaped(st), Subscribed(st), NEW n, n = Resynced(st)
    PROVE  /\ Shaped(n) /\ Kept(n, st) /\ Holds(n) \subseteq Holds(st) \cup {RESYNC}
           /\ {RESYNC, CLOSE} \cap Holds(n) # {}
<1>1. st \in Stream /\ st.closed \in BOOLEAN /\ RESYNC \in QueueItem
  BY DEF Shaped, Stream, QueueItem
<1>2. CASE st.closed \/ (st.inResync /\ st.queue # <<>>)
  <2>1. n = st
    BY <1>2 DEF Resynced
  <2>2. {RESYNC, CLOSE} \cap Holds(st) # {}
    BY <1>2, HoldsItems, ItemsShort DEF Shaped
  <2> QED BY <2>1, <2>2 DEF Kept
<1>3. CASE ~(st.closed \/ (st.inResync /\ st.queue # <<>>))
  <2>1. n = [st EXCEPT !.queue = <<RESYNC>>, !.inResync = TRUE]
    BY <1>3 DEF Resynced
  <2>2. <<RESYNC>> \in Seq(QueueItem) /\ Len(<<RESYNC>>) <= QueueSize
        /\ Items(<<RESYNC>>) = {RESYNC}
    BY <1>1, ItemsShort, Singleton, LiveAssumption
  <2>3. n \in Stream
    BY <1>1, <2>1, <2>2 DEF Stream
  <2>4. n.queue = <<RESYNC>> /\ ~n.closed
    BY <1>1, <1>3, <2>1 DEF Stream
  <2>5. Kept(n, st)
    BY <1>1, <2>1 DEF Stream, Kept
  <2>6. Shaped(n) /\ Holds(n) = Items(n.queue) \cup {st.item}
    BY <2>2, <2>3, <2>4, <2>5, Requeued
  <2> QED BY <2>2, <2>4, <2>5, <2>6, HoldsItems
<1> QED BY <1>2, <1>3

LEMMA ClosedDownShaped ==
    ASSUME NEW st, Shaped(st), Subscribed(st), NEW n, n = ClosedDown(st)
    PROVE  Shaped(n) /\ Kept(n, st) /\ Holds(n) \subseteq Holds(st) \cup {CLOSE}
<1>1. st \in Stream /\ CLOSE \in QueueItem
  BY DEF Shaped, QueueItem
<1>2. <<CLOSE>> \in Seq(QueueItem) /\ Len(<<CLOSE>>) <= QueueSize /\ Items(<<CLOSE>>) = {CLOSE}
  BY <1>1, ItemsShort, Singleton, LiveAssumption
<1>3. n \in Stream
  BY <1>1, <1>2 DEF ClosedDown, Stream
<1>4. n.queue = <<CLOSE>> /\ n.inResync = FALSE
  BY <1>1 DEF ClosedDown, Stream
<1>5. Kept(n, st)
  BY <1>1 DEF ClosedDown, Stream, Kept
<1>6. Shaped(n) /\ Holds(n) = Items(n.queue) \cup {st.item}
  BY <1>2, <1>3, <1>4, <1>5, Requeued
<1> QED BY <1>2, <1>4, <1>5, <1>6, HoldsItems

-----------------------------------------------------------------------------
(* Steps of one stream *)

StreamKeeps(n, s) ==
    /\ Shaped(n) /\ Timed(n, access[Owner[s]], since[Owner[s]])
    /\ Covered(n, sends \cup wire, up) /\ Announced(n, fate)

LEMMA StreamFacts ==
    ASSUME LiveInv, NEW s \in Streams
    PROVE  /\ streams[s] \in Stream /\ StreamKeeps(streams[s], s)
           /\ Owner[s] \in Users /\ access[Owner[s]] \in Access /\ since[Owner[s]] \in 0..Late
  BY LiveAssumption DEF LiveInv, BusInv, StreamInv, StreamKeeps

LEMMA OneStream ==
    ASSUME LiveInv, NEW s \in Streams, NEW n, Becomes(s, n), StreamKeeps(n, s)
    PROVE  LiveInv'
<1>1. UNCHANGED <<staged, fate, sends, wire, up, access, since>> /\ streams' = [streams EXCEPT ![s] = n]
  BY DEF Becomes, Outside
<1>2. BusInv'
  BY <1>1 DEF LiveInv, BusInv
<1>3. n \in Stream /\ streams \in [Streams -> Stream]
  BY DEF LiveInv, StreamInv, StreamKeeps, Shaped
<1>4. streams' \in [Streams -> Stream] /\ streams'[s] = n /\ \A x \in Streams : x # s => streams'[x] = streams[x]
  BY <1>1, <1>3
<1>5. ASSUME NEW x \in Streams
      PROVE  /\ Shaped(streams'[x]) /\ Timed(streams'[x], access[Owner[x]], since[Owner[x]])
             /\ Covered(streams'[x], sends \cup wire, up) /\ Announced(streams'[x], fate)
  BY <1>4, StreamFacts DEF StreamKeeps
<1>6. StreamInv'
  BY <1>1, <1>4, <1>5 DEF StreamInv
<1> QED BY <1>2, <1>6 DEF LiveInv

LEMMA CloseKeeps ==
    ASSUME LiveInv, NEW s \in Streams
    PROVE  StreamKeeps(NoStream, s)
  BY NoStreamShaped DEF StreamKeeps

LEMMA StreamEventsKeeps ==
    ASSUME LiveInv, NEW s \in Streams, StreamEvents(s)
    PROVE  LiveInv'
<1> DEFINE n == [NoStream EXCEPT !.pc = "accepted", !.current = (access[Owner[s]] = "member")]
<1>1. Becomes(s, n) /\ access[Owner[s]] # "gone"
  BY DEF StreamEvents
<1>2. PICK b \in BOOLEAN : b = (access[Owner[s]] = "member")
  OBVIOUS
<1>3. n = [NoStream EXCEPT !.pc = "accepted", !.current = b]
  BY <1>2
<1> HIDE DEF n
<1>4. n \in Stream
  BY <1>3, NoStreamShaped DEF Stream
<1>5. /\ n.queue = <<>> /\ n.pc = "accepted" /\ n.owed = {} /\ n.item = None /\ n.age = Window
      /\ n.inResync = FALSE /\ n.closed = FALSE
  BY <1>3 DEF NoStream
<1>6. Holds(n) = {None}
  BY <1>5, HoldsItems, ItemsShort
<1>7. Shaped(n)
  <2>1. Len(<<>>) <= QueueSize
    BY LiveAssumption, ItemsShort
  <2> QED BY <1>4, <1>5, <2>1 DEF Shaped
<1>8. Timed(n, access[Owner[s]], since[Owner[s]])
  BY <1>1, <1>5, LiveAssumption DEF Timed
<1>9. Covered(n, sends \cup wire, up) /\ Announced(n, fate)
  BY <1>5, <1>6, LiveAssumption DEF Covered, Announced
<1> QED BY <1>1, <1>7, <1>8, <1>9, OneStream DEF StreamKeeps

LEMMA SubscribeKeeps ==
    ASSUME LiveInv, NEW s \in Streams, Subscribe(s)
    PROVE  LiveInv'
<1>1. PICK st : st = streams[s]
  OBVIOUS
<1> DEFINE n == [st EXCEPT !.pc = "wait"]
<1>2. Becomes(s, n) /\ st.pc = "accepted" /\ st \in Stream /\ StreamKeeps(st, s)
  BY <1>1, StreamFacts DEF Subscribe
<1>3. n \in Stream
  BY <1>2 DEF Stream
<1>4. /\ n.pc = "wait" /\ n.queue = st.queue /\ n.owed = st.owed /\ n.item = st.item /\ n.age = st.age
      /\ n.inResync = st.inResync /\ n.closed = st.closed /\ n.beat = st.beat /\ n.current = st.current
  BY <1>2 DEF Stream
<1> HIDE DEF n
<1>5. Holds(n) = Holds(st)
  BY <1>4, HoldsItems
<1>6. Shaped(n)
  BY <1>2, <1>3, <1>4, <1>5 DEF Shaped, StreamKeeps
<1>7. Timed(n, access[Owner[s]], since[Owner[s]])
  BY <1>2, <1>4 DEF Timed, StreamKeeps
<1>8. Covered(n, sends \cup wire, up) /\ Announced(n, fate)
  BY <1>2, <1>4, <1>5 DEF Covered, Announced, StreamKeeps
<1> QED BY <1>2, <1>6, <1>7, <1>8, OneStream DEF StreamKeeps

\* The stream st, with an item taken in hand and its clocks as given, at a place that may
\* have it.
LEMMA Placed ==
    ASSUME LiveInv, NEW s \in Streams, NEW st, StreamKeeps(st, s), Subscribed(st),
           NEW n \in Stream, Len(n.queue) <= QueueSize, n.pc \in {"wait", "beat", "check", "forward"},
           n.pc = "wait" => n.item = None, n.pc = "check" => n.item \in Changes,
           n.pc = "forward" => n.item \in Events \cup {RESYNC},
           n.inResync = st.inResync, n.closed = st.closed, n.owed = st.owed,
           n.inResync => n.queue \in {<<>>, <<RESYNC>>},
           Holds(n) \cup {None} = Holds(st) \cup {None},
           Timed(n, access[Owner[s]], since[Owner[s]])
    PROVE  StreamKeeps(n, s)
<1>1. \A x \in QueueItem : x \in Holds(n) <=> x \in Holds(st)
  BY LiveAssumption DEF QueueItem
<1>2. st \in Stream /\ {RESYNC, CLOSE} \subseteq QueueItem /\ Events \subseteq QueueItem
  BY DEF StreamKeeps, Shaped, QueueItem
<1>3. Shaped(n)
  BY <1>1, <1>2 DEF Shaped, StreamKeeps
<1>4. \A e \in n.owed : e \in Events
  BY DEF Stream
<1>5. Covered(n, sends \cup wire, up)
  BY <1>1, <1>2, <1>4 DEF Covered, StreamKeeps
<1>6. Announced(n, fate)
  BY <1>1, <1>2 DEF Announced, StreamKeeps
<1> QED BY <1>3, <1>5, <1>6 DEF StreamKeeps

LEMMA AfterPlaces ==
    ASSUME NEW item \in QueueItem \cup {None}, After(item) # "closed"
    PROVE  /\ After(item) \in {"wait", "check", "forward"}
           /\ After(item) = "wait" => item = None
           /\ After(item) = "check" => item \in Changes
           /\ After(item) = "forward" => item \in Events \cup {RESYNC} /\ item \notin Changes
  BY LiveAssumption DEF After, QueueItem, Events

LEMMA WakeKeeps ==
    ASSUME LiveInv, NEW s \in Streams, Wake(s)
    PROVE  LiveInv'
<1>1. PICK st : st = streams[s]
  OBVIOUS
<1>2. st \in Stream /\ StreamKeeps(st, s) /\ st.pc = "wait" /\ Subscribed(st)
  BY <1>1, StreamFacts DEF Wake, Subscribed
<1>3. PICK q, item : /\ q = (IF st.queue = <<>> THEN st.queue ELSE Tail(st.queue))
                     /\ item = (IF st.queue = <<>> THEN None ELSE Head(st.queue))
  OBVIOUS
<1>4. /\ st.queue \in Seq(QueueItem) /\ st.item = None /\ Len(st.queue) <= QueueSize
      /\ st.inResync => st.queue \in {<<>>, <<RESYNC>>}
      /\ Timed(st, access[Owner[s]], since[Owner[s]])
  BY <1>2 DEF Stream, StreamKeeps, Shaped
<1>5. /\ q \in Seq(QueueItem) /\ Len(q) <= QueueSize /\ item \in QueueItem \cup {None}
      /\ Items(q) \cup {item, None} = Items(st.queue) \cup {None}
  <2>1. CASE st.queue = <<>>
    BY <1>3, <1>4, <2>1
  <2>2. CASE st.queue # <<>>
    <3>1. /\ Head(st.queue) \in QueueItem /\ Tail(st.queue) \in Seq(QueueItem)
          /\ Len(Tail(st.queue)) = Len(st.queue) - 1
          /\ Items(st.queue) = Items(Tail(st.queue)) \cup {Head(st.queue)}
      BY <1>4, <2>2, ItemsTail
    <3>2. Len(Tail(st.queue)) <= QueueSize
      BY <1>4, <3>1, LiveAssumption
    <3> QED BY <1>3, <2>2, <3>1, <3>2
  <2> QED BY <2>1, <2>2
<1>6. st.inResync => q = <<>>
  BY <1>3, <1>4, Singleton DEF QueueItem
<1>7. \/ st.beat = Heartbeat /\ Becomes(s, [[st EXCEPT !.queue = q, !.told = None]
                                              EXCEPT !.pc = "beat", !.item = item])
      \/ st.beat # Heartbeat /\ Becomes(s, Continued([st EXCEPT !.queue = q, !.told = None], item))
  BY <1>1, <1>3 DEF Wake
<1>8. ASSUME NEW pc \in {"wait", "beat", "check", "forward"},
             pc = "wait" => item = None, pc = "check" => item \in Changes,
             pc = "forward" => item \in Events \cup {RESYNC} /\ item \notin Changes,
             pc = "beat" \/ st.beat # Heartbeat,
             NEW n, n = [[st EXCEPT !.queue = q, !.told = None] EXCEPT !.pc = pc, !.item = item]
      PROVE  StreamKeeps(n, s)
  <2>1. n \in Stream
    BY <1>2, <1>5, <1>8 DEF Stream
  <2>2. /\ n.pc = pc /\ n.queue = q /\ n.item = item /\ n.owed = st.owed /\ n.age = st.age
        /\ n.inResync = st.inResync /\ n.closed = st.closed /\ n.beat = st.beat
        /\ n.current = st.current
    BY <1>2, <1>8 DEF Stream
  <2>3. Holds(n) \cup {None} = Holds(st) \cup {None}
    BY <1>4, <1>5, <2>2, HoldsItems
  <2>4. Timed(n, access[Owner[s]], since[Owner[s]])
    BY <1>2, <1>4, <1>8, <2>2 DEF Timed
  <2> QED BY <1>2, <1>5, <1>6, <1>8, <2>1, <2>2, <2>3, <2>4, Placed
<1>9. CASE st.beat = Heartbeat
  <2>1. PICK n : n = [[st EXCEPT !.queue = q, !.told = None] EXCEPT !.pc = "beat", !.item = item]
    OBVIOUS
  <2>2. StreamKeeps(n, s)
    BY <1>8, <2>1
  <2> QED BY <1>7, <1>9, <2>1, <2>2, OneStream
<1>10. CASE st.beat # Heartbeat /\ After(item) = "closed"
  BY <1>7, <1>10, CloseKeeps, OneStream DEF Continued
<1>11. CASE st.beat # Heartbeat /\ After(item) # "closed"
  <2>1. PICK n : n = [[st EXCEPT !.queue = q, !.told = None] EXCEPT !.pc = After(item), !.item = item]
    OBVIOUS
  <2>2. StreamKeeps(n, s)
    BY <1>5, <1>8, <1>11, <2>1, AfterPlaces
  <2>3. Becomes(s, n)
    BY <1>7, <1>11, <2>1 DEF Continued
  <2> QED BY <2>2, <2>3, OneStream
<1> QED BY <1>9, <1>10, <1>11

\* What a stream comes out of _recheck_or_reuse with.
LEMMA Rechecked ==
    ASSUME LiveInv, NEW s \in Streams, Subscribed(streams[s]),
           streams[s].pc \in {"beat", "check"}, NEW st, st = RecheckOrReuse(s)
    PROVE  \/ st = NoStream
           \/ /\ st # NoStream /\ StreamKeeps(st, s) /\ st.pc = streams[s].pc
              /\ st.item = streams[s].item /\ st.age < Window
              /\ access[Owner[s]] = "gone" => since[Owner[s]] < Window
<1>1. PICK o : o = streams[s]
  OBVIOUS
<1>2. o \in Stream /\ StreamKeeps(o, s) /\ Subscribed(o) /\ o.pc \in {"beat", "check"}
      /\ o.age \in 0..Window /\ since[Owner[s]] \in 0..Late
      /\ Window \in Nat /\ Heartbeat \in Nat
  BY <1>1, StreamFacts, LiveAssumption DEF Stream
<1>3. CASE o.age < Window
  <2>1. st = o
    BY <1>1, <1>3 DEF RecheckOrReuse
  <2>2. access[Owner[s]] = "gone" => ~(since[Owner[s]] > o.age)
    BY <1>2, <1>3 DEF StreamKeeps, Timed
  <2>3. access[Owner[s]] = "gone" => since[Owner[s]] < Window
    BY <1>2, <1>3, <2>2 DEF Late
  <2> QED BY <1>1, <1>2, <1>3, <2>1, <2>3, NoStreamShaped
<1>4. CASE ~(o.age < Window) /\ access[Owner[s]] = "gone"
  BY <1>1, <1>4 DEF RecheckOrReuse
<1>5. CASE ~(o.age < Window) /\ access[Owner[s]] # "gone"
  <2>1. PICK b \in BOOLEAN : b = (access[Owner[s]] = "member")
    OBVIOUS
  <2>2. st = [o EXCEPT !.current = b, !.age = 0]
    BY <1>1, <1>5, <2>1 DEF RecheckOrReuse
  <2>3. 0 \in 0..Window /\ 0 < Window
    BY LiveAssumption
  <2>4. st \in Stream
    BY <1>2, <2>2, <2>3 DEF Stream
  <2>5. /\ st.pc = o.pc /\ st.queue = o.queue /\ st.item = o.item /\ st.owed = o.owed /\ st.age = 0
        /\ st.inResync = o.inResync /\ st.closed = o.closed /\ st.beat = o.beat
        /\ st.current = b
    BY <1>2, <2>2 DEF Stream
  <2>6. Holds(st) = Holds(o)
    BY <2>5, HoldsItems
  <2>7. Timed(st, access[Owner[s]], since[Owner[s]])
    BY <1>2, <1>5, <2>1, <2>3, <2>5 DEF Timed
  <2>8. Len(o.queue) <= QueueSize /\ (o.inResync => o.queue \in {<<>>, <<RESYNC>>})
        /\ (o.pc = "check" => o.item \in Changes)
    BY <1>2 DEF StreamKeeps, Shaped
  <2>9. StreamKeeps(st, s)
    BY <1>2, <2>4, <2>5, <2>6, <2>7, <2>8, Placed
  <2> QED BY <1>1, <1>2, <1>5, <2>3, <2>5, <2>9, NoStreamShaped
<1> QED BY <1>3, <1>4, <1>5

LEMMA HeartbeatKeeps ==
    ASSUME LiveInv, NEW s \in Streams, SendHeartbeat(s)
    PROVE  LiveInv'
<1>1. PICK st : st = RecheckOrReuse(s)
  OBVIOUS
<1>2. streams[s].pc = "beat" /\ Subscribed(streams[s])
      /\ Becomes(s, IF st = NoStream THEN st ELSE Continued([st EXCEPT !.beat = 0], st.item))
  BY <1>1 DEF SendHeartbeat, Subscribed
<1>3. CASE st = NoStream
  BY <1>2, <1>3, CloseKeeps, OneStream
<1>4. CASE st # NoStream
  <2>1. /\ StreamKeeps(st, s) /\ st.pc = "beat" /\ st.age < Window /\ Subscribed(st)
        /\ access[Owner[s]] = "gone" => since[Owner[s]] < Window
    BY <1>1, <1>2, <1>4, Rechecked DEF Subscribed
  <2>2. st \in Stream /\ Len(st.queue) <= QueueSize /\ st.item \in QueueItem \cup {None}
        /\ (st.inResync => st.queue \in {<<>>, <<RESYNC>>})
    BY <2>1 DEF StreamKeeps, Shaped, Stream
  <2>3. CASE After(st.item) = "closed"
    BY <1>2, <1>4, <2>3, CloseKeeps, OneStream DEF Continued
  <2>4. CASE After(st.item) # "closed"
    <3>1. PICK pc : pc = After(st.item)
      OBVIOUS
    <3>2. pc \in {"wait", "check", "forward"} /\ (pc = "wait" => st.item = None)
          /\ (pc = "check" => st.item \in Changes)
          /\ (pc = "forward" => st.item \in Events \cup {RESYNC} /\ st.item \notin Changes)
      BY <2>2, <2>4, <3>1, AfterPlaces
    <3>3. PICK n : n = [[st EXCEPT !.beat = 0] EXCEPT !.pc = pc, !.item = st.item]
      OBVIOUS
    <3>4. 0 \in 0..Heartbeat /\ Window + 0 = Window
      BY LiveAssumption
    <3>5. n \in Stream
      BY <2>2, <3>2, <3>3, <3>4 DEF Stream
    <3>6. /\ n.pc = pc /\ n.queue = st.queue /\ n.item = st.item /\ n.owed = st.owed /\ n.age = st.age
          /\ n.inResync = st.inResync /\ n.closed = st.closed /\ n.beat = 0
          /\ n.current = st.current
      BY <2>2, <3>3 DEF Stream
    <3>7. Holds(n) = Holds(st)
      BY <3>6, HoldsItems
    <3>8. Timed(n, access[Owner[s]], since[Owner[s]])
      BY <2>1, <3>2, <3>4, <3>6 DEF Timed, StreamKeeps
    <3>9. StreamKeeps(n, s)
      BY <2>1, <2>2, <3>2, <3>5, <3>6, <3>7, <3>8, Placed
    <3>10. Becomes(s, n)
      BY <1>2, <1>4, <2>4, <3>1, <3>3 DEF Continued
    <3> QED BY <3>9, <3>10, OneStream
  <2> QED BY <2>3, <2>4
<1> QED BY <1>3, <1>4

LEMMA CheckKeeps ==
    ASSUME LiveInv, NEW s \in Streams, CheckBeforeForward(s)
    PROVE  LiveInv'
<1>1. PICK st : st = RecheckOrReuse(s)
  OBVIOUS
<1>2. streams[s].pc = "check" /\ Subscribed(streams[s])
      /\ Becomes(s, IF st = NoStream THEN st ELSE [st EXCEPT !.pc = "forward"])
  BY <1>1 DEF CheckBeforeForward, Subscribed
<1>3. CASE st = NoStream
  BY <1>2, <1>3, CloseKeeps, OneStream
<1>4. CASE st # NoStream
  <2>1. StreamKeeps(st, s) /\ st.pc = "check" /\ st.age < Window /\ Subscribed(st)
    BY <1>1, <1>2, <1>4, Rechecked DEF Subscribed
  <2>2. st \in Stream /\ Len(st.queue) <= QueueSize /\ st.item \in Changes
        /\ (st.inResync => st.queue \in {<<>>, <<RESYNC>>})
    BY <2>1 DEF StreamKeeps, Shaped, Stream
  <2>3. PICK n : n = [st EXCEPT !.pc = "forward"]
    OBVIOUS
  <2>4. n \in Stream
    BY <2>2, <2>3 DEF Stream
  <2>5. /\ n.pc = "forward" /\ n.queue = st.queue /\ n.item = st.item /\ n.owed = st.owed
        /\ n.age = st.age /\ n.inResync = st.inResync /\ n.closed = st.closed /\ n.beat = st.beat
        /\ n.current = st.current
    BY <2>2, <2>3 DEF Stream
  <2>6. Holds(n) = Holds(st)
    BY <2>5, HoldsItems
  <2>7. Timed(n, access[Owner[s]], since[Owner[s]])
    BY <2>1, <2>5 DEF Timed, StreamKeeps
  <2>8. StreamKeeps(n, s)
    BY <2>1, <2>2, <2>4, <2>5, <2>6, <2>7, Placed DEF Events
  <2> QED BY <1>2, <1>4, <2>3, <2>8, OneStream
<1> QED BY <1>3, <1>4

\* What is not visible is not owed: a check still in force sees what a new one would.
LEMMA EntitledIsVisible ==
    ASSUME LiveInv, NEW s \in Streams, streams[s].pc = "forward", streams[s].item \in Events,
           Entitled(s, streams[s].item)
    PROVE  LiveEventVisibleTo(s, streams[s].item)
<1>1. CASE streams[s].item \in Notices
  BY <1>1 DEF Entitled, LiveEventVisibleTo
<1>2. CASE streams[s].item \notin Notices
  <2>1. access[Owner[s]] = "member" /\ since[Owner[s]] >= Window /\ streams[s].item \in Changes
    BY <1>2 DEF Entitled, Events
  <2>2. streams[s].age < Window /\ streams[s].age \in 0..Window /\ since[Owner[s]] \in 0..Late
        /\ Window \in Nat /\ Heartbeat \in Nat
    BY <2>1, StreamFacts, LiveAssumption DEF StreamKeeps, Timed, Stream
  <2>3. since[Owner[s]] > streams[s].age
    BY <2>1, <2>2 DEF Late
  <2>4. streams[s].current = (access[Owner[s]] = "member")
    BY <2>2, <2>3, StreamFacts DEF StreamKeeps, Timed
  <2> QED BY <1>2, <2>1, <2>4 DEF LiveEventVisibleTo
<1> QED BY <1>1, <1>2

\* A stream whose item was forwarded, or dropped.
Onward(st, told, owed) ==
    [[st EXCEPT !.pc = "wait", !.item = None] EXCEPT !.told = told, !.owed = owed]

LEMMA ForwardKeeps ==
    ASSUME LiveInv, NEW s \in Streams, Forward(s)
    PROVE  LiveInv'
<1>1. PICK st : st = streams[s]
  OBVIOUS
<1>2. /\ st \in Stream /\ StreamKeeps(st, s) /\ st.pc = "forward" /\ Subscribed(st)
      /\ st.item \in Events \cup {RESYNC} /\ Len(st.queue) <= QueueSize
      /\ (st.inResync => st.queue \in {<<>>, <<RESYNC>>}) /\ st.owed \subseteq Events
      /\ Owner[s] \in Users /\ access[Owner[s]] \in Access /\ since[Owner[s]] \in 0..Late
  BY <1>1, StreamFacts DEF Forward, Subscribed, StreamKeeps, Shaped, Stream
<1>3. PICK told \in Events \cup {None}, owed \in SUBSET Events :
        /\ Becomes(s, Onward(st, told, owed))
        /\ owed \subseteq st.owed
        /\ st.item \notin owed /\ (st.item = RESYNC => owed = {})
  <2> DEFINE next == [st EXCEPT !.pc = "wait", !.item = None]
  <2>0. next.told = st.told /\ next.owed = st.owed /\ st.told \in Events \cup {None}
    BY <1>2 DEF Stream
  <2>1. CASE st.item = RESYNC
    <3>1. Becomes(s, [next EXCEPT !.owed = {}])
      BY <1>1, <2>1 DEF Forward
    <3>2. [next EXCEPT !.owed = {}] = Onward(st, st.told, {})
      BY <1>2 DEF Stream, Onward
    <3> QED BY <2>0, <2>1, <3>1, <3>2
  <2>2. CASE st.item # RESYNC /\ LiveEventVisibleTo(s, st.item)
    <3>1. Becomes(s, Onward(st, st.item, st.owed \ {st.item}))
      BY <1>1, <2>0, <2>2 DEF Forward, Onward
    <3>2. PICK t \in Events, o \in SUBSET Events : t = st.item /\ o = st.owed \ {st.item}
      BY <1>2, <2>2
    <3> QED BY <2>2, <3>1, <3>2
  <2>3. CASE st.item # RESYNC /\ ~LiveEventVisibleTo(s, st.item)
    <3>1. ~Entitled(s, st.item)
      BY <1>1, <1>2, <2>3, EntitledIsVisible
    <3>2. Becomes(s, [next EXCEPT !.owed = st.owed \ {st.item}])
      BY <1>1, <2>0, <2>3, <3>1 DEF Forward
    <3>3. PICK o \in SUBSET Events : o = st.owed \ {st.item}
      BY <1>2
    <3>4. [next EXCEPT !.owed = o] = Onward(st, st.told, o)
      BY <1>2 DEF Stream, Onward
    <3> QED BY <2>0, <2>3, <3>2, <3>3, <3>4
  <2> QED BY <2>1, <2>2, <2>3
<1>4. PICK n : n = Onward(st, told, owed)
  OBVIOUS
<1>5. n \in Stream
  BY <1>2, <1>4 DEF Stream, Onward
<1>6. /\ n.pc = "wait" /\ n.queue = st.queue /\ n.item = None /\ n.owed = owed
      /\ n.age = st.age /\ n.inResync = st.inResync /\ n.closed = st.closed /\ n.beat = st.beat
      /\ n.current = st.current
  BY <1>2, <1>4 DEF Stream, Onward
<1>7. Holds(n) \cup {st.item} = Holds(st) \cup {None}
  BY <1>6, HoldsItems
<1>8. Shaped(n)
  <2>1. st.item # CLOSE /\ None # CLOSE
    BY <1>2, LiveAssumption DEF RESYNC, CLOSE
  <2>2. n.closed => CLOSE \in Holds(n)
    BY <1>2, <1>6, <1>7, <2>1 DEF StreamKeeps, Shaped
  <2> QED BY <1>2, <1>5, <1>6, <2>2 DEF Shaped
<1>9. Timed(n, access[Owner[s]], since[Owner[s]])
  BY <1>2, <1>6 DEF Timed, StreamKeeps
<1>10. Covered(n, sends \cup wire, up)
  <2>1. ASSUME NEW e \in owed, up, e \notin sends \cup wire \cup Holds(n)
        PROVE  {RESYNC, CLOSE} \cap Holds(n) # {}
    <3>1. e \in st.owed /\ e # st.item /\ e # None /\ st.item \notin {RESYNC, CLOSE}
      BY <1>2, <1>3, <2>1, LiveAssumption
    <3>2. e \notin Holds(st)
      BY <1>7, <2>1, <3>1
    <3>3. {RESYNC, CLOSE} \cap Holds(st) # {}
      BY <1>2, <2>1, <3>1, <3>2 DEF StreamKeeps, Covered
    <3> QED BY <1>7, <3>1, <3>3
  <2> QED BY <1>6, <2>1 DEF Covered
<1>11. Announced(n, fate)
  BY <1>2, <1>7, LiveAssumption DEF Announced, StreamKeeps
<1> QED BY <1>3, <1>4, <1>8, <1>9, <1>10, <1>11, OneStream DEF StreamKeeps

LEMMA EndsKeeps ==
    ASSUME LiveInv, NEW s \in Streams, StreamEnds(s)
    PROVE  LiveInv'
  BY CloseKeeps, OneStream DEF StreamEnds

-----------------------------------------------------------------------------
(* Steps of the bus, the hub and the world *)

LEMMA EveryStream ==
    ASSUME LiveInv, BusInv', streams' = [s \in Streams |-> streams'[s]],
           \A s \in Streams :
             /\ Shaped(streams'[s]) /\ Timed(streams'[s], access'[Owner[s]], since'[Owner[s]])
             /\ Covered(streams'[s], sends' \cup wire', up') /\ Announced(streams'[s], fate')
    PROVE  LiveInv'
<1>1. \A s \in Streams : streams'[s] \in Stream
  BY DEF Shaped
<1>2. streams' \in [Streams -> Stream]
  BY <1>1
<1> QED BY <1>2 DEF LiveInv, StreamInv

LEMMA StageKeeps ==
    ASSUME LiveInv, NEW e \in Events, StageLiveEvent(e)
    PROVE  LiveInv'
<1>1. /\ staged' = staged \cup {e} /\ fate' = [fate EXCEPT ![e] = "staged"] /\ e \notin sends \cup wire
      /\ UNCHANGED <<sends, wire, up, streams, access, since>>
      /\ \A s \in Streams : e \notin Holds(streams[s])
  BY DEF StageLiveEvent, Unused
<1>2. fate' \in [Events -> {"idle", "staged", "committed"}] /\ fate'[e] = "staged"
      /\ \A x \in Events : x # e => fate'[x] = fate[x]
  BY <1>1 DEF LiveInv, BusInv
<1>3. BusInv'
  BY <1>1, <1>2 DEF LiveInv, BusInv
<1>4. ASSUME NEW s \in Streams PROVE Announced(streams[s], fate')
  BY <1>1, <1>2, StreamFacts DEF StreamKeeps, Announced
<1> QED BY <1>1, <1>3, <1>4 DEF LiveInv, StreamInv

LEMMA PublishKeeps ==
    ASSUME LiveInv, PublishStaged
    PROVE  LiveInv'
<1>1. /\ sends' = sends \cup staged /\ staged' = {}
      /\ fate' = [e \in Events |-> IF fate[e] = "staged" THEN "committed" ELSE fate[e]]
      /\ UNCHANGED <<wire, up, access, since>>
      /\ staged \subseteq Events
  BY DEF PublishStaged, LiveInv, BusInv
<1>2. /\ fate' \in [Events -> {"idle", "staged", "committed"}]
      /\ \A x \in Events : fate[x] \in {"staged", "committed"} => fate'[x] = "committed"
  BY <1>1 DEF LiveInv, BusInv
<1>3. BusInv'
  BY <1>1, <1>2 DEF LiveInv, BusInv
<1>4. ASSUME NEW s \in Streams
      PROVE  /\ Shaped(streams'[s]) /\ Timed(streams'[s], access'[Owner[s]], since'[Owner[s]])
             /\ Covered(streams'[s], sends' \cup wire', up') /\ Announced(streams'[s], fate')
  <2>1. PICK st : st = streams[s]
    OBVIOUS
  <2>2. st \in Stream /\ StreamKeeps(st, s)
    BY <2>1, StreamFacts
  <2>3. CASE ~Subscribed(st)
    <3>1. streams'[s] = st
      BY <2>1, <2>3 DEF PublishStaged
    <3> QED BY <1>1, <1>2, <2>2, <3>1 DEF StreamKeeps, Covered, Announced
  <2>4. CASE Subscribed(st)
    <3>1. PICK o \in SUBSET Events : o = st.owed \cup staged
      BY <1>1, <2>2 DEF Stream
    <3>2. PICK n : n = [st EXCEPT !.owed = o]
      OBVIOUS
    <3>3. streams'[s] = n
      BY <2>1, <2>4, <3>1, <3>2 DEF PublishStaged
    <3>4. n \in Stream
      BY <2>2, <3>2 DEF Stream
    <3>5. /\ n.pc = st.pc /\ n.queue = st.queue /\ n.item = st.item /\ n.owed = o
          /\ n.age = st.age /\ n.inResync = st.inResync /\ n.closed = st.closed /\ n.beat = st.beat
          /\ n.current = st.current /\ n.told = st.told
      BY <2>2, <3>2 DEF Stream
    <3>6. Holds(n) = Holds(st)
      BY <3>5, HoldsItems
    <3>7. Shaped(n)
      BY <2>2, <2>4, <3>4, <3>5, <3>6 DEF StreamKeeps, Shaped, Subscribed
    <3>8. Timed(n, access[Owner[s]], since[Owner[s]])
      BY <2>2, <3>5 DEF StreamKeeps, Timed
    <3>9. Covered(n, sends' \cup wire', up')
      BY <1>1, <2>2, <3>1, <3>5, <3>6 DEF StreamKeeps, Covered
    <3>10. Announced(n, fate')
      BY <1>2, <2>2, <3>6 DEF StreamKeeps, Announced
    <3> QED BY <1>1, <3>3, <3>7, <3>8, <3>9, <3>10
  <2> QED BY <2>3, <2>4
<1>5. streams' = [s \in Streams |-> streams'[s]]
  BY DEF PublishStaged
<1> QED BY <1>3, <1>4, <1>5, EveryStream

LEMMA DiscardKeeps ==
    ASSUME LiveInv, DiscardStaged
    PROVE  LiveInv'
<1>1. /\ staged' = {}
      /\ fate' = [e \in Events |-> IF fate[e] = "staged" THEN "idle" ELSE fate[e]]
      /\ UNCHANGED <<sends, wire, up, streams, access, since>>
  BY DEF DiscardStaged
<1>2. /\ fate' \in [Events -> {"idle", "staged", "committed"}]
      /\ \A x \in Events : fate[x] = "committed" => fate'[x] = "committed"
  BY <1>1 DEF LiveInv, BusInv
<1>3. BusInv'
  BY <1>1, <1>2 DEF LiveInv, BusInv
<1>4. ASSUME NEW s \in Streams PROVE Announced(streams[s], fate')
  BY <1>1, <1>2, StreamFacts DEF StreamKeeps, Announced
<1> QED BY <1>1, <1>3, <1>4 DEF LiveInv, StreamInv

LEMMA SendKeeps ==
    ASSUME LiveInv, NEW e \in Events, Send(e)
    PROVE  LiveInv'
<1>1. /\ sends' = sends \ {e} /\ wire' = (IF up THEN wire \cup {e} ELSE wire) /\ e \in sends
      /\ UNCHANGED <<staged, fate, up, streams, access, since>>
  BY DEF Send
<1>2. BusInv'
  BY <1>1 DEF LiveInv, BusInv
<1>3. ASSUME NEW s \in Streams PROVE Covered(streams[s], sends' \cup wire', up)
  BY <1>1, StreamFacts DEF StreamKeeps, Covered
<1> QED BY <1>1, <1>2, <1>3 DEF LiveInv, StreamInv

LEMMA SendLostKeeps ==
    ASSUME LiveInv, NEW e \in Events, SendLost(e)
    PROVE  LiveInv'
<1>1. sends' = sends \ {e} /\ UNCHANGED <<staged, fate, wire, up, access, since>>
  BY DEF SendLost
<1>2. BusInv'
  BY <1>1 DEF LiveInv, BusInv
<1>3. ASSUME NEW s \in Streams
      PROVE  /\ Shaped(streams'[s]) /\ Timed(streams'[s], access'[Owner[s]], since'[Owner[s]])
             /\ Covered(streams'[s], sends' \cup wire', up') /\ Announced(streams'[s], fate')
  <2>1. PICK st : st = streams[s]
    OBVIOUS
  <2>2. st \in Stream /\ StreamKeeps(st, s)
    BY <2>1, StreamFacts
  <2>3. PICK o \in SUBSET Events : o = st.owed \ {e}
    BY <2>2 DEF Stream
  <2>4. PICK n : n = [st EXCEPT !.owed = o]
    OBVIOUS
  <2>5. streams'[s] = n
    BY <2>1, <2>3, <2>4 DEF SendLost
  <2>6. n \in Stream
    BY <2>2, <2>4 DEF Stream
  <2>7. /\ n.pc = st.pc /\ n.queue = st.queue /\ n.item = st.item /\ n.owed = o
        /\ n.age = st.age /\ n.inResync = st.inResync /\ n.closed = st.closed /\ n.beat = st.beat
        /\ n.current = st.current /\ n.told = st.told
    BY <2>2, <2>4 DEF Stream
  <2>8. Holds(n) = Holds(st)
    BY <2>7, HoldsItems
  <2>9. Shaped(n)
    BY <2>2, <2>3, <2>6, <2>7, <2>8 DEF StreamKeeps, Shaped
  <2>10. Timed(n, access[Owner[s]], since[Owner[s]])
    BY <2>2, <2>7 DEF StreamKeeps, Timed
  <2>11. Covered(n, sends' \cup wire', up')
    BY <1>1, <2>2, <2>3, <2>7, <2>8 DEF StreamKeeps, Covered
  <2>12. Announced(n, fate')
    BY <1>1, <2>2, <2>8 DEF StreamKeeps, Announced
  <2> QED BY <1>1, <2>5, <2>9, <2>10, <2>11, <2>12
<1>4. streams' = [s \in Streams |-> streams'[s]]
  BY DEF SendLost
<1> QED BY <1>2, <1>3, <1>4, EveryStream

\* A hub step that changes no more than queues.
LEMMA KeptTimed ==
    ASSUME NEW n, NEW st, Kept(n, st), NEW a, NEW t, Timed(st, a, t)
    PROVE  Timed(n, a, t)
  BY DEF Kept, Timed

LEMMA DispatchKeeps ==
    ASSUME LiveInv, NEW e \in Events, Dispatch(e)
    PROVE  LiveInv'
<1>1. wire' = wire \ {e} /\ e \in wire /\ up /\ UNCHANGED <<staged, fate, sends, up, access, since>>
  BY DEF Dispatch
<1>2. BusInv' /\ fate[e] = "committed"
  BY <1>1 DEF LiveInv, BusInv
<1>3. ASSUME NEW s \in Streams
      PROVE  /\ Shaped(streams'[s]) /\ Timed(streams'[s], access'[Owner[s]], since'[Owner[s]])
             /\ Covered(streams'[s], sends' \cup wire', up') /\ Announced(streams'[s], fate')
  <2>1. PICK st : st = streams[s]
    OBVIOUS
  <2>2. st \in Stream /\ StreamKeeps(st, s)
    BY <2>1, StreamFacts
  <2>3. CASE ~Subscribed(st)
    <3>1. streams'[s] = st
      BY <2>1, <2>3 DEF Dispatch, ToEvery
    <3>2. st.owed = {}
      BY <2>2, <2>3 DEF StreamKeeps, Shaped, Subscribed
    <3> QED BY <1>1, <2>2, <3>1, <3>2 DEF StreamKeeps, Covered, Announced
  <2>4. CASE Subscribed(st)
    <3>1. PICK n : n = Delivered(st, e)
      OBVIOUS
    <3>2. streams'[s] = n
      BY <2>1, <2>4, <3>1 DEF Dispatch, ToEvery
    <3>3. /\ Shaped(n) /\ Kept(n, st) /\ Holds(n) \subseteq Holds(st) \cup {e, RESYNC}
          /\ \/ {RESYNC, CLOSE} \cap Holds(n) # {}
             \/ Holds(n) = Holds(st) \cup {e}
      BY <2>2, <2>4, <3>1, DeliveredShaped DEF StreamKeeps
    <3>4. Timed(n, access[Owner[s]], since[Owner[s]])
      BY <2>2, <3>3, KeptTimed DEF StreamKeeps
    <3>5. Covered(n, sends' \cup wire', up')
      BY <1>1, <2>2, <3>3 DEF StreamKeeps, Covered, Kept
    <3>6. Announced(n, fate')
      BY <1>1, <1>2, <2>2, <3>3, LiveAssumption DEF StreamKeeps, Announced
    <3> QED BY <1>1, <3>2, <3>3, <3>4, <3>5, <3>6
  <2> QED BY <2>3, <2>4
<1>4. streams' = [s \in Streams |-> streams'[s]]
  BY DEF Dispatch, ToEvery
<1> QED BY <1>2, <1>3, <1>4, EveryStream

LEMMA HubConnectKeeps ==
    ASSUME LiveInv, HubConnect
    PROVE  LiveInv'
<1>1. wire' = {} /\ up' = TRUE /\ UNCHANGED <<staged, fate, sends, access, since>>
  BY DEF HubConnect
<1>2. BusInv'
  BY <1>1 DEF LiveInv, BusInv
<1>3. ASSUME NEW s \in Streams
      PROVE  /\ Shaped(streams'[s]) /\ Timed(streams'[s], access'[Owner[s]], since'[Owner[s]])
             /\ Covered(streams'[s], sends' \cup wire', up') /\ Announced(streams'[s], fate')
  <2>1. PICK st : st = streams[s]
    OBVIOUS
  <2>2. st \in Stream /\ StreamKeeps(st, s)
    BY <2>1, StreamFacts
  <2>3. CASE ~Subscribed(st)
    <3>1. streams'[s] = st
      BY <2>1, <2>3 DEF HubConnect, ToEvery
    <3>2. st.owed = {}
      BY <2>2, <2>3 DEF StreamKeeps, Shaped, Subscribed
    <3> QED BY <1>1, <2>2, <3>1, <3>2 DEF StreamKeeps, Covered, Announced
  <2>4. CASE Subscribed(st)
    <3>1. PICK n : n = Resynced(st)
      OBVIOUS
    <3>2. streams'[s] = n
      BY <2>1, <2>4, <3>1 DEF HubConnect, ToEvery
    <3>3. /\ Shaped(n) /\ Kept(n, st) /\ Holds(n) \subseteq Holds(st) \cup {RESYNC}
          /\ {RESYNC, CLOSE} \cap Holds(n) # {}
      BY <2>2, <2>4, <3>1, ResyncedShaped DEF StreamKeeps
    <3>4. Timed(n, access[Owner[s]], since[Owner[s]])
      BY <2>2, <3>3, KeptTimed DEF StreamKeeps
    <3>5. Covered(n, sends' \cup wire', up')
      BY <3>3 DEF Covered
    <3>6. Announced(n, fate')
      BY <1>1, <2>2, <3>3, LiveAssumption DEF StreamKeeps, Announced
    <3> QED BY <1>1, <3>2, <3>3, <3>4, <3>5, <3>6
  <2> QED BY <2>3, <2>4
<1>4. streams' = [s \in Streams |-> streams'[s]]
  BY DEF HubConnect, ToEvery
<1> QED BY <1>2, <1>3, <1>4, EveryStream

LEMMA HubLostKeeps ==
    ASSUME LiveInv, HubLost
    PROVE  LiveInv'
<1>1. wire' = {} /\ up' = FALSE /\ UNCHANGED <<staged, fate, sends, access, since>>
  BY DEF HubLost
<1>2. BusInv'
  BY <1>1 DEF LiveInv, BusInv
<1>3. ASSUME NEW s \in Streams
      PROVE  /\ Shaped(streams'[s]) /\ Timed(streams'[s], access'[Owner[s]], since'[Owner[s]])
             /\ Covered(streams'[s], sends' \cup wire', up') /\ Announced(streams'[s], fate')
  <2>1. PICK st : st = streams[s]
    OBVIOUS
  <2>2. st \in Stream /\ StreamKeeps(st, s)
    BY <2>1, StreamFacts
  <2>3. CASE ~Subscribed(st)
    <3>1. streams'[s] = st
      BY <2>1, <2>3 DEF HubLost, ToEvery
    <3> QED BY <1>1, <2>2, <3>1 DEF StreamKeeps, Covered, Announced
  <2>4. CASE Subscribed(st)
    <3>1. PICK n : n = ClosedDown(st)
      OBVIOUS
    <3>2. streams'[s] = n
      BY <2>1, <2>4, <3>1 DEF HubLost, ToEvery
    <3>3. Shaped(n) /\ Kept(n, st) /\ Holds(n) \subseteq Holds(st) \cup {CLOSE}
      BY <2>2, <2>4, <3>1, ClosedDownShaped DEF StreamKeeps
    <3>4. Timed(n, access[Owner[s]], since[Owner[s]])
      BY <2>2, <3>3, KeptTimed DEF StreamKeeps
    <3>5. Covered(n, sends' \cup wire', up')
      BY <1>1 DEF Covered
    <3>6. Announced(n, fate')
      BY <1>1, <2>2, <3>3, LiveAssumption DEF StreamKeeps, Announced
    <3> QED BY <1>1, <3>2, <3>3, <3>4, <3>5, <3>6
  <2> QED BY <2>3, <2>4
<1>4. streams' = [s \in Streams |-> streams'[s]]
  BY DEF HubLost, ToEvery
<1> QED BY <1>2, <1>3, <1>4, EveryStream

LEMMA AccessKeeps ==
    ASSUME LiveInv, NEW u \in Users, AccessChanges(u)
    PROVE  LiveInv'
<1>1. UNCHANGED <<staged, fate, sends, wire, up, streams>> /\ since' = [since EXCEPT ![u] = 0]
  BY DEF AccessChanges
<1>2. PICK a \in Access : access' = [access EXCEPT ![u] = a]
  BY DEF AccessChanges
<1>3. /\ access \in [Users -> Access] /\ since \in [Users -> 0..Late] /\ 0 \in 0..Late
      /\ Window \in Nat \ {0} /\ Heartbeat \in Nat \ {0}
  BY LiveAssumption DEF LiveInv, BusInv, Late
<1>4. access' \in [Users -> Access] /\ since' \in [Users -> 0..Late]
  BY <1>1, <1>2, <1>3
<1>5. BusInv'
  BY <1>1, <1>4 DEF LiveInv, BusInv
<1>6. ASSUME NEW s \in Streams PROVE Timed(streams[s], access'[Owner[s]], since'[Owner[s]])
  <2>1. CASE Owner[s] # u
    <3>1. access'[Owner[s]] = access[Owner[s]] /\ since'[Owner[s]] = since[Owner[s]]
      BY <1>1, <1>2, <1>3, <2>1, StreamFacts
    <3> QED BY <3>1, StreamFacts DEF StreamKeeps
  <2>2. CASE Owner[s] = u
    <3>1. since'[Owner[s]] = 0
      BY <1>1, <1>3, <2>2
    <3>2. streams[s].age \in Nat /\ streams[s].beat \in Nat
      BY <1>3, StreamFacts DEF Stream
    <3>3. ~(0 > streams[s].age) /\ 0 < Window + streams[s].beat
      BY <1>3, <3>2
    <3>4. streams[s].pc = "forward" /\ streams[s].item \in Changes => streams[s].age < Window
      BY StreamFacts DEF StreamKeeps, Timed
    <3> QED BY <3>1, <3>3, <3>4 DEF Timed
  <2> QED BY <2>1, <2>2
<1>7. StreamInv'
  BY <1>1, <1>6 DEF LiveInv, StreamInv
<1> QED BY <1>5, <1>7 DEF LiveInv

LEMMA TickKeeps ==
    ASSUME LiveInv, Tick
    PROVE  LiveInv'
<1>1. /\ UNCHANGED <<staged, fate, sends, wire, up, access>>
      /\ \A s \in Streams : streams[s].pc \in {"closed", "wait"}
      /\ since' = [u \in Users |-> IF since[u] < Late THEN since[u] + 1 ELSE Late]
  BY DEF Tick
<1>2. since \in [Users -> 0..Late] /\ Late \in Nat /\ Window \in Nat \ {0} /\ Heartbeat \in Nat \ {0}
      /\ Late = Window + Heartbeat
  BY LiveAssumption DEF LiveInv, BusInv, Late
<1>3. \A u \in Users : since'[u] \in 0..Late /\ since'[u] <= since[u] + 1
  BY <1>1, <1>2
<1>4. since' \in [Users -> 0..Late]
  BY <1>1, <1>3
<1>5. BusInv'
  BY <1>1, <1>4 DEF LiveInv, BusInv
<1>6. ASSUME NEW s \in Streams
      PROVE  /\ Shaped(streams'[s]) /\ Timed(streams'[s], access'[Owner[s]], since'[Owner[s]])
             /\ Covered(streams'[s], sends' \cup wire', up') /\ Announced(streams'[s], fate')
  <2>1. PICK st : st = streams[s]
    OBVIOUS
  <2>2. st \in Stream /\ StreamKeeps(st, s) /\ Owner[s] \in Users /\ st.pc \in {"closed", "wait"}
    BY <1>1, <2>1, StreamFacts
  <2>3. CASE ~Subscribed(st)
    <3>1. streams'[s] = st /\ st.pc = "closed" /\ st.age \in 0..Window
      BY <2>1, <2>2, <2>3 DEF Tick, ToEvery, Subscribed, Stream
    <3>2. ASSUME st.age < Window, since'[Owner[s]] > st.age
          PROVE  access[Owner[s]] # "gone" /\ st.current = (access[Owner[s]] = "member")
      <4>1. st.age = Window /\ ~(Window < Window)
        BY <1>2, <2>2, <3>1 DEF StreamKeeps, Shaped
      <4> QED BY <3>2, <4>1
    <3> QED BY <1>1, <2>2, <3>1, <3>2 DEF StreamKeeps, Covered, Announced, Timed
  <2>4. CASE Subscribed(st)
    <3>0. st.age \in 0..Window /\ st.beat \in 0..Heartbeat /\ st.pc = "wait"
      BY <2>2, <2>4 DEF Stream, Subscribed
    <3>1. PICK g \in 0..Window, b \in 0..Heartbeat :
            /\ g = (IF st.age < Window THEN st.age + 1 ELSE st.age)
            /\ b = (IF st.beat < Heartbeat THEN st.beat + 1 ELSE st.beat)
      <4>1. (IF st.age < Window THEN st.age + 1 ELSE st.age) \in 0..Window
        BY <1>2, <3>0
      <4>2. (IF st.beat < Heartbeat THEN st.beat + 1 ELSE st.beat) \in 0..Heartbeat
        BY <1>2, <3>0
      <4> QED BY <4>1, <4>2
    <3>2. PICK n : n = [st EXCEPT !.age = g, !.beat = b]
      OBVIOUS
    <3>3. streams'[s] = n
      BY <2>1, <2>4, <3>1, <3>2 DEF Tick, ToEvery
    <3>4. n \in Stream
      BY <2>2, <3>2 DEF Stream
    <3>5. /\ n.pc = st.pc /\ n.queue = st.queue /\ n.item = st.item /\ n.owed = st.owed
          /\ n.age = g /\ n.inResync = st.inResync /\ n.closed = st.closed /\ n.beat = b
          /\ n.current = st.current /\ n.told = st.told
      BY <2>2, <3>2 DEF Stream
    <3>6. Holds(n) = Holds(st)
      BY <3>5, HoldsItems
    <3>7. Shaped(n)
      BY <2>2, <3>0, <3>4, <3>5, <3>6 DEF StreamKeeps, Shaped
    <3>8. PICK t \in 0..Late : t = since[Owner[s]]
      BY <1>2, <2>2
    <3>9. PICK t2 \in 0..Late : t2 = since'[Owner[s]]
      BY <1>3, <2>2
    <3>10. t2 <= t + 1
      BY <1>3, <2>2, <3>8, <3>9
    <3>11. g < Window /\ t2 > g => st.age < Window /\ t > st.age
      BY <1>2, <3>0, <3>1, <3>10
    <3>12. t < Window + st.beat /\ b # Heartbeat => t2 < Window + b
      BY <1>2, <3>0, <3>1, <3>10
    <3>13. st.beat = Heartbeat => b = Heartbeat
      BY <1>2, <3>0, <3>1
    <3>14. Timed(st, access[Owner[s]], t)
      BY <2>2, <3>8 DEF StreamKeeps
    <3>15. g < Window /\ t2 > g => access[Owner[s]] # "gone" /\ n.current = (access[Owner[s]] = "member")
      BY <3>5, <3>11, <3>14 DEF Timed
    <3>16. access[Owner[s]] = "gone" => t2 < Window + b \/ b = Heartbeat
      BY <3>0, <3>12, <3>13, <3>14 DEF Timed
    <3>17. Timed(n, access[Owner[s]], t2)
      BY <3>0, <3>5, <3>15, <3>16 DEF Timed
    <3>18. Covered(n, sends \cup wire, up) /\ Announced(n, fate)
      BY <2>2, <3>5, <3>6 DEF StreamKeeps, Covered, Announced
    <3> QED BY <1>1, <3>3, <3>7, <3>9, <3>17, <3>18
  <2> QED BY <2>3, <2>4
<1>7. streams' = [s \in Streams |-> streams'[s]]
  BY DEF Tick, ToEvery
<1> QED BY <1>5, <1>6, <1>7, EveryStream

-----------------------------------------------------------------------------
(* Theorems *)

LEMMA LiveInvInit == LiveInit => LiveInv
<1> SUFFICES ASSUME LiveInit PROVE LiveInv
  OBVIOUS
<1>1. BusInv
  <2>1. Late \in 0..Late /\ "member" \in Access
    BY LiveAssumption DEF Late, Access
  <2>2. access \in [Users -> Access] /\ since \in [Users -> 0..Late]
    BY <2>1 DEF LiveInit
  <2> QED BY <2>2 DEF LiveInit, BusInv
<1>2. streams \in [Streams -> Stream] /\ \A s \in Streams : streams[s] = NoStream
  BY NoStreamShaped DEF LiveInit
<1> QED BY <1>1, <1>2, NoStreamShaped DEF LiveInv, StreamInv

LEMMA LiveInvNext == LiveInv /\ [LiveNext]_liveVars => LiveInv'
<1> SUFFICES ASSUME LiveInv, [LiveNext]_liveVars PROVE LiveInv'
  OBVIOUS
<1>1. CASE UNCHANGED liveVars
  BY <1>1 DEF liveVars, LiveInv, BusInv, StreamInv
<1>2. ASSUME NEW e \in Events, StageLiveEvent(e) \/ Send(e) \/ SendLost(e) \/ Dispatch(e) PROVE LiveInv'
  BY <1>2, StageKeeps, SendKeeps, SendLostKeeps, DispatchKeeps
<1>3. CASE PublishStaged \/ DiscardStaged \/ HubConnect \/ HubLost \/ Tick
  BY <1>3, PublishKeeps, DiscardKeeps, HubConnectKeeps, HubLostKeeps, TickKeeps
<1>4. ASSUME NEW s \in Streams,
             \/ StreamEvents(s) \/ Subscribe(s) \/ Wake(s) \/ SendHeartbeat(s)
             \/ CheckBeforeForward(s) \/ Forward(s) \/ StreamEnds(s)
      PROVE  LiveInv'
  BY <1>4, StreamEventsKeeps, SubscribeKeeps, WakeKeeps, HeartbeatKeeps, CheckKeeps, ForwardKeeps,
     EndsKeeps
<1>5. ASSUME NEW u \in Users, AccessChanges(u) PROVE LiveInv'
  BY <1>5, AccessKeeps
<1> QED BY <1>1, <1>2, <1>3, <1>4, <1>5 DEF LiveNext

LEMMA LiveInvHolds == LiveSpec => []LiveInv
  BY LiveInvInit, LiveInvNext, PTL DEF LiveSpec

\* Only what was committed is sent, on the topic or in a queue, and every queue stays
\* within QUEUE_SIZE: live/staging.py, live/kafka.py.
THEOREM CommittedOnly == LiveSpec => []OnlyCommittedIsAnnounced
<1>1. LiveInv => OnlyCommittedIsAnnounced
  BY DEF LiveInv, BusInv, StreamInv, Shaped, Announced, OnlyCommittedIsAnnounced, LiveTypeOK
<1> QED BY <1>1, LiveInvHolds, PTL

\* No event owed to an open stream is silently dropped, at any queue size: it is on its way,
\* or a resync or close marker that nothing displaces covers it (live/kafka.py).
THEOREM NothingMissed == LiveSpec => []NothingSilentlyMissed
<1>1. LiveInv => NothingSilentlyMissed
  BY DEF LiveInv, StreamInv, Shaped, Covered, NothingSilentlyMissed, CloseIsKept
<1> QED BY <1>1, LiveInvHolds, PTL

\* Only Forward tells a client something.
LEMMA ToldByForward ==
    ASSUME LiveInv, [LiveNext]_liveVars, NEW s \in Streams, streams'[s].told # streams[s].told,
           streams'[s].told \in Events
    PROVE  /\ Forward(s) /\ streams'[s].told = streams[s].item
           /\ LiveEventVisibleTo(s, streams[s].item)
<1>T. streams[s] \in Stream /\ streams \in [Streams -> Stream] /\ Shaped(streams[s])
      /\ None \notin Events
  BY LiveAssumption DEF LiveInv, StreamInv
<1>1. ASSUME UNCHANGED streams PROVE FALSE
  BY <1>1
<1>2. ASSUME NEW e \in Events, StageLiveEvent(e) \/ Send(e) \/ SendLost(e) \/ Dispatch(e) PROVE FALSE
  <2>1. CASE StageLiveEvent(e) \/ Send(e)
    BY <1>1, <2>1 DEF StageLiveEvent, Send
  <2>2. CASE SendLost(e)
    <3>1. streams'[s] = [streams[s] EXCEPT !.owed = @ \ {e}]
      BY <2>2 DEF SendLost
    <3> QED BY <1>T, <3>1 DEF Stream
  <2>3. CASE Dispatch(e)
    <3>1. streams'[s] = streams[s] \/ (Subscribed(streams[s]) /\ streams'[s] = Delivered(streams[s], e))
      BY <2>3 DEF Dispatch, ToEvery
    <3>2. CASE Subscribed(streams[s]) /\ streams'[s] = Delivered(streams[s], e)
      <4>1. Kept(streams'[s], streams[s])
        BY <1>T, <3>2, DeliveredShaped
      <4> QED BY <4>1 DEF Kept
    <3> QED BY <3>1, <3>2
  <2> QED BY <1>2, <2>1, <2>2, <2>3
<1>3. ASSUME PublishStaged \/ DiscardStaged \/ HubConnect \/ HubLost \/ Tick PROVE FALSE
  <2>1. CASE DiscardStaged
    BY <1>1, <2>1 DEF DiscardStaged
  <2>2. CASE PublishStaged
    <3>1. streams'[s] = streams[s] \/ streams'[s] = [streams[s] EXCEPT !.owed = @ \cup staged]
      BY <2>2 DEF PublishStaged
    <3> QED BY <1>T, <3>1 DEF Stream
  <2>3. CASE HubConnect
    <3>1. streams'[s] = streams[s] \/ (Subscribed(streams[s]) /\ streams'[s] = Resynced(streams[s]))
      BY <2>3 DEF HubConnect, ToEvery
    <3>2. CASE Subscribed(streams[s]) /\ streams'[s] = Resynced(streams[s])
      <4>1. Kept(streams'[s], streams[s])
        BY <1>T, <3>2, ResyncedShaped
      <4> QED BY <4>1 DEF Kept
    <3> QED BY <3>1, <3>2
  <2>4. CASE HubLost
    <3>1. streams'[s] = streams[s] \/ (Subscribed(streams[s]) /\ streams'[s] = ClosedDown(streams[s]))
      BY <2>4 DEF HubLost, ToEvery
    <3>2. CASE Subscribed(streams[s]) /\ streams'[s] = ClosedDown(streams[s])
      <4>1. Kept(streams'[s], streams[s])
        BY <1>T, <3>2, ClosedDownShaped
      <4> QED BY <4>1 DEF Kept
    <3> QED BY <3>1, <3>2
  <2>5. CASE Tick
    <3>1. streams'[s] = streams[s] \/ \E g, b : streams'[s] = [streams[s] EXCEPT !.age = g, !.beat = b]
      BY <2>5 DEF Tick, ToEvery
    <3> QED BY <1>T, <3>1 DEF Stream
  <2> QED BY <1>3, <2>1, <2>2, <2>3, <2>4, <2>5
<1>4. ASSUME NEW x \in Streams, NEW n, Becomes(x, n), n.told \in {None, streams[x].told} PROVE FALSE
  BY <1>4, <1>T DEF Becomes
<1>5. ASSUME NEW x \in Streams, StreamEvents(x) \/ StreamEnds(x) PROVE FALSE
  <2>1. \A b : [NoStream EXCEPT !.pc = "accepted", !.current = b].told = None
    BY DEF NoStream
  <2> QED BY <1>4, <1>5, <2>1, NoStreamShaped DEF StreamEvents, StreamEnds
<1>6. ASSUME NEW x \in Streams, Subscribe(x) PROVE FALSE
  <2>1. streams[x] \in Stream
    BY StreamFacts
  <2>2. [streams[x] EXCEPT !.pc = "wait"].told = streams[x].told
    BY <2>1 DEF Stream
  <2> QED BY <1>4, <1>6, <2>2 DEF Subscribe
<1>7. ASSUME NEW x \in Streams, Wake(x) PROVE FALSE
  <2>1. PICK st \in Stream : st = streams[x]
    BY StreamFacts
  <2>2. PICK q, item : /\ q = (IF st.queue = <<>> THEN st.queue ELSE Tail(st.queue))
                       /\ item = (IF st.queue = <<>> THEN None ELSE Head(st.queue))
    OBVIOUS
  <2>3. PICK taken : taken = [st EXCEPT !.queue = q, !.told = None]
    OBVIOUS
  <2>4. \/ Becomes(x, [taken EXCEPT !.pc = "beat", !.item = item])
        \/ Becomes(x, Continued(taken, item))
    BY <1>7, <2>1, <2>2, <2>3 DEF Wake
  <2>5. \A pc : [taken EXCEPT !.pc = pc, !.item = item].told = None
    BY <2>3 DEF Stream
  <2>6. Continued(taken, item).told = None
    BY <2>5, NoStreamShaped DEF Continued
  <2> QED BY <1>4, <2>4, <2>5, <2>6
<1>8. ASSUME NEW x \in Streams, SendHeartbeat(x) \/ CheckBeforeForward(x) PROVE FALSE
  <2>1. PICK st \in Stream : st = streams[x]
    BY StreamFacts
  <2>2. PICK c : c = RecheckOrReuse(x)
    OBVIOUS
  <2>3. \/ c = NoStream \/ c = st
        \/ c = [st EXCEPT !.current = (access[Owner[x]] = "member"), !.age = 0]
    BY <2>1, <2>2 DEF RecheckOrReuse
  <2>4. CASE c = NoStream
    BY <1>4, <1>8, <2>2, <2>4, NoStreamShaped DEF SendHeartbeat, CheckBeforeForward
  <2>5. CASE c # NoStream
    <3>1. PICK d : d = [c EXCEPT !.beat = 0]
      OBVIOUS
    <3>2. \/ Becomes(x, NoStream)
          \/ Becomes(x, [d EXCEPT !.pc = After(c.item), !.item = c.item])
          \/ Becomes(x, [c EXCEPT !.pc = "forward"])
      BY <1>8, <2>2, <2>5, <3>1 DEF SendHeartbeat, CheckBeforeForward, Continued
    <3>3. \A pc : [d EXCEPT !.pc = pc, !.item = c.item].told = st.told
      BY <2>3, <2>5, <3>1 DEF Stream
    <3>4. [c EXCEPT !.pc = "forward"].told = st.told
      BY <2>3, <2>5 DEF Stream
    <3> QED BY <1>4, <2>1, <3>2, <3>3, <3>4, NoStreamShaped
  <2> QED BY <2>4, <2>5
<1>9. ASSUME NEW x \in Streams, Forward(x)
      PROVE  x = s /\ streams'[s].told = streams[s].item /\ LiveEventVisibleTo(s, streams[s].item)
  <2>1. PICK st \in Stream : st = streams[x]
    BY StreamFacts
  <2>2. PICK next : next = [st EXCEPT !.pc = "wait", !.item = None]
    OBVIOUS
  <2>3. /\ next.told = st.told /\ \A o : [next EXCEPT !.owed = o].told = st.told
        /\ \A o : [next EXCEPT !.told = st.item, !.owed = o].told = st.item
    BY <2>2 DEF Stream
  <2>4. \/ Becomes(x, next) \/ \E o : Becomes(x, [next EXCEPT !.owed = o])
        \/ /\ LiveEventVisibleTo(x, st.item)
           /\ \E o : Becomes(x, [next EXCEPT !.told = st.item, !.owed = o])
    BY <1>9, <2>1, <2>2, <2>3 DEF Forward
  <2>5. /\ LiveEventVisibleTo(x, st.item)
        /\ \E o : Becomes(x, [next EXCEPT !.told = st.item, !.owed = o])
    BY <1>4, <2>1, <2>3, <2>4
  <2>6. PICK o : Becomes(x, [next EXCEPT !.told = st.item, !.owed = o])
    BY <2>5
  <2>7. x = s
    BY <1>T, <2>6 DEF Becomes
  <2> QED BY <1>T, <2>1, <2>3, <2>5, <2>6, <2>7 DEF Becomes
<1>10. ASSUME NEW u \in Users, AccessChanges(u) PROVE FALSE
  BY <1>1, <1>10 DEF AccessChanges
<1>11. ASSUME UNCHANGED liveVars PROVE FALSE
  BY <1>1, <1>11 DEF liveVars
<1> QED BY <1>2, <1>3, <1>5, <1>6, <1>7, <1>8, <1>9, <1>10, <1>11 DEF LiveNext

\* Nobody is told of a project they lost longer ago than the reuse window, nor of a notice
\* once the heartbeat after it has looked, for any window and heartbeat (live/stream.py).
THEOREM RecheckHolds == LiveSpec => NothingPastTheRecheck
<1>1. ASSUME LiveInv, [LiveNext]_liveVars, NEW s \in Streams, streams'[s].told # streams[s].told
      PROVE  /\ streams'[s].told \in Changes
                  => access[Owner[s]] = "member" \/ since[Owner[s]] < Window
             /\ streams'[s].told \in Notices
                  => access[Owner[s]] # "gone" \/ since[Owner[s]] < Late
  <2>0. /\ streams[s] \in Stream /\ since[Owner[s]] \in 0..Late /\ Window \in Nat /\ Heartbeat \in Nat
        /\ streams[s].age \in 0..Window /\ streams[s].beat \in 0..Heartbeat
        /\ Timed(streams[s], access[Owner[s]], since[Owner[s]])
        /\ Late = Window + Heartbeat
    BY <1>1, StreamFacts, LiveAssumption DEF StreamKeeps, Stream, Late
  <2>1. ASSUME streams'[s].told \in Events
        PROVE  /\ streams[s].pc = "forward" /\ streams'[s].told = streams[s].item
               /\ LiveEventVisibleTo(s, streams[s].item)
    BY <1>1, <2>1, ToldByForward DEF Forward
  <2>2. ASSUME streams'[s].told \in Changes, ~(since[Owner[s]] < Window)
        PROVE  access[Owner[s]] = "member"
    <3>1. streams[s].pc = "forward" /\ streams[s].item \in Changes /\ LiveEventVisibleTo(s, streams[s].item)
      BY <2>1, <2>2 DEF Events
    <3>2. streams[s].current
      BY <3>1, LiveAssumption DEF LiveEventVisibleTo
    <3>3. streams[s].age < Window
      BY <2>0, <3>1 DEF Timed
    <3>4. since[Owner[s]] > streams[s].age
      BY <2>0, <2>2, <3>3
    <3>5. streams[s].current = (access[Owner[s]] = "member")
      BY <2>0, <3>3, <3>4 DEF Timed
    <3> QED BY <3>2, <3>5
  <2>3. ASSUME streams'[s].told \in Notices, access[Owner[s]] = "gone"
        PROVE  since[Owner[s]] < Late
    <3>1. streams[s].pc = "forward"
      BY <2>1, <2>3 DEF Events
    <3>2. since[Owner[s]] < Window + streams[s].beat
      BY <2>0, <2>3, <3>1 DEF Timed
    <3> QED BY <2>0, <3>2
  <2> QED BY <2>2, <2>3
<1>2. LiveInv /\ [LiveNext]_liveVars =>
        [\A s \in Streams : streams'[s].told # streams[s].told =>
           /\ streams'[s].told \in Changes
                => access[Owner[s]] = "member" \/ since[Owner[s]] < Window
           /\ streams'[s].told \in Notices
                => access[Owner[s]] # "gone" \/ since[Owner[s]] < Late]_liveVars
  BY <1>1
<1> QED BY <1>2, LiveInvHolds, PTL DEF LiveSpec, NothingPastTheRecheck
=============================================================================
