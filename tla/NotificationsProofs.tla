------------------------ MODULE NotificationsProofs ------------------------
(***************************************************************************)
(* Theorems about Notifications, for every set of incidents and channels   *)
(* and every routing.                                                      *)
(***************************************************************************)
EXTENDS Notifications, TLAPS

-----------------------------------------------------------------------------
(* Type correctness.                                                       *)

\* The row a channel gets for the event in hand.
LEMMA PendingType ==
    ASSUME TypeOK, current # Idle, NEW h \in Channel
    PROVE  Pending(h) \in Delivery
  <1>1. current.event \in Incident \X Kind
    BY DEF TypeOK, Work, Event
  <1>2. current.event[1] \in Incident /\ current.event[2] \in Kind
    BY <1>1
  <1>3. QED
    BY <1>2 DEF Pending, Delivery

\* Every action keeps the types.
LEMMA TypeStep ==
    ASSUME TypeOK, [Next]_vars
    PROVE  TypeOK'
  <1> USE DEF database, notifier
  <1>1. CASE UNCHANGED vars
    BY <1>1 DEF vars, TypeOK
  <1>2. ASSUME NEW i \in Incident,
               OpenIncident(i) \/ Acknowledge(i) \/ ResolveIncident(i) \/ DeleteIncident(i)
        PROVE  TypeOK'
    BY <1>2 DEF OpenIncident, Acknowledge, ResolveIncident, DeleteIncident, TypeOK, RowState
  <1>3. ASSUME NEW h \in Channel, CreateNotificationChannel(h) \/ DeleteNotificationChannel(h)
        PROVE  TypeOK'
    BY <1>3 DEF CreateNotificationChannel, DeleteNotificationChannel, TypeOK
  <1>4. CASE ClaimNotificationEvents
    BY <1>4 DEF ClaimNotificationEvents, TypeOK, RowState
  <1>5. ASSUME NEW e \in Event, TakeEvent(e) \/ TakeFails(e)
        PROVE  TypeOK'
    <2>1. PICK left \in SUBSET Channel, failed \in BOOLEAN :
             current' = [event |-> e, left |-> left, failed |-> failed, sent |-> Idle, ok |-> FALSE]
      <3>1. {} \in SUBSET Channel /\ {h \in Live : <<h, e[1], e[2]>> \in Routed} \in SUBSET Channel
        BY DEF Live
      <3>2. QED
        BY <1>5, <3>1 DEF TakeEvent, TakeFails
    <2>2. current' \in Work
      BY <2>1 DEF Work
    <2>3. QED
      BY <1>5, <2>2 DEF TakeEvent, TakeFails, TypeOK
  <1>6. ASSUME NEW h \in Channel, Skip(h) \/ SiteLookupFails(h)
        PROVE  TypeOK'
    BY <1>6 DEF Skip, SiteLookupFails, TypeOK, Work
  <1>7. ASSUME NEW h \in Channel, NEW arrives \in BOOLEAN, NEW ok \in BOOLEAN, Send(h, arrives, ok)
        PROVE  TypeOK'
    <2>1. current \in Work /\ Pending(h) \in Delivery
      BY <1>7, PendingType DEF Send, TypeOK
    <2>2. current' \in Work
      BY <1>7, <2>1 DEF Send, Work
    <2>3. received' \in SUBSET Delivery
      BY <1>7, <2>1 DEF Send, TypeOK
    <2>4. QED
      BY <1>7, <2>2, <2>3 DEF Send, TypeOK
  <1>8. ASSUME NEW saved \in BOOLEAN, RecordDelivery(saved)
        PROVE  TypeOK'
    <2>1. current \in Work /\ current.sent \in Channel
      BY <1>8 DEF RecordDelivery, TypeOK, Work
    <2>2. Pending(current.sent) \in Delivery /\ current.event[1] \in Incident
      BY <1>8, <2>1, PendingType DEF RecordDelivery, Work, Event
    <2>3. current' \in Work
      BY <1>8, <2>1 DEF RecordDelivery, Work
    <2>4. recorded' \in SUBSET Delivery /\ rested' \in SUBSET (Channel \X Incident)
      BY <1>8, <2>1, <2>2 DEF RecordDelivery, TypeOK
    <2>5. QED
      BY <1>8, <2>3, <2>4 DEF RecordDelivery, TypeOK
  <1>9. ASSUME NEW saved \in BOOLEAN, CompleteNotificationEvent(saved)
        PROVE  TypeOK'
    BY <1>9 DEF CompleteNotificationEvent, AfterPublish, TypeOK, RowState
  <1>10. ASSUME NEW e \in Event, BecomeReady(e)
         PROVE  TypeOK'
    BY <1>10 DEF BecomeReady, TypeOK, RowState
  <1>11. CASE NotificationReminders
    BY <1>11 DEF NotificationReminders, TypeOK
  <1>12. ASSUME NEW x \in Channel \X Incident, NEW saved \in BOOLEAN, SendReminder(x, saved)
         PROVE  TypeOK'
    BY <1>12 DEF SendReminder, TypeOK
  <1>13. ASSUME NEW x \in Channel \X Incident, DayPasses(x)
         PROVE  TypeOK'
    BY <1>13 DEF DayPasses, TypeOK
  <1>14. CASE Restart
    BY <1>14 DEF Restart, TypeOK
  <1>15. QED
    BY <1>1, <1>2, <1>3, <1>4, <1>5, <1>6, <1>7, <1>8, <1>9, <1>10, <1>11, <1>12, <1>13, <1>14
    DEF Next

\* Every variable of the outbox and of the notifier keeps its type.
THEOREM TypeCorrect == Spec => []TypeOK
  <1>1. Init => TypeOK
    BY DEF Init, TypeOK, RowState
  <1>2. QED
    BY <1>1, TypeStep, PTL DEF Spec

-----------------------------------------------------------------------------
(* Reminders.                                                              *)

\* Reminders are read of incidents only, and while the notifier is at rest:
\* from then on no event is in hand until the last of them has been sent.
ReminderInv ==
    /\ reminders \cap rested = {}
    /\ \A x \in reminders : incident[x[2]] # "none"
    /\ reminders # {} => batch = {} /\ current = Idle

LEMMA ReminderStep ==
    ASSUME TypeOK, ReminderInv, [Next]_vars
    PROVE  ReminderInv'
  <1> USE DEF database, notifier, ReminderInv
  <1>1. CASE UNCHANGED vars
    BY <1>1 DEF vars
  <1>2. ASSUME NEW i \in Incident, OpenIncident(i)
        PROVE  ReminderInv'
    <2>1. \A x \in reminders : x[2] # i
      BY <1>2 DEF OpenIncident
    <2>2. reminders \cap (Channel \X {i}) = {}
      BY <2>1
    <2>3. reminders' \cap rested' = {}
      BY <1>2, <2>2 DEF OpenIncident
    <2>4. QED
      BY <1>2, <2>1, <2>3 DEF OpenIncident, TypeOK
  <1>3. ASSUME NEW i \in Incident, Acknowledge(i) \/ ResolveIncident(i) \/ DeleteIncident(i)
        PROVE  ReminderInv'
    BY <1>3 DEF Acknowledge, ResolveIncident, DeleteIncident, TypeOK
  <1>4. ASSUME NEW h \in Channel, CreateNotificationChannel(h) \/ DeleteNotificationChannel(h)
        PROVE  ReminderInv'
    BY <1>4 DEF CreateNotificationChannel, DeleteNotificationChannel
  <1>5. CASE ClaimNotificationEvents
    BY <1>5 DEF ClaimNotificationEvents, AtRest
  <1>6. ASSUME NEW e \in Event, TakeEvent(e) \/ TakeFails(e)
        PROVE  ReminderInv'
    BY <1>6 DEF TakeEvent, TakeFails
  <1>7. ASSUME NEW h \in Channel, Skip(h) \/ SiteLookupFails(h)
        PROVE  ReminderInv'
    BY <1>7 DEF Skip, SiteLookupFails
  <1>8. ASSUME NEW h \in Channel, NEW arrives \in BOOLEAN, NEW ok \in BOOLEAN, Send(h, arrives, ok)
        PROVE  ReminderInv'
    BY <1>8 DEF Send
  <1>9. ASSUME NEW saved \in BOOLEAN, RecordDelivery(saved)
        PROVE  ReminderInv'
    BY <1>9 DEF RecordDelivery
  <1>10. ASSUME NEW saved \in BOOLEAN, CompleteNotificationEvent(saved)
         PROVE  ReminderInv'
    BY <1>10 DEF CompleteNotificationEvent
  <1>11. ASSUME NEW e \in Event, BecomeReady(e)
         PROVE  ReminderInv'
    BY <1>11 DEF BecomeReady
  <1>12. CASE NotificationReminders
    BY <1>12 DEF NotificationReminders, DueReminders, AtRest
  <1>13. ASSUME NEW x \in Channel \X Incident, NEW saved \in BOOLEAN, SendReminder(x, saved)
         PROVE  ReminderInv'
    BY <1>13 DEF SendReminder
  <1>14. ASSUME NEW x \in Channel \X Incident, DayPasses(x)
         PROVE  ReminderInv'
    BY <1>14 DEF DayPasses
  <1>15. CASE Restart
    BY <1>15 DEF Restart
  <1>16. QED
    BY <1>1, <1>2, <1>3, <1>4, <1>5, <1>6, <1>7, <1>8, <1>9, <1>10, <1>11, <1>12, <1>13, <1>14, <1>15
    DEF Next

\* What is over stays over, and reminders are taken up by NotificationReminders
\* only, of incidents that are open at that moment.
LEMMA OverNeedsNone ==
    ASSUME [Next]_vars, NEW x \in Channel \X Incident, TypeOK, incident[x[2]] \in Over
    PROVE  incident'[x[2]] \in Over /\ (x \in reminders' => x \in reminders)
  <1> USE DEF Over, database, notifier
  <1>1. CASE NotificationReminders
    BY <1>1 DEF NotificationReminders, DueReminders
  <1>2. ASSUME NEW i \in Incident,
               OpenIncident(i) \/ Acknowledge(i) \/ ResolveIncident(i) \/ DeleteIncident(i)
        PROVE  incident'[x[2]] \in Over /\ reminders' = reminders
    BY <1>2 DEF OpenIncident, Acknowledge, ResolveIncident, DeleteIncident, TypeOK
  <1>3. ASSUME NEW y \in Channel \X Incident, NEW saved \in BOOLEAN, SendReminder(y, saved)
        PROVE  incident' = incident /\ reminders' \subseteq reminders
    BY <1>3 DEF SendReminder
  <1>4. CASE Restart
    BY <1>4 DEF Restart
  <1>5. CASE \/ ClaimNotificationEvents
             \/ UNCHANGED vars
             \/ \E h \in Channel : CreateNotificationChannel(h) \/ DeleteNotificationChannel(h)
             \/ \E e \in Event : TakeEvent(e) \/ TakeFails(e) \/ BecomeReady(e)
             \/ \E h \in Channel : Skip(h) \/ SiteLookupFails(h)
             \/ \E h \in Channel, arrives, ok \in BOOLEAN : Send(h, arrives, ok)
             \/ \E saved \in BOOLEAN : RecordDelivery(saved) \/ CompleteNotificationEvent(saved)
             \/ \E y \in Channel \X Incident : DayPasses(y)
    <2>1. UNCHANGED <<incident, reminders>>
      BY <1>5 DEF vars, ClaimNotificationEvents, CreateNotificationChannel,
                  DeleteNotificationChannel, TakeEvent, TakeFails, BecomeReady, Skip,
                  SiteLookupFails, Send, RecordDelivery, CompleteNotificationEvent, DayPasses
    <2>2. QED
      BY <2>1
  <1>6. QED
    BY <1>1, <1>2, <1>3, <1>4, <1>5 DEF Next

\* No reminder goes to a channel that has been told within the last day, by its
\* record, and none is taken up of an incident that is over: what happens
\* between reading the reminders and sending them gives each channel at most
\* the one that was in hand.
THEOREM RemindersAreBounded == Spec => RemindersBounded
  <1>1. Init => TypeOK /\ ReminderInv
    BY DEF Init, TypeOK, RowState, ReminderInv
  <1>2. TypeOK /\ ReminderInv /\ [Next]_vars => (TypeOK /\ ReminderInv)'
    BY TypeStep, ReminderStep
  <1>3. TypeOK /\ ReminderInv /\ [Next]_vars
          => [\A x \in Channel \X Incident :
                /\ (\E saved \in BOOLEAN : SendReminder(x, saved)) => x \notin rested
                /\ incident[x[2]] \in Over =>
                     /\ incident'[x[2]] \in Over
                     /\ x \in reminders' => x \in reminders]_vars
    <2>1. SUFFICES ASSUME TypeOK, ReminderInv, [Next]_vars, NEW x \in Channel \X Incident
                   PROVE  /\ (\E saved \in BOOLEAN : SendReminder(x, saved)) => x \notin rested
                          /\ incident[x[2]] \in Over =>
                               /\ incident'[x[2]] \in Over
                               /\ x \in reminders' => x \in reminders
      OBVIOUS
    <2>2. (\E saved \in BOOLEAN : SendReminder(x, saved)) => x \notin rested
      BY <2>1 DEF SendReminder, ReminderInv
    <2>3. QED
      BY <2>1, <2>2, OverNeedsNone
  <1>4. QED
    BY <1>1, <1>2, <1>3, PTL DEF Spec, RemindersBounded

-----------------------------------------------------------------------------
(* Delivery.                                                               *)

\* Only the channels created later have ever had no row.
EarlyChannels == \A h \in Channel : channel[h] = "unborn" => h \in Late

\* A success on record, or about to be recorded, has arrived.
SuccessesArrived ==
    /\ recorded \subseteq received
    /\ current # Idle /\ current.sent # Idle /\ current.ok => Pending(current.sent) \in received

\* As long as no channel has failed, those visited have the event in hand.
VisitedArrived ==
    current # Idle /\ ~current.failed =>
        \A h \in Lasting : Pending(h) \in Routed => h \in current.left \/ Pending(h) \in received

DeliveryInv ==
    /\ EarlyChannels
    /\ SuccessesArrived
    /\ VisitedArrived
    /\ ProcessedWasReceived

\* Nothing but the incident, the clock or a reminder changes: the rows that
\* become processed, the channels, the recipients and the event in hand do not.
LEMMA Undisturbed ==
    ASSUME DeliveryInv,
           UNCHANGED <<channel, recorded, received, current>>,
           \A e \in Event : outbox'[e] = "processed" => outbox[e] = "processed"
    PROVE  DeliveryInv'
  BY DEF DeliveryInv, EarlyChannels, SuccessesArrived, VisitedArrived, ProcessedWasReceived,
         Lasting, Live, Pending

\* The event in hand is worked on; rows and channels stay.
LEMMA RowsStay ==
    ASSUME EarlyChannels, ProcessedWasReceived,
           UNCHANGED <<channel, outbox>>, received \subseteq received'
    PROVE  EarlyChannels' /\ ProcessedWasReceived'
  BY DEF EarlyChannels, ProcessedWasReceived, Lasting, Live

LEMMA DeliveryStep ==
    ASSUME TypeOK, DeliveryInv, [Next]_vars
    PROVE  DeliveryInv'
  <1> USE DEF database, notifier
  <1>1. CASE UNCHANGED vars
    BY <1>1, Undisturbed DEF vars
  <1>2. ASSUME NEW i \in Incident,
               OpenIncident(i) \/ Acknowledge(i) \/ ResolveIncident(i) \/ DeleteIncident(i)
        PROVE  DeliveryInv'
    BY <1>2, Undisturbed
    DEF OpenIncident, Acknowledge, ResolveIncident, DeleteIncident, TypeOK
  <1>3. ASSUME NEW h \in Channel, CreateNotificationChannel(h) \/ DeleteNotificationChannel(h)
        PROVE  DeliveryInv'
    <2>1. Lasting' \subseteq Lasting
      BY <1>3
      DEF CreateNotificationChannel, DeleteNotificationChannel, TypeOK, DeliveryInv,
          EarlyChannels, Lasting, Live
    <2>2. UNCHANGED <<outbox, recorded, received, current>>
      BY <1>3 DEF CreateNotificationChannel, DeleteNotificationChannel
    <2>3. EarlyChannels'
      BY <1>3
      DEF CreateNotificationChannel, DeleteNotificationChannel, TypeOK, DeliveryInv, EarlyChannels
    <2>4. SuccessesArrived' /\ VisitedArrived'
      BY <2>1, <2>2 DEF DeliveryInv, SuccessesArrived, VisitedArrived, Pending
    <2>5. ProcessedWasReceived'
      BY <2>1, <2>2 DEF DeliveryInv, ProcessedWasReceived, Lasting
    <2>6. QED
      BY <2>3, <2>4, <2>5 DEF DeliveryInv
  <1>4. CASE ClaimNotificationEvents
    BY <1>4, Undisturbed DEF ClaimNotificationEvents, TypeOK
  <1>5. ASSUME NEW e \in Event, TakeEvent(e) \/ TakeFails(e)
        PROVE  DeliveryInv'
    <2>1. UNCHANGED <<channel, outbox, recorded, received>>
      BY <1>5 DEF TakeEvent, TakeFails
    <2>2. SuccessesArrived'
      BY <1>5, <2>1 DEF TakeEvent, TakeFails, DeliveryInv, SuccessesArrived
    <2>3. VisitedArrived'
      BY <1>5 DEF TakeEvent, TakeFails, VisitedArrived, Lasting, Live, Pending
    <2>4. QED
      BY <2>1, <2>2, <2>3, RowsStay DEF DeliveryInv
  <1>6. ASSUME NEW h \in Channel, Skip(h) \/ SiteLookupFails(h)
        PROVE  DeliveryInv'
    <2>1. /\ UNCHANGED <<channel, outbox, recorded, received>>
          /\ current \in Work
          /\ current' = [current EXCEPT !.left = @ \ {h}]
          /\ h \in Scoped \/ Pending(h) \in recorded
          /\ current # Idle
      BY <1>6 DEF Skip, SiteLookupFails, NotificationEventDelivered, TypeOK
    <2>2. /\ current'.event = current.event
          /\ current'.sent = current.sent
          /\ current'.ok = current.ok
          /\ current'.failed = current.failed
          /\ current'.left = current.left \ {h}
      BY <2>1 DEF Work
    <2>3. SuccessesArrived'
      BY <2>1, <2>2 DEF DeliveryInv, SuccessesArrived, Pending
    <2>4. VisitedArrived'
      BY <2>1, <2>2 DEF DeliveryInv, SuccessesArrived, VisitedArrived, Lasting, Live, Pending
    <2>5. QED
      BY <2>1, <2>3, <2>4, RowsStay DEF DeliveryInv
  <1>7. ASSUME NEW h \in Channel, NEW arrives \in BOOLEAN, NEW ok \in BOOLEAN, Send(h, arrives, ok)
        PROVE  DeliveryInv'
    <2>1. /\ UNCHANGED <<channel, outbox, recorded>>
          /\ current \in Work
          /\ current # Idle
          /\ received \subseteq received'
          /\ ok => Pending(h) \in received'
      BY <1>7 DEF Send, TypeOK
    <2>2. /\ current'.event = current.event
          /\ current'.sent = h
          /\ current'.ok = ok
          /\ current'.failed = (current.failed \/ ~ok)
          /\ current'.left = current.left \ {h}
      BY <1>7, <2>1 DEF Send, Work
    <2>3. SuccessesArrived'
      BY <2>1, <2>2 DEF DeliveryInv, SuccessesArrived, Pending
    <2>4. VisitedArrived'
      BY <2>1, <2>2 DEF DeliveryInv, VisitedArrived, Lasting, Live, Pending
    <2>5. QED
      BY <2>1, <2>3, <2>4, RowsStay DEF DeliveryInv
  <1>8. ASSUME NEW saved \in BOOLEAN, RecordDelivery(saved)
        PROVE  DeliveryInv'
    <2>1. /\ UNCHANGED <<channel, outbox, received>>
          /\ current \in Work
          /\ current # Idle
          /\ \/ recorded' = recorded
             \/ current.ok /\ recorded' = recorded \cup {Pending(current.sent)}
          /\ current.sent # Idle
      BY <1>8 DEF RecordDelivery, TypeOK
    <2>2. /\ current'.event = current.event
          /\ current'.sent = Idle
          /\ current'.failed = current.failed
          /\ current'.left = current.left
      BY <1>8, <2>1 DEF RecordDelivery, Work
    <2>3. SuccessesArrived'
      BY <2>1, <2>2 DEF DeliveryInv, SuccessesArrived
    <2>4. VisitedArrived'
      BY <2>1, <2>2 DEF DeliveryInv, VisitedArrived, Lasting, Live, Pending
    <2>5. QED
      BY <2>1, <2>3, <2>4, RowsStay DEF DeliveryInv
  <1>9. ASSUME NEW saved \in BOOLEAN, CompleteNotificationEvent(saved)
        PROVE  DeliveryInv'
    <2>1. /\ UNCHANGED <<channel, recorded, received>>
          /\ current \in Work
          /\ current # Idle
          /\ current.left = {}
          /\ current' = Idle
      BY <1>9 DEF CompleteNotificationEvent, TypeOK
    <2>2. \A e \in Event : outbox'[e] = "processed" =>
             outbox[e] = "processed" \/ (e = current.event /\ ~current.failed)
      BY <1>9 DEF CompleteNotificationEvent, AfterPublish, TypeOK
    <2>3. EarlyChannels' /\ SuccessesArrived' /\ VisitedArrived'
      BY <2>1 DEF DeliveryInv, EarlyChannels, SuccessesArrived, VisitedArrived
    <2>4. ProcessedWasReceived'
      BY <2>1, <2>2
      DEF DeliveryInv, VisitedArrived, ProcessedWasReceived, Lasting, Live, Pending
    <2>5. QED
      BY <2>3, <2>4 DEF DeliveryInv
  <1>10. ASSUME NEW e \in Event, BecomeReady(e)
         PROVE  DeliveryInv'
    BY <1>10, Undisturbed DEF BecomeReady, TypeOK
  <1>11. CASE NotificationReminders
    BY <1>11, Undisturbed DEF NotificationReminders
  <1>12. ASSUME NEW x \in Channel \X Incident, NEW saved \in BOOLEAN, SendReminder(x, saved)
         PROVE  DeliveryInv'
    BY <1>12, Undisturbed DEF SendReminder
  <1>13. ASSUME NEW x \in Channel \X Incident, DayPasses(x)
         PROVE  DeliveryInv'
    BY <1>13, Undisturbed DEF DayPasses
  <1>14. CASE Restart
    BY <1>14
    DEF Restart, DeliveryInv, EarlyChannels, SuccessesArrived, VisitedArrived,
        ProcessedWasReceived, Lasting, Live
  <1>15. QED
    BY <1>1, <1>2, <1>3, <1>4, <1>5, <1>6, <1>7, <1>8, <1>9, <1>10, <1>11, <1>12, <1>13, <1>14
    DEF Next

\* An event is processed only when every channel for all sites that has existed
\* all along and is routed has received it.
THEOREM ProcessedReached == Spec => []ProcessedWasReceived
  <1>1. Init => TypeOK /\ DeliveryInv
    BY DEF Init, TypeOK, RowState, DeliveryInv, EarlyChannels, SuccessesArrived,
           VisitedArrived, ProcessedWasReceived
  <1>2. TypeOK /\ DeliveryInv /\ [Next]_vars => (TypeOK /\ DeliveryInv)'
    BY TypeStep, DeliveryStep
  <1>3. DeliveryInv => ProcessedWasReceived
    BY DEF DeliveryInv
  <1>4. QED
    BY <1>1, <1>2, <1>3, PTL DEF Spec

-----------------------------------------------------------------------------
(* The refinement.                                                         *)

InHand(e) == e \in batch \/ (current # Idle /\ current.event = e)

(***************************************************************************)
(* The event in hand is not in the batch as well, so that whoever has an   *)
(* event in hand has it alone: its row is not processed yet, and if it is  *)
(* gone, its incident is.  Rows are there only for what has happened.      *)
(***************************************************************************)
HandInv ==
    /\ current # Idle => current.event \notin batch
    /\ \A e \in Event : InHand(e) => /\ outbox[e] # "processed"
                                     /\ outbox[e] = "absent" => incident[e[1]] = "deleted"
    /\ \A e \in Event : outbox[e] # "absent" =>
          /\ incident[e[1]] \notin {"none", "deleted"}
          /\ e[2] = "resolved" => incident[e[1]] = "resolved"

LEMMA HandStep ==
    ASSUME TypeOK, HandInv, [Next]_vars
    PROVE  HandInv'
  <1> USE DEF database, notifier, HandInv, InHand
  <1>1. CASE UNCHANGED <<incident, outbox, batch, current>>
    BY <1>1
  <1>2. ASSUME NEW i \in Incident,
               OpenIncident(i) \/ Acknowledge(i) \/ ResolveIncident(i) \/ DeleteIncident(i)
        PROVE  HandInv'
    <2>1. UNCHANGED <<batch, current>>
      BY <1>2 DEF OpenIncident, Acknowledge, ResolveIncident, DeleteIncident
    <2>2. \A e \in Event : e[1] \in Incident /\ e[2] \in Kind /\ e = <<e[1], e[2]>>
      BY DEF Event
    <2>3. CASE OpenIncident(i)
      BY <2>1, <2>2, <2>3 DEF OpenIncident, TypeOK, Event, Kind
    <2>4. CASE Acknowledge(i)
      BY <2>1, <2>2, <2>4 DEF Acknowledge, TypeOK
    <2>5. CASE ResolveIncident(i)
      BY <2>1, <2>2, <2>5 DEF ResolveIncident, TypeOK, Event, Kind
    <2>6. CASE DeleteIncident(i)
      BY <2>1, <2>2, <2>6 DEF DeleteIncident, TypeOK
    <2>7. QED
      BY <1>2, <2>3, <2>4, <2>5, <2>6
  <1>3. CASE ClaimNotificationEvents
    BY <1>3 DEF ClaimNotificationEvents, AtRest, TypeOK
  <1>4. ASSUME NEW e \in Event, TakeEvent(e) \/ TakeFails(e)
        PROVE  HandInv'
    <2>1. /\ e \in batch /\ batch' = batch \ {e}
          /\ current'.event = e
          /\ UNCHANGED <<incident, outbox>>
      BY <1>4 DEF TakeEvent, TakeFails
    <2>2. QED
      BY <2>1
  <1>5. ASSUME UNCHANGED <<incident, outbox, batch>>, current # Idle, current'.event = current.event
        PROVE  HandInv'
    BY <1>5
  <1>6. ASSUME NEW h \in Channel, Skip(h) \/ SiteLookupFails(h)
        PROVE  HandInv'
    BY <1>5, <1>6 DEF Skip, SiteLookupFails, TypeOK, Work
  <1>7. ASSUME NEW h \in Channel, NEW arrives \in BOOLEAN, NEW ok \in BOOLEAN, Send(h, arrives, ok)
        PROVE  HandInv'
    BY <1>5, <1>7 DEF Send, TypeOK, Work
  <1>8. ASSUME NEW saved \in BOOLEAN, RecordDelivery(saved)
        PROVE  HandInv'
    BY <1>5, <1>8 DEF RecordDelivery, TypeOK, Work
  <1>9. ASSUME NEW saved \in BOOLEAN, CompleteNotificationEvent(saved)
        PROVE  HandInv'
    <2>1. /\ current # Idle /\ current' = Idle
          /\ UNCHANGED <<incident, batch>>
          /\ \A e \in Event : e # current.event => outbox'[e] = outbox[e]
          /\ \A e \in Event : outbox'[e] # "absent" => outbox[e] # "absent"
      BY <1>9 DEF CompleteNotificationEvent, TypeOK
    <2>2. QED
      BY <2>1
  <1>10. ASSUME NEW e \in Event, BecomeReady(e)
         PROVE  HandInv'
    BY <1>10 DEF BecomeReady, TypeOK
  <1>11. CASE Restart
    BY <1>11 DEF Restart
  <1>12. QED
    <2>1. ASSUME NEW h \in Channel, CreateNotificationChannel(h) \/ DeleteNotificationChannel(h)
          PROVE  HandInv'
      BY <1>1, <2>1 DEF CreateNotificationChannel, DeleteNotificationChannel
    <2>2. CASE NotificationReminders
      BY <1>1, <2>2 DEF NotificationReminders
    <2>3. ASSUME NEW x \in Channel \X Incident,
                 DayPasses(x) \/ \E saved \in BOOLEAN : SendReminder(x, saved)
          PROVE  HandInv'
      BY <1>1, <2>3 DEF DayPasses, SendReminder
    <2>4. CASE UNCHANGED vars
      BY <1>1, <2>4 DEF vars
    <2>5. QED
      BY <1>2, <1>3, <1>4, <1>6, <1>7, <1>8, <1>9, <1>10, <1>11, <2>1, <2>2, <2>3, <2>4 DEF Next

\* A step that changes neither what is announced nor who has it is a stutter.
LEMMA Stutters ==
    ASSUME UNCHANGED received, Lasting' = Lasting,
           \A e \in Event : Announced(e)' = Announced(e)
    PROVE  UNCHANGED Promise!vars
  BY DEF Promise!vars

LEMMA PromiseStep ==
    ASSUME TypeOK, DeliveryInv, HandInv, [Next]_vars
    PROVE  [Promise!Next]_(Promise!vars)
  <1> USE DEF database, notifier
  <1>1. ASSUME UNCHANGED <<incident, outbox, channel, received>>
        PROVE  UNCHANGED Promise!vars
    BY <1>1, Stutters DEF Announced, Lasting, Live
  <1>2. \A e \in Event : e[1] \in Incident /\ e[2] \in Kind /\ e = <<e[1], e[2]>>
    BY DEF Event
  <1>3. ASSUME NEW i \in Incident, OpenIncident(i)
        PROVE  Promise!Announce(<<i, "opened">>)
    <2>1. <<i, "opened">> \in Event /\ UNCHANGED <<received, channel>>
      BY <1>3 DEF Event, Kind, OpenIncident
    <2>2. \A e \in Event : Announced(e)' = IF e = <<i, "opened">> THEN "owed" ELSE Announced(e)
      BY <1>2, <1>3 DEF OpenIncident, Announced, HandInv, TypeOK
    <2>3. Announced(<<i, "opened">>) = "none"
      BY <1>3, <2>1 DEF OpenIncident, Announced, HandInv
    <2>4. QED
      BY <2>1, <2>2, <2>3 DEF Promise!Announce, Lasting, Live
  <1>4. ASSUME NEW i \in Incident, ResolveIncident(i)
        PROVE  Promise!Announce(<<i, "resolved">>)
    <2>1. <<i, "resolved">> \in Event /\ UNCHANGED <<received, channel>>
      BY <1>4 DEF Event, Kind, ResolveIncident
    <2>2. \A e \in Event : Announced(e)' = IF e = <<i, "resolved">> THEN "owed" ELSE Announced(e)
      BY <1>2, <1>4 DEF ResolveIncident, Announced, HandInv, TypeOK
    <2>3. Announced(<<i, "resolved">>) = "none"
      BY <1>4, <2>1 DEF ResolveIncident, Announced, HandInv
    <2>4. QED
      BY <2>1, <2>2, <2>3 DEF Promise!Announce, Lasting, Live
  <1>5. ASSUME NEW i \in Incident, Acknowledge(i)
        PROVE  UNCHANGED Promise!vars
    <2>1. \A e \in Event : Announced(e)' = Announced(e)
      BY <1>2, <1>5 DEF Acknowledge, Announced, TypeOK
    <2>2. QED
      BY <1>5, <2>1, Stutters DEF Acknowledge, Lasting, Live
  <1>6. ASSUME NEW i \in Incident, DeleteIncident(i)
        PROVE  Promise!Withdraw({e \in Event : e[1] = i})
    <2>1. \A e \in Event : Announced(e)' = IF e[1] = i THEN "withdrawn" ELSE Announced(e)
      BY <1>2, <1>6 DEF DeleteIncident, Announced, TypeOK
    <2>2. QED
      BY <1>6, <2>1 DEF DeleteIncident, Promise!Withdraw, Lasting, Live
  <1>7. ASSUME NEW h \in Channel, CreateNotificationChannel(h)
        PROVE  UNCHANGED Promise!vars
    <2>1. Lasting' = Lasting
      BY <1>7 DEF CreateNotificationChannel, DeliveryInv, EarlyChannels, Lasting, Live, TypeOK
    <2>2. QED
      BY <1>7, <2>1, Stutters DEF CreateNotificationChannel, Announced
  <1>8. ASSUME NEW h \in Channel, DeleteNotificationChannel(h)
        PROVE  Promise!Leave(h)
    <2>1. Lasting' = Lasting \ {h}
      BY <1>8 DEF DeleteNotificationChannel, Lasting, Live, TypeOK
    <2>2. QED
      BY <1>8, <2>1 DEF DeleteNotificationChannel, Promise!Leave, Announced
  <1>9. ASSUME ClaimNotificationEvents \/ \E e \in Event : BecomeReady(e)
        PROVE  UNCHANGED Promise!vars
    <2>1. \A e \in Event : Announced(e)' = Announced(e)
      BY <1>9 DEF ClaimNotificationEvents, BecomeReady, Announced, TypeOK
    <2>2. QED
      BY <1>9, <2>1, Stutters DEF ClaimNotificationEvents, BecomeReady, Lasting, Live
  <1>10. ASSUME NEW h \in Channel, NEW arrives \in BOOLEAN, NEW ok \in BOOLEAN,
                Send(h, arrives, ok), NEW c \in Event, current.event = c
         PROVE  Promise!Arrive(c, h) \/ UNCHANGED Promise!vars
    <2>1. current \in Work /\ current # Idle
      BY <1>10 DEF Send, TypeOK, Work
    <2>2. UNCHANGED <<incident, outbox, channel>>
      BY <1>10 DEF Send
    <2>3. CASE UNCHANGED received
      BY <1>1, <2>2, <2>3
    <2>4. CASE received' = received \cup {Pending(h)}
      <3>1. Announced(c) # "none"
        BY <1>10, <2>1 DEF HandInv, InHand, Announced
      <3>2. \A e \in Event : {g \in Channel : <<g, e[1], e[2]>> \in received'} =
              IF e = c
              THEN {g \in Channel : <<g, e[1], e[2]>> \in received} \cup {h}
              ELSE {g \in Channel : <<g, e[1], e[2]>> \in received}
        BY <1>2, <1>10, <2>1, <2>4 DEF Pending
      <3>3. QED
        BY <1>10, <2>1, <2>2, <3>1, <3>2 DEF Promise!Arrive, Announced, Lasting, Live
    <2>5. QED
      BY <1>10, <2>3, <2>4 DEF Send
  <1>11. ASSUME NEW saved \in BOOLEAN, CompleteNotificationEvent(saved)
         PROVE  Promise!Settle(current.event) \/ UNCHANGED Promise!vars
    <2>1. /\ current \in Work /\ current # Idle /\ current.event \in Event
          /\ current.left = {}
          /\ UNCHANGED <<incident, channel, received>>
      BY <1>11 DEF CompleteNotificationEvent, TypeOK, Work
    <2>2. CASE UNCHANGED outbox
      BY <1>1, <2>1, <2>2
    <2>3. ASSUME outbox[current.event] # "absent",
                 outbox' = [outbox EXCEPT ![current.event] = AfterPublish(current.failed)]
          PROVE  Promise!Settle(current.event) \/ UNCHANGED Promise!vars
      <3>1. Announced(current.event) = "owed"
        BY <2>1, <2>3 DEF HandInv, InHand, Announced
      <3>2. CASE current.failed
        <4>1. \A e \in Event : Announced(e)' = Announced(e)
          BY <2>1, <2>3, <3>1, <3>2 DEF Announced, AfterPublish, TypeOK
        <4>2. QED
          BY <2>1, <4>1, Stutters DEF Lasting, Live
      <3>3. CASE ~current.failed
        <4>1. \A e \in Event : Announced(e)' = IF e = current.event THEN "settled" ELSE Announced(e)
          BY <2>1, <2>3, <3>1, <3>3 DEF Announced, AfterPublish, TypeOK
        <4>2. \A h \in Lasting : <<h, current.event[1], current.event[2]>> \in Routed =>
                <<h, current.event[1], current.event[2]>> \in received
          BY <2>1, <3>3 DEF DeliveryInv, VisitedArrived, Pending
        <4>3. QED
          BY <2>1, <3>1, <4>1, <4>2 DEF Promise!Settle, Lasting, Live
      <3>4. QED
        BY <3>2, <3>3
    <2>4. QED
      BY <1>11, <2>2, <2>3 DEF CompleteNotificationEvent
  <1>12. QED
    <2>1. ASSUME NEW e \in Event, TakeEvent(e) \/ TakeFails(e)
          PROVE  UNCHANGED Promise!vars
      BY <1>1, <2>1 DEF TakeEvent, TakeFails
    <2>2. ASSUME NEW h \in Channel, Skip(h) \/ SiteLookupFails(h)
          PROVE  UNCHANGED Promise!vars
      BY <1>1, <2>2 DEF Skip, SiteLookupFails
    <2>3. ASSUME NEW saved \in BOOLEAN, RecordDelivery(saved)
          PROVE  UNCHANGED Promise!vars
      BY <1>1, <2>3 DEF RecordDelivery
    <2>4. ASSUME NotificationReminders \/ Restart
          PROVE  UNCHANGED Promise!vars
      BY <1>1, <2>4 DEF NotificationReminders, Restart
    <2>5. ASSUME NEW x \in Channel \X Incident,
                 DayPasses(x) \/ \E saved \in BOOLEAN : SendReminder(x, saved)
          PROVE  UNCHANGED Promise!vars
      BY <1>1, <2>5 DEF DayPasses, SendReminder
    <2>6. CASE UNCHANGED vars
      BY <1>1, <2>6 DEF vars
    <2>7. ASSUME NEW i \in Incident, OpenIncident(i) \/ ResolveIncident(i) \/ DeleteIncident(i)
          PROVE  Promise!Next
      <3>1. <<i, "opened">> \in Event /\ <<i, "resolved">> \in Event
        BY DEF Event, Kind
      <3>2. {e \in Event : e[1] = i} \in SUBSET Event
        OBVIOUS
      <3>3. QED
        BY <1>3, <1>4, <1>6, <2>7, <3>1, <3>2 DEF Promise!Next
    <2>8. ASSUME NEW h \in Channel, NEW arrives \in BOOLEAN, NEW ok \in BOOLEAN,
                 Send(h, arrives, ok)
          PROVE  [Promise!Next]_(Promise!vars)
      <3>1. current.event \in Event
        BY <2>8 DEF Send, TypeOK, Work
      <3>2. PICK c \in Event : current.event = c
        BY <3>1
      <3>3. Promise!Arrive(c, h) \/ UNCHANGED Promise!vars
        BY <1>10, <2>8, <3>2
      <3>4. QED
        BY <3>3 DEF Promise!Next
    <2>9. ASSUME NEW saved \in BOOLEAN, CompleteNotificationEvent(saved)
          PROVE  [Promise!Next]_(Promise!vars)
      <3>1. current.event \in Event
        BY <2>9 DEF CompleteNotificationEvent, TypeOK, Work
      <3>2. QED
        BY <1>11, <2>9, <3>1 DEF Promise!Next
    <2>10. ASSUME NEW h \in Channel, DeleteNotificationChannel(h)
           PROVE  Promise!Next
      BY <1>8, <2>10 DEF Promise!Next
    <2>11. QED
      BY <1>5, <1>7, <1>9, <2>1, <2>2, <2>3, <2>4, <2>5, <2>6, <2>7, <2>8, <2>9, <2>10 DEF Next

\* The outbox is an implementation of Announcements: its claims, leases,
\* retries and records, crashes and failing statements included, show to the
\* lasting channels as announcing, arriving and settling.
THEOREM OutboxKeepsPromise == Spec => KeepsPromise
  <1>1. Init => TypeOK /\ DeliveryInv /\ HandInv
    BY DEF Init, TypeOK, RowState, DeliveryInv, EarlyChannels, SuccessesArrived,
           VisitedArrived, ProcessedWasReceived, HandInv, InHand
  <1>2. Init => Promise!Init
    <2>1. ASSUME Init
          PROVE  /\ \A e \in Event : Announced(e) = "none"
                 /\ \A e \in Event : {h \in Channel : <<h, e[1], e[2]>> \in received} = {}
                 /\ Lasting \in SUBSET Channel
      BY <2>1 DEF Init, Announced, Lasting, Live, Event
    <2>2. QED
      BY <2>1 DEF Promise!Init
  <1>3. TypeOK /\ DeliveryInv /\ HandInv /\ [Next]_vars => (TypeOK /\ DeliveryInv /\ HandInv)'
    BY TypeStep, DeliveryStep, HandStep
  <1>4. TypeOK /\ DeliveryInv /\ HandInv /\ [Next]_vars => [Promise!Next]_(Promise!vars)
    BY PromiseStep
  <1>5. QED
    BY <1>1, <1>2, <1>3, <1>4, PTL DEF Spec, KeepsPromise, Promise!Spec
=============================================================================
