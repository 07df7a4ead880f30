---------------------------- MODULE Notifications ----------------------------
(***************************************************************************)
(* The notification outbox: the trigger on incidents fills                 *)
(* notification_events, one notifier goroutine claims the rows under a     *)
(* two-minute lease, sends each to the channels it is routed to, records   *)
(* the deliveries and completes or postpones the row, and in between sends *)
(* the daily reminders of open incidents.                                  *)
(*                                                                         *)
(* The goroutine, the recipients and the database fail independently: a    *)
(* message may arrive although sending it reports an error, and none of    *)
(* DeviceBelongsToSite, NotificationEventDelivered, RecordDelivery and     *)
(* CompleteNotificationEvent tells its caller that the database failed.    *)
(***************************************************************************)
EXTENDS Naturals

CONSTANTS
    Incident,   \* incident identifiers
    Channel,    \* notification channel identifiers
    Routed,     \* <<channel, incident, kind>>: by site and by selected kinds
    Scoped,     \* channels of one site
    Late,       \* channels created while the system runs
    Removable,  \* bound: channels an administrator may delete
    Aging,      \* bound: <<channel, incident>> for which days go by
    Idle        \* the notifier without an event, or without a message

Kind == {"opened", "resolved"}
Event == Incident \X Kind
Delivery == Channel \X Incident \X Kind

ASSUME RoutedAssumption == Routed \subseteq Delivery

VARIABLES
    incident,   \* incidents.state
    outbox,     \* the notification_events row of each event
    channel,    \* notification_channels
    recorded,   \* notification_deliveries of events that succeeded
    rested,     \* <<channel, incident>> opened or notified in the last day
    received,   \* what has arrived at the recipients of each channel
    batch,      \* claimed events the notifier has not taken up yet
    current,    \* the event Publish works on
    reminders   \* <<channel, incident>> read by NotificationReminders

database == <<incident, outbox, channel>>
notifier == <<batch, current, reminders>>
vars == <<database, recorded, rested, received, notifier>>

\* A row is ready when ClaimNotificationEvents would take it.
RowState == {"absent", "ready", "leased", "waiting", "processed"}

\* What Publish knows: the channels it has still to visit, whether one of
\* them has failed, and the delivery it has to record next.
Work == [event : Event, left : SUBSET Channel, failed : BOOLEAN,
         sent : Channel \cup {Idle}, ok : BOOLEAN]

\* States of an incident that needs no reminders any more.
Over == {"acknowledged", "resolved", "deleted"}

Live == {h \in Channel : channel[h] = "live"}

\* The channels for all sites that have existed all along.
Lasting == Live \ (Late \cup Scoped)

\* Mutant: a second ticker does not wait for the event in hand.
AtRest_Overlapping == batch = {} /\ reminders = {}

\* One goroutine: the next tick waits for the end of the one before.
AtRest == batch = {} /\ current = Idle /\ reminders = {}

Init ==
    /\ incident = [i \in Incident |-> "none"]
    /\ outbox = [e \in Event |-> "absent"]
    /\ channel = [h \in Channel |-> IF h \in Late THEN "unborn" ELSE "live"]
    /\ recorded = {}
    /\ rested = {}
    /\ received = {}
    /\ batch = {}
    /\ current = Idle
    /\ reminders = {}

-----------------------------------------------------------------------------
(* Incidents and channels; golive_queue_incident_notification runs in the  *)
(* transaction that changes the state.                                     *)

OpenIncident(i) ==
    /\ incident[i] = "none"
    /\ incident' = [incident EXCEPT ![i] = "open"]
    /\ outbox' = [outbox EXCEPT ![<<i, "opened">>] = "ready"]
    /\ rested' = rested \cup (Channel \X {i})
    /\ UNCHANGED <<channel, recorded, received, notifier>>

Acknowledge(i) ==
    /\ incident[i] = "open"
    /\ incident' = [incident EXCEPT ![i] = "acknowledged"]
    /\ UNCHANGED <<outbox, channel, recorded, rested, received, notifier>>

ResolveIncident(i) ==
    /\ incident[i] \in {"open", "acknowledged"}
    /\ incident' = [incident EXCEPT ![i] = "resolved"]
    /\ outbox' = [outbox EXCEPT ![<<i, "resolved">>] = "ready"]
    /\ UNCHANGED <<channel, recorded, rested, received, notifier>>

\* The device is deleted: the incident goes, and its events with it.
DeleteIncident(i) ==
    /\ incident[i] \notin {"none", "deleted"}
    /\ incident' = [incident EXCEPT ![i] = "deleted"]
    /\ outbox' = [e \in Event |-> IF e[1] = i THEN "absent" ELSE outbox[e]]
    /\ UNCHANGED <<channel, recorded, rested, received, notifier>>

CreateNotificationChannel(h) ==
    /\ channel[h] = "unborn"
    /\ channel' = [channel EXCEPT ![h] = "live"]
    /\ UNCHANGED <<incident, outbox, recorded, rested, received, notifier>>

DeleteNotificationChannel(h) ==
    /\ h \in Removable
    /\ channel[h] = "live"
    /\ channel' = [channel EXCEPT ![h] = "deleted"]
    /\ UNCHANGED <<incident, outbox, recorded, rested, received, notifier>>

-----------------------------------------------------------------------------
(* The outbox.                                                             *)

\* ClaimNotificationEvents; the rows come back in no particular order.  Fifty
\* rows are one batch: the model assumes that no more are ready at a time.
ClaimNotificationEvents ==
    /\ AtRest
    /\ \E e \in Event : outbox[e] = "ready"
    /\ batch' = {e \in Event : outbox[e] = "ready"}
    /\ outbox' = [e \in Event |-> IF e \in batch' THEN "leased" ELSE outbox[e]]
    /\ UNCHANGED <<incident, channel, recorded, rested, received, current, reminders>>

\* processEvents takes up the next event; Publish reads the channels.
TakeEvent(e) ==
    /\ current = Idle
    /\ e \in batch
    /\ batch' = batch \ {e}
    /\ current' = [event |-> e, left |-> {h \in Live : <<h, e[1], e[2]>> \in Routed},
                   failed |-> FALSE, sent |-> Idle, ok |-> FALSE]
    /\ UNCHANGED <<database, recorded, rested, received, reminders>>

\* The channels cannot be read: the event fails as a whole.
TakeFails(e) ==
    /\ current = Idle
    /\ e \in batch
    /\ batch' = batch \ {e}
    /\ current' = [event |-> e, left |-> {}, failed |-> TRUE, sent |-> Idle, ok |-> FALSE]
    /\ UNCHANGED <<database, recorded, rested, received, reminders>>

\* The row of notification_deliveries the event has for channel h.
Pending(h) == <<h, current.event[1], current.event[2]>>

\* Mutant: deliveries are not looked up.
NotificationEventDelivered_Never(h) == Pending(h) \in {}

\* The channel has had this event, and that is on record.
NotificationEventDelivered(h) == Pending(h) \in recorded

\* Publish passes over the channel.
Skip(h) ==
    /\ current # Idle
    /\ current.sent = Idle
    /\ h \in current.left
    /\ NotificationEventDelivered(h)
    /\ current' = [current EXCEPT !.left = @ \ {h}]
    /\ UNCHANGED <<database, recorded, rested, received, batch, reminders>>

\* DeviceBelongsToSite cannot ask the database and says no.
SiteLookupFails(h) ==
    /\ current # Idle
    /\ current.sent = Idle
    /\ h \in current.left \cap Scoped
    /\ current' = [current EXCEPT !.left = @ \ {h}]
    /\ UNCHANGED <<database, recorded, rested, received, batch, reminders>>

\* publishChannel up to the answer: the message arrives or not, and an error
\* is reported or not, but no message is lost without an error.  A channel
\* that has had the event gets it again if NotificationEventDelivered fails.
Send(h, arrives, ok) ==
    /\ current # Idle
    /\ current.sent = Idle
    /\ h \in current.left
    /\ ok => arrives
    /\ received' = IF arrives THEN received \cup {Pending(h)} ELSE received
    /\ current' = [current EXCEPT !.left = @ \ {h}, !.failed = @ \/ ~ok, !.sent = h, !.ok = ok]
    /\ UNCHANGED <<database, recorded, rested, batch, reminders>>

\* RecordDelivery: the row of a deleted channel or event cannot be inserted, a
\* second success is a conflict and changes nothing, and an error of the
\* database goes unnoticed.
RecordDelivery(saved) ==
    /\ current # Idle
    /\ current.sent # Idle
    /\ saved => /\ current.ok
                /\ current.sent \in Live
                /\ outbox[current.event] # "absent"
    /\ recorded' = IF saved THEN recorded \cup {Pending(current.sent)} ELSE recorded
    /\ rested' = IF saved /\ current.event[2] = "opened" /\ ~NotificationEventDelivered(current.sent)
                 THEN rested \cup {<<current.sent, current.event[1]>>} ELSE rested
    /\ current' = [current EXCEPT !.sent = Idle]
    /\ UNCHANGED <<database, received, batch, reminders>>

\* Mutant: a failure of one channel is not handed on.
AfterPublish_IgnoresFailure(failed) == IF failed THEN "processed" ELSE "processed"

\* The two updates of CompleteNotificationEvent.
AfterPublish(failed) == IF failed THEN "waiting" ELSE "processed"

\* CompleteNotificationEvent: the update may fail, and leaves the lease.
CompleteNotificationEvent(saved) ==
    /\ current # Idle
    /\ current.left = {}
    /\ current.sent = Idle
    /\ outbox' = IF saved /\ outbox[current.event] # "absent"
                 THEN [outbox EXCEPT ![current.event] = AfterPublish(current.failed)]
                 ELSE outbox
    /\ current' = Idle
    /\ UNCHANGED <<incident, channel, recorded, rested, received, batch, reminders>>

\* next_attempt_at passes, or processing_at is two minutes old.
BecomeReady(e) ==
    /\ outbox[e] \in {"waiting", "leased"}
    /\ outbox' = [outbox EXCEPT ![e] = "ready"]
    /\ UNCHANGED <<incident, channel, recorded, rested, received, notifier>>

-----------------------------------------------------------------------------
(* Reminders.                                                              *)

\* Mutant: the choice of the other kind of event is looked at.
DueReminders_OfResolved(i, h) ==
    /\ incident[i] = "open"
    /\ h \in Live
    /\ <<h, i, "resolved">> \in Routed
    /\ <<h, i>> \notin rested

\* Mutant: acknowledged incidents are brought back to mind too.
DueReminders_OfActive(i, h) ==
    /\ incident[i] \in {"open", "acknowledged"}
    /\ h \in Live
    /\ <<h, i, "opened">> \in Routed
    /\ <<h, i>> \notin rested

\* The WHERE clause of NotificationReminders.
DueReminders(i, h) ==
    /\ incident[i] = "open"
    /\ h \in Live
    /\ <<h, i, "opened">> \in Routed
    /\ <<h, i>> \notin rested

NotificationReminders ==
    /\ AtRest
    /\ reminders' = {x \in Channel \X Incident : DueReminders(x[2], x[1])}
    /\ UNCHANGED <<database, recorded, rested, received, batch, current>>

\* processReminders sends one of them and records the delivery, which counts
\* only if it is saved; a failed reminder is not repeated before the next read.
SendReminder(x, saved) ==
    /\ x \in reminders
    /\ saved => channel[x[1]] = "live" /\ incident[x[2]] # "deleted"
    /\ rested' = IF saved THEN rested \cup {x} ELSE rested
    /\ reminders' = reminders \ {x}
    /\ UNCHANGED <<database, recorded, received, batch, current>>

\* A day has passed since the last of them.
DayPasses(x) ==
    /\ x \in rested \cap Aging
    /\ rested' = rested \ {x}
    /\ UNCHANGED <<database, recorded, received, notifier>>

\* The server stops: what the goroutine knows is lost.
Restart ==
    /\ batch' = {}
    /\ current' = Idle
    /\ reminders' = {}
    /\ UNCHANGED <<database, recorded, rested, received>>

-----------------------------------------------------------------------------
Next ==
    \/ \E i \in Incident : OpenIncident(i)
    \/ \E i \in Incident : Acknowledge(i)
    \/ \E i \in Incident : ResolveIncident(i)
    \/ \E i \in Incident : DeleteIncident(i)
    \/ \E h \in Channel : CreateNotificationChannel(h)
    \/ \E h \in Channel : DeleteNotificationChannel(h)
    \/ ClaimNotificationEvents
    \/ \E e \in Event : TakeEvent(e)
    \/ \E e \in Event : TakeFails(e)
    \/ \E h \in Channel : Skip(h)
    \/ \E h \in Channel : SiteLookupFails(h)
    \/ \E h \in Channel, arrives, ok \in BOOLEAN : Send(h, arrives, ok)
    \/ \E saved \in BOOLEAN : RecordDelivery(saved)
    \/ \E saved \in BOOLEAN : CompleteNotificationEvent(saved)
    \/ \E e \in Event : BecomeReady(e)
    \/ NotificationReminders
    \/ \E x \in Channel \X Incident, saved \in BOOLEAN : SendReminder(x, saved)
    \/ \E x \in Channel \X Incident : DayPasses(x)
    \/ Restart

Spec == Init /\ [][Next]_vars

-----------------------------------------------------------------------------
(* Safety.                                                                 *)

\* Types of the variables.
TypeOK ==
    /\ incident \in [Incident -> {"none", "open", "acknowledged", "resolved", "deleted"}]
    /\ outbox \in [Event -> RowState]
    /\ channel \in [Channel -> {"unborn", "live", "deleted"}]
    /\ recorded \in SUBSET Delivery
    /\ rested \in SUBSET (Channel \X Incident)
    /\ received \in SUBSET Delivery
    /\ batch \in SUBSET Event
    /\ current \in Work \cup {Idle}
    /\ reminders \in SUBSET (Channel \X Incident)

\* A processed event has arrived at every channel it is routed to that has
\* existed all along and is for all sites: no crash, lost answer, failed update
\* or expired lease makes the outbox forget a channel.
ProcessedWasReceived ==
    \A e \in Event, h \in Lasting :
        outbox[e] = "processed" /\ <<h, e[1], e[2]>> \in Routed
            => <<h, e[1], e[2]>> \in received

\* All reminders are read first and sent one by one.  Whatever happens in
\* between, none goes to a channel that by its record has had the opening
\* message or a reminder of the incident within the last day.  And once an
\* incident has been acknowledged, resolved or deleted, no reminder of it is
\* taken up any more, so each channel gets at most the one read before.
RemindersBounded ==
    [][\A x \in Channel \X Incident :
         /\ (\E saved \in BOOLEAN : SendReminder(x, saved)) => x \notin rested
         /\ incident[x[2]] \in Over =>
              /\ incident'[x[2]] \in Over
              /\ x \in reminders' => x \in reminders]_vars

-----------------------------------------------------------------------------
(* Liveness.                                                               *)

\* What the goroutine does by itself, whatever comes of it.
NotifierSteps ==
    \/ \E e \in Event : TakeEvent(e) \/ TakeFails(e)
    \/ \E h \in Channel : Skip(h) \/ SiteLookupFails(h)
    \/ \E h \in Channel, arrives, ok \in BOOLEAN : Send(h, arrives, ok)
    \/ \E saved \in BOOLEAN : RecordDelivery(saved)
    \/ \E saved \in BOOLEAN : CompleteNotificationEvent(saved)
    \/ \E x \in Channel \X Incident, saved \in BOOLEAN : SendReminder(x, saved)

\* A read or an update of the notifier fails although nothing is missing.
DatabaseFails ==
    \/ \E e \in Event : TakeFails(e)
    \/ \E h \in Channel : SiteLookupFails(h)
    \/ \E h \in Channel, arrives, ok \in BOOLEAN :
         current # Idle /\ NotificationEventDelivered(h) /\ Send(h, arrives, ok)
    \/ CompleteNotificationEvent(FALSE) /\ ~CompleteNotificationEvent(TRUE)
    \/ /\ current # Idle /\ current.ok /\ current.sent \in Live
       /\ RecordDelivery(FALSE) /\ ~RecordDelivery(TRUE)

\* The goroutine runs and both of its tickers come round; leases and
\* postponements end; every channel works again and again, though never all
\* of them at the same time; restarts and database failures come to an end.
Fairness ==
    /\ WF_vars(NotifierSteps)
    /\ SF_vars(ClaimNotificationEvents)
    /\ SF_vars(NotificationReminders)
    /\ \A e \in Event : WF_vars(BecomeReady(e))
    /\ \A m \in Routed : SF_vars(/\ current # Idle
                                 /\ current.event = <<m[2], m[3]>>
                                 /\ Send(m[1], TRUE, TRUE))
    /\ \A x \in Aging : SF_vars(SendReminder(x, TRUE))
    /\ <>[][~Restart /\ ~DatabaseFails]_vars

FairSpec == Spec /\ Fairness

\* Reminders of an incident stop when it is acknowledged, resolved or deleted,
\* though not at once: those in hand are still sent.
RemindersStop ==
    \A i \in Incident :
        incident[i] \in Over ~> [](\A h \in Channel : <<h, i>> \notin reminders)

\* Every event is worked off in the end, also when the channels take turns at
\* failing: those that have had it are left out of the next attempt.
EventsSettle ==
    \A e \in Event : outbox[e] = "ready" ~> outbox[e] \in {"processed", "absent"}

\* An incident that stays open is brought back to mind day after day.
RemindersRepeat ==
    \A h \in Channel, i \in Incident :
        <>[](incident[i] = "open" /\ h \in Live /\ <<h, i, "opened">> \in Routed)
            => [](<<h, i>> \notin rested => <>(<<h, i>> \in rested))

-----------------------------------------------------------------------------
(* The outbox implements Announcements for the lasting channels.           *)

Announced(e) ==
    IF incident[e[1]] = "deleted" THEN "withdrawn"
    ELSE IF outbox[e] = "absent" THEN "none"
    ELSE IF outbox[e] = "processed" THEN "settled"
    ELSE "owed"

Promise == INSTANCE Announcements WITH
    Message   <- Event,
    Recipient <- Channel,
    Audience  <- [e \in Event |-> {h \in Channel : <<h, e[1], e[2]>> \in Routed}],
    status    <- [e \in Event |-> Announced(e)],
    staying   <- Lasting,
    received  <- [e \in Event |-> {h \in Channel : <<h, e[1], e[2]>> \in received}]

\* Nobody hears of an incident before it is announced; an event is processed
\* once and stays processed, whatever leases, retries, crashes and failing
\* updates come between; and then every lasting channel has had it.
KeepsPromise == Promise!Spec
=============================================================================
