---------------------------- MODULE ConfigBackup ----------------------------
(***************************************************************************)
(* Configuration backups: profiles that fall due, the goroutines that ask  *)
(* a device for its configuration over SSH, the version history, and the   *)
(* incident that a changed version opens.                                  *)
(*                                                                         *)
(* Captures of one device overlap: operators ask for one at any time, the  *)
(* 60 seconds of capture() end with the dialling, and what was fetched     *)
(* first may be saved last.  SaveConfigSnapshot is a transaction under     *)
(* READ COMMITTED: a version carries the time its transaction began, and   *)
(* is compared with the newest one at the time of its first query.         *)
(***************************************************************************)
EXTENDS FiniteSets

CONSTANTS
    Device,     \* device identifiers
    Text,       \* configurations, told apart by their hash
    Capture,    \* bound: captures under way that will still end
    Swept,      \* bound: devices below a parent that may fail
    Deletable,  \* bound: devices operators may delete
    NoText,     \* no version yet, or none fetched
    Refusal,    \* the device answers with an error
    Idle        \* a capture slot that is free

ASSUME TextAssumption == NoText \notin Text /\ Refusal \notin Text

ASSUME CaptureAssumption == Text \cap Capture = {}

VARIABLES
    live,       \* devices with a row
    config,     \* what the backup command would answer
    profiles,   \* devices with a row in config_backup_profiles
    due,        \* those with next_run_at <= now()
    erring,     \* those whose last_error is not empty
    snapshots,  \* config_snapshots of each device
    newer,      \* the order of captured_at, for rows and open transactions
    incident,   \* devices with an active incident of source config
    task        \* what each capture goroutine is doing

plans == <<profiles, due, erring>>
history == <<snapshots, newer>>
vars == <<live, config, plans, history, incident, task>>

-----------------------------------------------------------------------------
Stage == {"fetching", "fetched", "begun", "compared", "failed"}

\* A profile in the hands of a goroutine; row says that its row still exists.
Task == [device : Device, stage : Stage, row : BOOLEAN,
         text : Text \cup {NoText}, previous : Text \cup {NoText}]

ASSUME IdleAssumption == Idle \notin Task

Busy(k) == task[k] # Idle
At(k, stage) == Busy(k) /\ task[k].stage = stage
DeviceOf(k) == task[k].device

\* Mutant: captured_at is kept to the second, and transactions share one.
Open_SameSecond(d) == {k \in Capture : FALSE}

\* Transactions of SaveConfigSnapshot that are open on d.
Open(d) == {k \in Capture : Busy(k) /\ DeviceOf(k) = d /\ task[k].stage \in {"begun", "compared"}}

\* ORDER BY captured_at DESC LIMIT 1, over the rows that are committed.
Newest(d) == {t \in snapshots[d] : \A u \in snapshots[d] \ {t} : <<u, t>> \in newer[d]}

Init ==
    /\ live = Device
    /\ config \in [Device -> Text \cup {Refusal}]
    /\ profiles = {}
    /\ due = {}
    /\ erring = {}
    /\ snapshots = [d \in Device |-> {}]
    /\ newer = [d \in Device |-> {}]
    /\ incident = {}
    /\ task = [k \in Capture |-> Idle]

-----------------------------------------------------------------------------
(* Profiles.                                                               *)

\* Store.CreateConfigProfile: a second one for the device overwrites the first
\* and is due at once; last_error stays.
CreateConfigProfile(d) ==
    /\ d \in live
    /\ profiles' = profiles \cup {d}
    /\ due' = due \cup {d}
    /\ UNCHANGED <<live, config, erring, history, incident, task>>

\* The row is gone for the goroutines that hold a copy of it.
Orphaned(d) == [k \in Capture |-> IF Busy(k) /\ DeviceOf(k) = d
                                  THEN [task[k] EXCEPT !.row = FALSE] ELSE task[k]]

DeleteConfigProfile(d) ==
    /\ d \in profiles
    /\ profiles' = profiles \ {d}
    /\ due' = due \ {d}
    /\ erring' = erring \ {d}
    /\ task' = Orphaned(d)
    /\ UNCHANGED <<live, config, history, incident>>

\* Store.TriggerConfigBackup, or the end of the interval.
TriggerConfigBackup(d) ==
    /\ d \in profiles \ due
    /\ due' = due \cup {d}
    /\ UNCHANGED <<live, config, profiles, erring, history, incident, task>>

-----------------------------------------------------------------------------
(* The engine.                                                             *)

\* Store.ClaimConfigBackup moves next_run_at before the capture has begun.
ClaimConfigBackup(k, d) ==
    /\ ~Busy(k)
    /\ d \in due
    /\ due' = due \ {d}
    /\ task' = [task EXCEPT ![k] = [device |-> d, stage |-> "fetching", row |-> TRUE,
                                    text |-> NoText, previous |-> NoText]]
    /\ UNCHANGED <<live, config, profiles, erring, history, incident>>

\* Engine.fetch: what the device answers while it is asked.
Fetched(k) == config[DeviceOf(k)]

Fetch(k) ==
    /\ At(k, "fetching")
    /\ task' = [task EXCEPT ![k].stage = IF Fetched(k) \in Text THEN "fetched" ELSE "failed",
                            ![k].text = IF Fetched(k) \in Text THEN Fetched(k) ELSE NoText]
    /\ UNCHANGED <<live, config, plans, history, incident>>

\* The secret, the network or the host key stands in the way.
FetchFails(k) ==
    /\ At(k, "fetching")
    /\ task' = [task EXCEPT ![k].stage = "failed"]
    /\ UNCHANGED <<live, config, plans, history, incident>>

\* The device accepts the connection and falls silent: nothing ends the
\* dialogue, and the goroutine stays for ever, in addition to those of Capture.
FetchHangs(k) ==
    /\ At(k, "fetching")
    /\ task' = [task EXCEPT ![k] = Idle]
    /\ UNCHANGED <<live, config, plans, history, incident>>

-----------------------------------------------------------------------------
(* Store.SaveConfigSnapshot.                                               *)

\* BEGIN: now() is this moment until the end.
SaveBegins(k) ==
    /\ At(k, "fetched")
    /\ newer' = [newer EXCEPT ![DeviceOf(k)] =
                    @ \cup ((snapshots[DeviceOf(k)] \cup Open(DeviceOf(k))) \X {k})]
    /\ task' = [task EXCEPT ![k].stage = "begun"]
    /\ UNCHANGED <<live, config, plans, snapshots, incident>>

\* Mutant: the newest version is looked up after the insert.
SaveCompares_AfterInsert(k) ==
    /\ At(k, "begun")
    /\ task' = [task EXCEPT ![k].stage = "compared", ![k].previous = task[k].text]
    /\ UNCHANGED <<live, config, plans, history, incident>>

\* Its first query; without a row, previous stays empty.
SaveCompares(k) ==
    /\ At(k, "begun")
    /\ \E p \in IF snapshots[DeviceOf(k)] = {} THEN {NoText} ELSE Newest(DeviceOf(k)) :
         task' = [task EXCEPT ![k].stage = "compared", ![k].previous = p]
    /\ UNCHANGED <<live, config, plans, history, incident>>

\* Mutant: the first version counts as a change.
Changed_FromNothing(k) == task[k].previous # task[k].text

\* The condition of the incident.
Changed(k) == task[k].previous # NoText /\ task[k].previous # task[k].text

\* Mutant: a version that was there before keeps its old place.
Placed_KeepsOld(order, k, t) ==
    IF \E q \in order : t \in {q[1], q[2]} THEN {q \in order : k \notin {q[1], q[2]}}
    ELSE {<<IF p[1] = k THEN t ELSE p[1], IF p[2] = k THEN t ELSE p[2]>> : p \in order}

\* A row the transaction inserts, or whose captured_at it sets again, takes
\* the place of the transaction in the order of time.
Placed(order, k, t) ==
    LET name(x) == IF x = k THEN t ELSE x
    IN {<<name(p[1]), name(p[2])>> : p \in {q \in order : t \notin {q[1], q[2]}}}

Withdrawn(order, gone) == {p \in order : p[1] \notin gone /\ p[2] \notin gone}

\* UPDATE config_backup_profiles ... last_error=''.
Cleared(d) == erring \ {d}

\* The rest of it, up to the commit: version, profile and incident together.
SaveCommits(k) ==
    LET d == DeviceOf(k) IN
    /\ At(k, "compared")
    /\ d \in live
    /\ snapshots' = [snapshots EXCEPT ![d] = @ \cup {task[k].text}]
    /\ newer' = [newer EXCEPT ![d] = Placed(@, k, task[k].text)]
    /\ erring' = IF task[k].row THEN Cleared(d) ELSE erring
    /\ incident' = IF Changed(k) THEN incident \cup {d} ELSE incident
    /\ task' = [task EXCEPT ![k] = Idle]
    /\ UNCHANGED <<live, config, profiles, due>>

\* An error anywhere, always when the device has been deleted: rolled back.
SaveFails(k) ==
    /\ \E stage \in {"fetched", "begun", "compared"} : At(k, stage)
    /\ newer' = [newer EXCEPT ![DeviceOf(k)] = Withdrawn(@, {k})]
    /\ task' = [task EXCEPT ![k].stage = "failed", ![k].text = NoText, ![k].previous = NoText]
    /\ UNCHANGED <<live, config, plans, snapshots, incident>>

\* Mutant: the message is only logged.
Reported_Never(k) == {}

\* Mutant: the error is kept by device, whether the profile exists or not.
Reported_ByDevice(k) == {DeviceOf(k)}

\* UPDATE config_backup_profiles ... last_error=$2, if the row still exists.
Reported(k) == IF task[k].row THEN {DeviceOf(k)} ELSE {}

\* Store.ConfigBackupFailed; nobody learns that the update failed.
ConfigBackupFailed(k, saved) ==
    /\ At(k, "failed")
    /\ erring' = IF saved THEN erring \cup Reported(k) ELSE erring
    /\ task' = [task EXCEPT ![k] = Idle]
    /\ UNCHANGED <<live, config, profiles, due, history, incident>>

\* The server stops: captures are lost, and their profiles wait an interval.
Restart ==
    /\ task' = [k \in Capture |-> Idle]
    /\ newer' = [d \in Device |-> Withdrawn(newer[d], Capture)]
    /\ UNCHANGED <<live, config, plans, snapshots, incident>>

-----------------------------------------------------------------------------
(* The rest of the system.                                                 *)

\* A result is recorded while the parent of d fails: the only way, besides
\* deletion, that an incident of source config ends.
Sweep(d) ==
    /\ d \in Swept
    /\ d \in incident
    /\ incident' = incident \ {d}
    /\ UNCHANGED <<live, config, plans, history, task>>

\* Store.DeleteDevice: profile, versions and incident go with it.
DeleteDevice(d) ==
    /\ d \in live \cap Deletable
    /\ live' = live \ {d}
    /\ profiles' = profiles \ {d}
    /\ due' = due \ {d}
    /\ erring' = erring \ {d}
    /\ snapshots' = [snapshots EXCEPT ![d] = {}]
    /\ newer' = [newer EXCEPT ![d] = Withdrawn(@, Text)]
    /\ incident' = incident \ {d}
    /\ task' = Orphaned(d)
    /\ UNCHANGED config

\* Somebody works on the device.
Reconfigure(d, answer) ==
    /\ config[d] # answer
    /\ config' = [config EXCEPT ![d] = answer]
    /\ UNCHANGED <<live, plans, history, incident, task>>

-----------------------------------------------------------------------------
Next ==
    \/ \E d \in Device : CreateConfigProfile(d)
    \/ \E d \in Device : DeleteConfigProfile(d)
    \/ \E d \in Device : TriggerConfigBackup(d)
    \/ \E k \in Capture, d \in Device : ClaimConfigBackup(k, d)
    \/ \E k \in Capture : Fetch(k)
    \/ \E k \in Capture : FetchFails(k)
    \/ \E k \in Capture : FetchHangs(k)
    \/ \E k \in Capture : SaveBegins(k)
    \/ \E k \in Capture : SaveCompares(k)
    \/ \E k \in Capture : SaveCommits(k)
    \/ \E k \in Capture : SaveFails(k)
    \/ \E k \in Capture, saved \in BOOLEAN : ConfigBackupFailed(k, saved)
    \/ Restart
    \/ \E d \in Device : Sweep(d)
    \/ \E d \in Device : DeleteDevice(d)
    \/ \E d \in Device, answer \in Text \cup {Refusal} : Reconfigure(d, answer)

Spec == Init /\ [][Next]_vars

-----------------------------------------------------------------------------
(* Safety.                                                                 *)

\* Types of the variables.
TypeOK ==
    /\ live \in SUBSET Device
    /\ config \in [Device -> Text \cup {Refusal}]
    /\ profiles \in SUBSET Device
    /\ due \in SUBSET profiles
    /\ erring \in SUBSET profiles
    /\ snapshots \in [Device -> SUBSET Text]
    /\ newer \in [Device -> SUBSET ((Text \cup Capture) \X (Text \cup Capture))]
    /\ incident \in SUBSET Device
    /\ task \in [Capture -> Task \cup {Idle}]

\* An incident "Configuration changed" always has two versions to compare,
\* and never outlives its device: neither the first capture nor the same
\* configuration captured twice at the same time opens one.
IncidentHasVersions ==
    \A d \in incident : d \in live /\ \E t, u \in snapshots[d] : t # u

\* At any time one version is the newest, in whatever order transactions
\* begin, commit and come back to an earlier configuration.
OneNewest ==
    \A d \in Device : snapshots[d] # {} => \E t \in snapshots[d] : Newest(d) = {t}

-----------------------------------------------------------------------------
(* Liveness.                                                               *)

\* One capture goes on, whatever comes of it; from each stage one success.
Proceeds(k) ==
    \/ Fetch(k) \/ FetchFails(k) \/ FetchHangs(k)
    \/ SaveBegins(k) \/ SaveCompares(k) \/ SaveCommits(k) \/ SaveFails(k)
    \/ \E saved \in BOOLEAN : ConfigBackupFailed(k, saved)

Succeeds(d, stage) ==
    \E k \in Capture :
        /\ At(k, stage)
        /\ DeviceOf(k) = d
        /\ task[k].row
        /\ Fetch(k) \/ SaveBegins(k) \/ SaveCompares(k) \/ SaveCommits(k) \/ ConfigBackupFailed(k, TRUE)

\* The interval passes; ClaimConfigBackup takes what has been due longest; a
\* fetch that does not hang and each statement come to an end.  Captures may
\* hang or fail and the server restart without end, but not at every attempt.
Fairness ==
    /\ \A k \in Capture : WF_vars(Proceeds(k))
    /\ \A d \in Device :
         /\ WF_vars(TriggerConfigBackup(d))
         /\ SF_vars(\E k \in Capture : ClaimConfigBackup(k, d))
         /\ \A stage \in Stage : SF_vars(Succeeds(d, stage))

FairSpec == Spec /\ Fairness

\* A configuration that lasts is the newest version in the end and stays it:
\* whatever a late capture of an older one has put on top is corrected.
NewestConverges ==
    \A d \in Device, t \in Text :
        <>[](d \in profiles /\ config[d] = t) => <>[](Newest(d) = {t})

\* A device that refuses for good is shown with an error again and again: a
\* late success of an earlier capture clears it only until the next attempt.
RefusalShows ==
    \A d \in Device :
        <>[](d \in profiles /\ config[d] = Refusal) => <>[](d \in erring)

\* No capture of d is under way.
Quiet(d) == \A k \in Capture : Busy(k) => DeviceOf(k) # d

\* A change that lasts opens an incident when none of its device is active,
\* although operators, failing parents and restarts interfere: what matters is
\* that no capture is under way when it happens.  When an incident of an earlier
\* change is still active nothing is opened, and nobody is told of the new one:
\* there is one incident of source config for each device, and only the sweep
\* and deletion end it.
LastingChangeIsTold ==
    \A d \in Device, u \in Text :
        []((/\ Newest(d) \notin {{}, {u}} /\ Quiet(d) /\ d \notin incident
            /\ [](d \in profiles /\ config[d] = u))
           => <>(d \in incident))
=============================================================================
