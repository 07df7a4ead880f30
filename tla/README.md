# GoLive NMS: TLA+ models and proofs

GoLive NMS watches devices of several sites: a server runs checks, takes
reports from Monit and from its own agents, keeps incidents in PostgreSQL,
notifies people and, where it is allowed to, lets agents run a signed remedy.
This directory holds TLA+ models of the parts whose correctness depends on the
order of events, TLC configurations that check small instances of them, and
proofs that TLAPS checks for every instance.

Paths below are relative to the repository.

## 1. The system and its parts

All lasting state is in one PostgreSQL database.  The server
(`cmd/golive`) is one process with many goroutines; collectors
(`cmd/golive-collector`) and agents (`cmd/golive-agent`) are processes on
other machines which poll it over mutual TLS.

| Component | State | Operations | Who it works with | What is hard | What makes it correct |
|---|---|---|---|---|---|
| Device health (`internal/store/store.go:124`) | `devices.status` | two recalculation statements, of a device and of its descendants | executed by every writer of checks, Monit services and agent rows | the recursive UPDATE reads the table as it was when it began | the stored status misleads only where transactions overlap, and the next result mends it |
| Inventory (`store.go:151-246`) | `devices`, `parent_id`, `checks` | create, move and delete devices, create checks | deletion cascades to checks, incidents, windows, reports | moves and deletions under executing checks | the parents form a forest, rows refer to rows that exist |
| Check engine (`internal/monitor/engine.go`) | `checks.status`, `next_run_at`; up to twenty new executions a second, in memory | claim, probe, record | health, incidents, remediation | executions of one check overlap, values read at the claim are used a minute later, restarts | incident iff the last result failed, alerts arrive |
| Incidents (`store.go:284-359`) | `incidents.state` | open, acknowledge, resolve, sweep | written by results, Monit and backups; a trigger feeds the outbox | a late result after an acknowledgement or recovery | one active incident, acknowledged stays acknowledged |
| Remote collector (`cmd/golive-collector`, `internal/api/collector.go`) | `next`, one cycle; `last_seen_at` at the server | fetch, execute, post | the centre takes its checks over after two silent minutes | late posts, revocation, stale claims | failures are noticed whoever watches |
| Monit and agent reports (`internal/store/monit.go`, `store.go:385`) | `monit_hosts`, `monit_services`, `agent_reports` | replace, insert, event | health, incidents of source `monit` | reports of devices nobody created; incidents opened without regard to parent and window | status follows the report |
| Maintenance windows (`internal/store/maintenance.go`) | `maintenance_windows` | create, delete, time | read at the claim | the flag is stale at the record | no alarms in a window |
| Notification outbox (`internal/notifier`, `internal/store/notifications.go`) | `notification_events`, `notification_deliveries`, channels | trigger, claim with lease, publish, record, complete, remind | incidents; mail and chat servers | crash between sending and recording, lost answers, ignored errors | every channel gets every event, reminders recur and stop |
| Remediation (`internal/store/remediation.go`, `cmd/golive-agent/actions.go`) | `remediation_jobs`, templates, kill switch; the agent's action | queue, cool down, claim, execute, complete, expire | check engine, agents | request, switch, claim and start are separate steps; lost responses | started once, only while running, history true |
| Database connections (`pgxpool`) | the pool | take and give back | everything | rows kept open while a nested statement waits | checks go on being claimed |
| Configuration backups (`internal/configbackup`, `internal/store/configbackup.go`) | `config_backup_profiles`, `config_snapshots`; captures in memory | claim, fetch over SSH, save in a transaction, report an error | incidents, health (the sweep) | captures overlap and end in any order, a restart loses them, a fetch may hang | the newest version is what the device has, changes are told |
| Accounts, sessions, tokens (`internal/store/auth.go`, `internal/app/app.go`) | `users`, `sessions`, `api_tokens` | bootstrap, log in, sign on, log out, create, edit and delete accounts, prune | every request of the API | count, role and write are separate statements | an administrator remains, sessions end |
| Devices and sites (`store.go:151-214`, `internal/store/sites.go`) | `sites`, `site_id`, `parent_id` | create, move, delete | inventory, scopes | three reads and a write without locks, beside other requests | no cycle, parents and children in one site |
| Enrollment (`internal/pki`, `internal/api/enrollment.go`, the two programs) | tokens, identities, authority; three files on each host | create a token, redeem it, issue, save, revoke, restart | collector and agents | the token is consumed first; crashes between files; an authority that is not stored | one identity for each token, hosts report in the end |
| Event stream | buffered channels | publish, drop | browsers | full buffers | not modelled: an event only makes a browser read everything again |
| Monit control, syslog and traps, role scopes, vault, HTTP layer, migrations, metrics, admin tool, web | | | | | not modelled: independent inserts, filters, encodings, pure input and output |

`PROJECT.json` repeats the list with the files of each part and its status,
and lists the hazards, each at its line with the properties that cover it.

## 2. The modules

| Module | Models | Used by |
|---|---|---|
| `DeviceHealth` | the CASE expression and the two recalculation statements, as operators on the devices table; `Descendants`, `AncestorsOf` for the two recursive queries | `Monitoring` |
| `DeviceHealthProofs` | lemmas about those operators | `MonitoringProofs` |
| `Monitoring` | inventory, check engine, incidents, collector, reports, windows | `MCMonitoring`, `MonitoringProofs` |
| `IncidentBook` | what the list of incidents promises: opened by failures in the open, ended by recovery, suppression or removal only | `Monitoring` implements it |
| `Notifications` | outbox, notifier goroutine, channels, reminders | `MCNotifications`, `NotificationsProofs` |
| `Announcements` | what an outbox promises: announced, arrived, settled, withdrawn | `Notifications` implements it |
| `Remediation` | requests, kill switch, jobs, agent, retention | its run, `RemediationProofs` |
| `JobLife` | what the list of jobs promises: taken up once, started only while running, ended for good | `Remediation` implements it |
| `ConnectionPool` | who keeps a connection while asking for another | its runs, `RemediationProofs` |
| `ConfigBackup` | profiles, captures, version history and incident of a changed configuration | its run, `ConfigBackupProofs` |
| `Accounts` | accounts, sessions, tokens, administrators' requests statement by statement | its run, `AccountsProofs` |
| `DeviceTree` | sites and parents under concurrent requests, statement by statement, on the operators of `DeviceHealth` | its run, `DeviceTreeProofs` |
| `Enrollment` | tokens, requests, authority, files and programs | its run, `EnrollmentProofs` |

`MCMonitoring` and `MCNotifications` only define constants for TLC.
`PROJECT.json`, "map", names the lines each definition stands for.

### Monitoring

A row of a table is a value of a function: `dstatus[d]` is the status column,
or `"unborn"` before and `"deleted"` after the row exists; identifiers are not
reused, as in the database.  An action is one transaction, or one step of a
goroutine between two.  What matters is what survives between them: `claim[w]`
is a `DueCheck` in the hands of a goroutine, with the check's status, the
parent's condition and the maintenance flag *as they were when it was claimed*;
`cycle` are the assignments the collector process has fetched at once, `job` is
the result it is at.

The transactions that recalculate (`RecordResult`, `RecordMonit`, `SyncMonit`,
`RecordAgentReport`) are two actions each, for under READ COMMITTED every
statement sees what others have committed until then, and never what they have
not.  `BeginRecord`, `BeginMonit` and `BeginAgent` take a reading of the rows
(`tx[w]`, `report[r]`) and of what the result does to its check's incident
(`entry`); `RecordResult`, `MonitReport` and `AgentReport` write and commit, and
a transaction may be rolled back instead.  Others begin and commit in between.
The status a recalculation arrives at is any of `Recalculated`: of each device
it may have seen the rows of the beginning or those of the end, always with its
own, and likewise the parent's condition.  Two results of one device can each
miss the other, as in the code, and `OnlyOverlapsMislead` says what follows from
that.

- Locks are kept: two results of one check wait for each other at its row, two
  reports of one Monit at its host's, and a deletion waits for the
  transactions of its device.  The agent's UPDATE of the address locks its
  device before anything is read, so only what it reads of other devices gets
  old.  When an UPDATE finds a row that another transaction has changed since it
  began, it looks at that row again, but not at the subqueries: those keep what
  they have seen, which is why a reading may be old.
- Between the beginning and the end of one transaction a row counts as changed
  or unchanged: one that changes twice meanwhile is seen as it was first or last.
  The second recalculation, the sweep of suppressed incidents and the commit are
  one step.
- The request for remediation that follows a failing result is the condition
  `AsksForRepair`, judged by the claim as in the code; what comes of it is
  `Remediation`.
- A probe (`Probe`) is one step with the outcome `target[check]`, which the
  environment turns at will.
- One site and one collector identity.  `CollectorPost` starts a request
  goroutine (a worker) that has read the check and goes on to `BeginRecord`.
- Operators move one device at a time; `DeviceTree` is about several.

`KeepsIncidentBook` is the refinement: `IncidentBook` knows of a check its last
recorded result (`verdict`), its incident, and whether it is `hidden` below a
failing parent.  Claims, probes, the collector, restarts and windows are
stutters there; moves and reports only hide and uncover.  Two things are hard in it:
that an incident never ends while its check is down and in the open, and
that no result hides its own check.  Incidents of Monit services are not in the book, for they
heed no parent.

### Notifications

A row of `notification_events` is `ready`, `leased`, `waiting` (for
`next_attempt_at`) or `processed`.  The one notifier goroutine works off
`batch`; `current` is what `Publish` knows of the event in hand.  Sending and
recording are separate steps with a possible restart in between; a message may
arrive although sending reports an error.  `NotificationEventDelivered`,
`DeviceBelongsToSite`, `RecordDelivery` and `CompleteNotificationEvent` may each
fail without their caller noticing, as in the code.  `rested` stands for the
rows of the last 24 hours in the query for reminders.  `reminders` are those
read and not yet sent, which nothing but the sending and a restart takes away: an
incident acknowledged meanwhile is still brought back to mind, to each channel
once.  At most fifty events (one batch) are ready at a time.

`KeepsPromise` is the refinement: `Announcements` knows an event as `owed`
from the trigger on, as `settled` once its row is processed, and as `withdrawn`
when the incident has been deleted; its recipients are `Lasting`, the channels
for all sites that have existed all along.  Claims, leases, retries, records, restarts and failing
statements are stutters there.  A channel that is removed `Leave`s, and a
message may still arrive at it.

### Remediation

A request (`request[r]`) is a goroutine or an HTTP handler between the
statements of `QueueRemediation`: setting, cooldown, insert.  The kill switch
is two statements, the second of which may fail unnoticed (one such request at
a time).  `recent` is the
ten-minute cooldown, `age` passes five and ten minutes; the clocks of agent and
server are taken to agree within five minutes.  Deleting a device, and old
jobs, is left out.  An executable whose children keep its output open may
outlive its timeout; `ActionEnds` takes the timeout at its word.

`KeepsJobLife` is the refinement: `JobLife` knows of a job only what the table
shows (`absent` before its row) and whether an executable has been started for
it.  Requests, cooldowns, clocks, agents and lost messages are stutters there.  The kill
switch calls off all that is queued in one step, and retention expires any set of
running jobs.

### ConnectionPool

A statement that takes a connection and returns it is one step; a task keeps
one only between `Query` and the end of its rows.

### ConfigBackup

`task[k]` is a capture goroutine and the stage it is at; `profiles`, `due` and
`erring` are the columns of a profile.  Versions are told apart by their hash,
the table's key, so a device's history is a set `snapshots[d]` with the order
`newer[d]` of `captured_at`; since `now()` is the beginning of the transaction,
an open transaction has its place in that order before it commits, and a row
that is inserted or updated takes that place (`Placed`).  `Newest` is the query
of line 99.  The 60-second timeout covers only the dialling: `FetchHangs`
leaves a goroutine behind for ever, which then plays no further part and frees
its slot.  `Swept` stands for results recorded while a device's parent fails.

A profile's device has one incident of source `config` at most
(`incidents_one_active_source`), which no request resolves: only a failing
parent's sweep and deletion end it.  While it is active a further change inserts
nothing and nobody is told, so `LastingChangeIsTold` is about a change that
finds no active incident.

Two transactions that commit different versions of one device do not block
each other; two that insert the *same* hash do, on the unique index.  That is
a wait inside the step `SaveCommits`, whose order is that of the commits.

### Accounts

`role[u]` and `active` are a row of `users`; an email is never removed from the
table.  `request[k]` is `DeleteUser` or `UpdateUser` between its statements, or
a sign-in (`Login`, `SignOn`) whose session is still to be created: the account
may be deleted in between.
`raced` is a history variable: another request has changed who is an
administrator since this one judged.  It is what lets `AdministratorRemains`
and `StartSurvives` say precisely when the last administrator goes: never by
one request after the other, only by requests that overlap.  Managers and site
managers are one role, for nothing here tells them apart; a password is what
`Login` does not mention.

### DeviceTree

`UpdateDevice` reads the children, the parent and the ancestors in three
statements and writes in a fourth; `DeleteSite` counts and deletes.  `raced`
says that another request has *placed* a device (in the site, for a deletion)
since the request began.  Deletions of devices do not count as a race, and the
proofs show why they need not.  `ReadAncestors` is not enabled when there is a
cycle above: the recursive query of the code does not end then.

### Enrollment

Key, certificate and the row of `enrolled_identities` are one name; `identity[c]`
says which authority signed, and is `"void"` when it is of no use any more:
revoked, or signed by an authority that went with an earlier server.  `made[t]` counts the
certificates a token has made.  Names of tokens and keys are given again once
nobody holds them, which keeps the model finite while hosts enroll again and
again.  The three files are written in any order, each torn by a crash.
A token from before may still be in the environment file after a restart; the
program then enrolls anew, in vain, and exits, even if its files are good
(`cmd/golive-agent/main.go:52`): only the operator's `RemoveToken` or a fresh
token helps.

## 3. Runs

| Run | Instance | Distinct states | Shows |
|---|---|---|---|
| `monitoring_inventory` | 3 devices placed in chains of up to three and in either order of `core` and `host`; `core` is deletable and has a check, a Monit daemon with one service and an agent, whose three transactions overlap | 361 708 | `TypeOK`, `OnlyOverlapsMislead`, `ResultReachesChildren`, `KeepsIncidentBook` |
| `monitoring_collector` | 1 device, 1 check, the centre and the collector, 2 workers, windows | 122 604 | `IncidentImpliesDown`, `RepairHasIncident`, `AcknowledgementLasts`, `RecoveryResolves` |
| `monitoring_recovery` | a chain of 3 devices, checks at both ends, 1 worker | 6 960 | `ResultSweepsSuppressed`, `FailureAlerts`, `OutageReachesDescendants` |
| `notifications_outbox` | 1 incident, a lasting channel and one that is created late, for one site, told of failures only and removed | 40 189 | `ProcessedWasReceived`, `RemindersBounded`, `RemindersStop`, `EventsSettle`, `RemindersRepeat`, `KeepsPromise` |
| `remediation` | 2 templates, one of them for failing checks, 1 agent, 1 request at a time, 2 jobs | 492 384 | `HistoryIsTrue`, `StartsOnlyRunning`, `StartsOnce`, `KeepsJobLife`, `RunningJobsEnd`, `QueuedJobsMove` |
| `connection_pool` | 3 connections, 2 goroutines, 2 collectors | 768 | `DueChecksAreClaimed` |
| `config_backups` | 1 device with two configurations and a refusal, 2 captures, deletions, sweeps | 74 340 | `TypeOK`, `IncidentHasVersions`, `OneNewest`, `NewestConverges`, `RefusalShows`, `LastingChangeIsTold` |
| `accounts` | 2 accounts, one by bootstrap, one also by single sign-on, 1 session, 1 token, 2 requests | 274 074 | `AdministratorRemains`, `StartSurvives`, `SessionsEnd` |
| `device_tree` | 2 devices, 2 sites, 2 requests | 37 172 | `TreeRemains`, `SitesAgree`, `SiteRemains` |
| `enrollment` | 1 host, 1 token at a time, 3 keys | 23 059 | `OneIdentityPerToken`, `HeldIsKnown`, `RunningCanRestart`, `HostsReport` |

Every property has a mutant: a plausible mistake in one definition under which
the run finds the property violated.  `TypeOK` of `Accounts`, `ConnectionPool`,
`DeviceTree`, `Enrollment`, `Notifications` and `Remediation`, and `Forest` of `Monitoring`, are proved for
every instance (section 5) and have no run.

Why the bounds are enough.  The recalculations reach a device, its children
and, a level further, what they miss: three devices have all three.  A check, a
Monit daemon and an agent on one device are one writer of each kind, so every
pair of them overlaps.  Two
workers give every order in which two results of one check can be claimed and
recorded; more executions add repetitions.  Two channels are needed for one to
fail while the other succeeds.  Two jobs of one template are one that is over and one
that is active, all the unique index allows; two of different templates wait
in one queue, where a job that cannot be taken up stands before one that can.
Requests that overlap at the cooldown need two requesters, which with two
templates is more than this run can hold; the proofs cover them.  Two captures and two configurations give
every order of begin, comparison and commit, and the return to an earlier
version; two requests are what it takes to overtake one, two devices to close a
cycle.  Three keys are one on the disk of a host, one of an attempt that died
and one of the attempt under way.  The invariants that are proved hold without
bounds anyway.

### Fairness

- *Monitoring.*  Checks become due as time passes; `ClaimDue` orders by
  `next_run_at`, so a check that is due again and again is taken in the end
  (strong fairness); a probe ends within its timeout, and every
  transaction in a commit or a rollback.  Restarts and database
  errors may recur for ever, but not at every attempt of one check.  Nothing is
  assumed of operators, the collector or the monitored services, except through
  `Steady`: the collector process must be quiet for good for the centre to be
  responsible.  A collector that polls but never delivers keeps the centre
  away for ever; that is so in the code, and excluded.
- *Notifications.*  The goroutine runs and its tickers come round; each channel
  works infinitely often, though never necessarily two at a time; restarts and
  failures of the notifier's own statements come to an end.
- *Remediation.*  The agent polls, its executable ends, the daily retention
  job comes round.  Agents may fail without end.
- *ConnectionPool.*  `pgxpool` serves waiters in their order (strong fairness);
  clients give up after 30 seconds.
- *ConfigBackup.*  Intervals pass; `ClaimConfigBackup` orders by `next_run_at`
  (strong fairness); every stage of a capture comes to an end, and of infinitely
  many attempts at one stage some succeed.  Nothing is assumed of operators,
  devices or the sweep.
- *Accounts.*  Sessions expire; the server is started again when it is down
  (weak fairness), and the daily job runs on a server that is up again and again
  (strong fairness).
- *Enrollment.*  The operator answers a host that does not report with a new
  token, once its last attempt is over; `systemd` restarts programs; of infinitely
  many attempts at one step some succeed while the certificate is valid.
  Crashes, restarts, revocations and lost answers may recur without end.  Without
  the operator nothing helps: the code never renews a certificate, whose life is
  one year.

## 4. Where the code does not do what is said of it

Each is a run that TLC ends with a counterexample.

- `finding_pool_deadlock`: `QueueAutomaticRemediation` keeps its rows open while
  `QueueRemediation` asks for another connection, under `context.Background()`
  (`remediation.go:143`).  As many checks failing together as the pool has
  connections exhaust it for good; no check is claimed after that.  With one
  connection more than such goroutines the property holds
  (`connection_pool`).
- `finding_stuck_dependency`: `DeleteDevice` (and `UpdateDevice`) detaches
  children without recalculating them (`store.go:209`).  A child without checks
  of its own stays `dependency`, and failures below it never open an incident.

Met while modelling, without a run of their own:

- a result reaches direct children only; grandchildren follow with later
  results (`store.go:130`, `docs/configuration-examples.md:21`);
  `OutageReachesDescendants` is therefore a liveness property;
- the maintenance flag is that of the claim (`store.go:309`, `store.go:342`), and
  Monit incidents ignore windows (`monit.go:118`,
  `docs/configuration-examples.md:62`);
- results and reports of one device that overlap leave a status that neither
  implies, until the next result that is not overtaken (`store.go:348`);
  `OnlyOverlapsMislead` holds;
- a reminder may go out after its incident was acknowledged or resolved, to each
  channel once at most (`notifier.go:72`; `README.md:79`, `README.md:168` and
  `INSTALL.md:314` say that reminders stop); `RemindersBounded` and
  `RemindersStop` hold;
- a configuration that changes while the incident of an earlier change is active
  opens nothing and is not told (`configbackup.go:111`, `README.md:178`), and no
  request resolves such an incident (`api.go:97`);
- two requests may both pass the cooldown; the unique index only delays the
  second to the end of the first (`remediation.go:120`);
- a request that has read the setting queues its job after the kill switch has
  emptied the queue (`remediation.go:112`), where it waits;
- messages of one incident may arrive out of order; no order is promised;
- a Monit event opens an incident below a failed parent (`monit.go:118`), and
  the next result of any device resolves it, with a recovery message;
- `DeviceBelongsToSite` answers *no* when its query fails, and `Publish`
  completes the event without the channel (`notifier.go:87`): the promise of the
  outbox is to channels of all sites only;
- two administrators who delete or demote each other, or two requests of one,
  leave no active administrator (`auth.go:160`, `auth.go:188`).  When both are
  demotions the table has no administrator at all, and as the email of the
  bootstrap account is taken, the server does not start again (`auth.go:53`);
- a deleted account becomes active by single sign-on (`auth.go:93`); its old
  sessions and API tokens work again;
- a viewer cannot log out: the request is a POST, which is refused before the
  session is deleted (`app.go:155`);
- `CreateDevice` accepts a parent of another site (`store.go:155`); until one of
  the two is moved, later edits of device or parent are refused;
- a site deleted while a device is placed in it leaves the device without one
  (`sites.go:40`);
- when the stored authority cannot be read the server goes on with a new one
  that it does not store (`pki.go:30`, `store/pki.go:42`): what it signs is
  worthless after the next restart;
- an enrollment whose answer is lost leaves `sites.collector_identity_id`
  pointing at an identity nobody holds (`store/pki.go:81`): the centre then
  checks a site that its old collector goes on checking too;
- a device that falls silent in the SSH dialogue keeps a goroutine of the server for
  ever (`configbackup/engine.go:50`).

## 5. Proofs

`DeviceHealthProofs` states what the recalculation statements preserve: the
type of the table, the devices they leave alone, that each result is either
`dependency` or the device's own health, that a set closed below a device
holds its descendants, that a root is below nothing, that in a forest
nobody is above itself, and that the recalculation reaches every child of the
device.

`MonitoringProofs` proves, from `CheckAssumption` and
`NoDeviceAssumption` only, for any sets of devices, checks, services and
workers:

| Theorem | States | Argument |
|---|---|---|
| `TypeCorrect` | `[]TypeOK` | one lemma for each group of actions; `due` stays inside the installed checks because deletion removes both |
| `ReferencesHold` | `[]References` | with `TypeOK`: the foreign keys of the schema hold in the model |
| `HealthMisledByOverlapsOnly` | `OnlyOverlapsMislead` | from `TypeOK` and `References`: deleted devices must have no rows left.  Every step is quiet (the rows of all living devices are as before), or ends a transaction that recalculates the one device whose rows it writes.  If nobody has overtaken it, what it has read of that device is what is there, and each member of `Recalculated` shows it |
| `ForestHolds` | `[]Forest` | a move closes no cycle because the complement of what lies below the moved device stays closed |
| `IncidentsAreDown` | `[]IncidentImpliesDown` | `Recording`: while a result is being recorded its entry agrees with the claim, it opens nothing that is open, and no other result of the check comes in between |
| `SweepComplete` | `ResultSweepsSuppressed` | from `TypeOK`: the sweep reads the status the same transaction has written |
| `ChildrenReached` | `ResultReachesChildren` | from `TypeOK` and `Forest`: a device is not below itself, so the second statement, which reads the table as the first has left it, judges the children by the device's new status and leaves that alone |
| `RepairsHaveIncidents` | `RepairHasIncident` | from `Recording` and `TypeOK`: the entry of a failure outside a window opens or keeps an incident unless the parent failed when it was read; the sweep ends it only when the parent fails now |
| `AcknowledgementsLast` | `AcknowledgementLasts` | from `TypeOK`: one lemma names the actions that write incidents; opening one leaves an active one as it is |
| `IncidentsKeepTheBook` | `KeepsIncidentBook` | from `Recording`, `TypeOK` and `Forest`: a result is a success or a failure of its check, a deletion a removal, an acknowledgement itself, and all other steps leave results and incidents alone.  Without the forest a result could hide its own check: the mutant of this property lets a move close a cycle |
| `DetachedStaysDependent` | a root without checks that shows `dependency` (`Stuck`) goes on doing so until an operator moves or deletes it or gives it a check, or it reports for itself (`Touched`) | from `TypeOK`: a root is below nothing, so no other device's recalculation writes it.  It is `finding_stuck_dependency` for every instance |

Each theorem combines `Init`, the step and `PTL`.

`NotificationsProofs` proves, for any incidents, channels, routing and late,
scoped or removable channels:

| Theorem | States | Argument |
|---|---|---|
| `TypeCorrect` | `[]TypeOK` | one step for each action |
| `RemindersAreBounded` | `RemindersBounded` | `ReminderInv`: a reminder in hand is of an incident that exists and has not been sent within the day, and while any is left no event is in hand.  `OverNeedsNone`: what is over stays over, and the query reads no reminder of it |
| `ProcessedReached` | `[]ProcessedWasReceived` | `DeliveryInv`: a success on record, or about to be recorded, has arrived; as long as no channel has failed, each is still to be visited or has the event; only channels created later ever had no row |
| `OutboxKeepsPromise` | `KeepsPromise` | `HandInv`: an event in hand is in hand once and not processed yet, and its row is gone only when its incident is.  With `DeliveryInv` each step maps to a step of `Announcements` or to a stutter |

`RemediationProofs`, for any templates, agents, requests and number of jobs,
from `RemediationAssumption`:

| Theorem | States | Argument |
|---|---|---|
| `RemediationTypes` | `[]TypeOK` | one lemma for each statement on the list of jobs |
| `HistoryTrue` | `[]HistoryIsTrue` | `HistoryInv` and `AgentInv`: what has been executed was running, and what an agent has in hand agrees with the row of its job and the job's age |
| `StartsRunning`, `StartedOnce`, `ResultsStay` | `StartsOnlyRunning`, `StartsOnce`, `ResultsAreFinal` | from the same invariant: the payload expires before the lease does, and a claimed job leaves `queued` for good |
| `JobsKeepTheirLife` | `KeepsJobLife` | every step is one of `JobLife` or a stutter: a job is started, and reported successful, only as `HistoryInv` and `AgentInv` say.  `ResultsAreFinal` is the part of it that concerns finished jobs |

The same module proves three theorems about `ConnectionPool`, whose goroutines are
those that queue remediation.  They take the assumptions of that module on its
constants as their hypothesis (`Sizes`, and for the last that no loop is of both kinds):

| Theorem | States | Argument |
|---|---|---|
| `PoolTypes` | `[]TypeOK` of `ConnectionPool` | a task changes at most its own place among the holders, and takes a connection only when one is free |
| `SomebodyGivesUp` | with fewer remediation goroutines than connections, whenever the pool is exhausted some holder is a collector's request | from `PoolTypes`: the goroutines alone cannot hold them all.  A collector's client gives up after 30 seconds, so this is why the pool of run `connection_pool` recovers and that of `finding_pool_deadlock` does not |
| `ExhaustedForEver` | once the whole pool is held by remediation goroutines that need one more connection each (`Exhausted`), it stays so, and no due check is claimed | a step needs a free connection, or rows whose last statement is done, or a client that gives up; there is none.  It is `finding_pool_deadlock` for a pool of any size |

`ConfigBackupProofs`, for any devices, configurations and captures:

| Theorem | States | Argument |
|---|---|---|
| `BackupTypes` | `[]TypeOK` | a capture whose row exists has a profile (`TaskInv`), so that no error is written for a profile that is gone |
| `NewestIsUnique` | `[]OneNewest` | `OrderInv`: every non-empty part of a device's versions and open transactions has a greatest member; stated for every part it survives withdrawing, replacing and adding at the top.  A total order of finite sets would need induction |
| `ChangesHaveVersions` | `[]IncidentHasVersions` | `TaskInv`: the version a capture compared itself with is still there, or its device is not |

`AccountsProofs`, for any finite set of accounts:

| Theorem | States | Argument |
|---|---|---|
| `AccountTypes` | `[]TypeOK` | one step for each action |
| `JudgementsHold` | `[]JudgedRight` | a request that nobody overtook still judges right: there are two administrators when it counted several, and one besides its own when it is about to remove one |
| `LastAdministrator`, `StartsAgain` | `AdministratorRemains`, `StartSurvives` | at the write, from `JudgedRight` |

`DeviceTreeProofs`, for any devices, sites and requests, with the lemmas of
`DeviceHealthProofs`:

| Theorem | States | Argument |
|---|---|---|
| `TreeTypes` | `[]TypeOK` | one step for each action |
| `ReadsHold` | `[]ReadsValid` | what an unraced request has read still holds for the rows that are still there: deletions only remove edges, and only placements add any |
| `TreeKept`, `SitesKeptTogether`, `SiteKept` | `TreeRemains`, `SitesAgree`, `SiteRemains` | at the write, from `ReadsValid` |

`EnrollmentProofs`, for any hosts, tokens and keys:

| Theorem | States | Argument |
|---|---|---|
| `EnrollmentTypes` | `[]TypeOK` | one step for each action |
| `TokenUsedOnce` | `[]OneIdentityPerToken` | `Redeemed` and `Unspent`: a redeemed token is over, has made nothing yet and is in one request; a fresh one has made nothing either |
| `HostsAreKnown` | `[]HeldIsKnown` | `OnItsWayIsKnown`: the answer is sent after its row was saved |
| `ProgramsRestart` | `[]RunningCanRestart` | a program only writes while it is not running |

Only model-checked: liveness, because what happens under fairness, and
`ENABLED`, are out of the prover's reach.  That is `RecoveryResolves`,
`FailureAlerts`, `OutageReachesDescendants`, `RemindersStop`, `EventsSettle`, `RemindersRepeat`,
`RunningJobsEnd`, `QueuedJobsMove`, `DueChecksAreClaimed`, `NewestConverges`,
`RefusalShows`, `LastingChangeIsTold`, `SessionsEnd` and `HostsReport`.  No
operator is recursive, so nothing is left out for that.

## 6. What is not modelled

- Wording, formats and encodings of messages; the protocols of the probes; the
  XML of Monit; notes and assignment of incidents; the audit log; passwords.
- The statements between the reading and the end of a recalculating
  transaction one by one (section 2 says what stands for them).
- The grants of site managers and viewers, which filter what a request shows.
- The event stream: nothing depends on an event that is delivered.
- Monit control: one outgoing request, then `SyncMonit`, which `Monitoring` has.
- SNMP traps and syslog: each datagram is an independent insert.
- The shared `GOLIVE_AGENT_TOKEN`, with which an agent reports without a
  certificate (`internal/api/agent.go:27`) and without the files (`golive-agent/main.go:173`);
  `PruneSessions`, which nobody calls.
- Encryption of credentials; metrics, which nothing reads back; migrations,
  whose idempotence is a matter of their text; the administration tool; the web
  interface.

## 7. Plan

Done, in order of importance: `Monitoring` with health, incidents, collector
and reports, its transactions overlapping, and its refinement of
`IncidentBook`; `Notifications` and its refinement of `Announcements`;
`Remediation`, its refinement of `JobLife`, and `ConnectionPool`; `ConfigBackup`, `Accounts`, `DeviceTree` and
`Enrollment`; the proofs of section 5.

Left:

1. `Monitoring` and `Notifications` composed by the trigger they share.
2. Abstract specifications that `Enrollment` (one token, one identity, held by one
   host) and `ConfigBackup` (the history an operator sees) implement, and the
   proofs that they do.
