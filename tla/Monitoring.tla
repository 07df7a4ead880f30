----------------------------- MODULE Monitoring -----------------------------
(***************************************************************************)
(* Monitoring of one site: the inventory and its parent relationships, the *)
(* check engine (claim, probe, record), the remote collector of the site   *)
(* with its central fallback, Monit and agent reports, maintenance windows *)
(* and the life of incidents, over one PostgreSQL database.                *)
(*                                                                         *)
(* An action is one transaction, or one step of a goroutine or of the      *)
(* collector process between two transactions.  A claim carries what the   *)
(* code read when it claimed the check, however old it is when used.       *)
(* Recording a result or a report is two actions: its transaction begins   *)
(* with what it reads of rows that other transactions write, and ends with *)
(* what it writes.  In between others may commit (READ COMMITTED).         *)
(***************************************************************************)
EXTENDS DeviceHealth

CONSTANTS
    Check,          \* check identifiers
    DeviceOf,       \* the device each check belongs to
    Worker,         \* bound: executions in flight at one time
    Service,        \* names of Monit services
    MonitDevice,    \* devices with a Monit daemon
    AgentDevice,    \* devices with a GoLive agent
    Collected,      \* checks of the devices a collector is assigned to
    Maintained,     \* devices that may enter a maintenance window
    Placement,      \* bound: the <<device, parent>> pairs operators choose
    Deletable,      \* bound: the devices operators may delete
    Idle            \* a worker, or the collector, without a check

ASSUME CheckAssumption == DeviceOf \in [Check -> Device]
ASSUME PlacementAssumption == Placement \subseteq Device \X (Device \cup {NoDevice})

VARIABLES
    parent,     \* devices.parent_id
    dstatus,    \* devices.status; "unborn" and "deleted" have no row
    cstatus,    \* checks.status; likewise
    due,        \* checks with next_run_at <= now()
    incident,   \* the active incident of each check
    alarm,      \* the active Monit incident of each device and service
    window,     \* devices inside a maintenance window
    hosts,      \* devices with a row in monit_hosts
    services,   \* monit_services of each device
    agents,     \* devices with a row in agent_reports
    claim,      \* the execution each worker is busy with
    tx,         \* the transaction each worker records its result in
    report,     \* the transaction of each device's Monit or agent report
    collector,  \* the identity assigned to the site
    cycle,      \* the checks its process has fetched and not executed
    job,        \* the result it has and has not delivered
    target      \* what a probe of each check would find

inventory == <<parent, dstatus, cstatus, due>>
incidents == <<incident, alarm>>
reports   == <<hosts, services, agents>>
open      == <<tx, report>>
remote    == <<collector, cycle, job>>
vars == <<inventory, incidents, window, reports, open, claim, remote, target>>

-----------------------------------------------------------------------------
NoRow == {"unborn", "deleted"}
CheckStatus == {"unknown", "up", "down"}
Outcome == {"up", "down"}
Lifecycle == {"none", "open", "acknowledged"}
Active == {"open", "acknowledged"}
\* Of a Monit service; without a row it counts as one that is well.
Condition == {"ok", "failing", "unmonitored"}

\* DueCheck, and the outcome of its execution once there is one.  turns: its
\* Status was not "down" and its ParentDown false, which are used together.
Execution == [check : Check, turns : BOOLEAN, maintenance : BOOLEAN,
              result : Outcome \cup {"pending"}]

Job == [check : Check, result : Outcome]

\* What a transaction does to the incident of its check.
Entry == {"resolves", "opens", "keeps", "nothing"}

\* What an open transaction has read of the devices in rows, and its entry in
\* the list of incidents.
Reading == [rows : SUBSET Device, checks : [Check -> CheckStatus \cup NoRow],
            services : [Device -> [Service -> Condition]],
            reporters : SUBSET Device, hidden : BOOLEAN, entry : Entry]

Reports == {"monit", "agent"} \X Device

Live == {d \in Device : dstatus[d] \in DeviceStatus}
Installed == {c \in Check : cstatus[c] \in CheckStatus}

\* What a device would show on its own, given the rows below it.
OwnOf(cs, sv, reporters, d) ==
    OwnHealth({cs[c] : c \in {k \in Check : DeviceOf[k] = d}},
              {sv[d][s] : s \in Service},
              d \in reporters)

Own(cs, sv, reporters) == [d \in Device |-> OwnOf(cs, sv, reporters, d)]

\* Every state the system can be in when the database is new.
Init ==
    /\ parent = [d \in Device |-> NoDevice]
    /\ dstatus = [d \in Device |-> "unborn"]
    /\ cstatus = [c \in Check |-> "unborn"]
    /\ due = {}
    /\ incident = [c \in Check |-> "none"]
    /\ alarm = [x \in Device \X Service |-> "none"]
    /\ window = {}
    /\ hosts = {}
    /\ services = [d \in Device |-> [s \in Service |-> "ok"]]
    /\ agents = {}
    /\ claim = [w \in Worker |-> Idle]
    /\ tx = [w \in Worker |-> Idle]
    /\ report = [r \in Reports |-> Idle]
    /\ collector = "none"
    /\ cycle = {}
    /\ job = Idle
    /\ target \in [Check -> Outcome]

-----------------------------------------------------------------------------
(* The inventory.                                                          *)

\* Store.CreateDevice: nothing but the foreign key looks at the parent.
CreateDevice(d, p) ==
    /\ dstatus[d] = "unborn"
    /\ <<d, p>> \in Placement
    /\ p # NoDevice => p \in Live
    /\ dstatus' = [dstatus EXCEPT ![d] = "unknown"]
    /\ parent' = [parent EXCEPT ![d] = p]
    /\ UNCHANGED <<cstatus, due, incidents, window, reports, open, claim, remote, target>>

\* Mutant: only the device itself is refused as its parent.
UpdateDevice_RefusesSelf(d, p) ==
    /\ d \in Live
    /\ <<d, p>> \in Placement
    /\ p # NoDevice => p \in Live /\ p # d
    /\ parent' = [parent EXCEPT ![d] = p]
    /\ UNCHANGED <<dstatus, cstatus, due, incidents, window, reports, open, claim, remote, target>>

\* Store.UpdateDevice, one request at a time; the status is left as it is.
UpdateDevice(d, p) ==
    /\ d \in Live
    /\ <<d, p>> \in Placement
    /\ p # NoDevice => p \in Live /\ p # d /\ d \notin AncestorsOf(parent, p)
    /\ parent' = [parent EXCEPT ![d] = p]
    /\ UNCHANGED <<dstatus, cstatus, due, incidents, window, reports, open, claim, remote, target>>

\* Store.DeleteDevice and what the foreign keys do: checks, incidents,
\* windows and reports go with the device, its children lose their parent.
\* The rows that a transaction on the device has written are locked.
DeleteDevice(d) ==
    /\ d \in Live \cap Deletable
    /\ \A w \in Worker : tx[w] # Idle => DeviceOf[claim[w].check] # d
    /\ report[<<"monit", d>>] = Idle /\ report[<<"agent", d>>] = Idle
    /\ dstatus' = [dstatus EXCEPT ![d] = "deleted"]
    /\ parent' = [e \in Device |-> IF d \in {e, parent[e]} THEN NoDevice ELSE parent[e]]
    /\ cstatus' = [c \in Check |-> IF DeviceOf[c] = d /\ c \in Installed
                                   THEN "deleted" ELSE cstatus[c]]
    /\ due' = {c \in due : DeviceOf[c] # d}
    /\ incident' = [c \in Check |-> IF DeviceOf[c] = d THEN "none" ELSE incident[c]]
    /\ alarm' = [x \in Device \X Service |-> IF x[1] = d THEN "none" ELSE alarm[x]]
    /\ window' = window \ {d}
    /\ hosts' = hosts \ {d}
    /\ services' = [services EXCEPT ![d] = [s \in Service |-> "ok"]]
    /\ agents' = agents \ {d}
    /\ UNCHANGED <<open, claim, remote, target>>

\* Store.CreateCheck: next_run_at defaults to now().
CreateCheck(c) ==
    /\ DeviceOf[c] \in Live
    /\ cstatus[c] = "unborn"
    /\ cstatus' = [cstatus EXCEPT ![c] = "unknown"]
    /\ due' = due \cup {c}
    /\ UNCHANGED <<parent, dstatus, incidents, window, reports, open, claim, remote, target>>

\* Windows open and close as time passes and operators edit them; a window
\* on the site covers all of its devices.
ChangeMaintenance(S) ==
    /\ S \subseteq Maintained \cap Live
    /\ window' = S
    /\ UNCHANGED <<inventory, incidents, reports, open, claim, remote, target>>

-----------------------------------------------------------------------------
(* The check engine.                                                       *)

\* next_run_at passes.
BecomeDue(c) ==
    /\ c \in Installed \ due
    /\ due' = due \cup {c}
    /\ UNCHANGED <<parent, dstatus, cstatus, incidents, window, reports, open, claim, remote, target>>

\* What ClaimDue and CollectorCheck read of check c.
Snapshot(c, result) ==
    [check |-> c,
     turns |-> cstatus[c] # "down" /\ ~ParentFailing(dstatus, parent, DeviceOf[c]),
     maintenance |-> DeviceOf[c] \in window, result |-> result]

\* Mutant: the centre stays away as long as a collector is assigned.
ClaimDue_IgnoresSilence(w, c) ==
    /\ claim[w] = Idle
    /\ c \in due
    /\ c \in Collected => collector = "none"
    /\ claim' = [claim EXCEPT ![w] = Snapshot(c, "pending")]
    /\ due' = due \ {c}
    /\ UNCHANGED <<parent, dstatus, cstatus, incidents, window, reports, open, remote, target>>

\* Store.ClaimDue: the centre stays away from a check while the collector of
\* its site has been heard of in the last two minutes.
ClaimDue(w, c) ==
    /\ claim[w] = Idle
    /\ c \in due
    /\ c \in Collected => collector # "fresh"
    /\ claim' = [claim EXCEPT ![w] = Snapshot(c, "pending")]
    /\ due' = due \ {c}
    /\ UNCHANGED <<parent, dstatus, cstatus, incidents, window, reports, open, remote, target>>

\* routerOS, bannerCheck, tlsCheck, snmp, ping and the rest: nil or an error,
\* by the condition of the service when they look at it.
Probe(c) == target[c]

\* Engine.execute up to the result: the probe ends within its timeout.
Execute(w) ==
    /\ claim[w] # Idle
    /\ claim[w].result = "pending"
    /\ claim' = [claim EXCEPT ![w].result = Probe(claim[w].check)]
    /\ UNCHANGED <<inventory, incidents, window, reports, open, remote, target>>

\* What the statements of a transaction on device d read in its beginning, of
\* the devices in S, and others may change before it ends.
View(S, d, entry) ==
    [rows |-> S,
     checks |-> [c \in Check |-> IF DeviceOf[c] \in S THEN cstatus[c] ELSE "unknown"],
     services |-> [e \in Device |-> IF e \in S THEN services[e] ELSE [s \in Service |-> "ok"]],
     reporters |-> S \cap (hosts \cup agents),
     hidden |-> d \in S /\ ParentFailing(dstatus, parent, d),
     entry |-> entry]

(***************************************************************************)
(* The table after the two recalculations of d by a transaction that began *)
(* with view v.  then and now are the devices' own health by the rows it   *)
(* read in its beginning and by those that are committed in its end, both  *)
(* with its own rows.  Each statement reads at some time in between: of    *)
(* the devices in S, and perhaps of the parent, it has read the former.    *)
(***************************************************************************)
Mixed(then, now, S) == [e \in Device |-> IF e \in S THEN then[e] ELSE now[e]]

Recalculated(status, v, then, now, d) ==
    {Recalc(status, parent, Mixed(then, now, S), hidden, d) :
        S \in SUBSET {e \in v.rows : then[e] # now[e]},
        hidden \in {ParentFailing(status, parent, d),
                    IF d \in v.rows THEN v.hidden ELSE ParentFailing(status, parent, d)}}

\* Mutant: an incident is opened on the transition to down only.
IncidentEntry_OnTransition(e) ==
    IF e.result = "up" THEN "resolves"
    ELSE IF ~e.turns \/ e.maintenance THEN "nothing"
    ELSE IF incident[e.check] = "none" THEN "opens" ELSE "keeps"

\* Store.RecordResult, the statement on the incident of the check: in a window
\* there is none, and below a failing parent it selects nothing.
IncidentEntry(e) ==
    IF e.result = "up" THEN "resolves"
    ELSE IF e.maintenance \/ ParentFailing(dstatus, parent, DeviceOf[e.check]) THEN "nothing"
    ELSE IF incident[e.check] = "none" THEN "opens" ELSE "keeps"

\* Store.RecordResult up to its third statement, and what later ones read before
\* others commit.  Two results of one check wait for each other at its row.
BeginRecord(w) ==
    /\ claim[w] # Idle
    /\ claim[w].result \in Outcome
    /\ claim[w].check \in Installed
    /\ tx[w] = Idle
    /\ \A v \in Worker : tx[v] # Idle => claim[v].check # claim[w].check
    /\ tx' = [tx EXCEPT ![w] = View(Device, DeviceOf[claim[w].check], IncidentEntry(claim[w]))]
    /\ UNCHANGED <<inventory, incidents, window, reports, report, claim, remote, target>>

\* Mutant: recovery resolves open incidents only.
CheckIncident_KeepsAcknowledged(c, entry) ==
    IF entry = "resolves" THEN [incident EXCEPT ![c] = IF @ = "open" THEN "none" ELSE @]
    ELSE IF entry = "opens" THEN [incident EXCEPT ![c] = "open"]
    ELSE incident

\* Mutant: the conflict with the active incident overwrites it.
CheckIncident_Overwrites(c, entry) ==
    IF entry = "resolves" THEN [incident EXCEPT ![c] = "none"]
    ELSE IF entry \in {"opens", "keeps"} THEN [incident EXCEPT ![c] = "open"]
    ELSE incident

\* The incidents with the entry of the result.
CheckIncident(c, entry) ==
    IF entry = "resolves" THEN [incident EXCEPT ![c] = "none"]
    ELSE IF entry = "opens" THEN [incident EXCEPT ![c] = "open"]
    ELSE incident

\* Mutant: the sweep reads the statuses from before the recalculation.
Unsuppressed_Stale(status, d, state) == IF ParentFailing(dstatus, parent, d) THEN "none" ELSE state

\* The last statement of RecordResult closes what is below a failed parent.
Unsuppressed(status, d, state) == IF ParentFailing(status, parent, d) THEN "none" ELSE state

\* Mutant: windows are not asked about.
AsksForRepair_InMaintenance(e) == e.result = "down" /\ e.turns

\* Whether the failing result starts QueueAutomaticRemediation (see Remediation)
\* once it is recorded, judged by the claim.
AsksForRepair(e) == e.result = "down" /\ e.turns /\ ~e.maintenance

\* The rest of Store.RecordResult: the recalculations, the sweep and the commit;
\* then the end of Engine.execute (or of API.collectorResult).
RecordResult(w) ==
    LET e == claim[w]
        v == tx[w]
    IN
    /\ e # Idle
    /\ v # Idle
    /\ e.result \in Outcome
    /\ e.check \in Installed
    /\ cstatus' = [cstatus EXCEPT ![e.check] = e.result]
    /\ dstatus' \in Recalculated(dstatus, v,
                        Own([v.checks EXCEPT ![e.check] = e.result], v.services, v.reporters),
                        Own(cstatus', services, hosts \cup agents),
                        DeviceOf[e.check])
    /\ incident' = [c \in Check |->
                      Unsuppressed(dstatus', DeviceOf[c], CheckIncident(e.check, v.entry)[c])]
    /\ alarm' = [x \in Device \X Service |-> Unsuppressed(dstatus', x[1], alarm[x])]
    /\ claim' = [claim EXCEPT ![w] = Idle]
    /\ tx' = [tx EXCEPT ![w] = Idle]
    /\ UNCHANGED <<parent, due, window, reports, report, remote, target>>

\* The transaction fails (always, once the check is gone): logged, dropped.
RecordFails(w) ==
    /\ claim[w] # Idle
    /\ claim[w].result \in Outcome
    /\ claim' = [claim EXCEPT ![w] = Idle]
    /\ tx' = [tx EXCEPT ![w] = Idle]
    /\ UNCHANGED <<inventory, incidents, window, reports, report, remote, target>>

\* The server stops: goroutines and what they have not committed are lost.
Restart ==
    /\ claim' = [w \in Worker |-> Idle]
    /\ tx' = [w \in Worker |-> Idle]
    /\ report' = [r \in Reports |-> Idle]
    /\ UNCHANGED <<inventory, incidents, window, reports, remote, target>>

-----------------------------------------------------------------------------
(* The collector of the site: golive-collector and its two endpoints.      *)

\* Store.SaveIdentity assigns the identity it enrolls to the site; the
\* collector starts with it and has not been heard of yet.
EnrollCollector ==
    /\ Collected # {}
    /\ collector = "none"
    /\ collector' = "stale"
    /\ cycle' = {}
    /\ job' = Idle
    /\ UNCHANGED <<inventory, incidents, window, reports, open, claim, target>>

\* Store.RevokeIdentity, or the end of the certificate's validity.
RevokeCollector ==
    /\ collector # "none"
    /\ collector' = "none"
    /\ UNCHANGED <<inventory, incidents, window, reports, open, claim, cycle, job, target>>

\* Two minutes without a request from the collector.
CollectorLapses ==
    /\ collector = "fresh"
    /\ collector' = "stale"
    /\ UNCHANGED <<inventory, incidents, window, reports, open, claim, cycle, job, target>>

\* cycle() fetches the assignments; those in S have reached their next time (a
\* poll that finds none of them due is left out).
CollectorFetch(S) ==
    /\ collector # "none"
    /\ cycle = {} /\ job = Idle
    /\ S # {} /\ S \subseteq Collected \cap Installed
    /\ cycle' = S
    /\ collector' = "fresh"
    /\ UNCHANGED <<inventory, incidents, window, reports, open, claim, job, target>>

\* execute() of the next of them, however long after the fetch.
CollectorExecute(c) ==
    /\ c \in cycle
    /\ job = Idle
    /\ cycle' = cycle \ {c}
    /\ job' = [check |-> c, result |-> Probe(c)]
    /\ UNCHANGED <<inventory, incidents, window, reports, open, claim, collector, target>>

\* API.collectorResult up to RecordResult, on a request goroutine of its own.
\* The process waits for the answer, but not for longer than it likes.
CollectorPost(w) ==
    /\ job # Idle
    /\ collector # "none"
    /\ job.check \in Installed
    /\ claim[w] = Idle
    /\ claim' = [claim EXCEPT ![w] = Snapshot(job.check, job.result)]
    /\ collector' = "fresh"
    /\ job' = Idle
    /\ UNCHANGED <<inventory, incidents, window, reports, open, cycle, target>>

\* The answer is an error, after RequireCollector has touched the identity: the
\* cycle ends.
CollectorRefused ==
    /\ job # Idle
    /\ collector # "none"
    /\ collector' = "fresh"
    /\ cycle' = {}
    /\ job' = Idle
    /\ UNCHANGED <<inventory, incidents, window, reports, open, claim, target>>

\* The server cannot be reached, or the process stops: the cycle ends, and
\* next[job.ID] has been advanced already.
CollectorDrops ==
    /\ cycle # {} \/ job # Idle
    /\ cycle' = {}
    /\ job' = Idle
    /\ UNCHANGED <<inventory, incidents, window, reports, open, claim, collector, target>>

-----------------------------------------------------------------------------
(* Reports that devices send.                                              *)

\* A report from a device nobody created inserts it, as a root of the tree.
Reported(d) == [dstatus EXCEPT ![d] = IF @ = "unborn" THEN "up" ELSE @]

\* applyMonitReportTx on the incidents: an event is NoEvent = {} or one
\* <<service, state>>; neither the parent nor a window is looked at.
MonitEvents == {{}} \cup {{ev} : ev \in Service \X {"ok", "failing"}}

AlarmAfter(x, d, event) ==
    IF x[1] = d /\ <<x[2], "ok">> \in event THEN "none"
    ELSE IF x[1] = d /\ <<x[2], "failing">> \in event /\ alarm[x] = "none" THEN "open"
    ELSE alarm[x]

\* Store.RecordMonit and Store.SyncMonit: reports of one Monit wait for each
\* other at its row.
BeginMonit(d) ==
    /\ d \in MonitDevice
    /\ dstatus[d] # "deleted"
    /\ report[<<"monit", d>>] = Idle
    /\ report' = [report EXCEPT ![<<"monit", d>>] = View(Device, d, "nothing")]
    /\ UNCHANGED <<inventory, incidents, window, reports, tx, claim, remote, target>>

\* applyMonitReportTx: sv are the service rows afterwards (a report with
\* services replaces them all, one without leaves them).
MonitReport(d, sv, event) ==
    LET v == report[<<"monit", d>>] IN
    /\ v # Idle
    /\ hosts' = hosts \cup {d}
    /\ services' = [services EXCEPT ![d] = sv]
    /\ dstatus' \in Recalculated(Reported(d), v,
                        Own(v.checks, [v.services EXCEPT ![d] = sv], v.reporters \cup {d}),
                        Own(cstatus, services', hosts' \cup agents), d)
    /\ alarm' = [x \in Device \X Service |-> AlarmAfter(x, d, event)]
    /\ report' = [report EXCEPT ![<<"monit", d>>] = Idle]
    /\ UNCHANGED <<parent, cstatus, due, incident, window, agents, tx, claim, remote, target>>

\* Store.RecordAgentReport: the first report of an agent inserts its device,
\* later ones find it by the agent's row.
Expected(d) ==
    /\ d \in AgentDevice
    /\ d \in agents \/ dstatus[d] = "unborn"

\* Its UPDATE of the address locks the row of the device before anything is read
\* for the recalculations: only what it reads of other devices gets old.
BeginAgent(d) ==
    /\ Expected(d)
    /\ report[<<"agent", d>>] = Idle
    /\ report' = [report EXCEPT ![<<"agent", d>>] = View(Device \ {d}, d, "nothing")]
    /\ UNCHANGED <<inventory, incidents, window, reports, tx, claim, remote, target>>

\* The rest of it.
AgentReport(d) ==
    LET v == report[<<"agent", d>>] IN
    /\ v # Idle
    /\ Expected(d)
    /\ agents' = agents \cup {d}
    /\ dstatus' \in Recalculated(Reported(d), v,
                        Own(v.checks, v.services, v.reporters \cup {d}),
                        Own(cstatus, services, hosts \cup agents'), d)
    /\ report' = [report EXCEPT ![<<"agent", d>>] = Idle]
    /\ UNCHANGED <<parent, cstatus, due, incidents, window, hosts, services, tx, claim, remote, target>>

\* An error, or an agent that gives up: the transaction is rolled back.
ReportFails(r) ==
    /\ report[r] # Idle
    /\ report' = [report EXCEPT ![r] = Idle]
    /\ UNCHANGED <<inventory, incidents, window, reports, tx, claim, remote, target>>

-----------------------------------------------------------------------------
(* Operators and the environment.                                          *)

\* Store.Acknowledge, by incident.
Acknowledge(c) ==
    /\ incident[c] = "open"
    /\ incident' = [incident EXCEPT ![c] = "acknowledged"]
    /\ UNCHANGED <<inventory, alarm, window, reports, open, claim, remote, target>>

AcknowledgeAlarm(x) ==
    /\ alarm[x] = "open"
    /\ alarm' = [alarm EXCEPT ![x] = "acknowledged"]
    /\ UNCHANGED <<inventory, incident, window, reports, open, claim, remote, target>>

\* The monitored service fails or comes back.
Turn(c) ==
    /\ target' = [target EXCEPT ![c] = IF @ = "up" THEN "down" ELSE "up"]
    /\ UNCHANGED <<inventory, incidents, window, reports, open, claim, remote>>

-----------------------------------------------------------------------------
Next ==
    \/ \E d \in Device, p \in Device \cup {NoDevice} : CreateDevice(d, p)
    \/ \E d \in Device, p \in Device \cup {NoDevice} : UpdateDevice(d, p)
    \/ \E d \in Device : DeleteDevice(d)
    \/ \E c \in Check : CreateCheck(c)
    \/ \E S \in SUBSET Maintained : ChangeMaintenance(S)
    \/ \E c \in Check : BecomeDue(c)
    \/ \E w \in Worker, c \in Check : ClaimDue(w, c)
    \/ \E w \in Worker : Execute(w)
    \/ \E w \in Worker : BeginRecord(w)
    \/ \E w \in Worker : RecordResult(w)
    \/ \E w \in Worker : RecordFails(w)
    \/ Restart
    \/ EnrollCollector
    \/ RevokeCollector
    \/ CollectorLapses
    \/ \E S \in SUBSET Check : CollectorFetch(S)
    \/ \E c \in Check : CollectorExecute(c)
    \/ \E w \in Worker : CollectorPost(w)
    \/ CollectorRefused
    \/ CollectorDrops
    \/ \E d \in Device, sv \in [Service -> Condition], event \in MonitEvents :
         MonitReport(d, sv, event)
    \/ \E d \in Device : BeginMonit(d)
    \/ \E d \in Device : BeginAgent(d)
    \/ \E d \in Device : AgentReport(d)
    \/ \E r \in Reports : ReportFails(r)
    \/ \E c \in Check : Acknowledge(c)
    \/ \E x \in Device \X Service : AcknowledgeAlarm(x)
    \/ \E c \in Check : Turn(c)

Spec == Init /\ [][Next]_vars

-----------------------------------------------------------------------------
(* Safety.                                                                 *)

\* Types of the variables.
TypeOK ==
    /\ parent \in [Device -> Device \cup {NoDevice}]
    /\ dstatus \in [Device -> DeviceStatus \cup NoRow]
    /\ cstatus \in [Check -> CheckStatus \cup NoRow]
    /\ due \in SUBSET Installed
    /\ incident \in [Check -> Lifecycle]
    /\ alarm \in [Device \X Service -> Lifecycle]
    /\ window \in SUBSET Device
    /\ hosts \in SUBSET Device
    /\ services \in [Device -> [Service -> Condition]]
    /\ agents \in SUBSET Device
    /\ claim \in [Worker -> Execution \cup {Idle}]
    /\ tx \in [Worker -> Reading \cup {Idle}]
    /\ report \in [Reports -> Reading \cup {Idle}]
    /\ cycle \in SUBSET Check
    /\ collector \in {"none", "fresh", "stale"}
    /\ job \in Job \cup {Idle}
    /\ target \in [Check -> Outcome]

\* What the foreign keys say: checks and reports belong to devices with a row.
References ==
    /\ \A c \in Installed : DeviceOf[c] \in Live
    /\ hosts \cup agents \subseteq Live
    /\ \A d \in Device, s \in Service : services[d][s] # "ok" => d \in Live

\* An active incident of a check means that its last recorded result was a
\* failure, in whatever order results of the centre and of the collector,
\* restarts, deletions and parent failures arrive.
IncidentImpliesDown == \A c \in Check : incident[c] \in Active => cstatus[c] = "down"

\* The parent relationships of the rows that exist form a forest.
Forest ==
    /\ \A d \in Device : parent[d] # NoDevice => {d, parent[d]} \subseteq Live
    /\ \A d \in Device : d \notin Descendants(parent, d)

\* Recording a result, of any device, leaves no active incident below a
\* failing parent: the sweep comes after both recalculations.
ResultSweepsSuppressed ==
    [][(\E w \in Worker : RecordResult(w)) =>
         \A d \in Device : ParentFailing(dstatus', parent', d) =>
            /\ \A c \in Check : DeviceOf[c] = d => incident'[c] = "none"
            /\ \A s \in Service : alarm'[<<d, s>>] = "none"]_vars

\* The result of a device reaches its direct children in the same transaction:
\* they show a dependency failure exactly when the device is failing.
ResultReachesChildren ==
    [][\A w \in Worker : RecordResult(w) =>
         LET d == DeviceOf[claim[w].check] IN
         \A e \in Device : parent[e] = d =>
            (dstatus'[e] = "dependency" <=> dstatus'[d] \in Failing)]_vars

\* The status of d is the one its checks, Monit services and agent imply, unless
\* it is shown as a dependency failure.
Current(d) ==
    dstatus[d] \in {"dependency", OwnOf(cstatus, services, hosts \cup agents, d)}

\* Other transactions have written rows of d since v was read.
Overtaken(v, d) ==
    /\ d \in v.rows
    /\ \/ \E c \in Check : DeviceOf[c] = d /\ v.checks[c] # cstatus[c]
       \/ v.services[d] # services[d]
       \/ (d \in v.reporters) # (d \in hosts \cup agents)

\* What the transactions that end in this step have read.
Ending == {tx[w] : w \in {u \in Worker : tx[u] # Idle /\ tx'[u] = Idle}}
          \cup {report[r] : r \in {q \in Reports : report[q] # Idle /\ report'[q] = Idle}}

\* A device comes to show what its checks, services and reporters do not say in
\* one way only: a transaction that has read them ends after another one that
\* has written them.  Whoever writes rows alone recalculates their device,
\* nothing else turns its status, and the next result that is not overtaken
\* mends it.
OnlyOverlapsMislead ==
    [][\A d \in Live' :
         \/ Current(d)'
         \/ /\ d \in Live /\ ~Current(d)
            /\ ~\E w \in Worker : RecordResult(w) /\ DeviceOf[claim[w].check] = d
         \/ \E v \in Ending : Overtaken(v, d)]_vars

\* Automatic remediation is asked for by a failure that operators see: its
\* check is down and has an active incident, or had one when the transaction
\* began, unless its parent fails or did so then.
RepairHasIncident ==
    [][\A w \in Worker : RecordResult(w) /\ AsksForRepair(claim[w]) =>
         LET c == claim[w].check IN
         /\ cstatus'[c] = "down"
         /\ \/ incident'[c] \in Active
            \/ ParentFailing(dstatus', parent', DeviceOf[c])
            \/ tx[w].entry = "keeps" \/ tx[w].hidden]_vars

\* A failure that goes on never reopens an acknowledged incident.
AcknowledgementLasts ==
    [][\A c \in Check : incident[c] = "acknowledged" => incident'[c] # "open"]_vars

-----------------------------------------------------------------------------
(* What the list of incidents promises.                                    *)

Book == INSTANCE IncidentBook WITH
    verdict <- [c \in Check |-> IF cstatus[c] \in Outcome THEN cstatus[c] ELSE "none"],
    hidden  <- {c \in Check : ParentFailing(dstatus, parent, DeviceOf[c])}

\* Late results, two executors, moves, deletions and reports of all kinds open
\* and end incidents of checks only as the book allows: no incident gets lost
\* while its check is down and in the open.
KeepsIncidentBook == Book!Spec

-----------------------------------------------------------------------------
(* Liveness.                                                               *)

\* The transaction of a report is committed or rolled back.
ReportEnds(r) ==
    \/ ReportFails(r)
    \/ r[1] = "monit" /\ \E sv \in [Service -> Condition], event \in MonitEvents :
                            MonitReport(r[2], sv, event)
    \/ r[1] = "agent" /\ AgentReport(r[2])

\* Time passes and the collector's silence is noticed; ClaimDue takes the
\* check that has been due longest, so none is passed over for ever; a probe
\* ends within its timeout, and so does a transaction.  Restarts and database
\* errors may recur without end, but not so as to hit every single attempt.
Fairness ==
    /\ WF_vars(CollectorLapses)
    /\ \A w \in Worker : WF_vars(RecordResult(w) \/ RecordFails(w))
    /\ \A r \in Reports : WF_vars(ReportEnds(r))
    /\ \A c \in Check :
         /\ WF_vars(BecomeDue(c))
         /\ SF_vars(\E w \in Worker : ClaimDue(w, c))
         /\ SF_vars(\E w \in Worker : claim[w] # Idle /\ claim[w].check = c /\ Execute(w))
         /\ SF_vars(\E w \in Worker : claim[w] # Idle /\ claim[w].check = c /\ BeginRecord(w))
         /\ SF_vars(\E w \in Worker : claim[w] # Idle /\ claim[w].check = c /\ RecordResult(w))

FairSpec == Spec /\ Fairness

\* The centre is responsible for c and its service keeps its condition.  The
\* collector process must be quiet: one that polls but delivers no result
\* keeps the centre away for as long as it does so.
Steady(c, outcome) ==
    /\ c \in Installed
    /\ target[c] = outcome
    /\ c \in Collected => cycle = {} /\ job = Idle

\* Nothing hides a failure of c: no window, and everything above its device
\* is well.
Unobstructed(c) ==
    /\ DeviceOf[c] \notin window
    /\ \A a \in AncestorsOf(parent, DeviceOf[c]) \ {DeviceOf[c]} :
         /\ \A k \in Check : DeviceOf[k] = a => cstatus[k] = "unborn" \/ Steady(k, "up")
         /\ \A s \in Service : services[a][s] # "failing"

\* A service that comes back and stays up is seen up, and its incident is
\* resolved for good, also after its collector has fallen silent.
RecoveryResolves ==
    \A c \in Check : <>[]Steady(c, "up") => <>[](cstatus[c] = "up" /\ incident[c] = "none")

\* A failure that lasts has an active incident in the end, which stays, if
\* nothing hides it.
FailureAlerts ==
    \A c \in Check : <>[](Steady(c, "down") /\ Unobstructed(c)) => <>[](incident[c] \in Active)

\* A lasting outage shows on every device below, however deep, and leaves no
\* incident there; one result reaches one level, repetition the rest.
OutageReachesDescendants ==
    \A c \in Check, e \in Device :
        <>[](Steady(c, "down") /\ e \in Descendants(parent, DeviceOf[c]))
            => <>[](/\ dstatus[e] = "dependency"
                    /\ \A k \in Check : DeviceOf[k] = e => incident[k] = "none")
=============================================================================
