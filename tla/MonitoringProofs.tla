-------------------------- MODULE MonitoringProofs --------------------------
(***************************************************************************)
(* Theorems about Monitoring, for every set of devices, checks, workers    *)
(* and services.                                                           *)
(***************************************************************************)
EXTENDS Monitoring, DeviceHealthProofs

USE CheckAssumption

-----------------------------------------------------------------------------
(* Type correctness.                                                       *)

\* The devices' own health is a function to the statuses other than dependency.
LEMMA OwnType ==
    ASSUME NEW cs, NEW sv, NEW reporters
    PROVE  Own(cs, sv, reporters) \in [Device -> DeviceStatus \ {"dependency"}]
  BY OwnHealthType DEF Own, OwnOf

\* A claim is an execution of a check that has a row.
LEMMA SnapshotType ==
    ASSUME TypeOK, NEW c \in Installed, NEW result \in Outcome \cup {"pending"}
    PROVE  Snapshot(c, result) \in Execution
  BY DEF Snapshot, Execution, Installed

\* What a transaction reads in its beginning.
LEMMA ViewType ==
    ASSUME TypeOK, NEW S \in SUBSET Device, NEW d \in Device, NEW entry \in Entry
    PROVE  View(S, d, entry) \in Reading
  <1>1. [c \in Check |-> IF DeviceOf[c] \in S THEN cstatus[c] ELSE "unknown"]
          \in [Check -> CheckStatus \cup NoRow]
    BY DEF TypeOK, CheckStatus
  <1>2. [e \in Device |-> IF e \in S THEN services[e] ELSE [s \in Service |-> "ok"]]
          \in [Device -> [Service -> Condition]]
    BY DEF TypeOK, Condition
  <1>3. S \cap (hosts \cup agents) \in SUBSET Device
    BY DEF TypeOK
  <1>4. (d \in S /\ ParentFailing(dstatus, parent, d)) \in BOOLEAN
    OBVIOUS
  <1>5. QED
    BY <1>1, <1>2, <1>3, <1>4 DEF View, Reading

(***************************************************************************)
(* What the recalculations of d make of the table: a device goes without a *)
(* new status, or shows a dependency failure, or its own health by the     *)
(* rows that are committed, or by those the transaction read before, which *)
(* were different.                                                         *)
(***************************************************************************)
LEMMA RecalculatedShape ==
    ASSUME NEW status \in [Device -> DeviceStatus \cup NoRow], parent \in ParentFunction,
           NEW v, NEW then \in [Device -> DeviceStatus \ {"dependency"}],
           NEW now \in [Device -> DeviceStatus \ {"dependency"}], NEW d \in Device,
           NEW new \in Recalculated(status, v, then, now, d)
    PROVE  /\ new \in [Device -> DeviceStatus \cup NoRow]
           /\ \A e \in Device :
                \/ e # d /\ new[e] = status[e]
                \/ new[e] \in {"dependency", now[e]}
                \/ e \in v.rows /\ then[e] # now[e] /\ new[e] = then[e]
  <1>1. PICK S \in SUBSET {e \in v.rows : then[e] # now[e]} :
               \E hidden : new = Recalc(status, parent, Mixed(then, now, S), hidden, d)
    BY DEF Recalculated
  <1>2. PICK hidden : new = Recalc(status, parent, Mixed(then, now, S), hidden, d)
    BY <1>1
  <1> DEFINE own == Mixed(then, now, S)
  <1>3. /\ own \in [Device -> DeviceStatus]
        /\ \A e \in Device : \/ own[e] = now[e]
                             \/ e \in v.rows /\ then[e] # now[e] /\ own[e] = then[e]
    BY DEF Mixed
  <1>4. new = Recalc(status, parent, own, hidden, d)
    BY <1>2
  <1> HIDE DEF own
  <1>5. DeviceStatus \subseteq DeviceStatus \cup NoRow
    OBVIOUS
  <1>6. /\ new \in [Device -> DeviceStatus \cup NoRow]
        /\ \A e \in Device : new[e] = status[e] \/ new[e] \in {"dependency", own[e]}
        /\ new[d] \in {"dependency", own[d]}
    BY <1>3, <1>4, <1>5, RecalcShape
  <1>7. QED
    BY <1>3, <1>6

\* It is a recalculation by some reading of the rows.
LEMMA RecalculatedBy ==
    ASSUME NEW status, NEW v, NEW then \in [Device -> DeviceStatus \ {"dependency"}],
           NEW now \in [Device -> DeviceStatus \ {"dependency"}], NEW d \in Device,
           NEW new \in Recalculated(status, v, then, now, d)
    PROVE  \E own \in [Device -> DeviceStatus \ {"dependency"}] : \E hidden :
               new = Recalc(status, parent, own, hidden, d)
  <1>1. PICK S \in SUBSET {e \in v.rows : then[e] # now[e]} :
               \E hidden : new = Recalc(status, parent, Mixed(then, now, S), hidden, d)
    BY DEF Recalculated
  <1>2. Mixed(then, now, S) \in [Device -> DeviceStatus \ {"dependency"}]
    BY DEF Mixed
  <1>3. QED
    BY <1>1, <1>2

\* Every action keeps the types.
LEMMA TypeStep ==
    ASSUME TypeOK, [Next]_vars
    PROVE  TypeOK'
  <1> USE DEF inventory, incidents, reports, open, remote, Installed
  <1>1. CASE UNCHANGED vars
    BY <1>1 DEF vars, TypeOK
  <1>2. ASSUME NEW d \in Device, NEW p \in Device \cup {NoDevice}, CreateDevice(d, p)
        PROVE  TypeOK'
    BY <1>2 DEF CreateDevice, TypeOK, DeviceStatus
  <1>3. ASSUME NEW d \in Device, NEW p \in Device \cup {NoDevice}, UpdateDevice(d, p)
        PROVE  TypeOK'
    BY <1>3 DEF UpdateDevice, TypeOK
  <1>4. ASSUME NEW d \in Device, DeleteDevice(d)
        PROVE  TypeOK'
    BY <1>4 DEF DeleteDevice, TypeOK, NoRow, Lifecycle, Condition
  <1>5. ASSUME NEW c \in Check, CreateCheck(c)
        PROVE  TypeOK'
    BY <1>5 DEF CreateCheck, TypeOK, CheckStatus
  <1>6. ASSUME NEW S \in SUBSET Maintained, ChangeMaintenance(S)
        PROVE  TypeOK'
    BY <1>6 DEF ChangeMaintenance, TypeOK, Live
  <1>7. ASSUME NEW c \in Check, BecomeDue(c)
        PROVE  TypeOK'
    BY <1>7 DEF BecomeDue, TypeOK
  <1>8. ASSUME NEW w \in Worker, NEW c \in Check, ClaimDue(w, c)
        PROVE  TypeOK'
    <2>1. c \in Installed
      BY <1>8 DEF ClaimDue, TypeOK
    <2>2. Snapshot(c, "pending") \in Execution
      BY <2>1, SnapshotType
    <2>3. QED
      BY <1>8, <2>2 DEF ClaimDue, TypeOK, Installed
  <1>9. ASSUME NEW w \in Worker, Execute(w)
        PROVE  TypeOK'
    <2>1. claim[w] \in Execution /\ claim[w].check \in Check
      BY <1>9 DEF Execute, TypeOK, Execution
    <2>2. Probe(claim[w].check) \in Outcome
      BY <2>1 DEF Probe, TypeOK
    <2>3. [claim[w] EXCEPT !.result = Probe(claim[w].check)] \in Execution
      BY <2>1, <2>2 DEF Execution
    <2>4. claim' \in [Worker -> Execution \cup {Idle}]
      BY <1>9, <2>3 DEF Execute, TypeOK
    <2>5. QED
      BY <1>9, <2>4 DEF Execute, TypeOK
  <1>10. ASSUME NEW w \in Worker, RecordResult(w)
         PROVE  TypeOK'
    <2> DEFINE e == claim[w]
    <2>1. /\ e \in Execution
          /\ e.check \in Check
          /\ e.result \in CheckStatus
          /\ DeviceOf[e.check] \in Device
      BY <1>10 DEF RecordResult, TypeOK, Execution, Outcome, CheckStatus
    <2>2. cstatus' \in [Check -> CheckStatus \cup NoRow]
      BY <1>10, <2>1 DEF RecordResult, TypeOK
    <2>3. dstatus' \in [Device -> DeviceStatus \cup NoRow]
      <3> DEFINE then == Own([tx[w].checks EXCEPT ![e.check] = e.result], tx[w].services, tx[w].reporters)
                 now == Own(cstatus', services, hosts \cup agents)
                 d == DeviceOf[e.check]
      <3>1. dstatus' \in Recalculated(dstatus, tx[w], then, now, d)
        BY <1>10 DEF RecordResult
      <3>2. /\ then \in [Device -> DeviceStatus \ {"dependency"}]
            /\ now \in [Device -> DeviceStatus \ {"dependency"}]
        BY OwnType
      <3>3. dstatus \in [Device -> DeviceStatus \cup NoRow] /\ parent \in ParentFunction /\ d \in Device
        BY <2>1 DEF TypeOK, ParentFunction
      <3> HIDE DEF then, now, d
      <3>4. QED
        BY <3>1, <3>2, <3>3, RecalculatedShape
    <2>4. incident' \in [Check -> Lifecycle]
      <3>1. CheckIncident(e.check, tx[w].entry) \in [Check -> Lifecycle]
        BY <2>1 DEF CheckIncident, TypeOK, Lifecycle
      <3>2. QED
        BY <1>10, <3>1 DEF RecordResult, Unsuppressed, Lifecycle
    <2>5. alarm' \in [Device \X Service -> Lifecycle]
      BY <1>10 DEF RecordResult, Unsuppressed, TypeOK, Lifecycle
    <2>6. QED
      BY <1>10, <2>1, <2>2, <2>3, <2>4, <2>5 DEF RecordResult, TypeOK
  <1>11. ASSUME NEW w \in Worker, RecordFails(w)
         PROVE  TypeOK'
    BY <1>11 DEF RecordFails, TypeOK
  <1>12. ASSUME NEW w \in Worker, BeginRecord(w)
         PROVE  TypeOK'
    <2>1. DeviceOf[claim[w].check] \in Device
      BY <1>12 DEF BeginRecord
    <2>2. IncidentEntry(claim[w]) \in Entry
      BY DEF IncidentEntry, Entry
    <2>3. View(Device, DeviceOf[claim[w].check], IncidentEntry(claim[w])) \in Reading
      BY <2>1, <2>2, ViewType
    <2>4. QED
      BY <1>12, <2>3 DEF BeginRecord, TypeOK
  <1>13. CASE Restart
    BY <1>13 DEF Restart, TypeOK
  <1>14. CASE EnrollCollector \/ RevokeCollector \/ CollectorLapses
    BY <1>14 DEF EnrollCollector, RevokeCollector, CollectorLapses, TypeOK
  <1>15. ASSUME NEW S \in SUBSET Check, CollectorFetch(S)
         PROVE  TypeOK'
    BY <1>15 DEF CollectorFetch, TypeOK
  <1>16. ASSUME NEW c \in Check, CollectorExecute(c)
         PROVE  TypeOK'
    BY <1>16 DEF CollectorExecute, Probe, TypeOK, Job
  <1>17. ASSUME NEW w \in Worker, CollectorPost(w)
         PROVE  TypeOK'
    <2>1. /\ job.check \in Installed
          /\ job.result \in Outcome
      BY <1>17 DEF CollectorPost, TypeOK, Job
    <2>2. Snapshot(job.check, job.result) \in Execution
      BY <2>1, SnapshotType
    <2>3. QED
      BY <1>17, <2>2 DEF CollectorPost, TypeOK
  <1>18. CASE CollectorRefused \/ CollectorDrops
    BY <1>18 DEF CollectorRefused, CollectorDrops, TypeOK
  <1>19. ASSUME NEW d \in Device, NEW sv \in [Service -> Condition], NEW event \in MonitEvents,
                MonitReport(d, sv, event)
         PROVE  TypeOK'
    <2>1. Reported(d) \in [Device -> DeviceStatus \cup NoRow]
      BY DEF Reported, TypeOK, DeviceStatus
    <2>2. dstatus' \in [Device -> DeviceStatus \cup NoRow]
      <3> DEFINE v == report[<<"monit", d>>]
      <3>1. dstatus' \in Recalculated(Reported(d), v,
                            Own(v.checks, [v.services EXCEPT ![d] = sv], v.reporters \cup {d}),
                            Own(cstatus, services', hosts' \cup agents), d)
        BY <1>19 DEF MonitReport
      <3>2. QED
        BY <2>1, <3>1, OwnType, RecalculatedShape DEF TypeOK, ParentFunction
    <2>3. alarm' \in [Device \X Service -> Lifecycle]
      BY <1>19 DEF MonitReport, AlarmAfter, TypeOK, Lifecycle
    <2>4. QED
      BY <1>19, <2>2, <2>3 DEF MonitReport, TypeOK
  <1>20. ASSUME NEW d \in Device, AgentReport(d)
         PROVE  TypeOK'
    <2>1. Reported(d) \in [Device -> DeviceStatus \cup NoRow]
      BY DEF Reported, TypeOK, DeviceStatus
    <2>2. dstatus' \in [Device -> DeviceStatus \cup NoRow]
      <3> DEFINE v == report[<<"agent", d>>]
      <3>1. dstatus' \in Recalculated(Reported(d), v,
                            Own(v.checks, v.services, v.reporters \cup {d}),
                            Own(cstatus, services, hosts \cup agents'), d)
        BY <1>20 DEF AgentReport
      <3>2. QED
        BY <2>1, <3>1, OwnType, RecalculatedShape DEF TypeOK, ParentFunction
    <2>3. QED
      BY <1>20, <2>2 DEF AgentReport, TypeOK
  <1>21. ASSUME NEW c \in Check, Acknowledge(c)
         PROVE  TypeOK'
    BY <1>21 DEF Acknowledge, TypeOK, Lifecycle
  <1>22. ASSUME NEW x \in Device \X Service, AcknowledgeAlarm(x)
         PROVE  TypeOK'
    BY <1>22 DEF AcknowledgeAlarm, TypeOK, Lifecycle
  <1>23. ASSUME NEW c \in Check, Turn(c)
         PROVE  TypeOK'
    BY <1>23 DEF Turn, TypeOK, Outcome
  <1>24. ASSUME NEW d \in Device, BeginMonit(d)
         PROVE  TypeOK'
    <2>1. View(Device, d, "nothing") \in Reading
      BY ViewType DEF Entry
    <2>2. QED
      BY <1>24, <2>1 DEF BeginMonit, TypeOK
  <1>25. ASSUME NEW d \in Device, BeginAgent(d)
         PROVE  TypeOK'
    <2>1. View(Device \ {d}, d, "nothing") \in Reading
      BY ViewType DEF Entry
    <2>2. QED
      BY <1>25, <2>1 DEF BeginAgent, TypeOK
  <1>26. ASSUME NEW q \in Reports, ReportFails(q)
         PROVE  TypeOK'
    BY <1>26 DEF ReportFails, TypeOK
  <1>27. QED
    BY <1>1, <1>2, <1>3, <1>4, <1>5, <1>6, <1>7, <1>8, <1>9, <1>10, <1>11, <1>12, <1>13,
       <1>14, <1>15, <1>16, <1>17, <1>18, <1>19, <1>20, <1>21, <1>22, <1>23, <1>24, <1>25,
       <1>26 DEF Next

\* The variables always have their types.
THEOREM TypeCorrect == Spec => []TypeOK
  <1>1. Init => TypeOK
    BY DEF Init, TypeOK, NoRow, Lifecycle, Condition, Installed, CheckStatus
  <1>2. TypeOK /\ [Next]_vars => TypeOK'
    BY TypeStep
  <1>3. QED
    BY <1>1, <1>2, PTL DEF Spec

-----------------------------------------------------------------------------
(* The actions that write the rows device health is computed from.         *)

Quiet == UNCHANGED <<parent, dstatus, cstatus, hosts, services, agents>>

\* The seven writers; every other step leaves those rows alone.
Writer ==
    \/ \E d \in Device, p \in Device \cup {NoDevice} : CreateDevice(d, p)
    \/ \E d \in Device, p \in Device \cup {NoDevice} : UpdateDevice(d, p)
    \/ \E d \in Device : DeleteDevice(d)
    \/ \E c \in Check : CreateCheck(c)
    \/ \E w \in Worker : RecordResult(w)
    \/ \E d \in Device, sv \in [Service -> Condition], event \in MonitEvents :
         MonitReport(d, sv, event)
    \/ \E d \in Device : AgentReport(d)

LEMMA QuietOrWriter ==
    ASSUME [Next]_vars
    PROVE  Quiet \/ Writer
  BY DEF Next, vars, inventory, incidents, reports, open, remote, Quiet, Writer, ChangeMaintenance,
         BecomeDue, ClaimDue, Execute, RecordFails, BeginRecord, BeginMonit, BeginAgent,
         ReportFails, Restart, EnrollCollector,
         RevokeCollector, CollectorLapses, CollectorFetch, CollectorExecute, CollectorPost,
         CollectorRefused, CollectorDrops, Acknowledge, AcknowledgeAlarm, Turn

OwnNow == Own(cstatus, services, hosts \cup agents)

\* In the next state it is a function of the rows of the next state.
LEMMA OwnNextType == OwnNow' \in [Device -> DeviceStatus \ {"dependency"}]
  BY OwnType DEF OwnNow

\* It changes with the rows only.
LEMMA OwnUnchanged ==
    ASSUME UNCHANGED <<cstatus, services, hosts, agents>>
    PROVE  OwnNow' = OwnNow
  BY DEF OwnNow, Own, OwnOf

\* Current, with it.
LEMMA CurrentByOwn ==
    ASSUME NEW d \in Device
    PROVE  /\ Current(d) <=> dstatus[d] \in {"dependency", OwnNow[d]}
           /\ Current(d)' <=> dstatus'[d] \in {"dependency", OwnNow'[d]}
  BY DEF Current, OwnNow, Own, OwnOf

\* A transaction that recalculates d: it writes rows of d, and what it shows on
\* a device is current unless others have written rows that it had read.
Recalculates(d) ==
    /\ parent' = parent
    /\ Installed' = Installed
    /\ Live \cup {d} \subseteq Live'
    /\ \A e \in Device :
         \/ e # d /\ dstatus'[e] = dstatus[e]
         \/ dstatus'[e] \in {"dependency", OwnNow'[e]}
         \/ \E v \in Ending : Overtaken(v, e)
    /\ \A e \in Device \ {d} : /\ OwnNow'[e] = OwnNow[e]
                               /\ services'[e] = services[e]
    /\ hosts' \cup agents' \subseteq hosts \cup agents \cup {d}

\* The health of a device depends on its own rows only, and of the statuses of
\* its checks only on which are up and which are down.
LEMMA OwnLocal ==
    ASSUME NEW e \in Device, NEW cs, NEW cs2, NEW sv, NEW sv2, NEW r, NEW r2,
           \A c \in Check : DeviceOf[c] = e => /\ cs2[c] = "up" <=> cs[c] = "up"
                                               /\ cs2[c] = "down" <=> cs[c] = "down",
           sv2[e] = sv[e], e \in r2 <=> e \in r
    PROVE  Own(cs2, sv2, r2)[e] = Own(cs, sv, r)[e]
  <1> DEFINE before == {cs[c] : c \in {k \in Check : DeviceOf[k] = e}}
             after  == {cs2[c] : c \in {k \in Check : DeviceOf[k] = e}}
             rows   == {sv[e][s] : s \in Service}
  <1>1. ("up" \in after <=> "up" \in before) /\ ("down" \in after <=> "down" \in before)
    OBVIOUS
  <1>2. {sv2[e][s] : s \in Service} = rows
    OBVIOUS
  <1>3. Own(cs, sv, r)[e] = OwnHealth(before, rows, e \in r)
    BY DEF Own, OwnOf
  <1>4. Own(cs2, sv2, r2)[e] = OwnHealth(after, rows, e \in r2)
    BY <1>2 DEF Own, OwnOf
  <1>5. OwnHealth(after, rows, e \in r2) = OwnHealth(before, rows, e \in r)
    BY <1>1 DEF OwnHealth
  <1>6. QED
    BY <1>3, <1>4, <1>5

\* What RecalculatedShape says of a step of the system.
LEMMA RecalcStep ==
    ASSUME TypeOK, NEW status \in [Device -> DeviceStatus \cup NoRow], NEW d \in Device,
           \A e \in Device \ {d} : status[e] = dstatus[e],
           NEW v \in Ending, NEW then \in [Device -> DeviceStatus \ {"dependency"}],
           dstatus' \in Recalculated(status, v, then, OwnNow', d),
           \A e \in Device : e \in v.rows /\ ~Overtaken(v, e) => then[e] = OwnNow'[e]
    PROVE  /\ \A e \in Device :
                \/ e # d /\ dstatus'[e] = dstatus[e]
                \/ dstatus'[e] \in {"dependency", OwnNow'[e]}
                \/ \E u \in Ending : Overtaken(u, e)
           /\ Live \cup {d} \subseteq Live'
  <1>1. parent \in ParentFunction
    BY DEF TypeOK, ParentFunction
  <1>2. \A e \in Device :
          \/ e # d /\ dstatus'[e] = status[e]
          \/ dstatus'[e] \in {"dependency", OwnNow'[e]}
          \/ e \in v.rows /\ then[e] # OwnNow'[e] /\ dstatus'[e] = then[e]
    BY <1>1, OwnNextType, RecalculatedShape
  <1>3. \A e \in Device : OwnNow'[e] \in DeviceStatus /\ then[e] \in DeviceStatus
    BY OwnNextType
  <1>4. \A e \in Device : (e # d /\ dstatus'[e] = dstatus[e]) \/ dstatus'[e] \in DeviceStatus
    BY <1>2, <1>3 DEF DeviceStatus
  <1>5. Live \cup {d} \subseteq Live'
    BY <1>4 DEF Live
  <1>6. QED
    BY <1>2, <1>5

LEMMA RecordRecalculates ==
    ASSUME TypeOK, NEW w \in Worker, RecordResult(w)
    PROVE  Recalculates(DeviceOf[claim[w].check])
  <1> DEFINE k == claim[w].check
             d == DeviceOf[k]
             v == tx[w]
             then == Own([v.checks EXCEPT ![k] = claim[w].result], v.services, v.reporters)
  <1>1. /\ k \in Check
        /\ k \in Installed
        /\ claim[w].result \in CheckStatus
        /\ d \in Device
        /\ v \in Reading
        /\ v \in Ending
    <2>1. claim[w] \in Execution /\ v \in Reading
      BY DEF RecordResult, TypeOK
    <2>2. tx'[w] = Idle
      BY DEF RecordResult, TypeOK
    <2>3. QED
      BY <2>1, <2>2 DEF RecordResult, Outcome, CheckStatus, Installed, Ending
  <1>2. /\ cstatus' = [cstatus EXCEPT ![k] = claim[w].result]
        /\ dstatus' \in Recalculated(dstatus, v, then, Own(cstatus', services, hosts \cup agents), d)
        /\ UNCHANGED <<parent, services, hosts, agents>>
    BY DEF RecordResult, reports
  <1>3. OwnNow' = Own(cstatus', services, hosts \cup agents)
    BY <1>2 DEF OwnNow, Own, OwnOf
  <1>4. ASSUME NEW e \in Device, e \in v.rows, ~Overtaken(v, e)
        PROVE  then[e] = OwnNow'[e]
    <2>1. /\ \A c \in Check : DeviceOf[c] = e => v.checks[c] = cstatus[c]
          /\ v.services[e] = services[e]
          /\ e \in v.reporters <=> e \in hosts \cup agents
      BY <1>4 DEF Overtaken
    <2>2. \A c \in Check : DeviceOf[c] = e => [v.checks EXCEPT ![k] = claim[w].result][c] = cstatus'[c]
      BY <1>1, <1>2, <2>1 DEF TypeOK, Reading
    <2> DEFINE seen == [v.checks EXCEPT ![k] = claim[w].result]
    <2>3. \A c \in Check : DeviceOf[c] = e => seen[c] = cstatus'[c]
      BY <2>2
    <2> HIDE DEF seen
    <2>4. Own(cstatus', services, hosts \cup agents)[e] = Own(seen, v.services, v.reporters)[e]
      BY <2>1, <2>3, OwnLocal
    <2>5. QED
      BY <1>3, <2>4 DEF seen
  <1>5. then \in [Device -> DeviceStatus \ {"dependency"}]
    BY OwnType
  <1>6. /\ \A e \in Device :
             \/ e # d /\ dstatus'[e] = dstatus[e]
             \/ dstatus'[e] \in {"dependency", OwnNow'[e]}
             \/ \E u \in Ending : Overtaken(u, e)
        /\ Live \cup {d} \subseteq Live'
    <2>1. dstatus \in [Device -> DeviceStatus \cup NoRow]
      BY DEF TypeOK
    <2>2. dstatus' \in Recalculated(dstatus, v, then, OwnNow', d)
      BY <1>2, <1>3
    <2> HIDE DEF then, d, v
    <2>3. QED
      BY <1>1, <1>4, <1>5, <2>1, <2>2, RecalcStep
  <1>7. Installed' = Installed
    BY <1>1, <1>2 DEF Installed, TypeOK
  <1>8. \A e \in Device \ {d} : OwnNow'[e] = OwnNow[e]
    <2>1. ASSUME NEW e \in Device \ {d}
          PROVE  Own(cstatus', services', hosts' \cup agents')[e]
                   = Own(cstatus, services, hosts \cup agents)[e]
      <3>1. \A c \in Check : DeviceOf[c] = e => cstatus'[c] = cstatus[c]
        BY <1>2 DEF TypeOK
      <3>2. services'[e] = services[e] /\ (e \in hosts' \cup agents' <=> e \in hosts \cup agents)
        BY <1>2
      <3>3. QED
        BY <3>1, <3>2, OwnLocal
    <2>2. QED
      BY <2>1 DEF OwnNow, Own, OwnOf
  <1>9. QED
    BY <1>1, <1>2, <1>6, <1>7, <1>8 DEF Recalculates

LEMMA MonitRecalculates ==
    ASSUME TypeOK, NEW d \in Device, NEW sv \in [Service -> Condition],
           NEW event \in MonitEvents, MonitReport(d, sv, event)
    PROVE  Recalculates(d)
  <1> DEFINE v == report[<<"monit", d>>]
             then == Own(v.checks, [v.services EXCEPT ![d] = sv], v.reporters \cup {d})
  <1>1. /\ services' = [services EXCEPT ![d] = sv]
        /\ hosts' = hosts \cup {d}
        /\ dstatus' \in Recalculated(Reported(d), v, then, Own(cstatus, services', hosts' \cup agents), d)
        /\ UNCHANGED <<parent, cstatus, agents>>
    BY DEF MonitReport
  <1>2. /\ Reported(d) \in [Device -> DeviceStatus \cup NoRow]
        /\ \A e \in Device \ {d} : Reported(d)[e] = dstatus[e]
    BY DEF Reported, TypeOK, DeviceStatus
  <1>3. v \in Reading /\ v \in Ending
    <2>1. <<"monit", d>> \in Reports
      BY DEF Reports
    <2>2. v \in Reading /\ report'[<<"monit", d>>] = Idle
      BY <2>1 DEF MonitReport, TypeOK
    <2>3. QED
      BY <2>1, <2>2 DEF MonitReport, Ending
  <1>4. OwnNow' = Own(cstatus, services', hosts' \cup agents)
    BY <1>1 DEF OwnNow, Own, OwnOf
  <1>5. ASSUME NEW e \in Device, e \in v.rows, ~Overtaken(v, e)
        PROVE  then[e] = OwnNow'[e]
    <2>1. /\ \A c \in Check : DeviceOf[c] = e => v.checks[c] = cstatus[c]
          /\ v.services[e] = services[e]
          /\ e \in v.reporters <=> e \in hosts \cup agents
      BY <1>5 DEF Overtaken
    <2>2. /\ [v.services EXCEPT ![d] = sv][e] = services'[e]
          /\ e \in v.reporters \cup {d} <=> e \in hosts' \cup agents
      BY <1>1, <1>3, <2>1 DEF TypeOK, Reading
    <2> DEFINE seen == [v.services EXCEPT ![d] = sv]
               heard == v.reporters \cup {d}
    <2>3. seen[e] = services'[e] /\ (e \in heard <=> e \in hosts' \cup agents)
      BY <2>2
    <2> HIDE DEF seen, heard
    <2>4. Own(cstatus, services', hosts' \cup agents)[e] = Own(v.checks, seen, heard)[e]
      BY <2>1, <2>3, OwnLocal
    <2>5. QED
      BY <1>4, <2>4 DEF seen, heard
  <1>6. then \in [Device -> DeviceStatus \ {"dependency"}]
    BY OwnType
  <1>7. /\ \A e \in Device :
             \/ e # d /\ dstatus'[e] = dstatus[e]
             \/ dstatus'[e] \in {"dependency", OwnNow'[e]}
             \/ \E u \in Ending : Overtaken(u, e)
        /\ Live \cup {d} \subseteq Live'
    <2>1. dstatus' \in Recalculated(Reported(d), v, then, OwnNow', d)
      BY <1>1, <1>4
    <2> HIDE DEF then, v
    <2>2. QED
      BY <1>2, <1>3, <1>5, <1>6, <2>1, RecalcStep
  <1>8. \A e \in Device \ {d} : OwnNow'[e] = OwnNow[e]
    <2>1. ASSUME NEW e \in Device \ {d}
          PROVE  Own(cstatus, services', hosts' \cup agents)[e] = OwnNow[e]
      <3>1. services'[e] = services[e]
        BY <1>1 DEF TypeOK
      <3>2. e \in hosts' \cup agents <=> e \in hosts \cup agents
        BY <1>1
      <3>3. QED
        BY <3>1, <3>2, OwnLocal DEF OwnNow
    <2>2. QED
      BY <1>4, <2>1
  <1>9. Installed' = Installed
    BY <1>1 DEF Installed
  <1>10. QED
    BY <1>1, <1>7, <1>8, <1>9 DEF Recalculates, TypeOK

LEMMA AgentRecalculates ==
    ASSUME TypeOK, NEW d \in Device, AgentReport(d)
    PROVE  Recalculates(d)
  <1> DEFINE v == report[<<"agent", d>>]
             then == Own(v.checks, v.services, v.reporters \cup {d})
  <1>1. /\ agents' = agents \cup {d}
        /\ dstatus' \in Recalculated(Reported(d), v, then, Own(cstatus, services, hosts \cup agents'), d)
        /\ UNCHANGED <<parent, cstatus, hosts, services>>
    BY DEF AgentReport
  <1>2. /\ Reported(d) \in [Device -> DeviceStatus \cup NoRow]
        /\ \A e \in Device \ {d} : Reported(d)[e] = dstatus[e]
    BY DEF Reported, TypeOK, DeviceStatus
  <1>3. v \in Reading /\ v \in Ending
    <2>1. <<"agent", d>> \in Reports
      BY DEF Reports
    <2>2. v \in Reading /\ report'[<<"agent", d>>] = Idle
      BY <2>1 DEF AgentReport, TypeOK
    <2>3. QED
      BY <2>1, <2>2 DEF AgentReport, Ending
  <1>4. OwnNow' = Own(cstatus, services, hosts \cup agents')
    BY <1>1 DEF OwnNow, Own, OwnOf
  <1>5. ASSUME NEW e \in Device, e \in v.rows, ~Overtaken(v, e)
        PROVE  then[e] = OwnNow'[e]
    <2>1. /\ \A c \in Check : DeviceOf[c] = e => v.checks[c] = cstatus[c]
          /\ v.services[e] = services[e]
          /\ e \in v.reporters <=> e \in hosts \cup agents
      BY <1>5 DEF Overtaken
    <2>2. e \in v.reporters \cup {d} <=> e \in hosts \cup agents'
      BY <1>1, <2>1
    <2>3. Own(cstatus, services, hosts \cup agents')[e] = then[e]
      BY <2>1, <2>2, OwnLocal
    <2>4. QED
      BY <1>4, <2>3
  <1>6. then \in [Device -> DeviceStatus \ {"dependency"}]
    BY OwnType
  <1>7. /\ \A e \in Device :
             \/ e # d /\ dstatus'[e] = dstatus[e]
             \/ dstatus'[e] \in {"dependency", OwnNow'[e]}
             \/ \E u \in Ending : Overtaken(u, e)
        /\ Live \cup {d} \subseteq Live'
    <2>1. dstatus' \in Recalculated(Reported(d), v, then, OwnNow', d)
      BY <1>1, <1>4
    <2> HIDE DEF then, v
    <2>2. QED
      BY <1>2, <1>3, <1>5, <1>6, <2>1, RecalcStep
  <1>8. \A e \in Device \ {d} : OwnNow'[e] = OwnNow[e]
    <2>1. \A e \in Device \ {d} : e \in hosts \cup agents' <=> e \in hosts \cup agents
      BY <1>1
    <2>2. QED
      BY <1>4, <2>1, OwnLocal DEF OwnNow
  <1>9. Installed' = Installed
    BY <1>1 DEF Installed
  <1>10. QED
    BY <1>1, <1>7, <1>8, <1>9 DEF Recalculates

\* Results and reports, and what is left of the writers.
LEMMA StepKinds ==
    ASSUME TypeOK, [Next]_vars
    PROVE  \/ Quiet
           \/ \E d \in Device, p \in Device \cup {NoDevice} : CreateDevice(d, p)
           \/ \E d \in Device, p \in Device \cup {NoDevice} : UpdateDevice(d, p)
           \/ \E d \in Device : DeleteDevice(d)
           \/ \E c \in Check : CreateCheck(c)
           \/ \E d \in Device : Recalculates(d)
  <1>1. ASSUME NEW w \in Worker, RecordResult(w)
        PROVE  \E d \in Device : Recalculates(d)
    <2>1. DeviceOf[claim[w].check] \in Device
      BY <1>1 DEF RecordResult, Installed
    <2>2. QED
      BY <1>1, <2>1, RecordRecalculates
  <1>2. QED
    BY <1>1, QuietOrWriter, MonitRecalculates, AgentRecalculates DEF Writer

-----------------------------------------------------------------------------
(* The foreign keys.                                                       *)

LEMMA ReferencesStep ==
    ASSUME TypeOK, References, [Next]_vars
    PROVE  References'
  <1> USE DEF Installed, Live
  <1>1. CASE Quiet
    BY <1>1 DEF Quiet, References
  <1>2. ASSUME NEW d \in Device, NEW p \in Device \cup {NoDevice}, CreateDevice(d, p)
        PROVE  References'
    BY <1>2 DEF CreateDevice, References, reports, TypeOK, DeviceStatus
  <1>3. ASSUME NEW d \in Device, NEW p \in Device \cup {NoDevice}, UpdateDevice(d, p)
        PROVE  References'
    BY <1>3 DEF UpdateDevice, References, reports
  <1>4. ASSUME NEW d \in Device, DeleteDevice(d)
        PROVE  References'
    <2>1. /\ \A c \in Check : cstatus'[c] \in CheckStatus => cstatus[c] \in CheckStatus /\ DeviceOf[c] # d
          /\ \A e \in Device \ {d} : dstatus'[e] = dstatus[e] /\ services'[e] = services[e]
          /\ \A s \in Service : services'[d][s] = "ok"
          /\ hosts' \cup agents' = (hosts \cup agents) \ {d}
      BY <1>4 DEF DeleteDevice, TypeOK, CheckStatus
    <2>2. QED
      BY <2>1 DEF References
  <1>5. ASSUME NEW c \in Check, CreateCheck(c)
        PROVE  References'
    BY <1>5 DEF CreateCheck, References, reports, TypeOK
  <1>6. ASSUME NEW d \in Device, Recalculates(d)
        PROVE  References'
    <2>1. Installed' = Installed /\ Live \cup {d} \subseteq Live'
      BY <1>6 DEF Recalculates
    <2>2. /\ hosts' \cup agents' \subseteq Live'
          /\ \A e \in Device, s \in Service : services'[e][s] # "ok" => e \in Live'
      BY <1>6 DEF Recalculates, References
    <2>3. QED
      BY <2>1, <2>2 DEF References
  <1>7. QED
    BY <1>1, <1>2, <1>3, <1>4, <1>5, <1>6, StepKinds

\* Checks, Monit rows and agent rows never outlive their device.
THEOREM ReferencesHold == Spec => []References
  <1>1. Init => References
    BY DEF Init, References, Installed, CheckStatus
  <1>2. TypeOK /\ References /\ [Next]_vars => References'
    BY ReferencesStep
  <1>3. QED
    BY <1>1, <1>2, TypeCorrect, PTL DEF Spec

-----------------------------------------------------------------------------
(* When the stored health is not current.                                  *)

\* A device that nothing refers to is healthy in no way yet.
LEMMA UnbornUnknown ==
    ASSUME TypeOK, References, NEW d \in Device \ Live
    PROVE  OwnNow[d] = "unknown"
  <1>1. \A c \in Check : DeviceOf[c] = d => cstatus[c] \in NoRow
    BY DEF References, Installed, TypeOK
  <1>2. \A s \in Service : services[d][s] = "ok"
    BY DEF References
  <1>3. d \notin hosts \cup agents
    BY DEF References
  <1>4. QED
    BY <1>1, <1>2, <1>3 DEF OwnNow, Own, OwnOf, OwnHealth, NoRow

\* Steps that record no result of d leave it as current as it was, or make it
\* current, or end a transaction that was overtaken.
LEMMA OtherStep ==
    ASSUME TypeOK, References, [Next]_vars, NEW d \in Live'
    PROVE  \/ Current(d)'
           \/ d \in Live /\ ~Current(d)
           \/ \E v \in Ending : Overtaken(v, d)
  <1> USE DEF Live
  <1>0. d \in Device
    OBVIOUS
  <1>1. CASE OwnNow'[d] = OwnNow[d] /\ dstatus'[d] = dstatus[d]
    BY <1>0, <1>1, CurrentByOwn
  <1>2. CASE Quiet
    <2>1. OwnNow' = OwnNow /\ dstatus' = dstatus
      BY <1>2, OwnUnchanged DEF Quiet
    <2>2. QED
      BY <1>1, <2>1
  <1>3. ASSUME NEW e \in Device, NEW p \in Device \cup {NoDevice}, CreateDevice(e, p)
        PROVE  (OwnNow'[d] = OwnNow[d] /\ dstatus'[d] = dstatus[d]) \/ Current(d)'
    <2>1. /\ dstatus'[e] = "unknown"
          /\ \A k \in Device \ {e} : dstatus'[k] = dstatus[k]
          /\ OwnNow' = OwnNow
      BY <1>3, OwnUnchanged DEF CreateDevice, reports, TypeOK
    <2>2. OwnNow[e] = "unknown"
      BY <1>3, UnbornUnknown DEF CreateDevice, DeviceStatus
    <2>3. QED
      BY <1>0, <2>1, <2>2, CurrentByOwn
  <1>4. ASSUME NEW e \in Device, NEW p \in Device \cup {NoDevice}, UpdateDevice(e, p)
        PROVE  OwnNow'[d] = OwnNow[d] /\ dstatus'[d] = dstatus[d]
    BY <1>4, OwnUnchanged DEF UpdateDevice, reports
  <1>5. ASSUME NEW e \in Device, DeleteDevice(e)
        PROVE  OwnNow'[d] = OwnNow[d] /\ dstatus'[d] = dstatus[d]
    <2>1. d # e /\ dstatus'[d] = dstatus[d]
      BY <1>0, <1>5 DEF DeleteDevice, TypeOK, DeviceStatus
    <2>2. /\ \A c \in Check : DeviceOf[c] = d => cstatus'[c] = cstatus[c]
          /\ services'[d] = services[d]
          /\ d \in hosts' \cup agents' <=> d \in hosts \cup agents
      BY <1>0, <1>5, <2>1 DEF DeleteDevice, TypeOK
    <2>3. Own(cstatus', services', hosts' \cup agents')[d] = Own(cstatus, services, hosts \cup agents)[d]
      BY <1>0, <2>2, OwnLocal
    <2>4. QED
      BY <2>1, <2>3 DEF OwnNow, Own, OwnOf
  <1>6. ASSUME NEW c \in Check, CreateCheck(c)
        PROVE  OwnNow'[d] = OwnNow[d] /\ dstatus'[d] = dstatus[d]
    <2>1. \A k \in Check : /\ cstatus'[k] = "up" <=> cstatus[k] = "up"
                           /\ cstatus'[k] = "down" <=> cstatus[k] = "down"
      BY <1>6 DEF CreateCheck, TypeOK
    <2>2. UNCHANGED <<dstatus, services, hosts, agents>>
      BY <1>6 DEF CreateCheck, reports
    <2>3. Own(cstatus', services', hosts' \cup agents')[d] = Own(cstatus, services, hosts \cup agents)[d]
      BY <1>0, <2>1, <2>2, OwnLocal
    <2>4. QED
      BY <2>2, <2>3 DEF OwnNow, Own, OwnOf
  <1>7. ASSUME NEW e \in Device, Recalculates(e)
        PROVE  \/ OwnNow'[d] = OwnNow[d] /\ dstatus'[d] = dstatus[d]
               \/ Current(d)'
               \/ \E v \in Ending : Overtaken(v, d)
    BY <1>0, <1>7, CurrentByOwn DEF Recalculates
  <1>8. QED
    BY <1>1, <1>2, <1>3, <1>4, <1>5, <1>6, <1>7, StepKinds

\* Whatever results, reports, moves and deletions come in, in any number at the
\* same time: a device is turned to a status that its rows do not imply only by
\* a transaction that another one has overtaken, and set right by the next
\* result that is not.
THEOREM HealthMisledByOverlapsOnly == Spec => OnlyOverlapsMislead
  <1>1. TypeOK /\ References /\ [Next]_vars =>
          [\A d \in Live' :
             \/ Current(d)'
             \/ /\ d \in Live /\ ~Current(d)
                /\ ~\E w \in Worker : RecordResult(w) /\ DeviceOf[claim[w].check] = d
             \/ \E v \in Ending : Overtaken(v, d)]_vars
    <2>1. SUFFICES ASSUME TypeOK, References, [Next]_vars, NEW d \in Live'
                   PROVE  \/ Current(d)'
                          \/ /\ d \in Live /\ ~Current(d)
                             /\ ~\E w \in Worker : RecordResult(w) /\ DeviceOf[claim[w].check] = d
                          \/ \E v \in Ending : Overtaken(v, d)
      OBVIOUS
    <2>2. ASSUME NEW w \in Worker, RecordResult(w), DeviceOf[claim[w].check] = d
          PROVE  Current(d)' \/ \E v \in Ending : Overtaken(v, d)
      <3>1. d \in Device
        BY <2>1 DEF Live
      <3>2. Recalculates(d)
        BY <2>1, <2>2, RecordRecalculates
      <3>3. dstatus'[d] \in {"dependency", OwnNow'[d]} \/ \E v \in Ending : Overtaken(v, d)
        BY <3>1, <3>2 DEF Recalculates
      <3>4. QED
        BY <3>1, <3>3, CurrentByOwn
    <2>3. QED
      BY <2>1, <2>2, OtherStep
  <1>2. QED
    BY <1>1, TypeCorrect, ReferencesHold, PTL DEF Spec, OnlyOverlapsMislead

-----------------------------------------------------------------------------
(* The tree.                                                               *)

\* A device with a parent has a row, and so has the parent.
LEMMA RowsOfParents ==
    ASSUME Forest, NEW e \in Device, parent[e] # NoDevice
    PROVE  {e, parent[e]} \subseteq Live
  BY DEF Forest

\* The two halves of Forest, in the next state.
LEMMA ForestNext ==
    ASSUME \A e \in Device : parent'[e] # NoDevice => {e, parent'[e]} \subseteq Live',
           Acyclic(parent')
    PROVE  Forest'
  BY DEF Forest, Acyclic

LEMMA ForestStep ==
    ASSUME TypeOK, Forest, [Next]_vars
    PROVE  Forest'
  <1> USE DEF Live
  <1>1. parent \in ParentFunction /\ Acyclic(parent)
    BY DEF TypeOK, Forest, ParentFunction, Acyclic
  <1>2. CASE Quiet
    BY <1>2 DEF Quiet, Forest
  <1>3. ASSUME NEW d \in Device, NEW p \in Device \cup {NoDevice}, CreateDevice(d, p)
        PROVE  Forest'
    <2>1. /\ parent' = [parent EXCEPT ![d] = p]
          /\ dstatus' = [dstatus EXCEPT ![d] = "unknown"]
          /\ dstatus[d] = "unborn"
          /\ p # NoDevice => p \in Live
      BY <1>3 DEF CreateDevice
    <2>2. parent'[d] = p /\ (\A e \in Device \ {d} : parent'[e] = parent[e])
      BY <2>1 DEF TypeOK
    <2>3. \A e \in Device : parent[e] # d
      BY <2>1, NoDeviceAssumption DEF Forest, DeviceStatus
    <2>4. Acyclic(parent')
      <3>1. CASE p = NoDevice
        <4>1. parent' \in ParentFunction
          BY <2>1, <3>1 DEF TypeOK, ParentFunction
        <4>2. \A e \in Device : parent'[e] \in {parent[e], NoDevice}
          BY <2>2, <3>1
        <4>3. QED
          BY <1>1, <4>1, <4>2, DetachKeepsAcyclic
      <3>2. CASE p # NoDevice
        <4>1. Descendants(parent, d) = {}
          <5>1. ClosedBelow(parent, d, {})
            BY <2>3 DEF ClosedBelow
          <5>2. QED
            BY <5>1, DescendantsLeast
        <4>2. p \in Device /\ p # d
          BY <2>1, <3>2 DEF DeviceStatus
        <4>3. d \notin AncestorsOf(parent, p)
          BY <4>1, <4>2 DEF AncestorsOf
        <4>4. QED
          BY <1>1, <2>1, <4>2, <4>3, AttachKeepsAcyclic
      <3>3. QED
        BY <3>1, <3>2
    <2>5. Live \cup {d} \subseteq Live'
      BY <2>1 DEF TypeOK, DeviceStatus
    <2>6. ASSUME NEW e \in Device, parent'[e] # NoDevice
          PROVE  {e, parent'[e]} \subseteq Live'
      <3>1. CASE e = d
        BY <2>1, <2>2, <2>5, <2>6, <3>1
      <3>2. CASE e # d
        BY <2>2, <2>5, <2>6, <3>2, RowsOfParents
      <3>3. QED
        BY <3>1, <3>2
    <2>7. QED
      BY <2>4, <2>6, ForestNext
  <1>4. ASSUME NEW d \in Device, NEW p \in Device \cup {NoDevice}, UpdateDevice(d, p)
        PROVE  Forest'
    <2>1. /\ parent' = [parent EXCEPT ![d] = p]
          /\ dstatus' = dstatus
          /\ d \in Live
          /\ p # NoDevice => p \in Live /\ d \notin AncestorsOf(parent, p)
      BY <1>4 DEF UpdateDevice
    <2>2. parent'[d] = p /\ (\A e \in Device \ {d} : parent'[e] = parent[e])
      BY <2>1 DEF TypeOK
    <2>3. Acyclic(parent')
      <3>1. CASE p = NoDevice
        <4>1. parent' \in ParentFunction
          BY <2>1, <3>1 DEF TypeOK, ParentFunction
        <4>2. \A e \in Device : parent'[e] \in {parent[e], NoDevice}
          BY <2>2, <3>1
        <4>3. QED
          BY <1>1, <4>1, <4>2, DetachKeepsAcyclic
      <3>2. CASE p # NoDevice
        BY <1>1, <2>1, <3>2, AttachKeepsAcyclic
      <3>3. QED
        BY <3>1, <3>2
    <2>4. ASSUME NEW e \in Device, parent'[e] # NoDevice
          PROVE  {e, parent'[e]} \subseteq Live'
      <3>1. Live' = Live
        BY <2>1
      <3>2. CASE e = d
        BY <2>1, <2>2, <2>4, <3>1, <3>2
      <3>3. CASE e # d
        BY <2>2, <2>4, <3>1, <3>3, RowsOfParents
      <3>4. QED
        BY <3>2, <3>3
    <2>5. QED
      BY <2>3, <2>4, ForestNext
  <1>5. ASSUME NEW d \in Device, DeleteDevice(d)
        PROVE  Forest'
    <2>1. /\ parent' = [e \in Device |-> IF d \in {e, parent[e]} THEN NoDevice ELSE parent[e]]
          /\ \A e \in Device \ {d} : dstatus'[e] = dstatus[e]
      BY <1>5 DEF DeleteDevice, TypeOK
    <2>2. Acyclic(parent')
      <3>1. parent' \in ParentFunction
        BY <2>1 DEF TypeOK, ParentFunction
      <3>2. \A e \in Device : parent'[e] \in {parent[e], NoDevice}
        BY <2>1
      <3>3. QED
        BY <1>1, <3>1, <3>2, DetachKeepsAcyclic
    <2>3. ASSUME NEW e \in Device, parent'[e] # NoDevice
          PROVE  {e, parent'[e]} \subseteq Live'
      <3>1. /\ parent'[e] = parent[e]
            /\ d \notin {e, parent[e]}
        BY <2>1, <2>3
      <3>2. {e, parent[e]} \subseteq Live
        BY <2>3, <3>1, RowsOfParents
      <3>3. QED
        BY <2>1, <3>1, <3>2
    <2>4. QED
      BY <2>2, <2>3, ForestNext
  <1>6. ASSUME NEW c \in Check, CreateCheck(c)
        PROVE  Forest'
    BY <1>6 DEF CreateCheck, Forest
  <1>7. ASSUME NEW d \in Device, Recalculates(d)
        PROVE  Forest'
    BY <1>7 DEF Recalculates, Forest
  <1>8. QED
    BY <1>2, <1>3, <1>4, <1>5, <1>6, <1>7, StepKinds

\* Whatever devices operators create, move and delete, one request at a time,
\* no device ends up above itself and no parent lacks a row.
THEOREM ForestHolds == Spec => []Forest
  <1>1. Init => Forest
    <2> SUFFICES ASSUME Init PROVE Forest
      OBVIOUS
    <2>1. ASSUME NEW d \in Device
          PROVE  d \notin Descendants(parent, d)
      <3>1. ClosedBelow(parent, d, {})
        BY NoDeviceAssumption DEF Init, ClosedBelow
      <3>2. QED
        BY <3>1, DescendantsLeast
    <2>2. QED
      BY <2>1 DEF Init, Forest
  <1>2. TypeOK /\ Forest /\ [Next]_vars => Forest'
    BY ForestStep
  <1>3. QED
    BY <1>1, <1>2, TypeCorrect, PTL DEF Spec

-----------------------------------------------------------------------------
(* Incidents.                                                              *)

\* What holds while a result is being recorded: its entry follows from the claim
\* and what has been read, it opens nothing that is open, and no other result of
\* the check comes in between.
Recording ==
    \A w \in Worker : tx[w] # Idle =>
       /\ claim[w] # Idle /\ claim[w].result \in Outcome
       /\ tx[w].entry = "resolves" <=> claim[w].result = "up"
       /\ tx[w].entry = "nothing" => claim[w].maintenance \/ tx[w].hidden
       /\ tx[w].entry = "opens" => incident[claim[w].check] = "none"
       /\ \A v \in Worker : tx[v] # Idle /\ claim[v].check = claim[w].check => v = w

\* No transaction begins, no claim that has one changes and no incident opens.
NothingRecorded ==
    /\ \A w \in Worker : tx'[w] # Idle => tx'[w] = tx[w] /\ claim'[w] = claim[w]
    /\ \A c \in Check : incident[c] = "none" => incident'[c] = "none"

LEMMA RecordingFrame ==
    ASSUME TypeOK, Recording, [Next]_vars
    PROVE  \/ \E w \in Worker : BeginRecord(w)
           \/ \E w \in Worker : RecordResult(w)
           \/ NothingRecorded
  <1>1. ASSUME NEW w \in Worker, NEW c \in Check, ClaimDue(w, c)
        PROVE  NothingRecorded
    BY <1>1 DEF ClaimDue, open, incidents, Recording, TypeOK, NothingRecorded
  <1>2. ASSUME NEW w \in Worker, CollectorPost(w)
        PROVE  NothingRecorded
    BY <1>2 DEF CollectorPost, open, incidents, Recording, TypeOK, NothingRecorded
  <1>3. ASSUME NEW w \in Worker, Execute(w)
        PROVE  NothingRecorded
    <2>1. tx[w] = Idle
      BY <1>3 DEF Execute, Recording, Outcome
    <2>2. QED
      BY <1>3, <2>1 DEF Execute, open, incidents, TypeOK, NothingRecorded
  <1>4. ASSUME NEW w \in Worker, RecordFails(w)
        PROVE  NothingRecorded
    BY <1>4 DEF RecordFails, incidents, TypeOK, NothingRecorded
  <1>5. CASE Restart
    BY <1>5 DEF Restart, incidents, NothingRecorded
  <1>6. ASSUME NEW d \in Device, DeleteDevice(d)
        PROVE  NothingRecorded
    BY <1>6 DEF DeleteDevice, open, NothingRecorded
  <1>7. ASSUME NEW c \in Check, Acknowledge(c)
        PROVE  NothingRecorded
    BY <1>7 DEF Acknowledge, open, TypeOK, NothingRecorded
  <1>8. CASE UNCHANGED <<tx, claim, incident>>
    BY <1>8 DEF NothingRecorded
  <1>9. \/ UNCHANGED <<tx, claim, incident>>
        \/ \E w \in Worker, c \in Check : ClaimDue(w, c)
        \/ \E w \in Worker : Execute(w)
        \/ \E w \in Worker : BeginRecord(w)
        \/ \E w \in Worker : RecordResult(w)
        \/ \E w \in Worker : RecordFails(w)
        \/ Restart
        \/ \E w \in Worker : CollectorPost(w)
        \/ \E d \in Device : DeleteDevice(d)
        \/ \E c \in Check : Acknowledge(c)
    BY DEF Next, vars, incidents, open, CreateDevice, UpdateDevice, CreateCheck,
           ChangeMaintenance, BecomeDue, EnrollCollector, RevokeCollector, CollectorLapses,
           CollectorFetch, CollectorExecute, CollectorRefused, CollectorDrops, BeginMonit,
           MonitReport, BeginAgent, AgentReport, ReportFails, AcknowledgeAlarm, Turn
  <1>10. QED
    BY <1>1, <1>2, <1>3, <1>4, <1>5, <1>6, <1>7, <1>8, <1>9

LEMMA RecordingStep ==
    ASSUME TypeOK, Recording, [Next]_vars
    PROVE  Recording'
  <1>1. ASSUME NEW u \in Worker, BeginRecord(u)
        PROVE  Recording'
    <2> DEFINE c == claim[u].check
               v == View(Device, DeviceOf[c], IncidentEntry(claim[u]))
    <2>1. /\ claim' = claim /\ incident' = incident
          /\ tx' = [tx EXCEPT ![u] = v]
          /\ claim[u] # Idle /\ claim[u].result \in Outcome
          /\ \A w \in Worker : tx[w] # Idle => claim[w].check # c
          /\ DeviceOf[c] \in Device
      BY <1>1 DEF BeginRecord, incidents, Installed
    <2>2. /\ v.entry = IncidentEntry(claim[u])
          /\ v.hidden <=> ParentFailing(dstatus, parent, DeviceOf[c])
      BY <2>1 DEF View
    <2>3. /\ v.entry = "resolves" <=> claim[u].result = "up"
          /\ v.entry = "nothing" => claim[u].maintenance \/ v.hidden
          /\ v.entry = "opens" => incident[c] = "none"
      BY <2>2 DEF IncidentEntry
    <2>4. tx'[u] = v /\ (\A w \in Worker \ {u} : tx'[w] = tx[w])
      BY <2>1 DEF TypeOK
    <2> HIDE DEF v
    <2>5. QED
      BY <2>1, <2>3, <2>4 DEF Recording
  <1>2. ASSUME NEW u \in Worker, RecordResult(u)
        PROVE  Recording'
    <2> DEFINE k == claim[u].check
    <2>1. /\ \A w \in Worker \ {u} : tx'[w] = tx[w] /\ claim'[w] = claim[w]
          /\ tx'[u] = Idle
          /\ tx[u] # Idle
      BY <1>2 DEF RecordResult, TypeOK
    <2>2. \A c \in Check \ {k} : incident[c] = "none" => incident'[c] = "none"
      BY <1>2 DEF RecordResult, CheckIncident, Unsuppressed, TypeOK
    <2>3. \A w \in Worker \ {u} : tx[w] # Idle => claim[w].check \in Check \ {k}
      BY <2>1 DEF Recording, TypeOK, Execution
    <2>4. QED
      BY <2>1, <2>2, <2>3 DEF Recording
  <1>3. CASE NothingRecorded
    <2>1. \A w \in Worker : tx[w] # Idle => claim[w].check \in Check
      BY DEF Recording, TypeOK, Execution
    <2>2. QED
      BY <1>3, <2>1 DEF Recording, NothingRecorded
  <1>4. QED
    BY <1>1, <1>2, <1>3, RecordingFrame

LEMMA RecordingHolds == Spec => []Recording
  <1>1. Init => Recording
    BY DEF Init, Recording
  <1>2. TypeOK /\ Recording /\ [Next]_vars => Recording'
    BY RecordingStep
  <1>3. QED
    BY <1>1, <1>2, TypeCorrect, PTL DEF Spec

LEMMA IncidentStep ==
    ASSUME TypeOK, Recording, IncidentImpliesDown, [Next]_vars
    PROVE  IncidentImpliesDown'
  <1> USE DEF Active, IncidentImpliesDown
  <1>1. ASSUME NEW w \in Worker, RecordResult(w)
        PROVE  IncidentImpliesDown'
    <2> DEFINE k == claim[w].check
               r == claim[w].result
               entry == tx[w].entry
    <2>1. /\ cstatus' = [cstatus EXCEPT ![k] = r]
          /\ \A c \in Check : incident'[c] \in {"none", CheckIncident(k, entry)[c]}
          /\ r \in Outcome
          /\ k \in Check
          /\ entry = "resolves" <=> r = "up"
      BY <1>1 DEF RecordResult, Unsuppressed, Installed, Recording
    <2>2. CASE r = "up"
      BY <2>1, <2>2 DEF CheckIncident, TypeOK
    <2>3. CASE r = "down"
      BY <2>1, <2>3 DEF CheckIncident, TypeOK
    <2>4. QED
      BY <2>1, <2>2, <2>3 DEF Outcome
  <1>2. ASSUME NEW d \in Device, DeleteDevice(d)
        PROVE  IncidentImpliesDown'
    BY <1>2 DEF DeleteDevice, TypeOK
  <1>3. ASSUME NEW c \in Check, CreateCheck(c)
        PROVE  IncidentImpliesDown'
    BY <1>3 DEF CreateCheck, TypeOK, incidents
  <1>4. ASSUME NEW c \in Check, Acknowledge(c)
        PROVE  IncidentImpliesDown'
    BY <1>4 DEF Acknowledge, TypeOK, inventory
  <1>5. \/ UNCHANGED <<cstatus, incident>>
        \/ \E w \in Worker : RecordResult(w)
        \/ \E d \in Device : DeleteDevice(d)
        \/ \E c \in Check : CreateCheck(c)
        \/ \E c \in Check : Acknowledge(c)
    BY DEF Next, vars, inventory, incidents, CreateDevice, UpdateDevice, ChangeMaintenance,
           BecomeDue, ClaimDue, Execute, BeginRecord, RecordFails, Restart, EnrollCollector,
           RevokeCollector, CollectorLapses, CollectorFetch, CollectorExecute, CollectorPost,
           CollectorRefused, CollectorDrops, BeginMonit, MonitReport, BeginAgent, AgentReport,
           ReportFails, AcknowledgeAlarm, Turn
  <1>6. QED
    BY <1>1, <1>2, <1>3, <1>4, <1>5

\* An active incident of a check is never left behind by a recovery.
THEOREM IncidentsAreDown == Spec => []IncidentImpliesDown
  <1>1. Init => IncidentImpliesDown
    BY DEF Init, IncidentImpliesDown, Active
  <1>2. TypeOK /\ Recording /\ IncidentImpliesDown /\ [Next]_vars => IncidentImpliesDown'
    BY IncidentStep
  <1>3. QED
    BY <1>1, <1>2, TypeCorrect, RecordingHolds, PTL DEF Spec

\* The sweep of RecordResult leaves nothing active below a failing parent.
THEOREM SweepComplete == Spec => ResultSweepsSuppressed
  <1>1. TypeOK /\ [Next]_vars =>
          [(\E w \in Worker : RecordResult(w)) =>
             \A d \in Device : ParentFailing(dstatus', parent', d) =>
                /\ \A c \in Check : DeviceOf[c] = d => incident'[c] = "none"
                /\ \A s \in Service : alarm'[<<d, s>>] = "none"]_vars
    <2>1. SUFFICES ASSUME NEW w \in Worker, RecordResult(w),
                          NEW d \in Device, ParentFailing(dstatus', parent', d)
                   PROVE  /\ \A c \in Check : DeviceOf[c] = d => incident'[c] = "none"
                          /\ \A s \in Service : alarm'[<<d, s>>] = "none"
      OBVIOUS
    <2>2. ParentFailing(dstatus', parent, d)
      BY <2>1 DEF RecordResult, ParentFailing
    <2>3. /\ incident' = [c \in Check |-> Unsuppressed(dstatus', DeviceOf[c],
                                        CheckIncident(claim[w].check, tx[w].entry)[c])]
          /\ alarm' = [x \in Device \X Service |-> Unsuppressed(dstatus', x[1], alarm[x])]
      BY <2>1 DEF RecordResult
    <2>4. ASSUME NEW s \in Service
          PROVE  alarm'[<<d, s>>] = "none"
      <3>1. <<d, s>> \in Device \X Service /\ <<d, s>>[1] = d
        OBVIOUS
      <3>2. QED
        BY <2>2, <2>3, <3>1 DEF Unsuppressed
    <2>5. QED
      BY <2>2, <2>3, <2>4 DEF Unsuppressed
  <1>2. QED
    BY <1>1, TypeCorrect, PTL DEF Spec, ResultSweepsSuppressed

-----------------------------------------------------------------------------
(* What a result does, beyond the incident of its check.                   *)

\* The writers of incidents.
LEMMA IncidentWriters ==
    ASSUME [Next]_vars
    PROVE  \/ UNCHANGED incident
           \/ \E w \in Worker : RecordResult(w)
           \/ \E d \in Device : DeleteDevice(d)
           \/ \E c \in Check : Acknowledge(c)
  BY DEF Next, vars, inventory, incidents, CreateDevice, UpdateDevice, CreateCheck,
         ChangeMaintenance, BecomeDue, ClaimDue, Execute, RecordFails, BeginRecord, BeginMonit,
         BeginAgent, ReportFails, Restart,
         EnrollCollector, RevokeCollector, CollectorLapses, CollectorFetch, CollectorExecute,
         CollectorPost, CollectorRefused, CollectorDrops, MonitReport, AgentReport,
         AcknowledgeAlarm, Turn

\* An operator's acknowledgement is never taken back: a further failure finds
\* the incident active, and what ends it leaves none.
THEOREM AcknowledgementsLast == Spec => AcknowledgementLasts
  <1>1. TypeOK /\ Recording /\ [Next]_vars =>
          [\A c \in Check : incident[c] = "acknowledged" => incident'[c] # "open"]_vars
    <2> SUFFICES ASSUME TypeOK, Recording, [Next]_vars, NEW c \in Check, incident[c] = "acknowledged"
                 PROVE  incident'[c] # "open"
      OBVIOUS
    <2>1. CASE UNCHANGED incident
      BY <2>1
    <2>2. ASSUME NEW w \in Worker, RecordResult(w)
          PROVE  incident'[c] # "open"
      <3> DEFINE entered == CheckIncident(claim[w].check, tx[w].entry)
      <3>1. tx[w].entry = "opens" => claim[w].check # c
        BY <2>2 DEF RecordResult, Recording
      <3>2. entered[c] # "open"
        BY <3>1 DEF CheckIncident, TypeOK
      <3>3. incident'[c] \in {"none", entered[c]}
        BY <2>2 DEF RecordResult, Unsuppressed
      <3>4. QED
        BY <3>2, <3>3
    <2>3. ASSUME NEW d \in Device, DeleteDevice(d)
          PROVE  incident'[c] # "open"
      BY <2>3 DEF DeleteDevice
    <2>4. ASSUME NEW k \in Check, Acknowledge(k)
          PROVE  incident'[c] # "open"
      BY <2>4 DEF Acknowledge, TypeOK
    <2>5. QED
      BY <2>1, <2>2, <2>3, <2>4, IncidentWriters
  <1>2. QED
    BY <1>1, TypeCorrect, RecordingHolds, PTL DEF Spec, AcknowledgementLasts

\* What RecordResult does to the table of devices, in a forest.
LEMMA RecordInForest ==
    ASSUME TypeOK, Forest, NEW w \in Worker, RecordResult(w)
    PROVE  LET d == DeviceOf[claim[w].check] IN
           /\ claim[w].check \in Check
           /\ d \in Device
           /\ d \notin Descendants(parent, d)
           /\ parent' = parent
           /\ parent \in ParentFunction
           /\ dstatus \in [Device -> DeviceStatus \cup NoRow]
           /\ \E own \in [Device -> DeviceStatus \ {"dependency"}] : \E hidden :
                 dstatus' = Recalc(dstatus, parent, own, hidden, d)
  <1> DEFINE k == claim[w].check
             d == DeviceOf[k]
             then == Own([tx[w].checks EXCEPT ![k] = claim[w].result], tx[w].services, tx[w].reporters)
             now == Own(cstatus', services, hosts \cup agents)
  <1>1. k \in Check /\ d \in Device
    BY DEF RecordResult, Installed
  <1>2. d \notin Descendants(parent, d)
    BY <1>1 DEF Forest
  <1>3. parent \in ParentFunction /\ dstatus \in [Device -> DeviceStatus \cup NoRow]
    BY DEF TypeOK, ParentFunction
  <1>4. parent' = parent /\ dstatus' \in Recalculated(dstatus, tx[w], then, now, d)
    BY DEF RecordResult
  <1>5. /\ then \in [Device -> DeviceStatus \ {"dependency"}]
        /\ now \in [Device -> DeviceStatus \ {"dependency"}]
    BY OwnType
  <1>6. \E own \in [Device -> DeviceStatus \ {"dependency"}] : \E hidden :
           dstatus' = Recalc(dstatus, parent, own, hidden, d)
    <2> HIDE DEF then, now, d
    <2>1. QED
      BY <1>1, <1>4, <1>5, RecalculatedBy
  <1>7. QED
    BY <1>1, <1>2, <1>3, <1>4, <1>6

\* The parent of the device fails after the result exactly if it did before.
LEMMA ResultKeepsHidden ==
    ASSUME TypeOK, Forest, NEW w \in Worker, RecordResult(w)
    PROVE  ParentFailing(dstatus', parent', DeviceOf[claim[w].check])
             <=> ParentFailing(dstatus, parent, DeviceOf[claim[w].check])
  <1> DEFINE d == DeviceOf[claim[w].check]
  <1>1. /\ d \in Device
        /\ d \notin Descendants(parent, d)
        /\ parent' = parent
        /\ parent \in ParentFunction
        /\ dstatus \in [Device -> DeviceStatus \cup NoRow]
        /\ \E own \in [Device -> DeviceStatus \ {"dependency"}] : \E hidden :
              dstatus' = Recalc(dstatus, parent, own, hidden, d)
    BY RecordInForest
  <1> HIDE DEF d
  <1>2. ParentFailing(dstatus', parent, d) <=> ParentFailing(dstatus, parent, d)
    <2>1. PICK own \in [Device -> DeviceStatus \ {"dependency"}] : \E hidden :
                 dstatus' = Recalc(dstatus, parent, own, hidden, d)
      BY <1>1
    <2>2. PICK hidden : dstatus' = Recalc(dstatus, parent, own, hidden, d)
      BY <2>1
    <2>3. QED
      BY <1>1, <2>2, RecalcKeepsParent
  <1>3. QED
    BY <1>1, <1>2 DEF d

\* A result reaches the children of its device in its own transaction: the
\* second statement sees the status the first has written.
THEOREM ChildrenReached == Spec => ResultReachesChildren
  <1>1. TypeOK /\ Forest /\ [Next]_vars =>
          [\A w \in Worker : RecordResult(w) =>
             LET d == DeviceOf[claim[w].check] IN
             \A e \in Device : parent[e] = d =>
                (dstatus'[e] = "dependency" <=> dstatus'[d] \in Failing)]_vars
    <2>1. SUFFICES ASSUME TypeOK, Forest, NEW w \in Worker, RecordResult(w),
                          NEW e \in Device, parent[e] = DeviceOf[claim[w].check]
                   PROVE  dstatus'[e] = "dependency"
                            <=> dstatus'[DeviceOf[claim[w].check]] \in Failing
      OBVIOUS
    <2> DEFINE d == DeviceOf[claim[w].check]
    <2>2. /\ d \in Device
          /\ d \notin Descendants(parent, d)
          /\ \E own \in [Device -> DeviceStatus \ {"dependency"}] : \E hidden :
                dstatus' = Recalc(dstatus, parent, own, hidden, d)
      BY <2>1, RecordInForest
    <2> HIDE DEF d
    <2>3. parent[e] = d
      BY <2>1 DEF d
    <2>4. dstatus'[e] = "dependency" <=> dstatus'[d] \in Failing
      <3>1. PICK own \in [Device -> DeviceStatus \ {"dependency"}] : \E hidden :
                   dstatus' = Recalc(dstatus, parent, own, hidden, d)
        BY <2>2
      <3>2. own[e] # "dependency"
        OBVIOUS
      <3>3. QED
        BY <2>2, <2>3, <3>1, <3>2, RecalcReachesChildren
    <2>5. QED
      BY <2>4 DEF d
  <1>2. QED
    BY <1>1, TypeCorrect, ForestHolds, PTL DEF Spec, ResultReachesChildren

\* Whatever the claim read of the parent, the incident is judged by its status
\* in the transaction: a failure without one was below a failing parent then,
\* or is swept, or was active already and has been ended since.
THEOREM RepairsHaveIncidents == Spec => RepairHasIncident
  <1>1. TypeOK /\ Recording /\ [Next]_vars =>
          [\A w \in Worker : RecordResult(w) /\ AsksForRepair(claim[w]) =>
             LET c == claim[w].check IN
             /\ cstatus'[c] = "down"
             /\ \/ incident'[c] \in Active
                \/ ParentFailing(dstatus', parent', DeviceOf[c])
                \/ tx[w].entry = "keeps" \/ tx[w].hidden]_vars
    <2>1. SUFFICES ASSUME TypeOK, Recording, NEW w \in Worker, RecordResult(w),
                          AsksForRepair(claim[w])
                   PROVE  LET c == claim[w].check IN
                          /\ cstatus'[c] = "down"
                          /\ \/ incident'[c] \in Active
                             \/ ParentFailing(dstatus', parent', DeviceOf[c])
                             \/ tx[w].entry = "keeps" \/ tx[w].hidden
      OBVIOUS
    <2> DEFINE c == claim[w].check
    <2>2. /\ c \in Check
          /\ claim[w].result = "down"
          /\ ~claim[w].maintenance
          /\ tx[w] \in Reading
          /\ tx[w] # Idle
      BY <2>1 DEF AsksForRepair, RecordResult, Installed, TypeOK
    <2>3. cstatus'[c] = "down"
      BY <2>1, <2>2 DEF RecordResult, TypeOK
    <2>4. ASSUME ~ParentFailing(dstatus', parent', DeviceOf[c]), tx[w].entry # "keeps", ~tx[w].hidden
          PROVE  incident'[c] \in Active
      <3>1. tx[w].entry = "opens"
        <4>1. tx[w].entry \in Entry
          BY <2>2 DEF Reading
        <4>2. /\ tx[w].entry # "resolves"
              /\ tx[w].entry = "nothing" => claim[w].maintenance \/ tx[w].hidden
          BY <2>1, <2>2 DEF Recording
        <4>3. QED
          BY <2>2, <2>4, <4>1, <4>2 DEF Entry
      <3>2. CheckIncident(c, tx[w].entry)[c] = "open"
        BY <2>1, <2>2, <3>1 DEF CheckIncident, TypeOK
      <3>3. incident'[c] = CheckIncident(c, tx[w].entry)[c]
        BY <2>1, <2>2, <2>4 DEF RecordResult, Unsuppressed, ParentFailing
      <3>4. QED
        BY <3>2, <3>3 DEF Active
    <2>5. QED
      BY <2>3, <2>4
  <1>2. QED
    BY <1>1, TypeCorrect, RecordingHolds, PTL DEF Spec, RepairHasIncident

-----------------------------------------------------------------------------
(* Monitoring implements IncidentBook.                                     *)

\* What the book shows of a check whose results are cs.
LEMMA VerdictAfter ==
    ASSUME TypeOK, NEW c \in Check, NEW v \in Outcome, cstatus' = [cstatus EXCEPT ![c] = v]
    PROVE  [k \in Check |-> IF cstatus'[k] \in Outcome THEN cstatus'[k] ELSE "none"]
             = [[k \in Check |-> IF cstatus[k] \in Outcome THEN cstatus[k] ELSE "none"]
                   EXCEPT ![c] = v]
  BY DEF TypeOK

\* Steps that record no result, remove nothing and acknowledge nothing.
LEMMA NoResult ==
    ASSUME TypeOK, [Next]_vars
    PROVE  \/ /\ UNCHANGED incident
              /\ \A c \in Check : cstatus'[c] \in Outcome \/ cstatus[c] \in Outcome
                                    => cstatus'[c] = cstatus[c]
           \/ \E w \in Worker : RecordResult(w)
           \/ \E d \in Device : DeleteDevice(d)
           \/ \E c \in Check : Acknowledge(c)
  <1>1. ASSUME NEW c \in Check, CreateCheck(c)
        PROVE  /\ UNCHANGED incident
               /\ \A k \in Check : cstatus'[k] \in Outcome \/ cstatus[k] \in Outcome
                                    => cstatus'[k] = cstatus[k]
    BY <1>1 DEF CreateCheck, incidents, TypeOK, Outcome
  <1>2. CASE UNCHANGED <<cstatus, incident>>
    BY <1>2
  <1>3. QED
    BY <1>1, <1>2 DEF Next, vars, inventory, incidents, CreateDevice, UpdateDevice,
         ChangeMaintenance, BecomeDue, ClaimDue, Execute, RecordFails, BeginRecord, BeginMonit,
         BeginAgent, ReportFails, Restart,
         EnrollCollector, RevokeCollector, CollectorLapses, CollectorFetch, CollectorExecute,
         CollectorPost, CollectorRefused, CollectorDrops, MonitReport, AgentReport,
         AcknowledgeAlarm, Turn

\* A result is a success or a failure of its check in the book.
LEMMA ResultInBook ==
    ASSUME TypeOK, Forest, Recording, NEW w \in Worker, RecordResult(w),
           NEW c \in Check, c = claim[w].check
    PROVE  Book!Success(c) \/ Book!Failure(c)
  <1> DEFINE result == claim[w].result
             entry == tx[w].entry
             d == DeviceOf[c]
             below == {k \in Check : ParentFailing(dstatus, parent, DeviceOf[k])}
             shown == [k \in Check |-> IF cstatus[k] \in Outcome THEN cstatus[k] ELSE "none"]
  <1>1. /\ result \in Outcome
        /\ cstatus' = [cstatus EXCEPT ![c] = result]
        /\ incident' = [k \in Check |-> Unsuppressed(dstatus', DeviceOf[k], CheckIncident(c, entry)[k])]
        /\ parent' = parent
    BY DEF RecordResult
  <1>2. /\ entry = "resolves" <=> result = "up"
        /\ entry = "opens" => incident[c] = "none"
    BY DEF RecordResult, Recording
  <1>3. c \in below' <=> c \in below
    BY ResultKeepsHidden
  <1>4. Book!Turns(c)
    BY <1>3 DEF Book!Turns
  <1>5. incident' = Book!Swept(CheckIncident(c, entry))
    BY <1>1 DEF Unsuppressed, Book!Swept
  <1>6. shown' = [shown EXCEPT ![c] = result]
    BY <1>1, VerdictAfter
  <1>7. CASE result = "up"
    <2>1. incident' = Book!Swept([incident EXCEPT ![c] = "none"])
      BY <1>2, <1>5, <1>7 DEF CheckIncident
    <2>2. Book!Success(c)
      BY <1>4, <1>6, <1>7, <2>1 DEF Book!Success
    <2>3. QED
      BY <2>2
  <1>8. CASE result = "down"
    <2>1. \/ CheckIncident(c, entry) = incident
          \/ /\ incident[c] = "none"
             /\ CheckIncident(c, entry) = [incident EXCEPT ![c] = "open"]
      BY <1>2, <1>8 DEF CheckIncident
    <2>2. c \in below => Book!Swept([incident EXCEPT ![c] = "open"]) = Book!Swept(incident)
      BY <1>3 DEF Book!Swept, TypeOK
    <2>3. \/ incident' = Book!Swept(incident)
          \/ /\ c \notin below
             /\ incident[c] = "none"
             /\ incident' = Book!Swept([incident EXCEPT ![c] = "open"])
      BY <1>5, <2>1, <2>2
    <2>4. Book!Failure(c)
      BY <1>4, <1>6, <1>8, <2>3 DEF Book!Failure
    <2>5. QED
      BY <2>4
  <1>9. QED
    BY <1>1, <1>7, <1>8 DEF Outcome

\* A deletion removes the checks of the device, and hides none of the others.
LEMMA DeletionInBook ==
    ASSUME TypeOK, NEW d \in Device, DeleteDevice(d)
    PROVE  \E C \in SUBSET Check : Book!Remove(C)
  <1> DEFINE C == {c \in Check : DeviceOf[c] = d}
             below == {k \in Check : ParentFailing(dstatus, parent, DeviceOf[k])}
             shown == [c \in Check |-> IF cstatus[c] \in Outcome THEN cstatus[c] ELSE "none"]
  <1>1. below' \in SUBSET (below \ C)
    <2>1. SUFFICES ASSUME NEW k \in Check, ParentFailing(dstatus', parent', DeviceOf[k])
                   PROVE  DeviceOf[k] # d /\ ParentFailing(dstatus, parent, DeviceOf[k])
      OBVIOUS
    <2>2. DeviceOf[k] \in Device
      BY CheckAssumption
    <2>3. parent'[DeviceOf[k]] # NoDevice
      BY <2>1 DEF ParentFailing
    <2>4. /\ DeviceOf[k] # d
          /\ parent[DeviceOf[k]] # d
          /\ parent'[DeviceOf[k]] = parent[DeviceOf[k]]
      BY <2>2, <2>3 DEF DeleteDevice
    <2>5. parent[DeviceOf[k]] \in Device
      BY <2>2, <2>3, <2>4 DEF TypeOK
    <2>6. dstatus'[parent[DeviceOf[k]]] = dstatus[parent[DeviceOf[k]]]
      BY <2>4, <2>5 DEF DeleteDevice, TypeOK
    <2>7. QED
      BY <2>1, <2>4, <2>6 DEF ParentFailing
  <1>2. shown' = [c \in Check |-> IF c \in C THEN "none" ELSE shown[c]]
    BY DEF DeleteDevice, Outcome, Installed, CheckStatus, TypeOK
  <1>3. incident' = [c \in Check |-> IF c \in C THEN "none" ELSE incident[c]]
    BY DEF DeleteDevice
  <1>4. Book!Remove(C)
    BY <1>1, <1>2, <1>3 DEF Book!Remove
  <1>5. QED
    BY <1>4

LEMMA BookStep ==
    ASSUME TypeOK, Forest, Recording, [Next]_vars
    PROVE  [Book!Next]_(Book!vars)
  <1>1. ASSUME NEW w \in Worker, RecordResult(w)
        PROVE  Book!Next
    <2>1. PICK c \in Check : c = claim[w].check
      BY <1>1, RecordInForest
    <2>2. Book!Success(c) \/ Book!Failure(c)
      BY <1>1, <2>1, ResultInBook
    <2>3. QED
      BY <2>2 DEF Book!Next
  <1>2. ASSUME NEW d \in Device, DeleteDevice(d)
        PROVE  Book!Next
    BY <1>2, DeletionInBook DEF Book!Next
  <1>3. ASSUME NEW c \in Check, Acknowledge(c)
        PROVE  Book!Next
    <2>1. UNCHANGED <<cstatus, dstatus, parent>>
      BY <1>3 DEF Acknowledge, inventory
    <2>2. Book!Acknowledge(c)
      BY <1>3, <2>1 DEF Acknowledge, Book!Acknowledge
    <2>3. QED
      BY <2>2 DEF Book!Next
  <1>4. ASSUME UNCHANGED incident,
               \A c \in Check : cstatus'[c] \in Outcome \/ cstatus[c] \in Outcome
                                  => cstatus'[c] = cstatus[c]
        PROVE  Book!Next
    <2>1. Book!Rearrange
      BY <1>4 DEF Book!Rearrange
    <2>2. QED
      BY <2>1 DEF Book!Next
  <1>5. QED
    BY <1>1, <1>2, <1>3, <1>4, NoResult

\* The incidents of checks keep the book: whatever order results, deletions,
\* moves and reports come in, no incident ends while its check is down and in
\* the open, and none opens but by a failure of its own check.  That a result
\* does not hide its own check is due to the parents being a forest.
THEOREM IncidentsKeepTheBook == Spec => KeepsIncidentBook
  <1>1. Init => Book!Init
    BY DEF Init, Book!Init, Outcome, ParentFailing
  <1>2. TypeOK /\ Forest /\ Recording /\ [Next]_vars => [Book!Next]_(Book!vars)
    BY BookStep
  <1>3. QED
    BY <1>1, <1>2, TypeCorrect, ForestHolds, RecordingHolds, PTL DEF Spec, KeepsIncidentBook, Book!Spec

-----------------------------------------------------------------------------
(* What run finding_stuck_dependency shows of one instance.                *)

\* A root without checks that shows a dependency failure, as a deletion or a
\* move leaves it when its parent was failing.
Stuck(d) ==
    /\ dstatus[d] = "dependency"
    /\ parent[d] = NoDevice
    /\ \A c \in Installed : DeviceOf[c] # d

\* An operator does something to d itself, or d reports for itself.
Touched(d) ==
    \/ DeleteDevice(d)
    \/ \E p \in Device \cup {NoDevice} : UpdateDevice(d, p)
    \/ \E c \in Check : DeviceOf[c] = d /\ CreateCheck(c)
    \/ \E sv \in [Service -> Condition], event \in MonitEvents : MonitReport(d, sv, event)
    \/ AgentReport(d)

\* Only writers of devices and checks concern it.
LEMMA StuckFrame ==
    ASSUME NEW d, Stuck(d), UNCHANGED <<dstatus, parent, cstatus>>
    PROVE  Stuck(d)'
  BY DEF Stuck, Installed

LEMMA StuckStep ==
    ASSUME TypeOK, [Next]_vars, NEW d \in Device, Stuck(d), ~Touched(d)
    PROVE  Stuck(d)'
  <1>0. dstatus \in [Device -> DeviceStatus \cup NoRow] /\ d \in Live
    BY DEF TypeOK, Stuck, Live, DeviceStatus
  <1>1. ASSUME NEW e \in Device, NEW p, CreateDevice(e, p)
        PROVE  Stuck(d)'
    <2>1. e # d
      BY <1>1 DEF CreateDevice, Stuck
    <2>2. QED
      BY <1>1, <2>1 DEF CreateDevice, Stuck, Installed, TypeOK
  <1>2. ASSUME NEW e \in Device, NEW p \in Device \cup {NoDevice}, UpdateDevice(e, p)
        PROVE  Stuck(d)'
    BY <1>2 DEF UpdateDevice, Touched, Stuck, Installed, TypeOK
  <1>3. ASSUME NEW e \in Device, DeleteDevice(e)
        PROVE  Stuck(d)'
    <2>1. e # d
      BY <1>3 DEF Touched
    <2>2. dstatus'[d] = "dependency" /\ parent'[d] = NoDevice
      BY <1>3, <2>1 DEF DeleteDevice, Stuck, TypeOK
    <2>3. Installed' \subseteq Installed
      BY <1>3 DEF DeleteDevice, Installed, CheckStatus
    <2>4. QED
      BY <2>2, <2>3 DEF Stuck
  <1>4. ASSUME NEW c \in Check, CreateCheck(c)
        PROVE  Stuck(d)'
    <2>1. DeviceOf[c] # d
      BY <1>4 DEF Touched
    <2>2. Installed' \subseteq Installed \cup {c}
      BY <1>4 DEF CreateCheck, Installed, TypeOK
    <2>3. QED
      BY <1>4, <2>1, <2>2 DEF CreateCheck, Stuck
  <1>5. ASSUME NEW e \in Device, e # d, NEW status \in [Device -> DeviceStatus \cup NoRow],
               status[d] = dstatus[d], NEW v, NEW then, NEW now,
               dstatus' \in Recalculated(status, v, then, now, e)
        PROVE  dstatus'[d] = dstatus[d]
    <2>1. d \notin Descendants(parent, e) \cup {e}
      BY <1>5, RootNotBelow DEF Stuck
    <2>2. ASSUME NEW own, NEW hidden
          PROVE  Recalc(status, parent, own, hidden, e)[d] = status[d]
      BY <2>1 DEF Recalc, RecalcDevice, RecalcDescendants
    <2>3. \E own, hidden : dstatus' = Recalc(status, parent, own, hidden, e)
      BY <1>5 DEF Recalculated
    <2>4. QED
      BY <1>5, <2>2, <2>3
  <1>6. ASSUME NEW w \in Worker, RecordResult(w)
        PROVE  Stuck(d)'
    <2> DEFINE e == DeviceOf[claim[w].check]
               then == Own([tx[w].checks EXCEPT ![claim[w].check] = claim[w].result],
                           tx[w].services, tx[w].reporters)
               now == Own(cstatus', services, hosts \cup agents)
    <2>1. /\ claim[w].check \in Installed /\ e \in Device
          /\ parent' = parent
          /\ dstatus' \in Recalculated(dstatus, tx[w], then, now, e)
      BY <1>6, CheckAssumption DEF RecordResult, Installed
    <2>2. e # d
      BY <2>1 DEF Stuck
    <2>3. dstatus'[d] = dstatus[d]
      <3> HIDE DEF e, then, now
      <3>1. QED
        BY <1>0, <1>5, <2>1, <2>2
    <2>4. Installed' \subseteq Installed
      BY <1>6 DEF RecordResult, Installed, TypeOK
    <2>5. QED
      BY <2>1, <2>3, <2>4 DEF Stuck
  <1>7. ASSUME NEW e \in Device, e # d
        PROVE  /\ Reported(e) \in [Device -> DeviceStatus \cup NoRow]
               /\ Reported(e)[d] = dstatus[d]
    BY <1>0, <1>7 DEF Reported, DeviceStatus
  <1>8. ASSUME NEW e \in Device,
               AgentReport(e) \/ \E sv \in [Service -> Condition], event \in MonitEvents :
                                    MonitReport(e, sv, event)
        PROVE  Stuck(d)'
    <2>1. e # d
      BY <1>8 DEF Touched
    <2>2. UNCHANGED <<parent, cstatus>>
      BY <1>8 DEF AgentReport, MonitReport
    <2>3. \E v, then, now : dstatus' \in Recalculated(Reported(e), v, then, now, e)
      BY <1>8 DEF AgentReport, MonitReport
    <2>4. dstatus'[d] = dstatus[d]
      BY <1>5, <1>7, <2>1, <2>3
    <2>5. QED
      BY <2>2, <2>4 DEF Stuck, Installed
  <1>9. CASE UNCHANGED <<dstatus, parent, cstatus>>
    BY <1>9, StuckFrame
  <1>10. QED
    BY <1>1, <1>2, <1>3, <1>4, <1>6, <1>8, <1>9
       DEF Next, vars, inventory, ChangeMaintenance, BecomeDue, ClaimDue, Execute, RecordFails, BeginRecord,
           BeginMonit, BeginAgent, ReportFails, Restart, EnrollCollector, RevokeCollector,
           CollectorLapses,
           CollectorFetch, CollectorExecute, CollectorPost, CollectorRefused, CollectorDrops,
           Acknowledge, AcknowledgeAlarm, Turn

\* A child that is detached while its parent fails, and has no checks, goes on
\* showing a dependency failure, whatever results come in anywhere: only an
\* operator who turns to the device itself, or its own report, ends it.
THEOREM DetachedStaysDependent ==
    Spec => [][\A d \in Device : Stuck(d) => Stuck(d)' \/ Touched(d)]_vars
  <1>1. TypeOK /\ [Next]_vars =>
          [\A d \in Device : Stuck(d) => Stuck(d)' \/ Touched(d)]_vars
    BY StuckStep
  <1>2. QED
    BY <1>1, TypeCorrect, PTL DEF Spec
=============================================================================
