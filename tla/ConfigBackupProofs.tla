------------------------- MODULE ConfigBackupProofs -------------------------
(***************************************************************************)
(* Theorems about ConfigBackup, for any number of devices, configurations  *)
(* and captures: the version history has one newest version, and an        *)
(* incident has two versions to compare.                                   *)
(***************************************************************************)
EXTENDS ConfigBackup, TLAPS

USE TextAssumption, CaptureAssumption, IdleAssumption DEF plans, history

-----------------------------------------------------------------------------
(* What the steps of a capture do to its task.                             *)

LEMMA TaskType ==
    ASSUME TypeOK, NEW k \in Capture, Busy(k)
    PROVE  task[k] \in Task /\ DeviceOf(k) \in Device
  BY DEF TypeOK, Busy, DeviceOf, Task

\* The task of k goes on in another stage, for the same device and profile.
Goes(k, stage, text, previous) ==
    task' = [task EXCEPT ![k] = [device |-> DeviceOf(k), stage |-> stage, row |-> task[k].row,
                                 text |-> text, previous |-> previous]]

LEMMA TaskGoes ==
    ASSUME TypeOK, NEW k \in Capture, Busy(k)
    PROVE  /\ Fetch(k) => \/ Fetched(k) \in Text /\ Goes(k, "fetched", Fetched(k), task[k].previous)
                          \/ Fetched(k) \notin Text /\ Goes(k, "failed", NoText, task[k].previous)
           /\ FetchFails(k) => Goes(k, "failed", task[k].text, task[k].previous)
           /\ SaveBegins(k) => Goes(k, "begun", task[k].text, task[k].previous)
           /\ SaveCompares(k) =>
                \E p \in IF snapshots[DeviceOf(k)] = {} THEN {NoText} ELSE Newest(DeviceOf(k)) :
                  Goes(k, "compared", task[k].text, p)
           /\ SaveFails(k) => Goes(k, "failed", NoText, NoText)
  <1>1. task[k] \in Task /\ task \in [Capture -> Task \cup {Idle}]
    BY TaskType DEF TypeOK
  <1>2. Fetch(k) => \/ Fetched(k) \in Text /\ Goes(k, "fetched", Fetched(k), task[k].previous)
                    \/ Fetched(k) \notin Text /\ Goes(k, "failed", NoText, task[k].previous)
    <2>1. SUFFICES ASSUME NEW stage, NEW text,
                          task' = [task EXCEPT ![k].stage = stage, ![k].text = text]
                   PROVE  Goes(k, stage, text, task[k].previous)
      <3>1. CASE Fetched(k) \in Text
        BY <2>1, <3>1 DEF Fetch
      <3>2. CASE Fetched(k) \notin Text
        BY <2>1, <3>2 DEF Fetch
      <3>3. QED
        BY <3>1, <3>2
    <2>2. PICK mid : mid = [task[k] EXCEPT !.stage = stage]
      OBVIOUS
    <2>3. mid = [device |-> task[k].device, stage |-> stage, row |-> task[k].row,
                 text |-> task[k].text, previous |-> task[k].previous]
      BY <1>1, <2>2 DEF Task
    <2>4. [mid EXCEPT !.text = text]
            = [device |-> task[k].device, stage |-> stage, row |-> task[k].row,
               text |-> text, previous |-> task[k].previous]
      BY <2>3
    <2>5. task' = [task EXCEPT ![k] = [mid EXCEPT !.text = text]]
      BY <1>1, <2>1, <2>2
    <2>6. QED
      BY <2>4, <2>5 DEF Goes, DeviceOf
  <1>3. FetchFails(k) => Goes(k, "failed", task[k].text, task[k].previous)
    BY <1>1 DEF FetchFails, Goes, DeviceOf, Task
  <1>4. SaveBegins(k) => Goes(k, "begun", task[k].text, task[k].previous)
    BY <1>1 DEF SaveBegins, Goes, DeviceOf, Task
  <1>5. SaveCompares(k) =>
          \E p \in IF snapshots[DeviceOf(k)] = {} THEN {NoText} ELSE Newest(DeviceOf(k)) :
            Goes(k, "compared", task[k].text, p)
    <2>1. SUFFICES ASSUME NEW p,
                          task' = [task EXCEPT ![k].stage = "compared", ![k].previous = p]
                   PROVE  Goes(k, "compared", task[k].text, p)
      BY DEF SaveCompares
    <2>2. PICK mid : mid = [task[k] EXCEPT !.stage = "compared"]
      OBVIOUS
    <2>3. mid = [device |-> task[k].device, stage |-> "compared", row |-> task[k].row,
                 text |-> task[k].text, previous |-> task[k].previous]
      BY <1>1, <2>2 DEF Task
    <2>4. [mid EXCEPT !.previous = p]
            = [device |-> task[k].device, stage |-> "compared", row |-> task[k].row,
               text |-> task[k].text, previous |-> p]
      BY <2>3
    <2>5. task' = [task EXCEPT ![k] = [mid EXCEPT !.previous = p]]
      BY <1>1, <2>1, <2>2
    <2>6. QED
      BY <2>4, <2>5 DEF Goes, DeviceOf
  <1>6. SaveFails(k) => Goes(k, "failed", NoText, NoText)
    BY <1>1 DEF SaveFails, Goes, DeviceOf, Task
  <1>7. QED
    BY <1>2, <1>3, <1>4, <1>5, <1>6

LEMMA TaskAfter ==
    ASSUME TypeOK, NEW k \in Capture, Busy(k), NEW stage \in Stage, NEW text \in Text \cup {NoText},
           NEW previous \in Text \cup {NoText}, Goes(k, stage, text, previous)
    PROVE  /\ task' \in [Capture -> Task \cup {Idle}]
           /\ Busy(k)' /\ DeviceOf(k)' = DeviceOf(k)
           /\ task'[k].stage = stage /\ task'[k].row = task[k].row
           /\ task'[k].text = text /\ task'[k].previous = previous
           /\ \A q \in Capture \ {k} : task'[q] = task[q]
  <1>1. task[k] \in Task
    BY TaskType
  <1>2. [device |-> DeviceOf(k), stage |-> stage, row |-> task[k].row, text |-> text,
         previous |-> previous] \in Task
    BY <1>1 DEF Task, DeviceOf
  <1>3. /\ task' \in [Capture -> Task \cup {Idle}]
        /\ task'[k] = [device |-> DeviceOf(k), stage |-> stage, row |-> task[k].row, text |-> text,
                       previous |-> previous]
        /\ \A q \in Capture \ {k} : task'[q] = task[q]
    BY <1>2 DEF TypeOK, Goes
  <1>4. task'[k].device = DeviceOf(k)
    BY <1>3
  <1>5. QED
    BY <1>2, <1>3, <1>4 DEF Busy, DeviceOf

\* Tasks survive the deletion of their profile.
LEMMA TasksOrphaned ==
    ASSUME TypeOK, NEW d \in Device, task' = Orphaned(d)
    PROVE  /\ task' \in [Capture -> Task \cup {Idle}]
           /\ \A k \in Capture : Busy(k)' <=> Busy(k)
           /\ \A k \in Capture : Busy(k) =>
                /\ DeviceOf(k)' = DeviceOf(k) /\ task'[k].stage = task[k].stage
                /\ task'[k].text = task[k].text /\ task'[k].previous = task[k].previous
                /\ task'[k].row => task[k].row /\ DeviceOf(k) # d
  <1>1. SUFFICES ASSUME NEW k \in Capture
                 PROVE  /\ task'[k] \in Task \cup {Idle}
                        /\ Busy(k)' <=> Busy(k)
                        /\ Busy(k) =>
                             /\ DeviceOf(k)' = DeviceOf(k) /\ task'[k].stage = task[k].stage
                             /\ task'[k].text = task[k].text /\ task'[k].previous = task[k].previous
                             /\ task'[k].row => task[k].row /\ DeviceOf(k) # d
    BY DEF Orphaned
  <1>2. CASE Busy(k) /\ DeviceOf(k) = d
    <2>1. task[k] \in Task
      BY <1>2, TaskType
    <2>2. task'[k] = [task[k] EXCEPT !.row = FALSE]
      BY <1>2 DEF Orphaned
    <2>3. task'[k] = [device |-> task[k].device, stage |-> task[k].stage, row |-> FALSE,
                      text |-> task[k].text, previous |-> task[k].previous]
      BY <2>1, <2>2 DEF Task
    <2>4. task'[k] \in Task
      BY <2>1, <2>3 DEF Task
    <2>5. ~task'[k].row
      <3>1. task'[k].row = FALSE
        BY <2>3
      <3>2. QED
        BY <3>1, Zenon
    <2>6. Busy(k)' /\ task'[k].device = task[k].device
      <3>1. Busy(k)'
        BY <2>4 DEF Busy
      <3>2. QED
        BY <2>3, <3>1
    <2>7. QED
      BY <1>2, <2>3, <2>4, <2>5, <2>6 DEF DeviceOf
  <1>3. CASE ~(Busy(k) /\ DeviceOf(k) = d)
    <2>1. task'[k] = task[k]
      BY <1>3 DEF Orphaned
    <2>2. QED
      BY <1>3, <2>1 DEF Busy, DeviceOf, TypeOK
  <1>4. QED
    BY <1>2, <1>3

-----------------------------------------------------------------------------
(* The order of versions and open transactions.                            *)

(***************************************************************************)
(* A set with an order in which every part of it has a greatest member.    *)
(* That the whole has one would not last: a version that is captured again *)
(* leaves its place, and what was next to it is the newest then.           *)
(***************************************************************************)
Ordered(I, order) ==
    /\ order \subseteq I \X I
    /\ \A x, y \in I : <<x, y>> \in order => <<y, x>> \notin order
    /\ \A S \in SUBSET I : S # {} => \E x \in S : \A y \in S \ {x} : <<y, x>> \in order

LEMMA OrderedEmpty == Ordered({}, {})
  BY DEF Ordered

LEMMA OrderedPart ==
    ASSUME NEW I, NEW order, Ordered(I, order), NEW gone
    PROVE  Ordered(I \ gone, Withdrawn(order, gone))
  <1>1. Withdrawn(order, gone) \subseteq (I \ gone) \X (I \ gone)
    BY DEF Ordered, Withdrawn
  <1>2. \A x, y \in I \ gone : <<x, y>> \in Withdrawn(order, gone) <=> <<x, y>> \in order
    BY DEF Withdrawn
  <1>3. \A S \in SUBSET (I \ gone) : S \in SUBSET I
    OBVIOUS
  <1>4. QED
    BY <1>1, <1>2, <1>3 DEF Ordered

LEMMA OrderedTop ==
    ASSUME NEW I, NEW order, Ordered(I, order), NEW k, k \notin I
    PROVE  Ordered(I \cup {k}, order \cup (I \X {k}))
  <1> DEFINE J == I \cup {k}
             after == order \cup (I \X {k})
  <1>1. after \subseteq J \X J
    BY DEF Ordered
  <1>2. \A x, y \in J : <<x, y>> \in after <=> (<<x, y>> \in order \/ (x \in I /\ y = k))
    OBVIOUS
  <1>3. \A x, y \in J : <<x, y>> \in order => x \in I /\ y \in I
    BY DEF Ordered
  <1>4. \A x, y \in J : <<x, y>> \in after => <<y, x>> \notin after
    BY <1>2, <1>3 DEF Ordered
  <1>5. ASSUME NEW S \in SUBSET J, S # {}
        PROVE  \E x \in S : \A y \in S \ {x} : <<y, x>> \in after
    <2>1. CASE k \in S
      BY <1>2, <2>1
    <2>2. CASE k \notin S
      <3>1. S \in SUBSET I
        BY <2>2
      <3>2. PICK x \in S : \A y \in S \ {x} : <<y, x>> \in order
        BY <1>5, <3>1 DEF Ordered
      <3>3. QED
        BY <3>2
    <2>3. QED
      BY <2>1, <2>2
  <1>6. QED
    BY <1>1, <1>4, <1>5 DEF Ordered

LEMMA OrderedPlaced ==
    ASSUME NEW I, NEW order, Ordered(I, order), NEW k \in I, NEW t, t # k
    PROVE  Ordered((I \ {k}) \cup {t}, Placed(order, k, t))
  <1> DEFINE J == (I \ {k}) \cup {t}
             name(x) == IF x = k THEN t ELSE x
             back(x) == IF x = t THEN k ELSE x
             after == Placed(order, k, t)
  <1>1. ASSUME NEW p \in after
        PROVE  \E x, y \in I \ {t} : <<x, y>> \in order /\ p = <<name(x), name(y)>>
    <2>1. PICK q \in order : t \notin {q[1], q[2]} /\ p = <<name(q[1]), name(q[2])>>
      BY <1>1 DEF Placed
    <2>2. q = <<q[1], q[2]>> /\ q[1] \in I /\ q[2] \in I
      BY DEF Ordered
    <2>3. QED
      BY <2>1, <2>2
  <1>2. ASSUME NEW x \in I \ {t}, NEW y \in I \ {t}, <<x, y>> \in order
        PROVE  <<name(x), name(y)>> \in after
    <2>1. t \notin {<<x, y>>[1], <<x, y>>[2]}
      OBVIOUS
    <2>2. QED
      BY <1>2, <2>1 DEF Placed
  <1>3. \A x \in I \ {t} : name(x) \in J /\ back(name(x)) = x
    OBVIOUS
  <1>4. \A x \in J : back(x) \in I \ {t} /\ name(back(x)) = x
    OBVIOUS
  <1> HIDE DEF name, back, after
  <1>5. after \subseteq J \X J
    <2>1. SUFFICES ASSUME NEW p \in after
                   PROVE  p \in J \X J
      OBVIOUS
    <2>2. PICK x, y \in I \ {t} : p = <<name(x), name(y)>>
      BY <1>1
    <2>3. name(x) \in J /\ name(y) \in J
      BY <1>3
    <2> HIDE DEF J
    <2>4. QED
      BY <2>2, <2>3
  <1>6. ASSUME NEW x \in J, NEW y \in J, <<x, y>> \in after
        PROVE  <<back(x), back(y)>> \in order
    <2>1. PICK v, w \in I \ {t} : <<v, w>> \in order /\ <<x, y>> = <<name(v), name(w)>>
      BY <1>1, <1>6
    <2>2. v = back(x) /\ w = back(y)
      BY <1>3, <2>1
    <2>3. QED
      BY <2>1, <2>2
  <1>7. \A x, y \in J : <<x, y>> \in after => <<y, x>> \notin after
    BY <1>4, <1>6 DEF Ordered
  <1>8. ASSUME NEW S \in SUBSET J, S # {}
        PROVE  \E x \in S : \A y \in S \ {x} : <<y, x>> \in after
    <2> DEFINE R == {back(x) : x \in S}
    <2>1. R \in SUBSET I /\ R # {}
      BY <1>4, <1>8
    <2>2. PICK r \in R : \A y \in R \ {r} : <<y, r>> \in order
      BY <2>1 DEF Ordered
    <2>3. PICK x \in S : r = back(x)
      BY <2>2
    <2>4. ASSUME NEW y \in S \ {x}
          PROVE  <<y, x>> \in after
      <3>1. back(y) \in R \ {r} /\ back(y) \in I \ {t} /\ back(x) \in I \ {t}
        BY <1>4, <2>3
      <3>2. <<name(back(y)), name(back(x))>> \in after
        BY <1>2, <2>2, <2>3, <3>1
      <3>3. QED
        BY <1>4, <3>2
    <2>5. QED
      BY <2>4
  <1>9. QED
    BY <1>5, <1>7, <1>8 DEF Ordered, after

-----------------------------------------------------------------------------
(* The inductive invariant.                                                *)

\* What a goroutine believes is still so, or cannot be used any more.
TaskInv(k) ==
    Busy(k) =>
      /\ task[k].row => DeviceOf(k) \in profiles
      /\ task[k].stage \in {"fetched", "begun", "compared"} => task[k].text \in Text
      /\ task[k].stage = "compared" /\ DeviceOf(k) \in live /\ task[k].previous # NoText
           => task[k].previous \in snapshots[DeviceOf(k)]

Items(d) == snapshots[d] \cup Open(d)
OrderInv == \A d \in Device : Ordered(Items(d), newer[d])

IInv == TypeOK /\ (\A k \in Capture : TaskInv(k)) /\ OrderInv /\ IncidentHasVersions

LEMMA TasksStep ==
    ASSUME IInv, [Next]_vars
    PROVE  /\ task' \in [Capture -> Task \cup {Idle}]
           /\ \A k \in Capture : TaskInv(k)'
  <1> USE DEF IInv
  <1> DEFINE Kept == /\ task' \in [Capture -> Task \cup {Idle}]
                     /\ \A k \in Capture : TaskInv(k)'
  <1>1. ASSUME UNCHANGED <<task, live, snapshots>>, profiles \subseteq profiles'
        PROVE  Kept
    BY <1>1 DEF TypeOK, TaskInv, Busy, DeviceOf
  <1>2. ASSUME NEW d \in Device, DeleteConfigProfile(d)
        PROVE  Kept
    <2>1. task' = Orphaned(d)
      BY <1>2 DEF DeleteConfigProfile
    <2>2. profiles' = profiles \ {d} /\ UNCHANGED <<live, snapshots>>
      BY <1>2 DEF DeleteConfigProfile
    <2>3. ASSUME NEW k \in Capture, Busy(k)'
          PROVE  TaskInv(k)'
      BY <2>1, <2>2, <2>3, TasksOrphaned DEF TaskInv
    <2>4. QED
      BY <2>1, <2>3, TasksOrphaned DEF TaskInv
  <1>3. ASSUME NEW d \in Device, DeleteDevice(d)
        PROVE  Kept
    <2>1. task' = Orphaned(d)
      BY <1>3 DEF DeleteDevice
    <2>2. /\ profiles' = profiles \ {d} /\ live' = live \ {d}
          /\ \A e \in Device \ {d} : snapshots'[e] = snapshots[e]
      BY <1>3 DEF DeleteDevice, TypeOK
    <2>3. ASSUME NEW k \in Capture, Busy(k)'
          PROVE  TaskInv(k)'
      <3>1. Busy(k) /\ DeviceOf(k) \in Device
        BY <2>1, <2>3, TasksOrphaned, TaskType
      <3>2. /\ DeviceOf(k)' = DeviceOf(k) /\ task'[k].stage = task[k].stage
            /\ task'[k].text = task[k].text /\ task'[k].previous = task[k].previous
            /\ task'[k].row => task[k].row /\ DeviceOf(k) # d
        BY <2>1, <3>1, TasksOrphaned
      <3>3. DeviceOf(k) # d => snapshots'[DeviceOf(k)] = snapshots[DeviceOf(k)]
        BY <2>2, <3>1
      <3>4. TaskInv(k)
        OBVIOUS
      <3>5. PICK e \in Device : e = DeviceOf(k) /\ e = DeviceOf(k)'
        BY <3>1, <3>2
      <3>6. QED
        BY <2>2, <3>1, <3>2, <3>3, <3>4, <3>5 DEF TaskInv
    <2>4. QED
      BY <2>1, <2>3, TasksOrphaned DEF TaskInv
  <1>4. ASSUME NEW k \in Capture, NEW d \in Device, ClaimConfigBackup(k, d)
        PROVE  Kept
    <2> DEFINE new == [device |-> d, stage |-> "fetching", row |-> TRUE,
                       text |-> NoText, previous |-> NoText]
    <2>1. new \in Task
      BY DEF Task, Stage
    <2>2. task' = [task EXCEPT ![k] = new] /\ d \in profiles /\ UNCHANGED <<live, profiles, snapshots>>
      BY <1>4 DEF ClaimConfigBackup, TypeOK
    <2>3. TaskInv(k)'
      <3>1. task'[k] = new
        BY <2>2 DEF TypeOK
      <3>2. task'[k].device = d /\ task'[k].stage = "fetching"
        BY <3>1
      <3>3. QED
        BY <2>2, <3>2 DEF TaskInv, DeviceOf
    <2>4. \A q \in Capture \ {k} : TaskInv(q)'
      BY <2>2 DEF TypeOK, TaskInv, Busy, DeviceOf
    <2>5. QED
      BY <2>1, <2>2, <2>3, <2>4 DEF TypeOK
  <1>5. ASSUME NEW k \in Capture, Busy(k), NEW stage \in Stage, NEW text \in Text \cup {NoText},
               NEW previous \in Text \cup {NoText}, Goes(k, stage, text, previous),
               UNCHANGED <<live, profiles, snapshots>>,
               stage \in {"fetched", "begun", "compared"} => text \in Text,
               stage = "compared" /\ previous # NoText => previous \in snapshots[DeviceOf(k)]
        PROVE  Kept
    <2>1. \A q \in Capture \ {k} : TaskInv(q)'
      BY <1>5, TaskAfter DEF TaskInv, Busy, DeviceOf
    <2>2. TaskInv(k)'
      <3>1. /\ DeviceOf(k)' = DeviceOf(k)
            /\ task'[k].stage = stage /\ task'[k].row = task[k].row
            /\ task'[k].text = text /\ task'[k].previous = previous
        BY <1>5, TaskAfter
      <3>2. task[k].row => DeviceOf(k) \in profiles
        BY <1>5 DEF TaskInv
      <3>3. PICK e : e = DeviceOf(k) /\ e = DeviceOf(k)'
        BY <3>1
      <3>4. QED
        BY <1>5, <3>1, <3>2, <3>3 DEF TaskInv
    <2>3. QED
      BY <1>5, <2>1, <2>2, TaskAfter
  <1>6. ASSUME NEW k \in Capture,
               Fetch(k) \/ FetchFails(k) \/ SaveBegins(k) \/ SaveCompares(k) \/ SaveFails(k)
        PROVE  Kept
    <2>1. /\ Busy(k) /\ UNCHANGED <<live, profiles, snapshots>>
          /\ task[k] \in Task
      BY <1>6, TaskType DEF Fetch, FetchFails, SaveBegins, SaveCompares, SaveFails, At
    <2>2. /\ task[k].text \in Text \cup {NoText} /\ task[k].previous \in Text \cup {NoText}
          /\ {"fetched", "begun", "compared", "failed"} \subseteq Stage
      BY <2>1 DEF Task, Stage
    <2>3. CASE Fetch(k) \/ FetchFails(k) \/ SaveFails(k)
      BY <1>5, <2>1, <2>2, <2>3, TaskGoes
    <2>4. CASE SaveBegins(k)
      <3>1. task[k].text \in Text
        BY <2>4 DEF SaveBegins, At, TaskInv
      <3>2. QED
        BY <1>5, <2>1, <2>2, <2>4, <3>1, TaskGoes
    <2>5. CASE SaveCompares(k)
      <3>1. task[k].text \in Text
        BY <2>5 DEF SaveCompares, At, TaskInv
      <3>2. PICK p \in IF snapshots[DeviceOf(k)] = {} THEN {NoText} ELSE Newest(DeviceOf(k)) :
              Goes(k, "compared", task[k].text, p)
        BY <2>1, <2>5, TaskGoes
      <3>3. p = NoText \/ p \in snapshots[DeviceOf(k)]
        BY <3>2 DEF Newest
      <3>4. p \in Text \cup {NoText}
        BY <2>1, <3>3, TaskType DEF TypeOK
      <3>5. QED
        BY <1>5, <2>1, <2>2, <3>1, <3>2, <3>3, <3>4
    <2>6. QED
      BY <1>6, <2>3, <2>4, <2>5
  <1>7. ASSUME NEW k \in Capture, task' = [task EXCEPT ![k] = Idle], UNCHANGED <<live, profiles>>,
               \A d \in Device : snapshots[d] \subseteq snapshots'[d]
        PROVE  Kept
    <2>1. ~Busy(k)'
      BY <1>7 DEF Busy, TypeOK
    <2>2. ASSUME NEW q \in Capture \ {k}
          PROVE  TaskInv(q)'
      <3>1. task'[q] = task[q] /\ (Busy(q) => DeviceOf(q) \in Device)
        BY <1>7, TaskType DEF TypeOK
      <3>2. QED
        BY <1>7, <3>1 DEF TaskInv, Busy, DeviceOf
    <2>3. QED
      BY <1>7, <2>1, <2>2 DEF TypeOK, TaskInv
  <1>8. ASSUME NEW k \in Capture,
               FetchHangs(k) \/ SaveCommits(k) \/ \E saved \in BOOLEAN : ConfigBackupFailed(k, saved)
        PROVE  Kept
    <2>1. /\ task' = [task EXCEPT ![k] = Idle] /\ UNCHANGED <<live, profiles>>
      BY <1>8 DEF FetchHangs, SaveCommits, ConfigBackupFailed
    <2>2. \A d \in Device : snapshots[d] \subseteq snapshots'[d]
      BY <1>8 DEF FetchHangs, SaveCommits, ConfigBackupFailed, TypeOK
    <2>3. QED
      BY <1>7, <2>1, <2>2
  <1>9. CASE Restart
    BY <1>9 DEF Restart, TaskInv, Busy
  <1>10. QED
    <2>1. ASSUME NEW d \in Device, \/ CreateConfigProfile(d) \/ TriggerConfigBackup(d) \/ Sweep(d)
                                   \/ \E answer \in Text \cup {Refusal} : Reconfigure(d, answer)
          PROVE  Kept
      BY <1>1, <2>1 DEF CreateConfigProfile, TriggerConfigBackup, Sweep, Reconfigure
    <2>2. CASE UNCHANGED vars
      BY <1>1, <2>2 DEF vars
    <2>3. QED
      BY <1>2, <1>3, <1>4, <1>6, <1>8, <1>9, <2>1, <2>2 DEF Next

-----------------------------------------------------------------------------
(* The order is kept.                                                      *)

Writes(k) == Busy(k) /\ task[k].stage \in {"begun", "compared"}

LEMMA OpenStep ==
    ASSUME TypeOK, NEW k \in Capture, Busy(k),
           \A q \in Capture \ {k} : task'[q] = task[q],
           Busy(k)' => DeviceOf(k)' = DeviceOf(k)
    PROVE  \A d \in Device :
             Open(d)' = IF d = DeviceOf(k) /\ Writes(k)' THEN Open(d) \cup {k} ELSE Open(d) \ {k}
  <1>1. SUFFICES ASSUME NEW d \in Device, NEW q \in Capture
                 PROVE  q \in Open(d)' <=> IF q = k THEN d = DeviceOf(k) /\ Writes(k)' ELSE q \in Open(d)
    <2>1. \A d \in Device : Open(d) \subseteq Capture /\ Open(d)' \subseteq Capture
      BY DEF Open
    <2>2. QED
      BY <1>1, <2>1
  <1>2. CASE q = k
    <2>1. q \in Open(d)' <=> Busy(k)' /\ DeviceOf(k)' = d /\ task'[k].stage \in {"begun", "compared"}
      BY <1>2 DEF Open
    <2>2. CASE Busy(k)'
      <3>1. PICK e : e = DeviceOf(k) /\ e = DeviceOf(k)'
        BY <2>2
      <3>2. QED
        BY <1>2, <2>1, <2>2, <3>1 DEF Writes
    <2>3. CASE ~Busy(k)'
      BY <1>2, <2>1, <2>3 DEF Writes
    <2>4. QED
      BY <2>2, <2>3
  <1>3. CASE q # k
    BY <1>3 DEF Open, Busy, DeviceOf
  <1>4. QED
    BY <1>2, <1>3

\* A task that goes on changes nothing about the order unless it writes.
LEMMA OrderKept ==
    ASSUME OrderInv, UNCHANGED history, \A d \in Device : Open(d)' = Open(d)
    PROVE  OrderInv'
  BY DEF OrderInv, Items

LEMMA OpenOrphaned ==
    ASSUME TypeOK, NEW d \in Device, task' = Orphaned(d)
    PROVE  \A e \in Device : Open(e)' = Open(e)
  <1>1. SUFFICES ASSUME NEW e \in Device, NEW q \in Capture
                 PROVE  q \in Open(e)' <=> q \in Open(e)
    BY DEF Open
  <1>2. Busy(q)' <=> Busy(q)
    BY TasksOrphaned
  <1>3. CASE Busy(q)
    <2>1. PICK f : f = DeviceOf(q) /\ f = DeviceOf(q)'
      BY <1>3, TasksOrphaned
    <2>2. task'[q].stage = task[q].stage
      BY <1>3, TasksOrphaned
    <2>3. QED
      BY <1>2, <1>3, <2>1, <2>2 DEF Open
  <1>4. CASE ~Busy(q)
    BY <1>2, <1>4 DEF Open
  <1>5. QED
    BY <1>3, <1>4

LEMMA OrderStep ==
    ASSUME IInv, [Next]_vars
    PROVE  OrderInv'
  <1> USE DEF IInv
  <1>1. ASSUME UNCHANGED <<task, history>>
        PROVE  OrderInv'
    BY <1>1, OrderKept DEF Open, Busy, DeviceOf
  <1>2. ASSUME NEW d \in Device, DeleteConfigProfile(d)
        PROVE  OrderInv'
    BY <1>2, OpenOrphaned, OrderKept DEF DeleteConfigProfile
  <1>3. ASSUME NEW d \in Device, DeleteDevice(d)
        PROVE  OrderInv'
    <2>1. task' = Orphaned(d)
      BY <1>3 DEF DeleteDevice
    <2>2. ASSUME NEW e \in Device \ {d}
          PROVE  Ordered(Items(e), newer[e])'
      <3>1. snapshots'[e] = snapshots[e] /\ newer'[e] = newer[e] /\ Open(e)' = Open(e)
        BY <1>3, <2>1, OpenOrphaned DEF DeleteDevice, TypeOK
      <3>2. Items(e)' = Items(e)
        BY <3>1 DEF Items
      <3>3. Ordered(Items(e), newer[e])
        BY DEF OrderInv
      <3>4. QED
        BY <3>1, <3>2, <3>3
    <2>3. Ordered(Items(d), newer[d])'
      <3>1. snapshots'[d] = {} /\ newer'[d] = Withdrawn(newer[d], Text)
        BY <1>3 DEF DeleteDevice, TypeOK
      <3>2. Open(d)' = Open(d)
        BY <2>1, OpenOrphaned
      <3>3. snapshots[d] \subseteq Text /\ Open(d) \cap Text = {}
        BY DEF TypeOK, Open
      <3>4. Items(d)' = Items(d) \ Text
        BY <3>1, <3>2, <3>3 DEF Items
      <3>5. Ordered(Items(d) \ Text, Withdrawn(newer[d], Text))
        BY OrderedPart DEF OrderInv
      <3>6. QED
        BY <3>1, <3>4, <3>5
    <2>4. QED
      BY <2>2, <2>3 DEF OrderInv
  <1>4. ASSUME NEW k \in Capture, NEW d \in Device, ClaimConfigBackup(k, d)
        PROVE  OrderInv'
    <2>1. /\ task'[k] = [device |-> d, stage |-> "fetching", row |-> TRUE,
                         text |-> NoText, previous |-> NoText]
          /\ \A q \in Capture \ {k} : task'[q] = task[q]
          /\ ~Busy(k) /\ UNCHANGED history
      BY <1>4 DEF ClaimConfigBackup, TypeOK
    <2>2. task'[k].stage = "fetching"
      BY <2>1
    <2>3. \A e \in Device : Open(e)' = Open(e)
      BY <2>1, <2>2 DEF Open, Busy, DeviceOf
    <2>4. QED
      BY <2>1, <2>3, OrderKept
  <1>5. ASSUME NEW k \in Capture, Busy(k), NEW stage \in Stage, NEW text \in Text \cup {NoText},
               NEW previous \in Text \cup {NoText}, Goes(k, stage, text, previous)
        PROVE  \A d \in Device :
                 Open(d)' = IF d = DeviceOf(k) /\ stage \in {"begun", "compared"}
                            THEN Open(d) \cup {k} ELSE Open(d) \ {k}
    <2>1. /\ Busy(k)' /\ DeviceOf(k)' = DeviceOf(k) /\ task'[k].stage = stage
          /\ \A q \in Capture \ {k} : task'[q] = task[q]
      BY <1>5, TaskAfter
    <2>2. Writes(k)' <=> stage \in {"begun", "compared"}
      BY <2>1 DEF Writes
    <2>3. QED
      BY <1>5, <2>1, <2>2, OpenStep
  <1>6. ASSUME NEW k \in Capture, Fetch(k) \/ FetchFails(k) \/ SaveCompares(k)
        PROVE  OrderInv'
    <2>1. Busy(k) /\ UNCHANGED history
      BY <1>6 DEF Fetch, FetchFails, SaveCompares, At
    <2>2. task[k] \in Task
      BY <2>1, TaskType
    <2>3. /\ task[k].text \in Text \cup {NoText} /\ task[k].previous \in Text \cup {NoText}
          /\ {"fetched", "compared", "failed"} \subseteq Stage
      BY <2>2 DEF Task, Stage
    <2>4. CASE Fetch(k) \/ FetchFails(k)
      <3>1. \E stage \in {"fetched", "failed"}, text \in Text \cup {NoText} :
              Goes(k, stage, text, task[k].previous)
        BY <2>1, <2>3, <2>4, TaskGoes
      <3>2. \A d \in Device : Open(d)' = Open(d) \ {k}
        BY <1>5, <2>1, <2>3, <3>1
      <3>3. \A d \in Device : k \notin Open(d)
        BY <2>4 DEF Open, Fetch, FetchFails, At
      <3>4. QED
        BY <2>1, <3>2, <3>3, OrderKept
    <2>5. CASE SaveCompares(k)
      <3>1. PICK p \in IF snapshots[DeviceOf(k)] = {} THEN {NoText} ELSE Newest(DeviceOf(k)) :
              Goes(k, "compared", task[k].text, p)
        BY <2>1, <2>5, TaskGoes
      <3>2. p \in Text \cup {NoText}
        BY <2>1, <3>1, TaskType DEF TypeOK, Newest
      <3>3. \A d \in Device : Open(d)' = IF d = DeviceOf(k) THEN Open(d) \cup {k} ELSE Open(d) \ {k}
        BY <1>5, <2>1, <2>3, <3>1, <3>2
      <3>4. \A d \in Device : k \in Open(d) <=> d = DeviceOf(k)
        BY <2>5 DEF Open, SaveCompares, At
      <3>5. QED
        BY <2>1, <3>3, <3>4, OrderKept
    <2>6. QED
      BY <1>6, <2>4, <2>5
  <1>7. ASSUME NEW k \in Capture, SaveBegins(k)
        PROVE  OrderInv'
    <2>1. Busy(k) /\ task[k] \in Task /\ task[k].stage = "fetched" /\ UNCHANGED snapshots
      BY <1>7, TaskType DEF SaveBegins, At
    <2>2. /\ task[k].text \in Text \cup {NoText} /\ task[k].previous \in Text \cup {NoText}
          /\ "begun" \in Stage
      BY <2>1 DEF Task, Stage
    <2>3. \A d \in Device : Open(d)' = IF d = DeviceOf(k) THEN Open(d) \cup {k} ELSE Open(d) \ {k}
      BY <1>5, <1>7, <2>1, <2>2, TaskGoes
    <2>4. \A d \in Device : k \notin Open(d)
      BY <2>1 DEF Open
    <2>5. ASSUME NEW d \in Device, d # DeviceOf(k)
          PROVE  Ordered(Items(d), newer[d])'
      <3>1. newer'[d] = newer[d]
        BY <1>7, <2>5 DEF SaveBegins, TypeOK
      <3>2. Items(d)' = Items(d)
        BY <2>1, <2>3, <2>4, <2>5 DEF Items
      <3>3. QED
        BY <3>1, <3>2 DEF OrderInv
    <2>6. ASSUME NEW d \in Device, d = DeviceOf(k)
          PROVE  Ordered(Items(d), newer[d])'
      <3>1. newer'[d] = newer[d] \cup (Items(d) \X {k})
        BY <1>7, <2>6 DEF SaveBegins, TypeOK, Items
      <3>2. Items(d)' = Items(d) \cup {k}
        BY <2>1, <2>3, <2>6 DEF Items
      <3>3. k \notin Items(d)
        BY <2>4 DEF Items, TypeOK
      <3>4. Ordered(Items(d), newer[d])
        BY DEF OrderInv
      <3>5. Ordered(Items(d) \cup {k}, newer[d] \cup (Items(d) \X {k}))
        BY <3>3, <3>4, OrderedTop
      <3>6. QED
        BY <3>1, <3>2, <3>5
    <2>7. QED
      BY <2>5, <2>6 DEF OrderInv
  <1>8. ASSUME NEW k \in Capture, SaveFails(k)
        PROVE  OrderInv'
    <2>1. Busy(k) /\ UNCHANGED snapshots /\ DeviceOf(k) \in Device /\ "failed" \in Stage
      BY <1>8, TaskType DEF SaveFails, At, Stage
    <2>2. \A d \in Device : Open(d)' = Open(d) \ {k}
      BY <1>5, <1>8, <2>1, TaskGoes
    <2>3. ASSUME NEW d \in Device, d # DeviceOf(k)
          PROVE  Ordered(Items(d), newer[d])'
      <3>1. newer'[d] = newer[d]
        BY <1>8, <2>3 DEF SaveFails, TypeOK
      <3>2. k \notin Open(d)
        BY <2>3 DEF Open
      <3>3. Items(d)' = Items(d)
        BY <2>1, <2>2, <3>2 DEF Items
      <3>4. QED
        BY <3>1, <3>3 DEF OrderInv
    <2>4. ASSUME NEW d \in Device, d = DeviceOf(k)
          PROVE  Ordered(Items(d), newer[d])'
      <3>1. newer'[d] = Withdrawn(newer[d], {k})
        BY <1>8, <2>4 DEF SaveFails, TypeOK
      <3>2. Items(d)' = Items(d) \ {k}
        BY <2>1, <2>2 DEF Items, TypeOK
      <3>3. Ordered(Items(d) \ {k}, Withdrawn(newer[d], {k}))
        BY OrderedPart DEF OrderInv
      <3>4. QED
        BY <3>1, <3>2, <3>3
    <2>5. QED
      BY <2>3, <2>4 DEF OrderInv
  <1>9. ASSUME NEW k \in Capture, SaveCommits(k)
        PROVE  OrderInv'
    <2>1. Busy(k) /\ task[k].stage = "compared" /\ task[k].text \in Text
      BY <1>9 DEF SaveCommits, At, TaskInv
    <2>2. ~Busy(k)' /\ \A q \in Capture \ {k} : task'[q] = task[q]
      BY <1>9 DEF SaveCommits, TypeOK, Busy
    <2>3. \A d \in Device : Open(d)' = Open(d) \ {k}
      BY <2>1, <2>2, OpenStep DEF Writes
    <2>4. ASSUME NEW d \in Device, d # DeviceOf(k)
          PROVE  Ordered(Items(d), newer[d])'
      <3>1. newer'[d] = newer[d] /\ snapshots'[d] = snapshots[d]
        BY <1>9, <2>4 DEF SaveCommits, TypeOK
      <3>2. k \notin Open(d)
        BY <2>4 DEF Open
      <3>3. Items(d)' = Items(d)
        BY <2>3, <3>1, <3>2 DEF Items
      <3>4. QED
        BY <3>1, <3>3 DEF OrderInv
    <2>5. ASSUME NEW d \in Device, d = DeviceOf(k)
          PROVE  Ordered(Items(d), newer[d])'
      <3>1. PICK t \in Text : t = task[k].text
        BY <2>1
      <3>2. newer'[d] = Placed(newer[d], k, t) /\ snapshots'[d] = snapshots[d] \cup {t}
        BY <1>9, <2>5, <3>1 DEF SaveCommits, TypeOK
      <3>3. k \notin snapshots[d] /\ k # t /\ k \in Items(d)
        BY <2>1, <2>5 DEF TypeOK, Items, Open
      <3>4. Items(d)' = (Items(d) \ {k}) \cup {t}
        BY <2>3, <3>2, <3>3 DEF Items
      <3>5. Ordered(Items(d), newer[d])
        BY DEF OrderInv
      <3>6. Ordered((Items(d) \ {k}) \cup {t}, Placed(newer[d], k, t))
        BY <3>3, <3>5, OrderedPlaced
      <3>7. QED
        BY <3>2, <3>4, <3>6
    <2>6. QED
      BY <2>4, <2>5 DEF OrderInv
  <1>10. ASSUME NEW k \in Capture,
                FetchHangs(k) \/ \E saved \in BOOLEAN : ConfigBackupFailed(k, saved)
         PROVE  OrderInv'
    <2>1. Busy(k) /\ task[k].stage \in {"fetching", "failed"} /\ UNCHANGED history
      BY <1>10 DEF FetchHangs, ConfigBackupFailed, At
    <2>2. ~Busy(k)' /\ \A q \in Capture \ {k} : task'[q] = task[q]
      BY <1>10 DEF FetchHangs, ConfigBackupFailed, TypeOK, Busy
    <2>3. \A d \in Device : Open(d)' = Open(d) \ {k}
      BY <2>1, <2>2, OpenStep DEF Writes
    <2>4. \A d \in Device : k \notin Open(d)
      BY <2>1 DEF Open
    <2>5. QED
      BY <2>1, <2>3, <2>4, OrderKept
  <1>11. CASE Restart
    <2>1. SUFFICES ASSUME NEW d \in Device
                   PROVE  Ordered(Items(d), newer[d])'
      BY DEF OrderInv
    <2>2. newer'[d] = Withdrawn(newer[d], Capture) /\ snapshots'[d] = snapshots[d] /\ Open(d)' = {}
      BY <1>11 DEF Restart, Open, Busy
    <2>3. snapshots[d] \cap Capture = {} /\ Open(d) \subseteq Capture
      BY DEF TypeOK, Open
    <2>4. Items(d)' = Items(d) \ Capture
      BY <2>2, <2>3 DEF Items
    <2>5. Ordered(Items(d) \ Capture, Withdrawn(newer[d], Capture))
      BY OrderedPart DEF OrderInv
    <2>6. QED
      BY <2>2, <2>4, <2>5
  <1>12. QED
    <2>1. ASSUME NEW d \in Device, \/ CreateConfigProfile(d) \/ TriggerConfigBackup(d) \/ Sweep(d)
                                   \/ \E answer \in Text \cup {Refusal} : Reconfigure(d, answer)
          PROVE  OrderInv'
      BY <1>1, <2>1 DEF CreateConfigProfile, TriggerConfigBackup, Sweep, Reconfigure
    <2>2. CASE UNCHANGED vars
      BY <1>1, <2>2 DEF vars
    <2>3. QED
      BY <1>2, <1>3, <1>4, <1>6, <1>7, <1>8, <1>9, <1>10, <1>11, <2>1, <2>2 DEF Next

-----------------------------------------------------------------------------
(* The rest of the invariant.                                              *)

LEMMA InitHolds == Init => IInv
  <1> SUFFICES ASSUME Init PROVE IInv
    OBVIOUS
  <1>1. TypeOK
    BY DEF Init, TypeOK
  <1>2. \A k \in Capture : ~Busy(k)
    BY DEF Init, Busy
  <1>3. OrderInv
    <2>1. SUFFICES ASSUME NEW d \in Device PROVE Ordered(Items(d), newer[d])
      BY DEF OrderInv
    <2>2. Items(d) = {} /\ newer[d] = {}
      BY <1>2 DEF Init, Items, Open
    <2>3. QED
      BY <2>2, OrderedEmpty
  <1>4. QED
    BY <1>1, <1>2, <1>3 DEF IInv, TaskInv, IncidentHasVersions, Init

\* Profiles, their state, the versions and the incidents.
LEMMA RowsStep ==
    ASSUME IInv, [Next]_vars
    PROVE  /\ live' \in SUBSET Device
           /\ config' \in [Device -> Text \cup {Refusal}]
           /\ profiles' \in SUBSET Device
           /\ due' \in SUBSET profiles'
           /\ erring' \in SUBSET profiles'
           /\ snapshots' \in [Device -> SUBSET Text]
           /\ incident' \in SUBSET Device
  <1> USE DEF IInv, TypeOK
  <1> DEFINE Rows == /\ live' \in SUBSET Device
                     /\ config' \in [Device -> Text \cup {Refusal}]
                     /\ profiles' \in SUBSET Device
                     /\ due' \in SUBSET profiles'
                     /\ erring' \in SUBSET profiles'
                     /\ snapshots' \in [Device -> SUBSET Text]
                     /\ incident' \in SUBSET Device
  <1>1. ASSUME NEW d \in Device,
               \/ CreateConfigProfile(d) \/ DeleteConfigProfile(d) \/ TriggerConfigBackup(d)
               \/ Sweep(d) \/ DeleteDevice(d)
               \/ \E answer \in Text \cup {Refusal} : Reconfigure(d, answer)
        PROVE  Rows
    BY <1>1 DEF CreateConfigProfile, DeleteConfigProfile, TriggerConfigBackup, Sweep, DeleteDevice,
                Reconfigure
  <1>2. ASSUME NEW k \in Capture, NEW d \in Device, ClaimConfigBackup(k, d)
        PROVE  Rows
    BY <1>2 DEF ClaimConfigBackup
  <1>3. ASSUME NEW k \in Capture,
               \/ Fetch(k) \/ FetchFails(k) \/ FetchHangs(k)
               \/ SaveBegins(k) \/ SaveCompares(k) \/ SaveFails(k)
        PROVE  Rows
    BY <1>3 DEF Fetch, FetchFails, FetchHangs, SaveBegins, SaveCompares, SaveFails
  <1>4. ASSUME NEW k \in Capture, SaveCommits(k)
        PROVE  Rows
    <2>1. Busy(k) /\ task[k].text \in Text /\ DeviceOf(k) \in Device
      BY <1>4, TaskType DEF SaveCommits, At, TaskInv
    <2>2. QED
      BY <1>4, <2>1 DEF SaveCommits, Cleared
  <1>5. ASSUME NEW k \in Capture, NEW saved \in BOOLEAN, ConfigBackupFailed(k, saved)
        PROVE  Rows
    <2>1. Reported(k) \subseteq profiles
      BY <1>5 DEF ConfigBackupFailed, At, TaskInv, Reported
    <2>2. QED
      BY <1>5, <2>1 DEF ConfigBackupFailed
  <1>6. CASE Restart
    BY <1>6 DEF Restart
  <1>7. CASE UNCHANGED vars
    BY <1>7 DEF vars
  <1>8. QED
    BY <1>1, <1>2, <1>3, <1>4, <1>5, <1>6, <1>7 DEF Next

LEMMA NewerFunction ==
    ASSUME IInv, [Next]_vars
    PROVE  \E f : newer' = [d \in Device |-> f[d]]
  <1> USE DEF IInv, TypeOK
  <1>1. \/ \E d \in Device : \E order : newer' = [newer EXCEPT ![d] = order]
        \/ \E order : newer' = [d \in Device |-> order[d]]
        \/ newer' = newer
    <2>1. ASSUME NEW k \in Capture,
                 SaveBegins(k) \/ SaveCommits(k) \/ SaveFails(k)
          PROVE  \E d \in Device : \E order : newer' = [newer EXCEPT ![d] = order]
      BY <2>1, TaskType DEF SaveBegins, SaveCommits, SaveFails, At
    <2>2. ASSUME NEW d \in Device, DeleteDevice(d)
          PROVE  \E order : newer' = [newer EXCEPT ![d] = order]
      BY <2>2 DEF DeleteDevice
    <2>3. CASE Restart
      <3>1. newer' = [d \in Device |-> Withdrawn(newer[d], Capture)]
        BY <2>3 DEF Restart
      <3>2. newer' = [d \in Device |-> newer'[d]]
        BY <3>1
      <3>3. QED
        BY <3>2
    <2>4. ASSUME NEW k \in Capture,
                 \/ Fetch(k) \/ FetchFails(k) \/ FetchHangs(k) \/ SaveCompares(k)
                 \/ \E saved \in BOOLEAN : ConfigBackupFailed(k, saved)
                 \/ \E d \in Device : ClaimConfigBackup(k, d)
          PROVE  newer' = newer
      BY <2>4 DEF Fetch, FetchFails, FetchHangs, SaveCompares, ConfigBackupFailed, ClaimConfigBackup
    <2>5. ASSUME NEW d \in Device,
                 \/ CreateConfigProfile(d) \/ DeleteConfigProfile(d) \/ TriggerConfigBackup(d)
                 \/ Sweep(d) \/ \E answer \in Text \cup {Refusal} : Reconfigure(d, answer)
          PROVE  newer' = newer
      BY <2>5 DEF CreateConfigProfile, DeleteConfigProfile, TriggerConfigBackup, Sweep, Reconfigure
    <2>6. QED
      BY <2>1, <2>2, <2>3, <2>4, <2>5 DEF Next, vars
  <1>2. newer = [d \in Device |-> newer[d]]
    OBVIOUS
  <1>3. ASSUME NEW d \in Device, NEW order, newer' = [newer EXCEPT ![d] = order]
        PROVE  newer' = [e \in Device |-> newer'[e]]
    BY <1>3
  <1>4. QED
    BY <1>1, <1>2, <1>3

LEMMA TypesStep ==
    ASSUME IInv, [Next]_vars
    PROVE  TypeOK'
  <1>1. newer' \in [Device -> SUBSET ((Text \cup Capture) \X (Text \cup Capture))]
    <2>1. ASSUME NEW d \in Device
          PROVE  newer'[d] \subseteq (Text \cup Capture) \X (Text \cup Capture)
      <3>1. newer'[d] \subseteq Items(d)' \X Items(d)'
        BY OrderStep DEF OrderInv, Ordered
      <3>2. Items(d)' \subseteq Text \cup Capture
        BY RowsStep DEF Items, Open
      <3>3. QED
        BY <3>1, <3>2
    <2>2. PICK f : newer' = [d \in Device |-> f[d]]
      BY NewerFunction
    <2>3. QED
      BY <2>1, <2>2
  <1>2. QED
    BY <1>1, RowsStep, TasksStep DEF TypeOK

\* A version that is compared with another one is still there at the commit.
LEMMA IncidentsStep ==
    ASSUME IInv, [Next]_vars
    PROVE  IncidentHasVersions'
  <1> USE DEF IInv, IncidentHasVersions
  <1>1. ASSUME incident' \subseteq incident, UNCHANGED <<live, snapshots>>
        PROVE  IncidentHasVersions'
    BY <1>1
  <1>2. ASSUME NEW k \in Capture, SaveCommits(k)
        PROVE  IncidentHasVersions'
    <2>1. PICK d \in Device : d = DeviceOf(k)
      BY <1>2, TaskType DEF SaveCommits, At
    <2>2. Busy(k) /\ task[k].stage = "compared" /\ d \in live /\ task[k].text \in Text
      BY <1>2, <2>1 DEF SaveCommits, At, TaskInv
    <2>3. /\ snapshots' = [snapshots EXCEPT ![d] = @ \cup {task[k].text}]
          /\ incident' = IF Changed(k) THEN incident \cup {d} ELSE incident
          /\ UNCHANGED live
      BY <1>2, <2>1 DEF SaveCommits
    <2>4. \A e \in Device : snapshots[e] \subseteq snapshots'[e]
      BY <2>3 DEF TypeOK
    <2>5. \A e \in incident : e \in live' /\ \E t, u \in snapshots'[e] : t # u
      BY <2>3, <2>4 DEF TypeOK
    <2>6. Changed(k) => \E t, u \in snapshots'[d] : t # u
      <3>1. SUFFICES ASSUME Changed(k)
                     PROVE  task[k].previous \in snapshots'[d] /\ task[k].text \in snapshots'[d]
                              /\ task[k].previous # task[k].text
        OBVIOUS
      <3>2. task[k].previous \in snapshots[d]
        BY <2>1, <2>2, <3>1 DEF Changed, TaskInv
      <3>3. QED
        BY <2>3, <2>4, <3>1, <3>2 DEF Changed, TypeOK
    <2>7. QED
      BY <2>2, <2>3, <2>5, <2>6
  <1>3. ASSUME NEW d \in Device, DeleteDevice(d)
        PROVE  IncidentHasVersions'
    BY <1>3 DEF DeleteDevice, TypeOK
  <1>4. ASSUME NEW k \in Capture,
               \/ Fetch(k) \/ FetchFails(k) \/ FetchHangs(k)
               \/ SaveBegins(k) \/ SaveCompares(k) \/ SaveFails(k)
               \/ \E saved \in BOOLEAN : ConfigBackupFailed(k, saved)
               \/ \E d \in Device : ClaimConfigBackup(k, d)
        PROVE  IncidentHasVersions'
    BY <1>1, <1>4 DEF Fetch, FetchFails, FetchHangs, SaveBegins, SaveCompares, SaveFails,
                      ConfigBackupFailed, ClaimConfigBackup
  <1>5. ASSUME NEW d \in Device,
               \/ CreateConfigProfile(d) \/ DeleteConfigProfile(d) \/ TriggerConfigBackup(d)
               \/ Sweep(d) \/ \E answer \in Text \cup {Refusal} : Reconfigure(d, answer)
        PROVE  IncidentHasVersions'
    BY <1>1, <1>5 DEF CreateConfigProfile, DeleteConfigProfile, TriggerConfigBackup, Sweep, Reconfigure
  <1>6. CASE Restart
    BY <1>1, <1>6 DEF Restart
  <1>7. CASE UNCHANGED vars
    BY <1>1, <1>7 DEF vars
  <1>8. QED
    BY <1>2, <1>3, <1>4, <1>5, <1>6, <1>7 DEF Next

LEMMA InvariantHolds == Spec => []IInv
  <1>1. IInv /\ [Next]_vars => IInv'
    BY TasksStep, TypesStep, OrderStep, IncidentsStep DEF IInv
  <1>2. QED
    BY <1>1, InitHolds, PTL DEF Spec

-----------------------------------------------------------------------------
(* What holds in every state.                                              *)

\* The rows and tasks keep their shape: what is due or erring has a profile,
\* although goroutines report about profiles that may have been deleted.
THEOREM BackupTypes == Spec => []TypeOK
  <1>1. IInv => TypeOK
    BY DEF IInv
  <1>2. QED
    BY <1>1, InvariantHolds, PTL

\* An incident "Configuration changed" has two versions to compare.
THEOREM ChangesHaveVersions == Spec => []IncidentHasVersions
  <1>1. IInv => IncidentHasVersions
    BY DEF IInv
  <1>2. QED
    BY <1>1, InvariantHolds, PTL

\* ORDER BY captured_at DESC LIMIT 1 has one answer, however transactions
\* interleave and whatever returns to an earlier configuration.
THEOREM NewestIsUnique == Spec => []OneNewest
  <1>1. IInv => OneNewest
    <2>1. SUFFICES ASSUME IInv, NEW d \in Device, snapshots[d] # {}
                   PROVE  \E t \in snapshots[d] : Newest(d) = {t}
      BY DEF OneNewest
    <2>2. Ordered(Items(d), newer[d]) /\ snapshots[d] \subseteq Items(d)
      BY <2>1 DEF IInv, OrderInv, Items
    <2>3. PICK t \in snapshots[d] : \A u \in snapshots[d] \ {t} : <<u, t>> \in newer[d]
      BY <2>1, <2>2 DEF Ordered
    <2>4. \A u \in snapshots[d] \ {t} : <<t, u>> \notin newer[d]
      BY <2>2, <2>3 DEF Ordered
    <2>5. Newest(d) = {t}
      BY <2>3, <2>4 DEF Newest
    <2>6. QED
      BY <2>5
  <1>2. QED
    BY <1>1, InvariantHolds, PTL
=============================================================================
