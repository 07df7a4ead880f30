------------------------- MODULE DeviceHealthProofs -------------------------
(***************************************************************************)
(* Facts about the health rules: the shape of the two recalculations, and  *)
(* why the checks of UpdateDevice keep the parent relationships a forest.  *)
(***************************************************************************)
EXTENDS DeviceHealth, TLAPS

ParentFunction == [Device -> Device \cup {NoDevice}]

\* No device is below itself.
Acyclic(parent) == \A d \in Device : d \notin Descendants(parent, d)

-----------------------------------------------------------------------------
(* Recalculation.                                                          *)

\* The health of a device is a status of the column if its own health is.
LEMMA HealthType ==
    ASSUME NEW status, NEW parent, NEW own \in [Device -> DeviceStatus], NEW d \in Device
    PROVE  Health(status, parent, own, d) \in DeviceStatus
  BY DEF Health, DeviceStatus

\* OwnHealth is one of the statuses a device can have on its own.
LEMMA OwnHealthType ==
    ASSUME NEW checks, NEW services, NEW reports
    PROVE  OwnHealth(checks, services, reports) \in DeviceStatus \ {"dependency"}
  BY DEF OwnHealth, DeviceStatus

\* Recalculating d writes d and its descendants, and nothing else.
LEMMA RecalcShape ==
    ASSUME NEW R, DeviceStatus \subseteq R, NEW status \in [Device -> R],
           NEW parent \in ParentFunction, NEW own \in [Device -> DeviceStatus],
           NEW hidden, NEW d \in Device
    PROVE  LET new == Recalc(status, parent, own, hidden, d) IN
           /\ new \in [Device -> R]
           /\ \A e \in Device : new[e] = status[e] \/ new[e] \in {"dependency", own[e]}
           /\ new[d] \in {"dependency", own[d]}
  <1> DEFINE mid == RecalcDevice(status, own, hidden, d)
             new == Recalc(status, parent, own, hidden, d)
  <1>1. \A s, e : Health(s, parent, own, e) \in {"dependency", own[e]}
    BY DEF Health
  <1>2. /\ mid \in [Device -> R]
        /\ mid[d] \in {"dependency", own[d]}
        /\ \A e \in Device \ {d} : mid[e] = status[e]
    BY DEF RecalcDevice, DeviceStatus
  <1>3. /\ new = [e \in Device |-> IF e \in Descendants(parent, d)
                                   THEN Health(mid, parent, own, e) ELSE mid[e]]
    BY DEF Recalc, RecalcDescendants
  <1>4. new \in [Device -> R]
    <2>1. \A e \in Device : Health(mid, parent, own, e) \in DeviceStatus
      BY HealthType
    <2>2. QED
      BY <1>2, <1>3, <2>1
  <1>5. \A e \in Device : new[e] = status[e] \/ new[e] \in {"dependency", own[e]}
    <2>1. \A e \in Device : Health(mid, parent, own, e) \in {"dependency", own[e]}
      BY <1>1
    <2>2. \A e \in Device : mid[e] = status[e] \/ mid[e] \in {"dependency", own[e]}
      BY <1>1, <1>2
    <2>3. \A e \in Device : new[e] \in {mid[e], Health(mid, parent, own, e)}
      BY <1>3
    <2>4. QED
      BY <2>1, <2>2, <2>3
  <1>6. new[d] \in {"dependency", own[d]}
    BY <1>1, <1>2, <1>3
  <1>7. QED
    BY <1>4, <1>5, <1>6

-----------------------------------------------------------------------------
(* Descendants as a least fixed point.                                     *)

\* The descendants are themselves closed.
LEMMA DescendantsClosed ==
    ASSUME NEW parent, NEW d
    PROVE  ClosedBelow(parent, d, Descendants(parent, d))
  <1>1. SUFFICES ASSUME NEW e \in Device,
                        parent[e] = d \/ parent[e] \in Descendants(parent, d),
                        NEW S \in SUBSET Device, ClosedBelow(parent, d, S)
                 PROVE  e \in S
    BY DEF ClosedBelow, Descendants
  <1>2. parent[e] = d \/ parent[e] \in S
    BY <1>1 DEF Descendants
  <1>3. QED
    BY <1>1, <1>2 DEF ClosedBelow

\* They are contained in every closed set.
LEMMA DescendantsLeast ==
    ASSUME NEW parent, NEW d, NEW S \in SUBSET Device, ClosedBelow(parent, d, S)
    PROVE  Descendants(parent, d) \subseteq S
  BY DEF Descendants

LEMMA DescendantsSubset ==
    ASSUME NEW parent, NEW d
    PROVE  Descendants(parent, d) \in SUBSET Device
  BY DEF Descendants

\* What is below a descendant is below the device.
LEMMA DescendantsTransitive ==
    ASSUME NEW parent, NEW d, NEW e \in Descendants(parent, d)
    PROVE  Descendants(parent, e) \subseteq Descendants(parent, d)
  <1>1. ClosedBelow(parent, e, Descendants(parent, d))
    BY DescendantsClosed DEF ClosedBelow
  <1>2. QED
    BY <1>1, DescendantsLeast, DescendantsSubset

\* Taking parents away keeps the relationship acyclic (DELETE of a device).
LEMMA DetachKeepsAcyclic ==
    ASSUME NEW parent \in ParentFunction, NEW new \in ParentFunction, Acyclic(parent),
           \A e \in Device : new[e] \in {parent[e], NoDevice}
    PROVE  Acyclic(new)
  <1>1. SUFFICES ASSUME NEW d \in Device
                 PROVE  d \notin Descendants(new, d)
    BY DEF Acyclic
  <1>2. ClosedBelow(new, d, Descendants(parent, d))
    BY DescendantsClosed, DescendantsSubset, NoDeviceAssumption DEF ClosedBelow
  <1>3. QED
    BY <1>2, DescendantsLeast, DescendantsSubset DEF Acyclic

\* A new parent p of d makes no cycle when d is not p or above it, which is
\* what UpdateDevice has its query check.
LEMMA AttachKeepsAcyclic ==
    ASSUME NEW parent \in ParentFunction, Acyclic(parent),
           NEW d \in Device, NEW p \in Device, d \notin AncestorsOf(parent, p)
    PROVE  Acyclic([parent EXCEPT ![d] = p])
  <1> DEFINE new  == [parent EXCEPT ![d] = p]
             tree == Descendants(parent, d) \cup {d}
  <1>1. p \notin tree
    BY DEF AncestorsOf
  <1>2. /\ new[d] = p
        /\ \A e \in Device \ {d} : new[e] = parent[e]
    BY DEF ParentFunction
  <1>3. tree \in SUBSET Device
    BY DescendantsSubset
  <1>4. SUFFICES ASSUME NEW x \in Device
                 PROVE  x \notin Descendants(new, x)
    BY DEF Acyclic
  <1>5. x \notin Descendants(parent, x)
    BY DEF Acyclic
  <1>6. CASE x \in tree
    <2>1. Descendants(parent, x) \subseteq tree
      BY <1>6, DescendantsTransitive
    <2>2. ClosedBelow(new, x, Descendants(parent, x))
      <3>1. SUFFICES ASSUME NEW e \in Device,
                            new[e] = x \/ new[e] \in Descendants(parent, x)
                     PROVE  e \in Descendants(parent, x)
        BY DEF ClosedBelow
      <3>2. e # d
        BY <1>1, <1>2, <1>6, <2>1, <3>1
      <3>3. QED
        BY <1>2, <3>1, <3>2, DescendantsClosed DEF ClosedBelow
    <2>3. QED
      BY <1>5, <2>2, DescendantsLeast, DescendantsSubset
  <1>7. CASE x \notin tree
    <2> DEFINE S == Descendants(parent, x) \cup tree
    <2>1. S \in SUBSET Device
      BY <1>3, DescendantsSubset
    <2>2. ClosedBelow(new, x, S)
      <3>1. SUFFICES ASSUME NEW e \in Device, e # d,
                            new[e] = x \/ new[e] \in S
                     PROVE  e \in S
        BY DEF ClosedBelow
      <3>2. parent[e] = x \/ parent[e] \in Descendants(parent, x) => e \in Descendants(parent, x)
        BY DescendantsClosed DEF ClosedBelow
      <3>3. parent[e] \in tree => e \in tree
        BY DescendantsClosed DEF ClosedBelow
      <3>4. QED
        BY <1>2, <3>1, <3>2, <3>3
    <2>3. Descendants(new, x) \subseteq S
      BY <2>1, <2>2, DescendantsLeast
    <2>4. QED
      BY <1>5, <1>7, <2>3
  <1>8. QED
    BY <1>6, <1>7
-----------------------------------------------------------------------------
(* Recalculation and the tree.                                             *)

\* Without a cycle a device is not below itself, nor is its parent below it.
LEMMA ParentNotBelow ==
    ASSUME NEW parent \in ParentFunction, NEW d \in Device, d \notin Descendants(parent, d),
           parent[d] # NoDevice
    PROVE  parent[d] \notin Descendants(parent, d) \cup {d}
  BY DescendantsClosed DEF ClosedBelow

\* Recalculating d leaves what is neither d nor below it alone.
LEMMA RecalcFrame ==
    ASSUME NEW R, NEW status \in [Device -> R], NEW parent, NEW own, NEW hidden, NEW d \in Device,
           NEW e \in Device, e \notin Descendants(parent, d) \cup {d}
    PROVE  Recalc(status, parent, own, hidden, d)[e] = status[e]
  <1>1. RecalcDevice(status, own, hidden, d)[e] = status[e]
    BY DEF RecalcDevice
  <1>2. QED
    BY <1>1 DEF Recalc, RecalcDescendants

\* A root is below nothing: recalculating another device leaves it alone.
LEMMA RootNotBelow ==
    ASSUME NEW parent, NEW d \in Device, NEW e \in Device, e # d, parent[e] = NoDevice
    PROVE  e \notin Descendants(parent, d) \cup {d}
  <1>1. ClosedBelow(parent, d, Device \ {e})
    BY NoDeviceAssumption DEF ClosedBelow
  <1>2. QED
    BY <1>1, DescendantsLeast

\* The parent of d fails after a recalculation of d exactly if it did before.
LEMMA RecalcKeepsParent ==
    ASSUME NEW R, NEW status \in [Device -> R], NEW parent \in ParentFunction, NEW own,
           NEW hidden, NEW d \in Device, d \notin Descendants(parent, d)
    PROVE  ParentFailing(Recalc(status, parent, own, hidden, d), parent, d)
             <=> ParentFailing(status, parent, d)
  <1>1. CASE parent[d] = NoDevice
    BY <1>1 DEF ParentFailing
  <1>2. CASE parent[d] # NoDevice
    <2>1. parent[d] \in Device
      BY <1>2 DEF ParentFunction
    <2>2. Recalc(status, parent, own, hidden, d)[parent[d]] = status[parent[d]]
      BY <1>2, <2>1, ParentNotBelow, RecalcFrame
    <2>3. QED
      BY <2>2 DEF ParentFailing
  <1>3. QED
    BY <1>1, <1>2

\* Both statements together carry the failure of d to its children, and the
\* end of it as well.
LEMMA RecalcReachesChildren ==
    ASSUME NEW status, NEW parent, NEW own, NEW hidden,
           NEW d \in Device, d \notin Descendants(parent, d),
           NEW e \in Device, parent[e] = d, own[e] # "dependency"
    PROVE  Recalc(status, parent, own, hidden, d)[e] = "dependency"
             <=> Recalc(status, parent, own, hidden, d)[d] \in Failing
  <1> DEFINE mid == RecalcDevice(status, own, hidden, d)
             new == Recalc(status, parent, own, hidden, d)
  <1>1. e \in Descendants(parent, d)
    BY DescendantsClosed DEF ClosedBelow
  <1>2. new[e] = Health(mid, parent, own, e)
    BY <1>1 DEF Recalc, RecalcDescendants
  <1>3. new[d] = mid[d]
    BY DEF Recalc, RecalcDescendants
  <1>4. ParentFailing(mid, parent, e) <=> new[d] \in Failing
    BY <1>3, NoDeviceAssumption DEF ParentFailing
  <1>5. QED
    BY <1>2, <1>4 DEF Health

=============================================================================
