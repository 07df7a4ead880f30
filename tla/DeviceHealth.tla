---------------------------- MODULE DeviceHealth ----------------------------
(***************************************************************************)
(* The health rules of internal/store/store.go: how the status column of a *)
(* device follows from its checks, its Monit services, its agent and the   *)
(* status of its parent, and what the two recalculation statements that    *)
(* every result, Monit report and agent report executes do to the table.   *)
(*                                                                         *)
(* A table is a function on Device.  An UPDATE reads the rows as they were *)
(* when the statement started, so both recalculations map the old status   *)
(* function to a new one and never see the rows they write themselves.     *)
(* What they read of the rows below the devices, and of the parent, is     *)
(* given to them: it may be out of date by the time they write.            *)
(***************************************************************************)
CONSTANTS
    Device,     \* device identifiers
    NoDevice    \* the NULL of parent_id

ASSUME NoDeviceAssumption == NoDevice \notin Device

DeviceStatus == {"up", "down", "degraded", "unknown", "dependency"}

\* p.status IN ('down','dependency')
Failing == {"down", "dependency"}

\* Mutant: a status the column does not admit.
OwnHealth_NoDefault(checks, services, reports) ==
    IF "down" \in checks \/ "failing" \in services THEN "down"
    ELSE IF "up" \in checks \/ reports THEN "up"
    ELSE "none"

(***************************************************************************)
(* What a device shows when its parent is not failing.  checks is the set  *)
(* of statuses of its checks, services the set of conditions of its Monit  *)
(* services, reports whether a Monit host or an agent reports for it.      *)
(***************************************************************************)
OwnHealth(checks, services, reports) ==
    IF "down" \in checks \/ "failing" \in services THEN "down"
    ELSE IF "unmonitored" \in services THEN "degraded"
    ELSE IF "up" \in checks \/ reports THEN "up"
    ELSE "unknown"

\* The parent of d is failing: d has no parent row when parent_id is NULL.
ParentFailing(status, parent, d) ==
    parent[d] # NoDevice /\ status[parent[d]] \in Failing

\* The CASE expression of the UPDATE statements.
Health(status, parent, own, d) ==
    IF ParentFailing(status, parent, d) THEN "dependency" ELSE own[d]

\* recalcDeviceStatusTx: one row.  hidden is what it has read of the parent.
RecalcDevice(status, own, hidden, d) ==
    [status EXCEPT ![d] = IF hidden THEN "dependency" ELSE own[d]]

\* A set that holds the children of d and the children of its members.
ClosedBelow(parent, d, S) ==
    \A e \in Device : parent[e] = d \/ parent[e] \in S => e \in S

\* WITH RECURSIVE descendants: the least set closed below d.
Descendants(parent, d) ==
    {e \in Device : \A S \in SUBSET Device : ClosedBelow(parent, d, S) => e \in S}

\* Mutant: only the children are recalculated.
RecalcDescendants_ChildrenOnly(status, parent, own, d) ==
    [e \in Device |-> IF parent[e] = d THEN Health(status, parent, own, e) ELSE status[e]]

\* recalcDescendantStatusesTx: every descendant at once, from one snapshot.
RecalcDescendants(status, parent, own, d) ==
    LET below == Descendants(parent, d) IN
    [e \in Device |-> IF e \in below THEN Health(status, parent, own, e) ELSE status[e]]

\* Mutant: the device after its descendants.
Recalc_DescendantsFirst(status, parent, own, hidden, d) ==
    RecalcDevice(RecalcDescendants(status, parent, own, d), own, hidden, d)

\* Mutant: the descendants only.
Recalc_SkipsDevice(status, parent, own, hidden, d) ==
    RecalcDescendants(status, parent, own, d)

\* The two statements in the order every caller executes them.
Recalc(status, parent, own, hidden, d) ==
    RecalcDescendants(RecalcDevice(status, own, hidden, d), parent, own, d)

\* Mutant: only the new parent itself is compared.
AncestorsOf_ParentOnly(parent, e) == {e}

(***************************************************************************)
(* WITH RECURSIVE ancestors: e and everything above it.  With a cycle the  *)
(* UNION ALL of the code does not end; the callers modelled keep parent    *)
(* acyclic, where the query returns this set.                              *)
(***************************************************************************)
AncestorsOf(parent, e) ==
    {a \in Device : a = e \/ e \in Descendants(parent, a)}
=============================================================================
