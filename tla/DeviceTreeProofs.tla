-------------------------- MODULE DeviceTreeProofs --------------------------
(***************************************************************************)
(* Why sites and parent relationships can only go wrong by overlapping     *)
(* requests, for any number of devices, sites and requests: what a request *)
(* that nobody overtook has read still holds when it writes.               *)
(***************************************************************************)
EXTENDS DeviceTree, DeviceHealthProofs

USE SiteAssumption, NoDeviceAssumption

-----------------------------------------------------------------------------
(* Type correctness.                                                       *)

\* Marking requests keeps their type, and everything else about them.
LEMMA OvertakenType ==
    ASSUME TypeOK, NEW s
    PROVE  Overtaken(s) \in [Request -> Move \cup Drop \cup {Idle}]
  <1>1. SUFFICES ASSUME NEW k \in Request
                 PROVE  Overtaken(s)[k] \in Move \cup Drop \cup {Idle}
    BY DEF Overtaken
  <1>2. CASE Overtaken(s)[k] = request[k]
    BY <1>2 DEF TypeOK
  <1>3. CASE Busy(k) /\ Overtaken(s)[k] = [request[k] EXCEPT !.raced = TRUE]
    <2>1. CASE request[k] \in Move
      BY <1>3, <2>1 DEF Move
    <2>2. CASE request[k] \in Drop
      BY <1>3, <2>2 DEF Drop
    <2>3. QED
      BY <1>3, <2>1, <2>2 DEF Busy, TypeOK
  <1>4. QED
    BY <1>2, <1>3 DEF Overtaken

\* Every action keeps the types.
LEMMA TypeStep ==
    ASSUME TypeOK, [Next]_vars
    PROVE  TypeOK'
  <1> USE DEF table
  <1>1. CASE UNCHANGED vars
    BY <1>1 DEF vars, TypeOK
  <1>2. ASSUME NEW s \in Site, CreateSite(s)
        PROVE  TypeOK'
    BY <1>2 DEF CreateSite, TypeOK
  <1>3. ASSUME NEW d \in Device, NEW p \in Device \cup {NoDevice}, CreateDevice(d, p)
        PROVE  TypeOK'
    BY <1>3, OvertakenType DEF CreateDevice, DefaultSite, TypeOK
  <1>4. ASSUME NEW d \in Device, DeleteDevice(d)
        PROVE  TypeOK'
    BY <1>4 DEF DeleteDevice, TypeOK
  <1>5. ASSUME NEW k \in Request, NEW d \in Device, NEW s \in Site,
               NEW p \in Device \cup {NoDevice}, UpdateDevice(k, d, s, p)
        PROVE  TypeOK'
    BY <1>5 DEF UpdateDevice, TypeOK, Move
  <1>6. ASSUME NEW k \in Request, ReadParent(k) \/ ReadAncestors(k)
        PROVE  TypeOK'
    <2>1. request[k] \in Move
      BY <1>6 DEF ReadParent, ReadAncestors, At, Busy, TypeOK, Move, Drop
    <2>2. QED
      BY <1>6, <2>1 DEF ReadParent, ReadAncestors, Continue, TypeOK, Move
  <1>7. ASSUME NEW k \in Request, WriteDevice(k)
        PROVE  TypeOK'
    <2>1. request[k] \in Move
      BY <1>7 DEF WriteDevice, At, Busy, TypeOK, Move, Drop
    <2>2. QED
      BY <1>7, <2>1, OvertakenType DEF WriteDevice, Placeable, TypeOK, Move
  <1>8. ASSUME NEW k \in Request, NEW s \in Site, DeleteSite(k, s)
        PROVE  TypeOK'
    BY <1>8 DEF DeleteSite, TypeOK, Drop
  <1>9. ASSUME NEW k \in Request, WriteSite(k)
        PROVE  TypeOK'
    BY <1>9 DEF WriteSite, TypeOK
  <1>10. ASSUME NEW k \in Request, Fail(k)
         PROVE  TypeOK'
    BY <1>10 DEF Fail, TypeOK
  <1>11. QED
    BY <1>1, <1>2, <1>3, <1>4, <1>5, <1>6, <1>7, <1>8, <1>9, <1>10 DEF Next

\* The types of the variables hold in every state.
THEOREM TreeTypes == Spec => []TypeOK
  <1>1. Init => TypeOK
    BY DEF Init, TypeOK
  <1>2. TypeOK /\ [Next]_vars => TypeOK'
    BY TypeStep
  <1>3. QED
    BY <1>1, <1>2, PTL DEF Spec

-----------------------------------------------------------------------------
(* The inductive invariant.                                                *)

\* What a move has read, for the rows that are still there: its children and
\* its parent are in its site, and it is not its parent's ancestor.
MoveValid(e, D, S, up, at) ==
    /\ e.site \in S => \A c \in Device : up[c] = e.device => at[c] = e.site
    /\ e.stage # "parent" /\ e.parent \in D /\ e.site \in S => at[e.parent] = e.site
    /\ e.stage = "write" /\ e.parent \in D => e.device \notin AncestorsOf(up, e.parent)

\* What a deletion has counted: nothing is in the site.
DropValid(e, at) == \A d \in Device : at[d] # e.site

Valid(e, D, S, up, at) ==
    IF e.op = "move" THEN MoveValid(e, D, S, up, at) ELSE DropValid(e, at)

ReadsValid ==
    \A k \in Request : Busy(k) /\ ~request[k].raced => Valid(request[k], devices, sites, parent, site)

\* Without some edges a device is below fewer others.
LEMMA DetachShrinks ==
    ASSUME NEW old \in ParentFunction, NEW new \in ParentFunction, NEW d \in Device,
           \A e \in Device : new[e] \in {old[e], NoDevice}
    PROVE  Descendants(new, d) \subseteq Descendants(old, d)
  <1>1. ClosedBelow(new, d, Descendants(old, d))
    BY DescendantsClosed, DescendantsSubset DEF ClosedBelow
  <1>2. QED
    BY <1>1, DescendantsLeast, DescendantsSubset

\* Deleting other rows disturbs no read: devices lose their parent, sites
\* their devices.
LEMMA DeletionKeepsValid ==
    ASSUME NEW e \in Move \cup Drop, NEW D \in SUBSET Device, NEW D2 \in SUBSET D,
           NEW S, NEW S2, S2 \cap {e.site} \subseteq S,
           NEW up \in ParentFunction, NEW up2 \in ParentFunction,
           \A c \in Device : up2[c] \in {up[c], NoDevice},
           NEW at, NEW at2,
           \A c \in Device : at2[c] # at[c] =>
              at2[c] = NoSite /\ (at[c] \notin S2 \/ (c \notin D2 /\ up2[c] = NoDevice)),
           Valid(e, D, S, up, at)
    PROVE  Valid(e, D2, S2, up2, at2)
  <1>1. CASE e.op = "move"
    <2>1. e \in Move /\ MoveValid(e, D, S, up, at)
      BY <1>1 DEF Valid, Move, Drop
    <2>2. e.device \in Device /\ e.site \in Site
      BY <2>1 DEF Move
    <2>3. ASSUME e.site \in S2, NEW c \in Device, up2[c] = e.device
          PROVE  at2[c] = e.site
      BY <2>1, <2>2, <2>3 DEF MoveValid
    <2>4. ASSUME e.stage # "parent", e.parent \in D2, e.site \in S2
          PROVE  at2[e.parent] = e.site
      BY <2>1, <2>4 DEF MoveValid
    <2>5. ASSUME e.stage = "write", e.parent \in D2
          PROVE  e.device \notin AncestorsOf(up2, e.parent)
      BY <2>1, <2>2, <2>5, DetachShrinks DEF MoveValid, AncestorsOf
    <2>6. QED
      BY <1>1, <2>3, <2>4, <2>5 DEF Valid, MoveValid
  <1>2. CASE e.op # "move"
    <2>1. e \in Drop /\ DropValid(e, at)
      BY <1>2 DEF Valid, Move, Drop
    <2>2. DropValid(e, at2)
      BY <2>1 DEF DropValid, Drop
    <2>3. QED
      BY <1>2, <2>2 DEF Valid
  <1>3. QED
    BY <1>1, <1>2

\* A deletion whose site nobody was placed in.
LEMMA PlacementKeepsDrop ==
    ASSUME NEW e \in Drop, NEW at, NEW at2, DropValid(e, at), NEW s, e.site # s,
           \A c \in Device : at2[c] \in {at[c], s}
    PROVE  DropValid(e, at2)
  BY DEF DropValid

\* A device is placed in s: requests that are not marked have counted the
\* devices of another site.
LEMMA PlacementKeepsReads ==
    ASSUME TypeOK, ReadsValid, NEW k \in Request, NEW s, Busy(k)',
           request'[k] = Overtaken(s)[k],
           \A c \in Device : site'[c] \in {site[c], s}
    PROVE  ~request'[k].raced => Valid(request'[k], devices', sites', parent', site')
  <1>1. SUFFICES ASSUME ~request'[k].raced
                 PROVE  Valid(request'[k], devices', sites', parent', site')
    OBVIOUS
  <1>2. Busy(k) /\ request[k] \in Move \cup Drop
    BY DEF Overtaken, Busy, TypeOK
  <1>3. request'[k] = request[k] /\ request[k] \in Drop /\ request[k].site # s
    BY <1>1, <1>2 DEF Overtaken, Move, Drop
  <1>4. DropValid(request[k], site)
    BY <1>1, <1>2, <1>3 DEF ReadsValid, Valid, Drop
  <1>5. DropValid(request[k], site')
    BY <1>3, <1>4, PlacementKeepsDrop
  <1>6. QED
    BY <1>3, <1>5 DEF Valid, Drop

\* A request that a step leaves alone while rows are deleted, or nothing is.
LEMMA DeletionKeepsReads ==
    ASSUME TypeOK, ReadsValid, NEW k \in Request, Busy(k)', request'[k] = request[k],
           devices' \in SUBSET devices, sites' \cap {request[k].site} \subseteq sites,
           parent' \in ParentFunction,
           \A c \in Device : parent'[c] \in {parent[c], NoDevice},
           \A c \in Device : site'[c] # site[c] =>
              site'[c] = NoSite /\ (site[c] \notin sites' \/ (c \notin devices' /\ parent'[c] = NoDevice))
    PROVE  ~request'[k].raced => Valid(request'[k], devices', sites', parent', site')
  <1>1. SUFFICES ASSUME ~request[k].raced
                 PROVE  Valid(request[k], devices', sites', parent', site')
    OBVIOUS
  <1>2. request[k] \in Move \cup Drop /\ devices \in SUBSET Device /\ parent \in ParentFunction
    BY DEF Busy, TypeOK, ParentFunction
  <1>3. Valid(request[k], devices, sites, parent, site)
    BY <1>1 DEF ReadsValid, Busy
  <1>4. QED
    BY <1>2, <1>3, DeletionKeepsValid

\* Every action keeps what requests have read valid.
LEMMA ReadsStep ==
    ASSUME TypeOK, ReadsValid, [Next]_vars
    PROVE  ReadsValid'
  <1> USE DEF table
  <1> DEFINE Good(k) == ~request'[k].raced => Valid(request'[k], devices', sites', parent', site')
  <1>a. SUFFICES ASSUME NEW k \in Request, Busy(k)'
                 PROVE  Good(k)
    BY DEF ReadsValid
  <1>b. parent \in ParentFunction /\ devices \in SUBSET Device
    BY DEF TypeOK, ParentFunction
  <1>c. ASSUME UNCHANGED table, request'[k] = request[k]
        PROVE  Good(k)
    BY <1>a, <1>b, <1>c, DeletionKeepsReads
  <1>1. CASE UNCHANGED vars
    BY <1>1, <1>c DEF vars
  <1>2. ASSUME NEW s \in Site, CreateSite(s)
        PROVE  Good(k)
    <2>1. request[k].site # s
      BY <1>a, <1>2 DEF CreateSite, Named, Busy
    <2>2. QED
      BY <1>a, <1>b, <1>2, <2>1, DeletionKeepsReads DEF CreateSite
  <1>3. ASSUME NEW d \in Device, NEW p \in Device \cup {NoDevice}, CreateDevice(d, p)
        PROVE  Good(k)
    <2>1. PICK s : /\ site' = [site EXCEPT ![d] = s]
                   /\ request' = Overtaken(s)
      BY <1>3 DEF CreateDevice
    <2>2. QED
      BY <1>a, <2>1, PlacementKeepsReads DEF TypeOK
  <1>4. ASSUME NEW d \in Device, DeleteDevice(d)
        PROVE  Good(k)
    <2>1. parent' \in ParentFunction
      BY <1>4, <1>b DEF DeleteDevice, ParentFunction
    <2>2. QED
      BY <1>a, <1>b, <1>4, <2>1, DeletionKeepsReads DEF DeleteDevice, TypeOK
  <1>5. ASSUME NEW j \in Request, NEW d \in Device, NEW s \in Site,
               NEW p \in Device \cup {NoDevice}, UpdateDevice(j, d, s, p)
        PROVE  Good(k)
    <2>1. CASE k # j
      BY <1>5, <1>c, <2>1 DEF UpdateDevice, TypeOK
    <2>2. CASE k = j
      <3>1. /\ request'[k].op = "move" /\ request'[k].device = d
            /\ request'[k].site = s /\ request'[k].parent = p
            /\ request'[k].stage = IF p = NoDevice THEN "write" ELSE "parent"
            /\ UNCHANGED table
        BY <1>5, <2>2 DEF UpdateDevice, TypeOK
      <3>2. \A c \in Device : parent[c] = d => site[c] = s
        BY <1>5 DEF UpdateDevice, ChildrenAgree, Children
      <3>3. QED
        BY <1>b, <3>1, <3>2 DEF Valid, MoveValid
    <2>3. QED
      BY <2>1, <2>2
  <1>6. ASSUME NEW j \in Request, ReadParent(j) \/ ReadAncestors(j)
        PROVE  Good(k)
    <2>1. CASE k # j
      BY <1>6, <1>c, <2>1 DEF ReadParent, ReadAncestors, Continue, TypeOK
    <2>2. CASE k = j
      <3>1. /\ Busy(k) /\ request[k] \in Move
            /\ UNCHANGED table
            /\ ~request[k].raced => MoveValid(request[k], devices, sites, parent, site)
        BY <1>6, <2>2 DEF ReadParent, ReadAncestors, At, Busy, TypeOK, Move, Drop, ReadsValid, Valid
      <3>2. CASE ReadParent(k)
        <4>1. /\ request'[k] = [request[k] EXCEPT !.stage = "ancestors"]
              /\ site[request[k].parent] = request[k].site
          BY <1>a, <3>2 DEF ReadParent, Continue, Busy, TypeOK
        <4>2. QED
          BY <3>1, <4>1 DEF Valid, MoveValid, Move
      <3>3. CASE ReadAncestors(k)
        <4>1. /\ request'[k] = [request[k] EXCEPT !.stage = "write"]
              /\ request[k].device \notin AncestorsOf(parent, request[k].parent)
              /\ request[k].stage = "ancestors"
          BY <1>a, <3>3 DEF ReadAncestors, Continue, At, Busy, TypeOK
        <4>2. QED
          BY <3>1, <4>1 DEF Valid, MoveValid, Move
      <3>4. QED
        BY <1>6, <2>2, <3>2, <3>3
    <2>3. QED
      BY <2>1, <2>2
  <1>7. ASSUME NEW j \in Request, WriteDevice(j)
        PROVE  Good(k)
    <2>1. k # j /\ request'[k] = Overtaken(request[j].site)[k]
      BY <1>a, <1>7 DEF WriteDevice, Overtaken, Busy
    <2>2. \A c \in Device : site'[c] \in {site[c], request[j].site}
      BY <1>7 DEF WriteDevice, TypeOK
    <2>3. QED
      BY <1>a, <2>1, <2>2, PlacementKeepsReads
  <1>8. ASSUME NEW j \in Request, NEW s \in Site, DeleteSite(j, s)
        PROVE  Good(k)
    <2>1. CASE k # j
      BY <1>8, <1>c, <2>1 DEF DeleteSite, TypeOK
    <2>2. CASE k = j
      <3>1. request'[k].op = "drop" /\ request'[k].site = s /\ UNCHANGED table
        BY <1>8, <2>2 DEF DeleteSite, TypeOK
      <3>2. \A d \in Device : site[d] # s
        BY <1>8 DEF DeleteSite, Occupants, TypeOK
      <3>3. QED
        BY <3>1, <3>2 DEF Valid, DropValid
    <2>3. QED
      BY <2>1, <2>2
  <1>9. ASSUME NEW j \in Request, WriteSite(j)
        PROVE  Good(k)
    <2>1. k # j /\ request'[k] = request[k]
      BY <1>a, <1>9 DEF WriteSite, Busy, TypeOK
    <2>2. QED
      BY <1>a, <1>b, <1>9, <2>1, DeletionKeepsReads DEF WriteSite, TypeOK
  <1>10. ASSUME NEW j \in Request, Fail(j)
         PROVE  Good(k)
    BY <1>a, <1>c, <1>10 DEF Fail, Busy, TypeOK
  <1>11. QED
    BY <1>1, <1>2, <1>3, <1>4, <1>5, <1>6, <1>7, <1>8, <1>9, <1>10 DEF Next

\* What requests have read is valid in every state.
THEOREM ReadsHold == Spec => [](TypeOK /\ ReadsValid)
  <1>1. Init => TypeOK /\ ReadsValid
    BY DEF Init, TypeOK, ReadsValid, Busy
  <1>2. TypeOK /\ ReadsValid /\ [Next]_vars => (TypeOK /\ ReadsValid)'
    BY TypeStep, ReadsStep
  <1>3. QED
    BY <1>1, <1>2, PTL DEF Spec

-----------------------------------------------------------------------------
(* What follows for the rows.                                              *)

\* What a move that nobody overtook has read, at its write.
LEMMA UnracedMove ==
    ASSUME TypeOK, ReadsValid, NEW k \in Request, WriteDevice(k), ~request[k].raced
    PROVE  /\ request[k] \in Move
           /\ MoveValid(request[k], devices, sites, parent, site)
           /\ request[k].stage = "write"
  BY DEF TypeOK, ReadsValid, Valid, WriteDevice, At, Busy, Move, Drop

\* A step closes a cycle only by an overtaken write.
LEMMA TreeStep ==
    ASSUME TypeOK, ReadsValid, [Next]_vars, Tree,
           \A k \in Request : ~(WriteDevice(k) /\ request[k].raced)
    PROVE  Tree'
  <1> USE DEF table
  <1>a. parent \in ParentFunction /\ Acyclic(parent)
    BY DEF TypeOK, ParentFunction, Tree, Acyclic
  <1>b. ASSUME UNCHANGED parent
        PROVE  Tree'
    BY <1>b DEF Tree
  <1>c. ASSUME parent' \in ParentFunction, \A e \in Device : parent'[e] \in {parent[e], NoDevice}
        PROVE  Tree'
    <2>1. Acyclic(parent')
      BY <1>a, <1>c, DetachKeepsAcyclic
    <2>2. QED
      BY <2>1 DEF Acyclic, Tree
  <1>d. ASSUME NEW d \in Device, NEW p \in Device, d \notin AncestorsOf(parent, p),
               parent' = [parent EXCEPT ![d] = p]
        PROVE  Tree'
    <2>1. Acyclic(parent')
      BY <1>a, <1>d, AttachKeepsAcyclic
    <2>2. QED
      BY <2>1 DEF Acyclic, Tree
  <1>1. ASSUME NEW d \in Device, NEW p \in Device \cup {NoDevice}, CreateDevice(d, p)
        PROVE  Tree'
    <2>1. CASE p = NoDevice
      BY <1>1, <2>1, <1>a, <1>c DEF CreateDevice, ParentFunction
    <2>2. CASE p # NoDevice
      <3>1. ClosedBelow(parent, d, {})
        BY <1>1 DEF CreateDevice, TypeOK, ClosedBelow
      <3>2. Descendants(parent, d) = {}
        BY <3>1, DescendantsLeast
      <3>3. p \in Device /\ d \notin AncestorsOf(parent, p)
        BY <1>1, <2>2, <3>2 DEF CreateDevice, TypeOK, AncestorsOf
      <3>4. QED
        BY <1>1, <1>d, <3>3 DEF CreateDevice
    <2>3. QED
      BY <2>1, <2>2
  <1>2. ASSUME NEW d \in Device, DeleteDevice(d)
        PROVE  Tree'
    BY <1>2, <1>a, <1>c DEF DeleteDevice, ParentFunction
  <1>3. ASSUME NEW k \in Request, WriteDevice(k)
        PROVE  Tree'
    <2>1. /\ request[k] \in Move
          /\ MoveValid(request[k], devices, sites, parent, site)
          /\ request[k].stage = "write"
      BY <1>3, UnracedMove
    <2>2. CASE request[k].parent = NoDevice
      BY <1>3, <2>2, <1>a, <1>c DEF WriteDevice, ParentFunction
    <2>3. CASE request[k].parent # NoDevice
      <3>1. request[k].parent \in devices /\ devices \subseteq Device
        BY <1>3, <2>3 DEF WriteDevice, Placeable, TypeOK
      <3>2. request[k].device \in Device /\ request[k].device \notin AncestorsOf(parent, request[k].parent)
        BY <2>1, <3>1 DEF MoveValid, Move
      <3>3. QED
        BY <1>3, <1>d, <3>1, <3>2 DEF WriteDevice
    <2>4. QED
      BY <2>2, <2>3
  <1>4. CASE UNCHANGED table
    BY <1>4, <1>b
  <1>5. QED
    BY <1>1, <1>2, <1>3, <1>4, <1>b
       DEF Next, vars, CreateSite, UpdateDevice, ReadParent, ReadAncestors, DeleteSite, WriteSite, Fail

\* Only requests that overlap close a cycle of parents.
THEOREM TreeKept == Spec => TreeRemains
  <1>1. TypeOK /\ ReadsValid /\ [Next]_vars =>
          [Tree /\ ~Tree' => \E k \in Request : WriteDevice(k) /\ request[k].raced]_vars
    BY TreeStep
  <1>2. QED
    BY <1>1, ReadsHold, PTL DEF Spec, TreeRemains

\* A step takes a device into a relationship across sites only by an
\* overtaken write.
LEMMA SitesStep ==
    ASSUME TypeOK, ReadsValid, [Next]_vars, NEW d \in devices, ~Crossing(d),
           \A k \in Request : ~(WriteDevice(k) /\ request[k].raced)
    PROVE  ~Crossing(d)'
  <1> USE DEF table
  <1>a. d \in Device /\ parent[d] \in Device \cup {NoDevice}
    BY DEF TypeOK
  <1>b. CASE UNCHANGED <<parent, site>>
    BY <1>b DEF Crossing
  <1>1. ASSUME NEW e \in Device, NEW p \in Device \cup {NoDevice}, CreateDevice(e, p)
        PROVE  ~Crossing(d)'
    <2>1. d # e /\ parent[d] # e
      BY <1>1 DEF CreateDevice, TypeOK
    <2>2. QED
      BY <1>a, <1>1, <2>1 DEF CreateDevice, Crossing, TypeOK
  <1>2. ASSUME NEW e \in Device, DeleteDevice(e)
        PROVE  ~Crossing(d)'
    BY <1>a, <1>2 DEF DeleteDevice, Crossing, TypeOK
  <1>3. ASSUME NEW k \in Request, WriteDevice(k)
        PROVE  ~Crossing(d)'
    <2> DEFINE e == request[k]
    <2>1. e \in Move /\ MoveValid(e, devices, sites, parent, site) /\ e.stage = "write"
      BY <1>3, UnracedMove
    <2>2. /\ e.device \in Device
          /\ parent' = [parent EXCEPT ![e.device] = e.parent]
          /\ site' = [site EXCEPT ![e.device] = e.site]
          /\ \A c \in Device : parent[c] = e.device => site[c] = e.site
          /\ e.parent \in devices => site[e.parent] = e.site
          /\ e.parent \in devices \cup {NoDevice}
      BY <1>3, <2>1 DEF WriteDevice, Placeable, MoveValid, Move
    <2>3. CASE d = e.device
      BY <2>2, <2>3 DEF Crossing, TypeOK
    <2>4. CASE d # e.device
      BY <1>a, <2>2, <2>4 DEF Crossing, TypeOK
    <2>5. QED
      BY <2>3, <2>4
  <1>4. ASSUME NEW k \in Request, WriteSite(k)
        PROVE  ~Crossing(d)'
    BY <1>a, <1>4 DEF WriteSite, Crossing, TypeOK
  <1>5. QED
    BY <1>b, <1>1, <1>2, <1>3, <1>4
       DEF Next, vars, CreateSite, UpdateDevice, ReadParent, ReadAncestors, DeleteSite, Fail

\* Only requests that overlap relate existing devices across sites.
THEOREM SitesKeptTogether == Spec => SitesAgree
  <1>1. TypeOK /\ ReadsValid /\ [Next]_vars =>
          [\A d \in devices : Crossing(d)' /\ ~Crossing(d) =>
             \E k \in Request : WriteDevice(k) /\ request[k].raced]_vars
    BY SitesStep
  <1>2. QED
    BY <1>1, ReadsHold, PTL DEF Spec, SitesAgree

\* A step takes the site of a device that stays only by an overtaken deletion.
LEMMA SiteStep ==
    ASSUME TypeOK, ReadsValid, [Next]_vars, NEW d \in devices \cap devices',
           site[d] # NoSite, site'[d] = NoSite
    PROVE  \E k \in Request : WriteSite(k) /\ request[k].raced
  <1> USE DEF table
  <1>a. d \in Device /\ site[d] \in Site
    BY DEF TypeOK
  <1>1. ASSUME NEW e \in Device, NEW p \in Device \cup {NoDevice}, CreateDevice(e, p)
        PROVE  FALSE
    BY <1>a, <1>1 DEF CreateDevice, TypeOK
  <1>2. ASSUME NEW e \in Device, DeleteDevice(e)
        PROVE  FALSE
    BY <1>a, <1>2 DEF DeleteDevice, TypeOK
  <1>3. ASSUME NEW k \in Request, WriteDevice(k)
        PROVE  FALSE
    BY <1>a, <1>3 DEF WriteDevice, Placeable, TypeOK
  <1>4. ASSUME NEW k \in Request, WriteSite(k)
        PROVE  request[k].raced
    <2>1. SUFFICES ASSUME ~request[k].raced
                   PROVE  FALSE
      OBVIOUS
    <2>2. DropValid(request[k], site)
      BY <1>4, <2>1 DEF WriteSite, At, Busy, ReadsValid, Valid
    <2>3. QED
      BY <1>a, <1>4, <2>2 DEF WriteSite, DropValid
  <1>5. QED
    BY <1>a, <1>1, <1>2, <1>3, <1>4
       DEF Next, vars, CreateSite, UpdateDevice, ReadParent, ReadAncestors, DeleteSite, Fail

\* Only requests that overlap take the site of a device.
THEOREM SiteKept == Spec => SiteRemains
  <1>1. TypeOK /\ ReadsValid /\ [Next]_vars =>
          [\A d \in devices \cap devices' : site[d] # NoSite /\ site'[d] = NoSite =>
             \E k \in Request : WriteSite(k) /\ request[k].raced]_vars
    BY SiteStep
  <1>2. QED
    BY <1>1, ReadsHold, PTL DEF Spec, SiteRemains
=============================================================================
