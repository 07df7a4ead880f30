----------------------------- MODULE DeviceTree -----------------------------
(***************************************************************************)
(* Sites and parent relationships under concurrent requests.  UpdateDevice *)
(* reads the children, the parent and its ancestors in three statements of *)
(* a READ COMMITTED transaction and then writes one row; DeleteSite counts *)
(* the devices of a site and then deletes it.  Neither locks what it read, *)
(* so that another request may commit in between.                          *)
(***************************************************************************)
EXTENDS DeviceHealth

CONSTANTS
    Site,       \* site identifiers
    NoSite,     \* the NULL of site_id
    Request,    \* bound: requests of several statements under way
    Idle        \* a request that is free

ASSUME SiteAssumption == NoSite \notin Site /\ Site \cap (Device \cup {NoDevice}) = {}

VARIABLES
    devices,    \* rows of devices
    sites,      \* rows of sites
    parent,     \* devices.parent_id
    site,       \* devices.site_id
    request     \* UpdateDevice and DeleteSite under way

table == <<devices, sites, parent, site>>
vars == <<table, request>>

-----------------------------------------------------------------------------
\* What a request is going to write.  raced says that another request has
\* placed a device since this one began to read; the code knows nothing of it.
Move == [op : {"move"}, device : Device, site : Site, parent : Device \cup {NoDevice},
         stage : {"parent", "ancestors", "write"}, raced : BOOLEAN]
Drop == [op : {"drop"}, site : Site, stage : {"write"}, raced : BOOLEAN]

Busy(k) == request[k] # Idle
At(k, op, stage) == Busy(k) /\ request[k].op = op /\ request[k].stage = stage

\* The database never gives an identifier twice; here one is given again once
\* no row and no request has it.
Named(x) ==
    \E k \in Request : Busy(k) /\ \/ request[k].site = x
                                  \/ request[k].op = "move" /\ x \in {request[k].device, request[k].parent}

Children(d) == {c \in Device : parent[c] = d}

\* Migration 001 inserts the default site.
Init ==
    /\ \E s \in Site : sites = {s}
    /\ devices = {}
    /\ parent = [d \in Device |-> NoDevice]
    /\ site = [d \in Device |-> NoSite]
    /\ request = [k \in Request |-> Idle]

\* d has been placed, in s: who reads the tree, or has counted the devices of
\* s, is overtaken.
Overtaken(s) ==
    [k \in Request |-> IF Busy(k) /\ (request[k].op = "drop" => request[k].site = s)
                       THEN [request[k] EXCEPT !.raced = TRUE] ELSE request[k]]

-----------------------------------------------------------------------------
(* Requests of one statement.                                              *)

CreateSite(s) ==
    /\ s \notin sites
    /\ ~Named(s)
    /\ sites' = sites \cup {s}
    /\ UNCHANGED <<devices, parent, site, request>>

\* coalesce(site_id, the oldest site): NULL when there is none.
DefaultSite == IF sites = {} THEN {NoSite} ELSE sites

\* Store.CreateDevice: nothing compares the sites of device and parent.
CreateDevice(d, p) ==
    /\ d \notin devices
    /\ ~Named(d)
    /\ p \in devices \cup {NoDevice}
    /\ \E s \in sites \cup DefaultSite :
         /\ site' = [site EXCEPT ![d] = s]
         /\ request' = Overtaken(s)
    /\ devices' = devices \cup {d}
    /\ parent' = [parent EXCEPT ![d] = p]
    /\ UNCHANGED sites

\* Store.DeleteDevice: ON DELETE SET NULL for the children.
DeleteDevice(d) ==
    /\ d \in devices
    /\ devices' = devices \ {d}
    /\ parent' = [e \in Device |-> IF d \in {e, parent[e]} THEN NoDevice ELSE parent[e]]
    /\ site' = [site EXCEPT ![d] = NoSite]
    /\ UNCHANGED <<sites, request>>

-----------------------------------------------------------------------------
(* UpdateDevice.                                                           *)

\* Mutant: the children are not looked at.
ChildrenAgree_Always(d, s) == d \in Device /\ s \in Site

\* site_id IS DISTINCT FROM the new one, for no child.
ChildrenAgree(d, s) == \A c \in Children(d) : site[c] = s

\* The handler has found the device; a device of no site needs a new one.
UpdateDevice(k, d, s, p) ==
    /\ ~Busy(k)
    /\ d \in devices
    /\ ChildrenAgree(d, s)
    /\ p # d
    /\ request' = [request EXCEPT ![k] =
                      [op |-> "move", device |-> d, site |-> s, parent |-> p, raced |-> FALSE,
                       stage |-> IF p = NoDevice THEN "write" ELSE "parent"]]
    /\ UNCHANGED table

\* The request goes on, or ends with an error.
Continue(k, condition, stage) ==
    request' = [request EXCEPT ![k] = IF condition THEN [@ EXCEPT !.stage = stage] ELSE Idle]

ReadParent(k) ==
    LET e == request[k] IN
    /\ At(k, "move", "parent")
    /\ Continue(k, e.parent \in devices /\ site[e.parent] = e.site, "ancestors")
    /\ UNCHANGED table

\* WITH RECURSIVE ... UNION ALL does not end when there is a cycle above.
ReadAncestors(k) ==
    LET above == AncestorsOf(parent, request[k].parent) IN
    /\ At(k, "move", "ancestors")
    /\ \A a \in above : a \notin Descendants(parent, a)
    /\ Continue(k, request[k].device \notin above, "write")
    /\ UNCHANGED table

\* The foreign keys and the rows found decide whether anything is written.
Placeable(e) == e.device \in devices /\ e.site \in sites /\ e.parent \in devices \cup {NoDevice}

WriteDevice(k) ==
    LET e == request[k] IN
    /\ At(k, "move", "write")
    /\ Placeable(e)
    /\ parent' = [parent EXCEPT ![e.device] = e.parent]
    /\ site' = [site EXCEPT ![e.device] = e.site]
    /\ request' = [Overtaken(e.site) EXCEPT ![k] = Idle]
    /\ UNCHANGED <<devices, sites>>

-----------------------------------------------------------------------------
(* DeleteSite.                                                             *)

\* Mutant: devices that have a parent are not counted.
Occupants_Roots(s) == {d \in devices : site[d] = s /\ parent[d] = NoDevice}

\* The devices the count finds.
Occupants(s) == {d \in devices : site[d] = s}

DeleteSite(k, s) ==
    /\ ~Busy(k)
    /\ s \in sites
    /\ Occupants(s) = {}
    /\ request' = [request EXCEPT ![k] =
                      [op |-> "drop", site |-> s, stage |-> "write", raced |-> FALSE]]
    /\ UNCHANGED table

\* ON DELETE SET NULL for the devices that are there by now.
WriteSite(k) ==
    LET s == request[k].site IN
    /\ At(k, "drop", "write")
    /\ sites' = sites \ {s}
    /\ site' = [d \in Device |-> IF site[d] = s THEN NoSite ELSE site[d]]
    /\ request' = [request EXCEPT ![k] = Idle]
    /\ UNCHANGED <<devices, parent>>

\* A statement fails, the client goes away or the server stops.
Fail(k) ==
    /\ Busy(k)
    /\ request' = [request EXCEPT ![k] = Idle]
    /\ UNCHANGED table

-----------------------------------------------------------------------------
Next ==
    \/ \E s \in Site : CreateSite(s)
    \/ \E d \in Device, p \in Device \cup {NoDevice} : CreateDevice(d, p)
    \/ \E d \in Device : DeleteDevice(d)
    \/ \E k \in Request, d \in Device, s \in Site, p \in Device \cup {NoDevice} :
         UpdateDevice(k, d, s, p)
    \/ \E k \in Request : ReadParent(k)
    \/ \E k \in Request : ReadAncestors(k)
    \/ \E k \in Request : WriteDevice(k)
    \/ \E k \in Request, s \in Site : DeleteSite(k, s)
    \/ \E k \in Request : WriteSite(k)
    \/ \E k \in Request : Fail(k)

Spec == Init /\ [][Next]_vars

-----------------------------------------------------------------------------
\* Types of the variables; what has no row has no relationships.
TypeOK ==
    /\ devices \in SUBSET Device
    /\ sites \in SUBSET Site
    /\ parent \in [Device -> devices \cup {NoDevice}]
    /\ site \in [Device -> sites \cup {NoSite}]
    /\ request \in [Request -> Move \cup Drop \cup {Idle}]
    /\ \A d \in Device \ devices : parent[d] = NoDevice /\ site[d] = NoSite

Tree == \A d \in Device : d \notin Descendants(parent, d)

\* The parent relationships become a cycle only by a request that another
\* one overtook after it had begun to read.
TreeRemains ==
    [][Tree /\ ~Tree' => \E k \in Request : WriteDevice(k) /\ request[k].raced]_vars

Crossing(d) == parent[d] # NoDevice /\ site[parent[d]] # site[d]

\* An existing device gets a parent, or keeps a child, of another site only
\* by a request that another one overtook; a new one may begin like that.
SitesAgree ==
    [][\A d \in devices : Crossing(d)' /\ ~Crossing(d) =>
         \E k \in Request : WriteDevice(k) /\ request[k].raced]_vars

\* A device that has a site loses it only by the deletion of a site into
\* which a device has been placed since its devices were counted.
SiteRemains ==
    [][\A d \in devices \cap devices' : site[d] # NoSite /\ site'[d] = NoSite =>
         \E k \in Request : WriteSite(k) /\ request[k].raced]_vars
=============================================================================
