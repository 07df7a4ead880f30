--------------------------- MODULE AccountsProofs ---------------------------
(***************************************************************************)
(* Why the last administrator can only go by overlapping requests, for any *)
(* number of accounts, sessions and requests.  What a request that nobody  *)
(* overtook has read is still true when it writes.                         *)
(***************************************************************************)
EXTENDS Accounts, FiniteSetTheorems, TLAPS

USE DEF entries

-----------------------------------------------------------------------------
(* Type correctness.                                                       *)

\* Every action keeps the types.
LEMMA TypeStep ==
    ASSUME TypeOK, [Next]_vars
    PROVE  TypeOK'
  <1> USE BootstrapAssumption, RoleAssumption DEF accounts
  <1>1. CASE UNCHANGED vars
    BY <1>1 DEF vars, TypeOK
  <1>2. CASE Start
    BY <1>2 DEF Start, EnsureAdmin, TypeOK, Role
  <1>3. CASE Stop
    BY <1>3 DEF Stop, TypeOK
  <1>4. ASSUME NEW k \in Request, NEW u \in User, Login(k, u)
        PROVE  TypeOK'
    BY <1>4 DEF Login, Begin, TypeOK, Task, Role
  <1>5. ASSUME NEW k \in Request, NEW u \in User, SignOn(k, u)
        PROVE  TypeOK'
    BY <1>5 DEF SignOn, FederatedRole, Begin, TypeOK, Task, Role
  <1>5a. ASSUME NEW k \in Request, NEW s \in Session, CreateSession(k, s)
         PROVE  TypeOK'
    <2>1. request[k].user \in User
      BY <1>5a DEF CreateSession, At, Busy, TypeOK, Task
    <2>2. QED
      BY <1>5a, <2>1 DEF CreateSession, TypeOK, Entry
  <1>6. CASE \/ \E s \in Session : Logout(s) \/ Expire(s)
             \/ \E t \in Token, u \in User : CreateAPIToken(t, u)
             \/ \E t \in Token : DeleteAPIToken(t) \/ TokenExpires(t)
    <2>1. ASSUME NEW s \in Session, Logout(s) \/ Expire(s)
          PROVE  TypeOK'
      BY <2>1 DEF Logout, Expire, TypeOK, Entry
    <2>2. ASSUME NEW t \in Token, NEW u \in User, CreateAPIToken(t, u)
          PROVE  TypeOK'
      BY <2>2 DEF CreateAPIToken, TypeOK, Entry
    <2>3. ASSUME NEW t \in Token, DeleteAPIToken(t) \/ TokenExpires(t)
          PROVE  TypeOK'
      BY <2>3 DEF DeleteAPIToken, TokenExpires, TypeOK, Entry
    <2>4. QED
      BY <1>6, <2>1, <2>2, <2>3
  <1>7. CASE RunRetention
    BY <1>7 DEF RunRetention, TypeOK
  <1>8. ASSUME NEW u \in User, NEW r \in Role, CreateUser(u, r)
        PROVE  TypeOK'
    BY <1>8 DEF CreateUser, TypeOK
  <1>9. ASSUME NEW k \in Request, NEW u \in User, DeleteUser(k, u)
        PROVE  TypeOK'
    BY <1>9 DEF DeleteUser, Begin, TypeOK, Task, Role
  <1>10. ASSUME NEW k \in Request, NEW u \in User, NEW r \in Role, UpdateUser(k, u, r)
         PROVE  TypeOK'
    BY <1>10 DEF UpdateUser, Begin, TypeOK, Task
  <1>11. ASSUME NEW k \in Request, CountAdministrators(k)
         PROVE  TypeOK'
    <2>1. request[k] \in Task /\ Several \in BOOLEAN
      BY <1>11 DEF CountAdministrators, At, Busy, TypeOK, Several
    <2>2. QED
      BY <1>11, <2>1 DEF CountAdministrators, TypeOK, Task
  <1>12. ASSUME NEW k \in Request, ReadRole(k)
         PROVE  TypeOK'
    <2>1. request[k] \in Task
      BY <1>12 DEF ReadRole, At, Busy, TypeOK
    <2>2. QED
      BY <1>12, <2>1 DEF ReadRole, TypeOK, Task
  <1>13. ASSUME NEW k \in Request, Write(k)
         PROVE  TypeOK'
    <2>1. request[k] \in Task
      BY <1>13 DEF Write, Busy, TypeOK
    <2>2. /\ role' \in [User -> Role \cup {NoRow}]
          /\ active' \in SUBSET {u \in User : role'[u] # NoRow}
      BY <1>13, <2>1 DEF Write, Activated, TypeOK, Task
    <2>3. \A change : Overtaken(k, change) \in [Request -> Task \cup {Idle}]
      BY DEF Overtaken, Judged, At, Busy, TypeOK, Task
    <2>4. QED
      BY <1>13, <2>2, <2>3 DEF Write, TypeOK
  <1>14. ASSUME NEW k \in Request, Fail(k)
         PROVE  TypeOK'
    BY <1>14 DEF Fail, TypeOK
  <1>15. QED
    BY <1>1, <1>2, <1>3, <1>4, <1>5, <1>6, <1>7, <1>8, <1>9, <1>10, <1>11, <1>12, <1>13, <1>14,
       <1>5a
       DEF Next

\* The types of the variables hold in every state.
THEOREM AccountTypes == Spec => []TypeOK
  <1>1. Init => TypeOK
    BY DEF Init, TypeOK
  <1>2. TypeOK /\ [Next]_vars => TypeOK'
    BY TypeStep
  <1>3. QED
    BY <1>1, <1>2, PTL DEF Spec

-----------------------------------------------------------------------------
(* The inductive invariant.                                                *)

Two(S) == \E u, v \in S : u # v

\* What the write of e removes from the administrators, if it is one.
Removes(e) == e.op = "edit" => e.role # "administrator"

\* A request e judges right, given the roles and the set of administrators:
\* there are two when it has counted several, and one besides its own when it
\* is about to remove an administrator.
Right(e, roles, A) ==
    /\ e.op = "delete" /\ e.stage = "role" /\ e.several => Two(A)
    /\ e.stage = "write" /\ Removes(e) /\ roles[e.user] = "administrator" =>
         \E v \in A : v # e.user

\* A request that nobody overtook still judges right; its account has a row.
JudgedRight ==
    \A k \in Request : Busy(k) =>
       /\ role[request[k].user] # NoRow
       /\ ~request[k].raced => Right(request[k], role, Administrators)

\* A set that counts more than one has two elements.
LEMMA SeveralAreTwo == TypeOK /\ Several => Two(Administrators)
  <1>1. SUFFICES ASSUME TypeOK, Several, \A u, v \in Administrators : u = v
                 PROVE  FALSE
    BY DEF Two
  <1>2. CASE Administrators = {}
    BY <1>1, <1>2, FS_EmptySet DEF Several
  <1>3. CASE Administrators # {}
    <2>1. PICK u : u \in Administrators
      BY <1>3
    <2>2. Administrators = {u}
      BY <1>1, <2>1
    <2>3. Cardinality(Administrators) = 1
      BY <2>2, FS_Singleton
    <2>4. QED
      BY <1>1, <2>3 DEF Several
  <1>4. QED
    BY <1>2, <1>3

\* More administrators disturb no judgement, as long as the account of the
\* request is not appointed meanwhile.
LEMMA StaysRight ==
    ASSUME NEW e, NEW old, NEW new, NEW A, NEW B, Right(e, old, A), A \subseteq B,
           new[e.user] = "administrator" => old[e.user] = "administrator"
    PROVE  Right(e, new, B)
  <1>1. Two(A) => Two(B)
    BY DEF Two
  <1>2. QED
    BY <1>1 DEF Right

\* A request that a step leaves alone, in a table where accounts with a row
\* keep their role and active ones stay active.
LEMMA UntouchedRight ==
    ASSUME TypeOK, JudgedRight, NEW k \in Request, Busy(k)', request'[k] = request[k],
           active \subseteq active', \A u \in User : role[u] # NoRow => role'[u] = role[u]
    PROVE  /\ role'[request'[k].user] # NoRow
           /\ ~request'[k].raced => Right(request'[k], role', Administrators')
  <1>1. /\ Busy(k)
        /\ request[k].user \in User
        /\ role[request[k].user] # NoRow
        /\ ~request[k].raced => Right(request[k], role, Administrators)
    BY DEF JudgedRight, Busy, TypeOK, Task
  <1>2. role'[request[k].user] = role[request[k].user]
    BY <1>1
  <1>3. Administrators \subseteq Administrators'
    BY RoleAssumption DEF TypeOK, Administrators, Appointed, Role
  <1>4. QED
    BY <1>1, <1>2, <1>3, StaysRight

\* Every action keeps the judgements right.
LEMMA JudgedStep ==
    ASSUME TypeOK, JudgedRight, [Next]_vars
    PROVE  JudgedRight'
  <1> USE BootstrapAssumption, RoleAssumption DEF accounts
  <1> DEFINE Good(k) == /\ role'[request'[k].user] # NoRow
                        /\ ~request'[k].raced => Right(request'[k], role', Administrators')
  <1>a. SUFFICES ASSUME NEW k \in Request, Busy(k)'
                 PROVE  Good(k)
    BY DEF JudgedRight
  <1>b. ASSUME UNCHANGED accounts
        PROVE  /\ active \subseteq active'
               /\ \A u \in User : role[u] # NoRow => role'[u] = role[u]
               /\ Administrators' = Administrators
    BY <1>b DEF Administrators, Appointed
  <1>1. CASE UNCHANGED vars
    BY <1>a, <1>b, <1>1, UntouchedRight DEF vars
  <1>2. CASE Start
    <2>1. /\ active \subseteq active'
          /\ \A u \in User : role[u] # NoRow => role'[u] = role[u]
          /\ request' = request
      BY <1>2 DEF Start, EnsureAdmin, TypeOK
    <2>2. QED
      BY <1>a, <2>1, UntouchedRight
  <1>3. CASE Stop
    BY <1>a, <1>3 DEF Stop, Busy
  <1>4. ASSUME NEW j \in Request, NEW u \in User, Login(j, u)
        PROVE  Good(k)
    <2>1. CASE k # j
      BY <1>a, <1>b, <1>4, <2>1, UntouchedRight DEF Login, Begin, TypeOK
    <2>2. CASE k = j
      BY <1>4, <2>2 DEF Login, Begin, TypeOK, Right
    <2>3. QED
      BY <2>1, <2>2
  <1>5. ASSUME NEW j \in Request, NEW u \in User, SignOn(j, u)
        PROVE  Good(k)
    <2>1. /\ active \subseteq active'
          /\ \A v \in User : role[v] # NoRow => role'[v] = role[v]
          /\ k # j => request'[k] = request[k]
      BY <1>5 DEF SignOn, FederatedRole, Begin, TypeOK
    <2>2. CASE k # j
      BY <1>a, <2>1, <2>2, UntouchedRight
    <2>3. CASE k = j
      BY <1>5, <2>3 DEF SignOn, FederatedRole, Begin, TypeOK, Right, Role
    <2>4. QED
      BY <2>2, <2>3
  <1>5a. ASSUME NEW j \in Request, NEW s \in Session, CreateSession(j, s)
         PROVE  Good(k)
    BY <1>a, <1>b, <1>5a, UntouchedRight DEF CreateSession, Busy, TypeOK
  <1>6. CASE \/ \E s \in Session : Logout(s) \/ Expire(s)
             \/ \E t \in Token, u \in User : CreateAPIToken(t, u)
             \/ \E t \in Token : DeleteAPIToken(t) \/ TokenExpires(t)
    BY <1>a, <1>b, <1>6, UntouchedRight DEF Logout, Expire, CreateAPIToken, DeleteAPIToken, TokenExpires
  <1>7. CASE RunRetention
    BY <1>a, <1>b, <1>7, UntouchedRight DEF RunRetention
  <1>8. ASSUME NEW u \in User, NEW r \in Role, CreateUser(u, r)
        PROVE  Good(k)
    <2>1. /\ active \subseteq active'
          /\ \A v \in User : role[v] # NoRow => role'[v] = role[v]
          /\ request' = request
      BY <1>8 DEF CreateUser, TypeOK
    <2>2. QED
      BY <1>a, <2>1, UntouchedRight
  <1>9. ASSUME NEW j \in Request, NEW u \in User, DeleteUser(j, u)
        PROVE  Good(k)
    <2>1. CASE k # j
      BY <1>a, <1>b, <1>9, <2>1, UntouchedRight DEF DeleteUser, Begin, TypeOK
    <2>2. CASE k = j
      BY <1>9, <2>2 DEF DeleteUser, Begin, TypeOK, Right
    <2>3. QED
      BY <2>1, <2>2
  <1>10. ASSUME NEW j \in Request, NEW u \in User, NEW r \in Role, UpdateUser(j, u, r)
         PROVE  Good(k)
    <2>1. CASE k # j
      BY <1>a, <1>b, <1>10, <2>1, UntouchedRight DEF UpdateUser, Begin, TypeOK
    <2>2. CASE k = j
      BY <1>10, <2>2 DEF UpdateUser, Begin, TypeOK, Right
    <2>3. QED
      BY <2>1, <2>2
  <1>11. ASSUME NEW j \in Request, CountAdministrators(j)
         PROVE  Good(k)
    <2>1. CASE k # j
      <3>1. request'[k] = request[k] /\ UNCHANGED accounts
        BY <1>11, <2>1 DEF CountAdministrators, TypeOK
      <3>2. QED
        BY <1>a, <1>b, <3>1, UntouchedRight
    <2>2. CASE k = j
      <3>1. /\ Busy(k) /\ request[k] \in Task
            /\ role[request[k].user] # NoRow
            /\ Several => Two(Administrators)
            /\ role' = role /\ Administrators' = Administrators
        BY <1>b, <1>11, <2>2, SeveralAreTwo DEF CountAdministrators, At, Busy, JudgedRight, TypeOK
      <3>2. \A u : Two(Administrators) => \E v \in Administrators : v # u
        BY DEF Two
      <3>3. CASE At(k, "delete", "count")
        <4>1. request'[k] = [request[k] EXCEPT !.several = Several, !.stage = "role"]
          BY <1>a, <1>11, <2>2, <3>3 DEF CountAdministrators, At, TypeOK
        <4>2. /\ request'[k].user = request[k].user
              /\ request'[k].stage = "role"
              /\ request'[k].several = Several
          BY <3>1, <4>1 DEF Task
        <4>3. QED
          BY <3>1, <4>2 DEF Right
      <3>4. CASE At(k, "edit", "count")
        <4>1. request'[k] = [request[k] EXCEPT !.stage = "write"] /\ Several
          BY <1>a, <1>11, <2>2, <3>4 DEF CountAdministrators, At, Busy, TypeOK
        <4>2. QED
          BY <3>1, <3>2, <3>4, <4>1 DEF Right, Task, At
      <3>5. QED
        BY <1>11, <2>2, <3>3, <3>4 DEF CountAdministrators
    <2>3. QED
      BY <2>1, <2>2
  <1>12. ASSUME NEW j \in Request, ReadRole(j)
         PROVE  Good(k)
    <2>1. CASE k # j
      BY <1>a, <1>b, <1>12, <2>1, UntouchedRight DEF ReadRole, TypeOK
    <2>2. CASE k = j
      <3>1. /\ Busy(k) /\ request[k] \in Task
            /\ role[request[k].user] # NoRow
            /\ ~request[k].raced => Right(request[k], role, Administrators)
            /\ role' = role /\ Administrators' = Administrators
        BY <1>b, <1>12, <2>2 DEF ReadRole, At, Busy, JudgedRight, TypeOK
      <3>2. \A u : Two(Administrators) => \E v \in Administrators : v # u
        BY DEF Two
      <3>3. CASE At(k, "delete", "role")
        <4>1. /\ request'[k] = [request[k] EXCEPT !.stage = "write"]
              /\ role[request[k].user] = "administrator" => request[k].several
          BY <1>a, <1>12, <2>2, <3>3 DEF ReadRole, At, Busy, TypeOK
        <4>2. QED
          BY <3>1, <3>2, <3>3, <4>1 DEF Right, Task, At
      <3>4. CASE At(k, "edit", "role")
        <4>1. \/ request'[k] = [request[k] EXCEPT !.stage = "count"]
              \/ /\ request'[k] = [request[k] EXCEPT !.stage = "write"]
                 /\ role[request[k].user] = "administrator" => request[k].role = "administrator"
          BY <1>a, <1>12, <2>2, <3>4 DEF ReadRole, At, Busy, TypeOK
        <4>2. QED
          BY <3>1, <3>4, <4>1 DEF Right, Removes, Task, At
      <3>5. QED
        BY <1>12, <2>2, <3>3, <3>4 DEF ReadRole
    <2>3. QED
      BY <2>1, <2>2
  <1>13. ASSUME NEW j \in Request, Write(j)
         PROVE  Good(k)
    <2> DEFINE change == <<Appointed, Administrators>>' # <<Appointed, Administrators>>
    <2>1. /\ k # j
          /\ request'[k] = IF change /\ Judged(k) THEN [request[k] EXCEPT !.raced = TRUE] ELSE request[k]
      BY <1>a, <1>13 DEF Write, Overtaken, Busy
    <2>2. /\ Busy(k) /\ request[k] \in Task
          /\ role[request[k].user] # NoRow
          /\ ~request[k].raced => Right(request[k], role, Administrators)
      BY <1>a, <2>1 DEF JudgedRight, Busy, Judged, At, TypeOK
    <2>3. request'[k].user = request[k].user /\ request[k].user \in User
      BY <2>1, <2>2 DEF Task
    <2>4. role'[request[k].user] # NoRow
      BY <1>13, <2>2, <2>3 DEF Write, Busy, TypeOK, Task
    <2>5. CASE change /\ Judged(k)
      <3>1. request'[k].raced
        BY <2>1, <2>2, <2>5 DEF Task
      <3>2. QED
        BY <2>3, <2>4, <3>1
    <2>6. CASE ~Judged(k)
      <3>1. request'[k] = request[k]
        BY <2>1, <2>6
      <3>2. ~(request[k].op = "delete" /\ request[k].stage = "role") /\ request[k].stage # "write"
        BY <2>2, <2>6 DEF Judged, At, Task
      <3>3. QED
        BY <2>4, <3>1, <3>2 DEF Right
    <2>7. CASE ~change
      <3>1. /\ request'[k] = request[k]
            /\ Appointed' = Appointed /\ Administrators' = Administrators
        BY <2>1, <2>7
      <3>2. role'[request[k].user] = "administrator" => role[request[k].user] = "administrator"
        BY <2>3, <3>1 DEF Appointed
      <3>3. QED
        BY <2>2, <2>4, <3>1, <3>2, StaysRight
    <2>8. QED
      BY <2>5, <2>6, <2>7
  <1>14. ASSUME NEW j \in Request, Fail(j)
         PROVE  Good(k)
    BY <1>a, <1>b, <1>14, UntouchedRight DEF Fail, Busy, TypeOK
  <1>15. QED
    BY <1>1, <1>2, <1>3, <1>4, <1>5, <1>6, <1>7, <1>8, <1>9, <1>10, <1>11, <1>12, <1>13, <1>14,
       <1>5a
       DEF Next

\* The judgements are right in every state.
THEOREM JudgementsHold == Spec => [](TypeOK /\ JudgedRight)
  <1>1. Init => TypeOK /\ JudgedRight
    BY DEF Init, TypeOK, JudgedRight, Busy
  <1>2. TypeOK /\ JudgedRight /\ [Next]_vars => (TypeOK /\ JudgedRight)'
    BY TypeStep, JudgedStep
  <1>3. QED
    BY <1>1, <1>2, PTL DEF Spec

-----------------------------------------------------------------------------
(* The two properties.                                                     *)

\* A write that nobody overtook leaves an administrator, if there was one.
LEMMA WriteLeavesOne ==
    ASSUME TypeOK, JudgedRight, NEW k \in Request, Write(k), ~request[k].raced
    PROVE  /\ Administrators # {} => Administrators' # {}
           /\ Appointed # {} => Appointed' # {}
  <1> DEFINE e == request[k]
  <1>1. /\ e \in Task /\ e.stage = "write"
        /\ Right(e, role, Administrators)
    BY DEF Write, Busy, TypeOK, JudgedRight
  <1>2. \A u \in User : u # e.user => role'[u] = role[u] /\ (u \in active => u \in active')
    BY <1>1 DEF Write, Activated, TypeOK, Task
  <1>3. Administrators \ {e.user} \subseteq Administrators' /\ Appointed \ {e.user} \subseteq Appointed'
    BY <1>2 DEF Administrators, Appointed, TypeOK
  <1>4. CASE role[e.user] = "administrator" /\ Removes(e)
    <2>1. PICK v \in Administrators : v # e.user
      BY <1>1, <1>4 DEF Right
    <2>2. QED
      BY <1>3, <2>1 DEF Administrators
  <1>5. CASE role[e.user] # "administrator"
    BY <1>3, <1>5 DEF Administrators, Appointed
  <1>6. CASE ~Removes(e)
    <2>1. e.op = "edit" /\ e.role = "administrator"
      BY <1>6 DEF Removes
    <2>2. active' = active /\ role'[e.user] = "administrator" /\ e.user \in User
      BY <1>1, <2>1 DEF Write, Activated, TypeOK, Task
    <2>3. Administrators \subseteq Administrators' /\ Appointed \subseteq Appointed'
      BY <1>3, <2>2 DEF Administrators, Appointed
    <2>4. QED
      BY <2>3
  <1>7. QED
    BY <1>4, <1>5, <1>6

\* No step but a write takes an administrator away.
LEMMA OthersTakeNone ==
    ASSUME TypeOK, [Next]_vars, \A k \in Request : ~Write(k)
    PROVE  Administrators \subseteq Administrators' /\ Appointed \subseteq Appointed'
  <1> USE DEF Administrators, Appointed, accounts
  <1>1. CASE UNCHANGED accounts
    BY <1>1
  <1>2. CASE Start
    BY <1>2 DEF Start, EnsureAdmin, TypeOK
  <1>3. ASSUME NEW k \in Request, NEW u \in User, SignOn(k, u)
        PROVE  Administrators \subseteq Administrators' /\ Appointed \subseteq Appointed'
    BY <1>3, RoleAssumption DEF SignOn, FederatedRole, TypeOK, Role
  <1>4. ASSUME NEW u \in User, NEW r \in Role, CreateUser(u, r)
        PROVE  Administrators \subseteq Administrators' /\ Appointed \subseteq Appointed'
    BY <1>4, RoleAssumption DEF CreateUser, TypeOK, Role
  <1>5. QED
    BY <1>1, <1>2, <1>3, <1>4
       DEF Next, vars, Stop, Login, CreateSession, Logout, Expire, CreateAPIToken, DeleteAPIToken, TokenExpires,
           RunRetention, DeleteUser, UpdateUser, CountAdministrators, ReadRole, Fail

\* The last active administrator goes only with a request that another one
\* overtook: DeleteUser and UpdateUser are right one after the other.
THEOREM LastAdministrator == Spec => AdministratorRemains
  <1>1. TypeOK /\ JudgedRight /\ [Next]_vars
          => [Administrators # {} /\ Administrators' = {} =>
                \E k \in Request : Write(k) /\ request[k].raced]_vars
    BY WriteLeavesOne, OthersTakeNone
  <1>2. QED
    BY <1>1, JudgementsHold, PTL DEF Spec, AdministratorRemains

\* So does the last account with which the server can be started again.
THEOREM StartsAgain == Spec => StartSurvives
  <1>1. TypeOK /\ JudgedRight /\ [Next]_vars
          => [Bootstrapped /\ ~Bootstrapped' => \E k \in Request : Write(k) /\ request[k].raced]_vars
    BY WriteLeavesOne, OthersTakeNone DEF Bootstrapped
  <1>2. QED
    BY <1>1, JudgementsHold, PTL DEF Spec, StartSurvives
=============================================================================
