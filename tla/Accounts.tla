------------------------------ MODULE Accounts ------------------------------
(***************************************************************************)
(* Accounts, their sessions and API tokens, and the requests of            *)
(* administrators.  Deleting and editing an account take several           *)
(* statements: the one counts the active administrators and then reads the *)
(* role, the other reads and counts in a READ COMMITTED transaction; both  *)
(* write at the end, whatever has changed since.  An account is never      *)
(* deleted from the table, only made inactive; its sessions and tokens     *)
(* stay and work again when single sign-on makes it active.                *)
(***************************************************************************)
EXTENDS Integers, FiniteSets

CONSTANTS
    User,       \* accounts, told apart by their email
    Bootstrap,  \* the account of GOLIVE_ADMIN_EMAIL
    Federated,  \* accounts known to the OIDC provider
    Session,    \* bound: sessions at one time
    Token,      \* bound: API tokens at one time
    Request,    \* bound: requests under way at one time
    NoRow,      \* the role of an account without a row
    Idle        \* a request that is free

ASSUME BootstrapAssumption == Bootstrap \in User
ASSUME UserAssumption == IsFiniteSet(User)

\* A site manager differs from a manager in nothing that happens here.
Role == {"administrator", "manager", "viewer"}

ASSUME RoleAssumption == NoRow \notin Role

VARIABLES
    up,         \* the server runs
    role,       \* users.role of each account
    active,     \* the accounts with users.active
    session,    \* rows of sessions: whose they are, expired or not
    token,      \* rows of api_tokens, likewise
    request     \* requests between their statements

accounts == <<role, active>>
entries == <<session, token>>
vars == <<up, accounts, entries, request>>

-----------------------------------------------------------------------------
\* What a request has read and what it is going to write.  raced says that
\* another request has changed who is an administrator since this one judged
\* its own effect on it; the code knows nothing of it.
Task == [op : {"delete", "edit", "enter"}, user : User, role : Role, several : BOOLEAN,
         stage : {"count", "role", "write", "session"}, raced : BOOLEAN]

Entry == [user : User, expired : BOOLEAN]

Busy(k) == request[k] # Idle
At(k, op, stage) == Busy(k) /\ request[k].op = op /\ request[k].stage = stage

\* role='administrator', and with AND active.
Appointed == {u \in User : role[u] = "administrator"}
Administrators == Appointed \cap active

\* Statements that follow have been decided on what was read before.
Judged(k) == At(k, "delete", "role") \/ (Busy(k) /\ request[k].stage = "write")

Init ==
    /\ up = FALSE
    /\ role = [u \in User |-> NoRow]
    /\ active = {}
    /\ session = [s \in Session |-> Idle]
    /\ token = [t \in Token |-> Idle]
    /\ request = [k \in Request |-> Idle]

-----------------------------------------------------------------------------
(* The server.                                                             *)

\* SELECT EXISTS in EnsureAdmin: an inactive administrator will do.
Bootstrapped == Appointed # {}

\* Store.EnsureAdmin; the INSERT fails when the email is in the table.
EnsureAdmin ==
    \/ /\ Bootstrapped
       /\ UNCHANGED accounts
    \/ /\ ~Bootstrapped
       /\ role[Bootstrap] = NoRow
       /\ role' = [role EXCEPT ![Bootstrap] = "administrator"]
       /\ active' = active \cup {Bootstrap}

\* New ends with an error when EnsureAdmin does, and the process with it.
Start ==
    /\ ~up
    /\ up' = TRUE
    /\ EnsureAdmin
    /\ UNCHANGED <<entries, request>>

Stop ==
    /\ up
    /\ up' = FALSE
    /\ request' = [k \in Request |-> Idle]
    /\ UNCHANGED <<accounts, entries>>

-----------------------------------------------------------------------------
(* Sessions and tokens.                                                    *)

Begin(k, op, u, r, stage) ==
    request' = [request EXCEPT ![k] = [op |-> op, user |-> u, role |-> r, several |-> FALSE,
                                       stage |-> stage, raced |-> FALSE]]

\* Store.Login up to its session.
Login(k, u) ==
    /\ up
    /\ ~Busy(k)
    /\ u \in active
    /\ Begin(k, "enter", u, "viewer", "session")
    /\ UNCHANGED <<up, accounts, entries>>

FederatedRole(u) == IF role[u] = NoRow THEN "viewer" ELSE role[u]

\* Store.UpsertOIDCUser: a new account is a viewer, a deleted one is active
\* again in the role it had.
SignOn(k, u) ==
    /\ up
    /\ ~Busy(k)
    /\ u \in Federated
    /\ role' = [role EXCEPT ![u] = FederatedRole(u)]
    /\ active' = active \cup {u}
    /\ Begin(k, "enter", u, "viewer", "session")
    /\ UNCHANGED <<up, entries>>

\* Store.CreateSession, whatever has become of the account since.
CreateSession(k, s) ==
    /\ At(k, "enter", "session")
    /\ session[s] = Idle
    /\ session' = [session EXCEPT ![s] = [user |-> request[k].user, expired |-> FALSE]]
    /\ request' = [request EXCEPT ![k] = Idle]
    /\ UNCHANGED <<up, accounts, token>>

\* With the cookie of a valid session; a viewer's POST is refused.
Logout(s) ==
    /\ up
    /\ session[s] # Idle
    /\ ~session[s].expired
    /\ session[s].user \in active
    /\ role[session[s].user] # "viewer"
    /\ session' = [session EXCEPT ![s] = Idle]
    /\ UNCHANGED <<up, accounts, token, request>>

\* 12 hours or 30 days pass.
Expire(s) ==
    /\ session[s] # Idle
    /\ ~session[s].expired
    /\ session' = [session EXCEPT ![s].expired = TRUE]
    /\ UNCHANGED <<up, accounts, token, request>>

\* Mutant: the retention job looks at active accounts only.
Stale_OfActive == {s \in Session : session[s] # Idle /\ session[s].expired /\ session[s].user \in active}

\* DELETE FROM sessions WHERE expires_at < now()
Stale == {s \in Session : session[s] # Idle /\ session[s].expired}

RunRetention ==
    /\ up
    /\ Stale # {}
    /\ session' = [s \in Session |-> IF s \in Stale THEN Idle ELSE session[s]]
    /\ UNCHANGED <<up, accounts, token, request>>

Valid(rows) == {r \in rows \ {Idle} : ~r.expired}

\* Store.SessionUser and Store.TokenUser.
SignedIn(u) == u \in active /\ \E r \in Valid({session[s] : s \in Session}) : r.user = u
HasToken(u) == u \in active /\ \E r \in Valid({token[t] : t \in Token}) : r.user = u

\* App.authenticate lets a viewer change nothing; requireAdminUser more.
Authenticated(u) == SignedIn(u) \/ HasToken(u)
Changing(u) == Authenticated(u) /\ role[u] # "viewer"
Administering(u) == Authenticated(u) /\ role[u] = "administrator"

CreateAPIToken(t, u) ==
    /\ up
    /\ Changing(u)
    /\ token[t] = Idle
    /\ token' = [token EXCEPT ![t] = [user |-> u, expired |-> FALSE]]
    /\ UNCHANGED <<up, accounts, session, request>>

\* Everybody deletes his own; nothing else does, expired or not.
DeleteAPIToken(t) ==
    /\ up
    /\ token[t] # Idle
    /\ Changing(token[t].user)
    /\ token' = [token EXCEPT ![t] = Idle]
    /\ UNCHANGED <<up, accounts, session, request>>

\* A token that has an expires_at.
TokenExpires(t) ==
    /\ token[t] # Idle
    /\ ~token[t].expired
    /\ token' = [token EXCEPT ![t].expired = TRUE]
    /\ UNCHANGED <<up, accounts, session, request>>

-----------------------------------------------------------------------------
(* Administrators at work.                                                 *)

CreateUser(u, r) ==
    /\ up
    /\ \E actor \in User : Administering(actor)
    /\ role[u] = NoRow
    /\ role' = [role EXCEPT ![u] = r]
    /\ active' = active \cup {u}
    /\ UNCHANGED <<up, entries, request>>

\* Nobody deletes his own account; u is an id the client has seen.
DeleteUser(k, u) ==
    /\ up
    /\ ~Busy(k)
    /\ \E actor \in User \ {u} : Administering(actor)
    /\ role[u] # NoRow
    /\ Begin(k, "delete", u, "viewer", "count")
    /\ UNCHANGED <<up, accounts, entries>>

UpdateUser(k, u, r) ==
    /\ up
    /\ ~Busy(k)
    /\ \E actor \in User : Administering(actor)
    /\ role[u] # NoRow
    /\ Begin(k, "edit", u, r, "role")
    /\ UNCHANGED <<up, accounts, entries>>

\* Mutant: deleted administrators are counted too.
Several_InactiveToo == Cardinality(Appointed) > 1

\* Mutant: one is enough.
Several_OffByOne == Cardinality(Administrators) >= 1

\* admins <= 1 refuses.
Several == Cardinality(Administrators) > 1

\* SELECT count(*): an edit that comes here is a demotion.
CountAdministrators(k) ==
    /\ \/ /\ At(k, "delete", "count")
          /\ request' = [request EXCEPT ![k].several = Several, ![k].stage = "role"]
       \/ /\ At(k, "edit", "count")
          /\ request' = [request EXCEPT ![k] = IF Several THEN [@ EXCEPT !.stage = "write"] ELSE Idle]
    /\ UNCHANGED <<up, accounts, entries>>

\* SELECT role: of any account to delete it, of an active one to edit it.
ReadRole(k) ==
    LET e == request[k]
        administrator == role[e.user] = "administrator"
    IN
    /\ \/ /\ At(k, "delete", "role")
          /\ request' = [request EXCEPT ![k] =
                            IF administrator /\ ~e.several THEN Idle ELSE [e EXCEPT !.stage = "write"]]
       \/ /\ At(k, "edit", "role")
          /\ request' = [request EXCEPT ![k] =
                            IF e.user \notin active THEN Idle
                            ELSE IF administrator /\ e.role # "administrator"
                            THEN [e EXCEPT !.stage = "count"]
                            ELSE [e EXCEPT !.stage = "write"]]
    /\ UNCHANGED <<up, accounts, entries>>

\* The others that have judged have now been overtaken.
Overtaken(k, change) ==
    [j \in Request |-> IF j = k THEN Idle
                       ELSE IF change /\ Judged(j) THEN [request[j] EXCEPT !.raced = TRUE]
                       ELSE request[j]]

\* The accounts that are active after the write.
Activated(e) == IF e.op = "delete" THEN active \ {e.user} ELSE active

\* UPDATE users, by id alone, and the commit of an edit.
Write(k) ==
    LET e == request[k] IN
    /\ Busy(k)
    /\ e.stage = "write"
    /\ active' = Activated(e)
    /\ role' = IF e.op = "edit" THEN [role EXCEPT ![e.user] = e.role] ELSE role
    /\ request' = Overtaken(k, <<Appointed, Administrators>>' # <<Appointed, Administrators>>)
    /\ UNCHANGED <<up, entries>>

\* A statement fails, or the client goes away.
Fail(k) ==
    /\ Busy(k)
    /\ request' = [request EXCEPT ![k] = Idle]
    /\ UNCHANGED <<up, accounts, entries>>

-----------------------------------------------------------------------------
Next ==
    \/ Start
    \/ Stop
    \/ \E k \in Request, u \in User : Login(k, u)
    \/ \E k \in Request, u \in User : SignOn(k, u)
    \/ \E k \in Request, s \in Session : CreateSession(k, s)
    \/ \E s \in Session : Logout(s)
    \/ \E s \in Session : Expire(s)
    \/ \E t \in Token, u \in User : CreateAPIToken(t, u)
    \/ \E t \in Token : DeleteAPIToken(t)
    \/ \E t \in Token : TokenExpires(t)
    \/ RunRetention
    \/ \E u \in User, r \in Role : CreateUser(u, r)
    \/ \E k \in Request, u \in User : DeleteUser(k, u)
    \/ \E k \in Request, u \in User, r \in Role : UpdateUser(k, u, r)
    \/ \E k \in Request : CountAdministrators(k)
    \/ \E k \in Request : ReadRole(k)
    \/ \E k \in Request : Write(k)
    \/ \E k \in Request : Fail(k)

Spec == Init /\ [][Next]_vars

-----------------------------------------------------------------------------
\* Types of the variables.
TypeOK ==
    /\ up \in BOOLEAN
    /\ role \in [User -> Role \cup {NoRow}]
    /\ active \in SUBSET {u \in User : role[u] # NoRow}
    /\ session \in [Session -> Entry \cup {Idle}]
    /\ token \in [Token -> Entry \cup {Idle}]
    /\ request \in [Request -> Task \cup {Idle}]

\* Some administrator stays active: the last one goes only with a request
\* that another one overtook between its checks and its write.
AdministratorRemains ==
    [][Administrators # {} /\ Administrators' = {} =>
         \E k \in Request : Write(k) /\ request[k].raced]_vars

\* A server that is stopped can be started again: an account to start with
\* is lost in no other way.
StartSurvives ==
    [][Bootstrapped /\ ~Bootstrapped' => \E k \in Request : Write(k) /\ request[k].raced]_vars

-----------------------------------------------------------------------------
\* The retention job runs once a day, and the server is started again.
Fairness ==
    /\ \A s \in Session : WF_vars(Expire(s))
    /\ SF_vars(RunRetention)
    /\ WF_vars(Start)

FairSpec == Spec /\ Fairness

\* No session stays in the table for ever, whatever becomes of its account,
\* as long as the server does not stop for good.
SessionsEnd == []<>up => \A s \in Session : []<>(session[s] = Idle)
=============================================================================
