--------------------------- MODULE ConnectionPool ---------------------------
(***************************************************************************)
(* The database connections of the server.  Two loops run statements of    *)
(* their own for each row of a query that stays open: the goroutine that   *)
(* queues automatic remediation, whose context never ends, and the request *)
(* for a collector's assignments, whose context ends with the client's     *)
(* patience.  The check engine needs one connection to claim a check.      *)
(*                                                                         *)
(* A statement outside a loop takes a connection and gives it back in one  *)
(* step; what counts is who keeps one while asking for another.            *)
(***************************************************************************)
EXTENDS Integers, FiniteSets

CONSTANTS
    MaxConns,       \* size of the pool: by default 4, or the processors
    Repair,         \* QueueAutomaticRemediation goroutines at one time
    Assignments,    \* collectors asking for assignments at one time
    MaxRows,        \* bound: statements one loop executes
    Check           \* checks the engine has to claim

ASSUME PoolAssumption == MaxConns \in Nat \ {0} /\ MaxRows \in Nat
ASSUME TaskAssumption == IsFiniteSet(Repair) /\ IsFiniteSet(Assignments)
ASSUME DisjointAssumption == Repair \cap Assignments = {}

VARIABLES
    phase,      \* what each of the loops is doing
    left,       \* statements its open query will still cause
    due         \* checks that wait to be claimed

vars == <<phase, left, due>>

Task == Repair \cup Assignments

Holders == {t \in Task : phase[t] = "rows"}
Free == MaxConns - Cardinality(Holders)

Init ==
    /\ phase = [t \in Task |-> "idle"]
    /\ left = [t \in Task |-> 0]
    /\ due = {}

-----------------------------------------------------------------------------
\* A failing check starts the goroutine, or a collector sends its request.
Start(t) ==
    /\ phase[t] = "idle"
    /\ phase' = [phase EXCEPT ![t] = IF t \in Repair THEN "setting" ELSE "query"]
    /\ UNCHANGED <<left, due>>

\* RemediationEnabled: a connection is taken and given back.
AskSetting(t) ==
    /\ phase[t] = "setting"
    /\ Free > 0
    /\ \E enabled \in BOOLEAN : phase' = [phase EXCEPT ![t] = IF enabled THEN "query" ELSE "idle"]
    /\ UNCHANGED <<left, due>>

\* s.Pool.Query: the connection stays with the rows.
OpenRows(t) ==
    /\ phase[t] = "query"
    /\ Free > 0
    /\ phase' = [phase EXCEPT ![t] = "rows"]
    /\ \E n \in 0..MaxRows : left' = [left EXCEPT ![t] = n]
    /\ UNCHANGED due

\* QueueRemediation or CredentialSecret for the current row.
NestedStatement(t) ==
    /\ phase[t] = "rows"
    /\ left[t] > 0
    /\ Free > 0
    /\ left' = [left EXCEPT ![t] = @ - 1]
    /\ UNCHANGED <<phase, due>>

\* The loop ends, and rows.Close() gives the connection back.
CloseRows(t) ==
    /\ phase[t] = "rows"
    /\ left[t] = 0
    /\ phase' = [phase EXCEPT ![t] = "idle"]
    /\ UNCHANGED <<left, due>>

\* Mutant: the request runs under context.Background().
GiveUp_Never(t) == t \in {} /\ UNCHANGED vars

\* The client of a request gives up after 30 seconds and ends its context.
GiveUp(t) ==
    /\ t \in Assignments
    /\ phase[t] # "idle"
    /\ phase' = [phase EXCEPT ![t] = "idle"]
    /\ left' = [left EXCEPT ![t] = 0]
    /\ UNCHANGED due

BecomeDue(c) ==
    /\ c \notin due
    /\ due' = due \cup {c}
    /\ UNCHANGED <<phase, left>>

\* Engine.Run: ClaimDue waits for a connection as long as the server runs.
ClaimDue(c) ==
    /\ c \in due
    /\ Free > 0
    /\ due' = due \ {c}
    /\ UNCHANGED <<phase, left>>

Next ==
    \/ \E t \in Task : Start(t)
    \/ \E t \in Task : AskSetting(t)
    \/ \E t \in Task : OpenRows(t)
    \/ \E t \in Task : NestedStatement(t)
    \/ \E t \in Task : CloseRows(t)
    \/ \E t \in Task : GiveUp(t)
    \/ \E c \in Check : BecomeDue(c)
    \/ \E c \in Check : ClaimDue(c)

Spec == Init /\ [][Next]_vars

-----------------------------------------------------------------------------
\* Types of the variables, and the size of the pool.
TypeOK ==
    /\ phase \in [Task -> {"idle", "setting", "query", "rows"}]
    /\ left \in [Task -> 0..MaxRows]
    /\ due \in SUBSET Check
    /\ Cardinality(Holders) <= MaxConns

\* The pool serves those who wait in the order of their coming; loops that can
\* go on do so, and clients do not wait for ever.
Fairness ==
    /\ \A t \in Task :
         /\ SF_vars(AskSetting(t) \/ OpenRows(t) \/ NestedStatement(t))
         /\ WF_vars(CloseRows(t))
         /\ WF_vars(GiveUp(t))
    /\ \A c \in Check : SF_vars(ClaimDue(c))

FairSpec == Spec /\ Fairness

\* A check that is due is claimed, however many loops use the pool: "Checks run
\* every 30 seconds by default" (README.md).  This needs fewer goroutines of
\* the kind that never gives up than there are connections.
DueChecksAreClaimed == \A c \in Check : c \in due ~> c \notin due
=============================================================================
