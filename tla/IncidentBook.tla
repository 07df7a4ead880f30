---------------------------- MODULE IncidentBook ----------------------------
(***************************************************************************)
(* What the list of incidents promises to the operator who works from it.  *)
(* An incident is opened by a failure of its own check alone, and only in  *)
(* the open; an acknowledged one is never opened again before it has       *)
(* ended.  It ends for one of three reasons: its check has succeeded, its  *)
(* check is hidden behind a failing parent when some result comes in, or   *)
(* its check is removed.  Nothing is said of who executes checks, when, or *)
(* what the devices show in between.                                       *)
(***************************************************************************)
CONSTANT Check

VARIABLES
    verdict,    \* the last recorded result of each check
    incident,   \* its incident
    hidden      \* the checks below a failing parent

vars == <<verdict, incident, hidden>>

Init ==
    /\ verdict = [c \in Check |-> "none"]
    /\ incident = [c \in Check |-> "none"]
    /\ hidden = {}

\* What remains of the incidents when the new hidden ones are taken off.
Swept(book) == [c \in Check |-> IF c \in hidden' THEN "none" ELSE book[c]]

\* A result may hide and uncover other checks, but not its own.
Turns(c) ==
    /\ hidden' \in SUBSET Check
    /\ c \in hidden' <=> c \in hidden

Success(c) ==
    /\ Turns(c)
    /\ verdict' = [verdict EXCEPT ![c] = "up"]
    /\ incident' = Swept([incident EXCEPT ![c] = "none"])

Failure(c) ==
    /\ Turns(c)
    /\ verdict' = [verdict EXCEPT ![c] = "down"]
    /\ \/ incident' = Swept(incident)
       \/ /\ c \notin hidden
          /\ incident[c] = "none"
          /\ incident' = Swept([incident EXCEPT ![c] = "open"])

Acknowledge(c) ==
    /\ incident[c] = "open"
    /\ incident' = [incident EXCEPT ![c] = "acknowledged"]
    /\ UNCHANGED <<verdict, hidden>>

\* Checks go with their device, and the devices below it come into the open.
Remove(C) ==
    /\ hidden' \in SUBSET (hidden \ C)
    /\ verdict' = [c \in Check |-> IF c \in C THEN "none" ELSE verdict[c]]
    /\ incident' = [c \in Check |-> IF c \in C THEN "none" ELSE incident[c]]

\* Devices are moved, or report for themselves: no incident ends by that.
Rearrange ==
    /\ hidden' \in SUBSET Check
    /\ UNCHANGED <<verdict, incident>>

Next ==
    \/ \E c \in Check : Success(c) \/ Failure(c) \/ Acknowledge(c)
    \/ \E C \in SUBSET Check : Remove(C)
    \/ Rearrange

Spec == Init /\ [][Next]_vars
=============================================================================
