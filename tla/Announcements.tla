---------------------------- MODULE Announcements ----------------------------
(***************************************************************************)
(* What an outbox promises: a message that is announced reaches everybody  *)
(* in its audience who stays, at least once and never before it is         *)
(* announced; it is settled only then, and for good, unless its subject is *)
(* withdrawn.  Nothing is said of when, how often or in which order.       *)
(***************************************************************************)
CONSTANTS
    Message,    \* what there is to tell
    Recipient,  \* those who may be told
    Audience    \* the recipients each message is meant for

VARIABLES
    status,     \* how far each message has got
    staying,    \* the recipients that are counted on
    received    \* the recipients that have got each message

vars == <<status, staying, received>>

Init ==
    /\ status = [m \in Message |-> "none"]
    /\ staying \in SUBSET Recipient
    /\ received = [m \in Message |-> {}]

Announce(m) ==
    /\ status[m] = "none"
    /\ status' = [status EXCEPT ![m] = "owed"]
    /\ UNCHANGED <<staying, received>>

\* A message may arrive again, and after it was settled or withdrawn.
Arrive(m, r) ==
    /\ status[m] # "none"
    /\ received' = [received EXCEPT ![m] = @ \cup {r}]
    /\ UNCHANGED <<status, staying>>

Settle(m) ==
    /\ status[m] = "owed"
    /\ Audience[m] \cap staying \subseteq received[m]
    /\ status' = [status EXCEPT ![m] = "settled"]
    /\ UNCHANGED <<staying, received>>

\* All that was to be said of a subject is withdrawn together.
Withdraw(M) ==
    /\ status' = [m \in Message |-> IF m \in M THEN "withdrawn" ELSE status[m]]
    /\ UNCHANGED <<staying, received>>

Leave(r) ==
    /\ staying' = staying \ {r}
    /\ UNCHANGED <<status, received>>

Next ==
    \/ \E m \in Message : Announce(m)
    \/ \E m \in Message, r \in Recipient : Arrive(m, r)
    \/ \E m \in Message : Settle(m)
    \/ \E M \in SUBSET Message : Withdraw(M)
    \/ \E r \in Recipient : Leave(r)

Spec == Init /\ [][Next]_vars
=============================================================================
