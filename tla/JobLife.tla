------------------------------ MODULE JobLife ------------------------------
(***************************************************************************)
(* What the list of jobs promises to whoever reads it: a job is taken up   *)
(* once, its executable starts only while the job is running, a success is *)
(* of a job whose executable has started, what is cancelled was never      *)
(* taken up, and the end of a job is its end.  Nothing is said of who asks *)
(* for jobs, who carries them out, or how long anything takes.             *)
(***************************************************************************)
CONSTANT Job

VARIABLES
    state,      \* what is shown of each job
    started     \* the jobs whose executable has been started

vars == <<state, started>>

Init ==
    /\ state = [j \in Job |-> "absent"]
    /\ started = {}

Becomes(j, s) == state' = [state EXCEPT ![j] = s]

Queue(j) ==
    /\ state[j] = "absent"
    /\ Becomes(j, "queued")
    /\ UNCHANGED started

TakeUp(j) ==
    /\ state[j] = "queued"
    /\ Becomes(j, "running")
    /\ UNCHANGED started

Start(j) ==
    /\ state[j] = "running"
    /\ j \notin started
    /\ started' = started \cup {j}
    /\ UNCHANGED state

Succeed(j) ==
    /\ state[j] = "running"
    /\ j \in started
    /\ Becomes(j, "succeeded")
    /\ UNCHANGED started

Fail(j) ==
    /\ state[j] = "running"
    /\ Becomes(j, "failed")
    /\ UNCHANGED started

\* Whatever waits is called off together.
CallOff ==
    /\ state' = [j \in Job |-> IF state[j] = "queued" THEN "cancelled" ELSE state[j]]
    /\ UNCHANGED started

\* Any of the running jobs are given up.
Expire(J) ==
    /\ \A j \in J : state[j] = "running"
    /\ state' = [j \in Job |-> IF j \in J THEN "expired" ELSE state[j]]
    /\ UNCHANGED started

Next ==
    \/ \E j \in Job : Queue(j) \/ TakeUp(j) \/ Start(j) \/ Succeed(j) \/ Fail(j)
    \/ CallOff
    \/ \E J \in SUBSET Job : Expire(J)

Spec == Init /\ [][Next]_vars
=============================================================================
