-------------------------- MODULE RemediationProofs --------------------------
(***************************************************************************)
(* Theorems about Remediation, for any number of templates, agents,        *)
(* requests and jobs: what the history of a job says, and what an agent    *)
(* may start.                                                              *)
(***************************************************************************)
EXTENDS Remediation, FiniteSetTheorems, SequenceTheorems, TLAPS

USE RemediationAssumption

-----------------------------------------------------------------------------
(* What the statements on remediation_jobs do to its rows.                 *)

\* The history as a function of the job's number.
LEMMA RowsType ==
    ASSUME TypeOK
    PROVE  /\ Len(jobs) \in Nat
           /\ Jobs = 1 .. Len(jobs)
           /\ \A j \in Jobs : jobs[j] \in Job /\ j \in 1 .. MaxJobs
  BY LenProperties DEF TypeOK, Jobs

LEMMA RowsReplaced ==
    ASSUME TypeOK, NEW js, js \in [Jobs -> Job]
    PROVE  js \in Seq(Job) /\ Len(js) = Len(jobs) /\ DOMAIN js = Jobs
  <1>1. js \in [1 .. Len(jobs) -> Job] /\ Len(jobs) \in Nat
    BY RowsType
  <1>2. js \in Seq(Job)
    BY <1>1, SeqDef
  <1>3. DOMAIN js = 1 .. Len(js) /\ Len(js) \in Nat
    BY <1>2, LenProperties
  <1>4. DOMAIN js = 1 .. Len(jobs)
    BY <1>1
  <1>5. Len(js) = Len(jobs)
    BY <1>1, <1>3, <1>4
  <1>6. QED
    BY <1>2, <1>4, <1>5, RowsType

\* No job comes or goes, and those there are stay with their device.
SameJobs ==
    /\ jobs' \in Seq(Job)
    /\ Len(jobs') = Len(jobs)
    /\ Jobs' = Jobs
    /\ \A k \in Jobs : jobs'[k].device = jobs[k].device

\* UPDATE ... SET state of all jobs.
LEMMA StatesSet ==
    ASSUME TypeOK, NEW f \in [Jobs -> JobState],
           jobs' = [j \in Jobs |-> [jobs[j] EXCEPT !.state = f[j]]]
    PROVE  SameJobs /\ \A k \in Jobs : jobs'[k].state = f[k] /\ jobs'[k].age = jobs[k].age
  <1>1. \A k \in Jobs : jobs'[k] = [jobs[k] EXCEPT !.state = f[k]]
    OBVIOUS
  <1>2. \A k \in Jobs : /\ jobs'[k] \in Job /\ jobs'[k].state = f[k]
                        /\ jobs'[k].device = jobs[k].device /\ jobs'[k].age = jobs[k].age
    <2>1. TAKE k \in Jobs
    <2>2. jobs[k] \in Job /\ f[k] \in JobState
      BY RowsType
    <2>3. QED
      BY <1>1, <2>2 DEF Job
  <1>3. jobs' \in [Jobs -> Job]
    BY <1>2
  <1>4. QED
    BY <1>2, <1>3, RowsReplaced DEF SameJobs, Jobs

\* UPDATE ... SET state of one job.
LEMMA StateSet ==
    ASSUME TypeOK, NEW j \in Jobs, NEW s \in JobState,
           jobs' = [jobs EXCEPT ![j].state = s]
    PROVE  /\ SameJobs
           /\ \A k \in Jobs : /\ jobs'[k].state = IF k = j THEN s ELSE jobs[k].state
                              /\ jobs'[k].age = jobs[k].age
  <1>1. \A k \in Jobs : jobs'[k] = IF k = j THEN [jobs[k] EXCEPT !.state = s] ELSE jobs[k]
    BY RowsType DEF Jobs
  <1>2. \A k \in Jobs : /\ jobs'[k] \in Job /\ jobs'[k].device = jobs[k].device
                        /\ jobs'[k].state = IF k = j THEN s ELSE jobs[k].state
                        /\ jobs'[k].age = jobs[k].age
    <2>1. TAKE k \in Jobs
    <2>2. jobs[k] \in Job
      BY RowsType
    <2>3. CASE k = j
      <3>1. jobs'[k] = [jobs[k] EXCEPT !.state = s]
        BY <1>1, <2>3
      <3>2. QED
        BY <2>2, <2>3, <3>1 DEF Job
    <2>4. CASE k # j
      BY <1>1, <2>2, <2>4
    <2>5. QED
      BY <2>3, <2>4
  <1>3. jobs' \in [Jobs -> Job]
    BY <1>2 DEF Jobs
  <1>4. QED
    BY <1>2, <1>3, RowsReplaced DEF SameJobs, Jobs

\* Time passes for one job.
LEMMA JobAges ==
    ASSUME TypeOK, NEW j \in Jobs, CooldownEnds(j) \/ Ages(j)
    PROVE  /\ SameJobs
           /\ \A k \in Jobs : jobs'[k].state = jobs[k].state
           /\ \A k \in Jobs : jobs'[k].age = jobs[k].age
                              \/ (jobs[k].state = "running" /\ jobs[k].age # "overdue")
  <1>1. PICK a \in {"stale", "overdue"} :
           \/ jobs' = [jobs EXCEPT ![j].recent = FALSE]
           \/ /\ jobs' = [jobs EXCEPT ![j].age = a]
              /\ jobs[j].state = "running" /\ jobs[j].age # "overdue"
    BY DEF CooldownEnds, Ages
  <1>2. \/ \A k \in Jobs : jobs'[k] = IF k = j THEN [jobs[k] EXCEPT !.recent = FALSE] ELSE jobs[k]
        \/ /\ \A k \in Jobs : jobs'[k] = IF k = j THEN [jobs[k] EXCEPT !.age = a] ELSE jobs[k]
           /\ jobs[j].state = "running" /\ jobs[j].age # "overdue"
    BY <1>1 DEF Jobs
  <1>3. \A k \in Jobs : /\ jobs'[k] \in Job /\ jobs'[k].device = jobs[k].device
                        /\ jobs'[k].state = jobs[k].state
                        /\ \/ jobs'[k].age = jobs[k].age
                           \/ jobs[k].state = "running" /\ jobs[k].age # "overdue"
    <2>1. TAKE k \in Jobs
    <2>2. jobs[k] \in Job
      BY RowsType
    <2>3. \/ jobs'[k] = jobs[k]
          \/ jobs'[k] = [jobs[k] EXCEPT !.recent = FALSE]
          \/ /\ jobs'[k] = [jobs[k] EXCEPT !.age = a]
             /\ jobs[k].state = "running" /\ jobs[k].age # "overdue"
      BY <1>2
    <2>4. a \in {"fresh", "stale", "overdue"}
      OBVIOUS
    <2>5. QED
      BY <2>2, <2>3, <2>4 DEF Job
  <1>4. jobs' \in [Jobs -> Job]
    BY <1>1, <1>3 DEF Jobs
  <1>5. QED
    BY <1>3, <1>4, RowsReplaced DEF SameJobs, Jobs

\* INSERT: the new job is queued.
LEMMA JobInserted ==
    ASSUME TypeOK, NEW row \in Job, Len(jobs) < MaxJobs, jobs' = Append(jobs, row)
    PROVE  /\ jobs' \in Seq(Job) /\ Len(jobs') <= MaxJobs
           /\ Jobs' = Jobs \cup {Len(jobs) + 1} /\ Len(jobs) + 1 \notin Jobs
           /\ \A k \in Jobs : jobs'[k] = jobs[k]
           /\ jobs'[Len(jobs) + 1] = row
  <1>1. /\ jobs' \in Seq(Job) /\ Len(jobs') = Len(jobs) + 1
        /\ \A k \in 1 .. Len(jobs) : jobs'[k] = jobs[k]
        /\ jobs'[Len(jobs) + 1] = row
    BY AppendProperties DEF TypeOK
  <1>2. DOMAIN jobs' = 1 .. Len(jobs) + 1
    BY <1>1, LenProperties
  <1>3. QED
    BY <1>1, <1>2, RowsType DEF TypeOK, Jobs

-----------------------------------------------------------------------------
(* Type correctness.                                                       *)

LEMMA LeaveType ==
    ASSUME TypeOK, NEW r \in Requester, request[r] # Idle, Leave(r)
    PROVE  request' \in [Requester -> Request \cup {Idle}]
  <1>1. request[r] \in Request
    BY DEF TypeOK
  <1>2. NextTemplate(request[r].device, request[r].left) \subseteq Request \cup {Idle}
    BY <1>1 DEF NextTemplate, Request
  <1>3. QED
    BY <1>2 DEF Leave, TypeOK

\* The actions that leave history and agents alone.
Requests ==
    \/ \E value \in BOOLEAN : SetEnabled(value)
    \/ SetEnabledFails \/ CancelFails
    \/ \E t \in Template : DeleteActionTemplate(t)
    \/ \E r \in Requester, t \in Template, d \in Agent : QueueManually(r, t, d)
    \/ \E r \in Requester, d \in Agent : QueueAutomaticRemediation(r, d)
    \/ \E r \in Requester : RemediationEnabled(r) \/ CheckCooldown(r) \/ RequestFails(r)

LEMMA RequestsKeep ==
    ASSUME Requests
    PROVE  UNCHANGED <<jobs, agent, executed>>
  BY DEF Requests, SetEnabled, SetEnabledFails, CancelFails, DeleteActionTemplate, QueueManually,
         QueueAutomaticRemediation, RemediationEnabled, CheckCooldown, RequestFails

LEMMA RequestsType ==
    ASSUME TypeOK, Requests
    PROVE  TypeOK'
  <1>1. ASSUME UNCHANGED request
        PROVE  TypeOK'
    BY <1>1, RequestsKeep
    DEF Requests, SetEnabled, SetEnabledFails, CancelFails, DeleteActionTemplate, QueueManually,
        QueueAutomaticRemediation, RemediationEnabled, CheckCooldown, RequestFails, TypeOK, Jobs
  <1>2. ASSUME request' \in [Requester -> Request \cup {Idle}], UNCHANGED <<enabled, switching, templates>>
        PROVE  TypeOK'
    BY <1>2, RequestsKeep DEF TypeOK, Jobs
  <1>3. ASSUME NEW r \in Requester, NEW t \in Template, NEW d \in Agent, QueueManually(r, t, d)
        PROVE  TypeOK'
    BY <1>2, <1>3 DEF QueueManually, TypeOK, Request
  <1>4. ASSUME NEW r \in Requester, NEW d \in Agent, QueueAutomaticRemediation(r, d)
        PROVE  TypeOK'
    <2>1. NextTemplate(d, Automatic \cap templates) \subseteq Request \cup {Idle}
      BY DEF NextTemplate, Request, TypeOK
    <2>2. QED
      BY <1>2, <1>4, <2>1 DEF QueueAutomaticRemediation, TypeOK
  <1>5. ASSUME NEW r \in Requester, RemediationEnabled(r) \/ CheckCooldown(r) \/ RequestFails(r)
        PROVE  TypeOK'
    <2>1. request[r] \in Request
      BY <1>5 DEF RemediationEnabled, CheckCooldown, RequestFails, TypeOK
    <2>2. \A s \in {"cooldown", "insert"} : [request[r] EXCEPT !.step = s] \in Request
      BY <2>1 DEF Request
    <2>3. request' \in [Requester -> Request \cup {Idle}]
      BY <1>5, <2>2, LeaveType DEF RemediationEnabled, CheckCooldown, RequestFails, TypeOK
    <2>4. QED
      BY <1>2, <1>5, <2>3 DEF RemediationEnabled, CheckCooldown, RequestFails
  <1>6. QED
    BY <1>1, <1>3, <1>4, <1>5
    DEF Requests, SetEnabled, SetEnabledFails, CancelFails, DeleteActionTemplate

\* What the other actions do to the history, by job.
LEMMA CancelEffect ==
    ASSUME TypeOK, CancelQueued
    PROVE  /\ SameJobs
           /\ \A k \in Jobs : /\ jobs'[k].state = Cancelled(jobs[k].state)
                              /\ jobs'[k].age = jobs[k].age
  <1> DEFINE f == [j \in Jobs |-> Cancelled(jobs[j].state)]
  <1>1. f \in [Jobs -> JobState]
    BY RowsType DEF Cancelled, Job, JobState
  <1>2. jobs' = [j \in Jobs |-> [jobs[j] EXCEPT !.state = f[j]]]
    BY DEF CancelQueued
  <1>3. SameJobs /\ \A k \in Jobs : jobs'[k].state = f[k] /\ jobs'[k].age = jobs[k].age
    <2> HIDE DEF f
    <2>1. QED
      BY <1>1, <1>2, StatesSet
  <1>4. QED
    BY <1>3

LEMMA RetentionEffect ==
    ASSUME TypeOK, RunRetention
    PROVE  /\ SameJobs
           /\ \A k \in Jobs : /\ jobs'[k].age = jobs[k].age
                              /\ \/ jobs'[k].state = jobs[k].state
                                 \/ LeaseExpired(jobs[k]) /\ jobs'[k].state = "expired"
  <1> DEFINE f == [j \in Jobs |-> IF LeaseExpired(jobs[j]) THEN "expired" ELSE jobs[j].state]
  <1>1. f \in [Jobs -> JobState]
    BY RowsType DEF Job, JobState
  <1>2. jobs' = [j \in Jobs |-> [jobs[j] EXCEPT !.state = f[j]]]
    BY DEF RunRetention
  <1>3. SameJobs /\ \A k \in Jobs : jobs'[k].state = f[k] /\ jobs'[k].age = jobs[k].age
    <2> HIDE DEF f
    <2>1. QED
      BY <1>1, <1>2, StatesSet
  <1>4. QED
    BY <1>3

-----------------------------------------------------------------------------
(* The inductive invariant.                                                *)

(***************************************************************************)
(* The job an agent works on is its own and runs, unless its lease is      *)
(* over: then its payload was not valid any more.  It has been started     *)
(* exactly when the agent says so.                                         *)
(***************************************************************************)
Handled(d) ==
    /\ agent[d].job \in Jobs
    /\ jobs[agent[d].job].device = d
    /\ \/ jobs[agent[d].job].state = "running"
       \/ jobs[agent[d].job].state = "expired" /\ jobs[agent[d].job].age = "overdue"
    /\ agent[d].phase = "fetched" => agent[d].job \notin executed
    /\ agent[d].phase = "executing" \/ agent[d].success => agent[d].job \in executed

AgentInv == \A d \in Agent : agent[d] # Idle => Handled(d)

HistoryInv ==
    \A j \in Jobs : /\ jobs[j].state \in {"queued", "cancelled"} => j \notin executed
                    /\ jobs[j].state = "succeeded" => j \in executed

IInv == TypeOK /\ AgentInv /\ HistoryInv

LEMMA ClaimEffect ==
    ASSUME TypeOK, NEW d \in Agent, ClaimAgentAction(d)
    PROVE  \E j \in Jobs :
             /\ jobs[j].device = d /\ jobs[j].state = "queued"
             /\ SameJobs
             /\ \A k \in Jobs : /\ jobs'[k].state = IF k = j THEN "running" ELSE jobs[k].state
                                /\ jobs'[k].age = jobs[k].age
             /\ agent' = [agent EXCEPT ![d] = [job |-> j, phase |-> "fetched", success |-> FALSE]]
  <1>1. PICK j \in Claimable(d) :
           /\ jobs' = [jobs EXCEPT ![j].state = "running"]
           /\ agent' = [agent EXCEPT ![d] = [job |-> j, phase |-> "fetched", success |-> FALSE]]
    BY DEF ClaimAgentAction
  <1>2. j \in Jobs /\ jobs[j].device = d /\ jobs[j].state = "queued"
    BY DEF Claimable
  <1>3. "running" \in JobState
    BY DEF JobState
  <1>4. /\ SameJobs
        /\ \A k \in Jobs : /\ jobs'[k].state = IF k = j THEN "running" ELSE jobs[k].state
                           /\ jobs'[k].age = jobs[k].age
    BY <1>1, <1>2, <1>3, StateSet
  <1>5. QED
    BY <1>1, <1>2, <1>4

LEMMA ResultEffect ==
    ASSUME IInv, NEW d \in Agent, PostResult(d)
    PROVE  /\ agent[d].job \in Jobs
           /\ SameJobs
           /\ \A k \in Jobs :
                /\ jobs'[k].age = jobs[k].age
                /\ \/ jobs'[k].state = jobs[k].state
                   \/ /\ k = agent[d].job /\ jobs[k].state = "running"
                      /\ jobs'[k].state = Outcome(agent[d].success)
  <1>1. agent[d].job \in Jobs
    BY DEF PostResult, IInv, AgentInv, Handled
  <1>2. Outcome(agent[d].success) \in JobState
    BY DEF Outcome, JobState
  <1>3. CASE jobs[agent[d].job].state = "running"
    <2>1. jobs' = [jobs EXCEPT ![agent[d].job].state = Outcome(agent[d].success)]
      BY <1>3 DEF PostResult, CompleteAgentAction
    <2>2. PICK j \in Jobs : j = agent[d].job
      BY <1>1
    <2>3. PICK s \in JobState : s = Outcome(agent[d].success)
      BY <1>2
    <2>4. jobs' = [jobs EXCEPT ![j].state = s]
      BY <2>1, <2>2, <2>3
    <2>5. /\ SameJobs
          /\ \A k \in Jobs : /\ jobs'[k].state = IF k = j THEN s ELSE jobs[k].state
                             /\ jobs'[k].age = jobs[k].age
      BY <2>4, StateSet DEF IInv
    <2>6. QED
      BY <1>1, <1>3, <2>2, <2>3, <2>5
  <1>4. CASE jobs[agent[d].job].state # "running"
    <2>1. UNCHANGED jobs
      BY <1>4 DEF PostResult, CompleteAgentAction
    <2>2. QED
      BY <1>1, <2>1 DEF SameJobs, Jobs, IInv, TypeOK
  <1>5. QED
    BY <1>3, <1>4

LEMMA TypeStep ==
    ASSUME IInv, [Next]_vars
    PROVE  TypeOK'
  <1> USE DEF IInv
  <1>1. ASSUME SameJobs, UNCHANGED <<enabled, switching, templates, request, executed>>,
               agent' \in [Agent -> Work \cup {Idle}]
        PROVE  TypeOK'
    BY <1>1 DEF SameJobs, TypeOK, Jobs
  <1>2. CASE Requests
    BY <1>2, RequestsType
  <1>3. CASE CancelQueued
    BY <1>3, CancelEffect DEF CancelQueued, SameJobs, TypeOK, Jobs
  <1>4. ASSUME NEW r \in Requester, InsertJob(r)
        PROVE  TypeOK'
    <2>1. request' \in [Requester -> Request \cup {Idle}]
      BY <1>4, LeaveType DEF InsertJob
    <2>2. request[r] \in Request
      BY <1>4 DEF InsertJob, TypeOK
    <2>3. [template |-> request[r].template, device |-> request[r].device, state |-> "queued",
           recent |-> TRUE, age |-> "fresh"] \in Job
      BY <2>2 DEF Request, Job, JobState
    <2>4. jobs' \in Seq(Job) /\ Len(jobs') <= MaxJobs /\ Jobs \subseteq Jobs'
      <3>1. CASE UNCHANGED jobs
        BY <3>1 DEF TypeOK, Jobs
      <3>2. CASE jobs' # jobs
        <4>1. PICK row \in Job : Len(jobs) < MaxJobs /\ jobs' = Append(jobs, row)
          BY <1>4, <2>3, <3>2 DEF InsertJob
        <4>2. QED
          BY <4>1, JobInserted
      <3>3. QED
        BY <3>1, <3>2
    <2>5. QED
      BY <1>4, <2>1, <2>4 DEF InsertJob, TypeOK
  <1>5. ASSUME NEW d \in Agent, ClaimAgentAction(d)
        PROVE  TypeOK'
    <2>1. PICK j \in Jobs : agent' = [agent EXCEPT ![d] = [job |-> j, phase |-> "fetched", success |-> FALSE]]
      BY <1>5, ClaimEffect
    <2>2. agent' \in [Agent -> Work \cup {Idle}]
      BY <2>1, RowsType DEF TypeOK, Work
    <2>3. QED
      BY <1>1, <1>5, <2>2, ClaimEffect DEF ClaimAgentAction
  <1>6. ASSUME NEW d \in Agent, ExecuteSigned(d) \/ \E success \in BOOLEAN : ActionEnds(d, success)
        PROVE  TypeOK'
    <2>1. agent[d] \in Work
      BY <1>6 DEF ExecuteSigned, ActionEnds, TypeOK
    <2>2. agent[d].job \in Jobs
      BY <1>6 DEF ExecuteSigned, ActionEnds, AgentInv, Handled
    <2>3. agent' \in [Agent -> Work \cup {Idle}]
      BY <1>6, <2>1 DEF ExecuteSigned, ActionEnds, TypeOK, Work
    <2>4. executed' \in SUBSET Jobs
      BY <1>6, <2>2 DEF ExecuteSigned, ActionEnds, TypeOK
    <2>5. UNCHANGED <<enabled, switching, templates, jobs, request>>
      BY <1>6 DEF ExecuteSigned, ActionEnds
    <2>6. QED
      BY <2>3, <2>4, <2>5 DEF TypeOK, Jobs
  <1>7. ASSUME NEW d \in Agent, PostResult(d)
        PROVE  TypeOK'
    BY <1>1, <1>7, ResultEffect DEF PostResult, TypeOK
  <1>8. ASSUME NEW d \in Agent, AgentFails(d)
        PROVE  TypeOK'
    BY <1>8 DEF AgentFails, TypeOK, Jobs
  <1>9. ASSUME NEW j \in 1 .. MaxJobs, CooldownEnds(j) \/ Ages(j)
        PROVE  TypeOK'
    BY <1>1, <1>9, JobAges DEF CooldownEnds, Ages, TypeOK
  <1>10. CASE RunRetention
    BY <1>1, <1>10, RetentionEffect DEF RunRetention, TypeOK
  <1>11. CASE UNCHANGED vars
    BY <1>11 DEF vars, TypeOK, Jobs
  <1>12. QED
    BY <1>2, <1>3, <1>4, <1>5, <1>6, <1>7, <1>8, <1>9, <1>10, <1>11 DEF Next, Requests

-----------------------------------------------------------------------------
(* What agents hold and what the history says.                             *)

\* Switch, clock and retention job.
LEMMA RowsMove ==
    ASSUME IInv, SameJobs, UNCHANGED <<agent, executed>>,
           \A k \in Jobs :
             \/ /\ jobs'[k].state = jobs[k].state
                /\ jobs'[k].age = jobs[k].age \/ (jobs[k].state = "running" /\ jobs[k].age # "overdue")
             \/ jobs[k].state = "queued" /\ jobs'[k].state = "cancelled"
             \/ jobs[k].state = "running" /\ jobs'[k].state = "expired" /\ jobs'[k].age = "overdue"
    PROVE  AgentInv' /\ HistoryInv'
  <1>1. AgentInv'
    <2>1. SUFFICES ASSUME NEW d \in Agent, agent[d] # Idle
                   PROVE  Handled(d)'
      BY DEF AgentInv
    <2>2. Handled(d)
      BY <2>1 DEF IInv, AgentInv
    <2>3. QED
      BY <2>2 DEF Handled, SameJobs
  <1>2. HistoryInv'
    BY DEF IInv, HistoryInv, SameJobs
  <1>3. QED
    BY <1>1, <1>2

LEMMA InvStep ==
    ASSUME IInv, [Next]_vars
    PROVE  AgentInv' /\ HistoryInv'
  <1>1. ASSUME UNCHANGED <<jobs, agent, executed>>
        PROVE  AgentInv' /\ HistoryInv'
    BY <1>1 DEF IInv, AgentInv, Handled, HistoryInv, Jobs
  <1>2. CASE CancelQueued
    BY <1>2, CancelEffect, RowsMove DEF CancelQueued, Cancelled, IInv
  <1>3. CASE RunRetention
    BY <1>3, RetentionEffect, RowsMove DEF RunRetention, LeaseExpired, IInv
  <1>4. ASSUME NEW j \in 1 .. MaxJobs, CooldownEnds(j) \/ Ages(j)
        PROVE  AgentInv' /\ HistoryInv'
    BY <1>4, JobAges, RowsMove DEF CooldownEnds, Ages, IInv
  <1>5. ASSUME NEW r \in Requester, InsertJob(r)
        PROVE  AgentInv' /\ HistoryInv'
    <2>1. UNCHANGED <<agent, executed>> /\ request[r] \in Request
      BY <1>5 DEF InsertJob, IInv, TypeOK
    <2>2. CASE UNCHANGED jobs
      BY <1>1, <2>1, <2>2
    <2>3. CASE jobs' # jobs
      <3>1. PICK row \in Job : /\ row.state = "queued"
                               /\ Len(jobs) < MaxJobs /\ jobs' = Append(jobs, row)
        <4>1. [template |-> request[r].template, device |-> request[r].device, state |-> "queued",
               recent |-> TRUE, age |-> "fresh"] \in Job
          BY <2>1 DEF Request, Job, JobState
        <4>2. QED
          BY <1>5, <2>3, <4>1 DEF InsertJob
      <3>2. /\ Jobs' = Jobs \cup {Len(jobs) + 1} /\ Len(jobs) + 1 \notin Jobs
            /\ \A k \in Jobs : jobs'[k] = jobs[k]
            /\ jobs'[Len(jobs) + 1].state = "queued"
        BY <3>1, JobInserted DEF IInv
      <3>3. executed \subseteq Jobs
        BY DEF IInv, TypeOK
      <3>4. AgentInv'
        BY <2>1, <3>2 DEF IInv, AgentInv, Handled
      <3>5. HistoryInv'
        BY <2>1, <3>2, <3>3 DEF IInv, HistoryInv
      <3>6. QED
        BY <3>4, <3>5
    <2>4. QED
      BY <2>2, <2>3
  <1>6. ASSUME NEW d \in Agent, ClaimAgentAction(d)
        PROVE  AgentInv' /\ HistoryInv'
    <2>1. PICK j \in Jobs :
             /\ jobs[j].device = d /\ jobs[j].state = "queued"
             /\ SameJobs
             /\ \A k \in Jobs : /\ jobs'[k].state = IF k = j THEN "running" ELSE jobs[k].state
                                /\ jobs'[k].age = jobs[k].age
             /\ agent' = [agent EXCEPT ![d] = [job |-> j, phase |-> "fetched", success |-> FALSE]]
      BY <1>6, ClaimEffect DEF IInv
    <2>2. UNCHANGED executed /\ j \notin executed
      BY <1>6, <2>1 DEF ClaimAgentAction, IInv, HistoryInv
    <2>3. ASSUME NEW e \in Agent \ {d}, agent'[e] # Idle
          PROVE  Handled(e)'
      <3>1. agent'[e] = agent[e]
        BY <2>1, <2>3 DEF IInv, TypeOK
      <3>2. Handled(e)
        BY <2>3, <3>1 DEF IInv, AgentInv
      <3>3. agent[e].job # j
        BY <2>1, <2>3, <3>2 DEF Handled
      <3>4. QED
        BY <2>1, <2>2, <3>1, <3>2, <3>3 DEF Handled, SameJobs
    <2>4. Handled(d)'
      <3>1. agent'[d] = [job |-> j, phase |-> "fetched", success |-> FALSE]
        BY <2>1 DEF IInv, TypeOK
      <3>2. QED
        BY <2>1, <2>2, <3>1 DEF Handled, SameJobs
    <2>5. AgentInv'
      BY <2>3, <2>4 DEF AgentInv
    <2>6. HistoryInv'
      BY <2>1, <2>2 DEF IInv, HistoryInv, SameJobs
    <2>7. QED
      BY <2>5, <2>6
  <1>7. ASSUME NEW d \in Agent, ExecuteSigned(d) \/ \E success \in BOOLEAN : ActionEnds(d, success)
        PROVE  AgentInv' /\ HistoryInv'
    <2>1. /\ UNCHANGED jobs
          /\ agent[d] \in Work /\ Handled(d)
      BY <1>7 DEF ExecuteSigned, ActionEnds, IInv, TypeOK, AgentInv
    <2>2. /\ agent'[d].job = agent[d].job
          /\ agent'[d].phase # "fetched"
          /\ agent'[d].phase = "executing" \/ agent'[d].success => agent[d].job \in executed'
          /\ executed' \in {executed, executed \cup {agent[d].job}}
          /\ executed' # executed => agent[d].phase = "fetched" /\ jobs[agent[d].job].age = "fresh"
      BY <1>7, <2>1 DEF ExecuteSigned, ActionEnds, PayloadValid, IInv, TypeOK, Work, Handled
    <2>3. Handled(d)'
      BY <2>1, <2>2 DEF Handled, Jobs
    <2>4. ASSUME NEW e \in Agent \ {d}, agent'[e] # Idle
          PROVE  Handled(e)'
      <3>1. agent'[e] = agent[e]
        BY <1>7, <2>4 DEF ExecuteSigned, ActionEnds, IInv, TypeOK
      <3>2. Handled(e)
        BY <2>4, <3>1 DEF IInv, AgentInv
      <3>3. agent[e].job # agent[d].job
        BY <2>1, <2>4, <3>2 DEF Handled
      <3>4. QED
        BY <2>1, <2>2, <3>1, <3>2, <3>3 DEF Handled, Jobs
    <2>5. AgentInv'
      BY <2>3, <2>4 DEF AgentInv
    <2>6. HistoryInv'
      <3>1. executed' # executed => jobs[agent[d].job].state = "running"
        BY <2>1, <2>2 DEF Handled
      <3>2. QED
        BY <2>1, <2>2, <3>1 DEF IInv, HistoryInv, Jobs
    <2>7. QED
      BY <2>5, <2>6
  <1>8. ASSUME NEW d \in Agent, PostResult(d)
        PROVE  AgentInv' /\ HistoryInv'
    <2>1. /\ agent' = [agent EXCEPT ![d] = Idle] /\ UNCHANGED executed
          /\ Handled(d)
      BY <1>8 DEF PostResult, IInv, AgentInv
    <2>2. ASSUME NEW e \in Agent, agent'[e] # Idle
          PROVE  Handled(e)'
      <3>1. e # d /\ agent'[e] = agent[e]
        BY <2>1, <2>2 DEF IInv, TypeOK
      <3>2. Handled(e)
        BY <2>2, <3>1 DEF IInv, AgentInv
      <3>3. agent[e].job # agent[d].job
        BY <2>1, <3>1, <3>2 DEF Handled
      <3>4. jobs'[agent[e].job].state = jobs[agent[e].job].state
        BY <1>8, <3>2, <3>3, ResultEffect DEF Handled
      <3>5. QED
        BY <1>8, <2>1, <3>1, <3>2, <3>4, ResultEffect DEF Handled, SameJobs
    <2>3. AgentInv'
      BY <2>2 DEF AgentInv
    <2>4. HistoryInv'
      BY <1>8, <2>1, ResultEffect DEF IInv, HistoryInv, Handled, SameJobs, Outcome
    <2>5. QED
      BY <2>3, <2>4
  <1>9. ASSUME NEW d \in Agent, AgentFails(d)
        PROVE  AgentInv' /\ HistoryInv'
    BY <1>9 DEF AgentFails, IInv, TypeOK, AgentInv, Handled, HistoryInv, Jobs
  <1>10. QED
    <2>1. CASE Requests
      BY <1>1, <2>1, RequestsKeep
    <2>2. CASE UNCHANGED vars
      BY <1>1, <2>2 DEF vars
    <2>3. QED
      BY <1>2, <1>3, <1>4, <1>5, <1>6, <1>7, <1>8, <1>9, <2>1, <2>2 DEF Next, Requests

-----------------------------------------------------------------------------
LEMMA RemediationInvariant == Spec => []IInv
  <1>1. ASSUME Init
        PROVE  IInv
    <2>1. jobs \in Seq(Job) /\ Len(jobs) = 0
      BY <1>1, EmptySeq DEF Init
    <2>2. Jobs = {}
      BY <2>1, LenProperties DEF Jobs
    <2>3. TypeOK
      <3>1. Len(jobs) <= MaxJobs
        BY <2>1
      <3>2. executed \in SUBSET Jobs /\ templates \in SUBSET Template /\ enabled \in BOOLEAN
        BY <1>1 DEF Init
      <3>3. QED
        BY <1>1, <2>1, <3>1, <3>2 DEF Init, TypeOK
    <2>4. QED
      BY <1>1, <2>2, <2>3 DEF Init, IInv, AgentInv, HistoryInv
  <1>2. IInv /\ [Next]_vars => IInv'
    BY TypeStep, InvStep DEF IInv
  <1>3. QED
    BY <1>1, <1>2, PTL DEF Spec

\* The types of the variables hold in every state.
THEOREM RemediationTypes == Spec => []TypeOK
  <1>1. IInv => TypeOK
    BY DEF IInv
  <1>2. QED
    BY <1>1, RemediationInvariant, PTL

\* A cancelled job has never started, a successful one has.
THEOREM HistoryTrue == Spec => []HistoryIsTrue
  <1>1. IInv => HistoryIsTrue
    BY DEF IInv, HistoryInv, HistoryIsTrue
  <1>2. QED
    BY <1>1, RemediationInvariant, PTL

\* Agents start what is running at that moment and nothing else: the lease
\* outlives the payload.
THEOREM StartsRunning == Spec => StartsOnlyRunning
  <1>1. IInv /\ [Next]_vars => [\A j \in executed' \ executed : jobs[j].state = "running"]_vars
    <2>1. SUFFICES ASSUME IInv, Next, NEW j \in executed' \ executed
                   PROVE  jobs[j].state = "running"
      OBVIOUS
    <2>2. PICK d \in Agent : ExecuteSigned(d)
      BY <2>1, RequestsKeep
      DEF Next, Requests, CancelQueued, InsertJob, ClaimAgentAction, ActionEnds, PostResult,
          AgentFails, CooldownEnds, Ages, RunRetention
    <2>3. j = agent[d].job /\ jobs[j].age = "fresh"
      BY <2>1, <2>2 DEF ExecuteSigned, PayloadValid
    <2>4. Handled(d)
      BY <2>1, <2>2 DEF ExecuteSigned, IInv, AgentInv
    <2>5. QED
      BY <2>3, <2>4 DEF Handled
  <1>2. QED
    BY <1>1, RemediationInvariant, PTL DEF Spec, StartsOnlyRunning

\* No job is started a second time.
THEOREM StartedOnce == Spec => StartsOnce
  <1>1. IInv => [\A d \in Agent : ExecuteSigned(d) /\ agent'[d].phase = "executing"
                                    => agent[d].job \notin executed]_vars
    BY DEF IInv, AgentInv, Handled, ExecuteSigned
  <1>2. QED
    BY <1>1, RemediationInvariant, PTL DEF StartsOnce

\* A job that has a final state keeps it.
THEOREM ResultsStay == Spec => ResultsAreFinal
  <1>1. IInv /\ [Next]_vars =>
          [\A j \in Jobs : jobs[j].state \in Final => jobs'[j].state = jobs[j].state]_vars
    <2>1. SUFFICES ASSUME IInv, Next, NEW j \in Jobs, jobs[j].state \in Final
                   PROVE  jobs'[j].state = jobs[j].state
      OBVIOUS
    <2>2. jobs[j].state \notin {"queued", "running"}
      BY <2>1 DEF Final
    <2>3. TypeOK
      BY <2>1 DEF IInv
    <2>4. CASE CancelQueued
      BY <2>2, <2>3, <2>4, CancelEffect DEF Cancelled
    <2>5. CASE RunRetention
      BY <2>2, <2>3, <2>5, RetentionEffect DEF LeaseExpired
    <2>6. ASSUME NEW k \in 1 .. MaxJobs, CooldownEnds(k) \/ Ages(k)
          PROVE  jobs'[j].state = jobs[j].state
      BY <2>3, <2>6, JobAges DEF CooldownEnds, Ages
    <2>7. ASSUME NEW r \in Requester, InsertJob(r)
          PROVE  jobs'[j].state = jobs[j].state
      <3>1. UNCHANGED jobs \/ \E row : jobs' = Append(jobs, row)
        BY <2>7 DEF InsertJob
      <3>2. QED
        BY <2>3, <3>1, RowsType DEF TypeOK
    <2>8. ASSUME NEW d \in Agent, ClaimAgentAction(d)
          PROVE  jobs'[j].state = jobs[j].state
      BY <2>2, <2>3, <2>8, ClaimEffect
    <2>9. ASSUME NEW d \in Agent, PostResult(d)
          PROVE  jobs'[j].state = jobs[j].state
      BY <2>1, <2>2, <2>9, ResultEffect
    <2>10. ASSUME UNCHANGED jobs
           PROVE  jobs'[j].state = jobs[j].state
      BY <2>10
    <2>11. ASSUME NEW d \in Agent, ExecuteSigned(d) \/ AgentFails(d)
                                    \/ \E success \in BOOLEAN : ActionEnds(d, success)
           PROVE  jobs'[j].state = jobs[j].state
      BY <2>10, <2>11 DEF ExecuteSigned, AgentFails, ActionEnds
    <2>12. QED
      BY <2>1, <2>4, <2>5, <2>6, <2>7, <2>8, <2>9, <2>10, <2>11, RequestsKeep DEF Next, Requests
  <1>2. QED
    BY <1>1, RemediationInvariant, PTL DEF Spec, ResultsAreFinal

-----------------------------------------------------------------------------
(* The list of jobs implements JobLife.                                    *)

LEMMA ShownSame ==
    ASSUME Jobs' = Jobs, \A k \in Jobs : jobs'[k].state = jobs[k].state, UNCHANGED executed
    PROVE  UNCHANGED Life!vars
  <1>1. \A k \in 1 .. MaxJobs : Shown(k)' = Shown(k)
    BY DEF Shown
  <1>2. QED
    BY <1>1 DEF Life!vars

LEMMA ShownBecomes ==
    ASSUME NEW j \in Jobs, j \in 1 .. MaxJobs, NEW s, Jobs' = Jobs,
           \A k \in Jobs : jobs'[k].state = IF k = j THEN s ELSE jobs[k].state
    PROVE  Life!Becomes(j, s)
  <1>1. \A k \in 1 .. MaxJobs : Shown(k)' = IF k = j THEN s ELSE Shown(k)
    BY DEF Shown
  <1>2. QED
    BY <1>1 DEF Life!Becomes

LEMMA LifeStep ==
    ASSUME IInv, [Next]_vars
    PROVE  [Life!Next]_(Life!vars)
  <1> USE DEF IInv
  <1>1. ASSUME UNCHANGED <<jobs, executed>>
        PROVE  UNCHANGED Life!vars
    BY <1>1, ShownSame DEF Jobs
  <1>2. CASE CancelQueued
    <2>1. Jobs' = Jobs /\ \A k \in Jobs : jobs'[k].state = Cancelled(jobs[k].state)
      BY <1>2, CancelEffect DEF SameJobs
    <2>2. \A k \in 1 .. MaxJobs : Shown(k)' = IF Shown(k) = "queued" THEN "cancelled" ELSE Shown(k)
      BY <2>1 DEF Shown, Cancelled
    <2>3. Life!CallOff
      BY <1>2, <2>2 DEF Life!CallOff, CancelQueued
    <2>4. QED
      BY <2>3 DEF Life!Next
  <1>3. CASE RunRetention
    <2> DEFINE J == {k \in Jobs : LeaseExpired(jobs[k]) /\ jobs'[k].state = "expired"}
    <2>1. Jobs' = Jobs /\ \A k \in Jobs \ J : jobs'[k].state = jobs[k].state
      BY <1>3, RetentionEffect DEF SameJobs
    <2>2. J \in SUBSET (1 .. MaxJobs)
      BY RowsType
    <2>3. \A k \in J : Shown(k) = "running" /\ Shown(k)' = "expired"
      BY <2>1 DEF Shown, LeaseExpired
    <2>4. \A k \in (1 .. MaxJobs) \ J : Shown(k)' = Shown(k)
      BY <2>1 DEF Shown
    <2>5. UNCHANGED executed
      BY <1>3 DEF RunRetention
    <2> HIDE DEF J
    <2>6. Life!Expire(J)
      BY <2>2, <2>3, <2>4, <2>5 DEF Life!Expire
    <2>7. QED
      BY <2>2, <2>6 DEF Life!Next
  <1>4. ASSUME NEW j \in 1 .. MaxJobs, CooldownEnds(j) \/ Ages(j)
        PROVE  UNCHANGED Life!vars
    BY <1>4, JobAges, ShownSame DEF CooldownEnds, Ages, SameJobs
  <1>5. ASSUME NEW r \in Requester, InsertJob(r)
        PROVE  [Life!Next]_(Life!vars)
    <2>1. UNCHANGED executed /\ request[r] \in Request
      BY <1>5 DEF InsertJob, TypeOK
    <2>2. CASE UNCHANGED jobs
      BY <1>1, <2>1, <2>2
    <2>3. CASE jobs' # jobs
      <3> DEFINE n == Len(jobs) + 1
      <3>1. PICK row \in Job : /\ row.state = "queued"
                               /\ Len(jobs) < MaxJobs /\ jobs' = Append(jobs, row)
        <4>1. [template |-> request[r].template, device |-> request[r].device, state |-> "queued",
               recent |-> TRUE, age |-> "fresh"] \in Job
          BY <2>1 DEF Request, Job, JobState
        <4>2. QED
          BY <1>5, <2>3, <4>1 DEF InsertJob
      <3>2. /\ Jobs' = Jobs \cup {n} /\ n \notin Jobs
            /\ \A k \in Jobs : jobs'[k] = jobs[k]
            /\ jobs'[n].state = "queued"
        BY <3>1, JobInserted
      <3>3. n \in 1 .. MaxJobs
        BY <3>1, RowsType, RemediationAssumption
      <3> HIDE DEF n
      <3>4. /\ Shown(n) = "absent"
            /\ \A k \in 1 .. MaxJobs : Shown(k)' = IF k = n THEN "queued" ELSE Shown(k)
        BY <3>2 DEF Shown
      <3>5. Life!Queue(n)
        BY <2>1, <3>3, <3>4 DEF Life!Queue, Life!Becomes
      <3>6. QED
        BY <3>3, <3>5 DEF Life!Next
    <2>4. QED
      BY <2>2, <2>3
  <1>6. ASSUME NEW d \in Agent, ClaimAgentAction(d)
        PROVE  Life!Next
    <2>1. PICK j \in Jobs :
             /\ jobs[j].state = "queued"
             /\ SameJobs
             /\ \A k \in Jobs : jobs'[k].state = IF k = j THEN "running" ELSE jobs[k].state
      BY <1>6, ClaimEffect
    <2>2. j \in 1 .. MaxJobs
      BY RowsType
    <2>3. Life!Becomes(j, "running")
      BY <2>1, <2>2, ShownBecomes DEF SameJobs
    <2>4. Life!TakeUp(j)
      BY <1>6, <2>1, <2>2, <2>3 DEF Life!TakeUp, Shown, ClaimAgentAction
    <2>5. QED
      BY <2>2, <2>4 DEF Life!Next
  <1>7. ASSUME NEW d \in Agent, ExecuteSigned(d)
        PROVE  [Life!Next]_(Life!vars)
    <2>1. CASE UNCHANGED executed
      BY <1>1, <1>7, <2>1 DEF ExecuteSigned
    <2>2. CASE executed' # executed
      <3>1. PICK j : j = agent[d].job
        OBVIOUS
      <3>2. /\ executed' = executed \cup {j}
            /\ agent[d] # Idle /\ agent[d].phase = "fetched"
            /\ jobs[j].age = "fresh"
            /\ UNCHANGED jobs
        BY <1>7, <2>2, <3>1 DEF ExecuteSigned, PayloadValid
      <3>3. j \in Jobs /\ jobs[j].state = "running" /\ j \notin executed
        BY <3>1, <3>2 DEF AgentInv, Handled
      <3>4. j \in 1 .. MaxJobs /\ Shown(j) = "running"
        BY <3>3, RowsType DEF Shown
      <3>5. \A k \in 1 .. MaxJobs : Shown(k)' = Shown(k)
        BY <3>2 DEF Shown, Jobs
      <3>6. Life!Start(j)
        BY <3>2, <3>3, <3>4, <3>5 DEF Life!Start
      <3>7. QED
        BY <3>4, <3>6 DEF Life!Next
    <2>3. QED
      BY <2>1, <2>2
  <1>8. ASSUME NEW d \in Agent, PostResult(d)
        PROVE  [Life!Next]_(Life!vars)
    <2>1. PICK j \in Jobs : j = agent[d].job
      BY <1>8, ResultEffect
    <2>2. j \in 1 .. MaxJobs /\ UNCHANGED executed
      BY <1>8, RowsType DEF PostResult
    <2>3. /\ SameJobs
          /\ \A k \in Jobs \ {j} : jobs'[k].state = jobs[k].state
          /\ \/ jobs'[j].state = jobs[j].state
             \/ jobs[j].state = "running" /\ jobs'[j].state = Outcome(agent[d].success)
      BY <1>8, <2>1, ResultEffect
    <2>4. CASE jobs'[j].state = jobs[j].state
      BY <2>2, <2>3, <2>4, ShownSame DEF SameJobs
    <2>5. CASE jobs'[j].state # jobs[j].state
      <3>1. Life!Becomes(j, Outcome(agent[d].success))
        BY <2>2, <2>3, <2>5, ShownBecomes DEF SameJobs
      <3>2. Shown(j) = "running"
        BY <2>3, <2>5 DEF Shown
      <3>3. CASE agent[d].success
        <4>1. j \in executed
          BY <1>8, <2>1, <3>3 DEF PostResult, AgentInv, Handled
        <4>2. Life!Succeed(j)
          BY <2>2, <3>1, <3>2, <3>3, <4>1 DEF Life!Succeed, Outcome
        <4>3. QED
          BY <2>2, <4>2 DEF Life!Next
      <3>4. CASE ~agent[d].success
        <4>1. Life!Fail(j)
          BY <2>2, <3>1, <3>2, <3>4 DEF Life!Fail, Outcome
        <4>2. QED
          BY <2>2, <4>1 DEF Life!Next
      <3>5. QED
        BY <3>3, <3>4
    <2>6. QED
      BY <2>4, <2>5
  <1>9. QED
    <2>1. CASE Requests
      BY <1>1, <2>1, RequestsKeep
    <2>2. CASE UNCHANGED vars
      BY <1>1, <2>2 DEF vars
    <2>3. ASSUME NEW d \in Agent, AgentFails(d) \/ \E success \in BOOLEAN : ActionEnds(d, success)
          PROVE  UNCHANGED Life!vars
      BY <1>1, <2>3 DEF AgentFails, ActionEnds
    <2>4. QED
      BY <1>2, <1>3, <1>4, <1>5, <1>6, <1>7, <1>8, <2>1, <2>2, <2>3 DEF Next, Requests

\* The list of jobs is an implementation of JobLife: three statements to queue a
\* job, two to throw the switch, claims, lost answers, late results, leases and
\* retention show as being queued, taken up, started and ended once.
THEOREM JobsKeepTheirLife == Spec => KeepsJobLife
  <1>1. Init => Life!Init
    <2>1. SUFFICES ASSUME Init
                   PROVE  Life!Init
      OBVIOUS
    <2>2. Jobs = {}
      BY <2>1, EmptySeq, LenProperties DEF Init, Jobs
    <2>3. \A k \in 1 .. MaxJobs : Shown(k) = "absent"
      BY <2>2 DEF Shown
    <2>4. QED
      BY <2>1, <2>3 DEF Init, Life!Init
  <1>2. IInv /\ [Next]_vars => [Life!Next]_(Life!vars)
    BY LifeStep
  <1>3. QED
    BY <1>1, <1>2, RemediationInvariant, PTL DEF Spec, KeepsJobLife, Life!Spec

-----------------------------------------------------------------------------
(* The connections QueueAutomaticRemediation and its neighbours work with: *)
(* ConnectionPool, for any sizes it admits.                                *)

CONSTANTS MaxConns, Repair, Assignments, MaxRows, Check
VARIABLES phase, left, due

Pool == INSTANCE ConnectionPool

\* What the module of the pool assumes of its constants.
Sizes == Pool!PoolAssumption /\ Pool!TaskAssumption

LEMMA SizesMean ==
    ASSUME Sizes
    PROVE  /\ MaxConns \in Nat \ {0} /\ MaxRows \in Nat
           /\ IsFiniteSet(Repair) /\ IsFiniteSet(Assignments)
  BY DEF Sizes, Pool!PoolAssumption, Pool!TaskAssumption, Pool!IsFiniteSet, IsFiniteSet

\* The instance counts as FiniteSets does.
LEMMA PoolCardinality == \A S : Pool!Cardinality(S) = Cardinality(S)
  BY DEF Pool!Cardinality, Cardinality

\* The loops are finitely many, and so are those that keep a connection.
LEMMA HoldersFinite ==
    ASSUME Sizes
    PROVE  IsFiniteSet(Pool!Task) /\ IsFiniteSet(Pool!Holders) /\ Cardinality(Pool!Holders) \in Nat
  <1>1. IsFiniteSet(Pool!Task)
    BY SizesMean, FS_Union DEF Pool!Task
  <1>2. Pool!Holders \subseteq Pool!Task
    BY DEF Pool!Holders
  <1>3. QED
    BY <1>1, <1>2, FS_Subset, FS_CardinalityType

\* A loop that opens its rows keeps one connection more.
LEMMA OneMore ==
    ASSUME Sizes, Pool!TypeOK, NEW t \in Pool!Task, Pool!OpenRows(t)
    PROVE  /\ Pool!Holders' = Pool!Holders \cup {t}
           /\ Cardinality(Pool!Holders') = Cardinality(Pool!Holders) + 1
  <1>1. phase' = [phase EXCEPT ![t] = "rows"] /\ phase[t] = "query"
    BY DEF Pool!OpenRows
  <1>2. Pool!Holders' = Pool!Holders \cup {t} /\ t \notin Pool!Holders
    BY <1>1 DEF Pool!Holders, Pool!TypeOK
  <1>3. QED
    BY <1>2, HoldersFinite, FS_AddElement

\* Every other step keeps the connections that are kept, or gives some back.
LEMMA NoMore ==
    ASSUME Sizes, Pool!TypeOK, Pool!Holders' \subseteq Pool!Holders
    PROVE  Cardinality(Pool!Holders') <= MaxConns
  <1>1. /\ Cardinality(Pool!Holders') <= Cardinality(Pool!Holders)
        /\ Cardinality(Pool!Holders') \in Nat
    BY HoldersFinite, FS_Subset, FS_CardinalityType
  <1>2. QED
    BY <1>1, HoldersFinite, SizesMean, PoolCardinality DEF Pool!TypeOK

LEMMA PoolStep ==
    ASSUME Sizes, Pool!TypeOK, [Pool!Next]_(Pool!vars)
    PROVE  Pool!TypeOK'
  <1>1. CASE UNCHANGED Pool!vars
    BY <1>1 DEF Pool!vars, Pool!TypeOK, Pool!Holders
  <1>2. ASSUME NEW t \in Pool!Task, Pool!Start(t)
        PROVE  Pool!TypeOK'
    <2>1. Pool!Holders' \subseteq Pool!Holders
      BY <1>2 DEF Pool!Start, Pool!Holders, Pool!TypeOK
    <2>2. QED
      BY <1>2, <2>1, NoMore, SizesMean, PoolCardinality DEF Pool!Start, Pool!TypeOK
  <1>3. ASSUME NEW t \in Pool!Task, Pool!AskSetting(t)
        PROVE  Pool!TypeOK'
    <2>1. PICK on \in BOOLEAN : phase' = [phase EXCEPT ![t] = IF on THEN "query" ELSE "idle"]
      BY <1>3 DEF Pool!AskSetting
    <2>2. Pool!Holders' \subseteq Pool!Holders
      BY <2>1 DEF Pool!Holders, Pool!TypeOK
    <2>3. QED
      BY <1>3, <2>1, <2>2, NoMore, SizesMean, PoolCardinality DEF Pool!AskSetting, Pool!TypeOK
  <1>4. ASSUME NEW t \in Pool!Task, Pool!OpenRows(t)
        PROVE  Pool!TypeOK'
    <2>1. Cardinality(Pool!Holders) < MaxConns
      BY <1>4, HoldersFinite, SizesMean, PoolCardinality DEF Pool!OpenRows, Pool!Free
    <2>2. Cardinality(Pool!Holders') <= MaxConns
      BY <1>4, <2>1, OneMore, HoldersFinite, SizesMean
    <2>3. QED
      BY <1>4, <2>2, PoolCardinality DEF Pool!OpenRows, Pool!TypeOK
  <1>5. ASSUME NEW t \in Pool!Task, Pool!NestedStatement(t)
        PROVE  Pool!TypeOK'
    <2>1. left[t] - 1 \in 0 .. MaxRows
      BY <1>5, SizesMean DEF Pool!NestedStatement, Pool!TypeOK
    <2>2. Pool!Holders' \subseteq Pool!Holders
      BY <1>5 DEF Pool!NestedStatement, Pool!Holders
    <2>3. QED
      BY <1>5, <2>1, <2>2, NoMore, SizesMean, PoolCardinality DEF Pool!NestedStatement, Pool!TypeOK
  <1>6. ASSUME NEW t \in Pool!Task, Pool!CloseRows(t)
        PROVE  Pool!TypeOK'
    <2>1. Pool!Holders' \subseteq Pool!Holders
      BY <1>6 DEF Pool!CloseRows, Pool!Holders, Pool!TypeOK
    <2>2. QED
      BY <1>6, <2>1, NoMore, SizesMean, PoolCardinality DEF Pool!CloseRows, Pool!TypeOK
  <1>7. ASSUME NEW t \in Pool!Task, Pool!GiveUp(t)
        PROVE  Pool!TypeOK'
    <2>1. Pool!Holders' \subseteq Pool!Holders
      BY <1>7 DEF Pool!GiveUp, Pool!Holders, Pool!TypeOK
    <2>2. QED
      BY <1>7, <2>1, NoMore, SizesMean, PoolCardinality DEF Pool!GiveUp, Pool!TypeOK
  <1>8. ASSUME NEW c \in Check, Pool!BecomeDue(c) \/ Pool!ClaimDue(c)
        PROVE  Pool!TypeOK'
    <2>1. Pool!Holders' \subseteq Pool!Holders
      BY <1>8 DEF Pool!BecomeDue, Pool!ClaimDue, Pool!Holders
    <2>2. QED
      BY <1>8, <2>1, NoMore, SizesMean, PoolCardinality DEF Pool!BecomeDue, Pool!ClaimDue, Pool!TypeOK
  <1>9. QED
    BY <1>1, <1>2, <1>3, <1>4, <1>5, <1>6, <1>7, <1>8 DEF Pool!Next

\* Loops keep no more connections than there are, whatever they wait for: who
\* opens rows takes a free connection, and who gives up gives its own back.
THEOREM PoolTypes ==
    ASSUME Sizes
    PROVE  Pool!Spec => []Pool!TypeOK
  <1>1. Pool!Init => Pool!TypeOK
    <2> SUFFICES ASSUME Pool!Init PROVE Pool!TypeOK
      OBVIOUS
    <2>1. Pool!Holders = {}
      BY DEF Pool!Init, Pool!Holders
    <2>2. Cardinality(Pool!Holders) = 0
      BY <2>1, FS_EmptySet
    <2>3. QED
      BY <2>2, SizesMean, PoolCardinality DEF Pool!Init, Pool!TypeOK
  <1>2. Pool!TypeOK /\ [Pool!Next]_(Pool!vars) => Pool!TypeOK'
    BY PoolStep
  <1>3. QED
    BY <1>1, <1>2, PTL DEF Pool!Spec

\* The rule for the size of the pool: with more connections than goroutines that
\* never give up, whenever all are kept one is kept by a request that will.
THEOREM SomebodyGivesUp ==
    ASSUME Sizes, Cardinality(Repair) < MaxConns
    PROVE  Pool!Spec => [](Pool!Free <= 0 => \E t \in Assignments : phase[t] = "rows")
  <1>1. Pool!TypeOK => (Pool!Free <= 0 => \E t \in Assignments : phase[t] = "rows")
    <2>1. SUFFICES ASSUME Pool!TypeOK, \A t \in Assignments : phase[t] # "rows"
                   PROVE  Pool!Free > 0
      BY SizesMean, HoldersFinite, PoolCardinality DEF Pool!Free
    <2>2. Pool!Holders \subseteq Repair
      BY <2>1 DEF Pool!Holders, Pool!Task
    <2>3. Cardinality(Pool!Holders) <= Cardinality(Repair) /\ Cardinality(Repair) \in Nat
      BY <2>2, SizesMean, FS_Subset, FS_CardinalityType
    <2>4. QED
      BY <2>3, HoldersFinite, SizesMean, PoolCardinality DEF Pool!Free
  <1>2. QED
    BY <1>1, PoolTypes, PTL

\* All connections are kept by remediation goroutines which have yet a template
\* to ask about.
Exhausted ==
    /\ Pool!Free <= 0
    /\ Pool!Holders \subseteq Repair
    /\ \A t \in Pool!Holders : left[t] > 0

\* A step that opens and closes no rows, and causes no nested statement.
LEMMA ExhaustedFrame ==
    ASSUME Exhausted, Pool!Holders' = Pool!Holders,
           \A u \in Pool!Holders : left'[u] = left[u]
    PROVE  Exhausted'
  BY DEF Exhausted, Pool!Free

LEMMA ExhaustedStays ==
    ASSUME Sizes, Pool!DisjointAssumption, Pool!TypeOK, Exhausted, [Pool!Next]_(Pool!vars)
    PROVE  Exhausted' /\ due \subseteq due'
  <1>1. ~(Pool!Free > 0)
    BY SizesMean, HoldersFinite, PoolCardinality DEF Exhausted, Pool!Free
  <1>2. CASE UNCHANGED Pool!vars
    BY <1>2, ExhaustedFrame DEF Pool!vars, Pool!Holders
  <1>3. ASSUME NEW t \in Pool!Task, Pool!Start(t)
        PROVE  Exhausted' /\ due \subseteq due'
    <2>1. Pool!Holders' = Pool!Holders
      BY <1>3 DEF Pool!Start, Pool!Holders, Pool!TypeOK
    <2>2. QED
      BY <1>3, <2>1, ExhaustedFrame DEF Pool!Start
  <1>4. ASSUME NEW t \in Pool!Task, Pool!CloseRows(t)
        PROVE  FALSE
    BY <1>4 DEF Pool!CloseRows, Exhausted, Pool!Holders
  <1>5. ASSUME NEW t \in Pool!Task, Pool!GiveUp(t)
        PROVE  Exhausted' /\ due \subseteq due'
    <2>1. t \notin Pool!Holders
      BY <1>5 DEF Exhausted, Pool!GiveUp, Pool!DisjointAssumption
    <2>2. Pool!Holders' = Pool!Holders
      BY <1>5, <2>1 DEF Pool!GiveUp, Pool!Holders, Pool!TypeOK
    <2>3. \A u \in Pool!Holders : left'[u] = left[u]
      BY <1>5, <2>1 DEF Pool!GiveUp, Pool!Holders, Pool!TypeOK
    <2>4. QED
      BY <1>5, <2>2, <2>3, ExhaustedFrame DEF Pool!GiveUp
  <1>6. ASSUME NEW c \in Check, Pool!BecomeDue(c)
        PROVE  Exhausted' /\ due \subseteq due'
    BY <1>6, ExhaustedFrame DEF Pool!BecomeDue, Pool!Holders
  <1>7. QED
    BY <1>1, <1>2, <1>3, <1>4, <1>5, <1>6
       DEF Pool!Next, Pool!AskSetting, Pool!OpenRows, Pool!NestedStatement, Pool!ClaimDue

\* What the run finding_pool_deadlock shows for two connections holds for every
\* number of them: once the goroutines of QueueAutomaticRemediation keep the
\* whole pool and each still has to ask for one more, it stays so, and no check
\* that is due is claimed any more.
THEOREM ExhaustedForEver ==
    ASSUME Sizes, Pool!DisjointAssumption
    PROVE  Pool!Spec => [](Exhausted => [](Exhausted) /\ [][due \subseteq due']_(Pool!vars))
  <1>1. Pool!TypeOK /\ Exhausted /\ [Pool!Next]_(Pool!vars)
          => Exhausted' /\ [due \subseteq due']_(Pool!vars)
    BY ExhaustedStays
  <1>2. QED
    BY <1>1, PoolTypes, PTL DEF Pool!Spec
=============================================================================
