---------------------------- MODULE Remediation ----------------------------
(***************************************************************************)
(* Remediation jobs: requests of operators and of the check engine queue   *)
(* them in three separate statements, the global kill switch cancels them  *)
(* in two, the agent of the device claims, executes and reports them, and  *)
(* the retention job expires those whose lease has run out.                *)
(*                                                                         *)
(* An action is one statement, one transaction, or one step of the agent   *)
(* process.  Time is the age of a job: its payload is "fresh" for five     *)
(* minutes after the claim, its lease is "overdue" after ten.              *)
(***************************************************************************)
EXTENDS Naturals, Sequences, FiniteSets

CONSTANTS
    Template,   \* action templates
    Automatic,  \* those executed for failing checks
    Agent,      \* devices with an enrolled agent
    Requester,  \* bound: requests in flight at one time
    MaxJobs,    \* bound: jobs ever queued
    Idle        \* no request, or an agent without an action

ASSUME RemediationAssumption == Automatic \subseteq Template /\ MaxJobs \in Nat

VARIABLES
    enabled,    \* remediation_settings.enabled
    switching,  \* SetRemediationEnabled(false) between its two statements
    templates,  \* action_templates that are enabled
    jobs,       \* remediation_jobs, in the order of queued_at
    request,    \* what each request goroutine is doing
    agent,      \* what each agent process is doing
    executed    \* jobs whose executable an agent has started

vars == <<enabled, switching, templates, jobs, request, agent, executed>>

-----------------------------------------------------------------------------
JobState == {"queued", "running", "succeeded", "failed", "cancelled", "expired"}
Final == {"succeeded", "failed", "cancelled", "expired"}

\* recent: queued in the last ten minutes.  age: time since the claim.
Job == [template : Template, device : Agent, state : JobState,
        recent : BOOLEAN, age : {"fresh", "stale", "overdue"}]

\* left: the templates still to be queued; the first statement of
\* QueueRemediation comes next ("setting"), the second, or the third.
Request == [device : Agent, left : SUBSET Template, template : Template,
            step : {"setting", "cooldown", "insert"}]

Work == [job : 1..MaxJobs, phase : {"fetched", "executing", "done"}, success : BOOLEAN]

Jobs == DOMAIN jobs

Init ==
    /\ enabled \in BOOLEAN
    /\ switching = FALSE
    /\ templates = Template
    /\ jobs = <<>>
    /\ request = [r \in Requester |-> Idle]
    /\ agent = [d \in Agent |-> Idle]
    /\ executed = {}

-----------------------------------------------------------------------------
(* The kill switch and the templates.                                      *)

\* SetRemediationEnabled, its first statement (bound: one such request at a
\* time).
SetEnabled(value) ==
    /\ ~switching
    /\ enabled' = value
    /\ switching' = ~value
    /\ UNCHANGED <<templates, jobs, request, agent, executed>>

\* Its error is kept for later, and the second statement comes all the same.
SetEnabledFails ==
    /\ ~switching
    /\ switching' = TRUE
    /\ UNCHANGED <<enabled, templates, jobs, request, agent, executed>>

\* Mutant: jobs an agent has claimed already are cancelled too.
Cancelled_Running(state) == IF state \in {"queued", "running"} THEN "cancelled" ELSE state

Cancelled(state) == IF state = "queued" THEN "cancelled" ELSE state

\* Its second statement.
CancelQueued ==
    /\ switching
    /\ switching' = FALSE
    /\ jobs' = [j \in Jobs |-> [jobs[j] EXCEPT !.state = Cancelled(@)]]
    /\ UNCHANGED <<enabled, templates, request, agent, executed>>

\* The second statement fails, unnoticed, or the server stops before it.
CancelFails ==
    /\ switching
    /\ switching' = FALSE
    /\ UNCHANGED <<enabled, templates, jobs, request, agent, executed>>

\* DeleteActionTemplate: nothing enables a template again.
DeleteActionTemplate(t) ==
    /\ t \in templates
    /\ templates' = templates \ {t}
    /\ UNCHANGED <<enabled, switching, jobs, request, agent, executed>>

-----------------------------------------------------------------------------
(* QueueRemediation.                                                       *)

\* A request goroutine goes on with one of the templates, or is done.
NextTemplate(d, left) ==
    IF left = {} THEN {Idle}
    ELSE {[device |-> d, left |-> left \ {t}, template |-> t, step |-> "setting"] : t \in left}

\* POST /remediation-jobs, for a template and a device an operator chooses.
QueueManually(r, t, d) ==
    /\ request[r] = Idle
    /\ request' = [request EXCEPT ![r] = [device |-> d, left |-> {}, template |-> t, step |-> "setting"]]
    /\ UNCHANGED <<enabled, switching, templates, jobs, agent, executed>>

\* QueueAutomaticRemediation up to its loop.
QueueAutomaticRemediation(r, d) ==
    /\ request[r] = Idle
    /\ enabled
    /\ \E q \in NextTemplate(d, Automatic \cap templates) : request' = [request EXCEPT ![r] = q]
    /\ UNCHANGED <<enabled, switching, templates, jobs, agent, executed>>

\* The request leaves QueueRemediation, with a job or with an error.
Leave(r) ==
    \E q \in NextTemplate(request[r].device, request[r].left) : request' = [request EXCEPT ![r] = q]

RemediationEnabled(r) ==
    /\ request[r] # Idle
    /\ request[r].step = "setting"
    /\ IF enabled THEN request' = [request EXCEPT ![r].step = "cooldown"] ELSE Leave(r)
    /\ UNCHANGED <<enabled, switching, templates, jobs, agent, executed>>

\* A job of this template and device was queued in the last ten minutes.
Recent(t, d) == \E j \in Jobs : jobs[j].template = t /\ jobs[j].device = d /\ jobs[j].recent

CheckCooldown(r) ==
    /\ request[r] # Idle
    /\ request[r].step = "cooldown"
    /\ IF Recent(request[r].template, request[r].device)
       THEN Leave(r)
       ELSE request' = [request EXCEPT ![r].step = "insert"]
    /\ UNCHANGED <<enabled, switching, templates, jobs, agent, executed>>

\* The unique index remediation_one_active.
OneActive(t, d) ==
    \E j \in Jobs : jobs[j].template = t /\ jobs[j].device = d
                      /\ jobs[j].state \in {"queued", "running"}

InsertJob(r) ==
    /\ request[r] # Idle
    /\ request[r].step = "insert"
    /\ LET t == request[r].template
           d == request[r].device
       IN IF t \in templates /\ ~OneActive(t, d)
          THEN /\ Len(jobs) < MaxJobs
               /\ jobs' = Append(jobs, [template |-> t, device |-> d, state |-> "queued",
                                        recent |-> TRUE, age |-> "fresh"])
          ELSE jobs' = jobs
    /\ Leave(r)
    /\ UNCHANGED <<enabled, switching, templates, agent, executed>>

\* A statement fails, the client goes away or the server stops.
RequestFails(r) ==
    /\ request[r] # Idle
    /\ request' = [request EXCEPT ![r] = Idle]
    /\ UNCHANGED <<enabled, switching, templates, jobs, agent, executed>>

-----------------------------------------------------------------------------
(* The agent: processActions and its two requests.                         *)

\* Mutant: the template of the oldest queued job is looked at after the choice.
Claimable_Head(d) ==
    {j \in Jobs : /\ jobs[j].device = d /\ jobs[j].state = "queued"
                  /\ jobs[j].template \in templates
                  /\ \A k \in 1..(j - 1) : jobs[k].device = d => jobs[k].state # "queued"}

Claimable(d) == {j \in Jobs : jobs[j].device = d /\ jobs[j].state = "queued"
                                /\ jobs[j].template \in templates}

\* Mutant: the claimed job stays queued until its result is in.
ClaimAgentAction_LeavesQueued(d) ==
    /\ agent[d] = Idle
    /\ enabled
    /\ \E j \in Claimable(d) :
         agent' = [agent EXCEPT ![d] = [job |-> j, phase |-> "fetched", success |-> FALSE]]
    /\ UNCHANGED <<enabled, switching, templates, jobs, request, executed>>

\* ClaimAgentAction: the oldest queued job of the device.
ClaimAgentAction(d) ==
    /\ agent[d] = Idle
    /\ enabled
    /\ \E j \in Claimable(d) :
         /\ \A k \in Claimable(d) : j <= k
         /\ jobs' = [jobs EXCEPT ![j].state = "running"]
         /\ agent' = [agent EXCEPT ![d] = [job |-> j, phase |-> "fetched", success |-> FALSE]]
    /\ UNCHANGED <<enabled, switching, templates, request, executed>>

\* Mutant: the payload does not expire.
PayloadValid_Always(j) == j \in Jobs

\* time.Now().Unix() > ExpiresAt, the clocks of server and agent agreeing to
\* within the five minutes between the two limits.
PayloadValid(j) == jobs[j].age = "fresh"

\* executeSigned starts the executable, or answers "action expired".
ExecuteSigned(d) ==
    /\ agent[d] # Idle
    /\ agent[d].phase = "fetched"
    /\ IF PayloadValid(agent[d].job)
       THEN /\ agent' = [agent EXCEPT ![d].phase = "executing"]
            /\ executed' = executed \cup {agent[d].job}
       ELSE /\ agent' = [agent EXCEPT ![d].phase = "done"]
            /\ UNCHANGED executed
    /\ UNCHANGED <<enabled, switching, templates, jobs, request>>

\* The executable ends, or its timeout does it.
ActionEnds(d, success) ==
    /\ agent[d] # Idle
    /\ agent[d].phase = "executing"
    /\ agent' = [agent EXCEPT ![d].phase = "done", ![d].success = success]
    /\ UNCHANGED <<enabled, switching, templates, jobs, request, executed>>

Outcome(success) == IF success THEN "succeeded" ELSE "failed"

\* Mutant: a result is accepted whatever the job's state.
CompleteAgentAction_AnyState(j, success) == [jobs EXCEPT ![j].state = Outcome(success)]

\* CompleteAgentAction: only a running job takes a result.
CompleteAgentAction(j, success) ==
    IF jobs[j].state = "running" THEN [jobs EXCEPT ![j].state = Outcome(success)] ELSE jobs

\* The result is posted; the answer does not matter, for it is not retried.
PostResult(d) ==
    /\ agent[d] # Idle
    /\ agent[d].phase = "done"
    /\ jobs' = CompleteAgentAction(agent[d].job, agent[d].success)
    /\ agent' = [agent EXCEPT ![d] = Idle]
    /\ UNCHANGED <<enabled, switching, templates, request, executed>>

\* The response to the claim or the result is lost, or the agent stops.
AgentFails(d) ==
    /\ agent[d] # Idle
    /\ agent' = [agent EXCEPT ![d] = Idle]
    /\ UNCHANGED <<enabled, switching, templates, jobs, request, executed>>

-----------------------------------------------------------------------------
(* Time.                                                                   *)

\* Ten minutes since the job was queued.
CooldownEnds(j) ==
    /\ j \in Jobs
    /\ jobs[j].recent
    /\ jobs' = [jobs EXCEPT ![j].recent = FALSE]
    /\ UNCHANGED <<enabled, switching, templates, request, agent, executed>>

\* Five minutes since the claim, then ten: by then the cooldown is over.
Ages(j) ==
    /\ j \in Jobs
    /\ jobs[j].state = "running"
    /\ \/ /\ jobs[j].age = "fresh"
          /\ jobs' = [jobs EXCEPT ![j].age = "stale"]
       \/ /\ jobs[j].age = "stale" /\ ~jobs[j].recent
          /\ jobs' = [jobs EXCEPT ![j].age = "overdue"]
    /\ UNCHANGED <<enabled, switching, templates, request, agent, executed>>

\* Mutant: the sweep is for jobs no agent has asked for.
LeaseExpired_Queued(row) == row.state = "queued" /\ row.age = "overdue"

LeaseExpired(row) == row.state = "running" /\ row.age = "overdue"

\* RunRetention, at start and every day; its deletion of old finished jobs
\* is left out.
RunRetention ==
    /\ \E j \in Jobs : LeaseExpired(jobs[j])
    /\ jobs' = [j \in Jobs |-> [jobs[j] EXCEPT !.state = IF LeaseExpired(jobs[j]) THEN "expired" ELSE @]]
    /\ UNCHANGED <<enabled, switching, templates, request, agent, executed>>

-----------------------------------------------------------------------------
Next ==
    \/ \E value \in BOOLEAN : SetEnabled(value)
    \/ SetEnabledFails
    \/ CancelQueued
    \/ CancelFails
    \/ \E t \in Template : DeleteActionTemplate(t)
    \/ \E r \in Requester, t \in Template, d \in Agent : QueueManually(r, t, d)
    \/ \E r \in Requester, d \in Agent : QueueAutomaticRemediation(r, d)
    \/ \E r \in Requester : RemediationEnabled(r)
    \/ \E r \in Requester : CheckCooldown(r)
    \/ \E r \in Requester : InsertJob(r)
    \/ \E r \in Requester : RequestFails(r)
    \/ \E d \in Agent : ClaimAgentAction(d)
    \/ \E d \in Agent : ExecuteSigned(d)
    \/ \E d \in Agent, success \in BOOLEAN : ActionEnds(d, success)
    \/ \E d \in Agent : PostResult(d)
    \/ \E d \in Agent : AgentFails(d)
    \/ \E j \in 1..MaxJobs : CooldownEnds(j)
    \/ \E j \in 1..MaxJobs : Ages(j)
    \/ RunRetention

Spec == Init /\ [][Next]_vars

-----------------------------------------------------------------------------
(* Safety.                                                                 *)

\* Types of the variables.
TypeOK ==
    /\ enabled \in BOOLEAN
    /\ switching \in BOOLEAN
    /\ templates \in SUBSET Template
    /\ jobs \in Seq(Job)
    /\ Len(jobs) <= MaxJobs
    /\ request \in [Requester -> Request \cup {Idle}]
    /\ agent \in [Agent -> Work \cup {Idle}]
    /\ executed \in SUBSET Jobs

\* An agent starts an executable only for a job that is running at that moment,
\* although the claim, the kill switch, the lease and the start are four
\* separate steps: what is shown as cancelled or expired was not started after
\* it became so.
StartsOnlyRunning ==
    [][\A j \in executed' \ executed : jobs[j].state = "running"]_vars

\* An executable is started once for each job at the most: neither a lost
\* response nor a restarted agent makes the server hand it out again.
StartsOnce ==
    [][\A d \in Agent : ExecuteSigned(d) /\ agent'[d].phase = "executing"
                          => agent[d].job \notin executed]_vars

\* The result that is shown stays: a late answer of the agent, the retention
\* job and the kill switch leave finished jobs alone.
ResultsAreFinal ==
    [][\A j \in Jobs : jobs[j].state \in Final => jobs'[j].state = jobs[j].state]_vars

\* What the history says about the executable: a cancelled job never started,
\* a successful one did.
HistoryIsTrue ==
    \A j \in Jobs : /\ jobs[j].state = "cancelled" => j \notin executed
                    /\ jobs[j].state = "succeeded" => j \in executed

-----------------------------------------------------------------------------
(* What the list of jobs promises.                                         *)

\* The state of a job, before and after it has a row.
Shown(j) == IF j \in Jobs THEN jobs[j].state ELSE "absent"

Life == INSTANCE JobLife WITH
    Job     <- 1..MaxJobs,
    state   <- [j \in 1..MaxJobs |-> Shown(j)],
    started <- executed

\* Requests, switch, agents, clocks and retention together do nothing to a job
\* that its history would not show, and nothing its history denies.
KeepsJobLife == Life!Spec

-----------------------------------------------------------------------------
(* Liveness.                                                               *)

AgentSteps(d) ==
    \/ ExecuteSigned(d)
    \/ \E success \in BOOLEAN : ActionEnds(d, success)
    \/ PostResult(d)
    \/ AgentFails(d)

\* The agent polls and its executable ends, the retention job comes round and
\* time passes; agents may fail without end.
Fairness ==
    /\ WF_vars(RunRetention)
    /\ \A j \in 1..MaxJobs : WF_vars(CooldownEnds(j)) /\ WF_vars(Ages(j))
    /\ \A d \in Agent : SF_vars(ClaimAgentAction(d)) /\ WF_vars(AgentSteps(d))

FairSpec == Spec /\ Fairness

InState(j, S) == j \in Jobs /\ jobs[j].state \in S

\* A job some agent has claimed gets a final state, also when the response or
\* the result is lost: it does not block its template for ever.
RunningJobsEnd == \A j \in 1..MaxJobs : InState(j, {"running"}) ~> InState(j, Final)

\* A queued job is taken up or cancelled as long as remediation stays enabled
\* and its template is wanted, also when an older job of another template on
\* its device is being executed, is lost with its agent, or stays queued for
\* ever because its template is gone.
QueuedJobsMove ==
    \A j \in 1..MaxJobs :
        InState(j, {"queued"}) ~>
            (~InState(j, {"queued"}) \/ ~enabled \/ jobs[j].template \notin templates)
=============================================================================
