----------------------------- MODULE JobLifecycle -----------------------------
(* A scheduler and the agent it is connected to, the agent as JobAgent      *)
(* describes it: what each of the two believes about a job.                 *)
EXTENDS Scheduler

CONSTANTS
    NReq,         \* how many resources each job asks for
    Timeouts,     \* the jobs that can wait for longer than JOB_TIMEOUT_SEC
    MayDie        \* can the agent or the connection to it be lost?

VARIABLES status, link

Agent == INSTANCE JobAgent

ASSUME LifecycleAssumption ==
    /\ MaxId \in Nat /\ MaxBacklog \in Nat
    /\ NReq \in [Ids -> Nat]
    /\ Heartbeat \subseteq Ids /\ Prompt \subseteq Ids /\ Timeouts \subseteq Ids
    /\ MayDie \in BOOLEAN

vars == <<toAgent, toErlang, schedVars, status, link>>

LInit == Init /\ Agent!Init

LNext ==
    \/ Next /\ UNCHANGED <<status, link>>
    \/ Agent!Next /\ UNCHANGED schedVars
    \/ MayDie /\ Agent!Die /\ UNCHANGED schedVars

LSpec == LInit /\ [][LNext]_vars

\* Every process keeps running and the agent keeps reading; a job that waits is
\* granted if it waits, or is relaunched, for ever.
LFairness ==
    /\ WF_vars(Generate /\ UNCHANGED <<status, link>>)
    /\ WF_vars(Coordinate /\ UNCHANGED <<status, link>>)
    /\ \A i \in Ids : WF_vars(JobStep(i) /\ UNCHANGED <<status, link>>)
    /\ WF_vars(Agent!Command /\ UNCHANGED schedVars)
    /\ \A i \in Ids : SF_vars(Agent!Grant(i) /\ UNCHANGED schedVars)

LFairSpec == LSpec /\ LFairness

-----------------------------------------------------------------------------
(* Properties.                                                              *)

\* The types of the variables.
LTypeOK ==
    /\ coord \in {"up", "closed", "crashed"}
    /\ jobsMap \subseteq Ids
    /\ genPid \in BOOLEAN
    /\ gen \in {"ask", "wait", "empty", "parsed"}
    /\ nextId \in Ids \union {1001 + MaxId}
    /\ job \in [Ids -> {"none", "spawned", "waiting", "working", "relaunch",
                         "done", "dead"}]
    /\ \A i \in Ids : Range(mail[i]) \subseteq {"granted", "denied", "timeout", "cancelled"}
    /\ status \in [Ids -> {"none", "waiting", "granted"}]
    /\ link \in {"open", "eof", "dead"}

\* The coordinator loops until the connection closes (coordinator_loop's "Loops
\* indefinetly"): no line of the agent makes it fail.
CoordinatorUp == coord # "crashed"

\* A job works only while the agent holds every resource of it (job_loop's granted
\* branch, and the agent's tables), unless the agent itself is gone.
WorkIsBacked ==
    \A i \in Ids : job[i] = "working" /\ link = "open" => status[i] = "granted"

\* Resources the agent holds for a job are given back some day: the job works, or
\* the news of the grant or of the end of the work is still on its way
\* (job_loop, {finished, JobId}, JOB_RELEASE).
HeldHasOwner ==
    \A i \in Ids : status[i] = "granted" /\ link = "open" /\ coord = "up" =>
        \/ job[i] = "working"
        \/ /\ job[i] = "waiting"
           /\ \/ Line("JOB_GRANTED", i) \in Range(toErlang)
              \/ "granted" \in Range(mail[i])
        \/ Line("JOB_RELEASE", i) \in Range(toAgent)

\* The agent is never asked for a job it still has: tablahash_insert would destroy
\* the old one without releasing what it holds (JOB_REQUEST, destr_localjob).
RequestIsNew ==
    toAgent # <<>> /\ Head(toAgent).op = "JOB_REQUEST"
        => status[Head(toAgent).arg] = "none"

\* Every job that was created comes to its end, granted, worked and released, or
\* denied, through any number of timeouts, unless the coordinator ends before
\* (job_loop, and the agent's answers to every command and every timeout).
EveryJobEnds ==
    \A i \in Ids : job[i] = "spawned" ~> job[i] \in {"done", "dead"} \/ coord # "up"
=============================================================================
