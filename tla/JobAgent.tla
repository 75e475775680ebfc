------------------------------- MODULE JobAgent -------------------------------
(***************************************************************************)
(* What an agent promises its scheduler about the jobs it was given: every *)
(* command is handled in one step, and a job is unknown, waiting for its   *)
(* resources or holding all of them.  LocalJobs is the agent in detail.    *)
(***************************************************************************)
EXTENDS Naturals, Sequences

CONSTANTS
    Ids,        \* job ids
    NReq,       \* how many resources each job asks for
    Timeouts    \* the jobs that can wait for longer than JOB_TIMEOUT_SEC

VARIABLES
    toAgent,    \* lines the scheduler sent and the agent has not read
    toErlang,   \* lines the agent sent and the scheduler has not read
    status,     \* "none", "waiting" or "granted"
    link        \* "open", "eof" (the scheduler hung up) or "dead" (the agent
                \* is gone)

Line(op, arg) == [op |-> op, arg |-> arg]

Init ==
    /\ status = [i \in Ids |-> "none"]
    /\ link = "open"

\* C_to_erlang: after a hang-up erlangfd is -1 and the line is lost.
Say(op, arg) ==
    toErlang' = IF link = "open" THEN Append(toErlang, Line(op, arg)) ELSE toErlang

\* The agent takes command op from the connection.
Take(op) ==
    /\ link = "open"
    /\ toAgent # <<>>
    /\ Head(toAgent).op = op
    /\ toAgent' = Tail(toAgent)

\* JOB_REQUEST: a job with nothing to ask for is denied.  A job that is already
\* known starts over.
JobRequest ==
    LET i == Head(toAgent).arg IN
    /\ Take("JOB_REQUEST")
    /\ IF NReq[i] = 0
         THEN Say("JOB_DENIED", i) /\ UNCHANGED status
         ELSE status' = [status EXCEPT ![i] = "waiting"] /\ UNCHANGED toErlang
    /\ UNCHANGED link

JobRelease ==
    /\ Take("JOB_RELEASE")
    /\ status' = [status EXCEPT ![Head(toAgent).arg] = "none"]
    /\ UNCHANGED <<toErlang, link>>

\* Fault: a waiting job is reported as granted.
JobStatusEager ==
    LET i == Head(toAgent).arg IN
    /\ Take("JOB_STATUS")
    /\ Say(IF status[i] = "none" THEN "JOB_TIMEOUT" ELSE "JOB_GRANTED", i)
    /\ UNCHANGED <<status, link>>

\* JOB_STATUS: there is no answer for an unknown job but JOB_TIMEOUT.
JobStatus ==
    LET i == Head(toAgent).arg IN
    /\ Take("JOB_STATUS")
    /\ Say(CASE status[i] = "none"    -> "JOB_TIMEOUT"
             [] status[i] = "waiting" -> "WAITING"
             [] status[i] = "granted" -> "JOB_GRANTED", i)
    /\ UNCHANGED <<status, link>>

\* GET_NODES: how many nodes are known is up to discovery.
GetNodes ==
    /\ Take("GET_NODES")
    /\ \E known \in 0..1 : Say("NODES", known)
    /\ UNCHANGED <<status, link>>

\* message_from_erlang, end of file: the jobs stay in the tables, the providers
\* stay reserved.
HangUp ==
    /\ Take("eof")
    /\ link' = "eof"
    /\ UNCHANGED <<toErlang, status>>

\* The last provider granted.
Grant(i) ==
    /\ link # "dead" /\ status[i] = "waiting"
    /\ status' = [status EXCEPT ![i] = "granted"]
    /\ Say("JOB_GRANTED", i)
    /\ UNCHANGED <<toAgent, link>>

\* A provider was lost before it answered.
Deny(i) ==
    /\ link # "dead" /\ status[i] = "waiting"
    /\ status' = [status EXCEPT ![i] = "none"]
    /\ Say("JOB_DENIED", i)
    /\ UNCHANGED <<toAgent, link>>

\* Fault: the job is told to relaunch but not dropped.
TimeoutKept(i) ==
    /\ i \in Timeouts
    /\ link # "dead" /\ status[i] = "waiting"
    /\ Say("JOB_TIMEOUT", i)
    /\ UNCHANGED <<toAgent, status, link>>

\* Fault: the job is dropped and nobody is told.
TimeoutSilent(i) ==
    /\ i \in Timeouts
    /\ link # "dead" /\ status[i] = "waiting"
    /\ status' = [status EXCEPT ![i] = "none"]
    /\ UNCHANGED <<toAgent, toErlang, link>>

\* The sweep found the job waiting for too long.
Timeout(i) ==
    /\ i \in Timeouts
    /\ link # "dead" /\ status[i] = "waiting"
    /\ status' = [status EXCEPT ![i] = "none"]
    /\ Say("JOB_TIMEOUT", i)
    /\ UNCHANGED <<toAgent, link>>

Command == JobRequest \/ JobRelease \/ JobStatus \/ GetNodes \/ HangUp

Next ==
    \/ Command
    \/ \E i \in Ids : Grant(i) \/ Deny(i) \/ Timeout(i)

\* The agent exits, or its connection to the scheduler breaks.
Die ==
    /\ link = "open"
    /\ link' = "dead"
    /\ toErlang' = Append(toErlang, Line("tcp_closed", 0))
    /\ UNCHANGED <<toAgent, status>>
=============================================================================
