------------------------------- MODULE Scheduler ------------------------------
(***************************************************************************)
(* The Erlang scheduler of a node: the coordinator that owns the           *)
(* connection to the agent, the generator, and one process per job.        *)
(* A message from a process to the coordinator is sent and handled in one  *)
(* step; the lines of the agent wait in toErlang until the coordinator     *)
(* gets to them, those it passed on in the mailbox of the job.             *)
(***************************************************************************)
EXTENDS Naturals, Sequences

CONSTANTS
    MaxId,        \* bound: the generator stops after this many jobs
    Heartbeat,    \* the jobs that ask for their status after 15 s of waiting
    MaxBacklog,   \* bound: no heartbeat while a connection holds this many lines
    Prompt        \* the jobs whose lines all arrive within the second that work
                  \* takes at least

VARIABLES
    toAgent,      \* lines on the way to the agent
    toErlang,     \* lines on the way from it
    coord,        \* the coordinator: "up", "closed" (it ended) or "crashed"
    jobsMap,      \* the ids in Jobs_Map
    genPid,       \* does the coordinator know whom to send the NODES to?
    gen,          \* the generator: "ask", "wait", "empty" or "parsed"
    nextId,       \* the id it gives to the next job
    job,          \* what each job process is doing
    mail          \* the mailbox of each job process

\* The generator counts from 1001.
Ids == 1001..(1000 + MaxId)

schedVars == <<coord, jobsMap, genPid, gen, nextId, job, mail>>

Range(s) == {s[k] : k \in DOMAIN s}

Line(op, arg) == [op |-> op, arg |-> arg]

Init ==
    /\ toAgent = <<>>
    /\ toErlang = <<>>
    /\ coord = "up"
    /\ jobsMap = {}
    /\ genPid = FALSE
    /\ gen = "ask"
    /\ nextId = 1001
    /\ job = [i \in Ids |-> "none"]
    /\ mail = [i \in Ids |-> <<>>]

\* gen_tcp:send by the coordinator on behalf of a process.  A message to a
\* coordinator that is gone is lost.
Send(op, arg) ==
    toAgent' = IF coord = "up" THEN Append(toAgent, Line(op, arg)) ELSE toAgent

-----------------------------------------------------------------------------
(* job_generator.                                                           *)

AskNodes ==
    /\ gen = "ask" /\ nextId \in Ids
    /\ Send("GET_NODES", 0)
    /\ genPid' = (genPid \/ coord = "up")
    /\ gen' = "wait"
    /\ UNCHANGED <<toErlang, coord, jobsMap, nextId, job, mail>>

\* No nodes are known yet: sleep, then ask again with the same id.
NoNodes ==
    /\ gen = "empty"
    /\ gen' = "ask"
    /\ UNCHANGED <<toAgent, toErlang, coord, jobsMap, genPid, nextId, job, mail>>

Spawn ==
    /\ gen = "parsed"
    /\ job' = [job EXCEPT ![nextId] = "spawned"]
    /\ nextId' = nextId + 1
    /\ gen' = "ask"
    /\ UNCHANGED <<toAgent, toErlang, coord, jobsMap, genPid, mail>>

-----------------------------------------------------------------------------
(* job and job_loop.                                                        *)

\* job/3: register with the coordinator, which sends JOB_REQUEST.  The first
\* time after spawn, later after the sleep that follows a timeout.
Register(i) ==
    /\ job[i] \in {"spawned", "relaunch"}
    /\ Send("JOB_REQUEST", i)
    /\ jobsMap' = IF coord = "up" THEN jobsMap \union {i} ELSE jobsMap
    /\ job' = [job EXCEPT ![i] = "waiting"]
    /\ UNCHANGED <<toErlang, coord, genPid, gen, nextId, mail>>

\* The receive of job_loop takes the oldest message.
Receive(i) ==
    /\ job[i] = "waiting"
    /\ mail[i] # <<>>
    /\ mail' = [mail EXCEPT ![i] = Tail(@)]
    /\ job' = [job EXCEPT ![i] =
            CASE Head(mail[i]) = "granted" -> "working"
              [] Head(mail[i]) = "timeout" -> "relaunch"
              [] Head(mail[i]) \in {"denied", "cancelled"} -> "dead"]
    /\ UNCHANGED <<toAgent, toErlang, coord, jobsMap, genPid, gen, nextId>>

\* Fault: JOB_RELEASE is not sent.
FinishOnly(i) ==
    /\ job[i] = "working"
    /\ i \in Prompt /\ coord = "up" => \A l \in Range(toAgent \o toErlang) : l.arg # i
    /\ job' = [job EXCEPT ![i] = "done"]
    /\ jobsMap' = IF coord = "up" THEN jobsMap \ {i} ELSE jobsMap
    /\ UNCHANGED <<toAgent, toErlang, coord, genPid, gen, nextId, mail>>

\* The work is done: the coordinator sends JOB_RELEASE and forgets the job.
Finish(i) ==
    /\ job[i] = "working"
    /\ i \in Prompt /\ coord = "up" => \A l \in Range(toAgent \o toErlang) : l.arg # i
    /\ job' = [job EXCEPT ![i] = "done"]
    /\ Send("JOB_RELEASE", i)
    /\ jobsMap' = IF coord = "up" THEN jobsMap \ {i} ELSE jobsMap
    /\ UNCHANGED <<toErlang, coord, genPid, gen, nextId, mail>>

\* Nothing arrived for 15 s.
Status(i) ==
    /\ i \in Heartbeat
    /\ job[i] = "waiting" /\ mail[i] = <<>>
    /\ Len(toAgent) < MaxBacklog /\ Len(toErlang) < MaxBacklog
    /\ Send("JOB_STATUS", i)
    /\ UNCHANGED <<toErlang, schedVars>>

-----------------------------------------------------------------------------
(* coordinator_loop, for the lines of the agent.                            *)

\* What a process that has ended is sent is lost.
Deliver(S, m) ==
    mail' = [i \in Ids |-> IF i \in S /\ job[i] \notin {"done", "dead"}
                             THEN Append(mail[i], m) ELSE mail[i]]

\* The coordinator takes a line whose op is in ops.
Take(ops) ==
    /\ coord = "up"
    /\ toErlang # <<>>
    /\ Head(toErlang).op \in ops
    /\ toErlang' = Tail(toErlang)
    /\ UNCHANGED <<jobsMap, nextId, job>>

\* The coordinator ends, and its socket with it.
End(how) ==
    /\ coord' = how
    /\ toAgent' = Append(toAgent, Line("eof", 0))

\* Fault: the job is sent the line instead of the atom.
AnswerRaw ==
    LET m == Head(toErlang) IN
    /\ Take({"JOB_GRANTED", "JOB_DENIED", "JOB_TIMEOUT"})
    /\ IF m.arg \in jobsMap
         THEN Deliver({m.arg}, m.op) /\ UNCHANGED <<coord, toAgent>>
         ELSE End("crashed") /\ UNCHANGED mail
    /\ UNCHANGED <<genPid, gen>>

\* Fault: a denied job leaves Jobs_Map.
AnswerForgets ==
    LET m == Head(toErlang) IN
    /\ coord = "up" /\ toErlang # <<>>
    /\ m.op \in {"JOB_GRANTED", "JOB_DENIED", "JOB_TIMEOUT"}
    /\ toErlang' = Tail(toErlang)
    /\ IF m.arg \in jobsMap
         THEN /\ Deliver({m.arg}, CASE m.op = "JOB_GRANTED" -> "granted"
                                    [] m.op = "JOB_DENIED"  -> "denied"
                                    [] m.op = "JOB_TIMEOUT" -> "timeout")
              /\ jobsMap' = IF m.op = "JOB_DENIED" THEN jobsMap \ {m.arg} ELSE jobsMap
              /\ UNCHANGED <<coord, toAgent>>
         ELSE End("crashed") /\ UNCHANGED <<mail, jobsMap>>
    /\ UNCHANGED <<nextId, job, genPid, gen>>

\* msg_to_job: maps:get fails, and the coordinator with it, if the id is unknown.
Answer ==
    LET m == Head(toErlang) IN
    /\ Take({"JOB_GRANTED", "JOB_DENIED", "JOB_TIMEOUT"})
    /\ IF m.arg \in jobsMap
         THEN /\ Deliver({m.arg}, CASE m.op = "JOB_GRANTED" -> "granted"
                                    [] m.op = "JOB_DENIED"  -> "denied"
                                    [] m.op = "JOB_TIMEOUT" -> "timeout")
              /\ UNCHANGED <<coord, toAgent>>
         ELSE End("crashed") /\ UNCHANGED mail
    /\ UNCHANGED <<genPid, gen>>

Waiting == Take({"WAITING"}) /\ UNCHANGED <<toAgent, coord, genPid, gen, mail>>

\* GenPid ! {nodes, Rest}: sending to undefined fails.
Nodes ==
    /\ Take({"NODES"})
    /\ IF genPid
         THEN /\ gen' = IF Head(toErlang).arg > 0 THEN "parsed" ELSE "empty"
              /\ UNCHANGED <<coord, toAgent>>
         ELSE End("crashed") /\ UNCHANGED gen
    /\ genPid' = FALSE
    /\ UNCHANGED mail

\* tcp_closed or tcp_error: every registered job is cancelled, the loop ends.
Closed ==
    /\ Take({"tcp_closed"})
    /\ Deliver(jobsMap, "cancelled")
    /\ End("closed")
    /\ UNCHANGED <<genPid, gen>>

JobStep(i) == Register(i) \/ Receive(i) \/ Finish(i)

Coordinate == Answer \/ Waiting \/ Nodes \/ Closed

Generate == AskNodes \/ NoNodes \/ Spawn

Next == Generate \/ Coordinate \/ \E i \in Ids : JobStep(i) \/ Status(i)
=============================================================================
