-------------------------------- MODULE Cluster --------------------------------
(***************************************************************************)
(* Several agents and the jobs that ask them for resources.  A job asks    *)
(* for the resources of its JOB_REQUEST one at a time and keeps what it    *)
(* was granted while it waits for the next, so jobs can wait for each      *)
(* other in a circle; a job that waits too long is timed out, gives up     *)
(* what it holds and is relaunched by its scheduler.                       *)
(*                                                                         *)
(* The pool of a node takes one step where the worker threads of           *)
(* ResourcePool take several: ResourcePool shows that these steps are      *)
(* taken to their end and that no request that fits is left behind.  The   *)
(* client of a job takes one step where LocalJobs takes several.           *)
(***************************************************************************)
EXTENDS Integers, Sequences, FiniteSets, FiniteSetsExt

CONSTANTS
    Nodes,     \* the agents
    Jobs,      \* the jobs in the cluster, each with an id of its own
    NTypes,    \* resource types; 1, 2, 3 stand for cpu, mem, gpu
    Capacity,  \* what every node owns of each type
    Fds,       \* descriptors an agent can hand out for inbound connections
    Plans,     \* the lists of resources each job may come with
    Together,  \* how many jobs the sweeps of the agents time out at one moment
    MaxQueue,  \* bound: requests in one FIFO
    NoJob, NoFd, Unknown

Types == 1..NTypes

\* One "@ip:type:amount" of a JOB_REQUEST.
Steps == [node : Nodes, type : Types, amount : Nat \ {0}]

Requests == [job : Jobs, fd : Fds, amount : Nat \ {0}]

Keys == Jobs \X (Fds \union {Unknown})

Entries == [granted : [Types -> Nat], fd : Fds \union {NoFd}]

NoEntry == [granted |-> [t \in Types |-> 0], fd |-> NoFd]

Stages == {"new", "asking", "waiting", "answered", "running", "timedout", "done"}

ASSUME ClusterAssumption ==
    /\ NTypes \in Nat \ {0}
    /\ Capacity \in [Types -> Nat]
    /\ Plans \in [Jobs -> SUBSET (Seq(Steps) \ {<<>>})]
    /\ Together \in Nat
    /\ MaxQueue \in Nat
    /\ NoJob \notin Jobs
    /\ NoFd \notin Fds
    /\ Unknown \notin Fds

VARIABLES
    plan,     \* the resources of each job, in the order it asks for them
    stage,    \* where each job is
    conn,     \* its connections, one for each resource asked for so far:
              \* the descriptors at the provider's end
    left,     \* the pool of each node: what is free of each type,
    queue,    \* the FIFO of each type,
    table,    \* table_nodejobs by job id and peer,
    sock,     \* and the job behind each open descriptor
    expired   \* history: has a job of the cluster ever timed out?

pool == <<left, queue, table, sock>>
vars == <<plan, stage, conn, pool, expired>>

Init ==
    /\ plan \in [Jobs -> UNION {Plans[j] : j \in Jobs}]
    /\ \A j \in Jobs : plan[j] \in Plans[j]
    /\ stage = [j \in Jobs |-> "new"]
    /\ conn = [j \in Jobs |-> <<>>]
    /\ left = [n \in Nodes |-> Capacity]
    /\ queue = [n \in Nodes |-> [t \in Types |-> <<>>]]
    /\ table = [n \in Nodes |-> [k \in Keys |-> NoEntry]]
    /\ sock = [n \in Nodes |-> [f \in Fds |-> NoJob]]
    /\ expired = FALSE

\* The resource a job asked for last, and its connection to the provider.
Asked(j) == plan[j][Len(conn[j])]
FdOf(j) == conn[j][Len(conn[j])]

\* Does the client of a job still have this connection open?
Up(n, f) ==
    /\ sock[n][f] # NoJob
    /\ \E i \in DOMAIN conn[sock[n][f]] :
          /\ conn[sock[n][f]][i] = f
          /\ plan[sock[n][f]][i].node = n

-----------------------------------------------------------------------------
(* The client of a job.                                                     *)

\* JOB_REQUEST, the first or after a timeout.
Request(j) ==
    /\ stage[j] \in {"new", "timedout"}
    /\ stage' = [stage EXCEPT ![j] = "asking"]
    /\ UNCHANGED <<plan, conn, pool, expired>>

\* ask_for_next_resource connects to the next provider, which accepts on any
\* free descriptor, reads the RESERVE and queues it.
Reserve(j, f) ==
    LET next == plan[j][Len(conn[j]) + 1]
    IN  /\ stage[j] = "asking"
        /\ sock[next.node][f] = NoJob
        /\ Len(queue[next.node][next.type]) < MaxQueue
        /\ stage' = [stage EXCEPT ![j] = "waiting"]
        /\ conn' = [conn EXCEPT ![j] = Append(@, f)]
        /\ sock' = [sock EXCEPT ![next.node][f] = j]
        /\ queue' = [queue EXCEPT ![next.node][next.type] =
                Append(@, [job |-> j, fd |-> f, amount |-> next.amount])]
        /\ UNCHANGED <<plan, left, table, expired>>

\* GRANTED arrives: the next resource, or the job runs.
Granted(j) ==
    /\ stage[j] = "answered"
    /\ stage' = [stage EXCEPT ![j] =
            IF Len(conn[j]) = Len(plan[j]) THEN "running" ELSE "asking"]
    /\ UNCHANGED <<plan, conn, pool, expired>>

\* The work is done: JOB_RELEASE, and release_resources closes every
\* connection.
Finish(j) ==
    /\ stage[j] = "running"
    /\ stage' = [stage EXCEPT ![j] = "done"]
    /\ conn' = [conn EXCEPT ![j] = <<>>]
    /\ UNCHANGED <<plan, pool, expired>>

-----------------------------------------------------------------------------
(* The pool of a node.                                                      *)

\* Fault: the amount is not compared.
HeadThere(n, t) == queue[n][t] # <<>>

\* Fault: the last unit is never granted.
HeadFitsWell(n, t) ==
    queue[n][t] # <<>> /\ left[n][t] > Head(queue[n][t]).amount

HeadFits(n, t) ==
    queue[n][t] # <<>> /\ left[n][t] >= Head(queue[n][t]).amount

\* Fault: the answer of getpeername is not used.
NoPeer(n, f) == {Unknown}

\* getpeername on the descriptor of a request: it fails on one that was
\* closed, and may fail on one whose peer has gone.
PeerOf(n, f) ==
    (IF Up(n, f) THEN {} ELSE {Unknown}) \union
    (IF sock[n][f] = NoJob THEN {} ELSE {f})

\* The job whose agent takes a GRANTED with this id on this descriptor.
Answered(n, req) ==
    {j \in Jobs : /\ stage[j] = "waiting"
                  /\ Asked(j).node = n
                  /\ FdOf(j) = req.fd
                  /\ j = req.job}

\* Fault: every type ends up in the last branch.
RecordLast(e, t, req) ==
    [granted |-> [e.granted EXCEPT ![NTypes] = @ + req.amount], fd |-> req.fd]

\* record_granted adds the request to what the entry has.
Record(e, t, req) ==
    [granted |-> [e.granted EXCEPT ![t] = @ + req.amount], fd |-> req.fd]

\* drain_queue with record_granted and the GRANTED it sends.
Grant(n, t, p) ==
    LET req == Head(queue[n][t])
        k   == <<req.job, p>>
    IN  /\ HeadFits(n, t)
        /\ p \in PeerOf(n, req.fd)
        /\ queue' = [queue EXCEPT ![n][t] = Tail(@)]
        /\ left' = [left EXCEPT ![n][t] = @ - req.amount]
        /\ table' = [table EXCEPT ![n][k] = Record(@, t, req)]
        /\ stage' = [j \in Jobs |->
                IF j \in Answered(n, req) THEN "answered" ELSE stage[j]]
        /\ UNCHANGED <<plan, conn, sock, expired>>

\* What release_client_by_fd finds under a descriptor.
Amount(n, f, t) ==
    MapThenSumSet(LAMBDA k : table[n][k].granted[t],
                  {k \in Keys : table[n][k].fd = f})

\* The provider sees the connection close: release_client_by_fd, then close.
\* A request of the connection that is still queued stays in the queue.
Reclaim(n, f) ==
    /\ sock[n][f] # NoJob
    /\ ~Up(n, f)
    /\ left' = [left EXCEPT ![n] = [t \in Types |-> @[t] + Amount(n, f, t)]]
    /\ table' = [table EXCEPT ![n] =
            [k \in Keys |-> IF @[k].fd = f THEN NoEntry ELSE @[k]]]
    /\ sock' = [sock EXCEPT ![n][f] = NoJob]
    /\ UNCHANGED <<plan, stage, conn, queue, expired>>

-----------------------------------------------------------------------------
(* The timeout of a job.                                                    *)

CanReserve(j) ==
    LET next == plan[j][Len(conn[j]) + 1]
    IN  /\ stage[j] = "asking"
        /\ Len(queue[next.node][next.type]) < MaxQueue
        /\ \E f \in Fds : sock[next.node][f] = NoJob

\* JOB_TIMEOUT_SEC is longer than every message and than the work of a job:
\* a job that waits that long does so in a cluster in which nothing moves.
Stuck ==
    /\ \A j \in Jobs : \/ stage[j] \in {"waiting", "done"}
                       \/ stage[j] = "asking" /\ ~CanReserve(j)
    /\ \A n \in Nodes, t \in Types : ~HeadFits(n, t)
    /\ \A n \in Nodes, f \in Fds : sock[n][f] # NoJob => Up(n, f)

\* Fault: only the connection of the unanswered request is closed.
TimeoutKeeps(S) ==
    /\ Stuck
    /\ S # {} /\ Cardinality(S) <= Together
    /\ \A j \in S : stage[j] = "waiting"
    /\ stage' = [j \in Jobs |-> IF j \in S THEN "timedout" ELSE stage[j]]
    /\ conn' = [j \in Jobs |->
            IF j \in S THEN SubSeq(conn[j], 1, Len(conn[j]) - 1) ELSE conn[j]]
    /\ expired' = TRUE
    /\ UNCHANGED <<plan, pool>>

\* check_ourjob_timeouts: the jobs that still wait for a resource give up what
\* they hold and close their connections; their schedulers will relaunch them.
Timeout(S) ==
    /\ Stuck
    /\ S # {} /\ Cardinality(S) <= Together
    /\ \A j \in S : stage[j] \in {"asking", "waiting"}
    /\ stage' = [j \in Jobs |-> IF j \in S THEN "timedout" ELSE stage[j]]
    /\ conn' = [j \in Jobs |-> IF j \in S THEN <<>> ELSE conn[j]]
    /\ expired' = TRUE
    /\ UNCHANGED <<plan, pool>>

Next ==
    \/ \E j \in Jobs : Request(j) \/ Granted(j) \/ Finish(j)
    \/ \E j \in Jobs, f \in Fds : Reserve(j, f)
    \/ \E n \in Nodes, t \in Types, p \in Fds \union {Unknown} : Grant(n, t, p)
    \/ \E n \in Nodes, f \in Fds : Reclaim(n, f)
    \/ \E S \in SUBSET Jobs : Timeout(S)

Spec == Init /\ [][Next]_vars

\* Threads run, messages arrive, work ends; a scheduler relaunches a job that
\* timed out.  The sweep runs every five seconds: a job that is waiting in one
\* stuck state after the other is timed out in one of them.
Fairness ==
    /\ \A j \in Jobs :
          /\ WF_vars(Request(j))
          /\ WF_vars(\E f \in Fds : Reserve(j, f))
          /\ WF_vars(Granted(j))
          /\ WF_vars(Finish(j))
          /\ SF_vars(\E S \in SUBSET Jobs : j \in S /\ Timeout(S))
    /\ \A n \in Nodes :
          /\ \A t \in Types : WF_vars(\E p \in Fds \union {Unknown} : Grant(n, t, p))
          /\ \A f \in Fds : WF_vars(Reclaim(n, f))

FairSpec == Spec /\ Fairness

-----------------------------------------------------------------------------
(* What the cluster promises.                                               *)

TypeOK ==
    /\ plan \in [Jobs -> Seq(Steps)]
    /\ stage \in [Jobs -> Stages]
    /\ conn \in [Jobs -> Seq(Fds)]
    /\ left \in [Nodes -> [Types -> Nat]]
    /\ queue \in [Nodes -> [Types -> Seq(Requests)]]
    /\ table \in [Nodes -> [Keys -> Entries]]
    /\ sock \in [Nodes -> [Fds -> Jobs \union {NoJob}]]
    /\ expired \in BOOLEAN

Ordered(p) == \A a, b \in DOMAIN p : a < b => p[a].type < p[b].type

Waits(j, n, t) ==
    /\ stage[j] = "waiting"
    /\ Asked(j).node = n
    /\ Asked(j).type = t

\* The resource is on record under a connection that is still the job's.
Holds(j, n, t) ==
    \E f \in Fds, k \in Keys :
        /\ sock[n][f] = j /\ Up(n, f)
        /\ table[n][k].fd = f
        /\ table[n][k].granted[t] > 0

\* Job j is at place i of the FIFO with the request it is waiting for.
At(j, n, t, i) ==
    /\ Waits(j, n, t)
    /\ queue[n][t][i].job = j
    /\ queue[n][t][i].fd = FdOf(j)

Ahead(k, j, n, t) ==
    \E a \in DOMAIN queue[n][t] :
        /\ At(k, n, t, a)
        /\ \A b \in DOMAIN queue[n][t] : At(j, n, t, b) => a < b

\* Every job of S waits for a job of S.
CircularWait(S) ==
    /\ S # {}
    /\ \A j \in S : \E k \in S, n \in Nodes, t \in Types :
          Waits(j, n, t) /\ (Holds(k, n, t) \/ Ahead(k, j, n, t))

\* Asking in the order cpu, mem, gpu prevents circular waits: until a job
\* times out, every circle of waiting jobs has one that asked out of order.
OrderPreventsCircularWait ==
    ~expired => \A S \in SUBSET Jobs :
        CircularWait(S) => \E j \in S : ~Ordered(plan[j])

\* When every job asks in that order, none is ever timed out.
OrderPreventsTimeouts == (\A j \in Jobs : Ordered(plan[j])) => ~expired

\* The plan asks no node twice.
OnePerNode(p) == \A a, b \in DOMAIN p : p[a].node = p[b].node => a = b

\* A job that runs has every resource of its plan on record at the provider,
\* under its own id and the connection it will release.  Once a job was timed
\* out, this is so for the jobs that ask no node for two resources: GRANTED
\* names the job only, and a request from before the timeout can answer for the
\* other resource on a descriptor that was reused.
RunIsBacked ==
    \A j \in Jobs : stage[j] = "running" /\ (~expired \/ OnePerNode(plan[j])) =>
        \A i \in DOMAIN plan[j] :
            table[plan[j][i].node][<<j, conn[j][i]>>].granted[plan[j][i].type]
                >= plan[j][i].amount

\* The timeout breaks the circular waits that the order of the requests
\* alone brings about, and one of the jobs then runs.
SurvivorRuns ==
    \A S \in SUBSET Jobs \ {{}} :
        (~expired /\ CircularWait(S)) ~> (\E j \in S : stage[j] = "running")

\* A job that was timed out and relaunched runs in the end.  Only behaviours
\* in which no FIFO reaches the bound count.
TimedOutJobRuns ==
    [](\A n \in Nodes, t \in Types : Len(queue[n][t]) < MaxQueue) =>
        \A j \in Jobs : stage[j] = "timedout" ~> stage[j] = "running"
=============================================================================
