------------------------------- MODULE NodeJobs -------------------------------
(* A scheduler and the client half of its agent in detail, and that the two *)
(* implement JobLifecycle.                                                   *)
EXTENDS Scheduler

CONSTANTS NReq, Workers, MaxBatch, Fds, Ptrs, Timeouts, Faults, Abrupt, NoFd, NoPtr

VARIABLES heap, localjobs, ourjobs, conn, want, inbox, epoll, wk

Client == INSTANCE LocalJobs

ASSUME NodeAssumption ==
    /\ MaxId \in Nat /\ MaxBacklog \in Nat /\ MaxBatch \in Nat \ {0}
    /\ NReq \in [Ids -> Nat]
    /\ Heartbeat \subseteq Ids /\ Prompt \subseteq Ids /\ Timeouts \subseteq Ids
    /\ {Faults, Abrupt} \subseteq BOOLEAN
    /\ Ptrs \subseteq Nat
    /\ NoFd \notin Fds /\ NoPtr \notin Ptrs

localVars == <<heap, localjobs, ourjobs, conn, want, inbox, epoll, wk>>

vars == <<toAgent, toErlang, schedVars, localVars>>

NInit == Init /\ Client!Init

\* The second that work takes at least is also enough for a worker to answer what
\* it was asked about the job and to finish with the job's connections.
Settled ==
    LET busy == {w \in Workers : wk[w].events # <<>>}
        served == {Head(wk[w].events).fd : w \in busy}
        asked == {wk[w].line.arg : w \in {w \in busy : wk[w].pc = "status"}} IN
    \A i \in Prompt : job[i] = "working" /\ job'[i] = "done" =>
        /\ i \notin asked
        /\ \A p \in {localjobs[i]} \ {NoPtr} : heap[p].held \intersect served = {}

NNext ==
    \/ Next /\ Settled /\ UNCHANGED localVars
    \/ Client!Next /\ UNCHANGED schedVars

NSpec == NInit /\ [][NNext]_vars

-----------------------------------------------------------------------------
(* The refinement.  A job is granted once the scheduler was told, and gone   *)
(* from the moment the agent has told the scheduler or has begun to release  *)
(* it.  A JOB_STATUS that is being answered still counts as unread.          *)

status == [i \in Ids |->
    LET p == localjobs[i]
        By(pcs) == \E w \in Workers : wk[w].ptr = p /\ wk[w].pc \in pcs
        Leaving == \E w \in Workers : wk[w].ptr = p /\ wk[w].why = "release" IN
    IF p = NoPtr THEN "none"
    ELSE IF By({"free"}) \/ Leaving THEN "none"
    ELSE IF heap[p].todo > 0 \/ By({"drop", "ask"}) THEN "waiting"
    ELSE "granted"]

Unanswered ==
    LET busy == {w \in Workers : wk[w].pc = "status"} IN
    IF busy = {} THEN <<>> ELSE <<wk[CHOOSE w \in busy : TRUE].line>>

Lifecycle == INSTANCE JobLifecycle WITH
    toAgent <- Unanswered \o toAgent,
    link <- "open",
    MayDie <- FALSE,
    Prompt <- {},
    MaxBacklog <- MaxBacklog + 1

\* The agent does to every job what JobAgent says, in spite of its threads, tables
\* and connections.
ImplementsLifecycle == Lifecycle!LSpec

-----------------------------------------------------------------------------
(* What the client half guarantees, see LocalJobs.                          *)

\* The variables of the client half have their types.
NTypeOK == Client!TypeOK

\* No worker reads a freed job (tablahash_find in utils.c, timer.c, loopfunc.c and
\* communications.c).
NoDangling == Client!NoDangling

\* An entry of table_ourjobs leads to the live job that waits for the descriptor.
IndexIsCurrent == Client!IndexIsCurrent

\* No connection to a provider is forgotten while it is open.
NoLeakedConnection == Client!NoLeakedConnection

\* What release_resources will close is still open, and still this job's.
HeldIsOpen == Client!HeldIsOpen

\* check_ourjob_timeouts gives up on jobs that wait only.
TimeoutIsStuck == Client!TimeoutIsStuck

\* A RESERVE that a job waits for was sent, or will be.
RequestIsSent == Client!RequestIsSent

\* EPOLLONESHOT keeps two workers off one connection.
OneWorkerPerConnection == Client!OneWorkerPerConnection
=============================================================================
