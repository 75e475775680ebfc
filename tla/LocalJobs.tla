------------------------------- MODULE LocalJobs ------------------------------
(***************************************************************************)
(* The client half of an agent: its worker threads reserve, one provider   *)
(* after the other, the resources of the jobs that the scheduler asks for. *)
(* table_localjobs owns the jobs, table_ourjobs finds the job by the       *)
(* descriptor of the request in flight; tablahash_find returns a pointer   *)
(* that is used after the table's lock is released.  A step of a worker is *)
(* what it does under one lock, or one system call.                        *)
(*                                                                         *)
(* A job that was freed is never read: the worker stops there, and         *)
(* NoDangling says that it does not happen.                                *)
(***************************************************************************)
EXTENDS Naturals, Sequences, FiniteSets

CONSTANTS
    Ids,        \* job ids
    NReq,       \* how many resources each job asks for
    Workers,    \* the threads that run event_loop
    MaxBatch,   \* how many events one epoll_wait can return
    Fds,        \* descriptors for outbound connections
    Ptrs,       \* addresses of local_job_t
    Timeouts,   \* the jobs that can wait for longer than JOB_TIMEOUT_SEC
    Faults,     \* can connections fail, and providers refuse or hang up?
    Abrupt,     \* can a provider hang up while its GRANTED is being handled?
    NoFd, NoPtr

VARIABLES
    toAgent,    \* lines the scheduler sent and the agent has not read
    toErlang,   \* lines the agent sent and the scheduler has not read
    heap,       \* the local_job_t at each address
    localjobs,  \* table_localjobs: id -> job
    ourjobs,    \* table_ourjobs: descriptor of the request in flight -> job
    conn,       \* each descriptor: "free", "syn" (connecting), "open" (connected),
                \* "asked" (RESERVE sent), "held" (the provider granted) or "lost"
                \* (the provider hung up, or was never there)
    want,       \* the job named in the RESERVE
    inbox,      \* lines of the provider that were not read yet
    epoll,      \* its registration: "none", "out", "in" or "off" (one-shot, fired)
    wk          \* the workers

tables == <<heap, localjobs, ourjobs>>
net == <<conn, want, inbox, epoll>>
localVars == <<tables, net, wk>>

Line(op, arg) == [op |-> op, arg |-> arg]

NoJob == [live |-> FALSE, id |-> 0, todo |-> 0, held |-> {}, sock |-> NoFd, old |-> FALSE]

\* pc and locals of a worker: the events it has to serve (the first one is being
\* served), the descriptor, job and line in hand, why a job is torn down, and the
\* expired ids still to process.
Idle == [pc |-> "loop", events |-> <<>>, fd |-> NoFd, ptr |-> NoPtr,
         line |-> Line("", 0), why |-> "", expired |-> {}]

Init ==
    /\ heap = [p \in Ptrs |-> NoJob]
    /\ localjobs = [i \in Ids |-> NoPtr]
    /\ ourjobs = [f \in Fds |-> NoPtr]
    /\ conn = [f \in Fds |-> "free"]
    /\ want = [f \in Fds |-> 0]
    /\ inbox = [f \in Fds |-> <<>>]
    /\ epoll = [f \in Fds |-> "none"]
    /\ wk = [w \in Workers |-> Idle]

Say(op, arg) == toErlang' = Append(toErlang, Line(op, arg))

-----------------------------------------------------------------------------
(* The kernel and the providers.                                            *)

Connected(f) ==
    /\ conn[f] = "syn"
    /\ conn' = [conn EXCEPT ![f] = "open"]
    /\ UNCHANGED <<toAgent, toErlang, tables, want, inbox, epoll, wk>>

Granted(f) ==
    /\ conn[f] = "asked"
    /\ conn' = [conn EXCEPT ![f] = "held"]
    /\ inbox' = [inbox EXCEPT ![f] = Append(@, Line("GRANTED", want[f]))]
    /\ UNCHANGED <<toAgent, toErlang, tables, want, epoll, wk>>

\* No worker serves the descriptor or will be told of an event on it.
Unserved(f) ==
    /\ epoll[f] = "none"
    /\ \A w \in Workers : \A k \in DOMAIN wk[w].events : wk[w].events[k].fd # f

Denied(f) ==
    /\ Faults
    /\ conn[f] = "asked"
    /\ conn' = [conn EXCEPT ![f] = "open"]
    /\ inbox' = [inbox EXCEPT ![f] = Append(@, Line("DENIED", want[f]))]
    /\ UNCHANGED <<toAgent, toErlang, tables, want, epoll, wk>>

HangUp(f) ==
    /\ Faults
    /\ \/ conn[f] \in {"syn", "open", "asked"}
       \/ conn[f] = "held" /\ (Abrupt \/ Unserved(f))
    /\ conn' = [conn EXCEPT ![f] = "lost"]
    /\ UNCHANGED <<toAgent, toErlang, tables, want, inbox, epoll, wk>>

\* JOB_TIMEOUT_SEC have passed since the job was created or last made progress.
\* The worker that set its clock then is not still at it.
Expire(p) ==
    /\ heap[p].id \in Timeouts
    /\ \A w \in Workers : wk[w].ptr = p => wk[w].pc \notin {"drop", "ask", "index", "arm"}
    /\ heap[p].live /\ ~heap[p].old
    /\ heap' = [heap EXCEPT ![p].old = TRUE]
    /\ UNCHANGED <<toAgent, toErlang, localjobs, ourjobs, net, wk>>

-----------------------------------------------------------------------------
(* event_loop.                                                              *)

Event(what, f) == [what |-> what, fd |-> f]

Erlang == Event("erlang", NoFd)
Timer == Event("timer", NoFd)

Claimed(e) == \E w \in Workers : \E k \in DOMAIN wk[w].events : wk[w].events[k] = e

\* The events epoll_wait can return.  The timer is left out while no job has
\* expired: such a sweep does nothing.
Ready ==
    {e \in {Erlang} : toAgent # <<>> /\ ~Claimed(e)}
    \union {e \in {Timer} : (\E p \in Ptrs : heap[p].old) /\ ~Claimed(e)}
    \union {Event("out", f) : f \in {f \in Fds : epoll[f] = "out" /\ conn[f] # "syn"}}
    \union {Event("in", f) : f \in {f \in Fds : /\ epoll[f] = "in"
                                                /\ inbox[f] # <<>> \/ conn[f] = "lost"}}

Batches(S) == {s \in UNION {[1..n -> S] : n \in 1..MaxBatch} :
                   \A j, k \in DOMAIN s : j # k => s[j] # s[k]}

\* Fault: without EPOLLONESHOT.
EpollWaitAgain(w) ==
    /\ wk[w] = Idle
    /\ \E batch \in Batches(Ready) : wk' = [wk EXCEPT ![w].events = batch]
    /\ UNCHANGED <<toAgent, toErlang, tables, net>>

\* EPOLLONESHOT: the descriptors of the batch are disabled.
EpollWait(w) ==
    /\ wk[w] = Idle
    /\ \E batch \in Batches(Ready) :
        /\ wk' = [wk EXCEPT ![w].events = batch]
        /\ epoll' = [f \in Fds |-> IF \E k \in DOMAIN batch : batch[k].fd = f
                                     THEN "off" ELSE epoll[f]]
    /\ UNCHANGED <<toAgent, toErlang, tables, conn, want, inbox>>

\* Worker w is about to serve event e.
Serving(w, e) ==
    /\ wk[w].pc = "loop"
    /\ wk[w].events # <<>>
    /\ Head(wk[w].events) = e

At(w, pc) == wk[w].pc = pc

Goto(w, pc) == wk' = [wk EXCEPT ![w].pc = pc]

\* The event is served: on to the next one of the batch.
Done(w) == wk' = [wk EXCEPT ![w] = [Idle EXCEPT !.events = Tail(wk[w].events)]]

\* The job in hand is done with: back to reading commands or lines, to the other
\* expired jobs, or to closing the lost connection.
Resume(w) ==
    LET e == Head(wk[w].events) IN
    wk' = [wk EXCEPT ![w] = [Idle EXCEPT
        !.events = wk[w].events,
        !.expired = wk[w].expired,
        !.fd = IF wk[w].line.op = "eof" THEN wk[w].fd ELSE NoFd,
        !.pc = CASE e = Timer -> "sweep"
                 [] e # Timer /\ wk[w].line.op = "eof" -> "close"
                 [] OTHER -> "loop"]]

\* The job a worker has a pointer to; it was not freed, nor was the entry of the
\* index that the worker still reads.
Job(w) == heap[wk[w].ptr]

Valid(w) ==
    /\ wk[w].ptr # NoPtr /\ Job(w).live
    /\ wk[w].pc \in {"send", "move"} => ourjobs[wk[w].fd] = wk[w].ptr

\* The descriptors in S are closed.
Closing(S) ==
    /\ conn' = [f \in Fds |-> IF f \in S THEN "free" ELSE conn[f]]
    /\ epoll' = [f \in Fds |-> IF f \in S THEN "none" ELSE epoll[f]]
    /\ inbox' = [f \in Fds |-> IF f \in S THEN <<>> ELSE inbox[f]]
    /\ want' = [f \in Fds |-> IF f \in S THEN 0 ELSE want[f]]

-----------------------------------------------------------------------------
(* message_from_erlang and erlang_to_C.                                     *)

\* The next command of the scheduler is op.
Command(w, op) ==
    /\ Serving(w, Erlang)
    /\ toAgent # <<>>
    /\ Head(toAgent).op = op
    /\ toAgent' = Tail(toAgent)

\* All commands were read: the descriptor is armed again.
NoCommand(w) ==
    /\ Serving(w, Erlang)
    /\ toAgent = <<>>
    /\ Done(w)
    /\ UNCHANGED <<toAgent, toErlang, tables, net>>

\* An address malloc can return.
Fresh(p) ==
    /\ ~heap[p].live
    /\ \A w \in Workers : wk[w].ptr # p
    /\ \A f \in Fds : ourjobs[f] # p

\* table_localjobs destroys the job it had under the same id.
Insert(p, i) ==
    /\ heap' = [q \in Ptrs |->
            IF q = p THEN [NoJob EXCEPT !.live = TRUE, !.id = i, !.todo = NReq[i]]
            ELSE IF q = localjobs[i] THEN NoJob ELSE heap[q]]
    /\ localjobs' = [localjobs EXCEPT ![i] = p]

\* Fault: the job is freed once it was inserted.
JobRequestFrees(w) ==
    LET i == Head(toAgent).arg IN
    /\ Command(w, "JOB_REQUEST")
    /\ \E p \in Ptrs :
        /\ Fresh(p)
        /\ localjobs' = [localjobs EXCEPT ![i] = p]
        /\ wk' = [wk EXCEPT ![w].pc = "ask", ![w].ptr = p]
    /\ UNCHANGED <<toErlang, heap, ourjobs, net>>

\* JOB_REQUEST.  Addresses are handed out lowest first: their names do not matter.
JobRequest(w) ==
    LET i == Head(toAgent).arg IN
    /\ Command(w, "JOB_REQUEST")
    /\ \/ /\ NReq[i] = 0
          /\ Say("JOB_DENIED", i)
          /\ UNCHANGED <<heap, localjobs, wk>>
       \/ /\ NReq[i] > 0
          /\ \E p \in Ptrs :
                /\ Fresh(p)
                /\ \A q \in Ptrs : Fresh(q) => p <= q
                /\ Insert(p, i)
                /\ wk' = [wk EXCEPT ![w].pc = "ask", ![w].ptr = p]
          /\ UNCHANGED toErlang
    /\ UNCHANGED <<ourjobs, net>>

\* JOB_RELEASE, first half: the job is found.
JobRelease(w) ==
    LET p == localjobs[Head(toAgent).arg] IN
    /\ Command(w, "JOB_RELEASE")
    /\ wk' = IF p = NoPtr THEN wk
             ELSE [wk EXCEPT ![w].pc = "down", ![w].ptr = p, ![w].why = "release"]
    /\ UNCHANGED <<toErlang, tables, net>>

\* JOB_STATUS, first half: the job is found.
JobStatus(w) ==
    /\ Command(w, "JOB_STATUS")
    /\ wk' = [wk EXCEPT ![w].pc = "status", ![w].line = Head(toAgent),
                        ![w].ptr = localjobs[Head(toAgent).arg]]
    /\ UNCHANGED <<toErlang, tables, net>>

\* Fault: the test for a pending resource is inverted.
StatusAnswerSwapped(w) ==
    /\ At(w, "status")
    /\ wk[w].ptr # NoPtr => Valid(w)
    /\ Say(IF wk[w].ptr = NoPtr THEN "JOB_TIMEOUT"
           ELSE IF Job(w).todo > 0 THEN "JOB_GRANTED" ELSE "WAITING", wk[w].line.arg)
    /\ Resume(w)
    /\ UNCHANGED <<toAgent, tables, net>>

\* JOB_STATUS, second half: the answer.
StatusAnswer(w) ==
    /\ At(w, "status")
    /\ wk[w].ptr # NoPtr => Valid(w)
    /\ Say(IF wk[w].ptr = NoPtr THEN "JOB_TIMEOUT"
           ELSE IF Job(w).todo = 0 THEN "JOB_GRANTED" ELSE "WAITING", wk[w].line.arg)
    /\ Resume(w)
    /\ UNCHANGED <<toAgent, tables, net>>

GetNodes(w) ==
    /\ Command(w, "GET_NODES")
    /\ \E known \in 0..1 : Say("NODES", known)
    /\ UNCHANGED <<localVars>>

-----------------------------------------------------------------------------
(* ask_for_next_resource.                                                   *)

\* Fault: the last resource is not waited for.
AllGrantedEarly(w) ==
    /\ At(w, "ask") /\ Valid(w)
    /\ Job(w).todo <= 1
    /\ Say("JOB_GRANTED", Job(w).id)
    /\ Resume(w)
    /\ UNCHANGED <<toAgent, tables, net>>

\* No resource is left to ask for.
AllGranted(w) ==
    /\ At(w, "ask") /\ Valid(w)
    /\ Job(w).todo = 0
    /\ Say("JOB_GRANTED", Job(w).id)
    /\ Resume(w)
    /\ UNCHANGED <<toAgent, tables, net>>

\* socket and connect, then origin_socket is set.
Connect(w, f) ==
    /\ At(w, "ask") /\ Valid(w)
    /\ Job(w).todo > 0
    /\ conn[f] = "free"
    /\ conn' = [conn EXCEPT ![f] = "syn"]
    /\ heap' = [heap EXCEPT ![wk[w].ptr].sock = f]
    /\ wk' = [wk EXCEPT ![w].pc = "index", ![w].fd = f]
    /\ UNCHANGED <<toAgent, toErlang, localjobs, ourjobs, want, inbox, epoll>>

\* socket or connect fails: the job is left to the sweep.
ConnectFails(w) ==
    /\ Faults
    /\ At(w, "ask") /\ Valid(w)
    /\ Job(w).todo > 0
    /\ Resume(w)
    /\ UNCHANGED <<toAgent, toErlang, tables, net>>

Index(w) ==
    /\ At(w, "index")
    /\ ourjobs' = [ourjobs EXCEPT ![wk[w].fd] = wk[w].ptr]
    /\ Goto(w, "arm")
    /\ UNCHANGED <<toAgent, toErlang, heap, localjobs, net>>

\* Fault: registered for EPOLLIN.
ArmIn(w) ==
    /\ At(w, "arm")
    /\ epoll' = [epoll EXCEPT ![wk[w].fd] = "in"]
    /\ Resume(w)
    /\ UNCHANGED <<toAgent, toErlang, tables, conn, want, inbox>>

\* EPOLL_CTL_ADD.  It fails for a descriptor that was closed or added in the
\* meantime: the entry is taken back and the descriptor closed.
Arm(w) ==
    LET f == wk[w].fd IN
    /\ At(w, "arm")
    /\ IF conn[f] # "free" /\ epoll[f] = "none"
         THEN /\ epoll' = [epoll EXCEPT ![f] = "out"]
              /\ UNCHANGED <<ourjobs, conn, want, inbox>>
         ELSE /\ ourjobs' = [ourjobs EXCEPT ![f] = NoPtr]
              /\ Closing({f})
    /\ Resume(w)
    /\ UNCHANGED <<toAgent, toErlang, heap, localjobs>>

-----------------------------------------------------------------------------
(* send_request.                                                            *)

FindToSend(w, f) ==
    /\ Serving(w, Event("out", f))
    /\ IF ourjobs[f] = NoPtr THEN Done(w)
       ELSE wk' = [wk EXCEPT ![w].pc = "send", ![w].fd = f, ![w].ptr = ourjobs[f]]
    /\ UNCHANGED <<toAgent, toErlang, tables, net>>

\* Fault: the address of the job is sent for its id.
SendReserveWrong(w) ==
    LET f == wk[w].fd IN
    /\ At(w, "send") /\ Valid(w)
    /\ conn' = [conn EXCEPT ![f] = "asked"]
    /\ want' = [want EXCEPT ![f] = wk[w].ptr]
    /\ epoll' = [epoll EXCEPT ![f] = "in"]
    /\ Done(w)
    /\ UNCHANGED <<toAgent, toErlang, tables, inbox>>

SendReserve(w) ==
    LET f == wk[w].fd IN
    /\ At(w, "send") /\ Valid(w)
    /\ IF Job(w).todo = 0 THEN UNCHANGED net
       ELSE /\ IF conn[f] = "open"
                 THEN /\ conn' = [conn EXCEPT ![f] = "asked"]
                      /\ want' = [want EXCEPT ![f] = Job(w).id]
                 ELSE UNCHANGED <<conn, want>>
            /\ epoll' = [epoll EXCEPT ![f] = IF @ = "none" THEN @ ELSE "in"]
            /\ UNCHANGED inbox
    /\ Done(w)
    /\ UNCHANGED <<toAgent, toErlang, tables>>

-----------------------------------------------------------------------------
(* recive_message_from_remote and client_to_myserver.                       *)

\* read_until_newline returns 1.
ReadLine(w, f) ==
    /\ Serving(w, Event("in", f))
    /\ inbox[f] # <<>>
    /\ inbox' = [inbox EXCEPT ![f] = Tail(@)]
    /\ wk' = [wk EXCEPT ![w].pc = "find", ![w].fd = f, ![w].line = Head(inbox[f])]
    /\ UNCHANGED <<toAgent, toErlang, tables, conn, want, epoll>>

\* It returns -1: the provider hung up, or the descriptor was closed or is not
\* connected.
ReadEof(w, f) ==
    /\ Serving(w, Event("in", f))
    /\ inbox[f] = <<>> /\ conn[f] \in {"lost", "free", "syn"}
    /\ wk' = [wk EXCEPT ![w].pc = "find", ![w].fd = f, ![w].line = Line("eof", 0)]
    /\ UNCHANGED <<toAgent, toErlang, tables, net>>

\* It returns 0.
ReadNothing(w, f) ==
    /\ Serving(w, Event("in", f))
    /\ inbox[f] = <<>> /\ conn[f] \notin {"lost", "free", "syn"}
    /\ wk' = [wk EXCEPT ![w].pc = "rearm", ![w].fd = f]
    /\ UNCHANGED <<toAgent, toErlang, tables, net>>

Rearm(w) ==
    LET f == wk[w].fd IN
    /\ At(w, "rearm")
    /\ epoll' = [epoll EXCEPT ![f] = IF @ = "none" THEN @ ELSE "in"]
    /\ Done(w)
    /\ UNCHANGED <<toAgent, toErlang, tables, conn, want, inbox>>

\* The job that waits for this descriptor.
FindJob(w) ==
    LET p == ourjobs[wk[w].fd]
        granted == wk[w].line.op = "GRANTED" IN
    /\ At(w, "find")
    /\ IF p = NoPtr THEN Resume(w)
       ELSE wk' = [wk EXCEPT ![w].ptr = p,
                             ![w].pc = IF granted THEN "move" ELSE "drop",
                             ![w].why = IF granted THEN "" ELSE "denied"]
    /\ UNCHANGED <<toAgent, toErlang, tables, net>>

\* GRANTED: the first pending resource becomes a granted one.
Move(w) ==
    /\ At(w, "move") /\ Valid(w)
    /\ IF Job(w).id # wk[w].line.arg THEN Resume(w) /\ UNCHANGED heap
       ELSE /\ heap' = [heap EXCEPT ![wk[w].ptr] =
                  IF @.todo = 0 THEN [@ EXCEPT !.old = FALSE]
                  ELSE [@ EXCEPT !.todo = @ - 1, !.held = @ \union {wk[w].fd}, !.old = FALSE]]
            /\ Goto(w, "drop")
    /\ UNCHANGED <<toAgent, toErlang, localjobs, ourjobs, net>>

\* Fault: a granted connection is closed.
DropCloses(w) ==
    /\ At(w, "drop")
    /\ ourjobs' = [ourjobs EXCEPT ![wk[w].fd] = NoPtr]
    /\ Closing({wk[w].fd})
    /\ Goto(w, IF wk[w].why = "denied" THEN "release" ELSE "ask")
    /\ UNCHANGED <<toAgent, toErlang, heap, localjobs>>

\* The descriptor leaves the index; after GRANTED epoll too.
Drop(w) ==
    LET f == wk[w].fd IN
    /\ At(w, "drop")
    /\ ourjobs' = [ourjobs EXCEPT ![f] = NoPtr]
    /\ IF wk[w].why = "denied" THEN Goto(w, "release") /\ UNCHANGED epoll
       ELSE Goto(w, "ask") /\ epoll' = [epoll EXCEPT ![f] = "none"]
    /\ UNCHANGED <<toAgent, toErlang, heap, localjobs, conn, want, inbox>>

\* The connection was lost.
Close(w) ==
    /\ At(w, "close")
    /\ Closing({wk[w].fd})
    /\ Done(w)
    /\ UNCHANGED <<toAgent, toErlang, tables>>

-----------------------------------------------------------------------------
(* check_ourjob_timeouts.                                                   *)

\* Fault: the test for a pending resource is missing.
CollectAll(w) ==
    /\ Serving(w, Timer)
    /\ wk' = [wk EXCEPT ![w].pc = "sweep", ![w].expired =
                 {i \in Ids : localjobs[i] # NoPtr /\ heap[localjobs[i]].old}]
    /\ UNCHANGED <<toAgent, toErlang, tables, net>>

Collect(w) ==
    /\ Serving(w, Timer)
    /\ wk' = [wk EXCEPT ![w].pc = "sweep", ![w].expired =
                 {i \in Ids : /\ localjobs[i] # NoPtr
                              /\ heap[localjobs[i]].old /\ heap[localjobs[i]].todo > 0}]
    /\ UNCHANGED <<toAgent, toErlang, tables, net>>

FindExpired(w, i) ==
    LET p == localjobs[i] IN
    /\ At(w, "sweep")
    /\ i \in wk[w].expired
    /\ wk' = [wk EXCEPT ![w].expired = @ \ {i},
                        ![w].pc = IF p = NoPtr THEN @ ELSE "down",
                        ![w].ptr = p, ![w].why = "timeout"]
    /\ UNCHANGED <<toAgent, toErlang, tables, net>>

\* The timer is armed again.
SweepDone(w) ==
    /\ At(w, "sweep")
    /\ wk[w].expired = {}
    /\ Done(w)
    /\ UNCHANGED <<toAgent, toErlang, tables, net>>

-----------------------------------------------------------------------------
(* What a released, expired or denied job goes through.                     *)

\* Is a request of the job in flight?
FindRequest(w) ==
    LET f == Job(w).sock IN
    /\ At(w, "down") /\ Valid(w)
    /\ IF f # NoFd /\ ourjobs[f] # NoPtr
         THEN wk' = [wk EXCEPT ![w].pc = "unindex", ![w].fd = f]
         ELSE Goto(w, "release")
    /\ UNCHANGED <<toAgent, toErlang, tables, net>>

\* Fault: the entry of the index stays.
UnindexNot(w) ==
    /\ At(w, "unindex")
    /\ Goto(w, "hangup")
    /\ UNCHANGED <<toAgent, toErlang, tables, net>>

Unindex(w) ==
    /\ At(w, "unindex")
    /\ ourjobs' = [ourjobs EXCEPT ![wk[w].fd] = NoPtr]
    /\ Goto(w, "hangup")
    /\ UNCHANGED <<toAgent, toErlang, heap, localjobs, net>>

\* EPOLL_CTL_DEL and close of what origin_socket is now.
CloseRequest(w) ==
    /\ At(w, "hangup") /\ Valid(w)
    /\ Closing({Job(w).sock})
    /\ Goto(w, "release")
    /\ UNCHANGED <<toAgent, toErlang, tables>>

\* Fault: the connections are not closed.
ReleaseOpen(w) ==
    /\ At(w, "release") /\ Valid(w)
    /\ Goto(w, IF wk[w].why = "release" THEN "free" ELSE "tell")
    /\ UNCHANGED <<toAgent, toErlang, tables, net>>

\* release_resources: RELEASE to every provider, and close.
Release(w) ==
    /\ At(w, "release") /\ Valid(w)
    /\ Closing(Job(w).held)
    /\ heap' = [heap EXCEPT ![wk[w].ptr].held = {}]
    /\ Goto(w, IF wk[w].why = "release" THEN "free" ELSE "tell")
    /\ UNCHANGED <<toAgent, toErlang, localjobs, ourjobs>>

\* C_to_erlang.
Tell(w) ==
    /\ At(w, "tell") /\ Valid(w)
    /\ Say(IF wk[w].why = "denied" THEN "JOB_DENIED" ELSE "JOB_TIMEOUT", Job(w).id)
    /\ Goto(w, "free")
    /\ UNCHANGED <<toAgent, tables, net>>

\* table_localjobs frees the job it has under this id.
Free(w) ==
    LET i == Job(w).id IN
    /\ At(w, "free") /\ Valid(w)
    /\ heap' = [p \in Ptrs |-> IF p = localjobs[i] THEN NoJob ELSE heap[p]]
    /\ localjobs' = [localjobs EXCEPT ![i] = NoPtr]
    /\ Resume(w)
    /\ UNCHANGED <<toAgent, toErlang, ourjobs, net>>

-----------------------------------------------------------------------------
HandleCommand(w) ==
    \/ NoCommand(w) \/ JobRequest(w) \/ JobRelease(w)
    \/ JobStatus(w) \/ StatusAnswer(w) \/ GetNodes(w)

Ask(w) ==
    \/ AllGranted(w) \/ Index(w) \/ Arm(w)
    \/ \E f \in Fds : Connect(w, f) \/ FindToSend(w, f)
    \/ SendReserve(w)

Listen(w) ==
    \/ \E f \in Fds : ReadLine(w, f) \/ ReadEof(w, f) \/ ReadNothing(w, f)
    \/ Rearm(w) \/ FindJob(w) \/ Move(w) \/ Drop(w) \/ Close(w)

Sweep(w) ==
    \/ Collect(w) \/ SweepDone(w)
    \/ \E i \in Ids : FindExpired(w, i)

TearDown(w) ==
    \/ FindRequest(w) \/ Unindex(w) \/ CloseRequest(w)
    \/ Release(w) \/ Tell(w) \/ Free(w)

Work(w) ==
    \/ EpollWait(w) \/ HandleCommand(w) \/ Ask(w) \/ Listen(w)
    \/ Sweep(w) \/ TearDown(w)

Provider(f) == Connected(f) \/ Granted(f) \/ Denied(f) \/ HangUp(f)

Next ==
    \/ \E w \in Workers : Work(w) \/ ConnectFails(w)
    \/ \E f \in Fds : Provider(f)
    \/ \E p \in Ptrs : Expire(p)

-----------------------------------------------------------------------------
(* Properties.                                                              *)

\* The types of the variables.
TypeOK ==
    /\ heap \in [Ptrs -> [live : BOOLEAN, id : Ids \union {0}, todo : Nat,
                          held : SUBSET Fds, sock : Fds \union {NoFd}, old : BOOLEAN]]
    /\ localjobs \in [Ids -> Ptrs \union {NoPtr}]
    /\ ourjobs \in [Fds -> Ptrs \union {NoPtr}]
    /\ conn \in [Fds -> {"free", "syn", "open", "asked", "held", "lost"}]
    /\ want \in [Fds -> Ids \union {0}]
    /\ epoll \in [Fds -> {"none", "out", "in", "off"}]
    /\ \A w \in Workers :
        /\ wk[w].fd \in Fds \union {NoFd}
        /\ wk[w].ptr \in Ptrs \union {NoPtr}
        /\ wk[w].expired \subseteq Ids

\* No worker reads a job after table_localjobs destroyed it: between tablahash_find
\* and the last use of the pointer nobody frees it (destr_localjob "frees the struct
\* AND both pending_resource_t lists exactly once, on removal").
NoDangling ==
    \A w \in Workers :
        wk[w].pc \in {"ask", "send", "move", "down", "hangup", "release", "tell", "free"}
            => Valid(w)

\* The index leads to the job whose request is in flight: it is alive, in its table,
\* waiting, and its origin_socket is this descriptor (ask_for_next_resource and the
\* paths that remove the entry again).
IndexIsCurrent ==
    \A f \in Fds : ourjobs[f] # NoPtr =>
        LET j == heap[ourjobs[f]] IN
        /\ j.live
        /\ localjobs[j.id] = ourjobs[f]
        /\ j.sock = f
        /\ conn[f] # "free"

\* Every open connection will be closed some day: a job that will be released holds
\* it or waits for it, epoll reports its end, or a worker is busy with it
\* (release_resources, handle_outbound_disconnect).
NoLeakedConnection ==
    \A f \in Fds : conn[f] # "free" =>
        \/ epoll[f] # "none"
        \/ \E i \in Ids : /\ localjobs[i] # NoPtr
                          /\ f \in heap[localjobs[i]].held \union {heap[localjobs[i]].sock}
        \/ \E w \in Workers : wk[w].fd = f

\* A connection that a job holds stays open, and its own, until release_resources
\* closes it ("its lifetime is owned solely by release_resources(): no
\* disconnect-path close, no fd-number reuse, no cross-talk").
HeldIsOpen ==
    \A i \in Ids : localjobs[i] # NoPtr =>
        \A f \in heap[localjobs[i]].held : conn[f] \in {"held", "lost"} /\ want[f] = i

\* While a job waits for a connection over which RESERVE was not sent yet, epoll
\* watches for it to become writable or a worker is about to send
\* (ask_for_next_resource: "the RESERVE is actually sent later, from send_request(),
\* when epoll reports the socket is writable").
RequestIsSent ==
    \A f \in Fds : ourjobs[f] # NoPtr /\ conn[f] \in {"syn", "open"} /\ want[f] = 0 =>
        \/ epoll[f] = "out"
        \/ Claimed(Event("out", f))
        \/ \E w \in Workers : wk[w].fd = f /\ wk[w].pc \in {"arm", "unindex"}

\* Only a job that still waits for a resource is timed out ("a fully granted job
\* (next_req == NULL) is done, not stuck").
TimeoutIsStuck ==
    \A w \in Workers :
        wk[w].pc = "tell" /\ wk[w].why = "timeout" /\ Valid(w) => Job(w).todo > 0

\* Two workers never close, read or arm the same connection: a descriptor that a
\* worker serves is the one whose event it took (EPOLLONESHOT).
OneWorkerPerConnection ==
    \A v, w \in Workers : v # w /\ wk[v].fd = wk[w].fd => wk[v].fd = NoFd
=============================================================================
