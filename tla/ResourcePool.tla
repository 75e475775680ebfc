----------------------------- MODULE ResourcePool -----------------------------
(***************************************************************************)
(* The server half of an agent: its worker threads grant this node's       *)
(* resources to remote clients and take them back on RELEASE or on a       *)
(* disconnect.  One resource type is one request_queue, a free amount and  *)
(* a FIFO of waiting requests under one mutex.  What was granted is kept   *)
(* in table_nodejobs under another mutex.  A step of a worker is what it   *)
(* does under one lock, or one system call.                                *)
(*                                                                         *)
(* A lock has no variable of its own.  A worker holds the mutex of queue   *)
(* ti[w] exactly while pc[w] = "draining" and the mutex of table_nodejobs  *)
(* exactly while pc[w] = "collecting"; every other critical section is a   *)
(* single step, enabled only while the lock is free.                       *)
(***************************************************************************)
EXTENDS Integers, Sequences

CONSTANTS
    Workers,    \* the threads that run event_loop
    NTypes,     \* number of resource types, drained in the order 1..NTypes
    Capacity,   \* what the node owns of each type at start
    Fds,        \* descriptors the kernel can hand out for inbound connections
    Conns,      \* inbound connections, each with the address of its own peer
    Jobs,       \* job ids, chosen by the clients: two clients can use the same
    JobOf,      \* the job, type and amount in the one RESERVE of a connection
    TypeOf,
    AmountOf,
    Abandon,    \* may a client close a connection whose RESERVE is unanswered?
    Garbage,    \* what an int read from freed memory can be
    NoFd, NoConn, Unknown

Types == 1..NTypes

Keys == Jobs \X (Conns \union {Unknown})

Requests == [job : Jobs, fd : Fds, amount : Nat \ {0}]

Entries == [granted : [Types -> Int], fd : Fds \union {NoFd}]

NoEntry == [granted |-> [t \in Types |-> 0], fd |-> NoFd]

Freed == [granted |-> [t \in Types |-> 0], fd |-> Unknown]

ASSUME TypesAssumption ==
    /\ NTypes \in Nat \ {0}
    /\ Capacity \in [Types -> Nat]

ASSUME ConnsAssumption ==
    /\ JobOf \in [Conns -> Jobs]
    /\ TypeOf \in [Conns -> Types]
    /\ AmountOf \in [Conns -> Nat \ {0}]
    /\ Abandon \in BOOLEAN
    /\ Garbage \subseteq Int

ASSUME NullsAssumption ==
    /\ NoFd \notin Fds
    /\ NoConn \notin Conns
    /\ Unknown \notin Conns
    /\ Unknown \notin Fds \union {NoFd}

VARIABLES
    left,     \* resources_left of each queue
    queue,    \* the FIFO of each queue
    table,    \* table_nodejobs, keyed by job id and peer; NoEntry where absent
    sock,     \* the connection behind each descriptor, NoConn if closed
    client,   \* the remote end: "new", "waiting", "held" or "closed"
    inbox,    \* what the client sent and the server has not read
    pc,       \* where each worker is
    cur,      \* the descriptor whose event it serves
    ti,       \* the type its loop over the queues is at
    ready,    \* the stash of granted requests of drain_queue, last one first
    key,      \* key and rj of record_granted
    rj,
    add,      \* add_cpu, add_mem, add_gpu of release_client_by_fd
    eof       \* did recv report the end of the connection?

pool == <<left, queue, table>>
net == <<sock, client, inbox>>
locals == <<ready, key, rj, add>>
vars == <<pool, net, pc, cur, ti, locals, eof>>

Recording == {"find", "copy", "insert", "send"}

PCs == {"idle", "read", "drain", "draining", "collect", "collecting",
        "return", "close"} \union Recording

QueueFree(t) == \A w \in Workers : ~(pc[w] = "draining" /\ ti[w] = t)

TableFree == \A w \in Workers : pc[w] # "collecting"

HeadFits(t) == queue[t] # <<>> /\ left[t] >= Head(queue[t]).amount

Init ==
    /\ left = Capacity
    /\ queue = [t \in Types |-> <<>>]
    /\ table = [k \in Keys |-> NoEntry]
    /\ sock = [f \in Fds |-> NoConn]
    /\ client = [c \in Conns |-> "new"]
    /\ inbox = [c \in Conns |-> <<>>]
    /\ pc = [w \in Workers |-> "idle"]
    /\ cur = [w \in Workers |-> NoFd]
    /\ ti = [w \in Workers |-> 1]
    /\ ready = [w \in Workers |-> <<>>]
    /\ key = [w \in Workers |-> <<>>]
    /\ rj = [w \in Workers |-> NoEntry]
    /\ add = [w \in Workers |-> [t \in Types |-> 0]]
    /\ eof = [w \in Workers |-> FALSE]

-----------------------------------------------------------------------------
(* The clients: what the agent of a remote node does with the connection    *)
(* it opened for one resource of one job.                                   *)

\* The client connects and sends RESERVE, a worker accepts on a free
\* descriptor.  Which one is the kernel's choice.
Connect(c, f) ==
    /\ client[c] = "new"
    /\ sock[f] = NoConn
    /\ client' = [client EXCEPT ![c] = "waiting"]
    /\ sock' = [sock EXCEPT ![f] = c]
    /\ inbox' = [inbox EXCEPT ![c] = <<"RESERVE">>]
    /\ UNCHANGED <<pool, pc, cur, ti, locals, eof>>

\* release_resources at the client: RELEASE, then close.
Release(c) ==
    /\ client[c] = "held"
    /\ client' = [client EXCEPT ![c] = "closed"]
    /\ inbox' = [inbox EXCEPT ![c] = @ \o <<"RELEASE", "EOF">>]
    /\ UNCHANGED <<pool, sock, pc, cur, ti, locals, eof>>

\* The connection ends without RELEASE: the client died, or (Abandon) its
\* job timed out or was released while the RESERVE was still unanswered.
Disconnect(c) ==
    /\ client[c] = "held" \/ (Abandon /\ client[c] = "waiting")
    /\ client' = [client EXCEPT ![c] = "closed"]
    /\ inbox' = [inbox EXCEPT ![c] = Append(@, "EOF")]
    /\ UNCHANGED <<pool, sock, pc, cur, ti, locals, eof>>

-----------------------------------------------------------------------------
(* The workers: reading a connection.                                       *)

\* Fault: without EPOLLONESHOT.
ServeTwice(w, f) ==
    /\ pc[w] = "idle"
    /\ sock[f] # NoConn
    /\ inbox[sock[f]] # <<>>
    /\ cur' = [cur EXCEPT ![w] = f]
    /\ pc' = [pc EXCEPT ![w] = "read"]
    /\ UNCHANGED <<pool, net, ti, locals, eof>>

\* epoll_wait delivers a readable descriptor.  EPOLLONESHOT keeps it from
\* the other workers until it is armed again.
Serve(w, f) ==
    /\ pc[w] = "idle"
    /\ sock[f] # NoConn
    /\ inbox[sock[f]] # <<>>
    /\ \A v \in Workers : cur[v] # f
    /\ cur' = [cur EXCEPT ![w] = f]
    /\ pc' = [pc EXCEPT ![w] = "read"]
    /\ UNCHANGED <<pool, net, ti, locals, eof>>

\* The next line, or the end of the connection, is m.
Read(w, m) ==
    LET c == sock[cur[w]] IN
    /\ pc[w] = "read"
    /\ inbox[c] # <<>>
    /\ Head(inbox[c]) = m
    /\ inbox' = [inbox EXCEPT ![c] = Tail(@)]

\* Fault: enqueued, but not drained.
ReserveOnly(w) ==
    LET c == sock[cur[w]]
        t == TypeOf[c]
    IN
    /\ Read(w, "RESERVE")
    /\ QueueFree(t)
    /\ queue' = [queue EXCEPT ![t] =
            Append(@, [job |-> JobOf[c], fd |-> cur[w], amount |-> AmountOf[c]])]
    /\ pc' = [pc EXCEPT ![w] = "read"]
    /\ UNCHANGED <<left, table, sock, client, cur, ti, locals, eof>>

\* RESERVE: enqueue_jobs appends the request, then drains every queue.
Reserve(w) ==
    LET c == sock[cur[w]]
        t == TypeOf[c]
    IN
    /\ Read(w, "RESERVE")
    /\ QueueFree(t)
    /\ queue' = [queue EXCEPT ![t] =
            Append(@, [job |-> JobOf[c], fd |-> cur[w], amount |-> AmountOf[c]])]
    /\ pc' = [pc EXCEPT ![w] = "drain"]
    /\ ti' = [ti EXCEPT ![w] = 1]
    /\ UNCHANGED <<left, table, sock, client, cur, locals, eof>>

\* RELEASE, whose arguments are ignored: release_client_by_fd(current_fd).
ReadRelease(w) ==
    /\ Read(w, "RELEASE")
    /\ pc' = [pc EXCEPT ![w] = "collect"]
    /\ UNCHANGED <<pool, sock, client, cur, ti, locals, eof>>

\* Fault: a disconnect releases nothing.
ReadEofOnly(w) ==
    /\ Read(w, "EOF")
    /\ pc' = [pc EXCEPT ![w] = "close"]
    /\ eof' = [eof EXCEPT ![w] = TRUE]
    /\ UNCHANGED <<pool, sock, client, cur, ti, locals>>

\* recv returned 0: release_client_by_fd(fd), then close(fd).
ReadEof(w) ==
    /\ Read(w, "EOF")
    /\ pc' = [pc EXCEPT ![w] = "collect"]
    /\ eof' = [eof EXCEPT ![w] = TRUE]
    /\ UNCHANGED <<pool, sock, client, cur, ti, locals>>

\* Nothing left to read: restart_epolloneshot.
Rearm(w) ==
    /\ pc[w] = "read"
    /\ inbox[sock[cur[w]]] = <<>>
    /\ pc' = [pc EXCEPT ![w] = "idle"]
    /\ cur' = [cur EXCEPT ![w] = NoFd]
    /\ UNCHANGED <<pool, net, ti, locals, eof>>

\* The end of recive_message_from_remote on a dead connection.
Close(w) ==
    /\ pc[w] = "close"
    /\ sock' = [sock EXCEPT ![cur[w]] = NoConn]
    /\ pc' = [pc EXCEPT ![w] = "idle"]
    /\ cur' = [cur EXCEPT ![w] = NoFd]
    /\ eof' = [eof EXCEPT ![w] = FALSE]
    /\ UNCHANGED <<pool, client, inbox, ti, locals>>

\* Where a worker goes when the handler of one line has finished.
Handled(w) == IF eof[w] THEN "close" ELSE "read"

-----------------------------------------------------------------------------
(* drain_queue and record_granted, for the queues in the order of           *)
(* reserve_elements.                                                        *)

\* Fault: resources_left is not charged.
DrainPopFree(w) ==
    LET t == ti[w] IN
    /\ \/ pc[w] = "drain" /\ QueueFree(t)
       \/ pc[w] = "draining"
    /\ HeadFits(t)
    /\ queue' = [queue EXCEPT ![t] = Tail(@)]
    /\ ready' = [ready EXCEPT ![w] = <<Head(queue[t])>> \o @]
    /\ pc' = [pc EXCEPT ![w] = "draining"]
    /\ UNCHANGED <<left, table, net, cur, ti, key, rj, add, eof>>

\* One round of the loop under mutexQueue: the head fits and leaves the FIFO.
DrainPop(w) ==
    LET t == ti[w] IN
    /\ \/ pc[w] = "drain" /\ QueueFree(t)
       \/ pc[w] = "draining"
    /\ HeadFits(t)
    /\ left' = [left EXCEPT ![t] = @ - Head(queue[t]).amount]
    /\ queue' = [queue EXCEPT ![t] = Tail(@)]
    /\ ready' = [ready EXCEPT ![w] = <<Head(queue[t])>> \o @]
    /\ pc' = [pc EXCEPT ![w] = "draining"]
    /\ UNCHANGED <<table, net, cur, ti, key, rj, add, eof>>

\* Fault: one queue too many.
NextQueuePast(w) ==
    IF ti[w] <= NTypes
      THEN /\ ti' = [ti EXCEPT ![w] = @ + 1]
           /\ pc' = [pc EXCEPT ![w] = "drain"]
      ELSE /\ ti' = [ti EXCEPT ![w] = 1]
           /\ pc' = [pc EXCEPT ![w] = Handled(w)]

\* On to the next queue, or out of reserve_elements.
NextQueue(w) ==
    IF ti[w] < NTypes
      THEN /\ ti' = [ti EXCEPT ![w] = @ + 1]
           /\ pc' = [pc EXCEPT ![w] = "drain"]
      ELSE /\ ti' = [ti EXCEPT ![w] = 1]
           /\ pc' = [pc EXCEPT ![w] = Handled(w)]

\* Fault: GRANTED is sent and never recorded.
DrainDoneSend(w) ==
    LET t == ti[w] IN
    /\ \/ pc[w] = "drain" /\ QueueFree(t)
       \/ pc[w] = "draining"
    /\ ~HeadFits(t)
    /\ IF ready[w] # <<>>
         THEN pc' = [pc EXCEPT ![w] = "send"] /\ UNCHANGED ti
         ELSE NextQueue(w)
    /\ UNCHANGED <<pool, net, cur, locals, eof>>

\* The loop ends and mutexQueue is unlocked.
DrainDone(w) ==
    LET t == ti[w] IN
    /\ \/ pc[w] = "drain" /\ QueueFree(t)
       \/ pc[w] = "draining"
    /\ ~HeadFits(t)
    /\ IF ready[w] # <<>>
         THEN pc' = [pc EXCEPT ![w] = "find"] /\ UNCHANGED ti
         ELSE NextQueue(w)
    /\ UNCHANGED <<pool, net, cur, locals, eof>>

\* getpeername: the address of whoever is connected on the descriptor by now.
\* It fails on a closed descriptor, and can fail once the peer has gone.
PeerOf(f) ==
    IF sock[f] = NoConn THEN {Unknown}
    ELSE {sock[f]} \union (IF client[sock[f]] = "closed" THEN {Unknown} ELSE {})

\* tablahash_find gives a pointer into the table, or a fresh rj is filled in.
RecordFind(w) ==
    LET rq == Head(ready[w]) IN
    /\ pc[w] = "find"
    /\ TableFree
    /\ \E p \in PeerOf(rq.fd) :
         LET k == <<rq.job, p>> IN
         /\ key' = [key EXCEPT ![w] = k]
         /\ rj' = [rj EXCEPT ![w] = table[k]]
         /\ pc' = [pc EXCEPT ![w] = IF table[k] = NoEntry THEN "insert" ELSE "copy"]
    /\ UNCHANGED <<pool, net, cur, ti, ready, add, eof>>

\* rj = *existing, with no lock held.  If the entry was replaced or removed
\* since the find, this reads freed memory.
RecordCopy(w) ==
    /\ pc[w] = "copy"
    /\ IF rj[w] = Freed
         THEN \E k \in Keys, g \in [Types -> Garbage] :
                /\ key' = [key EXCEPT ![w] = k]
                /\ rj' = [rj EXCEPT ![w] = [granted |-> g, fd |-> NoFd]]
         ELSE UNCHANGED <<key, rj>>
    /\ pc' = [pc EXCEPT ![w] = "insert"]
    /\ UNCHANGED <<pool, net, cur, ti, ready, add, eof>>

\* Destroying the entry of k frees what other workers are about to copy.
Dangling(k, r) ==
    [v \in Workers |-> IF pc[v] = "copy" /\ key[v] = k THEN Freed ELSE r[v]]

\* The amount is added to rj, and tablahash_insert stores it.
RecordInsert(w) ==
    LET rq == Head(ready[w]) IN
    /\ pc[w] = "insert"
    /\ TableFree
    /\ table' = [table EXCEPT ![key[w]] =
            [granted |-> [rj[w].granted EXCEPT ![ti[w]] = @ + rq.amount],
             fd      |-> rq.fd]]
    /\ rj' = Dangling(key[w], [rj EXCEPT ![w] = NoEntry])
    /\ key' = [key EXCEPT ![w] = <<>>]
    /\ pc' = [pc EXCEPT ![w] = "send"]
    /\ UNCHANGED <<left, queue, net, cur, ti, ready, add, eof>>

\* GRANTED goes to whoever is connected on the descriptor by now.  A client
\* takes it as an answer if it waits for that job id.
SendGranted(w) ==
    LET rq == Head(ready[w])
        c  == sock[rq.fd]
    IN
    /\ pc[w] = "send"
    /\ client' = IF c # NoConn /\ client[c] = "waiting" /\ JobOf[c] = rq.job
                   THEN [client EXCEPT ![c] = "held"] ELSE client
    /\ ready' = [ready EXCEPT ![w] = Tail(@)]
    /\ IF Tail(ready[w]) # <<>>
         THEN pc' = [pc EXCEPT ![w] = "find"] /\ UNCHANGED ti
         ELSE NextQueue(w)
    /\ UNCHANGED <<pool, sock, inbox, cur, key, rj, add, eof>>

-----------------------------------------------------------------------------
(* release_client_by_fd.                                                    *)

\* The keys of the entries recorded for descriptor f.
On(f) == {k \in Keys : table[k].fd = f}

\* One round of the walk over table_nodejobs, under its mutex.
CollectOne(w) ==
    /\ \/ pc[w] = "collect" /\ TableFree
       \/ pc[w] = "collecting"
    /\ \E k \in On(cur[w]) :
         /\ add' = [add EXCEPT ![w] = [t \in Types |-> @[t] + table[k].granted[t]]]
         /\ table' = [table EXCEPT ![k] = NoEntry]
         /\ rj' = Dangling(k, rj)
    /\ pc' = [pc EXCEPT ![w] = "collecting"]
    /\ UNCHANGED <<left, queue, net, cur, ti, ready, key, eof>>

\* The walk ends.  If it found nothing, so does release_client_by_fd.
CollectDone(w) ==
    /\ \/ pc[w] = "collect" /\ TableFree
       \/ pc[w] = "collecting"
    /\ On(cur[w]) = {}
    /\ pc' = [pc EXCEPT ![w] = IF pc[w] = "collecting" THEN "return" ELSE Handled(w)]
    /\ ti' = [ti EXCEPT ![w] = 1]
    /\ UNCHANGED <<pool, net, cur, locals, eof>>

\* Fault: what was given back is not drained to the waiting.
ReturnOnly(w) ==
    LET t == ti[w] IN
    /\ pc[w] = "return"
    /\ QueueFree(t)
    /\ left' = [left EXCEPT ![t] = @ + add[w][t]]
    /\ add' = [add EXCEPT ![w][t] = 0]
    /\ IF t < NTypes
         THEN ti' = [ti EXCEPT ![w] = @ + 1] /\ UNCHANGED pc
         ELSE ti' = [ti EXCEPT ![w] = 1] /\ pc' = [pc EXCEPT ![w] = Handled(w)]
    /\ UNCHANGED <<queue, table, net, cur, ready, key, rj, eof>>

\* One amount goes back under its mutexQueue; after the last, the drains.
Return(w) ==
    LET t == ti[w] IN
    /\ pc[w] = "return"
    /\ QueueFree(t)
    /\ left' = [left EXCEPT ![t] = @ + add[w][t]]
    /\ add' = [add EXCEPT ![w][t] = 0]
    /\ IF t < NTypes
         THEN ti' = [ti EXCEPT ![w] = @ + 1] /\ UNCHANGED pc
         ELSE ti' = [ti EXCEPT ![w] = 1] /\ pc' = [pc EXCEPT ![w] = "drain"]
    /\ UNCHANGED <<queue, table, net, cur, ready, key, rj, eof>>

-----------------------------------------------------------------------------
Client(c) == (\E f \in Fds : Connect(c, f)) \/ Release(c) \/ Disconnect(c)

Work(w) ==
    \/ Reserve(w) \/ ReadRelease(w) \/ ReadEof(w) \/ Rearm(w) \/ Close(w)
    \/ DrainPop(w) \/ DrainDone(w)
    \/ RecordFind(w) \/ RecordCopy(w) \/ RecordInsert(w) \/ SendGranted(w)
    \/ CollectOne(w) \/ CollectDone(w) \/ Return(w)

Next ==
    \/ \E c \in Conns : Client(c)
    \/ \E w \in Workers : Work(w) \/ \E f \in Fds : Serve(w, f)

Spec == Init /\ [][Next]_vars

\* The threads run, epoll reports every readable descriptor to some thread,
\* and a job that got its resource ends and gives it back.
Fairness ==
    /\ \A w \in Workers : WF_vars(Work(w))
    /\ \A f \in Fds : WF_vars(\E w \in Workers : Serve(w, f))
    /\ \A c \in Conns : WF_vars(Release(c))

FairSpec == Spec /\ Fairness

-----------------------------------------------------------------------------
(* Properties.                                                              *)

\* The types of the variables.  Amounts are integers: nothing but the tests of
\* drain_queue keeps them from going below zero.
TypeOK ==
    /\ left \in [Types -> Int]
    /\ queue \in [Types -> Seq(Requests)]
    /\ table \in [Keys -> Entries]
    /\ sock \in [Fds -> Conns \union {NoConn}]
    /\ client \in [Conns -> {"new", "waiting", "held", "closed"}]
    /\ inbox \in [Conns -> Seq({"RESERVE", "RELEASE", "EOF"})]
    /\ pc \in [Workers -> PCs]
    /\ cur \in [Workers -> Fds \union {NoFd}]
    /\ ti \in [Workers -> Types]
    /\ ready \in [Workers -> Seq(Requests)]
    /\ key \in [Workers -> Keys \union {<<>>}]
    /\ rj \in [Workers -> Entries \union {Freed}]
    /\ add \in [Workers -> [Types -> Int]]
    /\ eof \in [Workers -> BOOLEAN]

\* A worker that is not idle serves an open descriptor, and no two workers
\* serve the same one: EPOLLONESHOT, the re-arming in the right place and
\* closing only what one serves together do the work of a mutex per
\* connection (loopfunc.c, connect_client).
OneWorkerPerFd ==
    /\ \A w \in Workers : pc[w] # "idle" => cur[w] \in Fds /\ sock[cur[w]] # NoConn
    /\ \A w, v \in Workers : cur[w] = cur[v] /\ cur[w] # NoFd => w = v

\* What a worker at each stage of drain_queue and record_granted has in hand.
Stages ==
    \A w \in Workers :
        /\ pc[w] \in Recording => ready[w] # <<>>
        /\ pc[w] \in {"copy", "insert"} => key[w] \in Keys
        /\ pc[w] = "insert" => rj[w] \in Entries

\* Worker w will still look at the queue of type t in what it is doing now.
WillDrain(w, t) ==
    \/ pc[w] = "return"
    \/ pc[w] \in {"drain", "draining"} /\ ti[w] <= t
    \/ pc[w] \in Recording /\ ti[w] < t

\* No request is forgotten: when the free amount covers the request at the
\* head of a queue, some worker is on its way to drain that queue, whatever
\* the order in which enqueue_jobs, drain_queue and release_client_by_fd of
\* different workers take and give up the locks.
NoLostWakeup ==
    \A t \in Types : HeadFits(t) => \E w \in Workers : WillDrain(w, t)

\* The descriptor a connection was accepted on.
FdOf(c) == CHOOSE f \in Fds : sock[f] = c

\* A client that was told GRANTED and has not let go is on record for what
\* it asked, under its own descriptor, so a RELEASE or a disconnect finds it.
GrantIsBacked ==
    \A c \in Conns : client[c] = "held" =>
        table[<<JobOf[c], c>>] =
            [granted |-> [t \in Types |-> IF t = TypeOf[c] THEN AmountOf[c] ELSE 0],
             fd      |-> FdOf(c)]

\* Every client has come and gone and every worker waits in epoll_wait.
Quiet ==
    /\ \A c \in Conns : client[c] = "closed"
    /\ \A f \in Fds : sock[f] = NoConn
    /\ \A w \in Workers : pc[w] = "idle"

\* release_client_by_fd "returns to the local pool every resource reserved on
\* fd (a peer's RELEASE or an unexpected disconnect)": once all are gone, all
\* is free again.
ReclaimedOnDisconnect == Quiet => left = Capacity

\* Every RESERVE is answered: FIFO order and a drain after every return of
\* resources let no request starve, large ones behind a stream of small ones
\* included.
EveryRequestGranted ==
    \A c \in Conns : client[c] = "waiting" ~> client[c] = "held"
=============================================================================
