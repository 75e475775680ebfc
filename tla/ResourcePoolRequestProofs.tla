---------------------- MODULE ResourcePoolRequestProofs -----------------------
(***************************************************************************)
(* Where a request is while its client waits, for every number of workers, *)
(* types, connections and descriptors, when no client leaves before it is  *)
(* answered: the invariant behind GrantIsBacked, and the steps that put    *)
(* nothing on record and take nothing off it.                              *)
(***************************************************************************)
EXTENDS ResourcePoolProofs

-----------------------------------------------------------------------------
(* The inductive invariant.                                                 *)

\* The entry of a connection, and what it is once the grant is recorded.
Entry(c) == table[<<JobOf[c], c>>]

Amounts(c) == [t \in Types |-> IF t = TypeOf[c] THEN AmountOf[c] ELSE 0]

\* A connection has one descriptor, and what is unread fits the client.
ConnInv ==
    /\ \A f \in Fds : sock[f] # NoConn => client[sock[f]] # "new"
    /\ \A f, g \in Fds : sock[f] = sock[g] /\ sock[f] # NoConn => f = g
    /\ \A c \in Conns :
          /\ client[c] \in {"new", "held"} => inbox[c] = <<>>
          /\ client[c] = "waiting" => inbox[c] \in {<<>>, <<"RESERVE">>}
          /\ client[c] = "closed" => inbox[c] \in {<<>>, <<"EOF">>, <<"RELEASE", "EOF">>}

\* Request r is the one that the client on its descriptor waits for, of type t.
Filed(r, t) ==
    /\ sock[r.fd] \in Conns
    /\ client[sock[r.fd]] = "waiting" /\ inbox[sock[r.fd]] = <<>>
    /\ r.job = JobOf[sock[r.fd]] /\ r.amount = AmountOf[sock[r.fd]]
    /\ t = TypeOf[sock[r.fd]]

QueueInv ==
    \A t \in Types : \A i \in 1..Len(queue[t]) :
        Filed(queue[t][i], t) /\ Entry(sock[queue[t][i].fd]) = NoEntry

\* Request i of the stash is on record: GRANTED is about to be sent.
Recorded(w, i) == i = 1 /\ pc[w] = "send"

Stash(w) ==
    \A i \in 1..Len(ready[w]) :
        /\ Filed(ready[w][i], ti[w])
        /\ (Entry(sock[ready[w][i].fd]) # NoEntry) <=> Recorded(w, i)

ReadyInv == \A w \in Workers : Stash(w)

\* A client has one request, in one place.
OnceInv ==
    /\ \A t \in Types : \A i, h \in 1..Len(queue[t]) :
          queue[t][i].fd = queue[t][h].fd => i = h
    /\ \A w, v \in Workers : \A i \in 1..Len(ready[w]), h \in 1..Len(ready[v]) :
          ready[w][i].fd = ready[v][h].fd => w = v /\ i = h
    /\ \A t \in Types, w \in Workers :
          \A i \in 1..Len(queue[t]), h \in 1..Len(ready[w]) :
              queue[t][i].fd # ready[w][h].fd

\* An entry is that of the connection in its key, under its descriptor.
Own(k) ==
    /\ k[2] \in Conns /\ k[1] = JobOf[k[2]]
    /\ table[k].fd \in Fds /\ sock[table[k].fd] = k[2]
    /\ table[k].granted = Amounts(k[2])
    /\ inbox[k[2]] # <<"RESERVE">>

TableInv ==
    /\ \A k \in Keys : table[k] # NoEntry => Own(k)
    /\ \A c \in Conns : client[c] = "held" => Entry(c) # NoEntry

\* What a worker does fits the client that it serves and the requests it has.
AtWork(w) ==
    /\ ready[w] # <<>> => pc[w] \in Recording \union {"draining"}
    /\ pc[w] # "copy"
    /\ pc[w] = "insert" =>
          /\ key[w] = <<JobOf[sock[Head(ready[w]).fd]], sock[Head(ready[w]).fd]>>
          /\ rj[w] = NoEntry
    /\ pc[w] \in {"collect", "collecting"} => client[sock[cur[w]]] = "closed"
    /\ pc[w] = "close" => eof[w]
    /\ eof[w] =>
          /\ pc[w] \notin {"idle", "read"}
          /\ client[sock[cur[w]]] = "closed"
          /\ pc[w] \notin {"collect", "collecting"} => On(cur[w]) = {}

WorkerInv == \A w \in Workers : AtWork(w)

GInv == ConnInv /\ QueueInv /\ ReadyInv /\ OnceInv /\ TableInv /\ WorkerInv

-----------------------------------------------------------------------------
(* What a step leaves alone.                                                *)

\* No entry is under no descriptor.
LEMMA NoEntryFd == NoEntry.fd = NoFd
  BY DEF NoEntry

\* The requests of a node are requests.
LEMMA RequestTypes ==
    ASSUME TypeOK
    PROVE  /\ \A t \in Types : /\ queue[t] \in Seq(Requests)
                               /\ \A i \in 1..Len(queue[t]) : queue[t][i] \in Requests
           /\ \A w \in Workers : /\ ready[w] \in Seq(Requests)
                                 /\ \A i \in 1..Len(ready[w]) : ready[w][i] \in Requests
           /\ \A r \in Requests : r.fd \in Fds
<1>1. \A t \in Types : queue[t] \in Seq(Requests)
  BY DEF TypeOK
<1>2. \A w \in Workers : ready[w] \in Seq(Requests)
  BY DEF TypeOK
<1>3. \A q \in Seq(Requests) : \A i \in 1..Len(q) : q[i] \in Requests
  OBVIOUS
<1>4. \A r \in Requests : r.fd \in Fds
  BY DEF Requests
<1> QED
  BY <1>1, <1>2, <1>3, <1>4, Zenon

\* A request stays that of its client while the client does nothing.
LEMMA FiledKept ==
    ASSUME NEW r, NEW t, Filed(r, t), sock'[r.fd] = sock[r.fd],
           client'[sock[r.fd]] = client[sock[r.fd]], inbox'[sock[r.fd]] = inbox[sock[r.fd]]
    PROVE  Filed(r, t)'
  BY DEF Filed

\* Connections and clients that a step leaves alone stay in order.
LEMMA SameConns ==
    ASSUME ConnInv, UNCHANGED net
    PROVE  ConnInv'
  BY DEF ConnInv, net

\* So do the queues, if the table does not change either.
LEMMA SameQueues ==
    ASSUME QueueInv, UNCHANGED <<queue, table, net>>
    PROVE  QueueInv'
<1>1. ASSUME NEW r, NEW t PROVE Filed(r, t)' <=> Filed(r, t)
  BY DEF Filed, net
<1>2. \A c : Entry(c)' = Entry(c)
  BY DEF Entry
<1> QED
  BY <1>1, <1>2 DEF QueueInv, net

\* No request is filed twice by a step that moves none.
LEMMA SameOnce ==
    ASSUME OnceInv, UNCHANGED <<queue, ready>>
    PROVE  OnceInv'
  BY DEF OnceInv

\* The entries stay those of their connections.
LEMMA SameTable ==
    ASSUME TableInv, UNCHANGED <<table, net>>
    PROVE  TableInv'
<1>1. \A k : Own(k)' <=> Own(k)
  BY DEF Own, Amounts, net
<1>2. \A c : Entry(c)' = Entry(c)
  BY DEF Entry
<1> QED
  BY <1>1, <1>2 DEF TableInv, net

\* The stash of a worker stays as it is while the worker stays at its queue.
LEMMA SameReady ==
    ASSUME ReadyInv, UNCHANGED <<table, net, ready>>, NEW w \in Workers,
           \A v \in Workers \ {w} : pc'[v] = pc[v] /\ ti'[v] = ti[v],
           ready[w] = <<>> \/ (ti'[w] = ti[w] /\ pc[w] # "send" /\ pc'[w] # "send")
    PROVE  ReadyInv'
<1>1. ASSUME NEW r, NEW t PROVE Filed(r, t)' <=> Filed(r, t)
  BY DEF Filed, net
<1>2. \A c : Entry(c)' = Entry(c)
  BY DEF Entry
<1> SUFFICES ASSUME NEW v \in Workers, NEW i \in 1..Len(ready[v])
             PROVE  /\ Filed(ready[v][i], ti'[v])
                    /\ (Entry(sock[ready[v][i].fd]) # NoEntry) <=> (i = 1 /\ pc'[v] = "send")
  BY <1>1, <1>2 DEF ReadyInv, Stash, Recorded, net
<1>3. /\ Filed(ready[v][i], ti[v])
      /\ (Entry(sock[ready[v][i].fd]) # NoEntry) <=> (i = 1 /\ pc[v] = "send")
  BY DEF ReadyInv, Stash, Recorded
<1>4. CASE v = w
  BY <1>3, <1>4
<1>5. CASE v # w
  BY <1>3, <1>5, Zenon
<1> QED
  BY <1>4, <1>5

\* A worker that a step does not move still does what fits, if what it serves is
\* still open, a client that has closed stays so, and nothing is recorded under
\* a descriptor whose end it has seen.
LEMMA SameWorker ==
    ASSUME NEW v \in Workers, AtWork(v),
           pc'[v] = pc[v], cur'[v] = cur[v], ready'[v] = ready[v], key'[v] = key[v],
           rj'[v] = rj[v], eof'[v] = eof[v],
           pc[v] # "idle" =>
              /\ sock'[cur[v]] = sock[cur[v]]
              /\ client[sock[cur[v]]] = "closed" => client'[sock[cur[v]]] = "closed",
           pc[v] = "insert" => sock'[Head(ready[v]).fd] = sock[Head(ready[v]).fd],
           eof[v] => \A k \in Keys : table'[k].fd = cur[v] => table[k].fd = cur[v]
    PROVE  AtWork(v)'
<1>1. eof[v] => pc[v] # "idle"
  BY Zenon DEF AtWork
<1>2. eof[v] /\ On(cur[v]) = {} => On(cur[v])' = {}
  BY <1>1 DEF On
<1>3. ASSUME eof[v]
      PROVE  /\ pc'[v] \notin {"idle", "read"} /\ client'[sock'[cur'[v]]] = "closed"
             /\ pc'[v] \notin {"collect", "collecting"} => On(cur[v])' = {}
  BY <1>1, <1>2, <1>3, Zenon DEF AtWork
<1>4. pc'[v] = "insert" =>
         /\ key'[v] = <<JobOf[sock'[Head(ready'[v]).fd]], sock'[Head(ready'[v]).fd]>>
         /\ rj'[v] = NoEntry
  BY Zenon DEF AtWork
<1>5. pc'[v] \in {"collect", "collecting"} => client'[sock'[cur'[v]]] = "closed"
  <2>1. pc[v] \in {"collect", "collecting"} => pc[v] # "idle"
    BY Zenon
  <2> QED
    BY <2>1, Zenon DEF AtWork
<1> QED
  BY <1>3, <1>4, <1>5, Zenon DEF AtWork

\* A step does nothing to request r, its client and its entry.
Undisturbed(r) ==
    /\ sock'[r.fd] = sock[r.fd]
    /\ client'[sock[r.fd]] = client[sock[r.fd]]
    /\ inbox'[sock[r.fd]] = inbox[sock[r.fd]]
    /\ Entry(sock[r.fd])' = Entry(sock[r.fd])

\* A queue stays in order if nothing is done to its requests.
LEMMA KeptQueues ==
    ASSUME QueueInv, UNCHANGED queue,
           \A t \in Types : \A i \in 1..Len(queue[t]) :
              Filed(queue[t][i], t) => Undisturbed(queue[t][i])
    PROVE  QueueInv'
<1> SUFFICES ASSUME NEW t \in Types, NEW i \in 1..Len(queue[t]), NEW r, r = queue[t][i]
             PROVE  Filed(r, t)' /\ (Entry(sock[r.fd]) = NoEntry)'
  BY DEF QueueInv
<1>1. Filed(r, t) /\ Entry(sock[r.fd]) = NoEntry /\ Undisturbed(r)
  BY DEF QueueInv
<1>2. Filed(r, t)'
  BY <1>1, FiledKept, Zenon DEF Undisturbed
<1>3. (Entry(sock[r.fd]) = NoEntry)'
  BY <1>1, Zenon DEF Undisturbed, Entry
<1> QED
  BY <1>2, <1>3

\* So does a stash.
LEMMA KeptStash ==
    ASSUME NEW v \in Workers, Stash(v), ready'[v] = ready[v], ti'[v] = ti[v],
           pc'[v] = "send" <=> pc[v] = "send",
           \A i \in 1..Len(ready[v]) :
              Filed(ready[v][i], ti[v]) => Undisturbed(ready[v][i])
    PROVE  Stash(v)'
<1> SUFFICES ASSUME NEW i \in 1..Len(ready[v]), NEW r, r = ready[v][i], NEW t, t = ti[v]
             PROVE  /\ Filed(r, t)'
                    /\ (Entry(sock[r.fd]) # NoEntry)' <=> Recorded(v, i)'
  BY DEF Stash
<1>1. /\ Filed(r, t) /\ Undisturbed(r)
      /\ (Entry(sock[r.fd]) # NoEntry) <=> Recorded(v, i)
  BY DEF Stash
<1>2. Filed(r, t)'
  BY <1>1, FiledKept, Zenon DEF Undisturbed
<1>3. Recorded(v, i)' <=> Recorded(v, i)
  BY DEF Recorded
<1>4. (Entry(sock[r.fd]) # NoEntry)' <=> Entry(sock[r.fd]) # NoEntry
  BY <1>1, Zenon DEF Undisturbed, Entry
<1> QED
  BY <1>1, <1>2, <1>3, <1>4, Zenon

\* A step of worker w that changes neither tables nor connections nor stashes
\* keeps the invariant, if w goes on with something that fits.
LEMMA WorkerMoves ==
    ASSUME GInv, NEW w \in Workers, UNCHANGED <<queue, table, net, ready>>,
           \A v \in Workers \ {w} :
              /\ pc'[v] = pc[v] /\ cur'[v] = cur[v] /\ ti'[v] = ti[v]
              /\ key'[v] = key[v] /\ rj'[v] = rj[v] /\ eof'[v] = eof[v],
           ready[w] = <<>> \/ (ti'[w] = ti[w] /\ pc[w] # "send" /\ pc'[w] # "send"),
           AtWork(w)'
    PROVE  GInv'
<1>1. ConnInv' /\ QueueInv' /\ OnceInv' /\ TableInv' /\ ReadyInv'
  BY SameConns, SameQueues, SameOnce, SameTable, SameReady, Zenon DEF GInv
<1>2. ASSUME NEW v \in Workers \ {w} PROVE AtWork(v)'
  <2>1. AtWork(v)
    BY DEF GInv, WorkerInv
  <2> QED
    BY <2>1, SameWorker DEF net
<1>3. WorkerInv'
  BY <1>2 DEF WorkerInv
<1> QED
  BY <1>1, <1>3 DEF GInv

\* An idle worker is given an event.
LEMMA ServeGrants ==
    ASSUME Safe, GInv, NEW w \in Workers, NEW f \in Fds, Serve(w, f)
    PROVE  GInv'
<1>1. /\ UNCHANGED <<queue, table, net, ready, ti, key, rj, eof>>
      /\ pc[w] = "idle" /\ pc' = [pc EXCEPT ![w] = "read"] /\ cur' = [cur EXCEPT ![w] = f]
  BY Zenon DEF Serve, pool, locals
<1>2. AtWork(w) /\ ready[w] = <<>> /\ ~eof[w]
  BY <1>1, Zenon DEF GInv, WorkerInv, AtWork, Recording
<1>3. pc'[w] = "read" /\ \A v \in Workers \ {w} : pc'[v] = pc[v] /\ cur'[v] = cur[v]
  BY <1>1 DEF Safe, TypeOK
<1>4. AtWork(w)'
  BY <1>1, <1>2, <1>3, Zenon DEF AtWork
<1> QED
  BY <1>1, <1>2, <1>3, <1>4, WorkerMoves

\* A worker has read all there is.
LEMMA RearmGrants ==
    ASSUME Safe, GInv, NEW w \in Workers, Rearm(w)
    PROVE  GInv'
<1>1. /\ UNCHANGED <<queue, table, net, ready, ti, key, rj, eof>>
      /\ pc[w] = "read" /\ pc' = [pc EXCEPT ![w] = "idle"] /\ cur' = [cur EXCEPT ![w] = NoFd]
  BY Zenon DEF Rearm, pool, locals
<1>2. AtWork(w) /\ ready[w] = <<>> /\ ~eof[w]
  BY <1>1, Zenon DEF GInv, WorkerInv, AtWork, Recording
<1>3. pc'[w] = "idle" /\ \A v \in Workers \ {w} : pc'[v] = pc[v] /\ cur'[v] = cur[v]
  BY <1>1 DEF Safe, TypeOK
<1>4. AtWork(w)'
  BY <1>1, <1>2, <1>3, Zenon DEF AtWork
<1> QED
  BY <1>1, <1>2, <1>3, <1>4, WorkerMoves

\* A worker with an empty stash goes on to the next queue.
LEMMA QueueOver ==
    ASSUME Safe, GInv, NEW w \in Workers, NextQueue(w), ready'[w] = <<>>,
           UNCHANGED <<table, sock, cur, eof>>, pc[w] \in Recording \union {"drain", "draining"},
           client[sock[cur[w]]] = "closed" => client'[sock[cur[w]]] = "closed"
    PROVE  AtWork(w)'
<1>1. AtWork(w) /\ TypeOK
  BY DEF GInv, WorkerInv, Safe
<1>2. pc'[w] \in {"drain", "read", "close"}
  BY <1>1, NextQueueStep, Zenon
<1>3. pc'[w] = "read" => ~eof[w]
  BY <1>1, <1>2 DEF NextQueue, Handled, TypeOK
<1>4. pc'[w] = "close" => eof[w]
  BY <1>1, <1>2 DEF NextQueue, Handled, TypeOK
<1>5. On(cur[w])' = On(cur[w])
  BY Zenon DEF On
<1>6. eof[w] => client[sock[cur[w]]] = "closed" /\ On(cur[w]) = {}
  BY <1>1, Zenon DEF AtWork, Recording
<1> QED
  BY <1>2, <1>3, <1>4, <1>5, <1>6, Zenon DEF AtWork

\* The head of a queue does not fit.
LEMMA DrainDoneGrants ==
    ASSUME Safe, GInv, NEW w \in Workers, DrainDone(w)
    PROVE  GInv'
<1>1. /\ UNCHANGED <<queue, table, net, ready, cur, key, rj, eof>>
      /\ pc[w] \in {"drain", "draining"} /\ TypeOK /\ AtWork(w)
  BY DEF DrainDone, pool, locals, Safe, GInv, WorkerInv
<1>2. CASE ready[w] # <<>>
  <2>1. pc' = [pc EXCEPT ![w] = "find"] /\ ti' = ti
    BY <1>2 DEF DrainDone
  <2>2. pc'[w] = "find" /\ \A v \in Workers \ {w} : pc'[v] = pc[v]
    BY <1>1, <2>1 DEF TypeOK
  <2>3. On(cur[w])' = On(cur[w])
    BY <1>1, Zenon DEF On
  <2>4. AtWork(w)'
    BY <1>1, <2>2, <2>3, Zenon DEF AtWork, Recording, net
  <2> QED
    BY <1>1, <2>1, <2>2, <2>4, WorkerMoves, Zenon
<1>3. CASE ready[w] = <<>>
  <2>1. NextQueue(w)
    BY <1>3 DEF DrainDone
  <2>2. \A v \in Workers \ {w} : pc'[v] = pc[v] /\ ti'[v] = ti[v]
    BY <1>1, <2>1, NextQueueStep
  <2>3. AtWork(w)'
    BY <1>1, <1>3, <2>1, QueueOver, Zenon DEF net
  <2> QED
    BY <1>1, <1>3, <2>2, <2>3, WorkerMoves
<1> QED
  BY <1>2, <1>3, Zenon

\* The walk over the table finds nothing any more.
LEMMA CollectDoneGrants ==
    ASSUME Safe, GInv, NEW w \in Workers, CollectDone(w)
    PROVE  GInv'
<1>1. /\ UNCHANGED <<queue, table, net, ready, cur, key, rj, eof>>
      /\ pc[w] \in {"collect", "collecting"} /\ TypeOK /\ AtWork(w)
      /\ On(cur[w]) = {}
  BY DEF CollectDone, pool, locals, Safe, GInv, WorkerInv
<1>2. pc' = [pc EXCEPT ![w] = IF pc[w] = "collecting" THEN "return" ELSE Handled(w)]
      /\ ti' = [ti EXCEPT ![w] = 1]
  BY DEF CollectDone
<1>3. /\ pc'[w] \in {"return", "close", "read"}
      /\ (pc'[w] = "close" => eof[w]) /\ (pc'[w] = "read" => ~eof[w])
      /\ \A v \in Workers \ {w} : pc'[v] = pc[v] /\ ti'[v] = ti[v]
  BY <1>1, <1>2, Zenon DEF TypeOK, Handled
<1>4. ready[w] = <<>> /\ On(cur[w])' = {}
  BY <1>1, Zenon DEF AtWork, Recording, On
<1>5. AtWork(w)'
  BY <1>1, <1>3, <1>4, Zenon DEF AtWork, net
<1> QED
  BY <1>1, <1>3, <1>4, <1>5, WorkerMoves, Zenon

\* What was collected goes back to the queue of one type.
LEMMA ReturnGrants ==
    ASSUME Safe, GInv, NEW w \in Workers, Return(w)
    PROVE  GInv'
<1>1. /\ UNCHANGED <<queue, table, net, ready, cur, key, rj, eof>>
      /\ pc[w] = "return" /\ TypeOK /\ AtWork(w)
  BY DEF Return, pool, locals, Safe, GInv, WorkerInv
<1>2. /\ pc'[w] \in {"return", "drain"}
      /\ \A v \in Workers \ {w} : pc'[v] = pc[v] /\ ti'[v] = ti[v]
  BY <1>1 DEF Return, TypeOK
<1>3. ready[w] = <<>> /\ On(cur[w])' = On(cur[w])
  BY <1>1 DEF AtWork, Recording, On
<1>4. AtWork(w)'
  BY <1>1, <1>2, <1>3, Zenon DEF AtWork, net
<1> QED
  BY <1>1, <1>2, <1>3, <1>4, WorkerMoves

\* record_granted finds no entry: nothing was granted on the connection before.
LEMMA RecordFindGrants ==
    ASSUME Safe, GInv, NEW w \in Workers, RecordFind(w)
    PROVE  GInv'
<1>1. /\ UNCHANGED <<queue, table, net, ready, cur, ti, eof>>
      /\ pc[w] = "find" /\ TypeOK /\ AtWork(w) /\ ready[w] # <<>>
  BY DEF RecordFind, pool, Safe, Stages, Recording, GInv, WorkerInv
<1>2. ready[w] \in Seq(Requests)
  BY <1>1, RequestTypes, Zenon
<1>3. PICK rq \in Requests : rq = Head(ready[w]) /\ rq = ready[w][1] /\ 1 \in 1..Len(ready[w])
  BY <1>1, <1>2
<1>4. PICK c : c = sock[rq.fd]
  BY Zenon
<1>5. /\ c \in Conns /\ client[c] = "waiting" /\ rq.job = JobOf[c]
      /\ Entry(c) = NoEntry
  <2>1. Filed(rq, ti[w]) /\ ((Entry(c) # NoEntry) <=> Recorded(w, 1))
    BY <1>3, <1>4 DEF GInv, ReadyInv, Stash
  <2> QED
    BY <1>1, <1>4, <2>1 DEF Filed, Recorded
<1>6. PeerOf(rq.fd) = {c}
  BY <1>4, <1>5, NullsAssumption DEF PeerOf
<1>7. /\ key' = [key EXCEPT ![w] = <<JobOf[c], c>>]
      /\ rj' = [rj EXCEPT ![w] = NoEntry]
      /\ pc' = [pc EXCEPT ![w] = "insert"]
  BY <1>3, <1>5, <1>6, Zenon DEF RecordFind, Entry
<1>8. /\ key'[w] = <<JobOf[c], c>> /\ rj'[w] = NoEntry /\ pc'[w] = "insert"
      /\ \A v \in Workers \ {w} : pc'[v] = pc[v] /\ key'[v] = key[v] /\ rj'[v] = rj[v]
  BY <1>1, <1>7 DEF TypeOK
<1>9. On(cur[w])' = On(cur[w])
  BY <1>1, Zenon DEF On
<1>10. AtWork(w)'
  BY <1>1, <1>3, <1>4, <1>8, <1>9, Zenon DEF AtWork, Recording, net
<1> QED
  BY <1>1, <1>8, <1>10, WorkerMoves, Zenon
-----------------------------------------------------------------------------
(* The clients.                                                             *)

\* What happens to a client that does not wait, or to its connection, disturbs no
\* request.
LEMMA OtherClient ==
    ASSUME NEW r, NEW t, Filed(r, t), NEW c, client[c] # "waiting", UNCHANGED table,
           sock'[r.fd] = sock[r.fd],
           \A d \in Conns \ {c} : client'[d] = client[d] /\ inbox'[d] = inbox[d]
    PROVE  Undisturbed(r)
<1>1. sock[r.fd] \in Conns \ {c}
  BY DEF Filed
<1> QED
  BY <1>1, Zenon DEF Undisturbed, Entry

\* A new connection is accepted on a free descriptor.
LEMMA ConnectGrants ==
    ASSUME Safe, GInv, NEW c \in Conns, NEW f \in Fds, Connect(c, f)
    PROVE  GInv'
<1>1. /\ UNCHANGED <<queue, table, pc, cur, ti, ready, key, rj, eof>>
      /\ client[c] = "new" /\ sock[f] = NoConn /\ TypeOK
  BY DEF Connect, pool, locals, Safe
<1>2. /\ client' = [client EXCEPT ![c] = "waiting"]
      /\ sock' = [sock EXCEPT ![f] = c]
      /\ inbox' = [inbox EXCEPT ![c] = <<"RESERVE">>]
  BY DEF Connect
<1>3. /\ client'[c] = "waiting" /\ inbox'[c] = <<"RESERVE">> /\ sock'[f] = c
      /\ \A d \in Conns \ {c} : client'[d] = client[d] /\ inbox'[d] = inbox[d]
      /\ \A g \in Fds \ {f} : sock'[g] = sock[g]
  BY <1>1, <1>2 DEF TypeOK
<1>4. /\ \A g \in Fds : sock[g] \in Conns \union {NoConn} /\ sock[g] # c
      /\ c # NoConn
  BY <1>1, NullsAssumption, Zenon DEF TypeOK, GInv, ConnInv
<1>5. ConnInv'
  <2>1. /\ \A g \in Fds : sock[g] # NoConn => client[sock[g]] # "new"
        /\ \A g, h \in Fds : sock[g] = sock[h] /\ sock[g] # NoConn => g = h
    BY DEF GInv, ConnInv
  <2>2. \A g \in Fds : sock'[g] # NoConn => client'[sock'[g]] # "new"
    BY <1>3, <1>4, <2>1
  <2>3. \A g, h \in Fds : sock'[g] = sock'[h] /\ sock'[g] # NoConn => g = h
    BY <1>3, <1>4, <2>1
  <2>4. ASSUME NEW d \in Conns
        PROVE  /\ client'[d] \in {"new", "held"} => inbox'[d] = <<>>
               /\ client'[d] = "waiting" => inbox'[d] \in {<<>>, <<"RESERVE">>}
               /\ client'[d] = "closed" =>
                     inbox'[d] \in {<<>>, <<"EOF">>, <<"RELEASE", "EOF">>}
    <3>1. CASE d = c
      BY <1>3, <3>1, Zenon
    <3>2. CASE d # c
      BY <1>3, <3>2, Zenon DEF GInv, ConnInv
    <3> QED
      BY <3>1, <3>2
  <2> QED
    BY <2>2, <2>3, <2>4 DEF ConnInv
<1>6. ASSUME NEW r \in Requests, NEW t, Filed(r, t) PROVE Undisturbed(r)
  <2>1. r.fd \in Fds /\ r.fd # f
    BY <1>1, <1>6, RequestTypes, NullsAssumption, Zenon DEF Filed
  <2> QED
    BY <1>1, <1>3, <1>6, <2>1, OtherClient, Zenon
<1>7. QueueInv'
  BY <1>1, <1>6, RequestTypes, KeptQueues, Zenon DEF GInv
<1>8. ReadyInv'
  BY <1>1, <1>6, RequestTypes, KeptStash, Zenon DEF GInv, ReadyInv
<1>9. TableInv'
  <2>1. ASSUME NEW k \in Keys, table[k] # NoEntry PROVE Own(k)'
    <3>1. Own(k)
      BY <2>1, Zenon DEF GInv, TableInv
    <3>2. k[2] # c /\ table[k].fd # f
      BY <1>1, <1>4, <3>1, NullsAssumption, Zenon DEF Own
    <3> QED
      BY <1>1, <1>3, <3>1, <3>2 DEF Own, Amounts
  <2>2. ASSUME NEW d \in Conns, client'[d] = "held" PROVE Entry(d)' # NoEntry
    <3>1. d # c /\ client[d] = "held"
      BY <1>3, <2>2, Zenon
    <3> QED
      BY <1>1, <3>1 DEF GInv, TableInv, Entry
  <2> QED
    BY <1>1, <2>1, <2>2, Zenon DEF TableInv
<1>10. ASSUME NEW v \in Workers PROVE AtWork(v)'
  <2>1. AtWork(v) /\ Stash(v)
    BY Zenon DEF GInv, WorkerInv, ReadyInv
  <2>2. pc[v] # "idle" =>
           /\ sock'[cur[v]] = sock[cur[v]]
           /\ client[sock[cur[v]]] = "closed" => client'[sock[cur[v]]] = "closed"
    <3>1. pc[v] # "idle" => cur[v] \in Fds /\ sock[cur[v]] \in Conns
      BY Serving, Zenon
    <3> QED
      BY <1>1, <1>3, <1>4, <3>1, NullsAssumption, Zenon
  <2>3. pc[v] = "insert" => sock'[Head(ready[v]).fd] = sock[Head(ready[v]).fd]
    <3> SUFFICES ASSUME pc[v] = "insert"
                 PROVE  sock'[Head(ready[v]).fd] = sock[Head(ready[v]).fd]
      OBVIOUS
    <3>1. ready[v] # <<>> /\ ready[v] \in Seq(Requests)
      BY <1>1, RequestTypes DEF Safe, Stages, Recording
    <3>2. 1 \in 1..Len(ready[v]) /\ Head(ready[v]) = ready[v][1] /\ ready[v][1] \in Requests
      BY <3>1
    <3>3. Filed(ready[v][1], ti[v])
      BY <2>1, <3>2, Zenon DEF Stash
    <3> QED
      BY <1>6, <3>2, <3>3, Zenon DEF Undisturbed
  <2> QED
    BY <1>1, <2>1, <2>2, <2>3, SameWorker, Zenon
<1> QED
  BY <1>1, <1>5, <1>7, <1>8, <1>9, <1>10, SameOnce, Zenon DEF GInv, WorkerInv

\* The request that a worker is about to record or to answer.
LEMMA HeadFiled ==
    ASSUME Safe, NEW v \in Workers, Stash(v), pc[v] \in Recording
    PROVE  /\ ready[v] \in Seq(Requests) /\ ready[v] # <<>> /\ Len(ready[v]) \in Nat
           /\ 1 \in 1..Len(ready[v]) /\ Head(ready[v]) = ready[v][1]
           /\ ready[v][1] \in Requests /\ Filed(ready[v][1], ti[v])
           /\ (Entry(sock[ready[v][1].fd]) # NoEntry) <=> pc[v] = "send"
<1>1. ready[v] # <<>> /\ ready[v] \in Seq(Requests)
  BY RequestTypes DEF Safe, Stages
<1>2. /\ Len(ready[v]) \in Nat /\ 1 \in 1..Len(ready[v])
      /\ Head(ready[v]) = ready[v][1] /\ ready[v][1] \in Requests
  BY <1>1
<1> QED
  BY <1>1, <1>2 DEF Stash, Recorded

\* A client that holds something, or has closed, goes on.
LEMMA ClientMoves ==
    ASSUME Safe, GInv, NEW c \in Conns, client[c] \in {"held", "closed"}, client'[c] = "closed",
           inbox'[c] \in {<<>>, <<"EOF">>, <<"RELEASE", "EOF">>},
           \A d \in Conns \ {c} : client'[d] = client[d] /\ inbox'[d] = inbox[d],
           UNCHANGED <<queue, table, sock, ready, ti>>,
           \A v \in Workers : pc'[v] = "send" <=> pc[v] = "send"
    PROVE  /\ ConnInv' /\ QueueInv' /\ ReadyInv' /\ OnceInv' /\ TableInv'
           /\ \A d \in Conns : client[d] = "closed" => client'[d] = "closed"
<1>1. TypeOK
  BY Zenon DEF Safe
<1>2. \A g \in Fds : sock[g] \in Conns \union {NoConn}
  BY <1>1, Zenon DEF TypeOK
<1>3. ConnInv'
  <2>1. ASSUME NEW g \in Fds, sock[g] # NoConn PROVE client'[sock[g]] # "new"
    <3>1. client[sock[g]] # "new" /\ sock[g] \in Conns
      BY <1>2, <2>1 DEF GInv, ConnInv
    <3> QED
      BY <3>1, Zenon
  <2>2. \A g, h \in Fds : sock[g] = sock[h] /\ sock[g] # NoConn => g = h
    BY DEF GInv, ConnInv
  <2>3. ASSUME NEW d \in Conns
        PROVE  /\ client'[d] \in {"new", "held"} => inbox'[d] = <<>>
               /\ client'[d] = "waiting" => inbox'[d] \in {<<>>, <<"RESERVE">>}
               /\ client'[d] = "closed" =>
                     inbox'[d] \in {<<>>, <<"EOF">>, <<"RELEASE", "EOF">>}
    <3>1. CASE d = c
      BY <3>1, Zenon
    <3>2. CASE d # c
      BY <3>2, Zenon DEF GInv, ConnInv
    <3> QED
      BY <3>1, <3>2
  <2> QED
    BY <2>1, <2>2, <2>3 DEF ConnInv
<1>4. ASSUME NEW r, NEW t, Filed(r, t) PROVE Undisturbed(r)
  BY <1>4, OtherClient, Zenon
<1>5. QueueInv'
  BY <1>4, KeptQueues, Zenon DEF GInv
<1>6. ReadyInv'
  BY <1>4, KeptStash, Zenon DEF GInv, ReadyInv
<1>7. TableInv'
  <2>1. ASSUME NEW k \in Keys, table[k] # NoEntry PROVE Own(k)'
    <3>1. Own(k)
      BY <2>1, Zenon DEF GInv, TableInv
    <3>2. inbox'[k[2]] # <<"RESERVE">>
      <4>1. CASE k[2] = c
        <5>1. <<"EOF">> # <<"RESERVE">> /\ <<"RELEASE", "EOF">> # <<"RESERVE">> /\ <<>> # <<"RESERVE">>
          OBVIOUS
        <5> QED
          BY <4>1, <5>1, Zenon
      <4>2. CASE k[2] # c
        BY <3>1, <4>2, Zenon DEF Own
      <4> QED
        BY <4>1, <4>2
    <3> QED
      BY <3>1, <3>2, Zenon DEF Own, Amounts
  <2>2. ASSUME NEW d \in Conns, client'[d] = "held" PROVE Entry(d)' # NoEntry
    <3>1. d # c /\ client[d] = "held"
      BY <2>2, Zenon
    <3> QED
      BY <3>1, Zenon DEF GInv, TableInv, Entry
  <2> QED
    BY <2>1, <2>2, Zenon DEF TableInv
<1> QED
  BY <1>3, <1>5, <1>6, <1>7, SameOnce DEF GInv

\* A client that was granted leaves, with RELEASE or without.
LEMMA LeaveGrants ==
    ASSUME ~Abandon, Safe, GInv, NEW c \in Conns, Release(c) \/ Disconnect(c)
    PROVE  GInv'
<1>1. /\ UNCHANGED <<queue, table, sock, pc, cur, ti, ready, key, rj, eof>>
      /\ client[c] = "held" /\ client' = [client EXCEPT ![c] = "closed"]
  BY DEF Release, Disconnect, pool, locals
<1>2. inbox[c] = <<>> /\ inbox \in [Conns -> Seq({"RESERVE", "RELEASE", "EOF"})]
      /\ client \in [Conns -> {"new", "waiting", "held", "closed"}]
  BY <1>1, Zenon DEF GInv, ConnInv, Safe, TypeOK
<1>3. inbox'[c] \in {<<"EOF">>, <<"RELEASE", "EOF">>}
  <2>1. CASE Release(c)
    <3>1. inbox'[c] = <<>> \o <<"RELEASE", "EOF">>
      BY <1>2, <2>1, Zenon DEF Release
    <3> QED
      BY <3>1
  <2>2. CASE Disconnect(c)
    <3>1. inbox'[c] = Append(<<>>, "EOF")
      BY <1>2, <2>2 DEF Disconnect
    <3> QED
      BY <3>1
  <2> QED
    BY <2>1, <2>2
<1>4. /\ client'[c] = "closed"
      /\ \A d \in Conns \ {c} : client'[d] = client[d] /\ inbox'[d] = inbox[d]
  BY <1>1, <1>2, Zenon DEF Release, Disconnect
<1>5. /\ ConnInv' /\ QueueInv' /\ ReadyInv' /\ OnceInv' /\ TableInv'
      /\ \A d \in Conns : client[d] = "closed" => client'[d] = "closed"
  BY <1>1, <1>3, <1>4, ClientMoves, Zenon
<1>6. ASSUME NEW v \in Workers PROVE AtWork(v)'
  <2>1. AtWork(v)
    BY DEF GInv, WorkerInv
  <2>2. pc[v] # "idle" => sock[cur[v]] \in Conns
    BY Serving
  <2> QED
    BY <1>1, <1>5, <2>1, <2>2, SameWorker, Zenon
<1> QED
  BY <1>5, <1>6 DEF GInv, WorkerInv

-----------------------------------------------------------------------------
(* Reading a connection.                                                    *)

\* RELEASE and the end of a connection are read after the client has closed it.
LEMMA ReadEndGrants ==
    ASSUME Safe, GInv, NEW w \in Workers, ReadRelease(w) \/ ReadEof(w)
    PROVE  GInv'
<1>1. /\ UNCHANGED <<queue, table, sock, client, cur, ti, ready, key, rj>>
      /\ pc[w] = "read" /\ pc' = [pc EXCEPT ![w] = "collect"] /\ TypeOK
  BY Zenon DEF ReadRelease, ReadEof, Read, pool, locals, Safe
<1>2. PICK c \in Conns : c = sock[cur[w]]
  BY <1>1, Serving, Zenon
<1>3. /\ inbox[c] # <<>> /\ Head(inbox[c]) \in {"RELEASE", "EOF"}
      /\ inbox' = [inbox EXCEPT ![c] = Tail(inbox[c])]
  BY <1>2, Zenon DEF ReadRelease, ReadEof, Read
<1>4. inbox[c] \in {<<"EOF">>, <<"RELEASE", "EOF">>} /\ client[c] = "closed"
  <2>1. Head(<<"RESERVE">>) = "RESERVE"
    OBVIOUS
  <2>2. client[c] \in {"new", "waiting", "held", "closed"}
    BY <1>1 DEF TypeOK
  <2> QED
    BY <1>3, <2>1, <2>2 DEF GInv, ConnInv
<1>5. inbox'[c] \in {<<>>, <<"EOF">>}
  <2>1. Tail(<<"EOF">>) = <<>> /\ Tail(<<"RELEASE", "EOF">>) = <<"EOF">>
    OBVIOUS
  <2>2. inbox'[c] = Tail(inbox[c])
    BY <1>1, <1>3 DEF TypeOK
  <2> QED
    BY <1>4, <2>1, <2>2, Zenon
<1>6. \A d \in Conns \ {c} : client'[d] = client[d] /\ inbox'[d] = inbox[d]
  BY <1>1, <1>3, Zenon DEF TypeOK
<1>7. /\ pc'[w] = "collect" /\ \A v \in Workers \ {w} : pc'[v] = pc[v] /\ eof'[v] = eof[v]
  BY <1>1 DEF TypeOK, ReadRelease, ReadEof
<1>8. /\ ConnInv' /\ QueueInv' /\ ReadyInv' /\ OnceInv' /\ TableInv'
  BY <1>1, <1>4, <1>5, <1>6, <1>7, ClientMoves, Zenon
<1>9. ASSUME NEW v \in Workers PROVE AtWork(v)'
  <2>1. AtWork(v)
    BY Zenon DEF GInv, WorkerInv
  <2>2. CASE v # w
    BY <1>1, <1>7, <2>1, <2>2, SameWorker, Zenon
  <2>3. CASE v = w
    BY <1>1, <1>2, <1>4, <1>7, <2>1, <2>3, Zenon DEF AtWork, Recording
  <2> QED
    BY <2>2, <2>3
<1> QED
  BY <1>8, <1>9, Zenon DEF GInv, WorkerInv

\* Two requests on different descriptors are of different connections.
LEMMA OtherConn ==
    ASSUME GInv, NEW r \in Requests, NEW s \in Requests, NEW t, NEW u,
           Filed(r, t), Filed(s, u), r.fd # s.fd
    PROVE  sock[r.fd] # sock[s.fd]
<1>1. sock[r.fd] # NoConn /\ r.fd \in Fds /\ s.fd \in Fds
  BY NullsAssumption, Zenon DEF Filed, Requests
<1> QED
  BY <1>1 DEF GInv, ConnInv

\* No other request is on the descriptor of one in a stash.
LEMMA OnlyRequest ==
    ASSUME GInv, NEW w \in Workers, NEW h \in 1..Len(ready[w])
    PROVE  /\ \A t \in Types : \A i \in 1..Len(queue[t]) : queue[t][i].fd # ready[w][h].fd
           /\ \A v \in Workers : \A i \in 1..Len(ready[v]) :
                 ready[v][i].fd = ready[w][h].fd => v = w /\ i = h
<1>1. \A t \in Types, v \in Workers :
          \A i \in 1..Len(queue[t]), g \in 1..Len(ready[v]) : queue[t][i].fd # ready[v][g].fd
  BY Zenon DEF GInv, OnceInv
<1>2. \A v, x \in Workers : \A i \in 1..Len(ready[v]), g \in 1..Len(ready[x]) :
          ready[v][i].fd = ready[x][g].fd => v = x /\ i = g
  BY DEF GInv, OnceInv
<1>3. \A t \in Types : \A i \in 1..Len(queue[t]) : queue[t][i].fd # ready[w][h].fd
  BY <1>1, Zenon
<1>4. \A v \in Workers : \A i \in 1..Len(ready[v]) :
          ready[v][i].fd = ready[w][h].fd => v = w /\ i = h
  BY <1>2, Zenon
<1> QED
  BY <1>3, <1>4, Zenon

\* RESERVE is read once, and its request is the only one of the connection.
LEMMA ReserveGrants ==
    ASSUME Safe, GInv, NEW w \in Workers, Reserve(w)
    PROVE  GInv'
<1>1. /\ UNCHANGED <<table, sock, client, cur, ready, key, rj, eof>>
      /\ pc[w] = "read" /\ pc' = [pc EXCEPT ![w] = "drain"]
      /\ ti' = [ti EXCEPT ![w] = 1] /\ TypeOK
  BY Zenon DEF Reserve, Read, pool, locals, Safe
<1>2. PICK c \in Conns : c = sock[cur[w]] /\ cur[w] \in Fds
  BY <1>1, Serving
<1>3. PICK t \in Types : t = TypeOf[c]
  BY ConnsAssumption
<1>4. PICK rq \in Requests :
         /\ rq.job = JobOf[c] /\ rq.fd = cur[w] /\ rq.amount = AmountOf[c]
         /\ queue' = [queue EXCEPT ![t] = Append(queue[t], rq)]
  <2>1. [job |-> JobOf[c], fd |-> cur[w], amount |-> AmountOf[c]] \in Requests
    BY <1>2, ConnsAssumption DEF Requests
  <2> QED
    BY <1>2, <1>3, <2>1, Zenon DEF Reserve
<1>5. /\ inbox[c] # <<>> /\ Head(inbox[c]) = "RESERVE"
      /\ inbox' = [inbox EXCEPT ![c] = Tail(inbox[c])]
  BY <1>2, Zenon DEF Reserve, Read
<1>6. inbox[c] = <<"RESERVE">> /\ client[c] = "waiting"
  <2>1. Head(<<"EOF">>) = "EOF" /\ Head(<<"RELEASE", "EOF">>) = "RELEASE"
    OBVIOUS
  <2>2. client[c] \in {"new", "waiting", "held", "closed"}
    BY <1>1, Zenon DEF TypeOK
  <2> QED
    BY <1>5, <2>1, <2>2 DEF GInv, ConnInv
<1>7. /\ inbox'[c] = <<>> /\ \A d \in Conns \ {c} : inbox'[d] = inbox[d]
  BY <1>1, <1>5, <1>6 DEF TypeOK
<1>8. /\ pc'[w] = "drain" /\ \A v \in Workers \ {w} : pc'[v] = pc[v] /\ ti'[v] = ti[v]
  BY <1>1, Zenon DEF TypeOK
<1>9. AtWork(w) /\ ready[w] = <<>> /\ ~eof[w]
  BY <1>1, Zenon DEF GInv, WorkerInv, AtWork, Recording
<1>10. ASSUME NEW r, NEW u, Filed(r, u) PROVE sock[r.fd] # c /\ r.fd # cur[w] /\ Undisturbed(r)
  <2>1. sock[r.fd] # c /\ sock[r.fd] \in Conns
    BY <1>6, <1>10 DEF Filed
  <2>2. Undisturbed(r)
    BY <1>1, <1>7, <2>1, Zenon DEF Undisturbed, Entry
  <2> QED
    BY <1>2, <2>1, <2>2, Zenon
<1>11. Entry(c) = NoEntry
  <2>1. <<JobOf[c], c>> \in Keys
    BY ConnsAssumption, Zenon DEF Keys
  <2>2. Own(<<JobOf[c], c>>) => inbox[c] # <<"RESERVE">>
    BY Zenon DEF Own
  <2> QED
    BY <1>6, <2>1, <2>2 DEF GInv, TableInv, Entry
<1>12. ConnInv'
  <2>1. /\ \A g \in Fds : sock[g] # NoConn => client[sock[g]] # "new"
        /\ \A g, h \in Fds : sock[g] = sock[h] /\ sock[g] # NoConn => g = h
    BY DEF GInv, ConnInv
  <2>2. ASSUME NEW d \in Conns
        PROVE  /\ client[d] \in {"new", "held"} => inbox'[d] = <<>>
               /\ client[d] = "waiting" => inbox'[d] \in {<<>>, <<"RESERVE">>}
               /\ client[d] = "closed" =>
                     inbox'[d] \in {<<>>, <<"EOF">>, <<"RELEASE", "EOF">>}
    <3>1. CASE d = c
      BY <1>7, <3>1
    <3>2. CASE d # c
      BY <1>7, <3>2, Zenon DEF GInv, ConnInv
    <3> QED
      BY <3>1, <3>2
  <2> QED
    BY <1>1, <2>1, <2>2, Zenon DEF ConnInv
<1>13. /\ queue[t] \in Seq(Requests) /\ Len(queue[t]) \in Nat
       /\ queue'[t] = Append(queue[t], rq) /\ Len(queue'[t]) = Len(queue[t]) + 1
       /\ \A i \in 1..Len(queue[t]) : queue'[t][i] = queue[t][i]
       /\ queue'[t][Len(queue[t]) + 1] = rq
       /\ \A u \in Types \ {t} : queue'[u] = queue[u]
  <2>1. /\ queue[t] \in Seq(Requests) /\ queue'[t] = Append(queue[t], rq)
        /\ \A u \in Types \ {t} : queue'[u] = queue[u]
    BY <1>1, <1>4, Zenon DEF TypeOK
  <2> QED
    BY <2>1
<1>14. ASSUME NEW u \in Types, NEW i \in 1..Len(queue'[u])
       PROVE  \/ i \in 1..Len(queue[u]) /\ queue'[u][i] = queue[u][i]
              \/ u = t /\ i = Len(queue[t]) + 1 /\ queue'[u][i] = rq
  <2>1. CASE u = t
    <3>1. i \in 1..(Len(queue[t]) + 1)
      BY <1>13, <2>1, Zenon
    <3>2. Len(queue[t]) \in Nat
      BY <1>13
    <3>3. i \in 1..Len(queue[t]) \/ i = Len(queue[t]) + 1
      BY <3>1, <3>2
    <3> QED
      BY <1>13, <2>1, <3>3, Zenon
  <2>2. CASE u # t
    BY <1>13, <2>2
  <2> QED
    BY <2>1, <2>2
<1>15. \A u \in Types : \A i \in 1..Len(queue[u]) : Filed(queue[u][i], u)
  BY Zenon DEF GInv, QueueInv
<1>16. QueueInv'
  <2> SUFFICES ASSUME NEW u \in Types, NEW i \in 1..Len(queue'[u]), NEW r, r = queue'[u][i]
               PROVE  Filed(r, u)' /\ (Entry(sock[r.fd]) = NoEntry)'
    BY DEF QueueInv
  <2>1. CASE i \in 1..Len(queue[u]) /\ r = queue[u][i]
    <3>1. Filed(r, u) /\ Entry(sock[r.fd]) = NoEntry /\ Undisturbed(r)
      BY <2>1, <1>10, <1>15, Zenon DEF GInv, QueueInv
    <3> QED
      BY <3>1, FiledKept, Zenon DEF Undisturbed, Entry
  <2>2. CASE u = t /\ r = rq
    BY <1>1, <1>2, <1>3, <1>4, <1>6, <1>7, <1>11, <2>2, Zenon DEF Filed, Entry
  <2> QED
    BY <1>14, <2>1, <2>2, Zenon
<1>17. ReadyInv'
  <2> SUFFICES ASSUME NEW v \in Workers PROVE Stash(v)'
    BY DEF ReadyInv
  <2>1. CASE v = w
    <3>1. \A i \in 1..Len(ready'[w]) : FALSE
      BY <1>1, <1>9
    <3> QED
      BY <2>1, <3>1, Zenon DEF Stash
  <2>2. CASE v # w
    BY <1>1, <1>8, <1>10, <2>2, KeptStash, Zenon DEF GInv, ReadyInv
  <2> QED
    BY <2>1, <2>2
<1>18. OnceInv'
  <2>1. ASSUME NEW u \in Types, NEW i \in 1..Len(queue'[u]), NEW h \in 1..Len(queue'[u]),
               queue'[u][i].fd = queue'[u][h].fd
        PROVE  i = h
    <3>1. \A g \in 1..Len(queue[u]) : queue[u][g].fd # rq.fd
      BY <1>4, <1>10, <1>15, Zenon
    <3>2. \A e, g \in 1..Len(queue[u]) : queue[u][e].fd = queue[u][g].fd => e = g
      BY DEF GInv, OnceInv
    <3>3. \/ i \in 1..Len(queue[u]) /\ queue'[u][i].fd = queue[u][i].fd
          \/ i = Len(queue[t]) + 1 /\ queue'[u][i].fd = rq.fd
      BY <1>14
    <3>4. \/ h \in 1..Len(queue[u]) /\ queue'[u][h].fd = queue[u][h].fd
          \/ h = Len(queue[t]) + 1 /\ queue'[u][h].fd = rq.fd
      BY <1>14
    <3> QED
      BY <2>1, <3>1, <3>2, <3>3, <3>4, Zenon
  <2>2. ASSUME NEW u \in Types, NEW v \in Workers,
               NEW i \in 1..Len(queue'[u]), NEW h \in 1..Len(ready[v])
        PROVE  queue'[u][i].fd # ready[v][h].fd
    <3>1. ready[v][h].fd # rq.fd
      BY <1>4, <1>10, Zenon DEF GInv, ReadyInv, Stash
    <3>2. \A g \in 1..Len(queue[u]) : queue[u][g].fd # ready[v][h].fd
      BY OnlyRequest, Zenon
    <3> QED
      BY <1>14, <3>1, <3>2, Zenon
  <2> QED
    <3>1. ready' = ready
      BY <1>1, Zenon
    <3>2. \A u \in Types, v \in Workers :
              \A i \in 1..Len(queue'[u]), h \in 1..Len(ready'[v]) :
                  queue'[u][i].fd # ready'[v][h].fd
      BY <2>2, <3>1
    <3>3. \A v, x \in Workers : \A i \in 1..Len(ready[v]), h \in 1..Len(ready[x]) :
              ready[v][i].fd = ready[x][h].fd => v = x /\ i = h
      BY Zenon DEF GInv, OnceInv
    <3>4. \A v, x \in Workers : \A i \in 1..Len(ready'[v]), h \in 1..Len(ready'[x]) :
              ready'[v][i].fd = ready'[x][h].fd => v = x /\ i = h
      BY <3>1, <3>3
    <3> QED
      BY <2>1, <3>2, <3>4, Zenon DEF OnceInv
<1>19. TableInv'
  <2>1. ASSUME NEW k \in Keys, table[k] # NoEntry PROVE Own(k)'
    <3>1. Own(k)
      BY <2>1 DEF GInv, TableInv
    <3>2. inbox'[k[2]] # <<"RESERVE">>
      <4>1. <<>> # <<"RESERVE">>
        OBVIOUS
      <4> QED
        BY <1>7, <3>1, <4>1, Zenon DEF Own
    <3> QED
      BY <1>1, <3>1, <3>2, Zenon DEF Own, Amounts
  <2> QED
    BY <1>1, <2>1, Zenon DEF GInv, TableInv, Entry
<1>20. ASSUME NEW v \in Workers PROVE AtWork(v)'
  <2>1. CASE v # w
    BY <1>1, <1>8, <2>1, SameWorker, Zenon DEF GInv, WorkerInv
  <2>2. CASE v = w
    BY <1>1, <1>8, <1>9, <2>2, Zenon DEF AtWork
  <2> QED
    BY <2>1, <2>2
<1> QED
  BY <1>12, <1>16, <1>17, <1>18, <1>19, <1>20 DEF GInv, WorkerInv

\* A connection whose end was read has nothing on record when it is closed.
LEMMA CloseGrants ==
    ASSUME Safe, GInv, NEW w \in Workers, Close(w)
    PROVE  GInv'
<1>1. /\ UNCHANGED <<queue, table, client, inbox, ti, ready, key, rj>>
      /\ pc[w] = "close" /\ pc' = [pc EXCEPT ![w] = "idle"]
      /\ sock' = [sock EXCEPT ![cur[w]] = NoConn]
      /\ cur' = [cur EXCEPT ![w] = NoFd]
      /\ eof' = [eof EXCEPT ![w] = FALSE] /\ TypeOK
  BY DEF Close, pool, locals, Safe
<1>2. PICK f \in Fds : f = cur[w] /\ sock[f] \in Conns
  BY <1>1, Serving
<1>3. /\ sock'[f] = NoConn /\ \A g \in Fds \ {f} : sock'[g] = sock[g]
      /\ pc'[w] = "idle" /\ ~eof'[w]
      /\ \A v \in Workers \ {w} : pc'[v] = pc[v] /\ cur'[v] = cur[v] /\ eof'[v] = eof[v]
  BY <1>1, <1>2 DEF TypeOK
<1>4. /\ client[sock[f]] = "closed" /\ On(f) = {} /\ ready[w] = <<>>
  BY <1>1, <1>2, Zenon DEF GInv, WorkerInv, AtWork, Recording
<1>5. ASSUME NEW r \in Requests, NEW t, Filed(r, t) PROVE r.fd # f /\ Undisturbed(r)
  <2>1. r.fd # f /\ r.fd \in Fds
    BY <1>4, <1>5 DEF Filed, Requests
  <2> QED
    BY <1>1, <1>3, <2>1, Zenon DEF Undisturbed, Entry
<1>6. ConnInv'
  <2>1. \A g \in Fds : sock'[g] # NoConn => g # f /\ sock'[g] = sock[g]
    BY <1>3
  <2>2. ConnInv /\ client' = client /\ inbox' = inbox
    BY <1>1, Zenon DEF GInv
  <2>3. \A g \in Fds : sock'[g] # NoConn => client'[sock'[g]] # "new"
    BY <2>1, <2>2, Zenon DEF ConnInv
  <2>4. \A g, h \in Fds : sock'[g] = sock'[h] /\ sock'[g] # NoConn => g = h
    BY <2>1, <2>2, Zenon DEF ConnInv
  <2> QED
    BY <2>2, <2>3, <2>4, Zenon DEF ConnInv
<1>7. QueueInv'
  BY <1>1, <1>5, RequestTypes, KeptQueues, Zenon DEF GInv
<1>8. ReadyInv'
  <2> SUFFICES ASSUME NEW v \in Workers PROVE Stash(v)'
    BY DEF ReadyInv
  <2>1. pc'[v] = "send" <=> pc[v] = "send"
    BY <1>1, <1>3, Zenon
  <2>2. Stash(v) /\ ready'[v] = ready[v] /\ ti'[v] = ti[v]
    BY <1>1, Zenon DEF GInv, ReadyInv
  <2>3. \A i \in 1..Len(ready[v]) :
            Filed(ready[v][i], ti[v]) => Undisturbed(ready[v][i])
    BY <1>1, <1>5, RequestTypes, Zenon
  <2> QED
    BY <2>1, <2>2, <2>3, KeptStash
<1>9. TableInv'
  <2>1. ASSUME NEW k \in Keys, table[k] # NoEntry PROVE Own(k)'
    <3>1. Own(k)
      BY <2>1 DEF GInv, TableInv
    <3>2. table[k].fd # f
      BY <1>4, Zenon DEF On
    <3>3. sock'[table[k].fd] = sock[table[k].fd]
      BY <1>3, <3>1, <3>2, Zenon DEF Own
    <3>4. \A c : Amounts(c)' = Amounts(c)
      BY DEF Amounts
    <3> QED
      BY <1>1, <3>1, <3>3, <3>4, Zenon DEF Own
  <2> QED
    BY <1>1, <2>1, Zenon DEF GInv, TableInv, Entry
<1>10. ASSUME NEW v \in Workers PROVE AtWork(v)'
  <2>1. AtWork(v) /\ Stash(v)
    BY DEF GInv, WorkerInv, ReadyInv
  <2>2. CASE v # w
    <3>1. pc[v] # "idle" => sock'[cur[v]] = sock[cur[v]]
      <4>1. pc[v] # "idle" => cur[v] \in Fds
        BY Serving
      <4>2. cur[v] \in Fds => cur[v] # f
        BY <1>2, <2>2, NullsAssumption, Zenon DEF Safe, OneWorkerPerFd
      <4> QED
        BY <1>3, <4>1, <4>2, Zenon
    <3>2. pc[v] = "insert" => sock'[Head(ready[v]).fd] = sock[Head(ready[v]).fd]
      BY <1>5, <2>1, HeadFiled DEF Recording, Undisturbed
    <3> QED
      BY <1>1, <1>3, <2>1, <2>2, <3>1, <3>2, SameWorker, Zenon
  <2>3. CASE v = w
    BY <1>1, <1>3, <1>4, <2>3, Zenon DEF AtWork
  <2> QED
    BY <2>2, <2>3
<1> QED
  BY <1>1, <1>6, <1>7, <1>8, <1>9, <1>10, SameOnce, Zenon DEF GInv, WorkerInv

=============================================================================
