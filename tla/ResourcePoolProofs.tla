-------------------------- MODULE ResourcePoolProofs --------------------------
(* What holds of ResourcePool for every number of workers, types,           *)
(* connections and descriptors, proved.                                     *)
EXTENDS ResourcePool, TLAPS

\* The inductive invariant: the types need to know that the connection a worker
\* serves is open, and what a worker has in hand at each stage.
Safe == TypeOK /\ OneWorkerPerFd /\ Stages

\* The absent entry of table_nodejobs is of the type of entries.
LEMMA NoEntryType == NoEntry \in Entries
  BY DEF NoEntry, Entries

\* The state set up at start, with all resources free and no connection, is safe.
LEMMA InitSafe == Init => Safe
  <1> SUFFICES ASSUME Init PROVE Safe
    OBVIOUS
  <1>1. TypeOK
    <2>1. left \in [Types -> Int]
      BY TypesAssumption DEF Init
    <2>2. QED
      BY <2>1, NoEntryType, TypesAssumption DEF Init, TypeOK, PCs, Types
  <1>2. OneWorkerPerFd
    BY DEF Init, OneWorkerPerFd
  <1>3. Stages
    BY Zenon DEF Init, Stages, Recording
  <1>4. QED
    BY <1>1, <1>2, <1>3 DEF Safe

\* The connection a busy worker serves is a connection.
LEMMA Serving ==
  ASSUME Safe, NEW w \in Workers, pc[w] # "idle"
  PROVE  /\ cur[w] \in Fds
         /\ sock[cur[w]] \in Conns
  BY DEF Safe, TypeOK, OneWorkerPerFd

\* What a client does with its end of a connection keeps the state safe.
LEMMA ClientSafe ==
  ASSUME Safe, NEW c \in Conns, Client(c)
  PROVE  Safe'
  <1> USE DEF Safe, pool, net, locals
  <1>1. ASSUME NEW f \in Fds, Connect(c, f) PROVE Safe'
    BY <1>1 DEF Connect, TypeOK, OneWorkerPerFd, Stages
  <1>2. CASE Release(c)
    BY <1>2 DEF Release, TypeOK, OneWorkerPerFd, Stages
  <1>3. CASE Disconnect(c)
    BY <1>3 DEF Disconnect, TypeOK, OneWorkerPerFd, Stages
  <1>4. QED
    BY <1>1, <1>2, <1>3 DEF Client

\* Handing an event of epoll_wait to an idle worker keeps the state safe.
LEMMA ServeSafe ==
  ASSUME Safe, NEW w \in Workers, NEW f \in Fds, Serve(w, f)
  PROVE  Safe'
  BY Zenon DEF Safe, pool, net, locals, Serve, TypeOK, OneWorkerPerFd, Stages, PCs, Recording

\* A step after which no worker serves another descriptor, and no served one
\* is closed, leaves one worker per connection.
LEMMA OneWorkerKept ==
  ASSUME Safe, NEW w \in Workers, pc[w] # "idle",
         UNCHANGED <<cur, sock>>, \A v \in Workers \ {w} : pc'[v] = pc[v]
  PROVE  OneWorkerPerFd'
  BY DEF Safe, OneWorkerPerFd

\* What moving on to the next queue does to the worker that does it.
LEMMA NextQueueStep ==
  ASSUME TypeOK, NEW w \in Workers, NextQueue(w)
  PROVE  /\ pc' \in [Workers -> PCs] /\ ti' \in [Workers -> Types]
         /\ \A v \in Workers \ {w} : pc'[v] = pc[v] /\ ti'[v] = ti[v]
         /\ \/ pc'[w] = "drain" /\ ti'[w] = ti[w] + 1
            \/ pc'[w] \in {"read", "close"} /\ ti[w] = NTypes
  <1>1. CASE ti[w] < NTypes
    <2>1. pc' = [pc EXCEPT ![w] = "drain"] /\ ti' = [ti EXCEPT ![w] = ti[w] + 1]
      BY <1>1 DEF NextQueue
    <2>2. ti[w] \in Types
      BY DEF TypeOK
    <2>3. ti[w] + 1 \in Types
      BY <1>1, <2>2, TypesAssumption DEF Types
    <2>4. QED
      BY <2>1, <2>3 DEF TypeOK, PCs
  <1>2. CASE ~(ti[w] < NTypes)
    <2>1. ti[w] = NTypes
      BY <1>2, TypesAssumption DEF TypeOK, Types
    <2>2. pc' = [pc EXCEPT ![w] = Handled(w)] /\ ti' = [ti EXCEPT ![w] = 1]
      BY <1>2 DEF NextQueue
    <2>3. Handled(w) \in {"read", "close"}
      BY DEF Handled
    <2>4. QED
      BY <2>1, <2>2, <2>3, TypesAssumption DEF TypeOK, PCs, Types
  <1>3. QED
    BY <1>1, <1>2

\* A step of w that moves no other worker leaves every worker with what its stage
\* needs, if w ends outside the two stages of record_granted that have a key.
LEMMA StagesKept ==
  ASSUME Stages, NEW w \in Workers,
         \A v \in Workers \ {w} : /\ pc'[v] = pc[v] /\ ready'[v] = ready[v]
                                  /\ key'[v] = key[v] /\ rj'[v] = rj[v],
         pc'[w] \in Recording => ready'[w] # <<>>,
         pc'[w] \notin {"copy", "insert"}
  PROVE  Stages'
  <1> SUFFICES ASSUME NEW v \in Workers
               PROVE  /\ pc'[v] \in Recording => ready'[v] # <<>>
                      /\ pc'[v] \in {"copy", "insert"} => key'[v] \in Keys
                      /\ pc'[v] = "insert" => rj'[v] \in Entries
    BY DEF Stages
  <1>1. CASE v = w
    BY <1>1
  <1>2. CASE v # w
    BY <1>2 DEF Stages
  <1>3. QED
    BY <1>1, <1>2

\* Worker w, and no other, goes on to record the next grant, to the next queue or
\* out of reserve_elements.
Onward(w) ==
  /\ pc' \in [Workers -> PCs] /\ ti' \in [Workers -> Types]
  /\ \A v \in Workers \ {w} : pc'[v] = pc[v]
  /\ pc'[w] \in {"find", "drain", "read", "close"}

\* Every step of a worker, one per lock or system call of its handlers, keeps
\* the state safe.
LEMMA WorkSafe ==
  ASSUME Safe, NEW w \in Workers, Work(w)
  PROVE  Safe'
  <1> USE DEF pool, net, locals
  <1>1. TypeOK /\ OneWorkerPerFd /\ Stages
    BY DEF Safe
  <1>2. CASE Reserve(w)
    <2>1. cur[w] \in Fds /\ sock[cur[w]] \in Conns
      BY <1>2, Serving, Zenon DEF Reserve, Read
    <2>2. TypeOK'
      <3>1. queue' \in [Types -> Seq(Requests)]
        <4> DEFINE c == sock[cur[w]]
                   rq == [job |-> JobOf[c], fd |-> cur[w], amount |-> AmountOf[c]]
        <4>1. rq \in Requests /\ TypeOf[c] \in Types
          BY <2>1, ConnsAssumption DEF Requests
        <4>2. queue' = [queue EXCEPT ![TypeOf[c]] = Append(queue[TypeOf[c]], rq)]
          BY <1>2, Zenon DEF Reserve
        <4> HIDE DEF rq, c
        <4>3. QED
          BY <1>1, <4>1, <4>2 DEF TypeOK
      <3>2. inbox' \in [Conns -> Seq({"RESERVE", "RELEASE", "EOF"})]
        <4>1. PICK c \in Conns : c = sock[cur[w]]
          BY <2>1, Zenon
        <4>2. inbox[c] # <<>> /\ inbox' = [inbox EXCEPT ![c] = Tail(inbox[c])]
          BY <1>2, <4>1, Zenon DEF Reserve, Read
        <4>3. inbox \in [Conns -> Seq({"RESERVE", "RELEASE", "EOF"})]
          BY <1>1, Zenon DEF TypeOK
        <4>4. Tail(inbox[c]) \in Seq({"RESERVE", "RELEASE", "EOF"})
          BY <4>2, <4>3
        <4>5. QED
          BY <4>2, <4>3, <4>4, Zenon
      <3>3. pc' \in [Workers -> PCs] /\ ti' \in [Workers -> Types]
        <4>1. pc' = [pc EXCEPT ![w] = "drain"] /\ ti' = [ti EXCEPT ![w] = 1]
          BY <1>2, Zenon DEF Reserve
        <4>2. "drain" \in PCs /\ 1 \in Types
          BY TypesAssumption DEF PCs, Types
        <4>3. QED
          BY <1>1, <4>1, <4>2 DEF TypeOK
      <3>4. QED
        BY Zenon, <1>1, <1>2, <3>1, <3>2, <3>3 DEF TypeOK, Reserve
    <2>3. OneWorkerPerFd'
      BY <1>1, <1>2, OneWorkerKept, Zenon DEF TypeOK, Reserve, Read
    <2>4. Stages'
      BY <1>1, <1>2, <2>2, Zenon DEF TypeOK, Stages, Recording, Reserve, Read
    <2>5. QED
      BY <2>2, <2>3, <2>4 DEF Safe
  <1>3. CASE ReadRelease(w)
    <2>1. cur[w] \in Fds /\ sock[cur[w]] \in Conns
      BY <1>3, Serving DEF ReadRelease, Read
    <2>2. TypeOK'
      BY <1>1, <1>3, <2>1 DEF TypeOK, ReadRelease, Read, PCs
    <2>3. OneWorkerPerFd'
      BY <1>1, <1>3, OneWorkerKept, Zenon DEF TypeOK, ReadRelease, Read
    <2>4. Stages'
      BY <1>1, <1>3, <2>2, Zenon DEF TypeOK, Stages, Recording, ReadRelease, Read
    <2>5. QED
      BY <2>2, <2>3, <2>4 DEF Safe
  <1>4. CASE ReadEof(w)
    <2>1. cur[w] \in Fds /\ sock[cur[w]] \in Conns
      BY <1>4, Serving DEF ReadEof, Read
    <2>2. TypeOK'
      BY <1>1, <1>4, <2>1 DEF TypeOK, ReadEof, Read, PCs
    <2>3. OneWorkerPerFd'
      BY <1>1, <1>4, OneWorkerKept DEF TypeOK, ReadEof, Read
    <2>4. Stages'
      BY <1>1, <1>4, <2>2, Zenon DEF TypeOK, Stages, Recording, ReadEof, Read
    <2>5. QED
      BY <2>2, <2>3, <2>4 DEF Safe
  <1>5. CASE Rearm(w)
    <2>1. cur[w] \in Fds /\ sock[cur[w]] \in Conns
      BY <1>5, Serving DEF Rearm
    <2>2. TypeOK'
      BY <1>1, <1>5, <2>1 DEF TypeOK, Rearm, PCs
    <2>3. OneWorkerPerFd'
      BY Zenon, <1>1, <1>5, <2>1 DEF TypeOK, OneWorkerPerFd, Rearm
    <2>4. Stages'
      BY <1>1, <1>5, <2>2, Zenon DEF TypeOK, Stages, Recording, Rearm
    <2>5. QED
      BY <2>2, <2>3, <2>4 DEF Safe
  <1>6. CASE Close(w)
    <2>1. cur[w] \in Fds /\ sock[cur[w]] \in Conns
      BY <1>6, Serving DEF Close
    <2>2. TypeOK'
      BY <1>1, <1>6, <2>1 DEF TypeOK, Close, PCs
    <2>3. OneWorkerPerFd'
      <3>1. ASSUME NEW v \in Workers, pc'[v] # "idle"
            PROVE  cur'[v] \in Fds /\ sock'[cur'[v]] # NoConn
        <4>1. v # w /\ pc[v] # "idle" /\ cur'[v] = cur[v]
          BY <1>1, <1>6, <3>1 DEF TypeOK, Close
        <4>2. cur[v] \in Fds /\ sock[cur[v]] # NoConn /\ cur[v] # cur[w]
          BY <1>1, <2>1, <4>1, NullsAssumption DEF OneWorkerPerFd
        <4>3. QED
          BY <1>1, <1>6, <4>1, <4>2 DEF TypeOK, Close
      <3>2. ASSUME NEW u \in Workers, NEW v \in Workers, cur'[u] = cur'[v], cur'[u] # NoFd
            PROVE  u = v
        BY <1>1, <1>6, <3>2, Zenon DEF TypeOK, OneWorkerPerFd, Close
      <3>3. QED
        BY <3>1, <3>2 DEF OneWorkerPerFd
    <2>4. Stages'
      BY <1>1, <1>6, <2>2, Zenon DEF TypeOK, Stages, Recording, Close
    <2>5. QED
      BY <2>2, <2>3, <2>4 DEF Safe
  <1>7. CASE DrainPop(w)
    <2>1. cur[w] \in Fds /\ sock[cur[w]] \in Conns
      BY <1>7, Serving DEF DrainPop
    <2>2. TypeOK'
      <3>1. Head(queue[ti[w]]) \in Requests /\ Tail(queue[ti[w]]) \in Seq(Requests)
        BY <1>1, <1>7, <2>1 DEF DrainPop, HeadFits, TypeOK
      <3>2. left' \in [Types -> Int]
        <4>1. left' = [left EXCEPT ![ti[w]] = left[ti[w]] - Head(queue[ti[w]]).amount]
          BY <1>7, Zenon DEF DrainPop
        <4>2. Head(queue[ti[w]]).amount \in Int /\ ti[w] \in Types /\ left \in [Types -> Int]
          BY <1>1, <3>1 DEF Requests, TypeOK
        <4>3. left[ti[w]] - Head(queue[ti[w]]).amount \in Int
          BY <4>2
        <4>4. QED
          BY <4>1, <4>2, <4>3, Zenon
      <3>3. queue' \in [Types -> Seq(Requests)]
        BY <1>1, <1>7, <2>1, <3>1, Zenon DEF DrainPop, TypeOK
      <3>4. ready' \in [Workers -> Seq(Requests)]
        BY <1>1, <1>7, <2>1, <3>1 DEF DrainPop, TypeOK
      <3>5. pc' \in [Workers -> PCs]
        BY <1>1, <1>7, <2>1, Zenon DEF DrainPop, TypeOK, PCs
      <3>6. QED
        BY <1>1, <1>7, <3>1, <3>2, <3>3, <3>4, <3>5, Zenon DEF TypeOK, DrainPop
    <2>3. OneWorkerPerFd'
      BY <1>1, <1>7, OneWorkerKept, Zenon DEF TypeOK, DrainPop
    <2>4. Stages'
      BY <1>1, <1>7, <2>2, Zenon DEF TypeOK, Stages, Recording, DrainPop
    <2>5. QED
      BY <2>2, <2>3, <2>4 DEF Safe
  <1>8. CASE DrainDone(w)
    <2>1. cur[w] \in Fds /\ sock[cur[w]] \in Conns
      BY <1>8, Serving DEF DrainDone
    <2>2. UNCHANGED <<left, queue, table, sock, client, inbox, cur, ready, key, rj, add, eof>>
      BY <1>8 DEF DrainDone
    <2>3. Onward(w) /\ (pc'[w] \in Recording => ready'[w] # <<>>)
      <3>1. CASE ready[w] # <<>>
        <4>1. pc' = [pc EXCEPT ![w] = "find"] /\ ti' = ti
          BY <1>8, <3>1 DEF DrainDone
        <4>2. Onward(w)
          BY <1>1, <4>1 DEF TypeOK, PCs, Recording, Onward
        <4>3. QED
          BY <2>2, <3>1, <4>2
      <3>2. CASE ready[w] = <<>>
        <4>1. NextQueue(w)
          BY <1>8, <3>2 DEF DrainDone
        <4>2. QED
          BY <1>1, <4>1, NextQueueStep DEF Onward, Recording
      <3>3. QED
        BY <3>1, <3>2
    <2>4. TypeOK'
      BY <1>1, <2>2, <2>3, Zenon DEF TypeOK, Onward
    <2>5. OneWorkerPerFd'
      BY <1>8, <2>2, <2>3, OneWorkerKept, Zenon DEF DrainDone, Onward
    <2>6. Stages'
      BY <1>1, <2>2, <2>3, StagesKept DEF Onward
    <2>7. QED
      BY <2>4, <2>5, <2>6 DEF Safe
  <1>9. CASE RecordFind(w)
    <2>1. cur[w] \in Fds /\ sock[cur[w]] \in Conns
      BY <1>9, Serving DEF RecordFind
    <2>2. Head(ready[w]) \in Requests /\ ready[w] # <<>>
      BY <1>1, <1>9 DEF RecordFind, TypeOK, Stages, Recording
    <2>3. PICK k \in Keys :
            /\ key' = [key EXCEPT ![w] = k]
            /\ rj' = [rj EXCEPT ![w] = table[k]]
            /\ pc' = [pc EXCEPT ![w] = IF table[k] = NoEntry THEN "insert" ELSE "copy"]
      <3>1. PICK p \in PeerOf(Head(ready[w]).fd) :
              LET k == <<Head(ready[w]).job, p>> IN
              /\ key' = [key EXCEPT ![w] = k]
              /\ rj' = [rj EXCEPT ![w] = table[k]]
              /\ pc' = [pc EXCEPT ![w] = IF table[k] = NoEntry THEN "insert" ELSE "copy"]
        BY Zenon, <1>9 DEF RecordFind
      <3>2. p \in Conns \union {Unknown}
        <4>1. Head(ready[w]).fd \in Fds
          BY <2>2, Zenon DEF Requests
        <4>2. sock[Head(ready[w]).fd] \in Conns \union {NoConn}
          BY <1>1, <4>1 DEF TypeOK
        <4>3. QED
          BY Zenon, <3>1, <4>2 DEF PeerOf
      <3>3. <<Head(ready[w]).job, p>> \in Keys
        BY <2>2, <3>2 DEF Keys, Requests
      <3>4. QED
        BY Zenon, <3>1, <3>3
    <2>4. UNCHANGED <<left, queue, table, sock, client, inbox, cur, ti, ready, add, eof>>
      BY <1>9 DEF RecordFind
    <2>5. table[k] \in Entries
      BY <1>1, <2>3 DEF TypeOK
    <2>6. TypeOK'
      <3>1. pc' \in [Workers -> PCs]
        BY <1>1, <2>3 DEF TypeOK, PCs, Recording
      <3>2. key' \in [Workers -> Keys \union {<<>>}]
        BY <1>1, <2>3 DEF TypeOK
      <3>3. rj' \in [Workers -> Entries \union {Freed}]
        BY <1>1, <2>3, <2>5 DEF TypeOK
      <3>4. QED
        BY <1>1, <2>4, <3>1, <3>2, <3>3 DEF TypeOK
    <2>7. OneWorkerPerFd'
      BY <1>1, <1>9, <2>3, <2>4, OneWorkerKept, Zenon DEF TypeOK, RecordFind
    <2>8. Stages'
      <3>1. key'[w] \in Keys /\ rj'[w] \in Entries /\ ready'[w] # <<>>
        BY <1>1, <2>2, <2>3, <2>4, <2>5 DEF TypeOK
      <3>2. \A v \in Workers \ {w} : pc'[v] = pc[v] /\ key'[v] = key[v] /\ rj'[v] = rj[v]
        BY <1>1, <2>3 DEF TypeOK
      <3>3. QED
        BY <1>1, <2>4, <3>1, <3>2 DEF Stages
    <2>9. QED
      BY <2>6, <2>7, <2>8, Zenon DEF Safe
  <1>10. CASE RecordCopy(w)
    <2>1. cur[w] \in Fds /\ sock[cur[w]] \in Conns
      BY <1>10, Serving DEF RecordCopy
    <2>1a. rj' \in [Workers -> Entries \union {Freed}] /\ rj'[w] \in Entries
      <3>1. CASE rj[w] = Freed
        <4>1. PICK g \in [Types -> Garbage] :
                rj' = [rj EXCEPT ![w] = [granted |-> g, fd |-> NoFd]]
          BY <1>10, <3>1 DEF RecordCopy
        <4>2. [granted |-> g, fd |-> NoFd] \in Entries
          BY Zenon, ConnsAssumption DEF Entries
        <4>3. QED
          BY <1>1, <4>1, <4>2 DEF TypeOK
      <3>2. CASE rj[w] # Freed
        BY <1>1, <1>10, <3>2, Zenon DEF RecordCopy, TypeOK
      <3>3. QED
        BY <3>1, <3>2
    <2>2. TypeOK'
      <3>1. key' \in [Workers -> Keys \union {<<>>}]
        BY Zenon, <1>1, <1>10, <2>1 DEF RecordCopy, TypeOK
      <3>2. pc' \in [Workers -> PCs]
        BY <1>1, <1>10, <2>1 DEF RecordCopy, TypeOK, PCs, Recording
      <3>3. QED
        BY <1>1, <1>10, <2>1a, <3>1, <3>2, Zenon DEF TypeOK, RecordCopy
    <2>3. OneWorkerPerFd'
      BY <1>1, <1>10, OneWorkerKept, Zenon DEF TypeOK, RecordCopy
    <2>4. Stages'
      <3>1. ready'[w] # <<>> /\ key'[w] \in Keys
        BY <1>1, <1>10 DEF TypeOK, Stages, Recording, RecordCopy
      <3>2. \A v \in Workers \ {w} : /\ pc'[v] = pc[v] /\ key'[v] = key[v]
                                    /\ rj'[v] = rj[v] /\ ready'[v] = ready[v]
        BY <1>1, <1>10, Zenon DEF TypeOK, RecordCopy
      <3>3. QED
        BY <1>1, <2>1a, <3>1, <3>2 DEF Stages
    <2>5. QED
      BY <2>2, <2>3, <2>4 DEF Safe
  <1>11. CASE RecordInsert(w)
    <2>1. cur[w] \in Fds /\ sock[cur[w]] \in Conns
      BY <1>11, Serving DEF RecordInsert, Dangling
    <2>2. TypeOK'
      <3>1. Head(ready[w]) \in Requests
        BY <1>1, <1>11, <2>1 DEF RecordInsert, TypeOK, Stages, Recording
      <3>2. rj[w] \in Entries /\ key[w] \in Keys
        BY <1>1, <1>11, <2>1, Zenon DEF RecordInsert, Stages
      <3>3. table' \in [Keys -> Entries]
        <4> DEFINE g == [rj[w].granted EXCEPT
                           ![ti[w]] = rj[w].granted[ti[w]] + Head(ready[w]).amount]
                   e == [granted |-> g, fd |-> Head(ready[w]).fd]
        <4>1. table' = [table EXCEPT ![key[w]] = e]
          BY <1>11 DEF RecordInsert
        <4>2. rj[w].granted \in [Types -> Int] /\ ti[w] \in Types
          BY <1>1, <3>2 DEF TypeOK, Entries
        <4>3. Head(ready[w]).amount \in Int /\ Head(ready[w]).fd \in Fds
          BY <3>1 DEF Requests
        <4>4. g \in [Types -> Int]
          BY <4>2, <4>3
        <4> HIDE DEF g
        <4>5. e \in Entries
          BY <4>3, <4>4 DEF Entries
        <4> HIDE DEF e
        <4>6. QED
          BY <1>1, <3>2, <4>1, <4>5, Zenon DEF TypeOK
      <3>4. rj' \in [Workers -> Entries \union {Freed}]
        BY <1>1, <1>11, <2>1, NoEntryType, Zenon DEF RecordInsert, Dangling, TypeOK
      <3>5. key' \in [Workers -> Keys \union {<<>>}]
        BY <1>1, <1>11, <2>1, Zenon DEF RecordInsert, TypeOK
      <3>6. pc' \in [Workers -> PCs]
        BY <1>1, <1>11, <2>1, Zenon DEF RecordInsert, TypeOK, PCs, Recording
      <3>7. QED
        BY Zenon, <1>1, <1>11, <3>1, <3>2, <3>3, <3>4, <3>5, <3>6 DEF TypeOK, RecordInsert
    <2>3. OneWorkerPerFd'
      BY <1>1, <1>11, OneWorkerKept, Zenon DEF TypeOK, RecordInsert, Dangling
    <2>4. Stages'
      BY <1>1, <1>11, <2>2, Zenon DEF TypeOK, Stages, Recording, RecordInsert, Dangling
    <2>5. QED
      BY <2>2, <2>3, <2>4 DEF Safe
  <1>12. CASE SendGranted(w)
    <2>1. cur[w] \in Fds /\ sock[cur[w]] \in Conns
      BY <1>12, Serving, Zenon DEF SendGranted
    <2>2. /\ UNCHANGED <<left, queue, table, sock, inbox, cur, key, rj, add, eof>>
          /\ ready' = [ready EXCEPT ![w] = Tail(ready[w])]
      BY <1>12, Zenon DEF SendGranted
    <2>3. /\ ready' \in [Workers -> Seq(Requests)] /\ ready'[w] = Tail(ready[w])
          /\ \A v \in Workers \ {w} : ready'[v] = ready[v]
      <3>1. ready[w] \in Seq(Requests) /\ ready[w] # <<>>
        BY <1>1, <1>12, Zenon DEF SendGranted, TypeOK, Stages, Recording
      <3>2. Tail(ready[w]) \in Seq(Requests)
        BY <3>1
      <3>3. QED
        BY <1>1, <2>2, <3>2 DEF TypeOK
    <2>4. client' \in [Conns -> {"new", "waiting", "held", "closed"}]
      BY Zenon, <1>1, <1>12 DEF SendGranted, TypeOK
    <2>5. Onward(w) /\ (pc'[w] \in Recording => ready'[w] # <<>>)
      <3>1. CASE Tail(ready[w]) # <<>>
        <4>1. pc' = [pc EXCEPT ![w] = "find"] /\ ti' = ti
          BY <1>12, <3>1, Zenon DEF SendGranted
        <4>2. Onward(w)
          BY <1>1, <4>1 DEF TypeOK, PCs, Recording, Onward
        <4>3. QED
          BY <2>3, <3>1, <4>2
      <3>2. CASE Tail(ready[w]) = <<>>
        <4>1. NextQueue(w)
          BY <1>12, <3>2, Zenon DEF SendGranted
        <4>2. QED
          BY <1>1, <4>1, NextQueueStep DEF Onward, Recording
      <3>3. QED
        BY <3>1, <3>2
    <2>6. TypeOK'
      BY <1>1, <2>2, <2>3, <2>4, <2>5, Zenon DEF TypeOK, Onward
    <2>7. OneWorkerPerFd'
      BY <1>12, <2>2, <2>5, OneWorkerKept, Zenon DEF SendGranted, Onward
    <2>8. Stages'
      BY <1>1, <2>2, <2>3, <2>5, StagesKept DEF Onward
    <2>9. QED
      BY <2>6, <2>7, <2>8 DEF Safe
  <1>13. CASE CollectOne(w)
    <2>1. cur[w] \in Fds /\ sock[cur[w]] \in Conns
      BY Zenon, <1>13, Serving DEF CollectOne, Dangling
    <2>2. TypeOK'
      <3>1. table' \in [Keys -> Entries]
        BY <1>1, <1>13, <2>1, NoEntryType DEF CollectOne, On, TypeOK
      <3>2. rj' \in [Workers -> Entries \union {Freed}]
        BY <1>1, <1>13, <2>1 DEF CollectOne, Dangling, TypeOK
      <3>3. add' \in [Workers -> [Types -> Int]]
        <4>1. PICK k \in Keys :
                add' = [add EXCEPT ![w] = [t \in Types |-> add[w][t] + table[k].granted[t]]]
          BY Zenon, <1>13 DEF CollectOne, On
        <4>2. \A t \in Types : add[w][t] \in Int /\ table[k].granted[t] \in Int
          BY <1>1 DEF TypeOK, Entries
        <4> DEFINE sum == [t \in Types |-> add[w][t] + table[k].granted[t]]
        <4>3. sum \in [Types -> Int]
          BY <4>2
        <4>4. add' = [add EXCEPT ![w] = sum]
          BY <4>1
        <4> HIDE DEF sum
        <4>5. QED
          BY <1>1, <4>3, <4>4 DEF TypeOK
      <3>4. pc' \in [Workers -> PCs]
        <4>1. pc' = [pc EXCEPT ![w] = "collecting"]
          BY <1>13 DEF CollectOne
        <4>2. QED
          BY <1>1, <4>1 DEF TypeOK, PCs
      <3>5. QED
        BY <1>1, <1>13, <3>1, <3>2, <3>3, <3>4, Zenon DEF TypeOK, CollectOne
    <2>3. OneWorkerPerFd'
      BY <1>1, <1>13, OneWorkerKept, Zenon DEF TypeOK, CollectOne, Dangling
    <2>4. Stages'
      BY <1>1, <1>13, <2>2 DEF TypeOK, Stages, Recording, CollectOne, Dangling
    <2>5. QED
      BY <2>2, <2>3, <2>4 DEF Safe
  <1>14. CASE CollectDone(w)
    <2>1. cur[w] \in Fds /\ sock[cur[w]] \in Conns
      BY Zenon, <1>14, Serving DEF CollectDone, Handled
    <2>2. TypeOK'
      <3>1. pc' \in [Workers -> PCs]
        BY <1>1, <1>14, <2>1 DEF CollectDone, Handled, TypeOK, PCs
      <3>2. ti' \in [Workers -> Types]
        BY <1>1, <1>14, <2>1, TypesAssumption DEF CollectDone, TypeOK, Types
      <3>3. QED
        BY <1>1, <1>14, <3>1, <3>2 DEF TypeOK, CollectDone
    <2>3. OneWorkerPerFd'
      BY <1>1, <1>14, OneWorkerKept, Zenon DEF TypeOK, CollectDone, Handled
    <2>4. Stages'
      BY <1>1, <1>14, <2>2 DEF TypeOK, Stages, Recording, CollectDone, Handled
    <2>5. QED
      BY <2>2, <2>3, <2>4 DEF Safe
  <1>15. CASE Return(w)
    <2>1. cur[w] \in Fds /\ sock[cur[w]] \in Conns
      BY <1>15, Serving DEF Return
    <2>2. TypeOK'
      <3>1. left' \in [Types -> Int]
        BY <1>1, <1>15, <2>1 DEF Return, TypeOK
      <3>2. add' \in [Workers -> [Types -> Int]]
        BY <1>1, <1>15, <2>1 DEF Return, TypeOK
      <3>3. pc' \in [Workers -> PCs] /\ ti' \in [Workers -> Types]
        <4>1. CASE ti[w] < NTypes
          <5>1. ti[w] \in Types
            BY <1>1 DEF TypeOK
          <5>2. ti[w] + 1 \in Types
            BY <4>1, <5>1, TypesAssumption DEF Types
          <5>3. ti' = [ti EXCEPT ![w] = ti[w] + 1] /\ pc' = pc
            BY <1>15, <4>1 DEF Return
          <5>4. QED
            BY <1>1, <5>2, <5>3 DEF TypeOK
        <4>2. CASE ~(ti[w] < NTypes)
          <5>1. ti' = [ti EXCEPT ![w] = 1] /\ pc' = [pc EXCEPT ![w] = "drain"]
            BY <1>15, <4>2 DEF Return
          <5>2. QED
            <6>1. 1 \in Types /\ "drain" \in PCs
              BY TypesAssumption DEF PCs, Types
            <6>2. QED
              BY <1>1, <5>1, <6>1, Zenon DEF TypeOK
        <4>3. QED
          BY <4>1, <4>2
      <3>4. QED
        BY <1>1, <1>15, <3>1, <3>2, <3>3, Zenon DEF TypeOK, Return
    <2>3. OneWorkerPerFd'
      BY Zenon, <1>1, <1>15, OneWorkerKept DEF TypeOK, Return
    <2>4. Stages'
      <3>1. \A v \in Workers : pc'[v] = pc[v] \/ pc'[v] = "drain"
        BY <1>1, <1>15, Zenon DEF TypeOK, Return
      <3>2. UNCHANGED <<ready, key, rj>>
        BY <1>15 DEF Return
      <3>3. QED
        BY <1>1, <3>1, <3>2 DEF Stages, Recording
    <2>5. QED
      BY <2>2, <2>3, <2>4 DEF Safe
  <1>16. QED
    BY <1>2, <1>3, <1>4, <1>5, <1>6, <1>7, <1>8, <1>9, <1>10, <1>11, <1>12, <1>13, <1>14, <1>15 DEF Work

-----------------------------------------------------------------------------
(* No lost wake-up.                                                         *)

\* A step that touches neither the free amounts nor the queues, and after
\* which nobody has given up a drain it owed, loses no wake-up.
LEMMA DebtsKept ==
  ASSUME NoLostWakeup, UNCHANGED <<left, queue>>,
         \A v \in Workers, t \in Types :
            HeadFits(t) /\ WillDrain(v, t) => WillDrain(v, t)'
  PROVE  NoLostWakeup'
  <1> SUFFICES ASSUME NEW t \in Types, HeadFits(t)'
               PROVE  \E v \in Workers : WillDrain(v, t)'
    BY DEF NoLostWakeup
  <1>1. HeadFits(t)
    BY DEF HeadFits
  <1>2. PICK v \in Workers : WillDrain(v, t)
    BY <1>1 DEF NoLostWakeup
  <1>3. QED
    BY <1>1, <1>2

\* No step of a worker leaves a request that fits without a drain: an enqueue and
\* a return of resources are followed by drains, and a drain ends only where the
\* head does not fit.
LEMMA WorkWakeup ==
  ASSUME Safe, NoLostWakeup, NEW w \in Workers, Work(w)
  PROVE  NoLostWakeup'
  <1> USE DEF pool, net, locals
  <1>1. TypeOK /\ Stages
    BY Zenon DEF Safe
  <1>2. CASE \/ ReadRelease(w) \/ ReadEof(w) \/ Rearm(w) \/ Close(w)
             \/ CollectOne(w) \/ CollectDone(w)
    <2>1. UNCHANGED <<left, queue>>
      BY <1>2, Zenon DEF ReadRelease, ReadEof, Read, Rearm, Close, CollectOne, CollectDone
    <2>2. \A t \in Types : ~WillDrain(w, t)
      BY <1>2, Zenon DEF WillDrain, Recording,
           ReadRelease, ReadEof, Read, Rearm, Close, CollectOne, CollectDone
    <2>3. \A v \in Workers \ {w} : pc'[v] = pc[v] /\ ti'[v] = ti[v]
      BY <1>1, <1>2, Zenon DEF TypeOK,
           ReadRelease, ReadEof, Read, Rearm, Close, CollectOne, CollectDone
    <2>4. QED
      BY <2>1, <2>2, <2>3, DebtsKept DEF WillDrain
  <1>3. CASE RecordFind(w) \/ RecordCopy(w) \/ RecordInsert(w)
    <2>1. UNCHANGED <<left, queue, ti>>
      BY <1>3, Zenon DEF RecordFind, RecordCopy, RecordInsert
    <2>2. pc[w] \in Recording /\ pc'[w] \in Recording
      BY Zenon, <1>1, <1>3 DEF TypeOK, Recording, RecordFind, RecordCopy, RecordInsert
    <2>3. \A v \in Workers \ {w} : pc'[v] = pc[v]
      BY Zenon, <1>1, <1>3 DEF TypeOK, RecordFind, RecordCopy, RecordInsert
    <2>4. QED
      BY <2>1, <2>2, <2>3, DebtsKept DEF WillDrain, Recording
  <1>4. CASE Reserve(w)
    <2>1. pc'[w] = "drain" /\ ti'[w] = 1
      BY <1>1, <1>4, Zenon DEF TypeOK, Reserve
    <2>2. \A t \in Types : WillDrain(w, t)'
      BY <2>1 DEF WillDrain, Types
    <2>3. QED
      BY <2>2 DEF NoLostWakeup
  <1>5. CASE DrainPop(w)
    <2>1. ASSUME NEW t \in Types, t = ti[w]
          PROVE  WillDrain(w, t)'
      BY <1>1, <1>5, <2>1 DEF TypeOK, Types, DrainPop, WillDrain
    <2>2. ASSUME NEW t \in Types, t # ti[w], HeadFits(t)'
          PROVE  \E v \in Workers : WillDrain(v, t)'
      <3>1. HeadFits(t)
        BY <1>1, <1>5, <2>2, Zenon DEF TypeOK, DrainPop, HeadFits
      <3>2. PICK v \in Workers : WillDrain(v, t)
        BY <3>1 DEF NoLostWakeup
      <3>3. WillDrain(v, t)'
        BY <1>1, <1>5, <3>2, Zenon DEF TypeOK, DrainPop, WillDrain, Recording
      <3>4. QED
        BY <3>3, Zenon
    <2>3. QED
      BY <2>1, <2>2 DEF NoLostWakeup
  <1>6. CASE DrainDone(w)
    <2>1. UNCHANGED <<left, queue>> /\ ~HeadFits(ti[w]) /\ pc[w] \in {"drain", "draining"}
      BY <1>6, Zenon DEF DrainDone
    <2>2. \A v \in Workers \ {w} : pc'[v] = pc[v] /\ ti'[v] = ti[v]
      <3>1. NextQueue(w) \/ (pc' = [pc EXCEPT ![w] = "find"] /\ ti' = ti)
        BY <1>6, Zenon DEF DrainDone
      <3>2. QED
        BY <1>1, <3>1, NextQueueStep, Zenon DEF TypeOK
    <2>3. ASSUME NEW t \in Types, HeadFits(t), WillDrain(w, t)
          PROVE  WillDrain(w, t)'
      <3>1. ti[w] \in Types /\ ti[w] < t
        BY <1>1, <2>1, <2>3 DEF TypeOK, WillDrain, Recording, Types
      <3>2. CASE ready[w] # <<>>
        <4>1. pc' = [pc EXCEPT ![w] = "find"] /\ ti' = ti
          BY <1>6, <3>2 DEF DrainDone
        <4>2. QED
          BY <1>1, <3>1, <4>1 DEF TypeOK, WillDrain, Recording
      <3>3. CASE ready[w] = <<>>
        <4>1. NextQueue(w)
          BY Zenon, <1>6, <3>3 DEF DrainDone
        <4>2. pc'[w] = "drain" /\ ti'[w] = ti[w] + 1
          BY <1>1, <3>1, <4>1, NextQueueStep, TypesAssumption DEF Types
        <4>3. QED
          BY <3>1, <4>2 DEF WillDrain, Types
      <3>4. QED
        BY <3>2, <3>3
    <2>4. QED
      BY <2>1, <2>2, <2>3, DebtsKept DEF WillDrain
  <1>7. CASE SendGranted(w)
    <2>1. UNCHANGED <<left, queue>> /\ pc[w] = "send"
      BY <1>7, Zenon DEF SendGranted
    <2>2. \A v \in Workers \ {w} : pc'[v] = pc[v] /\ ti'[v] = ti[v]
      <3>1. NextQueue(w) \/ (pc' = [pc EXCEPT ![w] = "find"] /\ ti' = ti)
        BY <1>7, Zenon DEF SendGranted
      <3>2. QED
        BY <1>1, <3>1, NextQueueStep, Zenon DEF TypeOK
    <2>3. ASSUME NEW t \in Types, WillDrain(w, t)
          PROVE  WillDrain(w, t)'
      <3>1. ti[w] \in Types /\ ti[w] < t
        BY <1>1, <2>1, <2>3 DEF TypeOK, WillDrain, Recording
      <3>2. CASE Tail(ready[w]) # <<>>
        <4>1. pc' = [pc EXCEPT ![w] = "find"] /\ ti' = ti
          BY <1>7, <3>2, Zenon DEF SendGranted
        <4>2. QED
          BY <1>1, <3>1, <4>1 DEF TypeOK, WillDrain, Recording
      <3>3. CASE Tail(ready[w]) = <<>>
        <4>1. NextQueue(w)
          BY Zenon, <1>7, <3>3 DEF SendGranted
        <4>2. pc'[w] = "drain" /\ ti'[w] = ti[w] + 1
          BY <1>1, <3>1, <4>1, NextQueueStep, TypesAssumption DEF Types
        <4>3. QED
          BY <3>1, <4>2 DEF WillDrain, Types
      <3>4. QED
        BY <3>2, <3>3
    <2>4. QED
      BY <2>1, <2>2, <2>3, DebtsKept DEF WillDrain
  <1>8. CASE Return(w)
    <2>1. pc'[w] = "return" \/ (pc'[w] = "drain" /\ ti'[w] = 1)
      BY <1>1, <1>8 DEF TypeOK, Return
    <2>2. \A t \in Types : WillDrain(w, t)'
      BY <2>1 DEF WillDrain, Types
    <2>3. QED
      BY <2>2 DEF NoLostWakeup
  <1>9. QED
    BY <1>2, <1>3, <1>4, <1>5, <1>6, <1>7, <1>8 DEF Work

-----------------------------------------------------------------------------

\* At start no request waits.
LEMMA InitWakeup == Init => NoLostWakeup
  BY DEF Init, NoLostWakeup, HeadFits

\* Safe is inductive.
LEMMA NextSafe ==
  ASSUME Safe, [Next]_vars
  PROVE  Safe'
  <1>1. CASE Next
    BY <1>1, ClientSafe, ServeSafe, WorkSafe, Zenon DEF Next
  <1>2. CASE UNCHANGED vars
    BY <1>2 DEF vars, pool, net, locals, Safe, TypeOK, OneWorkerPerFd, Stages
  <1>3. QED
    BY <1>1, <1>2

\* NoLostWakeup is inductive relative to Safe.
LEMMA NextWakeup ==
  ASSUME Safe, NoLostWakeup, [Next]_vars
  PROVE  NoLostWakeup'
  <1>1. ASSUME NEW c \in Conns, Client(c) PROVE NoLostWakeup'
    <2>1. UNCHANGED <<left, queue, pc, ti>>
      BY <1>1, Zenon DEF Client, Connect, Release, Disconnect, pool
    <2>2. QED
      BY <2>1, DebtsKept DEF WillDrain
  <1>2. ASSUME NEW w \in Workers, NEW f \in Fds, Serve(w, f) PROVE NoLostWakeup'
    <2>1. UNCHANGED <<left, queue, ti>> /\ pc[w] = "idle"
      BY <1>2 DEF Serve, pool
    <2>2. \A v \in Workers \ {w} : pc'[v] = pc[v]
      BY <1>2 DEF Serve, Safe, TypeOK
    <2>3. QED
      BY <2>1, <2>2, DebtsKept, Zenon DEF WillDrain, Recording
  <1>3. CASE UNCHANGED vars
    <2>1. UNCHANGED <<left, queue, pc, ti>>
      BY <1>3 DEF vars, pool
    <2>2. QED
      BY <2>1, DebtsKept DEF WillDrain
  <1>4. QED
    BY <1>1, <1>2, <1>3, WorkWakeup, Zenon DEF Next

\* The variables keep their types, and at most one worker at a time serves a
\* connection, which stays open for as long as it is served.
THEOREM PoolSafe == Spec => [](TypeOK /\ OneWorkerPerFd)
  <1>1. Init => Safe
    BY InitSafe
  <1>2. Safe /\ [Next]_vars => Safe'
    BY NextSafe
  <1>3. Safe => TypeOK /\ OneWorkerPerFd
    BY DEF Safe
  <1>4. QED
    BY <1>1, <1>2, <1>3, PTL DEF Spec

\* A request that fits is never left waiting with no worker on its way to it.
THEOREM PoolNoLostWakeup == Spec => []NoLostWakeup
  <1>1. Init => Safe /\ NoLostWakeup
    BY InitSafe, InitWakeup
  <1>2. Safe /\ NoLostWakeup /\ [Next]_vars => Safe' /\ NoLostWakeup'
    BY NextSafe, NextWakeup
  <1>3. QED
    BY <1>1, <1>2, PTL DEF Spec

=============================================================================
