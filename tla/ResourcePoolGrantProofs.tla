----------------------- MODULE ResourcePoolGrantProofs ------------------------
(***************************************************************************)
(* What a node has granted is on record, for every number of workers,      *)
(* types, connections and descriptors, when no client leaves before it is  *)
(* answered: the steps that grant, record and take back.                   *)
(***************************************************************************)
EXTENDS ResourcePoolRequestProofs

-----------------------------------------------------------------------------
(* Granting and recording.                                                  *)

\* The head of a queue moves to the stash of the worker that drains it.
LEMMA DrainPopGrants ==
    ASSUME Safe, GInv, NEW w \in Workers, DrainPop(w)
    PROVE  GInv'
<1>1. /\ UNCHANGED <<table, net, cur, ti, key, rj, eof>>
      /\ pc[w] \in {"drain", "draining"} /\ pc' = [pc EXCEPT ![w] = "draining"]
      /\ TypeOK /\ AtWork(w) /\ Stash(w)
  BY DEF DrainPop, Safe, GInv, WorkerInv, ReadyInv
<1>2. PICK t \in Types : t = ti[w]
  BY <1>1 DEF TypeOK
<1>3. /\ queue[t] # <<>> /\ queue' = [queue EXCEPT ![t] = Tail(queue[t])]
      /\ ready' = [ready EXCEPT ![w] = <<Head(queue[t])>> \o ready[w]]
  BY <1>2, Zenon DEF DrainPop, HeadFits
<1>4. /\ pc'[w] = "draining" /\ \A v \in Workers \ {w} : pc'[v] = pc[v] /\ ready'[v] = ready[v]
  BY <1>1, <1>3, Zenon DEF TypeOK
<1>5. PICK rq \in Requests : rq = Head(queue[t]) /\ rq = queue[t][1] /\ 1 \in 1..Len(queue[t])
  BY <1>1, <1>3, RequestTypes
<1>6. \A u \in Types : \A i \in 1..Len(queue'[u]) :
          \E h \in 1..Len(queue[u]) :
              /\ queue'[u][i] = queue[u][h]
              /\ IF u = t THEN h = i + 1 ELSE h = i
  <2>1. /\ queue[t] \in Seq(Requests) /\ Len(queue[t]) \in Nat
        /\ queue'[t] = Tail(queue[t]) /\ \A u \in Types \ {t} : queue'[u] = queue[u]
    BY <1>1, <1>3 DEF TypeOK
  <2>2. \A i \in 1..Len(Tail(queue[t])) :
            i + 1 \in 1..Len(queue[t]) /\ Tail(queue[t])[i] = queue[t][i + 1]
    BY <1>3, <2>1
  <2> QED
    BY <2>1, <2>2, Zenon
<1>7. /\ ready[w] \in Seq(Requests) /\ Len(ready[w]) \in Nat
      /\ Len(ready'[w]) = Len(ready[w]) + 1 /\ ready'[w][1] = rq
      /\ \A i \in 1..Len(ready'[w]) : i # 1 =>
            i - 1 \in 1..Len(ready[w]) /\ ready'[w][i] = ready[w][i - 1]
  <2>1. ready[w] \in Seq(Requests) /\ ready'[w] = <<rq>> \o ready[w]
    BY <1>1, <1>3, <1>5, Zenon DEF TypeOK
  <2> QED
    BY <2>1
<1>8. Filed(rq, t) /\ Entry(sock[rq.fd]) = NoEntry
  BY <1>5 DEF GInv, QueueInv
<1>9. /\ \A r, u : Filed(r, u)' <=> Filed(r, u)
      /\ \A c : Entry(c)' = Entry(c)
  BY <1>1 DEF Filed, Entry, net
<1>10. QueueInv'
  <2> SUFFICES ASSUME NEW u \in Types, NEW i \in 1..Len(queue'[u])
               PROVE  Filed(queue'[u][i], u) /\ Entry(sock[queue'[u][i].fd]) = NoEntry
    BY <1>1, <1>9, Zenon DEF QueueInv, net
  <2>1. PICK h \in 1..Len(queue[u]) : queue'[u][i] = queue[u][h]
    BY <1>6
  <2> QED
    BY <2>1 DEF GInv, QueueInv
<1>11. ReadyInv'
  <2> SUFFICES ASSUME NEW v \in Workers, NEW i \in 1..Len(ready'[v])
               PROVE  /\ Filed(ready'[v][i], ti[v])
                      /\ (Entry(sock[ready'[v][i].fd]) # NoEntry) <=> Recorded(v, i)'
    BY <1>1, <1>9, Zenon DEF ReadyInv, Stash, net
  <2>1. CASE v # w
    <3>1. Recorded(v, i)' <=> Recorded(v, i)
      BY <1>4, <2>1 DEF Recorded
    <3>2. ready'[v] = ready[v] /\ Stash(v)
      BY <1>4, <2>1 DEF GInv, ReadyInv
    <3> QED
      BY <3>1, <3>2 DEF Stash
  <2>2. CASE v = w
    <3>1. ~Recorded(w, i)'
      BY <1>4, Zenon DEF Recorded
    <3>2. \A h \in 1..Len(ready[w]) :
              Filed(ready[w][h], ti[w]) /\ Entry(sock[ready[w][h].fd]) = NoEntry
      BY <1>1 DEF Stash, Recorded
    <3>3. Filed(ready'[w][i], ti[w]) /\ Entry(sock[ready'[w][i].fd]) = NoEntry
      BY <1>2, <1>7, <1>8, <2>2, <3>2, Zenon
    <3> QED
      BY <2>2, <3>1, <3>3
  <2> QED
    BY <2>1, <2>2, Zenon
<1>12. ASSUME NEW v \in Workers, NEW i \in 1..Len(ready'[v])
       PROVE  \/ /\ v = w => i # 1
                 /\ \E h \in 1..Len(ready[v]) : /\ ready'[v][i].fd = ready[v][h].fd
                                                /\ h = IF v = w THEN i - 1 ELSE i
              \/ v = w /\ i = 1 /\ ready'[v][i].fd = queue[t][1].fd
  <2>1. CASE v # w
    BY <1>4, <2>1
  <2>2. CASE v = w /\ i = 1
    BY <1>5, <1>7, <2>2
  <2>3. CASE v = w /\ i # 1
    BY <1>7, <2>3
  <2> QED
    BY <2>1, <2>2, <2>3, Zenon
<1>13. OnceInv'
  <2>1. \A u \in Types : \A i, h \in 1..Len(queue[u]) :
           queue[u][i].fd = queue[u][h].fd => i = h
    BY Zenon DEF GInv, OnceInv
  <2>6. \A v, x \in Workers : \A i \in 1..Len(ready[v]), h \in 1..Len(ready[x]) :
           ready[v][i].fd = ready[x][h].fd => v = x /\ i = h
    BY Zenon DEF GInv, OnceInv
  <2>7. \A u \in Types, v \in Workers :
           \A i \in 1..Len(queue[u]), h \in 1..Len(ready[v]) :
               queue[u][i].fd # ready[v][h].fd
    BY Zenon DEF GInv, OnceInv
  <2>2. \A u \in Types \ {t} : \A i \in 1..Len(queue[u]) : queue[u][i].fd # rq.fd
    <3>1. TypeOf[sock[rq.fd]] = t
      BY <1>8 DEF Filed
    <3> SUFFICES ASSUME NEW u \in Types \ {t}, NEW i \in 1..Len(queue[u]),
                        queue[u][i].fd = rq.fd
                 PROVE  FALSE
      OBVIOUS
    <3>2. TypeOf[sock[queue[u][i].fd]] = u
      BY Zenon DEF GInv, QueueInv, Filed
    <3> QED
      BY <3>1, <3>2
  <2>3. ASSUME NEW u \in Types, NEW i \in 1..Len(queue'[u]), NEW h \in 1..Len(queue'[u]),
               queue'[u][i].fd = queue'[u][h].fd
        PROVE  i = h
    <3>1. PICK e \in 1..Len(queue[u]) :
              queue'[u][i].fd = queue[u][e].fd /\ e = IF u = t THEN i + 1 ELSE i
      BY <1>6, Zenon
    <3>2. PICK g \in 1..Len(queue[u]) :
              queue'[u][h].fd = queue[u][g].fd /\ g = IF u = t THEN h + 1 ELSE h
      BY <1>6, Zenon
    <3>3. e = g
      <4>1. queue[u][e].fd = queue[u][g].fd
        BY <2>3, <3>1, <3>2, Zenon
      <4> QED
        BY <2>1, <4>1, Zenon
    <3>4. i \in Int /\ h \in Int
      OBVIOUS
    <3> QED
      BY <3>1, <3>2, <3>3, <3>4
  <2>4. ASSUME NEW v \in Workers, NEW x \in Workers,
               NEW i \in 1..Len(ready'[v]), NEW h \in 1..Len(ready'[x]),
               ready'[v][i].fd = ready'[x][h].fd
        PROVE  v = x /\ i = h
    <3>1. \A y \in Workers : \A g \in 1..Len(ready[y]) : ready[y][g].fd # queue[t][1].fd
      BY <1>5, <2>7, Zenon
    <3>2. i \in Int /\ h \in Int
      OBVIOUS
    <3>3. CASE v = w /\ i = 1
      BY <1>12, <2>4, <3>1, <3>3
    <3>4. CASE x = w /\ h = 1
      BY <1>12, <2>4, <3>1, <3>4
    <3>5. CASE ~(v = w /\ i = 1) /\ ~(x = w /\ h = 1)
      <4>1. PICK e \in 1..Len(ready[v]) :
                ready'[v][i].fd = ready[v][e].fd /\ e = IF v = w THEN i - 1 ELSE i
        BY <1>12, <3>5
      <4>2. PICK g \in 1..Len(ready[x]) :
                ready'[x][h].fd = ready[x][g].fd /\ g = IF x = w THEN h - 1 ELSE h
        BY <1>12, <3>5
      <4>3. v = x /\ e = g
        <5>1. ready[v][e].fd = ready[x][g].fd
          BY <2>4, <4>1, <4>2, Zenon
        <5> QED
          BY <2>6, <5>1, Zenon
      <4> QED
        BY <3>2, <4>1, <4>2, <4>3
    <3> QED
      BY <3>3, <3>4, <3>5
  <2>5. ASSUME NEW u \in Types, NEW v \in Workers,
               NEW i \in 1..Len(queue'[u]), NEW h \in 1..Len(ready'[v])
        PROVE  queue'[u][i].fd # ready'[v][h].fd
    <3>1. PICK e \in 1..Len(queue[u]) :
              queue'[u][i].fd = queue[u][e].fd /\ e = IF u = t THEN i + 1 ELSE i
      BY <1>6
    <3>2. CASE \E g \in 1..Len(ready[v]) : ready'[v][h].fd = ready[v][g].fd
      BY <2>7, <3>1, <3>2, Zenon
    <3>3. CASE ready'[v][h].fd = queue[t][1].fd
      <4>1. u = t => e # 1
        <5>1. i \in Nat \ {0}
          OBVIOUS
        <5> QED
          BY <3>1, <5>1
      <4> QED
        <5>1. CASE u = t
          BY <1>5, <2>1, <3>1, <3>3, <4>1, <5>1, Zenon
        <5>2. CASE u # t
          BY <1>5, <2>2, <3>1, <3>3, <5>2, Zenon
        <5> QED
          BY <5>1, <5>2, Zenon
    <3> QED
      BY <1>12, <3>2, <3>3
  <2> QED
    BY <2>3, <2>4, <2>5, Zenon DEF OnceInv
<1>14. ASSUME NEW v \in Workers PROVE AtWork(v)'
  <2>1. AtWork(v)
    BY DEF GInv, WorkerInv
  <2>2. CASE v # w
    BY <1>1, <1>4, <2>1, <2>2, SameWorker, Zenon DEF net
  <2>3. CASE v = w
    <3>1. On(cur[w])' = On(cur[w])
      BY <1>1 DEF On
    <3> QED
      BY <1>1, <1>4, <2>3, <3>1, Zenon DEF AtWork, net
  <2> QED
    BY <2>2, <2>3
<1>15. ConnInv' /\ TableInv'
  BY <1>1, SameConns, SameTable DEF GInv
<1> QED
  BY <1>10, <1>11, <1>13, <1>14, <1>15 DEF GInv, WorkerInv

\* The request is recorded under the key of its own connection.
LEMMA RecordInsertGrants ==
    ASSUME Safe, GInv, NEW w \in Workers, RecordInsert(w)
    PROVE  GInv'
<1>1. /\ UNCHANGED <<queue, net, cur, ti, ready, eof>>
      /\ pc[w] = "insert" /\ pc' = [pc EXCEPT ![w] = "send"]
      /\ key' = [key EXCEPT ![w] = <<>>]
      /\ TypeOK /\ AtWork(w) /\ Stash(w)
  BY Zenon DEF RecordInsert, Safe, GInv, WorkerInv, ReadyInv
<1>2. PICK rq \in Requests : /\ rq = Head(ready[w]) /\ rq = ready[w][1]
                             /\ 1 \in 1..Len(ready[w])
                             /\ Filed(rq, ti[w]) /\ Entry(sock[rq.fd]) = NoEntry
  BY <1>1, HeadFiled DEF Recording
<1>3. PICK c \in Conns : /\ c = sock[rq.fd] /\ client[c] = "waiting" /\ inbox[c] = <<>>
                         /\ rq.amount = AmountOf[c] /\ ti[w] = TypeOf[c]
  BY <1>2, Zenon DEF Filed
<1>4. PICK k \in Keys : k = <<JobOf[c], c>> /\ k[1] = JobOf[c] /\ k[2] = c
  <2>1. <<JobOf[c], c>> \in Keys
    BY ConnsAssumption DEF Keys
  <2> QED
    BY <2>1
<1>5. key[w] = k /\ rj[w] = NoEntry /\ table[k] = NoEntry
  BY <1>1, <1>2, <1>3, <1>4, Zenon DEF AtWork, Entry
<1>6. table' = [table EXCEPT ![k] = [granted |-> Amounts(c), fd |-> rq.fd]]
  <2>1. [NoEntry.granted EXCEPT ![TypeOf[c]] = @ + AmountOf[c]] = Amounts(c)
    <3>1. AmountOf[c] \in Nat /\ TypeOf[c] \in Types
      BY ConnsAssumption
    <3>2. NoEntry.granted = [t \in Types |-> 0]
      BY DEF NoEntry
    <3> QED
      BY <3>1, <3>2 DEF Amounts
  <2>2. table' = [table EXCEPT ![key[w]] =
                    [granted |-> [rj[w].granted EXCEPT ![ti[w]] = @ + Head(ready[w]).amount],
                     fd      |-> Head(ready[w]).fd]]
    BY DEF RecordInsert
  <2> QED
    BY <1>2, <1>3, <1>5, <2>1, <2>2, Zenon
<1>7. /\ table'[k] = [granted |-> Amounts(c), fd |-> rq.fd] /\ table'[k] # NoEntry
      /\ \A q \in Keys \ {k} : table'[q] = table[q]
  <2>1. rq.fd # NoFd
    BY NullsAssumption DEF Requests
  <2>2. [granted |-> Amounts(c), fd |-> rq.fd] # NoEntry
    BY <2>1, NoEntryFd
  <2> QED
    BY <1>1, <1>6, <2>2, Zenon DEF TypeOK
<1>8. /\ pc'[w] = "send"
      /\ \A v \in Workers \ {w} : pc'[v] = pc[v] /\ key'[v] = key[v] /\ rj'[v] = rj[v]
  <2>1. \A v \in Workers : pc[v] # "copy"
    BY Zenon DEF GInv, WorkerInv, AtWork
  <2>2. \A v \in Workers \ {w} : rj'[v] = rj[v]
    BY <1>1, <2>1, Zenon DEF RecordInsert, Dangling, TypeOK
  <2> QED
    BY <1>1, <2>2 DEF TypeOK
<1>9. ASSUME NEW r \in Requests, NEW t, Filed(r, t), r.fd # rq.fd PROVE Undisturbed(r)
  <2>1. sock[r.fd] # c /\ sock[r.fd] \in Conns
    BY <1>2, <1>3, <1>9, OtherConn, Zenon DEF Filed
  <2>2. PICK q \in Keys : q = <<JobOf[sock[r.fd]], sock[r.fd]>> /\ q # k
    <3>1. <<JobOf[sock[r.fd]], sock[r.fd]>> \in Keys
      BY <2>1, ConnsAssumption, Zenon DEF Keys
    <3> QED
      BY <1>4, <2>1, <3>1
  <2>3. Entry(sock[r.fd])' = Entry(sock[r.fd])
    BY <1>1, <1>7, <2>2, Zenon DEF Entry, net
  <2> QED
    BY <1>1, <2>3 DEF Undisturbed, net
<1>10. QueueInv'
  <2>1. \A t \in Types : \A i \in 1..Len(queue[t]) : queue[t][i].fd # rq.fd
    <3>1. \A t \in Types : \A i \in 1..Len(queue[t]) : queue[t][i].fd # ready[w][1].fd
      BY <1>2, OnlyRequest, Zenon
    <3>2. ready[w][1].fd = rq.fd
      BY <1>2
    <3> QED
      BY <3>1, <3>2
  <2> QED
    BY <1>1, <1>9, <2>1, RequestTypes, KeptQueues, Zenon DEF GInv
<1>11. ReadyInv'
  <2> SUFFICES ASSUME NEW v \in Workers PROVE Stash(v)'
    BY DEF ReadyInv
  <2>1. Stash(v)
    BY DEF GInv, ReadyInv
  <2>2. \A i \in 1..Len(ready[v]) : ready[v][i].fd = rq.fd => v = w /\ i = 1
    <3>1. \A i \in 1..Len(ready[v]) : ready[v][i].fd = ready[w][1].fd => v = w /\ i = 1
      BY <1>2, OnlyRequest, Zenon
    <3>2. ready[w][1].fd = rq.fd
      BY <1>2
    <3> QED
      BY <3>1, <3>2
  <2>3. CASE v # w
    BY <1>1, <1>8, <1>9, <2>1, <2>2, <2>3, RequestTypes, KeptStash, Zenon
  <2>4. CASE v = w
    <3> SUFFICES ASSUME NEW i \in 1..Len(ready[w]), NEW r, r = ready[w][i]
                 PROVE  Filed(r, ti[w])' /\ ((Entry(sock[r.fd]) # NoEntry)' <=> i = 1)
      BY <1>1, <1>8, <2>4, Zenon DEF Stash, Recorded
    <3>1. Filed(r, ti[w]) /\ Entry(sock[r.fd]) = NoEntry /\ r \in Requests
      BY <1>1, RequestTypes, Zenon DEF Stash, Recorded
    <3>2. Filed(r, ti[w])'
      BY <1>1, <3>1, Zenon DEF Filed, net
    <3>3. sock' = sock
      BY <1>1, Zenon DEF net
    <3>4. CASE i = 1
      <4>1. Entry(sock[r.fd])' = table'[k]
        BY <1>2, <1>3, <1>4, <3>3, <3>4, Zenon DEF Entry
      <4> QED
        BY <1>7, <3>2, <3>4, <4>1, Zenon
    <3>5. CASE i # 1
      <4>1. r.fd # rq.fd
        BY <2>2, <2>4, <3>5
      <4>2. Undisturbed(r)
        BY <1>9, <3>1, <4>1
      <4> QED
        BY <3>1, <3>2, <3>3, <3>5, <4>2, Zenon DEF Undisturbed, Entry
    <3> QED
      BY <3>4, <3>5, Zenon
  <2> QED
    BY <2>3, <2>4
<1>12. TableInv'
  <2>1. ASSUME NEW q \in Keys, table'[q] # NoEntry PROVE Own(q)'
    <3>1. CASE q = k
      <4>1. <<>> # <<"RESERVE">> /\ rq.fd \in Fds
        BY DEF Requests
      <4>2. Amounts(c)' = Amounts(c)
        BY DEF Amounts
      <4> QED
        <5>1. table'[q].fd = rq.fd /\ table'[q].granted = Amounts(c)
          <6>1. table'[q] = [granted |-> Amounts(c), fd |-> rq.fd]
            BY <1>7, <3>1, Zenon
          <6> QED
            BY <6>1
        <5>2. sock' = sock /\ inbox' = inbox
          BY <1>1 DEF net
        <5> QED
          BY <1>3, <1>4, <3>1, <4>1, <4>2, <5>1, <5>2, Zenon DEF Own
    <3>2. CASE q # k
      <4>1. table'[q] = table[q] /\ Own(q)
        BY <1>7, <2>1, <3>2 DEF GInv, TableInv
      <4> QED
        BY <1>1, <4>1, Zenon DEF Own, Amounts, net
    <3> QED
      BY <3>1, <3>2
  <2>2. ASSUME NEW d \in Conns, client[d] = "held" PROVE Entry(d)' # NoEntry
    <3>1. <<JobOf[d], d>> \in Keys \ {k}
      BY <1>3, <1>4, <2>2, ConnsAssumption, Zenon DEF Keys
    <3> QED
      BY <1>7, <2>2, <3>1 DEF GInv, TableInv, Entry
  <2> QED
    BY <1>1, <2>1, <2>2 DEF TableInv, net
<1>13. ASSUME NEW v \in Workers PROVE AtWork(v)'
  <2>1. AtWork(v)
    BY DEF GInv, WorkerInv
  <2>2. eof[v] => \A q \in Keys : table'[q].fd = cur[v] => table[q].fd = cur[v]
    <3>1. eof[v] => rq.fd # cur[v]
      BY <1>3, <2>1, Zenon DEF AtWork
    <3> QED
      BY <1>7, <3>1
  <2>3. CASE v # w
    BY <1>1, <1>8, <2>1, <2>2, <2>3, SameWorker, Zenon DEF net
  <2>4. CASE v = w
    <3>1. eof[w] => On(cur[w])' = {}
      BY <1>1, <2>2, <2>4, Zenon DEF AtWork, On
    <3> QED
      BY <1>1, <1>8, <2>4, <3>1, Zenon DEF AtWork, Recording, net
  <2> QED
    BY <2>3, <2>4
<1>14. ConnInv' /\ OnceInv'
  BY <1>1, SameConns, SameOnce DEF GInv
<1> QED
  BY <1>10, <1>11, <1>12, <1>13, <1>14 DEF GInv, WorkerInv

\* GRANTED is sent for what has just been recorded.
LEMMA SendGrantedGrants ==
    ASSUME Safe, GInv, NEW w \in Workers, SendGranted(w)
    PROVE  GInv'
<1>1. /\ UNCHANGED <<queue, table, sock, inbox, cur, key, rj, eof>>
      /\ pc[w] = "send" /\ ready' = [ready EXCEPT ![w] = Tail(ready[w])]
      /\ TypeOK /\ AtWork(w) /\ Stash(w)
  BY Zenon DEF SendGranted, pool, Safe, GInv, WorkerInv, ReadyInv
<1>2. PICK rq \in Requests : /\ rq = Head(ready[w]) /\ rq = ready[w][1]
                             /\ 1 \in 1..Len(ready[w])
                             /\ Filed(rq, ti[w]) /\ Entry(sock[rq.fd]) # NoEntry
  BY <1>1, HeadFiled, Zenon DEF Recording
<1>3. PICK c \in Conns : /\ c = sock[rq.fd] /\ client[c] = "waiting" /\ inbox[c] = <<>>
                         /\ rq.job = JobOf[c]
  BY <1>2, Zenon DEF Filed
<1>4. client' = [client EXCEPT ![c] = "held"]
  BY <1>2, <1>3, NullsAssumption, Zenon DEF SendGranted
<1>5. client'[c] = "held" /\ \A d \in Conns \ {c} : client'[d] = client[d]
  BY <1>1, <1>4, Zenon DEF TypeOK
<1>6. /\ pc'[w] # "send" /\ \A v \in Workers \ {w} : pc'[v] = pc[v] /\ ti'[v] = ti[v]
      /\ Tail(ready[w]) # <<>> => pc'[w] = "find" /\ ti'[w] = ti[w]
  <2>1. CASE Tail(ready[w]) # <<>>
    <3>1. pc' = [pc EXCEPT ![w] = "find"] /\ ti' = ti
      BY <2>1, Zenon DEF SendGranted
    <3> QED
      BY <1>1, <3>1, Zenon DEF TypeOK
  <2>2. CASE Tail(ready[w]) = <<>>
    <3>1. NextQueue(w)
      BY <2>2, Zenon DEF SendGranted
    <3> QED
      BY <1>1, <2>2, <3>1, NextQueueStep, Zenon
  <2> QED
    BY <2>1, <2>2
<1>7. /\ ready'[w] = Tail(ready[w]) /\ \A v \in Workers \ {w} : ready'[v] = ready[v]
      /\ \A i \in 1..Len(ready'[w]) :
            i + 1 \in 1..Len(ready[w]) /\ ready'[w][i] = ready[w][i + 1] /\ i + 1 # 1
  <2>1. ready \in [Workers -> Seq(Requests)] /\ ready[w] \in Seq(Requests) /\ ready[w] # <<>>
    BY <1>1, Zenon DEF TypeOK, Safe, Stages, Recording
  <2>2. ready'[w] = Tail(ready[w]) /\ \A v \in Workers \ {w} : ready'[v] = ready[v]
    BY <1>1, <2>1
  <2> QED
    BY <2>1, <2>2
<1>8. ASSUME NEW r \in Requests, NEW t, Filed(r, t), r.fd # rq.fd PROVE Undisturbed(r)
  <2>1. sock[r.fd] # c /\ sock[r.fd] \in Conns
    BY <1>2, <1>3, <1>8, OtherConn, Zenon DEF Filed
  <2> QED
    BY <1>1, <1>5, <2>1, Zenon DEF Undisturbed, Entry
<1>9. ConnInv'
  <2>1. ASSUME NEW g \in Fds, sock[g] # NoConn PROVE client'[sock[g]] # "new"
    <3>1. sock[g] \in Conns /\ client[sock[g]] # "new"
      BY <1>1, <2>1, Zenon DEF TypeOK, GInv, ConnInv
    <3> QED
      BY <1>5, <3>1, Zenon
  <2>2. ASSUME NEW d \in Conns
        PROVE  /\ client'[d] \in {"new", "held"} => inbox[d] = <<>>
               /\ client'[d] = "waiting" => inbox[d] \in {<<>>, <<"RESERVE">>}
               /\ client'[d] = "closed" =>
                     inbox[d] \in {<<>>, <<"EOF">>, <<"RELEASE", "EOF">>}
    <3>1. CASE d = c
      BY <1>3, <1>5, <3>1, Zenon
    <3>2. CASE d # c
      BY <1>5, <3>2, Zenon DEF GInv, ConnInv
    <3> QED
      BY <3>1, <3>2, Zenon
  <2> QED
    BY <1>1, <2>1, <2>2, Zenon DEF GInv, ConnInv
<1>10. QueueInv'
  <2>1. \A t \in Types : \A i \in 1..Len(queue[t]) : queue[t][i].fd # rq.fd
    <3>1. \A t \in Types : \A i \in 1..Len(queue[t]) : queue[t][i].fd # ready[w][1].fd
      BY <1>2, OnlyRequest, Zenon
    <3>2. ready[w][1].fd = rq.fd
      BY <1>2
    <3> QED
      BY <3>1, <3>2
  <2> QED
    BY <1>1, <1>8, <2>1, RequestTypes, KeptQueues, Zenon DEF GInv
<1>11. ReadyInv'
  <2> SUFFICES ASSUME NEW v \in Workers PROVE Stash(v)'
    BY DEF ReadyInv
  <2>1. Stash(v)
    BY DEF GInv, ReadyInv
  <2>2. \A i \in 1..Len(ready[v]) : ready[v][i].fd = rq.fd => v = w /\ i = 1
    <3>1. \A i \in 1..Len(ready[v]) : ready[v][i].fd = ready[w][1].fd => v = w /\ i = 1
      BY <1>2, OnlyRequest, Zenon
    <3>2. ready[w][1].fd = rq.fd
      BY <1>2
    <3> QED
      BY <3>1, <3>2
  <2>3. CASE v # w
    BY <1>1, <1>6, <1>7, <1>8, <2>1, <2>2, <2>3, RequestTypes, KeptStash, Zenon
  <2>4. CASE v = w
    <3> SUFFICES ASSUME NEW i \in 1..Len(ready'[w]), NEW r, r = ready'[w][i]
                 PROVE  /\ Filed(r, ti[w])'
                        /\ (Entry(sock[r.fd]) = NoEntry)'
      BY <1>6, <2>4, Zenon DEF Stash, Recorded
    <3>1. PICK h \in 1..Len(ready[w]) : r = ready[w][h] /\ h # 1
      BY <1>7, Zenon
    <3>2. Filed(r, ti[w]) /\ Entry(sock[r.fd]) = NoEntry /\ r \in Requests /\ r.fd # rq.fd
      BY <1>1, <2>2, <2>4, <3>1, RequestTypes, Zenon DEF Stash, Recorded
    <3>3. ti'[w] = ti[w]
      <4>1. ready'[w] # <<>>
        OBVIOUS
      <4> QED
        BY <1>6, <1>7, <4>1, Zenon
    <3>4. Undisturbed(r)
      BY <1>8, <3>2
    <3>5. PICK t : t = ti[w]
      OBVIOUS
    <3>6. Filed(r, t)'
      BY <3>2, <3>4, <3>5, FiledKept, Zenon DEF Undisturbed
    <3>7. (Entry(sock[r.fd]) = NoEntry)'
      BY <3>2, <3>4, Zenon DEF Undisturbed, Entry
    <3> QED
      BY <3>3, <3>5, <3>6, <3>7, Zenon
  <2> QED
    BY <2>3, <2>4
<1>12. ASSUME NEW v \in Workers, NEW i \in 1..Len(ready'[v])
       PROVE  \E h \in 1..Len(ready[v]) : /\ ready'[v][i].fd = ready[v][h].fd
                                          /\ h = IF v = w THEN i + 1 ELSE i
  <2>1. CASE v # w
    BY <1>7, <2>1
  <2>2. CASE v = w
    BY <1>7, <2>2, Zenon
  <2> QED
    BY <2>1, <2>2
<1>13. OnceInv'
  <2>1. /\ \A u \in Types : \A i, h \in 1..Len(queue[u]) :
              queue[u][i].fd = queue[u][h].fd => i = h
        /\ \A v, x \in Workers : \A i \in 1..Len(ready[v]), h \in 1..Len(ready[x]) :
              ready[v][i].fd = ready[x][h].fd => v = x /\ i = h
        /\ \A u \in Types, v \in Workers :
              \A i \in 1..Len(queue[u]), h \in 1..Len(ready[v]) :
                  queue[u][i].fd # ready[v][h].fd
    BY Zenon DEF GInv, OnceInv
  <2>2. ASSUME NEW v \in Workers, NEW x \in Workers,
               NEW i \in 1..Len(ready'[v]), NEW h \in 1..Len(ready'[x]),
               ready'[v][i].fd = ready'[x][h].fd
        PROVE  v = x /\ i = h
    <3>1. PICK e \in 1..Len(ready[v]) :
              ready'[v][i].fd = ready[v][e].fd /\ e = IF v = w THEN i + 1 ELSE i
      BY <1>12
    <3>2. PICK g \in 1..Len(ready[x]) :
              ready'[x][h].fd = ready[x][g].fd /\ g = IF x = w THEN h + 1 ELSE h
      BY <1>12, Zenon
    <3>3. ready[v][e].fd = ready[x][g].fd
      BY <2>2, <3>1, <3>2, Zenon
    <3>4. v = x /\ e = g
      BY <2>1, <3>3
    <3>5. i \in Int /\ h \in Int
      OBVIOUS
    <3> QED
      BY <3>1, <3>2, <3>4, <3>5
  <2>3. ASSUME NEW u \in Types, NEW v \in Workers,
               NEW i \in 1..Len(queue[u]), NEW h \in 1..Len(ready'[v])
        PROVE  queue[u][i].fd # ready'[v][h].fd
    <3>1. PICK e \in 1..Len(ready[v]) : ready'[v][h].fd = ready[v][e].fd
      BY <1>12, Zenon
    <3> QED
      BY <2>1, <3>1
  <2>4. queue' = queue
    BY <1>1, Zenon
  <2>5. /\ \A u \in Types : \A i, h \in 1..Len(queue'[u]) :
              queue'[u][i].fd = queue'[u][h].fd => i = h
        /\ \A u \in Types, v \in Workers :
              \A i \in 1..Len(queue'[u]), h \in 1..Len(ready'[v]) :
                  queue'[u][i].fd # ready'[v][h].fd
    BY <2>1, <2>3, <2>4
  <2> QED
    BY <2>2, <2>5, Zenon DEF OnceInv
<1>14. TableInv'
  <2>1. ASSUME NEW q \in Keys, table[q] # NoEntry PROVE Own(q)'
    <3>1. Own(q)
      BY <2>1 DEF GInv, TableInv
    <3> QED
      BY <1>1, <3>1, Zenon DEF Own, Amounts
  <2>2. ASSUME NEW d \in Conns, client'[d] = "held" PROVE Entry(d)' # NoEntry
    <3>1. Entry(d)' = Entry(d)
      BY <1>1 DEF Entry
    <3>2. CASE d = c
      BY <1>2, <1>3, <3>1, <3>2, Zenon
    <3>3. CASE d # c
      BY <1>5, <2>2, <3>1, <3>3 DEF GInv, TableInv
    <3> QED
      BY <3>2, <3>3, Zenon
  <2> QED
    BY <1>1, <2>1, <2>2, Zenon DEF TableInv
<1>15. \A d \in Conns : client[d] = "closed" => client'[d] = "closed"
  BY <1>3, <1>5
<1>16. ASSUME NEW v \in Workers PROVE AtWork(v)'
  <2>1. AtWork(v)
    BY Zenon DEF GInv, WorkerInv
  <2>2. pc[v] # "idle" => sock[cur[v]] \in Conns
    BY Serving
  <2>3. CASE v # w
    BY <1>1, <1>6, <1>7, <1>15, <2>1, <2>2, <2>3, SameWorker, Zenon
  <2>4. CASE v = w /\ Tail(ready[w]) # <<>>
    <3>1. On(cur[w])' = On(cur[w])
      BY <1>1, Zenon DEF On
    <3>2. pc'[w] = "find" /\ cur'[w] = cur[w] /\ sock' = sock /\ eof'[w] = eof[w]
      BY <1>1, <1>6, <2>4, Zenon
    <3>3. eof[w] => client[sock[cur[w]]] = "closed" /\ On(cur[w]) = {}
      BY <1>1, Zenon DEF AtWork
    <3> QED
      BY <1>1, <1>15, <2>2, <2>4, <3>1, <3>2, <3>3, Zenon DEF AtWork, Recording
  <2>5. CASE v = w /\ Tail(ready[w]) = <<>>
    <3>1. NextQueue(w) /\ ready'[w] = <<>>
      BY <1>7, <2>5, Zenon DEF SendGranted
    <3> QED
      BY <1>1, <1>15, <2>2, <2>5, <3>1, QueueOver, Zenon DEF Recording
  <2> QED
    BY <2>3, <2>4, <2>5
<1> QED
  BY <1>9, <1>10, <1>11, <1>13, <1>14, <1>16 DEF GInv, WorkerInv

-----------------------------------------------------------------------------
(* Taking back.                                                             *)

\* An entry is removed after the client that it is of has closed.
LEMMA CollectOneGrants ==
    ASSUME Safe, GInv, NEW w \in Workers, CollectOne(w)
    PROVE  GInv'
<1>1. /\ UNCHANGED <<queue, net, cur, ti, ready, key, eof>>
      /\ pc[w] \in {"collect", "collecting"} /\ pc' = [pc EXCEPT ![w] = "collecting"]
      /\ TypeOK /\ AtWork(w)
  BY DEF CollectOne, Safe, GInv, WorkerInv
<1>2. PICK k \in On(cur[w]) : /\ table' = [table EXCEPT ![k] = NoEntry]
                              /\ rj' = Dangling(k, rj)
  BY Zenon DEF CollectOne
<1>3. rj' = rj
  <2>1. \A v \in Workers : pc[v] # "copy"
    BY Zenon DEF GInv, WorkerInv, AtWork
  <2>2. rj = [v \in Workers |-> rj[v]]
    BY <1>1, Zenon DEF TypeOK
  <2> QED
    BY <1>2, <2>1, <2>2, Zenon DEF Dangling
<1>4. /\ k \in Keys /\ table[k].fd = cur[w] /\ cur[w] \in Fds /\ cur[w] # NoFd
      /\ sock[cur[w]] \in Conns
  BY <1>1, <1>2, Serving, NullsAssumption, Zenon DEF On
<1>5. Own(k)
  <2>1. table[k] # NoEntry
    BY <1>4, NoEntryFd, Zenon
  <2> QED
    BY <1>4, <2>1, Zenon DEF GInv, TableInv
<1>6. k[2] = sock[cur[w]] /\ client[k[2]] = "closed"
  BY <1>1, <1>4, <1>5, Zenon DEF Own, AtWork
<1>7. table'[k] = NoEntry /\ \A q \in Keys \ {k} : table'[q] = table[q]
  BY <1>1, <1>2, <1>4, Zenon DEF TypeOK
<1>8. ASSUME NEW d \in Conns, client[d] # "closed" PROVE Entry(d)' = Entry(d)
  <2>1. <<JobOf[d], d>> \in Keys /\ <<JobOf[d], d>>[2] = d
    BY ConnsAssumption, Zenon DEF Keys
  <2>2. <<JobOf[d], d>> # k
    BY <1>6, <1>8, <2>1
  <2> QED
    BY <1>7, <2>1, <2>2 DEF Entry
<1>9. ASSUME NEW r, NEW t, Filed(r, t) PROVE Undisturbed(r)
  <2>1. sock[r.fd] \in Conns /\ client[sock[r.fd]] # "closed"
    BY <1>9, Zenon DEF Filed
  <2>2. Entry(sock[r.fd])' = Entry(sock[r.fd])
    <3>1. sock' = sock
      BY <1>1 DEF net
    <3> QED
      BY <1>8, <2>1, <3>1, Zenon DEF Entry
  <2> QED
    BY <1>1, <2>2, Zenon DEF Undisturbed, net
<1>10. pc'[w] = "collecting" /\ \A v \in Workers \ {w} : pc'[v] = pc[v]
  BY <1>1 DEF TypeOK
<1>11. QueueInv' /\ ReadyInv'
  <2>1. \A v \in Workers : pc'[v] = "send" <=> pc[v] = "send"
    BY <1>1, <1>10, Zenon
  <2>2. QueueInv'
    BY <1>1, <1>9, KeptQueues DEF GInv
  <2>3. ReadyInv'
    BY <1>1, <1>9, <2>1, KeptStash, Zenon DEF GInv, ReadyInv
  <2> QED
    BY <2>2, <2>3
<1>12. TableInv'
  <2>1. ASSUME NEW q \in Keys, table'[q] # NoEntry PROVE Own(q)'
    <3>1. table'[q] = table[q] /\ Own(q)
      BY <1>7, <2>1 DEF GInv, TableInv
    <3> QED
      BY <1>1, <3>1, Zenon DEF Own, Amounts, net
  <2>2. ASSUME NEW d \in Conns, client[d] = "held" PROVE Entry(d)' # NoEntry
    BY <1>8, <2>2 DEF GInv, TableInv
  <2> QED
    BY <1>1, <2>1, <2>2, Zenon DEF TableInv, net
<1>13. ASSUME NEW v \in Workers PROVE AtWork(v)'
  <2>1. AtWork(v)
    BY DEF GInv, WorkerInv
  <2>2. eof[v] => \A q \in Keys : table'[q].fd = cur[v] => table[q].fd = cur[v]
    <3>1. eof[v] => cur[v] # NoFd
      BY <2>1, Serving, NullsAssumption, Zenon DEF AtWork
    <3> QED
      BY <1>7, <3>1, NoEntryFd, Zenon
  <2>3. CASE v # w
    BY <1>1, <1>3, <1>10, <2>1, <2>2, <2>3, SameWorker, Zenon DEF net
  <2>4. CASE v = w
    BY <1>1, <1>10, <2>4, Zenon DEF AtWork, Recording, net
  <2> QED
    BY <2>3, <2>4
<1>14. ConnInv' /\ OnceInv'
  BY <1>1, SameConns, SameOnce DEF GInv
<1> QED
  BY <1>11, <1>12, <1>13, <1>14, Zenon DEF GInv, WorkerInv

-----------------------------------------------------------------------------
(* The theorem.                                                             *)

\* Nothing is on record, asked or being served at start.
LEMMA InitGrants == Init => GInv
<1> SUFFICES ASSUME Init PROVE GInv
  OBVIOUS
<1>1. /\ \A t \in Types : queue[t] = <<>>
      /\ \A k \in Keys : table[k] = NoEntry
      /\ \A f \in Fds : sock[f] = NoConn
      /\ \A c \in Conns : client[c] = "new" /\ inbox[c] = <<>>
      /\ \A w \in Workers : pc[w] = "idle" /\ ready[w] = <<>> /\ ~eof[w]
  BY DEF Init
<1>2. ConnInv
  BY <1>1 DEF ConnInv
<1>3. QueueInv /\ ReadyInv /\ OnceInv
  <2>1. /\ \A t \in Types : \A i \in 1..Len(queue[t]) : FALSE
        /\ \A w \in Workers : \A i \in 1..Len(ready[w]) : FALSE
    BY <1>1
  <2> QED
    BY <2>1, Zenon DEF QueueInv, ReadyInv, Stash, OnceInv
<1>4. TableInv
  BY <1>1 DEF TableInv
<1>5. WorkerInv
  BY <1>1, Zenon DEF WorkerInv, AtWork
<1> QED
  BY <1>2, <1>3, <1>4, <1>5 DEF GInv

\* GInv is inductive relative to Safe, if no client leaves before its answer.
LEMMA NextGrants ==
    ASSUME ~Abandon, Safe, GInv, [Next]_vars
    PROVE  GInv'
<1>1. ASSUME NEW c \in Conns, Client(c) PROVE GInv'
  BY <1>1, ConnectGrants, LeaveGrants DEF Client
<1>2. ASSUME NEW w \in Workers, NEW f \in Fds, Serve(w, f) PROVE GInv'
  BY <1>2, ServeGrants
<1>3. ASSUME NEW w \in Workers, Work(w) PROVE GInv'
  <2>1. ~RecordCopy(w)
    BY Zenon DEF RecordCopy, GInv, WorkerInv, AtWork
  <2> QED
    BY <1>3, <2>1, ReserveGrants, ReadEndGrants, RearmGrants, CloseGrants, DrainPopGrants,
       DrainDoneGrants, RecordFindGrants, RecordInsertGrants, SendGrantedGrants,
       CollectOneGrants, CollectDoneGrants, ReturnGrants, Zenon DEF Work
<1>4. CASE UNCHANGED vars
  <2>1. UNCHANGED <<queue, table, net, pc, cur, ti, ready, key, rj, eof>>
    BY <1>4 DEF vars, pool, locals
  <2>2. ConnInv' /\ QueueInv' /\ OnceInv' /\ TableInv'
    BY <2>1, SameConns, SameQueues, SameOnce, SameTable, Zenon DEF GInv
  <2>3. ReadyInv'
    <3>1. \A r : Undisturbed(r)
      BY <2>1 DEF Undisturbed, Entry, net
    <3> QED
      BY <2>1, <3>1, KeptStash, Zenon DEF GInv, ReadyInv
  <2>4. WorkerInv'
    BY <2>1, SameWorker, Zenon DEF GInv, WorkerInv, net
  <2> QED
    BY <2>2, <2>3, <2>4 DEF GInv
<1> QED
  BY <1>1, <1>2, <1>3, <1>4 DEF Next

\* The entry of a connection that holds something is what GrantIsBacked says.
LEMMA GrantsBacked ==
    ASSUME TypeOK, GInv
    PROVE  GrantIsBacked
<1> SUFFICES ASSUME NEW c \in Conns, client[c] = "held"
             PROVE  Entry(c) = [granted |-> Amounts(c), fd |-> FdOf(c)]
  BY DEF GrantIsBacked, Entry, Amounts
<1>1. PICK k \in Keys : k = <<JobOf[c], c>> /\ k[2] = c
  <2>1. <<JobOf[c], c>> \in Keys
    BY ConnsAssumption DEF Keys
  <2> QED
    BY <2>1
<1>2. Own(k) /\ Entry(c) = table[k]
  BY <1>1 DEF GInv, TableInv, Entry
<1>3. PICK f \in Fds : f = table[k].fd /\ sock[f] = c
  BY <1>1, <1>2, Zenon DEF Own
<1>4. FdOf(c) = f
  <2>1. \A g \in Fds : sock[g] = c => g = f
    BY <1>3, NullsAssumption DEF GInv, ConnInv
  <2> QED
    BY <1>3, <2>1, Zenon DEF FdOf
<1>5. table[k] = [granted |-> table[k].granted, fd |-> table[k].fd]
  BY DEF TypeOK, Entries
<1> QED
  BY <1>1, <1>2, <1>3, <1>4, <1>5, Zenon DEF Own

\* If no client leaves before it is answered, a client that was told GRANTED and
\* has not let go is on record for what it asked, under its own descriptor, in
\* every interleaving of the workers in drain_queue, record_granted and
\* release_client_by_fd.
THEOREM PoolGrants == ASSUME ~Abandon PROVE Spec => []GrantIsBacked
<1>1. Init => Safe /\ GInv
  BY InitSafe, InitGrants
<1>2. Safe /\ GInv /\ [Next]_vars => Safe' /\ GInv'
  BY NextSafe, NextGrants
<1>3. Safe /\ GInv => GrantIsBacked
  BY GrantsBacked DEF Safe
<1> QED
  BY <1>1, <1>2, <1>3, PTL DEF Spec
=============================================================================
