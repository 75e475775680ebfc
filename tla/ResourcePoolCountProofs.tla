----------------------- MODULE ResourcePoolCountProofs ------------------------
(***************************************************************************)
(* The resources of a node are conserved, for every number of workers,     *)
(* types, connections and descriptors, when no client leaves before it is  *)
(* answered.  A sum over connections is the number of units in a set, one  *)
(* unit for each one that a connection asked for.                          *)
(***************************************************************************)
EXTENDS ResourcePoolGrantProofs, FiniteSetTheorems

-----------------------------------------------------------------------------
(* The inductive invariant.                                                 *)

\* Nothing of any type.
Zero == [t \in Types |-> 0]

\* What a worker has collected is what its client held, and all of that.
Carry(w) ==
    \/ add[w] = Zero
    \/ /\ pc[w] \in {"collecting", "return"}
       /\ client[sock[cur[w]]] = "closed" /\ On(cur[w]) = {}
       /\ add[w] = Amounts(sock[cur[w]])
       /\ pc[w] = "return" => ti[w] <= TypeOf[sock[cur[w]]]

\* That holds of every worker.
CarryInv == \A w \in Workers : Carry(w)

\* The descriptors of the requests in q.
FdsOf(q) == {q[i].fd : i \in 1..Len(q)}

\* The request of c is granted and in a stash of drain_queue.
Stashed(c) == \E w \in Workers : \E f \in FdsOf(ready[w]) : sock[f] = c

\* A worker has taken the entry of c off table_nodejobs and not given it back yet.
Carried(c) == \E w \in Workers : add[w] # Zero /\ sock[cur[w]] = c

\* Connection c has what it asked for, or a worker has it on the way there or back.
Charged(c) == Entry(c) # NoEntry \/ Stashed(c) \/ Carried(c)

\* The connections that are charged.
InUse == {c \in Conns : Charged(c)}

\* The units that c asked for, as distinct things.
Share(c) == {c} \X (1..AmountOf[c])

\* The units of type t that the connections in X asked for.
Units(X, t) == UNION {Share(c) : c \in {d \in X : TypeOf[d] = t}}

\* Every unit of the node is free or charged to one connection.
Counted ==
    \A t \in Types :
        /\ IsFiniteSet(Units(InUse, t))
        /\ left[t] + Cardinality(Units(InUse, t)) = Capacity[t]

\* Connection c adds what it asked for to the units of the connections in X.
OneMore(X, c, t) ==
    /\ IsFiniteSet(Units(X, t)) /\ IsFiniteSet(Units(X \union {c}, t))
    /\ Cardinality(Units(X, t)) \in Nat
    /\ Cardinality(Units(X \union {c}, t)) =
          Cardinality(Units(X, t)) + (IF t = TypeOf[c] THEN AmountOf[c] ELSE 0)

-----------------------------------------------------------------------------
(* Counting units.                                                          *)

\* A connection has as many units as it asked for.
LEMMA ShareCount ==
    ASSUME NEW c \in Conns
    PROVE  IsFiniteSet(Share(c)) /\ Cardinality(Share(c)) = AmountOf[c]
<1>1. PICK a \in Nat \ {0} : a = AmountOf[c]
  BY ConnsAssumption, Zenon
<1>2. IsFiniteSet(1..a) /\ Cardinality(1..a) = a
  BY FS_Interval
<1>3. IsFiniteSet({c}) /\ Cardinality({c}) = 1
  BY FS_Singleton, Zenon
<1>4. IsFiniteSet({c} \X (1..a)) /\ Cardinality({c} \X (1..a)) = 1 * a
  <2>1. PICK S, T : S = {c} /\ T = 1..a
    BY Zenon
  <2>2. IsFiniteSet(S \X T) /\ Cardinality(S \X T) = Cardinality(S) * Cardinality(T)
    BY <1>2, <1>3, <2>1, FS_Product
  <2> QED
    BY <1>2, <1>3, <2>1, <2>2
<1>5. 1 * a = a
  OBVIOUS
<1> QED
  BY <1>1, <1>4, <1>5, Zenon DEF Share

\* The units of one more connection are its share, and nobody else's.
LEMMA UnitsAdd ==
    ASSUME NEW X \in SUBSET Conns, NEW c \in Conns \ X, NEW t
    PROVE  /\ t = TypeOf[c] => Units(X \union {c}, t) = Units(X, t) \union Share(c)
           /\ t # TypeOf[c] => Units(X \union {c}, t) = Units(X, t)
           /\ Units(X, t) \cap Share(c) = {}
<1>1. \A Y, u : u \in Units(Y, t) <=> \E d \in Y : TypeOf[d] = t /\ u \in Share(d)
  BY Zenon DEF Units
<1>2. \A d, u : u \in Share(d) => u[1] = d
  BY DEF Share
<1>3. Units(X, t) \cap Share(c) = {}
  <2> SUFFICES ASSUME NEW u, u \in Units(X, t), u \in Share(c)
               PROVE  FALSE
    BY Zenon
  <2>1. PICK d \in X : u \in Share(d)
    BY <1>1, Zenon
  <2> QED
    BY <1>2, <2>1, Zenon
<1>4. ASSUME t = TypeOf[c] PROVE Units(X \union {c}, t) = Units(X, t) \union Share(c)
  <2>1. ASSUME NEW u PROVE u \in Units(X \union {c}, t) <=> u \in Units(X, t) \/ u \in Share(c)
    <3>1. u \in Units(X \union {c}, t) <=> \E d \in X \union {c} : TypeOf[d] = t /\ u \in Share(d)
      BY <1>1, Zenon
    <3>2. u \in Units(X, t) <=> \E d \in X : TypeOf[d] = t /\ u \in Share(d)
      BY <1>1, Zenon
    <3> QED
      BY <3>1, <3>2, <1>4, Zenon
  <2> QED
    BY <2>1
<1>5. ASSUME t # TypeOf[c] PROVE Units(X \union {c}, t) = Units(X, t)
  <2>1. ASSUME NEW u PROVE u \in Units(X \union {c}, t) <=> u \in Units(X, t)
    <3>1. u \in Units(X \union {c}, t) <=> \E d \in X \union {c} : TypeOf[d] = t /\ u \in Share(d)
      BY <1>1, Zenon
    <3>2. u \in Units(X, t) <=> \E d \in X : TypeOf[d] = t /\ u \in Share(d)
      BY <1>1, Zenon
    <3> QED
      BY <3>1, <3>2, <1>5, Zenon
  <2> QED
    BY <2>1 DEF Units
<1> QED
  BY <1>3, <1>4, <1>5

\* So their number grows by what it asked for.
LEMMA UnitsCount ==
    ASSUME NEW X \in SUBSET Conns, NEW c \in Conns \ X, NEW t,
           IsFiniteSet(Units(X, t)) \/ IsFiniteSet(Units(X \union {c}, t))
    PROVE  OneMore(X, c, t)
<1>1. PICK S, T, Z : S = Units(X, t) /\ T = Units(X \union {c}, t) /\ Z = Share(c)
  BY Zenon
<1>2. /\ IsFiniteSet(S) \/ IsFiniteSet(T)
      /\ t = TypeOf[c] => T = S \union Z
      /\ t # TypeOf[c] => T = S
      /\ S \cap Z = {}
  <2>1. /\ t = TypeOf[c] => Units(X \union {c}, t) = Units(X, t) \union Share(c)
        /\ t # TypeOf[c] => Units(X \union {c}, t) = Units(X, t)
        /\ Units(X, t) \cap Share(c) = {}
    BY UnitsAdd
  <2> QED
    BY <1>1, <2>1, Zenon
<1>3. IsFiniteSet(Z) /\ Cardinality(Z) = AmountOf[c] /\ AmountOf[c] \in Nat
  BY <1>1, ShareCount, ConnsAssumption, Zenon
<1>4. IsFiniteSet(S) /\ Cardinality(S) \in Nat
  <2>1. S \in SUBSET T
    BY <1>2, Zenon
  <2>2. IsFiniteSet(S)
    BY <1>2, <2>1, FS_Subset, Zenon
  <2> QED
    BY <2>2, FS_CardinalityType, Zenon
<1>5. /\ IsFiniteSet(S \union Z)
      /\ Cardinality(S \union Z) = Cardinality(S) + Cardinality(Z) - Cardinality(S \cap Z)
  BY <1>3, <1>4, FS_Union, Zenon
<1>6. Cardinality(S \cap Z) = 0
  BY <1>2, FS_EmptySet, Zenon
<1>7. CASE t = TypeOf[c]
  <2>1. Cardinality(T) = Cardinality(S) + AmountOf[c] - 0
    BY <1>2, <1>3, <1>5, <1>6, <1>7, Zenon
  <2>2. PICK n \in Nat, a \in Nat : n = Cardinality(S) /\ a = AmountOf[c]
    BY <1>3, <1>4, Zenon
  <2>3. n + a - 0 = n + a
    OBVIOUS
  <2>4. Cardinality(T) = Cardinality(S) + AmountOf[c]
    BY <2>1, <2>2, <2>3, Zenon
  <2> QED
    BY <1>1, <1>2, <1>4, <1>5, <1>7, <2>4, Zenon DEF OneMore
<1>8. CASE t # TypeOf[c]
  <2>1. PICK n \in Nat : n = Cardinality(S)
    BY <1>4, Zenon
  <2>2. n = n + 0
    OBVIOUS
  <2> QED
    BY <1>1, <1>2, <1>4, <1>8, <2>1, <2>2, Zenon DEF OneMore
<1> QED
  BY <1>7, <1>8, Zenon

\* Nothing is charged or freed.
LEMMA SameCount ==
    ASSUME Counted, left' = left, \A c \in Conns : Charged(c)' <=> Charged(c)
    PROVE  Counted'
<1>1. InUse' = InUse
  BY Zenon DEF InUse
<1> QED
  BY <1>1, Zenon DEF Counted, Units, Share

\* A connection is charged for what it asked, or gives it back.
LEMMA CountStep ==
    ASSUME TypeOK, Counted, NEW c \in Conns, NEW a \in Int,
           \A d \in Conns \ {c} : Charged(d)' <=> Charged(d),
           \/ ~Charged(c) /\ Charged(c)' /\ a = AmountOf[c]
           \/ Charged(c) /\ ~Charged(c)' /\ a = 0 - AmountOf[c],
           left' = [left EXCEPT ![TypeOf[c]] = left[TypeOf[c]] - a]
    PROVE  Counted'
<1> SUFFICES ASSUME NEW t \in Types
             PROVE  /\ IsFiniteSet(Units(InUse', t))
                    /\ left'[t] + Cardinality(Units(InUse', t)) = Capacity[t]
  BY Zenon DEF Counted, Units, Share
<1>1. /\ IsFiniteSet(Units(InUse, t))
      /\ left[t] + Cardinality(Units(InUse, t)) = Capacity[t]
  BY DEF Counted
<1>2. left[t] \in Int /\ Capacity[t] \in Int /\ AmountOf[c] \in Nat
  <2>1. left \in [Types -> Int]
    BY Zenon DEF TypeOK
  <2> QED
    BY <2>1, TypesAssumption, ConnsAssumption
<1>3. left'[t] = IF t = TypeOf[c] THEN left[t] - a ELSE left[t]
  BY DEF TypeOK
<1>4. CASE ~Charged(c) /\ Charged(c)' /\ a = AmountOf[c]
  <2>1. InUse' = InUse \union {c} /\ c \notin InUse /\ InUse \in SUBSET Conns
    BY <1>4, Zenon DEF InUse
  <2>2. PICK m, n : m = Cardinality(Units(InUse, t)) /\ n = Cardinality(Units(InUse', t))
    BY Zenon
  <2>3. /\ IsFiniteSet(Units(InUse', t)) /\ m \in Nat
        /\ n = m + (IF t = TypeOf[c] THEN AmountOf[c] ELSE 0)
    <3>1. PICK X \in SUBSET Conns : X = InUse /\ c \in Conns \ X
      BY <2>1, Zenon
    <3>2. IsFiniteSet(Units(X, t)) \/ IsFiniteSet(Units(X \union {c}, t))
      BY <1>1, <3>1, Zenon
    <3>3. OneMore(X, c, t)
      BY <3>1, <3>2, UnitsCount, Zenon
    <3> QED
      BY <2>1, <2>2, <3>1, <3>3, Zenon DEF OneMore
  <2>4. left'[t] + n = Capacity[t]
    <3>1. PICK l \in Int, g \in Int : l = left[t] /\ g = Capacity[t] /\ l + m = g
      BY <1>1, <1>2, <2>2, Zenon
    <3>2. CASE t = TypeOf[c]
      <4>1. left'[t] = l - a /\ n = m + AmountOf[c]
        BY <1>3, <2>3, <3>1, <3>2, Zenon
      <4> QED
        BY <1>2, <1>4, <2>3, <3>1, <4>1
    <3>3. CASE t # TypeOf[c]
      <4>1. left'[t] = l /\ n = m + 0
        BY <1>3, <2>3, <3>1, <3>3, Zenon
      <4> QED
        BY <2>3, <3>1, <4>1
    <3> QED
      BY <3>2, <3>3, Zenon
  <2> QED
    BY <2>2, <2>3, <2>4, Zenon
<1>5. CASE Charged(c) /\ ~Charged(c)' /\ a = 0 - AmountOf[c]
  <2>1. InUse = InUse' \union {c} /\ c \notin InUse' /\ InUse' \in SUBSET Conns
    BY <1>5, Zenon DEF InUse
  <2>2. PICK m, n : m = Cardinality(Units(InUse, t)) /\ n = Cardinality(Units(InUse', t))
    BY Zenon
  <2>3. /\ IsFiniteSet(Units(InUse', t)) /\ n \in Nat
        /\ m = n + (IF t = TypeOf[c] THEN AmountOf[c] ELSE 0)
    <3>1. PICK X \in SUBSET Conns : X = InUse' /\ c \in Conns \ X
      BY <2>1, Zenon
    <3>2. IsFiniteSet(Units(X, t)) \/ IsFiniteSet(Units(X \union {c}, t))
      BY <1>1, <2>1, <3>1, Zenon
    <3>3. OneMore(X, c, t)
      BY <3>1, <3>2, UnitsCount, Zenon
    <3> QED
      BY <2>1, <2>2, <3>1, <3>3, Zenon DEF OneMore
  <2>4. left'[t] + n = Capacity[t]
    <3>1. PICK l \in Int, g \in Int : l = left[t] /\ g = Capacity[t] /\ l + m = g
      BY <1>1, <1>2, <2>2, Zenon
    <3>2. CASE t = TypeOf[c]
      <4>1. left'[t] = l - a /\ m = n + AmountOf[c]
        BY <1>3, <2>3, <3>1, <3>2, Zenon
      <4> QED
        BY <1>2, <1>5, <2>3, <3>1, <4>1
    <3>3. CASE t # TypeOf[c]
      <4>1. left'[t] = l /\ m = n + 0
        BY <1>3, <2>3, <3>1, <3>3, Zenon
      <4> QED
        BY <2>3, <3>1, <4>1
    <3> QED
      BY <3>2, <3>3, Zenon
  <2> QED
    BY <2>2, <2>3, <2>4, Zenon
<1> QED
  BY <1>4, <1>5

-----------------------------------------------------------------------------
(* What the workers carry.                                                  *)

\* What the steps keep, together with Safe and GInv.
CInv == CarryInv /\ Counted

\* Worker v goes on carrying what it has.
Still(v) ==
    /\ cur'[v] = cur[v] /\ sock'[cur[v]] = sock[cur[v]]
    /\ client'[sock[cur[v]]] = "closed"
    /\ \A k \in Keys : table'[k].fd = cur[v] => table[k].fd = cur[v]
    /\ pc'[v] \in {"collecting", "return"}
    /\ pc'[v] = "return" => ti'[v] <= TypeOf[sock[cur[v]]]

\* A worker that carries something on, and collects nothing more, has what its
\* client held.
LEMMA CarryKept ==
    ASSUME NEW v \in Workers, Carry(v), add'[v] = add[v], add[v] # Zero => Still(v)
    PROVE  Carry(v)'
<1>1. CASE add[v] = Zero
  BY <1>1, Zenon DEF Carry, Zero
<1>2. CASE add[v] # Zero
  <2>1. /\ On(cur[v]) = {} /\ add[v] = Amounts(sock[cur[v]]) /\ Still(v)
    BY <1>2, Zenon DEF Carry
  <2>2. On(cur[v])' = {}
    BY <2>1, Zenon DEF Still, On
  <2>3. add'[v] = Amounts(sock[cur[v]])'
    <3>1. sock'[cur'[v]] = sock[cur[v]]
      BY <2>1, Zenon DEF Still
    <3> QED
      BY <2>1, <3>1 DEF Amounts
  <2> QED
    BY <2>1, <2>2, <2>3, Zenon DEF Still, Carry
<1> QED
  BY <1>1, <1>2, Zenon

\* What is carried was taken from a client that is gone, by one worker.
LEMMA Carrying ==
    ASSUME Safe, GInv, CarryInv, NEW w \in Workers, add[w] # Zero
    PROVE  /\ pc[w] \in {"collecting", "return"} /\ cur[w] \in Fds
           /\ sock[cur[w]] \in Conns /\ client[sock[cur[w]]] = "closed"
           /\ On(cur[w]) = {} /\ add[w] = Amounts(sock[cur[w]])
           /\ pc[w] = "return" => ti[w] <= TypeOf[sock[cur[w]]]
<1>1. Carry(w)
  BY Zenon DEF CarryInv
<1>2. pc[w] # "idle"
  BY <1>1, Zenon DEF Carry
<1> QED
  BY <1>1, <1>2, Serving, Zenon DEF Carry

\* Requests in a stash are those of clients that wait.
LEMMA StashFiled ==
    ASSUME Safe, GInv, NEW v \in Workers, NEW f \in FdsOf(ready[v])
    PROVE  f \in Fds /\ sock[f] \in Conns /\ client[sock[f]] = "waiting"
<1>1. PICK i \in 1..Len(ready[v]) : f = ready[v][i].fd
  BY Zenon DEF FdsOf
<1>2. ready[v][i] \in Requests /\ Filed(ready[v][i], ti[v])
  BY RequestTypes, Zenon DEF GInv, ReadyInv, Stash, Safe
<1> QED
  BY <1>1, <1>2, RequestTypes, Zenon DEF Filed, Safe

\* A request joins the stash, or leaves it, at its head.
LEMMA StashPush ==
    ASSUME NEW q \in Seq(Requests), NEW r \in Requests
    PROVE  FdsOf(<<r>> \o q) = {r.fd} \union FdsOf(q)
<1>1. /\ 1 \in 1..Len(<<r>> \o q) /\ (<<r>> \o q)[1] = r
      /\ \A i \in 1..Len(q) : i + 1 \in 1..Len(<<r>> \o q) /\ (<<r>> \o q)[i + 1] = q[i]
      /\ \A h \in 1..Len(<<r>> \o q) :
            h = 1 \/ (h - 1 \in 1..Len(q) /\ (<<r>> \o q)[h] = q[h - 1])
  OBVIOUS
<1>2. PICK u : u = <<r>> \o q
  BY Zenon
<1>3. /\ 1 \in 1..Len(u) /\ u[1] = r
      /\ \A i \in 1..Len(q) : \E h \in 1..Len(u) : u[h] = q[i]
      /\ \A h \in 1..Len(u) : u[h] = r \/ \E i \in 1..Len(q) : u[h] = q[i]
  BY <1>1, <1>2, Zenon
<1>4. ASSUME NEW f PROVE f \in FdsOf(u) <=> f = r.fd \/ f \in FdsOf(q)
  <2>1. ASSUME f \in FdsOf(u) PROVE f = r.fd \/ f \in FdsOf(q)
    <3>1. PICK h \in 1..Len(u) : f = u[h].fd
      BY <2>1, Zenon DEF FdsOf
    <3>2. CASE u[h] = r
      BY <3>1, <3>2, Zenon
    <3>3. CASE \E i \in 1..Len(q) : u[h] = q[i]
      BY <3>1, <3>3, Zenon DEF FdsOf
    <3> QED
      BY <1>3, <3>2, <3>3, Zenon
  <2>2. ASSUME f \in FdsOf(q) PROVE f \in FdsOf(u)
    <3>1. PICK i \in 1..Len(q) : f = q[i].fd
      BY <2>2, Zenon DEF FdsOf
    <3>2. PICK h \in 1..Len(u) : u[h] = q[i]
      BY <1>3, Zenon
    <3> QED
      BY <3>1, <3>2, Zenon DEF FdsOf
  <2>3. r.fd \in FdsOf(u)
    BY <1>3, Zenon DEF FdsOf
  <2> QED
    BY <2>1, <2>2, <2>3, Zenon
<1> QED
  BY <1>2, <1>4

\* The same of the request that leaves.
LEMMA StashPop ==
    ASSUME NEW q \in Seq(Requests), q # <<>>
    PROVE  FdsOf(q) = {Head(q).fd} \union FdsOf(Tail(q))
<1>1. PICK r \in Requests, u \in Seq(Requests) : r = Head(q) /\ u = Tail(q) /\ q = <<r>> \o u
  <2>1. Head(q) \in Requests /\ Tail(q) \in Seq(Requests) /\ q = <<Head(q)>> \o Tail(q)
    OBVIOUS
  <2> QED
    BY <2>1, Zenon
<1> QED
  BY <1>1, StashPush, Zenon

\* What a worker carries is neither on record, nor in a stash, nor with another
\* worker.
LEMMA CarriedOnce ==
    ASSUME Safe, GInv, CarryInv, NEW w \in Workers, add[w] # Zero,
           NEW c, c = sock[cur[w]]
    PROVE  /\ Entry(c) = NoEntry /\ ~Stashed(c)
           /\ \A v \in Workers : add[v] # Zero /\ sock[cur[v]] = c => v = w
<1>1. /\ cur[w] \in Fds /\ c \in Conns /\ client[c] = "closed" /\ On(cur[w]) = {}
  BY Carrying, Zenon
<1>2. c # NoConn /\ cur[w] # NoFd
  BY <1>1, NullsAssumption, Zenon
<1>3. \A f \in Fds : sock[f] = c => f = cur[w]
  BY <1>1, <1>2, Zenon DEF GInv, ConnInv
<1>4. Entry(c) = NoEntry
  <2> SUFFICES ASSUME Entry(c) # NoEntry PROVE FALSE
    BY Zenon
  <2>1. PICK k \in Keys : k = <<JobOf[c], c>> /\ k[2] = c
    <3>1. <<JobOf[c], c>> \in Keys
      BY <1>1, ConnsAssumption DEF Keys
    <3> QED
      BY <3>1
  <2>2. table[k].fd \in Fds /\ sock[table[k].fd] = c
    BY <2>1, Zenon DEF Entry, GInv, TableInv, Own
  <2> QED
    BY <1>1, <1>3, <2>2, Zenon DEF On
<1>5. ~Stashed(c)
  BY <1>1, StashFiled, Zenon DEF Stashed
<1>6. ASSUME NEW v \in Workers, add[v] # Zero, sock[cur[v]] = c PROVE v = w
  <2>1. cur[v] \in Fds
    BY <1>6, Carrying, Zenon
  <2> QED
    BY <1>2, <1>3, <1>6, <2>1, Zenon DEF Safe, OneWorkerPerFd
<1> QED
  BY <1>4, <1>5, <1>6, Zenon

\* A step that moves no resource.
LEMMA QuietStep ==
    ASSUME CInv, UNCHANGED <<left, table, ready, add>>,
           \A v \in Workers : \A f \in FdsOf(ready[v]) : sock'[f] = sock[f],
           \A v \in Workers : add[v] # Zero => Still(v)
    PROVE  CInv'
<1>1. CarryInv'
  BY CarryKept, Zenon DEF CInv, CarryInv
<1>2. ASSUME NEW c \in Conns PROVE Charged(c)' <=> Charged(c)
  <2>1. Entry(c)' = Entry(c)
    BY Zenon DEF Entry
  <2>2. Stashed(c)' <=> Stashed(c)
    BY Zenon DEF Stashed
  <2>3. Carried(c)' <=> Carried(c)
    <3>1. Zero' = Zero
      BY Zenon DEF Zero
    <3>2. \A v \in Workers : add[v] # Zero => sock'[cur'[v]] = sock[cur[v]]
      BY Zenon DEF Still
    <3> QED
      BY <3>1, <3>2, Zenon DEF Carried
  <2>4. NoEntry' = NoEntry
    BY Zenon DEF NoEntry
  <2> QED
    BY <2>1, <2>2, <2>3, <2>4, Zenon DEF Charged
<1> QED
  BY <1>1, <1>2, SameCount, Zenon DEF CInv

\* A step of one worker that moves no resource and no connection.
LEMMA QuietWork ==
    ASSUME Safe, GInv, CInv, NEW w \in Workers,
           UNCHANGED <<left, table, sock, client, ready, add>>,
           \A v \in Workers \ {w} : pc'[v] = pc[v] /\ ti'[v] = ti[v] /\ cur'[v] = cur[v],
           add[w] # Zero => Still(w)
    PROVE  CInv'
<1>1. ASSUME NEW v \in Workers, add[v] # Zero PROVE Still(v)
  <2>1. CASE v = w
    BY <1>1, <2>1, Zenon
  <2>2. CASE v # w
    BY <1>1, <2>2, Carrying, Zenon DEF Still, CInv
  <2> QED
    BY <2>1, <2>2, Zenon
<1> QED
  BY <1>1, QuietStep, Zenon

-----------------------------------------------------------------------------
(* The steps that move no resource.                                         *)

\* What a client does with its end of a connection moves no resource.
LEMMA ClientCounts ==
    ASSUME ~Abandon, Safe, GInv, CInv, NEW c \in Conns, Client(c)
    PROVE  CInv'
<1>1. /\ UNCHANGED <<left, table, pc, cur, ti, ready, add>>
      /\ client[c] # "closed" /\ \A d \in Conns \ {c} : client'[d] = client[d]
      /\ \A f \in Fds : sock[f] # NoConn => sock'[f] = sock[f]
  <2>1. client \in [Conns -> {"new", "waiting", "held", "closed"}] /\ sock \in [Fds -> Conns \union {NoConn}]
    BY Zenon DEF Safe, TypeOK
  <2>2. ASSUME NEW f \in Fds, Connect(c, f) 
        PROVE  /\ UNCHANGED <<left, table, pc, cur, ti, ready, add>>
               /\ client[c] # "closed" /\ \A d \in Conns \ {c} : client'[d] = client[d]
               /\ \A g \in Fds : sock[g] # NoConn => sock'[g] = sock[g]
    BY <2>1, <2>2 DEF Connect, pool, locals
  <2>3. CASE Release(c)
    BY <2>1, <2>3 DEF Release, pool, locals
  <2>4. CASE Disconnect(c)
    BY <2>1, <2>4 DEF Disconnect, pool, locals
  <2> QED
    BY <2>2, <2>3, <2>4, Zenon DEF Client
<1>2. ASSUME NEW v \in Workers, NEW f \in FdsOf(ready[v]) PROVE sock'[f] = sock[f]
  BY <1>1, StashFiled, NullsAssumption, Zenon
<1>3. ASSUME NEW v \in Workers, add[v] # Zero PROVE Still(v)
  <2>1. /\ pc[v] \in {"collecting", "return"} /\ cur[v] \in Fds
        /\ sock[cur[v]] \in Conns /\ client[sock[cur[v]]] = "closed"
        /\ pc[v] = "return" => ti[v] <= TypeOf[sock[cur[v]]]
    BY <1>3, Carrying, Zenon DEF CInv
  <2>2. sock'[cur[v]] = sock[cur[v]]
    BY <1>1, <2>1, NullsAssumption, Zenon
  <2>3. client'[sock[cur[v]]] = "closed"
    BY <1>1, <2>1, Zenon
  <2> QED
    BY <1>1, <2>1, <2>2, <2>3, Zenon DEF Still
<1> QED
  BY <1>1, <1>2, <1>3, QuietStep, Zenon

\* Reading a line, and enqueueing a request, moves none.
LEMMA ReadCounts ==
    ASSUME Safe, GInv, CInv, NEW w \in Workers,
           Reserve(w) \/ ReadRelease(w) \/ ReadEof(w) \/ Rearm(w)
    PROVE  CInv'
<1>1. /\ pc[w] = "read" /\ UNCHANGED <<left, table, sock, client, locals>>
      /\ \E x : pc' = [pc EXCEPT ![w] = x]
      /\ ti' = ti \/ ti' = [ti EXCEPT ![w] = 1]
      /\ cur' = cur \/ cur' = [cur EXCEPT ![w] = NoFd]
  BY Zenon DEF Reserve, ReadRelease, ReadEof, Rearm, Read, pool, net
<1>2. \A v \in Workers \ {w} : pc'[v] = pc[v] /\ ti'[v] = ti[v] /\ cur'[v] = cur[v]
  BY <1>1, Zenon DEF Safe, TypeOK
<1>3. add[w] = Zero
  BY <1>1, Carrying, Zenon DEF CInv
<1> QED
  BY <1>1, <1>2, <1>3, QuietWork, Zenon DEF locals

\* Nor does the event of epoll_wait.
LEMMA ServeCounts ==
    ASSUME Safe, GInv, CInv, NEW w \in Workers, NEW f \in Fds, Serve(w, f)
    PROVE  CInv'
<1>1. /\ pc[w] = "idle" /\ UNCHANGED <<left, table, sock, client, ti, locals>>
      /\ pc' = [pc EXCEPT ![w] = "read"] /\ cur' = [cur EXCEPT ![w] = f]
  BY Zenon DEF Serve, pool, net
<1>2. \A v \in Workers \ {w} : pc'[v] = pc[v] /\ ti'[v] = ti[v] /\ cur'[v] = cur[v]
  BY <1>1, Zenon DEF Safe, TypeOK
<1>3. add[w] = Zero
  BY <1>1, Carrying, Zenon DEF CInv
<1> QED
  BY <1>1, <1>2, <1>3, QuietWork, Zenon DEF locals

\* Nor does leaving a queue.
LEMMA DrainDoneCounts ==
    ASSUME Safe, GInv, CInv, NEW w \in Workers, DrainDone(w)
    PROVE  CInv'
<1>1. pc[w] \in {"drain", "draining"} /\ UNCHANGED <<left, table, sock, client, cur, locals>>
  BY Zenon DEF DrainDone, pool, net
<1>2. \A v \in Workers \ {w} : pc'[v] = pc[v] /\ ti'[v] = ti[v]
  <2>1. TypeOK
    BY Zenon DEF Safe
  <2>2. CASE ready[w] # <<>>
    <3>1. pc' = [pc EXCEPT ![w] = "find"] /\ ti' = ti
      BY <2>2, Zenon DEF DrainDone
    <3> QED
      BY <2>1, <3>1, Zenon DEF TypeOK
  <2>3. CASE ready[w] = <<>>
    <3>1. NextQueue(w)
      BY <2>3, Zenon DEF DrainDone
    <3> QED
      BY <2>1, <3>1, NextQueueStep, Zenon
  <2> QED
    BY <2>2, <2>3, Zenon
<1>3. add[w] = Zero
  BY <1>1, Carrying, Zenon DEF CInv
<1> QED
  BY <1>1, <1>2, <1>3, QuietWork, Zenon DEF locals

\* Nor does looking a key up in table_nodejobs.
LEMMA RecordFindCounts ==
    ASSUME Safe, GInv, CInv, NEW w \in Workers, RecordFind(w)
    PROVE  CInv'
<1>1. /\ pc[w] = "find" /\ UNCHANGED <<left, table, sock, client, cur, ti, ready, add>>
      /\ \E x : pc' = [pc EXCEPT ![w] = x]
  BY Zenon DEF RecordFind, pool, net
<1>2. \A v \in Workers \ {w} : pc'[v] = pc[v]
  BY <1>1, Zenon DEF Safe, TypeOK
<1>3. add[w] = Zero
  BY <1>1, Carrying, Zenon DEF CInv
<1> QED
  BY <1>1, <1>2, <1>3, QuietWork, Zenon

\* Nor does the end of the walk over table_nodejobs: what it found goes back from
\* the first type on.
LEMMA CollectDoneCounts ==
    ASSUME Safe, GInv, CInv, NEW w \in Workers, CollectDone(w)
    PROVE  CInv'
<1>1. /\ pc[w] \in {"collect", "collecting"}
      /\ UNCHANGED <<left, table, sock, client, cur, locals>>
      /\ pc' = [pc EXCEPT ![w] = IF pc[w] = "collecting" THEN "return" ELSE Handled(w)]
      /\ ti' = [ti EXCEPT ![w] = 1]
  BY Zenon DEF CollectDone, pool, net
<1>2. /\ \A v \in Workers \ {w} : pc'[v] = pc[v] /\ ti'[v] = ti[v]
      /\ pc[w] = "collecting" => pc'[w] = "return"
      /\ ti'[w] = 1
  BY <1>1, Zenon DEF Safe, TypeOK
<1>3. ASSUME add[w] # Zero PROVE Still(w)
  <2>1. /\ pc[w] = "collecting" /\ sock[cur[w]] \in Conns /\ client[sock[cur[w]]] = "closed"
    BY <1>1, <1>3, Carrying, Zenon DEF CInv
  <2>2. 1 <= TypeOf[sock[cur[w]]]
    <3>1. TypeOf[sock[cur[w]]] \in Types
      BY <2>1, ConnsAssumption, Zenon
    <3> QED
      BY <3>1 DEF Types
  <2> QED
    BY <1>1, <1>2, <2>1, <2>2, Zenon DEF Still
<1> QED
  BY <1>1, <1>2, <1>3, QuietWork, Zenon DEF locals

\* Nor does closing a descriptor: nobody in a stash, and no client whose resources
\* are on their way back, is on it.
LEMMA CloseCounts ==
    ASSUME Safe, GInv, CInv, NEW w \in Workers, Close(w)
    PROVE  CInv'
<1>1. /\ pc[w] = "close" /\ UNCHANGED <<left, table, client, ti, ready, add>>
      /\ sock' = [sock EXCEPT ![cur[w]] = NoConn]
      /\ pc' = [pc EXCEPT ![w] = "idle"] /\ cur' = [cur EXCEPT ![w] = NoFd]
  BY Zenon DEF Close, pool, locals
<1>2. client[sock[cur[w]]] = "closed"
  BY <1>1, Zenon DEF GInv, WorkerInv, AtWork
<1>3. /\ cur[w] \in Fds /\ cur[w] # NoFd
      /\ \A v \in Workers \ {w} : pc'[v] = pc[v] /\ cur'[v] = cur[v]
      /\ \A f \in Fds : f # cur[w] => sock'[f] = sock[f]
  BY <1>1, Serving, NullsAssumption, Zenon DEF Safe, TypeOK
<1>4. ASSUME NEW v \in Workers, NEW f \in FdsOf(ready[v]) PROVE sock'[f] = sock[f]
  <2>1. f \in Fds /\ client[sock[f]] = "waiting"
    BY StashFiled, Zenon
  <2>2. f # cur[w]
    BY <1>2, <2>1, Zenon
  <2> QED
    BY <1>3, <2>1, <2>2, Zenon
<1>5. ASSUME NEW v \in Workers, add[v] # Zero PROVE Still(v)
  <2>1. /\ pc[v] \in {"collecting", "return"} /\ cur[v] \in Fds
        /\ client[sock[cur[v]]] = "closed"
        /\ pc[v] = "return" => ti[v] <= TypeOf[sock[cur[v]]]
    BY <1>5, Carrying, Zenon DEF CInv
  <2>2. v # w
    BY <1>1, <2>1, Zenon
  <2>3. cur[v] # cur[w]
    BY <1>3, <2>2, Zenon DEF Safe, OneWorkerPerFd
  <2> QED
    BY <1>1, <1>3, <2>1, <2>2, <2>3, Zenon DEF Still
<1> QED
  BY <1>1, <1>4, <1>5, QuietStep, Zenon

-----------------------------------------------------------------------------
(* The steps that move resources.                                           *)

\* Workers other than w go on carrying what they have.
LEMMA OthersCarry ==
    ASSUME Safe, GInv, CInv, NEW w \in Workers,
           UNCHANGED <<sock, cur>>,
           \A c \in Conns : client[c] = "closed" => client'[c] = "closed",
           \A v \in Workers \ {w} : pc'[v] = pc[v] /\ ti'[v] = ti[v] /\ add'[v] = add[v],
           \A f \in Fds : client[sock[f]] = "closed" =>
               \A k \in Keys : table'[k].fd = f => table[k].fd = f
    PROVE  \A v \in Workers \ {w} : Carry(v)'
<1> SUFFICES ASSUME NEW v \in Workers \ {w} PROVE Carry(v)'
  BY Zenon
<1>1. ASSUME add[v] # Zero PROVE Still(v)
  BY <1>1, Carrying, Zenon DEF Still, CInv
<1> QED
  BY <1>1, CarryKept, Zenon DEF CInv, CarryInv

\* A worker that carries nothing, and takes nothing up, stays without.
LEMMA Unladen ==
    ASSUME NEW w \in Workers, add[w] = Zero, add' = add
    PROVE  Carry(w)'
  BY Zenon DEF Carry, Zero

\* The head of a queue is charged for what it asked.
LEMMA DrainPopCounts ==
    ASSUME Safe, GInv, CInv, NEW w \in Workers, DrainPop(w)
    PROVE  CInv'
<1>1. /\ UNCHANGED <<table, net, cur, ti, add>>
      /\ pc[w] \in {"drain", "draining"} /\ pc' = [pc EXCEPT ![w] = "draining"]
      /\ TypeOK
  BY Zenon DEF DrainPop, Safe
<1>2. PICK t \in Types : t = ti[w]
  BY <1>1, Zenon DEF TypeOK
<1>3. /\ queue[t] # <<>> /\ left' = [left EXCEPT ![t] = left[t] - Head(queue[t]).amount]
      /\ ready' = [ready EXCEPT ![w] = <<Head(queue[t])>> \o ready[w]]
  BY <1>2, Zenon DEF DrainPop, HeadFits
<1>4. PICK rq \in Requests : rq = Head(queue[t]) /\ rq = queue[t][1] /\ 1 \in 1..Len(queue[t])
  <2>1. queue[t] \in Seq(Requests)
    BY <1>1, RequestTypes, Zenon
  <2> QED
    BY <1>3, <2>1
<1>5. Filed(rq, t) /\ Entry(sock[rq.fd]) = NoEntry
  BY <1>4, Zenon DEF GInv, QueueInv
<1>6. PICK c \in Conns : /\ c = sock[rq.fd] /\ client[c] = "waiting" /\ Entry(c) = NoEntry
                         /\ rq.amount = AmountOf[c] /\ t = TypeOf[c]
  BY <1>5, Zenon DEF Filed
<1>7. /\ \A v \in Workers \ {w} : pc'[v] = pc[v] /\ ready'[v] = ready[v]
      /\ FdsOf(ready'[w]) = {rq.fd} \union FdsOf(ready[w])
  <2>1. ready[w] \in Seq(Requests)
    BY <1>1, RequestTypes, Zenon
  <2>2. /\ \A v \in Workers \ {w} : pc'[v] = pc[v] /\ ready'[v] = ready[v]
        /\ ready'[w] = <<rq>> \o ready[w]
    BY <1>1, <1>3, <1>4, Zenon DEF TypeOK
  <2> QED
    BY <2>1, <2>2, StashPush, Zenon
<1>8. add[w] = Zero
  BY <1>1, Carrying, Zenon DEF CInv
<1>9. CarryInv'
  BY <1>1, <1>7, <1>8, OthersCarry, Unladen, Zenon DEF CarryInv, net
<1>10. ~Charged(c)
  <2>1. ~Stashed(c)
    <3> SUFFICES ASSUME NEW v \in Workers, NEW f \in FdsOf(ready[v]), sock[f] = c
                 PROVE  FALSE
      BY Zenon DEF Stashed
    <3>1. PICK i \in 1..Len(ready[v]) : f = ready[v][i].fd
      BY Zenon DEF FdsOf
    <3>2. rq.fd # f
      <4>1. \A u \in Types : \A h \in 1..Len(queue[u]) : queue[u][h].fd # ready[v][i].fd
        BY OnlyRequest, Zenon
      <4> QED
        BY <1>4, <3>1, <4>1, Zenon
    <3>3. f \in Fds /\ rq.fd \in Fds /\ sock[f] # NoConn
      BY <1>1, StashFiled, RequestTypes, NullsAssumption, Zenon
    <3> QED
      BY <1>6, <3>2, <3>3, Zenon DEF GInv, ConnInv
  <2>2. ~Carried(c)
    BY <1>6, Carrying, Zenon DEF Carried, CInv
  <2> QED
    BY <1>6, <2>1, <2>2, Zenon DEF Charged
<1>11. /\ \A d : d # c => (Stashed(d)' <=> Stashed(d))
       /\ Stashed(c)'
  <2>1. \A v \in Workers : \A f : f \in FdsOf(ready'[v]) <=>
            f \in FdsOf(ready[v]) \/ (v = w /\ f = rq.fd)
    <3> SUFFICES ASSUME NEW v \in Workers, NEW f
                 PROVE  f \in FdsOf(ready'[v]) <=> f \in FdsOf(ready[v]) \/ (v = w /\ f = rq.fd)
      BY Zenon
    <3>1. CASE v = w
      BY <1>7, <3>1, Zenon
    <3>2. CASE v # w
      BY <1>7, <3>2, Zenon
    <3> QED
      BY <3>1, <3>2, Zenon
  <2>2. sock' = sock
    BY <1>1, Zenon DEF net
  <2> QED
    BY <1>6, <2>1, <2>2, Zenon DEF Stashed
<1>12. ASSUME NEW d \in Conns \ {c} PROVE Charged(d)' <=> Charged(d)
  <2>1. (Entry(d) # NoEntry)' <=> Entry(d) # NoEntry
    BY <1>1, Zenon DEF Entry, NoEntry
  <2>2. Carried(d)' <=> Carried(d)
    BY <1>1, Zenon DEF Carried, Zero, net
  <2> QED
    BY <1>11, <2>1, <2>2, Zenon DEF Charged
<1>13. Charged(c)'
  BY <1>11, Zenon DEF Charged
<1>14. left' = [left EXCEPT ![TypeOf[c]] = left[TypeOf[c]] - AmountOf[c]]
  BY <1>3, <1>4, <1>6, Zenon
<1>15. AmountOf[c] \in Int
  BY ConnsAssumption
<1>16. Counted'
  BY <1>1, <1>10, <1>12, <1>13, <1>14, <1>15, CountStep, Zenon DEF CInv
<1> QED
  BY <1>9, <1>16, Zenon DEF CInv

\* A grant is recorded while it is in the stash: it is charged before and after.
LEMMA RecordInsertCounts ==
    ASSUME Safe, GInv, CInv, NEW w \in Workers, RecordInsert(w)
    PROVE  CInv'
<1>1. /\ UNCHANGED <<left, net, cur, ti, ready, add>>
      /\ pc[w] = "insert" /\ pc' = [pc EXCEPT ![w] = "send"]
      /\ TypeOK /\ AtWork(w) /\ Stash(w)
  BY Zenon DEF RecordInsert, Safe, GInv, WorkerInv, ReadyInv
<1>2. PICK rq \in Requests : /\ rq = Head(ready[w]) /\ rq = ready[w][1]
                             /\ 1 \in 1..Len(ready[w]) /\ Filed(rq, ti[w])
  BY <1>1, HeadFiled, Zenon DEF Recording
<1>3. PICK c \in Conns : c = sock[rq.fd] /\ client[c] = "waiting"
  BY <1>2, Zenon DEF Filed
<1>4. PICK k \in Keys : k = <<JobOf[c], c>> /\ k = key[w]
  <2>1. <<JobOf[c], c>> \in Keys
    BY ConnsAssumption DEF Keys
  <2> QED
    BY <1>1, <1>2, <1>3, <2>1, Zenon DEF AtWork
<1>5. table'[k].fd = rq.fd /\ \A q \in Keys \ {k} : table'[q] = table[q]
  <2>1. table \in [Keys -> Entries]
    BY <1>1, Zenon DEF TypeOK
  <2>2. \E g : table' = [table EXCEPT ![k] = [granted |-> g, fd |-> rq.fd]]
    BY <1>2, <1>4, Zenon DEF RecordInsert
  <2> QED
    BY <2>1, <2>2
<1>6. add[w] = Zero
  BY <1>1, Carrying, Zenon DEF CInv
<1>7. CarryInv'
  <2>1. ASSUME NEW f \in Fds, client[sock[f]] = "closed", NEW q \in Keys, table'[q].fd = f
        PROVE  table[q].fd = f
    <3>1. rq.fd # f
      BY <1>3, <2>1, Zenon
    <3> QED
      BY <1>5, <2>1, <3>1, Zenon
  <2>2. \A v \in Workers \ {w} : pc'[v] = pc[v]
    BY <1>1, Zenon DEF TypeOK
  <2> QED
    BY <1>1, <1>6, <2>1, <2>2, OthersCarry, Unladen, Zenon DEF CarryInv, net
<1>8. \A d : (Stashed(d)' <=> Stashed(d)) /\ (Carried(d)' <=> Carried(d))
  BY <1>1, Zenon DEF Stashed, Carried, Zero, net
<1>9. Stashed(c)
  BY <1>2, <1>3, Zenon DEF Stashed, FdsOf
<1>10. ASSUME NEW d \in Conns PROVE Charged(d)' <=> Charged(d)
  <2>1. CASE d = c
    BY <1>8, <1>9, <2>1, Zenon DEF Charged
  <2>2. CASE d # c
    <3>1. <<JobOf[d], d>> \in Keys \ {k}
      BY <1>4, <2>2, ConnsAssumption DEF Keys
    <3>2. Entry(d)' = Entry(d)
      BY <1>5, <3>1, Zenon DEF Entry
    <3>3. NoEntry' = NoEntry
      BY Zenon DEF NoEntry
    <3> QED
      BY <1>8, <3>2, <3>3, Zenon DEF Charged
  <2> QED
    BY <2>1, <2>2, Zenon
<1> QED
  BY <1>1, <1>7, <1>10, SameCount, Zenon DEF CInv

\* What leaves the stash with GRANTED is on record.
LEMMA SendGrantedCounts ==
    ASSUME Safe, GInv, CInv, NEW w \in Workers, SendGranted(w)
    PROVE  CInv'
<1>1. /\ UNCHANGED <<left, table, sock, cur, add>>
      /\ pc[w] = "send" /\ ready' = [ready EXCEPT ![w] = Tail(ready[w])]
      /\ TypeOK /\ Stash(w)
  BY Zenon DEF SendGranted, pool, Safe, GInv, ReadyInv
<1>2. /\ 1 \in 1..Len(ready[w]) /\ Head(ready[w]) = ready[w][1]
      /\ ready[w] \in Seq(Requests) /\ ready[w] # <<>>
      /\ Entry(sock[ready[w][1].fd]) # NoEntry
  BY <1>1, HeadFiled, Zenon DEF Recording
<1>3. /\ \A v \in Workers \ {w} : pc'[v] = pc[v] /\ ti'[v] = ti[v]
  <2>1. CASE Tail(ready[w]) # <<>>
    <3>1. pc' = [pc EXCEPT ![w] = "find"] /\ ti' = ti
      BY <2>1, Zenon DEF SendGranted
    <3> QED
      BY <1>1, <3>1, Zenon DEF TypeOK
  <2>2. CASE Tail(ready[w]) = <<>>
    <3>1. NextQueue(w)
      BY <2>2, Zenon DEF SendGranted
    <3> QED
      BY <1>1, <3>1, NextQueueStep, Zenon
  <2> QED
    BY <2>1, <2>2, Zenon
<1>4. \A d \in Conns : client[d] = "closed" => client'[d] = "closed"
  <2>1. client \in [Conns -> {"new", "waiting", "held", "closed"}]
    BY <1>1, Zenon DEF TypeOK
  <2>2. client' = client \/ \E c : client[c] = "waiting" /\ client' = [client EXCEPT ![c] = "held"]
    BY Zenon DEF SendGranted
  <2> QED
    BY <2>1, <2>2
<1>5. add[w] = Zero
  BY <1>1, Carrying, Zenon DEF CInv
<1>6. CarryInv'
  BY <1>1, <1>3, <1>4, <1>5, OthersCarry, Unladen, Zenon DEF CarryInv
<1>7. PICK g : /\ g = ready[w][1].fd /\ FdsOf(ready[w]) = {g} \union FdsOf(ready'[w])
               /\ \A v \in Workers \ {w} : ready'[v] = ready[v]
  <2>1. ready'[w] = Tail(ready[w]) /\ \A v \in Workers \ {w} : ready'[v] = ready[v]
    BY <1>1, Zenon DEF TypeOK
  <2> QED
    BY <1>2, <2>1, StashPop, Zenon
<1>8. \A v \in Workers : \A f : f \in FdsOf(ready[v]) <=>
          f \in FdsOf(ready'[v]) \/ (v = w /\ f = g)
  <2> SUFFICES ASSUME NEW v \in Workers, NEW f
               PROVE  f \in FdsOf(ready[v]) <=> f \in FdsOf(ready'[v]) \/ (v = w /\ f = g)
    BY Zenon
  <2>1. CASE v = w
    BY <1>7, <2>1, Zenon
  <2>2. CASE v # w
    BY <1>7, <2>2, Zenon
  <2> QED
    BY <2>1, <2>2, Zenon
<1>9. ASSUME NEW d PROVE /\ Stashed(d)' => Stashed(d)
                         /\ Stashed(d) => Stashed(d)' \/ Entry(d) # NoEntry
  BY <1>1, <1>2, <1>7, <1>8, Zenon DEF Stashed
<1>10. \A d : (Carried(d)' <=> Carried(d)) /\ ((Entry(d) # NoEntry)' <=> Entry(d) # NoEntry)
  BY <1>1, Zenon DEF Carried, Zero, Entry, NoEntry
<1>11. \A d \in Conns : Charged(d)' <=> Charged(d)
  BY <1>9, <1>10, Zenon DEF Charged
<1> QED
  BY <1>1, <1>6, <1>11, SameCount, Zenon DEF CInv

\* What a connection asked for is something.
LEMMA AmountsType ==
    ASSUME NEW c \in Conns
    PROVE  /\ AmountOf[c] \in Nat \ {0} /\ TypeOf[c] \in Types
           /\ Amounts(c) \in [Types -> Nat] /\ Amounts(c) # Zero
           /\ Amounts(c)[TypeOf[c]] = AmountOf[c]
           /\ \A t \in Types : t # TypeOf[c] => Amounts(c)[t] = 0
<1>1. AmountOf[c] \in Nat \ {0} /\ TypeOf[c] \in Types
  BY ConnsAssumption
<1>2. /\ Amounts(c) \in [Types -> Nat]
      /\ Amounts(c)[TypeOf[c]] = AmountOf[c]
      /\ \A t \in Types : t # TypeOf[c] => Amounts(c)[t] = 0
  BY <1>1 DEF Amounts
<1>3. Zero[TypeOf[c]] = 0
  BY <1>1 DEF Zero
<1> QED
  BY <1>1, <1>2, <1>3

\* The walk over the table takes up what was recorded for the client that left.
LEMMA CollectOneCounts ==
    ASSUME Safe, GInv, CInv, NEW w \in Workers, CollectOne(w)
    PROVE  CInv'
<1>1. /\ UNCHANGED <<left, net, cur, ti, ready>>
      /\ pc[w] \in {"collect", "collecting"} /\ pc' = [pc EXCEPT ![w] = "collecting"]
      /\ TypeOK
  BY Zenon DEF CollectOne, Safe
<1>2. PICK k \in On(cur[w]) :
        /\ add' = [add EXCEPT ![w] = [t \in Types |-> add[w][t] + table[k].granted[t]]]
        /\ table' = [table EXCEPT ![k] = NoEntry]
  BY Zenon DEF CollectOne
<1>3. /\ cur[w] \in Fds /\ cur[w] # NoFd /\ client[sock[cur[w]]] = "closed"
      /\ sock[cur[w]] \in Conns
  <2>1. pc[w] # "idle"
    BY <1>1, Zenon
  <2> QED
    <3>1. cur[w] \in Fds /\ sock[cur[w]] \in Conns
      BY <2>1, Serving, Zenon
    <3>2. AtWork(w)
      BY Zenon DEF GInv, WorkerInv
    <3> QED
      BY <1>1, <3>1, <3>2, NullsAssumption, Zenon DEF AtWork
<1>4. ASSUME NEW q \in On(cur[w]) PROVE q \in Keys /\ table[q] # NoEntry /\ Own(q)
  <2>1. q \in Keys /\ table[q].fd = cur[w]
    BY Zenon DEF On
  <2>2. table[q] # NoEntry
    BY <1>3, <2>1, NoEntryFd, Zenon
  <2> QED
    BY <2>1, <2>2, Zenon DEF GInv, TableInv
<1>5. PICK c \in Conns : c = sock[cur[w]] /\ client[c] = "closed"
  BY <1>3, Zenon
<1>6. ASSUME NEW q \in On(cur[w]) PROVE q = <<JobOf[c], c>>
  <2>1. q \in Keys /\ table[q].fd = cur[w] /\ Own(q)
    BY <1>4, Zenon DEF On
  <2>2. q[2] = c /\ q[1] = JobOf[c]
    BY <1>5, <2>1, Zenon DEF Own
  <2> QED
    BY <2>1, <2>2 DEF Keys
<1>7. k = <<JobOf[c], c>> /\ k \in Keys /\ table[k] # NoEntry /\ table[k].granted = Amounts(c)
  <2>1. k = <<JobOf[c], c>> /\ k \in Keys /\ table[k] # NoEntry /\ Own(k)
    BY <1>4, <1>6, Zenon
  <2>2. k[2] = c
    BY <2>1
  <2> QED
    BY <2>1, <2>2, Zenon DEF Own
<1>8. table'[k] = NoEntry /\ \A q \in Keys \ {k} : table'[q] = table[q]
  BY <1>1, <1>2, <1>7, Zenon DEF TypeOK
<1>9. add[w] = Zero
  <2>1. On(cur[w]) # {}
    BY <1>2, Zenon
  <2> QED
    BY <2>1, Carrying, Zenon DEF CInv
<1>10. add'[w] = Amounts(c) /\ \A v \in Workers \ {w} : add'[v] = add[v] /\ pc'[v] = pc[v]
  <2>1. [t \in Types |-> add[w][t] + table[k].granted[t]] = Amounts(c)
    BY <1>7, <1>9, AmountsType DEF Zero
  <2> QED
    BY <1>1, <1>2, <2>1, Zenon DEF TypeOK
<1>11. ASSUME NEW f \in Fds, NEW q \in Keys, table'[q].fd = f PROVE table[q].fd = f
  <2>1. f # NoFd
    BY NullsAssumption, Zenon
  <2> QED
    BY <1>8, <1>11, <2>1, NoEntryFd, Zenon
<1>12. CarryInv'
  <2>1. On(cur[w])' = {}
    <3> SUFFICES ASSUME NEW q \in Keys, table'[q].fd = cur[w] PROVE FALSE
      BY <1>1, Zenon DEF On
    <3>1. q \in On(cur[w])
      BY <1>3, <1>11, Zenon DEF On
    <3>2. q = k
      BY <1>6, <1>7, <3>1, Zenon
    <3> QED
      BY <1>3, <1>8, <3>2, NoEntryFd, Zenon
  <2>2. Amounts(sock[cur[w]])' = Amounts(c)
    <3>1. sock'[cur'[w]] = c
      BY <1>1, <1>5, Zenon DEF net
    <3> QED
      BY <3>1 DEF Amounts
  <2>3. pc'[w] = "collecting" /\ client'[sock'[cur'[w]]] = "closed"
    BY <1>1, <1>5, Zenon DEF TypeOK, net
  <2>4. Carry(w)'
    BY <1>10, <2>1, <2>2, <2>3, Zenon DEF Carry
  <2>5. \A v \in Workers \ {w} : Carry(v)'
    BY <1>1, <1>10, <1>11, OthersCarry, Zenon DEF net
  <2> QED
    BY <2>4, <2>5, Zenon DEF CarryInv
<1>13. \A d : Stashed(d)' <=> Stashed(d)
  BY <1>1, Zenon DEF Stashed, net
<1>14. NoEntry' = NoEntry /\ Zero' = Zero
  BY Zenon DEF NoEntry, Zero
<1>15. Charged(c)
  BY <1>7, Zenon DEF Charged, Entry
<1>16. Charged(c)'
  BY <1>1, <1>5, <1>10, <1>14, AmountsType, Zenon DEF Charged, Carried, net
<1>17. ASSUME NEW d \in Conns, d # c PROVE Charged(d)' <=> Charged(d)
  <2>1. <<JobOf[d], d>> \in Keys \ {k}
    BY <1>7, <1>17, ConnsAssumption DEF Keys
  <2>2. Entry(d)' = Entry(d)
    BY <1>8, <2>1, Zenon DEF Entry
  <2>3. Carried(d)' <=> Carried(d)
    BY <1>1, <1>5, <1>10, <1>14, <1>17, Zenon DEF Carried, net
  <2> QED
    BY <1>13, <1>14, <2>2, <2>3, Zenon DEF Charged
<1> QED
  BY <1>1, <1>12, <1>15, <1>16, <1>17, SameCount, Zenon DEF CInv

\* Return gives back what is carried when it comes to its type, and only then.
LEMMA ReturnCounts ==
    ASSUME Safe, GInv, CInv, NEW w \in Workers, Return(w)
    PROVE  CInv'
<1>1. /\ UNCHANGED <<table, net, cur, ready>> /\ pc[w] = "return" /\ TypeOK
  BY Zenon DEF Return, Safe
<1>2. PICK t \in Types : t = ti[w]
  BY <1>1, Zenon DEF TypeOK
<1>3. /\ left' = [left EXCEPT ![t] = left[t] + add[w][t]]
      /\ add' = [add EXCEPT ![w] = [add[w] EXCEPT ![t] = 0]]
      /\ \/ t < NTypes /\ ti' = [ti EXCEPT ![w] = t + 1] /\ pc' = pc
         \/ ~(t < NTypes) /\ ti' = [ti EXCEPT ![w] = 1] /\ pc' = [pc EXCEPT ![w] = "drain"]
  BY <1>2 DEF Return
<1>4. /\ \A v \in Workers \ {w} : pc'[v] = pc[v] /\ ti'[v] = ti[v] /\ add'[v] = add[v]
      /\ t < NTypes => pc'[w] = "return" /\ ti'[w] = t + 1
      /\ add'[w] = [add[w] EXCEPT ![t] = 0]
  <2>1. /\ pc \in [Workers -> PCs] /\ ti \in [Workers -> Types]
        /\ add \in [Workers -> [Types -> Int]]
    BY <1>1, Zenon DEF TypeOK
  <2>2. /\ add'[w] = [add[w] EXCEPT ![t] = 0]
        /\ \A v \in Workers \ {w} : add'[v] = add[v]
    BY <1>3, <2>1, Zenon
  <2>3. CASE t < NTypes
    BY <1>1, <1>3, <2>1, <2>2, <2>3, Zenon
  <2>4. CASE ~(t < NTypes)
    BY <1>3, <2>1, <2>2, <2>4, Zenon
  <2> QED
    BY <2>3, <2>4, Zenon
<1>5. /\ left \in [Types -> Int] /\ add \in [Workers -> [Types -> Int]]
      /\ add[w] \in [Types -> Int]
  BY <1>1, Zenon DEF TypeOK
<1>6. ASSUME add[w][t] = 0, add[w] # Zero => Still(w) PROVE CInv'
  <2>1. left' = left
    BY <1>3, <1>5, <1>6
  <2>2. [add[w] EXCEPT ![t] = 0] = add[w]
    BY <1>5, <1>6
  <2>3. add' = add
    BY <1>3, <1>5, <2>2
  <2> QED
    BY <1>1, <1>4, <1>6, <2>1, <2>3, QuietWork, Zenon DEF net
<1>7. CASE add[w] = Zero
  <2>1. add[w][t] = 0
    BY <1>7 DEF Zero
  <2> QED
    BY <1>6, <1>7, <2>1, Zenon
<1>8. CASE add[w] # Zero
  <2>1. PICK c \in Conns : /\ c = sock[cur[w]] /\ client[c] = "closed"
                           /\ add[w] = Amounts(c) /\ t <= TypeOf[c]
    BY <1>1, <1>2, <1>8, Carrying, Zenon DEF CInv
  <2>2. CASE t # TypeOf[c]
    <3>1. add[w][t] = 0
      <4>1. Amounts(c)[t] = 0
        BY <2>2, AmountsType, Zenon
      <4> QED
        BY <2>1, <4>1, Zenon
    <3>2. t < NTypes /\ t + 1 <= TypeOf[c]
      <4>1. TypeOf[c] \in Types
        BY AmountsType, Zenon
      <4> QED
        <5>1. PICK u \in 1..NTypes : u = TypeOf[c] /\ t <= u /\ t # u
          BY <2>1, <2>2, <4>1, Zenon DEF Types
        <5>2. t \in Int /\ NTypes \in Int
          BY TypesAssumption DEF Types
        <5>3. t < NTypes /\ t + 1 <= u
          BY <5>1, <5>2
        <5> QED
          BY <5>1, <5>3, Zenon
    <3>3. Still(w)
      BY <1>1, <1>4, <2>1, <3>2, Zenon DEF Still, net
    <3> QED
      BY <1>6, <3>1, <3>3, Zenon
  <2>3. CASE t = TypeOf[c]
    <3>1. add'[w] = Zero
      <4>1. [Amounts(c) EXCEPT ![t] = 0] = Zero
        BY <2>3, AmountsType DEF Zero
      <4> QED
        BY <1>4, <2>1, <4>1, Zenon
    <3>2. CarryInv'
      <4>1. Carry(w)'
        BY <3>1, Zenon DEF Carry, Zero
      <4>2. \A v \in Workers \ {w} : Carry(v)'
        BY <1>1, <1>4, OthersCarry, Zenon DEF net
      <4> QED
        BY <4>1, <4>2, Zenon DEF CarryInv
    <3>3. /\ Entry(c) = NoEntry /\ ~Stashed(c)
          /\ \A v \in Workers : add[v] # Zero /\ sock[cur[v]] = c => v = w
      BY <1>8, <2>1, CarriedOnce, Zenon DEF CInv
    <3>4. /\ \A d : (Entry(d) # NoEntry)' <=> Entry(d) # NoEntry
          /\ \A d : Stashed(d)' <=> Stashed(d)
          /\ Zero' = Zero
      BY <1>1, Zenon DEF Entry, NoEntry, Stashed, Zero, net
    <3>5. \A v \in Workers : sock'[cur'[v]] = sock[cur[v]]
      BY <1>1, Zenon DEF net
    <3>6. ASSUME NEW d \in Conns \ {c} PROVE Carried(d)' <=> Carried(d)
      <4>1. \A v \in Workers : sock[cur[v]] = d => add'[v] = add[v]
        BY <1>4, <2>1, Zenon
      <4> QED
        BY <3>4, <3>5, <4>1, Zenon DEF Carried
    <3>7. Carried(c) /\ ~Carried(c)'
      <4>1. Carried(c)
        BY <1>8, <2>1, Zenon DEF Carried
      <4>2. \A v \in Workers : sock[cur[v]] = c => add'[v] = Zero
        BY <1>4, <3>1, <3>3, Zenon
      <4> QED
        BY <3>4, <3>5, <4>1, <4>2, Zenon DEF Carried
    <3>8. /\ Charged(c) /\ ~Charged(c)'
          /\ \A d \in Conns \ {c} : Charged(d)' <=> Charged(d)
      BY <3>3, <3>4, <3>6, <3>7, Zenon DEF Charged
    <3>9. PICK a \in Int : a = 0 - AmountOf[c]
      BY AmountsType
    <3>10. left' = [left EXCEPT ![TypeOf[c]] = left[TypeOf[c]] - a]
      <4>1. left[t] + AmountOf[c] = left[t] - a
        BY <1>5, <3>9, AmountsType
      <4>2. add[w][t] = AmountOf[c]
        BY <2>1, <2>3, AmountsType, Zenon
      <4> QED
        BY <1>3, <2>3, <4>1, <4>2, Zenon
    <3>11. Counted'
      BY <1>1, <3>8, <3>9, <3>10, CountStep, Zenon DEF CInv
    <3> QED
      BY <3>2, <3>11, Zenon DEF CInv
  <2> QED
    BY <2>2, <2>3, Zenon
<1> QED
  BY <1>7, <1>8, Zenon

-----------------------------------------------------------------------------
(* The theorems.                                                            *)

\* Nobody has no units.
LEMMA NoUnits ==
    ASSUME NEW t PROVE IsFiniteSet(Units({}, t)) /\ Cardinality(Units({}, t)) = 0
<1>1. Units({}, t) = {}
  BY DEF Units
<1> QED
  BY <1>1, FS_EmptySet, Zenon

\* At start nothing is charged.
LEMMA InitCounts == Init => CInv
<1> SUFFICES ASSUME Init PROVE CInv
  BY Zenon
<1>1. CarryInv
  BY Zenon DEF Init, CarryInv, Carry, Zero
<1>2. InUse = {}
  <2> SUFFICES ASSUME NEW c \in Conns, Charged(c) PROVE FALSE
    BY Zenon DEF InUse
  <2>1. Entry(c) = NoEntry
    <3>1. <<JobOf[c], c>> \in Keys
      BY ConnsAssumption DEF Keys
    <3> QED
      BY <3>1, Zenon DEF Init, Entry
  <2>2. ~Stashed(c)
    BY DEF Init, Stashed, FdsOf
  <2>3. ~Carried(c)
    BY Zenon DEF Init, Carried, Zero
  <2> QED
    BY <2>1, <2>2, <2>3, Zenon DEF Charged
<1>3. \A t \in Types : left[t] + 0 = Capacity[t]
  BY TypesAssumption DEF Init
<1>4. Counted
  BY <1>2, <1>3, NoUnits, Zenon DEF Counted
<1> QED
  BY <1>1, <1>4, Zenon DEF CInv

\* Every step keeps the count.
LEMMA NextCounts ==
    ASSUME ~Abandon, Safe, GInv, CInv, [Next]_vars
    PROVE  CInv'
<1>1. ASSUME NEW c \in Conns, Client(c) PROVE CInv'
  BY <1>1, ClientCounts, Zenon
<1>2. ASSUME NEW w \in Workers, NEW f \in Fds, Serve(w, f) PROVE CInv'
  BY <1>2, ServeCounts, Zenon
<1>3. ASSUME NEW w \in Workers, Work(w) PROVE CInv'
  <2>1. CASE Reserve(w) \/ ReadRelease(w) \/ ReadEof(w) \/ Rearm(w)
    BY <2>1, ReadCounts, Zenon
  <2>2. CASE Close(w) \/ DrainPop(w) \/ DrainDone(w)
    BY <2>2, CloseCounts, DrainPopCounts, DrainDoneCounts, Zenon
  <2>3. CASE RecordFind(w) \/ RecordInsert(w) \/ SendGranted(w)
    BY <2>3, RecordFindCounts, RecordInsertCounts, SendGrantedCounts, Zenon
  <2>4. CASE RecordCopy(w)
    BY <2>4, Zenon DEF RecordCopy, GInv, WorkerInv, AtWork
  <2>5. CASE CollectOne(w) \/ CollectDone(w) \/ Return(w)
    BY <2>5, CollectOneCounts, CollectDoneCounts, ReturnCounts, Zenon
  <2> QED
    BY <1>3, <2>1, <2>2, <2>3, <2>4, <2>5, Zenon DEF Work
<1>4. CASE UNCHANGED vars
  <2>1. UNCHANGED <<left, table, net, pc, cur, ti, ready, add>>
    BY <1>4 DEF vars, pool, locals
  <2>2. \A v \in Workers : add[v] # Zero => Still(v)
    BY <2>1, Carrying, Zenon DEF CInv, Still, net
  <2> QED
    BY <2>1, <2>2, QuietStep, Zenon DEF net
<1> QED
  BY <1>1, <1>2, <1>3, <1>4, Zenon DEF Next

\* When every client has come and gone and every worker is idle, nobody is charged.
LEMMA CountedReclaims ==
    ASSUME Safe, GInv, CInv PROVE ReclaimedOnDisconnect
<1> SUFFICES ASSUME Quiet PROVE left = Capacity
  BY Zenon DEF ReclaimedOnDisconnect
<1>1. InUse = {}
  <2> SUFFICES ASSUME NEW c \in Conns, Charged(c) PROVE FALSE
    BY Zenon DEF InUse
  <2>1. ~Stashed(c)
    BY StashFiled, Zenon DEF Quiet, Stashed
  <2>2. ~Carried(c)
    BY Carrying, Zenon DEF Quiet, Carried, CInv
  <2>3. Entry(c) = NoEntry
    <3> SUFFICES ASSUME Entry(c) # NoEntry PROVE FALSE
      BY Zenon
    <3>1. PICK k \in Keys : k = <<JobOf[c], c>> /\ k[2] = c
      <4>1. <<JobOf[c], c>> \in Keys
        BY ConnsAssumption DEF Keys
      <4> QED
        BY <4>1
    <3>2. table[k].fd \in Fds /\ sock[table[k].fd] = c
      BY <3>1, Zenon DEF Entry, GInv, TableInv, Own
    <3> QED
      BY <3>2, NullsAssumption, Zenon DEF Quiet
  <2> QED
    BY <2>1, <2>2, <2>3, Zenon DEF Charged
<1>2. \A t \in Types : left[t] + 0 = Capacity[t]
  BY <1>1, NoUnits, Zenon DEF CInv, Counted
<1>3. left \in [Types -> Int]
  BY Zenon DEF Safe, TypeOK
<1> QED
  BY <1>2, <1>3, TypesAssumption

\* Every unit of every type is free or charged to exactly one connection, in every
\* interleaving of the workers in drain_queue, record_granted and
\* release_client_by_fd, when no client leaves before it is answered: nothing is
\* charged twice, given back twice, or lost between two queues.
THEOREM PoolConserves == ASSUME ~Abandon PROVE Spec => []Counted
<1>1. Init => Safe /\ GInv /\ CInv
  BY InitSafe, InitGrants, InitCounts, Zenon
<1>2. Safe /\ GInv /\ CInv /\ [Next]_vars => Safe' /\ GInv' /\ CInv'
  BY NextSafe, NextGrants, NextCounts, Zenon
<1>3. CInv => Counted
  BY Zenon DEF CInv
<1> QED
  BY <1>1, <1>2, <1>3, PTL DEF Spec

\* When every client has come and gone and every worker waits in epoll_wait, all
\* resources of the node are free again: release_client_by_fd gives back what
\* record_granted recorded, whether the client sent RELEASE or just went.
THEOREM PoolReclaims == ASSUME ~Abandon PROVE Spec => []ReclaimedOnDisconnect
<1>1. Init => Safe /\ GInv /\ CInv
  BY InitSafe, InitGrants, InitCounts, Zenon
<1>2. Safe /\ GInv /\ CInv /\ [Next]_vars => Safe' /\ GInv' /\ CInv'
  BY NextSafe, NextGrants, NextCounts, Zenon
<1>3. Safe /\ GInv /\ CInv => ReclaimedOnDisconnect
  BY CountedReclaims, Zenon
<1> QED
  BY <1>1, <1>2, <1>3, PTL DEF Spec
=============================================================================
