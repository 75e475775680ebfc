------------------------ MODULE DirectoryTimingProofs ------------------------
(***************************************************************************)
(* The times of node discovery, for all periods and limits that            *)
(* TimingAssumption admits: a node that runs is listed, and one that has   *)
(* gone is dropped.  Then the count kept beside the chains of table_nodes, *)
(* which is the number of nodes in them.                                   *)
(***************************************************************************)
EXTENDS DirectoryProofs, FiniteSetTheorems

\* A datum stays until the first sweep that starts when it is too old.
Swept ==
    /\ sweep # Idle => sweep + tick.left = SweepPeriod
    /\ \A k \in Keys : Known[k] # NoDatum =>
          IF sweep = Idle
          THEN Known[k].age + tick.left < NodeTimeout + SweepPeriod
          ELSE Known[k].age < NodeTimeout + SweepPeriod + sweep

\* How long ago an announcement was sent, at the most.
SentMax(d) == IF d.read THEN MaxDelay + d.age ELSE d.age

\* How long ago agent a has sent the last announcement that was not lost.
Since(a) == Period * (lost[a] + 1) - timer[a].left

\* What is under way from the address of an agent is of a former life, or is its
\* last announcement.
UnderWay ==
    \A a \in Agents : \A d \in net : d.ip = Ip[a] =>
        \/ life[a] <= SentMax(d)
        \/ /\ a \in up /\ d.port = port[a]
           /\ Since(a) <= SentMax(d) /\ d.age <= Since(a)

\* What is known of an agent that is down is of its former life.
Past ==
    \A a \in Agents \ up :
        Known[Ip[a]] # NoDatum => life[a] <= MaxDelay + Known[Ip[a]].age

\* Before its first broadcast, or at least one period after.
InPhase(a) ==
    \/ life[a] + timer[a].left = First
    \/ life[a] + timer[a].left >= First + Period

Phase == \A a \in up : InPhase(a)

\* Agent a is known with its port, from an announcement at most g seconds old.
Right(a, g) ==
    /\ Known[Ip[a]] # NoDatum
    /\ Known[Ip[a]].port = port[a]
    /\ Known[Ip[a]].age <= g

\* An agent has not broadcast more than once, or its last announcement is known
\* or under way, in that case with the one before it known or the first.
HeardOf(a) ==
    \/ life[a] <= First + Since(a)
    \/ /\ life[a] > 2 * MaxDelay
       /\ \/ Right(a, Since(a))
          \/ /\ \E d \in net : d.ip = Ip[a]
             /\ \/ life[a] <= First + Gap + Since(a)
                \/ Right(a, Gap + Since(a))

Heard == \A a \in up : HeardOf(a)

-----------------------------------------------------------------------------
(* The sweeps.                                                              *)

\* No datum outlives the sweep that is due, whatever a step does.
LEMMA SweptStep ==
    ASSUME Typed, TableInv, Swept, Next
    PROVE  Swept'
<1> USE Numbers
<1>0. /\ tick.left \in 0..SweepPeriod /\ tick.every = SweepPeriod
      /\ sweep \in Nat \/ sweep = Idle
      /\ \A k \in Keys : Known[k] # NoDatum => Known[k].age \in Nat
  BY KnownType DEF Typed, Data
<1>1. ASSUME NEW d \in net, Store(d) PROVE Swept'
  <2>1. Known' = [Known EXCEPT ![d.ip] = Datum(d)] /\ UNCHANGED <<tick, sweep>>
    BY <1>1, StoreMap, Zenon DEF Typed, Store
  <2>2. d.ip \in Keys /\ Datum(d).age \in 0..MaxDelay /\ MaxDelay < NodeTimeout
    <3>1. Datum(d).age \in 0..MaxDelay /\ d.ip \in Keys
      BY DEF Typed, Datagrams, Datum
    <3>2. Period * (MaxLost + 1) \in Nat
      OBVIOUS
    <3> QED
      BY <3>1, <3>2, TimingAssumption
  <2>3. ASSUME NEW k \in Keys, Known'[k] # NoDatum
        PROVE  IF sweep = Idle
               THEN Known'[k].age + tick.left < NodeTimeout + SweepPeriod
               ELSE Known'[k].age < NodeTimeout + SweepPeriod + sweep
    <3>1. CASE k = d.ip
      <4>1. Known'[k] = Datum(d)
        BY <2>1, <2>2, <3>1 DEF Known, Contents
      <4> QED
        BY <1>0, <2>2, <4>1
    <3>2. CASE k # d.ip
      <4>1. Known'[k] = Known[k]
        BY <2>1, <3>2, Zenon DEF Known, Contents
      <4> QED
        BY <2>3, <4>1 DEF Swept
    <3> QED
      BY <3>1, <3>2
  <2> QED
    BY <2>1, <2>3 DEF Swept
<1>2. CASE SweepReads
  <2>1. /\ Known' = Known /\ sweep = Idle /\ sweep' = 0
        /\ tick.left = 0 /\ tick'.left = SweepPeriod
    BY <1>2, SameMap, TimerTypes DEF SweepReads, Typed
  <2> QED
    BY <1>0, <2>1 DEF Swept
<1>3. CASE SweepDrops
  <2>1. PICK k \in Keys : Known' = [Known EXCEPT ![k] = NoDatum]
    BY <1>3, DropMap
  <2>2. UNCHANGED <<tick, sweep>>
    BY <1>3 DEF SweepDrops
  <2>3. \A h \in Keys : Known'[h] # NoDatum => Known'[h] = Known[h] /\ Known[h] # NoDatum
    BY <2>1, Zenon DEF Known, Contents
  <2> QED
    BY <2>2, <2>3 DEF Swept
<1>4. CASE SweepEnds
  <2>1. Known' = Known /\ sweep # Idle /\ sweep' = Idle /\ tick' = tick
    BY <1>4, SameMap DEF SweepEnds
  <2>2. ASSUME NEW k \in Keys, Known[k] # NoDatum PROVE Known[k].age < NodeTimeout + sweep
    <3>1. PICK b \in Buckets : b = Bucket(k)
      BY BucketType
    <3>2. InList(table.elems[b], k)
      BY <2>2, <3>1, KnownType
    <3>3. PICK i \in DOMAIN table.elems[b] : table.elems[b][i].key = k
      BY <3>2 DEF InList
    <3>4. Known[k] = table.elems[b][i]
      BY <3>1, <3>3, KnownType, FindDatum DEF TableInv
    <3>5. ~(Known[k].age - sweep >= NodeTimeout)
      BY <1>4, <3>3, <3>4, Zenon DEF SweepEnds, TooOld
    <3> QED
      BY <1>0, <2>1, <2>2, <3>5
  <2>3. sweep \in Nat /\ sweep + tick.left = SweepPeriod
    BY <1>0, <2>1 DEF Swept
  <2>4. \A k \in Keys : Known[k] # NoDatum => Known[k].age + tick.left < NodeTimeout + SweepPeriod
    BY <1>0, <2>2, <2>3
  <2> QED
    BY <2>1, <2>4 DEF Swept
<1>5. CASE Tick
  <2>1. Known' = [k \in Keys |-> IF Known[k] = NoDatum THEN NoDatum ELSE Older(Known[k])]
    BY <1>5, TickMap
  <2>2. /\ tick'.left = tick.left - 1
        /\ sweep' = IF sweep = Idle THEN Idle ELSE sweep + 1
    BY <1>5, TimerTypes, Zenon DEF Tick, Typed
  <2>3. \A k \in Keys : Known'[k] # NoDatum =>
          Known[k] # NoDatum /\ Known'[k].age = Known[k].age + 1
    BY <2>1, KnownType DEF Older, Data
  <2>4. sweep' # Idle => sweep' + tick'.left = SweepPeriod
    BY <1>0, <2>2 DEF Swept
  <2>5. ASSUME NEW k \in Keys, Known'[k] # NoDatum
        PROVE  IF sweep' = Idle
               THEN Known'[k].age + tick'.left < NodeTimeout + SweepPeriod
               ELSE Known'[k].age < NodeTimeout + SweepPeriod + sweep'
    BY <1>0, <2>2, <2>3, <2>5 DEF Swept
  <2> QED
    BY <2>4, <2>5 DEF Swept
<1>6. CASE UNCHANGED <<table, tick, sweep>>
  BY <1>6, SameMap DEF Swept
<1> QED
  BY <1>1, <1>2, <1>3, <1>4, <1>5, <1>6, Zenon DEF Next, Broadcast, Crash, Restart, Receive
-----------------------------------------------------------------------------
(* The announcements.                                                       *)

\* More periods take longer.
LEMMA MorePeriods ==
    ASSUME NEW p \in Nat, NEW m \in Nat, NEW n \in Nat, m <= n
    PROVE  p * m \in Nat /\ p * n \in Nat /\ p * m <= p * n
<1>1. PICK r \in Nat : n = m + r
  BY n - m \in Nat
<1>2. p * n = p * m + p * r
  BY <1>1
<1> QED
  BY <1>2

\* The last announcement was sent at most MaxLost + 1 periods ago, and at least
\* one when the next is due.
LEMMA SinceBounds ==
    ASSUME Typed, NEW a \in Agents
    PROVE  /\ Since(a) \in Nat /\ Gap \in Nat /\ timer[a].left \in 0..Period
           /\ Since(a) + timer[a].left <= Gap
           /\ timer[a].left = 0 => Since(a) >= Period
<1>1. /\ timer[a].left \in 0..Period /\ lost[a] \in 0..MaxLost
      /\ Period \in Nat /\ MaxLost \in Nat
  BY Numbers DEF Typed
<1>2. Period * 1 <= Period * (lost[a] + 1) /\ Period * (lost[a] + 1) \in Nat
  <2>1. 1 \in Nat /\ lost[a] + 1 \in Nat /\ 1 <= lost[a] + 1
    BY <1>1
  <2> QED
    BY <1>1, <2>1, MorePeriods
<1>3. Period * (lost[a] + 1) <= Period * (MaxLost + 1) /\ Period * (MaxLost + 1) \in Nat
  <2>1. lost[a] + 1 \in Nat /\ MaxLost + 1 \in Nat /\ lost[a] + 1 <= MaxLost + 1
    BY <1>1
  <2> QED
    BY <1>1, <2>1, MorePeriods
<1> QED
  BY <1>1, <1>2, <1>3 DEF Since, Gap

\* It was sent some time ago.
LEMMA SinceNat == Typed => \A c \in Agents : Since(c) \in Nat
  BY SinceBounds

\* What a broadcast does to the time since the last announcement of each agent.
LEMMA BroadcastSince ==
    ASSUME Typed, NEW a \in Agents, Broadcast(a)
    PROVE  /\ \A b \in Agents \ {a} : Since(b)' = Since(b) /\ timer'[b] = timer[b]
           /\ timer[a].left = 0 /\ timer'[a].left = Period
           /\ \/ /\ Since(a)' = 0
                 /\ net' = net \union {[ip |-> Ip[a], port |-> port[a], read |-> FALSE, age |-> 0]}
              \/ Since(a)' = Since(a) /\ net' = net
<1>1. /\ timer[a].left = 0 /\ timer'[a].left = Period
      /\ \A b \in Agents \ {a} : timer'[b] = timer[b]
  BY DEF Broadcast, Typed, Again
<1>2. \A b \in Agents \ {a} : lost'[b] = lost[b]
  BY DEF Broadcast, Typed
<1>3. lost[a] \in Nat /\ Period \in Nat
  BY Numbers DEF Typed
<1>4. CASE /\ lost' = [lost EXCEPT ![a] = 0]
           /\ net' = net \union {[ip |-> Ip[a], port |-> port[a], read |-> FALSE, age |-> 0]}
  <2>1. lost'[a] = 0
    BY <1>4 DEF Typed
  <2> QED
    BY <1>1, <1>2, <1>3, <1>4, <2>1 DEF Since
<1>5. CASE lost' = [lost EXCEPT ![a] = @ + 1] /\ net' = net
  <2>1. lost'[a] = lost[a] + 1
    BY <1>5 DEF Typed
  <2>2. Period * (lost'[a] + 1) - Period = Period * (lost[a] + 1) - 0
    BY <1>3, <2>1
  <2> QED
    BY <1>1, <1>2, <1>5, <2>2, Zenon DEF Since
<1> QED
  BY <1>4, <1>5, Zenon DEF Broadcast

\* What a second does to the agents.
LEMMA TickSince ==
    ASSUME Typed, Tick, NEW a \in Agents
    PROVE  /\ a \in up => Since(a)' = Since(a) + 1 /\ timer'[a].left = timer[a].left - 1
           /\ life[a] \in Nat /\ life'[a] \in Nat
           /\ life[a] <= life'[a] /\ life'[a] <= life[a] + 1
           /\ life'[a] = life[a] + 1 \/ life'[a] >= MaxLife(a)
           /\ port' = port /\ up' = up
<1>1. /\ life[a] \in Nat /\ life[a] <= MaxLife(a)
      /\ life'[a] = IF life[a] < MaxLife(a) THEN life[a] + 1 ELSE life[a]
      /\ port' = port /\ up' = up
  BY DEF Typed, Tick
<1>2. MaxLife(a) \in Nat
  BY Numbers DEF MaxLife, Settled, Gone
<1>3. ASSUME a \in up
      PROVE  Since(a)' = Since(a) + 1 /\ timer'[a].left = timer[a].left - 1
  <2>1. timer'[a].left = timer[a].left - 1 /\ lost'[a] = lost[a]
    BY <1>3 DEF Typed, Tick, Elapse
  <2>2. Period * (lost[a] + 1) \in Int /\ timer[a].left \in Int
    BY Numbers DEF Typed
  <2> QED
    BY <2>1, <2>2 DEF Since
<1> QED
  BY <1>1, <1>2, <1>3

\* The age of an announcement.
LEMMA SentBounds ==
    ASSUME Typed, NEW d \in net
    PROVE  /\ d.ip \in Keys /\ d.port \in Ports /\ d.read \in BOOLEAN
           /\ d.age \in 0..MaxDelay /\ MaxDelay \in Nat
           /\ SentMax(d) \in Nat /\ d.age <= SentMax(d) /\ SentMax(d) <= 2 * MaxDelay
           /\ Older(d).ip = d.ip /\ Older(d).port = d.port
           /\ Older(d).age = d.age + 1 /\ SentMax(Older(d)) = SentMax(d) + 1
<1>1. /\ d \in Datagrams
      /\ d.ip \in Keys /\ d.port \in Ports /\ d.read \in BOOLEAN
      /\ d.age \in 0..MaxDelay /\ MaxDelay \in Nat
  BY Numbers DEF Typed, Datagrams
<1>2. /\ Older(d).ip = d.ip /\ Older(d).port = d.port /\ Older(d).read = d.read
      /\ Older(d).age = d.age + 1
  BY <1>1 DEF Older, Datagrams
<1> QED
  BY <1>1, <1>2 DEF SentMax
\* What one announcement under way is to one agent.
Due(a, d) ==
    \/ life[a] <= SentMax(d)
    \/ /\ a \in up /\ d.port = port[a]
       /\ Since(a) <= SentMax(d) /\ d.age <= Since(a)

\* No announcement is under way for longer than a period, so what is under way
\* is the last one sent, or it comes from before the last start.
LEMMA UnderWayStep ==
    ASSUME Typed, TableInv, UnderWay, Next
    PROVE  UnderWay'
<1> USE Numbers
<1>0. \A b \in Agents : \A d \in net : d.ip = Ip[b] => Due(b, d)
  BY DEF UnderWay, Due
<1>1. SUFFICES ASSUME NEW b \in Agents, NEW e \in net', e.ip = Ip[b] PROVE Due(b, e)'
  BY DEF UnderWay, Due, SentMax
<1>2. Typed'
  BY TypedStep
<1>3. /\ e.age \in Nat /\ SentMax(e) \in Nat /\ e.age <= SentMax(e)
      /\ SentMax(e)' = SentMax(e)
  <2>1. e \in Datagrams
    BY <1>2 DEF Typed
  <2> QED
    BY <2>1 DEF SentMax, Datagrams
<1>4. life[b] \in Nat /\ Since(b) \in Nat
  BY SinceBounds DEF Typed
<1>5. ASSUME NEW a \in Agents, Broadcast(a) PROVE Due(b, e)'
  <2>1. UNCHANGED <<life, up, port>>
    BY <1>5 DEF Broadcast
  <2>2. CASE b # a \/ (Since(a)' = Since(a) /\ net' = net)
    <3>1. e \in net
      <4>1. e # [ip |-> Ip[a], port |-> port[a], read |-> FALSE, age |-> 0] \/ b = a
        BY <1>1, AddressAssumption
      <4> QED
        BY <1>5, <2>2, <4>1, BroadcastSince, Zenon
    <3>2. Since(b)' = Since(b)
      BY <1>5, <2>2, BroadcastSince
    <3> QED
      BY <1>0, <1>1, <1>3, <2>1, <3>1, <3>2, Zenon DEF Due
  <2>3. CASE b = a /\ ~(Since(a)' = Since(a) /\ net' = net)
    <3>1. /\ Since(b)' = 0 /\ Since(b) >= Period /\ b \in up
          /\ net' = net \union {[ip |-> Ip[b], port |-> port[b], read |-> FALSE, age |-> 0]}
      BY <1>5, <2>3, BroadcastSince, SinceBounds, Zenon DEF Broadcast
    <3>2. CASE e \in net
      <4>1. SentMax(e) <= 2 * MaxDelay /\ 2 * MaxDelay < Period
        BY <3>2, SentBounds, TimingAssumption
      <4>2. life[b] <= SentMax(e)
        BY <1>0, <1>1, <1>3, <1>4, <3>1, <3>2, <4>1 DEF Due
      <4> QED
        BY <1>3, <2>1, <4>2 DEF Due
    <3>3. CASE e = [ip |-> Ip[b], port |-> port[b], read |-> FALSE, age |-> 0]
      <4>1. e.port = port[b] /\ e.age = 0 /\ SentMax(e) = 0
        BY <3>3 DEF SentMax
      <4> QED
        BY <1>3, <2>1, <3>1, <4>1, Zenon DEF Due
    <3> QED
      BY <3>1, <3>2, <3>3, Zenon
  <2> QED
    BY <2>2, <2>3
<1>6. ASSUME NEW a \in Agents, Crash(a) \/ Restart(a) PROVE Due(b, e)'
  <2>1. CASE b = a
    <3>1. life'[b] = 0
      BY <1>6, <2>1, Zenon DEF Typed, Crash, Restart
    <3> QED
      BY <1>3, <3>1 DEF Due
  <2>2. CASE b # a
    <3>1. /\ life'[b] = life[b] /\ (b \in up <=> b \in up') /\ port'[b] = port[b]
          /\ timer'[b] = timer[b] /\ lost' = lost /\ net' = net
      BY <1>6, <2>2, Zenon DEF Typed, Crash, Restart
    <3>2. Since(b)' = Since(b)
      BY <3>1 DEF Since
    <3> QED
      BY <1>0, <1>1, <1>3, <3>1, <3>2, Zenon DEF Due
  <2> QED
    BY <2>1, <2>2
<1>7. ASSUME NEW d \in net, Receive(d) \/ Store(d) PROVE Due(b, e)'
  <2>1. UNCHANGED <<life, up, port, timer, lost>>
    BY <1>7 DEF Receive, Store, peers
  <2>2. Since(b)' = Since(b)
    BY <2>1 DEF Since
  <2>3. CASE e \in net
    BY <1>0, <1>1, <1>3, <2>1, <2>2, <2>3, Zenon DEF Due
  <2>4. CASE e \notin net
    <3>1. ~d.read /\ e = [d EXCEPT !.read = TRUE, !.age = 0]
      BY <1>7, <2>4 DEF Receive, Store
    <3>2. d \in Datagrams
      BY DEF Typed
    <3>3. /\ e.ip = d.ip /\ e.port = d.port /\ e.age = 0
          /\ SentMax(e) = MaxDelay /\ SentMax(d) = d.age /\ d.age \in 0..MaxDelay
      BY <3>1, <3>2 DEF Datagrams, SentMax
    <3>4. Due(b, d)
      BY <1>0, <1>1, <3>3, Zenon
    <3> QED
      BY <1>3, <1>4, <2>1, <2>2, <3>3, <3>4 DEF Due
  <2> QED
    BY <2>3, <2>4
<1>8. CASE SweepReads \/ SweepDrops \/ SweepEnds
  <2>1. UNCHANGED <<life, up, port, timer, lost, net>>
    BY <1>8, Zenon DEF SweepReads, SweepDrops, SweepEnds, peers
  <2>2. Since(b)' = Since(b)
    BY <2>1 DEF Since
  <2> QED
    BY <1>0, <1>1, <1>3, <2>1, <2>2, Zenon DEF Due
<1>9. CASE Tick
  <2>1. PICK d \in net : e = Older(d)
    BY <1>9 DEF Tick
  <2>2. /\ d.ip = e.ip /\ d.port = e.port /\ e.age = d.age + 1
        /\ SentMax(e) = SentMax(d) + 1 /\ d.age \in Nat /\ SentMax(d) \in Nat
    BY <2>1, SentBounds
  <2>3. Due(b, d)
    BY <1>0, <1>1, <2>2
  <2>4. /\ b \in up => Since(b)' = Since(b) + 1
        /\ life'[b] \in Nat /\ life'[b] <= life[b] + 1 /\ port' = port /\ up' = up
    BY <1>9, TickSince
  <2> QED
    BY <1>3, <1>4, <2>2, <2>3, <2>4 DEF Due
<1> QED
  BY <1>5, <1>6, <1>7, <1>8, <1>9, Zenon DEF Next
\* What is known has an age.
LEMMA KnownAges ==
    TableInv => \A k \in Keys : Known[k] # NoDatum => Known[k].age \in Nat
  BY KnownType DEF Data

\* An agent that is down can only be known from before.
LEMMA PastStep ==
    ASSUME Typed, TableInv, UnderWay, Past, Next
    PROVE  Past'
<1> USE Numbers
<1>1. SUFFICES ASSUME NEW b \in Agents, b \notin up', Known'[Ip[b]] # NoDatum
               PROVE  life'[b] <= MaxDelay + Known'[Ip[b]].age
  BY DEF Past
<1>2. Typed' /\ TableInv' /\ life[b] \in Nat /\ Ip[b] \in Keys
  BY TypedStep, TableStep, DirectoryAssumption, Zenon DEF Typed
<1>3. Known'[Ip[b]].age \in Nat
  <2>1. (TableInv => \A k \in Keys : Known[k] # NoDatum => Known[k].age \in Nat)'
    BY KnownAges, PTL
  <2> QED
    BY <1>1, <1>2, <2>1
<1>4. ASSUME UNCHANGED <<life, up, table>> PROVE life'[b] <= MaxDelay + Known'[Ip[b]].age
  BY <1>1, <1>4, SameMap DEF Past
<1>5. ASSUME NEW a \in Agents, Crash(a) \/ Restart(a)
      PROVE  life'[b] <= MaxDelay + Known'[Ip[b]].age
  <2>1. life'[b] = 0 \/ (life'[b] = life[b] /\ b \notin up)
    BY <1>1, <1>5, Zenon DEF Typed, Crash, Restart
  <2>2. Known' = Known
    BY <1>5, SameMap DEF Crash, Restart
  <2> QED
    BY <1>1, <1>3, <2>1, <2>2 DEF Past
<1>6. ASSUME NEW d \in net, Store(d) PROVE life'[b] <= MaxDelay + Known'[Ip[b]].age
  <2>1. Known' = [Known EXCEPT ![d.ip] = Datum(d)] /\ UNCHANGED <<life, up>> /\ d.read
    BY <1>6, StoreMap, Zenon DEF Typed, Store, peers
  <2>2. CASE d.ip = Ip[b]
    <3>1. Known'[Ip[b]] = Datum(d)
      BY <1>2, <2>1, <2>2 DEF Known, Contents
    <3>2. life[b] <= SentMax(d)
      BY <1>1, <2>1, <2>2 DEF UnderWay
    <3>3. SentMax(d) = MaxDelay + Datum(d).age
      BY <2>1 DEF SentMax, Datum
    <3> QED
      BY <2>1, <3>1, <3>2, <3>3, Zenon
  <2>3. CASE d.ip # Ip[b]
    <3>1. Known'[Ip[b]] = Known[Ip[b]]
      BY <1>2, <2>1, <2>3, Zenon DEF Known, Contents
    <3> QED
      BY <1>1, <2>1, <3>1, Zenon DEF Past
  <2> QED
    BY <2>2, <2>3
<1>7. CASE SweepDrops
  <2>1. PICK k \in Keys : Known' = [Known EXCEPT ![k] = NoDatum]
    BY <1>7, DropMap
  <2>2. UNCHANGED <<life, up>>
    BY <1>7 DEF SweepDrops, peers
  <2>3. Known'[Ip[b]] = Known[Ip[b]]
    BY <1>1, <1>2, <2>1, Zenon DEF Known, Contents
  <2> QED
    BY <1>1, <2>2, <2>3, Zenon DEF Past
<1>8. CASE Tick
  <2>1. Known' = [k \in Keys |-> IF Known[k] = NoDatum THEN NoDatum ELSE Older(Known[k])]
    BY <1>8, TickMap
  <2>2. Known[Ip[b]] # NoDatum /\ Known'[Ip[b]] = Older(Known[Ip[b]])
    BY <1>1, <1>2, <2>1, Zenon
  <2>3. Known'[Ip[b]].age = Known[Ip[b]].age + 1 /\ Known[Ip[b]].age \in Nat
    BY <1>2, <2>2, KnownType, Zenon DEF Older, Data
  <2>4. life'[b] \in Nat /\ life'[b] <= life[b] + 1 /\ up' = up
    BY <1>8, TickSince
  <2>5. life[b] <= MaxDelay + Known[Ip[b]].age
    BY <1>1, <2>2, <2>4, Zenon DEF Past
  <2> QED
    BY <1>2, <2>3, <2>4, <2>5
<1> QED
  BY <1>4, <1>5, <1>6, <1>7, <1>8, Zenon
  DEF Next, Broadcast, Receive, SweepReads, SweepEnds, peers

\* An agent broadcasts once, and then not before a period is over.
LEMMA PhaseStep ==
    ASSUME Typed, TableInv, Phase, Next
    PROVE  Phase'
<1> USE Numbers
<1>1. SUFFICES ASSUME NEW b \in Agents, b \in up' PROVE InPhase(b)'
  <2>1. up' \subseteq Agents
    BY TypedStep, Zenon DEF Typed
  <2> QED
    BY <1>1, <2>1 DEF Phase
<1>2. life[b] \in Nat /\ timer[b].left \in Nat
  BY DEF Typed
<1>3. ASSUME life'[b] = life[b], b \in up, timer'[b] = timer[b] PROVE InPhase(b)'
  BY <1>3 DEF Phase, InPhase
<1>4. ASSUME NEW a \in Agents, Broadcast(a) PROVE InPhase(b)'
  <2>1. life' = life /\ up' = up
    BY <1>4 DEF Broadcast
  <2>2. CASE a = b
    <3>1. timer[b].left = 0 /\ timer'[b].left = Period
      BY <1>4, <2>2, BroadcastSince
    <3>2. life[b] = First \/ life[b] >= First + Period
      BY <1>1, <1>2, <2>1, <3>1 DEF Phase, InPhase
    <3> QED
      BY <1>2, <2>1, <3>1, <3>2 DEF InPhase
  <2>3. CASE a # b
    BY <1>1, <1>3, <1>4, <2>1, <2>3, BroadcastSince, Zenon
  <2> QED
    BY <2>2, <2>3
<1>5. ASSUME NEW a \in Agents, Crash(a) PROVE InPhase(b)'
  BY <1>1, <1>3, <1>5, Zenon DEF Typed, Crash
<1>6. ASSUME NEW a \in Agents, Restart(a) PROVE InPhase(b)'
  <2>1. CASE a = b
    <3>1. life'[b] = 0 /\ timer'[b].left = First
      BY <1>6, <2>1, Zenon DEF Typed, Restart, make_timer
    <3> QED
      BY <3>1 DEF InPhase
  <2>2. CASE a # b
    BY <1>1, <1>3, <1>6, <2>2, Zenon DEF Typed, Restart
  <2> QED
    BY <2>1, <2>2
<1>7. CASE Tick
  <2>1. /\ life'[b] \in Nat
        /\ life'[b] = life[b] + 1 \/ life'[b] >= MaxLife(b)
        /\ b \in up /\ timer'[b].left = timer[b].left - 1
    BY <1>1, <1>7, TickSince, Zenon
  <2>2. timer[b].left > 0
    BY <1>7, <2>1, Zenon DEF Tick
  <2>3. MaxLife(b) >= First + Period
    <3>1. Period * 1 <= Period * (MaxLost + 1)
      <4>1. 1 \in Nat /\ MaxLost + 1 \in Nat /\ 1 <= MaxLost + 1
        OBVIOUS
      <4> QED
        BY <4>1, MorePeriods
    <3>2. MaxLife(b) = First + Gap + 2 * MaxDelay + 1 /\ Gap >= Period
      BY <2>1, <3>1 DEF MaxLife, Gap
    <3> QED
      BY <3>2
  <2>4. life[b] + timer[b].left = First \/ life[b] + timer[b].left >= First + Period
    BY <2>1 DEF Phase, InPhase
  <2>5. timer'[b].left \in Nat
    BY <1>2, <2>1, <2>2
  <2>6. CASE life'[b] = life[b] + 1
    <3>1. life'[b] + timer'[b].left = life[b] + timer[b].left
      BY <1>2, <2>1, <2>6
    <3> QED
      BY <2>4, <3>1 DEF InPhase
  <2>7. CASE life'[b] >= MaxLife(b)
    <3>1. life'[b] >= First + Period
      BY <2>1, <2>3, <2>7 DEF MaxLife
    <3> QED
      BY <2>1, <2>5, <3>1 DEF InPhase
  <2> QED
    BY <2>1, <2>6, <2>7
<1> QED
  BY <1>1, <1>3, <1>4, <1>5, <1>6, <1>7, Zenon
  DEF Next, Receive, Store, SweepReads, SweepDrops, SweepEnds, peers
\* What was sent in this life is the last announcement.
LEMMA LastUnderWay ==
    ASSUME Typed, UnderWay, NEW a \in Agents, life[a] > 2 * MaxDelay,
           NEW d \in net, d.ip = Ip[a]
    PROVE  /\ a \in up /\ d.port = port[a]
           /\ Since(a) <= 2 * MaxDelay /\ d.age <= Since(a)
<1>1. life[a] \in Nat /\ SentMax(d) \in Nat /\ SentMax(d) <= 2 * MaxDelay /\ MaxDelay \in Nat
  BY SentBounds DEF Typed
<1>2. Since(a) \in Nat
  BY SinceBounds
<1>3. ~(life[a] <= SentMax(d))
  BY <1>1
<1>4. /\ a \in up /\ d.port = port[a]
      /\ Since(a) <= SentMax(d) /\ d.age <= Since(a)
  BY <1>3 DEF UnderWay
<1> QED
  BY <1>1, <1>2, <1>4

\* The announcements of an agent that runs reach the directory, and one is there
\* before a sweep can drop the one before it.
LEMMA HeardStep ==
    ASSUME Typed, TableInv, UnderWay, Phase, Heard, Next
    PROVE  Heard'
<1> USE Numbers
<1>0. Typed' /\ TableInv'
  BY TypedStep, TableStep
<1>1. SUFFICES ASSUME NEW b \in Agents, b \in up' PROVE HeardOf(b)'
  BY <1>0 DEF Heard, Typed
<1>2. /\ life[b] \in Nat /\ Since(b) \in Nat /\ Since(b) <= Gap /\ Gap' = Gap
      /\ Ip[b] \in Keys
  BY SinceBounds, DirectoryAssumption DEF Typed, Gap
<1>3. /\ 2 * MaxDelay < Period /\ Gap + 2 * MaxDelay < NodeTimeout
  BY TimingAssumption DEF Gap
<1>4. ASSUME life'[b] = life[b], Since(b)' = Since(b), port'[b] = port[b], b \in up,
             \A g \in Nat : Right(b, g) => Right(b, g)',
             \A d \in net : d.ip = Ip[b] => \E e \in net' : e.ip = Ip[b]
      PROVE  HeardOf(b)'
  <2>1. HeardOf(b)
    BY <1>4 DEF Heard
  <2>2. /\ Right(b, Since(b)) => Right(b, Since(b))'
        /\ Right(b, Gap + Since(b)) => Right(b, Gap + Since(b))'
    <3>1. Since(b) \in Nat /\ Gap + Since(b) \in Nat
      BY <1>2
    <3>2. \A g \in Nat : Right(b, g)' <=> /\ Known'[Ip[b]] # NoDatum
                                          /\ Known'[Ip[b]].port = port'[b]
                                          /\ Known'[Ip[b]].age <= g
      BY DEF Right
    <3> QED
      BY <1>2, <1>4, <3>1, <3>2, Zenon DEF Right
  <2> QED
    BY <1>2, <1>4, <2>1, <2>2, Zenon DEF HeardOf
<1>5. ASSUME UNCHANGED table, port'[b] = port[b], NEW g \in Nat, Right(b, g) PROVE Right(b, g)'
  BY <1>5, SameMap, Zenon DEF Right
<1>6. ASSUME NEW a \in Agents, Broadcast(a) PROVE HeardOf(b)'
  <2>1. UNCHANGED <<life, up, port, table>> /\ net \subseteq net'
    BY <1>6 DEF Broadcast
  <2>2. CASE Since(b)' = Since(b)
    BY <1>1, <1>4, <1>5, <2>1, <2>2, Zenon
  <2>3. CASE Since(b)' # Since(b)
    <3>1. /\ b = a /\ Since(b)' = 0 /\ timer[b].left = 0
          /\ \E d \in net' : d.ip = Ip[b]
      <4>1. b = a
        BY <1>6, <2>3, BroadcastSince, Zenon
      <4>2. /\ timer[a].left = 0 /\ Since(a)' = 0
            /\ net' = net \union {[ip |-> Ip[a], port |-> port[a], read |-> FALSE, age |-> 0]}
        BY <1>6, <2>3, <4>1, BroadcastSince, Zenon
      <4>3. \E d \in net' : d.ip = Ip[a]
        <5>1. [ip |-> Ip[a], port |-> port[a], read |-> FALSE, age |-> 0] \in net'
          BY <4>2
        <5>2. [ip |-> Ip[a], port |-> port[a], read |-> FALSE, age |-> 0].ip = Ip[a]
          OBVIOUS
        <5> QED
          BY <5>1, <5>2, Zenon
      <4> QED
        BY <4>1, <4>2, <4>3, Zenon DEF Since
    <3>2. life[b] = First \/ life[b] >= First + Period
      BY <1>1, <1>2, <2>1, <3>1 DEF Phase, InPhase
    <3>3. CASE life[b] = First
      BY <1>2, <2>1, <3>1, <3>3 DEF HeardOf
    <3>4. CASE life[b] >= First + Period
      <4>1. life[b] > 2 * MaxDelay /\ Since(b) > 2 * MaxDelay
        BY <1>2, <1>3, <3>1, <3>4, SinceBounds
      <4>2. ~ \E d \in net : d.ip = Ip[b]
        BY <1>2, <4>1, LastUnderWay
      <4>3. life[b] <= First + Since(b) \/ Right(b, Since(b))
        BY <1>1, <2>1, <4>2, Zenon DEF Heard, HeardOf
      <4>4. CASE life[b] <= First + Since(b)
        <5>1. life[b] <= First + Gap + 0
          BY <1>2, <4>4
        <5> QED
          BY <1>2, <2>1, <3>1, <4>1, <5>1, Zenon DEF HeardOf
      <4>5. CASE Right(b, Since(b))
        <5>1. Known[Ip[b]].age \in Nat
          BY <1>2, <4>5, KnownAges, Zenon DEF Right
        <5>2. Right(b, Gap + 0)
          BY <1>2, <4>5, <5>1 DEF Right
        <5>3. Right(b, Gap + Since(b))'
          BY <1>2, <2>1, <3>1, <5>2, SameMap, Zenon DEF Right
        <5> QED
          BY <1>2, <2>1, <3>1, <4>1, <5>3, Zenon DEF HeardOf
      <4> QED
        BY <4>3, <4>4, <4>5
    <3> QED
      BY <3>2, <3>3, <3>4
  <2> QED
    BY <2>2, <2>3
<1>7. ASSUME NEW a \in Agents, Crash(a) \/ Restart(a) PROVE HeardOf(b)'
  <2>1. UNCHANGED <<table, net, lost>>
    BY <1>7 DEF Crash, Restart
  <2>2. CASE a = b
    <3>1. life'[b] = 0
      BY <1>7, <2>2, Zenon DEF Typed, Crash, Restart
    <3>2. (Typed => \A c \in Agents : Since(c) \in Nat)'
      BY SinceNat, PTL
    <3> QED
      BY <1>0, <3>1, <3>2 DEF HeardOf
  <2>3. CASE a # b
    <3>1. /\ life'[b] = life[b] /\ b \in up /\ port'[b] = port[b] /\ timer'[b] = timer[b]
      BY <1>1, <1>7, <2>3, Zenon DEF Typed, Crash, Restart
    <3>2. Since(b)' = Since(b)
      BY <2>1, <3>1 DEF Since
    <3> QED
      BY <1>4, <1>5, <2>1, <3>1, <3>2, Zenon
  <2> QED
    BY <2>2, <2>3<1>8. ASSUME NEW d \in net, Receive(d) PROVE HeardOf(b)'
  <2>1. UNCHANGED <<life, up, port, timer, lost, table>>
    BY <1>8 DEF Receive, peers
  <2>2. Since(b)' = Since(b)
    BY <2>1 DEF Since
  <2>3. ASSUME NEW c \in net, c.ip = Ip[b] PROVE \E e \in net' : e.ip = Ip[b]
    <3>1. [d EXCEPT !.read = TRUE, !.age = 0].ip = d.ip
      <4>1. d \in Datagrams
        BY DEF Typed
      <4> QED
        BY <4>1 DEF Datagrams
    <3> QED
      BY <1>8, <2>3, <3>1, Zenon DEF Receive
  <2> QED
    BY <1>1, <1>4, <1>5, <2>1, <2>2, <2>3, Zenon
<1>9. ASSUME NEW d \in net, Store(d) PROVE HeardOf(b)'
  <2>1. /\ UNCHANGED <<life, up, port, timer, lost>> /\ net' = net \ {d}
        /\ Known' = [Known EXCEPT ![d.ip] = Datum(d)] /\ Datum(d) \in Data
    BY <1>9, StoreMap, Zenon DEF Typed, Store, peers
  <2>2. Since(b)' = Since(b)
    BY <2>1 DEF Since
  <2>3. CASE d.ip # Ip[b]
    <3>1. Known'[Ip[b]] = Known[Ip[b]]
      BY <1>2, <2>1, <2>3, Zenon DEF Known, Contents
    <3>2. \A g \in Nat : Right(b, g) => Right(b, g)'
      BY <2>1, <3>1, Zenon DEF Right
    <3> QED
      BY <1>1, <1>4, <2>1, <2>2, <2>3, <3>2, Zenon
  <2>4. CASE d.ip = Ip[b]
    <3>1. CASE life[b] <= First + Since(b)
      BY <2>1, <2>2, <3>1, Zenon DEF HeardOf
    <3>2. CASE ~(life[b] <= First + Since(b))
      <4>1. life[b] > 2 * MaxDelay
        BY <1>1, <2>1, <3>2, Zenon DEF Heard, HeardOf
      <4>2. d.port = port[b] /\ d.age <= Since(b)
        BY <2>4, <4>1, LastUnderWay
      <4>3. Known'[Ip[b]] = Datum(d) /\ Datum(d) # NoDatum
        BY <1>2, <2>1, <2>4, DirectoryAssumption, Zenon DEF Known, Contents, Data
      <4>4. Datum(d).port = d.port /\ Datum(d).age = d.age
        BY DEF Datum
      <4>5. Right(b, Since(b))'
        BY <2>1, <2>2, <4>2, <4>3, <4>4, Zenon DEF Right
      <4> QED
        BY <2>1, <4>1, <4>5, Zenon DEF HeardOf
    <3> QED
      BY <3>1, <3>2
  <2> QED
    BY <2>3, <2>4
<1>10. CASE SweepReads \/ SweepEnds
  <2>1. UNCHANGED <<life, up, port, timer, lost, net, table>>
    BY <1>10 DEF SweepReads, SweepEnds, peers
  <2>2. Since(b)' = Since(b)
    BY <2>1 DEF Since
  <2> QED
    BY <1>1, <1>4, <1>5, <2>1, <2>2, Zenon
<1>11. CASE SweepDrops
  <2>0. UNCHANGED <<life, up, port, timer, lost, net>> /\ sweep # Idle
    BY <1>11, Zenon DEF SweepDrops, peers
  <2>1. UNCHANGED <<life, up, port, timer, lost, net>> /\ sweep \in Nat
    BY <2>0 DEF Typed
  <2>2. Since(b)' = Since(b)
    BY <2>1 DEF Since
  <2>3. PICK k \in Keys : /\ Known[k] # NoDatum /\ Known[k].age - sweep >= NodeTimeout
                          /\ Known' = [Known EXCEPT ![k] = NoDatum]
    BY <1>11, DropMap
  <2>4. CASE k # Ip[b]
    <3>1. Known'[Ip[b]] = Known[Ip[b]]
      BY <1>2, <2>3, <2>4, Zenon DEF Known, Contents
    <3>2. \A g \in Nat : Right(b, g) => Right(b, g)'
      BY <2>1, <3>1, Zenon DEF Right
    <3> QED
      BY <1>1, <1>4, <2>1, <2>2, <3>2, Zenon
  <2>5. CASE k = Ip[b]
    <3>1. Known[Ip[b]].age \in Nat /\ Known[Ip[b]].age >= NodeTimeout
      BY <2>1, <2>3, <2>5, KnownAges
    <3>2. \A g \in Nat : g < NodeTimeout => ~Right(b, g)
      BY <3>1 DEF Right
    <3>3. ~Right(b, Since(b))
      BY <1>2, <1>3, <3>2
    <3>4. CASE life[b] <= First + Since(b)
      BY <2>1, <2>2, <3>4, Zenon DEF HeardOf
    <3>5. CASE ~(life[b] <= First + Since(b))
      <4>1. /\ life[b] > 2 * MaxDelay
            /\ \E d \in net : d.ip = Ip[b]
            /\ life[b] <= First + Gap + Since(b) \/ Right(b, Gap + Since(b))
        BY <1>1, <2>1, <3>3, <3>5, Zenon DEF Heard, HeardOf
      <4>2. Since(b) <= 2 * MaxDelay
        BY <4>1, LastUnderWay
      <4>3. ~Right(b, Gap + Since(b))
        <5>1. Gap + Since(b) \in Nat /\ Gap + Since(b) < NodeTimeout
          BY <1>2, <1>3, <4>2
        <5> QED
          BY <3>2, <5>1
      <4> QED
        BY <1>2, <2>1, <2>2, <4>1, <4>3, Zenon DEF HeardOf
    <3> QED
      BY <3>4, <3>5
  <2> QED
    BY <2>4, <2>5
<1>12. CASE Tick
  <2>1. /\ b \in up /\ Since(b)' = Since(b) + 1 /\ port' = port
        /\ life'[b] \in Nat /\ life[b] <= life'[b] /\ life'[b] <= life[b] + 1
    BY <1>1, <1>12, TickSince, Zenon
  <2>2. ASSUME NEW g \in Nat, Right(b, g) PROVE Right(b, g + 1)'
    <3>1. Known'[Ip[b]] = Older(Known[Ip[b]])
      BY <1>2, <1>12, <2>2, TickMap, Zenon DEF Right
    <3>2. Known[Ip[b]] \in Data
      BY <1>2, <2>2, KnownType, Zenon DEF Right
    <3>3. /\ Older(Known[Ip[b]]).age = Known[Ip[b]].age + 1 /\ Known[Ip[b]].age \in Nat
          /\ Older(Known[Ip[b]]).port = Known[Ip[b]].port
          /\ Older(Known[Ip[b]]) \in Data
      BY <3>2 DEF Older, Data
    <3>4. Older(Known[Ip[b]]) # NoDatum
      BY <3>3, DirectoryAssumption, Zenon DEF Data
    <3>5. Known[Ip[b]].port = port[b] /\ Known[Ip[b]].age <= g
      BY <2>2, Zenon DEF Right
    <3>6. Known[Ip[b]].age + 1 <= g + 1
      BY <2>2, <3>3, <3>5
    <3>7. /\ Known'[Ip[b]] # NoDatum /\ Known'[Ip[b]].port = port'[b]
          /\ Known'[Ip[b]].age <= g + 1
      BY <2>1, <3>1, <3>3, <3>4, <3>5, <3>6, Zenon
    <3> QED
      BY <3>7 DEF Right
  <2>3. ASSUME NEW d \in net, d.ip = Ip[b] PROVE \E e \in net' : e.ip = Ip[b]
    BY <1>12, <2>3, SentBounds DEF Tick
  <2>4. HeardOf(b)
    BY <2>1 DEF Heard
  <2>5. CASE life[b] <= First + Since(b)
    <3>1. life'[b] <= First + (Since(b) + 1)
      <4>1. /\ life'[b] \in Nat /\ life'[b] <= life[b] + 1
            /\ life[b] \in Nat /\ Since(b) \in Nat /\ First \in Nat
        BY <1>2, <2>1
      <4> QED
        BY <2>5, <4>1
    <3> QED
      BY <2>1, <3>1 DEF HeardOf
  <2>6. CASE life[b] > 2 * MaxDelay /\ Right(b, Since(b))
    <3>1. PICK g \in Nat : g = Since(b)
      BY <1>2
    <3>2. Right(b, g + 1)' /\ Since(b)' = g + 1
      BY <2>1, <2>2, <2>6, <3>1, Zenon
    <3>3. Right(b, Since(b))'
      BY <3>2 DEF Right
    <3>4. life'[b] > 2 * MaxDelay
      BY <1>2, <2>1, <2>6
    <3> QED
      BY <3>3, <3>4 DEF HeardOf
  <2>7. CASE /\ life[b] > 2 * MaxDelay
             /\ \E d \in net : d.ip = Ip[b]
             /\ life[b] <= First + Gap + Since(b)
    <3>1. life'[b] <= First + Gap + (Since(b) + 1) /\ life'[b] > 2 * MaxDelay
      BY <1>2, <2>1, <2>7
    <3> QED
      BY <1>2, <2>1, <2>3, <2>7, <3>1, Zenon DEF HeardOf
  <2>8. CASE /\ life[b] > 2 * MaxDelay
             /\ \E d \in net : d.ip = Ip[b]
             /\ Right(b, Gap + Since(b))
    <3>1. PICK g \in Nat : g = Gap + Since(b)
      BY <1>2
    <3>2. Right(b, g + 1)' /\ Gap' + Since(b)' = g + 1
      BY <1>2, <2>1, <2>2, <2>8, <3>1
    <3>3. Right(b, Gap + Since(b))' /\ life'[b] > 2 * MaxDelay
      BY <1>2, <2>1, <2>8, <3>2 DEF Right
    <3> QED
      BY <2>3, <2>8, <3>3, Zenon DEF HeardOf
  <2> QED
    BY <2>4, <2>5, <2>6, <2>7, <2>8, Zenon DEF HeardOf
<1> QED
  BY <1>6, <1>7, <1>8, <1>9, <1>10, <1>11, <1>12, Zenon DEF Next
-----------------------------------------------------------------------------
(* What follows.                                                            *)

Timed == Typed /\ TableInv /\ Swept /\ UnderWay /\ Past /\ Phase /\ Heard

\* At start nothing is known, sent or under way.
LEMMA InitTimed == Init => Timed
<1> SUFFICES ASSUME Init PROVE Timed
  OBVIOUS
<1>1. Typed /\ TableInv
  BY InitTyped, InitTable
<1>2. \A k \in Keys : Known[k] = NoDatum
  <2>1. \A b \in Buckets : DOMAIN table.elems[b] = {}
    BY DEF Init, tablahash_create
  <2> SUFFICES ASSUME NEW k \in Keys PROVE Known[k] = NoDatum
    BY Zenon
  <2>2. ~InList(table.elems[Bucket(k)], k)
    BY <2>1, BucketType DEF InList
  <2> QED
    BY <2>2, FindNothing DEF Known, Contents
<1>3. Swept
  BY <1>2 DEF Init, Swept
<1>4. UnderWay /\ Past
  BY DEF Init, UnderWay, Past
<1>5. \A a \in Agents : life[a] = 0 /\ timer[a].left = First /\ Since(a) \in Nat
  BY <1>1, SinceNat DEF Init, make_timer
<1>6. \A a \in Agents : InPhase(a) /\ HeardOf(a)
  BY <1>5, Numbers DEF InPhase, HeardOf
<1>7. Phase /\ Heard
  BY <1>1, <1>6 DEF Typed, Phase, Heard
<1> QED
  BY <1>1, <1>3, <1>4, <1>7 DEF Timed

\* The inductive invariant of the timing.
LEMMA DirectoryTimed == Spec => []Timed
<1>1. Timed /\ [Next]_vars => Timed'
  <2> SUFFICES ASSUME Timed, [Next]_vars PROVE Timed'
    OBVIOUS
  <2>1. CASE Next
    BY <2>1, TypedStep, TableStep, SweptStep, UnderWayStep, PastStep, PhaseStep, HeardStep, Zenon
    DEF Timed
  <2>2. CASE UNCHANGED vars
    <3>1. UNCHANGED <<up, life, port, timer, lost, net, table, tick, sweep, locked>>
      BY <2>2 DEF vars, peers
    <3>2. Typed' /\ TableInv' /\ Known' = Known
      BY <3>1, SameMap, Zenon DEF Timed, Typed, MaxLife
    <3>3. \A a : Since(a)' = Since(a)
      BY <3>1 DEF Since
    <3>4. Swept' /\ Past' /\ Phase'
      BY <3>1, <3>2, Zenon DEF Timed, Swept, Past, Phase, InPhase
    <3>5. UnderWay'
      BY <3>1, <3>3 DEF Timed, UnderWay, SentMax
    <3>6. Heard'
      BY <3>1, <3>2, <3>3, Zenon DEF Timed, Heard, HeardOf, Right, Gap
    <3> QED
      BY <3>2, <3>4, <3>5, <3>6 DEF Timed
  <2> QED
    BY <2>1, <2>2
<1> QED
  BY InitTimed, <1>1, PTL DEF Spec

\* An agent that has been up for a while is in the directory, with its port:
\* check_nodes_timeouts never drops a node for the announcements that are lost
\* or late, and none of its former life stays.
THEOREM LiveListed == Spec => []LiveIsListed
<1>1. ASSUME Timed, NEW a \in up, life[a] > Settled
      PROVE  Known[Ip[a]] # NoDatum /\ Known[Ip[a]].port = port[a]
  <2> USE Numbers
  <2>1. /\ a \in Agents /\ life[a] \in Nat /\ Since(a) \in Nat /\ Since(a) <= Gap
        /\ HeardOf(a)
    BY <1>1, SinceBounds DEF Timed, Typed, Heard
  <2>2. ~(life[a] <= First + Since(a)) /\ life[a] > 2 * MaxDelay
    BY <1>1, <2>1
  <2>3. ASSUME NEW d \in net, d.ip = Ip[a] PROVE ~(life[a] <= First + Gap + Since(a))
    <3>1. Since(a) <= 2 * MaxDelay
      BY <1>1, <2>1, <2>2, <2>3, LastUnderWay, Zenon DEF Timed
    <3> QED
      BY <1>1, <2>1, <3>1
  <2> QED
    BY <2>1, <2>2, <2>3, Zenon DEF HeardOf, Right
<1>2. Timed => LiveIsListed
  <2> SUFFICES ASSUME Timed, NEW a \in up, life[a] > Settled
               PROVE  /\ tablahash_find(table, Ip[a]) # NoDatum
                      /\ tablahash_find(table, Ip[a]).port = port[a]
    BY DEF LiveIsListed
  <2>1. Ip[a] \in Keys
    BY DirectoryAssumption DEF Timed, Typed
  <2>2. Known[Ip[a]] = tablahash_find(table, Ip[a])
    BY <2>1 DEF Known, Contents
  <2> QED
    BY <1>1, <2>2
<1> QED
  BY DirectoryTimed, <1>2, PTL

\* An agent that has been down for a while is not: a sweep finds it, at the
\* latest one period after it has become too old.
THEOREM SilentDropped == Spec => []SilentIsDropped
<1>1. Timed => SilentIsDropped
  <2> SUFFICES ASSUME Timed, NEW a \in Agents \ up, life[a] >= Gone,
                      tablahash_find(table, Ip[a]) # NoDatum
               PROVE  FALSE
    BY DEF SilentIsDropped
  <2> USE Numbers
  <2>1. Ip[a] \in Keys /\ life[a] \in Nat
    BY DirectoryAssumption DEF Timed, Typed
  <2>2. Known[Ip[a]] # NoDatum
    BY <2>1 DEF Known, Contents
  <2>3. life[a] <= MaxDelay + Known[Ip[a]].age /\ Known[Ip[a]].age \in Nat
    BY <2>1, <2>2, KnownAges, Zenon DEF Timed, Past
  <2>4. /\ sweep = Idle => Known[Ip[a]].age + tick.left < NodeTimeout + SweepPeriod
        /\ sweep # Idle => Known[Ip[a]].age < NodeTimeout + SweepPeriod + sweep
    BY <2>1, <2>2, Zenon DEF Timed, Swept
  <2>5. tick.left \in Nat /\ (sweep # Idle => sweep \in 0..MaxDelay)
    BY DEF Timed, Typed
  <2>6. Known[Ip[a]].age < NodeTimeout + SweepPeriod + MaxDelay
    BY <2>3, <2>4, <2>5
  <2> QED
    BY <2>1, <2>3, <2>6 DEF Gone
<1> QED
  BY DirectoryTimed, <1>1, PTL

-----------------------------------------------------------------------------
\* The addresses that a map knows.
Listed(m) == {k \in Keys : m[k] # NoDatum}

Counted == IsFiniteSet(Listed(Known)) /\ table.numElems = Cardinality(Listed(Known))

\* One more known address, or one fewer, and the count follows.
LEMMA ListedCount ==
    ASSUME NEW m, NEW n, NEW k \in Keys, IsFiniteSet(Listed(m)),
           \A h \in Keys \ {k} : n[h] = m[h]
    PROVE  /\ IsFiniteSet(Listed(n))
           /\ n[k] # NoDatum => Cardinality(Listed(n)) =
                 Cardinality(Listed(m)) + (IF m[k] # NoDatum THEN 0 ELSE 1)
           /\ n[k] = NoDatum => Cardinality(Listed(n)) =
                 Cardinality(Listed(m)) - (IF m[k] # NoDatum THEN 1 ELSE 0)
<1>1. Cardinality(Listed(m)) \in Nat
  BY FS_CardinalityType
<1>2. CASE n[k] # NoDatum
  <2>1. Listed(n) = Listed(m) \union {k}
    BY <1>2 DEF Listed
  <2>2. k \in Listed(m) <=> m[k] # NoDatum
    BY DEF Listed
  <2>3. /\ IsFiniteSet(Listed(m) \union {k})
        /\ Cardinality(Listed(m) \union {k}) =
              IF k \in Listed(m) THEN Cardinality(Listed(m)) ELSE Cardinality(Listed(m)) + 1
    BY FS_AddElement, Zenon
  <2> QED
    BY <1>1, <1>2, <2>1, <2>2, <2>3
<1>3. CASE n[k] = NoDatum
  <2>1. Listed(n) = Listed(m) \ {k}
    BY <1>3 DEF Listed
  <2>2. k \in Listed(m) <=> m[k] # NoDatum
    BY DEF Listed
  <2>3. /\ IsFiniteSet(Listed(m) \ {k})
        /\ Cardinality(Listed(m) \ {k}) =
              IF k \in Listed(m) THEN Cardinality(Listed(m)) - 1 ELSE Cardinality(Listed(m))
    BY FS_RemoveElement
  <2> QED
    BY <1>1, <1>3, <2>1, <2>2, <2>3
<1> QED
  BY <1>2, <1>3, Zenon

\* At start nothing is known, and the count is zero.
LEMMA InitCounted == Init => Counted
<1> SUFFICES ASSUME Init PROVE Counted
  OBVIOUS
<1>1. TableInv
  BY InitTable
<1>2. table.numElems = 0 /\ \A b \in Buckets : DOMAIN table.elems[b] = {}
  BY DEF Init, tablahash_create
<1>3. \A k \in Keys : ~InList(table.elems[Bucket(k)], k)
  BY <1>2, BucketType, Zenon DEF InList
<1>4. \A k \in Keys : Known[k] = NoDatum
  BY <1>1, <1>3, KnownType, Zenon
<1>5. Listed(Known) = {}
  BY <1>4, Zenon DEF Listed
<1> QED
  BY <1>2, <1>5, FS_EmptySet DEF Counted

\* The count follows every announcement that is stored and every node that is
\* dropped, and no second that passes changes it.
LEMMA CountedStep ==
    ASSUME Typed, TableInv, Counted, Next
    PROVE  Counted'
<1>0. Cardinality(Listed(Known)) \in Nat
  BY FS_CardinalityType DEF Counted
<1>1. ASSUME NEW d \in net, Store(d) PROVE Counted'
  <2>1. /\ Datum(d) \in Data /\ Known' = [Known EXCEPT ![d.ip] = Datum(d)]
        /\ table'.numElems = table.numElems + (IF Known[d.ip] # NoDatum THEN 0 ELSE 1)
    BY <1>1, StoreMap, Zenon DEF Typed
  <2>2. d.ip \in Keys
    BY DEF Typed, Datagrams
  <2>3. DOMAIN Known = Keys
    BY DEF Known, Contents
  <2>4. Datum(d) # NoDatum
    BY <2>1, DirectoryAssumption DEF Data
  <2>5. Known'[d.ip] # NoDatum /\ \A h \in Keys \ {d.ip} : Known'[h] = Known[h]
    BY <2>1, <2>2, <2>3, <2>4
  <2>6. /\ IsFiniteSet(Listed(Known'))
        /\ Cardinality(Listed(Known')) =
              Cardinality(Listed(Known)) + (IF Known[d.ip] # NoDatum THEN 0 ELSE 1)
    BY <2>2, <2>5, ListedCount, Zenon DEF Counted
  <2> QED
    BY <2>1, <2>6, Zenon DEF Counted
<1>2. CASE SweepDrops
  <2>1. table'.numElems = table.numElems - 1
    BY <1>2, DropMap
  <2>2. PICK k \in Keys : Known[k] # NoDatum /\ Known' = [Known EXCEPT ![k] = NoDatum]
    BY <1>2, DropMap
  <2>3. DOMAIN Known = Keys
    BY DEF Known, Contents
  <2>4. Known'[k] = NoDatum /\ \A h \in Keys \ {k} : Known'[h] = Known[h]
    BY <2>2, <2>3
  <2>5. /\ IsFiniteSet(Listed(Known'))
        /\ Cardinality(Listed(Known')) =
              Cardinality(Listed(Known)) - (IF Known[k] # NoDatum THEN 1 ELSE 0)
    BY <2>4, ListedCount, Zenon DEF Counted
  <2> QED
    BY <2>1, <2>2, <2>5 DEF Counted
<1>3. CASE Tick
  <2>1. /\ table'.numElems = table.numElems
        /\ Known' = [k \in Keys |-> IF Known[k] = NoDatum THEN NoDatum ELSE Older(Known[k])]
    BY <1>3, TickMap
  <2>2. ASSUME NEW k \in Keys, Known[k] # NoDatum PROVE Known'[k] # NoDatum
    <3>1. Known[k] \in Data
      BY <2>2, KnownType
    <3>2. Older(Known[k]) \in Data
      BY <3>1 DEF Data, Older
    <3> QED
      BY <2>1, <2>2, <3>2, DirectoryAssumption DEF Data
  <2>3. \A k \in Keys : Known'[k] # NoDatum <=> Known[k] # NoDatum
    BY <2>1, <2>2
  <2>4. Listed(Known') = Listed(Known)
    BY <2>3 DEF Listed
  <2> QED
    BY <2>1, <2>4 DEF Counted
<1>4. CASE UNCHANGED table
  BY <1>4, SameMap DEF Counted
<1> QED
  BY <1>1, <1>2, <1>3, <1>4, Zenon
     DEF Next, Broadcast, Crash, Restart, Receive, SweepReads, SweepEnds

\* The count is right always.
LEMMA DirectoryCounted == Spec => []Counted
<1>1. Typed /\ TableInv /\ Counted /\ [Next]_vars => Counted'
  <2> SUFFICES ASSUME Typed, TableInv, Counted, [Next]_vars PROVE Counted'
    OBVIOUS
  <2>1. CASE Next
    BY <2>1, CountedStep
  <2>2. CASE UNCHANGED vars
    <3>1. UNCHANGED table
      BY <2>2 DEF vars
    <3> QED
      BY <3>1, SameMap DEF Counted
  <2> QED
    BY <2>1, <2>2
<1> QED
  BY <1>1, InitCounted, DirectoryTyped, PTL DEF Spec

-----------------------------------------------------------------------------

\* table_nodes is a map: its chains are in order, its count is right, and to remove
\* a key removes that datum and no other (hashtable.c, check_nodes_timeouts).
THEOREM TableMap == Spec => []TableIsMap
<1>1. TableInv /\ Counted => TableIsMap
  <2> SUFFICES ASSUME TableInv, Counted PROVE TableIsMap
    OBVIOUS
  <2>1. Listed(Known) = {k \in Keys : tablahash_find(table, k) # NoDatum}
    BY KnownType DEF Listed
  <2>2. \A k \in Keys :
          Contents(tablahash_remove(table, k)) = [Contents(table) EXCEPT ![k] = NoDatum]
    BY RemoveIsUpdate DEF TableInv
  <2> QED
    BY <2>1, <2>2 DEF TableInv, Counted, TableIsMap
<1> QED
  BY <1>1, DirectoryTyped, DirectoryCounted, PTL

\* A sequence is one over every set that its elements are in.
LEMMA InSeq ==
    ASSUME NEW S, NEW T, NEW s \in Seq(S), \A i \in DOMAIN s : s[i] \in T
    PROVE  s \in Seq(T)
<1>1. s \in [1..Len(s) -> T] /\ Len(s) \in Nat
  OBVIOUS
<1> QED
  BY <1>1

\* The types, the ages of the nodes in table_nodes among them: the sweeps bound
\* how old a node can be.
THEOREM DirectoryTypeOK == Spec => []TypeOK
<1>1. Timed /\ Counted => TypeOK
  <2> SUFFICES ASSUME Timed, Counted PROVE TypeOK
    OBVIOUS
  <2> USE Numbers
  <2>1. ASSUME NEW b \in Buckets, NEW i \in DOMAIN table.elems[b]
        PROVE  table.elems[b][i] \in [key : Keys, port : Ports, age : 0..Gone]
    <3>1. PICK k \in Keys : /\ k = table.elems[b][i].key
                            /\ tablahash_find(table, k) = table.elems[b][i]
      BY UnlinkIsRemove, Zenon DEF Timed, TableInv
    <3>2. table.elems[b] \in Seq(Data)
      BY ChainType DEF Timed, TableInv
    <3>3. table.elems[b][i] \in Data
      BY <3>2
    <3>4. Known[k] = table.elems[b][i] /\ Known[k] # NoDatum
      BY <3>1, <3>3, DirectoryAssumption, Zenon DEF Known, Contents, Data
    <3>5. /\ sweep = Idle => Known[k].age + tick.left < NodeTimeout + SweepPeriod
          /\ sweep # Idle => Known[k].age < NodeTimeout + SweepPeriod + sweep
      BY <3>4, Zenon DEF Timed, Swept
    <3>6. tick.left \in Nat /\ (sweep # Idle => sweep \in 0..MaxDelay)
      BY DEF Timed, Typed
    <3>7. Known[k].age \in Nat
      BY <3>3, <3>4, Zenon DEF Data
    <3>8. Known[k].age <= Gone
      BY <3>5, <3>6, <3>7 DEF Gone
    <3> QED
      BY <3>3, <3>4, <3>7, <3>8 DEF Data
  <2>2. \A b \in Buckets : table.elems[b] \in Seq([key : Keys, port : Ports, age : 0..Gone])
    <3> SUFFICES ASSUME NEW b \in Buckets
                 PROVE  table.elems[b] \in Seq([key : Keys, port : Ports, age : 0..Gone])
      BY Zenon
    <3>1. table.elems[b] \in Seq(Data)
      BY ChainType DEF Timed, TableInv
    <3> QED
      BY <2>1, <3>1, InSeq, Zenon
  <2>3. table.numElems \in Nat
    BY FS_CardinalityType DEF Counted
  <2> QED
    BY <2>2, <2>3, Zenon DEF Timed, Typed, TypeOK, Datagrams
<1> QED
  BY DirectoryTimed, DirectoryCounted, <1>1, PTL
=============================================================================
