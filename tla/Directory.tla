------------------------------- MODULE Directory -------------------------------
(***************************************************************************)
(* Node discovery as one agent sees it.  Every agent broadcasts ANNOUNCE   *)
(* one second after it started and then every five; the agent keeps what   *)
(* it hears in table_nodes, a sweep every five seconds drops the nodes     *)
(* that have been silent for fifteen, and GET_NODES lists the rest.        *)
(*                                                                         *)
(* Time passes in seconds, the unit of the agent's clock.  Datagrams can   *)
(* be lost and overtake each other; agents crash and start again, perhaps  *)
(* on another port.  The resources announced are left out: like the port   *)
(* they are copied from the datagram to the table.                         *)
(***************************************************************************)
EXTENDS HashTable, FiniteSets

CONSTANTS
    Agents,         \* the agents whose announcements it hears
    Ip,             \* the address of each agent, a key of the table
    Ports,          \* ports an agent may be started with
    First, Period,  \* timer of the broadcast: first after, then every
    SweepPeriod,    \* timer of the sweep
    NodeTimeout,    \* NODE_TIMEOUT_SEC
    MaxDelay,       \* seconds a datagram, or a worker, may take for one step
    MaxLost,        \* announcements of one agent lost in a row
    MaxCrashes,     \* bound: crashes in a behaviour
    Idle

ASSUME DirectoryAssumption ==
    /\ Ip \in [Agents -> Keys]
    /\ {First, Period, SweepPeriod, NodeTimeout, MaxDelay, MaxLost, MaxCrashes}
           \subseteq Nat
    /\ Ports # {} /\ Idle \notin Nat
    /\ NoDatum \notin [key : Keys, port : Ports, age : Nat]

\* hash.c knows a node by its address alone.
ASSUME AddressAssumption ==
    \A a, b \in Agents : Ip[a] = Ip[b] => a = b

\* An announcement is in the table before the next one is sent, and the gap that
\* the losses leave between two of them is shorter than the limit.
ASSUME TimingAssumption ==
    /\ First <= Period
    /\ 2 * MaxDelay < Period
    /\ Period * (MaxLost + 1) + 2 * MaxDelay < NodeTimeout

VARIABLES
    up,       \* which agents run
    life,     \* seconds since each was started or crashed
    port,     \* the port each was started with
    timer,    \* the timer of its broadcasts
    lost,     \* how many of its last announcements were lost
    net,      \* announcements on their way or in the hands of a worker
    table,    \* table_nodes
    tick,     \* the timer of the sweeps
    sweep,    \* Idle, or how long ago the running sweep read the clock
    locked,   \* does the sweep hold the lock of the table?
    crashes

peers == <<up, life, port, lost, crashes>>
vars == <<peers, timer, net, table, tick, sweep, locked>>

\* From here on an agent is expected in the directory, or out of it.
Settled == First + Period * (MaxLost + 1) + 2 * MaxDelay
Gone == NodeTimeout + SweepPeriod + 2 * MaxDelay

\* No property looks further back.
MaxLife(a) == IF a \in up THEN Settled + 1 ELSE Gone

\* A timer has so many seconds left, and expires again every so many.
make_timer(initial_sec, interval_sec) == [left |-> initial_sec, every |-> interval_sec]
Again(t) == [t EXCEPT !.left = t.every]
Elapse(t) == [t EXCEPT !.left = @ - 1]

Init ==
    /\ up = Agents
    /\ life = [a \in Agents |-> 0]
    /\ port = [a \in Agents |-> CHOOSE p \in Ports : TRUE]
    /\ timer = [a \in Agents |-> make_timer(First, Period)]
    /\ lost = [a \in Agents |-> 0]
    /\ net = {}
    /\ table = tablahash_create
    /\ tick = make_timer(SweepPeriod, SweepPeriod)
    /\ sweep = Idle
    /\ locked = FALSE
    /\ crashes = 0

-----------------------------------------------------------------------------
(* The agents.                                                              *)

\* udp_broadcast, and the timer armed for the next period.
Broadcast(a) ==
    /\ a \in up
    /\ timer[a].left = 0
    /\ timer' = [timer EXCEPT ![a] = Again(@)]
    /\ \/ /\ net' = net \union {[ip |-> Ip[a], port |-> port[a], read |-> FALSE, age |-> 0]}
          /\ lost' = [lost EXCEPT ![a] = 0]
       \/ /\ lost[a] < MaxLost
          /\ lost' = [lost EXCEPT ![a] = @ + 1]
          /\ net' = net
    /\ UNCHANGED <<up, life, port, crashes, table, tick, sweep, locked>>

Crash(a) ==
    /\ a \in up
    /\ crashes < MaxCrashes
    /\ up' = up \ {a}
    /\ life' = [life EXCEPT ![a] = 0]
    /\ crashes' = crashes + 1
    /\ UNCHANGED <<port, timer, lost, net, table, tick, sweep, locked>>

Restart(a) ==
    /\ a \notin up
    /\ up' = up \union {a}
    /\ life' = [life EXCEPT ![a] = 0]
    /\ timer' = [timer EXCEPT ![a] = make_timer(First, Period)]
    /\ \E p \in Ports : port' = [port EXCEPT ![a] = p]
    /\ UNCHANGED <<lost, crashes, net, table, tick, sweep, locked>>

-----------------------------------------------------------------------------
(* The workers.  Several can have an announcement in their hands.           *)

\* udp_datagram_from_remote up to the time it takes down.
Receive(d) ==
    /\ ~d.read
    /\ net' = (net \ {d}) \union {[d EXCEPT !.read = TRUE, !.age = 0]}
    /\ UNCHANGED <<peers, timer, table, tick, sweep, locked>>

\* Fault: the entry keeps the time of the first announcement.
StoreOnce(d) ==
    /\ d.read /\ ~locked
    /\ net' = net \ {d}
    /\ table' = IF tablahash_find(table, d.ip) # NoDatum THEN table
                ELSE tablahash_insert(table, [key |-> d.ip, port |-> d.port, age |-> d.age])
    /\ UNCHANGED <<peers, timer, tick, sweep, locked>>

\* ... and its insertion into the table.
Store(d) ==
    /\ d.read /\ ~locked
    /\ net' = net \ {d}
    /\ table' = tablahash_insert(table, [key |-> d.ip, port |-> d.port, age |-> d.age])
    /\ UNCHANGED <<peers, timer, tick, sweep, locked>>

\* The timer of the sweeps expires and check_nodes_timeouts reads the clock.
SweepReads ==
    /\ tick.left = 0
    /\ sweep = Idle
    /\ sweep' = 0
    /\ tick' = Again(tick)
    /\ UNCHANGED <<peers, timer, net, table, locked>>

\* Fault: the walk ends at the first entry that stays.
TooOldInFront(list) == {i \in DOMAIN list : \A h \in 1..i : list[h].age - sweep >= NodeTimeout}

\* The places of a chain that the running sweep clears.
TooOld(list) == {i \in DOMAIN list : list[i].age - sweep >= NodeTimeout}

\* One round of the walk, under the lock: a node is unlinked.
SweepDrops ==
    /\ sweep # Idle
    /\ \E b \in Buckets : \E i \in TooOld(table.elems[b]) :
         table' = [elems    |-> [table.elems EXCEPT ![b] = Unlinked(@, i)],
                   numElems |-> table.numElems - 1]
    /\ locked' = TRUE
    /\ UNCHANGED <<peers, timer, net, tick, sweep>>

\* The walk is over and the lock is free again.
SweepEnds ==
    /\ sweep # Idle
    /\ \A b \in Buckets : TooOld(table.elems[b]) = {}
    /\ sweep' = Idle
    /\ locked' = FALSE
    /\ UNCHANGED <<peers, timer, net, table, tick>>

\* An announcement, and the table, a second later.
Older(d) == [d EXCEPT !.age = @ + 1]
Aged(t) == [t EXCEPT !.elems = [b \in Buckets |-> [i \in DOMAIN @[b] |-> Older(@[b][i])]]]

\* A second passes.  Timers are served, and datagrams and workers get on, in
\* no more than MaxDelay seconds.
Tick ==
    /\ \A a \in up : timer[a].left > 0
    /\ \A d \in net : d.age < MaxDelay
    /\ tick.left > 0
    /\ sweep # MaxDelay
    /\ life' = [a \in Agents |-> IF life[a] < MaxLife(a) THEN life[a] + 1 ELSE life[a]]
    /\ timer' = [a \in Agents |-> IF a \in up THEN Elapse(timer[a]) ELSE timer[a]]
    /\ net' = {Older(d) : d \in net}
    /\ table' = Aged(table)
    /\ tick' = Elapse(tick)
    /\ sweep' = IF sweep = Idle THEN Idle ELSE sweep + 1
    /\ UNCHANGED <<up, port, lost, crashes, locked>>

Next ==
    \/ \E a \in Agents : Broadcast(a) \/ Crash(a) \/ Restart(a)
    \/ \E d \in net : Receive(d) \/ Store(d)
    \/ SweepReads
    \/ SweepDrops
    \/ SweepEnds
    \/ Tick

Spec == Init /\ [][Next]_vars

-----------------------------------------------------------------------------
(* What the directory promises.                                             *)

TypeOK ==
    /\ up \subseteq Agents
    /\ life \in [Agents -> Nat] /\ \A a \in Agents : life[a] <= MaxLife(a)
    /\ port \in [Agents -> Ports]
    /\ timer \in [Agents -> [left : 0..Period, every : {Period}]]
    /\ lost \in [Agents -> 0..MaxLost]
    /\ net \subseteq [ip : Keys, port : Ports, read : BOOLEAN, age : 0..MaxDelay]
    /\ \A b \in Buckets :
          table.elems[b] \in Seq([key : Keys, port : Ports, age : 0..Gone])
    /\ table.numElems \in Nat
    /\ tick \in [left : 0..SweepPeriod, every : {SweepPeriod}]
    /\ sweep \in 0..MaxDelay \union {Idle}
    /\ locked \in BOOLEAN /\ (locked => sweep # Idle)

\* An agent that has been up for a while is in the directory, with the port
\* it listens on, for as long as it stays up: no sweep drops it because an
\* announcement was lost, and no late announcement of its former life stays.
LiveIsListed ==
    \A a \in up : life[a] > Settled =>
        /\ tablahash_find(table, Ip[a]) # NoDatum
        /\ tablahash_find(table, Ip[a]).port = port[a]

\* An agent that has been down for a while is not.
SilentIsDropped ==
    \A a \in Agents \ up : life[a] >= Gone => tablahash_find(table, Ip[a]) = NoDatum

\* The count kept beside the chains is the number of data in them, and to
\* remove a key removes this datum and no other.
TableIsMap ==
    /\ Chained(table)
    /\ table.numElems = Cardinality({k \in Keys : tablahash_find(table, k) # NoDatum})
    /\ \A k \in Keys :
          Contents(tablahash_remove(table, k)) = [Contents(table) EXCEPT ![k] = NoDatum]

\* Chains and sweeps give the map of last announcements that is promised.
Peers == INSTANCE PeerMap WITH known <- Contents(table)
ImplementsPeerMap == Peers!Spec
=============================================================================
