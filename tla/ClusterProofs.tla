----------------------------- MODULE ClusterProofs -----------------------------
(***************************************************************************)
(* The invariant of the providers and the jobs that wait for them, for any *)
(* nodes, jobs, types, descriptors and plans.  It ties the providers'      *)
(* FIFOs, and what their tables have on record under open connections, to  *)
(* the place each job has reached in its plan.  From it: as long as no job *)
(* was timed out, jobs that ask in the order of the types do not wait for  *)
(* each other in a circle.  And a job that runs has on record, at every    *)
(* provider of its plan, what it asked for.                                *)
(***************************************************************************)
EXTENDS Cluster, WellFoundedInduction, TLAPS

Typed ==
    /\ plan \in [Jobs -> Seq(Steps)]
    /\ stage \in [Jobs -> Stages]
    /\ conn \in [Jobs -> Seq(Fds)]
    /\ queue \in [Nodes -> [Types -> Seq(Requests)]]
    /\ table \in [Nodes -> [Keys -> Entries]]
    /\ sock \in [Nodes -> [Fds -> Jobs \union {NoJob}]]
    /\ expired \in BOOLEAN

\* How far a job can be in its plan at each stage.
StageInv ==
    \A j \in Jobs :
        /\ plan[j] # <<>>
        /\ stage[j] \in {"new", "timedout"} => conn[j] = <<>>
        /\ stage[j] = "asking" => Len(conn[j]) < Len(plan[j])
        /\ stage[j] \in {"waiting", "answered"} => Len(conn[j]) \in 1..Len(plan[j])
        /\ stage[j] = "running" => Len(conn[j]) = Len(plan[j])
        /\ Len(conn[j]) <= Len(plan[j])

\* A connection a job has open is its own at the provider, and serves one
\* resource of its plan only.
ConnInv ==
    \A j \in Jobs : \A i \in 1..Len(conn[j]) :
        /\ sock[plan[j][i].node][conn[j][i]] = j
        /\ \A h \in 1..Len(conn[j]) :
              (conn[j][h] = conn[j][i] /\ plan[j][h].node = plan[j][i].node) => h = i

\* Every queued request is the one its job waits for, and is queued once.
QueueInv ==
    \A n \in Nodes, t \in Types : \A i \in 1..Len(queue[n][t]) :
        /\ At(queue[n][t][i].job, n, t, i)
        /\ \A h \in 1..Len(queue[n][t]) :
              queue[n][t][h].job = queue[n][t][i].job => h = i

\* What is on record under an open connection is what that connection was
\* opened for, and it is on record only once the job no longer waits for it.
Recorded(n, k, t) ==
    LET f == table[n][k].fd
        j == sock[n][f]
    IN  /\ f \in Fds
        /\ f = k[2]
        /\ j \in Jobs
        /\ \A i \in 1..Len(conn[j]) :
              (conn[j][i] = f /\ plan[j][i].node = n) =>
                  /\ plan[j][i].type = t
                  /\ i < Len(conn[j]) \/ stage[j] # "waiting"

TableInv ==
    \A n \in Nodes, k \in Keys, t \in Types :
        table[n][k].granted[t] > 0 => Recorded(n, k, t)

Placed == ConnInv /\ QueueInv /\ TableInv

IInv == Typed /\ StageInv /\ ConnInv /\ (~expired => Placed)

-----------------------------------------------------------------------------
(* The invariant.                                                           *)

\* At start no job has asked and no provider has a request or an entry.
LEMMA InitIInv == Init => IInv
<1> SUFFICES ASSUME Init PROVE IInv
  OBVIOUS
<1>1. plan \in [Jobs -> Seq(Steps)] /\ \A j \in Jobs : plan[j] # <<>>
  <2>1. \A j \in Jobs : Plans[j] \subseteq Seq(Steps) \ {<<>>}
    BY ClusterAssumption
  <2>2. \A j \in Jobs : plan[j] \in Plans[j]
    BY DEF Init
  <2> DEFINE U == UNION {Plans[j] : j \in Jobs}
  <2>3. plan \in [Jobs -> U]
    BY DEF Init
  <2> HIDE DEF U
  <2> QED
    BY <2>1, <2>2, <2>3
<1>2. NoEntry \in Entries
  BY DEF NoEntry, Entries
<1>3. Typed
  <2>1. stage \in [Jobs -> Stages] /\ expired \in BOOLEAN
    BY Zenon DEF Init, Stages
  <2>5. conn \in [Jobs -> Seq(Fds)]
    BY DEF Init
  <2>2. queue \in [Nodes -> [Types -> Seq(Requests)]]
    BY DEF Init
  <2>3. table \in [Nodes -> [Keys -> Entries]]
    BY <1>2 DEF Init
  <2>4. sock \in [Nodes -> [Fds -> Jobs \union {NoJob}]]
    BY DEF Init
  <2> QED
    BY <1>1, <2>1, <2>2, <2>3, <2>4, <2>5 DEF Typed
<1>4. StageInv
  BY <1>1 DEF Init, StageInv
<1>5. ConnInv /\ QueueInv
  BY DEF Init, ConnInv, QueueInv
<1>6. TableInv
  BY DEF Init, TableInv, NoEntry
<1> QED
  BY <1>3, <1>4, <1>5, <1>6 DEF IInv, Placed

\* The resource a connection of a job stands for.
LEMMA StepTypes ==
    ASSUME Typed, StageInv, NEW j \in Jobs, NEW i \in 1..Len(conn[j])
    PROVE  /\ i \in DOMAIN plan[j] /\ i \in DOMAIN conn[j]
           /\ plan[j][i].node \in Nodes /\ plan[j][i].type \in Types
           /\ plan[j][i].amount \in Nat
           /\ conn[j][i] \in Fds /\ <<j, conn[j][i]>> \in Keys
<1>1. plan[j] \in Seq(Steps) /\ conn[j] \in Seq(Fds) /\ Len(conn[j]) <= Len(plan[j])
  BY DEF Typed, StageInv
<1>2. i \in DOMAIN plan[j] /\ i \in DOMAIN conn[j] /\ plan[j][i] \in Steps /\ conn[j][i] \in Fds
  BY <1>1
<1> QED
  BY <1>2, Zenon DEF Steps, Keys

\* The job of a queued request waits.
LEMMA QueuedWaits ==
    ASSUME QueueInv, NEW n \in Nodes, NEW t \in Types, NEW i \in 1..Len(queue[n][t])
    PROVE  stage[queue[n][t][i].job] = "waiting"
<1>1. At(queue[n][t][i].job, n, t, i)
  BY Zenon DEF QueueInv
<1> QED
  BY <1>1 DEF At, Waits

\* A request came to the end of a FIFO.
Longer(n, t, req) ==
    /\ queue'[n][t][Len(queue[n][t]) + 1] = req
    /\ \A m \in Nodes, u \in Types : ~(m = n /\ u = t) => queue'[m][u] = queue[m][u]
    /\ \A m \in Nodes, u \in Types : \A a \in 1..Len(queue[m][u]) :
          queue'[m][u][a] = queue[m][u][a]
    /\ \A m \in Nodes, u \in Types : \A a \in 1..Len(queue'[m][u]) :
          (m = n /\ u = t /\ a = Len(queue[n][t]) + 1) \/ a \in 1..Len(queue[m][u])

LEMMA Enqueued ==
    ASSUME Typed, NEW n \in Nodes, NEW t \in Types, NEW req,
           queue' = [queue EXCEPT ![n][t] = Append(queue[n][t], req)]
    PROVE  Longer(n, t, req)
<1>1. queue[n][t] \in Seq(Requests)
  BY Zenon DEF Typed
<1>2. queue'[n][t] = Append(queue[n][t], req)
  BY Zenon DEF Typed
<1>3. \A m \in Nodes, u \in Types : ~(m = n /\ u = t) => queue'[m][u] = queue[m][u]
  BY Zenon DEF Typed
<1>4. PICK q : q = queue[n][t]
  OBVIOUS
<1>5. /\ Len(q) \in Nat /\ Len(Append(q, req)) = Len(q) + 1
      /\ Append(q, req)[Len(q) + 1] = req
      /\ \A a \in 1..Len(q) : Append(q, req)[a] = q[a]
  BY <1>1, <1>4
<1>6. \A a \in 1..(Len(q) + 1) : a = Len(q) + 1 \/ a \in 1..Len(q)
  BY <1>5
<1>7. ASSUME NEW m \in Nodes, NEW u \in Types
      PROVE  /\ \A a \in 1..Len(queue[m][u]) : queue'[m][u][a] = queue[m][u][a]
             /\ \A a \in 1..Len(queue'[m][u]) :
                   (m = n /\ u = t /\ a = Len(queue[n][t]) + 1) \/ a \in 1..Len(queue[m][u])
  <2>1. CASE m = n /\ u = t
    <3>1. queue'[m][u] = Append(q, req) /\ queue[m][u] = q
      BY <2>1, <1>2, <1>4, Zenon
    <3> QED
      BY <2>1, <3>1, <1>4, <1>5, <1>6, Zenon
  <2>2. CASE ~(m = n /\ u = t)
    BY <2>2, <1>3, Zenon
  <2> QED
    BY <2>1, <2>2, Zenon
<1>8. queue'[n][t][Len(queue[n][t]) + 1] = req
  BY <1>2, <1>4, <1>5, Zenon
<1> QED
  BY <1>3, <1>7, <1>8, Zenon DEF Longer

\* Steps that leave the FIFOs and the waiting jobs alone.
LEMMA QueueKept ==
    ASSUME Typed, QueueInv, queue' = queue, plan' = plan,
           \A j \in Jobs : stage[j] = "waiting" =>
               stage'[j] = "waiting" /\ conn'[j] = conn[j]
    PROVE  QueueInv'
<1> SUFFICES ASSUME NEW n \in Nodes, NEW t \in Types, NEW i \in 1..Len(queue[n][t])
             PROVE  /\ At(queue[n][t][i].job, n, t, i)'
                    /\ \A h \in 1..Len(queue[n][t]) :
                          queue[n][t][h].job = queue[n][t][i].job => h = i
  BY DEF QueueInv
<1> DEFINE j == queue[n][t][i].job
<1>1. queue[n][t][i] \in Requests
  BY DEF Typed
<1>2. j \in Jobs
  BY <1>1 DEF Requests
<1>3. At(j, n, t, i)
  BY DEF QueueInv
<1>4. stage[j] = "waiting"
  BY <1>3, Zenon DEF At, Waits
<1>5. stage'[j] = "waiting" /\ conn'[j] = conn[j]
  BY <1>2, <1>4, Zenon
<1>6. At(j, n, t, i)'
  BY <1>3, <1>5, Zenon DEF At, Waits, Asked, FdOf
<1> QED
  BY <1>6, Zenon DEF QueueInv

\* Steps that leave the connections alone, or close all of a job.
LEMMA ConnKept ==
    ASSUME ConnInv, plan' = plan,
           \A j \in Jobs : conn'[j] = conn[j] \/ Len(conn'[j]) = 0,
           \A j \in Jobs : \A i \in 1..Len(conn[j]) :
               sock'[plan[j][i].node][conn[j][i]] = sock[plan[j][i].node][conn[j][i]]
    PROVE  ConnInv'
<1> SUFFICES ASSUME NEW j \in Jobs, NEW i \in 1..Len(conn'[j])
             PROVE  /\ sock'[plan'[j][i].node][conn'[j][i]] = j
                    /\ \A h \in 1..Len(conn'[j]) :
                          (conn'[j][h] = conn'[j][i] /\ plan'[j][h].node = plan'[j][i].node)
                              => h = i
  BY Zenon DEF ConnInv
<1>4. Len(conn'[j]) # 0
  OBVIOUS
<1>1. conn'[j] = conn[j] /\ plan'[j] = plan[j] /\ i \in 1..Len(conn[j])
  BY <1>4, Zenon
<1>2. /\ sock[plan[j][i].node][conn[j][i]] = j
      /\ \A h \in 1..Len(conn[j]) :
            (conn[j][h] = conn[j][i] /\ plan[j][h].node = plan[j][i].node) => h = i
  BY <1>1, Zenon DEF ConnInv
<1>3. sock'[plan[j][i].node][conn[j][i]] = sock[plan[j][i].node][conn[j][i]]
  BY <1>1, Zenon
<1> QED
  BY <1>1, <1>2, <1>3, Zenon

\* A record stays good when its connection does and its job does not begin to
\* wait.
LEMMA RecordedKept ==
    ASSUME NEW n, NEW k, NEW t, Recorded(n, k, t), plan' = plan,
           table'[n][k].fd = table[n][k].fd,
           sock'[n][table[n][k].fd] = sock[n][table[n][k].fd],
           \A j \in Jobs :
               /\ conn'[j] = conn[j] \/ Len(conn'[j]) = 0
               /\ stage'[j] = "waiting" => stage[j] = "waiting"
    PROVE  Recorded(n, k, t)'
<1>1. PICK g, i : g = table[n][k].fd /\ i = sock[n][g]
  BY Zenon
<1>2. g = table'[n][k].fd /\ i = sock'[n][g]
  BY <1>1, Zenon
<1>3. /\ g \in Fds /\ g = k[2] /\ i \in Jobs
      /\ \A h \in 1..Len(conn[i]) :
            (conn[i][h] = g /\ plan[i][h].node = n) =>
                /\ plan[i][h].type = t
                /\ h < Len(conn[i]) \/ stage[i] # "waiting"
  BY <1>1, Zenon DEF Recorded
<1>4. /\ conn'[i] = conn[i] \/ Len(conn'[i]) = 0
      /\ stage[i] # "waiting" => stage'[i] # "waiting"
  BY <1>3, Zenon
<1>5. \A h \in 1..Len(conn'[i]) :
         (conn'[i][h] = g /\ plan'[i][h].node = n) =>
             /\ plan'[i][h].type = t
             /\ h < Len(conn'[i]) \/ stage'[i] # "waiting"
  <2>1. CASE conn'[i] = conn[i]
    BY <2>1, <1>3, <1>4, Zenon
  <2>2. CASE Len(conn'[i]) = 0
    BY <2>2
  <2> QED
    BY <2>1, <2>2, <1>4, Zenon
<1> QED
  BY <1>2, <1>3, <1>5, Zenon DEF Recorded

\* Steps that leave the records alone and let no job wait that did not.
LEMMA TableKept ==
    ASSUME Typed, TableInv, table' = table, sock' = sock, plan' = plan,
           \A j \in Jobs :
               /\ conn'[j] = conn[j] \/ Len(conn'[j]) = 0
               /\ stage'[j] = "waiting" => stage[j] = "waiting"
    PROVE  TableInv'
<1> SUFFICES ASSUME NEW n \in Nodes, NEW k \in Keys, NEW t \in Types,
                    table[n][k].granted[t] > 0
             PROVE  Recorded(n, k, t)'
  BY DEF TableInv
<1>1. Recorded(n, k, t)
  BY DEF TableInv
<1> QED
  BY <1>1, RecordedKept

\* Only the types need an argument for the steps of jobs that are timed out.
LEMMA RequestIInv ==
    ASSUME IInv, NEW j \in Jobs, Request(j)
    PROVE  IInv'
<1>4. /\ plan' = plan /\ conn' = conn /\ queue' = queue /\ table' = table /\ sock' = sock
      /\ expired' = expired
  BY Zenon DEF Request, pool
<1>1. Typed'
  BY <1>4 DEF Request, IInv, Typed, Stages
<1>2. StageInv'
  BY <1>4 DEF Request, IInv, StageInv, Typed
<1>5. ConnInv'
  BY <1>4, ConnKept, Zenon DEF IInv
<1>8. \A i \in Jobs : stage'[i] = stage[i] \/ (stage[i] # "waiting" /\ stage'[i] # "waiting")
  BY DEF Request, IInv, Typed
<1> SUFFICES ASSUME ~expired PROVE Placed'
  BY <1>1, <1>2, <1>4, <1>5, Zenon DEF IInv
<1>3. Placed /\ Typed
  BY Zenon DEF IInv
<1>6. QueueInv'
  BY <1>3, <1>4, <1>8, QueueKept, Zenon DEF Placed
<1>7. TableInv'
  BY <1>3, <1>4, <1>8, TableKept, Zenon DEF Placed
<1> QED
  BY <1>5, <1>6, <1>7 DEF Placed

\* The client of a job takes GRANTED and goes on to the next resource of its plan.
LEMMA GrantedIInv ==
    ASSUME IInv, NEW j \in Jobs, Granted(j)
    PROVE  IInv'
<1>4. /\ plan' = plan /\ conn' = conn /\ queue' = queue /\ table' = table /\ sock' = sock
      /\ expired' = expired
  BY Zenon DEF Granted, pool
<1>1. Typed'
  BY <1>4 DEF Granted, IInv, Typed, Stages
<1>2. StageInv'
  BY <1>4 DEF Granted, IInv, StageInv, Typed
<1>5. ConnInv'
  BY <1>4, ConnKept, Zenon DEF IInv
<1>8. \A i \in Jobs : stage'[i] = stage[i] \/ (stage[i] # "waiting" /\ stage'[i] # "waiting")
  BY DEF Granted, IInv, Typed
<1> SUFFICES ASSUME ~expired PROVE Placed'
  BY <1>1, <1>2, <1>4, <1>5, Zenon DEF IInv
<1>3. Placed /\ Typed
  BY Zenon DEF IInv
<1>6. QueueInv'
  BY <1>3, <1>4, <1>8, QueueKept, Zenon DEF Placed
<1>7. TableInv'
  BY <1>3, <1>4, <1>8, TableKept, Zenon DEF Placed
<1> QED
  BY <1>5, <1>6, <1>7 DEF Placed

\* A job that ran closes its connections: it waits for nothing any more.
LEMMA FinishIInv ==
    ASSUME IInv, NEW j \in Jobs, Finish(j)
    PROVE  IInv'
<1> USE DEF Finish, pool
<1>1. Typed'
  BY DEF IInv, Typed, Stages
<1>2. StageInv'
  BY DEF IInv, StageInv, Typed
<1>4. Len(conn'[j]) = 0 /\ \A i \in Jobs \ {j} : conn'[i] = conn[i]
  BY DEF IInv, Typed
<1>5. ConnInv'
  BY <1>4, ConnKept, Zenon DEF IInv
<1> SUFFICES ASSUME ~expired PROVE Placed'
  BY <1>1, <1>2, <1>5 DEF IInv
<1>3. Placed /\ Typed
  BY DEF IInv
<1>6. QueueInv'
  BY <1>3, <1>4, QueueKept DEF Placed, Typed
<1>7. TableInv'
  BY <1>3, <1>4, TableKept DEF Placed, Typed
<1> QED
  BY <1>5, <1>6, <1>7 DEF Placed

\* Jobs are timed out: from here on IInv promises nothing of the queues and tables.
LEMMA TimeoutIInv ==
    ASSUME IInv, NEW S \in SUBSET Jobs, Timeout(S)
    PROVE  IInv'
<1>1. Typed'
  BY DEF IInv, Typed, Stages, Timeout, pool
<1>2. StageInv'
  BY DEF IInv, Typed, StageInv, Timeout, pool
<1>3. \A j \in Jobs : conn'[j] = conn[j] \/ Len(conn'[j]) = 0
  BY DEF Timeout
<1>4. ConnInv'
  BY <1>3, ConnKept, Zenon DEF IInv, Timeout, pool
<1> QED
  BY <1>1, <1>2, <1>4 DEF IInv, Timeout

\* The provider has accepted on a descriptor no connection uses and no record
\* names, and the job had no request in any queue.
LEMMA ReserveIInv ==
    ASSUME IInv, NEW j \in Jobs, NEW f \in Fds, Reserve(j, f)
    PROVE  IInv'
<1> DEFINE l == Len(conn[j])
           next == plan[j][l + 1]
           req == [job |-> j, fd |-> f, amount |-> next.amount]
<1>1. expired' = expired /\ plan' = plan /\ table' = table
  BY Zenon DEF Reserve
<1>2. Typed /\ StageInv
  BY DEF IInv
<1>3. stage[j] = "asking" /\ l < Len(plan[j]) /\ l \in Nat
  <2>1. stage[j] = "asking"
    BY Zenon DEF Reserve
  <2>2. l \in Nat
    BY <1>2 DEF Typed
  <2> QED
    BY <1>2, <2>1, <2>2 DEF StageInv
<1>4. next \in Steps
  BY <1>2, <1>3 DEF Typed
<1>5. PICK n \in Nodes, t \in Types : next.node = n /\ next.type = t
  BY <1>4 DEF Steps
<1>6. /\ sock[n][f] = NoJob
      /\ stage' = [stage EXCEPT ![j] = "waiting"]
      /\ conn' = [conn EXCEPT ![j] = Append(conn[j], f)]
      /\ sock' = [sock EXCEPT ![n][f] = j]
      /\ queue' = [queue EXCEPT ![n][t] = Append(queue[n][t], req)]
      /\ req \in Requests
  BY <1>4, <1>5, Zenon DEF Reserve, Steps, Requests
<1> HIDE DEF req
<1>7. Typed'
  BY <1>1, <1>2, <1>5, <1>6 DEF Typed, Stages
<1>8. /\ Len(conn'[j]) = l + 1 /\ conn'[j][l + 1] = f
      /\ \A i \in 1..l : conn'[j][i] = conn[j][i]
      /\ \A i \in Jobs \ {j} : conn'[i] = conn[i]
  BY <1>2, <1>6 DEF Typed
<1>9. l = Len(conn[j])
  OBVIOUS
<1> HIDE DEF l
<1>10. StageInv'
  BY <1>1, <1>2, <1>3, <1>6, <1>8 DEF StageInv, Typed
<1>11. ConnInv
  BY DEF IInv
<1>12. \A i \in Jobs : \A h \in 1..Len(conn[i]) :
          ~(conn[i][h] = f /\ plan[i][h].node = n)
  <2>1. NoJob \notin Jobs
    BY ClusterAssumption, Zenon
  <2> SUFFICES ASSUME NEW i \in Jobs, NEW h \in 1..Len(conn[i]),
                      conn[i][h] = f, plan[i][h].node = n
               PROVE  FALSE
    BY Zenon
  <2>2. sock[plan[i][h].node][conn[i][h]] = i
    BY <1>11, Zenon DEF ConnInv
  <2> QED
    BY <2>1, <2>2, <1>6, Zenon
<1>13. plan[j][l + 1].node = n /\ plan[j][l + 1].type = t
  BY <1>5
<1>22. /\ sock'[n][f] = j
       /\ \A i \in Jobs : \A h \in 1..Len(conn[i]) :
             sock'[plan[i][h].node][conn[i][h]] = sock[plan[i][h].node][conn[i][h]]
  <2>1. \A m \in Nodes, g \in Fds : ~(m = n /\ g = f) => sock'[m][g] = sock[m][g]
    BY <1>2, <1>6, Zenon DEF Typed
  <2>2. sock'[n][f] = j
    BY <1>2, <1>6, Zenon DEF Typed
  <2> QED
    BY <2>1, <2>2, <1>2, <1>12, StepTypes, Zenon
<1>14. ConnInv'
  <2> SUFFICES ASSUME NEW i \in Jobs, NEW h \in 1..Len(conn'[i])
               PROVE  /\ sock'[plan[i][h].node][conn'[i][h]] = i
                      /\ \A g \in 1..Len(conn'[i]) :
                            (conn'[i][g] = conn'[i][h] /\ plan[i][g].node = plan[i][h].node)
                                => g = h
    BY <1>1, Zenon DEF ConnInv
  <2>1. CASE i # j
    <3>1. conn'[i] = conn[i] /\ h \in 1..Len(conn[i])
      BY <2>1, <1>8, Zenon
    <3>2. /\ sock[plan[i][h].node][conn[i][h]] = i
          /\ \A g \in 1..Len(conn[i]) :
                (conn[i][g] = conn[i][h] /\ plan[i][g].node = plan[i][h].node) => g = h
      BY <3>1, <1>11, Zenon DEF ConnInv
    <3>3. sock'[plan[i][h].node][conn[i][h]] = sock[plan[i][h].node][conn[i][h]]
      BY <3>1, <1>22, Zenon
    <3> QED
      BY <3>1, <3>2, <3>3, Zenon
  <2>2. CASE i = j /\ h = l + 1
    <3>1. conn'[j][h] = f /\ plan[j][h].node = n /\ sock'[n][f] = j
      BY <2>2, <1>8, <1>13, <1>22, Zenon
    <3>2. ASSUME NEW g \in 1..Len(conn'[j]), conn'[j][g] = f, plan[j][g].node = n
          PROVE  g = h
      <4>1. g \notin 1..l
        BY <3>2, <1>8, <1>9, <1>12, Zenon
      <4>2. g \in 1..(l + 1)
        BY <1>8, Zenon
      <4> QED
        BY <2>2, <4>1, <4>2, <1>3
    <3> QED
      BY <2>2, <3>1, <3>2, Zenon
  <2>3. CASE i = j /\ h \in 1..l
    <3>1. /\ sock[plan[j][h].node][conn[j][h]] = j
          /\ ~(conn[j][h] = f /\ plan[j][h].node = n)
      BY <2>3, <1>9, <1>11, <1>12, Zenon DEF ConnInv
    <3>2. sock'[plan[j][h].node][conn[j][h]] = j
      BY <2>3, <3>1, <1>9, <1>22, Zenon
    <3>3. conn'[j][h] = conn[j][h]
      BY <2>3, <1>8
    <3>4. ASSUME NEW g \in 1..Len(conn'[j]), conn'[j][g] = conn[j][h],
                 plan[j][g].node = plan[j][h].node
          PROVE  g = h
      <4>1. g # l + 1
        BY <3>1, <3>4, <1>8, <1>13, Zenon
      <4>2. g \in 1..l
        BY <4>1, <1>3, <1>8
      <4>3. conn[j][g] = conn[j][h]
        BY <4>2, <3>4, <1>8
      <4> QED
        BY <2>3, <3>4, <4>2, <4>3, <1>9, <1>11, Zenon DEF ConnInv
    <3> QED
      BY <2>3, <3>2, <3>3, <3>4, Zenon
  <2>4. l \in Nat /\ (i = j => h \in 1..(l + 1))
    BY <1>3, <1>8
  <2>5. i = j => h = l + 1 \/ h \in 1..l
    BY <2>4
  <2> QED
    BY <2>1, <2>2, <2>3, <2>5, Zenon
<1> SUFFICES ASSUME ~expired PROVE Placed'
  BY <1>1, <1>7, <1>10, <1>14 DEF IInv
<1>20. Placed
  BY DEF IInv
<1>15. \A m \in Nodes, u \in Types : \A a \in 1..Len(queue[m][u]) :
          queue[m][u][a].job \in Jobs \ {j}
  <2> SUFFICES ASSUME NEW m \in Nodes, NEW u \in Types, NEW a \in 1..Len(queue[m][u])
               PROVE  queue[m][u][a].job \in Jobs \ {j}
    OBVIOUS
  <2>1. queue[m][u][a] \in Requests
    BY <1>2 DEF Typed
  <2>2. stage[queue[m][u][a].job] = "waiting"
    BY <1>20, QueuedWaits, Zenon DEF Placed
  <2> QED
    BY <2>1, <2>2, <1>3, Zenon DEF Requests
<1>16. Longer(n, t, req)
  BY <1>2, <1>5, <1>6, Enqueued, Zenon
<1>17. req.job = j /\ req.fd = f
  BY DEF req
<1>18. QueueInv'
  <2> SUFFICES ASSUME NEW m \in Nodes, NEW u \in Types, NEW a \in 1..Len(queue'[m][u])
               PROVE  /\ At(queue[m][u][a].job, m, u, a)'
                      /\ \A h \in 1..Len(queue'[m][u]) :
                            queue'[m][u][h].job = queue'[m][u][a].job => h = a
    BY Zenon DEF QueueInv
  <2>1. CASE m = n /\ u = t /\ a = Len(queue[n][t]) + 1
    <3>1. queue'[m][u][a] = req
      BY <2>1, <1>16, Zenon DEF Longer
    <3>2. Waits(j, n, t)'
      BY <1>1, <1>2, <1>6, <1>8, <1>13, Zenon DEF Waits, Asked, Typed
    <3>3. FdOf(j)' = f
      BY <1>8 DEF FdOf
    <3>4. At(j, m, u, a)'
      BY <2>1, <3>1, <3>2, <3>3, <1>17, Zenon DEF At
    <3>5. ASSUME NEW h \in 1..Len(queue'[n][t]), queue'[n][t][h].job = j
          PROVE  h = a
      <4>1. h \notin 1..Len(queue[n][t])
        <5> SUFFICES ASSUME h \in 1..Len(queue[n][t]) PROVE FALSE
          BY Zenon
        <5>1. queue'[n][t][h] = queue[n][t][h]
          BY <1>5, <1>16, Zenon DEF Longer
        <5>2. queue[n][t][h].job # j
          BY <1>5, <1>15, Zenon
        <5> QED
          BY <5>1, <5>2, <3>5, Zenon
      <4> QED
        BY <2>1, <4>1, <1>5, <1>16, Zenon DEF Longer
    <3> QED
      BY <2>1, <3>1, <3>4, <3>5, <1>17, Zenon
  <2>2. CASE a \in 1..Len(queue[m][u])
    <3> DEFINE i == queue[m][u][a].job
    <3>1. queue'[m][u][a] = queue[m][u][a]
      BY <2>2, <1>16, Zenon DEF Longer
    <3>2. i \in Jobs \ {j}
      BY <2>2, <1>15
    <3>3. At(i, m, u, a)
      BY <2>2, <1>20, Zenon DEF Placed, QueueInv
    <3>4. stage'[i] = stage[i] /\ conn'[i] = conn[i]
      BY <3>2, <1>2, <1>6, <1>8, Zenon DEF Typed
    <3>5. At(i, m, u, a)'
      BY <3>1, <3>3, <3>4, <1>1, Zenon DEF At, Waits, Asked, FdOf
    <3>6. ASSUME NEW h \in 1..Len(queue'[m][u]), queue'[m][u][h].job = i
          PROVE  h = a
      <4>1. h \in 1..Len(queue[m][u])
        <5>1. ~(m = n /\ u = t /\ h = Len(queue[n][t]) + 1)
          BY <3>2, <3>6, <1>16, <1>17, Zenon DEF Longer
        <5> QED
          BY <5>1, <1>16, Zenon DEF Longer
      <4>2. queue[m][u][h].job = i
        BY <4>1, <3>6, <1>16, Zenon DEF Longer
      <4> QED
        BY <2>2, <4>1, <4>2, <1>20, Zenon DEF Placed, QueueInv
    <3> QED
      BY <3>1, <3>5, <3>6, Zenon
  <2> QED
    BY <2>1, <2>2, <1>16, Zenon DEF Longer
<1>19. TableInv'
  <2> SUFFICES ASSUME NEW m \in Nodes, NEW k \in Keys, NEW u \in Types,
                      table[m][k].granted[u] > 0
               PROVE  Recorded(m, k, u)'
    BY <1>1 DEF TableInv
  <2> DEFINE g == table[m][k].fd
             i == sock[m][g]
  <2>1. Recorded(m, k, u)
    BY <1>20 DEF Placed, TableInv
  <2>2. g \in Fds /\ g = k[2] /\ i \in Jobs
    BY <2>1, Zenon DEF Recorded
  <2>3. ~(m = n /\ g = f)
    BY <2>2, <1>6, ClusterAssumption, Zenon
  <2>4. sock'[m][g] = i
    BY <2>2, <2>3, <1>2, <1>5, <1>6, Zenon DEF Typed
  <2>5. ASSUME NEW h \in 1..Len(conn'[i]), conn'[i][h] = g, plan[i][h].node = m
        PROVE  plan[i][h].type = u /\ (h < Len(conn'[i]) \/ stage'[i] # "waiting")
    <3>1. CASE i # j
      <4>1. conn'[i] = conn[i] /\ stage'[i] = stage[i]
        BY <3>1, <2>2, <1>2, <1>6, <1>8, Zenon DEF Typed
      <4> QED
        BY <4>1, <2>1, <2>5, Zenon DEF Recorded
    <3>2. CASE i = j
      <4>1. h # l + 1
        BY <3>2, <2>3, <2>5, <1>8, <1>13, Zenon
      <4>2. h \in 1..l
        BY <3>2, <4>1, <1>3, <1>8
      <4>3. conn[j][h] = g
        BY <3>2, <4>2, <2>5, <1>8, Zenon
      <4>4. plan[j][h].type = u
        BY <3>2, <4>2, <4>3, <2>1, <2>5, <1>9, Zenon DEF Recorded
      <4>5. h < l + 1
        BY <4>2, <1>3
      <4>6. h < Len(conn'[i])
        BY <3>2, <4>5, <1>8, Zenon
      <4> QED
        BY <3>2, <4>4, <4>6, Zenon
    <3> QED
      BY <3>1, <3>2, Zenon
  <2> HIDE DEF i
  <2> QED
    BY <2>2, <2>4, <2>5, <1>1, Zenon DEF Recorded
<1> QED
  BY <1>14, <1>18, <1>19 DEF Placed

\* A record is made under the descriptor of the request.
LEMMA RecordFd ==
    \A e, t, req : Record(e, t, req).fd = req.fd
  BY DEF Record

\* The head of a FIFO belongs to a job that waits there on an open connection:
\* the record is made under that connection and the job is answered.
LEMMA GrantIInv ==
    ASSUME IInv, NEW n \in Nodes, NEW t \in Types, NEW p \in Fds \union {Unknown},
           Grant(n, t, p)
    PROVE  IInv'
<1>1. Typed /\ StageInv
  BY DEF IInv
<1>2. queue[n][t] \in Seq(Requests) /\ queue[n][t] # <<>>
  BY <1>1, Zenon DEF Typed, Grant, HeadFits
<1>3. PICK req \in Requests : req = Head(queue[n][t])
  BY <1>2
<1>4. PICK k \in Keys : k = <<req.job, p>>
  BY <1>3, Zenon DEF Keys, Requests
<1>5. /\ p \in PeerOf(n, req.fd)
      /\ queue' = [queue EXCEPT ![n][t] = Tail(queue[n][t])]
      /\ table' = [table EXCEPT ![n][k] = Record(table[n][k], t, req)]
      /\ stage' = [i \in Jobs |-> IF i \in Answered(n, req) THEN "answered" ELSE stage[i]]
      /\ plan' = plan /\ conn' = conn /\ sock' = sock /\ expired' = expired
  BY <1>3, <1>4, Zenon DEF Grant
<1>6. req.amount \in Nat \ {0} /\ req.fd \in Fds /\ req.job \in Jobs
  BY <1>3, Zenon DEF Requests
<1>7. Record(table[n][k], t, req) \in Entries
  <2>1. table[n][k].granted \in [Types -> Nat]
    BY <1>1, <1>4, Zenon DEF Typed, Entries
  <2> QED
    BY <2>1, <1>6 DEF Record, Entries
<1>8. Typed'
  <2>1. queue' \in [Nodes -> [Types -> Seq(Requests)]]
    BY <1>1, <1>2, <1>5 DEF Typed
  <2>2. table' \in [Nodes -> [Keys -> Entries]]
    BY <1>1, <1>4, <1>5, <1>7, Zenon DEF Typed
  <2>3. stage' \in [Jobs -> Stages]
    BY <1>1, <1>5 DEF Typed, Stages
  <2> QED
    BY <1>1, <1>5, <2>1, <2>2, <2>3, Zenon DEF Typed
<1>9. \A i \in Jobs : stage'[i] = stage[i]
                       \/ (stage[i] = "waiting" /\ stage'[i] = "answered")
  BY <1>5 DEF Answered
<1>10. StageInv'
  BY <1>1, <1>5, <1>9, Zenon DEF StageInv
<1>19. ConnInv'
  BY <1>5, ConnKept, Zenon DEF IInv
<1> SUFFICES ASSUME ~expired PROVE Placed'
  BY <1>5, <1>8, <1>10, <1>19 DEF IInv
<1>11. Placed
  BY DEF IInv
<1>12. PICK j \in Jobs : j = req.job
  BY <1>6
<1>13. queue[n][t][1] = req /\ 1 \in 1..Len(queue[n][t])
  BY <1>2, <1>3
<1>14. At(j, n, t, 1)
  BY <1>11, <1>12, <1>13, Zenon DEF Placed, QueueInv
<1> DEFINE l == Len(conn[j])
<1>15. /\ stage[j] = "waiting" /\ l \in 1..Len(conn[j])
       /\ plan[j][l].node = n /\ plan[j][l].type = t /\ conn[j][l] = req.fd
  <2>1. stage[j] = "waiting" /\ Asked(j).node = n /\ Asked(j).type = t /\ FdOf(j) = req.fd
    BY <1>13, <1>14 DEF At, Waits
  <2>2. l \in 1..Len(plan[j])
    BY <1>1, <2>1 DEF StageInv
  <2>3. l \in Nat
    BY <1>1 DEF Typed
  <2> QED
    BY <2>1, <2>2, <2>3 DEF Asked, FdOf
<1>16. sock[n][req.fd] = j /\ Up(n, req.fd)
  <2>1. sock[plan[j][l].node][conn[j][l]] = j
    BY <1>11, <1>15, Zenon DEF Placed, ConnInv
  <2>2. l \in DOMAIN conn[j]
    BY <1>1, <1>15 DEF Typed
  <2> QED
    BY <2>1, <2>2, <1>15, ClusterAssumption, Zenon DEF Up
<1>17. p = req.fd
  BY <1>5, <1>16 DEF PeerOf
<1>18. stage'[j] = "answered" /\ \A i \in Jobs \ {j} : stage'[i] = stage[i]
  BY <1>5, <1>12, <1>14, <1>15, Zenon DEF Answered, At, Waits, FdOf, Asked
<1>20. /\ Len(queue'[n][t]) = Len(queue[n][t]) - 1 /\ Len(queue[n][t]) \in Nat
       /\ \A a \in 1..Len(queue'[n][t]) : queue'[n][t][a] = queue[n][t][a + 1]
       /\ \A m \in Nodes, u \in Types :
             ~(m = n /\ u = t) => queue'[m][u] = queue[m][u]
  BY <1>1, <1>2, <1>5 DEF Typed
<1>21. QueueInv'
  <2> SUFFICES ASSUME NEW m \in Nodes, NEW u \in Types, NEW a \in 1..Len(queue'[m][u])
               PROVE  /\ At(queue[m][u][a].job, m, u, a)'
                      /\ \A h \in 1..Len(queue'[m][u]) :
                            queue'[m][u][h].job = queue'[m][u][a].job => h = a
    BY Zenon DEF QueueInv
  <2>1. PICK b \in 1..Len(queue[m][u]) :
            /\ queue'[m][u][a] = queue[m][u][b]
            /\ m = n /\ u = t => b = a + 1
    <3>1. CASE m = n /\ u = t
      <4>1. a \in 1..(Len(queue[n][t]) - 1)
        BY <3>1, <1>20
      <4>2. a + 1 \in 1..Len(queue[n][t])
        BY <4>1, <1>20
      <4>3. queue'[n][t][a] = queue[n][t][a + 1]
        BY <3>1, <1>20, Zenon
      <4> QED
        BY <3>1, <4>2, <4>3
    <3>2. CASE ~(m = n /\ u = t)
      BY <3>2, <1>20, Zenon
    <3> QED
      BY <3>1, <3>2
  <2>2. PICK i : i = queue[m][u][b].job
    OBVIOUS
  <2>3. At(i, m, u, b)
    BY <2>2, <1>11, Zenon DEF Placed, QueueInv
  <2>4. i \in Jobs
    <3>1. queue[m][u][b] \in Requests
      BY <1>1 DEF Typed
    <3> QED
      BY <2>2, <3>1, Zenon DEF Requests
  <2>5. i # j
    <3>1. CASE m = n /\ u = t
      <4>1. b # 1
        BY <3>1, <2>1, <1>20
      <4>2. \A h \in 1..Len(queue[n][t]) :
               queue[n][t][h].job = queue[n][t][1].job => h = 1
        BY <1>11, <1>13, Zenon DEF Placed, QueueInv
      <4> QED
        BY <4>1, <4>2, <3>1, <2>2, <1>12, <1>13, Zenon
    <3>2. CASE ~(m = n /\ u = t)
      BY <3>2, <2>3, <1>14, Zenon DEF At, Waits
    <3> QED
      BY <3>1, <3>2
  <2>6. At(i, m, u, a)'
    BY <2>1, <2>3, <2>4, <2>5, <1>5, <1>18, Zenon DEF At, Waits, Asked, FdOf
  <2>7. ASSUME NEW h \in 1..Len(queue'[m][u]), queue'[m][u][h].job = queue'[m][u][a].job
        PROVE  h = a
    <3>1. CASE m = n /\ u = t
      <4>1. /\ h + 1 \in 1..Len(queue[n][t]) /\ a + 1 \in 1..Len(queue[n][t])
            /\ queue[n][t][h + 1].job = queue[n][t][a + 1].job
        <5>1. a \in 1..(Len(queue[n][t]) - 1) /\ h \in 1..(Len(queue[n][t]) - 1)
          BY <3>1, <1>20
        <5>2. queue'[n][t][h].job = queue'[n][t][a].job
          BY <3>1, <2>7
        <5>3. /\ queue'[n][t][h] = queue[n][t][h + 1]
              /\ queue'[n][t][a] = queue[n][t][a + 1]
          BY <5>1, <1>20, Zenon
        <5>4. queue[n][t][h + 1].job = queue[n][t][a + 1].job
          BY <5>2, <5>3, Zenon
        <5>5. h + 1 \in 1..Len(queue[n][t]) /\ a + 1 \in 1..Len(queue[n][t])
          BY <5>1, <1>20
        <5> QED
          BY <5>4, <5>5, Zenon
      <4>2. h + 1 = a + 1
        BY <4>1, <1>11, Zenon DEF Placed, QueueInv
      <4> QED
        BY <4>2
    <3>2. CASE ~(m = n /\ u = t)
      <4>1. queue'[m][u] = queue[m][u]
        BY <3>2, <1>20, Zenon
      <4> QED
        BY <4>1, <2>7, <1>11, Zenon DEF Placed, QueueInv
    <3> QED
      BY <3>1, <3>2
  <2> QED
    BY <2>1, <2>2, <2>6, <2>7, Zenon
<1>22. TableInv'
  <2> SUFFICES ASSUME NEW m \in Nodes, NEW e \in Keys, NEW u \in Types,
                      table'[m][e].granted[u] > 0
               PROVE  Recorded(m, e, u)'
    BY DEF TableInv
  <2>1. CASE m = n /\ e = k
    <3>1. table'[n][k] = Record(table[n][k], t, req)
      BY <1>1, <1>4, <1>5, Zenon DEF Typed
    <3>2. table'[n][k].fd = req.fd /\ req.fd = k[2]
      <4>1. table'[n][k].fd = req.fd
        <5>1. PICK r : r = table'[n][k]
          OBVIOUS
        <5>2. r.fd = req.fd
          BY <5>1, <3>1, RecordFd
        <5> QED
          BY <5>1, <5>2
      <4>2. k[2] = p
        BY <1>4
      <4> QED
        BY <4>1, <4>2, <1>17, Zenon
    <3>3. \A h \in 1..Len(conn[j]) :
             (conn[j][h] = req.fd /\ plan[j][h].node = n) => h = l
      <4>1. \A h \in 1..Len(conn[j]) :
               (conn[j][h] = conn[j][l] /\ plan[j][h].node = plan[j][l].node) => h = l
        BY <1>11, <1>15, Zenon DEF Placed, ConnInv
      <4> QED
        BY <4>1, <1>15, Zenon
    <3>4. u = t
      <4>1. SUFFICES ASSUME u # t PROVE FALSE
        OBVIOUS
      <4>2. table[n][k].granted \in [Types -> Nat]
        BY <1>1, <1>4, Zenon DEF Typed, Entries
      <4>3. table[n][k].granted[u] > 0
        <5>1. Record(table[n][k], t, req).granted[u] > 0
          BY <2>1, <3>1, Zenon
        <5>2. Record(table[n][k], t, req).granted[u] = table[n][k].granted[u]
          BY <4>1, <4>2, Zenon DEF Record
        <5> QED
          BY <5>1, <5>2, Zenon
      <4>4. Recorded(n, k, u)
        BY <4>3, <1>11 DEF Placed, TableInv
      <4> QED
        BY <4>1, <4>4, <3>2, <1>15, <1>16 DEF Recorded
    <3>5. table'[n][k].fd = req.fd /\ sock'[n][req.fd] = j
      BY <3>2, <1>5, <1>16, Zenon
    <3>6. \A h \in 1..Len(conn'[j]) :
             (conn'[j][h] = req.fd /\ plan'[j][h].node = n) =>
                 /\ plan'[j][h].type = u
                 /\ h < Len(conn'[j]) \/ stage'[j] # "waiting"
      <4>1. conn' = conn /\ plan' = plan /\ stage'[j] # "waiting"
        BY <1>5, <1>18, Zenon
      <4>2. plan[j][l].type = u
        BY <3>4, <1>15, Zenon
      <4> QED
        BY <4>1, <4>2, <3>3, Zenon
    <3> QED
      <4>1. Recorded(n, k, u)'
        BY <3>2, <3>5, <3>6, <1>6, Zenon DEF Recorded
      <4> QED
        BY <2>1, <4>1, Zenon
  <2>2. CASE ~(m = n /\ e = k)
    <3>1. table'[m][e] = table[m][e]
      BY <2>2, <1>1, <1>4, <1>5, Zenon DEF Typed
    <3>2. Recorded(m, e, u)
      BY <3>1, <1>11 DEF Placed, TableInv
    <3> QED
      BY <3>1, <3>2, <1>5, <1>9, RecordedKept, Zenon
  <2> QED
    BY <2>1, <2>2
<1> QED
  BY <1>19, <1>21, <1>22 DEF Placed

\* The descriptor that is closed is no longer a connection of any job, and
\* nothing stays on record under it.
LEMMA ReclaimIInv ==
    ASSUME IInv, NEW n \in Nodes, NEW f \in Fds, Reclaim(n, f)
    PROVE  IInv'
<1>1. Typed /\ StageInv
  BY DEF IInv
<1>2. /\ sock[n][f] # NoJob /\ ~Up(n, f)
      /\ table' = [table EXCEPT ![n] =
              [k \in Keys |-> IF table[n][k].fd = f THEN NoEntry ELSE table[n][k]]]
      /\ sock' = [sock EXCEPT ![n][f] = NoJob]
      /\ plan' = plan /\ stage' = stage /\ conn' = conn /\ queue' = queue
      /\ expired' = expired
  BY DEF Reclaim
<1>3. NoEntry \in Entries /\ \A t \in Types : ~(NoEntry.granted[t] > 0)
  BY DEF NoEntry, Entries
<1>4. Typed'
  <2>1. table' \in [Nodes -> [Keys -> Entries]]
    BY <1>1, <1>2, <1>3 DEF Typed
  <2>2. sock' \in [Nodes -> [Fds -> Jobs \union {NoJob}]]
    BY <1>1, <1>2 DEF Typed
  <2> QED
    BY <1>1, <1>2, <2>1, <2>2, Zenon DEF Typed
<1>5. StageInv'
  BY <1>1, <1>2 DEF StageInv
<1>7. ConnInv'
  <2> SUFFICES ASSUME NEW j \in Jobs, NEW i \in 1..Len(conn[j])
               PROVE  sock'[plan[j][i].node][conn[j][i]]
                          = sock[plan[j][i].node][conn[j][i]]
    BY <1>2, ConnKept, Zenon DEF IInv
  <2>1. sock[plan[j][i].node][conn[j][i]] = j
    BY Zenon DEF IInv, ConnInv
  <2>2. i \in DOMAIN conn[j] /\ j # NoJob
    BY <1>1, ClusterAssumption DEF Typed
  <2>3. PICK m, g : m = plan[j][i].node /\ g = conn[j][i]
    OBVIOUS
  <2>4. ~(m = n /\ g = f)
    BY <2>1, <2>2, <2>3, <1>2, Zenon DEF Up
  <2>5. sock'[m][g] = sock[m][g]
    BY <2>4, <1>1, <1>2 DEF Typed
  <2> QED
    BY <2>3, <2>5, Zenon
<1> SUFFICES ASSUME ~expired PROVE Placed'
  BY <1>2, <1>4, <1>5, <1>7 DEF IInv
<1>6. Placed
  BY DEF IInv
<1>8. QueueInv'
  BY <1>1, <1>2, <1>6, QueueKept DEF Placed
<1>9. TableInv'
  <2> SUFFICES ASSUME NEW m \in Nodes, NEW k \in Keys, NEW t \in Types,
                      table'[m][k].granted[t] > 0
               PROVE  Recorded(m, k, t)'
    BY DEF TableInv
  <2>1. table'[m][k] = table[m][k] /\ ~(m = n /\ table[m][k].fd = f)
    BY <1>1, <1>2, <1>3, Zenon DEF Typed
  <2>2. Recorded(m, k, t)
    BY <2>1, <1>6 DEF Placed, TableInv
  <2>3. sock'[m][table[m][k].fd] = sock[m][table[m][k].fd]
    BY <2>1, <2>2, <1>1, <1>2, Zenon DEF Typed, Recorded
  <2> QED
    BY <2>1, <2>2, <2>3, <1>2, RecordedKept, Zenon
<1> QED
  BY <1>7, <1>8, <1>9 DEF Placed

-----------------------------------------------------------------------------

\* The invariant holds in every state of the cluster.
THEOREM ClusterInvariant == Spec => []IInv
<1>1. IInv /\ [Next]_vars => IInv'
  <2> SUFFICES ASSUME IInv, [Next]_vars PROVE IInv'
    OBVIOUS
  <2>1. CASE UNCHANGED vars
    <3>1. /\ plan' = plan /\ stage' = stage /\ conn' = conn /\ queue' = queue
          /\ table' = table /\ sock' = sock /\ expired' = expired
      BY <2>1 DEF vars, pool
    <3>2. Typed' /\ StageInv'
      BY <3>1 DEF IInv, Typed, StageInv
    <3>4. ConnInv'
      BY <3>1, ConnKept, Zenon DEF IInv
    <3>3. ASSUME ~expired PROVE Placed'
      <4>1. QueueInv /\ TableInv
        BY <3>3 DEF IInv, Placed
      <4>3. QueueInv'
        BY <4>1, <3>1, QueueKept DEF IInv
      <4>4. TableInv'
        BY <4>1, <3>1, TableKept DEF IInv
      <4> QED
        BY <3>4, <4>3, <4>4 DEF Placed
    <3> QED
      BY <3>1, <3>2, <3>3, <3>4 DEF IInv
  <2>2. CASE Next
    BY <2>2, RequestIInv, GrantedIInv, FinishIInv, ReserveIInv, GrantIInv,
       ReclaimIInv, TimeoutIInv DEF Next
  <2> QED
    BY <2>1, <2>2
<1> QED
  BY <1>1, InitIInv, PTL DEF Spec


-----------------------------------------------------------------------------
(* The argument about one state.                                            *)

\* A set of naturals that is not empty has a least element.
LEMMA Least ==
    ASSUME NEW T, T \subseteq Nat, T # {}
    PROVE  \E x \in T : \A y \in T : x <= y
<1> DEFINE R == OpToRel(<, Nat)
<1>0. IsWellFoundedOn(R, Nat)
  BY NatLessThanWellFounded, Zenon
<1> HIDE DEF R
<1>1. PICK x \in T : \A y \in T : ~(<<y, x>> \in R)
  BY <1>0, WFMin, Zenon
<1>2. \A y \in T : ~(y < x)
  BY <1>1, Zenon DEF R, OpToRel
<1> QED
  BY <1>2

\* A waiting job holds only resources of a lower type than the one it asked
\* for, if it asks in order.
LEMMA HeldIsLower ==
    ASSUME Typed, StageInv, Placed, NEW k \in Jobs, Ordered(plan[k]), stage[k] = "waiting",
           NEW n \in Nodes, NEW t \in Types, Holds(k, n, t)
    PROVE  t < Asked(k).type
<1>1. PICK f \in Fds, e \in Keys :
          /\ sock[n][f] = k /\ Up(n, f)
          /\ table[n][e].fd = f
          /\ table[n][e].granted[t] > 0
  BY DEF Holds
<1>2. PICK i \in DOMAIN conn[k] : conn[k][i] = f /\ plan[k][i].node = n
  BY <1>1, Zenon DEF Up
<1>3. Recorded(n, e, t)
  BY <1>1 DEF Placed, TableInv
<1>4. i \in 1..Len(conn[k])
  BY <1>2 DEF Typed
<1>5. plan[k][i].type = t /\ i < Len(conn[k])
  BY <1>1, <1>2, <1>3, <1>4, Zenon DEF Recorded
<1>6. Len(conn[k]) \in 1..Len(plan[k])
  BY DEF StageInv
<1>7. i \in DOMAIN plan[k] /\ Len(conn[k]) \in DOMAIN plan[k]
  BY <1>4, <1>6 DEF Typed
<1> QED
  BY <1>5, <1>7, Zenon DEF Ordered, Asked

\* Jobs that ask in order are not in a circle.  Take a job of the circle that
\* waits for the highest type: nobody in the circle holds what it waits for,
\* so it and those before it in the FIFO wait for each other, and the first
\* of them waits for nobody.
LEMMA NoCircle ==
    ASSUME Typed, StageInv, Placed, NEW S \in SUBSET Jobs, CircularWait(S),
           \A j \in S : Ordered(plan[j])
    PROVE  FALSE
<1>0. NTypes \in Nat
  BY ClusterAssumption
<1>1. \A j \in S : stage[j] = "waiting" /\ Asked(j).type \in Types
  BY DEF CircularWait, Waits
<1> DEFINE Ranks == {NTypes - Asked(j).type : j \in S}
<1>2. Ranks \subseteq Nat /\ Ranks # {}
  BY <1>0, <1>1 DEF CircularWait, Types
<1>3. PICK j \in S : \A k \in S : Asked(k).type <= Asked(j).type
  <2>1. PICK x \in Ranks : \A y \in Ranks : x <= y
    BY <1>2, Least, Zenon
  <2>2. PICK j \in S : x = NTypes - Asked(j).type
    BY <2>1
  <2>3. ASSUME NEW k \in S PROVE Asked(k).type <= Asked(j).type
    <3>1. NTypes - Asked(j).type <= NTypes - Asked(k).type
      BY <2>1, <2>2
    <3> QED
      BY <3>1, <1>0, <1>1 DEF Types
  <2> QED
    BY <2>3
<1> DEFINE n == Asked(j).node
           t == Asked(j).type
<1>4. n \in Nodes /\ t \in Types
  BY <1>1 DEF CircularWait, Waits
<1>5. ASSUME NEW i \in S, Waits(i, n, t)
      PROVE  \E k \in S : Ahead(k, i, n, t)
  <2>1. PICK k \in S, m \in Nodes, u \in Types :
            Waits(i, m, u) /\ (Holds(k, m, u) \/ Ahead(k, i, m, u))
    BY DEF CircularWait
  <2>2. m = n /\ u = t
    BY <1>5, <2>1 DEF Waits
  <2>3. ~Holds(k, n, t)
    <3>1. SUFFICES ASSUME Holds(k, n, t) PROVE FALSE
      OBVIOUS
    <3>2. t < Asked(k).type
      BY <3>1, <1>1, <1>4, HeldIsLower, Zenon
    <3> QED
      BY <3>2, <1>1, <1>3, <1>4 DEF Types
  <2> QED
    BY <2>1, <2>2, <2>3
<1> DEFINE q == queue[n][t]
           Places == {a \in DOMAIN q : \E k \in S : At(k, n, t, a)}
<1>6. Waits(j, n, t)
  BY <1>1 DEF Waits
<1>7. Places # {}
  <2>1. PICK k \in S : Ahead(k, j, n, t)
    BY <1>5, <1>6
  <2> QED
    BY <2>1, Zenon DEF Ahead
<1>8. Places \subseteq Nat
  BY <1>4 DEF Typed
<1>9. PICK a \in Places : \A b \in Places : a <= b
  BY <1>7, <1>8, Least, Zenon
<1>10. PICK i \in S : At(i, n, t, a)
  BY <1>9
<1>11. PICK k \in S : Ahead(k, i, n, t)
  BY <1>5, <1>10, Zenon DEF At
<1>12. PICK b \in DOMAIN q : At(k, n, t, b) /\ b < a
  BY <1>9, <1>10, <1>11, Zenon DEF Ahead
<1> QED
  BY <1>8, <1>9, <1>12

\* For any number of nodes and jobs and any plans: until a job is timed out,
\* every circle of jobs that wait for each other at the providers has a job
\* that did not ask in the order of the types.
THEOREM OrderPrevents == Spec => []OrderPreventsCircularWait
<1>1. IInv => OrderPreventsCircularWait
  BY NoCircle DEF IInv, OrderPreventsCircularWait
<1> QED
  BY <1>1, ClusterInvariant, PTL
-----------------------------------------------------------------------------
(* What the jobs that run have on record.                                   *)

\* Every queued request asks for a resource of its job's plan, and until the
\* first timeout for the one its job waits for.
Planned(r, n, t) ==
    /\ \E h \in DOMAIN plan[r.job] :
          /\ plan[r.job][h].node = n /\ plan[r.job][h].type = t
          /\ plan[r.job][h].amount = r.amount
    /\ ~expired => Asked(r.job).amount = r.amount

ReqInv ==
    \A n \in Nodes, t \in Types : \A i \in 1..Len(queue[n][t]) :
        Planned(queue[n][t][i], n, t)

\* A record under a descriptor is found when that descriptor closes, and not
\* before.
FdInv ==
    \A n \in Nodes, k \in Keys : k[2] \in Fds => table[n][k].fd \in {k[2], NoFd}

\* Resource i of job j is on record.
Has(j, i) ==
    table[plan[j][i].node][<<j, conn[j][i]>>].granted[plan[j][i].type] >= plan[j][i].amount

\* The answers that a job takes are for what it asked.
Sure(j) == ~expired \/ OnePerNode(plan[j])

BackInv ==
    \A j \in Jobs : \A i \in 1..Len(conn[j]) :
        Sure(j) /\ (i < Len(conn[j]) \/ stage[j] # "waiting") => Has(j, i)

Backed == ReqInv /\ FdInv /\ BackInv

\* Being at least something is transitive.
LEMMA AtLeast == \A x, y, z \in Nat : x >= z /\ y >= x => y >= z
  OBVIOUS

\* A resource stays on record while its connection stays and the record does not
\* shrink.
LEMMA HasKept ==
    ASSUME NEW j \in Jobs, NEW i, Has(j, i), plan' = plan, conn'[j][i] = conn[j][i],
           NEW m \in Nodes, NEW u \in Types, NEW k,
           m = plan[j][i].node, u = plan[j][i].type, k = <<j, conn[j][i]>>,
           table[m][k].granted[u] \in Nat, table'[m][k].granted[u] \in Nat,
           plan[j][i].amount \in Nat,
           table'[m][k].granted[u] >= table[m][k].granted[u]
    PROVE  Has(j, i)'
<1>1. PICK a \in Nat : a = plan[j][i].amount
  BY Zenon
<1>2. table[m][k].granted[u] >= a
  BY <1>1, Zenon DEF Has
<1>3. table'[m][k].granted[u] >= a
  <2>1. PICK x \in Nat, y \in Nat : x = table[m][k].granted[u] /\ y = table'[m][k].granted[u]
    BY Zenon
  <2>2. x >= a /\ y >= x
    BY <1>2, <2>1, Zenon
  <2>3. y >= a
    BY <1>1, <2>1, <2>2, AtLeast, Zenon
  <2> QED
    BY <2>1, <2>3, Zenon
<1>4. k = <<j, conn'[j][i]>> /\ m = plan'[j][i].node /\ u = plan'[j][i].type /\ a = plan'[j][i].amount
  BY <1>1, Zenon
<1> QED
  BY <1>3, <1>4, Zenon DEF Has

\* What is on record is a natural number of units.
LEMMA GrantedTypes ==
    ASSUME Typed
    PROVE  \A n \in Nodes, k \in Keys, t \in Types : table[n][k].granted[t] \in Nat
<1> SUFFICES ASSUME NEW n \in Nodes, NEW k \in Keys, NEW t \in Types
             PROVE  table[n][k].granted[t] \in Nat
  OBVIOUS
<1>1. table[n][k] \in Entries
  BY DEF Typed
<1> QED
  BY <1>1 DEF Entries

\* The steps of the jobs that leave the providers alone.
LEMMA JobBacked ==
    ASSUME IInv, Backed, plan' = plan, queue' = queue, table' = table,
           expired => expired',
           \A j \in Jobs :
               /\ conn'[j] = conn[j] \/ Len(conn'[j]) = 0
               /\ stage[j] = "waiting" => stage'[j] = "waiting" \/ Len(conn'[j]) = 0
               /\ ~expired' /\ stage[j] = "waiting" => conn'[j] = conn[j]
    PROVE  Backed'
<1>1. ReqInv'
  <2> SUFFICES ASSUME NEW n \in Nodes, NEW t \in Types, NEW i \in 1..Len(queue[n][t]), NEW r,
                      r = queue[n][t][i]
               PROVE  Planned(r, n, t)'
    BY DEF ReqInv
  <2>1. Planned(r, n, t)
    BY DEF Backed, ReqInv
  <2>2. ASSUME ~expired' PROVE Asked(r.job)'.amount = r.amount
    <3>1. r \in Requests
      BY DEF IInv, Typed
    <3>2. r.job \in Jobs
      BY <3>1, Zenon DEF Requests
    <3>3. stage[r.job] = "waiting"
      <4>1. QueueInv
        BY <2>2, Zenon DEF IInv, Placed
      <4> QED
        BY <4>1, QueuedWaits, Zenon
    <3>4. conn'[r.job] = conn[r.job]
      BY <2>2, <3>2, <3>3, Zenon
    <3> QED
      BY <2>1, <2>2, <3>4, Zenon DEF Asked, Planned
  <2> QED
    BY <2>1, <2>2, Zenon DEF Planned
<1>2. FdInv'
  BY DEF Backed, FdInv
<1>3. BackInv'
  <2> SUFFICES ASSUME NEW j \in Jobs, NEW i \in 1..Len(conn'[j]), Sure(j)',
                      i < Len(conn'[j]) \/ stage'[j] # "waiting"
               PROVE  Has(j, i)'
    BY DEF BackInv
  <2>1. conn'[j] = conn[j] /\ i \in 1..Len(conn[j])
    OBVIOUS
  <2>2. Sure(j)
    BY DEF Sure
  <2>3. Has(j, i)
    BY <2>1, <2>2 DEF Backed, BackInv
  <2> QED
    BY <2>1, <2>3, Zenon DEF Has
<1> QED
  BY <1>1, <1>2, <1>3 DEF Backed

\* A new request is for the next resource of the plan, on a connection of its own.
LEMMA ReserveBacked ==
    ASSUME IInv, Backed, NEW j \in Jobs, NEW f \in Fds, Reserve(j, f)
    PROVE  Backed'
<1>1. PICK l : l = Len(conn[j])
  BY Zenon
<1>2. Typed /\ StageInv /\ stage[j] = "asking" /\ l \in Nat /\ l < Len(plan[j])
  <2>1. Typed /\ StageInv /\ stage[j] = "asking"
    BY Zenon DEF IInv, Reserve
  <2>2. l \in Nat
    BY <1>1, <2>1 DEF Typed
  <2> QED
    BY <1>1, <2>1, <2>2, Zenon DEF StageInv
<1>3. plan[j][l + 1] \in Steps /\ l + 1 \in DOMAIN plan[j]
  BY <1>2 DEF Typed
<1>4. PICK n \in Nodes, t \in Types, a \in Nat :
          plan[j][l + 1].node = n /\ plan[j][l + 1].type = t /\ plan[j][l + 1].amount = a
  BY <1>3, Zenon DEF Steps
<1>5. PICK req : req = [job |-> j, fd |-> f, amount |-> a]
  BY Zenon
<1>6. /\ stage' = [stage EXCEPT ![j] = "waiting"]
      /\ conn' = [conn EXCEPT ![j] = Append(conn[j], f)]
      /\ queue' = [queue EXCEPT ![n][t] = Append(queue[n][t], req)]
      /\ plan' = plan /\ table' = table /\ expired' = expired
  BY <1>1, <1>4, <1>5, Zenon DEF Reserve
<1>7. /\ Len(conn'[j]) = l + 1
      /\ \A i \in 1..l : conn'[j][i] = conn[j][i]
      /\ \A i \in Jobs \ {j} : conn'[i] = conn[i] /\ stage'[i] = stage[i]
      /\ stage'[j] = "waiting"
  BY <1>1, <1>2, <1>6 DEF Typed
<1>8. ReqInv'
  <2> SUFFICES ASSUME NEW m \in Nodes, NEW u \in Types, NEW i \in 1..Len(queue'[m][u]), NEW r,
                      r = queue'[m][u][i]
               PROVE  Planned(r, m, u)'
    BY DEF ReqInv
  <2>1. (m = n /\ u = t /\ r = req) \/ (i \in 1..Len(queue[m][u]) /\ r = queue[m][u][i])
    <3>1. Longer(n, t, req)
      BY <1>2, <1>6, Enqueued, Zenon
    <3> QED
      BY <3>1, Zenon DEF Longer
  <2>2. CASE m = n /\ u = t /\ r = req
    <3>1. r.job = j /\ r.amount = a
      BY <2>2, <1>5
    <3>2. Asked(j)' = plan[j][l + 1]
      BY <1>6, <1>7, Zenon DEF Asked
    <3> QED
      BY <2>2, <3>1, <3>2, <1>3, <1>4, <1>6, Zenon DEF Planned
  <2>3. CASE i \in 1..Len(queue[m][u]) /\ r = queue[m][u][i]
    <3>1. Planned(r, m, u)
      BY <2>3 DEF Backed, ReqInv
    <3>2. ASSUME ~expired PROVE Asked(r.job)' = Asked(r.job)
      <4>1. r.job \in Jobs
        <5>1. r \in Requests
          BY <2>3, <1>2 DEF Typed
        <5> QED
          BY <5>1, Zenon DEF Requests
      <4>2. stage[r.job] = "waiting"
        BY <2>3, <3>2, QueuedWaits, Zenon DEF IInv, Placed
      <4> QED
        BY <4>1, <4>2, <1>2, <1>6, <1>7, Zenon DEF Asked
    <3> QED
      BY <3>1, <3>2, <1>6, Zenon DEF Planned
  <2> QED
    BY <2>1, <2>2, <2>3, Zenon
<1>9. FdInv'
  BY <1>6, Zenon DEF Backed, FdInv
<1>10. BackInv'
  <2> SUFFICES ASSUME NEW i \in Jobs, NEW h \in 1..Len(conn'[i]), Sure(i)',
                      h < Len(conn'[i]) \/ stage'[i] # "waiting"
               PROVE  Has(i, h)'
    BY DEF BackInv
  <2>1. Sure(i)
    BY <1>6, Zenon DEF Sure
  <2>2. h \in 1..Len(conn[i]) /\ conn'[i][h] = conn[i][h]
    <3>1. CASE i # j
      BY <3>1, <1>7
    <3>2. CASE i = j
      <4>1. h \in 1..l
        BY <3>2, <1>2, <1>7
      <4> QED
        BY <3>2, <4>1, <1>1, <1>7, Zenon
    <3> QED
      BY <3>1, <3>2
  <2>3. h < Len(conn[i]) \/ stage[i] # "waiting"
    BY <1>2, <1>7, Zenon
  <2>4. Has(i, h)
    BY <2>1, <2>2, <2>3, Zenon DEF Backed, BackInv
  <2> QED
    BY <2>2, <2>4, <1>6, Zenon DEF Has
<1> QED
  BY <1>8, <1>9, <1>10 DEF Backed

\* A request that is granted answers the job that waits for just this resource;
\* the records only grow.
LEMMA GrantBacked ==
    ASSUME IInv, Backed, NEW n \in Nodes, NEW t \in Types, NEW p \in Fds \union {Unknown},
           Grant(n, t, p)
    PROVE  Backed'
<1>1. Typed /\ StageInv /\ ConnInv
  BY DEF IInv
<1>2. queue[n][t] \in Seq(Requests) /\ queue[n][t] # <<>>
  BY <1>1, Zenon DEF Typed, Grant, HeadFits
<1>3. PICK req \in Requests : req = Head(queue[n][t])
  BY <1>2
<1>4. PICK k \in Keys : k = <<req.job, p>>
  BY <1>3, Zenon DEF Keys, Requests
<1>5. /\ p \in PeerOf(n, req.fd)
      /\ queue' = [queue EXCEPT ![n][t] = Tail(queue[n][t])]
      /\ table' = [table EXCEPT ![n][k] = Record(table[n][k], t, req)]
      /\ stage' = [i \in Jobs |-> IF i \in Answered(n, req) THEN "answered" ELSE stage[i]]
      /\ plan' = plan /\ conn' = conn /\ sock' = sock /\ expired' = expired
  BY <1>3, <1>4, Zenon DEF Grant
<1>6. req.amount \in Nat \ {0} /\ req.fd \in Fds /\ req.job \in Jobs
  BY <1>3, Zenon DEF Requests
<1>7. Planned(req, n, t)
  <2>1. queue[n][t][1] = req /\ 1 \in 1..Len(queue[n][t])
    BY <1>2, <1>3
  <2> QED
    BY <2>1 DEF Backed, ReqInv
<1>8. /\ table'[n][k] = Record(table[n][k], t, req)
      /\ \A m \in Nodes, e \in Keys : ~(m = n /\ e = k) => table'[m][e] = table[m][e]
  BY <1>1, <1>4, <1>5, Zenon DEF Typed
<1>9. /\ table[n][k].granted \in [Types -> Nat]
      /\ table'[n][k].granted[t] = table[n][k].granted[t] + req.amount
      /\ \A u \in Types \ {t} : table'[n][k].granted[u] = table[n][k].granted[u]
      /\ table'[n][k].fd = req.fd
  <2>1. table[n][k].granted \in [Types -> Nat]
    BY <1>1, <1>4, Zenon DEF Typed, Entries
  <2>2. PICK e, g : e = table'[n][k] /\ g = table[n][k].granted
    OBVIOUS
  <2>3. e = [granted |-> [g EXCEPT ![t] = g[t] + req.amount], fd |-> req.fd]
    BY <1>8, <2>2, Zenon DEF Record
  <2>5. g \in [Types -> Nat]
    BY <2>1, <2>2, Zenon
  <2>6. e.granted = [g EXCEPT ![t] = g[t] + req.amount] /\ e.fd = req.fd
    BY <2>3
  <2>4. /\ e.granted[t] = g[t] + req.amount /\ e.fd = req.fd
        /\ \A u \in Types \ {t} : e.granted[u] = g[u]
    BY <2>5, <2>6, Zenon
  <2> QED
    BY <2>1, <2>2, <2>4, Zenon
<1>10. \A m \in Nodes, e \in Keys, u \in Types :
          /\ table[m][e].granted[u] \in Nat /\ table'[m][e].granted[u] \in Nat
          /\ table'[m][e].granted[u] >= table[m][e].granted[u]
  <2> SUFFICES ASSUME NEW m \in Nodes, NEW e \in Keys, NEW u \in Types
               PROVE  /\ table[m][e].granted[u] \in Nat /\ table'[m][e].granted[u] \in Nat
                      /\ table'[m][e].granted[u] >= table[m][e].granted[u]
    BY Zenon
  <2>1. table[m][e].granted[u] \in Nat
    BY <1>1, GrantedTypes, Zenon
  <2>2. PICK x \in Nat : x = table[m][e].granted[u]
    BY <2>1
  <2>3. table'[m][e].granted[u] = x \/ table'[m][e].granted[u] = x + req.amount
    <3>1. CASE m = n /\ e = k
      BY <2>2, <3>1, <1>9, Zenon
    <3>2. CASE ~(m = n /\ e = k)
      BY <2>2, <3>2, <1>8, Zenon
    <3> QED
      BY <3>1, <3>2, Zenon
  <2>4. PICK y \in Nat : y = req.amount
    BY <1>6
  <2>5. x + y \in Nat /\ x + y >= x /\ x >= x
    OBVIOUS
  <2> QED
    BY <2>1, <2>2, <2>3, <2>4, <2>5, Zenon
<1>11. \A i \in Jobs : stage'[i] = stage[i] \/ (stage'[i] = "answered" /\ i \in Answered(n, req))
  BY <1>5, Zenon
<1>12. ReqInv'
  <2> SUFFICES ASSUME NEW m \in Nodes, NEW u \in Types, NEW i \in 1..Len(queue'[m][u]), NEW r,
                      r = queue'[m][u][i]
               PROVE  Planned(r, m, u)'
    BY DEF ReqInv
  <2>1. PICK h \in 1..Len(queue[m][u]) : r = queue[m][u][h]
    <3>1. CASE m = n /\ u = t
      <4>1. queue'[m][u] = Tail(queue[m][u]) /\ queue[m][u] \in Seq(Requests) /\ queue[m][u] # <<>>
        BY <3>1, <1>1, <1>2, <1>5, Zenon DEF Typed
      <4>2. i + 1 \in 1..Len(queue[m][u]) /\ r = queue[m][u][i + 1]
        BY <4>1
      <4> QED
        BY <4>2, Zenon
    <3>2. CASE ~(m = n /\ u = t)
      <4>1. queue'[m][u] = queue[m][u]
        BY <3>2, <1>1, <1>5, Zenon DEF Typed
      <4> QED
        BY <4>1
    <3> QED
      BY <3>1, <3>2, Zenon
  <2>2. Planned(r, m, u)
    BY <2>1 DEF Backed, ReqInv
  <2> QED
    BY <2>2, <1>5, Zenon DEF Planned, Asked
<1>13. FdInv'
  <2> SUFFICES ASSUME NEW m \in Nodes, NEW e \in Keys, e[2] \in Fds
               PROVE  table'[m][e].fd \in {e[2], NoFd}
    BY DEF FdInv
  <2>1. CASE m = n /\ e = k
    <3>1. e[2] = p
      BY <2>1, <1>4
    <3>2. p = req.fd
      BY <3>1, <1>5, ClusterAssumption, Zenon DEF PeerOf
    <3> QED
      BY <2>1, <3>1, <3>2, <1>9, Zenon
  <2>2. CASE ~(m = n /\ e = k)
    BY <2>2, <1>8 DEF Backed, FdInv
  <2> QED
    BY <2>1, <2>2, Zenon
<1>14. BackInv'
  <2> SUFFICES ASSUME NEW j \in Jobs, NEW i \in 1..Len(conn[j]), Sure(j),
                      i < Len(conn[j]) \/ stage'[j] # "waiting"
               PROVE  Has(j, i)'
    BY <1>5, Zenon DEF BackInv, Sure
  <2>1. /\ i \in DOMAIN plan[j] /\ i \in DOMAIN conn[j]
        /\ plan[j][i].node \in Nodes /\ plan[j][i].type \in Types
        /\ plan[j][i].amount \in Nat
        /\ conn[j][i] \in Fds /\ <<j, conn[j][i]>> \in Keys
    BY <1>1, StepTypes, Zenon
  <2>2. CASE i < Len(conn[j]) \/ stage[j] # "waiting"
    <3>1. Has(j, i)
      BY <2>2 DEF Backed, BackInv
    <3>2. PICK m \in Nodes, u \in Types, e \in Keys :
              m = plan[j][i].node /\ u = plan[j][i].type /\ e = <<j, conn[j][i]>>
      BY <2>1, Zenon
    <3>3. /\ table[m][e].granted[u] \in Nat /\ table'[m][e].granted[u] \in Nat
          /\ table'[m][e].granted[u] >= table[m][e].granted[u]
      BY <1>10, Zenon
    <3>4. plan' = plan /\ conn'[j][i] = conn[j][i] /\ plan[j][i].amount \in Nat
      BY <2>1, <1>5, Zenon
    <3> QED
      BY <3>1, <3>2, <3>3, <3>4, HasKept, Zenon
  <2>3. CASE i = Len(conn[j]) /\ stage[j] = "waiting"
    <3>1. j \in Answered(n, req)
      BY <2>3, <1>11
    <3>2. j = req.job /\ plan[j][i].node = n /\ conn[j][i] = req.fd
      BY <2>3, <3>1, Zenon DEF Answered, Asked, FdOf
    <3>3. plan[j][i].type = t /\ plan[j][i].amount = req.amount
      <4>1. CASE ~expired
        <5>1. At(j, n, t, 1)
          <6>1. queue[n][t][1] = req /\ 1 \in 1..Len(queue[n][t])
            BY <1>2, <1>3
          <6> QED
            BY <3>2, <4>1, <6>1, Zenon DEF IInv, Placed, QueueInv
        <5> QED
          BY <2>3, <3>2, <4>1, <5>1, <1>7, Zenon DEF At, Waits, Asked, Planned
      <4>2. CASE OnePerNode(plan[j])
        <5>1. PICK h \in DOMAIN plan[j] :
                  /\ plan[j][h].node = n /\ plan[j][h].type = t
                  /\ plan[j][h].amount = req.amount
          BY <3>2, <1>7, Zenon DEF Planned
        <5>2. h = i
          BY <2>1, <3>2, <4>2, <5>1, Zenon DEF OnePerNode
        <5> QED
          BY <5>1, <5>2, Zenon
      <4> QED
        BY <4>1, <4>2, Zenon DEF Sure
    <3>4. sock[n][req.fd] = j /\ Up(n, req.fd)
      <4>1. sock[plan[j][i].node][conn[j][i]] = j
        BY <1>1, Zenon DEF ConnInv
      <4>2. sock[n][req.fd] = j
        BY <3>2, <4>1, Zenon
      <4> QED
        BY <2>1, <3>2, <4>2, ClusterAssumption, Zenon DEF Up
    <3>5. p = req.fd
      BY <3>4, <1>5, Zenon DEF PeerOf
    <3>6. k = <<j, conn[j][i]>>
      BY <3>2, <3>5, <1>4, Zenon
    <3>7. table'[n][k].granted[t] >= req.amount
      BY <1>6, <1>9
    <3> QED
      BY <3>2, <3>3, <3>6, <3>7, <1>5, Zenon DEF Has
  <2>4. Len(conn[j]) \in Nat
    BY <1>1 DEF Typed
  <2> QED
    BY <2>2, <2>3, <2>4
<1> QED
  BY <1>12, <1>13, <1>14 DEF Backed

\* A descriptor that closes is none of a job's connections: what the jobs have on
\* record stays.
LEMMA ReclaimBacked ==
    ASSUME IInv, Backed, NEW n \in Nodes, NEW f \in Fds, Reclaim(n, f)
    PROVE  Backed'
<1>1. Typed /\ StageInv /\ ConnInv
  BY DEF IInv
<1>2. /\ sock[n][f] # NoJob /\ ~Up(n, f)
      /\ table' = [table EXCEPT ![n] =
              [k \in Keys |-> IF table[n][k].fd = f THEN NoEntry ELSE table[n][k]]]
      /\ plan' = plan /\ stage' = stage /\ conn' = conn /\ queue' = queue
      /\ expired' = expired
  BY DEF Reclaim
<1>3. ReqInv'
  <2> SUFFICES ASSUME NEW m \in Nodes, NEW u \in Types, NEW i \in 1..Len(queue[m][u]), NEW r,
                      r = queue[m][u][i]
               PROVE  Planned(r, m, u)'
    BY <1>2, Zenon DEF ReqInv
  <2>1. Planned(r, m, u)
    BY DEF Backed, ReqInv
  <2> QED
    BY <2>1, <1>2, Zenon DEF Planned, Asked
<1>4. \A m \in Nodes, k \in Keys :
          \/ table'[m][k] = table[m][k]
          \/ m = n /\ table[m][k].fd = f /\ table'[m][k] = NoEntry
  BY <1>1, <1>2, Zenon DEF Typed
<1>5. FdInv'
  <2>1. NoEntry.fd = NoFd
    BY DEF NoEntry
  <2> QED
    BY <1>4, <2>1 DEF Backed, FdInv
<1>6. BackInv'
  <2> SUFFICES ASSUME NEW j \in Jobs, NEW i \in 1..Len(conn[j]), Sure(j),
                      i < Len(conn[j]) \/ stage[j] # "waiting"
               PROVE  Has(j, i)'
    BY <1>2 DEF BackInv, Sure
  <2>1. Has(j, i)
    BY DEF Backed, BackInv
  <2>2. /\ i \in DOMAIN conn[j] /\ plan[j][i].node \in Nodes
        /\ conn[j][i] \in Fds /\ <<j, conn[j][i]>> \in Keys
    BY <1>1, StepTypes, Zenon
  <2>3. PICK m \in Nodes, k \in Keys : m = plan[j][i].node /\ k = <<j, conn[j][i]>>
    BY <2>2
  <2>4. table'[m][k] = table[m][k]
    <3> SUFFICES ASSUME m = n, table[m][k].fd = f PROVE FALSE
      BY <1>4
    <3>1. table[m][k].fd \in {conn[j][i], NoFd}
      BY <2>2, <2>3, Zenon DEF Backed, FdInv
    <3>2. conn[j][i] = f
      BY <3>1, ClusterAssumption, Zenon
    <3>3. sock[n][f] = j
      <4>1. sock[plan[j][i].node][conn[j][i]] = j
        BY <1>1, Zenon DEF ConnInv
      <4> QED
        BY <2>3, <3>2, <4>1, Zenon
    <3> QED
      BY <2>2, <2>3, <3>2, <3>3, <1>2, Zenon DEF Up
  <2> QED
    BY <2>1, <2>3, <2>4, <1>2, Zenon DEF Has
<1> QED
  BY <1>3, <1>5, <1>6 DEF Backed

\* For any plans: a job runs only with every resource of its plan on record under
\* the connections that it will close (drain_queue, record_granted and the
\* GRANTED that starts the next request), until the first timeout, and for the
\* jobs that ask no node twice after it as well.
THEOREM RunBacked == Spec => []RunIsBacked
<1>1. Init => Backed
  <2> SUFFICES ASSUME Init PROVE Backed
    OBVIOUS
  <2>1. ReqInv
    BY DEF Init, ReqInv
  <2>2. BackInv
    BY DEF Init, BackInv
  <2>3. \A n \in Nodes, k \in Keys : table[n][k].fd = NoFd
    BY DEF Init, NoEntry
  <2> QED
    BY <2>1, <2>2, <2>3 DEF Backed, FdInv
<1>2. IInv /\ Backed /\ [Next]_vars => Backed'
  <2> SUFFICES ASSUME IInv, Backed, [Next]_vars PROVE Backed'
    OBVIOUS
  <2>1. CASE UNCHANGED vars
    BY <2>1, JobBacked DEF vars, pool
  <2>2. ASSUME NEW j \in Jobs, Request(j) \/ Granted(j) \/ Finish(j) PROVE Backed'
    <3>1. plan' = plan /\ queue' = queue /\ table' = table /\ expired' = expired
      BY <2>2 DEF Request, Granted, Finish, pool
    <3>2. /\ stage[j] # "waiting" /\ \A i \in Jobs \ {j} : stage'[i] = stage[i]
          /\ \A i \in Jobs : conn'[i] = conn[i] \/ (i = j /\ Len(conn'[i]) = 0)
      BY <2>2 DEF Request, Granted, Finish, IInv, Typed
    <3> QED
      BY <3>1, <3>2, JobBacked, Zenon
  <2>3. ASSUME NEW S \in SUBSET Jobs, Timeout(S) PROVE Backed'
    <3>1. plan' = plan /\ queue' = queue /\ table' = table /\ expired'
      BY <2>3 DEF Timeout, pool
    <3>2. \A i \in Jobs : /\ conn'[i] = conn[i] \/ Len(conn'[i]) = 0
                          /\ stage'[i] = stage[i] \/ Len(conn'[i]) = 0
      BY <2>3 DEF Timeout
    <3> QED
      BY <3>1, <3>2, JobBacked, Zenon
  <2> QED
    BY <2>1, <2>2, <2>3, ReserveBacked, GrantBacked, ReclaimBacked, Zenon DEF Next
<1>3. IInv /\ Backed => RunIsBacked
  <2> SUFFICES ASSUME IInv, Backed, NEW j \in Jobs, stage[j] = "running", Sure(j),
                      NEW i \in DOMAIN plan[j]
               PROVE  Has(j, i)
    BY Zenon DEF RunIsBacked, Sure, Has
  <2>1. i \in 1..Len(conn[j])
    <3>1. Len(conn[j]) = Len(plan[j]) /\ plan[j] \in Seq(Steps)
      BY DEF IInv, StageInv, Typed
    <3> QED
      BY <3>1
  <2> QED
    BY <2>1 DEF Backed, BackInv
<1> QED
  BY <1>1, <1>2, <1>3, ClusterInvariant, PTL DEF Spec
=============================================================================
