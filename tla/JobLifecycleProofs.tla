-------------------------- MODULE JobLifecycleProofs --------------------------
(***************************************************************************)
(* The jobs of a scheduler and its agent, for any number of jobs and any   *)
(* length of the queues: what each of the two believes about a job fits    *)
(* what the other believes and what is on its way between them, as long as *)
(* a job that asks for its status is not timed out.                        *)
(***************************************************************************)
EXTENDS JobLifecycle, TLAPS

\* No job that asks for its status can time out, and what is said about it
\* arrives before it has finished its work.
Calm == Heartbeat \subseteq Prompt /\ Heartbeat \intersect Timeouts = {}

Messages == {"granted", "denied", "timeout", "cancelled"}

Commands ==
    {Line("GET_NODES", 0), Line("eof", 0)} \union
    {Line(op, i) : op \in {"JOB_REQUEST", "JOB_STATUS", "JOB_RELEASE"}, i \in Ids}

Replies ==
    {Line("NODES", 0), Line("NODES", 1), Line("tcp_closed", 0)} \union
    {Line(op, i) : op \in {"JOB_GRANTED", "JOB_DENIED", "JOB_TIMEOUT", "WAITING"}, i \in Ids}

-----------------------------------------------------------------------------
(* What is on its way for one process.                                      *)

\* The process that a line makes a difference to: a job, the generator (0), or
\* none of them (1).
Owner(l) ==
    IF l.op \in {"GET_NODES", "NODES"} THEN 0
    ELSE IF l.op \in {"WAITING", "eof", "tcp_closed"} THEN 1 ELSE l.arg

\* The places of a queue that hold a line of process p, and what they say.
Lines(q, p) == {k \in DOMAIN q : Owner(q[k]) = p}
Ops(q, p) == {q[k].op : k \in Lines(q, p)}

\* The first line of process p says op, and no other does.
Leads(q, p, op) ==
    \E k \in Lines(q, p) :
        q[k].op = op /\ \A h \in Lines(q, p) \ {k} : k < h /\ q[h].op # op

-----------------------------------------------------------------------------
(* Where a job stands.                                                      *)

Quiet(i) ==
    /\ Ops(toAgent, i) = {} /\ Ops(toErlang, i) = {}
    /\ mail[i] = <<>> /\ status[i] = "none"

\* JOB_REQUEST is on its way, questions about it behind it.
Asked(i) ==
    /\ Leads(toAgent, i, "JOB_REQUEST")
    /\ Ops(toAgent, i) \subseteq {"JOB_REQUEST", "JOB_STATUS"}
    /\ Ops(toErlang, i) = {} /\ mail[i] = <<>> /\ status[i] = "none"

\* The agent has it.
Queued(i) ==
    /\ Ops(toAgent, i) \subseteq {"JOB_STATUS"}
    /\ Ops(toErlang, i) = {} /\ mail[i] = <<>> /\ status[i] = "waiting"

\* It is granted, and the job will hear of it: once, or once more for every
\* question it has asked.
Held(i) ==
    /\ Ops(toAgent, i) \subseteq {"JOB_STATUS"} /\ status[i] = "granted"
    /\ Ops(toErlang, i) \subseteq {"JOB_GRANTED"} /\ Range(mail[i]) \subseteq {"granted"}
    /\ Ops(toErlang, i) # {} \/ mail[i] # <<>>
    /\ i \notin Heartbeat =>
          \/ Leads(toErlang, i, "JOB_GRANTED") /\ mail[i] = <<>>
          \/ Ops(toErlang, i) = {}

\* It is denied or timed out, and the job will hear of it before anything else.
Refused(i) ==
    /\ Ops(toAgent, i) \subseteq {"JOB_STATUS"} /\ status[i] = "none" /\ mail[i] = <<>>
    /\ \E op \in {"JOB_DENIED", "JOB_TIMEOUT"} :
          /\ Leads(toErlang, i, op)
          /\ Ops(toErlang, i) \subseteq {op, "JOB_TIMEOUT"}
          /\ op = "JOB_TIMEOUT" => i \notin Heartbeat

\* ... and the coordinator has passed it on.
Told(i) ==
    /\ Ops(toAgent, i) \subseteq {"JOB_STATUS"} /\ status[i] = "none" /\ mail[i] # <<>>
    /\ \/ Head(mail[i]) = "denied" /\ Ops(toErlang, i) \subseteq {"JOB_TIMEOUT"}
       \/ /\ mail[i] = <<"timeout">> /\ i \notin Heartbeat
          /\ Ops(toErlang, i) = {}

Working(i) ==
    /\ Ops(toAgent, i) \subseteq {"JOB_STATUS"} /\ status[i] = "granted"
    /\ Ops(toErlang, i) \subseteq {"JOB_GRANTED"}
    /\ i \notin Heartbeat => Ops(toErlang, i) = {}

Done(i) ==
    /\ Ops(toAgent, i) \subseteq {"JOB_RELEASE"} /\ Ops(toErlang, i) = {}
    /\ \/ status[i] = "none"
       \/ status[i] = "granted" /\ Ops(toAgent, i) = {"JOB_RELEASE"}

Dead(i) ==
    /\ Ops(toAgent, i) \subseteq {"JOB_STATUS"} /\ status[i] = "none"
    /\ Ops(toErlang, i) \subseteq {"JOB_TIMEOUT"}

JobInv(i) ==
    /\ "JOB_STATUS" \in Ops(toAgent, i) => i \in Heartbeat
    /\ job[i] \in {"none", "spawned", "relaunch"} => Quiet(i)
    /\ job[i] = "waiting" => Asked(i) \/ Queued(i) \/ Held(i) \/ Refused(i) \/ Told(i)
    /\ job[i] = "working" => Working(i)
    /\ job[i] = "done" => Done(i)
    /\ job[i] = "dead" => Dead(i)
    /\ job[i] \in {"waiting", "working", "dead"} => i \in jobsMap

\* One question about the nodes, or its answer, is on its way while the generator
\* waits, and the coordinator knows that it does.
GenInv ==
    /\ gen = "wait" =>
          /\ genPid
          /\ \/ /\ Leads(toAgent, 0, "GET_NODES") /\ Ops(toAgent, 0) = {"GET_NODES"}
                /\ Ops(toErlang, 0) = {}
             \/ /\ Leads(toErlang, 0, "NODES") /\ Ops(toErlang, 0) = {"NODES"}
                /\ Ops(toAgent, 0) = {}
    /\ gen # "wait" => Ops(toAgent, 0) = {} /\ Ops(toErlang, 0) = {}

Types ==
    /\ coord \in {"up", "closed"}
    /\ jobsMap \subseteq Ids
    /\ genPid \in BOOLEAN
    /\ gen \in {"ask", "wait", "empty", "parsed"}
    /\ nextId \in Ids \union {1001 + MaxId}
    /\ gen # "ask" => nextId \in Ids
    /\ job \in [Ids -> {"none", "spawned", "waiting", "working", "relaunch", "done", "dead"}]
    /\ mail \in [Ids -> Seq(Messages)]
    /\ status \in [Ids -> {"none", "waiting", "granted"}]
    /\ link \in {"open", "dead"}
    /\ toAgent \in Seq(Commands)
    /\ toErlang \in Seq(Replies)

\* Who has hung up.
Ends ==
    /\ coord = "closed" => link = "dead"
    /\ coord = "up" => Line("eof", 0) \notin Range(toAgent)
    /\ link = "open" => Line("tcp_closed", 0) \notin Range(toErlang)

\* The jobs to come.
Fresh == \A i \in Ids : i >= nextId => job[i] = "none"

\* An agent that has died was not asked for what it had.
Requests == \A i \in Ids : "JOB_REQUEST" \in Ops(toAgent, i) => status[i] = "none"

LInv ==
    /\ Types /\ Ends /\ Fresh
    /\ coord = "closed" => Requests
    /\ coord = "up" => GenInv /\ \A i \in Ids : JobInv(i)
-----------------------------------------------------------------------------
(* The queues.                                                              *)

\* To send a line changes nothing for the other processes.
LEMMA AppendOther ==
    ASSUME NEW S, NEW q \in Seq(S), NEW l \in S, NEW p, Owner(l) # p
    PROVE  /\ Ops(Append(q, l), p) = Ops(q, p)
           /\ \A op : Leads(Append(q, l), p, op) <=> Leads(q, p, op)
<1>1. /\ \A k \in DOMAIN q : k \in DOMAIN Append(q, l) /\ Append(q, l)[k] = q[k]
      /\ \A k \in DOMAIN Append(q, l) : k \in DOMAIN q \/ Append(q, l)[k] = l
  OBVIOUS
<1>2. Lines(Append(q, l), p) = Lines(q, p)
  BY <1>1 DEF Lines
<1>3. \A k \in Lines(q, p) : Append(q, l)[k] = q[k]
  BY <1>1 DEF Lines
<1> QED
  BY <1>2, <1>3, Zenon DEF Ops, Leads

\* For its own it adds what the line says, behind the rest.
LEMMA AppendOwn ==
    ASSUME NEW S, NEW q \in Seq(S), NEW l \in S, NEW p, Owner(l) = p
    PROVE  /\ Ops(Append(q, l), p) = Ops(q, p) \union {l.op}
           /\ \A op : Leads(q, p, op) /\ l.op # op => Leads(Append(q, l), p, op)
           /\ Ops(q, p) = {} => Leads(Append(q, l), p, l.op)
<1>1. /\ DOMAIN q = 1..Len(q) /\ Len(q) \in Nat
      /\ DOMAIN Append(q, l) = 1..(Len(q) + 1)
      /\ \A k \in 1..Len(q) : Append(q, l)[k] = q[k]
      /\ Append(q, l)[Len(q) + 1] = l
  OBVIOUS
<1>2. Lines(Append(q, l), p) = Lines(q, p) \union {Len(q) + 1}
  BY <1>1 DEF Lines
<1>3. \A k \in Lines(q, p) : k \in 1..Len(q) /\ Append(q, l)[k] = q[k]
  BY <1>1 DEF Lines
<1>4. Ops(Append(q, l), p) = Ops(q, p) \union {l.op}
  BY <1>1, <1>2, <1>3 DEF Ops
<1>5. ASSUME NEW op, Leads(q, p, op), l.op # op PROVE Leads(Append(q, l), p, op)
  <2>1. PICK k \in Lines(q, p) :
            q[k].op = op /\ \A h \in Lines(q, p) \ {k} : k < h /\ q[h].op # op
    BY <1>5 DEF Leads
  <2>2. k \in Lines(Append(q, l), p) /\ Append(q, l)[k].op = op
    BY <1>2, <1>3, <2>1
  <2>3. \A h \in Lines(Append(q, l), p) \ {k} : k < h /\ Append(q, l)[h].op # op
    BY <1>1, <1>2, <1>3, <1>5, <2>1
  <2> QED
    BY <2>2, <2>3, Zenon DEF Leads
<1>6. ASSUME Ops(q, p) = {} PROVE Leads(Append(q, l), p, l.op)
  <2>1. Lines(q, p) = {}
    BY <1>6, Zenon DEF Ops
  <2> QED
    BY <1>1, <1>2, <2>1 DEF Leads
<1> QED
  BY <1>4, <1>5, <1>6

\* The places of a queue after its first line was taken.
LEMMA TailLines ==
    ASSUME NEW S, NEW q \in Seq(S), q # <<>>, NEW p
    PROVE  /\ \A k \in Lines(Tail(q), p) :
                 k \in Nat /\ k + 1 \in Lines(q, p) /\ Tail(q)[k] = q[k + 1]
           /\ \A k \in Lines(q, p) :
                 \/ k = 1
                 \/ /\ k \in Nat /\ k - 1 \in Nat
                    /\ k - 1 \in Lines(Tail(q), p) /\ Tail(q)[k - 1] = q[k]
           /\ 1 \in Lines(q, p) <=> Owner(Head(q)) = p
           /\ Head(q) = q[1]
<1>1. /\ DOMAIN q = 1..Len(q) /\ Len(q) \in Nat \ {0} /\ Head(q) = q[1]
      /\ DOMAIN Tail(q) = 1..(Len(q) - 1)
      /\ \A k \in 1..(Len(q) - 1) : Tail(q)[k] = q[k + 1]
  OBVIOUS
<1>2. \A k \in Lines(Tail(q), p) : k \in Nat /\ k + 1 \in Lines(q, p) /\ Tail(q)[k] = q[k + 1]
  BY <1>1 DEF Lines
<1>3. ASSUME NEW k \in Lines(q, p), k # 1
      PROVE  k \in Nat /\ k - 1 \in Nat /\ k - 1 \in Lines(Tail(q), p) /\ Tail(q)[k - 1] = q[k]
  <2>1. k \in 1..Len(q) /\ Owner(q[k]) = p
    BY <1>1 DEF Lines
  <2>2. k - 1 \in 1..(Len(q) - 1) /\ (k - 1) + 1 = k
    BY <1>1, <1>3, <2>1
  <2>3. Tail(q)[k - 1] = q[k]
    BY <1>1, <2>2
  <2> QED
    BY <1>1, <2>1, <2>2, <2>3 DEF Lines
<1>4. 1 \in Lines(q, p) <=> Owner(Head(q)) = p
  BY <1>1 DEF Lines
<1> QED
  BY <1>1, <1>2, <1>3, <1>4, Zenon

\* A queue with more lines says more.
LEMMA MoreOps ==
    ASSUME NEW q, NEW r, NEW p, NEW O,
           \A k \in Lines(q, p) : q[k].op \in O \/ \E h \in Lines(r, p) : r[h] = q[k]
    PROVE  Ops(q, p) \subseteq Ops(r, p) \union O
<1> SUFFICES ASSUME NEW x \in Ops(q, p), x \notin O PROVE x \in Ops(r, p)
  OBVIOUS
<1>1. PICK k \in Lines(q, p) : x = q[k].op
  BY DEF Ops
<1>2. PICK h \in Lines(r, p) : r[h] = q[k]
  BY <1>1
<1> QED
  BY <1>1, <1>2 DEF Ops

\* To take a line changes nothing for the other processes.
LEMMA TailOther ==
    ASSUME NEW S, NEW q \in Seq(S), q # <<>>, NEW p, Owner(Head(q)) # p
    PROVE  /\ Ops(Tail(q), p) = Ops(q, p)
           /\ \A op : Leads(Tail(q), p, op) <=> Leads(q, p, op)
<1>1. \A k \in Lines(Tail(q), p) :
          k \in Nat /\ k + 1 \in Lines(q, p) /\ Tail(q)[k] = q[k + 1]
  BY TailLines, Zenon
<1>2. \A k \in Lines(q, p) :
          k \in Nat /\ k - 1 \in Nat /\ k - 1 \in Lines(Tail(q), p) /\ Tail(q)[k - 1] = q[k]
  <2>1. 1 \notin Lines(q, p)
    BY TailLines
  <2>2. \A k \in Lines(q, p) : k = 1 \/
          (k \in Nat /\ k - 1 \in Nat /\ k - 1 \in Lines(Tail(q), p) /\ Tail(q)[k - 1] = q[k])
    BY TailLines, Zenon
  <2> QED
    BY <2>1, <2>2, Zenon
<1>3. Ops(Tail(q), p) = Ops(q, p)
  <2>1. \A k \in Lines(Tail(q), p) : \E h \in Lines(q, p) : q[h] = Tail(q)[k]
    BY <1>1, Zenon
  <2>2. \A k \in Lines(q, p) : \E h \in Lines(Tail(q), p) : Tail(q)[h] = q[k]
    BY <1>2, Zenon
  <2>3. Ops(Tail(q), p) \subseteq Ops(q, p) \union {}
    BY <2>1, MoreOps, Zenon
  <2>4. Ops(q, p) \subseteq Ops(Tail(q), p) \union {}
    BY <2>2, MoreOps, Zenon
  <2> QED
    BY <2>3, <2>4, Zenon
<1>4. ASSUME NEW op, Leads(q, p, op) PROVE Leads(Tail(q), p, op)
  <2>1. PICK k \in Lines(q, p) :
            q[k].op = op /\ \A h \in Lines(q, p) \ {k} : k < h /\ q[h].op # op
    BY <1>4 DEF Leads
  <2>2. k \in Nat /\ k - 1 \in Lines(Tail(q), p) /\ Tail(q)[k - 1].op = op
    BY <1>2, <2>1, Zenon
  <2>3. ASSUME NEW h \in Lines(Tail(q), p) \ {k - 1}
        PROVE  k - 1 < h /\ Tail(q)[h].op # op
    <3>1. h \in Nat /\ h + 1 \in Lines(q, p) /\ Tail(q)[h] = q[h + 1]
      BY <1>1, Zenon
    <3>2. h + 1 # k
      BY <2>2, <2>3, <3>1
    <3>3. k < h + 1 /\ q[h + 1].op # op
      BY <2>1, <3>1, <3>2
    <3>4. k - 1 < h
      BY <2>2, <3>1, <3>3
    <3> QED
      BY <3>1, <3>3, <3>4, Zenon
  <2> QED
    BY <2>2, <2>3, Zenon DEF Leads
<1>5. ASSUME NEW op, Leads(Tail(q), p, op) PROVE Leads(q, p, op)
  <2>1. PICK k \in Lines(Tail(q), p) :
            /\ Tail(q)[k].op = op
            /\ \A h \in Lines(Tail(q), p) \ {k} : k < h /\ Tail(q)[h].op # op
    BY <1>5, Zenon DEF Leads
  <2>2. k \in Nat /\ k + 1 \in Lines(q, p) /\ q[k + 1].op = op
    BY <1>1, <2>1, Zenon
  <2>3. ASSUME NEW h \in Lines(q, p) \ {k + 1} PROVE k + 1 < h /\ q[h].op # op
    <3>1. h \in Nat /\ h - 1 \in Nat /\ h - 1 \in Lines(Tail(q), p) /\ Tail(q)[h - 1] = q[h]
      BY <1>2, Zenon
    <3>2. h - 1 # k
      BY <2>2, <2>3, <3>1
    <3>3. k < h - 1 /\ Tail(q)[h - 1].op # op
      BY <2>1, <3>1, <3>2, Zenon
    <3>4. k + 1 < h
      BY <2>2, <3>1, <3>3
    <3> QED
      BY <3>1, <3>3, <3>4, Zenon
  <2> QED
    BY <2>2, <2>3 DEF Leads
<1> QED
  BY <1>3, <1>4, <1>5

\* For its own it takes away what the line says, and the line that leads is the
\* one that is taken.
LEMMA TailOwn ==
    ASSUME NEW S, NEW q \in Seq(S), q # <<>>, NEW p, Owner(Head(q)) = p
    PROVE  /\ Ops(q, p) = Ops(Tail(q), p) \union {Head(q).op}
           /\ \A op : Leads(q, p, op) => Head(q).op = op /\ op \notin Ops(Tail(q), p)
<1>1. \A k \in Lines(Tail(q), p) :
          k \in Nat /\ k + 1 \in Lines(q, p) /\ Tail(q)[k] = q[k + 1]
  <2>1. ASSUME NEW k \in Lines(Tail(q), p)
        PROVE  k \in Nat /\ k + 1 \in Lines(q, p) /\ Tail(q)[k] = q[k + 1]
    BY <2>1, TailLines, Zenon
  <2> QED
    BY <2>1, Zenon
<1>2. \A k \in Lines(q, p) :
          \/ k = 1
          \/ k \in Nat /\ k - 1 \in Nat /\ k - 1 \in Lines(Tail(q), p) /\ Tail(q)[k - 1] = q[k]
  BY TailLines, Zenon
<1>3. 1 \in Lines(q, p) /\ Head(q) = q[1]
  BY TailLines
<1>4. Ops(q, p) = Ops(Tail(q), p) \union {Head(q).op}
  <2>1. \A k \in Lines(Tail(q), p) : \E h \in Lines(q, p) : q[h] = Tail(q)[k]
    BY <1>1, Zenon
  <2>2. \A k \in Lines(q, p) : q[k] = Head(q) \/ \E h \in Lines(Tail(q), p) : Tail(q)[h] = q[k]
    BY <1>2, <1>3, Zenon
  <2>3. Ops(Tail(q), p) \subseteq Ops(q, p) \union {}
    BY <2>1, MoreOps, Zenon
  <2>4. Ops(q, p) \subseteq Ops(Tail(q), p) \union {Head(q).op}
    <3>1. PICK O : O = {Head(q).op}
      BY Zenon
    <3>2. \A k \in Lines(q, p) :
              q[k].op \in O \/ \E h \in Lines(Tail(q), p) : Tail(q)[h] = q[k]
      BY <2>2, <3>1, Zenon
    <3>3. Ops(q, p) \subseteq Ops(Tail(q), p) \union O
      BY <3>2, MoreOps, Zenon
    <3> QED
      BY <3>1, <3>3
  <2>5. Head(q).op \in Ops(q, p)
    BY <1>3 DEF Ops
  <2> QED
    BY <2>3, <2>4, <2>5
<1>5. ASSUME NEW op, Leads(q, p, op) PROVE Head(q).op = op /\ op \notin Ops(Tail(q), p)
  <2>1. PICK k \in Lines(q, p) :
            q[k].op = op /\ \A h \in Lines(q, p) \ {k} : k < h /\ q[h].op # op
    BY <1>5 DEF Leads
  <2>2. k = 1
    <3> SUFFICES ASSUME k # 1 PROVE FALSE
      OBVIOUS
    <3>1. k \in Nat /\ k - 1 \in Nat /\ k < 1
      BY <1>2, <1>3, <2>1
    <3> QED
      BY <3>1
  <2>3. ASSUME NEW h \in Lines(Tail(q), p) PROVE Tail(q)[h].op # op
    <3>1. h \in Nat /\ h + 1 \in Lines(q, p) /\ h # 0
      BY <1>1 DEF Lines
    <3>2. h + 1 \in Lines(q, p) \ {k}
      BY <2>2, <3>1
    <3> QED
      BY <1>1, <2>1, <3>2, Zenon
  <2> QED
    BY <1>3, <2>1, <2>2, <2>3, Zenon DEF Ops
<1> QED
  BY <1>4, <1>5
-----------------------------------------------------------------------------
(* One job.                                                                 *)

\* The queues q and r hold the same for process p.
Same(q, r, p) ==
    Ops(q, p) = Ops(r, p) /\ \A op : Leads(q, p, op) <=> Leads(r, p, op)

\* The numbers of the jobs are none of 0 and 1.
LEMMA IdTypes == 0 \notin Ids /\ 1 \notin Ids /\ Ids \subseteq Nat
  BY LifecycleAssumption DEF Ids

\* Whom a command is about.
LEMMA CommandTypes ==
    ASSUME NEW l \in Commands
    PROVE  /\ l = Line(l.op, l.arg)
           /\ l.op \in {"JOB_REQUEST", "JOB_STATUS", "JOB_RELEASE"} =>
                 l.arg \in Ids /\ Owner(l) = l.arg
           /\ l.op = "GET_NODES" => Owner(l) = 0
           /\ l.op = "eof" => Owner(l) = 1 /\ l = Line("eof", 0)
  BY DEF Commands, Line, Owner

\* Whom an answer is about.
LEMMA ReplyTypes ==
    ASSUME NEW l \in Replies
    PROVE  /\ l = Line(l.op, l.arg)
           /\ l.op \in {"JOB_GRANTED", "JOB_DENIED", "JOB_TIMEOUT"} =>
                 l.arg \in Ids /\ Owner(l) = l.arg
           /\ l.op = "NODES" => Owner(l) = 0 /\ l.arg \in 0..1
           /\ l.op \in {"WAITING", "tcp_closed"} => Owner(l) = 1
           /\ l.op = "tcp_closed" => l = Line("tcp_closed", 0)
  BY DEF Replies, Line, Owner

\* The commands and answers about a job.
LEMMA JobLines ==
    ASSUME NEW i \in Ids
    PROVE  /\ \A op \in {"JOB_REQUEST", "JOB_STATUS", "JOB_RELEASE"} :
                 Line(op, i) \in Commands /\ Owner(Line(op, i)) = i /\ Line(op, i).op = op
           /\ \A op \in {"JOB_GRANTED", "JOB_DENIED", "JOB_TIMEOUT"} :
                 Line(op, i) \in Replies /\ Owner(Line(op, i)) = i /\ Line(op, i).op = op
           /\ Line("WAITING", i) \in Replies /\ Owner(Line("WAITING", i)) = 1
  BY DEF Commands, Replies, Line, Owner

\* The others.
LEMMA OtherLines ==
    /\ Line("GET_NODES", 0) \in Commands /\ Owner(Line("GET_NODES", 0)) = 0
    /\ Line("GET_NODES", 0).op = "GET_NODES"
    /\ Line("eof", 0) \in Commands /\ Owner(Line("eof", 0)) = 1
    /\ \A n \in 0..1 : /\ Line("NODES", n) \in Replies /\ Owner(Line("NODES", n)) = 0
                       /\ Line("NODES", n).op = "NODES"
    /\ Line("tcp_closed", 0) \in Replies /\ Owner(Line("tcp_closed", 0)) = 1
<1>1. /\ Line("GET_NODES", 0) \in Commands /\ Owner(Line("GET_NODES", 0)) = 0
      /\ Line("GET_NODES", 0).op = "GET_NODES"
      /\ Line("eof", 0) \in Commands /\ Owner(Line("eof", 0)) = 1
      /\ Line("tcp_closed", 0) \in Replies /\ Owner(Line("tcp_closed", 0)) = 1
  BY DEF Commands, Replies, Line, Owner
<1>2. \A n \in 0..1 : /\ Line("NODES", n) \in Replies /\ Owner(Line("NODES", n)) = 0
                      /\ Line("NODES", n).op = "NODES"
  <2>1. 0..1 = {0, 1}
    OBVIOUS
  <2> QED
    BY <2>1 DEF Replies, Line, Owner
<1> QED
  BY <1>1, <1>2, Zenon

\* A job that a step has nothing to do with stays where it stands.
LEMMA SameJob ==
    ASSUME NEW i \in Ids, JobInv(i),
           Same(toAgent', toAgent, i), Same(toErlang', toErlang, i),
           mail'[i] = mail[i], status'[i] = status[i], job'[i] = job[i],
           i \in jobsMap' <=> i \in jobsMap
    PROVE  JobInv(i)'
<1>1. /\ Ops(toAgent', i) = Ops(toAgent, i) /\ Ops(toErlang', i) = Ops(toErlang, i)
      /\ \A op : Leads(toAgent', i, op) <=> Leads(toAgent, i, op)
      /\ \A op : Leads(toErlang', i, op) <=> Leads(toErlang, i, op)
  BY DEF Same
<1>2. /\ Quiet(i) => Quiet(i)'
      /\ Asked(i) => Asked(i)'
      /\ Queued(i) => Queued(i)'
  BY <1>1 DEF Quiet, Asked, Queued
<1>3. Held(i) => Held(i)'
  BY <1>1, Zenon DEF Held, Range
<1>4. Refused(i) => Refused(i)'
  BY <1>1 DEF Refused
<1>5. Told(i) => Told(i)'
  BY <1>1 DEF Told
<1>6. (Working(i) => Working(i)') /\ (Done(i) => Done(i)') /\ (Dead(i) => Dead(i)')
  BY <1>1 DEF Working, Done, Dead
<1> QED
  BY <1>1, <1>2, <1>3, <1>4, <1>5, <1>6, Zenon DEF JobInv
\* What Send does to the queue.
LEMMA SendEffect ==
    ASSUME Types, coord = "up", NEW op, NEW a, Send(op, a), Line(op, a) \in Commands, NEW p
    PROVE  /\ toAgent' = Append(toAgent, Line(op, a))
           /\ Owner(Line(op, a)) # p => Same(toAgent', toAgent, p)
<1>1. toAgent' = Append(toAgent, Line(op, a)) /\ toAgent \in Seq(Commands)
  BY DEF Send, Types
<1> QED
  BY <1>1, AppendOther DEF Same

\* A queue that is left alone.
LEMMA SameQueue == ASSUME NEW q, NEW p PROVE Same(q, q, p)
  BY DEF Same

\* The job processes: register, receive, finish and ask for the status.
LEMMA RegisterJob ==
    ASSUME Types, coord = "up", \A j \in Ids : JobInv(j),
           NEW i \in Ids, Register(i), UNCHANGED <<status, link>>, NEW j \in Ids
    PROVE  JobInv(j)'
<1>1. /\ Line("JOB_REQUEST", i) \in Commands /\ Owner(Line("JOB_REQUEST", i)) = i
      /\ Line("JOB_REQUEST", i).op = "JOB_REQUEST"
  BY JobLines
<1>2. Send("JOB_REQUEST", i) /\ UNCHANGED <<toErlang, mail, status>>
  BY DEF Register
<1>3. toAgent' = Append(toAgent, Line("JOB_REQUEST", i)) /\ toAgent \in Seq(Commands)
  BY <1>2 DEF Send, Types
<1>4. CASE j = i
  <2>1. Quiet(i) /\ job'[i] = "waiting" /\ i \in jobsMap'
    BY DEF Register, JobInv, Types
  <2>2. Ops(toAgent', i) = {"JOB_REQUEST"} /\ Leads(toAgent', i, "JOB_REQUEST")
    <3>1. Ops(toAgent, i) = {}
      BY <2>1 DEF Quiet
    <3> QED
      BY <1>1, <1>3, <3>1, AppendOwn
  <2>3. Asked(i)'
    BY <1>2, <2>1, <2>2 DEF Asked, Quiet
  <2> QED
    BY <1>4, <2>1, <2>2, <2>3 DEF JobInv
<1>5. CASE j # i
  <2>1. Same(toAgent', toAgent, j) /\ Same(toErlang', toErlang, j)
    BY <1>1, <1>2, <1>5, SendEffect, SameQueue
  <2>2. job'[j] = job[j] /\ (j \in jobsMap' <=> j \in jobsMap)
    BY <1>5 DEF Register, Types
  <2> QED
    BY <1>2, <2>1, <2>2, SameJob
<1> QED
  BY <1>4, <1>5

\* A job that reads a message of the coordinator (job_loop's receive).
LEMMA ReceiveJob ==
    ASSUME Types, \A j \in Ids : JobInv(j),
           NEW i \in Ids, Receive(i), UNCHANGED <<status, link>>, NEW j \in Ids
    PROVE  JobInv(j)'
<1>1. UNCHANGED <<toAgent, toErlang, status, jobsMap>>
  BY DEF Receive
<1>2. CASE j = i
  <2>1. /\ mail[i] # <<>> /\ mail'[i] = Tail(mail[i]) /\ mail[i] \in Seq(Messages)
        /\ job[i] = "waiting"
        /\ Head(mail[i]) = "granted" => job'[i] = "working"
        /\ Head(mail[i]) = "timeout" => job'[i] = "relaunch"
        /\ Head(mail[i]) = "denied" => job'[i] = "dead"
    <3>1. DOMAIN job = Ids /\ DOMAIN mail = Ids /\ mail[i] \in Seq(Messages)
      BY DEF Types
    <3> QED
      BY <3>1 DEF Receive
  <2>0. i \in jobsMap
    BY <2>1 DEF JobInv
  <2>2. Head(mail[i]) \in Range(mail[i])
    BY <2>1 DEF Range
  <2>3. Held(i) \/ Told(i)
    BY <2>1 DEF JobInv, Asked, Queued, Refused
  <2>4. CASE Held(i)
    <3>1. job'[i] = "working"
      BY <2>1, <2>2, <2>4 DEF Held
    <3>2. Working(i)'
      BY <1>1, <2>1, <2>4 DEF Held, Working
    <3> QED
      BY <1>1, <1>2, <2>0, <3>1, <3>2 DEF JobInv
  <2>5. CASE Told(i) /\ Head(mail[i]) = "denied"
    <3>1. job'[i] = "dead"
      BY <2>1, <2>5
    <3>2. Dead(i)'
      BY <1>1, <2>5 DEF Told, Dead
    <3> QED
      BY <1>1, <1>2, <2>0, <3>1, <3>2 DEF JobInv
  <2>6. CASE Told(i) /\ Head(mail[i]) # "denied"
    <3>1. /\ mail[i] = <<"timeout">> /\ i \notin Heartbeat /\ status[i] = "none"
          /\ Ops(toErlang, i) = {} /\ Ops(toAgent, i) \subseteq {"JOB_STATUS"}
      BY <2>6 DEF Told
    <3>2. Ops(toAgent, i) = {}
      BY <3>1 DEF JobInv
    <3>3. job'[i] = "relaunch" /\ mail'[i] = <<>>
      BY <2>1, <3>1
    <3>4. Quiet(i)'
      BY <1>1, <3>1, <3>2, <3>3 DEF Quiet
    <3> QED
      BY <1>1, <1>2, <3>2, <3>3, <3>4, Zenon DEF JobInv
  <2> QED
    BY <2>3, <2>4, <2>5, <2>6
<1>3. CASE j # i
  <2>1. mail'[j] = mail[j] /\ job'[j] = job[j]
    BY <1>3 DEF Receive, Types
  <2> QED
    BY <1>1, <2>1, SameJob, SameQueue
<1> QED
  BY <1>2, <1>3

\* A job whose work is over: JOB_RELEASE and {finished, JobId} in one step.
LEMMA FinishJob ==
    ASSUME Types, Calm, coord = "up", \A j \in Ids : JobInv(j),
           NEW i \in Ids, Finish(i), UNCHANGED <<status, link>>, NEW j \in Ids
    PROVE  JobInv(j)'
<1>1. /\ Line("JOB_RELEASE", i) \in Commands /\ Owner(Line("JOB_RELEASE", i)) = i
      /\ Line("JOB_RELEASE", i).op = "JOB_RELEASE"
  BY JobLines
<1>2. Send("JOB_RELEASE", i) /\ UNCHANGED <<toErlang, mail, status>>
  BY DEF Finish
<1>3. toAgent' = Append(toAgent, Line("JOB_RELEASE", i)) /\ toAgent \in Seq(Commands)
  BY <1>2 DEF Send, Types
<1>4. CASE j = i
  <2>1. Working(i) /\ job'[i] = "done"
    BY DEF Finish, JobInv, Types
  <2>2. Ops(toAgent, i) = {} /\ Ops(toErlang, i) = {}
    <3>1. CASE i \in Prompt
      <4>1. \A l \in Range(toAgent \o toErlang) : l.arg # i
        BY <3>1 DEF Finish
      <4>2. \A k \in DOMAIN toAgent : toAgent[k] \in Range(toAgent \o toErlang)
        <5> SUFFICES ASSUME NEW k \in DOMAIN toAgent
                     PROVE  toAgent[k] \in Range(toAgent \o toErlang)
          OBVIOUS
        <5>1. k \in DOMAIN (toAgent \o toErlang) /\ (toAgent \o toErlang)[k] = toAgent[k]
          BY DEF Types
        <5> QED
          BY <5>1 DEF Range
      <4>3. \A k \in DOMAIN toErlang : toErlang[k] \in Range(toAgent \o toErlang)
        <5> SUFFICES ASSUME NEW k \in DOMAIN toErlang
                     PROVE  toErlang[k] \in Range(toAgent \o toErlang)
          OBVIOUS
        <5>1. /\ Len(toAgent) + k \in DOMAIN (toAgent \o toErlang)
              /\ (toAgent \o toErlang)[Len(toAgent) + k] = toErlang[k]
          BY DEF Types
        <5> QED
          BY <5>1 DEF Range
      <4>4. \A l : Owner(l) \in {0, 1, l.arg}
        BY DEF Owner
      <4>5. Lines(toAgent, i) = {} /\ Lines(toErlang, i) = {}
        BY <4>1, <4>2, <4>3, <4>4, IdTypes DEF Lines
      <4> QED
        BY <4>5 DEF Ops
    <3>2. CASE i \notin Prompt
      <4>1. i \notin Heartbeat
        BY <3>2 DEF Calm
      <4> QED
        BY <2>1, <4>1 DEF Working, JobInv
    <3> QED
      BY <3>1, <3>2
  <2>3. Ops(toAgent', i) = {"JOB_RELEASE"}
    BY <1>1, <1>3, <2>2, AppendOwn
  <2>4. Done(i)'
    BY <1>2, <2>1, <2>2, <2>3 DEF Done, Working
  <2> QED
    BY <1>4, <2>1, <2>3, <2>4 DEF JobInv
<1>5. CASE j # i
  <2>1. Same(toAgent', toAgent, j) /\ Same(toErlang', toErlang, j)
    BY <1>1, <1>2, <1>5, SendEffect, SameQueue
  <2>2. job'[j] = job[j] /\ (j \in jobsMap' <=> j \in jobsMap)
    BY <1>5 DEF Finish, Types
  <2> QED
    BY <1>2, <2>1, <2>2, SameJob
<1> QED
  BY <1>4, <1>5

\* A job that asks for its status (job_loop's after clause).
LEMMA StatusJob ==
    ASSUME Types, coord = "up", \A j \in Ids : JobInv(j),
           NEW i \in Ids, Status(i), UNCHANGED <<status, link>>, NEW j \in Ids
    PROVE  JobInv(j)'
<1>1. /\ Line("JOB_STATUS", i) \in Commands /\ Owner(Line("JOB_STATUS", i)) = i
      /\ Line("JOB_STATUS", i).op = "JOB_STATUS"
  BY JobLines
<1>2. Send("JOB_STATUS", i) /\ UNCHANGED <<toErlang, mail, status, job, jobsMap>>
  BY DEF Status, schedVars
<1>3. toAgent' = Append(toAgent, Line("JOB_STATUS", i)) /\ toAgent \in Seq(Commands)
  BY <1>2 DEF Send, Types
<1>4. CASE j = i
  <2>1. job[i] = "waiting" /\ mail[i] = <<>> /\ i \in Heartbeat /\ i \in jobsMap
    BY DEF Status, JobInv
  <2>2. /\ Ops(toAgent', i) = Ops(toAgent, i) \union {"JOB_STATUS"}
        /\ Leads(toAgent, i, "JOB_REQUEST") => Leads(toAgent', i, "JOB_REQUEST")
    BY <1>1, <1>3, AppendOwn
  <2>3. Asked(i) \/ Queued(i) \/ Held(i) \/ Refused(i)
    BY <2>1 DEF JobInv, Told
  <2>4. Asked(i) => Asked(i)'
    BY <1>2, <2>2 DEF Asked
  <2>5. (Queued(i) => Queued(i)') /\ (Refused(i) => Refused(i)')
    BY <1>2, <2>2 DEF Queued, Refused
  <2>6. Held(i) => Held(i)'
    BY <1>2, <2>2 DEF Held, Range
  <2> QED
    BY <1>2, <1>4, <2>1, <2>3, <2>4, <2>5, <2>6, Zenon DEF JobInv
<1>5. CASE j # i
  <2>1. Same(toAgent', toAgent, j) /\ Same(toErlang', toErlang, j)
    BY <1>1, <1>2, <1>5, SendEffect, SameQueue
  <2> QED
    BY <1>2, <2>1, SameJob
<1> QED
  BY <1>4, <1>5
\* The coordinator passes an answer on: it knows the job.
LEMMA AnswerJob ==
    ASSUME Types, coord = "up", \A j \in Ids : JobInv(j), Answer, UNCHANGED <<status, link>>
    PROVE  Head(toErlang).arg \in jobsMap /\ \A j \in Ids : JobInv(j)'
<1>0. PICK m : m = Head(toErlang)
  OBVIOUS
<1>1. /\ toErlang \in Seq(Replies) /\ toErlang # <<>> /\ toErlang' = Tail(toErlang)
      /\ m.op \in {"JOB_GRANTED", "JOB_DENIED", "JOB_TIMEOUT"} /\ m \in Replies
      /\ UNCHANGED <<jobsMap, job, status>>
  BY <1>0 DEF Answer, Take, Types
<1>2. PICK i \in Ids : i = m.arg /\ Owner(m) = i
  BY <1>1, ReplyTypes
<1>3. /\ Ops(toErlang, i) = Ops(toErlang', i) \union {m.op}
      /\ \A op : Leads(toErlang, i, op) => m.op = op /\ op \notin Ops(toErlang', i)
  BY <1>0, <1>1, <1>2, TailOwn, Zenon
<1>4. JobInv(i) /\ job[i] \in {"waiting", "working", "dead"} /\ i \in jobsMap
  <2>1. job[i] \in {"none", "spawned", "waiting", "working", "relaunch", "done", "dead"}
    BY <1>2 DEF Types
  <2>2. ~Quiet(i) /\ ~Done(i)
    BY <1>3 DEF Quiet, Done
  <2> QED
    BY <1>2, <2>1, <2>2 DEF JobInv
<1>5. PICK w : /\ w = CASE m.op = "JOB_GRANTED" -> "granted"
                        [] m.op = "JOB_DENIED"  -> "denied"
                        [] m.op = "JOB_TIMEOUT" -> "timeout"
               /\ m.op = "JOB_GRANTED" => w = "granted"
               /\ m.op = "JOB_DENIED" => w = "denied"
               /\ m.op = "JOB_TIMEOUT" => w = "timeout"
  OBVIOUS
<1>6. Deliver({i}, w) /\ UNCHANGED toAgent
  BY <1>0, <1>2, <1>4, <1>5, Zenon DEF Answer
<1>7. /\ mail'[i] = IF job[i] = "dead" THEN mail[i] ELSE Append(mail[i], w)
      /\ \A j \in Ids \ {i} : mail'[j] = mail[j]
  BY <1>2, <1>4, <1>6 DEF Deliver
<1>8. JobInv(i)'
  <2>0. mail[i] \in Seq(Messages)
    BY <1>2 DEF Types
  <2>1. CASE job[i] = "waiting"
    <3>0. mail'[i] = Append(mail[i], w) /\ mail'[i] # <<>>
      BY <1>7, <2>0, <2>1
    <3>1. Held(i) \/ Refused(i) \/ Told(i)
      BY <1>3, <1>4, <2>1, Zenon DEF JobInv, Asked, Queued
    <3>2. CASE Held(i)
      <4>1. w = "granted" /\ Ops(toErlang', i) \subseteq {"JOB_GRANTED"}
        BY <1>3, <1>5, <3>2 DEF Held
      <4>2. Range(mail'[i]) \subseteq {"granted"}
        <5>1. \A k \in DOMAIN Append(mail[i], w) :
                  k \in DOMAIN mail[i] \/ Append(mail[i], w)[k] = w
          BY <2>0
        <5>2. \A k \in DOMAIN mail[i] : Append(mail[i], w)[k] = mail[i][k]
          BY <2>0
        <5> QED
          BY <3>0, <3>2, <4>1, <5>1, <5>2, Zenon DEF Held, Range
      <4>3. i \notin Heartbeat => Ops(toErlang', i) = {}
        BY <1>3, <3>2, <4>1 DEF Held
      <4>4. Held(i)'
        BY <1>1, <1>6, <3>0, <3>2, <4>1, <4>2, <4>3, Zenon DEF Held
      <4> QED
        BY <1>1, <1>4, <1>6, <2>1, <4>4, Zenon DEF JobInv
    <3>3. CASE Refused(i)
      <4>1. PICK op \in {"JOB_DENIED", "JOB_TIMEOUT"} :
              /\ Leads(toErlang, i, op)
              /\ Ops(toErlang, i) \subseteq {op, "JOB_TIMEOUT"}
              /\ op = "JOB_TIMEOUT" => i \notin Heartbeat
        BY <3>3 DEF Refused
      <4>2. /\ m.op = op /\ Ops(toErlang', i) \subseteq {"JOB_TIMEOUT"}
            /\ op = "JOB_TIMEOUT" => Ops(toErlang', i) = {}
        BY <1>3, <4>1
      <4>3. mail'[i] = <<w>> /\ Head(mail'[i]) = w
        BY <3>0, <3>3 DEF Refused
      <4>4. Told(i)'
        BY <1>1, <1>5, <1>6, <3>0, <3>3, <4>1, <4>2, <4>3, Zenon DEF Refused, Told
      <4> QED
        BY <1>1, <1>4, <1>6, <2>1, <4>4, Zenon DEF JobInv
    <3>4. CASE Told(i)
      <4>1. Head(mail[i]) = "denied" /\ Ops(toErlang, i) \subseteq {"JOB_TIMEOUT"}
        BY <1>3, <3>4 DEF Told
      <4>2. Head(mail'[i]) = "denied"
        BY <2>0, <3>0, <3>4, <4>1 DEF Told
      <4>3. Told(i)'
        BY <1>1, <1>3, <1>6, <3>0, <3>4, <4>1, <4>2, Zenon DEF Told
      <4> QED
        BY <1>1, <1>4, <1>6, <2>1, <4>3, Zenon DEF JobInv
    <3> QED
      BY <3>1, <3>2, <3>3, <3>4
  <2>2. CASE job[i] = "working"
    <3>1. Working(i)'
      BY <1>1, <1>3, <1>4, <1>6, <2>2, Zenon DEF JobInv, Working
    <3> QED
      BY <1>1, <1>4, <1>6, <2>2, <3>1, Zenon DEF JobInv
  <2>3. CASE job[i] = "dead"
    <3>1. Dead(i)'
      BY <1>1, <1>3, <1>4, <1>6, <2>3, Zenon DEF JobInv, Dead
    <3> QED
      BY <1>1, <1>4, <1>6, <2>3, <3>1, Zenon DEF JobInv
  <2> QED
    BY <1>4, <2>1, <2>2, <2>3
<1>9. ASSUME NEW j \in Ids, j # i PROVE JobInv(j)'
  <2>1. Same(toErlang', toErlang, j) /\ Same(toAgent', toAgent, j)
    BY <1>0, <1>1, <1>2, <1>6, <1>9, TailOther, SameQueue, Zenon DEF Same
  <2> QED
    BY <1>1, <1>7, <1>9, <2>1, SameJob
<1> QED
  BY <1>0, <1>2, <1>4, <1>8, <1>9
\* What the agent says, and what it takes.
LEMMA SayEffect ==
    ASSUME Types, link = "open", NEW op, NEW a, Agent!Say(op, a), Line(op, a) \in Replies, NEW p
    PROVE  /\ toErlang \in Seq(Replies) /\ toErlang' = Append(toErlang, Line(op, a))
           /\ Owner(Line(op, a)) # p => Same(toErlang', toErlang, p)
<1>1. toErlang' = Append(toErlang, Line(op, a)) /\ toErlang \in Seq(Replies)
  BY DEF Agent!Say, Agent!Line, Line, Types
<1> QED
  BY <1>1, AppendOther DEF Same

\* What reading a command of the scheduler does to the view of every job.
LEMMA TakeEffect ==
    ASSUME Types, NEW op, Agent!Take(op),
           op \in {"JOB_REQUEST", "JOB_STATUS", "JOB_RELEASE"}
    PROVE  /\ link = "open" /\ Head(toAgent).arg \in Ids
           /\ \A i \in Ids : i = Head(toAgent).arg =>
                 /\ Ops(toAgent, i) = Ops(toAgent', i) \union {op}
                 /\ \A o : Leads(toAgent, i, o) => op = o /\ o \notin Ops(toAgent', i)
           /\ \A j \in Ids : j # Head(toAgent).arg => Same(toAgent', toAgent, j)
<1>1. /\ link = "open" /\ toAgent # <<>> /\ Head(toAgent).op = op
      /\ toAgent' = Tail(toAgent) /\ toAgent \in Seq(Commands) /\ Head(toAgent) \in Commands
  BY DEF Agent!Take, Types
<1>2. Head(toAgent).arg \in Ids /\ Owner(Head(toAgent)) = Head(toAgent).arg
  BY <1>1, CommandTypes
<1>3. \A j \in Ids : j # Head(toAgent).arg => Same(toAgent', toAgent, j)
  BY <1>1, <1>2, TailOther DEF Same
<1>4. ASSUME NEW i \in Ids, i = Head(toAgent).arg
      PROVE  /\ Ops(toAgent, i) = Ops(toAgent', i) \union {op}
             /\ \A o : Leads(toAgent, i, o) => op = o /\ o \notin Ops(toAgent', i)
  BY <1>1, <1>2, <1>4, TailOwn, Zenon
<1> QED
  BY <1>1, <1>2, <1>3, <1>4

\* What is on its way to the agent, and what the agent has, tells where a job stands.
LEMMA WhereItStands ==
    ASSUME Types, NEW i \in Ids, JobInv(i)
    PROVE  /\ "JOB_REQUEST" \in Ops(toAgent, i) =>
                 job[i] = "waiting" /\ Asked(i) /\ i \in jobsMap
           /\ "JOB_RELEASE" \in Ops(toAgent, i) => job[i] = "done" /\ Done(i)
           /\ "JOB_STATUS" \in Ops(toAgent, i) =>
                 i \in Heartbeat /\ i \in jobsMap /\ job[i] \in {"waiting", "working", "dead"}
           /\ status[i] = "waiting" => job[i] = "waiting" /\ Queued(i) /\ i \in jobsMap
<1>1. job[i] \in {"none", "spawned", "waiting", "working", "relaunch", "done", "dead"}
  BY DEF Types
<1>2. CASE job[i] \in {"none", "spawned", "relaunch"}
  <2>1. Ops(toAgent, i) = {} /\ status[i] = "none"
    BY <1>2 DEF JobInv, Quiet
  <2> QED
    BY <2>1
<1>3. CASE job[i] = "waiting"
  <2>1. i \in jobsMap /\ ("JOB_STATUS" \in Ops(toAgent, i) => i \in Heartbeat)
    BY <1>3 DEF JobInv
  <2>2. CASE Asked(i)
    BY <1>3, <2>1, <2>2 DEF Asked
  <2>3. CASE Queued(i)
    BY <1>3, <2>1, <2>3 DEF Queued
  <2>4. CASE Held(i) \/ Refused(i) \/ Told(i)
    <3>1. Ops(toAgent, i) \subseteq {"JOB_STATUS"} /\ status[i] # "waiting"
      BY <2>4 DEF Held, Refused, Told
    <3> QED
      BY <1>3, <2>1, <3>1
  <2> QED
    BY <1>3, <2>2, <2>3, <2>4, Zenon DEF JobInv
<1>4. CASE job[i] \in {"working", "dead"}
  <2>1. /\ Ops(toAgent, i) \subseteq {"JOB_STATUS"} /\ status[i] # "waiting" /\ i \in jobsMap
        /\ "JOB_STATUS" \in Ops(toAgent, i) => i \in Heartbeat
    BY <1>4 DEF JobInv, Working, Dead
  <2> QED
    BY <1>4, <2>1
<1>5. CASE job[i] = "done"
  <2>1. Done(i) /\ Ops(toAgent, i) \subseteq {"JOB_RELEASE"} /\ status[i] # "waiting"
    BY <1>5 DEF JobInv, Done
  <2> QED
    BY <1>5, <2>1
<1> QED
  BY <1>1, <1>2, <1>3, <1>4, <1>5, Zenon

\* The agent takes JOB_REQUEST: the job was asked for, and is new.
LEMMA JobRequestJob ==
    ASSUME Types, \A j \in Ids : JobInv(j), Agent!JobRequest, UNCHANGED schedVars
    PROVE  \A j \in Ids : JobInv(j)'
<1>1. PICK i \in Ids : i = Head(toAgent).arg
  BY TakeEffect DEF Agent!JobRequest
<1>2. UNCHANGED <<mail, job, jobsMap>> /\ Agent!Take("JOB_REQUEST") /\ link = "open"
  BY DEF Agent!JobRequest, Agent!Take, schedVars
<1>3. /\ Ops(toAgent, i) = Ops(toAgent', i) \union {"JOB_REQUEST"}
      /\ Leads(toAgent, i, "JOB_REQUEST") => "JOB_REQUEST" \notin Ops(toAgent', i)
      /\ \A j \in Ids : j # i => Same(toAgent', toAgent, j)
  BY <1>1, <1>2, TakeEffect
<1>4. job[i] = "waiting" /\ Asked(i) /\ i \in jobsMap
  BY <1>3, WhereItStands
<1>5. Ops(toAgent', i) \subseteq {"JOB_STATUS"} /\ Ops(toAgent', i) \subseteq Ops(toAgent, i)
  BY <1>3, <1>4 DEF Asked
<1>6. CASE NReq[i] = 0
  <2>1. Agent!Say("JOB_DENIED", i) /\ status' = status
    BY <1>1, <1>6 DEF Agent!JobRequest
  <2>2. /\ Line("JOB_DENIED", i) \in Replies /\ Owner(Line("JOB_DENIED", i)) = i
        /\ Line("JOB_DENIED", i).op = "JOB_DENIED"
    BY JobLines
  <2>3. /\ toErlang \in Seq(Replies) /\ toErlang' = Append(toErlang, Line("JOB_DENIED", i))
        /\ \A j \in Ids : j # i => Same(toErlang', toErlang, j)
    BY <1>2, <2>1, <2>2, SayEffect
  <2>4. Ops(toErlang', i) = {"JOB_DENIED"} /\ Leads(toErlang', i, "JOB_DENIED")
    <3>1. Ops(toErlang, i) = {}
      BY <1>4 DEF Asked
    <3> QED
      BY <2>2, <2>3, <3>1, AppendOwn
  <2>5. Refused(i)'
    BY <1>2, <1>4, <1>5, <2>1, <2>4 DEF Asked, Refused
  <2>6. JobInv(i)'
    BY <1>2, <1>4, <1>5, <2>5 DEF JobInv
  <2>7. \A j \in Ids : j # i => JobInv(j)'
    BY <1>2, <1>3, <2>1, <2>3, SameJob
  <2> QED
    BY <2>6, <2>7
<1>7. CASE NReq[i] # 0
  <2>1. status' = [status EXCEPT ![i] = "waiting"] /\ toErlang' = toErlang
    BY <1>1, <1>7 DEF Agent!JobRequest
  <2>2. status'[i] = "waiting" /\ \A j \in Ids : j # i => status'[j] = status[j]
    BY <2>1 DEF Types
  <2>3. Queued(i)'
    BY <1>2, <1>4, <1>5, <2>1, <2>2 DEF Asked, Queued
  <2>4. JobInv(i)'
    BY <1>2, <1>4, <1>5, <2>3 DEF JobInv
  <2>5. \A j \in Ids : j # i => JobInv(j)'
    BY <1>2, <1>3, <2>1, <2>2, SameJob, SameQueue, Zenon
  <2> QED
    BY <2>4, <2>5
<1> QED
  BY <1>6, <1>7

\* It takes JOB_RELEASE: the job is done.
LEMMA JobReleaseJob ==
    ASSUME Types, \A j \in Ids : JobInv(j), Agent!JobRelease, UNCHANGED schedVars
    PROVE  \A j \in Ids : JobInv(j)'
<1>1. PICK i \in Ids : i = Head(toAgent).arg
  BY TakeEffect DEF Agent!JobRelease
<1>2. /\ UNCHANGED <<mail, job, jobsMap, toErlang>> /\ Agent!Take("JOB_RELEASE")
      /\ status' = [status EXCEPT ![i] = "none"]
  BY <1>1 DEF Agent!JobRelease, schedVars
<1>3. /\ Ops(toAgent, i) = Ops(toAgent', i) \union {"JOB_RELEASE"}
      /\ \A j \in Ids : j # i => Same(toAgent', toAgent, j)
  BY <1>1, <1>2, TakeEffect
<1>4. job[i] = "done" /\ Done(i)
  BY <1>3, WhereItStands
<1>5. status'[i] = "none" /\ \A j \in Ids : j # i => status'[j] = status[j]
  BY <1>2 DEF Types
<1>6. Done(i)'
  BY <1>2, <1>3, <1>4, <1>5 DEF Done
<1>7. JobInv(i)'
  BY <1>2, <1>4, <1>6, Zenon DEF JobInv, Done
<1>8. \A j \in Ids : j # i => JobInv(j)'
  BY <1>2, <1>3, <1>5, SameJob, SameQueue
<1> QED
  BY <1>7, <1>8
\* It takes JOB_STATUS: the answer is one the job can do with.
LEMMA JobStatusJob ==
    ASSUME Types, \A j \in Ids : JobInv(j), Agent!JobStatus, UNCHANGED schedVars
    PROVE  \A j \in Ids : JobInv(j)'
<1>1. PICK i \in Ids : i = Head(toAgent).arg
  BY TakeEffect DEF Agent!JobStatus
<1>2. /\ UNCHANGED <<mail, job, jobsMap, status>> /\ Agent!Take("JOB_STATUS") /\ link = "open"
  BY DEF Agent!JobStatus, Agent!Take, schedVars
<1>3. /\ Ops(toAgent, i) = Ops(toAgent', i) \union {"JOB_STATUS"}
      /\ ~Leads(toAgent, i, "JOB_REQUEST")
      /\ \A j \in Ids : j # i => Same(toAgent', toAgent, j)
  <2>1. /\ Ops(toAgent, i) = Ops(toAgent', i) \union {"JOB_STATUS"}
        /\ \A o : Leads(toAgent, i, o) => "JOB_STATUS" = o
    BY <1>1, <1>2, TakeEffect
  <2>2. \A j \in Ids : j # i => Same(toAgent', toAgent, j)
    BY <1>1, <1>2, TakeEffect
  <2> QED
    BY <2>1, <2>2
<1>4. /\ JobInv(i) /\ i \in Heartbeat /\ i \in jobsMap
      /\ job[i] \in {"waiting", "working", "dead"}
  BY <1>3, WhereItStands
<1>5. PICK op : /\ Agent!Say(op, i)
                /\ status[i] = "none" => op = "JOB_TIMEOUT"
                /\ status[i] = "waiting" => op = "WAITING"
                /\ status[i] = "granted" => op = "JOB_GRANTED"
                /\ op \in {"JOB_TIMEOUT", "WAITING", "JOB_GRANTED"}
  <2>1. status[i] \in {"none", "waiting", "granted"}
    BY DEF Types
  <2>2. Agent!Say(CASE status[i] = "none"    -> "JOB_TIMEOUT"
                    [] status[i] = "waiting" -> "WAITING"
                    [] status[i] = "granted" -> "JOB_GRANTED", i)
    BY <1>1, Zenon DEF Agent!JobStatus
  <2> QED
    BY <2>1, <2>2
<1>6. Line(op, i) \in Replies /\ Owner(Line(op, i)) \in {1, i} /\ 1 \notin Ids
  BY <1>5, IdTypes, JobLines
<1>7. /\ toErlang \in Seq(Replies) /\ toErlang' = Append(toErlang, Line(op, i))
      /\ \A j \in Ids : j # i => Same(toErlang', toErlang, j)
  BY <1>2, <1>5, <1>6, SayEffect
<1>8. /\ op = "WAITING" => Same(toErlang', toErlang, i)
      /\ op # "WAITING" =>
            /\ Ops(toErlang', i) = Ops(toErlang, i) \union {op}
            /\ \A o : Leads(toErlang, i, o) /\ op # o => Leads(toErlang', i, o)
  <2>1. CASE op = "WAITING"
    <3>1. Owner(Line(op, i)) # i
      BY <2>1, IdTypes, JobLines
    <3> QED
      BY <1>2, <1>5, <1>6, <2>1, <3>1, SayEffect, Zenon
  <2>2. CASE op # "WAITING"
    <3>1. Owner(Line(op, i)) = i /\ Line(op, i).op = op
      BY <1>5, <2>2, JobLines
    <3> QED
      BY <1>6, <1>7, <2>2, <3>1, AppendOwn
  <2> QED
    BY <2>1, <2>2
<1>9. JobInv(i)'
  <2>1. CASE job[i] = "waiting"
    <3>1. Queued(i) \/ Held(i) \/ Refused(i) \/ Told(i)
      BY <1>3, <1>4, <2>1, Zenon DEF JobInv, Asked
    <3>2. CASE Queued(i)
      <4>1. Queued(i)'
        BY <1>2, <1>3, <1>5, <1>8, <3>2, Zenon DEF Queued, Same
      <4> QED
        BY <1>2, <1>4, <2>1, <4>1, Zenon DEF JobInv
    <3>3. CASE Held(i)
      <4>1. op = "JOB_GRANTED" /\ Ops(toErlang', i) = Ops(toErlang, i) \union {"JOB_GRANTED"}
        BY <1>5, <1>8, <3>3 DEF Held
      <4>2. Held(i)'
        BY <1>2, <1>3, <1>4, <3>3, <4>1, Zenon DEF Held, Range
      <4> QED
        BY <1>2, <1>4, <2>1, <4>2, Zenon DEF JobInv
    <3>4. CASE Refused(i)
      <4>1. op = "JOB_TIMEOUT"
        BY <1>5, <3>4 DEF Refused
      <4>2. /\ Leads(toErlang, i, "JOB_DENIED")
            /\ Ops(toErlang, i) \subseteq {"JOB_DENIED", "JOB_TIMEOUT"}
        BY <1>4, <3>4 DEF Refused
      <4>3. /\ Leads(toErlang', i, "JOB_DENIED")
            /\ Ops(toErlang', i) \subseteq {"JOB_DENIED", "JOB_TIMEOUT"}
        BY <1>8, <4>1, <4>2
      <4>4. Refused(i)'
        BY <1>2, <1>3, <3>4, <4>3 DEF Refused
      <4> QED
        BY <1>2, <1>4, <2>1, <4>4, Zenon DEF JobInv
    <3>5. CASE Told(i)
      <4>1. Head(mail[i]) = "denied" /\ Ops(toErlang, i) \subseteq {"JOB_TIMEOUT"}
        BY <1>4, <3>5 DEF Told
      <4>2. Ops(toErlang', i) \subseteq {"JOB_TIMEOUT"}
        BY <1>5, <1>8, <3>5, <4>1 DEF Told
      <4>3. Told(i)'
        BY <1>2, <1>3, <3>5, <4>1, <4>2, Zenon DEF Told
      <4> QED
        BY <1>2, <1>4, <2>1, <4>3, Zenon DEF JobInv
    <3> QED
      BY <3>1, <3>2, <3>3, <3>4, <3>5
  <2>2. CASE job[i] = "working"
    <3>1. Working(i)
      BY <1>4, <2>2 DEF JobInv
    <3>2. Working(i)'
      BY <1>2, <1>3, <1>4, <1>5, <1>8, <3>1, Zenon DEF Working
    <3> QED
      BY <1>2, <1>4, <2>2, <3>2, Zenon DEF JobInv
  <2>3. CASE job[i] = "dead"
    <3>1. Dead(i)
      BY <1>4, <2>3 DEF JobInv
    <3>2. Dead(i)'
      BY <1>2, <1>3, <1>5, <1>8, <3>1 DEF Dead
    <3> QED
      BY <1>2, <1>4, <2>3, <3>2, Zenon DEF JobInv
  <2> QED
    BY <1>4, <2>1, <2>2, <2>3
<1>10. \A j \in Ids : j # i => JobInv(j)'
  BY <1>2, <1>3, <1>7, SameJob
<1> QED
  BY <1>9, <1>10

\* A job that the agent has is granted, denied or timed out.
LEMMA DecideJob ==
    ASSUME Types, Calm, \A j \in Ids : JobInv(j), UNCHANGED schedVars, NEW i \in Ids,
           Agent!Grant(i) \/ Agent!Deny(i) \/ Agent!Timeout(i)
    PROVE  \A j \in Ids : JobInv(j)'
<1>1. UNCHANGED <<mail, job, jobsMap, toAgent>> /\ link = "open" /\ status[i] = "waiting"
  BY DEF Agent!Grant, Agent!Deny, Agent!Timeout, schedVars, Types
<1>2. JobInv(i) /\ job[i] = "waiting" /\ Queued(i) /\ i \in jobsMap
  BY <1>1, WhereItStands
<1>3. PICK op \in {"JOB_GRANTED", "JOB_DENIED", "JOB_TIMEOUT"} :
        /\ Agent!Say(op, i)
        /\ status' = [status EXCEPT ![i] = IF op = "JOB_GRANTED" THEN "granted" ELSE "none"]
        /\ op = "JOB_TIMEOUT" => i \notin Heartbeat
  BY DEF Agent!Grant, Agent!Deny, Agent!Timeout, Calm
<1>4. Line(op, i) \in Replies /\ Owner(Line(op, i)) = i /\ Line(op, i).op = op
  BY JobLines
<1>5. /\ toErlang \in Seq(Replies) /\ toErlang' = Append(toErlang, Line(op, i))
      /\ \A j \in Ids : j # i => Same(toErlang', toErlang, j)
  BY <1>1, <1>3, <1>4, SayEffect
<1>6. Ops(toErlang', i) = {op} /\ Leads(toErlang', i, op)
  <2>1. Ops(toErlang, i) = {}
    BY <1>2 DEF Queued
  <2> QED
    BY <1>4, <1>5, <2>1, AppendOwn
<1>7. /\ status'[i] = IF op = "JOB_GRANTED" THEN "granted" ELSE "none"
      /\ \A j \in Ids : j # i => status'[j] = status[j]
  BY <1>3 DEF Types
<1>8. JobInv(i)'
  <2>1. CASE op = "JOB_GRANTED"
    <3>1. Held(i)'
      BY <1>1, <1>2, <1>6, <1>7, <2>1 DEF Queued, Held, Range
    <3> QED
      BY <1>1, <1>2, <3>1, Zenon DEF JobInv
  <2>2. CASE op # "JOB_GRANTED"
    <3>1. Refused(i)'
      BY <1>1, <1>2, <1>3, <1>6, <1>7, <2>2, Zenon DEF Queued, Refused
    <3> QED
      BY <1>1, <1>2, <3>1, Zenon DEF JobInv
  <2> QED
    BY <2>1, <2>2
<1>9. \A j \in Ids : j # i => JobInv(j)'
  BY <1>1, <1>5, <1>7, SameJob, SameQueue
<1> QED
  BY <1>8, <1>9
-----------------------------------------------------------------------------
(* The generator.                                                           *)

\* A step that has nothing to do with the generator.
LEMMA SameGen ==
    ASSUME GenInv, Same(toAgent', toAgent, 0), Same(toErlang', toErlang, 0),
           UNCHANGED <<gen, genPid>>
    PROVE  GenInv'
  BY DEF GenInv, Same

\* The generator asks once and waits for the one answer.
LEMMA GenSched ==
    ASSUME Types, coord = "up", GenInv, Next, coord' = "up"
    PROVE  GenInv'
<1>1. CASE AskNodes
  <2>1. /\ Line("GET_NODES", 0) \in Commands /\ Owner(Line("GET_NODES", 0)) = 0
        /\ Line("GET_NODES", 0).op = "GET_NODES"
    BY OtherLines
  <2>2. /\ toAgent' = Append(toAgent, Line("GET_NODES", 0)) /\ toAgent \in Seq(Commands)
        /\ UNCHANGED toErlang /\ gen' = "wait"
        /\ Ops(toAgent, 0) = {} /\ Ops(toErlang, 0) = {}
    BY <1>1 DEF AskNodes, Send, Types, GenInv
  <2>3. Ops(toAgent', 0) = {"GET_NODES"} /\ Leads(toAgent', 0, "GET_NODES")
    BY <2>1, <2>2, AppendOwn
  <2>4. genPid'
    BY <1>1, Zenon DEF AskNodes
  <2> QED
    BY <2>2, <2>3, <2>4 DEF GenInv
<1>2. CASE NoNodes \/ Spawn
  BY <1>2 DEF NoNodes, Spawn, GenInv
<1>3. CASE Nodes
  <2>1. PICK m : m = Head(toErlang)
    OBVIOUS
  <2>2. /\ toErlang \in Seq(Replies) /\ toErlang # <<>> /\ toErlang' = Tail(toErlang)
        /\ m \in Replies /\ m.op = "NODES"
    BY <1>3, <2>1 DEF Nodes, Take, Types
  <2>3. Owner(m) = 0
    BY <2>2, ReplyTypes
  <2>4. /\ Ops(toErlang, 0) = Ops(toErlang', 0) \union {"NODES"}
        /\ Leads(toErlang, 0, "NODES") => "NODES" \notin Ops(toErlang', 0)
    BY <2>1, <2>2, <2>3, TailOwn, Zenon
  <2>5. /\ gen = "wait" /\ genPid /\ Ops(toAgent, 0) = {}
        /\ Ops(toErlang, 0) = {"NODES"} /\ Leads(toErlang, 0, "NODES")
    BY <2>4 DEF GenInv
  <2>6. Ops(toErlang', 0) = {}
    BY <2>4, <2>5
  <2>7. gen' \in {"parsed", "empty"} /\ UNCHANGED toAgent
    BY <1>3, <2>5 DEF Nodes
  <2> QED
    BY <2>5, <2>6, <2>7 DEF GenInv
<1>4. CASE Answer \/ Waiting \/ Closed
  <2>1. /\ toErlang \in Seq(Replies) /\ toErlang # <<>> /\ toErlang' = Tail(toErlang)
        /\ Head(toErlang) \in Replies /\ UNCHANGED <<gen, genPid>>
        /\ Head(toErlang).op \in {"JOB_GRANTED", "JOB_DENIED", "JOB_TIMEOUT", "WAITING",
                                  "tcp_closed"}
    BY <1>4 DEF Answer, Waiting, Closed, Take, Types
  <2>2. Owner(Head(toErlang)) # 0
    BY <2>1, IdTypes, ReplyTypes
  <2>3. UNCHANGED toAgent
    BY <1>4 DEF Answer, Waiting, Closed, End
  <2> QED
    BY <2>1, <2>2, <2>3, TailOther, SameQueue, SameGen, Zenon DEF Same
<1>5. ASSUME NEW i \in Ids, JobStep(i) \/ Status(i) PROVE GenInv'
  <2>1. UNCHANGED <<toErlang, gen, genPid>>
    BY <1>5 DEF JobStep, Register, Receive, Finish, Status, schedVars
  <2>2. \/ UNCHANGED toAgent
        \/ \E op \in {"JOB_REQUEST", "JOB_STATUS", "JOB_RELEASE"} : Send(op, i)
    BY <1>5 DEF JobStep, Register, Receive, Finish, Status
  <2>3. \A op \in {"JOB_REQUEST", "JOB_STATUS", "JOB_RELEASE"} :
            Line(op, i) \in Commands /\ Owner(Line(op, i)) # 0
    BY IdTypes, JobLines
  <2>4. Same(toAgent', toAgent, 0)
    BY <2>2, <2>3, SendEffect, SameQueue
  <2> QED
    BY <2>1, <2>4, SameGen, SameQueue
<1> QED
  BY <1>1, <1>2, <1>3, <1>4, <1>5 DEF Next, Generate, Coordinate

\* The coordinator does not hang up before the agent is gone.
LEMMA NoHangUp ==
    ASSUME Types, Ends
    PROVE  ~Agent!HangUp
<1> SUFFICES ASSUME Agent!HangUp PROVE FALSE
  OBVIOUS
<1>1. /\ toAgent \in Seq(Commands) /\ toAgent # <<>> /\ link = "open" /\ coord \in {"up", "closed"}
      /\ Head(toAgent) \in Commands /\ Head(toAgent).op = "eof"
  BY DEF Agent!HangUp, Agent!Take, Types
<1>2. Head(toAgent) = Line("eof", 0) /\ coord = "up"
  BY <1>1, CommandTypes DEF Ends
<1> QED
  BY <1>1, <1>2 DEF Ends, Range

\* The agent answers it once.
LEMMA GenAgent ==
    ASSUME Types, coord = "up", Ends, GenInv, Agent!Next \/ Agent!Die, UNCHANGED schedVars
    PROVE  GenInv'
<1>1. UNCHANGED <<gen, genPid>>
  BY DEF schedVars
<1>2. CASE Agent!GetNodes
  <2>1. PICK known \in 0..1 : Agent!Say("NODES", known)
    BY <1>2 DEF Agent!GetNodes
  <2>2. /\ toAgent \in Seq(Commands) /\ toAgent # <<>> /\ toAgent' = Tail(toAgent)
        /\ Head(toAgent) \in Commands /\ Head(toAgent).op = "GET_NODES" /\ link = "open"
    BY <1>2 DEF Agent!GetNodes, Agent!Take, Types
  <2>3. Owner(Head(toAgent)) = 0
    BY <2>2, CommandTypes
  <2>4. /\ Ops(toAgent, 0) = Ops(toAgent', 0) \union {"GET_NODES"}
        /\ Leads(toAgent, 0, "GET_NODES") => "GET_NODES" \notin Ops(toAgent', 0)
    BY <2>2, <2>3, TailOwn, Zenon
  <2>5. /\ gen = "wait" /\ genPid /\ Ops(toErlang, 0) = {} /\ Ops(toAgent', 0) = {}
    BY <2>4 DEF GenInv
  <2>6. /\ Line("NODES", known) \in Replies /\ Owner(Line("NODES", known)) = 0
        /\ Line("NODES", known).op = "NODES"
    BY OtherLines
  <2>7. toErlang \in Seq(Replies) /\ toErlang' = Append(toErlang, Line("NODES", known))
    BY <2>1, <2>2, <2>6, SayEffect
  <2>8. Ops(toErlang', 0) = {"NODES"} /\ Leads(toErlang', 0, "NODES")
    BY <2>5, <2>6, <2>7, AppendOwn
  <2> QED
    BY <1>1, <2>5, <2>8 DEF GenInv
<1>3. ASSUME UNCHANGED toErlang \/ \E i \in Ids : \E op \in {"JOB_GRANTED", "JOB_DENIED",
                "JOB_TIMEOUT", "WAITING"} : Agent!Say(op, i),
             link = "open"
      PROVE  Same(toErlang', toErlang, 0)
  <2>1. CASE UNCHANGED toErlang
    BY <2>1, SameQueue
  <2>2. ASSUME NEW i \in Ids, NEW op \in {"JOB_GRANTED", "JOB_DENIED", "JOB_TIMEOUT", "WAITING"},
               Agent!Say(op, i)
        PROVE  Same(toErlang', toErlang, 0)
    <3>1. Line(op, i) \in Replies /\ Owner(Line(op, i)) # 0
      BY IdTypes, JobLines
    <3> QED
      BY <1>3, <2>2, <3>1, SayEffect
  <2> QED
    BY <1>3, <2>1, <2>2
<1>4. CASE Agent!JobRequest \/ Agent!JobRelease \/ Agent!JobStatus
  <2>1. PICK op \in {"JOB_REQUEST", "JOB_STATUS", "JOB_RELEASE"} : Agent!Take(op)
    BY <1>4 DEF Agent!JobRequest, Agent!JobRelease, Agent!JobStatus
  <2>2. /\ toAgent \in Seq(Commands) /\ toAgent # <<>> /\ toAgent' = Tail(toAgent)
        /\ Head(toAgent) \in Commands /\ Head(toAgent).op = op /\ link = "open"
    BY <2>1 DEF Agent!Take, Types
  <2>3. Owner(Head(toAgent)) # 0 /\ Head(toAgent).arg \in Ids
    BY <2>2, IdTypes, CommandTypes
  <2>4. Same(toAgent', toAgent, 0)
    BY <2>2, <2>3, TailOther DEF Same
  <2>5. status[Head(toAgent).arg] \in {"none", "waiting", "granted"}
    BY <2>3 DEF Types
  <2>6. UNCHANGED toErlang \/ \E op2 \in {"JOB_GRANTED", "JOB_DENIED",
                "JOB_TIMEOUT", "WAITING"} : Agent!Say(op2, Head(toAgent).arg)
    <3>1. CASE Agent!JobRequest \/ Agent!JobRelease
      BY <3>1 DEF Agent!JobRequest, Agent!JobRelease
    <3>2. CASE Agent!JobStatus
      BY <2>5, <3>2, Zenon DEF Agent!JobStatus
    <3> QED
      BY <1>4, <3>1, <3>2
  <2> QED
    BY <1>1, <1>3, <2>2, <2>3, <2>4, <2>6, SameGen, Zenon
<1>5. ASSUME NEW i \in Ids, Agent!Grant(i) \/ Agent!Deny(i) \/ Agent!Timeout(i) PROVE GenInv'
  <2>1. /\ UNCHANGED toAgent /\ link = "open"
        /\ \E op \in {"JOB_GRANTED", "JOB_DENIED", "JOB_TIMEOUT", "WAITING"} : Agent!Say(op, i)
    BY <1>5 DEF Agent!Grant, Agent!Deny, Agent!Timeout, Types
  <2> QED
    BY <1>1, <1>3, <2>1, SameGen, SameQueue
<1>6. CASE Agent!Die
  <2>1. /\ toErlang \in Seq(Replies) /\ toErlang' = Append(toErlang, Line("tcp_closed", 0))
        /\ UNCHANGED toAgent
    BY <1>6 DEF Agent!Die, Agent!Line, Line, Types
  <2>2. Line("tcp_closed", 0) \in Replies /\ Owner(Line("tcp_closed", 0)) # 0
    BY OtherLines
  <2> QED
    BY <1>1, <2>1, <2>2, AppendOther, SameQueue, SameGen, Zenon DEF Same
<1>7. ~Agent!HangUp
  BY NoHangUp
<1> QED
  BY <1>2, <1>4, <1>5, <1>6, <1>7 DEF Agent!Next, Agent!Command
-----------------------------------------------------------------------------
(* Every step.                                                              *)

\* The jobs, while the coordinator is up and stays up.
LEMMA JobsSched ==
    ASSUME Types, Calm, coord = "up", Fresh, GenInv, \A j \in Ids : JobInv(j),
           Next, UNCHANGED <<status, link>>, coord' = "up", NEW j \in Ids
    PROVE  JobInv(j)'
<1>1. CASE AskNodes
  <2>1. Line("GET_NODES", 0) \in Commands /\ Owner(Line("GET_NODES", 0)) # j
    BY IdTypes, OtherLines
  <2>2. Send("GET_NODES", 0) /\ UNCHANGED <<toErlang, jobsMap, job, mail>>
    BY <1>1 DEF AskNodes
  <2> QED
    BY <2>1, <2>2, SendEffect, SameQueue, SameJob
<1>2. CASE NoNodes
  BY <1>2, SameQueue, SameJob DEF NoNodes
<1>3. CASE Spawn
  <2>1. UNCHANGED <<toAgent, toErlang, jobsMap, mail>>
    BY <1>3 DEF Spawn
  <2>2. CASE j = nextId
    <3>1. job[j] = "none" /\ job'[j] = "spawned"
      <4>1. j >= nextId
        BY <2>2, IdTypes
      <4>2. job[j] = "none"
        BY <4>1, Zenon DEF Fresh
      <4>3. job' = [job EXCEPT ![j] = "spawned"]
        BY <1>3, <2>2, Zenon DEF Spawn
      <4>4. DOMAIN job = Ids
        BY DEF Types
      <4> QED
        BY <4>2, <4>3, <4>4
    <3>2. Quiet(j) /\ ("JOB_STATUS" \in Ops(toAgent, j) => j \in Heartbeat)
      BY <3>1 DEF JobInv
    <3>3. Quiet(j)'
      BY <2>1, <3>2 DEF Quiet
    <3> QED
      BY <2>1, <3>1, <3>2, <3>3, Zenon DEF JobInv
  <2>3. CASE j # nextId
    <3>1. job'[j] = job[j]
      BY <1>3, <2>3 DEF Spawn, Types
    <3> QED
      BY <2>1, <3>1, SameQueue, SameJob
  <2> QED
    BY <2>2, <2>3
<1>4. CASE Waiting \/ Nodes
  <2>1. /\ toErlang \in Seq(Replies) /\ toErlang # <<>> /\ toErlang' = Tail(toErlang)
        /\ Head(toErlang) \in Replies /\ UNCHANGED <<jobsMap, job, mail>>
        /\ Head(toErlang).op \in {"WAITING", "NODES"}
    BY <1>4 DEF Waiting, Nodes, Take, Types
  <2>2. Owner(Head(toErlang)) # j
    BY <2>1, IdTypes, ReplyTypes
  <2>3. UNCHANGED toAgent
    BY <1>4 DEF Waiting, Nodes, End
  <2> QED
    BY <2>1, <2>2, <2>3, TailOther, SameQueue, SameJob, Zenon DEF Same
<1>5. CASE Answer
  BY <1>5, AnswerJob
<1>6. ~Closed
  BY DEF Closed, End
<1>7. ASSUME NEW i \in Ids, JobStep(i) \/ Status(i) PROVE JobInv(j)'
  BY <1>7, RegisterJob, ReceiveJob, FinishJob, StatusJob DEF JobStep
<1> QED
  BY <1>1, <1>2, <1>3, <1>4, <1>5, <1>6, <1>7 DEF Next, Generate, Coordinate

\* Every step of the agent keeps every job where it stands.
LEMMA JobsAgent ==
    ASSUME Types, Calm, coord = "up", Ends, \A j \in Ids : JobInv(j),
           Agent!Next \/ Agent!Die, UNCHANGED schedVars, NEW j \in Ids
    PROVE  JobInv(j)'
<1>1. UNCHANGED <<jobsMap, job, mail>>
  BY DEF schedVars
<1>2. CASE Agent!GetNodes
  <2>1. PICK known \in 0..1 : Agent!Say("NODES", known)
    BY <1>2 DEF Agent!GetNodes
  <2>2. /\ toAgent \in Seq(Commands) /\ toAgent # <<>> /\ toAgent' = Tail(toAgent)
        /\ Head(toAgent) \in Commands /\ Head(toAgent).op = "GET_NODES" /\ link = "open"
        /\ UNCHANGED status
    BY <1>2 DEF Agent!GetNodes, Agent!Take, Types
  <2>3. Owner(Head(toAgent)) # j
    BY <2>2, IdTypes, CommandTypes
  <2>4. Line("NODES", known) \in Replies /\ Owner(Line("NODES", known)) # j
    BY IdTypes, OtherLines
  <2>5. Same(toAgent', toAgent, j)
    BY <2>2, <2>3, TailOther DEF Same
  <2>6. Same(toErlang', toErlang, j)
    BY <2>1, <2>2, <2>4, SayEffect
  <2> QED
    BY <1>1, <2>2, <2>5, <2>6, SameJob
<1>3. CASE Agent!JobRequest \/ Agent!JobRelease \/ Agent!JobStatus
  BY <1>3, JobRequestJob, JobReleaseJob, JobStatusJob
<1>4. ASSUME NEW i \in Ids, Agent!Grant(i) \/ Agent!Deny(i) \/ Agent!Timeout(i)
      PROVE  JobInv(j)'
  BY <1>4, DecideJob
<1>5. CASE Agent!Die
  <2>1. /\ toErlang \in Seq(Replies) /\ toErlang' = Append(toErlang, Line("tcp_closed", 0))
        /\ UNCHANGED <<toAgent, status>>
    BY <1>5 DEF Agent!Die, Agent!Line, Line, Types
  <2>2. Line("tcp_closed", 0) \in Replies /\ Owner(Line("tcp_closed", 0)) # j
    BY IdTypes, OtherLines
  <2> QED
    BY <1>1, <2>1, <2>2, AppendOther, SameQueue, SameJob, Zenon DEF Same
<1>6. ~Agent!HangUp
  BY NoHangUp
<1> QED
  BY <1>2, <1>3, <1>4, <1>5, <1>6 DEF Agent!Next, Agent!Command

\* A queue holds lines of its kind.
LEMMA QueueTypes ==
    ASSUME NEW S, NEW q \in Seq(S)
    PROVE  /\ \A l \in S : Append(q, l) \in Seq(S) /\ Range(Append(q, l)) = Range(q) \union {l}
           /\ q # <<>> => /\ Tail(q) \in Seq(S) /\ Range(Tail(q)) \subseteq Range(q)
                          /\ Head(q) \in S /\ Head(q) \in Range(q)
<1>1. ASSUME NEW l \in S
      PROVE  Append(q, l) \in Seq(S) /\ Range(Append(q, l)) = Range(q) \union {l}
  <2>1. /\ DOMAIN q = 1..Len(q) /\ Len(q) \in Nat
        /\ DOMAIN Append(q, l) = 1..(Len(q) + 1)
        /\ \A k \in 1..Len(q) : Append(q, l)[k] = q[k]
        /\ Append(q, l)[Len(q) + 1] = l /\ Append(q, l) \in Seq(S)
    OBVIOUS
  <2> QED
    BY <2>1 DEF Range
<1>2. ASSUME q # <<>>
      PROVE  /\ Tail(q) \in Seq(S) /\ Range(Tail(q)) \subseteq Range(q)
             /\ Head(q) \in S /\ Head(q) \in Range(q)
  <2>1. /\ DOMAIN q = 1..Len(q) /\ Len(q) \in Nat \ {0} /\ Head(q) = q[1] /\ Head(q) \in S
        /\ DOMAIN Tail(q) = 1..(Len(q) - 1) /\ Tail(q) \in Seq(S)
        /\ \A k \in 1..(Len(q) - 1) : Tail(q)[k] = q[k + 1]
    BY <1>2
  <2> QED
    BY <2>1 DEF Range
<1> QED
  BY <1>1, <1>2
\* What is sent to the agent, and taken from it by the coordinator.
LEMMA SendTypes ==
    ASSUME Types, Ends, NEW op, NEW a, Send(op, a), Line(op, a) \in Commands, op # "eof"
    PROVE  toAgent' \in Seq(Commands) /\ (coord = "up" => Line("eof", 0) \notin Range(toAgent'))
<1>1. toAgent \in Seq(Commands) /\ (coord = "up" => Line("eof", 0) \notin Range(toAgent))
  BY DEF Types, Ends
<1>2. Line(op, a) # Line("eof", 0)
  BY DEF Line
<1> QED
  BY <1>1, <1>2, QueueTypes DEF Send

\* The types after the coordinator has read a line of the agent.
LEMMA TakeTypes ==
    ASSUME Types, Ends, NEW ops, Take(ops)
    PROVE  /\ toErlang' \in Seq(Replies)
           /\ link = "open" => Line("tcp_closed", 0) \notin Range(toErlang')
           /\ Head(toErlang) \in Replies /\ Head(toErlang) \in Range(toErlang)
           /\ Head(toErlang).op \in ops /\ coord = "up"
           /\ UNCHANGED <<jobsMap, nextId, job>>
<1>1. /\ toErlang \in Seq(Replies) /\ toErlang # <<>> /\ toErlang' = Tail(toErlang)
      /\ Head(toErlang).op \in ops /\ coord = "up" /\ UNCHANGED <<jobsMap, nextId, job>>
      /\ link = "open" => Line("tcp_closed", 0) \notin Range(toErlang)
  BY DEF Types, Ends, Take
<1> QED
  BY <1>1, QueueTypes

\* The mailboxes after the coordinator has sent a message to some jobs.
LEMMA DeliverTypes ==
    ASSUME Types, NEW S, NEW m \in Messages, Deliver(S, m)
    PROVE  mail' \in [Ids -> Seq(Messages)]
<1>1. \A i \in Ids : mail[i] \in Seq(Messages) /\ Append(mail[i], m) \in Seq(Messages)
  BY DEF Types
<1> QED
  BY <1>1 DEF Deliver

\* The types, the ends of the connection and the jobs to come, for the scheduler.
LEMMA TypesSched ==
    ASSUME LInv, Next, UNCHANGED <<status, link>>
    PROVE  Types' /\ Ends' /\ Fresh'
<1>0. Types /\ Ends /\ Fresh
  BY DEF LInv
<1>1. CASE AskNodes
  <2>1. toAgent' \in Seq(Commands) /\ (coord = "up" => Line("eof", 0) \notin Range(toAgent'))
    BY <1>0, <1>1, OtherLines, SendTypes DEF AskNodes
  <2>2. UNCHANGED <<toErlang, coord, jobsMap, nextId, job, mail, status, link>>
    BY <1>1 DEF AskNodes
  <2>3. genPid' \in BOOLEAN
    BY <1>1 DEF AskNodes
  <2>4. gen' = "wait" /\ nextId \in Ids
    BY <1>1 DEF AskNodes
  <2> QED
    BY <1>0, <2>1, <2>2, <2>3, <2>4 DEF Types, Ends, Fresh
<1>2. CASE NoNodes
  <2>1. /\ UNCHANGED <<toAgent, toErlang, coord, jobsMap, genPid, nextId, job, mail, status, link>>
        /\ gen' = "ask"
    BY <1>2 DEF NoNodes
  <2> QED
    BY <1>0, <2>1 DEF Types, Ends, Fresh
<1>3. CASE Spawn
  <2>1. /\ UNCHANGED <<toAgent, toErlang, coord, jobsMap, genPid, mail, status, link>>
        /\ gen' = "ask" /\ nextId' = nextId + 1 /\ job' = [job EXCEPT ![nextId] = "spawned"]
        /\ nextId \in Ids
    BY <1>0, <1>3 DEF Spawn, Types
  <2>2. nextId' \in Ids \union {1001 + MaxId}
    BY <2>1, LifecycleAssumption DEF Ids
  <2>3. /\ job' \in [Ids -> {"none", "spawned", "waiting", "working", "relaunch", "done", "dead"}]
        /\ \A i \in Ids : i # nextId => job'[i] = job[i]
    BY <1>0, <2>1 DEF Types
  <2>4. Fresh'
    <3> SUFFICES ASSUME NEW i \in Ids, i >= nextId' PROVE job'[i] = "none"
      BY DEF Fresh
    <3>1. i >= nextId /\ i # nextId
      BY <2>1, IdTypes
    <3> QED
      BY <1>0, <2>3, <3>1 DEF Fresh
  <2> QED
    BY <1>0, <2>1, <2>2, <2>3, <2>4 DEF Types, Ends
<1>4. CASE Answer
  <2>1. GenInv /\ \A j \in Ids : JobInv(j)
    BY <1>4 DEF LInv, Answer, Take
  <2>2. Head(toErlang).arg \in jobsMap
    BY <1>0, <1>4, <2>1, AnswerJob, Zenon DEF Answer, Take
  <2>3. /\ toErlang' \in Seq(Replies)
        /\ link = "open" => Line("tcp_closed", 0) \notin Range(toErlang')
        /\ UNCHANGED <<jobsMap, nextId, job>>
    BY <1>0, <1>4, TakeTypes DEF Answer
  <2>4. PICK w : /\ Deliver({Head(toErlang).arg}, w)
                 /\ w = CASE Head(toErlang).op = "JOB_GRANTED" -> "granted"
                          [] Head(toErlang).op = "JOB_DENIED"  -> "denied"
                          [] Head(toErlang).op = "JOB_TIMEOUT" -> "timeout"
    BY <1>4, <2>2, Zenon DEF Answer
  <2>5. w \in Messages
    BY <1>4, <2>4, Zenon DEF Answer, Take, Messages
  <2>6. mail' \in [Ids -> Seq(Messages)]
    BY <1>0, <2>4, <2>5, DeliverTypes, Zenon
  <2>7. UNCHANGED <<coord, toAgent, genPid, gen>>
    BY <1>4, <2>2 DEF Answer
  <2> QED
    BY <1>0, <2>3, <2>6, <2>7 DEF Types, Ends, Fresh
<1>5. CASE Waiting
  <2>1. /\ toErlang' \in Seq(Replies)
        /\ link = "open" => Line("tcp_closed", 0) \notin Range(toErlang')
        /\ UNCHANGED <<jobsMap, nextId, job>>
    BY <1>0, <1>5, TakeTypes DEF Waiting
  <2>2. UNCHANGED <<toAgent, coord, genPid, gen, mail>>
    BY <1>5 DEF Waiting
  <2> QED
    BY <1>0, <2>1, <2>2 DEF Types, Ends, Fresh
<1>6. CASE Nodes
  <2>1. /\ toErlang' \in Seq(Replies)
        /\ link = "open" => Line("tcp_closed", 0) \notin Range(toErlang')
        /\ UNCHANGED <<jobsMap, nextId, job>>
        /\ Head(toErlang) \in Replies /\ Head(toErlang).op = "NODES" /\ coord = "up"
    BY <1>0, <1>6, TakeTypes DEF Nodes
  <2>2. gen = "wait" /\ genPid
    <3>1. Owner(Head(toErlang)) = 0
      BY <2>1, ReplyTypes
    <3>2. toErlang \in Seq(Replies) /\ toErlang # <<>>
      BY <1>0, <1>6 DEF Nodes, Take, Types
    <3>3. Ops(toErlang, 0) = Ops(Tail(toErlang), 0) \union {"NODES"}
      BY <2>1, <3>1, <3>2, TailOwn
    <3> QED
      BY <2>1, <3>3, Zenon DEF LInv, GenInv
  <2>3. gen' \in {"parsed", "empty"} /\ UNCHANGED <<coord, toAgent, mail>> /\ genPid' = FALSE
    BY <1>6, <2>2 DEF Nodes
  <2>4. nextId \in Ids
    BY <1>0, <2>2 DEF Types
  <2> QED
    BY <1>0, <2>1, <2>3, <2>4, Zenon DEF Types, Ends, Fresh
<1>7. CASE Closed
  <2>1. /\ toErlang' \in Seq(Replies)
        /\ link = "open" => Line("tcp_closed", 0) \notin Range(toErlang')
        /\ UNCHANGED <<jobsMap, nextId, job>>
        /\ Head(toErlang) \in Replies /\ Head(toErlang) \in Range(toErlang)
        /\ Head(toErlang).op = "tcp_closed"
    BY <1>0, <1>7, TakeTypes DEF Closed
  <2>2. link = "dead"
    <3>1. Head(toErlang) = Line("tcp_closed", 0)
      BY <2>1, ReplyTypes
    <3> QED
      BY <1>0, <2>1, <3>1 DEF Types, Ends
  <2>3. coord' = "closed" /\ toAgent' \in Seq(Commands) /\ UNCHANGED <<genPid, gen>>
    <3>1. toAgent \in Seq(Commands) /\ Line("eof", 0) \in Commands
      BY <1>0, OtherLines DEF Types
    <3> QED
      BY <1>7, <3>1, QueueTypes DEF Closed, End
  <2>4. mail' \in [Ids -> Seq(Messages)]
    BY <1>0, <1>7, DeliverTypes DEF Closed, Messages
  <2> QED
    BY <1>0, <2>1, <2>2, <2>3, <2>4 DEF Types, Ends, Fresh
<1>8. ASSUME NEW i \in Ids, Register(i) \/ Finish(i) PROVE Types' /\ Ends' /\ Fresh'
  <2>1. toAgent' \in Seq(Commands) /\ (coord = "up" => Line("eof", 0) \notin Range(toAgent'))
    BY <1>0, <1>8, JobLines, SendTypes, Zenon DEF Register, Finish
  <2>2. UNCHANGED <<toErlang, coord, genPid, gen, nextId, mail>> /\ jobsMap' \subseteq Ids
    BY <1>0, <1>8 DEF Register, Finish, Types
  <2>3. PICK s \in {"waiting", "done"} : job' = [job EXCEPT ![i] = s] /\ job[i] # "none"
    BY <1>8, Zenon DEF Register, Finish
  <2>4. /\ job' \in [Ids -> {"none", "spawned", "waiting", "working", "relaunch", "done", "dead"}]
        /\ \A j \in Ids : job[j] = "none" => job'[j] = "none"
    BY <1>0, <2>3 DEF Types
  <2> QED
    BY <1>0, <2>1, <2>2, <2>4 DEF Types, Ends, Fresh
<1>9. ASSUME NEW i \in Ids, Receive(i) PROVE Types' /\ Ends' /\ Fresh'
  <2>1. UNCHANGED <<toAgent, toErlang, coord, jobsMap, genPid, gen, nextId>>
    BY <1>9 DEF Receive
  <2>2. /\ mail[i] # <<>> /\ mail[i] \in Seq(Messages) /\ Head(mail[i]) \in Messages
        /\ Tail(mail[i]) \in Seq(Messages) /\ job[i] # "none"
    <3>1. mail[i] # <<>> /\ mail[i] \in Seq(Messages) /\ job[i] # "none"
      BY <1>0, <1>9 DEF Receive, Types
    <3> QED
      BY <3>1, QueueTypes
  <2>3. mail' \in [Ids -> Seq(Messages)]
    BY <1>0, <1>9, <2>2 DEF Receive, Types
  <2>4. PICK s \in {"working", "relaunch", "dead"} : job' = [job EXCEPT ![i] = s]
    BY <1>9, <2>2, Zenon DEF Receive, Messages
  <2>5. /\ job' \in [Ids -> {"none", "spawned", "waiting", "working", "relaunch", "done", "dead"}]
        /\ \A j \in Ids : job[j] = "none" => job'[j] = "none"
    BY <1>0, <2>2, <2>4 DEF Types
  <2> QED
    BY <1>0, <2>1, <2>3, <2>5 DEF Types, Ends, Fresh
<1>10. ASSUME NEW i \in Ids, Status(i) PROVE Types' /\ Ends' /\ Fresh'
  <2>1. toAgent' \in Seq(Commands) /\ (coord = "up" => Line("eof", 0) \notin Range(toAgent'))
    BY <1>0, <1>10, JobLines, SendTypes DEF Status
  <2>2. UNCHANGED <<toErlang, coord, jobsMap, genPid, gen, nextId, job, mail>>
    BY <1>10 DEF Status, schedVars
  <2>3. Types'
    BY <1>0, <2>1, <2>2 DEF Types
  <2>4. Ends' /\ Fresh'
    BY <1>0, <2>1, <2>2, Zenon DEF Ends, Fresh
  <2> QED
    BY <2>3, <2>4
<1> QED
  BY <1>1, <1>2, <1>3, <1>4, <1>5, <1>6, <1>7, <1>8, <1>9, <1>10, Zenon
  DEF Next, Generate, Coordinate, JobStep
\* ... and for the agent.
LEMMA TypesAgent ==
    ASSUME Types, Ends, Fresh, Agent!Next \/ Agent!Die, UNCHANGED schedVars
    PROVE  Types' /\ Ends' /\ Fresh'
<1>0. UNCHANGED <<coord, jobsMap, genPid, gen, nextId, job, mail>>
  BY DEF schedVars
<1>1. /\ toAgent \in Seq(Commands) /\ toErlang \in Seq(Replies) /\ link \in {"open", "dead"}
      /\ status \in [Ids -> {"none", "waiting", "granted"}]
      /\ coord = "up" => Line("eof", 0) \notin Range(toAgent)
      /\ link = "open" => Line("tcp_closed", 0) \notin Range(toErlang)
  BY DEF Types, Ends
<1>2. ASSUME toAgent' \in Seq(Commands), toErlang' \in Seq(Replies),
             Range(toAgent') \subseteq Range(toAgent),
             status' \in [Ids -> {"none", "waiting", "granted"}],
             \/ link' = link /\ (link = "open" => Line("tcp_closed", 0) \notin Range(toErlang'))
             \/ link' = "dead"
      PROVE  Types' /\ Ends' /\ Fresh'
  <2>1. Types'
    BY <1>0, <1>1, <1>2 DEF Types
  <2>2. Ends'
    BY <1>0, <1>1, <1>2 DEF Ends
  <2>3. Fresh'
    BY <1>0 DEF Fresh
  <2> QED
    BY <2>1, <2>2, <2>3
<1>3. ASSUME NEW op \in {"JOB_GRANTED", "JOB_DENIED", "JOB_TIMEOUT", "WAITING", "NODES"}, NEW a,
             Line(op, a) \in Replies, Agent!Say(op, a)
      PROVE  /\ toErlang' \in Seq(Replies)
             /\ link = "open" => Line("tcp_closed", 0) \notin Range(toErlang')
  <2>1. toErlang' = toErlang \/ toErlang' = Append(toErlang, Line(op, a))
    BY <1>3 DEF Agent!Say, Agent!Line, Line
  <2>2. Line(op, a) # Line("tcp_closed", 0)
    BY DEF Line
  <2>3. /\ Append(toErlang, Line(op, a)) \in Seq(Replies)
        /\ Range(Append(toErlang, Line(op, a))) = Range(toErlang) \union {Line(op, a)}
    BY <1>1, <1>3, QueueTypes
  <2>4. CASE toErlang' = toErlang
    BY <1>1, <2>4, Zenon
  <2>5. CASE toErlang' = Append(toErlang, Line(op, a))
    <3>1. toErlang' \in Seq(Replies)
      BY <2>3, <2>5, Zenon
    <3>2. Range(toErlang') = Range(toErlang) \union {Line(op, a)}
      BY <2>3, <2>5, Zenon
    <3> QED
      BY <1>1, <2>2, <3>1, <3>2, Zenon
  <2> QED
    BY <2>1, <2>4, <2>5, Zenon
<1>4. ASSUME NEW op, Agent!Take(op)
      PROVE  /\ toAgent' \in Seq(Commands) /\ Range(toAgent') \subseteq Range(toAgent)
             /\ Head(toAgent) \in Commands /\ Head(toAgent).op = op
  BY <1>1, <1>4, QueueTypes DEF Agent!Take
<1>5. CASE Agent!JobRequest
  <2>1. /\ toAgent' \in Seq(Commands) /\ Range(toAgent') \subseteq Range(toAgent)
        /\ Head(toAgent).arg \in Ids /\ link' = link
    BY <1>4, <1>5, CommandTypes DEF Agent!JobRequest
  <2>2. /\ status' \in [Ids -> {"none", "waiting", "granted"}]
        /\ toErlang' = toErlang \/ Agent!Say("JOB_DENIED", Head(toAgent).arg)
    BY <1>1, <1>5 DEF Agent!JobRequest
  <2>3. /\ toErlang' \in Seq(Replies)
        /\ link = "open" => Line("tcp_closed", 0) \notin Range(toErlang')
    BY <1>1, <1>3, <2>1, <2>2, JobLines, Zenon
  <2> QED
    BY <1>2, <2>1, <2>2, <2>3
<1>6. CASE Agent!JobRelease
  <2>1. /\ toAgent' \in Seq(Commands) /\ Range(toAgent') \subseteq Range(toAgent)
        /\ link' = link /\ toErlang' = toErlang
    BY <1>4, <1>6 DEF Agent!JobRelease
  <2>2. status' \in [Ids -> {"none", "waiting", "granted"}]
    BY <1>1, <1>6, Zenon DEF Agent!JobRelease
  <2> QED
    BY <1>1, <1>2, <2>1, <2>2
<1>7. CASE Agent!JobStatus
  <2>1. /\ toAgent' \in Seq(Commands) /\ Range(toAgent') \subseteq Range(toAgent)
        /\ Head(toAgent).arg \in Ids /\ link' = link /\ status' = status
    BY <1>4, <1>7, CommandTypes, Zenon DEF Agent!JobStatus
  <2>2. status[Head(toAgent).arg] \in {"none", "waiting", "granted"}
    BY <1>1, <2>1
  <2>3. PICK op \in {"JOB_TIMEOUT", "WAITING", "JOB_GRANTED"} : Agent!Say(op, Head(toAgent).arg)
    BY <1>7, <2>2, Zenon DEF Agent!JobStatus
  <2>4. /\ toErlang' \in Seq(Replies)
        /\ link = "open" => Line("tcp_closed", 0) \notin Range(toErlang')
    <3>1. Line(op, Head(toAgent).arg) \in Replies
      BY <2>1, JobLines
    <3> QED
      BY <1>3, <2>3, <3>1
  <2> QED
    BY <1>1, <1>2, <2>1, <2>4
<1>8. CASE Agent!GetNodes
  <2>1. /\ toAgent' \in Seq(Commands) /\ Range(toAgent') \subseteq Range(toAgent)
        /\ link' = link /\ status' = status
    BY <1>4, <1>8 DEF Agent!GetNodes
  <2>2. PICK known \in 0..1 : Agent!Say("NODES", known)
    BY <1>8 DEF Agent!GetNodes
  <2>3. /\ toErlang' \in Seq(Replies)
        /\ link = "open" => Line("tcp_closed", 0) \notin Range(toErlang')
    BY <1>3, <2>2, OtherLines
  <2> QED
    BY <1>1, <1>2, <2>1, <2>3
<1>9. ASSUME NEW i \in Ids, Agent!Grant(i) \/ Agent!Deny(i) \/ Agent!Timeout(i)
      PROVE  Types' /\ Ends' /\ Fresh'
  <2>1. PICK op \in {"JOB_GRANTED", "JOB_DENIED", "JOB_TIMEOUT"} : Agent!Say(op, i)
    BY <1>9 DEF Agent!Grant, Agent!Deny, Agent!Timeout
  <2>2. /\ toErlang' \in Seq(Replies)
        /\ link = "open" => Line("tcp_closed", 0) \notin Range(toErlang')
    BY <1>3, <2>1, JobLines
  <2>3. UNCHANGED <<toAgent, link>> /\ status' \in [Ids -> {"none", "waiting", "granted"}]
    BY <1>1, <1>9 DEF Agent!Grant, Agent!Deny, Agent!Timeout
  <2> QED
    BY <1>1, <1>2, <2>2, <2>3
<1>10. CASE Agent!Die
  <2>1. /\ toErlang' = Append(toErlang, Line("tcp_closed", 0)) /\ link' = "dead"
        /\ UNCHANGED <<toAgent, status>>
    BY <1>10 DEF Agent!Die, Agent!Line, Line
  <2>2. toErlang' \in Seq(Replies)
    BY <1>1, <2>1, QueueTypes, OtherLines, Zenon
  <2> QED
    BY <1>1, <1>2, <2>1, <2>2
<1>11. ~Agent!HangUp
  BY NoHangUp
<1> QED
  BY <1>5, <1>6, <1>7, <1>8, <1>9, <1>10, <1>11, Zenon DEF Agent!Next, Agent!Command

\* Where the coordinator has ended nothing more is sent to the agent, which is gone.
LEMMA RequestsStep ==
    ASSUME LInv, LNext, coord' = "closed"
    PROVE  Requests'
<1>1. Types /\ Ends /\ coord \in {"up", "closed"}
  BY DEF LInv, Types
<1>2. ASSUME coord = "up", NEW i \in Ids, "JOB_REQUEST" \in Ops(toAgent, i)
      PROVE  status[i] = "none"
  BY <1>1, <1>2, WhereItStands DEF LInv, Asked
<1>3. Requests
  BY <1>1, <1>2 DEF LInv, Requests
<1>4. CASE coord = "up"
  <2>1. Closed /\ UNCHANGED status
    <3>1. Next /\ UNCHANGED status
      BY <1>4 DEF LNext, schedVars
    <3>2. ~Answer
      <4>1. ASSUME Answer PROVE FALSE
        <5>1. coord' \in {"up", "crashed"}
          BY <1>4, <4>1 DEF Answer, End
        <5> QED
          BY <5>1
      <4> QED
        BY <4>1
    <3>3. ~Nodes /\ ~Waiting
      BY <1>4 DEF Nodes, Waiting, End
    <3>4. ~Generate /\ \A i \in Ids : ~(JobStep(i) \/ Status(i))
      BY <1>4 DEF Generate, AskNodes, NoNodes, Spawn, JobStep, Register, Receive, Finish, Status,
                  schedVars
    <3> QED
      BY <3>1, <3>2, <3>3, <3>4 DEF Next, Coordinate
  <2>2. toAgent' = Append(toAgent, Line("eof", 0)) /\ toAgent \in Seq(Commands)
    BY <1>1, <2>1 DEF Closed, End, Types
  <2>3. \A i \in Ids : Ops(toAgent', i) = Ops(toAgent, i)
    BY <2>2, IdTypes, OtherLines, AppendOther
  <2> QED
    BY <1>3, <2>1, <2>3 DEF Requests
<1>5. CASE coord = "closed"
  <2>1. link = "dead"
    BY <1>1, <1>5 DEF Ends
  <2>2. UNCHANGED <<toAgent, status>>
    <3>1. CASE Next /\ UNCHANGED <<status, link>>
      BY <1>5, <3>1, Zenon
      DEF Next, Generate, AskNodes, NoNodes, Spawn, JobStep, Register, Receive, Finish, Status,
          Coordinate, Answer, Waiting, Nodes, Closed, Take, Send
    <3>2. ~Agent!Next /\ ~Agent!Die
      BY <2>1
      DEF Agent!Next, Agent!Command, Agent!JobRequest, Agent!JobRelease, Agent!JobStatus,
          Agent!GetNodes, Agent!HangUp, Agent!Take, Agent!Grant, Agent!Deny, Agent!Timeout,
          Agent!Die
    <3> QED
      BY <3>1, <3>2 DEF LNext
  <2> QED
    BY <1>3, <2>2 DEF Requests
<1> QED
  BY <1>1, <1>4, <1>5

\* LInv is inductive.
LEMMA LInvInit == LInit => LInv
<1> SUFFICES ASSUME LInit PROVE LInv
  OBVIOUS
<1>1. /\ toAgent = <<>> /\ toErlang = <<>> /\ coord = "up" /\ jobsMap = {} /\ genPid = FALSE
      /\ gen = "ask" /\ nextId = 1001 /\ job = [i \in Ids |-> "none"]
      /\ mail = [i \in Ids |-> <<>>] /\ status = [i \in Ids |-> "none"] /\ link = "open"
  BY DEF LInit, Init, Agent!Init
<1>2. nextId \in Ids \union {1001 + MaxId}
  BY <1>1, LifecycleAssumption DEF Ids
<1>3. Types
  <2>1. /\ mail \in [Ids -> Seq(Messages)]
        /\ toAgent \in Seq(Commands) /\ toErlang \in Seq(Replies)
    BY <1>1
  <2>2. /\ job \in [Ids -> {"none", "spawned", "waiting", "working", "relaunch", "done", "dead"}]
        /\ status \in [Ids -> {"none", "waiting", "granted"}]
    BY <1>1
  <2>3. jobsMap \subseteq Ids /\ genPid \in BOOLEAN
    BY <1>1, Zenon
  <2>4. /\ coord \in {"up", "closed"} /\ gen \in {"ask", "wait", "empty", "parsed"}
        /\ link \in {"open", "dead"} /\ ~(gen # "ask")
    BY <1>1
  <2> QED
    BY <1>2, <2>1, <2>2, <2>3, <2>4, SMT DEF Types
<1>4. Ends /\ Fresh
  BY <1>1 DEF Ends, Fresh, Range
<1>5. \A p : Ops(toAgent, p) = {} /\ Ops(toErlang, p) = {}
  BY <1>1 DEF Ops, Lines
<1>6. GenInv
  BY <1>1, <1>5 DEF GenInv
<1>7. \A i \in Ids : Quiet(i) /\ job[i] = "none"
  BY <1>1, <1>5 DEF Quiet
<1>8. \A i \in Ids : JobInv(i)
  BY <1>5, <1>7 DEF JobInv
<1> QED
  BY <1>1, <1>3, <1>4, <1>6, <1>8 DEF LInv

\* ... and every step of the scheduler and of the agent keeps it.
LEMMA LInvStep == ASSUME Calm, LInv, [LNext]_vars PROVE LInv'
<1>1. CASE UNCHANGED vars
  <2>1. /\ UNCHANGED <<toAgent, toErlang, coord, jobsMap, genPid, gen, nextId, job, mail,
                       status, link>>
    BY <1>1 DEF vars, schedVars
  <2>2. Types' /\ Ends' /\ Fresh' /\ (coord' = "closed" => Requests')
    <3>1. Types'
      BY <2>1 DEF LInv, Types
    <3>2. Ends' /\ Fresh'
      BY <2>1 DEF LInv, Ends, Fresh
    <3>3. coord' = "closed" => Requests'
      BY <2>1 DEF LInv, Requests
    <3> QED
      BY <3>1, <3>2, <3>3
  <2>3. coord' = "up" => GenInv' /\ \A i \in Ids : JobInv(i)'
    BY <2>1, SameGen, SameJob, SameQueue DEF LInv
  <2> QED
    BY <2>2, <2>3 DEF LInv
<1>2. CASE LNext
  <2>1. Types /\ Ends /\ Fresh
    BY DEF LInv
  <2>2. CASE Next /\ UNCHANGED <<status, link>>
    <3>1. Types' /\ Ends' /\ Fresh'
      BY <2>2, TypesSched
    <3>2. ASSUME coord' = "up" PROVE GenInv' /\ \A i \in Ids : JobInv(i)'
      <4>1. coord = "up"
        BY <2>1, <2>2, <3>2
        DEF Types, Next, Generate, AskNodes, NoNodes, Spawn, JobStep, Register, Receive, Finish,
            Status, Coordinate, Answer, Waiting, Nodes, Closed, Take, schedVars
      <4> QED
        BY <2>1, <2>2, <3>2, <4>1, GenSched, JobsSched DEF LInv
    <3> QED
      BY <1>2, <3>1, <3>2, RequestsStep DEF LInv
  <2>3. CASE (Agent!Next \/ Agent!Die) /\ UNCHANGED schedVars
    <3>1. Types' /\ Ends' /\ Fresh'
      BY <2>1, <2>3, TypesAgent
    <3>2. ASSUME coord' = "up" PROVE GenInv' /\ \A i \in Ids : JobInv(i)'
      <4>1. coord = "up"
        BY <2>3, <3>2 DEF schedVars
      <4> QED
        BY <2>1, <2>3, <4>1, GenAgent, JobsAgent DEF LInv
    <3> QED
      BY <1>2, <3>1, <3>2, RequestsStep DEF LInv
  <2> QED
    BY <1>2, <2>2, <2>3 DEF LNext
<1> QED
  BY <1>1, <1>2
-----------------------------------------------------------------------------
(* What follows.                                                            *)

\* So it holds in every state.
LEMMA LInvHolds == ASSUME Calm PROVE LSpec => []LInv
<1>1. LInv /\ [LNext]_vars => LInv'
  BY LInvStep
<1> QED
  BY LInvInit, <1>1, PTL DEF LSpec

\* What is in the queue is said in it.
LEMMA SaidInQueue ==
    ASSUME NEW S, NEW q \in Seq(S), NEW i \in Ids,
           NEW op \in {"JOB_REQUEST", "JOB_RELEASE", "JOB_GRANTED"}
    PROVE  /\ op \in Ops(q, i) => \E l \in Range(q) : l.op = op /\ l.arg = i
           /\ \A l \in Range(q) : l = Line(op, i) => op \in Ops(q, i)
<1>1. ASSUME op \in Ops(q, i) PROVE \E l \in Range(q) : l.op = op /\ l.arg = i
  <2>1. PICK k \in DOMAIN q : q[k].op = op /\ Owner(q[k]) = i
    BY <1>1 DEF Ops, Lines
  <2>2. q[k].arg = i
    BY <2>1 DEF Owner
  <2> QED
    BY <2>1, <2>2 DEF Range
<1>2. ASSUME NEW l \in Range(q), l = Line(op, i) PROVE op \in Ops(q, i)
  <2>1. PICK k \in DOMAIN q : q[k] = l
    BY <1>2 DEF Range
  <2>2. Owner(l) = i /\ l.op = op
    BY <1>2 DEF Owner, Line
  <2> QED
    BY <2>1, <2>2 DEF Ops, Lines
<1> QED
  BY <1>1, <1>2

\* Every variable of the scheduler and of the agent's side keeps its type, when every
\* job that asks for its status is answered before its timeout (Calm).
THEOREM LifecycleTyped == ASSUME Calm PROVE LSpec => []LTypeOK
<1>1. LInv => LTypeOK
  <2> SUFFICES ASSUME LInv PROVE LTypeOK
    OBVIOUS
  <2>1. Types
    BY DEF LInv
  <2>2. \A i \in Ids : Range(mail[i]) \subseteq Messages
    <3> SUFFICES ASSUME NEW i \in Ids PROVE Range(mail[i]) \subseteq Messages
      OBVIOUS
    <3>1. mail[i] \in Seq(Messages)
      BY <2>1 DEF Types
    <3> QED
      BY <3>1 DEF Range
  <2> QED
    BY <2>1, <2>2 DEF Types, LTypeOK, Messages
<1> QED
  BY <1>1, LInvHolds, PTL

\* No line of the agent makes the coordinator fail: it answers only jobs that are
\* in Jobs_Map, and the generator only while the coordinator knows it (maps:get
\* in msg_to_job, GenPid ! {nodes, Rest}).
THEOREM CoordinatorSafe == ASSUME Calm PROVE LSpec => []CoordinatorUp
<1>1. LInv => CoordinatorUp
  BY DEF LInv, Types, CoordinatorUp
<1> QED
  BY <1>1, LInvHolds, PTL

\* A job works only while the agent holds every resource of it.
THEOREM WorkBacked == ASSUME Calm PROVE LSpec => []WorkIsBacked
<1>1. LInv => WorkIsBacked
  <2> SUFFICES ASSUME LInv, NEW i \in Ids, job[i] = "working", link = "open"
               PROVE  status[i] = "granted"
    BY DEF WorkIsBacked
  <2>1. coord = "up"
    <3>1. Types /\ Ends
      BY Zenon DEF LInv
    <3>2. coord \in {"up", "closed"}
      BY <3>1, Zenon DEF Types
    <3> QED
      BY <3>1, <3>2 DEF Ends
  <2> QED
    BY <2>1, Zenon DEF LInv, JobInv, Working
<1> QED
  BY <1>1, LInvHolds, PTL

\* What the agent holds for a job has an owner: the job works, or will hear of the
\* grant, or has sent JOB_RELEASE.
THEOREM HeldOwned == ASSUME Calm PROVE LSpec => []HeldHasOwner
<1>1. LInv => HeldHasOwner
  <2> SUFFICES ASSUME LInv, NEW i \in Ids, status[i] = "granted", link = "open", coord = "up"
               PROVE  \/ job[i] = "working"
                      \/ /\ job[i] = "waiting"
                         /\ \/ Line("JOB_GRANTED", i) \in Range(toErlang)
                            \/ "granted" \in Range(mail[i])
                      \/ Line("JOB_RELEASE", i) \in Range(toAgent)
    BY DEF HeldHasOwner
  <2>0. toAgent \in Seq(Commands) /\ toErlang \in Seq(Replies) /\ mail[i] \in Seq(Messages)
    BY DEF LInv, Types
  <2>1. /\ JobInv(i)
        /\ job[i] \in {"none", "spawned", "waiting", "working", "relaunch", "done", "dead"}
    BY DEF LInv, Types
  <2>2. job[i] = "working" \/ (job[i] = "waiting" /\ Held(i)) \/ (job[i] = "done" /\ Done(i))
    BY <2>1, Zenon DEF JobInv, Quiet, Asked, Queued, Refused, Told, Dead
  <2>3. CASE job[i] = "waiting" /\ Held(i)
    <3>1. CASE mail[i] # <<>>
      <4>1. Head(mail[i]) \in Range(mail[i])
        BY <2>0, <3>1, QueueTypes
      <4> QED
        BY <2>3, <4>1 DEF Held
    <3>2. CASE mail[i] = <<>>
      <4>1. "JOB_GRANTED" \in Ops(toErlang, i)
        BY <2>3, <3>2 DEF Held
      <4>2. PICK l \in Range(toErlang) : l.op = "JOB_GRANTED" /\ l.arg = i
        BY <2>0, <4>1, SaidInQueue
      <4>3. l \in Replies
        BY <2>0, <4>2 DEF Range
      <4>4. l = Line("JOB_GRANTED", i)
        BY <4>2, <4>3 DEF Replies, Line
      <4> QED
        BY <2>3, <4>4
    <3> QED
      BY <3>1, <3>2
  <2>4. CASE job[i] = "done" /\ Done(i)
    <3>1. "JOB_RELEASE" \in Ops(toAgent, i)
      BY <2>4 DEF Done
    <3>2. PICK l \in Range(toAgent) : l.op = "JOB_RELEASE" /\ l.arg = i
      BY <2>0, <3>1, SaidInQueue
    <3>3. l \in Commands
      BY <2>0, <3>2 DEF Range
    <3>4. l = Line("JOB_RELEASE", i)
      BY <3>2, <3>3, CommandTypes
    <3> QED
      BY <3>4
  <2> QED
    BY <2>2, <2>3, <2>4
<1> QED
  BY <1>1, LInvHolds, PTL

\* The agent is never asked for a job it still has.
THEOREM RequestsNew == ASSUME Calm PROVE LSpec => []RequestIsNew
<1>1. LInv => RequestIsNew
  <2> SUFFICES ASSUME LInv, toAgent # <<>>, Head(toAgent).op = "JOB_REQUEST"
               PROVE  status[Head(toAgent).arg] = "none"
    BY DEF RequestIsNew
  <2>1. /\ Types /\ coord \in {"up", "closed"} /\ toAgent \in Seq(Commands)
        /\ Head(toAgent) \in Commands
    BY DEF LInv, Types
  <2>2. PICK i \in Ids : i = Head(toAgent).arg /\ Owner(Head(toAgent)) = i
    BY <2>1, CommandTypes
  <2>3. Ops(toAgent, i) = Ops(Tail(toAgent), i) \union {"JOB_REQUEST"}
    BY <2>1, <2>2, TailOwn
  <2>4. CASE coord = "up"
    <3>1. JobInv(i) /\ "JOB_REQUEST" \in Ops(toAgent, i)
      BY <2>3, <2>4 DEF LInv
    <3> QED
      BY <2>1, <2>2, <2>4, <3>1, WhereItStands DEF Asked
  <2>5. CASE coord = "closed"
    BY <2>2, <2>3, <2>5 DEF LInv, Requests
  <2> QED
    BY <2>1, <2>4, <2>5
<1> QED
  BY <1>1, LInvHolds, PTL
=============================================================================
