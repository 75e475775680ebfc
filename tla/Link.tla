--------------------------------- MODULE Link ---------------------------------
(***************************************************************************)
(* How bytes become commands: the two listening sockets, the connections   *)
(* the workers accept, the buffer each descriptor has for its unfinished   *)
(* line, and erlangfd, by which a worker tells the scheduler's connection  *)
(* from those of other nodes.                                              *)
(*                                                                         *)
(* A byte is known by its connection and its place in what that sends.     *)
(* Only inbound connections are here; LocalJobs has the outbound ones.     *)
(***************************************************************************)
EXTENDS Integers, Sequences, FiniteSets, FiniteSetsExt, SequencesExt

CONSTANTS
    Conns,       \* connections that are made to the agent,
    Schedulers,  \* those of them from the scheduler,
    Lines,       \* and the lengths of the lines each sends, newline included
    Fds, Workers,
    BufferLen,   \* BUFFER_LEN
    None

ASSUME LinkAssumption ==
    /\ Schedulers \subseteq Conns
    /\ Lines \in [Conns -> Seq(Nat \ {0})]
    /\ BufferLen \in Nat /\ BufferLen > 1

VARIABLES
    sent,      \* bytes each peer has sent
    got,       \* bytes recv has taken of them
    peer,      \* "new", "up" or "hung" (the peer has closed its end)
    backlog,   \* connections no worker has accepted, by listening socket
    owner,     \* the connection behind each descriptor, or None
    armed,     \* descriptors that epoll watches; the others are served
    buf,       \* connections[fd]: the bytes accumulated
    erlangfd,
    pc, cur,   \* what each worker does, and with which descriptor
    handed     \* history: the lines handed over, by connection

wire == <<sent, peer>>
vars == <<wire, got, backlog, owner, armed, buf, erlangfd, pc, cur, handed>>

\* Place of the last byte of line i, and which bytes are newlines.
End == [c \in Conns |-> [i \in DOMAIN Lines[c] |-> FoldSeq(+, 0, SubSeq(Lines[c], 1, i))]]
Total(c) == Max(Range(End[c]))
IsNewline(b) == b.pos \in Range(End[b.conn])

-----------------------------------------------------------------------------

initialize_connection_buffers == buf = [f \in Fds |-> <<>>]

\* initialize_listen_sockets and setup_epoll, and connections yet to be made.
initialize_listen_sockets ==
    backlog = [k \in {"erlang", "server"} |-> <<>>]

setup_epoll ==
    /\ armed = {}
    /\ erlangfd = None
    /\ pc = [w \in Workers |-> "wait"]
    /\ cur = [w \in Workers |-> None]

Init ==
    /\ sent = [c \in Conns |-> 0]
    /\ got = [c \in Conns |-> 0]
    /\ peer = [c \in Conns |-> "new"]
    /\ owner = [f \in Fds |-> None]
    /\ handed = [c \in Conns |-> <<>>]
    /\ initialize_connection_buffers
    /\ initialize_listen_sockets
    /\ setup_epoll

-----------------------------------------------------------------------------
(* The peers.                                                               *)

Socket(c) == IF c \in Schedulers THEN "erlang" ELSE "server"

\* Connections in a backlog or behind a descriptor.
Present == {c \in Conns : \/ \E f \in Fds : owner[f] = c
                          \/ \E k \in DOMAIN backlog : c \in Range(backlog[k])}

\* There is one scheduler at a time, and a descriptor for every connection.
Connect(c) ==
    /\ peer[c] = "new"
    /\ Cardinality(Present) < Cardinality(Fds)
    /\ c \in Schedulers => \A d \in Schedulers : peer[d] # "up"
    /\ peer' = [peer EXCEPT ![c] = "up"]
    /\ backlog' = [backlog EXCEPT ![Socket(c)] = Append(@, c)]
    /\ UNCHANGED <<sent, got, owner, armed, buf, erlangfd, pc, cur, handed>>

Send(c) ==
    /\ peer[c] = "up"
    /\ sent[c] < Total(c)
    /\ sent' = [sent EXCEPT ![c] = @ + 1]
    /\ UNCHANGED <<peer, got, backlog, owner, armed, buf, erlangfd, pc, cur, handed>>

Hangup(c) ==
    /\ peer[c] = "up"
    /\ peer' = [peer EXCEPT ![c] = "hung"]
    /\ UNCHANGED <<sent, got, backlog, owner, armed, buf, erlangfd, pc, cur, handed>>

-----------------------------------------------------------------------------
(* The event loop.                                                          *)

Goto(w, p) == pc' = [pc EXCEPT ![w] = p]
With(w, f) == cur' = [cur EXCEPT ![w] = f]

\* epoll_wait returns a listening socket.  It is level-triggered: until the
\* connection is accepted it can be returned to other workers too.
WakeListen(w, k) ==
    /\ pc[w] = "wait"
    /\ backlog[k] # <<>>
    /\ Goto(w, k)
    /\ UNCHANGED <<wire, got, backlog, owner, armed, buf, erlangfd, cur, handed>>

\* connect_client and connect_erlang: accept4 and, one-shot, EPOLL_CTL_ADD.
Accept(k, f) ==
    /\ backlog[k] # <<>>
    /\ owner[f] = None
    /\ owner' = [owner EXCEPT ![f] = Head(backlog[k])]
    /\ backlog' = [backlog EXCEPT ![k] = Tail(@)]
    /\ armed' = armed \union {f}

connect_client(w) ==
    /\ pc[w] = "server"
    /\ Goto(w, "wait")
    /\ \/ \E f \in Fds : Accept("server", f)
       \/ backlog["server"] = <<>> /\ UNCHANGED <<backlog, owner, armed>>
    /\ UNCHANGED <<wire, got, buf, erlangfd, cur, handed>>

\* When the connection is gone accept4 fails and -1 is returned.
connect_erlang(w) ==
    /\ pc[w] = "erlang"
    /\ Goto(w, "assign")
    /\ \/ \E f \in Fds : Accept("erlang", f) /\ With(w, f)
       \/ /\ backlog["erlang"] = <<>>
          /\ With(w, None)
          /\ UNCHANGED <<backlog, owner, armed>>
    /\ UNCHANGED <<wire, got, buf, erlangfd, handed>>

\* Event A assigns what connect_erlang has returned.
Assign(w) ==
    /\ pc[w] = "assign"
    /\ erlangfd' = cur[w]
    /\ Goto(w, "wait") /\ With(w, None)
    /\ UNCHANGED <<wire, got, backlog, owner, armed, buf, handed>>

Readable(f) == owner[f] # None /\ (got[owner[f]] < sent[owner[f]] \/ peer[owner[f]] = "hung")

\* epoll_wait returns a connection and disarms it: event F or event H.
WakeRead(w, f) ==
    /\ pc[w] = "wait"
    /\ f \in armed
    /\ Readable(f)
    /\ armed' = armed \ {f}
    /\ Goto(w, IF f = erlangfd THEN "F" ELSE "H") /\ With(w, f)
    /\ UNCHANGED <<wire, got, backlog, owner, buf, erlangfd, handed>>

-----------------------------------------------------------------------------
(* read_until_newline.                                                      *)

Newlines(s) == {i \in DOMAIN s : IsNewline(s[i])}

\* What is kept of the buffer before recv: nothing if it is full.
Kept(s) == IF BufferLen - Len(s) - 1 <= 0 THEN <<>> ELSE s

\* Fault: no space is kept for the byte that ends the string.
ReceivedToTheEnd(c, s) ==
    LET last == Min({got[c] + BufferLen - Len(Kept(s)), sent[c]})
    IN  [i \in 1..(last - got[c]) |-> [conn |-> c, pos |-> got[c] + i]]

\* The bytes recv returns: what is there, as far as there is space.
Received(c, s) ==
    LET space == BufferLen - Len(Kept(s)) - 1
        last  == Min({got[c] + space, sent[c]})
    IN  [i \in 1..(last - got[c]) |-> [conn |-> c, pos |-> got[c] + i]]

\* Fault: recv comes first, and a line is looked for only in what it brings.
NotBuffered(f) == FALSE

\* A line that is complete in the buffer is taken without recv.
Buffered(f) == Newlines(buf[f]) # {}

\* One call in the loop of event F or H: a line is handed over and the loop
\* goes on, or there is none and the connection is armed again, or closed.
read_until_newline(w) ==
    LET f    == cur[w]
        c    == owner[f]
        r    == IF Buffered(f) \/ c = None THEN <<>> ELSE Received(c, buf[f])
        s    == IF Buffered(f) THEN buf[f] ELSE Kept(buf[f]) \o r
        n    == Min(Newlines(s))
        over == ~Buffered(f) /\ r = <<>> /\ (c = None \/ peer[c] = "hung")
    IN  /\ pc[w] \in {"F", "H"}
        /\ got' = IF c = None THEN got ELSE [got EXCEPT ![c] = @ + Len(r)]
        /\ IF Buffered(f) \/ (r # <<>> /\ Newlines(s) # {})
           THEN /\ handed' = [handed EXCEPT ![c] = Append(@, SubSeq(s, 1, n))]
                /\ buf' = [buf EXCEPT ![f] = SubSeq(s, n + 1, Len(s))]
                /\ pc' = pc
           ELSE /\ buf' = [buf EXCEPT ![f] = s]
                /\ handed' = handed
                /\ Goto(w, IF ~over THEN "rearm"
                           ELSE IF pc[w] = "F" THEN "Fclose" ELSE "Hclose")
        /\ UNCHANGED <<wire, backlog, owner, armed, erlangfd, cur>>

restart_epolloneshot(w) ==
    /\ pc[w] = "rearm"
    /\ armed' = IF owner[cur[w]] = None THEN armed ELSE armed \union {cur[w]}
    /\ Goto(w, "wait") /\ With(w, None)
    /\ UNCHANGED <<wire, got, backlog, owner, buf, erlangfd, handed>>

-----------------------------------------------------------------------------
(* The end of a connection.                                                 *)

\* Fault: the bytes of an unfinished line are left for the next connection.
ClearNothing(f) == buf' = buf

clear_connection_buffer(f) ==
    buf' = IF f = None THEN buf ELSE [buf EXCEPT ![f] = <<>>]

Close(f) ==
    /\ owner' = IF f = None THEN owner ELSE [owner EXCEPT ![f] = None]
    /\ armed' = armed \ {f}

\* Event H closes the descriptor it serves and then clears its buffer.
CloseRemote(w) ==
    /\ pc[w] = "Hclose"
    /\ Close(cur[w])
    /\ Goto(w, "Hclear")
    /\ UNCHANGED <<wire, got, backlog, buf, erlangfd, cur, handed>>

ClearRemote(w) ==
    /\ pc[w] = "Hclear"
    /\ clear_connection_buffer(cur[w])
    /\ Goto(w, "wait") /\ With(w, None)
    /\ UNCHANGED <<wire, got, backlog, owner, armed, erlangfd, handed>>

\* Event F closes whatever erlangfd is by then.
CloseErlang(w) ==
    /\ pc[w] = "Fclose"
    /\ Close(erlangfd)
    /\ Goto(w, "Fclear")
    /\ UNCHANGED <<wire, got, backlog, buf, erlangfd, cur, handed>>

\* Fault: erlangfd keeps the number of the closed descriptor.
ForgetNothing(w) ==
    /\ pc[w] = "Fclear"
    /\ clear_connection_buffer(erlangfd)
    /\ Goto(w, "wait") /\ With(w, None)
    /\ UNCHANGED <<wire, got, backlog, owner, armed, erlangfd, handed>>

ClearErlang(w) ==
    /\ pc[w] = "Fclear"
    /\ clear_connection_buffer(erlangfd)
    /\ erlangfd' = None
    /\ Goto(w, "wait") /\ With(w, None)
    /\ UNCHANGED <<wire, got, backlog, owner, armed, handed>>

-----------------------------------------------------------------------------

event_loop(w) ==
    \/ \E k \in DOMAIN backlog : WakeListen(w, k)
    \/ connect_client(w)
    \/ connect_erlang(w)
    \/ Assign(w)
    \/ \E f \in Fds : WakeRead(w, f)
    \/ read_until_newline(w)
    \/ restart_epolloneshot(w)
    \/ CloseRemote(w) \/ ClearRemote(w)
    \/ CloseErlang(w) \/ ClearErlang(w)

Next ==
    \/ \E c \in Conns : Connect(c) \/ Send(c) \/ Hangup(c)
    \/ \E w \in Workers : event_loop(w)

Spec == Init /\ [][Next]_vars

\* The workers run; the peers need not.
FairSpec == Spec /\ \A w \in Workers : WF_vars(event_loop(w))

-----------------------------------------------------------------------------
(* What the agent makes of the bytes.                                       *)

Bytes == UNION {[conn : {c}, pos : 1..Total(c)] : c \in Conns}

TypeOK ==
    /\ \A c \in Conns : got[c] \in 0..sent[c] /\ sent[c] \in 0..Total(c)
    /\ peer \in [Conns -> {"new", "up", "hung"}]
    /\ \A k \in DOMAIN backlog : backlog[k] \in Seq(Conns)
    /\ owner \in [Fds -> Conns \union {None}]
    /\ armed \subseteq Fds
    /\ \A f \in Fds : buf[f] \in Seq(Bytes) /\ Len(buf[f]) < BufferLen
    /\ erlangfd \in Fds \union {None}
    /\ cur \in [Workers -> Fds \union {None}]

Line == [c \in Conns |-> [i \in DOMAIN Lines[c] |->
            [p \in 1..Lines[c][i] |-> [conn |-> c, pos |-> End[c][i] - Lines[c][i] + p]]]]

Fits(c, i) == Lines[c][i] < BufferLen

\* The first k lines of a connection without those that are too long.
Good(c, k) == SelectSeq(SubSeq(Line[c], 1, k), LAMBDA l : Len(l) < BufferLen)

\* Every line that fits in the buffer is handed over whole, once and in its
\* order, however the bytes arrive and whoever had the descriptor before; of
\* a longer one at most its end is, and the lines after it are not harmed.
WholeLines ==
    \A c \in Conns :
        LET whole(l) == \E i \in DOMAIN Lines[c] : Fits(c, i) /\ l = Line[c][i]
            rest(l)  == \E i \in DOMAIN Lines[c] : ~Fits(c, i) /\ IsSuffix(l, Line[c][i])
        IN  /\ \A j \in DOMAIN handed[c] : whole(handed[c][j]) \/ rest(handed[c][j])
            /\ \E k \in 0..Len(Lines[c]) : SelectSeq(handed[c], whole) = Good(c, k)

\* When the workers have nothing in their hands, erlangfd is the connection
\* of the scheduler that is up, if it was accepted, and never one of a node.
SchedulerIsHeard ==
    (\A w \in Workers : pc[w] = "wait") =>
        \A f \in Fds :
            /\ owner[f] \in Schedulers /\ peer[owner[f]] = "up" => erlangfd = f
            /\ erlangfd = f => owner[f] \in Schedulers

\* Again and again no line that was sent to its end is still to be handed
\* over, the lines that are too long apart: none is stranded in a buffer, not
\* even if the peer has hung up since.
EveryLineHandled ==
    []<>(\A c \in Conns : \A i \in DOMAIN Lines[c] :
            Fits(c, i) /\ sent[c] >= End[c][i] => Line[c][i] \in Range(handed[c]))
=============================================================================
