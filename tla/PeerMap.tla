-------------------------------- MODULE PeerMap --------------------------------
(***************************************************************************)
(* What an agent promises to know of its peers: what each address said     *)
(* last, for as long as that is not NodeTimeout seconds old.               *)
(***************************************************************************)
EXTENDS Integers

CONSTANTS Keys, Ports, NodeTimeout, MaxDelay, NoDatum

VARIABLE known   \* the last announcement of each address, and its age

Announcements == [key : Keys, port : Ports, age : 0..MaxDelay]

Init == known = [k \in Keys |-> NoDatum]

Hear(a) == known' = [known EXCEPT ![a.key] = a]

\* The sweep, which has read the clock lag seconds ago, comes to address k.
Expire(k, lag) ==
    /\ known[k] # NoDatum
    /\ known[k].age - lag >= NodeTimeout
    /\ known' = [known EXCEPT ![k] = NoDatum]

Grow ==
    known' = [k \in Keys |->
        IF known[k] = NoDatum THEN NoDatum ELSE [known[k] EXCEPT !.age = @ + 1]]

Next ==
    \/ \E a \in Announcements : Hear(a)
    \/ \E k \in Keys, lag \in 0..MaxDelay : Expire(k, lag)
    \/ Grow

Spec == Init /\ [][Next]_known
=============================================================================
