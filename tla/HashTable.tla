------------------------------- MODULE HashTable -------------------------------
(***************************************************************************)
(* The chained hash table of ResourceManager.  The agent keeps four of     *)
(* them: the nodes it heard of, its local jobs, their connections and the  *)
(* jobs it has granted something.  Each operation holds the lock of its    *)
(* table from the first to the last line, so it is one operator here.      *)
(*                                                                         *)
(* A datum is a record with a field key, which comp and hash look at.      *)
(***************************************************************************)
EXTENDS Integers, Sequences

CONSTANTS
    Keys,      \* what the data are told apart by
    HashSize,  \* buckets
    Hash,      \* the hash of each key
    NoDatum    \* NULL

ASSUME HashAssumption ==
    /\ HashSize \in Nat \ {0}
    /\ Hash \in [Keys -> Nat]

Buckets == 1..HashSize

Bucket(k) == (Hash[k] % HashSize) + 1

tablahash_create == [elems |-> [b \in Buckets |-> <<>>], numElems |-> 0]

\* Place i of a chain is where find_in_list stops.
Stops(list, k, i) ==
    /\ i \in DOMAIN list
    /\ list[i].key = k
    /\ \A h \in 1..(i - 1) : list[h].key # k

InList(list, k) == \E i \in DOMAIN list : list[i].key = k

find_in_list(list, k) == CHOOSE i \in DOMAIN list : Stops(list, k, i)

tablahash_find(t, k) ==
    LET list == t.elems[Bucket(k)]
    IN  IF InList(list, k) THEN list[find_in_list(list, k)] ELSE NoDatum

\* Fault: a datum that is there already is not looked for.
InsertInFront(t, d) ==
    [elems    |-> [t.elems EXCEPT ![Bucket(d.key)] = <<d>> \o @],
     numElems |-> t.numElems + 1]

\* Fault: in a chain that has the key, the first datum is replaced.
InsertOverFirst(t, d) ==
    LET b == Bucket(d.key)
    IN  IF InList(t.elems[b], d.key)
        THEN [t EXCEPT !.elems[b][1] = d]
        ELSE [elems    |-> [t.elems EXCEPT ![b] = <<d>> \o @],
              numElems |-> t.numElems + 1]

\* A datum that is there is replaced where it is, a new one goes in front.
tablahash_insert(t, d) ==
    LET b    == Bucket(d.key)
        list == t.elems[b]
    IN  IF InList(list, d.key)
        THEN [t EXCEPT !.elems[b][find_in_list(list, d.key)] = d]
        ELSE [elems    |-> [t.elems EXCEPT ![b] = <<d>> \o list],
              numElems |-> t.numElems + 1]

\* Fault: a datum in front of the chain takes the others with it.
RemoveFront(t, k) ==
    LET b    == Bucket(k)
        list == t.elems[b]
        i    == find_in_list(list, k)
    IN  IF InList(list, k)
        THEN [elems    |-> [t.elems EXCEPT ![b] = SubSeq(list, 1, i - 1)],
              numElems |-> t.numElems - 1]
        ELSE t

\* The chain without its i-th node.
Unlinked(list, i) == SubSeq(list, 1, i - 1) \o SubSeq(list, i + 1, Len(list))

tablahash_remove(t, k) ==
    LET b    == Bucket(k)
        list == t.elems[b]
    IN  IF InList(list, k)
        THEN [elems    |-> [t.elems EXCEPT ![b] = Unlinked(list, find_in_list(list, k))],
              numElems |-> t.numElems - 1]
        ELSE t

\* The table as a map, which is what its users take it for.
Contents(t) == [k \in Keys |-> tablahash_find(t, k)]

\* Every datum is in the bucket of its key, and no key is there twice.
Chained(t) ==
    \A b \in Buckets : \A i \in DOMAIN t.elems[b] :
        /\ t.elems[b][i].key \in Keys
        /\ Bucket(t.elems[b][i].key) = b
        /\ \A h \in DOMAIN t.elems[b] :
              t.elems[b][h].key = t.elems[b][i].key => h = i
=============================================================================
