--------------------------- MODULE DirectoryProofs ---------------------------
(***************************************************************************)
(* table_nodes for any number of agents, addresses and buckets and any     *)
(* hash function.  A table whose chains are in order stays so, and as a    *)
(* map it changes at the key of the datum inserted or removed and nowhere  *)
(* else; node discovery keeps in it the map of last announcements.         *)
(***************************************************************************)
EXTENDS Directory, TLAPS

Tables(D) == [elems : [Buckets -> Seq(D)], numElems : Int]

\* An element of a sequence is replaced.
LEMMA Replaced ==
    ASSUME NEW S, NEW s \in Seq(S), NEW i \in 1..Len(s), NEW e \in S
    PROVE  [s EXCEPT ![i] = e] \in Seq(S)
  OBVIOUS

\* Two sequences, one after the other.
LEMMA Joined ==
    ASSUME NEW S, NEW s \in Seq(S), NEW t \in Seq(S)
    PROVE  /\ s \o t \in Seq(S) /\ Len(s \o t) = Len(s) + Len(t)
           /\ \A h \in 1..(Len(s) + Len(t)) :
                 (s \o t)[h] = IF h <= Len(s) THEN s[h] ELSE t[h - Len(s)]
  OBVIOUS

\* A function on an interval from 1 is a sequence.
LEMMA Mapped ==
    ASSUME NEW S, NEW n \in Nat, NEW f \in [1..n -> S]
    PROVE  f \in Seq(S)
  OBVIOUS

\* The hash picks one of the buckets.
LEMMA BucketType == \A k \in Keys : Bucket(k) \in Buckets
  BY HashAssumption DEF Bucket, Buckets

\* A chain of a table, as a sequence.
LEMMA ChainType ==
    ASSUME NEW D, NEW t \in Tables(D), NEW b \in Buckets
    PROVE  /\ t.elems[b] \in Seq(D)
           /\ Len(t.elems[b]) \in Nat
           /\ DOMAIN t.elems[b] = 1..Len(t.elems[b])
  BY DEF Tables

\* In a chain in order the search stops at the only place of the key.
LEMMA FindPlace ==
    ASSUME NEW list, NEW k, NEW i \in DOMAIN list, list[i].key = k,
           DOMAIN list \subseteq Int,
           \A h \in DOMAIN list : list[h].key = k => h = i,
           \A h \in 1..(i - 1) : h \in DOMAIN list
    PROVE  InList(list, k) /\ find_in_list(list, k) = i
<1>1. Stops(list, k, i)
  BY DEF Stops
<1>2. \A h \in DOMAIN list : Stops(list, k, h) => h = i
  BY DEF Stops
<1>3. find_in_list(list, k) = i
  BY <1>1, <1>2, Zenon DEF find_in_list
<1>4. InList(list, k)
  BY DEF InList
<1> QED
  BY <1>3, <1>4

\* What is found is the datum with the key, wherever it is in its chain.
LEMMA FindDatum ==
    ASSUME NEW D, NEW t \in Tables(D), Chained(t), NEW k \in Keys,
           NEW i \in DOMAIN t.elems[Bucket(k)], t.elems[Bucket(k)][i].key = k
    PROVE  tablahash_find(t, k) = t.elems[Bucket(k)][i]
<1>1. PICK b \in Buckets : b = Bucket(k)
  BY BucketType
<1>2. PICK list : list = t.elems[b]
  OBVIOUS
<1>3. i \in DOMAIN list /\ list[i].key = k
  BY <1>1, <1>2
<1>4. \A h \in DOMAIN list : list[h].key = k => h = i
  BY <1>1, <1>2, <1>3 DEF Chained
<1>5. DOMAIN list = 1..Len(list) /\ Len(list) \in Nat
  BY <1>1, <1>2, ChainType
<1>6. InList(list, k) /\ find_in_list(list, k) = i
  <2>1. DOMAIN list \subseteq Int /\ \A h \in 1..(i - 1) : h \in DOMAIN list
    BY <1>3, <1>5
  <2> QED
    BY <1>3, <1>4, <2>1, FindPlace
<1> QED
  BY <1>1, <1>2, <1>6 DEF tablahash_find

\* Nothing is found under a key that is not in its chain.
LEMMA FindNothing ==
    ASSUME NEW t, NEW k, ~InList(t.elems[Bucket(k)], k)
    PROVE  tablahash_find(t, k) = NoDatum
  BY DEF tablahash_find

\* Two tables with the same data under a key agree on it.
LEMMA SameDatum ==
    ASSUME NEW D, NEW t \in Tables(D), NEW s \in Tables(D), Chained(t), Chained(s),
           NEW k \in Keys,
           \A i \in DOMAIN s.elems[Bucket(k)] : s.elems[Bucket(k)][i].key = k =>
               \E h \in DOMAIN t.elems[Bucket(k)] :
                   t.elems[Bucket(k)][h] = s.elems[Bucket(k)][i],
           \A i \in DOMAIN t.elems[Bucket(k)] : t.elems[Bucket(k)][i].key = k =>
               \E h \in DOMAIN s.elems[Bucket(k)] :
                   s.elems[Bucket(k)][h] = t.elems[Bucket(k)][i]
    PROVE  tablahash_find(s, k) = tablahash_find(t, k)
<1>1. CASE InList(s.elems[Bucket(k)], k)
  <2>1. PICK i \in DOMAIN s.elems[Bucket(k)] : s.elems[Bucket(k)][i].key = k
    BY <1>1, Zenon DEF InList
  <2>2. PICK h \in DOMAIN t.elems[Bucket(k)] :
            t.elems[Bucket(k)][h] = s.elems[Bucket(k)][i]
    BY <2>1, Zenon
  <2>3. tablahash_find(s, k) = s.elems[Bucket(k)][i]
    BY <2>1, FindDatum
  <2>4. tablahash_find(t, k) = t.elems[Bucket(k)][h]
    BY <2>1, <2>2, FindDatum
  <2> QED
    BY <2>2, <2>3, <2>4, Zenon
<1>2. CASE ~InList(s.elems[Bucket(k)], k)
  <2>1. ~InList(t.elems[Bucket(k)], k)
    <3>1. SUFFICES ASSUME NEW i \in DOMAIN t.elems[Bucket(k)],
                          t.elems[Bucket(k)][i].key = k
                   PROVE  FALSE
      BY Zenon DEF InList
    <3>2. PICK h \in DOMAIN s.elems[Bucket(k)] :
              s.elems[Bucket(k)][h] = t.elems[Bucket(k)][i]
      BY <3>1, Zenon
    <3> QED
      BY <3>1, <3>2, <1>2, Zenon DEF InList
  <2> QED
    BY <1>2, <2>1, FindNothing, Zenon
<1> QED
  BY <1>1, <1>2

\* A key that is in a chain is found at one of its places.
LEMMA FoundPlace ==
    ASSUME NEW D, NEW t \in Tables(D), Chained(t), NEW k \in Keys,
           InList(t.elems[Bucket(k)], k)
    PROVE  /\ find_in_list(t.elems[Bucket(k)], k) \in DOMAIN t.elems[Bucket(k)]
           /\ t.elems[Bucket(k)][find_in_list(t.elems[Bucket(k)], k)].key = k
<1>1. PICK b \in Buckets : b = Bucket(k)
  BY BucketType
<1>2. PICK list : list = t.elems[b]
  OBVIOUS
<1>3. PICK i \in DOMAIN list : list[i].key = k
  BY <1>1, <1>2 DEF InList
<1>4. \A h \in DOMAIN list : list[h].key = k => h = i
  BY <1>1, <1>2, <1>3 DEF Chained
<1>5. DOMAIN list = 1..Len(list) /\ Len(list) \in Nat
  BY <1>1, <1>2, ChainType
<1>6. find_in_list(list, k) = i
  <2>1. DOMAIN list \subseteq Int /\ \A h \in 1..(i - 1) : h \in DOMAIN list
    BY <1>3, <1>5
  <2> QED
    BY <1>3, <1>4, <2>1, FindPlace
<1> QED
  BY <1>1, <1>2, <1>3, <1>6

-----------------------------------------------------------------------------

\* tablahash_insert keeps the chains in order, sets its key to the datum and counts
\* a key that is new.
THEOREM InsertIsUpdate ==
    ASSUME NEW D, \A x \in D : x.key \in Keys,
           NEW t \in Tables(D), Chained(t), NEW d \in D
    PROVE  /\ tablahash_insert(t, d) \in Tables(D)
           /\ tablahash_insert(t, d).numElems =
                 t.numElems + (IF InList(t.elems[Bucket(d.key)], d.key) THEN 0 ELSE 1)
           /\ Chained(tablahash_insert(t, d))
           /\ Contents(tablahash_insert(t, d)) = [Contents(t) EXCEPT ![d.key] = d]
<1>1. PICK b \in Buckets : b = Bucket(d.key)
  BY BucketType
<1>2. PICK list \in Seq(D) : list = t.elems[b]
  BY ChainType
<1>3. PICK s : s = tablahash_insert(t, d)
  OBVIOUS
<1>4. /\ s \in Tables(D) /\ Chained(s)
      /\ s.numElems = t.numElems + (IF InList(list, d.key) THEN 0 ELSE 1)
      /\ \E i \in DOMAIN s.elems[b] : s.elems[b][i] = d
      /\ \A c \in Buckets \ {b} : s.elems[c] = t.elems[c]
      /\ \A i \in DOMAIN s.elems[b] : s.elems[b][i].key # d.key =>
            \E h \in DOMAIN list : list[h] = s.elems[b][i]
      /\ \A i \in DOMAIN list : list[i].key # d.key =>
            \E h \in DOMAIN s.elems[b] : s.elems[b][h] = list[i]
  <2>0. /\ t.elems \in [Buckets -> Seq(D)] /\ t.numElems \in Int
        /\ t = [elems |-> t.elems, numElems |-> t.numElems]
    BY DEF Tables
  <2>1. CASE InList(list, d.key)
    <3>1. PICK i \in DOMAIN list : i = find_in_list(list, d.key) /\ list[i].key = d.key
      BY <2>1, <1>1, <1>2, FoundPlace
    <3>2. PICK new \in Seq(D) : new = [list EXCEPT ![i] = d]
      <4>1. i \in 1..Len(list)
        OBVIOUS
      <4>2. [list EXCEPT ![i] = d] \in Seq(D)
        BY <4>1, Replaced
      <4> QED
        BY <4>2, Zenon
    <3>3. /\ DOMAIN new = DOMAIN list /\ new[i] = d
          /\ \A h \in DOMAIN list \ {i} : new[h] = list[h]
      BY <3>2
    <3>4. \A h \in DOMAIN list : new[h].key = list[h].key
      BY <3>1, <3>3
    <3>5. s = [elems |-> [t.elems EXCEPT ![b] = new], numElems |-> t.numElems]
      BY <1>1, <1>2, <1>3, <2>0, <2>1, <3>1, <3>2, Zenon DEF tablahash_insert
    <3>6. /\ s \in Tables(D) /\ s.elems[b] = new /\ s.numElems = t.numElems + 0
          /\ \A c \in Buckets \ {b} : s.elems[c] = t.elems[c]
      BY <2>0, <3>5 DEF Tables
    <3>7. Chained(s)
      <4> SUFFICES ASSUME NEW c \in Buckets, NEW h \in DOMAIN s.elems[c]
                   PROVE  /\ s.elems[c][h].key \in Keys
                          /\ Bucket(s.elems[c][h].key) = c
                          /\ \A g \in DOMAIN s.elems[c] :
                                s.elems[c][g].key = s.elems[c][h].key => g = h
        BY Zenon DEF Chained
      <4>1. /\ DOMAIN s.elems[c] = DOMAIN t.elems[c]
            /\ \A g \in DOMAIN t.elems[c] : s.elems[c][g].key = t.elems[c][g].key
        BY <1>2, <3>3, <3>4, <3>6, Zenon
      <4> QED
        BY <4>1, Zenon DEF Chained
    <3> QED
      BY <2>1, <3>1, <3>3, <3>6, <3>7
  <2>2. CASE ~InList(list, d.key)
    <3>1. PICK new \in Seq(D) : new = <<d>> \o list
      <4>1. <<d>> \in Seq(D)
        OBVIOUS
      <4>2. <<d>> \o list \in Seq(D)
        BY <4>1
      <4> QED
        BY <4>2, Zenon
    <3>2. /\ Len(list) \in Nat /\ DOMAIN list = 1..Len(list)
          /\ Len(new) = Len(list) + 1 /\ DOMAIN new = 1..(Len(list) + 1)
          /\ new[1] = d /\ \A h \in 1..Len(list) : new[h + 1] = list[h]
      BY <3>1
    <3>3. \A h \in DOMAIN new : h = 1 \/ (h - 1 \in DOMAIN list /\ new[h] = list[h - 1])
      BY <3>2
    <3>4. s = [elems |-> [t.elems EXCEPT ![b] = new], numElems |-> t.numElems + 1]
      BY <1>1, <1>2, <1>3, <2>0, <2>2, <3>1, Zenon DEF tablahash_insert
    <3>5. /\ s \in Tables(D) /\ s.elems[b] = new /\ s.numElems = t.numElems + 1
          /\ \A c \in Buckets \ {b} : s.elems[c] = t.elems[c]
      BY <2>0, <3>4 DEF Tables
    <3>6. \A h \in DOMAIN list : list[h].key # d.key
      BY <2>2 DEF InList
    <3>7. \A h \in DOMAIN list :
             /\ list[h].key \in Keys /\ Bucket(list[h].key) = b
             /\ \A g \in DOMAIN list : list[g].key = list[h].key => g = h
      BY <1>2, Zenon DEF Chained
    <3>8. Chained(s)
      <4> SUFFICES ASSUME NEW c \in Buckets, NEW h \in DOMAIN s.elems[c]
                   PROVE  /\ s.elems[c][h].key \in Keys
                          /\ Bucket(s.elems[c][h].key) = c
                          /\ \A g \in DOMAIN s.elems[c] :
                                s.elems[c][g].key = s.elems[c][h].key => g = h
        BY Zenon DEF Chained
      <4>1. CASE c # b
        BY <4>1, <3>5 DEF Chained
      <4>2. CASE c = b
        <5>1. h \in DOMAIN new /\ s.elems[c] = new
          BY <4>2, <3>5
        <5>2. new[h].key \in Keys /\ Bucket(new[h].key) = b
          BY <5>1, <3>2, <3>3, <3>7, <1>1
        <5>3. ASSUME NEW g \in DOMAIN new, new[g].key = new[h].key PROVE g = h
          <6>1. g \in Int /\ h \in Int
            BY <5>1, <3>2
          <6>2. (g = 1) <=> (h = 1)
            BY <5>1, <5>3, <3>2, <3>3, <3>6
          <6>3. g # 1 /\ h # 1 => g - 1 = h - 1
            BY <5>1, <5>3, <3>3, <3>7
          <6> QED
            BY <6>1, <6>2, <6>3
        <5> QED
          BY <5>1, <5>2, <5>3, <4>2
      <4> QED
        BY <4>1, <4>2, Zenon
    <3>9. \A h \in DOMAIN list : h + 1 \in DOMAIN new /\ new[h + 1] = list[h]
      BY <3>2
    <3>10. 1 \in DOMAIN new
      BY <3>2
    <3> QED
      BY <2>2, <3>2, <3>3, <3>5, <3>8, <3>9, <3>10, Zenon
  <2> QED
    BY <2>1, <2>2, Zenon
<1>5. tablahash_find(s, d.key) = d
  <2>1. PICK i \in DOMAIN s.elems[b] : s.elems[b][i] = d
    BY <1>4
  <2> QED
    BY <2>1, <1>1, <1>4, FindDatum
<1>6. ASSUME NEW k \in Keys, k # d.key
      PROVE  tablahash_find(s, k) = tablahash_find(t, k)
  <2>1. CASE Bucket(k) = b
    BY <2>1, <1>2, <1>4, <1>6, SameDatum
  <2>2. CASE Bucket(k) # b
    BY <2>2, <1>4, <1>6, BucketType, Zenon DEF tablahash_find
  <2> QED
    BY <2>1, <2>2
<1>7. Contents(s) = [Contents(t) EXCEPT ![d.key] = d]
  BY <1>5, <1>6, Zenon DEF Contents
<1> QED
  BY <1>1, <1>2, <1>3, <1>4, <1>7, Zenon

\* A sequence without its place i: what was behind it moves up.
LEMMA RemovedAt ==
    ASSUME NEW D, NEW list \in Seq(D), NEW i \in 1..Len(list)
    PROVE  /\ Unlinked(list, i) \in Seq(D)
           /\ Len(Unlinked(list, i)) = Len(list) - 1
           /\ \A h \in 1..(Len(list) - 1) :
                 Unlinked(list, i)[h] = list[IF h < i THEN h ELSE h + 1]
<1> DEFINE front == SubSeq(list, 1, i - 1)
           back  == SubSeq(list, i + 1, Len(list))
<1>1. Len(list) \in Nat /\ i \in Int /\ 1 <= i /\ i <= Len(list)
  OBVIOUS
<1>2. /\ front \in Seq(D) /\ Len(front) = i - 1
      /\ \A h \in 1..(i - 1) : front[h] = list[h]
  BY <1>1
<1>3. /\ back \in Seq(D) /\ Len(back) = Len(list) - i
      /\ \A h \in 1..(Len(list) - i) : back[h] = list[h + i]
  BY <1>1
<1> HIDE DEF front, back
<1>4. /\ front \o back \in Seq(D) /\ Len(front \o back) = Len(front) + Len(back)
      /\ \A h \in 1..(Len(front) + Len(back)) : (front \o back)[h] =
            IF h <= Len(front) THEN front[h] ELSE back[h - Len(front)]
  BY <1>2, <1>3, Joined, Zenon
<1>5. Unlinked(list, i) = front \o back
  BY DEF Unlinked, front, back
<1>6. ASSUME NEW h \in 1..(Len(list) - 1)
      PROVE  (front \o back)[h] = list[IF h < i THEN h ELSE h + 1]
  <2>1. CASE h < i
    BY <2>1, <1>1, <1>2, <1>3, <1>4
  <2>2. CASE ~(h < i)
    <3>1. /\ (front \o back)[h] = back[h - (i - 1)]
          /\ h - (i - 1) \in 1..(Len(list) - i)
      BY <2>2, <1>1, <1>2, <1>3, <1>4
    <3>2. back[h - (i - 1)] = list[(h - (i - 1)) + i]
      BY <3>1, <1>3
    <3>3. (h - (i - 1)) + i = h + 1
      BY <1>1
    <3> QED
      BY <2>2, <3>1, <3>2, <3>3
  <2> QED
    BY <2>1, <2>2, Zenon
<1>7. Len(front \o back) = Len(list) - 1
  BY <1>1, <1>2, <1>3, <1>4
<1> QED
  BY <1>4, <1>5, <1>6, <1>7, Zenon

\* tablahash_remove keeps the chains in order, unsets its key and counts down if
\* the key was there.
THEOREM RemoveIsUpdate ==
    ASSUME NEW D, NEW t \in Tables(D), Chained(t), NEW x \in Keys
    PROVE  /\ tablahash_remove(t, x) \in Tables(D)
           /\ tablahash_remove(t, x).numElems =
                 t.numElems - (IF InList(t.elems[Bucket(x)], x) THEN 1 ELSE 0)
           /\ Chained(tablahash_remove(t, x))
           /\ Contents(tablahash_remove(t, x)) = [Contents(t) EXCEPT ![x] = NoDatum]
<1>1. PICK b \in Buckets : b = Bucket(x)
  BY BucketType
<1>2. PICK list \in Seq(D) : list = t.elems[b]
  BY ChainType
<1>3. CASE ~InList(list, x)
  <2>1. tablahash_remove(t, x) = t
    BY <1>1, <1>2, <1>3 DEF tablahash_remove
  <2>2. tablahash_find(t, x) = NoDatum
    BY <1>1, <1>2, <1>3, FindNothing
  <2>3. Contents(t) = [Contents(t) EXCEPT ![x] = NoDatum]
    BY <2>2, Zenon DEF Contents
  <2>4. t.numElems = t.numElems - 0
    BY DEF Tables
  <2> QED
    BY <1>1, <1>2, <1>3, <2>1, <2>3, <2>4
<1>4. CASE InList(list, x)
  <2>0. /\ t.elems \in [Buckets -> Seq(D)] /\ t.numElems \in Int
    BY DEF Tables
  <2>1. PICK i \in 1..Len(list) : i = find_in_list(list, x) /\ list[i].key = x
    BY <1>4, <1>1, <1>2, FoundPlace
  <2>2. PICK new \in Seq(D) :
            /\ new = Unlinked(list, i) /\ Len(new) = Len(list) - 1
            /\ \A h \in 1..(Len(list) - 1) : new[h] = list[IF h < i THEN h ELSE h + 1]
    BY RemovedAt
  <2>3. PICK s : s = tablahash_remove(t, x)
    OBVIOUS
  <2>4. s = [elems |-> [t.elems EXCEPT ![b] = new], numElems |-> t.numElems - 1]
    BY <1>1, <1>2, <1>4, <2>1, <2>2, <2>3, Zenon DEF tablahash_remove
  <2>5. /\ s \in Tables(D) /\ s.elems[b] = new /\ s.numElems = t.numElems - 1
        /\ \A c \in Buckets \ {b} : s.elems[c] = t.elems[c]
    BY <2>0, <2>4 DEF Tables
  <2>6. \A h \in DOMAIN list :
           /\ list[h].key \in Keys /\ Bucket(list[h].key) = b
           /\ \A g \in DOMAIN list : list[g].key = list[h].key => g = h
    BY <1>2, Zenon DEF Chained
  <2>7. Len(list) \in Nat /\ DOMAIN list = 1..Len(list) /\ DOMAIN new = 1..(Len(list) - 1)
    BY <2>2
  <2>8. \A h \in DOMAIN new :
           \E g \in DOMAIN list : g # i /\ new[h] = list[g] /\ (g = IF h < i THEN h ELSE h + 1)
    BY <2>2, <2>7
  <2>9. \A g \in DOMAIN list \ {i} : \E h \in DOMAIN new : new[h] = list[g]
    <3> SUFFICES ASSUME NEW g \in DOMAIN list \ {i} PROVE \E h \in DOMAIN new : new[h] = list[g]
      OBVIOUS
    <3>1. CASE g < i
      BY <3>1, <2>2, <2>7
    <3>2. CASE ~(g < i)
      <4>1. g - 1 \in 1..(Len(list) - 1) /\ ~(g - 1 < i) /\ (g - 1) + 1 = g
        BY <3>2, <2>1, <2>7
      <4> QED
        BY <4>1, <2>2, <2>7
    <3> QED
      BY <3>1, <3>2
  <2>10. Chained(s)
    <3> SUFFICES ASSUME NEW c \in Buckets, NEW h \in DOMAIN s.elems[c]
                 PROVE  /\ s.elems[c][h].key \in Keys
                        /\ Bucket(s.elems[c][h].key) = c
                        /\ \A g \in DOMAIN s.elems[c] :
                              s.elems[c][g].key = s.elems[c][h].key => g = h
      BY Zenon DEF Chained
    <3>1. CASE c # b
      BY <3>1, <2>5 DEF Chained
    <3>2. CASE c = b
      <4>1. h \in DOMAIN new /\ s.elems[c] = new
        BY <3>2, <2>5
      <4>2. PICK p \in DOMAIN list : new[h] = list[p] /\ (p = IF h < i THEN h ELSE h + 1)
        BY <4>1, <2>8
      <4>3. new[h].key \in Keys /\ Bucket(new[h].key) = b
        BY <4>2, <2>6
      <4>4. ASSUME NEW g \in DOMAIN new, new[g].key = new[h].key PROVE g = h
        <5>1. PICK q \in DOMAIN list : new[g] = list[q] /\ (q = IF g < i THEN g ELSE g + 1)
          BY <2>8
        <5>2. p = q
          BY <4>2, <4>4, <5>1, <2>6
        <5>3. g \in Int /\ h \in Int
          BY <4>1, <2>7
        <5> QED
          BY <4>2, <5>1, <5>2, <5>3
      <4> QED
        BY <3>2, <4>1, <4>3, <4>4
    <3> QED
      BY <3>1, <3>2, Zenon
  <2>11. tablahash_find(s, x) = NoDatum
    <3>1. \A h \in DOMAIN new : new[h].key # x
      BY <2>1, <2>6, <2>7, <2>8
    <3>2. ~InList(s.elems[Bucket(x)], x)
      BY <3>1, <2>5, <1>1 DEF InList
    <3> QED
      BY <3>2, FindNothing
  <2>12. ASSUME NEW k \in Keys, k # x
         PROVE  tablahash_find(s, k) = tablahash_find(t, k)
    <3>1. CASE Bucket(k) = b
      <4>1. \A h \in DOMAIN list : list[h].key = k => \E g \in DOMAIN new : new[g] = list[h]
        BY <2>1, <2>9, <2>12
      <4>2. \A h \in DOMAIN new : \E g \in DOMAIN list : list[g] = new[h]
        BY <2>8
      <4> QED
        BY <3>1, <4>1, <4>2, <1>2, <2>5, <2>10, SameDatum
    <3>2. CASE Bucket(k) # b
      BY <3>2, <2>5, <2>12, BucketType DEF tablahash_find
    <3> QED
      BY <3>1, <3>2
  <2>13. Contents(s) = [Contents(t) EXCEPT ![x] = NoDatum]
    BY <2>11, <2>12, Zenon DEF Contents
  <2> QED
    BY <1>1, <1>2, <1>4, <2>3, <2>5, <2>10, <2>13, Zenon
<1> QED
  BY <1>3, <1>4

Data == [key : Keys, port : Ports, age : Nat]

Datagrams == [ip : Keys, port : Ports, read : BOOLEAN, age : 0..MaxDelay]

\* The longest time between two announcements of an agent that are not lost.
Gap == Period * (MaxLost + 1)

\* table_nodes as a map.
Known == Contents(table)

Typed ==
    /\ up \subseteq Agents
    /\ life \in [Agents -> Nat] /\ \A a \in Agents : life[a] <= MaxLife(a)
    /\ port \in [Agents -> Ports]
    /\ timer \in [Agents -> [left : 0..Period, every : {Period}]]
    /\ lost \in [Agents -> 0..MaxLost]
    /\ net \subseteq Datagrams
    /\ tick \in [left : 0..SweepPeriod, every : {SweepPeriod}]
    /\ sweep \in 0..MaxDelay \union {Idle}
    /\ locked \in BOOLEAN /\ (locked => sweep # Idle)

-----------------------------------------------------------------------------
(* The table.                                                               *)

\* What tablahash_find gives is the datum of the key, or NoDatum if there is none.
LEMMA FoundIsIn ==
    ASSUME NEW t \in Tables(Data), Chained(t), NEW k \in Keys
    PROVE  /\ InList(t.elems[Bucket(k)], k) =>
                 tablahash_find(t, k) \in Data /\ tablahash_find(t, k).key = k
           /\ ~InList(t.elems[Bucket(k)], k) => tablahash_find(t, k) = NoDatum
           /\ InList(t.elems[Bucket(k)], k) <=> tablahash_find(t, k) # NoDatum
<1>1. PICK b \in Buckets : b = Bucket(k)
  BY BucketType
<1>2. ~InList(t.elems[b], k) => tablahash_find(t, k) = NoDatum
  BY <1>1, FindNothing
<1>3. ASSUME InList(t.elems[b], k)
      PROVE  tablahash_find(t, k) \in Data /\ tablahash_find(t, k).key = k
  <2>1. PICK i \in DOMAIN t.elems[b] : t.elems[b][i].key = k
    BY <1>3 DEF InList
  <2>2. tablahash_find(t, k) = t.elems[b][i]
    BY <1>1, <2>1, FindDatum
  <2>3. t.elems[b] \in Seq(Data)
    BY ChainType
  <2>4. t.elems[b][i] \in Data
    BY <2>1, <2>3
  <2> QED
    BY <2>1, <2>2, <2>4
<1>4. NoDatum \notin Data
  BY DirectoryAssumption DEF Data
<1> QED
  BY <1>1, <1>2, <1>3, <1>4

\* To unlink a place of a chain, as the sweep does, is to remove its key.
LEMMA UnlinkIsRemove ==
    ASSUME NEW t \in Tables(Data), Chained(t), NEW b \in Buckets, NEW i \in DOMAIN t.elems[b]
    PROVE  /\ t.elems[b][i].key \in Keys
           /\ tablahash_find(t, t.elems[b][i].key) = t.elems[b][i]
           /\ tablahash_remove(t, t.elems[b][i].key) =
                 [elems    |-> [t.elems EXCEPT ![b] = Unlinked(@, i)],
                  numElems |-> t.numElems - 1]
<1>1. PICK k \in Keys : k = t.elems[b][i].key /\ Bucket(k) = b
  BY DEF Chained
<1>2. InList(t.elems[b], k)
  BY <1>1 DEF InList
<1>3. find_in_list(t.elems[b], k) = i
  <2>1. /\ find_in_list(t.elems[b], k) \in DOMAIN t.elems[b]
        /\ t.elems[b][find_in_list(t.elems[b], k)].key = k
    BY <1>1, <1>2, FoundPlace
  <2> QED
    BY <1>1, <2>1, Zenon DEF Chained
<1>4. tablahash_find(t, k) = t.elems[b][i]
  BY <1>1, FindDatum
<1> QED
  BY <1>1, <1>2, <1>3, <1>4, Zenon DEF tablahash_remove

\* A second later the chains are the same and every datum is a second older.
LEMMA OlderChains ==
    ASSUME NEW t \in Tables(Data), Chained(t), NEW s, s = Aged(t)
    PROVE  /\ s \in Tables(Data) /\ Chained(s)
           /\ s.numElems = t.numElems
           /\ \A k \in Keys : tablahash_find(s, k) =
                 IF tablahash_find(t, k) = NoDatum THEN NoDatum ELSE Older(tablahash_find(t, k))
<1>1. /\ t.elems \in [Buckets -> Seq(Data)] /\ t.numElems \in Int
      /\ s = [elems    |-> [b \in Buckets |-> [i \in DOMAIN t.elems[b] |-> Older(t.elems[b][i])]],
              numElems |-> t.numElems]
  BY Zenon DEF Tables, Aged
<1>2. \A d \in Data : Older(d) \in Data /\ Older(d).key = d.key
  BY DEF Data, Older
<1>3. ASSUME NEW b \in Buckets
      PROVE  /\ s.elems[b] \in Seq(Data) /\ DOMAIN s.elems[b] = DOMAIN t.elems[b]
             /\ \A i \in DOMAIN t.elems[b] : /\ s.elems[b][i] = Older(t.elems[b][i])
                                             /\ s.elems[b][i].key = t.elems[b][i].key
  <2>1. PICK list \in Seq(Data) : list = t.elems[b]
    BY <1>1
  <2>2. s.elems[b] = [i \in DOMAIN list |-> Older(list[i])]
    BY <1>1, <2>1
  <2>3. DOMAIN list = 1..Len(list) /\ Len(list) \in Nat /\ \A i \in DOMAIN list : list[i] \in Data
    OBVIOUS
  <2>4. \A i \in 1..Len(list) : Older(list[i]) \in Data
    BY <1>2, <2>3
  <2>5. [i \in 1..Len(list) |-> Older(list[i])] \in Seq(Data)
    <3>1. [i \in 1..Len(list) |-> Older(list[i])] \in [1..Len(list) -> Data]
      BY <2>3, <2>4
    <3> QED
      BY <2>3, <3>1, Mapped
  <2> QED
    BY <1>2, <2>1, <2>2, <2>3, <2>5, Zenon
<1>4. s \in Tables(Data) /\ s.numElems = t.numElems
  BY <1>1, <1>3 DEF Tables
<1>5. Chained(s)
  <2> SUFFICES ASSUME NEW c \in Buckets, NEW h \in DOMAIN s.elems[c]
               PROVE  /\ s.elems[c][h].key \in Keys
                      /\ Bucket(s.elems[c][h].key) = c
                      /\ \A g \in DOMAIN s.elems[c] :
                            s.elems[c][g].key = s.elems[c][h].key => g = h
    BY Zenon DEF Chained
  <2>1. /\ DOMAIN s.elems[c] = DOMAIN t.elems[c]
        /\ \A g \in DOMAIN t.elems[c] : s.elems[c][g].key = t.elems[c][g].key
    BY <1>3
  <2> QED
    BY <2>1, Zenon DEF Chained
<1>6. ASSUME NEW k \in Keys
      PROVE  tablahash_find(s, k) =
               IF tablahash_find(t, k) = NoDatum THEN NoDatum ELSE Older(tablahash_find(t, k))
  <2>1. PICK b \in Buckets : b = Bucket(k)
    BY BucketType
  <2>2. CASE ~InList(t.elems[b], k)
    <3>1. ~InList(s.elems[b], k)
      BY <2>2, <1>3, Zenon DEF InList
    <3> QED
      BY <2>1, <2>2, <3>1, FindNothing
  <2>3. CASE InList(t.elems[b], k)
    <3>1. PICK i \in DOMAIN t.elems[b] : t.elems[b][i].key = k
      BY <2>3 DEF InList
    <3>2. tablahash_find(t, k) = t.elems[b][i]
      BY <2>1, <3>1, FindDatum, Zenon
    <3>3. i \in DOMAIN s.elems[b] /\ s.elems[b][i].key = k /\ s.elems[b][i] = Older(t.elems[b][i])
      BY <1>3, <3>1, Zenon
    <3>4. tablahash_find(s, k) = s.elems[b][i]
      BY <2>1, <3>3, <1>4, <1>5, FindDatum, Zenon
    <3>5. tablahash_find(t, k) # NoDatum
      BY <2>1, <2>3, FoundIsIn
    <3> QED
      BY <3>2, <3>3, <3>4, <3>5, Zenon
  <2> QED
    BY <2>2, <2>3
<1> QED
  BY <1>4, <1>5, <1>6

\* The chains are in order.
TableInv == table \in Tables(Data) /\ Chained(table)

\* The table as a map has a datum under its own key, or none.
LEMMA KnownType ==
    ASSUME TableInv, NEW k \in Keys
    PROVE  /\ Known[k] = tablahash_find(table, k)
           /\ Known[k] \in Data \union {NoDatum}
           /\ Known[k] # NoDatum => Known[k] \in Data /\ Known[k].key = k
           /\ InList(table.elems[Bucket(k)], k) <=> Known[k] # NoDatum
<1>1. Known[k] = tablahash_find(table, k)
  BY DEF Known, Contents
<1> QED
  BY <1>1, FoundIsIn DEF TableInv

\* The datum that an announcement becomes.
Datum(d) == [key |-> d.ip, port |-> d.port, age |-> d.age]

\* udp_datagram_from_remote changes what is known of one address.
LEMMA StoreMap ==
    ASSUME net \subseteq Datagrams, TableInv, NEW d \in net, Store(d)
    PROVE  /\ TableInv' /\ Datum(d) \in Data
           /\ Known' = [Known EXCEPT ![d.ip] = Datum(d)]
           /\ table'.numElems = table.numElems + (IF Known[d.ip] # NoDatum THEN 0 ELSE 1)
<1>1. d \in Datagrams
  OBVIOUS
<1>2. Datum(d) \in Data /\ d.ip \in Keys /\ Datum(d).key = d.ip
  BY <1>1, DirectoryAssumption DEF Datum, Data, Datagrams
<1>3. table' = tablahash_insert(table, Datum(d))
  BY DEF Store, Datum
<1>4. \A x \in Data : x.key \in Keys
  BY DEF Data
<1>5. /\ tablahash_insert(table, Datum(d)) \in Tables(Data)
      /\ tablahash_insert(table, Datum(d)).numElems =
            table.numElems + (IF InList(table.elems[Bucket(d.ip)], d.ip) THEN 0 ELSE 1)
      /\ Chained(tablahash_insert(table, Datum(d)))
      /\ Contents(tablahash_insert(table, Datum(d))) = [Contents(table) EXCEPT ![d.ip] = Datum(d)]
  BY <1>2, <1>4, InsertIsUpdate DEF TableInv
<1>6. Known' = [Known EXCEPT ![d.ip] = Datum(d)]
  BY <1>3, <1>5 DEF Known
<1>7. InList(table.elems[Bucket(d.ip)], d.ip) <=> Known[d.ip] # NoDatum
  BY <1>2, KnownType
<1> QED
  BY <1>2, <1>3, <1>5, <1>6, <1>7, Zenon DEF TableInv

\* check_nodes_timeouts unlinks an address that is known for too long.
LEMMA DropMap ==
    ASSUME TableInv, SweepDrops
    PROVE  /\ TableInv' /\ table'.numElems = table.numElems - 1
           /\ \E k \in Keys : /\ Known[k] # NoDatum /\ Known[k].age - sweep >= NodeTimeout
                              /\ Known' = [Known EXCEPT ![k] = NoDatum]
<1>0. PICK b \in Buckets : \E i \in TooOld(table.elems[b]) :
          table' = [elems    |-> [table.elems EXCEPT ![b] = Unlinked(@, i)],
                    numElems |-> table.numElems - 1]
  BY DEF SweepDrops
<1>1. PICK i \in TooOld(table.elems[b]) :
          table' = [elems    |-> [table.elems EXCEPT ![b] = Unlinked(@, i)],
                    numElems |-> table.numElems - 1]
  BY <1>0
<1>2. i \in DOMAIN table.elems[b] /\ table.elems[b][i].age - sweep >= NodeTimeout
  BY <1>1 DEF TooOld
<1>3. PICK k : k = table.elems[b][i].key
  OBVIOUS
<1>4. /\ k \in Keys /\ Bucket(k) = b /\ InList(table.elems[b], k)
      /\ tablahash_find(table, k) = table.elems[b][i]
      /\ table' = tablahash_remove(table, k)
  <2>1. Bucket(k) = b
    BY <1>2, <1>3, Zenon DEF TableInv, Chained
  <2>2. InList(table.elems[b], k)
    BY <1>2, <1>3 DEF InList
  <2> QED
    BY <1>1, <1>2, <1>3, <2>1, <2>2, UnlinkIsRemove, Zenon DEF TableInv
<1>5. /\ table' \in Tables(Data) /\ Chained(table')
      /\ table'.numElems = table.numElems - 1
      /\ Contents(table') = [Contents(table) EXCEPT ![k] = NoDatum]
  BY <1>4, RemoveIsUpdate DEF TableInv
<1>6. Known' = [Known EXCEPT ![k] = NoDatum]
  BY <1>5 DEF Known
<1>7. Known[k] # NoDatum /\ Known[k].age - sweep >= NodeTimeout
  BY <1>2, <1>4, KnownType, Zenon
<1>8. TableInv'
  BY <1>5 DEF TableInv
<1> QED
  BY <1>4, <1>5, <1>6, <1>7, <1>8, Zenon

\* A second that passes makes all that is known a second older.
LEMMA TickMap ==
    ASSUME TableInv, Tick
    PROVE  /\ TableInv' /\ table'.numElems = table.numElems
           /\ Known' = [k \in Keys |-> IF Known[k] = NoDatum THEN NoDatum ELSE Older(Known[k])]
<1>1. table' = Aged(table)
  BY DEF Tick
<1>2. /\ table' \in Tables(Data) /\ Chained(table') /\ table'.numElems = table.numElems
      /\ \A k \in Keys : tablahash_find(table', k) =
            IF tablahash_find(table, k) = NoDatum THEN NoDatum ELSE Older(tablahash_find(table, k))
  BY <1>1, OlderChains DEF TableInv
<1>3. Known' = [k \in Keys |-> IF Known[k] = NoDatum THEN NoDatum ELSE Older(Known[k])]
  <2>1. Known' = [k \in Keys |-> tablahash_find(table', k)]
    BY DEF Known, Contents
  <2>2. \A k \in Keys : Known[k] = tablahash_find(table, k)
    BY KnownType, Zenon
  <2> QED
    BY <1>2, <2>1, <2>2, Zenon
<1> QED
  BY <1>2, <1>3 DEF TableInv

\* A step that leaves the table alone leaves what is known.
LEMMA SameMap ==
    ASSUME TableInv, UNCHANGED table
    PROVE  TableInv' /\ Known' = Known
  BY DEF TableInv, Known

\* The constants are numbers.
LEMMA Numbers ==
    /\ First \in Nat /\ Period \in Nat /\ SweepPeriod \in Nat /\ NodeTimeout \in Nat
    /\ MaxDelay \in Nat /\ MaxLost \in Nat /\ Gap \in Nat
    /\ Settled \in Nat /\ Gone \in Nat /\ Settled = First + Gap + 2 * MaxDelay
    /\ Idle \notin Nat
  BY DirectoryAssumption DEF Settled, Gone, Gap

\* At start nothing is known.
LEMMA InitTable == Init => TableInv
<1> SUFFICES ASSUME Init PROVE TableInv
  OBVIOUS
<1>1. table = [elems |-> [b \in Buckets |-> <<>>], numElems |-> 0]
  BY DEF Init, tablahash_create
<1>2. table \in Tables(Data)
  BY <1>1 DEF Tables
<1>3. \A b \in Buckets : DOMAIN table.elems[b] = {}
  BY <1>1
<1>4. Chained(table)
  BY <1>3 DEF Chained
<1> QED
  BY <1>2, <1>4 DEF TableInv

\* The types at start.
LEMMA InitTyped == Init => Typed
<1> SUFFICES ASSUME Init PROVE Typed
  OBVIOUS
<1>1. life \in [Agents -> Nat] /\ \A a \in Agents : life[a] <= MaxLife(a)
  BY Numbers DEF Init, MaxLife
<1>2. port \in [Agents -> Ports]
  BY DirectoryAssumption DEF Init
<1>3. timer \in [Agents -> [left : 0..Period, every : {Period}]]
  BY Numbers, TimingAssumption DEF Init, make_timer
<1>4. tick \in [left : 0..SweepPeriod, every : {SweepPeriod}]
  BY Numbers DEF Init, make_timer
<1>5. lost \in [Agents -> 0..MaxLost]
  BY Numbers DEF Init
<1> QED
  BY <1>1, <1>2, <1>3, <1>4, <1>5, Zenon DEF Init, Typed

\* The types of what a timer does.
LEMMA TimerTypes ==
    ASSUME NEW n \in Nat, NEW t \in [left : 0..n, every : {n}]
    PROVE  /\ Again(t) \in [left : 0..n, every : {n}] /\ Again(t).left = n
           /\ t.left > 0 => /\ Elapse(t) \in [left : 0..n, every : {n}]
                            /\ Elapse(t).left = t.left - 1
  BY DEF Again, Elapse

\* Every step keeps the types.
LEMMA TypedStep ==
    ASSUME Typed, TableInv, Next
    PROVE  Typed'
<1> USE Numbers
<1>1. ASSUME NEW a \in Agents, Broadcast(a) PROVE Typed'
  <2>1. timer' \in [Agents -> [left : 0..Period, every : {Period}]]
    BY <1>1, TimerTypes DEF Broadcast, Typed
  <2>2. net' \subseteq Datagrams
    <3>1. [ip |-> Ip[a], port |-> port[a], read |-> FALSE, age |-> 0] \in Datagrams
      BY DirectoryAssumption DEF Datagrams, Typed
    <3> QED
      BY <1>1, <3>1, Zenon DEF Broadcast, Typed
  <2>3. lost' \in [Agents -> 0..MaxLost]
    BY <1>1 DEF Broadcast, Typed
  <2> QED
    BY <1>1, <2>1, <2>2, <2>3, Zenon DEF Broadcast, Typed, MaxLife
<1>2. ASSUME NEW a \in Agents, Crash(a) PROVE Typed'
  <2>1. /\ life' \in [Agents -> Nat] /\ life'[a] = 0
        /\ \A b \in Agents \ {a} : life'[b] = life[b] /\ (b \in up' <=> b \in up)
    BY <1>2 DEF Crash, Typed
  <2>2. \A b \in Agents : life'[b] <= MaxLife(b)'
    BY <2>1 DEF Typed, MaxLife
  <2> QED
    BY <1>2, <2>1, <2>2, Zenon DEF Crash, Typed
<1>3. ASSUME NEW a \in Agents, Restart(a) PROVE Typed'
  <2>1. /\ life' \in [Agents -> Nat] /\ life'[a] = 0
        /\ \A b \in Agents \ {a} : life'[b] = life[b] /\ (b \in up' <=> b \in up)
    BY <1>3 DEF Restart, Typed
  <2>2. \A b \in Agents : life'[b] <= MaxLife(b)'
    BY <2>1 DEF Typed, MaxLife
  <2>3. timer' \in [Agents -> [left : 0..Period, every : {Period}]]
    BY <1>3, TimingAssumption DEF Restart, Typed, make_timer
  <2>4. port' \in [Agents -> Ports]
    BY <1>3 DEF Restart, Typed
  <2> QED
    BY <1>3, <2>1, <2>2, <2>3, <2>4, Zenon DEF Restart, Typed
<1>4. ASSUME NEW d \in net, Receive(d) PROVE Typed'
  <2>0. d \in Datagrams /\ 0 \in 0..MaxDelay
    BY DEF Typed
  <2>1. [d EXCEPT !.read = TRUE, !.age = 0] \in Datagrams
    BY <2>0, Zenon DEF Datagrams
  <2>2. net' \subseteq Datagrams
    BY <1>4, <2>1 DEF Receive, Typed
  <2>3. UNCHANGED <<up, life, port, lost, timer, tick, sweep, locked>>
    BY <1>4 DEF Receive, peers
  <2> QED
    BY <2>2, <2>3 DEF Typed, MaxLife
<1>5. ASSUME NEW d \in net, Store(d) PROVE Typed'
  BY <1>5 DEF Store, Typed, peers, MaxLife
<1>6. CASE SweepReads
  BY <1>6, TimerTypes DEF SweepReads, Typed, peers, MaxLife
<1>7. CASE SweepDrops
  BY <1>7 DEF SweepDrops, Typed, peers, MaxLife
<1>8. CASE SweepEnds
  BY <1>8, Zenon DEF SweepEnds, Typed, peers, MaxLife
<1>9. CASE Tick
  <2>1. /\ life' \in [Agents -> Nat] /\ \A a \in Agents : life'[a] <= MaxLife(a)'
    BY <1>9 DEF Tick, Typed, MaxLife
  <2>2. timer' \in [Agents -> [left : 0..Period, every : {Period}]]
    BY <1>9, TimerTypes DEF Tick, Typed
  <2>3. net' \subseteq Datagrams
    <3>1. \A d \in net : Older(d) \in Datagrams
      BY <1>9 DEF Tick, Typed, Datagrams, Older
    <3> QED
      BY <1>9, <3>1 DEF Tick
  <2>4. tick' \in [left : 0..SweepPeriod, every : {SweepPeriod}]
    BY <1>9, TimerTypes, Zenon DEF Tick, Typed
  <2>5. sweep' \in 0..MaxDelay \union {Idle} /\ (sweep' = Idle <=> sweep = Idle)
    BY <1>9 DEF Tick, Typed
  <2> QED
    BY <1>9, <2>1, <2>2, <2>3, <2>4, <2>5, Zenon DEF Tick, Typed
<1> QED
  BY <1>1, <1>2, <1>3, <1>4, <1>5, <1>6, <1>7, <1>8, <1>9, Zenon DEF Next

\* Every step keeps the table in order.
LEMMA TableStep ==
    ASSUME Typed, TableInv, Next
    PROVE  TableInv'
<1>1. ASSUME NEW d \in net, Store(d) PROVE TableInv'
  BY <1>1, StoreMap DEF Typed
<1>2. CASE SweepDrops
  BY <1>2, DropMap
<1>3. CASE Tick
  BY <1>3, TickMap
<1>4. CASE UNCHANGED table
  BY <1>4, SameMap
<1> QED
  BY <1>1, <1>2, <1>3, <1>4, Zenon
     DEF Next, Broadcast, Crash, Restart, Receive, SweepReads, SweepEnds

\* The types and the order of the chains hold always.
THEOREM DirectoryTyped == Spec => [](Typed /\ TableInv)
<1>1. Init => Typed /\ TableInv
  BY InitTyped, InitTable
<1>2. Typed /\ TableInv /\ [Next]_vars => (Typed /\ TableInv)'
  <2> SUFFICES ASSUME Typed, TableInv, [Next]_vars PROVE (Typed /\ TableInv)'
    OBVIOUS
  <2>1. CASE Next
    BY <2>1, TypedStep, TableStep
  <2>2. CASE UNCHANGED vars
    <3>1. UNCHANGED <<up, life, port, lost, timer, net, table, tick, sweep, locked>>
      BY <2>2 DEF vars, peers
    <3> QED
      BY <3>1, SameMap DEF Typed, MaxLife
  <2> QED
    BY <2>1, <2>2
<1> QED
  BY <1>1, <1>2, PTL DEF Spec

\* A step of the agent changes what it knows the way the map of last announcements
\* may change, or not at all.
LEMMA PeersStep ==
    ASSUME Typed, TableInv, Next
    PROVE  Peers!Next \/ Known' = Known
<1>1. ASSUME NEW d \in net, Store(d) PROVE Peers!Next
  <2>1. Known' = [Known EXCEPT ![d.ip] = Datum(d)]
    BY <1>1, StoreMap DEF Typed
  <2>2. Datum(d) \in Peers!Announcements /\ Datum(d).key = d.ip
    BY DEF Typed, Datagrams, Datum, Peers!Announcements
  <2>3. Peers!Hear(Datum(d))
    BY <2>1, <2>2 DEF Peers!Hear, Known
  <2> QED
    BY <2>2, <2>3 DEF Peers!Next
<1>2. CASE SweepDrops
  <2>1. PICK k \in Keys : /\ Known[k] # NoDatum /\ Known[k].age - sweep >= NodeTimeout
                          /\ Known' = [Known EXCEPT ![k] = NoDatum]
    BY <1>2, DropMap
  <2>2. sweep \in 0..MaxDelay
    BY <1>2 DEF SweepDrops, Typed
  <2>3. Peers!Expire(k, sweep)
    BY <2>1 DEF Peers!Expire, Known
  <2> QED
    BY <2>1, <2>2, <2>3 DEF Peers!Next
<1>3. CASE Tick
  <2>1. Known' = [k \in Keys |-> IF Known[k] = NoDatum THEN NoDatum ELSE Older(Known[k])]
    BY <1>3, TickMap
  <2>2. Peers!Grow
    BY <2>1 DEF Peers!Grow, Known, Older
  <2> QED
    BY <2>2 DEF Peers!Next
<1>4. CASE UNCHANGED table
  BY <1>4, SameMap
<1> QED
  BY <1>1, <1>2, <1>3, <1>4, Zenon
     DEF Next, Broadcast, Crash, Restart, Receive, SweepReads, SweepEnds

\* Chains, datagrams and sweeps implement the map of last announcements that an
\* agent promises to keep (table_nodes, udp_datagram_from_remote,
\* check_nodes_timeouts).
THEOREM PeersImplemented == Spec => ImplementsPeerMap
<1>1. Init => Peers!Init
  <2> SUFFICES ASSUME Init PROVE Known = [k \in Keys |-> NoDatum]
    BY DEF Peers!Init, Known
  <2>1. TableInv
    BY InitTable
  <2>2. \A b \in Buckets : DOMAIN table.elems[b] = {}
    BY DEF Init, tablahash_create
  <2>3. \A k \in Keys : ~InList(table.elems[Bucket(k)], k)
    BY <2>2, BucketType, Zenon DEF InList
  <2>4. \A k \in Keys : Known[k] = NoDatum
    BY <2>1, <2>3, KnownType, Zenon
  <2> QED
    BY <2>4 DEF Known, Contents
<1>2. Typed /\ TableInv /\ [Next]_vars => [Peers!Next]_(Contents(table))
  <2> SUFFICES ASSUME Typed, TableInv, [Next]_vars
               PROVE  Peers!Next \/ Known' = Known
    BY DEF Known
  <2>1. CASE Next
    BY <2>1, PeersStep
  <2>2. CASE UNCHANGED vars
    BY <2>2, SameMap DEF vars
  <2> QED
    BY <2>1, <2>2
<1> QED
  BY <1>1, <1>2, DirectoryTyped, PTL DEF Spec, ImplementsPeerMap, Peers!Spec
=============================================================================
