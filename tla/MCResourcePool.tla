---------------------------- MODULE MCResourcePool ----------------------------
(* ResourcePool on small instances, with the sums that only TLC evaluates.  *)
EXTENDS ResourcePool, FiniteSetsExt, TLC

CONSTANTS w1, w2, c1, c2, c3, c4, f1, f2, f3, j1, j2

\* Four clients on two types.  Three compete for type 1, one of them for all of
\* it, and two of those use the same job id, as two nodes that both count from
\* 1001 do.
MCCapacity == <<2, 1>>
MCJobOf == [c \in Conns |-> IF c \in {c1, c2} THEN j1 ELSE j2]
MCTypeOf == [c \in Conns |-> IF c = c3 THEN 2 ELSE 1]
MCAmountOf == [c \in Conns |-> IF c = c2 THEN 2 ELSE 1]

\* One client holds all of type 1 while three of another job come and go.
HogCapacity == <<2>>
HogJobOf == [c \in Conns |-> IF c = c4 THEN j2 ELSE j1]
HogTypeOf == [c \in Conns |-> 1]
HogAmountOf == [c \in Conns |-> IF c = c4 THEN 2 ELSE 1]
HogGarbage == {-1, 2}

Symmetry == Permutations(Workers) \union Permutations(Fds)

MCNext == Next \/ (Quiet /\ UNCHANGED vars)
MCSpec == Init /\ [][MCNext]_vars
MCFairSpec == MCSpec /\ Fairness

SumOver(S, f(_)) == MapThenSumSet(f, S)

\* What the workers have taken off queue t and not yet recorded.
Stashed(w, t) ==
    IF ti[w] = t
      THEN LET n == IF pc[w] = "send" THEN 2 ELSE 1
           IN  SumOver(n..Len(ready[w]), LAMBDA i : ready[w][i].amount)
      ELSE 0

\* No unit of a resource is lost or made up: what is free, what is recorded as
\* granted, what a drain has stashed and what a release carries back always
\* add up to what the node owns.
Conservation ==
    \A t \in Types :
        left[t] + SumOver(Keys, LAMBDA k : table[k].granted[t])
                + SumOver(Workers, LAMBDA w : Stashed(w, t) + add[w][t])
          = Capacity[t]
=============================================================================
