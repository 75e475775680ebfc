------------------------------- MODULE MCCluster -------------------------------
(* Cluster on small instances.                                              *)
EXTENDS Cluster, TLC

CONSTANTS nA, nB, nC, j3, j4, f1, f2

MCCapacity == <<2, 1, 1>>

Step(n, t, q) == [node |-> n, type |-> t, amount |-> q]

\* The scenario of test_deadlock.sh and its relatives.  Job 3 asks in the order
\* of the scheduler, job 4 in that order or in the opposite one, or for two
\* resources of one node.
MCPlans ==
    [j \in Jobs |->
        IF j = j3
          THEN {<<Step(nA, 1, 2), Step(nB, 2, 1), Step(nC, 3, 1)>>,
                <<Step(nA, 1, 2), Step(nB, 3, 1)>>}
          ELSE {<<Step(nA, 1, 1), Step(nB, 2, 1), Step(nC, 3, 1)>>,
                <<Step(nB, 1, 1), Step(nA, 3, 1)>>,
                <<Step(nB, 3, 1), Step(nA, 1, 1)>>,
                <<Step(nB, 2, 1), Step(nA, 1, 1)>>,
                <<Step(nC, 1, 1), Step(nC, 2, 1)>>}]
=============================================================================
