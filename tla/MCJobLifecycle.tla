---------------------------- MODULE MCJobLifecycle ----------------------------
(* JobLifecycle for TLC.                                                    *)
EXTENDS JobLifecycle

\* The last job rolled zero for each of its resources.
MCNReq == [i \in Ids |-> IF i = 1000 + MaxId THEN 0 ELSE 1]

\* All jobs were generated and have come to rest, or nobody is left to move them.
AtRest ==
    /\ \/ nextId \notin Ids
       \/ coord # "up"
    /\ \A i \in Ids : \/ job[i] \in {"none", "done", "dead"}
                      \/ coord # "up" /\ job[i] = "waiting" /\ mail[i] = <<>>

MCNext == LNext \/ (AtRest /\ UNCHANGED vars)

MCSpec == LInit /\ [][MCNext]_vars

MCFairSpec == MCSpec /\ LFairness
=============================================================================
