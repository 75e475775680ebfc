------------------------------ MODULE MCNodeJobs ------------------------------
(* NodeJobs for TLC.                                                        *)
EXTENDS NodeJobs, TLC

CONSTANT Resources    \* how many resources a job asks for

MCNReq == [i \in Ids |-> Resources]

\* The last job rolled zero for each of its resources.
MCNReqZero == [i \in Ids |-> IF i = 1000 + MaxId THEN 0 ELSE Resources]

Symmetry == Permutations(Workers) \union Permutations(Fds)

\* All jobs have ended and the agent has nothing left to do.
AtRest ==
    /\ nextId \notin Ids
    /\ \A i \in Ids : job[i] \in {"done", "dead"}

\* A connection failed and there is no timeout: the job waits for ever.
Stuck == \E i \in Ids : Faults /\ i \notin Timeouts /\ job[i] = "waiting"

MCNext == NNext \/ ((AtRest \/ Stuck) /\ UNCHANGED vars)

MCSpec == NInit /\ [][MCNext]_vars
=============================================================================
