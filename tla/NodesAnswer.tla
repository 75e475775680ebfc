----------------------------- MODULE NodesAnswer -----------------------------
(***************************************************************************)
(* The answer to GET_NODES: what an agent tells its scheduler of the       *)
(* directory it keeps.                                                     *)
(***************************************************************************)
EXTENDS Directory, SequencesExt

CONSTANT
    Room    \* nodes whose text fits in the buffer of NODES

ASSUME RoomAssumption == Room \in Nat

\* Fault: the newline is written whether there is room or not.
AnswerEnded ==
    LET all == FlattenSeq(table.elems)
    IN  [nodes |-> SubSeq(all, 1, IF Len(all) < Room THEN Len(all) ELSE Room),
         ended |-> TRUE]

\* get_nodes_instance writes the chains one after the other for as long as the
\* buffer has room, and ends the line if it still has.
get_nodes_instance ==
    LET all == FlattenSeq(table.elems)
    IN  [nodes |-> SubSeq(all, 1, IF Len(all) < Room THEN Len(all) ELSE Room),
         ended |-> Len(all) <= Room]

\* An answer to GET_NODES that ends its line names every node once.
AnswerIsComplete ==
    LET answer == get_nodes_instance
    IN  answer.ended =>
            \A k \in Keys :
                Cardinality({i \in DOMAIN answer.nodes : answer.nodes[i].key = k})
                    = IF tablahash_find(table, k) = NoDatum THEN 0 ELSE 1
=============================================================================
