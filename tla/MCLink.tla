-------------------------------- MODULE MCLink --------------------------------
(* Two schedulers, one after the other, and a node that sends a line that is *)
(* too long and then one that is not.                                        *)
EXTENDS Link

CONSTANTS s1, s2, n1

MCLines == (s1 :> <<1, 1>>) @@ (s2 :> <<2>>) @@ (n1 :> <<4, 1>>)
=============================================================================
