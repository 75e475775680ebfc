------------------------------ MODULE MCDirectory ------------------------------
(* Two agents whose addresses share a bucket.                                *)
EXTENDS NodesAnswer

CONSTANTS a1, a2

MCHash == (10 :> 10) @@ (12 :> 12)
MCIp == (a1 :> 10) @@ (a2 :> 12)
=============================================================================
