--------------------------------- MODULE MCServer ---------------------------------
(***************************************************************************)
(* A small instance of Server for TLC: two clients, one of them with two   *)
(* requests at once.                                                       *)
(***************************************************************************)
EXTENDS Server

CONSTANTS ip1, ip2, r3

MCOrigin == [w \in Requests |-> IF w = r3 THEN ip2 ELSE ip1]
================================================================================
