---------------------------- MODULE MCRendezvous ----------------------------
(***************************************************************************)
(* Rendezvous with two runs whose masters are at different addresses.      *)
(***************************************************************************)
EXTENDS Rendezvous

CONSTANTS i1, i2, q1, q2

MCIps   == {i1, i2}
MCPorts == {q1, q2}
MCIp    == [k \in Runs |-> IF k = 1 THEN i1 ELSE i2]
MCPort  == [k \in Runs |-> IF k = 1 THEN q1 ELSE q2]
=============================================================================
