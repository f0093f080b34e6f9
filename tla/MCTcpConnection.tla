---------------------------- MODULE MCTcpConnection ----------------------------
(* A buffer that starts with one byte and can double twice, and a peer that
   sends enough to need it. *)
EXTENDS TcpConnection

CONSTANTS x, nl, z

MCByte == {x, nl, z}

=============================================================================
