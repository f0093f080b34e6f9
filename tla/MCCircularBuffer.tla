---------------------------- MODULE MCCircularBuffer ----------------------------
(* The buffer with its real capacity and entries of one and two bytes. *)
EXTENDS CircularBufferUse

CONSTANTS p1, p2

MCPtr == {p1, p2}
MCEntries == {[buffptr |-> p1, size |-> 1], [buffptr |-> p2, size |-> 2]}

=============================================================================
