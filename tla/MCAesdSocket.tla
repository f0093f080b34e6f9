----------------------------- MODULE MCAesdSocket -----------------------------
(* Two clients; a device that keeps two commands, so that one is evicted, and
   may hold the start of another at first (server_live); a read buffer smaller
   than such a command, so that it takes several reads; lines of two bytes
   and, where it matters, a stdio buffer of one. *)
EXTENDS AesdSocket, TLC

CONSTANTS c1, c2, x, nl

MCConn == {c1, c2}
MCText == {<<x>>}
MCSeek == {<<1, 1>>}
MCLeftover == {<<x>>}
MCEmpty == {<< >>}
MCNone == {}
Symmetry == Permutations(MCConn)

=============================================================================
