------------------------------ MODULE MCAesdChar ------------------------------
(* The driver with two processes and room for two commands.  Four addresses
   are as many as two entries, a staged command and a copy in progress need. *)
EXTENDS AesdChar, TLC

CONSTANTS p1, p2, p3, p4, t1, t2, x, y, nl

MCPtr == {p1, p2, p3, p4}
MCProc == {t1, t2}
MCByte == {x, y, nl}
Symmetry == Permutations(MCPtr) \cup Permutations(MCProc)

\* A command in one write, a command in two writes, and a lone newline.
MCChunks == {<<x>>, <<y, nl>>}
MCChunksWithEmpty == {<< >>, <<x>>, <<nl>>}
MCSeekArgs == {<<1, "SEEK_SET">>, <<-1, "SEEK_END">>, <<1, "SEEK_CUR">>}
MCSeekArgsEdge == {<<0, "SEEK_CUR">>, <<0, "SEEK_DATA">>}
MCIoctlArgs == {<<0, 1>>, <<1, 0>>, <<2, 0>>}
MCNone == {}

\* Without symmetry: one entry, what replaces it, and a staged byte.
MCPtrLive == {p1, p2, p3}
MCIoctlArgsOne == {<<0, 0>>}

=============================================================================
