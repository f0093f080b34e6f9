----------------------------- MODULE MCFileServer -----------------------------
(* Two clients, a short and a long line, a timestamp of two bytes. *)
EXTENDS FileServer

CONSTANTS c1, c2, x, y, ts, nl

MCConn == {c1, c2}
MCTexts == {<<x, nl>>, <<y, y, nl>>}
MCSeekLine == <<nl>>
MCStamp == <<ts, nl>>

=============================================================================
