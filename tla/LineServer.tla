------------------------------ MODULE LineServer ------------------------------
(***************************************************************************)
(* What aesdsocket promises its clients, with no threads, mutex, stdio or  *)
(* descriptors: every line is handled at one instant, and its answer is    *)
(* what the device held at that instant, whatever is stored while the      *)
(* answer is on its way.  Only a client that has gone gets less.           *)
(***************************************************************************)
EXTENDS CommandLog

CONSTANTS Conn, Message, NewLine, Capacity, Leftover, NULL

VARIABLES
  log,      \* the commands the device holds
  junk,     \* incomplete bytes in it, which the next line is appended to
  phase,    \* "idle", "asked", "answering" or "refused"
  request,  \* the line being handled
  answer,   \* what its client is to get
  sent,     \* what it has got
  gone      \* has it gone?

vars == <<log, junk, phase, request, answer, sent, gone>>

Init ==
  /\ log = << >> /\ junk \in Leftover
  /\ phase = [c \in Conn |-> "idle"] /\ request = [c \in Conn |-> NULL]
  /\ answer = [c \in Conn |-> NULL] /\ sent = [c \in Conn |-> << >>]
  /\ gone = [c \in Conn |-> FALSE]

Goto(c, from, to) ==
  phase[c] = from /\ phase' = [phase EXCEPT ![c] = to] /\ UNCHANGED gone

Ask(c, m) ==
  /\ Goto(c, "idle", "asked") /\ request' = [request EXCEPT ![c] = m]
  /\ UNCHANGED <<log, junk, answer, sent>>

\* The device cannot be opened: the line is dropped.
Drop(c) ==
  /\ Goto(c, "asked", "idle") /\ request' = [request EXCEPT ![c] = NULL]
  /\ UNCHANGED <<log, junk, answer, sent>>

Answer(c, bytes) ==
  /\ Goto(c, "asked", "answering") /\ answer' = [answer EXCEPT ![c] = bytes]
  /\ UNCHANGED <<request, sent>>

Refuse(c) == Goto(c, "asked", "refused") /\ UNCHANGED <<request, answer, sent>>

Asked(c, op) == phase[c] = "asked" /\ request[c].op = op

Line(c) == Append(request[c].text, NewLine)

Store(c) ==
  /\ Asked(c, "text")
  /\ log' = Keep(log, junk \o Line(c), Capacity) /\ junk' = << >>
  /\ Answer(c, Stream(log'))

\* The device fails: a part of the line, and never all of it, stays behind.
Lose(c) ==
  /\ Asked(c, "text")
  /\ \E n \in 0 .. Len(request[c].text) : junk' = junk \o SubSeq(Line(c), 1, n)
  /\ Answer(c, Stream(log)) \/ Refuse(c)
  /\ UNCHANGED log

SeekTo(c) ==
  /\ Asked(c, "seek")
  /\ IF SeekIsValid(log, request[c])
     THEN Answer(c, SubSeq(Stream(log), SeekPosition(log, request[c]) + 1, Len(Stream(log))))
     ELSE Refuse(c)
  /\ UNCHANGED <<log, junk>>

Deliver(c) ==
  /\ phase[c] = "answering"
  /\ \E n \in Len(sent[c]) + 1 .. Len(answer[c]) :
       sent' = [sent EXCEPT ![c] = SubSeq(answer[c], 1, n)]
  /\ UNCHANGED <<log, junk, phase, request, answer, gone>>

Finish(c) ==
  /\ \/ Goto(c, "answering", "idle") /\ (sent[c] = answer[c] \/ gone[c])
     \/ Goto(c, "refused", "idle")
  /\ request' = [request EXCEPT ![c] = NULL] /\ answer' = [answer EXCEPT ![c] = NULL]
  /\ sent' = [sent EXCEPT ![c] = << >>]
  /\ UNCHANGED <<log, junk>>

Leave(c) ==
  /\ gone' = [gone EXCEPT ![c] = TRUE]
  /\ UNCHANGED <<log, junk, phase, request, answer, sent>>

Next ==
  \E c \in Conn :
    \/ \E m \in Message : Ask(c, m)
    \/ Drop(c) \/ Store(c) \/ Lose(c) \/ SeekTo(c)
    \/ Deliver(c) \/ Finish(c) \/ Leave(c)

Spec == Init /\ [][Next]_vars

=============================================================================
