----------------------------- MODULE TcpConnection -----------------------------
(***************************************************************************)
(* The receiving half of server/src/tcp_connection.c, byte by byte: a      *)
(* worker calls tcp_connection_receive_message again and again on one      *)
(* connection, and each call reads up to a delimiter into a buffer that    *)
(* doubles when it is full.  The peer sends bytes at its own pace, and     *)
(* recv may fail (a signal, a reset) between any two of them.              *)
(***************************************************************************)
EXTENDS Integers, SequencesExt

CONSTANTS
  Byte, Delimiter,  \* bytes, and '\n'
  NUL,              \* the byte '\0'
  INITIAL_SIZE,     \* first value of buffer_size (1024)
  INT_MAX,          \* largest int
  MAX_BYTES,        \* bytes the peer sends (a bound of the model)
  MAX_ERRORS        \* times recv fails (a bound of the model)

ASSUME ConnectionAssumption ==
  /\ Delimiter \in Byte /\ NUL \in Byte /\ NUL # Delimiter
  /\ INITIAL_SIZE \in 1 .. INT_MAX
  /\ INT_MAX \in Nat /\ MAX_BYTES \in Nat /\ MAX_ERRORS \in Nat

VARIABLES
  wire,          \* bytes sent and not yet received
  peer_open,     \* may the peer still send?
  is_open,       \* connection->is_open
  pc,            \* "idle", "recv" or "aborted"
  buffer,        \* the bytes below current_size
  buffer_size,
  current_size,
  sent,          \* history: everything the peer has sent
  lines,         \* history: the lines returned, and what errors threw away
  errors         \* history: failures of recv so far

vars == <<wire, peer_open, is_open, pc, buffer, buffer_size, current_size, sent, lines, errors>>

-----------------------------------------------------------------------------
(* Mutated forms of the definitions below (see PROJECT.json, "mutants").   *)

FullOneLate(size) == size > buffer_size
FreshBuffer(b) == << >>
StaysOpen(o) == o
NeverFull(size) == FALSE
DelimiterKept(s) == Append(s, Delimiter)

-----------------------------------------------------------------------------

Init ==
  /\ wire = << >> /\ peer_open = TRUE /\ is_open = TRUE
  /\ pc = "idle" /\ buffer = << >> /\ buffer_size = 0 /\ current_size = 0
  /\ sent = << >> /\ lines = << >> /\ errors = 0

PeerSends(b) ==
  /\ peer_open /\ Len(sent) < MAX_BYTES
  /\ wire' = Append(wire, b) /\ sent' = Append(sent, b)
  /\ UNCHANGED <<peer_open, is_open, pc, buffer, buffer_size, current_size, lines, errors>>

PeerCloses ==
  /\ peer_open /\ peer_open' = FALSE
  /\ UNCHANGED <<wire, is_open, pc, buffer, buffer_size, current_size, sent, lines, errors>>

\* A call, up to its first recv.
receive_message_start ==
  /\ pc = "idle" /\ is_open
  /\ pc' = "recv"
  /\ buffer' = << >> /\ buffer_size' = INITIAL_SIZE /\ current_size' = 0
  /\ UNCHANGED <<wire, peer_open, is_open, sent, lines, errors>>

\* The call returns and its buffer is the caller's, or freed.
Return(entry) ==
  /\ pc' = "idle"
  /\ lines' = IF entry.read = << >> THEN lines ELSE Append(lines, entry)
  /\ buffer' = << >> /\ buffer_size' = 0 /\ current_size' = 0

\* What the caller sees of the buffer: a string ends at its first '\0'.
CString(s) ==
  IF \E i \in 1 .. Len(s) : s[i] = NUL
  THEN SubSeq(s, 1, Min({i \in 1 .. Len(s) : s[i] = NUL}) - 1)
  ELSE s

recv_delimiter ==
  /\ pc = "recv" /\ wire # << >> /\ Head(wire) = Delimiter
  /\ wire' = Tail(wire)
  /\ Return([read |-> Append(buffer, Delimiter), message |-> CString(buffer)])
  /\ UNCHANGED <<peer_open, is_open, sent, errors>>

BufferFull(size) == size = buffer_size

\* realloc keeps what was received.
Reallocated(b) == b

\* The size doubles; past INT_MAX it wraps, realloc of the negative size
\* fails and the assertion ends the program.  It may also fail before that.
recv_byte ==
  LET size == current_size + 1
      bytes == Append(buffer, Head(wire))
  IN  /\ pc = "recv" /\ wire # << >> /\ Head(wire) # Delimiter
      /\ wire' = Tail(wire)
      /\ current_size' = size
      /\ \/ /\ ~BufferFull(size)
            /\ buffer' = bytes /\ UNCHANGED <<buffer_size, pc>>
         \/ /\ BufferFull(size) /\ 2 * buffer_size <= INT_MAX
            /\ buffer' = Reallocated(bytes) /\ buffer_size' = 2 * buffer_size
            /\ UNCHANGED pc
         \/ /\ BufferFull(size)
            /\ pc' = "aborted" /\ UNCHANGED <<buffer, buffer_size>>
      /\ UNCHANGED <<peer_open, is_open, sent, lines, errors>>

OpenAfterEof(o) == FALSE

\* recv returns 0.
recv_eof ==
  /\ pc = "recv" /\ wire = << >> /\ ~peer_open
  /\ Return([read |-> buffer, message |-> << >>])
  /\ is_open' = OpenAfterEof(is_open)
  /\ UNCHANGED <<wire, peer_open, sent, errors>>

\* recv returns -1: what has been received of the line is freed, and the
\* connection stays open.
recv_error ==
  /\ pc = "recv" /\ errors < MAX_ERRORS
  /\ errors' = errors + 1
  /\ Return([read |-> buffer, message |-> << >>])
  /\ UNCHANGED <<wire, peer_open, is_open, sent>>

Next ==
  \/ \E b \in Byte : PeerSends(b)
  \/ PeerCloses
  \/ receive_message_start
  \/ recv_delimiter \/ recv_byte \/ recv_eof \/ recv_error

Spec == Init /\ [][Next]_vars

(* The worker keeps calling and recv keeps returning.                      *)
Fairness ==
  WF_vars(receive_message_start \/ recv_delimiter \/ recv_byte \/ recv_eof)

FairSpec == Spec /\ Fairness

-----------------------------------------------------------------------------

(* Every variable of the function and of its peer has its type.            *)
TypeOK ==
  /\ {wire, buffer, sent} \subseteq Seq(Byte)
  /\ peer_open \in BOOLEAN /\ is_open \in BOOLEAN
  /\ pc \in {"idle", "recv", "aborted"}
  /\ buffer_size \in 0 .. INT_MAX /\ current_size \in 0 .. buffer_size
  /\ lines \in Seq([read : Seq(Byte), message : Seq(Byte)])
  /\ errors \in 0 .. MAX_ERRORS

(* recv writes at buffer[current_size] and the terminating '\0' goes to    *)
(* the same place: the index is inside the buffer before every call, also  *)
(* right after the buffer grew, and everything below it has been received. *)
RecvInBounds ==
  pc = "recv" => current_size < buffer_size /\ Len(buffer) = current_size

(* No byte is lost, repeated or reordered between calls: what the calls    *)
(* have consumed, the line being read and the bytes still on the wire are  *)
(* what the peer sent.                                                     *)
NothingLost ==
  pc # "aborted" =>
    FlattenSeq([i \in 1 .. Len(lines) |-> lines[i].read]) \o buffer \o wire = sent

(* A returned message is never more than one line of what was sent, and    *)
(* begins where the call before it stopped reading, also after an error.   *)
MessagesAreLines ==
  \A i \in 1 .. Len(lines) :
    LET m == lines[i].message
    IN  /\ \A k \in 1 .. Len(m) : m[k] \notin {Delimiter, NUL}
        /\ IsPrefix(FlattenSeq([j \in 1 .. i - 1 |-> lines[j].read]) \o m, sent)

(* A worker is not kept by a client that has gone: once the peer has       *)
(* closed, the connection is marked closed.                                *)
CloseIsNoticed == ~peer_open ~> ~is_open \/ pc = "aborted"

=============================================================================
