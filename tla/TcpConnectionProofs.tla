-------------------------- MODULE TcpConnectionProofs --------------------------
(***************************************************************************)
(* Proofs about TcpConnection, for every first size of the buffer, every   *)
(* width of int and any number of bytes and errors: recv writes inside the *)
(* buffer, no byte is lost between calls, and messages are lines.          *)
(***************************************************************************)
EXTENDS TcpConnection, SequenceLemmas

LineEntry == [read : Seq(Byte), message : Seq(Byte)]

\* What the first n calls in ls consumed.
Reads(ls, n) == [j \in 1 .. n |-> ls[j].read]
Consumed == FlattenSeq(Reads(lines, Len(lines)))

\* A line being read has no delimiter yet, and between calls there is none.
LineInv ==
  /\ pc = "idle" => buffer = << >>
  /\ \A i \in 1 .. Len(buffer) : buffer[i] # Delimiter

IndInv == TypeOK /\ RecvInBounds /\ LineInv /\ NothingLost /\ MessagesAreLines

-----------------------------------------------------------------------------
(* The operators.                                                          *)

(* Bytes move from the front of one sequence to the end of the other.      *)
LEMMA Concatenation ==
  ASSUME NEW S, NEW s \in Seq(S), NEW t \in Seq(S), NEW e \in S
  PROVE  /\ s \o Append(t, e) = Append(s \o t, e)
         /\ Append(s, e) \in Seq(S) /\ s \o t \in Seq(S)
         /\ s \o << >> = s
  OBVIOUS

LEMMA MoveByte ==
  ASSUME NEW S, NEW s \in Seq(S), NEW w \in Seq(S), w # << >>
  PROVE  /\ Head(w) \in S /\ Tail(w) \in Seq(S)
         /\ Append(s, Head(w)) \o Tail(w) = s \o w
<1>1. /\ Head(w) \in S /\ Tail(w) \in Seq(S) /\ Len(w) \in Nat \ {0}
      /\ Head(w) = w[1] /\ Len(Tail(w)) = Len(w) - 1
      /\ \A i \in 1 .. Len(w) - 1 : Tail(w)[i] = w[i + 1]
  OBVIOUS
<1>2. PICK h \in S, u \in Seq(S) : h = Head(w) /\ u = Tail(w)
  BY <1>1
<1>3. /\ Append(s, h) \o u \in Seq(S) /\ s \o w \in Seq(S)
      /\ Len(Append(s, h) \o u) = Len(s) + Len(w) /\ Len(s \o w) = Len(s) + Len(w)
  BY <1>1, <1>2
<1>4. ASSUME NEW i \in 1 .. Len(s) + Len(w) PROVE (Append(s, h) \o u)[i] = (s \o w)[i]
  <2>1. CASE i <= Len(s)
    BY <1>1, <1>2, <2>1
  <2>2. CASE i = Len(s) + 1
    BY <1>1, <1>2, <2>2
  <2>3. CASE i > Len(s) + 1
    BY <1>1, <1>2, <2>3
  <2>4. i <= Len(s) \/ i = Len(s) + 1 \/ i > Len(s) + 1
    BY <1>1
  <2> QED
    BY <2>1, <2>2, <2>3, <2>4, Zenon
<1>5. Append(s, h) \o u = s \o w
  BY <1>3, <1>4, SeqEqual
<1> QED
  BY <1>1, <1>2, <1>5

(* The caller sees a start of the bytes received, and no '\0'.             *)
LEMMA CStringIsPrefix ==
  ASSUME NEW s \in Seq(Byte)
  PROVE  /\ CString(s) \in Seq(Byte) /\ IsPrefix(CString(s), s)
         /\ \A k \in 1 .. Len(CString(s)) : k \in 1 .. Len(s) /\ CString(s)[k] = s[k] /\ s[k] # NUL
<1> DEFINE T == {i \in 1 .. Len(s) : s[i] = NUL}
<1>1. CASE T = {}
  <2>1. CString(s) = s /\ \A i \in 1 .. Len(s) : s[i] # NUL
    BY <1>1 DEF CString
  <2>2. IsPrefix(s, s)
    BY PrefixMeans
  <2> QED
    BY <2>1, <2>2
<1>2. CASE T # {}
  <2>1. T \subseteq Nat /\ T \subseteq 1 .. Len(s) /\ Len(s) \in Nat
    OBVIOUS
  <2>2. CString(s) = SubSeq(s, 1, Min(T) - 1)
    BY <1>2 DEF CString
  <2>3. \A k \in 1 .. Len(s) : s[k] = NUL => k \in T
    OBVIOUS
  <2> HIDE DEF T
  <2>4. PICK m \in T : m = Min(T) /\ \A k \in T : m <= k
    BY <1>2, <2>1, MinIsLeast
  <2>5. m - 1 \in 0 .. Len(s) /\ \A k \in 1 .. m - 1 : k \in 1 .. Len(s) /\ s[k] # NUL
    BY <2>1, <2>3, <2>4
  <2>6. CString(s) = SubSeq(s, 1, m - 1)
    BY <2>2, <2>4
  <2> QED
    BY <2>5, <2>6, PrefixSubSeq
<1> QED
  BY <1>1, <1>2

LEMMA ReadsTyped ==
  ASSUME NEW ls \in Seq(LineEntry), NEW n \in 0 .. Len(ls)
  PROVE  Reads(ls, n) \in Seq(Seq(Byte)) /\ FlattenSeq(Reads(ls, n)) \in Seq(Byte)
<1>1. Reads(ls, n) \in Seq(Seq(Byte))
  <2>1. \A j \in 1 .. n : ls[j] \in LineEntry
    OBVIOUS
  <2>2. \A j \in 1 .. n : ls[j].read \in Seq(Byte)
    BY <2>1 DEF LineEntry
  <2> QED
    BY <2>2 DEF Reads
<1>2. << >> \in Seq(Byte)
  OBVIOUS
<1> QED
  BY <1>1, <1>2, FlattenAppend

LEMMA ReadsAppend ==
  ASSUME NEW ls \in Seq(LineEntry), NEW e \in LineEntry
  PROVE  /\ \A n \in 0 .. Len(ls) : Reads(Append(ls, e), n) = Reads(ls, n)
         /\ FlattenSeq(Reads(Append(ls, e), Len(ls) + 1))
              = FlattenSeq(Reads(ls, Len(ls))) \o e.read
<1>0. Len(ls) \in Nat /\ \A j \in 1 .. Len(ls) : ls[j] \in LineEntry
  OBVIOUS
<1>1. PICK ms : ms = Append(ls, e)
  OBVIOUS
<1>2. ms[Len(ls) + 1] = e /\ \A j \in 1 .. Len(ls) : ms[j] = ls[j]
  BY <1>1
<1>3. \A n \in 0 .. Len(ls) : Reads(ms, n) = Reads(ls, n)
  BY <1>0, <1>2 DEF Reads
<1>4. Reads(ms, Len(ls) + 1) = Append(Reads(ls, Len(ls)), e.read)
  <2>1. PICK r \in Seq(Seq(Byte)) : r = Reads(ls, Len(ls))
    BY <1>0, ReadsTyped
  <2>2. Len(r) = Len(ls) /\ \A j \in 1 .. Len(ls) : r[j] = ls[j].read
    BY <1>0, <2>1 DEF Reads
  <2>3. e.read \in Seq(Byte)
    BY DEF LineEntry
  <2>4. Append(r, e.read) = [j \in 1 .. Len(ls) + 1 |-> IF j = Len(ls) + 1 THEN e.read ELSE r[j]]
    BY <2>2, <2>3
  <2>5. Reads(ms, Len(ls) + 1) = [j \in 1 .. Len(ls) + 1 |-> IF j = Len(ls) + 1 THEN e.read ELSE r[j]]
    BY <1>0, <1>2, <2>2 DEF Reads
  <2> QED
    BY <2>1, <2>4, <2>5
<1>5. Reads(ls, Len(ls)) \in Seq(Seq(Byte)) /\ e.read \in Seq(Byte)
  <2>1. e.read \in Seq(Byte)
    BY DEF LineEntry
  <2> QED
    BY <1>0, <2>1, ReadsTyped
<1>6. FlattenSeq(Append(Reads(ls, Len(ls)), e.read)) = FlattenSeq(Reads(ls, Len(ls))) \o e.read
  <2>1. PICK r \in Seq(Seq(Byte)), x \in Seq(Byte) : r = Reads(ls, Len(ls)) /\ x = e.read
    BY <1>5
  <2>2. FlattenSeq(Append(r, x)) = FlattenSeq(r) \o x
    BY FlattenAppend
  <2> QED
    BY <2>1, <2>2
<1> QED
  BY <1>1, <1>3, <1>4, <1>6

-----------------------------------------------------------------------------
(* The inductive invariant.                                                *)

LEMMA InitInd == Init => IndInv
<1> SUFFICES ASSUME Init PROVE IndInv
  OBVIOUS
<1>1. TypeOK
  BY ConnectionAssumption DEF Init, TypeOK
<1>2. RecvInBounds /\ LineInv /\ MessagesAreLines
  BY DEF Init, RecvInBounds, LineInv, MessagesAreLines
<1>3. NothingLost
  <2>1. [i \in 1 .. Len(lines) |-> lines[i].read] = << >>
    BY DEF Init
  <2>2. << >> \o << >> \o << >> = << >>
    OBVIOUS
  <2> QED
    BY <2>1, <2>2, FlattenEmpty DEF Init, NothingLost
<1> QED
  BY <1>1, <1>2, <1>3 DEF IndInv

(* The parts of the invariant in the terms of the lemmas.                  *)
LEMMA Unfolded ==
  ASSUME IndInv
  PROVE  /\ wire \in Seq(Byte) /\ buffer \in Seq(Byte) /\ sent \in Seq(Byte)
         /\ lines \in Seq(LineEntry) /\ Len(lines) \in Nat
         /\ Consumed \in Seq(Byte)
         /\ \A i \in 1 .. Len(lines) : FlattenSeq(Reads(lines, i - 1)) \in Seq(Byte)
         /\ NothingLost <=> (pc # "aborted" => (Consumed \o buffer) \o wire = sent)
         /\ NothingLost' <=> (pc' # "aborted" => (Consumed' \o buffer') \o wire' = sent')
<1>1. /\ wire \in Seq(Byte) /\ buffer \in Seq(Byte) /\ sent \in Seq(Byte)
      /\ lines \in Seq(LineEntry) /\ Len(lines) \in Nat
  BY DEF IndInv, TypeOK, LineEntry
<1>2. \A i \in 0 .. Len(lines) : FlattenSeq(Reads(lines, i)) \in Seq(Byte)
  BY <1>1, ReadsTyped
<1>3. \A i \in 1 .. Len(lines) : i - 1 \in 0 .. Len(lines)
  BY <1>1
<1>4. Len(lines) \in 0 .. Len(lines)
  BY <1>1
<1> QED
  BY <1>1, <1>2, <1>3, <1>4 DEF Consumed, NothingLost, Reads

(* MessagesAreLines, one call at a time.                                   *)
Located(i) ==
  /\ \A k \in 1 .. Len(lines[i].message) : lines[i].message[k] \notin {Delimiter, NUL}
  /\ IsPrefix(FlattenSeq(Reads(lines, i - 1)) \o lines[i].message, sent)

LEMMA MessagesLocated ==
  /\ MessagesAreLines <=> \A i \in 1 .. Len(lines) : Located(i)
  /\ MessagesAreLines' <=> \A i \in 1 .. Len(lines') : Located(i)'
  BY DEF MessagesAreLines, Located, Reads

(* Messages stay where they were found while the peer sends more.          *)
LEMMA LinesFrame ==
  ASSUME IndInv, UNCHANGED lines, NEW more \in Seq(Byte), sent' = sent \o more
  PROVE  MessagesAreLines'
<1>1. ASSUME NEW i \in 1 .. Len(lines) PROVE Located(i)'
  <2>1. Located(i)
    BY MessagesLocated DEF IndInv
  <2>2. PICK m \in Seq(Byte) : m = lines[i].message
    <3>1. lines[i] \in LineEntry
      BY Unfolded
    <3> QED
      BY <3>1 DEF LineEntry
  <2>3. PICK r \in Seq(Byte) : r = FlattenSeq(Reads(lines, i - 1))
    BY Unfolded
  <2>4. IsPrefix(r \o m, sent) /\ r \o m \in Seq(Byte) /\ sent \in Seq(Byte)
    BY <2>1, <2>2, <2>3, Unfolded DEF Located
  <2>5. IsPrefix(sent, sent \o more) /\ sent \o more \in Seq(Byte)
    BY <2>4, PrefixConcat
  <2>6. IsPrefix(r \o m, sent')
    BY <2>4, <2>5, PrefixTransitive
  <2> QED
    BY <2>1, <2>2, <2>3, <2>6 DEF Located, Reads
<1> QED
  BY <1>1, MessagesLocated

(* A call that returns: what it read is consumed, and its message lies     *)
(* where the call began to read.                                           *)
LEMMA ReturnStep ==
  ASSUME IndInv, pc = "recv", NEW entry \in LineEntry, Return(entry),
         UNCHANGED sent,
         \A k \in 1 .. Len(entry.message) : entry.message[k] \notin {Delimiter, NUL},
         IsPrefix(entry.message, buffer)
  PROVE  /\ lines' \in Seq(LineEntry) /\ Consumed' = Consumed \o entry.read
         /\ MessagesAreLines' /\ RecvInBounds' /\ LineInv'
<1>0. entry.read \in Seq(Byte) /\ entry.message \in Seq(Byte)
  BY DEF LineEntry
<1>1. RecvInBounds' /\ LineInv'
  BY DEF Return, RecvInBounds, LineInv
<1>2. CASE entry.read = << >>
  <2>1. lines' = lines
    BY <1>2 DEF Return
  <2>2. Consumed' = Consumed \o entry.read
    BY <1>2, <2>1, Unfolded, Concatenation DEF Consumed
  <2>3. sent' = sent \o << >> /\ << >> \in Seq(Byte)
    BY Unfolded
  <2>4. MessagesAreLines'
    BY <2>1, <2>3, LinesFrame
  <2> QED
    BY <1>1, <2>1, <2>2, <2>4, Unfolded
<1>3. CASE entry.read # << >>
  <2>1. lines' = Append(lines, entry)
    BY <1>3 DEF Return
  <2>2. /\ lines' \in Seq(LineEntry) /\ Len(lines') = Len(lines) + 1 /\ Len(lines) \in Nat
        /\ lines'[Len(lines) + 1] = entry
        /\ \A i \in 1 .. Len(lines) : lines'[i] = lines[i]
    BY <2>1, Unfolded
  <2>3. \A n \in 0 .. Len(lines) : Reads(lines', n) = Reads(lines, n)
    BY <2>1, ReadsAppend, Unfolded
  <2>4. Consumed' = Consumed \o entry.read
    BY <2>1, <2>2, ReadsAppend, Unfolded DEF Consumed
  <2>5. ASSUME NEW i \in 1 .. Len(lines) PROVE Located(i)'
    <3>1. Located(i)
      BY MessagesLocated DEF IndInv
    <3>2. Reads(lines', i - 1) = Reads(lines, i - 1) /\ lines'[i] = lines[i]
      BY <2>2, <2>3
    <3> QED
      BY <3>1, <3>2 DEF Located
  <2>n. PICK n \in Nat : n = Len(lines) + 1
    BY <2>2
  <2>6. Located(n)'
    <3>1. Reads(lines', n - 1) = Reads(lines, Len(lines)) /\ lines'[n] = entry
      BY <2>2, <2>3, <2>n
    <3>2. IsPrefix(Consumed \o entry.message, sent)
      <4>1. IsPrefix(Consumed \o entry.message, Consumed \o buffer)
        BY <1>0, Unfolded, PrefixAfter
      <4>2. IsPrefix(Consumed \o buffer, sent)
        <5>1. (Consumed \o buffer) \o wire = sent /\ Consumed \o buffer \in Seq(Byte)
          BY Unfolded DEF IndInv
        <5> QED
          BY <5>1, Unfolded, PrefixConcat
      <4>3. Consumed \o entry.message \in Seq(Byte) /\ Consumed \o buffer \in Seq(Byte)
        BY <1>0, Unfolded
      <4> QED
        BY <4>1, <4>2, <4>3, Unfolded, PrefixTransitive
    <3> QED
      BY <3>1, <3>2 DEF Located, Consumed
  <2>7. MessagesAreLines'
    <3>1. \A i \in 1 .. Len(lines') : i \in 1 .. Len(lines) \/ i = n
      BY <2>2, <2>n
    <3> QED
      BY <2>5, <2>6, <3>1, MessagesLocated
  <2> QED
    BY <1>1, <2>2, <2>4, <2>7
<1> QED
  BY <1>2, <1>3

LEMMA NextInd == IndInv /\ [Next]_vars => IndInv'
<1> SUFFICES ASSUME IndInv, [Next]_vars PROVE IndInv'
  OBVIOUS
<1>t. TypeOK /\ RecvInBounds /\ LineInv /\ NothingLost /\ MessagesAreLines
  BY DEF IndInv
<1>0. /\ wire \in Seq(Byte) /\ buffer \in Seq(Byte) /\ sent \in Seq(Byte)
      /\ Consumed \in Seq(Byte) /\ Consumed \o buffer \in Seq(Byte)
      /\ << >> \in Seq(Byte) /\ sent \o << >> = sent
  BY Unfolded
<1>1. ASSUME NEW b \in Byte, PeerSends(b) PROVE IndInv'
  <2> USE <1>1 DEF PeerSends
  <2>1. TypeOK'
    BY <1>t DEF TypeOK
  <2>2. RecvInBounds' /\ LineInv'
    BY <1>t DEF RecvInBounds, LineInv
  <2>3. NothingLost'
    <3>1. Consumed' = Consumed /\ buffer' = buffer
      BY DEF Consumed
    <3>2. (Consumed \o buffer) \o Append(wire, b) = Append((Consumed \o buffer) \o wire, b)
      <4>1. PICK r \in Seq(Byte) : r = Consumed \o buffer
        BY <1>0
      <4>2. r \o Append(wire, b) = Append(r \o wire, b)
        BY <1>0, Concatenation
      <4> QED
        BY <4>1, <4>2
    <3> QED
      BY <1>t, <3>1, <3>2, Unfolded
  <2>4. MessagesAreLines'
    <3>1. sent' = sent \o <<b>> /\ <<b>> \in Seq(Byte)
      BY <1>0
    <3> QED
      BY <3>1, LinesFrame
  <2> QED
    BY <2>1, <2>2, <2>3, <2>4 DEF IndInv
<1>2. CASE PeerCloses \/ UNCHANGED vars
  <2>0. /\ UNCHANGED <<wire, is_open, pc, buffer, buffer_size, current_size, sent, lines, errors>>
        /\ peer_open' \in BOOLEAN
    BY <1>2, <1>t DEF PeerCloses, vars, TypeOK
  <2> QED
    BY <1>t, <2>0 DEF IndInv, TypeOK, RecvInBounds, LineInv, NothingLost, MessagesAreLines
<1>3. CASE receive_message_start
  <2> USE <1>3 DEF receive_message_start
  <2>1. TypeOK'
    BY <1>t, ConnectionAssumption DEF TypeOK
  <2>2. RecvInBounds' /\ LineInv'
    BY ConnectionAssumption DEF RecvInBounds, LineInv
  <2>3. NothingLost'
    BY <1>t DEF NothingLost, LineInv
  <2>4. MessagesAreLines'
    BY <1>t DEF MessagesAreLines
  <2> QED
    BY <2>1, <2>2, <2>3, <2>4 DEF IndInv
<1>4. CASE recv_delimiter
  <2> DEFINE entry == [read |-> Append(buffer, Delimiter), message |-> CString(buffer)]
  <2>0. /\ pc = "recv" /\ wire # << >> /\ Head(wire) = Delimiter /\ wire' = Tail(wire)
        /\ Return(entry) /\ UNCHANGED <<peer_open, is_open, sent, errors>>
    BY <1>4 DEF recv_delimiter
  <2>1. /\ CString(buffer) \in Seq(Byte) /\ IsPrefix(CString(buffer), buffer)
        /\ \A k \in 1 .. Len(CString(buffer)) : CString(buffer)[k] \notin {Delimiter, NUL}
    BY <1>0, <1>t, CStringIsPrefix DEF LineInv
  <2>2. Append(buffer, Delimiter) \in Seq(Byte)
    BY <1>0, ConnectionAssumption
  <2>3. entry \in LineEntry
    BY <2>1, <2>2 DEF LineEntry
  <2>4. /\ lines' \in Seq(LineEntry) /\ Consumed' = Consumed \o entry.read
        /\ MessagesAreLines' /\ RecvInBounds' /\ LineInv'
    <3>1. entry.message = CString(buffer)
      OBVIOUS
    <3> HIDE DEF entry
    <3> QED
      BY <2>0, <2>1, <2>3, <3>1, ReturnStep
  <2>5. TypeOK'
    <3>1. pc' = "idle" /\ buffer' = << >> /\ buffer_size' = 0 /\ current_size' = 0
      BY <2>0 DEF Return
    <3> QED
      BY <1>0, <1>t, <2>0, <2>4, <3>1, ConnectionAssumption, MoveByte DEF TypeOK, LineEntry
  <2>6. NothingLost'
    <3>1. Consumed' = Append(Consumed \o buffer, Head(wire))
      <4>1. Consumed' = Consumed \o Append(buffer, Delimiter)
        BY <2>4
      <4>2. Consumed \o Append(buffer, Delimiter) = Append(Consumed \o buffer, Delimiter)
        BY <1>0, Concatenation, ConnectionAssumption
      <4> QED
        BY <2>0, <4>1, <4>2
    <3>2. Append(Consumed \o buffer, Head(wire)) \o Tail(wire) = (Consumed \o buffer) \o wire
      BY <1>0, <2>0, MoveByte
    <3>3. Consumed' \in Seq(Byte)
      BY <1>0, <2>0, <3>1, ConnectionAssumption
    <3>4. buffer' = << >> /\ Consumed' \o << >> = Consumed'
      BY <2>0, <3>3 DEF Return
    <3> QED
      BY <1>t, <2>0, <3>1, <3>2, <3>4, Unfolded
  <2> QED
    BY <2>4, <2>5, <2>6 DEF IndInv
<1>5. CASE recv_byte
  <2>0. /\ pc = "recv" /\ wire # << >> /\ Head(wire) # Delimiter /\ wire' = Tail(wire)
        /\ current_size' = current_size + 1
        /\ UNCHANGED <<peer_open, is_open, sent, lines, errors>>
        /\ \/ /\ current_size + 1 # buffer_size
              /\ buffer' = Append(buffer, Head(wire)) /\ UNCHANGED <<buffer_size, pc>>
           \/ /\ current_size + 1 = buffer_size /\ 2 * buffer_size <= INT_MAX
              /\ buffer' = Append(buffer, Head(wire)) /\ buffer_size' = 2 * buffer_size
              /\ UNCHANGED pc
           \/ /\ current_size + 1 = buffer_size
              /\ pc' = "aborted" /\ UNCHANGED <<buffer, buffer_size>>
    BY <1>5 DEF recv_byte, BufferFull, Reallocated
  <2>1. Head(wire) \in Byte /\ Tail(wire) \in Seq(Byte)
    BY <1>0, <2>0, MoveByte
  <2>2. /\ current_size < buffer_size /\ Len(buffer) = current_size
        /\ current_size \in Nat /\ buffer_size \in Nat /\ buffer_size <= INT_MAX /\ INT_MAX \in Nat
    BY <1>t, <2>0, ConnectionAssumption DEF RecvInBounds, TypeOK
  <2>3. /\ Append(buffer, Head(wire)) \in Seq(Byte)
        /\ Len(Append(buffer, Head(wire))) = current_size + 1
        /\ \A i \in 1 .. Len(Append(buffer, Head(wire))) :
             Append(buffer, Head(wire))[i] \in {Head(wire)} \cup {buffer[j] : j \in 1 .. Len(buffer)}
    BY <1>0, <2>1, <2>2
  <2>4. TypeOK'
    <3>1. buffer' \in Seq(Byte) /\ wire' \in Seq(Byte) /\ pc' \in {"idle", "recv", "aborted"}
      BY <1>0, <2>0, <2>1, <2>3
    <3>2. buffer_size' \in 0 .. INT_MAX /\ current_size' \in 0 .. buffer_size'
      BY <2>0, <2>2
    <3> QED
      BY <1>t, <2>0, <3>1, <3>2 DEF TypeOK
  <2>5. RecvInBounds'
    BY <2>0, <2>2, <2>3 DEF RecvInBounds
  <2>6. LineInv'
    BY <1>t, <2>0, <2>3 DEF LineInv
  <2>7. NothingLost'
    <3>1. Consumed' = Consumed
      BY <2>0 DEF Consumed
    <3>2. (Consumed \o Append(buffer, Head(wire))) \o Tail(wire) = (Consumed \o buffer) \o wire
      <4>1. Consumed \o Append(buffer, Head(wire)) = Append(Consumed \o buffer, Head(wire))
        BY <1>0, <2>1, Concatenation
      <4>2. Append(Consumed \o buffer, Head(wire)) \o Tail(wire) = (Consumed \o buffer) \o wire
        BY <1>0, <2>0, MoveByte
      <4> QED
        BY <4>1, <4>2
    <3> QED
      BY <1>t, <2>0, <3>1, <3>2, Unfolded
  <2>8. MessagesAreLines'
    BY <1>t, <2>0 DEF MessagesAreLines
  <2> QED
    BY <2>4, <2>5, <2>6, <2>7, <2>8 DEF IndInv
<1>6. CASE recv_eof \/ recv_error
  <2> DEFINE entry == [read |-> buffer, message |-> << >>]
  <2>0. /\ pc = "recv" /\ Return(entry) /\ UNCHANGED <<wire, peer_open, sent>>
        /\ is_open' \in BOOLEAN /\ errors' \in 0 .. MAX_ERRORS
    <3>1. is_open \in BOOLEAN /\ errors \in 0 .. MAX_ERRORS /\ MAX_ERRORS \in Nat
      BY <1>t, ConnectionAssumption DEF TypeOK
    <3>2. CASE recv_eof
      BY <3>1, <3>2 DEF recv_eof, OpenAfterEof
    <3>3. CASE recv_error
      BY <3>1, <3>3 DEF recv_error
    <3> QED
      BY <1>6, <3>2, <3>3
  <2>1. entry \in LineEntry
    BY <1>0 DEF LineEntry
  <2>2. IsPrefix(<< >>, buffer)
    BY <1>0, PrefixEmpty
  <2>3. /\ lines' \in Seq(LineEntry) /\ Consumed' = Consumed \o entry.read
        /\ MessagesAreLines' /\ RecvInBounds' /\ LineInv'
    <3>1. entry.message = << >>
      OBVIOUS
    <3>2. Len(entry.message) = 0
      OBVIOUS
    <3> HIDE DEF entry
    <3> QED
      BY <2>0, <2>1, <2>2, <3>1, <3>2, ReturnStep
  <2>4. TypeOK'
    <3>1. pc' = "idle" /\ buffer' = << >> /\ buffer_size' = 0 /\ current_size' = 0
      BY <2>0 DEF Return
    <3> QED
      BY <1>0, <1>t, <2>0, <2>3, <3>1, ConnectionAssumption DEF TypeOK, LineEntry
  <2>5. NothingLost'
    <3>1. buffer' = << >> /\ Consumed' = Consumed \o buffer
      BY <2>0, <2>3 DEF Return
    <3>2. Consumed' \o << >> = Consumed \o buffer
      BY <1>0, <3>1, Concatenation
    <3> QED
      BY <1>t, <2>0, <3>1, <3>2, Unfolded
  <2> QED
    BY <2>3, <2>4, <2>5 DEF IndInv
<1> QED
  BY <1>1, <1>2, <1>3, <1>4, <1>5, <1>6 DEF Next

LEMMA Invariance == Spec => []IndInv
  BY InitInd, NextInd, PTL DEF Spec

-----------------------------------------------------------------------------

(* The variables of tcp_connection_receive_message keep their types; in    *)
(* particular buffer_size stays within int while it doubles, and           *)
(* current_size never passes it.                                           *)
THEOREM ReceiveTypes == Spec => []TypeOK
  BY Invariance, PTL DEF IndInv

(* Every recv writes inside the buffer, whatever its first size and        *)
(* however often it has grown.                                             *)
THEOREM RecvIsInBounds == Spec => []RecvInBounds
  BY Invariance, PTL DEF IndInv

(* No byte is lost, repeated or reordered between calls, for a peer that   *)
(* sends any bytes at any pace and recv failing at any point.              *)
THEOREM NoByteIsLost == Spec => []NothingLost
  BY Invariance, PTL DEF IndInv

(* A message is at most one line, and begins where the call before it      *)
(* stopped.                                                                *)
THEOREM MessagesLines == Spec => []MessagesAreLines
  BY Invariance, PTL DEF IndInv
=============================================================================
