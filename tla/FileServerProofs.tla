--------------------------- MODULE FileServerProofs ---------------------------
(***************************************************************************)
(* Proofs about FileServer, for any connections, lines, timestamp and size *)
(* of the pieces a file is sent in: types, the answer a client gets, what  *)
(* the file begins with, and that nothing a worker uses is freed.          *)
(***************************************************************************)
EXTENDS FileServer, SequenceLemmas

Running(c) == pc[c] \notin {"none", "done"}
Critical == {"handle", "send", "unlock"}
Ended == {"exited", "crashed"}

\* Who is in the critical section owns the mutex.
MutexInv ==
  /\ \A c \in Conn : pc[c] \in Critical <=> file_mutex = c
  /\ timer \in {"append", "unlock"} => file_mutex = "timer"

\* A worker's context is in the list until it has been joined.
ListInv ==
  \A c \in Conn : Running(c) =>
    \E i \in 1 .. Len(connection_ctx_list) : connection_ctx_list[i] = c

\* What is left as the main thread takes the manager apart.
MainInv ==
  /\ main \in {"delete", "free", "teardown"} => connection_ctx_list = << >>
  /\ file_mutex = "destroyed" =>
       connection_ctx_list = << >> /\ main \notin {"run", "join"}
  /\ manager = "freed" =>
       connection_ctx_list = << >> /\ main \in {"teardown"} \cup Ended

\* The file exists once a worker has opened it, and no line was stored before.
FileInv ==
  /\ \A c \in Conn : pc[c] \in {"lock"} \cup Critical => file # NULL
  /\ file = NULL => last = << >> \/ main \in Ended

\* The room the timer saw when it fired is still there, or a line took it.
RoomInv ==
  timer \in {"lock", "append"} /\ file # NULL =>
    Len(file) + Len(Stamp) <= MAX_FILE \/ Len(file) <= LongestText

\* A worker that sends has stored its line in front of what it sends.
Sending(c) ==
  /\ message[c] \in Texts /\ file = message[c] \o snapshot[c]
  /\ f_pos[c] = Len(message[c]) + Len(reply[c])

SendOf(c) ==
  /\ pc[c] \in {"fopen", "lock", "handle"} => message[c] \in Texts \cup {SeekLine}
  /\ pc[c] \notin {"send", "unlock"} => reply[c] = << >>
  /\ pc[c] \in {"send", "unlock"} => IsPrefix(reply[c], snapshot[c])
  /\ pc[c] = "send" => Sending(c)

SendInv == \A c \in Conn : SendOf(c)

IndInv ==
  /\ TypeOK /\ MutexInv /\ ListInv /\ MainInv /\ FileInv /\ RoomInv /\ SendInv
  /\ FileStartsWithLastLine

-----------------------------------------------------------------------------
(* The operators.                                                          *)

(* No line is longer than the longest.                                     *)
LEMMA TextLength ==
  /\ LongestText \in Nat
  /\ \A s \in Texts : s \in Seq(Bytes) /\ Len(s) \in Nat /\ Len(s) <= LongestText
<1> DEFINE T == {Len(s) : s \in Texts}
<1>1. \A s \in Texts : s \in Seq(Bytes) /\ Len(s) \in Nat
  BY FileServerAssumption
<1>2. PICK s \in Texts : \A t \in Texts : Len(t) <= Len(s)
  BY FileServerAssumption
<1>3. Len(s) \in T /\ \A n \in T : Len(s) >= n
  BY <1>1, <1>2
<1> HIDE DEF T
<1>4. Max(T) \in T /\ \A n \in T : Max(T) >= n
  BY <1>3 DEF Max
<1>5. LongestText = Max(T)
  BY DEF LongestText, T
<1> QED
  BY <1>1, <1>4, <1>5 DEF T

(* A line written over the start of the file.                              *)
LEMMA StoredText ==
  ASSUME NEW s \in Seq(Bytes), NEW f \in Seq(Bytes)
  PROVE  LET rest == SubSeq(f, Len(s) + 1, Len(f))
         IN  /\ rest \in Seq(Bytes) /\ s \o rest \in Seq(Bytes)
             /\ IsPrefix(s, s \o rest)
             /\ Len(s \o rest) = IF Len(s) < Len(f) THEN Len(f) ELSE Len(s)
<1> DEFINE rest == SubSeq(f, Len(s) + 1, Len(f))
<1>1. rest \in Seq(Bytes) /\ Len(rest) = IF Len(s) < Len(f) THEN Len(f) - Len(s) ELSE 0
  OBVIOUS
<1> HIDE DEF rest
<1>2. /\ s \o rest \in Seq(Bytes) /\ IsPrefix(s, s \o rest)
      /\ Len(s \o rest) = Len(s) + Len(rest)
  BY <1>1, PrefixConcat
<1>3. Len(s \o rest) = IF Len(s) < Len(f) THEN Len(f) ELSE Len(s)
  BY <1>1, <1>2
<1> QED
  BY <1>1, <1>2, <1>3 DEF rest

(* A further piece of what follows the line: m is the line, t what follows *)
(* it, r what has been sent and n bytes of t have been sent afterwards.    *)
LEMMA NextPiece ==
  ASSUME NEW m \in Seq(Bytes), NEW t \in Seq(Bytes), NEW r \in Seq(Bytes),
         IsPrefix(r, t), NEW n \in Len(r) .. Len(t)
  PROVE  LET data == SubSeq(m \o t, Len(m) + Len(r) + 1, Len(m) + n)
         IN  /\ data \in Seq(Bytes) /\ Len(data) = n - Len(r)
             /\ r \o data \in Seq(Bytes) /\ IsPrefix(r \o data, t)
<1> DEFINE data == SubSeq(m \o t, Len(m) + Len(r) + 1, Len(m) + n)
<1>0. Len(m) \in Nat /\ Len(t) \in Nat /\ Len(r) \in Nat 
  OBVIOUS
<1>n. n \in Nat /\ n <= Len(t) /\ Len(r) <= n
  BY <1>0
<1>1. \A i \in 1 .. Len(r) : r[i] = t[i]
  BY PrefixMeans
<1>2. PICK mt \in Seq(Bytes) : mt = m \o t
  <2>1. m \o t \in Seq(Bytes)
    OBVIOUS
  <2> QED
    BY <2>1, Zenon
<1>3. Len(mt) = Len(m) + Len(t) /\ \A i \in 1 .. Len(t) : mt[Len(m) + i] = t[i]
  BY <1>2
<1>4. data = SubSeq(mt, Len(m) + Len(r) + 1, Len(m) + n)
  BY <1>2
<1> HIDE DEF data
<1>5. /\ data \in Seq(Bytes) /\ Len(data) = n - Len(r)
      /\ \A i \in 1 .. n - Len(r) : data[i] = mt[Len(m) + Len(r) + i]
  <2>1. PICK a \in Nat, z \in Nat : a = Len(m) + Len(r) + 1 /\ z = Len(m) + n
    BY <1>0, <1>n
  <2>2. a \in 1 .. Len(mt) + 1 /\ z \in a - 1 .. Len(mt) /\ z - a + 1 = n - Len(r)
    BY <1>0, <1>n, <1>3, <2>1
  <2>3. /\ data = SubSeq(mt, a, z) /\ data \in Seq(Bytes) /\ Len(data) = z - a + 1
        /\ \A i \in 1 .. z - a + 1 : data[i] = mt[a + i - 1]
    <3>1. data = SubSeq(mt, a, z)
      BY <1>4, <2>1
    <3>2. a \in Int /\ z \in Int /\ \A i \in a .. z : mt[i] \in Bytes
      BY <2>2
    <3>3. z - a + 1 = IF a <= z THEN z - a + 1 ELSE 0
      BY <2>2
    <3> QED
      BY <3>1, <3>2, <3>3, SubSeqProperties
  <2>4. \A i \in 1 .. n - Len(r) : a + i - 1 = Len(m) + Len(r) + i
    BY <1>0, <1>n, <2>1
  <2> QED
    BY <2>2, <2>3, <2>4
<1>6. \A i \in 1 .. n - Len(r) : data[i] = t[Len(r) + i]
  <2>1. \A i \in 1 .. n - Len(r) : Len(r) + i \in 1 .. Len(t) /\ Len(m) + (Len(r) + i) = Len(m) + Len(r) + i
    BY <1>0, <1>n
  <2> QED
    BY <1>3, <1>5, <2>1
<1>7. PICK rd \in Seq(Bytes) : rd = r \o data
  <2>1. r \o data \in Seq(Bytes)
    BY <1>5
  <2> QED
    BY <2>1, Zenon
<1>8. /\ Len(rd) = n /\ \A i \in 1 .. Len(r) : rd[i] = r[i]
      /\ \A i \in 1 .. n : i > Len(r) => rd[i] = data[i - Len(r)]
  BY <1>0, <1>n, <1>5, <1>7
<1>9. ASSUME NEW i \in 1 .. n PROVE rd[i] = t[i]
  <2>1. CASE i \in 1 .. Len(r)
    BY <1>1, <1>8, <2>1
  <2>2. CASE i > Len(r)
    <3>1. i - Len(r) \in 1 .. n - Len(r) /\ Len(r) + (i - Len(r)) = i
      BY <1>0, <1>n, <2>2
    <3> QED
      BY <1>6, <1>8, <2>2, <3>1
  <2> QED
    BY <1>0, <1>n, <2>1, <2>2
<1>10. IsPrefix(rd, t)
  BY <1>0, <1>n, <1>8, <1>9, PrefixMeans
<1> QED
  BY <1>5, <1>7, <1>10 DEF data

(* The piece that one read and send of tcp_connection_send_file add to     *)
(* what has been sent, from position p of the file f.                      *)
Piece(f, p) == SubSeq(f, p + 1, Min({Len(f), p + READ_SIZE}))

LEMMA PieceSent ==
  ASSUME NEW m \in Seq(Bytes), NEW t \in Seq(Bytes), NEW r \in Seq(Bytes), IsPrefix(r, t)
  PROVE  LET p == Len(m) + Len(r)
             data == Piece(m \o t, p)
         IN  /\ r \o data \in Seq(Bytes) /\ IsPrefix(r \o data, t)
             /\ p + Len(data) \in Nat /\ p + Len(data) = Len(m) + Len(r \o data)
<1> DEFINE f == m \o t
           p == Len(m) + Len(r)
<1>1. PICK lm \in Nat, lt \in Nat, lr \in Nat : lm = Len(m) /\ lt = Len(t) /\ lr = Len(r)
  OBVIOUS
<1>2. lr <= lt /\ Len(f) = lm + lt /\ p = lm + lr
  BY <1>1, PrefixMeans
<1> DEFINE T == {Len(f), p + READ_SIZE}
           end == Min(T)
           data == SubSeq(f, p + 1, end)
<1>3. T = {lm + lt, lm + lr + READ_SIZE}
  BY <1>2
<1> HIDE DEF T
<1>4. T \subseteq Nat /\ T # {} /\ lm + lt \in T /\ \A k \in T : lm + lr <= k
  BY <1>2, <1>3, FileServerAssumption
<1>5. end \in T /\ \A k \in T : end <= k
  BY <1>4, MinIsLeast
<1> HIDE DEF end
<1>6. PICK n \in Nat : end = lm + n /\ lr <= n /\ n <= lt
  <2>1. end \in Nat /\ end - lm \in Nat /\ end = lm + (end - lm) /\ lr <= end - lm /\ end - lm <= lt
    BY <1>4, <1>5
  <2> QED
    BY <2>1
<1>7. n \in Len(r) .. Len(t)
  BY <1>1, <1>6
<1>8. data = SubSeq(m \o t, Len(m) + Len(r) + 1, Len(m) + n)
  BY <1>1, <1>6
<1> HIDE DEF data
<1>9. /\ data \in Seq(Bytes) /\ Len(data) = n - lr
      /\ r \o data \in Seq(Bytes) /\ IsPrefix(r \o data, t)
  BY <1>1, <1>7, <1>8, NextPiece
<1>10. Len(r \o data) = lr + Len(data)
  BY <1>1, <1>9
<1>11. p + Len(data) \in Nat /\ p + Len(data) = Len(m) + Len(r \o data)
  BY <1>1, <1>2, <1>6, <1>9, <1>10
<1> QED
  BY <1>9, <1>11, Zenon DEF Piece, data, end, T

-----------------------------------------------------------------------------
(* The inductive invariant.                                                *)

LEMMA InitInd == Init => IndInv
<1> SUFFICES ASSUME Init PROVE IndInv
  OBVIOUS
<1> USE DEF Init
<1>1. file # NULL => file \in Seq(Bytes) /\ Len(file) <= MAX_FILE + LongestText
  <2>1. Stamp \in Seq(Bytes) /\ Len(Stamp) \in Nat /\ Len(Stamp) <= MAX_FILE /\ MAX_FILE \in Nat
    BY FileServerAssumption
  <2>2. Len(Stamp) <= MAX_FILE + LongestText
    BY <2>1, TextLength
  <2> QED
    BY <2>1, <2>2
<1>2. TypeOK
  <2>1. << >> \in Seq(Bytes) /\ << >> \in Seq(Conn)
    OBVIOUS
  <2>2. /\ reply \in [Conn -> Seq(Bytes)] /\ snapshot \in [Conn -> Seq(Bytes)]
        /\ message \in [Conn -> Texts \cup {SeekLine, NULL}] /\ f_pos \in [Conn -> Nat]
        /\ is_open \in [Conn -> BOOLEAN] /\ last \in Seq(Bytes)
    BY <2>1
  <2> QED
    BY <1>1, <2>1, <2>2 DEF TypeOK, SLIST_INIT
<1>3. MutexInv /\ ListInv /\ MainInv
  BY FileServerAssumption DEF MutexInv, ListInv, MainInv, Running, Critical, SLIST_INIT
<1>4. FileInv /\ RoomInv /\ SendInv
  BY DEF FileInv, RoomInv, SendInv, SendOf, Critical
<1>5. FileStartsWithLastLine
  BY <1>1, PrefixEmpty DEF FileStartsWithLastLine
<1> QED
  BY <1>2, <1>3, <1>4, <1>5 DEF IndInv

(* A step of the main thread before teardown, which leaves the workers     *)
(* alone.                                                                  *)
LEMMA MainFrame ==
  ASSUME IndInv, UNCHANGED <<timer, file, worker, last>>,
         main \notin Ended, main' \in {"run", "join", "delete", "free", "teardown"},
         close_connections' \in BOOLEAN, connection_ctx_list' \in Seq(Conn),
         manager' \in {"live", "freed"}, timerid' \in {"armed", "deleted"},
         file_mutex' = file_mutex \/ (file_mutex = NULL /\ file_mutex' = "destroyed"),
         ListInv', MainInv'
  PROVE  IndInv'
<1> USE DEF worker
<1>1. TypeOK'
  BY DEF IndInv, TypeOK
<1>2. MutexInv'
  <2>1. \A c \in Conn : c # NULL /\ c # "destroyed"
    BY FileServerAssumption
  <2>2. NULL # "timer"
    BY FileServerAssumption
  <2> QED
    BY <2>1, <2>2 DEF IndInv, MutexInv
<1>3. FileInv'
  BY DEF IndInv, FileInv, Ended
<1>4. RoomInv' /\ SendInv' /\ FileStartsWithLastLine'
  BY DEF IndInv, RoomInv, SendInv, SendOf, Sending, FileStartsWithLastLine
<1> QED
  BY <1>1, <1>2, <1>3, <1>4 DEF IndInv

(* A list from which the first context, of a thread that has ended, is     *)
(* taken still has the contexts of the threads that run.                   *)
LEMMA JoinedList ==
  ASSUME IndInv, connection_manager_join
  PROVE  connection_ctx_list' \in Seq(Conn) /\ ListInv'
<1> DEFINE list == connection_ctx_list
<1>1. /\ list' \in Seq(Conn) /\ Len(list') = Len(list) - 1 /\ Len(list) \in Nat \ {0}
      /\ \A i \in 1 .. Len(list) - 1 : list'[i] = list[i + 1]
      /\ pc[list[1]] = "done"
  BY DEF connection_manager_join, IndInv, TypeOK, ThreadEnded, SLIST_EMPTY, SLIST_FIRST,
         SLIST_REMOVE_HEAD
<1>2. ASSUME NEW c \in Conn, Running(c)' PROVE \E i \in 1 .. Len(list') : list'[i] = c
  <2>1. Running(c)
    BY <1>2 DEF Running, connection_manager_join, worker
  <2>2. PICK i \in 1 .. Len(list) : list[i] = c
    BY <2>1 DEF IndInv, ListInv
  <2>3. i # 1 /\ i - 1 \in 1 .. Len(list')
    BY <1>1, <2>1, <2>2 DEF Running
  <2>4. list'[i - 1] = c
    BY <1>1, <2>2, <2>3
  <2> QED
    BY <2>3, <2>4
<1> QED
  BY <1>1, <1>2 DEF ListInv

(* With an empty list no worker runs.                                      *)
LEMMA NobodyRuns ==
  ASSUME IndInv, connection_ctx_list = << >>
  PROVE  \A c \in Conn : pc[c] \in {"none", "done"}
  BY DEF IndInv, ListInv, Running

LEMMA MainSteps ==
  ASSUME IndInv, main_leave \/ Shutdown
  PROVE  IndInv'
<1>t. /\ TypeOK /\ MainInv /\ ListInv
      /\ close_connections \in BOOLEAN /\ connection_ctx_list \in Seq(Conn)
      /\ manager \in {"live", "freed"} /\ timerid \in {"armed", "deleted"}
  BY DEF IndInv, TypeOK
<1>1. CASE main_leave
  <2> USE <1>1 DEF main_leave, Ended
  <2>1. ListInv' /\ MainInv'
    BY <1>t DEF ListInv, MainInv, Running, worker
  <2> QED
    BY <1>t, <2>1, MainFrame
<1>2. CASE connection_manager_join
  <2> USE <1>2 DEF Ended
  <2>1. MainInv'
    BY <1>t DEF MainInv, connection_manager_join
  <2> QED
    BY <1>t, <2>1, JoinedList, MainFrame DEF connection_manager_join
<1>3. CASE manager_mutex_destroy
  <2> USE <1>3 DEF manager_mutex_destroy, shared, Ended
  <2>1. connection_ctx_list = << >>
    BY DEF SLIST_EMPTY
  <2>2. ListInv' /\ MainInv'
    BY <1>t, <2>1 DEF ListInv, MainInv, Running, worker
  <2> QED
    BY <1>t, <2>2, MainFrame
<1>4. CASE manager_timer_delete \/ manager_free
  <2> USE <1>4 DEF manager_timer_delete, manager_free, Ended
  <2>1. ListInv' /\ MainInv'
    BY <1>t DEF ListInv, MainInv, Running, worker
  <2> QED
    BY <1>t, <2>1, MainFrame
<1>5. CASE teardown
  <2> USE <1>5 DEF teardown, shared, worker
  <2>1. \A c \in Conn : pc[c] \in {"none", "done"}
    BY <1>t, NobodyRuns DEF MainInv
  <2>2. TypeOK'
    BY DEF IndInv, TypeOK
  <2>3. MutexInv' /\ ListInv' /\ MainInv'
    BY <1>t DEF IndInv, MutexInv, ListInv, MainInv, Running, Ended
  <2>4. FileInv' /\ RoomInv' /\ FileStartsWithLastLine'
    BY <2>1 DEF FileInv, RoomInv, FileStartsWithLastLine, Critical, Ended
  <2>5. SendInv'
    BY <2>1 DEF IndInv, SendInv, SendOf
  <2> QED
    BY <2>2, <2>3, <2>4, <2>5 DEF IndInv
<1> QED
  BY <1>1, <1>2, <1>3, <1>4, <1>5 DEF Shutdown

(* Steps of the timer's thread.                                            *)
LEMMA TimerFrame ==
  ASSUME IndInv, UNCHANGED <<shared, worker, last, file>>,
         main \notin Ended, main' = main \/ main' \in Ended,
         timer' \in {"idle", "lock", "append", "unlock"},
         file_mutex' \in Conn \cup {"timer", NULL, "destroyed"},
         MutexInv', RoomInv', file_mutex' = "destroyed" => file_mutex = "destroyed"
  PROVE  IndInv'
<1> USE DEF worker, shared
<1>1. TypeOK'
  BY DEF IndInv, TypeOK, Ended
<1>2. ListInv' /\ MainInv'
  BY DEF IndInv, ListInv, MainInv, Running, Ended
<1>3. FileInv' /\ SendInv' /\ FileStartsWithLastLine'
  BY DEF IndInv, FileInv, SendInv, SendOf, Sending, FileStartsWithLastLine
<1> QED
  BY <1>1, <1>2, <1>3 DEF IndInv

LEMMA TimerSteps ==
  ASSUME IndInv, timer_fires \/ timer_lock \/ Timer
  PROVE  IndInv'
<1> USE DEF TimerGoto
<1>t. TypeOK /\ MutexInv /\ RoomInv /\ FileInv /\ MainInv
  BY DEF IndInv
<1>a. main \notin Ended
  BY DEF timer_fires, timer_lock, Timer, timer_append, timer_unlock, timer_exits,
         timer_uses_freed, Alive, Ended
<1>c. \A c \in Conn : c \notin {NULL, "timer", "destroyed"}
  BY FileServerAssumption
<1>m. file_mutex \in Conn \cup {"timer", NULL, "destroyed"}
  BY <1>t DEF TypeOK
<1>s. NULL # "timer" /\ NULL # "destroyed"
  BY FileServerAssumption
<1>1. CASE timer_fires
  <2> USE <1>1 DEF timer_fires
  <2>1. MutexInv'
    BY <1>t DEF MutexInv, worker
  <2>2. RoomInv'
    BY DEF RoomInv
  <2> QED
    BY <1>a, <1>m, <2>1, <2>2, TimerFrame
<1>2. CASE timer_lock
  <2> USE <1>2 DEF timer_lock, TimerMayLock
  <2>1. MutexInv'
    BY <1>c, <1>t DEF MutexInv, worker
  <2>2. RoomInv'
    BY <1>t DEF RoomInv
  <2> QED
    BY <1>a, <2>1, <2>2, TimerFrame
<1>3. CASE timer_exits
  <2> USE <1>3 DEF timer_exits
  <2>1. MutexInv' /\ RoomInv'
    BY <1>t DEF MutexInv, RoomInv, worker
  <2> QED
    BY <1>a, <1>m, <2>1, TimerFrame DEF Ended
<1>4. CASE timer_unlock
  <2> USE <1>4 DEF timer_unlock, OwnerAfterTimer
  <2>1. MutexInv' /\ RoomInv'
    BY <1>c, <1>t DEF MutexInv, RoomInv, worker
  <2> QED
    BY <1>a, <1>s, <2>1, TimerFrame
<1>5. CASE timer_uses_freed
  <2> USE <1>5 DEF timer_uses_freed
  <2>1. MutexInv' /\ RoomInv'
    BY <1>t DEF MutexInv, RoomInv, worker
  <2> QED
    BY <1>a, <1>m, <2>1, TimerFrame DEF Ended
<1>6. CASE timer_append
  <2> USE <1>6 DEF timer_append, shared, worker
  <2>0. file_mutex = "timer" /\ \A c \in Conn : pc[c] \notin Critical
    BY <1>c, <1>t DEF MutexInv
  <2>1. /\ Stamp \in Seq(Bytes) /\ Len(Stamp) \in Nat /\ Len(Stamp) <= MAX_FILE
        /\ MAX_FILE \in Nat /\ LongestText \in Nat /\ NULL \notin Seq(Bytes)
    BY FileServerAssumption, TextLength
  <2>2. /\ file' \in Seq(Bytes) /\ Len(file') <= MAX_FILE + LongestText
        /\ IsPrefix(last, file')
    <3>1. CASE file = NULL
      <4>1. last = << >>
        BY <1>a, <1>t, <3>1 DEF FileInv
      <4>2. IsPrefix(<< >>, Stamp)
        BY <2>1, PrefixEmpty
      <4> QED
        BY <2>1, <3>1, <4>1, <4>2
    <3>2. CASE file # NULL
      <4>1. file \in Seq(Bytes) /\ last \in Seq(Bytes) /\ Len(file) \in Nat
        BY <1>t, <3>2 DEF TypeOK
      <4>2. file' = file \o Stamp
        BY <3>2
      <4>3. file' \in Seq(Bytes) /\ Len(file') = Len(file) + Len(Stamp)
        BY <2>1, <4>1, <4>2
      <4>4. Len(file) + Len(Stamp) <= MAX_FILE \/ Len(file) <= LongestText
        BY <1>t, <3>2 DEF RoomInv
      <4>5. Len(file') <= MAX_FILE + LongestText
        BY <2>1, <4>1, <4>3, <4>4
      <4>6. IsPrefix(last, file) /\ IsPrefix(file, file \o Stamp)
        BY <2>1, <3>2, <4>1, PrefixConcat DEF IndInv, FileStartsWithLastLine
      <4>7. IsPrefix(last, file')
        BY <4>1, <4>2, <4>3, <4>6, PrefixTransitive
      <4> QED
        BY <4>3, <4>5, <4>7
    <3> QED
      BY <3>1, <3>2
  <2>3. TypeOK'
    BY <1>t, <2>2 DEF TypeOK
  <2>4. MutexInv' /\ ListInv' /\ MainInv'
    BY <1>t, <2>0 DEF IndInv, MutexInv, ListInv, MainInv, Running
  <2>5. FileInv' /\ RoomInv' /\ FileStartsWithLastLine'
    BY <2>1, <2>2 DEF FileInv, RoomInv, FileStartsWithLastLine
  <2>6. SendInv'
    BY <2>0 DEF IndInv, SendInv, SendOf, Critical
  <2> QED
    BY <2>3, <2>4, <2>5, <2>6 DEF IndInv
<1> QED
  BY <1>1, <1>2, <1>3, <1>4, <1>5, <1>6 DEF Timer

(* Steps of a worker.  The others stand still.                             *)
Only(c) ==
  \A d \in Conn \ {c} :
    /\ pc'[d] = pc[d] /\ message'[d] = message[d] /\ f_pos'[d] = f_pos[d]
    /\ reply'[d] = reply[d] /\ snapshot'[d] = snapshot[d]

\* A step that neither enters nor leaves the critical section.
LEMMA WorkerFrame ==
  ASSUME IndInv, NEW c \in Conn, Only(c), TypeOK', SendOf(c)',
         UNCHANGED <<main, shared, timer, file_mutex, file, last>>,
         Running(c), pc'[c] # "none", pc[c] \in Critical <=> pc'[c] \in Critical,
         pc'[c] \in {"lock"} \cup Critical => file # NULL
  PROVE  IndInv'
<1> USE DEF shared
<1>1. MutexInv'
  BY DEF IndInv, MutexInv, Only
<1>2. ListInv' /\ MainInv'
  BY DEF IndInv, ListInv, MainInv, Only, Running
<1>3. FileInv' /\ RoomInv' /\ FileStartsWithLastLine'
  BY DEF IndInv, FileInv, RoomInv, FileStartsWithLastLine, Only
<1>4. SendInv'
  BY DEF IndInv, SendInv, SendOf, Sending, Only
<1> QED
  BY <1>1, <1>2, <1>3, <1>4 DEF IndInv

LEMMA WorkerOutside ==
  ASSUME IndInv, NEW c \in Conn,
         \/ thread_test(c) \/ Receive(c) \/ thread_fopen(c) \/ thread_exit(c)
  PROVE  IndInv'
<1> USE DEF Goto
<1>t. TypeOK /\ SendOf(c) /\ FileInv
  BY DEF IndInv, SendInv
<1>p. /\ pc \in [Conn -> {"none", "loop", "recv", "fopen", "lock", "handle", "send",
                          "unlock", "exit", "done"}]
      /\ is_open \in [Conn -> BOOLEAN] /\ f_pos \in [Conn -> Nat]
      /\ message \in [Conn -> Texts \cup {SeekLine, NULL}]
  BY <1>t DEF TypeOK
<1>1. CASE thread_test(c)
  <2> USE <1>1 DEF thread_test
  <2>1. TypeOK' /\ Only(c)
    BY <1>p, <1>t DEF TypeOK, Only, shared
  <2>2. SendOf(c)'
    BY <1>p, <1>t DEF SendOf
  <2> QED
    BY <1>p, <2>1, <2>2, WorkerFrame DEF Running, Critical
<1>2. ASSUME NEW m \in Texts \cup {SeekLine}, receive_line(c, m) PROVE IndInv'
  <2> USE <1>2 DEF receive_line
  <2>1. TypeOK' /\ Only(c)
    BY <1>p, <1>t DEF TypeOK, Only, shared
  <2>2. SendOf(c)'
    BY <1>p, <1>t DEF SendOf
  <2> QED
    BY <1>p, <2>1, <2>2, WorkerFrame DEF Running, Critical
<1>3. ASSUME NEW open \in BOOLEAN, receive_nothing(c, open) PROVE IndInv'
  <2> USE <1>3 DEF receive_nothing
  <2>1. TypeOK' /\ Only(c)
    BY <1>p, <1>t DEF TypeOK, Only, shared
  <2>2. SendOf(c)'
    BY <1>p, <1>t DEF SendOf
  <2> QED
    BY <1>p, <2>1, <2>2, WorkerFrame DEF Running, Critical
<1>4. CASE thread_fopen(c)
  <2> USE <1>4 DEF thread_fopen
  <2>0. pc' = [pc EXCEPT ![c] = "loop"] \/ (file # NULL /\ pc' = [pc EXCEPT ![c] = "lock"])
    OBVIOUS
  <2>1. TypeOK' /\ Only(c)
    <3>1. pc' \in [Conn -> {"none", "loop", "recv", "fopen", "lock", "handle", "send",
                            "unlock", "exit", "done"}]
      BY <1>p, <2>0
    <3>2. f_pos' \in [Conn -> Nat]
      BY <1>p
    <3>3. UNCHANGED <<main, shared, timer>>
      OBVIOUS
    <3> QED
      BY <1>p, <1>t, <2>0, <3>1, <3>2, <3>3 DEF TypeOK, Only, shared
  <2>2. SendOf(c)'
    BY <1>p, <1>t DEF SendOf
  <2> QED
    BY <1>p, <2>1, <2>2, WorkerFrame DEF Running, Critical
<1>5. CASE thread_exit(c)
  <2> USE <1>5 DEF thread_exit
  <2>1. TypeOK' /\ Only(c)
    BY <1>p, <1>t DEF TypeOK, Only, shared
  <2>2. SendOf(c)'
    BY <1>p, <1>t DEF SendOf
  <2> QED
    BY <1>p, <2>1, <2>2, WorkerFrame DEF Running, Critical
<1> QED
  BY <1>1, <1>2, <1>3, <1>4, <1>5 DEF Receive

LEMMA WorkerInside ==
  ASSUME IndInv, NEW c \in Conn,
         handle_seek(c) \/ tcp_connection_send_file(c) \/ tcp_connection_send_fails(c)
  PROVE  IndInv'
<1> USE DEF Goto
<1>t. TypeOK /\ SendOf(c) /\ FileInv
  BY DEF IndInv, SendInv
<1>p. /\ pc \in [Conn -> {"none", "loop", "recv", "fopen", "lock", "handle", "send",
                          "unlock", "exit", "done"}]
      /\ reply \in [Conn -> Seq(Bytes)] /\ snapshot \in [Conn -> Seq(Bytes)]
      /\ f_pos \in [Conn -> Nat] /\ message \in [Conn -> Texts \cup {SeekLine, NULL}]
  BY <1>t DEF TypeOK
<1>f. pc[c] \in Critical /\ file # NULL /\ file \in Seq(Bytes)
  BY <1>t DEF handle_seek, tcp_connection_send_file, tcp_connection_send_fails, Critical,
              FileInv, TypeOK
<1>1. CASE handle_seek(c)
  <2> USE <1>1 DEF handle_seek
  <2>1. TypeOK' /\ Only(c)
    BY <1>p, <1>t DEF TypeOK, Only, shared
  <2>2. SendOf(c)'
    BY <1>p, <1>t, PrefixEmpty DEF SendOf
  <2> QED
    BY <1>f, <1>p, <2>1, <2>2, WorkerFrame DEF Running, Critical
<1>2. CASE tcp_connection_send_fails(c)
  <2> USE <1>2 DEF tcp_connection_send_fails
  <2>1. TypeOK' /\ Only(c)
    BY <1>p, <1>t DEF TypeOK, Only, shared
  <2>2. SendOf(c)'
    BY <1>p, <1>t DEF SendOf
  <2> QED
    BY <1>f, <1>p, <2>1, <2>2, WorkerFrame DEF Running, Critical
<1>3. CASE tcp_connection_send_file(c)
  <2> DEFINE data == Piece(file, f_pos[c])
  <2>0. /\ pc[c] = "send"
        /\ pc' = [pc EXCEPT ![c] = IF data = << >> THEN "unlock" ELSE "send"]
        /\ f_pos' = [f_pos EXCEPT ![c] = @ + Len(data)]
        /\ reply' = [reply EXCEPT ![c] = @ \o data]
        /\ UNCHANGED <<main, shared, timer, file_mutex, file, is_open, message, snapshot, last>>
    BY <1>3, Zenon DEF tcp_connection_send_file, Piece
  <2>1. /\ message[c] \in Texts /\ IsPrefix(reply[c], snapshot[c])
        /\ file = message[c] \o snapshot[c] /\ f_pos[c] = Len(message[c]) + Len(reply[c])
    BY <1>t, <2>0 DEF SendOf, Sending
  <2>2. message[c] \in Seq(Bytes) /\ snapshot[c] \in Seq(Bytes) /\ reply[c] \in Seq(Bytes)
    BY <1>p, <2>1, TextLength
  <2>3. /\ reply[c] \o data \in Seq(Bytes) /\ IsPrefix(reply[c] \o data, snapshot[c])
        /\ f_pos[c] + Len(data) \in Nat
        /\ f_pos[c] + Len(data) = Len(message[c]) + Len(reply[c] \o data)
    <3>1. PICK m \in Seq(Bytes), t \in Seq(Bytes), r \in Seq(Bytes) :
            m = message[c] /\ t = snapshot[c] /\ r = reply[c] /\ IsPrefix(r, t)
      BY <2>1, <2>2
    <3> DEFINE p == Len(m) + Len(r)
               d == Piece(m \o t, p)
    <3>2. /\ r \o d \in Seq(Bytes) /\ IsPrefix(r \o d, t)
          /\ p + Len(d) \in Nat /\ p + Len(d) = Len(m) + Len(r \o d)
      <4>1. IsPrefix(r, t)
        BY <3>1
      <4> QED
        BY <4>1, PieceSent
    <3>3. p = f_pos[c] /\ d = data
      BY <2>1, <3>1
    <3> HIDE DEF p, d, data
    <3> QED
      BY <3>1, <3>2, <3>3
  <2> HIDE DEF data
  <2>4. /\ reply'[c] = reply[c] \o data /\ f_pos'[c] = f_pos[c] + Len(data)
        /\ pc'[c] \in {"send", "unlock"}
    BY <1>p, <2>0
  <2>5. TypeOK'
    <3>1. reply' \in [Conn -> Seq(Bytes)]
      BY <1>p, <2>0, <2>3
    <3>2. f_pos' \in [Conn -> Nat]
      BY <1>p, <2>0, <2>3
    <3>3. pc' \in [Conn -> {"none", "loop", "recv", "fopen", "lock", "handle", "send",
                            "unlock", "exit", "done"}]
      BY <1>p, <2>0
    <3> QED
      BY <1>t, <2>0, <3>1, <3>2, <3>3 DEF TypeOK, shared
  <2>6. Only(c)
    BY <1>p, <2>0 DEF Only
  <2>7. SendOf(c)'
    BY <2>0, <2>1, <2>3, <2>4 DEF SendOf, Sending
  <2> QED
    BY <1>f, <2>0, <2>4, <2>5, <2>6, <2>7, WorkerFrame DEF Running, Critical
<1> QED
  BY <1>1, <1>2, <1>3

LEMMA RegisterStep ==
  ASSUME IndInv, NEW c \in Conn, connection_manager_register_connection(c)
  PROVE  IndInv'
<1> USE DEF connection_manager_register_connection
<1> DEFINE list == connection_ctx_list
<1>t. TypeOK /\ MutexInv /\ ListInv /\ MainInv /\ FileInv /\ SendInv
  BY DEF IndInv
<1>p. /\ pc \in [Conn -> {"none", "loop", "recv", "fopen", "lock", "handle", "send",
                          "unlock", "exit", "done"}]
      /\ list \in Seq(Conn)
  BY <1>t DEF TypeOK
<1>1. /\ list' \in Seq(Conn) /\ Len(list') = Len(list) + 1 /\ list'[1] = c
      /\ \A i \in 1 .. Len(list) : list'[i + 1] = list[i]
      /\ Len(list) \in Nat
  <2>1. PICK new : new = SLIST_INSERT_HEAD(list, c)
    OBVIOUS
  <2>2. /\ new \in Seq(Conn) /\ Len(new) = Len(list) + 1 /\ new[1] = c
        /\ \A i \in 1 .. Len(list) : new[i + 1] = list[i]
        /\ Len(list) \in Nat
    BY <1>p, <2>1 DEF SLIST_INSERT_HEAD
  <2> QED
    BY <2>1, <2>2
<1>2. TypeOK'
  BY <1>1, <1>p, <1>t DEF TypeOK
<1>3. ListInv'
  <2>1. ASSUME NEW d \in Conn, Running(d)' PROVE \E i \in 1 .. Len(list') : list'[i] = d
    <3>1. CASE d = c
      BY <1>1, <3>1
    <3>2. CASE d # c
      <4>1. PICK i \in 1 .. Len(list) : list[i] = d
        BY <1>p, <1>t, <2>1, <3>2 DEF ListInv, Running
      <4> QED
        BY <1>1, <4>1
    <3> QED
      BY <3>1, <3>2
  <2> QED
    BY <2>1 DEF ListInv
<1>4. MutexInv' /\ MainInv'
  BY <1>p, <1>t DEF MutexInv, MainInv, Critical, Ended
<1>5. FileInv' /\ RoomInv' /\ FileStartsWithLastLine'
  BY <1>p, <1>t DEF IndInv, FileInv, RoomInv, FileStartsWithLastLine, Critical
<1>6. SendInv'
  BY <1>p, <1>t DEF SendInv, SendOf, Sending
<1> QED
  BY <1>2, <1>3, <1>4, <1>5, <1>6 DEF IndInv

LEMMA BoundarySteps ==
  ASSUME IndInv, NEW c \in Conn, thread_lock(c) \/ thread_unlock(c)
  PROVE  IndInv'
<1> USE DEF thread_lock, thread_unlock, Goto, shared
<1>t. TypeOK /\ MutexInv /\ ListInv /\ MainInv /\ FileInv /\ SendInv
  BY DEF IndInv
<1>p. /\ pc \in [Conn -> {"none", "loop", "recv", "fopen", "lock", "handle", "send",
                          "unlock", "exit", "done"}]
      /\ reply \in [Conn -> Seq(Bytes)] /\ snapshot \in [Conn -> Seq(Bytes)]
      /\ f_pos \in [Conn -> Nat] /\ message \in [Conn -> Texts \cup {SeekLine, NULL}]
      /\ << >> \in Seq(Bytes)
  BY <1>t DEF TypeOK
<1>c. \A d \in Conn : d \notin {NULL, "timer", "destroyed"}
  BY FileServerAssumption
<1>s. NULL # "timer" /\ NULL # "destroyed"
  BY FileServerAssumption
<1>1. TypeOK'
  <2>1. CASE thread_lock(c)
    BY <1>p, <1>t, <2>1 DEF TypeOK
  <2>2. CASE thread_unlock(c)
    <3>1. /\ reply' \in [Conn -> Seq(Bytes)] /\ snapshot' \in [Conn -> Seq(Bytes)]
          /\ f_pos' \in [Conn -> Nat] /\ message' \in [Conn -> Texts \cup {SeekLine, NULL}]
      BY <1>p, <2>2
    <3>2. pc' \in [Conn -> {"none", "loop", "recv", "fopen", "lock", "handle", "send",
                            "unlock", "exit", "done"}]
      BY <1>p, <2>2
    <3> QED
      BY <1>t, <2>2, <3>1, <3>2 DEF TypeOK
  <2> QED
    BY <2>1, <2>2
<1>2. MutexInv'
  <2>1. CASE thread_lock(c)
    BY <1>c, <1>p, <1>s, <1>t, <2>1 DEF MutexInv, Critical
  <2>2. CASE thread_unlock(c)
    <3>1. file_mutex = c
      BY <1>t, <2>2 DEF MutexInv, Critical
    <3> QED
      BY <1>c, <1>p, <1>t, <2>2, <3>1 DEF MutexInv, Critical
  <2> QED
    BY <2>1, <2>2
<1>3. ListInv' /\ MainInv'
  BY <1>c, <1>p, <1>s, <1>t DEF ListInv, MainInv, Running
<1>4. FileInv' /\ RoomInv' /\ FileStartsWithLastLine'
  BY <1>p, <1>t DEF IndInv, FileInv, RoomInv, FileStartsWithLastLine, Critical
<1>5. SendInv'
  <2>1. CASE thread_lock(c)
    BY <1>p, <1>t, <2>1 DEF SendInv, SendOf, Sending
  <2>2. CASE thread_unlock(c)
    BY <1>p, <1>t, <2>2 DEF SendInv, SendOf, Sending
  <2> QED
    BY <2>1, <2>2
<1> QED
  BY <1>1, <1>2, <1>3, <1>4, <1>5 DEF IndInv

LEMMA TextStep ==
  ASSUME IndInv, NEW c \in Conn, handle_text(c)
  PROVE  IndInv'
<1>t. TypeOK /\ MutexInv /\ ListInv /\ MainInv /\ FileInv /\ RoomInv /\ SendInv
  BY DEF IndInv
<1>p. /\ pc \in [Conn -> {"none", "loop", "recv", "fopen", "lock", "handle", "send",
                          "unlock", "exit", "done"}]
      /\ reply \in [Conn -> Seq(Bytes)] /\ snapshot \in [Conn -> Seq(Bytes)]
      /\ f_pos \in [Conn -> Nat] /\ message \in [Conn -> Texts \cup {SeekLine, NULL}]
  BY <1>t DEF TypeOK
<1>c. \A d \in Conn : d \notin {NULL, "timer", "destroyed"}
  BY FileServerAssumption
<1> DEFINE rest == SubSeq(file, Len(message[c]) + 1, Len(file))
<1>0. /\ pc[c] = "handle" /\ message[c] # SeekLine
      /\ pc' = [pc EXCEPT ![c] = "send"]
      /\ file' = message[c] \o rest /\ last' = message[c]
      /\ f_pos' = [f_pos EXCEPT ![c] = Len(message[c])]
      /\ snapshot' = [snapshot EXCEPT ![c] = rest]
      /\ UNCHANGED <<main, shared, timer, file_mutex, is_open, message, reply>>
  BY DEF handle_text, Goto, Stored, PositionAfter
<1>1. message[c] \in Texts /\ file_mutex = c /\ file # NULL
  BY <1>0, <1>t DEF SendInv, SendOf, MutexInv, FileInv, Critical
<1>2. /\ file_mutex # "timer" /\ timer \notin {"append", "unlock"}
      /\ \A d \in Conn \ {c} : pc[d] \notin Critical
  BY <1>1, <1>c, <1>t DEF MutexInv
<1>3. PICK s \in Seq(Bytes), f \in Seq(Bytes) :
        s = message[c] /\ f = file /\ Len(s) <= LongestText /\ Len(f) <= MAX_FILE + LongestText
  <2>1. message[c] \in Seq(Bytes) /\ Len(message[c]) <= LongestText
    BY <1>1, TextLength
  <2>2. file \in Seq(Bytes) /\ Len(file) <= MAX_FILE + LongestText
    BY <1>1, <1>t DEF TypeOK
  <2> QED
    BY <2>1, <2>2
<1>4. /\ rest \in Seq(Bytes) /\ s \o rest \in Seq(Bytes) /\ IsPrefix(s, s \o rest)
      /\ Len(s \o rest) = IF Len(s) < Len(f) THEN Len(f) ELSE Len(s)
  <2>1. rest = SubSeq(f, Len(s) + 1, Len(f))
    BY <1>3
  <2> QED
    BY <2>1, StoredText
<1> HIDE DEF rest
<1>5. /\ file' \in Seq(Bytes) /\ IsPrefix(last', file')
      /\ Len(file') = IF Len(s) < Len(f) THEN Len(f) ELSE Len(s)
  BY <1>0, <1>3, <1>4
<1>6. Len(s) \in Nat /\ Len(f) \in Nat /\ MAX_FILE \in Nat /\ LongestText \in Nat /\ Len(Stamp) \in Nat
  BY FileServerAssumption, TextLength
<1>7. NULL \notin Seq(Bytes)
  BY FileServerAssumption
<1>8. TypeOK'
  <2>1. Len(file') <= MAX_FILE + LongestText
    BY <1>3, <1>5, <1>6
  <2>2. snapshot' \in [Conn -> Seq(Bytes)] /\ f_pos' \in [Conn -> Nat] /\ last' \in Seq(Bytes)
    BY <1>0, <1>3, <1>4, <1>6, <1>p
  <2>3. pc' \in [Conn -> {"none", "loop", "recv", "fopen", "lock", "handle", "send",
                          "unlock", "exit", "done"}]
    BY <1>0, <1>p
  <2> QED
    BY <1>0, <1>5, <1>t, <2>1, <2>2, <2>3 DEF TypeOK, shared
<1>9. MutexInv' /\ ListInv' /\ MainInv'
  BY <1>0, <1>p, <1>t DEF MutexInv, ListInv, MainInv, Running, Critical, shared
<1>10. FileInv' /\ FileStartsWithLastLine'
  BY <1>5, <1>7 DEF FileInv, FileStartsWithLastLine
<1>11. RoomInv'
  <2>1. timer = "lock" => Len(f) + Len(Stamp) <= MAX_FILE \/ Len(f) <= LongestText
    BY <1>1, <1>3, <1>t DEF RoomInv
  <2>2. timer' = "lock" => Len(file') + Len(Stamp) <= MAX_FILE \/ Len(file') <= LongestText
    BY <1>0, <1>3, <1>5, <1>6, <2>1
  <2> QED
    BY <1>0, <1>2, <2>2 DEF RoomInv
<1>12. SendInv'
  <2>1. SendOf(c)'
    <3>1. reply[c] = << >>
      BY <1>0, <1>t DEF SendInv, SendOf
    <3>2. /\ pc'[c] = "send" /\ f_pos'[c] = Len(message[c]) /\ snapshot'[c] = rest
          /\ reply'[c] = << >> /\ message'[c] = message[c]
      BY <1>0, <1>p, <3>1
    <3>3. IsPrefix(<< >>, rest)
      BY <1>4, PrefixEmpty
    <3>4. Len(message[c]) = Len(message[c]) + Len(<< >>)
      BY <1>3, <1>6
    <3> QED
      BY <1>0, <1>1, <3>2, <3>3, <3>4 DEF SendOf, Sending
  <2>2. ASSUME NEW d \in Conn, d # c PROVE SendOf(d)'
    BY <1>0, <1>2, <1>p, <1>t, <2>2 DEF SendInv, SendOf, Critical
  <2> QED
    BY <2>1, <2>2 DEF SendInv
<1> QED
  BY <1>8, <1>9, <1>10, <1>11, <1>12 DEF IndInv

LEMMA NextInd == IndInv /\ [Next]_vars => IndInv'
<1> SUFFICES ASSUME IndInv, [Next]_vars PROVE IndInv'
  OBVIOUS
<1>1. CASE main_leave \/ Shutdown
  BY <1>1, MainSteps
<1>2. CASE timer_fires \/ timer_lock \/ Timer
  BY <1>2, TimerSteps
<1>3. ASSUME NEW c \in Conn,
             \/ connection_manager_register_connection(c)
             \/ Receive(c) \/ Worker(c) \/ thread_lock(c) \/ tcp_connection_send_fails(c)
      PROVE  IndInv'
  BY <1>3, RegisterStep, WorkerOutside, WorkerInside, TextStep, BoundarySteps DEF Worker
<1>4. CASE UNCHANGED vars
  BY <1>4 DEF vars, shared, worker, IndInv, TypeOK, MutexInv, ListInv, MainInv, FileInv, RoomInv,
              SendInv, SendOf, Sending, FileStartsWithLastLine, Running
<1> QED
  BY <1>1, <1>2, <1>3, <1>4 DEF Next

LEMMA Invariance == Spec => []IndInv
  BY InitInd, NextInd, PTL DEF Spec

-----------------------------------------------------------------------------

(* The server's variables keep their types, and a file that grows by       *)
(* timestamps alone stays within their bound and one line.                 *)
THEOREM FileServerTypes == Spec => []TypeOK
  BY Invariance, PTL DEF IndInv

(* The answer is what followed the client's line when the line was stored, *)
(* however many workers and timestamps compete for the file, and whatever  *)
(* the size of the pieces it is sent in.                                   *)
THEOREM AnswersAreConsistent == Spec => []ReplyIsRestOfFile
<1>1. IndInv => ReplyIsRestOfFile
  <2> SUFFICES ASSUME IndInv, NEW c \in Conn
               PROVE  /\ pc[c] \in {"send", "unlock"} => IsPrefix(reply[c], snapshot[c])
                      /\ pc[c] = "send" /\ f_pos[c] = Len(file) => reply[c] = snapshot[c]
    BY DEF ReplyIsRestOfFile
  <2>1. SendOf(c)
    BY DEF IndInv, SendInv
  <2>2. ASSUME pc[c] = "send", f_pos[c] = Len(file) PROVE reply[c] = snapshot[c]
    <3>1. /\ message[c] \in Texts /\ file = message[c] \o snapshot[c]
          /\ f_pos[c] = Len(message[c]) + Len(reply[c]) /\ IsPrefix(reply[c], snapshot[c])
      BY <2>1, <2>2 DEF SendOf, Sending
    <3>2. PICK m \in Seq(Bytes), t \in Seq(Bytes), r \in Seq(Bytes) :
            m = message[c] /\ t = snapshot[c] /\ r = reply[c]
      <4>1. snapshot[c] \in Seq(Bytes) /\ reply[c] \in Seq(Bytes)
        BY DEF IndInv, TypeOK
      <4> QED
        BY <3>1, <4>1, TextLength
    <3>3. Len(m \o t) = Len(m) + Len(r) /\ IsPrefix(r, t)
      BY <2>2, <3>1, <3>2
    <3>4. Len(r) = Len(t)
      BY <3>3
    <3>5. \A i \in 1 .. Len(r) : r[i] = t[i]
      BY <3>3, PrefixMeans
    <3> QED
      BY <3>2, <3>4, <3>5, SeqEqual
  <2> QED
    BY <2>1, <2>2 DEF SendOf
<1> QED
  BY <1>1, Invariance, PTL

(* The file begins with the line stored last.                              *)
THEOREM LastLineIsFirst == Spec => []FileStartsWithLastLine
  BY Invariance, PTL DEF IndInv

(* Nothing is freed that a running worker uses: its context, the manager   *)
(* and the mutex outlive it.                                               *)
THEOREM FileShutdownIsSafe == Spec => []WorkersOutliveNothing
<1>1. IndInv => WorkersOutliveNothing
  <2> SUFFICES ASSUME IndInv, NEW c \in Conn, Running(c)
               PROVE  /\ c \in Range(connection_ctx_list)
                      /\ manager = "live" /\ file_mutex # "destroyed"
    BY DEF WorkersOutliveNothing, Running
  <2>1. PICK i \in 1 .. Len(connection_ctx_list) : connection_ctx_list[i] = c
    BY DEF IndInv, ListInv
  <2>2. connection_ctx_list \in Seq(Conn) /\ connection_ctx_list # << >> /\ manager \in {"live", "freed"}
    BY <2>1 DEF IndInv, TypeOK
  <2>3. c \in Range(connection_ctx_list)
    BY <2>1, <2>2 DEF Range
  <2> QED
    BY <2>2, <2>3 DEF IndInv, MainInv
<1> QED
  BY <1>1, Invariance, PTL
=============================================================================
