------------------------------ MODULE FileServer ------------------------------
(***************************************************************************)
(* aesdsocket built without USE_AESD_CHAR_DEVICE: messages go to a plain   *)
(* file, to which a timer's thread appends a timestamp every ten seconds.  *)
(* This module has what that build adds or changes in                      *)
(* server/src/connection_manager.c and main.c: the file, the timer and the *)
(* order of the shutdown.  What a connection delivers (a line, the end or  *)
(* an error) is a choice of the environment here; AesdSocket and           *)
(* TcpConnection model it.                                                 *)
(***************************************************************************)
EXTENDS Integers, SequencesExt, SList

CONSTANTS
  Conn,       \* connections, each made once
  Texts,      \* lines a client may send, with their newline
  SeekLine,   \* a line that decodes as AESDCHAR_IOCSEEKTO
  Stamp,      \* the line the timer writes
  READ_SIZE,  \* buffer_size of tcp_connection_send_file
  MAX_FILE,   \* no timestamp beyond this length (a bound of the model)
  NULL

Bytes == UNION {Range(s) : s \in Texts \cup {Stamp}}

\* There is a longest line: its buffer's size is an int.
ASSUME FileServerAssumption ==
  /\ READ_SIZE \in Nat \ {0} /\ MAX_FILE \in Nat
  /\ Texts \subseteq Seq(Bytes) /\ Stamp \in Seq(Bytes) /\ Len(Stamp) <= MAX_FILE
  /\ \E s \in Texts : \A t \in Texts : Len(t) <= Len(s)
  /\ SeekLine \notin Texts /\ NULL \notin Seq(Bytes)
  /\ \A c \in Conn : c \notin {NULL, "timer", "destroyed"}
  /\ NULL \notin {"timer", "destroyed"}

VARIABLES
  main,                 \* where the main thread is
  close_connections,
  connection_ctx_list,  \* head first
  manager,              \* the struct: "live" or "freed"
  file_mutex,           \* its owner (a connection or "timer"), NULL or "destroyed"
  timerid,              \* "armed" or "deleted"
  timer,                \* where the timer's thread is
  file,                 \* the bytes of the file, or NULL if there is none
  pc, is_open, message, \* a worker, its connection and its line
  f_pos, reply,         \* its file position and what it has sent of the answer
  last, snapshot        \* history: the last line stored; what follows it

shared == <<close_connections, connection_ctx_list, manager, timerid>>
worker == <<pc, is_open, message, f_pos, reply, snapshot>>
vars == <<main, shared, file_mutex, timer, file, worker, last>>

Alive == main \notin {"exited", "crashed"}

-----------------------------------------------------------------------------
(* Mutated forms of the definitions below (see PROJECT.json, "mutants").   *)

LockWithoutWaiting == TRUE
JoinWithoutWaiting(c) == TRUE
TimerKeepsMutex == "timer"
AppendsLine(s) == file \o s

-----------------------------------------------------------------------------

Init ==
  /\ main = "run" /\ close_connections = FALSE /\ connection_ctx_list = SLIST_INIT
  /\ manager = "live" /\ file_mutex = NULL
  /\ timerid = "armed" /\ timer = "idle"
  /\ file \in {NULL, Stamp}   \* a run that was killed leaves its file
  /\ last = << >>
  /\ pc = [c \in Conn |-> "none"]
  /\ is_open = [c \in Conn |-> TRUE]
  /\ message = [c \in Conn |-> NULL]
  /\ f_pos = [c \in Conn |-> 0]
  /\ reply = [c \in Conn |-> << >>]
  /\ snapshot = [c \in Conn |-> << >>]

-----------------------------------------------------------------------------
(* The main thread.                                                        *)

connection_manager_register_connection(c) ==
  /\ main = "run" /\ pc[c] = "none"
  /\ pc' = [pc EXCEPT ![c] = "loop"]
  /\ connection_ctx_list' = SLIST_INSERT_HEAD(connection_ctx_list, c)
  /\ UNCHANGED <<main, close_connections, manager, timerid, file_mutex, timer, file,
                 is_open, message, f_pos, reply, snapshot, last>>

\* A signal has ended the accept loop.
main_leave ==
  /\ main = "run"
  /\ main' = "join" /\ close_connections' = TRUE
  /\ UNCHANGED <<connection_ctx_list, manager, timerid, file_mutex, timer, file, worker, last>>

ThreadEnded(c) == pc[c] = "done"

connection_manager_join ==
  /\ main = "join" /\ ~SLIST_EMPTY(connection_ctx_list)
  /\ ThreadEnded(SLIST_FIRST(connection_ctx_list))
  /\ connection_ctx_list' = SLIST_REMOVE_HEAD(connection_ctx_list)
  /\ UNCHANGED <<main, close_connections, manager, timerid, file_mutex, timer, file, worker, last>>

\* pthread_mutex_destroy, which does nothing (EBUSY) to a mutex that is held.
manager_mutex_destroy ==
  /\ main = "join" /\ SLIST_EMPTY(connection_ctx_list)
  /\ main' = "delete"
  /\ file_mutex' = IF file_mutex = NULL THEN "destroyed" ELSE file_mutex
  /\ UNCHANGED <<shared, timer, file, worker, last>>

\* timer_delete does not wait for a thread the timer has already started.
manager_timer_delete ==
  /\ main = "delete"
  /\ main' = "free" /\ timerid' = "deleted"
  /\ UNCHANGED <<close_connections, connection_ctx_list, manager, file_mutex, timer, file,
                 worker, last>>

manager_free ==
  /\ main = "free"
  /\ main' = "teardown" /\ manager' = "freed"
  /\ UNCHANGED <<close_connections, connection_ctx_list, timerid, file_mutex, timer, file,
                 worker, last>>

\* The file is removed and the process ends.
teardown ==
  /\ main = "teardown"
  /\ main' = "exited" /\ file' = NULL
  /\ UNCHANGED <<shared, file_mutex, timer, worker, last>>

-----------------------------------------------------------------------------
(* The timer's thread, thread_timer.  One at a time: the interval is ten   *)
(* seconds.                                                                *)

TimerGoto(label) == timer' = label /\ UNCHANGED <<shared, worker, last>>

timer_fires ==
  /\ Alive /\ timerid = "armed" /\ timer = "idle"
  /\ file # NULL => Len(file) + Len(Stamp) <= MAX_FILE
  /\ TimerGoto("lock") /\ UNCHANGED <<main, file_mutex, file>>

TimerMayLock == file_mutex = NULL

timer_lock ==
  /\ Alive /\ timer = "lock" /\ manager = "live" /\ TimerMayLock
  /\ file_mutex' = "timer"
  /\ TimerGoto("append") /\ UNCHANGED <<main, file>>

\* A destroyed mutex cannot be locked, and a file that cannot be opened is
\* an error too: exit(-1).
timer_exits ==
  /\ Alive /\ manager = "live"
  /\ timer = "append" \/ (timer = "lock" /\ file_mutex = "destroyed")
  /\ main' = "exited"
  /\ TimerGoto("idle") /\ UNCHANGED <<file_mutex, file>>

\* fopen "a" creates the file if there is none.
timer_append ==
  /\ Alive /\ timer = "append" /\ manager = "live"
  /\ file' = IF file = NULL THEN Stamp ELSE file \o Stamp
  /\ TimerGoto("unlock") /\ UNCHANGED <<main, file_mutex>>

OwnerAfterTimer == NULL

timer_unlock ==
  /\ Alive /\ timer = "unlock" /\ manager = "live"
  /\ file_mutex' = OwnerAfterTimer
  /\ TimerGoto("idle") /\ UNCHANGED <<main, file>>

\* The thread uses the manager after it was freed: undefined; it crashes, or
\* the old memory lets it finish.
timer_uses_freed ==
  /\ Alive /\ timer # "idle" /\ manager = "freed"
  /\ TimerGoto("idle")
  /\ \/ main' = "crashed" /\ UNCHANGED file
     \/ UNCHANGED <<main, file>>
  /\ UNCHANGED file_mutex

-----------------------------------------------------------------------------
(* A worker, thread_routine.                                               *)

Goto(c, label) == pc' = [pc EXCEPT ![c] = label] /\ UNCHANGED <<main, shared, timer>>

thread_test(c) ==
  /\ Alive /\ pc[c] = "loop"
  /\ Goto(c, IF is_open[c] /\ ~close_connections THEN "recv" ELSE "exit")
  /\ UNCHANGED <<file_mutex, file, is_open, message, f_pos, reply, snapshot, last>>

receive_line(c, m) ==
  /\ Alive /\ pc[c] = "recv"
  /\ Goto(c, "fopen")
  /\ message' = [message EXCEPT ![c] = m]
  /\ UNCHANGED <<file_mutex, file, is_open, f_pos, reply, snapshot, last>>

\* The end of the connection, or an error, after which it is still open.
receive_nothing(c, open) ==
  /\ Alive /\ pc[c] = "recv"
  /\ Goto(c, "loop")
  /\ message' = [message EXCEPT ![c] = NULL]
  /\ is_open' = [is_open EXCEPT ![c] = open]
  /\ UNCHANGED <<file_mutex, file, f_pos, reply, snapshot, last>>

\* fopen may fail, and does without a file, which "r+" does not create: `continue'.
thread_fopen(c) ==
  /\ Alive /\ pc[c] = "fopen"
  /\ Goto(c, "loop") \/ (file # NULL /\ Goto(c, "lock"))
  /\ f_pos' = [f_pos EXCEPT ![c] = 0]
  /\ UNCHANGED <<file_mutex, file, is_open, message, reply, snapshot, last>>

thread_lock(c) ==
  /\ Alive /\ pc[c] = "lock" /\ file_mutex = NULL
  /\ Goto(c, "handle")
  /\ file_mutex' = c
  /\ UNCHANGED <<file, is_open, message, f_pos, reply, snapshot, last>>

\* The file once s has been written at its start.
Stored(s) == s \o SubSeq(file, Len(s) + 1, Len(file))

\* Where writing s leaves the position.
PositionAfter(s) == Len(s)

\* fprintf and fflush.
handle_text(c) ==
  LET s == message[c]
  IN  /\ Alive /\ pc[c] = "handle" /\ s # SeekLine
      /\ Goto(c, "send")
      /\ file' = Stored(s) /\ last' = s
      /\ f_pos' = [f_pos EXCEPT ![c] = PositionAfter(s)]
      /\ snapshot' = [snapshot EXCEPT ![c] = SubSeq(file, Len(s) + 1, Len(file))]
      /\ UNCHANGED <<file_mutex, is_open, message, reply>>

\* A file does not know the ioctl: the line is not answered.
handle_seek(c) ==
  /\ Alive /\ pc[c] = "handle" /\ message[c] = SeekLine
  /\ Goto(c, "unlock")
  /\ UNCHANGED <<file_mutex, file, is_open, message, f_pos, reply, snapshot, last>>

\* read and send, as often as there is something to read.
tcp_connection_send_file(c) ==
  LET data == SubSeq(file, f_pos[c] + 1, Min({Len(file), f_pos[c] + READ_SIZE}))
  IN  /\ Alive /\ pc[c] = "send"
      /\ Goto(c, IF data = << >> THEN "unlock" ELSE "send")
      /\ f_pos' = [f_pos EXCEPT ![c] = @ + Len(data)]
      /\ reply' = [reply EXCEPT ![c] = @ \o data]
      /\ UNCHANGED <<file_mutex, file, is_open, message, snapshot, last>>

\* send fails: the rest is not sent.
tcp_connection_send_fails(c) ==
  /\ Alive /\ pc[c] = "send" /\ f_pos[c] < Len(file)
  /\ Goto(c, "unlock")
  /\ UNCHANGED <<file_mutex, file, is_open, message, f_pos, reply, snapshot, last>>

thread_unlock(c) ==
  /\ Alive /\ pc[c] = "unlock"
  /\ Goto(c, "loop")
  /\ file_mutex' = NULL
  /\ message' = [message EXCEPT ![c] = NULL]
  /\ f_pos' = [f_pos EXCEPT ![c] = 0]
  /\ reply' = [reply EXCEPT ![c] = << >>]
  /\ snapshot' = [snapshot EXCEPT ![c] = << >>]
  /\ UNCHANGED <<file, is_open, last>>

thread_exit(c) ==
  /\ Alive /\ pc[c] = "exit"
  /\ Goto(c, "done")
  /\ UNCHANGED <<file_mutex, file, is_open, message, f_pos, reply, snapshot, last>>

-----------------------------------------------------------------------------

Shutdown ==
  \/ connection_manager_join \/ manager_mutex_destroy \/ manager_timer_delete
  \/ manager_free \/ teardown

Timer == timer_append \/ timer_unlock \/ timer_exits \/ timer_uses_freed

Receive(c) ==
  \/ \E m \in Texts \cup {SeekLine} : receive_line(c, m)
  \/ \E open \in BOOLEAN : receive_nothing(c, open)

Worker(c) ==
  \/ thread_test(c) \/ thread_fopen(c) \/ handle_text(c) \/ handle_seek(c)
  \/ tcp_connection_send_file(c) \/ thread_unlock(c) \/ thread_exit(c)

Next ==
  \/ main_leave \/ Shutdown
  \/ timer_fires \/ timer_lock \/ Timer
  \/ \E c \in Conn :
       \/ connection_manager_register_connection(c)
       \/ Receive(c) \/ Worker(c) \/ thread_lock(c) \/ tcp_connection_send_fails(c)

Spec == Init /\ [][Next]_vars

(* Threads keep running and get the mutex sooner or later, and recv        *)
(* returns: clients send, close or are lost in the end.                    *)
Fairness ==
  /\ WF_vars(Shutdown) /\ WF_vars(Timer) /\ SF_vars(timer_lock)
  /\ \A c \in Conn :
       WF_vars(Worker(c)) /\ WF_vars(Receive(c)) /\ SF_vars(thread_lock(c))

FairSpec == Spec /\ Fairness

-----------------------------------------------------------------------------
(* Properties                                                              *)

LongestText == Max({Len(s) : s \in Texts})

(* Every variable has its type; the file grows beyond the bound on the     *)
(* timestamps by no more than a line.                                      *)
TypeOK ==
  /\ main \in {"run", "join", "delete", "free", "teardown", "exited", "crashed"}
  /\ close_connections \in BOOLEAN /\ connection_ctx_list \in Seq(Conn)
  /\ manager \in {"live", "freed"} /\ timerid \in {"armed", "deleted"}
  /\ file_mutex \in Conn \cup {"timer", NULL, "destroyed"}
  /\ timer \in {"idle", "lock", "append", "unlock"}
  /\ file # NULL => file \in Seq(Bytes) /\ Len(file) <= MAX_FILE + LongestText
  /\ pc \in [Conn -> {"none", "loop", "recv", "fopen", "lock", "handle", "send",
                      "unlock", "exit", "done"}]
  /\ is_open \in [Conn -> BOOLEAN]
  /\ message \in [Conn -> Texts \cup {SeekLine, NULL}]
  /\ f_pos \in [Conn -> Nat]
  /\ reply \in [Conn -> Seq(Bytes)] /\ snapshot \in [Conn -> Seq(Bytes)]
  /\ last \in Seq(Bytes)

(* What a worker answers is what followed its line in the file when it     *)
(* stored the line: no other worker's line and no timestamp gets in        *)
(* between, although the answer is read piece by piece.                    *)
ReplyIsRestOfFile ==
  \A c \in Conn :
    /\ pc[c] \in {"send", "unlock"} => IsPrefix(reply[c], snapshot[c])
    /\ pc[c] = "send" /\ f_pos[c] = Len(file) => reply[c] = snapshot[c]

(* Every line is written over the start of the file (fopen "r+" and no     *)
(* seek), so as long as the file exists it begins with the last line       *)
(* stored, whatever timestamps came in between.                            *)
FileStartsWithLastLine == file # NULL => IsPrefix(last, file)

(* connection_manager_destroy frees nothing a worker still uses: while it  *)
(* runs, its context is in the list, the manager exists and so does the    *)
(* mutex.                                                                  *)
WorkersOutliveNothing ==
  \A c \in Conn : Alive /\ pc[c] \notin {"none", "done"} =>
    /\ c \in Range(connection_ctx_list)
    /\ manager = "live" /\ file_mutex # "destroyed"

(* A shutdown ends although workers and the timer compete for the mutex    *)
(* and the timer's thread may still be waiting for it.                     *)
ShutdownEnds == main = "join" ~> ~Alive

=============================================================================
