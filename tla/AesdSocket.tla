------------------------------ MODULE AesdSocket ------------------------------
(***************************************************************************)
(* aesdsocket as the Makefile builds it (USE_AESD_CHAR_DEVICE): the main   *)
(* thread accepts connections and starts a worker thread for each; a       *)
(* worker receives a line, writes it to /dev/aesdchar (or, for             *)
(* AESDCHAR_IOCSEEKTO:X,Y, moves its position there) and sends back what   *)
(* the device then holds, all under file_mutex.  SIGINT and SIGTERM ask    *)
(* for a shutdown, in which the main thread joins every worker.            *)
(*                                                                         *)
(* The device is the log that the driver implements (CommandLog, see       *)
(* CharDevice): only workers use it here, each with its own open file, but *)
(* it may hold bytes that others left in it.  Receiving a line is one      *)
(* step; TcpConnection has its bytes.  Sockets, threads, signals and stdio *)
(* are external and modelled by what the program relies on.                *)
(***************************************************************************)
EXTENDS CommandLog, SList

CONSTANTS
  Conn,          \* connections, each made once
  Text,          \* lines a client may send, as sequences of bytes
  LeaveBy,       \* what clients do in the end: see Leave
  Seek,          \* pairs <<write_cmd, write_cmd_offset>> it may ask for
  NewLine,       \* the byte '\n'
  MAX_OPS,       \* commands the device keeps
  Leftover,      \* incomplete commands the device may hold at the start
  STDIO_SIZE,    \* what stdio's buffer of an open file holds
  READ_SIZE,     \* buffer_size of tcp_connection_send_file
  MAX_MESSAGES,  \* lines sent ahead on a connection (a bound of the model)
  MAX_HELD,      \* bytes the device may hold when a write fails (a bound too)
  Faults,        \* calls that may fail: see FaultKinds
  NULL

\* What lines and the device are made of.
Bytes == {NewLine} \cup UNION {Range(s) : s \in Text \cup Leftover}

FaultKinds ==
  {"startup", "pthread_create", "accept", "fopen", "write", "send", "syslog"}

ASSUME SocketAssumption ==
  /\ {MAX_OPS, READ_SIZE, STDIO_SIZE} \subseteq Nat \ {0}
  /\ {MAX_MESSAGES, MAX_HELD} \subseteq Nat
  /\ Seek \subseteq Nat \X Nat
  /\ Faults \subseteq FaultKinds
  /\ "closed" \in LeaveBy /\ LeaveBy \subseteq {"half_closed", "closed", "reset"}
  /\ Conn \cap {NULL, "destroyed"} = {} /\ NULL # "destroyed"

\* A message is what TcpConnection returns, a line without its newline.
ASSUME LineAssumption ==
  /\ Text \cup Leftover \subseteq Seq(Bytes) /\ NULL \notin Seq(Bytes)
  /\ \A s \in Text : NewLine \notin Range(s)

VARIABLES
  main,                 \* where the main thread is
  accepted,             \* the connection it has just accepted, or NULL
  exit_program,         \* the flag the signal handler sets
  close_connections,    \* the flag connection_manager_destroy sets
  connection_ctx_list,  \* the SLIST of the manager, head first
  file_mutex,           \* its owner, NULL, or "destroyed"
  pc,                   \* where each worker is
  is_open,              \* tcp_connection_t.is_open
  message,              \* the line buffer a worker owns, or NULL
  f_pos,                \* the position of a worker's open file, or NULL
  chunk,                \* what it has not yet written, or read and not yet sent
  blocked,              \* workers whose signal handler waits for syslog's lock
  log, partial,         \* what the device holds: commands, and the rest
  socket,               \* the server's end of each connection
  client,               \* the client's end
  inbox,                \* lines sent and not yet received
  reply,                \* bytes sent in answer to the current line
  snapshot              \* history: what the device held for that answer, or NULL

mainVars == <<main, accepted, exit_program, close_connections, connection_ctx_list, blocked>>
ioVars == <<message, f_pos, chunk, reply, snapshot>>
device == <<log, partial>>
netVars == <<client, inbox>>
vars == <<mainVars, file_mutex, pc, is_open, ioVars, device, socket, netVars>>

Message == {[op |-> "text", text |-> s] : s \in Text} \cup
           {[op |-> "seek", write_cmd |-> a[1], write_cmd_offset |-> a[2]] : a \in Seek}

\* The process runs; a signal that is not handled ends it at once.
Alive == main \notin {"exited", "killed"}

-----------------------------------------------------------------------------
(* Mutated forms of the definitions below (see PROJECT.json, "mutants").   *)

LockWithoutWaiting(c) == TRUE
JoinWithoutWaiting(c) == TRUE
UnlockOnSuccessOnly(c) == IF chunk[c] = << >> THEN NULL ELSE file_mutex
UnlockOnAnswerOnly(c) == IF snapshot[c] = NULL THEN file_mutex ELSE NULL
NeverEvicts(s) == [log |-> Append(log, partial \o s), partial |-> << >>]
ForgetsToClose(c) == "open"

-----------------------------------------------------------------------------
(* The device.                                                             *)

\* aesd_read: from pos to the end of its command, or to the end of the buffer.
DeviceRead(pos) ==
  IF pos >= Len(Stream(log)) THEN << >>
  ELSE LET end == Min({CommandStart(log, i) : i \in 1 .. Len(log)} \ (0 .. pos))
       IN  SubSeq(Stream(log), pos + 1, Min({end, pos + READ_SIZE}))

\* aesd_write.
DeviceWrite(s) == Written(log, partial, s, NewLine, MAX_OPS)

-----------------------------------------------------------------------------

Init ==
  /\ main = "setup" /\ accepted = NULL
  /\ exit_program = FALSE /\ close_connections = FALSE
  /\ connection_ctx_list = SLIST_INIT /\ blocked = {}
  /\ file_mutex = NULL
  /\ pc = [c \in Conn |-> "none"]
  /\ is_open = [c \in Conn |-> FALSE]
  /\ message = [c \in Conn |-> NULL]
  /\ f_pos = [c \in Conn |-> NULL]
  /\ chunk = [c \in Conn |-> << >>]
  /\ log = << >> /\ partial \in Leftover
  /\ socket = [c \in Conn |-> "none"]
  /\ client = [c \in Conn |-> "none"]
  /\ inbox = [c \in Conn |-> << >>]
  /\ reply = [c \in Conn |-> << >>]
  /\ snapshot = [c \in Conn |-> NULL]

-----------------------------------------------------------------------------
(* Clients.                                                                *)

Listening == main \in {"test", "log", "accept", "register", "stuck"}

Connect(c) ==
  /\ Listening /\ client[c] = "none"
  /\ client' = [client EXCEPT ![c] = "connected"]
  /\ socket' = [socket EXCEPT ![c] = "backlog"]
  /\ UNCHANGED <<mainVars, file_mutex, pc, is_open, ioVars, device, inbox>>

Send(c, m) ==
  /\ client[c] = "connected" /\ Len(inbox[c]) < MAX_MESSAGES
  /\ socket[c] \in {"backlog", "open"}
  /\ inbox' = [inbox EXCEPT ![c] = Append(@, m)]
  /\ UNCHANGED <<mainVars, file_mutex, pc, is_open, ioVars, device, socket, client>>

\* The client stops sending, goes away, or aborts the connection.
Leave(c, how) ==
  /\ \/ client[c] = "connected"
     \/ client[c] = "half_closed" /\ how # "half_closed"
  /\ client' = [client EXCEPT ![c] = how]
  /\ inbox' = [inbox EXCEPT ![c] = IF how = "reset" THEN << >> ELSE @]
  /\ UNCHANGED <<mainVars, file_mutex, pc, is_open, ioVars, device, socket>>

-----------------------------------------------------------------------------
(* The main thread.                                                        *)

MainGoto(label) ==
  /\ main' = label
  /\ UNCHANGED <<file_mutex, is_open, ioVars, device, netVars>>

\* A step of the start-up: it succeeds, or the program exits.
Start(from, to) ==
  /\ main = from
  /\ MainGoto(to) \/ ("startup" \in Faults /\ MainGoto("exited"))
  /\ UNCHANGED <<accepted, exit_program, close_connections, connection_ctx_list, blocked, pc, socket>>

\* sigaction, and fork with -d: the daemon is the process that goes on, also
\* when setsid or chdir fail.  Then connection_manager_create.
main_setup == Start("setup", "create")

\* The first address that socket, setsockopt and bind accept; failures close
\* the socket and go on to the next address.
tcp_server_create == Start("create", "listen")

\* listen fails: the server is destroyed.
tcp_server_listen_for_connections == Start("listen", "test")

\* while (!exit_program)
main_test ==
  /\ main = "test"
  /\ MainGoto(IF exit_program THEN "leave" ELSE "log")
  /\ UNCHANGED <<accepted, exit_program, close_connections, connection_ctx_list, blocked, pc, socket>>

\* printf and syslog, up to the accept system call.
main_log ==
  /\ main = "log"
  /\ MainGoto("accept")
  /\ UNCHANGED <<accepted, exit_program, close_connections, connection_ctx_list, blocked, pc, socket>>

\* accept returns a connection, for which tcp_connection_create succeeds.
tcp_server_accept_connection(c) ==
  /\ main = "accept" /\ socket[c] = "backlog"
  /\ main' = "register" /\ accepted' = c
  /\ socket' = [socket EXCEPT ![c] = "open"]
  /\ is_open' = [is_open EXCEPT ![c] = TRUE]
  /\ UNCHANGED <<exit_program, close_connections, connection_ctx_list, blocked, file_mutex, pc,
                 ioVars, device, netVars>>

\* accept fails, or tcp_connection_create does and the socket is closed.
tcp_server_accept_fails ==
  /\ main = "accept" /\ "accept" \in Faults
  /\ MainGoto("test")
  /\ \/ UNCHANGED socket
     \/ \E c \in Conn : socket[c] = "backlog" /\ socket' = [socket EXCEPT ![c] = "closed"]
  /\ UNCHANGED <<accepted, exit_program, close_connections, connection_ctx_list, blocked, pc>>

connection_manager_register_connection(c) ==
  /\ main = "register" /\ accepted = c
  /\ main' = "test" /\ accepted' = NULL
  /\ \/ /\ pc' = [pc EXCEPT ![c] = "loop"]
        /\ connection_ctx_list' = SLIST_INSERT_HEAD(connection_ctx_list, c)
     \/ /\ "pthread_create" \in Faults
        /\ UNCHANGED <<pc, connection_ctx_list>>
  /\ UNCHANGED <<exit_program, close_connections, blocked, file_mutex, is_open, ioVars, device, socket,
                 netVars>>

\* tcp_server_destroy (connections nobody accepted are refused), then the
\* first assignment of connection_manager_destroy.
main_leave ==
  /\ main = "leave"
  /\ MainGoto("join")
  /\ close_connections' = TRUE
  /\ socket' = [c \in Conn |-> IF socket[c] = "backlog" THEN "closed" ELSE socket[c]]
  /\ UNCHANGED <<accepted, exit_program, connection_ctx_list, blocked, pc>>

ThreadEnded(c) == pc[c] = "done"

\* pthread_join of the list's head, SLIST_REMOVE_HEAD and free.
connection_manager_join ==
  /\ main = "join" /\ ~SLIST_EMPTY(connection_ctx_list)
  /\ ThreadEnded(SLIST_FIRST(connection_ctx_list))
  /\ MainGoto("join")
  /\ connection_ctx_list' = SLIST_REMOVE_HEAD(connection_ctx_list)
  /\ UNCHANGED <<accepted, exit_program, close_connections, blocked, pc, socket>>

\* The rest of connection_manager_destroy: the mutex and the manager go away.
connection_manager_free ==
  /\ main = "join" /\ SLIST_EMPTY(connection_ctx_list)
  /\ main' = "teardown" /\ file_mutex' = "destroyed"
  /\ UNCHANGED <<accepted, exit_program, close_connections, connection_ctx_list, blocked, pc,
                 is_open, ioVars, device, socket, netVars>>

teardown ==
  /\ main = "teardown"
  /\ MainGoto("exited")
  /\ UNCHANGED <<accepted, exit_program, close_connections, connection_ctx_list, blocked, pc, socket>>

\* Where the main thread calls syslog, among other things.
CallsSyslog == {"log", "register"}

\* The main thread takes the signal: no thread blocks it, and the kernel
\* prefers the main thread.  (Before setup has installed the handler a signal
\* just ends the process.)  accept returns with EINTR (no SA_RESTART).  The
\* handler calls syslog, which never returns if it has interrupted syslog.
signal_handler ==
  /\ Alive /\ main \notin {"setup", "stuck"}
  /\ \/ main = "accept" /\ main' = "test" /\ exit_program' = TRUE
     \/ main # "accept" /\ main' = main /\ exit_program' = TRUE
     \/ /\ "syslog" \in Faults /\ main \in CallsSyslog
        /\ main' = "stuck" /\ UNCHANGED exit_program
  /\ UNCHANGED <<accepted, close_connections, connection_ctx_list, blocked, file_mutex, pc,
                 is_open, ioVars, device, socket, netVars>>

-----------------------------------------------------------------------------
(* A worker: thread_routine.                                               *)

\* syslog's lock is held for ever once the main thread is stuck in it.
SyslogReturns == main # "stuck"

\* The main thread's handler has not returned, so that the next signal goes
\* to a worker, whose handler waits in syslog for ever.
signal_in_worker(c) ==
  /\ main = "stuck" /\ pc[c] \notin {"none", "done"} /\ c \notin blocked
  /\ blocked' = blocked \cup {c}
  /\ UNCHANGED <<main, accepted, exit_program, close_connections, connection_ctx_list,
                 file_mutex, pc, is_open, ioVars, device, socket, netVars>>

Step(c, from, to) ==
  /\ Alive /\ c \notin blocked
  /\ pc[c] = from /\ pc' = [pc EXCEPT ![c] = to]
  /\ UNCHANGED mainVars

\* while (tcp_connection_is_open(connection) && !close_connections)
thread_test(c) ==
  /\ Step(c, "loop", IF is_open[c] /\ ~close_connections THEN "recv" ELSE "exit")
  /\ UNCHANGED <<file_mutex, is_open, ioVars, device, socket, netVars>>

\* A line arrives.
tcp_connection_receive_message(c) ==
  /\ Step(c, "recv", "fopen") /\ inbox[c] # << >>
  /\ message' = [message EXCEPT ![c] = Head(inbox[c])]
  /\ inbox' = [inbox EXCEPT ![c] = Tail(@)]
  /\ UNCHANGED <<file_mutex, is_open, f_pos, chunk, reply, snapshot, device, socket, client>>

\* recv returns 0: the peer will send no more.
tcp_connection_receive_eof(c) ==
  /\ Step(c, "recv", "loop") /\ inbox[c] = << >>
  /\ client[c] \in {"half_closed", "closed"}
  /\ message' = [message EXCEPT ![c] = NULL]
  /\ is_open' = [is_open EXCEPT ![c] = FALSE]
  /\ UNCHANGED <<file_mutex, f_pos, chunk, reply, snapshot, device, socket, netVars>>

\* recv fails with ECONNRESET, which the socket reports once; is_open stays.
tcp_connection_receive_error(c) ==
  /\ Step(c, "recv", "loop") /\ client[c] = "reset"
  /\ message' = [message EXCEPT ![c] = NULL]
  /\ client' = [client EXCEPT ![c] = "closed"]
  /\ UNCHANGED <<file_mutex, is_open, f_pos, chunk, reply, snapshot, device, socket, inbox>>

thread_fopen(c) ==
  /\ Step(c, "fopen", "lock")
  /\ f_pos' = [f_pos EXCEPT ![c] = 0]
  /\ UNCHANGED <<file_mutex, is_open, message, chunk, reply, snapshot, device, socket, netVars>>

thread_fopen_fails(c) ==
  /\ Step(c, "fopen", "nofile") /\ "fopen" \in Faults
  /\ UNCHANGED <<file_mutex, is_open, ioVars, device, socket, netVars>>

\* The syslog of a failure: of fopen, then `continue'; or of handle_message,
\* with file_mutex held.
thread_log(c) ==
  /\ SyslogReturns
  /\ Step(c, "nofile", "loop") \/ Step(c, "syslog", "unlock")
  /\ UNCHANGED <<file_mutex, is_open, ioVars, device, socket, netVars>>

MutexFree(c) == file_mutex = NULL

thread_lock(c) ==
  /\ Step(c, "lock", "handle") /\ MutexFree(c)
  /\ file_mutex' = c
  /\ UNCHANGED <<is_open, ioVars, device, socket, netVars>>

\* The ioctl: the position moves, or the line is refused.
handle_seek(c) ==
  LET new_fpos == SeekPosition(log, message[c])
  IN  /\ pc[c] = "handle" /\ message[c].op = "seek"
      /\ \/ /\ SeekIsValid(log, message[c]) /\ Step(c, "handle", "read")
            /\ f_pos' = [f_pos EXCEPT ![c] = new_fpos]
            /\ snapshot' = [snapshot EXCEPT ![c] =
                              SubSeq(Stream(log), new_fpos + 1, Len(Stream(log)))]
         \/ /\ ~SeekIsValid(log, message[c]) /\ Step(c, "handle", "syslog")
            /\ UNCHANGED <<f_pos, snapshot>>
      /\ UNCHANGED <<file_mutex, is_open, message, chunk, reply, device, socket, netVars>>

Line(m) == Append(m.text, NewLine)

\* fprintf(fd, "%s\n", message): stdio writes what does not fit its buffer.
handle_text(c) ==
  /\ pc[c] = "handle" /\ message[c].op = "text" /\ Step(c, "handle", "write")
  /\ chunk' = [chunk EXCEPT ![c] = Line(message[c])]
  /\ UNCHANGED <<file_mutex, is_open, message, f_pos, reply, snapshot, device, socket, netVars>>

LastPiece(c) == Len(chunk[c]) <= STDIO_SIZE
Unwritten(c) == SubSeq(chunk[c], STDIO_SIZE + 1, Len(chunk[c]))

\* A write(2) by fprintf or, for what is left in the buffer, by fflush.
stdio_write(c) ==
  LET new == DeviceWrite(SubSeq(chunk[c], 1, Min({STDIO_SIZE, Len(chunk[c])})))
  IN  /\ Step(c, "write", IF LastPiece(c) THEN "read" ELSE "write")
      /\ log' = new.log /\ partial' = new.partial
      /\ chunk' = [chunk EXCEPT ![c] = Unwritten(c)]
      /\ snapshot' = [snapshot EXCEPT ![c] = IF LastPiece(c) THEN Stream(new.log) ELSE NULL]
      /\ UNCHANGED <<file_mutex, is_open, message, f_pos, reply, socket, netVars>>

\* It fails, and stdio drops what it has: fprintf returns -1, and the line is
\* refused; fflush's result is ignored, and the line is answered.
stdio_write_fails(c) ==
  /\ Step(c, "write", IF LastPiece(c) THEN "read" ELSE "syslog")
  /\ "write" \in Faults /\ Len(Stream(log) \o partial) <= MAX_HELD
  /\ chunk' = [chunk EXCEPT ![c] = << >>]
  /\ snapshot' = [snapshot EXCEPT ![c] = IF LastPiece(c) THEN Stream(log) ELSE NULL]
  /\ UNCHANGED <<file_mutex, is_open, message, f_pos, reply, device, socket, netVars>>

\* read(2) of tcp_connection_send_file; 0 ends its loop.
send_file_read(c) ==
  LET data == DeviceRead(f_pos[c])
  IN  /\ Step(c, "read", IF data = << >> THEN "unlock" ELSE "send")
      /\ chunk' = [chunk EXCEPT ![c] = data]
      /\ f_pos' = [f_pos EXCEPT ![c] = @ + Len(data)]
      /\ UNCHANGED <<file_mutex, is_open, message, reply, snapshot, device, socket, netVars>>

\* send(2) succeeds; to a client that is gone it may, once.
tcp_connection_send_message(c) ==
  /\ Step(c, "send", "read")
  /\ reply' = [reply EXCEPT ![c] = @ \o chunk[c]]
  /\ chunk' = [chunk EXCEPT ![c] = << >>]
  /\ UNCHANGED <<file_mutex, is_open, message, f_pos, snapshot, device, socket, netVars>>

\* send(2) returns -1: the rest of the file is not sent.
tcp_connection_send_fails(c) ==
  /\ Step(c, "send", "unlock") /\ client[c] \in {"closed", "reset"}
  /\ UNCHANGED <<file_mutex, is_open, ioVars, device, socket, netVars>>

\* send(2) with no MSG_NOSIGNAL raises SIGPIPE, which nothing handles.
send_sigpipe(c) ==
  /\ Alive /\ pc[c] = "send" /\ c \notin blocked
  /\ client[c] \in {"closed", "reset"} /\ "send" \in Faults
  /\ main' = "killed"
  /\ UNCHANGED <<accepted, exit_program, close_connections, connection_ctx_list, blocked,
                 file_mutex, pc, is_open, ioVars, device, socket, netVars>>

OwnerAfterUnlock(c) == NULL

\* pthread_mutex_unlock, free(message) and fclose.
thread_unlock(c) ==
  /\ Step(c, "unlock", "loop")
  /\ file_mutex' = OwnerAfterUnlock(c)
  /\ message' = [message EXCEPT ![c] = NULL]
  /\ f_pos' = [f_pos EXCEPT ![c] = NULL]
  /\ chunk' = [chunk EXCEPT ![c] = << >>]
  /\ reply' = [reply EXCEPT ![c] = << >>]
  /\ snapshot' = [snapshot EXCEPT ![c] = NULL]
  /\ UNCHANGED <<is_open, device, socket, netVars>>

SocketAfterDestroy(c) == "closed"

\* syslog, tcp_connection_destroy and the end of the thread.
thread_exit(c) ==
  /\ Step(c, "exit", "done") /\ SyslogReturns
  /\ socket' = [socket EXCEPT ![c] = SocketAfterDestroy(c)]
  /\ UNCHANGED <<file_mutex, is_open, ioVars, device, netVars>>

-----------------------------------------------------------------------------

Main ==
  \/ main_setup \/ tcp_server_create \/ tcp_server_listen_for_connections
  \/ main_test \/ main_log \/ main_leave
  \/ connection_manager_join \/ connection_manager_free \/ teardown
  \/ \E c \in Conn : tcp_server_accept_connection(c)
                     \/ connection_manager_register_connection(c)

Worker(c) ==
  \/ thread_test(c) \/ tcp_connection_receive_message(c)
  \/ tcp_connection_receive_eof(c) \/ tcp_connection_receive_error(c)
  \/ thread_fopen(c) \/ handle_text(c) \/ stdio_write(c) \/ handle_seek(c)
  \/ send_file_read(c) \/ tcp_connection_send_message(c)
  \/ thread_log(c) \/ thread_unlock(c) \/ thread_exit(c)

Next ==
  \/ Main \/ tcp_server_accept_fails \/ signal_handler
  \/ \E c \in Conn :
       \/ Connect(c)
       \/ \E m \in Message : Send(c, m)
       \/ \E how \in LeaveBy : Leave(c, how)
       \/ Worker(c) \/ thread_lock(c) \/ signal_in_worker(c)
       \/ thread_fopen_fails(c) \/ stdio_write_fails(c)
       \/ tcp_connection_send_fails(c) \/ send_sigpipe(c)

Spec == Init /\ [][Next]_vars

(* Every thread keeps running and gets the mutex sooner or later, and      *)
(* clients read what they are sent (WF of Worker includes send).           *)
ThreadFairness ==
  /\ WF_vars(Main)
  /\ \A c \in Conn : WF_vars(Worker(c)) /\ SF_vars(thread_lock(c))

(* Clients do not stay connected for ever.                                 *)
ClientFairness == \A c \in Conn : WF_vars(Leave(c, "closed"))

FairSpec == Spec /\ ThreadFairness
PatientSpec == FairSpec /\ ClientFairness

-----------------------------------------------------------------------------
(* Properties                                                              *)

(* Every variable of the program has its type.                             *)
TypeOK ==
  /\ main \in {"setup", "create", "listen", "test", "log", "accept", "register", "leave",
               "join", "teardown", "exited", "killed", "stuck"}
  /\ accepted \in Conn \cup {NULL}
  /\ exit_program \in BOOLEAN /\ close_connections \in BOOLEAN
  /\ connection_ctx_list \in Seq(Conn) /\ blocked \subseteq Conn
  /\ file_mutex \in Conn \cup {NULL, "destroyed"}
  /\ pc \in [Conn -> {"none", "loop", "recv", "fopen", "nofile", "lock", "handle", "write",
                      "syslog", "read", "send", "unlock", "exit", "done"}]
  /\ is_open \in [Conn -> BOOLEAN]
  /\ message \in [Conn -> Message \cup {NULL}]
  /\ f_pos \in [Conn -> Nat \cup {NULL}]
  /\ log \in Seq(Seq(Bytes)) /\ Len(log) <= MAX_OPS /\ partial \in Seq(Bytes)
  /\ socket \in [Conn -> {"none", "backlog", "open", "closed"}]
  /\ client \in [Conn -> {"none", "connected", "half_closed", "closed", "reset"}]
  /\ inbox \in [Conn -> Seq(Message)]
  /\ chunk \in [Conn -> Seq(Bytes)] /\ reply \in [Conn -> Seq(Bytes)]
  /\ snapshot \in [Conn -> Seq(Bytes) \cup {NULL}]

(* Nothing is used after it was freed: as long as a worker runs, its       *)
(* connection_ctx is in the manager's list (connection_manager_destroy     *)
(* frees it only after pthread_join) and file_mutex exists; and no thread  *)
(* is joined, no context freed twice.                                      *)
WorkersOutliveNothing ==
  /\ IsInjective(connection_ctx_list)
  /\ \A c \in Conn : pc[c] \notin {"none", "done"} =>
       c \in Range(connection_ctx_list) /\ file_mutex # "destroyed" /\ socket[c] = "open"

(* file_mutex is held by the worker that is using the device, and by it    *)
(* alone.                                                                  *)
MutexDiscipline ==
  \A c \in Conn :
    file_mutex = c <=> pc[c] \in {"handle", "write", "syslog", "read", "send", "unlock"}

(* Every socket the server has open is some thread's to close: the main    *)
(* thread's until it is registered, then its worker's.  The one exception  *)
(* is a connection whose pthread_create failed (main ignores the result of *)
(* register_connection), so no socket of a worker that ran is ever lost.   *)
SocketsAreOwned ==
  \A c \in Conn : socket[c] = "open" =>
    \/ accepted = c
    \/ pc[c] \notin {"none", "done"}
    \/ pc[c] = "none" /\ "pthread_create" \in Faults

(* "return false in case of error" (tcp_connection.h:50): an error of      *)
(* send is reported to its caller, and the server goes on.                 *)
SendErrorsAreReported == main # "killed"

\* The signal handler has stopped the main thread inside syslog, and worker c
\* too, or the worker that holds file_mutex and needs syslog.
SyslogDeadlock(c) ==
  /\ main = "stuck"
  /\ \/ c \in blocked \/ pc[c] = "syslog"
     \/ file_mutex \in blocked
     \/ file_mutex \in Conn /\ pc[file_mutex] = "syslog"

(* A line that was received is handled and the worker returns to its loop, *)
(* however many other workers want the mutex.  A signal that interrupts    *)
(* the main thread's syslog (main.c:175) can stop it, but only through     *)
(* SyslogDeadlock: otherwise workers keep serving although the main thread *)
(* never runs again.                                                       *)
LinesAreHandled ==
  \A c \in Conn : pc[c] = "lock" ~> pc[c] = "loop" \/ ~Alive \/ SyslogDeadlock(c)

(* A shutdown that has begun ends: if clients do not stay connected for    *)
(* ever, every worker is joined, whatever it was doing.                    *)
ShutdownEnds == ClientFairness => (main = "leave" ~> ~Alive)

(* exit_program is the "flag to exit the program" (server/src/main.c:32):  *)
(* once a signal has set it the program exits.                             *)
SignalEndsProgram == exit_program ~> ~Alive

-----------------------------------------------------------------------------
(* The server as its clients see it.                                       *)

Phase(c) ==
  CASE pc[c] \in {"fopen", "nofile", "lock", "handle", "write"} -> "asked"
    [] pc[c] = "syslog" \/ (pc[c] = "unlock" /\ snapshot[c] = NULL) -> "refused"
    [] pc[c] \in {"read", "send", "unlock"} /\ snapshot[c] # NULL -> "answering"
    [] OTHER -> "idle"

\* What the device holds besides commands and besides the line being written.
Junk ==
  LET written == {Len(Line(message[c])) - Len(chunk[c]) : c \in {d \in Conn : pc[d] = "write"}}
  IN  SubSeq(partial, 1, Len(partial) - Max(written \cup {0}))

Abstract == INSTANCE LineServer WITH
  Capacity <- MAX_OPS, junk <- Junk,
  phase <- [c \in Conn |-> Phase(c)],
  request <- [c \in Conn |-> IF Phase(c) = "idle" THEN NULL ELSE message[c]],
  answer <- snapshot, sent <- reply,
  gone <- [c \in Conn |-> client[c] \in {"closed", "reset"}]

(* The threaded server implements LineServer.  Each line takes effect at   *)
(* once and entirely, although stdio may write it in pieces and other      *)
(* workers run meanwhile; only when a write fails may a part of it stay    *)
(* behind, in front of whatever line the device is sent next.  The answer  *)
(* is one consistent picture of the device, although it is read command by *)
(* command: exactly what the device held when the line was handled, from   *)
(* the start or from the byte AESDCHAR_IOCSEEKTO named.                    *)
ImplementsLineServer == Abstract!Spec

=============================================================================
