--------------------------- MODULE AesdSocketProofs ---------------------------
(***************************************************************************)
(* Proofs about AesdSocket, for any number of connections and any faults:  *)
(* the mutex, the life of the workers' contexts, who closes a socket, and  *)
(* that what clients see is LineServer.                                    *)
(***************************************************************************)
EXTENDS AesdSocket, SequenceLemmas, TLAPS

Running(c) == pc[c] \notin {"none", "done"}
Outside == {"loop", "recv", "fopen", "nofile", "lock", "exit"}
Critical == {"handle", "write", "syslog", "read", "send", "unlock"}

\* The variables the argument is about, and their types.
TypeInv ==
  /\ accepted \in Conn \cup {NULL}
  /\ connection_ctx_list \in Seq(Conn)
  /\ file_mutex \in Conn \cup {NULL, "destroyed"}
  /\ pc \in [Conn -> Outside \cup Critical \cup {"none", "done"}]
  /\ socket \in [Conn -> {"none", "backlog", "open", "closed"}]
  /\ client \in [Conn -> {"none", "connected", "half_closed", "closed", "reset"}]

\* The list: one context for each worker that was started and not yet joined.
ListInv ==
  /\ \A i, j \in 1 .. Len(connection_ctx_list) :
       connection_ctx_list[i] = connection_ctx_list[j] => i = j
  /\ \A i \in 1 .. Len(connection_ctx_list) : pc[connection_ctx_list[i]] # "none"
  /\ \A c \in Conn : Running(c) =>
       \E i \in 1 .. Len(connection_ctx_list) : connection_ctx_list[i] = c

\* A connection before it has a worker.
YoungInv ==
  \A c \in Conn :
    /\ client[c] = "none" => socket[c] = "none"
    /\ socket[c] \in {"none", "backlog"} => pc[c] = "none"
    /\ accepted = c => socket[c] = "open" /\ pc[c] = "none"

\* Where the main thread is while it holds a connection, and at the end.
MainInv ==
  /\ accepted # NULL => main \in {"register", "stuck", "killed"}
  /\ file_mutex = "destroyed" =>
       main \in {"teardown", "exited"} /\ connection_ctx_list = << >>

WorkerInv == \A c \in Conn : Running(c) => socket[c] = "open"

IndInv ==
  /\ TypeInv /\ ListInv /\ YoungInv /\ MainInv /\ WorkerInv
  /\ MutexDiscipline /\ SocketsAreOwned

LEMMA InitInd == Init => IndInv
<1> SUFFICES ASSUME Init PROVE IndInv
  OBVIOUS
<1>2. NULL \notin Conn /\ NULL # "destroyed"
  BY SocketAssumption
<1>3. TypeInv
  BY DEF Init, TypeInv, SLIST_INIT
<1>4. ListInv
  BY DEF Init, ListInv, SLIST_INIT, Running
<1>5. YoungInv /\ MainInv /\ WorkerInv
  BY <1>2 DEF Init, YoungInv, MainInv, WorkerInv, Running
<1>6. MutexDiscipline /\ SocketsAreOwned
  BY <1>2 DEF Init, MutexDiscipline, SocketsAreOwned
<1> QED
  BY <1>3, <1>4, <1>5, <1>6 DEF IndInv

\* A step that changes at most the main thread's place, within limits.
LEMMA MainFrame ==
  ASSUME IndInv,
         UNCHANGED <<accepted, connection_ctx_list, file_mutex, pc, socket, client>>,
         accepted # NULL => main' \in {"register", "stuck", "killed"},
         file_mutex = "destroyed" => main' \in {"teardown", "exited"}
  PROVE  IndInv'
  BY DEF IndInv, TypeInv, ListInv, YoungInv, MainInv, WorkerInv, MutexDiscipline,
     SocketsAreOwned, Running

\* A worker's step that does not take it into the critical section or out of
\* it; all but three of its steps are of this kind.
WorkerMove(c) ==
  /\ pc' = [pc EXCEPT ![c] = pc'[c]]
  /\ \/ pc[c] \in Outside /\ pc'[c] \in Outside
     \/ pc[c] \in Critical /\ pc'[c] \in Critical
  /\ UNCHANGED <<mainVars, file_mutex, socket>>
  /\ client' = client \/ client' = [client EXCEPT ![c] = "closed"]

LEMMA WorkerFrame ==
  ASSUME IndInv, NEW c \in Conn, WorkerMove(c)
  PROVE  IndInv'
<1> USE DEF IndInv, mainVars, Outside, Critical
<1>0. /\ pc' = [pc EXCEPT ![c] = pc'[c]]
      /\ \/ pc[c] \in Outside /\ pc'[c] \in Outside
         \/ pc[c] \in Critical /\ pc'[c] \in Critical
  BY DEF WorkerMove
<1>u. /\ UNCHANGED <<mainVars, file_mutex, socket>>
      /\ client' = client \/ client' = [client EXCEPT ![c] = "closed"]
  BY DEF WorkerMove
<1>1. /\ Running(c) /\ Running(c)'
      /\ pc \in [Conn -> Outside \cup Critical \cup {"none", "done"}]
  BY <1>0 DEF TypeInv, Running
<1>2. \A d \in Conn : Running(d)' <=> Running(d)
  BY <1>0, <1>1 DEF Running
<1>3. TypeInv'
  BY <1>0, <1>1, <1>u DEF TypeInv
<1>4. ListInv'
  BY <1>0, <1>1, <1>2, <1>u DEF ListInv, TypeInv
<1>5. YoungInv'
  BY <1>0, <1>1, <1>u DEF YoungInv, TypeInv, Running
<1>6. MainInv' /\ WorkerInv'
  BY <1>2, <1>u DEF MainInv, WorkerInv
<1>7. MutexDiscipline'
  BY <1>0, <1>1, <1>u DEF MutexDiscipline
<1>8. SocketsAreOwned'
  BY <1>0, <1>1, <1>u DEF SocketsAreOwned, Running
<1> QED
  BY <1>3, <1>4, <1>5, <1>6, <1>7, <1>8

LEMMA WorkerMoves ==
  ASSUME TypeInv, NEW c \in Conn,
         \/ thread_test(c) \/ tcp_connection_receive_message(c)
         \/ tcp_connection_receive_eof(c) \/ tcp_connection_receive_error(c)
         \/ thread_fopen(c) \/ thread_fopen_fails(c) \/ thread_log(c)
         \/ handle_seek(c) \/ handle_text(c) \/ stdio_write(c) \/ stdio_write_fails(c)
         \/ send_file_read(c) \/ tcp_connection_send_message(c)
         \/ tcp_connection_send_fails(c)
  PROVE  WorkerMove(c)
<1> USE DEF WorkerMove, Step, Outside, Critical, netVars
<1>0. c \in DOMAIN pc
  BY DEF TypeInv
<1>1. CASE thread_test(c)
  BY <1>0, <1>1 DEF thread_test
<1>2. CASE tcp_connection_receive_message(c)
  BY <1>0, <1>2 DEF tcp_connection_receive_message
<1>3. CASE tcp_connection_receive_eof(c)
  BY <1>0, <1>3 DEF tcp_connection_receive_eof
<1>4. CASE tcp_connection_receive_error(c)
  BY <1>0, <1>4 DEF tcp_connection_receive_error
<1>5. CASE thread_fopen(c)
  BY <1>0, <1>5 DEF thread_fopen
<1>6. CASE thread_fopen_fails(c)
  BY <1>0, <1>6 DEF thread_fopen_fails
<1>7. CASE thread_log(c)
  BY <1>0, <1>7 DEF thread_log
<1>8. CASE handle_seek(c)
  BY <1>0, <1>8 DEF handle_seek
<1>9. CASE handle_text(c)
  BY <1>0, <1>9 DEF handle_text
<1>10. CASE stdio_write(c)
  BY <1>0, <1>10 DEF stdio_write
<1>11. CASE stdio_write_fails(c)
  BY <1>0, <1>11 DEF stdio_write_fails
<1>12. CASE send_file_read(c)
  BY <1>0, <1>12 DEF send_file_read
<1>13. CASE tcp_connection_send_message(c)
  BY <1>0, <1>13 DEF tcp_connection_send_message
<1>14. CASE tcp_connection_send_fails(c)
  BY <1>0, <1>14 DEF tcp_connection_send_fails
<1> QED
  BY <1>1, <1>2, <1>3, <1>4, <1>5, <1>6, <1>7, <1>8, <1>9, <1>10, <1>11, <1>12, <1>13, <1>14

\* Steps that change the main thread's place at most.
LEMMA MainSteps ==
  ASSUME IndInv,
         \/ main_setup \/ tcp_server_create \/ tcp_server_listen_for_connections
         \/ main_test \/ main_log \/ teardown \/ signal_handler
         \/ \E c \in Conn : signal_in_worker(c) \/ send_sigpipe(c) \/ \E m \in Message : Send(c, m)
  PROVE  IndInv'
<1> USE DEF MainGoto, Start, netVars
<1>m. /\ accepted # NULL => main \in {"register", "stuck", "killed"}
      /\ file_mutex = "destroyed" => main \in {"teardown", "exited"}
  BY DEF IndInv, MainInv
<1>1. CASE main_setup \/ tcp_server_create \/ tcp_server_listen_for_connections
  BY <1>1, <1>m, MainFrame DEF main_setup, tcp_server_create, tcp_server_listen_for_connections
<1>2. CASE main_test \/ main_log \/ teardown
  BY <1>2, <1>m, MainFrame DEF main_test, main_log, teardown
<1>3. CASE signal_handler
  BY <1>3, <1>m, MainFrame DEF signal_handler, CallsSyslog
<1>4. CASE \E c \in Conn : signal_in_worker(c) \/ \E m \in Message : Send(c, m)
  BY <1>4, <1>m, MainFrame DEF signal_in_worker, Send, mainVars
<1>5. ASSUME NEW c \in Conn, send_sigpipe(c) PROVE IndInv'
  <2>1. file_mutex # "destroyed"
    BY <1>5, SocketAssumption DEF IndInv, MutexDiscipline, send_sigpipe
  <2> QED
    BY <1>5, <2>1, MainFrame DEF send_sigpipe
<1> QED
  BY <1>1, <1>2, <1>3, <1>4, <1>5

LEMMA ConnectStep ==
  ASSUME IndInv, NEW c \in Conn, Connect(c)
  PROVE  IndInv'
<1> USE DEF IndInv, Connect, mainVars
<1>1. pc[c] = "none" /\ accepted # c
  BY DEF YoungInv
<1>2. TypeInv' /\ ListInv' /\ MainInv' /\ MutexDiscipline'
  BY DEF TypeInv, ListInv, MainInv, MutexDiscipline, Running
<1>3. YoungInv'
  BY <1>1 DEF YoungInv, TypeInv
<1>4. WorkerInv' /\ SocketsAreOwned'
  BY <1>1 DEF WorkerInv, SocketsAreOwned, TypeInv, Running
<1> QED
  BY <1>2, <1>3, <1>4

LEMMA LeaveStep ==
  ASSUME IndInv, NEW c \in Conn, NEW how \in LeaveBy, Leave(c, how)
  PROVE  IndInv'
<1> USE DEF IndInv, Leave, mainVars
<1>0. how \in {"half_closed", "closed", "reset"}
  BY SocketAssumption
<1>1. TypeInv' /\ YoungInv'
  BY <1>0 DEF TypeInv, YoungInv
<1> QED
  BY <1>1 DEF ListInv, MainInv, MutexDiscipline, WorkerInv, SocketsAreOwned, Running

LEMMA AcceptStep ==
  ASSUME IndInv, NEW c \in Conn, tcp_server_accept_connection(c)
  PROVE  IndInv'
<1> USE DEF IndInv, tcp_server_accept_connection, netVars
<1>1. pc[c] = "none"
  BY DEF YoungInv
<1>2. TypeInv' /\ ListInv' /\ MainInv' /\ MutexDiscipline'
  BY DEF TypeInv, ListInv, MainInv, MutexDiscipline, Running
<1>3. YoungInv'
  BY <1>1 DEF YoungInv, TypeInv
<1>4. WorkerInv' /\ SocketsAreOwned'
  <2>1. accepted = NULL /\ NULL \notin Conn
    BY SocketAssumption DEF MainInv
  <2> QED
    BY <1>1, <2>1 DEF WorkerInv, SocketsAreOwned, TypeInv, Running
<1> QED
  BY <1>2, <1>3, <1>4

\* Sockets in the backlog are closed, by accept's error path or at the end.
LEMMA CloseStep ==
  ASSUME IndInv, tcp_server_accept_fails \/ main_leave
  PROVE  IndInv'
<1> USE DEF IndInv, tcp_server_accept_fails, main_leave, MainGoto, netVars
<1>1. \A c \in Conn : socket'[c] = socket[c] \/ (socket[c] = "backlog" /\ socket'[c] = "closed")
  BY DEF TypeInv
<1>2. socket' \in [Conn -> {"none", "backlog", "open", "closed"}]
  BY DEF TypeInv
<1>3. TypeInv' /\ ListInv' /\ MainInv' /\ MutexDiscipline'
  BY <1>2 DEF TypeInv, ListInv, MainInv, MutexDiscipline, Running
<1>4. YoungInv' /\ WorkerInv' /\ SocketsAreOwned'
  BY <1>1 DEF YoungInv, WorkerInv, SocketsAreOwned, Running
<1> QED
  BY <1>3, <1>4

LEMMA RemoveHead ==
  ASSUME NEW S, NEW list \in Seq(S), ~SLIST_EMPTY(list)
  PROVE  /\ SLIST_REMOVE_HEAD(list) \in Seq(S)
         /\ Len(SLIST_REMOVE_HEAD(list)) = Len(list) - 1
         /\ \A i \in 1 .. Len(list) - 1 : SLIST_REMOVE_HEAD(list)[i] = list[i + 1]
         /\ SLIST_FIRST(list) = list[1] /\ Len(list) \in Nat \ {0}
  BY DEF SLIST_EMPTY, SLIST_REMOVE_HEAD, SLIST_FIRST

LEMMA RegisterStep ==
  ASSUME IndInv, NEW c \in Conn, connection_manager_register_connection(c)
  PROVE  IndInv'
<1> USE DEF IndInv, connection_manager_register_connection, netVars
<1> DEFINE list == connection_ctx_list
<1>1. /\ pc[c] = "none" /\ socket[c] = "open" /\ NULL \notin Conn
      /\ file_mutex # "destroyed" /\ file_mutex # c
  BY SocketAssumption DEF YoungInv, MainInv, MutexDiscipline
<1>2. CASE pc' = [pc EXCEPT ![c] = "loop"] /\ list' = SLIST_INSERT_HEAD(list, c)
  <2>1. /\ list' \in Seq(Conn) /\ Len(list') = Len(list) + 1 /\ list'[1] = c
        /\ \A i \in 1 .. Len(list) : list'[i + 1] = list[i]
        /\ \A i \in 2 .. Len(list) + 1 : list'[i] = list[i - 1]
        /\ Len(list) \in Nat /\ \A i \in 1 .. Len(list) : list[i] \in Conn
    <3>1. list \in Seq(Conn)
      BY DEF TypeInv
    <3>2. /\ Len(list) \in Nat /\ \A i \in 1 .. Len(list) : list[i] \in Conn
      BY <3>1
    <3> HIDE DEF IndInv, connection_manager_register_connection
    <3> DEFINE new == SLIST_INSERT_HEAD(list, c)
    <3>3. /\ new \in Seq(Conn) /\ Len(new) = Len(list) + 1 /\ new[1] = c
          /\ \A i \in 1 .. Len(list) : new[i + 1] = list[i]
          /\ \A i \in 2 .. Len(list) + 1 : new[i] = list[i - 1]
      BY <3>1 DEF SLIST_INSERT_HEAD
    <3>4. list' = new
      BY <1>2
    <3> HIDE DEF new
    <3> QED
      BY <3>2, <3>3, <3>4
  <2>2. \A i \in 1 .. Len(list) : list[i] # c
    BY <1>1 DEF ListInv
  <2>3. TypeInv'
    BY <1>2, <2>1 DEF TypeInv, Outside
  <2>4. ListInv'
    <3>1. ASSUME NEW i \in 1 .. Len(list'), NEW j \in 1 .. Len(list'), list'[i] = list'[j]
          PROVE  i = j
      <4>1. /\ i # 1 => i - 1 \in 1 .. Len(list) /\ list'[i] = list[i - 1] /\ list'[i] # c
            /\ j # 1 => j - 1 \in 1 .. Len(list) /\ list'[j] = list[j - 1] /\ list'[j] # c
        BY <2>1, <2>2
      <4>2. CASE i = 1 \/ j = 1
        BY <2>1, <3>1, <4>1, <4>2
      <4>3. CASE i # 1 /\ j # 1
        <5>1. i - 1 = j - 1
          BY <3>1, <4>1, <4>3 DEF ListInv
        <5> QED
          BY <5>1
      <4> QED
        BY <4>2, <4>3
    <3>2. ASSUME NEW i \in 1 .. Len(list') PROVE pc'[list'[i]] # "none"
      <4>1. CASE i = 1
        BY <1>2, <2>1, <4>1 DEF TypeInv
      <4>2. CASE i # 1
        <5>1. i - 1 \in 1 .. Len(list) /\ list'[i] = list[i - 1]
          BY <2>1, <4>2
        <5>2. pc'[list[i - 1]] = pc[list[i - 1]]
          BY <1>2, <2>1, <2>2, <5>1 DEF TypeInv
        <5> QED
          BY <5>1, <5>2 DEF ListInv
      <4> QED
        BY <4>1, <4>2
    <3>3. ASSUME NEW d \in Conn, Running(d)'
          PROVE  \E i \in 1 .. Len(list') : list'[i] = d
      <4>1. CASE d = c
        BY <2>1, <4>1
      <4>2. CASE d # c
        <5>1. PICK i \in 1 .. Len(list) : list[i] = d
          BY <1>2, <3>3, <4>2 DEF ListInv, Running, TypeInv
        <5> QED
          BY <2>1, <5>1
      <4> QED
        BY <4>1, <4>2
    <3> QED
      BY <3>1, <3>2, <3>3 DEF ListInv
  <2>5. YoungInv' /\ MainInv'
    BY <1>1, <1>2 DEF YoungInv, MainInv, TypeInv
  <2>6. WorkerInv' /\ SocketsAreOwned'
    BY <1>1, <1>2 DEF WorkerInv, SocketsAreOwned, Running, TypeInv
  <2>7. MutexDiscipline'
    BY <1>1, <1>2 DEF MutexDiscipline, TypeInv
  <2> QED
    BY <2>3, <2>4, <2>5, <2>6, <2>7
<1>3. CASE "pthread_create" \in Faults /\ UNCHANGED <<pc, connection_ctx_list>>
  <2>1. TypeInv' /\ ListInv' /\ MutexDiscipline'
    BY <1>3 DEF TypeInv, ListInv, MutexDiscipline, Running
  <2>2. YoungInv' /\ MainInv' /\ WorkerInv' /\ SocketsAreOwned'
    BY <1>1, <1>3 DEF YoungInv, MainInv, WorkerInv, SocketsAreOwned, Running
  <2> QED
    BY <2>1, <2>2
<1> QED
  BY <1>2, <1>3

LEMMA JoinStep ==
  ASSUME IndInv, connection_manager_join
  PROVE  IndInv'
<1> USE DEF IndInv, connection_manager_join, MainGoto, netVars
<1> DEFINE list == connection_ctx_list
<1>1. /\ list' \in Seq(Conn) /\ Len(list') = Len(list) - 1
      /\ \A i \in 1 .. Len(list) - 1 : list'[i] = list[i + 1]
      /\ pc[list[1]] = "done" /\ Len(list) \in Nat \ {0}
  BY RemoveHead DEF TypeInv, ThreadEnded
<1>2. file_mutex # "destroyed" /\ accepted = NULL
  BY DEF MainInv
<1>3. ListInv'
  <2>1. ASSUME NEW i \in 1 .. Len(list'), NEW j \in 1 .. Len(list'), list'[i] = list'[j]
        PROVE  i = j
    <3>1. /\ i + 1 \in 1 .. Len(list) /\ list'[i] = list[i + 1]
          /\ j + 1 \in 1 .. Len(list) /\ list'[j] = list[j + 1]
      BY <1>1
    <3>2. i + 1 = j + 1
      BY <2>1, <3>1 DEF ListInv
    <3> QED
      BY <3>2
  <2>2. ASSUME NEW i \in 1 .. Len(list') PROVE pc'[list'[i]] # "none"
    BY <1>1 DEF ListInv
  <2>3. ASSUME NEW d \in Conn, Running(d)'
        PROVE  \E i \in 1 .. Len(list') : list'[i] = d
    <3>1. PICK i \in 1 .. Len(list) : list[i] = d
      BY <2>3 DEF ListInv, Running
    <3>2. i # 1 /\ i - 1 \in 1 .. Len(list')
      BY <1>1, <2>3, <3>1 DEF Running
    <3>3. list'[i - 1] = d
      BY <1>1, <3>1, <3>2
    <3> QED
      BY <3>2, <3>3
  <2> QED
    BY <2>1, <2>2, <2>3 DEF ListInv
<1>4. TypeInv' /\ MainInv' /\ MutexDiscipline'
  BY <1>1, <1>2 DEF TypeInv, MainInv, MutexDiscipline
<1>5. YoungInv' /\ WorkerInv' /\ SocketsAreOwned'
  BY DEF YoungInv, WorkerInv, SocketsAreOwned, Running
<1> QED
  BY <1>3, <1>4, <1>5

LEMMA FreeStep ==
  ASSUME IndInv, connection_manager_free
  PROVE  IndInv'
<1> USE DEF IndInv, connection_manager_free, netVars
<1>1. connection_ctx_list = << >> /\ \A c \in Conn : pc[c] \in {"none", "done"}
  BY DEF SLIST_EMPTY, ListInv, Running
<1>2. accepted = NULL /\ "destroyed" \notin Conn
  BY SocketAssumption DEF MainInv
<1>3. TypeInv' /\ ListInv' /\ MainInv' /\ MutexDiscipline'
  BY <1>1, <1>2 DEF TypeInv, ListInv, MainInv, MutexDiscipline, Running
<1>4. YoungInv' /\ WorkerInv' /\ SocketsAreOwned'
  BY DEF YoungInv, WorkerInv, SocketsAreOwned, Running
<1> QED
  BY <1>3, <1>4

\* Into the critical section, out of it, and the end of a worker.
LEMMA BoundarySteps ==
  ASSUME IndInv, NEW c \in Conn, thread_lock(c) \/ thread_unlock(c) \/ thread_exit(c)
  PROVE  IndInv'
<1> USE DEF IndInv, Step, mainVars, netVars, thread_lock, thread_unlock, thread_exit,
            MutexFree, OwnerAfterUnlock, SocketAfterDestroy
<1>0. NULL \notin Conn /\ "destroyed" \notin Conn /\ NULL # "destroyed"
  BY SocketAssumption
<1>1. /\ pc' \in [Conn -> Outside \cup Critical \cup {"none", "done"}]
      /\ \A d \in Conn \ {c} : pc'[d] = pc[d]
      /\ Running(c) /\ pc'[c] # "none"
      /\ \A d \in Conn : Running(d)' => Running(d)
  BY DEF TypeInv, Running, Outside, Critical
<1>2. TypeInv'
  BY <1>1 DEF TypeInv
<1>3. ListInv'
  BY <1>1 DEF ListInv, TypeInv
<1>4. YoungInv' /\ MainInv'
  BY <1>0, <1>1 DEF YoungInv, MainInv, TypeInv, Running
<1>5. WorkerInv' /\ SocketsAreOwned'
  BY <1>1 DEF WorkerInv, SocketsAreOwned, TypeInv, Running
<1>6. MutexDiscipline'
  BY <1>0, <1>1 DEF MutexDiscipline, TypeInv
<1> QED
  BY <1>2, <1>3, <1>4, <1>5, <1>6

LEMMA NextInd == IndInv /\ [Next]_vars => IndInv'
<1> SUFFICES ASSUME IndInv, [Next]_vars PROVE IndInv'
  OBVIOUS
<1>1. CASE UNCHANGED vars
  BY <1>1, MainFrame DEF vars, mainVars, netVars, IndInv, MainInv
<1>2. CASE Main
  BY <1>2, MainSteps, CloseStep, JoinStep, FreeStep, AcceptStep, RegisterStep DEF Main
<1>3. CASE tcp_server_accept_fails \/ signal_handler
  BY <1>3, CloseStep, MainSteps
<1>4. ASSUME NEW c \in Conn,
             Worker(c) \/ thread_fopen_fails(c) \/ stdio_write_fails(c)
             \/ tcp_connection_send_fails(c) \/ thread_lock(c)
      PROVE  IndInv'
  <2>1. CASE thread_unlock(c) \/ thread_exit(c) \/ thread_lock(c)
    BY <2>1, BoundarySteps
  <2>2. TypeInv
    BY DEF IndInv
  <2>3. CASE ~(thread_unlock(c) \/ thread_exit(c) \/ thread_lock(c))
    BY <1>4, <2>2, <2>3, WorkerMoves, WorkerFrame DEF Worker
  <2> QED
    BY <2>1, <2>3
<1>5. ASSUME NEW c \in Conn,
             \/ Connect(c) \/ signal_in_worker(c) \/ send_sigpipe(c)
             \/ \E m \in Message : Send(c, m)
             \/ \E how \in LeaveBy : Leave(c, how)
      PROVE  IndInv'
  BY <1>5, ConnectStep, LeaveStep, MainSteps
<1> QED
  BY <1>1, <1>2, <1>3, <1>4, <1>5 DEF Next

LEMMA Invariance == Spec => []IndInv
<1> QED
  BY InitInd, NextInd, PTL DEF Spec

(* file_mutex is held exactly by the worker between pthread_mutex_lock and *)
(* pthread_mutex_unlock of thread_routine, whatever fails in between.      *)
THEOREM ServerMutexIsSound == Spec => []MutexDiscipline
<1>1. IndInv => MutexDiscipline
  BY DEF IndInv
<1> QED
  BY <1>1, Invariance, PTL

(* connection_manager_destroy frees no context, mutex or connection that a *)
(* worker still uses, and joins no thread twice.                           *)
THEOREM ShutdownIsSafe == Spec => []WorkersOutliveNothing
<1>1. IndInv => WorkersOutliveNothing
  <2> SUFFICES ASSUME IndInv PROVE WorkersOutliveNothing
    OBVIOUS
  <2> USE DEF IndInv
  <2>1. DOMAIN connection_ctx_list = 1 .. Len(connection_ctx_list)
    BY DEF TypeInv
  <2>2. IsInjective(connection_ctx_list)
    BY <2>1 DEF ListInv, IsInjective
  <2>3. ASSUME NEW c \in Conn, Running(c)
        PROVE  c \in Range(connection_ctx_list) /\ file_mutex # "destroyed" /\ socket[c] = "open"
    <3>1. PICK i \in 1 .. Len(connection_ctx_list) : connection_ctx_list[i] = c
      BY <2>3 DEF ListInv
    <3>2. file_mutex # "destroyed"
      BY <3>1 DEF MainInv
    <3> QED
      BY <2>1, <2>3, <3>1, <3>2 DEF Range, WorkerInv
  <2> QED
    BY <2>2, <2>3 DEF WorkersOutliveNothing, Running
<1> QED
  BY <1>1, Invariance, PTL

(* No socket of a worker that ran, and none the main thread still holds,   *)
(* is ever left open: only a failing pthread_create loses one.             *)
THEOREM NoSocketIsLost == Spec => []SocketsAreOwned
<1>1. IndInv => SocketsAreOwned
  BY DEF IndInv
<1> QED
  BY <1>1, Invariance, PTL

-----------------------------------------------------------------------------
(* Lines and the device.                                                   *)

(* A text message, and the line that stdio makes of it.                    *)
LEMMA TextMessage ==
  ASSUME NEW m \in Message, m.op = "text"
  PROVE  m.text \in Text /\ m.text \in Seq(Bytes) /\ \A i \in 1 .. Len(m.text) : m.text[i] # NewLine
<1>1. m.text \in Text
  BY DEF Message
<1>2. m.text \in Seq(Bytes)
  BY <1>1, LineAssumption
<1>3. \A i \in 1 .. Len(m.text) : m.text[i] \in Range(m.text)
  BY <1>2 DEF Range
<1> QED
  BY <1>1, <1>2, <1>3, LineAssumption

(* What ends a line is one of the bytes.                                   *)
LEMMA NewLineIsByte == NewLine \in Bytes
BY Zenon DEF Bytes

(* fprintf's line ends in its only newline.                                *)
LEMMA LineOfText ==
  ASSUME NEW m \in Message, m.op = "text"
  PROVE  /\ Line(m) \in Seq(Bytes) /\ Len(m.text) \in Nat /\ Len(Line(m)) = Len(m.text) + 1
         /\ Line(m)[Len(m.text) + 1] = NewLine
         /\ \A i \in 1 .. Len(m.text) : Line(m)[i] # NewLine
<1>1. PICK t \in Seq(Bytes) : t = m.text /\ \A i \in 1 .. Len(t) : t[i] # NewLine
  BY TextMessage
<1>2. Line(m) = Append(t, NewLine)
  BY <1>1 DEF Line
<1> QED
  BY <1>1, <1>2, NewLineIsByte

(* A seek message.                                                         *)
LEMMA SeekMessage ==
  ASSUME NEW m \in Message, m.op = "seek"
  PROVE  m.write_cmd \in Nat /\ m.write_cmd_offset \in Nat
BY SocketAssumption DEF Message

(* What a write of a piece does to the device: the newline is last in the  *)
(* last piece of a line and in no other.                                   *)
LEMMA WriteOfPiece ==
  ASSUME NEW cmds \in Seq(Seq(Bytes)), NEW staged \in Seq(Bytes), NEW buf \in Seq(Bytes),
         Len(buf) # 0
  PROVE  Written(cmds, staged, buf, NewLine, MAX_OPS) =
           IF buf[Len(buf)] = NewLine
           THEN [log |-> Keep(cmds, staged \o buf, MAX_OPS), partial |-> << >>]
           ELSE [log |-> cmds, partial |-> staged \o buf]
<1>0. staged \o buf \in Seq(Bytes)
  OBVIOUS
<1>1. PICK b \in Seq(Bytes) : b = staged \o buf
  BY <1>0
<1>2. b # << >> /\ Last(b) = buf[Len(buf)]
  BY <1>1 DEF Last
<1> QED
  BY <1>1, <1>2 DEF Written

(* The device keeps at most MAX_OPS commands.                              *)
LEMMA KeepTyped ==
  ASSUME NEW cmds \in Seq(Seq(Bytes)), Len(cmds) <= MAX_OPS, NEW cmd \in Seq(Bytes)
  PROVE  Keep(cmds, cmd, MAX_OPS) \in Seq(Seq(Bytes)) /\ Len(Keep(cmds, cmd, MAX_OPS)) <= MAX_OPS
<1>1. MAX_OPS \in Nat \ {0}
  BY SocketAssumption
<1>2. CASE Len(cmds) = MAX_OPS
  <2>1. Tail(cmds) \in Seq(Seq(Bytes)) /\ Len(Tail(cmds)) = MAX_OPS - 1
    BY <1>1, <1>2
  <2> QED
    BY <1>1, <1>2, <2>1 DEF Keep
<1>3. CASE Len(cmds) # MAX_OPS
  BY <1>1, <1>3 DEF Keep
<1> QED
  BY <1>2, <1>3

(* What a read returns: nothing at the end, else bytes from the position. *)
LEMMA ReadPiece ==
  ASSUME NEW cmds \in Seq(Seq(Bytes)), cmds = log, NEW pos \in Nat, pos <= Len(Stream(cmds))
  PROVE  \/ pos = Len(Stream(cmds)) /\ DeviceRead(pos) = << >>
         \/ \E m \in pos + 1 .. Len(Stream(cmds)) : DeviceRead(pos) = SubSeq(Stream(cmds), pos + 1, m)
<1>1. PICK d \in Seq(Bytes) : d = Stream(cmds)
  BY FlattenTyped DEF Stream
<1>2. CASE pos = Len(d)
  BY <1>1, <1>2 DEF DeviceRead
<1>3. CASE pos # Len(d)
  <2> DEFINE starts == {CommandStart(cmds, i) : i \in 1 .. Len(cmds)} \ (0 .. pos)
  <2>1. \A i \in 1 .. Len(cmds) : CommandStart(cmds, i) \in Nat
    BY FlattenToStep DEF CommandStart, FlattenTo
  <2>2. Len(cmds) \in 1 .. Len(cmds) /\ CommandStart(cmds, Len(cmds)) = Len(d)
    <3>1. CommandStart(cmds, Len(cmds)) = Len(FlattenTo(cmds, Len(cmds)))
      BY DEF CommandStart, FlattenTo
    <3>2. FlattenTo(cmds, Len(cmds)) = d
      BY <1>1, FlattenToStep DEF Stream
    <3>3. Len(cmds) # 0
      <4>1. SUFFICES ASSUME Len(cmds) = 0 PROVE FALSE
        OBVIOUS
      <4>2. d = << >>
        BY <3>2, <4>1, FlattenToStep
      <4> QED
        BY <1>1, <1>3, <4>2
    <3> QED
      BY <3>1, <3>2, <3>3
  <2>3. Len(d) \in starts /\ starts \subseteq Nat
    BY <1>1, <1>3, <2>1, <2>2
  <2>4. \A n \in starts : n > pos
    BY <2>3
  <2>5. DeviceRead(pos) = SubSeq(Stream(cmds), pos + 1, Min({Min(starts), pos + READ_SIZE}))
    <3>1. ~(pos >= Len(Stream(cmds)))
      BY <1>1, <1>3
    <3> QED
      BY <3>1, Zenon DEF DeviceRead
  <2> HIDE DEF starts
  <2>6. PICK e \in Nat : e = Min(starts) /\ e > pos /\ e <= Len(d)
    BY <2>3, <2>4, MinIsLeast
  <2>7. PICK r \in Nat : r = pos + READ_SIZE /\ r > pos
    BY SocketAssumption
  <2>8. PICK n \in Nat : n = Min({e, r}) /\ n > pos /\ n <= e
    <3>1. Min({e, r}) \in {e, r} /\ Min({e, r}) <= e
      BY MinIsLeast
    <3> QED
      BY <2>6, <2>7, <3>1
  <2>9. DeviceRead(pos) = SubSeq(Stream(cmds), pos + 1, n)
    BY <2>5, <2>6, <2>7, <2>8
  <2>10. n \in pos + 1 .. Len(Stream(cmds))
    BY <1>1, <2>6, <2>8
  <2> QED
    BY <2>9, <2>10
<1> QED
  BY <1>1, <1>2, <1>3

(* A valid seek names a byte the device holds.                             *)
LEMMA SeekInside ==
  ASSUME NEW cmds \in Seq(Seq(Bytes)), NEW m \in Message, m.op = "seek", SeekIsValid(cmds, m)
  PROVE  SeekPosition(cmds, m) \in Nat /\ SeekPosition(cmds, m) <= Len(Stream(cmds))
<1>1. PICK k \in Nat, a \in Nat : k = m.write_cmd /\ a = m.write_cmd_offset
  BY SeekMessage
<1>2. k + 1 \in 1 .. Len(cmds) /\ a < Len(cmds[k + 1]) /\ cmds[k + 1] \in Seq(Bytes)
  BY <1>1 DEF SeekIsValid
<1>3. PICK p \in Seq(Bytes), q \in Seq(Bytes), d \in Seq(Bytes) :
        p = FlattenTo(cmds, k) /\ q = FlattenTo(cmds, k + 1) /\ d = FlattenSeq(cmds)
  BY <1>2, FlattenToStep, FlattenTyped
<1>4. q = p \o cmds[k + 1]
  <2>1. k \in 0 .. Len(cmds) - 1
    BY <1>2
  <2>2. FlattenTo(cmds, k + 1) = FlattenTo(cmds, k) \o cmds[k + 1]
    BY <2>1, FlattenToStep
  <2> QED
    BY <1>3, <2>2
<1>5. IsPrefix(q, d)
  BY <1>2, <1>3, FlattenPrefix
<1>6. Len(q) <= Len(d)
  BY <1>5, PrefixMeans
<1>7. SeekPosition(cmds, m) = Len(p) + a
  BY <1>1, <1>3 DEF SeekPosition, CommandStart, FlattenTo
<1>8. Len(q) = Len(p) + Len(cmds[k + 1]) /\ Len(p) \in Nat /\ Len(cmds[k + 1]) \in Nat
  BY <1>2, <1>4
<1>9. Len(p) + a \in Nat /\ Len(p) + a <= Len(d)
  BY <1>2, <1>6, <1>8
<1> QED
  BY <1>3, <1>7, <1>9, Zenon DEF Stream

-----------------------------------------------------------------------------
(* What a worker has while it serves a line.                               *)

Quiet == Outside \cup {"handle", "none", "done"}
Gone == {"closed", "reset"}

\* m is being written: of its line, k is left, and what the device has of it is
\* at the end of staged.
Writing(m, k, staged) ==
  \E j, w \in Seq(Bytes) : staged = j \o w /\ Line(m) = w \o k

\* a is being sent: it is what was sent, what was read and what is left to read.
Answering(x, k, a, r, cmds) ==
  /\ a \in Seq(Bytes) /\ x <= Len(Stream(cmds))
  /\ a = (r \o k) \o SubSeq(Stream(cmds), x + 1, Len(Stream(cmds)))

\* A worker at p, with message m, position x, chunk k, answer a and reply r, and
\* client g, when the device holds cmds and staged.
ServeAt(p, m, x, k, a, r, g, cmds, staged) ==
  /\ p \in {"fopen", "nofile", "lock"} \cup Critical => m \in Message
  /\ p \in {"lock"} \cup Critical => x \in Nat
  /\ p \in {"lock", "handle", "write"} => x = 0
  /\ p \in Quiet \cup {"write", "syslog"} => a = NULL /\ r = << >>
  /\ p \in Quiet \cup {"read"} => k = << >>
  /\ p = "write" => m.op = "text" /\ k # << >> /\ Writing(m, k, staged)
  /\ p = "send" => k # << >>
  /\ p \in {"read", "send"} => Answering(x, k, a, r, cmds)
  /\ p = "unlock" => a = NULL \/ r = a \/ g \in Gone

ServeOf(c) ==
  ServeAt(pc[c], message[c], f_pos[c], chunk[c], snapshot[c], reply[c], client[c], log, partial)

ServeInv == \A c \in Conn : ServeOf(c)

DataTypes ==
  /\ message \in [Conn -> Message \cup {NULL}]
  /\ f_pos \in [Conn -> Nat \cup {NULL}]
  /\ log \in Seq(Seq(Bytes)) /\ Len(log) <= MAX_OPS /\ partial \in Seq(Bytes)
  /\ inbox \in [Conn -> Seq(Message)]
  /\ chunk \in [Conn -> Seq(Bytes)] /\ reply \in [Conn -> Seq(Bytes)]
  /\ snapshot \in [Conn -> Seq(Bytes) \cup {NULL}]

(* Concatenation of bytes, in the form the provers can instantiate.        *)
LEMMA Associative ==
  \A s, t, u \in Seq(Bytes) : (s \o t) \o u = s \o (t \o u)
BY ConcatAssociative

(* The next n bytes of a line, of which w is written and k is not.         *)
IsSplit(m, k, w, n) ==
  /\ SubSeq(k, 1, n) \in Seq(Bytes) /\ SubSeq(k, n + 1, Len(k)) \in Seq(Bytes)
  /\ Len(SubSeq(k, 1, n)) = n /\ w \o SubSeq(k, 1, n) \in Seq(Bytes)
  /\ SubSeq(k, 1, n)[n] = NewLine <=> n = Len(k)
  /\ Line(m) = (w \o SubSeq(k, 1, n)) \o SubSeq(k, n + 1, Len(k))

(* The newline is in that piece only if the piece is all that is left.     *)
LEMMA NextWrite ==
  ASSUME NEW m \in Message, m.op = "text", NEW k \in Seq(Bytes), k # << >>,
         NEW w \in Seq(Bytes), Line(m) = w \o k, NEW n \in 1 .. Len(k)
  PROVE  IsSplit(m, k, w, n)
<1>1. PICK a \in Seq(Bytes), b \in Seq(Bytes) :
        /\ a = SubSeq(k, 1, n) /\ b = SubSeq(k, n + 1, Len(k)) /\ k = a \o b /\ Len(a) = n
  <2>1. /\ SubSeq(k, 0 + 1, n) \in Seq(Bytes) /\ Len(SubSeq(k, 0 + 1, n)) = n - 0
        /\ SubSeq(k, n + 1, Len(k)) \in Seq(Bytes)
        /\ SubSeq(k, 0 + 1, Len(k)) = SubSeq(k, 0 + 1, n) \o SubSeq(k, n + 1, Len(k))
    <3>1. n \in Nat /\ 0 <= n /\ n <= Len(k)
      OBVIOUS
    <3> QED
      BY <3>1, SplitAt
  <2>2. SubSeq(k, 1, Len(k)) = k
    BY SubSeqFull
  <2>3. 0 + 1 = 1 /\ n - 0 = n
    OBVIOUS
  <2> QED
    BY <2>1, <2>2, <2>3
<1>2. a[n] = k[n] /\ n \in Nat \ {0} /\ n <= Len(k)
  BY <1>1
<1>3. k[n] = NewLine <=> n = Len(k)
  <2>1. PICK l \in Seq(Bytes), z \in Nat :
          /\ l = Line(m) /\ Len(l) = z + 1 /\ l[z + 1] = NewLine
          /\ \A i \in 1 .. z : l[i] # NewLine
    BY LineOfText
  <2>2. /\ Len(l) = Len(w) + Len(k) /\ l[Len(w) + n] = k[n]
    BY <2>1
  <2>3. CASE n = Len(k)
    <3>1. Len(w) + n = z + 1
      BY <2>1, <2>2, <2>3
    <3> QED
      BY <2>1, <2>2, <2>3, <3>1
  <2>4. CASE n # Len(k)
    <3>1. Len(w) + n \in 1 .. z
      BY <1>2, <2>1, <2>2, <2>4
    <3> QED
      BY <2>1, <2>2, <2>4, <3>1
  <2> QED
    BY <2>3, <2>4
<1>4. (w \o a) \o b = w \o (a \o b)
  BY Associative, Zenon
<1>5. w \o a \in Seq(Bytes)
  OBVIOUS
<1> QED
  BY <1>1, <1>2, <1>3, <1>4, <1>5 DEF IsSplit

(* How much stdio writes at once: all that is left, or STDIO_SIZE bytes.   *)
LEMMA StdioPiece ==
  ASSUME NEW k \in Seq(Bytes), k # << >>
  PROVE  \E n \in 1 .. Len(k) :
           /\ n = Min({STDIO_SIZE, Len(k)}) /\ (Len(k) <= STDIO_SIZE <=> n = Len(k))
           /\ SubSeq(k, STDIO_SIZE + 1, Len(k)) = SubSeq(k, n + 1, Len(k))
<1>1. STDIO_SIZE \in Nat \ {0} /\ Len(k) \in Nat \ {0}
  BY SocketAssumption
<1>2. Min({STDIO_SIZE, Len(k)}) = IF Len(k) <= STDIO_SIZE THEN Len(k) ELSE STDIO_SIZE
  <2>1. PICK T : T = {STDIO_SIZE, Len(k)} /\ T \subseteq Nat /\ T # {}
    BY <1>1
  <2>2. Min(T) \in T /\ \A i \in T : Min(T) <= i
    BY <2>1, MinIsLeast
  <2> QED
    BY <1>1, <2>1, <2>2
<1>3. CASE Len(k) <= STDIO_SIZE
  <2>1. SubSeq(k, STDIO_SIZE + 1, Len(k)) = << >> /\ SubSeq(k, Len(k) + 1, Len(k)) = << >>
    BY <1>1, <1>3, SubSeqEmpty
  <2> QED
    BY <1>1, <1>2, <1>3, <2>1
<1>4. CASE ~(Len(k) <= STDIO_SIZE)
  BY <1>1, <1>2, <1>4
<1> QED
  BY <1>3, <1>4

(* What a write(2) of stdio makes of the device: with its last piece the   *)
(* line is stored behind what was there before it, j, and not earlier.     *)
WriteIs(cmds, m, k, j, w) ==
  LET new == Written(cmds, j \o w, SubSeq(k, 1, Min({STDIO_SIZE, Len(k)})), NewLine, MAX_OPS)
      rest == SubSeq(k, STDIO_SIZE + 1, Len(k))
  IN  /\ rest \in Seq(Bytes)
      /\ Len(k) <= STDIO_SIZE =>
           rest = << >> /\ new.log = Keep(cmds, j \o Line(m), MAX_OPS) /\ new.partial = << >>
      /\ ~(Len(k) <= STDIO_SIZE) =>
           /\ rest # << >> /\ new.log = cmds
           /\ \E v \in Seq(Bytes) : new.partial = j \o v /\ Line(m) = v \o rest

LEMMA WriteOfLine ==
  ASSUME NEW cmds \in Seq(Seq(Bytes)), NEW m \in Message, m.op = "text",
         NEW k \in Seq(Bytes), k # << >>,
         NEW j \in Seq(Bytes), NEW w \in Seq(Bytes), Line(m) = w \o k
  PROVE  WriteIs(cmds, m, k, j, w)
<1>1. PICK n \in 1 .. Len(k) :
        /\ n = Min({STDIO_SIZE, Len(k)}) /\ (Len(k) <= STDIO_SIZE <=> n = Len(k))
        /\ SubSeq(k, STDIO_SIZE + 1, Len(k)) = SubSeq(k, n + 1, Len(k))
  BY StdioPiece
<1>2. PICK buf \in Seq(Bytes), rest \in Seq(Bytes), v \in Seq(Bytes) :
        /\ buf = SubSeq(k, 1, n) /\ rest = SubSeq(k, n + 1, Len(k)) /\ v = w \o buf
        /\ Len(buf) = n
        /\ buf[n] = NewLine <=> n = Len(k)
        /\ Line(m) = v \o rest
  <2>1. IsSplit(m, k, w, n)
    BY NextWrite
  <2> QED
    BY <2>1, Zenon DEF IsSplit
<1>3. (j \o w) \o buf = j \o v /\ j \o w \in Seq(Bytes)
  <2>1. (j \o w) \o buf = j \o (w \o buf)
    BY Associative, ZenonT(40)
  <2>2. j \o w \in Seq(Bytes)
    BY ConcatProperties
  <2> QED
    BY <1>2, <2>1, <2>2, Zenon
<1>4. Written(cmds, j \o w, buf, NewLine, MAX_OPS) =
        IF buf[Len(buf)] = NewLine
        THEN [log |-> Keep(cmds, (j \o w) \o buf, MAX_OPS), partial |-> << >>]
        ELSE [log |-> cmds, partial |-> (j \o w) \o buf]
  <2>1. Len(buf) # 0
    BY <1>2
  <2> QED
    BY <1>3, <2>1, WriteOfPiece
<1> DEFINE new == Written(cmds, j \o w, SubSeq(k, 1, Min({STDIO_SIZE, Len(k)})), NewLine, MAX_OPS)
<1>5. new = Written(cmds, j \o w, buf, NewLine, MAX_OPS)
  BY <1>1, <1>2
<1> HIDE DEF new
<1>6. n = Len(k) => rest = << >> /\ v = Line(m)
  <2> SUFFICES ASSUME n = Len(k) PROVE rest = << >> /\ v = Line(m)
    OBVIOUS
  <2>1. rest = << >>
    BY <1>2, SubSeqEmpty
  <2>2. v \o << >> = v
    BY ConcatEmptySeq
  <2> QED
    BY <1>2, <2>1, <2>2
<1>7. n # Len(k) => rest # << >>
  <2>1. Len(rest) = Len(k) - n
    BY <1>2
  <2> QED
    BY <2>1
<1>8. n = Len(k) => new.log = Keep(cmds, j \o Line(m), MAX_OPS) /\ new.partial = << >>
  <2> SUFFICES ASSUME n = Len(k)
               PROVE  new.log = Keep(cmds, j \o Line(m), MAX_OPS) /\ new.partial = << >>
    OBVIOUS
  <2>1. new = [log |-> Keep(cmds, j \o Line(m), MAX_OPS), partial |-> << >>]
    BY <1>2, <1>3, <1>4, <1>5, <1>6, Zenon
  <2> QED
    BY <2>1
<1>9. n # Len(k) => new.log = cmds /\ new.partial = j \o v
  <2> SUFFICES ASSUME n # Len(k) PROVE new.log = cmds /\ new.partial = j \o v
    OBVIOUS
  <2>1. new = [log |-> cmds, partial |-> j \o v]
    BY <1>2, <1>3, <1>4, <1>5, Zenon
  <2> QED
    BY <2>1
<1>10. SubSeq(k, STDIO_SIZE + 1, Len(k)) = rest
  BY <1>1, <1>2
<1> QED
  BY <1>1, <1>2, <1>6, <1>7, <1>8, <1>9, <1>10, Zenon DEF new, WriteIs

(* A read moves bytes of the answer from what is left to what is read.     *)
LEMMA ReadOfAnswer ==
  ASSUME NEW cmds \in Seq(Seq(Bytes)), cmds = log, NEW x \in Nat, NEW r \in Seq(Bytes), NEW a,
         Answering(x, << >>, a, r, cmds)
  PROVE  /\ DeviceRead(x) \in Seq(Bytes) /\ x + Len(DeviceRead(x)) \in Nat
         /\ Answering(x + Len(DeviceRead(x)), DeviceRead(x), a, r, cmds)
         /\ DeviceRead(x) = << >> => r = a
<1>1. PICK d \in Seq(Bytes) : d = Stream(cmds)
  BY FlattenTyped DEF Stream
<1>2. x <= Len(d) /\ a \in Seq(Bytes) /\ a = r \o SubSeq(d, x + 1, Len(d))
  <2>1. r \o << >> = r
    BY ConcatEmptySeq
  <2> QED
    BY <1>1, <2>1 DEF Answering
<1>3. CASE x = Len(d) /\ DeviceRead(x) = << >>
  <2>1. x + Len(<< >>) = x /\ << >> \in Seq(Bytes)
    OBVIOUS
  <2>2. SubSeq(d, x + 1, Len(d)) = << >> /\ r \o << >> = r
    BY <1>3, SubSeqEmpty, ConcatEmptySeq
  <2> QED
    BY <1>1, <1>2, <1>3, <2>1, <2>2 DEF Answering
<1>4. ASSUME NEW y \in x + 1 .. Len(d), DeviceRead(x) = SubSeq(d, x + 1, y)
      PROVE  /\ DeviceRead(x) \in Seq(Bytes) /\ x + Len(DeviceRead(x)) \in Nat
             /\ Answering(x + Len(DeviceRead(x)), DeviceRead(x), a, r, cmds)
             /\ DeviceRead(x) # << >>
  <2>0. y \in Nat /\ x <= y /\ y <= Len(d) /\ y # x
    OBVIOUS
  <2>1. /\ SubSeq(d, x + 1, y) \in Seq(Bytes) /\ Len(SubSeq(d, x + 1, y)) = y - x
        /\ SubSeq(d, y + 1, Len(d)) \in Seq(Bytes)
        /\ SubSeq(d, x + 1, Len(d)) = SubSeq(d, x + 1, y) \o SubSeq(d, y + 1, Len(d))
    BY <2>0, SplitAt
  <2>2. PICK k \in Seq(Bytes), z \in Seq(Bytes) :
          k = SubSeq(d, x + 1, y) /\ z = SubSeq(d, y + 1, Len(d)) /\ k = DeviceRead(x)
    BY <1>4, <2>1
  <2>3. x + Len(k) = y /\ k # << >>
    <3>1. Len(k) = y - x
      BY <2>1, <2>2, Zenon
    <3>2. x + (y - x) = y /\ y - x # 0
      BY <2>0
    <3>3. Len(k) # 0
      BY <3>1, <3>2, Zenon
    <3>4. k # << >>
      BY <3>3
    <3> QED
      BY <3>1, <3>2, <3>4, Zenon
  <2>4. (r \o k) \o z = r \o (k \o z)
    BY Associative, Zenon
  <2>5. Answering(y, k, a, r, cmds)
    BY <1>1, <1>2, <2>0, <2>1, <2>2, <2>4 DEF Answering
  <2> QED
    BY <2>0, <2>2, <2>3, <2>5
<1>5. \/ x = Len(d) /\ DeviceRead(x) = << >>
      \/ \E y \in x + 1 .. Len(d) : DeviceRead(x) = SubSeq(d, x + 1, y)
  BY <1>1, <1>2, ReadPiece
<1> QED
  BY <1>3, <1>4, <1>5

\* Of answer a, s is sent, which is more than r.
IsSentOf(a, r, s) == \E n \in Len(r) + 1 .. Len(a) : s = SubSeq(a, 1, n)

(* What is sent next is the next part of the answer.                       *)
LEMMA SendOfAnswer ==
  ASSUME NEW cmds \in Seq(Seq(Bytes)), NEW x \in Nat, NEW k \in Seq(Bytes), k # << >>,
         NEW r \in Seq(Bytes), NEW a, Answering(x, k, a, r, cmds)
  PROVE  /\ r \o k \in Seq(Bytes) /\ Answering(x, << >>, a, r \o k, cmds)
         /\ IsSentOf(a, r, r \o k)
<1>1. PICK d \in Seq(Bytes) : d = Stream(cmds)
  BY FlattenTyped DEF Stream
<1>2. SubSeq(d, x + 1, Len(d)) \in Seq(Bytes) /\ x <= Len(d)
  <2>1. x <= Len(d)
    BY <1>1 DEF Answering
  <2> QED
    BY <2>1, SplitAt
<1>3. PICK z \in Seq(Bytes), s \in Seq(Bytes) : z = SubSeq(d, x + 1, Len(d)) /\ s = r \o k
  <2>1. r \o k \in Seq(Bytes)
    OBVIOUS
  <2> QED
    BY <1>2, <2>1
<1>4. a = s \o z /\ a \in Seq(Bytes)
  BY <1>1, <1>3 DEF Answering
<1>5. s \o << >> = s
  BY ConcatEmptySeq
<1>6. Answering(x, << >>, a, s, cmds)
  BY <1>1, <1>2, <1>3, <1>4, <1>5 DEF Answering
<1>7. Len(s) \in Len(r) + 1 .. Len(a)
  <2>1. Len(s) = Len(r) + Len(k) /\ Len(k) \in Nat \ {0} /\ Len(r) \in Nat
    BY <1>3
  <2>2. Len(a) = Len(s) + Len(z) /\ Len(z) \in Nat
    BY <1>4
  <2> QED
    BY <2>1, <2>2
<1>8. s = SubSeq(a, 1, Len(s))
  <2>1. IsPrefix(s, s \o z)
    BY PrefixConcat
  <2>2. Len(s) <= Len(a) /\ \A i \in 1 .. Len(s) : s[i] = a[i]
    BY <1>4, <2>1, PrefixMeans
  <2>3. Len(s) \in 0 .. Len(a)
    BY <2>2
  <2>4. /\ SubSeq(a, 1, Len(s)) \in Seq(Bytes) /\ Len(SubSeq(a, 1, Len(s))) = Len(s)
        /\ \A i \in 1 .. Len(s) : SubSeq(a, 1, Len(s))[i] = a[i]
    BY <1>4, <2>3, PrefixSubSeq
  <2>5. \A i \in 1 .. Len(s) : s[i] = SubSeq(a, 1, Len(s))[i]
    BY <2>2, <2>4
  <2> QED
    BY <2>4, <2>5, SeqEqual
<1> QED
  BY <1>3, <1>6, <1>7, <1>8 DEF IsSentOf

(* The first read starts with the whole device, or after a seek with the   *)
(* rest of it.                                                             *)
LEMMA AnswerBegins ==
  ASSUME NEW cmds \in Seq(Seq(Bytes)), NEW x \in Nat, x <= Len(Stream(cmds))
  PROVE  /\ SubSeq(Stream(cmds), x + 1, Len(Stream(cmds))) \in Seq(Bytes)
         /\ Answering(x, << >>, SubSeq(Stream(cmds), x + 1, Len(Stream(cmds))), << >>, cmds)
<1>1. PICK d \in Seq(Bytes) : d = Stream(cmds)
  BY FlattenTyped DEF Stream
<1>2. x <= Len(d)
  BY <1>1
<1>3. SubSeq(d, x + 1, Len(d)) \in Seq(Bytes)
  BY <1>2, SplitAt
<1>4. PICK z \in Seq(Bytes) : z = SubSeq(d, x + 1, Len(d))
  BY <1>3
<1>5. (<< >> \o << >>) \o z = z
  <2>1. << >> \o << >> = << >> /\ << >> \o z = z
    BY ConcatEmptySeq
  <2> QED
    BY <2>1
<1> QED
  BY <1>1, <1>2, <1>4, <1>5 DEF Answering

(* A text line is answered with everything.                                *)
LEMMA AnswerOfAll ==
  ASSUME NEW cmds \in Seq(Seq(Bytes))
  PROVE  Stream(cmds) \in Seq(Bytes) /\ Answering(0, << >>, Stream(cmds), << >>, cmds)
<1>1. PICK d \in Seq(Bytes) : d = Stream(cmds)
  BY FlattenTyped DEF Stream
<1>2. SubSeq(d, 0 + 1, Len(d)) = d
  BY SubSeqFull
<1>3. 0 <= Len(d) /\ 0 \in Nat
  OBVIOUS
<1>4. Answering(0, << >>, SubSeq(d, 0 + 1, Len(d)), << >>, cmds)
  BY <1>1, <1>3, AnswerBegins
<1> QED
  BY <1>1, <1>2, <1>4

-----------------------------------------------------------------------------
(* That every step keeps it.                                               *)

Served == DataTypes /\ ServeInv

\* What a step leaves alone of connection d.
Same(d) ==
  /\ pc'[d] = pc[d] /\ message'[d] = message[d] /\ f_pos'[d] = f_pos[d]
  /\ chunk'[d] = chunk[d] /\ snapshot'[d] = snapshot[d] /\ reply'[d] = reply[d]
  /\ client'[d] = client[d]

(* Outside the critical section what the device holds does not matter.     *)
LEMMA ServeOutside ==
  ASSUME NEW p, p \notin Critical, NEW m, NEW x, NEW k, NEW a, NEW r, NEW g,
         NEW cmds, NEW staged, ServeAt(p, m, x, k, a, r, g, cmds, staged),
         NEW cmds2, NEW staged2
  PROVE  ServeAt(p, m, x, k, a, r, g, cmds2, staged2)
  BY DEF ServeAt, Critical

(* A step of one worker: the others keep theirs, because only the owner of *)
(* file_mutex changes the device.                                          *)
LEMMA ServeFrame ==
  ASSUME IndInv, ServeInv, NEW c \in Conn, \A d \in Conn \ {c} : Same(d),
         UNCHANGED device \/ file_mutex = c, ServeOf(c)'
  PROVE  ServeInv'
<1> SUFFICES ASSUME NEW d \in Conn, d # c PROVE ServeOf(d)'
  BY DEF ServeInv
<1>1. Same(d) /\ ServeOf(d)
  BY DEF ServeInv
<1>2. CASE UNCHANGED device
  BY <1>1, <1>2 DEF Same, ServeOf, device
<1>3. CASE file_mutex = c
  <2>1. pc[d] \notin Critical
    BY <1>3 DEF IndInv, MutexDiscipline, Critical
  <2>2. ServeAt(pc[d], message[d], f_pos[d], chunk[d], snapshot[d], reply[d], client[d],
                log', partial')
    BY <1>1, <2>1, ServeOutside DEF ServeOf
  <2> QED
    BY <1>1, <2>2 DEF Same, ServeOf
<1> QED
  BY <1>2, <1>3

\* Steps that leave everything a worker has alone.
LEMMA ServeStutter ==
  ASSUME Served, UNCHANGED <<pc, ioVars, device, client>>, inbox' \in [Conn -> Seq(Message)]
  PROVE  Served'
  BY DEF Served, DataTypes, ServeInv, ServeOf, ioVars, device

(* A connection before it has a worker, and one that gets it.              *)
LEMMA ServeConnect ==
  ASSUME IndInv, Served, NEW c \in Conn,
         Connect(c) \/ connection_manager_register_connection(c)
  PROVE  Served'
<1>1. pc[c] = "none" /\ pc'[c] \in {"none", "loop"}
  BY DEF IndInv, TypeInv, YoungInv, Connect, connection_manager_register_connection
<1>2. UNCHANGED <<ioVars, device, inbox>>
  BY DEF Connect, connection_manager_register_connection, netVars
<1>3. DataTypes'
  BY <1>2 DEF Served, DataTypes, ioVars, device
<1>4. \A d \in Conn \ {c} : Same(d)
  <2>1. \A d \in Conn \ {c} : pc'[d] = pc[d] /\ client'[d] = client[d]
    BY DEF IndInv, TypeInv, Connect, connection_manager_register_connection, netVars
  <2> QED
    BY <1>2, <2>1 DEF Same, ioVars
<1>5. ServeOf(c)'
  <2>1. ServeOf(c)
    BY DEF Served, ServeInv
  <2> QED
    BY <1>1, <1>2, <2>1 DEF ServeOf, ServeAt, ioVars, Quiet, Outside, Critical
<1>6. ServeInv /\ UNCHANGED device
  BY <1>2 DEF Served
<1> QED
  BY <1>3, <1>4, <1>5, <1>6, ServeFrame DEF Served

(* A client that leaves excuses an answer that was cut short.              *)
LEMMA ServeLeave ==
  ASSUME IndInv, Served, NEW c \in Conn, NEW how \in LeaveBy, Leave(c, how)
  PROVE  Served'
<1>1. UNCHANGED <<pc, ioVars, device>> /\ client' = [client EXCEPT ![c] = how]
  BY DEF Leave
<1>2. client[c] \notin Gone
  BY DEF Leave, Gone
<1>3. DataTypes'
  <2>1. inbox' \in [Conn -> Seq(Message)]
    BY DEF Leave, Served, DataTypes
  <2> QED
    BY <1>1, <2>1 DEF Served, DataTypes, ioVars, device
<1>4. \A d \in Conn \ {c} : Same(d)
  BY <1>1 DEF IndInv, TypeInv, Same, ioVars
<1>5. ServeOf(c)'
  <2>1. ServeOf(c)
    BY DEF Served, ServeInv
  <2> QED
    BY <1>1, <1>2, <2>1 DEF ServeOf, ServeAt, ioVars, device
<1>6. ServeInv /\ UNCHANGED device
  BY <1>1 DEF Served
<1> QED
  BY <1>3, <1>4, <1>5, <1>6, ServeFrame DEF Served

-----------------------------------------------------------------------------

\* The parts of the invariants that a worker's step uses.
LEMMA WorkerFacts ==
  ASSUME IndInv, Served, NEW c \in Conn
  PROVE  /\ pc \in [Conn -> Outside \cup Critical \cup {"none", "done"}]
         /\ client \in [Conn -> {"none", "connected", "half_closed", "closed", "reset"}]
         /\ message \in [Conn -> Message \cup {NULL}] /\ f_pos \in [Conn -> Nat \cup {NULL}]
         /\ inbox \in [Conn -> Seq(Message)]
         /\ chunk \in [Conn -> Seq(Bytes)] /\ reply \in [Conn -> Seq(Bytes)]
         /\ snapshot \in [Conn -> Seq(Bytes) \cup {NULL}]
         /\ log \in Seq(Seq(Bytes)) /\ Len(log) <= MAX_OPS /\ partial \in Seq(Bytes)
         /\ pc[c] \in Critical => file_mutex = c
         /\ ServeOf(c) /\ ServeInv /\ DataTypes
  BY DEF IndInv, Served, TypeInv, DataTypes, MutexDiscipline, Critical, ServeInv

\* Steps of a worker outside the critical section, and into it.
LEMMA ServeBefore ==
  ASSUME IndInv, Served, NEW c \in Conn,
         \/ thread_test(c) \/ tcp_connection_receive_message(c)
         \/ tcp_connection_receive_eof(c) \/ tcp_connection_receive_error(c)
         \/ thread_fopen(c) \/ thread_fopen_fails(c) \/ thread_lock(c) \/ thread_exit(c)
         \/ (thread_log(c) /\ pc[c] = "nofile")
  PROVE  Served'
<1>1. /\ UNCHANGED <<chunk, reply, snapshot, device>>
      /\ pc[c] \in {"loop", "recv", "fopen", "nofile", "lock", "exit"}
      /\ \E to \in Quiet : pc' = [pc EXCEPT ![c] = to]
  BY DEF thread_test, tcp_connection_receive_message, tcp_connection_receive_eof,
     tcp_connection_receive_error, thread_fopen, thread_fopen_fails, thread_lock, thread_exit,
     thread_log, Step, ioVars, Quiet, Outside
<1>2. PICK to \in Quiet : pc' = [pc EXCEPT ![c] = to]
  BY <1>1
<1>3. \E m \in Message \cup {NULL} :
        /\ message' = [message EXCEPT ![c] = m]
        /\ to \in {"fopen", "nofile", "lock", "handle"} => m \in Message
  <2>1. ServeOf(c)
    BY WorkerFacts
  <2>2. CASE tcp_connection_receive_message(c)
    <3>1. Head(inbox[c]) \in Message
      BY <2>2, WorkerFacts DEF tcp_connection_receive_message
    <3> QED
      BY <2>2, <3>1 DEF tcp_connection_receive_message
  <2>3. CASE tcp_connection_receive_eof(c) \/ tcp_connection_receive_error(c)
    <3>1. pc'[c] = "loop" /\ to = "loop" /\ message' = [message EXCEPT ![c] = NULL]
      BY <1>2, <2>3, WorkerFacts DEF tcp_connection_receive_eof, tcp_connection_receive_error, Step
    <3> QED
      BY <3>1
  <2>4. CASE \/ thread_test(c) \/ thread_exit(c) \/ thread_fopen(c) \/ thread_fopen_fails(c)
             \/ thread_lock(c) \/ (thread_log(c) /\ pc[c] = "nofile")
    <3>1. message' = message /\ message[c] \in Message \cup {NULL}
      BY <2>4, WorkerFacts DEF thread_test, thread_exit, thread_fopen, thread_fopen_fails,
         thread_lock, thread_log, ioVars
    <3>2. message' = [message EXCEPT ![c] = message[c]]
      BY <3>1, WorkerFacts
    <3>3. to = pc'[c]
      BY <1>2, WorkerFacts
    <3>4. to \in {"fopen", "nofile", "lock", "handle"} => pc[c] \in {"fopen", "lock"}
      BY <2>4, <3>3, WorkerFacts DEF thread_test, thread_exit, thread_fopen, thread_fopen_fails,
         thread_lock, thread_log, Step
    <3>5. pc[c] \in {"fopen", "lock"} => message[c] \in Message
      BY <2>1 DEF ServeOf, ServeAt
    <3> QED
      BY <3>1, <3>2, <3>4, <3>5
  <2> QED
    BY <2>2, <2>3, <2>4
<1>4. PICK m \in Message \cup {NULL} :
        /\ message' = [message EXCEPT ![c] = m]
        /\ to \in {"fopen", "nofile", "lock", "handle"} => m \in Message
  BY <1>3
<1>5. \E x \in Nat \cup {NULL} :
        f_pos' = [f_pos EXCEPT ![c] = x] /\ (to \in {"lock", "handle"} => x = 0)
  <2>1. to = pc'[c]
    BY <1>2, WorkerFacts
  <2>2. CASE thread_fopen(c)
    BY <2>2 DEF thread_fopen
  <2>3. CASE ~thread_fopen(c)
    <3>1. f_pos' = f_pos /\ f_pos[c] \in Nat \cup {NULL}
      BY <2>3, WorkerFacts DEF thread_test, thread_exit, thread_fopen_fails, thread_lock, thread_log,
         tcp_connection_receive_message, tcp_connection_receive_eof, tcp_connection_receive_error,
         ioVars
    <3>2. f_pos' = [f_pos EXCEPT ![c] = f_pos[c]]
      BY <3>1, WorkerFacts
    <3>3. to \in {"lock", "handle"} => pc[c] = "lock"
      BY <2>1, <2>3, WorkerFacts DEF thread_test, thread_exit, thread_fopen_fails, thread_lock,
         thread_log, tcp_connection_receive_message, tcp_connection_receive_eof,
         tcp_connection_receive_error, Step
    <3>4. pc[c] = "lock" => f_pos[c] = 0
      BY WorkerFacts DEF ServeOf, ServeAt
    <3> QED
      BY <3>1, <3>2, <3>3, <3>4
  <2> QED
    BY <2>2, <2>3
<1>6. PICK x \in Nat \cup {NULL} :
        f_pos' = [f_pos EXCEPT ![c] = x] /\ (to \in {"lock", "handle"} => x = 0)
  BY <1>5
<1>7. inbox' \in [Conn -> Seq(Message)] /\ \A d \in Conn \ {c} : client'[d] = client[d]
  <2>1. CASE tcp_connection_receive_message(c)
    <3>1. Tail(inbox[c]) \in Seq(Message)
      BY <2>1, WorkerFacts DEF tcp_connection_receive_message
    <3> QED
      BY <2>1, <3>1, WorkerFacts DEF tcp_connection_receive_message
  <2>2. CASE ~tcp_connection_receive_message(c)
    BY <2>2, WorkerFacts DEF thread_test, thread_exit, thread_fopen, thread_fopen_fails,
       thread_lock, thread_log, tcp_connection_receive_eof, tcp_connection_receive_error, netVars
  <2> QED
    BY <2>1, <2>2
<1>8. DataTypes'
  BY <1>1, <1>4, <1>6, <1>7, WorkerFacts DEF DataTypes, device
<1>9. \A d \in Conn \ {c} : Same(d)
  BY <1>1, <1>2, <1>4, <1>6, <1>7, WorkerFacts DEF Same
<1>10. ServeOf(c)'
  <2>1. /\ pc'[c] = to /\ message'[c] = m /\ f_pos'[c] = x
        /\ chunk'[c] = << >> /\ snapshot'[c] = NULL /\ reply'[c] = << >>
    <3>1. chunk[c] = << >> /\ snapshot[c] = NULL /\ reply[c] = << >>
      BY <1>1, WorkerFacts DEF ServeOf, ServeAt, Quiet, Outside
    <3> QED
      BY <1>1, <1>2, <1>4, <1>6, <3>1, WorkerFacts
  <2>2. ServeAt(to, m, x, << >>, NULL, << >>, client'[c], log', partial')
    BY <1>4, <1>6 DEF ServeAt, Quiet, Outside, Critical
  <2> QED
    BY <2>1, <2>2 DEF ServeOf
<1> QED
  BY <1>1, <1>8, <1>9, <1>10, WorkerFacts, ServeFrame DEF Served

\* A step of a worker in the critical section, and what it has afterwards.
SetTo(c, to, m, x, k, a, r) ==
  /\ pc[c] \in Critical /\ UNCHANGED <<client, inbox>>
  /\ pc' = [pc EXCEPT ![c] = to] /\ message' = [message EXCEPT ![c] = m]
  /\ f_pos' = [f_pos EXCEPT ![c] = x] /\ chunk' = [chunk EXCEPT ![c] = k]
  /\ snapshot' = [snapshot EXCEPT ![c] = a] /\ reply' = [reply EXCEPT ![c] = r]

(* A step in the critical section: what is left to show of it.             *)
LEMMA ServeInside ==
  ASSUME IndInv, Served, NEW c \in Conn, NEW to, NEW m \in Message \cup {NULL},
         NEW x \in Nat \cup {NULL}, NEW k \in Seq(Bytes), NEW a \in Seq(Bytes) \cup {NULL},
         NEW r \in Seq(Bytes), SetTo(c, to, m, x, k, a, r),
         log' \in Seq(Seq(Bytes)) /\ Len(log') <= MAX_OPS /\ partial' \in Seq(Bytes),
         ServeAt(to, m, x, k, a, r, client[c], log', partial')
  PROVE  Served'
<1>1. /\ pc[c] \in Critical /\ UNCHANGED <<client, inbox>>
      /\ pc' = [pc EXCEPT ![c] = to] /\ message' = [message EXCEPT ![c] = m]
      /\ f_pos' = [f_pos EXCEPT ![c] = x] /\ chunk' = [chunk EXCEPT ![c] = k]
      /\ snapshot' = [snapshot EXCEPT ![c] = a] /\ reply' = [reply EXCEPT ![c] = r]
  BY DEF SetTo
<1>2. DataTypes'
  BY <1>1, WorkerFacts DEF DataTypes
<1>3. \A d \in Conn \ {c} : Same(d)
  BY <1>1, WorkerFacts DEF Same
<1>4. ServeOf(c)'
  <2>1. /\ pc'[c] = to /\ message'[c] = m /\ f_pos'[c] = x /\ chunk'[c] = k
        /\ snapshot'[c] = a /\ reply'[c] = r /\ client'[c] = client[c]
    BY <1>1, WorkerFacts
  <2> QED
    BY <2>1 DEF ServeOf
<1>5. file_mutex = c /\ ServeInv
  BY <1>1, WorkerFacts
<1> QED
  BY <1>2, <1>3, <1>4, <1>5, ServeFrame DEF Served

\* What a worker in the critical section has before its step.
LEMMA InsideFacts ==
  ASSUME IndInv, Served, NEW c \in Conn, pc[c] \in Critical
  PROVE  /\ message[c] \in Message /\ f_pos[c] \in Nat
         /\ chunk[c] \in Seq(Bytes) /\ reply[c] \in Seq(Bytes)
         /\ snapshot[c] \in Seq(Bytes) \cup {NULL}
         /\ log \in Seq(Seq(Bytes)) /\ Len(log) <= MAX_OPS /\ partial \in Seq(Bytes)
         /\ ServeAt(pc[c], message[c], f_pos[c], chunk[c], snapshot[c], reply[c], client[c],
                    log, partial)
  BY WorkerFacts DEF ServeOf, ServeAt, Critical

(* The syslog of handle_message's failure.                                 *)
LEMMA ServeLog ==
  ASSUME IndInv, Served, NEW c \in Conn, thread_log(c), pc[c] # "nofile"
  PROVE  Served'
<1>1. pc[c] = "syslog" /\ pc[c] \in Critical /\ UNCHANGED device
  BY DEF thread_log, Step, Critical
<1>2. SetTo(c, "unlock", message[c], f_pos[c], chunk[c], snapshot[c], reply[c])
  BY <1>1, WorkerFacts DEF SetTo, thread_log, Step, ioVars, netVars
<1>3. /\ message[c] \in Message /\ f_pos[c] \in Nat
      /\ chunk[c] \in Seq(Bytes) /\ reply[c] \in Seq(Bytes)
      /\ snapshot[c] \in Seq(Bytes) \cup {NULL}
      /\ log \in Seq(Seq(Bytes)) /\ Len(log) <= MAX_OPS /\ partial \in Seq(Bytes)
      /\ ServeAt("syslog", message[c], f_pos[c], chunk[c], snapshot[c], reply[c], client[c],
                 log, partial)
  BY <1>1, InsideFacts
<1>4. ServeAt("unlock", message[c], f_pos[c], chunk[c], snapshot[c], reply[c], client[c],
              log', partial')
  BY <1>1, <1>3 DEF ServeAt, Quiet, Outside, Critical
<1> QED
  BY <1>1, <1>2, <1>3, <1>4, ServeInside DEF device

(* The ioctl fixes the answer, or refuses the line.                        *)
LEMMA ServeSeek ==
  ASSUME IndInv, Served, NEW c \in Conn, handle_seek(c)
  PROVE  Served'
<1>1. pc[c] = "handle" /\ pc[c] \in Critical /\ UNCHANGED device /\ message[c].op = "seek"
  BY DEF handle_seek, Critical
<1>2. /\ message[c] \in Message /\ f_pos[c] \in Nat
      /\ log \in Seq(Seq(Bytes)) /\ Len(log) <= MAX_OPS /\ partial \in Seq(Bytes)
      /\ snapshot[c] = NULL /\ reply[c] = << >> /\ chunk[c] = << >>
  BY <1>1, InsideFacts DEF ServeAt, Quiet
<1>3. CASE SeekIsValid(log, message[c])
  <2> DEFINE x == SeekPosition(log, message[c])
             a == SubSeq(Stream(log), x + 1, Len(Stream(log)))
  <2>1. x \in Nat /\ x <= Len(Stream(log))
    BY <1>1, <1>2, <1>3, SeekInside
  <2>2. SetTo(c, "read", message[c], x, chunk[c], a, reply[c])
    BY <1>1, <1>3, WorkerFacts DEF SetTo, handle_seek, Step, netVars
  <2>3. a \in Seq(Bytes) /\ Answering(x, << >>, a, << >>, log)
    BY <1>2, <2>1, AnswerBegins
  <2> HIDE DEF x, a
  <2>4. ServeAt("read", message[c], x, << >>, a, << >>, client[c], log, partial)
    BY <1>2, <2>1, <2>3 DEF ServeAt, Quiet, Outside
  <2>5. << >> \in Seq(Bytes)
    OBVIOUS
  <2> QED
    BY <1>1, <1>2, <2>1, <2>2, <2>3, <2>4, <2>5, ServeInside DEF device
<1>4. CASE ~SeekIsValid(log, message[c])
  <2>1. SetTo(c, "syslog", message[c], f_pos[c], chunk[c], snapshot[c], reply[c])
    BY <1>1, <1>4, WorkerFacts DEF SetTo, handle_seek, Step, netVars
  <2>2. ServeAt("syslog", message[c], f_pos[c], << >>, NULL, << >>, client[c], log, partial)
    BY <1>2 DEF ServeAt, Quiet, Outside
  <2>3. << >> \in Seq(Bytes)
    OBVIOUS
  <2> QED
    BY <1>1, <1>2, <2>1, <2>2, <2>3, ServeInside DEF device
<1> QED
  BY <1>3, <1>4

(* fprintf has taken the line; none of it is written.                      *)
LEMMA ServeText ==
  ASSUME IndInv, Served, NEW c \in Conn, handle_text(c)
  PROVE  Served'
<1>1. pc[c] = "handle" /\ pc[c] \in Critical /\ UNCHANGED device /\ message[c].op = "text"
  BY DEF handle_text, Critical
<1>2. /\ message[c] \in Message /\ f_pos[c] = 0
      /\ log \in Seq(Seq(Bytes)) /\ Len(log) <= MAX_OPS /\ partial \in Seq(Bytes)
      /\ snapshot[c] = NULL /\ reply[c] = << >>
  BY <1>1, InsideFacts DEF ServeAt, Quiet
<1>3. SetTo(c, "write", message[c], f_pos[c], Line(message[c]), snapshot[c], reply[c])
  BY <1>1, WorkerFacts DEF SetTo, handle_text, Step, netVars
<1>4. PICK k \in Seq(Bytes) : k = Line(message[c]) /\ k # << >>
  <2>1. PICK n \in Nat : Line(message[c]) \in Seq(Bytes) /\ Len(Line(message[c])) = n + 1
    BY <1>1, <1>2, LineOfText
  <2> QED
    BY <2>1
<1>5. Writing(message[c], k, partial)
  <2>1. partial \o << >> = partial /\ << >> \o k = k /\ << >> \in Seq(Bytes)
    BY <1>2, ConcatEmptySeq
  <2> QED
    BY <1>2, <1>4, <2>1 DEF Writing
<1>6. ServeAt("write", message[c], 0, k, NULL, << >>, client[c], log, partial)
  BY <1>1, <1>2, <1>4, <1>5 DEF ServeAt, Quiet, Outside
<1>7. << >> \in Seq(Bytes)
  OBVIOUS
<1>8. /\ SetTo(c, "write", message[c], 0, k, NULL, << >>)
      /\ ServeAt("write", message[c], 0, k, NULL, << >>, client[c], log', partial')
      /\ log' \in Seq(Seq(Bytes)) /\ Len(log') <= MAX_OPS /\ partial' \in Seq(Bytes)
  BY <1>1, <1>2, <1>3, <1>4, <1>6 DEF device
<1> QED
  <2>1. 0 \in Nat /\ NULL \in Seq(Bytes) \cup {NULL}
    OBVIOUS
  <2> QED
    BY <1>2, <1>7, <1>8, <2>1, ServeInside

\* Before a write(2): what the device has of the line, and what it had before.
LEMMA WriteFacts ==
  ASSUME IndInv, Served, NEW c \in Conn, pc[c] = "write"
  PROVE  /\ message[c] \in Message /\ message[c].op = "text" /\ f_pos[c] = 0
         /\ log \in Seq(Seq(Bytes)) /\ Len(log) <= MAX_OPS /\ partial \in Seq(Bytes)
         /\ snapshot[c] = NULL /\ reply[c] = << >> /\ chunk[c] \in Seq(Bytes) /\ chunk[c] # << >>
         /\ \E j, w \in Seq(Bytes) : partial = j \o w /\ Line(message[c]) = w \o chunk[c]
<1>1. pc[c] \in Critical
  BY DEF Critical
<1> QED
  BY <1>1, InsideFacts DEF ServeAt, Writing

\* What it makes of the device.
LEMMA WriteEffect ==
  ASSUME IndInv, Served, NEW c \in Conn, stdio_write(c),
         NEW j \in Seq(Bytes), NEW w \in Seq(Bytes),
         partial = j \o w, Line(message[c]) = w \o chunk[c]
  PROVE  /\ Unwritten(c) \in Seq(Bytes)
         /\ LastPiece(c) =>
              /\ Unwritten(c) = << >> /\ partial' = << >>
              /\ log' = Keep(log, j \o Line(message[c]), MAX_OPS)
         /\ ~LastPiece(c) =>
              /\ Unwritten(c) # << >> /\ log' = log
              /\ \E v \in Seq(Bytes) : partial' = j \o v /\ Line(message[c]) = v \o Unwritten(c)
<1>1. pc[c] = "write"
  BY DEF stdio_write, Step
<1>2. PICK m \in Message, k \in Seq(Bytes) : m = message[c] /\ k = chunk[c] /\ m.op = "text" /\ k # << >>
  BY <1>1, WriteFacts
<1> DEFINE new == Written(log, j \o w, SubSeq(k, 1, Min({STDIO_SIZE, Len(k)})), NewLine, MAX_OPS)
<1>3. log' = new.log /\ partial' = new.partial
  BY <1>2 DEF stdio_write, DeviceWrite
<1>4. WriteIs(log, m, k, j, w)
  <2>1. Line(m) = w \o k /\ log \in Seq(Seq(Bytes))
    BY <1>1, <1>2, WriteFacts
  <2> QED
    BY <1>2, <2>1, WriteOfLine
<1>5. Unwritten(c) = SubSeq(k, STDIO_SIZE + 1, Len(k)) /\ (LastPiece(c) <=> Len(k) <= STDIO_SIZE)
  BY <1>2 DEF Unwritten, LastPiece
<1> QED
  BY <1>2, <1>3, <1>4, <1>5, Zenon DEF WriteIs

(* A write(2): the line is in the device, and the answer fixed, or part of *)
(* it is.                                                                  *)
LEMMA ServeWrite ==
  ASSUME IndInv, Served, NEW c \in Conn, stdio_write(c)
  PROVE  Served'
<1>1. pc[c] = "write" /\ pc[c] \in Critical
  BY DEF stdio_write, Step, Critical
<1>2. PICK j, w \in Seq(Bytes) : partial = j \o w /\ Line(message[c]) = w \o chunk[c]
  BY <1>1, WriteFacts
<1>3. PICK m \in Message : m = message[c] /\ m.op = "text"
  BY <1>1, WriteFacts
<1>4. f_pos[c] = 0 /\ log \in Seq(Seq(Bytes)) /\ Len(log) <= MAX_OPS /\ reply[c] = << >>
  BY <1>1, WriteFacts
<1>5. PICK rest \in Seq(Bytes) : rest = Unwritten(c)
  BY <1>2, WriteEffect
<1>6. /\ LastPiece(c) =>
           rest = << >> /\ partial' = << >> /\ log' = Keep(log, j \o Line(m), MAX_OPS)
      /\ ~LastPiece(c) =>
           /\ rest # << >> /\ log' = log
           /\ \E v \in Seq(Bytes) : partial' = j \o v /\ Line(m) = v \o rest
  BY <1>2, <1>3, <1>5, WriteEffect
<1>7. << >> \in Seq(Bytes) /\ 0 \in Nat
  OBVIOUS
<1>8. ASSUME LastPiece(c)
      PROVE  Served'
  <2>1. SetTo(c, "read", m, 0, rest, Stream(log'), reply[c])
    BY <1>1, <1>3, <1>4, <1>5, <1>8, WorkerFacts DEF SetTo, stdio_write, Step, netVars
  <2>2. log' = Keep(log, j \o Line(m), MAX_OPS) /\ partial' = << >> /\ rest = << >>
    BY <1>6, <1>8
  <2>3. j \o Line(m) \in Seq(Bytes)
    <3>1. Line(m) \in Seq(Bytes)
      BY <1>3, LineOfText
    <3> QED
      BY <3>1, ConcatProperties
  <2>4. log' \in Seq(Seq(Bytes)) /\ Len(log') <= MAX_OPS
    BY <1>4, <2>2, <2>3, KeepTyped
  <2>5. PICK cmds \in Seq(Seq(Bytes)) : cmds = log'
    BY <2>4
  <2>6. Stream(cmds) \in Seq(Bytes) /\ Answering(0, << >>, Stream(cmds), << >>, cmds)
    BY AnswerOfAll
  <2>7. ServeAt("read", m, 0, << >>, Stream(cmds), << >>, client[c], cmds, << >>)
    BY <2>6 DEF ServeAt, Quiet, Outside
  <2>8. /\ SetTo(c, "read", m, 0, << >>, Stream(cmds), << >>)
        /\ ServeAt("read", m, 0, << >>, Stream(cmds), << >>, client[c], log', partial')
    BY <1>4, <2>1, <2>2, <2>5, <2>7
  <2> QED
    BY <1>7, <2>2, <2>4, <2>6, <2>8, ServeInside
<1>9. ASSUME ~LastPiece(c)
      PROVE  Served'
  <2>1. SetTo(c, "write", m, 0, rest, NULL, reply[c])
    BY <1>1, <1>3, <1>4, <1>5, <1>9, WorkerFacts DEF SetTo, stdio_write, Step, netVars
  <2>2. PICK v \in Seq(Bytes) : log' = log /\ partial' = j \o v /\ Line(m) = v \o rest
    BY <1>6, <1>9
  <2>3. partial' \in Seq(Bytes)
    BY <2>2, ConcatProperties
  <2>4. Writing(m, rest, partial')
    BY <2>2 DEF Writing
  <2>5. ServeAt("write", m, 0, rest, NULL, << >>, client[c], log', partial')
    BY <1>3, <1>6, <1>9, <2>4 DEF ServeAt, Quiet, Outside
  <2>6. SetTo(c, "write", m, 0, rest, NULL, << >>)
    BY <1>4, <2>1
  <2>7. log' \in Seq(Seq(Bytes)) /\ Len(log') <= MAX_OPS
    BY <1>4, <2>2
  <2> QED
    BY <1>7, <2>3, <2>5, <2>6, <2>7, ServeInside
<1> QED
  BY <1>8, <1>9

(* A write(2) that fails leaves the device as it is.                       *)
LEMMA ServeWriteFails ==
  ASSUME IndInv, Served, NEW c \in Conn, stdio_write_fails(c)
  PROVE  Served'
<1>1. pc[c] = "write" /\ pc[c] \in Critical /\ UNCHANGED device
  BY DEF stdio_write_fails, Step, Critical
<1>2. /\ message[c] \in Message /\ f_pos[c] = 0
      /\ log \in Seq(Seq(Bytes)) /\ Len(log) <= MAX_OPS /\ partial \in Seq(Bytes)
      /\ reply[c] = << >>
  BY <1>1, WriteFacts
<1>3. << >> \in Seq(Bytes) /\ 0 \in Nat
  OBVIOUS
<1>4. CASE LastPiece(c)
  <2>1. SetTo(c, "read", message[c], 0, << >>, Stream(log), << >>)
    BY <1>1, <1>2, <1>4, WorkerFacts DEF SetTo, stdio_write_fails, Step, netVars
  <2>2. Stream(log) \in Seq(Bytes) /\ Answering(0, << >>, Stream(log), << >>, log)
    BY <1>2, AnswerOfAll
  <2>3. ServeAt("read", message[c], 0, << >>, Stream(log), << >>, client[c], log, partial)
    BY <1>2, <2>2 DEF ServeAt, Quiet, Outside
  <2> QED
    BY <1>1, <1>2, <1>3, <2>1, <2>2, <2>3, ServeInside DEF device
<1>5. CASE ~LastPiece(c)
  <2>1. SetTo(c, "syslog", message[c], 0, << >>, NULL, << >>)
    BY <1>1, <1>2, <1>5, WorkerFacts DEF SetTo, stdio_write_fails, Step, netVars
  <2>2. ServeAt("syslog", message[c], 0, << >>, NULL, << >>, client[c], log, partial)
    BY <1>2 DEF ServeAt, Quiet, Outside
  <2> QED
    BY <1>1, <1>2, <1>3, <2>1, <2>2, ServeInside DEF device
<1> QED
  BY <1>4, <1>5

\* While the answer is read and sent.
LEMMA AnswerFacts ==
  ASSUME IndInv, Served, NEW c \in Conn, pc[c] \in {"read", "send"}
  PROVE  /\ message[c] \in Message /\ f_pos[c] \in Nat
         /\ log \in Seq(Seq(Bytes)) /\ Len(log) <= MAX_OPS /\ partial \in Seq(Bytes)
         /\ chunk[c] \in Seq(Bytes) /\ reply[c] \in Seq(Bytes) /\ snapshot[c] \in Seq(Bytes)
         /\ Answering(f_pos[c], chunk[c], snapshot[c], reply[c], log)
         /\ pc[c] = "read" => chunk[c] = << >>
         /\ pc[c] = "send" => chunk[c] # << >>
<1>1. pc[c] \in Critical
  BY DEF Critical
<1>2. /\ message[c] \in Message /\ f_pos[c] \in Nat
      /\ chunk[c] \in Seq(Bytes) /\ reply[c] \in Seq(Bytes)
      /\ log \in Seq(Seq(Bytes)) /\ Len(log) <= MAX_OPS /\ partial \in Seq(Bytes)
      /\ ServeAt(pc[c], message[c], f_pos[c], chunk[c], snapshot[c], reply[c], client[c],
                 log, partial)
  BY <1>1, InsideFacts
<1>3. /\ Answering(f_pos[c], chunk[c], snapshot[c], reply[c], log)
      /\ pc[c] = "read" => chunk[c] = << >>
      /\ pc[c] = "send" => chunk[c] # << >>
  BY <1>2 DEF ServeAt
<1>4. snapshot[c] \in Seq(Bytes)
  BY <1>3 DEF Answering
<1> QED
  BY <1>2, <1>3, <1>4

(* A read(2): a piece of the answer, or its end.                           *)
LEMMA ServeRead ==
  ASSUME IndInv, Served, NEW c \in Conn, send_file_read(c)
  PROVE  Served'
<1>1. pc[c] = "read" /\ pc[c] \in Critical /\ UNCHANGED device
  BY DEF send_file_read, Step, Critical
<1>2. PICK x \in Nat, r \in Seq(Bytes), a \in Seq(Bytes) :
        /\ x = f_pos[c] /\ r = reply[c] /\ a = snapshot[c]
        /\ Answering(x, << >>, a, r, log)
  BY <1>1, AnswerFacts
<1>3. /\ message[c] \in Message
      /\ log \in Seq(Seq(Bytes)) /\ Len(log) <= MAX_OPS /\ partial \in Seq(Bytes)
  BY <1>1, AnswerFacts
<1>4. /\ DeviceRead(x) \in Seq(Bytes) /\ x + Len(DeviceRead(x)) \in Nat
      /\ Answering(x + Len(DeviceRead(x)), DeviceRead(x), a, r, log)
      /\ DeviceRead(x) = << >> => r = a
  BY <1>2, <1>3, ReadOfAnswer
<1>5. PICK k \in Seq(Bytes), y \in Nat :
        k = DeviceRead(x) /\ y = x + Len(DeviceRead(x))
  BY <1>4
<1>6. Answering(y, k, a, r, log) /\ (k = << >> => r = a)
  BY <1>4, <1>5
<1>7. SetTo(c, IF k = << >> THEN "unlock" ELSE "send", message[c], y, k, a, r)
  BY <1>1, <1>2, <1>5, WorkerFacts DEF SetTo, send_file_read, Step, netVars
<1>8. log' \in Seq(Seq(Bytes)) /\ Len(log') <= MAX_OPS /\ partial' \in Seq(Bytes)
  BY <1>1, <1>3 DEF device
<1>9. CASE k = << >>
  <2>1. ServeAt("unlock", message[c], y, k, a, r, client[c], log', partial')
    BY <1>3, <1>6, <1>9 DEF ServeAt, Quiet, Outside
  <2> QED
    BY <1>3, <1>7, <1>8, <1>9, <2>1, ServeInside
<1>10. CASE k # << >>
  <2>1. ServeAt("send", message[c], y, k, a, r, client[c], log', partial')
    BY <1>1, <1>3, <1>6, <1>10 DEF ServeAt, Quiet, Outside, device
  <2> QED
    BY <1>3, <1>7, <1>8, <1>10, <2>1, ServeInside
<1> QED
  BY <1>9, <1>10

(* A piece of the answer is sent.                                          *)
LEMMA ServeSend ==
  ASSUME IndInv, Served, NEW c \in Conn, tcp_connection_send_message(c)
  PROVE  Served'
<1>1. pc[c] = "send" /\ pc[c] \in Critical /\ UNCHANGED device
  BY DEF tcp_connection_send_message, Step, Critical
<1>2. PICK x \in Nat, k \in Seq(Bytes), r \in Seq(Bytes), a \in Seq(Bytes) :
        /\ x = f_pos[c] /\ k = chunk[c] /\ r = reply[c] /\ a = snapshot[c] /\ k # << >>
        /\ Answering(x, k, a, r, log)
  BY <1>1, AnswerFacts
<1>3. /\ message[c] \in Message
      /\ log \in Seq(Seq(Bytes)) /\ Len(log) <= MAX_OPS /\ partial \in Seq(Bytes)
  BY <1>1, AnswerFacts
<1>4. PICK s \in Seq(Bytes) : s = r \o k /\ Answering(x, << >>, a, s, log)
  BY <1>2, <1>3, SendOfAnswer
<1>5. SetTo(c, "read", message[c], x, << >>, a, s)
  BY <1>1, <1>2, <1>4, WorkerFacts DEF SetTo, tcp_connection_send_message, Step, netVars
<1>6. ServeAt("read", message[c], x, << >>, a, s, client[c], log', partial')
  BY <1>1, <1>3, <1>4 DEF ServeAt, Quiet, Outside, device
<1>7. << >> \in Seq(Bytes)
  OBVIOUS
<1>8. log' \in Seq(Seq(Bytes)) /\ Len(log') <= MAX_OPS /\ partial' \in Seq(Bytes)
  BY <1>1, <1>3 DEF device
<1> QED
  BY <1>3, <1>5, <1>6, <1>7, <1>8, ServeInside

(* The answer is cut short, for a client that has gone.                    *)
LEMMA ServeSendFails ==
  ASSUME IndInv, Served, NEW c \in Conn, tcp_connection_send_fails(c)
  PROVE  Served'
<1>1. pc[c] = "send" /\ pc[c] \in Critical /\ UNCHANGED device /\ client[c] \in Gone
  BY DEF tcp_connection_send_fails, Step, Critical, Gone
<1>2. /\ message[c] \in Message /\ f_pos[c] \in Nat
      /\ log \in Seq(Seq(Bytes)) /\ Len(log) <= MAX_OPS /\ partial \in Seq(Bytes)
      /\ chunk[c] \in Seq(Bytes) /\ reply[c] \in Seq(Bytes) /\ snapshot[c] \in Seq(Bytes)
  BY <1>1, AnswerFacts
<1>3. SetTo(c, "unlock", message[c], f_pos[c], chunk[c], snapshot[c], reply[c])
  BY <1>1, WorkerFacts DEF SetTo, tcp_connection_send_fails, Step, ioVars, netVars
<1>4. ServeAt("unlock", message[c], f_pos[c], chunk[c], snapshot[c], reply[c], client[c],
              log', partial')
  BY <1>1, <1>2 DEF ServeAt, Quiet, Outside
<1>5. log' \in Seq(Seq(Bytes)) /\ Len(log') <= MAX_OPS /\ partial' \in Seq(Bytes)
  BY <1>1, <1>2 DEF device
<1> QED
  BY <1>2, <1>3, <1>4, <1>5, ServeInside

(* The worker is done with the line.                                       *)
LEMMA ServeUnlock ==
  ASSUME IndInv, Served, NEW c \in Conn, thread_unlock(c)
  PROVE  Served'
<1>1. pc[c] = "unlock" /\ pc[c] \in Critical /\ UNCHANGED device
  BY DEF thread_unlock, Step, Critical
<1>2. SetTo(c, "loop", NULL, NULL, << >>, NULL, << >>)
  BY <1>1 DEF SetTo, thread_unlock, Step, netVars
<1>3. ServeAt("loop", NULL, NULL, << >>, NULL, << >>, client[c], log', partial')
  BY DEF ServeAt, Critical
<1>4. log' \in Seq(Seq(Bytes)) /\ Len(log') <= MAX_OPS /\ partial' \in Seq(Bytes)
  BY <1>1, InsideFacts DEF device
<1>5. << >> \in Seq(Bytes)
  OBVIOUS
<1> QED
  BY <1>2, <1>3, <1>4, <1>5, ServeInside

LEMMA ServeInit == Init => Served
<1> SUFFICES ASSUME Init PROVE Served
  OBVIOUS
<1>1. partial \in Seq(Bytes) /\ << >> \in Seq(Bytes) /\ << >> \in Seq(Message)
  BY LineAssumption DEF Init
<1>2. log \in Seq(Seq(Bytes)) /\ Len(log) <= MAX_OPS
  BY SocketAssumption DEF Init
<1>3. DataTypes
  BY <1>1, <1>2 DEF Init, DataTypes
<1>4. ASSUME NEW c \in Conn PROVE ServeOf(c)
  BY DEF Init, ServeOf, ServeAt, Critical
<1> QED
  BY <1>3, <1>4 DEF Served, ServeInv

LEMMA ServeNext == IndInv /\ Served /\ [Next]_vars => Served'
<1> SUFFICES ASSUME IndInv, Served, [Next]_vars PROVE Served'
  OBVIOUS
<1>0. inbox \in [Conn -> Seq(Message)]
  BY DEF Served, DataTypes
<1>1. CASE UNCHANGED vars
  BY <1>0, <1>1, ServeStutter DEF vars, netVars
<1>2. CASE \/ main_setup \/ tcp_server_create \/ tcp_server_listen_for_connections
           \/ main_test \/ main_log \/ main_leave
           \/ connection_manager_join \/ connection_manager_free \/ teardown
           \/ tcp_server_accept_fails \/ signal_handler
           \/ \E c \in Conn : \/ tcp_server_accept_connection(c)
                              \/ signal_in_worker(c) \/ send_sigpipe(c)
  <2>1. UNCHANGED <<pc, ioVars, device, client, inbox>>
    BY <1>2 DEF main_setup, tcp_server_create, tcp_server_listen_for_connections, main_test,
       main_log, main_leave, connection_manager_join, connection_manager_free, teardown,
       tcp_server_accept_fails, signal_handler, tcp_server_accept_connection, signal_in_worker,
       send_sigpipe, MainGoto, Start, netVars
  <2> QED
    BY <1>0, <2>1, ServeStutter
<1>3. ASSUME NEW c \in Conn, NEW m \in Message, Send(c, m) PROVE Served'
  <2>1. UNCHANGED <<pc, ioVars, device, client>>
    BY <1>3 DEF Send
  <2>2. Append(inbox[c], m) \in Seq(Message)
    BY <1>0
  <2>3. inbox' \in [Conn -> Seq(Message)]
    BY <1>0, <1>3, <2>2 DEF Send
  <2> QED
    BY <2>1, <2>3, ServeStutter
<1>4. ASSUME NEW c \in Conn,
             Connect(c) \/ connection_manager_register_connection(c)
             \/ \E how \in LeaveBy : Leave(c, how)
      PROVE  Served'
  BY <1>4, ServeConnect, ServeLeave
<1>5. ASSUME NEW c \in Conn,
             Worker(c) \/ thread_lock(c) \/ thread_fopen_fails(c) \/ stdio_write_fails(c)
             \/ tcp_connection_send_fails(c)
      PROVE  Served'
  BY <1>5, ServeBefore, ServeLog, ServeSeek, ServeText, ServeWrite, ServeWriteFails, ServeRead,
     ServeSend, ServeSendFails, ServeUnlock DEF Worker
<1> QED
  BY <1>1, <1>2, <1>3, <1>4, <1>5 DEF Next, Main

\* The types of the variables that neither TypeInv nor DataTypes has.
FlagTypes ==
  /\ main \in {"setup", "create", "listen", "test", "log", "accept", "register", "leave",
               "join", "teardown", "exited", "killed", "stuck"}
  /\ exit_program \in BOOLEAN /\ close_connections \in BOOLEAN
  /\ blocked \subseteq Conn
  /\ is_open \in [Conn -> BOOLEAN]

LEMMA FlagsNext == FlagTypes /\ [Next]_vars => FlagTypes'
<1> SUFFICES ASSUME FlagTypes, [Next]_vars PROVE FlagTypes'
  OBVIOUS
<1>1. CASE \/ UNCHANGED vars
           \/ \E c \in Conn :
                \/ Connect(c) \/ (\E m \in Message : Send(c, m))
                \/ (\E how \in LeaveBy : Leave(c, how))
                \/ connection_manager_register_connection(c)
  BY <1>1 DEF vars, mainVars, Connect, Send, Leave, connection_manager_register_connection,
     FlagTypes
<1>2. ASSUME NEW c \in Conn,
                \/ thread_test(c) \/ tcp_connection_receive_message(c)
                \/ tcp_connection_receive_error(c) \/ thread_fopen(c) \/ thread_fopen_fails(c)
                \/ thread_log(c) \/ thread_lock(c) \/ handle_seek(c) \/ handle_text(c)
                \/ stdio_write(c) \/ stdio_write_fails(c) \/ send_file_read(c)
                \/ tcp_connection_send_message(c) \/ tcp_connection_send_fails(c)
                \/ thread_unlock(c) \/ thread_exit(c)
      PROVE  FlagTypes'
  <2>1. UNCHANGED mainVars
    BY <1>2 DEF thread_test, tcp_connection_receive_message, tcp_connection_receive_error,
       thread_fopen, thread_fopen_fails, thread_log, thread_lock, handle_seek, handle_text,
       stdio_write, stdio_write_fails, send_file_read, tcp_connection_send_message,
       tcp_connection_send_fails, thread_unlock, thread_exit, Step
  <2>2. UNCHANGED is_open
    BY <1>2 DEF thread_test, tcp_connection_receive_message, tcp_connection_receive_error,
       thread_fopen, thread_fopen_fails, thread_log, thread_lock, handle_seek, handle_text,
       stdio_write, stdio_write_fails, send_file_read, tcp_connection_send_message,
       tcp_connection_send_fails, thread_unlock, thread_exit
  <2> QED
    BY <2>1, <2>2 DEF FlagTypes, mainVars
<1>3. CASE \/ main_setup \/ tcp_server_create \/ tcp_server_listen_for_connections
           \/ main_test \/ main_log \/ connection_manager_join \/ connection_manager_free
           \/ teardown \/ tcp_server_accept_fails
           \/ \E c \in Conn : send_sigpipe(c)
  <2>1. /\ UNCHANGED <<exit_program, close_connections, blocked, is_open>>
        /\ main' \in {"create", "listen", "test", "leave", "log", "accept", "join", "teardown",
                      "exited", "killed"}
    BY <1>3 DEF main_setup, tcp_server_create, tcp_server_listen_for_connections, main_test,
       main_log, connection_manager_join, connection_manager_free, teardown,
       tcp_server_accept_fails, send_sigpipe, MainGoto, Start
  <2> QED
    BY <2>1 DEF FlagTypes
<1>4. CASE main_leave
  BY <1>4 DEF main_leave, MainGoto, FlagTypes
<1>5. CASE signal_handler
  BY <1>5 DEF signal_handler, FlagTypes
<1>6. ASSUME NEW c \in Conn, tcp_server_accept_connection(c) PROVE FlagTypes'
  BY <1>6 DEF tcp_server_accept_connection, FlagTypes
<1>7. ASSUME NEW c \in Conn, signal_in_worker(c) PROVE FlagTypes'
  BY <1>7 DEF signal_in_worker, FlagTypes
<1>8. ASSUME NEW c \in Conn, tcp_connection_receive_eof(c) PROVE FlagTypes'
  BY <1>8 DEF tcp_connection_receive_eof, Step, mainVars, FlagTypes
<1> QED
  BY <1>1, <1>2, <1>3, <1>4, <1>5, <1>6, <1>7, <1>8 DEF Next, Main, Worker

LEMMA ServeInvariance == Spec => [](IndInv /\ Served /\ FlagTypes)
<1>1. Init => FlagTypes
  <2> SUFFICES ASSUME Init PROVE FlagTypes
    OBVIOUS
  <2>1. /\ main = "setup" /\ exit_program = FALSE /\ close_connections = FALSE /\ blocked = {}
        /\ is_open = [c \in Conn |-> FALSE]
    BY DEF Init
  <2> QED
    BY <2>1 DEF FlagTypes
<1> QED
  BY <1>1, InitInd, NextInd, ServeInit, ServeNext, FlagsNext, PTL DEF Spec

(* Every variable of the server keeps its type, whatever fails: message is *)
(* a line or NULL, f_pos a position or NULL (never a position computed     *)
(* from NULL: a worker that reads has the device open), and the device     *)
(* never holds more than MAX_OPS commands.                                 *)
THEOREM ServerTypes == Spec => []TypeOK
<1>1. IndInv /\ Served /\ FlagTypes => TypeOK
  BY DEF IndInv, TypeInv, Served, DataTypes, FlagTypes, TypeOK, Outside, Critical
<1> QED
  BY <1>1, ServeInvariance, PTL

-----------------------------------------------------------------------------
(* The refinement.                                                         *)

PhaseAt(p, s) ==
  CASE p \in {"fopen", "nofile", "lock", "handle", "write"} -> "asked"
    [] p = "syslog" \/ (p = "unlock" /\ s = NULL) -> "refused"
    [] p \in {"read", "send", "unlock"} /\ s # NULL -> "answering"
    [] OTHER -> "idle"

LEMMA PhaseOf ==
  ASSUME NEW c
  PROVE  Phase(c) = PhaseAt(pc[c], snapshot[c]) /\ Phase(c)' = PhaseAt(pc'[c], snapshot'[c])
  BY Zenon DEF Phase, PhaseAt

(* The phase of a worker at each of its places.                            *)
LEMMA PhasesAre ==
  ASSUME NEW s
  PROVE  /\ \A p \in {"fopen", "nofile", "lock", "handle", "write"} : PhaseAt(p, s) = "asked"
         /\ PhaseAt("syslog", s) = "refused"
         /\ PhaseAt("unlock", NULL) = "refused"
         /\ s # NULL => \A p \in {"read", "send", "unlock"} : PhaseAt(p, s) = "answering"
         /\ \A p \in {"none", "loop", "recv", "exit", "done"} : PhaseAt(p, s) = "idle"
  BY DEF PhaseAt

Request(c) == IF Phase(c) = "idle" THEN NULL ELSE message[c]

PhaseMap == [c \in Conn |-> Phase(c)]
RequestMap == [c \in Conn |-> IF Phase(c) = "idle" THEN NULL ELSE message[c]]
GoneMap == [c \in Conn |-> client[c] \in {"closed", "reset"}]

(* LineServer has operators of its own for the device; they are the same.  *)
LEMMA AbstractOps ==
  /\ \A cmds : Abstract!Stream(cmds) = Stream(cmds)
  /\ \A cmds, cmd, n : Abstract!Keep(cmds, cmd, n) = Keep(cmds, cmd, n)
  /\ \A cmds, a : Abstract!SeekIsValid(cmds, a) = SeekIsValid(cmds, a)
  /\ \A cmds, a : Abstract!SeekPosition(cmds, a) = SeekPosition(cmds, a)
<1>1. \A s : Abstract!FlattenSeq(s) = FlattenSeq(s)
  BY Zenon DEF Abstract!FlattenSeq, FlattenSeq
<1>2. \A cmds : Abstract!Stream(cmds) = Stream(cmds)
  BY <1>1, Zenon DEF Abstract!Stream, Stream
<1>3. \A cmds, cmd, n : Abstract!Keep(cmds, cmd, n) = Keep(cmds, cmd, n)
  BY Zenon DEF Abstract!Keep, Keep
<1>4. \A cmds, a : Abstract!SeekIsValid(cmds, a) = SeekIsValid(cmds, a)
  BY Zenon DEF Abstract!SeekIsValid, SeekIsValid
<1>5. \A cmds, i : Abstract!CommandStart(cmds, i) = CommandStart(cmds, i)
  BY <1>1, Zenon DEF Abstract!CommandStart, CommandStart
<1>6. \A cmds, a : Abstract!SeekPosition(cmds, a) = SeekPosition(cmds, a)
  BY <1>5, Zenon DEF Abstract!SeekPosition, SeekPosition
<1> QED
  BY <1>2, <1>3, <1>4, <1>6, Zenon

\* How a step of connection c changes the maps.
LEMMA MapsChange ==
  ASSUME NEW c \in Conn, \A d \in Conn \ {c} : Same(d)
  PROVE  /\ PhaseMap' = [PhaseMap EXCEPT ![c] = Phase(c)']
         /\ RequestMap' = [RequestMap EXCEPT ![c] = Request(c)']
         /\ GoneMap' = [GoneMap EXCEPT ![c] = (client'[c] \in {"closed", "reset"})]
<1>1. \A d \in Conn \ {c} : Phase(d)' = Phase(d) /\ Request(d)' = Request(d)
  BY PhaseOf DEF Same, Request
<1>2. PhaseMap' = [PhaseMap EXCEPT ![c] = Phase(c)']
  BY <1>1 DEF PhaseMap
<1>3. RequestMap' = [RequestMap EXCEPT ![c] = Request(c)']
  BY <1>1 DEF RequestMap, Request
<1>4. GoneMap' = [GoneMap EXCEPT ![c] = (client'[c] \in {"closed", "reset"})]
  BY DEF GoneMap, Same
<1> QED
  BY <1>2, <1>3, <1>4

\* The same abstract state: no step of LineServer.
LEMMA Stutters ==
  ASSUME UNCHANGED <<log, Junk, snapshot, reply, PhaseMap, RequestMap, GoneMap>>
  PROVE  UNCHANGED Abstract!vars
  BY DEF Abstract!vars, PhaseMap, RequestMap, GoneMap

LEMMA StuttersAt ==
  ASSUME NEW c \in Conn, \A d \in Conn \ {c} : Same(d),
         UNCHANGED <<log, Junk, snapshot, reply>>,
         Phase(c)' = Phase(c), Request(c)' = Request(c),
         client'[c] \in Gone <=> client[c] \in Gone
  PROVE  UNCHANGED Abstract!vars
<1>1. UNCHANGED PhaseMap
  BY MapsChange DEF PhaseMap
<1>2. UNCHANGED RequestMap
  BY MapsChange DEF RequestMap, Request
<1>3. UNCHANGED GoneMap
  BY DEF GoneMap, Same, Gone
<1> QED
  BY <1>1, <1>2, <1>3, Stutters

LEMMA GotoMaps ==
  ASSUME NEW c \in Conn, \A d \in Conn \ {c} : Same(d), client' = client
  PROVE  Abstract!Goto(c, Phase(c), Phase(c)')
<1>1. PhaseMap[c] = Phase(c) /\ PhaseMap' = [PhaseMap EXCEPT ![c] = Phase(c)']
  BY MapsChange DEF PhaseMap
<1>2. UNCHANGED GoneMap
  BY DEF GoneMap
<1> QED
  BY <1>1, <1>2, Zenon DEF Abstract!Goto, PhaseMap, GoneMap

-----------------------------------------------------------------------------

JunkFacts ==
  /\ (\A c \in Conn : pc[c] # "write") => Junk = partial
  /\ \A c \in Conn : \A j, w \in Seq(Bytes) :
       pc[c] = "write" /\ partial = j \o w /\ Line(message[c]) = w \o chunk[c] => Junk = j

(* What Max is of the few numbers Junk takes it of.                        *)
LEMMA MaxOfOne ==
  ASSUME NEW n \in Nat
  PROVE  Max({n} \cup {0}) = n /\ Max({} \cup {0}) = 0
<1>1. n \in {n} \cup {0} /\ \A i \in {n} \cup {0} : n >= i
  OBVIOUS
<1>2. \A x \in {n} \cup {0} : (\A i \in {n} \cup {0} : x >= i) => x = n
  OBVIOUS
<1>3. Max({n} \cup {0}) = n
  BY <1>1, <1>2 DEF Max
<1> QED
  BY <1>3 DEF Max

(* Junk is what the device held before the line that is being written.     *)
LEMMA JunkIs == IndInv /\ Served => JunkFacts
<1> SUFFICES ASSUME IndInv, Served PROVE JunkFacts
  OBVIOUS
<1>0. partial \in Seq(Bytes)
  BY DEF Served, DataTypes
<1> DEFINE writers == {d \in Conn : pc[d] = "write"}
           written == {Len(Line(message[c])) - Len(chunk[c]) : c \in writers}
<1>1. Junk = SubSeq(partial, 1, Len(partial) - Max(written \cup {0}))
  BY Zenon DEF Junk
<1>2. ASSUME \A c \in Conn : pc[c] # "write" PROVE Junk = partial
  <2>1. written = {}
    BY <1>2
  <2>2. Max(written \cup {0}) = 0
    BY <2>1, MaxOfOne
  <2>3. Len(partial) - 0 = Len(partial) /\ SubSeq(partial, 1, Len(partial)) = partial
    BY <1>0, SubSeqFull
  <2> HIDE DEF written
  <2> QED
    BY <1>1, <2>2, <2>3
<1>3. ASSUME NEW c \in Conn, NEW j \in Seq(Bytes), NEW w \in Seq(Bytes),
             pc[c] = "write", partial = j \o w, Line(message[c]) = w \o chunk[c]
      PROVE  Junk = j
  <2>1. writers = {c}
    <3>1. \A d \in Conn : pc[d] = "write" => file_mutex = d
      BY DEF IndInv, MutexDiscipline
    <3> QED
      BY <1>3, <3>1
  <2>2. written = {Len(Line(message[c])) - Len(chunk[c])}
    BY <2>1
  <2> HIDE DEF writers, written
  <2>3. Len(Line(message[c])) - Len(chunk[c]) = Len(w)
    <3>1. PICK k \in Seq(Bytes) : k = chunk[c]
      BY DEF Served, DataTypes
    <3>2. Len(w \o k) = Len(w) + Len(k) /\ Len(w) \in Nat /\ Len(k) \in Nat
      OBVIOUS
    <3> QED
      BY <1>3, <3>1, <3>2
  <2>4. Max(written \cup {0}) = Len(w)
    <3>1. Len(w) \in Nat
      OBVIOUS
    <3> QED
      BY <2>2, <2>3, <3>1, MaxOfOne
  <2>5. Len(j \o w) - Len(w) = Len(j)
    OBVIOUS
  <2>6. SubSeq(j \o w, 1, Len(j)) = j
    <3>1. IsPrefix(j, j \o w)
      BY PrefixConcat
    <3> QED
      BY <3>1 DEF IsPrefix
  <2> QED
    BY <1>1, <1>3, <2>4, <2>5, <2>6, Zenon
<1> QED
  BY <1>2, <1>3 DEF JunkFacts

LEMMA JunkPrimed == (IndInv /\ Served)' => JunkFacts'
  BY JunkIs, PTL

Inv == IndInv /\ Served

(* Nobody begins to write, or stops: the junk stays.                       *)
LEMMA JunkStays ==
  ASSUME Inv, Inv', NEW c \in Conn, \A d \in Conn \ {c} : Same(d), partial' = partial,
         pc[c] # "write", pc'[c] # "write"
  PROVE  Junk' = Junk
<1>1. JunkFacts /\ JunkFacts'
  BY JunkIs, JunkPrimed DEF Inv
<1>2. CASE \A d \in Conn : pc[d] # "write"
  <2>1. \A d \in Conn : pc'[d] # "write"
    BY <1>2 DEF Same
  <2> QED
    BY <1>1, <1>2, <2>1 DEF JunkFacts
<1>3. ASSUME NEW d \in Conn, pc[d] = "write" PROVE Junk' = Junk
  <2>1. PICK j, w \in Seq(Bytes) : partial = j \o w /\ Line(message[d]) = w \o chunk[d]
    BY <1>3, WriteFacts DEF Inv
  <2>2. pc'[d] = "write" /\ message'[d] = message[d] /\ chunk'[d] = chunk[d]
    BY <1>3 DEF Same
  <2>3. Line(message[d])' = Line(message[d])
    BY <2>2, Zenon DEF Line
  <2>4. Junk = j
    BY <1>1, <1>3, <2>1 DEF JunkFacts
  <2>5. Junk' = j
    BY <1>1, <2>1, <2>2, <2>3 DEF JunkFacts
  <2> QED
    BY <2>4, <2>5
<1> QED
  BY <1>2, <1>3

\* A worker that owns the mutex is alone with the device.
LEMMA JunkAlone ==
  ASSUME Inv, Inv', NEW c \in Conn, \A d \in Conn \ {c} : Same(d), pc[c] \in Critical
  PROVE  /\ pc[c] # "write" => Junk = partial
         /\ pc'[c] # "write" => Junk' = partial'
<1>1. JunkFacts /\ JunkFacts'
  BY JunkIs, JunkPrimed DEF Inv
<1>2. \A d \in Conn \ {c} : pc[d] # "write"
  BY DEF Inv, IndInv, MutexDiscipline, Critical
<1>3. \A d \in Conn \ {c} : pc'[d] # "write"
  BY <1>2 DEF Same
<1> QED
  BY <1>1, <1>2, <1>3 DEF JunkFacts

(* A step of one worker leaves the others alone.                           *)
LEMMA OthersSame ==
  ASSUME Inv, NEW c \in Conn,
         \/ Worker(c) \/ thread_lock(c) \/ thread_fopen_fails(c) \/ stdio_write_fails(c)
         \/ tcp_connection_send_fails(c)
  PROVE  \A d \in Conn \ {c} : Same(d)
<1> SUFFICES ASSUME NEW d \in Conn, d # c PROVE Same(d)
  OBVIOUS
<1>t. IndInv /\ Served
  BY DEF Inv
<1>f. /\ DOMAIN pc = Conn /\ DOMAIN message = Conn /\ DOMAIN f_pos = Conn /\ DOMAIN chunk = Conn
      /\ DOMAIN snapshot = Conn /\ DOMAIN reply = Conn /\ DOMAIN client = Conn
  BY <1>t, WorkerFacts
<1> USE DEF Same, Step, ioVars, netVars
<1>1. CASE thread_test(c) \/ thread_fopen_fails(c) \/ thread_lock(c) \/ thread_log(c)
           \/ thread_exit(c) \/ tcp_connection_send_fails(c) \/ thread_fopen(c)
  BY <1>f, <1>1 DEF thread_test, thread_fopen_fails, thread_lock, thread_log, thread_exit,
     tcp_connection_send_fails, thread_fopen
<1>2. CASE tcp_connection_receive_message(c) \/ tcp_connection_receive_eof(c)
           \/ tcp_connection_receive_error(c)
  BY <1>f, <1>2 DEF tcp_connection_receive_message, tcp_connection_receive_eof,
     tcp_connection_receive_error
<1>3. CASE handle_seek(c) \/ handle_text(c)
  BY <1>f, <1>3 DEF handle_seek, handle_text
<1>4. CASE stdio_write(c) \/ stdio_write_fails(c)
  BY <1>f, <1>4 DEF stdio_write, stdio_write_fails
<1>5. CASE send_file_read(c) \/ tcp_connection_send_message(c) \/ thread_unlock(c)
  BY <1>f, <1>5 DEF send_file_read, tcp_connection_send_message, thread_unlock
<1> QED
  BY <1>1, <1>2, <1>3, <1>4, <1>5 DEF Worker

-----------------------------------------------------------------------------

\* Steps before the device is used, and after it.
LEMMA MapsQuiet ==
  ASSUME Inv, Inv', NEW c \in Conn,
         \/ thread_test(c) \/ tcp_connection_receive_eof(c) \/ tcp_connection_receive_error(c)
         \/ thread_fopen(c) \/ thread_fopen_fails(c) \/ thread_lock(c) \/ thread_exit(c)
         \/ (thread_log(c) /\ pc[c] # "nofile")
         \/ send_file_read(c) \/ tcp_connection_send_fails(c)
  PROVE  UNCHANGED Abstract!vars
<1>o. \A d \in Conn \ {c} : Same(d)
  BY OthersSame DEF Worker
<1>t. IndInv /\ Served
  BY DEF Inv
<1> DEFINE from == pc[c]
           to == pc'[c]
<1>1. UNCHANGED <<log, partial, snapshot, reply>> /\ from # "write" /\ to # "write"
  BY <1>t, WorkerFacts DEF thread_test, tcp_connection_receive_eof, tcp_connection_receive_error,
     thread_fopen, thread_fopen_fails, thread_lock, thread_exit, thread_log, send_file_read,
     tcp_connection_send_fails, Step, ioVars, device
<1>2. Junk' = Junk
  BY <1>1, <1>o, JunkStays
<1>3. client'[c] \in Gone <=> client[c] \in Gone
  BY <1>t, WorkerFacts DEF thread_test, tcp_connection_receive_eof, tcp_connection_receive_error,
     thread_fopen, thread_fopen_fails, thread_lock, thread_exit, thread_log, send_file_read,
     tcp_connection_send_fails, netVars, Gone
<1>4. CASE thread_test(c) \/ tcp_connection_receive_eof(c) \/ tcp_connection_receive_error(c)
           \/ thread_exit(c)
  <2>1. from \in {"loop", "recv", "exit"} /\ to \in {"loop", "recv", "exit", "done"}
    BY <1>4, <1>t, WorkerFacts DEF thread_test, tcp_connection_receive_eof,
       tcp_connection_receive_error, thread_exit, Step
  <2>2. Phase(c) = "idle" /\ Phase(c)' = "idle"
    BY <2>1, PhaseOf, PhasesAre
  <2>3. Request(c)' = Request(c)
    BY <2>2 DEF Request
  <2> QED
    BY <1>1, <1>2, <1>3, <1>o, <2>2, <2>3, StuttersAt
<1>5. CASE ~(thread_test(c) \/ tcp_connection_receive_eof(c) \/ tcp_connection_receive_error(c)
             \/ thread_exit(c))
  <2>1. message' = message /\ snapshot'[c] = snapshot[c]
    BY <1>1, <1>5 DEF thread_fopen, thread_fopen_fails, thread_lock, thread_log, send_file_read,
       tcp_connection_send_fails, ioVars
  <2>2. \/ from \in {"fopen", "lock"} /\ to \in {"lock", "nofile", "handle"}
        \/ from = "syslog" /\ to = "unlock"
        \/ from \in {"read", "send"} /\ to \in {"send", "unlock"}
    BY <1>5, <1>t, WorkerFacts DEF thread_fopen, thread_fopen_fails, thread_lock, thread_log,
       send_file_read, tcp_connection_send_fails, Step
  <2>3. /\ from = "syslog" => snapshot[c] = NULL
        /\ from \in {"read", "send"} => snapshot[c] # NULL
    <3>1. from = "syslog" => snapshot[c] = NULL
      BY <1>t, WorkerFacts DEF ServeOf, ServeAt
    <3>2. from \in {"read", "send"} => snapshot[c] \in Seq(Bytes)
      BY <1>t, AnswerFacts
    <3> QED
      BY <3>1, <3>2, LineAssumption
  <2>4. Phase(c)' = Phase(c)
    BY <2>1, <2>2, <2>3, PhaseOf, PhasesAre
  <2>5. Request(c)' = Request(c)
    BY <2>1, <2>4 DEF Request
  <2> QED
    BY <1>1, <1>2, <1>3, <1>o, <2>4, <2>5, StuttersAt
<1> QED
  BY <1>4, <1>5

\* A line arrives: Ask.
LEMMA MapsReceive ==
  ASSUME Inv, Inv', NEW c \in Conn, tcp_connection_receive_message(c)
  PROVE  \E m \in Message : Abstract!Ask(c, m)
<1>o. \A d \in Conn \ {c} : Same(d)
  BY OthersSame DEF Worker
<1>t. IndInv /\ Served
  BY DEF Inv
<1>1. /\ UNCHANGED <<log, partial, snapshot, reply, client>>
      /\ pc[c] = "recv" /\ pc'[c] = "fopen"
  BY <1>t, WorkerFacts DEF tcp_connection_receive_message, Step, device
<1>2. Junk' = Junk
  BY <1>1, <1>o, JunkStays
<1>3. Phase(c) = "idle" /\ Phase(c)' = "asked"
  BY <1>1, PhaseOf, PhasesAre
<1>4. PICK m \in Message : m = message'[c]
  <2>1. Head(inbox[c]) \in Message
    BY <1>t, WorkerFacts DEF tcp_connection_receive_message
  <2> QED
    BY <1>t, <2>1, WorkerFacts DEF tcp_connection_receive_message
<1>5. Request(c)' = m
  BY <1>3, <1>4 DEF Request
<1>6. RequestMap' = [RequestMap EXCEPT ![c] = m]
  BY <1>o, <1>5, MapsChange
<1>7. Abstract!Goto(c, "idle", "asked")
  <2>1. Abstract!Goto(c, Phase(c), Phase(c)')
    BY <1>1, <1>o, GotoMaps
  <2> QED
    BY <1>3, <2>1
<1>8. Abstract!Ask(c, m)
  BY <1>1, <1>2, <1>6, <1>7, Zenon DEF Abstract!Ask, RequestMap
<1> QED
  BY <1>8

\* The syslog of a failing fopen: Drop.
LEMMA MapsDrop ==
  ASSUME Inv, Inv', NEW c \in Conn, thread_log(c), pc[c] = "nofile"
  PROVE  Abstract!Drop(c)
<1>o. \A d \in Conn \ {c} : Same(d)
  BY OthersSame DEF Worker
<1>t. IndInv /\ Served
  BY DEF Inv
<1>1. UNCHANGED <<log, partial, snapshot, reply, client>> /\ pc'[c] = "loop"
  BY <1>t, WorkerFacts DEF thread_log, Step, device, ioVars, netVars
<1>2. Junk' = Junk
  BY <1>1, <1>o, JunkStays
<1>3. Phase(c) = "asked" /\ Phase(c)' = "idle"
  BY <1>1, PhaseOf, PhasesAre
<1>4. RequestMap' = [RequestMap EXCEPT ![c] = NULL]
  <2>1. Request(c)' = NULL
    BY <1>3 DEF Request
  <2> QED
    BY <1>o, <2>1, MapsChange
<1>5. Abstract!Goto(c, "asked", "idle")
  <2>1. Abstract!Goto(c, Phase(c), Phase(c)')
    BY <1>1, <1>o, GotoMaps
  <2> QED
    BY <1>3, <2>1
<1> QED
  BY <1>1, <1>2, <1>4, <1>5, Zenon DEF Abstract!Drop, RequestMap

\* What every step of a worker that is handling a line maps to.
LEMMA HandlingMaps ==
  ASSUME Inv, Inv', NEW c \in Conn, \A d \in Conn \ {c} : Same(d), client' = client,
         Phase(c) = "asked", NEW to, Phase(c)' = to, to # "idle", message'[c] = message[c]
  PROVE  /\ Abstract!Goto(c, "asked", to)
         /\ RequestMap' = RequestMap /\ RequestMap[c] = message[c] /\ PhaseMap[c] = "asked"
<1>1. Abstract!Goto(c, Phase(c), Phase(c)')
  BY GotoMaps
<1>2. Request(c)' = Request(c) /\ Request(c) = message[c]
  BY DEF Request
<1>3. RequestMap' = [RequestMap EXCEPT ![c] = Request(c)'] /\ RequestMap[c] = Request(c)
  BY MapsChange DEF RequestMap, Request
<1>4. RequestMap' = RequestMap
  BY <1>2, <1>3 DEF RequestMap
<1> QED
  BY <1>1, <1>2, <1>3, <1>4 DEF PhaseMap

(* The ioctl: SeekTo.                                                      *)
LEMMA MapsSeek ==
  ASSUME Inv, Inv', NEW c \in Conn, handle_seek(c)
  PROVE  Abstract!SeekTo(c)
<1>o. \A d \in Conn \ {c} : Same(d)
  BY OthersSame DEF Worker
<1>t. IndInv /\ Served
  BY DEF Inv
<1>1. /\ UNCHANGED <<log, partial, reply, client, message>>
      /\ pc[c] = "handle" /\ pc[c] \in Critical /\ message[c].op = "seek"
  BY DEF handle_seek, device, netVars, Critical
<1>2. Junk' = Junk
  <2>1. pc'[c] # "write"
    BY <1>t, WorkerFacts DEF handle_seek, Step
  <2> QED
    BY <1>1, <1>o, <2>1, JunkStays
<1>3. Phase(c) = "asked"
  BY <1>1, PhaseOf, PhasesAre
<1>4. snapshot[c] = NULL
  BY <1>1, <1>t, WorkerFacts DEF ServeOf, ServeAt, Quiet
<1>5. CASE SeekIsValid(log, message[c])
  <2> DEFINE a == SubSeq(Stream(log), SeekPosition(log, message[c]) + 1, Len(Stream(log)))
  <2>1. snapshot' = [snapshot EXCEPT ![c] = a] /\ pc'[c] = "read"
    BY <1>5, <1>t, WorkerFacts DEF handle_seek, Step
  <2>2. snapshot'[c] # NULL
    <3>1. ServeOf(c)'
      BY DEF Inv, Served, ServeInv
    <3>2. snapshot'[c] \in Seq(Bytes)
      BY <2>1, <3>1 DEF ServeOf, ServeAt, Answering
    <3> QED
      BY <3>2, LineAssumption
  <2>3. Phase(c)' = "answering"
    <3>1. Phase(c)' = PhaseAt("read", snapshot'[c])
      BY <2>1, PhaseOf
    <3> QED
      BY <2>2, <3>1, PhasesAre
  <2>4. /\ Abstract!Goto(c, "asked", "answering")
        /\ RequestMap' = RequestMap /\ RequestMap[c] = message[c] /\ PhaseMap[c] = "asked"
    BY <1>1, <1>3, <1>o, <2>3, HandlingMaps
  <2>5. Abstract!Answer(c, a)
    BY <1>1, <2>1, <2>4, Zenon DEF Abstract!Answer, RequestMap
  <2>6. /\ Abstract!SeekIsValid(log, RequestMap[c])
        /\ a = SubSeq(Abstract!Stream(log), Abstract!SeekPosition(log, RequestMap[c]) + 1,
                      Len(Abstract!Stream(log)))
    BY <1>5, <2>4, AbstractOps, Zenon
  <2>7. Abstract!Asked(c, "seek")
    BY <1>1, <2>4, Zenon DEF Abstract!Asked, PhaseMap, RequestMap
  <2> HIDE DEF a
  <2> QED
    BY <1>1, <1>2, <2>5, <2>6, <2>7, Zenon DEF Abstract!SeekTo, RequestMap
<1>6. CASE ~SeekIsValid(log, message[c])
  <2>1. snapshot' = snapshot /\ pc'[c] = "syslog"
    BY <1>6, <1>t, WorkerFacts DEF handle_seek, Step
  <2>2. Phase(c)' = "refused"
    BY <2>1, PhaseOf, PhasesAre
  <2>3. /\ Abstract!Goto(c, "asked", "refused")
        /\ RequestMap' = RequestMap /\ RequestMap[c] = message[c] /\ PhaseMap[c] = "asked"
    BY <1>1, <1>3, <1>o, <2>2, HandlingMaps
  <2>4. Abstract!Refuse(c)
    BY <1>1, <2>1, <2>3, Zenon DEF Abstract!Refuse, RequestMap
  <2>5. ~Abstract!SeekIsValid(log, RequestMap[c])
    BY <1>6, <2>3, AbstractOps, Zenon
  <2>6. Abstract!Asked(c, "seek")
    BY <1>1, <2>3, Zenon DEF Abstract!Asked, PhaseMap, RequestMap
  <2> QED
    BY <1>1, <1>2, <2>4, <2>5, <2>6, Zenon DEF Abstract!SeekTo, RequestMap
<1> QED
  BY <1>5, <1>6

\* fprintf has the line in its buffer: nothing has happened to the device.
LEMMA MapsText ==
  ASSUME Inv, Inv', NEW c \in Conn, handle_text(c)
  PROVE  UNCHANGED Abstract!vars
<1>o. \A d \in Conn \ {c} : Same(d)
  BY OthersSame DEF Worker
<1>t. IndInv /\ Served
  BY DEF Inv
<1>1. /\ UNCHANGED <<log, partial, snapshot, reply, client, message>>
      /\ pc[c] = "handle" /\ pc'[c] = "write" /\ pc[c] \in Critical /\ message[c].op = "text"
      /\ chunk'[c] = Line(message[c])
  BY <1>t, WorkerFacts DEF handle_text, Step, device, netVars, Critical
<1>2. Junk = partial
  BY <1>1, <1>o, JunkAlone
<1>3. Junk' = partial'
  <2>1. message[c] \in Message /\ partial \in Seq(Bytes)
    BY <1>1, <1>t, InsideFacts
  <2>2. Line(message[c]) \in Seq(Bytes)
    BY <1>1, <2>1, LineOfText
  <2>3. partial' = partial \o << >> /\ << >> \in Seq(Bytes)
    BY <1>1, <2>1, ConcatEmptySeq
  <2>4. Line(message[c])' = << >> \o chunk'[c]
    <3>1. Line(message[c])' = Line(message[c])
      BY <1>1, Zenon DEF Line
    <3> QED
      BY <1>1, <2>2, <3>1, ConcatEmptySeq
  <2>5. JunkFacts'
    BY JunkPrimed DEF Inv
  <2>6. Junk' = partial
    BY <1>1, <2>1, <2>3, <2>4, <2>5, Zenon DEF JunkFacts
  <2> QED
    BY <1>1, <2>6
<1>4. Phase(c)' = Phase(c)
  BY <1>1, PhaseOf, PhasesAre
<1>5. Request(c)' = Request(c)
  BY <1>1, <1>4 DEF Request
<1>6. Junk' = Junk
  BY <1>1, <1>2, <1>3
<1> QED
  BY <1>1, <1>4, <1>5, <1>6, <1>o, StuttersAt

\* What is written so far, before a write(2).
LEMMA JunkOfWriter ==
  ASSUME Inv, NEW c \in Conn, pc[c] = "write"
  PROVE  \E w \in Seq(Bytes) :
           Junk \in Seq(Bytes) /\ partial = Junk \o w /\ Line(message[c]) = w \o chunk[c]
<1>1. PICK j, w \in Seq(Bytes) : partial = j \o w /\ Line(message[c]) = w \o chunk[c]
  BY WriteFacts DEF Inv
<1>2. Junk = j
  BY <1>1, JunkIs DEF JunkFacts, Inv
<1> QED
  BY <1>1, <1>2

\* A write(2): nothing yet, or with its last piece the whole line: Store.
LEMMA MapsWrite ==
  ASSUME Inv, Inv', NEW c \in Conn, stdio_write(c)
  PROVE  UNCHANGED Abstract!vars \/ Abstract!Store(c)
<1>o. \A d \in Conn \ {c} : Same(d)
  BY OthersSame DEF Worker
<1>t. IndInv /\ Served
  BY DEF Inv
<1>1. /\ UNCHANGED <<reply, client, message>>
      /\ pc[c] = "write" /\ pc[c] \in Critical
  BY DEF stdio_write, Step, netVars, Critical
<1>2. Phase(c) = "asked"
  BY <1>1, PhaseOf, PhasesAre
<1>3. PICK j \in Seq(Bytes), w \in Seq(Bytes) :
        j = Junk /\ partial = j \o w /\ Line(message[c]) = w \o chunk[c]
  BY <1>1, JunkOfWriter
<1>4. /\ LastPiece(c) =>
           partial' = << >> /\ log' = Keep(log, j \o Line(message[c]), MAX_OPS)
      /\ ~LastPiece(c) =>
           /\ log' = log
           /\ \E v \in Seq(Bytes) : partial' = j \o v /\ Line(message[c]) = v \o Unwritten(c)
  BY <1>3, <1>t, WriteEffect
<1>5. message[c].op = "text" /\ snapshot[c] = NULL
  BY <1>1, <1>t, WriteFacts
<1>6. CASE LastPiece(c)
  <2>1. /\ pc'[c] = "read" /\ snapshot' = [snapshot EXCEPT ![c] = Stream(log')]
    BY <1>6, <1>t, WorkerFacts DEF stdio_write, Step
  <2>2. Phase(c)' = "answering"
    <3>1. snapshot'[c] \in Seq(Bytes)
      BY <2>1 DEF Inv, Served, ServeInv, ServeOf, ServeAt, Answering
    <3>2. Phase(c)' = PhaseAt("read", snapshot'[c])
      BY <2>1, PhaseOf
    <3> QED
      BY <3>1, <3>2, PhasesAre, LineAssumption
  <2>3. /\ Abstract!Goto(c, "asked", "answering")
        /\ RequestMap' = RequestMap /\ RequestMap[c] = message[c] /\ PhaseMap[c] = "asked"
    BY <1>1, <1>2, <1>o, <2>2, HandlingMaps
  <2>4. Junk' = << >>
    BY <1>1, <1>4, <1>6, <1>o, <2>1, JunkAlone
  <2>5. Abstract!Answer(c, Abstract!Stream(log'))
    BY <1>1, <2>1, <2>3, AbstractOps, Zenon DEF Abstract!Answer, RequestMap
  <2>6. Abstract!Asked(c, "text")
    BY <1>5, <2>3, Zenon DEF Abstract!Asked, PhaseMap, RequestMap
  <2>7. Abstract!Line(c) = Line(message[c])
    BY <2>3, Zenon DEF Abstract!Line, Line, RequestMap
  <2>8. log' = Abstract!Keep(log, Junk \o Abstract!Line(c), MAX_OPS)
    BY <1>3, <1>4, <1>6, <2>7, AbstractOps, Zenon
  <2> QED
    BY <2>4, <2>5, <2>6, <2>8, Zenon DEF Abstract!Store
<1>7. CASE ~LastPiece(c)
  <2>1. pc'[c] = "write" /\ snapshot' = snapshot /\ chunk'[c] = Unwritten(c)
    BY <1>5, <1>7, <1>t, WorkerFacts DEF stdio_write, Step
  <2>2. PICK v \in Seq(Bytes) : partial' = j \o v /\ Line(message[c]) = v \o Unwritten(c)
    BY <1>4, <1>7
  <2>3. Line(message[c])' = v \o chunk'[c]
    <3>1. Line(message[c])' = Line(message[c])
      BY <1>1, Zenon DEF Line
    <3> QED
      BY <2>1, <2>2, <3>1, Zenon
  <2>4. Junk' = Junk
    <3>1. JunkFacts'
      BY JunkPrimed DEF Inv
    <3>2. Junk' = j
      BY <2>1, <2>2, <2>3, <3>1, Zenon DEF JunkFacts
    <3> QED
      BY <1>3, <3>2
  <2>5. Phase(c)' = Phase(c)
    BY <1>2, <2>1, PhaseOf, PhasesAre
  <2>6. Request(c)' = Request(c)
    BY <1>1, <2>5 DEF Request
  <2> QED
    BY <1>1, <1>4, <1>7, <1>o, <2>1, <2>4, <2>5, <2>6, StuttersAt
<1> QED
  BY <1>6, <1>7

\* A write(2) that fails leaves a part of the line behind: Lose.
LEMMA MapsWriteFails ==
  ASSUME Inv, Inv', NEW c \in Conn, stdio_write_fails(c)
  PROVE  Abstract!Lose(c)
<1>o. \A d \in Conn \ {c} : Same(d)
  BY OthersSame
<1>t. IndInv /\ Served
  BY DEF Inv
<1>1. /\ UNCHANGED <<log, partial, reply, client, message>>
      /\ pc[c] = "write" /\ pc[c] \in Critical
  BY DEF stdio_write_fails, Step, netVars, device, Critical
<1>2. Phase(c) = "asked"
  BY <1>1, PhaseOf, PhasesAre
<1>3. PICK j \in Seq(Bytes), w \in Seq(Bytes) :
        j = Junk /\ partial = j \o w /\ Line(message[c]) = w \o chunk[c]
  BY <1>1, JunkOfWriter
<1>4. message[c] \in Message /\ message[c].op = "text" /\ snapshot[c] = NULL /\ chunk[c] # << >>
      /\ chunk[c] \in Seq(Bytes)
  BY <1>1, <1>t, WriteFacts
<1>5. Len(w) \in 0 .. Len(message[c].text) /\ w = SubSeq(Line(message[c]), 1, Len(w))
  <2>1. PICK k \in Seq(Bytes) : k = chunk[c] /\ k # << >>
    BY <1>4
  <2>2. Len(w \o k) = Len(w) + Len(k) /\ Len(w) \in Nat /\ Len(k) \in Nat \ {0}
    BY <2>1
  <2>3. Len(message[c].text) \in Nat /\ Len(Line(message[c])) = Len(message[c].text) + 1
    BY <1>4, LineOfText
  <2>4. Len(w) + Len(k) = Len(message[c].text) + 1
    BY <1>3, <2>1, <2>2, <2>3
  <2>5. IsPrefix(w, w \o k)
    BY PrefixConcat
  <2>6. w = SubSeq(w \o k, 1, Len(w))
    BY <2>5 DEF IsPrefix
  <2>7. w = SubSeq(Line(message[c]), 1, Len(w))
    BY <1>3, <2>1, <2>6, Zenon
  <2> QED
    BY <2>2, <2>3, <2>4, <2>7
<1>6. /\ pc'[c] \in {"read", "syslog"}
      /\ snapshot' = [snapshot EXCEPT ![c] = IF LastPiece(c) THEN Stream(log) ELSE NULL]
      /\ pc'[c] = IF LastPiece(c) THEN "read" ELSE "syslog"
  BY <1>t, WorkerFacts DEF stdio_write_fails, Step
<1>7. Junk' = j \o w
  BY <1>1, <1>3, <1>6, <1>o, JunkAlone
<1>8. CASE LastPiece(c)
  <2>1. Phase(c)' = "answering"
    <3>1. snapshot'[c] \in Seq(Bytes)
      BY <1>6, <1>8 DEF Inv, Served, ServeInv, ServeOf, ServeAt, Answering
    <3>2. Phase(c)' = PhaseAt("read", snapshot'[c])
      BY <1>6, <1>8, PhaseOf
    <3> QED
      BY <3>1, <3>2, PhasesAre, LineAssumption
  <2>2. /\ Abstract!Goto(c, "asked", "answering")
        /\ RequestMap' = RequestMap /\ RequestMap[c] = message[c] /\ PhaseMap[c] = "asked"
    BY <1>1, <1>2, <1>o, <2>1, HandlingMaps
  <2>3. snapshot' = [snapshot EXCEPT ![c] = Abstract!Stream(log)]
    BY <1>6, <1>8, AbstractOps, Zenon
  <2>4. Abstract!Answer(c, Abstract!Stream(log))
    BY <1>1, <2>2, <2>3, Zenon DEF Abstract!Answer, RequestMap
  <2>5. Abstract!Asked(c, "text")
    BY <1>4, <2>2, Zenon DEF Abstract!Asked, PhaseMap, RequestMap
  <2>6. \E n \in 0 .. Len(RequestMap[c].text) : Junk' = Junk \o SubSeq(Abstract!Line(c), 1, n)
    <3>1. Abstract!Line(c) = Line(message[c])
      BY <2>2, Zenon DEF Abstract!Line, Line, RequestMap
    <3> QED
      BY <1>3, <1>5, <1>7, <2>2, <3>1, Zenon
  <2> QED
    BY <1>1, <2>4, <2>5, <2>6, Zenon DEF Abstract!Lose, RequestMap
<1>9. CASE ~LastPiece(c)
  <2>1. Phase(c)' = "refused"
    BY <1>6, <1>9, PhaseOf, PhasesAre
  <2>2. /\ Abstract!Goto(c, "asked", "refused")
        /\ RequestMap' = RequestMap /\ RequestMap[c] = message[c] /\ PhaseMap[c] = "asked"
    BY <1>1, <1>2, <1>o, <2>1, HandlingMaps
  <2>3. snapshot' = snapshot
    BY <1>4, <1>6, <1>9, <1>t, WorkerFacts
  <2>4. Abstract!Refuse(c)
    BY <1>1, <2>2, <2>3, Zenon DEF Abstract!Refuse, RequestMap
  <2>5. Abstract!Asked(c, "text")
    BY <1>4, <2>2, Zenon DEF Abstract!Asked, PhaseMap, RequestMap
  <2>6. \E n \in 0 .. Len(RequestMap[c].text) : Junk' = Junk \o SubSeq(Abstract!Line(c), 1, n)
    <3>1. Abstract!Line(c) = Line(message[c])
      BY <2>2, Zenon DEF Abstract!Line, Line, RequestMap
    <3> QED
      BY <1>3, <1>5, <1>7, <2>2, <3>1, Zenon
  <2> QED
    BY <1>1, <2>4, <2>5, <2>6, Zenon DEF Abstract!Lose, RequestMap
<1> QED
  BY <1>8, <1>9

\* send(2) of the next piece: Deliver.
LEMMA MapsSend ==
  ASSUME Inv, Inv', NEW c \in Conn, tcp_connection_send_message(c)
  PROVE  Abstract!Deliver(c)
<1>o. \A d \in Conn \ {c} : Same(d)
  BY OthersSame DEF Worker
<1>t. IndInv /\ Served
  BY DEF Inv
<1>1. /\ UNCHANGED <<log, partial, snapshot, client, message>>
      /\ pc[c] = "send" /\ pc'[c] = "read"
      /\ reply' = [reply EXCEPT ![c] = reply[c] \o chunk[c]]
  BY <1>t, WorkerFacts DEF tcp_connection_send_message, Step, netVars, device
<1>2. Junk' = Junk
  BY <1>1, <1>o, JunkStays
<1>3. snapshot[c] \in Seq(Bytes) /\ snapshot[c] # NULL
  BY <1>1, <1>t, AnswerFacts, LineAssumption
<1>4. Phase(c) = "answering" /\ Phase(c)' = "answering"
  <2>1. Phase(c) = PhaseAt("send", snapshot[c]) /\ Phase(c)' = PhaseAt("read", snapshot[c])
    BY <1>1, PhaseOf
  <2> QED
    BY <1>3, <2>1, PhasesAre
<1>5. Request(c)' = Request(c)
  BY <1>1, <1>4 DEF Request
<1>6. UNCHANGED <<PhaseMap, RequestMap, GoneMap>> /\ PhaseMap[c] = "answering"
  <2>1. UNCHANGED PhaseMap /\ PhaseMap[c] = "answering"
    BY <1>4, <1>o, MapsChange DEF PhaseMap
  <2>2. UNCHANGED RequestMap
    BY <1>5, <1>o, MapsChange DEF RequestMap, Request
  <2>3. UNCHANGED GoneMap
    BY <1>1 DEF GoneMap
  <2> QED
    BY <2>1, <2>2, <2>3
<1>7. \E n \in Len(reply[c]) + 1 .. Len(snapshot[c]) :
        reply[c] \o chunk[c] = SubSeq(snapshot[c], 1, n)
  <2>1. /\ f_pos[c] \in Nat /\ log \in Seq(Seq(Bytes))
        /\ chunk[c] \in Seq(Bytes) /\ reply[c] \in Seq(Bytes) /\ chunk[c] # << >>
        /\ Answering(f_pos[c], chunk[c], snapshot[c], reply[c], log)
    BY <1>1, <1>t, AnswerFacts
  <2>2. PICK x \in Nat, k \in Seq(Bytes), r \in Seq(Bytes), a \in Seq(Bytes) :
          /\ x = f_pos[c] /\ k = chunk[c] /\ r = reply[c] /\ a = snapshot[c] /\ k # << >>
          /\ Answering(x, k, a, r, log)
    BY <1>3, <2>1
  <2>3. IsSentOf(a, r, r \o k)
    BY <2>1, <2>2, SendOfAnswer
  <2> QED
    BY <2>2, <2>3, Zenon DEF IsSentOf
<1>8. \E n \in Len(reply[c]) + 1 .. Len(snapshot[c]) :
        reply' = [reply EXCEPT ![c] = SubSeq(snapshot[c], 1, n)]
  BY <1>1, <1>7, Zenon
<1> QED
  BY <1>1, <1>2, <1>6, <1>8, Zenon DEF Abstract!Deliver, PhaseMap, RequestMap, GoneMap

\* The worker returns to its loop: Finish.
LEMMA MapsUnlock ==
  ASSUME Inv, Inv', NEW c \in Conn, thread_unlock(c)
  PROVE  Abstract!Finish(c)
<1>o. \A d \in Conn \ {c} : Same(d)
  BY OthersSame DEF Worker
<1>t. IndInv /\ Served
  BY DEF Inv
<1>1. /\ UNCHANGED <<log, partial, client>>
      /\ pc[c] = "unlock" /\ pc'[c] = "loop"
      /\ snapshot' = [snapshot EXCEPT ![c] = NULL] /\ reply' = [reply EXCEPT ![c] = << >>]
  BY <1>t, WorkerFacts DEF thread_unlock, Step, netVars, device
<1>2. Junk' = Junk
  BY <1>1, <1>o, JunkStays
<1>3. Phase(c)' = "idle"
  BY <1>1, PhaseOf, PhasesAre
<1>4. RequestMap' = [RequestMap EXCEPT ![c] = NULL]
  <2>1. Request(c)' = NULL
    BY <1>3 DEF Request
  <2> QED
    BY <1>o, <2>1, MapsChange
<1>5. Abstract!Goto(c, Phase(c), "idle")
  <2>1. Abstract!Goto(c, Phase(c), Phase(c)')
    BY <1>1, <1>o, GotoMaps
  <2> QED
    BY <1>3, <2>1
<1>6. \/ Abstract!Goto(c, "answering", "idle") /\ (reply[c] = snapshot[c] \/ GoneMap[c])
      \/ Abstract!Goto(c, "refused", "idle")
  <2>1. CASE snapshot[c] = NULL
    <3>1. Phase(c) = "refused"
      BY <1>1, <2>1, PhaseOf, PhasesAre
    <3> QED
      BY <1>5, <3>1
  <2>2. CASE snapshot[c] # NULL
    <3>1. Phase(c) = "answering"
      <4>1. Phase(c) = PhaseAt("unlock", snapshot[c])
        BY <1>1, PhaseOf
      <4> QED
        BY <2>2, <4>1, PhasesAre
    <3>2. reply[c] = snapshot[c] \/ client[c] \in Gone
      BY <1>1, <1>t, <2>2, WorkerFacts DEF ServeOf, ServeAt
    <3>3. client[c] \in Gone => GoneMap[c]
      BY DEF GoneMap, Gone
    <3> QED
      BY <1>5, <3>1, <3>2, <3>3
  <2> QED
    BY <2>1, <2>2
<1> QED
  BY <1>1, <1>2, <1>4, <1>6, Zenon DEF Abstract!Finish, RequestMap, GoneMap

\* The client stops sending, or goes: Leave.
LEMMA MapsLeave ==
  ASSUME Inv, Inv', NEW c \in Conn, NEW how \in LeaveBy, Leave(c, how)
  PROVE  UNCHANGED Abstract!vars \/ Abstract!Leave(c)
<1>1. /\ UNCHANGED <<pc, message, f_pos, chunk, snapshot, reply, log, partial>>
      /\ client' = [client EXCEPT ![c] = how]
  BY DEF Leave, ioVars, device
<1>2. UNCHANGED <<Junk, PhaseMap, RequestMap>>
  <2>1. UNCHANGED Junk
    BY <1>1, Zenon DEF Junk, Line
  <2>2. \A d \in Conn : Phase(d)' = Phase(d)
    BY <1>1, PhaseOf
  <2> QED
    BY <1>1, <2>1, <2>2 DEF PhaseMap, RequestMap
<1>t. client \in [Conn -> {"none", "connected", "half_closed", "closed", "reset"}]
  BY DEF Inv, IndInv, TypeInv
<1>3. CASE how \in Gone
  <2>1. GoneMap' = [GoneMap EXCEPT ![c] = TRUE]
    <3>1. (client'[c] \in {"closed", "reset"}) = TRUE
      BY <1>1, <1>3, <1>t DEF Gone
    <3>2. \A d \in Conn \ {c} : Same(d)
      BY <1>1, <1>t DEF Same
    <3>3. GoneMap' = [GoneMap EXCEPT ![c] = (client'[c] \in {"closed", "reset"})]
      BY <3>2, MapsChange
    <3> QED
      BY <3>1, <3>3
  <2> QED
    BY <1>1, <1>2, <2>1, Zenon DEF Abstract!Leave, PhaseMap, RequestMap, GoneMap
<1>4. CASE how \notin Gone
  <2>1. \A d \in Conn : client'[d] \in {"closed", "reset"} <=> client[d] \in {"closed", "reset"}
    BY <1>1, <1>4, <1>t DEF Gone, Leave
  <2>2. UNCHANGED GoneMap
    BY <2>1 DEF GoneMap
  <2> QED
    BY <1>1, <1>2, <2>2, Stutters
<1> QED
  BY <1>3, <1>4

\* Steps the clients of LineServer cannot tell from none.
LEMMA MapsUnseen ==
  ASSUME Inv, Inv',
         \/ UNCHANGED vars
         \/ main_setup \/ tcp_server_create \/ tcp_server_listen_for_connections
         \/ main_test \/ main_log \/ main_leave
         \/ connection_manager_join \/ connection_manager_free \/ teardown
         \/ tcp_server_accept_fails \/ signal_handler
         \/ \E c \in Conn : \/ tcp_server_accept_connection(c)
                            \/ signal_in_worker(c) \/ send_sigpipe(c)
                            \/ \E m \in Message : Send(c, m)
  PROVE  UNCHANGED Abstract!vars
<1>1. UNCHANGED <<pc, message, chunk, snapshot, reply, log, partial, client>>
  BY DEF vars, main_setup, tcp_server_create, tcp_server_listen_for_connections, main_test,
     main_log, main_leave, connection_manager_join, connection_manager_free, teardown,
     tcp_server_accept_fails, signal_handler, tcp_server_accept_connection, signal_in_worker,
     send_sigpipe, Send, MainGoto, Start, netVars, ioVars, device
<1>2. UNCHANGED Junk
  BY <1>1, Zenon DEF Junk, Line
<1>3. \A d \in Conn : Phase(d)' = Phase(d)
  BY <1>1, PhaseOf
<1>4. UNCHANGED <<PhaseMap, RequestMap, GoneMap>>
  BY <1>1, <1>3 DEF PhaseMap, RequestMap, GoneMap
<1> QED
  BY <1>1, <1>2, <1>4, Stutters

\* A connection is made, and gets its worker.
LEMMA MapsConnect ==
  ASSUME Inv, Inv', NEW c \in Conn,
         Connect(c) \/ connection_manager_register_connection(c)
  PROVE  UNCHANGED Abstract!vars
<1>t. IndInv
  BY DEF Inv
<1>1. pc[c] = "none" /\ pc'[c] \in {"none", "loop"}
  BY <1>t DEF IndInv, TypeInv, YoungInv, Connect, connection_manager_register_connection
<1>2. UNCHANGED <<ioVars, device>>
  BY DEF Connect, connection_manager_register_connection
<1>3. /\ \A d \in Conn \ {c} : Same(d)
      /\ client'[c] \in Gone <=> client[c] \in Gone
  <2>1. /\ \A d \in Conn \ {c} : pc'[d] = pc[d] /\ client'[d] = client[d]
        /\ client'[c] \in Gone <=> client[c] \in Gone
    BY <1>t DEF IndInv, TypeInv, Connect, connection_manager_register_connection, netVars, Gone
  <2> QED
    BY <1>2, <2>1 DEF Same, ioVars
<1>4. Phase(c) = "idle" /\ Phase(c)' = "idle"
  BY <1>1, PhaseOf, PhasesAre
<1>5. Request(c)' = Request(c)
  BY <1>4 DEF Request
<1>6. Junk' = Junk
  BY <1>1, <1>2, <1>3, JunkStays DEF device
<1> QED
  BY <1>2, <1>3, <1>4, <1>5, <1>6, StuttersAt DEF device, ioVars

LEMMA MapsInit == Init => Abstract!Init
<1> SUFFICES ASSUME Init PROVE Abstract!Init
  OBVIOUS
<1>1. IndInv /\ Served
  BY InitInd, ServeInit
<1>2. Junk = partial
  <2>1. \A c \in Conn : pc[c] # "write"
    BY DEF Init
  <2> QED
    BY <1>1, <2>1, JunkIs DEF JunkFacts
<1>3. \A c \in Conn : Phase(c) = "idle"
  BY PhaseOf, PhasesAre DEF Init
<1>4. /\ [c \in Conn |-> Phase(c)] = [c \in Conn |-> "idle"]
      /\ [c \in Conn |-> IF Phase(c) = "idle" THEN NULL ELSE message[c]] = [c \in Conn |-> NULL]
  BY <1>3
<1>5. [c \in Conn |-> client[c] \in {"closed", "reset"}] = [c \in Conn |-> FALSE]
  <2>1. \A c \in Conn : (client[c] \in {"closed", "reset"}) = FALSE
    BY DEF Init
  <2> QED
    BY <2>1
<1> QED
  BY <1>2, <1>4, <1>5, Zenon DEF Init, Abstract!Init

LEMMA MapsNext == Inv /\ Inv' /\ [Next]_vars => [Abstract!Next]_(Abstract!vars)
<1> SUFFICES ASSUME Inv, Inv', [Next]_vars PROVE Abstract!Next \/ UNCHANGED Abstract!vars
  OBVIOUS
<1>1. CASE \/ UNCHANGED vars
           \/ main_setup \/ tcp_server_create \/ tcp_server_listen_for_connections
           \/ main_test \/ main_log \/ main_leave
           \/ connection_manager_join \/ connection_manager_free \/ teardown
           \/ tcp_server_accept_fails \/ signal_handler
           \/ \E c \in Conn : \/ tcp_server_accept_connection(c)
                              \/ signal_in_worker(c) \/ send_sigpipe(c)
                              \/ \E m \in Message : Send(c, m)
  BY <1>1, MapsUnseen
<1>2. ASSUME NEW c \in Conn, Connect(c) \/ connection_manager_register_connection(c)
      PROVE  UNCHANGED Abstract!vars
  BY <1>2, MapsConnect
<1>3. ASSUME NEW c \in Conn, NEW how \in LeaveBy, Leave(c, how)
      PROVE  Abstract!Next \/ UNCHANGED Abstract!vars
  BY <1>3, MapsLeave, Zenon DEF Abstract!Next
<1>4. ASSUME NEW c \in Conn,
             Worker(c) \/ thread_lock(c) \/ thread_fopen_fails(c) \/ stdio_write_fails(c)
             \/ tcp_connection_send_fails(c)
      PROVE  Abstract!Next \/ UNCHANGED Abstract!vars
  <2>1. CASE \/ thread_test(c) \/ tcp_connection_receive_eof(c) \/ tcp_connection_receive_error(c)
             \/ thread_fopen(c) \/ thread_fopen_fails(c) \/ thread_lock(c) \/ thread_exit(c)
             \/ (thread_log(c) /\ pc[c] # "nofile")
             \/ send_file_read(c) \/ tcp_connection_send_fails(c)
    BY <2>1, MapsQuiet
  <2>2. CASE tcp_connection_receive_message(c)
    BY <2>2, MapsReceive, Zenon DEF Abstract!Next
  <2>3. CASE thread_log(c) /\ pc[c] = "nofile"
    BY <2>3, MapsDrop, Zenon DEF Abstract!Next
  <2>4. CASE handle_seek(c)
    BY <2>4, MapsSeek, Zenon DEF Abstract!Next
  <2>5. CASE handle_text(c)
    BY <2>5, MapsText
  <2>6. CASE stdio_write(c)
    BY <2>6, MapsWrite, Zenon DEF Abstract!Next
  <2>7. CASE stdio_write_fails(c)
    BY <2>7, MapsWriteFails, Zenon DEF Abstract!Next
  <2>8. CASE tcp_connection_send_message(c)
    BY <2>8, MapsSend, Zenon DEF Abstract!Next
  <2>9. CASE thread_unlock(c)
    BY <2>9, MapsUnlock, Zenon DEF Abstract!Next
  <2> QED
    BY <1>4, <2>1, <2>2, <2>3, <2>4, <2>5, <2>6, <2>7, <2>8, <2>9, Zenon DEF Worker
<1> QED
  BY <1>1, <1>2, <1>3, <1>4 DEF Next, Main

(* The threaded server implements LineServer: the lines of all clients are *)
(* handled as if one at a time, although stdio writes a line in pieces and *)
(* an answer is read and sent in pieces (handle_message, under file_mutex  *)
(* of thread_routine); every answer is what the device held at that        *)
(* instant, and only a client that has gone gets less.                     *)
THEOREM ServerImplementsLineServer == Spec => ImplementsLineServer
<1>1. Spec => []Inv
  BY ServeInvariance, PTL DEF Inv
<1> QED
  BY <1>1, MapsInit, MapsNext, PTL DEF Spec, ImplementsLineServer, Abstract!Spec

=============================================================================
