# Verification of the AESD assignments

TLA+ models, TLC runs and TLAPS proofs for the code of this repository: the
AESD char driver, the socket server that uses it (in both its builds), the
threading and system-call examples, and the writer and finder with their test
script.

## 1. The system

| Component | State it keeps | Operations | Interacts with |
|---|---|---|---|
| Circular buffer (`aesd-char-driver/aesd-circular-buffer.c`, `.h`) | ten entries, `in_offs`, `out_offs`, `num_entries`, `size` | init, add an entry (handing back the evicted pointer), find a byte position, position of (command, offset) | called by the driver under its mutex; the caller owns the memory |
| Char driver (`aesd-char-driver/main.c`) | the ring, the staged (incomplete) command, a mutex; `f_pos` per open file | load, unload, open, release, read, write, llseek, ioctl `AESDCHAR_IOCSEEKTO` | any number of processes; kernel heap, user copies, VFS |
| Server main thread (`server/src/main.c`) | `exit_program` | start, accept loop, signal handler, shutdown | connection manager; signals |
| Connection manager (`server/src/connection_manager.c`) | list of workers, `file_mutex`, `close_connections` | create, register (starts a thread), worker loop, destroy (joins) | workers share the device and the mutex |
| Connection (`server/src/tcp_connection.c`) | socket, `is_open`, receive buffer | create, receive up to a delimiter, send, send a file, destroy | one worker and its peer |
| Listening socket (`server/src/tcp_server.c`) | socket | create, listen, accept, destroy | main thread |
| Threading example (`examples/threading/threading.c`) | thread data, the caller's mutex | start; wait, lock, hold, unlock | caller joins and frees |
| Plain-file build (`connection_manager.c`, `main.c` without `USE_AESD_CHAR_DEVICE`) | the file, `timerid` | the same, and a timer that appends a timestamp every ten seconds | the timer's thread shares the file, the mutex and the manager with the workers |
| System-call example (`examples/systemcalls/systemcalls.c`) | descriptors and children of the calling process | `do_system`, `do_exec`, `do_exec_redirect` | kernel: fork, execv, waitpid, open, dup2 |
| Writer and finder (`finder-app/writer.c`, `finder.sh`, `finder-test.sh`) | the files of `WRITEDIR` | write a string into a file; count files and matching lines; the test that runs both | file system, which earlier runs may have left files in |
| Others | none between runs | build and start scripts, most of `queue.h` (vendored) | see "Not modelled" |

What is hard here, and what the properties are for (the full list, with lines,
is `hazards` in `PROJECT.json`):

* the ring at its limits: wrap-around, full against empty, the byte after the
  last one, an incrementally kept size;
* ownership of heap memory when a write fails half way, completes a command,
  or evicts an old one;
* processes whose pieces of commands meet in one staged entry, and positions
  that are used after other processes have moved the stream;
* workers, the main thread and signals: answers that must be one consistent
  picture, a shutdown that must free nothing too early and must end, a wake-up
  that may be lost, clients that vanish between their line and the answer; a line
  that reaches the device in pieces, of which a later one may fail; a signal
  handler that needs a lock the thread it interrupted holds;
* error paths that leave a mutex locked, and arithmetic that wraps;
* a timer whose thread may run while the manager it uses is destroyed;
* a fork whose child comes back to the caller's code;
* a writer that reports success whatever became of its output.

## 2. Modules

| Module | Models |
|---|---|
| `CircularBuffer` | the buffer's functions and macros, as operators on a record with the C struct's fields |
| `CircularBufferUse`, `MCCircularBuffer` | a caller that adds entries for ever; its states are all buffers the code can build |
| `BoundedLog` | abstract specification: a log of the last `Capacity` entries |
| `AesdChar`, `MCAesdChar` | the driver |
| `CommandLog` | operators on the device's contents as its users see them: commands, the incomplete rest, seek positions |
| `CharDevice` | abstract specification: a device whose calls are atomic |
| `AesdSocket`, `MCAesdSocket` | main thread, manager, workers, signals and clients, over the device as a log |
| `LineServer` | abstract specification: a server that handles each line at one instant and answers with the device's contents of that instant |
| `SList` | the macros of `queue.h` the manager uses, on sequences |
| `TcpConnection`, `MCTcpConnection` | `tcp_connection_receive_message`, byte by byte |
| `FileServer`, `MCFileServer` | the server's plain-file build: the file, the timer and the shutdown |
| `Threading`, `MCThreading` | the threading example |
| `SystemCalls` | the system-call example |
| `FinderApp` | writer, finder and their test script |
| `MCPrograms` | the last two, which share nothing, for one run: each behaviour is of one of them |
| `SequenceLemmas`, `RingLemmas` | lemmas about sequences, sums and the ring |
| `CircularBufferProofs`, `AesdCharProofs`, `AesdSocketProofs`, `TcpConnectionProofs`, `FileServerProofs`, `ExampleProofs` | proofs; the last is about `Threading`, `SystemCalls` and `FinderApp` |

Definitions carry the names of the code; `map` in `PROJECT.json` has the lines of
each. Operators under the heading "Mutated forms" are faulty variants of a
definition below them. They are used only to confirm that each property can be
broken by a plausible bug.

**AesdChar.** A call is cut where others can interleave: `Invoke` (up to
`mutex_lock`), `mutex_lock`, the body, `mutex_unlock`. The body of `aesd_write` is
cut at `copy_from_user`, which may sleep: `aesd_write_alloc`, then
`aesd_write_fault`, `aesd_write_commit` or `aesd_write_oops`. `allocated` and `mem`
are the kernel heap: a set of addresses and their bytes, so that freeing twice,
using freed memory, leaking and recording a wrong size can be seen. `kmalloc`
may always fail, except for size 0, for which it returns `ZERO_SIZE_PTR`; both
user copies may fail unless they copy nothing. The code of an unloaded module
keeps no state, except what it forgot to free. Each process has its own open
file, as the server's workers do; an `f_pos` shared through `fork` or `dup` is not
modelled. `f_pos` belongs to the file and is 0 after open.

**AesdSocket** is the build of `server/Makefile` (`-DUSE_AESD_CHAR_DEVICE`), from
`setup` to the end of the process. At start-up the address loop of
`tcp_server_create` is one step, since no other thread exists yet, and signals
are looked at only once `setup` has installed the handler. The device is the
log `CharDevice` describes (the driver is shown to implement it): only workers
use it, but it may already hold an incomplete command (`Leftover`). A line is
written in pieces of `STDIO_SIZE`, the size of stdio's buffer: `fprintf` writes what
does not fit, `fflush` the rest. A piece that fails is dropped with what follows
it. If `fprintf` notices, the line is refused; a failing `fflush` goes unnoticed.
Pieces written before stay in the device and become the start of the next line.
The answer is read command by command in pieces of `READ_SIZE`. `Faults` names the
calls that may fail in a run, `LeaveBy` what clients may do in the end. A message
is a text or a decoded seek command; a line that does not decode is a text, as
in `handle_message`. The signal is taken by the main thread and interrupts `accept`
(no `SA_RESTART`). `syslog` inside the handler never returns when the main thread
was in `syslog` (`"stuck"`); threads that then need `syslog` wait too, and since the
signal stays blocked in the main thread the next one goes to a worker, which
then waits in its own handler (`blocked`). That two signals overlap in the short
time a handler that does return takes is not modelled. A reset connection
fails one `recv` and reads as closed afterwards; a `send` to a peer that has gone
may succeed, fail, or raise SIGPIPE.

`AesdSocket` implements `LineServer` under this mapping: a connection is "asked"
from the moment its line was received until the last piece of it was written or
the seek was done; from then on it is "answering", with `snapshot` as the answer
and `reply` as what was sent of it, or "refused". The bytes of a line that is
being written are not yet part of the abstract device (`Junk`).

**TcpConnection** keeps the buffer's size apart from its contents, so that an
index outside the buffer shows. Past `INT_MAX` the doubled size is negative,
`realloc` fails and the assertion ends the program; `realloc` may also fail
earlier. `CString` is what the caller sees of a line with an embedded NUL.

**FileServer** keeps the workers' part of the file build short: what a connection
delivers (a line, its end, an error) is a choice of the environment, because
`AesdSocket` and `TcpConnection` have that part. The file is a sequence of bytes,
written from its start (`fopen` with `"r+"` and no seek) and read in pieces of
`READ_SIZE`. A timer callback takes the mutex, appends and unlocks, in three steps;
there is one callback at a time, since the interval is ten seconds.
`pthread_mutex_destroy` does nothing (`EBUSY`) to a mutex that is held. A callback
that uses the manager after `free` is undefined: it crashes the process or gets
through. `fflush` is taken to succeed. `MAX_FILE` bounds the timestamps.

**SystemCalls** has the caller, its child, the wait status and the descriptors the
caller has open. A child whose `execv` failed is aborted (`do_exec`) or returns to
the caller's code (`do_exec_redirect`), where it is a `"copy"` of the caller.

**FinderApp** tells a file's content apart by what `grep` sees: none, empty, a part
of the string, all of it. Every command of the script may fail and, with
`set -e`, end it; `writer` fails only when `fopen` does, since it ignores the results
of `fprintf` and `fclose`. An interrupted run may have left any files. `seen` is
what was there when the finder counted, since the script removes it afterwards.

**Threading** counts time in units of `tv_nsec`, scaled by 10^-5 in the runs, and
computes `ms * 1000000` modulo the range of `unsigned int`, as the code does.

## 3. Runs

| Run | Bounds | Shows |
|---|---|---|
| `ring` | the real ten slots, entries of one and two bytes | shape, size, both searches against reference definitions over every position, refinement of `BoundedLog`. The entries are of different length, so wrong boundaries differ |
| `driver` | 2 processes, 2 slots, 4 addresses, one-byte pieces and a two-byte end of command | `HeapSafe`, `DroppedIsFreed`, `LockDiscipline`, `CommandsAreComplete`, refinement of `CharDevice`. Four addresses are what two entries, a staged command and a copy in progress need; a third command evicts. Symmetric in addresses and processes |
| `driver_live` | 2 processes, 1 slot, 3 addresses, with empty writes and reads | `CallsReturn`, `FaultIsContained`. No symmetry |
| `driver_zero_write` | as `driver`, with the empty write | violation, see 6 |
| `server` | 2 clients, 2 commands, one line queued per client and any number in all; lines of two bytes, written in two pieces; writes fail while the device holds at most `MAX_HELD` 1 byte | `ImplementsLineServer`, `WorkersOutliveNothing`, `MutexDiscipline`, `SocketsAreOwned`, while start-up, accept, thread creation, write and send fail. A failed second piece leaves a byte that the next line is appended to; the third line evicts a command. Symmetric in connections |
| `server_live` | 2 clients that close in the end, 1 command, a device that starts with one byte of an incomplete command, `MAX_HELD` 1 | `LinesAreHandled`, `ShutdownEnds`, while fopen, write and syslog fail |
| `server_signal` | as `server_live`, no faults | violation, see 6 |
| `server_pipe` | as `server_live`, send fails | violation, see 6 |
| `receive` | initial size 1, `INT_MAX` 7, 5 bytes, 2 failures of recv | `RecvInBounds`, `NothingLost`, `MessagesAreLines`, `CloseIsNoticed`. The buffer doubles twice, and the next doubling overflows |
| `threads` | 3 threads, waits on both sides of a second and past the wrap-around | `ThreadsAreSafe`, `SuccessMeansReleased`, `SleptAsAsked`, `ThreadsEnd`, while malloc, pthread_create and sleeps fail |
| `file_server` | 2 clients, a short and a long line, pieces of one byte, timestamps up to `MAX_FILE` 4 | `ReplyIsRestOfFile`, `FileStartsWithLastLine`, `WorkersOutliveNothing`, `ShutdownEnds`. The file may exist or not at the start; it is shorter and longer than a line |
| `programs` | 3 calls in a row of any kind; 2 files and one left over | `TrueMeansSuccess`, `CallsReturn`, while open, fork, dup2, execv and waitpid fail; `SuccessMeansWritten`, while the script's commands, fopen and fprintf fail |

Deadlock is checked in `ring` and `driver`. The other runs may stop: a
process dies with the mutex, the program ends, a conversation is over, all
threads are joined.

**Fairness.** *Driver*: a process inside the driver keeps running, and a waiter
on the kernel mutex is not passed over for ever (the mutex hands itself over to
a waiter that has waited too long), hence strong fairness of `mutex_lock`. No
process has to make a call. *Server*: each thread keeps running and gets
`file_mutex` eventually; `send` returns, that is, clients read what they are sent.
The last is a real assumption: the answer is sent under `file_mutex`, and a client
that stops reading stalls every worker. `ShutdownEnds` assumes in addition, in
the property itself, that clients do not stay connected for ever, because
`pthread_join` waits for a worker that sits in `recv`. Nothing is assumed of
signals or of faults. A thread whose `syslog` cannot return is not expected to
run on: `LinesAreHandled` says when that stops a line (`SyslogDeadlock`).
*Receive*: the worker keeps calling and `recv` returns when
it has something to return. *File build*: threads run, get the mutex, and `recv`
returns in the end, for the reason given for `ShutdownEnds`; nothing is assumed
of the timer. *System calls*: the caller and its child keep running, and the
command ends. *Threads*: sleeps end and the mutex is fair.

## 4. Proofs

Proved with TLAPS for every value of the constants: any capacity from 1 to
255 (`uint8_t` counters), any set of addresses, processes, bytes and calls, any
set of connections, lines and faults, any buffer size and `INT_MAX`, any number
of threads, calls and files.

| Module | Theorems (property) |
|---|---|
| `CircularBufferProofs` | `RingInvariant` (`RingShape`), `BufferTypes` (`TypeOK`), `SizeExact` (`SizeIsExact`), `SearchIsCorrect` (`FindEntryCorrect`), `SeekThenFind` (`SeekAndFindAgree`), `RefinesBoundedLog` (`ImplementsBoundedLog`) |
| `AesdCharProofs` | `DriverTypes` (`TypeOK`), `MutexIsSound` (`LockDiscipline`), `MemoryIsSafe` (`HeapSafe`), `CommandsComplete` (`CommandsAreComplete`), `OnlyStagingLeaks` (`DroppedIsFreed`), `FaultContained` (`FaultIsContained`), `RefinesCharDevice` (`ImplementsCharDevice`) |
| `AesdSocketProofs` | `ServerMutexIsSound` (`MutexDiscipline`), `ShutdownIsSafe` (`WorkersOutliveNothing`), `NoSocketIsLost` (`SocketsAreOwned`), `ServerTypes` (`TypeOK`), `ServerImplementsLineServer` (`ImplementsLineServer`) |
| `TcpConnectionProofs` | `ReceiveTypes` (`TypeOK`), `RecvIsInBounds` (`RecvInBounds`), `NoByteIsLost` (`NothingLost`), `MessagesLines` (`MessagesAreLines`) |
| `FileServerProofs` | `FileServerTypes` (`TypeOK`), `AnswersAreConsistent` (`ReplyIsRestOfFile`), `LastLineIsFirst` (`FileStartsWithLastLine`), `FileShutdownIsSafe` (`WorkersOutliveNothing`) |
| `ExampleProofs` | `ThreadTypes` (`TypeOK`), `ThreadsSafe` (`ThreadsAreSafe`), `SuccessReleases` (`SuccessMeansReleased`), `SleepsAreLong` (`SleptAsAsked`); `CallTypes` (`CallsTypeOK`), `TrueIsSuccess` (`TrueMeansSuccess`); `WrittenOnSuccess` (`SuccessMeansWritten`) |

**Lemmas.** `SequenceLemmas` has what the proofs need of the library's recursive
operators. The library's induction theorems take an operator, which the provers
cannot instantiate, so `Induction` is stated for a *set* of naturals and derived
from the least element of a set (`LeastNatural`). With it, a function that
satisfies the recursion of `FlattenSeq` is shown to exist and to be unique
(`FlattenExists`, `FlattenUnique`); from there `FlattenAppend`, `FlattenToStep`
(one more piece) and `FlattenPiece` (where the k-th piece lies) are what the
contents of a device are computed with. `RingLemmas` has the arithmetic of the
offsets (`AdvanceWraps`, `SlotAfter`), what `aesd_circular_buffer_add_entry`
preserves and does to the contents (`AddTyped`, `AddShape`, `AddIsAppend`,
`AddSize`), the sums of sizes (`SizeStep`, `SizeMonotone`, `SizeShift`), and what
the two searches return (`FindHit`, `FindMiss`, `FindCases`, `FposValue`). The loop
of the search is defined by the first iteration at which it stops
(`SearchStops`), which `StopsAt` shows to be the entry that holds the position or
the last one.

**The ring.** `RingShape` has two cases: until the ring is full it fills from slot 0
and the unused slots are zero; from then on `in_offs = out_offs`. Both cases are
needed: eviction is right only because the oldest entry of a full ring is at
`in_offs`. `SizeIsExact` compares the incrementally kept size with a sum over the
set of slots, so its proof shows that the order of summation does not matter
(`AnyOrder`).

**The driver.** The invariant has four layers about the device (`DeviceInv`) and two about
the callers (`CallsInv`). `LockInv` (types, which call a process may be in where,
that the mutex is held exactly inside the driver, and that after a fault the
dead process still holds it) is inductive by itself. `HeapInv` adds `HeapSafe`,
`CommandsAreComplete`, that memory which is not allocated is empty, and that a
copy in progress starts with exactly the staged bytes: without the last,
`aesd_write_commit` could not be shown to record the right size. `RingInv` adds the
shape of the ring, without which the pointer that `add_entry` hands back need
not be the one it overwrites; `StoredInv` that the size is the sum of the entries
and that every entry has memory, without which a position could not be related
to a byte. `PosTypes` and `CallerInv` say what a process has asked and been
answered where it is; they make `f_pos` a natural number although `llseek`
computes with negative offsets. The proof has one step per action; the three
actions that touch the heap have lemmas of their own (`HeapAlloc`, `HeapFault`,
`HeapCommit`), and the others go through `HeapFrame`.

`RefinesCharDevice` maps each body of a call to the atomic call of `CharDevice` and
everything else to its invocation, its return or a stutter (`ModuleMaps`,
`ClientMaps`, `RejectMaps`, `ReadMaps`, `SeekMaps`, `IoctlMaps`, `AllocMaps`,
`FaultMaps`, `CommitMaps`). The abstract log is the memory the ring's entries point
to; `CommitMaps` is where a ring that evicts, a heap that frees and a staged
command that is completed have to agree with one assignment to a sequence.

**The server.** `IndInv` of `AesdSocketProofs` relates the list, the program counters,
the mutex and the sockets. None of the three properties is inductive alone. That
the mutex is not destroyed under a worker needs the list to hold every running
worker (`ListInv`); that a context enters the list once needs a connection to have
no worker before it is registered (`YoungInv`), which in turn needs what the main
thread does with the connection it has accepted (`MainInv`). Fourteen of the
worker's steps stay on one side of the critical section and are one lemma
(`WorkerFrame`); locking, unlocking, exiting and the main thread's steps have
their own.

What clients see needs a second invariant, about the data (`Served`). `ServeAt` says
for each place of a worker what it has in hand. While it writes (`Writing`), the
bytes of the line that are in the device and the bytes still to be written are
together the line, and the rest is not empty: so the newline is in the last piece
only, and only the last piece completes a command (`WriteOfLine`). While it answers
(`Answering`), what was sent, what was read and not sent, and what the device still
has from `f_pos` on are together the snapshot (`ReadOfAnswer`, `SendOfAnswer`): that
the device does not change meanwhile is the mutex, so this invariant is proved
from `IndInv`. A worker outside the critical section has nothing in hand
(`ServeFrame`), which is why one worker's step leaves the others' data alone. The
types follow, since every byte anyone holds is part of a line or of the device.

The refinement has one lemma per kind of step: `MapsReceive`, `MapsSeek`, `MapsText`,
`MapsWrite`, `MapsWriteFails`, `MapsSend`, `MapsUnlock`, `MapsLeave` and `MapsConnect` are
steps of `LineServer` or stutters; `MapsQuiet` and `MapsUnseen` have the steps no client
can see. A line's pieces are hidden by `Junk`, the part of the staged bytes that was
there before: `JunkIs` shows that there is at most one writer, `MapsWrite` that the
abstract device gets the whole line when the last piece is written, and
`MapsWriteFails` that after a failure the pieces written so far appear at once, in
front of the next line.

**Receiving.** The invariant adds to the properties that no byte of the line being
read is the delimiter and that nothing is buffered between calls (`LineInv`): a
message is a line only because the loop stops at the first delimiter.

**The file build.** The invariant adds who holds the mutex, the timer included
(`MutexInv`), what the list holds (`ListInv`), what is left at each step of the
shutdown (`MainInv`), and that while a worker sends, the file is its line followed
by the snapshot, with `f_pos` behind the line and what was sent (`SendInv`).
`RoomInv` belongs to the bound `MAX_FILE` of the model, not to the code.

**The examples.** A thread's invariant (`ThreadInv`) says how long it has slept where it
is. That of the calls says that a child exists only while the caller waits and
that, if it can end with status 0 and is not the command, it is the second
caller of `do_exec_redirect`. That of the finder says that the file after the last
does not exist from the first `rm -rf` on: `NUMFILES` matches among `NUMFILES` files
then leave none without (`FS_Subset`).

The assumptions are those the modules state: capacity in 1..255, `NULL` and
`ZERO_SIZE_PTR` are not addresses, `NULL` is not a process, a connection or a
sequence, a line has no newline but its last byte (what `TcpConnection` returns),
the arguments of calls have their C types, lines are finite and there
is a longest one, buffer sizes are positive, and the bounds of the models are
natural numbers.

Only model-checked: liveness, since fairness and `ENABLED` are beyond the prover.
The three violations of section 6 are traces, which only TLC shows.

## 5. Not modelled

* Daemonising (`-d`), which runs before any other thread exists and only replaces
  the process by its child; `save_packet` (dead code).
* `f_pos` of an open file that processes share (`dup`, `fork`).
* `finder-app/writer.sh`, which nothing runs; the scripts that build the image,
  load the module or start the server: straight lines of commands.
* The rest of `queue.h` (vendored and unused), the build files, the course's test
  scaffolding and constant functions.

## 6. Where the code and its documentation disagree

The first three have a run that exhibits them (`findings` in `PROJECT.json`).

1. `driver_zero_write`: `write(fd, buf, 0)` with nothing staged reads
   `buffptr[-1]` of a zero-sized allocation (`main.c:139`) with the mutex held.
   `FaultIsContained` shows that the damage stays there.
2. `server_signal`: a signal between the test of `exit_program` and `accept` is
   noticed only when the next client connects.
3. `server_pipe`: answering a client that has gone ends the server.

The others are named by the property that has to make an exception for them:

* `aesd_cleanup_module` does not free the staged command (`DroppedIsFreed`).
* A hold of a second or more is refused by `clock_nanosleep`, and the thread ends
  with the mutex locked (`ThreadsEnd`, `MutexLost`); from 4295 ms on `wait_ms` wraps
  around and sleeps too short (`SleptAsAsked`).
* `pthread_create` failing in `connection_manager_register_connection` loses the
  socket (`SocketsAreOwned`); `fopen` failing in `thread_routine` loses the line
  buffer; a failed `fflush` is not noticed, and the line is answered as if it had
  been stored; of a long line that fails half way the first part stays in the
  device, in front of the next client's line (`LineServer!Lose`).
* The signal handler calls `syslog`, which is not async-signal-safe: the main thread
  and then workers may hang (`SyslogDeadlock`).
* `writer` exits with 0 although its output could not be written; only the count of
  `finder-test.sh` notices (`SuccessMeansWritten`).
* The file build writes each line over the start of the file instead of appending
  it (`FileStartsWithLastLine`), and a callback of the timer may use the mutex and
  the manager after they are gone (`timer_exits`, `timer_uses_freed`).
* In `do_exec_redirect` a child that cannot become the command returns to the
  caller's code (`TrueMeansSuccess`), and the output file, which
  "will be closed at completion of the function call" (`systemcalls.c:79`), stays
  open in the caller (`fds`).

## 7. Plan

Order: the most important behaviour first. Done: the ring, the driver, the
server in both builds, its abstract specification and the refinement, receiving,
threading, system calls, writer and finder; every safety property and every
refinement of all of them proved.

Left: `f_pos` shared by processes (`dup`, `fork`), which no program of the repository
does.
