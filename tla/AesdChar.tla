------------------------------- MODULE AesdChar -------------------------------
(***************************************************************************)
(* The AESD char driver (aesd-char-driver/main.c): one device, shared by   *)
(* processes that each have their own open file description, as every      *)
(* worker of aesdsocket does.  A file operation is the sequence            *)
(*    call - mutex_lock - body - mutex_unlock and return,                  *)
(* and the body of aesd_write is cut where copy_from_user may sleep.  The  *)
(* kernel's allocator, its mutex, its user copies and its VFS are external *)
(* and modelled by what the driver relies on.                              *)
(***************************************************************************)
EXTENDS CircularBuffer, Sequences

CONSTANTS
  Proc,          \* processes that use the device
  Byte,          \* what a command is made of
  NewLine,       \* the byte '\n'
  Chunks,        \* the buffers write(2) may be called with
  Counts,        \* the counts read(2) may be called with
  SeekArgs,      \* pairs <<off, whence>> for lseek(2)
  IoctlArgs,     \* pairs <<write_cmd, write_cmd_offset>> for the ioctl
  KMALLOC_MAX,   \* the largest size kmalloc serves
  ZERO_SIZE_PTR  \* what kmalloc(0) returns

ASSUME ByteAssumption == NewLine \in Byte /\ Chunks \subseteq Seq(Byte)
ASSUME ArgsAssumption ==
  /\ Counts \subseteq Nat
  /\ SeekArgs \subseteq Int \X {"SEEK_SET", "SEEK_CUR", "SEEK_END", "SEEK_DATA"}
  /\ IoctlArgs \subseteq Nat \X Nat
  /\ KMALLOC_MAX \in Nat
ASSUME PtrAssumption ==
  /\ ZERO_SIZE_PTR \notin Ptr \cup {NULL}
  /\ NULL \notin Proc

VARIABLES
  module,           \* "unloaded" or "live"
  circular_buffer,  \* aesd_device.circular_buffer
  staging_entry,    \* aesd_device.staging_entry
  lock,             \* owner of aesd_device.lock, or NULL
  allocated,        \* addresses handed out by kmalloc and not yet freed
  mem,              \* their contents
  pc,               \* where each process is
  call,             \* the call it is making
  bufferptr,        \* the local of aesd_write
  f_pos,            \* the position of its open file
  ret               \* what its call returns and, for read, delivers

device == <<circular_buffer, staging_entry>>
heap == <<allocated, mem>>
vars == <<module, device, lock, heap, pc, call, bufferptr, f_pos, ret>>

EFAULT == -14
ENOMEM == -12
EINVAL == -22
ENOTTY == -25

ReadCalls  == [op : {"read"}, count : Counts]
WriteCalls == [op : {"write"}, buf : Chunks]
SeekCalls  == {[op |-> "llseek", off |-> a[1], whence |-> a[2]] : a \in SeekArgs}
IoctlCalls ==
  {[op |-> "ioctl", write_cmd |-> a[1], write_cmd_offset |-> a[2]] : a \in IoctlArgs}
Calls == ReadCalls \cup WriteCalls \cup SeekCalls \cup IoctlCalls

NoCall == [op |-> "none"]
NoRet  == [code |-> 0, data |-> << >>, done |-> FALSE]
Result(code, data) == [code |-> code, data |-> data, done |-> TRUE]

\* The program points inside the mutex.
Critical == {"read", "write", "copy", "llseek", "ioctl", "unlock", "oops"}

-----------------------------------------------------------------------------
(* Mutated forms of the definitions below (see PROJECT.json, "mutants").   *)

FreesNothing(m, a, S) == [alloc |-> a, mem |-> m]
LockWithoutWaiting(t) == TRUE
EndsWithAnyByte(s) == s # << >>
WholeCount(count, left) == count
UnlockKeepsOwner(t) == lock
StagedBytesOnly(t, buf) == [buffptr |-> bufferptr[t], size |-> Len(buf)]

-----------------------------------------------------------------------------
(* The kernel, as the driver uses it.                                      *)

\* The heap after kfree of every pointer in S; NULL and ZERO_SIZE_PTR are
\* ignored, as kfree does.
kfree(m, a, S) ==
  [alloc |-> a \ S, mem |-> [p \in Ptr |-> IF p \in S THEN << >> ELSE m[p]]]

\* The addresses kmalloc(n) may return.
kmalloc(n) ==
  IF n = 0 THEN {ZERO_SIZE_PTR}
  ELSE IF n <= KMALLOC_MAX THEN Ptr \ allocated ELSE {}

LockFree(t) == lock = NULL

\* vfs_setpos with maxsize = size.
vfs_setpos(pos, size) == IF pos < 0 \/ pos > size THEN EINVAL ELSE pos

\* fixed_size_llseek: the new position, or an error.
fixed_size_llseek(pos, off, whence, size) ==
  CASE whence = "SEEK_SET" -> vfs_setpos(off, size)
    [] whence = "SEEK_END" -> vfs_setpos(size + off, size)
    [] whence = "SEEK_CUR" -> IF off = 0 THEN pos ELSE vfs_setpos(pos + off, size)
    [] OTHER -> EINVAL

-----------------------------------------------------------------------------

Goto(t, label) == pc' = [pc EXCEPT ![t] = label]

\* The body of an operation ends: what remains is mutex_unlock and return.
Finish(t, code, data) ==
  /\ Goto(t, "unlock")
  /\ ret' = [ret EXCEPT ![t] = Result(code, data)]

Init ==
  /\ module = "unloaded"
  /\ circular_buffer = aesd_circular_buffer_init
  /\ staging_entry = ZeroEntry
  /\ lock = NULL
  /\ allocated = {}
  /\ mem = [p \in Ptr |-> << >>]
  /\ pc = [t \in Proc |-> "closed"]
  /\ call = [t \in Proc |-> NoCall]
  /\ bufferptr = [t \in Proc |-> NULL]
  /\ f_pos = [t \in Proc |-> 0]
  /\ ret = [t \in Proc |-> NoRet]

\* insmod.  A load that fails undoes its registration and leaves nothing.
aesd_init_module ==
  /\ module = "unloaded"
  /\ module' = "live"
  /\ circular_buffer' = aesd_circular_buffer_init
  /\ staging_entry' = ZeroEntry
  /\ lock' = NULL
  /\ UNCHANGED <<heap, pc, call, bufferptr, f_pos, ret>>

\* rmmod.  .owner = THIS_MODULE keeps the module while a file is open.  The
\* loop frees the entries of the circular buffer and of nothing else.
aesd_cleanup_module ==
  /\ module = "live"
  /\ \A t \in Proc : pc[t] = "closed"
  /\ module' = "unloaded"
  /\ LET h == kfree(mem, allocated, {circular_buffer.entry[i].buffptr : i \in Slots})
     IN  allocated' = h.alloc /\ mem' = h.mem
  /\ circular_buffer' = aesd_circular_buffer_init
  /\ staging_entry' = ZeroEntry
  /\ UNCHANGED <<lock, pc, call, bufferptr, f_pos, ret>>

aesd_open(t) ==
  /\ module = "live"
  /\ pc[t] = "closed"
  /\ Goto(t, "idle")
  /\ f_pos' = [f_pos EXCEPT ![t] = 0]
  /\ UNCHANGED <<module, device, lock, heap, call, bufferptr, ret>>

aesd_release(t) ==
  /\ pc[t] = "idle"
  /\ Goto(t, "closed")
  /\ f_pos' = [f_pos EXCEPT ![t] = 0]
  /\ UNCHANGED <<module, device, lock, heap, call, bufferptr, ret>>

\* A system call reaches the driver and gets to mutex_lock.
Invoke(t, c) ==
  /\ pc[t] = "idle"
  /\ Goto(t, "lock")
  /\ call' = [call EXCEPT ![t] = c]
  /\ UNCHANGED <<module, device, lock, heap, bufferptr, f_pos, ret>>

\* The paths of aesd_ioctl that never take the mutex: an unknown command, or
\* a struct aesd_seekto that cannot be read from user space.
aesd_ioctl_rejected(t, code) ==
  /\ pc[t] = "idle"
  /\ Goto(t, "return")
  /\ ret' = [ret EXCEPT ![t] = Result(code, << >>)]
  /\ UNCHANGED <<module, device, lock, heap, call, bufferptr, f_pos>>

mutex_lock(t) ==
  /\ pc[t] = "lock"
  /\ LockFree(t)
  /\ lock' = t
  /\ Goto(t, call[t].op)
  /\ UNCHANGED <<module, device, heap, call, bufferptr, f_pos, ret>>

OwnerAfterUnlock(t) == NULL

\* mutex_unlock, and the return to the caller.
mutex_unlock(t) ==
  /\ pc[t] = "unlock"
  /\ lock' = OwnerAfterUnlock(t)
  /\ Goto(t, "idle")
  /\ call' = [call EXCEPT ![t] = NoCall]
  /\ ret' = [ret EXCEPT ![t] = NoRet]
  /\ UNCHANGED <<module, device, heap, bufferptr, f_pos>>

\* The return of a call that never took the mutex.
ReturnUnlocked(t) ==
  /\ pc[t] = "return"
  /\ Goto(t, "idle")
  /\ ret' = [ret EXCEPT ![t] = NoRet]
  /\ UNCHANGED <<module, device, lock, heap, call, bufferptr, f_pos>>

-----------------------------------------------------------------------------

aesd_llseek(t) ==
  LET new == fixed_size_llseek(f_pos[t], call[t].off, call[t].whence,
                               aesd_circular_buffer_size(circular_buffer))
  IN  /\ pc[t] = "llseek"
      /\ Finish(t, new, << >>)
      /\ f_pos' = [f_pos EXCEPT ![t] = IF new = EINVAL THEN @ ELSE new]
      /\ UNCHANGED <<module, device, lock, heap, call, bufferptr>>

\* aesd_ioctl with AESDCHAR_IOCSEEKTO, whose work is aesd_adjust_file_offset.
aesd_adjust_file_offset(t) ==
  LET new_fpos == aesd_circular_buffer_get_entry_fpos(circular_buffer,
                     call[t].write_cmd, call[t].write_cmd_offset)
  IN  /\ pc[t] = "ioctl"
      /\ Finish(t, IF new_fpos >= 0 THEN 0 ELSE EINVAL, << >>)
      /\ f_pos' = [f_pos EXCEPT ![t] = IF new_fpos >= 0 THEN new_fpos ELSE @]
      /\ UNCHANGED <<module, device, lock, heap, call, bufferptr>>

\* MIN(count, size - offset): a read stops at the end of an entry.
ReadLength(count, left) == IF count < left THEN count ELSE left

aesd_read(t) ==
  LET hit == aesd_circular_buffer_find_entry_offset_for_fpos(circular_buffer, f_pos[t])
      entry == circular_buffer.entry[hit.slot]
      n == ReadLength(call[t].count, entry.size - hit.offset)
  IN  /\ pc[t] = "read"
      /\ \/ /\ hit = NotFound
            /\ Finish(t, 0, << >>)
            /\ UNCHANGED f_pos
         \/ /\ hit # NotFound
            /\ Finish(t, n, SubSeq(mem[entry.buffptr], hit.offset + 1, hit.offset + n))
            /\ f_pos' = [f_pos EXCEPT ![t] = @ + n]
         \/ /\ hit # NotFound /\ n > 0     \* copy_to_user fails
            /\ Finish(t, EFAULT, << >>)
            /\ UNCHANGED f_pos
      /\ UNCHANGED <<module, device, lock, heap, call, bufferptr>>

-----------------------------------------------------------------------------
(* aesd_write                                                              *)

\* Up to copy_from_user: allocate room for what is staged and the new bytes,
\* and copy what is staged.
aesd_write_alloc(t) ==
  LET n == Len(call[t].buf) + staging_entry.size
  IN  /\ pc[t] = "write"
      /\ \/ /\ n > 0                       \* kmalloc may always fail
            /\ Finish(t, ENOMEM, << >>)
            /\ UNCHANGED <<heap, bufferptr>>
         \/ \E p \in kmalloc(n) :
            /\ bufferptr' = [bufferptr EXCEPT ![t] = p]
            /\ allocated' = allocated \cup ({p} \cap Ptr)
            /\ mem' = IF staging_entry.buffptr = NULL THEN mem
                      ELSE [mem EXCEPT ![p] = mem[staging_entry.buffptr]]
            /\ Goto(t, "copy")
            /\ UNCHANGED ret
      /\ UNCHANGED <<module, device, lock, call, f_pos>>

\* copy_from_user fails: the new memory is released, the staged bytes stay.
aesd_write_fault(t) ==
  /\ pc[t] = "copy"
  /\ call[t].buf # << >>
  /\ LET h == kfree(mem, allocated, {bufferptr[t]})
     IN  allocated' = h.alloc /\ mem' = h.mem
  /\ bufferptr' = [bufferptr EXCEPT ![t] = NULL]
  /\ Finish(t, EFAULT, << >>)
  /\ UNCHANGED <<module, device, lock, call, f_pos>>

\* The test that ends a command: the last staged byte is '\n'.
EndsCommand(s) == s # << >> /\ s[Len(s)] = NewLine

\* staging_entry once the bytes in buf have been appended to it.
Staged(t, buf) ==
  [buffptr |-> bufferptr[t], size |-> staging_entry.size + Len(buf)]

\* copy_from_user succeeds: the new memory replaces the staged one and, if it
\* now ends a command, moves to the circular buffer.
aesd_write_commit(t) ==
  LET buf   == call[t].buf
      bytes == mem[bufferptr[t]] \o buf
      new   == Staged(t, buf)
      ends  == EndsCommand(bytes)
      dead  == {staging_entry.buffptr} \cup
               (IF ends THEN {replaced_entry(circular_buffer)} ELSE {})
      h     == kfree([mem EXCEPT ![bufferptr[t]] = bytes], allocated, dead)
  IN  /\ pc[t] = "copy"
      /\ bufferptr[t] \in Ptr
      /\ allocated' = h.alloc /\ mem' = h.mem
      /\ IF ends
         THEN /\ circular_buffer' = aesd_circular_buffer_add_entry(circular_buffer, new)
              /\ staging_entry' = ZeroEntry
         ELSE /\ staging_entry' = new
              /\ UNCHANGED circular_buffer
      /\ bufferptr' = [bufferptr EXCEPT ![t] = NULL]
      /\ Finish(t, Len(buf), << >>)
      /\ UNCHANGED <<module, lock, call, f_pos>>

\* Nothing staged and nothing written: buffptr[size - 1] is outside the
\* buffer (kmalloc returned ZERO_SIZE_PTR), the access faults and the process
\* dies in the driver, with the mutex.
aesd_write_oops(t) ==
  /\ pc[t] = "copy"
  /\ bufferptr[t] = ZERO_SIZE_PTR
  /\ staging_entry' = [buffptr |-> ZERO_SIZE_PTR, size |-> 0]
  /\ Goto(t, "oops")
  /\ UNCHANGED <<module, circular_buffer, lock, heap, call, bufferptr, f_pos, ret>>

-----------------------------------------------------------------------------

Body(t) ==
  \/ aesd_llseek(t)
  \/ aesd_adjust_file_offset(t)
  \/ aesd_read(t)
  \/ aesd_write_alloc(t)
  \/ aesd_write_fault(t)
  \/ aesd_write_commit(t)
  \/ aesd_write_oops(t)

Next ==
  \/ aesd_init_module
  \/ aesd_cleanup_module
  \/ \E t \in Proc :
       \/ aesd_open(t)
       \/ aesd_release(t)
       \/ \E c \in Calls : Invoke(t, c)
       \/ \E code \in {ENOTTY, EFAULT} : aesd_ioctl_rejected(t, code)
       \/ mutex_lock(t)
       \/ Body(t)
       \/ mutex_unlock(t)
       \/ ReturnUnlocked(t)

Spec == Init /\ [][Next]_vars

(* The kernel's mutex hands the lock over to a waiter that has waited long *)
(* enough, and a process inside the driver keeps running.                  *)
Fairness ==
  \A t \in Proc :
    /\ SF_vars(mutex_lock(t))
    /\ WF_vars(Body(t))
    /\ WF_vars(mutex_unlock(t))
    /\ WF_vars(ReturnUnlocked(t))

FairSpec == Spec /\ Fairness

-----------------------------------------------------------------------------
(* Properties                                                              *)

(* Every variable of the driver and of its callers has its type.           *)
TypeOK ==
  /\ module \in {"unloaded", "live"}
  /\ circular_buffer \in Buffer
  /\ staging_entry \in [buffptr : Ptr \cup {NULL, ZERO_SIZE_PTR}, size : Nat]
  /\ lock \in Proc \cup {NULL}
  /\ allocated \subseteq Ptr
  /\ mem \in [Ptr -> Seq(Byte)]
  /\ pc \in [Proc -> {"closed", "idle", "lock", "return"} \cup Critical]
  /\ call \in [Proc -> Calls \cup {NoCall}]
  /\ bufferptr \in [Proc -> Ptr \cup {NULL, ZERO_SIZE_PTR}]
  /\ f_pos \in [Proc -> Nat]
  /\ ret \in [Proc -> [code : Int, data : Seq(Byte), done : BOOLEAN]]

\* The pointers the driver still holds.
RingPtrs == {circular_buffer.entry[i].buffptr : i \in Slots} \ {NULL}
Held == RingPtrs \cup {staging_entry.buffptr} \cup {bufferptr[t] : t \in Proc}

\* A slot's memory is its own and has the recorded size.
RingOwned ==
  \A i \in Slots :
    LET e == circular_buffer.entry[i]
    IN  e.buffptr # NULL =>
          /\ e.buffptr \in allocated
          /\ e.size = Len(mem[e.buffptr])
          /\ e.buffptr # staging_entry.buffptr
          /\ \A j \in Slots \ {i} : circular_buffer.entry[j].buffptr # e.buffptr

\* So has the staged command.
StagingOwned ==
  IF staging_entry.buffptr \in Ptr
  THEN /\ staging_entry.buffptr \in allocated
       /\ staging_entry.size = Len(mem[staging_entry.buffptr])
  ELSE staging_entry.size = 0

\* The copy a writer is building is nobody else's.
CopyOwned ==
  \A t \in Proc : bufferptr[t] \in Ptr =>
    /\ bufferptr[t] \in allocated
    /\ bufferptr[t] \notin RingPtrs \cup {staging_entry.buffptr}
    /\ \A u \in Proc \ {t} : bufferptr[u] # bufferptr[t]

(* No dangling pointer and no sharing: every pointer that aesd_read,       *)
(* aesd_write or aesd_cleanup_module will dereference or free is           *)
(* allocated, belongs to one owner only, and holds exactly the number of   *)
(* bytes its entry records.                                                *)
HeapSafe == RingOwned /\ StagingOwned /\ CopyOwned

(* A step after which the driver no longer holds a pointer has freed it.   *)
(* The one pointer that can leak is that of an incomplete command, when    *)
(* the module is unloaded: aesd_cleanup_module frees the entries of the    *)
(* ring only.                                                              *)
FreesWhatItDrops ==
  \A p \in Held \ Held' :
    p \in allocated' => p = staging_entry.buffptr /\ module' = "unloaded"
DroppedIsFreed == [][FreesWhatItDrops]_vars

(* The mutex is held exactly by the process that is between mutex_lock and *)
(* mutex_unlock, and only that process has a half-built buffer.            *)
LockDiscipline ==
  \A t \in Proc :
    /\ pc[t] \in Critical <=> lock = t
    /\ bufferptr[t] # NULL => pc[t] \in {"copy", "oops"}

(* What readers see is made of complete commands: every entry of the       *)
(* circular buffer is non-empty and ends with the newline that completed   *)
(* it, and a completed command never stays in staging_entry.               *)
CommandsAreComplete ==
  /\ \A i \in Slots : LET p == circular_buffer.entry[i].buffptr
                      IN  p \in Ptr => mem[p] # << >> /\ mem[p][Len(mem[p])] = NewLine
  /\ LET p == staging_entry.buffptr
     IN  p \in Ptr => mem[p] # << >> /\ mem[p][Len(mem[p])] # NewLine

(* The bytes the device holds, and the incomplete command.                 *)
Log == [i \in 1 .. circular_buffer.num_entries |->
          mem[Contents(circular_buffer)[i].buffptr]]
Partial == IF staging_entry.buffptr \in Ptr THEN mem[staging_entry.buffptr] ELSE << >>

Abstract == INSTANCE CharDevice WITH
  Capacity <- MAX_OPS, loaded <- module = "live", log <- Log, partial <- Partial,
  users <- {t \in Proc : pc[t] # "closed"}, pos <- f_pos

(* Every call is atomic: the driver with its mutex, ring and heap behaves  *)
(* like a device that keeps the last MAX_OPS commands and answers each     *)
(* read, write, lseek and ioctl at one instant, from those commands only.  *)
ImplementsCharDevice == Abstract!Spec

(* No call waits for ever: whatever the others do and whichever error path *)
(* they leave by, a process that has reached mutex_lock gets its answer    *)
(* and returns.  Only a process that died in aesd_write, which keeps the   *)
(* mutex, can prevent it.                                                  *)
CallsReturn ==
  \A t \in Proc : pc[t] = "lock" ~> pc[t] = "idle" \/ \E u \in Proc : pc[u] = "oops"

(* A fault in the driver does not spread: the process that died holding    *)
(* the mutex keeps every other call out, so the device and its memory stay *)
(* as they were and no reader sees the entry that was being built.         *)
FaultIsContained ==
  [][(\E t \in Proc : pc[t] = "oops") =>
       UNCHANGED <<module, device, lock, heap>>]_vars

(* "Number of bytes stored in buffptr" (aesd-circular-buffer.h:28): the    *)
(* byte that aesd_write compares with '\n' is one of the stored ones.      *)
NewlineTestInBounds ==
  \A t \in Proc : pc[t] = "copy" => staging_entry.size + Len(call[t].buf) > 0

=============================================================================
