---------------------------- MODULE AesdCharProofs ----------------------------
(***************************************************************************)
(* Proofs about the driver for every number of processes, every capacity,  *)
(* every set of calls and every behaviour of the allocator.                *)
(***************************************************************************)
EXTENDS AesdChar, RingLemmas

-----------------------------------------------------------------------------
(* The inductive invariant.                                                *)

\* The types of the variables that the memory-safety argument mentions.
Types ==
  /\ module \in {"unloaded", "live"}
  /\ circular_buffer \in Buffer
  /\ staging_entry \in [buffptr : Ptr \cup {NULL, ZERO_SIZE_PTR}, size : Nat]
  /\ lock \in Proc \cup {NULL}
  /\ allocated \subseteq Ptr
  /\ mem \in [Ptr -> Seq(Byte)]
  /\ pc \in [Proc -> {"closed", "idle", "lock", "return"} \cup Critical]
  /\ call \in [Proc -> Calls \cup {NoCall}]
  /\ bufferptr \in [Proc -> Ptr \cup {NULL, ZERO_SIZE_PTR}]

\* No file is open while the module is not loaded, and a process that waits
\* for the mutex or is in aesd_write has the call that brought it there.
CallState ==
  \A t \in Proc : /\ module = "unloaded" => pc[t] = "closed"
                  /\ pc[t] = "lock" => call[t] \in Calls
                  /\ pc[t] \in {"write", "copy"} => call[t] \in WriteCalls

\* staging_entry holds ZERO_SIZE_PTR only where a process has faulted.
ZeroAfterFault ==
  staging_entry.buffptr = ZERO_SIZE_PTR => \E t \in Proc : pc[t] = "oops"

\* Memory that is not allocated holds nothing, so what kmalloc returns is
\* filled by the driver alone.
FreshIsEmpty == \A p \in Ptr \ allocated : mem[p] = << >>

\* What aesd_write has copied when copy_from_user starts is what was staged;
\* there was nothing to copy if kmalloc was asked for no byte.
CopyStarted ==
  \A t \in Proc : pc[t] = "copy" =>
    /\ bufferptr[t] \in Ptr => /\ mem[bufferptr[t]] = Partial
                              /\ Len(call[t].buf) + staging_entry.size > 0
    /\ bufferptr[t] \notin Ptr => staging_entry.buffptr = NULL /\ call[t].buf = << >>
    /\ bufferptr[t] # NULL

LockInv == Types /\ CallState /\ ZeroAfterFault /\ LockDiscipline
HeapInv == FreshIsEmpty /\ CopyStarted /\ HeapSafe /\ CommandsAreComplete
IndInv == LockInv /\ HeapInv

-----------------------------------------------------------------------------
(* Types and the mutex.                                                    *)

(* Before the module is loaded nothing is held and nothing is pending.     *)
LEMMA InitLock == Init => LockInv
BY MaxOpsAssumption, NullAssumption, PtrAssumption
   DEF Init, LockInv, Types, CallState, ZeroAfterFault, LockDiscipline, Buffer, Entry, Slots,
       ZeroEntry, aesd_circular_buffer_init, Critical

(* Every chunk a process may write is a sequence of bytes.                 *)
LEMMA ChunkIsBytes ==
  ASSUME NEW c \in WriteCalls
  PROVE  c.op = "write" /\ c.buf \in Seq(Byte)
BY ByteAssumption DEF WriteCalls

(* The operation of a pending call is the label of its body, and only a    *)
(* write goes to aesd_write.                                               *)
LEMMA CallOps ==
  ASSUME NEW c \in Calls
  PROVE  /\ c.op \in {"read", "write", "llseek", "ioctl"}
         /\ c.op = "write" => c \in WriteCalls
BY DEF Calls, ReadCalls, WriteCalls, SeekCalls, IoctlCalls

(* aesd_circular_buffer_init is a buffer.                                  *)
LEMMA InitTyped == aesd_circular_buffer_init \in Buffer
BY MaxOpsAssumption, NullAssumption
   DEF aesd_circular_buffer_init, Buffer, Entry, Slots, ZeroEntry

(* Releasing memory keeps the heap well typed.                             *)
LEMMA KfreeTyped ==
  ASSUME NEW m \in [Ptr -> Seq(Byte)], NEW a, a \subseteq Ptr, NEW S
  PROVE  /\ kfree(m, a, S).alloc = a \ S
         /\ kfree(m, a, S).mem = [p \in Ptr |-> IF p \in S THEN << >> ELSE m[p]]
         /\ kfree(m, a, S).alloc \subseteq Ptr
         /\ kfree(m, a, S).mem \in [Ptr -> Seq(Byte)]
BY DEF kfree

(* Memory that kfree releases holds nothing.                               *)
LEMMA KfreeFresh ==
  ASSUME NEW m \in [Ptr -> Seq(Byte)], NEW a, a \subseteq Ptr, NEW S,
         \A p \in Ptr \ a : m[p] = << >>
  PROVE  \A p \in Ptr \ kfree(m, a, S).alloc : kfree(m, a, S).mem[p] = << >>
BY DEF kfree

(* Every step keeps the types, and the mutex with the process that is      *)
(* between mutex_lock and mutex_unlock.                                    *)
LEMMA NextLock == LockInv /\ [Next]_vars => LockInv'
<1> SUFFICES ASSUME LockInv, [Next]_vars PROVE LockInv'
  OBVIOUS
<1> USE DEF LockInv
<1>1. CASE aesd_init_module
  BY <1>1, InitTyped, PtrAssumption, NullAssumption
     DEF aesd_init_module, Types, CallState, ZeroAfterFault, LockDiscipline, heap, ZeroEntry,
         Critical
<1>2. CASE aesd_cleanup_module
  <2> DEFINE S == {circular_buffer.entry[i].buffptr : i \in Slots}
  <2>1. allocated' = kfree(mem, allocated, S).alloc /\ mem' = kfree(mem, allocated, S).mem
    BY <1>2 DEF aesd_cleanup_module
  <2>2. allocated' \subseteq Ptr /\ mem' \in [Ptr -> Seq(Byte)]
    <3> HIDE DEF S
    <3> QED
      BY <2>1, KfreeTyped DEF Types
  <2>3. QED
    BY <1>2, <2>2, InitTyped, PtrAssumption, NullAssumption
       DEF aesd_cleanup_module, Types, CallState, ZeroAfterFault,
           LockDiscipline, ZeroEntry
<1>3. ASSUME NEW t \in Proc,
             aesd_open(t) \/ aesd_release(t) \/ ReturnUnlocked(t)
               \/ (\E code \in {ENOTTY, EFAULT} : aesd_ioctl_rejected(t, code))
      PROVE  LockInv'
  <2>1. /\ pc[t] \in {"closed", "idle", "return"}
        /\ pc[t] = "closed" => module = "live"
        /\ \E label \in {"closed", "idle", "return"} : pc' = [pc EXCEPT ![t] = label]
        /\ UNCHANGED <<module, device, lock, heap, call, bufferptr>>
    BY <1>3 DEF aesd_open, aesd_release, ReturnUnlocked, aesd_ioctl_rejected, Goto
  <2>2. Types'
    BY <2>1 DEF device, heap, Types, Critical
  <2>3. CallState' /\ ZeroAfterFault'
    BY <2>1 DEF device, Types, CallState, ZeroAfterFault, Critical
  <2>4. LockDiscipline'
    BY <2>1 DEF Types, LockDiscipline, Critical
  <2>5. QED
    BY <2>2, <2>3, <2>4
<1>4. ASSUME NEW t \in Proc, NEW c \in Calls, Invoke(t, c) PROVE LockInv'
  BY <1>4
     DEF Invoke, Goto, device, heap, Types, CallState, ZeroAfterFault, LockDiscipline, Critical
<1>5. ASSUME NEW t \in Proc, mutex_lock(t) PROVE LockInv'
  <2>1. call[t] \in Calls /\ lock = NULL /\ lock' = t
    BY <1>5 DEF mutex_lock, CallState, ZeroAfterFault, LockFree
  <2>2. QED
    BY <1>5, <2>1, CallOps, PtrAssumption
       DEF mutex_lock, Goto, device, heap, Types, CallState, ZeroAfterFault, LockDiscipline,
           Critical
<1>6. ASSUME NEW t \in Proc, mutex_unlock(t) PROVE LockInv'
  BY <1>6, PtrAssumption
     DEF mutex_unlock, OwnerAfterUnlock, Goto, device, heap, Types, CallState, ZeroAfterFault,
         LockDiscipline, Critical
<1>7. ASSUME NEW t \in Proc, Body(t) PROVE LockInv'
  <2>1. CASE aesd_llseek(t)
    BY <2>1 DEF aesd_llseek, Finish, Goto, device, heap, Types, CallState, ZeroAfterFault,
                LockDiscipline, Critical
  <2>2. CASE aesd_adjust_file_offset(t)
    BY <2>2 DEF aesd_adjust_file_offset, Finish, Goto, device, heap, Types,
                CallState, ZeroAfterFault, LockDiscipline, Critical
  <2>3. CASE aesd_read(t)
    BY <2>3 DEF aesd_read, Finish, Goto, device, heap, Types, CallState, ZeroAfterFault,
                LockDiscipline, Critical
  <2>4. CASE aesd_write_alloc(t)
    <3>0. staging_entry.buffptr \in Ptr \cup {NULL}
      BY <2>4 DEF aesd_write_alloc, Types, ZeroAfterFault, LockDiscipline, Critical
    <3>1. bufferptr' \in [Proc -> Ptr \cup {NULL, ZERO_SIZE_PTR}]
          /\ allocated' \subseteq Ptr /\ mem' \in [Ptr -> Seq(Byte)]
      <4>1. CASE UNCHANGED <<heap, bufferptr>>
        BY <4>1 DEF Types, heap
      <4>2. ASSUME NEW p \in Ptr \cup {ZERO_SIZE_PTR},
                   bufferptr' = [bufferptr EXCEPT ![t] = p],
                   allocated' = allocated \cup ({p} \cap Ptr),
                   mem' = IF staging_entry.buffptr = NULL THEN mem
                          ELSE [mem EXCEPT ![p] = mem[staging_entry.buffptr]]
            PROVE  /\ bufferptr' \in [Proc -> Ptr \cup {NULL, ZERO_SIZE_PTR}]
                   /\ allocated' \subseteq Ptr /\ mem' \in [Ptr -> Seq(Byte)]
        BY <3>0, <4>2 DEF Types
      <4>3. QED
        BY <2>4, <4>1, <4>2 DEF aesd_write_alloc, kmalloc
    <3>2. \/ pc' = [pc EXCEPT ![t] = "unlock"] /\ UNCHANGED bufferptr
          \/ pc' = [pc EXCEPT ![t] = "copy"]
             /\ \E p : bufferptr' = [bufferptr EXCEPT ![t] = p]
      BY <2>4 DEF aesd_write_alloc, Finish, Goto
    <3>3. pc[t] = "write" /\ UNCHANGED <<module, device, lock, call>>
      BY <2>4 DEF aesd_write_alloc
    <3>4. Types'
      BY <3>1, <3>2, <3>3 DEF device, Types, Critical
    <3>5. CallState'
      BY <3>2, <3>3 DEF Types, CallState, Critical
    <3>6. ZeroAfterFault'
      BY <3>2, <3>3 DEF device, Types, ZeroAfterFault
    <3>7. LockDiscipline'
      BY <3>2, <3>3 DEF Types, LockDiscipline, Critical
    <3>8. QED
      BY <3>4, <3>5, <3>6, <3>7
  <2>5. CASE aesd_write_fault(t)
    <3> DEFINE S == {bufferptr[t]}
    <3>1. allocated' = kfree(mem, allocated, S).alloc /\ mem' = kfree(mem, allocated, S).mem
      BY <2>5 DEF aesd_write_fault
    <3>2. allocated' \subseteq Ptr /\ mem' \in [Ptr -> Seq(Byte)]
      <4> HIDE DEF S
      <4> QED
        BY <3>1, KfreeTyped DEF Types
    <3>3. QED
      BY <2>5, <3>2
         DEF aesd_write_fault, Finish, Goto, device, Types, CallState, ZeroAfterFault,
             LockDiscipline, Critical
  <2>6. CASE aesd_write_commit(t)
    <3> DEFINE p == bufferptr[t]
               bytes == mem[p] \o call[t].buf
               dead == {staging_entry.buffptr} \cup
                       (IF EndsCommand(bytes) THEN {replaced_entry(circular_buffer)} ELSE {})
               m == [mem EXCEPT ![p] = bytes]
    <3>1. p \in Ptr /\ call[t].buf \in Seq(Byte)
      BY <2>6, ChunkIsBytes DEF aesd_write_commit, CallState
    <3>2. bytes \in Seq(Byte) /\ m \in [Ptr -> Seq(Byte)]
      BY <3>1 DEF Types
    <3>3. allocated' = kfree(m, allocated, dead).alloc /\ mem' = kfree(m, allocated, dead).mem
      BY <2>6 DEF aesd_write_commit
    <3>4. allocated' \subseteq Ptr /\ mem' \in [Ptr -> Seq(Byte)]
      <4> HIDE DEF m, dead
      <4> QED
        BY <3>2, <3>3, KfreeTyped DEF Types
    <3>5. Staged(t, call[t].buf) \in Entry
      BY <3>1 DEF Staged, Entry, Types
    <3>6. circular_buffer' \in Buffer
      BY <2>6, <3>5, AddTyped DEF aesd_write_commit, Types
    <3>7. staging_entry' \in [buffptr : Ptr \cup {NULL, ZERO_SIZE_PTR}, size : Nat]
      BY <2>6, <3>5, NullAssumption DEF aesd_write_commit, Entry, ZeroEntry
    <3>8. staging_entry'.buffptr # ZERO_SIZE_PTR
      BY <2>6, <3>1, PtrAssumption DEF aesd_write_commit, Staged, ZeroEntry
    <3>9. /\ pc[t] = "copy" /\ pc' = [pc EXCEPT ![t] = "unlock"]
          /\ bufferptr' = [bufferptr EXCEPT ![t] = NULL]
          /\ UNCHANGED <<module, lock, call>>
      BY <2>6 DEF aesd_write_commit, Finish, Goto
    <3>10. Types'
      BY <3>4, <3>6, <3>7, <3>9 DEF Types, Critical
    <3>11. QED
      BY <3>8, <3>9, <3>10 DEF Types, CallState, ZeroAfterFault, LockDiscipline, Critical
  <2>7. CASE aesd_write_oops(t)
    BY <2>7 DEF aesd_write_oops, Goto, heap, Types, CallState, ZeroAfterFault, LockDiscipline,
                Critical
  <2>8. QED
    BY <1>7, <2>1, <2>2, <2>3, <2>4, <2>5, <2>6, <2>7 DEF Body
<1>8. CASE UNCHANGED vars
  BY <1>8 DEF vars, device, heap, Types, CallState, ZeroAfterFault, LockDiscipline
<1>9. QED
  BY <1>1, <1>2, <1>3, <1>4, <1>5, <1>6, <1>7, <1>8 DEF Next

-----------------------------------------------------------------------------
(* The heap.                                                               *)

\* The definitions that a claim about the heap unfolds to.
USE DEF HeapInv, HeapSafe

(* Before the module is loaded nothing is allocated.                       *)
LEMMA InitHeap == Init => HeapInv
BY MaxOpsAssumption, NullAssumption
   DEF Init, FreshIsEmpty, CopyStarted, RingOwned, StagingOwned, CopyOwned, RingPtrs,
       CommandsAreComplete, Slots, ZeroEntry, aesd_circular_buffer_init

(* A step that touches neither the device nor the heap, and does not bring *)
(* a process to copy_from_user, keeps the heap invariant.                  *)
LEMMA HeapFrame ==
  ASSUME HeapInv, UNCHANGED <<device, heap, bufferptr>>,
         \A t \in Proc : pc'[t] = "copy" => pc[t] = "copy" /\ call'[t] = call[t]
  PROVE  HeapInv'
BY DEF device, heap, FreshIsEmpty, CopyStarted, RingOwned, StagingOwned, CopyOwned,
       RingPtrs, CommandsAreComplete, Partial

(* With no process in the driver, an empty ring and nothing staged, what   *)
(* is allocated does not matter.                                           *)
LEMMA HeapOfFreshDevice ==
  ASSUME FreshIsEmpty', Types', LockDiscipline',
         circular_buffer' = aesd_circular_buffer_init, staging_entry' = ZeroEntry,
         \A t \in Proc : pc'[t] = "closed"
  PROVE  HeapInv'
<1>1. \A t \in Proc : bufferptr'[t] = NULL
  BY DEF LockDiscipline
<1>2. \A i \in Slots : circular_buffer'.entry[i] = ZeroEntry
  BY DEF aesd_circular_buffer_init
<1>3. QED
  BY <1>1, <1>2, NullAssumption
     DEF CopyStarted, RingOwned, StagingOwned, CopyOwned, CommandsAreComplete, ZeroEntry

(* aesd_write up to copy_from_user: what kmalloc returns is new, so no     *)
(* other pointer is disturbed.                                             *)
LEMMA HeapAlloc ==
  ASSUME IndInv, NEW t \in Proc, aesd_write_alloc(t)
  PROVE  HeapInv'
<1>0. /\ LockInv /\ HeapInv /\ LockInv'
      /\ lock = t /\ pc[t] = "write" /\ call[t] \in WriteCalls
      /\ UNCHANGED <<device, call>>
  BY NextLock DEF IndInv, LockInv, LockDiscipline, Critical, CallState, aesd_write_alloc,
                  Next, Body
<1>1. CASE UNCHANGED <<heap, bufferptr>> /\ pc' = [pc EXCEPT ![t] = "unlock"]
  BY <1>0, <1>1, HeapFrame DEF LockInv, Types
<1>2. ASSUME NEW p \in kmalloc(Len(call[t].buf) + staging_entry.size),
             bufferptr' = [bufferptr EXCEPT ![t] = p],
             allocated' = allocated \cup ({p} \cap Ptr),
             mem' = IF staging_entry.buffptr = NULL THEN mem
                    ELSE [mem EXCEPT ![p] = mem[staging_entry.buffptr]],
             pc' = [pc EXCEPT ![t] = "copy"]
      PROVE  HeapInv'
  <2>0. /\ call[t].buf \in Seq(Byte) /\ Len(call[t].buf) \in Nat
        /\ staging_entry.buffptr \in Ptr \cup {NULL} /\ staging_entry.size \in Nat
        /\ mem \in [Ptr -> Seq(Byte)] /\ bufferptr \in [Proc -> Ptr \cup {NULL, ZERO_SIZE_PTR}]
        /\ allocated \subseteq Ptr
        /\ \A u \in Proc \ {t} : bufferptr[u] = NULL /\ pc[u] # "copy"
    BY <1>0, ChunkIsBytes, PtrAssumption
       DEF LockInv, Types, ZeroAfterFault, LockDiscipline, Critical
  <2>1. CASE p = ZERO_SIZE_PTR
    <3>1. Len(call[t].buf) = 0 /\ staging_entry.size = 0
      BY <1>2, <2>0, <2>1, PtrAssumption DEF kmalloc
    <3>2. call[t].buf = << >> /\ staging_entry.buffptr = NULL
      BY <1>0, <2>0, <3>1 DEF StagingOwned, CommandsAreComplete
    <3>3. mem' = mem /\ allocated' = allocated
      BY <1>2, <2>1, <3>2, PtrAssumption
    <3>4. QED
      BY <1>0, <1>2, <2>0, <2>1, <3>2, <3>3, PtrAssumption
         DEF FreshIsEmpty, CopyStarted, RingOwned, StagingOwned, CopyOwned, RingPtrs,
             CommandsAreComplete, Partial, device, LockInv, Types
  <2>2. CASE p \in Ptr
    <3>1. p \notin allocated /\ Len(call[t].buf) + staging_entry.size > 0
      BY <1>2, <2>0, <2>2, PtrAssumption DEF kmalloc
    <3>2. /\ mem' \in [Ptr -> Seq(Byte)]
          /\ mem'[p] = Partial
          /\ \A q \in Ptr \ {p} : mem'[q] = mem[q]
      BY <1>0, <1>2, <2>0, <2>2, <3>1, NullAssumption DEF FreshIsEmpty, Partial
    <3>3. FreshIsEmpty'
      BY <1>0, <1>2, <2>2, <3>2 DEF FreshIsEmpty
    <3>4. RingOwned'
      BY <1>0, <1>2, <2>0, <3>1, <3>2 DEF RingOwned, device
    <3>5. StagingOwned'
      BY <1>0, <1>2, <2>0, <3>1, <3>2 DEF StagingOwned, device
    <3>6. CopyOwned'
      BY <1>0, <1>2, <2>0, <2>2, <3>1, NullAssumption
         DEF CopyOwned, RingOwned, StagingOwned, RingPtrs, device
    <3>7. CopyStarted'
      BY <1>0, <1>2, <2>0, <2>2, <3>1, <3>2, NullAssumption
         DEF CopyStarted, StagingOwned, Partial, device, LockInv, Types
    <3>8. CommandsAreComplete'
      BY <1>0, <2>0, <3>1, <3>2, NullAssumption
         DEF CommandsAreComplete, RingOwned, StagingOwned, device
    <3>9. QED
      BY <3>3, <3>4, <3>5, <3>6, <3>7, <3>8
  <2>3. QED
    BY <2>1, <2>2 DEF kmalloc
<1>3. QED
  BY <1>1, <1>2 DEF aesd_write_alloc, Finish, Goto

(* aesd_write when copy_from_user fails: only the new memory goes away.    *)
LEMMA HeapFault ==
  ASSUME IndInv, NEW t \in Proc, aesd_write_fault(t)
  PROVE  HeapInv'
<1> DEFINE p == bufferptr[t]
           S == {p}
<1>0. /\ LockInv /\ HeapInv
      /\ lock = t /\ pc[t] = "copy" /\ call[t].buf # << >>
      /\ UNCHANGED <<device, call>>
      /\ bufferptr' = [bufferptr EXCEPT ![t] = NULL]
      /\ pc' = [pc EXCEPT ![t] = "unlock"]
  BY DEF IndInv, LockInv, LockDiscipline, Critical, aesd_write_fault, Finish, Goto
<1>1. /\ p \in Ptr
      /\ mem \in [Ptr -> Seq(Byte)] /\ bufferptr \in [Proc -> Ptr \cup {NULL, ZERO_SIZE_PTR}]
      /\ pc \in [Proc -> {"closed", "idle", "lock", "return"} \cup Critical]
      /\ allocated \subseteq Ptr
      /\ \A u \in Proc \ {t} : bufferptr[u] = NULL /\ pc[u] # "copy"
  BY <1>0 DEF LockInv, Types, LockDiscipline, Critical, CopyStarted
<1>2. allocated' = kfree(mem, allocated, S).alloc /\ mem' = kfree(mem, allocated, S).mem
  BY DEF aesd_write_fault
<1>3. /\ allocated' = allocated \ {p}
      /\ mem'[p] = << >>
      /\ \A q \in Ptr \ {p} : mem'[q] = mem[q]
  BY <1>1, <1>2 DEF kfree
<1>4. FreshIsEmpty'
  <2>1. \A q \in Ptr \ allocated : mem[q] = << >>
    BY <1>0 DEF FreshIsEmpty
  <2>2. \A q \in Ptr \ allocated' : mem'[q] = << >>
    BY <1>3, <2>1
  <2>3. QED
    BY <2>2 DEF FreshIsEmpty
<1>5. RingOwned'
  BY <1>0, <1>1, <1>3 DEF RingOwned, CopyOwned, RingPtrs, device
<1>6. StagingOwned'
  BY <1>0, <1>1, <1>3 DEF StagingOwned, CopyOwned, device
<1>7. CopyOwned' /\ CopyStarted'
  BY <1>0, <1>1, NullAssumption DEF CopyOwned, CopyStarted, Critical
<1>8. CommandsAreComplete'
  BY <1>0, <1>1, <1>3, NullAssumption
     DEF CommandsAreComplete, CopyOwned, RingPtrs, device
<1>9. QED
  BY <1>4, <1>5, <1>6, <1>7, <1>8

(* aesd_write when copy_from_user succeeds: the old staged memory and the  *)
(* replaced entry go away, and nothing points to them any more.            *)
LEMMA HeapCommit ==
  ASSUME IndInv, NEW t \in Proc, aesd_write_commit(t)
  PROVE  HeapInv'
<1> DEFINE p == bufferptr[t]
           buf == call[t].buf
           bytes == mem[p] \o buf
           ends == EndsCommand(bytes)
           old == staging_entry.buffptr
           gone == replaced_entry(circular_buffer)
           dead == {old} \cup (IF ends THEN {gone} ELSE {})
           m == [mem EXCEPT ![p] = bytes]
           k == circular_buffer.in_offs
<1>0. /\ LockInv /\ HeapInv
      /\ lock = t /\ pc[t] = "copy" /\ p \in Ptr
      /\ bufferptr' = [bufferptr EXCEPT ![t] = NULL]
      /\ pc' = [pc EXCEPT ![t] = "unlock"]
  BY DEF IndInv, LockInv, LockDiscipline, Critical, aesd_write_commit, Finish, Goto
<1>1. /\ mem \in [Ptr -> Seq(Byte)] /\ bufferptr \in [Proc -> Ptr \cup {NULL, ZERO_SIZE_PTR}]
      /\ pc \in [Proc -> {"closed", "idle", "lock", "return"} \cup Critical]
      /\ allocated \subseteq Ptr /\ circular_buffer \in Buffer
      /\ buf \in Seq(Byte) /\ staging_entry.size \in Nat
      /\ \A u \in Proc \ {t} : bufferptr[u] = NULL /\ pc[u] # "copy"
  BY <1>0, ChunkIsBytes DEF LockInv, Types, LockDiscipline, Critical, CallState
<1>2. CopyOwned' /\ CopyStarted'
  BY <1>0, <1>1, NullAssumption DEF CopyOwned, CopyStarted, Critical
<1>3. /\ bytes \in Seq(Byte) /\ bytes # << >>
      /\ Len(bytes) = staging_entry.size + Len(buf)
  <2>1. mem[p] = Partial /\ Len(buf) + staging_entry.size > 0
    BY <1>0 DEF CopyStarted
  <2>2. mem[p] \in Seq(Byte) /\ Len(mem[p]) = staging_entry.size
    BY <1>0, <1>1, <2>1 DEF Partial, StagingOwned
  <2>3. \A a, b \in Seq(Byte) : a \o b \in Seq(Byte) /\ Len(a \o b) = Len(a) + Len(b)
    BY ConcatProperties
  <2>4. Len(bytes) = staging_entry.size + Len(buf) /\ bytes \in Seq(Byte)
    BY <1>1, <2>2, <2>3
  <2>5. QED
    BY <1>1, <2>1, <2>4
<1>4. /\ p \in allocated /\ p # old /\ p \notin dead
      /\ \A i \in Slots : circular_buffer.entry[i].buffptr # p
      /\ k \in Slots /\ circular_buffer.entry \in [Slots -> Entry]
      /\ \A i \in Slots : circular_buffer.entry[i].buffptr \in Ptr \cup {NULL}
  <2>1. k \in Slots /\ circular_buffer.entry \in [Slots -> Entry]
    BY <1>1 DEF Buffer
  <2>2. \A i \in Slots : circular_buffer.entry[i].buffptr \in Ptr \cup {NULL}
    BY <2>1 DEF Entry
  <2>3. p \in allocated /\ p # old /\ p # NULL
    BY <1>0, NullAssumption DEF CopyOwned
  <2>4. \A i \in Slots : circular_buffer.entry[i].buffptr # p
    BY <1>0, <2>3 DEF CopyOwned, RingPtrs
  <2>5. p # gone
    BY <2>1, <2>3, <2>4 DEF replaced_entry
  <2>6. QED
    BY <2>1, <2>2, <2>3, <2>4, <2>5
<1>5. /\ allocated' = allocated \ dead
      /\ mem' = [q \in Ptr |-> IF q \in dead THEN << >> ELSE m[q]]
  BY DEF aesd_write_commit, kfree
<1>6. FreshIsEmpty'
  BY <1>0, <1>1, <1>4, <1>5 DEF FreshIsEmpty
<1>7. /\ p \in allocated' /\ mem'[p] = bytes
      /\ \A q \in allocated \ (dead \cup {p}) : q \in allocated' /\ mem'[q] = mem[q]
  BY <1>0, <1>1, <1>4, <1>5
<1>8. CASE ends
  <2>1. /\ circular_buffer'.entry
             = [circular_buffer.entry EXCEPT ![k] = [buffptr |-> p, size |-> Len(bytes)]]
        /\ staging_entry' = ZeroEntry
        /\ dead = {old, gone}
    BY <1>3, <1>8 DEF aesd_write_commit, aesd_circular_buffer_add_entry, Staged
  <2>2. ASSUME NEW i \in Slots, i # k, circular_buffer.entry[i].buffptr # NULL
        PROVE  circular_buffer.entry[i].buffptr \in allocated \ (dead \cup {p})
    BY <1>0, <1>4, <2>1, <2>2 DEF RingOwned, replaced_entry
  <2>3. /\ circular_buffer'.entry[k] = [buffptr |-> p, size |-> Len(bytes)]
        /\ \A i \in Slots \ {k} : circular_buffer'.entry[i] = circular_buffer.entry[i]
    BY <1>4, <2>1
  <2> HIDE DEF dead, m, bytes, k, p, ends, gone, old
  <2>4. RingOwned'
    BY <1>0, <1>4, <1>7, <2>1, <2>2, <2>3, NullAssumption DEF RingOwned, ZeroEntry
  <2>5. StagingOwned'
    BY <2>1, NullAssumption DEF StagingOwned, ZeroEntry
  <2>6. CommandsAreComplete'
    BY <1>0, <1>4, <1>7, <1>8, <2>1, <2>2, <2>3, NullAssumption
       DEF CommandsAreComplete, ZeroEntry, EndsCommand, ends
  <2>7. QED
    BY <1>2, <1>6, <2>4, <2>5, <2>6
<1>9. CASE ~ends
  <2>1. /\ circular_buffer' = circular_buffer
        /\ staging_entry' = [buffptr |-> p, size |-> Len(bytes)]
        /\ dead = {old}
    BY <1>3, <1>9 DEF aesd_write_commit, Staged
  <2>2. ASSUME NEW i \in Slots, circular_buffer.entry[i].buffptr # NULL
        PROVE  circular_buffer.entry[i].buffptr \in allocated \ (dead \cup {p})
    BY <1>0, <1>4, <2>1, <2>2 DEF RingOwned
  <2> HIDE DEF dead, m, bytes, k, p, ends, gone, old
  <2>3. RingOwned'
    BY <1>0, <1>4, <1>7, <2>1, <2>2 DEF RingOwned
  <2>4. StagingOwned'
    BY <1>0, <1>7, <2>1 DEF StagingOwned
  <2>5. CommandsAreComplete'
    BY <1>0, <1>3, <1>4, <1>7, <1>9, <2>1, <2>2, NullAssumption
       DEF CommandsAreComplete, EndsCommand, ends
  <2>6. QED
    BY <1>2, <1>6, <2>3, <2>4, <2>5
<1>10. QED
  BY <1>8, <1>9

(* Every step keeps the heap invariant.                                    *)
LEMMA NextHeap == IndInv /\ [Next]_vars => HeapInv'
<1> SUFFICES ASSUME IndInv, [Next]_vars PROVE HeapInv'
  OBVIOUS
<1>0. LockInv /\ LockInv'
  BY NextLock DEF IndInv
<1> HIDE DEF HeapInv
<1>1. CASE aesd_init_module
  <2>1. FreshIsEmpty'
    BY <1>1 DEF aesd_init_module, heap, FreshIsEmpty, IndInv, HeapInv
  <2>2. QED
    BY <1>0, <1>1, <2>1, HeapOfFreshDevice DEF aesd_init_module, LockInv, CallState
<1>2. CASE aesd_cleanup_module
  <2>1. FreshIsEmpty'
    <3> DEFINE S == {circular_buffer.entry[i].buffptr : i \in Slots}
    <3>1. allocated' = kfree(mem, allocated, S).alloc /\ mem' = kfree(mem, allocated, S).mem
      BY <1>2 DEF aesd_cleanup_module
    <3>2. mem \in [Ptr -> Seq(Byte)] /\ allocated \subseteq Ptr
      BY <1>0 DEF LockInv, Types
    <3> HIDE DEF S
    <3>3. \A p \in Ptr \ allocated : mem[p] = << >>
      BY DEF FreshIsEmpty, IndInv, HeapInv
    <3>4. QED
      BY <3>1, <3>2, <3>3, KfreeFresh DEF FreshIsEmpty
  <2>2. QED
    BY <1>0, <1>2, <2>1, HeapOfFreshDevice DEF aesd_cleanup_module, LockInv
<1>3. ASSUME NEW t \in Proc,
             aesd_open(t) \/ aesd_release(t) \/ ReturnUnlocked(t)
               \/ (\E c \in Calls : Invoke(t, c)) \/ mutex_unlock(t)
               \/ (\E code \in {ENOTTY, EFAULT} : aesd_ioctl_rejected(t, code))
               \/ aesd_llseek(t) \/ aesd_adjust_file_offset(t) \/ aesd_read(t)
      PROVE  HeapInv'
  <2>1. UNCHANGED <<device, heap, bufferptr>>
    BY <1>3 DEF aesd_open, aesd_release, ReturnUnlocked, Invoke, mutex_unlock,
                aesd_ioctl_rejected, aesd_llseek, aesd_adjust_file_offset, aesd_read
  <2>2. \E l \in {"closed", "idle", "lock", "return", "unlock"} :
          pc' = [pc EXCEPT ![t] = l]
    BY <1>3 DEF aesd_open, aesd_release, ReturnUnlocked, Invoke, mutex_unlock,
                aesd_ioctl_rejected, aesd_llseek, aesd_adjust_file_offset, aesd_read,
                Finish, Goto
  <2>3. \A u \in Proc \ {t} : call'[u] = call[u]
    BY <1>0, <1>3
       DEF aesd_open, aesd_release, ReturnUnlocked, Invoke, mutex_unlock,
           aesd_ioctl_rejected, aesd_llseek, aesd_adjust_file_offset, aesd_read,
           LockInv, Types
  <2>4. \A u \in Proc : pc'[u] = "copy" => pc[u] = "copy" /\ call'[u] = call[u]
    BY <1>0, <2>2, <2>3 DEF LockInv, Types
  <2>5. QED
    BY <2>1, <2>4, HeapFrame DEF IndInv
<1>4. ASSUME NEW t \in Proc, mutex_lock(t) PROVE HeapInv'
  <2>1. call[t].op # "copy"
    BY <1>0, <1>4, CallOps DEF mutex_lock, LockInv, CallState
  <2>2. QED
    BY <1>0, <1>4, <2>1, HeapFrame DEF mutex_lock, Goto, IndInv, LockInv, Types
<1>5. ASSUME NEW t \in Proc, aesd_write_oops(t) PROVE HeapInv'
  <2>1. /\ HeapInv /\ staging_entry.buffptr = NULL
        /\ staging_entry' = [buffptr |-> ZERO_SIZE_PTR, size |-> 0]
        /\ UNCHANGED <<circular_buffer, allocated, mem, bufferptr, call>>
        /\ \A u \in Proc : pc'[u] # "copy"
    BY <1>0, <1>5, PtrAssumption
       DEF aesd_write_oops, Goto, heap, IndInv, HeapInv, CopyStarted, LockInv, Types,
           LockDiscipline, Critical
  <2>2. \A i \in Slots : circular_buffer.entry[i].buffptr \in Ptr \cup {NULL}
    BY <1>0 DEF LockInv, Types, Buffer, Entry
  <2>3. QED
    BY <2>1, <2>2, PtrAssumption
       DEF HeapInv, FreshIsEmpty, CopyStarted, RingOwned, StagingOwned, CopyOwned,
           RingPtrs, CommandsAreComplete
<1>6. CASE UNCHANGED vars
  BY <1>6, HeapFrame DEF vars, IndInv
<1>7. QED
  BY <1>1, <1>2, <1>3, <1>4, <1>5, <1>6, HeapAlloc, HeapFault, HeapCommit DEF Next, Body

-----------------------------------------------------------------------------
(* The ring.                                                               *)

\* The ring has one of its two shapes, and is empty while there is no module.
RingInv ==
  /\ Filling(circular_buffer) \/ Wrapped(circular_buffer)
  /\ module = "unloaded" =>
       circular_buffer = aesd_circular_buffer_init /\ staging_entry = ZeroEntry

(* An initialised ring is empty.                                           *)
LEMMA InitFilling == Filling(aesd_circular_buffer_init)
BY MaxOpsAssumption DEF Filling, aesd_circular_buffer_init

(* Only aesd_write_commit adds an entry to the ring.                       *)
LEMMA NextRing == LockInv /\ RingInv /\ [Next]_vars => RingInv'
<1> SUFFICES ASSUME LockInv, RingInv, [Next]_vars PROVE RingInv'
  OBVIOUS
<1>1. CASE aesd_init_module \/ aesd_cleanup_module
  BY <1>1, InitFilling DEF aesd_init_module, aesd_cleanup_module, RingInv
<1>2. ASSUME NEW t \in Proc, aesd_write_commit(t) PROVE RingInv'
  <2>1. Staged(t, call[t].buf) \in Entry /\ circular_buffer \in Buffer /\ module = "live"
    <3>1. call[t].buf \in Seq(Byte) /\ bufferptr[t] \in Ptr
      BY <1>2, ChunkIsBytes DEF aesd_write_commit, LockInv, CallState
    <3>2. QED
      BY <1>2, <3>1 DEF aesd_write_commit, Staged, Entry, LockInv, Types, CallState
  <2>2. \/ circular_buffer' = circular_buffer
        \/ circular_buffer'
             = aesd_circular_buffer_add_entry(circular_buffer, Staged(t, call[t].buf))
    BY <1>2 DEF aesd_write_commit
  <2>3. module' = "live"
    BY <1>2, <2>1 DEF aesd_write_commit
  <2>4. QED
    BY <2>1, <2>2, <2>3, AddShape DEF RingInv
<1>3. ASSUME NEW t \in Proc, aesd_write_oops(t) PROVE RingInv'
  BY <1>3 DEF aesd_write_oops, RingInv, LockInv, CallState
<1>4. CASE UNCHANGED <<module, device>>
  BY <1>4 DEF device, RingInv
<1>5. QED
  BY <1>1, <1>2, <1>3, <1>4
     DEF Next, Body, vars, aesd_open, aesd_release, Invoke, aesd_ioctl_rejected,
         mutex_lock, mutex_unlock, ReturnUnlocked, aesd_llseek,
         aesd_adjust_file_offset, aesd_read, aesd_write_alloc, aesd_write_fault

-----------------------------------------------------------------------------
(* The theorems.                                                           *)

(* The invariant holds in every reachable state.                           *)
LEMMA Invariance == Spec => [](IndInv /\ RingInv)
<1>1. Init => IndInv /\ RingInv
  BY InitLock, InitHeap, InitFilling DEF IndInv, RingInv, Init
<1>2. IndInv /\ RingInv /\ [Next]_vars => (IndInv /\ RingInv)'
  BY NextLock, NextHeap, NextRing DEF IndInv
<1>3. QED
  BY <1>1, <1>2, PTL DEF Spec

(* The device's mutex is held exactly while a process is inside a file     *)
(* operation, whatever the processes do and however they interleave.       *)
THEOREM MutexIsSound == Spec => []LockDiscipline
<1>1. IndInv => LockDiscipline
  BY DEF IndInv, LockInv
<1>2. QED
  BY <1>1, Invariance, PTL

(* Memory safety: no file operation of the driver ever uses or frees       *)
(* memory that is not allocated or that something else owns, and every     *)
(* entry records the size of its memory.                                   *)
THEOREM MemoryIsSafe == Spec => []HeapSafe
<1>1. IndInv => HeapSafe
  BY DEF IndInv
<1>2. QED
  BY <1>1, Invariance, PTL

(* Readers see complete commands only.                                     *)
THEOREM CommandsComplete == Spec => []CommandsAreComplete
<1>1. IndInv => CommandsAreComplete
  BY DEF IndInv
<1>2. QED
  BY <1>1, Invariance, PTL

(* What the driver stops pointing to has been freed, but for the staged    *)
(* bytes when the module is unloaded (aesd_cleanup_module).                *)
THEOREM OnlyStagingLeaks == Spec => DroppedIsFreed
<1>1. (IndInv /\ RingInv) /\ (IndInv /\ RingInv)' /\ [Next]_vars => [FreesWhatItDrops]_vars
  <2> SUFFICES ASSUME IndInv, RingInv, IndInv', [Next]_vars
               PROVE  [FreesWhatItDrops]_vars
    OBVIOUS
  <2>0. /\ LockInv /\ HeapInv /\ RingInv
        /\ allocated' \subseteq Ptr /\ NULL \notin allocated' /\ ZERO_SIZE_PTR \notin allocated'
    BY NullAssumption, PtrAssumption DEF IndInv, LockInv, Types
  <2>1. CASE UNCHANGED <<device, bufferptr>>
    BY <2>1 DEF device, FreesWhatItDrops, Held, RingPtrs
  <2>2. CASE aesd_init_module
    BY <2>0, <2>2 DEF aesd_init_module, RingInv, FreesWhatItDrops, Held, RingPtrs
  <2>3. CASE aesd_cleanup_module
    <3>1. \A t \in Proc : bufferptr[t] = NULL
      BY <2>0, <2>3 DEF aesd_cleanup_module, LockInv, LockDiscipline
    <3>2. /\ module' = "unloaded"
          /\ \A i \in Slots : circular_buffer.entry[i].buffptr \notin allocated'
      BY <2>3 DEF aesd_cleanup_module, kfree
    <3>3. QED
      BY <2>0, <3>1, <3>2 DEF FreesWhatItDrops, Held, RingPtrs
  <2>4. ASSUME NEW t \in Proc, aesd_write_alloc(t), ~UNCHANGED bufferptr PROVE FreesWhatItDrops
    <3>1. bufferptr[t] = NULL /\ UNCHANGED device
      BY <2>0, <2>4 DEF aesd_write_alloc, LockInv, LockDiscipline
    <3>2. \E p : bufferptr' = [bufferptr EXCEPT ![t] = p]
      BY <2>4 DEF aesd_write_alloc
    <3>3. QED
      BY <2>0, <3>1, <3>2 DEF FreesWhatItDrops, Held, RingPtrs, device, LockInv, Types
  <2>5. ASSUME NEW t \in Proc, aesd_write_fault(t) PROVE FreesWhatItDrops
    <3>1. /\ bufferptr' = [bufferptr EXCEPT ![t] = NULL] /\ UNCHANGED device
          /\ allocated' = allocated \ {bufferptr[t]}
      BY <2>5 DEF aesd_write_fault, kfree
    <3>2. QED
      BY <2>0, <3>1 DEF FreesWhatItDrops, Held, RingPtrs, device, LockInv, Types
  <2>6. ASSUME NEW t \in Proc, aesd_write_commit(t) PROVE FreesWhatItDrops
    <3> DEFINE p == bufferptr[t]
               k == circular_buffer.in_offs
               ends == EndsCommand(mem[p] \o call[t].buf)
    <3>1. /\ bufferptr' = [bufferptr EXCEPT ![t] = NULL]
          /\ staging_entry.buffptr \notin allocated'
          /\ ends => replaced_entry(circular_buffer) \notin allocated'
      BY <2>6 DEF aesd_write_commit, kfree
    <3>2. ~ends => staging_entry'.buffptr = p /\ UNCHANGED circular_buffer
      BY <2>6 DEF aesd_write_commit, Staged
    <3>3. ends => \E e \in Entry :
            /\ e.buffptr = p
            /\ circular_buffer'.entry = [circular_buffer.entry EXCEPT ![k] = e]
      <4>1. call[t].buf \in Seq(Byte) /\ p \in Ptr
        BY <2>0, <2>6, ChunkIsBytes DEF aesd_write_commit, LockInv, CallState
      <4>2. Staged(t, call[t].buf) \in Entry /\ Staged(t, call[t].buf).buffptr = p
        BY <2>0, <4>1 DEF Staged, Entry, LockInv, Types
      <4>3. ends => circular_buffer'.entry
                      = [circular_buffer.entry EXCEPT ![k] = Staged(t, call[t].buf)]
        BY <2>6 DEF aesd_write_commit, aesd_circular_buffer_add_entry
      <4>4. QED
        BY <4>2, <4>3
    <3>4. ends => circular_buffer.entry[k].buffptr \notin allocated'
      BY <2>0, <3>1
         DEF RingInv, Filling, Wrapped, replaced_entry, aesd_circular_buffer_full,
             ZeroEntry, LockInv, Types, Buffer
    <3>5. /\ bufferptr \in [Proc -> Ptr \cup {NULL, ZERO_SIZE_PTR}]
          /\ k \in Slots /\ circular_buffer.entry \in [Slots -> Entry]
          /\ p \in Ptr
      BY <2>0, <2>6 DEF LockInv, Types, Buffer, aesd_write_commit
    <3> HIDE DEF ends, k, p
    <3>6. p \in Held'
      BY <3>2, <3>3, <3>5, NullAssumption DEF Held, RingPtrs
    <3>7. \A q \in RingPtrs : q \in Held' \/ q \notin allocated'
      BY <3>2, <3>3, <3>4, <3>5 DEF Held, RingPtrs
    <3>8. \A u \in Proc : bufferptr[u] \in Held' \/ bufferptr[u] \notin allocated'
      BY <3>1, <3>5, <3>6 DEF Held, p
    <3>9. QED
      BY <3>1, <3>7, <3>8 DEF FreesWhatItDrops, Held
  <2>7. ASSUME NEW t \in Proc, aesd_write_oops(t) PROVE FreesWhatItDrops
    <3>1. staging_entry.buffptr = NULL /\ UNCHANGED <<circular_buffer, bufferptr>>
      BY <2>0, <2>7, PtrAssumption DEF aesd_write_oops, CopyStarted
    <3>2. QED
      BY <2>0, <3>1 DEF FreesWhatItDrops, Held, RingPtrs
  <2>8. QED
    BY <2>1, <2>2, <2>3, <2>4, <2>5, <2>6, <2>7
       DEF Next, Body, vars, aesd_open, aesd_release, Invoke, aesd_ioctl_rejected,
           mutex_lock, mutex_unlock, ReturnUnlocked, aesd_llseek,
           aesd_adjust_file_offset, aesd_read, aesd_write_alloc
<1>2. QED
  BY <1>1, Invariance, PTL DEF Spec, DroppedIsFreed

-----------------------------------------------------------------------------
(* What the ring stores.                                                   *)

HIDE DEF HeapInv, HeapSafe

\* An entry with memory behind it.
Stored == [buffptr : Ptr, size : Nat]

\* The size is the number of bytes stored, and every entry held has memory.
StoredInv ==
  /\ circular_buffer.size = SizeOfOldest(circular_buffer, circular_buffer.num_entries)
  /\ Contents(circular_buffer) \in Seq(Stored)

(* An initialised ring stores nothing.                                     *)
LEMMA InitStored ==
  /\ aesd_circular_buffer_init.size
       = SizeOfOldest(aesd_circular_buffer_init, aesd_circular_buffer_init.num_entries)
  /\ Contents(aesd_circular_buffer_init) = << >>
<1>1. SizeOfOldest(aesd_circular_buffer_init, 0) = 0
  BY InitTyped, SizeStep
<1>2. aesd_circular_buffer_init.size = 0 /\ aesd_circular_buffer_init.num_entries = 0
  BY DEF aesd_circular_buffer_init
<1>3. Contents(aesd_circular_buffer_init) \in Seq(Entry)
      /\ Len(Contents(aesd_circular_buffer_init)) = 0
  BY <1>2, InitTyped, ContentsTyped
<1> QED
  BY <1>1, <1>2, <1>3, EmptySeq

(* What aesd_write hands to the ring has memory behind it.                 *)
LEMMA StagedIsStored ==
  ASSUME LockInv, NEW t \in Proc, aesd_write_commit(t)
  PROVE  /\ Staged(t, call[t].buf) \in Stored /\ Staged(t, call[t].buf) \in Entry
         /\ call[t].buf \in Seq(Byte) /\ bufferptr[t] \in Ptr
         /\ circular_buffer \in Buffer /\ module = "live"
<1>1. call[t].buf \in Seq(Byte) /\ bufferptr[t] \in Ptr
  BY ChunkIsBytes DEF aesd_write_commit, LockInv, CallState
<1> QED
  BY <1>1 DEF aesd_write_commit, Staged, Stored, Entry, LockInv, Types, CallState

LEMMA NextStored == LockInv /\ RingInv /\ StoredInv /\ [Next]_vars => StoredInv'
<1> SUFFICES ASSUME LockInv, RingInv, StoredInv, [Next]_vars PROVE StoredInv'
  OBVIOUS
<1>1. CASE aesd_init_module \/ aesd_cleanup_module
  <2>1. circular_buffer' = aesd_circular_buffer_init
    BY <1>1 DEF aesd_init_module, aesd_cleanup_module
  <2>2. << >> \in Seq(Stored)
    OBVIOUS
  <2> QED
    BY <2>1, <2>2, InitStored, Zenon DEF StoredInv
<1>2. ASSUME NEW t \in Proc, aesd_write_commit(t) PROVE StoredInv'
  <2>1. PICK e : e = Staged(t, call[t].buf)
    OBVIOUS
  <2>2. /\ e \in Stored /\ e \in Entry /\ circular_buffer \in Buffer
        /\ (Filling(circular_buffer) \/ Wrapped(circular_buffer))
        /\ circular_buffer.size = SizeOfOldest(circular_buffer, circular_buffer.num_entries)
    BY <1>2, <2>1, StagedIsStored DEF RingInv, StoredInv
  <2>3. CASE UNCHANGED circular_buffer
    BY <2>3 DEF StoredInv
  <2>4. CASE circular_buffer' = aesd_circular_buffer_add_entry(circular_buffer, e)
    <3>1. PICK s \in Seq(Stored) : s = Contents(circular_buffer)
      BY DEF StoredInv
    <3>2. Contents(circular_buffer')
            = IF Len(s) = MAX_OPS THEN Append(Tail(s), e) ELSE Append(s, e)
      BY <2>2, <2>4, <3>1, AddIsAppend
    <3>3. Len(s) = MAX_OPS => s # << >>
      BY MaxOpsAssumption
    <3>4. Contents(circular_buffer') \in Seq(Stored)
      <4>1. CASE Len(s) = MAX_OPS
        <5>1. Tail(s) \in Seq(Stored)
          BY <3>3, <4>1
        <5> QED
          BY <2>2, <3>2, <4>1, <5>1
      <4>2. CASE Len(s) # MAX_OPS
        BY <2>2, <3>2, <4>2
      <4> QED
        BY <4>1, <4>2
    <3>5. circular_buffer'.size = SizeOfOldest(circular_buffer', circular_buffer'.num_entries)
      BY <2>2, <2>4, AddSize
    <3> QED
      BY <3>4, <3>5 DEF StoredInv
  <2> QED
    BY <1>2, <2>1, <2>3, <2>4 DEF aesd_write_commit
<1>3. CASE UNCHANGED circular_buffer
  BY <1>3 DEF StoredInv
<1>5. QED
  BY <1>1, <1>2, <1>3
     DEF Next, Body, vars, device, aesd_open, aesd_release, Invoke, aesd_ioctl_rejected,
         mutex_lock, mutex_unlock, ReturnUnlocked, aesd_llseek, aesd_write_oops,
         aesd_adjust_file_offset, aesd_read, aesd_write_alloc, aesd_write_fault

(* The commands that readers see, and where each begins in their stream.   *)
LEMMA LogFacts ==
  ASSUME LockInv, HeapInv, StoredInv
  PROVE  /\ Log \in Seq(Seq(Byte)) /\ Len(Log) = circular_buffer.num_entries
         /\ \A k \in 1 .. Len(Log) : /\ Log[k] = mem[Contents(circular_buffer)[k].buffptr]
                                     /\ Len(Log[k]) = Contents(circular_buffer)[k].size
         /\ \A k \in 0 .. Len(Log) : Len(FlattenTo(Log, k)) = SizeOfOldest(circular_buffer, k)
         /\ Len(FlattenSeq(Log)) = circular_buffer.size
<1>1. PICK b, n, c : b = circular_buffer /\ n = b.num_entries /\ c = Contents(b)
  OBVIOUS
<1>2. /\ b \in Buffer /\ n \in 0 .. MAX_OPS /\ n \in Nat /\ c \in Seq(Stored) /\ Len(c) = n
      /\ \A k \in 1 .. n : /\ c[k] = b.entry[(b.out_offs + k - 1) % MAX_OPS]
                           /\ c[k].size = SizeAt(b, k)
      /\ b.size = SizeOfOldest(b, n) /\ mem \in [Ptr -> Seq(Byte)]
  <2>1. /\ b \in Buffer /\ mem \in [Ptr -> Seq(Byte)]
        /\ c \in Seq(Stored) /\ b.size = SizeOfOldest(b, n)
    BY <1>1 DEF LockInv, Types, StoredInv
  <2>2. n \in 0 .. MAX_OPS /\ n \in Nat
    BY <1>1, <2>1, MaxOpsAssumption DEF Buffer
  <2> QED
    BY <1>1, <2>1, <2>2, ContentsTyped, SizeOfContents
<1>3. ASSUME NEW k \in 1 .. n
      PROVE  /\ c[k].buffptr \in Ptr /\ mem[c[k].buffptr] \in Seq(Byte)
             /\ c[k].size = Len(mem[c[k].buffptr])
  <2>1. PICK i \in Slots : c[k] = b.entry[i]
    <3>1. b.out_offs + k - 1 \in Int
      BY <1>2, MaxOpsAssumption DEF Buffer, Slots
    <3>2. (b.out_offs + k - 1) % MAX_OPS \in Slots
      BY <3>1, MaxOpsAssumption DEF Slots
    <3> QED
      BY <1>2, <3>2
  <2>2. c[k] \in Stored
    BY <1>2
  <2>3. c[k].buffptr \in Ptr
    BY <2>2 DEF Stored
  <2> QED
    BY <1>1, <1>2, <2>1, <2>3, NullAssumption DEF HeapInv, HeapSafe, RingOwned
<1>4. PICK l : l = Log
  OBVIOUS
<1>5. l = [k \in 1 .. n |-> mem[c[k].buffptr]]
  BY <1>1, <1>4 DEF Log
<1>6. l \in Seq(Seq(Byte)) /\ Len(l) = n /\ \A k \in 1 .. n : l[k] = mem[c[k].buffptr]
  <2>1. l \in [1 .. n -> Seq(Byte)]
    BY <1>3, <1>5
  <2> QED
    BY <1>2, <1>5, <2>1, FunctionIsSeq
<1>7. \A k \in 1 .. n : Len(l[k]) = SizeAt(b, k) /\ l[k] \in Seq(Byte)
  BY <1>2, <1>3, <1>6
<1> DEFINE P == {k \in Nat : k <= n => Len(FlattenTo(l, k)) = SizeOfOldest(b, k)}
<1>8. 0 \in P
  <2>1. FlattenTo(l, 0) = << >>
    BY <1>6, FlattenToStep
  <2>2. SizeOfOldest(b, 0) = 0
    BY <1>2, SizeStep
  <2> QED
    BY <2>1, <2>2
<1>9. ASSUME NEW k \in Nat, k \in P PROVE k + 1 \in P
  <2> SUFFICES ASSUME k + 1 <= n PROVE Len(FlattenTo(l, k + 1)) = SizeOfOldest(b, k + 1)
    OBVIOUS
  <2>1. /\ k \in 0 .. Len(l) - 1 /\ k \in 0 .. Len(l) /\ k + 1 \in 1 .. n
        /\ k + 1 \in 1 .. MAX_OPS /\ (k + 1) - 1 = k
    BY <1>2, <1>6, MaxOpsAssumption
  <2>2. FlattenTo(l, k + 1) = FlattenTo(l, k) \o l[k + 1] /\ FlattenTo(l, k) \in Seq(Byte)
    BY <1>6, <2>1, FlattenToStep
  <2>3. PICK a \in Seq(Byte), d \in Seq(Byte) : a = FlattenTo(l, k) /\ d = l[k + 1]
    BY <1>7, <2>1, <2>2
  <2>4. Len(a \o d) = Len(a) + Len(d)
    OBVIOUS
  <2>5. Len(a) = SizeOfOldest(b, k) /\ Len(d) = SizeAt(b, k + 1)
    <3>1. k <= n
      BY <1>2
    <3>2. Len(FlattenTo(l, k)) = SizeOfOldest(b, k)
      BY <1>9, <3>1
    <3> QED
      BY <1>7, <2>1, <2>3, <3>2
  <2>6. SizeOfOldest(b, k + 1) = SizeOfOldest(b, k) + SizeAt(b, k + 1)
    BY <1>2, <2>1, SizeStep
  <2> QED
    BY <2>2, <2>3, <2>4, <2>5, <2>6
<1> HIDE DEF P
<1>10. \A k \in Nat : k \in P
  BY <1>8, <1>9, Induction
<1>11. \A k \in 0 .. n : Len(FlattenTo(l, k)) = SizeOfOldest(b, k)
  BY <1>2, <1>10 DEF P
<1>12. Len(FlattenSeq(l)) = b.size
  <2>1. FlattenTo(l, n) = FlattenSeq(l)
    BY <1>6, FlattenToStep
  <2>2. n \in 0 .. n
    BY <1>2
  <2> QED
    BY <1>2, <1>11, <2>1, <2>2
<1> QED
  BY <1>1, <1>2, <1>4, <1>6, <1>7, <1>11, <1>12

-----------------------------------------------------------------------------
(* The calls, their results and the file positions.                        *)

\* Where a process is tells what it has asked for and been answered.
CallerInv ==
  \A t \in Proc :
    /\ pc[t] \in {"closed", "idle", "return"} => call[t] = NoCall
    /\ pc[t] \in {"read", "write", "llseek", "ioctl"} => call[t] \in Calls /\ call[t].op = pc[t]
    /\ pc[t] \notin {"unlock", "return"} => ret[t] = NoRet
    /\ pc[t] \in {"unlock", "return"} => ret[t].done
    /\ pc[t] = "closed" => f_pos[t] = 0

PosTypes ==
  /\ f_pos \in [Proc -> Nat]
  /\ ret \in [Proc -> [code : Int, data : Seq(Byte), done : BOOLEAN]]

DeviceInv == LockInv /\ HeapInv /\ RingInv /\ StoredInv
CallsInv == PosTypes /\ CallerInv

(* The arguments of a call.                                                *)
LEMMA CallShapes ==
  ASSUME NEW c \in Calls
  PROVE  /\ c.op = "read" => c.count \in Nat
         /\ c.op = "write" => c.buf \in Seq(Byte)
         /\ c.op = "llseek" => /\ c.off \in Int
                               /\ c.whence \in {"SEEK_SET", "SEEK_CUR", "SEEK_END", "SEEK_DATA"}
         /\ c.op = "ioctl" => c.write_cmd \in Nat /\ c.write_cmd_offset \in Nat
<1>1. CASE c \in ReadCalls
  BY <1>1, ArgsAssumption DEF ReadCalls
<1>2. CASE c \in WriteCalls
  BY <1>2, ByteAssumption DEF WriteCalls
<1>3. CASE c \in SeekCalls
  BY <1>3, ArgsAssumption DEF SeekCalls
<1>4. CASE c \in IoctlCalls
  BY <1>4, ArgsAssumption DEF IoctlCalls
<1> QED
  BY <1>1, <1>2, <1>3, <1>4 DEF Calls

(* A piece of a command is a piece of the stream of bytes.                 *)
LEMMA BytePiece ==
  \A l \in Seq(Seq(Byte)) : \A k \in 0 .. Len(l) - 1 : \A a, n \in Nat :
    Fits(l, k, a, n) =>
      /\ PlaceOf(l, k, a) + n <= Len(FlattenSeq(l))
      /\ SubSeq(FlattenSeq(l), PlaceOf(l, k, a) + 1, PlaceOf(l, k, a) + n)
           = SubSeq(l[k + 1], a + 1, a + n)
<1> TAKE l \in Seq(Seq(Byte))
<1> TAKE k \in 0 .. Len(l) - 1
<1> TAKE a, n \in Nat
<1> HAVE Fits(l, k, a, n)
<1> QED
  BY FlattenPiece

\* The k-th entry after the oldest has n bytes from byte a, which is byte f of
\* the stream.
Lies(k, a, n, f) ==
  /\ a + n <= SizeAt(circular_buffer, k + 1)
  /\ f = SizeOfOldest(circular_buffer, k) + a

(* Bytes of the k-th entry after the oldest, as the stream has them.       *)
LEMMA EntryPiece ==
  DeviceInv =>
    \A k \in 0 .. circular_buffer.num_entries - 1 : \A a, n, f \in Nat :
      Lies(k, a, n, f) =>
        /\ f + n <= Len(FlattenSeq(Log))
        /\ SubSeq(mem[Contents(circular_buffer)[k + 1].buffptr], a + 1, a + n)
             = SubSeq(FlattenSeq(Log), f + 1, f + n)
        /\ SubSeq(FlattenSeq(Log), f + 1, f + n) \in Seq(Byte)
<1> HAVE DeviceInv
<1> TAKE k \in 0 .. circular_buffer.num_entries - 1
<1> TAKE a, n, f \in Nat
<1> HAVE Lies(k, a, n, f)
<1>0. a + n <= SizeAt(circular_buffer, k + 1) /\ f = SizeOfOldest(circular_buffer, k) + a
  BY DEF Lies
<1>1. PICK b, c, l : b = circular_buffer /\ c = Contents(b) /\ l = Log
  OBVIOUS
<1>2. b \in Buffer /\ b.num_entries \in 0 .. MAX_OPS
  BY <1>1 DEF DeviceInv, LockInv, Types, Buffer
<1>3. /\ l \in Seq(Seq(Byte)) /\ Len(l) = b.num_entries
      /\ \A i \in 1 .. Len(l) : l[i] = mem[c[i].buffptr] /\ Len(l[i]) = c[i].size
      /\ \A i \in 0 .. Len(l) : Len(FlattenTo(l, i)) = SizeOfOldest(b, i)
  BY <1>1, LogFacts DEF DeviceInv
<1>4. k + 1 \in 1 .. b.num_entries /\ k \in 0 .. Len(l) - 1 /\ k \in 0 .. Len(l)
  BY <1>1, <1>2, <1>3
<1>5. l[k + 1] = mem[c[k + 1].buffptr] /\ Len(l[k + 1]) = SizeAt(b, k + 1)
  BY <1>1, <1>2, <1>3, <1>4, SizeOfContents
<1>6. Fits(l, k, a, n)
  BY <1>0, <1>1, <1>5 DEF Fits
<1>7. f = PlaceOf(l, k, a)
  BY <1>0, <1>1, <1>3, <1>4 DEF PlaceOf
<1>8. /\ PlaceOf(l, k, a) + n <= Len(FlattenSeq(l))
      /\ SubSeq(FlattenSeq(l), PlaceOf(l, k, a) + 1, PlaceOf(l, k, a) + n)
           = SubSeq(l[k + 1], a + 1, a + n)
  BY <1>3, <1>4, <1>6, BytePiece, Zenon
<1>9. /\ f + n <= Len(FlattenSeq(l))
      /\ SubSeq(FlattenSeq(l), f + 1, f + n) = SubSeq(l[k + 1], a + 1, a + n)
  BY <1>7, <1>8, Zenon
<1>10. SubSeq(FlattenSeq(l), f + 1, f + n) \in Seq(Byte)
  <2>1. PICK s \in Seq(Byte) : s = FlattenSeq(l)
    BY <1>3, FlattenTyped
  <2>2. f + n <= Len(s)
    BY <1>9, <2>1
  <2>3. SubSeq(s, f + 1, f + n) \in Seq(Byte)
    BY <2>2, PieceOf
  <2> QED
    BY <2>1, <2>3
<1> QED
  BY <1>1, <1>5, <1>9, <1>10, Zenon

(* What a read takes from the entry that holds its position.               *)
LEMMA ReadFound ==
  DeviceInv =>
    \A k \in 0 .. circular_buffer.num_entries - 1 : \A f, count \in Nat :
      (SizeOfOldest(circular_buffer, k) <= f /\ f < SizeOfOldest(circular_buffer, k + 1)) =>
        \E a, n \in Nat :
           /\ a = f - SizeOfOldest(circular_buffer, k)
           /\ n = ReadLength(count, SizeAt(circular_buffer, k + 1) - a)
           /\ n \in 0 .. count /\ (n = 0 => count = 0)
           /\ f + n <= Len(FlattenSeq(Log))
           /\ SubSeq(mem[Contents(circular_buffer)[k + 1].buffptr], a + 1, a + n)
                = SubSeq(FlattenSeq(Log), f + 1, f + n)
           /\ SubSeq(FlattenSeq(Log), f + 1, f + n) \in Seq(Byte)
<1> HAVE DeviceInv
<1> TAKE k \in 0 .. circular_buffer.num_entries - 1
<1> TAKE f, count \in Nat
<1> HAVE SizeOfOldest(circular_buffer, k) <= f /\ f < SizeOfOldest(circular_buffer, k + 1)
<1>1. PICK b : b = circular_buffer
  OBVIOUS
<1>2. b \in Buffer /\ b.num_entries \in 0 .. MAX_OPS
  BY <1>1 DEF DeviceInv, LockInv, Types, Buffer
<1>3. k + 1 \in 1 .. MAX_OPS /\ (k + 1) - 1 = k /\ k \in 0 .. MAX_OPS
  BY <1>1, <1>2, MaxOpsAssumption
<1>4. PICK u \in Nat, v \in Nat : /\ u = SizeOfOldest(b, k) /\ v = SizeAt(b, k + 1)
                                  /\ SizeOfOldest(b, k + 1) = u + v
  BY <1>2, <1>3, SizeIsNat, SizeAtIsNat, SizeStep
<1>5. PICK a \in Nat : f = u + a /\ a < v
  <2>1. f - u \in Nat /\ f = u + (f - u) /\ f - u < v
    BY <1>1, <1>4
  <2> QED
    BY <2>1
<1>6. PICK n \in Nat : n = IF count < v - a THEN count ELSE v - a
  BY <1>5
<1>7. n \in 0 .. count /\ (n = 0 => count = 0) /\ a + n <= v /\ a = f - u
      /\ n = ReadLength(count, v - a)
  BY <1>5, <1>6 DEF ReadLength
<1>8. Lies(k, a, n, f)
  BY <1>1, <1>4, <1>5, <1>7 DEF Lies
<1>9. /\ f + n <= Len(FlattenSeq(Log))
      /\ SubSeq(mem[Contents(circular_buffer)[k + 1].buffptr], a + 1, a + n)
           = SubSeq(FlattenSeq(Log), f + 1, f + n)
      /\ SubSeq(FlattenSeq(Log), f + 1, f + n) \in Seq(Byte)
  BY <1>8, EntryPiece, Zenon
<1> QED
  BY <1>1, <1>4, <1>7, <1>9, Zenon

\* What aesd_read finds for a position and a count.
ReadLocals(f, count, hit, entry, n) ==
  /\ hit = aesd_circular_buffer_find_entry_offset_for_fpos(circular_buffer, f)
  /\ entry = circular_buffer.entry[hit.slot]
  /\ n = ReadLength(count, entry.size - hit.offset)

(* What a read delivers: bytes of one entry, which are the bytes that      *)
(* follow the position in the stream of all commands, and none only at the *)
(* end of that stream or if none are wanted.                               *)
LEMMA ReadFacts ==
  DeviceInv =>
    \A f, count \in Nat : \A hit, entry, n :
      ReadLocals(f, count, hit, entry, n) =>
        \/ hit = NotFound /\ Len(FlattenSeq(Log)) <= f
        \/ /\ hit # NotFound
           /\ n \in 0 .. count /\ (n = 0 => count = 0)
           /\ f + n <= Len(FlattenSeq(Log))
           /\ SubSeq(mem[entry.buffptr], hit.offset + 1, hit.offset + n)
                = SubSeq(FlattenSeq(Log), f + 1, f + n)
           /\ SubSeq(FlattenSeq(Log), f + 1, f + n) \in Seq(Byte)
<1> HAVE DeviceInv
<1> TAKE f, count \in Nat
<1> TAKE hit, entry, n
<1> HAVE ReadLocals(f, count, hit, entry, n)
<1>0. /\ hit = aesd_circular_buffer_find_entry_offset_for_fpos(circular_buffer, f)
      /\ entry = circular_buffer.entry[hit.slot]
      /\ n = ReadLength(count, entry.size - hit.offset)
  BY DEF ReadLocals
<1>1. PICK b : b = circular_buffer
  OBVIOUS
<1>2. /\ b \in Buffer /\ (Filling(b) \/ Wrapped(b))
      /\ b.num_entries \in 0 .. MAX_OPS /\ b.out_offs \in Slots
      /\ b.size = SizeOfOldest(b, b.num_entries)
  BY <1>1 DEF DeviceInv, LockInv, Types, RingInv, StoredInv, Buffer
<1>3. Len(FlattenSeq(Log)) = b.size
  BY <1>1, LogFacts DEF DeviceInv
<1>4. CASE hit = NotFound /\ SizeOfOldest(b, b.num_entries) <= f
  BY <1>1, <1>2, <1>3, <1>4
<1>5. ASSUME NEW k \in 0 .. b.num_entries - 1,
             SizeOfOldest(b, k) <= f, f < SizeOfOldest(b, k + 1),
             hit.slot = (b.out_offs + k) % MAX_OPS,
             hit.offset = f - SizeOfOldest(b, k)
      PROVE  /\ n \in 0 .. count /\ (n = 0 => count = 0)
             /\ f + n <= Len(FlattenSeq(Log))
             /\ SubSeq(mem[entry.buffptr], hit.offset + 1, hit.offset + n)
                  = SubSeq(FlattenSeq(Log), f + 1, f + n)
             /\ SubSeq(FlattenSeq(Log), f + 1, f + n) \in Seq(Byte)
  <2>1. /\ k + 1 \in 1 .. b.num_entries /\ b.out_offs + (k + 1) - 1 = b.out_offs + k
    BY <1>2, MaxOpsAssumption DEF Slots
  <2>2. entry = Contents(b)[k + 1] /\ entry.size = SizeAt(b, k + 1)
    BY <1>0, <1>1, <1>2, <1>5, <2>1, ContentsTyped DEF SizeAt
  <2>3. PICK a \in Nat, m \in Nat :
          /\ a = f - SizeOfOldest(b, k)
          /\ m = ReadLength(count, SizeAt(b, k + 1) - a)
          /\ m \in 0 .. count /\ (m = 0 => count = 0)
          /\ f + m <= Len(FlattenSeq(Log))
          /\ SubSeq(mem[Contents(b)[k + 1].buffptr], a + 1, a + m)
               = SubSeq(FlattenSeq(Log), f + 1, f + m)
          /\ SubSeq(FlattenSeq(Log), f + 1, f + m) \in Seq(Byte)
    BY <1>1, <1>5, ReadFound, Zenon
  <2>4. hit.offset = a /\ n = m
    BY <1>0, <1>5, <2>2, <2>3, Zenon
  <2> QED
    BY <2>2, <2>3, <2>4, Zenon
<1>6. \/ hit = NotFound /\ SizeOfOldest(b, b.num_entries) <= f
      \/ \E k \in 0 .. b.num_entries - 1 :
           /\ SizeOfOldest(b, k) <= f /\ f < SizeOfOldest(b, k + 1)
           /\ hit.slot = (b.out_offs + k) % MAX_OPS
           /\ hit.offset = f - SizeOfOldest(b, k)
           /\ hit # NotFound
  BY <1>0, <1>1, <1>2, FindCases
<1> QED
  BY <1>4, <1>5, <1>6, Zenon

\* x is where an lseek of this kind asks to go.
SeekTarget(x, pos, off, whence, size) ==
  \/ whence = "SEEK_SET" /\ x = off
  \/ whence = "SEEK_END" /\ x = size + off
  \/ whence = "SEEK_CUR" /\ x = pos + off

\* A position up to the size, the current one, or an error if there is neither.
SeekOutcome(new, pos, off, whence, size) ==
  \/ new \in 0 .. size /\ SeekTarget(new, pos, off, whence, size)
  \/ new = pos /\ whence = "SEEK_CUR" /\ off = 0
  \/ /\ new = EINVAL /\ ~(whence = "SEEK_CUR" /\ off = 0)
     /\ \A x \in 0 .. size : ~SeekTarget(x, pos, off, whence, size)

(* What fixed_size_llseek returns.                                         *)
LEMMA SeekValue ==
  ASSUME NEW pos \in Nat, NEW off \in Int, NEW size \in Nat,
         NEW whence \in {"SEEK_SET", "SEEK_CUR", "SEEK_END", "SEEK_DATA"}
  PROVE  SeekOutcome(fixed_size_llseek(pos, off, whence, size), pos, off, whence, size)
<1> USE DEF fixed_size_llseek, vfs_setpos, SeekOutcome, SeekTarget
<1>1. CASE whence = "SEEK_SET"
  BY <1>1 
<1>2. CASE whence = "SEEK_END"
  BY <1>2 
<1>3. CASE whence = "SEEK_CUR"
  BY <1>3 
<1>4. CASE whence = "SEEK_DATA"
  BY <1>4
<1> QED
  BY <1>1, <1>2, <1>3, <1>4

LEMMA EINVALIsNoPosition == EINVAL \in Int /\ EINVAL \notin Nat
BY DEF EINVAL

(* Before the module is loaded no process has called or has been answered. *)
LEMMA InitCalls == Init => CallsInv
BY DEF Init, CallsInv, PosTypes, CallerInv, NoRet

(* A call that has been answered, wherever that leaves the position.       *)
LEMMA AnswerCalls ==
  ASSUME LockInv, CallsInv, NEW t \in Proc, NEW x \in Nat, NEW code \in Int,
         NEW data \in Seq(Byte), pc[t] # "closed", Finish(t, code, data),
         f_pos' = [f_pos EXCEPT ![t] = x], call' = call
  PROVE  CallsInv'
<1>1. /\ pc \in [Proc -> {"closed", "idle", "lock", "return"} \cup Critical]
      /\ f_pos \in [Proc -> Nat]
      /\ ret \in [Proc -> [code : Int, data : Seq(Byte), done : BOOLEAN]]
  BY DEF LockInv, Types, CallsInv, PosTypes
<1>2. pc' = [pc EXCEPT ![t] = "unlock"] /\ ret' = [ret EXCEPT ![t] = Result(code, data)]
  BY DEF Finish, Goto
<1>3. /\ Result(code, data) \in [code : Int, data : Seq(Byte), done : BOOLEAN]
      /\ Result(code, data).done
  BY DEF Result
<1>4. PosTypes'
  BY <1>1, <1>2, <1>3 DEF PosTypes
<1>5. ASSUME NEW u \in Proc, u # t
      PROVE  pc'[u] = pc[u] /\ ret'[u] = ret[u] /\ f_pos'[u] = f_pos[u] /\ call'[u] = call[u]
  BY <1>1, <1>2, <1>5
<1>6. pc'[t] = "unlock" /\ ret'[t].done
  BY <1>1, <1>2, <1>3
<1>7. CallerInv'
  BY <1>5, <1>6 DEF CallsInv, CallerInv
<1> QED
  BY <1>4, <1>7 DEF CallsInv

(* lseek moves the position to a position or not at all.                   *)
LEMMA SeekResult ==
  ASSUME DeviceInv, CallsInv, NEW t \in Proc, pc[t] = "llseek"
  PROVE  LET new == fixed_size_llseek(f_pos[t], call[t].off, call[t].whence,
                                      aesd_circular_buffer_size(circular_buffer))
         IN  new \in Int /\ (IF new = EINVAL THEN f_pos[t] ELSE new) \in Nat
<1>1. PICK pos, off, whence, size :
        /\ pos = f_pos[t] /\ off = call[t].off /\ whence = call[t].whence
        /\ size = aesd_circular_buffer_size(circular_buffer)
  OBVIOUS
<1>2. call[t] \in Calls /\ call[t].op = "llseek" /\ f_pos[t] \in Nat
  BY DEF CallsInv, CallerInv, PosTypes
<1>3. pos \in Nat /\ off \in Int /\ whence \in {"SEEK_SET", "SEEK_CUR", "SEEK_END", "SEEK_DATA"}
  BY <1>1, <1>2, CallShapes
<1>4. size \in Nat
  <2>1. /\ circular_buffer \in Buffer /\ circular_buffer.num_entries \in 0 .. MAX_OPS
        /\ circular_buffer.size = SizeOfOldest(circular_buffer, circular_buffer.num_entries)
    BY DEF DeviceInv, LockInv, Types, Buffer, StoredInv
  <2> QED
    BY <1>1, <2>1, SizeIsNat DEF aesd_circular_buffer_size
<1>5. PICK new : new = fixed_size_llseek(pos, off, whence, size)
  OBVIOUS
<1>6. new \in 0 .. size \/ new = pos \/ new = EINVAL
  <2>1. SeekOutcome(new, pos, off, whence, size)
    BY <1>3, <1>4, <1>5, SeekValue
  <2> QED
    BY <2>1 DEF SeekOutcome
<1>7. new \in Int /\ (IF new = EINVAL THEN pos ELSE new) \in Nat
  BY <1>3, <1>4, <1>6, EINVALIsNoPosition
<1> QED
  BY <1>1, <1>5, <1>7, Zenon

(* The ioctl computes a position or -1.                                    *)
LEMMA IoctlResult ==
  ASSUME DeviceInv, CallsInv, NEW t \in Proc, pc[t] = "ioctl"
  PROVE  LET new == aesd_circular_buffer_get_entry_fpos(circular_buffer,
                      call[t].write_cmd, call[t].write_cmd_offset)
         IN  new = -1 \/ new \in Nat
<1>1. PICK b, i, o : b = circular_buffer /\ i = call[t].write_cmd /\ o = call[t].write_cmd_offset
  OBVIOUS
<1>2. call[t] \in Calls /\ call[t].op = "ioctl"
  BY DEF CallsInv, CallerInv
<1>3. i \in Nat /\ o \in Nat
  BY <1>1, <1>2, CallShapes
<1>4. b \in Buffer /\ b.num_entries \in 0 .. MAX_OPS
  BY <1>1 DEF DeviceInv, LockInv, Types, Buffer
<1>5. PICK new : new = aesd_circular_buffer_get_entry_fpos(b, i, o)
  OBVIOUS
<1>6. new = -1 \/ (i < b.num_entries /\ new = SizeOfOldest(b, i) + o)
  <2>1. aesd_circular_buffer_get_entry_fpos(b, i, o)
          = IF i < b.num_entries /\ o < Contents(b)[i + 1].size
            THEN SizeOfOldest(b, i) + o ELSE -1
    BY <1>3, <1>4, FposValue
  <2> QED
    BY <1>5, <2>1, Zenon
<1>7. CASE i < b.num_entries /\ new = SizeOfOldest(b, i) + o
  <2>1. i \in 0 .. MAX_OPS
    BY <1>3, <1>4, <1>7, MaxOpsAssumption
  <2>2. SizeOfOldest(b, i) \in Nat
    BY <1>4, <2>1, SizeIsNat
  <2> QED
    BY <1>1, <1>3, <1>5, <1>7, <2>2
<1> QED
  BY <1>1, <1>5, <1>6, <1>7

(* What a pending read delivers.                                           *)
LEMMA ReadResult ==
  ASSUME DeviceInv, CallsInv, NEW t \in Proc, pc[t] = "read"
  PROVE  /\ call[t] \in Calls /\ call[t].op = "read"
         /\ f_pos[t] \in Nat /\ call[t].count \in Nat
         /\ \A hit, entry, n : ReadLocals(f_pos[t], call[t].count, hit, entry, n) =>
              \/ hit = NotFound /\ Len(FlattenSeq(Log)) <= f_pos[t]
              \/ /\ hit # NotFound
                 /\ n \in 0 .. call[t].count /\ (n = 0 => call[t].count = 0)
                 /\ f_pos[t] + n <= Len(FlattenSeq(Log))
                 /\ SubSeq(mem[entry.buffptr], hit.offset + 1, hit.offset + n)
                      = SubSeq(FlattenSeq(Log), f_pos[t] + 1, f_pos[t] + n)
                 /\ SubSeq(FlattenSeq(Log), f_pos[t] + 1, f_pos[t] + n) \in Seq(Byte)
<1>1. call[t] \in Calls /\ call[t].op = "read" /\ f_pos[t] \in Nat
  BY DEF CallsInv, CallerInv, PosTypes
<1>2. call[t].count \in Nat
  BY <1>1, CallShapes
<1> QED
  BY <1>1, <1>2, ReadFacts, Zenon

(* Every step keeps what is known of the calls.                            *)
LEMMA NextCalls == DeviceInv /\ CallsInv /\ [Next]_vars => CallsInv'
<1> SUFFICES ASSUME DeviceInv, CallsInv, [Next]_vars PROVE CallsInv'
  OBVIOUS
<1>0. /\ LockInv
      /\ pc \in [Proc -> {"closed", "idle", "lock", "return"} \cup Critical]
      /\ call \in [Proc -> Calls \cup {NoCall}]
      /\ f_pos \in [Proc -> Nat]
      /\ ret \in [Proc -> [code : Int, data : Seq(Byte), done : BOOLEAN]]
      /\ NoRet \in [code : Int, data : Seq(Byte), done : BOOLEAN]
      /\ << >> \in Seq(Byte)
  BY DEF DeviceInv, LockInv, Types, CallsInv, PosTypes, NoRet
<1>e. EINVAL \in Int /\ ENOMEM \in Int /\ EFAULT \in Int /\ ENOTTY \in Int
  BY DEF EINVAL, ENOMEM, EFAULT, ENOTTY
<1>f. \A t \in Proc : f_pos = [f_pos EXCEPT ![t] = f_pos[t]]
  BY <1>0
<1>1. CASE UNCHANGED <<pc, call, f_pos, ret>>
  BY <1>1 DEF CallsInv, PosTypes, CallerInv
<1>2. ASSUME NEW t \in Proc, aesd_open(t) \/ aesd_release(t) PROVE CallsInv'
  <2>1. /\ pc[t] \in {"closed", "idle"} /\ f_pos' = [f_pos EXCEPT ![t] = 0]
        /\ \E l \in {"closed", "idle"} : pc' = [pc EXCEPT ![t] = l]
        /\ UNCHANGED <<call, ret>>
    BY <1>2 DEF aesd_open, aesd_release, Goto
  <2> QED
    BY <1>0, <2>1 DEF CallsInv, PosTypes, CallerInv
<1>3. ASSUME NEW t \in Proc, NEW c \in Calls, Invoke(t, c) PROVE CallsInv'
  BY <1>0, <1>3 DEF Invoke, Goto, CallsInv, PosTypes, CallerInv
<1>4. ASSUME NEW t \in Proc, NEW code \in {ENOTTY, EFAULT}, aesd_ioctl_rejected(t, code)
      PROVE  CallsInv'
  <2>1. /\ Result(code, << >>) \in [code : Int, data : Seq(Byte), done : BOOLEAN]
        /\ Result(code, << >>).done
    BY <1>0, <1>e, <1>4 DEF Result
  <2> QED
    BY <1>0, <1>4, <2>1 DEF aesd_ioctl_rejected, Goto, CallsInv, PosTypes, CallerInv
<1>5. ASSUME NEW t \in Proc, mutex_lock(t) PROVE CallsInv'
  <2>1. call[t] \in Calls /\ call[t].op \in {"read", "write", "llseek", "ioctl"}
    BY <1>0, <1>5, CallOps DEF mutex_lock, LockInv, CallState
  <2> QED
    BY <1>0, <1>5, <2>1 DEF mutex_lock, Goto, CallsInv, PosTypes, CallerInv
<1>6. ASSUME NEW t \in Proc, mutex_unlock(t) \/ ReturnUnlocked(t) PROVE CallsInv'
  <2>1. /\ pc[t] \in {"unlock", "return"} /\ pc' = [pc EXCEPT ![t] = "idle"]
        /\ ret' = [ret EXCEPT ![t] = NoRet] /\ f_pos' = f_pos
    BY <1>6 DEF mutex_unlock, ReturnUnlocked, Goto
  <2>2. call'[t] = NoCall /\ \A u \in Proc \ {t} : call'[u] = call[u]
    BY <1>0, <1>6 DEF mutex_unlock, ReturnUnlocked, CallsInv, CallerInv
  <2> QED
    BY <1>0, <2>1, <2>2 DEF CallsInv, PosTypes, CallerInv
<1>7. ASSUME NEW t \in Proc, aesd_llseek(t) PROVE CallsInv'
  <2>1. PICK new : new = fixed_size_llseek(f_pos[t], call[t].off, call[t].whence,
                                      aesd_circular_buffer_size(circular_buffer))
    OBVIOUS
  <2>2. /\ pc[t] = "llseek" /\ Finish(t, new, << >>) /\ call' = call
        /\ f_pos' = [f_pos EXCEPT ![t] = IF new = EINVAL THEN f_pos[t] ELSE new]
    BY <1>7, <2>1 DEF aesd_llseek
  <2>3. new \in Int /\ (IF new = EINVAL THEN f_pos[t] ELSE new) \in Nat
    BY <2>1, <2>2, SeekResult
  <2>4. PICK x \in Nat : x = IF new = EINVAL THEN f_pos[t] ELSE new
    BY <2>3
  <2>5. f_pos' = [f_pos EXCEPT ![t] = x] /\ pc[t] # "closed"
    BY <2>2, <2>4
  <2> QED
    BY <1>0, <2>2, <2>3, <2>5, AnswerCalls
<1>8. ASSUME NEW t \in Proc, aesd_adjust_file_offset(t) PROVE CallsInv'
  <2>1. PICK new : new = aesd_circular_buffer_get_entry_fpos(circular_buffer,
                      call[t].write_cmd, call[t].write_cmd_offset)
    OBVIOUS
  <2>2. /\ pc[t] = "ioctl" /\ Finish(t, IF new >= 0 THEN 0 ELSE EINVAL, << >>) /\ call' = call
        /\ f_pos' = [f_pos EXCEPT ![t] = IF new >= 0 THEN new ELSE f_pos[t]]
    BY <1>8, <2>1 DEF aesd_adjust_file_offset
  <2>3. new = -1 \/ new \in Nat
    BY <2>1, <2>2, IoctlResult
  <2>4. PICK x \in Nat : x = IF new >= 0 THEN new ELSE f_pos[t]
    BY <1>0, <2>3
  <2>5. PICK code \in Int : code = IF new >= 0 THEN 0 ELSE EINVAL
    BY <1>e
  <2>6. f_pos' = [f_pos EXCEPT ![t] = x] /\ pc[t] # "closed" /\ Finish(t, code, << >>)
    BY <2>2, <2>4, <2>5
  <2> QED
    BY <1>0, <2>2, <2>6, AnswerCalls
<1>9. ASSUME NEW t \in Proc, aesd_read(t) PROVE CallsInv'
  <2>1. PICK hit, entry, n :
          /\ hit = aesd_circular_buffer_find_entry_offset_for_fpos(circular_buffer, f_pos[t])
          /\ entry = circular_buffer.entry[hit.slot]
          /\ n = ReadLength(call[t].count, entry.size - hit.offset)
    OBVIOUS
  <2>2. /\ pc[t] = "read" /\ call' = call
        /\ \/ hit = NotFound /\ Finish(t, 0, << >>) /\ UNCHANGED f_pos
           \/ /\ hit # NotFound
              /\ Finish(t, n, SubSeq(mem[entry.buffptr], hit.offset + 1, hit.offset + n))
              /\ f_pos' = [f_pos EXCEPT ![t] = f_pos[t] + n]
           \/ Finish(t, EFAULT, << >>) /\ UNCHANGED f_pos
    BY <1>9, <2>1 DEF aesd_read
  <2>3. CASE Finish(t, 0, << >>) /\ UNCHANGED f_pos
    <3>1. 0 \in Int /\ << >> \in Seq(Byte) /\ f_pos[t] \in Nat /\ pc[t] # "closed"
          /\ f_pos' = [f_pos EXCEPT ![t] = f_pos[t]]
      BY <1>0, <1>f, <2>2, <2>3
    <3>2. PICK z \in Int, x \in Nat : z = 0 /\ x = f_pos[t]
      BY <3>1
    <3>3. Finish(t, z, << >>) /\ f_pos' = [f_pos EXCEPT ![t] = x]
      BY <2>3, <3>1, <3>2
    <3> QED
      BY <1>0, <2>2, <3>1, <3>3, AnswerCalls
  <2>4. CASE Finish(t, EFAULT, << >>) /\ UNCHANGED f_pos
    BY <1>0, <1>e, <1>f, <2>2, <2>4, AnswerCalls
  <2>5. CASE /\ hit # NotFound
             /\ Finish(t, n, SubSeq(mem[entry.buffptr], hit.offset + 1, hit.offset + n))
             /\ f_pos' = [f_pos EXCEPT ![t] = f_pos[t] + n]
    <3>1. call[t].count \in Nat /\ f_pos[t] \in Nat
      BY <2>2, ReadResult
    <3>2. n \in 0 .. call[t].count
          /\ SubSeq(mem[entry.buffptr], hit.offset + 1, hit.offset + n) \in Seq(Byte)
      <4>1. ReadLocals(f_pos[t], call[t].count, hit, entry, n)
        BY <2>1 DEF ReadLocals
      <4>2. pc[t] = "read" /\ hit # NotFound
        BY <2>2, <2>5
      <4>3. \/ hit = NotFound /\ Len(FlattenSeq(Log)) <= f_pos[t]
            \/ /\ hit # NotFound
               /\ n \in 0 .. call[t].count /\ (n = 0 => call[t].count = 0)
               /\ f_pos[t] + n <= Len(FlattenSeq(Log))
               /\ SubSeq(mem[entry.buffptr], hit.offset + 1, hit.offset + n)
                    = SubSeq(FlattenSeq(Log), f_pos[t] + 1, f_pos[t] + n)
               /\ SubSeq(FlattenSeq(Log), f_pos[t] + 1, f_pos[t] + n) \in Seq(Byte)
        BY <4>1, <4>2, ReadResult, Zenon
      <4> QED
        BY <4>2, <4>3, Zenon
    <3>3. PICK d \in Seq(Byte), x \in Nat :
            /\ d = SubSeq(mem[entry.buffptr], hit.offset + 1, hit.offset + n)
            /\ x = f_pos[t] + n
      <4>1. f_pos[t] + n \in Nat
        BY <3>1, <3>2
      <4> QED
        BY <3>2, <4>1, Zenon
    <3>4. n \in Int /\ Finish(t, n, d) /\ f_pos' = [f_pos EXCEPT ![t] = x] /\ pc[t] # "closed"
      BY <2>2, <2>5, <3>1, <3>2, <3>3
    <3> QED
      BY <1>0, <2>2, <3>4, AnswerCalls
  <2> QED
    BY <2>2, <2>3, <2>4, <2>5
<1>10. ASSUME NEW t \in Proc, aesd_write_alloc(t) PROVE CallsInv'
  <2>1. CASE Finish(t, ENOMEM, << >>)
    BY <1>0, <1>e, <1>f, <1>10, <2>1, AnswerCalls DEF aesd_write_alloc
  <2>2. CASE Goto(t, "copy") /\ UNCHANGED ret
    BY <1>0, <1>10, <2>2 DEF aesd_write_alloc, Goto, CallsInv, PosTypes, CallerInv
  <2> QED
    BY <1>10, <2>1, <2>2 DEF aesd_write_alloc
<1>11. ASSUME NEW t \in Proc, aesd_write_fault(t) PROVE CallsInv'
  BY <1>0, <1>e, <1>f, <1>11, AnswerCalls DEF aesd_write_fault
<1>12. ASSUME NEW t \in Proc, aesd_write_commit(t) PROVE CallsInv'
  <2>1. PICK n \in Int : n = Len(call[t].buf)
    <3>1. call[t].buf \in Seq(Byte)
      BY <1>0, <1>12, StagedIsStored
    <3> QED
      BY <3>1
  <2>2. Finish(t, n, << >>) /\ pc[t] = "copy" /\ call' = call /\ f_pos' = f_pos
    BY <1>12, <2>1 DEF aesd_write_commit
  <2> QED
    BY <1>0, <1>f, <2>2, AnswerCalls
<1>13. ASSUME NEW t \in Proc, aesd_write_oops(t) PROVE CallsInv'
  BY <1>0, <1>13 DEF aesd_write_oops, Goto, CallsInv, PosTypes, CallerInv
<1> QED
  BY <1>1, <1>2, <1>3, <1>4, <1>5, <1>6, <1>7, <1>8, <1>9, <1>10, <1>11, <1>12, <1>13
     DEF Next, Body, vars, aesd_init_module, aesd_cleanup_module

(* The invariant of the device and of its callers.                         *)
LEMMA FullInvariance == Spec => [](DeviceInv /\ CallsInv)
<1>1. Init => DeviceInv /\ CallsInv
  <2> SUFFICES ASSUME Init PROVE DeviceInv /\ CallsInv
    OBVIOUS
  <2>1. circular_buffer = aesd_circular_buffer_init
    BY DEF Init
  <2>2. StoredInv
    BY <2>1, InitStored DEF StoredInv
  <2>3. LockInv /\ HeapInv /\ RingInv
    BY InitLock, InitHeap, InitFilling DEF RingInv, Init
  <2> QED
    BY <2>2, <2>3, InitCalls DEF DeviceInv
<1>2. DeviceInv /\ CallsInv /\ [Next]_vars => (DeviceInv /\ CallsInv)'
  <2>1. DeviceInv /\ [Next]_vars => DeviceInv'
    BY NextLock, NextHeap, NextRing, NextStored DEF DeviceInv, IndInv
  <2> QED
    BY <2>1, NextCalls
<1> QED
  BY <1>1, <1>2, PTL DEF Spec

(* Type correctness of the driver: file positions stay natural numbers     *)
(* whatever is seeked, read or dropped, and what read returns are bytes.   *)
THEOREM DriverTypes == Spec => []TypeOK
<1>1. DeviceInv /\ CallsInv => TypeOK
  BY DEF DeviceInv, LockInv, Types, CallsInv, PosTypes, TypeOK
<1> QED
  BY <1>1, FullInvariance, PTL

(* A fault is contained: while a process is dead in aesd_write, which      *)
(* keeps the mutex, no step changes the device or its memory.              *)
THEOREM FaultContained == Spec => FaultIsContained
<1> DEFINE Contained == (\E t \in Proc : pc[t] = "oops") =>
                           UNCHANGED <<module, device, lock, heap>>
<1>1. DeviceInv /\ [Next]_vars => [Contained]_vars
  <2> SUFFICES ASSUME LockInv, [Next]_vars, NEW t \in Proc, pc[t] = "oops"
               PROVE  UNCHANGED <<module, device, lock, heap>> \/ UNCHANGED vars
    BY DEF DeviceInv
  <2>1. lock = t /\ module = "live"
    BY DEF LockInv, LockDiscipline, Critical, CallState, Types
  <2>2. ASSUME NEW u \in Proc, pc[u] \in Critical PROVE pc[u] = "oops"
    BY <2>1, <2>2 DEF LockInv, LockDiscipline
  <2>3. lock # NULL
    BY <2>1, PtrAssumption
  <2>4. ~aesd_init_module /\ ~aesd_cleanup_module
    BY <2>1 DEF aesd_init_module, aesd_cleanup_module
  <2>5. ASSUME NEW u \in Proc PROVE ~mutex_lock(u) /\ ~mutex_unlock(u) /\ ~Body(u)
    BY <2>2, <2>3, <2>5
       DEF Critical, mutex_lock, LockFree, mutex_unlock, Body, aesd_llseek, aesd_adjust_file_offset,
           aesd_read, aesd_write_alloc, aesd_write_fault, aesd_write_commit, aesd_write_oops
  <2> QED
    BY <2>4, <2>5 DEF Next, aesd_open, aesd_release, Invoke, aesd_ioctl_rejected, ReturnUnlocked
<1>2. FaultIsContained <=> [][Contained]_vars
  BY DEF FaultIsContained
<1> HIDE DEF Contained
<1> QED
  BY <1>1, <1>2, FullInvariance, PTL DEF Spec

-----------------------------------------------------------------------------
(* The refinement of CharDevice.                                           *)

(* The operators on sequences that CharDevice brings with it are the same. *)
LEMMA AbstractSeqs ==
  /\ \A s : Abstract!Stream(s) = FlattenSeq(s)
  /\ \A s, i : Abstract!CommandStart(s, i) = Len(FlattenTo(s, i))
  /\ \A s : Abstract!Last(s) = s[Len(s)]
<1>1. \A s : Abstract!FlattenSeq(s) = FlattenSeq(s)
  BY Zenon DEF Abstract!FlattenSeq, FlattenSeq
<1>2. \A s : Abstract!Stream(s) = FlattenSeq(s)
  BY <1>1, Zenon DEF Abstract!Stream
<1>3. \A s, i : Abstract!CommandStart(s, i) = Len(FlattenTo(s, i))
  BY <1>1, Zenon DEF Abstract!CommandStart, FlattenTo
<1>4. \A s : Abstract!Last(s) = s[Len(s)]
  BY Zenon DEF Abstract!Last
<1> QED
  BY <1>2, <1>3, <1>4

(* A call answered by the driver is answered by the abstract device.       *)
LEMMA AnswerMaps ==
  ASSUME LockInv, CallsInv, NEW t \in Proc, NEW code, NEW data,
         pc[t] \notin {"closed", "unlock", "return"}, Finish(t, code, data),
         module' = module, call' = call
  PROVE  Abstract!Answer(t, code, data)
<1>1. /\ pc \in [Proc -> {"closed", "idle", "lock", "return"} \cup Critical]
      /\ pc' = [pc EXCEPT ![t] = "unlock"] /\ ret' = [ret EXCEPT ![t] = Result(code, data)]
      /\ ret[t] = NoRet
  BY DEF LockInv, Types, Finish, Goto, CallsInv, CallerInv
<1>2. Result(code, data) = Abstract!Result(code, data)
  BY DEF Result, Abstract!Result
<1>3. {u \in Proc : pc[u] # "closed"}' = {u \in Proc : pc[u] # "closed"}
  BY <1>1
<1>4. t \in {u \in Proc : pc[u] # "closed"}
  OBVIOUS
<1> QED
  BY <1>1, <1>2, <1>3, <1>4 DEF Abstract!Answer

(* No command is held by an empty ring.                                    *)
LEMMA NoCommands ==
  ASSUME NEW m
  PROVE  [i \in 1 .. aesd_circular_buffer_init.num_entries |->
            m[Contents(aesd_circular_buffer_init)[i].buffptr]] = << >>
<1>1. PICK l : l = [i \in 1 .. 0 |-> m[Contents(aesd_circular_buffer_init)[i].buffptr]]
  OBVIOUS
<1>2. l \in Seq({}) /\ Len(l) = 0
  BY <1>1, FunctionIsSeq
<1>3. l = << >>
  BY <1>2, EmptySeq
<1>4. aesd_circular_buffer_init.num_entries = 0
  BY DEF aesd_circular_buffer_init
<1> QED
  BY <1>1, <1>3, <1>4, Zenon

(* While the device and its memory stay as they are, so does what it holds. *)
LEMMA SameLog ==
  ASSUME UNCHANGED <<device, mem>>
  PROVE  Log' = Log /\ Partial' = Partial
BY DEF device, Log, Partial

(* The device starts empty.                                                *)
LEMMA InitMaps == Init => Abstract!Init
<1> SUFFICES ASSUME Init PROVE Abstract!Init
  OBVIOUS
<1>0. circular_buffer = aesd_circular_buffer_init
  BY DEF Init
<1>1. Log = << >>
  BY <1>0, NoCommands, Zenon DEF Log
<1>2. Partial = << >>
  BY NullAssumption DEF Init, Partial, ZeroEntry
<1>3. {t \in Proc : pc[t] # "closed"} = {}
  BY DEF Init
<1>4. (module = "live") = FALSE
  BY DEF Init
<1> QED
  BY <1>1, <1>2, <1>3, <1>4 DEF Init, Abstract!Init

(* insmod and rmmod.                                                       *)
LEMMA ModuleMaps ==
  ASSUME DeviceInv, CallsInv, aesd_init_module \/ aesd_cleanup_module
  PROVE  Abstract!Load \/ Abstract!Unload
<1>1. /\ circular_buffer' = aesd_circular_buffer_init /\ staging_entry' = ZeroEntry
      /\ UNCHANGED <<pc, call, f_pos, ret>>
  BY DEF aesd_init_module, aesd_cleanup_module
<1>2. Log' = << >>
  BY <1>1, NoCommands, Zenon DEF Log
<1>3. Partial' = << >>
  BY <1>1, NullAssumption DEF Partial, ZeroEntry
<1>4. {t \in Proc : pc[t] # "closed"}' = {t \in Proc : pc[t] # "closed"}
  BY <1>1
<1>5. CASE aesd_init_module
  <2>1. circular_buffer = aesd_circular_buffer_init /\ staging_entry = ZeroEntry
    BY <1>5 DEF aesd_init_module, DeviceInv, RingInv
  <2>2. Log = << >>
    BY <2>1, NoCommands, Zenon DEF Log
  <2>3. Partial = << >>
    BY <2>1, NullAssumption DEF Partial, ZeroEntry
  <2>4. ~(module = "live") /\ (module = "live")' = TRUE
    BY <1>5 DEF aesd_init_module
  <2> QED
    BY <1>1, <1>2, <1>3, <1>4, <2>2, <2>3, <2>4 DEF Abstract!Load
<1>6. CASE aesd_cleanup_module
  <2>1. (module = "live") /\ (module = "live")' = FALSE /\ {t \in Proc : pc[t] # "closed"} = {}
    BY <1>6 DEF aesd_cleanup_module
  <2> QED
    BY <1>1, <1>2, <1>3, <1>4, <2>1 DEF Abstract!Unload
<1> QED
  BY <1>5, <1>6

(* open, close, the beginning of a call and its return.                    *)
LEMMA ClientMaps ==
  ASSUME DeviceInv, CallsInv, NEW t \in Proc,
         aesd_open(t) \/ aesd_release(t) \/ (\E c \in Calls : Invoke(t, c))
           \/ mutex_unlock(t) \/ ReturnUnlocked(t)
  PROVE  Abstract!Open(t) \/ Abstract!Close(t) \/ Abstract!End(t)
           \/ \E c \in Calls : Abstract!Begin(t, c)
<1>0. /\ pc \in [Proc -> {"closed", "idle", "lock", "return"} \cup Critical]
      /\ call \in [Proc -> Calls \cup {NoCall}] /\ f_pos \in [Proc -> Nat]
  BY DEF DeviceInv, LockInv, Types, CallsInv, PosTypes
<1>1. Log' = Log /\ Partial' = Partial /\ module' = module
  <2>1. UNCHANGED <<module, device, mem>>
    BY DEF aesd_open, aesd_release, Invoke, mutex_unlock, ReturnUnlocked, heap
  <2> QED
    BY <2>1, SameLog
<1>2. CASE aesd_open(t)
  <2>1. /\ {u \in Proc : pc[u] # "closed"}' = {u \in Proc : pc[u] # "closed"} \cup {t}
        /\ t \notin {u \in Proc : pc[u] # "closed"}
        /\ f_pos' = f_pos
    BY <1>0, <1>2 DEF aesd_open, Goto, CallsInv, CallerInv
  <2> QED
    BY <1>1, <1>2, <2>1 DEF aesd_open, Abstract!Open
<1>3. CASE aesd_release(t)
  <2>1. /\ {u \in Proc : pc[u] # "closed"}' = {u \in Proc : pc[u] # "closed"} \ {t}
        /\ t \in {u \in Proc : pc[u] # "closed"}
        /\ call[t] = NoCall /\ ret[t] = NoRet
    BY <1>0, <1>3 DEF aesd_release, Goto, CallsInv, CallerInv
  <2> QED
    BY <1>1, <1>3, <2>1 DEF aesd_release, Abstract!Close
<1>4. ASSUME NEW c \in Calls, Invoke(t, c) PROVE Abstract!Begin(t, c)
  <2>1. /\ {u \in Proc : pc[u] # "closed"}' = {u \in Proc : pc[u] # "closed"}
        /\ t \in {u \in Proc : pc[u] # "closed"}
        /\ call[t] = NoCall /\ ret[t] = NoRet
    BY <1>0, <1>4 DEF Invoke, Goto, CallsInv, CallerInv
  <2> QED
    BY <1>1, <1>4, <2>1 DEF Invoke, Abstract!Begin
<1>5. CASE mutex_unlock(t) \/ ReturnUnlocked(t)
  <2>1. /\ {u \in Proc : pc[u] # "closed"}' = {u \in Proc : pc[u] # "closed"}
        /\ ret' = [ret EXCEPT ![t] = NoRet] /\ f_pos' = f_pos /\ ret[t].done
    BY <1>0, <1>5 DEF mutex_unlock, ReturnUnlocked, Goto, CallsInv, CallerInv
  <2>2. call' = [call EXCEPT ![t] = NoCall]
    BY <1>0, <1>5 DEF mutex_unlock, ReturnUnlocked, CallsInv, CallerInv
  <2>3. ret[t] # NoRet
    BY <2>1 DEF NoRet
  <2> QED
    BY <1>1, <2>1, <2>2, <2>3 DEF Abstract!End
<1> QED
  BY <1>2, <1>3, <1>4, <1>5

(* An ioctl that is not understood.                                        *)
LEMMA RejectMaps ==
  ASSUME DeviceInv, CallsInv, NEW t \in Proc, NEW code \in {ENOTTY, EFAULT},
         aesd_ioctl_rejected(t, code)
  PROVE  Abstract!Fail(t)
<1>0. pc \in [Proc -> {"closed", "idle", "lock", "return"} \cup Critical]
  BY DEF DeviceInv, LockInv, Types
<1>1. /\ pc[t] = "idle" /\ call[t] = NoCall /\ ret[t] = NoRet
      /\ pc' = [pc EXCEPT ![t] = "return"]
      /\ ret' = [ret EXCEPT ![t] = Result(code, << >>)]
      /\ UNCHANGED <<module, device, mem, call, f_pos>>
  BY DEF aesd_ioctl_rejected, Goto, heap, CallsInv, CallerInv
<1>2. Log' = Log /\ Partial' = Partial
  BY <1>1, SameLog
<1>3. {u \in Proc : pc[u] # "closed"}' = {u \in Proc : pc[u] # "closed"}
      /\ t \in {u \in Proc : pc[u] # "closed"}
  BY <1>0, <1>1
<1>4. Result(code, << >>) = Abstract!Result(code, << >>)
  BY DEF Result, Abstract!Result
<1>5. Abstract!Answer(t, code, << >>)
  BY <1>1, <1>3, <1>4 DEF Abstract!Answer
<1>6. call[t].op = "none"
  BY <1>1 DEF NoCall
<1> QED
  BY <1>1, <1>2, <1>5, <1>6 DEF Abstract!Fail

(* A call that fails for want of memory or on a bad user pointer.          *)
LEMMA FailMaps ==
  ASSUME LockInv, CallsInv, NEW t \in Proc, NEW code,
         \/ call[t].op = "read" /\ code = EFAULT
         \/ call[t].op = "write" /\ code \in {EFAULT, ENOMEM},
         Abstract!Answer(t, code, << >>), Log' = Log, Partial' = Partial, f_pos' = f_pos
  PROVE  Abstract!Fail(t)
<1>1. CASE call[t].op = "read" /\ code = EFAULT
  BY <1>1 DEF Abstract!Fail
<1>2. CASE call[t].op = "write" /\ code \in {EFAULT, ENOMEM}
  <2>1. \E e \in {EFAULT, ENOMEM} : Abstract!Answer(t, e, << >>)
    BY <1>2, Zenon
  <2>2. call[t].op = "write" /\ call[t].op # "read" /\ call[t] # NoCall
    BY <1>2 DEF NoCall
  <2> QED
    BY <2>1, <2>2 DEF Abstract!Fail
<1> QED
  BY <1>1, <1>2

(* read(2).                                                                *)
LEMMA ReadMaps ==
  ASSUME DeviceInv, CallsInv, NEW t \in Proc, aesd_read(t)
  PROVE  Abstract!Read(t) \/ Abstract!Fail(t)
<1>1. PICK hit, entry, n :
        /\ hit = aesd_circular_buffer_find_entry_offset_for_fpos(circular_buffer, f_pos[t])
        /\ entry = circular_buffer.entry[hit.slot]
        /\ n = ReadLength(call[t].count, entry.size - hit.offset)
  OBVIOUS
<1>2. /\ pc[t] = "read" /\ UNCHANGED <<module, call, device, mem>>
      /\ \/ hit = NotFound /\ Finish(t, 0, << >>) /\ UNCHANGED f_pos
         \/ /\ hit # NotFound
            /\ Finish(t, n, SubSeq(mem[entry.buffptr], hit.offset + 1, hit.offset + n))
            /\ f_pos' = [f_pos EXCEPT ![t] = f_pos[t] + n]
         \/ Finish(t, EFAULT, << >>) /\ UNCHANGED f_pos
  BY <1>1 DEF aesd_read, heap
<1>3. Log' = Log /\ Partial' = Partial
  BY <1>2, SameLog
<1>4. ReadLocals(f_pos[t], call[t].count, hit, entry, n)
  BY <1>1 DEF ReadLocals
<1>5. /\ LockInv /\ f_pos \in [Proc -> Nat] /\ Log \in Seq(Seq(Byte))
  BY LogFacts DEF DeviceInv, CallsInv, PosTypes
<1>6. /\ call[t].op = "read" /\ f_pos[t] \in Nat /\ call[t].count \in Nat
      /\ \/ hit = NotFound /\ Len(FlattenSeq(Log)) <= f_pos[t]
         \/ /\ hit # NotFound
            /\ n \in 0 .. call[t].count /\ (n = 0 => call[t].count = 0)
            /\ f_pos[t] + n <= Len(FlattenSeq(Log))
            /\ SubSeq(mem[entry.buffptr], hit.offset + 1, hit.offset + n)
                 = SubSeq(FlattenSeq(Log), f_pos[t] + 1, f_pos[t] + n)
            /\ SubSeq(FlattenSeq(Log), f_pos[t] + 1, f_pos[t] + n) \in Seq(Byte)
  <2>1. pc[t] = "read"
    BY <1>2
  <2>2. call[t].op = "read" /\ f_pos[t] \in Nat /\ call[t].count \in Nat
    BY <2>1, ReadResult
  <2>3. \/ hit = NotFound /\ Len(FlattenSeq(Log)) <= f_pos[t]
        \/ /\ hit # NotFound
           /\ n \in 0 .. call[t].count /\ (n = 0 => call[t].count = 0)
           /\ f_pos[t] + n <= Len(FlattenSeq(Log))
           /\ SubSeq(mem[entry.buffptr], hit.offset + 1, hit.offset + n)
                = SubSeq(FlattenSeq(Log), f_pos[t] + 1, f_pos[t] + n)
           /\ SubSeq(FlattenSeq(Log), f_pos[t] + 1, f_pos[t] + n) \in Seq(Byte)
    BY <1>4, <2>1, ReadResult, Zenon
  <2> QED
    BY <2>2, <2>3, Zenon
<1>7. PICK s \in Seq(Byte) : s = FlattenSeq(Log) /\ s = Abstract!Stream(Log)
  BY <1>5, FlattenTyped, AbstractSeqs
<1>8. CASE hit = NotFound /\ Finish(t, 0, << >>) /\ UNCHANGED f_pos
  <2>1. Abstract!Answer(t, 0, << >>)
    BY <1>2, <1>5, <1>8, AnswerMaps
  <2>2. /\ 0 \in 0 .. call[t].count /\ f_pos[t] >= Len(s)
        /\ SubSeq(s, f_pos[t] + 1, f_pos[t] + 0) = << >>
        /\ f_pos' = [f_pos EXCEPT ![t] = f_pos[t] + 0]
    BY <1>5, <1>6, <1>7, <1>8
  <2>3. PICK z \in 0 .. call[t].count :
          /\ (z = 0 => f_pos[t] >= Len(s)) /\ (z > 0 => f_pos[t] + z <= Len(s))
          /\ Abstract!Answer(t, z, SubSeq(s, f_pos[t] + 1, f_pos[t] + z))
          /\ f_pos' = [f_pos EXCEPT ![t] = f_pos[t] + z]
    <3>1. PICK z \in 0 .. call[t].count : z = 0
      BY <2>2
    <3>2. Abstract!Answer(t, z, SubSeq(s, f_pos[t] + 1, f_pos[t] + z))
      BY <2>1, <2>2, <3>1, Zenon
    <3>3. /\ (z = 0 => f_pos[t] >= Len(s)) /\ (z > 0 => f_pos[t] + z <= Len(s))
          /\ f_pos' = [f_pos EXCEPT ![t] = f_pos[t] + z]
      BY <2>2, <3>1
    <3> QED
      BY <3>2, <3>3, Zenon
  <2> QED
    BY <1>3, <1>6, <1>7, <2>3 DEF Abstract!Read
<1>9. CASE /\ hit # NotFound
           /\ Finish(t, n, SubSeq(mem[entry.buffptr], hit.offset + 1, hit.offset + n))
           /\ f_pos' = [f_pos EXCEPT ![t] = f_pos[t] + n]
  <2>1. PICK d : d = SubSeq(mem[entry.buffptr], hit.offset + 1, hit.offset + n)
    OBVIOUS
  <2>2. Abstract!Answer(t, n, d)
    <3>1. Finish(t, n, d) /\ pc[t] \notin {"closed", "unlock", "return"} /\ module' = module
          /\ call' = call
      BY <1>2, <1>9, <2>1
    <3> QED
      BY <1>5, <3>1, AnswerMaps
  <2>3. /\ n \in 0 .. call[t].count /\ (n = 0 => call[t].count = 0)
        /\ f_pos[t] + n <= Len(s) /\ d = SubSeq(s, f_pos[t] + 1, f_pos[t] + n)
        /\ f_pos' = [f_pos EXCEPT ![t] = f_pos[t] + n]
    BY <1>6, <1>7, <1>9, <2>1
  <2> QED
    BY <1>3, <1>6, <1>7, <2>2, <2>3 DEF Abstract!Read
<1>10. CASE Finish(t, EFAULT, << >>) /\ UNCHANGED f_pos
  <2>1. Abstract!Answer(t, EFAULT, << >>)
    BY <1>2, <1>5, <1>10, AnswerMaps
  <2> QED
    BY <1>3, <1>5, <1>6, <1>10, <2>1, FailMaps
<1> QED
  BY <1>2, <1>8, <1>9, <1>10

(* lseek(2).                                                               *)
LEMMA SeekMaps ==
  ASSUME DeviceInv, CallsInv, NEW t \in Proc, aesd_llseek(t)
  PROVE  Abstract!Seek(t)
<1>0. call[t] \in Calls /\ call[t].op = "llseek" /\ f_pos[t] \in Nat
  BY DEF aesd_llseek, CallsInv, CallerInv, PosTypes
<1>1. PICK pos \in Nat, off \in Int,
           whence \in {"SEEK_SET", "SEEK_CUR", "SEEK_END", "SEEK_DATA"} :
        pos = f_pos[t] /\ off = call[t].off /\ whence = call[t].whence
  BY <1>0, CallShapes
<1>2. /\ LockInv /\ f_pos \in [Proc -> Nat]
      /\ Log \in Seq(Seq(Byte)) /\ Len(FlattenSeq(Log)) = circular_buffer.size
  BY LogFacts DEF DeviceInv, CallsInv, PosTypes
<1>3. PICK s \in Seq(Byte) : s = FlattenSeq(Log) /\ s = Abstract!Stream(Log)
  BY <1>2, FlattenTyped, AbstractSeqs
<1>4. PICK size \in Nat : size = Len(s) /\ size = aesd_circular_buffer_size(circular_buffer)
  BY <1>2, <1>3 DEF aesd_circular_buffer_size
<1>5. PICK new : new = fixed_size_llseek(pos, off, whence, size)
  OBVIOUS
<1>6. /\ pc[t] = "llseek" /\ Finish(t, new, << >>) /\ UNCHANGED <<module, device, mem, call>>
      /\ f_pos' = [f_pos EXCEPT ![t] = IF new = EINVAL THEN f_pos[t] ELSE new]
  BY <1>1, <1>5, <1>4 DEF aesd_llseek, heap
<1>7. Log' = Log /\ Partial' = Partial
  BY <1>6, SameLog
<1> DEFINE Target(x) == SeekTarget(x, pos, off, whence, size)
           Still == whence = "SEEK_CUR" /\ off = 0
<1>8. SeekOutcome(new, pos, off, whence, size)
  BY <1>5, SeekValue
<1>9. \/ new \in 0 .. size /\ Target(new)
      \/ new = pos /\ Still
      \/ new = EINVAL /\ ~Still /\ \A x \in 0 .. size : ~Target(x)
  BY <1>8 DEF SeekOutcome
<1>10. Abstract!SeekTargets(t) = {x \in 0 .. size : Target(x)} \cup {x \in {pos} : Still}
  BY <1>1, <1>3, <1>4 DEF Abstract!SeekTargets, SeekTarget
<1>11. Abstract!Answer(t, new, << >>)
  BY <1>6, <1>2, AnswerMaps
<1>12. CASE new = EINVAL /\ ~Still /\ \A x \in 0 .. size : ~Target(x)
  <2>1. Abstract!SeekTargets(t) = {}
    BY <1>10, <1>12
  <2>2. f_pos' = f_pos
    BY <1>6, <1>2, <1>12
  <2> QED
    BY <1>0, <1>7, <1>11, <1>12, <2>1, <2>2 DEF Abstract!Seek
<1>13. CASE (new \in 0 .. size /\ Target(new)) \/ (new = pos /\ Still)
  <2>1. new \in Abstract!SeekTargets(t)
    BY <1>10, <1>13
  <2>2. new \in Nat /\ new # EINVAL
    BY <1>13, EINVALIsNoPosition
  <2>3. f_pos' = [f_pos EXCEPT ![t] = new]
    BY <1>6, <2>2
  <2> QED
    BY <1>0, <1>7, <1>11, <2>1, <2>3 DEF Abstract!Seek
<1> QED
  BY <1>9, <1>12, <1>13

(* AESDCHAR_IOCSEEKTO.                                                     *)
LEMMA IoctlMaps ==
  ASSUME DeviceInv, CallsInv, NEW t \in Proc, aesd_adjust_file_offset(t)
  PROVE  Abstract!SeekTo(t)
<1>0. call[t] \in Calls /\ call[t].op = "ioctl" /\ f_pos \in [Proc -> Nat] /\ LockInv
  BY DEF aesd_adjust_file_offset, CallsInv, CallerInv, PosTypes, DeviceInv
<1>1. PICK i \in Nat, o \in Nat : i = call[t].write_cmd /\ o = call[t].write_cmd_offset
  BY <1>0, CallShapes
<1>2. PICK b, c, l : b = circular_buffer /\ c = Contents(b) /\ l = Log
  OBVIOUS
<1>3. b \in Buffer /\ b.num_entries \in 0 .. MAX_OPS
  BY <1>2 DEF DeviceInv, LockInv, Types, Buffer
<1>4. /\ Len(l) = b.num_entries
      /\ \A k \in 1 .. Len(l) : Len(l[k]) = c[k].size
      /\ \A k \in 0 .. Len(l) : Len(FlattenTo(l, k)) = SizeOfOldest(b, k)
  BY <1>2, LogFacts DEF DeviceInv
<1>5. PICK new : new = aesd_circular_buffer_get_entry_fpos(b, i, o)
  OBVIOUS
<1>6. new = IF i < b.num_entries /\ o < c[i + 1].size THEN SizeOfOldest(b, i) + o ELSE -1
  <2>1. aesd_circular_buffer_get_entry_fpos(b, i, o)
          = IF i < b.num_entries /\ o < Contents(b)[i + 1].size
            THEN SizeOfOldest(b, i) + o ELSE -1
    BY <1>3, FposValue
  <2> QED
    BY <1>2, <1>5, <2>1, Zenon
<1>7. /\ pc[t] = "ioctl" /\ Finish(t, IF new >= 0 THEN 0 ELSE EINVAL, << >>)
      /\ UNCHANGED <<module, device, mem, call>>
      /\ f_pos' = [f_pos EXCEPT ![t] = IF new >= 0 THEN new ELSE f_pos[t]]
  BY <1>1, <1>2, <1>5 DEF aesd_adjust_file_offset, heap
<1>8. Log' = Log /\ Partial' = Partial
  BY <1>7, SameLog
<1>9. PICK code : code = IF new >= 0 THEN 0 ELSE EINVAL
  OBVIOUS
<1>10. Abstract!Answer(t, code, << >>)
  <2>1. Finish(t, code, << >>) /\ pc[t] \notin {"closed", "unlock", "return"}
        /\ module' = module /\ call' = call
    BY <1>7, <1>9
  <2> QED
    BY <1>0, <2>1, AnswerMaps
<1>11. Abstract!SeekIsValid(Log, call[t]) <=> i < Len(l) /\ o < Len(l[i + 1])
  BY <1>1, <1>2 DEF Abstract!SeekIsValid
<1>12. CASE i < Len(l) /\ o < Len(l[i + 1])
  <2>1. i \in 0 .. Len(l) /\ i + 1 \in 1 .. Len(l) /\ i \in 0 .. MAX_OPS
    BY <1>3, <1>4, <1>12, MaxOpsAssumption
  <2>2. PICK z \in Nat : z = SizeOfOldest(b, i)
    BY <1>3, <2>1, SizeIsNat
  <2>3. Len(l[i + 1]) = c[i + 1].size /\ Len(FlattenTo(l, i)) = z
    BY <1>4, <2>1, <2>2
  <2>4. new = z + o
    BY <1>4, <1>6, <1>12, <2>2, <2>3
  <2>5. f_pos' = [f_pos EXCEPT ![t] = z + o] /\ code = 0
    <3>1. new >= 0
      BY <2>4
    <3> QED
      BY <1>7, <1>9, <2>4, <3>1, Zenon
  <2>6. Abstract!CommandStart(l, i) = z
    BY <2>3, AbstractSeqs, Zenon
  <2>7. Abstract!SeekPosition(Log, call[t]) = z + o
    BY <1>1, <1>2, <2>6, Zenon DEF Abstract!SeekPosition
  <2> QED
    BY <1>0, <1>8, <1>10, <1>11, <1>12, <2>5, <2>7, Zenon DEF Abstract!SeekTo
<1>13. CASE ~(i < Len(l) /\ o < Len(l[i + 1]))
  <2>1. ~(i < b.num_entries /\ o < c[i + 1].size)
    <3>1. i < Len(l) => i + 1 \in 1 .. Len(l)
      BY <1>3, <1>4
    <3> QED
      BY <1>4, <1>13, <3>1
  <2>2. new = -1
    BY <1>6, <2>1
  <2>3. code = EINVAL /\ f_pos' = f_pos
    BY <1>0, <1>7, <1>9, <2>2
  <2> QED
    BY <1>0, <1>8, <1>10, <1>11, <1>13, <2>3, Zenon DEF Abstract!SeekTo
<1> QED
  BY <1>12, <1>13

(* The pointers of the entries held.                                       *)
LEMMA HeldPtrs ==
  ASSUME DeviceInv
  PROVE  /\ Contents(circular_buffer) \in Seq(Stored)
         /\ Len(Contents(circular_buffer)) = circular_buffer.num_entries
         /\ \A k \in 1 .. circular_buffer.num_entries :
              LET i == (circular_buffer.out_offs + k - 1) % MAX_OPS
                  p == Contents(circular_buffer)[k].buffptr
              IN  /\ i \in Slots /\ p = circular_buffer.entry[i].buffptr
                  /\ p \in Ptr /\ p \in allocated /\ p # staging_entry.buffptr /\ p \in RingPtrs
<1>1. PICK b, c : b = circular_buffer /\ c = Contents(b)
  OBVIOUS
<1>2. b \in Buffer /\ c \in Seq(Stored) /\ b.num_entries \in 0 .. MAX_OPS /\ b.out_offs \in Slots
  BY <1>1 DEF DeviceInv, LockInv, Types, StoredInv, Buffer
<1>3. /\ Len(c) = b.num_entries
      /\ \A k \in 1 .. b.num_entries : c[k] = b.entry[(b.out_offs + k - 1) % MAX_OPS]
  BY <1>1, <1>2, ContentsTyped
<1>4. ASSUME NEW k \in 1 .. b.num_entries
      PROVE  LET i == (b.out_offs + k - 1) % MAX_OPS
                 p == c[k].buffptr
             IN  /\ i \in Slots /\ p = b.entry[i].buffptr
                 /\ p \in Ptr /\ p \in allocated /\ p # staging_entry.buffptr /\ p \in RingPtrs
  <2>1. b.out_offs + k - 1 \in Int
    BY <1>2, MaxOpsAssumption DEF Slots
  <2>2. (b.out_offs + k - 1) % MAX_OPS \in Slots
    BY <2>1, MaxOpsAssumption DEF Slots
  <2>3. PICK i \in Slots : i = (b.out_offs + k - 1) % MAX_OPS
    BY <2>2
  <2>4. c[k] \in Stored
    BY <1>2, <1>3
  <2>5. c[k].buffptr \in Ptr /\ c[k].buffptr = b.entry[i].buffptr /\ c[k].buffptr # NULL
    BY <1>3, <2>3, <2>4, NullAssumption DEF Stored
  <2>6. c[k].buffptr \in allocated /\ c[k].buffptr # staging_entry.buffptr
        /\ c[k].buffptr \in RingPtrs
    BY <1>1, <2>5 DEF DeviceInv, HeapInv, HeapSafe, RingOwned, RingPtrs
  <2> QED
    BY <2>3, <2>5, <2>6, Zenon
<1> QED
  BY <1>1, <1>2, <1>3, <1>4, Zenon

(* Memory that no entry held and no staged command has can change without  *)
(* anything being seen of it.                                              *)
LEMMA OtherMemory ==
  ASSUME DeviceInv, UNCHANGED device,
         \A q \in Ptr : q \in RingPtrs \cup {staging_entry.buffptr} => mem'[q] = mem[q]
  PROVE  Log' = Log /\ Partial' = Partial
<1>1. Partial' = Partial
  BY DEF Partial, device
<1>2. ASSUME NEW k \in 1 .. circular_buffer.num_entries
      PROVE  mem'[Contents(circular_buffer)[k].buffptr] = mem[Contents(circular_buffer)[k].buffptr]
  BY HeldPtrs
<1>3. Log' = [k \in 1 .. circular_buffer.num_entries |->
                mem'[Contents(circular_buffer)[k].buffptr]]
  BY DEF Log, device
<1> QED
  BY <1>1, <1>2, <1>3 DEF Log

(* aesd_write up to copy_from_user changes nothing that is seen, but for   *)
(* an error.                                                               *)
LEMMA AllocMaps ==
  ASSUME DeviceInv, CallsInv, NEW t \in Proc, aesd_write_alloc(t)
  PROVE  Abstract!Fail(t) \/ UNCHANGED <<Log, Partial, module, f_pos, call, ret>>
<1>0. /\ LockInv /\ call[t].op = "write" /\ pc[t] = "write"
      /\ UNCHANGED <<module, device, call, f_pos>>
  BY DEF aesd_write_alloc, CallsInv, CallerInv, DeviceInv
<1>1. CASE Finish(t, ENOMEM, << >>) /\ UNCHANGED <<heap, bufferptr>>
  <2>1. Log' = Log /\ Partial' = Partial
    BY <1>0, <1>1, SameLog DEF heap
  <2>2. Abstract!Answer(t, ENOMEM, << >>)
    BY <1>0, <1>1, AnswerMaps
  <2>3. Abstract!Fail(t)
    BY <1>0, <2>1, <2>2, FailMaps
  <2> QED
    BY <2>3
<1>2. ASSUME NEW p \in kmalloc(Len(call[t].buf) + staging_entry.size),
             mem' = IF staging_entry.buffptr = NULL THEN mem
                    ELSE [mem EXCEPT ![p] = mem[staging_entry.buffptr]],
             UNCHANGED ret
      PROVE  UNCHANGED <<Log, Partial, module, f_pos, call, ret>>
  <2>1. \A q \in Ptr : q \in RingPtrs \cup {staging_entry.buffptr} => q \in allocated
    BY NullAssumption DEF DeviceInv, HeapInv, HeapSafe, RingOwned, StagingOwned, RingPtrs
  <2>2. p \notin allocated
    BY <1>2, PtrAssumption DEF kmalloc, DeviceInv, LockInv, Types
  <2>3. \A q \in Ptr : q \in RingPtrs \cup {staging_entry.buffptr} => mem'[q] = mem[q]
    BY <1>2, <2>1, <2>2 DEF DeviceInv, LockInv, Types
  <2>4. Log' = Log /\ Partial' = Partial
    BY <1>0, <2>3, OtherMemory
  <2> QED
    BY <1>0, <1>2, <2>4
<1> QED
  BY <1>1, <1>2 DEF aesd_write_alloc

(* aesd_write when copy_from_user fails.                                   *)
LEMMA FaultMaps ==
  ASSUME DeviceInv, CallsInv, NEW t \in Proc, aesd_write_fault(t)
  PROVE  Abstract!Fail(t)
<1>0. /\ LockInv /\ HeapInv /\ pc[t] = "copy" /\ call[t] \in WriteCalls
      /\ UNCHANGED <<module, device, call, f_pos>> /\ Finish(t, EFAULT, << >>)
  BY DEF aesd_write_fault, DeviceInv, LockInv, CallState
<1>1. call[t].op = "write"
  BY <1>0, ChunkIsBytes
<1>2. bufferptr[t] \in Ptr /\ bufferptr[t] \notin RingPtrs \cup {staging_entry.buffptr}
  BY <1>0 DEF aesd_write_fault, HeapInv, HeapSafe, CopyStarted, CopyOwned
<1>3. \A q \in Ptr : q # bufferptr[t] => mem'[q] = mem[q]
  BY DEF aesd_write_fault, kfree
<1>4. Log' = Log /\ Partial' = Partial
  BY <1>0, <1>2, <1>3, OtherMemory
<1>5. Abstract!Answer(t, EFAULT, << >>)
  BY <1>0, AnswerMaps
<1> QED
  BY <1>0, <1>1, <1>4, <1>5, FailMaps

(* aesd_write when copy_from_user succeeds: the new command is what was    *)
(* staged and the bytes written, and of the other entries only the         *)
(* replaced one loses its memory.                                          *)
LEMMA CommitMemory ==
  ASSUME DeviceInv, NEW t \in Proc, aesd_write_commit(t)
  PROVE  /\ Partial \in Seq(Byte) /\ call[t].buf \in Seq(Byte)
         /\ bufferptr[t] \in Ptr /\ mem[bufferptr[t]] = Partial
         /\ mem'[bufferptr[t]] = Partial \o call[t].buf
         /\ \A q \in RingPtrs :
              (q \in Ptr /\ (EndsCommand(Partial \o call[t].buf)
                               => q # replaced_entry(circular_buffer)))
                => mem'[q] = mem[q]
<1> DEFINE p == bufferptr[t]
           bytes == mem[p] \o call[t].buf
           dead == {staging_entry.buffptr} \cup
                   (IF EndsCommand(bytes) THEN {replaced_entry(circular_buffer)} ELSE {})
           m == [mem EXCEPT ![p] = bytes]
<1>1. /\ p \in Ptr /\ call[t].buf \in Seq(Byte) /\ mem \in [Ptr -> Seq(Byte)]
      /\ mem[p] = Partial /\ p \in allocated /\ p \notin RingPtrs \cup {staging_entry.buffptr}
  <2>1. /\ LockInv /\ HeapInv /\ pc[t] = "copy" /\ p \in Ptr
    BY DEF aesd_write_commit, DeviceInv
  <2> QED
    BY <2>1, StagedIsStored
       DEF LockInv, Types, HeapInv, HeapSafe, CopyStarted, CopyOwned
<1>2. mem' = [q \in Ptr |-> IF q \in dead THEN << >> ELSE m[q]]
  BY DEF aesd_write_commit, kfree
<1>3. circular_buffer.entry \in [Slots -> Entry] /\ circular_buffer.in_offs \in Slots
  BY DEF DeviceInv, LockInv, Types, Buffer
<1>4. replaced_entry(circular_buffer) \in RingPtrs \cup {NULL}
  BY <1>3 DEF replaced_entry, RingPtrs
<1>5. p \notin dead
  BY <1>1, <1>4, NullAssumption
<1>6. \A q \in RingPtrs : q # staging_entry.buffptr
  BY DEF RingPtrs, DeviceInv, HeapInv, HeapSafe, RingOwned
<1>7. mem'[p] = Partial \o call[t].buf
  BY <1>1, <1>2, <1>5
<1>8. ASSUME NEW q \in RingPtrs, q \in Ptr,
             EndsCommand(bytes) => q # replaced_entry(circular_buffer)
      PROVE  mem'[q] = mem[q]
  <2>1. q \notin dead /\ q # p
    BY <1>1, <1>6, <1>8
  <2> QED
    BY <1>1, <1>2, <1>8, <2>1
<1> QED
  BY <1>1, <1>7, <1>8

(* What is held after an entry has been added, in terms of the entries     *)
(* held before.                                                            *)
LEMMA CommitContents ==
  ASSUME DeviceInv, NEW t \in Proc, aesd_write_commit(t),
         EndsCommand(Partial \o call[t].buf),
         NEW c, c = Contents(circular_buffer)
  PROVE  /\ Contents(circular_buffer')
              = IF Len(c) = MAX_OPS THEN Append(Tail(c), Staged(t, call[t].buf))
                ELSE Append(c, Staged(t, call[t].buf))
         /\ circular_buffer'.num_entries
              = IF Len(c) = MAX_OPS THEN Len(c) ELSE Len(c) + 1
<1>1. PICK e : e = Staged(t, call[t].buf)
  OBVIOUS
<1>2. e \in Entry /\ circular_buffer \in Buffer
      /\ (Filling(circular_buffer) \/ Wrapped(circular_buffer))
  BY <1>1, StagedIsStored DEF DeviceInv, RingInv
<1>3. circular_buffer' = aesd_circular_buffer_add_entry(circular_buffer, e)
  BY <1>1, CommitMemory DEF aesd_write_commit
<1>4. Contents(aesd_circular_buffer_add_entry(circular_buffer, e))
        = IF Len(Contents(circular_buffer)) = MAX_OPS
          THEN Append(Tail(Contents(circular_buffer)), e) ELSE Append(Contents(circular_buffer), e)
  BY <1>2, AddIsAppend
<1>5. Len(c) = circular_buffer.num_entries
  BY HeldPtrs
<1>6. circular_buffer'.num_entries = IF Len(c) = MAX_OPS THEN Len(c) ELSE Len(c) + 1
  BY <1>3, <1>5 DEF aesd_circular_buffer_add_entry, aesd_circular_buffer_full
<1>7. Contents(circular_buffer') = IF Len(c) = MAX_OPS THEN Append(Tail(c), e) ELSE Append(c, e)
  BY <1>3, <1>4, Zenon
<1> QED
  BY <1>1, <1>6, <1>7, Zenon

(* The memory of the entries that stay.                                    *)
LEMMA KeptMemory ==
  ASSUME DeviceInv, NEW t \in Proc, aesd_write_commit(t),
         NEW k \in 1 .. circular_buffer.num_entries,
         k = 1 => circular_buffer.num_entries < MAX_OPS
                  \/ ~EndsCommand(Partial \o call[t].buf)
  PROVE  mem'[Contents(circular_buffer)[k].buffptr] = mem[Contents(circular_buffer)[k].buffptr]
<1>1. PICK b, i, p : /\ b = circular_buffer /\ i = (b.out_offs + k - 1) % MAX_OPS
                     /\ p = Contents(b)[k].buffptr
  OBVIOUS
<1>2. i \in Slots /\ p = b.entry[i].buffptr /\ p \in Ptr /\ p \in RingPtrs
  BY <1>1, HeldPtrs
<1>3. /\ b \in Buffer /\ b.num_entries \in 0 .. MAX_OPS
      /\ b.out_offs \in Slots /\ b.in_offs \in Slots
      /\ (Filling(b) \/ Wrapped(b))
  BY <1>1 DEF DeviceInv, LockInv, Types, Buffer, RingInv
<1>4. ASSUME EndsCommand(Partial \o call[t].buf) PROVE p # replaced_entry(b)
  <2>1. CASE b.num_entries < MAX_OPS
    BY <1>2, <1>3, <2>1, MaxOpsAssumption, NullAssumption
       DEF replaced_entry, aesd_circular_buffer_full
  <2>2. CASE ~(b.num_entries < MAX_OPS)
    <3>1. k # 1 /\ b.num_entries = MAX_OPS /\ k - 1 \in 1 .. MAX_OPS - 1
      BY <1>1, <1>3, <1>4, <2>2, MaxOpsAssumption
    <3>2. b.in_offs = b.out_offs
      BY <1>3, <2>2 DEF Filling, Wrapped
    <3>3. PICK o \in 0 .. MAX_OPS - 1, d \in 1 .. MAX_OPS - 1 : o = b.out_offs /\ d = k - 1
      BY <1>3, <3>1 DEF Slots
    <3>4. (o + d) % MAX_OPS # o
      <4>1. CASE o + d < MAX_OPS
        <5>1. (o + d) % MAX_OPS = o + d
          BY <4>1, MaxOpsAssumption
        <5> QED
          BY <5>1
      <4>2. CASE ~(o + d < MAX_OPS)
        <5>1. (o + d) % MAX_OPS = o + d - MAX_OPS
          BY <4>2, MaxOpsAssumption
        <5> QED
          BY <5>1, MaxOpsAssumption
      <4> QED
        BY <4>1, <4>2
    <3>5. b.out_offs + k - 1 = o + d
      BY <3>1, <3>3
    <3>6. i # b.in_offs
      BY <1>1, <3>2, <3>3, <3>4, <3>5
    <3>7. b.entry[b.in_offs].buffptr # p
      <4>1. RingOwned
        BY DEF DeviceInv, HeapInv, HeapSafe
      <4>2. p # NULL /\ b.in_offs \in Slots \ {i}
        BY <1>2, <1>3, <3>6, NullAssumption
      <4> QED
        BY <1>1, <1>2, <4>1, <4>2 DEF RingOwned
    <3> QED
      BY <3>1, <3>7 DEF replaced_entry, aesd_circular_buffer_full
  <2> QED
    BY <2>1, <2>2
<1>5. mem'[p] = mem[p]
  BY <1>1, <1>2, <1>4, CommitMemory
<1> QED
  BY <1>1, <1>5

(* A sequence and the function that lists it.                              *)
LEMMA Listing ==
  ASSUME NEW S, NEW s \in Seq(S), NEW f, NEW n, f = [i \in 1 .. n |-> f[i]],
         Len(s) = n, \A i \in 1 .. n : f[i] = s[i]
  PROVE  f = s
OBVIOUS

(* A sequence after one element is appended, the first one dropped or not. *)
LEMMA AfterAppend ==
  ASSUME NEW S, NEW s \in Seq(S), NEW e \in S
  PROVE  /\ Append(s, e) \in Seq(S) /\ Len(Append(s, e)) = Len(s) + 1
         /\ \A i \in 1 .. Len(s) : Append(s, e)[i] = s[i]
         /\ Append(s, e)[Len(s) + 1] = e
         /\ s # << >> => /\ Append(Tail(s), e) \in Seq(S)
                        /\ Len(Append(Tail(s), e)) = Len(s)
                        /\ \A i \in 1 .. Len(s) - 1 : Append(Tail(s), e)[i] = s[i + 1]
                        /\ Append(Tail(s), e)[Len(s)] = e
<1>1. ASSUME s # << >>
      PROVE  /\ Append(Tail(s), e) \in Seq(S)
             /\ Len(Append(Tail(s), e)) = Len(s)
             /\ \A i \in 1 .. Len(s) - 1 : Append(Tail(s), e)[i] = s[i + 1]
             /\ Append(Tail(s), e)[Len(s)] = e
  <2>0. Tail(s) \in Seq(S)
    BY <1>1
  <2>1. PICK r \in Seq(S) : r = Tail(s)
    BY <2>0, Zenon
  <2>2. Len(r) = Len(s) - 1 /\ \A i \in 1 .. Len(s) - 1 : r[i] = s[i + 1]
    BY <1>1, <2>1
  <2> QED
    BY <2>1, <2>2
<1> QED
  BY <1>1

(* A completed command takes its place at the end of the log.              *)
LEMMA CommitEnds ==
  ASSUME DeviceInv, NEW t \in Proc, aesd_write_commit(t),
         EndsCommand(Partial \o call[t].buf)
  PROVE  /\ Log' = IF Len(Log) = MAX_OPS THEN Append(Tail(Log), Partial \o call[t].buf)
                   ELSE Append(Log, Partial \o call[t].buf)
         /\ Partial' = << >>
<1>1. PICK c \in Seq(Stored), n \in 0 .. MAX_OPS :
        c = Contents(circular_buffer) /\ n = circular_buffer.num_entries /\ Len(c) = n
  BY HeldPtrs DEF DeviceInv, LockInv, Types, Buffer
<1>2. PICK l \in Seq(Seq(Byte)) :
        l = Log /\ Len(l) = n /\ \A k \in 1 .. n : l[k] = mem[c[k].buffptr]
  BY <1>1, LogFacts DEF DeviceInv
<1>3. PICK cmd \in Seq(Byte) : cmd = Partial \o call[t].buf
  <2>1. PICK a \in Seq(Byte), b \in Seq(Byte) : a = Partial /\ b = call[t].buf
    BY CommitMemory
  <2>2. a \o b \in Seq(Byte)
    OBVIOUS
  <2> QED
    BY <2>1, <2>2, Zenon
<1>4. PICK e \in Stored : e = Staged(t, call[t].buf) /\ e.buffptr = bufferptr[t]
  BY StagedIsStored DEF Staged, DeviceInv
<1>5. mem'[e.buffptr] = cmd
  BY <1>3, <1>4, CommitMemory
<1>6. /\ Contents(circular_buffer') = IF Len(c) = MAX_OPS THEN Append(Tail(c), e) ELSE Append(c, e)
      /\ circular_buffer'.num_entries = IF Len(c) = MAX_OPS THEN Len(c) ELSE Len(c) + 1
  BY <1>1, <1>4, CommitContents
<1>7. Partial' = << >>
  <2>1. EndsCommand(mem[bufferptr[t]] \o call[t].buf)
    BY CommitMemory
  <2>2. staging_entry' = ZeroEntry
    BY <2>1, Zenon DEF aesd_write_commit
  <2> QED
    BY <2>2, NullAssumption DEF Partial, ZeroEntry
<1>8. \A k \in 1 .. n : (k = 1 => n < MAX_OPS) => mem'[c[k].buffptr] = l[k]
  BY <1>1, <1>2, KeptMemory
<1>9. PICK d, w, f : /\ d = Contents(circular_buffer') /\ w = circular_buffer'.num_entries
                     /\ f = Log'
  OBVIOUS
<1>10. f = [k \in 1 .. w |-> mem'[d[k].buffptr]]
  BY <1>9, Zenon DEF Log
<1>11. CASE n = MAX_OPS
  <2>1. w = n /\ d = Append(Tail(c), e) /\ n >= 1 /\ n \in Nat
    BY <1>1, <1>6, <1>9, <1>11, MaxOpsAssumption
  <2>2. c # << >> /\ l # << >>
    BY <1>1, <1>2, <2>1
  <2>3. \A k \in 1 .. n - 1 : d[k] = c[k + 1]
    BY <1>1, <2>1, <2>2, AfterAppend
  <2>4. d[n] = e
    BY <1>1, <2>1, <2>2, AfterAppend
  <2>5. PICK s \in Seq(Seq(Byte)) : /\ s = Append(Tail(l), cmd) /\ Len(s) = n /\ s[n] = cmd
                                   /\ \A k \in 1 .. n - 1 : s[k] = l[k + 1]
    <3>1. /\ Append(Tail(l), cmd) \in Seq(Seq(Byte)) /\ Len(Append(Tail(l), cmd)) = n
          /\ Append(Tail(l), cmd)[n] = cmd
          /\ \A k \in 1 .. n - 1 : Append(Tail(l), cmd)[k] = l[k + 1]
      BY <1>2, <2>2, AfterAppend
    <3> QED
      BY <3>1, Zenon
  <2>6. ASSUME NEW k \in 1 .. n PROVE f[k] = s[k]
    <3>1. CASE k = n
      BY <1>5, <1>10, <2>1, <2>4, <2>5, <3>1
    <3>2. CASE k # n
      <4>1. k \in 1 .. n - 1 /\ k + 1 \in 1 .. n /\ k + 1 # 1
        BY <2>1, <3>2
      <4>2. mem'[c[k + 1].buffptr] = l[k + 1]
        BY <1>8, <4>1
      <4> QED
        BY <1>10, <2>1, <2>3, <2>5, <4>1, <4>2
    <3> QED
      BY <3>1, <3>2
  <2>7. f = [k \in 1 .. n |-> f[k]]
    BY <1>10, <2>1
  <2>8. f = s
    BY <2>5, <2>6, <2>7, Listing
  <2> QED
    BY <1>2, <1>3, <1>7, <1>9, <1>11, <2>5, <2>8, Zenon
<1>12. CASE n # MAX_OPS
  <2>1. w = n + 1 /\ d = Append(c, e) /\ n < MAX_OPS /\ n \in Nat
    BY <1>1, <1>6, <1>9, <1>12, MaxOpsAssumption
  <2>2. d[n + 1] = e /\ \A k \in 1 .. n : d[k] = c[k]
    BY <1>1, <2>1, AfterAppend
  <2>3. PICK s \in Seq(Seq(Byte)) : /\ s = Append(l, cmd) /\ Len(s) = n + 1 /\ s[n + 1] = cmd
                                   /\ \A k \in 1 .. n : s[k] = l[k]
    <3>1. /\ Append(l, cmd) \in Seq(Seq(Byte)) /\ Len(Append(l, cmd)) = n + 1
          /\ Append(l, cmd)[n + 1] = cmd /\ \A k \in 1 .. n : Append(l, cmd)[k] = l[k]
      BY <1>2, AfterAppend
    <3> QED
      BY <3>1, Zenon
  <2>4. ASSUME NEW k \in 1 .. n + 1 PROVE f[k] = s[k]
    <3>1. CASE k = n + 1
      BY <1>5, <1>10, <2>1, <2>2, <2>3, <3>1
    <3>2. CASE k # n + 1
      <4>1. k \in 1 .. n
        BY <2>1, <3>2
      <4>2. mem'[c[k].buffptr] = l[k]
        BY <1>8, <2>1, <4>1
      <4> QED
        BY <1>10, <2>1, <2>2, <2>3, <4>1, <4>2
    <3> QED
      BY <3>1, <3>2
  <2>5. f = [k \in 1 .. n + 1 |-> f[k]]
    BY <1>10, <2>1
  <2>6. f = s
    BY <2>3, <2>4, <2>5, Listing
  <2> QED
    BY <1>2, <1>3, <1>7, <1>9, <1>12, <2>3, <2>6, Zenon
<1> QED
  BY <1>11, <1>12

(* write(2).                                                               *)
LEMMA CommitMaps ==
  ASSUME DeviceInv, CallsInv, NEW t \in Proc, aesd_write_commit(t)
  PROVE  Abstract!Write(t)
<1>1. /\ LockInv /\ pc[t] = "copy" /\ call[t] \in WriteCalls
      /\ UNCHANGED <<module, call, f_pos>> /\ Finish(t, Len(call[t].buf), << >>)
  BY DEF aesd_write_commit, DeviceInv, LockInv, CallState
<1>2. call[t].op = "write"
  BY <1>1, ChunkIsBytes
<1>3. Abstract!Answer(t, Len(call[t].buf), << >>)
  BY <1>1, AnswerMaps
<1>4. PICK cmd : cmd = Partial \o call[t].buf
  OBVIOUS
<1>5. EndsCommand(cmd) <=> cmd # << >> /\ Abstract!Last(cmd) = NewLine
  BY AbstractSeqs, Zenon DEF EndsCommand
<1>6. CASE EndsCommand(cmd)
  <2>1. /\ Log' = IF Len(Log) = MAX_OPS THEN Append(Tail(Log), cmd) ELSE Append(Log, cmd)
        /\ Partial' = << >>
    BY <1>4, <1>6, CommitEnds
  <2>2. Log' = Abstract!Keep(Log, cmd, MAX_OPS)
    BY <2>1 DEF Abstract!Keep
  <2>3. Abstract!Written(Log, Partial, call[t].buf, NewLine, MAX_OPS)
          = [log |-> Abstract!Keep(Log, cmd, MAX_OPS), partial |-> << >>]
    BY <1>4, <1>5, <1>6, Zenon DEF Abstract!Written
  <2> QED
    BY <1>1, <1>2, <1>3, <2>1, <2>2, <2>3 DEF Abstract!Write
<1>7. CASE ~EndsCommand(cmd)
  <2>1. /\ circular_buffer' = circular_buffer /\ staging_entry'.buffptr = bufferptr[t]
    <3>1. ~EndsCommand(mem[bufferptr[t]] \o call[t].buf)
      BY <1>4, <1>7, CommitMemory
    <3> QED
      BY <3>1 DEF aesd_write_commit, Staged
  <2>2. Partial' = cmd
    BY <1>4, <2>1, CommitMemory DEF Partial
  <2>3. ASSUME NEW k \in 1 .. circular_buffer.num_entries
        PROVE  mem'[Contents(circular_buffer)[k].buffptr]
                 = mem[Contents(circular_buffer)[k].buffptr]
    BY <1>4, <1>7, KeptMemory
  <2>4. Log' = [k \in 1 .. circular_buffer.num_entries |->
                  mem'[Contents(circular_buffer)[k].buffptr]]
    BY <2>1 DEF Log
  <2>5. Log' = Log
    BY <2>3, <2>4 DEF Log
  <2>6. Abstract!Written(Log, Partial, call[t].buf, NewLine, MAX_OPS)
          = [log |-> Log, partial |-> cmd]
    BY <1>4, <1>5, <1>7, Zenon DEF Abstract!Written
  <2> QED
    BY <1>1, <1>2, <1>3, <2>2, <2>5, <2>6 DEF Abstract!Write
<1> QED
  BY <1>6, <1>7

(* The driver implements the device of CharDevice: every call takes effect *)
(* at one instant, whatever the mutex, the ring and the heap do.           *)
THEOREM RefinesCharDevice == Spec => ImplementsCharDevice
<1>1. DeviceInv /\ CallsInv /\ [Next]_vars => [Abstract!Next]_(Abstract!vars)
  <2> SUFFICES ASSUME DeviceInv, CallsInv, [Next]_vars
               PROVE  [Abstract!Next]_(Abstract!vars)
    OBVIOUS
  <2>0. pc \in [Proc -> {"closed", "idle", "lock", "return"} \cup Critical]
    BY DEF DeviceInv, LockInv, Types
  <2>1. CASE aesd_init_module \/ aesd_cleanup_module
    BY <2>1, ModuleMaps DEF Abstract!Next
  <2>2. ASSUME NEW t \in Proc,
               aesd_open(t) \/ aesd_release(t) \/ (\E c \in Calls : Invoke(t, c))
                 \/ mutex_unlock(t) \/ ReturnUnlocked(t)
        PROVE  Abstract!Next
    BY <2>2, ClientMaps DEF Abstract!Next
  <2>3. ASSUME NEW t \in Proc, NEW code \in {ENOTTY, EFAULT}, aesd_ioctl_rejected(t, code)
        PROVE  Abstract!Next
    BY <2>3, RejectMaps DEF Abstract!Next
  <2>4. ASSUME NEW t \in Proc, NEW l, l # "closed", pc[t] # "closed", Goto(t, l)
        PROVE  {u \in Proc : pc[u] # "closed"}' = {u \in Proc : pc[u] # "closed"}
    BY <2>0, <2>4 DEF Goto
  <2>5. ASSUME NEW t \in Proc, mutex_lock(t) PROVE UNCHANGED Abstract!vars
    <3>1. call[t].op # "closed"
      BY <2>5, CallOps DEF mutex_lock, DeviceInv, LockInv, CallState
    <3>2. UNCHANGED <<module, device, mem, call, f_pos, ret>> /\ pc[t] = "lock"
          /\ Goto(t, call[t].op)
      BY <2>5 DEF mutex_lock, heap
    <3>3. Log' = Log /\ Partial' = Partial
      BY <3>2, SameLog
    <3>4. {u \in Proc : pc[u] # "closed"}' = {u \in Proc : pc[u] # "closed"}
      BY <2>4, <3>1, <3>2
    <3> QED
      BY <3>2, <3>3, <3>4 DEF Abstract!vars
  <2>6. ASSUME NEW t \in Proc, aesd_llseek(t) \/ aesd_adjust_file_offset(t) \/ aesd_read(t)
                 \/ aesd_write_fault(t) \/ aesd_write_commit(t)
        PROVE  Abstract!Next
    BY <2>6, SeekMaps, IoctlMaps, ReadMaps, FaultMaps, CommitMaps DEF Abstract!Next
  <2>7. ASSUME NEW t \in Proc, aesd_write_alloc(t) PROVE Abstract!Next \/ UNCHANGED Abstract!vars
    <3>1. CASE Abstract!Fail(t)
      BY <3>1 DEF Abstract!Next
    <3>2. CASE UNCHANGED <<Log, Partial, module, f_pos, call, ret>>
      <4>1. pc[t] = "write" /\ \E l \in {"unlock", "copy"} : Goto(t, l)
        BY <2>7 DEF aesd_write_alloc, Finish
      <4>2. {u \in Proc : pc[u] # "closed"}' = {u \in Proc : pc[u] # "closed"}
        BY <2>4, <4>1
      <4> QED
        BY <3>2, <4>2 DEF Abstract!vars
    <3> QED
      BY <2>7, <3>1, <3>2, AllocMaps
  <2>8. ASSUME NEW t \in Proc, aesd_write_oops(t) PROVE UNCHANGED Abstract!vars
    <3>1. /\ UNCHANGED <<module, circular_buffer, mem, call, f_pos, ret>>
          /\ pc[t] = "copy" /\ Goto(t, "oops") /\ bufferptr[t] = ZERO_SIZE_PTR
          /\ staging_entry'.buffptr = ZERO_SIZE_PTR
      BY <2>8 DEF aesd_write_oops, heap
    <3>2. staging_entry.buffptr = NULL
      BY <3>1, PtrAssumption DEF DeviceInv, HeapInv, CopyStarted
    <3>3. Partial' = Partial
      BY <3>1, <3>2, NullAssumption, PtrAssumption DEF Partial
    <3>4. Log' = Log
      BY <3>1 DEF Log
    <3>5. {u \in Proc : pc[u] # "closed"}' = {u \in Proc : pc[u] # "closed"}
      BY <2>4, <3>1
    <3> QED
      BY <3>1, <3>3, <3>4, <3>5 DEF Abstract!vars
  <2>9. CASE UNCHANGED vars
    <3>1. Log' = Log /\ Partial' = Partial
      BY <2>9, SameLog DEF vars, heap
    <3> QED
      BY <2>9, <3>1 DEF vars, Abstract!vars
  <2> QED
    BY <2>1, <2>2, <2>3, <2>5, <2>6, <2>7, <2>8, <2>9 DEF Next, Body
<1> QED
  BY <1>1, InitMaps, FullInvariance, PTL DEF Spec, ImplementsCharDevice, Abstract!Spec

=============================================================================
