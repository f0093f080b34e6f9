--------------------------- MODULE CircularBufferUse ---------------------------
(***************************************************************************)
(* A caller that owns one circular buffer and adds entries to it for ever. *)
(* Every buffer the code can build is a reachable state here, so the       *)
(* search operations are checked on all of them.                           *)
(***************************************************************************)
EXTENDS CircularBuffer, Sequences, FiniteSetsExt

CONSTANT Entries   \* the entries the caller may add

ASSUME EntriesAssumption ==
  Entries \subseteq [buffptr : Ptr, size : Nat \ {0}]

VARIABLE buffer

Init == buffer = aesd_circular_buffer_init

Add(e) == buffer' = aesd_circular_buffer_add_entry(buffer, e)

Next == \E e \in Entries : Add(e)

Spec == Init /\ [][Next]_buffer

-----------------------------------------------------------------------------

(* The fields stay within their C types and every used slot holds an entry *)
(* the caller added (struct aesd_circular_buffer).                         *)
TypeOK == buffer \in Buffer

(* The shape that add_entry maintains: until the buffer is full the slots  *)
(* fill up from slot 0 and the others are still zero; once it is full the  *)
(* oldest entry is at in_offs, which is what find_entry relies on to know  *)
(* where to stop and add_entry to know which pointer to hand back.         *)
RingShape == Filling(buffer) \/ Wrapped(buffer)

\* Reference: the sum of the sizes of the first n entries held.
BytesBefore(n) == MapThenSumSet(LAMBDA i : Contents(buffer)[i].size, 1 .. n)

(* buffer->size, updated incrementally by add_entry, is the number of      *)
(* bytes stored: aesd_llseek uses it as the end of the device.             *)
SizeIsExact == buffer.size = BytesBefore(buffer.num_entries)

(* find_entry_offset_for_fpos finds position p exactly when p is one of    *)
(* the stored bytes, and then in the entry and at the offset where p falls *)
(* in the concatenation of all entries; it never reports a slot otherwise. *)
FindEntryCorrect ==
  \A p \in 0 .. buffer.size + 1 :
    LET hit == aesd_circular_buffer_find_entry_offset_for_fpos(buffer, p)
        Holds(i) == BytesBefore(i - 1) <= p /\ p < BytesBefore(i)
    IN  IF \E i \in 1 .. buffer.num_entries : Holds(i)
        THEN LET i == CHOOSE j \in 1 .. buffer.num_entries : Holds(j)
             IN  /\ hit.slot = (buffer.out_offs + i - 1) % MAX_OPS
                 /\ hit.offset = p - BytesBefore(i - 1)
        ELSE hit = NotFound

(* Seeking and reading agree: the position get_entry_fpos computes for     *)
(* (command, offset) is one find_entry resolves to the same command and    *)
(* offset, and it fails exactly when there is no such byte.                *)
SeekAndFindAgree ==
  \A index \in 0 .. MAX_OPS, offset \in 0 .. buffer.size :
    LET fpos == aesd_circular_buffer_get_entry_fpos(buffer, index, offset)
    IN  IF /\ index < buffer.num_entries
           /\ offset < Contents(buffer)[index + 1].size
        THEN aesd_circular_buffer_find_entry_offset_for_fpos(buffer, fpos)
               = [slot |-> (buffer.out_offs + index) % MAX_OPS,
                  offset |-> offset]
        ELSE fpos = -1

Log == INSTANCE BoundedLog WITH Capacity <- MAX_OPS, log <- Contents(buffer)

(* The buffer implements a log of the MAX_OPS most recent entries: adding  *)
(* to a full buffer drops the oldest entry and only that one.              *)
ImplementsBoundedLog == Log!Spec

=============================================================================
