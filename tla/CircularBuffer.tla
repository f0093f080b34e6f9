---------------------------- MODULE CircularBuffer ----------------------------
(***************************************************************************)
(* The circular buffer of the AESD char driver                             *)
(* (aesd-char-driver/aesd-circular-buffer.c and .h) as operators on a      *)
(* record with the fields of struct aesd_circular_buffer.  The caller owns *)
(* the memory behind buffptr and does all locking, so nothing here has     *)
(* state of its own: an operation maps a buffer to its successor.          *)
(***************************************************************************)
EXTENDS Integers

CONSTANTS
  MAX_OPS,  \* AESDCHAR_MAX_WRITE_OPERATIONS_SUPPORTED
  Ptr,      \* the addresses the allocator may return
  NULL      \* the null pointer

\* The offsets and the number of entries are uint8_t.
ASSUME MaxOpsAssumption == MAX_OPS \in 1..255
ASSUME NullAssumption == NULL \notin Ptr

Slots == 0 .. MAX_OPS - 1

\* struct aesd_buffer_entry
Entry == [buffptr : Ptr \cup {NULL}, size : Nat]
ZeroEntry == [buffptr |-> NULL, size |-> 0]

\* struct aesd_circular_buffer.  The size_t field size is an integer here, so
\* that taking more away than was added would show as a negative number.
Buffer == [entry : [Slots -> Entry], in_offs : Slots, out_offs : Slots,
           num_entries : 0 .. MAX_OPS, size : Int]

-----------------------------------------------------------------------------
(* Mutated forms of the definitions below (see PROJECT.json, "mutants").   *)

FullOneEarly(b) == b.num_entries = MAX_OPS - 1
AdvanceByTwo(i) == (i + 2) % MAX_OPS
AdvanceUnwrapped(i) == i + 1
SizeKeepsReplaced(b, e) == b.size + e.size
EntryEndsLate(b, off, skipped, slot) == off <= skipped + b.entry[slot].size
OffsetPastEnd(b, index, offset) ==
  b.entry[(b.out_offs + index) % MAX_OPS].size < offset

-----------------------------------------------------------------------------

aesd_circular_buffer_init ==
  [entry |-> [i \in Slots |-> ZeroEntry],
   in_offs |-> 0, out_offs |-> 0, num_entries |-> 0, size |-> 0]

aesd_circular_buffer_empty(b) == b.num_entries = 0
aesd_circular_buffer_full(b) == b.num_entries = MAX_OPS
aesd_circular_buffer_size(b) == b.size

\* The slot that follows slot i.
Advance(i) == (i + 1) % MAX_OPS

\* buffer->size once e has taken the slot at in_offs.
SizeAfterAdd(b, e) ==
  b.size + e.size
    - (IF aesd_circular_buffer_full(b) THEN b.entry[b.in_offs].size ELSE 0)

\* The pointer add_entry returns: the caller must free it.
replaced_entry(b) ==
  IF aesd_circular_buffer_full(b) THEN b.entry[b.in_offs].buffptr ELSE NULL

\* The buffer add_entry leaves behind.
aesd_circular_buffer_add_entry(b, e) ==
  [entry       |-> [b.entry EXCEPT ![b.in_offs] = e],
   in_offs     |-> Advance(b.in_offs),
   out_offs    |-> IF aesd_circular_buffer_full(b)
                   THEN Advance(b.out_offs) ELSE b.out_offs,
   num_entries |-> IF aesd_circular_buffer_full(b)
                   THEN b.num_entries ELSE b.num_entries + 1,
   size        |-> SizeAfterAdd(b, e)]

-----------------------------------------------------------------------------
(* Searching.  NotFound stands for the NULL that the search returns and    *)
(* for the -1 of get_entry_fpos.                                           *)

NotFound == [slot |-> -1, offset |-> -1]

\* The test of the search loop, current_size bytes having been skipped.
EntryHolds(b, off, skipped, slot) == off < skipped + b.entry[slot].size

\* Bytes in the k oldest slots, counted from out_offs.
SizeOfOldest(b, n) ==
  LET sum[k \in 0 .. MAX_OPS] ==
        IF k = 0 THEN 0
        ELSE sum[k - 1] + b.entry[(b.out_offs + k - 1) % MAX_OPS].size
  IN  sum[n]

\* Iteration k of the do-while loop looks at the k-th slot after out_offs and
\* ends the loop if the position is there or the next slot is in_offs.
SearchStops(b, char_offset, k) ==
  LET slot == (b.out_offs + k) % MAX_OPS
  IN  EntryHolds(b, char_offset, SizeOfOldest(b, k), slot) \/ Advance(slot) = b.in_offs

aesd_circular_buffer_find_entry_offset_for_fpos(b, char_offset) ==
  LET last == CHOOSE k \in Slots : /\ SearchStops(b, char_offset, k)
                                   /\ \A j \in 0 .. k - 1 : ~SearchStops(b, char_offset, j)
      slot == (b.out_offs + last) % MAX_OPS
      current_size == SizeOfOldest(b, last)
  IN  IF aesd_circular_buffer_empty(b) \/ ~EntryHolds(b, char_offset, current_size, slot)
      THEN NotFound
      ELSE [slot |-> slot, offset |-> char_offset - current_size]

\* The range check of get_entry_fpos on the offset within an entry.
OffsetOutOfEntry(b, index, offset) ==
  b.entry[(b.out_offs + index) % MAX_OPS].size <= offset

\* The int result cannot overflow: kmalloc bounds an entry to a few megabytes.
aesd_circular_buffer_get_entry_fpos(b, index, offset) ==
  IF b.num_entries <= index \/ OffsetOutOfEntry(b, index, offset)
  THEN -1
  ELSE SizeOfOldest(b, index) + offset

-----------------------------------------------------------------------------

\* The two shapes of a buffer: not yet full since it was initialised, and full.
Filling(b) ==
  /\ b.num_entries < MAX_OPS
  /\ b.out_offs = 0
  /\ b.in_offs = b.num_entries
  /\ \A i \in Slots : i >= b.num_entries => b.entry[i] = ZeroEntry

Wrapped(b) == b.num_entries = MAX_OPS /\ b.in_offs = b.out_offs

\* The entries held, oldest first: what a caller sees of the buffer.
Contents(b) ==
  [i \in 1 .. b.num_entries |-> b.entry[(b.out_offs + i - 1) % MAX_OPS]]

=============================================================================
