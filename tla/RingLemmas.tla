------------------------------ MODULE RingLemmas ------------------------------
(***************************************************************************)
(* Facts about the operators of CircularBuffer, for every capacity: how    *)
(* the offsets wrap and what add_entry does to the ring and its contents.  *)
(***************************************************************************)
EXTENDS CircularBuffer, SequenceLemmas

(* Stepping from one slot to the next wraps at the end of the array:       *)
(* (i + 1) % AESDCHAR_MAX_WRITE_OPERATIONS_SUPPORTED in add_entry.         *)
LEMMA AdvanceWraps ==
  ASSUME NEW i \in Slots
  PROVE  Advance(i) = IF i = MAX_OPS - 1 THEN 0 ELSE i + 1
BY MaxOpsAssumption DEF Advance, Slots

(* The slot k places after slot i, for k up to the capacity.               *)
LEMMA SlotAfter ==
  ASSUME NEW i \in Slots, NEW k \in 0 .. MAX_OPS
  PROVE  (i + k) % MAX_OPS = IF i + k < MAX_OPS THEN i + k ELSE i + k - MAX_OPS
BY MaxOpsAssumption DEF Slots

(* Counting from the slot that follows slot o is counting from o, one      *)
(* further on; the count returns to o only after the whole array.          *)
LEMMA SlotAfterNext ==
  ASSUME NEW o \in Slots, NEW i \in 1 .. MAX_OPS
  PROVE  /\ (Advance(o) + i - 1) % MAX_OPS = (o + i) % MAX_OPS
         /\ (o + i) % MAX_OPS \in Slots
         /\ (o + i) % MAX_OPS = o <=> i = MAX_OPS
<1>1. i - 1 \in 0 .. MAX_OPS /\ i \in 0 .. MAX_OPS /\ o \in Int /\ i \in Int
  BY MaxOpsAssumption DEF Slots
<1>2. Advance(o) \in Slots
  BY AdvanceWraps, MaxOpsAssumption DEF Slots
<1>3. PICK m \in Slots : m = (o + i) % MAX_OPS /\ m = IF o + i < MAX_OPS THEN o + i ELSE o + i - MAX_OPS
  <2>1. (IF o + i < MAX_OPS THEN o + i ELSE o + i - MAX_OPS) \in Slots
    BY <1>1, MaxOpsAssumption DEF Slots
  <2>2. QED
    BY <1>1, <2>1, SlotAfter
<1>4. m = o <=> i = MAX_OPS
  BY <1>1, <1>3, MaxOpsAssumption DEF Slots
<1>5. Advance(o) + i - 1 = Advance(o) + (i - 1)
  BY <1>1, <1>2 DEF Slots
<1>6. (Advance(o) + (i - 1)) % MAX_OPS
        = IF Advance(o) + (i - 1) < MAX_OPS
          THEN Advance(o) + (i - 1) ELSE Advance(o) + (i - 1) - MAX_OPS
  BY <1>1, <1>2, SlotAfter
<1>7. (IF Advance(o) + (i - 1) < MAX_OPS
       THEN Advance(o) + (i - 1) ELSE Advance(o) + (i - 1) - MAX_OPS) = m
  <2> DEFINE n == Advance(o)
  <2>1. n \in Int /\ n = IF o = MAX_OPS - 1 THEN 0 ELSE o + 1
    BY AdvanceWraps, MaxOpsAssumption DEF Slots
  <2> HIDE DEF n
  <2>2. (IF n + (i - 1) < MAX_OPS THEN n + (i - 1) ELSE n + (i - 1) - MAX_OPS)
          = IF o + i < MAX_OPS THEN o + i ELSE o + i - MAX_OPS
    BY <1>1, <2>1, MaxOpsAssumption DEF Slots
  <2>3. QED
    BY <1>3, <2>2 DEF n
<1>8. QED
  BY <1>3, <1>4, <1>5, <1>6, <1>7

-----------------------------------------------------------------------------

(* add_entry keeps every field of struct aesd_circular_buffer in its range. *)
LEMMA AddTyped ==
  ASSUME NEW b \in Buffer, NEW e \in Entry
  PROVE  aesd_circular_buffer_add_entry(b, e) \in Buffer
<1>1. Advance(b.in_offs) \in Slots /\ Advance(b.out_offs) \in Slots
  BY AdvanceWraps, MaxOpsAssumption DEF Buffer, Slots
<1>2. [b.entry EXCEPT ![b.in_offs] = e] \in [Slots -> Entry]
  BY DEF Buffer
<1>3. SizeAfterAdd(b, e) \in Int
  BY DEF SizeAfterAdd, Buffer, Entry
<1>4. QED
  BY <1>1, <1>2, <1>3, MaxOpsAssumption
     DEF aesd_circular_buffer_add_entry, aesd_circular_buffer_full, Buffer

(* add_entry fills the slots in order and, once the buffer is full, keeps  *)
(* in_offs and out_offs together.                                          *)
LEMMA AddShape ==
  ASSUME NEW b \in Buffer, NEW e \in Entry, Filling(b) \/ Wrapped(b)
  PROVE  LET c == aesd_circular_buffer_add_entry(b, e)
         IN  Filling(c) \/ Wrapped(c)
<1> DEFINE c == aesd_circular_buffer_add_entry(b, e)
<1> b.in_offs \in Slots /\ b.out_offs \in Slots /\ b.num_entries \in 0 .. MAX_OPS
    /\ b.entry \in [Slots -> Entry]
  BY DEF Buffer
<1>1. CASE Filling(b)
  <2>1. /\ c.entry = [b.entry EXCEPT ![b.in_offs] = e]
        /\ c.out_offs = 0
        /\ c.num_entries = b.num_entries + 1
        /\ c.in_offs = IF b.num_entries = MAX_OPS - 1 THEN 0 ELSE b.num_entries + 1
    BY <1>1, AdvanceWraps, MaxOpsAssumption
       DEF aesd_circular_buffer_add_entry, aesd_circular_buffer_full, Filling
  <2>2. CASE b.num_entries = MAX_OPS - 1
    BY <2>1, <2>2, MaxOpsAssumption DEF Wrapped
  <2>3. CASE b.num_entries # MAX_OPS - 1
    <3>1. c.num_entries < MAX_OPS /\ c.in_offs = c.num_entries
      BY <1>1, <2>1, <2>3, MaxOpsAssumption DEF Filling
    <3>2. ASSUME NEW i \in Slots, i >= c.num_entries PROVE c.entry[i] = ZeroEntry
      BY <1>1, <2>1, <3>2, MaxOpsAssumption DEF Filling, Slots
    <3>3. QED
      BY <2>1, <3>1, <3>2 DEF Filling
  <2>4. QED
    BY <2>2, <2>3
<1>2. CASE Wrapped(b)
  BY <1>2, MaxOpsAssumption
     DEF aesd_circular_buffer_add_entry, aesd_circular_buffer_full, Wrapped
<1>3. QED
  BY <1>1, <1>2

-----------------------------------------------------------------------------

(* A function on 1 .. n is a sequence of length n. *)
LEMMA FunctionIsSeq ==
  ASSUME NEW S, NEW n \in Nat, NEW f \in [1 .. n -> S]
  PROVE  f \in Seq(S) /\ Len(f) = n
OBVIOUS

(* The entries held form a sequence, read from out_offs on. *)
LEMMA ContentsTyped ==
  ASSUME NEW b \in Buffer
  PROVE  /\ Contents(b) \in Seq(Entry)
         /\ Len(Contents(b)) = b.num_entries
         /\ \A i \in 1 .. b.num_entries :
              Contents(b)[i] = b.entry[(b.out_offs + i - 1) % MAX_OPS]
<1>0. b.out_offs \in Slots /\ b.num_entries \in 0 .. MAX_OPS /\ b.entry \in [Slots -> Entry]
  BY DEF Buffer
<1>1. ASSUME NEW i \in 1 .. b.num_entries
      PROVE  b.entry[(b.out_offs + i - 1) % MAX_OPS] \in Entry
  <2>1. b.out_offs + i - 1 \in Int
    BY <1>0, MaxOpsAssumption DEF Slots
  <2>2. (b.out_offs + i - 1) % MAX_OPS \in Slots
    BY <2>1, MaxOpsAssumption DEF Slots
  <2> QED
    BY <1>0, <2>2
<1>2. PICK s : s = Contents(b)
  OBVIOUS
<1>3. s = [i \in 1 .. b.num_entries |-> b.entry[(b.out_offs + i - 1) % MAX_OPS]]
  BY <1>2 DEF Contents
<1>4. b.num_entries \in Nat /\ s \in [1 .. b.num_entries -> Entry]
  BY <1>0, <1>1, <1>3, MaxOpsAssumption
<1> QED
  BY <1>2, <1>3, <1>4, FunctionIsSeq

(* add_entry, seen through Contents, is the append of a bounded log: it    *)
(* keeps the order of the entries and drops the oldest when it is full.    *)
LEMMA AddIsAppend ==
  ASSUME NEW b \in Buffer, NEW e \in Entry, Filling(b) \/ Wrapped(b)
  PROVE  Contents(aesd_circular_buffer_add_entry(b, e))
           = IF Len(Contents(b)) = MAX_OPS
             THEN Append(Tail(Contents(b)), e) ELSE Append(Contents(b), e)
<1> DEFINE c == aesd_circular_buffer_add_entry(b, e)
           s == Contents(b)
           t == Contents(c)
<1> b.in_offs \in Slots /\ b.out_offs \in Slots /\ b.num_entries \in 0 .. MAX_OPS
    /\ b.entry \in [Slots -> Entry]
  BY DEF Buffer
<1>s. /\ s \in Seq(Entry)
      /\ Len(s) = b.num_entries
      /\ \A i \in 1 .. b.num_entries : s[i] = b.entry[(b.out_offs + i - 1) % MAX_OPS]
  BY ContentsTyped
<1>1. CASE Filling(b)
  <2>1. /\ c.entry = [b.entry EXCEPT ![b.in_offs] = e]
        /\ c.out_offs = 0
        /\ c.num_entries = b.num_entries + 1
    BY <1>1, MaxOpsAssumption
       DEF aesd_circular_buffer_add_entry, aesd_circular_buffer_full, Filling
  <2>2. \A i \in 1 .. b.num_entries + 1 : (i - 1) % MAX_OPS = i - 1
    BY <1>1, MaxOpsAssumption DEF Filling
  <2>3. t = [i \in 1 .. b.num_entries + 1 |-> c.entry[i - 1]]
    BY <2>1, <2>2, MaxOpsAssumption DEF Contents
  <2>4. s = [i \in 1 .. b.num_entries |-> b.entry[i - 1]]
    BY <1>1, <2>2, MaxOpsAssumption DEF Contents, Filling
  <2>5. t = Append(s, e)
    <3>1. \A i \in 1 .. b.num_entries : c.entry[i - 1] = b.entry[i - 1]
      BY <1>1, <2>1, MaxOpsAssumption DEF Filling, Slots
    <3>2. c.entry[b.num_entries] = e
      BY <1>1, <2>1 DEF Filling
    <3>3. QED
      BY <1>s, <2>3, <2>4, <3>1, <3>2, MaxOpsAssumption
  <2>6. QED
    BY <1>1, <1>s, <2>5, MaxOpsAssumption DEF Filling
<1>2. CASE Wrapped(b)
  <2>1. /\ c.entry = [b.entry EXCEPT ![b.out_offs] = e]
        /\ c.out_offs = Advance(b.out_offs)
        /\ c.num_entries = MAX_OPS
    BY <1>2 DEF aesd_circular_buffer_add_entry, aesd_circular_buffer_full, Wrapped
  <2>j. ASSUME NEW i \in 1 .. MAX_OPS
        PROVE  /\ (c.out_offs + i - 1) % MAX_OPS = (b.out_offs + i) % MAX_OPS
               /\ (b.out_offs + i) % MAX_OPS \in Slots
               /\ (b.out_offs + i) % MAX_OPS = b.out_offs <=> i = MAX_OPS
    BY <2>1, SlotAfterNext
  <2>2. /\ t \in Seq(Entry) /\ Len(t) = MAX_OPS
        /\ \A i \in 1 .. MAX_OPS : t[i] = c.entry[(b.out_offs + i) % MAX_OPS]
    <3>1. c.entry \in [Slots -> Entry]
      BY AddTyped DEF Buffer
    <3>2. t = [i \in 1 .. MAX_OPS |-> c.entry[(c.out_offs + i - 1) % MAX_OPS]]
      BY <2>1 DEF Contents
    <3>3. t = [i \in 1 .. MAX_OPS |-> c.entry[(b.out_offs + i) % MAX_OPS]]
      BY <2>j, <3>2
    <3>4. \A i \in 1 .. MAX_OPS : c.entry[(b.out_offs + i) % MAX_OPS] \in Entry
      BY <2>j, <3>1
    <3>5. QED
      BY <3>3, <3>4, MaxOpsAssumption
  <2>3. \A i \in 1 .. MAX_OPS - 1 : t[i] = s[i + 1]
    <3> SUFFICES ASSUME NEW i \in 1 .. MAX_OPS - 1 PROVE t[i] = s[i + 1]
      OBVIOUS
    <3> i \in 1 .. MAX_OPS /\ i + 1 \in 1 .. MAX_OPS
      BY MaxOpsAssumption
    <3>1. (b.out_offs + i) % MAX_OPS \in Slots /\ (b.out_offs + i) % MAX_OPS # b.out_offs
      BY <2>j, MaxOpsAssumption
    <3>2. t[i] = b.entry[(b.out_offs + i) % MAX_OPS]
      BY <2>1, <2>2, <3>1
    <3>3. s[i + 1] = b.entry[(b.out_offs + (i + 1) - 1) % MAX_OPS]
      BY <1>2, <1>s DEF Wrapped
    <3>4. b.out_offs + (i + 1) - 1 = b.out_offs + i
      BY MaxOpsAssumption DEF Slots
    <3>5. QED
      BY <3>2, <3>3, <3>4
  <2>4. t[MAX_OPS] = e
    <3>1. MAX_OPS \in 1 .. MAX_OPS
      BY MaxOpsAssumption
    <3>2. (b.out_offs + MAX_OPS) % MAX_OPS = b.out_offs
      BY <2>j, <3>1
    <3>3. QED
      BY <2>1, <2>2, <3>1, <3>2
  <2>5. t = Append(Tail(s), e)
    <3>1. Len(s) = MAX_OPS /\ s # << >>
      BY <1>2, <1>s, MaxOpsAssumption DEF Wrapped
    <3>2. /\ Tail(s) \in Seq(Entry) /\ Len(Tail(s)) = MAX_OPS - 1
          /\ \A i \in 1 .. MAX_OPS - 1 : Tail(s)[i] = s[i + 1]
      BY <1>s, <3>1, HeadTailProperties
    <3>3. /\ Append(Tail(s), e) \in Seq(Entry)
          /\ Len(Append(Tail(s), e)) = MAX_OPS
          /\ \A i \in 1 .. MAX_OPS - 1 : Append(Tail(s), e)[i] = s[i + 1]
          /\ Append(Tail(s), e)[MAX_OPS] = e
      BY <3>2, AppendProperties, MaxOpsAssumption
    <3>4. \A i \in 1 .. Len(t) : t[i] = Append(Tail(s), e)[i]
      BY <2>2, <2>3, <2>4, <3>3, MaxOpsAssumption
    <3>5. QED
      BY <2>2, <3>3, <3>4, SeqEqual
  <2>6. QED
    BY <1>2, <1>s, <2>5 DEF Wrapped
<1>3. QED
  BY <1>1, <1>2

-----------------------------------------------------------------------------
(* The sums that the search keeps in current_size.                         *)

\* The size of the k-th oldest entry.
SizeAt(b, k) == b.entry[(b.out_offs + k - 1) % MAX_OPS].size

\* f is the recursive function with which SizeOfOldest is defined.
IsSum(f, b) ==
  f = [k \in 0 .. MAX_OPS |-> IF k = 0 THEN 0 ELSE f[k - 1] + SizeAt(b, k)]

LEMMA SizeIsChosen ==
  ASSUME NEW b, NEW n
  PROVE  SizeOfOldest(b, n) = (CHOOSE f : IsSum(f, b))[n]
BY Zenon DEF SizeOfOldest, IsSum, SizeAt

LEMMA SizeAtIsNat ==
  ASSUME NEW b \in Buffer, NEW k \in 1 .. MAX_OPS
  PROVE  SizeAt(b, k) \in Nat
<1>1. b.out_offs + k - 1 \in Int /\ b.entry \in [Slots -> Entry]
  BY MaxOpsAssumption DEF Buffer, Slots
<1>2. (b.out_offs + k - 1) % MAX_OPS \in Slots
  BY <1>1, MaxOpsAssumption DEF Slots
<1> QED
  BY <1>1, <1>2 DEF SizeAt, Entry

(* That function exists.                                                   *)
LEMMA SumExists ==
  ASSUME NEW b \in Buffer
  PROVE  \E f : IsSum(f, b)
<1> DEFINE UpTo(n) == \E f \in [0 .. n -> Nat] :
                        \A k \in 0 .. n : f[k] = IF k = 0 THEN 0 ELSE f[k - 1] + SizeAt(b, k)
           P == {n \in Nat : n <= MAX_OPS => UpTo(n)}
<1>1. UpTo(0)
  <2>1. [k \in 0 .. 0 |-> 0] \in [0 .. 0 -> Nat] /\ \A k \in 0 .. 0 : k = 0
    OBVIOUS
  <2> QED
    BY <2>1
<1>2. ASSUME NEW n \in Nat, n + 1 <= MAX_OPS, UpTo(n) PROVE UpTo(n + 1)
  <2>1. PICK f \in [0 .. n -> Nat] :
          \A k \in 0 .. n : f[k] = IF k = 0 THEN 0 ELSE f[k - 1] + SizeAt(b, k)
    BY <1>2
  <2>2. n + 1 \in 1 .. MAX_OPS
    BY <1>2, MaxOpsAssumption
  <2>3. PICK z \in Nat : z = SizeAt(b, n + 1)
    BY <2>2, SizeAtIsNat
  <2> DEFINE g == [k \in 0 .. n + 1 |-> IF k <= n THEN f[k] ELSE f[n] + z]
  <2>4. f[n] \in Nat
    BY <2>1
  <2>5. /\ g \in [0 .. n + 1 -> Nat]
        /\ \A k \in 0 .. n : g[k] = f[k]
        /\ g[n + 1] = f[n] + z
    BY <2>4
  <2> HIDE DEF g
  <2>6. ASSUME NEW k \in 0 .. n + 1
        PROVE  g[k] = IF k = 0 THEN 0 ELSE g[k - 1] + SizeAt(b, k)
    <3>1. CASE k = n + 1
      <4>1. k # 0 /\ k - 1 = n /\ n \in 0 .. n
        BY <3>1
      <4> QED
        BY <2>3, <2>5, <3>1, <4>1
    <3>2. CASE k \in 0 .. n
      <4>1. k # 0 => k - 1 \in 0 .. n
        BY <3>2
      <4> QED
        BY <2>1, <2>5, <3>2, <4>1
    <3> QED
      BY <3>1, <3>2
  <2> QED
    BY <2>5, <2>6
<1> HIDE DEF UpTo
<1>3. 0 \in P
  BY <1>1
<1>4. ASSUME NEW n \in Nat, n \in P PROVE n + 1 \in P
  BY <1>2, <1>4, MaxOpsAssumption
<1>5. UpTo(MAX_OPS)
  <2> HIDE DEF P
  <2>1. \A n \in Nat : n \in P
    BY <1>3, <1>4, Induction
  <2> QED
    BY <2>1, MaxOpsAssumption DEF P
<1>6. PICK f \in [0 .. MAX_OPS -> Nat] :
        \A k \in 0 .. MAX_OPS : f[k] = IF k = 0 THEN 0 ELSE f[k - 1] + SizeAt(b, k)
  BY <1>5 DEF UpTo
<1> QED
  BY <1>6 DEF IsSum

(* What SizeOfOldest computes: current_size grows by one entry at a time.  *)
LEMMA SizeStep ==
  ASSUME NEW b \in Buffer
  PROVE  /\ SizeOfOldest(b, 0) = 0
         /\ \A k \in 1 .. MAX_OPS :
              SizeOfOldest(b, k) = SizeOfOldest(b, k - 1) + SizeAt(b, k)
<1>1. PICK f : f = CHOOSE g : IsSum(g, b)
  OBVIOUS
<1>2. IsSum(f, b)
  BY <1>1, SumExists, Zenon
<1>3. \A n : SizeOfOldest(b, n) = f[n]
  BY <1>1, SizeIsChosen, Zenon
<1>4. \A k \in 0 .. MAX_OPS : f[k] = IF k = 0 THEN 0 ELSE f[k - 1] + SizeAt(b, k)
  BY <1>2, Zenon DEF IsSum
<1>5. 0 \in 0 .. MAX_OPS /\ \A k \in 1 .. MAX_OPS : k \in 0 .. MAX_OPS /\ k # 0
  BY MaxOpsAssumption
<1> QED
  BY <1>3, <1>4, <1>5, Zenon

LEMMA SizeIsNat ==
  ASSUME NEW b \in Buffer
  PROVE  \A k \in 0 .. MAX_OPS : SizeOfOldest(b, k) \in Nat
<1> DEFINE P == {n \in Nat : n <= MAX_OPS => SizeOfOldest(b, n) \in Nat}
<1>1. 0 \in P
  BY SizeStep
<1>2. ASSUME NEW n \in Nat, n \in P PROVE n + 1 \in P
  <2> SUFFICES ASSUME n + 1 <= MAX_OPS PROVE SizeOfOldest(b, n + 1) \in Nat
    OBVIOUS
  <2>1. n + 1 \in 1 .. MAX_OPS /\ (n + 1) - 1 = n
    BY MaxOpsAssumption
  <2>2. SizeOfOldest(b, n + 1) = SizeOfOldest(b, n) + SizeAt(b, n + 1)
    BY <2>1, SizeStep
  <2>3. SizeOfOldest(b, n) \in Nat /\ SizeAt(b, n + 1) \in Nat
    BY <1>2, <2>1, SizeAtIsNat, MaxOpsAssumption
  <2> QED
    BY <2>2, <2>3
<1> HIDE DEF P
<1>3. \A n \in Nat : n \in P
  BY <1>1, <1>2, Induction
<1> QED
  BY <1>3, MaxOpsAssumption DEF P

(* More entries hold at least as many bytes.                               *)
LEMMA SizeMonotone ==
  ASSUME NEW b \in Buffer, NEW j \in 0 .. MAX_OPS
  PROVE  \A k \in j .. MAX_OPS : SizeOfOldest(b, j) <= SizeOfOldest(b, k)
<1> DEFINE P == {n \in Nat : n \in j .. MAX_OPS => SizeOfOldest(b, j) <= SizeOfOldest(b, n)}
<1>0. SizeOfOldest(b, j) \in Nat
  BY SizeIsNat
<1>1. 0 \in P
  BY <1>0
<1>2. ASSUME NEW n \in Nat, n \in P PROVE n + 1 \in P
  <2> SUFFICES ASSUME n + 1 \in j .. MAX_OPS
               PROVE  SizeOfOldest(b, j) <= SizeOfOldest(b, n + 1)
    OBVIOUS
  <2>1. CASE n + 1 = j
    BY <1>0, <2>1
  <2>2. CASE n + 1 # j
    <3>1. n \in j .. MAX_OPS /\ n + 1 \in 1 .. MAX_OPS /\ (n + 1) - 1 = n /\ n \in 0 .. MAX_OPS
      BY <2>2, MaxOpsAssumption
    <3>2. SizeOfOldest(b, n + 1) = SizeOfOldest(b, n) + SizeAt(b, n + 1)
      BY <3>1, SizeStep
    <3>3. SizeOfOldest(b, n) \in Nat /\ SizeAt(b, n + 1) \in Nat
      BY <3>1, SizeIsNat, SizeAtIsNat
    <3> QED
      BY <1>0, <1>2, <3>1, <3>2, <3>3
  <2> QED
    BY <2>1, <2>2
<1> HIDE DEF P
<1>3. \A n \in Nat : n \in P
  BY <1>1, <1>2, Induction
<1>4. \A k \in j .. MAX_OPS : k \in Nat
  BY MaxOpsAssumption
<1> QED
  BY <1>3, <1>4 DEF P

(* Every stored byte belongs to one of the entries.                        *)
LEMMA SizeCovers ==
  ASSUME NEW b \in Buffer, NEW n \in 0 .. MAX_OPS,
         NEW p \in Nat, p < SizeOfOldest(b, n)
  PROVE  \E k \in 0 .. n - 1 : SizeOfOldest(b, k) <= p /\ p < SizeOfOldest(b, k + 1)
<1> DEFINE T == {k \in 0 .. MAX_OPS : p < SizeOfOldest(b, k)}
<1>1. n \in T /\ T \subseteq Nat
  BY MaxOpsAssumption
<1>2. PICK m \in T : \A k \in T : m <= k
  BY <1>1, LeastNatural
<1>3. m \in 0 .. MAX_OPS /\ p < SizeOfOldest(b, m) /\ m <= n
  BY <1>1, <1>2
<1>4. m # 0
  BY <1>3, SizeStep
<1>5. m - 1 \in 0 .. MAX_OPS /\ m - 1 \notin T /\ (m - 1) + 1 = m /\ m - 1 \in 0 .. n - 1
  BY <1>2, <1>3, <1>4, MaxOpsAssumption
<1>6. SizeOfOldest(b, m - 1) \in Nat /\ ~(p < SizeOfOldest(b, m - 1))
  BY <1>5, SizeIsNat
<1> QED
  BY <1>3, <1>5, <1>6

(* The sums of two buffers agree when one holds the entries of the other,  *)
(* d of them left out at the old end.                                      *)
LEMMA SizeShift ==
  ASSUME NEW b \in Buffer, NEW c \in Buffer, NEW d \in Nat, NEW n \in Nat, n + d <= MAX_OPS,
         \A k \in 1 .. n : SizeAt(c, k) = SizeAt(b, k + d)
  PROVE  SizeOfOldest(c, n) = SizeOfOldest(b, n + d) - SizeOfOldest(b, d)
<1> DEFINE P == {k \in Nat : k <= n => SizeOfOldest(c, k)
                                         = SizeOfOldest(b, k + d) - SizeOfOldest(b, d)}
<1>0. d \in 0 .. MAX_OPS
  BY MaxOpsAssumption
<1>d. SizeOfOldest(b, d) \in Nat
  BY <1>0, SizeIsNat
<1>1. 0 \in P
  <2>1. SizeOfOldest(c, 0) = 0 /\ 0 + d = d
    BY SizeStep
  <2> QED
    BY <1>d, <2>1
<1>2. ASSUME NEW k \in Nat, k \in P PROVE k + 1 \in P
  <2> SUFFICES ASSUME k + 1 <= n
               PROVE  SizeOfOldest(c, k + 1) = SizeOfOldest(b, (k + 1) + d) - SizeOfOldest(b, d)
    OBVIOUS
  <2>1. /\ k + 1 \in 1 .. MAX_OPS /\ (k + 1) - 1 = k /\ k + 1 \in 1 .. n
        /\ (k + 1) + d \in 1 .. MAX_OPS /\ ((k + 1) + d) - 1 = k + d /\ k + d \in 0 .. MAX_OPS
    BY MaxOpsAssumption
  <2>2. SizeOfOldest(c, k + 1) = SizeOfOldest(c, k) + SizeAt(c, k + 1)
    BY <2>1, SizeStep
  <2>3. SizeOfOldest(b, (k + 1) + d) = SizeOfOldest(b, k + d) + SizeAt(b, (k + 1) + d)
    BY <2>1, SizeStep
  <2>4. SizeAt(c, k + 1) = SizeAt(b, (k + 1) + d) /\ SizeAt(c, k + 1) \in Nat
        /\ SizeOfOldest(b, k + d) \in Nat
    BY <2>1, SizeIsNat, SizeAtIsNat
  <2>5. SizeOfOldest(c, k) = SizeOfOldest(b, k + d) - SizeOfOldest(b, d)
    BY <1>2
  <2> QED
    BY <1>d, <2>2, <2>3, <2>4, <2>5
<1> HIDE DEF P
<1>3. \A k \in Nat : k \in P
  BY <1>1, <1>2, Induction
<1> QED
  BY <1>3 DEF P

(* An entry of Contents has the size that the search adds.                 *)
LEMMA SizeOfContents ==
  ASSUME NEW b \in Buffer
  PROVE  \A k \in 1 .. b.num_entries : Contents(b)[k].size = SizeAt(b, k)
BY DEF Contents, SizeAt

(* The bytes stored once e has been added: add_entry updates buffer->size  *)
(* to be their number if it was before.                                    *)
LEMMA AddSize ==
  ASSUME NEW b \in Buffer, NEW e \in Entry, Filling(b) \/ Wrapped(b),
         b.size = SizeOfOldest(b, b.num_entries)
  PROVE  LET c == aesd_circular_buffer_add_entry(b, e)
         IN  c.size = SizeOfOldest(c, c.num_entries)
<1> DEFINE c == aesd_circular_buffer_add_entry(b, e)
<1>0. /\ c \in Buffer /\ c.size = SizeAfterAdd(b, e)
      /\ c.num_entries = IF aesd_circular_buffer_full(b)
                         THEN b.num_entries ELSE b.num_entries + 1
  BY AddTyped DEF aesd_circular_buffer_add_entry
<1>1. PICK n \in 0 .. MAX_OPS : n = b.num_entries
  BY DEF Buffer
<1>2. PICK s : s = Contents(b)
  OBVIOUS
<1>3. s \in Seq(Entry) /\ Len(s) = n /\ \A k \in 1 .. n : s[k].size = SizeAt(b, k)
  BY <1>1, <1>2, ContentsTyped, SizeOfContents
<1>4. Contents(c) = IF n = MAX_OPS THEN Append(Tail(s), e) ELSE Append(s, e)
  BY <1>2, <1>3, AddIsAppend
<1>5. \A k \in 1 .. c.num_entries : Contents(c)[k].size = SizeAt(c, k)
  BY <1>0, SizeOfContents
<1>e. e.size \in Nat
  BY DEF Entry
<1> HIDE DEF c
<1>6. CASE n = MAX_OPS
  <2>1. c.num_entries = MAX_OPS /\ c.size = b.size + e.size - SizeAt(b, 1)
    <3>1. b.in_offs = b.out_offs /\ b.out_offs \in Slots
      BY <1>1, <1>6 DEF Filling, Wrapped, Buffer
    <3>2. (b.out_offs + 1 - 1) % MAX_OPS = b.out_offs
      <4>1. b.out_offs + 1 - 1 = b.out_offs + 0 /\ 0 \in 0 .. MAX_OPS
            /\ b.out_offs + 0 < MAX_OPS /\ b.out_offs + 0 = b.out_offs
        BY <3>1, MaxOpsAssumption DEF Slots
      <4> QED
        BY <3>1, <4>1, SlotAfter
    <3> QED
      BY <1>0, <1>1, <1>6, <3>1, <3>2 DEF SizeAfterAdd, aesd_circular_buffer_full, SizeAt
  <2>2. s # << >> /\ Tail(s) \in Seq(Entry) /\ Len(Tail(s)) = MAX_OPS - 1
        /\ \A k \in 1 .. MAX_OPS - 1 : Tail(s)[k] = s[k + 1]
    <3>1. s # << >>
      BY <1>3, <1>6, MaxOpsAssumption
    <3> QED
      BY <1>3, <1>6, <3>1, HeadTailProperties
  <2>3. /\ \A k \in 1 .. MAX_OPS - 1 : Contents(c)[k] = s[k + 1]
        /\ Contents(c)[MAX_OPS] = e
    BY <1>4, <1>6, <2>2, AppendProperties, MaxOpsAssumption
  <2>4. ASSUME NEW k \in 1 .. MAX_OPS - 1 PROVE SizeAt(c, k) = SizeAt(b, k + 1)
    <3>1. k \in 1 .. c.num_entries /\ k + 1 \in 1 .. n
      BY <1>6, <2>1, MaxOpsAssumption
    <3> QED
      BY <1>3, <1>5, <2>3, <3>1
  <2>5. SizeAt(c, MAX_OPS) = e.size
    <3>1. MAX_OPS \in 1 .. c.num_entries
      BY <2>1, MaxOpsAssumption
    <3> QED
      BY <1>5, <2>3, <3>1
  <2>6. PICK m \in Nat : m = MAX_OPS - 1 /\ m + 1 = MAX_OPS
    BY MaxOpsAssumption
  <2>7. SizeOfOldest(c, m) = SizeOfOldest(b, m + 1) - SizeOfOldest(b, 1)
    <3>1. m + 1 <= MAX_OPS /\ \A k \in 1 .. m : SizeAt(c, k) = SizeAt(b, k + 1)
      BY <2>4, <2>6, MaxOpsAssumption
    <3> QED
      BY <1>0, <3>1, SizeShift
  <2>8. SizeOfOldest(c, MAX_OPS) = SizeOfOldest(c, MAX_OPS - 1) + SizeAt(c, MAX_OPS)
    BY <1>0, SizeStep, MaxOpsAssumption
  <2>9. SizeOfOldest(b, 1) = SizeAt(b, 1) /\ SizeAt(b, 1) \in Nat
        /\ SizeOfOldest(b, MAX_OPS) \in Nat
    <3>1. 1 \in 1 .. MAX_OPS /\ 1 - 1 = 0 /\ MAX_OPS \in 0 .. MAX_OPS
      BY MaxOpsAssumption
    <3>2. SizeAt(b, 1) \in Nat /\ SizeOfOldest(b, MAX_OPS) \in Nat
      BY <3>1, SizeAtIsNat, SizeIsNat
    <3>3. SizeOfOldest(b, 1) = SizeOfOldest(b, 0) + SizeAt(b, 1) /\ SizeOfOldest(b, 0) = 0
      BY <3>1, SizeStep
    <3> QED
      BY <3>2, <3>3
  <2>10. c.size = SizeOfOldest(c, c.num_entries)
    <3>1. b.size = SizeOfOldest(b, MAX_OPS)
      BY <1>1, <1>6
    <3>2. SizeOfOldest(c, MAX_OPS) = (SizeOfOldest(b, MAX_OPS) - SizeAt(b, 1)) + e.size
      BY <2>5, <2>6, <2>7, <2>8, <2>9
    <3> QED
      BY <1>e, <2>1, <2>9, <3>1, <3>2
  <2> QED
    BY <2>10 DEF c
<1>7. CASE n # MAX_OPS
  <2>1. c.num_entries = n + 1 /\ c.size = b.size + e.size
    <3>1. b.size \in Int
      BY DEF Buffer
    <3> QED
      BY <1>0, <1>1, <1>7, <1>e, <3>1 DEF SizeAfterAdd, aesd_circular_buffer_full
  <2>2. \A k \in 1 .. n : Contents(c)[k] = s[k]
    BY <1>3, <1>4, <1>7, AppendProperties
  <2>3. Contents(c)[n + 1] = e
    BY <1>3, <1>4, <1>7, AppendProperties
  <2>4. ASSUME NEW k \in 1 .. n PROVE SizeAt(c, k) = SizeAt(b, k + 0)
    <3>1. k \in 1 .. c.num_entries /\ k + 0 = k
      BY <2>1
    <3> QED
      BY <1>3, <1>5, <2>2, <3>1
  <2>5. SizeAt(c, n + 1) = e.size
    <3>1. n + 1 \in 1 .. c.num_entries
      BY <2>1
    <3> QED
      BY <1>5, <2>3, <3>1
  <2>7. SizeOfOldest(c, n) = SizeOfOldest(b, n + 0) - SizeOfOldest(b, 0)
    <3>1. n \in Nat /\ n + 0 <= MAX_OPS /\ 0 \in Nat
      BY MaxOpsAssumption
    <3> QED
      BY <1>0, <2>4, <3>1, SizeShift
  <2>8. SizeOfOldest(c, n + 1) = SizeOfOldest(c, n) + SizeAt(c, n + 1)
    <3>1. n + 1 \in 1 .. MAX_OPS /\ (n + 1) - 1 = n
      BY <1>7, MaxOpsAssumption
    <3> QED
      BY <1>0, <3>1, SizeStep
  <2>9. SizeOfOldest(b, 0) = 0 /\ SizeOfOldest(b, n) \in Nat /\ n + 0 = n
    BY SizeStep, SizeIsNat
  <2>10. c.size = SizeOfOldest(c, c.num_entries)
    BY <1>1, <1>e, <2>1, <2>5, <2>7, <2>8, <2>9
  <2> QED
    BY <2>10 DEF c
<1> QED
  BY <1>6, <1>7

-----------------------------------------------------------------------------
(* The search.                                                             *)

(* The loop comes to in_offs after the last entry, and not before.         *)
LEMMA LastSlot ==
  ASSUME NEW b \in Buffer, Filling(b) \/ Wrapped(b), NEW k \in 0 .. b.num_entries - 1
  PROVE  /\ k \in Slots
         /\ Advance((b.out_offs + k) % MAX_OPS) = b.in_offs <=> k = b.num_entries - 1
<1>1. /\ b.out_offs \in Slots /\ b.in_offs \in Slots /\ b.num_entries \in 0 .. MAX_OPS
      /\ k \in 0 .. MAX_OPS /\ k \in Slots
  BY MaxOpsAssumption DEF Buffer, Slots
<1>2. PICK m \in Slots : /\ m = (b.out_offs + k) % MAX_OPS
                         /\ m = IF b.out_offs + k < MAX_OPS
                                THEN b.out_offs + k ELSE b.out_offs + k - MAX_OPS
  <2>1. (b.out_offs + k) % MAX_OPS = IF b.out_offs + k < MAX_OPS
                                     THEN b.out_offs + k ELSE b.out_offs + k - MAX_OPS
    BY <1>1, SlotAfter
  <2>2. (IF b.out_offs + k < MAX_OPS THEN b.out_offs + k ELSE b.out_offs + k - MAX_OPS) \in Slots
    BY <1>1, MaxOpsAssumption DEF Slots
  <2> QED
    BY <2>1, <2>2
<1>3. Advance(m) = IF m = MAX_OPS - 1 THEN 0 ELSE m + 1
  BY AdvanceWraps
<1>4. PICK o \in Slots, i \in Slots, n \in 0 .. MAX_OPS :
        o = b.out_offs /\ i = b.in_offs /\ n = b.num_entries
  BY <1>1
<1>5. \/ n < MAX_OPS /\ o = 0 /\ i = n
      \/ n = MAX_OPS /\ i = o
  BY <1>4 DEF Filling, Wrapped
<1>6. k \in 0 .. n - 1 /\ m = IF o + k < MAX_OPS THEN o + k ELSE o + k - MAX_OPS
  BY <1>2, <1>4
<1>7. (IF m = MAX_OPS - 1 THEN 0 ELSE m + 1) = i <=> k = n - 1
  BY <1>5, <1>6, MaxOpsAssumption DEF Slots
<1> QED
  BY <1>1, <1>2, <1>3, <1>4, <1>7

(* Where the loop stops: at an entry that holds the position, or at the    *)
(* last one.                                                               *)
LEMMA StopsAt ==
  ASSUME NEW b \in Buffer, Filling(b) \/ Wrapped(b), NEW k \in 0 .. b.num_entries - 1,
         NEW p \in Nat
  PROVE  /\ EntryHolds(b, p, SizeOfOldest(b, k), (b.out_offs + k) % MAX_OPS)
              <=> p < SizeOfOldest(b, k + 1)
         /\ SearchStops(b, p, k) <=> p < SizeOfOldest(b, k + 1) \/ k = b.num_entries - 1
<1>0. b.out_offs \in Slots /\ k + 1 \in 1 .. MAX_OPS /\ (k + 1) - 1 = k
      /\ b.out_offs + (k + 1) - 1 = b.out_offs + k
  BY MaxOpsAssumption DEF Buffer, Slots
<1>1. SizeOfOldest(b, k + 1) = SizeOfOldest(b, k) + b.entry[(b.out_offs + k) % MAX_OPS].size
  BY <1>0, SizeStep DEF SizeAt
<1>2. EntryHolds(b, p, SizeOfOldest(b, k), (b.out_offs + k) % MAX_OPS)
        <=> p < SizeOfOldest(b, k + 1)
  BY <1>1, Zenon DEF EntryHolds
<1>3. Advance((b.out_offs + k) % MAX_OPS) = b.in_offs <=> k = b.num_entries - 1
  BY LastSlot
<1> QED
  BY <1>2, <1>3, Zenon DEF SearchStops

\* What the search answers when it stops at iteration k.
FoundAt(b, p, k) ==
  IF aesd_circular_buffer_empty(b)
       \/ ~EntryHolds(b, p, SizeOfOldest(b, k), (b.out_offs + k) % MAX_OPS)
  THEN NotFound
  ELSE [slot |-> (b.out_offs + k) % MAX_OPS, offset |-> p - SizeOfOldest(b, k)]

StopsFirst(b, p, k) ==
  SearchStops(b, p, k) /\ \A j \in 0 .. k - 1 : ~SearchStops(b, p, j)

LEMMA SearchIsFound ==
  ASSUME NEW b, NEW p, NEW k \in Slots, StopsFirst(b, p, k)
  PROVE  aesd_circular_buffer_find_entry_offset_for_fpos(b, p) = FoundAt(b, p, k)
<1>1. PICK l : l = CHOOSE j \in Slots : StopsFirst(b, p, j)
  OBVIOUS
<1>2. aesd_circular_buffer_find_entry_offset_for_fpos(b, p) = FoundAt(b, p, l)
  BY <1>1, Zenon DEF aesd_circular_buffer_find_entry_offset_for_fpos, FoundAt, StopsFirst
<1>3. l \in Slots /\ StopsFirst(b, p, l)
  BY <1>1, Zenon
<1>4. k < l => k \in 0 .. l - 1
  BY <1>3, MaxOpsAssumption DEF Slots
<1>5. l < k => l \in 0 .. k - 1
  BY <1>3, MaxOpsAssumption DEF Slots
<1>6. ~(k < l) /\ ~(l < k)
  BY <1>3, <1>4, <1>5, Zenon DEF StopsFirst
<1>7. k = l
  BY <1>3, <1>6, MaxOpsAssumption DEF Slots
<1> QED
  BY <1>2, <1>7

(* The search finds a stored position in the entry that holds it.          *)
LEMMA FindHit ==
  ASSUME NEW b \in Buffer, Filling(b) \/ Wrapped(b), NEW k \in 0 .. b.num_entries - 1,
         NEW p \in Nat, SizeOfOldest(b, k) <= p, p < SizeOfOldest(b, k + 1)
  PROVE  aesd_circular_buffer_find_entry_offset_for_fpos(b, p)
           = [slot |-> (b.out_offs + k) % MAX_OPS, offset |-> p - SizeOfOldest(b, k)]
<1>0. b.num_entries \in 0 .. MAX_OPS /\ b.num_entries # 0 /\ k \in Slots
      /\ k \in 0 .. MAX_OPS
  BY LastSlot, MaxOpsAssumption DEF Buffer
<1>1. SearchStops(b, p, k)
      /\ EntryHolds(b, p, SizeOfOldest(b, k), (b.out_offs + k) % MAX_OPS)
  BY StopsAt
<1>2. ASSUME NEW j \in 0 .. k - 1 PROVE ~SearchStops(b, p, j)
  <2>1. j \in 0 .. b.num_entries - 1 /\ j # b.num_entries - 1 /\ j + 1 \in 0 .. MAX_OPS
        /\ k \in (j + 1) .. MAX_OPS
    BY <1>0, MaxOpsAssumption
  <2>2. SizeOfOldest(b, j + 1) <= SizeOfOldest(b, k)
    BY <2>1, SizeMonotone
  <2>3. SizeOfOldest(b, j + 1) \in Nat /\ SizeOfOldest(b, k) \in Nat
    BY <1>0, <2>1, SizeIsNat
  <2>4. ~(p < SizeOfOldest(b, j + 1))
    BY <2>2, <2>3
  <2> QED
    BY <2>1, <2>4, StopsAt
<1>3. StopsFirst(b, p, k)
  BY <1>1, <1>2 DEF StopsFirst
<1>4. aesd_circular_buffer_find_entry_offset_for_fpos(b, p) = FoundAt(b, p, k)
  BY <1>0, <1>3, SearchIsFound
<1> QED
  BY <1>0, <1>1, <1>4, Zenon DEF FoundAt, aesd_circular_buffer_empty

(* Past the stored bytes the search returns NULL.                          *)
LEMMA FindMiss ==
  ASSUME NEW b \in Buffer, Filling(b) \/ Wrapped(b),
         NEW p \in Nat, SizeOfOldest(b, b.num_entries) <= p
  PROVE  aesd_circular_buffer_find_entry_offset_for_fpos(b, p) = NotFound
<1>0. b.num_entries \in 0 .. MAX_OPS
  BY DEF Buffer
<1>1. CASE b.num_entries = 0
  BY <1>1 DEF aesd_circular_buffer_find_entry_offset_for_fpos, aesd_circular_buffer_empty
<1>2. CASE b.num_entries # 0
  <2>1. PICK k \in 0 .. b.num_entries - 1 : k = b.num_entries - 1 /\ k + 1 = b.num_entries
    BY <1>0, <1>2
  <2>2. ASSUME NEW j \in 0 .. k PROVE ~(p < SizeOfOldest(b, j + 1))
    <3>1. j + 1 \in 0 .. MAX_OPS /\ b.num_entries \in (j + 1) .. MAX_OPS
      BY <1>0, <2>1, MaxOpsAssumption
    <3>2. SizeOfOldest(b, j + 1) <= SizeOfOldest(b, b.num_entries)
      BY <3>1, SizeMonotone
    <3>3. SizeOfOldest(b, j + 1) \in Nat /\ SizeOfOldest(b, b.num_entries) \in Nat
      BY <1>0, <3>1, SizeIsNat
    <3> QED
      BY <3>2, <3>3
  <2>3. ASSUME NEW j \in 0 .. k - 1 PROVE ~SearchStops(b, p, j)
    <3>1. j \in 0 .. b.num_entries - 1 /\ j # b.num_entries - 1 /\ j \in 0 .. k
      BY <1>0, <2>1
    <3> QED
      BY <2>2, <3>1, StopsAt
  <2>4. SearchStops(b, p, k) /\ k \in Slots /\ k \in 0 .. k
    BY <1>0, <2>1, StopsAt, LastSlot
  <2>5. ~EntryHolds(b, p, SizeOfOldest(b, k), (b.out_offs + k) % MAX_OPS)
    BY <2>2, <2>4, StopsAt
  <2>6. StopsFirst(b, p, k)
    BY <2>3, <2>4 DEF StopsFirst
  <2>7. aesd_circular_buffer_find_entry_offset_for_fpos(b, p) = FoundAt(b, p, k)
    BY <2>4, <2>6, SearchIsFound
  <2> QED
    BY <2>5, <2>7, Zenon DEF FoundAt
<1> QED
  BY <1>1, <1>2

(* One of the two always happens.                                          *)
LEMMA FindCases ==
  ASSUME NEW b \in Buffer, Filling(b) \/ Wrapped(b), NEW p \in Nat
  PROVE  LET hit == aesd_circular_buffer_find_entry_offset_for_fpos(b, p)
         IN  \/ hit = NotFound /\ SizeOfOldest(b, b.num_entries) <= p
             \/ \E k \in 0 .. b.num_entries - 1 :
                  /\ SizeOfOldest(b, k) <= p /\ p < SizeOfOldest(b, k + 1)
                  /\ hit.slot = (b.out_offs + k) % MAX_OPS
                  /\ hit.offset = p - SizeOfOldest(b, k)
                  /\ hit # NotFound
<1>0. b.num_entries \in 0 .. MAX_OPS /\ SizeOfOldest(b, b.num_entries) \in Nat
  BY SizeIsNat DEF Buffer
<1>1. CASE SizeOfOldest(b, b.num_entries) <= p
  BY <1>1, FindMiss
<1>2. CASE p < SizeOfOldest(b, b.num_entries)
  <2>1. PICK k \in 0 .. b.num_entries - 1 : SizeOfOldest(b, k) <= p /\ p < SizeOfOldest(b, k + 1)
    BY <1>0, <1>2, SizeCovers
  <2>2. PICK hit : hit = aesd_circular_buffer_find_entry_offset_for_fpos(b, p)
    OBVIOUS
  <2>3. hit = [slot |-> (b.out_offs + k) % MAX_OPS, offset |-> p - SizeOfOldest(b, k)]
    BY <2>1, <2>2, FindHit
  <2>4. p - SizeOfOldest(b, k) # -1
    <3>1. k \in 0 .. MAX_OPS
      BY <1>0, MaxOpsAssumption
    <3>2. SizeOfOldest(b, k) \in Nat
      BY <3>1, SizeIsNat
    <3> QED
      BY <2>1, <3>2
  <2>5. hit # NotFound
    BY <2>3, <2>4 DEF NotFound
  <2> QED
    BY <2>1, <2>2, <2>3, <2>5
<1>3. SizeOfOldest(b, b.num_entries) <= p \/ p < SizeOfOldest(b, b.num_entries)
  BY <1>0
<1> QED
  BY <1>1, <1>2, <1>3, Zenon

(* What get_entry_fpos computes for a command and an offset in it.         *)
LEMMA FposValue ==
  ASSUME NEW b \in Buffer, NEW index \in Nat, NEW offset \in Nat
  PROVE  aesd_circular_buffer_get_entry_fpos(b, index, offset)
           = IF index < b.num_entries /\ offset < Contents(b)[index + 1].size
             THEN SizeOfOldest(b, index) + offset ELSE -1
<1>0. b.num_entries \in 0 .. MAX_OPS /\ b.out_offs \in Slots
  BY DEF Buffer
<1>1. CASE ~(index < b.num_entries)
  <2>1. b.num_entries <= index
    BY <1>0, <1>1, MaxOpsAssumption
  <2> QED
    BY <1>1, <2>1, Zenon DEF aesd_circular_buffer_get_entry_fpos
<1>2. CASE index < b.num_entries
  <2>1. /\ index + 1 \in 1 .. b.num_entries /\ index + 1 \in 1 .. MAX_OPS
        /\ b.out_offs + (index + 1) - 1 = b.out_offs + index
        /\ ~(b.num_entries <= index)
    BY <1>0, <1>2, MaxOpsAssumption DEF Slots
  <2>2. PICK z \in Nat : /\ z = b.entry[(b.out_offs + index) % MAX_OPS].size
                         /\ z = Contents(b)[index + 1].size
    BY <2>1, SizeAtIsNat, SizeOfContents DEF SizeAt
  <2>3. z <= offset <=> ~(offset < z)
    OBVIOUS
  <2> QED
    BY <1>2, <2>1, <2>2, <2>3, Zenon
       DEF aesd_circular_buffer_get_entry_fpos, OffsetOutOfEntry
<1> QED
  BY <1>1, <1>2

=============================================================================
