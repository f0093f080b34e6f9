-------------------------- MODULE CircularBufferProofs --------------------------
(***************************************************************************)
(* Proofs about the circular buffer for every capacity and every set of    *)
(* entries.                                                                *)
(***************************************************************************)
EXTENDS CircularBufferUse, RingLemmas, FiniteSetTheorems

\* The bytes stored, as the search counts them.
SizeInv == buffer.size = SizeOfOldest(buffer, buffer.num_entries)

\* The invariant that the induction carries.
IndInv == TypeOK /\ RingShape /\ SizeInv

(* aesd_circular_buffer_init builds an empty ring. *)
LEMMA InitInd == Init => IndInv
<1> SUFFICES ASSUME Init PROVE IndInv
  OBVIOUS
<1>1. TypeOK /\ RingShape
  BY MaxOpsAssumption, NullAssumption
     DEF Init, TypeOK, RingShape, Filling, Wrapped, Buffer, Entry, Slots,
         aesd_circular_buffer_init, ZeroEntry
<1>2. SizeInv
  BY <1>1, SizeStep DEF Init, SizeInv, TypeOK, aesd_circular_buffer_init
<1> QED
  BY <1>1, <1>2 DEF IndInv

(* Adding an entry keeps the fields in range, the ring in shape and the    *)
(* size exact.                                                             *)
LEMMA NextInd == IndInv /\ [Next]_buffer => IndInv'
<1> SUFFICES ASSUME IndInv, [Next]_buffer PROVE IndInv'
  OBVIOUS
<1>1. ASSUME NEW e \in Entries, Add(e) PROVE IndInv'
  <2>1. e \in Entry /\ buffer \in Buffer /\ (Filling(buffer) \/ Wrapped(buffer))
        /\ buffer.size = SizeOfOldest(buffer, buffer.num_entries)
    BY EntriesAssumption DEF IndInv, TypeOK, Entry, RingShape, SizeInv
  <2>2. buffer' = aesd_circular_buffer_add_entry(buffer, e)
    BY <1>1 DEF Add
  <2>3. TypeOK' /\ RingShape'
    BY <2>1, <2>2, AddTyped, AddShape DEF TypeOK, RingShape
  <2>4. SizeInv'
    BY <2>1, <2>2, AddSize DEF SizeInv
  <2> QED
    BY <2>3, <2>4 DEF IndInv
<1>2. CASE UNCHANGED buffer
  BY <1>2 DEF IndInv, TypeOK, RingShape, SizeInv
<1>3. QED
  BY <1>1, <1>2 DEF Next

LEMMA Invariance == Spec => []IndInv
BY InitInd, NextInd, PTL DEF Spec

(* For every capacity up to what uint8_t can hold and every sequence of    *)
(* add_entry calls, the fields of the buffer stay in range.                *)
THEOREM BufferTypes == Spec => []TypeOK
BY Invariance, PTL DEF IndInv

(* The ring has the shape that the search and the eviction rely on.        *)
THEOREM RingInvariant == Spec => [](TypeOK /\ RingShape)
BY Invariance, PTL DEF IndInv

-----------------------------------------------------------------------------
(* The reference of the size and search properties: MapThenSumSet, which   *)
(* adds the sizes of a set of entries in whatever order CHOOSE picks them. *)

Chosen(s) == CHOOSE x \in s : TRUE

\* f is the recursive function with which MapThenSumSet is defined.
IsByteSum(f, c, S) ==
  f = [s \in SUBSET S |-> IF s = {} THEN 0 ELSE c[Chosen(s)].size + f[s \ {Chosen(s)}]]

LEMMA BytesIsChosen ==
  ASSUME NEW n
  PROVE  BytesBefore(n) = (CHOOSE f : IsByteSum(f, Contents(buffer), 1 .. n))[1 .. n]
BY Zenon DEF BytesBefore, MapThenSumSet, MapThenFoldSet, IsByteSum, Chosen

LEMMA ChosenIn ==
  ASSUME NEW s, s # {}
  PROVE  Chosen(s) \in s
BY Zenon DEF Chosen

\* The subsets of S with at most n elements.
Small(S, n) == {s \in SUBSET S : Cardinality(s) <= n}

(* Taking an element out makes a finite set smaller.                       *)
LEMMA SmallerSet ==
  ASSUME NEW S, IsFiniteSet(S), NEW n \in Nat, NEW s \in Small(S, n + 1), NEW x \in s
  PROVE  s \ {x} \in Small(S, n)
<1>1. s \in SUBSET S /\ IsFiniteSet(s) /\ Cardinality(s) <= n + 1
  BY FS_Subset DEF Small
<1>2. Cardinality(s) \in Nat /\ Cardinality(s \ {x}) = Cardinality(s) - 1
  BY <1>1, FS_CardinalityType, FS_RemoveElement
<1> QED
  BY <1>1, <1>2 DEF Small

LEMMA SmallSets ==
  ASSUME NEW S, IsFiniteSet(S)
  PROVE  /\ Small(S, 0) = {{}}
         /\ \A n \in Nat : {} \in Small(S, n) /\ Small(S, n) \subseteq Small(S, n + 1)
         /\ \A s \in SUBSET S : Cardinality(s) \in Nat /\ s \in Small(S, Cardinality(s))
<1>1. \A s \in SUBSET S : IsFiniteSet(s) /\ Cardinality(s) \in Nat
                         /\ (Cardinality(s) = 0 <=> s = {})
  BY FS_Subset, FS_CardinalityType, FS_EmptySet
<1>2. Cardinality({}) = 0
  BY FS_EmptySet
<1> QED
  BY <1>1, <1>2 DEF Small

(* That function exists, for every finite set of entries.                  *)
LEMMA ByteSumExists ==
  ASSUME NEW S, IsFiniteSet(S), NEW c, \A i \in S : c[i].size \in Nat
  PROVE  \E f : IsByteSum(f, c, S)
<1> DEFINE Val(f, s) == IF s = {} THEN 0 ELSE c[Chosen(s)].size + f[s \ {Chosen(s)}]
           UpTo(n) == \E f \in [Small(S, n) -> Nat] : \A s \in Small(S, n) : f[s] = Val(f, s)
           P == {n \in Nat : UpTo(n)}
<1>1. 0 \in P
  <2>1. Small(S, 0) = {{}}
    BY SmallSets
  <2> DEFINE g == [s \in {{}} |-> 0]
  <2>2. g \in [{{}} -> Nat] /\ g[{}] = 0
    OBVIOUS
  <2> HIDE DEF g
  <2>3. \A s \in Small(S, 0) : g[s] = Val(g, s)
    BY <2>1, <2>2
  <2>4. UpTo(0)
    BY <2>1, <2>2, <2>3
  <2> HIDE DEF UpTo
  <2> QED
    BY <2>4
<1>2. ASSUME NEW n \in Nat, n \in P PROVE n + 1 \in P
  <2>1. PICK f \in [Small(S, n) -> Nat] : \A s \in Small(S, n) : f[s] = Val(f, s)
    BY <1>2
  <2> DEFINE g == [s \in Small(S, n + 1) |-> Val(f, s)]
  <2>2. ASSUME NEW s \in Small(S, n + 1), s # {}
        PROVE  Chosen(s) \in S /\ s \ {Chosen(s)} \in Small(S, n)
    BY <2>2, ChosenIn, SmallerSet DEF Small
  <2>3. ASSUME NEW s \in Small(S, n + 1) PROVE Val(f, s) \in Nat
    <3>1. CASE s = {}
      BY <3>1
    <3>2. CASE s # {}
      <4>1. c[Chosen(s)].size \in Nat /\ f[s \ {Chosen(s)}] \in Nat
        BY <2>1, <2>2, <3>2
      <4> QED
        BY <3>2, <4>1
    <3> QED
      BY <3>1, <3>2
  <2>4. g \in [Small(S, n + 1) -> Nat]
    BY <2>3
  <2>5. \A s \in Small(S, n) : s \in Small(S, n + 1) /\ g[s] = f[s]
    BY <2>1, SmallSets
  <2>6. ASSUME NEW s \in Small(S, n + 1) PROVE g[s] = Val(g, s)
    <3>1. g[s] = Val(f, s)
      OBVIOUS
    <3>2. s # {} => g[s \ {Chosen(s)}] = f[s \ {Chosen(s)}]
      BY <2>2, <2>5
    <3> HIDE DEF g
    <3> QED
      BY <3>1, <3>2
  <2> HIDE DEF g
  <2>7. UpTo(n + 1)
    BY <2>4, <2>6
  <2> HIDE DEF UpTo
  <2> QED
    BY <2>7
<1> HIDE DEF P
<1>3. \A n \in Nat : n \in P
  BY <1>1, <1>2, Induction
<1>4. Cardinality(S) \in Nat
  BY FS_CardinalityType
<1>5. PICK f : f \in [Small(S, Cardinality(S)) -> Nat]
               /\ \A s \in Small(S, Cardinality(S)) : f[s] = Val(f, s)
  BY <1>3, <1>4 DEF P
<1>6. Small(S, Cardinality(S)) = SUBSET S
  BY FS_Subset DEF Small
<1>7. f = [s \in SUBSET S |-> Val(f, s)]
  BY <1>5, <1>6
<1> QED
  BY <1>7 DEF IsByteSum

(* It does not matter in which order the entries are added up.             *)
LEMMA AnyOrder ==
  ASSUME NEW S, IsFiniteSet(S), NEW c, \A i \in S : c[i].size \in Nat,
         NEW f, IsByteSum(f, c, S)
  PROVE  /\ f[{}] = 0
         /\ \A s \in SUBSET S : f[s] \in Nat
         /\ \A s \in SUBSET S : \A x \in s : f[s] = c[x].size + f[s \ {x}]
<1> DEFINE Good(s) == f[s] \in Nat /\ \A x \in s : f[s] = c[x].size + f[s \ {x}]
           P == {n \in Nat : \A s \in Small(S, n) : Good(s)}
<1>0. \A s \in SUBSET S :
        f[s] = IF s = {} THEN 0 ELSE c[Chosen(s)].size + f[s \ {Chosen(s)}]
  BY Zenon DEF IsByteSum
<1>1. f[{}] = 0
  BY <1>0
<1>2. Good({})
  BY <1>1
<1>3. ASSUME NEW n \in Nat, \A t \in Small(S, n) : Good(t), NEW s \in Small(S, n + 1), s # {}
      PROVE  Good(s)
  <2>1. PICK y \in s : y = Chosen(s)
    BY <1>3, ChosenIn
  <2>2. s \in SUBSET S /\ y \in S
    BY DEF Small
  <2>3. f[s] = c[y].size + f[s \ {y}]
    BY <1>0, <2>1, <2>2
  <2>4. \A x \in s : Good(s \ {x})
    BY <1>3, SmallerSet
  <2>5. c[y].size \in Nat /\ f[s \ {y}] \in Nat
    BY <2>2, <2>4
  <2>6. ASSUME NEW x \in s, x # y PROVE f[s] = c[x].size + f[s \ {x}]
    <3>1. x \in s \ {y} /\ y \in s \ {x} /\ (s \ {y}) \ {x} = (s \ {x}) \ {y}
      BY <2>6
    <3>2. PICK r : r = f[(s \ {x}) \ {y}]
      OBVIOUS
    <3>3. f[s \ {y}] = c[x].size + r /\ f[s \ {x}] = c[y].size + r
      BY <2>4, <3>1, <3>2
    <3>4. r \in Nat
      <4>1. n # 0
        <5>1. n = 0 => s \ {y} \in Small(S, 0)
          BY SmallerSet
        <5> QED
          BY <3>1, <5>1, SmallSets
      <4>2. PICK m \in Nat : m + 1 = n
        BY <4>1
      <4>3. s \ {x} \in Small(S, m + 1)
        BY <4>2, SmallerSet
      <4>4. (s \ {x}) \ {y} \in Small(S, m)
        BY <3>1, <4>3, SmallerSet
      <4>5. (s \ {x}) \ {y} \in Small(S, n)
        BY <4>2, <4>4, SmallSets
      <4> QED
        BY <1>3, <3>2, <4>5
    <3>5. c[x].size \in Nat
      BY <2>2
    <3> QED
      BY <2>3, <2>5, <3>3, <3>4, <3>5
  <2>7. \A x \in s : f[s] = c[x].size + f[s \ {x}]
    BY <2>3, <2>6
  <2>8. f[s] \in Nat
    BY <2>3, <2>5
  <2> QED
    BY <2>7, <2>8
<1>4. \A n \in Nat : n \in P
  <2> HIDE DEF Good
  <2>0. Small(S, 0) = {{}}
    BY SmallSets
  <2>1. 0 \in P
    BY <1>2, <2>0
  <2>2. ASSUME NEW n \in Nat, n \in P PROVE n + 1 \in P
    <3>1. \A t \in Small(S, n) : Good(t)
      BY <2>2
    <3>2. ASSUME NEW s \in Small(S, n + 1) PROVE Good(s)
      <4>1. CASE s = {}
        BY <1>2, <4>1, Zenon
      <4>2. CASE s # {}
        BY <1>3, <3>1, <4>2, Zenon
      <4> QED
        BY <4>1, <4>2
    <3> QED
      BY <3>2
  <2> HIDE DEF P
  <2> QED
    BY <2>1, <2>2, Induction
<1>5. \A s \in SUBSET S : Good(s)
  <2> HIDE DEF Good
  <2> QED
    BY <1>4, SmallSets
<1> QED
  BY <1>1, <1>5

(* The reference and the sum the search keeps are the same.                *)
LEMMA BytesAreSize ==
  ASSUME IndInv, NEW n \in 0 .. buffer.num_entries
  PROVE  BytesBefore(n) = SizeOfOldest(buffer, n)
<1> DEFINE c == Contents(buffer)
<1>0. buffer \in Buffer /\ buffer.num_entries \in 0 .. MAX_OPS /\ n \in 0 .. MAX_OPS
  BY MaxOpsAssumption DEF IndInv, TypeOK, Buffer
<1>1. ASSUME NEW k \in 1 .. n PROVE c[k].size = SizeAt(buffer, k) /\ SizeAt(buffer, k) \in Nat
  <2>1. k \in 1 .. buffer.num_entries /\ k \in 1 .. MAX_OPS
    BY <1>0, MaxOpsAssumption
  <2> QED
    BY <1>0, <2>1, SizeOfContents, SizeAtIsNat
<1>2. IsFiniteSet(1 .. n)
  BY <1>0, FS_Interval, MaxOpsAssumption
<1>3. PICK f : f = CHOOSE g : IsByteSum(g, c, 1 .. n)
  OBVIOUS
<1>4. BytesBefore(n) = f[1 .. n]
  BY <1>3, BytesIsChosen
<1> HIDE DEF c
<1>5. \A k \in 1 .. n : c[k].size \in Nat
  BY <1>1
<1>6. IsByteSum(f, c, 1 .. n)
  <2>1. \E g : IsByteSum(g, c, 1 .. n)
    BY <1>2, <1>5, ByteSumExists
  <2> QED
    BY <1>3, <2>1, Zenon
<1>7. /\ f[{}] = 0
      /\ \A s \in SUBSET (1 .. n) : \A x \in s : f[s] = c[x].size + f[s \ {x}]
  <2>1. PICK S : S = 1 .. n
    OBVIOUS
  <2>2. IsFiniteSet(S) /\ (\A k \in S : c[k].size \in Nat) /\ IsByteSum(f, c, S)
    BY <1>2, <1>5, <1>6, <2>1
  <2>3. /\ f[{}] = 0
        /\ \A s \in SUBSET S : \A x \in s : f[s] = c[x].size + f[s \ {x}]
    BY <2>2, AnyOrder
  <2> QED
    BY <2>1, <2>3
<1> DEFINE P == {k \in Nat : k <= n => f[1 .. k] = SizeOfOldest(buffer, k)}
<1>8. 0 \in P
  <2>1. 1 .. 0 = {}
    OBVIOUS
  <2> QED
    BY <1>0, <1>7, <2>1, SizeStep
<1>9. ASSUME NEW k \in Nat, k \in P PROVE k + 1 \in P
  <2> SUFFICES ASSUME k + 1 <= n PROVE f[1 .. k + 1] = SizeOfOldest(buffer, k + 1)
    OBVIOUS
  <2>1. /\ k + 1 \in 1 .. n /\ k + 1 \in 1 .. MAX_OPS /\ (k + 1) - 1 = k /\ k \in 0 .. MAX_OPS
        /\ 1 .. (k + 1) \in SUBSET (1 .. n) /\ k + 1 \in 1 .. (k + 1)
        /\ (1 .. (k + 1)) \ {k + 1} = 1 .. k
    BY <1>0, MaxOpsAssumption
  <2>2. f[1 .. k + 1] = c[k + 1].size + f[1 .. k]
    <3>1. PICK t : t = 1 .. (k + 1)
      OBVIOUS
    <3>2. t \in SUBSET (1 .. n) /\ k + 1 \in t /\ t \ {k + 1} = 1 .. k
      BY <2>1, <3>1
    <3>3. f[t] = c[k + 1].size + f[t \ {k + 1}]
      BY <1>7, <3>2, Zenon
    <3> QED
      BY <3>1, <3>2, <3>3
  <2>3. SizeOfOldest(buffer, k + 1) = SizeOfOldest(buffer, k) + SizeAt(buffer, k + 1)
    BY <1>0, <2>1, SizeStep
  <2>4. SizeOfOldest(buffer, k) \in Nat
    BY <1>0, <2>1, SizeIsNat
  <2> QED
    BY <1>1, <1>9, <2>1, <2>2, <2>3, <2>4
<1> HIDE DEF P
<1>10. \A k \in Nat : k \in P
  BY <1>8, <1>9, Induction
<1> QED
  BY <1>0, <1>4, <1>10, MaxOpsAssumption DEF P

-----------------------------------------------------------------------------

(* buffer->size is the number of bytes stored, whatever has been added and *)
(* overwritten: the end of the device that aesd_llseek uses is exact.      *)
THEOREM SizeExact == Spec => []SizeIsExact
<1>1. IndInv => SizeIsExact
  <2> SUFFICES ASSUME IndInv PROVE SizeIsExact
    OBVIOUS
  <2>1. buffer.num_entries \in 0 .. buffer.num_entries
    BY MaxOpsAssumption DEF IndInv, TypeOK, Buffer
  <2> QED
    BY <2>1, BytesAreSize DEF IndInv, SizeInv, SizeIsExact
<1> QED
  BY <1>1, Invariance, PTL

(* The search, for every position and whatever the ring has been through:  *)
(* it answers with the entry and offset at which the position falls in the *)
(* concatenation of the entries, and with NULL past their end.             *)
THEOREM SearchIsCorrect == Spec => []FindEntryCorrect
<1>1. IndInv => FindEntryCorrect
  <2> SUFFICES ASSUME IndInv, NEW p \in 0 .. buffer.size + 1
               PROVE  LET hit == aesd_circular_buffer_find_entry_offset_for_fpos(buffer, p)
                          Holds(i) == BytesBefore(i - 1) <= p /\ p < BytesBefore(i)
                      IN  IF \E i \in 1 .. buffer.num_entries : Holds(i)
                          THEN LET i == CHOOSE j \in 1 .. buffer.num_entries : Holds(j)
                               IN  /\ hit.slot = (buffer.out_offs + i - 1) % MAX_OPS
                                   /\ hit.offset = p - BytesBefore(i - 1)
                          ELSE hit = NotFound
    BY DEF FindEntryCorrect
  <2> DEFINE hit == aesd_circular_buffer_find_entry_offset_for_fpos(buffer, p)
             Holds(i) == BytesBefore(i - 1) <= p /\ p < BytesBefore(i)
  <2>0. /\ buffer \in Buffer /\ (Filling(buffer) \/ Wrapped(buffer))
        /\ buffer.num_entries \in 0 .. MAX_OPS /\ buffer.size \in Int
        /\ buffer.out_offs \in Slots /\ p \in Nat
    BY DEF IndInv, TypeOK, RingShape, Buffer
  <2>1. ASSUME NEW i \in 1 .. buffer.num_entries
        PROVE  /\ i - 1 \in 0 .. buffer.num_entries - 1 /\ (i - 1) + 1 = i
               /\ BytesBefore(i - 1) = SizeOfOldest(buffer, i - 1)
               /\ BytesBefore(i) = SizeOfOldest(buffer, i)
    <3>1. /\ i - 1 \in 0 .. buffer.num_entries - 1 /\ (i - 1) + 1 = i
          /\ i - 1 \in 0 .. buffer.num_entries /\ i \in 0 .. buffer.num_entries
      BY <2>0, MaxOpsAssumption
    <3> QED
      BY <3>1, BytesAreSize
  <2>2. ASSUME NEW i \in 1 .. buffer.num_entries, Holds(i)
        PROVE  /\ hit.slot = (buffer.out_offs + i - 1) % MAX_OPS
               /\ hit.offset = p - BytesBefore(i - 1)
    <3>1. PICK k \in 0 .. buffer.num_entries - 1 : k = i - 1 /\ k + 1 = i
      BY <2>1
    <3>2. SizeOfOldest(buffer, k) <= p /\ p < SizeOfOldest(buffer, k + 1)
      BY <2>1, <2>2, <3>1
    <3>3. hit = [slot |-> (buffer.out_offs + k) % MAX_OPS,
                 offset |-> p - SizeOfOldest(buffer, k)]
      BY <2>0, <3>2, FindHit
    <3>4. buffer.out_offs + i - 1 = buffer.out_offs + k
      BY <2>0, <3>1, MaxOpsAssumption DEF Slots
    <3> HIDE DEF hit
    <3> QED
      BY <2>1, <3>1, <3>3, <3>4
  <2>3. ASSUME ~\E i \in 1 .. buffer.num_entries : Holds(i) PROVE hit = NotFound
    <3>0. SizeOfOldest(buffer, buffer.num_entries) \in Nat
      BY <2>0, SizeIsNat
    <3>1. CASE SizeOfOldest(buffer, buffer.num_entries) <= p
      BY <2>0, <3>1, FindMiss
    <3>2. CASE p < SizeOfOldest(buffer, buffer.num_entries)
      <4>1. PICK k \in 0 .. buffer.num_entries - 1 :
              SizeOfOldest(buffer, k) <= p /\ p < SizeOfOldest(buffer, k + 1)
        BY <2>0, <3>2, SizeCovers
      <4>2. PICK i \in 1 .. buffer.num_entries : i = k + 1 /\ i - 1 = k
        BY <2>0, MaxOpsAssumption
      <4>3. Holds(i)
        BY <2>1, <4>1, <4>2
      <4> QED
        BY <2>3, <4>3
    <3> QED
      BY <2>0, <3>0, <3>1, <3>2
  <2> HIDE DEF hit, Holds
  <2>4. CASE \E i \in 1 .. buffer.num_entries : Holds(i)
    <3>1. PICK i : i = CHOOSE j \in 1 .. buffer.num_entries : Holds(j)
      OBVIOUS
    <3>2. i \in 1 .. buffer.num_entries /\ Holds(i)
      BY <2>4, <3>1, Zenon
    <3>3. hit.slot = (buffer.out_offs + i - 1) % MAX_OPS /\ hit.offset = p - BytesBefore(i - 1)
      BY <2>2, <3>2, Zenon
    <3> QED
      BY <2>4, <3>1, <3>3, Zenon DEF hit, Holds
  <2>5. CASE ~\E i \in 1 .. buffer.num_entries : Holds(i)
    BY <2>3, <2>5, Zenon DEF hit, Holds
  <2> QED
    BY <2>4, <2>5, Zenon
<1> QED
  BY <1>1, Invariance, PTL

(* Seeking to a command and an offset and then reading gives that command  *)
(* at that offset, and seeking fails exactly when there is no such byte.   *)
THEOREM SeekThenFind == Spec => []SeekAndFindAgree
<1>1. IndInv => SeekAndFindAgree
  <2> SUFFICES ASSUME IndInv, NEW index \in 0 .. MAX_OPS, NEW offset \in 0 .. buffer.size
               PROVE  LET fpos == aesd_circular_buffer_get_entry_fpos(buffer, index, offset)
                      IN  IF /\ index < buffer.num_entries
                             /\ offset < Contents(buffer)[index + 1].size
                          THEN aesd_circular_buffer_find_entry_offset_for_fpos(buffer, fpos)
                                 = [slot |-> (buffer.out_offs + index) % MAX_OPS,
                                    offset |-> offset]
                          ELSE fpos = -1
    BY DEF SeekAndFindAgree
  <2> DEFINE fpos == aesd_circular_buffer_get_entry_fpos(buffer, index, offset)
  <2>0. /\ buffer \in Buffer /\ (Filling(buffer) \/ Wrapped(buffer))
        /\ buffer.num_entries \in 0 .. MAX_OPS /\ buffer.size \in Int
        /\ buffer.out_offs \in Slots /\ offset \in Nat /\ index \in Nat
    BY MaxOpsAssumption DEF IndInv, TypeOK, RingShape, Buffer
  <2>1. CASE ~(index < buffer.num_entries /\ offset < Contents(buffer)[index + 1].size)
    BY <2>0, <2>1, FposValue
  <2>2. CASE index < buffer.num_entries /\ offset < Contents(buffer)[index + 1].size
    <3>1. /\ index + 1 \in 1 .. buffer.num_entries /\ index + 1 \in 1 .. MAX_OPS
          /\ (index + 1) - 1 = index /\ index \in 0 .. buffer.num_entries - 1
      BY <2>0, <2>2, MaxOpsAssumption
    <3>2. PICK z \in Nat : z = SizeAt(buffer, index + 1) /\ offset < z
      BY <2>0, <2>2, <3>1, SizeAtIsNat, SizeOfContents
    <3>3. PICK r \in Nat : r = SizeOfOldest(buffer, index)
      BY <2>0, SizeIsNat
    <3>4. SizeOfOldest(buffer, index + 1) = r + z
      BY <2>0, <3>1, <3>2, <3>3, SizeStep
    <3>5. PICK q \in Nat : q = fpos /\ q = r + offset
      BY <2>0, <2>2, <3>3, FposValue
    <3>6. SizeOfOldest(buffer, index) <= q /\ q < SizeOfOldest(buffer, index + 1)
          /\ q - SizeOfOldest(buffer, index) = offset
      BY <2>0, <3>2, <3>3, <3>4, <3>5
    <3>7. aesd_circular_buffer_find_entry_offset_for_fpos(buffer, q)
            = [slot |-> (buffer.out_offs + index) % MAX_OPS,
               offset |-> q - SizeOfOldest(buffer, index)]
      BY <2>0, <3>1, <3>6, FindHit
    <3> QED
      BY <2>2, <3>5, <3>6, <3>7, Zenon
  <2> QED
    BY <2>1, <2>2
<1> QED
  BY <1>1, Invariance, PTL

-----------------------------------------------------------------------------

(* The circular buffer implements the bounded log for every capacity.      *)
THEOREM RefinesBoundedLog == Spec => ImplementsBoundedLog
<1>1. Init => Log!Init
  BY MaxOpsAssumption DEF Init, Log!Init, Contents, aesd_circular_buffer_init
<1>2. IndInv /\ [Next]_buffer => [Log!Next]_(Contents(buffer))
  <2> SUFFICES ASSUME IndInv, [Next]_buffer
               PROVE  [Log!Next]_(Contents(buffer))
    OBVIOUS
  <2>1. ASSUME NEW e \in Entries, Add(e) PROVE Log!Next
    <3>1. e \in Entry /\ buffer \in Buffer /\ (Filling(buffer) \/ Wrapped(buffer))
      BY EntriesAssumption DEF IndInv, TypeOK, Entry, RingShape
    <3>2. Contents(buffer)' = Log!AppendBounded(Contents(buffer), e)
      BY <2>1, <3>1, AddIsAppend DEF Add, Log!AppendBounded
    <3>3. QED
      BY <3>2 DEF Log!Next, Log!Add
  <2>2. CASE UNCHANGED buffer
    BY <2>2 DEF Contents
  <2>3. QED
    BY <2>1, <2>2 DEF Next
<1>3. QED
  BY <1>1, <1>2, Invariance, PTL DEF Spec, ImplementsBoundedLog, Log!Spec

=============================================================================
