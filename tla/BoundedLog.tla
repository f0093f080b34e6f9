------------------------------ MODULE BoundedLog ------------------------------
(***************************************************************************)
(* What a circular buffer promises: a log that keeps the most recent       *)
(* Capacity entries, oldest first, and forgets the oldest to take a new    *)
(* one.                                                                    *)
(***************************************************************************)
EXTENDS Integers, Sequences

CONSTANTS Capacity, Entries

VARIABLE log

Init == log = << >>

AppendBounded(s, e) ==
  IF Len(s) = Capacity THEN Append(Tail(s), e) ELSE Append(s, e)

Add(e) == log' = AppendBounded(log, e)

Next == \E e \in Entries : Add(e)

Spec == Init /\ [][Next]_log

=============================================================================
