------------------------------ MODULE MCPrograms ------------------------------
(* The two small programs that share nothing with the others or with each
   other, one of them in each behaviour: a caller of systemcalls.c making three
   calls in a row, of any kind and with any outcome; or finder-test.sh. *)
EXTENDS SystemCalls

CONSTANT NUMFILES

ASSUME NumFilesAssumption == NUMFILES \in Nat

VARIABLES program, script, i, writer, dir, content, output, seen

finderVars == <<script, i, writer, dir, content, output, seen>>

Finder == INSTANCE FinderApp

all == <<callVars, program, finderVars>>

MCInit == CallsInit /\ Finder!Init /\ program \in {"systemcalls", "finder"}

RunCalls == program = "systemcalls" /\ CallsNext /\ UNCHANGED <<program, finderVars>>
RunFinder == program = "finder" /\ Finder!Next /\ UNCHANGED <<program, callVars>>

MCSpec == MCInit /\ [][RunCalls \/ RunFinder]_all /\ CallsFairness

(* finder-test.sh exits with 0 only if each file got the whole string.     *)
SuccessMeansWritten == Finder!SuccessMeansWritten

=============================================================================
