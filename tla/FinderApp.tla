------------------------------- MODULE FinderApp -------------------------------
(***************************************************************************)
(* finder-app: finder-test.sh lets the C program writer put WRITESTR into  *)
(* each of NUMFILES files, lets finder.sh count the files and the matching *)
(* lines, and succeeds if it counts NUMFILES of both.  The shell, stdio    *)
(* and the file system are external; each of their operations may fail.    *)
(* A file's content is told apart by what grep and the reader see in it.   *)
(***************************************************************************)
EXTENDS FiniteSets, Naturals

CONSTANT NUMFILES

VARIABLES
  script,   \* the command finder-test.sh is at, or how it exited
  i,        \* the loop's variable
  writer,   \* the writer it runs: "none", "open" or "opened"
  dir,      \* is there a WRITEDIR?
  content,  \* of each file: "none" (no such file), "empty", "part" or "whole"
  output,   \* what finder.sh counted
  seen      \* history: the files it saw

vars == <<script, i, writer, dir, content, output, seen>>

\* The files of this run, and one more of an earlier run that was longer.
File == 1 .. NUMFILES + 1

Init ==
  /\ script = "clear" /\ i = 1 /\ writer = "none"
  /\ content \in [File -> {"none", "whole"}]   \* an earlier run was interrupted
  /\ dir \in BOOLEAN /\ (~dir => content = [f \in File |-> "none"])
  /\ output = [num_of_files |-> 0, num_matching |-> 0]
  /\ seen = content

-----------------------------------------------------------------------------
(* A mutated form of a definition below (see PROJECT.json, "mutants").     *)

MatchesAnyFile(f) == content[f] # "none"

-----------------------------------------------------------------------------
(* finder-test.sh.                                                         *)

Goto(label) == script' = label /\ UNCHANGED <<i, writer>>

\* set -e: a command that fails ends the script.
script_fails ==
  /\ script \in {"clear", "mkdir", "report", "remove"}
  /\ Goto("exit_1") /\ UNCHANGED <<dir, content, output, seen>>

\* rm -rf "${WRITEDIR}"; for assignment1 the directory is not made.
script_clear ==
  /\ script = "clear"
  /\ dir' = FALSE /\ content' = [f \in File |-> "none"]
  /\ Goto("mkdir") \/ Goto("loop")
  /\ UNCHANGED <<output, seen>>

script_mkdir ==
  /\ script = "mkdir" /\ dir' = TRUE
  /\ Goto("loop") /\ UNCHANGED <<content, output, seen>>

\* for i in $( seq 1 $NUMFILES)
script_loop ==
  /\ script = "loop"
  /\ IF i <= NUMFILES THEN writer' = "open" /\ script' = "writer" /\ UNCHANGED i
                      ELSE Goto("finder")
  /\ UNCHANGED <<dir, content, output, seen>>

\* The writer has exited, with status 0 or 1.
WriterExits(status) ==
  /\ writer' = "none"
  /\ IF status = 0 THEN script' = "loop" /\ i' = i + 1
                   ELSE script' = "exit_1" /\ UNCHANGED i
  /\ UNCHANGED <<dir, output, seen>>

\* Does grep find WRITESTR in the file?
Matches(f) == content[f] = "whole"

\* finder.sh, and the result file.
script_finder ==
  /\ script = "finder"
  /\ IF dir
     THEN /\ output' = [num_of_files |-> Cardinality({f \in File : content[f] # "none"}),
                        num_matching |-> Cardinality({f \in File : Matches(f)})]
          /\ Goto("report")
     ELSE Goto("exit_1") /\ UNCHANGED output
  /\ seen' = content /\ UNCHANGED <<dir, content>>

script_report == script = "report" /\ Goto("remove") /\ UNCHANGED <<dir, content, output, seen>>

\* rm -rf /tmp/aeld-data, then the comparison with MATCHSTR.
script_remove ==
  /\ script = "remove"
  /\ Goto(IF output = [num_of_files |-> NUMFILES, num_matching |-> NUMFILES]
          THEN "exit_0" ELSE "exit_1")
  /\ dir' = FALSE /\ content' = [f \in File |-> "none"]
  /\ UNCHANGED <<output, seen>>

-----------------------------------------------------------------------------
(* writer.c.                                                               *)

\* fopen "w" creates or truncates the file; it fails without the directory.
writer_fopen ==
  /\ writer = "open"
  /\ \/ dir /\ writer' = "opened" /\ content' = [content EXCEPT ![i] = "empty"]
        /\ UNCHANGED <<script, i, dir, output, seen>>
     \/ WriterExits(1) /\ UNCHANGED content

\* fprintf and fclose: both results are ignored, also when not all is written.
writer_fprintf ==
  /\ writer = "opened"
  /\ \E written \in {"empty", "part", "whole"} : content' = [content EXCEPT ![i] = written]
  /\ WriterExits(0)

Next ==
  \/ script_fails \/ script_clear \/ script_mkdir \/ script_loop
  \/ script_finder \/ script_report \/ script_remove
  \/ writer_fopen \/ writer_fprintf

Spec == Init /\ [][Next]_vars

-----------------------------------------------------------------------------

(* The test's verdict can be trusted although writer exits with 0 when the *)
(* disk is full: finder-test.sh exits with 0 only if every one of its      *)
(* files got the whole string, and no file of an earlier run was counted.  *)
SuccessMeansWritten ==
  script = "exit_0" =>
    seen = [f \in File |-> IF f <= NUMFILES THEN "whole" ELSE "none"]

=============================================================================
