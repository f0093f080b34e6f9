------------------------------ MODULE SystemCalls ------------------------------
(***************************************************************************)
(* examples/systemcalls/systemcalls.c: a caller runs commands, one after   *)
(* the other, with do_system, do_exec or do_exec_redirect, and gets a      *)
(* Boolean for each.  fork makes two processes of one: the caller waits    *)
(* for its child, and the child becomes the command, is aborted or, in     *)
(* do_exec_redirect, returns and goes on as a second caller.  The kernel   *)
(* and the C library's system() are external; each of their calls may      *)
(* fail.                                                                   *)
(***************************************************************************)
EXTENDS Integers

CONSTANT MAX_CALLS   \* calls the caller makes (a bound of the model)

ASSUME CallsAssumption == MAX_CALLS \in Nat

VARIABLES
  calls,   \* calls made so far
  op,      \* the call in progress, or "none"
  caller,  \* where the caller is: "idle", "system", "fork", "wait" or "returned"
  ret,     \* what the last call returned
  child,   \* its child
  status,  \* the wait status the child ended with
  ran,     \* history: did the command of this call run?
  fds      \* descriptors of output files the caller has open

callVars == <<calls, op, caller, ret, child, status, ran, fds>>

Ops == {"do_system", "shell_test", "do_exec", "do_exec_redirect"}

\* How a process ends: WIFEXITED with a WEXITSTATUS, or by a signal.
Status == {"exit_0", "exit_1", "signal"}

-----------------------------------------------------------------------------
(* Mutated forms of the definitions below (see PROJECT.json, "mutants").   *)

AnyExit(st) == st # "signal"
OpensTwice(k) == k + 2
ChildHangs(o) == "hung"

-----------------------------------------------------------------------------

CallsInit ==
  /\ calls = 0 /\ op = "none" /\ caller = "idle" /\ ret = FALSE
  /\ child = "none" /\ status = "exit_0" /\ ran = FALSE
  /\ fds = 0

Return(b) == caller' = "returned" /\ ret' = b

Begin(o, label) ==
  /\ caller \in {"idle", "returned"} /\ calls < MAX_CALLS
  /\ calls' = calls + 1 /\ op' = o
  /\ caller' = label /\ child' = "none" /\ ran' = FALSE
  /\ UNCHANGED <<ret, status>>

\* WIFEXITED(status) && (WEXITSTATUS(status) == 0)
Succeeded(st) == st = "exit_0"

\* do_system of a command, or of NULL, which asks whether there is a shell.
do_system(o) == Begin(o, "system") /\ UNCHANGED fds

\* system() either cannot run the shell, or returns the command's status.
do_system_returns ==
  /\ caller = "system"
  /\ \/ /\ op = "shell_test"
        /\ \E b \in BOOLEAN : Return(b)
        /\ UNCHANGED <<status, ran>>
     \/ /\ op = "do_system"
        /\ Return(FALSE)
        /\ UNCHANGED <<status, ran>>
     \/ /\ op = "do_system"
        /\ \E st \in Status : status' = st /\ Return(Succeeded(st))
        /\ ran' = TRUE
  /\ UNCHANGED <<calls, op, child, fds>>

do_exec == Begin("do_exec", "fork") /\ UNCHANGED fds

\* The descriptor is open in the caller from here on: no path closes it.
OpenOutput(k) == k + 1

do_exec_redirect == Begin("do_exec_redirect", "fork") /\ fds' = OpenOutput(fds)

\* open fails.
do_exec_redirect_no_file ==
  /\ caller \in {"idle", "returned"} /\ calls < MAX_CALLS
  /\ calls' = calls + 1 /\ op' = "do_exec_redirect"
  /\ child' = "none" /\ ran' = FALSE
  /\ Return(FALSE)
  /\ UNCHANGED <<status, fds>>

fork ==
  /\ caller = "fork"
  /\ \/ child' = "exec" /\ caller' = "wait" /\ UNCHANGED ret
     \/ child' = "none" /\ Return(FALSE)
  /\ UNCHANGED <<calls, op, status, ran, fds>>

\* execv succeeds: the child is the command.
child_exec ==
  /\ child = "exec"
  /\ child' = "command" /\ ran' = TRUE
  /\ UNCHANGED <<calls, op, caller, ret, status, fds>>

\* What becomes of a child whose execv (or dup2) failed: do_exec aborts it,
\* do_exec_redirect returns false in it.
AfterFailedExec(o) == IF o = "do_exec" THEN "aborted" ELSE "copy"

child_exec_fails ==
  /\ child = "exec"
  /\ child' = AfterFailedExec(op)
  /\ UNCHANGED <<calls, op, caller, ret, status, ran, fds>>

\* The child ends: the command or a second caller as it likes, an aborted
\* child by SIGABRT.
child_ends(st) ==
  /\ child \in {"command", "copy", "aborted"}
  /\ child = "aborted" => st = "signal"
  /\ child' = "zombie" /\ status' = st
  /\ UNCHANGED <<calls, op, caller, ret, ran, fds>>

ChildEnded(c) == c = "zombie"

waitpid ==
  /\ caller = "wait" /\ ChildEnded(child)
  /\ child' = "none" /\ Return(Succeeded(status))
  /\ UNCHANGED <<calls, op, status, ran, fds>>

\* waitpid fails (a signal interrupts it): the child is left to itself and no
\* longer looked at.
waitpid_fails ==
  /\ caller = "wait"
  /\ child' = "none" /\ Return(FALSE)
  /\ UNCHANGED <<calls, op, status, ran, fds>>

Child == child_exec \/ \E st \in Status : child_ends(st)

CallsNext ==
  \/ \E o \in {"do_system", "shell_test"} : do_system(o)
  \/ do_system_returns \/ do_exec \/ do_exec_redirect \/ do_exec_redirect_no_file
  \/ fork \/ Child \/ child_exec_fails \/ waitpid \/ waitpid_fails

CallsSpec == CallsInit /\ [][CallsNext]_callVars

(* The caller and the child keep running, and the command ends.            *)
CallsFairness ==
  WF_callVars(fork) /\ WF_callVars(Child) /\ WF_callVars(waitpid) /\ WF_callVars(do_system_returns)

-----------------------------------------------------------------------------

(* Every variable has its type, and the caller has opened at most one      *)
(* output file per call.                                                   *)
CallsTypeOK ==
  /\ calls \in 0 .. MAX_CALLS /\ op \in Ops \cup {"none"}
  /\ caller \in {"idle", "system", "fork", "wait", "returned"} /\ ret \in BOOLEAN
  /\ child \in {"none", "exec", "command", "copy", "aborted", "zombie"}
  /\ status \in Status /\ ran \in BOOLEAN
  /\ fds \in 0 .. calls

(* A call returns true only if its command ran and ended with status 0,    *)
(* whatever failed on the way.  do_exec_redirect is the exception: the     *)
(* child that could not become the command goes on as a second caller,     *)
(* and when that one ends with status 0 the first takes it for the         *)
(* command's.                                                              *)
TrueMeansSuccess ==
  caller = "returned" /\ ret /\ op # "shell_test" =>
    status = "exit_0" /\ (ran \/ op = "do_exec_redirect")

(* Every call returns, also when the child never became the command.       *)
CallsReturn == caller \in {"system", "fork", "wait"} ~> caller = "returned"

=============================================================================
