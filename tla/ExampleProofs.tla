---------------------------- MODULE ExampleProofs ----------------------------
(***************************************************************************)
(* Proofs about the example programs, for any number of threads and calls, *)
(* any waits and any outcome of the calls that can fail.                   *)
(***************************************************************************)
EXTENDS Threading, MCPrograms, FiniteSetTheorems, TLAPS

-----------------------------------------------------------------------------
(* threading.c: the inductive invariant.                                   *)

\* The types, but for the bound on slept.
Types ==
  /\ mutex \in Thread \cup {NULL}
  /\ pc \in [Thread -> Running \cup {"none", "not_started", "done", "joined"}]
  /\ thread_data \in [Thread -> [state : {"none", "allocated", "freed"},
                                 waits : Waits \cup {<<0, 0>>}]]
  /\ thread_complete_success \in [Thread -> BOOLEAN]
  /\ slept \in [Thread -> Nat]

\* What one thread has been through when it is where it is.
ThreadInv(t) ==
  LET w == thread_data[t].waits
  IN  /\ pc[t] \in Running \cup {"done", "joined"} => w \in Waits
      /\ pc[t] \in {"none", "not_started", "wait_lock"} => slept[t] = 0
      /\ pc[t] \in {"lock", "wait_unlock"} => slept[t] = tv_nsec(w[1])
      /\ pc[t] = "unlock" => slept[t] = tv_nsec(w[1]) + tv_nsec(w[2])
      /\ pc[t] \in {"lock", "wait_unlock", "unlock"} => tv_nsec(w[1]) < NSEC_PER_SEC
      /\ slept[t] <= 2 * (NSEC_PER_SEC - 1)
      /\ thread_complete_success[t] =>
           /\ pc[t] \in {"done", "joined"} /\ mutex # t
           /\ slept[t] = tv_nsec(w[1]) + tv_nsec(w[2])

ThreadsInv == Types /\ ThreadsAreSafe /\ \A t \in Thread : ThreadInv(t)

(* A wait is a number of nanoseconds that an unsigned int holds, and the   *)
(* one asked for unless that number is larger.                             *)
LEMMA WaitLength ==
  ASSUME NEW ms \in Nat
  PROVE  /\ tv_nsec(ms) \in Nat
         /\ ms * NSEC_PER_MSEC < UINT_RANGE => tv_nsec(ms) = ms * NSEC_PER_MSEC
<1>1. PICK n \in Nat, m \in Nat \ {0} : n = ms * NSEC_PER_MSEC /\ m = UINT_RANGE
  BY ThreadingAssumption
<1>2. n % m \in Nat /\ (n < m => n % m = n)
  OBVIOUS
<1> QED
  BY <1>1, <1>2 DEF tv_nsec

LEMMA WaitsAreNat == ASSUME NEW w \in Waits PROVE w[1] \in Nat /\ w[2] \in Nat
BY ThreadingAssumption

LEMMA InitThreads == Init => ThreadsInv
<1> SUFFICES ASSUME Init PROVE ThreadsInv
  OBVIOUS
<1>1. 0 <= 2 * (NSEC_PER_SEC - 1)
  BY ThreadingAssumption
<1> QED
  BY <1>1 DEF Init, NoData, ThreadsInv, Types, ThreadsAreSafe, ThreadInv, Running

(* A step of one thread leaves what is known of the others: only the mutex *)
(* is shared.                                                              *)
LEMMA OtherThread ==
  ASSUME ThreadsInv, NEW t \in Thread, NEW u \in Thread, u # t,
         pc'[u] = pc[u], thread_data'[u] = thread_data[u], slept'[u] = slept[u],
         thread_complete_success'[u] = thread_complete_success[u],
         mutex' \in {mutex, t, NULL}
  PROVE  ThreadInv(u)'
BY ThreadingAssumption DEF ThreadsInv, ThreadInv, tv_nsec

(* The two waits.                                                          *)
LEMMA WaitStep ==
  ASSUME ThreadsInv, NEW t \in Thread, threadfunc_wait_lock(t) \/ threadfunc_wait_unlock(t)
  PROVE  ThreadsInv'
<1>1. PICK w \in Waits, a \in Nat, b \in Nat :
        /\ w = thread_data[t].waits /\ a = tv_nsec(w[1]) /\ b = tv_nsec(w[2])
  <2>1. thread_data[t].waits \in Waits
    BY DEF threadfunc_wait_lock, threadfunc_wait_unlock, ThreadsInv, ThreadInv, Running
  <2> QED
    BY <2>1, WaitsAreNat, WaitLength
<1>2. Types /\ UNCHANGED <<mutex, thread_data, thread_complete_success>> /\ NSEC_PER_SEC \in Nat \ {0}
  BY ThreadingAssumption DEF ThreadsInv, threadfunc_wait_lock, threadfunc_wait_unlock
<1>3. /\ pc[t] \in {"wait_lock", "wait_unlock"} /\ ~thread_complete_success[t]
      /\ slept[t] = IF pc[t] = "wait_lock" THEN 0 ELSE a
      /\ pc[t] = "wait_unlock" => a < NSEC_PER_SEC /\ mutex = t
      /\ thread_data[t].state = "allocated" /\ slept[t] <= 2 * (NSEC_PER_SEC - 1)
  BY <1>1 DEF threadfunc_wait_lock, threadfunc_wait_unlock, ThreadsInv, ThreadInv,
              ThreadsAreSafe, Running
<1>4. \/ /\ pc[t] = "wait_lock" /\ pc' = [pc EXCEPT ![t] = "lock"] /\ a < NSEC_PER_SEC
         /\ slept' = [slept EXCEPT ![t] = slept[t] + a]
      \/ /\ pc[t] = "wait_unlock" /\ pc' = [pc EXCEPT ![t] = "unlock"] /\ b < NSEC_PER_SEC
         /\ slept' = [slept EXCEPT ![t] = slept[t] + b]
      \/ pc' = [pc EXCEPT ![t] = "done"] /\ UNCHANGED slept
  BY <1>1 DEF threadfunc_wait_lock, threadfunc_wait_unlock, Wait, wait_ms
<1>5. Types'
  BY <1>2, <1>3, <1>4 DEF Types, Running
<1>6. ThreadsAreSafe'
  BY <1>2, <1>3, <1>4 DEF ThreadsInv, ThreadsAreSafe, Types, Running
<1>7. ThreadInv(t)'
  <2>1. thread_data'[t].waits = w /\ thread_complete_success'[t] = FALSE
    BY <1>1, <1>2, <1>3 DEF Types
  <2>2. \/ pc'[t] = "lock" /\ slept'[t] = a /\ a < NSEC_PER_SEC
        \/ pc'[t] = "unlock" /\ slept'[t] = a + b /\ a < NSEC_PER_SEC /\ b < NSEC_PER_SEC
        \/ pc'[t] = "done" /\ slept'[t] = slept[t]
    BY <1>2, <1>3, <1>4 DEF Types
  <2>3. slept'[t] <= 2 * (NSEC_PER_SEC - 1)
    BY <1>2, <1>3, <2>2
  <2> QED
    BY <1>1, <2>1, <2>2, <2>3 DEF ThreadInv, tv_nsec
<1>8. ASSUME NEW u \in Thread, u # t PROVE ThreadInv(u)'
  <2>1. /\ pc'[u] = pc[u] /\ thread_data'[u] = thread_data[u] /\ slept'[u] = slept[u]
        /\ thread_complete_success'[u] = thread_complete_success[u] /\ mutex' = mutex
    BY <1>2, <1>4, <1>8 DEF Types
  <2> QED
    BY <1>8, <2>1, OtherThread
<1> QED
  BY <1>5, <1>6, <1>7, <1>8 DEF ThreadsInv

(* The steps that do not sleep.                                            *)
LEMMA QuickStep ==
  ASSUME ThreadsInv, NEW t \in Thread,
         \/ \E w \in Waits : start_thread_obtaining_mutex(t, w) \/ start_thread_fails(t, w)
         \/ threadfunc_lock(t) \/ threadfunc_unlock(t) \/ Join(t)
  PROVE  ThreadsInv'
<1> USE DEF start_thread_obtaining_mutex, start_thread_fails, threadfunc_lock, threadfunc_unlock,
            Join, MutexFree, OwnerAfterUnlock, Ended
<1>0. Types /\ NULL \notin Thread
  BY ThreadingAssumption DEF ThreadsInv
<1>1. slept' = slept
  OBVIOUS
<1>2. mutex' = mutex \/ mutex' = t \/ mutex' = NULL
  OBVIOUS
<1>3. Types'
  <2>1. mutex' \in Thread \cup {NULL} /\ slept' \in [Thread -> Nat]
    BY <1>0, <1>1, <1>2 DEF Types
  <2>2. pc' \in [Thread -> Running \cup {"none", "not_started", "done", "joined"}]
    BY <1>0 DEF Types, Running
  <2>3. thread_data' \in [Thread -> [state : {"none", "allocated", "freed"},
                                    waits : Waits \cup {<<0, 0>>}]]
    BY <1>0 DEF Types
  <2>4. thread_complete_success' \in [Thread -> BOOLEAN]
    BY <1>0 DEF Types
  <2> QED
    BY <2>1, <2>2, <2>3, <2>4 DEF Types
<1>4. ThreadsAreSafe'
  BY <1>0 DEF ThreadsInv, ThreadsAreSafe, Types, Running
<1>5. ThreadInv(t)'
  BY <1>0 DEF ThreadsInv, ThreadInv, Types, Running, tv_nsec
<1>6. ASSUME NEW u \in Thread, u # t PROVE ThreadInv(u)'
  <2>1. pc'[u] = pc[u]
    BY <1>0, <1>6 DEF Types
  <2>2. thread_data'[u] = thread_data[u]
    BY <1>0, <1>6 DEF Types
  <2>3. thread_complete_success'[u] = thread_complete_success[u]
    BY <1>0, <1>6 DEF Types
  <2> QED
    BY <1>1, <1>2, <1>6, <2>1, <2>2, <2>3, OtherThread
<1> QED
  BY <1>3, <1>4, <1>5, <1>6 DEF ThreadsInv

(* The invariant holds in every reachable state.                           *)
LEMMA ThreadsInvariance == Spec => []ThreadsInv
<1>1. ThreadsInv /\ [Next]_vars => ThreadsInv'
  <2> SUFFICES ASSUME ThreadsInv, [Next]_vars PROVE ThreadsInv'
    OBVIOUS
  <2>1. CASE UNCHANGED vars
    BY <2>1 DEF vars, ThreadsInv, Types, ThreadsAreSafe, ThreadInv, tv_nsec
  <2> QED
    BY <2>1, WaitStep, QuickStep DEF Next, Step
<1> QED
  BY <1>1, InitThreads, PTL DEF Spec

(* Type correctness: a thread sleeps at most twice and, as each sleep is   *)
(* less than a second, less than two seconds in all.                       *)
THEOREM ThreadTypes == Spec => []TypeOK
<1>1. ThreadsInv => TypeOK
  <2> SUFFICES ASSUME ThreadsInv PROVE TypeOK
    OBVIOUS
  <2>1. \A t \in Thread : slept[t] \in 0 .. 2 * (NSEC_PER_SEC - 1)
    BY ThreadingAssumption DEF ThreadsInv, Types, ThreadInv
  <2> QED
    BY <2>1 DEF ThreadsInv, Types, TypeOK
<1> QED
  BY <1>1, ThreadsInvariance, PTL

(* One thread at a time holds the mutex, and the caller frees no           *)
(* thread_data that its thread still uses.                                 *)
THEOREM ThreadsSafe == Spec => []ThreadsAreSafe
<1>1. ThreadsInv => ThreadsAreSafe
  BY DEF ThreadsInv
<1> QED
  BY <1>1, ThreadsInvariance, PTL

(* A thread that reports success no longer has the mutex.                  *)
THEOREM SuccessReleases == Spec => []SuccessMeansReleased
<1>1. ThreadsInv => SuccessMeansReleased
  BY DEF ThreadsInv, ThreadInv, SuccessMeansReleased
<1> QED
  BY <1>1, ThreadsInvariance, PTL

(* A thread that reports success has slept as long as it was asked to, if  *)
(* the number of nanoseconds fits an unsigned int.                         *)
THEOREM SleepsAreLong == Spec => []SleptAsAsked
<1>1. ThreadsInv => SleptAsAsked
  <2> SUFFICES ASSUME ThreadsInv, NEW t \in Thread, thread_complete_success[t],
                      \A k \in {1, 2} : thread_data[t].waits[k] * NSEC_PER_MSEC < UINT_RANGE
               PROVE  slept[t] >= (thread_data[t].waits[1] + thread_data[t].waits[2]) * NSEC_PER_MSEC
    BY DEF SleptAsAsked
  <2>1. /\ thread_data[t].waits \in Waits
        /\ slept[t] = tv_nsec(thread_data[t].waits[1]) + tv_nsec(thread_data[t].waits[2])
    BY DEF ThreadsInv, ThreadInv
  <2>2. PICK a \in Nat, b \in Nat, k \in Nat :
          a = thread_data[t].waits[1] /\ b = thread_data[t].waits[2] /\ k = NSEC_PER_MSEC
    BY <2>1, WaitsAreNat, ThreadingAssumption
  <2>3. tv_nsec(a) = a * k /\ tv_nsec(b) = b * k
    BY <2>2, WaitLength
  <2>4. (a + b) * k = a * k + b * k /\ (a + b) * k \in Nat
    OBVIOUS
  <2> QED
    BY <2>1, <2>2, <2>3, <2>4
<1> QED
  BY <1>1, ThreadsInvariance, PTL

-----------------------------------------------------------------------------
(* systemcalls.c: the inductive invariant.  A child is there only while    *)
(* the caller waits for it; if it can end with status 0 and its command    *)
(* did not run, it is the second caller that do_exec_redirect leaves.      *)

CallsInv ==
  /\ CallsTypeOK /\ TrueMeansSuccess
  /\ child # "none" => caller = "wait"
  /\ caller \in {"fork", "wait"} => op \in {"do_exec", "do_exec_redirect"}
  /\ child = "command" => ran
  /\ child = "copy" => op = "do_exec_redirect"
  /\ child = "zombie" /\ status = "exit_0" => ran \/ op = "do_exec_redirect"

(* The invariant holds at first and every step of a call or of its child   *)
(* keeps it.                                                               *)
LEMMA CallsInvariance == CallsSpec => []CallsInv
<1> USE CallsAssumption DEF CallsInv, CallsTypeOK, TrueMeansSuccess, Ops, Status
<1>1. CallsInit => CallsInv
  <2>1. 0 \in 0 .. MAX_CALLS /\ 0 \in 0 .. 0
    OBVIOUS
  <2> QED
    BY <2>1, Zenon DEF CallsInit
<1>2. CallsInv /\ [CallsNext]_callVars => CallsInv'
  <2> SUFFICES ASSUME CallsInv, [CallsNext]_callVars PROVE CallsInv'
    OBVIOUS
  <2> USE DEF Return, Begin, Succeeded
  <2>1. ASSUME NEW o \in {"do_system", "shell_test"}, do_system(o) PROVE CallsInv'
    <3>1. calls' \in 0 .. MAX_CALLS /\ fds' \in 0 .. calls'
      BY <2>1 DEF do_system
    <3> QED
      BY <2>1, <3>1, Zenon DEF do_system
  <2>2. CASE do_system_returns
    BY <2>2 DEF do_system_returns
  <2>3. CASE do_exec
    <3>1. calls' \in 0 .. MAX_CALLS /\ fds' \in 0 .. calls'
      BY <2>3 DEF do_exec
    <3> QED
      BY <2>3, <3>1, Zenon DEF do_exec
  <2>4. CASE do_exec_redirect
    <3>1. calls' \in 0 .. MAX_CALLS /\ fds' \in 0 .. calls'
      BY <2>4 DEF do_exec_redirect, OpenOutput
    <3> QED
      BY <2>4, <3>1, Zenon DEF do_exec_redirect
  <2>5. CASE do_exec_redirect_no_file
    <3>1. calls' \in 0 .. MAX_CALLS /\ fds' \in 0 .. calls'
      BY <2>5 DEF do_exec_redirect_no_file
    <3> QED
      BY <2>5, <3>1, Zenon DEF do_exec_redirect_no_file
  <2>6. CASE fork
    BY <2>6 DEF fork
  <2>7. CASE child_exec
    BY <2>7 DEF child_exec
  <2>8. CASE child_exec_fails
    BY <2>8 DEF child_exec_fails, AfterFailedExec
  <2>9. ASSUME NEW st \in Status, child_ends(st) PROVE CallsInv'
    BY <2>9 DEF child_ends
  <2>10. CASE waitpid
    BY <2>10 DEF waitpid, ChildEnded
  <2>11. CASE waitpid_fails
    BY <2>11 DEF waitpid_fails
  <2>12. CASE UNCHANGED callVars
    BY <2>12 DEF callVars
  <2> QED
    BY <2>1, <2>2, <2>3, <2>4, <2>5, <2>6, <2>7, <2>8, <2>9, <2>10, <2>11, <2>12
       DEF CallsNext, Child
<1> HIDE DEF CallsInv
<1> QED
  BY <1>1, <1>2, PTL DEF CallsSpec

(* Type correctness of systemcalls.c: the caller opens at most one output  *)
(* file per call, however many calls it makes.                             *)
THEOREM CallTypes == CallsSpec => []CallsTypeOK
<1>1. CallsInv => CallsTypeOK
  BY DEF CallsInv
<1> QED
  BY <1>1, CallsInvariance, PTL

(* do_system and do_exec return true only for a command that ran and ended *)
(* with status 0, whichever of their calls failed on the way.              *)
THEOREM TrueIsSuccess == CallsSpec => []TrueMeansSuccess
<1>1. CallsInv => TrueMeansSuccess
  BY DEF CallsInv
<1> QED
  BY <1>1, CallsInvariance, PTL

-----------------------------------------------------------------------------
(* finder-test.sh and writer.c: the inductive invariant.  From the removal *)
(* of the directory on, the file after the last one does not exist, and    *)
(* what finder.sh counted is what it saw.                                  *)

FinderInv ==
  /\ script \in {"clear", "mkdir", "loop", "writer", "finder", "report", "remove",
                 "exit_0", "exit_1"}
  /\ i \in Nat \ {0}
  /\ content \in [Finder!File -> {"none", "empty", "part", "whole"}]
  /\ seen \in [Finder!File -> {"none", "empty", "part", "whole"}]
  /\ writer \in {"none", "open", "opened"}
  /\ writer # "none" => script = "writer" /\ i <= NUMFILES
  /\ script \in {"mkdir", "loop", "writer", "finder"} => content[NUMFILES + 1] = "none"
  /\ script \in {"report", "remove", "exit_0"} =>
       /\ output.num_matching = Cardinality({f \in Finder!File : seen[f] = "whole"})
       /\ seen[NUMFILES + 1] = "none"
  /\ script = "exit_0" => output.num_matching = NUMFILES

(* The instance counts as this module does.                                *)
LEMMA SameCardinality == \A S : Finder!Cardinality(S) = Cardinality(S)
BY Zenon DEF Finder!Cardinality, Cardinality

(* The invariant holds at first and every step of the script and of the    *)
(* writer keeps it.                                                        *)
LEMMA FinderInvariance == Finder!Spec => []FinderInv
<1> USE NumFilesAssumption DEF FinderInv, Finder!File
<1>1. Finder!Init => FinderInv
  BY DEF Finder!Init
<1>2. FinderInv /\ [Finder!Next]_Finder!vars => FinderInv'
  <2> SUFFICES ASSUME FinderInv, [Finder!Next]_Finder!vars PROVE FinderInv'
    OBVIOUS
  <2> USE DEF Finder!Goto, Finder!WriterExits
  <2>1. CASE Finder!script_fails
    BY <2>1 DEF Finder!script_fails
  <2>2. CASE Finder!script_clear
    BY <2>2 DEF Finder!script_clear
  <2>3. CASE Finder!script_mkdir
    BY <2>3 DEF Finder!script_mkdir
  <2>4. CASE Finder!script_loop
    BY <2>4 DEF Finder!script_loop
  <2>5. CASE Finder!script_finder
    <3>1. NUMFILES + 1 \in Finder!File
      OBVIOUS
    <3>2. CASE dir
      <4>1. seen' = content /\ script' = "report" /\ UNCHANGED <<i, writer, content>>
        BY <2>5, <3>2 DEF Finder!script_finder
      <4>2. output'.num_matching = Cardinality({f \in Finder!File : seen'[f] = "whole"})
        <5> DEFINE files == {f \in Finder!File : content[f] # "none"}
                   matching == {f \in Finder!File : Finder!Matches(f)}
        <5>1. output' = [num_of_files |-> Cardinality(files), num_matching |-> Cardinality(matching)]
          BY <2>5, <3>2, SameCardinality, Zenon DEF Finder!script_finder
        <5>2. matching = {f \in Finder!File : seen'[f] = "whole"}
          BY <4>1 DEF Finder!Matches
        <5> HIDE DEF files, matching
        <5>3. output'.num_matching = Cardinality(matching)
          BY <5>1
        <5> QED
          BY <5>2, <5>3, Zenon
      <4> QED
        BY <2>5, <3>1, <4>1, <4>2 DEF Finder!script_finder
    <3>3. CASE ~dir
      BY <2>5, <3>3 DEF Finder!script_finder
    <3> QED
      BY <3>2, <3>3
  <2>6. CASE Finder!script_report
    BY <2>6 DEF Finder!script_report
  <2>7. CASE Finder!script_remove
    BY <2>7 DEF Finder!script_remove
  <2>8. CASE Finder!writer_fopen
    BY <2>8 DEF Finder!writer_fopen
  <2>9. CASE Finder!writer_fprintf
    BY <2>9 DEF Finder!writer_fprintf
  <2>10. CASE UNCHANGED Finder!vars
    BY <2>10 DEF Finder!vars
  <2> QED
    BY <2>1, <2>2, <2>3, <2>4, <2>5, <2>6, <2>7, <2>8, <2>9, <2>10 DEF Finder!Next
<1> HIDE DEF FinderInv
<1> QED
  BY <1>1, <1>2, PTL DEF Finder!Spec

(* finder-test.sh exits with 0 only if each of its files, however many,    *)
(* has the whole string: NUMFILES matches among the files 1 .. NUMFILES    *)
(* leave none without.                                                     *)
THEOREM WrittenOnSuccess == Finder!Spec => []SuccessMeansWritten
<1>1. FinderInv => SuccessMeansWritten
  <2> SUFFICES ASSUME FinderInv, script = "exit_0"
               PROVE  seen = [f \in Finder!File |-> IF f <= NUMFILES THEN "whole" ELSE "none"]
    BY DEF SuccessMeansWritten, Finder!SuccessMeansWritten
  <2> DEFINE whole == {f \in Finder!File : seen[f] = "whole"}
  <2>1. /\ seen \in [Finder!File -> {"none", "empty", "part", "whole"}]
        /\ Cardinality(whole) = NUMFILES /\ seen[NUMFILES + 1] = "none"
    BY DEF FinderInv
  <2>2. whole \in SUBSET (1 .. NUMFILES)
    BY <2>1, NumFilesAssumption DEF Finder!File
  <2>3. IsFiniteSet(1 .. NUMFILES) /\ Cardinality(1 .. NUMFILES) = NUMFILES
    BY FS_Interval, NumFilesAssumption
  <2>4. whole = 1 .. NUMFILES
    <3> HIDE DEF whole
    <3> QED
      BY <2>1, <2>2, <2>3, FS_Subset
  <2>5. ASSUME NEW f \in Finder!File
        PROVE  seen[f] = IF f <= NUMFILES THEN "whole" ELSE "none"
    BY <2>1, <2>4, <2>5, NumFilesAssumption DEF Finder!File
  <2> QED
    BY <2>1, <2>5
<1> QED
  BY <1>1, FinderInvariance, PTL

=============================================================================
