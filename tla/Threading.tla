------------------------------ MODULE Threading ------------------------------
(***************************************************************************)
(* examples/threading/threading.c: a caller starts threads that wait, take *)
(* a mutex they share, hold it for a while and release it, and joins them. *)
(* Time is counted in the unit of tv_nsec, with the constants of the code  *)
(* as parameters: ms * 1000000 is computed in unsigned int.                *)
(***************************************************************************)
EXTENDS Integers, FiniteSets

CONSTANTS
  Thread,         \* the threads that may be started
  Waits,          \* pairs <<wait_to_obtain_ms, wait_to_release_ms>>
  NSEC_PER_MSEC,  \* 1000000
  NSEC_PER_SEC,   \* 1000000000
  UINT_RANGE,     \* 2^32, the values of unsigned int
  NULL

ASSUME ThreadingAssumption ==
  /\ Waits \subseteq Nat \X Nat
  /\ NSEC_PER_MSEC \in Nat \ {0} /\ NSEC_PER_SEC \in Nat \ {0} /\ UINT_RANGE \in Nat \ {0}
  /\ NULL \notin Thread

VARIABLES
  mutex,                    \* its owner, or NULL
  pc,                       \* where each thread is
  thread_data,              \* the arguments: allocated, freed or not yet there
  thread_complete_success,
  slept                     \* history: how long the thread slept in all

vars == <<mutex, pc, thread_data, thread_complete_success, slept>>

NoData == [state |-> "none", waits |-> <<0, 0>>]

-----------------------------------------------------------------------------
(* Mutated forms of the definitions below (see PROJECT.json, "mutants").   *)

LockWithoutWaiting(t) == TRUE
UnlockKeepsOwner(t) == t
FewerNanoseconds(ms) == (ms * (NSEC_PER_MSEC \div 10)) % UINT_RANGE
SleepsAnyLength(ms) == TRUE

-----------------------------------------------------------------------------

Init ==
  /\ mutex = NULL
  /\ pc = [t \in Thread |-> "none"]
  /\ thread_data = [t \in Thread |-> NoData]
  /\ thread_complete_success = [t \in Thread |-> FALSE]
  /\ slept = [t \in Thread |-> 0]

\* start_thread_obtaining_mutex returns true: the thread runs.
start_thread_obtaining_mutex(t, w) ==
  /\ pc[t] = "none"
  /\ thread_data' = [thread_data EXCEPT ![t] = [state |-> "allocated", waits |-> w]]
  /\ pc' = [pc EXCEPT ![t] = "wait_lock"]
  /\ UNCHANGED <<mutex, thread_complete_success, slept>>

\* It returns false: nothing was allocated, or thread_data was and is lost.
start_thread_fails(t, w) ==
  /\ pc[t] = "none"
  /\ \/ UNCHANGED thread_data
     \/ thread_data' = [thread_data EXCEPT ![t] = [state |-> "allocated", waits |-> w]]
  /\ pc' = [pc EXCEPT ![t] = "not_started"]
  /\ UNCHANGED <<mutex, thread_complete_success, slept>>

\* .tv_nsec = ms * 1000000
tv_nsec(ms) == (ms * NSEC_PER_MSEC) % UINT_RANGE

\* clock_nanosleep accepts less than a second of nanoseconds.
wait_ms(ms) == tv_nsec(ms) < NSEC_PER_SEC

\* A wait that succeeds takes the thread to `next'; one that fails ends it:
\* the sleep may be interrupted, or its length refused.
Wait(t, ms, next) ==
  \/ /\ wait_ms(ms)
     /\ pc' = [pc EXCEPT ![t] = next]
     /\ slept' = [slept EXCEPT ![t] = @ + tv_nsec(ms)]
  \/ /\ pc' = [pc EXCEPT ![t] = "done"]
     /\ UNCHANGED slept

threadfunc_wait_lock(t) ==
  /\ pc[t] = "wait_lock"
  /\ Wait(t, thread_data[t].waits[1], "lock")
  /\ UNCHANGED <<mutex, thread_data, thread_complete_success>>

MutexFree(t) == mutex = NULL

threadfunc_lock(t) ==
  /\ pc[t] = "lock" /\ MutexFree(t)
  /\ mutex' = t
  /\ pc' = [pc EXCEPT ![t] = "wait_unlock"]
  /\ UNCHANGED <<thread_data, thread_complete_success, slept>>

threadfunc_wait_unlock(t) ==
  /\ pc[t] = "wait_unlock"
  /\ Wait(t, thread_data[t].waits[2], "unlock")
  /\ UNCHANGED <<mutex, thread_data, thread_complete_success>>

OwnerAfterUnlock(t) == NULL

threadfunc_unlock(t) ==
  /\ pc[t] = "unlock"
  /\ mutex' = OwnerAfterUnlock(t)
  /\ thread_complete_success' = [thread_complete_success EXCEPT ![t] = TRUE]
  /\ pc' = [pc EXCEPT ![t] = "done"]
  /\ UNCHANGED <<thread_data, slept>>

Ended(t) == pc[t] = "done"

\* The caller joins a thread and frees the thread_data it returned.
Join(t) ==
  /\ pc[t] \notin {"none", "not_started", "joined"} /\ Ended(t)
  /\ thread_data' = [thread_data EXCEPT ![t] = [@ EXCEPT !.state = "freed"]]
  /\ pc' = [pc EXCEPT ![t] = IF @ = "done" THEN "joined" ELSE @]
  /\ UNCHANGED <<mutex, thread_complete_success, slept>>

Step(t) ==
  \/ threadfunc_wait_lock(t) \/ threadfunc_wait_unlock(t) \/ threadfunc_unlock(t) \/ Join(t)

Next ==
  \E t \in Thread :
    \/ \E w \in Waits : start_thread_obtaining_mutex(t, w) \/ start_thread_fails(t, w)
    \/ Step(t) \/ threadfunc_lock(t)

Spec == Init /\ [][Next]_vars

(* Sleeps end, and the mutex goes to every thread that waits for it.       *)
Fairness == \A t \in Thread : WF_vars(Step(t)) /\ SF_vars(threadfunc_lock(t))

FairSpec == Spec /\ Fairness

-----------------------------------------------------------------------------

Running == {"wait_lock", "lock", "wait_unlock", "unlock"}

(* Every variable has its type.                                            *)
TypeOK ==
  /\ mutex \in Thread \cup {NULL}
  /\ pc \in [Thread -> Running \cup {"none", "not_started", "done", "joined"}]
  /\ thread_data \in [Thread -> [state : {"none", "allocated", "freed"},
                                 waits : Waits \cup {<<0, 0>>}]]
  /\ thread_complete_success \in [Thread -> BOOLEAN]
  /\ slept \in [Thread -> 0 .. 2 * (NSEC_PER_SEC - 1)]

(* At most one thread is between pthread_mutex_lock and                    *)
(* pthread_mutex_unlock, and the arguments a thread reads are allocated as *)
(* long as it runs.                                                        *)
ThreadsAreSafe ==
  /\ \A t \in Thread : pc[t] \in {"wait_unlock", "unlock"} => mutex = t
  /\ \A t \in Thread : pc[t] \in Running \cup {"done"} => thread_data[t].state = "allocated"

(* thread_complete_success is set only for a thread that has let go of the *)
(* mutex: the caller may use it as soon as all threads report success.     *)
SuccessMeansReleased ==
  \A t \in Thread : thread_complete_success[t] => mutex # t

(* The thread "sleeps @param wait_to_obtain_ms number of milliseconds"     *)
(* (threading.h:19): one that reports success has slept as long as asked,  *)
(* if neither wait is so long that wait_ms wraps around (4295 ms).         *)
SleptAsAsked ==
  \A t \in Thread :
    LET w == thread_data[t].waits
    IN  /\ thread_complete_success[t]
        /\ \A i \in {1, 2} : w[i] * NSEC_PER_MSEC < UINT_RANGE
        => slept[t] >= (w[1] + w[2]) * NSEC_PER_MSEC

(* Every thread that was started ends and can be joined, unless a thread   *)
(* whose second wait failed has ended with the mutex.                      *)
MutexLost ==
  \E t \in Thread :
    pc[t] \in {"done", "joined"} /\ ~thread_complete_success[t] /\ mutex = t
ThreadsEnd == \A t \in Thread : pc[t] \in Running ~> pc[t] = "joined" \/ MutexLost

=============================================================================
