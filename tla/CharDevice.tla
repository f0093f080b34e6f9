------------------------------ MODULE CharDevice ------------------------------
(***************************************************************************)
(* What the char device promises its users, with no buffer, heap or mutex: *)
(* a device keeps its last Capacity complete commands and one incomplete   *)
(* command; every call takes effect at one instant between its invocation  *)
(* and its return.                                                         *)
(***************************************************************************)
EXTENDS CommandLog

CONSTANTS Proc, Calls, NewLine, Capacity, NoCall, NoRet,
          EFAULT, ENOMEM, EINVAL, ENOTTY

VARIABLES
  loaded,   \* is the module there?
  log,      \* the complete commands, oldest first
  partial,  \* the bytes written since the last complete command
  users,    \* processes that have the device open
  pos,      \* their positions
  call,     \* their pending calls
  ret       \* the results of pending calls that have taken effect

vars == <<loaded, log, partial, users, pos, call, ret>>

Result(code, data) == [code |-> code, data |-> data, done |-> TRUE]

Init ==
  /\ loaded = FALSE
  /\ log = << >> /\ partial = << >>
  /\ users = {}
  /\ pos = [t \in Proc |-> 0]
  /\ call = [t \in Proc |-> NoCall]
  /\ ret = [t \in Proc |-> NoRet]

Load ==
  /\ ~loaded /\ loaded' = TRUE
  /\ UNCHANGED <<log, partial, users, pos, call, ret>>

Unload ==
  /\ loaded /\ users = {}
  /\ loaded' = FALSE /\ log' = << >> /\ partial' = << >>
  /\ UNCHANGED <<users, pos, call, ret>>

Open(t) ==
  /\ loaded /\ t \notin users
  /\ users' = users \cup {t}
  /\ UNCHANGED <<loaded, log, partial, pos, call, ret>>

Close(t) ==
  /\ t \in users /\ call[t] = NoCall /\ ret[t] = NoRet
  /\ users' = users \ {t}
  /\ pos' = [pos EXCEPT ![t] = 0]
  /\ UNCHANGED <<loaded, log, partial, call, ret>>

Begin(t, c) ==
  /\ t \in users /\ call[t] = NoCall /\ ret[t] = NoRet
  /\ call' = [call EXCEPT ![t] = c]
  /\ UNCHANGED <<loaded, log, partial, users, pos, ret>>

End(t) ==
  /\ ret[t] # NoRet
  /\ ret' = [ret EXCEPT ![t] = NoRet]
  /\ call' = [call EXCEPT ![t] = NoCall]
  /\ UNCHANGED <<loaded, log, partial, users, pos>>

Answer(t, code, data) ==
  /\ t \in users /\ ret[t] = NoRet
  /\ ret' = [ret EXCEPT ![t] = Result(code, data)]
  /\ UNCHANGED <<loaded, users, call>>

\* Reading or writing user memory may fail, and so may an allocation; the
\* call then has no effect at all.  An ioctl that is not understood fails
\* before it becomes a call of its own.
Fail(t) ==
  /\ CASE call[t].op = "read"  -> Answer(t, EFAULT, << >>)
       [] call[t].op = "write" -> \E e \in {EFAULT, ENOMEM} : Answer(t, e, << >>)
       [] call[t] = NoCall     -> \E e \in {EFAULT, ENOTTY} : Answer(t, e, << >>)
       [] OTHER                -> FALSE
  /\ UNCHANGED <<log, partial, pos>>

\* read(2): some of the bytes that follow the position, none only at the end
\* of the stream (or if none were asked for).
Read(t) ==
  /\ call[t].op = "read"
  /\ \E n \in 0 .. call[t].count :
       /\ n = 0 => pos[t] >= Len(Stream(log)) \/ call[t].count = 0
       /\ n > 0 => pos[t] + n <= Len(Stream(log))
       /\ Answer(t, n, SubSeq(Stream(log), pos[t] + 1, pos[t] + n))
       /\ pos' = [pos EXCEPT ![t] = @ + n]
  /\ UNCHANGED <<log, partial>>

\* write(2): all the bytes or none.
Write(t) ==
  /\ call[t].op = "write"
  /\ LET new == Written(log, partial, call[t].buf, NewLine, Capacity)
     IN  log' = new.log /\ partial' = new.partial
  /\ Answer(t, Len(call[t].buf), << >>)
  /\ UNCHANGED pos

\* lseek(2): to a position inside the stream or at its end; asking for the
\* current position always succeeds.
SeekTargets(t) ==
  {x \in 0 .. Len(Stream(log)) :
     \/ call[t].whence = "SEEK_SET" /\ x = call[t].off
     \/ call[t].whence = "SEEK_END" /\ x = Len(Stream(log)) + call[t].off
     \/ call[t].whence = "SEEK_CUR" /\ x = pos[t] + call[t].off}
  \cup {x \in {pos[t]} : call[t].whence = "SEEK_CUR" /\ call[t].off = 0}

Seek(t) ==
  /\ call[t].op = "llseek"
  /\ \/ \E x \in SeekTargets(t) :
          Answer(t, x, << >>) /\ pos' = [pos EXCEPT ![t] = x]
     \/ SeekTargets(t) = {} /\ Answer(t, EINVAL, << >>) /\ UNCHANGED pos
  /\ UNCHANGED <<log, partial>>

\* AESDCHAR_IOCSEEKTO: to a byte of a command the device holds.
SeekTo(t) ==
  /\ call[t].op = "ioctl"
  /\ IF SeekIsValid(log, call[t])
     THEN pos' = [pos EXCEPT ![t] = SeekPosition(log, call[t])] /\ Answer(t, 0, << >>)
     ELSE Answer(t, EINVAL, << >>) /\ UNCHANGED pos
  /\ UNCHANGED <<log, partial>>

Next ==
  \/ Load \/ Unload
  \/ \E t \in Proc :
       \/ Open(t) \/ Close(t) \/ End(t) \/ Fail(t)
       \/ Read(t) \/ Write(t) \/ Seek(t) \/ SeekTo(t)
       \/ \E c \in Calls : Begin(t, c)

Spec == Init /\ [][Next]_vars

=============================================================================
