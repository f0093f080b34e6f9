------------------------------ MODULE CommandLog ------------------------------
(***************************************************************************)
(* The contents of the char device as its users see them: a sequence of    *)
(* complete commands, oldest first, and the bytes written since.  The      *)
(* abstract device (CharDevice), the server that uses it (AesdSocket) and  *)
(* what that server promises (LineServer) are stated with these operators. *)
(***************************************************************************)
EXTENDS Integers, SequencesExt

Stream(cmds) == FlattenSeq(cmds)

\* The position of the first byte of command i, counted from 0.
CommandStart(cmds, i) == Len(FlattenSeq(SubSeq(cmds, 1, i)))

\* A new command, for which the oldest one makes room.
Keep(cmds, cmd, capacity) ==
  Append(IF Len(cmds) = capacity THEN Tail(cmds) ELSE cmds, cmd)

\* What write(2) of buf makes of the device: a newline at the end of what has
\* been written completes a command.
Written(cmds, staged, buf, newline, capacity) ==
  LET bytes == staged \o buf
  IN  IF bytes # << >> /\ Last(bytes) = newline
      THEN [log |-> Keep(cmds, bytes, capacity), partial |-> << >>]
      ELSE [log |-> cmds, partial |-> bytes]

\* AESDCHAR_IOCSEEKTO: a byte of a command the device holds, and where it is.
SeekIsValid(cmds, a) ==
  a.write_cmd < Len(cmds) /\ a.write_cmd_offset < Len(cmds[a.write_cmd + 1])
SeekPosition(cmds, a) == CommandStart(cmds, a.write_cmd) + a.write_cmd_offset

=============================================================================
