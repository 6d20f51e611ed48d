-------------------------------- MODULE Exec --------------------------------
(***************************************************************************)
(* exec (src/src/app.rs, src/src/executor.rs): one command in a process    *)
(* group of its own, its output captured up to a limit and streamed back   *)
(* as progress, a timeout and a cancellation that kill the group.          *)
(*                                                                         *)
(* The command is the "leader" of the group; what it leaves running in the *)
(* group is "member", and what made a session of its own is "stranger".    *)
(* Output is counted in bytes of one stream: the two are captured alike.   *)
(***************************************************************************)
EXTENDS Naturals

CONSTANTS
  LIMIT,     \* max_output_bytes
  PipeSize,  \* external: what a pipe holds before its writers block
  MaxBytes   \* bound: the bytes a behaviour writes

ASSUME SizeAssumption ==
  /\ LIMIT \in Nat /\ PipeSize \in Nat \ {0} /\ MaxBytes \in Nat
  /\ LIMIT < MaxBytes

VARIABLES
  \* run_command
  pc, timed_out, was_cancelled,
  drain,     \* the task that captures the output
  live,      \* LiveOutput: bytes kept, whether any was dropped, the version
  \* stream
  streaming, \* whether stream_interval is more than 0
  stream,    \* whether an update is being sent
  sent_version,
  update,    \* what the last update carries
  \* the request
  deadline, cancelled, reply,
  \* the processes
  alive, holds, pipe, written

runVars == <<timed_out, was_cancelled>>
streamVars == <<stream, sent_version, update>>
world == <<alive, holds, pipe, written>>
vars == <<pc, runVars, drain, live, streaming, streamVars, deadline, cancelled, reply, world>>

-----------------------------------------------------------------------------
Processes == {"leader", "member", "stranger"}
Group == {"leader", "member"}
NoOutput == [kept |-> 0, truncated |-> FALSE]

LiveOutputs == [kept : 0..LIMIT, truncated : BOOLEAN, version : Nat]
Updates == [kept : 0..LIMIT, truncated : BOOLEAN]

FlagsOK ==
  /\ timed_out \in BOOLEAN /\ was_cancelled \in BOOLEAN
  /\ streaming \in BOOLEAN
  /\ deadline \in BOOLEAN /\ cancelled \in BOOLEAN

StateOK ==
  /\ pc \in {"start", "wait", "reap", "drain", "grace", "ended", "returned"}
  /\ drain \in {"running", "eof", "aborted"}
  /\ live \in LiveOutputs
  /\ stream \in {"waiting", "sending"}
  /\ sent_version \in 0..live.version
  /\ update \in Updates
  /\ reply \in {"none", "result", "EXEC_FAILED", "CANCELLED"}
  /\ alive \subseteq Processes /\ holds \subseteq alive
  /\ pipe \in 0..PipeSize /\ written \in 0..MaxBytes

TypeOK == FlagsOK /\ StateOK

Init ==
  /\ pc = "start" /\ timed_out = FALSE /\ was_cancelled = FALSE
  /\ drain = "running"
  /\ live = [kept |-> 0, truncated |-> FALSE, version |-> 0]
  /\ streaming \in BOOLEAN
  /\ stream = "waiting" /\ sent_version = 0 /\ update = NoOutput
  /\ deadline = FALSE /\ cancelled = FALSE /\ reply = "none"
  /\ alive = {} /\ holds = {} /\ pipe = 0 /\ written = 0

-----------------------------------------------------------------------------
(* run_command.                                                            *)

Running == pc \notin {"start", "ended", "returned"}

Spawn ==
  /\ pc = "start"
  /\ pc' = "wait" /\ alive' = {"leader"} /\ holds' = {"leader"}
  /\ UNCHANGED <<runVars, drain, live, streaming, streamVars, deadline, cancelled, reply, pipe, written>>

\* The namespaces can't be opened, or there is no /bin/sh: nothing is run,
\* and nothing recorded.
SpawnFails ==
  /\ pc = "start"
  /\ pc' = "returned" /\ reply' = "EXEC_FAILED"
  /\ UNCHANGED <<runVars, drain, live, streaming, streamVars, deadline, cancelled, world>>

\* A mutant: only the command itself is killed.
KillLeader == alive' = alive \ {"leader"} /\ holds' = holds \ {"leader"}

kill_group == alive' = alive \ Group /\ holds' = holds \ Group

\* The deadline or the cancellation, whichever is looked at.
Expires ==
  \/ deadline /\ timed_out' = TRUE /\ UNCHANGED was_cancelled
  \/ cancelled /\ was_cancelled' = TRUE /\ UNCHANGED timed_out

\* The first select: the command exited by itself.
Exited ==
  /\ pc = "wait" /\ "leader" \notin alive
  /\ pc' = "drain"
  /\ UNCHANGED <<runVars, drain, live, streaming, streamVars, deadline, cancelled, reply, world>>

WaitExpires ==
  /\ pc = "wait" /\ Expires
  /\ kill_group
  /\ pc' = "reap"
  /\ UNCHANGED <<drain, live, streaming, streamVars, deadline, cancelled, reply, pipe, written>>

\* The killed command is gone; the group is killed once more.
Reaped ==
  /\ pc = "reap" /\ "leader" \notin alive
  /\ kill_group
  /\ pc' = "grace"
  /\ UNCHANGED <<runVars, drain, live, streaming, streamVars, deadline, cancelled, reply, pipe, written>>

\* A mutant: the output of a command that exited is not waited for.
ReadsWhatIsThere ==
  /\ pc = "drain"
  /\ pc' = "ended"
  /\ UNCHANGED <<runVars, drain, live, streaming, streamVars, deadline, cancelled, reply, world>>

\* The second select: all of the output has been read.
Drained ==
  /\ pc = "drain" /\ drain = "eof"
  /\ pc' = "ended"
  /\ UNCHANGED <<runVars, drain, live, streaming, streamVars, deadline, cancelled, reply, world>>

DrainExpires ==
  /\ pc = "drain" /\ Expires
  /\ kill_group
  /\ pc' = "grace"
  /\ UNCHANGED <<drain, live, streaming, streamVars, deadline, cancelled, reply, pipe, written>>

\* A mutant: wait for the output of what was killed, however long.
WaitsForEof ==
  /\ pc = "grace" /\ drain = "eof"
  /\ pc' = "ended" /\ UNCHANGED drain
  /\ UNCHANGED <<runVars, live, streaming, streamVars, deadline, cancelled, reply, world>>

\* The drain ends within DRAIN_GRACE, or is aborted.
GraceEnds ==
  /\ pc = "grace"
  /\ drain' = (IF drain = "eof" THEN "eof" ELSE "aborted")
  /\ pc' = "ended"
  /\ UNCHANGED <<runVars, live, streaming, streamVars, deadline, cancelled, reply, world>>

\* The stream notices, the call is recorded and a cancellation left standing.
Returns ==
  /\ pc = "ended" /\ stream = "waiting"
  /\ pc' = "returned" /\ reply' = (IF cancelled THEN "CANCELLED" ELSE "result")
  /\ UNCHANGED <<runVars, drain, live, streaming, streamVars, deadline, cancelled, world>>

-----------------------------------------------------------------------------
(* capture: a chunk is read, and kept as far as there is room.             *)

Smaller(m, n) == IF m < n THEN m ELSE n

\* A mutant: a full buffer is not read into.
StopsWhenFull ==
  \E n \in 1..pipe :
    /\ drain = "running" /\ live.kept < LIMIT
    /\ pipe' = pipe - n
    /\ live' = [kept |-> Smaller(live.kept + n, LIMIT),
                truncated |-> live.truncated \/ n > LIMIT - live.kept,
                version |-> live.version + 1]
    /\ UNCHANGED <<pc, runVars, drain, streaming, streamVars, deadline, cancelled, reply, alive, holds, written>>

\* A mutant: while there is room, a chunk is kept as a whole.
KeepsTheChunk ==
  \E n \in 1..pipe :
    /\ drain = "running"
    /\ pipe' = pipe - n
    /\ live' = [kept |-> IF live.kept < LIMIT THEN live.kept + n ELSE live.kept,
                truncated |-> live.truncated \/ n > LIMIT - live.kept,
                version |-> IF live.kept < LIMIT THEN live.version + 1 ELSE live.version]
    /\ UNCHANGED <<pc, runVars, drain, streaming, streamVars, deadline, cancelled, reply, alive, holds, written>>

Capture ==
  \E n \in 1..pipe :
    /\ drain = "running"
    /\ pipe' = pipe - n
    /\ live' = [kept |-> Smaller(live.kept + n, LIMIT),
                truncated |-> live.truncated \/ n > LIMIT - live.kept,
                version |-> IF live.kept < LIMIT THEN live.version + 1 ELSE live.version]
    /\ UNCHANGED <<pc, runVars, drain, streaming, streamVars, deadline, cancelled, reply, alive, holds, written>>

\* Nobody holds the pipe any more, and nothing is left in it.
Eof ==
  /\ Running /\ drain = "running" /\ pipe = 0 /\ holds = {}
  /\ drain' = "eof"
  /\ UNCHANGED <<pc, runVars, live, streaming, streamVars, deadline, cancelled, reply, world>>

-----------------------------------------------------------------------------
(* stream: updates while the command runs.                                 *)

\* A mutant: only new output is reported.
NewOutputOnly ==
  /\ pc \notin {"start", "returned"} /\ stream = "waiting"
  /\ streaming /\ live.version # sent_version
  /\ update' = [kept |-> live.kept, truncated |-> live.truncated]
  /\ sent_version' = live.version
  /\ stream' = "sending"
  /\ UNCHANGED <<pc, runVars, drain, live, streaming, deadline, cancelled, reply, world>>

\* There is something new, or the heartbeat is due (which may be at any time
\* here): the output and its version are taken together, and sent.
Update ==
  /\ pc \notin {"start", "returned"} /\ stream = "waiting"
  /\ update' = (IF streaming THEN [kept |-> live.kept, truncated |-> live.truncated] ELSE update)
  /\ sent_version' = live.version
  /\ stream' = "sending"
  /\ UNCHANGED <<pc, runVars, drain, live, streaming, deadline, cancelled, reply, world>>

\* A mutant: what came in while the update was sent counts as sent.
SentVersionLate ==
  /\ stream = "sending"
  /\ stream' = "waiting" /\ sent_version' = live.version
  /\ UNCHANGED <<pc, runVars, drain, live, streaming, update, deadline, cancelled, reply, world>>

\* The update has arrived, or has failed: the command goes on.
Sent ==
  /\ stream = "sending"
  /\ stream' = "waiting" /\ UNCHANGED sent_version
  /\ UNCHANGED <<pc, runVars, drain, live, streaming, update, deadline, cancelled, reply, world>>

-----------------------------------------------------------------------------
(* The processes, the clock and the caller.                                *)

\* A process starts another one, in the group or in a session of its own; it
\* inherits the output.
Fork(parent, child) ==
  /\ parent \in alive /\ child \notin alive
  /\ child = "member" => parent \in Group
  /\ alive' = alive \cup {child}
  /\ holds' = (IF parent \in holds THEN holds \cup {child} ELSE holds)
  /\ UNCHANGED <<pc, runVars, drain, live, streaming, streamVars, deadline, cancelled, reply, pipe, written>>

\* A daemon redirects its output.
CloseOutput(x) ==
  /\ x \in holds
  /\ holds' = holds \ {x}
  /\ UNCHANGED <<pc, runVars, drain, live, streaming, streamVars, deadline, cancelled, reply, alive, pipe, written>>

Exit(x) ==
  /\ x \in alive
  /\ alive' = alive \ {x} /\ holds' = holds \ {x}
  /\ UNCHANGED <<pc, runVars, drain, live, streaming, streamVars, deadline, cancelled, reply, pipe, written>>

\* Once nobody reads the pipe any more, a write fails.
Write ==
  /\ holds # {} /\ pipe < PipeSize /\ written < MaxBytes
  /\ drain = "running"
  /\ pipe' = pipe + 1 /\ written' = written + 1
  /\ UNCHANGED <<pc, runVars, drain, live, streaming, streamVars, deadline, cancelled, reply, alive, holds>>

DeadlinePasses ==
  /\ Running /\ ~deadline
  /\ deadline' = TRUE
  /\ UNCHANGED <<pc, runVars, drain, live, streaming, streamVars, cancelled, reply, world>>

Cancel ==
  /\ pc # "returned" /\ ~cancelled
  /\ cancelled' = TRUE
  /\ UNCHANGED <<pc, runVars, drain, live, streaming, streamVars, deadline, reply, world>>

\* The call is over; what it left running is not its business any more.
Over == pc = "returned" /\ UNCHANGED vars

RunStep ==
  \/ Spawn \/ SpawnFails \/ Exited \/ WaitExpires \/ Reaped
  \/ Drained \/ DrainExpires \/ GraceEnds \/ Returns

ProcessStep ==
  \/ \E parent \in Processes, child \in {"member", "stranger"} : Fork(parent, child)
  \/ \E x \in Processes : CloseOutput(x) \/ Exit(x)
  \/ Write

Next ==
  \/ RunStep \/ Capture \/ Eof \/ Update \/ Sent
  \/ ProcessStep \/ DeadlinePasses \/ Cancel \/ Over

Spec == Init /\ [][Next]_vars

\* The runtime polls run_command, the capture and the stream; the command
\* need not do anything, and a deadline may be far away.  The pause before an
\* update begins anew after each one, so an ended command is not passed over
\* for ever.
Fairness ==
  /\ SF_vars(RunStep)
  /\ WF_vars(Capture) /\ WF_vars(Eof)
  /\ WF_vars(Sent) /\ SF_vars(Update)

FairSpec == Spec /\ Fairness

-----------------------------------------------------------------------------
(* Properties.                                                             *)

Ended == pc \in {"ended", "returned"} /\ reply # "EXEC_FAILED"

\* "A timed-out or cancelled command is killed along with its children"
\* (app.rs:217-218): when such a run ends, nothing of its group is alive,
\* whatever it started and however late the timeout or cancellation came.
KilledWithChildren == Ended /\ (timed_out \/ was_cancelled) => alive \cap Group = {}

\* A run that was neither has captured all that was ever written to its
\* output, up to the limit, and says so when there was more.
OutputIsWhole ==
  Ended /\ ~timed_out /\ ~was_cancelled =>
    /\ live.kept = Smaller(written, LIMIT)
    /\ live.truncated <=> written > LIMIT

\* The stream never takes output for sent that no update carried
\* (app.rs:277-294).
SentIsCarried ==
  streaming /\ sent_version = live.version => update.kept = live.kept

\* What was captured is what was written and has left the pipe; at the end
\* of the output nothing is left, and nobody to write more.
CapturedInv ==
  /\ pipe <= written
  /\ live.kept = Smaller(written - pipe, LIMIT)
  /\ live.truncated <=> written - pipe > LIMIT
  /\ drain = "eof" => pipe = 0 /\ holds = {}

\* A run has expired once it is killed, and nothing comes back to its group;
\* one that never expired ends with its output.
KilledInv ==
  /\ pc # "returned" => reply = "none"
  /\ pc = "start" => drain = "running"
  /\ pc \in {"start", "wait", "drain"} => ~timed_out /\ ~was_cancelled
  /\ pc \in {"reap", "grace"} => timed_out \/ was_cancelled
  /\ pc \in {"reap", "grace"} => alive \cap Group = {}
  /\ KilledWithChildren
  /\ Ended /\ ~timed_out /\ ~was_cancelled => drain = "eof"

\* The inductive invariant behind the safety properties.
ExecInv == TypeOK /\ CapturedInv /\ KilledInv /\ SentIsCarried

\* A run that is past its timeout, or cancelled, ends, even when something
\* that can't be killed holds its output (executor.rs:284-289).
ExpiryEndsIt == (deadline \/ cancelled) ~> (pc = "returned")

\* "Keep draining past the limit, or a chatty command blocks on a full pipe"
\* (executor.rs:119).
NeverBlocked == (pipe = PipeSize) ~> (pipe < PipeSize \/ pc \in {"ended", "returned"})

\* That output was dropped is said while the command runs, though dropping it
\* makes no new version (executor.rs:136-142).
TruncationIsTold ==
  (streaming /\ live.truncated) ~> (update.truncated \/ pc \in {"ended", "returned"})
=============================================================================
