----------------------------- MODULE ExecProofs -----------------------------
(***************************************************************************)
(* Proofs about Exec, for every limit, pipe size and amount of output.     *)
(***************************************************************************)
EXTENDS Exec, TLAPS

USE SizeAssumption

-----------------------------------------------------------------------------
(* Type correctness.                                                       *)

LEMMA RecordTypes ==
  /\ \A k \in 0..LIMIT, t \in BOOLEAN :
       [kept |-> k, truncated |-> t] \in Updates
  /\ \A k \in 0..LIMIT, t \in BOOLEAN, v \in Nat :
       [kept |-> k, truncated |-> t, version |-> v] \in LiveOutputs
  /\ \A o \in LiveOutputs :
       o.kept \in 0..LIMIT /\ o.truncated \in BOOLEAN /\ o.version \in Nat
  BY DEF Updates, LiveOutputs

\* A chunk of any size leaves well-formed captured output.
LEMMA CaptureTypes ==
  ASSUME NEW o \in LiveOutputs, NEW n \in Nat
  PROVE  [kept |-> Smaller(o.kept + n, LIMIT),
          truncated |-> o.truncated \/ n > LIMIT - o.kept,
          version |-> IF o.kept < LIMIT THEN o.version + 1 ELSE o.version] \in LiveOutputs
<1>1. Smaller(o.kept + n, LIMIT) \in 0..LIMIT
  BY RecordTypes DEF Smaller
<1>2. (IF o.kept < LIMIT THEN o.version + 1 ELSE o.version) \in Nat
  BY RecordTypes
<1>3. (o.truncated \/ n > LIMIT - o.kept) \in BOOLEAN
  BY Zenon
<1> QED
  BY <1>1, <1>2, <1>3, RecordTypes

LEMMA TypeInit == Init => TypeOK
<1> SUFFICES ASSUME Init PROVE TypeOK
  OBVIOUS
<1>1. FlagsOK
  BY DEF Init, FlagsOK
<1>2. live \in LiveOutputs /\ live.version = 0
  BY DEF Init, LiveOutputs
<1>3. update \in Updates
  BY DEF Init, NoOutput, Updates
<1>4. StateOK
  BY <1>2, <1>3 DEF Init, StateOK, Processes
<1> QED
  BY <1>1, <1>4 DEF TypeOK

LEMMA FlagsNext == FlagsOK /\ [Next]_vars => FlagsOK'
<1> SUFFICES ASSUME FlagsOK, [Next]_vars PROVE FlagsOK'
  OBVIOUS
<1> USE DEF FlagsOK, runVars
<1>1. CASE RunStep
  BY <1>1, Zenon DEF RunStep, Spawn, SpawnFails, Exited, WaitExpires, Reaped, Drained,
    DrainExpires, GraceEnds, Returns, Expires
<1>2. CASE Capture \/ Eof \/ Update \/ Sent
  BY <1>2, Zenon DEF Capture, Eof, Update, Sent
<1>3. CASE ProcessStep
  BY <1>3, Zenon DEF ProcessStep, Fork, CloseOutput, Exit, Write
<1>4. CASE DeadlinePasses \/ Cancel \/ Over \/ UNCHANGED vars
  BY <1>4, Zenon DEF DeadlinePasses, Cancel, Over, vars
<1> QED
  BY <1>1, <1>2, <1>3, <1>4 DEF Next

LEMMA StateNext == TypeOK /\ [Next]_vars => StateOK'
<1> SUFFICES ASSUME TypeOK, [Next]_vars PROVE StateOK'
  OBVIOUS
<1> USE DEF TypeOK, StateOK, runVars, streamVars, world, Processes, Group
<1>1. CASE RunStep
  BY <1>1 DEF RunStep, Spawn, SpawnFails, Exited, WaitExpires, Reaped, Drained,
    DrainExpires, GraceEnds, Returns, kill_group
<1>2. CASE Capture
  <2>1. PICK n \in 1..pipe :
          /\ pipe' = pipe - n
          /\ live' = [kept |-> Smaller(live.kept + n, LIMIT),
                      truncated |-> live.truncated \/ n > LIMIT - live.kept,
                      version |-> IF live.kept < LIMIT THEN live.version + 1 ELSE live.version]
    BY <1>2 DEF Capture
  <2>2. live' \in LiveOutputs
    BY <2>1, CaptureTypes
  <2>3. live'.version >= live.version
    BY <2>1, RecordTypes
  <2> QED
    BY <1>2, <2>1, <2>2, <2>3, RecordTypes DEF Capture
<1>3. CASE Eof
  BY <1>3 DEF Eof
<1>4. CASE Update
  <2>1. update' \in Updates
    BY <1>4, RecordTypes DEF Update
  <2> QED
    BY <1>4, <2>1, RecordTypes DEF Update
<1>5. CASE Sent
  BY <1>5 DEF Sent
<1>6. ASSUME NEW parent \in Processes, NEW child \in {"member", "stranger"},
             Fork(parent, child)
      PROVE  StateOK'
  BY <1>6 DEF Fork
<1>7. ASSUME NEW x \in Processes, CloseOutput(x) \/ Exit(x)
      PROVE  StateOK'
  BY <1>7 DEF CloseOutput, Exit
<1>8. CASE Write
  BY <1>8 DEF Write
<1>9. CASE DeadlinePasses \/ Cancel \/ Over \/ UNCHANGED vars
  BY <1>9 DEF DeadlinePasses, Cancel, Over, vars
<1> QED
  BY <1>1, <1>2, <1>3, <1>4, <1>5, <1>6, <1>7, <1>8, <1>9 DEF Next, ProcessStep

LEMMA TypeNext == TypeOK /\ [Next]_vars => TypeOK'
  BY FlagsNext, StateNext DEF TypeOK

-----------------------------------------------------------------------------
(* The inductive invariant.                                                *)

\* What leaves the pipe is captured, and only new output keeps the version.
LEMMA CapturedNext == ExecInv /\ [Next]_vars => CapturedInv' /\ SentIsCarried'
<1> SUFFICES ASSUME ExecInv, [Next]_vars PROVE CapturedInv' /\ SentIsCarried'
  OBVIOUS
<1> USE DEF ExecInv, TypeOK, StateOK, CapturedInv, SentIsCarried, runVars, streamVars, world
<1>1. CASE RunStep
  <2>1. /\ UNCHANGED <<live, streaming, streamVars, pipe, written>>
        /\ drain' = "eof" => drain = "eof" /\ (holds = {} => holds' = {})
    BY <1>1 DEF KilledInv, RunStep, Spawn, SpawnFails, Exited, WaitExpires, Reaped, Drained,
      DrainExpires, GraceEnds, Returns, kill_group
  <2> QED
    BY <2>1
<1>2. CASE Capture
  <2>1. PICK n \in 1..pipe :
          /\ drain = "running" /\ pipe' = pipe - n
          /\ live' = [kept |-> Smaller(live.kept + n, LIMIT),
                      truncated |-> live.truncated \/ n > LIMIT - live.kept,
                      version |-> IF live.kept < LIMIT THEN live.version + 1 ELSE live.version]
          /\ UNCHANGED <<drain, streaming, sent_version, update, holds, written>>
    BY <1>2 DEF Capture
  <2>2. pipe' <= written' /\ live'.kept = Smaller(written' - pipe', LIMIT)
    BY <2>1, RecordTypes DEF Smaller
  <2>3. live'.truncated <=> written' - pipe' > LIMIT
    <3>1. live'.truncated <=> live.truncated \/ n > LIMIT - live.kept
      BY <2>1
    <3>2. written - pipe > LIMIT \/ n > LIMIT - live.kept <=> written' - pipe' > LIMIT
      BY <2>1, RecordTypes DEF Smaller
    <3> QED
      BY <3>1, <3>2
  <2>4. SentIsCarried'
    BY <2>1, RecordTypes DEF Smaller
  <2> QED
    BY <2>1, <2>2, <2>3, <2>4
<1>3. CASE Eof
  BY <1>3 DEF Eof
<1>4. CASE Update
  BY <1>4 DEF Update
<1>5. CASE Sent
  BY <1>5 DEF Sent
<1>6. CASE ProcessStep
  BY <1>6 DEF ProcessStep, Fork, CloseOutput, Exit, Write
<1>7. CASE DeadlinePasses \/ Cancel \/ Over \/ UNCHANGED vars
  BY <1>7 DEF DeadlinePasses, Cancel, Over, vars
<1> QED
  BY <1>1, <1>2, <1>3, <1>4, <1>5, <1>6, <1>7 DEF Next

\* Nothing of a killed group is alive, and nobody is left to fork into it.
LEMMA KilledNext == ExecInv /\ [Next]_vars => KilledInv'
<1> SUFFICES ASSUME ExecInv, [Next]_vars PROVE KilledInv'
  OBVIOUS
<1> USE DEF ExecInv, TypeOK, StateOK, KilledInv, KilledWithChildren, Ended, Group, runVars,
    streamVars, world
<1>1. CASE Spawn \/ SpawnFails \/ Exited
  BY <1>1 DEF Spawn, SpawnFails, Exited
<1>2. CASE WaitExpires
  BY <1>2 DEF WaitExpires, Expires, kill_group
<1>3. CASE Reaped
  BY <1>3 DEF Reaped, kill_group
<1>4. CASE Drained
  BY <1>4 DEF Drained
<1>5. CASE DrainExpires
  BY <1>5 DEF DrainExpires, Expires, kill_group
<1>6. CASE GraceEnds
  BY <1>6 DEF GraceEnds
<1>7. CASE Returns
  BY <1>7 DEF Returns
<1>8. CASE Capture \/ Eof \/ Update \/ Sent
  BY <1>8 DEF Capture, Eof, Update, Sent, Running
<1>9. CASE ProcessStep
  BY <1>9 DEF ProcessStep, Fork, CloseOutput, Exit, Write, Processes
<1>10. CASE DeadlinePasses \/ Cancel \/ Over \/ UNCHANGED vars
  BY <1>10 DEF DeadlinePasses, Cancel, Over, vars
<1> QED
  BY <1>1, <1>2, <1>3, <1>4, <1>5, <1>6, <1>7, <1>8, <1>9, <1>10 DEF Next, RunStep

\* The inductive invariant holds in every reachable state.
THEOREM ExecInvariance == Spec => []ExecInv
<1>1. Init => ExecInv
  <2> SUFFICES ASSUME Init PROVE ExecInv
    OBVIOUS
  <2>1. CapturedInv /\ SentIsCarried
    BY DEF Init, CapturedInv, SentIsCarried, NoOutput, Smaller
  <2>2. KilledInv
    BY DEF Init, KilledInv, KilledWithChildren, Ended
  <2> QED
    BY <2>1, <2>2, TypeInit DEF ExecInv
<1>2. ExecInv /\ [Next]_vars => ExecInv'
  BY TypeNext, CapturedNext, KilledNext DEF ExecInv
<1> QED
  BY <1>1, <1>2, PTL DEF Spec

\* A timed-out or cancelled command is killed along with its children.
THEOREM KilledCommandsAreDead == Spec => []KilledWithChildren
<1>1. ExecInv => KilledWithChildren
  BY DEF ExecInv, KilledInv
<1> QED
  BY <1>1, ExecInvariance, PTL

\* A command that ends by itself has all of its output captured, up to the
\* limit, whatever the limit and however the output comes in chunks.
THEOREM OutputIsComplete == Spec => []OutputIsWhole
<1>1. ExecInv => OutputIsWhole
  BY DEF ExecInv, KilledInv, CapturedInv, OutputIsWhole, TypeOK, StateOK
<1> QED
  BY <1>1, ExecInvariance, PTL

\* No output is taken for sent that no update carried.
THEOREM SentOutputIsCarried == Spec => []SentIsCarried
<1>1. ExecInv => SentIsCarried
  BY DEF ExecInv
<1> QED
  BY <1>1, ExecInvariance, PTL
=============================================================================
