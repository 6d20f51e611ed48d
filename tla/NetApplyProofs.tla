--------------------------- MODULE NetApplyProofs ---------------------------
(***************************************************************************)
(* Proofs about NetApply, for every value of its constants.                *)
(***************************************************************************)
EXTENDS NetApply, TLAPS

USE NumbersAssumption, WindowAssumption

-----------------------------------------------------------------------------
(* nmcli's wait.                                                           *)

\* nmcli_wait is a number, and a window of any accepted length has room for a
\* slow reply to CheckpointCreate followed by one whole nmcli command.
LEMMA NmcliWaitFits ==
  ASSUME NEW r \in MIN_ROLLBACK..MAX_ROLLBACK
  PROVE  /\ NmcliWait(r) \in Nat
         /\ TOOL_TIMEOUT + NmcliWait(r) + NMCLI_GRACE <= r
  BY DEF NmcliWait, Clamp

\* clamp() keeps a requested window between its limits.
LEMMA ClampInRange ==
  ASSUME NEW n \in Nat
  PROVE  Clamp(n, MIN_ROLLBACK, MAX_ROLLBACK) \in MIN_ROLLBACK..MAX_ROLLBACK
  BY DEF Clamp

\* The source's own numbers satisfy both assumptions on them, and leave room
\* for every window a request may ask for (netapply.rs:27-36, 419-421).
THEOREM SourceNumbersFit ==
  \A r \in 30..300 :
    10 + Clamp(IF r >= 20 THEN r - 20 ELSE 0, 10, 45) + 10 <= r
  BY DEF Clamp
-----------------------------------------------------------------------------
(* Type correctness.                                                       *)

LEMMA ReplyTypes ==
  /\ NoReply \in Replies
  /\ \A e \in Errors : Error(e) \in Replies
  /\ \A a, v, r \in BOOLEAN, n \in Notes : Outcome(a, v, r, n) \in Replies
  /\ \A n \in Notes : RolledBack(n) \in Replies
  BY DEF NoReply, Error, Outcome, RolledBack, Replies, Errors, Notes

LEMMA CheckpointTypes ==
  ASSUME NEW k \in Configs, NEW p \in Configs, NEW a \in Configs, NEW t \in Nat,
         NEW s \in {"none", "pending", "destroyed", "restored"}, NEW c \in Checkpoints
  PROVE  /\ [state |-> s, owner |-> k, profile |-> p, active |-> a, at |-> t] \in Checkpoints
         /\ [c EXCEPT !.state = s] \in Checkpoints
         /\ c.profile \in Configs /\ c.active \in Configs
  BY DEF Checkpoints

LEMMA TypeInit == Init => TypeOK
<1> SUFFICES ASSUME Init PROVE TypeOK
  OBVIOUS
<1>1. 0 \in Configs /\ reaches \subseteq Configs
  BY DEF Configs, Init
<1>2. cp \in Checkpoints
  BY <1>1 DEF Init, Checkpoints
<1>3. reply \in Replies
  BY ReplyTypes DEF Init
<1>4. rollback \in MIN_ROLLBACK..MAX_ROLLBACK
  BY DEF Init
<1>5. FlagsOK
  BY DEF Init, FlagsOK
<1>6. StateOK
  BY <1>1, <1>2, <1>3, <1>4 DEF Init, StateOK, Ops, Steps
<1> QED
  BY <1>5, <1>6 DEF TypeOK

(* How a step of the app moves on: every one ends in Run, which clears     *)
(* "served", and leaves a well-formed reply.                               *)
Moved == pc' \in Steps /\ due' \in Nat /\ reply' \in Replies /\ served' = FALSE

LEMMA RunMoves ==
  ASSUME TypeOK, NEW step \in Steps, NEW t \in Nat, Run(step, t), reply' \in Replies
  PROVE  Moved
  BY DEF TypeOK, StateOK, Run, Moved

LEMMA FailMoves ==
  ASSUME TypeOK, NEW e \in Errors, Fail(e)
  PROVE  Moved
  BY RunMoves, ReplyTypes DEF Fail, Steps

LEMMA FinishMoves ==
  ASSUME TypeOK, NEW r \in Replies, Finish(r)
  PROVE  Moved
<1>1. CASE cancelled
  BY <1>1, FailMoves DEF Finish, Errors
<1>2. CASE ~cancelled
  BY <1>2, RunMoves DEF Finish, Steps, ToolSteps
<1> QED BY <1>1, <1>2

LEMMA AwaitMoves ==
  ASSUME TypeOK, Await
  PROVE  Moved
  BY DEF TypeOK, StateOK, Await, Moved, Steps

LEMMA UnverifiedMoves ==
  ASSUME TypeOK, Unverified
  PROVE  Moved
<1>1. Outcome(TRUE, FALSE, FALSE, "none") \in Replies
  BY ReplyTypes DEF Notes
<1> QED
  BY <1>1, AwaitMoves, FinishMoves DEF Unverified

LEMMA VerifyMoves ==
  ASSUME TypeOK, Verify
  PROVE  Moved
<1>1. CASE now >= VerifyUntil
  BY <1>1, UnverifiedMoves DEF Verify
<1>2. CASE ~(now >= VerifyUntil)
  BY <1>2, RunMoves DEF Verify, Steps, ToolSteps, TypeOK, StateOK
<1> QED BY <1>1, <1>2

LEMMA StartCommandMoves ==
  ASSUME TypeOK, NEW i \in 1..2, StartCommand(i)
  PROVE  Moved /\ cmd' \in 1..2
<1>1. NmcliWait(rollback) + NMCLI_GRACE \in Nat
  BY NmcliWaitFits DEF TypeOK, StateOK
<1>2. reply' \in Replies /\ Run("command", NmcliWait(rollback) + NMCLI_GRACE) /\ cmd' = i
  BY DEF StartCommand, TypeOK, StateOK
<1>3. "command" \in Steps
  BY DEF Steps, ToolSteps
<1> QED
  BY <1>1, <1>2, <1>3, RunMoves

LEMMA CallTypes ==
  ASSUME TypeOK, NEW o \in Ops, NEW asked \in AskedRollbacks, Call(o, asked)
  PROVE  TypeOK'
<1>1. FlagsOK'
  BY DEF Call, Run, FlagsOK
<1>2. StateOK'
  BY ClampInRange, ReplyTypes
  DEF Call, Run, nmVars, Configs, StateOK, Steps, ToolSteps, TypeOK
<1> QED
  BY <1>1, <1>2 DEF TypeOK

LEMMA ResolvedTypes ==
  ASSUME TypeOK, Resolved
  PROVE  TypeOK'
<1>1. FlagsOK'
  BY DEF Resolved, Run, FlagsOK, TypeOK
<1>2. StateOK'
  BY DEF Resolved, Run, nmVars, StateOK, Steps, ToolSteps, DbusCalls, TypeOK
<1> QED
  BY <1>1, <1>2 DEF TypeOK

LEMMA ProceedTypes ==
  ASSUME TypeOK, NEW c \in BOOLEAN, Proceed(c)
  PROVE  TypeOK'
<1>1. Moved /\ cmd' \in 1..2
  BY StartCommandMoves DEF Proceed
<1>2. FlagsOK'
  BY <1>1 DEF Proceed, Moved, FlagsOK, TypeOK
<1>3. rollback_by' \in Nat
  BY DEF Proceed, RollbackBy, TypeOK, StateOK
<1>4. StateOK'
  BY <1>1, <1>3 DEF Proceed, Moved, nmVars, StateOK, TypeOK
<1> QED
  BY <1>2, <1>4 DEF TypeOK

LEMMA CommandSucceedsTypes ==
  ASSUME TypeOK, CommandSucceeds
  PROVE  TypeOK'
<1>1. Moved /\ cmd' \in 1..2
  <2>1. CASE cmd < Commands(op)
    <3>1. cmd + 1 \in 1..2 /\ StartCommand(cmd + 1)
      BY <2>1 DEF CommandSucceeds, Commands, TypeOK, StateOK
    <3> QED BY <3>1, StartCommandMoves
  <2>2. CASE ~(cmd < Commands(op))
    BY <2>2, VerifyMoves DEF CommandSucceeds, TypeOK, StateOK
  <2> QED BY <2>1, <2>2
<1>2. FlagsOK'
  BY <1>1 DEF CommandSucceeds, Moved, FlagsOK, TypeOK
<1>3. StateOK'
  BY <1>1 DEF CommandSucceeds, Moved, nmVars, StateOK, TypeOK
<1> QED
  BY <1>2, <1>3 DEF TypeOK

LEMMA MovesKeepTypes ==
  ASSUME TypeOK, Moved, UNCHANGED <<now, callVars, cancelled, nmVars, reaches>>
  PROVE  TypeOK'
<1>1. FlagsOK'
  BY DEF TypeOK, FlagsOK, Moved, callVars
<1>2. StateOK'
  BY DEF TypeOK, StateOK, Moved, callVars, nmVars
<1> QED
  BY <1>1, <1>2 DEF TypeOK

LEMMA AppStepTypes ==
  ASSUME TypeOK, AppStep
  PROVE  TypeOK'
<1> DEFINE Rest == UNCHANGED <<now, callVars, cancelled, nmVars, reaches>>
<1> reply \in Replies
  BY DEF TypeOK, StateOK
<1> USE RunMoves, FailMoves, FinishMoves, AwaitMoves, UnverifiedMoves, ReplyTypes
<1>1. CASE Resolved
  BY <1>1, ResolvedTypes
<1>2. CASE ResolveFails
  <2>1. Moved /\ Rest
    BY <1>2 DEF ResolveFails, Errors
  <2> QED BY <2>1, MovesKeepTypes
<1>3. CASE CheckpointCreated
  BY <1>3, ProceedTypes DEF CheckpointCreated
<1>4. CASE CheckpointUnavailable
  <2>1. CASE op = "up"
    BY <1>4, <2>1, ProceedTypes DEF CheckpointUnavailable
  <2>2. CASE op # "up"
    <3>1. Moved /\ Rest
      BY <1>4, <2>2 DEF CheckpointUnavailable, Errors
    <3> QED BY <3>1, MovesKeepTypes
  <2> QED BY <2>1, <2>2
<1>5. CASE CheckpointFailed
  <2>1. Moved /\ Rest
    BY <1>5 DEF CheckpointFailed, Errors
  <2> QED BY <2>1, MovesKeepTypes
<1>6. CASE CommandSucceeds
  BY <1>6, CommandSucceedsTypes
<1>7. CASE CommandFails
  <2>1. Moved
    <3>1. CASE cancelled
      BY <1>7, <3>1 DEF CommandFails, Errors
    <3>2. CASE ~cancelled /\ held
      BY <1>7, <3>2 DEF CommandFails, Steps, ToolSteps, DbusCalls
    <3>3. CASE ~cancelled /\ ~held
      BY <1>7, <3>3 DEF CommandFails, Notes
    <3> QED BY <3>1, <3>2, <3>3
  <2> QED BY <1>7, <2>1, MovesKeepTypes DEF CommandFails
<1>8. CASE RollbackSucceeds
  <2>1. Moved /\ Rest
    BY <1>8 DEF RollbackSucceeds, Notes
  <2> QED BY <2>1, MovesKeepTypes
<1>9. CASE RollbackFails
  BY <1>9, MovesKeepTypes DEF RollbackFails
<1>10. CASE CheckAnswers
  <2>1. Moved
    <3>1. CASE cancelled
      BY <1>10, <3>1 DEF CheckAnswers, Errors
    <3>2. CASE ~cancelled /\ held
      BY <1>10, <3>2 DEF CheckAnswers, Steps, ToolSteps, DbusCalls
    <3>3. CASE ~cancelled /\ ~held
      BY <1>10, <3>3 DEF CheckAnswers, Notes
    <3> QED BY <3>1, <3>2, <3>3
  <2> QED BY <1>10, <2>1, MovesKeepTypes DEF CheckAnswers
<1>11. CASE CheckFails
  <2>1. Moved
    <3>1. CASE cancelled
      BY <1>11, <3>1 DEF CheckFails, Errors
    <3>2. CASE ~cancelled /\ now + VERIFY_POLL >= VerifyUntil
      BY <1>11, <3>2 DEF CheckFails
    <3>3. CASE ~cancelled /\ ~(now + VERIFY_POLL >= VerifyUntil)
      BY <1>11, <3>3 DEF CheckFails, Steps
    <3> QED BY <3>1, <3>2, <3>3
  <2> QED BY <1>11, <2>1, MovesKeepTypes DEF CheckFails
<1>12. CASE PollEnds
  <2>1. Moved
    BY <1>12 DEF PollEnds, Steps, ToolSteps
  <2> QED BY <1>12, <2>1, MovesKeepTypes DEF PollEnds
<1>13. CASE DestroySucceeds
  <2>1. Moved /\ Rest
    BY <1>13 DEF DestroySucceeds, Notes
  <2> QED BY <2>1, MovesKeepTypes
<1>14. CASE DestroyFails
  BY <1>14, MovesKeepTypes DEF DestroyFails
<1>15. CASE AwaitEnds
  <2>1. Moved
    BY <1>15 DEF AwaitEnds, Errors, Steps, ToolSteps
  <2> QED BY <1>15, <2>1, MovesKeepTypes DEF AwaitEnds
<1>16. CASE Listed
  <2>1. Moved
    <3>1. CASE Pending /\ Mine /\ ~cancelled
      BY <1>16, <3>1 DEF Listed, Steps, ToolSteps, DbusCalls
    <3>2. CASE ~(Pending /\ Mine /\ ~cancelled)
      BY <1>16, <3>2 DEF Listed, Notes
    <3> QED BY <3>1, <3>2
  <2> QED BY <1>16, <2>1, MovesKeepTypes DEF Listed
<1>17. CASE ListFails
  <2>1. Moved /\ Rest
    BY <1>17 DEF ListFails, Notes
  <2> QED BY <2>1, MovesKeepTypes
<1>18. CASE ExplicitSucceeds
  <2>1. Moved /\ Rest
    BY <1>18 DEF ExplicitSucceeds, Notes
  <2> QED BY <2>1, MovesKeepTypes
<1>19. CASE ExplicitFails
  <2>1. Moved /\ Rest
    BY <1>19 DEF ExplicitFails, Notes
  <2> QED BY <2>1, MovesKeepTypes
<1>20. CASE StatusRead
  <2>1. Moved
    BY <1>20 DEF StatusRead, Steps
  <2> QED BY <1>20, <2>1, MovesKeepTypes DEF StatusRead
<1>21. CASE Returns
  <2>1. Moved
    BY <1>21 DEF Returns, Steps, Errors
  <2> QED BY <1>21, <2>1, MovesKeepTypes DEF Returns
<1> QED
  BY <1>1, <1>2, <1>3, <1>4, <1>5, <1>6, <1>7, <1>8, <1>9, <1>10, <1>11, <1>12,
     <1>13, <1>14, <1>15, <1>16, <1>17, <1>18, <1>19, <1>20, <1>21 DEF AppStep

LEMMA EnvironmentTypes ==
  ASSUME TypeOK,
         CreateServed \/ CommandServed \/ RollbackServed \/ DestroyServed \/ Fires
           \/ Cancel \/ Crash \/ Tick \/ Quiet
  PROVE  TypeOK'
<1>1. CASE CreateServed
  <2>1. FlagsOK'
    BY <1>1 DEF CreateServed, FlagsOK, TypeOK, callVars
  <2>2. cp' \in Checkpoints
    BY <1>1 DEF CreateServed, Checkpoints, TypeOK, StateOK
  <2>3. StateOK'
    BY <1>1, <2>2 DEF CreateServed, StateOK, TypeOK, callVars
  <2> QED BY <2>1, <2>3 DEF TypeOK
<1>2. CASE CommandServed
  <2>1. FlagsOK'
    BY <1>2 DEF CommandServed, FlagsOK, TypeOK, callVars
  <2>2. StateOK'
    BY <1>2 DEF CommandServed, StateOK, TypeOK, callVars
  <2> QED BY <2>1, <2>2 DEF TypeOK
<1>3. CASE RollbackServed
  <2>1. FlagsOK'
    BY <1>3 DEF RollbackServed, FlagsOK, TypeOK, callVars
  <2>2. StateOK'
    BY <1>3, CheckpointTypes
    DEF RollbackServed, Restore, Restored, StateOK, TypeOK, callVars
  <2> QED BY <2>1, <2>2 DEF TypeOK
<1>4. CASE DestroyServed
  <2>1. FlagsOK'
    BY <1>4 DEF DestroyServed, FlagsOK, TypeOK, callVars
  <2>2. StateOK'
    BY <1>4, CheckpointTypes DEF DestroyServed, StateOK, TypeOK, callVars
  <2> QED BY <2>1, <2>2 DEF TypeOK
<1>5. CASE Fires
  <2>1. FlagsOK'
    BY <1>5 DEF Fires, FlagsOK, TypeOK, callVars
  <2>2. StateOK'
    BY <1>5, CheckpointTypes DEF Fires, Restore, Restored, StateOK, TypeOK, callVars
  <2> QED BY <2>1, <2>2 DEF TypeOK
<1>6. CASE Cancel
  <2>1. FlagsOK'
    BY <1>6 DEF Cancel, FlagsOK, TypeOK, callVars
  <2>2. StateOK'
    BY <1>6 DEF Cancel, StateOK, TypeOK, callVars, nmVars
  <2> QED BY <2>1, <2>2 DEF TypeOK
<1>7. CASE Crash
  <2>1. FlagsOK'
    BY <1>7 DEF Crash, Run, FlagsOK, TypeOK
  <2>2. StateOK'
    BY <1>7, ReplyTypes DEF Crash, Run, StateOK, TypeOK, nmVars, Steps
  <2> QED BY <2>1, <2>2 DEF TypeOK
<1>8. CASE Tick
  <2>1. FlagsOK'
    BY <1>8 DEF Tick, FlagsOK, TypeOK, callVars
  <2>2. StateOK'
    BY <1>8 DEF Tick, StateOK, TypeOK, callVars, nmVars
  <2> QED BY <2>1, <2>2 DEF TypeOK
<1>9. CASE Quiet
  <2>1. FlagsOK'
    BY <1>9 DEF Quiet, vars, FlagsOK, TypeOK, callVars
  <2>2. StateOK'
    BY <1>9 DEF Quiet, vars, StateOK, TypeOK, callVars, nmVars
  <2> QED BY <2>1, <2>2 DEF TypeOK
<1> QED
  BY <1>1, <1>2, <1>3, <1>4, <1>5, <1>6, <1>7, <1>8, <1>9

LEMMA TypeNext == TypeOK /\ [Next]_vars => TypeOK'
<1> SUFFICES ASSUME TypeOK, [Next]_vars PROVE TypeOK'
  OBVIOUS
<1>1. CASE UNCHANGED vars
  <2>1. FlagsOK'
    BY <1>1 DEF vars, FlagsOK, TypeOK, callVars
  <2>2. StateOK'
    BY <1>1 DEF vars, StateOK, TypeOK, callVars, nmVars
  <2> QED BY <2>1, <2>2 DEF TypeOK
<1>2. CASE Next
  BY <1>2, CallTypes, AppStepTypes, EnvironmentTypes DEF Next
<1> QED
  BY <1>1, <1>2

\* Every reachable state of the flow, of NetworkManager and of the clock is
\* well-formed, whatever the numbers.
THEOREM TypeCorrect == Spec => []TypeOK
  BY TypeInit, TypeNext, PTL DEF Spec

-----------------------------------------------------------------------------
(* The inductive invariant.  TypeOK is kept by TypeNext; SafeParts is the  *)
(* rest of it.  Its parts lean on each other, so each action is shown to   *)
(* keep them all: CommandInv and VerifyInv bound the clock by the timer,   *)
(* which rules out Fires in the steps that need the checkpoint, ConfigInv  *)
(* says what a rollback restores, and EndInv carries both to the report.   *)
SafeParts ==
  /\ ConfigInv /\ FreshInv /\ HeldInv /\ PlaceInv /\ CreateInv
  /\ CommandInv /\ VerifyInv /\ EndInv /\ ReportInv

LEMMA SafeInit == Init => SafeParts
<1> SUFFICES ASSUME Init PROVE SafeParts
  OBVIOUS
<1>1. ConfigInv /\ HeldInv
  BY DEF Init, ConfigInv, HeldInv, Pending
<1>2. FreshInv /\ ReportInv
  BY DEF Init, FreshInv, ReportInv, Untouched, NoChangeErrors, NoReply, Error
<1>3. PlaceInv
  BY DEF Init, PlaceInv, Configs
<1>4. CreateInv /\ CommandInv /\ VerifyInv /\ EndInv
  BY DEF Init, CreateInv, CommandInv, VerifyInv, EndInv
<1> QED
  BY <1>1, <1>2, <1>3, <1>4 DEF SafeParts

LEMMA CallSafe ==
  ASSUME IInv, NEW o \in Ops, NEW asked \in AskedRollbacks, Call(o, asked)
  PROVE  SafeParts'
  BY DEF Call, Run, nmVars, NoReply, Error, SafeParts, IInv, TypeOK, StateOK, Configs,
    Checkpoints, Pending, Mine, Untouched, NoChangeErrors, ConfigInv, FreshInv, HeldInv,
    PlaceInv, CreateInv,
    CommandInv, VerifyInv, EndInv, ReportInv

LEMMA AppStepSafe ==
  ASSUME IInv, AppStep
  PROVE  SafeParts'
<1> USE DEF SafeParts, IInv, TypeOK, StateOK, Configs, Checkpoints, Pending, Mine, Untouched,
    NoChangeErrors,
    ConfigInv, FreshInv, HeldInv, PlaceInv, CreateInv, CommandInv, VerifyInv, EndInv,
    ReportInv, VerifyUntil, RollbackBy, Commands
<1>1. CASE Resolved
  BY <1>1 DEF Resolved, Run, nmVars
<1>2. CASE ResolveFails
  BY <1>2 DEF ResolveFails, Fail, Run, Error, callVars, nmVars
<1>3. CASE CheckpointCreated
  BY <1>3, NmcliWaitFits DEF CheckpointCreated, Proceed, StartCommand, Run,
    Answered, nmVars
<1>4. CASE CheckpointUnavailable
  BY <1>4, NmcliWaitFits DEF CheckpointUnavailable, Proceed, StartCommand, Run,
    Fail, Error, nmVars, callVars
<1>5. CASE CheckpointFailed
  BY <1>5 DEF CheckpointFailed, Failed, Fail, Run, Error, callVars, nmVars
<1>6. CASE CommandSucceeds
  BY <1>6, NmcliWaitFits DEF CommandSucceeds, Answered, StartCommand, Verify,
    Unverified, Await, Finish, Fail, Run, Error, Outcome, nmVars
<1>7. CASE CommandFails
  BY <1>7 DEF CommandFails, Finish, Fail, Run, Error, Outcome, callVars, nmVars
<1>8. CASE RollbackSucceeds
  BY <1>8 DEF RollbackSucceeds, Answered, Finish, Fail, Run, Error, RolledBack,
    Outcome, callVars, nmVars
<1>9. CASE RollbackFails
  BY <1>9 DEF RollbackFails, Failed, Await, Run, callVars, nmVars
<1>10. CASE CheckAnswers
  BY <1>10 DEF CheckAnswers, Finish, Fail, Run, Error, Outcome, callVars, nmVars
<1>11. CASE CheckFails
  BY <1>11 DEF CheckFails, Finish, Fail, Run, Error, Outcome, Unverified, Await,
    callVars, nmVars
<1>12. CASE PollEnds
  BY <1>12 DEF PollEnds, Run, callVars, nmVars
<1>13. CASE DestroySucceeds
  BY <1>13 DEF DestroySucceeds, Answered, Finish, Fail, Run, Error, Outcome,
    callVars, nmVars
<1>14. CASE DestroyFails
  BY <1>14 DEF DestroyFails, Failed, Await, callVars, nmVars
<1>15. CASE AwaitEnds
  BY <1>15 DEF AwaitEnds, Fail, Run, Error, callVars, nmVars
<1>16. CASE Listed
  BY <1>16 DEF Listed, Finish, Fail, Run, Error, RolledBack, Outcome, callVars,
    nmVars
<1>17. CASE ListFails
  BY <1>17 DEF ListFails, Finish, Fail, Run, Error, RolledBack, Outcome,
    callVars, nmVars
<1>18. CASE ExplicitSucceeds
  BY <1>18 DEF ExplicitSucceeds, Answered, Finish, Fail, Run, Error, RolledBack,
    Outcome, callVars, nmVars
<1>19. CASE ExplicitFails
  BY <1>19 DEF ExplicitFails, Failed, Finish, Fail, Run, Error, RolledBack,
    Outcome, callVars, nmVars
<1>20. CASE StatusRead
  BY <1>20 DEF StatusRead, Run, callVars, nmVars
<1>21. CASE Returns
  BY <1>21 DEF Returns, Run, Error, callVars, nmVars
<1> QED
  BY <1>1, <1>2, <1>3, <1>4, <1>5, <1>6, <1>7, <1>8, <1>9, <1>10, <1>11, <1>12,
     <1>13, <1>14, <1>15, <1>16, <1>17, <1>18, <1>19, <1>20, <1>21 DEF AppStep

LEMMA EnvironmentSafe ==
  ASSUME IInv,
         CreateServed \/ CommandServed \/ RollbackServed \/ DestroyServed \/ Fires
           \/ Cancel \/ Crash \/ Tick
  PROVE  SafeParts'
<1> USE DEF SafeParts, IInv, TypeOK, StateOK, Configs, Checkpoints, Pending, Mine, Untouched,
    NoChangeErrors,
    ConfigInv, FreshInv, HeldInv, PlaceInv, CreateInv, CommandInv, VerifyInv, EndInv,
    ReportInv, VerifyUntil, Commands
<1>1. CASE CreateServed
  BY <1>1 DEF CreateServed, Serving, callVars
<1>2. CASE CommandServed
  BY <1>2 DEF CommandServed, Serving, callVars
<1>3. CASE RollbackServed
  BY <1>3 DEF RollbackServed, Serving, Restore, Restored, callVars
<1>4. CASE DestroyServed
  BY <1>4 DEF DestroyServed, Serving, callVars
<1>5. CASE Fires
  BY <1>5 DEF Fires, Restore, Restored, callVars
<1>6. CASE Cancel
  BY <1>6 DEF Cancel, callVars, nmVars
<1>7. CASE Crash
  BY <1>7 DEF Crash, Run, NoReply, Error, nmVars
<1>8. CASE Tick
  BY <1>8 DEF Tick, callVars, nmVars
<1> QED
  BY <1>1, <1>2, <1>3, <1>4, <1>5, <1>6, <1>7, <1>8

LEMMA SafeStutters ==
  ASSUME IInv, UNCHANGED vars
  PROVE  SafeParts'
  BY DEF vars, callVars, nmVars, SafeParts, IInv, ConfigInv, FreshInv, HeldInv, PlaceInv,
    CreateInv, CommandInv, VerifyInv, EndInv, ReportInv, VerifyUntil, Commands, Pending,
    Mine, Untouched, NoChangeErrors

LEMMA SafeNext == IInv /\ [Next]_vars => IInv'
<1> SUFFICES ASSUME IInv, [Next]_vars PROVE IInv'
  OBVIOUS
<1>1. TypeOK'
  BY TypeNext DEF IInv
<1>2. SafeParts'
  BY CallSafe, AppStepSafe, EnvironmentSafe, SafeStutters DEF Next, Quiet
<1> QED
  BY <1>1, <1>2 DEF IInv, SafeParts

\* The inductive invariant holds in every reachable state, for every value of
\* the constants the assumptions allow.
THEOREM Invariance == Spec => []IInv
<1>1. Init => IInv
  BY TypeInit, SafeInit DEF IInv, SafeParts
<1> QED
  BY <1>1, SafeNext, PTL DEF Spec

-----------------------------------------------------------------------------
(* What follows from it.                                                   *)

\* A device that can't reach the platform has a pending checkpoint that will
\* put it back on a configuration that can: whatever was cancelled, refused,
\* lost or killed, and whenever the app died.
THEOREM DeviceNeverStranded == Spec => []NeverStranded
<1>1. IInv => NeverStranded
  BY DEF IInv, ConfigInv, NeverStranded
<1> QED
  BY <1>1, Invariance, PTL

\* A check of the platform under a checkpoint is a check of the change, never
\* of a configuration the timer has put back.
THEOREM ChecksSeeTheChange == Spec => []CheckSeesTheChange
<1>1. IInv => CheckSeesTheChange
  BY DEF IInv, VerifyInv, CheckSeesTheChange
<1> QED
  BY <1>1, Invariance, PTL

\* NetworkManager is never asked for its verdict before its timer is due.
THEOREM VerdictsAreNotEarly == Spec => []NoEarlyVerdict
<1>1. IInv => NoEarlyVerdict
  BY DEF IInv, TypeOK, StateOK, Checkpoints, PlaceInv, HeldInv, NoEarlyVerdict
<1> QED
  BY <1>1, Invariance, PTL

\* "applied" under a checkpoint is true, and stays so.
THEOREM KeptReportsAreTrue == Spec => []KeptReportIsTrue
<1>1. IInv => KeptReportIsTrue
  BY DEF IInv, ReportInv, HeldInv, KeptReportIsTrue
<1> QED
  BY <1>1, Invariance, PTL

\* The errors that say "no change was made" are true.
THEOREM ErrorsAreClean == Spec => []ErrorsChangeNothing
<1>1. IInv => ErrorsChangeNothing
  BY DEF IInv, FreshInv, Untouched, ErrorsChangeNothing
<1> QED
  BY <1>1, Invariance, PTL

\* "rolled_back" is true as long as no reply of a served D-Bus call is lost.
\* (When one is, it may be false: a lost reply to CheckpointDestroy.)
THEOREM RolledBackReportsAreTrue ==
  ~LostReplies => (Spec => []RolledBackReportIsTrue)
<1> SUFFICES ASSUME ~LostReplies PROVE Spec => []RolledBackReportIsTrue
  OBVIOUS
<1>1. IInv => RolledBackReportIsTrue
  BY DEF IInv, ReportInv, HeldInv, RolledBackReportIsTrue
<1> QED
  BY <1>1, Invariance, PTL

-----------------------------------------------------------------------------
(* NetApply implements SafeChange: CreateServed is Protect, a command that *)
(* takes effect is Try (or ChangeHarmlessly, without a checkpoint or after *)
(* its timer), DestroyServed is Keep, a rollback is Restore; every other   *)
(* step leaves the configuration and its guard alone.                      *)

LEMMA QuietSteps ==
  ASSUME UNCHANGED <<nmVars, reaches>>
  PROVE  UNCHANGED Safe!vars
  BY DEF nmVars, Safe!vars, Guard, Pending

LEMMA AppStepIsQuiet ==
  ASSUME AppStep
  PROVE  UNCHANGED <<nmVars, reaches>>
  BY DEF AppStep, Resolved, ResolveFails, CheckpointCreated, CheckpointUnavailable, Proceed,
    CheckpointFailed, CommandSucceeds, CommandFails, RollbackSucceeds, RollbackFails,
    CheckAnswers, CheckFails, PollEnds, DestroySucceeds, DestroyFails, AwaitEnds, Listed,
    ListFails, ExplicitSucceeds, ExplicitFails, StatusRead, Returns

LEMMA StepRefines ==
  ASSUME IInv, [Next]_vars
  PROVE  [Safe!Next]_(Safe!vars)
<1>1. CASE CreateServed
  <2>1. Safe!Protect
    BY <1>1 DEF CreateServed, Safe!Protect, Guard, Pending
  <2> QED BY <2>1 DEF Safe!Next
<1>2. CASE CommandServed
  <2>1. CASE Pending
    <3>1. Safe!Try
      BY <1>2, <2>1, TypeNext DEF CommandServed, IInv, TypeOK, StateOK, Configs, Safe!Try, Guard, Pending
    <3> QED BY <3>1 DEF Safe!Next
  <2>2. CASE ~Pending
    <3>1. Safe!ChangeHarmlessly
      BY <1>2, <2>2
      DEF CommandServed, Serving, IInv, TypeOK, StateOK, ConfigInv, PlaceInv, CommandInv,
        Safe!ChangeHarmlessly, Guard, Pending
    <3> QED BY <3>1 DEF Safe!Next
  <2> QED BY <2>1, <2>2
<1>3. CASE RollbackServed \/ Fires
  <2>1. Safe!Restore
    BY <1>3 DEF RollbackServed, Fires, Restore, Restored, IInv, TypeOK, StateOK, Checkpoints,
      Safe!Restore, Guard, Pending
  <2> QED BY <2>1 DEF Safe!Next
<1>4. CASE DestroyServed
  <2>1. Safe!Keep
    BY <1>4 DEF DestroyServed, Serving, IInv, TypeOK, StateOK, Checkpoints, EndInv, Safe!Keep,
      Guard, Pending
  <2> QED BY <2>1 DEF Safe!Next
<1>5. CASE AppStep
  BY <1>5, AppStepIsQuiet, QuietSteps
<1>6. ASSUME NEW o \in Ops, NEW asked \in AskedRollbacks, Call(o, asked)
      PROVE  [Safe!Next]_(Safe!vars)
  BY <1>6, QuietSteps DEF Call
<1>7. CASE Cancel \/ Crash \/ Tick
  BY <1>7, QuietSteps DEF Cancel, Crash, Tick
<1>8. CASE Quiet \/ UNCHANGED vars
  BY <1>8, QuietSteps DEF Quiet, vars
<1> QED
  BY <1>1, <1>2, <1>3, <1>4, <1>5, <1>6, <1>7, <1>8 DEF Next

\* The flow, its tools, its timer and its failures only ever make the changes
\* the abstract specification allows: nothing is tried unguarded but what is
\* harmless, and nothing is kept but what reaches the platform.
THEOREM Refinement == Spec => ImplementsSafeChange
<1>1. Init => Safe!Init
  BY DEF Init, Safe!Init, Guard, Pending, Configs
<1>2. IInv /\ [Next]_vars => [Safe!Next]_(Safe!vars)
  BY StepRefines
<1> QED
  BY <1>1, <1>2, Invariance, PTL DEF Spec, Safe!Spec, ImplementsSafeChange
=============================================================================
