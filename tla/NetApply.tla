------------------------------ MODULE NetApply ------------------------------
(***************************************************************************)
(* net_apply (src/src/netapply.rs): one NetworkManager change at a time,   *)
(* made under a NetworkManager checkpoint that undoes it unless the        *)
(* platform answers.  The module models the app's flow, step by step, the  *)
(* tools it runs (each bounded by its timeout), NetworkManager with its    *)
(* checkpoint and rollback timer, cancellation, and the app dying.         *)
(*                                                                         *)
(* A configuration is named by the call that made it: 0 is the one the     *)
(* device started with, k the one call k asks for.  "profile" is what      *)
(* NetworkManager has stored, "active" what the device runs on, "reaches"  *)
(* the configurations with which the platform can be reached.              *)
(*                                                                         *)
(* Time is counted in whole units (of two or of five seconds in the runs;  *)
(* any unit in the proofs).  The app's own computing takes no time; a tool *)
(* takes any time up to its timeout, and one that ends by itself ends      *)
(* before it.                                                              *)
(***************************************************************************)
EXTENDS Naturals

CONSTANTS
  MaxCalls,        \* bound: the net_apply calls of a behaviour
  MaxTime,         \* bound: the clock stops here (a run never gets that far)
  AskedRollbacks,  \* the values a request gives rollback_after
  MIN_ROLLBACK, MAX_ROLLBACK, VERIFY_MARGIN, VERIFY_POLL, ROLLBACK_GRACE,
  TOOL_TIMEOUT,    \* diag.rs: one D-Bus call, one lookup
  CHECK_TIMEOUT,   \* diag.rs: one platform check
  STATUS_TIMEOUT,  \* bound: the whole of the final net_status
  WAIT_RESERVE, MIN_WAIT, MAX_WAIT,  \* nmcli_wait's three numbers
  NMCLI_GRACE,     \* what a command gets on top of nmcli's own wait
  FireLag,         \* external: how late NetworkManager's timer may fire
  LostReplies      \* whether a D-Bus call may be served and its reply lost

(***************************************************************************)
(* The numbers are the source's or keep its proportions: a rollback window *)
(* has room for a slow reply to CheckpointCreate and one whole nmcli       *)
(* command, and the margin has room for a check begun at its last instant. *)
(***************************************************************************)
ASSUME NumbersAssumption ==
  /\ MaxCalls \in Nat /\ MaxTime \in Nat /\ MIN_ROLLBACK \in Nat
  /\ MAX_ROLLBACK \in Nat /\ VERIFY_MARGIN \in Nat /\ VERIFY_POLL \in Nat
  /\ ROLLBACK_GRACE \in Nat /\ TOOL_TIMEOUT \in Nat /\ CHECK_TIMEOUT \in Nat
  /\ STATUS_TIMEOUT \in Nat /\ WAIT_RESERVE \in Nat /\ MIN_WAIT \in Nat
  /\ MAX_WAIT \in Nat /\ NMCLI_GRACE \in Nat /\ FireLag \in Nat
  /\ AskedRollbacks \subseteq Nat
  /\ LostReplies \in BOOLEAN

ASSUME WindowAssumption ==
  /\ MIN_ROLLBACK <= MAX_ROLLBACK /\ MIN_WAIT <= MAX_WAIT
  /\ MIN_WAIT + NMCLI_GRACE + TOOL_TIMEOUT <= MIN_ROLLBACK
  /\ NMCLI_GRACE + TOOL_TIMEOUT <= WAIT_RESERVE
  /\ CHECK_TIMEOUT < VERIFY_MARGIN /\ VERIFY_MARGIN <= MIN_ROLLBACK
  /\ 0 < VERIFY_POLL /\ 0 < TOOL_TIMEOUT

VARIABLES
  now,
  \* the app
  pc,          \* where the call stands
  call,        \* which call it is: the number of calls so far
  op,          \* what kind of operation it asks for
  rollback,    \* its rollback_after
  held,        \* whether it has a Checkpoint
  cmd,         \* which of its nmcli commands runs
  started,     \* when it asked for the checkpoint
  rollback_by, \* when NetworkManager must have rolled back
  due,         \* when the current tool is killed or the current sleep ends
  cancelled,   \* whether the request was cancelled
  reply,       \* what the call answers, or will
  \* NetworkManager
  served,      \* whether the current tool's request has taken effect
  profile, active,
  cp,          \* the newest checkpoint
  \* the world
  reaches      \* the configurations that reach the platform

callVars == <<call, op, rollback, held, cmd, started, rollback_by>>
nmVars == <<profile, active, cp>>
vars == <<now, pc, callVars, due, cancelled, reply, served, nmVars, reaches>>

-----------------------------------------------------------------------------
Calls == 1..MaxCalls
Configs == 0..MaxCalls

\* "one": wifi_connect, interface down, connection down (one nmcli command);
\* "up": interface up, connection up (one command, harmless);
\* "two": ipv4, dns, lte (change the profile, then activate it).
Ops == {"one", "up", "two"}

Commands(o) == IF o = "two" THEN 2 ELSE 1

\* Runs a D-Bus call of NetworkManager that changes its checkpoints.
DbusCalls == {"create", "rollback", "explicit", "destroy"}
\* Runs a tool that takes time, bounded by a timeout.
ToolSteps == DbusCalls \cup {"resolve", "command", "check", "list", "status"}
Steps == ToolSteps \cup {"idle", "poll", "await", "record"}

Errors == {"none", "NO_CONNECTION", "APPLY_FAILED", "NO_CHECKPOINT", "CHECKPOINT_FAILED", "CANCELLED"}
Notes == {"none", "explicit", "explicit_failed", "unconfirmed"}
Replies == [error : Errors, note : Notes,
            applied : BOOLEAN, verified : BOOLEAN, rolled_back : BOOLEAN]

\* The newest checkpoint: whose it is, what it saved, when its timer fires.
Checkpoints == [state : {"none", "pending", "destroyed", "restored"},
                owner : Configs, profile : Configs, active : Configs, at : Nat]

Outcome(a, v, r, n) ==
  [error |-> "none", note |-> n, applied |-> a, verified |-> v, rolled_back |-> r]
Error(e) ==
  [error |-> e, note |-> "none", applied |-> FALSE, verified |-> FALSE, rolled_back |-> FALSE]
NoReply == Error("none")
RolledBack(n) == Outcome(FALSE, FALSE, TRUE, n)

Clamp(n, low, high) == IF n < low THEN low ELSE IF n > high THEN high ELSE n

\* A mutant: leave nothing of the window for the checkpoint's own reply.
GreedyWait(r) == Clamp(r, MIN_WAIT, MAX_WAIT)

NmcliWait(r) ==
  Clamp(IF r >= WAIT_RESERVE THEN r - WAIT_RESERVE ELSE 0, MIN_WAIT, MAX_WAIT)

\* A mutant: verify to the end of the window.
UntilTheEnd == started + rollback

\* The last instant at which a check of the platform may begin.
VerifyUntil == started + (rollback - VERIFY_MARGIN)

\* A mutant: count the rollback from the request, not from its reply.
FromTheRequest(t) == started + rollback

\* When NetworkManager must have rolled back, for a checkpoint known at t.
RollbackBy(t) == t + rollback + ROLLBACK_GRACE

Pending == cp.state = "pending"
Mine == cp.owner = call
Restored == [cp EXCEPT !.state = "restored"]

-----------------------------------------------------------------------------
FlagsOK == held \in BOOLEAN /\ cancelled \in BOOLEAN /\ served \in BOOLEAN

StateOK ==
  /\ now \in Nat /\ due \in Nat /\ started \in Nat /\ rollback_by \in Nat
  /\ pc \in Steps
  /\ call \in Configs
  /\ op \in Ops
  /\ rollback \in MIN_ROLLBACK..MAX_ROLLBACK
  /\ cmd \in 1..2
  /\ reply \in Replies
  /\ profile \in Configs /\ active \in Configs
  /\ cp \in Checkpoints
  /\ reaches \subseteq Configs

TypeOK == FlagsOK /\ StateOK

Init ==
  /\ now = 0 /\ due = 0 /\ started = 0 /\ rollback_by = 0
  /\ pc = "idle" /\ call = 0 /\ op = "up" /\ rollback = MIN_ROLLBACK /\ cmd = 1
  /\ held = FALSE /\ cancelled = FALSE /\ served = FALSE
  /\ reply = NoReply
  /\ profile = 0 /\ active = 0
  /\ cp = [state |-> "none", owner |-> 0, profile |-> 0, active |-> 0, at |-> 0]
  /\ reaches \in {R \in SUBSET Configs : 0 \in R}

-----------------------------------------------------------------------------
(* Ends of a step: where the call goes next.                               *)

\* Start a step that lasts at most t.
Run(step, t) == pc' = step /\ due' = now + t /\ served' = FALSE

\* The call fails with an error code; nothing more runs but record_method.
Fail(e) == reply' = Error(e) /\ Run("record", 0)

\* The outcome is known: read the status, unless the request was cancelled.
Finish(r) ==
  IF cancelled THEN Fail("CANCELLED")
  ELSE reply' = r /\ Run("status", STATUS_TIMEOUT)

\* await_rollback's sleep.
Await ==
  /\ pc' = "await" /\ due' = (IF rollback_by > now THEN rollback_by ELSE now)
  /\ served' = FALSE /\ UNCHANGED reply

\* verify() gave up: without a checkpoint the change stays, with one it is
\* left to NetworkManager's timer.
Unverified == IF held THEN Await ELSE Finish(Outcome(TRUE, FALSE, FALSE, "none"))

\* verify() begins: a slow apply may have used up the window.
Verify ==
  IF now >= VerifyUntil THEN Unverified
  ELSE UNCHANGED reply /\ Run("check", CHECK_TIMEOUT)

StartCommand(i) ==
  /\ cmd' = i /\ UNCHANGED reply
  /\ Run("command", NmcliWait(rollback) + NMCLI_GRACE)

\* A tool run ended with a reply the app understands: in time, and served.
Answered(step) == pc = step /\ served /\ now < due
\* A D-Bus tool run failed: it was never served, or its reply was lost, or
\* it was killed by the cancellation.
Failed(step) == pc = step /\ (served => cancelled \/ LostReplies)

-----------------------------------------------------------------------------
(* The app.                                                                *)

\* A request arrives; net_lock lets one through at a time.  An "up" is taken
\* to be harmless, as the code takes it.
Call(o, asked) ==
  /\ pc = "idle" /\ call < MaxCalls
  /\ o = "up" => call + 1 \in reaches
  /\ call' = call + 1 /\ op' = o /\ cmd' = 1 /\ held' = FALSE
  /\ rollback' = Clamp(asked, MIN_ROLLBACK, MAX_ROLLBACK)
  /\ cancelled' = FALSE /\ reply' = NoReply
  /\ Run("resolve", TOOL_TIMEOUT)
  /\ UNCHANGED <<now, started, rollback_by, nmVars, reaches>>

\* The connection the op changes is known: create a checkpoint.
Resolved ==
  /\ pc = "resolve"
  /\ started' = now
  /\ Run("create", TOOL_TIMEOUT)
  /\ UNCHANGED <<now, call, op, rollback, held, cmd, rollback_by, cancelled, reply, nmVars, reaches>>

\* There is no active connection on the interface, or nmcli couldn't be run to
\* look for it.
ResolveFails ==
  /\ pc = "resolve" /\ op = "two"
  /\ Fail("NO_CONNECTION") \/ Fail("APPLY_FAILED")
  /\ UNCHANGED <<now, callVars, cancelled, nmVars, reaches>>

Proceed(checkpoint) ==
  /\ held' = checkpoint
  /\ rollback_by' = RollbackBy(now)
  /\ StartCommand(1)
  /\ UNCHANGED <<now, call, op, rollback, started, cancelled, nmVars, reaches>>

CheckpointCreated == Answered("create") /\ Proceed(TRUE)

\* A mutant: without a D-Bus tool every op goes on.
ProceedAnyway == pc = "create" /\ ~served /\ Proceed(FALSE)

\* Neither busctl nor dbus-send could be run: only a harmless op goes on.
CheckpointUnavailable ==
  /\ pc = "create" /\ ~served
  /\ IF op = "up" THEN Proceed(FALSE)
     ELSE Fail("NO_CHECKPOINT") /\ UNCHANGED <<now, callVars, cancelled, nmVars, reaches>>

CheckpointFailed ==
  /\ Failed("create")
  /\ Fail("CHECKPOINT_FAILED")
  /\ UNCHANGED <<now, callVars, cancelled, nmVars, reaches>>

\* An nmcli command exited 0: the next one, or the verification.
CommandSucceeds ==
  /\ Answered("command")
  /\ IF cmd < Commands(op) THEN StartCommand(cmd + 1) ELSE Verify /\ UNCHANGED cmd
  /\ UNCHANGED <<now, call, op, rollback, held, started, rollback_by, cancelled, nmVars, reaches>>

\* A mutant: report a failed command without a checkpoint as an error.
CommandError ==
  /\ pc = "command"
  /\ IF cancelled THEN Fail("CANCELLED")
     ELSE IF held THEN UNCHANGED reply /\ Run("rollback", TOOL_TIMEOUT)
     ELSE Fail("APPLY_FAILED")
  /\ UNCHANGED <<now, callVars, cancelled, nmVars, reaches>>

\* One failed, or was killed at its timeout or by the cancellation.
CommandFails ==
  /\ pc = "command"
  /\ IF cancelled THEN Fail("CANCELLED")
     ELSE IF held THEN UNCHANGED reply /\ Run("rollback", TOOL_TIMEOUT)
     ELSE Finish(Outcome(FALSE, FALSE, FALSE, "none"))
  /\ UNCHANGED <<now, callVars, cancelled, nmVars, reaches>>

RollbackSucceeds ==
  /\ Answered("rollback")
  /\ Finish(RolledBack("none"))
  /\ UNCHANGED <<now, callVars, cancelled, nmVars, reaches>>

RollbackFails ==
  /\ Failed("rollback")
  /\ Await
  /\ UNCHANGED <<now, callVars, cancelled, nmVars, reaches>>

\* The platform answered a check: keep the change.
CheckAnswers ==
  /\ pc = "check" /\ active \in reaches /\ now < due
  /\ IF cancelled THEN Fail("CANCELLED")
     ELSE IF held THEN UNCHANGED reply /\ Run("destroy", TOOL_TIMEOUT)
     ELSE Finish(Outcome(TRUE, TRUE, FALSE, "none"))
  /\ UNCHANGED <<now, callVars, cancelled, nmVars, reaches>>

\* A mutant: poll for as long as it takes.
NeverGivesUp ==
  /\ pc = "check"
  /\ IF cancelled THEN Fail("CANCELLED") ELSE UNCHANGED reply /\ Run("poll", VERIFY_POLL)
  /\ UNCHANGED <<now, callVars, cancelled, nmVars, reaches>>

\* It did not: try again after a pause while there is time.
CheckFails ==
  /\ pc = "check"
  /\ IF cancelled THEN Fail("CANCELLED")
     ELSE IF now + VERIFY_POLL >= VerifyUntil THEN Unverified
     ELSE UNCHANGED reply /\ Run("poll", VERIFY_POLL)
  /\ UNCHANGED <<now, callVars, cancelled, nmVars, reaches>>

PollEnds ==
  /\ pc = "poll" /\ (now >= due \/ cancelled)
  /\ Run("check", CHECK_TIMEOUT)
  /\ UNCHANGED <<now, callVars, cancelled, reply, nmVars, reaches>>

DestroySucceeds ==
  /\ Answered("destroy")
  /\ Finish(Outcome(TRUE, TRUE, FALSE, "none"))
  /\ UNCHANGED <<now, callVars, cancelled, nmVars, reaches>>

\* A mutant: a change that was verified is reported as kept.
DestroyIgnored ==
  /\ Failed("destroy")
  /\ Finish(Outcome(TRUE, TRUE, FALSE, "none"))
  /\ UNCHANGED <<now, callVars, cancelled, nmVars, reaches>>

\* Keeping the change failed: wait for NetworkManager to roll it back.
DestroyFails ==
  /\ Failed("destroy")
  /\ Await
  /\ UNCHANGED <<now, callVars, cancelled, nmVars, reaches>>

\* The rollback is due: ask NetworkManager for its pending checkpoints.
AwaitEnds ==
  /\ pc = "await" /\ (now >= due \/ cancelled)
  /\ IF cancelled THEN Fail("CANCELLED") ELSE UNCHANGED reply /\ Run("list", TOOL_TIMEOUT)
  /\ UNCHANGED <<now, callVars, cancelled, nmVars, reaches>>

\* It lists them: ours is gone, or must be rolled back explicitly.
Listed ==
  /\ pc = "list" /\ now < due
  /\ IF Pending /\ Mine /\ ~cancelled
     THEN UNCHANGED reply /\ Run("explicit", TOOL_TIMEOUT)
     ELSE Finish(RolledBack("none"))
  /\ UNCHANGED <<now, callVars, cancelled, nmVars, reaches>>

\* A mutant: nothing said of a rollback that could not be confirmed.
NoDoubt ==
  /\ pc = "list"
  /\ Finish(RolledBack("none"))
  /\ UNCHANGED <<now, callVars, cancelled, nmVars, reaches>>

ListFails ==
  /\ pc = "list"
  /\ Finish(RolledBack("unconfirmed"))
  /\ UNCHANGED <<now, callVars, cancelled, nmVars, reaches>>

ExplicitSucceeds ==
  /\ Answered("explicit")
  /\ Finish(RolledBack("explicit"))
  /\ UNCHANGED <<now, callVars, cancelled, nmVars, reaches>>

ExplicitFails ==
  /\ Failed("explicit")
  /\ Finish(RolledBack("explicit_failed"))
  /\ UNCHANGED <<now, callVars, cancelled, nmVars, reaches>>

\* net_status was read; it never fails.
StatusRead ==
  /\ pc = "status"
  /\ Run("record", 0)
  /\ UNCHANGED <<now, callVars, cancelled, reply, nmVars, reaches>>

\* The typed method is recorded, a cancellation is left standing, the call
\* returns and net_lock is free.
Returns ==
  /\ pc = "record"
  /\ reply' = (IF cancelled THEN Error("CANCELLED") ELSE reply)
  /\ Run("idle", 0)
  /\ UNCHANGED <<now, callVars, cancelled, nmVars, reaches>>

AppStep ==
  \/ Resolved \/ ResolveFails
  \/ CheckpointCreated \/ CheckpointUnavailable \/ CheckpointFailed
  \/ CommandSucceeds \/ CommandFails
  \/ RollbackSucceeds \/ RollbackFails
  \/ CheckAnswers \/ CheckFails \/ PollEnds
  \/ DestroySucceeds \/ DestroyFails
  \/ AwaitEnds \/ Listed \/ ListFails \/ ExplicitSucceeds \/ ExplicitFails
  \/ StatusRead \/ Returns

-----------------------------------------------------------------------------
(* NetworkManager (external: as the code and its README use it).           *)

\* A tool's request can take effect only while the tool runs.
Serving(steps) == pc \in steps /\ ~served /\ ~cancelled /\ now < due

\* CheckpointCreate: refused while another one is pending.
CreateServed ==
  /\ Serving({"create"}) /\ ~Pending
  /\ served' = TRUE
  /\ cp' = [state |-> "pending", owner |-> call, profile |-> profile, active |-> active,
            at |-> now + rollback]
  /\ UNCHANGED <<now, pc, callVars, due, cancelled, reply, profile, active, reaches>>

\* An nmcli command changes the profile, or activates it, or both at once.
CommandServed ==
  /\ Serving({"command"})
  /\ served' = TRUE
  /\ profile' = (IF cmd = 1 THEN call ELSE profile)
  /\ active' = (IF op # "two" THEN call ELSE IF cmd = 2 THEN profile ELSE active)
  /\ UNCHANGED <<now, pc, callVars, due, cancelled, reply, cp, reaches>>

Restore == profile' = cp.profile /\ active' = cp.active /\ cp' = Restored

\* CheckpointRollback, of a checkpoint that is still pending.
RollbackServed ==
  /\ Serving({"rollback", "explicit"}) /\ Pending /\ Mine
  /\ served' = TRUE
  /\ Restore
  /\ UNCHANGED <<now, pc, callVars, due, cancelled, reply, reaches>>

\* CheckpointDestroy, of a checkpoint that is still pending.
DestroyServed ==
  /\ Serving({"destroy"}) /\ Pending /\ Mine
  /\ served' = TRUE
  /\ cp' = [cp EXCEPT !.state = "destroyed"]
  /\ UNCHANGED <<now, pc, callVars, due, cancelled, reply, profile, active, reaches>>

\* A mutant: a rollback that needs the app to be there.
FiresWhileCalled ==
  /\ Pending /\ now >= cp.at /\ pc # "idle"
  /\ Restore
  /\ UNCHANGED <<now, pc, callVars, due, cancelled, reply, served, reaches>>

\* The rollback timer fires.
Fires ==
  /\ Pending /\ now >= cp.at
  /\ Restore
  /\ UNCHANGED <<now, pc, callVars, due, cancelled, reply, served, reaches>>

-----------------------------------------------------------------------------
(* The world.                                                              *)

\* The request is cancelled from the site; it stays cancelled.
Cancel ==
  /\ pc # "idle" /\ ~cancelled
  /\ cancelled' = TRUE
  /\ UNCHANGED <<now, pc, callVars, due, reply, served, nmVars, reaches>>

\* The app dies and is started again: the call never returns.
Crash ==
  /\ pc # "idle"
  /\ held' = FALSE /\ reply' = NoReply
  /\ Run("idle", 0)
  /\ UNCHANGED <<now, call, op, rollback, cmd, started, rollback_by, cancelled, nmVars, reaches>>

\* Time passes: not past the end of a tool or a sleep, nor past the latest
\* the timer fires, nor while the app has something to do at once.
Tick ==
  /\ now < MaxTime
  /\ pc # "idle" => /\ now < due /\ ~cancelled
                    /\ pc \in DbusCalls /\ served /\ ~LostReplies => now + 1 < due
  /\ Pending => now < cp.at + FireLag
  /\ pc = "idle" => Pending
  /\ now' = now + 1
  /\ UNCHANGED <<pc, callVars, due, cancelled, reply, served, nmVars, reaches>>

\* Every call is over and no checkpoint is left: the system may stop.
Quiet ==
  /\ pc = "idle" /\ call = MaxCalls /\ ~Pending
  /\ UNCHANGED vars

Next ==
  \/ \E o \in Ops, asked \in AskedRollbacks : Call(o, asked)
  \/ AppStep
  \/ CreateServed \/ CommandServed \/ RollbackServed \/ DestroyServed \/ Fires
  \/ Cancel \/ Crash \/ Tick
  \/ Quiet

Spec == Init /\ [][Next]_vars

\* A tool ends and the code goes on, time passes, the timer fires.
Fairness == WF_vars(AppStep) /\ WF_vars(Tick) /\ WF_vars(Fires)

FairSpec == Spec /\ Fairness

-----------------------------------------------------------------------------
(* Properties.                                                             *)

\* "One change that can't strand the device" (netapply.rs:1-2): whenever the
\* platform can't be reached, a checkpoint of a configuration that does reach
\* it is pending, whatever was cancelled, lost or died since.
NeverStranded ==
  active \in reaches \/ (Pending /\ cp.active \in reaches /\ cp.profile \in reaches)

\* verify() never asks the platform once NetworkManager may have put the old
\* configuration back (netapply.rs:857-858): a check made under a checkpoint
\* is a check of the change.
CheckSeesTheChange ==
  pc = "check" /\ held => Pending /\ profile = call /\ active = call

\* await_rollback never asks before the timer of its checkpoint has fired and
\* had its grace (netapply.rs:743-757).
NoEarlyVerdict ==
  pc \in {"list", "explicit"} => Mine /\ now >= cp.at + ROLLBACK_GRACE

\* "applied" under a checkpoint is said only of a change that is in place,
\* that reaches the platform and that no timer will undo.
KeptReportIsTrue ==
  pc \in {"status", "record", "idle"} /\ held /\ reply.applied =>
    /\ cp.state = "destroyed" /\ Mine
    /\ profile = call /\ active = call /\ call \in reaches

\* "rolled_back" without a doubt in its reason is said only when the device
\* is back on the configuration the checkpoint saved.
RolledBackReportIsTrue ==
  pc \in {"status", "record", "idle"} /\ reply.rolled_back /\ reply.note \in {"none", "explicit"} =>
    profile = cp.profile /\ active = cp.active

\* NO_CONNECTION, NO_CHECKPOINT, CHECKPOINT_FAILED and APPLY_FAILED mean "no
\* change was made" (netapply.rs:809-813, 914-928): nothing of the call is in
\* place, now or later.
NoChangeErrors == {"NO_CONNECTION", "NO_CHECKPOINT", "CHECKPOINT_FAILED", "APPLY_FAILED"}
ErrorsChangeNothing ==
  pc \in {"record", "idle"} /\ reply.error \in NoChangeErrors => call \notin {profile, active}

\* "Cancelling the call stops it where it is (no destroy), so a pending
\* checkpoint rolls back at its deadline" (README.md:257-258): once no
\* checkpoint is pending, nothing of a cancelled change is in place.
CancelledIsUndone ==
  pc = "idle" /\ held /\ reply.error = "CANCELLED" /\ ~Pending => call \notin {profile, active}

-----------------------------------------------------------------------------
(* The inductive invariant behind the safety properties.                   *)

\* What a checkpoint saved reaches the platform; so does what the device runs
\* on, and has stored, when there is none.  Neither is ever half a change.
ConfigInv ==
  /\ Pending => cp.profile \in reaches /\ cp.active = cp.profile
  /\ ~Pending => profile \in reaches /\ active = profile

\* Configurations are of the calls so far; a call that has made no checkpoint
\* yet, or that ended with "no change was made", has made none.
Untouched ==
  \/ pc \in {"resolve", "create"}
  \/ pc \in {"record", "idle"} /\ reply.error \in NoChangeErrors
FreshInv ==
  /\ profile <= call /\ active <= call /\ cp.profile <= call /\ cp.active <= call
  /\ pc = "status" => reply.error = "none"
  /\ Untouched => call \notin {profile, active} /\ (Pending => call \notin {cp.profile, cp.active})

\* A call that has a checkpoint has the newest one; its timer fires between
\* the bounds the flow keeps, and once it has, the device is as it was.
HeldInv ==
  held => /\ Mine /\ cp.state # "none"
          /\ cp.at >= started + rollback
          /\ rollback_by >= cp.at + ROLLBACK_GRACE
          /\ cp.state = "restored" => profile = cp.profile /\ active = cp.active

\* Where the call stands: whether it has a checkpoint, and what time it is.
PlaceInv ==
  /\ pc \in {"resolve", "create"} => ~held
  /\ pc \in {"rollback", "destroy", "await", "list", "explicit"} => held
  /\ pc \in {"command", "check", "poll"} /\ ~held => op = "up"
  /\ op = "up" => call \in reaches
  /\ pc = "command" /\ cmd = 2 => op = "two"
  /\ pc # "idle" => now <= due
  /\ pc = "await" => due >= rollback_by
  /\ pc \in {"list", "explicit"} => now >= rollback_by

\* While the checkpoint is created: the timer can't fire before its reply.
CreateInv ==
  pc = "create" =>
    /\ started <= now /\ due = started + TOOL_TIMEOUT
    /\ served => /\ Mine /\ (Pending \/ now >= cp.at) /\ cp.state \in {"pending", "restored"}
                 /\ started + rollback <= cp.at /\ cp.at <= now + rollback

\* While the commands run: the first ends before the timer fires, and as
\* long as it has not fired the configuration is as far as they have come.
CommandInv ==
  pc = "command" /\ held =>
    /\ Pending \/ now >= cp.at
    /\ cmd = 1 => Pending /\ due < cp.at
    /\ Pending /\ cmd = 2 => profile = call
    /\ Pending /\ served => profile = call /\ (cmd = Commands(op) => active = call)
    /\ cp.state # "destroyed"

\* While the platform is checked, the change is in place and guarded.
VerifyInv ==
  pc \in {"check", "poll"} /\ held =>
    /\ Pending /\ profile = call /\ active = call
    /\ pc = "check" => due < started + rollback
    /\ pc = "poll" => due < VerifyUntil

\* While the change is kept or rolled back.
EndInv ==
  /\ pc = "destroy" =>
       /\ served <=> cp.state = "destroyed"
       /\ served \/ Pending => profile = call /\ active = call /\ call \in reaches
  /\ pc \in {"rollback", "explicit"} => (served => cp.state = "restored")
  /\ pc \in {"rollback", "await", "list", "explicit"} =>
       LostReplies \/ cancelled \/ cp.state # "destroyed"

\* What the call has reported, or is about to.
ReportInv ==
  pc \in {"status", "record", "idle"} =>
    /\ held /\ reply.applied =>
         cp.state = "destroyed" /\ profile = call /\ active = call /\ call \in reaches
    /\ reply.rolled_back /\ reply.note \in {"none", "explicit"} =>
         held /\ (LostReplies \/ cp.state = "restored")

IInv ==
  /\ TypeOK
  /\ ConfigInv /\ FreshInv /\ HeldInv /\ PlaceInv /\ CreateInv
  /\ CommandInv /\ VerifyInv /\ EndInv /\ ReportInv

-----------------------------------------------------------------------------
(* Liveness.                                                               *)

\* Every call returns (or the app dies): no wait is for ever.
EveryCallReturns == (pc # "idle") ~> (pc = "idle")

\* A device that a change has cut off comes back by itself.
StrandedRecovers == (active \notin reaches) ~> (active \in reaches)

-----------------------------------------------------------------------------
(* What net_apply promises: SafeChange.                                    *)

\* The configuration a pending checkpoint guards.
Guard == IF Pending THEN <<cp.profile, cp.active>> ELSE <<>>

Safe == INSTANCE SafeChange WITH guard <- Guard

\* The flow, the timer and the failures together only ever make the safe
\* changes of the abstract specification, and every guard is let go of.
ImplementsSafeChange == Safe!Spec
GuardsEnd == Safe!GuardsEnd
=============================================================================
