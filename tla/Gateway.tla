------------------------------ MODULE Gateway ------------------------------
(***************************************************************************)
(* The RPC handlers (src/src/app.rs): every request runs on a task of its  *)
(* own, so any number of them interleave at every await.  A handler checks *)
(* its parameters, takes the lock of what it works on, acknowledges, runs  *)
(* the method's body while its current step is sent as progress, records   *)
(* the call in the telemetry tags and leaves a cancellation standing.      *)
(*                                                                         *)
(* The bodies themselves are NetApply, ModbusScan and Exec; here a body is *)
(* a step that changes now and then and ends in a result.  A method is     *)
(* known by what it shares: "exec"; "plain" (net_status, net_wifi_scan,    *)
(* scan_network); "net" (net_apply); "modbus" (probe, read, write); "scan" *)
(* (scan_modbus, whose threads set the step by themselves).                *)
(***************************************************************************)
EXTENDS Naturals, FiniteSets

CONSTANTS
  Calls,      \* the requests of a behaviour
  None,       \* no request
  Methods,    \* the methods they ask for
  MaxSteps    \* bound: how often the body of a call changes its step

ASSUME CallsAssumption ==
  /\ None \notin Calls /\ MaxSteps \in Nat
  /\ Methods \subseteq {"exec", "plain", "net", "modbus", "scan"}

VARIABLES
  kind,       \* the method of each call
  pc,         \* where its handler stands
  cancelled,  \* whether the request was cancelled
  reply,      \* what the handler returned
  lock,       \* who holds net_lock and modbus_lock
  \* progress
  step,       \* the version of the body's current step
  sent,       \* the version with_progress remembers to have sent
  shown,      \* the version the last update carried
  updating,   \* whether an update is on its way
  \* telemetry tags
  commands_run,
  got,        \* the value of commands_run a handler has read
  counted     \* the calls that have set it to one more

progressVars == <<step, sent, shown, updating>>
tagVars == <<commands_run, got, counted>>
gatewayVars == <<kind, pc, cancelled, reply, lock, progressVars, tagVars>>

-----------------------------------------------------------------------------
Locks == {"net_lock", "modbus_lock"}

\* A mutant: scan_modbus takes no lock.
LocksButScan(k) == IF k = "net" THEN {"net_lock"} ELSE IF k = "modbus" THEN {"modbus_lock"} ELSE {}

\* The locks a method holds while it runs.
LocksOf(k) ==
  IF k = "net" THEN {"net_lock"} ELSE IF k \in {"modbus", "scan"} THEN {"modbus_lock"} ELSE {}

\* record_method and record, one telemetry tag after the other.
RecordSteps == {"get", "set", "method", "exec_tags"}
Running == {"acknowledge", "body", "end"} \cup RecordSteps
InProgress == Running \cup {"arrived"}
Steps == {"unsent", "done", "lost"} \cup InProgress
Replies == {"none", "result", "INVALID_PARAMS", "BUSY", "EXEC_FAILED", "CANCELLED"}

FirstRecordStep(k) == IF k = "exec" THEN "method" ELSE "get"

\* record sets last_method first, record_method last.
AfterRecordStep(k, s) ==
  CASE s = "get" -> "set"
    [] s = "set" -> IF k = "exec" THEN "exec_tags" ELSE "method"
    [] s = "method" -> IF k = "exec" THEN "get" ELSE "end"
    [] s = "exec_tags" -> "end"

GatewayTypeOK ==
  /\ kind \in [Calls -> Methods]
  /\ pc \in [Calls -> Steps]
  /\ cancelled \in [Calls -> BOOLEAN]
  /\ reply \in [Calls -> Replies]
  /\ lock \in [Locks -> Calls \cup {None}]
  /\ step \in [Calls -> 0..MaxSteps] /\ sent \in [Calls -> 0..MaxSteps]
  /\ shown \in [Calls -> 0..MaxSteps] /\ updating \in [Calls -> BOOLEAN]
  /\ commands_run \in Nat /\ got \in [Calls -> Nat] /\ counted \subseteq Calls

GatewayInit ==
  /\ kind \in [Calls -> Methods]
  /\ pc = [c \in Calls |-> "unsent"]
  /\ cancelled = [c \in Calls |-> FALSE]
  /\ reply = [c \in Calls |-> "none"]
  /\ lock = [l \in Locks |-> None]
  /\ step = [c \in Calls |-> 0] /\ sent = [c \in Calls |-> 0]
  /\ shown = [c \in Calls |-> 0] /\ updating = [c \in Calls |-> FALSE]
  /\ commands_run = 0 /\ got = [c \in Calls |-> 0] /\ counted = {}

-----------------------------------------------------------------------------
Go(c, s) == pc' = [pc EXCEPT ![c] = s]
Reply(c, r) == Go(c, "done") /\ reply' = [reply EXCEPT ![c] = r]
Unlock(c) == lock' = [l \in Locks |-> IF lock[l] = c THEN None ELSE lock[l]]

\* A request reaches the handler of its method.
Arrive(c) ==
  /\ pc[c] = "unsent"
  /\ Go(c, "arrived")
  /\ UNCHANGED <<kind, cancelled, reply, lock, progressVars, tagVars>>

\* Its parameters are refused before anything else happens.
Refuse(c) ==
  /\ pc[c] = "arrived"
  /\ Reply(c, "INVALID_PARAMS")
  /\ UNCHANGED <<kind, cancelled, lock, progressVars, tagVars>>

\* Another call has the lock.
Busy(c) ==
  /\ pc[c] = "arrived" /\ \E l \in LocksOf(kind[c]) : lock[l] # None
  /\ Reply(c, "BUSY")
  /\ UNCHANGED <<kind, cancelled, lock, progressVars, tagVars>>

\* try_lock takes it at once.
Accept(c) ==
  /\ pc[c] = "arrived" /\ \A l \in LocksOf(kind[c]) : lock[l] = None
  /\ lock' = [l \in Locks |-> IF l \in LocksOf(kind[c]) THEN c ELSE lock[l]]
  /\ Go(c, "acknowledge")
  /\ UNCHANGED <<kind, cancelled, reply, progressVars, tagVars>>

\* The acknowledgement went out, or failed: the call goes on.
Acknowledge(c) ==
  /\ pc[c] = "acknowledge"
  /\ Go(c, "body")
  /\ UNCHANGED <<kind, cancelled, reply, lock, progressVars, tagVars>>

\* The request is cancelled from the site while it is handled.
Cancel(c) ==
  /\ pc[c] \in InProgress /\ ~cancelled[c]
  /\ cancelled' = [cancelled EXCEPT ![c] = TRUE]
  /\ UNCHANGED <<kind, pc, reply, lock, progressVars, tagVars>>

\* The body moves on to its next step.  It is polled by with_progress, so
\* not while an update is on its way; the threads of a scan run on.
SetStep(c) ==
  /\ pc[c] = "body" /\ kind[c] # "exec" /\ step[c] < MaxSteps
  /\ updating[c] => kind[c] = "scan"
  /\ step' = [step EXCEPT ![c] = @ + 1]
  /\ UNCHANGED <<kind, pc, cancelled, reply, lock, sent, shown, updating, tagVars>>

\* A tick finds a new step, or the heartbeat due (any tick may).
Update(c) ==
  /\ pc[c] = "body" /\ ~updating[c]
  /\ updating' = [updating EXCEPT ![c] = TRUE]
  /\ shown' = [shown EXCEPT ![c] = step[c]]
  /\ sent' = [sent EXCEPT ![c] = step[c]]
  /\ UNCHANGED <<kind, pc, cancelled, reply, lock, step, tagVars>>

\* A mutant: the version is remembered when the update has gone out.
UpdateEndsLate(c) ==
  /\ pc[c] = "body" /\ updating[c]
  /\ updating' = [updating EXCEPT ![c] = FALSE]
  /\ sent' = [sent EXCEPT ![c] = step[c]]
  /\ UNCHANGED <<kind, pc, cancelled, reply, lock, step, shown, tagVars>>

\* A mutant: a failed update, as of a cancelled request, is sent again for ever.
UpdateRetried(c) ==
  /\ pc[c] = "body" /\ updating[c] /\ ~cancelled[c]
  /\ updating' = [updating EXCEPT ![c] = FALSE]
  /\ UNCHANGED <<kind, pc, cancelled, reply, lock, step, sent, shown, tagVars>>

\* The update went out, or failed: the call goes on.
UpdateEnds(c) ==
  /\ pc[c] = "body" /\ updating[c]
  /\ updating' = [updating EXCEPT ![c] = FALSE]
  /\ UNCHANGED <<kind, pc, cancelled, reply, lock, step, sent, shown, tagVars>>

\* The body ends, in a result or an error; the handler sees it when no update is on its way.
BodyEnds(c) ==
  /\ pc[c] = "body" /\ ~updating[c]
  /\ Go(c, FirstRecordStep(kind[c]))
  /\ UNCHANGED <<kind, cancelled, reply, lock, progressVars, tagVars>>

\* The command of an exec call can't be run: an error, and nothing recorded.
ExecFails(c) ==
  /\ pc[c] = "body" /\ kind[c] = "exec" /\ ~updating[c]
  /\ Reply(c, "EXEC_FAILED")
  /\ UNCHANGED <<kind, cancelled, lock, progressVars, tagVars>>

-----------------------------------------------------------------------------
(* record_method and record: each tag is set by a call that is awaited.    *)

Recorded(c) == Go(c, AfterRecordStep(kind[c], pc[c]))

\* commands_run is read ...
GetCount(c) ==
  /\ pc[c] = "get"
  /\ got' = [got EXCEPT ![c] = commands_run]
  /\ Recorded(c)
  /\ UNCHANGED <<kind, cancelled, reply, lock, progressVars, commands_run, counted>>

\* ... and set to one more.
SetCount(c) ==
  /\ pc[c] = "set"
  /\ commands_run' = got[c] + 1 /\ counted' = counted \cup {c}
  /\ Recorded(c)
  /\ UNCHANGED <<kind, cancelled, reply, lock, progressVars, got>>

\* last_method, then or before; and last_command and last_exit_code of an
\* exec call.  No property tells their values apart, nor last_run_ts.
SetOthers(c) ==
  /\ pc[c] \in {"method", "exec_tags"}
  /\ Recorded(c)
  /\ UNCHANGED <<kind, cancelled, reply, lock, progressVars, tagVars>>

\* A tag can't be set: the rest is left alone, the call goes on.
RecordFails(c) ==
  /\ pc[c] \in RecordSteps
  /\ Go(c, "end")
  /\ UNCHANGED <<kind, cancelled, reply, lock, progressVars, tagVars>>

\* A mutant: a cancellation does not stand in the way of a result.
ReturnsResult(c) ==
  /\ pc[c] = "end"
  /\ Reply(c, "result")
  /\ Unlock(c)
  /\ UNCHANGED <<kind, cancelled, progressVars, tagVars>>

\* The handler returns, and lets go of its lock.
Returns(c) ==
  /\ pc[c] = "end"
  /\ Reply(c, IF cancelled[c] THEN "CANCELLED" ELSE "result")
  /\ Unlock(c)
  /\ UNCHANGED <<kind, cancelled, progressVars, tagVars>>

\* The app dies: its calls are never answered, its locks are no more.
Dies ==
  /\ pc' = [c \in Calls |-> IF pc[c] \in InProgress THEN "lost" ELSE pc[c]]
  /\ lock' = [l \in Locks |-> None]
  /\ UNCHANGED <<kind, cancelled, reply, progressVars, tagVars>>

Record(c) == GetCount(c) \/ SetCount(c) \/ SetOthers(c) \/ RecordFails(c)
Ends(c) == BodyEnds(c) \/ ExecFails(c)
Handle(c) ==
  Refuse(c) \/ Busy(c) \/ Accept(c) \/ Acknowledge(c) \/ UpdateEnds(c) \/ Record(c) \/ Returns(c)

Call(c) == Handle(c) \/ Ends(c) \/ Cancel(c) \/ SetStep(c) \/ Update(c)

GatewayNext == (\E c \in Calls : Arrive(c) \/ Call(c)) \/ Dies

GatewaySpec == GatewayInit /\ [][GatewayNext]_gatewayVars

\* A handler goes on; its body, which the loop polls between two updates, ends.
GatewayFairness == \A c \in Calls : WF_gatewayVars(Handle(c)) /\ SF_gatewayVars(Ends(c))

-----------------------------------------------------------------------------
(* Properties.                                                             *)

\* "One network change at a time", "a serial bus has one master"
\* (app.rs:45-49): from its acknowledgement to its recording, no net_apply
\* shares the device with another one, nor a Modbus call of any kind the bus.
RunningOf(methods) == {c \in Calls : pc[c] \in Running /\ kind[c] \in methods}
AtMostOne(methods) == \A c, d \in RunningOf(methods) : c = d
OneAtATime == AtMostOne({"net"}) /\ AtMostOne({"modbus", "scan"})

\* A request that was cancelled is never answered with a result, whenever the
\* cancellation came (app.rs:246, 456).  An error it ran into meanwhile may
\* stand: an exec whose command can't be run says EXEC_FAILED (app.rs:241).
CancellationStands == \A c \in Calls : reply[c] = "result" => ~cancelled[c]

\* with_progress never takes a step for sent that no update has carried, also
\* when the step changes while an update is on its way (app.rs:483-492).
StepsAreSent == \A c \in Calls : pc[c] = "body" /\ sent[c] = step[c] => shown[c] = step[c]

\* "commands_run (every call)" (README.md:470, tags.rs:4): the tag counts the
\* calls that are recorded, each once.
CountsEveryCall == commands_run = Cardinality(counted)

\* Every request that arrives is answered, unless the app dies: no lock, no
\* update and no body holds its handler for ever.
EveryRequestIsAnswered ==
  \A c \in Calls : pc[c] \in InProgress ~> pc[c] \in {"done", "lost"}
=============================================================================
