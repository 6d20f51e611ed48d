----------------------------- MODULE ModbusRpc -----------------------------
(***************************************************************************)
(* probe_modbus, read_modbus and write_modbus (src/src/modbus.rs): one     *)
(* mbpoll after the other on a bus of units.  modbus_lock (Gateway) lets   *)
(* one call through at a time.                                             *)
(*                                                                         *)
(* Units have one table of registers: the four kinds are read alike, and a *)
(* write has one of the two that can be written.  Of the values a read     *)
(* asks for, the first stands for all.  Registers also change by other     *)
(* masters.  A write whose mbpoll has ended before the unit took it may    *)
(* still be on its way (a gateway's queue, a slow unit) and take effect    *)
(* later, or never.                                                        *)
(***************************************************************************)
EXTENDS Naturals, FiniteSets, SequencesExt

CONSTANTS
  MAX_UNIT,         \* 247
  MAX_PROBE_UNITS,  \* 32
  MAX_PROBE_COUNT,  \* 16
  MAX_READ_COUNT,   \* 125
  LAST_REGISTER,    \* 65535
  Values,           \* what a register may hold
  Requests,         \* the payloads of requests, the unreadable included
  Buses,            \* what the units may be: see answers
  MaxCalls,         \* bound: calls of a behaviour
  None

Ids == 0..MAX_UNIT
Registers == 0..LAST_REGISTER
Tables == [Ids -> [Registers -> Values]]

\* Of the payloads, those with the parameters of their method, each of its type.
Payloads == [method : {"probe", "read", "write"}, transport : {"rtu", "tcp"},
             units : Seq(Nat), register : Nat, count : Nat, value : Values]

ASSUME RpcAssumption ==
  /\ MAX_UNIT \in Nat /\ LAST_REGISTER \in Nat /\ MaxCalls \in Nat
  /\ MAX_PROBE_UNITS \in Nat \ {0}
  /\ MAX_PROBE_COUNT \in Nat /\ MAX_READ_COUNT \in Nat
  /\ \E r \in Requests : r \in Payloads
  /\ Buses \subseteq [Ids -> {"absent", "data", "exception"}]
  /\ None \notin Values

VARIABLES
  \* the call
  pc, calls, params,
  ui,         \* which unit of the call is asked
  results,    \* what the reads of the call have come to
  written,    \* mbpoll has confirmed the write: `out` is there
  cancelled, reply,
  answer,     \* the current mbpoll: what has come back from the bus
  \* the world
  answers,    \* per unit: it is absent, has data, or has an exception for it
  table,      \* per unit, its registers
  stray,      \* writes that may still take effect
  \* what the properties need to remember
  took        \* the values of the written register since the write was served

call == <<calls, params>>
progress == <<ui, results, written>>
bus == <<answers, table, stray>>
vars == <<pc, call, progress, cancelled, reply, answer, bus, took>>

-----------------------------------------------------------------------------
(* Parameters.                                                             *)

\* A mutant: a serial request may be a broadcast.
AnyUnit(r) == 0

\* Unit 0 is broadcast on a serial bus.
MinUnit(r) == IF r.transport = "rtu" THEN 1 ELSE 0

MaxUnits(r) == IF r.method = "probe" THEN MAX_PROBE_UNITS ELSE 1
MaxCount(r) ==
  CASE r.method = "probe" -> MAX_PROBE_COUNT
    [] r.method = "read"  -> MAX_READ_COUNT
    [] r.method = "write" -> 1

Acceptable(r) ==
  /\ r \in Payloads
  /\ Len(r.units) \in 1..MaxUnits(r)
  /\ \A i \in DOMAIN r.units : r.units[i] \in MinUnit(r)..MAX_UNIT
  /\ r.register \in Registers /\ r.count \in 1..MaxCount(r)
  /\ r.register + r.count <= LAST_REGISTER + 1

\* A probe's unit ids, each where it first occurs.
Distinct(ids) ==
  FoldLeft(LAMBDA seen, u : IF Contains(seen, u) THEN seen ELSE Append(seen, u), <<>>, ids)

-----------------------------------------------------------------------------
Polls == {"probe", "read", "write", "readback"}
Outcomes == {"ok", "exception", "failed", "link"}
Entries == [unit : Ids, outcome : Outcomes, value : Values \cup {None}]
Codes == {"none", "ok", "INVALID_PARAMS", "PORT_NOT_FOUND", "MODBUS_FAILED", "CANCELLED"}

\* mbpoll has yet to start; it waits; data or a confirmation, or an exception,
\* is on its way back.
Answers == [kind : {"unstarted", "none", "data", "exception"}, value : Values \cup {None}]
Unstarted == [kind |-> "unstarted", value |-> None]
Waiting == [kind |-> "none", value |-> None]

Writes == [unit : Ids, register : Registers, value : Values]

TypeOK ==
  /\ pc \in {"idle", "next", "record"} \cup Polls
  /\ calls \in 0..MaxCalls
  /\ params \in Payloads
  /\ ui \in 1..Len(params.units) + 1 /\ (pc \in Polls => ui <= Len(params.units))
  /\ results \in Seq(Entries) /\ written \in BOOLEAN
  /\ cancelled \in BOOLEAN /\ reply \in Codes
  /\ answer \in Answers
  /\ answers \in Buses /\ table \in Tables
  /\ stray \subseteq Writes
  /\ took \subseteq Values

Init ==
  /\ pc = "idle" /\ calls = 0 /\ params \in Requests \cap Payloads
  /\ ui = 1 /\ results = <<>> /\ written = FALSE
  /\ cancelled = FALSE /\ reply = "none" /\ answer = Unstarted
  /\ answers \in Buses
  /\ table \in {[u \in Ids |-> [r \in Registers |-> v]] : v \in Values}
  /\ stray = {} /\ took = {}

-----------------------------------------------------------------------------
(* A request.                                                              *)

\* Parameters are checked, and the port, before anything is run; nothing of an
\* earlier call is touched.
Refuse(r) ==
  /\ pc = "idle" /\ calls < MaxCalls
  /\ calls' = calls + 1
  /\ \/ ~Acceptable(r) /\ reply' = "INVALID_PARAMS"
     \/ Acceptable(r) /\ r.transport = "rtu" /\ reply' = "PORT_NOT_FOUND"
  /\ UNCHANGED <<pc, params, progress, cancelled, answer, bus, took>>

\* The response of the previous call is out: a new one may begin.
Accept(r) ==
  /\ pc = "idle" /\ calls < MaxCalls /\ Acceptable(r)
  /\ calls' = calls + 1
  /\ params' = IF r.method = "probe" THEN [r EXCEPT !.units = Distinct(@)] ELSE r
  /\ pc' = (IF r.method = "probe" THEN "next" ELSE r.method)
  /\ ui' = 1 /\ results' = <<>> /\ written' = FALSE
  /\ cancelled' = FALSE /\ reply' = "none" /\ answer' = Unstarted /\ took' = {}
  /\ UNCHANGED bus

Cancel ==
  /\ pc # "idle" /\ ~cancelled
  /\ cancelled' = TRUE
  /\ UNCHANGED <<pc, call, progress, reply, answer, bus, took>>

-----------------------------------------------------------------------------
(* The bus.                                                                *)

unit == params.units[ui]
Write == [unit |-> unit, register |-> params.register, value |-> params.value]

Put(w) == [table EXCEPT ![w.unit][w.register] = w.value]

\* What the written register holds after a step, if the write has been served.
Seen == IF took = {} \/ pc \notin Polls THEN {} ELSE {table'[unit][params.register]}

\* Every unit takes a broadcast, and none answers it.
Broadcast ==
  /\ answer' = [Waiting EXCEPT !.value = params.value]
  /\ table' = [u \in Ids |-> IF answers[u] # "data" THEN table[u]
                             ELSE [table[u] EXCEPT ![params.register] = params.value]]
  /\ UNCHANGED took

\* The addressed unit does what it is asked and answers.
Serves ==
  /\ answers[unit] # "absent"
  /\ IF answers[unit] = "exception"
     THEN answer' = [Waiting EXCEPT !.kind = "exception"] /\ UNCHANGED <<table, took>>
     ELSE IF pc = "write"
     THEN /\ answer' = [Waiting EXCEPT !.kind = "data"]
          /\ table' = Put(Write) /\ took' = {params.value}
     ELSE /\ answer' = [kind |-> "data", value |-> table[unit][params.register]]
          /\ UNCHANGED <<table, took>>

Serve ==
  /\ pc \in Polls /\ answer = Waiting
  /\ IF unit = 0 /\ params.transport = "rtu" /\ pc = "write" THEN Broadcast ELSE Serves
  /\ UNCHANGED <<pc, call, progress, cancelled, reply, answers, stray>>

\* A Modbus TCP gateway answers for a unit it can't reach.
GatewayAnswers ==
  /\ pc \in Polls /\ answer = Waiting
  /\ params.transport = "tcp" /\ answers[unit] = "absent"
  /\ answer' = [Waiting EXCEPT !.kind = "exception"]
  /\ UNCHANGED <<pc, call, progress, cancelled, reply, bus, took>>

\* Another master, or the unit itself, changes a register.
Meddle(w) ==
  /\ table' = Put(w)
  /\ took' = took \cup Seen
  /\ UNCHANGED <<pc, call, progress, cancelled, reply, answer, answers, stray>>

\* A write that has been on its way takes effect, or is lost.
Late(w) ==
  /\ w \in stray /\ stray' = stray \ {w}
  /\ \/ table' = Put(w) /\ took' = took \cup Seen
     \/ UNCHANGED <<table, took>>
  /\ UNCHANGED <<pc, call, progress, cancelled, reply, answer, answers>>

-----------------------------------------------------------------------------
(* One mbpoll.                                                             *)

Goto(place) == pc' = place /\ answer' = Unstarted
Ends(code) == Goto("record") /\ reply' = code

\* The runner starts no tool for a cancelled request.
Start ==
  /\ pc \in Polls /\ answer = Unstarted /\ ~cancelled
  /\ answer' = Waiting
  /\ UNCHANGED <<pc, call, progress, cancelled, reply, bus, took>>

\* It is cancelled, or mbpoll can't be run: whatever the call has is dropped.
Unrun ==
  /\ pc \in Polls /\ answer = Unstarted
  /\ Ends("MODBUS_FAILED")
  /\ UNCHANGED <<call, progress, cancelled, bus, took>>

\* How an mbpoll may end: with the answer; without it, because that is late,
\* lost or garbled, or the request is cancelled; or with no connection.
MayEnd(outcome) ==
  CASE outcome = "ok"        -> answer.kind = "data"
    [] outcome = "exception" -> answer.kind = "exception"
    [] outcome = "failed"    -> answer.kind # "unstarted"
    [] outcome = "link"      -> answer = Waiting

Entry(outcome) ==
  [unit |-> unit, outcome |-> outcome,
   value |-> IF outcome = "ok" THEN answer.value ELSE None]

\* A mutant: one unit too many.
OneTooMany ==
  /\ pc = "next"
  /\ IF cancelled \/ ui > Len(params.units) + 1
     THEN Ends("ok")
     ELSE Goto("probe") /\ UNCHANGED reply
  /\ UNCHANGED <<call, progress, cancelled, bus, took>>

\* The loop of probe_modbus: the next unit, unless there is none or the
\* request is cancelled.
NextUnit ==
  /\ pc = "next"
  /\ IF cancelled \/ ui > Len(params.units)
     THEN Ends("ok")
     ELSE Goto("probe") /\ UNCHANGED reply
  /\ UNCHANGED <<call, progress, cancelled, bus, took>>

\* A mutant: any failure ends the probe.
StopsAtSilence(outcome) ==
  /\ pc = "probe" /\ MayEnd(outcome)
  /\ results' = Append(results, Entry(outcome))
  /\ IF outcome \notin {"ok", "exception"}
     THEN Ends("ok") /\ UNCHANGED ui
     ELSE Goto("next") /\ ui' = ui + 1 /\ UNCHANGED reply
  /\ UNCHANGED <<call, written, cancelled, bus, took>>

\* A mutant: a unit that answers with an exception is asked again.
RetriesBusy(outcome) ==
  /\ pc = "probe" /\ MayEnd(outcome)
  /\ IF outcome = "exception"
     THEN Goto("next") /\ UNCHANGED <<ui, results, reply>>
     ELSE /\ Goto("next") /\ ui' = ui + 1 /\ UNCHANGED reply
          /\ results' = Append(results, Entry(outcome))
  /\ UNCHANGED <<call, written, cancelled, bus, took>>

\* A failure of the link, not of one unit, ends the probe.
Probed(outcome) ==
  /\ pc = "probe" /\ MayEnd(outcome)
  /\ results' = Append(results, Entry(outcome))
  /\ IF outcome = "link"
     THEN Ends("ok") /\ UNCHANGED ui
     ELSE Goto("next") /\ ui' = ui + 1 /\ UNCHANGED reply
  /\ UNCHANGED <<call, written, cancelled, bus, took>>

Read(outcome) ==
  /\ pc = "read" /\ MayEnd(outcome)
  /\ results' = Append(results, Entry(outcome))
  /\ Ends(IF outcome = "ok" THEN "ok" ELSE "MODBUS_FAILED")
  /\ UNCHANGED <<call, ui, written, cancelled, bus, took>>

\* A mutant: the exit code and the output are not looked at.
Unconfirmed(outcome) ==
  /\ pc = "write" /\ MayEnd(outcome)
  /\ written' = TRUE /\ Goto("readback")
  /\ UNCHANGED <<call, ui, results, cancelled, reply, bus, took>>

\* Only a confirmed write goes on.  One that has not been served may be yet.
WriteEnds(outcome) ==
  /\ pc = "write" /\ MayEnd(outcome)
  /\ IF outcome = "ok"
     THEN written' = TRUE /\ Goto("readback") /\ UNCHANGED <<reply, stray>>
     ELSE /\ Ends("MODBUS_FAILED") /\ UNCHANGED written
          /\ stray' \in IF outcome = "failed" /\ answer = Waiting
                        THEN {stray, stray \cup {Write}} ELSE {stray}
  /\ UNCHANGED <<call, ui, results, cancelled, answers, table, took>>

\* A read-back that fails is reported beside the write (readback_error).
ReadBack(outcome) ==
  /\ pc = "readback" /\ MayEnd(outcome)
  /\ results' = Append(results, Entry(outcome))
  /\ Ends("ok")
  /\ UNCHANGED <<call, ui, written, cancelled, bus, took>>

Poll(outcome) == Probed(outcome) \/ Read(outcome) \/ WriteEnds(outcome) \/ ReadBack(outcome)

\* Gateway::typed leaves a cancellation standing.
Returns ==
  /\ pc = "record"
  /\ pc' = "idle"
  /\ reply' = (IF cancelled THEN "CANCELLED" ELSE reply)
  /\ UNCHANGED <<call, progress, cancelled, answer, bus, took>>

Over ==
  /\ pc = "idle" /\ calls = MaxCalls
  /\ UNCHANGED vars

Call == Start \/ Unrun \/ NextUnit \/ (\E o \in Outcomes : Poll(o)) \/ Returns

World ==
  \/ Serve \/ GatewayAnswers
  \/ \E w \in Writes : Meddle(w)
  \/ \E w \in stray : Late(w)

Next ==
  \/ \E r \in Requests : Refuse(r) \/ Accept(r)
  \/ Cancel \/ Call \/ World \/ Over

Spec == Init /\ [][Next]_vars

\* The runtime polls the call, and every mbpoll ends within its timeout.
FairSpec == Spec /\ WF_vars(Call)
-----------------------------------------------------------------------------
(* Properties.                                                             *)

\* A write reaches the unit it names and no other: on a serial bus, unit 0
\* would reach all of them (modbus.rs:188-195).
WritesOneUnit ==
  [][\A u, v \in Ids : table'[u] # table[u] /\ table'[v] # table[v] => u = v]_vars

\* A write is reported as done only when the unit has taken the value during
\* the call, and the read-back beside it is a value the register has had since
\* then (modbus.rs:727-749); an older write that comes late can change it.  One
\* that mbpoll has confirmed is reported as failed only when its read-back was
\* never run (modbus.rs:746): "a failed read-back ... adds readback_error (the
\* write itself succeeded)" (README.md:407-408).
WriteReportIsTrue ==
  params.method = "write" =>
    /\ reply = "ok" =>
         /\ written /\ took # {}
         /\ \A i \in DOMAIN results : results[i].outcome = "ok" => results[i].value \in took
    /\ written /\ reply = "MODBUS_FAILED" => results = <<>>

\* A probe's results are those of the first units it was given, each once and
\* in their order; it leaves some out only after a link failure or when it is
\* cancelled; and a unit it counts as answering is there, but for the
\* exceptions a TCP gateway sends for it (README.md:362-382).
ProbeIsTrue ==
  reply = "ok" /\ params.method = "probe" =>
    /\ [i \in DOMAIN results |-> results[i].unit] = SubSeq(params.units, 1, Len(results))
    /\ \A i, j \in DOMAIN results : results[i].unit = results[j].unit => i = j
    /\ \/ Len(results) = Len(params.units) \/ cancelled
       \/ results # <<>> /\ Last(results).outcome = "link"
    /\ \A i \in DOMAIN results : results[i].outcome \in {"ok", "exception"} =>
         \/ answers[results[i].unit] # "absent"
         \/ params.transport = "tcp" /\ results[i].outcome = "exception"

\* No call waits for the bus without end: modbus_lock is freed.
EveryCallReturns == (pc # "idle") ~> (pc = "idle")

-----------------------------------------------------------------------------
(* What the proofs rest on.                                                *)

Target == table[unit][params.register]

\* A call that is not a probe has the parameters of its request.
OneUnitCalls ==
  /\ pc \in {"read", "write", "readback"} => Acceptable(params) /\ ui = 1
  /\ pc \in {"next", "probe"} => params.method = "probe"
  /\ pc = "read" => params.method = "read"
  /\ pc \in {"write", "readback"} => params.method = "write"
  /\ pc \notin {"idle", "record"} => reply = "none"

\* How far a write is: served, confirmed, read back.
WriteProgress ==
  /\ pc = "write" => ~written /\ results = <<>> /\ (answer.kind = "data" => took # {})
  /\ pc = "readback" =>
       /\ written /\ took # {} /\ results = <<>>
       /\ answer.kind = "data" => answer.value \in took
  /\ pc \in {"write", "readback"} /\ took # {} => Target \in took

WriteInv ==
  /\ pc \in {"idle", "next", "record"} \cup Polls
  /\ answers \in Buses /\ table \in Tables /\ stray \subseteq Writes
  /\ OneUnitCalls /\ WriteProgress /\ WriteReportIsTrue

\* What is asked of the bus, from the acceptance of a request to its response.
Begun == pc # "idle" \/ reply = "ok"
Asked ==
  Begun =>
    /\ params.units \in Seq(Ids) /\ params.register \in Registers
    /\ params.method = "probe" => IsInjective(params.units)

\* Whoever answers is there, but for a gateway's exceptions.
IsThere(u, outcome) ==
  answers[u] # "absent" \/ (params.transport = "tcp" /\ outcome = "exception")
AnswerIsTrue ==
  pc \in Polls =>
    /\ answer.kind = "data" => answers[unit] # "absent"
    /\ answer.kind = "exception" => IsThere(unit, "exception")

\* How far a probe is: one result for each unit asked.
ProbeProgress ==
  Begun /\ params.method = "probe" =>
    /\ Len(results) <= Len(params.units)
    /\ \A i \in DOMAIN results :
         /\ results[i].unit = params.units[i]
         /\ results[i].outcome \in {"ok", "exception"} =>
              IsThere(results[i].unit, results[i].outcome)
    /\ pc \in {"next", "probe"} => Len(results) = ui - 1
    /\ reply = "ok" => \/ Len(results) = Len(params.units) \/ cancelled
                       \/ results # <<>> /\ Last(results).outcome = "link"

ProbeInv == TypeOK /\ Asked /\ AnswerIsTrue /\ ProbeProgress
=============================================================================
