-------------------------- MODULE ModbusRpcProofs --------------------------
(***************************************************************************)
(* Proofs about ModbusRpc, for every bus, set of requests and value: which *)
(* units a write reaches, and that the reports of a write and of a probe   *)
(* are true.  The argument runs over how far a write is (WriteInv), which  *)
(* rules broadcasts out, and then over how far a probe is (ProbeInv).      *)
(***************************************************************************)
EXTENDS ModbusRpc, TLAPS

USE RpcAssumption

\* What Distinct folds.
Extend(seen, u) == IF Contains(seen, u) THEN seen ELSE Append(seen, u)

F == INSTANCE FoldLaws WITH Op <- Extend

-----------------------------------------------------------------------------
(* Types.                                                                  *)

LEMMA ConstantTypes ==
  /\ Unstarted \in Answers /\ Waiting \in Answers
  /\ Unstarted.kind = "unstarted" /\ Waiting.kind = "none"
  /\ Unstarted # Waiting
  BY DEF Answers, Unstarted, Waiting

LEMMA PutTypes ==
  ASSUME NEW w \in Writes, table \in Tables
  PROVE  Put(w) \in Tables
  BY DEF Put, Tables, Writes

\* The call that is not a probe names one unit and one register of the bus.
LEMMA OneUnit ==
  ASSUME NEW r, Acceptable(r), r.method # "probe"
  PROVE  /\ r.units[1] \in Ids /\ r.units[1] >= MinUnit(r)
         /\ r.register \in Registers /\ r.value \in Values
<1>0. r.units \in Seq(Nat) /\ MaxUnits(r) = 1 /\ Len(r.units) \in 1..MaxUnits(r)
  BY DEF Acceptable, MaxUnits, Payloads
<1>1. Len(r.units) = 1 /\ r.units \in Seq(Nat)
  BY <1>0
<1>2. 1 \in DOMAIN r.units
  BY <1>1
<1>3. r.units[1] \in MinUnit(r)..MAX_UNIT /\ MinUnit(r) \in 0..1
  BY <1>2 DEF Acceptable, MinUnit
<1> QED
  BY <1>3 DEF Acceptable, Payloads, Ids

LEMMA WriteTypes ==
  ASSUME WriteInv, pc \in {"read", "write", "readback"}
  PROVE  /\ unit \in Ids /\ unit >= MinUnit(params)
         /\ params.register \in Registers /\ params.value \in Values
         /\ Write \in Writes
<1>1. Acceptable(params) /\ ui = 1 /\ params.method # "probe"
  BY DEF WriteInv, OneUnitCalls
<1> QED
  BY <1>1, OneUnit DEF unit, Write, Writes

\* Unit 0 of a serial bus is no unit a write asks for.
LEMMA NoBroadcast ==
  ASSUME WriteInv, pc = "write", params.transport = "rtu"
  PROVE  unit # 0
<1>1. unit \in Nat /\ unit >= 1
  BY WriteTypes DEF MinUnit, Ids
<1> QED
  BY <1>1

-----------------------------------------------------------------------------
(* The invariant.                                                          *)

LEMMA WriteInit == Init => WriteInv
<1> SUFFICES ASSUME Init PROVE WriteInv
  OBVIOUS
<1>1. table \in Tables
  BY DEF Init, Tables
<1> QED
  BY <1>1, ConstantTypes
  DEF Init, WriteInv, OneUnitCalls, WriteProgress, WriteReportIsTrue, Writes

\* A step that leaves the call alone and keeps what a write's register has
\* held since it was served keeps the invariant.
LEMMA WorldKeeps ==
  ASSUME WriteInv, UNCHANGED <<pc, call, progress, reply, answer, answers>>,
         table' \in Tables, stray' \subseteq Writes,
         took' = took \cup Seen
  PROVE  WriteInv'
<1>1. (Target \in took)' \/ took = {} \/ pc \notin {"write", "readback"}
  BY DEF Seen, Target, unit, call, progress, Polls
<1>2. took' = {} => took = {}
  OBVIOUS
<1>3. took \subseteq took'
  OBVIOUS
<1>4. took = {} /\ pc \in {"write", "readback"} => took' = {}
  BY DEF Seen
<1>5. OneUnitCalls'
  BY DEF WriteInv, OneUnitCalls, Acceptable, call, progress, MinUnit, MaxUnits, MaxCount
<1>6. WriteProgress'
  BY <1>1, <1>2, <1>3, <1>4 DEF WriteInv, WriteProgress, call, progress
<1>7. WriteReportIsTrue'
  BY <1>2, <1>3 DEF WriteInv, WriteReportIsTrue, call, progress
<1> QED
  BY <1>5, <1>6, <1>7 DEF WriteInv, Tables, Writes

LEMMA WriteNext == WriteInv /\ [Next]_vars => WriteInv'
<1> SUFFICES ASSUME WriteInv, [Next]_vars PROVE WriteInv'
  OBVIOUS
<1> USE ConstantTypes
<1>1. ASSUME NEW r \in Requests, Refuse(r) PROVE WriteInv'
  BY <1>1 DEF Refuse, WriteInv, OneUnitCalls, WriteProgress, WriteReportIsTrue, progress, bus,
    Target, unit, Writes, Tables, Polls
<1>2. ASSUME NEW r \in Requests, Accept(r) PROVE WriteInv'
  <2>1. r \in Payloads
    BY <1>2 DEF Accept, Acceptable
  <2>2. r.method \in {"probe", "read", "write"}
    BY <2>1 DEF Payloads
  <2>3. pc' = (IF r.method = "probe" THEN "next" ELSE r.method) /\ ui' = 1
        /\ results' = <<>> /\ ~written' /\ reply' = "none" /\ answer' = Unstarted /\ took' = {}
        /\ UNCHANGED <<answers, table, stray>> /\ Acceptable(r)
    BY <1>2 DEF Accept, bus
  <2>4. CASE r.method = "probe"
    <3>1. params'.method = "probe" /\ pc' = "next"
      BY <1>2, <2>1, <2>4 DEF Accept, Payloads
    <3> QED
      BY <2>3, <3>1 DEF WriteInv, OneUnitCalls, WriteProgress, WriteReportIsTrue, Writes, Tables
  <2>5. CASE r.method # "probe"
    <3>1. params' = r /\ pc' = r.method
      BY <1>2, <2>5 DEF Accept
    <3>2. Acceptable(params)'
      BY <2>3, <3>1 DEF Acceptable, MinUnit, MaxUnits, MaxCount
    <3>3. OneUnitCalls'
      BY <2>2, <2>3, <2>5, <3>1, <3>2 DEF OneUnitCalls
    <3>4. WriteProgress' /\ WriteReportIsTrue'
      BY <2>2, <2>3, <2>5, <3>1 DEF WriteProgress, WriteReportIsTrue
    <3> QED
      BY <2>2, <2>3, <2>5, <3>1, <3>3, <3>4 DEF WriteInv, Polls, Writes, Tables
  <2> QED
    BY <2>4, <2>5
<1>3. CASE Cancel
  BY <1>3 DEF Cancel, WriteInv, OneUnitCalls, WriteProgress, WriteReportIsTrue, call, progress, bus,
    Target, unit, Acceptable, MinUnit, MaxUnits, MaxCount, Writes, Tables
<1>4. CASE Start \/ Unrun
  <2>1. CASE Start
    BY <2>1 DEF Start, WriteInv, OneUnitCalls, WriteProgress, WriteReportIsTrue, Unstarted, Waiting,
      call, progress, bus, Target, unit, Acceptable, MinUnit, MaxUnits, MaxCount, Writes, Tables
  <2>2. CASE Unrun
    BY <2>2 DEF Unrun, Ends, Goto, WriteInv, OneUnitCalls, WriteProgress, WriteReportIsTrue,
      call, progress, bus, Writes, Tables, Polls
  <2> QED
    BY <1>4, <2>1, <2>2
<1>5. CASE NextUnit
  BY <1>5 DEF NextUnit, Ends, Goto, WriteInv, OneUnitCalls, WriteProgress, WriteReportIsTrue,
    call, progress, bus, Writes, Tables, Polls
<1>6. ASSUME NEW o \in Outcomes, Probed(o) PROVE WriteInv'
  BY <1>6 DEF Probed, Ends, Goto, WriteInv, OneUnitCalls, WriteProgress, WriteReportIsTrue,
    call, bus, Writes, Tables, Polls
<1>7. ASSUME NEW o \in Outcomes, Read(o) PROVE WriteInv'
  BY <1>7 DEF Read, Ends, Goto, WriteInv, OneUnitCalls, WriteProgress, WriteReportIsTrue,
    call, bus, Writes, Tables
<1>8. ASSUME NEW o \in Outcomes, WriteEnds(o) PROVE WriteInv'
  <2>1. Write \in Writes
    BY <1>8, WriteTypes DEF WriteEnds
  <2>2. stray' \subseteq Writes
    BY <1>8, <2>1 DEF WriteEnds, WriteInv
  <2>3. CASE o = "ok"
    <3>1. answer.kind = "data" /\ took # {} /\ results = <<>>
      BY <1>8, <2>3 DEF WriteEnds, MayEnd, WriteInv, WriteProgress
    <3> QED
      BY <1>8, <2>2, <2>3, <3>1 DEF WriteEnds, Goto, WriteInv, OneUnitCalls, WriteProgress,
        WriteReportIsTrue, call, Target, unit, Acceptable, MinUnit, MaxUnits, MaxCount, Writes, Tables, Polls
  <2>4. CASE o # "ok"
    BY <1>8, <2>2, <2>4 DEF WriteEnds, Ends, Goto, WriteInv, OneUnitCalls, WriteProgress,
      WriteReportIsTrue, call, Writes, Tables
  <2> QED
    BY <2>3, <2>4
<1>9. ASSUME NEW o \in Outcomes, ReadBack(o) PROVE WriteInv'
  <2>1. results' = <<Entry(o)>> /\ written /\ took # {}
    BY <1>9 DEF ReadBack, WriteInv, WriteProgress
  <2>2. o = "ok" => answer.value \in took
    BY <1>9 DEF ReadBack, MayEnd, WriteInv, WriteProgress
  <2>3. Entry(o).outcome = o /\ (o = "ok" => Entry(o).value = answer.value)
    BY DEF Entry
  <2>4. \A i \in DOMAIN results' : results'[i] = Entry(o)
    BY <2>1
  <2>5. WriteReportIsTrue'
    BY <1>9, <2>1, <2>2, <2>3, <2>4 DEF ReadBack, Ends, Goto, WriteReportIsTrue
  <2> QED
    BY <1>9, <2>5 DEF ReadBack, Ends, Goto, WriteInv, OneUnitCalls, WriteProgress, call, bus, Writes, Tables
<1>10. CASE Returns
  BY <1>10 DEF Returns, WriteInv, OneUnitCalls, WriteProgress, WriteReportIsTrue,
    call, progress, bus, Writes, Tables
<1>11. CASE Serve
  <2>1. CASE pc = "write" /\ answers[unit] # "exception"
    <3>1. Serves
      BY <1>11, <2>1, NoBroadcast DEF Serve
    <3>2. table' = Put(Write) /\ took' = {params.value} /\ answer' = [Waiting EXCEPT !.kind = "data"]
      BY <2>1, <3>1 DEF Serves
    <3>3. Write \in Writes /\ unit \in Ids /\ params.register \in Registers
      BY <2>1, WriteTypes
    <3>4. UNCHANGED <<pc, calls, params, ui, results, written, reply, answers, stray>>
      BY <1>11 DEF Serve, call, progress
    <3>5. table' \in Tables
      BY <3>2, <3>3, PutTypes DEF WriteInv
    <3>6. Target' = params.value
      BY <3>2, <3>3, <3>4 DEF Target, Put, Write, unit, WriteInv, Tables
    <3>7. OneUnitCalls' /\ WriteProgress' /\ WriteReportIsTrue'
      BY <2>1, <3>2, <3>4, <3>6 DEF WriteInv, OneUnitCalls, WriteProgress, WriteReportIsTrue,
        Acceptable, MinUnit, MaxUnits, MaxCount
    <3> QED
      BY <3>4, <3>5, <3>7 DEF WriteInv, Writes, Tables
  <2>2. CASE ~(pc = "write" /\ answers[unit] # "exception")
    <3>1. Serves
      BY <1>11, <2>2, NoBroadcast DEF Serve
    <3>2. UNCHANGED <<pc, calls, params, ui, results, written, reply, answers, stray, table, took>>
      BY <1>11, <2>2, <3>1 DEF Serve, Serves, call, progress
    <3>3. answer' = [Waiting EXCEPT !.kind = "exception"]
            \/ (pc # "write" /\ answer' = [kind |-> "data", value |-> table[unit][params.register]])
      BY <2>2, <3>1 DEF Serves
    <3>4. pc = "readback" => Target \in took
      BY DEF WriteInv, WriteProgress
    <3>5. OneUnitCalls'
      BY <3>2 DEF WriteInv, OneUnitCalls, Acceptable, MinUnit, MaxUnits, MaxCount
    <3>6. WriteProgress' /\ WriteReportIsTrue'
      BY <3>2, <3>3, <3>4 DEF WriteInv, WriteProgress, WriteReportIsTrue, Target, unit, Waiting
    <3> QED
      BY <3>2, <3>5, <3>6 DEF WriteInv, Writes, Tables
  <2> QED
    BY <2>1, <2>2
<1>12. CASE GatewayAnswers
  <2>1. answer' = [Waiting EXCEPT !.kind = "exception"] /\ answer'.kind = "exception"
    BY <1>12 DEF GatewayAnswers, Waiting
  <2> QED
    BY <1>12, <2>1 DEF GatewayAnswers, WriteInv, OneUnitCalls, WriteProgress, WriteReportIsTrue,
      call, progress, bus, Target, unit, Acceptable, MinUnit, MaxUnits, MaxCount, Writes, Tables
<1>13. ASSUME NEW w \in Writes, Meddle(w) PROVE WriteInv'
  <2>1. table' \in Tables
    BY <1>13, PutTypes DEF Meddle, WriteInv
  <2> QED
    BY <1>13, <2>1, WorldKeeps DEF Meddle, WriteInv
<1>14. ASSUME NEW w \in stray, Late(w) PROVE WriteInv'
  <2>1. w \in Writes /\ stray' \subseteq Writes
    BY <1>14 DEF Late, WriteInv
  <2>2. CASE table' = Put(w) /\ took' = took \cup Seen
    <3>1. table' \in Tables
      BY <2>1, <2>2, PutTypes DEF WriteInv
    <3> QED
      BY <1>14, <2>1, <2>2, <3>1, WorldKeeps DEF Late
  <2>3. CASE UNCHANGED <<table, took>>
    <3>1. UNCHANGED <<pc, calls, params, ui, results, written, reply, answer, answers, table, took>>
      BY <1>14, <2>3 DEF Late, call, progress
    <3> QED
      BY <2>1, <3>1 DEF WriteInv, OneUnitCalls, WriteProgress, WriteReportIsTrue,
        Target, unit, Acceptable, MinUnit, MaxUnits, MaxCount, Writes, Tables
  <2> QED
    BY <1>14, <2>2, <2>3 DEF Late
<1>15. CASE UNCHANGED vars
  BY <1>15 DEF vars, WriteInv, OneUnitCalls, WriteProgress, WriteReportIsTrue, call, progress, bus,
    Target, unit, Acceptable, MinUnit, MaxUnits, MaxCount, Writes, Tables
<1> QED
  BY <1>1, <1>2, <1>3, <1>4, <1>5, <1>6, <1>7, <1>8, <1>9, <1>10, <1>11, <1>12, <1>13, <1>14, <1>15
  DEF Next, Call, Poll, World, Over

-----------------------------------------------------------------------------
(* Theorems.                                                               *)

LEMMA RpcInvariant == Spec => []WriteInv
  BY WriteInit, WriteNext, PTL DEF Spec

\* A write that is reported as done has been taken by its unit during the call,
\* and what the read-back says is a value the register has had since; one that
\* is confirmed is reported as failed only without a read-back (modbus.rs:727-749).
THEOREM WritesAreReported == Spec => []WriteReportIsTrue
<1>1. WriteInv => WriteReportIsTrue
  BY DEF WriteInv
<1> QED
  BY <1>1, RpcInvariant, PTL

\* A step changes registers of one unit at most.
LEMMA OneUnitSteps ==
  ASSUME WriteInv, [Next]_vars
  PROVE  \A u, v \in Ids : table'[u] # table[u] /\ table'[v] # table[v] => u = v
<1>1. ASSUME NEW w \in Writes, table' = Put(w)
      PROVE  \A u \in Ids : table'[u] # table[u] => u = w.unit
  BY <1>1 DEF Put, WriteInv, Tables
<1>2. CASE Serve
  <2>1. Serves
    BY <1>2, NoBroadcast DEF Serve
  <2>2. table' = table \/ (pc = "write" /\ table' = Put(Write))
    BY <2>1 DEF Serves
  <2> QED
    BY <1>1, <2>2, WriteTypes
<1>3. ASSUME NEW w \in Writes, Meddle(w)
      PROVE  \A u, v \in Ids : table'[u] # table[u] /\ table'[v] # table[v] => u = v
  BY <1>1, <1>3 DEF Meddle
<1>4. ASSUME NEW w \in stray, Late(w)
      PROVE  \A u, v \in Ids : table'[u] # table[u] /\ table'[v] # table[v] => u = v
  <2>1. w \in Writes /\ (table' = Put(w) \/ table' = table)
    BY <1>4 DEF Late, WriteInv
  <2> QED
    BY <1>1, <2>1
<1>5. ASSUME table' = table
      PROVE  \A u, v \in Ids : table'[u] # table[u] /\ table'[v] # table[v] => u = v
  BY <1>5
<1>6. ASSUME NEW r \in Requests, Refuse(r) \/ Accept(r) PROVE table' = table
  BY <1>6 DEF Refuse, Accept, bus
<1>7. Cancel \/ Start \/ Unrun \/ NextUnit \/ Returns \/ GatewayAnswers \/ UNCHANGED vars
        => table' = table
  BY DEF Cancel, Start, Unrun, NextUnit, Returns, GatewayAnswers, vars, bus
<1>8. ASSUME NEW o \in Outcomes, Poll(o) PROVE table' = table
  BY <1>8 DEF Poll, Probed, Read, WriteEnds, ReadBack, bus
<1> QED
  BY <1>2, <1>3, <1>4, <1>5, <1>6, <1>7, <1>8 DEF Next, Call, World, Over

\* A write reaches the unit it names and no other; on a serial bus none is a
\* broadcast (modbus.rs:201-208, 459-462).
THEOREM WritesReachOneUnit == Spec => WritesOneUnit
<1>1. WriteInv /\ [Next]_vars =>
        [\A u, v \in Ids : table'[u] # table[u] /\ table'[v] # table[v] => u = v]_vars
  BY OneUnitSteps
<1> QED
  BY <1>1, RpcInvariant, PTL DEF Spec, WritesOneUnit

-----------------------------------------------------------------------------
(* Probes.                                                                 *)

\* The units of a request that is accepted are all on the bus.
LEMMA AcceptedUnits ==
  ASSUME NEW r, Acceptable(r)
  PROVE  r.units \in Seq(Ids)
<1>1. r.units \in Seq(Nat) /\ Len(r.units) \in Nat
  BY DEF Acceptable, Payloads
<1>2. \A i \in 1..Len(r.units) : r.units[i] \in Ids
  BY <1>1 DEF Acceptable, MinUnit, Ids
<1> QED
  BY <1>1, <1>2

\* And a probe asks none of them twice.
LEMMA DistinctUnits ==
  ASSUME NEW r, Acceptable(r)
  PROVE  Distinct(r.units) \in Seq(Ids) /\ IsInjective(Distinct(r.units))
<1>1. r.units \in Seq(Ids)
  BY AcceptedUnits
<1>2. F!AppendsNew(Ids)
  BY DEF F!AppendsNew, F!Elements, Extend, Contains
<1>3. <<>> \in Seq(Ids) /\ F!NoneTwice(<<>>)
  BY DEF F!NoneTwice
<1>4. Distinct(r.units) = F!Fold(<<>>, r.units)
  BY DEF Distinct, Extend, Contains, F!Fold, F!FoldLeft, F!MapThenFoldSet, F!Max,
    FoldLeft, MapThenFoldSet, Max
<1>5. F!Fold(<<>>, r.units) \in Seq(Ids) /\ F!NoneTwice(F!Fold(<<>>, r.units))
  BY <1>1, <1>2, <1>3, F!FoldOnce
<1> QED
  BY <1>4, <1>5 DEF F!NoneTwice, IsInjective

\* An end of an mbpoll makes one more entry, whose words are the bus's.
LEMMA EntryIsTrue ==
  ASSUME ProbeInv, NEW o \in Outcomes, pc \in Polls, MayEnd(o)
  PROVE  /\ Entry(o) \in Entries /\ Entry(o).unit = unit /\ Entry(o).outcome = o
         /\ o \in {"ok", "exception"} => IsThere(unit, o)
         /\ Append(results, Entry(o)) \in Seq(Entries)
<1>1. Begun /\ ui \in 1..Len(params.units) /\ params.units \in Seq(Ids)
  BY DEF ProbeInv, TypeOK, Asked, Begun, Polls
<1>2. unit \in Ids
  BY <1>1 DEF unit
<1>3. o = "ok" => answer.value \in Values \cup {None}
  BY DEF ProbeInv, TypeOK, Answers
<1>4. Entry(o) \in Entries /\ Entry(o).unit = unit /\ Entry(o).outcome = o
  BY <1>2, <1>3 DEF Entry, Entries
<1>5. o \in {"ok", "exception"} => IsThere(unit, o)
  BY DEF MayEnd, ProbeInv, AnswerIsTrue, IsThere
<1> QED
  BY <1>4, <1>5 DEF ProbeInv, TypeOK

LEMMA ProbeInit == Init => ProbeInv
<1> SUFFICES ASSUME Init PROVE ProbeInv
  OBVIOUS
<1>1. table \in Tables
  BY DEF Init, Tables
<1>2. params \in Payloads /\ Len(params.units) \in Nat
  BY DEF Init, Payloads
<1>3. pc = "idle" /\ reply = "none" /\ ui = 1 /\ calls = 0 /\ results = <<>>
      /\ written = FALSE /\ cancelled = FALSE
      /\ answer = Unstarted /\ answers \in Buses /\ stray = {} /\ took = {}
  BY DEF Init
<1>4. /\ ui \in 1..Len(params.units) + 1 /\ results \in Seq(Entries)
      /\ took \subseteq Values /\ stray \subseteq Writes
  BY <1>2, <1>3
<1>5. TypeOK
  <2>1. calls \in 0..MaxCalls
    BY <1>3
  <2>2. answer \in Answers
    BY <1>3, ConstantTypes
  <2>3. /\ pc \in {"idle", "next", "record"} \cup Polls /\ pc \notin Polls
        /\ written \in BOOLEAN /\ cancelled \in BOOLEAN /\ reply \in Codes
    BY <1>3 DEF Polls, Codes
  <2> QED
    BY <1>1, <1>2, <1>3, <1>4, <2>1, <2>2, <2>3 DEF TypeOK
<1> QED
  BY <1>3, <1>5 DEF ProbeInv, Asked, AnswerIsTrue, ProbeProgress, Begun, Polls

\* What the world does keeps the invariant: it knows nothing of the call.
LEMMA WorldKeepsProbe ==
  ASSUME WriteInv, ProbeInv, World
  PROVE  ProbeInv'
<1> USE DEF ProbeInv
<1>0. UNCHANGED <<pc, calls, params, ui, results, written, cancelled, reply, answers>>
  BY DEF World, Serve, GatewayAnswers, Meddle, Late, call, progress, bus
<1>1. pc \in Polls => unit \in Ids /\ params.register \in Registers /\ params.value \in Values
  BY DEF TypeOK, Asked, Begun, Polls, unit, Payloads
<1>2. unit' = unit
  BY <1>0 DEF unit
<1>3. Asked' /\ ProbeProgress'
  BY <1>0 DEF Asked, ProbeProgress, Begun, IsThere
<1>4. CASE Serve
  <2>1. Serves /\ stray' = stray /\ pc \in Polls
    BY <1>4, NoBroadcast DEF Serve
  <2>2. /\ answer' \in Answers
        /\ answer'.kind = "data" => answers[unit] # "absent"
        /\ answer'.kind = "exception" => answers[unit] # "absent"
    BY <1>1, <2>1 DEF Serves, Answers, Waiting, TypeOK, Tables
  <2>3. table' \in Tables /\ took' \subseteq Values
    <3>1. CASE UNCHANGED <<table, took>>
      BY <3>1 DEF TypeOK
    <3>2. CASE table' = Put(Write) /\ took' = {params.value}
      <4>1. Write \in Writes
        BY <1>1, <2>1 DEF Write, Writes
      <4> QED
        BY <1>1, <2>1, <3>2, <4>1, PutTypes DEF TypeOK
    <3> QED
      BY <2>1, <3>1, <3>2 DEF Serves
  <2>4. TypeOK'
    BY <1>0, <2>1, <2>2, <2>3 DEF TypeOK, Writes, Tables, Answers
  <2>5. AnswerIsTrue'
    BY <1>0, <1>2, <2>2 DEF AnswerIsTrue, IsThere
  <2> QED
    BY <1>3, <2>4, <2>5
<1>5. CASE GatewayAnswers
  <2>1. answer' = [Waiting EXCEPT !.kind = "exception"] /\ params.transport = "tcp"
    BY <1>5 DEF GatewayAnswers
  <2>2. answer'.kind = "exception" /\ answer' \in Answers
    BY <2>1 DEF Waiting, Answers
  <2>3. UNCHANGED <<table, stray, took>>
    BY <1>5 DEF GatewayAnswers, bus
  <2>4. TypeOK'
    BY <1>0, <2>2, <2>3 DEF TypeOK, Writes, Tables, Answers
  <2>5. AnswerIsTrue'
    BY <1>0, <1>2, <2>1, <2>2 DEF AnswerIsTrue, IsThere
  <2> QED
    BY <1>3, <2>4, <2>5
<1>6. ASSUME table' \in Tables, took' \subseteq took \cup Seen, stray' \subseteq stray, answer' = answer
      PROVE  ProbeInv'
  <2>1. Seen \subseteq Values
    BY <1>1, <1>6 DEF Seen, Tables
  <2>2. TypeOK'
    BY <1>0, <1>6, <2>1 DEF TypeOK, Writes, Tables, Answers
  <2>3. AnswerIsTrue'
    BY <1>0, <1>2, <1>6 DEF AnswerIsTrue, IsThere
  <2> QED
    BY <1>3, <2>2, <2>3
<1>7. ASSUME NEW w \in Writes, Meddle(w) PROVE ProbeInv'
  <2>1. table' \in Tables
    BY <1>7, PutTypes DEF Meddle, TypeOK
  <2> QED
    BY <1>6, <1>7, <2>1 DEF Meddle
<1>8. ASSUME NEW w \in stray, Late(w) PROVE ProbeInv'
  <2>1. w \in Writes
    BY DEF TypeOK
  <2>2. table' \in Tables
    BY <1>8, <2>1, PutTypes DEF Late, TypeOK
  <2> QED
    BY <1>6, <1>8, <2>2 DEF Late
<1> QED
  BY <1>4, <1>5, <1>7, <1>8 DEF World

\* A step of the call that leaves what it asks for alone, and what it has found.
LEMMA PlaceKeepsProbe ==
  ASSUME ProbeInv, pc # "idle", UNCHANGED <<calls, params, ui, results, written, answers, table, took>>,
         pc' \in {"idle", "next", "record"} \cup Polls, pc' \in Polls => ui <= Len(params.units),
         cancelled' \in BOOLEAN, reply' \in Codes,
         answer' \in {Unstarted, Waiting, answer}, answer' = answer => (pc' = pc \/ pc' \notin Polls),
         stray' \subseteq Writes
  PROVE  TypeOK' /\ Asked' /\ AnswerIsTrue'
<1> USE DEF ProbeInv
<1>1. TypeOK'
  <2>1. answer' \in Answers
    BY ConstantTypes DEF TypeOK
  <2> QED
    BY <2>1 DEF TypeOK, Polls, Codes, Writes, Tables, Answers
<1>2. Asked'
  BY DEF Asked, Begun
<1>3. unit' = unit
  BY DEF unit
<1>4. AnswerIsTrue'
  <2>1. Waiting.kind = "none" /\ Unstarted.kind = "unstarted"
    BY ConstantTypes
  <2> QED
    BY <1>3, <2>1 DEF AnswerIsTrue, IsThere
<1> QED
  BY <1>1, <1>2, <1>4

\* The end of an mbpoll adds one entry, and the call goes on elsewhere.
LEMMA EntryKeepsProbe ==
  ASSUME ProbeInv, NEW o \in Outcomes, pc \in Polls, MayEnd(o),
         results' = Append(results, Entry(o)),
         UNCHANGED <<calls, params, written, cancelled, answers, table, stray, took>>,
         pc' \in {"next", "record"}, answer' = Unstarted, reply' \in Codes,
         ui' \in {ui, ui + 1}
  PROVE  TypeOK' /\ Asked' /\ AnswerIsTrue'
<1> USE DEF ProbeInv
<1>1. results' \in Seq(Entries)
  BY EntryIsTrue
<1>2. ui' \in 1..Len(params.units) + 1
  BY DEF TypeOK, Polls, Payloads
<1>3. pc' \notin Polls
  BY DEF Polls
<1>4. TypeOK'
  BY <1>1, <1>2, <1>3, ConstantTypes DEF TypeOK, Writes, Tables, Answers
<1>5. Asked' /\ AnswerIsTrue'
  BY <1>3 DEF Asked, Begun, AnswerIsTrue, Polls
<1> QED
  BY <1>4, <1>5

LEMMA AcceptKeepsProbe ==
  ASSUME WriteInv, ProbeInv, NEW r \in Requests, Accept(r)
  PROVE  ProbeInv'
<1> USE DEF ProbeInv
<1>1. r \in Payloads /\ Acceptable(r) /\ r.method \in {"probe", "read", "write"}
  BY DEF Accept, Acceptable, Payloads
<1>2. /\ ui' = 1 /\ results' = <<>> /\ written' = FALSE /\ cancelled' = FALSE /\ reply' = "none"
      /\ answer' = Unstarted /\ took' = {} /\ calls' \in 0..MaxCalls
      /\ UNCHANGED <<answers, table, stray>>
  BY DEF Accept, bus, TypeOK
<1>3. /\ params' \in Payloads /\ params'.units \in Seq(Ids) /\ params'.register \in Registers
      /\ params'.method = "probe" => IsInjective(params'.units)
      /\ pc' \in {"next", "read", "write"}
      /\ pc' \in Polls => 1 <= Len(params'.units)
  <2>1. CASE r.method = "probe"
    <3>1. params' = [r EXCEPT !.units = Distinct(@)] /\ pc' = "next"
      BY <2>1 DEF Accept
    <3>2. /\ Distinct(r.units) \in Seq(Ids) /\ IsInjective(Distinct(r.units))
          /\ Distinct(r.units) \in Seq(Nat)
      <4>1. Distinct(r.units) \in Seq(Ids) /\ IsInjective(Distinct(r.units))
        BY <1>1, DistinctUnits
      <4>2. \A s \in Seq(Ids) : s \in Seq(Nat)
        BY DEF Ids
      <4> QED
        BY <4>1, <4>2
    <3>3. params'.units = Distinct(r.units) /\ params'.register = r.register /\ params' \in Payloads
      BY <1>1, <3>1, <3>2 DEF Payloads
    <3> QED
      BY <1>1, <3>1, <3>2, <3>3 DEF Acceptable, Polls
  <2>2. CASE r.method # "probe"
    <3>1. params' = r /\ pc' = r.method
      BY <2>2 DEF Accept
    <3>2. r.units \in Seq(Nat) /\ Len(r.units) = 1 /\ r.units[1] \in Ids
      <4>1. r.units \in Seq(Nat) /\ MaxUnits(r) = 1 /\ Len(r.units) \in 1..MaxUnits(r)
        BY <1>1, <2>2 DEF Acceptable, MaxUnits, Payloads
      <4> QED
        BY <1>1, <2>2, <4>1, OneUnit
    <3>3. r.units \in Seq(Ids)
      BY <1>1, AcceptedUnits
    <3> QED
      BY <1>1, <2>2, <3>1, <3>2, <3>3 DEF Acceptable
  <2> QED
    BY <2>1, <2>2
<1>4. TypeOK'
  <2>1. params'.units \in Seq(Ids) /\ Len(params'.units) \in Nat
    BY <1>3
  <2>2. ui' \in 1..Len(params'.units) + 1 /\ (pc' \in Polls => ui' <= Len(params'.units))
    BY <1>2, <1>3, <2>1
  <2>3. /\ written' \in BOOLEAN /\ cancelled' \in BOOLEAN /\ reply' \in Codes
        /\ pc' \in {"idle", "next", "record"} \cup Polls
    BY <1>2, <1>3 DEF Codes, Polls
  <2>4. results' \in Seq(Entries) /\ answer' \in Answers /\ took' \subseteq Values
    BY <1>2, ConstantTypes
  <2>5. table' \in Tables /\ stray' \subseteq Writes /\ answers' \in Buses
    BY <1>2 DEF TypeOK, Writes, Tables
  <2> QED
    BY <1>2, <1>3, <2>2, <2>3, <2>4, <2>5 DEF TypeOK
<1>5. Asked'
  BY <1>3 DEF Asked
<1>6. AnswerIsTrue'
  BY <1>2, ConstantTypes DEF AnswerIsTrue
<1>7. ProbeProgress'
  <2>1. Len(params'.units) \in Nat
    BY <1>3
  <2> QED
    BY <1>2, <1>3, <2>1 DEF ProbeProgress
<1> QED
  BY <1>4, <1>5, <1>6, <1>7

LEMMA ProbedKeepsProbe ==
  ASSUME WriteInv, ProbeInv, NEW o \in Outcomes, Probed(o)
  PROVE  ProbeInv'
<1> USE DEF ProbeInv
<1>1. /\ pc = "probe" /\ MayEnd(o) /\ results' = Append(results, Entry(o))
      /\ UNCHANGED <<calls, params, written, cancelled, answers, table, stray, took>>
      /\ answer' = Unstarted
      /\ \/ o = "link" /\ pc' = "record" /\ reply' = "ok" /\ ui' = ui
         \/ o # "link" /\ pc' = "next" /\ reply' = reply /\ ui' = ui + 1
  BY DEF Probed, Ends, Goto, call, bus
<1>2. params.method = "probe" /\ pc \in Polls /\ Begun /\ reply' \in Codes /\ reply = "none"
  BY <1>1 DEF WriteInv, OneUnitCalls, Polls, Begun, TypeOK, Codes
<1>3. TypeOK' /\ Asked' /\ AnswerIsTrue'
  BY <1>1, <1>2, EntryKeepsProbe
<1>4. ProbeProgress'
  <2>1. /\ Entry(o).unit = unit /\ Entry(o).outcome = o
        /\ o \in {"ok", "exception"} => IsThere(unit, o)
    BY <1>1, <1>2, EntryIsTrue
  <2>2. /\ results \in Seq(Entries) /\ Len(results) = ui - 1
        /\ ui \in 1..Len(params.units) /\ Len(params.units) \in Nat
    BY <1>1, <1>2 DEF ProbeProgress, TypeOK, Payloads
  <2>3. /\ Len(results') = ui /\ DOMAIN results' = 1..ui /\ results'[ui] = Entry(o)
        /\ \A i \in 1..ui : i # ui => i \in DOMAIN results /\ results'[i] = results[i]
    BY <1>1, <2>2
  <2>4. \A i \in DOMAIN results' :
          /\ results'[i].unit = params.units[i]
          /\ results'[i].outcome \in {"ok", "exception"} =>
               IsThere(results'[i].unit, results'[i].outcome)
    BY <1>2, <2>1, <2>3 DEF ProbeProgress, unit
  <2>5. reply' = "ok" => results' # <<>> /\ Last(results').outcome = "link"
    BY <1>1, <1>2, <2>1, <2>2, <2>3 DEF Last
  <2>6. pc' \in {"next", "probe"} => Len(results') = ui' - 1
    BY <1>1, <2>2, <2>3
  <2> QED
    BY <1>1, <2>2, <2>3, <2>4, <2>5, <2>6 DEF ProbeProgress, IsThere
<1> QED
  BY <1>3, <1>4

\* The end of a read, a write or a read-back: no probe is under way.
LEMMA OthersKeepProbe ==
  ASSUME WriteInv, ProbeInv, NEW o \in Outcomes, Read(o) \/ WriteEnds(o) \/ ReadBack(o)
  PROVE  ProbeInv'
<1> USE DEF ProbeInv
<1>1. params.method # "probe" /\ params' = params /\ pc \in Polls /\ MayEnd(o)
  BY DEF Read, WriteEnds, ReadBack, WriteInv, OneUnitCalls, call, Polls
<1>2. ProbeProgress'
  BY <1>1 DEF ProbeProgress
<1>3. CASE Read(o) \/ ReadBack(o)
  <2>1. /\ results' = Append(results, Entry(o)) /\ ui' = ui
        /\ UNCHANGED <<calls, params, written, cancelled, answers, table, stray, took>>
        /\ pc' = "record" /\ answer' = Unstarted /\ reply' \in Codes
    BY <1>3 DEF Read, ReadBack, Ends, Goto, call, bus, Codes
  <2> QED
    BY <1>1, <1>2, <2>1, EntryKeepsProbe
<1>4. CASE WriteEnds(o)
  <2>1. /\ UNCHANGED <<calls, params, ui, results, cancelled, answers, table, took>>
        /\ pc' \in {"readback", "record"} /\ answer' = Unstarted /\ reply' \in Codes
        /\ written' \in BOOLEAN
    BY <1>4 DEF WriteEnds, Ends, Goto, call, Codes, TypeOK
  <2>2. stray' \subseteq Writes
    <3>1. Write \in Writes
      BY <1>4, WriteTypes DEF WriteEnds
    <3> QED
      BY <1>4, <3>1 DEF WriteEnds, TypeOK
  <2>3. TypeOK'
    <3>1. ui <= Len(params.units)
      BY <1>1 DEF TypeOK
    <3> QED
      BY <2>1, <2>2, <3>1, ConstantTypes DEF TypeOK, Polls, Tables
  <2>4. Asked' /\ AnswerIsTrue'
    BY <1>1, <2>1, ConstantTypes DEF Asked, AnswerIsTrue, Begun, Polls
  <2> QED
    BY <1>2, <2>3, <2>4
<1> QED
  BY <1>3, <1>4

LEMMA ProbeNext == WriteInv /\ ProbeInv /\ [Next]_vars => ProbeInv'
<1> SUFFICES ASSUME WriteInv, ProbeInv, [Next]_vars PROVE ProbeInv'
  OBVIOUS
<1> USE DEF ProbeInv
<1>1. ASSUME NEW r \in Requests, Refuse(r) PROVE ProbeInv'
  <2>1. /\ UNCHANGED <<pc, params, ui, results, written, cancelled, answer, answers, table, stray, took>>
        /\ pc = "idle" /\ reply' \in Codes \ {"ok"} /\ calls' \in 0..MaxCalls
    BY <1>1 DEF Refuse, progress, bus, Codes, TypeOK
  <2>2. pc \notin Polls /\ ~Begun'
    BY <2>1 DEF Polls, Begun
  <2> QED
    BY <2>1, <2>2 DEF TypeOK, Asked, AnswerIsTrue, ProbeProgress, Writes, Tables, Answers, Polls
<1>2. ASSUME NEW r \in Requests, Accept(r) PROVE ProbeInv'
  BY <1>2, AcceptKeepsProbe
<1>3. CASE Cancel \/ Start \/ Returns
  <2>1. /\ pc # "idle"
        /\ UNCHANGED <<calls, params, ui, results, written, answers, table, stray, took>>
        /\ pc' \in {pc, "idle"} /\ cancelled' \in BOOLEAN /\ reply' \in {reply, "CANCELLED"}
        /\ answer' \in {Unstarted, Waiting, answer} /\ (cancelled => cancelled')
        /\ Start => pc' = pc
    BY <1>3 DEF Cancel, Start, Returns, call, progress, bus, TypeOK, Polls
  <2>2. TypeOK' /\ Asked' /\ AnswerIsTrue'
    <3>1. /\ pc' \in {"idle", "next", "record"} \cup Polls
          /\ pc' \in Polls => ui <= Len(params.units) /\ pc' = pc
          /\ reply' \in Codes /\ stray' \subseteq Writes
      BY <2>1 DEF TypeOK, Codes, Polls
    <3> QED
      BY <2>1, <3>1, PlaceKeepsProbe
  <2>3. ProbeProgress'
    BY <2>1 DEF ProbeProgress, Begun, IsThere
  <2> QED
    BY <2>2, <2>3
<1>4. CASE Unrun
  <2>1. /\ pc \in Polls /\ pc' = "record" /\ answer' = Unstarted /\ reply' = "MODBUS_FAILED"
        /\ UNCHANGED <<calls, params, ui, results, written, cancelled, answers, table, stray, took>>
    BY <1>4 DEF Unrun, Ends, Goto, call, progress, bus
  <2>2. Begun /\ pc # "idle"
    BY <2>1 DEF Begun, Polls
  <2>3. TypeOK' /\ Asked' /\ AnswerIsTrue'
    <3>1. /\ pc' \in {"idle", "next", "record"} \cup Polls /\ pc' \notin Polls
          /\ reply' \in Codes /\ cancelled' \in BOOLEAN /\ stray' \subseteq Writes
      BY <2>1 DEF TypeOK, Codes, Polls
    <3> QED
      BY <2>1, <2>2, <3>1, PlaceKeepsProbe
  <2>4. ProbeProgress'
    BY <2>1, <2>2 DEF ProbeProgress, IsThere
  <2> QED
    BY <2>3, <2>4
<1>5. CASE NextUnit
  <2>1. /\ pc = "next" /\ answer' = Unstarted
        /\ UNCHANGED <<calls, params, ui, results, written, cancelled, answers, table, stray, took>>
        /\ \/ (cancelled \/ ui > Len(params.units)) /\ pc' = "record" /\ reply' = "ok"
           \/ ~(cancelled \/ ui > Len(params.units)) /\ pc' = "probe" /\ reply' = reply
    BY <1>5 DEF NextUnit, Ends, Goto, call, progress, bus
  <2>2. ui \in Nat /\ Len(params.units) \in Nat /\ ui <= Len(params.units) + 1
    BY DEF TypeOK, Payloads
  <2>3. TypeOK' /\ Asked' /\ AnswerIsTrue'
    <3>1. /\ pc' \in {"idle", "next", "record"} \cup Polls
          /\ pc' \in Polls => ui <= Len(params.units)
          /\ reply' \in Codes /\ cancelled' \in BOOLEAN /\ stray' \subseteq Writes
      BY <2>1, <2>2 DEF TypeOK, Codes, Polls
    <3>2. TypeOK'
      BY <2>1, <3>1, ConstantTypes DEF TypeOK, Writes, Tables, Answers
    <3>3. Asked' /\ AnswerIsTrue'
      BY <2>1, ConstantTypes DEF Asked, AnswerIsTrue, Begun, Polls
    <3> QED
      BY <3>2, <3>3
  <2>4. params.method = "probe" /\ Begun /\ reply = "none"
    BY <2>1 DEF WriteInv, OneUnitCalls, Begun
  <2>5. Len(results) = ui - 1 /\ Len(results) <= Len(params.units)
    BY <2>1, <2>4 DEF ProbeProgress
  <2>6. reply' = "ok" => Len(results) = Len(params.units) \/ cancelled
    BY <2>1, <2>2, <2>4, <2>5
  <2>7. ProbeProgress'
    BY <2>1, <2>4, <2>5, <2>6 DEF ProbeProgress, IsThere
  <2> QED
    BY <2>3, <2>7
<1>6. ASSUME NEW o \in Outcomes, Poll(o) PROVE ProbeInv'
  BY <1>6, ProbedKeepsProbe, OthersKeepProbe DEF Poll
<1>7. CASE World
  BY <1>7, WorldKeepsProbe
<1>8. CASE UNCHANGED vars
  BY <1>8 DEF vars, call, progress, bus, TypeOK, Asked, AnswerIsTrue, ProbeProgress, Begun, IsThere,
    unit, Writes, Tables, Answers
<1> QED
  BY <1>1, <1>2, <1>3, <1>4, <1>5, <1>6, <1>7, <1>8 DEF Next, Call, Over

LEMMA ProbeInvariant == Spec => []ProbeInv
  BY RpcInvariant, ProbeInit, ProbeNext, PTL DEF Spec

\* Every call stays within its types: among others, the index of a unit stays
\* within the units of the call (modbus.rs:621-661), whatever the requests.
THEOREM TypeCorrect == Spec => []TypeOK
<1>1. ProbeInv => TypeOK
  BY DEF ProbeInv
<1> QED
  BY <1>1, ProbeInvariant, PTL

\* What ProbeProgress says of a probe that is over is what its report claims.
LEMMA ProgressIsTruth ==
  ASSUME ProbeInv
  PROVE  ProbeIsTrue
<1> SUFFICES ASSUME reply = "ok", params.method = "probe" PROVE ProbeIsTrue
  BY DEF ProbeIsTrue
<1> USE DEF ProbeInv
<1>1. Begun /\ params.units \in Seq(Ids) /\ IsInjective(params.units)
  BY DEF Begun, Asked
<1>2. /\ results \in Seq(Entries) /\ Len(results) \in Nat /\ DOMAIN results = 1..Len(results)
      /\ Len(params.units) \in Nat /\ DOMAIN params.units = 1..Len(params.units)
  BY <1>1 DEF TypeOK
<1>3. /\ Len(results) <= Len(params.units)
      /\ \A i \in DOMAIN results :
           /\ results[i].unit = params.units[i]
           /\ results[i].outcome \in {"ok", "exception"} =>
                IsThere(results[i].unit, results[i].outcome)
      /\ \/ Len(results) = Len(params.units) \/ cancelled
         \/ results # <<>> /\ Last(results).outcome = "link"
  BY <1>1 DEF ProbeProgress
<1>4. [i \in DOMAIN results |-> results[i].unit] = SubSeq(params.units, 1, Len(results))
  <2>1. \A i \in 1..Len(results) : results[i].unit = params.units[i]
    BY <1>2, <1>3
  <2>2. SubSeq(params.units, 1, Len(results)) = [i \in 1..Len(results) |-> params.units[i]]
    BY <1>1, <1>2, <1>3
  <2> QED
    BY <1>2, <2>1, <2>2
<1>5. \A i, j \in DOMAIN results : results[i].unit = results[j].unit => i = j
  BY <1>1, <1>2, <1>3 DEF IsInjective
<1> QED
  BY <1>3, <1>4, <1>5 DEF ProbeIsTrue, IsThere

\* The results of a probe are those of the first units it was given, each once
\* and in their order; it leaves some out only after a link failure or when it
\* is cancelled; and a unit it counts as answering is there, but for the
\* exceptions a TCP gateway sends for it (modbus.rs:621-668).
THEOREM ProbesAreTrue == Spec => []ProbeIsTrue
  BY ProbeInvariant, ProgressIsTruth, PTL
=============================================================================
