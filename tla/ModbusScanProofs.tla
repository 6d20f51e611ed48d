-------------------------- MODULE ModbusScanProofs --------------------------
(***************************************************************************)
(* Proofs about ModbusScan, for any ports, buses, settings and hints.      *)
(***************************************************************************)
EXTENDS ModbusScan, TLAPS

\* What OncePerValue folds.
Extend(seen, x) == IF Contains(seen, x) THEN seen ELSE Append(seen, x)

F == INSTANCE FoldLaws WITH Op <- Extend

LEMMA NextCases ==
  [Next]_vars <=>
    \/ \E p \in Ports : Thread(p)
    \/ \E p \in Ports : JoinNext(p)
    \/ NoPorts \/ Spawn \/ AllJoined \/ Returns \/ Watch \/ Cancel \/ UNCHANGED vars
  BY Zenon DEF Next, Call, Over

\* A thread changes nothing but its own, and only while it runs.
Others(p) ==
  \A q \in Ports \ {p} :
    /\ th'[q] = th[q] /\ si'[q] = si[q] /\ ui'[q] = ui[q] /\ hit'[q] = hit[q]
    /\ error'[q] = error[q] /\ noise'[q] = noise[q] /\ others'[q] = others[q]
    /\ late'[q] = late[q]

Running == {"open", "setting", "unit", "reply"}

\* What the steps of a thread come to.
LEMMA ThreadSteps ==
  ASSUME Shape, NEW p \in Ports, Thread(p)
  PROVE  /\ Shape' /\ Others(p) /\ UNCHANGED <<call, stop, watcher, world>>
         /\ th[p] \in Running /\ th'[p] \in Running \cup {"done"}
<1> USE DEF Shape, Others, Running, call
<1>1. CASE Open(p)
  BY <1>1 DEF Open, Goto, SetError
<1>2. CASE LastSetting(p)
  BY <1>2 DEF LastSetting, Goto
<1>3. CASE Configure(p)
  BY <1>3 DEF Configure, Goto
<1>4. CASE ConfigureFails(p)
  BY <1>4 DEF ConfigureFails, SetError
<1>5. CASE NextUnit(p)
  BY <1>5 DEF NextUnit, Goto
<1>6. CASE Silence(p)
  BY <1>6 DEF Silence, GoOn, Goto
<1>7. CASE Answer(p)
  BY <1>7 DEF Answer, Goto
<1>8. CASE OtherUnit(p)
  BY <1>8 DEF OtherUnit, ComesLate, GoOn, Goto
<1>9. CASE Garbage(p)
  BY <1>9 DEF Garbage, GoOn, Goto
<1>10. CASE ReadFails(p)
  BY <1>10 DEF ReadFails, Goto, SetError
<1> QED
  BY <1>1, <1>2, <1>3, <1>4, <1>5, <1>6, <1>7, <1>8, <1>9, <1>10, Zenon DEF Thread

\* What it may put into its report, and what its bus may come to owe.
LEMMA ThreadHits ==
  ASSUME Shape, NEW p \in Ports, Thread(p)
  PROVE  /\ \/ hit'[p] = hit[p]
            \/ hit'[p].port = p /\ <<hit'[p].setting, hit'[p].unit>> \in devices[p]
         /\ late'[p] \in {None, late[p]} \cup devices[p]
         /\ \/ others'[p] = others[p]
            \/ late[p] # None /\ others'[p] = others[p] \cup {late[p][2]}
<1> USE DEF Shape
<1>1. CASE Open(p) \/ LastSetting(p) \/ Configure(p) \/ ConfigureFails(p) \/ NextUnit(p) \/ ReadFails(p)
  BY <1>1 DEF Open, LastSetting, Configure, ConfigureFails, NextUnit, ReadFails
<1>2. GoOn(p) => hit'[p] = hit[p] /\ late'[p] \in {None, late[p]} \cup devices[p]
  BY DEF GoOn, Present
<1>3. CASE Silence(p) \/ Garbage(p)
  BY <1>2, <1>3 DEF Silence, Garbage
<1>4. CASE Answer(p)
  BY <1>4 DEF Answer, Present, Asked
<1>5. CASE OtherUnit(p)
  BY <1>2, <1>5 DEF OtherUnit, ComesLate
<1> QED
  BY <1>1, <1>3, <1>4, <1>5, Zenon DEF Thread

LEMMA BusNext == BusInv /\ [Next]_vars => BusInv'
<1> SUFFICES ASSUME BusInv, [Next]_vars PROVE BusInv'
  OBVIOUS
<1> USE DEF BusInv
<1>1. ASSUME NEW p \in Ports, Thread(p) PROVE BusInv'
  <2>1. /\ Shape' /\ Others(p) /\ UNCHANGED <<call, stop, watcher, world>>
        /\ th[p] \in Running /\ th'[p] \in Running \cup {"done"}
    BY <1>1, ThreadSteps
  <2>2. p \in ToScan /\ p \notin joined /\ pc # "start"
    BY <2>1 DEF Running, CallInv
  <2>3. /\ \/ hit'[p] = hit[p]
           \/ hit'[p].port = p /\ <<hit'[p].setting, hit'[p].unit>> \in devices[p]
        /\ late'[p] \in {None, late[p]} \cup devices[p]
        /\ \/ others'[p] = others[p]
           \/ late[p] # None /\ others'[p] = others[p] \cup {late[p][2]}
    BY <1>1, ThreadHits
  <2>4. UNCHANGED <<devices, ToScan, found, joined>>
    BY <2>1 DEF world, call, ToScan
  <2>5. HitsAreThere'
    <3> SUFFICES ASSUME NEW q \in Ports, hit'[q] # None
                 PROVE  /\ hit'[q].port = q /\ q \in ToScan
                        /\ <<hit'[q].setting, hit'[q].unit>> \in devices[q]
      BY <2>4 DEF HitsAreThere
    <3>1. CASE q = p
      BY <2>2, <2>3, <3>1 DEF HitsAreThere
    <3>2. CASE q # p
      BY <2>1, <3>2 DEF HitsAreThere, Others
    <3> QED
      BY <3>1, <3>2
  <2>6. FoundIsThere'
    BY <2>1, <2>2, <2>4 DEF FoundIsThere, Others, CallInv, ToScan
  <2>7. LateIsThere'
    BY <2>1, <2>3, <2>4 DEF LateIsThere, Others
  <2>8. OthersExist'
    BY <2>1, <2>3, <2>4 DEF OthersExist, LateIsThere, Others
  <2>9. CallInv'
    <3>1. UNCHANGED <<pc, joined, found, result, cancelled, stop, ToScan>>
      BY <2>1 DEF call, world, ToScan
    <3>2. \A q \in Ports \ {p} : th'[q] = th[q] /\ hit'[q] = hit[q]
      BY <2>1 DEF Others
    <3>3. th'[p] # "idle"
      BY <2>1 DEF Running
    <3>4. joined \subseteq Ports
      BY DEF CallInv, ToScan
    <3> QED
      BY <2>2, <3>1, <3>2, <3>3, <3>4 DEF CallInv, Ended, ToScan
  <2> QED
    BY <2>1, <2>5, <2>6, <2>7, <2>8, <2>9
<1>2. ASSUME NEW p \in Ports, JoinNext(p) PROVE BusInv'
  <2>1. UNCHANGED <<pc, cancelled, result, thread, devices, ToScan, late>>
        /\ pc = "join" /\ th[p] = "done" /\ joined' = joined \cup {p}
    BY <1>2 DEF JoinNext, world, ToScan
  <2>2. \/ found = None /\ hit[p] # None /\ found' = hit[p]
        \/ (found # None \/ hit[p] = None) /\ UNCHANGED <<found, stop>>
    BY <1>2 DEF JoinNext
  <2>3. p \in ToScan
    BY <2>1 DEF CallInv
  <2>4. FoundIsThere'
    BY <2>1, <2>2 DEF FoundIsThere, HitsAreThere, thread
  <2>5. CallInv'
    BY <2>1, <2>2, <2>3 DEF CallInv, Ended, thread
  <2> QED
    BY <2>1, <2>4, <2>5 DEF Shape, HitsAreThere, LateIsThere, OthersExist, thread
<1>3. CASE NoPorts
  <2>1. UNCHANGED <<cancelled, found, joined, stop, thread, devices, ToScan, late>>
        /\ pc = "start" /\ ToScan = {} /\ pc' = "record"
        /\ result' = [result EXCEPT !.stopped = "no_ports"]
    BY <1>3 DEF NoPorts, world, ToScan
  <2>2. result'.found = result.found /\ result'.error = result.error /\ Shape'
    BY <2>1 DEF Shape, thread
  <2>3. CallInv'
    BY <2>1, <2>2 DEF CallInv, Ended, thread
  <2> QED
    BY <2>1, <2>2, <2>3 DEF HitsAreThere, FoundIsThere, LateIsThere, OthersExist, thread
<1>4. CASE Spawn
  <2>1. /\ UNCHANGED <<cancelled, found, joined, result, stop, si, ui, hit, error, noise, others,
                       devices, ToScan, late>>
        /\ pc = "start" /\ pc' = "join"
        /\ th' = [p \in Ports |-> IF p \in ToScan THEN "open" ELSE "idle"]
    BY <1>4 DEF Spawn, world, ToScan
  <2>2. Shape'
    BY <2>1 DEF Shape
  <2>3. CallInv'
    BY <2>1 DEF CallInv, Ended, ToScan
  <2> QED
    BY <2>1, <2>2, <2>3 DEF HitsAreThere, FoundIsThere, LateIsThere, OthersExist
<1>5. CASE AllJoined
  <2>1. UNCHANGED <<cancelled, found, joined, thread, devices, ToScan, late>>
        /\ pc = "join" /\ joined = ToScan /\ pc' = "record"
        /\ result' = [result EXCEPT !.found = found, !.stopped = Stopped]
    BY <1>5 DEF AllJoined, world, ToScan
  <2>2. result'.found = found /\ result'.error = result.error /\ Shape'
    BY <2>1 DEF Shape, thread
  <2>3. CallInv'
    BY <2>1, <2>2 DEF CallInv, Ended, thread
  <2> QED
    BY <2>1, <2>2, <2>3 DEF HitsAreThere, FoundIsThere, LateIsThere, OthersExist, thread
<1>6. CASE Returns
  <2>1. UNCHANGED <<cancelled, found, joined, stop, thread, devices, ToScan, late>>
        /\ pc = "record" /\ pc' = "returned"
        /\ result' = IF cancelled
                     THEN [error |-> "CANCELLED", found |-> None, stopped |-> "none"]
                     ELSE result
    BY <1>6 DEF Returns, world, ToScan
  <2>2. Shape'
    BY <2>1 DEF Shape, thread
  <2>3. CallInv'
    BY <2>1 DEF CallInv, Ended, thread
  <2> QED
    BY <2>1, <2>2, <2>3 DEF HitsAreThere, FoundIsThere, LateIsThere, OthersExist, thread
<1>7. CASE Watch \/ Cancel \/ UNCHANGED vars
  <2>1. UNCHANGED <<pc, found, joined, result, thread, devices, ToScan, late>>
    BY <1>7 DEF Watch, Cancel, vars, call, world, ToScan
  <2>2. \/ stop' /\ (stop \/ cancelled) /\ UNCHANGED cancelled
        \/ cancelled' /\ pc # "returned" /\ UNCHANGED stop
        \/ UNCHANGED <<stop, cancelled>>
    BY <1>7 DEF Watch, Cancel, vars, call
  <2>3. CallInv'
    BY <2>1, <2>2 DEF CallInv, Ended, thread
  <2> QED
    BY <2>1, <2>3 DEF Shape, HitsAreThere, FoundIsThere, LateIsThere, OthersExist, thread
<1> QED
  BY <1>1, <1>2, <1>3, <1>4, <1>5, <1>6, <1>7, NextCases

LEMMA BusInvariant == Spec => []BusInv
<1>1. Init => BusInv
  BY DEF Init, BusInv, Shape, HitsAreThere, FoundIsThere, LateIsThere, OthersExist, CallInv,
    Ended, ToScan
<1> QED
  BY <1>1, BusNext, PTL DEF Spec

\* The device a scan names is there (scan.rs:17-19, 599-609).
THEOREM FoundDevicesExist == Spec => []FoundDeviceExists
<1>1. BusInv => FoundDeviceExists
  BY DEF BusInv, FoundDeviceExists, HitsAreThere, FoundIsThere, CallInv, ToScan
<1> QED
  BY <1>1, BusInvariant, PTL

\* So are the units it has seen besides (scan.rs:617-633).
THEOREM OtherUnitsExist == Spec => []OthersExist
<1>1. BusInv => OthersExist
  BY DEF BusInv
<1> QED
  BY <1>1, BusInvariant, PTL

\* No thread outlives its call: the next one has the buses to itself
\* (app.rs:388-401).
THEOREM NoThreadIsLeft == Spec => []QuietOnReturn
<1>1. BusInv => QuietOnReturn
  BY DEF BusInv, QuietOnReturn, CallInv, Ended, ToScan
<1> QED
  BY <1>1, BusInvariant, PTL

-----------------------------------------------------------------------------
(* Whom a scan has asked.                                                  *)

\* From both ends inwards, every unit is met.
LEMMA InwardsMeetsAll ==
  Inwards \in Seq(Units) /\ F!Elements(Inwards) = Units
<1>0. MAX_UNIT \in Nat /\ MAX_UNIT % 2 = 1
  BY ScanAssumption
<1>1. ASSUME NEW i \in Units PROVE Inwards[i] \in Units
  BY <1>0 DEF Inwards, Units
<1>2. Inwards \in Seq(Units) /\ Len(Inwards) = MAX_UNIT
  BY <1>0, <1>1 DEF Inwards, Units
<1>3. ASSUME NEW u \in Units PROVE \E i \in Units : Inwards[i] = u
  <2>1. CASE 2 * u <= MAX_UNIT + 1
    <3>1. 2 * u - 1 \in Units /\ (2 * u - 1) % 2 = 1 /\ ((2 * u - 1) + 1) \div 2 = u
      BY <1>0, <2>1 DEF Units
    <3> QED
      BY <3>1 DEF Inwards
  <2>2. CASE 2 * u > MAX_UNIT + 1
    <3> DEFINE i == 2 * (MAX_UNIT + 1 - u)
    <3>1. i \in Units /\ i % 2 = 0 /\ i \div 2 = MAX_UNIT + 1 - u
      BY <1>0, <2>2 DEF Units
    <3>2. Inwards[i] = MAX_UNIT + 1 - (MAX_UNIT + 1 - u)
      BY <3>1 DEF Inwards
    <3> QED
      BY <1>0, <3>1, <3>2 DEF Units
  <2> QED
    BY <1>0, <2>1, <2>2 DEF Units
<1> QED
  BY <1>1, <1>2, <1>3 DEF F!Elements, Units

\* OncePerValue, as the laws of folds have it.
LEMMA OncePerValueIs ==
  ASSUME NEW S, NEW s \in Seq(S)
  PROVE  /\ OncePerValue(s) \in Seq(S)
         /\ F!NoneTwice(OncePerValue(s)) /\ F!Elements(OncePerValue(s)) = F!Elements(s)
<1>1. OncePerValue(s) = F!Fold(<<>>, s)
  BY DEF OncePerValue, Extend, F!Fold, F!FoldLeft, F!MapThenFoldSet, F!Max,
    FoldLeft, MapThenFoldSet, Max
<1>2. F!AppendsNew(S)
  BY DEF F!AppendsNew, F!Elements, Extend, Contains
<1>3. <<>> \in Seq(S) /\ F!NoneTwice(<<>>) /\ F!Elements(<<>>) = {}
  BY DEF F!NoneTwice, F!Elements
<1>4. /\ F!Fold(<<>>, s) \in Seq(S) /\ F!NoneTwice(F!Fold(<<>>, s))
      /\ F!Elements(F!Fold(<<>>, s)) = F!Elements(<<>>) \cup F!Elements(s)
  BY <1>2, <1>3, F!FoldOnce
<1> QED
  BY <1>1, <1>3, <1>4

LEMMA SeqElements ==
  ASSUME NEW S, NEW s \in Seq(S)
  PROVE  F!Elements(s) = ToSet(s) /\ F!Elements(s) \subseteq S /\ DOMAIN s = 1..Len(s)
<1>1. DOMAIN s = 1..Len(s) /\ \A i \in 1..Len(s) : s[i] \in S
  OBVIOUS
<1> QED
  BY <1>1 DEF F!Elements, ToSet

\* Hints only reorder (README.md:309): for every list of hints, a scan asks each
\* unit id once under each setting, and tries each setting once.
THEOREM HintsOnlyReorder ==
  /\ \A h \in HintUnits :
       /\ UnitOrder(h) \in Seq(Units) /\ ToSet(UnitOrder(h)) = Units
       /\ \A i, j \in DOMAIN UnitOrder(h) : UnitOrder(h)[i] = UnitOrder(h)[j] => i = j
  /\ \A h \in HintSettings :
       /\ SettingsOrder(h) \in Seq(ToSet(h) \cup ToSet(SETTINGS))
       /\ ToSet(SettingsOrder(h)) = ToSet(h) \cup ToSet(SETTINGS)
       /\ \A i, j \in DOMAIN SettingsOrder(h) :
            SettingsOrder(h)[i] = SettingsOrder(h)[j] => i = j
<1>1. ASSUME NEW h \in HintUnits
      PROVE  /\ UnitOrder(h) \in Seq(Units) /\ ToSet(UnitOrder(h)) = Units
             /\ \A i, j \in DOMAIN UnitOrder(h) : UnitOrder(h)[i] = UnitOrder(h)[j] => i = j
  <2>1. h \in Seq(Units) /\ Inwards \in Seq(Units) /\ h \o Inwards \in Seq(Units)
    BY InwardsMeetsAll, ScanAssumption
  <2>2. UnitOrder(h) \in Seq(Units) /\ F!NoneTwice(UnitOrder(h))
        /\ F!Elements(UnitOrder(h)) = F!Elements(h) \cup Units
    <3>1. F!Elements(h \o Inwards) = F!Elements(h) \cup Units
      BY <2>1, F!ConcatElements, InwardsMeetsAll
    <3> QED
      BY <2>1, <3>1, OncePerValueIs DEF UnitOrder
  <2>3. F!Elements(h) \subseteq Units
    BY <2>1, SeqElements
  <2>4. ToSet(UnitOrder(h)) = Units /\ DOMAIN UnitOrder(h) = 1..Len(UnitOrder(h))
    BY <2>2, <2>3, SeqElements
  <2> QED
    BY <2>2, <2>4, Zenon DEF F!NoneTwice
<1>2. ASSUME NEW h \in HintSettings
      PROVE  /\ SettingsOrder(h) \in Seq(ToSet(h) \cup ToSet(SETTINGS))
             /\ ToSet(SettingsOrder(h)) = ToSet(h) \cup ToSet(SETTINGS)
             /\ \A i, j \in DOMAIN SettingsOrder(h) :
                  SettingsOrder(h)[i] = SettingsOrder(h)[j] => i = j
  <2> DEFINE S == ToSet(h) \cup ToSet(SETTINGS)
  <2>1. h \in Seq(ToSet(h)) /\ SETTINGS \in Seq(ToSet(SETTINGS))
    BY ScanAssumption
  <2>2. h \in Seq(S) /\ SETTINGS \in Seq(S) /\ h \o SETTINGS \in Seq(S)
    BY <2>1
  <2> HIDE DEF S
  <2>3. SettingsOrder(h) \in Seq(S) /\ F!NoneTwice(SettingsOrder(h))
        /\ F!Elements(SettingsOrder(h)) = F!Elements(h) \cup F!Elements(SETTINGS)
    <3>1. F!Elements(h \o SETTINGS) = F!Elements(h) \cup F!Elements(SETTINGS)
      BY <2>2, F!ConcatElements
    <3> QED
      BY <2>2, <3>1, OncePerValueIs DEF SettingsOrder
  <2>4. ToSet(SettingsOrder(h)) = ToSet(h) \cup ToSet(SETTINGS)
        /\ DOMAIN SettingsOrder(h) = 1..Len(SettingsOrder(h))
    BY <2>2, <2>3, SeqElements
  <2>5. \A i, j \in DOMAIN SettingsOrder(h) :
          SettingsOrder(h)[i] = SettingsOrder(h)[j] => i = j
    BY <2>3 DEF F!NoneTwice
  <2> QED
    BY <2>3, <2>4, <2>5 DEF S
<1> QED
  BY <1>1, <1>2

LEMMA OrdersTyped ==
  ASSUME params \in [units : HintUnits, settings : HintSettings]
  PROVE  /\ Len(settings) \in Nat /\ DOMAIN settings = 1..Len(settings)
         /\ Len(units) \in Nat /\ DOMAIN units = 1..Len(units)
         /\ Units \subseteq ToSet(units)
<1>1. units = UnitOrder(params.units) /\ settings = SettingsOrder(params.settings)
  BY DEF units, settings, UnitOrders, SettingsOrders
<1>2. units \in Seq(Units) /\ Units \subseteq ToSet(units)
  BY <1>1, HintsOnlyReorder
<1>3. \E S : settings \in Seq(S)
  BY <1>1, HintsOnlyReorder
<1> HIDE DEF units, settings
<1> QED
  BY <1>2, <1>3

\* One step of a thread: it is not told to stop, or has been for a reason.
LEMMA ThreadSilent ==
  ASSUME BusInv, SilentInv, NEW p \in Ports, Thread(p)
  PROVE  /\ si' \in [Ports -> Nat] /\ ui' \in [Ports -> Nat]
         /\ Clear(p)' => \A i \in DOMAIN settings, j \in DOMAIN units :
                           Tried(p, i, j)' => <<settings[i], units[j]>> \notin devices[p]
         /\ th'[p] = "done" /\ ~error'[p] /\ hit'[p] = None =>
              si'[p] > Len(settings) \/ cancelled \/ found # None
<1>1. /\ Len(settings) \in Nat /\ DOMAIN settings = 1..Len(settings)
      /\ Len(units) \in Nat /\ DOMAIN units = 1..Len(units)
  BY OrdersTyped DEF SilentInv
<1>2. /\ si \in [Ports -> Nat] /\ ui \in [Ports -> Nat] /\ devices \in [Ports -> Buses]
      /\ Clear(p) => \A i \in DOMAIN settings, j \in DOMAIN units :
                       Tried(p, i, j) => <<settings[i], units[j]>> \notin devices[p]
  BY DEF SilentInv, SilentSoFar
<1>3. stop => cancelled \/ found # None
  <2>1. th[p] \in Running
    BY ThreadSteps DEF BusInv
  <2>2. ~Ended
    BY <2>1 DEF BusInv, CallInv, Ended, ToScan, Running
  <2> QED
    BY <2>2 DEF BusInv, CallInv
<1>4. /\ th \in [Ports -> {"idle", "open", "setting", "unit", "reply", "done"}]
      /\ DOMAIN hit = Ports /\ DOMAIN error = Ports /\ DOMAIN noise = Ports
  BY DEF BusInv, Shape
<1> USE <1>1, <1>2, <1>4
<1>5. CASE Open(p)
  <2>1. th[p] = "open" /\ UNCHANGED <<si, ui, hit, noise, slow>>
        /\ (UNCHANGED error \/ error'[p]) /\ (th'[p] = "done" => error'[p])
    BY <1>5 DEF Open, Goto, SetError, world
  <2>2. th'[p] \in {"setting", "done"}
    BY <1>5 DEF Open, Goto
  <2> QED
    BY <2>1, <2>2 DEF Clear, Tried
<1>6. CASE LastSetting(p)
  <2>1. /\ th[p] = "setting" /\ th'[p] = "done"
        /\ UNCHANGED <<si, ui, hit, error, noise, slow>>
    BY <1>6 DEF LastSetting, Goto, world
  <2>2. si[p] > Len(settings) \/ cancelled \/ found # None
    BY <1>3, <1>6 DEF LastSetting
  <2> QED
    BY <2>1, <2>2 DEF Clear, Tried
<1>7. CASE Configure(p)
  BY <1>7 DEF Configure, Goto, Clear, Tried, world
<1>8. CASE ConfigureFails(p)
  BY <1>8 DEF ConfigureFails, SetError, Clear, Tried
<1>9. CASE NextUnit(p)
  <2>1. th[p] = "unit" /\ UNCHANGED <<ui, hit, error, noise, slow>>
    BY <1>9 DEF NextUnit, world
  <2>2. CASE ui[p] > Len(units) /\ th'[p] = "setting" /\ si' = [si EXCEPT ![p] = @ + 1]
    <3>1. \A i \in DOMAIN settings, j \in DOMAIN units : Tried(p, i, j)' => Tried(p, i, j)
      BY <2>1, <2>2 DEF Tried
    <3> QED
      BY <2>1, <2>2, <3>1 DEF Clear
  <2>3. CASE UNCHANGED si /\ th'[p] \in {"done", "reply"} /\ (th'[p] = "done" => stop)
    <3>1. \A i \in DOMAIN settings, j \in DOMAIN units : Tried(p, i, j)' => Tried(p, i, j)
      BY <2>1, <2>3 DEF Tried
    <3> QED
      BY <1>3, <2>1, <2>3, <3>1 DEF Clear
  <2> QED
    BY <1>9, <2>2, <2>3 DEF NextUnit, Goto
<1>10. CASE Silence(p)
  <2>1. /\ th[p] = "reply" /\ th' = [th EXCEPT ![p] = "unit"] /\ ui' = [ui EXCEPT ![p] = @ + 1]
        /\ UNCHANGED <<si, hit, error, noise, slow>>
        /\ p \notin slow => <<settings[si[p]], units[ui[p]]>> \notin devices[p]
    BY <1>10 DEF Silence, GoOn, Goto, Present, Asked, setting, unit, world
  <2>2. \A i \in DOMAIN settings, j \in DOMAIN units :
          Tried(p, i, j)' => Tried(p, i, j) \/ (i = si[p] /\ j = ui[p])
    BY <2>1 DEF Tried
  <2>3. th'[p] = "unit" /\ si' \in [Ports -> Nat] /\ ui' \in [Ports -> Nat]
    BY <2>1
  <2>4. Clear(p)' => Clear(p) /\ p \notin slow
    BY <2>1 DEF Clear
  <2> QED
    BY <2>1, <2>2, <2>3, <2>4
<1>11. CASE Answer(p)
  <2> DEFINE found_p == [port |-> p, setting |-> setting(p), unit |-> unit(p)]
  <2>1. devices[p] \in Buses /\ Asked(p) \in devices[p]
    BY <1>11 DEF Answer, Present
  <2>2. Asked(p)[1] = setting(p) /\ Asked(p)[2] = unit(p)
    BY DEF Asked
  <2>3. found_p # None
    BY <2>1, <2>2, ScanAssumption
  <2>4. UNCHANGED <<si, ui>> /\ hit'[p] = found_p
    BY <1>11 DEF Answer
  <2> HIDE DEF found_p
  <2> QED
    BY <2>3, <2>4 DEF Clear
<1>12. CASE OtherUnit(p) \/ Garbage(p)
  <2>1. /\ noise'[p] /\ UNCHANGED si /\ ui' = [ui EXCEPT ![p] = @ + 1] /\ th'[p] = "unit"
    BY <1>12 DEF OtherUnit, ComesLate, Garbage, GoOn, Goto
  <2> QED
    BY <2>1 DEF Clear
<1>13. CASE ReadFails(p)
  BY <1>13 DEF ReadFails, Goto, SetError, Clear
<1> QED
  BY <1>5, <1>6, <1>7, <1>8, <1>9, <1>10, <1>11, <1>12, <1>13, Zenon DEF Thread

LEMMA SilentNext ==
  ASSUME BusInv, SilentInv, [Next]_vars
  PROVE  SilentInv'
<1>1. UNCHANGED <<params, devices, slow>>
  BY DEF Next, Call, NoPorts, Spawn, JoinNext, AllJoined, Returns, Watch, Cancel, Over, Thread, Open,
    LastSetting, Configure, ConfigureFails, NextUnit, Silence, Answer, OtherUnit, Garbage, ReadFails,
    GoOn, vars, call, world
<1>2. UNCHANGED <<settings, units>>
  BY <1>1 DEF settings, units
<1>3. ASSUME NEW p \in Ports, Thread(p) PROVE SilentInv'
  <2>1. Others(p) /\ UNCHANGED <<cancelled, found>>
    BY <1>3, ThreadSteps DEF BusInv, call
  <2>2. /\ si' \in [Ports -> Nat] /\ ui' \in [Ports -> Nat]
        /\ Clear(p)' => \A i \in DOMAIN settings, j \in DOMAIN units :
                          Tried(p, i, j)' => <<settings[i], units[j]>> \notin devices[p]
        /\ th'[p] = "done" /\ ~error'[p] /\ hit'[p] = None =>
             si'[p] > Len(settings) \/ cancelled \/ found # None
    BY <1>3, ThreadSilent
  <2>3. SilentSoFar'
    <3> SUFFICES ASSUME NEW q \in Ports, Clear(q)', NEW i \in DOMAIN settings, NEW j \in DOMAIN units,
                        Tried(q, i, j)'
                 PROVE  <<settings[i], units[j]>> \notin devices[q]
      BY <1>1, <1>2, Zenon DEF SilentSoFar
    <3>1. CASE q = p
      BY <2>2, <3>1
    <3>2. CASE q # p
      <4>1. Clear(q) /\ Tried(q, i, j)
        BY <1>1, <2>1, <3>2 DEF Others, Clear, Tried
      <4> QED
        BY <4>1 DEF SilentInv, SilentSoFar
    <3> QED
      BY <3>1, <3>2
  <2>4. EndsWhole'
    BY <1>2, <2>1, <2>2 DEF SilentInv, EndsWhole, Others
  <2> QED
    BY <1>1, <2>2, <2>3, <2>4 DEF SilentInv
<1>4. CASE Spawn
  <2>1. /\ UNCHANGED <<si, ui, hit, error, noise, cancelled, found>>
        /\ th' = [p \in Ports |-> IF p \in ToScan THEN "open" ELSE "idle"] /\ pc = "start"
    BY <1>4 DEF Spawn
  <2>2. SilentSoFar'
    BY <1>1, <1>2, <2>1 DEF SilentInv, SilentSoFar, Clear, Tried
  <2>3. EndsWhole'
    BY <2>1 DEF EndsWhole
  <2> QED
    BY <1>1, <2>1, <2>2, <2>3 DEF SilentInv
<1>5. CASE \/ \E p \in Ports : JoinNext(p)
           \/ NoPorts \/ AllJoined \/ Returns \/ Watch \/ Cancel \/ UNCHANGED vars
  <2>1. UNCHANGED thread
    BY <1>5 DEF JoinNext, NoPorts, AllJoined, Returns, Watch, Cancel, vars
  <2>2. (cancelled => cancelled') /\ (found # None => found' # None)
    BY <1>5 DEF JoinNext, NoPorts, AllJoined, Returns, Watch, Cancel, vars, call
  <2>3. SilentSoFar'
    BY <1>1, <1>2, <2>1 DEF SilentInv, SilentSoFar, Clear, Tried, thread
  <2>4. EndsWhole'
    BY <1>2, <2>1, <2>2 DEF SilentInv, EndsWhole, thread
  <2> QED
    BY <1>1, <2>1, <2>3, <2>4 DEF SilentInv, thread
<1> QED
  BY <1>3, <1>4, <1>5, NextCases

LEMMA SilentInit == Init => SilentInv
<1> SUFFICES ASSUME Init PROVE SilentInv
  OBVIOUS
<1>1. /\ params \in [units : HintUnits, settings : HintSettings]
      /\ devices \in [Ports -> Buses]
      /\ si = [p \in Ports |-> 1] /\ ui = [p \in Ports |-> 1]
      /\ th = [p \in Ports |-> "idle"]
  BY DEF Init
<1>2. DOMAIN settings = 1..Len(settings) /\ Len(settings) \in Nat
  BY <1>1, OrdersTyped
<1>3. SilentSoFar /\ EndsWhole
  BY <1>1, <1>2 DEF SilentSoFar, EndsWhole, Tried
<1> QED
  BY <1>1, <1>3 DEF SilentInv

LEMMA SilenceFollows ==
  ASSUME BusInv, SilentInv
  PROVE  SilenceMeansNobody
<1> SUFFICES ASSUME pc = "returned", result.error = "none", result.found = None,
                    NEW p \in ToScan \ slow, ~noise[p], ~error[p],
                    NEW s \in ToSet(settings), NEW u \in Units, <<s, u>> \in devices[p]
             PROVE  FALSE
  BY DEF SilenceMeansNobody
<1>1. p \in Ports /\ p \in joined /\ th[p] = "done" /\ ~cancelled /\ found = None
  BY DEF BusInv, CallInv, Ended, ToScan
<1>2. hit[p] = None
  BY <1>1 DEF BusInv, CallInv
<1>3. si[p] > Len(settings)
  BY <1>1, <1>2 DEF SilentInv, EndsWhole
<1>4. /\ Len(settings) \in Nat /\ DOMAIN settings = 1..Len(settings)
      /\ Units \subseteq ToSet(units) /\ si[p] \in Nat
  BY <1>1, OrdersTyped DEF SilentInv
<1>5. PICK i \in DOMAIN settings : s = settings[i]
  BY Zenon DEF ToSet
<1>6. PICK j \in DOMAIN units : u = units[j]
  BY <1>4 DEF ToSet
<1>7. Tried(p, i, j)
  BY <1>3, <1>4 DEF Tried
<1> QED
  BY <1>1, <1>2, <1>5, <1>6, <1>7 DEF SilentInv, SilentSoFar, Clear

\* "Hints only reorder; they never narrow the scan" (README.md:309): a scan that
\* ends by itself with nothing has asked everyone.
THEOREM SilenceIsWhole == Spec => []SilenceMeansNobody
<1>1. Init => SilentInv
  BY SilentInit
<1>2. BusInv /\ SilentInv /\ [Next]_vars => SilentInv'
  BY SilentNext
<1>3. BusInv /\ SilentInv => SilenceMeansNobody
  BY SilenceFollows
<1> QED
  BY <1>1, <1>2, <1>3, BusInvariant, PTL DEF Spec
=============================================================================
