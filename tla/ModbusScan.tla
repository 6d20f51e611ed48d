----------------------------- MODULE ModbusScan -----------------------------
(***************************************************************************)
(* scan_modbus (src/src/scan.rs): one blocking thread per serial port asks *)
(* every unit id under every setting, the call joins the threads, and a    *)
(* watcher turns a cancellation into the stop flag they all read.          *)
(*                                                                         *)
(* On a bus, "devices" are the pairs of a setting and a unit that answer.  *)
(* On a slow bus an answer may come after its reply timeout and arrive     *)
(* during a later exchange.  Anything may garble a reply (another master,  *)
(* a wrong baud rate); a frame with a good CRC is one a device sent.       *)
(***************************************************************************)
EXTENDS Naturals, SequencesExt

CONSTANTS
  Ports,        \* the serial ports of the device
  SETTINGS,     \* the common settings, most likely first
  MAX_UNIT,     \* 247; odd
  HintUnits,    \* the values a request gives hint_unit_ids
  HintSettings, \* the values a request gives hint_settings
  Buses,        \* the sets of devices a bus may have
  None

Units == 1..MAX_UNIT

ASSUME ScanAssumption ==
  /\ MAX_UNIT \in Nat /\ MAX_UNIT % 2 = 1
  /\ HintUnits \subseteq Seq(Units)
  /\ \A s \in HintSettings \cup {SETTINGS} : s \in Seq(ToSet(s))
  /\ None \notin Ports
  /\ \A bus \in Buses : \A d \in bus, p \in Ports :
       [port |-> p, setting |-> d[1], unit |-> d[2]] # None

VARIABLES
  \* the call
  pc, params, cancelled, found, joined, result,
  \* what the threads share
  stop, watcher,
  \* one thread per port: where it stands, what it asks, what it reports
  th, si, ui, hit, error, noise, others,
  \* the world
  skipped, devices, slow,
  late   \* per bus, an answer that is still to come

call == <<pc, params, cancelled, found, joined, result>>
thread == <<th, si, ui, hit, error, noise, others>>
world == <<skipped, devices, slow>>
vars == <<call, stop, watcher, thread, world, late>>

-----------------------------------------------------------------------------
(* The order of a scan.                                                    *)

\* The values of a sequence, each where it first occurs.
OncePerValue(s) ==
  FoldLeft(LAMBDA seen, x : IF Contains(seen, x) THEN seen ELSE Append(seen, x), <<>>, s)

\* From both ends inwards: 1, 247, 2, 246, ...
Inwards == [i \in Units |-> IF i % 2 = 1 THEN (i + 1) \div 2 ELSE MAX_UNIT + 1 - i \div 2]

\* A mutant: hints replace the rest of the units.
HintedOnly(hints) == IF hints = <<>> THEN Inwards ELSE OncePerValue(hints)

UnitOrder(hints) == OncePerValue(hints \o Inwards)
SettingsOrder(hints) == OncePerValue(hints \o SETTINGS)

UnitOrders == [h \in HintUnits |-> UnitOrder(h)]
SettingsOrders == [h \in HintSettings |-> SettingsOrder(h)]

units == UnitOrders[params.units]
settings == SettingsOrders[params.settings]

-----------------------------------------------------------------------------
ToScan == Ports \ skipped

Init ==
  /\ pc = "start" /\ cancelled = FALSE /\ found = None /\ joined = {}
  /\ params \in [units : HintUnits, settings : HintSettings]
  /\ result = [error |-> "none", found |-> None, stopped |-> "none"]
  /\ stop = FALSE /\ watcher = "none"
  /\ th = [p \in Ports |-> "idle"]
  /\ si = [p \in Ports |-> 1] /\ ui = [p \in Ports |-> 1]
  /\ hit = [p \in Ports |-> None]
  /\ error = [p \in Ports |-> FALSE] /\ noise = [p \in Ports |-> FALSE]
  /\ others = [p \in Ports |-> {}]
  /\ skipped \in SUBSET Ports /\ slow \in SUBSET Ports
  /\ devices \in [Ports -> Buses]
  /\ late = [p \in Ports |-> None]

-----------------------------------------------------------------------------
(* One port's thread.                                                      *)

setting(p) == settings[si[p]]
unit(p) == units[ui[p]]
Asked(p) == <<setting(p), unit(p)>>
Present(p) == Asked(p) \in devices[p]

Goto(p, place) == th' = [th EXCEPT ![p] = place]
SetError(p) == error' = [error EXCEPT ![p] = TRUE]

Open(p) ==
  /\ th[p] = "open"
  /\ \/ Goto(p, "setting") /\ UNCHANGED error
     \/ Goto(p, "done") /\ SetError(p)
  /\ UNCHANGED <<call, stop, watcher, si, ui, hit, noise, others, world, late>>

\* The last setting is done, or the scan is stopped.
LastSetting(p) ==
  /\ th[p] = "setting" /\ (si[p] > Len(settings) \/ stop)
  /\ Goto(p, "done")
  /\ UNCHANGED <<call, stop, watcher, si, ui, hit, error, noise, others, world, late>>

Configure(p) ==
  /\ th[p] = "setting" /\ si[p] <= Len(settings) /\ ~stop
  /\ Goto(p, "unit") /\ ui' = [ui EXCEPT ![p] = 1]
  /\ UNCHANGED <<call, stop, watcher, si, hit, error, noise, others, world, late>>

\* The port refuses a setting: note it and go on with the next.
ConfigureFails(p) ==
  /\ th[p] = "setting" /\ si[p] <= Len(settings) /\ ~stop
  /\ SetError(p) /\ si' = [si EXCEPT ![p] = @ + 1]
  /\ UNCHANGED <<call, stop, watcher, th, ui, hit, noise, others, world, late>>

NextUnit(p) ==
  /\ th[p] = "unit"
  /\ \/ /\ ui[p] > Len(units)
        /\ Goto(p, "setting") /\ si' = [si EXCEPT ![p] = @ + 1]
     \/ /\ ui[p] <= Len(units)
        /\ Goto(p, IF stop THEN "done" ELSE "reply") /\ UNCHANGED si
  /\ UNCHANGED <<call, stop, watcher, ui, hit, error, noise, others, world, late>>

\* The exchange with the asked unit is over without a device: the next unit.
\* An answer the asked unit still owes may come during a later exchange; the
\* flush before it discards one that has come by then.
GoOn(p) ==
  /\ Goto(p, "unit") /\ ui' = [ui EXCEPT ![p] = @ + 1]
  /\ \/ late' = [late EXCEPT ![p] = None]
     \/ p \in slow /\ Present(p) /\ late' = [late EXCEPT ![p] = Asked(p)]
     \/ p \in slow /\ UNCHANGED late
  /\ UNCHANGED <<call, stop, watcher, si, hit, error, world>>

Silence(p) ==
  /\ th[p] = "reply" /\ (Present(p) => p \in slow)
  /\ GoOn(p)
  /\ UNCHANGED <<noise, others>>

\* Data or an exception from the asked unit: a device is there.
Answer(p) ==
  /\ th[p] = "reply" /\ Present(p)
  /\ hit' = [hit EXCEPT ![p] = [port |-> p, setting |-> setting(p), unit |-> unit(p)]]
  /\ Goto(p, "done")
  /\ UNCHANGED <<call, stop, watcher, si, ui, error, noise, others, world, late>>

\* The late answer of an earlier unit comes instead: a frame of another unit.
ComesLate(p) == th[p] = "reply" /\ late[p] # None /\ late[p][1] = setting(p)

\* A mutant: whoever answers is taken for the asked unit.
AnyAnswer(p) ==
  /\ ComesLate(p)
  /\ hit' = [hit EXCEPT ![p] = [port |-> p, setting |-> setting(p), unit |-> unit(p)]]
  /\ Goto(p, "done")
  /\ UNCHANGED <<call, stop, watcher, si, ui, error, noise, others, world, late>>

\* A mutant: the report names the unit that was asked.
NamesAsked(p) ==
  /\ ComesLate(p)
  /\ GoOn(p)
  /\ noise' = [noise EXCEPT ![p] = TRUE]
  /\ others' = [others EXCEPT ![p] = @ \cup {unit(p)}]

OtherUnit(p) ==
  /\ ComesLate(p)
  /\ GoOn(p)
  /\ noise' = [noise EXCEPT ![p] = TRUE]
  /\ others' = [others EXCEPT ![p] = @ \cup {late[p][2]}]

\* Bytes that are no frame, one sent at another setting included.
Garbage(p) ==
  /\ th[p] = "reply"
  /\ GoOn(p)
  /\ noise' = [noise EXCEPT ![p] = TRUE]
  /\ UNCHANGED others

ReadFails(p) ==
  /\ th[p] = "reply"
  /\ SetError(p) /\ Goto(p, "done")
  /\ UNCHANGED <<call, stop, watcher, si, ui, hit, noise, others, world, late>>

Thread(p) ==
  \/ Open(p) \/ LastSetting(p) \/ Configure(p) \/ ConfigureFails(p) \/ NextUnit(p)
  \/ Silence(p) \/ Answer(p) \/ OtherUnit(p) \/ Garbage(p) \/ ReadFails(p)

-----------------------------------------------------------------------------
(* The call and its watcher.                                               *)

NoPorts ==
  /\ pc = "start" /\ ToScan = {}
  /\ pc' = "record" /\ result' = [result EXCEPT !.stopped = "no_ports"]
  /\ UNCHANGED <<params, cancelled, found, joined, stop, watcher, thread, world, late>>

Spawn ==
  /\ pc = "start" /\ ToScan # {}
  /\ pc' = "join" /\ watcher' = "running"
  /\ th' = [p \in Ports |-> IF p \in ToScan THEN "open" ELSE "idle"]
  /\ UNCHANGED <<params, cancelled, found, joined, result, stop,
                 si, ui, hit, error, noise, others, world, late>>

\* A thread has ended: its hit, if it is the first, stops the others.
JoinNext(p) ==
  /\ pc = "join" /\ th[p] = "done" /\ p \notin joined
  /\ joined' = joined \cup {p}
  /\ IF found = None /\ hit[p] # None
     THEN found' = hit[p] /\ stop' = TRUE
     ELSE UNCHANGED <<found, stop>>
  /\ UNCHANGED <<pc, params, cancelled, result, watcher, thread, world, late>>

WasCancelled == watcher # "stopped"

\* Everything has been joined: the threads may be stopped by the cancellation,
\* and the watcher is always told to end.
Stopped ==
  IF found # None THEN "found" ELSE IF WasCancelled THEN "cancelled" ELSE "complete"

\* A mutant: a hit is answered at once.
AtTheFirstHit ==
  /\ pc = "join" /\ (joined = ToScan \/ found # None)
  /\ stop' = TRUE /\ pc' = "record"
  /\ result' = [result EXCEPT !.found = found, !.stopped = Stopped]
  /\ UNCHANGED <<params, cancelled, found, joined, watcher, thread, world, late>>

\* A mutant: only a hit or a cancellation ends the watcher.
LeavesTheWatcher ==
  /\ pc = "join" /\ joined = ToScan
  /\ pc' = "record"
  /\ result' = [result EXCEPT !.found = found, !.stopped = Stopped]
  /\ UNCHANGED <<params, cancelled, found, joined, stop, watcher, thread, world, late>>

AllJoined ==
  /\ pc = "join" /\ joined = ToScan
  /\ stop' = TRUE /\ pc' = "record"
  /\ result' = [result EXCEPT !.found = found, !.stopped = Stopped]
  /\ UNCHANGED <<params, cancelled, found, joined, watcher, thread, world, late>>

\* Gateway::typed leaves a cancellation standing.
Returns ==
  /\ pc = "record"
  /\ pc' = "returned"
  /\ result' = (IF cancelled THEN [error |-> "CANCELLED", found |-> None, stopped |-> "none"]
                ELSE result)
  /\ UNCHANGED <<params, cancelled, found, joined, stop, watcher, thread, world, late>>

\* The watcher wakes up every 100 ms.
Watch ==
  /\ watcher = "running" /\ (stop \/ cancelled)
  /\ watcher' = (IF stop THEN "stopped" ELSE "saw")
  /\ stop' = TRUE
  /\ UNCHANGED <<call, thread, world, late>>

Cancel ==
  /\ pc # "returned" /\ ~cancelled
  /\ cancelled' = TRUE
  /\ UNCHANGED <<pc, params, found, joined, result, stop, watcher, thread, world, late>>

Over ==
  /\ pc = "returned"
  /\ UNCHANGED vars

Call == NoPorts \/ Spawn \/ (\E p \in Ports : JoinNext(p)) \/ AllJoined \/ Returns

Next == Call \/ Watch \/ Cancel \/ Over \/ \E p \in Ports : Thread(p)

Spec == Init /\ [][Next]_vars

\* The threads run on, the runtime polls the call and the watcher.
Fairness == WF_vars(Call) /\ WF_vars(Watch) /\ \A p \in Ports : WF_vars(Thread(p))

FairSpec == Spec /\ Fairness

-----------------------------------------------------------------------------
(* Properties.                                                             *)

\* What a thread hits is there: a unit that answers under the setting it was
\* asked with, whatever late answers and noise the bus carries.
HitsAreThere ==
  \A p \in Ports : hit[p] # None =>
    /\ hit[p].port = p /\ p \in ToScan
    /\ <<hit[p].setting, hit[p].unit>> \in devices[p]

FoundIsThere ==
  found # None => found.port \in joined /\ found = hit[found.port]

\* The unit a scan names as found answers on that port with those settings
\* (scan.rs:17-19, 599-609).
FoundDeviceExists ==
  result.found # None =>
    <<result.found.setting, result.found.unit>> \in devices[result.found.port]

\* "Hints only reorder; they never narrow the scan" (README.md:309): a scan
\* that ends by itself without a device, on a port it reports neither noise
\* nor an error for, leaves none whose devices answer in time.
SilenceMeansNobody ==
  pc = "returned" /\ result.error = "none" /\ result.found = None =>
    \A p \in ToScan \ slow : ~noise[p] /\ ~error[p] =>
      devices[p] \cap (ToSet(settings) \X Units) = {}

\* A unit reported as seen besides is one that answers on that bus
\* (scan.rs:617-633).
OthersExist == \A p \in Ports : others[p] \subseteq {d[2] : d \in devices[p]}

\* modbus_lock is free once the call returns (app.rs:388-401): no thread is
\* still on a bus by then.
QuietOnReturn == pc \in {"record", "returned"} => \A p \in Ports : th[p] \in {"idle", "done"}

\* README.md:319: a scan that nobody cancelled and that found nothing is
\* "complete".
StoppedIsTrue ==
  pc = "returned" /\ result.error = "none" => result.stopped # "cancelled"

\* The scan ends, and its watcher with it.
EveryScanEnds == (pc = "join") ~> (pc = "returned" /\ watcher # "running")

-----------------------------------------------------------------------------
(* What the proofs rest on.                                                *)

\* What a bus still owes is the answer of a device.
LateIsThere == \A p \in Ports : late[p] # None => late[p] \in devices[p]

\* The i-th setting and the j-th unit have been tried.
Tried(p, i, j) == i < si[p] \/ (i = si[p] /\ th[p] \in {"unit", "reply"} /\ j < ui[p])

\* Whoever has been tried in vain, on a bus that answers in time, is not there.
Clear(p) == p \notin slow /\ ~noise[p] /\ ~error[p] /\ hit[p] = None
SilentSoFar ==
  \A p \in Ports : Clear(p) =>
    \A i \in DOMAIN settings, j \in DOMAIN units :
      Tried(p, i, j) => <<settings[i], units[j]>> \notin devices[p]

\* A thread goes through all settings unless it is given a reason not to.
EndsWhole ==
  \A p \in Ports : th[p] = "done" /\ ~error[p] /\ hit[p] = None =>
    si[p] > Len(settings) \/ cancelled \/ found # None

Ended == pc \in {"record", "returned"}

CallInv ==
  /\ pc = "start" => joined = {} /\ \A p \in Ports : th[p] = "idle"
  /\ pc = "start" => found = None
  /\ pc # "start" => \A p \in ToScan : th[p] # "idle"
  /\ \A p \in Ports \ ToScan : th[p] = "idle"
  /\ joined \subseteq {p \in ToScan : th[p] = "done"}
  /\ Ended => joined = ToScan
  /\ \A p \in joined : hit[p] # None => found # None
  /\ stop => cancelled \/ found # None \/ Ended
  /\ result.found \in {None, found}
  /\ Ended /\ result.error = "none" => result.found = found
  /\ pc # "returned" => result.error = "none"
  /\ pc = "returned" /\ result.error = "none" => ~cancelled

Shape ==
  /\ th \in [Ports -> {"idle", "open", "setting", "unit", "reply", "done"}]
  /\ DOMAIN si = Ports /\ DOMAIN ui = Ports /\ DOMAIN hit = Ports /\ DOMAIN error = Ports
  /\ DOMAIN noise = Ports /\ DOMAIN others = Ports /\ DOMAIN late = Ports
  /\ DOMAIN result = {"error", "found", "stopped"}

BusInv ==
  Shape /\ HitsAreThere /\ FoundIsThere /\ LateIsThere /\ OthersExist /\ CallInv

SilentInv ==
  /\ params \in [units : HintUnits, settings : HintSettings]
  /\ devices \in [Ports -> Buses]
  /\ si \in [Ports -> Nat] /\ ui \in [Ports -> Nat]
  /\ SilentSoFar /\ EndsWhole
=============================================================================
