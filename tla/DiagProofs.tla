----------------------------- MODULE DiagProofs -----------------------------
(***************************************************************************)
(* Proofs about scan_network in Diag, for every request, network, host and *)
(* timeout: how long it lasts, what it scans, and what it lists; and the   *)
(* types of all three methods.                                             *)
(***************************************************************************)
EXTENDS Diag, SequenceTheorems, TLAPS

\* No fold is reasoned about here, but the smallest of a set of numbers is.
N == INSTANCE FoldLaws WITH Op <- Smaller

LEMMA Numbers ==
  /\ SCAN_BUDGET \in Nat /\ MAX_DISCOVERY \in Nat /\ MIN_STEP \in Nat
  /\ TOOL_TIMEOUT \in Nat /\ GRACE \in Nat /\ Lasting \in Nat
  BY DiagAssumption DEF Lasting

\* The steps of the other methods, and those that end or cancel a call.
Others == NetStatus \/ WifiScan \/ WifiScanFails \/ Cancel \/ Returns \/ UNCHANGED vars

LEMMA NextCases ==
  [Next]_vars <=>
    \/ Start \/ Addr \/ AddrFails \/ Route \/ RouteGet
    \/ Discovery \/ NoPortScan \/ PortScan \/ Others
  BY Zenon DEF Next, ScanNetwork, Others, Over

LEMMA OthersKeep ==
  ASSUME Others
  PROVE  /\ UNCHANGED <<method, params, now, scan, world>>
         /\ pc' = pc \/ pc' = "record" \/ (pc = "record" /\ pc' = "returned")
         /\ pc' = pc \/ pc \in {"status", "wifi", "record"}
         /\ cancelled => cancelled'
  BY DEF Others, NetStatus, Reads, ToolFails, Skips, StatusStep, StatusEnds, WifiScan, WifiScanFails,
    Ends, Cancel, Returns, vars

LEMMA LargerFacts ==
  ASSUME NEW a \in Int, NEW b \in Int
  PROVE  Larger(a, b) \in {a, b} /\ Larger(a, b) >= a /\ Larger(a, b) >= b
  BY DEF Larger

-----------------------------------------------------------------------------
(* How long a scan lasts.                                                  *)

USE Numbers

\* One step lasts no longer than what is left, and the grace of a kill.
LEMMA StepLasts ==
  ASSUME now \in Nat, Lasts(1, Remaining)
  PROVE  /\ now' \in Nat /\ now' >= now
         /\ now' <= Larger(SCAN_BUDGET, now + MIN_STEP) + GRACE
  BY DEF Lasts, Remaining, Larger

LEMMA DiscoveryLasts ==
  ASSUME now \in Nat, Lasts(1, Smaller(Remaining, MAX_DISCOVERY))
  PROVE  /\ now' \in Nat /\ now' >= now
         /\ now' <= Larger(SCAN_BUDGET, now + MIN_STEP) + GRACE
<1>1. Remaining \in Nat /\ now + Remaining <= Larger(SCAN_BUDGET, now + MIN_STEP)
  BY DEF Remaining, Larger
<1>2. Smaller(Remaining, MAX_DISCOVERY) \in Nat /\ Smaller(Remaining, MAX_DISCOVERY) <= Remaining
  BY <1>1 DEF Smaller
<1>3. Larger(SCAN_BUDGET, now + MIN_STEP) \in Int
  BY DEF Larger
<1> QED
  BY <1>1, <1>2, <1>3 DEF Lasts

LEMMA ToolLasts ==
  ASSUME now \in Nat, Lasts(2, TOOL_TIMEOUT)
  PROVE  now' \in Nat /\ now' >= now /\ now' <= now + 2 * Lasting
  BY DEF Lasts, Lasting

\* Both ways out of finding the network.
LEMMA FoundOrNot ==
  ASSUME NEW table, NEW name, Guess(table, name)
  PROVE  \/ NoTarget
         \/ began' = now' /\ pc' = "discover" /\ reply' = reply
<1> DEFINE link == LinkNamed(table, name)
           guess == IF link = None THEN None
                    ELSE IF link.ip4 = <<>> THEN None
                    ELSE DefaultSubnet(link.ip4[1].addr, link.ip4[1].prefix)
<1>1. IF guess = None THEN NoTarget ELSE Discover(guess, name)
  BY DEF Guess
<1> QED
  BY <1>1 DEF Discover, Goto

LEMMA TimeFinding ==
  ASSUME TimeInv, Addr \/ AddrFails \/ Route \/ RouteGet
  PROVE  /\ now' \in Nat /\ now' >= now /\ now' <= now + 2 * Lasting
         /\ \/ pc' = "record" /\ target' = None /\ began' = began
            \/ pc' = "discover" /\ began' = now'
            \/ pc = "addr" /\ pc' = "route" /\ target' = None /\ began' = began
            \/ pc = "route" /\ pc' = "route-get" /\ target' = None /\ began' = began
<1>1. target = None /\ now \in Nat
  BY DEF TimeInv, Finding, Addr, AddrFails, Route, RouteGet
<1>2. now' \in Nat /\ now' >= now /\ now' <= now + 2 * Lasting
  BY <1>1, ToolLasts DEF Addr, AddrFails, Route, RouteGet
<1>3. NoTarget => pc' = "record" /\ target' = None /\ began' = began
  BY <1>1 DEF NoTarget, Ends
<1>4. CASE Addr
  <2>1. \/ \E subnet, name : Discover(subnet, name)
        \/ \E name : Guess(links', name)
        \/ Goto("route") /\ UNCHANGED <<reply, target, interface, began>>
    BY <1>4, Zenon DEF Addr
  <2> QED
    BY <1>1, <1>2, <1>3, <1>4, <2>1, FoundOrNot DEF Discover, Goto, Addr
<1>5. CASE AddrFails
  BY <1>2, <1>3, <1>5 DEF AddrFails, Discover, Goto
<1>6. CASE Route
  <2>1. \/ NoTarget
        \/ \E name : Guess(links, name)
        \/ Goto("route-get") /\ UNCHANGED <<reply, target, interface, began>>
    BY <1>6, Zenon DEF Route
  <2> QED
    BY <1>1, <1>2, <1>3, <1>6, <2>1, FoundOrNot DEF Goto, Route
<1>7. CASE RouteGet
  <2>1. NoTarget \/ \E name : Guess(links, name)
    BY <1>7 DEF RouteGet
  <2> QED
    BY <1>2, <1>3, <2>1, FoundOrNot
<1> QED
  BY <1>4, <1>5, <1>6, <1>7

LEMMA TimeNext == TimeInv /\ [Next]_vars => TimeInv'
<1> SUFFICES ASSUME TimeInv, [Next]_vars PROVE TimeInv'
  OBVIOUS
<1> DEFINE End(b) == Larger(SCAN_BUDGET, b + MIN_STEP)
<1>1. CASE Start
  <2>1. UNCHANGED <<now, target, began>> /\ pc = "start"
        /\ pc' \in {"returned", "addr", "status", "wifi"}
    BY <1>1 DEF Start, Goto, scan
  <2>2. now = 0 /\ target = None /\ began \in Nat
    BY <2>1 DEF TimeInv
  <2>3. EndsNearBudget'
    BY <2>1, <2>2 DEF EndsNearBudget
  <2> QED
    BY <2>1, <2>2, <2>3 DEF TimeInv, Finding, Places
<1>2. CASE Addr \/ AddrFails \/ Route \/ RouteGet
  <2>1. pc \in Finding /\ now \in Nat /\ began \in Nat
    BY <1>2 DEF TimeInv, Addr, AddrFails, Route, RouteGet, Finding
  <2>2. /\ pc = "addr" => now = 0
        /\ pc = "route" => now <= 2 * Lasting
        /\ pc = "route-get" => now <= 4 * Lasting
    BY DEF TimeInv
  <2>3. now' \in Nat /\ now' <= now + 2 * Lasting
    BY <1>2, TimeFinding
  <2>9. Lasting \in Nat /\ 0 <= 2 * Lasting /\ 2 * Lasting <= 4 * Lasting
    OBVIOUS
  <2>0. now <= 4 * Lasting
    <3>1. CASE pc = "addr"
      BY <2>2, <2>9, <3>1
    <3>2. CASE pc = "route"
      BY <2>1, <2>2, <2>9, <3>2
    <3>3. CASE pc = "route-get"
      BY <2>2, <3>3
    <3> QED
      BY <2>1, <3>1, <3>2, <3>3 DEF Finding
  <2>8. now' <= 6 * Lasting
    BY <2>0, <2>1, <2>3
  <2>4. CASE pc' = "record" /\ target' = None /\ began' = began
    BY <2>1, <2>3, <2>4 DEF TimeInv, EndsNearBudget, Places, Finding
  <2>5. CASE pc' = "discover" /\ began' = now'
    <3>1. now' + MIN_STEP <= End(now') /\ End(now') \in Int
      BY <2>3, LargerFacts
    <3>2. EndsNearBudget'
      BY <2>8, <2>3, <2>5, <3>1 DEF EndsNearBudget, Lasting
    <3> QED
      BY <2>8, <2>3, <2>5, <3>2 DEF TimeInv, Places, Finding
  <2>6. CASE pc = "addr" /\ pc' = "route" /\ target' = None /\ began' = began
    <3>1. now' <= 2 * Lasting
      BY <2>2, <2>3, <2>6
    <3> QED
      BY <2>1, <2>3, <2>6, <3>1 DEF TimeInv, EndsNearBudget, Places, Finding
  <2>7. CASE pc = "route" /\ pc' = "route-get" /\ target' = None /\ began' = began
    <3>0. now <= 2 * Lasting
      BY <2>2, <2>7
    <3>1. now' <= 4 * Lasting
      BY <2>1, <2>3, <2>9, <3>0
    <3> QED
      BY <2>1, <2>3, <2>7, <3>1 DEF TimeInv, EndsNearBudget, Places, Finding
  <2> QED
    BY <1>2, <2>4, <2>5, <2>6, <2>7, TimeFinding
<1>3. CASE Discovery
  <2>0. now = began /\ now \in Nat /\ began <= 6 * Lasting
    BY <1>3 DEF Discovery, TimeInv
  <2>1. now' \in Nat /\ now' <= End(began) + GRACE /\ End(began) \in Int
    BY <1>3, <2>0, DiscoveryLasts, LargerFacts DEF Discovery
  <2>2. began' = began /\ target' = target /\ pc' \in {"record", "ports"} /\ pc = "discover"
    BY <1>3 DEF Discovery, Ends, Goto
  <2>3. EndsNearBudget'
    BY <2>0, <2>1, <2>2 DEF EndsNearBudget, Lasting
  <2> QED
    BY <2>0, <2>1, <2>2, <2>3 DEF TimeInv, Places, Finding
<1>4. CASE NoPortScan
  BY <1>4 DEF NoPortScan, Ends, scan, TimeInv, EndsNearBudget, Places, Finding
<1>5. CASE PortScan
  <2>1. now' \in Nat /\ now' <= Larger(SCAN_BUDGET, now + MIN_STEP) + GRACE
    BY <1>5, StepLasts DEF PortScan, TimeInv
  <2>2. now <= End(began) + GRACE /\ now \in Nat /\ began \in Nat /\ began <= 6 * Lasting
    BY <1>5 DEF PortScan, TimeInv
  <2>3. End(began) \in Int /\ End(began) >= SCAN_BUDGET
    BY <2>2, LargerFacts
  <2>4. Larger(SCAN_BUDGET, now + MIN_STEP) <= End(began) + MIN_STEP + GRACE
    BY <2>2, <2>3 DEF Larger
  <2>5. Larger(SCAN_BUDGET, now + MIN_STEP) \in Int
    BY <2>2 DEF Larger
  <2>6. now' <= End(began) + MIN_STEP + 2 * GRACE
    BY <2>1, <2>3, <2>4, <2>5
  <2>7. began' = began /\ target' = target /\ pc' = "record"
    BY <1>5 DEF PortScan, Ends
  <2>8. EndsNearBudget'
    BY <2>2, <2>6, <2>7 DEF EndsNearBudget, Lasting
  <2> QED
    BY <2>1, <2>2, <2>7, <2>8 DEF TimeInv, Places, Finding
<1>6. CASE Others
  <2>1. UNCHANGED <<now, target, began>>
    BY <1>6, OthersKeep DEF scan
  <2>2. pc' = pc \/ pc' \in {"record", "returned"}
    BY <1>6, OthersKeep
  <2> QED
    BY <2>1, <2>2 DEF TimeInv, EndsNearBudget, Places, Finding
<1> QED
  BY <1>1, <1>2, <1>3, <1>4, <1>5, <1>6, NextCases

LEMMA TimeInvariant == Spec => []TimeInv
<1>1. Init => TimeInv
  BY DEF Init, TimeInv, EndsNearBudget, Places, Finding
<1> QED
  BY <1>1, TimeNext, PTL DEF Spec

\* Once it is known what to scan, the scan ends within its budget but for the
\* seconds its steps have at least and the grace of their tools, and finding out
\* takes no more than three tools at two places each (diag.rs:26-27, 693-697).
THEOREM ScanEndsNearBudget == Spec => []EndsNearBudget
<1>1. TimeInv => EndsNearBudget
  BY DEF TimeInv
<1> QED
  BY <1>1, TimeInvariant, PTL

-----------------------------------------------------------------------------
(* What a scan lists.                                                      *)

\* The steps that find out what to scan.
LEMMA FindingSteps ==
  ASSUME Addr \/ AddrFails \/ Route \/ RouteGet
  PROVE  /\ pc \in Finding
         /\ UNCHANGED <<method, params, cancelled, errors, hosts, ports, world>>
         /\ \/ pc' = "record" /\ reply' = "NO_SUBNET"
            \/ pc' \in {"discover", "route", "route-get"} /\ reply' = reply
<1>1. NoTarget => pc' = "record" /\ reply' = "NO_SUBNET"
  BY DEF NoTarget, Ends
<1>2. CASE Addr
  <2>1. \/ \E subnet, name : Discover(subnet, name)
        \/ \E name : Guess(links', name)
        \/ Goto("route") /\ UNCHANGED <<reply, target, interface, began>>
    BY <1>2, Zenon DEF Addr
  <2> QED
    BY <1>1, <1>2, <2>1, FoundOrNot DEF Discover, Goto, Addr, Finding
<1>3. CASE AddrFails
  BY <1>1, <1>3 DEF AddrFails, Discover, Goto, Finding
<1>4. CASE Route
  <2>1. \/ NoTarget
        \/ \E name : Guess(links, name)
        \/ Goto("route-get") /\ UNCHANGED <<reply, target, interface, began>>
    BY <1>4, Zenon DEF Route
  <2> QED
    BY <1>1, <1>4, <2>1, FoundOrNot DEF Goto, Route, Finding
<1>5. CASE RouteGet
  <2>1. NoTarget \/ \E name : Guess(links, name)
    BY <1>5 DEF RouteGet
  <2> QED
    BY <1>1, <1>5, <2>1, FoundOrNot DEF RouteGet, Finding
<1> QED
  BY <1>2, <1>3, <1>4, <1>5

\* A tool adds no whole line to those it would print, and exits 0 with all of them.
LEMMA RunLines ==
  ASSUME NEW lines, \A l \in lines : l.whole, NEW run \in Runs(lines)
  PROVE  /\ WholeLines(run.lines) \subseteq lines
         /\ run.end = "exit 0" => WholeLines(run.lines) = lines
<1>1. CASE run = [end |-> "unrun", lines |-> {}]
  BY <1>1 DEF WholeLines
<1>2. CASE run = [end |-> "exit 0", lines |-> lines]
  BY <1>2 DEF WholeLines
<1>3. CASE run \in [end : {"failed"}, lines : Parts(lines)]
  <2>1. run.end = "failed" /\ run.lines \in Parts(lines)
    BY <1>3
  <2>2. PICK some \in SUBSET lines, cut \in Cuts : run.lines = some \cup cut
    BY <2>1 DEF Parts
  <2>3. \A l \in cut : ~l.whole
    BY DEF Cuts, CutLine
  <2> QED
    BY <2>1, <2>2, <2>3 DEF WholeLines
<1>4. run \in {[end |-> "unrun", lines |-> {}]} \cup {[end |-> "exit 0", lines |-> lines]}
               \cup [end : {"failed"}, lines : Parts(lines)]
  BY Zenon DEF Runs
<1> QED
  BY <1>1, <1>2, <1>3, <1>4

LEMMA LineIs ==
  ASSUME NEW addr, NEW port
  PROVE  Line(addr, port).ip = addr /\ Line(addr, port).port = port /\ Line(addr, port).whole
  BY DEF Line

LEMMA RunHosts ==
  ASSUME NEW up, NEW run \in Runs(HostLines(up))
  PROVE  /\ HostsIn(run.lines) \subseteq up \cap AddressesOf(target)
         /\ run.end = "exit 0" => HostsIn(run.lines) = up \cap AddressesOf(target)
<1>1. \A l \in HostLines(up) : l.whole /\ l.ip \in up \cap AddressesOf(target)
  BY LineIs DEF HostLines
<1>2. \A a \in up \cap AddressesOf(target) : \E l \in HostLines(up) : l.ip = a
  BY LineIs DEF HostLines
<1>3. /\ WholeLines(run.lines) \subseteq HostLines(up)
      /\ run.end = "exit 0" => WholeLines(run.lines) = HostLines(up)
  BY <1>1, RunLines
<1> QED
  BY <1>1, <1>2, <1>3 DEF HostsIn

LEMMA NotedNever ==
  ASSUME NEW name, NEW run, Noted(name, run) = {}
  PROVE  run.end = "exit 0"
  BY DEF Noted

LEMMA DiscoveryFinds ==
  ASSUME Discovery
  PROVE  /\ hosts' \subseteq (arps \cup pings) \cap AddressesOf(target)
         /\ errors' = {} => hosts' = (arps \cup pings) \cap AddressesOf(target)
<1>1. PICK arp \in Runs(HostLines(arps)), nmap \in Runs(HostLines(pings)) :
        /\ errors' = Noted("arp-scan", arp) \cup Noted("nmap", nmap)
        /\ hosts' = HostsIn(arp.lines) \cup HostsIn(nmap.lines)
  BY DEF Discovery
<1>2. HostsIn(arp.lines) \subseteq arps \cap AddressesOf(target)
      /\ (arp.end = "exit 0" => HostsIn(arp.lines) = arps \cap AddressesOf(target))
  BY RunHosts
<1>3. HostsIn(nmap.lines) \subseteq pings \cap AddressesOf(target)
      /\ (nmap.end = "exit 0" => HostsIn(nmap.lines) = pings \cap AddressesOf(target))
  BY RunHosts
<1>4. errors' = {} => arp.end = "exit 0" /\ nmap.end = "exit 0"
  BY <1>1, NotedNever
<1> QED
  BY <1>1, <1>2, <1>3, <1>4

LEMMA NoneIsNoNumber == None \notin Nat
<1>1. None \notin Int
  BY ParseAssumption
<1>2. \A n \in Nat : n \in Int
  OBVIOUS
<1> QED
  BY <1>1, <1>2, Zenon

\* The open ports that are asked for.
Wanted == {o \in open : o[1] \in hosts /\ o[2] \in PortsOf(params.ports)}

LEMMA PortScanFinds ==
  ASSUME open \subseteq Addresses \X Nat, PortScan
  PROVE  /\ ports' \subseteq Wanted
         /\ errors' = {} => errors = {} /\ ports' = Wanted
<1> DEFINE lines == {Line(o[1], o[2]) : o \in Wanted}
<1>1. PICK nmap \in Runs(lines) :
        /\ errors' = errors \cup Noted("nmap", nmap)
        /\ ports' = {o \in OpenIn(nmap.lines) : o[1] \in hosts}
  BY DEF PortScan, Wanted
<1>2. /\ \A l \in lines : l.whole /\ l.port \in Nat /\ <<l.ip, l.port>> \in Wanted
      /\ \A o \in Wanted : \E l \in lines : o = <<l.ip, l.port>>
  <2>1. \A o \in Wanted : o = <<o[1], o[2]>> /\ o[2] \in Nat
    BY DEF Wanted
  <2> QED
    BY <2>1, LineIs
<1> HIDE DEF lines
<1>3. /\ WholeLines(nmap.lines) \subseteq lines
      /\ nmap.end = "exit 0" => WholeLines(nmap.lines) = lines
  BY <1>2, RunLines
<1>4. OpenIn(nmap.lines) \subseteq Wanted
  BY <1>2, <1>3 DEF OpenIn
<1>5. nmap.end = "exit 0" => Wanted \subseteq OpenIn(nmap.lines)
  <2> SUFFICES ASSUME nmap.end = "exit 0", NEW o \in Wanted PROVE o \in OpenIn(nmap.lines)
    OBVIOUS
  <2>1. PICK l \in lines : o = <<l.ip, l.port>>
    BY <1>2
  <2>2. l \in WholeLines(nmap.lines)
    BY <1>3
  <2>3. l.port \in Nat
    BY <1>2, Zenon
  <2>4. None \notin Nat
    BY NoneIsNoNumber
  <2> QED
    BY <2>1, <2>2, <2>3, <2>4 DEF OpenIn
<1>6. \A o \in Wanted : o[1] \in hosts
  BY DEF Wanted
<1> QED
  BY <1>1, <1>4, <1>5, <1>6, NotedNever

LEMMA HostNext == HostInv /\ [Next]_vars => HostInv'
<1> SUFFICES ASSUME HostInv, [Next]_vars PROVE HostInv'
  OBVIOUS
<1> USE DEF HostInv, RealHosts, AllHosts, HostsAreReal, ScanIsWhole, Finding, Scanning
<1>1. CASE Start
  <2>1. /\ pc = "start" /\ UNCHANGED <<params, method, cancelled, errors, target, hosts, ports, world>>
        /\ \/ pc' = "returned" /\ reply' = "INVALID_PARAMS"
           \/ /\ pc' = "addr" \/ (pc' \in {"status", "wifi"} /\ method # "scan_network")
              /\ reply' = reply
    BY <1>1 DEF Start, Goto, scan
  <2> QED
    BY <2>1 DEF world
<1>2. CASE Addr \/ AddrFails \/ Route \/ RouteGet
  BY <1>2, FindingSteps DEF world
<1>3. CASE Discovery
  <2>1. /\ pc = "discover" /\ UNCHANGED <<params, method, cancelled, target, ports, world>>
        /\ \/ pc' = "record" /\ reply' = "SCAN_FAILED"
           \/ pc' = "ports" /\ reply' = reply
    BY <1>3 DEF Discovery, Ends, Goto
  <2> QED
    BY <1>3, <2>1, DiscoveryFinds DEF world
<1>4. CASE NoPortScan
  <2>1. /\ pc = "ports" /\ pc' = "record" /\ reply' = "ok"
        /\ UNCHANGED <<params, method, cancelled, errors, target, hosts, ports, world>>
        /\ NotGiven(params.ports) \/ hosts = {} \/ cancelled
    BY <1>4 DEF NoPortScan, Ends, scan
  <2> QED
    BY <2>1 DEF world
<1>5. CASE PortScan
  <2>1. /\ pc = "ports" /\ pc' = "record" /\ reply' = "ok"
        /\ UNCHANGED <<params, method, cancelled, target, hosts, world>>
    BY <1>5 DEF PortScan, Ends
  <2>2. ports' \subseteq Wanted /\ (errors' = {} => errors = {} /\ ports' = Wanted)
    BY <1>5, PortScanFinds
  <2> QED
    BY <2>1, <2>2 DEF Wanted, world
<1>6. CASE NetStatus
  BY <1>6 DEF NetStatus, Reads, ToolFails, Skips, StatusStep, StatusEnds, Ends, scan, world
<1>7. CASE WifiScan \/ WifiScanFails
  BY <1>7 DEF WifiScan, WifiScanFails, Ends, scan, world
<1>8. CASE Cancel \/ Returns \/ UNCHANGED vars
  BY <1>8 DEF Cancel, Returns, vars, scan, world
<1> QED
  BY <1>1, <1>2, <1>3, <1>4, <1>5, <1>6, <1>7, <1>8, NextCases DEF Others

LEMMA HostInvariant == Spec => []HostInv
<1>1. Init => HostInv
  BY DiagAssumption DEF Init, HostInv, HostsAreReal, ScanIsWhole, Finding, Scanning
<1> QED
  BY <1>1, HostNext, PTL DEF Spec

\* A host that is listed is up and on the network, and a port beside it is open
\* and was asked for, however the tools end (parse.rs:453-559, diag.rs:778-796).
THEOREM ListedHostsAreReal == Spec => []HostsAreReal
<1>1. HostInv => HostsAreReal
  BY DEF HostInv
<1> QED
  BY <1>1, HostInvariant, PTL

\* A scan that reports no error has left no one out (diag.rs:778-796).
THEOREM ScansWithoutErrorsAreWhole == Spec => []ScanIsWhole
<1>1. HostInv => ScanIsWhole
  BY DEF HostInv
<1> QED
  BY <1>1, HostInvariant, PTL
-----------------------------------------------------------------------------
(* What is scanned.                                                        *)

LEMMA FirstFound ==
  ASSUME NEW table \in LinkTables \cup {<<>>}, NEW some \in SUBSET DOMAIN table,
         First(table, some) # None
  PROVE  \E i \in some : First(table, some) = table[i] /\ table[i] \in LinkRows
<1>0. table \in Seq(LinkRows)
  BY DiagAssumption, EmptySeq, Zenon
<1>1. DOMAIN table = 1..Len(table) /\ Len(table) \in Nat /\ \A i \in DOMAIN table : table[i] \in LinkRows
  BY <1>0
<1>2. some # {} /\ some \subseteq Nat
  BY <1>1 DEF First
<1>3. \E i \in some : \A j \in some : i <= j
  BY <1>2, N!Smallest
<1> DEFINE first == CHOOSE i \in some : \A j \in some : i <= j
<1>4. first \in some
  BY <1>3, Zenon
<1>5. First(table, some) = table[first]
  BY <1>2, Zenon DEF First
<1> QED
  BY <1>1, <1>4, <1>5

LEMMA LinkFound ==
  ASSUME NEW table \in LinkTables \cup {<<>>}, NEW name, LinkNamed(table, name) # None
  PROVE  \E i \in DOMAIN table :
           table[i] = LinkNamed(table, name) /\ table[i].name = name /\ table[i] \in LinkRows
<1> DEFINE some == {i \in DOMAIN table : table[i].name = name}
<1>1. First(table, some) # None /\ some \subseteq DOMAIN table
  BY DEF LinkNamed
<1> HIDE DEF some
<1>2. PICK i \in some : First(table, some) = table[i] /\ table[i] \in LinkRows
  BY <1>1, FirstFound
<1>3. LinkNamed(table, name) = First(table, some) /\ table[i].name = name
  BY <1>2 DEF LinkNamed, some
<1> QED
  BY <1>1, <1>2, <1>3

LEMMA SubnetTypes ==
  ASSUME NEW addr \in Addresses, NEW prefix \in PrefixLengths
  PROVE  Subnet(addr, prefix) \in Subnets
<1> DEFINE size == 2^(WIDTH - prefix)
<1>1. WIDTH - prefix \in PrefixLengths
  BY ParseAssumption DEF PrefixLengths
<1>2. size \in Nat \ {0}
  BY <1>1, ParseAssumption
<1> HIDE DEF size
<1>3. addr \in Nat /\ addr <= 2^WIDTH - 1 /\ 2^WIDTH \in Nat
  BY ParseAssumption DEF Addresses, PrefixLengths
<1>4. addr - (addr % size) \in 0..addr
  BY <1>2, <1>3
<1>5. addr - (addr % size) \in Addresses
  <2> HIDE DEF Addresses
  <2>1. \A n \in 0..addr : n \in Addresses
    BY <1>3 DEF Addresses
  <2> QED
    BY <1>4, <2>1
<1>6. Subnet(addr, prefix) = [network |-> addr - (addr % size), prefix |-> prefix]
  BY DEF Subnet, size
<1> QED
  BY <1>5, <1>6 DEF Subnets

LEMMA GuessedNetwork ==
  ASSUME NEW addr \in Addresses, NEW prefix \in PrefixLengths,
         DefaultSubnet(addr, prefix) # None
  PROVE  /\ DefaultSubnet(addr, prefix).prefix >= MAX_SCAN_PREFIX
         /\ addr \in AddressesOf(DefaultSubnet(addr, prefix))
         /\ DefaultSubnet(addr, prefix) \in Subnets
<1> DEFINE p == IF prefix > MAX_SCAN_PREFIX THEN prefix ELSE MAX_SCAN_PREFIX
<1>1. DefaultSubnet(addr, prefix) = Subnet(addr, p)
  BY Zenon DEF DefaultSubnet
<1>2. p >= MAX_SCAN_PREFIX /\ p \in PrefixLengths
  BY ParseAssumption DEF PrefixLengths
<1> HIDE DEF p
<1>3. Subnet(addr, p).prefix = p
  BY DEF Subnet
<1>4. InSubnet(Subnet(addr, p), addr)
  BY <1>3, Zenon DEF InSubnet
<1>5. Subnet(addr, p) \in Subnets
  BY <1>2, SubnetTypes
<1> QED
  BY <1>1, <1>2, <1>3, <1>4, <1>5 DEF AddressesOf

\* Guess finds the network of an interface's first address.
LEMMA Guessed ==
  ASSUME NEW table \in LinkTables \cup {<<>>}, NEW name, Guess(table, name)
  PROVE  \/ NoTarget
         \/ /\ target'.prefix >= MAX_SCAN_PREFIX /\ interface' = name
            /\ target' \in Subnets /\ name \in Interfaces /\ began' = now'
            /\ \E i \in DOMAIN table : /\ table[i].name = name /\ table[i].ip4 # <<>>
                                       /\ table[i].ip4[1].addr \in AddressesOf(target')
<1> DEFINE link == LinkNamed(table, name)
           guess == IF link = None THEN None
                    ELSE IF link.ip4 = <<>> THEN None
                    ELSE DefaultSubnet(link.ip4[1].addr, link.ip4[1].prefix)
<1>1. IF guess = None THEN NoTarget ELSE Discover(guess, name)
  BY DEF Guess
<1> SUFFICES ASSUME guess # None
             PROVE  \E i \in DOMAIN table : /\ table[i].name = name /\ table[i].ip4 # <<>>
                                            /\ table[i].ip4[1].addr \in AddressesOf(guess)
                                            /\ guess.prefix >= MAX_SCAN_PREFIX
                                            /\ guess \in Subnets /\ name \in Interfaces
  BY <1>1 DEF Discover
<1>2. link # None /\ link.ip4 # <<>> 
      /\ guess = DefaultSubnet(link.ip4[1].addr, link.ip4[1].prefix)
  BY Zenon
<1> HIDE DEF guess
<1>3. PICK i \in DOMAIN table : table[i] = link /\ table[i].name = name /\ link \in LinkRows
  BY <1>2, LinkFound
<1> HIDE DEF link
<1>4. link.ip4 \in Seq([addr : Addresses, prefix : PrefixLengths])
  BY <1>3 DEF LinkRows
<1>5. link.ip4[1] \in [addr : Addresses, prefix : PrefixLengths]
  <2>1. Len(link.ip4) \in Nat \ {0}
    BY <1>2, <1>4, EmptySeq, Zenon
  <2>2. 1 \in 1..Len(link.ip4)
    BY <2>1
  <2> QED
    BY <1>4, <2>2, ElementOfSeq, Zenon
<1>6. link.ip4[1].addr \in Addresses /\ link.ip4[1].prefix \in PrefixLengths
  BY <1>5
<1>7. /\ guess.prefix >= MAX_SCAN_PREFIX /\ link.ip4[1].addr \in AddressesOf(guess)
      /\ guess \in Subnets
  BY <1>2, <1>6, GuessedNetwork
<1>8. name \in Interfaces
  BY <1>3 DEF LinkRows
<1> QED
  BY <1>2, <1>3, <1>7, <1>8

\* What Addr, AddrFails, Route and RouteGet come to: no target, the network that
\* is asked for, or a guess from an interface, the one asked for if there is one.
Requested ==
  ~NotGiven(params.subnet) /\ \E name : Discover(ParseSubnet(params.subnet), name)
Own ==
  /\ NotGiven(params.subnet)
  /\ \E name : /\ NotGiven(params.interface) \/ name = params.interface
               /\ Guess(links', name)

LEMMA FindingTargets ==
  ASSUME TargetInv, Addr \/ AddrFails \/ Route \/ RouteGet
  PROVE  /\ links' \in LinkTables \cup {<<>>} /\ UNCHANGED <<method, params>>
         /\ target = None /\ method = "scan_network" /\ Acceptable(params)
         /\ \/ NoTarget
            \/ Requested
            \/ Own
            \/ /\ UNCHANGED target /\ pc' \in {"route", "route-get"}
               /\ NotGiven(params.subnet) /\ NotGiven(params.interface)
<1>0. /\ target = None /\ method = "scan_network" /\ Acceptable(params)
      /\ links \in LinkTables \cup {<<>>}
      /\ pc \in {"route", "route-get"} => NotGiven(params.subnet) /\ NotGiven(params.interface)
  BY DEF TargetInv, Finding, Scanning, Addr, AddrFails, Route, RouteGet
<1>1. CASE Addr
  BY <1>0, <1>1, Zenon DEF Addr, Requested, Own, Goto
<1>2. CASE AddrFails
  BY <1>0, <1>2, Zenon DEF AddrFails, Requested
<1>3. CASE Route
  <2>1. links' = links /\ UNCHANGED <<method, params>> /\ pc = "route"
    BY <1>3 DEF Route
  <2>2. \/ NoTarget
        \/ \E name : Guess(links', name)
        \/ Goto("route-get") /\ UNCHANGED <<reply, target, interface, began>>
    BY <1>3, <2>1, Zenon DEF Route
  <2>3. NotGiven(params.subnet) /\ NotGiven(params.interface)
    BY <1>0, <2>1
  <2>4. Goto("route-get") => pc' \in {"route", "route-get"}
    BY DEF Goto
  <2> QED
    BY <1>0, <2>1, <2>2, <2>3, <2>4, Zenon DEF Own
<1>4. CASE RouteGet
  <2>1. links' = links /\ UNCHANGED <<method, params>> /\ pc = "route-get"
    BY <1>4 DEF RouteGet
  <2>2. NoTarget \/ \E name : Guess(links', name)
    BY <1>4, <2>1, Zenon DEF RouteGet
  <2>3. NotGiven(params.subnet) /\ NotGiven(params.interface)
    BY <1>0, <2>1
  <2> QED
    BY <1>0, <2>1, <2>2, <2>3, Zenon DEF Own
<1> QED
  BY <1>1, <1>2, <1>3, <1>4

LEMMA TargetNext == TargetInv /\ [Next]_vars => TargetInv'
<1> SUFFICES ASSUME TargetInv, [Next]_vars PROVE TargetInv'
  OBVIOUS
<1>1. CASE Start
  <2>1. /\ pc = "start" /\ UNCHANGED <<links, target, interface, method, params>>
        /\ \/ pc' \in {"returned", "status", "wifi"}
           \/ pc' = "addr" /\ method = "scan_network" /\ Acceptable(params)
    BY <1>1 DEF Start, Goto, scan
  <2>2. ScansOwnNetwork'
    BY <2>1 DEF TargetInv, ScansOwnNetwork
  <2>3. target # None => method = "scan_network" /\ Acceptable(params)
    BY DEF TargetInv
  <2>4. target = None
    BY <2>1 DEF TargetInv
  <2> QED
    BY <2>1, <2>2, <2>3, <2>4 DEF TargetInv, Finding, Scanning
<1>2. CASE Addr \/ AddrFails \/ Route \/ RouteGet
  <2>1. /\ links' \in LinkTables \cup {<<>>} /\ UNCHANGED <<method, params>>
        /\ target = None /\ method = "scan_network" /\ Acceptable(params)
    BY <1>2, FindingTargets
  <2>2. Acceptable(params)'
    BY <2>1 DEF Acceptable
  <2>3. CASE NoTarget
    BY <2>1, <2>2, <2>3 DEF NoTarget, Ends, TargetInv, ScansOwnNetwork, Finding, Scanning
  <2>4. CASE Requested
    <3>1. target' = ParseSubnet(params.subnet) /\ pc' = "discover" /\ ~NotGiven(params.subnet)
      BY <2>4 DEF Requested, Discover, Goto
    <3>2. target'.prefix >= MAX_SCAN_PREFIX
      BY <2>1, <3>1, ParseAssumption
      DEF Acceptable, ParsesAsSubnet, ParseSubnet, Subnet, PrefixLengths
    <3>3. ScansOwnNetwork'
      BY <2>1, <3>1, <3>2 DEF ScansOwnNetwork
    <3> QED
      BY <2>1, <2>2, <3>1, <3>3 DEF TargetInv, Finding, Scanning
  <2>5. CASE Own
    <3>1. PICK name : /\ NotGiven(params.interface) \/ name = params.interface
                      /\ Guess(links', name)
      BY <2>5 DEF Own
    <3>2. CASE ~NoTarget
      <4>1. target'.prefix >= MAX_SCAN_PREFIX /\ interface' = name
        BY <2>1, <3>1, <3>2, Guessed
      <4>2. \E i \in DOMAIN links' : /\ links'[i].name = name /\ links'[i].ip4 # <<>>
                                     /\ links'[i].ip4[1].addr \in AddressesOf(target')
        BY <2>1, <3>1, <3>2, Guessed
      <4>3. ScansOwnNetwork'
        BY <2>1, <3>1, <4>1, <4>2 DEF ScansOwnNetwork
      <4>4. pc' = "discover"
        BY <3>1, <3>2, FoundOrNot
      <4> QED
        BY <2>1, <2>2, <4>3, <4>4 DEF TargetInv, Finding, Scanning
    <3> QED
      BY <2>3, <3>2
  <2>6. CASE /\ UNCHANGED target /\ pc' \in {"route", "route-get"}
             /\ NotGiven(params.subnet) /\ NotGiven(params.interface)
    BY <2>1, <2>2, <2>6 DEF NotGiven, TargetInv, ScansOwnNetwork, Finding, Scanning
  <2> QED
    BY <1>2, <2>3, <2>4, <2>5, <2>6, FindingTargets
<1>3. CASE Discovery \/ NoPortScan \/ PortScan
  BY <1>3 DEF Discovery, NoPortScan, PortScan, Ends, Goto, scan, TargetInv, ScansOwnNetwork,
    Finding, Scanning
<1>4. CASE Others
  BY <1>4, OthersKeep DEF scan, TargetInv, ScansOwnNetwork, Finding, Scanning
<1> QED
  BY <1>1, <1>2, <1>3, <1>4, NextCases

LEMMA TargetInvariant == Spec => []TargetInv
<1>1. Init => TargetInv
  BY DEF Init, TargetInv, ScansOwnNetwork, Finding, Scanning
<1> QED
  BY <1>1, TargetNext, PTL DEF Spec

\* A scan nobody gave a network is of the device's own, and no larger than a
\* request may ask for (diag.rs:628-685, parse.rs:629-638).
THEOREM ScansTheOwnNetwork == Spec => []ScansOwnNetwork
<1>1. TargetInv => ScansOwnNetwork
  BY DEF TargetInv
<1> QED
  BY <1>1, TargetInvariant, PTL

-----------------------------------------------------------------------------
(* Types.                                                                  *)

LEMMA LinkOnTypes ==
  ASSUME NEW table \in LinkTables \cup {<<>>}, NEW subnet
  PROVE  LinkOn(table, subnet) \in Interfaces \cup {None}
<1> DEFINE some == {n \in DOMAIN table : \E i \in DOMAIN table[n].ip4 :
              InSubnet(Subnet(table[n].ip4[i].addr, table[n].ip4[i].prefix), subnet.network)}
<1>1. some \subseteq DOMAIN table
  OBVIOUS
<1>2. LinkOn(table, subnet) = IF First(table, some) = None THEN None ELSE First(table, some).name
  BY Zenon DEF LinkOn
<1> HIDE DEF some
<1>3. CASE First(table, some) # None
  <2>1. First(table, some) \in LinkRows
    BY <1>1, <1>3, FirstFound
  <2> QED
    BY <1>2, <2>1 DEF LinkRows
<1> QED
  BY <1>2, <1>3

\* What Addr, AddrFails, Route and RouteGet may set.
LEMMA FoundTypes ==
  ASSUME TypeOK, TargetInv, Addr \/ AddrFails \/ Route \/ RouteGet
  PROVE  /\ target' \in Subnets \cup {None} /\ interface' \in Interfaces \cup {None}
         /\ began' = began \/ began' = now'
<1>1. Acceptable(params) /\ links \in LinkTables \cup {<<>>}
      /\ target \in Subnets \cup {None} /\ interface \in Interfaces \cup {None}
  BY FindingTargets DEF TargetInv, TypeOK
<1>2. NoTarget => UNCHANGED <<target, interface, began>>
  BY DEF NoTarget
<1>3. ASSUME NEW table \in LinkTables \cup {<<>>}, NEW name, Guess(table, name)
      PROVE  \/ NoTarget
             \/ target' \in Subnets /\ interface' \in Interfaces /\ began' = now'
  BY <1>3, Guessed
<1>4. ASSUME ~NotGiven(params.subnet), NEW name \in Interfaces \cup {None},
             Discover(ParseSubnet(params.subnet), name)
      PROVE  target' \in Subnets /\ interface' \in Interfaces \cup {None} /\ began' = now'
  <2>1. params.subnet.network \in Addresses /\ params.subnet.prefix \in PrefixLengths
    BY <1>1, <1>4, ParseAssumption DEF Acceptable, ParsesAsSubnet, PrefixLengths
  <2>2. ParseSubnet(params.subnet) \in Subnets
    BY <2>1, SubnetTypes DEF ParseSubnet
  <2> QED
    BY <1>4, <2>2 DEF Discover
<1>5. params.interface \in Interfaces \cup {None}
  BY <1>1 DEF Acceptable, NotGiven
<1>6. CASE Addr
  <2>1. links' \in LinkTables
    BY <1>6 DEF Addr
  <2>2. \/ /\ ~NotGiven(params.subnet)
           /\ \E name \in Interfaces \cup {None} : Discover(ParseSubnet(params.subnet), name)
        \/ Guess(links', params.interface)
        \/ UNCHANGED <<reply, target, interface, began>>
    BY <1>5, <1>6, <2>1, LinkOnTypes DEF Addr
  <2> QED
    BY <1>1, <1>2, <1>3, <1>4, <2>1, <2>2
<1>7. CASE AddrFails
  <2>1. NoTarget \/ (~NotGiven(params.subnet) /\ Discover(ParseSubnet(params.subnet), params.interface))
    BY <1>7 DEF AddrFails
  <2> QED
    BY <1>1, <1>2, <1>4, <1>5, <2>1
<1>8. CASE Route
  <2>1. \/ NoTarget \/ (\E name : Guess(links, name))
        \/ UNCHANGED <<reply, target, interface, began>>
    BY <1>8, Zenon DEF Route
  <2> QED
    BY <1>1, <1>2, <1>3, <2>1
<1>9. CASE RouteGet
  <2>1. NoTarget \/ (\E name : Guess(links, name))
    BY <1>9 DEF RouteGet
  <2> QED
    BY <1>1, <1>2, <1>3, <2>1
<1> QED
  BY <1>6, <1>7, <1>8, <1>9

\* The ports a request asks for are ports.
LEMMA PortTypes ==
  ASSUME NEW ranges, ParsesAsPorts(ranges), NEW port \in PortsOf(ranges)
  PROVE  port \in 1..MAX_PORT
<1>1. PICK i \in DOMAIN ranges : port \in ranges[i].lo..ranges[i].hi
  BY DEF PortsOf
<1>2. ranges[i].lo \in 1..MAX_PORT /\ ranges[i].hi \in ranges[i].lo..MAX_PORT
  BY DEF ParsesAsPorts
<1> QED
  BY <1>1, <1>2, ParseAssumption

LEMMA ToolTypes ==
  ASSUME si \in 1..Len(StatusTools)
  PROVE  tool \in ToSet(StatusTools)
<1>1. DOMAIN StatusTools = 1..Len(StatusTools)
  BY DEF StatusTools
<1> QED
  BY <1>1 DEF tool, ToSet

LEMMA TypeNext ==
  TypeOK /\ TimeInv' /\ TargetInv /\ TargetInv' /\ HostInv /\ HostInv' /\ [Next]_vars => TypeOK'
<1> SUFFICES ASSUME TypeOK, TimeInv', TargetInv, TargetInv', HostInv, HostInv', [Next]_vars
             PROVE  TypeOK'
  OBVIOUS
<1>0. pc' \in Places /\ now' \in Nat /\ links' \in LinkTables \cup {<<>>}
  BY DEF TimeInv, TargetInv
<1>1. CASE Start
  BY <1>0, <1>1 DEF Start, TypeOK, Replies, scan, status
<1>2. CASE Addr \/ AddrFails \/ Route \/ RouteGet
  <2>1. /\ target' \in Subnets \cup {None} /\ interface' \in Interfaces \cup {None}
        /\ began' = began \/ began' = now'
    BY <1>2, FoundTypes
  <2>2. /\ UNCHANGED <<method, cancelled, errors, hosts, ports, status>>
        /\ reply' \in {reply, "NO_SUBNET"} /\ now' >= now
    <3>1. now' >= now
      BY <1>2, ToolLasts DEF Addr, AddrFails, Route, RouteGet, TypeOK
    <3> QED
      BY <1>2, <3>1, FindingSteps DEF Addr, AddrFails, Route, RouteGet
  <2>3. began' \in 0..now'
    BY <1>0, <2>1, <2>2 DEF TypeOK
  <2> QED
    BY <1>0, <2>1, <2>2, <2>3 DEF TypeOK, Replies, status
<1>3. CASE Discovery
  <2>1. /\ UNCHANGED <<method, cancelled, target, interface, ports, began, status>>
        /\ errors' \subseteq {"arp-scan", "nmap"} /\ reply' \in {reply, "SCAN_FAILED"}
        /\ pc = "discover"
    BY <1>3 DEF Discovery, Ends, Goto, Noted
  <2>2. hosts' \subseteq Addresses
    BY <1>3, DiscoveryFinds DEF AddressesOf
  <2>3. ports = {}
    BY <2>1 DEF HostInv
  <2>4. now' >= now
    BY <1>3, DiscoveryLasts DEF Discovery, TypeOK
  <2> QED
    BY <1>0, <2>1, <2>2, <2>3, <2>4 DEF TypeOK, Replies, status
<1>4. CASE NoPortScan
  BY <1>0, <1>4 DEF NoPortScan, Ends, TypeOK, Replies, scan, status
<1>5. CASE PortScan
  <2>1. /\ UNCHANGED <<method, params, cancelled, target, interface, hosts, began, status>>
        /\ errors' \subseteq errors \cup {"nmap"} /\ reply' = "ok" /\ ~NotGiven(params.ports)
        /\ pc = "ports"
    BY <1>5 DEF PortScan, Ends, Noted
  <2>2. ports' \subseteq hosts \X (1..MAX_PORT)
    <3>1. ports' \subseteq Wanted /\ open \subseteq Addresses \X Nat
      BY <1>5, PortScanFinds DEF HostInv
    <3>2. ParsesAsPorts(params.ports)
      BY <2>1 DEF TargetInv, Scanning, Acceptable
    <3>3. \A o \in Wanted : o[1] \in hosts /\ o[2] \in 1..MAX_PORT /\ o = <<o[1], o[2]>>
      BY <3>1, <3>2, PortTypes DEF Wanted
    <3> QED
      BY <3>1, <3>3
  <2>3. now' >= now
    BY <1>5, StepLasts DEF PortScan, TypeOK
  <2> QED
    BY <1>0, <2>1, <2>2, <2>3 DEF TypeOK, Replies, status
<1>6. CASE NetStatus
  <2>1. CASE Reads \/ ToolFails \/ Skips
    <3>1. /\ UNCHANGED <<method, cancelled, reply, now, scan>>
          /\ si \in 1..Len(StatusTools) /\ si' = si + 1
          /\ read' \subseteq read \cup {tool} /\ errors' \subseteq errors \cup {tool}
      BY <2>1 DEF Reads, ToolFails, Skips, StatusStep, NextTool, TypeOK
    <3>2. tool \in ToSet(StatusTools)
      BY <3>1, ToolTypes
    <3>3. Len(StatusTools) \in Nat
      BY DEF StatusTools
    <3>4. si' \in 1..Len(StatusTools) + 1
      BY <3>1, <3>3
    <3> QED
      BY <1>0, <3>1, <3>2, <3>4 DEF TypeOK, scan
  <2>2. CASE StatusEnds
    BY <1>0, <2>2 DEF StatusEnds, Ends, TypeOK, Replies, scan, status
  <2> QED
    BY <1>6, <2>1, <2>2 DEF NetStatus
<1>7. CASE WifiScan \/ WifiScanFails
  BY <1>0, <1>7 DEF WifiScan, WifiScanFails, Ends, TypeOK, Replies, scan, status
<1>8. CASE Cancel \/ Returns \/ UNCHANGED vars
  BY <1>0, <1>8 DEF Cancel, Returns, vars, TypeOK, Replies, scan, status
<1> QED
  BY <1>1, <1>2, <1>3, <1>4, <1>5, <1>6, <1>7, <1>8, NextCases DEF Others

\* Whatever the tools print, net_status comes to the end of its tools and not
\* past it, and a scan is of a network and an interface that exist
\* (diag.rs:251-355, 628-685).
THEOREM TypeCorrect == Spec => []TypeOK
<1>1. Init => TypeOK
  <2>1. Len(StatusTools) \in Nat
    BY DEF StatusTools
  <2>2. 1 \in 1..Len(StatusTools) + 1
    BY <2>1
  <2> SUFFICES ASSUME Init PROVE TypeOK
    OBVIOUS
  <2>3. /\ si = 1 /\ read = {} /\ errors = {} /\ hosts = {} /\ ports = {} /\ links = <<>>
        /\ target = None /\ interface = None /\ now = 0 /\ began = 0
        /\ pc = "start" /\ reply = "none" /\ cancelled = FALSE
        /\ method \in {"scan_network", "net_status", "net_wifi_scan"}
    BY DEF Init
  <2>4. pc \in Places /\ reply \in Replies /\ cancelled \in BOOLEAN
    BY <2>3 DEF Places, Replies
  <2>5. now \in Nat /\ began \in 0..now /\ si \in 1..Len(StatusTools) + 1
    BY <2>2, <2>3
  <2>6. /\ errors \subseteq ToSet(StatusTools) \cup {"arp-scan", "nmap"}
        /\ hosts \subseteq Addresses /\ ports \subseteq hosts \X (1..MAX_PORT)
        /\ read \subseteq ToSet(StatusTools)
    BY <2>3, Zenon
  <2> QED
    BY <2>3, <2>4, <2>5, <2>6 DEF TypeOK
<1>2. Spec => []TimeInv /\ []TargetInv /\ []HostInv
  BY TimeInvariant, TargetInvariant, HostInvariant
<1> QED
  BY <1>1, <1>2, TypeNext, PTL DEF Spec
=============================================================================
