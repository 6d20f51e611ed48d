-------------------------------- MODULE Diag --------------------------------
(***************************************************************************)
(* net_status, net_wifi_scan and scan_network (src/src/diag.rs): one call, *)
(* its tools one after the other, or two at once.                          *)
(*                                                                         *)
(* A step runs a tool from its start to its end.  `now` is the time since  *)
(* the call began; a tool that is killed at its timeout holds the call for *)
(* up to GRACE more (Exec).  A tool that is cancelled, or that can't be    *)
(* run, is one that fails; none is started for a cancelled request.        *)
(***************************************************************************)
EXTENDS Parse

CONSTANTS
  SCAN_BUDGET,      \* 60 s, the whole of scan_network
  MAX_DISCOVERY,    \* 40 s
  MIN_STEP,         \* 1 s
  TOOL_TIMEOUT,     \* 10 s
  GRACE,            \* of the executor, after a kill
  Requests,         \* of scan_network
  Interfaces,       \* names of interfaces
  Ssids, Servers,   \* names of wifi networks, addresses of nameservers
  LinkTables, RouteTables,   \* what `ip addr` and `ip route` may print
  WifiTables,       \* what `nmcli dev wifi list` may print
  Networks,         \* what net_status may find
  Hosts             \* who may be up: see arps

\* A link, as `ip addr` has it.
LinkRows == [name : Interfaces,
             ip4 : Seq([addr : Addresses, prefix : PrefixLengths])]

\* An access point, as nmcli lists it.
WifiRows == [ssid : Ssids \cup {None}, signal : Nat \cup {None}]

\* What resolvectl knows; it keeps one of each server of a link.
ServerLists == {s \in Seq(Servers) : IsInjective(s)}
DnsTables == [global : ServerLists, beside : BOOLEAN,
              links : Seq([name : Interfaces, servers : ServerLists])]

ASSUME DiagAssumption ==
  /\ SCAN_BUDGET \in Nat /\ MAX_DISCOVERY \in Nat /\ MIN_STEP \in Nat
  /\ TOOL_TIMEOUT \in Nat /\ GRACE \in Nat
  /\ None \notin Interfaces \cup Ssids
  /\ WifiTables \subseteq Seq(WifiRows)
  /\ Networks \subseteq [links : SUBSET Interfaces, managed : SUBSET Interfaces,
                         wifi : BOOLEAN, dns : DnsTables, conf : BOOLEAN,
                         modem : {"none", "apn", "bearer"}, route : {"none", "main", "policy"}]
  /\ \A table \in LinkTables : table \in Seq(LinkRows)
  /\ \A h \in Hosts : h.open \subseteq Addresses \X Nat

VARIABLES
  \* the call
  pc, method, params, cancelled, errors, reply,
  now,
  \* scan_network
  links, target, interface, hosts, ports,
  began,            \* when the discovery began
  \* net_status
  si,               \* the tool that is run
  read,             \* the tools whose output has been read
  \* net_wifi_scan
  rows, networks,
  \* the world: who answers ARP and pings, the open ports, what net_status finds
  arps, pings, open, net

scan == <<links, target, interface, hosts, ports, began>>
status == <<si, read>>
wifi == <<rows, networks>>
world == <<arps, pings, open, net>>
vars == <<pc, method, params, cancelled, errors, reply, now, scan, status, wifi, world>>

-----------------------------------------------------------------------------
(* Parameters of scan_network.                                             *)

NotGiven(x) == x = None

Acceptable(r) ==
  /\ NotGiven(r.subnet) \/ ParsesAsSubnet(r.subnet)
  /\ NotGiven(r.interface) \/ r.interface \in Interfaces
  /\ NotGiven(r.ports) \/ ParsesAsPorts(r.ports)

-----------------------------------------------------------------------------
Init ==
  /\ pc = "start" /\ cancelled = FALSE /\ errors = {} /\ reply = "none" /\ now = 0
  /\ links = <<>> /\ target = None /\ interface = None
  /\ hosts = {} /\ ports = {} /\ began = 0
  /\ si = 1 /\ read = {}
  /\ rows = <<>> /\ networks = <<>>
  /\ \/ method = "scan_network" /\ params \in Requests /\ net = None
        /\ \E h \in Hosts : arps = h.arps /\ pings = h.pings /\ open = h.open
     \/ method = "net_status" /\ params = None /\ net \in Networks
        /\ arps = {} /\ pings = {} /\ open = {}
     \/ method = "net_wifi_scan" /\ params = None /\ net = None
        /\ arps = {} /\ pings = {} /\ open = {}

Goto(place) == pc' = place
Ends(code) == pc' = "record" /\ reply' = code

\* At each of the places it is tried, a tool ends by its timeout or is killed.
Lasts(places, timeout) == now' \in now..now + places * (timeout + GRACE)

Start ==
  /\ pc = "start"
  /\ IF method = "scan_network" /\ ~Acceptable(params)
     THEN pc' = "returned" /\ reply' = "INVALID_PARAMS"
     ELSE /\ UNCHANGED reply
          /\ Goto(CASE method = "scan_network" -> "addr" [] method = "net_status" -> "status"
                    [] OTHER -> "wifi")
  /\ UNCHANGED <<method, params, cancelled, errors, now, scan, status, wifi, world>>

-----------------------------------------------------------------------------
(* scan_network: what to scan.                                             *)

Discover(subnet, name) ==
  /\ target' = subnet /\ interface' = name /\ began' = now'
  /\ Goto("discover") /\ UNCHANGED reply

NoTarget == Ends("NO_SUBNET") /\ UNCHANGED <<target, interface, began>>

\* The network of the interface's first address.
Guess(table, name) ==
  LET link == LinkNamed(table, name)
      guess == IF link = None THEN None
               ELSE IF link.ip4 = <<>> THEN None
               ELSE DefaultSubnet(link.ip4[1].addr, link.ip4[1].prefix)
  IN IF guess = None THEN NoTarget ELSE Discover(guess, name)

\* The interface on a requested network, if there is one.
LinkOn(table, subnet) ==
  LET on == First(table, {n \in DOMAIN table : \E i \in DOMAIN table[n].ip4 :
              InSubnet(Subnet(table[n].ip4[i].addr, table[n].ip4[i].prefix), subnet.network)})
  IN IF on = None THEN None ELSE on.name

Addr ==
  /\ pc = "addr" /\ ~cancelled /\ Lasts(2, TOOL_TIMEOUT)
  /\ links' \in LinkTables
  /\ IF ~NotGiven(params.subnet)
     THEN Discover(ParseSubnet(params.subnet),
                   IF NotGiven(params.interface)
                   THEN LinkOn(links', ParseSubnet(params.subnet)) ELSE params.interface)
     ELSE IF ~NotGiven(params.interface)
     THEN Guess(links', params.interface)
     ELSE Goto("route") /\ UNCHANGED <<reply, target, interface, began>>
  /\ UNCHANGED <<method, params, cancelled, errors, hosts, ports, status, wifi, world>>

\* A requested network needs no interface.
AddrFails ==
  /\ pc = "addr" /\ Lasts(2, TOOL_TIMEOUT)
  /\ IF NotGiven(params.subnet) THEN NoTarget
     ELSE Discover(ParseSubnet(params.subnet), params.interface)
  /\ UNCHANGED <<method, params, cancelled, errors, links, hosts, ports, status, wifi, world>>

Route ==
  /\ pc = "route" /\ Lasts(2, TOOL_TIMEOUT)
  /\ \/ NoTarget
     \/ /\ ~cancelled
        /\ \E table \in RouteTables :
             LET route == DefaultRoute(table)
             IN IF route # None /\ route.dev # None
                THEN Guess(links, route.dev)
                ELSE Goto("route-get") /\ UNCHANGED <<reply, target, interface, began>>
  /\ UNCHANGED <<method, params, cancelled, errors, links, hosts, ports, status, wifi, world>>

\* No default route in the main table: the one the kernel uses.
RouteGet ==
  /\ pc = "route-get" /\ Lasts(2, TOOL_TIMEOUT)
  /\ NoTarget \/ (~cancelled /\ \E name \in Interfaces : Guess(links, name))
  /\ UNCHANGED <<method, params, cancelled, errors, links, hosts, ports, status, wifi, world>>

-----------------------------------------------------------------------------
(* scan_network: the scan.                                                 *)

Smaller(a, b) == IF a < b THEN a ELSE b
Larger(a, b) == IF a > b THEN a ELSE b

\* A mutant: every step has the whole budget.
WholeBudget == SCAN_BUDGET

Remaining == Larger(SCAN_BUDGET - now, MIN_STEP)

\* Some of the lines of a tool that is killed, the last one perhaps cut.
Cuts == {{}} \cup {{CutLine(a)} : a \in Addresses}
Parts(lines) == {some \cup cut : some \in SUBSET lines, cut \in Cuts}

\* How a tool that would print these lines may end: it can't be run; it exits 0
\* with all of them; or it fails or is killed.
Runs(lines) ==
  {[end |-> "unrun", lines |-> {}]} \cup
  IF cancelled THEN {}
  ELSE {[end |-> "exit 0", lines |-> lines]} \cup [end : {"failed"}, lines : Parts(lines)]

\* A mutant: output that can be parsed is good enough.
NotedIfUnrun(tool, run) == IF run.end = "unrun" THEN {tool} ELSE {}

Noted(tool, run) == IF run.end = "exit 0" THEN {} ELSE {tool}

HostLines(up) == {Line(a, None) : a \in up \cap AddressesOf(target)}

\* arp-scan and nmap at once; the hosts of either.
Discovery ==
  /\ pc = "discover" /\ Lasts(1, Smaller(Remaining, MAX_DISCOVERY))
  /\ \E arp \in Runs(HostLines(arps)), nmap \in Runs(HostLines(pings)) :
       /\ errors' = Noted("arp-scan", arp) \cup Noted("nmap", nmap)
       /\ hosts' = HostsIn(arp.lines) \cup HostsIn(nmap.lines)
       /\ IF arp.end = "unrun" /\ nmap.end = "unrun"
          THEN Ends("SCAN_FAILED")
          ELSE Goto("ports") /\ UNCHANGED reply
  /\ UNCHANGED <<method, params, cancelled, links, target, interface, ports, began,
                 status, wifi, world>>

NoPortScan ==
  /\ pc = "ports" /\ (NotGiven(params.ports) \/ hosts = {} \/ cancelled)
  /\ Ends("ok")
  /\ UNCHANGED <<method, params, cancelled, errors, now, scan, status, wifi, world>>

\* Ports are added to hosts that are listed.
PortScan ==
  /\ pc = "ports" /\ ~(NotGiven(params.ports) \/ hosts = {} \/ cancelled)
  /\ Lasts(1, Remaining)
  /\ \E nmap \in Runs({Line(o[1], o[2]) : o \in {o \in open :
                         o[1] \in hosts /\ o[2] \in PortsOf(params.ports)}}) :
       /\ errors' = errors \cup Noted("nmap", nmap)
       /\ ports' = {o \in OpenIn(nmap.lines) : o[1] \in hosts}
  /\ Ends("ok")
  /\ UNCHANGED <<method, params, cancelled, links, target, interface, hosts, began,
                 status, wifi, world>>

ScanNetwork == Addr \/ AddrFails \/ Route \/ RouteGet \/ Discovery \/ NoPortScan \/ PortScan
-----------------------------------------------------------------------------
(* net_status.  The four checks run at once and do not depend on each      *)
(* other: one after the other is one of their orders.                      *)

Checks == {"gateway-ping", "internet-ping", "dns-resolve", "https"}
StatusTools ==
  <<"dev", "con", "addr", "route", "resolvectl", "resolv-conf", "wifi",
    "modems", "modem", "bearer", "route-get",
    "gateway-ping", "internet-ping", "dns-resolve", "https">>

tool == StatusTools[si]

\* What resolvectl prints of the servers of a section: the first beside the key
\* or below it, one of the others to a line.
TheLine(kind, name, values) == [kind |-> kind, name |-> name, values |-> values]
PrintedSection(servers, beside) ==
  (IF servers = <<>> THEN <<>>
   ELSE (IF beside THEN <<TheLine("key", "servers", <<servers[1]>>)>>
         ELSE <<TheLine("key", "servers", <<>>), TheLine("values", None, <<servers[1]>>)>>)
        \o [i \in 1..Len(servers) - 1 |-> TheLine("values", None, <<servers[i + 1]>>)])
  \o <<TheLine("key", "domain", <<>>), TheLine("values", None, <<"lan">>),
       TheLine("blank", None, <<>>)>>

PrintedLink(link, beside) ==
  <<TheLine("link", link.name, <<>>)>> \o PrintedSection(link.servers, beside)

Behind(lines, more) == lines \o more
Printed(dns) ==
  FoldLeft(Behind, <<TheLine("global", None, <<>>)>> \o PrintedSection(dns.global, dns.beside),
           [i \in DOMAIN dns.links |-> PrintedLink(dns.links[i], dns.beside)])

resolved == ResolvectlStatus(Printed(net.dns))
Resolved == "resolvectl" \in read /\ AllServers(resolved) # <<>>

Gateway ==
  \/ "route" \in read /\ net.route = "main"
  \/ "route-get" \in read /\ net.route # "none"

\* A mutant: resolv.conf is for systems without systemd-resolved.
UnlessResolved == "resolvectl" \notin read

\* resolv.conf is read when resolvectl can't be run, or lists no server.
NoServersYet == ~Resolved

\* Some tools are for what the tools before them have shown, or have not.
Needed ==
  CASE tool = "resolv-conf"  -> NoServersYet
    [] tool = "wifi"         -> "dev" \in read /\ net.wifi
    [] tool = "modem"        -> "modems" \in read /\ net.modem # "none"
    [] tool = "bearer"       -> "modem" \in read /\ net.modem = "bearer"
    [] tool = "route-get"    -> ~Gateway
    [] tool = "gateway-ping" -> Gateway
    [] OTHER                 -> TRUE

\* Another tool stands in for these, or a check that fails for want of them;
\* nothing does for a bearer's APN.
Unnoted == {"resolvectl", "route-get", "bearer"}

\* A mutant: every other tool is left out.
TwoTools == si' = si + 2

NextTool == si' = si + 1
StatusStep ==
  /\ pc = "status" /\ si <= Len(StatusTools)
  /\ NextTool
  /\ UNCHANGED <<pc, method, params, cancelled, reply, now, scan, wifi, world>>

Reads ==
  /\ StatusStep /\ Needed /\ ~cancelled
  /\ read' = read \cup {tool}
  /\ UNCHANGED errors

ToolFails ==
  /\ StatusStep /\ Needed
  /\ errors' = errors \cup ({tool} \ Unnoted)
  /\ UNCHANGED read

\* A check needs its gateway: without one it fails.
Skips ==
  /\ StatusStep /\ ~Needed
  /\ errors' = errors \cup ({tool} \cap {"gateway-ping"})
  /\ UNCHANGED read

StatusEnds ==
  /\ pc = "status" /\ si > Len(StatusTools)
  /\ Ends("ok")
  /\ UNCHANGED <<method, params, cancelled, errors, now, scan, status, wifi, world>>

\* The interfaces of the report: NetworkManager's, and those only `ip` knows.
Reported ==
  (IF "dev" \in read THEN net.managed ELSE {}) \cup (IF "addr" \in read THEN net.links ELSE {})

NetStatus == Reads \/ ToolFails \/ Skips \/ StatusEnds

-----------------------------------------------------------------------------
(* net_wifi_scan.                                                          *)

WifiScan ==
  /\ pc = "wifi" /\ ~cancelled
  /\ rows' \in WifiTables /\ networks' = NmcliWifiList(rows')
  /\ Ends("ok")
  /\ UNCHANGED <<method, params, cancelled, errors, now, scan, status, world>>

WifiScanFails ==
  /\ pc = "wifi"
  /\ Ends("WIFI_SCAN_FAILED")
  /\ UNCHANGED <<method, params, cancelled, errors, now, scan, status, wifi, world>>

-----------------------------------------------------------------------------
Cancel ==
  /\ pc # "returned" /\ ~cancelled
  /\ cancelled' = TRUE
  /\ UNCHANGED <<pc, method, params, errors, reply, now, scan, status, wifi, world>>

\* Gateway::typed leaves a cancellation standing.
Returns ==
  /\ pc = "record"
  /\ pc' = "returned"
  /\ reply' = (IF cancelled THEN "CANCELLED" ELSE reply)
  /\ UNCHANGED <<method, params, cancelled, errors, now, scan, status, wifi, world>>

Over ==
  /\ pc = "returned"
  /\ UNCHANGED vars

Next ==
  \/ Start \/ ScanNetwork \/ NetStatus \/ WifiScan \/ WifiScanFails
  \/ Cancel \/ Returns \/ Over

Spec == Init /\ [][Next]_vars

-----------------------------------------------------------------------------
(* Properties.                                                             *)

Places == {"start", "addr", "route", "route-get", "discover", "ports", "status", "wifi",
           "record", "returned"}
Replies == {"none", "ok", "INVALID_PARAMS", "NO_SUBNET", "SCAN_FAILED", "WIFI_SCAN_FAILED",
            "CANCELLED"}

TypeOK ==
  /\ pc \in Places /\ reply \in Replies
  /\ method \in {"scan_network", "net_status", "net_wifi_scan"}
  /\ cancelled \in BOOLEAN
  /\ errors \subseteq ToSet(StatusTools) \cup {"arp-scan", "nmap"}
  /\ now \in Nat /\ began \in 0..now
  /\ links \in LinkTables \cup {<<>>}
  /\ target \in Subnets \cup {None} /\ interface \in Interfaces \cup {None}
  /\ hosts \subseteq Addresses /\ ports \subseteq hosts \X (1..MAX_PORT)
  /\ si \in 1..Len(StatusTools) + 1 /\ read \subseteq ToSet(StatusTools)

\* A host that is listed is up and on the network that is scanned, and a port
\* beside it is open and one of those asked for, though the output of a tool
\* that was killed ends anywhere in a line (parse.rs:453-559, diag.rs:778-796).
HostsAreReal ==
  reply = "ok" /\ method = "scan_network" =>
    /\ hosts \subseteq (arps \cup pings) \cap AddressesOf(target)
    /\ \A o \in ports : o[1] \in hosts /\ o \in open /\ o[2] \in PortsOf(params.ports)

\* What a scan can't find out is told (diag.rs:778-796): one without errors lists
\* everyone who answers ARP or pings on the network, with the open ports asked
\* for.
ScanIsWhole ==
  reply = "ok" /\ method = "scan_network" /\ errors = {} =>
    /\ hosts = (arps \cup pings) \cap AddressesOf(target)
    /\ ~NotGiven(params.ports) /\ ~cancelled =>
         ports = {o \in open : o[1] \in hosts /\ o[2] \in PortsOf(params.ports)}

\* "Whatever can't be read is an entry in errors" (diag.rs:249-250): a status
\* without errors has every interface, a nameserver if resolv.conf names one, the
\* modem, the wifi network and a gateway that answers; and the nameservers it has
\* from resolvectl are those of their link.  The exceptions are a bearer's APN
\* (diag.rs:529-535) and, where resolv.conf stands in, the servers of each link.
StatusIsWhole ==
  reply = "ok" /\ method = "net_status" /\ errors = {} =>
    /\ Reported = net.links \cup net.managed
    /\ net.conf => "resolv-conf" \in read \/ Resolved
    /\ resolved.global = net.dns.global /\ resolved.links = net.dns.links
    /\ net.modem # "none" => "modem" \in read
    /\ net.wifi => "wifi" \in read
    /\ Gateway /\ Checks \subseteq read

\* scan_network keeps to SCAN_BUDGET (diag.rs:26-27) once it knows what to scan,
\* but for the second each of two steps has at least (diag.rs:693-697) and the
\* tools that have to be killed.
EndsNearBudget ==
  target # None =>
    /\ began <= 6 * (TOOL_TIMEOUT + GRACE)
    /\ now <= Larger(SCAN_BUDGET, began + MIN_STEP) + MIN_STEP + 2 * GRACE

\* A network nobody asked for is the device's own: it has the first address of
\* an interface the device has, the one asked for if there is one, and it is no
\* larger than a request may ask for (diag.rs:628-685, parse.rs:629-638).
ScansOwnNetwork ==
  target # None =>
    /\ target.prefix >= MAX_SCAN_PREFIX
    /\ NotGiven(params.subnet) =>
         /\ ~NotGiven(params.interface) => interface = params.interface
         /\ \E i \in DOMAIN links :
              /\ links[i].name = interface /\ links[i].ip4 # <<>>
              /\ links[i].ip4[1].addr \in AddressesOf(target)

\* A wifi scan has each visible network once, with the signal of its strongest
\* access point, and the strongest first (parse.rs:118-143).
StrongestOfEachName ==
  LET Heard(ssid) == {rows[i] : i \in {i \in DOMAIN rows : rows[i].ssid = ssid}}
      Names == {rows[i].ssid : i \in DOMAIN rows} \ {None}
  IN pc = "returned" /\ reply = "ok" /\ method = "net_wifi_scan" =>
       /\ {networks[i].ssid : i \in DOMAIN networks} = Names
       /\ \A i, j \in DOMAIN networks : i < j =>
            /\ networks[i].ssid # networks[j].ssid
            /\ Signal(networks[i]) >= Signal(networks[j])
       /\ \A i \in DOMAIN networks :
            /\ networks[i] \in Heard(networks[i].ssid)
            /\ \A row \in Heard(networks[i].ssid) : Signal(row) <= Signal(networks[i])
-----------------------------------------------------------------------------
(* What the proofs rest on.                                                *)

Finding == {"addr", "route", "route-get"}
Scanning == Finding \cup {"discover", "ports"}

Lasting == TOOL_TIMEOUT + GRACE
TimeInv ==
  /\ pc \in Places /\ now \in Nat /\ began \in Nat
  /\ pc \in {"start", "addr"} => now = 0
  /\ pc = "route" => now <= 2 * Lasting
  /\ pc = "route-get" => now <= 4 * Lasting
  /\ pc \in {"start", "status", "wifi"} \cup Finding => target = None
  /\ pc \in {"discover", "ports"} => began <= 6 * Lasting
  /\ pc = "discover" => now = began
  /\ pc = "ports" => now <= Larger(SCAN_BUDGET, began + MIN_STEP) + GRACE
  /\ EndsNearBudget

TargetInv ==
  /\ links \in LinkTables \cup {<<>>}
  /\ pc \in Scanning \/ target # None => method = "scan_network" /\ Acceptable(params)
  /\ pc \in {"route", "route-get"} => NotGiven(params.subnet) /\ NotGiven(params.interface)
  /\ pc \in {"start"} \cup Finding => target = None
  /\ ScansOwnNetwork

\* What a scan has found, before its ports and after them.
RealHosts == hosts \subseteq (arps \cup pings) \cap AddressesOf(target)
AllHosts == hosts = (arps \cup pings) \cap AddressesOf(target)

HostInv ==
  /\ open \subseteq Addresses \X Nat
  /\ pc \in Scanning \cup {"start", "status", "wifi"} => reply = "none"
  /\ pc \in {"status", "wifi"} => method # "scan_network"
  /\ pc \in Finding \cup {"start", "discover"} => errors = {} /\ ports = {}
  /\ pc = "ports" => ports = {} /\ RealHosts /\ (errors = {} => AllHosts)
  /\ HostsAreReal /\ ScanIsWhole

\* The places of a method, and when there is a reply.
PlaceInv ==
  /\ pc \in Places /\ method \in {"scan_network", "net_status", "net_wifi_scan"}
  /\ pc \in Scanning => method = "scan_network"
  /\ pc = "status" => method = "net_status"
  /\ pc = "wifi" => method = "net_wifi_scan"
  /\ pc \notin {"record", "returned"} => reply = "none"

WifiInv ==
  reply = "ok" /\ method = "net_wifi_scan" =>
    rows \in WifiTables /\ networks = NmcliWifiList(rows)

\* A tool that has been left out, or that nobody misses.
Unmissed(t) ==
  \/ t \in Unnoted
  \/ t = "resolv-conf" /\ Resolved
  \/ t = "wifi" /\ ~("dev" \in read /\ net.wifi)
  \/ t = "modem" /\ ~("modems" \in read /\ net.modem # "none")

\* Every tool before the one that is next has been read, is told of, or is not
\* missed; none after it has been read.
StatusInv ==
  method = "net_status" =>
    /\ net \in Networks /\ si \in 1..Len(StatusTools) + 1
    /\ \A i \in DOMAIN StatusTools :
         /\ StatusTools[i] \in read => i < si
         /\ i < si => StatusTools[i] \in read \cup errors \/ Unmissed(StatusTools[i])
    /\ "gateway-ping" \in read => Gateway
    /\ reply = "ok" => si > Len(StatusTools)
=============================================================================
