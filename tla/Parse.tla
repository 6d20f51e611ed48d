------------------------------- MODULE Parse -------------------------------
(***************************************************************************)
(* What diag.rs reads out of its tools' output and of a request            *)
(* (src/src/parse.rs).  IPv4 addresses have WIDTH bits.  Texts are the     *)
(* data in them: an output is the sequence of its rows, or the set of its  *)
(* lines where neither their order nor a repeated one matters.             *)
(***************************************************************************)
EXTENDS Integers, SequencesExt

CONSTANTS
  WIDTH,             \* 32
  MAX_SCAN_PREFIX,   \* 22
  MIN_GUESS_PREFIX,  \* 16
  MAX_PORT,          \* 65535
  None

Addresses == 0..2^WIDTH - 1
PrefixLengths == 0..WIDTH

ASSUME ParseAssumption ==
  /\ WIDTH \in Nat /\ MAX_SCAN_PREFIX \in PrefixLengths /\ MIN_GUESS_PREFIX \in PrefixLengths
  /\ MAX_PORT \in Nat
  /\ None \notin Int
  /\ \A n \in PrefixLengths : 2^n \in Nat \ {0}   \* what proofs use of powers

-----------------------------------------------------------------------------
(* Networks.                                                               *)

Subnets == [network : Addresses, prefix : PrefixLengths]

Subnet(addr, prefix) ==
  [network |-> addr - (addr % 2^(WIDTH - prefix)), prefix |-> prefix]

InSubnet(subnet, addr) == Subnet(addr, subnet.prefix).network = subnet.network
AddressesOf(subnet) == {a \in Addresses : InSubnet(subnet, a)}

\* A range as a request has it; a bare address has prefix WIDTH.
ParsesAsSubnet(s) == s.network \in Addresses /\ s.prefix \in MAX_SCAN_PREFIX..WIDTH
ParseSubnet(s) == Subnet(s.network, s.prefix)

\* A mutant: the range begins at the device's own address.
FromOwnAddress(addr, prefix) ==
  IF prefix < MIN_GUESS_PREFIX THEN None
  ELSE [network |-> addr, prefix |-> IF prefix > MAX_SCAN_PREFIX THEN prefix ELSE MAX_SCAN_PREFIX]

\* The range of the device's own address, or of the part around it.
DefaultSubnet(addr, prefix) ==
  IF prefix < MIN_GUESS_PREFIX THEN None
  ELSE Subnet(addr, IF prefix > MAX_SCAN_PREFIX THEN prefix ELSE MAX_SCAN_PREFIX)

\* A list of port ranges; a single port is a range of one.
ParsesAsPorts(ranges) ==
  /\ ranges # <<>>
  /\ \A i \in DOMAIN ranges :
       ranges[i].lo \in 1..MAX_PORT /\ ranges[i].hi \in ranges[i].lo..MAX_PORT
PortsOf(ranges) == UNION {ranges[i].lo..ranges[i].hi : i \in DOMAIN ranges}

-----------------------------------------------------------------------------
(* ip -j.                                                                  *)

\* The first of some rows of a table.
First(table, some) ==
  IF some = {} THEN None ELSE table[CHOOSE i \in some : \A j \in some : i <= j]

\* The link of a name.
LinkNamed(table, name) == First(table, {i \in DOMAIN table : table[i].name = name})

\* The default route the kernel prefers; of two with the same metric, the
\* first.  A missing metric is 0.
Metric(route) == IF route.metric = None THEN 0 ELSE route.metric

DefaultRoute(routes) ==
  LET Preferred(i) ==
        /\ routes[i].default
        /\ \A j \in DOMAIN routes : routes[j].default =>
             \/ Metric(routes[i]) < Metric(routes[j])
             \/ Metric(routes[i]) = Metric(routes[j]) /\ i <= j
  IN IF \E i \in DOMAIN routes : Preferred(i)
     THEN routes[CHOOSE i \in DOMAIN routes : Preferred(i)]
     ELSE None

-----------------------------------------------------------------------------
(* nmcli dev wifi list.                                                    *)

\* A mutant: one entry per access point.
EveryPoint(best, row) ==
  IF row.ssid = None THEN best ELSE Append(best, row)

\* A row beside the best of the rows before it: hidden networks are dropped, a
\* stronger access point takes its network's place.  No signal is less than any.
Signal(row) == IF row.signal = None THEN -1 ELSE row.signal

Better(best, row) ==
  IF row.ssid = None THEN best
  ELSE IF \A i \in DOMAIN best : best[i].ssid # row.ssid THEN Append(best, row)
  ELSE [i \in DOMAIN best |->
          IF best[i].ssid = row.ssid /\ Signal(best[i]) < Signal(row) THEN row ELSE best[i]]

\* The strongest first; equals stay in their order.
Ahead(best, i, j) ==
  Signal(best[i]) > Signal(best[j]) \/ (Signal(best[i]) = Signal(best[j]) /\ i < j)

Place(best, i) == Cardinality({j \in DOMAIN best : Ahead(best, j, i)}) + 1
StrongestFirst(best) ==
  [k \in DOMAIN best |-> best[CHOOSE i \in DOMAIN best : Place(best, i) = k]]

NmcliWifiList(rows) == StrongestFirst(FoldLeft(Better, <<>>, rows))

-----------------------------------------------------------------------------
(* resolvectl status.  A line is a header (Global, or a link's), a blank, a  *)
(* key with its first values or alone on its line, or more values of the key *)
(* above it.                                                                 *)

NoServers == [section |-> 0, in_servers |-> FALSE, global |-> <<>>, links |-> <<>>]

\* The servers of a list that are not yet in another, behind those that are.
AddNew(all, server) == IF Contains(all, server) THEN all ELSE Append(all, server)
Adding(servers, values) == FoldLeft(AddNew, servers, values)

AddServers(dns, values) ==
  IF dns.section = 0 THEN [dns EXCEPT !.global = Adding(@, values)]
  ELSE [dns EXCEPT !.links[dns.section].servers = Adding(@, values)]

DnsLine(dns, line) ==
  CASE line.kind = "blank"  -> [dns EXCEPT !.in_servers = FALSE]
    [] line.kind = "global" -> [dns EXCEPT !.section = 0, !.in_servers = FALSE]
    [] line.kind = "link"   -> [dns EXCEPT !.section = Len(dns.links) + 1, !.in_servers = FALSE,
                                  !.links = Append(@, [name |-> line.name, servers |-> <<>>])]
    [] line.kind = "values" -> IF dns.in_servers THEN AddServers(dns, line.values) ELSE dns
    [] line.kind = "key" /\ line.name # "servers"
                            -> [dns EXCEPT !.in_servers = FALSE]
    [] line.kind = "key" /\ line.name = "servers"
                            -> AddServers([dns EXCEPT !.in_servers = TRUE], line.values)

ResolvectlStatus(lines) == FoldLeft(DnsLine, NoServers, lines)

\* Every server, the global ones first.
AllServers(dns) ==
  FoldLeft(LAMBDA all, l : Adding(all, l.servers), Adding(<<>>, dns.global), dns.links)

-----------------------------------------------------------------------------
(* arp-scan and nmap -oG.                                                  *)

\* A line names a host, or one of its open ports.  The last line of a tool that
\* is killed may be cut: it then names any address, but has no complete MAC
\* (arp-scan), Status or Ports section, or state of the port (nmap).
Line(addr, port) == [ip |-> addr, port |-> port, whole |-> TRUE]
CutLine(addr) == [ip |-> addr, port |-> None, whole |-> FALSE]

\* A mutant: any line that begins with an address is a host's.
AnyLine(lines) == lines

WholeLines(lines) == {l \in lines : l.whole}
HostsIn(lines) == {l.ip : l \in WholeLines(lines)}
OpenIn(lines) == {<<l.ip, l.port>> : l \in {l \in WholeLines(lines) : l.port # None}}
=============================================================================
