------------------------------- MODULE MCDiag -------------------------------
(***************************************************************************)
(* Diag on addresses of three bits: the device has an address on a network *)
(* that is scanned whole, one on a network that is scanned in part, one on *)
(* a network too large to guess from, and an interface without address.    *)
(***************************************************************************)
EXTENDS Diag

CONSTANTS eth, wlan, ssid1, ssid2

Link(name, ip4) == [name |-> name, ip4 |-> ip4]
Ip4(addr, prefix) == [addr |-> addr, prefix |-> prefix]

SomeLinks ==
  {<<Link(eth, <<Ip4(5, 2)>>), Link(wlan, <<Ip4(3, 1), Ip4(6, 3)>>)>>,
   <<Link(wlan, <<Ip4(1, 0)>>), Link(eth, <<>>)>>}

Default(dev, metric) == [default |-> TRUE, dev |-> dev, metric |-> metric]
SomeRoutes ==
  {<<>>, <<[default |-> FALSE, dev |-> eth, metric |-> None], Default(eth, 2), Default(wlan, 1)>>,
   <<Default(wlan, 1), Default(eth, None)>>, <<Default(None, None)>>}

Request(subnet, name, ranges) == [subnet |-> subnet, interface |-> name, ports |-> ranges]
Range2(network, prefix) == [network |-> network, prefix |-> prefix]
Ports(lo, hi) == <<[lo |-> lo, hi |-> hi]>>

SomeRequests ==
  {Request(None, None, None), Request(None, wlan, Ports(1, 1)), Request(None, eth, None),
   Request(Range2(5, 2), None, Ports(2, 2)), Request(Range2(6, 2), eth, Ports(1, 1) \o Ports(2, 2)),
   Request(Range2(0, 1), None, None), Request(None, None, Ports(2, 1)),
   Request(None, "-x", None)}

\* Some hosts answer ARP only, some pings only; the firewall of a third.
SomeHosts ==
  {[arps |-> {2, 4, 5}, pings |-> {3, 5, 7}, open |-> {<<5, 1>>, <<4, 2>>, <<5, 2>>, <<3, 1>>}],
   [arps |-> {}, pings |-> {3, 4}, open |-> {}]}

Signals == {None, 1, 2}
SomeWifi == UNION {[1..n -> [ssid : {None, ssid1, ssid2}, signal : Signals]] : n \in 0..3}

\* Of the parts of a status, each in all its forms beside one form of the others.
Dns(global, onlink, beside) ==
  [global |-> global, beside |-> beside,
   links |-> <<[name |-> eth, servers |-> onlink], [name |-> wlan, servers |-> <<>>]>>]

SomeNetworks ==
  LET Net(managed, wireless, dns, conf, modem, route) ==
        [links |-> {eth}, managed |-> managed, wifi |-> wireless, dns |-> dns,
         conf |-> conf, modem |-> modem, route |-> route]
  IN {Net({wlan}, TRUE, Dns(<<>>, <<"1.1.1.1", "::1">>, TRUE), TRUE, "apn", "main"),
      Net({eth}, FALSE, Dns(<<>>, <<>>, TRUE), TRUE, "bearer", "policy"),
      Net({}, FALSE, Dns(<<"1.1.1.1">>, <<"1.1.1.1">>, FALSE), FALSE, "none", "none"),
      Net({wlan}, TRUE, Dns(<<>>, <<>>, FALSE), TRUE, "none", "main")}
=============================================================================
