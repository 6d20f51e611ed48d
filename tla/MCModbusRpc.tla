---------------------------- MODULE MCModbusRpc ----------------------------
(***************************************************************************)
(* ModbusRpc on the units 0 to 2: requests of every method and transport,  *)
(* those at each limit and those just past it.                             *)
(***************************************************************************)
EXTENDS ModbusRpc

Ask(method, transport, ids, register, count) ==
  [method |-> method, transport |-> transport, units |-> ids,
   register |-> register, count |-> count, value |-> 1]

SomeRequests ==
  {Ask("probe", "rtu", <<1, 2, 1>>, 0, 1), Ask("probe", "tcp", <<0, 2>>, 1, 1),
   Ask("probe", "rtu", <<1, 1, 1, 2>>, 0, 1), Ask("probe", "rtu", <<1, 0>>, 0, 1),
   Ask("read", "rtu", <<2>>, 0, 2), Ask("read", "tcp", <<0>>, 1, 2),
   Ask("write", "rtu", <<1>>, 1, 1), Ask("write", "tcp", <<0>>, 0, 1),
   Ask("write", "rtu", <<0>>, 0, 1), Ask("write", "tcp", <<3>>, 0, 1),
   [method |-> "write"]}

\* Every kind of unit beside every other.
SomeBuses == {<<"data", "data", "absent">>, <<"absent", "exception", "data">>}
Buses012 == {[u \in Ids |-> b[u + 1]] : b \in SomeBuses}
=============================================================================
