---------------------------- MODULE MCModbusScan ----------------------------
(***************************************************************************)
(* ModbusScan on two ports, two settings and three units.                  *)
(***************************************************************************)
EXTENDS ModbusScan

CONSTANTS p1, p2, s1, s2

OneSetting == <<s1>>
CommonSettings == <<s1, s2>>

NoHints == {<<>>}
UnitHints == {<<>>, <<2, 2>>}
SettingHints == {<<>>, <<s2>>}

\* A quiet bus, and devices at one setting or two.
OneBus == {{}, {<<s1, 3>>}}
TwoBuses == {{}, {<<s1, 1>>, <<s2, 3>>}}

\* p1's bus is slow and p2's is not; p2 may be left out, or both.
OneSlowInit == Init /\ slow = {p1} /\ skipped # {p1}
OneSlowSpec == OneSlowInit /\ [][Next]_vars /\ Fairness
=============================================================================
