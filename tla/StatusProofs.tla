---------------------------- MODULE StatusProofs ----------------------------
(***************************************************************************)
(* Proofs about net_wifi_scan and net_status in Diag, for every output of  *)
(* their tools: what their parsers return, and what their reports say.     *)
(***************************************************************************)
EXTENDS Diag, FiniteSetTheorems, SequenceTheorems, TLAPS

-----------------------------------------------------------------------------
(* The wifi list.                                                          *)

W == INSTANCE FoldLaws WITH Op <- Better

LEMMA SignalTypes ==
  ASSUME NEW row \in WifiRows
  PROVE  Signal(row) \in Int
  BY DEF Signal, WifiRows

\* What the list of the first k rows is: each name once, with a row of its own
\* that is as strong as any.
BestOf(best, rs, k) ==
  /\ \A i \in 1..Len(best) : best[i].ssid # None /\ \E n \in 1..k : best[i] = rs[n]
  /\ \A i, j \in 1..Len(best) : best[i].ssid = best[j].ssid => i = j
  /\ \A n \in 1..k : rs[n].ssid # None =>
       \E i \in 1..Len(best) : best[i].ssid = rs[n].ssid /\ Signal(rs[n]) <= Signal(best[i])

LEMMA BetterTypes ==
  ASSUME NEW best \in Seq(WifiRows), NEW row \in WifiRows
  PROVE  Better(best, row) \in Seq(WifiRows)
<1>1. DOMAIN best = 1..Len(best) /\ Len(best) \in Nat /\ \A i \in 1..Len(best) : best[i] \in WifiRows
  OBVIOUS
<1>2. Append(best, row) \in Seq(WifiRows)
  OBVIOUS
<1> DEFINE new == [i \in 1..Len(best) |->
          IF best[i].ssid = row.ssid /\ Signal(best[i]) < Signal(row) THEN row ELSE best[i]]
<1>3. new \in [1..Len(best) -> WifiRows]
  BY <1>1
<1>4. new \in Seq(WifiRows)
  BY <1>1, <1>3
<1> QED
  BY <1>1, <1>2, <1>4 DEF Better

LEMMA BetterKeepsBest ==
  ASSUME NEW rs \in Seq(WifiRows), NEW k \in 1..Len(rs), NEW best \in Seq(WifiRows),
         BestOf(best, rs, k - 1)
  PROVE  BestOf(Better(best, rs[k]), rs, k)
<1> DEFINE row == rs[k]
           new == Better(best, row)
<1>1. /\ DOMAIN best = 1..Len(best) /\ Len(best) \in Nat
      /\ \A i \in 1..Len(best) : best[i] \in WifiRows /\ Signal(best[i]) \in Int
      /\ row \in WifiRows /\ Signal(row) \in Int
      /\ \A n \in 1..Len(rs) : rs[n] \in WifiRows /\ Signal(rs[n]) \in Int
  BY SignalTypes
<1>2. k \in Nat /\ 1..k = (1..k - 1) \cup {k} /\ k \in 1..k
  OBVIOUS
<1>3. CASE row.ssid = None
  <2>1. new = best
    BY <1>3 DEF Better
  <2>2. \A i \in 1..Len(best) : \E n \in 1..k : best[i] = rs[n]
    BY <1>2 DEF BestOf
  <2>3. \A n \in 1..k : rs[n].ssid # None => n \in 1..k - 1
    BY <1>2, <1>3
  <2> QED
    BY <2>1, <2>2, <2>3 DEF BestOf
<1>4. CASE row.ssid # None /\ \A i \in DOMAIN best : best[i].ssid # row.ssid
  <2>1. new = Append(best, row)
    BY <1>4 DEF Better
  <2>2. /\ Len(new) = Len(best) + 1 /\ new[Len(best) + 1] = row
        /\ \A i \in 1..Len(best) : new[i] = best[i]
    BY <1>1, <2>1
  <2>3. 1..Len(new) = (1..Len(best)) \cup {Len(best) + 1}
    BY <1>1, <2>2
  <2>4. \A i, j \in 1..Len(new) : new[i].ssid = new[j].ssid => i = j
    BY <1>1, <1>4, <2>2, <2>3 DEF BestOf
  <2>5. \A i \in 1..Len(new) : new[i].ssid # None /\ \E n \in 1..k : new[i] = rs[n]
    BY <1>2, <1>4, <2>2, <2>3 DEF BestOf
  <2>6. ASSUME NEW n \in 1..k, rs[n].ssid # None
        PROVE  \E i \in 1..Len(new) : new[i].ssid = rs[n].ssid /\ Signal(rs[n]) <= Signal(new[i])
    <3>1. CASE n = k
      BY <1>1, <2>2, <2>3, <3>1
    <3>2. CASE n # k
      BY <1>2, <2>2, <2>3, <2>6, <3>2 DEF BestOf
    <3> QED
      BY <3>1, <3>2
  <2> QED
    BY <2>4, <2>5, <2>6 DEF BestOf
<1>5. CASE row.ssid # None /\ \E i \in DOMAIN best : best[i].ssid = row.ssid
  <2>1. new = [i \in DOMAIN best |->
                 IF best[i].ssid = row.ssid /\ Signal(best[i]) < Signal(row) THEN row ELSE best[i]]
    BY <1>5 DEF Better
  <2>2. Len(new) = Len(best)
    BY <1>1, <2>1
  <2>3. \A i \in 1..Len(best) : new[i].ssid = best[i].ssid /\ new[i] \in {best[i], row}
    BY <1>1, <2>1
  <2>4. \A i \in 1..Len(best) : Signal(best[i]) <= Signal(new[i]) /\ Signal(new[i]) \in Int
    BY <1>1, <2>1
  <2>5. \A i \in 1..Len(best) : best[i].ssid = row.ssid => Signal(row) <= Signal(new[i])
    BY <1>1, <2>1
  <2>6. \A i, j \in 1..Len(new) : new[i].ssid = new[j].ssid => i = j
    BY <2>2, <2>3 DEF BestOf
  <2>7. \A i \in 1..Len(new) : new[i].ssid # None /\ \E n \in 1..k : new[i] = rs[n]
    BY <1>2, <2>2, <2>3 DEF BestOf
  <2>8. ASSUME NEW n \in 1..k, rs[n].ssid # None
        PROVE  \E i \in 1..Len(new) : new[i].ssid = rs[n].ssid /\ Signal(rs[n]) <= Signal(new[i])
    <3>1. CASE n = k
      BY <1>1, <1>5, <2>2, <2>3, <2>5, <3>1
    <3>2. CASE n # k
      <4>1. n \in 1..k - 1 /\ n \in 1..Len(rs)
        BY <1>2, <3>2
      <4>2. PICK i \in 1..Len(best) : best[i].ssid = rs[n].ssid /\ Signal(rs[n]) <= Signal(best[i])
        BY <2>8, <4>1 DEF BestOf
      <4>3. Signal(rs[n]) <= Signal(new[i])
        BY <1>1, <2>4, <4>1, <4>2
      <4> QED
        BY <2>2, <2>3, <4>2, <4>3
    <3> QED
      BY <3>1, <3>2
  <2> QED
    BY <2>6, <2>7, <2>8 DEF BestOf
<1> QED
  BY <1>3, <1>4, <1>5

LEMMA BestOfAll ==
  ASSUME NEW rs \in Seq(WifiRows)
  PROVE  /\ FoldLeft(Better, <<>>, rs) \in Seq(WifiRows)
         /\ BestOf(FoldLeft(Better, <<>>, rs), rs, Len(rs))
<1> DEFINE I == {p \in Nat \X Seq(WifiRows) : BestOf(p[2], rs, p[1])}
<1>1. FoldLeft(Better, <<>>, rs) = W!Fold(<<>>, rs)
  BY DEF W!Fold, W!FoldLeft, W!MapThenFoldSet, W!Max, FoldLeft, MapThenFoldSet, Max
<1>0. BestOf(<<>>, rs, 0)
  BY DEF BestOf
<1>2. <<>> \in Seq(WifiRows) /\ <<0, <<>>>> \in I /\ Len(rs) \in Nat
  <2>1. <<0, <<>>>> \in Nat \X Seq(WifiRows)
    <3>1. <<>> \in Seq(WifiRows) /\ 0 \in Nat
      OBVIOUS
    <3> QED
      BY <3>1, Zenon
  <2>2. <<0, <<>>>>[1] = 0 /\ <<0, <<>>>>[2] = <<>>
    OBVIOUS
  <2>3. <<0, <<>>>> \in I
    BY <1>0, <2>1, <2>2, Zenon
  <2> QED
    BY <2>3
<1>3. \A best \in Seq(WifiRows), row \in WifiRows : Better(best, row) \in Seq(WifiRows)
  BY BetterTypes
<1>4. ASSUME NEW k \in 1..Len(rs), NEW best \in Seq(WifiRows), <<k - 1, best>> \in I
      PROVE  <<k, Better(best, rs[k])>> \in I
  <2>1. rs[k] \in WifiRows /\ k \in Nat
    BY <1>2
  <2>2. BestOf(best, rs, k - 1)
    BY <1>4
  <2> QED
    BY <1>3, <2>1, <2>2, BetterKeepsBest
<1> HIDE DEF I
<1>5. \A k \in 1..Len(rs), best \in Seq(WifiRows) :
        <<k - 1, best>> \in I => <<k, Better(best, rs[k])>> \in I
  BY <1>4
<1> DEFINE Lists == Seq(WifiRows)
<1> HIDE DEF Lists
<1>6. /\ <<>> \in Lists /\ <<0, <<>>>> \in I
      /\ \A best \in Lists, row \in WifiRows : Better(best, row) \in Lists
      /\ \A k \in 1..Len(rs), best \in Lists :
           <<k - 1, best>> \in I => <<k, Better(best, rs[k])>> \in I
  BY <1>2, <1>3, <1>5, Zenon DEF Lists
<1>7. /\ W!Fold(<<>>, rs) \in Lists
      /\ <<Len(rs), W!Fold(<<>>, rs)>> \in I
  BY <1>6, W!FoldInvariant
<1> QED
  BY <1>1, <1>7 DEF I, Lists

\* The sort: every entry has a place of its own, behind those ahead of it, and
\* every place is taken.
LEMMA PlacesAreTaken ==
  ASSUME NEW best \in Seq(WifiRows)
  PROVE  /\ \A i, j \in DOMAIN best : Ahead(best, i, j) <=> Place(best, i) < Place(best, j)
         /\ \A k \in DOMAIN best : \E i \in DOMAIN best : Place(best, i) = k
         /\ \A i \in DOMAIN best : Place(best, i) \in DOMAIN best
<1> DEFINE D == DOMAIN best
           Prior(i) == {j \in D : Ahead(best, j, i)}
<1>1. /\ D = 1..Len(best) /\ Len(best) \in Nat
      /\ \A i \in D : Signal(best[i]) \in Int /\ i \in Nat
  BY SignalTypes
<1>2. IsFiniteSet(D) /\ Cardinality(D) = Len(best)
  BY <1>1, FS_Interval
<1>3. /\ \A i \in D : ~Ahead(best, i, i)
      /\ \A i, j \in D : i # j => Ahead(best, i, j) \/ Ahead(best, j, i)
      /\ \A i, j, l \in D : Ahead(best, i, j) /\ Ahead(best, j, l) => Ahead(best, i, l)
  BY <1>1 DEF Ahead
<1>4. \A i \in D : Place(best, i) = Cardinality(Prior(i)) + 1
  BY DEF Place
<1> HIDE DEF D
<1>5. ASSUME NEW i \in D
      PROVE  /\ IsFiniteSet(Prior(i)) /\ Cardinality(Prior(i)) \in Nat
             /\ Place(best, i) \in 1..Len(best)
  <2>1. Prior(i) \in SUBSET (D \ {i})
    BY <1>3
  <2>2. IsFiniteSet(D \ {i}) /\ Cardinality(D \ {i}) = Len(best) - 1
    BY <1>2, FS_RemoveElement
  <2> HIDE DEF Prior
  <2> DEFINE prior == Prior(i)
             rest == D \ {i}
  <2>3. IsFiniteSet(rest) /\ prior \in SUBSET rest /\ Cardinality(rest) = Len(best) - 1
    BY <2>1, <2>2
  <2> HIDE DEF prior, rest
  <2>4. IsFiniteSet(prior) /\ Cardinality(prior) <= Cardinality(rest)
    BY <2>3, FS_Subset
  <2>5. IsFiniteSet(Prior(i)) /\ Cardinality(Prior(i)) <= Len(best) - 1
    BY <2>3, <2>4 DEF prior
  <2>6. Cardinality(Prior(i)) \in Nat
    BY <2>5, FS_CardinalityType
  <2> QED
    BY <1>1, <1>4, <2>5, <2>6
<1>6. ASSUME NEW i \in D, NEW j \in D, Ahead(best, i, j)
      PROVE  Place(best, i) < Place(best, j)
  <2>1. Prior(i) \in SUBSET Prior(j) /\ i \in Prior(j) /\ i \notin Prior(i)
    BY <1>3, <1>6
  <2>2. /\ IsFiniteSet(Prior(j)) /\ Cardinality(Prior(i)) \in Nat /\ Cardinality(Prior(j)) \in Nat
        /\ Place(best, i) = Cardinality(Prior(i)) + 1 /\ Place(best, j) = Cardinality(Prior(j)) + 1
    BY <1>4, <1>5
  <2> HIDE DEF Prior
  <2> DEFINE less == Prior(i)
             more == Prior(j)
  <2>3. IsFiniteSet(more) /\ less \in SUBSET more /\ less # more
    BY <2>1, <2>2
  <2> HIDE DEF less, more
  <2>4. Cardinality(less) <= Cardinality(more) /\ Cardinality(less) # Cardinality(more)
    BY <2>3, FS_Subset
  <2>5. Cardinality(Prior(i)) <= Cardinality(Prior(j)) /\ Cardinality(Prior(i)) # Cardinality(Prior(j))
    BY <2>4 DEF less, more
  <2> QED
    BY <2>2, <2>5
<1>7. \A i, j \in D : Ahead(best, i, j) <=> Place(best, i) < Place(best, j)
  <2>1. \A i \in D : Place(best, i) \in Nat
    BY <1>1, <1>5
  <2> HIDE DEF Prior
  <2> QED
    BY <1>3, <1>6, <2>1
<1>8. ASSUME NEW k \in D, \A i \in D : Place(best, i) # k
      PROVE  FALSE
  <2> DEFINE T == D \ {k}
             f == [i \in D |-> Place(best, i)]
  <2>1. f \in [D -> T]
    BY <1>1, <1>5, <1>8
  <2>2. IsFiniteSet(T) /\ Cardinality(T) = Cardinality(D) - 1
    BY <1>2, FS_RemoveElement
  <2>3. Cardinality(T) < Cardinality(D)
    BY <1>1, <1>2, <2>2
  <2> HIDE DEF T, f
  <2>4. PICK i, j \in D : i # j /\ f[i] = f[j]
    BY <1>2, <2>1, <2>2, <2>3, FS_PigeonHole
  <2>5. Place(best, i) = Place(best, j) /\ Place(best, i) \in Nat
    BY <1>1, <1>5, <2>4 DEF f
  <2> QED
    BY <1>3, <1>7, <2>4, <2>5
<1> QED
  BY <1>1, <1>5, <1>7, <1>8 DEF D

\* The list has the entries of the unsorted one, each of them once, and one that
\* is listed before another is at least as strong.
LEMMA StrongestFirstIs ==
  ASSUME NEW best \in Seq(WifiRows)
  PROVE  /\ DOMAIN StrongestFirst(best) = DOMAIN best
         /\ \E at \in [DOMAIN best -> DOMAIN best] :
              /\ \A k \in DOMAIN best : StrongestFirst(best)[k] = best[at[k]]
              /\ \A i \in DOMAIN best : \E k \in DOMAIN best : at[k] = i
              /\ \A k, l \in DOMAIN best : k < l =>
                   at[k] # at[l] /\ Signal(best[at[k]]) >= Signal(best[at[l]])
<1> DEFINE D == DOMAIN best
           at == [k \in D |-> CHOOSE i \in D : Place(best, i) = k]
<1>1. /\ D = 1..Len(best) /\ Len(best) \in Nat
      /\ \A i \in D : Signal(best[i]) \in Int
  BY SignalTypes
<1>2. ASSUME NEW k \in D
      PROVE  at[k] \in D /\ Place(best, at[k]) = k
  <2>1. \E i \in D : Place(best, i) = k
    BY PlacesAreTaken
  <2> QED
    BY <2>1
<1>3. DOMAIN StrongestFirst(best) = D /\ \A k \in D : StrongestFirst(best)[k] = best[at[k]]
  BY DEF StrongestFirst
<1> HIDE DEF at
<1>4. at \in [D -> D]
  BY <1>2 DEF at
<1>5. ASSUME NEW k \in D, NEW l \in D, k < l
      PROVE  at[k] # at[l] /\ Signal(best[at[k]]) >= Signal(best[at[l]])
  <2>1. Ahead(best, at[k], at[l])
    BY <1>2, <1>5, PlacesAreTaken
  <2>2. at[k] \in D /\ at[l] \in D /\ Place(best, at[k]) = k /\ Place(best, at[l]) = l
    BY <1>2
  <2>3. at[k] # at[l]
    BY <1>1, <1>5, <2>2
  <2> QED
    BY <1>1, <2>1, <2>2, <2>3 DEF Ahead
<1>6. ASSUME NEW i \in D PROVE \E k \in D : at[k] = i
  <2>1. PICK k \in D : Place(best, i) = k
    <3>1. Place(best, i) \in D
      BY PlacesAreTaken
    <3> QED
      BY <3>1
  <2>2. Place(best, at[k]) = Place(best, i) /\ at[k] \in D
    BY <1>2, <2>1
  <2>3. ~Ahead(best, at[k], i) /\ ~Ahead(best, i, at[k])
    <3>1. Place(best, i) \in Nat
      BY <1>1, PlacesAreTaken
    <3> QED
      BY <2>2, <3>1, PlacesAreTaken
  <2> QED
    BY <1>1, <2>2, <2>3 DEF Ahead
<1> QED
  BY <1>3, <1>4, <1>5, <1>6

\* Of a table of access points, each name once with a row as strong as any, the
\* strongest first.
LEMMA WifiListIs ==
  ASSUME NEW rs \in Seq(WifiRows)
  PROVE  LET list == NmcliWifiList(rs)
         IN /\ DOMAIN list \subseteq Nat
            /\ \A k \in DOMAIN list : list[k].ssid # None /\ \E n \in DOMAIN rs : list[k] = rs[n]
            /\ \A k, l \in DOMAIN list : k < l =>
                 list[k].ssid # list[l].ssid /\ Signal(list[k]) >= Signal(list[l])
            /\ \A n \in DOMAIN rs : rs[n].ssid # None =>
                 \E k \in DOMAIN list : list[k].ssid = rs[n].ssid /\ Signal(rs[n]) <= Signal(list[k])
<1> DEFINE best == FoldLeft(Better, <<>>, rs)
           list == StrongestFirst(best)
<1>1. best \in Seq(WifiRows) /\ BestOf(best, rs, Len(rs))
  BY BestOfAll
<1>2. NmcliWifiList(rs) = list
  BY DEF NmcliWifiList
<1> HIDE DEF best
<1>3. DOMAIN list = DOMAIN best /\ DOMAIN best = 1..Len(best) /\ DOMAIN rs = 1..Len(rs)
  BY <1>1, StrongestFirstIs
<1>4. PICK at \in [DOMAIN best -> DOMAIN best] :
        /\ \A k \in DOMAIN best : list[k] = best[at[k]]
        /\ \A i \in DOMAIN best : \E k \in DOMAIN best : at[k] = i
        /\ \A k, l \in DOMAIN best : k < l =>
             at[k] # at[l] /\ Signal(best[at[k]]) >= Signal(best[at[l]])
  BY <1>1, StrongestFirstIs
<1> HIDE DEF list
<1>5. /\ \A i \in DOMAIN best : best[i].ssid # None /\ \E n \in DOMAIN rs : best[i] = rs[n]
      /\ \A i, j \in DOMAIN best : best[i].ssid = best[j].ssid => i = j
      /\ \A n \in DOMAIN rs : rs[n].ssid # None =>
           \E i \in DOMAIN best : best[i].ssid = rs[n].ssid /\ Signal(rs[n]) <= Signal(best[i])
  BY <1>1, <1>3, Zenon DEF BestOf
<1>6. \A k \in DOMAIN best : at[k] \in DOMAIN best
  BY <1>4
<1>7. ASSUME NEW k \in DOMAIN list
      PROVE  list[k].ssid # None /\ \E n \in DOMAIN rs : list[k] = rs[n]
  <2>1. list[k] = best[at[k]] /\ at[k] \in DOMAIN best
    BY <1>3, <1>4, <1>6
  <2> QED
    BY <1>5, <2>1
<1>8. \A k, l \in DOMAIN list : k < l =>
        list[k].ssid # list[l].ssid /\ Signal(list[k]) >= Signal(list[l])
  <2> SUFFICES ASSUME NEW k \in DOMAIN best, NEW l \in DOMAIN best, k < l
               PROVE  list[k].ssid # list[l].ssid /\ Signal(list[k]) >= Signal(list[l])
    BY <1>3
  <2>1. /\ list[k] = best[at[k]] /\ list[l] = best[at[l]]
        /\ at[k] # at[l] /\ Signal(best[at[k]]) >= Signal(best[at[l]])
    BY <1>4
  <2> QED
    BY <1>5, <1>6, <2>1
<1>9. \A n \in DOMAIN rs : rs[n].ssid # None =>
        \E k \in DOMAIN list : list[k].ssid = rs[n].ssid /\ Signal(rs[n]) <= Signal(list[k])
  <2> SUFFICES ASSUME NEW n \in DOMAIN rs, rs[n].ssid # None
               PROVE  \E k \in DOMAIN best :
                        list[k].ssid = rs[n].ssid /\ Signal(rs[n]) <= Signal(list[k])
    BY <1>3
  <2>1. PICK i \in DOMAIN best : best[i].ssid = rs[n].ssid /\ Signal(rs[n]) <= Signal(best[i])
    BY <1>5
  <2>2. PICK k \in DOMAIN best : at[k] = i
    BY <1>4
  <2>3. list[k] = best[i]
    BY <1>4, <2>2
  <2> QED
    BY <2>1, <2>3
<1>10. DOMAIN list \subseteq Nat
  BY <1>1, <1>3
<1> QED
  BY <1>2, <1>7, <1>8, <1>9, <1>10

-----------------------------------------------------------------------------
(* The reports.                                                            *)

LEMMA PlaceNext == PlaceInv /\ [Next]_vars => PlaceInv'
<1> SUFFICES ASSUME PlaceInv, [Next]_vars PROVE PlaceInv'
  OBVIOUS
<1> USE DEF PlaceInv, Places, Scanning, Finding
<1>1. CASE Start
  BY <1>1 DEF Start, Goto, Acceptable
<1>2. ASSUME NEW table, NEW name, Guess(table, name)
      PROVE  pc' \in {"record", "discover"} /\ (pc' = "discover" => reply' = reply)
  <2>1. NoTarget \/ \E subnet : Discover(subnet, name)
    BY <1>2, Zenon DEF Guess
  <2> QED
    BY <2>1 DEF NoTarget, Discover, Ends, Goto
<1>3. CASE Addr \/ AddrFails \/ Route \/ RouteGet
  <2>1. /\ pc \in {"addr", "route", "route-get"} /\ UNCHANGED method
        /\ \/ NoTarget
           \/ \E subnet, name : Discover(subnet, name)
           \/ \E table, name : Guess(table, name)
           \/ pc' \in {"route", "route-get"} /\ reply' = reply
    BY <1>3, Zenon DEF Addr, AddrFails, Route, RouteGet, Goto
  <2> QED
    BY <1>2, <2>1 DEF NoTarget, Discover, Ends, Goto
<1>4. CASE Discovery \/ NoPortScan \/ PortScan
  BY <1>4 DEF Discovery, NoPortScan, PortScan, Ends, Goto
<1>5. CASE NetStatus
  BY <1>5 DEF NetStatus, Reads, ToolFails, Skips, StatusStep, StatusEnds, Ends
<1>6. CASE WifiScan \/ WifiScanFails
  BY <1>6 DEF WifiScan, WifiScanFails, Ends
<1>7. CASE Cancel \/ Returns \/ Over \/ UNCHANGED vars
  BY <1>7 DEF Cancel, Returns, Over, vars
<1> QED
  BY <1>1, <1>3, <1>4, <1>5, <1>6, <1>7 DEF Next, ScanNetwork

LEMMA PlaceInvariant == Spec => []PlaceInv
<1>1. Init => PlaceInv
  BY DEF Init, PlaceInv, Places, Scanning, Finding
<1> QED
  BY <1>1, PlaceNext, PTL DEF Spec

\* The steps of a scan find no wifi networks, and read no tool of a status.
LEMMA ScanSteps ==
  ASSUME PlaceInv, Start \/ ScanNetwork
  PROVE  /\ UNCHANGED <<method, net, si, read, rows, networks>>
         /\ reply' = "ok" => method = "scan_network"
         /\ method = "net_status" => UNCHANGED errors
<1>1. CASE Start
  BY <1>1 DEF Start, PlaceInv, status, wifi, world
<1>2. CASE ScanNetwork
  <2>1. pc \in Scanning
    BY <1>2 DEF ScanNetwork, Addr, AddrFails, Route, RouteGet, Discovery, NoPortScan, PortScan,
      Scanning, Finding
  <2>2. UNCHANGED <<method, status, wifi, world>>
    BY <1>2 DEF ScanNetwork, Addr, AddrFails, Route, RouteGet, Discovery, NoPortScan, PortScan
  <2> QED
    BY <2>1, <2>2 DEF PlaceInv, status, wifi, world
<1> QED
  BY <1>1, <1>2

LEMMA WifiNext == PlaceInv /\ WifiInv /\ [Next]_vars => WifiInv'
<1> SUFFICES ASSUME PlaceInv, WifiInv, [Next]_vars PROVE WifiInv'
  OBVIOUS
<1> USE DEF WifiInv
<1>1. CASE Start \/ ScanNetwork
  BY <1>1, ScanSteps
<1>2. CASE NetStatus
  BY <1>2 DEF NetStatus, Reads, ToolFails, Skips, StatusStep, StatusEnds, PlaceInv
<1>3. CASE WifiScan
  BY <1>3 DEF WifiScan
<1>4. CASE WifiScanFails \/ Cancel \/ Returns \/ Over \/ UNCHANGED vars
  BY <1>4 DEF WifiScanFails, Cancel, Returns, Over, Ends, wifi, vars
<1> QED
  BY <1>1, <1>2, <1>3, <1>4 DEF Next

LEMMA WifiInvariant == Spec => []WifiInv
<1>1. Init => WifiInv
  BY DEF Init, WifiInv
<1> QED
  BY <1>1, PlaceInvariant, WifiNext, PTL DEF Spec

LEMMA ListIsOfStrongest ==
  ASSUME WifiInv
  PROVE  StrongestOfEachName
<1> SUFFICES ASSUME reply = "ok", method = "net_wifi_scan" PROVE StrongestOfEachName
  BY DEF StrongestOfEachName
<1>1. rows \in Seq(WifiRows) /\ networks = NmcliWifiList(rows)
  <2>1. rows \in WifiTables /\ networks = NmcliWifiList(rows)
    BY DEF WifiInv
  <2> QED
    BY <2>1, DiagAssumption, Zenon
<1>2. /\ DOMAIN networks \subseteq Nat
      /\ \A k \in DOMAIN networks :
           networks[k].ssid # None /\ \E n \in DOMAIN rows : networks[k] = rows[n]
      /\ \A k, l \in DOMAIN networks : k < l =>
           networks[k].ssid # networks[l].ssid /\ Signal(networks[k]) >= Signal(networks[l])
      /\ \A n \in DOMAIN rows : rows[n].ssid # None =>
           \E k \in DOMAIN networks :
             networks[k].ssid = rows[n].ssid /\ Signal(rows[n]) <= Signal(networks[k])
  BY <1>1, WifiListIs
<1>3. \A k \in DOMAIN networks : \A l \in DOMAIN networks :
        networks[k].ssid = networks[l].ssid => k = l
  BY <1>2
<1> QED
  BY <1>2, <1>3 DEF StrongestOfEachName

\* A wifi scan has each visible network once, with the signal of its strongest
\* access point, and the strongest first (parse.rs:118-143).
THEOREM WifiListsAreOfStrongest == Spec => []StrongestOfEachName
  BY WifiInvariant, ListIsOfStrongest, PTL

-----------------------------------------------------------------------------
(* net_status: its tools.                                                  *)

LEMMA ToolsAre ==
  /\ Len(StatusTools) = 15 /\ DOMAIN StatusTools = 1..15
  /\ StatusTools[1] = "dev" /\ StatusTools[2] = "con" /\ StatusTools[3] = "addr"
  /\ StatusTools[4] = "route" /\ StatusTools[5] = "resolvectl" /\ StatusTools[6] = "resolv-conf"
  /\ StatusTools[7] = "wifi" /\ StatusTools[8] = "modems" /\ StatusTools[9] = "modem"
  /\ StatusTools[10] = "bearer" /\ StatusTools[11] = "route-get"
  /\ StatusTools[12] = "gateway-ping" /\ StatusTools[13] = "internet-ping"
  /\ StatusTools[14] = "dns-resolve" /\ StatusTools[15] = "https"
  BY DEF StatusTools

\* No tool comes twice, so one that is read was not read before.
LEMMA ToolsDiffer ==
  ASSUME NEW i \in DOMAIN StatusTools, NEW j \in DOMAIN StatusTools, StatusTools[i] = StatusTools[j]
  PROVE  i = j
<1> DEFINE Nth(t) ==
      IF t = "dev" THEN 1 ELSE IF t = "con" THEN 2 ELSE IF t = "addr" THEN 3 ELSE
      IF t = "route" THEN 4 ELSE IF t = "resolvectl" THEN 5 ELSE
      IF t = "resolv-conf" THEN 6 ELSE IF t = "wifi" THEN 7 ELSE IF t = "modems" THEN 8 ELSE
      IF t = "modem" THEN 9 ELSE IF t = "bearer" THEN 10 ELSE
      IF t = "route-get" THEN 11 ELSE IF t = "gateway-ping" THEN 12 ELSE
      IF t = "internet-ping" THEN 13 ELSE IF t = "dns-resolve" THEN 14 ELSE
      IF t = "https" THEN 15 ELSE 0
<1>1. ASSUME NEW n \in DOMAIN StatusTools PROVE Nth(StatusTools[n]) = n
  <2>1. n \in {1, 2, 3, 4, 5, 6, 7, 8, 9, 10, 11, 12, 13, 14, 15}
    BY ToolsAre
  <2> QED
    BY <2>1, ToolsAre
<1> HIDE DEF Nth
<1> QED
  BY <1>1

\* A step of net_status that is not its last.
LEMMA ToolStep ==
  ASSUME Reads \/ ToolFails \/ Skips
  PROVE  /\ pc = "status" /\ pc' = pc /\ si <= Len(StatusTools) /\ si' = si + 1
         /\ UNCHANGED <<method, cancelled, reply, net>>
         /\ \/ Needed /\ read' = read \cup {tool} /\ errors' = errors
            \/ Needed /\ read' = read /\ errors' = errors \cup ({tool} \ Unnoted)
            \/ ~Needed /\ read' = read /\ errors' = errors \cup ({tool} \cap {"gateway-ping"})
  BY DEF Reads, ToolFails, Skips, StatusStep, NextTool, world

\* A tool that is not missed before a step is not missed after it.
LEMMA StaysUnmissed ==
  ASSUME NEW i \in DOMAIN StatusTools, i < si, si \in DOMAIN StatusTools,
         read' \in {read, read \cup {tool}}, net' = net, Unmissed(StatusTools[i])
  PROVE  Unmissed(StatusTools[i])'
<1> DEFINE t == StatusTools[i]
<1>1. t = "wifi" => i = 7
  BY ToolsAre, ToolsDiffer
<1>2. t = "modem" => i = 9
  BY ToolsAre, ToolsDiffer
<1>3. tool = "dev" => si = 1
  BY ToolsAre, ToolsDiffer DEF tool
<1>4. tool = "modems" => si = 8
  BY ToolsAre, ToolsDiffer DEF tool
<1>5. read \subseteq read' /\ read' \subseteq read \cup {tool}
  OBVIOUS
<1>6. resolved' = resolved
  BY DEF resolved
<1>7. Resolved => Resolved'
  BY <1>5, <1>6 DEF Resolved
<1>8. i \in Nat /\ si \in Nat
  BY ToolsAre
<1> QED
  BY <1>1, <1>2, <1>3, <1>4, <1>5, <1>7, <1>8 DEF Unmissed

\* A tool that a step passes is read, told of, or not missed.
LEMMA PassedTool ==
  ASSUME NEW t, t = tool, Reads \/ ToolFails \/ Skips
  PROVE  t \in read' \cup errors' \/ Unmissed(t)'
<1>1. CASE Needed
  BY <1>1, ToolStep DEF Unmissed
<1>2. CASE ~Needed
  <2>1. read' = read /\ net' = net /\ resolved' = resolved /\ (Resolved => Resolved')
    BY <1>2, ToolStep DEF resolved, Resolved
  <2>2. CASE t = "gateway-ping"
    BY <1>2, <2>2, ToolStep
  <2>3. CASE t = "resolv-conf"
    BY <1>2, <2>1, <2>3 DEF Needed, NoServersYet, Unmissed
  <2>4. CASE t = "wifi"
    BY <1>2, <2>1, <2>4 DEF Needed, Unmissed
  <2>5. CASE t = "modem"
    BY <1>2, <2>1, <2>5 DEF Needed, Unmissed
  <2>6. CASE t \notin {"gateway-ping", "resolv-conf", "wifi", "modem"}
    BY <1>2, <2>6 DEF Needed, Unmissed, Unnoted
  <2> QED
    BY <2>2, <2>3, <2>4, <2>5, <2>6
<1> QED
  BY <1>1, <1>2

LEMMA StatusNext == PlaceInv /\ StatusInv /\ [Next]_vars => StatusInv'
<1> SUFFICES ASSUME PlaceInv, StatusInv, [Next]_vars, method' = "net_status"
             PROVE  StatusInv'
  BY DEF StatusInv
<1>0. Len(StatusTools) = 15 /\ DOMAIN StatusTools = 1..15
  BY ToolsAre
<1>1. CASE Start \/ ScanNetwork
  <2>1. UNCHANGED <<method, net, si, read, errors>> /\ reply' # "ok"
    BY <1>1, ScanSteps
  <2>2. UNCHANGED <<resolved, Resolved, Gateway>> /\ \A t : Unmissed(t)' = Unmissed(t)
    BY <2>1 DEF resolved, Resolved, Gateway, Unmissed
  <2> QED
    BY <2>1, <2>2 DEF StatusInv
<1>2. CASE Reads \/ ToolFails \/ Skips
  <2>1. /\ si \in 1..15 /\ si' = si + 1 /\ net \in Networks /\ net' = net
        /\ read \subseteq read' /\ read' \in {read, read \cup {tool}} /\ errors \subseteq errors'
        /\ reply' = "none" /\ method = "net_status"
    BY <1>0, <1>2, ToolStep DEF StatusInv, PlaceInv
  <2>2. si' \in 1..Len(StatusTools) + 1
    BY <1>0, <2>1
  <2>3. ASSUME NEW i \in DOMAIN StatusTools, StatusTools[i] \in read'
        PROVE  i < si'
    <3>1. CASE StatusTools[i] \in read
      BY <1>0, <2>1, <3>1 DEF StatusInv
    <3>2. CASE StatusTools[i] = tool
      BY <1>0, <2>1, <3>2, ToolsDiffer DEF tool
    <3> QED
      BY <2>1, <2>3, <3>1, <3>2
  <2>4. ASSUME NEW i \in DOMAIN StatusTools, i < si'
        PROVE  StatusTools[i] \in read' \cup errors' \/ Unmissed(StatusTools[i])'
    <3>1. CASE i = si
      BY <1>2, <3>1, PassedTool DEF tool
    <3>2. CASE i # si
      <4>1. i < si
        BY <1>0, <2>1, <2>4, <3>2
      <4>2. StatusTools[i] \in read \cup errors \/ Unmissed(StatusTools[i])
        BY <2>1, <4>1 DEF StatusInv
      <4>3. Unmissed(StatusTools[i]) => Unmissed(StatusTools[i])'
        BY <1>0, <2>1, <4>1, StaysUnmissed
      <4> QED
        BY <2>1, <4>2, <4>3
    <3> QED
      BY <3>1, <3>2
  <2>5. ("gateway-ping" \in read => Gateway)'
    <3>1. Gateway => Gateway'
      BY <2>1 DEF Gateway
    <3>2. CASE "gateway-ping" \in read
      BY <2>1, <3>1, <3>2 DEF StatusInv
    <3>3. CASE "gateway-ping" \notin read /\ "gateway-ping" \in read'
      <4>1. tool = "gateway-ping" /\ Needed
        BY <1>2, <3>3, ToolStep
      <4> QED
        BY <3>1, <4>1 DEF Needed
    <3> QED
      BY <3>2, <3>3
  <2> QED
    BY <2>1, <2>2, <2>3, <2>4, <2>5 DEF StatusInv
<1>3. CASE StatusEnds \/ WifiScan \/ WifiScanFails \/ Cancel \/ Returns \/ UNCHANGED vars
  <2>1. UNCHANGED <<method, net, si, read, errors>>
    BY <1>3 DEF StatusEnds, WifiScan, WifiScanFails, Cancel, Returns, vars, status, world
  <2>2. UNCHANGED <<resolved, Resolved, Gateway>> /\ \A t : Unmissed(t)' = Unmissed(t)
    BY <2>1 DEF resolved, Resolved, Gateway, Unmissed
  <2>3. reply' = "ok" => reply = "ok" \/ si > Len(StatusTools)
    BY <1>3, <2>1 DEF StatusEnds, WifiScan, WifiScanFails, Cancel, Returns, Ends, vars, PlaceInv
  <2> QED
    BY <2>1, <2>2, <2>3 DEF StatusInv
<1> QED
  BY <1>1, <1>2, <1>3 DEF Next, NetStatus, Over

LEMMA StatusInvariant == Spec => []StatusInv
<1>1. Init => StatusInv
  <2> SUFFICES ASSUME Init, method = "net_status" PROVE StatusInv
    BY DEF StatusInv
  <2>1. net \in Networks /\ si = 1 /\ read = {} /\ reply = "none"
    BY DEF Init
  <2>2. Len(StatusTools) = 15 /\ DOMAIN StatusTools = 1..15
    BY ToolsAre
  <2>3. ~(\E i \in 1..15 : i < 1)
    OBVIOUS
  <2> QED
    BY <2>1, <2>2, <2>3 DEF StatusInv
<1> QED
  BY <1>1, PlaceInvariant, StatusNext, PTL DEF Spec
-----------------------------------------------------------------------------
(* net_status: resolvectl's output is read as it was printed.              *)

R == INSTANCE FoldLaws WITH Op <- DnsLine
V == INSTANCE FoldLaws WITH Op <- AddNew
L == INSTANCE FoldLaws WITH Op <- Behind

Values == Servers \cup {"lan"}
OnceEach == {s \in Seq(Values) : V!NoneTwice(s)}
ReadLinks == [name : Interfaces, servers : OnceEach]
ReadStates ==
  {d \in [section : Nat, in_servers : BOOLEAN, global : OnceEach, links : Seq(ReadLinks)] :
     d.section <= Len(d.links)}
Lines ==
  {l \in [kind : {"global", "link", "key", "values", "blank"},
          name : Interfaces \cup {None, "servers", "domain"}, values : Seq(Values)] :
     l.kind = "link" => l.name \in Interfaces}

LEMMA AddingIs ==
  ASSUME NEW s \in OnceEach, NEW values \in Seq(Values)
  PROVE  /\ Adding(s, values) \in OnceEach
         /\ Adding(s, <<>>) = s
         /\ \A x \in Values : x \notin V!Elements(s) => Adding(s, <<x>>) = Append(s, x)
<1>1. \A v : Adding(s, v) = V!Fold(s, v)
  BY DEF Adding, V!Fold, V!FoldLeft, V!MapThenFoldSet, V!Max, FoldLeft, MapThenFoldSet, Max, AddNew
<1>2. V!AppendsNew(Values)
  BY DEF V!AppendsNew, V!Elements, AddNew, Contains
<1>3. \A a \in Seq(Values), b \in Values : AddNew(a, b) \in Seq(Values)
  BY V!AppendElements DEF AddNew
<1>4. s \in Seq(Values) /\ V!NoneTwice(s)
  BY DEF OnceEach
<1>5. Adding(s, values) \in OnceEach
  BY <1>1, <1>2, <1>4, V!FoldOnce DEF OnceEach
<1>6. "lan" \in Values
  BY DEF Values
<1>7. \A x \in Values : V!Fold(s, <<>>) = s /\ V!Fold(s, <<x>>) = AddNew(s, x)
  BY <1>3, <1>4, V!FoldFew
<1>8. \A x \in Values : x \notin V!Elements(s) => AddNew(s, x) = Append(s, x)
  BY <1>2, <1>4 DEF V!AppendsNew
<1> QED
  BY <1>1, <1>5, <1>6, <1>7, <1>8

LEMMA AddServersTypes ==
  ASSUME NEW d \in ReadStates, NEW values \in Seq(Values)
  PROVE  AddServers(d, values) \in ReadStates
<1>1. CASE d.section = 0
  BY <1>1, AddingIs DEF AddServers, ReadStates
<1>2. CASE d.section # 0
  <2>1. d.section \in 1..Len(d.links) /\ d.links \in Seq(ReadLinks)
    BY <1>2 DEF ReadStates
  <2>2. d.links[d.section] \in ReadLinks
    BY <2>1
  <2>3. Adding(d.links[d.section].servers, values) \in OnceEach
    BY <2>2, AddingIs DEF ReadLinks
  <2> DEFINE link == [d.links[d.section] EXCEPT !.servers = Adding(@, values)]
  <2>4. link \in ReadLinks
    BY <2>2, <2>3 DEF ReadLinks
  <2>5. AddServers(d, values) = [d EXCEPT !.links = [d.links EXCEPT ![d.section] = link]]
    BY <1>2 DEF AddServers
  <2>6. [d.links EXCEPT ![d.section] = link] \in Seq(ReadLinks)
        /\ Len([d.links EXCEPT ![d.section] = link]) = Len(d.links)
    <3> HIDE DEF link
    <3> QED
      BY <2>1, <2>4
  <2> HIDE DEF link
  <2> QED
    BY <2>5, <2>6 DEF ReadStates
<1> QED
  BY <1>1, <1>2

LEMMA DnsLineTypes ==
  ASSUME NEW d \in ReadStates, NEW l \in Lines
  PROVE  DnsLine(d, l) \in ReadStates
<1>1. l.values \in Seq(Values)
  BY DEF Lines
<1>2. CASE l.kind = "blank"
  BY <1>2 DEF DnsLine, ReadStates
<1>3. CASE l.kind = "global"
  <2>1. d.links \in Seq(ReadLinks)
    BY DEF ReadStates
  <2>2. 0 <= Len(d.links)
    BY <2>1
  <2>3. DnsLine(d, l) = [d EXCEPT !.section = 0, !.in_servers = FALSE]
    BY <1>3 DEF DnsLine
  <2>4. DnsLine(d, l) = [section |-> 0, in_servers |-> FALSE, global |-> d.global,
                         links |-> d.links]
    BY <2>3 DEF ReadStates
  <2>5. d.global \in OnceEach
    BY DEF ReadStates
  <2> QED
    BY <2>1, <2>2, <2>4, <2>5 DEF ReadStates
<1>4. CASE l.kind = "link"
  <2>1. /\ d.links \in Seq(ReadLinks) /\ Len(d.links) \in Nat
        /\ d.in_servers \in BOOLEAN /\ d.global \in OnceEach /\ d.section \in Nat
    BY DEF ReadStates
  <2>2. <<>> \in OnceEach
    BY DEF OnceEach, V!NoneTwice
  <2>3. [name |-> l.name, servers |-> <<>>] \in ReadLinks
    BY <1>4, <2>2 DEF Lines, ReadLinks
  <2> DEFINE more == Append(d.links, [name |-> l.name, servers |-> <<>>])
  <2>4. more \in Seq(ReadLinks) /\ Len(more) = Len(d.links) + 1
    BY <2>1, <2>3
  <2>5. DnsLine(d, l) = [d EXCEPT !.section = Len(d.links) + 1, !.in_servers = FALSE, !.links = more]
    BY <1>4 DEF DnsLine
  <2> HIDE DEF more
  <2>6. DnsLine(d, l) = [section |-> Len(d.links) + 1, in_servers |-> FALSE,
                         global |-> d.global, links |-> more]
    BY <2>5 DEF ReadStates
  <2>7. Len(d.links) + 1 \in Nat
    BY <2>1
  <2> QED
    BY <2>1, <2>4, <2>6, <2>7 DEF ReadStates
<1>5. CASE l.kind = "values"
  BY <1>1, <1>5, AddServersTypes DEF DnsLine
<1>6. CASE l.kind = "key" /\ l.name # "servers"
  BY <1>6 DEF DnsLine, ReadStates
<1>7. CASE l.kind = "key" /\ l.name = "servers"
  <2>1. [d EXCEPT !.in_servers = TRUE] \in ReadStates
    BY DEF ReadStates
  <2> QED
    BY <1>1, <1>7, <2>1, AddServersTypes DEF DnsLine
<1> QED
  BY <1>2, <1>3, <1>4, <1>5, <1>6, <1>7 DEF Lines

\* The state with other servers in its section.
With(d, servers, in) ==
  [section |-> d.section, in_servers |-> in,
   global |-> IF d.section = 0 THEN servers ELSE d.global,
   links |-> IF d.section = 0 THEN d.links
             ELSE [d.links EXCEPT ![d.section] =
                     [name |-> d.links[d.section].name, servers |-> servers]]]

LEMMA WithTypes ==
  ASSUME NEW d \in ReadStates, NEW s \in OnceEach, NEW in \in BOOLEAN
  PROVE  With(d, s, in) \in ReadStates
<1>1. /\ d.links \in Seq(ReadLinks) /\ d.global \in OnceEach /\ d.section \in Nat
      /\ d.section <= Len(d.links)
  BY DEF ReadStates
<1>2. CASE d.section = 0
  BY <1>1, <1>2 DEF ReadStates, With
<1>3. CASE d.section # 0
  <2> DEFINE link == [name |-> d.links[d.section].name, servers |-> s]
             changed == [d.links EXCEPT ![d.section] = link]
  <2>1. d.section \in 1..Len(d.links)
    BY <1>1, <1>3
  <2>2. d.links[d.section] \in ReadLinks
    BY <1>1, <2>1
  <2>3. link \in ReadLinks
    BY <2>2 DEF ReadLinks
  <2>4. changed \in Seq(ReadLinks) /\ Len(changed) = Len(d.links)
    <3> HIDE DEF link
    <3> QED
      BY <1>1, <2>1, <2>3
  <2>5. With(d, s, in) = [section |-> d.section, in_servers |-> in, global |-> d.global,
                          links |-> changed]
    BY <1>3 DEF With
  <2> HIDE DEF changed
  <2> QED
    BY <1>1, <2>4, <2>5 DEF ReadStates
<1> QED
  BY <1>2, <1>3

LEMMA WithAdding ==
  ASSUME NEW d \in ReadStates, NEW s \in OnceEach, NEW in \in BOOLEAN, NEW values \in Seq(Values)
  PROVE  /\ AddServers(With(d, s, in), values) = With(d, Adding(s, values), in)
         /\ \A b \in BOOLEAN : [With(d, s, in) EXCEPT !.in_servers = b] = With(d, s, b)
<1>1. \A b \in BOOLEAN : [With(d, s, in) EXCEPT !.in_servers = b] = With(d, s, b)
  BY DEF With
<1>2. CASE d.section = 0
  BY <1>1, <1>2 DEF With, AddServers
<1>3. CASE d.section # 0
  <2>1. d.section \in 1..Len(d.links) /\ d.links \in Seq(ReadLinks)
    BY <1>3 DEF ReadStates
  <2> DEFINE Link(t) == [name |-> d.links[d.section].name, servers |-> t]
             Changed(t) == [d.links EXCEPT ![d.section] = Link(t)]
  <2>2. Changed(s)[d.section] = Link(s)
    BY <2>1
  <2>3. [Link(s) EXCEPT !.servers = Adding(@, values)] = Link(Adding(s, values))
    OBVIOUS
  <2>4. [Changed(s) EXCEPT ![d.section].servers = Adding(@, values)] = Changed(Adding(s, values))
    BY <2>1, <2>2, <2>3
  <2>5. With(d, s, in).links = Changed(s) /\ With(d, s, in).section = d.section
    BY <1>3 DEF With
  <2>6. AddServers(With(d, s, in), values)
          = [With(d, s, in) EXCEPT !.links = Changed(Adding(s, values))]
    BY <1>3, <2>4, <2>5 DEF AddServers
  <2> QED
    BY <1>1, <1>3, <2>6 DEF With
<1> QED
  BY <1>1, <1>2, <1>3

LEMMA SectionLines ==
  ASSUME NEW d \in ReadStates, NEW s \in OnceEach, NEW in \in BOOLEAN,
         NEW values \in Seq(Values)
  PROVE  /\ DnsLine(With(d, s, in), TheLine("key", "servers", values))
              = With(d, Adding(s, values), TRUE)
         /\ DnsLine(With(d, s, TRUE), TheLine("values", None, values))
              = With(d, Adding(s, values), TRUE)
         /\ DnsLine(With(d, s, in), TheLine("key", "domain", values)) = With(d, s, FALSE)
         /\ DnsLine(With(d, s, FALSE), TheLine("values", None, values)) = With(d, s, FALSE)
         /\ DnsLine(With(d, s, FALSE), TheLine("blank", None, values)) = With(d, s, FALSE)
<1>1. With(d, s, TRUE).in_servers = TRUE /\ With(d, s, FALSE).in_servers = FALSE
  BY DEF With
<1>2. /\ [With(d, s, in) EXCEPT !.in_servers = TRUE] = With(d, s, TRUE)
      /\ [With(d, s, in) EXCEPT !.in_servers = FALSE] = With(d, s, FALSE)
      /\ [With(d, s, FALSE) EXCEPT !.in_servers = FALSE] = With(d, s, FALSE)
      /\ AddServers(With(d, s, TRUE), values) = With(d, Adding(s, values), TRUE)
  BY WithAdding
<1>3. DnsLine(With(d, s, in), TheLine("key", "servers", values)) = With(d, Adding(s, values), TRUE)
  BY <1>2 DEF DnsLine, TheLine
<1>4. DnsLine(With(d, s, TRUE), TheLine("values", None, values)) = With(d, Adding(s, values), TRUE)
  BY <1>1, <1>2 DEF DnsLine, TheLine
<1>5. DnsLine(With(d, s, in), TheLine("key", "domain", values)) = With(d, s, FALSE)
  BY <1>2 DEF DnsLine, TheLine
<1>6. DnsLine(With(d, s, FALSE), TheLine("values", None, values)) = With(d, s, FALSE)
  BY <1>1 DEF DnsLine, TheLine
<1>7. DnsLine(With(d, s, FALSE), TheLine("blank", None, values)) = With(d, s, FALSE)
  BY <1>2 DEF DnsLine, TheLine
<1> QED
  BY <1>3, <1>4, <1>5, <1>6, <1>7

LEMMA LineTypes ==
  ASSUME NEW values \in Seq(Values)
  PROVE  /\ TheLine("global", None, values) \in Lines
         /\ TheLine("key", "servers", values) \in Lines /\ TheLine("key", "domain", values) \in Lines
         /\ TheLine("values", None, values) \in Lines /\ TheLine("blank", None, values) \in Lines
         /\ \A name \in Interfaces : TheLine("link", name, values) \in Lines
  BY DEF TheLine, Lines

LEMMA ReadChain ==
  ASSUME NEW d \in ReadStates, NEW lines \in Seq(Lines), NEW h, R!Chain(h, d, lines)
  PROVE  R!Fold(d, lines) = h[Len(lines)]
<1>1. \A x \in ReadStates, l \in Lines : DnsLine(x, l) \in ReadStates
  BY DnsLineTypes
<1> QED
  BY <1>1, R!FoldEnds

LEMMA ReadConcat ==
  ASSUME NEW d \in ReadStates, NEW lines \in Seq(Lines), NEW more \in Seq(Lines)
  PROVE  R!Fold(d, lines \o more) = R!Fold(R!Fold(d, lines), more)
<1>1. \A x \in ReadStates, l \in Lines : DnsLine(x, l) \in ReadStates
  BY DnsLineTypes
<1> QED
  BY <1>1, R!FoldConcat

LEMMA ReadFew ==
  ASSUME NEW d \in ReadStates, NEW line \in Lines
  PROVE  R!Fold(d, <<>>) = d /\ R!Fold(d, <<line>>) = DnsLine(d, line)
<1>1. \A x \in ReadStates, l \in Lines : DnsLine(x, l) \in ReadStates
  BY DnsLineTypes
<1> QED
  BY <1>1, R!FoldFew

\* The end of a section: nothing of it is a server.
SectionEnd ==
  <<TheLine("key", "domain", <<>>), TheLine("values", None, <<"lan">>), TheLine("blank", None, <<>>)>>

LEMMA EndRead ==
  ASSUME NEW d \in ReadStates, NEW s \in OnceEach, NEW in \in BOOLEAN
  PROVE  SectionEnd \in Seq(Lines) /\ R!Fold(With(d, s, in), SectionEnd) = With(d, s, FALSE)
<1> DEFINE h == [k \in 0..3 |-> IF k = 0 THEN With(d, s, in) ELSE With(d, s, FALSE)]
<1>1. <<>> \in Seq(Values) /\ <<"lan">> \in Seq(Values)
  BY DEF Values
<1>2. /\ Len(SectionEnd) = 3 /\ SectionEnd[1] = TheLine("key", "domain", <<>>)
      /\ SectionEnd[2] = TheLine("values", None, <<"lan">>)
      /\ SectionEnd[3] = TheLine("blank", None, <<>>)
  BY DEF SectionEnd
<1>3. SectionEnd \in Seq(Lines)
  <2>1. /\ TheLine("key", "domain", <<>>) \in Lines /\ TheLine("values", None, <<"lan">>) \in Lines
        /\ TheLine("blank", None, <<>>) \in Lines
    BY <1>1, LineTypes
  <2> QED
    BY <2>1 DEF SectionEnd
<1>4. /\ DnsLine(With(d, s, in), SectionEnd[1]) = With(d, s, FALSE)
      /\ DnsLine(With(d, s, FALSE), SectionEnd[2]) = With(d, s, FALSE)
      /\ DnsLine(With(d, s, FALSE), SectionEnd[3]) = With(d, s, FALSE)
  <2>1. \A v \in Seq(Values) :
          /\ DnsLine(With(d, s, in), TheLine("key", "domain", v)) = With(d, s, FALSE)
          /\ DnsLine(With(d, s, FALSE), TheLine("values", None, v)) = With(d, s, FALSE)
          /\ DnsLine(With(d, s, FALSE), TheLine("blank", None, v)) = With(d, s, FALSE)
    BY SectionLines, Zenon
  <2> QED
    BY <1>1, <1>2, <2>1, Zenon
<1>5. h[0] = With(d, s, in) /\ h[1] = With(d, s, FALSE) /\ h[2] = h[1] /\ h[3] = h[1]
  OBVIOUS
<1> HIDE DEF h
<1>6. R!Chain(h, With(d, s, in), SectionEnd)
  <2>1. ASSUME NEW k \in 1..3 PROVE h[k] = DnsLine(h[k - 1], SectionEnd[k])
    <3>1. \/ k = 1 /\ k - 1 = 0
          \/ k = 2 /\ k - 1 = 1
          \/ k = 3 /\ k - 1 = 2
      OBVIOUS
    <3> QED
      BY <1>4, <1>5, <3>1, Zenon
  <2> QED
    BY <1>2, <1>5, <2>1 DEF R!Chain
<1>7. R!Fold(With(d, s, in), SectionEnd) = h[Len(SectionEnd)]
  BY <1>3, <1>6, WithTypes, ReadChain
<1> QED
  BY <1>2, <1>3, <1>5, <1>7

\* Its beginning: the key, and the first server beside it or below it.
SectionStart(server, beside) ==
  IF beside THEN <<TheLine("key", "servers", <<server>>)>>
  ELSE <<TheLine("key", "servers", <<>>), TheLine("values", None, <<server>>)>>

LEMMA StartRead ==
  ASSUME NEW d \in ReadStates, d = With(d, <<>>, FALSE), NEW server \in Values,
         NEW beside \in BOOLEAN
  PROVE  /\ SectionStart(server, beside) \in Seq(Lines)
         /\ R!Fold(d, SectionStart(server, beside)) = With(d, <<server>>, TRUE)
<1>1. <<>> \in Seq(Values) /\ <<server>> \in Seq(Values) /\ <<>> \in OnceEach
  BY DEF OnceEach, V!NoneTwice
<1>2. Adding(<<>>, <<>>) = <<>> /\ Adding(<<>>, <<server>>) = <<server>>
  <2>1. server \notin V!Elements(<<>>) /\ Append(<<>>, server) = <<server>>
    BY DEF V!Elements
  <2> QED
    BY <1>1, <2>1, AddingIs
<1>3. /\ TheLine("key", "servers", <<server>>) \in Lines /\ TheLine("key", "servers", <<>>) \in Lines
      /\ TheLine("values", None, <<server>>) \in Lines
  BY <1>1, LineTypes
<1>4. /\ DnsLine(d, TheLine("key", "servers", <<server>>)) = With(d, <<server>>, TRUE)
      /\ DnsLine(d, TheLine("key", "servers", <<>>)) = With(d, <<>>, TRUE)
      /\ DnsLine(With(d, <<>>, TRUE), TheLine("values", None, <<server>>)) = With(d, <<server>>, TRUE)
  <2>1. \A v \in Seq(Values) :
          /\ DnsLine(With(d, <<>>, FALSE), TheLine("key", "servers", v)) = With(d, Adding(<<>>, v), TRUE)
          /\ DnsLine(With(d, <<>>, TRUE), TheLine("values", None, v)) = With(d, Adding(<<>>, v), TRUE)
    BY <1>1, SectionLines, Zenon
  <2> QED
    BY <1>1, <1>2, <2>1, Zenon
<1>5. CASE beside
  <2>1. SectionStart(server, beside) = <<TheLine("key", "servers", <<server>>)>>
    BY <1>5 DEF SectionStart
  <2>2. R!Fold(d, <<TheLine("key", "servers", <<server>>)>>) = With(d, <<server>>, TRUE)
    BY <1>3, <1>4, ReadFew, Zenon
  <2>3. <<TheLine("key", "servers", <<server>>)>> \in Seq(Lines)
    BY <1>3
  <2> QED
    BY <2>1, <2>2, <2>3, Zenon
<1>6. CASE ~beside
  <2> DEFINE h == [k \in 0..2 |-> IF k = 0 THEN d ELSE IF k = 1 THEN With(d, <<>>, TRUE)
                                 ELSE With(d, <<server>>, TRUE)]
             lines == <<TheLine("key", "servers", <<>>), TheLine("values", None, <<server>>)>>
  <2>1. /\ lines \in Seq(Lines) /\ Len(lines) = 2
        /\ lines[1] = TheLine("key", "servers", <<>>) /\ lines[2] = TheLine("values", None, <<server>>)
    BY <1>3
  <2>2. h[0] = d /\ h[1] = With(d, <<>>, TRUE) /\ h[2] = With(d, <<server>>, TRUE)
    OBVIOUS
  <2> HIDE DEF h
  <2>3. SectionStart(server, beside) = lines
    BY <1>6 DEF SectionStart
  <2> HIDE DEF lines
  <2>4. R!Chain(h, d, lines)
    <3>1. ASSUME NEW k \in 1..2 PROVE h[k] = DnsLine(h[k - 1], lines[k])
      <4>1. \/ k = 1 /\ k - 1 = 0
            \/ k = 2 /\ k - 1 = 1
        OBVIOUS
      <4> QED
        BY <1>4, <2>1, <2>2, <4>1, Zenon
    <3> QED
      BY <2>1, <2>2, <3>1 DEF R!Chain
  <2>5. R!Fold(d, lines) = h[Len(lines)]
    BY <2>1, <2>4, ReadChain
  <2> QED
    BY <2>1, <2>2, <2>3, <2>5
<1> QED
  BY <1>5, <1>6

LEMMA PrefixOnce ==
  ASSUME NEW s \in OnceEach, NEW k \in 0..Len(s)
  PROVE  /\ SubSeq(s, 1, k) \in OnceEach /\ Len(SubSeq(s, 1, k)) = k
         /\ \A i \in 1..k : SubSeq(s, 1, k)[i] = s[i]
<1>1. s \in Seq(Values) /\ Len(s) \in Nat /\ V!NoneTwice(s)
  BY DEF OnceEach
<1>2. /\ SubSeq(s, 1, k) \in Seq(Values) /\ Len(SubSeq(s, 1, k)) = k
      /\ \A i \in 1..k : SubSeq(s, 1, k)[i] = s[i]
  <2>1. k \in Nat /\ k <= Len(s) /\ \A i \in 1..k : i \in 1..Len(s)
    BY <1>1
  <2>2. \A i \in 1..Len(s) : s[i] \in Values
    BY <1>1
  <2> QED
    BY <1>1, <2>1, <2>2
<1>3. SubSeq(s, 1, k) \in OnceEach
  <2> DEFINE t == SubSeq(s, 1, k)
  <2>1. t \in Seq(Values) /\ Len(t) = k /\ \A i \in 1..k : t[i] = s[i] /\ i \in 1..Len(s)
    BY <1>1, <1>2
  <2> HIDE DEF t
  <2>2. V!NoneTwice(t)
    BY <1>1, <2>1 DEF V!NoneTwice
  <2>3. t \in OnceEach
    BY <2>1, <2>2 DEF OnceEach
  <2> QED
    BY <2>3 DEF t
<1> QED
  BY <1>2, <1>3

LEMMA NextPrefix ==
  ASSUME NEW s \in OnceEach, NEW k \in 0..Len(s), k < Len(s)
  PROVE  /\ s[k + 1] \in Values /\ s[k + 1] \notin V!Elements(SubSeq(s, 1, k))
         /\ SubSeq(s, 1, k + 1) = Append(SubSeq(s, 1, k), s[k + 1])
<1>1. s \in Seq(Values) /\ Len(s) \in Nat /\ V!NoneTwice(s)
  BY DEF OnceEach
<1>2. k + 1 \in 1..Len(s)
  BY <1>1
<1>3. s[k + 1] \in Values /\ SubSeq(s, 1, k + 1) = Append(SubSeq(s, 1, k), s[k + 1])
  BY <1>1, <1>2
<1>4. s[k + 1] \notin V!Elements(SubSeq(s, 1, k))
  BY <1>1, <1>2, PrefixOnce DEF V!Elements, V!NoneTwice
<1> QED
  BY <1>3, <1>4

\* Its other servers, one to a line.
SectionRest(s) == [i \in 1..Len(s) - 1 |-> TheLine("values", None, <<s[i + 1]>>)]

LEMMA RestRead ==
  ASSUME NEW d \in ReadStates, NEW s \in OnceEach, s # <<>>
  PROVE  /\ s[1] \in Values /\ <<s[1]>> \in OnceEach
         /\ SectionRest(s) \in Seq(Lines)
         /\ R!Fold(With(d, <<s[1]>>, TRUE), SectionRest(s)) = With(d, s, TRUE)
<1> DEFINE h == [k \in 0..Len(s) - 1 |-> With(d, SubSeq(s, 1, k + 1), TRUE)]
<1>1. s \in Seq(Values) /\ Len(s) \in Nat \ {0} /\ \A k \in 1..Len(s) : s[k] \in Values
  BY DEF OnceEach
<1>2. SubSeq(s, 1, 1) = <<s[1]>> /\ SubSeq(s, 1, Len(s)) = s /\ s[1] \in Values
  <2>1. 1 \in 1..Len(s)
    BY <1>1
  <2>2. SubSeq(s, 1, 1) = <<s[1]>>
    <3> DEFINE t == SubSeq(s, 1, 1)
               first == <<s[1]>>
    <3>1. 1 \in 0..Len(s)
      BY <1>1
    <3>2. t \in OnceEach /\ Len(t) = 1 /\ t[1] = s[1]
      BY <3>1, PrefixOnce
    <3>3. t \in Seq(Values)
      BY <3>2 DEF OnceEach
    <3>4. first \in Seq(Values) /\ Len(first) = 1 /\ first[1] = s[1]
      BY <1>1, <2>1
    <3> HIDE DEF t, first
    <3>5. t = first
      BY <3>2, <3>3, <3>4, SeqEqual
    <3> QED
      BY <3>5 DEF t, first
  <2>3. SubSeq(s, 1, Len(s)) = s
    BY <1>1, SubSeqFull
  <2> QED
    BY <1>1, <2>1, <2>2, <2>3
<1>3. <<s[1]>> \in OnceEach
  <2>1. 1 \in 0..Len(s)
    BY <1>1
  <2>2. SubSeq(s, 1, 1) \in OnceEach
    BY <2>1, PrefixOnce
  <2> QED
    BY <1>2, <2>2
<1>4. ASSUME NEW i \in 1..Len(s) - 1 PROVE SectionRest(s)[i] = TheLine("values", None, <<s[i + 1]>>)
                                          /\ SectionRest(s)[i] \in Lines
  <2>1. i + 1 \in 1..Len(s)
    BY <1>1
  <2>2. <<s[i + 1]>> \in Seq(Values)
    BY <1>1, <2>1
  <2>3. SectionRest(s)[i] = TheLine("values", None, <<s[i + 1]>>)
    BY DEF SectionRest
  <2> QED
    BY <2>2, <2>3, LineTypes
<1>5. SectionRest(s) \in Seq(Lines) /\ Len(SectionRest(s)) = Len(s) - 1
  <2>1. SectionRest(s) \in [1..Len(s) - 1 -> Lines]
    BY <1>4 DEF SectionRest
  <2> QED
    BY <1>1, <2>1
<1>6. h[0] = With(d, <<s[1]>>, TRUE) /\ h[Len(s) - 1] = With(d, s, TRUE)
  BY <1>1, <1>2
<1>7. ASSUME NEW k \in 1..Len(s) - 1 PROVE h[k] = DnsLine(h[k - 1], SectionRest(s)[k])
  <2>1. k \in 0..Len(s) /\ k < Len(s) /\ k + 1 \in 1..Len(s) /\ k - 1 \in 0..Len(s) - 1
        /\ k \in 0..Len(s) - 1 /\ (k - 1) + 1 = k
    BY <1>1
  <2> DEFINE t == SubSeq(s, 1, k)
             x == s[k + 1]
  <2>2. /\ t \in OnceEach /\ x \in Values /\ x \notin V!Elements(t)
        /\ SubSeq(s, 1, k + 1) = Append(t, x)
    BY <2>1, PrefixOnce, NextPrefix
  <2>3. <<x>> \in Seq(Values)
    BY <2>2
  <2>4. h[k - 1] = With(d, t, TRUE) /\ h[k] = With(d, Append(t, x), TRUE)
    BY <2>1, <2>2
  <2> HIDE DEF h, t
  <2>5. Adding(t, <<x>>) = Append(t, x)
    BY <2>2, <2>3, AddingIs
  <2>6. DnsLine(With(d, t, TRUE), TheLine("values", None, <<x>>)) = With(d, Adding(t, <<x>>), TRUE)
    <3>1. TRUE \in BOOLEAN
      OBVIOUS
    <3> QED
      BY <2>2, <2>3, <3>1, SectionLines, Zenon
  <2> QED
    BY <1>4, <2>4, <2>5, <2>6, Zenon
<1> HIDE DEF h
<1>8. R!Chain(h, With(d, <<s[1]>>, TRUE), SectionRest(s))
  BY <1>5, <1>6, <1>7 DEF R!Chain
<1>9. With(d, <<s[1]>>, TRUE) \in ReadStates
  BY <1>3, WithTypes
<1>10. R!Fold(With(d, <<s[1]>>, TRUE), SectionRest(s)) = h[Len(SectionRest(s))]
  BY <1>5, <1>8, <1>9, ReadChain
<1> QED
  BY <1>2, <1>3, <1>5, <1>6, <1>10

\* A section that is printed is read.
LEMMA SectionRead ==
  ASSUME NEW d \in ReadStates, d = With(d, <<>>, FALSE), NEW s \in ServerLists,
         NEW beside \in BOOLEAN
  PROVE  /\ s \in OnceEach /\ PrintedSection(s, beside) \in Seq(Lines)
         /\ R!Fold(d, PrintedSection(s, beside)) = With(d, s, FALSE)
<1>1. s \in OnceEach
  BY DEF ServerLists, OnceEach, Values, IsInjective, V!NoneTwice
<1>2. <<>> \in OnceEach /\ <<>> \in Seq(Lines)
  BY DEF OnceEach, V!NoneTwice
<1>3. CASE s = <<>>
  <2>1. SectionEnd \in Seq(Lines) /\ R!Fold(With(d, <<>>, FALSE), SectionEnd) = With(d, <<>>, FALSE)
    BY <1>2, EndRead, Zenon
  <2>2. PrintedSection(s, beside) = SectionEnd
    <3>1. PrintedSection(s, beside) = <<>> \o SectionEnd
      BY <1>3 DEF PrintedSection, SectionEnd
    <3> QED
      BY <2>1, <3>1
  <2> QED
    BY <1>1, <1>3, <2>1, <2>2, Zenon
<1>4. CASE s # <<>>
  <2> DEFINE start == SectionStart(s[1], beside)
             rest == SectionRest(s)
  <2>1. PrintedSection(s, beside) = (start \o rest) \o SectionEnd
    BY <1>4 DEF PrintedSection, SectionStart, SectionRest, SectionEnd
  <2>2. /\ s[1] \in Values /\ <<s[1]>> \in OnceEach /\ rest \in Seq(Lines)
        /\ R!Fold(With(d, <<s[1]>>, TRUE), rest) = With(d, s, TRUE)
    BY <1>1, <1>4, RestRead
  <2>3. start \in Seq(Lines) /\ R!Fold(d, start) = With(d, <<s[1]>>, TRUE)
    BY <2>2, StartRead, Zenon
  <2>4. SectionEnd \in Seq(Lines) /\ R!Fold(With(d, s, TRUE), SectionEnd) = With(d, s, FALSE)
    <3>1. TRUE \in BOOLEAN
      OBVIOUS
    <3> QED
      BY <1>1, <3>1, EndRead, Zenon
  <2> HIDE DEF start, rest
  <2>5. start \o rest \in Seq(Lines) /\ (start \o rest) \o SectionEnd \in Seq(Lines)
    BY <2>2, <2>3, <2>4
  <2>6. R!Fold(d, start \o rest) = With(d, s, TRUE)
    BY <2>2, <2>3, ReadConcat
  <2>7. R!Fold(d, (start \o rest) \o SectionEnd) = With(d, s, FALSE)
    BY <2>4, <2>5, <2>6, ReadConcat
  <2> QED
    BY <1>1, <2>1, <2>5, <2>7
<1> QED
  BY <1>3, <1>4

\* What has been read after the first k links.
After(dns, k) ==
  [section |-> k, in_servers |-> FALSE, global |-> dns.global, links |-> SubSeq(dns.links, 1, k)]

LEMMA TableTypes ==
  ASSUME NEW dns \in DnsTables
  PROVE  /\ dns.global \in ServerLists /\ dns.beside \in BOOLEAN
         /\ dns.links \in Seq(ReadLinks) /\ Len(dns.links) \in Nat
         /\ \A k \in 1..Len(dns.links) : /\ dns.links[k].servers \in ServerLists
                                         /\ dns.links[k].name \in Interfaces
                                         /\ dns.links[k] = [name |-> dns.links[k].name,
                                                            servers |-> dns.links[k].servers]
<1> DEFINE Rows == [name : Interfaces, servers : ServerLists]
<1>1. dns.global \in ServerLists /\ dns.beside \in BOOLEAN /\ dns.links \in Seq(Rows)
  BY DEF DnsTables
<1>2. ServerLists \subseteq OnceEach
  BY DEF ServerLists, OnceEach, Values, IsInjective, V!NoneTwice
<1>3. Rows \subseteq ReadLinks
  BY <1>2 DEF ReadLinks
<1>4. Len(dns.links) \in Nat /\ \A k \in 1..Len(dns.links) : dns.links[k] \in Rows
  <2> HIDE DEF Rows
  <2> QED
    BY <1>1
<1>5. dns.links \in Seq(ReadLinks)
  <2> HIDE DEF Rows
  <2> QED
    BY <1>1, <1>3, <1>4
<1> QED
  BY <1>1, <1>4, <1>5

LEMMA AfterTypes ==
  ASSUME NEW dns \in DnsTables, NEW k \in 0..Len(dns.links)
  PROVE  After(dns, k) \in ReadStates /\ Len(After(dns, k).links) = k
<1>1. dns.links \in Seq(ReadLinks) /\ Len(dns.links) \in Nat /\ dns.global \in OnceEach
  BY TableTypes DEF ServerLists, OnceEach, Values, IsInjective, V!NoneTwice
<1> DEFINE some == SubSeq(dns.links, 1, k)
<1>2. k \in Nat /\ some \in Seq(ReadLinks) /\ Len(some) = k
  <2>1. k \in Nat /\ \A i \in 1..k : i \in 1..Len(dns.links)
    BY <1>1
  <2> QED
    BY <1>1, <2>1
<1> HIDE DEF some
<1>3. After(dns, k) = [section |-> k, in_servers |-> FALSE, global |-> dns.global, links |-> some]
  BY DEF After, some
<1> QED
  BY <1>1, <1>2, <1>3 DEF ReadStates

\* The global section is read, then every link behind the links before it.
LEMMA GlobalRead ==
  ASSUME NEW dns \in DnsTables
  PROVE  LET head == <<TheLine("global", None, <<>>)>> \o PrintedSection(dns.global, dns.beside)
         IN  head \in Seq(Lines) /\ R!Fold(NoServers, head) = After(dns, 0)
<1> DEFINE line == TheLine("global", None, <<>>)
           section == PrintedSection(dns.global, dns.beside)
<1>0. <<>> \in Seq(Values) /\ <<>> \in OnceEach /\ <<>> \in Seq(ReadLinks) /\ Len(<<>>) = 0
  BY DEF OnceEach, V!NoneTwice
<1>1. NoServers \in ReadStates
  BY <1>0 DEF NoServers, ReadStates
<1>2. NoServers = With(NoServers, <<>>, FALSE)
  BY DEF NoServers, With
<1>3. line \in Lines
  BY <1>0, LineTypes
<1>4. DnsLine(NoServers, line) = NoServers
  BY DEF DnsLine, NoServers, TheLine
<1>5. section \in Seq(Lines) /\ R!Fold(NoServers, section) = With(NoServers, dns.global, FALSE)
  BY <1>1, <1>2, SectionRead, TableTypes
<1>6. With(NoServers, dns.global, FALSE) = After(dns, 0)
  <2>1. SubSeq(dns.links, 1, 0) = <<>>
    OBVIOUS
  <2> QED
    BY <2>1 DEF With, NoServers, After
<1> HIDE DEF line, section
<1>7. <<line>> \in Seq(Lines) /\ R!Fold(NoServers, <<line>>) = NoServers
  BY <1>1, <1>3, <1>4, ReadFew
<1>8. <<line>> \o section \in Seq(Lines)
  BY <1>5, <1>7
<1>9. R!Fold(NoServers, <<line>> \o section) = After(dns, 0)
  BY <1>1, <1>5, <1>6, <1>7, ReadConcat
<1> QED
  BY <1>8, <1>9 DEF line, section

LEMMA LinkRead ==
  ASSUME NEW dns \in DnsTables, NEW k \in 1..Len(dns.links)
  PROVE  /\ PrintedLink(dns.links[k], dns.beside) \in Seq(Lines)
         /\ R!Fold(After(dns, k - 1), PrintedLink(dns.links[k], dns.beside)) = After(dns, k)
<1> DEFINE link == dns.links[k]
           line == TheLine("link", link.name, <<>>)
           section == PrintedSection(link.servers, dns.beside)
           before == SubSeq(dns.links, 1, k - 1)
           bare == [name |-> link.name, servers |-> <<>>]
           d == [section |-> k, in_servers |-> FALSE, global |-> dns.global,
                 links |-> Append(before, bare)]
<1>0. <<>> \in Seq(Values)
  OBVIOUS
<1>1. /\ dns.links \in Seq(ReadLinks) /\ Len(dns.links) \in Nat
      /\ link.servers \in ServerLists /\ link.name \in Interfaces /\ dns.beside \in BOOLEAN
      /\ link = [name |-> link.name, servers |-> link.servers]
  BY TableTypes
<1>2. k - 1 \in 0..Len(dns.links) /\ k \in Nat \ {0} /\ (k - 1) + 1 = k
  BY <1>1
<1>3. line \in Lines
  BY <1>0, <1>1, LineTypes
<1>4. After(dns, k - 1) \in ReadStates /\ After(dns, k - 1).links = before /\ Len(before) = k - 1
  BY <1>2, AfterTypes DEF After
<1>5. DnsLine(After(dns, k - 1), line) = d
  <2> HIDE DEF before
  <2> QED
    BY <1>2, <1>4 DEF DnsLine, TheLine, After
<1>6. d \in ReadStates
  BY <1>3, <1>4, <1>5, DnsLineTypes
<1>7. /\ DOMAIN Append(before, bare) = 1..k /\ Append(before, bare)[k] = bare
      /\ [Append(before, bare) EXCEPT ![k] = bare] = Append(before, bare)
      /\ [Append(before, bare) EXCEPT ![k] = link] = Append(before, link)
  <2>1. before \in Seq(ReadLinks) /\ link \in ReadLinks /\ bare \in ReadLinks
    <3>1. <<>> \in OnceEach
      BY DEF OnceEach, V!NoneTwice
    <3>2. before \in Seq(ReadLinks)
      BY <1>4 DEF ReadStates
    <3> QED
      BY <1>1, <3>1, <3>2 DEF ReadLinks
  <2> HIDE DEF before, link, bare
  <2> DEFINE a == Append(before, bare)
             b == Append(before, link)
  <2>2. /\ a \in Seq(ReadLinks) /\ b \in Seq(ReadLinks) /\ Len(a) = k /\ Len(b) = k
        /\ a[k] = bare /\ b[k] = link /\ \A i \in 1..k : i # k => a[i] = b[i]
        /\ DOMAIN a = 1..k
    BY <1>2, <1>4, <2>1
  <2> HIDE DEF a, b
  <2>3. /\ [a EXCEPT ![k] = bare] \in Seq(ReadLinks) /\ Len([a EXCEPT ![k] = bare]) = k
        /\ [a EXCEPT ![k] = link] \in Seq(ReadLinks) /\ Len([a EXCEPT ![k] = link]) = k
        /\ \A i \in 1..k : [a EXCEPT ![k] = bare][i] = a[i] /\ [a EXCEPT ![k] = link][i] = b[i]
    BY <1>2, <2>1, <2>2
  <2>4. [a EXCEPT ![k] = bare] = a
    BY <2>2, <2>3, SeqEqual
  <2>5. [a EXCEPT ![k] = link] = b
    BY <2>2, <2>3, SeqEqual
  <2> QED
    BY <2>2, <2>4, <2>5 DEF a, b
<1>8. Append(before, link) = SubSeq(dns.links, 1, k)
  <2>1. SubSeq(dns.links, 1, k) = SubSeq(dns.links, 1, k - 1) \o <<dns.links[k]>>
    <3>1. 1 \in 1..Len(dns.links) /\ k \in 1..Len(dns.links)
      BY <1>1
    <3> QED
      BY <1>1, <3>1, SubSeqRecursiveSecond
  <2>2. before \in Seq(ReadLinks) /\ link \in ReadLinks
    BY <1>1, <1>4 DEF ReadStates
  <2>3. before \o <<link>> = Append(before, link)
    <3> HIDE DEF before, link
    <3> QED
      BY <2>2
  <2> QED
    BY <2>1, <2>3
<1>9. d = With(d, <<>>, FALSE)
  <2> HIDE DEF before, link
  <2> QED
    BY <1>2, <1>7 DEF With
<1>10. With(d, link.servers, FALSE) = After(dns, k)
  <2> DEFINE a == Append(before, bare)
  <2>1. d.section = k /\ d.global = dns.global /\ d.links = a /\ a[k].name = link.name
    BY <1>7
  <2>2. [a EXCEPT ![k] = link] = SubSeq(dns.links, 1, k)
    BY <1>7, <1>8
  <2> HIDE DEF a, d
  <2>3. [name |-> a[k].name, servers |-> link.servers] = link
    BY <1>1, <2>1, Zenon
  <2> HIDE DEF link
  <2>4. With(d, link.servers, FALSE)
          = [section |-> k, in_servers |-> FALSE, global |-> dns.global,
             links |-> [a EXCEPT ![k] = link]]
    BY <1>2, <2>1, <2>3 DEF With
  <2> QED
    BY <2>2, <2>4 DEF After
<1> HIDE DEF d
<1>11. section \in Seq(Lines) /\ R!Fold(d, section) = After(dns, k)
  BY <1>1, <1>6, <1>9, <1>10, SectionRead
<1> HIDE DEF line, section
<1>12. <<line>> \in Seq(Lines) /\ R!Fold(After(dns, k - 1), <<line>>) = d
  BY <1>3, <1>4, <1>5, ReadFew
<1>13. <<line>> \o section \in Seq(Lines)
  BY <1>11, <1>12
<1>14. R!Fold(After(dns, k - 1), <<line>> \o section) = After(dns, k)
  BY <1>4, <1>11, <1>12, ReadConcat
<1> QED
  BY <1>13, <1>14 DEF PrintedLink, line, section

LEMMA StatusRead ==
  ASSUME NEW dns \in DnsTables
  PROVE  ResolvectlStatus(Printed(dns)) = After(dns, Len(dns.links))
<1> DEFINE head == <<TheLine("global", None, <<>>)>> \o PrintedSection(dns.global, dns.beside)
           parts == [i \in DOMAIN dns.links |-> PrintedLink(dns.links[i], dns.beside)]
           Outputs == Seq(Lines)
           I == {p \in Nat \X Outputs : R!Fold(NoServers, p[2]) = After(dns, p[1])}
<1>1. \A lines : ResolvectlStatus(lines) = R!Fold(NoServers, lines)
  BY DEF ResolvectlStatus, R!Fold, R!FoldLeft, R!MapThenFoldSet, R!Max, FoldLeft,
         MapThenFoldSet, Max, DnsLine
<1>2. Printed(dns) = L!Fold(head, parts)
  BY DEF Printed, L!Fold, L!FoldLeft, L!MapThenFoldSet, L!Max, FoldLeft, MapThenFoldSet, Max, Behind
<1>3. Len(dns.links) \in Nat /\ DOMAIN dns.links = 1..Len(dns.links)
  BY TableTypes
<1>4. ASSUME NEW k \in 1..Len(dns.links)
      PROVE  parts[k] \in Outputs /\ R!Fold(After(dns, k - 1), parts[k]) = After(dns, k)
  BY <1>3, LinkRead
<1>5. parts \in Seq(Outputs) /\ Len(parts) = Len(dns.links)
  <2> HIDE DEF Outputs
  <2>1. parts \in [1..Len(dns.links) -> Outputs]
    BY <1>3, <1>4
  <2> HIDE DEF parts
  <2> QED
    BY <1>3, <2>1
<1>6. head \in Outputs /\ R!Fold(NoServers, head) = After(dns, 0)
  BY GlobalRead
<1>7. NoServers \in ReadStates
  <2>1. <<>> \in OnceEach /\ <<>> \in Seq(ReadLinks) /\ Len(<<>>) = 0
    BY DEF OnceEach, V!NoneTwice
  <2> QED
    BY <2>1 DEF NoServers, ReadStates
<1> HIDE DEF head, parts
<1>8. \A a \in Outputs, b \in Outputs : Behind(a, b) \in Outputs
  BY DEF Behind
<1>9. <<0, head>> \in I
  BY <1>6
<1>10. ASSUME NEW k \in 1..Len(parts), NEW a \in Outputs, <<k - 1, a>> \in I
       PROVE  <<k, Behind(a, parts[k])>> \in I
  <2>1. k \in 1..Len(dns.links) /\ k \in Nat
    BY <1>3, <1>5
  <2>2. parts[k] \in Outputs /\ R!Fold(NoServers, a) = After(dns, k - 1)
    BY <1>4, <1>10, <2>1
  <2>3. R!Fold(NoServers, a \o parts[k]) = R!Fold(After(dns, k - 1), parts[k])
    BY <1>7, <2>2, ReadConcat
  <2>4. R!Fold(NoServers, Behind(a, parts[k])) = After(dns, k)
    BY <1>4, <2>1, <2>3 DEF Behind
  <2>5. Behind(a, parts[k]) \in Outputs
    BY <1>8, <2>2
  <2> QED
    BY <2>1, <2>4, <2>5
<1> HIDE DEF I, Outputs
<1>11. /\ \A a \in Outputs, b \in Outputs : Behind(a, b) \in Outputs
       /\ head \in Outputs /\ parts \in Seq(Outputs) /\ <<0, head>> \in I
       /\ \A k \in 1..Len(parts), a \in Outputs :
             <<k - 1, a>> \in I => <<k, Behind(a, parts[k])>> \in I
  BY <1>5, <1>6, <1>8, <1>9, <1>10
<1>12. <<Len(parts), L!Fold(head, parts)>> \in I
  BY <1>11, L!FoldInvariant
<1> QED
  BY <1>1, <1>2, <1>5, <1>12 DEF I

LEMMA NothingMissed ==
  ASSUME StatusInv
  PROVE  StatusIsWhole
<1> SUFFICES ASSUME reply = "ok", method = "net_status", errors = {} PROVE StatusIsWhole
  BY DEF StatusIsWhole
<1>1. /\ net \in Networks
      /\ "gateway-ping" \in read => Gateway
      /\ \A i \in 1..15 : StatusTools[i] \in read \/ Unmissed(StatusTools[i])
  <2>1. si > 15 /\ si \in Nat /\ DOMAIN StatusTools = 1..15
    BY ToolsAre DEF StatusInv
  <2> QED
    BY <2>1 DEF StatusInv
<1>2. ASSUME NEW i \in 1..15, StatusTools[i] \notin {"resolvectl", "route-get", "bearer",
                                                   "resolv-conf", "wifi", "modem"}
      PROVE  StatusTools[i] \in read
  BY <1>1, <1>2 DEF Unmissed, Unnoted
<1>3. {"dev", "addr", "modems", "gateway-ping", "internet-ping", "dns-resolve", "https"} \subseteq read
  <2>1. /\ StatusTools[1] \in read /\ StatusTools[3] \in read /\ StatusTools[8] \in read
        /\ StatusTools[12] \in read /\ StatusTools[13] \in read /\ StatusTools[14] \in read
        /\ StatusTools[15] \in read
    BY <1>2, ToolsAre
  <2> QED
    BY <2>1, ToolsAre
<1>4. /\ "resolv-conf" \in read \/ Resolved
      /\ "wifi" \in read \/ ~("dev" \in read /\ net.wifi)
      /\ "modem" \in read \/ ~("modems" \in read /\ net.modem # "none")
  <2>1. \A i \in {6, 7, 9} : StatusTools[i] \in read \/ Unmissed(StatusTools[i])
    BY <1>1
  <2> QED
    BY <2>1, ToolsAre DEF Unmissed, Unnoted
<1>5. resolved.global = net.dns.global /\ resolved.links = net.dns.links
  <2>1. net \in [links : SUBSET Interfaces, managed : SUBSET Interfaces,
                wifi : BOOLEAN, dns : DnsTables, conf : BOOLEAN,
                modem : {"none", "apn", "bearer"}, route : {"none", "main", "policy"}]
    BY <1>1, DiagAssumption, Zenon
  <2>2. net.dns \in DnsTables
    BY <2>1
  <2>3. resolved = After(net.dns, Len(net.dns.links))
    BY <2>2, StatusRead DEF resolved
  <2>4. SubSeq(net.dns.links, 1, Len(net.dns.links)) = net.dns.links
    BY <2>2, TableTypes, SubSeqFull
  <2> QED
    BY <2>3, <2>4 DEF After
<1>6. Reported = net.links \cup net.managed
  BY <1>3 DEF Reported
<1>7. Gateway /\ Checks \subseteq read
  BY <1>1, <1>3 DEF Checks
<1>8. (net.modem # "none" => "modem" \in read) /\ (net.wifi => "wifi" \in read)
  <2>1. "dev" \in read /\ "modems" \in read
    BY <1>3
  <2> QED
    BY <1>4, <2>1, Zenon
<1> QED
  BY <1>4, <1>5, <1>6, <1>7, <1>8, Zenon DEF StatusIsWhole

\* "Whatever can't be read is an entry in errors" (diag.rs:249-250): a status
\* without errors has every interface, a nameserver if resolv.conf names one, the
\* modem, the wifi network, a gateway that answers, and the nameservers of every
\* link as resolvectl printed them, however many there are of each.
THEOREM StatusesAreWhole == Spec => []StatusIsWhole
  BY StatusInvariant, NothingMissed, PTL
=============================================================================
