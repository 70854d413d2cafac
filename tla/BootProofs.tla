------------------------------- MODULE BootProofs -------------------------------
(***************************************************************************)
(* From power-up to the radio, for every playlist and however often the    *)
(* access point lets the station go.                                       *)
(***************************************************************************)
EXTENDS Boot, SequenceTheorems, TLAPS

-----------------------------------------------------------------------------
(* The link                                                                *)

(* The station starts once, before anything else is reported.              *)
StartsOnce ==
  /\ mainpc = "start_wifi" => station = "off" /\ wifiEvents = <<>> /\ ~bit
  /\ \A i \in 1..Len(wifiEvents) : wifiEvents[i] = "STA_START" =>
       Len(wifiEvents) = 1 /\ station = "idle" /\ ~bit

(* What the handler will have made of the bit when it has caught up is     *)
(* decided by the last event.                                              *)
LastEventDecides ==
  /\ wifiEvents = <<>> => bit = (station = "address")
  /\ wifiEvents # <<>> /\ wifiEvents[Len(wifiEvents)] # "STA_START" =>
       (wifiEvents[Len(wifiEvents)] = "STA_GOT_IP") = (station = "address")

(* Nothing that lets app_main go on happens before there was an address.   *)
AddressFirst ==
  (\/ bit \/ wakes \/ mainpc \in {"load", "radio"}
   \/ \E i \in 1..Len(wifiEvents) : wifiEvents[i] = "STA_GOT_IP")
  => station = "address" \/ losses > 0

LinkInv == LinkTypeOK /\ StartsOnce /\ LastEventDecides /\ AddressFirst

LEMMA LinkInit == BootInit => LinkInv
<1> SUFFICES ASSUME BootInit PROVE LinkInv
  OBVIOUS
<1>1. /\ mainpc = "start_wifi" /\ wakes = FALSE /\ bit = FALSE
      /\ station = "off" /\ wifiEvents = <<>> /\ losses = 0
  BY DEF BootInit
<1>2. wifiEvents \in Seq({"STA_START", "STA_GOT_IP", "STA_DISCONNECTED"}) /\ Len(wifiEvents) = 0
  BY <1>1
<1>3. LinkTypeOK
  BY <1>1, <1>2 DEF LinkTypeOK
<1>4. StartsOnce
  BY <1>1, <1>2 DEF StartsOnce
<1>5. LastEventDecides
  BY <1>1 DEF LastEventDecides
<1>6. AddressFirst
  <2>1. ~ \E i \in 1..Len(wifiEvents) : wifiEvents[i] = "STA_GOT_IP"
    BY <1>2
  <2> QED BY <1>1, <2>1 DEF AddressFirst
<1> QED BY <1>3, <1>4, <1>5, <1>6 DEF LinkInv

(* What the handler does with one event.                                   *)
LEMMA NextEvent ==
  ASSUME LinkInv, wifiEvents # <<>>, wifiEvents' = Tail(wifiEvents)
  PROVE  /\ wifiEvents' \in Seq({"STA_START", "STA_GOT_IP", "STA_DISCONNECTED"})
         /\ Len(wifiEvents') = Len(wifiEvents) - 1 /\ Len(wifiEvents) \in Nat \ {0}
         /\ \A i \in 1..Len(wifiEvents') : wifiEvents'[i] = wifiEvents[i + 1]
         /\ Head(wifiEvents) = wifiEvents[1]
         /\ wifiEvents' = <<>> <=> Len(wifiEvents) = 1
  BY HeadTailProperties DEF LinkInv, LinkTypeOK

LEMMA HandlerLink ==
  ASSUME LinkInv, HandlerStep
  PROVE  LinkInv'
  <1>1. CASE Started
    <2>1. Len(wifiEvents) = 1 /\ station = "idle" /\ ~bit
      BY <1>1, NextEvent DEF Started, next, LinkInv, StartsOnce
    <2>2. wifiEvents' = <<>> /\ station' = "trying"
      BY <1>1, <2>1, NextEvent DEF Started, esp_wifi_connect
    <2> QED
      BY <1>1, <2>1, <2>2
      DEF Started, LinkInv, LinkTypeOK, StartsOnce, LastEventDecides, AddressFirst
  <1>2. CASE GotIp \/ Disconnected
    <2>1. wifiEvents # <<>> /\ wifiEvents' = Tail(wifiEvents)
      BY <1>2 DEF GotIp, Disconnected
    <2>2. /\ wifiEvents[1] \in {"STA_GOT_IP", "STA_DISCONNECTED"}
          /\ wifiEvents[1] = "STA_GOT_IP" <=> bit'
          /\ \A i \in 1..Len(wifiEvents) : wifiEvents[i] # "STA_START"
      BY <1>2, <2>1, NextEvent DEF GotIp, Disconnected, next, LinkInv, StartsOnce
    <2>3. /\ mainpc' = mainpc /\ losses' = losses
          /\ station' = station \/ (station = "idle" /\ station' = "trying")
          /\ wakes' = wakes \/ wifiEvents[1] = "STA_GOT_IP"
          /\ wakes' \in BOOLEAN
      BY <1>2, <2>1, NextEvent
      DEF GotIp, Disconnected, next, esp_wifi_connect, LinkInv, LinkTypeOK
    <2>4. LinkTypeOK'
      BY <1>2, <2>1, <2>3, NextEvent DEF GotIp, Disconnected, LinkInv, LinkTypeOK
    <2>5. StartsOnce'
      BY <2>1, <2>2, <2>3, NextEvent DEF LinkInv, StartsOnce
    <2>6. (wifiEvents[Len(wifiEvents)] = "STA_GOT_IP") = (station' = "address")
      <3>1. wifiEvents[Len(wifiEvents)] # "STA_START"
        BY <2>1, <2>2, NextEvent
      <3> QED BY <2>1, <2>3, <3>1 DEF LinkInv, LastEventDecides
    <2>7. LastEventDecides'
      <3>1. CASE wifiEvents' = <<>>
        BY <2>1, <2>2, <2>4, <2>6, <3>1, NextEvent DEF LinkTypeOK, LastEventDecides
      <3>2. CASE wifiEvents' # <<>>
        <4>1. wifiEvents'[Len(wifiEvents')] = wifiEvents[Len(wifiEvents)]
          BY <2>1, <3>2, NextEvent
        <4> QED BY <2>6, <3>2, <4>1 DEF LastEventDecides
      <3> QED BY <3>1, <3>2
    <2>8. AddressFirst'
      BY <2>1, <2>2, <2>3, NextEvent DEF LinkInv, LinkTypeOK, AddressFirst
    <2> QED BY <2>4, <2>5, <2>7, <2>8 DEF LinkInv
  <1> QED BY <1>1, <1>2 DEF HandlerStep

(* What the stack reports comes last.                                      *)
LEMMA ReportLink ==
  ASSUME LinkInv, GetsAddress \/ LosesLink
  PROVE  LinkInv'
  <1> DEFINE e == IF station' = "address" THEN "STA_GOT_IP" ELSE "STA_DISCONNECTED"
  <1>1. /\ wifiEvents' = Append(wifiEvents, e)
        /\ station \in {"trying", "associated", "address"}
        /\ station' = "address" \/ (station' = "idle" /\ losses' = losses + 1)
        /\ losses' \in {losses, losses + 1}
        /\ UNCHANGED <<mainpc, wakes, bit>>
    BY DEF GetsAddress, LosesLink
  <1>2. /\ wifiEvents' \in Seq({"STA_START", "STA_GOT_IP", "STA_DISCONNECTED"})
        /\ wifiEvents' # <<>> /\ Len(wifiEvents') = Len(wifiEvents) + 1
        /\ \A i \in 1..Len(wifiEvents) : wifiEvents'[i] = wifiEvents[i]
        /\ wifiEvents'[Len(wifiEvents')] = e /\ Len(wifiEvents) \in Nat
    <2>1. e \in {"STA_START", "STA_GOT_IP", "STA_DISCONNECTED"}
      OBVIOUS
    <2> QED BY <1>1, <2>1, AppendProperties DEF LinkInv, LinkTypeOK
  <1>3. \A i \in 1..Len(wifiEvents) : wifiEvents[i] # "STA_START"
    BY <1>1 DEF LinkInv, StartsOnce
  <1>4. LinkTypeOK' /\ StartsOnce'
    BY <1>1, <1>2, <1>3 DEF LinkInv, LinkTypeOK, StartsOnce
  <1>5. LastEventDecides'
    BY <1>1, <1>2 DEF LastEventDecides
  <1>6. AddressFirst'
    BY <1>1, <1>2 DEF LinkInv, LinkTypeOK, AddressFirst
  <1> QED BY <1>4, <1>5, <1>6 DEF LinkInv

LEMMA LinkNext == LinkInv /\ [BootNext]_bootVars => LinkInv'
<1> SUFFICES ASSUME LinkInv, [BootNext]_bootVars PROVE LinkInv'
  OBVIOUS
<1> USE DEF LinkInv, LinkTypeOK, StartsOnce, LastEventDecides, AddressFirst, wifiVars
<1>1. CASE initialise_wifi
  BY <1>1 DEF initialise_wifi
<1>2. CASE WaitLooks
  BY <1>2 DEF WaitLooks
<1>3. CASE WaitWakes
  BY <1>3 DEF WaitWakes
<1>4. CASE Loads
  BY <1>4 DEF Loads
<1>5. CASE StartsRadio
  BY <1>5 DEF StartsRadio
<1>6. CASE Moves
  BY <1>6 DEF Moves
<1>7. CASE HandlerStep
  BY <1>7, HandlerLink
<1>8. CASE Associates
  BY <1>8 DEF Associates
<1>9. CASE GetsAddress \/ LosesLink
  BY <1>9, ReportLink
<1>10. CASE UNCHANGED bootVars
  BY <1>10 DEF bootVars
<1> QED
  BY <1>1, <1>2, <1>3, <1>4, <1>5, <1>6, <1>7, <1>8, <1>9, <1>10
  DEF BootNext, MainStep, StackStep

(* However often the link goes and comes back, and however late the event  *)
(* handler of wifi.c is, the bit ends up saying whether there is an        *)
(* address; and the radio is never started before there was one.           *)
THEOREM BitIsRight == BootSpec => []BitFollowsLink
<1>1. LinkInv => BitFollowsLink
  BY DEF LinkInv, LastEventDecides, AddressFirst, BitFollowsLink
<1> QED BY <1>1, LinkInit, LinkNext, PTL DEF BootSpec

-----------------------------------------------------------------------------
(* The playlist                                                            *)

IsFor(i, key, n) == i \in Keyed /\ file[i].key = key /\ file[i].n = n

(* v is what the lines before upTo list for entry n: the last of them      *)
(* counts.                                                                 *)
Latest(key, n, v, upTo) ==
  \/ /\ v = Null
     /\ \A i \in Keyed : i < upTo => ~IsFor(i, key, n)
  \/ \E i \in Keyed :
       /\ i < upTo /\ IsFor(i, key, n) /\ v = <<file[i].val, TRUE>>
       /\ \A j \in Keyed : j < upTo /\ IsFor(j, key, n) => j <= i

(* The lines before upTo list entries up to n.                             *)
Largest(n, upTo) ==
  /\ n \in Nat
  /\ \A i \in Keyed : i < upTo => file[i].n <= n
  /\ n = 0 \/ \E i \in Keyed : i < upTo /\ file[i].n = n

(* Of a playlist that numbers its entries as it should.                    *)
Loaded ==
  /\ over = 0 /\ ~outside /\ ~crashed
  /\ Largest(Len(elems), line)
  /\ \A n \in 1..Len(elems) :
       Latest("title", n, elems[n].name, line) /\ Latest("file", n, elems[n].url, line)
  /\ ~loading => line = Len(file) + 1

CursorInside ==
  /\ loading => curr_pos = 0
  /\ elems # <<>> => curr_pos \in 0..(Len(elems) - 1)
  /\ curr_pos \in Int

ListInv == PlaylistTypeOK /\ (wellFormed => Loaded) /\ CursorInside

(* Facts about files.                                                      *)
LEMMA MaxIs ==
  ASSUME NEW S, S \subseteq Int, NEW m \in S, \A x \in S : x <= m
  PROVE  Max(S) = m
  <1>1. \A y \in S : m >= y
    OBVIOUS
  <1>2. Max(S) \in S /\ \A y \in S : Max(S) >= y
    BY <1>1 DEF Max
  <1>3. Max(S) \in Int /\ m \in Int /\ Max(S) >= m
    BY <1>2
  <1>4. Max(S) <= m
    BY <1>2
  <1> QED BY <1>3, <1>4

LEMMA LatestLater ==
  ASSUME NEW key, NEW n, NEW v, NEW L \in Nat,
         Latest(key, n, v, L), ~IsFor(L, key, n), Len(file) \in Nat
  PROVE  Latest(key, n, v, L + 1)
  <1>1. \A i \in Keyed : i < L + 1 /\ IsFor(i, key, n) => i < L
    BY DEF Keyed
  <1>2. \A i \in Keyed : i < L => i < L + 1
    BY DEF Keyed
  <1> QED BY <1>1, <1>2 DEF Latest

LEMMA LatestNow ==
  ASSUME NEW key, NEW n, NEW L \in Nat, IsFor(L, key, n), Len(file) \in Nat
  PROVE  Latest(key, n, <<file[L].val, TRUE>>, L + 1)
  <1>1. L \in Keyed /\ L < L + 1 /\ \A j \in Keyed : j < L + 1 => j <= L
    BY DEF Keyed, IsFor
  <1>2. \A j \in Keyed : j < L + 1 /\ IsFor(j, key, n) => j <= L
    BY <1>1
  <1>3. \E i \in Keyed :
          /\ i < L + 1 /\ IsFor(i, key, n) /\ <<file[L].val, TRUE>> = <<file[i].val, TRUE>>
          /\ \A j \in Keyed : j < L + 1 /\ IsFor(j, key, n) => j <= i
    BY <1>1, <1>2
  <1> QED BY <1>3 DEF Latest

LEMMA LatestNone ==
  ASSUME NEW key, NEW n \in Int, NEW L \in Nat, Len(file) \in Nat,
         \A i \in Keyed : file[i].n \in Int,
         \A i \in Keyed : i < L => file[i].n < n, ~IsFor(L, key, n)
  PROVE  Latest(key, n, Null, L + 1)
  <1>1. ASSUME NEW i \in Keyed, i < L + 1, IsFor(i, key, n) PROVE FALSE
    <2>1. i < L \/ i = L
      BY <1>1 DEF Keyed
    <2>2. file[i].n = n /\ i # L
      BY <1>1 DEF IsFor
    <2>3. file[i].n < n
      BY <2>1, <2>2
    <2> QED BY <2>2, <2>3
  <1> QED BY <1>1 DEF Latest

LEMMA LatestIsListed ==
  ASSUME NEW key, NEW n, NEW v, Len(file) \in Nat, Latest(key, n, v, Len(file) + 1)
  PROVE  v = listed(key, n)
  <1> DEFINE is == {i \in Keyed : file[i].key = key /\ file[i].n = n}
  <1>1. \A i \in Keyed : i \in Int /\ i < Len(file) + 1
    BY DEF Keyed
  <1>2. CASE is = {}
    BY <1>1, <1>2 DEF Latest, IsFor, listed
  <1>3. CASE is # {}
    <2>1. PICK i \in Keyed : /\ IsFor(i, key, n) /\ v = <<file[i].val, TRUE>>
                             /\ \A j \in Keyed : IsFor(j, key, n) => j <= i
      BY <1>1, <1>3 DEF Latest, IsFor
    <2>2. i \in is /\ is \subseteq Int /\ \A j \in is : j <= i
      BY <1>1, <2>1 DEF IsFor
    <2>3. Max(is) = i
      BY <2>2, MaxIs
    <2> QED BY <1>3, <2>1, <2>3 DEF listed
  <1> QED BY <1>2, <1>3

-----------------------------------------------------------------------------
(* One line more                                                           *)

LEMMA ReadsLineTyped ==
  ASSUME PlaylistTypeOK, ReadsLine
  PROVE  PlaylistTypeOK'
  <1> DEFINE Entry == [name : Value, url : Value]
             value == <<file[line].val, pieceLength = file[line].len>>
             Good == /\ elems' \in Seq(Entry) /\ crashed' \in BOOLEAN
                     /\ capacity' \in Nat \ {0, 1} /\ Len(elems') <= capacity'
  <1>1. /\ file' = file /\ file \in Files /\ Len(file) \in Nat
        /\ line \in 1..Len(file) /\ line' \in {line, line + 1}
        /\ loading' = loading /\ loading \in BOOLEAN /\ crashed = FALSE
        /\ elems \in Seq(Entry) /\ Len(elems) \in Nat
        /\ capacity \in Nat \ {0, 1} /\ Len(elems) <= capacity
        /\ file[line].n \in Int
    BY PlaylistAssumption DEF PlaylistTypeOK, ReadsLine, pls_ini_reader, fileVars
  <1>2. value \in Value /\ Null \in Value
    <2>1. (pieceLength = file[line].len) \in BOOLEAN
      OBVIOUS
    <2>2. ASSUME NEW whole \in BOOLEAN PROVE <<file[line].val, whole>> \in Value
      BY <1>1 DEF Value
    <2>3. value \in Value
      BY <2>1, <2>2, Zenon
    <2> QED BY <2>3 DEF Value
  <1>3. Good
    <2>1. CASE UNCHANGED <<vecVars, crashed>>
      BY <1>1, <2>1 DEF vecVars
    <2>2. ASSUME NEW key, pls_ini_handler(key, file[line].n, value)
          PROVE  Good
      <3>1. CASE isNew(file[line].n)
        <4> DEFINE e == [name |-> IF key = "title" THEN value ELSE Null,
                         url |-> IF key = "file" THEN value ELSE Null]
        <4>1. e \in Entry
          BY <1>2
        <4>2. /\ elems' = Append(elems, e) /\ crashed' = crashed
              /\ capacity' = IF Len(elems) = capacity THEN capacity + capacity \div 2
                                                     ELSE capacity
          BY <2>2, <3>1 DEF pls_ini_handler, vec_add
        <4>3. elems' \in Seq(Entry) /\ Len(elems') = Len(elems) + 1
          BY <1>1, <4>1, <4>2, AppendProperties
        <4>4. crashed' \in BOOLEAN
          BY <1>1, <4>2
        <4>5. capacity' \in Nat \ {0, 1} /\ Len(elems) + 1 <= capacity'
          BY <1>1, <4>2
        <4> QED BY <4>3, <4>4, <4>5
      <3>2. CASE ~isNew(file[line].n)
        <4>1. file[line].n \in 0..Len(elems)
          BY <1>1, <3>2 DEF isNew
        <4>2. capacity' = capacity /\ crashed' = (file[line].n = 0)
          BY <2>2, <3>2 DEF pls_ini_handler
        <4>3. CASE file[line].n = 0
          BY <1>1, <2>2, <3>2, <4>2, <4>3 DEF pls_ini_handler
        <4>4. CASE file[line].n # 0
          <5>1. elems[file[line].n] \in Entry
            <6>1. file[line].n \in 1..Len(elems)
              BY <1>1, <4>1, <4>4
            <6> QED BY <1>1, <6>1, ElementOfSeq
          <5>2. \/ elems' = [elems EXCEPT ![file[line].n].name = value]
                \/ elems' = [elems EXCEPT ![file[line].n].url = value]
            BY <2>2, <3>2, <4>4 DEF pls_ini_handler
          <5>3. PICK e \in Entry : elems' = [elems EXCEPT ![file[line].n] = e]
            BY <1>2, <5>1, <5>2
          <5> QED BY <1>1, <4>1, <4>2, <4>4, <5>3
        <4> QED BY <4>3, <4>4
      <3> QED BY <3>1, <3>2
    <2>3. \/ UNCHANGED <<vecVars, crashed>>
          \/ \E key : pls_ini_handler(key, file[line].n, value)
      BY DEF ReadsLine
    <2> HIDE DEF Good
    <2> QED BY <2>1, <2>2, <2>3
  <1>4. Value' = Value
    BY <1>1 DEF Value
  <1> QED BY <1>1, <1>3, <1>4 DEF PlaylistTypeOK

(* In a well-formed playlist a line names an entry there is, or the next.  *)
LEMMA NumbersAreNext ==
  ASSUME PlaylistTypeOK, wellFormed, Largest(Len(elems), line), line \in Keyed
  PROVE  file[line].n \in 1..(Len(elems) + 1)
  <1> DEFINE S == {0} \cup {file[j].n : j \in {k \in Keyed : k < line}}
  <1>1. Len(elems) \in Nat /\ \A i \in Keyed : file[i].n \in Int
    BY PlaylistAssumption DEF PlaylistTypeOK, Keyed
  <1>2. S \subseteq Int /\ Len(elems) \in S /\ \A x \in S : x <= Len(elems)
    BY <1>1 DEF Largest
  <1>3. Max(S) = Len(elems)
    <2> HIDE DEF S
    <2> QED BY <1>2, MaxIs
  <1>4. file[line].n \in 1..(1 + Max(S))
    BY DEF wellFormed
  <1> QED BY <1>1, <1>3, <1>4

(* Such a line is read in one piece.                                       *)
LEMMA ReadInOnePiece ==
  ASSUME PlaylistTypeOK, wellFormed, Loaded, ReadsLine
  PROVE  /\ line' = line + 1 /\ over' = 0 /\ ~outside'
         /\ pieceLength = file[line].len
  <1>1. /\ line \in 1..Len(file) /\ over = 0 /\ ~outside /\ LineMax \in Nat
        /\ file[line].len \in 1..(LineMax - 1)
    BY PlaylistAssumption DEF PlaylistTypeOK, ReadsLine, Loaded, wellFormed
  <1>2. rest = file[line].len /\ pieceLength = rest
    BY <1>1 DEF rest, pieceLength
  <1>3. pls_ini_reader /\ pieceLength # LineMax /\ pieceLength # 0
    BY <1>1, <1>2 DEF ReadsLine
  <1>4. line' = line + 1 /\ over' = 0
    BY <1>2, <1>3 DEF pls_ini_reader
  <1>5. ~outside'
    BY <1>1, <1>3, Zenon DEF pls_ini_reader
  <1> QED BY <1>2, <1>4, <1>5

LEMMA ReadsLineLoaded ==
  ASSUME PlaylistTypeOK, wellFormed, Loaded, ReadsLine
  PROVE  Loaded'
  <1> DEFINE num == file[line].n
             value == <<file[line].val, TRUE>>
             Known(n) == /\ Latest("title", n, elems'[n].name, line + 1)
                         /\ Latest("file", n, elems'[n].url, line + 1)
             Read == /\ Largest(Len(elems'), line + 1) /\ crashed' = FALSE
                     /\ \A n \in 1..Len(elems') : Known(n)
  <1>1. /\ file' = file /\ Len(file) \in Nat /\ line \in Nat \ {0} /\ line \in 1..Len(file)
        /\ line' = line + 1 /\ loading /\ loading' /\ crashed = FALSE
        /\ elems \in Seq([name : Value, url : Value]) /\ Len(elems) \in Nat
        /\ \A i \in Keyed : file[i].n \in Int
        /\ \A i \in Keyed : i \in Nat
        /\ file[line].key \in {"title", "file", "other"}
    BY PlaylistAssumption, ReadInOnePiece DEF PlaylistTypeOK, ReadsLine, fileVars, Keyed
  <1>2. /\ Largest(Len(elems), line)
        /\ \A n \in 1..Len(elems) : /\ Latest("title", n, elems[n].name, line)
                                    /\ Latest("file", n, elems[n].url, line)
    BY DEF Loaded
  <1>3. ASSUME file[line].key = "other" PROVE Read
    <2>1. line \notin Keyed /\ elems' = elems /\ crashed' = crashed
      BY <1>3 DEF Keyed, ReadsLine, vecVars
    <2>2. \A key, n : ~IsFor(line, key, n)
      BY <2>1 DEF IsFor
    <2>3. \A n \in 1..Len(elems') : Known(n)
      BY <1>1, <1>2, <2>1, <2>2, LatestLater
    <2>4. Largest(Len(elems'), line + 1)
      <3>1. \A i \in Keyed : i < line + 1 <=> i < line
        BY <1>1, <2>1
      <3> QED BY <1>2, <2>1, <3>1 DEF Largest
    <2> HIDE DEF Known
    <2> QED BY <1>1, <2>1, <2>3, <2>4
  <1>4. ASSUME file[line].key # "other" PROVE Read
    <2>1. /\ line \in Keyed /\ num \in 1..(Len(elems) + 1)
          /\ IsFor(line, file[line].key, num)
          /\ pls_ini_handler(file[line].key, num, value)
      <3>1. line \in Keyed
        BY <1>1, <1>4 DEF Keyed
      <3>2. <<file[line].val, pieceLength = file[line].len>> = value
        BY ReadInOnePiece
      <3>3. pls_ini_handler(file[line].key, num, value)
        <4>1. over = 0 /\ file[line].key \in {"title", "file"}
          BY <1>1, <1>4 DEF Loaded
        <4>2. pls_ini_handler(file[line].key, num,
                              <<file[line].val, pieceLength = file[line].len>>)
          BY <4>1 DEF ReadsLine
        <4> QED BY <3>2, <4>2
      <3> QED BY <1>2, <3>1, <3>3, NumbersAreNext DEF IsFor
    <2>2. \A i \in Keyed : i < line + 1 <=> i < line \/ i = line
      BY <1>1
    <2>3. \A key, n : (key # file[line].key \/ n # num) => ~IsFor(line, key, n)
      BY DEF IsFor
    <2>4. Latest(file[line].key, num, value, line + 1)
      BY <1>1, <2>1, LatestNow
    <2>5. CASE num = Len(elems) + 1
      <3> DEFINE e == [name |-> IF file[line].key = "title" THEN value ELSE Null,
                       url |-> IF file[line].key = "file" THEN value ELSE Null]
      <3>1. elems' = Append(elems, e) /\ crashed' = crashed
        BY <1>1, <2>1, <2>5 DEF pls_ini_handler, isNew, vec_add
      <3>2. /\ Len(elems') = Len(elems) + 1 /\ elems'[num] = e
            /\ \A n \in 1..Len(elems) : elems'[n] = elems[n]
        <4>1. e \in [name : Value, url : Value]
          <5>1. value \in Value /\ Null \in Value
            <6>1. ASSUME NEW whole \in BOOLEAN PROVE <<file[line].val, whole>> \in Value
              BY <1>1 DEF Value
            <6>2. value \in Value
              BY <6>1
            <6>3. Null \in Value
              BY DEF Value
            <6> QED BY <6>2, <6>3
          <5> HIDE DEF value
          <5> QED BY <5>1
        <4> QED BY <1>1, <2>5, <3>1, <4>1, AppendProperties
      <3>3. Largest(Len(elems'), line + 1)
        <4>1. \A i \in Keyed : i < line + 1 => file[i].n <= num
          BY <1>1, <1>2, <2>2, <2>5 DEF Largest
        <4>2. \E i \in Keyed : i < line + 1 /\ file[i].n = num
          BY <2>1, <2>2
        <4> QED BY <1>1, <2>5, <3>2, <4>1, <4>2 DEF Largest
      <3>4. ASSUME NEW n \in 1..Len(elems) PROVE Known(n)
        <4>1. ~IsFor(line, "title", n) /\ ~IsFor(line, "file", n)
          BY <1>1, <2>3, <2>5
        <4> QED BY <1>1, <1>2, <3>2, <4>1, LatestLater
      <3>5. Known(num)
        <4>1. \A i \in Keyed : i < line => file[i].n < num
          BY <1>1, <1>2, <2>5 DEF Largest
        <4>2. CASE file[line].key = "title"
          <5>1. Latest("file", num, Null, line + 1)
            BY <1>1, <2>1, <2>3, <4>1, <4>2, LatestNone
          <5> QED BY <2>4, <3>2, <4>2, <5>1
        <4>3. CASE file[line].key = "file"
          <5>1. Latest("title", num, Null, line + 1)
            BY <1>1, <2>1, <2>3, <4>1, <4>3, LatestNone
          <5> QED BY <2>4, <3>2, <4>3, <5>1
        <4> QED BY <1>1, <1>4, <4>2, <4>3
      <3>6. \A n \in 1..Len(elems') : Known(n)
        <4> HIDE DEF Known
        <4> QED BY <1>1, <2>5, <3>2, <3>4, <3>5
      <3> HIDE DEF Known
      <3> QED BY <1>1, <3>1, <3>3, <3>6
    <2>6. CASE num \in 1..Len(elems)
      <3>1. /\ elems' = IF file[line].key = "title" THEN [elems EXCEPT ![num].name = value]
                                                    ELSE [elems EXCEPT ![num].url = value]
            /\ crashed' = FALSE
        <4>1. ~isNew(num) /\ num # 0
          BY <1>1, <2>6 DEF isNew
        <4> QED BY <2>1, <4>1, Zenon DEF pls_ini_handler
      <3>2. elems[num] \in [name : Value, url : Value]
        BY <1>1, <2>6, ElementOfSeq
      <3>3. /\ Len(elems') = Len(elems)
            /\ \A n \in 1..Len(elems) : n # num => elems'[n] = elems[n]
            /\ elems'[num].name = IF file[line].key = "title" THEN value ELSE elems[num].name
            /\ elems'[num].url = IF file[line].key = "title" THEN elems[num].url ELSE value
        BY <1>1, <2>6, <3>1, <3>2
      <3>4. Largest(Len(elems'), line + 1)
        <4>1. \A i \in Keyed : i < line + 1 => file[i].n <= Len(elems)
          BY <1>1, <1>2, <2>2, <2>6 DEF Largest
        <4>2. Len(elems) = 0 \/ \E i \in Keyed : i < line + 1 /\ file[i].n = Len(elems)
          BY <1>1, <1>2, <2>2 DEF Largest
        <4> QED BY <1>1, <3>3, <4>1, <4>2 DEF Largest
      <3>5. ASSUME NEW n \in 1..Len(elems), n # num PROVE Known(n)
        <4>1. ~IsFor(line, "title", n) /\ ~IsFor(line, "file", n)
          BY <2>3, <3>5
        <4> QED BY <1>1, <1>2, <3>3, <3>5, <4>1, LatestLater
      <3>6. Known(num)
        <4>1. CASE file[line].key = "title"
          <5>1. Latest("file", num, elems[num].url, line + 1)
            BY <1>1, <1>2, <2>3, <2>6, <4>1, LatestLater
          <5> QED BY <2>4, <3>3, <4>1, <5>1
        <4>2. CASE file[line].key = "file"
          <5>1. Latest("title", num, elems[num].name, line + 1)
            BY <1>1, <1>2, <2>3, <2>6, <4>2, LatestLater
          <5> QED BY <2>4, <3>3, <4>2, <5>1
        <4> QED BY <1>1, <1>4, <4>1, <4>2
      <3>7. \A n \in 1..Len(elems') : Known(n)
        <4> HIDE DEF Known
        <4> QED BY <3>3, <3>5, <3>6
      <3> HIDE DEF Known
      <3> QED BY <3>1, <3>4, <3>7
    <2> HIDE DEF Read
    <2> QED BY <1>1, <2>1, <2>5, <2>6
  <1>5. Read
    <2> HIDE DEF Read
    <2> QED BY <1>3, <1>4
  <1>6. over' = 0 /\ ~outside' /\ line' = line + 1
    BY ReadInOnePiece
  <1>7. Largest(Len(elems), line)'
    BY <1>1, <1>5, <1>6 DEF Largest, Keyed
  <1>8. \A n \in 1..Len(elems') :
          Latest("title", n, elems[n].name, line)' /\ Latest("file", n, elems[n].url, line)'
    <2>1. Keyed' = Keyed /\ \A i, key, n : IsFor(i, key, n)' = IsFor(i, key, n)
      BY <1>1 DEF IsFor, Keyed
    <2> TAKE n \in 1..Len(elems')
    <2>2. Known(n)
      BY <1>5
    <2>3. Latest("title", n, elems[n].name, line)'
      BY <1>1, <2>1, <2>2 DEF Latest
    <2>4. Latest("file", n, elems[n].url, line)'
      BY <1>1, <2>1, <2>2 DEF Latest
    <2> QED BY <2>3, <2>4
  <1> QED
    BY <1>1, <1>5, <1>6, <1>7, <1>8 DEF Loaded

-----------------------------------------------------------------------------
LEMMA ListInit == BootInit => ListInv
<1> SUFFICES ASSUME BootInit PROVE ListInv
  OBVIOUS
<1>1. /\ file \in Files /\ line = 1 /\ over = 0 /\ loading = TRUE
      /\ elems = <<>> /\ capacity = InitCapacity /\ curr_pos = 0
      /\ outside = FALSE /\ crashed = FALSE
  BY DEF BootInit, PlaylistInit
<1>2. /\ Len(file) \in Nat /\ capacity \in Nat \ {0, 1}
      /\ elems \in Seq([name : Value, url : Value]) /\ Len(elems) = 0
  BY <1>1, PlaylistAssumption
<1>3. PlaylistTypeOK
  <2>1. line \in 1..(Len(file) + 1)
    <3>1. line = 1 /\ Len(file) \in Nat
      BY <1>1, <1>2
    <3> QED BY <3>1
  <2>2. loading = TRUE /\ crashed = FALSE
    BY <1>1
  <2>3. Len(elems) <= capacity
    BY <1>2
  <2> QED BY <1>1, <1>2, <2>1, <2>2, <2>3 DEF PlaylistTypeOK
<1>4. Largest(Len(elems), line)
  BY <1>1, <1>2 DEF Largest, Keyed
<1>5. Loaded
  BY <1>1, <1>2, <1>4 DEF Loaded
<1>6. CursorInside
  BY <1>1, <1>2 DEF CursorInside
<1> QED BY <1>3, <1>5, <1>6 DEF ListInv

LEMMA SameFile ==
  ASSUME file' = file
  PROVE  /\ Value' = Value /\ Keyed' = Keyed /\ wellFormed' = wellFormed
         /\ \A i, key, n : IsFor(i, key, n)' = IsFor(i, key, n)
  <1>1. Value' = Value
    BY DEF Value
  <1>2. Keyed' = Keyed
    BY DEF Keyed
  <1>3. wellFormed' = wellFormed
    BY <1>2 DEF wellFormed
  <1>4. \A i, key, n : IsFor(i, key, n)' = IsFor(i, key, n)
    BY <1>2 DEF IsFor
  <1> QED BY <1>1, <1>2, <1>3, <1>4

LEMMA SameLoaded ==
  ASSUME Loaded, UNCHANGED <<fileVars, readerVars, vecVars, crashed>>,
         ~loading' => line = Len(file) + 1
  PROVE  Loaded'
  <1>1. /\ file' = file /\ line' = line /\ over' = over /\ outside' = outside
        /\ elems' = elems /\ crashed' = crashed
    BY DEF fileVars, readerVars, vecVars
  <1>2. Largest(Len(elems), line)'
    BY <1>1, SameFile DEF Loaded, Largest
  <1>3. Keyed' = Keyed /\ \A i, key, n : IsFor(i, key, n)' = IsFor(i, key, n)
    BY <1>1 DEF IsFor, Keyed
  <1>4. ASSUME NEW n \in 1..Len(elems')
        PROVE  Latest("title", n, elems[n].name, line)' /\ Latest("file", n, elems[n].url, line)'
    <2>1. Latest("title", n, elems[n].name, line) /\ Latest("file", n, elems[n].url, line)
      BY <1>1, <1>4 DEF Loaded
    <2>2. Latest("title", n, elems[n].name, line)'
      BY <1>1, <1>3, <2>1 DEF Latest
    <2>3. Latest("file", n, elems[n].url, line)'
      BY <1>1, <1>3, <2>1 DEF Latest
    <2> QED BY <2>2, <2>3
  <1> QED BY <1>1, <1>2, <1>4 DEF Loaded

(* A step that leaves the playlist alone, or moves the cursor only.        *)
LEMMA SameListInv ==
  ASSUME ListInv, UNCHANGED <<fileVars, readerVars, loading, vecVars, crashed>>, CursorInside'
  PROVE  ListInv'
  <1>1. /\ file' = file /\ line' = line /\ loading' = loading
        /\ elems' = elems /\ capacity' = capacity /\ crashed' = crashed
    BY DEF fileVars, readerVars, vecVars
  <1>2. PlaylistTypeOK'
    BY <1>1, SameFile DEF ListInv, PlaylistTypeOK
  <1>3. ASSUME wellFormed PROVE Loaded'
    BY <1>1, <1>3, SameLoaded DEF ListInv, Loaded
  <1> QED BY <1>1, <1>2, <1>3, SameFile DEF ListInv

LEMMA ListNext == ListInv /\ [BootNext]_bootVars => ListInv'
<1> SUFFICES ASSUME ListInv, [BootNext]_bootVars PROVE ListInv'
  OBVIOUS
<1>1. CASE ReadsLine
  <2>1. PlaylistTypeOK'
    BY <1>1, ReadsLineTyped DEF ListInv
  <2>2. wellFormed' => wellFormed
    BY <1>1, SameFile DEF ReadsLine, fileVars
  <2>3. wellFormed' => Loaded'
    BY <1>1, <2>2, ReadsLineLoaded DEF ListInv
  <2>4. CursorInside'
    <3>1. loading /\ loading' = loading /\ curr_pos' = curr_pos /\ curr_pos = 0
      BY <1>1 DEF ReadsLine, ListInv, CursorInside
    <3>2. Len(elems') \in Nat /\ (elems' # <<>> => Len(elems') > 0)
      BY <2>1 DEF PlaylistTypeOK
    <3> QED BY <3>1, <3>2 DEF CursorInside
  <2> QED BY <2>1, <2>3, <2>4 DEF ListInv
<1>2. CASE LoadEnds
  <2>1. /\ line > Len(file) /\ loading' = FALSE
        /\ UNCHANGED <<fileVars, readerVars, vecVars, curr_pos, crashed>>
    BY <1>2 DEF LoadEnds
  <2>2. line = Len(file) + 1
    BY <2>1, PlaylistAssumption DEF ListInv, PlaylistTypeOK
  <2>3. PlaylistTypeOK'
    BY <2>1, SameFile DEF ListInv, PlaylistTypeOK, fileVars, readerVars, vecVars
  <2>4. wellFormed' => Loaded'
    BY <2>1, <2>2, SameFile, SameLoaded DEF ListInv, fileVars
  <2>5. CursorInside'
    BY <2>1 DEF ListInv, CursorInside, vecVars
  <2> QED BY <2>3, <2>4, <2>5 DEF ListInv
<1>3. CASE playlist_next \/ playlist_prev
  <2>1. ~loading /\ UNCHANGED <<fileVars, readerVars, loading, vecVars, crashed>>
    BY <1>3 DEF playlist_next, playlist_prev
  <2>2. CursorInside'
    <3>1. /\ elems' = elems /\ ~loading' /\ curr_pos \in Int
          /\ Len(elems) \in Nat /\ (elems # <<>> => Len(elems) > 0)
          /\ elems # <<>> => curr_pos \in 0..(Len(elems) - 1)
      BY <2>1 DEF ListInv, CursorInside, PlaylistTypeOK, vecVars
    <3>2. CASE playlist_next
      BY <3>1, <3>2 DEF playlist_next, CursorInside
    <3>3. CASE playlist_prev
      BY <3>1, <3>3 DEF playlist_prev, CursorInside
    <3> QED BY <1>3, <3>2, <3>3
  <2> QED BY <2>1, <2>2, SameListInv
<1>4. CASE UNCHANGED playlistVars
  <2>1. CursorInside'
    BY <1>4 DEF ListInv, CursorInside, playlistVars, vecVars
  <2> QED BY <1>4, <2>1, SameListInv DEF playlistVars
<1> QED
  BY <1>1, <1>2, <1>3, <1>4
  DEF BootNext, MainStep, StackStep, HandlerStep, initialise_wifi, WaitLooks, WaitWakes, Loads,
      StartsRadio, Moves, Started, GotIp, Disconnected, Associates, GetsAddress, LosesLink,
      bootVars

(* What playlist.c makes of a file that numbers its entries without a gap, *)
(* in whatever order its titles and files come and however long it is, is  *)
(* what the file lists; and vector.c has always made room before.          *)
THEOREM ListIsLoaded == BootSpec => []PlaylistAsListed
<1>1. ListInv => PlaylistAsListed
  <2> SUFFICES ASSUME ListInv PROVE PlaylistAsListed
    OBVIOUS
  <2>1. Len(elems) <= capacity
    BY DEF ListInv, PlaylistTypeOK
  <2>2. ASSUME ~loading, wellFormed
        PROVE  /\ ~outside
               /\ Len(elems) = Max({0} \cup {file[i].n : i \in Keyed})
               /\ \A n \in 1..Len(elems) :
                    elems[n] = [name |-> listed("title", n), url |-> listed("file", n)]
    <3>1. Loaded /\ line = Len(file) + 1 /\ Len(file) \in Nat
      BY <2>2, PlaylistAssumption DEF ListInv, PlaylistTypeOK, Loaded
    <3>2. Len(elems) = Max({0} \cup {file[i].n : i \in Keyed})
      <4> DEFINE S == {0} \cup {file[i].n : i \in Keyed}
      <4>1. \A i \in Keyed : i < line /\ file[i].n \in Int
        BY <3>1, PlaylistAssumption DEF ListInv, PlaylistTypeOK, Keyed
      <4>2. S \subseteq Int /\ Len(elems) \in S /\ \A x \in S : x <= Len(elems)
        BY <3>1, <4>1 DEF Loaded, Largest
      <4> HIDE DEF S
      <4>3. Max(S) = Len(elems)
        BY <4>2, MaxIs
      <4> USE DEF S
      <4> QED BY <4>3
    <3>3. ASSUME NEW n \in 1..Len(elems)
          PROVE  elems[n] = [name |-> listed("title", n), url |-> listed("file", n)]
      <4>1. elems[n] \in [name : Value, url : Value]
        BY ElementOfSeq DEF ListInv, PlaylistTypeOK
      <4>2. elems[n].name = listed("title", n) /\ elems[n].url = listed("file", n)
        BY <3>1, LatestIsListed DEF Loaded
      <4> QED BY <4>1, <4>2
    <3> QED BY <3>1, <3>2, <3>3 DEF Loaded
  <2>3. elems # <<>> => curr_pos \in 0..(Len(elems) - 1)
    BY DEF ListInv, CursorInside
  <2> QED BY <2>1, <2>2, <2>3 DEF PlaylistAsListed
<1> QED BY <1>1, ListInit, ListNext, PTL DEF BootSpec

=============================================================================
