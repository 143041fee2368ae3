---------------------------- MODULE StartupProofs ---------------------------
(***************************************************************************)
(* What a wrapper does once, for every command line, every list of         *)
(* interfaces, every range of ports and every directory.                   *)
(***************************************************************************)
EXTENDS MCStartup, WireProofs

-----------------------------------------------------------------------------
(***************************************************************************)
(* The settings.                                                           *)
(***************************************************************************)

\* A long that is cut to an int is an int.
LEMMA ToIntType == \A v \in Int : ToInt(v) \in Ints
<1> SUFFICES ASSUME NEW v \in Int PROVE ToInt(v) \in Ints
    OBVIOUS
<1> DEFINE w == 2 * (IntMax + 1)
<1>1. w \in Nat \ {0}
    BY ArgumentsAssumption
<1>2. (v + IntMax + 1) \in Int
    BY ArgumentsAssumption
<1>3. (v + IntMax + 1) % w \in 0 .. w - 1
    <2> HIDE DEF w
    <2> QED BY <1>1, <1>2
<1> QED BY <1>3, ArgumentsAssumption DEF ToInt, Ints

\* Before the check a setting may be anything but below its minimum; after
\* it the two times are apart, unless their comparison overflowed.
Settled ==
  /\ timeout >= 10 /\ ka_interval >= 1
  /\ TimeoutsSafe

ArgInv == ArgTypeOK /\ Settled

\* The defaults satisfy the invariant.
LEMMA ArgInitInv == ArgInit => ArgInv
BY ArgumentsAssumption DEF ArgInit, ArgInv, ArgTypeOK, Settled, TimeoutsSafe, Ints

\* Every option and every check keeps it.
LEMMA ArgNextInv == ArgInv /\ [ArgNext]_argVars => ArgInv'
<1> SUFFICES ASSUME ArgInv, [ArgNext]_argVars PROVE ArgInv'
    OBVIOUS
<1> USE DEF ArgInv, ArgTypeOK, Settled
<1>1. ASSUME NEW procno \in Texts, NEW nprocs \in Texts,
             ParseEnvironmentVars(procno, nprocs)
      PROVE  ArgInv'
  <2>1. Parsed(procno, rank) \in Ints /\ Parsed(nprocs, num_procs) \in Ints
      BY ToIntType, ArgumentsAssumption DEF Parsed, Texts
  <2> QED BY <1>1, <2>1 DEF ParseEnvironmentVars, TimeoutsSafe
<1>2. ASSUME NEW option \in {"n", "r", "t", "k"}, NEW text \in Longs,
             ParseNumber(option, text)
      PROVE  ArgInv'
  <2>1. ToInt(text) \in Ints
      BY ToIntType, ArgumentsAssumption
  <2>2. /\ AtLeast(10, ToInt(text)) \in Ints /\ AtLeast(10, ToInt(text)) >= 10
        /\ AtLeast(1, ToInt(text)) \in Ints /\ AtLeast(1, ToInt(text)) >= 1
      BY <2>1, ArgumentsAssumption DEF AtLeast, Ints
  <2>3. rank' \in Ints /\ num_procs' \in Ints
      BY <1>2, <2>1 DEF ParseNumber
  <2>4. timeout' \in Ints /\ timeout' >= 10 /\ ka_interval' \in Ints /\ ka_interval' >= 1
      BY <1>2, <2>2 DEF ParseNumber
  <2>5. apc' = apc /\ apc = "options"
      BY <1>2 DEF ParseNumber
  <2> QED BY <2>3, <2>4, <2>5 DEF TimeoutsSafe
<1>3. CASE ParseStops
    BY <1>3 DEF ParseStops, Stop, settings, TimeoutsSafe
<1>4. CASE ParseEnds
    BY <1>4 DEF ParseEnds, settings, TimeoutsSafe
<1>5. CASE CheckRequired
  <2>1. CASE (rank < 0 \/ num_procs < 0) /\ Stop
      BY <2>1 DEF Stop, settings, TimeoutsSafe
  <2>2. ASSUME NEW close \in TooClose,
               timeout' = IF close THEN TIMEOUT ELSE timeout,
               ka_interval' = IF close THEN KA_INTERVAL ELSE ka_interval,
               apc' = "started", UNCHANGED <<rank, num_procs>>
        PROVE  ArgInv'
    <3>1. CASE close
        BY <2>2, <3>1, ArgumentsAssumption DEF TimeoutsSafe, Ints
    <3>2. CASE ~ close
      <4>1. 2 * ka_interval <= IntMax => ~ (timeout <= 2 * ka_interval)
          BY <3>2, Zenon DEF TooClose
      <4>2. 2 * ka_interval <= IntMax => timeout > 2 * ka_interval
          BY <4>1, ArgumentsAssumption DEF Ints
      <4> QED BY <2>2, <3>2, <4>2 DEF TimeoutsSafe
    <3> QED BY <3>1, <3>2
  <2> QED BY <1>5, <2>1, <2>2 DEF CheckRequired
<1>6. CASE UNCHANGED argVars
    BY <1>6 DEF argVars, settings, TimeoutsSafe
<1> QED BY <1>1, <1>2, <1>3, <1>4, <1>5, <1>6 DEF ArgNext

\* Whatever options are given, in whatever order and with whatever numbers,
\* parse_args and the checks of main leave a wrapper that starts with times
\* that satisfy what the failure detector assumes of them, unless twice the
\* interval is more than an int.
THEOREM ArgumentsSafe == ArgSpec => [](ArgTypeOK /\ TimeoutsSafe)
<1>1. ArgInv => ArgTypeOK /\ TimeoutsSafe
    BY DEF ArgInv, Settled
<1> QED BY <1>1, ArgInitInv, ArgNextInv, PTL DEF ArgSpec

-----------------------------------------------------------------------------
(***************************************************************************)
(* The address.                                                            *)
(***************************************************************************)

\* How get_ip_addr ranks interfaces, and which it considers.
Rank(f) == IF f.ib THEN 2 ELSE IF f.local THEN 0 ELSE 1

Usable(list) == {k \in DOMAIN list : Possible(list[k])}

\* What get_ip_addr returns for a list of interfaces: nothing if none can be
\* used, or else one that can, with no other before it in its ranking.
LEMMA GetIpAddrBest ==
  ASSUME NEW n \in Nat, NEW list \in [1 .. n -> Interfaces]
  PROVE  /\ GetIpAddr(list) \in 0 .. n
         /\ GetIpAddr(list) = NoIp <=> Usable(list) = {}
         /\ GetIpAddr(list) # NoIp =>
              /\ GetIpAddr(list) \in Usable(list)
              /\ \A k \in Usable(list) : Rank(list[k]) <= Rank(list[GetIpAddr(list)])
<1> DEFINE all    == Usable(list)
           ib     == {k \in all : list[k].ib}
           public == {k \in all : ~ list[k].local}
           chosen == CASE ib # {} -> ib
                       [] ib = {} /\ public # {} -> public
                       [] OTHER -> all
<1>1. GetIpAddr(list) = First(chosen)
    BY DEF GetIpAddr, Usable
<1>2. all \subseteq 1 .. n
    BY DEF Usable
<1>3. \A k \in 1 .. n : list[k].ib \in BOOLEAN /\ list[k].local \in BOOLEAN
    BY CommandSocketAssumption
<1>4. /\ chosen \subseteq all
      /\ chosen = {} => all = {}
      /\ \A c \in chosen : \A k \in all : Rank(list[k]) <= Rank(list[c])
  <2> HIDE DEF all
  <2>1. CASE ib # {}
      BY <1>2, <1>3, <2>1 DEF Rank
  <2>2. CASE ib = {} /\ public # {}
      BY <1>2, <1>3, <2>2 DEF Rank
  <2>3. CASE ib = {} /\ public = {}
      BY <1>2, <1>3, <2>3 DEF Rank
  <2> QED BY <2>1, <2>2, <2>3
<1> HIDE DEF chosen, all
<1>5. CASE chosen = {}
    BY <1>1, <1>2, <1>4, <1>5 DEF First, NoIp, all
<1>6. CASE chosen # {}
  <2>1. chosen \in SUBSET (1 .. n)
      BY <1>2, <1>4
  <2>2. Min(chosen) \in chosen
      BY <1>6, <2>1, MinOfSet
  <2>3. GetIpAddr(list) \in chosen
      BY <1>1, <1>6, <2>2 DEF First
  <2>4. GetIpAddr(list) \in 1 .. n
      BY <2>1, <2>3
  <2> QED BY <1>4, <2>3, <2>4 DEF NoIp, all
<1> QED BY <1>5, <1>6

\* The address is chosen once and for all.
AddressInv ==
  /\ \E n \in 0 .. MaxIfs : ifs \in [1 .. n -> Interfaces]
  /\ ip_addr \in 0 .. Len(ifs)
  /\ cpc # "address" =>
       /\ ip_addr = NoIp <=> Usable(ifs) = {}
       /\ ip_addr # NoIp =>
            /\ ip_addr \in Usable(ifs)
            /\ \A k \in Usable(ifs) : Rank(ifs[k]) <= Rank(ifs[ip_addr])

\* A list of n interfaces is a sequence of length n.
LEMMA ListLength ==
  ASSUME NEW n \in Nat, NEW list \in [1 .. n -> Interfaces]
  PROVE  Len(list) = n /\ DOMAIN list = 1 .. n
OBVIOUS

\* No address has been taken at first.
LEMMA AddressInit == SocketInit => AddressInv
<1> SUFFICES ASSUME SocketInit PROVE AddressInv
    OBVIOUS
<1>1. ifs = << >> /\ ip_addr = 0 /\ cpc = "address"
    BY DEF SocketInit, NoIp
<1>2. ifs \in [1 .. 0 -> Interfaces] /\ Len(ifs) = 0
    BY <1>1
<1>3. 0 \in 0 .. MaxIfs
    BY CommandSocketAssumption
<1> QED BY <1>1, <1>2, <1>3 DEF AddressInv

\* No step after it changes the address.
LEMMA AddressNext == AddressInv /\ [SocketNext]_socketVars => AddressInv'
<1> SUFFICES ASSUME AddressInv, [SocketNext]_socketVars PROVE AddressInv'
    OBVIOUS
<1>1. ASSUME NEW n \in 0 .. MaxIfs, NEW list \in [1 .. n -> Interfaces], TakeAddress(list)
      PROVE  AddressInv'
  <2>1. n \in Nat /\ ifs' = list /\ ip_addr' = GetIpAddr(list)
      BY <1>1, CommandSocketAssumption DEF TakeAddress
  <2>2. Len(list) = n
      BY <2>1, ListLength
  <2> QED BY <2>1, <2>2, GetIpAddrBest DEF AddressInv, Usable
<1>2. ASSUME UNCHANGED <<ifs, ip_addr>>, cpc # "address" PROVE AddressInv'
    BY <1>2 DEF AddressInv, Usable
<1>3. CASE UNCHANGED socketVars
    BY <1>3 DEF AddressInv, Usable, socketVars
<1>4. CASE TryPort
    BY <1>2, <1>4 DEF TryPort
<1>5. CASE SearchEnds
    BY <1>2, <1>5 DEF SearchEnds
<1>6. ASSUME NEW p \in Ports, OthersBind(p) PROVE AddressInv'
    BY <1>2, <1>6 DEF OthersBind
<1> QED BY <1>1, <1>3, <1>4, <1>5, <1>6 DEF SocketNext

\* Of the interfaces that can be used get_ip_addr takes none with another
\* before it in its ranking, whatever their number and order.
THEOREM AddressIsBest == SocketSpec => []AddressBest
<1>1. AddressInv => AddressBest
  <2> SUFFICES ASSUME AddressInv PROVE AddressBest
      OBVIOUS
  <2>1. PICK n \in 0 .. MaxIfs : ifs \in [1 .. n -> Interfaces]
      BY DEF AddressInv
  <2>2. n \in Nat
      BY CommandSocketAssumption
  <2>3. Len(ifs) = n /\ DOMAIN ifs = 1 .. n
      BY <2>1, <2>2, ListLength
  <2>4. Usable(ifs) = {k \in 1 .. Len(ifs) :
                         ifs[k].up /\ ifs[k].inet /\ ~ (ifs[k].loopback \/ ifs[k].p2p)}
      BY <2>3 DEF Usable, Possible
  <2> QED BY <2>4 DEF AddressInv, AddressBest, Rank
<1> QED BY <1>1, AddressInit, AddressNext, PTL DEF SocketSpec

-----------------------------------------------------------------------------
(***************************************************************************)
(* The port.                                                               *)
(***************************************************************************)

\* The search has dealt with every port below i: it was refused, or it is
\* bound as descriptor 0, which happens at most once, while zero still holds.
SearchInv ==
  /\ i \in MinPort .. EndPort
  /\ zero \in BOOLEAN
  /\ busy \subseteq Ports /\ mine \subseteq Ports /\ refused \subseteq Ports
  /\ busy \cap mine = {}
  /\ zero => mine = {}
  /\ cpc = "search" => ip_addr # NoIp
  /\ cpc \in {"address", "search", "failed"} =>
       /\ \A p \in mine : p < i
       /\ \A p, q \in mine : p = q
       /\ \A p \in Ports : p < i => p \in refused \cup mine
  /\ cpc = "failed" /\ ip_addr # NoIp => i = EndPort

SearchTypeOK ==
  /\ cpc \in {"address", "search", "bound", "failed"}
  /\ port \in Ports \cup {0} /\ command_socket \in {-2, -1, 0, 3}

SocketInv == SearchInv /\ SearchTypeOK /\ SocketUsable

\* The documented range of ports, whichever of the bounds is the lower.
LEMMA PortBounds ==
  /\ MinPort \in Nat /\ EndPort \in Nat /\ MinPort <= EndPort
  /\ \A p : p \in Ports <=> p \in Nat /\ MinPort <= p /\ p <= EndPort
BY CommandSocketAssumption DEF MinPort, EndPort, Ports

\* SocketInv holds when the search begins.
LEMMA SocketStart == SocketInit => SocketInv
<1> SUFFICES ASSUME SocketInit PROVE SocketInv
    OBVIOUS
<1>1. SearchInv
    BY PortBounds DEF SearchInv, SocketInit
<1>2. SearchTypeOK /\ SocketUsable
    BY DEF SearchTypeOK, SocketUsable, SocketInit
<1> QED BY <1>1, <1>2 DEF SocketInv

\* No turn of the search, and nobody else, breaks it.
LEMMA SocketStep == SocketInv /\ [SocketNext]_socketVars => SocketInv'
<1> SUFFICES ASSUME SocketInv, [SocketNext]_socketVars PROVE SocketInv'
    OBVIOUS
<1> USE DEF SocketInv
<1>1. ASSUME NEW list, TakeAddress(list) PROVE SocketInv'
  <2>1. SearchInv'
      BY <1>1, PortBounds DEF TakeAddress, SearchInv
  <2>2. (SearchTypeOK /\ SocketUsable)'
      BY <1>1 DEF TakeAddress, SearchTypeOK, SocketUsable
  <2> QED BY <2>1, <2>2
<1>2. CASE TryPort
  <2>0. cpc = "search" /\ i \in Nat /\ i \in Ports /\ i + 1 \in MinPort .. EndPort
      BY <1>2, PortBounds DEF TryPort, SearchInv
  <2>1. CASE /\ i \in busy \cup mine
             /\ refused' = refused \cup {i} /\ i' = i + 1
             /\ command_socket' = -2
             /\ UNCHANGED <<cpc, zero, mine, port>>
    <3>1. UNCHANGED <<ifs, ip_addr, busy>>
        BY <1>2 DEF TryPort
    <3>2. \A p \in Ports : p < i + 1 => p < i \/ p = i
        BY <2>0, PortBounds
    <3>3. \A p \in mine : p < i + 1
        BY <2>0, PortBounds DEF SearchInv
    <3>4. SearchInv'
        BY <2>0, <2>1, <3>1, <3>2, <3>3 DEF SearchInv
    <3> QED BY <2>0, <2>1, <3>1, <3>4 DEF SearchTypeOK, SocketUsable
  <2>2. CASE /\ i \notin busy \cup mine /\ zero
             /\ zero' = FALSE /\ mine' = mine \cup {i} /\ i' = i + 1
             /\ command_socket' = 0
             /\ UNCHANGED <<cpc, port, refused>>
    <3>1. UNCHANGED <<ifs, ip_addr, busy>>
        BY <1>2 DEF TryPort
    <3>2. \A p \in Ports : p < i + 1 => p < i \/ p = i
        BY <2>0, PortBounds
    <3>3. mine' = {i} /\ i < i + 1
      <4>1. mine = {}
          BY <2>2, Zenon DEF SearchInv
      <4>2. mine' = {i}
          BY <2>2, <4>1
      <4> QED BY <2>0, <4>2
    <3>4. SearchInv'
        BY <2>0, <2>2, <3>1, <3>2, <3>3 DEF SearchInv
    <3> QED BY <2>0, <2>2, <3>1, <3>4 DEF SearchTypeOK, SocketUsable
  <2>3. CASE /\ i \notin busy \cup mine /\ ~ zero
             /\ mine' = mine \cup {i}
             /\ command_socket' = 3 /\ port' = i /\ cpc' = "bound"
             /\ UNCHANGED <<i, zero, refused>>
    <3>1. UNCHANGED <<ifs, ip_addr, busy>>
        BY <1>2 DEF TryPort
    <3>2. SearchInv'
        BY <2>0, <2>3, <3>1 DEF SearchInv
    <3> QED BY <2>0, <2>3, <3>1, <3>2 DEF SearchTypeOK, SocketUsable
  <2> QED BY <1>2, <2>1, <2>2, <2>3 DEF TryPort
<1>3. CASE SearchEnds
  <2>1. i = EndPort
      BY <1>3, PortBounds DEF SearchEnds, SearchInv
  <2>2. SearchInv'
      BY <1>3, <2>1 DEF SearchEnds, SearchInv
  <2> QED BY <1>3, <2>2 DEF SearchEnds, SearchTypeOK, SocketUsable
<1>4. ASSUME NEW p \in Ports, OthersBind(p) PROVE SocketInv'
  <2>1. SearchInv'
      BY <1>4 DEF OthersBind, SearchInv
  <2> QED BY <1>4, <2>1 DEF OthersBind, SearchTypeOK, SocketUsable
<1>5. CASE UNCHANGED socketVars
    BY <1>5 DEF socketVars, SearchInv, SearchTypeOK, SocketUsable
<1> QED BY <1>1, <1>2, <1>3, <1>4, <1>5 DEF SocketNext

\* Every variable keeps its type, and the search stays in its range.
THEOREM TypeCorrect == SocketSpec => []SocketTypeOK
<1>1. AddressInv /\ SocketInv => SocketTypeOK
  <2> SUFFICES ASSUME AddressInv, SocketInv PROVE SocketTypeOK
      OBVIOUS
  <2>1. PICK n \in 0 .. MaxIfs : ifs \in [1 .. n -> Interfaces]
      BY DEF AddressInv
  <2>2. n \in Nat /\ n <= MaxIfs
      BY CommandSocketAssumption
  <2>3. Len(ifs) <= MaxIfs
      BY <2>1, <2>2, ListLength
  <2> QED BY <2>3 DEF AddressInv, SocketInv, SearchInv, SearchTypeOK, SocketTypeOK
<1> QED BY <1>1, AddressInit, AddressNext, SocketStart, SocketStep, PTL DEF SocketSpec

\* Whatever others bind and close while get_bound_dgram_socket_by_range
\* searches, a wrapper that goes on has a descriptor above 0 and a port of its
\* range that nobody else has.
THEOREM SocketIsUsable == SocketSpec => []SocketUsable
<1>1. SocketInv => SocketUsable
    BY DEF SocketInv
<1> QED BY <1>1, SocketStart, SocketStep, PTL DEF SocketSpec

\* The search fails only after each port of the documented range, the last
\* excepted, was found taken, but for the one bound as descriptor 0.
THEOREM SearchIsComplete == SocketSpec => []SearchComplete
<1>1. SocketInv => SearchComplete
    BY PortBounds DEF SocketInv, SearchInv, SearchComplete
<1> QED BY <1>1, SocketStart, SocketStep, PTL DEF SocketSpec

-----------------------------------------------------------------------------
(***************************************************************************)
(* The three together.                                                     *)
(***************************************************************************)

\* In every behaviour of a wrapper's start each of the three parts moves as
\* it does on its own.
LEMMA PartsOfStartup == Spec => ArgSpec /\ SocketSpec /\ WireSpec
<1>1. Init => ArgInit /\ SocketInit /\ WireInit
    BY DEF Init
<1>2. [Settings \/ Address \/ Text]_<<argVars, socketVars, wireVars>> =>
        [ArgNext]_argVars /\ [SocketNext]_socketVars /\ [WireNext]_wireVars
    BY DEF Settings, Address, Text
<1> QED BY <1>1, <1>2, PTL DEF Spec, ArgSpec, SocketSpec, WireSpec

\* The types of everything that a wrapper computes when it starts.
THEOREM StartupTypeCorrect == Spec => []TypeOK
<1>1. ArgTypeOK /\ SocketTypeOK /\ WireTypeOK => TypeOK
    BY DEF TypeOK
<1> QED BY <1>1, PartsOfStartup, ArgumentsSafe, TypeCorrect, WireTypeCorrect, PTL

\* What a wrapper can rely on once it has started: its times, its address, its
\* port, the strings it splits and joins, and what the master understands of
\* its REGISTER.
THEOREM StartupSafe ==
  Spec => [](/\ TimeoutsSafe
             /\ AddressBest /\ SocketUsable /\ SearchComplete
             /\ SplitRight /\ RegisterIntact /\ PlainEntered
             /\ PublishedReadBack /\ JoinedPath)
BY PartsOfStartup, ArgumentsSafe, AddressIsBest, SocketIsUsable, SearchIsComplete,
   SplitIsRight, RegisterUnderstood, PlainIsEntered, PublishedIsReadBack, PathsAreJoined, PTL
=============================================================================
