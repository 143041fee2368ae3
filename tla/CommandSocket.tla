--------------------------- MODULE CommandSocket ----------------------------
(***************************************************************************)
(* The address at which a wrapper receives its commands: get_ip_addr picks *)
(* one of the interfaces, get_bound_dgram_socket_by_range the first port   *)
(* of a range that can be bound, while other processes bind and close      *)
(* theirs.                                                                 *)
(***************************************************************************)
EXTENDS Integers, Sequences, FiniteSetsExt

CONSTANTS
  Interfaces,  \* records: inet, up, loopback, p2p, ib, local
  MaxIfs,      \* bound: interfaces of a machine
  low_port, high_port

ASSUME CommandSocketAssumption ==
  /\ MaxIfs \in Nat /\ low_port \in Nat /\ high_port \in Nat
  /\ Interfaces \subseteq [inet : BOOLEAN, up : BOOLEAN, loopback : BOOLEAN,
                           p2p : BOOLEAN, ib : BOOLEAN, local : BOOLEAN]

MinPort == IF low_port > high_port THEN high_port ELSE low_port
EndPort == IF low_port > high_port THEN low_port ELSE high_port
Ports   == MinPort .. EndPort  \* the range, both ends included
NoIp    == 0

VARIABLES
  cpc,      \* "address", "search", "bound" or "failed"
  ifs,      \* what getifaddrs gives
  ip_addr,  \* index in ifs of the interface taken, or NoIp
  i,        \* the port to try next
  busy,     \* ports that cannot be bound now: others have them
  zero,     \* descriptor 0 is not in use
  mine,     \* ports this process has bound
  port, command_socket,
  refused   \* history: ports that could not be bound when they were tried

socketVars == <<cpc, ifs, ip_addr, i, busy, zero, mine, port, command_socket, refused>>

SocketInit ==
  /\ cpc = "address" /\ ifs = << >> /\ ip_addr = NoIp
  /\ i = MinPort /\ busy = {} /\ zero \in BOOLEAN /\ mine = {}
  /\ port = 0 /\ command_socket = -1
  /\ refused = {}

-----------------------------------------------------------------------------
Possible(f) == f.inet /\ f.up /\ ~ f.loopback /\ ~ f.p2p

First(S) == IF S = {} THEN NoIp ELSE Min(S)

\* Mutant: the first cut lets a point-to-point interface pass.
GetIpAddrP2p(list) ==
  LET all    == {k \in DOMAIN list : list[k].inet /\ list[k].up /\ ~ list[k].loopback}
      ib     == {k \in all : list[k].ib}
      public == {k \in all : ~ list[k].local}
  IN  First(CASE ib # {} -> ib [] ib = {} /\ public # {} -> public [] OTHER -> all)

\* An InfiniBand interface, or else one whose address has no local prefix,
\* or else the first.
GetIpAddr(list) ==
  LET all    == {k \in DOMAIN list : Possible(list[k])}
      ib     == {k \in all : list[k].ib}
      public == {k \in all : ~ list[k].local}
  IN  First(CASE ib # {} -> ib [] ib = {} /\ public # {} -> public [] OTHER -> all)

\* Without an address main returns 2.
TakeAddress(list) ==
  /\ cpc = "address"
  /\ ifs' = list
  /\ ip_addr' = GetIpAddr(list)
  /\ cpc' = IF ip_addr' = NoIp THEN "failed" ELSE "search"
  /\ UNCHANGED <<i, busy, zero, mine, port, command_socket, refused>>

\* Mutant: descriptor 0 is taken for the socket.
TryPortZero ==
  /\ cpc = "search" /\ i < EndPort
  /\ \/ /\ i \in busy \cup mine
        /\ refused' = refused \cup {i} /\ i' = i + 1
        /\ UNCHANGED <<cpc, zero, mine, port, command_socket>>
     \/ /\ i \notin busy \cup mine
        /\ mine' = mine \cup {i}
        /\ command_socket' = (IF zero THEN 0 ELSE 3) /\ port' = i /\ cpc' = "bound"
        /\ UNCHANGED <<i, zero, refused>>
  /\ UNCHANGED <<ifs, ip_addr, busy>>

\* A turn of the loop, which ends before the last port.  Descriptor 0 counts as a failure: the port stays
\* bound and the next one is tried.
TryPort ==
  /\ cpc = "search" /\ i < EndPort
  /\ \/ /\ i \in busy \cup mine
        /\ refused' = refused \cup {i} /\ i' = i + 1
        /\ command_socket' = -2
        /\ UNCHANGED <<cpc, zero, mine, port>>
     \/ /\ i \notin busy \cup mine /\ zero
        /\ zero' = FALSE /\ mine' = mine \cup {i} /\ i' = i + 1
        /\ command_socket' = 0
        /\ UNCHANGED <<cpc, port, refused>>
     \/ /\ i \notin busy \cup mine /\ ~ zero
        /\ mine' = mine \cup {i}
        /\ command_socket' = 3 /\ port' = i /\ cpc' = "bound"
        /\ UNCHANGED <<i, zero, refused>>
  /\ UNCHANGED <<ifs, ip_addr, busy>>

\* Mutant: one port more is left out.
SearchEndsEarly ==
  /\ cpc = "search" /\ i >= EndPort - 1
  /\ cpc' = "failed"
  /\ UNCHANGED <<ifs, ip_addr, i, busy, zero, mine, port, command_socket, refused>>

\* main returns 2.
SearchEnds ==
  /\ cpc = "search" /\ i >= EndPort
  /\ cpc' = "failed"
  /\ UNCHANGED <<ifs, ip_addr, i, busy, zero, mine, port, command_socket, refused>>

\* Other processes bind and close sockets.
OthersBind(p) ==
  /\ cpc = "search"
  /\ p \notin mine
  /\ busy' = IF p \in busy THEN busy \ {p} ELSE busy \cup {p}
  /\ UNCHANGED <<cpc, ifs, ip_addr, i, zero, mine, port, command_socket, refused>>

SocketNext ==
  \/ \E n \in 0 .. MaxIfs : \E list \in [1 .. n -> Interfaces] : TakeAddress(list)
  \/ TryPort \/ SearchEnds
  \/ \E p \in Ports : OthersBind(p)

SocketSpec == SocketInit /\ [][SocketNext]_socketVars

-----------------------------------------------------------------------------
(***************************************************************************)
(* Properties.                                                             *)
(***************************************************************************)

\* The type invariant.
SocketTypeOK ==
  /\ cpc \in {"address", "search", "bound", "failed"}
  /\ ip_addr \in 0 .. Len(ifs) /\ Len(ifs) <= MaxIfs
  /\ i \in MinPort .. EndPort
  /\ busy \subseteq Ports /\ mine \subseteq Ports /\ refused \subseteq Ports
  /\ zero \in BOOLEAN /\ port \in Ports \cup {0} /\ command_socket \in {-2, -1, 0, 3}

\* No interface that can be used is better than the one taken: InfiniBand
\* before any other, then an address that is not local; and if there is one
\* that can be used, one is taken.
AddressBest ==
  LET Rating(f) == IF f.ib THEN 2 ELSE IF f.local THEN 0 ELSE 1
      usable    == {k \in 1 .. Len(ifs) :
                      ifs[k].up /\ ifs[k].inet /\ ~ (ifs[k].loopback \/ ifs[k].p2p)}
  IN  cpc # "address" =>
        /\ ip_addr = NoIp <=> usable = {}
        /\ ip_addr # NoIp => /\ ip_addr \in usable
                             /\ \A k \in usable : Rating(ifs[k]) <= Rating(ifs[ip_addr])

\* A wrapper that goes on has a descriptor that send_string_to_ip_port takes
\* and a port of its range that nobody else has, though others bind and
\* close ports while it searches.
SocketUsable ==
  cpc = "bound" => command_socket > 0 /\ port \in Ports \cap mine /\ port \notin busy

\* The search only fails after every port of the range but the last was
\* found taken, but for one that may have been bound as descriptor 0.
SearchComplete ==
  cpc = "failed" /\ ip_addr # NoIp =>
    /\ \A p \in Ports \ {EndPort} : p \in refused \cup mine
    /\ \A p, q \in mine : p = q

\* What the comment of get_bound_dgram_socket_by_range promises of the range
\* [start, end], and its error message says when the search has failed: no
\* port of it could be had.  The last one is never tried.
RangeSearched ==
  cpc = "failed" /\ ip_addr # NoIp => \A p \in Ports : p \in refused \cup mine
=============================================================================
