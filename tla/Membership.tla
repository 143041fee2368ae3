----------------------------- MODULE Membership -----------------------------
(***************************************************************************)
(* What the registration phase promises, whatever threads and datagrams    *)
(* carry it: a rank is admitted to the master's table once and for good, a *)
(* slave believes it has joined only after its rank was admitted, and the  *)
(* machine file lists admitted ranks only.                                 *)
(***************************************************************************)
CONSTANTS
  Ranks,      \* the ranks of the job
  Procs,      \* the wrapper processes that register
  RankOf,     \* the rank each of them announces
  MasterRank  \* the rank that is in the table from the start

VARIABLES
  members,    \* the ranks in the master's table
  joined,     \* the processes that left the registration loop
  listed      \* the ranks written to the machine file

vars == <<members, joined, listed>>

Init ==
  /\ members = {MasterRank}
  /\ joined = {}
  /\ listed = {}

\* The master enters rank r in its table.
Admit(r) ==
  /\ members' = members \cup {r}
  /\ UNCHANGED <<joined, listed>>

\* Process p learns that it is registered.
Join(p) ==
  /\ RankOf[p] \in members
  /\ joined' = joined \cup {p}
  /\ UNCHANGED <<members, listed>>

\* The master writes rank r to the machine file.
List(r) ==
  /\ r \in members
  /\ listed' = listed \cup {r}
  /\ UNCHANGED <<members, joined>>

Next ==
  \/ \E r \in Ranks : Admit(r) \/ List(r)
  \/ \E p \in Procs : Join(p)

Spec == Init /\ [][Next]_vars
=============================================================================
