--------------------------- MODULE MCRegistration ---------------------------
(***************************************************************************)
(* An instance of Registration with three ranks, of which 1 and 2 share a  *)
(* host and differ in their working directory, and the maps that           *)
(* MCContest takes from it.                                                *)
(***************************************************************************)
EXTENDS Registration, TLC

CONSTANTS p1, p2, master, t1, t2, null

TwoProcs   == {p1, p2}
TwoThreads == {t1, t2}

OwnRank    == p1 :> 1 @@ p2 :> 2
SharedHost == master :> "hostA" @@ p1 :> "hostB" @@ p2 :> "hostB"
OwnPort    == master :> 51000 @@ p1 :> 51001 @@ p2 :> 51000
OwnIwd     == master :> "dirA" @@ p1 :> "dirA" @@ p2 :> "dirB"

ThreadSymmetry == Permutations(Threads)
=============================================================================
