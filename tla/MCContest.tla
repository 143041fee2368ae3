----------------------------- MODULE MCContest ------------------------------
(***************************************************************************)
(* Two instances of Registration with two ranks and two processes, in one  *)
(* run.  In the contested one both claim rank 1.  In the other p2          *)
(* announces a rank the job does not have, and p1 runs on the master's own *)
(* host.                                                                   *)
(***************************************************************************)
EXTENDS MCRegistration

ContestRank == p1 :> 1 @@ p2 :> 1
MasterHost  == master :> "hostA" @@ p1 :> "hostA" @@ p2 :> "hostB"

VARIABLE contested  \* which of the two it is

S == INSTANCE Registration WITH RankOf <- OwnRank, IpOf <- MasterHost

mcVars == <<contested, vars>>

MCInit == contested \in BOOLEAN /\ Init

MCNext ==
  /\ \/ contested /\ Next
     \/ ~ contested /\ S!Next
  /\ UNCHANGED contested

\* The fairness of Registration, where it is asked for.
Sole(A) == ~ contested /\ A /\ UNCHANGED contested

MCFairness ==
  /\ WF_mcVars(Sole(S!Main))
  /\ \A t \in Threads : WF_mcVars(Sole(S!Handler(t)))
  /\ \A p \in Procs : /\ WF_mcVars(Sole(S!SendRegister(p)))
                      /\ SF_mcVars(Sole(\E t \in Threads : S!Receive(t, p)))
                      /\ SF_mcVars(Sole(S!RecvAck(p)))

MCSpec == MCInit /\ [][MCNext]_mcVars /\ MCFairness

\* A slave whose rank nobody else claims joins (Registration's SlaveJoins).
SoleSlaveJoins == ~ contested => S!SlaveJoins

\* The master's host is counted once (Registration's UniqueDistinct).
MasterHostUnique == ~ contested => S!UniqueDistinct
=============================================================================
