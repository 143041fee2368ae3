-------------------------- MODULE RendezvousProofs --------------------------
(***************************************************************************)
(* Proofs about Rendezvous, for any number of runs and wherever their      *)
(* masters are, at the same address or not.                                *)
(***************************************************************************)
EXTENDS Rendezvous, TLAPS

\* Main is outside the loop of chirp_info and has been through it.
Outside ==
  spc \in {"send", "test", "joined"} \/ (spc \in {"lock", "connect", "status"} /\ ~ first)

\* What main holds where, without which not even the types are kept.
HeldInv ==
  /\ spc \in {"ip", "store", "port"} => random # None
  /\ spc = "port" => masterIp # None
  /\ Outside => random # None /\ masterIp # None /\ masterPort # None

\* A master draws one number, and RandInt is the last one drawn.
MasterInv ==
  /\ \A k \in Runs : k > run => drawn[k] = None
  /\ mpc = "rand" => drawn[run] = None
  /\ mpc \in {"ip", "port", "up"} => drawn[run] # None
  /\ drawn[run] # None => adRand = drawn[run]

\* The address under a number is that of masters that drew it.
AdInv ==
  \A n \in Numbers :
    /\ adIp[n] # None => \E k \in Runs : drawn[k] = n /\ adIp[n] = ip[k]
    /\ adPort[n] # None => \E k \in Runs : drawn[k] = n /\ adPort[n] = port[k]

\* What a master is about to publish is not there yet: an attribute that is
\* there does not change.
FreshInv ==
  \/ Collision
  \/ /\ mpc = "ip" => adIp[drawn[run]] = None
     /\ mpc \in {"ip", "port"} => adPort[drawn[run]] = None

\* What main has read is still in the ad.
ViewInv ==
  \/ Collision
  \/ /\ spc = "store" => fetched \in {None, adIp[random]}
     /\ spc = "port" => masterIp = adIp[random]
     /\ Outside => masterIp = adIp[random] /\ masterPort = adPort[random]

\* RandInt changes once in a run.
OldInv == random # None => random = adRand \/ drawn[run] # None

\* A REGISTER is under way to the master of this run, or has reached it.
Registering == <<ip[run], port[run]>> \in regs \/ known

\* From then on main can read no other address.
RegInv ==
  Registering =>
    \/ Collision
    \/ \A n \in {random, adRand} : n # None =>
         adIp[n] \in {None, ip[run]} /\ adPort[n] \in {None, port[run]}

\* ACKs come from a master that knows the slave.
KnownInv ==
  /\ alive => known
  /\ spc = "joined" => alive
  /\ hpc["ACK"] # "none" => known
  /\ \A d \in net : d[1] = "ACK" => known

\* What main holds then is the address of this run's master, or part of it.
AddrInv ==
  Registering =>
    Collision \/ (masterIp \in {None, ip[run]} /\ masterPort \in {None, port[run]})

\* ACKs come from this run's master.
AckInv ==
  /\ \A d \in net : d[1] = "ACK" => d[2] = ip[run] /\ d[3] = port[run]
  /\ hpc["ACK"] # "none" => from["ACK"] = <<ip[run], port[run]>>

\* The listener runs when there is a port, which is never unset.
PortInv ==
  /\ ~ first => masterPort # None
  /\ \A m \in Kinds : hpc[m] # "none" => ~ first

\* A handler that compares has seen an address.
RaceInv == \A m \in Kinds : hpc[m] = "compare" => masterIp # None \/ raced

TypeInv == TypeOK /\ HeldInv
AdsInv  == MasterInv /\ AdInv /\ FreshInv
Inv     == TypeInv /\ AdsInv /\ ViewInv /\ OldInv /\ RegInv /\ KnownInv

-----------------------------------------------------------------------------
(***************************************************************************)
(* Types.                                                                  *)
(***************************************************************************)
LEMMA TypeInit == Init => TypeInv
<1> SUFFICES ASSUME Init PROVE TypeInv
    OBVIOUS
<1> USE RendezvousAssumption DEF Init
<1>1. /\ run \in Runs /\ drawn \in [Runs -> Numbers \cup {None}]
      /\ adIp \in [Numbers -> Ips \cup {None}] /\ adPort \in [Numbers -> Ports \cup {None}]
    BY DEF Runs
<1>2. /\ hpc \in [Kinds -> {"none", "check", "compare", "update", "cleanup"}]
      /\ from \in [Kinds -> (Ips \cup {None}) \X (Ports \cup {None})]
    OBVIOUS
<1>3. /\ known \in BOOLEAN /\ first \in BOOLEAN /\ broken \in BOOLEAN /\ alive \in BOOLEAN
      /\ raced \in BOOLEAN /\ first
    BY Zenon
<1>4. HeldInv
    BY <1>3 DEF HeldInv, Outside
<1> QED BY <1>1, <1>2, <1>3, <1>4 DEF TypeInv, TypeOK

\* Every step keeps the types.
LEMMA TypeNext == TypeInv /\ [Next]_vars => TypeInv'
<1> SUFFICES ASSUME TypeInv, [Next]_vars PROVE TypeInv'
    OBVIOUS
<1> USE RendezvousAssumption DEF TypeInv, TypeOK, HeldInv, Outside
<1>1. CASE Restart
  <2>1. run' \in Runs
      BY <1>1 DEF Restart, Runs
  <2>2. /\ hpc' \in [Kinds -> {"none", "check", "compare", "update", "cleanup"}]
        /\ from' \in [Kinds -> (Ips \cup {None}) \X (Ports \cup {None})]
      BY <1>1 DEF Restart, SlaveStarts
  <2>3. /\ known' \in BOOLEAN /\ first' \in BOOLEAN /\ broken' \in BOOLEAN
        /\ alive' \in BOOLEAN /\ raced' \in BOOLEAN /\ first'
      BY <1>1, Zenon DEF Restart, SlaveStarts
  <2>4. HeldInv'
      BY <1>1, <2>3 DEF Restart, SlaveStarts
  <2> QED BY <1>1, <2>1, <2>2, <2>3, <2>4 DEF Restart, SlaveStarts, adVars
<1>2. ASSUME NEW n \in Numbers, PublishRand(n) PROVE TypeInv'
    BY <1>2 DEF PublishRand, masterVars, adVars, chirpVars, addrVars, handVars, slaveVars
<1>3. CASE PublishIp
  <2>1. ip[run] \in Ips
      OBVIOUS
  <2>2. adIp' \in [Numbers -> Ips \cup {None}]
      BY <1>3, <2>1 DEF PublishIp
  <2> QED BY <1>3, <2>2 DEF PublishIp, masterVars, adVars, chirpVars, addrVars, handVars, slaveVars
<1>4. CASE PublishPort
  <2>1. port[run] \in Ports
      OBVIOUS
  <2>2. adPort' \in [Numbers -> Ports \cup {None}]
      BY <1>4, <2>1 DEF PublishPort
  <2> QED BY <1>4, <2>2 DEF PublishPort, masterVars, adVars, chirpVars, addrVars, handVars, slaveVars
<1>5. CASE PublishFails
    BY <1>5 DEF PublishFails, masterVars, adVars, chirpVars, addrVars, handVars, slaveVars, Kinds
<1>6. CASE HandleRegister
    BY <1>6 DEF HandleRegister, masterVars, adVars, chirpVars, addrVars, handVars, slaveVars, Kinds
<1>7. CASE EndJob
    BY <1>7 DEF EndJob, masterVars, adVars, chirpVars, addrVars, handVars, slaveVars, Kinds
<1>8. CASE Lock
    BY <1>8 DEF Lock, masterVars, adVars, chirpVars, addrVars, handVars, slaveVars, Kinds
<1>9. CASE Connect
  <2>1. broken' \in BOOLEAN /\ first' = first
      BY <1>9, Zenon DEF Connect
  <2> QED BY <1>9, <2>1 DEF Connect, ReturnError, masterVars, adVars, chirpVars, addrVars, handVars, slaveVars
<1>10. CASE GetStatus
    BY <1>10 DEF GetStatus, ReturnError, masterVars, adVars, chirpVars, addrVars, handVars, slaveVars, Kinds
<1>11. CASE GetRand
    BY <1>11 DEF GetRand, masterVars, adVars, chirpVars, addrVars, handVars, slaveVars, Kinds
<1>12. CASE GetIp
    BY <1>12 DEF GetIp, masterVars, adVars, chirpVars, addrVars, handVars, slaveVars, Kinds
<1>13. CASE StoreIp
    BY <1>13 DEF StoreIp, masterVars, adVars, chirpVars, addrVars, handVars, slaveVars, Kinds
<1>14. CASE GetPort
  <2>1. masterIp # None /\ random # None /\ UNCHANGED <<masterIp, random>>
      BY <1>14 DEF GetPort
  <2>2. CASE spc' = "send"
    <3>1. masterPort' = adPort[random] /\ masterPort' # None /\ ~ first'
        BY <1>14, <2>2, Zenon DEF GetPort
    <3>2. masterPort' \in Ports \cup {None}
        BY <2>1, <3>1
    <3>3. first' \in BOOLEAN
        BY <1>14, <2>2, Zenon DEF GetPort
    <3>4. HeldInv'
        BY <2>1, <2>2, <3>1
    <3> QED BY <1>14, <2>2, <3>2, <3>3, <3>4 DEF GetPort, masterVars, adVars, handVars
  <2>3. CASE spc' = "rand"
    <3>1. UNCHANGED <<masterPort, first>>
        BY <1>14, <2>3 DEF GetPort
    <3>2. HeldInv'
        BY <2>3
    <3> QED BY <1>14, <2>3, <3>1, <3>2 DEF GetPort, masterVars, adVars, handVars
  <2> QED BY <1>14, <2>2, <2>3 DEF GetPort
<1>15. CASE Break
    BY <1>15 DEF Break, masterVars, adVars, chirpVars, addrVars, handVars, slaveVars, Kinds
<1>16. CASE SendRegister
    BY <1>16 DEF SendRegister, masterVars, adVars, chirpVars, addrVars, handVars, slaveVars, Kinds
<1>17. CASE TestAck
    BY <1>17 DEF TestAck, masterVars, adVars, chirpVars, addrVars, handVars, slaveVars, Kinds
<1>18. CASE Update
    BY <1>18 DEF Update, At, masterVars, adVars, chirpVars, addrVars, handVars, slaveVars, Kinds
<1>19. CASE Cleanup
    BY <1>19 DEF Cleanup, masterVars, adVars, chirpVars, addrVars, handVars, slaveVars, Kinds
<1>20. CASE Lose
    BY <1>20 DEF Lose, masterVars, adVars, chirpVars, addrVars, handVars, slaveVars, Kinds
<1>21. ASSUME NEW m \in Kinds, Check(m) PROVE TypeInv'
    BY <1>21 DEF Check, At, masterVars, adVars, chirpVars, addrVars, handVars, slaveVars, Kinds
<1>22. ASSUME NEW m \in Kinds, Compare(m) PROVE TypeInv'
    BY <1>22 DEF Compare, At, masterVars, adVars, chirpVars, addrVars, handVars, slaveVars, Kinds
<1>23. ASSUME NEW m \in Kinds, NEW d \in net, Receive(m, d) PROVE TypeInv'
    BY <1>23 DEF Receive, At, masterVars, adVars, chirpVars, addrVars, handVars, slaveVars, Kinds
<1>24. CASE UNCHANGED vars
    BY <1>24 DEF vars, masterVars, adVars, chirpVars, addrVars, handVars, slaveVars
<1> QED
    BY <1>1, <1>2, <1>3, <1>4, <1>5, <1>6, <1>7, <1>8, <1>9, <1>10, <1>11, <1>12, <1>13, <1>14, <1>15, <1>16, <1>17, <1>18, <1>19, <1>20, <1>21, <1>22, <1>23, <1>24
    DEF Next, Publish, SlaveMain, Handler

-----------------------------------------------------------------------------
(***************************************************************************)
(* The job ad.                                                             *)
(***************************************************************************)

\* A step that publishes nothing and does not start a run.
Quiet == UNCHANGED <<run, drawn, adVars>> /\ mpc' \in {mpc, "gone"}

\* Only these steps change the ad.
LEMMA AdSteps ==
  ASSUME [Next]_vars
  PROVE  \/ Restart \/ (\E n \in Numbers : PublishRand(n))
         \/ PublishIp \/ PublishPort \/ Quiet
<1> USE DEF Quiet, masterVars, adVars
<1>1. PublishFails \/ HandleRegister \/ EndJob \/ Lose => Quiet
    BY DEF PublishFails, HandleRegister, EndJob, Lose
<1>2. SlaveMain \/ Break => Quiet
    BY DEF SlaveMain, Break, Lock, Connect, GetStatus, GetRand, GetIp, StoreIp, GetPort,
           SendRegister, TestAck
<1>3. ASSUME NEW m \in Kinds, Handler(m) \/ \E d \in net : Receive(m, d)
      PROVE  Quiet
    BY <1>3 DEF Handler, Check, Compare, Update, Cleanup, Receive
<1>4. UNCHANGED vars => Quiet
    BY DEF vars
<1> QED BY <1>1, <1>2, <1>3, <1>4 DEF Next, Publish

\* Numbers once drawn stay drawn.
LEMMA DrawnStays ==
  ASSUME TypeInv, MasterInv, [Next]_vars, NEW k \in Runs, drawn[k] # None
  PROVE  drawn'[k] = drawn[k]
<1> USE DEF TypeInv, TypeOK
<1>1. ASSUME NEW n \in Numbers, PublishRand(n) PROVE drawn'[k] = drawn[k]
    BY <1>1 DEF PublishRand, MasterInv
<1>2. Restart \/ PublishIp \/ PublishPort \/ Quiet => drawn' = drawn
    BY DEF Restart, PublishIp, PublishPort, Quiet
<1> QED BY AdSteps, <1>1, <1>2

\* Two equal numbers stay equal.
LEMMA CollisionStays ==
  ASSUME TypeInv, MasterInv, [Next]_vars, Collision
  PROVE  Collision'
<1>1. PICK k \in Runs, l \in Runs : k # l /\ drawn[k] # None /\ drawn[k] = drawn[l]
    BY DEF Collision
<1>2. drawn'[k] = drawn[k] /\ drawn'[l] = drawn[l]
    BY <1>1, DrawnStays
<1> QED BY <1>1, <1>2 DEF Collision

\* A master that draws a number that is in the ad collides with another.
LEMMA NumberFresh ==
  ASSUME TypeInv, MasterInv, AdInv, NEW n \in Numbers, PublishRand(n)
  PROVE  Collision' \/ (adIp[n] = None /\ adPort[n] = None)
<1> SUFFICES ASSUME ~ (adIp[n] = None /\ adPort[n] = None) PROVE Collision'
    OBVIOUS
<1>1. PICK k \in Runs : drawn[k] = n
    BY DEF AdInv
<1>2. n # None /\ run \in Runs /\ drawn \in [Runs -> Numbers \cup {None}]
    BY RendezvousAssumption DEF TypeInv, TypeOK
<1>3. drawn[run] = None /\ drawn' = [drawn EXCEPT ![run] = n]
    BY DEF PublishRand, MasterInv
<1>4. k # run /\ drawn'[k] = n /\ drawn'[run] = n
    BY <1>1, <1>2, <1>3
<1> QED BY <1>2, <1>4 DEF Collision

\* The address under the number of this run's master is its own.
LEMMA OwnAddress ==
  ASSUME TypeInv, AdInv, drawn[run] # None, ~ Collision
  PROVE  adIp[drawn[run]] \in {None, ip[run]} /\ adPort[drawn[run]] \in {None, port[run]}
<1>1. run \in Runs /\ drawn[run] \in Numbers
    BY DEF TypeInv, TypeOK
<1>2. \A k \in Runs : drawn[k] = drawn[run] => k = run
    BY <1>1 DEF Collision
<1> QED BY <1>1, <1>2 DEF AdInv

\* The ad is empty at first.
LEMMA AdsInit == Init => AdsInv
BY RendezvousAssumption DEF Init, AdsInv, MasterInv, AdInv, FreshInv, Runs

\* Every step keeps what AdsInv says of the ad.
LEMMA AdsNext ==
  ASSUME TypeInv, TypeInv', AdsInv, [Next]_vars
  PROVE  AdsInv'
<1> USE DEF AdsInv
<1>0. run \in Runs /\ drawn \in [Runs -> Numbers \cup {None}] /\ None \notin Numbers
    BY RendezvousAssumption DEF TypeInv, TypeOK
<1>1. CASE Restart
  <2>1. run' = run + 1 /\ drawn' = drawn /\ adIp' = adIp /\ adPort' = adPort
        /\ adRand' = adRand /\ mpc' = "rand" /\ run' \in Runs
      BY <1>1 DEF Restart, adVars, TypeInv, TypeOK
  <2>2. MasterInv'
      BY <2>1, <1>0 DEF MasterInv, Runs
  <2>3. AdInv' /\ FreshInv'
      BY <2>1 DEF AdInv, FreshInv
  <2> QED BY <2>2, <2>3
<1>2. ASSUME NEW n \in Numbers, PublishRand(n) PROVE AdsInv'
  <2>1. /\ drawn' = [drawn EXCEPT ![run] = n] /\ run' = run /\ adRand' = n /\ mpc' = "ip"
        /\ adIp' = adIp /\ adPort' = adPort
      BY <1>2 DEF PublishRand
  <2>2. MasterInv'
      BY <2>1, <1>0 DEF MasterInv, Runs
  <2>3. AdInv'
    <3>1. \A k \in Runs : drawn[k] # None => drawn'[k] = drawn[k]
        BY DrawnStays
    <3> QED BY <2>1, <3>1, <1>0 DEF AdInv
  <2>4. FreshInv'
      BY <1>2, <2>1, <1>0, NumberFresh DEF FreshInv
  <2> QED BY <2>2, <2>3, <2>4
<1>3. CASE PublishIp
  <2>1. /\ mpc = "ip" /\ mpc' = "port" /\ UNCHANGED <<run, drawn, adRand, adPort>>
        /\ adIp' = [adIp EXCEPT ![drawn[run]] = ip[run]]
      BY <1>3 DEF PublishIp
  <2>2. drawn[run] \in Numbers /\ adIp \in [Numbers -> Ips \cup {None}]
      BY <2>1, <1>0 DEF MasterInv, TypeInv, TypeOK
  <2>3. MasterInv'
      BY <2>1 DEF MasterInv
  <2>4. AdInv'
      BY <2>1, <2>2, <1>0 DEF AdInv
  <2>5. FreshInv'
      BY <2>1 DEF FreshInv, Collision
  <2> QED BY <2>3, <2>4, <2>5
<1>4. CASE PublishPort
  <2>1. /\ mpc = "port" /\ mpc' = "up" /\ UNCHANGED <<run, drawn, adRand, adIp>>
        /\ adPort' = [adPort EXCEPT ![drawn[run]] = port[run]]
      BY <1>4 DEF PublishPort
  <2>2. drawn[run] \in Numbers /\ adPort \in [Numbers -> Ports \cup {None}]
      BY <2>1, <1>0 DEF MasterInv, TypeInv, TypeOK
  <2>3. MasterInv'
      BY <2>1 DEF MasterInv
  <2>4. AdInv'
      BY <2>1, <2>2, <1>0 DEF AdInv
  <2>5. FreshInv'
      BY <2>1 DEF FreshInv
  <2> QED BY <2>3, <2>4, <2>5
<1>5. CASE Quiet
    BY <1>5 DEF Quiet, adVars, MasterInv, AdInv, FreshInv, Collision
<1> QED BY <1>1, <1>2, <1>3, <1>4, <1>5, AdSteps

-----------------------------------------------------------------------------
(***************************************************************************)
(* What the slave has read.                                                *)
(***************************************************************************)

\* Main of the slave does nothing, or its process ends.
Idle == UNCHANGED <<first, random, fetched, addrVars>> /\ spc' \in {spc, "exited", "crashed"}

\* Only these steps change what main has read.
LEMMA SlaveSteps ==
  ASSUME [Next]_vars
  PROVE  Restart \/ SlaveMain \/ Idle
<1> USE DEF Idle, slaveVars, chirpVars, addrVars
<1>1. Publish \/ PublishFails \/ HandleRegister \/ EndJob \/ Lose => Idle
    BY DEF Publish, PublishRand, PublishIp, PublishPort, PublishFails, HandleRegister,
           EndJob, Lose
<1>2. Break => Idle
    BY DEF Break
<1>3. ASSUME NEW m \in Kinds, Handler(m) \/ \E d \in net : Receive(m, d)
      PROVE  Idle
    BY <1>3 DEF Handler, Check, Compare, Update, Cleanup, Receive
<1>4. UNCHANGED vars => Idle
    BY DEF vars
<1> QED BY <1>1, <1>2, <1>3, <1>4 DEF Next

\* Main leaves the ad alone.
LEMMA MainAds ==
  ASSUME SlaveMain
  PROVE  UNCHANGED <<run, drawn, adRand, adIp, adPort>>
BY DEF SlaveMain, Lock, Connect, GetStatus, GetRand, GetIp, StoreIp, GetPort, SendRegister,
       TestAck, masterVars, adVars

\* An attribute that is there does not change, if no numbers collide.
LEMMA EntryStays ==
  ASSUME TypeInv, AdsInv, ~ Collision, [Next]_vars, NEW n \in Numbers
  PROVE  /\ adIp[n] # None => adIp'[n] = adIp[n]
         /\ adPort[n] # None => adPort'[n] = adPort[n]
<1>0. adIp \in [Numbers -> Ips \cup {None}] /\ adPort \in [Numbers -> Ports \cup {None}]
    BY DEF TypeInv, TypeOK
<1>1. CASE Restart \/ (\E r \in Numbers : PublishRand(r)) \/ Quiet
    BY <1>1 DEF Restart, PublishRand, Quiet, adVars
<1>2. CASE PublishIp
    BY <1>2, <1>0 DEF PublishIp, AdsInv, FreshInv
<1>3. CASE PublishPort
    BY <1>3, <1>0 DEF PublishPort, AdsInv, FreshInv
<1> QED BY <1>1, <1>2, <1>3, AdSteps

\* Nothing has been read at first.
LEMMA ViewInit == Init => ViewInv /\ OldInv
BY DEF Init, ViewInv, OldInv, Outside

\* What main has read stays in the ad.
LEMMA ViewNext ==
  ASSUME TypeInv, TypeInv', AdsInv, ViewInv, [Next]_vars
  PROVE  ViewInv'
<1> SUFFICES ASSUME ~ Collision' PROVE ViewInv'
    BY DEF ViewInv
<1>0. ~ Collision
    BY CollisionStays DEF AdsInv
<1>00. HeldInv /\ (random # None => random \in Numbers)
    BY DEF TypeInv, TypeOK
<1>1. CASE Restart
  <2>1. spc' = "lock" /\ first'
      BY <1>1, Zenon DEF Restart, SlaveStarts
  <2> QED BY <2>1 DEF ViewInv, Outside
<1>2. CASE SlaveMain
  <2> USE <1>0, <1>00, MainAds DEF ViewInv, HeldInv, Outside
  <2>1. CASE Lock
      BY <1>2, <2>1 DEF Lock, chirpVars, addrVars
  <2>2. CASE Connect
      BY <1>2, <2>2 DEF Connect, ReturnError, addrVars
  <2>3. CASE GetStatus
      BY <1>2, <2>3 DEF GetStatus, ReturnError, chirpVars, addrVars
  <2>4. CASE GetRand
      BY <1>2, <2>4 DEF GetRand
  <2>5. CASE GetIp
      BY <1>2, <2>5 DEF GetIp
  <2>6. CASE StoreIp
      BY <1>2, <2>6 DEF StoreIp, chirpVars
  <2>7. CASE GetPort
      BY <1>2, <2>7 DEF GetPort
  <2>8. CASE SendRegister
    <3>1. spc = "send" /\ spc' \in {"test", "lock"} /\ UNCHANGED <<random, fetched, addrVars>>
        BY <2>8 DEF SendRegister, chirpVars
    <3> QED BY <1>2, <3>1 DEF addrVars
  <2>9. CASE TestAck
    <3>1. spc = "test" /\ spc' \in {"joined", "lock"} /\ UNCHANGED <<random, fetched, addrVars>>
        BY <2>9 DEF TestAck, chirpVars
    <3> QED BY <1>2, <3>1 DEF addrVars
  <2> QED BY <1>2, <2>1, <2>2, <2>3, <2>4, <2>5, <2>6, <2>7, <2>8, <2>9 DEF SlaveMain
<1>3. CASE Idle
  <2>1. CASE spc' = spc
    <3>1. spc \in {"store", "port"} \/ Outside =>
            /\ adIp[random] # None => adIp'[random] = adIp[random]
            /\ adPort[random] # None => adPort'[random] = adPort[random]
        BY <1>0, <1>00, EntryStays DEF HeldInv
    <3> QED BY <1>0, <1>00, <1>3, <2>1, <3>1 DEF Idle, addrVars, ViewInv, HeldInv, Outside
  <2>2. CASE spc' \in {"exited", "crashed"}
      BY <2>2 DEF ViewInv, Outside
  <2> QED BY <1>3, <2>1, <2>2 DEF Idle
<1> QED BY <1>1, <1>2, <1>3, SlaveSteps

-----------------------------------------------------------------------------
(***************************************************************************)
(* The slave and the master of its run.                                    *)
(***************************************************************************)
LEMMA RandomSteps ==
  ASSUME [Next]_vars, ~ Restart
  PROVE  random' = random \/ (random' = adRand /\ UNCHANGED <<run, drawn, adRand, adIp, adPort>>)
<1>1. SlaveMain => random' = random \/ random' = adRand
    BY DEF SlaveMain, Lock, Connect, GetStatus, GetRand, GetIp, StoreIp, GetPort,
           SendRegister, TestAck, chirpVars
<1>2. Idle => random' = random
    BY DEF Idle
<1> QED BY <1>1, <1>2, SlaveSteps, MainAds

\* RandInt changes once in a run.
LEMMA OldNext ==
  ASSUME TypeInv, MasterInv, OldInv, [Next]_vars
  PROVE  OldInv'
<1>0. run \in Runs
    BY DEF TypeInv, TypeOK
<1>1. CASE Restart
    BY <1>1 DEF Restart, SlaveStarts, OldInv
<1>2. CASE ~ Restart
  <2>1. CASE \E n \in Numbers : PublishRand(n)
    <3>1. PICK n \in Numbers : PublishRand(n)
        BY <2>1
    <3>2. run' = run /\ drawn'[run] = n /\ n # None
        BY <1>0, <3>1, RendezvousAssumption DEF PublishRand, TypeInv, TypeOK
    <3> QED BY <3>2 DEF OldInv
  <2>2. CASE PublishIp \/ PublishPort \/ Quiet
    <3>1. UNCHANGED <<run, drawn, adRand>>
        BY <2>2 DEF PublishIp, PublishPort, Quiet, adVars
    <3> QED BY <1>2, <3>1, RandomSteps DEF OldInv
  <2> QED BY <1>2, <2>1, <2>2, AdSteps
<1> QED BY <1>1, <1>2

\* How a REGISTER gets under way.
LEMMA RegSteps ==
  ASSUME [Next]_vars, Registering'
  PROVE  /\ ~ Restart /\ run' = run
         /\ \/ Registering
            \/ SendRegister /\ masterIp = ip[run] /\ masterPort = port[run]
<1>1. ~ Restart
  <2>1. Restart => regs' = {} /\ ~ known'
      BY Zenon DEF Restart, SlaveStarts
  <2> QED BY <2>1 DEF Registering
<1>2. run' = run
    BY <1>1, AdSteps DEF PublishRand, PublishIp, PublishPort, Quiet
<1>3. CASE SendRegister
    BY <1>1, <1>2, <1>3 DEF SendRegister, Registering, masterVars
<1>4. CASE HandleRegister
    BY <1>1, <1>2, <1>4 DEF HandleRegister, Registering
<1>5. CASE ~ SendRegister /\ ~ HandleRegister
  <2>1. regs' \subseteq regs /\ known' = known
    <3> USE <1>1, <1>5 DEF masterVars
    <3>1. Publish \/ PublishFails \/ EndJob \/ Break \/ Lose => regs' \subseteq regs /\ known' = known
        BY DEF Publish, PublishRand, PublishIp, PublishPort, PublishFails, EndJob, Break, Lose
    <3>2. SlaveMain => regs' \subseteq regs /\ known' = known
        BY DEF SlaveMain, Lock, Connect, GetStatus, GetRand, GetIp, StoreIp, GetPort, TestAck
    <3>3. ASSUME NEW m \in Kinds, Handler(m) \/ \E d \in net : Receive(m, d)
          PROVE  regs' \subseteq regs /\ known' = known
        BY <3>3 DEF Handler, Check, Compare, Update, Cleanup, Receive
    <3>4. UNCHANGED vars => regs' \subseteq regs /\ known' = known
        BY DEF vars
    <3> QED BY <3>1, <3>2, <3>3, <3>4 DEF Next
  <2> QED BY <1>1, <1>2, <2>1 DEF Registering
<1> QED BY <1>1, <1>2, <1>3, <1>4, <1>5

\* What main may still read under number n is the address of this run.
Own(n) == n # None => adIp[n] \in {None, ip[run]} /\ adPort[n] \in {None, port[run]}

\* Once a REGISTER has arrived no other address can be read.
LEMMA RegNext ==
  ASSUME TypeInv, AdsInv, ViewInv, OldInv, RegInv, [Next]_vars
  PROVE  RegInv'
<1> SUFFICES ASSUME Registering', ~ Collision' PROVE Own(random)' /\ Own(adRand)'
    BY DEF RegInv, Own
<1>0. /\ ~ Collision /\ ~ Restart /\ run' = run
      /\ random \in Numbers \cup {None} /\ adRand \in Numbers \cup {None}
      /\ adIp \in [Numbers -> Ips \cup {None}] /\ adPort \in [Numbers -> Ports \cup {None}]
    BY CollisionStays, RegSteps DEF AdsInv, TypeInv, TypeOK
<1>1. Own(random) /\ Own(adRand)
  <2>1. CASE Registering
      BY <1>0, <2>1 DEF RegInv, Own
  <2>2. CASE SendRegister /\ masterIp = ip[run] /\ masterPort = port[run]
    <3>1. Own(random)
        BY <1>0, <2>2 DEF SendRegister, ViewInv, Outside, Own
    <3>2. CASE random = adRand
        BY <3>1, <3>2
    <3>3. CASE drawn[run] # None
        BY <1>0, <3>1, <3>3, OwnAddress DEF AdsInv, MasterInv, Own
    <3>4. random # None
        BY <2>2 DEF SendRegister, TypeInv, HeldInv, Outside
    <3> QED BY <3>1, <3>2, <3>3, <3>4 DEF OldInv
  <2> QED BY <2>1, <2>2, RegSteps
<1>2. CASE \E n \in Numbers : PublishRand(n)
  <2>1. PICK n \in Numbers : PublishRand(n)
      BY <1>2
  <2>2. adRand' = n /\ adIp' = adIp /\ adPort' = adPort /\ random' = random
      BY <2>1 DEF PublishRand, slaveVars, chirpVars
  <2>3. adIp[n] = None /\ adPort[n] = None
      BY <2>1, NumberFresh DEF AdsInv
  <2> QED BY <1>0, <1>1, <2>2, <2>3 DEF Own
<1>3. CASE PublishIp
  <2>1. /\ adIp' = [adIp EXCEPT ![drawn[run]] = ip[run]]
        /\ adPort' = adPort /\ adRand' = adRand /\ random' = random
      BY <1>3 DEF PublishIp, slaveVars, chirpVars
  <2> QED BY <1>0, <1>1, <2>1 DEF Own
<1>4. CASE PublishPort
  <2>1. /\ adPort' = [adPort EXCEPT ![drawn[run]] = port[run]]
        /\ adIp' = adIp /\ adRand' = adRand /\ random' = random
      BY <1>4 DEF PublishPort, slaveVars, chirpVars
  <2> QED BY <1>0, <1>1, <2>1 DEF Own
<1>5. CASE Quiet
  <2>1. adIp' = adIp /\ adPort' = adPort /\ adRand' = adRand
      BY <1>5 DEF Quiet, adVars
  <2> QED BY <1>0, <1>1, <2>1, RandomSteps DEF Own
<1> QED BY <1>0, <1>2, <1>3, <1>4, <1>5, AdSteps

\* No slave is known at first.
LEMMA KnownInit == Init => RegInv /\ KnownInv
<1> SUFFICES ASSUME Init PROVE RegInv /\ KnownInv
    OBVIOUS
<1>1. ~ known /\ ~ alive /\ regs = {} /\ net = {} /\ spc = "lock" /\ hpc["ACK"] = "none"
    BY Zenon DEF Init, Kinds
<1> QED BY <1>1 DEF RegInv, Registering, KnownInv

\* An ACK comes from a master that knows the slave.
LEMMA KnownNext ==
  ASSUME TypeInv, KnownInv, [Next]_vars
  PROVE  KnownInv'
<1> USE DEF KnownInv
<1>0. hpc \in [Kinds -> {"none", "check", "compare", "update", "cleanup"}]
      /\ "ACK" \in Kinds /\ "TERM" \in Kinds
    BY DEF TypeInv, TypeOK, Kinds
<1>1. CASE Restart
  <2>1. ~ alive' /\ net' = {} /\ spc' = "lock" /\ hpc'["ACK"] = "none"
      BY <1>1, Zenon DEF Restart, SlaveStarts, Kinds
  <2> QED BY <2>1
<1>2. CASE HandleRegister
  <2>1. known'
      BY <1>2, Zenon DEF HandleRegister
  <2> QED BY <1>2, <2>1 DEF HandleRegister, slaveVars, handVars
<1>3. CASE EndJob
    BY <1>3 DEF EndJob, slaveVars, handVars
<1>4. CASE Publish \/ PublishFails \/ Lose
    BY <1>4 DEF Publish, PublishRand, PublishIp, PublishPort, PublishFails, Lose, slaveVars,
                handVars, masterVars
<1>5. CASE SlaveMain \/ Break
  <2>1. UNCHANGED <<alive, known, hpc, net>> /\ (spc' = "joined" => spc = "joined" \/ alive)
      BY <1>5 DEF SlaveMain, Break, Lock, Connect, GetStatus, GetRand, GetIp, StoreIp, GetPort,
                  SendRegister, TestAck, ReturnError, masterVars, handVars
  <2> QED BY <2>1
<1>6. ASSUME NEW m \in Kinds, Check(m) \/ Compare(m) PROVE KnownInv'
  <2>1. UNCHANGED <<alive, known, net>> /\ (spc' = "joined" => spc = "joined")
      BY <1>6 DEF Check, Compare, masterVars
  <2>2. hpc'["ACK"] # "none" => hpc["ACK"] # "none"
      BY <1>0, <1>6 DEF Check, Compare, At
  <2> QED BY <2>1, <2>2
<1>7. CASE Update
  <2>1. known /\ UNCHANGED <<known, net, spc>>
      BY <1>7 DEF Update, masterVars
  <2> QED BY <1>0, <1>7, <2>1 DEF Update, At
<1>8. CASE Cleanup
    BY <1>8 DEF Cleanup, masterVars, handVars
<1>9. ASSUME NEW m \in Kinds, NEW d \in net, Receive(m, d) PROVE KnownInv'
  <2>1. UNCHANGED <<alive, known, spc>> /\ net' \subseteq net
      BY <1>9 DEF Receive, masterVars
  <2>2. hpc'["ACK"] # "none" => known
      BY <1>0, <1>9 DEF Receive, At
  <2> QED BY <2>1, <2>2
<1>10. CASE UNCHANGED vars
    BY <1>10 DEF vars, masterVars, handVars
<1> QED BY <1>1, <1>2, <1>3, <1>4, <1>5, <1>6, <1>7, <1>8, <1>9, <1>10 DEF Next, Handler

-----------------------------------------------------------------------------
(***************************************************************************)
(* The handlers beside main.                                               *)
(***************************************************************************)

\* Who writes the master's address.
LEMMA AddrSteps ==
  ASSUME [Next]_vars, ~ Restart
  PROVE  /\ masterIp' = masterIp \/ StoreIp
         /\ masterPort' = masterPort \/ GetPort
         /\ (first' = first /\ raced' = raced) \/ GetPort \/ StoreIp
<1>1. SlaveMain => \/ UNCHANGED <<masterIp, masterPort, first, raced>>
                   \/ StoreIp \/ GetPort
    BY DEF SlaveMain, Lock, Connect, GetStatus, GetRand, GetIp, SendRegister, TestAck,
           chirpVars, addrVars
<1>2. Idle => UNCHANGED <<masterIp, masterPort, first>>
    BY DEF Idle, addrVars
<1>3. StoreIp => masterPort' = masterPort
    BY DEF StoreIp
<1>4. GetPort => masterIp' = masterIp
    BY DEF GetPort
<1>5. SlaveMain \/ raced' = raced
  <2>1. Publish \/ PublishFails \/ HandleRegister \/ EndJob \/ Lose \/ Break => raced' = raced
      BY DEF Publish, PublishRand, PublishIp, PublishPort, PublishFails, HandleRegister,
             EndJob, Lose, Break, slaveVars
  <2>2. ASSUME NEW m \in Kinds, Handler(m) \/ \E d \in net : Receive(m, d)
        PROVE  raced' = raced
      BY <2>2 DEF Handler, Check, Compare, Update, Cleanup, Receive
  <2>3. UNCHANGED vars => raced' = raced
      BY DEF vars
  <2> QED BY <2>1, <2>2, <2>3 DEF Next
<1> QED BY <1>1, <1>2, <1>3, <1>4, <1>5, SlaveSteps

\* Every step keeps AddrInv.
LEMMA AddrNext ==
  ASSUME TypeInv, AdsInv, ViewInv, RegInv, AddrInv, [Next]_vars
  PROVE  AddrInv'
<1> SUFFICES ASSUME Registering', ~ Collision'
             PROVE  masterIp' \in {None, ip[run]} /\ masterPort' \in {None, port[run]}
    BY RegSteps DEF AddrInv
<1>0. ~ Collision /\ ~ Restart
    BY CollisionStays, RegSteps DEF AdsInv
<1>1. masterIp \in {None, ip[run]} /\ masterPort \in {None, port[run]}
    BY <1>0, RegSteps DEF AddrInv
<1>2. StoreIp \/ GetPort => Registering /\ random # None
    BY <1>0, RegSteps DEF StoreIp, GetPort, SendRegister, TypeInv, HeldInv
<1>3. StoreIp => masterIp' \in {None, ip[run]}
    BY <1>0, <1>2 DEF StoreIp, ViewInv, RegInv
<1>4. GetPort => masterPort' \in {None, port[run]}
    BY <1>0, <1>1, <1>2 DEF GetPort, RegInv
<1> QED BY <1>0, <1>1, <1>3, <1>4, AddrSteps

\* Every step keeps AckInv.
LEMMA AckNext ==
  ASSUME TypeInv, AckInv, [Next]_vars
  PROVE  AckInv'
<1> USE DEF AckInv
<1>0. /\ hpc \in [Kinds -> {"none", "check", "compare", "update", "cleanup"}]
      /\ from \in [Kinds -> (Ips \cup {None}) \X (Ports \cup {None})]
      /\ "ACK" \in Kinds /\ "TERM" \in Kinds
    BY DEF TypeInv, TypeOK, Kinds
<1>1. CASE Restart
  <2>1. net' = {} /\ hpc'["ACK"] = "none"
      BY <1>1, <1>0 DEF Restart, SlaveStarts
  <2> QED BY <2>1
<1>2. CASE HandleRegister
  <2>1. UNCHANGED <<run, hpc, from>> /\ net' = net \cup {<<"ACK", ip[run], port[run]>>}
      BY <1>2 DEF HandleRegister, slaveVars, handVars
  <2> QED BY <2>1
<1>3. CASE EndJob
  <2>1. UNCHANGED <<run, hpc, from>> /\ net' \subseteq net \cup {<<"TERM", ip[run], port[run]>>}
      BY <1>3 DEF EndJob, slaveVars, handVars
  <2> QED BY <2>1
<1>4. CASE Publish \/ PublishFails \/ Lose
  <2>1. UNCHANGED <<run, hpc, from>> /\ net' \subseteq net
      BY <1>4 DEF Publish, PublishRand, PublishIp, PublishPort, PublishFails, Lose, slaveVars,
                  handVars, masterVars
  <2> QED BY <2>1
<1>5. CASE SlaveMain \/ Break
  <2>1. UNCHANGED <<run, hpc, from, net>>
      BY <1>5 DEF SlaveMain, Break, Lock, Connect, GetStatus, GetRand, GetIp, StoreIp, GetPort,
                  SendRegister, TestAck, masterVars, handVars
  <2> QED BY <2>1
<1>6. ASSUME NEW m \in Kinds, Handler(m) PROVE AckInv'
  <2>1. UNCHANGED <<run, from, net>>
      BY <1>6 DEF Handler, Check, Compare, Update, Cleanup, masterVars, handVars
  <2>2. hpc'["ACK"] # "none" => hpc["ACK"] # "none"
      BY <1>0, <1>6 DEF Handler, Check, Compare, Update, Cleanup, At, handVars
  <2> QED BY <2>1, <2>2
<1>7. ASSUME NEW m \in Kinds, NEW d \in net, Receive(m, d) PROVE AckInv'
  <2>1. run' = run /\ net' \subseteq net
      BY <1>7 DEF Receive, masterVars
  <2>2. CASE m = "ACK"
    <3>1. from'["ACK"] = <<d[2], d[3]>> /\ d[1] = "ACK"
        BY <1>0, <1>7, <2>2 DEF Receive
    <3> QED BY <2>1, <3>1
  <2>3. CASE m # "ACK"
    <3>1. from'["ACK"] = from["ACK"] /\ hpc'["ACK"] = hpc["ACK"]
        BY <1>0, <1>7, <2>3 DEF Receive, At
    <3> QED BY <2>1, <3>1
  <2> QED BY <2>2, <2>3
<1>8. CASE UNCHANGED vars
    BY <1>8 DEF vars, masterVars, handVars
<1> QED BY <1>1, <1>2, <1>3, <1>4, <1>5, <1>6, <1>7, <1>8 DEF Next

\* How a handler moves: only the listener starts one, and it compares only an
\* address that is there.
Moves(m) ==
  /\ UNCHANGED <<masterIp, masterPort, first, raced>>
  /\ \/ hpc[m] = "none" /\ hpc'[m] = "check" /\ ~ first
     \/ hpc[m] = "check" /\ hpc'[m] = "compare" /\ masterIp # None
     \/ hpc[m] # "none" /\ hpc'[m] \in {"none", "update", "cleanup"}

\* The steps that move a handler.
LEMMA HandlerSteps ==
  ASSUME TypeInv, [Next]_vars, ~ Restart, NEW m \in Kinds
  PROVE  hpc'[m] = hpc[m] \/ Moves(m)
<1>0. hpc \in [Kinds -> {"none", "check", "compare", "update", "cleanup"}]
      /\ "ACK" \in Kinds /\ "TERM" \in Kinds
    BY DEF TypeInv, TypeOK, Kinds
<1>1. CASE Publish \/ PublishFails \/ HandleRegister \/ EndJob \/ Lose
    BY <1>1 DEF Publish, PublishRand, PublishIp, PublishPort, PublishFails, HandleRegister,
                EndJob, Lose, slaveVars, handVars
<1>2. CASE SlaveMain \/ Break
    BY <1>2 DEF SlaveMain, Break, Lock, Connect, GetStatus, GetRand, GetIp, StoreIp, GetPort,
                SendRegister, TestAck, handVars
<1>3. ASSUME NEW k \in Kinds, Check(k) PROVE hpc'[m] = hpc[m] \/ Moves(m)
    BY <1>0, <1>3 DEF Check, At, Moves, addrVars, chirpVars
<1>4. ASSUME NEW k \in Kinds, Compare(k) PROVE hpc'[m] = hpc[m] \/ Moves(m)
    BY <1>0, <1>4 DEF Compare, At, Moves, addrVars, chirpVars
<1>5. CASE Update \/ Cleanup
    BY <1>0, <1>5 DEF Update, Cleanup, At, Moves, addrVars, chirpVars, handVars
<1>6. ASSUME NEW k \in Kinds, NEW d \in net, Receive(k, d) PROVE hpc'[m] = hpc[m] \/ Moves(m)
    BY <1>0, <1>6 DEF Receive, At, Moves, addrVars, chirpVars
<1>7. CASE UNCHANGED vars
    BY <1>7 DEF vars, handVars
<1> QED BY <1>1, <1>2, <1>3, <1>4, <1>5, <1>6, <1>7 DEF Next, Handler

\* Every step keeps PortInv.
LEMMA PortNext ==
  ASSUME TypeInv, PortInv, [Next]_vars
  PROVE  PortInv'
<1>1. CASE Restart
  <2>1. first' /\ \A m \in Kinds : hpc'[m] = "none"
      BY <1>1, Zenon DEF Restart, SlaveStarts
  <2> QED BY <2>1 DEF PortInv
<1>2. CASE ~ Restart
  <2>1. ~ first' => masterPort' # None
    <3>1. CASE GetPort
        BY <3>1 DEF GetPort, PortInv
    <3>2. CASE ~ GetPort
      <4>1. masterPort' = masterPort /\ first' = first
          BY <1>2, <3>2, AddrSteps DEF StoreIp, chirpVars
      <4> QED BY <4>1 DEF PortInv
    <3> QED BY <3>1, <3>2
  <2>2. ASSUME NEW m \in Kinds, hpc'[m] # "none" PROVE ~ first'
    <3>1. ~ first
        BY <1>2, <2>2, HandlerSteps DEF Moves, PortInv
    <3>2. GetPort => ~ first'
        BY <3>1, Zenon DEF GetPort
    <3>3. StoreIp => first' = first
        BY DEF StoreIp, chirpVars
    <3> QED BY <1>2, <3>1, <3>2, <3>3, AddrSteps
  <2> QED BY <2>1, <2>2 DEF PortInv
<1> QED BY <1>1, <1>2

\* A handler meets NULL only if raced is set.
LEMMA RaceNext ==
  ASSUME TypeInv, RaceInv, [Next]_vars
  PROVE  RaceInv'
<1>1. CASE Restart
  <2>1. \A m \in Kinds : hpc'[m] = "none"
      BY <1>1 DEF Restart, SlaveStarts
  <2> QED BY <2>1 DEF RaceInv
<1>2. CASE ~ Restart
  <2> SUFFICES ASSUME NEW m \in Kinds, hpc'[m] = "compare" PROVE masterIp' # None \/ raced'
      BY DEF RaceInv
  <2>1. CASE StoreIp
    <3>1. hpc[m] = "compare" /\ masterIp' = fetched
        BY <2>1 DEF StoreIp, handVars
    <3>2. fetched = None => raced'
        BY <2>1, <3>1, Zenon DEF StoreIp
    <3> QED BY <3>1, <3>2
  <2>2. CASE ~ StoreIp
    <3>1. masterIp' = masterIp /\ raced' = raced
      <4>1. GetPort => raced' = raced
          BY DEF GetPort
      <4> QED BY <1>2, <2>2, <4>1, AddrSteps
    <3>2. masterIp # None \/ raced
        BY <1>2, HandlerSteps DEF Moves, RaceInv
    <3> QED BY <3>1, <3>2
  <2> QED BY <2>1, <2>2
<1> QED BY <1>1, <1>2

\* A slave crashes comparing.
LEMMA CrashSteps ==
  ASSUME [Next]_vars, spc' = "crashed", spc # "crashed"
  PROVE  \E m \in Kinds : Compare(m)
<1>1. ~ Restart /\ ~ SlaveMain
    BY DEF Restart, SlaveStarts, SlaveMain, Lock, Connect, GetStatus, GetRand, GetIp, StoreIp,
           GetPort, SendRegister, TestAck, ReturnError
<1>2. ~ (Publish \/ PublishFails \/ HandleRegister \/ EndJob \/ Lose \/ Break)
    BY DEF Publish, PublishRand, PublishIp, PublishPort, PublishFails, HandleRegister, EndJob,
           Lose, Break, slaveVars
<1>3. \A m \in Kinds : ~ Check(m) /\ ~ Update /\ ~ Cleanup /\ \A d \in net : ~ Receive(m, d)
    BY DEF Check, Update, Cleanup, Receive
<1>4. ~ UNCHANGED vars
    BY DEF vars
<1> QED BY <1>1, <1>2, <1>3, <1>4 DEF Next, Handler

\* Every step that crashes is in a race or after a collision.
LEMMA CrashNext ==
  ASSUME Inv, AddrInv, AckInv, PortInv, RaceInv, CrashOnlyInRace, [Next]_vars
  PROVE  CrashOnlyInRace'
<1> SUFFICES ASSUME spc' = "crashed", ~ Collision' PROVE raced'
    BY DEF CrashOnlyInRace
<1>0. TypeInv /\ ~ Collision /\ ~ Restart
    BY CollisionStays DEF Inv, AdsInv, Restart, SlaveStarts
<1>1. raced => raced'
  <2>1. StoreIp /\ raced => raced'
      BY Zenon DEF StoreIp
  <2>2. GetPort => raced' = raced
      BY DEF GetPort
  <2> QED BY <1>0, <2>1, <2>2, AddrSteps
<1>2. CASE spc = "crashed"
    BY <1>0, <1>1, <1>2 DEF CrashOnlyInRace
<1>3. CASE spc # "crashed"
  <2>1. PICK m \in Kinds : Compare(m)
      BY <1>3, CrashSteps
  <2>2. CASE masterIp = None
      BY <1>1, <2>1, <2>2 DEF Compare, RaceInv
  <2>3. CASE masterIp # None
    <3>1. m = "ACK" /\ Foreign(m) /\ hpc["ACK"] # "none"
        BY <1>3, <2>1, <2>3 DEF Compare
    <3>2. Registering /\ masterPort # None
        BY <3>1 DEF Inv, KnownInv, Registering, PortInv, Kinds
    <3>3. masterIp = ip[run] /\ masterPort = port[run]
        BY <1>0, <2>3, <3>2 DEF AddrInv
    <3> QED BY <3>1, <3>3 DEF Foreign, AckInv
  <2> QED BY <2>2, <2>3
<1> QED BY <1>2, <1>3

-----------------------------------------------------------------------------
\* The invariant holds at first, ...
LEMMA InvInit == Init => Inv
BY TypeInit, AdsInit, ViewInit, KnownInit DEF Inv

\* ... every step keeps it, ...
LEMMA InvNext == Inv /\ [Next]_vars => Inv'
<1> SUFFICES ASSUME Inv, [Next]_vars PROVE Inv'
    OBVIOUS
<1>1. TypeInv'
    BY TypeNext DEF Inv
<1>2. AdsInv' /\ ViewInv'
    BY <1>1, AdsNext, ViewNext DEF Inv
<1>3. OldInv' /\ RegInv' /\ KnownInv'
    BY OldNext, RegNext, KnownNext DEF Inv, AdsInv
<1> QED BY <1>1, <1>2, <1>3 DEF Inv

\* ... and it implies the properties.
LEMMA InvSafe == Inv => TypeOK /\ AddressWhole /\ JoinedMaster
<1> SUFFICES ASSUME Inv PROVE TypeOK /\ AddressWhole /\ JoinedMaster
    OBVIOUS
<1> USE DEF Inv, TypeInv
<1>0. TypeOK
    OBVIOUS
<1>1. ASSUME spc \in {"send", "test", "joined"}, ~ Collision
      PROVE  /\ random \in Numbers
             /\ masterIp = adIp[random] /\ masterPort = adPort[random]
             /\ masterIp # None /\ masterPort # None
    BY <1>1 DEF ViewInv, HeldInv, Outside, TypeOK
<1>2. AddressWhole
  <2> SUFFICES ASSUME spc \in {"send", "test", "joined"}, ~ Collision
               PROVE  \E k \in 1 .. run : masterIp = ip[k] /\ masterPort = port[k]
      BY DEF AddressWhole
  <2>1. PICK k \in Runs : drawn[k] = random /\ masterIp = ip[k]
      BY <1>1 DEF AdsInv, AdInv
  <2>2. PICK l \in Runs : drawn[l] = random /\ masterPort = port[l]
      BY <1>1 DEF AdsInv, AdInv
  <2>3. k = l
      BY <1>1, <2>1, <2>2, RendezvousAssumption DEF Collision
  <2>4. k \in 1 .. run
      BY <1>1, <2>1, RendezvousAssumption DEF AdsInv, MasterInv, TypeOK, Runs
  <2> QED BY <2>1, <2>2, <2>3, <2>4
<1>3. JoinedMaster
  <2> SUFFICES ASSUME spc = "joined"
               PROVE  known /\ (Collision \/ (masterIp = ip[run] /\ masterPort = port[run]))
      BY DEF JoinedMaster
  <2>1. known
      BY DEF KnownInv
  <2>2. ~ Collision => masterIp = ip[run] /\ masterPort = port[run]
      BY <1>1, <2>1, RendezvousAssumption DEF RegInv, Registering
  <2> QED BY <2>1, <2>2
<1> QED BY <1>0, <1>2, <1>3

\* The additional parts hold at first.
LEMMA CrashInit == Init => AddrInv /\ AckInv /\ PortInv /\ RaceInv /\ CrashOnlyInRace
<1> SUFFICES ASSUME Init PROVE AddrInv /\ AckInv /\ PortInv /\ RaceInv /\ CrashOnlyInRace
    OBVIOUS
<1>1. ~ known /\ first
    BY Zenon DEF Init
<1>2. regs = {} /\ net = {} /\ spc = "lock" /\ "ACK" \in Kinds /\ \A m \in Kinds : hpc[m] = "none"
    BY DEF Init, Kinds
<1> QED BY <1>1, <1>2 DEF AddrInv, Registering, AckInv, PortInv, RaceInv, CrashOnlyInRace

\* Every variable keeps its type, however often the job is run again.
THEOREM TypeCorrect == Spec => []TypeOK
BY InvInit, InvNext, InvSafe, PTL DEF Spec

\* However often the job is run again, wherever its masters are and in
\* whatever order attributes are written and read: chirp_info gives the
\* address of one master unless two drew the same number, ...
THEOREM AddressIsOneMasters == Spec => []AddressWhole
BY InvInit, InvNext, InvSafe, PTL DEF Spec

\* ... a slave that has its ACK is known to the master of its run and has
\* that master's address, ...
THEOREM JoinsItsMaster == Spec => []JoinedMaster
BY InvInit, InvNext, InvSafe, PTL DEF Spec

\* ... and a slave crashes only where a handler's test and use of the address
\* straddle chirp_info's store of NULL, or where two numbers collide.
THEOREM CrashesInRace == Spec => []CrashOnlyInRace
<1> DEFINE IInv == Inv /\ AddrInv /\ AckInv /\ PortInv /\ RaceInv /\ CrashOnlyInRace
<1>1. Init => IInv
    BY InvInit, CrashInit
<1>2. IInv /\ [Next]_vars => IInv'
    BY InvNext, AddrNext, AckNext, PortNext, RaceNext, CrashNext DEF Inv
<1>3. IInv => CrashOnlyInRace
    OBVIOUS
<1> QED BY <1>1, <1>2, <1>3, PTL DEF Spec
=============================================================================
