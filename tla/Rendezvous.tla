----------------------------- MODULE Rendezvous -----------------------------
(***************************************************************************)
(* How a slave finds the master.  The master draws a number and publishes  *)
(* it, its IP address and its port in the job ad, one attribute after the  *)
(* other and the last two under names that contain the number.  The ad     *)
(* outlives a run of the job: what an earlier master has left in it is     *)
(* still there.  A slave reads the three attributes, sends REGISTER to     *)
(* that address and, until an ACK has come, reads them again beside the    *)
(* handlers that compare the sender of a datagram with the address.        *)
(***************************************************************************)
EXTENDS Integers

CONSTANTS
  Numbers,   \* what rand() % SHRT_MAX may give
  Ips, Ports,
  MaxRuns,   \* bound: runs of the job
  ip, port,  \* ip[k], port[k]: the address of the master of run k
  None       \* a missing attribute, NULL

Runs  == 1 .. MaxRuns
Kinds == {"ACK", "TERM"}

ASSUME RendezvousAssumption ==
  /\ MaxRuns \in Nat \ {0}
  /\ ip \in [Runs -> Ips] /\ port \in [Runs -> Ports]
  /\ None \notin Numbers \cup Ips \cup Ports

VARIABLES
  run,              \* the current run of the job
  drawn,            \* drawn[k]: number of the master of run k, or None
  mpc,              \* the master: "rand", "ip", "port", "up" or "gone"
  known,            \* the master has the slave in its table
  adRand,           \* the job ad: RandInt, ...
  adIp, adPort,     \* ... MasterIpAddr_<n> and MasterPort_<n>
  spc,              \* main of the slave
  first,            \* main is in its first call of chirp_info
  random, fetched,  \* locals of chirp_info
  broken,           \* the chirp connection is broken
  masterIp, masterPort,  \* par_wrapper->master
  mutex,            \* par_wrapper->mutex: "free" or "main"
  alive,            \* last_alive of the master has changed
  hpc,              \* hpc[m]: the slave's handler of an m, one of each kind
  from,             \* from[m]: the address its datagram came from
  regs,             \* addresses to which a REGISTER is under way
  net,              \* datagrams under way to the slave: <<kind, ip, port>>
  raced             \* history: masterIp became NULL after a handler's test

adVars     == <<adRand, adIp, adPort>>
masterVars == <<run, drawn, mpc, known>>
chirpVars  == <<first, random, fetched, broken>>
addrVars   == <<masterIp, masterPort>>
handVars   == <<hpc, from>>
vars == <<masterVars, adVars, spc, chirpVars, addrVars, mutex, alive, handVars,
          regs, net, raced>>

\* The slave as its process starts: an empty master structure.
SlaveStarts ==
  /\ spc' = "lock" /\ first' = TRUE
  /\ random' = None /\ fetched' = None /\ broken' = FALSE
  /\ masterIp' = None /\ masterPort' = None
  /\ mutex' = "free" /\ alive' = FALSE
  /\ hpc' = [m \in Kinds |-> "none"]
  /\ from' = [m \in Kinds |-> <<None, None>>]
  /\ regs' = {} /\ net' = {}
  /\ raced' = FALSE

Init ==
  /\ run = 1
  /\ drawn = [k \in Runs |-> None]
  /\ mpc = "rand" /\ known = FALSE
  /\ adRand = None
  /\ adIp = [n \in Numbers |-> None] /\ adPort = [n \in Numbers |-> None]
  /\ spc = "lock" /\ first = TRUE
  /\ random = None /\ fetched = None /\ broken = FALSE
  /\ masterIp = None /\ masterPort = None
  /\ mutex = "free" /\ alive = FALSE
  /\ hpc = [m \in Kinds |-> "none"]
  /\ from = [m \in Kinds |-> <<None, None>>]
  /\ regs = {} /\ net = {}
  /\ raced = FALSE

\* The job is evicted and run again: new processes, the same ad.  (Datagrams
\* of the old run find their sockets closed.)
Restart ==
  /\ run < MaxRuns
  /\ run' = run + 1
  /\ mpc' = "rand" /\ known' = FALSE
  /\ SlaveStarts
  /\ UNCHANGED <<drawn, adVars>>

-----------------------------------------------------------------------------
(***************************************************************************)
(* The master.                                                             *)
(***************************************************************************)
slaveVars == <<spc, chirpVars, addrVars, mutex, alive, handVars, raced>>

PublishRand(n) ==
  /\ mpc = "rand"
  /\ drawn' = [drawn EXCEPT ![run] = n]
  /\ adRand' = n
  /\ mpc' = "ip"
  /\ UNCHANGED <<run, known, adIp, adPort, slaveVars, regs, net>>

PublishIp ==
  /\ mpc = "ip"
  /\ adIp' = [adIp EXCEPT ![drawn[run]] = ip[run]]
  /\ mpc' = "port"
  /\ UNCHANGED <<run, drawn, known, adRand, adPort, slaveVars, regs, net>>

\* After the port the listener is started.
PublishPort ==
  /\ mpc = "port"
  /\ adPort' = [adPort EXCEPT ![drawn[run]] = port[run]]
  /\ mpc' = "up"
  /\ UNCHANGED <<run, drawn, known, adRand, adIp, slaveVars, regs, net>>

Publish == (\E n \in Numbers : PublishRand(n)) \/ PublishIp \/ PublishPort

\* An attribute cannot be set, or chirp not be reached: main returns 2.
PublishFails ==
  /\ mpc \in {"rand", "ip", "port"}
  /\ mpc' = "gone"
  /\ UNCHANGED <<run, drawn, known, adVars, slaveVars, regs, net>>

\* handle_register enters the slave, or finds it entered with this address;
\* in both cases it answers.  The datagram may be duplicated.
HandleRegister ==
  /\ mpc = "up"
  /\ <<ip[run], port[run]>> \in regs
  /\ regs' \in {regs, regs \ {<<ip[run], port[run]>>}}
  /\ known' = TRUE
  /\ net' = net \cup {<<"ACK", ip[run], port[run]>>}
  /\ UNCHANGED <<run, drawn, mpc, adVars, slaveVars>>

\* The job ends: TERM to a slave of the table.
EndJob ==
  /\ mpc = "up"
  /\ mpc' = "gone"
  /\ net' = IF known THEN net \cup {<<"TERM", ip[run], port[run]>>} ELSE net
  /\ UNCHANGED <<run, drawn, known, adVars, slaveVars, regs>>

-----------------------------------------------------------------------------
(***************************************************************************)
(* chirp_info in the slave.                                                *)
(***************************************************************************)
SlaveUp == spc \notin {"exited", "crashed"}

\* chirp_info returns an error: main gives up in its first call and ignores
\* it in the later ones.
ReturnError == spc' = IF first THEN "exited" ELSE "send"

Lock ==
  /\ spc = "lock"
  /\ mutex = "free"
  /\ mutex' = "main"
  /\ spc' = "connect"
  /\ UNCHANGED <<masterVars, adVars, chirpVars, addrVars, alive, handVars, regs, net,
                 raced>>

\* A connection, and the mutex is unlocked.  Without one the error is
\* returned with the mutex locked.
Connect ==
  /\ spc = "connect"
  /\ \/ spc' = "status" /\ mutex' = "free" /\ broken' = FALSE
     \/ ReturnError /\ UNCHANGED <<mutex, broken>>
  /\ UNCHANGED <<masterVars, adVars, first, random, fetched, addrVars, alive, handVars,
                 regs, net, raced>>

\* EnteredCurrentStatus is the one attribute that must be there.
GetStatus ==
  /\ spc = "status"
  /\ IF broken THEN ReturnError ELSE spc' = "rand"
  /\ UNCHANGED <<masterVars, adVars, chirpVars, addrVars, mutex, alive, handVars, regs,
                 net, raced>>

\* The loop: RandInt, ...
GetRand ==
  /\ spc = "rand"
  /\ ~ broken /\ adRand # None
  /\ random' = adRand
  /\ spc' = "ip"
  /\ UNCHANGED <<masterVars, adVars, first, fetched, broken, addrVars, mutex, alive,
                 handVars, regs, net, raced>>

\* ... the value of MasterIpAddr_<random>, ...
GetIp ==
  /\ spc = "ip"
  /\ fetched' = IF broken THEN None ELSE adIp[random]
  /\ spc' = "store"
  /\ UNCHANGED <<masterVars, adVars, first, random, broken, addrVars, mutex, alive,
                 handVars, regs, net, raced>>

\* ... which is stored, NULL included, without the mutex, ...
StoreIp ==
  /\ spc = "store"
  /\ masterIp' = fetched
  /\ spc' = IF fetched = None THEN "rand" ELSE "port"
  /\ raced' = (raced \/ (fetched = None /\ \E m \in Kinds : hpc[m] = "compare"))
  /\ UNCHANGED <<masterVars, adVars, chirpVars, masterPort, mutex, alive, handVars, regs,
                 net>>

\* Mutant: a missing port is not waited for.
GetPortMissing ==
  /\ spc = "port"
  /\ masterPort' = IF broken THEN None ELSE adPort[random]
  /\ spc' = "send" /\ first' = FALSE
  /\ UNCHANGED <<masterVars, adVars, random, fetched, broken, masterIp, mutex, alive,
                 handVars, regs, net, raced>>

\* ... and MasterPort_<random>.  With all three chirp_info succeeds, and
\* after its first call main starts the listener.
GetPort ==
  /\ spc = "port"
  /\ \/ /\ ~ broken /\ adPort[random] # None
        /\ masterPort' = adPort[random]
        /\ spc' = "send" /\ first' = FALSE
     \/ /\ broken \/ adPort[random] = None
        /\ spc' = "rand"
        /\ UNCHANGED <<masterPort, first>>
  /\ UNCHANGED <<masterVars, adVars, random, fetched, broken, masterIp, mutex, alive,
                 handVars, regs, net, raced>>

\* The chirp connection breaks while it is in use.
Break ==
  /\ spc \in {"status", "rand", "ip", "port"} /\ ~ broken
  /\ broken' = TRUE
  /\ UNCHANGED <<masterVars, adVars, spc, first, random, fetched, addrVars, mutex, alive,
                 handVars, regs, net, raced>>

-----------------------------------------------------------------------------
(***************************************************************************)
(* The register loop and the handlers of the slave.                        *)
(***************************************************************************)

\* register_cmd, and a second of sleep.  If it fails, the address is read
\* again without the test.
SendRegister ==
  /\ spc = "send"
  /\ \/ regs' = regs \cup {<<masterIp, masterPort>>} /\ spc' = "test"
     \/ spc' = "lock" /\ UNCHANGED regs
  /\ UNCHANGED <<masterVars, adVars, chirpVars, addrVars, mutex, alive, handVars, net,
                 raced>>

\* Mutant: the address is not read again.
TestAckOnce ==
  /\ spc = "test"
  /\ spc' = IF alive THEN "joined" ELSE "send"
  /\ UNCHANGED <<masterVars, adVars, chirpVars, addrVars, mutex, alive, handVars, regs,
                 net, raced>>

\* Mutant: the slave goes on without the ACK.
TestAckSent ==
  /\ spc = "test"
  /\ spc' = "joined"
  /\ UNCHANGED <<masterVars, adVars, chirpVars, addrVars, mutex, alive, handVars, regs,
                 net, raced>>

\* Has last_alive changed?  If not, chirp_info is called once more.
TestAck ==
  /\ spc = "test"
  /\ spc' = IF alive THEN "joined" ELSE "lock"
  /\ UNCHANGED <<masterVars, adVars, chirpVars, addrVars, mutex, alive, handVars, regs,
                 net, raced>>

SlaveMain ==
  Lock \/ Connect \/ GetStatus \/ GetRand \/ GetIp \/ StoreIp \/ GetPort
    \/ SendRegister \/ TestAck

At(m, label) == hpc' = [hpc EXCEPT ![m] = label]

\* The listener hands a datagram, maybe a duplicate, to a handler.
Receive(m, d) ==
  /\ SlaveUp /\ ~ first
  /\ d \in net /\ d[1] = m /\ hpc[m] = "none"
  /\ net' \in {net, net \ {d}}
  /\ from' = [from EXCEPT ![m] = <<d[2], d[3]>>]
  /\ At(m, "check")
  /\ UNCHANGED <<masterVars, adVars, spc, chirpVars, addrVars, mutex, alive, regs, raced>>

\* Mutant: the address is not tested.
CheckNothing(m) ==
  /\ SlaveUp
  /\ hpc[m] = "check"
  /\ At(m, "compare")
  /\ UNCHANGED <<masterVars, adVars, spc, chirpVars, addrVars, mutex, alive, from, regs,
                 net, raced>>

\* handle_ack, handle_term: is the master's address known, ...
Check(m) ==
  /\ SlaveUp
  /\ hpc[m] = "check"
  /\ At(m, IF masterIp = None THEN "none" ELSE "compare")
  /\ UNCHANGED <<masterVars, adVars, spc, chirpVars, addrVars, mutex, alive, from, regs,
                 net, raced>>

Foreign(m) == <<masterIp, masterPort>> # from[m]

\* ... and is it the sender's?  strcmp crashes if it has become NULL.  So
\* may the warning of handle_ack about a foreign sender, which gives %s a
\* port number.
Compare(m) ==
  /\ SlaveUp
  /\ hpc[m] = "compare"
  /\ \/ spc' = "crashed" /\ (masterIp = None \/ (m = "ACK" /\ Foreign(m)))
     \/ spc' = spc /\ masterIp # None
  /\ At(m, IF Foreign(m) THEN "none" ELSE IF m = "ACK" THEN "update" ELSE "cleanup")
  /\ UNCHANGED <<masterVars, adVars, chirpVars, addrVars, mutex, alive, from, regs, net,
                 raced>>

\* handle_ack locks the mutex and sets last_alive.
Update ==
  /\ SlaveUp
  /\ hpc["ACK"] = "update" /\ mutex = "free"
  /\ alive' = TRUE
  /\ At("ACK", "none")
  /\ UNCHANGED <<masterVars, adVars, spc, chirpVars, addrVars, mutex, from, regs, net,
                 raced>>

\* cleanup, of which Shutdown has the steps, tries to lock the mutex and
\* goes on to exit in any case.
Cleanup ==
  /\ SlaveUp
  /\ hpc["TERM"] = "cleanup"
  /\ spc' = "exited"
  /\ UNCHANGED <<masterVars, adVars, chirpVars, addrVars, mutex, alive, handVars, regs,
                 net, raced>>

Handler(m) == Check(m) \/ Compare(m) \/ (m = "ACK" /\ Update) \/ (m = "TERM" /\ Cleanup)

Lose ==
  /\ \/ \E a \in regs : regs' = regs \ {a} /\ UNCHANGED net
     \/ \E d \in net : net' = net \ {d} /\ UNCHANGED regs
  /\ UNCHANGED <<masterVars, adVars, slaveVars>>

-----------------------------------------------------------------------------
Next ==
  \/ Restart \/ Publish \/ PublishFails \/ HandleRegister \/ EndJob
  \/ SlaveMain \/ Break \/ Lose
  \/ \E m \in Kinds : Handler(m) \/ \E d \in net : Receive(m, d)

Spec == Init /\ [][Next]_vars

\* Threads run and get a mutex that is free again and again; a datagram that
\* is sent again and again arrives some day; not every connection to chirp
\* breaks and not every send fails.
FairSpec ==
  /\ Spec
  /\ WF_vars(Publish) /\ WF_vars(SlaveMain)
  /\ \A m \in Kinds : WF_vars(Handler(m))
  /\ SF_vars(HandleRegister)
  /\ SF_vars(\E d \in net : Receive("ACK", d))
  /\ SF_vars(Update) /\ SF_vars(GetStatus /\ spc' = "rand")
  /\ SF_vars(SendRegister /\ spc' = "test")

-----------------------------------------------------------------------------
(***************************************************************************)
(* Properties.                                                             *)
(***************************************************************************)

\* The type invariant.
TypeOK ==
  /\ run \in Runs
  /\ drawn \in [Runs -> Numbers \cup {None}]
  /\ mpc \in {"rand", "ip", "port", "up", "gone"} /\ known \in BOOLEAN
  /\ adRand \in Numbers \cup {None}
  /\ adIp \in [Numbers -> Ips \cup {None}] /\ adPort \in [Numbers -> Ports \cup {None}]
  /\ spc \in {"lock", "connect", "status", "rand", "ip", "store", "port", "send", "test",
              "joined", "exited", "crashed"}
  /\ first \in BOOLEAN /\ random \in Numbers \cup {None} /\ broken \in BOOLEAN
  /\ fetched \in Ips \cup {None}
  /\ masterIp \in Ips \cup {None} /\ masterPort \in Ports \cup {None}
  /\ mutex \in {"free", "main"} /\ alive \in BOOLEAN
  /\ hpc \in [Kinds -> {"none", "check", "compare", "update", "cleanup"}]
  /\ from \in [Kinds -> (Ips \cup {None}) \X (Ports \cup {None})]
  /\ regs \subseteq Ips \X Ports
  /\ net \subseteq Kinds \X Ips \X Ports
  /\ raced \in BOOLEAN

\* Two masters drew the same number.
Collision == \E k, l \in Runs : k # l /\ drawn[k] # None /\ drawn[k] = drawn[l]

\* The address to which a slave sends REGISTER is that of one master, of
\* this run or of an earlier one: chirp_info never returns with the IP
\* address of one and the port of another, though it reads them one by one
\* from an ad that changes meanwhile, unless two masters drew the same
\* number.
AddressWhole ==
  spc \in {"send", "test", "joined"} =>
    Collision \/ \E k \in 1 .. run : masterIp = ip[k] /\ masterPort = port[k]

\* A slave that has joined is in the table of the master of this run and,
\* unless two masters drew the same number, has its address, and so will
\* take its TERM, whatever address it began with and though it may have read
\* the ad again after the ACK.
JoinedMaster ==
  spc = "joined" =>
    /\ known
    /\ Collision \/ (masterIp = ip[run] /\ masterPort = port[run])

\* The slave only crashes if chirp_info stored a NULL address between a
\* handler's test and its use, or two masters drew the same number: no handler
\* tests NULL and goes on, and no ACK reaches the warning about a foreign
\* sender, whatever addresses the slave has tried before.  (With a number
\* drawn twice it may: the slave has sent REGISTER to this run's master at an
\* address an earlier one had too, then reads an older one under the number.)
CrashOnlyInRace == spc = "crashed" => raced \/ Collision

\* Where chirp_info leaves a slave for good: waiting for the mutex it has
\* itself left locked, or asking a broken connection in a loop that never
\* connects again.
Stuck ==
  \/ spc = "lock" /\ mutex = "main"
  \/ spc \in {"rand", "ip", "store", "port"} /\ broken

\* In every run the slave joins the master of that run, whatever addresses
\* earlier masters have left in the ad and though datagrams are lost,
\* unless a process is gone or the slave is stuck.
SlaveJoins == []<>(spc = "joined" \/ ~ SlaveUp \/ mpc = "gone" \/ Stuck)
=============================================================================
