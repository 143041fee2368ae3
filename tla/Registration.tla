---------------------------- MODULE Registration ----------------------------
(***************************************************************************)
(* The master's side of registration.  The listener hands every REGISTER   *)
(* datagram to a detached process_message thread; the threads fill the     *)
(* table par_wrapper->machines while the main thread waits for it to fill, *)
(* writes the machine file and the ssh configuration from it, marks the    *)
(* unique hosts and decides whether the working directory is shared.       *)
(*                                                                         *)
(* Only the assignments to a table entry are made under                    *)
(* par_wrapper->mutex: the NULL test and the calloc that publishes the     *)
(* entry are outside it, and the main thread never takes it.               *)
(***************************************************************************)
EXTENDS Integers

CONSTANTS
  NumProcs,   \* par_wrapper->num_procs
  Procs,      \* the slave processes that send REGISTER
  RankOf,     \* the rank each of them puts in its REGISTER
  IpOf,       \* the source IP address of a process, ...
  PortOf,     \* ... its source port ...
  IwdOf,      \* ... and the working directory it announces
  Master,     \* the master's own process (rank 0)
  Threads,    \* bound: process_message threads alive at the same time
  Timeout,    \* par_wrapper->timeout: rounds of the wait loop
  NULL        \* the NULL pointer, and the owner of a free mutex

Ranks  == 0 .. NumProcs - 1
Owners == Procs \cup {Master}

\* The two sides of an (ip, port) pair never coincide for two processes.
ASSUME RegistrationAssumption ==
  /\ NumProcs \in Nat \ {0}
  /\ RankOf \in [Procs -> Nat \ {0}]
  /\ Master \notin Procs
  /\ NULL \notin Owners \cup Threads
  /\ Timeout \in Nat \ {0}
  /\ \A p, q \in Owners :
        IpOf[p] = IpOf[q] /\ PortOf[p] = PortOf[q] => p = q

\* The fields of struct machine that another thread reads, numbered in the
\* order handle_register assigns them (rank is the index itself, and user
\* only text for ssh_config).
Fields  == 1 .. 4
ip_addr == 1
cpus    == 2
iwd     == 3
port    == 4

VARIABLES
  present,      \* ranks r with machines[r] # NULL
  machines,     \* machines[r][f]: the process whose datum the field holds
  unique,       \* ranks whose entry has unique = 1
  mutex,        \* the thread holding par_wrapper->mutex, or NULL
  tpc, tproc,   \* process_message threads: control point, sender served,
  tfield,       \* ... and the next field to assign
  mpc,          \* control point of the master's main thread
  j,            \* rounds of the wait loop so far
  i,            \* index of the loop over ranks main is in
  machineFile,  \* rows of machines.txt: the rank, and whether a field was
                \* still zero when it was read
  sshConfig,    \* ranks with a row in ssh_config
  sharedFs,     \* main's shared_fs flag
  regs, acks,   \* REGISTER and ACK datagrams in flight, by slave
  slave         \* "registering" or "joined"

mainVars   == <<mpc, j, i, machineFile, sshConfig, sharedFs>>
tableVars  == <<present, machines, unique>>
threadVars == <<mutex, tpc, tproc, tfield>>
netVars    == <<regs, acks, slave>>
vars       == <<tableVars, threadVars, mainVars, netVars>>

\* calloc: every field zero.
Blank == [f \in Fields |-> NULL]

\* An entry whose fields all hold the data of process p.
EntryOf(p) == [f \in Fields |-> p]

Init ==
  /\ present = {0}
  /\ machines = [r \in Ranks |-> IF r = 0 THEN EntryOf(Master) ELSE Blank]
  /\ unique = {}
  /\ mutex = NULL
  /\ tpc = [t \in Threads |-> "idle"]
  /\ tproc = [t \in Threads |-> NULL]
  /\ tfield = [t \in Threads |-> 1]
  /\ mpc = "wait"
  /\ j = 0
  /\ i = 0
  /\ machineFile = {}
  /\ sshConfig = {}
  /\ sharedFs = TRUE
  /\ regs = {}
  /\ acks = {}
  /\ slave = [p \in Procs |-> "registering"]

\* The master process runs: neither dead of a NULL dereference nor gone
\* through cleanup(par_wrapper, 5).
MasterUp == mpc \notin {"crashed", "cleanup"}

-----------------------------------------------------------------------------
(***************************************************************************)
(* Slaves and network.  A slave sends REGISTER until an ACK of the master  *)
(* has moved master->last_alive.  A datagram may be lost or late, and a    *)
(* REGISTER delivered more than once; a second ACK changes nothing here.   *)
(***************************************************************************)
SendRegister(p) ==
  /\ slave[p] = "registering"
  /\ regs' = regs \cup {p}
  /\ UNCHANGED <<acks, slave, tableVars, threadVars, mainVars>>

RecvAck(p) ==
  /\ p \in acks
  /\ slave' = [slave EXCEPT ![p] = "joined"]
  /\ acks' = acks \ {p}
  /\ UNCHANGED <<regs, tableVars, threadVars, mainVars>>

Lose(p) ==
  /\ \/ p \in regs /\ regs' = regs \ {p} /\ acks' = acks
     \/ p \in acks /\ acks' = acks \ {p} /\ regs' = regs
  /\ UNCHANGED <<slave, tableVars, threadVars, mainVars>>

-----------------------------------------------------------------------------
(***************************************************************************)
(* process_message threads serving REGISTER (handle_register).             *)
(***************************************************************************)
Goto(t, label) == tpc' = [tpc EXCEPT ![t] = label]

\* A handler returns and its thread ends.
Exit(t) ==
  /\ tpc' = [tpc EXCEPT ![t] = "idle"]
  /\ tproc' = [tproc EXCEPT ![t] = NULL]

\* The handler's last call: ACK to the sender of the datagram.
AckAndExit(t) ==
  /\ acks' = acks \cup {tproc[t]}
  /\ Exit(t)

\* The listener receives p's REGISTER and starts thread t for it, which
\* ignores a rank out of range and else tests machines[rank] == NULL.  What
\* passes between the two is not told apart from a slower datagram.
Receive(t, p) ==
  /\ MasterUp
  /\ p \in regs
  /\ tpc[t] = "idle"
  /\ regs' \in {regs, regs \ {p}}
  /\ IF RankOf[p] \in Ranks
       THEN /\ tproc' = [tproc EXCEPT ![t] = p]
            /\ Goto(t, IF RankOf[p] \in present THEN "compare" ELSE "alloc")
       ELSE UNCHANGED <<tproc, tpc>>
  /\ UNCHANGED <<acks, slave, mutex, tfield, tableVars, mainVars>>

\* machines[rank] = calloc(...): whatever the entry was, it is now all zero.
Alloc(t) ==
  LET r == RankOf[tproc[t]] IN
  /\ MasterUp
  /\ tpc[t] = "alloc"
  /\ present' = present \cup {r}
  /\ machines' = [machines EXCEPT ![r] = Blank]
  /\ unique' = unique \ {r}
  /\ Goto(t, "lock")
  /\ UNCHANGED <<mutex, tproc, tfield, mainVars, netVars>>

\* Mutant: the lock is not taken.
LockNoWait(t) ==
  /\ MasterUp
  /\ tpc[t] = "lock"
  /\ Goto(t, "fill")
  /\ UNCHANGED <<mutex, tproc, tfield, tableVars, mainVars, netVars>>

Lock(t) ==
  /\ MasterUp
  /\ tpc[t] = "lock"
  /\ mutex = NULL
  /\ mutex' = t
  /\ Goto(t, "fill")
  /\ UNCHANGED <<tproc, tfield, tableVars, mainVars, netVars>>

\* Mutant: the working directory is never stored.
FillNoIwd(t) ==
  LET f == tfield[t] IN
  /\ MasterUp
  /\ tpc[t] = "fill"
  /\ machines' = [machines EXCEPT ![RankOf[tproc[t]]][f] = tproc[t]]
  /\ IF f \in Fields \ {port}
       THEN /\ tfield' = [tfield EXCEPT ![t] = IF f = cpus THEN port ELSE f + 1]
            /\ UNCHANGED <<tpc, tproc, mutex, acks>>
       ELSE /\ tfield' = [tfield EXCEPT ![t] = 1]
            /\ mutex' = NULL
            /\ AckAndExit(t)
  /\ UNCHANGED <<present, unique, mainVars, regs, slave>>

\* One assignment machines[rank]->field = ...; after the last one the
\* thread unlocks and sends the ACK.
Fill(t) ==
  LET f == tfield[t] IN
  /\ MasterUp
  /\ tpc[t] = "fill"
  /\ machines' = [machines EXCEPT ![RankOf[tproc[t]]][f] = tproc[t]]
  /\ IF f \in Fields \ {port}
       THEN /\ tfield' = [tfield EXCEPT ![t] = f + 1]
            /\ UNCHANGED <<tpc, tproc, mutex, acks>>
       ELSE /\ tfield' = [tfield EXCEPT ![t] = 1]
            /\ mutex' = NULL
            /\ AckAndExit(t)
  /\ UNCHANGED <<present, unique, mainVars, regs, slave>>

\* Already allocated: strcmp(machines[rank]->ip_addr, ...) crashes on NULL
\* and turns away a sender with another address, ...
CompareIp(t) ==
  LET e == machines[RankOf[tproc[t]]] IN
  /\ MasterUp
  /\ tpc[t] = "compare"
  /\ IF e[ip_addr] = NULL
       THEN mpc' = "crashed" /\ UNCHANGED <<tpc, tproc>>
       ELSE /\ IF IpOf[e[ip_addr]] = IpOf[tproc[t]]
                 THEN Goto(t, "port") /\ UNCHANGED tproc
                 ELSE Exit(t)
            /\ UNCHANGED mpc
  /\ UNCHANGED <<mutex, tfield, tableVars, netVars,
                 j, i, machineFile, sshConfig, sharedFs>>

\* Mutant: a REGISTER of a registered process is not acknowledged again.
ComparePortSilent(t) ==
  /\ MasterUp
  /\ tpc[t] = "port"
  /\ Exit(t)
  /\ UNCHANGED <<acks, mutex, tfield, tableVars, regs, slave, mainVars>>

\* ... and so does another port; a port still 0 is another port.
ComparePort(t) ==
  LET q == machines[RankOf[tproc[t]]][port] IN
  /\ MasterUp
  /\ tpc[t] = "port"
  /\ IF q # NULL /\ PortOf[q] = PortOf[tproc[t]]
       THEN AckAndExit(t)
       ELSE Exit(t) /\ UNCHANGED acks
  /\ UNCHANGED <<mutex, tfield, tableVars, regs, slave, mainVars>>

Handler(t) ==
  Alloc(t) \/ Lock(t) \/ Fill(t) \/ CompareIp(t) \/ ComparePort(t)

-----------------------------------------------------------------------------
(***************************************************************************)
(* The master's main thread, from the wait loop to the shared_fs decision. *)
(***************************************************************************)

\* Mutant: one round too many.
WaitRoundLate ==
  /\ mpc = "wait"
  /\ j' = j + 1
  /\ IF present = Ranks \/ j + 1 > Timeout
       THEN mpc' = "file"
       ELSE UNCHANGED mpc
  /\ UNCHANGED <<i, machineFile, sshConfig, sharedFs,
                 tableVars, threadVars, netVars>>

\* One round of the wait loop: leave when no entry is NULL, or on timeout.
WaitRound ==
  /\ mpc = "wait"
  /\ j' = j + 1
  /\ IF present = Ranks \/ j + 1 >= Timeout
       THEN mpc' = "file"
       ELSE UNCHANGED mpc
  /\ UNCHANGED <<i, machineFile, sshConfig, sharedFs,
                 tableVars, threadVars, netVars>>

\* Advance a loop over the ranks; after the last one go on to `next'.
NextRank(next) ==
  IF i + 1 \in Ranks
    THEN i' = i + 1 /\ UNCHANGED mpc
    ELSE i' = 0 /\ mpc' = next

\* Mutant: a row for every rank, registered or not.
WriteMachineRowAll ==
  /\ mpc = "file"
  /\ machineFile' = machineFile \cup {[rank |-> i, torn |-> i \notin present]}
  /\ NextRank("ssh")
  /\ UNCHANGED <<j, sshConfig, sharedFs, tableVars, threadVars, netVars>>

\* create_machine_file, one rank at a time.
WriteMachineRow ==
  /\ mpc = "file"
  /\ machineFile' =
        IF i \in present
          THEN machineFile \cup
                 {[rank |-> i, torn |-> NULL \in {machines[i][ip_addr],
                                                  machines[i][cpus]}]}
          ELSE machineFile
  /\ NextRank("ssh")
  /\ UNCHANGED <<j, sshConfig, sharedFs,
                 tableVars, threadVars, netVars>>

\* Mutant: entries without an address are left out.
WriteSshRowAddressed ==
  /\ mpc = "ssh"
  /\ sshConfig' = sshConfig \cup {r \in {i} \cap present :
                                    machines[r][ip_addr] # NULL}
  /\ NextRank("mark")
  /\ UNCHANGED <<j, machineFile, sharedFs, tableVars, threadVars, netVars>>

\* create_ssh_config, one rank at a time.
WriteSshRow ==
  /\ mpc = "ssh"
  /\ sshConfig' = sshConfig \cup ({i} \cap present)
  /\ NextRank("mark")
  /\ UNCHANGED <<j, machineFile, sharedFs,
                 tableVars, threadVars, netVars>>

\* A file cannot be created: cleanup(par_wrapper, 5).
OpenFails ==
  /\ mpc \in {"file", "ssh"}
  /\ i = 0
  /\ mpc' = "cleanup"
  /\ UNCHANGED <<j, i, machineFile, sshConfig, sharedFs,
                 tableVars, threadVars, netVars>>

\* All machines are initially unique.
MarkUnique ==
  /\ mpc = "mark"
  /\ unique' = unique \cup ({i} \cap present)
  /\ NextRank("dedup")
  /\ UNCHANGED <<j, machineFile, sshConfig, sharedFs,
                 present, machines, threadVars, netVars>>

SameHost(r, s) == IpOf[machines[r][ip_addr]] = IpOf[machines[s][ip_addr]]

\* Mutant: the inner loop starts one rank too far.
DedupSkipsNext ==
  LET later == IF i \in unique THEN {s \in unique : s > i + 1} ELSE {} IN
  /\ mpc = "dedup"
  /\ IF \E s \in later : NULL \in {machines[i][ip_addr], machines[s][ip_addr]}
       THEN mpc' = "crashed" /\ UNCHANGED <<unique, i>>
       ELSE /\ unique' = unique \ {s \in later : SameHost(i, s)}
            /\ NextRank("shared")
  /\ UNCHANGED <<j, machineFile, sshConfig, sharedFs,
                 present, machines, threadVars, netVars>>

\* The outer loop for rank i: a rank still unique is compared with the later
\* unique ones, and those on its host stop being so.  A NULL ip_addr crashes.
\* The inner loop is one step: all a handler can do between two comparisons
\* is to wipe an entry, which ends in the same crash or clears unique anyway.
Dedup ==
  LET later == IF i \in unique THEN {s \in unique : s > i} ELSE {} IN
  /\ mpc = "dedup"
  /\ IF \E s \in later : NULL \in {machines[i][ip_addr], machines[s][ip_addr]}
       THEN mpc' = "crashed" /\ UNCHANGED <<unique, i>>
       ELSE /\ unique' = unique \ {s \in later : SameHost(i, s)}
            /\ NextRank("shared")
  /\ UNCHANGED <<j, machineFile, sshConfig, sharedFs,
                 present, machines, threadVars, netVars>>

\* Mutant: one directory per host is looked at.
DecideSharedFsUnique ==
  /\ mpc = "shared"
  /\ IF i \in unique /\ machines[i][iwd] = NULL
       THEN mpc' = "crashed" /\ UNCHANGED <<sharedFs, i>>
       ELSE /\ sharedFs' = (sharedFs /\ (i \in unique =>
                               IwdOf[machines[i][iwd]] = IwdOf[Master]))
            /\ NextRank("decided")
  /\ UNCHANGED <<j, machineFile, sshConfig, tableVars, threadVars, netVars>>

\* Is the registered working directory of rank i that of the master?
DecideSharedFs ==
  /\ mpc = "shared"
  /\ IF i \in present /\ machines[i][iwd] = NULL
       THEN mpc' = "crashed" /\ UNCHANGED <<sharedFs, i>>
       ELSE /\ sharedFs' = (sharedFs /\ (i \in present =>
                               IwdOf[machines[i][iwd]] = IwdOf[Master]))
            /\ NextRank("decided")
  /\ UNCHANGED <<j, machineFile, sshConfig,
                 tableVars, threadVars, netVars>>

Main ==
  \/ WaitRound \/ WriteMachineRow \/ WriteSshRow \/ OpenFails
  \/ MarkUnique \/ Dedup \/ DecideSharedFs

-----------------------------------------------------------------------------
Next ==
  \/ Main
  \/ \E t \in Threads : Handler(t)
  \/ \E t \in Threads, p \in Procs : Receive(t, p)
  \/ \E p \in Procs : SendRegister(p) \/ RecvAck(p) \/ Lose(p)

Spec == Init /\ [][Next]_vars

\* The scheduler runs every thread that can run; a slave's loop goes on
\* sending (its chirp_info, which rereads the job ad, returns); a datagram
\* sent again and again is delivered some day.
Fairness ==
  /\ WF_vars(Main)
  /\ \A t \in Threads : WF_vars(Handler(t))
  /\ \A p \in Procs : /\ WF_vars(SendRegister(p))
                      /\ SF_vars(\E t \in Threads : Receive(t, p))
                      /\ SF_vars(RecvAck(p))

FairSpec == Spec /\ Fairness

-----------------------------------------------------------------------------
(***************************************************************************)
(* Properties.                                                             *)
(***************************************************************************)

\* Every variable has its type.
TypeOK ==
  /\ present \in SUBSET Ranks
  /\ machines \in [Ranks -> [Fields -> Owners \cup {NULL}]]
  /\ unique \in SUBSET Ranks
  /\ mutex \in Threads \cup {NULL}
  /\ tpc \in [Threads -> {"idle", "alloc", "lock", "fill", "compare", "port"}]
  /\ tproc \in [Threads -> Procs \cup {NULL}]
  /\ tfield \in [Threads -> Fields]
  /\ mpc \in {"wait", "file", "ssh", "mark", "dedup", "shared",
              "decided", "crashed", "cleanup"}
  /\ j \in 0 .. Timeout
  /\ i \in Ranks
  /\ machineFile \in SUBSET [rank : Ranks, torn : BOOLEAN]
  /\ sshConfig \in SUBSET Ranks
  /\ sharedFs \in BOOLEAN
  /\ regs \in SUBSET Procs
  /\ acks \in SUBSET Procs
  /\ slave \in [Procs -> {"registering", "joined"}]

\* The threads between the calloc of an entry for rank r and the unlock.
Pending(r) ==
  {t \in Threads : tpc[t] \in {"lock", "fill"} /\ RankOf[tproc[t]] = r}

\* The rank a process has or announces, ...
RankIn(p) == IF p = Master THEN 0 ELSE RankOf[p]

\* ... whose entry may therefore hold its data.
Claims(p, r) == RankIn(p) = r

\* However many handler threads allocate and fill the entry of one rank,
\* once none of them is between calloc and unlock the entry is whole: all
\* its fields come from one and the same process claiming that rank.
SettledEntryWhole ==
  \A r \in present : Pending(r) = {} =>
    \E p \in Owners : Claims(p, r) /\ machines[r] = EntryOf(p)

\* No other process announces p's rank.
Uncontested(p) == \A q \in Owners : Claims(q, RankIn(p)) => q = p

\* A slave that has left the registration loop is in the master's table,
\* with all its data unless a handler is rewriting the entry right now: a
\* duplicate REGISTER or a second calloc never loses it for good.
JoinedStaysListed ==
  \A p \in Procs : slave[p] = "joined" =>
    /\ RankOf[p] \in present
    /\ (Uncontested(p) /\ Pending(RankOf[p]) = {}) =>
          machines[RankOf[p]] = EntryOf(p)

\* The master dereferences a NULL field only while some handler is between
\* calloc and unlock: no finished registration can crash it later.
CrashOnlyInRace == mpc = "crashed" => \E r \in Ranks : Pending(r) # {}

\* Every rank of the machine file has its row in ssh_config, although the
\* two files are written at different times from a table in motion.
FileHostsInSsh ==
  mpc \in {"mark", "dedup", "shared", "decided"} =>
    \A m \in machineFile : m.rank \in sshConfig

\* When the unique hosts are settled, two different ones, the master's among
\* them, never share an IP address: no host is asked twice to create the
\* link, and none that has the master's own.
UniqueDistinct ==
  mpc \in {"shared", "decided"} =>
    \A p, q \in Owners :
      /\ Uncontested(p) /\ Uncontested(q) /\ p # q
      /\ {RankIn(p), RankIn(q)} \subseteq unique
      => IpOf[p] # IpOf[q]

\* If the master takes the file system for shared, every process listed in
\* the machine file announced the master's working directory, also those
\* that were still registering while the file was written.
SharedFsCoversFile ==
  mpc = "decided" /\ sharedFs =>
    \A m \in machineFile, p \in Procs :
      Uncontested(p) /\ RankOf[p] = m.rank => IwdOf[p] = IwdOf[Master]

\* Registration implements the abstract membership protocol.
M == INSTANCE Membership WITH
       MasterRank <- 0,
       members <- present,
       joined <- {p \in Procs : slave[p] = "joined"},
       listed <- {m.rank : m \in machineFile}
ImplementsMembership == M!Spec

\* The wait loop's promise: if the master goes on before the timeout, with
\* all ranks registered, every row of its machine file is complete.
WaitedForAll ==
  j < Timeout => \A m \in machineFile : ~ m.torn

\* Every slave with a rank of the job leaves the registration loop, however
\* many datagrams are lost, unless the master dies or gives the job up.
SlaveJoins ==
  \A p \in Procs : Uncontested(p) /\ RankOf[p] \in Ranks =>
    <>(slave[p] = "joined" \/ ~ MasterUp)
=============================================================================
