------------------------- MODULE RegistrationProofs -------------------------
(***************************************************************************)
(* Theorems about Registration, for any number of ranks, processes and     *)
(* handler threads.                                                        *)
(***************************************************************************)
EXTENDS Registration, TLAPS

\* A thread at work serves a process with a rank of the job.
BusyServes ==
  \A t \in Threads : tpc[t] # "idle" =>
    tproc[t] \in Procs /\ RankOf[tproc[t]] \in Ranks

\* Types are inductive together with BusyServes and the bound on j.
TypeInv == TypeOK /\ BusyServes /\ (mpc = "wait" => j < Timeout)

Labels == {"idle", "alloc", "lock", "fill", "compare", "port"}

\* The types of the variables a handler thread moves.
ThreadType ==
  /\ tpc \in [Threads -> Labels]
  /\ tproc \in [Threads -> Procs \cup {NULL}]
  /\ BusyServes

\* A handler thread that leaves process_message keeps the types of the threads.
LEMMA ExitType ==
  ASSUME ThreadType, NEW t \in Threads, Exit(t)
  PROVE  ThreadType'
<1>1. tpc' \in [Threads -> Labels] /\ tproc' \in [Threads -> Procs \cup {NULL}]
      BY DEF ThreadType, Exit, Labels
<1>2. ASSUME NEW u \in Threads, tpc'[u] # "idle"
      PROVE  tproc'[u] \in Procs /\ RankOf[tproc'[u]] \in Ranks
      BY <1>2 DEF ThreadType, Exit, BusyServes
<1> QED BY <1>1, <1>2 DEF ThreadType, BusyServes

\* A handler thread that moves on inside handle_register keeps them too.
LEMMA GotoType ==
  ASSUME ThreadType, NEW t \in Threads, tpc[t] # "idle",
         NEW l \in Labels, Goto(t, l), tproc' = tproc
  PROVE  ThreadType'
<1>1. tpc' \in [Threads -> Labels]
      BY DEF ThreadType, Goto
<1>2. ASSUME NEW u \in Threads, tpc'[u] # "idle"
      PROVE  tproc'[u] \in Procs /\ RankOf[tproc'[u]] \in Ranks
      BY <1>2 DEF ThreadType, Goto, BusyServes
<1> QED BY <1>1, <1>2 DEF ThreadType, BusyServes

\* So does the thread started for a received REGISTER, whose rank is checked.
LEMMA ReceiveType ==
  ASSUME ThreadType, NEW t \in Threads, NEW p \in Procs, Receive(t, p)
  PROVE  ThreadType'
<1>1. tpc' \in [Threads -> Labels] /\ tproc' \in [Threads -> Procs \cup {NULL}]
      BY DEF ThreadType, Receive, Goto, Labels
<1>2. ASSUME NEW u \in Threads, tpc'[u] # "idle"
      PROVE  tproc'[u] \in Procs /\ RankOf[tproc'[u]] \in Ranks
      BY <1>2 DEF ThreadType, Receive, Goto, BusyServes
<1> QED BY <1>1, <1>2 DEF ThreadType, BusyServes

\* The types hold when the listener starts.
LEMMA InitType == Init => TypeInv
  BY RegistrationAssumption
  DEF Init, TypeInv, TypeOK, BusyServes, EntryOf, Blank, Ranks, Owners, Fields

\* Every step, of main, of a handler or of the network, keeps the types.
LEMMA StepType == TypeInv /\ [Next]_vars => TypeInv'
<1> SUFFICES ASSUME TypeInv, [Next]_vars
             PROVE  TypeInv'
    OBVIOUS
<1> USE RegistrationAssumption DEF TypeInv, TypeOK, BusyServes, tableVars, threadVars,
        mainVars, netVars, Ranks, Owners
<1>0. ThreadType
      BY DEF ThreadType, Labels
<1>1. CASE UNCHANGED vars
      BY <1>1 DEF vars
<1>2. CASE WaitRound
      BY <1>2 DEF WaitRound
<1>3. CASE WriteMachineRow
  <2> DEFINE torn == NULL \in {machines[i][ip_addr], machines[i][cpus]}
  <2>1. torn \in BOOLEAN
        OBVIOUS
  <2>2. [rank |-> i, torn |-> torn] \in [rank : Ranks, torn : BOOLEAN]
        BY <2>1
  <2>3. machineFile' \in SUBSET [rank : Ranks, torn : BOOLEAN]
        BY <1>3, <2>2 DEF WriteMachineRow
  <2> QED BY <1>3, <2>3 DEF WriteMachineRow, NextRank
<1>4. CASE WriteSshRow
      BY <1>4 DEF WriteSshRow, NextRank
<1>5. CASE OpenFails
      BY <1>5 DEF OpenFails
<1>6. CASE MarkUnique
      BY <1>6 DEF MarkUnique, NextRank
<1>7. CASE Dedup
  <2>1. unique' \in SUBSET Ranks
        BY <1>7 DEF Dedup
  <2>2. i' \in Ranks /\ mpc' \in {"dedup", "shared", "crashed"}
        BY <1>7 DEF Dedup, NextRank
  <2> QED BY <1>7, <2>1, <2>2 DEF Dedup
<1>8. CASE DecideSharedFs
  <2>1. sharedFs' \in BOOLEAN
        BY <1>8, Zenon DEF DecideSharedFs
  <2>2. i' \in Ranks /\ mpc' \in {"shared", "decided", "crashed"}
        BY <1>8 DEF DecideSharedFs, NextRank
  <2> QED BY <1>8, <2>1, <2>2 DEF DecideSharedFs
<1>9. ASSUME NEW p \in Procs, SendRegister(p) \/ RecvAck(p) \/ Lose(p)
      PROVE  TypeInv'
  <2>1. CASE SendRegister(p)
        BY <2>1 DEF SendRegister
  <2>2. CASE RecvAck(p)
        BY <2>2 DEF RecvAck
  <2>3. CASE Lose(p)
        BY <2>3 DEF Lose
  <2> QED BY <1>9, <2>1, <2>2, <2>3
<1>10. ASSUME NEW t \in Threads, NEW p \in Procs, Receive(t, p)
       PROVE  TypeInv'
  <2>1. ThreadType'
        BY <1>10, <1>0, ReceiveType
  <2> QED BY <1>10, <2>1 DEF Receive, ThreadType, Labels
<1>11. ASSUME NEW t \in Threads, Handler(t)
       PROVE  TypeInv'
  <2>0. ASSUME tpc[t] # "idle"
        PROVE  tproc[t] \in Procs /\ RankOf[tproc[t]] \in Ranks
        BY <2>0
  <2>1. CASE Alloc(t)
    <3>1. RankOf[tproc[t]] \in Ranks /\ Blank \in [Fields -> Owners \cup {NULL}]
          BY <2>1, <2>0 DEF Alloc, Blank
    <3>2. machines' \in [Ranks -> [Fields -> Owners \cup {NULL}]]
          BY <2>1, <3>1 DEF Alloc
    <3>3. present' \in SUBSET Ranks /\ unique' \in SUBSET Ranks
          BY <2>1, <3>1 DEF Alloc
    <3>4. ThreadType'
          BY <2>1, <1>0, GotoType DEF Alloc, Labels
    <3> QED BY <2>1, <3>2, <3>3, <3>4 DEF Alloc, ThreadType, Labels
  <2>2. CASE Lock(t)
    <3>1. ThreadType'
          BY <2>2, <1>0, GotoType DEF Lock, Labels
    <3> QED BY <2>2, <3>1 DEF Lock, ThreadType, Labels
  <2>3. CASE Fill(t)
    <3>1. /\ tproc[t] \in Procs
          /\ RankOf[tproc[t]] \in Ranks
          /\ tfield[t] \in Fields
          BY <2>3, <2>0 DEF Fill
    <3>2. machines' \in [Ranks -> [Fields -> Owners \cup {NULL}]]
          BY <2>3, <3>1 DEF Fill
    <3>3. tfield' \in [Threads -> Fields]
      <4>1. tfield[t] # port => tfield[t] + 1 \in Fields
            BY <3>1 DEF Fields, port
      <4>2. 1 \in Fields
            BY DEF Fields
      <4>3. tfield' = [tfield EXCEPT ![t] =
                          IF tfield[t] # port THEN tfield[t] + 1 ELSE 1]
            BY <2>3, <3>1 DEF Fill
      <4> QED BY <4>1, <4>2, <4>3
    <3>4. acks' \in SUBSET Procs /\ mutex' \in Threads \cup {NULL}
          BY <2>3, <3>1 DEF Fill, AckAndExit
    <3>5. ThreadType'
      <4>1. CASE tfield[t] # port
            BY <4>1, <2>3, <3>1, <1>0 DEF Fill, ThreadType
      <4>2. CASE tfield[t] = port
            BY <4>2, <2>3, <1>0, ExitType DEF Fill, AckAndExit
      <4> QED BY <4>1, <4>2
    <3> QED BY <2>3, <3>2, <3>3, <3>4, <3>5 DEF Fill, ThreadType, Labels
  <2>4. CASE CompareIp(t)
    <3>1. ThreadType'
      <4>1. CASE UNCHANGED <<tpc, tproc>>
            BY <4>1, <1>0 DEF ThreadType
      <4>2. CASE Goto(t, "port") /\ tproc' = tproc
            BY <4>2, <2>4, <1>0, GotoType DEF CompareIp, Labels
      <4>3. CASE Exit(t)
            BY <4>3, <1>0, ExitType
      <4> QED BY <2>4, <4>1, <4>2, <4>3 DEF CompareIp
    <3>2. mpc' \in {mpc, "crashed"}
          BY <2>4 DEF CompareIp
    <3> QED BY <2>4, <3>1, <3>2 DEF CompareIp, ThreadType, Labels
  <2>5. CASE ComparePort(t)
    <3>1. ThreadType'
          BY <2>5, <1>0, ExitType DEF ComparePort, AckAndExit
    <3>2. acks' \in SUBSET Procs
          BY <2>5, <2>0 DEF ComparePort, AckAndExit
    <3> QED BY <2>5, <3>1, <3>2 DEF ComparePort, ThreadType, Labels
  <2> QED BY <1>11, <2>1, <2>2, <2>3, <2>4, <2>5 DEF Handler
<1> QED
    BY <1>1, <1>2, <1>3, <1>4, <1>5, <1>6, <1>7, <1>8, <1>9, <1>10, <1>11
    DEF Next, Main

\* Every variable keeps its type, whatever the number of ranks, processes
\* and threads.
THEOREM TypeCorrect == Spec => []TypeOK
<1>1. TypeInv => TypeOK
      BY DEF TypeInv
<1> QED BY InitType, StepType, <1>1, PTL DEF Spec

-----------------------------------------------------------------------------
(***************************************************************************)
(* The inductive invariant of the table.  SettledEntryWhole alone is not   *)
(* inductive: it must be known what a thread in the middle of an entry has *)
(* written so far, and that a second calloc can only have wiped it if the  *)
(* thread that did so is still waiting for the lock, to fill it again.     *)
(***************************************************************************)
\* Only the holder of par_wrapper->mutex writes fields.
MutexHeld == \A t \in Threads : tpc[t] = "fill" => mutex = t

\* A thread past calloc works on an entry that is in the table.
AllocatedFirst ==
  \A t \in Threads : tpc[t] \in {"lock", "fill", "compare", "port"} =>
    RankOf[tproc[t]] \in present

\* A thread outside the locked section will start at the first field.
StartAtFirst == \A t \in Threads : tpc[t] # "fill" => tfield[t] = 1

\* A thread has (re)allocated entry r and waits for the lock to fill it.
Waiting(r) == \E u \in Threads : tpc[u] = "lock" /\ RankOf[tproc[u]] = r

\* The fields a thread has written are its own, unless the entry was wiped by
\* a second calloc whose thread is still to fill it.
FilledSoFar ==
  \A t \in Threads : tpc[t] = "fill" =>
    \/ \A f \in Fields : f < tfield[t] =>
          machines[RankOf[tproc[t]]][f] = tproc[t]
    \/ Waiting(RankOf[tproc[t]])

\* Whatever carries a rank from the table carries a registered one.
KnownRanks ==
  /\ unique \subseteq present
  /\ \A p \in acks : RankOf[p] \in present
  /\ \A p \in Procs : slave[p] = "joined" => RankOf[p] \in present
  /\ \A m \in machineFile : m.rank \in present

\* The inductive invariant of the table.
TableInv ==
  /\ MutexHeld
  /\ AllocatedFirst
  /\ StartAtFirst
  /\ FilledSoFar
  /\ KnownRanks
  /\ SettledEntryWhole
  /\ CrashOnlyInRace

\* The inductive invariant of the two files: the loop over the ssh
\* configuration has passed every host of the machine file below i.
FilesInv ==
  /\ FileHostsInSsh
  /\ mpc = "ssh" => \A m \in machineFile : m.rank < i => m.rank \in sshConfig

\* The table starts with the master's own, complete entry, and no file.
LEMMA InitTable == Init => TableInv /\ FilesInv
<1> SUFFICES ASSUME Init PROVE TableInv /\ FilesInv
    OBVIOUS
<1>1. 0 \in Ranks
      BY RegistrationAssumption DEF Ranks
<1>2. SettledEntryWhole
  <2>1. Claims(Master, 0) /\ Master \in Owners
        BY DEF Claims, RankIn, Owners
  <2>2. machines[0] = EntryOf(Master) /\ present = {0}
        BY <1>1 DEF Init
  <2> QED BY <2>1, <2>2 DEF SettledEntryWhole
<1>3. MutexHeld /\ AllocatedFirst /\ StartAtFirst /\ FilledSoFar
      BY DEF Init, MutexHeld, AllocatedFirst, StartAtFirst, FilledSoFar
<1>4. KnownRanks /\ CrashOnlyInRace /\ FilesInv
      BY DEF Init, KnownRanks, CrashOnlyInRace, FilesInv, FileHostsInSsh
<1> QED BY <1>2, <1>3, <1>4 DEF TableInv

\* A zero field betrays a thread between calloc and unlock.
LEMMA NullPending ==
  ASSUME SettledEntryWhole, NEW r \in present, NEW f \in Fields,
         machines[r][f] = NULL
  PROVE  Pending(r) # {}
<1> SUFFICES ASSUME Pending(r) = {} PROVE FALSE
    OBVIOUS
<1>1. PICK p \in Owners : machines[r] = EntryOf(p)
      BY DEF SettledEntryWhole
<1>2. machines[r][f] = p
      BY <1>1 DEF EntryOf
<1> QED BY <1>2, RegistrationAssumption

\* What a step that leaves threads and entries alone has to respect.
LEMMA FrameTable ==
  ASSUME TableInv, UNCHANGED <<present, machines, mutex, tpc, tproc, tfield>>,
         KnownRanks', CrashOnlyInRace'
  PROVE  TableInv'
<1>1. \A r : Pending(r)' = Pending(r) /\ Waiting(r)' = Waiting(r)
      BY DEF Pending, Waiting
<1>2. SettledEntryWhole'
      BY <1>1 DEF TableInv, SettledEntryWhole
<1>3. FilledSoFar'
      BY <1>1 DEF TableInv, FilledSoFar
<1> QED BY <1>2, <1>3
        DEF TableInv, MutexHeld, AllocatedFirst, StartAtFirst

\* main's thread reads the table and never disturbs its invariant.
LEMMA MainTable ==
  ASSUME TypeInv, TableInv, Main
  PROVE  TableInv'
<1> USE DEF tableVars, threadVars, mainVars, netVars
<1>1. UNCHANGED <<present, machines, mutex, tpc, tproc, tfield>>
      BY DEF Main, WaitRound, WriteMachineRow, WriteSshRow, OpenFails,
             MarkUnique, Dedup, DecideSharedFs
<1>2. KnownRanks'
  <2>1. unique' \subseteq present
        BY DEF TableInv, KnownRanks, Main, WaitRound, WriteMachineRow,
               WriteSshRow, OpenFails, MarkUnique, Dedup, DecideSharedFs
  <2>2. \A m \in machineFile' : m.rank \in present
    <3>1. CASE WriteMachineRow
          BY <3>1 DEF WriteMachineRow, TableInv, KnownRanks
    <3>2. CASE ~ WriteMachineRow
          BY <3>2 DEF TableInv, KnownRanks, Main, WaitRound, WriteSshRow,
                      OpenFails, MarkUnique, Dedup, DecideSharedFs
    <3> QED BY <3>1, <3>2
  <2>3. UNCHANGED <<acks, slave>>
        BY DEF Main, WaitRound, WriteMachineRow, WriteSshRow, OpenFails,
               MarkUnique, Dedup, DecideSharedFs
  <2> QED BY <1>1, <2>1, <2>2, <2>3 DEF TableInv, KnownRanks
<1>3. CrashOnlyInRace'
  <2> SUFFICES ASSUME mpc' = "crashed"
               PROVE  \E r \in Ranks : Pending(r) # {}
      BY <1>1 DEF CrashOnlyInRace, Pending
  <2>1. ip_addr \in Fields /\ iwd \in Fields
        BY DEF Fields, ip_addr, iwd
  <2>2. CASE Dedup
    <3>1. PICK r \in unique : machines[r][ip_addr] = NULL
          BY <2>2 DEF Dedup, NextRank
    <3> QED BY <2>1, <3>1, NullPending
            DEF TableInv, KnownRanks, TypeInv, TypeOK
  <2>3. CASE DecideSharedFs
    <3>1. i \in present /\ machines[i][iwd] = NULL
          BY <2>3 DEF DecideSharedFs, NextRank
    <3> QED BY <2>1, <3>1, NullPending DEF TableInv, TypeInv, TypeOK
  <2> QED BY <2>2, <2>3 DEF Main, WaitRound, WriteMachineRow, WriteSshRow,
             OpenFails, MarkUnique, NextRank
<1> QED BY <1>1, <1>2, <1>3, FrameTable

\* Slaves and the network do not disturb it: an ACK comes from the table.
LEMMA NetTable ==
  ASSUME TypeInv, TableInv, NEW p \in Procs,
         SendRegister(p) \/ RecvAck(p) \/ Lose(p)
  PROVE  TableInv'
<1> USE DEF tableVars, threadVars, mainVars
<1>1. /\ UNCHANGED <<present, machines, unique, mutex, tpc, tproc, tfield>>
      /\ UNCHANGED <<mpc, machineFile>>
      BY DEF SendRegister, RecvAck, Lose
<1>2. KnownRanks'
      BY <1>1 DEF SendRegister, RecvAck, Lose, TableInv, KnownRanks,
                  TypeInv, TypeOK
<1>3. CrashOnlyInRace'
      BY <1>1 DEF TableInv, CrashOnlyInRace, Pending
<1> QED BY <1>1, <1>2, <1>3, FrameTable

\* Threads outside lock and fill do not count for Pending and Waiting.
LEMMA PendingFrame ==
  ASSUME TypeInv, NEW t \in Threads,
         tpc[t] \notin {"lock", "fill"}, tpc'[t] \notin {"lock", "fill"},
         \A u \in Threads \ {t} : tpc'[u] = tpc[u] /\ tproc'[u] = tproc[u]
  PROVE  \A r : Pending(r)' = Pending(r) /\ Waiting(r)' = Waiting(r)
  BY DEF Pending, Waiting

\* Steps of a thread that touch neither the table nor the lock: reception,
\* comparison and the ACK that may follow it.
LEMMA OutsideTable ==
  ASSUME TypeInv, TableInv, NEW t \in Threads,
         UNCHANGED <<present, machines, unique, mutex, tfield, machineFile, slave>>,
         tpc[t] \notin {"lock", "fill"}, tpc'[t] \notin {"lock", "fill"},
         \A u \in Threads \ {t} : tpc'[u] = tpc[u] /\ tproc'[u] = tproc[u],
         tpc'[t] \in {"compare", "port"} => RankOf[tproc'[t]] \in present,
         \A q \in acks' : RankOf[q] \in present,
         mpc' = "crashed" => \E r \in Ranks : Pending(r) # {}
  PROVE  TableInv'
<1>1. \A r : Pending(r)' = Pending(r) /\ Waiting(r)' = Waiting(r)
      BY PendingFrame
<1>2. SettledEntryWhole' /\ CrashOnlyInRace'
      BY <1>1 DEF TableInv, SettledEntryWhole, CrashOnlyInRace
<1>3. FilledSoFar'
      BY <1>1 DEF TableInv, FilledSoFar
<1>4. MutexHeld' /\ StartAtFirst' /\ AllocatedFirst'
      BY DEF TableInv, MutexHeld, StartAtFirst, AllocatedFirst
<1>5. KnownRanks'
      BY DEF TableInv, KnownRanks
<1> QED BY <1>2, <1>3, <1>4, <1>5 DEF TableInv

\* Receiving a REGISTER only starts a thread.
LEMMA ReceiveTable ==
  ASSUME TypeInv, TableInv, NEW t \in Threads, NEW p \in Procs, Receive(t, p)
  PROVE  TableInv'
<1> USE DEF TypeInv, TypeOK
<1>1. /\ UNCHANGED <<present, machines, unique, mutex, tfield, machineFile, slave>>
      /\ acks' = acks
      /\ mpc' # "crashed"
      BY DEF Receive, tableVars, mainVars, MasterUp
<1>2. /\ tpc[t] \notin {"lock", "fill"}
      /\ tpc'[t] \notin {"lock", "fill"}
      /\ \A u \in Threads \ {t} : tpc'[u] = tpc[u] /\ tproc'[u] = tproc[u]
      /\ tpc'[t] \in {"compare", "port"} => RankOf[tproc'[t]] \in present
      BY DEF Receive, Goto
<1>3. \A q \in acks' : RankOf[q] \in present
      BY <1>1 DEF TableInv, KnownRanks
<1> QED BY <1>1, <1>2, <1>3, OutsideTable

\* Comparing the stored address and acknowledging leave the entries alone.
LEMMA CompareTable ==
  ASSUME TypeInv, TableInv, NEW t \in Threads, CompareIp(t) \/ ComparePort(t)
  PROVE  TableInv'
<1> USE DEF TypeInv, TypeOK
<1>0. /\ tpc[t] \in {"compare", "port"}
      /\ RankOf[tproc[t]] \in present
      BY DEF CompareIp, ComparePort, TableInv, AllocatedFirst
<1>1. UNCHANGED <<present, machines, unique, mutex, tfield, machineFile, slave>>
      BY DEF CompareIp, ComparePort, tableVars, mainVars, netVars
<1>2. /\ tpc'[t] \notin {"lock", "fill"}
      /\ \A u \in Threads \ {t} : tpc'[u] = tpc[u] /\ tproc'[u] = tproc[u]
      /\ tpc'[t] \in {"compare", "port"} => tproc'[t] = tproc[t]
      BY <1>0 DEF CompareIp, ComparePort, Goto, Exit, AckAndExit
<1>3. \A q \in acks' : RankOf[q] \in present
      BY <1>0 DEF CompareIp, ComparePort, AckAndExit, netVars, TableInv, KnownRanks
<1>4. ASSUME mpc' = "crashed"
      PROVE  \E r \in Ranks : Pending(r) # {}
  <2>1. machines[RankOf[tproc[t]]][ip_addr] = NULL
        BY <1>4 DEF CompareIp, ComparePort, MasterUp, mainVars
  <2>2. ip_addr \in Fields
        BY DEF Fields, ip_addr
  <2> QED BY <1>0, <2>1, <2>2, NullPending DEF TableInv
<1> QED BY <1>0, <1>1, <1>2, <1>3, <1>4, OutsideTable

\* calloc: the entry is wiped, and its thread is about to fill it.
LEMMA AllocTable ==
  ASSUME TypeInv, TableInv, NEW t \in Threads, Alloc(t)
  PROVE  TableInv'
<1> USE DEF TypeInv, TypeOK
<1>0. PICK r \in Ranks : r = RankOf[tproc[t]]
      BY DEF Alloc, BusyServes
<1>1. /\ tpc[t] = "alloc" /\ tpc'[t] = "lock"
      /\ \A u \in Threads \ {t} : tpc'[u] = tpc[u]
      /\ tproc' = tproc /\ tfield' = tfield /\ mutex' = mutex
      /\ mpc' = mpc /\ mpc # "crashed" /\ machineFile' = machineFile
      /\ acks' = acks /\ slave' = slave
      BY DEF Alloc, Goto, MasterUp, mainVars, netVars
<1>2. /\ present' = present \cup {r}
      /\ unique' = unique \ {r}
      /\ \A q \in Ranks \ {r} : machines'[q] = machines[q]
      BY <1>0 DEF Alloc
<1>3. Waiting(r)' /\ t \in Pending(r)'
      BY <1>0, <1>1 DEF Waiting, Pending
<1>4. \A q : q # r => Pending(q)' = Pending(q) /\ (Waiting(q) => Waiting(q)')
      BY <1>0, <1>1 DEF Pending, Waiting
<1>5. SettledEntryWhole'
  <2> SUFFICES ASSUME NEW q \in present', Pending(q)' = {}
               PROVE  \E p \in Owners : Claims(p, q) /\ machines'[q] = EntryOf(p)
      BY DEF SettledEntryWhole, Claims, RankIn, EntryOf
  <2>1. q # r /\ q \in present /\ Pending(q) = {}
        BY <1>2, <1>3, <1>4
  <2> QED BY <1>2, <2>1 DEF TableInv, SettledEntryWhole
<1>6. FilledSoFar'
  <2> SUFFICES ASSUME NEW u \in Threads, NEW q \in Ranks, q = RankOf[tproc[u]],
                      tpc[u] = "fill", ~ Waiting(q)'
               PROVE  \A f \in Fields : f < tfield[u] => machines'[q][f] = tproc[u]
      BY <1>1 DEF FilledSoFar, BusyServes
  <2>1. q # r /\ ~ Waiting(q)
        BY <1>3, <1>4
  <2> QED BY <1>2, <2>1 DEF TableInv, FilledSoFar
<1>7. MutexHeld' /\ StartAtFirst' /\ AllocatedFirst'
      BY <1>0, <1>1, <1>2 DEF TableInv, MutexHeld, StartAtFirst, AllocatedFirst
<1>8. KnownRanks' /\ CrashOnlyInRace'
      BY <1>1, <1>2 DEF TableInv, KnownRanks, CrashOnlyInRace
<1> QED BY <1>5, <1>6, <1>7, <1>8 DEF TableInv

\* Taking the mutex: no other thread is filling an entry.
LEMMA LockTable ==
  ASSUME TypeInv, TableInv, NEW t \in Threads, Lock(t)
  PROVE  TableInv'
<1> USE DEF TypeInv, TypeOK
<1>1. /\ tpc[t] = "lock" /\ tpc'[t] = "fill"
      /\ \A u \in Threads \ {t} : tpc'[u] = tpc[u]
      /\ mutex = NULL /\ mutex' = t
      /\ mpc' = mpc /\ mpc # "crashed"
      /\ UNCHANGED <<tproc, tfield, present, machines, unique, machineFile, acks, slave>>
      BY DEF Lock, Goto, MasterUp, mainVars, netVars, tableVars
<1>2. \A u \in Threads : tpc[u] # "fill"
      BY <1>1, RegistrationAssumption DEF TableInv, MutexHeld
<1>3. \A q : Pending(q)' = Pending(q)
      BY <1>1 DEF Pending
<1>4. SettledEntryWhole'
      BY <1>1, <1>3 DEF TableInv, SettledEntryWhole
<1>5. FilledSoFar'
  <2>1. tfield[t] = 1
        BY <1>1 DEF TableInv, StartAtFirst
  <2> QED BY <1>1, <1>2, <2>1 DEF FilledSoFar, Fields
<1>6. MutexHeld' /\ StartAtFirst' /\ AllocatedFirst'
      BY <1>1, <1>2 DEF TableInv, MutexHeld, StartAtFirst, AllocatedFirst
<1>7. KnownRanks' /\ CrashOnlyInRace'
      BY <1>1 DEF TableInv, KnownRanks, CrashOnlyInRace
<1> QED BY <1>4, <1>5, <1>6, <1>7 DEF TableInv

\* Writing a field, and with the last one releasing the mutex.
LEMMA FillTable ==
  ASSUME TypeInv, TableInv, NEW t \in Threads, Fill(t)
  PROVE  TableInv'
<1> USE DEF TypeInv, TypeOK
<1>0. PICK r \in Ranks, f \in Fields, p \in Procs :
        r = RankOf[tproc[t]] /\ f = tfield[t] /\ p = tproc[t]
      BY DEF Fill, BusyServes
<1>1. /\ tpc[t] = "fill" /\ mutex = t /\ r \in present
      /\ \A u \in Threads \ {t} : tpc[u] # "fill"
      BY <1>0 DEF Fill, TableInv, MutexHeld, AllocatedFirst
<1>2. /\ \A q \in Ranks \ {r} : machines'[q] = machines[q]
      /\ machines'[r][f] = p
      /\ \A g \in Fields \ {f} : machines'[r][g] = machines[r][g]
      /\ machines' \in [Ranks -> [Fields -> Owners \cup {NULL}]]
      BY <1>0 DEF Fill, Owners
<1>3. /\ UNCHANGED <<present, unique, machineFile, slave>>
      /\ mpc' # "crashed"
      BY DEF Fill, MasterUp, mainVars
<1>4. \A q \in acks' : RankOf[q] \in present
      BY <1>0, <1>1 DEF Fill, AckAndExit, TableInv, KnownRanks
<1>5. KnownRanks' /\ CrashOnlyInRace'
      BY <1>3, <1>4 DEF TableInv, KnownRanks, CrashOnlyInRace
<1>6. CASE f # port
  <2>1. /\ UNCHANGED <<tpc, tproc, mutex>>
        /\ tfield'[t] = f + 1
        /\ \A u \in Threads \ {t} : tfield'[u] = tfield[u]
        BY <1>0, <1>6 DEF Fill
  <2>2. \A q : Pending(q)' = Pending(q) /\ Waiting(q)' = Waiting(q)
        BY <2>1 DEF Pending, Waiting
  <2>3. t \in Pending(r)
        BY <1>0, <1>1 DEF Pending
  <2>4. SettledEntryWhole'
    <3> SUFFICES ASSUME NEW q \in present, Pending(q) = {}
                 PROVE  \E o \in Owners : Claims(o, q) /\ machines'[q] = EntryOf(o)
        BY <1>3, <2>2 DEF SettledEntryWhole
    <3> QED BY <1>2, <2>3 DEF TableInv, SettledEntryWhole
  <2>5. FilledSoFar'
    <3> SUFFICES ASSUME ~ Waiting(r)
                 PROVE  \A g \in Fields : g < f + 1 => machines'[r][g] = p
        BY <1>0, <1>1, <2>1, <2>2 DEF FilledSoFar
    <3>1. \A g \in Fields : g < f => machines[r][g] = p
          BY <1>0, <1>1 DEF TableInv, FilledSoFar
    <3>2. \A g \in Fields : g < f + 1 => g = f \/ g < f
          BY DEF Fields
    <3> QED BY <1>2, <3>1, <3>2
  <2>6. MutexHeld' /\ StartAtFirst' /\ AllocatedFirst'
        BY <1>1, <1>3, <2>1 DEF TableInv, MutexHeld, StartAtFirst, AllocatedFirst
  <2> QED BY <1>5, <2>4, <2>5, <2>6 DEF TableInv
<1>7. CASE f = port
  <2>1. /\ tpc'[t] = "idle" /\ tfield'[t] = 1
        /\ \A u \in Threads \ {t} : /\ tpc'[u] = tpc[u]
                                    /\ tproc'[u] = tproc[u]
                                    /\ tfield'[u] = tfield[u]
        BY <1>0, <1>7 DEF Fill, AckAndExit, Exit
  <2>2. /\ \A q : q # r => Pending(q)' = Pending(q)
        /\ \A q : Waiting(q)' = Waiting(q)
        /\ Pending(r)' = Pending(r) \ {t}
        BY <1>0, <1>1, <2>1 DEF Pending, Waiting
  <2>3. SettledEntryWhole'
    <3> SUFFICES ASSUME NEW q \in present, Pending(q)' = {}
                 PROVE  \E o \in Owners : Claims(o, q) /\ machines'[q] = EntryOf(o)
        BY <1>3 DEF SettledEntryWhole, Claims, RankIn, EntryOf
    <3>1. CASE q # r
          BY <1>2, <2>2, <3>1 DEF TableInv, SettledEntryWhole
    <3>2. CASE q = r
      <4>1. ~ Waiting(r)
        <5>1. ASSUME NEW u \in Threads, tpc[u] = "lock", RankOf[tproc[u]] = r
              PROVE  u \in Pending(r) \ {t}
              BY <1>1, <5>1 DEF Pending
        <5> QED BY <2>2, <3>2, <5>1 DEF Waiting
      <4>2. \A g \in Fields : g < f => machines[r][g] = p
            BY <1>0, <1>1, <4>1 DEF TableInv, FilledSoFar
      <4>3. \A g \in Fields : g = f \/ g < f
            BY <1>7 DEF Fields, port
      <4>4. \A g \in Fields : machines'[r][g] = p
            BY <1>2, <4>2, <4>3
      <4>5. machines'[r] \in [Fields -> Owners \cup {NULL}]
            BY <1>2
      <4>6. machines'[r] = EntryOf(p)
            BY <4>4, <4>5 DEF EntryOf
      <4>7. p \in Owners /\ Claims(p, r)
            BY <1>0, RegistrationAssumption DEF Owners, Claims, RankIn
      <4> QED BY <3>2, <4>6, <4>7
    <3> QED BY <3>1, <3>2
  <2>4. FilledSoFar'
        BY <1>1, <2>1 DEF FilledSoFar
  <2>5. MutexHeld' /\ StartAtFirst' /\ AllocatedFirst'
        BY <1>1, <1>3, <2>1 DEF TableInv, MutexHeld, StartAtFirst, AllocatedFirst
  <2> QED BY <1>5, <2>3, <2>4, <2>5 DEF TableInv
<1> QED BY <1>6, <1>7

\* The table invariant is preserved by every step.
LEMMA StepTable == TypeInv /\ TableInv /\ [Next]_vars => TableInv'
<1> SUFFICES ASSUME TypeInv, TableInv, [Next]_vars
             PROVE  TableInv'
    OBVIOUS
<1>1. CASE UNCHANGED vars
  <2>1. UNCHANGED <<present, machines, unique, mutex, tpc, tproc, tfield,
                    mpc, machineFile, acks, slave>>
        BY <1>1 DEF vars, tableVars, threadVars, mainVars, netVars
  <2>2. KnownRanks' /\ CrashOnlyInRace'
        BY <2>1 DEF TableInv, KnownRanks, CrashOnlyInRace, Pending
  <2> QED BY <2>1, <2>2, FrameTable
<1>2. CASE Main
      BY <1>2, MainTable
<1>3. ASSUME NEW p \in Procs, SendRegister(p) \/ RecvAck(p) \/ Lose(p)
      PROVE  TableInv'
      BY <1>3, NetTable
<1>4. ASSUME NEW t \in Threads, NEW p \in Procs, Receive(t, p)
      PROVE  TableInv'
      BY <1>4, ReceiveTable
<1>5. ASSUME NEW t \in Threads, Handler(t)
      PROVE  TableInv'
      BY <1>5, AllocTable, LockTable, FillTable, CompareTable DEF Handler
<1> QED BY <1>1, <1>2, <1>3, <1>4, <1>5 DEF Next

\* The table invariant holds in every behaviour of the master and its slaves.
THEOREM TableInvariant == Spec => [](TypeInv /\ TableInv)
<1>1. Init => TypeInv /\ TableInv
      BY InitType, InitTable
<1>2. (TypeInv /\ TableInv) /\ [Next]_vars => (TypeInv /\ TableInv)'
      BY StepType, StepTable
<1> QED BY <1>1, <1>2, PTL DEF Spec

\* Once no handler is between calloc and unlock, an entry of the table holds
\* the data of one process: for any number of threads and duplicates.
THEOREM EntriesWhole == Spec => []SettledEntryWhole
<1>1. TypeInv /\ TableInv => SettledEntryWhole
      BY DEF TableInv
<1> QED BY <1>1, TableInvariant, PTL

\* A NULL dereference of the master needs an unfinished registration.
THEOREM CrashNeedsRace == Spec => []CrashOnlyInRace
<1>1. TypeInv /\ TableInv => CrashOnlyInRace
      BY DEF TableInv
<1> QED BY <1>1, TableInvariant, PTL

\* A joined slave is in the table, with its own data once it is settled.
THEOREM JoinedListed == Spec => []JoinedStaysListed
<1>1. TypeInv /\ TableInv => JoinedStaysListed
  <2> SUFFICES ASSUME TypeInv, TableInv, NEW p \in Procs, slave[p] = "joined"
               PROVE  /\ RankOf[p] \in present
                      /\ (Uncontested(p) /\ Pending(RankOf[p]) = {}) =>
                            machines[RankOf[p]] = EntryOf(p)
      BY DEF JoinedStaysListed
  <2>1. RankOf[p] \in present
        BY DEF TableInv, KnownRanks
  <2>2. ASSUME Uncontested(p), Pending(RankOf[p]) = {}
        PROVE  machines[RankOf[p]] = EntryOf(p)
    <3>1. PICK q \in Owners : /\ Claims(q, RankOf[p])
                              /\ machines[RankOf[p]] = EntryOf(q)
          BY <2>1, <2>2 DEF TableInv, SettledEntryWhole
    <3>2. RankOf[p] # 0
          BY RegistrationAssumption
    <3>3. q \in Procs /\ RankOf[q] = RankOf[p]
          BY <3>1, <3>2 DEF Claims, RankIn, Owners
    <3>4. RankIn(p) = RankOf[p] /\ p \in Owners
          BY RegistrationAssumption DEF RankIn, Owners
    <3> QED BY <2>2, <3>1, <3>3, <3>4 DEF Uncontested
  <2> QED BY <2>1, <2>2
<1> QED BY <1>1, TableInvariant, PTL

-----------------------------------------------------------------------------
(***************************************************************************)
(* The two files, and the abstract membership protocol.                    *)
(***************************************************************************)

\* FilesInv holds again after every step: the ssh rows follow the machine
\* rows rank by rank, and no machine row is written in the ssh phase.
LEMMA StepFiles == TypeInv /\ TableInv /\ FilesInv /\ [Next]_vars => FilesInv'
<1> SUFFICES ASSUME TypeInv, TableInv, FilesInv, [Next]_vars
             PROVE  FilesInv'
    OBVIOUS
<1> USE DEF tableVars, threadVars, mainVars, netVars
<1>0. \A m \in machineFile : m.rank \in present /\ m.rank \in 0 .. NumProcs - 1
      BY DEF TableInv, KnownRanks, TypeInv, TypeOK, Ranks
<1>1. CASE WriteMachineRow
  <2>1. \A m \in machineFile' : m.rank \in 0 .. NumProcs - 1
        BY <1>0, <1>1 DEF WriteMachineRow, TypeInv, TypeOK, Ranks
  <2>2. mpc' \in {"file", "ssh"} /\ (mpc' = "ssh" => i' = 0)
        BY <1>1 DEF WriteMachineRow, NextRank
  <2> QED BY <2>1, <2>2 DEF FilesInv, FileHostsInSsh
<1>2. CASE WriteSshRow
  <2> USE RegistrationAssumption
  <2>1. /\ \A m \in machineFile : m.rank < i => m.rank \in sshConfig
        /\ machineFile' = machineFile
        /\ i \in 0 .. NumProcs - 1
        BY <1>2 DEF WriteSshRow, FilesInv, TypeInv, TypeOK, Ranks
  <2>2. \A m \in machineFile : m.rank <= i => m.rank \in sshConfig'
        BY <1>0, <1>2, <2>1 DEF WriteSshRow
  <2>3. \/ mpc' = "ssh" /\ i' = i + 1
        \/ mpc' = "mark" /\ i = NumProcs - 1
        BY <1>2, <2>1 DEF WriteSshRow, NextRank, Ranks
  <2> QED BY <1>0, <2>1, <2>2, <2>3 DEF FilesInv, FileHostsInSsh
<1>3. CASE MarkUnique \/ Dedup \/ DecideSharedFs
      BY <1>3 DEF MarkUnique, Dedup, DecideSharedFs, NextRank,
                  FilesInv, FileHostsInSsh
<1>4. CASE WaitRound \/ OpenFails
      BY <1>0, <1>4 DEF WaitRound, OpenFails, FilesInv, FileHostsInSsh
<1>5. ASSUME UNCHANGED <<machineFile, sshConfig, i>>,
             mpc' = mpc \/ mpc' = "crashed"
      PROVE  FilesInv'
      BY <1>5 DEF FilesInv, FileHostsInSsh
<1>6. CASE UNCHANGED vars
      BY <1>5, <1>6 DEF vars
<1>7. ASSUME NEW p \in Procs, SendRegister(p) \/ RecvAck(p) \/ Lose(p)
      PROVE  FilesInv'
      BY <1>5, <1>7 DEF SendRegister, RecvAck, Lose
<1>8. ASSUME NEW t \in Threads, NEW p \in Procs, Receive(t, p)
      PROVE  FilesInv'
      BY <1>5, <1>8 DEF Receive
<1>9. ASSUME NEW t \in Threads, Handler(t)
      PROVE  FilesInv'
      BY <1>5, <1>9 DEF Handler, Alloc, Lock, Fill, CompareIp, ComparePort
<1> QED BY <1>1, <1>2, <1>3, <1>4, <1>6, <1>7, <1>8, <1>9 DEF Next, Main

\* Every rank of the machine file ends up in ssh_config, for any number of
\* ranks and however the table grows while the two files are written.
THEOREM FilesAgree == Spec => []FileHostsInSsh
<1>1. Init => TypeInv /\ TableInv /\ FilesInv
      BY InitType, InitTable
<1>2. (TypeInv /\ TableInv /\ FilesInv) /\ [Next]_vars
        => (TypeInv /\ TableInv /\ FilesInv)'
      BY StepType, StepTable, StepFiles
<1>3. FilesInv => FileHostsInSsh
      BY DEF FilesInv
<1> QED BY <1>1, <1>2, <1>3, PTL DEF Spec

\* Every step of Registration is a step or a stutter of Membership.
LEMMA StepMembership ==
  TypeInv /\ TableInv /\ [Next]_vars => [M!Next]_M!vars
<1> SUFFICES ASSUME TypeInv, TableInv, [Next]_vars
             PROVE  [M!Next]_M!vars
    OBVIOUS
<1> USE DEF tableVars, threadVars, mainVars, netVars
<1>1. ASSUME UNCHANGED <<present, slave, machineFile>>
      PROVE  UNCHANGED M!vars
      BY <1>1 DEF M!vars
<1>2. CASE UNCHANGED vars
      BY <1>1, <1>2 DEF vars
<1>3. CASE Main
  <2>1. CASE WriteMachineRow /\ i \in present
    <3>1. {m.rank : m \in machineFile'} = {m.rank : m \in machineFile} \cup {i}
      <4> DEFINE row == [rank |-> i, torn |-> NULL \in {machines[i][ip_addr],
                                                        machines[i][cpus]}]
      <4>1. row.rank = i
            OBVIOUS
      <4>2. machineFile' = machineFile \cup {row}
            BY <2>1 DEF WriteMachineRow
      <4> HIDE DEF row
      <4> QED BY <4>1, <4>2
    <3>2. PICK r \in Ranks : r = i
          BY DEF TypeInv, TypeOK
    <3>3. M!List(r)
          BY <2>1, <3>1, <3>2 DEF WriteMachineRow, M!List
    <3>4. M!Next
          BY <3>3 DEF M!Next
    <3> QED BY <3>4
  <2>2. CASE ~ (WriteMachineRow /\ i \in present)
        BY <1>1, <1>3, <2>2
        DEF Main, WaitRound, WriteMachineRow, WriteSshRow, OpenFails,
            MarkUnique, Dedup, DecideSharedFs
  <2> QED BY <2>1, <2>2
<1>4. ASSUME NEW p \in Procs, SendRegister(p) \/ Lose(p)
      PROVE  UNCHANGED M!vars
      BY <1>1, <1>4 DEF SendRegister, Lose
<1>5. ASSUME NEW p \in Procs, RecvAck(p)
      PROVE  M!Next
  <2>1. {q \in Procs : slave'[q] = "joined"}
           = {q \in Procs : slave[q] = "joined"} \cup {p}
        BY <1>5 DEF RecvAck, TypeInv, TypeOK
  <2>2. RankOf[p] \in present
        BY <1>5 DEF RecvAck, TableInv, KnownRanks
  <2>3. M!Join(p)
        BY <1>5, <2>1, <2>2 DEF RecvAck, M!Join
  <2> QED BY <2>3 DEF M!Next
<1>6. ASSUME NEW t \in Threads, NEW p \in Procs, Receive(t, p)
      PROVE  UNCHANGED M!vars
      BY <1>1, <1>6 DEF Receive
<1>7. ASSUME NEW t \in Threads, Alloc(t)
      PROVE  M!Next
  <2>1. M!Admit(RankOf[tproc[t]])
        BY <1>7 DEF Alloc, M!Admit
  <2>2. RankOf[tproc[t]] \in Ranks
        BY <1>7 DEF Alloc, TypeInv, BusyServes
  <2> QED BY <2>1, <2>2 DEF M!Next
<1>8. ASSUME NEW t \in Threads,
             Lock(t) \/ Fill(t) \/ CompareIp(t) \/ ComparePort(t)
      PROVE  UNCHANGED M!vars
      BY <1>1, <1>8 DEF Lock, Fill, CompareIp, ComparePort
<1> QED BY <1>2, <1>3, <1>4, <1>5, <1>6, <1>7, <1>8 DEF Next, Handler

\* Registration implements Membership: a rank is admitted once and for good,
\* before its process believes it has joined and before it is listed.
THEOREM RefinesMembership == Spec => ImplementsMembership
<1>1. Init => M!Init
      BY DEF Init, M!Init
<1> QED
    BY <1>1, StepMembership, TableInvariant, PTL
    DEF Spec, ImplementsMembership, M!Spec

-----------------------------------------------------------------------------
(***************************************************************************)
(* What main concludes from the table while handlers still write it.       *)
(***************************************************************************)

\* A field that is set comes from a process that claims the rank.
FieldsClaimed ==
  \A r \in Ranks, f \in Fields :
    machines[r][f] = NULL \/ (machines[r][f] \in Owners /\ Claims(machines[r][f], r))

\* The hosts of two ranks whose own processes are unique differ.
Apart(p, q) ==
  /\ Uncontested(p) /\ Uncontested(q) /\ RankIn(p) < RankIn(q)
  /\ {RankIn(p), RankIn(q)} \subseteq unique
  => IpOf[p] # IpOf[q]

\* The outer loop over the unique ranks has been through those below i.
HostsInv ==
  \A p, q \in Owners :
    /\ mpc = "dedup" /\ RankIn(p) < i => Apart(p, q)
    /\ mpc \in {"shared", "decided"} => Apart(p, q)

\* So has the loop over the working directories.
IwdInv ==
  \A m \in machineFile, p \in Procs :
    Uncontested(p) /\ RankOf[p] = m.rank /\ sharedFs
      /\ (mpc = "decided" \/ (mpc = "shared" /\ m.rank < i))
    => IwdOf[p] = IwdOf[Master]

\* The ranks processes have or announce are natural numbers.
LEMMA RankType ==
  /\ \A p \in Owners : RankIn(p) \in Nat
  /\ \A p \in Procs : RankIn(p) = RankOf[p] /\ p \in Owners
  BY RegistrationAssumption DEF RankIn, Owners

\* A set field of the rank of an uncontested process is that process's.
LEMMA FieldOwner ==
  ASSUME FieldsClaimed, NEW p \in Owners, Uncontested(p), RankIn(p) \in Ranks,
         NEW f \in Fields, machines[RankIn(p)][f] # NULL
  PROVE  machines[RankIn(p)][f] = p
<1>1. PICK q \in Owners : q = machines[RankIn(p)][f] /\ Claims(q, RankIn(p))
      BY DEF FieldsClaimed
<1> QED BY <1>1 DEF Uncontested

\* handle_register writes a field only of the rank it was sent.
LEMMA StepFields ==
  ASSUME TypeInv, FieldsClaimed, [Next]_vars
  PROVE  FieldsClaimed'
<1> USE DEF TypeInv, TypeOK
<1>1. CASE machines' = machines
      BY <1>1 DEF FieldsClaimed, Claims, RankIn
<1>2. ASSUME NEW t \in Threads, Alloc(t) PROVE FieldsClaimed'
  <2>1. PICK r \in Ranks : machines' = [machines EXCEPT ![r] = Blank]
        BY <1>2 DEF Alloc, BusyServes
  <2>2. ASSUME NEW s \in Ranks, NEW f \in Fields
        PROVE  machines'[s][f] = NULL \/ machines'[s][f] = machines[s][f]
        BY <2>1 DEF Blank
  <2> QED BY <2>2 DEF FieldsClaimed, Claims, RankIn
<1>3. ASSUME NEW t \in Threads, Fill(t) PROVE FieldsClaimed'
  <2>1. PICK p \in Procs, g \in Fields :
          RankOf[p] \in Ranks /\ machines' = [machines EXCEPT ![RankOf[p]][g] = p]
        BY <1>3 DEF Fill, BusyServes
  <2>2. p \in Owners /\ Claims(p, RankOf[p])
        BY RegistrationAssumption DEF Owners, Claims, RankIn
  <2>3. ASSUME NEW s \in Ranks, NEW f \in Fields
        PROVE  (s = RankOf[p] /\ machines'[s][f] = p) \/ machines'[s][f] = machines[s][f]
        BY <2>1
  <2> QED BY <2>2, <2>3 DEF FieldsClaimed, Claims, RankIn
<1>4. Main \/ UNCHANGED vars => machines' = machines
      BY DEF Main, WaitRound, WriteMachineRow, WriteSshRow, OpenFails, MarkUnique, Dedup,
             DecideSharedFs, vars, tableVars
<1>5. ASSUME NEW p \in Procs, SendRegister(p) \/ RecvAck(p) \/ Lose(p)
      PROVE  machines' = machines
      BY <1>5 DEF SendRegister, RecvAck, Lose, tableVars
<1>6. ASSUME NEW t \in Threads, NEW p \in Procs, Receive(t, p) PROVE machines' = machines
      BY <1>6 DEF Receive, tableVars
<1>7. ASSUME NEW t \in Threads, Lock(t) \/ CompareIp(t) \/ ComparePort(t)
      PROVE  machines' = machines
      BY <1>7 DEF Lock, CompareIp, ComparePort, tableVars
<1> QED BY <1>1, <1>2, <1>3, <1>4, <1>5, <1>6, <1>7 DEF Next, Handler

\* What the others do to what main has concluded: a calloc clears unique.
LEMMA OthersLeave ==
  ASSUME [Next]_vars, ~ Main
  PROVE  /\ unique' \subseteq unique
         /\ UNCHANGED <<i, machineFile, sharedFs>>
         /\ mpc' = mpc \/ mpc' = "crashed"
<1> USE DEF tableVars, mainVars
<1>1. CASE UNCHANGED vars
      BY <1>1 DEF vars
<1>2. ASSUME NEW p \in Procs, SendRegister(p) \/ RecvAck(p) \/ Lose(p)
      PROVE  UNCHANGED <<unique, mainVars>>
      BY <1>2 DEF SendRegister, RecvAck, Lose
<1>3. ASSUME NEW t \in Threads, NEW p \in Procs, Receive(t, p)
      PROVE  UNCHANGED <<unique, mainVars>>
      BY <1>3 DEF Receive
<1>4. ASSUME NEW t \in Threads, Handler(t)
      PROVE  /\ unique' \subseteq unique
             /\ UNCHANGED <<i, machineFile, sharedFs>>
             /\ mpc' = mpc \/ mpc' = "crashed"
      BY <1>4 DEF Handler, Alloc, Lock, Fill, CompareIp, ComparePort
<1> QED BY <1>1, <1>2, <1>3, <1>4 DEF Next

\* One round of the outer loop of the dedup keeps HostsInv.
LEMMA DedupHosts ==
  ASSUME TypeInv, FieldsClaimed, HostsInv, Dedup
  PROVE  HostsInv'
<1>0. /\ NumProcs \in Nat /\ \A p \in Owners : RankIn(p) \in Nat
      /\ i \in 0 .. NumProcs - 1 /\ unique \subseteq Ranks /\ mpc = "dedup"
      BY RegistrationAssumption, RankType DEF TypeInv, TypeOK, Ranks, Dedup
<1>1. CASE mpc' = "crashed"
      BY <1>1 DEF HostsInv
<1>2. CASE mpc' # "crashed"
  <2>1. /\ unique' \subseteq unique
        /\ (i' = i + 1 /\ mpc' = "dedup") \/ (i = NumProcs - 1 /\ i' = 0 /\ mpc' = "shared")
        BY <1>0, <1>2 DEF Dedup, NextRank, Ranks
  <2>2. ASSUME NEW p \in Owners, NEW q \in Owners, Uncontested(p), Uncontested(q),
               RankIn(p) = i, RankIn(q) > i, RankIn(p) \in unique', RankIn(q) \in unique'
        PROVE  IpOf[p] # IpOf[q]
    <3>1. /\ i \in unique /\ RankIn(q) \in unique /\ i \in Ranks /\ RankIn(q) \in Ranks
          /\ ip_addr \in Fields
          BY <1>0, <2>1, <2>2 DEF Fields, ip_addr
    <3>2. machines[i][ip_addr] # NULL /\ machines[RankIn(q)][ip_addr] # NULL
          BY <1>2, <2>2, <3>1 DEF Dedup
    <3>3. machines[i][ip_addr] = p /\ machines[RankIn(q)][ip_addr] = q
          BY <2>2, <3>1, <3>2, FieldOwner
    <3>4. ~ SameHost(i, RankIn(q))
          BY <1>2, <2>2, <3>1 DEF Dedup
    <3> QED BY <3>3, <3>4 DEF SameHost
  <2>3. ASSUME NEW p \in Owners, NEW q \in Owners, RankIn(p) < i + 1
        PROVE  Apart(p, q)'
    <3> SUFFICES ASSUME Uncontested(p), Uncontested(q), RankIn(p) < RankIn(q),
                        RankIn(p) \in unique', RankIn(q) \in unique'
                 PROVE  IpOf[p] # IpOf[q]
        BY DEF Apart, Uncontested
    <3>1. CASE RankIn(p) = i
          BY <2>2, <3>1
    <3>2. CASE RankIn(p) < i
          BY <1>0, <2>1, <3>2 DEF HostsInv, Apart
    <3> QED BY <1>0, <2>3, <3>1, <3>2
  <2>4. ASSUME i = NumProcs - 1, NEW p \in Owners, NEW q \in Owners PROVE Apart(p, q)'
    <3>1. CASE RankIn(p) < i + 1
          BY <2>3, <3>1
    <3>2. CASE ~ (RankIn(p) < i + 1)
      <4>1. RankIn(p) \notin Ranks
            BY <1>0, <2>4, <3>2 DEF Ranks
      <4>2. RankIn(p) \notin unique'
            BY <1>0, <2>1, <4>1
      <4> QED BY <4>2 DEF Apart
    <3> QED BY <3>1, <3>2
  <2>5. CASE i' = i + 1 /\ mpc' = "dedup"
        BY <2>3, <2>5 DEF HostsInv
  <2>6. CASE i = NumProcs - 1 /\ mpc' = "shared"
        BY <2>4, <2>6 DEF HostsInv
  <2> QED BY <2>1, <2>5, <2>6
<1> QED BY <1>1, <1>2

\* HostsInv holds again after every step, whatever entries are wiped.
LEMMA StepHosts ==
  ASSUME TypeInv, FieldsClaimed, HostsInv, [Next]_vars
  PROVE  HostsInv'
<1>0. \A p \in Owners : RankIn(p) \in Nat
      BY RankType
<1>1. ASSUME unique' \subseteq unique, i' = i, mpc' = mpc \/ mpc' = "crashed"
      PROVE  HostsInv'
      BY <1>1 DEF HostsInv, Apart, Uncontested
<1>2. CASE Dedup
      BY <1>2, DedupHosts
<1>3. CASE MarkUnique
  <2>1. mpc' = "mark" \/ (mpc' = "dedup" /\ i' = 0)
        BY <1>3 DEF MarkUnique, NextRank
  <2> QED BY <1>0, <2>1 DEF HostsInv
<1>4. CASE DecideSharedFs
  <2>1. unique' = unique /\ mpc = "shared" /\ mpc' \in {"shared", "decided", "crashed"}
        BY <1>4 DEF DecideSharedFs, NextRank, tableVars
  <2> QED BY <2>1 DEF HostsInv, Apart, Uncontested
<1>5. CASE WaitRound \/ WriteMachineRow \/ WriteSshRow \/ OpenFails
  <2>1. mpc' \in {"wait", "file", "ssh", "mark", "cleanup"}
        BY <1>5 DEF WaitRound, WriteMachineRow, WriteSshRow, OpenFails, NextRank
  <2> QED BY <2>1 DEF HostsInv
<1>6. CASE ~ Main
      BY <1>1, <1>6, OthersLeave
<1> QED BY <1>2, <1>3, <1>4, <1>5, <1>6 DEF Main

\* So does IwdInv: the loop looks at every entry of the table.
LEMMA StepIwd ==
  ASSUME TypeInv, TableInv, FieldsClaimed, IwdInv, [Next]_vars
  PROVE  IwdInv'
<1>0. /\ NumProcs \in Nat /\ i \in 0 .. NumProcs - 1
      /\ \A m \in machineFile : m.rank \in present /\ m.rank \in 0 .. NumProcs - 1
      /\ present \subseteq Ranks /\ Ranks = 0 .. NumProcs - 1
      BY RegistrationAssumption DEF TypeInv, TypeOK, Ranks, TableInv, KnownRanks
<1>1. ASSUME UNCHANGED <<i, machineFile, sharedFs>>, mpc' = mpc \/ mpc' = "crashed"
      PROVE  IwdInv'
      BY <1>1 DEF IwdInv, Uncontested
<1>2. CASE DecideSharedFs
  <2>0. mpc = "shared" /\ machineFile' = machineFile
        BY <1>2 DEF DecideSharedFs
  <2>1. CASE mpc' = "crashed"
        BY <2>1 DEF IwdInv
  <2>2. CASE mpc' # "crashed"
    <3>1. (i' = i + 1 /\ mpc' = "shared") \/ (i = NumProcs - 1 /\ mpc' = "decided")
          BY <1>0, <1>2, <2>2 DEF DecideSharedFs, NextRank
    <3> SUFFICES ASSUME NEW m \in machineFile, NEW p \in Procs, Uncontested(p),
                        RankOf[p] = m.rank, sharedFs', m.rank < i + 1
                 PROVE  IwdOf[p] = IwdOf[Master]
      <4>1. \A m \in machineFile : mpc' = "decided" \/ (mpc' = "shared" /\ m.rank < i')
              => m.rank < i + 1
            BY <1>0, <3>1
      <4> QED BY <2>0, <4>1 DEF IwdInv, Uncontested
    <3>2. sharedFs /\ (i \in present => IwdOf[machines[i][iwd]] = IwdOf[Master])
          BY <1>2, <2>2, Zenon DEF DecideSharedFs
    <3>3. CASE m.rank < i
          BY <2>0, <3>2, <3>3 DEF IwdInv
    <3>4. CASE m.rank = i
      <4>1. i \in present /\ i \in Ranks /\ iwd \in Fields
            BY <1>0, <3>4 DEF Fields, iwd
      <4>2. machines[i][iwd] # NULL
            BY <1>2, <2>2, <4>1 DEF DecideSharedFs
      <4>3. machines[i][iwd] = p
            BY <3>4, <4>1, <4>2, FieldOwner, RankType
      <4> QED BY <3>2, <4>1, <4>3
    <3> QED BY <1>0, <3>3, <3>4
  <2> QED BY <2>1, <2>2
<1>3. CASE Dedup
  <2>1. mpc' \in {"dedup", "crashed"} \/ (mpc' = "shared" /\ i' = 0 /\ machineFile' = machineFile)
        BY <1>3 DEF Dedup, NextRank
  <2> QED BY <1>0, <2>1 DEF IwdInv
<1>4. CASE WaitRound \/ WriteMachineRow \/ WriteSshRow \/ OpenFails \/ MarkUnique
  <2>1. mpc' \in {"wait", "file", "ssh", "mark", "dedup", "cleanup"}
        BY <1>4 DEF WaitRound, WriteMachineRow, WriteSshRow, OpenFails, MarkUnique, NextRank
  <2> QED BY <2>1 DEF IwdInv
<1>5. CASE ~ Main
      BY <1>1, <1>5, OthersLeave
<1> QED BY <1>2, <1>3, <1>4, <1>5 DEF Main

\* The conclusions of main hold in every behaviour.
LEMMA Concluded ==
  Spec => [](TypeInv /\ TableInv /\ FieldsClaimed /\ HostsInv /\ IwdInv)
<1> DEFINE IInv == TypeInv /\ TableInv /\ FieldsClaimed /\ HostsInv /\ IwdInv
<1>1. Init => IInv
  <2> SUFFICES ASSUME Init PROVE IInv
      OBVIOUS
  <2>1. TypeInv /\ TableInv
        BY InitType, InitTable
  <2>2. FieldsClaimed
    <3>1. ASSUME NEW r \in Ranks, NEW f \in Fields
          PROVE  machines[r][f] = NULL \/ (r = 0 /\ machines[r][f] = Master)
          BY DEF Init, EntryOf, Blank
    <3> QED BY <3>1 DEF FieldsClaimed, Claims, RankIn, Owners
  <2>3. HostsInv /\ IwdInv
        BY DEF Init, HostsInv, IwdInv
  <2> QED BY <2>1, <2>2, <2>3
<1>2. IInv /\ [Next]_vars => IInv'
      BY StepType, StepTable, StepFields, StepHosts, StepIwd
<1> QED BY <1>1, <1>2, PTL DEF Spec

\* When the unique hosts are settled no two of them share an address, the
\* master's included, for any number of ranks and though entries are wiped and
\* filled meanwhile.
THEOREM HostsDistinct == Spec => []UniqueDistinct
<1>1. TypeInv /\ HostsInv => UniqueDistinct
  <2> SUFFICES ASSUME TypeInv, HostsInv, mpc \in {"shared", "decided"},
                      NEW p \in Owners, NEW q \in Owners, Uncontested(p), Uncontested(q),
                      p # q, RankIn(p) \in unique, RankIn(q) \in unique
               PROVE  IpOf[p] # IpOf[q]
      BY DEF UniqueDistinct
  <2>1. RankIn(p) \in Nat /\ RankIn(q) \in Nat /\ RankIn(p) # RankIn(q)
        BY RankType DEF Uncontested, Claims
  <2>2. Apart(p, q) /\ Apart(q, p)
        BY DEF HostsInv
  <2> QED BY <2>1, <2>2 DEF Apart
<1> QED BY <1>1, Concluded, PTL

\* A file system taken for shared is the working directory of every process
\* listed in the machine file, those that registered late included.
THEOREM SharedFsIsShared == Spec => []SharedFsCoversFile
<1>1. IwdInv => SharedFsCoversFile
      BY DEF IwdInv, SharedFsCoversFile
<1> QED BY <1>1, Concluded, PTL
=============================================================================
