--------------------------- MODULE ShutdownProofs ---------------------------
(***************************************************************************)
(* Theorems about Shutdown, for any number of slaves, TERMs, outcomes of   *)
(* the child and signals.                                                  *)
(***************************************************************************)
EXTENDS Shutdown, TLAPS

\* What waitpid stores is a natural number.
LEMMA CodeFacts == Codes \subseteq Nat
  BY ShutdownAssumption DEF Codes, WaitStatus

\* exit keeps a byte of it.
LEMMA ByteFacts == \A n \in Nat : n % 256 \in 0 .. 255
  OBVIOUS

Labels == {"none", "round", "stuck", "term", "kill", "config", "wrapper", "machine",
           "rmdir", "exit"}

\* The parts of the type invariant that the TERM loops, the table and the
\* slaves can disturb.
LoopType ==
  /\ cpc \in [MThreads -> Labels]
  /\ code \in [MThreads -> Codes \cup {0}]
  /\ ci \in [MThreads -> 1 .. NumProcs] /\ cj \in [MThreads -> 0 .. TermRetries - 1]
  /\ terms \in [Slaves -> SUBSET Codes]
  /\ due \in [MThreads -> SUBSET Slaves] /\ settled \subseteq MThreads
  /\ sent \in [MThreads -> 0 .. TermRetries - 1]

MainType ==
  /\ mpc \in {"machine", "config", "wrapper", "setup", "fork", "wait"}
  /\ kaMutex \in BOOLEAN /\ jmpset \in BOOLEAN /\ killed \in BOOLEAN /\ dir \in BOOLEAN
  /\ child \in Outcomes \cup {None, Alive}
  /\ pgid \in {-1, 0}
  /\ files \subseteq DOMAIN After
  /\ mexit \in {Up, Crash} \cup 0 .. 255
  /\ signals \in 0 .. MaxSignals /\ flag \in BOOLEAN /\ libc \in BOOLEAN

TableType == reg \subseteq Slaves /\ blank \subseteq reg /\ acked \subseteq reg

SlavesType ==
  /\ smain \in [Slaves -> {"register", "join"}]
  /\ slisten \in [Slaves -> {"loop", "cleanup", "gone"}]
  /\ hpc \in [Slaves -> [Cleaners -> {"none", "cancel", "scratch", "link", "exit"}]]
  /\ left \in [Slaves -> SUBSET {"scratch", "link"}]
  /\ sexit \in [Slaves -> {Up, Crash} \cup 0 .. 255]
  /\ lpc \in [Slaves -> [Linkers -> {"idle", "make", "lock", "list"}]]
  /\ listed \subseteq Slaves /\ smutex \subseteq Slaves
  /\ racing \subseteq Slaves \X Cleaners

\* Besides, a thread in cleanup has the code it was called with, and has not
\* sent more TERMs to the rank it is at than it has tried to.
TypeInv ==
  /\ LoopType /\ MainType /\ TableType /\ SlavesType
  /\ \A th \in MThreads : InCleanup(th) => code[th] \in Codes
  /\ \A th \in MThreads : sent[th] <= cj[th]

LEMMA TypeParts == TypeInv => TypeOK
  BY DEF TypeInv, TypeOK, LoopType, MainType, TableType, SlavesType, Labels

\* The types hold when the listener is about to start.
LEMMA InitType == Init => TypeInv
<1> SUFFICES ASSUME Init PROVE TypeInv
    OBVIOUS
<1>1. LoopType
      BY ShutdownAssumption DEF Init, LoopType, Labels
<1>2. MainType
  <2>1. /\ kaMutex \in BOOLEAN /\ jmpset \in BOOLEAN /\ killed \in BOOLEAN
        /\ dir \in BOOLEAN /\ flag \in BOOLEAN /\ libc \in BOOLEAN
        BY Zenon DEF Init
  <2>2. signals \in 0 .. MaxSignals
        BY ShutdownAssumption DEF Init
  <2>3. /\ mpc \in {"machine", "config", "wrapper", "setup", "fork", "wait"}
        /\ child \in Outcomes \cup {None, Alive}
        /\ pgid \in {-1, 0}
        /\ files \subseteq DOMAIN After
        /\ mexit \in {Up, Crash} \cup 0 .. 255
        BY DEF Init
  <2> QED BY <2>1, <2>2, <2>3 DEF MainType
<1>3. TableType
      BY DEF Init, TableType
<1>4. SlavesType
      BY Zenon DEF Init, SlavesType
<1>5. \A th \in MThreads : ~ InCleanup(th) /\ sent[th] <= cj[th]
      BY DEF Init, InCleanup, Ending
<1> QED BY <1>1, <1>2, <1>3, <1>4, <1>5 DEF TypeInv

\* A call of cleanup keeps the types of the threads.
LEMMA BeginType ==
  ASSUME TypeInv, NEW th \in MThreads, NEW rc \in Codes, Begin(th, rc)
  PROVE  /\ LoopType' /\ kaMutex' = TRUE
         /\ \A t \in MThreads : InCleanup(t)' => code'[t] \in Codes
         /\ \A t \in MThreads : sent'[t] <= cj'[t]
<1> USE DEF TypeInv
<1>0. LoopType /\ TableType
      BY DEF TypeInv
<1>1. cpc' \in [MThreads -> Labels] /\ code' \in [MThreads -> Codes \cup {0}]
      BY <1>0 DEF LoopType, Begin, Labels
<1>2. /\ ci' \in [MThreads -> 1 .. NumProcs] /\ cj' \in [MThreads -> 0 .. TermRetries - 1]
      /\ sent' \in [MThreads -> 0 .. TermRetries - 1]
      BY <1>0, ShutdownAssumption DEF LoopType, Begin
<1>3. due' \in [MThreads -> SUBSET Slaves] /\ settled' \subseteq MThreads /\ terms' = terms
      BY <1>0 DEF LoopType, TableType, Begin
<1>4. \A t \in MThreads : t # th => /\ cpc'[t] = cpc[t] /\ code'[t] = code[t]
                                    /\ sent'[t] = sent[t] /\ cj'[t] = cj[t]
      BY <1>0 DEF LoopType, Begin
<1>5. code'[th] = rc /\ sent'[th] = 0 /\ cj'[th] = 0
      BY <1>0 DEF LoopType, Begin
<1> QED BY <1>0, <1>1, <1>2, <1>3, <1>4, <1>5 DEF LoopType, Begin, InCleanup, Ending

\* The TERM loop keeps the types; its index stays in bounds.
LEMMA TermType ==
  ASSUME TypeInv, NEW th \in MThreads, Term(th)
  PROVE  TypeInv'
<1> USE ShutdownAssumption DEF TypeInv
<1>0. LoopType /\ MainType /\ TableType /\ SlavesType
      BY DEF TypeInv
<1>1. PICK r \in 1 .. NumProcs : r = ci[th]
      BY <1>0 DEF LoopType
<1>2. PICK n \in 0 .. TermRetries - 1 : n = cj[th]
      BY <1>0 DEF LoopType
<1>3. PICK m \in 0 .. TermRetries - 1 : m = sent[th] /\ m <= n
      BY <1>0, <1>2 DEF LoopType
<1>4. code[th] \in Codes
      BY DEF Term, InCleanup, Ending
<1>5. UNCHANGED <<mainVars, code, kaMutex, settled, diskVars, killed, mexit,
                  signalVars, tableVars, slaveVars>>
      BY DEF Term
<1>6. /\ LoopType'
      /\ \A t \in MThreads : InCleanup(t)' => InCleanup(t)
      /\ \A t \in MThreads : sent'[t] <= cj'[t]
  <2>1. CASE SendTerm(th)
    <3>0. UNCHANGED <<cpc, code, settled>>
          BY <1>5, <2>1 DEF SendTerm
    <3>1. r \in Slaves /\ r < NumProcs
          BY <1>1, <2>1 DEF SendTerm, MoreRanks, Slaves
    <3>2. terms' \in [Slaves -> SUBSET Codes]
          BY <1>0, <1>1, <1>4, <2>1, <3>1 DEF SendTerm, LoopType
    <3>3. due' \in [MThreads -> SUBSET Slaves]
          BY <1>0, <2>1 DEF SendTerm, LoopType
    <3>4. CASE n + 1 < TermRetries
      <4>1. PICK k \in 0 .. TermRetries - 1 :
              sent' = [sent EXCEPT ![th] = k] /\ k <= n + 1
            BY <1>2, <1>3, <2>1, <3>4 DEF SendTerm
      <4>2. cj' = [cj EXCEPT ![th] = n + 1] /\ n + 1 \in 0 .. TermRetries - 1 /\ ci' = ci
            BY <1>2, <2>1, <3>4 DEF SendTerm
      <4>3. /\ cj' \in [MThreads -> 0 .. TermRetries - 1]
            /\ sent' \in [MThreads -> 0 .. TermRetries - 1]
            /\ \A t \in MThreads : sent'[t] <= cj'[t]
            BY <1>0, <4>1, <4>2 DEF LoopType
      <4> QED BY <1>0, <3>0, <3>2, <3>3, <4>2, <4>3 DEF LoopType, InCleanup, Ending
    <3>5. CASE ~ (n + 1 < TermRetries)
      <4>1. /\ cj' = [cj EXCEPT ![th] = 0] /\ sent' = [sent EXCEPT ![th] = 0]
            /\ ci' = [ci EXCEPT ![th] = r + 1]
            BY <1>1, <1>2, <2>1, <3>5 DEF SendTerm
      <4>2. r + 1 \in 1 .. NumProcs /\ 0 \in 0 .. TermRetries - 1
            BY <3>1
      <4>3. /\ cj' \in [MThreads -> 0 .. TermRetries - 1]
            /\ sent' \in [MThreads -> 0 .. TermRetries - 1]
            /\ ci' \in [MThreads -> 1 .. NumProcs]
            /\ \A t \in MThreads : sent'[t] <= cj'[t]
            BY <1>0, <4>1, <4>2 DEF LoopType
      <4> QED BY <1>0, <3>0, <3>2, <3>3, <4>3 DEF LoopType, InCleanup, Ending
    <3> QED BY <3>4, <3>5
  <2>2. CASE SkipRank(th)
    <3>1. ci' = [ci EXCEPT ![th] = r + 1] /\ r + 1 \in 1 .. NumProcs
          BY <1>1, <2>2 DEF SkipRank, MoreRanks
    <3>2. UNCHANGED <<sendVars, cj, cpc, code, settled>>
          BY <1>5, <2>2 DEF SkipRank
    <3> QED BY <1>0, <3>1, <3>2 DEF LoopType, sendVars, InCleanup, Ending
  <2>3. CASE EndLoop(th)
    <3>1. cpc' = [cpc EXCEPT ![th] = "kill"] /\ cpc[th] = "term"
          BY <2>3 DEF EndLoop, Term
    <3>2. UNCHANGED <<sendVars, ci, cj, code, settled>>
          BY <1>5, <2>3 DEF EndLoop
    <3> QED BY <1>0, <3>1, <3>2 DEF LoopType, sendVars, InCleanup, Ending, Labels
  <2> QED BY <2>1, <2>2, <2>3 DEF Term
<1>7. MainType' /\ TableType' /\ SlavesType'
      BY <1>0, <1>5 DEF MainType, TableType, SlavesType, mainVars, diskVars, signalVars,
                        tableVars, slaveVars, linkVars
<1> QED BY <1>5, <1>6, <1>7

\* So do the later steps of cleanup.
LEMMA CleanupType ==
  ASSUME TypeInv, NEW th \in MThreads, Cleanup(th)
  PROVE  TypeInv'
<1> USE DEF TypeInv
<1>0. LoopType /\ MainType /\ TableType /\ SlavesType
      BY DEF TypeInv
<1>1. CASE Kill(th) \/ RemoveFile(th) \/ Rmdir(th)
  <2> USE <1>1 DEF Kill, RemoveFile, Rmdir, Goto
  <2>1. cpc[th] \in {"kill", "config", "wrapper", "machine", "rmdir"}
        BY DEF After
  <2>2. PICK l \in {"kill", "config", "wrapper", "machine", "rmdir", "exit"} :
          cpc' = [cpc EXCEPT ![th] = l]
        BY DEF After
  <2>3. \A t \in MThreads : InCleanup(t)' => InCleanup(t)
        BY <1>0, <2>1, <2>2 DEF LoopType, InCleanup, Ending
  <2>4. dir' \in BOOLEAN
    <3>1. CASE Rmdir(th)
          BY <3>1, Zenon DEF Rmdir
    <3> QED BY <1>0, <3>1 DEF MainType, diskVars
  <2>5. killed' \in BOOLEAN
    <3>1. CASE Kill(th)
          BY <3>1, Zenon DEF Kill
    <3> QED BY <1>0, <3>1 DEF MainType
  <2>6. files' \subseteq DOMAIN After
        BY <1>0 DEF MainType, diskVars
  <2>7. UNCHANGED <<mainVars, mexit, signalVars, tableVars, slaveVars,
                    code, ci, cj, kaMutex, settled, sendVars>>
        OBVIOUS
  <2>8. cpc' \in [MThreads -> Labels]
        BY <1>0, <2>2 DEF LoopType, Labels
  <2>9. MainType'
        BY <1>0, <2>4, <2>5, <2>6, <2>7 DEF MainType, mainVars, signalVars
  <2>10. LoopType' /\ TableType' /\ SlavesType'
        BY <1>0, <2>7, <2>8 DEF LoopType, TableType, SlavesType, sendVars, tableVars,
                                slaveVars, linkVars
  <2> QED BY <2>3, <2>7, <2>9, <2>10 DEF sendVars
<1>2. CASE Exit(th)
  <2>1. code[th] \in Nat
        BY <1>2, CodeFacts DEF Exit, InCleanup, Ending
  <2>2. mexit' \in 0 .. 255
        BY <1>2, <2>1, ByteFacts DEF Exit
  <2>3. UNCHANGED <<mainVars, cleanVars, diskVars, killed, signalVars, tableVars, slaveVars>>
        BY <1>2 DEF Exit
  <2> QED BY <2>2, <2>3 DEF LoopType, MainType, TableType, SlavesType, InCleanup, Ending,
                            mainVars, cleanVars, sendVars,
                            diskVars, signalVars, tableVars, slaveVars, linkVars
<1> QED BY <1>1, <1>2, TermType DEF Cleanup

\* main, the listener, the keep_alive thread and signals keep the types.
LEMMA MasterType ==
  ASSUME TypeInv,
         \/ StartListener \/ WriteFile \/ WriteWrapper \/ UnlockKeepAlive \/ Fork
         \/ WaitPid \/ KeepAliveStarts \/ KeepAliveEnds \/ KeepAliveAborts
         \/ ListenerSeesFlag
         \/ \E o \in Outcomes : ChildChanges(o)
         \/ \E th \in MThreads : Signal(th)
  PROVE  TypeInv'
<1> USE DEF TypeInv
<1>0. {5, 10, 250} \subseteq Codes /\ \A o \in Outcomes : WaitStatus(o) \in Codes
      BY DEF Codes
<1>a. LoopType /\ MainType /\ TableType /\ SlavesType
      BY DEF TypeInv
<1>b. ASSUME MainType', UNCHANGED <<cpc, code, ci, cj, settled, sendVars, tableVars, slaveVars>>
      PROVE  TypeInv'
      BY <1>a, <1>b
         DEF LoopType, TableType, SlavesType, sendVars, tableVars, slaveVars, linkVars,
             InCleanup, Ending
<1>1. ASSUME NEW th \in MThreads, NEW rc \in Codes, Begin(th, rc), MainType',
             UNCHANGED <<tableVars, slaveVars>>
      PROVE  TypeInv'
  <2>1. TableType' /\ SlavesType'
        BY <1>a, <1>1 DEF TableType, SlavesType, tableVars, slaveVars, linkVars
  <2> QED BY <1>1, <2>1, BeginType
<1>2. CASE StartListener
  <2>1. MainType'
        BY <1>a, <1>2 DEF StartListener, MainType, cleanVars, diskVars, signalVars
  <2> QED BY <1>b, <1>2, <2>1 DEF StartListener, cleanVars
<1>3. CASE WriteFile
  <2>1. CASE dir
    <3>1. MainType'
          BY <1>a, <1>3, <2>1 DEF WriteFile, MainType, After, cleanVars, diskVars, signalVars
    <3> QED BY <1>b, <1>3, <2>1, <3>1 DEF WriteFile, cleanVars
  <2>2. CASE ~ dir
    <3>1. Begin("main", 5) /\ kaMutex' = TRUE
          BY <1>3, <2>2 DEF WriteFile, Begin
    <3>2. MainType'
          BY <1>a, <1>3, <2>2, <3>1 DEF WriteFile, MainType, diskVars, signalVars
    <3> QED BY <1>0, <1>1, <1>3, <3>1, <3>2 DEF WriteFile, MThreads
  <2> QED BY <2>1, <2>2
<1>4. CASE WriteWrapper
  <2>1. MainType'
        BY <1>a, <1>4 DEF WriteWrapper, MainType, After, cleanVars, diskVars, signalVars
  <2> QED BY <1>b, <1>4, <2>1 DEF WriteWrapper, cleanVars
<1>5. CASE UnlockKeepAlive
  <2>1. kaMutex' \in BOOLEAN
        BY <1>5, Zenon DEF UnlockKeepAlive
  <2>2. MainType'
        BY <1>a, <1>5, <2>1 DEF UnlockKeepAlive, MainType, diskVars, signalVars
  <2> QED BY <1>b, <1>5, <2>2 DEF UnlockKeepAlive
<1>6. CASE Fork
  <2>1. CASE Begin("main", 10) /\ UNCHANGED <<child, pgid, mpc>>
    <3>1. MainType'
          BY <1>a, <1>6, <2>1 DEF Fork, Begin, MainType, diskVars, signalVars
    <3> QED BY <1>0, <1>1, <1>6, <2>1, <3>1 DEF Fork, MThreads
  <2>2. CASE child' = Alive /\ pgid' = 0 /\ mpc' = "wait" /\ UNCHANGED cleanVars
    <3>1. MainType'
          BY <1>a, <1>6, <2>2 DEF Fork, MainType, cleanVars, diskVars, signalVars
    <3> QED BY <1>b, <1>6, <2>2, <3>1 DEF Fork, cleanVars
  <2> QED BY <1>6, <2>1, <2>2 DEF Fork
<1>7. CASE WaitPid
  <2>1. PICK rc \in Codes : rc = WaitStatus(child)
        BY <1>0, <1>7 DEF WaitPid
  <2>2. MainType'
        BY <1>a, <1>7 DEF WaitPid, Begin, MainType, mainVars, diskVars, signalVars
  <2> QED BY <1>1, <1>7, <2>1, <2>2 DEF WaitPid, MThreads
<1>8. CASE KeepAliveStarts \/ KeepAliveEnds
  <2>1. kaMutex' \in BOOLEAN
        BY <1>8, Zenon DEF KeepAliveStarts, KeepAliveEnds
  <2>2. PICK l \in {"none", "round"} : cpc' = [cpc EXCEPT !["keep_alive"] = l]
        BY <1>8 DEF KeepAliveStarts, KeepAliveEnds
  <2>3. UNCHANGED <<mainVars, code, ci, cj, settled, sendVars, diskVars, killed, mexit,
                    signalVars, tableVars, slaveVars>>
        BY <1>8 DEF KeepAliveStarts, KeepAliveEnds
  <2>4. LoopType'
        BY <1>a, <2>2, <2>3 DEF LoopType, Labels, sendVars, MThreads
  <2>5. MainType' /\ TableType' /\ SlavesType'
        BY <1>a, <2>1, <2>3 DEF MainType, TableType, SlavesType, mainVars, diskVars,
                                signalVars, tableVars, slaveVars, linkVars
  <2>6. \A t \in MThreads : InCleanup(t)' => InCleanup(t)
        BY <1>a, <2>2 DEF LoopType, InCleanup, Ending
  <2> QED BY <2>3, <2>4, <2>5, <2>6 DEF sendVars
<1>9. CASE KeepAliveAborts \/ ListenerSeesFlag
  <2>0. kaMutex' = TRUE /\ UNCHANGED <<mainVars, diskVars, killed, mexit, signalVars>>
        BY <1>9 DEF KeepAliveAborts, ListenerSeesFlag, Begin
  <2>1. MainType'
        BY <1>a, <2>0 DEF MainType, mainVars, diskVars, signalVars
  <2> QED BY <1>0, <1>1, <1>9, <2>1 DEF KeepAliveAborts, ListenerSeesFlag, MThreads
<1>10. ASSUME NEW o \in Outcomes, ChildChanges(o) PROVE TypeInv'
  <2>1. MainType'
        BY <1>a, <1>10 DEF ChildChanges, MainType, cleanVars, diskVars, signalVars
  <2> QED BY <1>b, <1>10, <2>1 DEF ChildChanges, cleanVars
<1>11. ASSUME NEW th \in MThreads, Signal(th) PROVE TypeInv'
  <2>1. /\ signals' \in 0 .. MaxSignals
        /\ UNCHANGED <<mainVars, diskVars, killed, tableVars, slaveVars>>
        BY <1>a, <1>11, ShutdownAssumption DEF Signal, MainType
  <2>2. CASE HandlerBlocks(th)
    <3>1. cpc' = [cpc EXCEPT ![th] = "stuck"] /\ libc' \in BOOLEAN
          BY <2>2, Zenon DEF HandlerBlocks
    <3>2. UNCHANGED <<mexit, flag, code, ci, cj, kaMutex, settled, sendVars>>
          BY <2>2 DEF HandlerBlocks
    <3>3. MainType'
          BY <1>a, <2>1, <3>1, <3>2 DEF MainType, mainVars, diskVars
    <3>4. LoopType' /\ \A t \in MThreads : InCleanup(t)' => InCleanup(t)
          BY <1>a, <3>1, <3>2 DEF LoopType, Labels, sendVars, InCleanup, Ending
    <3>5. TableType' /\ SlavesType'
          BY <1>a, <2>1 DEF TableType, SlavesType, tableVars, slaveVars, linkVars
    <3> QED BY <3>2, <3>3, <3>4, <3>5 DEF sendVars
  <2>3. CASE HandlerExits
    <3>1. flag' \in BOOLEAN
          BY <2>3, Zenon DEF HandlerExits
    <3>2. MainType'
          BY <1>a, <2>1, <2>3, <3>1 DEF HandlerExits, MainType, mainVars, diskVars, cleanVars
    <3> QED BY <1>b, <2>1, <2>3, <3>2 DEF HandlerExits, cleanVars
  <2>4. CASE HandlerJumps(th)
    <3>1. flag' \in BOOLEAN
          BY <2>4, Zenon DEF HandlerJumps
    <3>2. libc' \in BOOLEAN
          BY <1>a, <2>4, Zenon DEF HandlerJumps, MainType
    <3>3. CASE Begin(th, 250) /\ UNCHANGED mexit
      <4>1. MainType'
            BY <1>a, <2>1, <3>1, <3>2, <3>3 DEF Begin, MainType, mainVars, diskVars
      <4> QED BY <1>0, <1>1, <2>1, <3>3, <4>1
    <3>4. CASE mexit' = Crash /\ UNCHANGED cleanVars
      <4>1. MainType'
            BY <1>a, <2>1, <3>1, <3>2, <3>4 DEF MainType, mainVars, diskVars, cleanVars
      <4> QED BY <1>b, <2>1, <3>4, <4>1 DEF cleanVars
    <3> QED BY <2>4, <3>3, <3>4 DEF HandlerJumps
  <2> QED BY <1>11, <2>2, <2>3, <2>4 DEF Signal
<1> QED BY <1>2, <1>3, <1>4, <1>5, <1>6, <1>7, <1>8, <1>9, <1>10, <1>11

\* What the handlers of REGISTERs and ACKs do to the table keeps the types.
LEMMA RowType ==
  ASSUME TypeInv, NEW r \in Slaves, Alloc(r) \/ Fill(r) \/ CompareBlank(r)
  PROVE  TypeInv'
<1> USE DEF TypeInv
<1>0. LoopType /\ MainType /\ TableType /\ SlavesType
      BY DEF TypeInv
<1>1. /\ UNCHANGED <<mainVars, cpc, code, ci, cj, kaMutex, settled, terms, sent, diskVars,
                     killed, signalVars, slaveVars>>
      /\ mexit' = mexit \/ mexit' = Crash
      BY DEF Alloc, Fill, CompareBlank, cleanVars, sendVars
<1>2. TableType'
      BY <1>0 DEF Alloc, Fill, CompareBlank, TableType, tableVars
<1>3. due' \in [MThreads -> SUBSET Slaves]
      BY <1>0 DEF Alloc, Fill, CompareBlank, LoopType, cleanVars, sendVars
<1>4. LoopType'
      BY <1>0, <1>1, <1>3 DEF LoopType
<1>5. MainType' /\ SlavesType'
      BY <1>0, <1>1 DEF MainType, SlavesType, mainVars, diskVars, signalVars, slaveVars, linkVars
<1> QED BY <1>1, <1>2, <1>4, <1>5 DEF InCleanup, Ending

\* What the steps of slaves leave alone.
LEMMA SlaveFrame == SlaveNext => UNCHANGED <<masterVars, tableVars>>
  BY DEF SlaveNext, SlaveCleanup, CreateLink, Join, MainReturns, HandleTerm, CancelListener,
         SlaveExit, SlaveSignal, StartLink, MakeLink, LockList, ListLink, RemoveScratch,
         RemoveLinks

\* The slaves keep the types.
LEMMA SlaveType ==
  ASSUME TypeInv, SlaveNext
  PROVE  TypeInv'
<1> USE DEF TypeInv
<1>0. LoopType /\ MainType /\ TableType /\ SlavesType
      BY DEF TypeInv
<1>1. UNCHANGED <<masterVars, tableVars>>
      BY SlaveFrame
<1>2. LoopType' /\ MainType' /\ TableType'
      BY <1>0, <1>1 DEF LoopType, MainType, TableType, masterVars, mainVars, cleanVars, sendVars,
                        diskVars, signalVars, tableVars
<1>3. ASSUME NEW r \in Slaves, Join(r) PROVE SlavesType'
      BY <1>0, <1>3 DEF Join, SlavesType, linkVars
<1>4. ASSUME NEW r \in Slaves, MainReturns(r) PROVE SlavesType'
      BY <1>0, <1>4 DEF MainReturns, SlavesType, linkVars
<1>5. ASSUME NEW r \in Slaves, NEW c \in Cleaners,
             \/ HandleTerm(r, c) \/ CancelListener(r, c)
             \/ RemoveScratch(r, c) \/ RemoveLinks(r, c)
      PROVE  SlavesType'
  <2>1. PICK l \in {"cancel", "scratch", "link", "exit"} :
          hpc' = [hpc EXCEPT ![r][c] = l]
        BY <1>5 DEF HandleTerm, CancelListener, RemoveScratch, RemoveLinks
  <2>2. hpc' \in [Slaves -> [Cleaners -> {"none", "cancel", "scratch", "link", "exit"}]]
        BY <1>0, <2>1 DEF SlavesType
  <2>3. slisten' \in [Slaves -> {"loop", "cleanup", "gone"}]
        BY <1>0, <1>5 DEF HandleTerm, CancelListener, RemoveScratch, RemoveLinks, SlavesType
  <2>4. left' \in [Slaves -> SUBSET {"scratch", "link"}]
    <3>1. PICK x \in {{}, {"scratch"}, {"link"}} :
            left' = left \/ left' = [left EXCEPT ![r] = @ \ x]
          BY <1>0, <1>5 DEF HandleTerm, CancelListener, RemoveScratch, RemoveLinks, SlavesType
    <3> QED BY <1>0, <3>1 DEF SlavesType
  <2>5. smutex' \subseteq Slaves
        BY <1>0, <1>5 DEF HandleTerm, CancelListener, RemoveScratch, RemoveLinks, SlavesType,
                          linkVars
  <2>6. racing' \subseteq Slaves \X Cleaners
        BY <1>0, <1>5 DEF HandleTerm, CancelListener, RemoveScratch, RemoveLinks, SlavesType
  <2>7. UNCHANGED <<smain, sexit, lpc, listed>>
        BY <1>5 DEF HandleTerm, CancelListener, RemoveScratch, RemoveLinks, linkVars
  <2> QED BY <1>0, <2>2, <2>3, <2>4, <2>5, <2>6, <2>7 DEF SlavesType
<1>6. ASSUME NEW r \in Slaves, NEW c \in Cleaners, SlaveExit(r, c) PROVE SlavesType'
  <2>1. PICK n \in 0 .. 255 : sexit' = [sexit EXCEPT ![r] = n]
    <3>1. CASE c = Own
          BY <1>6, <3>1 DEF SlaveExit, SlaveCode
    <3>2. CASE c # Own
      <4>1. c \in Nat
            BY <3>2, CodeFacts DEF Cleaners
      <4> QED BY <1>6, <3>2, <4>1, ByteFacts DEF SlaveExit, SlaveCode
    <3> QED BY <3>1, <3>2
  <2> QED BY <1>0, <1>6, <2>1 DEF SlaveExit, SlavesType, linkVars
<1>7. ASSUME NEW r \in Slaves, SlaveSignal(r) PROVE SlavesType'
  <2>1. PICK n \in {Crash} \cup 0 .. 255 :
          sexit' = sexit \/ sexit' = [sexit EXCEPT ![r] = n]
        BY <1>7 DEF SlaveSignal
  <2>2. hpc' \in [Slaves -> [Cleaners -> {"none", "cancel", "scratch", "link", "exit"}]]
    <3>1. Own \in Cleaners /\ hpc' = [hpc EXCEPT ![r][Own] = "scratch"]
          BY <1>7 DEF SlaveSignal, Cleaners
    <3> QED BY <1>0, <3>1 DEF SlavesType
  <2>3. sexit' \in [Slaves -> {Up, Crash} \cup 0 .. 255]
    <3>1. sexit \in [Slaves -> {Up, Crash} \cup 0 .. 255]
          BY <1>0 DEF SlavesType
    <3> QED BY <2>1, <3>1
  <2>4. slisten' \in [Slaves -> {"loop", "cleanup", "gone"}]
        BY <1>0, <1>7 DEF SlaveSignal, SlavesType
  <2>5. UNCHANGED <<smain, left, linkVars, racing>>
        BY <1>7 DEF SlaveSignal
  <2> QED BY <1>0, <2>2, <2>3, <2>4, <2>5 DEF SlavesType, linkVars
<1>8. ASSUME NEW r \in Slaves, NEW k \in Linkers, CreateLink(r, k) PROVE SlavesType'
  <2>1. PICK l \in {"idle", "make", "lock", "list"} : lpc' = [lpc EXCEPT ![r][k] = l]
        BY <1>8 DEF CreateLink, StartLink, MakeLink, LockList, ListLink
  <2>2. lpc' \in [Slaves -> [Linkers -> {"idle", "make", "lock", "list"}]]
        BY <1>0, <2>1 DEF SlavesType
  <2>3. left' \in [Slaves -> SUBSET {"scratch", "link"}]
    <3>1. left' = left \/ left' = [left EXCEPT ![r] = left[r] \cup {"link"}]
          BY <1>8 DEF CreateLink, StartLink, MakeLink, LockList, ListLink
    <3>2. left \in [Slaves -> SUBSET {"scratch", "link"}]
          BY <1>0 DEF SlavesType
    <3>3. left[r] \cup {"link"} \in SUBSET {"scratch", "link"}
          BY <3>2
    <3> QED BY <3>1, <3>2, <3>3
  <2>4. listed' \subseteq Slaves /\ smutex' \subseteq Slaves
        BY <1>0, <1>8 DEF CreateLink, StartLink, MakeLink, LockList, ListLink, SlavesType
  <2>5. UNCHANGED <<smain, slisten, hpc, sexit, racing>>
        BY <1>8 DEF CreateLink, StartLink, MakeLink, LockList, ListLink
  <2> QED BY <1>0, <2>2, <2>3, <2>4, <2>5 DEF SlavesType
<1>9. SlavesType'
      BY <1>3, <1>4, <1>5, <1>6, <1>7, <1>8 DEF SlaveNext, SlaveCleanup, Cleaners
<1>10. UNCHANGED <<cpc, code, sent, cj>>
      BY <1>1 DEF masterVars, cleanVars, sendVars
<1> QED BY <1>2, <1>9, <1>10 DEF InCleanup, Ending

\* Every step of master and slaves keeps the types.
LEMMA StepType == TypeInv /\ [Next]_vars => TypeInv'
<1> SUFFICES ASSUME TypeInv, [Next]_vars PROVE TypeInv'
    OBVIOUS
<1>1. CASE UNCHANGED vars
      BY <1>1 DEF vars, mainVars, cleanVars, sendVars, diskVars, signalVars, tableVars,
                  slaveVars, linkVars, TypeInv, LoopType, MainType, TableType, SlavesType,
                  InCleanup, Ending
<1> QED BY <1>1, CleanupType, MasterType, RowType, SlaveType DEF Next, MasterNext

\* Every variable keeps its type; cleanup's loop stays within the table.
THEOREM TypeCorrect == Spec => []TypeOK
<1> QED BY TypeParts, InitType, StepType, PTL DEF Spec

-----------------------------------------------------------------------------
(***************************************************************************)
(* The kinds of steps.                                                     *)
(***************************************************************************)

\* The codes cleanup may be called with now.
Given == {5, 10, 250} \cup {WaitStatus(o) : o \in Outcomes \cap {child}}

\* A thread of the master calls cleanup.
Begins(th, rc) ==
  /\ mexit = Up
  /\ Begin(th, rc)
  /\ UNCHANGED <<mainVars, diskVars, killed, mexit, tableVars, slaveVars>>

\* The keep_alive thread starts or ends a round.
Round ==
  /\ \/ cpc["keep_alive"] = "none" /\ cpc' = [cpc EXCEPT !["keep_alive"] = "round"]
     \/ cpc["keep_alive"] = "round" /\ cpc' = [cpc EXCEPT !["keep_alive"] = "none"]
  /\ UNCHANGED <<mainVars, code, ci, cj, settled, sendVars, diskVars, killed, mexit,
                 tableVars, slaveVars>>

\* A thread blocks in the handler of a signal.
Blocks(th) ==
  /\ cpc[th] # "stuck" /\ cpc' = [cpc EXCEPT ![th] = "stuck"]
  /\ UNCHANGED <<mainVars, code, ci, cj, settled, sendVars, diskVars, killed, mexit,
                 tableVars, slaveVars>>

\* No cleanup of the master moves.
Still == UNCHANGED <<cpc, code, ci, cj, settled, sendVars, reg, blank>>

\* A step begins a cleanup, is one of a cleanup, or moves none.  Only a signal
\* begins a cleanup anew.
LEMMA Steps ==
  ASSUME [Next]_vars
  PROVE  \/ \E th \in MThreads, rc \in Given :
              Begins(th, rc) /\ (InCleanup(th) => Signal(th))
         \/ \E th \in MThreads : Cleanup(th) \/ Blocks(th)
         \/ \E r \in Slaves : Alloc(r) \/ Fill(r)
         \/ Round \/ Still
<1> USE DEF mainVars, cleanVars, sendVars, diskVars, slaveVars, linkVars, tableVars, masterVars
<1>1. StartListener \/ WriteWrapper \/ UnlockKeepAlive => Still
      BY DEF StartListener, WriteWrapper, UnlockKeepAlive, Still
<1>2. WriteFile => Still \/ (Begins("main", 5) /\ ~ InCleanup("main"))
      BY DEF WriteFile, MainRuns, Still, Begins, InCleanup, Ending
<1>3. Fork => Still \/ (Begins("main", 10) /\ ~ InCleanup("main"))
      BY DEF Fork, MainRuns, Still, Begins, InCleanup, Ending
<1>4. WaitPid =>
        /\ Begins("main", WaitStatus(child)) /\ ~ InCleanup("main")
        /\ WaitStatus(child) \in Given
      BY DEF WaitPid, MainRuns, Begins, Given, InCleanup, Ending
<1>5. KeepAliveStarts \/ KeepAliveEnds => Round
      BY DEF KeepAliveStarts, KeepAliveEnds, Round
<1>6. KeepAliveAborts => Begins("keep_alive", 250) /\ ~ InCleanup("keep_alive")
      BY DEF KeepAliveAborts, Begins, InCleanup, Ending
<1>7. ListenerSeesFlag => Begins("listener", 250) /\ ~ InCleanup("listener")
      BY DEF ListenerSeesFlag, Begins, InCleanup, Ending
<1>8. ASSUME NEW o \in Outcomes, ChildChanges(o) PROVE Still
      BY <1>8 DEF ChildChanges, Still
<1>9. ASSUME NEW th \in MThreads, Signal(th) PROVE Still \/ Blocks(th) \/ Begins(th, 250)
  <2>1. CASE HandlerBlocks(th)
        BY <1>9, <2>1 DEF Signal, HandlerBlocks, Blocks
  <2>2. CASE HandlerExits
        BY <1>9, <2>2 DEF Signal, HandlerExits, Still
  <2>3. CASE HandlerJumps(th)
        BY <1>9, <2>3 DEF Signal, HandlerJumps, Still, Begins
  <2> QED BY <1>9, <2>1, <2>2, <2>3 DEF Signal
<1>10. ASSUME NEW r \in Slaves, CompareBlank(r) PROVE Still
      BY <1>10 DEF CompareBlank, Still
<1>11. SlaveNext => Still
      BY SlaveFrame DEF Still
<1>12. UNCHANGED vars => Still
      BY DEF vars, Still
<1>13. 5 \in Given /\ 10 \in Given /\ 250 \in Given
      BY DEF Given
<1> QED BY <1>1, <1>2, <1>3, <1>4, <1>5, <1>6, <1>7, <1>8, <1>9, <1>10, <1>11, <1>12, <1>13
        DEF Next, MasterNext, MThreads

\* The files in the order of their removal.
LEMMA AfterFacts ==
  /\ DOMAIN After = {"config", "wrapper", "machine"}
  /\ After["config"] = "wrapper" /\ After["wrapper"] = "machine"
  /\ After["machine"] = "rmdir"
  BY DEF After

\* A thread that has come to end the job does nothing else any more.
LEMMA EndingStays ==
  ASSUME TypeOK, [Next]_vars, NEW th \in MThreads, Ending(th)
  PROVE  Ending(th)'
<1>0. cpc \in [MThreads -> Labels]
      BY DEF TypeOK, Labels
<1>1. ASSUME NEW t \in MThreads, NEW rc \in Given, Begins(t, rc) PROVE Ending(th)'
      BY <1>0, <1>1 DEF Begins, Begin, Ending
<1>2. ASSUME NEW t \in MThreads, Cleanup(t) PROVE Ending(th)'
  <2>1. PICK l \in {"kill", "config", "wrapper", "machine", "rmdir", "exit"} :
          cpc' = cpc \/ cpc' = [cpc EXCEPT ![t] = l]
    <3>1. Term(t) => cpc' = cpc \/ cpc' = [cpc EXCEPT ![t] = "kill"]
          BY DEF Term, SendTerm, SkipRank, EndLoop
    <3>2. RemoveFile(t) => \E l \in {"wrapper", "machine", "rmdir"} : cpc' = [cpc EXCEPT ![t] = l]
          BY AfterFacts DEF RemoveFile, Goto
    <3>3. Kill(t) \/ Rmdir(t) => \E l \in {"config", "exit"} : cpc' = [cpc EXCEPT ![t] = l]
          BY DEF Kill, Rmdir, Goto
    <3>4. Exit(t) => cpc' = cpc
          BY DEF Exit, cleanVars
    <3> QED BY <1>2, <3>1, <3>2, <3>3, <3>4 DEF Cleanup
  <2> QED BY <1>0, <2>1 DEF Ending
<1>3. CASE Round
      BY <1>0, <1>3 DEF Round, Ending, MThreads
<1>4. CASE Still
      BY <1>4 DEF Still, Ending
<1>5. ASSUME NEW t \in MThreads, Blocks(t) PROVE Ending(th)'
      BY <1>0, <1>5 DEF Blocks, Ending
<1>6. ASSUME NEW r \in Slaves, Alloc(r) \/ Fill(r) PROVE Ending(th)'
      BY <1>6 DEF Alloc, Fill, Ending
<1> QED BY <1>1, <1>2, <1>3, <1>4, <1>5, <1>6, Steps

-----------------------------------------------------------------------------
(***************************************************************************)
(* The invariants.                                                         *)
(***************************************************************************)

\* Main has stopped writing files.
FilesDone == Ending("main") \/ mpc \notin {"machine", "config", "wrapper"}

\* Where a cleanup is in cleanup_scratch, if it began with all files written.
ScratchInv ==
  \A th \in settled :
    /\ Ending(th) /\ FilesDone
    /\ cpc[th] \in {"wrapper", "machine", "rmdir", "exit"} => "config" \notin files
    /\ cpc[th] \in {"machine", "rmdir", "exit"} => "wrapper" \notin files
    /\ cpc[th] \in {"rmdir", "exit"} => "machine" \notin files
    /\ cpc[th] = "exit" => ~ dir

\* The cleanup that has ended the master, if it was not the signal handler.
EndInv ==
  mexit \in 0 .. 255 =>
    \/ ~ jmpset
    \/ \E th \in MThreads : cpc[th] = "exit" /\ mexit = code[th] % 256

\* A loop owes TERMs to ranks it has not passed, whose entries are complete,
\* and has sent as many as it has tried to the rank it is at.
TermInv ==
  \A th \in MThreads :
    /\ due[th] \subseteq reg \ blank
    /\ cpc[th] = "term" /\ cj[th] # 0 => ci[th] \in reg
    /\ cpc[th] = "term" => \A r \in due[th] : r >= ci[th]
    /\ cpc[th] = "term" /\ ci[th] \in due[th] => sent[th] = cj[th]
    /\ InCleanup(th) /\ cpc[th] # "term" => due[th] = {}

\* There is no child before fork, and main calls cleanup with what became of it.
Exited == child \in Outcomes /\ child[1] = "exited"
ZeroInv ==
  /\ mpc # "wait" => child = None
  /\ \A th \in MThreads : InCleanup(th) /\ code[th] % 256 = 0 => Exited
  /\ mexit = 0 => Exited

\* A TERM comes from a master that ends the job, and without one no listener
\* is cancelled.
OrderInv ==
  \A r \in Slaves :
    /\ terms[r] # {} => \E th \in MThreads : Ending(th)
    /\ \A c \in Codes : hpc[r][c] # "none" => terms[r] # {}
    /\ hpc[r][Own] # "cancel"
    /\ slisten[r] = "gone" => terms[r] # {}
    /\ sexit[r] # Up => hpc[r][Own] # "none" \/ terms[r] # {}

\* What a cleanup of a slave has passed is gone: the link, too, if its walk met
\* no link in the making, since then none is made any more.
LeftInv ==
  \A r \in Slaves :
    /\ "link" \in left[r] => r \in listed \/ \E k \in Linkers : lpc[r][k] \in {"lock", "list"}
    /\ \A c \in Cleaners :
         /\ hpc[r][c] \in {"link", "exit"} => "scratch" \notin left[r]
         /\ hpc[r][c] = "exit" /\ <<r, c>> \notin racing => "link" \notin left[r] /\ ~ Linking(r)

-----------------------------------------------------------------------------
(***************************************************************************)
(* The scratch directory.                                                  *)
(***************************************************************************)

\* Files appear only while main writes them.
LEMMA FileSteps ==
  ASSUME [Next]_vars, FilesDone
  PROVE  /\ files' \subseteq files
         /\ dir' => dir
         /\ mpc' = mpc \/ mpc' \in {"fork", "wait"}
<1> USE DEF mainVars, cleanVars, diskVars, masterVars
<1>1. ~ WriteWrapper
      BY DEF FilesDone, WriteWrapper, MainRuns, Ending
<1>2. ~ WriteFile
      BY DEF FilesDone, WriteFile, MainRuns, Ending
<1>3. StartListener \/ UnlockKeepAlive \/ Fork \/ WaitPid =>
        UNCHANGED <<dir, files>> /\ (mpc' = mpc \/ mpc' \in {"fork", "wait"})
      BY DEF StartListener, UnlockKeepAlive, Fork, WaitPid
<1>4. KeepAliveStarts \/ KeepAliveEnds \/ KeepAliveAborts \/ ListenerSeesFlag =>
        UNCHANGED <<dir, files, mpc>>
      BY DEF KeepAliveStarts, KeepAliveEnds, KeepAliveAborts, ListenerSeesFlag
<1>5. ASSUME NEW o \in Outcomes, ChildChanges(o) PROVE UNCHANGED <<dir, files, mpc>>
      BY <1>5 DEF ChildChanges
<1>6. ASSUME NEW th \in MThreads, Signal(th) PROVE UNCHANGED <<dir, files, mpc>>
      BY <1>6 DEF Signal
<1>7. ASSUME NEW th \in MThreads, Cleanup(th)
      PROVE  files' \subseteq files /\ (dir' => dir) /\ mpc' = mpc
  <2>1. Term(th) \/ Kill(th) \/ Exit(th) => UNCHANGED <<dir, files, mpc>>
        BY DEF Term, Kill, Exit
  <2>2. RemoveFile(th) => files' \subseteq files /\ UNCHANGED <<dir, mpc>>
        BY DEF RemoveFile
  <2>3. Rmdir(th) => (dir' => dir) /\ UNCHANGED <<files, mpc>>
        BY Zenon DEF Rmdir
  <2> QED BY <1>7, <2>1, <2>2, <2>3 DEF Cleanup
<1>8. ASSUME NEW r \in Slaves, Alloc(r) \/ Fill(r) \/ CompareBlank(r)
      PROVE  UNCHANGED <<dir, files, mpc>>
      BY <1>8 DEF Alloc, Fill, CompareBlank
<1>9. SlaveNext => UNCHANGED <<dir, files, mpc>>
      BY SlaveFrame
<1>10. UNCHANGED vars => UNCHANGED <<dir, files, mpc>>
      BY DEF vars
<1> QED BY <1>1, <1>2, <1>3, <1>4, <1>5, <1>6, <1>7, <1>8, <1>9, <1>10
        DEF Next, MasterNext

\* What ScratchInv says of one thread.
Passed(th) ==
  /\ cpc[th] \in {"wrapper", "machine", "rmdir", "exit"} => "config" \notin files
  /\ cpc[th] \in {"machine", "rmdir", "exit"} => "wrapper" \notin files
  /\ cpc[th] \in {"rmdir", "exit"} => "machine" \notin files
  /\ cpc[th] = "exit" => ~ dir

\* A settled cleanup goes on removing: nothing it has removed comes back.
LEMMA ScratchNext ==
  ASSUME TypeOK, ScratchInv, [Next]_vars
  PROVE  ScratchInv'
<1>0. /\ cpc \in [MThreads -> Labels]
      /\ settled \subseteq MThreads /\ "main" \in MThreads /\ "keep_alive" \in MThreads
      /\ files \subseteq {"config", "wrapper", "machine"}
      BY AfterFacts DEF TypeOK, MThreads, Labels
<1>1. ASSUME FilesDone
      PROVE  FilesDone' /\ files' \subseteq files /\ (dir' => dir)
      BY <1>0, <1>1, FileSteps, EndingStays DEF FilesDone
<1>2. ASSUME NEW th \in settled, cpc'[th] = cpc[th]
      PROVE  Ending(th)' /\ FilesDone' /\ Passed(th)'
  <2>1. FilesDone /\ Ending(th) /\ Passed(th)
        BY DEF ScratchInv, Passed
  <2>2. FilesDone' /\ files' \subseteq files /\ (dir' => dir)
        BY <1>1, <2>1
  <2> QED BY <1>2, <2>1, <2>2 DEF Ending, Passed
<1>3. ASSUME NEW t \in MThreads, NEW rc \in Given, Begins(t, rc) PROVE ScratchInv'
  <2>1. cpc' = [cpc EXCEPT ![t] = "term"] /\ mpc' = mpc
        BY <1>3 DEF Begins, Begin, mainVars
  <2>2. settled' \subseteq settled \cup {t}
        BY <1>3 DEF Begins, Begin
  <2>3. ASSUME t \in settled' PROVE FilesDone'
    <3>1. NoMoreFiles(t)
          BY <1>3, <2>3 DEF Begins, Begin
    <3>2. CASE t = "main"
          BY <1>0, <2>1, <3>2 DEF FilesDone, Ending
    <3>3. CASE t # "main"
          BY <1>0, <2>1, <3>1, <3>3 DEF NoMoreFiles, FilesDone, InCleanup, Ending
    <3> QED BY <3>2, <3>3
  <2>4. ASSUME NEW th \in settled' PROVE Ending(th)' /\ FilesDone' /\ Passed(th)'
    <3>1. CASE th = t
          BY <1>0, <2>1, <2>3, <3>1 DEF Ending, Passed
    <3>2. CASE th # t
          BY <1>0, <1>2, <2>1, <2>2, <3>2
    <3> QED BY <3>1, <3>2
  <2> QED BY <2>4 DEF ScratchInv, Passed
<1>4. ASSUME NEW t \in MThreads, Cleanup(t) PROVE ScratchInv'
  <2>0. settled' = settled
        BY <1>4 DEF Cleanup, Term, Kill, RemoveFile, Rmdir, Exit, Goto, cleanVars
  <2>1. ASSUME NEW th \in settled PROVE Ending(th)' /\ FilesDone' /\ Passed(th)'
    <3>0. /\ Ending(th) /\ Passed(th) /\ Ending(th)' /\ FilesDone'
          /\ files' \subseteq files /\ (dir' => dir)
          BY <1>0, <1>1, EndingStays DEF ScratchInv, Passed
    <3>1. CASE Term(t) \/ Kill(t)
      <4>1. PICK l \in {"term", "kill", "config"} :
              cpc' = cpc \/ cpc' = [cpc EXCEPT ![t] = l]
            BY <3>1 DEF Term, SendTerm, SkipRank, EndLoop, Kill, Goto
      <4> QED BY <1>0, <1>2, <3>0, <4>1 DEF Passed
    <3>2. CASE RemoveFile(t)
      <4>0. /\ cpc[t] \in {"config", "wrapper", "machine"}
            /\ files' = files \ {cpc[t]} /\ cpc' = [cpc EXCEPT ![t] = After[cpc[t]]]
            BY <3>2, AfterFacts DEF RemoveFile, Goto
      <4>1. CASE th # t
            BY <1>0, <1>2, <4>0, <4>1
      <4>2. CASE th = t /\ cpc[t] = "config"
            BY <1>0, <3>0, <4>0, <4>2, AfterFacts DEF Passed
      <4>3. CASE th = t /\ cpc[t] = "wrapper"
            BY <1>0, <3>0, <4>0, <4>3, AfterFacts DEF Passed
      <4>4. CASE th = t /\ cpc[t] = "machine"
            BY <1>0, <3>0, <4>0, <4>4, AfterFacts DEF Passed
      <4> QED BY <4>0, <4>1, <4>2, <4>3, <4>4
    <3>3. CASE Rmdir(t)
      <4>0. /\ cpc[t] = "rmdir" /\ files' = files /\ cpc' = [cpc EXCEPT ![t] = "exit"]
            BY <3>3 DEF Rmdir, Goto
      <4>1. CASE th # t
            BY <1>0, <1>2, <4>0, <4>1
      <4>2. CASE th = t
        <5>1. files = {}
              BY <1>0, <3>0, <4>0, <4>2 DEF Passed
        <5>2. ~ dir'
              BY <3>3, <5>1, Zenon DEF Rmdir
        <5> QED BY <3>0, <4>0, <5>1, <5>2 DEF Passed
      <4> QED BY <4>1, <4>2
    <3>4. CASE Exit(t)
          BY <1>2, <3>4 DEF Exit, cleanVars
    <3> QED BY <1>4, <3>1, <3>2, <3>3, <3>4 DEF Cleanup
  <2> QED BY <2>0, <2>1 DEF ScratchInv, Passed
<1>5. CASE Round
  <2>1. settled' = settled /\ \A th \in settled : cpc'[th] = cpc[th]
        BY <1>0, <1>5 DEF Round, ScratchInv, Ending
  <2> QED BY <1>2, <2>1 DEF ScratchInv, Passed
<1>6. CASE Still
  <2>1. settled' = settled /\ \A th \in settled : cpc'[th] = cpc[th]
        BY <1>6 DEF Still
  <2> QED BY <1>2, <2>1 DEF ScratchInv, Passed
<1>7. ASSUME NEW t \in MThreads, Blocks(t) PROVE ScratchInv'
  <2>0. settled' = settled /\ cpc' = [cpc EXCEPT ![t] = "stuck"]
        BY <1>7 DEF Blocks
  <2>1. ASSUME NEW th \in settled PROVE Ending(th)' /\ FilesDone' /\ Passed(th)'
    <3>1. CASE th # t
          BY <1>0, <1>2, <2>0, <3>1
    <3>2. CASE th = t
      <4>1. Ending(th)' /\ FilesDone' /\ cpc'[th] = "stuck"
            BY <1>0, <1>1, <2>0, <3>2, EndingStays DEF ScratchInv
      <4> QED BY <4>1 DEF Passed
    <3> QED BY <3>1, <3>2
  <2> QED BY <2>0, <2>1 DEF ScratchInv, Passed
<1>8. ASSUME NEW r \in Slaves, Alloc(r) \/ Fill(r) PROVE ScratchInv'
  <2>1. settled' = settled /\ \A th \in settled : cpc'[th] = cpc[th]
        BY <1>8 DEF Alloc, Fill
  <2> QED BY <1>2, <2>1 DEF ScratchInv, Passed
<1> QED BY <1>3, <1>4, <1>5, <1>6, <1>7, <1>8, Steps

-----------------------------------------------------------------------------
(***************************************************************************)
(* The end of the master.                                                  *)
(***************************************************************************)

\* What ends the master: a cleanup, a signal before the jump buffer, a fault.
LEMMA ExitSteps ==
  ASSUME [Next]_vars
  PROVE  \/ mexit' = mexit
         \/ \E th \in MThreads : Exit(th)
         \/ mexit = Up /\ mexit' = 15 /\ ~ jmpset'
         \/ mexit = Up /\ mexit' = Crash
<1> USE DEF masterVars
<1>1. StartListener \/ WriteFile \/ UnlockKeepAlive \/ Fork \/ WaitPid => mexit' = mexit
      BY DEF StartListener, WriteFile, UnlockKeepAlive, Fork, WaitPid
<1>2. WriteWrapper => mexit' = mexit \/ (mexit = Up /\ mexit' = Crash)
      BY DEF WriteWrapper, MainRuns
<1>3. KeepAliveStarts \/ KeepAliveEnds \/ KeepAliveAborts \/ ListenerSeesFlag => mexit' = mexit
      BY DEF KeepAliveStarts, KeepAliveEnds, KeepAliveAborts, ListenerSeesFlag
<1>4. ASSUME NEW o \in Outcomes, ChildChanges(o) PROVE mexit' = mexit
      BY <1>4 DEF ChildChanges
<1>5. ASSUME NEW th \in MThreads, Signal(th)
      PROVE  \/ mexit' = mexit
             \/ mexit = Up /\ mexit' = 15 /\ ~ jmpset'
             \/ mexit = Up /\ mexit' = Crash
      BY <1>5 DEF Signal, HandlerBlocks, HandlerExits, HandlerJumps, mainVars
<1>6. ASSUME NEW th \in MThreads, Cleanup(th) PROVE mexit' = mexit \/ Exit(th)
      BY <1>6 DEF Cleanup, Term, Kill, RemoveFile, Rmdir
<1>7. ASSUME NEW r \in Slaves, Alloc(r) \/ Fill(r) \/ CompareBlank(r)
      PROVE  mexit' = mexit \/ (mexit = Up /\ mexit' = Crash)
      BY <1>7 DEF Alloc, Fill, CompareBlank
<1>8. SlaveNext => mexit' = mexit
      BY SlaveFrame
<1>9. UNCHANGED vars => mexit' = mexit
      BY DEF vars
<1> QED BY <1>1, <1>2, <1>3, <1>4, <1>5, <1>6, <1>7, <1>8, <1>9 DEF Next, MasterNext

\* No thread of a master that has ended moves.
LEMMA EndedStays ==
  ASSUME [Next]_vars, mexit # Up
  PROVE  UNCHANGED <<cpc, code, jmpset>>
<1> USE DEF mainVars, cleanVars, masterVars
<1>1. ~ (StartListener \/ WriteFile \/ WriteWrapper \/ UnlockKeepAlive \/ Fork \/ WaitPid)
      BY DEF StartListener, WriteFile, WriteWrapper, UnlockKeepAlive, Fork, WaitPid, MainRuns
<1>2. ~ (KeepAliveStarts \/ KeepAliveEnds \/ KeepAliveAborts \/ ListenerSeesFlag)
      BY DEF KeepAliveStarts, KeepAliveEnds, KeepAliveAborts, ListenerSeesFlag
<1>3. \A th \in MThreads : ~ Signal(th) /\ ~ Cleanup(th)
      BY DEF Signal, Cleanup, Term, Kill, RemoveFile, Rmdir, Exit
<1>4. ASSUME NEW o \in Outcomes, ChildChanges(o) PROVE UNCHANGED <<cpc, code, jmpset>>
      BY <1>4 DEF ChildChanges
<1>5. \A r \in Slaves : ~ Alloc(r) /\ ~ Fill(r) /\ ~ CompareBlank(r)
      BY DEF Alloc, Fill, CompareBlank
<1>6. SlaveNext => UNCHANGED <<cpc, code, jmpset>>
      BY SlaveFrame
<1>7. UNCHANGED vars => UNCHANGED <<cpc, code, jmpset>>
      BY DEF vars
<1> QED BY <1>1, <1>2, <1>3, <1>4, <1>5, <1>6, <1>7 DEF Next, MasterNext

\* The exit code stays that of the cleanup that exited.
LEMMA EndNext ==
  ASSUME EndInv, [Next]_vars
  PROVE  EndInv'
<1> SUFFICES ASSUME mexit' \in 0 .. 255
             PROVE  \/ ~ jmpset'
                    \/ \E th \in MThreads : cpc'[th] = "exit" /\ mexit' = code'[th] % 256
    BY DEF EndInv
<1>1. CASE mexit' = mexit
  <2>1. mexit # Up
        BY <1>1 DEF Up
  <2> QED BY <1>1, <2>1, EndedStays DEF EndInv
<1>2. ASSUME NEW th \in MThreads, Exit(th)
      PROVE  cpc'[th] = "exit" /\ mexit' = code'[th] % 256
      BY <1>2 DEF Exit, cleanVars
<1>3. mexit' # Crash
      BY DEF Crash
<1> QED BY <1>1, <1>2, <1>3, ExitSteps

-----------------------------------------------------------------------------
(***************************************************************************)
(* What the exit code says of the child.                                   *)
(***************************************************************************)

\* The low byte of what cleanup is given is 0 only for a child that exited.
LEMMA ZeroCodes ==
  ASSUME NEW rc \in Given, rc % 256 = 0
  PROVE  Exited
<1>1. rc \notin {5, 10, 250}
      OBVIOUS
<1>2. child \in Outcomes /\ rc = WaitStatus(child)
      BY <1>1 DEF Given
<1>3. child \in {"exited", "signaled", "stopped"} \X (0 .. 255)
      BY <1>2, ShutdownAssumption
<1>4. PICK n \in 0 .. 255 : child[2] = n
      BY <1>3
<1>5. CASE child[1] = "signaled"
  <2>1. rc = n /\ n # 0
        BY <1>2, <1>4, <1>5, ShutdownAssumption DEF WaitStatus
  <2> QED BY <2>1
<1>6. CASE child[1] = "stopped"
  <2>1. rc = n * 256 + 127
        BY <1>2, <1>4, <1>6 DEF WaitStatus
  <2> QED BY <2>1
<1>7. child[1] \in {"exited", "signaled", "stopped"}
      BY <1>3
<1> QED BY <1>2, <1>5, <1>6, <1>7 DEF Exited

\* The child is created once and changes once.
LEMMA ChildSteps ==
  ASSUME TypeOK, ZeroInv, [Next]_vars
  PROVE  /\ Exited => Exited'
         /\ mpc' # "wait" => child' = None
<1> USE DEF mainVars, masterVars
<1>0. None \notin Outcomes /\ Alive \notin Outcomes
      BY ShutdownAssumption DEF None, Alive
<1>1. CASE UNCHANGED <<mpc, child>>
      BY <1>1 DEF ZeroInv, Exited
<1>2. CASE WriteFile \/ WriteWrapper \/ UnlockKeepAlive
  <2>1. child' = child /\ mpc # "wait"
        BY <1>2 DEF WriteFile, WriteWrapper, UnlockKeepAlive
  <2> QED BY <2>1 DEF ZeroInv, Exited
<1>3. CASE Fork
      BY <1>0, <1>3 DEF Fork, ZeroInv, Exited
<1>4. ASSUME NEW o \in Outcomes, ChildChanges(o)
      PROVE  (Exited => Exited') /\ (mpc' # "wait" => child' = None)
  <2>1. child = Alive /\ mpc' = mpc
        BY <1>4 DEF ChildChanges
  <2>2. Alive # None
        BY DEF Alive, None
  <2> QED BY <1>0, <2>1, <2>2 DEF ZeroInv, Exited
<1>5. StartListener \/ WaitPid \/ KeepAliveStarts \/ KeepAliveEnds \/ KeepAliveAborts
        \/ ListenerSeesFlag => UNCHANGED <<mpc, child>>
      BY DEF StartListener, WaitPid, KeepAliveStarts, KeepAliveEnds, KeepAliveAborts,
             ListenerSeesFlag
<1>6. ASSUME NEW th \in MThreads, Signal(th) \/ Cleanup(th) PROVE UNCHANGED <<mpc, child>>
      BY <1>6 DEF Signal, Cleanup, Term, Kill, RemoveFile, Rmdir, Exit
<1>7. ASSUME NEW r \in Slaves, Alloc(r) \/ Fill(r) \/ CompareBlank(r)
      PROVE  UNCHANGED <<mpc, child>>
      BY <1>7 DEF Alloc, Fill, CompareBlank
<1>8. SlaveNext => UNCHANGED <<mpc, child>>
      BY SlaveFrame
<1>9. UNCHANGED vars => UNCHANGED <<mpc, child>>
      BY DEF vars
<1> QED BY <1>1, <1>2, <1>3, <1>4, <1>5, <1>6, <1>7, <1>8, <1>9 DEF Next, MasterNext

\* Whichever cleanup ends the master, a 0 comes from the child.
LEMMA ZeroNext ==
  ASSUME TypeOK, ZeroInv, [Next]_vars
  PROVE  ZeroInv'
<1>0. /\ cpc \in [MThreads -> Labels]
      /\ code \in [MThreads -> Codes \cup {0}] /\ "keep_alive" \in MThreads
      BY DEF TypeOK, MThreads, Labels
<1>1. (Exited => Exited') /\ (mpc' # "wait" => child' = None)
      BY ChildSteps
<1>2. ASSUME NEW th \in MThreads, InCleanup(th)', code'[th] % 256 = 0 PROVE Exited
  <2>1. ASSUME NEW t \in MThreads, NEW rc \in Given, Begins(t, rc) PROVE Exited
    <3>1. CASE th = t
      <4>1. code'[th] = rc
            BY <1>0, <2>1, <3>1 DEF Begins, Begin
      <4> QED BY <1>2, <4>1, ZeroCodes
    <3>2. CASE th # t
      <4>1. code'[th] = code[th] /\ cpc'[th] = cpc[th]
            BY <1>0, <2>1, <3>2 DEF Begins, Begin
      <4> QED BY <1>2, <4>1 DEF ZeroInv, InCleanup, Ending
    <3> QED BY <3>1, <3>2
  <2>2. ASSUME NEW t \in MThreads, Cleanup(t) PROVE Exited
    <3>1. code' = code
          BY <2>2 DEF Cleanup, Term, Kill, RemoveFile, Rmdir, Exit, Goto, cleanVars
    <3>2. \A x \in MThreads : x # t => cpc'[x] = cpc[x]
          BY <1>0, <2>2 DEF Cleanup, Term, SendTerm, SkipRank, EndLoop, Kill, RemoveFile, Rmdir,
                            Exit, Goto, cleanVars
    <3>3. InCleanup(t)
          BY <2>2, AfterFacts DEF Cleanup, Term, Kill, RemoveFile, Rmdir, Exit, InCleanup, Ending
    <3> QED BY <1>2, <3>1, <3>2, <3>3 DEF ZeroInv, InCleanup, Ending
  <2>3. CASE Round
    <3>1. code' = code /\ InCleanup(th)
          BY <1>0, <1>2, <2>3 DEF Round, InCleanup, Ending
    <3> QED BY <1>2, <3>1 DEF ZeroInv
  <2>4. CASE Still
    <3>1. code' = code /\ InCleanup(th)
          BY <1>2, <2>4 DEF Still, InCleanup, Ending
    <3> QED BY <1>2, <3>1 DEF ZeroInv
  <2>5. ASSUME NEW t \in MThreads, Blocks(t) PROVE Exited
    <3>1. code' = code /\ InCleanup(th)
          BY <1>0, <1>2, <2>5 DEF Blocks, InCleanup, Ending
    <3> QED BY <1>2, <3>1 DEF ZeroInv
  <2>6. ASSUME NEW r \in Slaves, Alloc(r) \/ Fill(r) PROVE Exited
    <3>1. code' = code /\ InCleanup(th)
          BY <1>2, <2>6 DEF Alloc, Fill, InCleanup, Ending
    <3> QED BY <1>2, <3>1 DEF ZeroInv
  <2> QED BY <2>1, <2>2, <2>3, <2>4, <2>5, <2>6, Steps
<1>3. ASSUME mexit' = 0 PROVE Exited
  <2>1. ASSUME NEW th \in MThreads, Exit(th) PROVE Exited
        BY <1>3, <2>1 DEF Exit, ZeroInv, InCleanup, Ending
  <2>2. mexit' # 15 /\ mexit' # Crash
        BY <1>3 DEF Crash
  <2> QED BY <1>3, <2>1, <2>2, ExitSteps DEF ZeroInv
<1> QED BY <1>1, <1>2, <1>3 DEF ZeroInv


-----------------------------------------------------------------------------
(***************************************************************************)
(* The TERMs.                                                              *)
(***************************************************************************)

\* What TermInv says of one thread.
Owes(th) ==
  /\ due[th] \subseteq reg \ blank
  /\ cpc[th] = "term" /\ cj[th] # 0 => ci[th] \in reg
  /\ cpc[th] = "term" => \A r \in due[th] : r >= ci[th]
  /\ cpc[th] = "term" /\ ci[th] \in due[th] => sent[th] = cj[th]
  /\ InCleanup(th) /\ cpc[th] # "term" => due[th] = {}

\* A loop that is at a rank it owes its TERMs sends one each time it tries to.
LEMMA SendNext ==
  ASSUME TypeInv, TermInv, NEW th \in MThreads, Term(th), SendTerm(th)
  PROVE  Owes(th)'
<1> USE ShutdownAssumption
<1>0. LoopType /\ TableType /\ UNCHANGED <<cpc, reg, blank>> /\ cpc[th] = "term"
      BY DEF TypeInv, Term, SendTerm, tableVars
<1>1. PICK r \in 1 .. NumProcs : r = ci[th]
      BY <1>0 DEF LoopType
<1>2. PICK n \in 0 .. TermRetries - 1 : n = cj[th]
      BY <1>0 DEF LoopType
<1>3. Owes(th) /\ due[th] \subseteq Slaves /\ r \in reg
      BY <1>0, <1>1 DEF TermInv, Owes, LoopType, SendTerm
<1>5. CASE n + 1 < TermRetries
  <2>1. /\ cj' = [cj EXCEPT ![th] = n + 1] /\ UNCHANGED <<ci, due>>
        /\ sent' = [sent EXCEPT ![th] = IF r \in blank THEN @ ELSE @ + 1]
        BY <1>1, <1>2, <1>5 DEF SendTerm, LoopType
  <2>2. ASSUME r \in due[th] PROVE sent'[th] = cj'[th]
    <3>1. sent[th] = n /\ r \notin blank
          BY <1>0, <1>1, <1>2, <1>3, <2>2 DEF Owes
    <3> QED BY <1>0, <2>1, <3>1 DEF LoopType
  <2> QED BY <1>0, <1>1, <1>3, <2>1, <2>2 DEF Owes, InCleanup, Ending
<1>6. CASE ~ (n + 1 < TermRetries)
  <2>1. /\ cj' = [cj EXCEPT ![th] = 0] /\ sent' = [sent EXCEPT ![th] = 0]
        /\ ci' = [ci EXCEPT ![th] = r + 1]
        BY <1>1, <1>2, <1>6 DEF SendTerm
  <2>2. due'[th] \subseteq due[th] \ {r}
    <3>1. CASE r \in due[th]
      <4>1. sent[th] = n /\ r \notin blank /\ n + 1 = TermRetries
            BY <1>0, <1>1, <1>2, <1>3, <1>6, <3>1 DEF Owes
      <4>2. due' = [due EXCEPT ![th] = @ \ {r}]
            BY <1>1, <1>2, <1>6, <4>1 DEF SendTerm
      <4> QED BY <1>0, <4>2 DEF LoopType
    <3>2. CASE r \notin due[th]
      <4>1. due' = [due EXCEPT ![th] = @ \ {r}] \/ due' = [due EXCEPT ![th] = @]
            BY <1>1, <1>2, <1>6 DEF SendTerm
      <4> QED BY <1>0, <3>2, <4>1 DEF LoopType
    <3> QED BY <3>1, <3>2
  <2>3. ci'[th] = r + 1 /\ cj'[th] = 0 /\ sent'[th] = 0
        BY <1>0, <2>1 DEF LoopType
  <2>4. ASSUME NEW x \in due[th] \ {r} PROVE x >= r + 1
    <3>1. x >= r
          BY <1>0, <1>1, <1>3 DEF Owes
    <3>2. x \in Slaves
          BY <1>3, <2>4
    <3> QED BY <2>4, <3>1, <3>2 DEF Slaves
  <2> QED BY <1>0, <1>3, <2>2, <2>3, <2>4 DEF Owes, InCleanup, Ending
<1> QED BY <1>5, <1>6

\* The other steps of a cleanup: past the last rank nothing is owed.
LEMMA CleanupOwes ==
  ASSUME TypeInv, TermInv, NEW th \in MThreads, Cleanup(th), ~ SendTerm(th)
  PROVE  Owes(th)'
<1> USE ShutdownAssumption
<1>0. LoopType /\ TableType /\ Owes(th) /\ sent[th] <= cj[th]
      BY DEF TypeInv, TermInv, Owes
<1>1. UNCHANGED <<reg, blank>>
      BY DEF Cleanup, Term, Kill, RemoveFile, Rmdir, Exit, tableVars
<1>2. PICK r \in 1 .. NumProcs : r = ci[th]
      BY <1>0 DEF LoopType
<1>3. due[th] \subseteq Slaves
      BY <1>0 DEF LoopType
<1>4. CASE Term(th) /\ SkipRank(th)
  <2>1. /\ cpc[th] = "term" /\ r \notin reg
        /\ ci' = [ci EXCEPT ![th] = r + 1] /\ UNCHANGED <<due, sent, cj, cpc>>
        BY <1>2, <1>4 DEF Term, SkipRank, sendVars
  <2>2. cj[th] = 0 /\ sent[th] = 0
        BY <1>0, <1>2, <2>1 DEF Owes, LoopType
  <2>3. ci'[th] = r + 1
        BY <1>0, <2>1 DEF LoopType
  <2>4. \A x \in due[th] : x >= r + 1
        BY <1>0, <1>2, <1>3, <2>1 DEF Owes, Slaves
  <2> QED BY <1>0, <1>1, <2>1, <2>2, <2>3, <2>4 DEF Owes, InCleanup, Ending
<1>5. CASE Term(th) /\ EndLoop(th)
  <2>1. /\ cpc[th] = "term" /\ ~ (r < NumProcs)
        /\ cpc' = [cpc EXCEPT ![th] = "kill"] /\ due' = due
        BY <1>2, <1>5 DEF Term, EndLoop, MoreRanks, sendVars
  <2>2. due[th] = {}
        BY <1>0, <1>2, <1>3, <2>1 DEF Owes, Slaves
  <2>3. cpc'[th] = "kill"
        BY <1>0, <2>1 DEF LoopType
  <2> QED BY <2>1, <2>2, <2>3 DEF Owes
<1>6. CASE Kill(th) \/ RemoveFile(th) \/ Rmdir(th) \/ Exit(th)
  <2>1. PICK l \in {"config", "wrapper", "machine", "rmdir", "exit"} :
          cpc' = [cpc EXCEPT ![th] = l] \/ (cpc' = cpc /\ cpc[th] = l)
        BY <1>6, AfterFacts DEF Kill, RemoveFile, Rmdir, Exit, Goto, cleanVars
  <2>2. InCleanup(th) /\ cpc[th] # "term"
        BY <1>6, AfterFacts DEF Kill, RemoveFile, Rmdir, Exit, InCleanup, Ending
  <2>3. due' = due /\ cpc'[th] # "term"
        BY <1>0, <1>6, <2>1 DEF Kill, RemoveFile, Rmdir, Exit, Goto, cleanVars, sendVars, LoopType
  <2> QED BY <1>0, <2>2, <2>3 DEF Owes
<1> QED BY <1>4, <1>5, <1>6 DEF Cleanup, Term

\* What a thread owes does not depend on what the others do.
LEMMA TermNext ==
  ASSUME TypeInv, TermInv, [Next]_vars
  PROVE  TermInv'
<1>0. LoopType /\ TableType
      BY DEF TypeInv
<1>1. ASSUME NEW t \in MThreads, UNCHANGED <<cpc[t], ci[t], cj[t], sent[t], due[t], reg, blank>>
      PROVE  Owes(t)'
      BY <1>1 DEF TermInv, Owes, InCleanup, Ending
<1>2. ASSUME NEW th \in MThreads, NEW rc \in Given, Begins(th, rc), NEW t \in MThreads
      PROVE  Owes(t)'
  <2>1. UNCHANGED <<reg, blank>>
        BY <1>2 DEF Begins, tableVars
  <2>2. CASE t = th
    <3>1. /\ cpc'[t] = "term" /\ ci'[t] = 1 /\ cj'[t] = 0 /\ sent'[t] = 0
          /\ due'[t] = reg \ blank
          BY <1>0, <1>2, <2>2 DEF Begins, Begin, LoopType
    <3>2. \A r \in reg \ blank : r >= 1
          BY <1>0, ShutdownAssumption DEF TableType, Slaves
    <3> QED BY <2>1, <3>1, <3>2 DEF Owes
  <2>3. CASE t # th
        BY <1>0, <1>1, <1>2, <2>1, <2>3 DEF Begins, Begin, LoopType
  <2> QED BY <2>2, <2>3
<1>3. ASSUME NEW th \in MThreads, Cleanup(th), NEW t \in MThreads PROVE Owes(t)'
  <2>1. CASE t = th
    <3>1. SendTerm(t) => Term(t)
      <4>1. ASSUME SendTerm(t), ~ Term(t) PROVE FALSE
        <5>1. CASE Kill(t) \/ Rmdir(t)
              BY <1>0, <4>1, <5>1 DEF Kill, Rmdir, Goto, SendTerm, LoopType
        <5>2. CASE RemoveFile(t)
              BY <1>0, <4>1, <5>2, AfterFacts DEF RemoveFile, Goto, SendTerm, LoopType
        <5>3. CASE Exit(t)
          <6>1. cj' = cj /\ ci' = ci
                BY <5>3 DEF Exit, cleanVars
          <6> QED BY <1>0, <4>1, <6>1 DEF SendTerm, LoopType
        <5> QED BY <1>3, <2>1, <4>1, <5>1, <5>2, <5>3 DEF Cleanup
      <4> QED BY <4>1
    <3> QED BY <1>3, <2>1, <3>1, SendNext, CleanupOwes
  <2>2. CASE t # th
    <3>1. UNCHANGED <<cpc[t], ci[t], cj[t], sent[t], due[t], reg, blank>>
          BY <1>0, <1>3, <2>2
             DEF Cleanup, Term, SendTerm, SkipRank, EndLoop, Kill, RemoveFile, Rmdir, Exit,
                 Goto, cleanVars, sendVars, tableVars, LoopType
    <3> QED BY <1>1, <3>1
  <2> QED BY <2>1, <2>2
<1>4. ASSUME NEW th \in MThreads, Blocks(th), NEW t \in MThreads PROVE Owes(t)'
  <2>1. /\ cpc' = [cpc EXCEPT ![th] = "stuck"]
        /\ UNCHANGED <<ci, cj, sent, due, reg, blank>>
        BY <1>4 DEF Blocks, sendVars, tableVars
  <2>2. CASE t = th
    <3>1. cpc'[t] = "stuck"
          BY <1>0, <2>1, <2>2 DEF LoopType
    <3> QED BY <2>1, <3>1 DEF TermInv, Owes, InCleanup, Ending
  <2>3. CASE t # th
        BY <1>0, <1>1, <2>1, <2>3 DEF LoopType
  <2> QED BY <2>2, <2>3
<1>5. ASSUME Round, NEW t \in MThreads PROVE Owes(t)'
  <2>1. UNCHANGED <<ci, cj, sent, due, reg, blank>>
        BY <1>5 DEF Round, sendVars, tableVars
  <2>2. CASE cpc'[t] = cpc[t]
        BY <1>1, <2>1, <2>2
  <2>3. CASE cpc'[t] # cpc[t]
    <3>1. cpc'[t] \in {"none", "round"}
          BY <1>0, <1>5, <2>3 DEF Round, LoopType
    <3> QED BY <2>1, <3>1 DEF TermInv, Owes, InCleanup, Ending
  <2> QED BY <2>2, <2>3
<1>6. ASSUME NEW r \in Slaves, Alloc(r), NEW t \in MThreads PROVE Owes(t)'
  <2>1. /\ reg' = reg \cup {r} /\ blank' = blank \cup {r} /\ due'[t] = due[t] \ {r}
        /\ UNCHANGED <<cpc, ci, cj, sent>>
        BY <1>6 DEF Alloc
  <2>2. Owes(t)
        BY DEF TermInv, Owes
  <2> QED BY <2>1, <2>2 DEF Owes, InCleanup, Ending
<1>7. ASSUME NEW r \in Slaves, Fill(r), NEW t \in MThreads PROVE Owes(t)'
  <2>1. /\ reg' = reg /\ blank' = blank \ {r} /\ r \in reg
        /\ due'[t] = IF Ahead(t, r) THEN due[t] \cup {r} ELSE due[t]
        /\ UNCHANGED <<cpc, ci, cj, sent>>
        BY <1>0, <1>7 DEF Fill, TableType
  <2>2. Owes(t)
        BY DEF TermInv, Owes
  <2>3. PICK i \in 1 .. NumProcs : i = ci[t]
        BY <1>0 DEF LoopType
  <2>4. r \in 1 .. NumProcs - 1
        BY DEF Slaves
  <2>5. CASE Ahead(t, r)
    <3>1. cpc[t] = "term" /\ i < r /\ r # i
          BY <2>3, <2>4, <2>5, ShutdownAssumption DEF Ahead
    <3>2. r >= i
          BY <2>3, <2>4, <3>1, ShutdownAssumption
    <3> QED BY <2>1, <2>2, <2>3, <2>5, <3>1, <3>2 DEF Owes
  <2>6. CASE ~ Ahead(t, r)
        BY <2>1, <2>2, <2>6 DEF Owes, InCleanup, Ending
  <2> QED BY <2>5, <2>6
<1>8. ASSUME Still, NEW t \in MThreads PROVE Owes(t)'
      BY <1>1, <1>8 DEF Still, sendVars
<1> QED BY <1>2, <1>3, <1>4, <1>5, <1>6, <1>7, <1>8, Steps DEF TermInv, Owes

-----------------------------------------------------------------------------
(***************************************************************************)
(* The slaves.                                                             *)
(***************************************************************************)

\* Nothing happens in slave r.
Same(r) ==
  /\ UNCHANGED <<hpc[r], slisten[r], sexit[r], left[r], smain[r], lpc[r]>>
  /\ r \in listed' <=> r \in listed
  /\ \A c \in Cleaners : <<r, c>> \in racing' <=> <<r, c>> \in racing

\* What may happen in slave r.
LEMMA SlaveSteps ==
  ASSUME TypeOK, [Next]_vars, NEW r \in Slaves
  PROVE  \/ Same(r)
         \/ Join(r) \/ MainReturns(r) \/ SlaveSignal(r)
         \/ \E c \in Codes : HandleTerm(r, c)
         \/ \E c \in Cleaners : SlaveCleanup(r, c)
         \/ \E k \in Linkers : CreateLink(r, k)
<1>0. /\ hpc \in [Slaves -> [Cleaners -> {"none", "cancel", "scratch", "link", "exit"}]]
      /\ sexit \in [Slaves -> {Up, Crash} \cup 0 .. 255]
      /\ left \in [Slaves -> SUBSET {"scratch", "link"}]
      /\ smain \in [Slaves -> {"register", "join"}]
      /\ slisten \in [Slaves -> {"loop", "cleanup", "gone"}]
      /\ lpc \in [Slaves -> [Linkers -> {"idle", "make", "lock", "list"}]]
      BY DEF TypeOK
<1>1. StartListener \/ WriteFile \/ WriteWrapper \/ UnlockKeepAlive \/ Fork \/ WaitPid =>
        UNCHANGED slaveVars
      BY DEF StartListener, WriteFile, WriteWrapper, UnlockKeepAlive, Fork, WaitPid
<1>2. KeepAliveStarts \/ KeepAliveEnds \/ KeepAliveAborts \/ ListenerSeesFlag =>
        UNCHANGED slaveVars
      BY DEF KeepAliveStarts, KeepAliveEnds, KeepAliveAborts, ListenerSeesFlag
<1>3. ASSUME NEW o \in Outcomes, ChildChanges(o) PROVE UNCHANGED slaveVars
      BY <1>3 DEF ChildChanges
<1>4. ASSUME NEW th \in MThreads, Signal(th) \/ Cleanup(th) PROVE UNCHANGED slaveVars
      BY <1>4 DEF Signal, Cleanup, Term, Kill, RemoveFile, Rmdir, Exit
<1>5. ASSUME NEW x \in Slaves, Alloc(x) \/ Fill(x) \/ CompareBlank(x)
      PROVE  UNCHANGED slaveVars
      BY <1>5 DEF Alloc, Fill, CompareBlank
<1>6. UNCHANGED vars => UNCHANGED slaveVars
      BY DEF vars
<1>7. UNCHANGED slaveVars => Same(r)
      BY DEF slaveVars, linkVars, Same
<1>8. ASSUME NEW x \in Slaves, x # r, Join(x) \/ MainReturns(x) \/ SlaveSignal(x)
      PROVE  Same(r)
      BY <1>0, <1>8 DEF Join, MainReturns, SlaveSignal, linkVars, Same
<1>9. ASSUME NEW x \in Slaves, x # r, NEW c \in Codes, HandleTerm(x, c) PROVE Same(r)
      BY <1>0, <1>9 DEF HandleTerm, linkVars, Same
<1>10. ASSUME NEW x \in Slaves, x # r, NEW c \in Cleaners, SlaveCleanup(x, c) PROVE Same(r)
  <2>1. CancelListener(x, c) \/ SlaveExit(x, c) => Same(r)
        BY <1>0, <1>10 DEF CancelListener, SlaveExit, linkVars, Same
  <2>2. RemoveScratch(x, c) => Same(r)
        BY <1>0, <1>10 DEF RemoveScratch, Same
  <2>3. RemoveLinks(x, c) => Same(r)
        BY <1>0, <1>10 DEF RemoveLinks, linkVars, Same
  <2> QED BY <1>10, <2>1, <2>2, <2>3 DEF SlaveCleanup
<1>11. ASSUME NEW x \in Slaves, x # r, NEW k \in Linkers, CreateLink(x, k) PROVE Same(r)
  <2>1. StartLink(x, k) \/ LockList(x, k) => Same(r)
        BY <1>0, <1>11 DEF StartLink, LockList, Same
  <2>2. MakeLink(x, k) \/ ListLink(x, k) => Same(r)
        BY <1>0, <1>11 DEF MakeLink, ListLink, Same
  <2> QED BY <1>11, <2>1, <2>2 DEF CreateLink
<1> QED BY <1>1, <1>2, <1>3, <1>4, <1>5, <1>6, <1>7, <1>8, <1>9, <1>10, <1>11
        DEF Next, MasterNext, SlaveNext

\* TERMs are sent by a thread that ends the job, and are not forgotten.
LEMMA OrderStays ==
  ASSUME TypeOK, [Next]_vars, NEW r \in Slaves,
         terms[r] # {} => \E th \in MThreads : Ending(th)
  PROVE  /\ terms[r] \subseteq terms'[r]
         /\ terms'[r] # {} => \E th \in MThreads : Ending(th)'
<1>0. terms \in [Slaves -> SUBSET Codes] /\ ci \in [MThreads -> 1 .. NumProcs]
      BY DEF TypeOK
<1>1. CASE terms' = terms
      BY <1>1, EndingStays
<1>2. ASSUME NEW t \in MThreads, Term(t), SendTerm(t)
      PROVE  /\ terms[r] \subseteq terms'[r]
             /\ terms'[r] # {} => \E th \in MThreads : Ending(th)'
  <2>1. terms[r] \subseteq terms'[r]
        BY <1>0, <1>2 DEF SendTerm
  <2>2. Ending(t)
        BY <1>2 DEF Term, Ending
  <2> QED BY <2>1, <2>2, EndingStays
<1>3. ASSUME NEW t \in MThreads, Cleanup(t) PROVE terms' = terms \/ (Term(t) /\ SendTerm(t))
      BY <1>3 DEF Cleanup, Term, SkipRank, EndLoop, Kill, RemoveFile, Rmdir, Exit, Goto,
                  cleanVars, sendVars
<1>4. ASSUME NEW t \in MThreads, NEW rc \in Given, Begins(t, rc) PROVE terms' = terms
      BY <1>4 DEF Begins, Begin
<1>5. ASSUME NEW t \in MThreads, Blocks(t) PROVE terms' = terms
      BY <1>5 DEF Blocks, sendVars
<1>6. ASSUME NEW x \in Slaves, Alloc(x) \/ Fill(x) PROVE terms' = terms
      BY <1>6 DEF Alloc, Fill
<1>7. Round \/ Still => terms' = terms
      BY DEF Round, Still, sendVars
<1> QED BY <1>1, <1>2, <1>3, <1>4, <1>5, <1>6, <1>7, Steps

\* What OrderInv says of the state of one slave.
Ordered(r) ==
  /\ \A c \in Codes : hpc[r][c] # "none" => terms[r] # {}
  /\ hpc[r][Own] # "cancel"
  /\ slisten[r] = "gone" => terms[r] # {}
  /\ sexit[r] # Up => hpc[r][Own] # "none" \/ terms[r] # {}

\* Codes are not taken for the slave's own cleanup.
LEMMA OwnFacts == Own \notin Codes /\ Own \in Cleaners /\ Codes \subseteq Cleaners
  BY CodeFacts DEF Own, Cleaners

\* Without a TERM no listener is cancelled and no main thread returns.
LEMMA OrderNext ==
  ASSUME TypeOK, OrderInv, [Next]_vars
  PROVE  OrderInv'
<1> SUFFICES ASSUME NEW r \in Slaves
             PROVE  /\ terms'[r] # {} => \E th \in MThreads : Ending(th)'
                    /\ Ordered(r)'
    BY DEF OrderInv, Ordered
<1>0. /\ hpc \in [Slaves -> [Cleaners -> {"none", "cancel", "scratch", "link", "exit"}]]
      /\ sexit \in [Slaves -> {Up, Crash} \cup 0 .. 255]
      /\ slisten \in [Slaves -> {"loop", "cleanup", "gone"}]
      BY DEF TypeOK
<1>1. /\ Ordered(r) /\ terms[r] \subseteq terms'[r]
      /\ terms'[r] # {} => \E th \in MThreads : Ending(th)'
      BY OrderStays DEF OrderInv, Ordered
<1>2. CASE Same(r)
      BY <1>1, <1>2 DEF Same, Ordered
<1>3. CASE Join(r)
      BY <1>1, <1>3 DEF Join, Ordered
<1>4. CASE MainReturns(r)
      BY <1>1, <1>4 DEF MainReturns, Ordered
<1>5. CASE SlaveSignal(r)
  <2>1. hpc'[r] = [hpc[r] EXCEPT ![Own] = "scratch"] /\ (slisten'[r] = "gone" => slisten[r] = "gone")
        BY <1>0, <1>5 DEF SlaveSignal
  <2>2. hpc'[r][Own] = "scratch" /\ \A c \in Codes : hpc'[r][c] = hpc[r][c]
        BY <1>0, <2>1, OwnFacts
  <2> QED BY <1>1, <2>1, <2>2 DEF Ordered
<1>6. ASSUME NEW c \in Codes, HandleTerm(r, c) PROVE Ordered(r)'
  <2>1. c \in terms[r] /\ UNCHANGED <<slisten, sexit>>
        BY <1>6 DEF HandleTerm
  <2>2. hpc'[r][Own] = hpc[r][Own]
        BY <1>0, <1>6, OwnFacts DEF HandleTerm
  <2> QED BY <1>1, <2>1, <2>2 DEF Ordered
<1>7. ASSUME NEW c \in Cleaners, SlaveCleanup(r, c) PROVE Ordered(r)'
  <2>0. sexit[r] = Up /\ hpc[r][c] # "none"
        BY <1>7 DEF SlaveCleanup, CancelListener, RemoveScratch, RemoveLinks, SlaveExit
  <2>1. c = Own \/ terms'[r] # {}
        BY <1>1, <2>0 DEF Ordered, Cleaners
  <2>2. CASE CancelListener(r, c)
    <3>1. c # Own
          BY <1>1, <2>2 DEF CancelListener, Ordered
    <3>2. hpc'[r][Own] = hpc[r][Own]
          BY <1>0, <2>2, <3>1, OwnFacts DEF CancelListener
    <3> QED BY <1>1, <2>1, <3>1, <3>2 DEF Ordered
  <2>3. CASE RemoveScratch(r, c) \/ RemoveLinks(r, c)
    <3>1. PICK l \in {"link", "exit"} : hpc' = [hpc EXCEPT ![r][c] = l]
          BY <2>3 DEF RemoveScratch, RemoveLinks
    <3>2. hpc'[r] = [hpc[r] EXCEPT ![c] = l] /\ UNCHANGED <<slisten, sexit>>
          BY <1>0, <2>3, <3>1 DEF RemoveScratch, RemoveLinks
    <3>3. CASE c = Own
          BY <1>0, <1>1, <2>0, <3>2, <3>3, OwnFacts DEF Ordered
    <3>4. CASE c # Own
          BY <1>0, <1>1, <2>0, <2>1, <3>2, <3>4, OwnFacts DEF Ordered
    <3> QED BY <3>3, <3>4
  <2>4. CASE SlaveExit(r, c)
    <3>1. UNCHANGED <<hpc, slisten>>
          BY <2>4 DEF SlaveExit
    <3> QED BY <1>1, <2>0, <2>1, <3>1 DEF Ordered
  <2> QED BY <1>7, <2>2, <2>3, <2>4 DEF SlaveCleanup
<1>8. ASSUME NEW k \in Linkers, CreateLink(r, k) PROVE Ordered(r)'
  <2>1. UNCHANGED <<hpc, slisten, sexit>>
        BY <1>8 DEF CreateLink, StartLink, MakeLink, LockList, ListLink
  <2> QED BY <1>1, <2>1 DEF Ordered
<1> QED BY <1>1, <1>2, <1>3, <1>4, <1>5, <1>6, <1>7, <1>8, SlaveSteps

\* What LeftInv and SlaveLeft say of one slave.
Removed(r) ==
  /\ "link" \in left[r] => r \in listed \/ \E k \in Linkers : lpc[r][k] \in {"lock", "list"}
  /\ \A c \in Cleaners :
       /\ hpc[r][c] \in {"link", "exit"} => "scratch" \notin left[r]
       /\ hpc[r][c] = "exit" /\ <<r, c>> \notin racing => "link" \notin left[r] /\ ~ Linking(r)

LeftOver(r) ==
  sexit[r] \notin {Up, Crash} /\ left[r] # {} =>
    \/ sexit[r] = 0 /\ smain[r] = "join" /\ slisten[r] = "gone"
    \/ sexit[r] = 15 /\ smain[r] = "register" /\ hpc[r][Own] # "none"
    \/ /\ "scratch" \notin left[r]
       /\ \E c \in Cleaners : /\ hpc[r][c] = "exit" /\ <<r, c>> \in racing
                              /\ sexit[r] = SlaveCode(c)

\* A slave's cleanups remove one after the other, whatever the others do, and
\* once no link is in the making none appears.
LEMMA LeftNext ==
  ASSUME TypeOK, LeftInv, SlaveLeft, [Next]_vars
  PROVE  LeftInv' /\ SlaveLeft'
<1> SUFFICES ASSUME NEW r \in Slaves PROVE Removed(r)' /\ LeftOver(r)'
    BY DEF LeftInv, SlaveLeft, Removed, LeftOver
<1>0. /\ hpc \in [Slaves -> [Cleaners -> {"none", "cancel", "scratch", "link", "exit"}]]
      /\ sexit \in [Slaves -> {Up, Crash} \cup 0 .. 255]
      /\ left \in [Slaves -> SUBSET {"scratch", "link"}]
      /\ smain \in [Slaves -> {"register", "join"}]
      /\ slisten \in [Slaves -> {"loop", "cleanup", "gone"}]
      /\ lpc \in [Slaves -> [Linkers -> {"idle", "make", "lock", "list"}]]
      BY DEF TypeOK
<1>1. Removed(r) /\ LeftOver(r)
      BY DEF LeftInv, SlaveLeft, Removed, LeftOver
<1>2. CASE Same(r)
      BY <1>1, <1>2 DEF Same, Removed, LeftOver, Linking
<1>3. CASE Join(r)
  <2>1. UNCHANGED <<hpc, left, sexit, lpc, listed, racing, slisten>> /\ sexit[r] = Up
        BY <1>3 DEF Join, linkVars
  <2> QED BY <1>1, <2>1 DEF Removed, LeftOver, Linking
<1>4. CASE MainReturns(r)
  <2>1. /\ sexit'[r] = 0 /\ UNCHANGED <<hpc, left, smain, slisten, lpc, listed, racing>>
        /\ smain[r] = "join" /\ slisten[r] = "gone"
        BY <1>0, <1>4 DEF MainReturns, linkVars
  <2> QED BY <1>1, <2>1 DEF Removed, LeftOver, Linking
<1>5. CASE SlaveSignal(r)
  <2>1. /\ hpc'[r] = [hpc[r] EXCEPT ![Own] = "scratch"]
        /\ slisten'[r] = "loop" => slisten[r] = "loop"
        /\ UNCHANGED <<left, smain, lpc, listed, racing>>
        BY <1>0, <1>5 DEF SlaveSignal, linkVars
  <2>2. hpc'[r][Own] = "scratch" /\ \A c \in Cleaners : c # Own => hpc'[r][c] = hpc[r][c]
        BY <1>0, <2>1, OwnFacts
  <2>3. Removed(r)'
        BY <1>1, <2>1, <2>2 DEF Removed, Linking
  <2>4. sexit'[r] \in {Up, Crash} \/ (sexit'[r] = 15 /\ smain[r] = "register")
        BY <1>0, <1>5 DEF SlaveSignal
  <2> QED BY <2>1, <2>2, <2>3, <2>4 DEF LeftOver
<1>6. ASSUME NEW c \in Codes, HandleTerm(r, c) PROVE Removed(r)' /\ LeftOver(r)'
  <2>1. /\ hpc'[r] = [hpc[r] EXCEPT ![c] = "cancel"] /\ sexit[r] = Up
        /\ UNCHANGED <<left, sexit, slisten, lpc, listed, racing>>
        BY <1>0, <1>6, OwnFacts DEF HandleTerm, linkVars
  <2>2. \A x \in Cleaners : hpc'[r][x] = "cancel" \/ hpc'[r][x] = hpc[r][x]
        BY <1>0, <2>1
  <2> QED BY <1>1, <2>1, <2>2 DEF Removed, LeftOver, Linking
<1>7. ASSUME NEW c \in Cleaners, SlaveCleanup(r, c) PROVE Removed(r)' /\ LeftOver(r)'
  <2>1. CASE CancelListener(r, c)
    <3>1. /\ hpc'[r] = [hpc[r] EXCEPT ![c] = "scratch"] /\ sexit[r] = Up
          /\ UNCHANGED <<left, sexit, lpc, listed, racing>> /\ slisten'[r] = "gone"
          BY <1>0, <2>1 DEF CancelListener, linkVars
    <3>2. \A x \in Cleaners : hpc'[r][x] = "scratch" \/ hpc'[r][x] = hpc[r][x]
          BY <1>0, <3>1
    <3> QED BY <1>1, <3>1, <3>2 DEF Removed, LeftOver, Linking
  <2>2. CASE RemoveScratch(r, c)
    <3>1. /\ hpc'[r] = [hpc[r] EXCEPT ![c] = "link"] /\ left'[r] = left[r] \ {"scratch"}
          /\ UNCHANGED <<sexit, slisten, lpc, listed, racing>> /\ sexit[r] = Up
          BY <1>0, <2>2 DEF RemoveScratch
    <3>2. \A x \in Cleaners : hpc'[r][x] = "link" \/ hpc'[r][x] = hpc[r][x]
          BY <1>0, <3>1
    <3> QED BY <1>1, <3>1, <3>2 DEF Removed, LeftOver, Linking
  <2>3. CASE RemoveLinks(r, c)
    <3>1. /\ hpc'[r] = [hpc[r] EXCEPT ![c] = "exit"]
          /\ left'[r] = IF r \in listed THEN left[r] \ {"link"} ELSE left[r]
          /\ UNCHANGED <<sexit, slisten, lpc, listed>> /\ sexit[r] = Up
          /\ racing \subseteq racing' /\ (Linking(r) => <<r, c>> \in racing')
          BY <1>0, <2>3 DEF RemoveLinks, linkVars
    <3>2. \A x \in Cleaners : x # c => hpc'[r][x] = hpc[r][x]
          BY <1>0, <3>1
    <3>3. "scratch" \notin left[r]
          BY <1>1, <2>3 DEF Removed, RemoveLinks
    <3>4. ~ Linking(r) => "link" \notin left'[r]
          BY <1>1, <3>1 DEF Removed, Linking
    <3>5. Linking(r)' <=> Linking(r)
          BY <3>1 DEF Linking
    <3>6. Removed(r)'
          BY <1>1, <3>1, <3>2, <3>3, <3>4, <3>5 DEF Removed
    <3> QED BY <3>1, <3>6 DEF LeftOver
  <2>4. CASE SlaveExit(r, c)
    <3>1. /\ UNCHANGED <<hpc, left, slisten, lpc, listed, racing>> /\ hpc[r][c] = "exit"
          /\ sexit'[r] = SlaveCode(c)
          BY <1>0, <2>4 DEF SlaveExit, linkVars
    <3>2. Removed(r)'
          BY <1>1, <3>1 DEF Removed, Linking
    <3>3. "scratch" \notin left[r] /\ (<<r, c>> \notin racing => "link" \notin left[r])
          BY <1>1, <3>1 DEF Removed
    <3>4. left[r] \subseteq {"scratch", "link"}
          BY <1>0
    <3>5. <<r, c>> \notin racing => left[r] = {}
          BY <3>3, <3>4
    <3> QED BY <3>1, <3>2, <3>3, <3>5 DEF LeftOver
  <2> QED BY <1>7, <2>1, <2>2, <2>3, <2>4 DEF SlaveCleanup
<1>8. ASSUME NEW k \in Linkers, CreateLink(r, k) PROVE Removed(r)' /\ LeftOver(r)'
  <2>0. UNCHANGED <<hpc, slisten, sexit, smain, racing>> /\ sexit[r] = Up
        BY <1>8 DEF CreateLink, StartLink, MakeLink, LockList, ListLink
  <2>1. Linking(r)
        BY <1>8 DEF CreateLink, StartLink, MakeLink, LockList, ListLink, Linking
  <2>2. \A c \in Cleaners : hpc[r][c] = "exit" => <<r, c>> \in racing
        BY <1>1, <2>1 DEF Removed
  <2>3. "scratch" \in left'[r] => "scratch" \in left[r]
        BY <1>0, <1>8 DEF CreateLink, StartLink, MakeLink, LockList, ListLink
  <2>4. ASSUME "link" \in left'[r]
        PROVE  r \in listed' \/ \E x \in Linkers : lpc'[r][x] \in {"lock", "list"}
    <3>1. CASE StartLink(r, k)
      <4>1. /\ UNCHANGED <<left, listed>> /\ lpc[r][k] = "idle"
            /\ lpc'[r] = [lpc[r] EXCEPT ![k] = "make"]
            BY <1>0, <3>1 DEF StartLink
      <4> QED BY <1>0, <1>1, <2>4, <4>1 DEF Removed
    <3>2. CASE MakeLink(r, k)
      <4>1. /\ listed' = listed /\ lpc[r][k] = "make"
            /\ lpc'[r] = [lpc[r] EXCEPT ![k] = IF "link" \in left[r] THEN "idle" ELSE "lock"]
            BY <1>0, <3>2 DEF MakeLink
      <4> QED BY <1>0, <1>1, <4>1 DEF Removed
    <3>3. CASE LockList(r, k)
      <4>1. lpc'[r] = [lpc[r] EXCEPT ![k] = "list"]
            BY <1>0, <3>3 DEF LockList
      <4> QED BY <1>0, <4>1
    <3>4. CASE ListLink(r, k)
          BY <3>4 DEF ListLink
    <3> QED BY <1>8, <3>1, <3>2, <3>3, <3>4 DEF CreateLink
  <2> QED BY <1>1, <2>0, <2>2, <2>3, <2>4 DEF Removed, LeftOver
<1> QED BY <1>2, <1>3, <1>4, <1>5, <1>6, <1>7, <1>8, SlaveSteps

-----------------------------------------------------------------------------
(***************************************************************************)
(* What a cleanup has still to do.                                         *)
(***************************************************************************)

\* Thread th is nearer to exit, or where it was.
Advances(th) ==
  \/ Remaining(th)' < Remaining(th)
  \/ UNCHANGED <<cpc[th], ci[th], cj[th]>> /\ (Cleanup(th) => mexit' # Up)

\* One rank fewer is TermRetries TERMs fewer.
LEMMA OneRankFewer ==
  ASSUME NEW a \in Nat, NEW b \in Nat
  PROVE  a * b \in Nat /\ (a + 1) * b = a * b + b
  OBVIOUS

\* In the TERM loop.
LEMMA TermAdvances ==
  ASSUME TypeInv, NEW th \in MThreads, Term(th)
  PROVE  Remaining(th)' < Remaining(th)
<1> USE ShutdownAssumption
<1>0. LoopType /\ cpc[th] = "term"
      BY DEF TypeInv, Term
<1>1. PICK r \in 1 .. NumProcs : r = ci[th]
      BY <1>0 DEF LoopType
<1>2. PICK n \in 0 .. TermRetries - 1 : n = cj[th]
      BY <1>0 DEF LoopType
<1>3. PICK a \in Nat : a = NumProcs - r
      BY <1>1
<1>4. NumProcs - r + 1 = a + 1 /\ NumProcs - (r + 1) + 1 = a
      BY <1>1, <1>3
<1> DEFINE p == a * TermRetries
<1>5. p \in Nat /\ (a + 1) * TermRetries = p + TermRetries
  <2>1. TermRetries \in Nat
        OBVIOUS
  <2> QED BY <2>1, OneRankFewer, Zenon
<1> HIDE DEF p
<1>a. (NumProcs - r + 1) * TermRetries = p + TermRetries
      BY <1>4, <1>5, Zenon
<1>b. (NumProcs - (r + 1) + 1) * TermRetries = p
      BY <1>4, Zenon DEF p
<1>6. Remaining(th) = (p + TermRetries) - n + 6
  <2>1. Remaining(th) = (NumProcs - r + 1) * TermRetries - n + 6
        BY <1>0, <1>1, <1>2, Zenon DEF Remaining
  <2> QED BY <1>a, <2>1, Zenon
<1>7. CASE SendTerm(th)
  <2>1. CASE n + 1 < TermRetries
    <3>1. cpc'[th] = "term" /\ ci'[th] = r /\ cj'[th] = n + 1
          BY <1>0, <1>1, <1>2, <1>7, <2>1 DEF SendTerm, LoopType
    <3>2. Remaining(th)' = (p + TermRetries) - (n + 1) + 6
      <4>1. Remaining(th)' = (NumProcs - r + 1) * TermRetries - (n + 1) + 6
            BY <3>1, Zenon DEF Remaining
      <4> QED BY <1>a, <4>1, Zenon
    <3> QED BY <1>2, <1>5, <1>6, <3>2
  <2>2. CASE ~ (n + 1 < TermRetries)
    <3>1. cpc'[th] = "term" /\ ci'[th] = r + 1 /\ cj'[th] = 0
          BY <1>0, <1>1, <1>2, <1>7, <2>2 DEF SendTerm, LoopType
    <3>2. Remaining(th)' = p - 0 + 6
      <4>1. Remaining(th)' = (NumProcs - (r + 1) + 1) * TermRetries - 0 + 6
            BY <3>1, Zenon DEF Remaining
      <4> QED BY <1>b, <4>1, Zenon
    <3> QED BY <1>2, <1>5, <1>6, <3>2
  <2> QED BY <2>1, <2>2
<1>8. CASE SkipRank(th)
  <2>1. cpc'[th] = "term" /\ ci'[th] = r + 1 /\ cj'[th] = n
        BY <1>0, <1>1, <1>2, <1>8 DEF SkipRank, LoopType
  <2>2. Remaining(th)' = p - n + 6
    <3>1. Remaining(th)' = (NumProcs - (r + 1) + 1) * TermRetries - n + 6
          BY <2>1, Zenon DEF Remaining
    <3> QED BY <1>b, <3>1, Zenon
  <2> QED BY <1>2, <1>5, <1>6, <2>2
<1>9. CASE EndLoop(th)
  <2>1. cpc'[th] = "kill"
        BY <1>0, <1>9 DEF EndLoop, LoopType
  <2>2. Remaining(th)' = 6
        BY <2>1 DEF Remaining, StepsAfter
  <2> QED BY <1>2, <1>5, <1>6, <2>2
<1> QED BY <1>7, <1>8, <1>9 DEF Term

\* After the loop; Exit ends the process.
LEMMA StepAdvances ==
  ASSUME TypeInv, NEW th \in MThreads, Cleanup(th)
  PROVE  Advances(th)
<1>0. cpc \in [MThreads -> Labels]
      BY DEF TypeInv, LoopType
<1>1. CASE Term(th)
      BY <1>1, TermAdvances DEF Advances
<1>2. CASE Kill(th)
  <2>1. cpc[th] = "kill" /\ cpc'[th] = "config"
        BY <1>0, <1>2 DEF Kill, Goto
  <2>2. Remaining(th) = 6 /\ Remaining(th)' = 5
        BY <2>1 DEF Remaining, StepsAfter
  <2> QED BY <2>2 DEF Advances
<1>3. CASE RemoveFile(th)
  <2>1. \/ cpc[th] = "config" /\ cpc'[th] = "wrapper"
        \/ cpc[th] = "wrapper" /\ cpc'[th] = "machine"
        \/ cpc[th] = "machine" /\ cpc'[th] = "rmdir"
        BY <1>0, <1>3, AfterFacts DEF RemoveFile, Goto
  <2>2. \/ Remaining(th) = 5 /\ Remaining(th)' = 4
        \/ Remaining(th) = 4 /\ Remaining(th)' = 3
        \/ Remaining(th) = 3 /\ Remaining(th)' = 2
        BY <2>1 DEF Remaining, StepsAfter
  <2> QED BY <2>2 DEF Advances
<1>4. CASE Rmdir(th)
  <2>1. cpc[th] = "rmdir" /\ cpc'[th] = "exit"
        BY <1>0, <1>4 DEF Rmdir, Goto
  <2>2. Remaining(th) = 2 /\ Remaining(th)' = 1
        BY <2>1 DEF Remaining, StepsAfter
  <2> QED BY <2>2 DEF Advances
<1>5. CASE Exit(th)
  <2>1. code[th] \in Nat
        BY <1>5, CodeFacts DEF TypeInv, Exit, InCleanup, Ending
  <2>2. mexit' # Up /\ UNCHANGED <<cpc, ci, cj>>
        BY <1>5, <2>1, ByteFacts DEF Exit, Up, cleanVars
  <2> QED BY <2>2 DEF Advances
<1> QED BY <1>1, <1>2, <1>3, <1>4, <1>5 DEF Cleanup

\* A step of another thread, of a handler of REGISTERs or of a slave.
LEMMA OthersStay ==
  ASSUME TypeInv, [Next]_vars, NEW th \in MThreads, InCleanup(th), InCleanup(th)',
         ~ Signal(th), ~ Cleanup(th)
  PROVE  UNCHANGED <<cpc[th], ci[th], cj[th]>>
<1>0. LoopType
      BY DEF TypeInv
<1>1. ASSUME NEW t \in MThreads, NEW rc \in Given, Begins(t, rc),
             InCleanup(t) => Signal(t)
      PROVE  UNCHANGED <<cpc[th], ci[th], cj[th]>>
      BY <1>0, <1>1 DEF Begins, Begin, LoopType
<1>2. ASSUME NEW t \in MThreads, Cleanup(t) PROVE UNCHANGED <<cpc[th], ci[th], cj[th]>>
      BY <1>0, <1>2 DEF Cleanup, Term, SendTerm, SkipRank, EndLoop, Kill, RemoveFile, Rmdir,
                        Exit, Goto, cleanVars, LoopType
<1>3. ASSUME NEW t \in MThreads, Blocks(t) PROVE UNCHANGED <<cpc[th], ci[th], cj[th]>>
  <2>1. t # th
        BY <1>0, <1>3 DEF Blocks, InCleanup, LoopType
  <2> QED BY <1>0, <1>3, <2>1 DEF Blocks, LoopType
<1>4. CASE Round
      BY <1>0, <1>4 DEF Round, InCleanup, Ending, LoopType
<1>5. ASSUME NEW r \in Slaves, Alloc(r) \/ Fill(r) PROVE UNCHANGED <<cpc[th], ci[th], cj[th]>>
      BY <1>5 DEF Alloc, Fill
<1>6. CASE Still
      BY <1>6 DEF Still
<1> QED BY <1>1, <1>2, <1>3, <1>4, <1>5, <1>6, Steps

LEMMA AdvancesNext ==
  ASSUME TypeInv, [Next]_vars, NEW th \in MThreads, InCleanup(th), InCleanup(th)', ~ Signal(th)
  PROVE  Advances(th)
<1>1. CASE Cleanup(th)
      BY <1>1, StepAdvances
<1>2. CASE ~ Cleanup(th)
      BY <1>2, OthersStay DEF Advances
<1> QED BY <1>1, <1>2

-----------------------------------------------------------------------------
(***************************************************************************)
(* The theorems.                                                           *)
(***************************************************************************)
EndsInv == TypeInv /\ ScratchInv /\ EndInv /\ ZeroInv /\ TermInv /\ OrderInv /\ LeftInv /\ SlaveLeft

\* Before anything is written, sent or removed the invariants hold.
LEMMA EndsInit == Init => EndsInv
<1> SUFFICES ASSUME Init PROVE EndsInv
    OBVIOUS
<1>1. TypeInv
      BY InitType
<1>2. ScratchInv /\ EndInv
      BY DEF Init, ScratchInv, EndInv, Up
<1>3. ZeroInv /\ TermInv
      BY DEF Init, ZeroInv, TermInv, InCleanup, Ending, Up
<1>4. OrderInv /\ LeftInv /\ SlaveLeft
      BY OwnFacts DEF Init, OrderInv, LeftInv, SlaveLeft
<1> QED BY <1>1, <1>2, <1>3, <1>4 DEF EndsInv

\* Every step keeps them.
LEMMA EndsNext == EndsInv /\ [Next]_vars => EndsInv'
<1> SUFFICES ASSUME EndsInv, [Next]_vars PROVE EndsInv'
    OBVIOUS
<1>1. TypeInv' /\ TypeOK
      BY StepType, TypeParts DEF EndsInv
<1>2. ScratchInv' /\ EndInv' /\ ZeroInv' /\ TermInv'
      BY <1>1, ScratchNext, EndNext, ZeroNext, TermNext DEF EndsInv
<1>3. OrderInv' /\ LeftInv' /\ SlaveLeft'
      BY <1>1, OrderNext, LeftNext DEF EndsInv
<1> QED BY <1>1, <1>2, <1>3 DEF EndsInv

\* However many threads of the master are in cleanup at once, and whatever
\* the others remove meanwhile: one that began after main's last file is
\* written has removed the scratch directory when it reaches exit.
THEOREM ScratchIsRemoved == Spec => []ScratchRemoved
<1>1. EndsInv => ScratchRemoved
      BY DEF EndsInv, ScratchInv, ScratchRemoved
<1> QED BY <1>1, EndsInit, EndsNext, PTL DEF Spec

\* A thread of the master that reaches exit has itself sent all of the TERMs
\* to every slave whose entry was complete when its loop came to it, unless a
\* late handler has calloc'ed that entry again.
THEOREM TermsAreSent == Spec => []TermsSent
<1>1. EndsInv => TermsSent
      BY DEF EndsInv, TermInv, TermsSent, InCleanup, Ending
<1> QED BY <1>1, EndsInit, EndsNext, PTL DEF Spec

\* The master leaves its scratch directory behind only after a signal that
\* came before the jump buffer was set, a crash, or a cleanup that began
\* while main was writing files.
THEOREM ScratchIsLeft == Spec => []ScratchLeft
<1>1. EndsInv => ScratchLeft
      BY DEF EndsInv, ScratchInv, EndInv, ScratchLeft
<1> QED BY <1>1, EndsInit, EndsNext, PTL DEF Spec

\* A master that exits with 0 has a child that exited by itself, whichever of
\* its threads ended it and whatever status waitpid stored.
THEOREM ZeroIsExited == Spec => []ZeroMeansExited
<1>1. EndsInv => ZeroMeansExited
      BY DEF EndsInv, ZeroInv, ZeroMeansExited, Exited
<1> QED BY <1>1, EndsInit, EndsNext, PTL DEF Spec

\* No slave ends before the master begins to end the job and has sent it a
\* TERM, unless a signal hits it.
THEOREM SlavesObey == Spec => []SlaveExitsOnOrder
<1>1. EndsInv => SlaveExitsOnOrder
      BY DEF EndsInv, OrderInv, SlaveExitsOnOrder
<1> QED BY <1>1, EndsInit, EndsNext, PTL DEF Spec

\* A slave that ends and leaves something behind has returned from main after
\* its listener was cancelled, or got a signal before its jump buffer, or what
\* it leaves is a link that was in the making when its cleanup walked along the
\* list: however many handlers make links, and however many TERMs it handles.
THEOREM SlavesLeave == Spec => []SlaveLeft
<1>1. EndsInv => SlaveLeft
      BY DEF EndsInv
<1> QED BY <1>1, EndsInit, EndsNext, PTL DEF Spec

\* Any number of threads in cleanup, of slaves and of TERMs: each step of a
\* thread in cleanup brings it nearer to exit, and no other step takes it back.
THEOREM CleanupIsBounded == Spec => CleanupAdvances
<1>1. TypeInv /\ [Next]_vars =>
        [\A th \in MThreads : InCleanup(th) /\ InCleanup(th)' /\ ~ Signal(th) => Advances(th)]_vars
      BY AdvancesNext
<1> QED BY <1>1, InitType, StepType, PTL DEF Spec, CleanupAdvances, Advances

\* The specification of the master alone is a special case.
THEOREM MasterAlone == MasterSpec => Spec
<1>1. [MasterNext]_vars => [Next]_vars
      BY DEF Next
<1> QED BY <1>1, PTL DEF MasterSpec, Spec
=============================================================================
