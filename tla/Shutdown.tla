------------------------------ MODULE Shutdown ------------------------------
(***************************************************************************)
(* How a job ends.  Any of three threads of the master may run cleanup:    *)
(* main when waitpid returns (or a file cannot be written, or fork fails), *)
(* a keep_alive thread that found a rank dead, and the listener after a    *)
(* signal.  Nothing keeps them apart: cleanup only tries its locks.  Each  *)
(* sends TERM to the registered slaves, removes the scratch directory and  *)
(* exits; the first exit ends the process.  A slave that receives TERM     *)
(* cancels its listener, cleans up and exits, while its main thread waits  *)
(* for that very listener and then returns from main.                      *)
(***************************************************************************)
EXTENDS Integers

CONSTANTS
  NumProcs,     \* par_wrapper->num_procs
  TermRetries,  \* TERM datagrams per slave (10 in the code)
  Outcomes,     \* what may become of the child: <<how, number>>
  MaxSignals,   \* bound: signals the master receives
  Signalled,    \* bound: slaves that may receive a signal, each one
  Linkers       \* handler threads of CREATE_LINKs in a slave

Slaves   == 1 .. NumProcs - 1
MThreads == {"main", "keep_alive", "listener"}

\* The status waitpid stores for a child that exited, was killed or stopped.
WaitStatus(o) ==
  CASE o[1] = "exited"   -> o[2] * 256
    [] o[1] = "signaled" -> o[2]
    [] o[1] = "stopped"  -> o[2] * 256 + 127

\* The return codes cleanup is called with.
Codes == {WaitStatus(o) : o \in Outcomes} \cup {5, 10, 250}

\* A slave's cleanups: one for each TERM's code, and its own after a signal.
Own      == -1
Cleaners == Codes \cup {Own}

ASSUME ShutdownAssumption ==
  /\ NumProcs \in Nat \ {0}
  /\ TermRetries \in Nat \ {0}
  /\ Outcomes \subseteq {"exited", "signaled", "stopped"} \X (0 .. 255)
  /\ \A o \in Outcomes : o[1] = "signaled" => o[2] # 0   \* signals start at 1
  /\ MaxSignals \in Nat
  /\ Signalled \subseteq Slaves

Up    == -1   \* instead of an exit code: the process runs
Crash == -2   \* instead of an exit code: killed by a fault
None  == <<"none", 0>>
Alive == <<"running", 0>>

VARIABLES
  mpc,      \* the master's main thread, outside cleanup
  kaMutex,  \* keep_alive_mutex is locked
  jmpset,   \* the listener has set its jump buffer
  child,    \* None, Alive or an outcome
  pgid,     \* par_wrapper->pgid
  killed,   \* SIGTERM was sent to the child's process group
  dir,      \* the scratch directory exists ...
  files,    \* ... and holds these files
  cpc,      \* control points of the three threads in cleanup
  code,     \* the return_code of their cleanup
  ci, cj,   \* the indices of their TERM loop
  mexit,    \* exit code of the master, or Up, or Crash
  signals,  \* bound: signals the master may still receive
  flag,     \* exit_flag
  libc,     \* a signal left a lock of the C library held for good
  reg,      \* slaves with an entry in the machines table
  blank,    \* ... those among them whose entry is calloc'ed and not filled
  acked,    \* slaves whose REGISTER was acknowledged
  terms,    \* terms[r]: return codes of the TERMs sent to slave r
  smain,    \* main thread of a slave: "register" or "join"
  slisten,  \* a slave's listener: in its "loop", in "cleanup" or "gone"
  hpc,      \* hpc[r][c]: slave r's handler of a TERM with code c, or Own
  left,     \* left[r]: what slave r has made and not removed yet
  sexit,    \* exit code of slave r, or Up, or Crash
  lpc,      \* lpc[r][k]: slave r's handler k of a CREATE_LINK
  listed,   \* slaves that have the link in their list of links
  smutex,   \* slaves whose par_wrapper->mutex is locked
  due,      \* history: slaves a thread's TERM loop owes its TERMs
  settled,  \* history: threads that entered it with all files written
  sent,     \* history: TERMs a thread has sent to the rank it is at
  racing    \* history: <<r, c>> if c's walk met a link in the making

mainVars   == <<mpc, jmpset, child, pgid>>
sendVars   == <<terms, sent, due>>
cleanVars  == <<cpc, code, ci, cj, kaMutex, settled, sendVars>>
diskVars   == <<dir, files>>
signalVars == <<signals, flag, libc>>
linkVars   == <<lpc, listed, smutex>>
slaveVars  == <<smain, slisten, hpc, left, sexit, linkVars, racing>>
tableVars  == <<reg, blank, acked>>
vars       == <<mainVars, cleanVars, diskVars, killed, mexit, signalVars,
                tableVars, slaveVars>>

\* The master has created its scratch directory and is about to start the
\* listener and, in the main thread, to write its files.
Init ==
  /\ mpc = "machine"
  /\ kaMutex = TRUE
  /\ jmpset = FALSE
  /\ child = None
  /\ pgid = -1
  /\ killed = FALSE
  /\ dir = TRUE
  /\ files = {}
  /\ cpc = [th \in MThreads |-> "none"]
  /\ code = [th \in MThreads |-> 0]
  /\ ci = [th \in MThreads |-> 1]
  /\ cj = [th \in MThreads |-> 0]
  /\ mexit = Up
  /\ signals \in 0 .. MaxSignals /\ flag = FALSE /\ libc = FALSE
  /\ reg = {} /\ blank = {} /\ acked = {}
  /\ terms = [r \in Slaves |-> {}]
  /\ smain = [r \in Slaves |-> "register"]
  /\ slisten = [r \in Slaves |-> "loop"]
  /\ hpc = [r \in Slaves |-> [c \in Cleaners |-> "none"]]
  /\ left = [r \in Slaves |-> {"scratch"}]
  /\ sexit = [r \in Slaves |-> Up]
  /\ lpc = [r \in Slaves |-> [k \in Linkers |-> "idle"]]
  /\ listed = {} /\ smutex = {}
  /\ due = [th \in MThreads |-> {}]
  /\ settled = {}
  /\ sent = [th \in MThreads |-> 0]
  /\ racing = {}

-----------------------------------------------------------------------------
(***************************************************************************)
(* cleanup in the master.                                                  *)
(***************************************************************************)

\* Thread th has come to end the job: it is in cleanup, or stuck in a signal's
\* handler.
Ending(th)    == cpc[th] \notin {"none", "round"}
InCleanup(th) == Ending(th) /\ cpc[th] # "stuck"

\* From now on main writes no file: it is past that, or itself in cleanup.
NoMoreFiles(th) ==
  th = "main" \/ InCleanup("main") \/ mpc \notin {"machine", "config", "wrapper"}

\* Mutant: the threads share the indices of the loop.
BeginShared(th, rc) ==
  /\ kaMutex' = TRUE
  /\ cpc' = [cpc EXCEPT ![th] = "term"]
  /\ code' = [code EXCEPT ![th] = rc]
  /\ ci' = [t \in MThreads |-> 1]
  /\ cj' = [t \in MThreads |-> 0]
  /\ due' = [due EXCEPT ![th] = reg \ blank]
  /\ sent' = [t \in MThreads |-> 0]
  /\ settled' = IF NoMoreFiles(th) THEN settled \cup {th} ELSE settled \ {th}
  /\ UNCHANGED terms

\* A call of cleanup: trylock, whatever it returns, and on to the loop, which
\* owes its TERMs to the slaves whose entries are complete.
Begin(th, rc) ==
  /\ kaMutex' = TRUE
  /\ cpc' = [cpc EXCEPT ![th] = "term"]
  /\ code' = [code EXCEPT ![th] = rc]
  /\ ci' = [ci EXCEPT ![th] = 1]
  /\ cj' = [cj EXCEPT ![th] = 0]
  /\ due' = [due EXCEPT ![th] = reg \ blank]
  /\ sent' = [sent EXCEPT ![th] = 0]
  /\ settled' = IF NoMoreFiles(th) THEN settled \cup {th} ELSE settled \ {th}
  /\ UNCHANGED terms

\* Mutants: the loop goes one rank too far, or stops one short.
MoreRanksLong(r)  == r <= NumProcs
MoreRanksShort(r) == r < NumProcs - 1

\* The condition of the loop over the ranks.
MoreRanks(r) == r < NumProcs

\* An attempt to send TERM to rank ci; after the last of them the loop goes on
\* to the next rank.  term returns an error for an entry that has no address
\* yet: nothing is sent and cleanup does not look at what it returns.
SendTerm(th) ==
  LET r == ci[th]
      n == IF r \in blank THEN sent[th] ELSE sent[th] + 1
  IN
  /\ MoreRanks(r) /\ r \in reg
  /\ terms' = IF r \in blank THEN terms ELSE [terms EXCEPT ![r] = @ \cup {code[th]}]
  /\ \/ /\ cj[th] + 1 < TermRetries
        /\ cj' = [cj EXCEPT ![th] = @ + 1]
        /\ sent' = [sent EXCEPT ![th] = n]
        /\ UNCHANGED <<ci, due>>
     \/ /\ cj[th] + 1 >= TermRetries
        /\ cj' = [cj EXCEPT ![th] = 0]
        /\ ci' = [ci EXCEPT ![th] = @ + 1]
        /\ sent' = [sent EXCEPT ![th] = 0]
        /\ due' = [due EXCEPT ![th] = IF n = TermRetries THEN @ \ {r} ELSE @]
  /\ UNCHANGED cpc

\* Rank ci has not registered.
SkipRank(th) ==
  /\ MoreRanks(ci[th]) /\ ci[th] \notin reg
  /\ ci' = [ci EXCEPT ![th] = @ + 1]
  /\ UNCHANGED <<sendVars, cj, cpc>>

EndLoop(th) ==
  /\ ~ MoreRanks(ci[th])
  /\ cpc' = [cpc EXCEPT ![th] = "kill"]
  /\ UNCHANGED <<sendVars, ci, cj>>

\* Mutant: the loop waits for a rank that has not registered.
TermNoSkip(th) ==
  /\ mexit = Up
  /\ cpc[th] = "term"
  /\ SendTerm(th) \/ EndLoop(th)
  /\ UNCHANGED <<mainVars, code, kaMutex, settled, diskVars, killed, mexit,
                 signalVars, tableVars, slaveVars>>

\* One pass of the TERM loop.
Term(th) ==
  /\ mexit = Up
  /\ cpc[th] = "term"
  /\ SendTerm(th) \/ SkipRank(th) \/ EndLoop(th)
  /\ UNCHANGED <<mainVars, code, kaMutex, settled, diskVars, killed, mexit,
                 signalVars, tableVars, slaveVars>>

Goto(th, label) ==
  /\ cpc' = [cpc EXCEPT ![th] = label]
  /\ UNCHANGED <<code, ci, cj, kaMutex, settled, sendVars>>

\* killpg, if a process group was recorded.
Kill(th) ==
  /\ mexit = Up
  /\ cpc[th] = "kill"
  /\ killed' = (killed \/ (pgid > 0 /\ child # None))
  /\ Goto(th, "config")
  /\ UNCHANGED <<mainVars, diskVars, mexit, signalVars, tableVars, slaveVars>>

\* Mutant: the ssh wrapper script is forgotten.
AfterNoWrapper == [config |-> "machine", machine |-> "rmdir"]

\* The order in which cleanup_scratch removes the files.
After == [config |-> "wrapper", wrapper |-> "machine", machine |-> "rmdir"]

\* cleanup_scratch removes the files one by one ...
RemoveFile(th) ==
  /\ mexit = Up
  /\ cpc[th] \in DOMAIN After
  /\ files' = files \ {cpc[th]}
  /\ Goto(th, After[cpc[th]])
  /\ UNCHANGED <<mainVars, dir, killed, mexit, signalVars, tableVars, slaveVars>>

\* ... and then the directory, which must be empty.
Rmdir(th) ==
  /\ mexit = Up
  /\ cpc[th] = "rmdir"
  /\ dir' = (dir /\ files # {})
  /\ Goto(th, "exit")
  /\ UNCHANGED <<mainVars, files, killed, mexit, signalVars, tableVars, slaveVars>>

\* Mutant: the second byte, as if every child had exited.
ExitStatus(th) ==
  /\ mexit = Up
  /\ cpc[th] = "exit"
  /\ mexit' = (code[th] \div 256) % 256
  /\ UNCHANGED <<mainVars, cleanVars, diskVars, killed, signalVars, tableVars, slaveVars>>

\* exit(return_code): the parent of the process sees eight bits of it.
Exit(th) ==
  /\ mexit = Up
  /\ cpc[th] = "exit"
  /\ mexit' = code[th] % 256
  /\ UNCHANGED <<mainVars, cleanVars, diskVars, killed, signalVars, tableVars, slaveVars>>

Cleanup(th) == Term(th) \/ Kill(th) \/ RemoveFile(th) \/ Rmdir(th) \/ Exit(th)

-----------------------------------------------------------------------------
(***************************************************************************)
(* What leads the master there.                                            *)
(***************************************************************************)
MainRuns == mexit = Up /\ cpc["main"] = "none"

\* The listener starts and sets its jump buffer.
StartListener ==
  /\ mexit = Up
  /\ ~ jmpset
  /\ jmpset' = TRUE
  /\ UNCHANGED <<mpc, child, pgid, cleanVars, diskVars, killed, mexit, signalVars,
                 tableVars, slaveVars>>

\* main writes the machine file, then the ssh configuration.  If the
\* directory is gone fopen fails, and main calls cleanup itself.
WriteFile ==
  /\ MainRuns
  /\ mpc \in {"machine", "config"}
  /\ IF dir
       THEN /\ files' = files \cup {mpc}
            /\ mpc' = IF mpc = "machine" THEN "config" ELSE "wrapper"
            /\ UNCHANGED cleanVars
       ELSE Begin("main", 5) /\ UNCHANGED <<files, mpc>>
  /\ UNCHANGED <<jmpset, child, pgid, dir, killed, mexit, signalVars, tableVars, slaveVars>>

\* create_ssh_wrapper does not test what fopen returns.
WriteWrapper ==
  /\ MainRuns
  /\ mpc = "wrapper"
  /\ IF dir
       THEN files' = files \cup {"wrapper"} /\ mpc' = "setup" /\ UNCHANGED mexit
       ELSE mexit' = Crash /\ UNCHANGED <<files, mpc>>
  /\ UNCHANGED <<jmpset, child, pgid, cleanVars, dir, killed, signalVars, tableVars,
                 slaveVars>>

\* The rest of the setup is done: keep-alives may begin.
UnlockKeepAlive ==
  /\ MainRuns
  /\ mpc = "setup"
  /\ mpc' = "fork"
  /\ kaMutex' = FALSE
  /\ UNCHANGED <<jmpset, child, pgid, cpc, code, ci, cj, settled, sendVars, diskVars,
                 killed, mexit, signalVars, tableVars, slaveVars>>

\* fork and setpgid.  pgid gets its result, which is 0 (or -1, which differs in
\* nothing: both are tested for > 0).
Fork ==
  /\ MainRuns
  /\ mpc = "fork"
  /\ \/ /\ child' = Alive
        /\ pgid' = 0
        /\ mpc' = "wait"
        /\ UNCHANGED cleanVars
     \/ Begin("main", 10) /\ UNCHANGED <<child, pgid, mpc>>
  /\ UNCHANGED <<jmpset, diskVars, killed, mexit, signalVars, tableVars, slaveVars>>

\* The child exits, is killed or is stopped (what becomes of it after the
\* master's end is not followed).
ChildChanges(o) ==
  /\ mexit = Up /\ child = Alive
  /\ child' = o
  /\ UNCHANGED <<mpc, jmpset, pgid, cleanVars, diskVars, killed, mexit, signalVars,
                 tableVars, slaveVars>>

\* waitpid(..., WUNTRACED) returns: cleanup with the status it stored.
WaitPid ==
  /\ MainRuns
  /\ mpc = "wait" /\ child \in Outcomes
  /\ Begin("main", WaitStatus(child))
  /\ UNCHANGED <<mainVars, diskVars, killed, mexit, signalVars, tableVars, slaveVars>>

\* A keep_alive thread takes the mutex for a round of queries ...
KeepAliveStarts ==
  /\ mexit = Up /\ jmpset
  /\ ~ kaMutex /\ cpc["keep_alive"] = "none"
  /\ kaMutex' = TRUE
  /\ cpc' = [cpc EXCEPT !["keep_alive"] = "round"]
  /\ UNCHANGED <<mainVars, code, ci, cj, settled, sendVars, diskVars, killed, mexit,
                 signalVars, tableVars, slaveVars>>

\* ... and releases it, all ranks being alive,
KeepAliveEnds ==
  /\ mexit = Up
  /\ cpc["keep_alive"] = "round"
  /\ kaMutex' = FALSE
  /\ cpc' = [cpc EXCEPT !["keep_alive"] = "none"]
  /\ UNCHANGED <<mainVars, code, ci, cj, settled, sendVars, diskVars, killed, mexit,
                 signalVars, tableVars, slaveVars>>

\* or found one silent too long, releases it and calls cleanup.
KeepAliveAborts ==
  /\ mexit = Up
  /\ cpc["keep_alive"] = "round"
  /\ Begin("keep_alive", 250)
  /\ UNCHANGED <<mainVars, diskVars, killed, mexit, signalVars, tableVars, slaveVars>>

\* Mutant: the handler always exits at once.
SignalExits(th) ==
  /\ mexit = Up
  /\ signals > 0
  /\ signals' = signals - 1
  /\ mexit' = 15
  /\ UNCHANGED <<mainVars, cleanVars, diskVars, killed, flag, libc, tableVars,
                 slaveVars>>

\* handle_exit_signal in thread th.  It prints first, and may block there for a
\* lock of the C library that the thread it interrupts holds.
HandlerBlocks(th) ==
  /\ libc' = TRUE
  /\ cpc' = [cpc EXCEPT ![th] = "stuck"]
  /\ UNCHANGED <<mexit, flag, code, ci, cj, kaMutex, settled, sendVars>>

\* Without a jump buffer it exits, with the number of the signal (here
\* SIGTERM's).
HandlerExits ==
  /\ ~ jmpset
  /\ flag' = TRUE
  /\ mexit' = 15
  /\ UNCHANGED <<libc, cleanVars>>

\* Otherwise it jumps into the listener's loop, which calls cleanup: from
\* another thread the jump is undefined, and the process may also crash.  A
\* lock that the interrupted thread holds is never released.
HandlerJumps(th) ==
  /\ jmpset
  /\ flag' = TRUE
  /\ libc' \in {libc, TRUE}
  /\ \/ Begin(th, 250) /\ UNCHANGED mexit
     \/ th # "listener" /\ mexit' = Crash /\ UNCHANGED cleanVars

Signal(th) ==
  /\ mexit = Up
  /\ cpc[th] # "stuck"
  /\ signals > 0
  /\ signals' = signals - 1
  /\ HandlerBlocks(th) \/ HandlerExits \/ HandlerJumps(th)
  /\ UNCHANGED <<mainVars, diskVars, killed, tableVars, slaveVars>>

\* The signal handler also sets exit_flag, which the listener tests at the
\* head of its loop, that is after its next message or timeout.
ListenerSeesFlag ==
  /\ mexit = Up /\ jmpset
  /\ flag /\ cpc["listener"] = "none"
  /\ Begin("listener", 250)
  /\ UNCHANGED <<mainVars, diskVars, killed, mexit, signalVars, tableVars, slaveVars>>

-----------------------------------------------------------------------------
(***************************************************************************)
(* The slaves.                                                             *)
(***************************************************************************)
masterVars == <<mainVars, cleanVars, diskVars, killed, mexit, signalVars>>

\* The entries of slaves (handle_register, which Registration models step by
\* step).  Handler threads go on running during a cleanup, and any number of
\* them may have found no entry for r: each puts a new one into the table ...
Alloc(r) ==
  /\ mexit = Up /\ jmpset
  /\ reg' = reg \cup {r} /\ blank' = blank \cup {r}
  /\ due' = [th \in MThreads |-> due[th] \ {r}]
  /\ UNCHANGED <<mainVars, cpc, code, ci, cj, kaMutex, settled, terms, sent, acked,
                 diskVars, killed, mexit, signalVars, slaveVars>>

\* The TERM loop of thread th has not come to rank r yet.
Ahead(th, r) == cpc[th] = "term" /\ ci[th] < r

\* ... and fills it in and acknowledges the REGISTER.
Fill(r) ==
  /\ mexit = Up
  /\ r \in blank
  /\ blank' = blank \ {r} /\ acked' = acked \cup {r}
  /\ due' = [th \in MThreads |-> IF Ahead(th, r) THEN due[th] \cup {r} ELSE due[th]]
  /\ UNCHANGED <<mainVars, cpc, code, ci, cj, kaMutex, settled, terms, sent, reg,
                 diskVars, killed, mexit, signalVars, slaveVars>>

\* The handler of a repeated REGISTER, or of an ACK, compares the address it
\* comes from with that of a blank entry, which is NULL.
CompareBlank(r) ==
  /\ mexit = Up
  /\ r \in blank
  /\ mexit' = Crash
  /\ UNCHANGED <<mainVars, cleanVars, diskVars, killed, signalVars, tableVars,
                 slaveVars>>

\* Slave r has seen the ACK and waits for its listener.
Join(r) ==
  /\ sexit[r] = Up
  /\ r \in acked /\ smain[r] = "register"
  /\ smain' = [smain EXCEPT ![r] = "join"]
  /\ UNCHANGED <<masterVars, tableVars, slisten, hpc, left, sexit, linkVars, racing>>

\* Mutant: TERM is handled without an order of the master.
HandleAnyTerm(r, c) ==
  /\ sexit[r] = Up /\ slisten[r] = "loop"
  /\ hpc[r][c] = "none"
  /\ hpc' = [hpc EXCEPT ![r][c] = "cancel"]
  /\ UNCHANGED <<masterVars, tableVars, smain, slisten, left, sexit, linkVars, racing>>

\* Slave r's listener hands a TERM to handle_term, which acknowledges it.  A
\* lost or late TERM is one that is not, or not yet, handled.
HandleTerm(r, c) ==
  /\ sexit[r] = Up /\ slisten[r] = "loop"
  /\ c \in terms[r] /\ hpc[r][c] = "none"
  /\ hpc' = [hpc EXCEPT ![r][c] = "cancel"]
  /\ UNCHANGED <<masterVars, tableVars, smain, slisten, left, sexit, linkVars, racing>>

\* pthread_cancel(listener).
CancelListener(r, c) ==
  /\ sexit[r] = Up
  /\ hpc[r][c] = "cancel"
  /\ slisten' = [slisten EXCEPT ![r] = "gone"]
  /\ hpc' = [hpc EXCEPT ![r][c] = "scratch"]
  /\ UNCHANGED <<masterVars, tableVars, smain, left, sexit, linkVars, racing>>

\* handle_exit_signal in a slave.  It exits if the listener has not set its
\* jump buffer, which it has once an ACK was handled.  Otherwise it jumps into
\* the listener's loop and on to cleanup or, from another thread, anywhere.
SlaveSignal(r) ==
  /\ sexit[r] = Up
  /\ r \in Signalled /\ hpc[r][Own] = "none"
  /\ hpc' = [hpc EXCEPT ![r][Own] = "scratch"]
  /\ \/ UNCHANGED <<slisten, sexit>>
     \/ /\ slisten[r] = "loop"
        /\ slisten' = [slisten EXCEPT ![r] = "cleanup"]
        /\ UNCHANGED sexit
     \/ /\ smain[r] = "register"
        /\ sexit' = [sexit EXCEPT ![r] = 15]
        /\ UNCHANGED slisten
     \/ /\ sexit' = [sexit EXCEPT ![r] = Crash]
        /\ UNCHANGED slisten
  /\ UNCHANGED <<masterVars, tableVars, smain, left, linkVars, racing>>

\* handle_create_link (which LinkSetup models with its retries and ACKs): a
\* handler does not find the link in the list ...
StartLink(r, k) ==
  /\ sexit[r] = Up /\ slisten[r] = "loop"
  /\ r \in acked /\ mpc \notin {"machine", "config", "wrapper"}
  /\ r \notin listed /\ lpc[r][k] = "idle"
  /\ lpc' = [lpc EXCEPT ![r][k] = "make"]
  /\ UNCHANGED <<masterVars, tableVars, smain, slisten, hpc, left, sexit, listed,
                 smutex, racing>>

\* ... makes it, unless it is there already ...
MakeLink(r, k) ==
  /\ sexit[r] = Up
  /\ lpc[r][k] = "make"
  /\ lpc' = [lpc EXCEPT ![r][k] = IF "link" \in left[r] THEN "idle" ELSE "lock"]
  /\ left' = [left EXCEPT ![r] = @ \cup {"link"}]
  /\ UNCHANGED <<masterVars, tableVars, smain, slisten, hpc, sexit, listed, smutex,
                 racing>>

\* ... and takes the mutex, for good if a cleanup holds it ...
LockList(r, k) ==
  /\ sexit[r] = Up
  /\ lpc[r][k] = "lock" /\ r \notin smutex
  /\ lpc' = [lpc EXCEPT ![r][k] = "list"]
  /\ smutex' = smutex \cup {r}
  /\ UNCHANGED <<masterVars, tableVars, smain, slisten, hpc, left, sexit, listed,
                 racing>>

\* ... to put the link into the list.
ListLink(r, k) ==
  /\ sexit[r] = Up
  /\ lpc[r][k] = "list"
  /\ lpc' = [lpc EXCEPT ![r][k] = "idle"]
  /\ listed' = listed \cup {r} /\ smutex' = smutex \ {r}
  /\ UNCHANGED <<masterVars, tableVars, smain, slisten, hpc, left, sexit, racing>>

\* cleanup in the slave: it tries the mutex, which a handler may hold at that
\* moment, and removes the scratch directory ...
RemoveScratch(r, c) ==
  /\ sexit[r] = Up
  /\ hpc[r][c] = "scratch"
  /\ left' = [left EXCEPT ![r] = @ \ {"scratch"}]
  /\ smutex' \in {smutex, smutex \cup {r}}
  /\ hpc' = [hpc EXCEPT ![r][c] = "link"]
  /\ UNCHANGED <<masterVars, tableVars, smain, slisten, sexit, lpc, listed, racing>>

\* A handler of a CREATE_LINK is at work in slave r, or may yet be started.
Linking(r) == slisten[r] = "loop" \/ \E k \in Linkers : lpc[r][k] # "idle"

\* Mutant: the links are forgotten.
RemoveNoLinks(r, c) ==
  /\ sexit[r] = Up
  /\ hpc[r][c] = "link"
  /\ racing' = IF Linking(r) THEN racing \cup {<<r, c>>} ELSE racing
  /\ hpc' = [hpc EXCEPT ![r][c] = "exit"]
  /\ UNCHANGED <<masterVars, tableVars, smain, slisten, left, sexit, linkVars>>

\* ... and then walks along the list and removes the links it finds there.
RemoveLinks(r, c) ==
  /\ sexit[r] = Up
  /\ hpc[r][c] = "link"
  /\ left' = [left EXCEPT ![r] = IF r \in listed THEN @ \ {"link"} ELSE @]
  /\ racing' = IF Linking(r) THEN racing \cup {<<r, c>>} ELSE racing
  /\ hpc' = [hpc EXCEPT ![r][c] = "exit"]
  /\ UNCHANGED <<masterVars, tableVars, smain, slisten, sexit, linkVars>>

\* What the parent of the slave sees of the code that cleanup exits with.
SlaveCode(c) == IF c = Own THEN 250 ELSE c % 256

SlaveExit(r, c) ==
  /\ sexit[r] = Up
  /\ hpc[r][c] = "exit"
  /\ sexit' = [sexit EXCEPT ![r] = SlaveCode(c)]
  /\ UNCHANGED <<masterVars, tableVars, smain, slisten, hpc, left, linkVars, racing>>

\* pthread_join returns once the listener is cancelled: return 0 from main.
MainReturns(r) ==
  /\ sexit[r] = Up
  /\ smain[r] = "join" /\ slisten[r] = "gone"
  /\ sexit' = [sexit EXCEPT ![r] = 0]
  /\ UNCHANGED <<masterVars, tableVars, smain, slisten, hpc, left, linkVars, racing>>

SlaveCleanup(r, c) ==
  CancelListener(r, c) \/ RemoveScratch(r, c) \/ RemoveLinks(r, c) \/ SlaveExit(r, c)

CreateLink(r, k) ==
  StartLink(r, k) \/ MakeLink(r, k) \/ LockList(r, k) \/ ListLink(r, k)

-----------------------------------------------------------------------------
MasterNext ==
  \/ StartListener \/ WriteFile \/ WriteWrapper \/ UnlockKeepAlive \/ Fork
  \/ WaitPid \/ KeepAliveStarts \/ KeepAliveEnds \/ KeepAliveAborts
  \/ ListenerSeesFlag
  \/ \E o \in Outcomes : ChildChanges(o)
  \/ \E th \in MThreads : Signal(th) \/ Cleanup(th)
  \/ \E r \in Slaves : Alloc(r) \/ Fill(r) \/ CompareBlank(r)

SlaveNext ==
  \E r \in Slaves : \/ Join(r) \/ MainReturns(r) \/ SlaveSignal(r)
                    \/ \E c \in Codes : HandleTerm(r, c)
                    \/ \E c \in Cleaners : SlaveCleanup(r, c)
                    \/ \E k \in Linkers : CreateLink(r, k)

Next == MasterNext \/ SlaveNext

Spec == Init /\ [][Next]_vars

\* The master alone: the slaves influence it by what their REGISTERs do to the
\* table, which is part of it.
MasterSpec == Init /\ [][MasterNext]_vars

\* The operating system runs the threads: one in cleanup goes on to the exit,
\* unless a signal has left a lock held that its next print needs, and waitpid
\* returns once the child has changed state.  Nothing is assumed of the
\* network or of the threads that have not begun to end the job.
Fairness ==
  /\ WF_vars(WaitPid)
  /\ \A th \in MThreads : WF_vars(~ libc /\ Cleanup(th))

-----------------------------------------------------------------------------
(***************************************************************************)
(* Properties.                                                             *)
(***************************************************************************)

\* The type invariant.  The bound on ci says that cleanup's loop never reads
\* the machines table beyond its first free index.
TypeOK ==
  /\ mpc \in {"machine", "config", "wrapper", "setup", "fork", "wait"}
  /\ kaMutex \in BOOLEAN /\ jmpset \in BOOLEAN /\ killed \in BOOLEAN /\ dir \in BOOLEAN
  /\ child \in Outcomes \cup {None, Alive}
  /\ pgid \in {-1, 0}
  /\ files \subseteq DOMAIN After
  /\ cpc \in [MThreads -> {"none", "round", "stuck", "term", "kill", "config",
                          "wrapper", "machine", "rmdir", "exit"}]
  /\ code \in [MThreads -> Codes \cup {0}]
  /\ ci \in [MThreads -> 1 .. NumProcs] /\ cj \in [MThreads -> 0 .. TermRetries - 1]
  /\ mexit \in {Up, Crash} \cup 0 .. 255
  /\ signals \in 0 .. MaxSignals /\ flag \in BOOLEAN /\ libc \in BOOLEAN
  /\ reg \subseteq Slaves /\ blank \subseteq reg /\ acked \subseteq reg
  /\ terms \in [Slaves -> SUBSET Codes]
  /\ smain \in [Slaves -> {"register", "join"}]
  /\ slisten \in [Slaves -> {"loop", "cleanup", "gone"}]
  /\ hpc \in [Slaves -> [Cleaners -> {"none", "cancel", "scratch", "link", "exit"}]]
  /\ left \in [Slaves -> SUBSET {"scratch", "link"}]
  /\ sexit \in [Slaves -> {Up, Crash} \cup 0 .. 255]
  /\ lpc \in [Slaves -> [Linkers -> {"idle", "make", "lock", "list"}]]
  /\ listed \subseteq Slaves /\ smutex \subseteq Slaves
  /\ due \in [MThreads -> SUBSET Slaves] /\ settled \subseteq MThreads
  /\ sent \in [MThreads -> 0 .. TermRetries - 1]
  /\ racing \subseteq Slaves \X Cleaners

\* A cleanup that begins when main writes no more files has removed the
\* scratch directory when it reaches exit, whatever other cleanups run beside
\* it: two threads in cleanup_scratch do not hinder each other (cleanup.c
\* takes no lock around it).
ScratchRemoved == \A th \in settled : cpc[th] = "exit" => ~ dir

\* A thread of the master that reaches exit has itself sent TERM the full
\* number of times to every slave whose entry was complete when its loop came
\* to it, although other threads send, slaves register and signals jump
\* meanwhile: to all but the slaves that registered behind its back and those
\* whose entry a late handler calloc'ed again (term then finds no address).
TermsSent ==
  \A th \in MThreads : cpc[th] = "exit" => due[th] = {}

\* A slave that no signal hit exits, by handle_term or by main returning once
\* its listener is cancelled, only after the master sent it a TERM and began
\* to end the job.
SlaveExitsOnOrder ==
  \A r \in Slaves : sexit[r] # Up =>
    \/ hpc[r][Own] # "none"
    \/ terms[r] # {} /\ \E th \in MThreads : Ending(th)

\* A slave exits and leaves its scratch directory behind in two cases only:
\* main returned because handle_term had cancelled the listener, or a signal
\* came before there was a jump buffer.  It leaves a link behind in a third
\* case, too: the cleanup that ended it walked along the list while a handler
\* was making a link, or while the listener might still start one.
SlaveLeft ==
  \A r \in Slaves : sexit[r] \notin {Up, Crash} /\ left[r] # {} =>
    \/ sexit[r] = 0 /\ smain[r] = "join" /\ slisten[r] = "gone"
    \/ sexit[r] = 15 /\ smain[r] = "register" /\ hpc[r][Own] # "none"
    \/ /\ "scratch" \notin left[r]
       /\ \E c \in Cleaners : /\ hpc[r][c] = "exit" /\ <<r, c>> \in racing
                              /\ sexit[r] = SlaveCode(c)

\* Once the child has ended or stopped, or a signal was handled, the master's
\* process ends, though rank after rank may be silent or never have
\* registered, and whichever of its threads hold keep_alive_mutex: cleanup
\* only tries its locks and waits for no answer to TERM.  The exception is a
\* signal that hits a thread inside the C library: nobody releases its lock.
JobEnds == child \in Outcomes \/ flag ~> mexit # Up \/ libc

\* How far thread th is from exit: the TERMs its loop may still send, and the
\* steps after the loop.
StepsAfter ==
  [kill |-> 6, config |-> 5, wrapper |-> 4, machine |-> 3, rmdir |-> 2, exit |-> 1]

Remaining(th) ==
  IF cpc[th] = "term"
    THEN (NumProcs - ci[th] + 1) * TermRetries - cj[th] + 6
    ELSE StepsAfter[cpc[th]]

\* Every step of a thread in cleanup brings it nearer to exit, and no step of
\* another thread or of a slave takes it back: however many threads clean up
\* and whatever happens to the table meanwhile, only a signal in that very
\* thread starts its cleanup anew.  Hence the bound on what JobEnds waits for.
CleanupAdvances ==
  [][\A th \in MThreads : InCleanup(th) /\ InCleanup(th)' /\ ~ Signal(th) =>
       \/ Remaining(th)' < Remaining(th)
       \/ UNCHANGED <<cpc[th], ci[th], cj[th]>> /\ (Cleanup(th) => mexit' # Up)]_vars

\* The master leaves its scratch directory behind only if a signal came before
\* the listener had set its jump buffer (handle_exit_signal then exits at
\* once), it crashed, or the cleanup that ended it began while main was still
\* writing files.
ScratchLeft ==
  mexit \in 0 .. 255 /\ dir =>
    \/ ~ jmpset
    \/ \E th \in MThreads \ settled : cpc[th] = "exit" /\ mexit = code[th] % 256

\* If the master exits with 0 its child has exited by itself, though with any
\* status: the low byte of the wait status, which is all that cleanup's exit
\* reports, is not 0 for a child that was killed or stopped, nor for a job
\* that a signal or a silent rank has ended, whichever cleanup comes first.
ZeroMeansExited == mexit = 0 => child \in Outcomes /\ child[1] = "exited"

\* What the code is documented to do, and does not: cleanup_scratch "should be
\* called immediately before the entire script" exits (scratch.c), that is, a
\* slave that exits has removed its scratch directory and its links.
SlaveExitsClean == \A r \in Slaves : sexit[r] # Up => left[r] = {}
=============================================================================
