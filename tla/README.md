# A TLA+ model of parallel_wrapper

`parallel_wrapper` runs on every machine of a Condor parallel-universe job. Rank 0,
the master, collects the addresses of the other ranks, writes a machine file and an
ssh configuration, starts the user's MPI script and watches the other machines while
it runs; the other ranks, the slaves, register, answer and wait to be told to stop.
This directory models the protocol between them and the threads inside each of them,
checks it with TLC and proves its main invariants with TLAPS.

## The system

| component | state | operations | source |
|---|---|---|---|
| listener and dispatch | the command socket, one detached thread per datagram, the `select` timer, the jump buffer and `exit_flag` | receive, start `process_message`, start `keep_alive` on timeout | `udp_server.c` |
| registration | `machines[]` (one pointer per rank), `par_wrapper->mutex` | `handle_register`, the slave's register loop, main's wait loop | `udp_server.c`, `main.c`, `udp_client.c` |
| job files | machine file, ssh configuration, ssh wrapper in the scratch directory | `create_machine_file`, `create_ssh_config`, `create_ssh_wrapper`, `cleanup_scratch` | `scratch.c` |
| host analysis | `unique` flags, `shared_fs` | three loops of main | `main.c` |
| fake shared file system | soft links, list of links | `CREATE_LINK` loop, `handle_create_link` | `main.c`, `udp_server.c`, `sll.c` |
| keep-alive | `keep_alive_mutex`, `last_alive` of every entry | `keep_alive`, `handle_query`, `handle_ack` | `udp_server.c` |
| shutdown | the child, `pgid`, the scratch directory, the slaves | `cleanup`, `handle_exit_signal`, `handle_term`, `waitpid` in main | `cleanup.c`, `main.c`, `udp_server.c` |
| rendezvous | attributes of the job ad | `chirp_info` | `chirp.c`, `chirp_util.c` |
| startup | arguments, environment, port | `parse_args`, port search | `parse_args_env.c`, `network_util.c` |
| utilities | | string splitting, lists, timers, logging | `string_util.c`, `sll.c`, `timer.c`, `log.c` |

How they interact: slaves and master exchange UDP datagrams (REGISTER, ACK, QUERY,
CREATE_LINK, TERM) that may be lost, late or repeated. Inside a process main, the
listener, the handler threads and the keep-alive threads share `par_wrapper`.
`par_wrapper->mutex` protects only the assignments to an entry of the table, not the
test that it is free, nor main's reads. `keep_alive_mutex` keeps keep-alives out of the
setup. `cleanup` only tries both locks.

What makes it correct, and what is hard about it:

* registration: however many handlers race, an entry ends up whole and belongs to one
  process; a slave that was acknowledged is in the table; the two files agree; main
  survives. Hard: check-then-act on the table without the lock, main reading it meanwhile.
* keep-alive: no abort for a single lost datagram; no death unnoticed. Hard: three
  clocks (the `select` timer, the sleep of the thread, `last_alive`) and late answers.
* shutdown: every registered slave is told, the scratch directory is removed, the
  process ends and reports the outcome of the child. Hard: several threads in `cleanup` at once,
  signals handled by `siglongjmp`, a thread cancelling the one main is joining.
* fake shared file system: main starts the job only when every host has its link, and no link outlives
  the job. Hard: repeated CREATE_LINKs handled by several threads, ACKs that all look the same, a cleanup
  walking the list of links while it grows.
* rendezvous: every slave finds the master of its own run. Hard: three attributes written and
  read one by one, in an ad that still holds those of earlier runs; the address is rewritten beside the
  handlers that compare it; chirp fails with the mutex locked.
* startup and wire format: whatever options are given, the timeouts are those the failure detector needs; a
  port of the range but its last is found if there is one; a REGISTER that is accepted says what the slave meant. Hard:
  overflow and truncation, descriptor 0, delimiters and quotes inside a directory's name, messages that are cut off.

`PROJECT.json` lists the hazards at their lines.

## Modules

| module | models | properties |
|---|---|---|
| `Membership` | what registration promises: ranks are admitted once and for ever, a process joins only after its rank was admitted, only members are listed | (abstract specification) |
| `Registration` | `handle_register` thread by thread and main from the wait loop to the `shared_fs` decision | below |
| `MCRegistration`, `MCContest` | the instances TLC checks: three ranks; a contested rank and, beside it, a slave on the master's host | |
| `RegistrationProofs` | theorems | |
| `KeepAlive` | the failure detector in seconds | below |
| `KeepAliveProofs` | theorems | |
| `LinkSetup` | the `CREATE_LINK` loop of main, `handle_create_link` thread by thread, the removal of the links | below |
| `LinkSetupProofs` | theorems | |
| `Shutdown`, `MCShutdown` | everything that ends the job, in the master and in the slaves | below |
| `ShutdownProofs` | theorems | |
| `Rendezvous`, `MCRendezvous` | `chirp_info` of master and slave, the job ad over several runs, the slave's register loop and handlers | below |
| `RendezvousProofs` | theorems | |
| `Arguments` | defaults, environment, options and main's checks | below |
| `CommandSocket` | `get_ip_addr` and the port search | below |
| `StringUtil` | `strsplit`, `count_tokens`, `remove_quotes`, `trim`, `parse_integer`, `join_paths` as operators | (used by `Wire`) |
| `Wire` | a REGISTER: formatted, sent, split, parsed and entered | below |
| `MCStartup` | `Arguments`, `CommandSocket` and `Wire` side by side for TLC | |
| `StringProofs` | lemmas: sets of numbers, recursive functions, every operator of `StringUtil` | |
| `WireProofs`, `StartupProofs` | theorems: the REGISTER; settings, socket and the three together | |

### Registration

The table is a set `present` of ranks with a non-NULL pointer and a function `machines` whose
fields hold *the process the datum came from*, or `NULL` for what calloc left. Two
processes are told apart by what the code compares: `IpOf`, `PortOf`, `IwdOf`. A handler thread
has a control point: `alloc` (the entry was NULL), `lock`, `fill` with the next field,
`compare` and `port` (the entry existed). `Receive` joins the listener's `recvfrom`, the
checks of the message and the NULL test, because everything before the test is local
to the thread. `Alloc` is the calloc outside the lock, which wipes an entry another
thread may be filling: writes of that thread then go to the new one, as in the code, which
dereferences `machines[rank]` afresh for each assignment. `CompareIp` crashes on a NULL address.

Main is one action per iteration: `WaitRound`, `WriteMachineRow`, `WriteSshRow`,
`MarkUnique`, `Dedup`, `DecideSharedFs`; `OpenFails` is the `cleanup(par_wrapper, 5)` of a file that
cannot be opened. The scan in `WaitRound` is one step: entries never become NULL again, so a slower scan decides what a scan at one moment would. `Dedup` compares rank `i`, the master's 0 first, with all
later ranks in one step. A row of the machine file records whether a field
was still zero when it was printed (`torn`).

Lost, late, reordered and repeated datagrams are modelled (`Lose`, `Receive` may keep the
datagram). Failures of calloc, malloc and of getting the source address are not.

### KeepAlive

Time advances by `Tick`, one second, only when nothing is due at once. Kept are the time to
the listener's next timeout, the time the `keep_alive` thread still sleeps, the age of each
`last_alive` and of each datagram under way. `Alloc` and `Fill` are the two halves of `handle_register`: `Alloc` puts a
fresh entry, without address and with the age `Old` (`last_alive` is 0), into the table, and may do so again at any time over one that is
there, for any number of handlers of repeated REGISTERs may have found none. An entry that is not filled (`blank`) gets no
QUERY, and an ACK from it is refused or crashes the master (`RefuseAck`). Ages are capped where no comparison tells them apart. `MaxDelay` bounds
the time a datagram is under way (longer is lost). Intervals below four seconds, for which the
code sleeps a fraction of a second, are left out. Handling a datagram does not shorten
or restart the timer: Linux leaves the remaining time in the `timeval` given to `select`.

### LinkSetup

Main goes through the ranks that were unique when the phase began: `EnterRank` reads
`last_alive`, `SendLink` and `TestAck` are the retry loop, and after the last rank main releases
`keep_alive_mutex`. `seen` holds the ranks whose `last_alive` has moved since main read it. On each rank a
repeated or duplicated CREATE_LINK starts another handler: `Search` walks the list, `Create` is `symlink`, which
fails without an ACK when the link exists, `Lock` and `Add` extend the list, `Ack` answers. A link has one name, so the
list is the set `listed` of ranks that hold it. `HandleAck` waits for `par_wrapper->mutex` of the
master. `HandleTerm` is the ACK of a TERM, which looks like any other: when the master is in cleanup itself, its main thread may
take it for the answer to a CREATE_LINK, so `LinksInPlace` is about a master that is not. `TryLock`, `Unlink` and `Exit` are the part of `cleanup` that matters here; it may begin on any rank at any
moment. The table does not change in this module (`Registration` has what a late REGISTER does
to it), and the working directory that is the source of a link exists.

### Shutdown

Each of the three threads of the master that can call `cleanup` has a control point that goes
through the TERM loop, `killpg`, the removal of the three files, `rmdir` and `exit`; the first
`exit` ends the process. `Begin` is the call: it takes `keep_alive_mutex` if it can and goes on
in any case. `Signal` is `handle_exit_signal`. It prints first and may block there for ever, if the thread it interrupts holds a lock of
the C library (`HandlerBlocks`). Without a jump buffer it exits (`HandlerExits`); with one it jumps into
the listener's loop, which calls cleanup, leaving such a lock held for good (`libc`); from a thread other than the listener the jump is
undefined, so that a crash is the other outcome (`HandlerJumps`). Main writes three files and crashes in
`create_ssh_wrapper` if the directory is gone. `waitpid` is called with `WUNTRACED` and reports a stopped child, so a stop is one of the outcomes
that end the job. At most one `keep_alive` thread is in cleanup at a time. The child's children are not modelled, and a child is not followed
beyond the master's end.

Handlers go on registering slaves during a cleanup. `Alloc` puts an entry without address into the table, also over one that is complete, and
`Fill` completes and acknowledges it; `CompareBlank` is the NULL dereference of a handler that compares with it meanwhile. `SendTerm` is one turn of the inner loop:
`term` returns an error for an entry without address, which cleanup ignores, so nothing is sent. What is sent is counted thread by
thread (`sent`): a thread owes its TERMs (`due`) to each slave whose entry was complete when its cleanup began or was completed before the loop came to its rank, until all of them
are sent or the entry is calloc'ed again.

The slave's handlers, its listener and its main thread, waiting in `pthread_join`, are separate. `terms[r]` only grows: a TERM that is lost
is one that is never handled; handlers of TERMs with the same code are one. A signal to a slave (`SlaveSignal`) jumps into its listener's loop and on to a cleanup of its own
(`hpc[r][Own]`), exits at once if there is no jump buffer yet, or crashes. `StartLink`, `MakeLink`, `LockList` and `ListLink` are `handle_create_link`, whose handlers run on
beside a cleanup: they may make the link, or list it, after `RemoveLinks` has walked along the list, and wait for ever for a mutex that the cleanup took. `racing` holds
the cleanups whose walk met such a handler, or a listener that could still start one.

Two things this module shows that need no run to be seen, and that comments of the code say otherwise.
`Exit` keeps the low byte of the wait status main passes to `cleanup`, so a child that exits with `n` (status `n * 256`)
makes the master exit with 0, although `cleanup.c:27` says "Clean up and then exit with the associated return code";
`ZeroMeansExited` states what a 0 does mean. And `Fork` stores the result of `setpgid`, 0 or -1, in `pgid`, so that `Kill`, which asks for
`pgid > 0`, never signals the group `cleanup.c:54` speaks of ("If we spawned subgroups, attempt to kill them all").

### Rendezvous

The job ad is `adRand`, `adIp[n]` and `adPort[n]`: the last two attributes carry the drawn number in their names. A master publishes the
three in this order (`PublishRand`, `PublishIp`, `PublishPort`) and listens; it may fail at each. A slave's `chirp_info` is
`Lock`, `Connect`, `GetStatus`, then the loop `GetRand`, `GetIp`, `StoreIp`, `GetPort`. `StoreIp` is a step of its own because it writes `master->ip_addr`,
NULL included, without the mutex, while the handlers of ACK and TERM (`Check`, `Compare`, `Update`, `Cleanup`) read it. `Connect` that fails returns with
the mutex locked; a connection that breaks (`Break`) makes the loop spin for ever. `first` tells the first call, whose error ends
the slave, from those in the register loop, whose errors main ignores. `Compare` also has the crash of the warning of `handle_ack` about
a foreign sender, which gives an integer to `%s`. `Restart` is a new run: new processes, the old ad. There is one slave
(slaves share nothing but the ad, which they only read) and one handler for each kind of datagram. `RequestCpus`, `ClusterId` and `IWD`, which
have defaults when they are missing, are left out, and replies leave by the address the master published.

### Arguments, CommandSocket

`Arguments` takes any sequence of options; a text is the `long` that `strtol` returns for it, or `NoNumber`. `ToInt` cuts it to an `int`.
`TooClose` has both outcomes where `2 * ka_interval` overflows, which C leaves undefined. In `CommandSocket` an interface is a record of what
`get_ip_addr` asks of it (`local`: an address beginning with 192., 172., 127. or 10.). `Ports` is the range as `get_bound_dgram_socket_by_range` documents it, both
ends included; the loop, and so `TryPort`, ends before the last of them. `TryPort` is one turn of the search: the bind fails, or it
gives descriptor 0 (possible once, if standard input is closed), which the code counts as a failure without closing it, or it succeeds. `OthersBind` changes
the ports taken by others between any two turns.

### StringUtil, Wire

Strings are sequences of characters up to the NUL. `CountTokens` and `Strsplit` follow the two loops with their `last_was_delim`;
`RemoveQuotes` has one entry per turn of the loop, which skips at most one quote, and cuts off the last if any quote was skipped; `JoinPaths` gives a set
of results, since its terminator may be put behind places that were never written. `Wire` builds a directory
character by character, formats it with rank, CPUs and user, cuts the text to the size of the message, splits it with the
delimiters and any subset of `Stray` (the array of delimiters has no terminator) and does what `process_message` and `handle_register` do with the parts.
A user is a name of the password file: no delimiter, quote or blank can be in it, so only the directory can upset a message. `PlainEntered` speaks of
ranks below `num_procs` only, for the master rejects the others. Loops over strings are recursive functions, one entry per turn, so that they can be proved about.

## Runs

| run | instance | shows |
|---|---|---|
| `registration_own` | 3 ranks, 2 slaves on one host with different directories, 2 handlers, timeout 1 | `TypeOK`, `JoinedStaysListed`, `CrashOnlyInRace`, `FileHostsInSsh`, `UniqueDistinct`, `SharedFsCoversFile` |
| `registration_contest` | 2 ranks, timeout 2, two instances side by side: two processes claim rank 1; one process has rank 1, on the master's host, and one a rank out of range, fair specification | `SettledEntryWhole`, and every step is a step of `Membership`; `MasterHostUnique`, `SoleSlaveJoins` |
| `keep_alive` | 2 ranks, interval 4, timeout 9 (the least allowed), delay up to 1, entries calloc'ed at any time | `TypeOK`, `AbortAfterTwoMisses`, `DetectBound`, no deadlock |
| `shutdown_master` | 2 slaves, 2 TERMs, 1 signal, a child that exits, is killed or is stopped, the master alone, fair specification | `ScratchRemoved`, `TermsSent`, `ScratchLeft`, `ZeroMeansExited`, `CleanupAdvances`, `JobEnds` |
| `shutdown_order` | 1 slave with 2 handlers of CREATE_LINK, 1 TERM of each code, a signal to the slave | `TypeOK`, `SlaveExitsOnOrder`, `SlaveLeft` |
| `link_setup` | 2 ranks, 2 handlers on each, every set of unique ranks, fair specification | `TypeOK`, `LinksInPlace`, `LinkRemoved`, `LinkPhaseEnds` |
| `rendezvous` | 2 runs with masters at different addresses, 2 numbers to draw, fair specification | `TypeOK`, `AddressWhole`, `JoinedMaster`, `CrashOnlyInRace`, `SlaveJoins` |
| `startup` | 11 numbers around every bound, lists of up to 2 of 7 interfaces, ports 1 to 4 (of which the loop tries three), directories of up to 6 characters of 6, ranks 1, 12 and 13 of 13 processes, messages of 14 | `TypeOK`, `TimeoutsSafe`, `AddressBest`, `SocketUsable`, `SearchComplete`, `SplitRight`, `RegisterIntact`, `PlainEntered`, `PublishedReadBack` |

Two handlers are enough for the races of registration: the code has no step in which three threads meet
that two do not (a handler, the lock holder or the one that wipes, and main). A timeout of one or
two rounds lets main go on with and without all ranks. Two TERMs instead of ten exercise first,
last and next rank. One signal reaches any thread at any point, also one already in cleanup; whether it will come is chosen at the start (`signals`). `MCMasterSpec` bounds what happens at
once in `shutdown_master`: with a signal rank 2 stays silent (a loop then has a rank that is there and one that is not), and the child, if anything happens to
it, is stopped; without one both slaves register and the child ends in every way. The theorems about `Shutdown` have neither bound. In `shutdown_order` one TERM of
each of the codes 5, 10, 250 and the child's starts up to four handlers beside the slave's own cleanup; repeated TERMs of one code would be the same handler.
In `rendezvous` two runs let a slave read what an earlier master left, or half of it, and two numbers let the masters draw the same or
not; three runs, also with masters that share an address, were checked for the invariants alone. In `startup` `INT_MAX` is 700, so that the defaults (300, 30), their doubles
and numbers on both sides of the overflow are all there; messages of 14 characters (`MessageSize` 15) are too short for some directories and long enough for others
(they are cut behind the number of CPUs or in the user's name; a cut further to the left is left to the theorems); rank 13 is out of range;
`low_port` is above `high_port`, so that they are swapped, and lie three apart, so that there is a port before, after and beside the one bound as descriptor 0. In `link_setup` two handlers let one find the link of the other at every point, and two ranks give main
a rank before and after. Main stops at `decided` in Registration, where the fork begins, a rank may be cleaned up in
LinkSetup while main waits for it, and a finished process stops in Shutdown, Rendezvous and the startup: deadlock checking is off there.

Runs that TLC refutes, each with a finding in `PROJECT.json`:

| run | what is documented | what the code does |
|---|---|---|
| `registration_waited` | main waits for all ranks to register (`main.c:161`) | an entry counts as soon as it is calloc'ed: the machine file may get a row without address |
| `keep_alive_readme` | the job is aborted when several keep-alives are missed (`README:58`) | a rank registering between queries and check has `last_alive` 0 and aborts the job at once |
| `shutdown_slave` | the scratch directory is cleaned up right before the exit (`scratch.c:252`) | main returns as soon as the listener is cancelled |
| `startup_range` | the port search covers the range [start, end] (`network_util.c:339`, message at 373) | its loop is `i < end`: it fails without having tried the last port |

### Fairness

* `Registration!Fairness` (in `MCContest` for the instance without a contest): weak fairness of main and of each handler (the operating system
  runs every thread that can run) and of a slave's sending (its loop has no exit but the
  ACK, provided `chirp_info`, which it calls in each round, returns); strong fairness of receiving a datagram
  that is sent again and again, which is what a retry loop over UDP relies on.
* `LinkSetup!FairSpec`: weak fairness of main and of the handlers; strong fairness of receiving
  CREATE_LINK and ACK, which main's retry loop relies on. Nothing is assumed of keep-alives and cleanups: `LinkPhaseEnds`
  excuses a phase in which a rank is cleaned up, for the code then waits for ever.
* `Shutdown!Fairness`: weak fairness of threads in cleanup, unless a signal has left a lock of the C library held, for which
  their next `print`, `malloc` or `exit` waits for ever, and of `waitpid` once the child has
  changed state. Nothing is assumed of slaves, network, listener, keep-alive or registration, and `JobEnds` excuses the lock.
* `Rendezvous!FairSpec`: weak fairness of the master's publishing, of the slave's main thread and of its handlers; strong fairness of receiving REGISTER and
  ACK (the retry loop), of `Update`, which waits for a mutex that main takes again and again, and of a connection to chirp and
  a send that succeed, since main tries them once a round. `SlaveJoins` excuses `Stuck`: a slave that holds its own mutex or a broken connection does wait for ever.

## Proofs

`RegistrationProofs`, from `RegistrationAssumption` (at least one rank, no slave claims rank 0, no two processes
share address and port), for any number of ranks, processes and handlers:

* `TypeCorrect`: `TypeInv` adds that a busy handler serves a valid rank and that the
  wait loop stops in time.
* `EntriesWhole`: `SettledEntryWhole` is not inductive. `TableInv` adds that only
  the holder of the mutex fills, that a handler past calloc finds its entry in the table, and
  `FilledSoFar`: the fields written so far are the writer's, *or* another
  thread has wiped the entry and still waits for the lock to fill it again. The last disjunct
  is what makes the second calloc harmless once both are done.
* `CrashNeedsRace`, `JoinedListed` follow from `TableInv`.
* `FilesAgree`: `FilesInv` says that the ssh loop has passed every rank of the machine
  file below its index; entries never leave the table.
* `RefinesMembership`: every step maps to a step of `Membership` or a stutter.
* `HostsDistinct`, `SharedFsIsShared`: both are about what main concluded from fields it read earlier, so `FieldsClaimed`
  says whose fields an entry can hold: those of processes that claim its rank, which for an uncontested rank is one; rank 0 is the master's. `HostsInv` says that the
  ranks the first loop has passed are compared with all others, `IwdInv` that the ranks of the file the second has passed have the master's directory.

`KeepAliveProofs`, from `KeepAliveAssumption` (interval at least 4, timeout above twice the interval
as main enforces, delays shorter than the interval), for every such value:

* `TypeCorrect`.
* `TwoMisses`: `ClocksAgree` ties the sleep of the thread to the listener's timer;
  `QuietInSetup` says that no QUERY is under way while main holds the mutex; `AgeBound` bounds the silence
  of a rank by the QUERYs it missed and the timer. It speaks of the ranks in `answered`, which have answered a QUERY since their entry was last
  calloc'ed: a handler that callocs it again sets `last_alive` back to 0, and the code may then abort at once.
* `DetectsDeath`: `DeadSilence` relates the time since a death to the age of `last_alive` and
  of datagrams still under way; `CheckInTime` says when the next check must come.

`LinkSetupProofs`, for any number of ranks and handlers:

* `TypeCorrect`.
* `LinksThere`, `LinksGone`: no ACK names the answer it is, so `LinkInv` says why each one main can
  take is right: while main holds `keep_alive_mutex` no QUERY is under way (`NoQueries`), an ACK or a handler about to send one
  then means that the link is listed (`AckListed`, `AnswerListed`), and a listed link exists until
  a cleanup removes it (`ListedExists`). The ACK of a TERM is excluded by the condition that the master is up: only a master in cleanup sends TERM. `QuietStays` says that no handler is about to create a link again.

`ShutdownProofs`, from `ShutdownAssumption` (a child's exit status or signal fits a byte, and no signal is 0):

* `TypeCorrect`: `TypeInv` adds that a thread in cleanup carries a code cleanup can be called with, which
  bounds what slaves receive.
* `ScratchIsRemoved`, `ScratchIsLeft`: `ScratchInv` follows a thread through cleanup: once main writes no more files, what it has passed stays
  gone, whatever other threads do; `EndInv` says that the process ends in such a thread or before the jump buffer is set.
* `TermsAreSent`: `TermInv` says, thread by thread, that the slaves due are those its loop has still to come to and that the one of the current turn, if
  it is due, has an address and has been sent as many TERMs as the inner index counts: an entry calloc'ed again is no longer due.
* `ZeroIsExited`: `ZeroInv` says that a thread in cleanup with a code of low byte 0 means a child that has exited.
* `SlavesObey`, `SlavesLeave`: `OrderInv` says that a TERM under way, a handler at work or a cancelled listener means a master in
    cleanup that has sent one, `LeftInv` what a slave no longer has at each point of its cleanup: the link is gone, or not made yet, unless the walk
  met a handler between its search and the list, or a listener that could start one (`racing`).
* `CleanupIsBounded`: `CleanupAdvances` for any number of slaves, TERMs, signals and threads: every step of a thread in cleanup lowers `Remaining`, the number of steps to its exit, and
  no other step raises it. With the fairness above this is why `JobEnds` does not depend on the bounds of its run; that last step, a liveness argument, is not proved.
* `MasterAlone`: the specification without slaves' steps, which one run checks, implies the whole one, so the
  theorems hold of it too.

`RendezvousProofs`, from `RendezvousAssumption` (every run has an address; a missing attribute is no value), for any number of runs, numbers and
addresses, masters at the same address included:

* `TypeCorrect`, `AddressIsOneMasters`, `JoinsItsMaster`: none of the three is inductive. `HeldInv` says what main has read at each point. `AdsInv` is about the
  ad: `RandInt` is the last number drawn (`MasterInv`), the address under a number is that of masters that drew it (`AdInv`), and
  without a collision an attribute that is there never changes (`FreshInv`), which makes reading one by one harmless: what main has read is
  still in the ad (`ViewInv`). `OldInv` says that `RandInt` changes once in a run; so once a REGISTER has reached the master of this run main can
  read no other address (`RegInv`). `KnownInv` says that ACKs come from a master that knows the slave.
* `CrashesInRace`: `AddrInv` says that a slave known to the master of this run can only read that master's address, or NULL, unless numbers
  collide; `AckInv` that ACKs come from there; `PortInv` that handlers only run once the port was read, and `RaceInv` that a handler
  compares with NULL only if the test and the use straddle the store. The proof attempt corrected the property: without the case of two
  masters that drew the same number it is false. A slave registered at the address two masters had can then read the address of an older one, and the
  ACK it waits for reaches the warning that crashes. TLC shows this with three runs, which with liveness do not fit
  the run; the run has two, and the theorem holds for any number.

`StringProofs`, lemmas for strings of any length over any alphabet. No prover here can instantiate the induction theorems of the library, so
the arguments are by extremes: `MinOfSet` shows that a set of numbers in `1 .. n` has a least element (otherwise the numbers below it would be
closed under adding 1, and a finite set would be mapped one to one into a proper part of itself), and `BoundedInduction` and `StrongInduction`, for sets
instead of predicates, take the least exception. With them `RunExists` shows that a function defined turn by turn exists and satisfies its
equation. On this rest

* `SplitExists`, `CountExists`: the turns of `strsplit` and `count_tokens`;
* `DecimalRight`, `ParseDecimal`: `%d` gives digits, and `parse_integer` reads back the number they were printed from;
* `RemoveQuotesRight`, `RemoveQuotesPlain`, `TrimRight`, `CleanPlain`: quotes around a plain string go, a plain string stays;
* `JoinPathsRight`: the one result of `join_paths`.

`WireProofs`, from `WireAssumption` (a user's name is not empty, begins with no slash and has no delimiter, quote or blank; ranks are
not negative; a message has room for its terminator), for any alphabet, any lengths, any number of processes and any stray delimiters:

* `SplitIsRight`: `StrsplitRight` holds of every string and every set of delimiters. Its invariant over the turns (`SplitTurnKeeps`) relates the tokens stored so far to
  the number of pieces that begin up to the place reached (`UpTo`) and says where the piece being read began.
* `RegisterUnderstood`: `WireInv` says what each stage has kept of the one before (`Sent`, `Received`, `Entered`); `MessageLayout` where the
  fields lie in the message, cut off or not. `RankToken` is the reason why a message cut off by `snprintf` cannot claim
  another rank: a message that ends within the rank or at its delimiter does not have five tokens. `FieldTokens` counts the pieces of
  the whole text: five tokens leave no room for a delimiter inside the directory, but for some at its end, which `strsplit` merges.
* `PlainIsEntered`: by the same layout, a directory without delimiters gives five tokens, and none of the checks rejects them.
* `WireTypeCorrect`: no message exceeds its buffer, no rank entered exceeds the table.
* `PathsAreJoined`, `PublishedIsReadBack`: about every path (for a name without a leading slash, the only ones the program joins); the second shows which positions the turns of `remove_quotes` copy (`TurnsOfQuoted`).

`StartupProofs`, from `ArgumentsAssumption` (the defaults themselves satisfy the check), `CommandSocketAssumption` (the bounds of the range are
numbers, an interface has its six flags) and `WireAssumption`:

* `ArgumentsSafe`: `ArgTypeOK` and `TimeoutsSafe`; the invariant adds that both times are never below their minimum.
* `AddressIsBest`: `GetIpAddrBest` is about the operator, for any list of interfaces.
* `TypeCorrect`, `SocketIsUsable`, `SearchIsComplete`, for any range, its bounds in either order: `SearchInv` says that every port below `i` was refused
  or is bound as descriptor 0, which happens at most once because `zero` then no longer holds.
* `StartupTypeCorrect`, `StartupSafe`: `PartsOfStartup` shows that the specification the run checks implies those of its three parts, so that the type
  invariant and all other invariants of that run are theorems of it.

The inductive invariants were first checked with TLC. Every invariant and action property a run checks, and the refinement of `Membership`, is a theorem; only
model-checked are the liveness properties (`SlaveJoins` of `Rendezvous` and, as `SoleSlaveJoins`, of `Registration`, `JobEnds`, `LinkPhaseEnds`), as fairness and `ENABLED` are beyond the
prover. `MasterHostUnique` is an instance of the theorem `HostsDistinct`. `JoinedPath` is proved and in no run.

## Plan

`Job`: registration, links, keep-alive and shutdown composed for one slave; the abstract
specification of a job (registered, running, ended) and its refinement.

## Not modelled

* the timer list (`timer.c`): no file calls it. (Its `remove_timer` never sets the predecessor it uses.)
* logging, the search for the executable (`executable.c`), the text of the machine file and of the ssh configuration, `PATH`: no state of the protocol.
* `handle_send_file`, a stub; messages that no wrapper sends.
* failures of malloc and of system calls other than those named; hosts with several addresses, whose replies may
  leave by another one than the master published.
* builds where `char` is unsigned, on which `parse_args` would not see the -1 of `getopt_long`; the help text names `_CONDOR_NUMPROCS`, while the code
  reads `_CONDOR_NPROCS`, which Condor sets.
* `num_procs = 0`, which main accepts.
* files that the child puts into the scratch directory (its path is in the child's environment, `main.c:397`): `rmdir` then fails for every cleanup.
* systems on which `select` leaves its `timeval` alone: the code is for Linux (`prctl`), which stores the remaining time in it.
