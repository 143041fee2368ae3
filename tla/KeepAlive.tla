------------------------------ MODULE KeepAlive ------------------------------
(***************************************************************************)
(* The master's failure detector.  Every KaInterval seconds the select of  *)
(* the listener times out and starts a keep_alive thread, which takes      *)
(* keep_alive_mutex or gives up, sends QUERY to every registered rank,     *)
(* sleeps a quarter of the interval and aborts the job if some rank's      *)
(* last_alive is more than Timeout seconds old.                            *)
(*                                                                         *)
(* Time is counted in whole seconds, as diff_time.tv_sec does.  There is   *)
(* no absolute clock: the state holds how long ago things happened, which  *)
(* is all the code looks at.  Computation takes no time.                   *)
(***************************************************************************)
EXTENDS Integers

CONSTANTS
  NumProcs,        \* par_wrapper->num_procs
  KaInterval,      \* par_wrapper->ka_interval
  Timeout,         \* par_wrapper->timeout
  DisableTimeout,  \* the --no-timeout flag
  MaxDelay         \* bound: seconds a datagram may stay under way

Ranks == 0 .. NumProcs - 1

\* main raises timeout above twice the interval.  Intervals shorter than
\* four seconds sleep a fraction of a second and are left out.
ASSUME KeepAliveAssumption ==
  /\ NumProcs \in Nat \ {0}
  /\ KaInterval \in Nat /\ KaInterval >= 4
  /\ Timeout \in Nat /\ Timeout > 2 * KaInterval
  /\ DisableTimeout \in BOOLEAN
  /\ MaxDelay \in Nat /\ MaxDelay < KaInterval

Quarter == KaInterval \div 4

\* Ages stop counting where no comparison tells them apart any more.
Old       == Timeout + 1
DeadCap   == MaxDelay + Timeout + KaInterval + 1
SetupCap  == Quarter + KaInterval + 1
Several   == 2
NoMessage == -1
Nobody    == -1
Crashed   == -2

VARIABLES
  timer,       \* seconds left of the listener's select
  kaMutex,     \* holder of keep_alive_mutex: "main", "thread" or "free"
  wake,        \* seconds the keep_alive thread still sleeps
  present,     \* ranks with an entry in the machines table
  blank,       \* those whose entry has no address and port yet
  age,         \* seconds since machines[r]->last_alive
  queries,     \* age of the QUERY under way to r, or NoMessage
  acks,        \* age of the ACK under way from r, or NoMessage
  alive,       \* ranks whose wrapper runs
  aborted,     \* the rank for which keep_alive called cleanup, Nobody, or
               \* Crashed after a fault of the master
  unanswered,  \* history: QUERYs sent to r since its last ACK arrived
  answered,    \* history: ranks that answered a QUERY since their entry
               \* was last calloc'ed
  deadFor,     \* history: seconds r has been dead and in the table
  setupFor     \* history: seconds since main released keep_alive_mutex

tableVars == <<present, blank>>
netVars  == <<queries, acks>>
histVars == <<unanswered, answered, deadFor, setupFor>>
vars     == <<timer, kaMutex, wake, tableVars, age, netVars, alive, aborted,
              histVars>>

\* The entry of the master itself is allocated in main, with last_alive 0
\* like all others: 1970 is older than any timeout.
Init ==
  /\ timer = KaInterval
  /\ kaMutex = "main"
  /\ wake = 0
  /\ present = {0}
  /\ blank = {}
  /\ age = [r \in Ranks |-> Old]
  /\ queries = [r \in Ranks |-> NoMessage]
  /\ acks = [r \in Ranks |-> NoMessage]
  /\ alive = Ranks
  /\ aborted = Nobody
  /\ unanswered = [r \in Ranks |-> 0]
  /\ answered = {}
  /\ deadFor = [r \in Ranks |-> 0]
  /\ setupFor = 0

Running == aborted = Nobody

-----------------------------------------------------------------------------
\* handle_register: a handler that found the entry of r NULL, before any
\* lock was taken, puts a calloc'ed one there, with last_alive 0 and no
\* address.  Every copy of the REGISTER has a handler of its own, and any
\* number of them may have found it NULL: a late one does so again over the
\* entry another has put there and filled.
Alloc(r) ==
  /\ Running
  /\ r # 0
  /\ present' = present \cup {r}
  /\ blank' = blank \cup {r}
  /\ age' = [age EXCEPT ![r] = Old]
  /\ answered' = answered \ {r}
  /\ UNCHANGED <<timer, kaMutex, wake, netVars, alive, aborted, unanswered,
                 deadFor, setupFor>>

\* A handler fills in the entry that is there now; it has no effect that is
\* seen here if another has done so.
Fill(r) ==
  /\ Running
  /\ r \in blank
  /\ blank' = blank \ {r}
  /\ UNCHANGED <<timer, kaMutex, wake, present, age, netVars, alive, aborted,
                 histVars>>

\* An ACK for CREATE_LINK, which main solicits while it holds the mutex.
LinkAck(r) ==
  /\ Running
  /\ kaMutex = "main"
  /\ r \in (alive \cap present) \ blank
  /\ age' = [age EXCEPT ![r] = 0]
  /\ UNCHANGED <<timer, kaMutex, wake, tableVars, netVars, alive, aborted, histVars>>

\* main has finished the setup and lets keep-alives begin.
UnlockKeepAlive ==
  /\ Running
  /\ kaMutex = "main"
  /\ kaMutex' = "free"
  /\ UNCHANGED <<timer, wake, tableVars, age, netVars, alive, aborted, histVars>>

AtMost(n, cap) == IF n > cap THEN cap ELSE n

\* select times out: the timer is set again and, unless disabled, a
\* keep_alive thread started, which sends its QUERYs if the mutex is free.
\* query() fails for an entry without an address, and for port 0.
ListenerTimeout ==
  /\ Running
  /\ timer = 0
  /\ timer' = KaInterval
  /\ IF ~ DisableTimeout /\ kaMutex = "free"
       THEN /\ kaMutex' = "thread"
            /\ wake' = Quarter
            /\ queries' = [r \in Ranks |-> IF r \in present \ blank
                                            THEN 0 ELSE queries[r]]
            /\ unanswered' = [r \in Ranks |-> IF r \in present \ blank
                                 THEN AtMost(unanswered[r] + 1, Several)
                                 ELSE unanswered[r]]
       ELSE UNCHANGED <<kaMutex, wake, queries, unanswered>>
  /\ UNCHANGED <<tableVars, age, acks, alive, aborted, answered, deadFor, setupFor>>

\* Mutant: one interval of silence is enough.
CheckInterval ==
  LET late == {r \in present : age[r] > KaInterval} IN
  /\ Running
  /\ kaMutex = "thread" /\ wake = 0
  /\ kaMutex' = "free"
  /\ \/ late = {} /\ UNCHANGED aborted
     \/ \E r \in late : (\A s \in late : r <= s) /\ aborted' = r
  /\ UNCHANGED <<timer, wake, tableVars, age, netVars, alive, histVars>>

\* Mutant: the loop stops before the last rank.
CheckShort ==
  LET late == {r \in present : r + 1 < NumProcs /\ age[r] > Timeout} IN
  /\ Running
  /\ kaMutex = "thread" /\ wake = 0
  /\ kaMutex' = "free"
  /\ \/ late = {} /\ UNCHANGED aborted
     \/ \E r \in late : (\A s \in late : r <= s) /\ aborted' = r
  /\ UNCHANGED <<timer, wake, tableVars, age, netVars, alive, histVars>>

\* The thread wakes up and looks for the first rank that exceeded the
\* timeout; it unlocks in either case.
Check ==
  LET late == {r \in present : age[r] > Timeout} IN
  /\ Running
  /\ kaMutex = "thread" /\ wake = 0
  /\ kaMutex' = "free"
  /\ \/ late = {} /\ UNCHANGED aborted
     \/ \E r \in late : (\A s \in late : r <= s) /\ aborted' = r
  /\ UNCHANGED <<timer, wake, tableVars, age, netVars, alive, histVars>>

-----------------------------------------------------------------------------
\* handle_query of rank r: answer with an ACK.
HandleQuery(r) ==
  /\ Running
  /\ queries[r] # NoMessage /\ r \in alive
  /\ queries' = [queries EXCEPT ![r] = NoMessage]
  /\ acks' = [acks EXCEPT ![r] = 0]
  /\ UNCHANGED <<timer, kaMutex, wake, tableVars, age, alive, aborted, histVars>>

\* handle_ack of the master: last_alive is now.
HandleAck(r) ==
  /\ Running
  /\ acks[r] # NoMessage /\ r \in present \ blank
  /\ acks' = [acks EXCEPT ![r] = NoMessage]
  /\ age' = [age EXCEPT ![r] = 0]
  /\ unanswered' = [unanswered EXCEPT ![r] = 0]
  /\ answered' = answered \cup {r}
  /\ UNCHANGED <<timer, kaMutex, wake, tableVars, queries, alive, aborted,
                 deadFor, setupFor>>

\* handle_ack of the master on an entry that is not filled: the strcmp with
\* a NULL address is a fault, a port that is still 0 makes it refuse the ACK.
RefuseAck(r) ==
  /\ Running
  /\ acks[r] # NoMessage /\ r \in blank
  /\ acks' = [acks EXCEPT ![r] = NoMessage]
  /\ aborted' \in {Nobody, Crashed}
  /\ UNCHANGED <<timer, kaMutex, wake, tableVars, age, queries, alive, histVars>>

Lose(r) ==
  /\ Running
  /\ \/ /\ queries[r] # NoMessage
        /\ queries' = [queries EXCEPT ![r] = NoMessage]
        /\ UNCHANGED acks
     \/ /\ acks[r] # NoMessage
        /\ acks' = [acks EXCEPT ![r] = NoMessage]
        /\ UNCHANGED queries
  /\ UNCHANGED <<timer, kaMutex, wake, tableVars, age, alive, aborted, histVars>>

\* The wrapper of a slave, or its host, dies.
Die(r) ==
  /\ Running
  /\ r \in alive \ {0}
  /\ alive' = alive \ {r}
  /\ UNCHANGED <<timer, kaMutex, wake, tableVars, age, netVars, aborted, histVars>>

Older(m) == [r \in Ranks |-> IF m[r] = NoMessage THEN NoMessage ELSE m[r] + 1]

\* Mutant: ages grow for ever.
TickUncapped ==
  /\ Running
  /\ timer > 0 /\ (kaMutex = "thread" => wake > 0)
  /\ \A r \in Ranks : queries[r] < MaxDelay /\ acks[r] < MaxDelay
  /\ timer' = timer - 1
  /\ wake' = IF wake > 0 THEN wake - 1 ELSE 0
  /\ age' = [r \in Ranks |-> age[r] + 1]
  /\ queries' = Older(queries)
  /\ acks' = Older(acks)
  /\ UNCHANGED <<kaMutex, tableVars, alive, aborted, histVars>>

\* A second passes, once nothing is left to do at once: a select that has
\* timed out, a sleep that is over, a datagram at the bound of its delay.
Tick ==
  /\ Running
  /\ timer > 0 /\ (kaMutex = "thread" => wake > 0)
  /\ \A r \in Ranks : queries[r] < MaxDelay /\ acks[r] < MaxDelay
  /\ timer' = timer - 1
  /\ wake' = IF wake > 0 THEN wake - 1 ELSE 0
  /\ age' = [r \in Ranks |-> AtMost(age[r] + 1, Old)]
  /\ queries' = Older(queries)
  /\ acks' = Older(acks)
  /\ deadFor' = [r \in Ranks |-> IF r \in present \ alive
                                 THEN AtMost(deadFor[r] + 1, DeadCap) ELSE 0]
  /\ setupFor' = IF kaMutex = "main" THEN 0 ELSE AtMost(setupFor + 1, SetupCap)
  /\ UNCHANGED <<kaMutex, tableVars, alive, aborted, unanswered, answered>>

\* After the abort the master is in cleanup.
Aborting ==
  /\ ~ Running
  /\ UNCHANGED vars

Next ==
  \/ UnlockKeepAlive \/ ListenerTimeout \/ Check \/ Tick \/ Aborting
  \/ \E r \in Ranks : \/ Alloc(r) \/ Fill(r) \/ LinkAck(r)
                      \/ HandleQuery(r) \/ HandleAck(r) \/ RefuseAck(r)
                      \/ Lose(r) \/ Die(r)

Spec == Init /\ [][Next]_vars

-----------------------------------------------------------------------------
(***************************************************************************)
(* Properties.                                                             *)
(***************************************************************************)

\* Every variable has its type; the counters stay within their caps.
TypeOK ==
  /\ timer \in 0 .. KaInterval
  /\ kaMutex \in {"main", "thread", "free"}
  /\ wake \in 0 .. Quarter
  /\ present \in SUBSET Ranks
  /\ blank \in SUBSET present
  /\ age \in [Ranks -> 0 .. Old]
  /\ queries \in [Ranks -> NoMessage .. MaxDelay]
  /\ acks \in [Ranks -> NoMessage .. MaxDelay]
  /\ alive \in SUBSET Ranks
  /\ aborted \in Ranks \cup {Nobody, Crashed}
  /\ unanswered \in [Ranks -> 0 .. Several]
  /\ answered \in SUBSET Ranks
  /\ deadFor \in [Ranks -> 0 .. DeadCap]
  /\ setupFor \in 0 .. SetupCap

\* keep_alive never aborts the job for a rank that has answered a QUERY
\* since its entry was calloc'ed and has now missed only one: whatever the
\* delays, the timeout main enforces leaves room for a lost keep-alive.  A
\* second handler that found the entry NULL callocs it again and sets
\* last_alive back to 0, whatever the rank has answered; the promise then
\* holds again from the next QUERY it answers.
AbortAfterTwoMisses ==
  \A r \in answered : aborted = r => unanswered[r] >= Several

\* The death of a registered rank is noticed in time: at the latest one
\* interval after its silence exceeds the timeout, or after the first check
\* that follows the setup.
DetectBound ==
  \A r \in present \ alive : Running /\ ~ DisableTimeout =>
    \/ deadFor[r] <= MaxDelay + Timeout + KaInterval
    \/ setupFor <= Quarter + KaInterval

\* The README's promise about "the rest of the hosts": the job is aborted
\* when several keep-alive signals are missed.
SeveralMissed ==
  \A r \in Ranks \ {0} : aborted = r => unanswered[r] >= Several
=============================================================================
