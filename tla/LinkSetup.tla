----------------------------- MODULE LinkSetup -----------------------------
(***************************************************************************)
(* The fake shared file system.  When the working directories differ the   *)
(* master has every unique host create a soft link of one name: its main   *)
(* thread sends CREATE_LINK to one rank after the other (itself first, by  *)
(* its own command port) and repeats it until an ACK of that rank moves    *)
(* last_alive.  Any ACK of the rank does; that no keep-alive is answered   *)
(* meanwhile is up to keep_alive_mutex, which main holds, but a TERM of    *)
(* another thread of the master, in cleanup, may be.  At a rank the        *)
(* repeated CREATE_LINKs run in threads of their own, beside a cleanup     *)
(* that removes the links listed so far.                                   *)
(***************************************************************************)
EXTENDS Integers

CONSTANTS
  NumProcs,  \* par_wrapper->num_procs
  Handlers   \* bound: process_message threads of a rank at the same time

ASSUME LinkSetupAssumption ==
  /\ NumProcs \in Nat \ {0}
  /\ {"cleanup", "free"} \cap Handlers = {}

Ranks == 0 .. NumProcs - 1

VARIABLES
  unique,    \* the registered ranks that are the first on their hosts (what a
             \* late REGISTER does to the table is in Registration)
  mpc, i,    \* main: "enter" or in the loop ("send", "test") for rank i,
             \* or "done"
  kaMutex,   \* main holds keep_alive_mutex
  seen,      \* ranks whose last_alive differs from the old_time main read
  links,     \* ranks to which a CREATE_LINK is under way
  queries,   \* ranks to which a QUERY is under way
  acks,      \* ranks from which an ACK is under way
  hpc,       \* hpc[r][h]: control point of handle_create_link at rank r
  linked,    \* ranks on whose host the soft link exists
  listed,    \* ranks that have the link in par_wrapper->symlinks
  mutex,     \* holders of par_wrapper->mutex: a handler, "cleanup" or "free"
  status,    \* of a rank: "up", "cleanup", "unlinked" or "gone"
  quiet      \* history: ranks whose cleanup began after their link was
             \* listed, with no handler about to create it once more

mainVars == <<unique, mpc, i, kaMutex>>
netVars  == <<links, queries, acks>>
fileVars == <<linked, listed>>
endVars  == <<status, quiet>>
rankVars == <<hpc, fileVars, mutex, endVars>>
vars     == <<mainVars, seen, netVars, rankVars>>

\* The registered working directories differ; no link exists yet.
Init ==
  /\ unique \in {U \in SUBSET Ranks : 0 \in U}
  /\ mpc = "enter" /\ i = 0
  /\ kaMutex = TRUE
  /\ seen = {}
  /\ links = {} /\ queries = {} /\ acks = {}
  /\ hpc = [r \in Ranks |-> [h \in Handlers |-> "none"]]
  /\ linked = {} /\ listed = {}
  /\ mutex = [r \in Ranks |-> "free"]
  /\ status = [r \in Ranks |-> "up"]
  /\ quiet = {}

MasterUp == status[0] # "gone"

-----------------------------------------------------------------------------
(***************************************************************************)
(* The master's main thread.                                               *)
(***************************************************************************)
NextRank ==
  IF i + 1 \in Ranks
    THEN i' = i + 1 /\ mpc' = "enter" /\ UNCHANGED kaMutex
    ELSE mpc' = "done" /\ kaMutex' = FALSE /\ UNCHANGED i

\* Mutant: no rank is skipped.
EnterRankAll ==
  /\ MasterUp /\ mpc = "enter"
  /\ mpc' = "send" /\ seen' = seen \ {i}
  /\ UNCHANGED <<unique, i, kaMutex, netVars, rankVars>>

\* A rank that is not registered or not unique is skipped; for another one
\* old_time is read.
EnterRank ==
  /\ MasterUp /\ mpc = "enter"
  /\ IF i \in unique
       THEN mpc' = "send" /\ seen' = seen \ {i} /\ UNCHANGED <<i, kaMutex>>
       ELSE NextRank /\ UNCHANGED seen
  /\ UNCHANGED <<unique, netVars, rankVars>>

\* create_link, and a tenth of a second of sleep.  (If the call fails the
\* loop begins again as if nothing had happened.)
SendLink ==
  /\ MasterUp /\ mpc = "send"
  /\ links' = links \cup {i}
  /\ mpc' = "test"
  /\ UNCHANGED <<unique, i, kaMutex, seen, queries, acks, rankVars>>

\* Has last_alive changed?  After the last rank main unlocks keep_alive_mutex.
TestAck ==
  /\ MasterUp /\ mpc = "test"
  /\ IF i \in seen THEN NextRank ELSE mpc' = "send" /\ UNCHANGED <<i, kaMutex>>
  /\ UNCHANGED <<unique, seen, netVars, rankVars>>

Main == EnterRank \/ SendLink \/ TestAck

\* handle_ack of the master, which locks the mutex for the assignment.
HandleAck(r) ==
  /\ MasterUp /\ mutex[0] = "free"
  /\ r \in acks
  /\ acks' = acks \ {r}
  /\ seen' = seen \cup {r}
  /\ UNCHANGED <<mainVars, links, queries, rankVars>>

\* Mutant: keep_alive does not ask for the mutex.
QueryUnlocked(r) ==
  /\ MasterUp
  /\ queries' = queries \cup {r}
  /\ UNCHANGED <<mainVars, seen, links, acks, rankVars>>

\* A keep_alive thread, which needs the mutex, sends a QUERY.
Query(r) ==
  /\ MasterUp
  /\ ~ kaMutex
  /\ queries' = queries \cup {r}
  /\ UNCHANGED <<mainVars, seen, links, acks, rankVars>>

-----------------------------------------------------------------------------
(***************************************************************************)
(* A rank, and the network.                                                *)
(***************************************************************************)
Serves(r) == status[r] # "gone"

HandleQuery(r) ==
  /\ Serves(r)
  /\ r \in queries
  /\ queries' = queries \ {r}
  /\ acks' = acks \cup {r}
  /\ UNCHANGED <<mainVars, seen, links, rankVars>>

At(r, h, label) == hpc' = [hpc EXCEPT ![r][h] = label]

\* Mutants: a link that exists is not acknowledged again; the list is not
\* searched.
SearchSilent(r, h) ==
  /\ Serves(r)
  /\ r \in links /\ hpc[r][h] = "none"
  /\ links' \in {links, links \ {r}}
  /\ At(r, h, IF r \in listed THEN "none" ELSE "create")
  /\ UNCHANGED <<mainVars, seen, queries, acks, fileVars, mutex, endVars>>

SearchNothing(r, h) ==
  /\ Serves(r)
  /\ r \in links /\ hpc[r][h] = "none"
  /\ links' \in {links, links \ {r}}
  /\ At(r, h, "create")
  /\ UNCHANGED <<mainVars, seen, queries, acks, fileVars, mutex, endVars>>

\* handle_create_link looks for the link in the list of those created; the
\* datagram may have been duplicated.
Search(r, h) ==
  /\ Serves(r)
  /\ r \in links /\ hpc[r][h] = "none"
  /\ links' \in {links, links \ {r}}
  /\ At(r, h, IF r \in listed THEN "ack" ELSE "create")
  /\ UNCHANGED <<mainVars, seen, queries, acks, fileVars, mutex, endVars>>

\* symlink, which fails, without an ACK, if another thread was faster.
Create(r, h) ==
  /\ Serves(r)
  /\ hpc[r][h] = "create"
  /\ linked' = linked \cup {r}
  /\ At(r, h, IF r \in linked THEN "none" ELSE "lock")
  /\ UNCHANGED <<mainVars, seen, netVars, listed, mutex, endVars>>

\* The list is locked, ...
Lock(r, h) ==
  /\ Serves(r)
  /\ hpc[r][h] = "lock"
  /\ mutex[r] = "free"
  /\ mutex' = [mutex EXCEPT ![r] = h]
  /\ At(r, h, "add")
  /\ UNCHANGED <<mainVars, seen, netVars, fileVars, endVars>>

\* ... sll_add_element puts the link at its head, and it is unlocked.
Add(r, h) ==
  /\ Serves(r)
  /\ hpc[r][h] = "add"
  /\ listed' = listed \cup {r}
  /\ mutex' = [mutex EXCEPT ![r] = "free"]
  /\ At(r, h, "ack")
  /\ UNCHANGED <<mainVars, seen, netVars, linked, endVars>>

Ack(r, h) ==
  /\ Serves(r)
  /\ hpc[r][h] = "ack"
  /\ acks' = acks \cup {r}
  /\ At(r, h, "none")
  /\ UNCHANGED <<mainVars, seen, links, queries, fileVars, mutex, endVars>>

Handler(r, h) == Create(r, h) \/ Lock(r, h) \/ Add(r, h) \/ Ack(r, h)

\* handle_term acknowledges the TERM of a master that is in cleanup, or was,
\* before it cleans up itself.
HandleTerm(r) ==
  /\ status[r] = "up"
  /\ r # 0 /\ status[0] # "up"
  /\ acks' = acks \cup {r}
  /\ UNCHANGED <<mainVars, seen, links, queries, rankVars>>

\* A signal or TERM: cleanup tries to take the mutex, ...
TryLock(r) ==
  /\ status[r] = "up"
  /\ status' = [status EXCEPT ![r] = "cleanup"]
  /\ mutex' = [mutex EXCEPT ![r] = IF @ = "free" THEN "cleanup" ELSE @]
  /\ quiet' = IF r \in listed /\ \A h \in Handlers : hpc[r][h] \in {"none", "ack"}
                THEN quiet \cup {r} ELSE quiet
  /\ UNCHANGED <<mainVars, seen, netVars, hpc, fileVars>>

\* ... removes the links of the list ...
Unlink(r) ==
  /\ status[r] = "cleanup"
  /\ linked' = linked \ ({r} \cap listed)
  /\ status' = [status EXCEPT ![r] = "unlinked"]
  /\ UNCHANGED <<mainVars, seen, netVars, hpc, listed, mutex, quiet>>

\* ... and exits.
Exit(r) ==
  /\ status[r] = "unlinked"
  /\ status' = [status EXCEPT ![r] = "gone"]
  /\ UNCHANGED <<mainVars, seen, netVars, hpc, fileVars, mutex, quiet>>

Lose(r) ==
  /\ \/ r \in links   /\ links' = links \ {r}     /\ UNCHANGED <<queries, acks>>
     \/ r \in queries /\ queries' = queries \ {r} /\ UNCHANGED <<links, acks>>
     \/ r \in acks    /\ acks' = acks \ {r}       /\ UNCHANGED <<links, queries>>
  /\ UNCHANGED <<mainVars, seen, rankVars>>

-----------------------------------------------------------------------------
Next ==
  \/ Main
  \/ \E r \in Ranks : \/ HandleAck(r) \/ Query(r) \/ HandleQuery(r)
                      \/ HandleTerm(r) \/ TryLock(r) \/ Unlink(r) \/ Exit(r) \/ Lose(r)
                      \/ \E h \in Handlers : Search(r, h) \/ Handler(r, h)

Spec == Init /\ [][Next]_vars

\* Threads run; a datagram that is sent again and again arrives some day.
FairSpec ==
  /\ Spec
  /\ WF_vars(Main)
  /\ \A r \in Ranks : /\ SF_vars(HandleAck(r))
                      /\ SF_vars(\E h \in Handlers : Search(r, h))
                      /\ \A h \in Handlers : WF_vars(Handler(r, h))

-----------------------------------------------------------------------------
(***************************************************************************)
(* Properties.                                                             *)
(***************************************************************************)

\* Every variable has its type.
TypeOK ==
  /\ unique \in SUBSET Ranks
  /\ mpc \in {"enter", "send", "test", "done"} /\ i \in Ranks
  /\ kaMutex \in BOOLEAN
  /\ seen \in SUBSET Ranks
  /\ links \in SUBSET unique /\ queries \in SUBSET Ranks /\ acks \in SUBSET Ranks
  /\ hpc \in [Ranks -> [Handlers -> {"none", "create", "lock", "add", "ack"}]]
  /\ linked \in SUBSET unique /\ listed \in SUBSET unique
  /\ mutex \in [Ranks -> Handlers \cup {"cleanup", "free"}]
  /\ status \in [Ranks -> {"up", "cleanup", "unlinked", "gone"}]
  /\ quiet \in SUBSET Ranks

\* When main goes on to start the job and no other thread of the master is in
\* cleanup (in which case an ACK may have been that of a TERM), every unique
\* host that is not gone has its link, and the link is listed for removal:
\* whatever was lost or repeated, the ACK main took for the answer was one.
LinksInPlace ==
  mpc = "done" /\ status[0] = "up" =>
    \A r \in unique : status[r] \in {"up", "cleanup"} => r \in linked \cap listed

\* A rank leaves no link behind if its cleanup began after the link was
\* listed, although CREATE_LINKs repeated by main or by the network may be
\* handled during the cleanup, after the link has been removed.
LinkRemoved == \A r \in quiet : status[r] = "gone" => r \notin linked

\* The phase ends, unless a rank is cleaned up before it has answered; then
\* main would wait for it for ever.
LinkPhaseEnds == <>(mpc = "done" \/ \E r \in Ranks : status[r] # "up")
=============================================================================
