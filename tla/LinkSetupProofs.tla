-------------------------- MODULE LinkSetupProofs --------------------------
(***************************************************************************)
(* Theorems about LinkSetup, for any number of ranks and handler threads.  *)
(***************************************************************************)
EXTENDS LinkSetup, TLAPS

\* Only unique ranks are asked for a link.
OnlyUnique ==
  /\ mpc \in {"send", "test"} => i \in unique
  /\ \A r \in Ranks, h \in Handlers : hpc[r][h] # "none" => r \in unique

\* Types are inductive together with OnlyUnique.
TypeInv == TypeOK /\ OnlyUnique

\* No QUERY is under way before main is done.
NoQueries == mpc # "done" => kaMutex /\ queries = {}

\* A handler that is about to acknowledge has listed the link or found it.
AckListed == \A r \in Ranks, h \in Handlers : hpc[r][h] = "ack" => r \in listed

\* So every ACK main can see in this phase tells of a listed link, unless the
\* master is in cleanup and may have sent TERMs ...
AnswerListed == mpc # "done" /\ status[0] = "up" => acks \cup seen \subseteq listed

\* ... and the ranks main has passed have theirs.
PassedListed ==
  status[0] = "up" => \A r \in unique : r < i \/ mpc = "done" => r \in listed

\* Until a cleanup removes it, what is listed or about to be exists.
ListedExists ==
  \A r \in Ranks :
    /\ status[r] \in {"up", "cleanup"}
    /\ r \in listed \/ \E h \in Handlers : hpc[r][h] \in {"lock", "add"}
    => r \in linked

\* After a quiet beginning no handler creates the link once more.
QuietStays ==
  \A r \in quiet : /\ r \in listed
                   /\ \A h \in Handlers : hpc[r][h] \in {"none", "ack"}
                   /\ status[r] # "up"
                   /\ status[r] \in {"unlinked", "gone"} => r \notin linked

\* The inductive invariant.
LinkInv ==
  NoQueries /\ AckListed /\ AnswerListed /\ PassedListed /\ ListedExists /\ QuietStays

\* The types hold when main enters the link phase.
LEMMA InitType == Init => TypeInv
  BY LinkSetupAssumption DEF Init, TypeInv, TypeOK, OnlyUnique, Ranks

\* Every step keeps the types.
LEMMA StepType == TypeInv /\ [Next]_vars => TypeInv'
<1> SUFFICES ASSUME TypeInv, [Next]_vars PROVE TypeInv'
    OBVIOUS
<1> USE DEF TypeInv, TypeOK, OnlyUnique, mainVars, netVars, rankVars, fileVars, endVars
<1>1. CASE EnterRank
      BY <1>1 DEF EnterRank, NextRank
<1>2. CASE SendLink
      BY <1>2 DEF SendLink
<1>3. CASE TestAck
      BY <1>3 DEF TestAck, NextRank
<1>4. ASSUME NEW r \in Ranks,
             HandleAck(r) \/ Query(r) \/ HandleQuery(r) \/ HandleTerm(r) \/ Lose(r)
      PROVE  TypeInv'
      BY <1>4 DEF HandleAck, Query, HandleQuery, HandleTerm, Lose
<1>5. ASSUME NEW r \in Ranks, TryLock(r) \/ Unlink(r) \/ Exit(r)
      PROVE  TypeInv'
      BY <1>5 DEF TryLock, Unlink, Exit
<1>6. ASSUME NEW r \in Ranks, NEW h \in Handlers, Search(r, h)
      PROVE  TypeInv'
      BY <1>6 DEF Search, At
<1>7. ASSUME NEW r \in Ranks, NEW h \in Handlers, Handler(r, h)
      PROVE  TypeInv'
  <2>1. CASE Create(r, h)
        BY <2>1 DEF Create, At
  <2>2. CASE Lock(r, h)
        BY <2>2 DEF Lock, At
  <2>3. CASE Add(r, h)
        BY <2>3 DEF Add, At
  <2>4. CASE Ack(r, h)
        BY <2>4 DEF Ack, At
  <2> QED BY <1>7, <2>1, <2>2, <2>3, <2>4 DEF Handler
<1>8. CASE UNCHANGED vars
      BY <1>8 DEF vars
<1> QED BY <1>1, <1>2, <1>3, <1>4, <1>5, <1>6, <1>7, <1>8 DEF Next, Main

\* Every variable of the link phase keeps its type.
THEOREM TypeCorrect == Spec => []TypeOK
<1>1. TypeInv => TypeOK
      BY DEF TypeInv
<1> QED BY InitType, StepType, <1>1, PTL DEF Spec

-----------------------------------------------------------------------------
\* The invariant holds when main enters the link phase.
LEMMA InitLink == Init => LinkInv
  BY LinkSetupAssumption
  DEF Init, LinkInv, NoQueries, AckListed, AnswerListed, PassedListed,
      ListedExists, QuietStays, Ranks

\* main's steps: it passes a rank only when it has seen an ACK of it.
LEMMA MainLink == TypeInv /\ LinkInv /\ Main => LinkInv'
<1> SUFFICES ASSUME TypeInv, LinkInv, Main PROVE LinkInv'
    OBVIOUS
<1> USE DEF LinkInv, mainVars, netVars, rankVars, fileVars, endVars
<1>1. AckListed' /\ ListedExists' /\ QuietStays'
      BY DEF Main, EnterRank, SendLink, TestAck, AckListed, ListedExists, QuietStays
<1>2. NoQueries' /\ AnswerListed'
      BY DEF Main, EnterRank, SendLink, TestAck, NextRank, NoQueries, AnswerListed
<1>3. PassedListed'
  <2> USE LinkSetupAssumption DEF TypeInv, TypeOK, Ranks, PassedListed
  <2>1. CASE EnterRank
        BY <2>1 DEF EnterRank, NextRank
  <2>2. CASE SendLink
        BY <2>2 DEF SendLink
  <2>3. CASE TestAck
        BY <2>3 DEF TestAck, NextRank, AnswerListed
  <2> QED BY <2>1, <2>2, <2>3 DEF Main
<1> QED BY <1>1, <1>2, <1>3

\* Datagrams: an ACK under way before main is done is one of a listed link.
LEMMA NetLink ==
  ASSUME TypeInv, LinkInv, NEW r \in Ranks,
         HandleAck(r) \/ Query(r) \/ HandleQuery(r) \/ HandleTerm(r) \/ Lose(r)
  PROVE  LinkInv'
<1> USE DEF LinkInv, mainVars, rankVars, fileVars, endVars
<1>1. AckListed' /\ ListedExists' /\ QuietStays' /\ PassedListed'
      BY DEF HandleAck, Query, HandleQuery, HandleTerm, Lose,
             AckListed, ListedExists, QuietStays, PassedListed
<1>2. NoQueries'
      BY DEF HandleAck, Query, HandleQuery, HandleTerm, Lose, NoQueries
<1>3. AnswerListed'
      BY DEF HandleAck, Query, HandleQuery, HandleTerm, Lose, NoQueries, AnswerListed
<1> QED BY <1>1, <1>2, <1>3

\* A cleanup removes the link only on its way out.
LEMMA EndLink ==
  ASSUME TypeInv, LinkInv, NEW r \in Ranks, TryLock(r) \/ Unlink(r) \/ Exit(r)
  PROVE  LinkInv'
<1> USE DEF LinkInv, mainVars, netVars, fileVars
<1>1. NoQueries' /\ AckListed'
      BY DEF TryLock, Unlink, Exit, NoQueries, AckListed
<1>2. status'[0] = "up" => status[0] = "up"
      BY LinkSetupAssumption DEF TryLock, Unlink, Exit, TypeInv, TypeOK, Ranks
<1>3. AnswerListed' /\ PassedListed'
      BY <1>2 DEF TryLock, Unlink, Exit, AnswerListed, PassedListed
<1>4. ListedExists'
      BY DEF TryLock, Unlink, Exit, ListedExists, TypeInv, TypeOK
<1>5. QuietStays'
      BY DEF TryLock, Unlink, Exit, QuietStays, TypeInv, TypeOK
<1> QED BY <1>1, <1>3, <1>4, <1>5

\* handle_create_link lists the link before it acknowledges it.
LEMMA HandlerLink ==
  ASSUME TypeInv, LinkInv, NEW r \in Ranks, NEW h \in Handlers,
         Search(r, h) \/ Handler(r, h)
  PROVE  LinkInv'
<1> USE DEF LinkInv, mainVars, netVars, fileVars, endVars, TypeInv, TypeOK, At
<1>1. CASE Search(r, h)
      BY <1>1 DEF Search, NoQueries, AckListed, AnswerListed, PassedListed,
                  ListedExists, QuietStays
<1>2. CASE Create(r, h)
      BY <1>2 DEF Create, NoQueries, AckListed, AnswerListed, PassedListed,
                  ListedExists, QuietStays
<1>3. CASE Lock(r, h)
      BY <1>3 DEF Lock, NoQueries, AckListed, AnswerListed, PassedListed,
                  ListedExists, QuietStays
<1>4. CASE Add(r, h)
      BY <1>4 DEF Add, NoQueries, AckListed, AnswerListed, PassedListed,
                  ListedExists, QuietStays
<1>5. CASE Ack(r, h)
      BY <1>5 DEF Ack, NoQueries, AckListed, AnswerListed, PassedListed,
                  ListedExists, QuietStays
<1> QED BY <1>1, <1>2, <1>3, <1>4, <1>5 DEF Handler

\* The invariant is preserved by every step.
LEMMA StepLink == TypeInv /\ LinkInv /\ [Next]_vars => LinkInv'
<1> SUFFICES ASSUME TypeInv, LinkInv, [Next]_vars PROVE LinkInv'
    OBVIOUS
<1>1. CASE UNCHANGED vars
      BY <1>1 DEF vars, mainVars, netVars, rankVars, fileVars, endVars, LinkInv,
                  NoQueries, AckListed, AnswerListed, PassedListed, ListedExists,
                  QuietStays
<1> QED BY <1>1, MainLink, NetLink, EndLink, HandlerLink DEF Next

\* The invariant holds throughout.
THEOREM LinkInvariant == Spec => [](TypeInv /\ LinkInv)
  BY InitType, StepType, InitLink, StepLink, PTL DEF Spec

\* When main starts the job, and the master is not in cleanup, every unique host
\* that is up has its link, listed for removal.
THEOREM LinksThere == Spec => []LinksInPlace
<1>1. TypeInv /\ LinkInv => LinksInPlace
      BY DEF TypeInv, TypeOK, LinkInv, PassedListed, ListedExists, LinksInPlace
<1> QED BY <1>1, LinkInvariant, PTL

\* A cleanup that begins after the link was listed leaves none behind.
THEOREM LinksGone == Spec => []LinkRemoved
<1>1. LinkInv => LinkRemoved
      BY DEF LinkInv, QuietStays, LinkRemoved
<1> QED BY <1>1, LinkInvariant, PTL
=============================================================================
