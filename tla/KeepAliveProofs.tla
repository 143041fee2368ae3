--------------------------- MODULE KeepAliveProofs ---------------------------
(***************************************************************************)
(* Theorems about KeepAlive, for any number of ranks, any interval of four *)
(* seconds or more and any timeout main accepts for it.                    *)
(***************************************************************************)
EXTENDS KeepAlive, TLAPS

\* What the provers need to know of the quarter interval.
LEMMA QuarterFacts ==
  /\ Quarter \in Nat
  /\ 1 <= Quarter
  /\ 4 * Quarter <= KaInterval
  BY KeepAliveAssumption DEF Quarter

\* Types hold initially.
LEMMA InitType == Init => TypeOK
  BY KeepAliveAssumption, QuarterFacts
  DEF Init, TypeOK, Old, DeadCap, SetupCap, NoMessage, Nobody, Crashed, Several,
      Ranks

\* Types are preserved by every step.
LEMMA StepType == TypeOK /\ [Next]_vars => TypeOK'
<1> SUFFICES ASSUME TypeOK, [Next]_vars PROVE TypeOK'
    OBVIOUS
<1> USE KeepAliveAssumption, QuarterFacts
    DEF TypeOK, tableVars, netVars, histVars, NoMessage, Several, Old, DeadCap,
        SetupCap
<1>1. CASE UNCHANGED vars \/ Aborting
      BY <1>1 DEF vars, Aborting
<1>2. CASE UnlockKeepAlive
      BY <1>2 DEF UnlockKeepAlive
<1>3. CASE ListenerTimeout
  <2>1. timer' \in 0 .. KaInterval /\ wake' \in 0 .. Quarter
        BY <1>3 DEF ListenerTimeout
  <2>2. queries' \in [Ranks -> NoMessage .. MaxDelay]
        BY <1>3 DEF ListenerTimeout
  <2>3. unanswered' \in [Ranks -> 0 .. Several]
        BY <1>3 DEF ListenerTimeout, AtMost
  <2>4. kaMutex' \in {"main", "thread", "free"}
        BY <1>3 DEF ListenerTimeout
  <2> QED BY <1>3, <2>1, <2>2, <2>3, <2>4 DEF ListenerTimeout
<1>4. CASE Check
      BY <1>4 DEF Check
<1>5. CASE Tick
  <2>1. timer' \in 0 .. KaInterval /\ wake' \in 0 .. Quarter
        BY <1>5 DEF Tick
  <2>2. age' \in [Ranks -> 0 .. Old]
        BY <1>5 DEF Tick, AtMost
  <2>3. /\ queries' \in [Ranks -> NoMessage .. MaxDelay]
        /\ acks' \in [Ranks -> NoMessage .. MaxDelay]
        BY <1>5 DEF Tick, Older
  <2>4. deadFor' \in [Ranks -> 0 .. DeadCap]
        BY <1>5 DEF Tick, AtMost
  <2>5. setupFor' \in 0 .. SetupCap
        BY <1>5 DEF Tick, AtMost
  <2> QED BY <1>5, <2>1, <2>2, <2>3, <2>4, <2>5 DEF Tick
<1>6. ASSUME NEW r \in Ranks, LinkAck(r) \/ Die(r)
      PROVE  TypeOK'
      BY <1>6 DEF LinkAck, Die
<1>7. ASSUME NEW r \in Ranks,
             HandleQuery(r) \/ HandleAck(r) \/ RefuseAck(r) \/ Lose(r)
      PROVE  TypeOK'
      BY <1>7 DEF HandleQuery, HandleAck, RefuseAck, Lose
<1>8. ASSUME NEW r \in Ranks, Alloc(r) \/ Fill(r)
      PROVE  TypeOK'
      BY <1>8 DEF Alloc, Fill
<1> QED BY <1>1, <1>2, <1>3, <1>4, <1>5, <1>6, <1>7, <1>8 DEF Next

\* Every variable keeps its type and every counter its cap.
THEOREM TypeCorrect == Spec => []TypeOK
  BY InitType, StepType, PTL DEF Spec

-----------------------------------------------------------------------------
(***************************************************************************)
(* AbortAfterTwoMisses.  A thread that holds the mutex was started when    *)
(* the listener's timer was last set, so the two clocks agree; a rank that *)
(* answers QUERYs is never silent for longer than the rounds it missed.    *)
(***************************************************************************)
ClocksAgree ==
  /\ wake > 0 => kaMutex = "thread"
  /\ kaMutex = "thread" => wake + KaInterval = Quarter + timer

QuietInSetup ==
  kaMutex = "main" \/ DisableTimeout =>
    /\ answered = {}
    /\ \A r \in Ranks : queries[r] = NoMessage /\ acks[r] = NoMessage

\* How long a rank that missed u < 2 QUERYs may have been silent when the
\* timer shows s seconds.
Silence(u, s) == IF u = 0 THEN KaInterval - s ELSE 2 * KaInterval - s

AgeBound ==
  \A r \in answered :
    /\ r \in present \ blank
    /\ unanswered[r] < Several => age[r] <= Silence(unanswered[r], timer)

MissInv == ClocksAgree /\ QuietInSetup /\ AgeBound /\ AbortAfterTwoMisses

\* The clocks of the listener and of the thread keep agreeing.
LEMMA StepClocks == TypeOK /\ ClocksAgree /\ [Next]_vars => ClocksAgree'
<1> SUFFICES ASSUME TypeOK, ClocksAgree, [Next]_vars PROVE ClocksAgree'
    OBVIOUS
<1> USE KeepAliveAssumption, QuarterFacts DEF TypeOK, ClocksAgree
<1>1. CASE ListenerTimeout
      BY <1>1 DEF ListenerTimeout
<1>2. CASE Tick
      BY <1>2 DEF Tick
<1>3. CASE Check
      BY <1>3 DEF Check
<1>4. CASE UnlockKeepAlive
      BY <1>4 DEF UnlockKeepAlive
<1>5. CASE UNCHANGED <<timer, kaMutex, wake>>
      BY <1>5
<1>6. ASSUME NEW r \in Ranks,
             \/ Alloc(r) \/ Fill(r) \/ LinkAck(r)
             \/ HandleQuery(r) \/ HandleAck(r) \/ RefuseAck(r) \/ Lose(r) \/ Die(r)
      PROVE  UNCHANGED <<timer, kaMutex, wake>>
      BY <1>6 DEF Alloc, Fill, LinkAck, HandleQuery, HandleAck,
                  RefuseAck, Lose, Die
<1> QED BY <1>1, <1>2, <1>3, <1>4, <1>5, <1>6 DEF Next, Aborting, vars

\* No QUERY is under way, and none answered, before main unlocks.
LEMMA StepQuiet == TypeOK /\ QuietInSetup /\ [Next]_vars => QuietInSetup'
<1> SUFFICES ASSUME TypeOK, QuietInSetup, [Next]_vars PROVE QuietInSetup'
    OBVIOUS
<1> USE DEF TypeOK, QuietInSetup, tableVars, netVars, histVars
<1>1. CASE ListenerTimeout
      BY <1>1 DEF ListenerTimeout
<1>2. CASE Tick
      BY <1>2 DEF Tick, Older
<1>3. CASE Check
      BY <1>3 DEF Check
<1>4. CASE UnlockKeepAlive
      BY <1>4 DEF UnlockKeepAlive
<1>5. CASE UNCHANGED vars \/ Aborting
      BY <1>5 DEF vars, Aborting
<1>6. ASSUME NEW r \in Ranks,
             Alloc(r) \/ Fill(r) \/ LinkAck(r) \/ Die(r)
      PROVE  QuietInSetup'
      BY <1>6 DEF Alloc, Fill, LinkAck, Die
<1>7. ASSUME NEW r \in Ranks, HandleQuery(r) \/ HandleAck(r) \/ RefuseAck(r)
      PROVE  QuietInSetup'
      BY <1>7 DEF HandleQuery, HandleAck, RefuseAck
<1>8. ASSUME NEW r \in Ranks, Lose(r)
      PROVE  QuietInSetup'
      BY <1>8 DEF Lose
<1> QED BY <1>1, <1>2, <1>3, <1>4, <1>5, <1>6, <1>7, <1>8 DEF Next

\* The silence of a rank that answers is bounded by the QUERYs it missed.
LEMMA StepAge ==
  TypeOK /\ ClocksAgree /\ QuietInSetup /\ AgeBound /\ [Next]_vars => AgeBound'
<1> SUFFICES ASSUME TypeOK, ClocksAgree, QuietInSetup, AgeBound, [Next]_vars
             PROVE  AgeBound'
    OBVIOUS
<1>0. answered' \subseteq present' \ blank'
      BY DEF AgeBound, Next, vars, tableVars, netVars, histVars, UnlockKeepAlive,
             ListenerTimeout, Check, Tick, Aborting, Alloc, Fill, LinkAck,
             HandleQuery, HandleAck, RefuseAck, Lose, Die
<1> SUFFICES ASSUME NEW r \in answered', unanswered'[r] < Several
             PROVE  age'[r] <= Silence(unanswered'[r], timer')
    BY <1>0 DEF AgeBound
<1> USE KeepAliveAssumption, QuarterFacts
    DEF TypeOK, tableVars, netVars, histVars, Several, Silence
<1>1. CASE ListenerTimeout
  <2>1. /\ r \in answered /\ r \in present \ blank /\ r \in Ranks
        /\ timer = 0 /\ timer' = KaInterval /\ age' = age
        BY <1>1 DEF ListenerTimeout, AgeBound
  <2>2. ~ DisableTimeout /\ kaMutex = "free"
        BY <2>1 DEF QuietInSetup, ClocksAgree
  <2>3. unanswered[r] = 0 /\ unanswered'[r] = 1
        BY <1>1, <2>1, <2>2 DEF ListenerTimeout, AtMost
  <2>4. age[r] <= KaInterval
        BY <2>1, <2>3 DEF AgeBound
  <2> QED BY <2>1, <2>3, <2>4
<1>2. CASE Tick
  <2>1. /\ r \in answered /\ r \in Ranks /\ unanswered' = unanswered
        /\ timer' = timer - 1
        BY <1>2 DEF Tick
  <2>2. age'[r] <= age[r] + 1
        BY <1>2, <2>1 DEF Tick, AtMost, Old
  <2>3. age[r] <= Silence(unanswered[r], timer)
        BY <2>1 DEF AgeBound
  <2>4. age[r] \in Nat /\ age'[r] \in Int /\ timer \in Nat
        BY <1>2, <2>1 DEF Tick, AtMost, Old
  <2> QED BY <2>1, <2>2, <2>3, <2>4
<1>3. CASE UNCHANGED <<timer, age, unanswered, answered>>
      BY <1>3 DEF AgeBound
<1>4. CASE UnlockKeepAlive \/ Check \/ Aborting \/ UNCHANGED vars
      BY <1>3, <1>4 DEF UnlockKeepAlive, Check, Aborting, vars
<1>5. ASSUME NEW s \in Ranks,
             \/ Fill(s) \/ HandleQuery(s)
             \/ RefuseAck(s) \/ Lose(s) \/ Die(s)
      PROVE  UNCHANGED <<timer, age, unanswered, answered>>
      BY <1>5 DEF Fill, HandleQuery, RefuseAck, Lose, Die
<1>6. ASSUME NEW s \in Ranks, LinkAck(s)
      PROVE  FALSE
      BY <1>6 DEF LinkAck, QuietInSetup
<1>7. ASSUME NEW s \in Ranks, HandleAck(s)
      PROVE  age'[r] <= Silence(unanswered'[r], timer')
  <2>1. CASE r = s
        BY <1>7, <2>1 DEF HandleAck
  <2>2. CASE r # s
        BY <1>7, <2>2 DEF HandleAck, AgeBound
  <2> QED BY <2>1, <2>2
<1>8. ASSUME NEW s \in Ranks, Alloc(s)
      PROVE  age'[r] <= Silence(unanswered'[r], timer')
  <2>1. r # s /\ r \in answered /\ age'[r] = age[r]
        BY <1>8 DEF Alloc
  <2> QED BY <1>8, <2>1 DEF Alloc, AgeBound
<1> QED BY <1>1, <1>2, <1>3, <1>4, <1>5, <1>6, <1>7, <1>8 DEF Next

\* A check never finds a rank late that missed fewer than two QUERYs.
LEMMA StepAbort ==
  /\ TypeOK /\ ClocksAgree /\ AgeBound /\ AbortAfterTwoMisses /\ [Next]_vars
  => AbortAfterTwoMisses'
<1> SUFFICES ASSUME TypeOK, ClocksAgree, AgeBound, AbortAfterTwoMisses,
                    [Next]_vars
             PROVE  AbortAfterTwoMisses'
    OBVIOUS
<1> USE KeepAliveAssumption, QuarterFacts DEF TypeOK, tableVars, netVars, histVars
<1>1. CASE Check
  <2> SUFFICES ASSUME NEW r \in answered, aborted' = r, unanswered[r] < Several
               PROVE  FALSE
      BY <1>1 DEF Check, AbortAfterTwoMisses, Several
  <2>1. age[r] > Timeout
        BY <1>1 DEF Check, Running, Nobody, Ranks
  <2>2. KaInterval - timer = Quarter
        BY <1>1 DEF Check, ClocksAgree
  <2>3. age[r] <= Silence(unanswered[r], timer)
        BY DEF AgeBound
  <2>4. Silence(unanswered[r], timer) <= 2 * KaInterval
        BY <2>2 DEF Silence
  <2>5. age[r] \in Nat /\ Silence(unanswered[r], timer) \in Int
        BY DEF Silence
  <2> QED BY <2>1, <2>3, <2>4, <2>5
<1>2. CASE ~ Check /\ Running
  <2>1. aborted' \in {Nobody, Crashed}
        BY <1>2 DEF Next, vars, UnlockKeepAlive, ListenerTimeout, Tick, Aborting,
                    Running, Alloc, Fill, LinkAck, HandleQuery, HandleAck,
                    RefuseAck, Lose, Die
  <2>2. answered' \subseteq Ranks
        BY StepType
  <2>3. ASSUME NEW r \in Ranks
        PROVE  aborted' # r
        BY <2>1, <2>3 DEF Nobody, Crashed, Ranks
  <2> QED BY <2>2, <2>3 DEF AbortAfterTwoMisses
<1>3. CASE ~ Running
  <2>1. UNCHANGED vars
        BY <1>3 DEF Next, UnlockKeepAlive, ListenerTimeout, Check, Tick, Aborting,
                    Alloc, Fill, LinkAck, HandleQuery, HandleAck,
                    RefuseAck, Lose, Die
  <2> QED BY <2>1 DEF vars, AbortAfterTwoMisses
<1> QED BY <1>1, <1>2, <1>3

\* For every interval and every timeout longer than two of them, the job is
\* never aborted for a single keep-alive missed by a rank that answers them.
THEOREM TwoMisses == Spec => []AbortAfterTwoMisses
<1>1. Init => TypeOK /\ MissInv
  <2> SUFFICES ASSUME Init PROVE TypeOK /\ MissInv
      OBVIOUS
  <2>1. TypeOK
        BY InitType
  <2>2. MissInv
        BY DEF Init, MissInv, ClocksAgree, QuietInSetup, AgeBound,
               AbortAfterTwoMisses
  <2> QED BY <2>1, <2>2
<1>2. (TypeOK /\ MissInv) /\ [Next]_vars => (TypeOK /\ MissInv)'
      BY StepType, StepClocks, StepQuiet, StepAge, StepAbort DEF MissInv
<1>3. MissInv => AbortAfterTwoMisses
      BY DEF MissInv
<1> QED BY <1>1, <1>2, <1>3, PTL DEF Spec

-----------------------------------------------------------------------------
(***************************************************************************)
(* DetectBound.  The silence of a dead rank is as old as its death up to   *)
(* the delay of a last ACK, and the next check is never far away: when it  *)
(* passes, the rank cannot have been silent for longer than Timeout.       *)
(***************************************************************************)
DeadSilence ==
  \A r \in Ranks :
    /\ r \in alive \/ r \notin present => deadFor[r] = 0
    /\ acks[r] # NoMessage => acks[r] >= deadFor[r]
    /\ age[r] = Old \/ age[r] + MaxDelay >= deadFor[r]

\* Seconds to the next check of the table.
NextCheck == IF kaMutex = "thread" THEN wake ELSE timer + Quarter

CheckInTime ==
  /\ kaMutex = "main" => setupFor = 0
  /\ ~ DisableTimeout /\ Running => \A r \in present \ alive :
       \/ deadFor[r] + NextCheck <= MaxDelay + Timeout + KaInterval
       \/ setupFor + NextCheck <= Quarter + KaInterval

\* Ages and deaths keep step.
LEMMA StepSilence == TypeOK /\ DeadSilence /\ [Next]_vars => DeadSilence'
<1> SUFFICES ASSUME TypeOK, DeadSilence, [Next]_vars, NEW r \in Ranks
             PROVE  /\ r \in alive' \/ r \notin present' => deadFor'[r] = 0
                    /\ acks'[r] # NoMessage => acks'[r] >= deadFor'[r]
                    /\ age'[r] = Old \/ age'[r] + MaxDelay >= deadFor'[r]
    BY DEF DeadSilence
<1> USE KeepAliveAssumption
    DEF TypeOK, DeadSilence, tableVars, netVars, histVars, NoMessage, Old
<1>1. CASE Tick
  <2>1. /\ deadFor'[r] = IF r \in present \ alive
                          THEN AtMost(deadFor[r] + 1, DeadCap) ELSE 0
        /\ age'[r] = AtMost(age[r] + 1, Old)
        /\ acks'[r] = IF acks[r] = NoMessage THEN NoMessage ELSE acks[r] + 1
        /\ alive' = alive /\ present' = present
        BY <1>1 DEF Tick, Older
  <2> QED BY <2>1 DEF AtMost, DeadCap
<1>2. CASE UNCHANGED <<present, alive, deadFor, acks, age>>
      BY <1>2
<1>3. CASE UnlockKeepAlive \/ ListenerTimeout \/ Check \/ Aborting \/ UNCHANGED vars
      BY <1>2, <1>3 DEF UnlockKeepAlive, ListenerTimeout, Check, Aborting, vars
<1>4. ASSUME NEW s \in Ranks, Fill(s)
      PROVE  UNCHANGED <<present, alive, deadFor, acks, age>>
      BY <1>4 DEF Fill
<1>5. ASSUME NEW s \in Ranks, LinkAck(s)
      PROVE  DeadSilence'
      BY <1>5 DEF LinkAck
<1>6. ASSUME NEW s \in Ranks, HandleQuery(s)
      PROVE  DeadSilence'
      BY <1>6 DEF HandleQuery
<1>7. ASSUME NEW s \in Ranks, HandleAck(s) \/ RefuseAck(s)
      PROVE  DeadSilence'
      BY <1>7 DEF HandleAck, RefuseAck
<1>8. ASSUME NEW s \in Ranks, Lose(s) \/ Die(s)
      PROVE  DeadSilence'
      BY <1>8 DEF Lose, Die
<1>10. ASSUME NEW s \in Ranks, Alloc(s)
       PROVE  DeadSilence'
       BY <1>10 DEF Alloc
<1>9. ASSUME DeadSilence'
      PROVE  /\ r \in alive' \/ r \notin present' => deadFor'[r] = 0
             /\ acks'[r] # NoMessage => acks'[r] >= deadFor'[r]
             /\ age'[r] = Old \/ age'[r] + MaxDelay >= deadFor'[r]
      BY <1>9
<1> QED BY <1>1, <1>2, <1>3, <1>4, <1>5, <1>6, <1>7, <1>8, <1>9, <1>10
    DEF Next

\* What a second adds to an age it takes from the time to the next check.
LEMMA SumBound ==
  \A d, e, n, m, c \in Int : e <= d + 1 /\ m = n - 1 /\ d + n <= c => e + m <= c
  OBVIOUS

\* The next check stays in time for every dead rank.
LEMMA StepInTime ==
  TypeOK /\ ClocksAgree /\ DeadSilence /\ CheckInTime /\ [Next]_vars
    => CheckInTime'
<1> SUFFICES ASSUME TypeOK, ClocksAgree, DeadSilence, CheckInTime, [Next]_vars
             PROVE  CheckInTime'
    OBVIOUS
<1> USE KeepAliveAssumption, QuarterFacts DEF TypeOK, tableVars, netVars, histVars
<1>1. kaMutex' = "main" => setupFor' = 0
      BY DEF CheckInTime, Next, vars, UnlockKeepAlive, ListenerTimeout, Check, Tick,
             Aborting, Alloc, Fill, LinkAck, HandleQuery, HandleAck,
             RefuseAck, Lose, Die
<1> SUFFICES ASSUME ~ DisableTimeout, Running', NEW r \in present' \ alive'
             PROVE  \/ deadFor'[r] + NextCheck' <= MaxDelay + Timeout + KaInterval
                    \/ setupFor' + NextCheck' <= Quarter + KaInterval
    BY <1>1 DEF CheckInTime
<1>2. CASE Tick
  <2>1. /\ Running /\ r \in present \ alive /\ r \in Ranks
        /\ deadFor'[r] = AtMost(deadFor[r] + 1, DeadCap)
        /\ setupFor' = IF kaMutex = "main" THEN 0 ELSE AtMost(setupFor + 1, SetupCap)
        BY <1>2 DEF Tick
  <2>2. PICK d \in Int, e \in Int : d = deadFor[r] /\ e = deadFor'[r] /\ e <= d + 1
        BY <2>1 DEF AtMost, DeadCap
  <2>3. PICK u \in Int, v \in Int : u = setupFor /\ v = setupFor' /\ v <= u + 1
        BY <2>1 DEF AtMost, SetupCap
  <2>4. PICK n \in Int, m \in Int : n = NextCheck /\ m = NextCheck' /\ m = n - 1
    <3>1. NextCheck \in Int /\ NextCheck' = NextCheck - 1
          BY <1>2 DEF NextCheck, Tick, ClocksAgree
    <3> QED BY <3>1
  <2>5. \/ d + n <= MaxDelay + Timeout + KaInterval
        \/ u + n <= Quarter + KaInterval
        BY <2>1, <2>2, <2>3, <2>4 DEF CheckInTime
  <2>6. \/ e + m <= MaxDelay + Timeout + KaInterval
        \/ v + m <= Quarter + KaInterval
    <3>0. PICK c \in Int, b \in Int : /\ c = MaxDelay + Timeout + KaInterval
                                      /\ b = Quarter + KaInterval
          OBVIOUS
    <3>1. CASE d + n <= c
      <4>1. e + m <= c
            BY <3>1, <2>2, <2>4, SumBound
      <4> QED BY <4>1, <3>0
    <3>2. CASE u + n <= b
      <4>1. v + m <= b
            BY <3>2, <2>3, <2>4, SumBound
      <4> QED BY <4>1, <3>0
    <3> QED BY <2>5, <3>0, <3>1, <3>2
  <2> QED BY <2>2, <2>3, <2>4, <2>6
<1>3. CASE ListenerTimeout
  <2>1. /\ Running /\ r \in present \ alive
        /\ UNCHANGED <<deadFor, setupFor>>
        /\ kaMutex # "thread" /\ timer = 0
        BY <1>3 DEF ListenerTimeout, ClocksAgree, Running
  <2>2. CASE kaMutex = "free"
    <3>1. NextCheck' = NextCheck
          BY <1>3, <2>1, <2>2 DEF ListenerTimeout, NextCheck
    <3> QED BY <2>1, <3>1 DEF CheckInTime
  <2>3. CASE kaMutex = "main"
    <3>1. NextCheck' = KaInterval + Quarter /\ setupFor' = 0
          BY <1>3, <2>1, <2>3 DEF ListenerTimeout, NextCheck, CheckInTime
    <3> QED BY <3>1
  <2> QED BY <2>1, <2>2, <2>3
<1>4. CASE Check
  <2>1. /\ r \in present \ alive /\ r \in Ranks
        /\ UNCHANGED <<deadFor, setupFor>>
        BY <1>4 DEF Check
  <2>0. age[r] <= Timeout
    <3>1. ASSUME NEW s \in present, aborted' = s
          PROVE  FALSE
          BY <3>1 DEF Running, Nobody, Ranks
    <3>2. ~ (age[r] > Timeout)
          BY <1>4, <2>1, <3>1 DEF Check
    <3> QED BY <2>1, <3>2
  <2>2. NextCheck' = KaInterval
        BY <1>4 DEF Check, ClocksAgree, NextCheck
  <2>3. deadFor[r] <= MaxDelay + Timeout
        BY <2>0, <2>1 DEF DeadSilence, Old
  <2> QED BY <2>1, <2>2, <2>3
<1>5. CASE UnlockKeepAlive
  <2>1. NextCheck' = timer + Quarter /\ setupFor' = 0
        BY <1>5 DEF UnlockKeepAlive, NextCheck, CheckInTime
  <2> QED BY <2>1
<1>6. ASSUME NEW s \in Ranks, Die(s)
      PROVE  \/ deadFor'[r] + NextCheck' <= MaxDelay + Timeout + KaInterval
             \/ setupFor' + NextCheck' <= Quarter + KaInterval
  <2>1. /\ UNCHANGED <<deadFor, setupFor>> /\ NextCheck' = NextCheck
        /\ Running /\ r \in present /\ r \in Ranks
        BY <1>6 DEF Die, NextCheck
  <2>2. CASE r \in alive
    <3>1. deadFor[r] = 0 /\ NextCheck <= KaInterval + Quarter /\ NextCheck \in Int
          BY <2>1, <2>2 DEF DeadSilence, NextCheck
    <3> QED BY <2>1, <3>1
  <2>3. CASE r \notin alive
        BY <2>1, <2>3 DEF CheckInTime
  <2> QED BY <2>2, <2>3
<1>7. ASSUME /\ UNCHANGED <<deadFor, setupFor, alive, aborted, kaMutex, timer, wake>>
             /\ r \in present
      PROVE  \/ deadFor'[r] + NextCheck' <= MaxDelay + Timeout + KaInterval
             \/ setupFor' + NextCheck' <= Quarter + KaInterval
      BY <1>7 DEF CheckInTime, NextCheck, Running
<1>8. ASSUME NEW s \in Ranks,
             \/ Fill(s) \/ LinkAck(s) \/ HandleQuery(s)
             \/ HandleAck(s) \/ Lose(s) \/ (RefuseAck(s) /\ Running')
      PROVE  /\ UNCHANGED <<deadFor, setupFor, alive, aborted, kaMutex, timer, wake>>
             /\ r \in present
      BY <1>8 DEF Fill, LinkAck, HandleQuery, HandleAck, RefuseAck, Lose,
                  Running, tableVars
<1>9. CASE Aborting \/ UNCHANGED vars
      BY <1>7, <1>9 DEF Aborting, vars, tableVars
<1>10. ASSUME NEW s \in Ranks, Alloc(s)
       PROVE  \/ deadFor'[r] + NextCheck' <= MaxDelay + Timeout + KaInterval
              \/ setupFor' + NextCheck' <= Quarter + KaInterval
  <2>1. /\ UNCHANGED <<deadFor, setupFor, alive, kaMutex>> /\ NextCheck' = NextCheck
        /\ Running /\ r \notin alive /\ r \in Ranks
        BY <1>10 DEF Alloc, NextCheck
  <2>2. CASE r \in present
        BY <2>1, <2>2 DEF CheckInTime
  <2>3. CASE r \notin present
    <3>1. deadFor[r] = 0 /\ NextCheck <= KaInterval + Quarter /\ NextCheck \in Int
          BY <2>1, <2>3 DEF DeadSilence, NextCheck
    <3> QED BY <2>1, <3>1
  <2> QED BY <2>2, <2>3
<1> QED BY <1>2, <1>3, <1>4, <1>5, <1>6, <1>7, <1>8, <1>9, <1>10 DEF Next

\* For every interval, timeout and delay bound, the death of a registered
\* rank makes the master abort within the bound.
THEOREM DetectsDeath == Spec => []DetectBound
<1> DEFINE Inv == TypeOK /\ ClocksAgree /\ DeadSilence /\ CheckInTime
<1>1. Init => Inv
  <2> SUFFICES ASSUME Init PROVE Inv
      OBVIOUS
  <2>1. TypeOK
        BY InitType
  <2>2. ClocksAgree /\ DeadSilence
        BY DEF Init, ClocksAgree, DeadSilence
  <2>3. CheckInTime
        BY KeepAliveAssumption DEF Init, CheckInTime, Ranks
  <2> QED BY <2>1, <2>2, <2>3
<1>2. Inv /\ [Next]_vars => Inv'
      BY StepType, StepClocks, StepSilence, StepInTime
<1>3. Inv => DetectBound
  <2> SUFFICES ASSUME Inv, NEW r \in present \ alive, Running, ~ DisableTimeout
               PROVE  \/ deadFor[r] <= MaxDelay + Timeout + KaInterval
                      \/ setupFor <= Quarter + KaInterval
      BY DEF DetectBound
  <2>1. NextCheck \in Nat /\ deadFor[r] \in Nat /\ setupFor \in Nat
        BY KeepAliveAssumption, QuarterFacts DEF NextCheck, TypeOK
  <2> QED BY <2>1, KeepAliveAssumption, QuarterFacts DEF CheckInTime
<1> QED BY <1>1, <1>2, <1>3, PTL DEF Spec
=============================================================================
