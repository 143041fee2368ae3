----------------------------- MODULE Arguments ------------------------------
(***************************************************************************)
(* The settings of a wrapper: defaults, environment, command line, and     *)
(* the checks of main.  Options may be given again and again in any order; *)
(* a number is what strtol makes of its text, a long that is cut to an     *)
(* int.                                                                    *)
(***************************************************************************)
EXTENDS Integers

CONSTANTS
  IntMax,      \* INT_MAX
  Longs,       \* what strtol may return
  TIMEOUT, KA_INTERVAL,
  NoNumber     \* a missing variable, or a text that is no number

ASSUME ArgumentsAssumption ==
  /\ Longs \subseteq Int /\ NoNumber \notin Int
  /\ IntMax \in Nat /\ KA_INTERVAL \in Nat \ {0} /\ TIMEOUT \in 10 .. IntMax
  /\ TIMEOUT > 2 * KA_INTERVAL

Ints  == -IntMax - 1 .. IntMax
Texts == Longs \cup {NoNumber}

VARIABLES
  apc,  \* "environment", "options", "check", "started" or "stopped"
  rank, num_procs, timeout, ka_interval

settings == <<rank, num_procs, timeout, ka_interval>>
argVars  == <<apc, settings>>

ArgInit ==
  /\ apc = "environment"
  /\ rank = -1 /\ num_procs = -1
  /\ timeout = TIMEOUT /\ ka_interval = KA_INTERVAL

\* Mutant: the value is kept as it is.
ToIntWide(v) == v

\* A long assigned to an int.
ToInt(v) == ((v + IntMax + 1) % (2 * (IntMax + 1))) - (IntMax + 1)

\* parse_integer: the new value of a setting.
Parsed(text, old) == IF text = NoNumber THEN old ELSE ToInt(text)

AtLeast(least, v) == IF v < least THEN least ELSE v

\* _CONDOR_PROCNO and _CONDOR_NPROCS; what cannot be parsed is ignored.
ParseEnvironmentVars(procno, nprocs) ==
  /\ apc = "environment"
  /\ rank' = Parsed(procno, rank) /\ num_procs' = Parsed(nprocs, num_procs)
  /\ apc' = "options"
  /\ UNCHANGED <<timeout, ka_interval>>

\* exit or a return from main.
Stop == apc' = "stopped" /\ UNCHANGED settings

\* -n, -r, -t and -k; what cannot be parsed ends the program.
ParseNumber(option, text) ==
  /\ apc = "options"
  /\ num_procs' = IF option = "n" THEN ToInt(text) ELSE num_procs
  /\ rank' = IF option = "r" THEN ToInt(text) ELSE rank
  /\ timeout' = IF option = "t" THEN AtLeast(10, ToInt(text)) ELSE timeout
  /\ ka_interval' = IF option = "k" THEN AtLeast(1, ToInt(text)) ELSE ka_interval
  /\ UNCHANGED apc

\* A number that is none, help, an unknown option, or nothing to execute.
ParseStops == apc = "options" /\ Stop

\* The flags and -p change nothing here; the first other argument is the
\* executable.
ParseEnds == apc = "options" /\ apc' = "check" /\ UNCHANGED settings

\* The outcomes of timeout <= 2 * ka_interval: any, if the product overflows.
TooClose ==
  IF 2 * ka_interval <= IntMax THEN {timeout <= 2 * ka_interval} ELSE BOOLEAN

\* Mutant: only the timeout is set back.
CheckRequiredHalf ==
  /\ apc = "check"
  /\ \/ (rank < 0 \/ num_procs < 0) /\ Stop
     \/ /\ rank >= 0 /\ num_procs >= 0
        /\ \E close \in TooClose :
             timeout' = IF close THEN TIMEOUT ELSE timeout
        /\ apc' = "started"
        /\ UNCHANGED <<rank, num_procs, ka_interval>>

\* The checks of main.
CheckRequired ==
  /\ apc = "check"
  /\ \/ (rank < 0 \/ num_procs < 0) /\ Stop
     \/ /\ rank >= 0 /\ num_procs >= 0
        /\ \E close \in TooClose :
             /\ timeout' = IF close THEN TIMEOUT ELSE timeout
             /\ ka_interval' = IF close THEN KA_INTERVAL ELSE ka_interval
        /\ apc' = "started"
        /\ UNCHANGED <<rank, num_procs>>

ArgNext ==
  \/ \E procno, nprocs \in Texts : ParseEnvironmentVars(procno, nprocs)
  \/ \E option \in {"n", "r", "t", "k"}, text \in Longs : ParseNumber(option, text)
  \/ ParseStops \/ ParseEnds \/ CheckRequired

ArgSpec == ArgInit /\ [][ArgNext]_argVars

-----------------------------------------------------------------------------
(***************************************************************************)
(* Properties.                                                             *)
(***************************************************************************)

\* The type invariant: every setting is an int.
ArgTypeOK ==
  /\ apc \in {"environment", "options", "check", "started", "stopped"}
  /\ rank \in Ints /\ num_procs \in Ints /\ timeout \in Ints /\ ka_interval \in Ints

\* Whatever options were given, in whatever order and with whatever
\* numbers, a wrapper that starts waits more than two keep-alive intervals
\* for a machine, and both times are at least their minimum: what the
\* failure detector (KeepAlive) assumes.  The exception is an interval so
\* long that the comparison overflows.
TimeoutsSafe ==
  apc = "started" /\ 2 * ka_interval <= IntMax =>
    timeout > 2 * ka_interval /\ ka_interval >= 1 /\ timeout >= 10
=============================================================================
