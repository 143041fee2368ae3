------------------------------ MODULE MCStartup ------------------------------
(***************************************************************************)
(* What a wrapper does once, for TLC: its settings, its address and port,  *)
(* and the text of its REGISTER.  The three share no state, so one of them *)
(* moves in a behaviour and the others stay as they began.                 *)
(***************************************************************************)
EXTENDS Arguments, CommandSocket, Wire

MCLongs == {-1, 0, 1, 10, 30, 61, 350, 351, IntMax, IntMax + 1, 2 * IntMax + 7}

MCInterfaces ==
  LET I(down, loop, p2p, ib, local, six) ==
        [inet |-> ~ six, up |-> ~ down, loopback |-> loop, p2p |-> p2p, ib |-> ib,
         local |-> local]
      Y == TRUE
      N == FALSE
  IN  {I(N, N, N, N, N, N), I(N, N, N, N, Y, N), I(N, N, N, Y, Y, N), I(N, Y, N, N, Y, N),
       I(N, N, Y, N, N, N), I(Y, N, N, Y, N, N), I(N, N, N, Y, N, Y)}

MCChars == {"/", "a", ":", "|", " ", "\""}
MCUsers == {<<"u", "v">>}

Init == ArgInit /\ SocketInit /\ WireInit

Settings ==
  /\ cpc = "address" /\ ~ zero /\ path = << >>
  /\ ArgNext
  /\ UNCHANGED <<socketVars, wireVars>>

Address ==
  /\ apc = "environment" /\ path = << >>
  /\ SocketNext
  /\ UNCHANGED <<argVars, wireVars>>

Text ==
  /\ apc = "environment" /\ cpc = "address" /\ ~ zero
  /\ WireNext
  /\ UNCHANGED <<argVars, socketVars>>

Spec == Init /\ [][Settings \/ Address \/ Text]_<<argVars, socketVars, wireVars>>

\* The type invariants: the settings are ints, the search stays in its range,
\* no message exceeds its buffer.
TypeOK == ArgTypeOK /\ SocketTypeOK /\ WireTypeOK
=============================================================================
