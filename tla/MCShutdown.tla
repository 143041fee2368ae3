----------------------------- MODULE MCShutdown -----------------------------
(***************************************************************************)
(* Instances of Shutdown: the child fails, is killed or is stopped.        *)
(***************************************************************************)
EXTENDS Shutdown, TLC

MCOutcomes ==
  {<<"exited", 1>>, <<"signaled", 15>>, <<"stopped", 19>>}

\* Fewer ways for it to end, where only the number of cleanups matters.
MCOneOutcome == {<<"exited", 1>>}

\* The handler threads of a slave are interchangeable.
MCSymmetry == Permutations(Linkers)

\* The master with two slaves, and a bound on what happens at once: in a
\* behaviour with a signal rank 2 stays silent, and the child is only stopped.
NoSignal == signals = 0 /\ ~ flag /\ ~ libc

MCMasterNext ==
  \/ StartListener \/ WriteFile \/ WriteWrapper \/ UnlockKeepAlive \/ Fork
  \/ WaitPid \/ KeepAliveStarts \/ KeepAliveEnds \/ KeepAliveAborts
  \/ ListenerSeesFlag
  \/ \E th \in MThreads : Signal(th) \/ Cleanup(th)
  \/ \E o \in Outcomes : (NoSignal \/ o[1] = "stopped") /\ ChildChanges(o)
  \/ \E r \in Slaves : \/ (NoSignal \/ r # 2) /\ Alloc(r)
                       \/ Fill(r) \/ CompareBlank(r)

MCMasterSpec == Init /\ [][MCMasterNext]_vars /\ Fairness
=============================================================================
