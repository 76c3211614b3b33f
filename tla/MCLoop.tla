------------------------------- MODULE MCLoop -------------------------------
(***************************************************************************)
(* The main loop with its commands, and the timers of one connection, for  *)
(* TLC.  They share nothing: a behaviour is one of MainLoop or one of      *)
(* Keepalive, the other keeps an initial state.                            *)
(***************************************************************************)
EXTENDS MainLoop, Keepalive

VARIABLE part

loopPart == <<part, vars, kaVars>>

MCInit ==
  /\ part \in {"loop", "timers"}
  /\ Init
  /\ KeepaliveInit /\ (part = "loop" => reliable = (TRUE \in Transports))

InLoop == part = "loop" /\ UNCHANGED <<part, kaVars>>
InTimers == part = "timers" /\ UNCHANGED <<part, vars>>

MCNext == (InLoop /\ Next) \/ (InTimers /\ KeepaliveNext)

\* Fairness of MainLoop.  The timers need none.
MCFairness ==
  /\ WF_vars(InLoop /\ Runs) /\ WF_vars(InLoop /\ SetPollFlag)
  /\ WF_vars(InLoop /\ Pending /\ WakeForEvent)

MCSpec == MCInit /\ [][MCNext]_loopPart /\ MCFairness
=============================================================================
