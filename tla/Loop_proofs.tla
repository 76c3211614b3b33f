---------------------------- MODULE Loop_proofs ----------------------------
(***************************************************************************)
(* The main loop and its timers, which share nothing but the sleep.        *)
(*                                                                         *)
(* MainLoop for every bound, every set of commands and every setting of    *)
(* the reconnection timers: the time ssl_reconnect() spends in pauses, and *)
(* which sessions the loop leaves without closing them.                    *)
(*                                                                         *)
(* Keepalive for every setting of the timers and every length of time: a   *)
(* dead peer is given up in time, keepalives and rekeyings are not late,   *)
(* and a peer that answers in time is kept.                                *)
(***************************************************************************)
EXTENDS MainLoop, Keepalive, TLAPS

Reconnecting == {"connect", "failed", "pausing", "listening", "paused"}
Sleeping     == {"pausing", "listening", "paused"}

\* What has been slept and what is left add up to the whole, and nobody goes to
\* sleep with nothing left.
BudgetKept ==
  /\ pc \in Reconnecting => slept = ReconnectTimeout - timeout
  /\ pc \in Sleeping => timeout > 0
  /\ slept < ReconnectTimeout + IntervalMax

\* Every command that is in the pipe, or has been obeyed, was given.
CommandsGiven ==
  /\ \A i \in 1 .. Len(pipe) : pipe[i] \in asked
  /\ cancel_type = "detach" => "detach" \in asked
  /\ got_cancel_cmd => cancel_type # "none"

\* The ways out of the loop: with a reason to close the session, or for a call
\* that was refused, or for a detach.
WaysOut ==
  /\ pc \notin {"quit", "done"} => quit_reason = "none" /\ refused = "none"
  /\ pc = "failed" => ret # "-ECONNABORTED"
  /\ pc = "quit"
       => \/ quit_reason # "none" /\ refused = "none" /\ ret # "-ECONNABORTED"
          \/ quit_reason = "none" /\ refused # "none"
          \/ quit_reason = "none" /\ ret = "-ECONNABORTED" /\ "detach" \in asked

\* TypeOK in two halves: the flags, which are truth values, and the rest.
FlagsOK ==
  /\ flagging \in BOOLEAN /\ need_poll_cmd_fd \in BOOLEAN
  /\ got_cancel_cmd \in BOOLEAN /\ got_pause_cmd \in BOOLEAN
  /\ ssl_up \in BOOLEAN /\ tun_up \in BOOLEAN /\ did_work \in BOOLEAN

ValuesOK ==
  /\ pc \in Places
  /\ pipe \in Seq(Commands)
  /\ cancel_type \in {"none", "cancel", "detach"}
  /\ delay_close \in {"no", "wait", "callback"}
  /\ quit_reason \in {"none", "aborted_by_caller", "reconnect_failed", "server_request",
                     "no_tun_device"}
  /\ ret \in {"0", "-EINTR", "-ECONNABORTED", "-EPIPE", "-EPERM", "-EIO"}
  /\ timeout \in Int /\ interval \in 0 .. IntervalMax /\ slept \in Nat
  /\ close_session \in {"not_called", "logged_off", "aborted"}
  /\ asked \subseteq Commands /\ given \in 0 .. MaxCommands
  /\ refused \in {"none", "script", "user", "sleep"}
  /\ losses \in 0 .. MaxLosses /\ delays \in 0 .. MaxDelays

IInv == FlagsOK /\ ValuesOK /\ BudgetKept /\ CommandsGiven /\ WaysOut /\ OnlyDetachKeepsSession

USE MainLoopAssumption DEF MainLoopAssumption

\* The reader of the pipe keeps the commands' type, and only learns of commands
\* that were given.
LEMMA ReadingCommands ==
  ASSUME pipe \in Seq(Commands), cancel_type \in {"none", "cancel", "detach"},
         CommandsGiven, check_cmd_fd, asked' = asked
  PROVE  /\ pipe' \in Seq(Commands)
         /\ cancel_type' \in {"none", "cancel", "detach"}
         /\ CommandsGiven'
<1> DEFINE cmd == Head(pipe)
<1>1. /\ pipe # <<>> /\ pipe' = Tail(pipe)
      /\ got_cancel_cmd' = (got_cancel_cmd \/ cmd \in {"cancel", "detach"})
      /\ cancel_type' = IF cmd \in {"cancel", "detach"} THEN cmd ELSE cancel_type
      /\ got_pause_cmd' = (got_pause_cmd \/ cmd = "pause")
  BY DEF check_cmd_fd
<1>2. Len(pipe) \in Nat /\ Len(pipe) > 0 /\ cmd = pipe[1] /\ cmd \in asked
  BY <1>1 DEF CommandsGiven
<1>3. pipe' \in Seq(Commands) /\ \A i \in 1 .. Len(pipe') : pipe'[i] \in asked
  BY <1>1, <1>2 DEF CommandsGiven
<1> HIDE DEF cmd
<1>4. /\ cancel_type' \in {"none", "cancel", "detach"}
      /\ cancel_type' = "detach" => "detach" \in asked
      /\ got_cancel_cmd' => cancel_type' # "none"
  BY <1>1, <1>2 DEF CommandsGiven
<1> QED
  BY <1>3, <1>4 DEF CommandsGiven

\* The next pause is never longer than RECONNECT_INTERVAL_MAX.
LEMMA NextIntervalType == ASSUME interval \in Nat PROVE NextInterval \in 0 .. IntervalMax
BY DEF NextInterval

LEMMA TypeHalves == TypeOK <=> FlagsOK /\ ValuesOK
BY DEF TypeOK, FlagsOK, ValuesOK

LEMMA InitIInv == Init => IInv
<1>1. Init => FlagsOK
  BY DEF Init, FlagsOK
<1>2. Init => ValuesOK
  BY DEF Init, ValuesOK, Places
<1>3. Init => BudgetKept /\ CommandsGiven
  BY DEF Init, BudgetKept, Reconnecting, Sleeping, CommandsGiven
<1>4. Init => WaysOut /\ OnlyDetachKeepsSession
  BY DEF Init, WaysOut, OnlyDetachKeepsSession
<1> QED
  BY <1>1, <1>2, <1>3, <1>4 DEF IInv

\* The flags are set and cleared, never anything else.
LEMMA FlagsStep == FlagsOK /\ [Next]_vars => FlagsOK'
<1> SUFFICES ASSUME FlagsOK, [Next]_vars PROVE FlagsOK'
  OBVIOUS
<1> USE DEF FlagsOK, linkVars, loopVars, commandVars, reconnectVars, outsideVars
<1>1. CASE UNCHANGED vars
  BY <1>1 DEF vars
<1>2. ASSUME NEW cmd \in Commands, WriteCommand(cmd) PROVE FlagsOK'
  BY <1>2 DEF WriteCommand, ValuesOK
<1>3. CASE SetPollFlag
  BY <1>3 DEF SetPollFlag
<1>4. CASE Enter \/ Top \/ TunDelayed \/ TunSetUp \/ TunFails \/ ChangeUserFails
  BY <1>4 DEF Enter, Top, TunDelayed, TunSetUp, TunFails, ChangeUserFails
<1>5. CASE TcpQuiet \/ TcpServerQuits
  BY <1>5 DEF TcpQuiet, TcpServerQuits
<1>6. CASE TcpLost
  BY <1>6 DEF TcpLost
<1>7. CASE ConnectWorks \/ ConnectFails
  BY <1>7 DEF ConnectWorks, ConnectFails
<1>8. CASE ConnectFailed
  BY <1>8 DEF ConnectFailed
<1>9. CASE PauseListens \/ PauseTimesOut
  BY <1>9 DEF PauseListens, PauseTimesOut
<1>10. CASE PauseOver
  BY <1>10 DEF PauseOver
<1>11. CASE PauseCut
  BY <1>11 DEF PauseCut
<1>12. CASE Poll \/ PollEmpty \/ NothingToObey
  BY <1>12 DEF Poll, PollEmpty, NothingToObey
<1>13. CASE ObeyLater \/ ObeyCancel \/ ObeyPause
  BY <1>13 DEF ObeyLater, ObeyCancel, ObeyPause
<1>14. CASE WakeForWork \/ WakeForEvent \/ SleepFails
  BY <1>14 DEF WakeForWork, WakeForEvent, SleepFails
<1>15. CASE Quit
  BY <1>15 DEF Quit
<1>16. CASE ConnectReadsCommand \/ PauseReads \/ PollReads
  BY <1>16 DEF ConnectReadsCommand, PauseReads, PollReads, check_cmd_fd
<1> QED
  BY <1>1, <1>2, <1>3, <1>4, <1>5, <1>6, <1>7, <1>8, <1>9,
     <1>10, <1>11, <1>12, <1>13, <1>14, <1>15, <1>16
     DEF Next, Caller, Runs, Finished

\* No step leaves the ranges of the values; a pause is cut to its maximum.
LEMMA ValuesStep == ValuesOK /\ CommandsGiven /\ [Next]_vars => ValuesOK'
<1> SUFFICES ASSUME ValuesOK, CommandsGiven, [Next]_vars PROVE ValuesOK'
  OBVIOUS
<1> USE DEF ValuesOK, Places, linkVars, loopVars, commandVars, reconnectVars, outsideVars
<1>1. CASE UNCHANGED vars
  BY <1>1 DEF vars
<1>2. ASSUME NEW cmd \in Commands, WriteCommand(cmd) PROVE ValuesOK'
  BY <1>2 DEF WriteCommand, ValuesOK
<1>3. CASE SetPollFlag
  BY <1>3 DEF SetPollFlag
<1>4. CASE Enter
  BY <1>4 DEF Enter
<1>5. CASE Top
  BY <1>5 DEF Top
<1>6. CASE TunDelayed
  BY <1>6 DEF TunDelayed
<1>7. CASE TunSetUp
  BY <1>7 DEF TunSetUp
<1>8. CASE TunFails
  BY <1>8 DEF TunFails
<1>9. CASE TcpQuiet
  BY <1>9 DEF TcpQuiet
<1>10. CASE TcpServerQuits
  BY <1>10 DEF TcpServerQuits
<1>11. CASE TcpLost
  BY <1>11 DEF TcpLost
<1>12. CASE ConnectWorks
  BY <1>12 DEF ConnectWorks
<1>13. CASE ConnectFails
  BY <1>13 DEF ConnectFails
<1>14. CASE ConnectFailed
  BY <1>14 DEF ConnectFailed, GivesUp
<1>15. CASE PauseListens
  BY <1>15 DEF PauseListens
<1>16. CASE PauseTimesOut
  BY <1>16 DEF PauseTimesOut
<1>17. CASE PauseOver
  <2>1. interval' \in 0 .. IntervalMax
    BY <1>17, NextIntervalType DEF PauseOver
  <2> QED
    BY <1>17, <2>1 DEF PauseOver
<1>18. CASE PauseCut
  BY <1>18 DEF PauseCut
<1>19. CASE Poll
  BY <1>19 DEF Poll
<1>20. CASE PollEmpty
  BY <1>20 DEF PollEmpty
<1>21. CASE NothingToObey
  BY <1>21 DEF NothingToObey
<1>22. CASE ObeyLater
  BY <1>22 DEF ObeyLater
<1>23. CASE ObeyCancel
  BY <1>23 DEF ObeyCancel
<1>24. CASE ObeyPause
  BY <1>24 DEF ObeyPause
<1>25. CASE WakeForWork
  BY <1>25 DEF WakeForWork
<1>26. CASE WakeForEvent
  BY <1>26 DEF WakeForEvent
<1>27. CASE Quit
  BY <1>27 DEF Quit
<1>28. CASE SleepFails
  BY <1>28 DEF SleepFails
<1>29. CASE ChangeUserFails
  BY <1>29 DEF ChangeUserFails
<1>30. CASE ConnectReadsCommand \/ PauseReads \/ PollReads
  <2>1. check_cmd_fd /\ asked' = asked
    BY <1>30 DEF ConnectReadsCommand, PauseReads, PollReads
  <2>2. pipe' \in Seq(Commands) /\ cancel_type' \in {"none", "cancel", "detach"}
    BY <2>1, ReadingCommands
  <2> QED
    BY ZenonT(60), <1>30, <2>2 DEF ConnectReadsCommand, PauseReads, PollReads
<1> QED
  BY <1>1, <1>2, <1>3, <1>4, <1>5, <1>6, <1>7, <1>8, <1>9,
     <1>10, <1>11, <1>12, <1>13, <1>14, <1>15, <1>16, <1>17, <1>18,
     <1>19, <1>20, <1>21, <1>22, <1>23, <1>24, <1>25, <1>26, <1>27,
     <1>28, <1>29, <1>30
     DEF Next, Caller, Runs, Finished

\* Time is only taken from the budget by a pause, which starts with some left.
LEMMA BudgetStep == BudgetKept /\ ValuesOK /\ [Next]_vars => BudgetKept'
<1> SUFFICES ASSUME BudgetKept, ValuesOK, [Next]_vars PROVE BudgetKept'
  OBVIOUS
<1> USE DEF BudgetKept, Reconnecting, Sleeping, linkVars, loopVars, commandVars, reconnectVars, outsideVars
<1>1. CASE UNCHANGED vars
  BY <1>1 DEF vars
<1>2. ASSUME NEW cmd \in Commands, WriteCommand(cmd) PROVE BudgetKept'
  BY <1>2 DEF WriteCommand, ValuesOK
<1>3. CASE SetPollFlag
  BY <1>3 DEF SetPollFlag
<1>4. CASE Enter \/ Top \/ TunDelayed \/ TunSetUp \/ TunFails \/ ChangeUserFails
  BY <1>4 DEF Enter, Top, TunDelayed, TunSetUp, TunFails, ChangeUserFails
<1>5. CASE TcpQuiet \/ TcpServerQuits
  BY <1>5 DEF TcpQuiet, TcpServerQuits
<1>6. CASE TcpLost
  BY <1>6 DEF TcpLost, ValuesOK
<1>7. CASE ConnectWorks \/ ConnectFails
  BY <1>7 DEF ConnectWorks, ConnectFails
<1>8. CASE ConnectFailed
  BY <1>8 DEF ConnectFailed, GivesUp, ValuesOK
<1>9. CASE PauseListens \/ PauseTimesOut
  BY <1>9 DEF PauseListens, PauseTimesOut
<1>10. CASE PauseOver
  <2>1. interval \in 0 .. IntervalMax /\ timeout \in Int /\ slept \in Nat
    BY DEF ValuesOK
  <2> QED
    BY <1>10, <2>1 DEF PauseOver
<1>11. CASE PauseCut
  BY <1>11 DEF PauseCut
<1>12. CASE Poll \/ PollEmpty \/ NothingToObey
  BY <1>12 DEF Poll, PollEmpty, NothingToObey
<1>13. CASE ObeyLater \/ ObeyCancel \/ ObeyPause
  BY <1>13 DEF ObeyLater, ObeyCancel, ObeyPause
<1>14. CASE WakeForWork \/ WakeForEvent \/ SleepFails
  BY <1>14 DEF WakeForWork, WakeForEvent, SleepFails
<1>15. CASE Quit
  BY <1>15 DEF Quit
<1>16. CASE ConnectReadsCommand \/ PauseReads \/ PollReads
  BY <1>16 DEF ConnectReadsCommand, PauseReads, PollReads
<1> QED
  BY <1>1, <1>2, <1>3, <1>4, <1>5, <1>6, <1>7, <1>8, <1>9,
     <1>10, <1>11, <1>12, <1>13, <1>14, <1>15, <1>16
     DEF Next, Caller, Runs, Finished

\* Only the caller gives commands.
LEMMA CommandsStep == CommandsGiven /\ ValuesOK /\ [Next]_vars => CommandsGiven'
<1> SUFFICES ASSUME CommandsGiven, ValuesOK, [Next]_vars PROVE CommandsGiven'
  OBVIOUS
<1> USE DEF CommandsGiven, linkVars, loopVars, commandVars, reconnectVars, outsideVars
<1>1. CASE UNCHANGED vars
  BY <1>1 DEF vars
<1>2. ASSUME NEW cmd \in Commands, WriteCommand(cmd) PROVE CommandsGiven'
  BY <1>2 DEF WriteCommand, ValuesOK
<1>3. CASE SetPollFlag
  BY <1>3 DEF SetPollFlag
<1>4. CASE Enter \/ Top \/ TunDelayed \/ TunSetUp \/ TunFails \/ ChangeUserFails
  BY <1>4 DEF Enter, Top, TunDelayed, TunSetUp, TunFails, ChangeUserFails
<1>5. CASE TcpQuiet \/ TcpServerQuits
  BY <1>5 DEF TcpQuiet, TcpServerQuits
<1>6. CASE TcpLost
  BY <1>6 DEF TcpLost
<1>7. CASE ConnectWorks \/ ConnectFails
  BY <1>7 DEF ConnectWorks, ConnectFails
<1>8. CASE ConnectFailed
  BY <1>8 DEF ConnectFailed
<1>9. CASE PauseListens \/ PauseTimesOut
  BY <1>9 DEF PauseListens, PauseTimesOut
<1>10. CASE PauseOver
  BY <1>10 DEF PauseOver
<1>11. CASE PauseCut
  BY <1>11 DEF PauseCut
<1>12. CASE Poll \/ PollEmpty \/ NothingToObey
  BY <1>12 DEF Poll, PollEmpty, NothingToObey
<1>13. CASE ObeyLater \/ ObeyCancel \/ ObeyPause
  BY <1>13 DEF ObeyLater, ObeyCancel, ObeyPause
<1>14. CASE WakeForWork \/ WakeForEvent \/ SleepFails
  BY <1>14 DEF WakeForWork, WakeForEvent, SleepFails
<1>15. CASE Quit
  BY <1>15 DEF Quit
<1>16. CASE ConnectReadsCommand \/ PauseReads \/ PollReads
  <2>1. check_cmd_fd /\ asked' = asked
    BY <1>16 DEF ConnectReadsCommand, PauseReads, PollReads
  <2> QED
    BY <2>1, ReadingCommands DEF ValuesOK
<1> QED
  BY <1>1, <1>2, <1>3, <1>4, <1>5, <1>6, <1>7, <1>8, <1>9,
     <1>10, <1>11, <1>12, <1>13, <1>14, <1>15, <1>16
     DEF Next, Caller, Runs, Finished

\* The loop ends without a quit_reason for a detach or a refused call, and no other way.
LEMMA WaysOutStep == WaysOut /\ ValuesOK /\ CommandsGiven /\ OnlyDetachKeepsSession /\ [Next]_vars => WaysOut' /\ OnlyDetachKeepsSession'
<1> SUFFICES ASSUME WaysOut, ValuesOK, CommandsGiven, OnlyDetachKeepsSession, [Next]_vars PROVE WaysOut' /\ OnlyDetachKeepsSession'
  OBVIOUS
<1> USE DEF WaysOut, OnlyDetachKeepsSession, linkVars, loopVars, commandVars, reconnectVars, outsideVars
<1>1. CASE UNCHANGED vars
  BY <1>1 DEF vars
<1>2. ASSUME NEW cmd \in Commands, WriteCommand(cmd) PROVE WaysOut' /\ OnlyDetachKeepsSession'
  BY <1>2 DEF WriteCommand
<1>3. CASE SetPollFlag
  BY <1>3 DEF SetPollFlag
<1>4. CASE Enter \/ Top \/ TunDelayed \/ TunSetUp \/ TunFails \/ ChangeUserFails
  BY <1>4 DEF Enter, Top, TunDelayed, TunSetUp, TunFails, ChangeUserFails
<1>5. CASE TcpQuiet \/ TcpServerQuits
  BY <1>5 DEF TcpQuiet, TcpServerQuits
<1>6. CASE TcpLost
  BY <1>6 DEF TcpLost
<1>7. CASE ConnectWorks \/ ConnectFails
  BY <1>7 DEF ConnectWorks, ConnectFails
<1>8. CASE ConnectFailed
  BY <1>8 DEF ConnectFailed, GivesUp
<1>9. CASE PauseListens \/ PauseTimesOut
  BY <1>9 DEF PauseListens, PauseTimesOut
<1>10. CASE PauseOver
  BY <1>10 DEF PauseOver
<1>11. CASE PauseCut
  BY <1>11 DEF PauseCut
<1>12. CASE Poll \/ PollEmpty \/ NothingToObey
  BY <1>12 DEF Poll, PollEmpty, NothingToObey
<1>13. CASE ObeyLater \/ ObeyCancel \/ ObeyPause
  BY <1>13 DEF ObeyLater, ObeyCancel, ObeyPause, CommandsGiven, ValuesOK
<1>14. CASE WakeForWork \/ WakeForEvent \/ SleepFails
  BY <1>14 DEF WakeForWork, WakeForEvent, SleepFails
<1>15. CASE Quit
  BY <1>15 DEF Quit
<1>16. CASE ConnectReadsCommand \/ PauseReads \/ PollReads
  BY <1>16 DEF ConnectReadsCommand, PauseReads, PollReads
<1> QED
  BY <1>1, <1>2, <1>3, <1>4, <1>5, <1>6, <1>7, <1>8, <1>9,
     <1>10, <1>11, <1>12, <1>13, <1>14, <1>15, <1>16
     DEF Next, Caller, Runs, Finished

LEMMA AlwaysIInv == Spec => []IInv
<1>1. IInv /\ [Next]_vars => IInv'
  BY FlagsStep, ValuesStep, BudgetStep, CommandsStep, WaysOutStep DEF IInv
<1> QED
  BY InitIInv, <1>1, PTL DEF Spec

\* Every variable keeps its type: ret, quit_reason and interval stay among the
\* values the code's callers know.
THEOREM TypeCorrect == Spec => []TypeOK
<1>1. IInv => TypeOK
  BY TypeHalves DEF IInv
<1> QED
  BY <1>1, AlwaysIInv, PTL

\* ssl_reconnect() sleeps for less than reconnect_timeout and one maximal
\* interval more, whatever the two settings are.
THEOREM SleepsBounded == Spec => []ReconnectTimeBounded
<1>1. IInv => ReconnectTimeBounded
  BY DEF IInv, BudgetKept, ReconnectTimeBounded
<1> QED
  BY <1>1, AlwaysIInv, PTL

\* For every sequence of commands, losses and failures a session whose tunnel has
\* been up ends without an attempt to close it exactly when a detach was obeyed or
\* the system refused the script's socket, the change of user or the sleep.
THEOREM SessionsAreClosed == Spec => []OnlyDetachKeepsSession
<1>1. IInv => OnlyDetachKeepsSession
  BY DEF IInv
<1> QED
  BY <1>1, AlwaysIInv, PTL

-----------------------------------------------------------------------------
\* The timers.

\* The range of the times is part of what has to be known of them.
KaFlagsOK == queue \in BOOLEAN /\ alive \in BOOLEAN /\ reliable \in Transports

KaValuesOK ==
  /\ ka_pc \in {"write", "decide", "asleep"}
  /\ now \in 0 .. Horizon /\ wake \in Nat
  /\ last_rx \in 0 .. now /\ last_tx \in 0 .. now
  /\ last_dpd \in 0 .. now /\ last_rekey \in 0 .. now
  /\ writing \in {"none", "dpd", "keepalive", "data"}
  /\ since \in {None} \cup (0 .. now)
  /\ answer \in {None} \cup Nat
  /\ lost \in 0 .. MaxLoss

\* What is being written where, and that DTLS never waits for a write.
Writing ==
  /\ ka_pc = "write" <=> writing # "none" /\ ka_pc # "asleep"
  /\ ka_pc = "asleep" => (since # None <=> writing # "none")
  /\ writing = "none" => since = None
  /\ since # None => reliable
  /\ ~ reliable /\ writing = "dpd" => last_dpd = now
  /\ reliable => lost = 0

\* The sleep ends with the first deadline.
WokenInTime ==
  ka_pc = "asleep" =>
    /\ now <= wake
    /\ RekeyMethod # "none" => wake <= last_rekey + Rekey
    /\ Dpd # 0 /\ writing = "none" => wake <= due
    /\ Dpd # 0 /\ writing # "none" => wake <= overdue
    /\ KeepalivePeriod # 0 /\ writing = "none" => wake <= last_tx + KeepalivePeriod

\* A DPD is sent before the peer is overdue.
AskedInTime == Dpd # 0 => last_dpd <= overdue

\* What a peer may be late because of stalls and lost.
Slack == IF reliable THEN MaxStall ELSE 0
Lost  == IF lost = 0 THEN 0 ELSE Dpd \div 2
Start == IF since = None THEN now ELSE since

\* Where a live peer is in answering: an answer is on its way, or a DPD is being
\* written, or none is out, or the one that was is lost and will be repeated.
AnsweredInTime ==
  alive /\ Dpd # 0 =>
    /\ answer # None => /\ now <= answer /\ answer <= now + Delay
                        /\ answer <= last_rx + Dpd + 2 * Slack + Lost + Delay
    /\ since # None => now <= since + MaxStall
    /\ answer = None /\ writing = "dpd" => Start <= last_rx + Dpd + Slack + Lost
    /\ answer = None /\ writing # "dpd" /\ last_dpd <= last_rx =>
         Start <= last_rx + Dpd + (IF ka_pc = "decide" THEN Slack ELSE 0)
    /\ answer = None /\ writing # "dpd" /\ last_dpd > last_rx =>
         /\ ~ reliable /\ lost = 1
         /\ last_dpd <= last_rx + Dpd /\ now <= last_dpd + Dpd \div 2

KaInv == /\ KaFlagsOK /\ KaValuesOK /\ Writing /\ WokenInTime /\ AskedInTime
        /\ RekeyOnTime /\ KeepaliveSent /\ DeadPeerFound

HIDE MainLoopAssumption DEF MainLoopAssumption
USE KeepaliveAssumption DEF KeepaliveAssumption, None

LEMMA Half == Dpd \div 2 \in Nat /\ 2 * (Dpd \div 2) <= Dpd
OBVIOUS

\* The sleep is no longer than any deadline, and ends when one of them is met.
LEMMA SleepIsShort ==
  ASSUME NEW deadlines \in SUBSET Nat, SleepUntil(deadlines), \A d \in deadlines : d >= now,
         now \in 0 .. Horizon
  PROVE  wake' \in Nat /\ now <= wake' /\ \A d \in deadlines : wake' <= d
BY DEF SleepUntil

LEMMA Between ==
  \A n, w, r, h \in Nat : n <= w /\ w <= r + 2 * Dpd + h => n - r <= 2 * Dpd + h
OBVIOUS

LEMMA KaInvInit == KeepaliveInit => KaInv
<1> SUFFICES ASSUME KeepaliveInit PROVE KaInv
  OBVIOUS
<1> USE DEF KeepaliveInit
<1>1. KaFlagsOK
  BY DEF KaFlagsOK
<1>2. KaValuesOK
  BY DEF KaValuesOK
<1>3. Writing /\ WokenInTime /\ AskedInTime
  BY DEF Writing, WokenInTime, AskedInTime, overdue
<1>4. RekeyOnTime /\ KeepaliveSent /\ DeadPeerFound
  BY Half DEF RekeyOnTime, KeepaliveSent, DeadPeerFound
<1> QED
  BY <1>1, <1>2, <1>3, <1>4 DEF KaInv

\* The flags are set and cleared, never anything else.
LEMMA KaFlagsStep ==
  KaFlagsOK /\ [KeepaliveNext]_kaVars => KaFlagsOK'
<1> SUFFICES ASSUME KaFlagsOK, [KeepaliveNext]_kaVars PROVE KaFlagsOK'
  OBVIOUS
<1> USE DEF KaFlagsOK, times, peer
<1>0. reliable' = reliable
  BY DEF KeepaliveNext, kaVars
<1>1. CASE UNCHANGED kaVars
  BY <1>1 DEF kaVars
<1>2. CASE TimeIsOver
  BY <1>2 DEF TimeIsOver, kaVars
<1>3. CASE Rekeys
  BY <1>0, <1>3 DEF Rekeys, Reconnect, Round, Renews
<1>4. CASE PeerDead
  BY <1>0, <1>4 DEF PeerDead, Reconnect, Round
<1>5. CASE SendsDpd
  BY <1>0, <1>5 DEF SendsDpd
<1>6. CASE SendsKeepalive
  BY <1>0, <1>6 DEF SendsKeepalive, Unprompted
<1>7. CASE SendsData
  BY <1>0, <1>7 DEF SendsData, Unprompted
<1>8. CASE Sleeps
  BY <1>0, <1>8 DEF Sleeps, Unprompted, SleepUntil
<1>9. CASE Writes
  BY <1>0, <1>9 DEF Writes, Asked
<1>10. CASE Stalls
  BY <1>0, <1>10 DEF Stalls, Stall, SleepUntil
<1>11. CASE StallEndsInRekey
  BY <1>0, <1>11 DEF StallEndsInRekey, Stall, Reconnect, Round, Renews
<1>12. CASE StallEndsDead
  BY <1>0, <1>12 DEF StallEndsDead, Stall, Reconnect, Round
<1>13. CASE TimerFires
  BY <1>0, <1>13 DEF TimerFires, Round
<1>14. CASE SocketWritable
  BY <1>0, <1>14 DEF SocketWritable
<1>15. CASE TunReadable
  BY <1>0, <1>15 DEF TunReadable, Round
<1>16. CASE Receives
  BY <1>0, <1>16 DEF Receives, Round
<1>17. CASE PeerDies
  BY <1>0, <1>17 DEF PeerDies
<1>18. CASE Tick
  BY <1>0, <1>18 DEF Tick
<1> QED
  BY <1>1, <1>2, <1>3, <1>4, <1>5, <1>6, <1>7, <1>8, <1>9, <1>10, <1>11, <1>12, <1>13,
     <1>14, <1>15, <1>16, <1>17, <1>18 DEF KeepaliveNext, Step

\* No step leaves the ranges of the values.
LEMMA KaValuesStep ==
  KaValuesOK /\ [KeepaliveNext]_kaVars => KaValuesOK'
<1> SUFFICES ASSUME KaValuesOK, [KeepaliveNext]_kaVars PROVE KaValuesOK'
  OBVIOUS
<1> USE DEF KaValuesOK, times, peer
<1>0. reliable' = reliable
  BY DEF KeepaliveNext, kaVars
<1>1. CASE UNCHANGED kaVars
  BY <1>1 DEF kaVars
<1>2. CASE TimeIsOver
  BY <1>2 DEF TimeIsOver, kaVars
<1>3. CASE Rekeys
  BY <1>0, <1>3 DEF Rekeys, Reconnect, Round, Renews
<1>4. CASE PeerDead
  BY <1>0, <1>4 DEF PeerDead, Reconnect, Round
<1>5. CASE SendsDpd
  BY <1>0, <1>5 DEF SendsDpd
<1>6. CASE SendsKeepalive
  BY <1>0, <1>6 DEF SendsKeepalive, Unprompted
<1>7. CASE SendsData
  BY <1>0, <1>7 DEF SendsData, Unprompted
<1>8. CASE Sleeps
  <2>1. Deadlines \in SUBSET Nat /\ \A d \in Deadlines : d >= now
    BY <1>0, <1>8, Half DEF Sleeps, Unprompted, Deadlines, RekeyDue, DpdDue, KeepaliveDue, due, KaValuesOK
  <2>2. wake' \in Nat /\ now <= wake' /\ \A d \in Deadlines : wake' <= d
    BY <1>0, <1>8, <2>1, SleepIsShort DEF Sleeps, KaValuesOK
  <2> QED
    BY <1>0, <1>8, <2>2 DEF Sleeps, SleepUntil
<1>9. CASE Writes
  BY <1>0, <1>9 DEF Writes, Asked
<1>10. CASE Stalls
  <2>1. StalledDeadlines \in SUBSET Nat /\ \A d \in StalledDeadlines : d >= now
    BY <1>0, <1>10 DEF Stalls, StalledDeadlines, RekeyDue, overdue, KaValuesOK
  <2>2. wake' \in Nat /\ now <= wake' /\ \A d \in StalledDeadlines : wake' <= d
    BY <1>0, <1>10, <2>1, SleepIsShort DEF Stalls, KaValuesOK
  <2> QED
    BY <1>0, <1>10, <2>2 DEF Stalls, SleepUntil
<1>11. CASE StallEndsInRekey
  BY <1>0, <1>11 DEF StallEndsInRekey, Stall, Reconnect, Round, Renews
<1>12. CASE StallEndsDead
  BY <1>0, <1>12 DEF StallEndsDead, Stall, Reconnect, Round
<1>13. CASE TimerFires
  BY <1>0, <1>13 DEF TimerFires, Round
<1>14. CASE SocketWritable
  BY <1>0, <1>14 DEF SocketWritable
<1>15. CASE TunReadable
  BY <1>0, <1>15 DEF TunReadable, Round
<1>16. CASE Receives
  BY <1>0, <1>16 DEF Receives, Round
<1>17. CASE PeerDies
  BY <1>0, <1>17 DEF PeerDies
<1>18. CASE Tick
  BY <1>0, <1>18 DEF Tick
<1> QED
  BY <1>1, <1>2, <1>3, <1>4, <1>5, <1>6, <1>7, <1>8, <1>9, <1>10, <1>11, <1>12, <1>13,
     <1>14, <1>15, <1>16, <1>17, <1>18 DEF KeepaliveNext, Step

\* A write is under way until it is done or the connection is replaced.
LEMMA WritingStep ==
  Writing /\ KaValuesOK /\ [KeepaliveNext]_kaVars => Writing'
<1> SUFFICES ASSUME Writing, KaValuesOK, [KeepaliveNext]_kaVars PROVE Writing'
  OBVIOUS
<1> USE DEF Writing, times, peer
<1>0. reliable' = reliable
  BY DEF KeepaliveNext, kaVars
<1>1. CASE UNCHANGED kaVars
  BY <1>1 DEF kaVars
<1>2. CASE TimeIsOver
  BY <1>2 DEF TimeIsOver, kaVars
<1>3. CASE Rekeys
  BY <1>0, <1>3 DEF Rekeys, Reconnect, Round, Renews
<1>4. CASE PeerDead
  BY <1>0, <1>4 DEF PeerDead, Reconnect, Round, KaValuesOK
<1>5. CASE SendsDpd
  BY <1>0, <1>5 DEF SendsDpd
<1>6. CASE SendsKeepalive
  BY <1>0, <1>6 DEF SendsKeepalive, Unprompted
<1>7. CASE SendsData
  BY <1>0, <1>7 DEF SendsData, Unprompted
<1>8. CASE Sleeps
  BY <1>0, <1>8 DEF Sleeps, Unprompted, SleepUntil
<1>9. CASE Writes
  BY <1>0, <1>9 DEF Writes, Asked
<1>10. CASE Stalls
  BY <1>0, <1>10 DEF Stalls, Stall, SleepUntil, KaValuesOK
<1>11. CASE StallEndsInRekey
  BY <1>0, <1>11 DEF StallEndsInRekey, Stall, Reconnect, Round, Renews
<1>12. CASE StallEndsDead
  BY <1>0, <1>12 DEF StallEndsDead, Stall, Reconnect, Round
<1>13. CASE TimerFires
  BY <1>0, <1>13 DEF TimerFires, Round
<1>14. CASE SocketWritable
  BY <1>0, <1>14 DEF SocketWritable
<1>15. CASE TunReadable
  BY <1>0, <1>15 DEF TunReadable, Round
<1>16. CASE Receives
  BY <1>0, <1>16 DEF Receives, Round, KaValuesOK
<1>17. CASE PeerDies
  BY <1>0, <1>17 DEF PeerDies
<1>18. CASE Tick
  BY <1>0, <1>18 DEF Tick, KaValuesOK
<1> QED
  BY <1>1, <1>2, <1>3, <1>4, <1>5, <1>6, <1>7, <1>8, <1>9, <1>10, <1>11, <1>12, <1>13,
     <1>14, <1>15, <1>16, <1>17, <1>18 DEF KeepaliveNext, Step

\* The loop goes to sleep with all deadlines ahead, and no time moves while it sleeps.
LEMMA WokenStep ==
  WokenInTime /\ KaValuesOK /\ Writing /\ AskedInTime /\ [KeepaliveNext]_kaVars => WokenInTime'
<1> SUFFICES ASSUME WokenInTime, KaValuesOK, Writing, AskedInTime, [KeepaliveNext]_kaVars PROVE WokenInTime'
  OBVIOUS
<1> USE DEF WokenInTime, due, overdue, times, peer
<1>0. reliable' = reliable
  BY DEF KeepaliveNext, kaVars
<1>1. CASE UNCHANGED kaVars
  BY <1>1 DEF kaVars
<1>2. CASE TimeIsOver
  BY <1>2 DEF TimeIsOver, kaVars
<1>3. CASE Rekeys
  BY <1>0, <1>3 DEF Rekeys, Reconnect, Round, Renews
<1>4. CASE PeerDead
  BY <1>0, <1>4 DEF PeerDead, Reconnect, Round
<1>5. CASE SendsDpd
  BY <1>0, <1>5 DEF SendsDpd
<1>6. CASE SendsKeepalive
  BY <1>0, <1>6 DEF SendsKeepalive, Unprompted
<1>7. CASE SendsData
  BY <1>0, <1>7 DEF SendsData, Unprompted
<1>8. CASE Sleeps
  <2>1. Deadlines \in SUBSET Nat /\ \A d \in Deadlines : d >= now
    BY <1>0, <1>8, Half DEF Sleeps, Unprompted, Deadlines, RekeyDue, DpdDue, KeepaliveDue, due, KaValuesOK
  <2>2. wake' \in Nat /\ now <= wake' /\ \A d \in Deadlines : wake' <= d
    BY <1>0, <1>8, <2>1, SleepIsShort DEF Sleeps, KaValuesOK
  <2>3. writing' = "none"
    BY <1>0, <1>8 DEF Sleeps, Unprompted, Writing, SleepUntil
  <2>4. /\ RekeyMethod # "none" => wake' <= last_rekey + Rekey
        /\ Dpd # 0 => wake' <= due
        /\ KeepalivePeriod # 0 => wake' <= last_tx + KeepalivePeriod
    BY <2>2 DEF Deadlines
  <2> QED
    BY <1>0, <1>8, <2>2, <2>3, <2>4 DEF Sleeps, SleepUntil
<1>9. CASE Writes
  BY <1>0, <1>9 DEF Writes, Asked
<1>10. CASE Stalls
  <2>1. StalledDeadlines \in SUBSET Nat /\ \A d \in StalledDeadlines : d >= now
    BY <1>0, <1>10 DEF Stalls, StalledDeadlines, RekeyDue, overdue, KaValuesOK
  <2>2. wake' \in Nat /\ now <= wake' /\ \A d \in StalledDeadlines : wake' <= d
    BY <1>0, <1>10, <2>1, SleepIsShort DEF Stalls, KaValuesOK
  <2>3. writing' # "none"
    BY <1>0, <1>10 DEF Stalls, Stall, Writing
  <2>4. /\ RekeyMethod # "none" => wake' <= last_rekey + Rekey
        /\ Dpd # 0 => wake' <= overdue
    BY <2>2 DEF StalledDeadlines
  <2> QED
    BY <1>0, <1>10, <2>2, <2>3, <2>4 DEF Stalls, SleepUntil
<1>11. CASE StallEndsInRekey
  BY <1>0, <1>11 DEF StallEndsInRekey, Stall, Reconnect, Round, Renews
<1>12. CASE StallEndsDead
  BY <1>0, <1>12 DEF StallEndsDead, Stall, Reconnect, Round
<1>13. CASE TimerFires
  BY <1>0, <1>13 DEF TimerFires, Round
<1>14. CASE SocketWritable
  BY <1>0, <1>14 DEF SocketWritable
<1>15. CASE TunReadable
  BY <1>0, <1>15 DEF TunReadable, Round
<1>16. CASE Receives
  BY <1>0, <1>16 DEF Receives, Round
<1>17. CASE PeerDies
  BY <1>0, <1>17 DEF PeerDies
<1>18. CASE Tick
  BY <1>0, <1>18 DEF Tick, KaValuesOK
<1> QED
  BY <1>1, <1>2, <1>3, <1>4, <1>5, <1>6, <1>7, <1>8, <1>9, <1>10, <1>11, <1>12, <1>13,
     <1>14, <1>15, <1>16, <1>17, <1>18 DEF KeepaliveNext, Step

\* last_rx only moves forward, and DPD is not asked of a peer that is overdue.
LEMMA AskedStep ==
  AskedInTime /\ KaValuesOK /\ [KeepaliveNext]_kaVars => AskedInTime'
<1> SUFFICES ASSUME AskedInTime, KaValuesOK, [KeepaliveNext]_kaVars PROVE AskedInTime'
  OBVIOUS
<1> USE DEF AskedInTime, overdue, times, peer
<1>0. reliable' = reliable
  BY DEF KeepaliveNext, kaVars
<1>1. CASE UNCHANGED kaVars
  BY <1>1 DEF kaVars
<1>2. CASE TimeIsOver
  BY <1>2 DEF TimeIsOver, kaVars
<1>3. CASE Rekeys
  BY <1>0, <1>3 DEF Rekeys, Reconnect, Round, Renews, KaValuesOK
<1>4. CASE PeerDead
  BY <1>0, <1>4 DEF PeerDead, Reconnect, Round, KaValuesOK
<1>5. CASE SendsDpd
  BY <1>0, <1>5 DEF SendsDpd, KaValuesOK
<1>6. CASE SendsKeepalive
  BY <1>0, <1>6 DEF SendsKeepalive, Unprompted
<1>7. CASE SendsData
  BY <1>0, <1>7 DEF SendsData, Unprompted
<1>8. CASE Sleeps
  BY <1>0, <1>8 DEF Sleeps, Unprompted, SleepUntil
<1>9. CASE Writes
  BY <1>0, <1>9 DEF Writes, Asked
<1>10. CASE Stalls
  BY <1>0, <1>10 DEF Stalls, Stall, SleepUntil
<1>11. CASE StallEndsInRekey
  BY <1>0, <1>11 DEF StallEndsInRekey, Stall, Reconnect, Round, Renews, KaValuesOK
<1>12. CASE StallEndsDead
  BY <1>0, <1>12 DEF StallEndsDead, Stall, Reconnect, Round, KaValuesOK
<1>13. CASE TimerFires
  BY <1>0, <1>13 DEF TimerFires, Round
<1>14. CASE SocketWritable
  BY <1>0, <1>14 DEF SocketWritable
<1>15. CASE TunReadable
  BY <1>0, <1>15 DEF TunReadable, Round
<1>16. CASE Receives
  BY <1>0, <1>16 DEF Receives, Round, KaValuesOK
<1>17. CASE PeerDies
  BY <1>0, <1>17 DEF PeerDies
<1>18. CASE Tick
  BY <1>0, <1>18 DEF Tick
<1> QED
  BY <1>1, <1>2, <1>3, <1>4, <1>5, <1>6, <1>7, <1>8, <1>9, <1>10, <1>11, <1>12, <1>13,
     <1>14, <1>15, <1>16, <1>17, <1>18 DEF KeepaliveNext, Step

\* Time passes only while the loop sleeps, which it does not for too long.
LEMMA TimersStep ==
  RekeyOnTime /\ KeepaliveSent /\ DeadPeerFound /\ KaValuesOK /\ Writing /\ WokenInTime /\ AskedInTime /\ [KeepaliveNext]_kaVars => (RekeyOnTime /\ KeepaliveSent /\ DeadPeerFound)'
<1> SUFFICES ASSUME RekeyOnTime, KeepaliveSent, DeadPeerFound, KaValuesOK, Writing, WokenInTime, AskedInTime, [KeepaliveNext]_kaVars PROVE (RekeyOnTime /\ KeepaliveSent /\ DeadPeerFound)'
  OBVIOUS
<1> USE DEF RekeyOnTime, KeepaliveSent, DeadPeerFound, times, peer
<1>0. reliable' = reliable
  BY DEF KeepaliveNext, kaVars
<1>1. CASE UNCHANGED kaVars
  BY <1>1 DEF kaVars
<1>2. CASE TimeIsOver
  BY <1>2 DEF TimeIsOver, kaVars
<1>3. CASE Rekeys
  BY <1>0, <1>3, Half DEF Rekeys, Reconnect, Round, Renews, KaValuesOK
<1>4. CASE PeerDead
  BY <1>0, <1>4, Half DEF PeerDead, Reconnect, Round, KaValuesOK
<1>5. CASE SendsDpd
  BY <1>0, <1>5 DEF SendsDpd, KaValuesOK
<1>6. CASE SendsKeepalive
  BY <1>0, <1>6 DEF SendsKeepalive, Unprompted
<1>7. CASE SendsData
  BY <1>0, <1>7 DEF SendsData, Unprompted
<1>8. CASE Sleeps
  BY <1>0, <1>8 DEF Sleeps, Unprompted, SleepUntil
<1>9. CASE Writes
  <2>1. last_tx' = now /\ now' = now /\ last_rekey' = last_rekey /\ last_rx' = last_rx
    BY <1>0, <1>9 DEF Writes
  <2> QED
    BY <2>1 DEF KaValuesOK
<1>10. CASE Stalls
  BY <1>0, <1>10 DEF Stalls, Stall, SleepUntil, Writing
<1>11. CASE StallEndsInRekey
  BY <1>0, <1>11, Half DEF StallEndsInRekey, Stall, Reconnect, Round, Renews, KaValuesOK
<1>12. CASE StallEndsDead
  BY <1>0, <1>12, Half DEF StallEndsDead, Stall, Reconnect, Round, KaValuesOK
<1>13. CASE TimerFires
  BY <1>0, <1>13 DEF TimerFires, Round
<1>14. CASE SocketWritable
  BY <1>0, <1>14 DEF SocketWritable
<1>15. CASE TunReadable
  BY <1>0, <1>15 DEF TunReadable, Round
<1>16. CASE Receives
  BY <1>0, <1>16, Half DEF Receives, Round, KaValuesOK
<1>17. CASE PeerDies
  BY <1>0, <1>17 DEF PeerDies
<1>18. CASE Tick
  <2>1. /\ now' <= wake /\ last_rekey' = last_rekey /\ last_tx' = last_tx /\ last_rx' = last_rx
        /\ writing' = writing /\ now' \in Nat
    BY <1>0, <1>18 DEF Tick, KaValuesOK
  <2>2. RekeyOnTime' /\ KeepaliveSent'
    BY <1>0, <1>18, <2>1 DEF Tick, WokenInTime, KaValuesOK
  <2>3. Dpd # 0 => wake <= last_rx + 2 * Dpd + Dpd \div 2
    BY <1>0, <1>18, Half DEF Tick, WokenInTime, AskedInTime, due, overdue, KaValuesOK
  <2>4. now' <= wake /\ wake \in Nat /\ last_rx \in Nat /\ now' \in Nat
    BY <2>1 DEF KaValuesOK
  <2>5. Dpd # 0 => now' - last_rx <= 2 * Dpd + Dpd \div 2
    <3> DEFINE half == Dpd \div 2
    <3>1. half \in Nat /\ (Dpd # 0 => wake <= last_rx + 2 * Dpd + half)
      BY <2>3, Half
    <3> HIDE DEF half
    <3>2. Dpd # 0 => now' - last_rx <= 2 * Dpd + half
      BY <2>4, <3>1, Between
    <3> QED
      BY <3>2 DEF half
  <2> QED
    BY <2>1, <2>2, <2>5
<1> QED
  BY <1>1, <1>2, <1>3, <1>4, <1>5, <1>6, <1>7, <1>8, <1>9, <1>10, <1>11, <1>12, <1>13,
     <1>14, <1>15, <1>16, <1>17, <1>18 DEF KeepaliveNext, Step

LEMMA KaInvHolds == KeepaliveSpec => []KaInv
<1>1. KaInv /\ [KeepaliveNext]_kaVars => KaInv'
  BY KaFlagsStep, KaValuesStep, WritingStep, WokenStep, AskedStep, TimersStep DEF KaInv
<1> QED
  BY KaInvInit, <1>1, PTL DEF KeepaliveSpec

\* Every variable keeps its type; no time is in the future.
THEOREM KeepaliveType == KeepaliveSpec => []KeepaliveTypeOK
<1>1. KaInv => KeepaliveTypeOK
  BY DEF KaInv, KaFlagsOK, KaValuesOK, KeepaliveTypeOK
<1> QED
  BY KaInvHolds, <1>1, PTL

\* A silent peer is given up after two and a half DPD periods at the latest, for
\* every DPD period and whatever the other timers, stalls and lost.
THEOREM DeadPeersAreFound == KeepaliveSpec => []DeadPeerFound
<1>1. KaInv => DeadPeerFound
  BY DEF KaInv
<1> QED
  BY KaInvHolds, <1>1, PTL

\* Keepalives and rekeyings are never late.
THEOREM TimersAreKept == KeepaliveSpec => [](KeepaliveSent /\ RekeyOnTime)
<1>1. KaInv => KeepaliveSent /\ RekeyOnTime
  BY DEF KaInv
<1> QED
  BY KaInvHolds, <1>1, PTL

\* A live peer that is asked in time answers in time: a lost DPD is repeated after
\* half a period, and a stalled one is written when the stall ends.
LEMMA AnsweredStep ==
  AnsweredInTime /\ KaValuesOK /\ KaFlagsOK /\ Writing /\ WokenInTime /\ AskedInTime /\ [KeepaliveNext]_kaVars => AnsweredInTime'
<1> SUFFICES ASSUME AnsweredInTime, KaValuesOK, KaFlagsOK, Writing, WokenInTime, AskedInTime, [KeepaliveNext]_kaVars PROVE AnsweredInTime'
  OBVIOUS
<1> USE DEF AnsweredInTime, Start, Slack, Lost, None, times, peer
<1>0. reliable' = reliable
  BY DEF KeepaliveNext, kaVars
<1>1. CASE UNCHANGED kaVars
  BY <1>1 DEF kaVars
<1>2. CASE TimeIsOver
  BY <1>2 DEF TimeIsOver, kaVars
<1>3. CASE Rekeys
  <2>1. CASE Renews
    BY <1>0, <1>3, <2>1 DEF Rekeys, Reconnect, Round, KaValuesOK, Writing
  <2>2. CASE ~ Renews
    BY <1>0, <1>3, <2>2 DEF Rekeys
  <2> QED
    BY <2>1, <2>2
<1>4. CASE PeerDead
  BY <1>0, <1>4, Half DEF PeerDead, Reconnect, Round, KaValuesOK, Writing
<1>5. CASE SendsDpd
  BY <1>0, <1>5, Half DEF SendsDpd, Writing, KaValuesOK, DpdDue, due
<1>6. CASE SendsKeepalive
  BY <1>0, <1>6, Half DEF SendsKeepalive, Unprompted, DpdDue, due, Writing, KaValuesOK
<1>7. CASE SendsData
  BY <1>0, <1>7, Half DEF SendsData, Unprompted, DpdDue, due, Writing, KaValuesOK
<1>8. CASE Sleeps
  BY <1>0, <1>8, Half DEF Sleeps, SleepUntil, Unprompted, DpdDue, due, Writing, KaValuesOK
<1>9. CASE Writes
  <2> SUFFICES ASSUME alive, Dpd # 0 PROVE AnsweredInTime'
    BY <1>0, <1>9 DEF Writes, Asked
  <2>1. /\ writing' = "none" /\ since' = None /\ now' = now /\ last_rx' = last_rx
        /\ last_dpd' = last_dpd /\ alive' = alive /\ ka_pc' = "decide"
    BY <1>0, <1>9 DEF Writes, Asked
  <2>2. CASE writing # "dpd"
    <3>1. answer' = answer /\ lost' = lost /\ writing # "none" /\ ka_pc = "write"
      BY <1>0, <1>9, <2>2 DEF Writes, Writing
    <3>2. now <= Start + Slack \/ since = None
      BY <2>1 DEF Writing
    <3>3. answer # None => AnsweredInTime'
      BY <1>0, <2>1, <2>2, <3>1
    <3>4. answer = None => AnsweredInTime'
      BY <1>0, <2>1, <2>2, <3>1, <3>2, Half DEF KaValuesOK, Writing
    <3> QED
      BY <3>3, <3>4
  <2>3. CASE writing = "dpd"
    <3>1. (Start <= last_rx + Dpd + Slack + Lost /\ now <= Start + Slack) \/ answer # None
      BY <1>0, <1>9, <2>3 DEF Writes, KaValuesOK, Writing
    <3>2. CASE answer # None \/ answer' # None
      BY <1>0, <1>9, <2>1, <2>3, <3>1, <3>2, Half DEF Writes, Asked, KaValuesOK, Writing
    <3>3. CASE answer = None /\ answer' = None
      BY <1>0, <1>9, <2>1, <2>3, <3>1, <3>3, Half DEF Writes, Asked, KaValuesOK, Writing
    <3> QED
      BY <3>2, <3>3
  <2> QED
    BY <2>2, <2>3
<1>10. CASE Stalls
  BY <1>0, <1>10, Half DEF Stalls, Stall, SleepUntil, KaValuesOK, Writing
<1>11. CASE StallEndsInRekey
  <2>1. CASE Renews
    BY <1>0, <1>11, <2>1 DEF StallEndsInRekey, Stall, Reconnect, Round, KaValuesOK, Writing
  <2>2. CASE ~ Renews
    <3>1. /\ now' = now /\ last_rx' = last_rx /\ last_dpd' = last_dpd /\ writing' = writing
          /\ alive' = alive /\ answer' = answer /\ lost' = lost
          /\ since' = IF since = None THEN now ELSE since
          /\ ka_pc' = ka_pc
      BY <1>0, <1>11, <2>2 DEF StallEndsInRekey
    <3>2. Start' = Start /\ Slack' = Slack /\ Lost' = Lost
      BY <1>0, <3>1 DEF KaValuesOK
    <3>3. alive /\ since' # None => now <= since' + MaxStall
      BY <1>0, <1>11, <3>1 DEF StallEndsInRekey, Stall, KaValuesOK
    <3> HIDE DEF Start, Slack, Lost
    <3> QED
      BY <1>0, <3>1, <3>2, <3>3
  <2> QED
    BY <2>1, <2>2
<1>12. CASE StallEndsDead
  BY <1>0, <1>12, Half DEF StallEndsDead, Stall, Reconnect, Round, KaValuesOK, Writing
<1>13. CASE TimerFires
  BY <1>0, <1>13, Half DEF TimerFires, Round, KaValuesOK, Writing
<1>14. CASE SocketWritable
  BY <1>0, <1>14, Half DEF SocketWritable, KaValuesOK, Writing
<1>15. CASE TunReadable
  BY <1>0, <1>15, Half DEF TunReadable, Round, KaValuesOK, Writing
<1>16. CASE Receives
  BY <1>0, <1>16, Half DEF Receives, Round, KaValuesOK, Writing
<1>17. CASE PeerDies
  BY <1>0, <1>17, Half DEF PeerDies, KaValuesOK, Writing
<1>18. CASE Tick
  BY <1>0, <1>18, Half DEF Tick, Writing, KaValuesOK, WokenInTime, due, overdue
<1> QED
  BY <1>1, <1>2, <1>3, <1>4, <1>5, <1>6, <1>7, <1>8, <1>9, <1>10, <1>11, <1>12, <1>13,
     <1>14, <1>15, <1>16, <1>17, <1>18 DEF KeepaliveNext, Step

\* A peer that answers within Delay is not given up, if one packet at most is
\* lost (DTLS), or no write stalls for too long (TLS), in every silence.
THEOREM LivePeersAreKept ==
  ASSUME Answerable
  PROVE  KeepaliveSpec => LivePeerKept
<1>1. KaInv /\ AnsweredInTime /\ [KeepaliveNext]_kaVars => AnsweredInTime'
  BY AnsweredStep DEF KaInv
<1>2. KeepaliveInit => AnsweredInTime
  BY Half DEF KeepaliveInit, AnsweredInTime, Start, Slack, Lost
<1>3. KaInv => 2 * Slack + Lost + Delay <= Dpd /\ (reliable => 2 * MaxStall + Delay < Dpd)
  <2> SUFFICES ASSUME KaInv PROVE 2 * Slack + Lost + Delay <= Dpd
                                   /\ (reliable => 2 * MaxStall + Delay < Dpd)
    OBVIOUS
  <2>1. lost \in 0 .. MaxLoss /\ (reliable => lost = 0) /\ reliable \in Transports
    BY DEF KaInv, KaFlagsOK, KaValuesOK, Writing
  <2>2. IF reliable THEN 2 * MaxStall + Delay < Dpd
                    ELSE MaxLoss * (Dpd \div 2) + Delay <= Dpd
    BY <2>1 DEF Answerable
  <2>3. CASE reliable
    BY <2>1, <2>2, <2>3 DEF Slack, Lost
  <2>4. CASE ~ reliable /\ lost = 0
    <3>1. MaxLoss * (Dpd \div 2) \in Nat
      BY Half
    <3> QED
      BY <2>2, <2>4, <3>1 DEF Slack, Lost
  <2>5. CASE ~ reliable /\ lost # 0
    <3>1. MaxLoss = 1
      BY <2>1, <2>5
    <3> QED
      BY <2>2, <2>5, <3>1, Half DEF Slack, Lost
  <2> QED
    BY <2>3, <2>4, <2>5
<1>4. KaInv /\ AnsweredInTime => [PeerDead \/ StallEndsDead => ~ alive]_kaVars
  <2> SUFFICES ASSUME KaInv, AnsweredInTime, alive, PeerDead \/ StallEndsDead PROVE FALSE
    OBVIOUS
  <2>1. Dpd # 0 /\ now >= overdue
    BY DEF PeerDead, StallEndsDead, overdue, KaInv, KaValuesOK
  <2>2. CASE PeerDead
    BY <1>3, <2>1, <2>2, Half
       DEF PeerDead, AnsweredInTime, Start, Slack, Lost, overdue, KaInv, KaValuesOK, Writing
  <2>3. CASE StallEndsDead
    BY <1>3, <2>1, <2>3, Half
       DEF StallEndsDead, Stall, AnsweredInTime, Start, Slack, Lost, overdue, KaInv, KaValuesOK, Writing
  <2> QED
    BY <2>2, <2>3
<1> QED
  BY KaInvHolds, <1>1, <1>2, <1>4, PTL DEF KeepaliveSpec, LivePeerKept

=============================================================================
