---------------------------- MODULE Client_proofs ----------------------------
(***************************************************************************)
(* Client for any command lines, offers, signals and lost connections: the *)
(* order in which vpnc-script is run and what it is told, the pid file, and*)
(* what the loop watches while it sleeps.  Tun for any sizes and loads: the*)
(* order of the packets through the rings, as two abstract pipes.          *)
(***************************************************************************)
EXTENDS Client, Tun, SequenceTheorems, FiniteSetTheorems, NaturalsInduction, TLAPS

\* The states of the main loop, and those after it.
Looping == {"round", "tun", "device", "open", "tunfd", "user", "work", "reconnect", "attempt",
            "pause", "poll", "obey", "wait"}
Leaving == {"unlink", "out", "gone"}

\* The process to come back for, and its file.
PidKept ==
  /\ parent \in {"none", "forked", "wrote", "gone"}
  /\ parent = "none" => ~ wrote_pid
  /\ parent = "none" /\ at # "gone" => pidfile = "absent"
  /\ parent # "none" => at \notin {"cookie", "have", "connect"} /\ wrote_pid = options.pidfile
  /\ parent # "none" /\ options.pidfile =>
       pidfile = IF at \in {"out", "gone"} THEN "absent"
                 ELSE IF parent = "forked" THEN "empty" ELSE "back"

\* Where the tun device is not up yet, or not any more.
TunDown ==
  /\ tun \in {"down", "up"}
  /\ at \in {"cookie", "have", "connect", "enter", "end"} \cup Looping \cup Leaving
  /\ at \in {"cookie", "have", "connect", "tun", "device", "open", "tunfd"} \cup Leaving => tun = "down"
  /\ at = "user" => tun = "up"

\* What is watched, and that a loop without a connection has a command to obey.
Watched ==
  /\ at \in Looping => "cmd" \in epoll
  /\ at \in Looping \cup {"enter"} =>
       /\ ssl = "up" => "ssl" \in epoll
       /\ tun = "up" => "tun" \in epoll
  /\ at \in {"poll", "obey"} => ssl = "up" \/ Cancelled
  /\ ssl \in {"down", "up"}
  /\ at = "wait" => ssl = "up"

\* The script, from its first run to its last but one ...
Reasons == {"pre-init", "connect", "attempt-reconnect", "reconnect", "disconnect"}

Connected(s) ==
  /\ s \in Seq(Reasons) /\ Len(s) >= 2
  /\ s[1] = "pre-init" /\ s[2] = "connect"
  /\ \A i \in 3 .. Len(s) :
       /\ s[i] \in {"attempt-reconnect", "reconnect"}
       /\ s[i] = "reconnect" => s[i - 1] = "attempt-reconnect"

\* ... and to the end.
Disconnected(s) == \E t \in Seq(Reasons) : Connected(t) /\ s = Append(t, "disconnect")

ScriptRun ==
  /\ options.script # "file" => script = <<>>
  /\ at \in {"cookie", "have", "connect", "tun", "device"} => script = <<>>
  /\ options.script = "file" /\ at = "open" => script = <<"pre-init">>
  /\ options.script = "file" /\ at = "tunfd" => Connected(script)
  /\ tun = "down" /\ at \in (Looping \ {"open", "tunfd"}) \cup {"enter"} => script = <<>>
  /\ tun = "down" /\ at = "end" => script \in {<<>>, <<"pre-init">>}
  /\ options.script = "file" /\ tun = "up" => Connected(script)
  /\ options.script = "file" /\ tun = "up" /\ at = "attempt" => script[Len(script)] = "attempt-reconnect"
  /\ at \in Leaving => script \in {<<>>, <<"pre-init">>} \/ Disconnected(script)

\* What is appended to stays as it is.
LEMMA AppendKeeps ==
  ASSUME NEW S, NEW s \in Seq(S), NEW e \in S, NEW i \in 1 .. Len(s)
  PROVE  Append(s, e)[i] = s[i]
BY AppendProperties

\* What the script is run for next.
LEMMA ConnectIsNext ==
  ASSUME NEW s \in Seq(Reasons), Len(s) = 1, s[1] = "pre-init"
  PROVE  Connected(Append(s, "connect"))
<1> DEFINE t == Append(s, "connect")
<1>1. "connect" \in Reasons
  BY DEF Reasons
<1>2. /\ t \in Seq(Reasons) /\ Len(t) = Len(s) + 1 /\ t[Len(s) + 1] = "connect"
  BY SMTT(30), <1>1, AppendProperties
<1>3. t[1] = s[1]
  <2>1. 1 \in 1 .. Len(s)
    OBVIOUS
  <2> QED
    BY <1>1, <2>1, AppendKeeps
<1> HIDE DEF t
<1>4. Connected(t)
  BY <1>1, <1>2, <1>3 DEF Connected
<1> QED
  BY <1>4 DEF t

LEMMA ConnectIsRun == Connected(Append(<<"pre-init">>, "connect"))
<1>1. <<"pre-init">> \in Seq(Reasons) /\ Len(<<"pre-init">>) = 1 /\ <<"pre-init">>[1] = "pre-init"
  BY DEF Reasons
<1> QED
  BY <1>1, ConnectIsNext

LEMMA AttemptIsRun ==
  ASSUME NEW s, Connected(s)
  PROVE  /\ Connected(Append(s, "attempt-reconnect"))
         /\ LET t == Append(s, "attempt-reconnect") IN t[Len(t)] = "attempt-reconnect"
<1> DEFINE t == Append(s, "attempt-reconnect")
<1>1. s \in Seq(Reasons) /\ Len(s) \in Nat /\ "attempt-reconnect" \in Reasons
  BY LenProperties DEF Connected, Reasons
<1>2. /\ t \in Seq(Reasons) /\ Len(t) = Len(s) + 1 /\ t[Len(s) + 1] = "attempt-reconnect"
      /\ \A i \in 1 .. Len(s) : t[i] = s[i]
  BY <1>1, AppendProperties
<1> HIDE DEF t
<1>3. Connected(t)
  BY <1>1, <1>2 DEF Connected
<1> QED
  BY <1>1, <1>2, <1>3 DEF t

LEMMA ReconnectIsRun ==
  ASSUME NEW s, Connected(s), s[Len(s)] = "attempt-reconnect"
  PROVE  Connected(Append(s, "reconnect"))
<1> DEFINE t == Append(s, "reconnect")
<1>1. s \in Seq(Reasons) /\ Len(s) \in Nat /\ "reconnect" \in Reasons
  BY LenProperties DEF Connected, Reasons
<1>2. /\ t \in Seq(Reasons) /\ Len(t) = Len(s) + 1 /\ t[Len(s) + 1] = "reconnect"
      /\ \A i \in 1 .. Len(s) : t[i] = s[i]
  BY <1>1, AppendProperties
<1> HIDE DEF t
<1>3. Connected(t)
  BY <1>1, <1>2 DEF Connected
<1> QED
  BY <1>3 DEF t

\* The child's pid gets into the file once, and the file is gone with the session.
LEMMA PidStep == PidKept /\ [Next]_vars => PidKept'
<1> SUFFICES ASSUME PidKept, [Next]_vars PROVE PidKept'
  OBVIOUS
<1> USE DEF PidKept, vars, fixed, procVars, cmdVars, linkVars, tunVars
<1>1. CASE ObtainCookie
  BY <1>1 DEF ObtainCookie, Exit, Quit
<1>2. CASE CookieGiven
  BY <1>2 DEF CookieGiven, Exit, Quit
<1>3. CASE PrintCookie
  BY <1>3 DEF PrintCookie, Exit, Quit
<1>4. CASE make_cstp_connection
  BY <1>4 DEF make_cstp_connection, Exit, Quit
<1>5. CASE Enter
  BY <1>5 DEF Enter, Exit, Quit
<1>6. CASE Round
  BY <1>6 DEF Round, Exit, Quit
<1>7. CASE StayInFront
  BY <1>7 DEF StayInFront, Exit, Quit
<1>8. CASE background_self
  BY <1>8 DEF background_self, Exit, Quit
<1>9. CASE BackgroundFails
  BY <1>9 DEF BackgroundFails, Exit, Quit
<1>10. CASE SetupTunScript
  BY <1>10 DEF SetupTunScript, Exit, Quit
<1>11. CASE PreInit
  BY <1>11 DEF PreInit, Exit, Quit
<1>12. CASE OsSetupTun
  BY <1>12 DEF OsSetupTun, Exit, Quit
<1>13. CASE SetupTunFd
  BY <1>13 DEF SetupTunFd, Exit, Quit
<1>14. CASE ChangeUser
  BY <1>14 DEF ChangeUser, Exit, Quit
<1>15. CASE PppUp
  BY <1>15 DEF PppUp, Exit, Quit
<1>16. CASE Work
  BY <1>16 DEF Work, Exit, Quit
<1>17. CASE ServerQuits
  BY <1>17 DEF ServerQuits, Exit, Quit
<1>18. CASE TunScriptDies
  BY <1>18 DEF TunScriptDies, Exit, Quit
<1>19. CASE Lose
  BY <1>19 DEF Lose, Exit, Quit
<1>20. CASE AttemptReconnect
  BY <1>20 DEF AttemptReconnect, Exit, Quit
<1>21. CASE Reconnected
  BY <1>21 DEF Reconnected, Exit, Quit
<1>22. CASE ConnectFails
  BY <1>22 DEF ConnectFails, Exit, Quit
<1>23. CASE Pause
  BY <1>23 DEF Pause, Exit, Quit
<1>24. CASE Poll
  BY <1>24 DEF Poll, Exit, Quit
<1>25. CASE ObeyCancel
  BY <1>25 DEF ObeyCancel, Exit, Quit
<1>26. CASE ObeyPause
  BY <1>26 DEF ObeyPause, Exit, Quit
<1>27. CASE Sleep
  BY <1>27 DEF Sleep, Exit, Quit
<1>28. CASE Wake
  BY <1>28 DEF Wake, Exit, Quit
<1>29. CASE End
  BY <1>29 DEF End, Exit, Quit
<1>30. CASE UnlinkPidFile
  BY <1>30 DEF UnlinkPidFile, Exit, Quit
<1>31. CASE Out
  BY <1>31 DEF Out, Exit, Quit
<1>32. CASE ParentWritesPid
  BY <1>32 DEF ParentWritesPid, Exit, Quit
<1>33. CASE ParentExits
  BY <1>33 DEF ParentExits, Exit, Quit
<1>34. CASE \E p \in Processes, cmd \in Commands : Signal(p, cmd)
  BY <1>34 DEF Signal
<1>35. CASE UNCHANGED vars
  BY <1>35
<1> QED
  BY <1>1, <1>2, <1>3, <1>4, <1>5, <1>6, <1>7, <1>8, <1>9, <1>10, <1>11, <1>12, <1>13, <1>14,
     <1>15, <1>16, <1>17, <1>18, <1>19, <1>20, <1>21, <1>22, <1>23, <1>24, <1>25, <1>26, <1>27,
     <1>28, <1>29, <1>30, <1>31, <1>32, <1>33, <1>34, <1>35 DEF Next, Session, Rest

\* The tun device comes up once, and goes down at the end.
LEMMA TunStep == TunDown /\ [Next]_vars => TunDown'
<1> SUFFICES ASSUME TunDown, [Next]_vars PROVE TunDown'
  OBVIOUS
<1> USE DEF TunDown, Looping, Leaving, vars, fixed, procVars, cmdVars, linkVars, tunVars
<1>1. CASE ObtainCookie
  BY <1>1 DEF ObtainCookie, Exit, Quit, TunIsUp
<1>2. CASE CookieGiven
  BY <1>2 DEF CookieGiven, Exit, Quit, TunIsUp
<1>3. CASE PrintCookie
  BY <1>3 DEF PrintCookie, Exit, Quit, TunIsUp
<1>4. CASE make_cstp_connection
  BY <1>4 DEF make_cstp_connection, Exit, Quit, TunIsUp
<1>5. CASE Enter
  BY <1>5 DEF Enter, Exit, Quit, TunIsUp
<1>6. CASE Round
  BY <1>6 DEF Round, Exit, Quit, TunIsUp
<1>7. CASE StayInFront
  BY <1>7 DEF StayInFront, Exit, Quit, TunIsUp
<1>8. CASE background_self
  BY <1>8 DEF background_self, Exit, Quit, TunIsUp
<1>9. CASE BackgroundFails
  BY <1>9 DEF BackgroundFails, Exit, Quit, TunIsUp
<1>10. CASE SetupTunScript
  BY <1>10 DEF SetupTunScript, Exit, Quit, TunIsUp
<1>11. CASE PreInit
  BY <1>11 DEF PreInit, Exit, Quit, TunIsUp
<1>12. CASE OsSetupTun
  BY <1>12 DEF OsSetupTun, Exit, Quit, TunIsUp
<1>13. CASE SetupTunFd
  BY <1>13 DEF SetupTunFd, Exit, Quit, TunIsUp
<1>14. CASE ChangeUser
  BY <1>14 DEF ChangeUser, Exit, Quit, TunIsUp
<1>15. CASE PppUp
  BY <1>15 DEF PppUp, Exit, Quit, TunIsUp
<1>16. CASE Work
  BY <1>16 DEF Work, Exit, Quit, TunIsUp
<1>17. CASE ServerQuits
  BY <1>17 DEF ServerQuits, Exit, Quit, TunIsUp
<1>18. CASE TunScriptDies
  BY <1>18 DEF TunScriptDies, Exit, Quit, TunIsUp
<1>19. CASE Lose
  BY <1>19 DEF Lose, Exit, Quit, TunIsUp
<1>20. CASE AttemptReconnect
  BY <1>20 DEF AttemptReconnect, Exit, Quit, TunIsUp
<1>21. CASE Reconnected
  BY <1>21 DEF Reconnected, Exit, Quit, TunIsUp
<1>22. CASE ConnectFails
  BY <1>22 DEF ConnectFails, Exit, Quit, TunIsUp
<1>23. CASE Pause
  BY <1>23 DEF Pause, Exit, Quit, TunIsUp
<1>24. CASE Poll
  BY <1>24 DEF Poll, Exit, Quit, TunIsUp
<1>25. CASE ObeyCancel
  BY <1>25 DEF ObeyCancel, Exit, Quit, TunIsUp
<1>26. CASE ObeyPause
  BY <1>26 DEF ObeyPause, Exit, Quit, TunIsUp
<1>27. CASE Sleep
  BY <1>27 DEF Sleep, Exit, Quit, TunIsUp
<1>28. CASE Wake
  BY <1>28 DEF Wake, Exit, Quit, TunIsUp
<1>29. CASE End
  BY <1>29 DEF End, Exit, Quit, TunIsUp
<1>30. CASE UnlinkPidFile
  BY <1>30 DEF UnlinkPidFile, Exit, Quit, TunIsUp
<1>31. CASE Out
  BY <1>31 DEF Out, Exit, Quit, TunIsUp
<1>32. CASE ParentWritesPid
  BY <1>32 DEF ParentWritesPid, Exit, Quit, TunIsUp
<1>33. CASE ParentExits
  BY <1>33 DEF ParentExits, Exit, Quit, TunIsUp
<1>34. CASE \E p \in Processes, cmd \in Commands : Signal(p, cmd)
  BY <1>34 DEF Signal
<1>35. CASE UNCHANGED vars
  BY <1>35
<1> QED
  BY <1>1, <1>2, <1>3, <1>4, <1>5, <1>6, <1>7, <1>8, <1>9, <1>10, <1>11, <1>12, <1>13, <1>14,
     <1>15, <1>16, <1>17, <1>18, <1>19, <1>20, <1>21, <1>22, <1>23, <1>24, <1>25, <1>26, <1>27,
     <1>28, <1>29, <1>30, <1>31, <1>32, <1>33, <1>34, <1>35 DEF Next, Session, Rest

\* What is open is watched.
LEMMA WatchedStep == Watched /\ TunDown /\ [Next]_vars => Watched'
<1> SUFFICES ASSUME Watched, TunDown, [Next]_vars PROVE Watched'
  OBVIOUS
<1> USE DEF Watched, TunDown, Looping, Leaving, Cancelled, vars, fixed, procVars, cmdVars,
   linkVars, tunVars
<1>1. CASE ObtainCookie
  BY <1>1 DEF ObtainCookie, Exit, Quit, TunIsUp, SslUp, SslDown, Hear, Listen, ReadCommand
<1>2. CASE CookieGiven
  BY <1>2 DEF CookieGiven, Exit, Quit, TunIsUp, SslUp, SslDown, Hear, Listen, ReadCommand
<1>3. CASE PrintCookie
  BY <1>3 DEF PrintCookie, Exit, Quit, TunIsUp, SslUp, SslDown, Hear, Listen, ReadCommand
<1>4. CASE make_cstp_connection
  BY <1>4 DEF make_cstp_connection, Exit, Quit, TunIsUp, SslUp, SslDown, Hear, Listen, ReadCommand
<1>5. CASE Enter
  BY <1>5 DEF Enter, Exit, Quit, TunIsUp, SslUp, SslDown, Hear, Listen, ReadCommand
<1>6. CASE Round
  BY <1>6 DEF Round, Exit, Quit, TunIsUp, SslUp, SslDown, Hear, Listen, ReadCommand
<1>7. CASE StayInFront
  BY <1>7 DEF StayInFront, Exit, Quit, TunIsUp, SslUp, SslDown, Hear, Listen, ReadCommand
<1>8. CASE background_self
  BY <1>8 DEF background_self, Exit, Quit, TunIsUp, SslUp, SslDown, Hear, Listen, ReadCommand
<1>9. CASE BackgroundFails
  BY <1>9 DEF BackgroundFails, Exit, Quit, TunIsUp, SslUp, SslDown, Hear, Listen, ReadCommand
<1>10. CASE SetupTunScript
  BY <1>10 DEF SetupTunScript, Exit, Quit, TunIsUp, SslUp, SslDown, Hear, Listen, ReadCommand
<1>11. CASE PreInit
  BY <1>11 DEF PreInit, Exit, Quit, TunIsUp, SslUp, SslDown, Hear, Listen, ReadCommand
<1>12. CASE OsSetupTun
  BY <1>12 DEF OsSetupTun, Exit, Quit, TunIsUp, SslUp, SslDown, Hear, Listen, ReadCommand
<1>13. CASE SetupTunFd
  BY <1>13 DEF SetupTunFd, Exit, Quit, TunIsUp, SslUp, SslDown, Hear, Listen, ReadCommand
<1>14. CASE ChangeUser
  BY <1>14 DEF ChangeUser, Exit, Quit, TunIsUp, SslUp, SslDown, Hear, Listen, ReadCommand
<1>15. CASE PppUp
  BY <1>15 DEF PppUp, Exit, Quit, TunIsUp, SslUp, SslDown, Hear, Listen, ReadCommand
<1>16. CASE Work
  BY <1>16 DEF Work, Exit, Quit, TunIsUp, SslUp, SslDown, Hear, Listen, ReadCommand
<1>17. CASE ServerQuits
  BY <1>17 DEF ServerQuits, Exit, Quit, TunIsUp, SslUp, SslDown, Hear, Listen, ReadCommand
<1>18. CASE TunScriptDies
  BY <1>18 DEF TunScriptDies, Exit, Quit, TunIsUp, SslUp, SslDown, Hear, Listen, ReadCommand
<1>19. CASE Lose
  BY <1>19 DEF Lose, Exit, Quit, TunIsUp, SslUp, SslDown, Hear, Listen, ReadCommand
<1>20. CASE AttemptReconnect
  BY <1>20 DEF AttemptReconnect, Exit, Quit, TunIsUp, SslUp, SslDown, Hear, Listen, ReadCommand
<1>21. CASE Reconnected
  BY <1>21 DEF Reconnected, Exit, Quit, TunIsUp, SslUp, SslDown, Hear, Listen, ReadCommand
<1>22. CASE ConnectFails
  BY <1>22 DEF ConnectFails, Exit, Quit, TunIsUp, SslUp, SslDown, Hear, Listen, ReadCommand
<1>23. CASE Pause
  BY <1>23 DEF Pause, Exit, Quit, TunIsUp, SslUp, SslDown, Hear, Listen, ReadCommand
<1>24. CASE Poll
  BY <1>24 DEF Poll, Exit, Quit, TunIsUp, SslUp, SslDown, Hear, Listen, ReadCommand
<1>25. CASE ObeyCancel
  BY <1>25 DEF ObeyCancel, Exit, Quit, TunIsUp, SslUp, SslDown, Hear, Listen, ReadCommand
<1>26. CASE ObeyPause
  BY <1>26 DEF ObeyPause, Exit, Quit, TunIsUp, SslUp, SslDown, Hear, Listen, ReadCommand
<1>27. CASE Sleep
  BY <1>27 DEF Sleep, Exit, Quit, TunIsUp, SslUp, SslDown, Hear, Listen, ReadCommand
<1>28. CASE Wake
  BY <1>28 DEF Wake, Exit, Quit, TunIsUp, SslUp, SslDown, Hear, Listen, ReadCommand
<1>29. CASE End
  BY <1>29 DEF End, Exit, Quit, TunIsUp, SslUp, SslDown, Hear, Listen, ReadCommand
<1>30. CASE UnlinkPidFile
  BY <1>30 DEF UnlinkPidFile, Exit, Quit, TunIsUp, SslUp, SslDown, Hear, Listen, ReadCommand
<1>31. CASE Out
  BY <1>31 DEF Out, Exit, Quit, TunIsUp, SslUp, SslDown, Hear, Listen, ReadCommand
<1>32. CASE ParentWritesPid
  BY <1>32 DEF ParentWritesPid, Exit, Quit, TunIsUp, SslUp, SslDown, Hear, Listen, ReadCommand
<1>33. CASE ParentExits
  BY <1>33 DEF ParentExits, Exit, Quit, TunIsUp, SslUp, SslDown, Hear, Listen, ReadCommand
<1>34. CASE \E p \in Processes, cmd \in Commands : Signal(p, cmd)
  BY <1>34 DEF Signal
<1>35. CASE UNCHANGED vars
  BY <1>35
<1> QED
  BY <1>1, <1>2, <1>3, <1>4, <1>5, <1>6, <1>7, <1>8, <1>9, <1>10, <1>11, <1>12, <1>13, <1>14,
     <1>15, <1>16, <1>17, <1>18, <1>19, <1>20, <1>21, <1>22, <1>23, <1>24, <1>25, <1>26, <1>27,
     <1>28, <1>29, <1>30, <1>31, <1>32, <1>33, <1>34, <1>35 DEF Next, Session, Rest

\* The script is run in order.
LEMMA ScriptStep == ScriptRun /\ TunDown /\ [Next]_vars => ScriptRun'
<1> SUFFICES ASSUME ScriptRun, TunDown, [Next]_vars PROVE ScriptRun'
  OBVIOUS
<1> USE DEF ScriptRun, TunDown, Looping, Leaving, vars, fixed, procVars, cmdVars, linkVars,
   tunVars
<1>1. CASE ObtainCookie
  BY <1>1 DEF ObtainCookie, Exit, Quit, TunIsUp, script_config_tun
<1>2. CASE CookieGiven
  BY <1>2 DEF CookieGiven, Exit, Quit, TunIsUp, script_config_tun
<1>3. CASE PrintCookie
  BY <1>3 DEF PrintCookie, Exit, Quit, TunIsUp, script_config_tun
<1>4. CASE make_cstp_connection
  BY <1>4 DEF make_cstp_connection, Exit, Quit, TunIsUp, script_config_tun
<1>5. CASE Enter
  BY <1>5 DEF Enter, Exit, Quit, TunIsUp, script_config_tun
<1>6. CASE Round
  BY <1>6 DEF Round, Exit, Quit, TunIsUp, script_config_tun
<1>7. CASE StayInFront
  BY <1>7 DEF StayInFront, Exit, Quit, TunIsUp, script_config_tun
<1>8. CASE background_self
  BY <1>8 DEF background_self, Exit, Quit, TunIsUp, script_config_tun
<1>9. CASE BackgroundFails
  BY <1>9 DEF BackgroundFails, Exit, Quit, TunIsUp, script_config_tun
<1>10. CASE SetupTunScript
  BY <1>10 DEF SetupTunScript, Exit, Quit, TunIsUp, script_config_tun
<1>11. CASE PreInit
  BY <1>11 DEF PreInit, Exit, Quit, TunIsUp, script_config_tun
<1>12. CASE OsSetupTun
  <2>1. CASE script_config_tun("connect") /\ at' = "tunfd"
    BY <1>12, <2>1, ConnectIsRun DEF OsSetupTun, script_config_tun
  <2>2. CASE Quit("-EIO") /\ UNCHANGED script
    BY <1>12, <2>2 DEF OsSetupTun, Quit
  <2> QED
    BY <1>12, <2>1, <2>2 DEF OsSetupTun
<1>13. CASE SetupTunFd
  BY <1>13 DEF SetupTunFd, Exit, Quit, TunIsUp, script_config_tun
<1>14. CASE ChangeUser
  BY <1>14 DEF ChangeUser, Exit, Quit, TunIsUp, script_config_tun
<1>15. CASE PppUp
  BY <1>15 DEF PppUp, Exit, Quit, TunIsUp, script_config_tun
<1>16. CASE Work
  BY <1>16 DEF Work, Exit, Quit, TunIsUp, script_config_tun
<1>17. CASE ServerQuits
  BY <1>17 DEF ServerQuits, Exit, Quit, TunIsUp, script_config_tun
<1>18. CASE TunScriptDies
  BY <1>18 DEF TunScriptDies, Exit, Quit, TunIsUp, script_config_tun
<1>19. CASE Lose
  BY <1>19 DEF Lose, Exit, Quit, TunIsUp, script_config_tun
<1>20. CASE AttemptReconnect
  <2>1. CASE tun = "up" /\ options.script = "file"
    BY <1>20, <2>1, AttemptIsRun DEF AttemptReconnect, script_config_tun
  <2>2. CASE ~ (tun = "up" /\ options.script = "file")
    BY <1>20, <2>2 DEF AttemptReconnect, script_config_tun
  <2> QED
    BY <2>1, <2>2
<1>21. CASE Reconnected
  <2>1. CASE tun = "up" /\ options.script = "file"
    <3>1. script' = Append(script, "reconnect") /\ at' = "poll" /\ UNCHANGED <<options, tun>>
      BY <1>21, <2>1 DEF Reconnected, script_config_tun
    <3>2. Connected(script')
      BY <1>21, <2>1, <3>1, ReconnectIsRun DEF Reconnected
    <3> QED
      BY <2>1, <3>1, <3>2
  <2>2. CASE ~ (tun = "up" /\ options.script = "file")
    <3>1. UNCHANGED <<script, options, tun>> /\ at' = "poll" /\ at = "attempt"
      BY <1>21, <2>2 DEF Reconnected, script_config_tun
    <3> QED
      BY <3>1
  <2> QED
    BY <2>1, <2>2
<1>22. CASE ConnectFails
  BY <1>22 DEF ConnectFails, Exit, Quit, TunIsUp, script_config_tun
<1>23. CASE Pause
  BY <1>23 DEF Pause, Exit, Quit, TunIsUp, script_config_tun
<1>24. CASE Poll
  BY <1>24 DEF Poll, Exit, Quit, TunIsUp, script_config_tun
<1>25. CASE ObeyCancel
  BY <1>25 DEF ObeyCancel, Exit, Quit, TunIsUp, script_config_tun
<1>26. CASE ObeyPause
  BY <1>26 DEF ObeyPause, Exit, Quit, TunIsUp, script_config_tun
<1>27. CASE Sleep
  BY <1>27 DEF Sleep, Exit, Quit, TunIsUp, script_config_tun
<1>28. CASE Wake
  BY <1>28 DEF Wake, Exit, Quit, TunIsUp, script_config_tun
<1>29. CASE End
  <2>1. CASE tun = "up" /\ options.script = "file"
    <3>1. Connected(script) /\ script' = Append(script, "disconnect")
      BY <1>29, <2>1 DEF End, script_config_tun
    <3>2. Disconnected(script')
      BY <3>1 DEF Disconnected, Connected
    <3> QED
      BY <1>29, <2>1, <3>2 DEF End
  <2>2. CASE ~ (tun = "up" /\ options.script = "file")
    BY <1>29, <2>2 DEF End, script_config_tun
  <2> QED
    BY <2>1, <2>2
<1>30. CASE UnlinkPidFile
  BY <1>30 DEF UnlinkPidFile, Exit, Quit, TunIsUp, script_config_tun
<1>31. CASE Out
  BY <1>31 DEF Out, Exit, Quit, TunIsUp, script_config_tun
<1>32. CASE ParentWritesPid
  BY <1>32 DEF ParentWritesPid, Exit, Quit, TunIsUp, script_config_tun
<1>33. CASE ParentExits
  BY <1>33 DEF ParentExits, Exit, Quit, TunIsUp, script_config_tun
<1>34. CASE \E p \in Processes, cmd \in Commands : Signal(p, cmd)
  BY <1>34 DEF Signal
<1>35. CASE UNCHANGED vars
  BY <1>35
<1> QED
  BY <1>1, <1>2, <1>3, <1>4, <1>5, <1>6, <1>7, <1>8, <1>9, <1>10, <1>11, <1>12, <1>13, <1>14,
     <1>15, <1>16, <1>17, <1>18, <1>19, <1>20, <1>21, <1>22, <1>23, <1>24, <1>25, <1>26, <1>27,
     <1>28, <1>29, <1>30, <1>31, <1>32, <1>33, <1>34, <1>35 DEF Next, Session, Rest

-----------------------------------------------------------------------------
IInv == PidKept /\ TunDown /\ Watched /\ ScriptRun

LEMMA InitIInv == Init => IInv
BY DEF Init, IInv, PidKept, TunDown, Watched, ScriptRun, Looping, Leaving, Cancelled, None

LEMMA AlwaysIInv == Spec => []IInv
<1>1. IInv /\ [Next]_vars => IInv'
  BY PidStep, TunStep, WatchedStep, ScriptStep DEF IInv
<1> QED
  BY InitIInv, <1>1, PTL DEF Spec

\* Runs(reason), where the script was run for it once, or never.
LEMMA RunOnce ==
  ASSUME NEW reason, NEW k \in 1 .. Len(script), \A i \in 1 .. Len(script) : script[i] = reason <=> i = k
  PROVE  Runs(reason) = 1
<1>1. {i \in 1 .. Len(script) : script[i] = reason} = {k}
  OBVIOUS
<1> QED
  BY <1>1, FS_Singleton DEF Runs

LEMMA NotRun ==
  ASSUME NEW reason, \A i \in 1 .. Len(script) : script[i] # reason
  PROVE  Runs(reason) = 0
<1>1. {i \in 1 .. Len(script) : script[i] = reason} = {}
  OBVIOUS
<1> QED
  BY <1>1, FS_EmptySet DEF Runs

\* The whole of ScriptPaired for a script that has got as far as connect,
LEMMA ConnectedPairs ==
  ASSUME Connected(script), at # "gone"
  PROVE  ScriptPaired
<1>1. Len(script) \in Nat /\ Len(script) >= 2 /\ script[1] = "pre-init" /\ script[2] = "connect"
  BY LenProperties DEF Connected
<1>2. \A i \in 3 .. Len(script) :
        /\ script[i] \in {"attempt-reconnect", "reconnect"}
        /\ script[i] = "reconnect" => script[i - 1] = "attempt-reconnect"
  BY DEF Connected
<1>3. \A i \in 1 .. Len(script) : i = 1 \/ i = 2 \/ i \in 3 .. Len(script)
  BY <1>1
<1>4. Runs("connect") = 1
  <2>1. 2 \in 1 .. Len(script)
    BY <1>1
  <2>2. \A i \in 1 .. Len(script) : script[i] = "connect" <=> i = 2
    BY <1>1, <1>2, <1>3
  <2> QED
    BY <2>1, <2>2, RunOnce
<1>5. ASSUME NEW i \in 1 .. Len(script)
      PROVE  /\ script[i] \notin {"pre-init", "connect"} => \E j \in 1 .. i - 1 : script[j] = "connect"
             /\ script[i] = "reconnect" => script[i - 1] = "attempt-reconnect"
             /\ script[i] = "disconnect" => i = Len(script)
  <2>1. CASE i \in {1, 2}
    BY <1>1, <2>1
  <2>2. CASE i \in 3 .. Len(script)
    <3>1. 2 \in 1 .. i - 1
      BY <2>2
    <3> QED
      BY <1>1, <1>2, <2>2, <3>1
  <2> QED
    BY <1>3, <2>1, <2>2
<1> QED
  BY <1>4, <1>5 DEF ScriptPaired

\* ... for one that has been disconnected, ...
LEMMA DisconnectedPairs ==
  ASSUME Disconnected(script)
  PROVE  ScriptPaired
<1>1. PICK t \in Seq(Reasons) : Connected(t) /\ script = Append(t, "disconnect")
  BY DEF Disconnected
<1> DEFINE n == Len(t)
<1>2. n \in Nat /\ n >= 2 /\ t[1] = "pre-init" /\ t[2] = "connect"
  BY <1>1, LenProperties DEF Connected
<1>3. /\ Len(script) = n + 1 /\ script[n + 1] = "disconnect"
      /\ \A i \in 1 .. n : script[i] = t[i]
  BY <1>1, AppendProperties DEF Reasons
<1>4. \A i \in 3 .. n :
        /\ t[i] \in {"attempt-reconnect", "reconnect"}
        /\ t[i] = "reconnect" => t[i - 1] = "attempt-reconnect"
  BY <1>1 DEF Connected
<1> HIDE DEF n
<1>5. \A i \in 1 .. Len(script) : i = 1 \/ i = 2 \/ i \in 3 .. n \/ i = n + 1
  BY <1>2, <1>3
<1>6. script[1] = "pre-init" /\ script[2] = "connect"
  BY <1>2, <1>3
<1>7. \A i \in 3 .. n :
        /\ script[i] \in {"attempt-reconnect", "reconnect"}
        /\ script[i] = "reconnect" => script[i - 1] = "attempt-reconnect"
  <2> TAKE i \in 3 .. n
  <2>1. i \in 1 .. n /\ i - 1 \in 1 .. n
    BY <1>2
  <2> QED
    BY <1>3, <1>4, <2>1
<1>8. Runs("connect") = 1
  <2>1. 2 \in 1 .. Len(script)
    BY <1>2, <1>3
  <2>2. \A i \in 1 .. Len(script) : script[i] = "connect" <=> i = 2
    BY <1>3, <1>5, <1>6, <1>7
  <2> QED
    BY <2>1, <2>2, RunOnce
<1>9. Runs("disconnect") = 1
  <2>1. n + 1 \in 1 .. Len(script)
    BY <1>2, <1>3
  <2>2. \A i \in 1 .. Len(script) : script[i] = "disconnect" <=> i = n + 1
    BY <1>2, <1>3, <1>5, <1>6, <1>7
  <2> QED
    BY <2>1, <2>2, RunOnce
<1>10. ASSUME NEW i \in 1 .. Len(script)
       PROVE  /\ script[i] \notin {"pre-init", "connect"} => \E j \in 1 .. i - 1 : script[j] = "connect"
              /\ script[i] = "reconnect" => script[i - 1] = "attempt-reconnect"
              /\ script[i] = "disconnect" => i = Len(script)
  <2>1. CASE i \in {1, 2}
    BY <1>6, <2>1
  <2>2. CASE i \in 3 .. n \/ i = n + 1
    <3>1. 2 \in 1 .. i - 1
      BY <1>2, <2>2
    <3> QED
      BY <1>3, <1>6, <1>7, <2>2, <3>1
  <2> QED
    BY <1>5, <2>1, <2>2
<1> QED
  BY <1>8, <1>9, <1>10 DEF ScriptPaired

\* ... and for one that was never run or only to prepare.
LEMMA UnconnectedPairs ==
  ASSUME script \in {<<>>, <<"pre-init">>}
  PROVE  ScriptPaired
<1>1. \A i \in 1 .. Len(script) : script[i] = "pre-init"
  OBVIOUS
<1>2. Runs("connect") = 0 /\ Runs("disconnect") = 0
  BY <1>1, NotRun
<1> QED
  BY <1>1, <1>2 DEF ScriptPaired

-----------------------------------------------------------------------------
\* vpnc-script is run for what it has to be run for, in order and in pairs
\* (tun.c, ssl_reconnect() and os_shutdown_tun()), however often the connection
\* is lost, whatever fails, and whenever signals come.
THEOREM ScriptsArePaired == Spec => []ScriptPaired
<1>1. IInv => ScriptPaired
  <2> SUFFICES ASSUME IInv PROVE ScriptPaired
    OBVIOUS
  <2>1. script \in {<<>>, <<"pre-init">>} \/ (Connected(script) /\ at # "gone") \/ Disconnected(script)
    BY DEF IInv, ScriptRun, TunDown, Leaving, Looping
  <2> QED
    BY <2>1, ConnectedPairs, DisconnectedPairs, UnconnectedPairs
<1> QED
  BY AlwaysIInv, <1>1, PTL

\* Once the parent is gone the pid file names the child, until that has ended the
\* session, and then there is none: background_self() and main(), in whatever
\* order the two processes get to run.
THEOREM PidsAreTrue == Spec => []PidTruth
<1>1. IInv => PidTruth
  BY DEF IInv, PidKept, PidTruth
<1> QED
  BY AlwaysIInv, <1>1, PTL

\* The loop sleeps only where commands, the connection and the tun device, if it
\* is up, would wake it (monitor_fd_new() and its relatives in the processes that
\* share an epoll descriptor).
THEOREM LoopsHear == Spec => []LoopHears
<1>1. IInv => LoopHears
  BY DEF IInv, Watched, LoopHears, Looping
<1> QED
  BY AlwaysIInv, <1>1, PTL

-----------------------------------------------------------------------------
(***************************************************************************)
(* The script's environment, for lists of routes of any length.  What is   *)
(* told of the routes is found by induction on the position in the list.   *)
(***************************************************************************)

LEMMA LeastOf ==
  ASSUME NEW T, T \subseteq Nat, T # {}
  PROVE  \E x \in T : \A y \in T : ~ (y < x)
<1>1. IsWellFoundedOn({ss \in Nat \X Nat : ss[1] < ss[2]}, Nat)
  BY NatLessThanWellFounded, Zenon DEF OpToRel
<1>2. PICK x \in T : \A y \in T : ~ (<<y, x>> \in {ss \in Nat \X Nat : ss[1] < ss[2]})
  BY <1>1, WFMin, Zenon
<1> QED
  BY <1>2

\* A set that has 0 and the successor of each of its members but the last.
LEMMA AllUpTo ==
  ASSUME NEW N \in Nat, NEW T, 0 \in T, \A n \in 1 .. N : n - 1 \in T => n \in T
  PROVE  \A n \in 0 .. N : n \in T
<1> DEFINE R == {n \in 0 .. N : n \notin T}
<1> SUFFICES ASSUME R # {} PROVE FALSE
  OBVIOUS
<1>1. PICK x \in R : \A y \in R : ~ (y < x)
  <2>1. R \subseteq Nat
    OBVIOUS
  <2> QED
    BY <2>1, LeastOf
<1>2. x \in 1 .. N /\ x - 1 \in 0 .. N /\ x - 1 < x
  BY <1>1
<1> QED
  BY <1>1, <1>2

\* script_setenv() changes one variable.
LEMMA SetIs ==
  ASSUME NEW env, NEW opt, NEW val
  PROVE  /\ opt \in DOMAIN script_setenv(env, opt, val)
         /\ script_setenv(env, opt, val)[opt] = val
         /\ \A o : o # opt =>
              /\ o \in DOMAIN script_setenv(env, opt, val) <=> o \in DOMAIN env
              /\ o \in DOMAIN env => script_setenv(env, opt, val)[o] = env[o]
BY DEF script_setenv

\* Two environments agree on a variable.
Agree(old, new, o) == /\ o \in DOMAIN new <=> o \in DOMAIN old
                      /\ o \in DOMAIN old => new[o] = old[o]

LEMMA SetAgrees ==
  ASSUME NEW env, NEW opt, NEW val, NEW o, o # opt
  PROVE  Agree(env, script_setenv(env, opt, val), o)
BY SetIs DEF Agree

LEMMA AgreeOn ==
  ASSUME NEW old, NEW mid, NEW new, NEW o, Agree(old, mid, o), Agree(mid, new, o)
  PROVE  Agree(old, new, o)
BY DEF Agree

-----------------------------------------------------------------------------
\* One route after the other.
Nothing(env) == [env |-> env, v4 |-> 0, v6 |-> 0]
Step(f, kind, routes, n) == process_split_xxclude(f[n - 1], kind, routes[n])
Run(f, env, kind, routes, k) ==
  f = [n \in 0 .. k |-> IF n = 0 THEN Nothing(env) ELSE Step(f, kind, routes, n)]

LEMMA RunExists ==
  ASSUME NEW env, NEW kind, NEW routes, NEW N \in Nat
  PROVE  \E f : Run(f, env, kind, routes, N)
<1> DEFINE T == {k \in 0 .. N : \E f : Run(f, env, kind, routes, k)}
<1>1. 0 \in T
  <2> DEFINE f == [n \in 0 .. 0 |-> Nothing(env)]
  <2>1. Run(f, env, kind, routes, 0)
    BY DEF Run
  <2> QED
    BY <2>1
<1>2. ASSUME NEW k \in 1 .. N, k - 1 \in T
      PROVE  k \in T
  <2>1. PICK f : Run(f, env, kind, routes, k - 1)
    BY <1>2
  <2> DEFINE g == [n \in 0 .. k |-> IF n = k THEN Step(f, kind, routes, k) ELSE f[n]]
  <2>2. \A n \in 0 .. k - 1 : g[n] = f[n]
    OBVIOUS
  <2>3. \A n \in 0 .. k : g[n] = IF n = 0 THEN Nothing(env) ELSE Step(g, kind, routes, n)
    <3> SUFFICES ASSUME NEW n \in 0 .. k
                 PROVE  g[n] = IF n = 0 THEN Nothing(env) ELSE Step(g, kind, routes, n)
      OBVIOUS
    <3>1. CASE n = k
      <4>1. k - 1 \in 0 .. k - 1 /\ k # 0
        OBVIOUS
      <4>2. Step(g, kind, routes, k) = Step(f, kind, routes, k)
        BY <2>2, <4>1 DEF Step
      <4> QED
        BY <3>1, <4>1, <4>2
    <3>2. CASE n \in 0 .. k - 1
      <4>1. f[n] = IF n = 0 THEN Nothing(env) ELSE Step(f, kind, routes, n)
        BY <2>1, <3>2 DEF Run
      <4>2. CASE n = 0
        BY <2>2, <3>2, <4>1, <4>2
      <4>3. CASE n # 0
        <5>1. n - 1 \in 0 .. k - 1
          BY <3>2, <4>3
        <5>2. Step(g, kind, routes, n) = Step(f, kind, routes, n)
          BY <2>2, <5>1 DEF Step
        <5> QED
          BY <2>2, <3>2, <4>1, <4>3, <5>2
      <4> QED
        BY <4>2, <4>3
    <3> QED
      BY <3>1, <3>2
  <2>4. Run(g, env, kind, routes, k)
    <3> HIDE DEF g
    <3>1. DOMAIN g = 0 .. k /\ g = [n \in 0 .. k |-> g[n]]
      BY DEF g
    <3> QED
      BY <2>3, <3>1 DEF Run
  <2> QED
    BY <2>4
<1> HIDE DEF T
<1>3. N \in T
  BY <1>1, <1>2, AllUpTo
<1> QED
  BY <1>3 DEF T

LEMMA SplitRuns ==
  ASSUME NEW env, NEW kind, NEW routes \in Seq(Routes)
  PROVE  \E f : /\ f[0] = Nothing(env)
                /\ \A n \in 1 .. Len(routes) : f[n] = Step(f, kind, routes, n)
                /\ Split(env, kind, routes) = f[Len(routes)]
<1>1. Len(routes) \in Nat
  BY LenProperties
<1> DEFINE N == Len(routes)
           f == CHOOSE f : f = [n \in 0 .. N |->
                  IF n = 0 THEN [env |-> env, v4 |-> 0, v6 |-> 0]
                  ELSE process_split_xxclude(f[n - 1], kind, routes[n])]
<1>2. Split(env, kind, routes) = f[N]
  BY DEF Split
<1>3. Run(f, env, kind, routes, N)
  BY <1>1, RunExists DEF Run, Step, Nothing
<1> HIDE DEF f
<1>4. \A n \in 0 .. N : f[n] = IF n = 0 THEN Nothing(env) ELSE Step(f, kind, routes, n)
  BY <1>3 DEF Run
<1> QED
  BY <1>1, <1>2, <1>4
-----------------------------------------------------------------------------
\* How many of the first n routes are told of.
LEMMA NumberOfIs ==
  ASSUME NEW routes, NEW family, NEW n \in Nat
  PROVE  /\ NumberOf(family, routes, n) \in Nat
         /\ NumberOf(family, routes, 0) = 0
         /\ NumberOf(family, routes, n + 1) =
              NumberOf(family, routes, n) + (IF Sound(family, routes[n + 1]) THEN 1 ELSE 0)
         /\ \A m \in 0 .. n : NumberOf(family, routes, m) <= NumberOf(family, routes, n)
<1> DEFINE S(m) == {i \in 1 .. m : Sound(family, routes[i])}
<1>1. \A m \in Nat : IsFiniteSet(S(m)) /\ NumberOf(family, routes, m) = Cardinality(S(m))
                     /\ NumberOf(family, routes, m) \in Nat
  <2> TAKE m \in Nat
  <2>1. IsFiniteSet(1 .. m) /\ S(m) \subseteq 1 .. m
    BY FS_Interval
  <2>2. IsFiniteSet(S(m))
    BY <2>1, FS_Subset
  <2> QED
    BY <2>2, FS_CardinalityType DEF NumberOf
<1>2. NumberOf(family, routes, 0) = 0
  <2>1. S(0) = {}
    OBVIOUS
  <2> QED
    BY <1>1, <2>1, FS_EmptySet
<1>3. NumberOf(family, routes, n + 1) =
        NumberOf(family, routes, n) + (IF Sound(family, routes[n + 1]) THEN 1 ELSE 0)
  <2>1. n + 1 \in Nat /\ n + 1 \notin S(n)
    OBVIOUS
  <2>2. CASE Sound(family, routes[n + 1])
    <3>1. S(n + 1) = S(n) \cup {n + 1}
      BY <2>2
    <3>2. Cardinality(S(n) \cup {n + 1}) = Cardinality(S(n)) + 1
      BY <1>1, <2>1, FS_AddElement
    <3> QED
      BY <1>1, <2>1, <2>2, <3>1, <3>2
  <2>3. CASE ~ Sound(family, routes[n + 1])
    <3>1. S(n + 1) = S(n)
      BY <2>3
    <3>2. NumberOf(family, routes, n + 1) = NumberOf(family, routes, n)
      BY <1>1, <2>1, <3>1
    <3>3. NumberOf(family, routes, n) \in Nat
      BY <1>1
    <3>4. (IF Sound(family, routes[n + 1]) THEN 1 ELSE 0) = 0
      BY <2>3
    <3> QED
      BY <3>2, <3>3, <3>4
  <2> QED
    BY <2>2, <2>3
<1>4. \A m \in 0 .. n : NumberOf(family, routes, m) <= NumberOf(family, routes, n)
  <2> TAKE m \in 0 .. n
  <2>1. S(m) \subseteq S(n) /\ m \in Nat
    OBVIOUS
  <2>2. Cardinality(S(m)) <= Cardinality(S(n))
    BY <1>1, <2>1, FS_Subset
  <2> QED
    BY <1>1, <2>1, <2>2
<1> QED
  BY <1>1, <1>2, <1>3, <1>4

\* What a run through the routes keeps in hand.
InHand(st) == st = [env |-> st.env, v4 |-> st.v4, v6 |-> st.v6] /\ st.v4 \in Nat /\ st.v6 \in Nat
Ahead4(kind, st) == {<<kind, 4, st.v4, "ADDR">>, <<kind, 4, st.v4, "MASKLEN">>}
Ahead6(kind, st) == {<<kind, 6, st.v6, "ADDR">>, <<kind, 6, st.v6, "MASKLEN">>}
OneIf(condition) == IF condition THEN 1 ELSE 0
OnlyAhead(kind, old, new) ==
  \A o : o \notin Ahead4(kind, old) \cup Ahead6(kind, old) => Agree(old.env, new.env, o)

\* One route: what is sound takes the next number of its family.
LEMMA SplitsLegacy ==
  ASSUME NEW kind, NEW st, InHand(st), NEW r \in Routes, r.family = 4,
         NEW t, t = process_split_xxclude(st, kind, r)
  PROVE  /\ InHand(t) /\ t.v4 = st.v4 + OneIf(Sound(4, r)) /\ t.v6 = st.v6 + OneIf(Sound(6, r))
         /\ Sound(4, r) => RouteTold(t.env, kind, st.v4, r)
         /\ OnlyAhead(kind, st, t)
<1> DEFINE len == MaskLen4(r.mask)
           a == <<kind, 4, st.v4, "ADDR">>
           l == <<kind, 4, st.v4, "MASKLEN">>
           addr == script_setenv(st.env, a, <<Network(r.net, len)>>)
           both == script_setenv(addr, l, <<len>>)
<1>1. t = IF Good4(r) THEN [env |-> both, v4 |-> st.v4 + 1, v6 |-> st.v6] ELSE st
  BY DEF process_split_xxclude, SplitLegacy
<1>2. Sound(4, r) = Good4(r) /\ Sound(6, r) = FALSE
  BY DEF Sound, Good4, Good6
<1>3. a # l
  OBVIOUS
<1> HIDE DEF a, l, len
<1>4. CASE Good4(r)
  <2>1. /\ a \in DOMAIN both /\ both[a] = <<Network(r.net, len)>>
        /\ l \in DOMAIN both /\ both[l] = <<len>>
    BY <1>3, SetIs
  <2>2. \A o : o \notin {a, l} => Agree(st.env, both, o)
    <3> SUFFICES ASSUME NEW o, o # a, o # l PROVE Agree(st.env, both, o)
      OBVIOUS
    <3>1. Agree(st.env, addr, o)
      BY SetAgrees
    <3> HIDE DEF addr
    <3>2. Agree(addr, both, o)
      BY SetAgrees
    <3> QED
      BY <3>1, <3>2, AgreeOn
  <2> HIDE DEF both
  <2>3. t = [env |-> both, v4 |-> st.v4 + 1, v6 |-> st.v6]
    BY <1>1, <1>4
  <2>4. t.env = both /\ t.v4 = st.v4 + 1 /\ t.v6 = st.v6
    BY <2>3
  <2>5. InHand(t)
    BY <2>3, <2>4 DEF InHand
  <2>6. RouteTold(t.env, kind, st.v4, r)
    BY <2>1, <2>4 DEF RouteTold, a, l, len
  <2>7. OnlyAhead(kind, st, t)
    BY <2>2, <2>4 DEF OnlyAhead, Ahead4, a, l
  <2>8. OneIf(Sound(4, r)) = 1 /\ OneIf(Sound(6, r)) = 0
    BY <1>2, <1>4 DEF OneIf
  <2>9. st.v4 \in Nat /\ st.v6 \in Nat
    BY DEF InHand
  <2>10. t.v4 = st.v4 + OneIf(Sound(4, r)) /\ t.v6 = st.v6 + OneIf(Sound(6, r))
    BY <2>4, <2>8, <2>9
  <2> QED
    BY <2>5, <2>6, <2>7, <2>10
<1>5. CASE ~ Good4(r)
  <2>1. t = st
    BY <1>1, <1>5
  <2> QED
    BY <1>2, <1>5, <2>1 DEF InHand, OneIf, Agree, OnlyAhead
<1> QED
  BY <1>4, <1>5

LEMMA SplitsIPv6 ==
  ASSUME NEW kind, NEW st, InHand(st), NEW r \in Routes, r.family = 6,
         NEW t, t = process_split_xxclude(st, kind, r)
  PROVE  /\ InHand(t) /\ t.v4 = st.v4 + OneIf(Sound(4, r)) /\ t.v6 = st.v6 + OneIf(Sound(6, r))
         /\ Sound(6, r) => RouteTold(t.env, kind, st.v6, r)
         /\ OnlyAhead(kind, st, t)
<1> DEFINE a == <<kind, 6, st.v6, "ADDR">>
           l == <<kind, 6, st.v6, "MASKLEN">>
           text == IF r.mask.form = "none" THEN <<r.net>> ELSE <<r.net, r.mask>>
           told == IF a \in DOMAIN st.env THEN text ELSE <<r.net>>
           addr == script_setenv(st.env, a, told)
           both == script_setenv(addr, l, <<MaskLen6(r.mask)>>)
<1>1. t = IF Good6(r) THEN [env |-> both, v4 |-> st.v4, v6 |-> st.v6 + 1]
                      ELSE [env |-> addr, v4 |-> st.v4, v6 |-> st.v6]
  BY DEF process_split_xxclude, SplitIPv6, SetTruncated
<1>2. Sound(6, r) = Good6(r) /\ Sound(4, r) = FALSE
  BY DEF Sound, Good4, Good6
<1>3. a # l
  OBVIOUS
<1>4. Head(told) = r.net
  OBVIOUS
<1> HIDE DEF a, l, told
<1>5. \A o : o # a => Agree(st.env, addr, o)
  BY SetAgrees
<1>6. CASE Good6(r)
  <2>1. /\ a \in DOMAIN both /\ both[a] = told
        /\ l \in DOMAIN both /\ both[l] = <<MaskLen6(r.mask)>>
    BY <1>3, SetIs
  <2>2. \A o : o \notin {a, l} => Agree(st.env, both, o)
    <3> SUFFICES ASSUME NEW o, o # a, o # l PROVE Agree(st.env, both, o)
      OBVIOUS
    <3>1. Agree(st.env, addr, o)
      BY SetAgrees
    <3> HIDE DEF addr
    <3>2. Agree(addr, both, o)
      BY SetAgrees
    <3> QED
      BY <3>1, <3>2, AgreeOn
  <2> HIDE DEF both
  <2>3. t = [env |-> both, v4 |-> st.v4, v6 |-> st.v6 + 1]
    BY <1>1, <1>6
  <2>4. t.env = both /\ t.v4 = st.v4 /\ t.v6 = st.v6 + 1
    BY <2>3
  <2>5. InHand(t)
    BY <2>3, <2>4 DEF InHand
  <2>6. RouteTold(t.env, kind, st.v6, r)
    BY <1>4, <2>1, <2>4 DEF RouteTold, a, l
  <2>7. OnlyAhead(kind, st, t)
    BY <2>2, <2>4 DEF OnlyAhead, Ahead6, a, l
  <2>8. OneIf(Sound(4, r)) = 0 /\ OneIf(Sound(6, r)) = 1
    BY <1>2, <1>6 DEF OneIf
  <2>9. st.v4 \in Nat /\ st.v6 \in Nat
    BY DEF InHand
  <2>10. t.v4 = st.v4 + OneIf(Sound(4, r)) /\ t.v6 = st.v6 + OneIf(Sound(6, r))
    BY <2>4, <2>8, <2>9
  <2> QED
    BY <2>5, <2>6, <2>7, <2>10
<1>7. CASE ~ Good6(r)
  <2> HIDE DEF addr
  <2>1. t = [env |-> addr, v4 |-> st.v4, v6 |-> st.v6]
    BY <1>1, <1>7
  <2>2. t.env = addr /\ t.v4 = st.v4 /\ t.v6 = st.v6
    BY <2>1
  <2>3. InHand(t)
    BY <2>1, <2>2 DEF InHand
  <2>4. OnlyAhead(kind, st, t)
    BY <1>5, <2>2 DEF OnlyAhead, Ahead6, a
  <2> QED
    BY <1>2, <1>7, <2>2, <2>3, <2>4 DEF InHand, OneIf
<1> QED
  BY <1>6, <1>7

\* What is told of the first n routes.
ToldUpTo(st, env, kind, routes, n) ==
  /\ InHand(st)
  /\ st.v4 = NumberOf(4, routes, n) /\ st.v6 = NumberOf(6, routes, n)
  /\ \A i \in 1 .. n : \A family \in {4, 6} : Sound(family, routes[i]) =>
       RouteTold(st.env, kind, NumberOf(family, routes, i - 1), routes[i])
  /\ \A o : Len(o) # 4 \/ o[1] # kind => Agree(env, st.env, o)

\* A route that was told of with a lower number is still told of.
LEMMA RouteStays ==
  ASSUME NEW kind, NEW st, InHand(st), NEW t, OnlyAhead(kind, st, t),
         NEW r \in Routes, NEW number \in Nat, RouteTold(st.env, kind, number, r),
         r.family = 4 => number < st.v4,
         r.family = 6 => number < st.v6
  PROVE  RouteTold(t.env, kind, number, r)
<1> DEFINE a == <<kind, r.family, number, "ADDR">>
           l == <<kind, r.family, number, "MASKLEN">>
<1>1. r.family \in {4, 6} /\ st.v4 \in Nat /\ st.v6 \in Nat
  BY DEF Routes, InHand
<1>2. \A k : k \in Ahead4(kind, st) => k[2] = 4 /\ k[3] = st.v4
  BY DEF Ahead4
<1>3. \A k : k \in Ahead6(kind, st) => k[2] = 6 /\ k[3] = st.v6
  BY DEF Ahead6
<1>4. a[2] = r.family /\ a[3] = number /\ l[2] = r.family /\ l[3] = number
  OBVIOUS
<1>5. a \notin Ahead4(kind, st) \cup Ahead6(kind, st) /\ l \notin Ahead4(kind, st) \cup Ahead6(kind, st)
  BY <1>1, <1>2, <1>3, <1>4
<1>6. Agree(st.env, t.env, a) /\ Agree(st.env, t.env, l)
  BY <1>5 DEF OnlyAhead
<1>7. {a, l} \subseteq DOMAIN st.env
  BY DEF RouteTold
<1>8. {a, l} \subseteq DOMAIN t.env /\ t.env[a] = st.env[a] /\ t.env[l] = st.env[l]
  BY <1>6, <1>7 DEF Agree
<1> QED
  BY <1>8 DEF RouteTold

LEMMA SplitStep ==
  ASSUME NEW env, NEW kind, NEW routes \in Seq(Routes), NEW n \in 1 .. Len(routes),
         NEW st, ToldUpTo(st, env, kind, routes, n - 1)
  PROVE  ToldUpTo(process_split_xxclude(st, kind, routes[n]), env, kind, routes, n)
<1> DEFINE r == routes[n]
           t == process_split_xxclude(st, kind, r)
<1>1. /\ r \in Routes /\ r.family \in {4, 6} /\ n - 1 \in Nat /\ (n - 1) + 1 = n /\ n \in Nat
      /\ \A i \in 1 .. n : routes[i] \in Routes
  <2>1. Len(routes) \in Nat /\ \A i \in 1 .. Len(routes) : routes[i] \in Routes
    BY LenProperties, ElementOfSeq
  <2>2. r \in Routes /\ \A i \in 1 .. n : routes[i] \in Routes
    BY <2>1
  <2>3. r.family \in {4, 6}
    BY <2>2 DEF Routes
  <2> QED
    BY <2>1, <2>2, <2>3
<1>2. InHand(st) /\ st.v4 = NumberOf(4, routes, n - 1) /\ st.v6 = NumberOf(6, routes, n - 1)
  BY DEF ToldUpTo
<1>3. /\ InHand(t) /\ t.v4 = st.v4 + OneIf(Sound(4, r)) /\ t.v6 = st.v6 + OneIf(Sound(6, r))
      /\ r.family = 4 /\ Sound(4, r) => RouteTold(t.env, kind, st.v4, r)
      /\ r.family = 6 /\ Sound(6, r) => RouteTold(t.env, kind, st.v6, r)
      /\ OnlyAhead(kind, st, t)
  <2>1. CASE r.family = 4
    BY <1>1, <1>2, <2>1, SplitsLegacy
  <2>2. CASE r.family = 6
    BY <1>1, <1>2, <2>2, SplitsIPv6
  <2> QED
    BY <1>1, <2>1, <2>2
<1> HIDE DEF t
<1>4. t.v4 = NumberOf(4, routes, n) /\ t.v6 = NumberOf(6, routes, n)
  <2>1. \A family : NumberOf(family, routes, (n - 1) + 1) =
                       NumberOf(family, routes, n - 1) + OneIf(Sound(family, routes[(n - 1) + 1]))
    BY <1>1, NumberOfIs DEF OneIf
  <2>2. \A family : NumberOf(family, routes, n) = NumberOf(family, routes, n - 1) + OneIf(Sound(family, r))
    BY <1>1, <2>1
  <2> QED
    BY <1>2, <1>3, <2>1, <2>2
<1>5. ASSUME NEW i \in 1 .. n, NEW family \in {4, 6}, Sound(family, routes[i])
      PROVE  RouteTold(t.env, kind, NumberOf(family, routes, i - 1), routes[i])
  <2>1. routes[i].family = family
    BY <1>5 DEF Sound
  <2>2. CASE i = n
    BY <1>2, <1>3, <1>5, <2>1, <2>2
  <2>3. CASE i # n
    <3>1. i \in 1 .. n - 1 /\ i - 1 \in Nat /\ (i - 1) + 1 = i /\ i \in 0 .. n - 1
      BY <1>1, <2>3
    <3>2. RouteTold(st.env, kind, NumberOf(family, routes, i - 1), routes[i])
      BY <1>5, <3>1 DEF ToldUpTo
    <3>3. /\ NumberOf(family, routes, i) = NumberOf(family, routes, i - 1) + 1
          /\ NumberOf(family, routes, i - 1) \in Nat
      BY <1>5, <3>1, NumberOfIs
    <3>4. NumberOf(family, routes, i) <= NumberOf(family, routes, n - 1)
      BY <1>1, <3>1, NumberOfIs
    <3>5. NumberOf(family, routes, n - 1) \in Nat
      BY <1>1, NumberOfIs
    <3>6. NumberOf(family, routes, i - 1) < NumberOf(family, routes, n - 1)
      BY <3>3, <3>4, <3>5
    <3>7. /\ routes[i].family = 4 => NumberOf(family, routes, i - 1) < st.v4
          /\ routes[i].family = 6 => NumberOf(family, routes, i - 1) < st.v6
      BY <1>2, <2>1, <3>6
    <3>8. routes[i] \in Routes
      BY <1>1
    <3> QED
      BY <1>2, <1>3, <3>2, <3>3, <3>7, <3>8, RouteStays
  <2> QED
    BY <2>2, <2>3
<1>6. ASSUME NEW o, Len(o) # 4 \/ o[1] # kind
      PROVE  Agree(env, t.env, o)
  <2>1. \A k \in Ahead4(kind, st) \cup Ahead6(kind, st) : Len(k) = 4 /\ k[1] = kind
    BY DEF Ahead4, Ahead6
  <2>2. Agree(st.env, t.env, o)
    BY <1>3, <1>6, <2>1 DEF OnlyAhead
  <2>3. Agree(env, st.env, o)
    BY <1>6 DEF ToldUpTo
  <2> QED
    BY <2>2, <2>3, AgreeOn
<1> QED
  BY <1>3, <1>4, <1>5, <1>6 DEF ToldUpTo, t

LEMMA SplitTells ==
  ASSUME NEW env, NEW kind, NEW routes \in Seq(Routes)
  PROVE  ToldUpTo(Split(env, kind, routes), env, kind, routes, Len(routes))
<1>1. PICK f : /\ f[0] = Nothing(env)
               /\ \A n \in 1 .. Len(routes) : f[n] = Step(f, kind, routes, n)
               /\ Split(env, kind, routes) = f[Len(routes)]
  BY SplitRuns
<1> DEFINE T == {n \in 0 .. Len(routes) : ToldUpTo(f[n], env, kind, routes, n)}
<1>2. Len(routes) \in Nat
  BY LenProperties
<1>3. ToldUpTo(Nothing(env), env, kind, routes, 0)
  <2>1. NumberOf(4, routes, 0) = 0 /\ NumberOf(6, routes, 0) = 0
    BY NumberOfIs
  <2>2. InHand(Nothing(env)) /\ Nothing(env).v4 = 0 /\ Nothing(env).v6 = 0 /\ Nothing(env).env = env
    BY DEF InHand, Nothing
  <2> QED
    BY <2>1, <2>2 DEF ToldUpTo, Agree
<1>4. \A n \in 1 .. Len(routes) : n - 1 \in T => n \in T
  <2> SUFFICES ASSUME NEW n \in 1 .. Len(routes), n - 1 \in T
               PROVE  n \in T
    OBVIOUS
  <2>1. ToldUpTo(f[n - 1], env, kind, routes, n - 1)
    OBVIOUS
  <2>2. ToldUpTo(process_split_xxclude(f[n - 1], kind, routes[n]), env, kind, routes, n)
    BY <2>1, SplitStep
  <2>3. ToldUpTo(f[n], env, kind, routes, n)
    BY <1>1, <2>2 DEF Step
  <2> QED
    BY <1>2, <2>3
<1>5. 0 \in T
  BY <1>1, <1>2, <1>3
<1> HIDE DEF T
<1>6. Len(routes) \in T
  <2>1. \A n \in 0 .. Len(routes) : n \in T
    BY <1>2, <1>4, <1>5, AllUpTo
  <2> QED
    BY <1>2, <2>1
<1> QED
  BY <1>1, <1>6 DEF T

\* The counts are not among what is told of each.
LEMMA CountsUntold ==
  ASSUME NEW st, NEW env, NEW kind, NEW routes, NEW n, ToldUpTo(st, env, kind, routes, n)
  PROVE  Agree(env, st.env, <<kind, 4>>) /\ Agree(env, st.env, <<kind, 6>>)
<1>1. \A o : Len(o) # 4 => Agree(env, st.env, o)
  BY DEF ToldUpTo
<1>2. Len(<<kind, 4>>) # 4 /\ Len(<<kind, 6>>) # 4
  OBVIOUS
<1> QED
  BY <1>1, <1>2

\* None of them counted.
LEMMA NoneCounted ==
  ASSUME NEW old, NEW new, NEW o, o \in DOMAIN old => old[o] = Unset, Agree(old, new, o)
  PROVE  CountTold(new, o, 0)
BY DEF CountTold, Agree

-----------------------------------------------------------------------------
\* All the routes of a kind.
LEMMA SplitRoutesTells ==
  ASSUME NEW env, NEW kind, NEW routes \in Seq(Routes),
         <<kind, 4>> \in DOMAIN env => env[<<kind, 4>>] = Unset,
         <<kind, 6>> \in DOMAIN env => env[<<kind, 6>>] = Unset
  PROVE  /\ Numbered(SplitRoutes(env, kind, routes), kind, routes)
         /\ \A o : o[1] # kind => Agree(env, SplitRoutes(env, kind, routes), o)
<1> DEFINE st == Split(env, kind, routes)
           one == SetCount(st.env, <<kind, 4>>, st.v4)
           all == SetCount(one, <<kind, 6>>, st.v6)
<1>1. SplitRoutes(env, kind, routes) = all
  BY DEF SplitRoutes
<1>2. ToldUpTo(st, env, kind, routes, Len(routes))
  BY SplitTells
<1> HIDE DEF st
<1>3. \A o : o # <<kind, 4>> => Agree(st.env, one, o)
  BY SetAgrees DEF SetCount, Agree
<1>4. CountTold(one, <<kind, 4>>, st.v4)
  <2>1. CASE st.v4 > 0
    BY <2>1, SetIs DEF SetCount, CountTold
  <2>2. CASE ~ (st.v4 > 0)
    <3>1. st.v4 = 0 /\ one = st.env
      BY <1>2, <2>2 DEF ToldUpTo, InHand, SetCount
    <3>2. Agree(env, one, <<kind, 4>>)
      BY <1>2, <3>1, CountsUntold
    <3>3. CountTold(one, <<kind, 4>>, 0)
      BY <3>2, NoneCounted
    <3> QED
      BY <3>1, <3>3
  <2> QED
    BY <2>1, <2>2
<1> HIDE DEF one
<1>5. \A o : o # <<kind, 6>> => Agree(one, all, o)
  BY SetAgrees DEF SetCount, Agree
<1>6. CountTold(all, <<kind, 6>>, st.v6)
  <2>1. CASE st.v6 > 0
    BY <2>1, SetIs DEF SetCount, CountTold
  <2>2. CASE ~ (st.v6 > 0)
    <3>1. st.v6 = 0 /\ all = one
      BY <1>2, <2>2 DEF ToldUpTo, InHand, SetCount
    <3>2. Agree(env, st.env, <<kind, 6>>)
      BY <1>2, CountsUntold
    <3>3. Agree(st.env, one, <<kind, 6>>)
      BY <1>3
    <3>4. Agree(env, all, <<kind, 6>>)
      BY <3>1, <3>2, <3>3, AgreeOn
    <3>5. CountTold(all, <<kind, 6>>, 0)
      BY <3>4, NoneCounted
    <3> QED
      BY <3>1, <3>5
  <2> QED
    BY <2>1, <2>2
<1> HIDE DEF all
<1>7. CountTold(all, <<kind, 4>>, st.v4)
  <2>1. Agree(one, all, <<kind, 4>>)
    BY <1>5
  <2> QED
    BY <1>4, <2>1 DEF CountTold, Agree
<1>8. \A family, number, name : Agree(st.env, all, <<kind, family, number, name>>)
  <2> TAKE family, number, name
  <2> DEFINE o == <<kind, family, number, name>>
  <2>1. o # <<kind, 4>> /\ o # <<kind, 6>>
    OBVIOUS
  <2> HIDE DEF o
  <2>2. Agree(st.env, one, o) /\ Agree(one, all, o)
    BY <1>3, <1>5, <2>1
  <2>3. Agree(st.env, all, o)
    BY <2>2, AgreeOn
  <2> QED
    BY <2>3 DEF o
<1>9. ASSUME NEW r, NEW number, RouteTold(st.env, kind, number, r)
      PROVE  RouteTold(all, kind, number, r)
  <2> DEFINE a == <<kind, r.family, number, "ADDR">>
             l == <<kind, r.family, number, "MASKLEN">>
  <2>1. Agree(st.env, all, a) /\ Agree(st.env, all, l)
    BY <1>8
  <2>2. {a, l} \subseteq DOMAIN st.env
    BY <1>9 DEF RouteTold
  <2>3. {a, l} \subseteq DOMAIN all /\ all[a] = st.env[a] /\ all[l] = st.env[l]
    BY <2>1, <2>2 DEF Agree
  <2> QED
    BY <1>9, <2>3 DEF RouteTold
<1>10. Numbered(all, kind, routes)
  <2>1. st.v4 = NumberOf(4, routes, Len(routes)) /\ st.v6 = NumberOf(6, routes, Len(routes))
    BY <1>2 DEF ToldUpTo
  <2>2. \A i \in 1 .. Len(routes) : \A family \in {4, 6} : Sound(family, routes[i]) =>
          RouteTold(all, kind, NumberOf(family, routes, i - 1), routes[i])
    BY <1>2, <1>9 DEF ToldUpTo
  <2> QED
    BY <1>6, <1>7, <2>1, <2>2 DEF Numbered
<1>11. ASSUME NEW o, o[1] # kind PROVE Agree(env, all, o)
  <2>1. o # <<kind, 4>> /\ o # <<kind, 6>>
    BY <1>11
  <2>2. Agree(env, st.env, o)
    BY <1>2, <1>11 DEF ToldUpTo
  <2> QED
    BY <1>3, <1>5, <2>1, <2>2, AgreeOn
<1> QED
  BY <1>1, <1>10, <1>11

\* What is told of one kind of routes stays when the other kind is told.
LEMMA NumberedStays ==
  ASSUME NEW old, NEW new, NEW kind, NEW other, kind # other, NEW routes,
         Numbered(old, kind, routes), \A o : o[1] # other => Agree(old, new, o)
  PROVE  Numbered(new, kind, routes)
<1>1. \A family : Agree(old, new, <<kind, family>>)
  OBVIOUS
<1>2. \A family, number, name : Agree(old, new, <<kind, family, number, name>>)
  OBVIOUS
<1>3. ASSUME NEW family, NEW count, CountTold(old, <<kind, family>>, count)
      PROVE  CountTold(new, <<kind, family>>, count)
  BY <1>1, <1>3 DEF CountTold, Agree
<1>4. ASSUME NEW number, NEW r, RouteTold(old, kind, number, r)
      PROVE  RouteTold(new, kind, number, r)
  <2> DEFINE a == <<kind, r.family, number, "ADDR">>
             l == <<kind, r.family, number, "MASKLEN">>
  <2>1. Agree(old, new, a) /\ Agree(old, new, l)
    BY <1>2
  <2>2. {a, l} \subseteq DOMAIN old
    BY <1>4 DEF RouteTold
  <2>3. {a, l} \subseteq DOMAIN new /\ new[a] = old[a] /\ new[l] = old[l]
    BY <2>1, <2>2 DEF Agree
  <2> QED
    BY <1>4, <2>3 DEF RouteTold
<1> QED
  BY <1>3, <1>4 DEF Numbered

-----------------------------------------------------------------------------
\* What is told is true of an ip_info and a process.
TellsTruth(env, ip, pid) ==
  /\ <<"VPNPID">> \in DOMAIN env => env[<<"VPNPID">>] = <<pid>>
  /\ <<"INTERNAL_IP4_ADDRESS">> \in DOMAIN env =>
       ip.addr # None /\ env[<<"INTERNAL_IP4_ADDRESS">>] = <<ip.addr>>
  /\ <<"INTERNAL_IP4_NETMASK">> \in DOMAIN env =>
       ip.netmask # None /\ env[<<"INTERNAL_IP4_NETMASK">>] = <<ip.netmask>>
  /\ <<"INTERNAL_IP6_NETMASK">> \in DOMAIN env =>
       ip.netmask6 # <<>> /\ env[<<"INTERNAL_IP6_NETMASK">>] = ip.netmask6
  /\ <<"INTERNAL_IP6_ADDRESS">> \in DOMAIN env =>
       \/ ip.addr6 # None /\ env[<<"INTERNAL_IP6_ADDRESS">>] = <<ip.addr6>>
       \/ ip.netmask6 # <<>> /\ env[<<"INTERNAL_IP6_ADDRESS">>] = AddressOf(ip.netmask6)

LEMMA TruthStays ==
  ASSUME NEW old, NEW new, NEW ip, NEW pid, TellsTruth(old, ip, pid),
         \A o : o[1] \in {"VPNPID", "INTERNAL_IP4_ADDRESS", "INTERNAL_IP4_NETMASK",
                         "INTERNAL_IP6_NETMASK", "INTERNAL_IP6_ADDRESS"} => Agree(old, new, o)
  PROVE  TellsTruth(new, ip, pid)
<1>1. /\ Agree(old, new, <<"VPNPID">>)
      /\ Agree(old, new, <<"INTERNAL_IP4_ADDRESS">>) /\ Agree(old, new, <<"INTERNAL_IP4_NETMASK">>)
      /\ Agree(old, new, <<"INTERNAL_IP6_NETMASK">>) /\ Agree(old, new, <<"INTERNAL_IP6_ADDRESS">>)
  OBVIOUS
<1> QED
  BY <1>1 DEF TellsTruth, Agree

\* The addresses, for an environment that has none.
LEMMA AddressesAreTold ==
  ASSUME NEW env, NEW ip \in IpInfos, NEW pid,
         env[<<"VPNPID">>] = <<pid>>,
         <<"INTERNAL_IP4_ADDRESS">> \notin DOMAIN env, <<"INTERNAL_IP4_NETMASK">> \notin DOMAIN env,
         <<"INTERNAL_IP6_ADDRESS">> \notin DOMAIN env, <<"INTERNAL_IP6_NETMASK">> \notin DOMAIN env
  PROVE  /\ TellsTruth(IPv6(Legacy(env, ip), ip), ip, pid)
         /\ \A o : o[1] \in {"IN", "EX"} => Agree(env, IPv6(Legacy(env, ip), ip), o)
<1> DEFINE A4 == <<"INTERNAL_IP4_ADDRESS">>
           M4 == <<"INTERNAL_IP4_NETMASK">>
           A6 == <<"INTERNAL_IP6_ADDRESS">>
           M6 == <<"INTERNAL_IP6_NETMASK">>
           P  == <<"VPNPID">>
           e1 == PutIf(ip.addr # None, env, A4, <<ip.addr>>)
           e2 == PutIf(ip.addr # None /\ ip.netmask # None, e1, M4, <<ip.netmask>>)
           e3 == PutIf(ip.addr6 # None, e2, A6, <<ip.addr6>>)
           e4 == PutIf(ip.netmask6 # <<>>, e3, M6, ip.netmask6)
           cuts == ip.netmask6 # <<>> /\ ip.addr6 = None
           told == IF A6 \in DOMAIN e4 THEN ip.netmask6 ELSE AddressOf(ip.netmask6)
           e5 == PutIf(cuts, e4, A6, told)
<1>1. IPv6(Legacy(env, ip), ip) = e5
  BY DEF IPv6, Legacy, SetTruncated, PutIf
<1>2. /\ A4 # M4 /\ A4 # A6 /\ A4 # M6 /\ M4 # A6 /\ M4 # M6 /\ A6 # M6
      /\ P \notin {A4, M4, A6, M6}
  OBVIOUS
<1>3. \A o : o[1] \in {"IN", "EX"} => o \notin {A4, M4, A6, M6}
  OBVIOUS
<1>4. /\ A4 \notin DOMAIN env /\ M4 \notin DOMAIN env /\ A6 \notin DOMAIN env /\ M6 \notin DOMAIN env
      /\ env[P] = <<pid>>
  OBVIOUS
<1> HIDE DEF A4, M4, A6, M6, P
<1>5. /\ A4 \in DOMAIN e1 => ip.addr # None /\ e1[A4] = <<ip.addr>>
      /\ \A o : o # A4 => Agree(env, e1, o)
  BY <1>4, SetIs, SetAgrees DEF PutIf, Agree
<1> HIDE DEF e1
<1>6. /\ M4 \in DOMAIN e2 => ip.netmask # None /\ e2[M4] = <<ip.netmask>>
      /\ \A o : o # M4 => Agree(e1, e2, o)
  BY <1>2, <1>4, <1>5, SetIs, SetAgrees DEF PutIf, Agree
<1> HIDE DEF e2
<1>7. /\ A6 \in DOMAIN e3 <=> ip.addr6 # None
      /\ A6 \in DOMAIN e3 => e3[A6] = <<ip.addr6>>
      /\ \A o : o # A6 => Agree(e2, e3, o)
  BY <1>2, <1>4, <1>5, <1>6, SetIs, SetAgrees DEF PutIf, Agree
<1> HIDE DEF e3
<1>8. /\ M6 \in DOMAIN e4 => ip.netmask6 # <<>> /\ e4[M6] = ip.netmask6
      /\ \A o : o # M6 => Agree(e3, e4, o)
  BY <1>2, <1>4, <1>5, <1>6, <1>7, SetIs, SetAgrees DEF PutIf, Agree
<1> HIDE DEF e4
<1>9. Agree(e3, e4, A6)
  BY <1>2, <1>8
<1>10. cuts => e5 = script_setenv(e4, A6, told)
  BY DEF PutIf
<1>11. ~ cuts => e5 = e4
  BY DEF PutIf
<1>12. cuts => A6 \notin DOMAIN e4
  BY <1>7, <1>9 DEF Agree
<1>13. cuts => ip.netmask6 # <<>>
  OBVIOUS
<1>14. A6 \notin DOMAIN e4 => told = AddressOf(ip.netmask6)
  OBVIOUS
<1> HIDE DEF e5, cuts, told
<1>15. A6 \in DOMAIN e5 => \/ ip.addr6 # None /\ e5[A6] = <<ip.addr6>>
                           \/ ip.netmask6 # <<>> /\ e5[A6] = AddressOf(ip.netmask6)
  <2>1. CASE cuts
    <3>1. e5[A6] = AddressOf(ip.netmask6)
      BY <1>10, <1>12, <1>14, <2>1, SetIs
    <3> QED
      BY <1>13, <2>1, <3>1
  <2>2. CASE ~ cuts
    <3>1. A6 \in DOMAIN e4 => ip.addr6 # None /\ e4[A6] = <<ip.addr6>>
      BY <1>7, <1>9 DEF Agree
    <3> QED
      BY <1>11, <2>2, <3>1
  <2> QED
    BY <2>1, <2>2
<1>16. ASSUME NEW o, o # A6 PROVE Agree(e4, e5, o)
  <2>1. CASE cuts
    BY <1>10, <1>16, <2>1, SetAgrees
  <2>2. CASE ~ cuts
    BY <1>11, <2>2 DEF Agree
  <2> QED
    BY <2>1, <2>2
<1>17. /\ Agree(e1, e5, A4) /\ Agree(e2, e5, M4) /\ Agree(e4, e5, M6) /\ Agree(env, e5, P)
  <2>1. Agree(e1, e2, A4) /\ Agree(e2, e3, A4) /\ Agree(e3, e4, A4) /\ Agree(e4, e5, A4)
    BY <1>2, <1>6, <1>7, <1>8, <1>16
  <2>2. Agree(e2, e3, M4) /\ Agree(e3, e4, M4) /\ Agree(e4, e5, M4)
    BY <1>2, <1>7, <1>8, <1>16
  <2>3. Agree(env, e1, P) /\ Agree(e1, e2, P) /\ Agree(e2, e3, P) /\ Agree(e3, e4, P) /\ Agree(e4, e5, P)
    BY <1>2, <1>5, <1>6, <1>7, <1>8, <1>16
  <2>4. Agree(e4, e5, M6)
    BY <1>2, <1>16
  <2>5. Agree(e1, e5, A4)
    BY <2>1 DEF Agree
  <2>6. Agree(e2, e5, M4)
    BY <2>2 DEF Agree
  <2>7. Agree(env, e5, P)
    BY <2>3 DEF Agree
  <2> QED
    BY <2>4, <2>5, <2>6, <2>7
<1>18. TellsTruth(e5, ip, pid)
  BY <1>4, <1>5, <1>6, <1>8, <1>15, <1>17 DEF TellsTruth, Agree, A4, M4, A6, M6, P
<1>19. ASSUME NEW o, o[1] \in {"IN", "EX"} PROVE Agree(env, e5, o)
  <2>1. o # A4 /\ o # M4 /\ o # A6 /\ o # M6
    BY <1>3, <1>19
  <2>2. Agree(env, e1, o) /\ Agree(e1, e2, o) /\ Agree(e2, e3, o) /\ Agree(e3, e4, o) /\ Agree(e4, e5, o)
    BY <1>5, <1>6, <1>7, <1>8, <1>16, <2>1
  <2> QED
    BY <2>2 DEF Agree
<1> QED
  BY <1>1, <1>18, <1>19

\* All of it, the first time.
LEMMA PreparedTells ==
  ASSUME NEW env, DOMAIN env = {}, NEW ip \in IpInfos, NEW pid
  PROVE  /\ TellsTruth(prepare_script_env(env, ip, pid), ip, pid)
         /\ Numbered(prepare_script_env(env, ip, pid), "IN", ip.includes)
         /\ Numbered(prepare_script_env(env, ip, pid), "EX", ip.excludes)
<1> DEFINE In4 == <<"IN", 4>>
           Ex4 == <<"EX", 4>>
           P == <<"VPNPID">>
           e1 == script_setenv(env, In4, Unset)
           e2 == script_setenv(e1, Ex4, Unset)
           e3 == script_setenv(e2, P, <<pid>>)
           e4 == IPv6(Legacy(e3, ip), ip)
           e5 == script_setenv(e4, <<"INTERNAL_IP4_DNS">>, Chosen(ip.dns, KeptDns(ip.dns)))
           e6 == script_setenv(e5, <<"INTERNAL_IP4_NBNS">>, Chosen(ip.nbns, KeptNbns))
           e7 == SplitRoutes(e6, "IN", ip.includes)
           e8 == SplitRoutes(e7, "EX", ip.excludes)
<1>1. prepare_script_env(env, ip, pid) = e8
  BY DEF prepare_script_env, PutList
<1>2. ip.includes \in Seq(Routes) /\ ip.excludes \in Seq(Routes)
  BY DEF IpInfos
<1>3. In4 # Ex4 /\ In4 # P /\ Ex4 # P
  OBVIOUS
<1>4. /\ <<"INTERNAL_IP4_ADDRESS">> \notin {In4, Ex4, P} /\ <<"INTERNAL_IP4_NETMASK">> \notin {In4, Ex4, P}
      /\ <<"INTERNAL_IP6_ADDRESS">> \notin {In4, Ex4, P} /\ <<"INTERNAL_IP6_NETMASK">> \notin {In4, Ex4, P}
      /\ <<"IN", 6>> \notin {In4, Ex4, P} /\ <<"EX", 6>> \notin {In4, Ex4, P}
  OBVIOUS
<1>5. P[1] = "VPNPID" /\ In4[1] = "IN" /\ Ex4[1] = "EX"
  OBVIOUS
<1> HIDE DEF In4, Ex4, P
<1>6. /\ e3[P] = <<pid>> /\ e3[In4] = Unset /\ e3[Ex4] = Unset
      /\ DOMAIN e3 = {In4, Ex4, P}
  BY <1>3 DEF script_setenv
<1> HIDE DEF e3
<1>7. /\ <<"INTERNAL_IP4_ADDRESS">> \notin DOMAIN e3 /\ <<"INTERNAL_IP4_NETMASK">> \notin DOMAIN e3
      /\ <<"INTERNAL_IP6_ADDRESS">> \notin DOMAIN e3 /\ <<"INTERNAL_IP6_NETMASK">> \notin DOMAIN e3
      /\ <<"IN", 6>> \notin DOMAIN e3 /\ <<"EX", 6>> \notin DOMAIN e3
  BY <1>4, <1>6
<1>8. /\ TellsTruth(e4, ip, pid)
      /\ \A o : o[1] \in {"IN", "EX"} => Agree(e3, e4, o)
  BY <1>6, <1>7, AddressesAreTold DEF P
<1> HIDE DEF e4
<1>9. \A o : o[1] \in {"IN", "EX", "VPNPID", "INTERNAL_IP4_ADDRESS", "INTERNAL_IP4_NETMASK",
                      "INTERNAL_IP6_NETMASK", "INTERNAL_IP6_ADDRESS"} => Agree(e4, e6, o)
  <2> SUFFICES ASSUME NEW o, o[1] \in {"IN", "EX", "VPNPID", "INTERNAL_IP4_ADDRESS",
                 "INTERNAL_IP4_NETMASK", "INTERNAL_IP6_NETMASK", "INTERNAL_IP6_ADDRESS"}
               PROVE  Agree(e4, e6, o)
    OBVIOUS
  <2>1. o # <<"INTERNAL_IP4_DNS">> /\ o # <<"INTERNAL_IP4_NBNS">>
    OBVIOUS
  <2>2. Agree(e4, e5, o)
    BY <2>1, SetAgrees
  <2> HIDE DEF e5
  <2>3. Agree(e5, e6, o)
    BY <2>1, SetAgrees
  <2> QED
    BY <2>2, <2>3, AgreeOn
<1> HIDE DEF e6
<1>10. TellsTruth(e6, ip, pid)
  BY <1>8, <1>9, TruthStays
<1>11. ASSUME NEW o, o[1] \in {"IN", "EX"} PROVE Agree(e3, e6, o)
  BY <1>8, <1>9, <1>11, AgreeOn
<1>12. /\ <<"IN", 4>> \in DOMAIN e6 => e6[<<"IN", 4>>] = Unset
       /\ <<"IN", 6>> \in DOMAIN e6 => e6[<<"IN", 6>>] = Unset
       /\ <<"EX", 4>> \in DOMAIN e6 => e6[<<"EX", 4>>] = Unset
       /\ <<"EX", 6>> \in DOMAIN e6 => e6[<<"EX", 6>>] = Unset
  <2>1. Agree(e3, e6, In4) /\ Agree(e3, e6, Ex4)
    BY <1>5, <1>11
  <2>2. Agree(e3, e6, <<"IN", 6>>) /\ Agree(e3, e6, <<"EX", 6>>)
    BY <1>11
  <2> QED
    BY <1>6, <1>7, <2>1, <2>2 DEF Agree, In4, Ex4
<1>13. /\ Numbered(e7, "IN", ip.includes)
       /\ \A o : o[1] # "IN" => Agree(e6, e7, o)
  BY <1>2, <1>12, SplitRoutesTells
<1> HIDE DEF e7
<1>14. /\ <<"EX", 4>> \in DOMAIN e7 => e7[<<"EX", 4>>] = Unset
       /\ <<"EX", 6>> \in DOMAIN e7 => e7[<<"EX", 6>>] = Unset
  <2>1. Agree(e6, e7, <<"EX", 4>>) /\ Agree(e6, e7, <<"EX", 6>>)
    BY <1>13
  <2> QED
    BY <1>12, <2>1 DEF Agree
<1>15. /\ Numbered(e8, "EX", ip.excludes)
       /\ \A o : o[1] # "EX" => Agree(e7, e8, o)
  BY <1>2, <1>14, SplitRoutesTells
<1> HIDE DEF e8
<1>16. Numbered(e8, "IN", ip.includes)
  BY <1>13, <1>15, NumberedStays
<1>17. TellsTruth(e8, ip, pid)
  <2>1. TellsTruth(e7, ip, pid)
    BY <1>10, <1>13, TruthStays
  <2> QED
    BY <1>15, <2>1, TruthStays
<1> QED
  BY <1>1, <1>15, <1>16, <1>17

-----------------------------------------------------------------------------
\* Where the script has been told, where it has not yet been, and where F5 has
\* an address.
Telling == tun = "up" \/ at \in {"open", "tunfd", "user"}
Untold  == /\ tun = "down"
           /\ at \in {"cookie", "have", "connect", "enter"} \cup (Looping \ {"open", "tunfd", "user"})
Settled == tun = "up" \/ at \in {"tun", "device", "open", "tunfd", "user"}

ToldInv ==
  /\ options \in Options
  /\ ip_info \in IpInfos
  /\ protocol = "nc" => ip_info.addr6 = None /\ ip_info.netmask6 = <<>>
  /\ protocol = "f5" /\ Settled => ip_info.addr # None
  /\ Untold => DOMAIN script_env = {}
  /\ RoutesNumbered

ToldTrue == Telling => TellsTruth(script_env, ip_info, worker)

\* A server that names a netmask names an address: without one, Network Connect
\* keeps the old address, and does not compare the netmask.
NetmaskNeedsAddress == \A offer \in LaterOffers : offer.addr = None => offer.netmask = None

\* What a step does for both.
KeepsTold == ToldInv' /\ (NetmaskNeedsAddress /\ ToldTrue => ToldTrue')

LEMMA IpInfoIs ==
  ASSUME NEW ip \in IpInfos
  PROVE  /\ ip.addr \in Words /\ ip.netmask \in Words /\ ip.addr6 \in Words
         /\ ip.netmask6 \in Seq(Words)
         /\ ip.includes \in Seq(Routes) /\ ip.excludes \in Seq(Routes)
         /\ ip.dns \in Seq(Words) /\ ip.nbns \in Seq(Words)
BY DEF IpInfos

LEMMA ParsedIs ==
  ASSUME NEW offer \in IpInfos
  PROVE  /\ Parsed(offer) \in IpInfos
         /\ protocol = "nc" => /\ Parsed(offer).addr6 = None /\ Parsed(offer).netmask6 = <<>>
                               /\ Parsed(offer).addr = offer.addr
                               /\ Parsed(offer).netmask = offer.netmask
<1>1. None \in Words /\ <<>> \in Seq(Words)
  BY DEF Words
<1>2. CASE protocol = "nc"
  <2>1. Parsed(offer) = [addr |-> offer.addr, netmask |-> offer.netmask, addr6 |-> None, netmask6 |-> <<>>,
           includes |-> offer.includes, excludes |-> offer.excludes, dns |-> offer.dns, nbns |-> offer.nbns]
    BY <1>2 DEF Parsed, IpInfos
  <2> QED
    BY <1>1, <1>2, <2>1, IpInfoIs DEF IpInfos
<1>3. CASE protocol = "f5"
  <2>1. Parsed(offer) = [addr |-> None, netmask |-> offer.netmask, addr6 |-> None, netmask6 |-> <<>>,
           includes |-> offer.includes, excludes |-> offer.excludes, dns |-> offer.dns, nbns |-> offer.nbns]
    BY <1>3 DEF Parsed, IpInfos
  <2> QED
    BY <1>1, <1>3, <2>1, IpInfoIs DEF IpInfos
<1>4. CASE protocol \notin {"nc", "f5"}
  BY <1>4 DEF Parsed
<1> QED
  BY <1>2, <1>3, <1>4

LEMMA InstalledIs ==
  ASSUME ip_info \in IpInfos, NEW new \in IpInfos
  PROVE  /\ Installed(new) \in IpInfos
         /\ Installed(new).addr6 = new.addr6 /\ Installed(new).netmask6 = new.netmask6
         /\ KeepsOldAddress(new) /\ new.netmask = None =>
              Installed(new).addr = ip_info.addr /\ Installed(new).netmask = ip_info.netmask
         /\ ~ KeepsOldAddress(new) => Installed(new) = new
<1>1. CASE KeepsOldAddress(new)
  <2> DEFINE mask == IF new.netmask = None THEN ip_info.netmask ELSE new.netmask
  <2>1. Installed(new) = [addr |-> ip_info.addr, netmask |-> mask, addr6 |-> new.addr6,
           netmask6 |-> new.netmask6,
           includes |-> new.includes, excludes |-> new.excludes, dns |-> new.dns, nbns |-> new.nbns]
    BY <1>1 DEF Installed, IpInfos
  <2>2. mask \in Words /\ ip_info.addr \in Words
    BY IpInfoIs
  <2>3. new.netmask = None => mask = ip_info.netmask
    OBVIOUS
  <2> HIDE DEF mask
  <2> QED
    BY <1>1, <2>1, <2>2, <2>3, IpInfoIs DEF IpInfos
<1>2. CASE ~ KeepsOldAddress(new)
  BY <1>2 DEF Installed
<1> QED
  BY <1>1, <1>2

\* What was told is true of what a reconnection brings.
LEMMA OfferStaysTrue ==
  ASSUME ip_info \in IpInfos, NEW new \in IpInfos, NEW env, NEW pid,
         TellsTruth(env, ip_info, pid), InstallError(new) = "0", protocol # "f5",
         KeepsOldAddress(new) =>
           new.netmask = None /\ ip_info.addr6 = None /\ ip_info.netmask6 = <<>>
  PROVE  TellsTruth(env, Installed(new), pid)
<1>1. CASE KeepsOldAddress(new)
  BY <1>1, InstalledIs DEF TellsTruth
<1>2. CASE ~ KeepsOldAddress(new)
  <2>1. Unmoved(new)
    BY <1>2 DEF InstallError
  <2>2. Installed(new) = new
    BY <1>2, InstalledIs
  <2> QED
    BY <2>1, <2>2 DEF TellsTruth, Unmoved, Kept
<1> QED
  BY <1>1, <1>2

\* A step that tells nothing and changes no address.
LEMMA ToldStays ==
  ASSUME ToldInv, UNCHANGED <<fixed, worker, script_env, ip_info>>,
         Telling' => Telling, Untold' => Untold, RunsScript' => RunsScript,
         Settled' => Settled \/ ~ DelaysTun
  PROVE  KeepsTold
<1>2. RoutesNumbered'
  BY DEF ToldInv, RoutesNumbered
<1>3. ToldTrue => ToldTrue'
  BY DEF ToldTrue, TellsTruth
<1>4. (protocol = "f5" /\ Settled => ip_info.addr # None)'
  BY DEF ToldInv, DelaysTun, fixed
<1>5. (Untold => DOMAIN script_env = {})'
  BY DEF ToldInv
<1> QED
  BY <1>2, <1>3, <1>4, <1>5 DEF KeepsTold, ToldInv, fixed

\* The script is told, all at once.
LEMMA ToldOnce ==
  ASSUME ToldInv, tun = "down", at = "device", UNCHANGED <<fixed, worker, ip_info>>,
         script_env' = prepare_script_env(script_env, ip_info, worker), ~ Untold'
  PROVE  KeepsTold
<1>1. DOMAIN script_env = {} /\ ip_info \in IpInfos
  BY DEF ToldInv, Untold, Looping
<1>2. /\ TellsTruth(script_env', ip_info, worker)
      /\ Numbered(script_env', "IN", ip_info.includes)
      /\ Numbered(script_env', "EX", ip_info.excludes)
  BY <1>1, PreparedTells
<1>3. RoutesNumbered'
  BY <1>2 DEF RoutesNumbered
<1>4. ToldTrue'
  BY <1>2 DEF ToldTrue, TellsTruth
<1>5. (protocol = "f5" /\ Settled => ip_info.addr # None)'
  BY DEF ToldInv, Settled, fixed
<1> QED
  BY <1>1, <1>3, <1>4, <1>5 DEF KeepsTold, ToldInv, fixed
-----------------------------------------------------------------------------
\* What the server offers at first ...
LEMMA FirstOffer == ToldInv /\ TunDown /\ make_cstp_connection => KeepsTold
<1> SUFFICES ASSUME ToldInv, TunDown, make_cstp_connection PROVE KeepsTold
  OBVIOUS
<1>1. /\ at = "connect" /\ tun = "down" /\ at' \in {"out", "enter"}
      /\ UNCHANGED <<fixed, worker, script_env, tun>>
  BY DEF TunDown, make_cstp_connection, fixed, procVars, tunVars
<1>2. Untold /\ ~ Telling' /\ ~ RunsScript' /\ ~ Settled'
  BY <1>1 DEF Untold, Telling, RunsScript, Settled
<1>3. CASE UNCHANGED ip_info
  BY <1>1, <1>2, <1>3, ToldStays
<1>4. CASE ip_info' # ip_info
  <2>1. PICK offer \in FirstOffers[options] : install_vpn_opts(Parsed(offer))
    BY <1>4 DEF make_cstp_connection
  <2>2. offer \in IpInfos /\ ip_info \in IpInfos
    BY <2>1, ClientAssumption DEF ClientAssumption, ToldInv
  <2>3. ip_info' = Installed(Parsed(offer))
    BY <1>4, <2>1 DEF install_vpn_opts
  <2>4. /\ ip_info' \in IpInfos
        /\ protocol = "nc" => ip_info'.addr6 = None /\ ip_info'.netmask6 = <<>>
    BY <2>2, <2>3, ParsedIs, InstalledIs
  <2> QED
    BY <1>1, <1>2, <2>4 DEF KeepsTold, ToldInv, ToldTrue, RoutesNumbered, fixed
<1> QED
  BY <1>3, <1>4

\* ... and on a reconnection.
LEMMA LaterOffer == ToldInv /\ Reconnected => KeepsTold
<1> SUFFICES ASSUME ToldInv, Reconnected PROVE KeepsTold
  OBVIOUS
<1>1. /\ at = "attempt" /\ at' = "poll"
      /\ UNCHANGED <<fixed, worker, script_env, tun>>
  BY DEF Reconnected, fixed, procVars
<1>2. /\ Telling' => Telling
      /\ Untold' => Untold
      /\ ~ RunsScript'
      /\ Settled' => Settled
  BY <1>1 DEF Untold, Telling, RunsScript, Settled, Looping
<1>3. CASE UNCHANGED ip_info
  BY <1>1, <1>2, <1>3, ToldStays
<1>4. CASE ip_info' # ip_info
  <2>1. PICK offer \in LaterOffers :
          InstallError(Parsed(offer)) = "0" /\ install_vpn_opts(Parsed(offer))
    BY <1>4 DEF Reconnected
  <2>2. offer \in IpInfos /\ ip_info \in IpInfos
    BY <2>1, ClientAssumption DEF ClientAssumption, ToldInv
  <2> DEFINE new == Parsed(offer)
  <2>3. /\ new \in IpInfos
        /\ protocol = "nc" => /\ new.addr6 = None /\ new.netmask6 = <<>>
                              /\ NetmaskNeedsAddress /\ new.addr = None => new.netmask = None
    BY <2>1, <2>2, ParsedIs DEF NetmaskNeedsAddress
  <2>4. protocol # "f5" /\ InstallError(new) = "0" /\ ip_info' = Installed(new)
    BY <1>4, <2>1 DEF install_vpn_opts, Reconnected
  <2> HIDE DEF new
  <2>5. NetmaskNeedsAddress /\ KeepsOldAddress(new) =>
          new.netmask = None /\ ip_info.addr6 = None /\ ip_info.netmask6 = <<>>
    BY <2>3 DEF KeepsOldAddress, NoAddress, ToldInv
  <2>6. /\ ip_info' \in IpInfos
        /\ protocol = "nc" => ip_info'.addr6 = None /\ ip_info'.netmask6 = <<>>
    BY <2>2, <2>3, <2>4, InstalledIs
  <2>7. NetmaskNeedsAddress /\ ToldTrue /\ Telling => TellsTruth(script_env, ip_info', worker)
    BY <2>2, <2>3, <2>4, <2>5, OfferStaysTrue DEF ToldTrue
  <2>8. NetmaskNeedsAddress /\ ToldTrue => ToldTrue'
    BY <1>1, <1>2, <2>7 DEF ToldTrue, TellsTruth
  <2>9. ToldInv'
    BY <1>1, <1>2, <2>4, <2>6 DEF ToldInv, RoutesNumbered, fixed
  <2> QED
    BY <2>8, <2>9 DEF KeepsTold
<1> QED
  BY <1>3, <1>4

\* Nobody has been told of a process, or of addresses, when they change.
LEMMA Forked == ToldInv /\ TunDown /\ background_self => KeepsTold
<1> SUFFICES ASSUME ToldInv, TunDown, background_self PROVE KeepsTold
  OBVIOUS
<1>1. /\ at = "tun" /\ tun = "down" /\ at' = "device"
      /\ UNCHANGED <<fixed, script_env, tun, ip_info>>
  BY DEF TunDown, background_self, fixed, tunVars
<1>2. Untold /\ Settled /\ ~ Telling' /\ ~ RunsScript'
  BY <1>1 DEF Untold, Telling, RunsScript, Settled, Looping
<1> QED
  BY <1>1, <1>2 DEF KeepsTold, ToldInv, ToldTrue, RoutesNumbered, fixed

LEMMA GetsAddress == ToldInv /\ TunDown /\ PppUp => KeepsTold
<1> SUFFICES ASSUME ToldInv, TunDown, PppUp PROVE KeepsTold
  OBVIOUS
<1>1. /\ at = "work" /\ at' = "poll" /\ protocol = "f5" /\ ip_info.addr = None
      /\ UNCHANGED <<fixed, worker, script_env, tun>>
      /\ ip_info' = [ip_info EXCEPT !.addr = PppAddress]
  BY DEF PppUp, DelaysTun, fixed, procVars, tunVars
<1>2. tun = "down"
  BY <1>1 DEF ToldInv, Settled, TunDown
<1>3. Untold /\ ~ Telling' /\ ~ RunsScript' /\ ~ Settled'
  BY <1>1, <1>2 DEF Untold, Telling, RunsScript, Settled, Looping
<1>4. ip_info' \in IpInfos
  <2>1. ip_info \in IpInfos
    BY DEF ToldInv
  <2>2. ip_info' = [addr |-> PppAddress, netmask |-> ip_info.netmask, addr6 |-> ip_info.addr6,
           netmask6 |-> ip_info.netmask6, includes |-> ip_info.includes,
           excludes |-> ip_info.excludes, dns |-> ip_info.dns, nbns |-> ip_info.nbns]
    BY <1>1, <2>1 DEF IpInfos
  <2>3. PppAddress \in Words
    BY DEF Words
  <2> QED
    BY <2>1, <2>2, <2>3, IpInfoIs DEF IpInfos
<1> QED
  BY <1>1, <1>3, <1>4 DEF KeepsTold, ToldInv, ToldTrue, RoutesNumbered, fixed

\* What is told is true, and stays so.
LEMMA ToldStep == ToldInv /\ TunDown /\ [Next]_vars => KeepsTold
<1> SUFFICES ASSUME ToldInv, TunDown, [Next]_vars PROVE KeepsTold
  OBVIOUS
<1> DEFINE Silent == /\ UNCHANGED <<fixed, worker, script_env, ip_info>>
                     /\ Telling' => Telling
                     /\ Untold' => Untold
                     /\ RunsScript' => RunsScript
                     /\ Settled' => Settled \/ ~ DelaysTun
<1>0. Silent => KeepsTold
  BY ToldStays
<1> USE DEF TunDown, Looping, Leaving, vars, fixed, procVars, cmdVars, linkVars, tunVars,
            Telling, Untold, RunsScript, Settled
<1>1. CASE ObtainCookie
  BY <1>0, <1>1 DEF ObtainCookie, Exit
<1>2. CASE CookieGiven
  BY <1>0, <1>2 DEF CookieGiven
<1>3. CASE PrintCookie
  BY <1>0, <1>3 DEF PrintCookie, Exit
<1>4. CASE make_cstp_connection
  BY <1>4, FirstOffer
<1>5. CASE Enter
  BY <1>0, <1>5 DEF Enter
<1>6. CASE Round
  BY <1>0, <1>6 DEF Round
<1>7. CASE StayInFront
  BY <1>0, <1>7 DEF StayInFront
<1>8. CASE background_self
  BY <1>8, Forked
<1>9. CASE BackgroundFails
  BY <1>0, <1>9 DEF BackgroundFails, Exit
<1>10. CASE SetupTunScript
  BY <1>10, ToldOnce DEF SetupTunScript, Quit, TunIsUp
<1>11. CASE PreInit
  BY <1>11, ToldOnce DEF PreInit, Quit, TunIsUp
<1>12. CASE OsSetupTun
  BY <1>0, <1>12 DEF OsSetupTun, Quit
<1>13. CASE SetupTunFd
  BY <1>0, <1>13 DEF SetupTunFd, TunIsUp, Quit
<1>14. CASE ChangeUser
  BY <1>0, <1>14 DEF ChangeUser, Quit
<1>15. CASE PppUp
  BY <1>15, GetsAddress
<1>16. CASE Work
  BY <1>0, <1>16 DEF Work
<1>17. CASE ServerQuits
  BY <1>0, <1>17 DEF ServerQuits, Quit
<1>18. CASE TunScriptDies
  BY <1>0, <1>18 DEF TunScriptDies, Quit
<1>19. CASE Lose
  BY <1>0, <1>19 DEF Lose
<1>20. CASE AttemptReconnect
  BY <1>0, <1>20 DEF AttemptReconnect
<1>21. CASE Reconnected
  BY <1>21, LaterOffer
<1>22. CASE ConnectFails
  BY <1>0, <1>22 DEF ConnectFails, Quit
<1>23. CASE Pause
  BY <1>0, <1>23 DEF Pause, Quit
<1>24. CASE Poll
  BY <1>0, <1>24 DEF Poll
<1>25. CASE ObeyCancel
  BY <1>0, <1>25 DEF ObeyCancel, Quit
<1>26. CASE ObeyPause
  BY <1>0, <1>26 DEF ObeyPause
<1>27. CASE Sleep
  BY <1>0, <1>27 DEF Sleep
<1>28. CASE Wake
  BY <1>0, <1>28 DEF Wake
<1>29. CASE End
  BY <1>0, <1>29 DEF End
<1>30. CASE UnlinkPidFile
  BY <1>0, <1>30 DEF UnlinkPidFile
<1>31. CASE Out
  BY <1>0, <1>31 DEF Out, Exit
<1>32. CASE ParentWritesPid
  BY <1>0, <1>32 DEF ParentWritesPid
<1>33. CASE ParentExits
  BY <1>0, <1>33 DEF ParentExits
<1>34. CASE \E p \in Processes, cmd \in Commands : Signal(p, cmd)
  BY <1>0, <1>34 DEF Signal
<1>35. CASE UNCHANGED vars
  BY <1>0, <1>35
<1> QED
  BY <1>1, <1>2, <1>3, <1>4, <1>5, <1>6, <1>7, <1>8, <1>9, <1>10, <1>11, <1>12, <1>13, <1>14,
     <1>15, <1>16, <1>17, <1>18, <1>19, <1>20, <1>21, <1>22, <1>23, <1>24, <1>25, <1>26, <1>27,
     <1>28, <1>29, <1>30, <1>31, <1>32, <1>33, <1>34, <1>35 DEF Next, Session, Rest

LEMMA ToldFromTheStart == Init => TunDown /\ ToldInv /\ ToldTrue
<1> SUFFICES ASSUME Init PROVE TunDown /\ ToldInv /\ ToldTrue
  OBVIOUS
<1>1. NoAddresses \in IpInfos
  BY DEF NoAddresses, IpInfos, Words
<1>2. /\ ip_info = NoAddresses /\ at = "cookie" /\ tun = "down" /\ options \in Options
      /\ DOMAIN script_env = {}
  BY DEF Init
<1>3. ~ Telling /\ ~ RunsScript /\ ~ Settled
  BY <1>2 DEF Telling, RunsScript, Settled
<1>4. TunDown
  BY <1>2 DEF TunDown, Looping, Leaving
<1> QED
  BY <1>1, <1>2, <1>3, <1>4 DEF ToldInv, ToldTrue, RoutesNumbered, NoAddresses

\* The routes the script is told of, when it runs first, are those that are sound,
\* numbered without a gap, with their count: process_split_xxclude() and
\* prepare_script_env(), for lists of any length.
THEOREM RoutesAreNumbered == Spec => []RoutesNumbered
<1>1. Init => TunDown /\ ToldInv
  BY ToldFromTheStart
<1>2. TunDown /\ ToldInv /\ [Next]_vars => (TunDown /\ ToldInv)'
  BY TunStep, ToldStep DEF KeepsTold
<1>3. ToldInv => RoutesNumbered
  BY DEF ToldInv
<1> QED
  BY <1>1, <1>2, <1>3, PTL DEF Spec

\* The script is told of one process, and of addresses, and nothing of that is
\* false while the tunnel is up, whatever a reconnection brings that
\* install_vpn_opts() lets pass, from a server that names no netmask alone.
THEOREM WhatWasToldStaysTrue ==
  ASSUME NetmaskNeedsAddress
  PROVE  Spec => []ToldTruth
<1>1. Init => TunDown /\ ToldInv /\ ToldTrue
  BY ToldFromTheStart
<1>2. TunDown /\ ToldInv /\ ToldTrue /\ [Next]_vars => (TunDown /\ ToldInv /\ ToldTrue)'
  BY TunStep, ToldStep DEF KeepsTold
<1>3. ToldTrue => ToldTruth
  BY DEF ToldTrue, Telling, TellsTruth, ToldTruth, Told
<1> QED
  BY <1>1, <1>2, <1>3, PTL DEF Spec

-----------------------------------------------------------------------------
(***************************************************************************)
(* Tun for any number of packets: their order, both ways through the       *)
(* rings.  What a ring holds is seen as a line of its descriptors, from    *)
(* the first that the loop has not looked at.                              *)
(***************************************************************************)

Index == 0 .. IndexSpan - 1
Ahead(x, s) == (x - s) % IndexSpan
Offsets == 0 .. RingSize - 1
Counts == 0 .. RingSize

\* In line: u descriptors were given back, up to k the kernel has taken, of which it still
\* has t, up to a they are available; b and n are what the two halves hold at each position.
Lines == [u : Counts, k : Counts, a : Counts, t : SUBSET Slots,
          b : [Offsets -> Slots], n : [Offsets -> Slots]]

\* No descriptor is in two places ...
Apart(x) ==
  /\ x \in Lines /\ x.u <= x.k /\ x.k <= x.a
  /\ \A i, j \in Offsets : i < x.u /\ j < x.u /\ x.b[i] = x.b[j] => i = j
  /\ \A i, j \in Offsets : i >= x.k /\ j >= x.k /\ x.n[i] = x.n[j] => i = j
  /\ \A i, j \in Offsets : i < x.u /\ j >= x.k => x.b[i] # x.n[j]
  /\ \A i \in Offsets : i < x.u => x.b[i] \notin x.t
  /\ \A i \in Offsets : i >= x.k => x.n[i] \notin x.t

\* ... and each is in one.
Covers(x) ==
  \A d \in Slots : \/ d \in x.t
                   \/ \E i \in Offsets : i < x.u /\ x.b[i] = d
                   \/ \E i \in Offsets : i >= x.k /\ x.n[i] = d
Counted(x) == IsFiniteSet(x.t) /\ Cardinality(x.t) = x.k - x.u
Whole(x) == Apart(x) /\ Covers(x) /\ Counted(x)

\* The descriptors in use have packets m, and the others have none.
HeldIn(x, m) ==
  /\ \A i \in Offsets : i < x.u => m[x.b[i]] # 0
  /\ \A d \in x.t : m[d] # 0
  /\ \A i \in Offsets : i >= x.k /\ i < x.a => m[x.n[i]] # 0
  /\ \A i \in Offsets : i >= x.a => m[x.n[i]] = 0

\* What the kernel and the loop do to a line.
Taken(x) ==
  [u |-> x.u, k |-> x.k + 1, a |-> x.a, t |-> x.t \cup {x.n[x.k]}, b |-> x.b, n |-> x.n]
Given(x, d) ==
  [u |-> x.u + 1, k |-> x.k, a |-> x.a, t |-> x.t \ {d}, b |-> [x.b EXCEPT ![x.u] = d],
   n |-> x.n]
Published(x) == [u |-> x.u, k |-> x.k, a |-> x.a + 1, t |-> x.t, b |-> x.b, n |-> x.n]
Wrap(i) == IF i < RingSize THEN i ELSE i - RingSize
Reused(x, c) ==
  [u |-> x.u - c, k |-> x.k - c, a |-> x.a - c, t |-> x.t,
   b |-> [i \in Offsets |-> x.b[Wrap(i + c)]],
   n |-> [i \in Offsets |-> IF i + c < RingSize THEN x.n[i + c] ELSE x.b[Wrap(i + c)]]]

\* The line that ring r is.
At(r, i) == Slot(seen_used[r] + i)
LineOf(r) ==
  [u |-> Ahead(used[r].idx, seen_used[r]),
   k |-> Ahead(kernel[r].avail, seen_used[r]),
   a |-> Ahead(avail[r].idx, seen_used[r]),
   t |-> kernel[r].taken,
   b |-> [i \in Offsets |-> used[r].ring[At(r, i)]],
   n |-> [i \in Offsets |-> avail[r].ring[At(r, i)]]]

Avails == [idx : Index, ring : [Slots -> Slots], used_event : Index]
Useds == [idx : Index, ring : [Slots -> Slots], avail_event : Index]
Kernels == [does : {"work", "look", "sleep"}, avail : Index, taken : SUBSET Slots,
            signalled : Index]
Typed ==
  /\ desc \in [Rings -> [Slots -> Int]]
  /\ avail \in [Rings -> Avails] /\ used \in [Rings -> Useds] /\ kernel \in [Rings -> Kernels]
  /\ seen_used \in [Rings -> Index]

Ordered == \A r \in Rings : Whole(LineOf(r)) /\ HeldIn(LineOf(r), desc[r])

\* Packets of applications: got by the loop, then on their way in line x, then in the device.
Got == Len(sent) + Len(outgoing)
RxData(x, m, got) ==
  /\ x.k - x.u <= 1
  /\ \A i \in Offsets : i < x.u => m[x.b[i]] = got + i + 1
  /\ \A d \in x.t : m[d] = got + x.u + 1
RxQueue(x, got) ==
  /\ asked = got + x.k + Len(tunq)
  /\ \A i \in 1 .. Len(tunq) : tunq[i] = got + x.k + i

\* Packets from the VPN: gone to the device, then available in line x, then waiting for the loop.
TxData(x, m, gone) ==
  \A i \in Offsets : i >= x.k /\ i < x.a => m[x.n[i]] = gone + (i - x.k) + 1
Waiting == LineOf("tx").a - LineOf("tx").k
Gone == received - Len(incoming) - Waiting

Increasing(w) == \A i, j \in 1 .. Len(w) : i < j => w[i] < w[j]
Elems(w) == {w[i] : i \in 1 .. Len(w)}
FirstOf(W, n) == W = 1 .. n
Finished == Elems(written) \cup dropped

Queues ==
  /\ sent \in Seq(Int) /\ outgoing \in Seq(Int) /\ written \in Seq(Int)
  /\ incoming \in Seq(Int) /\ tunq \in Seq(Int)
  /\ received \in Nat /\ asked \in Nat /\ load \in Loads /\ dropped \subseteq Int
  /\ Len(outgoing) <= max_qlen
InSequence ==
  /\ \A i \in 1 .. Len(sent) : sent[i] = i
  /\ \A i \in 1 .. Len(outgoing) : outgoing[i] = Len(sent) + i
  /\ Increasing(written)
  /\ \E n \in 0 .. received : FirstOf(Finished, n)

\* Which device the loop can have where it is.
RingPlaces == {"rx", "rxfill", "rxevent", "tx", "txfill", "txevent", "kick", "waketx", "wakerx",
               "lookrx", "looktx"}
DevicePlaces ==
  /\ device \in {"setup", "tun", "vhost", "open", "none"}
  /\ pc \in RingPlaces => device = "vhost"
  /\ pc \in {"tun", "write"} => device = "tun"
  /\ pc = "crash" => device = "open"
  /\ pc = "closed" <=> device = "none"
  /\ pc = "setup" <=> device = "setup"
Idle ==
  device \in {"setup", "tun", "open"} =>
    \A r \in Rings : LineOf(r).u = 0 /\ LineOf(r).k = 0 /\ LineOf(r).a = 0

Rx == RxData(LineOf("rx"), desc["rx"], Got) /\ RxQueue(LineOf("rx"), Got)
Tx ==
  /\ Gone \in Nat /\ FirstOf(Finished, Gone)
  /\ TxData(LineOf("tx"), desc["tx"], Gone)
  /\ \A i \in 1 .. Len(incoming) : incoming[i] = received - Len(incoming) + i

TunInv ==
  /\ Queues /\ InSequence /\ DevicePlaces
  /\ device # "none" => Typed /\ Ordered /\ Idle /\ Rx /\ Tx

\* What the code takes avail_event for: the index is there, so the kernel has nothing left.
EventMeansIdle ==
  pc = "txfill" /\ avail["tx"].idx = used["tx"].avail_event
    => kernel["tx"].avail = avail["tx"].idx

USE TunAssumption DEF TunAssumption, Index

\* What % does to an index and to the difference of two.
LEMMA ModIs ==
  \A e \in -IndexSpan .. 2 * IndexSpan - 1 :
    e % IndexSpan = IF e < 0 THEN e + IndexSpan
                    ELSE IF e < IndexSpan THEN e ELSE e - IndexSpan
<1>1. ASSUME NEW m \in Nat \ {0}, NEW e \in 0 .. m - 1 PROVE e % m = e
  OBVIOUS
<1>2. ASSUME NEW m \in Nat \ {0}, NEW e \in m .. 2 * m - 1 PROVE e % m = e - m
  OBVIOUS
<1>3. ASSUME NEW m \in Nat \ {0}, NEW e \in -m .. -1 PROVE e % m = e + m
  OBVIOUS
<1> SUFFICES ASSUME NEW e \in -IndexSpan .. 2 * IndexSpan - 1
             PROVE  e % IndexSpan = IF e < 0 THEN e + IndexSpan
                                    ELSE IF e < IndexSpan THEN e ELSE e - IndexSpan
  OBVIOUS
<1>4. IndexSpan \in Nat \ {0} /\ e \in Int
  OBVIOUS
<1>5. CASE e < 0
  <2>1. e \in -IndexSpan .. -1
    BY <1>5
  <2> QED BY <1>3, <1>4, <1>5, <2>1
<1>6. CASE e >= 0 /\ e < IndexSpan
  <2>1. e \in 0 .. IndexSpan - 1
    BY <1>6
  <2> QED BY <1>1, <1>4, <1>6, <2>1
<1>7. CASE e >= IndexSpan
  <2>1. e \in IndexSpan .. 2 * IndexSpan - 1
    BY <1>7
  <2> QED BY <1>2, <1>4, <1>7, <2>1
<1> QED BY <1>4, <1>5, <1>6, <1>7

\* How far one index is ahead of another.
LEMMA AheadIs ==
  ASSUME NEW x \in Index, NEW s \in Index
  PROVE  Ahead(x, s) = (IF x >= s THEN x - s ELSE x - s + IndexSpan)
  BY ModIs DEF Ahead

\* The next index.
LEMMA UpIs == \A x \in Index : Up(x) = (IF x + 1 = IndexSpan THEN 0 ELSE x + 1)
  BY ModIs DEF Up

\* Indexes as far apart as the ring is long have one slot, nearer ones do not.
LEMMA SlotIs ==
  /\ \A x \in Nat : Slot(x) \in Slots
  /\ \A x \in Nat : Slot(x + RingSize) = Slot(x)
  /\ \A x \in Nat : Slot(x + IndexSpan) = Slot(x)
  /\ \A x, y \in Nat : Slot(x) = Slot(y) /\ x <= y /\ y < x + RingSize => x = y
<1>1. ASSUME NEW m \in Nat \ {0}, NEW x \in Nat
      PROVE  x % m \in 0 .. m - 1 /\ \E q \in Nat : x = (q * m) + (x % m)
  <2>1. x % m \in 0 .. m - 1
    OBVIOUS
  <2>2. x \div m \in Nat
    OBVIOUS
  <2>3. x = ((x \div m) * m) + (x % m)
    OBVIOUS
  <2> QED BY <2>1, <2>2, <2>3
<1>2. ASSUME NEW m \in Nat \ {0}, NEW x \in Nat, NEW q \in Nat, NEW e \in 0 .. m - 1,
             x = (q * m) + e
      PROVE  x % m = e
  <2>1. ((q * m) + e) % m = e
    OBVIOUS
  <2> QED BY <1>2, <2>1
<1>3. ASSUME NEW x \in Nat PROVE Slot(x) \in Slots /\ \E q \in Nat : x = (q * RingSize) + Slot(x)
  BY <1>1 DEF Slot, Slots
<1>4. ASSUME NEW x \in Nat, NEW n \in Nat PROVE Slot(x + (n * RingSize)) = Slot(x)
  <2>1. PICK q \in Nat : x = (q * RingSize) + Slot(x)
    BY <1>3
  <2> DEFINE e == Slot(x)
  <2>2. e \in 0 .. RingSize - 1 /\ x = (q * RingSize) + e
    BY <1>3, <2>1 DEF Slots
  <2>5. x + (n * RingSize) \in Nat /\ q + n \in Nat /\ RingSize \in Nat \ {0}
    OBVIOUS
  <2> HIDE DEF e
  <2>3. x + (n * RingSize) = ((q + n) * RingSize) + e
    BY <2>2
  <2>4. (x + (n * RingSize)) % RingSize = e
    BY <1>2, <2>2, <2>3, <2>5
  <2> QED BY <2>4 DEF e, Slot
<1>5. ASSUME NEW x \in Nat, NEW y \in Nat, Slot(x) = Slot(y), x < y, y < x + RingSize
      PROVE  FALSE
  <2>1. PICK p \in Nat : x = (p * RingSize) + Slot(x)
    BY <1>3
  <2>2. PICK q \in Nat : y = (q * RingSize) + Slot(y)
    BY <1>3
  <2>3. Slot(x) \in Int
    BY <1>3 DEF Slots
  <2>4. y - x = (q - p) * RingSize
    BY <1>5, <2>1, <2>2, <2>3
  <2>5. CASE q <= p
    <3>1. (q - p) * RingSize <= 0
      BY <2>5
    <3> QED BY <1>5, <2>4, <3>1
  <2>6. CASE q > p
    <3>1. (q - p) * RingSize >= RingSize
      BY <2>6
    <3> QED BY <1>5, <2>4, <3>1
  <2> QED BY <2>5, <2>6
<1>6. \E n \in Nat : IndexSpan = n * RingSize
  <2>1. PICK q \in Nat : IndexSpan = (q * RingSize) + (IndexSpan % RingSize)
    BY <1>1
  <2>2. IndexSpan = (q * RingSize) + 0
    BY <2>1
  <2> HIDE TunAssumption DEF TunAssumption
  <2> QED BY <2>2, TunAssumption DEF TunAssumption
<1>7. ASSUME NEW x \in Nat PROVE Slot(x + RingSize) = Slot(x) /\ Slot(x + IndexSpan) = Slot(x)
  <2>1. PICK n \in Nat : IndexSpan = n * RingSize
    BY <1>6
  <2>2. Slot(x + (1 * RingSize)) = Slot(x) /\ Slot(x + (n * RingSize)) = Slot(x)
    BY <1>4
  <2> QED BY <2>1, <2>2
<1>8. ASSUME NEW x \in Nat, NEW y \in Nat, Slot(x) = Slot(y), x <= y, y < x + RingSize
      PROVE  x = y
  BY <1>5, <1>8
<1> QED BY <1>3, <1>7, <1>8

\* The distance grows with its end, and shrinks with its start.
LEMMA AheadMoves ==
  ASSUME NEW x \in Index, NEW s \in Index
  PROVE  /\ Ahead(x, s) \in Index /\ Ahead(s, s) = 0
         /\ Up(x) \in Index
         /\ Ahead(x, s) < RingSize => Ahead(Up(x), s) = Ahead(x, s) + 1
         /\ \A n \in 0 .. RingSize : (s + n) % IndexSpan \in Index
         /\ \A n \in 0 .. RingSize :
              n <= Ahead(x, s) => Ahead(x, (s + n) % IndexSpan) = Ahead(x, s) - n
<1>1. Up(x) \in Index
  BY UpIs
<1>2. \A n \in 0 .. RingSize :
        (s + n) % IndexSpan = (IF s + n < IndexSpan THEN s + n ELSE s + n - IndexSpan)
  BY ModIs
<1>3. \A n \in 0 .. RingSize : (s + n) % IndexSpan \in Index
  BY <1>2
<1>4. Ahead(x, s) \in Index /\ Ahead(s, s) = 0
  BY AheadIs
<1>5. Ahead(x, s) < RingSize => Ahead(Up(x), s) = Ahead(x, s) + 1
  <2>1. Ahead(x, s) = (IF x >= s THEN x - s ELSE x - s + IndexSpan)
    BY AheadIs
  <2> DEFINE u == Up(x)
  <2>2. u \in Index /\ u = (IF x + 1 = IndexSpan THEN 0 ELSE x + 1)
    BY <1>1, UpIs
  <2> HIDE DEF u
  <2>3. Ahead(u, s) = (IF u >= s THEN u - s ELSE u - s + IndexSpan)
    BY <2>2, AheadIs
  <2>4. Ahead(x, s) < RingSize => Ahead(u, s) = Ahead(x, s) + 1
    BY <2>1, <2>2, <2>3
  <2> QED BY <2>4 DEF u
<1>6. ASSUME NEW n \in 0 .. RingSize, n <= Ahead(x, s)
      PROVE  Ahead(x, (s + n) % IndexSpan) = Ahead(x, s) - n
  <2> DEFINE t == (s + n) % IndexSpan
  <2>1. t \in Index /\ t = (IF s + n < IndexSpan THEN s + n ELSE s + n - IndexSpan)
    BY <1>2, <1>3
  <2> HIDE DEF t
  <2>2. Ahead(x, t) = (IF x >= t THEN x - t ELSE x - t + IndexSpan)
    BY <2>1, AheadIs
  <2>3. Ahead(x, s) = (IF x >= s THEN x - s ELSE x - s + IndexSpan)
    BY AheadIs
  <2>4. Ahead(x, t) = Ahead(x, s) - n
    BY <1>6, <2>1, <2>2, <2>3
  <2> QED BY <2>4 DEF t
<1> QED BY <1>1, <1>3, <1>4, <1>5, <1>6

\* The index at a position, and its slot.
LEMMA Places ==
  ASSUME NEW s \in Index
  PROVE  /\ \A i \in Nat : Slot(s + i) \in Slots
         /\ \A i, j \in 0 .. RingSize - 1 : Slot(s + i) = Slot(s + j) => i = j
         /\ \A x \in Index : Slot(x) = Slot(s + Ahead(x, s))
         /\ \A n \in 0 .. RingSize, i \in 0 .. RingSize - 1 :
              Slot(((s + n) % IndexSpan) + i) =
                Slot(s + (IF i + n < RingSize THEN i + n ELSE i + n - RingSize))
<1>1. \A i \in Nat : Slot(s + i) \in Slots
  BY SlotIs
<1>2. \A i, j \in 0 .. RingSize - 1 : Slot(s + i) = Slot(s + j) => i = j
  <2> SUFFICES ASSUME NEW i \in 0 .. RingSize - 1, NEW j \in 0 .. RingSize - 1,
                      Slot(s + i) = Slot(s + j)
               PROVE  i = j
    OBVIOUS
  <2>1. s + i \in Nat /\ s + j \in Nat
    OBVIOUS
  <2>2. CASE i <= j
    <3>1. s + i <= s + j /\ s + j < s + i + RingSize
      BY <2>2
    <3>2. s + i = s + j
      BY <2>1, <3>1, SlotIs
    <3> QED BY <3>2
  <2>3. CASE j <= i
    <3>1. s + j <= s + i /\ s + i < s + j + RingSize
      BY <2>3
    <3>2. s + i = s + j
      BY <2>1, <3>1, SlotIs
    <3> QED BY <3>2
  <2> QED BY <2>2, <2>3
<1>3. ASSUME NEW x \in Index PROVE Slot(x) = Slot(s + Ahead(x, s))
  <2>1. CASE x >= s
    <3>1. s + Ahead(x, s) = x
      BY <2>1, AheadIs
    <3> QED BY <3>1
  <2>2. CASE x < s
    <3>1. s + Ahead(x, s) = x + IndexSpan
      BY <2>2, AheadIs
    <3> QED BY <3>1, SlotIs
  <2> QED BY <2>1, <2>2
<1>4. ASSUME NEW n \in 0 .. RingSize, NEW i \in 0 .. RingSize - 1
      PROVE  Slot(((s + n) % IndexSpan) + i) =
               Slot(s + (IF i + n < RingSize THEN i + n ELSE i + n - RingSize))
  <2>1. Slot(((s + n) % IndexSpan) + i) = Slot(s + n + i)
    <3>1. CASE s + n < IndexSpan
      <4>1. (s + n) % IndexSpan = s + n
        BY <3>1, ModIs
      <4> QED BY <4>1
    <3>2. CASE s + n >= IndexSpan
      <4>1. (s + n) % IndexSpan = s + n - IndexSpan
        BY <3>2, ModIs
      <4>2. s + n - IndexSpan + i \in Nat /\ (s + n - IndexSpan + i) + IndexSpan = s + n + i
        BY <3>2
      <4>3. Slot((s + n - IndexSpan + i) + IndexSpan) = Slot(s + n - IndexSpan + i)
        BY <4>2, SlotIs
      <4> QED BY <4>1, <4>2, <4>3
    <3> QED BY <3>1, <3>2
  <2>2. CASE i + n < RingSize
    BY <2>1, <2>2
  <2>3. CASE i + n >= RingSize
    <3>1. s + (i + n - RingSize) \in Nat /\ (s + (i + n - RingSize)) + RingSize = s + n + i
      BY <2>3
    <3>2. Slot((s + (i + n - RingSize)) + RingSize) = Slot(s + (i + n - RingSize))
      BY <3>1, SlotIs
    <3> QED BY <2>1, <2>3, <3>1, <3>2
  <2> QED BY <2>2, <2>3
<1> QED BY <1>1, <1>2, <1>3, <1>4

\* The line after the kernel has taken a descriptor.
LEMMA TakenIs ==
  ASSUME NEW x \in Lines, x.k < x.a
  PROVE  /\ Taken(x) \in Lines /\ x.k \in Offsets
         /\ Taken(x).u = x.u /\ Taken(x).k = x.k + 1 /\ Taken(x).a = x.a
         /\ Taken(x).t = x.t \cup {x.n[x.k]} /\ Taken(x).b = x.b /\ Taken(x).n = x.n
<1>1. x.k \in Offsets /\ x.k + 1 \in Counts
  BY DEF Lines, Counts, Offsets
<1>2. x.t \cup {x.n[x.k]} \in SUBSET Slots
  BY <1>1 DEF Lines
<1> QED BY <1>1, <1>2 DEF Taken, Lines

\* It still has each descriptor once.
LEMMA TakenWhole ==
  ASSUME NEW x, Whole(x), x.k < x.a
  PROVE  Whole(Taken(x))
<1> DEFINE y == Taken(x)
<1>1. /\ y \in Lines /\ x.k \in Offsets
      /\ y.u = x.u /\ y.k = x.k + 1 /\ y.a = x.a
      /\ y.t = x.t \cup {x.n[x.k]} /\ y.b = x.b /\ y.n = x.n
  BY TakenIs DEF Whole, Apart
<1>2. x \in Lines /\ x.n[x.k] \notin x.t
  BY <1>1 DEF Whole, Apart, Lines, Counts
<1> HIDE DEF y
<1>3. Apart(y)
  BY <1>1, <1>2 DEF Whole, Apart, Lines, Counts, Offsets
<1>4. Covers(y)
  BY <1>1, <1>2 DEF Whole, Covers, Lines, Counts, Offsets
<1>5. Counted(y)
  <2>1. IsFiniteSet(x.t) /\ Cardinality(x.t) = x.k - x.u
    BY DEF Whole, Counted
  <2>2. IsFiniteSet(y.t) /\ Cardinality(y.t) = Cardinality(x.t) + 1
    <3>1. IsFiniteSet(x.t) /\ x.n[x.k] \notin x.t /\ y.t = x.t \cup {x.n[x.k]}
      BY <1>1, <1>2, <2>1
    <3> QED BY <3>1, FS_AddElement
  <2> QED BY <1>1, <1>2, <2>1, <2>2 DEF Counted, Lines, Counts
<1> QED BY <1>3, <1>4, <1>5 DEF Whole, y

\* The line after the kernel has given one back.
LEMMA GivenIs ==
  ASSUME NEW x \in Lines, NEW d \in x.t, x.u < RingSize
  PROVE  /\ Given(x, d) \in Lines /\ x.u \in Offsets /\ d \in Slots
         /\ Given(x, d).u = x.u + 1 /\ Given(x, d).k = x.k /\ Given(x, d).a = x.a
         /\ Given(x, d).t = x.t \ {d} /\ Given(x, d).n = x.n
         /\ Given(x, d).b = [x.b EXCEPT ![x.u] = d]
<1>1. x.u \in Offsets /\ x.u + 1 \in Counts /\ d \in Slots
  BY DEF Lines, Counts, Offsets
<1>2. x.t \ {d} \in SUBSET Slots /\ [x.b EXCEPT ![x.u] = d] \in [Offsets -> Slots]
  BY <1>1 DEF Lines
<1> QED BY <1>1, <1>2 DEF Given, Lines

\* What was taken has a position to be given back at.
LEMMA GivenRoom ==
  ASSUME NEW x, Whole(x), NEW d \in x.t
  PROVE  x.u < x.k /\ x.u < RingSize
<1>1. x \in Lines /\ x.u <= x.k
  BY DEF Whole, Apart
<1>2. IsFiniteSet(x.t) /\ Cardinality(x.t) = x.k - x.u
  BY DEF Whole, Counted
<1>3. Cardinality(x.t) # 0 /\ Cardinality(x.t) \in Nat
  BY <1>2, FS_EmptySet, FS_CardinalityType
<1> QED BY <1>1, <1>2, <1>3 DEF Lines, Counts

\* Each descriptor is still there once.
LEMMA GivenWhole ==
  ASSUME NEW x, Whole(x), NEW d \in x.t
  PROVE  Whole(Given(x, d))
<1> DEFINE y == Given(x, d)
<1>1. x \in Lines /\ x.u < x.k /\ x.u < RingSize
  BY GivenRoom DEF Whole, Apart
<1>2. /\ y \in Lines /\ x.u \in Offsets /\ d \in Slots
      /\ y.u = x.u + 1 /\ y.k = x.k /\ y.a = x.a
      /\ y.t = x.t \ {d} /\ y.n = x.n /\ y.b = [x.b EXCEPT ![x.u] = d]
  BY <1>1, GivenIs
<1> HIDE DEF y
<1>3. \A i \in Offsets : y.b[i] = IF i = x.u THEN d ELSE x.b[i]
  BY <1>1, <1>2 DEF Lines
<1>4. Apart(y)
  BY <1>1, <1>2, <1>3 DEF Whole, Apart, Lines, Counts, Offsets
<1>5. Covers(y)
  <2> SUFFICES ASSUME NEW e \in Slots, e \notin y.t
               PROVE  \/ \E i \in Offsets : i < y.u /\ y.b[i] = e
                      \/ \E i \in Offsets : i >= y.k /\ y.n[i] = e
    BY DEF Covers
  <2>1. CASE e = d
    <3>1. x.u < y.u /\ y.b[x.u] = e
      BY <1>1, <1>2, <1>3, <2>1 DEF Lines, Counts
    <3> QED BY <1>2, <3>1
  <2>2. CASE e # d
    <3>1. e \notin x.t
      BY <1>2, <2>2
    <3>2. CASE \E i \in Offsets : i < x.u /\ x.b[i] = e
      <4>1. PICK i \in Offsets : i < x.u /\ x.b[i] = e
        BY <3>2
      <4>2. i < y.u /\ y.b[i] = e
        BY <1>1, <1>2, <1>3, <4>1 DEF Lines, Counts, Offsets
      <4> QED BY <4>2
    <3>3. CASE \E i \in Offsets : i >= x.k /\ x.n[i] = e
      BY <1>2, <3>3
    <3> QED BY <3>1, <3>2, <3>3 DEF Whole, Covers
  <2> QED BY <2>1, <2>2
<1>6. Counted(y)
  <2>1. IsFiniteSet(x.t) /\ Cardinality(x.t) = x.k - x.u
    BY DEF Whole, Counted
  <2>2. IsFiniteSet(y.t) /\ Cardinality(y.t) = Cardinality(x.t) - 1
    <3>1. IsFiniteSet(x.t) /\ d \in x.t /\ y.t = x.t \ {d}
      BY <1>2, <2>1
    <3>2. IsFiniteSet(x.t \ {d}) /\ Cardinality(x.t \ {d}) = Cardinality(x.t) - 1
      BY <3>1, FS_RemoveElement
    <3> QED BY <3>1, <3>2
  <2> QED BY <1>1, <1>2, <2>1, <2>2 DEF Counted, Lines, Counts
<1> QED BY <1>4, <1>5, <1>6 DEF Whole, y

\* And so it is when the loop makes one available.
LEMMA PublishedWhole ==
  ASSUME NEW x, Whole(x), x.a < RingSize
  PROVE  /\ Whole(Published(x)) /\ Published(x) \in Lines
         /\ Published(x).u = x.u /\ Published(x).k = x.k /\ Published(x).a = x.a + 1
         /\ Published(x).t = x.t /\ Published(x).b = x.b /\ Published(x).n = x.n
<1> DEFINE y == Published(x)
<1>1. x \in Lines
  BY DEF Whole, Apart
<1>2. /\ y \in Lines /\ y.u = x.u /\ y.k = x.k /\ y.a = x.a + 1
      /\ y.t = x.t /\ y.b = x.b /\ y.n = x.n
  BY <1>1 DEF Published, Lines, Counts
<1> HIDE DEF y
<1>3. Apart(y) /\ Covers(y) /\ Counted(y)
  BY <1>1, <1>2 DEF Whole, Apart, Covers, Counted, Lines, Counts
<1> QED BY <1>2, <1>3 DEF Whole, y

\* The line after the loop has looked at c descriptors and lined them up again.
LEMMA ReusedIs ==
  ASSUME NEW x, Whole(x), NEW c \in 0 .. x.u
  PROVE  /\ Reused(x, c) \in Lines
         /\ \A i \in Offsets :
              /\ Reused(x, c).b[i] = (IF i + c < RingSize THEN x.b[i + c]
                                      ELSE x.b[i + c - RingSize])
              /\ Reused(x, c).n[i] = (IF i + c < RingSize THEN x.n[i + c]
                                      ELSE x.b[i + c - RingSize])
<1>1. x \in Lines /\ x.u <= x.k /\ x.k <= x.a
  BY DEF Whole, Apart
<1>2. \A i \in Offsets : /\ Wrap(i + c) = IF i + c < RingSize THEN i + c ELSE i + c - RingSize
                         /\ Wrap(i + c) \in Offsets
                         /\ i + c < RingSize => i + c \in Offsets
  BY <1>1 DEF Wrap, Offsets, Lines, Counts
<1>3. x.u - c \in Counts /\ x.k - c \in Counts /\ x.a - c \in Counts
  BY <1>1 DEF Lines, Counts
<1> QED BY <1>1, <1>2, <1>3 DEF Reused, Lines

\* Each descriptor is still there once.
LEMMA ReusedWhole ==
  ASSUME NEW x, Whole(x), NEW c \in 0 .. x.u
  PROVE  Whole(Reused(x, c))
<1> DEFINE y == Reused(x, c)
<1>1. x \in Lines /\ x.u <= x.k /\ x.k <= x.a
  BY DEF Whole, Apart
<1>2. /\ y \in Lines /\ y.u = x.u - c /\ y.k = x.k - c /\ y.a = x.a - c /\ y.t = x.t
  BY ReusedIs DEF Reused
<1>3. \A i \in Offsets :
        /\ y.b[i] = (IF i + c < RingSize THEN x.b[i + c] ELSE x.b[i + c - RingSize])
        /\ y.n[i] = (IF i + c < RingSize THEN x.n[i + c] ELSE x.b[i + c - RingSize])
  BY ReusedIs
<1> HIDE DEF y
<1>7. ASSUME NEW i \in Offsets, i < y.u
      PROVE  i + c \in Offsets /\ i + c < x.u /\ y.b[i] = x.b[i + c]
  BY <1>1, <1>2, <1>3, <1>7 DEF Lines, Counts, Offsets
<1>8. ASSUME NEW i \in Offsets, i >= y.k
      PROVE  \/ i + c \in Offsets /\ i + c >= x.k /\ y.n[i] = x.n[i + c]
             \/ i + c - RingSize \in Offsets /\ i + c - RingSize < c
                  /\ y.n[i] = x.b[i + c - RingSize]
  BY <1>1, <1>2, <1>3, <1>8 DEF Lines, Counts, Offsets
<1>9. /\ \A i, j \in Offsets : i < x.u /\ j < x.u /\ x.b[i] = x.b[j] => i = j
      /\ \A i, j \in Offsets : i >= x.k /\ j >= x.k /\ x.n[i] = x.n[j] => i = j
      /\ \A i, j \in Offsets : i < x.u /\ j >= x.k => x.b[i] # x.n[j]
      /\ \A i \in Offsets : i < x.u => x.b[i] \notin x.t
      /\ \A i \in Offsets : i >= x.k => x.n[i] \notin x.t
  BY DEF Whole, Apart
<1>10. c \in Nat /\ c <= x.u /\ Offsets \subseteq Int /\ RingSize \in Int /\ x.u \in Int
  BY <1>1 DEF Lines, Counts, Offsets
<1>4. Apart(y)
  <2>1. ASSUME NEW i \in Offsets, NEW j \in Offsets, i < y.u, j < y.u, y.b[i] = y.b[j]
        PROVE  i = j
    <3>1. i + c = j + c
      BY <1>7, <1>9, <2>1
    <3> QED BY <1>10, <3>1
  <2>2. ASSUME NEW i \in Offsets, NEW j \in Offsets, i >= y.k, j >= y.k, y.n[i] = y.n[j]
        PROVE  i = j
    <3>1. i + c = j + c \/ i + c - RingSize = j + c - RingSize
      BY <1>8, <1>9, <1>10, <2>2
    <3> QED BY <1>10, <3>1
  <2>3. ASSUME NEW i \in Offsets, NEW j \in Offsets, i < y.u, j >= y.k, y.b[i] = y.n[j]
        PROVE  FALSE
    <3>1. i + c \in Offsets /\ i + c < x.u /\ y.b[i] = x.b[i + c] /\ i + c >= c
      BY <1>7, <1>10, <2>3 DEF Offsets
    <3>2. CASE j + c \in Offsets /\ j + c >= x.k /\ y.n[j] = x.n[j + c]
      BY <1>9, <2>3, <3>1, <3>2
    <3>3. CASE j + c - RingSize \in Offsets /\ j + c - RingSize < c
                 /\ y.n[j] = x.b[j + c - RingSize]
      <4>1. j + c - RingSize < x.u
        BY <1>10, <3>3
      <4>2. i + c = j + c - RingSize
        BY <1>9, <2>3, <3>1, <3>3, <4>1
      <4> QED BY <1>10, <3>1, <3>3, <4>2
    <3> QED BY <1>8, <2>3, <3>2, <3>3
  <2>4. ASSUME NEW i \in Offsets, i < y.u PROVE y.b[i] \notin y.t
    BY <1>2, <1>7, <1>9, <2>4
  <2>5. ASSUME NEW i \in Offsets, i >= y.k PROVE y.n[i] \notin y.t
    BY <1>2, <1>8, <1>9, <1>10, <2>5
  <2>6. y.u <= y.k /\ y.k <= y.a
    BY <1>1, <1>2 DEF Lines, Counts
  <2> QED BY <1>2, <2>1, <2>2, <2>3, <2>4, <2>5, <2>6 DEF Apart
<1>5. Covers(y)
  <2> SUFFICES ASSUME NEW d \in Slots, d \notin y.t
               PROVE  \/ \E i \in Offsets : i < y.u /\ y.b[i] = d
                      \/ \E i \in Offsets : i >= y.k /\ y.n[i] = d
    BY DEF Covers
  <2>1. \/ \E i \in Offsets : i < x.u /\ x.b[i] = d
        \/ \E i \in Offsets : i >= x.k /\ x.n[i] = d
    BY <1>2 DEF Whole, Covers
  <2>2. ASSUME NEW i \in Offsets, i < x.u, x.b[i] = d, i < c
        PROVE  \E j \in Offsets : j >= y.k /\ y.n[j] = d
    <3>1. i + RingSize - c \in Offsets /\ i + RingSize - c >= y.k
      BY <1>1, <1>2, <2>2 DEF Lines, Counts, Offsets
    <3>2. y.n[i + RingSize - c] = x.b[i]
      BY <1>1, <1>3, <3>1 DEF Lines, Counts, Offsets
    <3> QED BY <2>2, <3>1, <3>2
  <2>3. ASSUME NEW i \in Offsets, i < x.u, x.b[i] = d, i >= c
        PROVE  \E j \in Offsets : j < y.u /\ y.b[j] = d
    <3>1. i - c \in Offsets /\ i - c < y.u
      BY <1>1, <1>2, <2>3 DEF Lines, Counts, Offsets
    <3>2. y.b[i - c] = x.b[i]
      BY <1>1, <1>3, <3>1 DEF Lines, Counts, Offsets
    <3> QED BY <2>3, <3>1, <3>2
  <2>4. ASSUME NEW i \in Offsets, i >= x.k, x.n[i] = d
        PROVE  \E j \in Offsets : j >= y.k /\ y.n[j] = d
    <3>1. i - c \in Offsets /\ i - c >= y.k
      BY <1>1, <1>2, <2>4 DEF Lines, Counts, Offsets
    <3>2. y.n[i - c] = x.n[i]
      BY <1>1, <1>3, <3>1 DEF Lines, Counts, Offsets
    <3> QED BY <2>4, <3>1, <3>2
  <2>5. \A i \in Offsets : i < c \/ i >= c
    BY <1>1 DEF Offsets, Lines, Counts
  <2> QED BY <2>1, <2>2, <2>3, <2>4, <2>5
<1>6. Counted(y)
  BY <1>1, <1>2 DEF Whole, Counted, Lines, Counts
<1> QED BY <1>4, <1>5, <1>6 DEF Whole, y

\* Which descriptors have packets, when one is taken,
LEMMA TakenHeld ==
  ASSUME NEW x, Whole(x), x.k < x.a, NEW m, NEW o, HeldIn(x, m), o[x.n[x.k]] # 0,
         \A d \in Slots : d # x.n[x.k] => o[d] = m[d]
  PROVE  HeldIn(Taken(x), o)
<1> DEFINE y == Taken(x)
<1>1. /\ y \in Lines /\ x.k \in Offsets
      /\ y.u = x.u /\ y.k = x.k + 1 /\ y.a = x.a
      /\ y.t = x.t \cup {x.n[x.k]} /\ y.b = x.b /\ y.n = x.n
  BY TakenIs DEF Whole, Apart
<1> HIDE DEF y
<1>3. /\ x \in Lines /\ x.k \in Int /\ x.u <= x.k /\ Offsets \subseteq Int
      /\ \A i \in Offsets : x.b[i] \in Slots /\ x.n[i] \in Slots
  BY DEF Whole, Apart, Lines, Counts, Offsets
<1>4. \A i \in Offsets : i < x.u => o[x.b[i]] = m[x.b[i]]
  BY <1>1, <1>3 DEF Whole, Apart
<1>5. \A d \in x.t : o[d] = m[d]
  BY <1>1, <1>3 DEF Whole, Apart, Lines
<1>6. \A i \in Offsets : i > x.k => o[x.n[i]] = m[x.n[i]]
  BY <1>1, <1>3 DEF Whole, Apart
<1>7. \A i \in Offsets : (i >= x.k + 1 => i > x.k /\ i >= x.k) /\ (i >= x.a => i > x.k)
  BY <1>3 DEF Lines, Counts
<1>2. HeldIn(y, o)
  BY <1>1, <1>4, <1>5, <1>6, <1>7 DEF HeldIn
<1> QED BY <1>2 DEF y

\* given back,
LEMMA GivenHeld ==
  ASSUME NEW x, Whole(x), NEW d \in x.t, NEW m, HeldIn(x, m)
  PROVE  HeldIn(Given(x, d), m)
<1> DEFINE y == Given(x, d)
<1>1. x \in Lines /\ x.u < RingSize
  BY GivenRoom DEF Whole, Apart
<1>2. /\ y \in Lines /\ x.u \in Offsets
      /\ y.u = x.u + 1 /\ y.k = x.k /\ y.a = x.a
      /\ y.t = x.t \ {d} /\ y.n = x.n /\ y.b = [x.b EXCEPT ![x.u] = d]
  BY <1>1, GivenIs
<1> HIDE DEF y
<1>3. \A i \in Offsets : y.b[i] = IF i = x.u THEN d ELSE x.b[i]
  BY <1>1, <1>2 DEF Lines
<1>4. HeldIn(y, m)
  BY <1>1, <1>2, <1>3 DEF HeldIn, Lines, Counts, Offsets
<1> QED BY <1>4 DEF y

\* made available,
LEMMA PublishedHeld ==
  ASSUME NEW x, Whole(x), x.a < RingSize, NEW m, NEW o, HeldIn(x, m), o[x.n[x.a]] # 0,
         \A d \in Slots : d # x.n[x.a] => o[d] = m[d]
  PROVE  HeldIn(Published(x), o)
<1> DEFINE y == Published(x)
<1>1. /\ y \in Lines /\ y.u = x.u /\ y.k = x.k /\ y.a = x.a + 1
      /\ y.t = x.t /\ y.b = x.b /\ y.n = x.n
  BY PublishedWhole
<1> HIDE DEF y
<1>3. /\ x \in Lines /\ x.u <= x.k /\ x.k <= x.a /\ Offsets \subseteq Int /\ x.a \in Offsets
      /\ x.k \in Int
      /\ \A i \in Offsets : x.b[i] \in Slots /\ x.n[i] \in Slots
  BY DEF Whole, Apart, Lines, Counts, Offsets
<1>4. \A i \in Offsets : i < x.u => o[x.b[i]] = m[x.b[i]]
  BY <1>1, <1>3 DEF Whole, Apart
<1>5. \A d \in x.t : o[d] = m[d]
  BY <1>1, <1>3 DEF Whole, Apart, Lines
<1>6. \A i \in Offsets : i >= x.k /\ i # x.a => o[x.n[i]] = m[x.n[i]]
  BY <1>1, <1>3 DEF Whole, Apart
<1>7. \A i \in Offsets : /\ i >= x.a + 1 => i >= x.k /\ i # x.a /\ i >= x.a
                         /\ i < x.a + 1 => i = x.a \/ (i < x.a /\ i # x.a)
  <2>1. x.a \in Int /\ x.k \in Int /\ x.k <= x.a /\ Offsets \subseteq Int
    BY <1>3
  <2> QED BY <2>1
<1>2. HeldIn(y, o)
  BY <1>1, <1>4, <1>5, <1>6, <1>7 DEF HeldIn
<1> QED BY <1>2 DEF y

\* or looked at and freed.
LEMMA ReusedHeld ==
  ASSUME NEW x, Whole(x), NEW c \in 0 .. x.u, NEW m, NEW o, HeldIn(x, m),
         \A i \in Offsets : i < c => o[x.b[i]] = 0,
         \A d \in Slots : (\A i \in Offsets : i < c => x.b[i] # d) => o[d] = m[d]
  PROVE  HeldIn(Reused(x, c), o)
<1> DEFINE y == Reused(x, c)
<1>1. x \in Lines /\ x.u <= x.k /\ x.k <= x.a
  BY DEF Whole, Apart
<1>2. y \in Lines /\ y.u = x.u - c /\ y.k = x.k - c /\ y.a = x.a - c /\ y.t = x.t
  BY ReusedIs DEF Reused
<1>3. \A i \in Offsets :
        /\ y.b[i] = (IF i + c < RingSize THEN x.b[i + c] ELSE x.b[i + c - RingSize])
        /\ y.n[i] = (IF i + c < RingSize THEN x.n[i + c] ELSE x.b[i + c - RingSize])
  BY ReusedIs
<1> HIDE DEF y
<1>4. c \in Nat /\ c <= x.u /\ Offsets \subseteq Int /\ RingSize \in Int /\ x.u \in Int
  BY <1>1 DEF Lines, Counts, Offsets
<1>5. \A i \in Offsets : i >= c /\ i < x.u => o[x.b[i]] = m[x.b[i]]
  BY <1>1, <1>4 DEF Whole, Apart, Lines
<1>6. \A i \in Offsets : i >= x.k => o[x.n[i]] = m[x.n[i]]
  <2>1. \A j \in Offsets : j < c => j < x.u
    BY <1>4
  <2>2. \A i \in Offsets : i >= x.k => x.n[i] \in Slots /\ \A j \in Offsets : j < c => x.b[j] # x.n[i]
    BY <1>1, <2>1 DEF Whole, Apart, Lines
  <2> QED BY <2>2
<1>7. \A d \in x.t : o[d] = m[d]
  BY <1>1, <1>4 DEF Whole, Apart, Lines
<1>8. ASSUME NEW i \in Offsets, i < y.u PROVE o[y.b[i]] # 0
  <2>1. i + c \in Offsets /\ i + c < x.u /\ i + c >= c /\ y.b[i] = x.b[i + c]
    BY <1>1, <1>2, <1>3, <1>8 DEF Lines, Counts, Offsets
  <2> QED BY <1>5, <2>1 DEF HeldIn
<1>9. ASSUME NEW i \in Offsets, i >= y.k, i < y.a PROVE o[y.n[i]] # 0
  <2>1. i + c \in Offsets /\ i + c >= x.k /\ i + c < x.a /\ y.n[i] = x.n[i + c]
    BY <1>1, <1>2, <1>3, <1>9 DEF Lines, Counts, Offsets
  <2> QED BY <1>6, <2>1 DEF HeldIn
<1>10. ASSUME NEW i \in Offsets, i >= y.a PROVE o[y.n[i]] = 0
  <2>1. CASE i + c < RingSize
    <3>1. y.n[i] = x.n[i + c]
      BY <1>3, <2>1
    <3>2. x.k \in Nat /\ x.a \in Nat
      BY <1>1 DEF Lines, Counts
    <3>3. i + c \in Offsets /\ i + c >= x.k /\ i + c >= x.a
      BY <1>1, <1>2, <1>4, <1>10, <2>1, <3>2 DEF Offsets
    <3> QED BY <1>6, <3>1, <3>3 DEF HeldIn
  <2>2. CASE i + c >= RingSize
    <3>1. i + c - RingSize \in Offsets /\ i + c - RingSize < c /\ y.n[i] = x.b[i + c - RingSize]
      BY <1>1, <1>2, <1>3, <2>2 DEF Lines, Counts, Offsets
    <3> QED BY <3>1
  <2>3. i + c < RingSize \/ i + c >= RingSize
    BY <1>4
  <2> QED BY <2>1, <2>2, <2>3
<1>11. HeldIn(y, o)
  BY <1>2, <1>7, <1>8, <1>9, <1>10 DEF HeldIn
<1> QED BY <1>11 DEF y

\* With no descriptor left none looks free.
LEMMA FullHeld ==
  ASSUME NEW x, Whole(x), NEW m, HeldIn(x, m), x.a = RingSize, NEW d \in Slots
  PROVE  m[d] # 0
<1>1. x \in Lines /\ \A i \in Offsets : i < x.a
  BY DEF Whole, Apart, Offsets
<1> QED BY <1>1 DEF Whole, Covers, HeldIn

HIDE TunAssumption DEF TunAssumption, Index

\* Indexes and positions are numbers.
LEMMA IndexNat == Index \subseteq Nat /\ Offsets \subseteq Nat /\ RingSize \in Nat
  BY TunAssumption DEF TunAssumption, Index, Offsets

\* Two indexes as far ahead are the same.
LEMMA AheadSame ==
  ASSUME NEW x \in Index, NEW y \in Index, NEW s \in Index, Ahead(x, s) = Ahead(y, s)
  PROVE  x = y
  BY TunAssumption, AheadIs DEF TunAssumption, Index

\* The types of one ring.
LEMMA TypedIs ==
  ASSUME Typed, NEW r \in Rings
  PROVE  /\ desc[r] \in [Slots -> Int] /\ avail[r] \in Avails /\ used[r] \in Useds
         /\ seen_used[r] \in Index /\ kernel[r] \in Kernels
  BY DEF Typed, Avails, Useds, Kernels

\* A line depends on nothing else.
LEMMA LineSame ==
  ASSUME NEW r \in Rings, seen_used'[r] = seen_used[r],
         used'[r].idx = used[r].idx, used'[r].ring = used[r].ring,
         avail'[r].idx = avail[r].idx, avail'[r].ring = avail[r].ring,
         kernel'[r].avail = kernel[r].avail, kernel'[r].taken = kernel[r].taken
  PROVE  LineOf(r)' = LineOf(r)
  BY DEF LineOf, At

\* The fields of a line.
LEMMA LineIs ==
  ASSUME Typed, NEW r \in Rings
  PROVE  /\ LineOf(r).u = Ahead(used[r].idx, seen_used[r])
         /\ LineOf(r).k = Ahead(kernel[r].avail, seen_used[r])
         /\ LineOf(r).a = Ahead(avail[r].idx, seen_used[r])
         /\ LineOf(r).t = kernel[r].taken
         /\ LineOf(r).b = [i \in Offsets |-> used[r].ring[Slot(seen_used[r] + i)]]
         /\ LineOf(r).n = [i \in Offsets |-> avail[r].ring[Slot(seen_used[r] + i)]]
  BY DEF LineOf, At

\* Where an index points to.
LEMMA Pointed ==
  ASSUME NEW s \in Index, NEW x \in Index, Ahead(x, s) \in Offsets, NEW f
  PROVE  [i \in Offsets |-> f[Slot(s + i)]][Ahead(x, s)] = f[Slot(x)]
<1>1. Slot(x) = Slot(s + Ahead(x, s))
  BY Places
<1> QED BY <1>1

\* One ring's thread does not change the other's.
LEMMA KernelMoves ==
  ASSUME Typed, NEW r \in Rings, NEW k \in Kernels, kernel' = [kernel EXCEPT ![r] = k]
  PROVE  /\ kernel' \in [Rings -> Kernels] /\ kernel'[r] = k
         /\ \A q \in Rings : q # r => kernel'[q] = kernel[q]
  BY DEF Typed, Kernels

\* The kernel takes a descriptor.
LEMMA TakeLine ==
  ASSUME Typed, NEW r \in Rings, Whole(LineOf(r)), kernel[r].avail # avail[r].idx, NEW d,
         d = avail[r].ring[Slot(kernel[r].avail)],
         kernel' = [kernel EXCEPT ![r].avail = Up(@), ![r].taken = @ \cup {d}],
         UNCHANGED <<avail, used, seen_used>>
  PROVE  /\ kernel' \in [Rings -> Kernels]
         /\ LineOf(r)' = Taken(LineOf(r)) /\ LineOf(r).k < LineOf(r).a
         /\ d = LineOf(r).n[LineOf(r).k] /\ d \in Slots
         /\ \A q \in Rings : q # r => LineOf(q)' = LineOf(q)
<1> DEFINE x == LineOf(r)
           k == [[kernel[r] EXCEPT !.avail = Up(kernel[r].avail)]
                   EXCEPT !.taken = kernel[r].taken \cup {d}]
<1>1. /\ avail[r] \in Avails /\ used[r] \in Useds /\ seen_used[r] \in Index
      /\ kernel[r] \in Kernels
  BY TypedIs
<1>2. /\ kernel[r].avail \in Index /\ avail[r].idx \in Index /\ avail[r].ring \in [Slots -> Slots]
      /\ kernel[r].taken \in SUBSET Slots /\ used[r].idx \in Index
  BY <1>1 DEF Avails, Useds, Kernels
<1>3. Up(kernel[r].avail) \in Index /\ Slot(kernel[r].avail) \in Slots
  BY <1>2, IndexNat, AheadMoves, SlotIs
<1>4. d \in Slots
  BY <1>2, <1>3
<1>5. k \in Kernels /\ k.avail = Up(kernel[r].avail) /\ k.taken = kernel[r].taken \cup {d}
  BY <1>1, <1>2, <1>3, <1>4 DEF Kernels
<1>6. kernel' = [kernel EXCEPT ![r] = k]
  BY <1>1 DEF Typed, Kernels
<1> HIDE DEF k
<1>7. /\ kernel' \in [Rings -> Kernels] /\ kernel'[r] = k
      /\ \A q \in Rings : q # r => kernel'[q] = kernel[q]
  BY <1>5, <1>6, KernelMoves
<1>8. /\ x.u = Ahead(used[r].idx, seen_used[r]) /\ x.k = Ahead(kernel[r].avail, seen_used[r])
      /\ x.a = Ahead(avail[r].idx, seen_used[r]) /\ x.t = kernel[r].taken
      /\ x.n = [i \in Offsets |-> avail[r].ring[Slot(seen_used[r] + i)]]
      /\ x.b = [i \in Offsets |-> used[r].ring[Slot(seen_used[r] + i)]]
  BY LineIs
<1>9. x \in Lines /\ x.k <= x.a
  BY DEF Whole, Apart
<1> HIDE DEF x
<1>10. x.k # x.a
  BY <1>1, <1>2, <1>8, AheadSame
<1>11. x.k < x.a /\ x.k \in Offsets /\ x.k < RingSize
  BY <1>9, <1>10, IndexNat DEF Lines, Counts, Offsets
<1>12. d = x.n[x.k]
  BY <1>1, <1>2, <1>8, <1>11, Pointed
<1>13. Ahead(Up(kernel[r].avail), seen_used[r]) = x.k + 1
  BY <1>1, <1>2, <1>8, <1>11, AheadMoves
<1>14. LineOf(r)' = Taken(x)
  BY <1>5, <1>7, <1>8, <1>12, <1>13 DEF LineOf, At, Taken
<1>15. ASSUME NEW q \in Rings, q # r PROVE LineOf(q)' = LineOf(q)
  BY <1>7, <1>15, LineSame
<1> QED BY <1>4, <1>7, <1>11, <1>12, <1>14, <1>15 DEF x

\* The kernel gives a descriptor back.
LEMMA GiveLine ==
  ASSUME Typed, NEW r \in Rings, Whole(LineOf(r)), NEW d \in kernel[r].taken,
         used' = [used EXCEPT ![r].ring[Slot(used[r].idx)] = d, ![r].idx = Up(@)],
         kernel' = [kernel EXCEPT ![r].taken = @ \ {d}],
         UNCHANGED <<avail, seen_used>>
  PROVE  /\ kernel' \in [Rings -> Kernels] /\ used' \in [Rings -> Useds]
         /\ LineOf(r)' = Given(LineOf(r), d) /\ d \in LineOf(r).t
         /\ \A q \in Rings : q # r => LineOf(q)' = LineOf(q)
<1> DEFINE x == LineOf(r)
           s == seen_used[r]
           k == [kernel[r] EXCEPT !.taken = kernel[r].taken \ {d}]
           f == [used[r].ring EXCEPT ![Slot(used[r].idx)] = d]
           v == [[used[r] EXCEPT !.ring = f] EXCEPT !.idx = Up(used[r].idx)]
<1>1. /\ avail[r] \in Avails /\ used[r] \in Useds /\ s \in Index /\ kernel[r] \in Kernels
  BY TypedIs
<1>2. /\ used[r].idx \in Index /\ used[r].ring \in [Slots -> Slots]
      /\ kernel[r].taken \in SUBSET Slots
  BY <1>1 DEF Useds, Kernels
<1>3. Up(used[r].idx) \in Index /\ Slot(used[r].idx) \in Slots /\ d \in Slots
  BY <1>2, IndexNat, AheadMoves, SlotIs
<1>4. k \in Kernels /\ k.taken = kernel[r].taken \ {d} /\ k.avail = kernel[r].avail
  BY <1>1, <1>2 DEF Kernels
<1>5. kernel' = [kernel EXCEPT ![r] = k]
  OBVIOUS
<1> HIDE DEF k
<1>6. /\ kernel' \in [Rings -> Kernels] /\ kernel'[r] = k
      /\ \A q \in Rings : q # r => kernel'[q] = kernel[q]
  BY <1>4, <1>5, KernelMoves
<1>7. f \in [Slots -> Slots] /\ \A p \in Slots : f[p] = IF p = Slot(used[r].idx) THEN d
                                                       ELSE used[r].ring[p]
  BY <1>2, <1>3
<1>8. used' = [used EXCEPT ![r] = v]
  BY <1>1 DEF Typed, Useds
<1> HIDE DEF f
<1>9. v \in Useds /\ v.idx = Up(used[r].idx) /\ v.ring = f
  BY <1>1, <1>3, <1>7 DEF Useds
<1> HIDE DEF v
<1>10. used \in [Rings -> Useds]
  BY DEF Typed, Useds
<1>11. /\ used' \in [Rings -> Useds] /\ used'[r] = v
       /\ \A q \in Rings : q # r => used'[q] = used[q]
  BY <1>8, <1>9, <1>10
<1>12. /\ x.u = Ahead(used[r].idx, s) /\ x.k = Ahead(kernel[r].avail, s)
       /\ x.a = Ahead(avail[r].idx, s) /\ x.t = kernel[r].taken
       /\ x.n = [i \in Offsets |-> avail[r].ring[Slot(s + i)]]
       /\ x.b = [i \in Offsets |-> used[r].ring[Slot(s + i)]]
  BY LineIs
<1>13. x.u < RingSize /\ x \in Lines /\ x.u \in Offsets
  BY <1>12, GivenRoom, GivenIs DEF Whole, Apart
<1> HIDE DEF x, s
<1>14. Ahead(Up(used[r].idx), s) = x.u + 1
  BY <1>1, <1>2, <1>12, <1>13, AheadMoves
<1>15. \A i \in Offsets : Slot(s + i) \in Slots /\ (Slot(s + i) = Slot(used[r].idx) <=> i = x.u)
  BY <1>1, <1>2, <1>12, <1>13, Places, IndexNat DEF Offsets
<1>16. [i \in Offsets |-> f[Slot(s + i)]] = [x.b EXCEPT ![x.u] = d]
  BY <1>7, <1>12, <1>13, <1>15
<1>17. LineOf(r)' = Given(x, d)
  <2>1. LineOf(r)' = [u |-> Ahead(used'[r].idx, s), k |-> Ahead(kernel'[r].avail, s),
                      a |-> Ahead(avail[r].idx, s), t |-> kernel'[r].taken,
                      b |-> [i \in Offsets |-> used'[r].ring[Slot(s + i)]],
                      n |-> [i \in Offsets |-> avail[r].ring[Slot(s + i)]]]
    BY DEF LineOf, At, s
  <2>2. used'[r].idx = Up(used[r].idx) /\ used'[r].ring = f
    BY <1>9, <1>11
  <2>3. kernel'[r].avail = kernel[r].avail /\ kernel'[r].taken = kernel[r].taken \ {d}
    BY <1>4, <1>6
  <2> QED BY <1>12, <1>14, <1>16, <2>1, <2>2, <2>3 DEF Given
<1>18. ASSUME NEW q \in Rings, q # r PROVE LineOf(q)' = LineOf(q)
  BY <1>6, <1>11, <1>18, LineSame
<1> QED BY <1>6, <1>11, <1>12, <1>17, <1>18 DEF x

\* The loop makes a descriptor available.
LEMMA NextIs ==
  ASSUME Typed, Ordered, NEW r \in Rings, IsFree(r)
  PROVE  /\ LineOf(r).a < RingSize /\ LineOf(r).a \in Offsets
         /\ NextDesc(r) = LineOf(r).n[LineOf(r).a] /\ NextDesc(r) \in Slots
<1> DEFINE x == LineOf(r)
           s == seen_used[r]
<1>1. /\ avail[r].idx \in Index /\ avail[r].ring \in [Slots -> Slots] /\ s \in Index
      /\ x.a = Ahead(avail[r].idx, s) /\ x.n = [i \in Offsets |-> avail[r].ring[Slot(s + i)]]
  BY TypedIs, LineIs DEF Avails
<1>2. Slot(avail[r].idx) \in Slots
  BY <1>1, IndexNat, SlotIs
<1>3. NextDesc(r) \in Slots
  BY <1>1, <1>2 DEF NextDesc
<1>4. Whole(x) /\ HeldIn(x, desc[r]) /\ x \in Lines
  BY DEF Ordered, Whole, Apart
<1> HIDE DEF x, s
<1>5. x.a # RingSize
  BY <1>3, <1>4, FullHeld DEF IsFree
<1>6. x.a < RingSize /\ x.a \in Offsets
  BY <1>4, <1>5, IndexNat DEF Lines, Counts, Offsets
<1>7. NextDesc(r) = x.n[x.a]
  BY <1>1, <1>6, Pointed DEF NextDesc
<1> QED BY <1>3, <1>6, <1>7 DEF x

\* What that does to the line.
LEMMA PublishLine ==
  ASSUME Typed, NEW r \in Rings, LineOf(r).a < RingSize,
         avail' = [avail EXCEPT ![r].idx = Up(@)], UNCHANGED <<used, seen_used, kernel>>
  PROVE  /\ avail' \in [Rings -> Avails]
         /\ LineOf(r)' = Published(LineOf(r))
         /\ \A q \in Rings : q # r => LineOf(q)' = LineOf(q)
<1> DEFINE x == LineOf(r)
           s == seen_used[r]
           v == [avail[r] EXCEPT !.idx = Up(avail[r].idx)]
<1>1. /\ avail[r] \in Avails /\ s \in Index /\ avail[r].idx \in Index
      /\ avail \in [Rings -> Avails]
  BY TypedIs DEF Avails, Typed
<1>2. Up(avail[r].idx) \in Index
  BY <1>1, AheadMoves
<1>3. avail' = [avail EXCEPT ![r] = v]
  BY <1>1
<1>4. v \in Avails /\ v.idx = Up(avail[r].idx) /\ v.ring = avail[r].ring
  BY <1>1, <1>2 DEF Avails
<1> HIDE DEF v
<1>5. /\ avail' \in [Rings -> Avails] /\ avail'[r] = v
      /\ \A q \in Rings : q # r => avail'[q] = avail[q]
  BY <1>1, <1>3, <1>4
<1>6. /\ x.u = Ahead(used[r].idx, s) /\ x.k = Ahead(kernel[r].avail, s)
      /\ x.a = Ahead(avail[r].idx, s) /\ x.t = kernel[r].taken
      /\ x.n = [i \in Offsets |-> avail[r].ring[Slot(s + i)]]
      /\ x.b = [i \in Offsets |-> used[r].ring[Slot(s + i)]]
  BY LineIs
<1>7. x.a < RingSize
  OBVIOUS
<1> HIDE DEF x, s
<1>8. Ahead(Up(avail[r].idx), s) = x.a + 1
  BY <1>1, <1>6, <1>7, AheadMoves
<1>9. LineOf(r)' = Published(x)
  BY <1>4, <1>5, <1>6, <1>8 DEF LineOf, At, Published, s
<1>10. ASSUME NEW q \in Rings, q # r PROVE LineOf(q)' = LineOf(q)
  BY <1>5, <1>10, LineSame
<1> QED BY <1>5, <1>9, <1>10 DEF x

\* A position past the end is one at the start.
LEMMA WrapIs ==
  ASSUME NEW i \in Nat
  PROVE  Wrap(i) = IF i < RingSize THEN i ELSE i - RingSize
  BY DEF Wrap

\* The descriptors that process_ring() looks at, and the ring when it is done with them.
BackOf(r, c) == [i \in 1 .. c |-> used[r].ring[Slot(seen_used[r] + i - 1)]]
RingAfter(r, c) ==
  [p \in Slots |-> IF \E i \in 1 .. c : Slot(seen_used[r] + i - 1) = p
                   THEN BackOf(r, c)[CHOOSE i \in 1 .. c : Slot(seen_used[r] + i - 1) = p]
                   ELSE avail[r].ring[p]]

\* The loop takes what was given back, and lines it up again.
LEMMA ReuseLine ==
  ASSUME Typed, NEW r \in Rings, Whole(LineOf(r)), NEW c \in 0 .. LineOf(r).u,
         avail' = [avail EXCEPT ![r].ring = RingAfter(r, c)],
         seen_used' = [seen_used EXCEPT ![r] = (@ + c) % IndexSpan],
         UNCHANGED <<used, kernel>>
  PROVE  /\ avail' \in [Rings -> Avails] /\ seen_used' \in [Rings -> Index]
         /\ LineOf(r)' = Reused(LineOf(r), c)
         /\ \A i \in 1 .. c : i - 1 \in Offsets /\ BackOf(r, c)[i] = LineOf(r).b[i - 1]
         /\ \A q \in Rings : q # r => LineOf(q)' = LineOf(q)
<1> DEFINE x == LineOf(r)
           s == seen_used[r]
           t == (s + c) % IndexSpan
           back == BackOf(r, c)
           f == RingAfter(r, c)
           v == [avail[r] EXCEPT !.ring = f]
<1>1. /\ avail[r] \in Avails /\ s \in Index /\ used[r] \in Useds /\ kernel[r] \in Kernels
      /\ avail \in [Rings -> Avails] /\ seen_used \in [Rings -> Index]
  BY TypedIs DEF Avails, Typed
<1>2. /\ avail[r].idx \in Index /\ used[r].idx \in Index /\ kernel[r].avail \in Index
      /\ avail[r].ring \in [Slots -> Slots] /\ used[r].ring \in [Slots -> Slots]
  BY <1>1 DEF Avails, Useds, Kernels
<1>3. /\ x.u = Ahead(used[r].idx, s) /\ x.k = Ahead(kernel[r].avail, s)
      /\ x.a = Ahead(avail[r].idx, s) /\ x.t = kernel[r].taken
      /\ x.n = [i \in Offsets |-> avail[r].ring[Slot(s + i)]]
      /\ x.b = [i \in Offsets |-> used[r].ring[Slot(s + i)]]
  BY LineIs
<1>4. /\ x \in Lines /\ x.u <= x.k /\ x.k <= x.a /\ c \in 0 .. x.u
      /\ x.u \in Counts /\ x.k \in Counts /\ x.a \in Counts
  BY DEF Whole, Apart, Lines
<1>5. back = [i \in 1 .. c |-> used[r].ring[Slot(s + i - 1)]]
  BY DEF BackOf
<1>6. f = [p \in Slots |-> IF \E i \in 1 .. c : Slot(s + i - 1) = p
                           THEN back[CHOOSE i \in 1 .. c : Slot(s + i - 1) = p]
                           ELSE avail[r].ring[p]]
  BY DEF RingAfter
<1>7. seen_used' = [seen_used EXCEPT ![r] = t] /\ avail' = [avail EXCEPT ![r] = v]
  BY <1>1
<1> HIDE DEF x, back, f
<1>8. c \in 0 .. RingSize /\ c <= x.u /\ c <= x.k /\ c <= x.a /\ c \in Nat
  BY <1>4, IndexNat DEF Counts
<1>9. s \in Nat
  BY <1>1, IndexNat
<1> HIDE DEF s
<1>10. \A i \in 1 .. c : /\ i - 1 \in Offsets /\ i - 1 \in 0 .. RingSize - 1 /\ s + i - 1 = s + (i - 1)
                         /\ s + i - 1 \in Nat /\ i - 1 < c
  BY <1>8, <1>9, IndexNat DEF Offsets
<1>11. \A i \in 1 .. c : back[i] = x.b[i - 1] /\ back[i] \in Slots
  BY <1>2, <1>3, <1>5, <1>10, SlotIs
<1>12. \A i, j \in 1 .. c : Slot(s + i - 1) = Slot(s + j - 1) => i = j
  <2> SUFFICES ASSUME NEW i \in 1 .. c, NEW j \in 1 .. c, Slot(s + i - 1) = Slot(s + j - 1)
               PROVE  i = j
    OBVIOUS
  <2>1. Slot(s + (i - 1)) = Slot(s + (j - 1))
    BY <1>10
  <2>2. i - 1 = j - 1
    BY <1>1, <1>10, <2>1, Places
  <2> QED BY <2>2
<1>13. ASSUME NEW i \in 1 .. c
       PROVE  /\ Slot(s + i - 1) \in Slots /\ f[Slot(s + i - 1)] = x.b[i - 1]
  <2> DEFINE p == Slot(s + i - 1)
  <2>1. p \in Slots
    BY <1>10, SlotIs
  <2>2. (CHOOSE j \in 1 .. c : Slot(s + j - 1) = p) = i
    BY <1>12
  <2>3. f[p] = back[i]
    BY <1>6, <2>1, <2>2
  <2> QED BY <1>11, <2>1, <2>3
<1>14. ASSUME NEW i \in Offsets, i >= c
       PROVE  f[Slot(s + i)] = x.n[i]
  <2>1. Slot(s + i) \in Slots /\ i \in 0 .. RingSize - 1
    BY <1>9, SlotIs, IndexNat DEF Offsets
  <2>2. ASSUME NEW j \in 1 .. c, Slot(s + j - 1) = Slot(s + i) PROVE FALSE
    <3>1. Slot(s + (j - 1)) = Slot(s + i)
      BY <1>10, <2>2
    <3>2. j - 1 = i
      BY <1>1, <1>10, <2>1, <3>1, Places
    <3> QED BY <1>10, <1>14, <3>2
  <2>3. f[Slot(s + i)] = avail[r].ring[Slot(s + i)]
    BY <1>6, <2>1, <2>2
  <2> QED BY <1>3, <2>3
<1>15. f \in [Slots -> Slots]
  <2>1. ASSUME NEW p \in Slots
        PROVE  (IF \E i \in 1 .. c : Slot(s + i - 1) = p
                THEN back[CHOOSE i \in 1 .. c : Slot(s + i - 1) = p]
                ELSE avail[r].ring[p]) \in Slots
    BY <1>2, <1>11
  <2> QED BY <1>6, <2>1
<1>16. v \in Avails /\ v.idx = avail[r].idx /\ v.ring = f
  BY <1>1, <1>15 DEF Avails
<1> HIDE DEF v
<1>17. /\ avail' \in [Rings -> Avails] /\ avail'[r] = v
       /\ \A q \in Rings : q # r => avail'[q] = avail[q]
  BY <1>1, <1>7, <1>16
<1>18. t \in Index
  BY <1>1, <1>2, <1>8, AheadMoves
<1>19. /\ seen_used' \in [Rings -> Index] /\ seen_used'[r] = t
       /\ \A q \in Rings : q # r => seen_used'[q] = seen_used[q]
  BY <1>1, <1>7, <1>18
<1>20. /\ Ahead(used[r].idx, t) = x.u - c /\ Ahead(kernel[r].avail, t) = x.k - c
       /\ Ahead(avail[r].idx, t) = x.a - c
  <2>1. \A y \in Index : c <= Ahead(y, s) => Ahead(y, t) = Ahead(y, s) - c
    BY <1>1, <1>8, AheadMoves
  <2> HIDE DEF t
  <2> QED BY <1>2, <1>3, <1>8, <2>1
<1>21. ASSUME NEW i \in Offsets
       PROVE  Slot(t + i) = Slot(s + Wrap(i + c)) /\ Wrap(i + c) \in Offsets
  <2>1. i \in 0 .. RingSize - 1
    BY DEF Offsets
  <2>2. Slot(t + i) = Slot(s + (IF i + c < RingSize THEN i + c ELSE i + c - RingSize))
    BY <1>1, <1>8, <2>1, Places
  <2>3. Wrap(i + c) \in Offsets
    BY <1>8, <2>1, IndexNat DEF Wrap, Offsets
  <2> HIDE DEF t
  <2>4. Wrap(i + c) = IF i + c < RingSize THEN i + c ELSE i + c - RingSize
    <3>1. i + c \in Nat /\ i \in Nat /\ c \in Nat /\ RingSize \in Nat
      BY <1>8, IndexNat
    <3> QED BY <3>1, WrapIs
  <2>5. Slot(t + i) = Slot(s + Wrap(i + c))
    BY <2>2, <2>4
  <2> QED BY <2>3, <2>5
<1> HIDE DEF t
<1>22. [i \in Offsets |-> used[r].ring[Slot(t + i)]] = [i \in Offsets |-> x.b[Wrap(i + c)]]
  BY <1>3, <1>21
<1>23. ASSUME NEW i \in Offsets
       PROVE  f[Slot(t + i)] = IF i + c < RingSize THEN x.n[i + c] ELSE x.b[Wrap(i + c)]
  <2>1. CASE i + c < RingSize
    <3>1. Wrap(i + c) = i + c /\ i + c >= c
      BY <1>8, <2>1, IndexNat DEF Wrap
    <3> QED BY <1>14, <1>21, <2>1, <3>1
  <2>2. CASE ~(i + c < RingSize)
    <3> DEFINE j == Wrap(i + c)
    <3>1. j = i + c - RingSize /\ j + 1 \in 1 .. c /\ s + (j + 1) - 1 = s + j /\ (j + 1) - 1 = j
      BY <1>8, <1>9, <2>2, IndexNat DEF Wrap, Offsets
    <3> HIDE DEF j
    <3>2. f[Slot(s + j)] = x.b[j]
      BY <1>13, <3>1
    <3> QED BY <1>21, <2>2, <3>2 DEF j
  <2> QED BY <2>1, <2>2
<1>24. [i \in Offsets |-> f[Slot(t + i)]]
         = [i \in Offsets |-> IF i + c < RingSize THEN x.n[i + c] ELSE x.b[Wrap(i + c)]]
  BY <1>23
<1>25. LineOf(r)' = Reused(x, c)
  <2>1. LineOf(r)' = [u |-> Ahead(used[r].idx, t), k |-> Ahead(kernel[r].avail, t),
                      a |-> Ahead(avail'[r].idx, t), t |-> kernel[r].taken,
                      b |-> [i \in Offsets |-> used[r].ring[Slot(t + i)]],
                      n |-> [i \in Offsets |-> avail'[r].ring[Slot(t + i)]]]
    <3>1. seen_used'[r] = t /\ used' = used /\ kernel' = kernel
      BY <1>19
    <3>2. [i \in Offsets |-> used'[r].ring[Slot(seen_used'[r] + i)]]
            = [i \in Offsets |-> used[r].ring[Slot(t + i)]]
      BY <3>1
    <3>3. [i \in Offsets |-> avail'[r].ring[Slot(seen_used'[r] + i)]]
            = [i \in Offsets |-> avail'[r].ring[Slot(t + i)]]
      BY <3>1
    <3> QED BY <3>1, <3>2, <3>3 DEF LineOf, At
  <2>2. avail'[r].idx = avail[r].idx /\ avail'[r].ring = f
    BY <1>16, <1>17
  <2>3. [i \in Offsets |-> avail'[r].ring[Slot(t + i)]] = [i \in Offsets |-> f[Slot(t + i)]]
    <3>1. avail'[r].ring = f
      BY <2>2
    <3> QED BY ONLY <3>1
  <2> QED BY <1>3, <1>20, <1>22, <1>24, <2>1, <2>2, <2>3 DEF Reused
<1>26. ASSUME NEW q \in Rings, q # r PROVE LineOf(q)' = LineOf(q)
  BY <1>17, <1>19, <1>26, LineSame
<1> QED BY <1>10, <1>11, <1>17, <1>19, <1>25, <1>26 DEF x, back

\* What a whole line is, for the lemmas to come.
LEMMA Apartness ==
  ASSUME NEW x, Whole(x)
  PROVE  /\ x \in Lines /\ x.u \in Counts /\ x.k \in Counts /\ x.a \in Counts
         /\ x.u \in Nat /\ x.k \in Nat /\ x.a \in Nat /\ x.t \subseteq Slots
         /\ x.u <= x.k /\ x.k <= x.a /\ x.a <= RingSize
         /\ \A i \in Offsets : x.b[i] \in Slots /\ x.n[i] \in Slots /\ i \in Nat /\ i < RingSize
         /\ \A i, j \in Offsets : i >= x.k /\ j >= x.k /\ x.n[i] = x.n[j] => i = j
         /\ \A i, j \in Offsets : i < x.u /\ j >= x.k => x.b[i] # x.n[j]
         /\ \A i \in Offsets : i < x.u => x.b[i] \notin x.t
         /\ \A i \in Offsets : i >= x.k => x.n[i] \notin x.t
<1>1. /\ x \in Lines /\ x.u \in Counts /\ x.k \in Counts /\ x.a \in Counts /\ x.t \subseteq Slots
      /\ \A i \in Offsets : x.b[i] \in Slots /\ x.n[i] \in Slots
  BY DEF Whole, Apart, Lines
<1>2. x.u \in Nat /\ x.k \in Nat /\ x.a \in Nat /\ x.a <= RingSize
  BY <1>1, IndexNat DEF Counts
<1>3. \A i \in Offsets : i \in Nat /\ i < RingSize
  BY IndexNat DEF Offsets
<1> QED BY <1>1, <1>2, <1>3 DEF Whole, Apart

\* Packets of applications stay numbered when the kernel fills a buffer,
LEMMA TakenRx ==
  ASSUME NEW x, Whole(x), x.k < x.a, x.t = {}, NEW m, NEW o, NEW g \in Nat, RxData(x, m, g),
         o[x.n[x.k]] = g + x.k + 1, \A d \in Slots : d # x.n[x.k] => o[d] = m[d]
  PROVE  RxData(Taken(x), o, g)
<1> DEFINE y == Taken(x)
<1>1. /\ y.u = x.u /\ y.k = x.k + 1 /\ y.t = {x.n[x.k]} /\ y.b = x.b
  BY DEF Taken
<1> HIDE DEF y
<1>2. x.k = x.u
  <2>1. Cardinality(x.t) = 0
    BY FS_EmptySet
  <2>2. Cardinality(x.t) = x.k - x.u
    BY DEF Whole, Counted
  <2>3. x.k \in Nat /\ x.u \in Nat
    BY Apartness
  <2>4. \A k, u \in Nat : k - u = 0 => k = u
    OBVIOUS
  <2>5. x.k - x.u = 0
    BY <2>1, <2>2
  <2> QED BY <2>3, <2>4, <2>5
<1>3. x.k \in Offsets
  BY Apartness, IndexNat DEF Offsets
<1>4. \A i \in Offsets : i < x.u => o[x.b[i]] = m[x.b[i]]
  BY <1>3, Apartness
<1>5. y.k - y.u <= 1
  BY <1>1, <1>2, Apartness
<1>6. \A d \in y.t : o[d] = g + y.u + 1
  BY <1>1, <1>2
<1> QED BY <1>1, <1>4, <1>5, <1>6 DEF RxData, y

\* gives it back,
LEMMA GivenRx ==
  ASSUME NEW x, Whole(x), NEW d \in x.t, NEW m, NEW g \in Nat, RxData(x, m, g)
  PROVE  RxData(Given(x, d), m, g)
<1> DEFINE y == Given(x, d)
<1>1. /\ y.u = x.u + 1 /\ y.k = x.k /\ y.t = x.t \ {d} /\ y.b = [x.b EXCEPT ![x.u] = d]
  BY DEF Given
<1>2. x.u < x.k /\ x.u \in Offsets /\ x.b \in [Offsets -> Slots]
  BY GivenRoom, Apartness, IndexNat DEF Lines, Offsets
<1>3. \A i \in Offsets : y.b[i] = IF i = x.u THEN d ELSE x.b[i]
  BY <1>1, <1>2
<1> HIDE DEF y
<1>4. x.k - x.u <= 1
  BY DEF RxData
<1>5. y.t = {}
  <2>1. IsFiniteSet(x.t) /\ Cardinality(x.t) = x.k - x.u
    BY DEF Whole, Counted
  <2>2. IsFiniteSet(y.t) /\ Cardinality(y.t) = Cardinality(x.t) - 1
    BY <1>1, <2>1, FS_RemoveElement
  <2>3. Cardinality(y.t) = 0
    BY <1>2, <1>4, <2>1, <2>2, Apartness
  <2> QED BY <2>2, <2>3, FS_EmptySet
<1>6. \A i \in Offsets : i < y.u => m[y.b[i]] = g + i + 1
  <2> SUFFICES ASSUME NEW i \in Offsets, i < y.u PROVE m[y.b[i]] = g + i + 1
    OBVIOUS
  <2>1. i = x.u \/ (i < x.u /\ i # x.u)
    BY <1>1, Apartness
  <2> QED BY <1>3, <2>1 DEF RxData
<1>7. y.k - y.u <= 1
  BY <1>1, <1>4, Apartness
<1> QED BY <1>5, <1>6, <1>7 DEF RxData, y

\* gets a new one,
LEMMA PublishedRx ==
  ASSUME NEW x, Whole(x), x.a < RingSize, NEW m, NEW o, NEW g \in Nat, RxData(x, m, g),
         \A d \in Slots : d # x.n[x.a] => o[d] = m[d]
  PROVE  RxData(Published(x), o, g)
<1>1. x.a \in Offsets
  BY Apartness, IndexNat DEF Offsets
<1>2. \A i \in Offsets : i < x.u => o[x.b[i]] = m[x.b[i]]
  BY <1>1, Apartness
<1>3. \A d \in x.t : o[d] = m[d]
  BY <1>1, Apartness
<1> QED BY <1>2, <1>3 DEF RxData, Published

\* and when the loop has looked at c of them.
LEMMA ReusedRx ==
  ASSUME NEW x, Whole(x), NEW c \in 0 .. x.u, NEW m, NEW o, NEW g \in Nat, RxData(x, m, g),
         \A d \in Slots : (\A i \in Offsets : i < c => x.b[i] # d) => o[d] = m[d]
  PROVE  RxData(Reused(x, c), o, g + c)
<1> DEFINE y == Reused(x, c)
<1>1. y.u = x.u - c /\ y.k = x.k - c /\ y.t = x.t
  BY DEF Reused
<1>2. \A i \in Offsets : y.b[i] = (IF i + c < RingSize THEN x.b[i + c] ELSE x.b[i + c - RingSize])
  BY ReusedIs
<1> HIDE DEF y
<1>3. c \in Nat /\ c <= x.u
  BY Apartness
<1>4. \A i \in Offsets : i < x.u /\ i >= c => o[x.b[i]] = m[x.b[i]]
  <2>1. \A i, j \in Offsets : i < x.u /\ j < x.u /\ x.b[i] = x.b[j] => i = j
    BY DEF Whole, Apart
  <2> SUFFICES ASSUME NEW i \in Offsets, i < x.u, i >= c PROVE o[x.b[i]] = m[x.b[i]]
    OBVIOUS
  <2>2. \A j \in Offsets : j < c => j < x.u /\ j # i
    BY <1>3, Apartness
  <2>3. x.b[i] \in Slots /\ \A j \in Offsets : j < c => x.b[j] # x.b[i]
    BY <2>1, <2>2, Apartness
  <2> QED BY <2>3
<1>5. \A d \in x.t : o[d] = m[d]
  <2>1. \A j \in Offsets : j < c => x.b[j] \notin x.t
    BY <1>3, Apartness
  <2> QED BY <2>1, Apartness
<1>6. \A i \in Offsets : i < y.u => o[y.b[i]] = (g + c) + i + 1
  <2> SUFFICES ASSUME NEW i \in Offsets, i < y.u PROVE o[y.b[i]] = (g + c) + i + 1
    OBVIOUS
  <2>1. i + c < x.u /\ i + c >= c /\ i + c \in Offsets /\ i + c < RingSize
    BY <1>1, <1>3, Apartness, IndexNat DEF Offsets
  <2>2. y.b[i] = x.b[i + c] /\ m[x.b[i + c]] = g + (i + c) + 1
    BY <1>2, <2>1 DEF RxData
  <2>3. g + (i + c) + 1 = (g + c) + i + 1
    BY <1>3, Apartness
  <2> QED BY <1>4, <2>1, <2>2, <2>3
<1>7. \A d \in y.t : o[d] = (g + c) + y.u + 1
  <2>1. (g + c) + y.u + 1 = g + x.u + 1
    BY <1>1, <1>3, Apartness
  <2> QED BY <1>1, <1>5, <2>1 DEF RxData
<1>8. y.k - y.u <= 1
  BY <1>1, <1>3, Apartness DEF RxData
<1> QED BY <1>6, <1>7, <1>8 DEF RxData, y

\* Packets from the VPN stay numbered when the kernel takes one,
LEMMA TakenTx ==
  ASSUME NEW x, Whole(x), x.k < x.a, NEW m, NEW g \in Nat, TxData(x, m, g)
  PROVE  TxData(Taken(x), m, g + 1) /\ m[x.n[x.k]] = g + 1
<1>1. x.k \in Offsets
  BY Apartness, IndexNat DEF Offsets
<1>2. m[x.n[x.k]] = g + 1
  BY <1>1, Apartness DEF TxData
<1>3. ASSUME NEW i \in Offsets, i >= x.k + 1, i < x.a
      PROVE  m[x.n[i]] = (g + 1) + (i - (x.k + 1)) + 1
  <2>1. i >= x.k /\ (g + 1) + (i - (x.k + 1)) + 1 = g + (i - x.k) + 1
    BY <1>3, Apartness
  <2> QED BY <1>3, <2>1 DEF TxData
<1> QED BY <1>2, <1>3 DEF TxData, Taken

\* gives it back,
LEMMA GivenTx ==
  ASSUME NEW x, NEW d, NEW m, NEW g, TxData(x, m, g)
  PROVE  TxData(Given(x, d), m, g)
  BY DEF TxData, Given

\* when the loop makes one available,
LEMMA PublishedTx ==
  ASSUME NEW x, Whole(x), x.a < RingSize, NEW m, NEW o, NEW g \in Nat, TxData(x, m, g),
         o[x.n[x.a]] = g + (x.a - x.k) + 1, \A d \in Slots : d # x.n[x.a] => o[d] = m[d]
  PROVE  TxData(Published(x), o, g)
<1>1. x.a \in Offsets
  BY Apartness, IndexNat DEF Offsets
<1>2. ASSUME NEW i \in Offsets, i >= x.k, i < x.a + 1
      PROVE  o[x.n[i]] = g + (i - x.k) + 1
  <2>1. CASE i = x.a
    BY <2>1
  <2>2. CASE i # x.a
    <3>1. i < x.a
      BY <1>2, <2>2, Apartness
    <3>2. x.n[i] # x.n[x.a] /\ x.n[i] \in Slots
      BY <1>1, <1>2, <2>2, Apartness
    <3> QED BY <1>2, <3>1, <3>2 DEF TxData
  <2> QED BY <2>1, <2>2
<1> QED BY <1>2 DEF TxData, Published

\* and when it has looked at c of them.
LEMMA ReusedTx ==
  ASSUME NEW x, Whole(x), NEW c \in 0 .. x.u, NEW m, NEW o, NEW g \in Nat, TxData(x, m, g),
         \A d \in Slots : (\A i \in Offsets : i < c => x.b[i] # d) => o[d] = m[d]
  PROVE  TxData(Reused(x, c), o, g)
<1> DEFINE y == Reused(x, c)
<1>1. y.k = x.k - c /\ y.a = x.a - c
  BY DEF Reused
<1>2. \A i \in Offsets : y.n[i] = (IF i + c < RingSize THEN x.n[i + c] ELSE x.b[i + c - RingSize])
  BY ReusedIs
<1> HIDE DEF y
<1>3. c \in Nat /\ c <= x.u
  BY Apartness
<1>4. ASSUME NEW i \in Offsets, i >= y.k, i < y.a
      PROVE  o[y.n[i]] = g + (i - y.k) + 1
  <2>1. i + c < x.a /\ i + c >= x.k /\ i + c \in Offsets /\ i + c < RingSize
        /\ g + ((i + c) - x.k) + 1 = g + (i - y.k) + 1
    BY <1>1, <1>3, <1>4, Apartness, IndexNat DEF Offsets
  <2>2. y.n[i] = x.n[i + c]
    BY <1>2, <2>1
  <2>3. m[x.n[i + c]] = g + ((i + c) - x.k) + 1
    BY <2>1 DEF TxData
  <2>4. \A j \in Offsets : j < c => x.b[j] # x.n[i + c]
    BY <1>3, <2>1, Apartness
  <2>5. o[x.n[i + c]] = m[x.n[i + c]]
    BY <2>1, <2>4, Apartness
  <2> QED BY <2>1, <2>2, <2>3, <2>5
<1> QED BY <1>4 DEF TxData, y

\* One packet is put into a descriptor.
LEMMA DescIs ==
  ASSUME Typed, NEW r \in Rings, NEW d \in Slots, NEW v \in Int,
         desc' = [desc EXCEPT ![r][d] = v]
  PROVE  /\ desc' \in [Rings -> [Slots -> Int]] /\ desc'[r][d] = v
         /\ \A e \in Slots : e # d => desc'[r][e] = desc[r][e]
         /\ \A q \in Rings : q # r => desc'[q] = desc[q]
<1> DEFINE f == [desc[r] EXCEPT ![d] = v]
<1>1. desc \in [Rings -> [Slots -> Int]] /\ desc[r] \in [Slots -> Int]
  BY DEF Typed
<1>2. f \in [Slots -> Int] /\ f[d] = v /\ \A e \in Slots : e # d => f[e] = desc[r][e]
  BY <1>1
<1>3. desc' = [desc EXCEPT ![r] = f]
  OBVIOUS
<1> HIDE DEF f
<1> QED BY <1>1, <1>2, <1>3

\* The next packet is written ...
LEMMA OutGrows ==
  ASSUME NEW w \in Seq(Int), NEW g \in Nat, NEW D, Increasing(w), FirstOf(Elems(w) \cup D, g),
         NEW v, v = Append(w, g + 1)
  PROVE  v \in Seq(Int) /\ Increasing(v) /\ FirstOf(Elems(v) \cup D, g + 1)
<1>1. /\ v \in Seq(Int) /\ Len(v) = Len(w) + 1 /\ Len(w) \in Nat
      /\ \A i \in 1 .. Len(w) : v[i] = w[i] /\ w[i] \in Int
      /\ v[Len(w) + 1] = g + 1
  OBVIOUS
<1>2. \A i \in 1 .. Len(w) : w[i] < g + 1
  <2>1. \A i \in 1 .. Len(w) : w[i] \in 1 .. g
    BY DEF Elems, FirstOf
  <2> QED BY <2>1
<1>3. \A i \in 1 .. Len(v) : i \in 1 .. Len(w) \/ i = Len(w) + 1
  BY <1>1
<1>4. ASSUME NEW i \in 1 .. Len(v), NEW j \in 1 .. Len(v), i < j PROVE v[i] < v[j]
  <2>1. i \in 1 .. Len(w)
    BY <1>1, <1>3, <1>4
  <2> QED BY <1>1, <1>2, <1>3, <1>4, <2>1 DEF Increasing
<1>5. Elems(v) = Elems(w) \cup {g + 1}
  <2>1. \A i \in 1 .. Len(w) : i \in 1 .. Len(v)
    BY <1>1
  <2>2. Len(w) + 1 \in 1 .. Len(v)
    BY <1>1
  <2> QED BY <1>1, <1>3, <2>1, <2>2 DEF Elems
<1>6. 1 .. g + 1 = (1 .. g) \cup {g + 1}
  OBVIOUS
<1>7. FirstOf(Elems(v) \cup D, g + 1)
  BY <1>5, <1>6 DEF FirstOf
<1> QED BY <1>1, <1>4, <1>7 DEF Increasing

\* ... or lost.
LEMMA LostGrows ==
  ASSUME NEW W, NEW g \in Nat, NEW D, FirstOf(W \cup D, g)
  PROVE  FirstOf(W \cup (D \cup {g + 1}), g + 1)
<1>1. 1 .. g + 1 = (1 .. g) \cup {g + 1}
  OBVIOUS
<1> QED BY <1>1 DEF FirstOf

\* The other ring is not disturbed.
LEMMA OrderedBy ==
  ASSUME Ordered, NEW r \in Rings, Whole(LineOf(r)'), HeldIn(LineOf(r)', desc'[r]),
         \A q \in Rings : q # r => LineOf(q)' = LineOf(q) /\ desc'[q] = desc[q]
  PROVE  Ordered'
  BY DEF Ordered

\* What the invariant says while there is a device.
LEMMA VhostIs ==
  ASSUME TunInv, device # "none"
  PROVE  /\ Queues /\ InSequence /\ Typed /\ Ordered /\ Rx /\ Tx
         /\ \A r \in Rings : Whole(LineOf(r)) /\ HeldIn(LineOf(r), desc[r])
         /\ "tx" \in Rings /\ "rx" \in Rings /\ "rx" # "tx"
  BY DEF TunInv, Ordered, Rings

\* The kernel sends a packet to the device's users.
LEMMA TakesTx ==
  ASSUME TunInv, Take("tx")
  PROVE  TunInv'
<1> DEFINE x == LineOf("tx")
           m == desc["tx"]
           d == avail["tx"].ring[Slot(kernel["tx"].avail)]
<1>1. /\ device = "vhost" /\ kernel["tx"].avail # avail["tx"].idx
      /\ written' = Append(written, m[d])
      /\ kernel' = [kernel EXCEPT !["tx"].avail = Up(@), !["tx"].taken = @ \cup {d}]
      /\ UNCHANGED <<desc, tunq, load, received, asked, stalls, avail, used, seen_used, kick_fd,
                     call_fd, incoming, outgoing, sent, dropped, loopVars>>
  BY DEF Take
<1>2. /\ Queues /\ InSequence /\ Typed /\ Ordered /\ Rx /\ Tx /\ Whole(x) /\ HeldIn(x, m)
      /\ "tx" \in Rings /\ "rx" \in Rings
  BY <1>1, VhostIs
<1>3. /\ kernel' \in [Rings -> Kernels]
      /\ LineOf("tx")' = Taken(x) /\ x.k < x.a /\ d = x.n[x.k]
      /\ \A q \in Rings : q # "tx" => LineOf(q)' = LineOf(q)
  BY <1>1, <1>2, TakeLine
<1> DEFINE g == Gone
<1>4. g \in Nat /\ TxData(x, m, g) /\ g = received - Len(incoming) - (x.a - x.k)
      /\ FirstOf(Finished, g)
  BY <1>2 DEF Tx, Gone, Waiting
<1> HIDE DEF x, m, d, g
<1>5. TxData(Taken(x), m, g + 1) /\ m[d] = g + 1
  BY <1>2, <1>3, <1>4, TakenTx
<1>6. /\ Taken(x).k = x.k + 1 /\ Taken(x).a = x.a
  BY DEF Taken
<1>7. x.k \in Nat /\ x.a \in Nat
  BY <1>2, Apartness
<1>8. received \in Nat /\ Len(incoming) \in Nat
  BY <1>2 DEF Queues
<1>9. Waiting' = x.a - (x.k + 1) /\ Gone' = g + 1
  <2>1. Waiting' = x.a - (x.k + 1)
    BY <1>3, <1>6 DEF Waiting
  <2>2. Gone' = received - Len(incoming) - Waiting'
    BY <1>1 DEF Gone
  <2>3. g = received - Len(incoming) - (x.a - x.k)
    BY <1>4
  <2>4. Gone' = received - Len(incoming) - (x.a - (x.k + 1))
    BY <2>1, <2>2
  <2>5. \A c, l, a, k \in Nat : c - l - (a - (k + 1)) = (c - l - (a - k)) + 1
    OBVIOUS
  <2> QED BY <1>7, <1>8, <2>1, <2>3, <2>4, <2>5
<1>10. written' \in Seq(Int) /\ Increasing(written') /\ FirstOf(Finished', g + 1)
  <2>1. /\ written \in Seq(Int) /\ Increasing(written) /\ FirstOf(Elems(written) \cup dropped, g)
        /\ g \in Nat
    BY <1>2, <1>4 DEF Queues, InSequence, Finished
  <2>2. written' = Append(written, g + 1)
    BY <1>1, <1>5
  <2>3. Finished' = Elems(written') \cup dropped
    BY <1>1 DEF Finished
  <2>4. /\ written' \in Seq(Int) /\ Increasing(written')
        /\ FirstOf(Elems(written') \cup dropped, g + 1)
    BY <2>1, <2>2, OutGrows
  <2> QED BY <2>3, <2>4
<1>11. Queues'
  BY <1>1, <1>2, <1>10 DEF Queues
<1>12. InSequence'
  <2>1. g + 1 \in 0 .. received
    BY <1>3, <1>4, <1>7, <1>8
  <2> QED BY <1>1, <1>2, <1>10, <2>1 DEF InSequence
<1>13. Ordered'
  <2>1. Whole(Taken(x)) /\ HeldIn(Taken(x), m)
    BY <1>2, <1>3, <1>4, <1>5, TakenWhole, TakenHeld
  <2> QED BY <1>1, <1>2, <1>3, <2>1, OrderedBy DEF m
<1>14. Typed'
  BY <1>1, <1>2, <1>3 DEF Typed
<1>15. Rx'
  <2>1. LineOf("rx")' = LineOf("rx")
    BY <1>2, <1>3
  <2> QED BY <1>1, <1>2, <2>1 DEF Rx, RxQueue, Got
<1>16. Tx'
  BY <1>1, <1>2, <1>3, <1>4, <1>5, <1>9, <1>10 DEF Tx, m
<1>17. DevicePlaces' /\ Idle'
  BY <1>1 DEF TunInv, DevicePlaces, Idle, loopVars
<1> QED BY <1>11, <1>12, <1>13, <1>14, <1>15, <1>16, <1>17 DEF TunInv

\* The kernel fills a buffer.
LEMMA TakesRx ==
  ASSUME TunInv, Take("rx")
  PROVE  TunInv'
<1> DEFINE x == LineOf("rx")
           m == desc["rx"]
           d == avail["rx"].ring[Slot(kernel["rx"].avail)]
           g == Got
<1>1. /\ device = "vhost" /\ kernel["rx"].avail # avail["rx"].idx
      /\ tunq # <<>> /\ kernel["rx"].taken = {} /\ tunq' = Tail(tunq)
      /\ desc' = [desc EXCEPT !["rx"][d] = Head(tunq)]
      /\ kernel' = [kernel EXCEPT !["rx"].avail = Up(@), !["rx"].taken = @ \cup {d}]
      /\ UNCHANGED <<written, load, received, asked, stalls, avail, used, seen_used, kick_fd,
                     call_fd, incoming, outgoing, sent, dropped, loopVars>>
  BY DEF Take
<1>2. /\ Queues /\ InSequence /\ Typed /\ Ordered /\ Rx /\ Tx /\ Whole(x) /\ HeldIn(x, m)
      /\ "tx" \in Rings /\ "rx" \in Rings
  BY <1>1, VhostIs
<1>3. /\ kernel' \in [Rings -> Kernels]
      /\ LineOf("rx")' = Taken(x) /\ x.k < x.a /\ d = x.n[x.k] /\ d \in Slots
      /\ \A q \in Rings : q # "rx" => LineOf(q)' = LineOf(q)
  BY <1>1, <1>2, TakeLine
<1>4. RxData(x, m, g) /\ RxQueue(x, g) /\ g \in Nat
  BY <1>2 DEF Rx, Got, Queues
<1>5. x.t = {}
  BY <1>1, <1>2, LineIs
<1>6. g' = g
  BY <1>1 DEF Got
<1> HIDE DEF x, m, d, g
<1>7. /\ tunq \in Seq(Int) /\ Head(tunq) \in Int /\ Tail(tunq) \in Seq(Int)
      /\ Len(tunq) \in Nat \ {0} /\ Len(Tail(tunq)) = Len(tunq) - 1 /\ Head(tunq) = tunq[1]
      /\ \A i \in 1 .. Len(tunq) - 1 : Tail(tunq)[i] = tunq[i + 1]
  <2>1. tunq \in Seq(Int) /\ tunq # <<>>
    BY <1>1, <1>2 DEF Queues
  <2> QED BY <2>1
<1>8. Head(tunq) = g + x.k + 1
  BY <1>4, <1>7 DEF RxQueue
<1>9. /\ desc' \in [Rings -> [Slots -> Int]] /\ desc'["rx"][d] = g + x.k + 1
      /\ \A e \in Slots : e # d => desc'["rx"][e] = m[e]
      /\ \A q \in Rings : q # "rx" => desc'[q] = desc[q]
  <2>1. /\ desc' \in [Rings -> [Slots -> Int]] /\ desc'["rx"][d] = Head(tunq)
        /\ \A e \in Slots : e # d => desc'["rx"][e] = desc["rx"][e]
        /\ \A q \in Rings : q # "rx" => desc'[q] = desc[q]
    <3>1. /\ Typed /\ "rx" \in Rings /\ d \in Slots /\ Head(tunq) \in Int
          /\ desc' = [desc EXCEPT !["rx"][d] = Head(tunq)]
      BY <1>1, <1>2, <1>3, <1>7
    <3> QED BY <3>1, DescIs
  <2> QED BY <1>8, <2>1 DEF m
<1>10. x.k \in Nat /\ g + x.k + 1 # 0
  BY <1>2, <1>4, Apartness
<1>11. RxData(Taken(x), desc'["rx"], g)
  BY <1>2, <1>3, <1>4, <1>5, <1>9, TakenRx
<1>12. RxQueue(x, g) /\ Taken(x).k = x.k + 1
  BY <1>4 DEF Taken
<1>13. Rx'
  <2>1. asked' = g + (x.k + 1) + Len(tunq')
    BY <1>1, <1>4, <1>7, <1>10 DEF RxQueue
  <2>2. ASSUME NEW i \in 1 .. Len(tunq') PROVE tunq'[i] = g + (x.k + 1) + i
    <3>1. tunq'[i] = tunq[i + 1] /\ i + 1 \in 1 .. Len(tunq) /\ i \in Nat
      BY <1>1, <1>7
    <3>2. tunq[i + 1] = g + x.k + (i + 1)
      BY <1>4, <3>1 DEF RxQueue
    <3>3. g + x.k + (i + 1) = g + (x.k + 1) + i
      BY <1>4, <1>10, <3>1
    <3> QED BY <3>1, <3>2, <3>3
  <2> QED BY <1>3, <1>6, <1>11, <1>12, <2>1, <2>2 DEF Rx, RxQueue, g
<1>14. Ordered'
  <2>1. Whole(Taken(x)) /\ HeldIn(Taken(x), desc'["rx"])
    BY <1>2, <1>3, <1>9, <1>10, TakenWhole, TakenHeld
  <2> QED BY <1>2, <1>3, <1>9, <2>1, OrderedBy
<1>15. Queues'
  BY <1>1, <1>2, <1>7 DEF Queues
<1>16. InSequence'
  BY <1>1, <1>2 DEF InSequence, Finished
<1>17. Typed'
  BY <1>1, <1>2, <1>3, <1>9 DEF Typed
<1>18. Tx'
  <2>1. LineOf("tx")' = LineOf("tx") /\ desc'["tx"] = desc["tx"]
    BY <1>2, <1>3, <1>9
  <2> QED BY <1>1, <1>2, <2>1 DEF Tx, Gone, Waiting, Finished
<1>19. DevicePlaces' /\ Idle'
  BY <1>1 DEF TunInv, DevicePlaces, Idle, loopVars
<1> QED BY <1>13, <1>14, <1>15, <1>16, <1>17, <1>18, <1>19 DEF TunInv

\* The kernel gives a descriptor back.
LEMMA Gives ==
  ASSUME TunInv, NEW r \in Rings, GiveBack(r)
  PROVE  TunInv'
<1> DEFINE x == LineOf(r)
           m == desc[r]
<1>1. PICK d \in kernel[r].taken :
        /\ used' = [used EXCEPT ![r].ring[Slot(used[r].idx)] = d, ![r].idx = Up(@)]
        /\ kernel' = [kernel EXCEPT ![r].taken = @ \ {d}]
  BY DEF GiveBack
<1>2. /\ device = "vhost"
      /\ UNCHANGED <<envVars, desc, avail, seen_used, kick_fd, call_fd, queueVars, loopVars>>
  BY DEF GiveBack
<1>3. /\ Queues /\ InSequence /\ Typed /\ Ordered /\ Rx /\ Tx /\ Whole(x) /\ HeldIn(x, m)
      /\ "tx" \in Rings /\ "rx" \in Rings /\ "rx" # "tx"
  BY <1>2, VhostIs
<1>4. /\ kernel' \in [Rings -> Kernels] /\ used' \in [Rings -> Useds]
      /\ LineOf(r)' = Given(x, d) /\ d \in x.t
      /\ \A q \in Rings : q # r => LineOf(q)' = LineOf(q)
  BY <1>1, <1>2, <1>3, GiveLine
<1>5. Ordered'
  <2> HIDE DEF x
  <2>1. Whole(Given(x, d)) /\ HeldIn(Given(x, d), m)
    BY <1>3, <1>4, GivenWhole, GivenHeld
  <2> QED BY <1>2, <1>3, <1>4, <2>1, OrderedBy
<1>6. Typed'
  BY <1>2, <1>3, <1>4 DEF Typed
<1>7. Got' = Got /\ Got \in Nat
  BY <1>2, <1>3 DEF Got, queueVars, Queues
<1>8. Rx'
  <2>1. CASE r = "rx"
    <3>1. RxData(x, m, Got) /\ RxQueue(x, Got)
      BY <1>3, <2>1 DEF Rx
    <3> HIDE DEF x, m
    <3>2. RxData(Given(x, d), m, Got) /\ RxQueue(Given(x, d), Got)
      BY <1>3, <1>4, <1>7, <3>1, GivenRx DEF RxQueue, Given
    <3> QED BY <1>2, <1>4, <1>7, <2>1, <3>2 DEF Rx, RxQueue, envVars, m
  <2>2. CASE r # "rx"
    <3>1. LineOf("rx")' = LineOf("rx")
      BY <1>3, <1>4, <2>2
    <3> QED BY <1>2, <1>3, <1>7, <3>1 DEF Rx, RxQueue, envVars
  <2> QED BY <2>1, <2>2
<1>9. LineOf("tx")'.k = LineOf("tx").k /\ LineOf("tx")'.a = LineOf("tx").a
      /\ LineOf("tx")'.n = LineOf("tx").n
  <2>1. CASE r = "tx"
    BY <1>4, <2>1 DEF Given
  <2>2. CASE r # "tx"
    BY <1>3, <1>4, <2>2
  <2> QED BY <2>1, <2>2
<1>10. Tx'
  <2>1. Gone' = Gone
    BY <1>2, <1>9 DEF Gone, Waiting, envVars, queueVars
  <2>2. TxData(LineOf("tx"), desc["tx"], Gone)
    BY <1>3 DEF Tx
  <2>3. TxData(LineOf("tx")', desc["tx"], Gone)
    BY <1>9, <2>2 DEF TxData
  <2> QED BY <1>2, <1>3, <2>1, <2>3 DEF Tx, Finished, envVars, queueVars
<1>11. Queues'
  BY <1>2, <1>3 DEF Queues, envVars, queueVars
<1>12. InSequence'
  BY <1>2, <1>3 DEF InSequence, Finished, envVars, queueVars
<1>13. DevicePlaces' /\ Idle'
  BY <1>2 DEF TunInv, DevicePlaces, Idle, loopVars
<1> QED BY <1>5, <1>6, <1>8, <1>10, <1>11, <1>12, <1>13 DEF TunInv

\* What two sequences make.
LEMMA Joined ==
  ASSUME NEW w \in Seq(Int), NEW q \in Seq(Int), NEW v, v = w \o q
  PROVE  /\ v \in Seq(Int) /\ Len(v) = Len(w) + Len(q) /\ Len(w) \in Nat
         /\ \A i \in 1 .. Len(w) : v[i] = w[i]
         /\ \A i \in 1 .. Len(q) : v[Len(w) + i] = q[i]
<1>1. v \in Seq(Int) /\ Len(w) \in Nat /\ Len(q) \in Nat
  OBVIOUS
<1>2. Len(v) = Len(w) + Len(q)
  OBVIOUS
<1>3. \A i \in 1 .. Len(w) : v[i] = w[i]
  BY <1>1, <1>2
<1>5. ASSUME NEW i \in 1 .. Len(q) PROVE v[Len(w) + i] = q[i]
  <2>1. Len(w) + i \in 1 .. Len(w) + Len(q) /\ Len(w) + i > Len(w) /\ (Len(w) + i) - Len(w) = i
    BY <1>1
  <2> QED BY <1>1, <1>2, <2>1
<1> QED BY <1>1, <1>2, <1>3, <1>5

\* The same, where the second one is given by its elements.
LEMMA Extended ==
  ASSUME NEW w \in Seq(Int), NEW c \in Nat, NEW q \in [1 .. c -> Int], NEW v, v = w \o q
  PROVE  /\ v \in Seq(Int) /\ Len(v) = Len(w) + c /\ Len(w) \in Nat
         /\ \A i \in 1 .. Len(w) : v[i] = w[i]
         /\ \A i \in 1 .. c : v[Len(w) + i] = q[i]
<1>1. q \in Seq(Int) /\ Len(q) = c
  OBVIOUS
<1>2. v \in Seq(Int) /\ Len(v) = Len(w) + Len(q) /\ Len(w) \in Nat
  BY <1>1, Joined
<1>3. \A i \in 1 .. Len(w) : v[i] = w[i]
  BY <1>1, Joined
<1>4. \A i \in 1 .. Len(q) : v[Len(w) + i] = q[i]
  BY <1>1, Joined
<1> QED BY <1>1, <1>2, <1>3, <1>4

\* The smaller of two numbers.
LEMMA MinTwo ==
  ASSUME NEW a \in Int, NEW b \in Int
  PROVE  Min({a, b}) \in {a, b} /\ Min({a, b}) <= a /\ Min({a, b}) <= b
<1>1. \E x \in {a, b} : \A y \in {a, b} : x <= y
  <2>1. CASE a <= b
    BY <2>1
  <2>2. CASE b <= a
    BY <2>2
  <2> QED BY <2>1, <2>2
<1>2. Min({a, b}) \in {a, b} /\ \A y \in {a, b} : Min({a, b}) <= y
  BY <1>1 DEF Min
<1> QED BY <1>2

\* The numbers go on where they stopped.
LEMMA NumbersGoOn ==
  ASSUME NEW w \in Seq(Int), NEW s \in Int, \A i \in 1 .. Len(w) : w[i] = s + i,
         NEW c \in Nat, NEW q \in [1 .. c -> Int], \A i \in 1 .. c : q[i] = s + Len(w) + i,
         NEW v, v = w \o q
  PROVE  \A i \in 1 .. Len(v) : v[i] = s + i
<1>0. Len(v) = Len(w) + c /\ Len(w) \in Nat
  BY Extended
<1>1. /\ Len(v) = Len(w) + c /\ Len(w) \in Nat
      /\ \A i \in 1 .. Len(w) : v[i] = w[i]
      /\ \A i \in 1 .. c : v[Len(w) + i] = q[i]
  BY <1>0, Extended
<1> SUFFICES ASSUME NEW i \in 1 .. Len(v) PROVE v[i] = s + i
  OBVIOUS
<1>2. CASE i <= Len(w)
  <2>1. i \in 1 .. Len(w)
    BY <1>1, <1>2
  <2> QED BY <1>1, <2>1
<1>3. CASE i > Len(w)
  <2> DEFINE j == i - Len(w)
  <2>1. j \in 1 .. c /\ i = Len(w) + j
    BY <1>1, <1>3
  <2>2. v[i] = q[j] /\ q[j] = s + Len(w) + j
    BY <1>1, <2>1
  <2>3. s + Len(w) + j = s + i
    BY <1>1, <2>1
  <2> QED BY <2>2, <2>3
<1> QED BY <1>1, <1>2, <1>3

\* The loop takes what the kernel has given back.
LEMMA Reuses ==
  ASSUME TunInv, device = "vhost", NEW r \in Rings, r = "rx" => HasRoom, TakeUsed(r), DevicePlaces'
  PROVE  TunInv'
<1> DEFINE x == LineOf(r)
           m == desc[r]
           pending == (used[r].idx - seen_used[r]) % IndexSpan
           c == IF r = "tx" THEN pending ELSE Min({pending, max_qlen - Len(outgoing)})
           back == BackOf(r, c)
           freed == {back[i] : i \in 1 .. c}
           o == [d \in Slots |-> IF d \in freed THEN 0 ELSE m[d]]
           f == RingAfter(r, c)
           q == [i \in 1 .. c |-> m[back[i]]]
<1>1. /\ desc' = [desc EXCEPT ![r] = o]
      /\ avail' = [avail EXCEPT ![r].ring = f]
      /\ seen_used' = [seen_used EXCEPT ![r] = (@ + c) % IndexSpan]
      /\ UNCHANGED <<used, kernel>>
      /\ UNCHANGED <<envVars, incoming, sent, written, dropped, device>>
      /\ r = "rx" => outgoing' = outgoing \o q
      /\ r # "rx" => outgoing' = outgoing
  BY DEF TakeUsed, BackOf, RingAfter
<1>2. /\ Queues /\ InSequence /\ Typed /\ Ordered /\ Rx /\ Tx /\ Whole(x) /\ HeldIn(x, m)
      /\ "tx" \in Rings /\ "rx" \in Rings /\ "rx" # "tx"
  BY VhostIs
<1>3. pending = x.u
  BY <1>2, LineIs DEF Ahead
<1>4. /\ c \in 0 .. x.u
      /\ r = "rx" => Len(outgoing) + c <= max_qlen
  <2>1. x.u \in Nat /\ Len(outgoing) \in Nat /\ max_qlen \in Nat
    BY <1>2, Apartness, TunAssumption DEF Queues, TunAssumption
  <2>2. CASE r = "tx"
    BY <1>2, <1>3, <2>1, <2>2
  <2>3. CASE r # "tx"
    <3>1. r = "rx"
      BY <2>3 DEF Rings
    <3> DEFINE room == max_qlen - Len(outgoing)
    <3>2. room \in Nat
      BY <2>1, <3>1 DEF HasRoom
    <3>3. c = Min({x.u, room})
      BY <1>3, <2>3
    <3>5. x.u \in Int /\ room \in Int
      BY <2>1, <3>2
    <3> HIDE DEF room, c, x
    <3>4. c \in {x.u, room} /\ c <= x.u /\ c <= room
      BY <3>3, <3>5, MinTwo
    <3> QED BY <2>1, <3>2, <3>4 DEF room
  <2> QED BY <2>2, <2>3
<1> HIDE DEF c
<1>5. /\ avail' \in [Rings -> Avails] /\ seen_used' \in [Rings -> Index]
      /\ LineOf(r)' = Reused(x, c)
      /\ \A i \in 1 .. c : i - 1 \in Offsets /\ back[i] = x.b[i - 1]
      /\ \A p \in Rings : p # r => LineOf(p)' = LineOf(p)
  <2>1. Typed /\ Whole(LineOf(r)) /\ c \in 0 .. LineOf(r).u
    BY <1>2, <1>4
  <2> QED BY <1>1, <2>1, ReuseLine
<1>6. desc[r] \in [Slots -> Int] /\ desc \in [Rings -> [Slots -> Int]]
  BY <1>2 DEF Typed
<1>7. \A i \in Offsets : x.b[i] \in Slots
  BY <1>2, Apartness
<1>8. c \in Nat
  BY <1>2, <1>4, Apartness
<1> HIDE DEF back, x, m, f
<1>9. o \in [Slots -> Int]
  BY <1>6 DEF m
<1>10. \A d \in Slots : o[d] = IF d \in freed THEN 0 ELSE m[d]
  OBVIOUS
<1>11. \A i \in Offsets : i < c => x.b[i] \in freed
  <2> SUFFICES ASSUME NEW i \in Offsets, i < c PROVE x.b[i] \in freed
    OBVIOUS
  <2>1. i + 1 \in 1 .. c /\ (i + 1) - 1 = i
    BY <1>8, IndexNat DEF Offsets
  <2>2. back[i + 1] = x.b[i]
    BY <1>5, <2>1
  <2> QED BY <2>1, <2>2
<1>12. \A d \in freed : \E i \in Offsets : i < c /\ x.b[i] = d
  <2> SUFFICES ASSUME NEW j \in 1 .. c PROVE \E i \in Offsets : i < c /\ x.b[i] = back[j]
    OBVIOUS
  <2>1. j - 1 \in Offsets /\ x.b[j - 1] = back[j]
    BY <1>5
  <2>2. j - 1 < c
    BY <1>8
  <2> QED BY <2>1, <2>2
<1>13. q \in [1 .. c -> Int] /\ \A i \in 1 .. c : q[i] = m[x.b[i - 1]]
  <2>1. \A i \in 1 .. c : m[back[i]] = m[x.b[i - 1]] /\ m[back[i]] \in Int
    BY <1>5, <1>6, <1>7 DEF m
  <2> QED BY <2>1
<1> HIDE DEF freed, o, q
<1>14. /\ desc' \in [Rings -> [Slots -> Int]] /\ desc'[r] = o
       /\ \A p \in Rings : p # r => desc'[p] = desc[p]
  BY <1>1, <1>6, <1>9
<1>15. /\ \A i \in Offsets : i < c => o[x.b[i]] = 0
       /\ \A d \in Slots : (\A i \in Offsets : i < c => x.b[i] # d) => o[d] = m[d]
  BY <1>7, <1>10, <1>11, <1>12
<1>16. Ordered'
  <2>1. Whole(x) /\ HeldIn(x, m) /\ c \in 0 .. x.u
    BY <1>2, <1>4
  <2>2. Whole(Reused(x, c))
    BY <2>1, ReusedWhole
  <2>3. HeldIn(Reused(x, c), o)
    BY <1>15, <2>1, ReusedHeld
  <2> QED BY <1>2, <1>5, <1>14, <2>2, <2>3, OrderedBy
<1>17. Typed'
  BY <1>1, <1>2, <1>5, <1>14 DEF Typed
<1>18. /\ sent \in Seq(Int) /\ Len(sent) \in Nat /\ outgoing \in Seq(Int) /\ Len(outgoing) \in Nat
       /\ Got \in Nat /\ Len(sent) \in Int
  BY <1>2 DEF Queues, Got
<1>19. CASE r = "rx"
  <2>1. RxData(x, m, Got) /\ RxQueue(x, Got)
    BY <1>2, <1>19 DEF Rx, x, m
  <2>2. \A i \in 1 .. c : q[i] = Len(sent) + Len(outgoing) + i
    <3> SUFFICES ASSUME NEW i \in 1 .. c PROVE q[i] = Len(sent) + Len(outgoing) + i
      OBVIOUS
    <3>1. i - 1 \in Offsets /\ i - 1 < x.u
      <4>1. x.u \in Nat /\ c <= x.u
        BY <1>2, <1>4, Apartness
      <4> QED BY <1>5, <1>8, <4>1
    <3>2. m[x.b[i - 1]] = Got + (i - 1) + 1
      BY <2>1, <3>1 DEF RxData
    <3> QED BY <1>13, <1>18, <3>2 DEF Got
  <2>3. outgoing' = outgoing \o q
    BY <1>1, <1>19
  <2>4. /\ outgoing' \in Seq(Int) /\ Len(outgoing') = Len(outgoing) + c
    BY <1>8, <1>13, <1>18, <2>3, Extended
  <2>5. \A i \in 1 .. Len(outgoing') : outgoing'[i] = Len(sent) + i
    <3>1. \A i \in 1 .. Len(outgoing) : outgoing[i] = Len(sent) + i
      BY <1>2 DEF InSequence
    <3> QED BY <1>8, <1>13, <1>18, <2>2, <2>3, <3>1, NumbersGoOn
  <2>6. Got' = Got + c
    BY <1>1, <1>8, <1>18, <2>4 DEF Got
  <2>7. Queues'
    BY <1>1, <1>2, <1>4, <1>19, <2>4 DEF Queues, envVars
  <2>8. InSequence'
    BY <1>1, <1>2, <2>5 DEF InSequence, Finished, envVars
  <2>9. RxData(Reused(x, c), o, Got + c)
    BY <1>2, <1>4, <1>15, <1>18, <2>1, ReusedRx
  <2>10. RxQueue(Reused(x, c), Got + c)
    <3>1. Reused(x, c).k = x.k - c /\ x.k \in Nat
      BY <1>2, Apartness DEF Reused
    <3>2. (Got + c) + (x.k - c) = Got + x.k
      BY <1>8, <1>18, <3>1
    <3> QED BY <2>1, <3>1, <3>2 DEF RxQueue
  <2>11. Rx'
    BY <1>1, <1>5, <1>14, <1>19, <2>6, <2>9, <2>10 DEF Rx, RxQueue, envVars
  <2>12. LineOf("tx")' = LineOf("tx") /\ desc'["tx"] = desc["tx"]
    BY <1>2, <1>5, <1>14, <1>19
  <2>13. Tx'
    BY <1>1, <1>2, <2>12 DEF Tx, Gone, Waiting, Finished, envVars
  <2>14. Idle'
    BY <1>1 DEF Idle
  <2> QED BY <1>16, <1>17, <2>7, <2>8, <2>11, <2>13, <2>14 DEF TunInv
<1>20. CASE r # "rx"
  <2>0. r = "tx"
    BY <1>20 DEF Rings
  <2>1. TxData(x, m, Gone) /\ Gone \in Nat
    BY <1>2, <2>0 DEF Tx, x, m
  <2>2. outgoing' = outgoing
    BY <1>1, <1>20
  <2>3. TxData(Reused(x, c), o, Gone)
    BY <1>2, <1>4, <1>15, <2>1, ReusedTx
  <2>4. Waiting' = Waiting
    <3>1. Reused(x, c).k = x.k - c /\ Reused(x, c).a = x.a - c /\ x.k \in Nat /\ x.a \in Nat
      BY <1>2, Apartness DEF Reused
    <3>2. (x.a - c) - (x.k - c) = x.a - x.k
      BY <1>8, <3>1
    <3> QED BY <1>5, <2>0, <3>1, <3>2 DEF Waiting, x
  <2>5. Gone' = Gone
    BY <1>1, <2>4 DEF Gone, envVars
  <2>6. Tx'
    BY <1>1, <1>2, <1>5, <1>14, <2>0, <2>3, <2>5 DEF Tx, Finished, envVars
  <2>7. LineOf("rx")' = LineOf("rx") /\ desc'["rx"] = desc["rx"]
    BY <1>2, <1>5, <1>14, <1>20
  <2>8. Rx'
    BY <1>1, <1>2, <2>2, <2>7 DEF Rx, RxQueue, Got, envVars
  <2>9. Queues' /\ InSequence'
    BY <1>1, <1>2, <2>2 DEF Queues, InSequence, Finished, envVars
  <2>10. Idle'
    BY <1>1 DEF Idle
  <2> QED BY <1>16, <1>17, <2>6, <2>8, <2>9, <2>10 DEF TunInv
<1> QED BY <1>19, <1>20

\* What both rings need when the loop makes a descriptor available.
LEMMA PublishIs ==
  ASSUME TunInv, device = "vhost", NEW r \in Rings, IsFree(r), NEW p \in Int \ {0}, Publish(r, p),
         UNCHANGED <<used, seen_used, kernel>>
  PROVE  /\ Typed' /\ Ordered' /\ LineOf(r).a < RingSize
         /\ LineOf(r)' = Published(LineOf(r)) /\ desc'[r][LineOf(r).n[LineOf(r).a]] = p
         /\ \A e \in Slots : e # LineOf(r).n[LineOf(r).a] => desc'[r][e] = desc[r][e]
         /\ \A q \in Rings : q # r => LineOf(q)' = LineOf(q) /\ desc'[q] = desc[q]
<1> DEFINE x == LineOf(r)
           d == NextDesc(r)
<1>1. desc' = [desc EXCEPT ![r][d] = p] /\ avail' = [avail EXCEPT ![r].idx = Up(@)]
  BY DEF Publish
<1>2. Typed /\ Ordered /\ Whole(x) /\ HeldIn(x, desc[r])
  BY VhostIs
<1>3. x.a < RingSize /\ d = x.n[x.a] /\ d \in Slots
  BY <1>2, NextIs
<1>4. /\ avail' \in [Rings -> Avails] /\ LineOf(r)' = Published(x)
      /\ \A q \in Rings : q # r => LineOf(q)' = LineOf(q)
  BY <1>1, <1>2, <1>3, PublishLine
<1> HIDE DEF d
<1>5. /\ desc' \in [Rings -> [Slots -> Int]] /\ desc'[r][d] = p
      /\ \A e \in Slots : e # d => desc'[r][e] = desc[r][e]
      /\ \A q \in Rings : q # r => desc'[q] = desc[q]
  <2>1. Typed /\ d \in Slots /\ p \in Int /\ desc' = [desc EXCEPT ![r][d] = p]
    BY <1>1, <1>2, <1>3
  <2> QED BY <2>1, DescIs
<1> HIDE DEF x
<1>6. Ordered'
  <2>1. Whole(Published(x))
    BY <1>2, <1>3, PublishedWhole
  <2>2. HeldIn(Published(x), desc'[r])
    <3>1. Whole(x) /\ x.a < RingSize /\ HeldIn(x, desc[r])
      BY <1>2, <1>3
    <3>2. desc'[r][x.n[x.a]] # 0
      BY <1>3, <1>5
    <3>3. \A e \in Slots : e # x.n[x.a] => desc'[r][e] = desc[r][e]
      BY <1>3, <1>5
    <3> QED BY <3>1, <3>2, <3>3, PublishedHeld
  <2> QED BY <1>2, <1>4, <1>5, <2>1, <2>2, OrderedBy
<1>7. Typed'
  BY <1>2, <1>4, <1>5 DEF Typed
<1> QED BY <1>3, <1>4, <1>5, <1>6, <1>7 DEF x

\* The loop gives the kernel a buffer.
LEMMA Primes ==
  ASSUME TunInv, PrimeRx
  PROVE  TunInv'
<1> DEFINE x == LineOf("rx")
           m == desc["rx"]
<1>1. /\ device = "vhost" /\ IsFree("rx") /\ Publish("rx", Buffer) /\ pc' = "rxevent"
      /\ UNCHANGED <<envVars, used, seen_used, kernel, queueVars, device>>
  BY DEF PrimeRx, TunInv, DevicePlaces, RingPlaces
<1>2. /\ Queues /\ InSequence /\ Rx /\ Tx /\ Whole(x)
      /\ "tx" \in Rings /\ "rx" \in Rings /\ "rx" # "tx"
  BY <1>1, VhostIs
<1>3. Buffer \in Int \ {0}
  BY DEF Buffer
<1>4. /\ Typed' /\ Ordered' /\ x.a < RingSize /\ LineOf("rx")' = Published(x)
      /\ \A e \in Slots : e # x.n[x.a] => desc'["rx"][e] = m[e]
      /\ LineOf("tx")' = LineOf("tx") /\ desc'["tx"] = desc["tx"]
  BY <1>1, <1>2, <1>3, PublishIs
<1>5. RxData(x, m, Got) /\ RxQueue(x, Got) /\ Got \in Nat /\ Got' = Got
  BY <1>1, <1>2 DEF Rx, Queues, Got, queueVars
<1> HIDE DEF x, m
<1>6. RxData(Published(x), desc'["rx"], Got)
  BY <1>2, <1>4, <1>5, PublishedRx
<1>7. Rx'
  <2>1. Published(x).k = x.k
    BY DEF Published
  <2> QED BY <1>1, <1>4, <1>5, <1>6, <2>1 DEF Rx, RxQueue, envVars
<1>8. Tx'
  BY <1>1, <1>2, <1>4 DEF Tx, Gone, Waiting, Finished, envVars, queueVars
<1>9. Queues' /\ InSequence'
  BY <1>1, <1>2 DEF Queues, InSequence, Finished, envVars, queueVars
<1>10. DevicePlaces' /\ Idle'
  BY <1>1 DEF TunInv, DevicePlaces, RingPlaces, Idle
<1> QED BY <1>4, <1>7, <1>8, <1>9, <1>10 DEF TunInv

\* The queue from the VPN without its head.
LEMMA HeadGone ==
  ASSUME Queues, Tx, Waiting \in Nat, incoming # <<>>
  PROVE  /\ Head(incoming) \in Int /\ Tail(incoming) \in Seq(Int) /\ Len(incoming) \in Nat
         /\ Len(Tail(incoming)) = Len(incoming) - 1
         /\ Head(incoming) = Gone + Waiting + 1
         /\ \A i \in 1 .. Len(Tail(incoming)) :
              Tail(incoming)[i] = received - Len(Tail(incoming)) + i
         /\ received \in Nat /\ Gone = received - Len(incoming) - Waiting
<1>1. incoming \in Seq(Int) /\ received \in Nat
  BY DEF Queues
<1>2. /\ Head(incoming) \in Int /\ Tail(incoming) \in Seq(Int) /\ Len(incoming) \in Nat \ {0}
      /\ Len(Tail(incoming)) = Len(incoming) - 1 /\ Head(incoming) = incoming[1]
      /\ \A i \in 1 .. Len(Tail(incoming)) : Tail(incoming)[i] = incoming[i + 1]
  BY <1>1
<1>3. Gone = received - Len(incoming) - Waiting /\ Gone \in Nat
  BY DEF Gone, Tx
<1>4. \A i \in 1 .. Len(incoming) : incoming[i] = received - Len(incoming) + i
  BY DEF Tx
<1>5. Head(incoming) = received - Len(incoming) + 1
  BY <1>2, <1>4
<1>6. ASSUME NEW i \in 1 .. Len(Tail(incoming))
      PROVE  Tail(incoming)[i] = received - Len(Tail(incoming)) + i
  <2>1. i + 1 \in 1 .. Len(incoming) /\ i \in Nat
    BY <1>2
  <2>2. Tail(incoming)[i] = received - Len(incoming) + (i + 1)
    BY <1>2, <1>4, <2>1
  <2> QED BY <1>1, <1>2, <2>1, <2>2
<1>7. Head(incoming) = Gone + Waiting + 1
  BY <1>1, <1>2, <1>3, <1>5
<1> QED BY <1>1, <1>2, <1>3, <1>6, <1>7

\* The kernel is never ahead of the loop.
LEMMA WaitingIs ==
  ASSUME TunInv, device # "none"
  PROVE  Waiting \in Nat /\ Waiting = LineOf("tx").a - LineOf("tx").k
<1>1. Whole(LineOf("tx"))
  BY VhostIs
<1> DEFINE x == LineOf("tx")
<1> HIDE DEF x
<1>2. x.a \in Nat /\ x.k \in Nat /\ x.k <= x.a
  BY <1>1, Apartness DEF x
<1>3. Waiting = x.a - x.k
  BY DEF Waiting, x
<1> QED BY <1>2, <1>3 DEF x

\* The loop gives the kernel a packet.
LEMMA QueuesTx ==
  ASSUME TunInv, QueueTx
  PROVE  TunInv'
<1> DEFINE x == LineOf("tx")
           m == desc["tx"]
           p == Head(incoming)
           g == Gone
<1>1. /\ device = "vhost" /\ IsFree("tx") /\ Publish("tx", p) /\ pc' = "txevent"
      /\ incoming # <<>> /\ incoming' = Tail(incoming)
      /\ UNCHANGED <<load, received, asked, tunq, used, seen_used, kernel,
                     outgoing, sent, written, dropped, device>>
  BY DEF QueueTx, TunInv, DevicePlaces, RingPlaces
<1>2. /\ Queues /\ InSequence /\ Rx /\ Tx /\ Whole(x)
      /\ "tx" \in Rings /\ "rx" \in Rings /\ "rx" # "tx"
  BY <1>1, VhostIs
<1>4. Waiting \in Nat /\ Waiting = x.a - x.k
  BY <1>1, WaitingIs
<1>3. /\ p \in Int /\ Tail(incoming) \in Seq(Int) /\ Len(incoming) \in Nat
      /\ Len(Tail(incoming)) = Len(incoming) - 1 /\ p = g + Waiting + 1
      /\ \A i \in 1 .. Len(Tail(incoming)) :
           Tail(incoming)[i] = received - Len(Tail(incoming)) + i
      /\ received \in Nat /\ g = received - Len(incoming) - Waiting
  BY <1>1, <1>2, <1>4, HeadGone
<1>5. g \in Nat /\ TxData(x, m, g)
  BY <1>2 DEF Tx
<1> HIDE DEF x, m, p, g
<1>6. p \in Int \ {0}
  BY <1>3, <1>4, <1>5
<1>7. /\ Typed' /\ Ordered' /\ x.a < RingSize /\ LineOf("tx")' = Published(x)
      /\ desc'["tx"][x.n[x.a]] = p
      /\ \A e \in Slots : e # x.n[x.a] => desc'["tx"][e] = m[e]
      /\ LineOf("rx")' = LineOf("rx") /\ desc'["rx"] = desc["rx"]
  BY <1>1, <1>2, <1>6, PublishIs DEF x, m
<1>8. TxData(Published(x), desc'["tx"], g)
  <2>1. desc'["tx"][x.n[x.a]] = g + (x.a - x.k) + 1
    BY <1>3, <1>4, <1>7
  <2> QED BY <1>2, <1>5, <1>7, <2>1, PublishedTx
<1>9. Waiting' = Waiting + 1
  <2>1. Published(x).a = x.a + 1 /\ Published(x).k = x.k /\ x.a \in Nat /\ x.k \in Nat
    BY <1>2, Apartness DEF Published
  <2> QED BY <1>4, <1>7, <2>1 DEF Waiting
<1>10. Gone' = g
  <2>1. Gone' = received - Len(Tail(incoming)) - Waiting'
    BY <1>1 DEF Gone
  <2> QED BY <1>3, <1>4, <1>9, <2>1
<1>11. Tx'
  BY <1>1, <1>2, <1>3, <1>5, <1>7, <1>8, <1>10 DEF Tx, Finished, g
<1>12. Rx'
  BY <1>1, <1>2, <1>7 DEF Rx, RxQueue, Got
<1>13. Queues' /\ InSequence'
  BY <1>1, <1>2, <1>3 DEF Queues, InSequence, Finished
<1>14. DevicePlaces' /\ Idle'
  BY <1>1 DEF TunInv, DevicePlaces, RingPlaces, Idle
<1> QED BY <1>7, <1>11, <1>12, <1>13, <1>14 DEF TunInv

\* Nothing but the loop's own state changes, or what the two sides tell each other.
LEMMA LinesStay ==
  ASSUME TunInv, device # "none", DevicePlaces', device' = device,
         UNCHANGED <<load, received, asked, tunq, queueVars, desc, seen_used>>,
         avail' \in [Rings -> Avails], used' \in [Rings -> Useds], kernel' \in [Rings -> Kernels],
         \A r \in Rings : /\ avail'[r].idx = avail[r].idx /\ avail'[r].ring = avail[r].ring
                          /\ used'[r].idx = used[r].idx /\ used'[r].ring = used[r].ring
                          /\ kernel'[r].avail = kernel[r].avail
                          /\ kernel'[r].taken = kernel[r].taken
  PROVE  TunInv'
<1>1. /\ Queues /\ InSequence /\ Typed /\ Ordered /\ Rx /\ Tx /\ "tx" \in Rings /\ "rx" \in Rings
  BY VhostIs
<1>2. \A r \in Rings : LineOf(r)' = LineOf(r)
  BY LineSame
<1>3. Typed' /\ Ordered'
  BY <1>1, <1>2 DEF Typed, Ordered
<1>4. Rx'
  BY <1>1, <1>2 DEF Rx, RxQueue, Got, queueVars
<1>5. Tx'
  BY <1>1, <1>2 DEF Tx, Gone, Waiting, Finished, queueVars
<1>6. Queues' /\ InSequence'
  BY <1>1 DEF Queues, InSequence, Finished, queueVars
<1>7. Idle'
  BY <1>2 DEF TunInv, Idle
<1> QED BY <1>3, <1>4, <1>5, <1>6, <1>7 DEF TunInv

\* Nothing of what matters changes.
LEMMA RingsStay ==
  ASSUME TunInv, device # "none", DevicePlaces', device' = device,
         UNCHANGED <<load, received, asked, tunq, queueVars, desc, seen_used, avail, used, kernel>>
  PROVE  TunInv'
<1>1. Typed
  BY VhostIs
<1>2. /\ avail' \in [Rings -> Avails] /\ used' \in [Rings -> Useds]
      /\ kernel' \in [Rings -> Kernels]
  BY <1>1 DEF Typed
<1> QED BY <1>2, LinesStay

\* One side looks at what the other has written, or tells it something.
LEMMA Looks ==
  ASSUME TunInv, NEW r \in Rings,
         Call(r) \/ AskForKick(r) \/ LookAgain(r) \/ Kicked(r) \/ set_ring_wake(r)
  PROVE  TunInv'
<1>1. device # "none" /\ device' = device /\ DevicePlaces'
  BY DEF TunInv, DevicePlaces, RingPlaces, Call, AskForKick, LookAgain, Kicked, set_ring_wake,
         EndsTurn, loopVars
<1>2. Typed /\ kernel[r] \in Kernels /\ used[r] \in Useds /\ avail[r] \in Avails
      /\ seen_used[r] \in Index
  BY <1>1, VhostIs, TypedIs
<1>3. UNCHANGED <<load, received, asked, tunq, queueVars, desc, seen_used>>
  BY DEF Call, AskForKick, LookAgain, Kicked, set_ring_wake, envVars
<1>4. /\ avail' \in [Rings -> Avails]
      /\ \A q \in Rings : avail'[q].idx = avail[q].idx /\ avail'[q].ring = avail[q].ring
  <2>1. CASE UNCHANGED avail
    BY <1>2, <2>1 DEF Typed
  <2>2. CASE avail' = [avail EXCEPT ![r].used_event = seen_used[r]]
    BY <1>2, <2>2 DEF Typed, Avails
  <2> QED BY <2>1, <2>2 DEF Call, AskForKick, LookAgain, Kicked, set_ring_wake
<1>5. /\ used' \in [Rings -> Useds]
      /\ \A q \in Rings : used'[q].idx = used[q].idx /\ used'[q].ring = used[q].ring
  <2>1. CASE UNCHANGED used
    BY <1>2, <2>1 DEF Typed
  <2>2. CASE used' = [used EXCEPT ![r].avail_event = kernel[r].avail]
    <3>1. kernel[r].avail \in Index
      BY <1>2 DEF Kernels
    <3> QED BY <1>2, <2>2, <3>1 DEF Typed, Useds
  <2> QED BY <2>1, <2>2 DEF Call, AskForKick, LookAgain, Kicked, set_ring_wake
<1>6. /\ kernel' \in [Rings -> Kernels]
      /\ \A q \in Rings : /\ kernel'[q].avail = kernel[q].avail
                          /\ kernel'[q].taken = kernel[q].taken
  <2>1. CASE UNCHANGED kernel
    BY <1>2, <2>1 DEF Typed
  <2>2. CASE kernel' = [kernel EXCEPT ![r].signalled = used[r].idx]
    <3>1. used[r].idx \in Index
      BY <1>2 DEF Useds
    <3> QED BY <1>2, <2>2, <3>1 DEF Typed, Kernels
  <2>3. ASSUME NEW s \in {"work", "look", "sleep"}, kernel' = [kernel EXCEPT ![r].does = s]
        PROVE  /\ kernel' \in [Rings -> Kernels]
               /\ \A q \in Rings : /\ kernel'[q].avail = kernel[q].avail
                                   /\ kernel'[q].taken = kernel[q].taken
    BY <1>2, <2>3 DEF Typed, Kernels
  <2>4. CASE Call(r) \/ set_ring_wake(r)
    BY <2>1, <2>2, <2>4 DEF Call, set_ring_wake
  <2>5. CASE AskForKick(r)
    BY <2>3, <2>5 DEF AskForKick
  <2>6. CASE LookAgain(r)
    <3> DEFINE s == IF kernel[r].avail # avail[r].idx THEN "work" ELSE "sleep"
    <3>1. s \in {"work", "look", "sleep"} /\ kernel' = [kernel EXCEPT ![r].does = s]
      BY <2>6 DEF LookAgain
    <3> HIDE DEF s
    <3> QED BY <2>3, <3>1
  <2>7. CASE Kicked(r)
    BY <2>3, <2>7 DEF Kicked
  <2> QED BY <2>4, <2>5, <2>6, <2>7
<1> QED BY <1>1, <1>3, <1>4, <1>5, <1>6, LinesStay

\* The loop looks, kicks, sleeps or wakes up.
LEMMA OnlyTheLoop ==
  ASSUME TunInv,
         \/ SkipRx \/ Filled \/ Kick \/ Written \/ TunPoll
         \/ \E r \in Rings : CheckEvent(r) \/ LookAtUsed(r)
  PROVE  TunInv'
<1>1. /\ UNCHANGED <<load, received, asked, tunq, queueVars, desc, seen_used, avail, used, kernel>>
      /\ device' = device /\ pc # "closed"
  BY DEF SkipRx, Filled, Kick, Written, TunPoll, CheckEvent, LookAtUsed, ringVars, envVars
<1>2. device # "none"
  BY <1>1 DEF TunInv, DevicePlaces
<1>3. DevicePlaces'
  <2>1. CASE SkipRx \/ Filled
    BY <2>1 DEF TunInv, DevicePlaces, RingPlaces, SkipRx, Filled
  <2>2. CASE Kick \/ Written \/ TunPoll
    BY <2>2 DEF TunInv, DevicePlaces, RingPlaces, Kick, Written, TunPoll, AfterTun
  <2>3. ASSUME NEW r \in Rings, CheckEvent(r) \/ LookAtUsed(r) PROVE DevicePlaces'
    BY <2>3 DEF TunInv, DevicePlaces, RingPlaces, CheckEvent, LookAtUsed, EndsTurn
  <2> QED BY <2>1, <2>2, <2>3
<1> QED BY <1>1, <1>2, <1>3, RingsStay

\* Rings that nobody touches.
LEMMA Untouched ==
  ASSUME TunInv, device # "none", UNCHANGED <<desc, seen_used, avail, used, kernel>>
  PROVE  Typed' /\ Ordered' /\ \A r \in Rings : LineOf(r)' = LineOf(r)
<1>1. Typed /\ Ordered
  BY VhostIs
<1>2. \A r \in Rings : LineOf(r)' = LineOf(r)
  BY LineSame
<1> QED BY <1>1, <1>2 DEF Typed, Ordered

\* The numbering holds at the start.
LEMMA Begins ==
  ASSUME TunInit
  PROVE  TunInv
<1> USE TunAssumption DEF TunAssumption
<1>1. /\ device = "setup" /\ pc = "setup" /\ load \in Loads
      /\ received = 0 /\ asked = 0 /\ tunq = <<>>
      /\ incoming = <<>> /\ outgoing = <<>> /\ sent = <<>> /\ written = <<>> /\ dropped = {}
  BY DEF TunInit
<1>2. Queues
  BY <1>1 DEF Queues
<1>3. Finished = {} /\ FirstOf(Finished, 0) /\ Increasing(written)
  BY <1>1 DEF Finished, Elems, FirstOf, Increasing
<1>4. InSequence
  BY <1>1, <1>3 DEF InSequence
<1>5. DevicePlaces
  BY <1>1 DEF DevicePlaces, RingPlaces
<1>6. 0 \in Index /\ \A s \in Slots : s \in Index
  BY DEF Index, Slots
<1>7. /\ desc = [r \in Rings |-> [d \in Slots |-> 0]]
      /\ avail = [r \in Rings |-> [idx |-> 0, ring |-> [s \in Slots |-> s], used_event |-> 0]]
      /\ used = [r \in Rings |-> [idx |-> 0, ring |-> [s \in Slots |-> 0], avail_event |-> 0]]
      /\ seen_used = [r \in Rings |-> 0]
      /\ kernel = [r \in Rings |-> [does |-> "work", avail |-> 0, taken |-> {}, signalled |-> 0]]
  BY DEF TunInit
<1>8. Typed
  <2> DEFINE a == [idx |-> 0, ring |-> [s \in Slots |-> s], used_event |-> 0]
             u == [idx |-> 0, ring |-> [s \in Slots |-> 0], avail_event |-> 0]
             k == [does |-> "work", avail |-> 0, taken |-> {}, signalled |-> 0]
             e == [d \in Slots |-> 0]
  <2>1. a \in Avails
    BY <1>6 DEF Avails
  <2>2. u \in Useds
    BY <1>6 DEF Useds, Slots
  <2>3. k \in Kernels
    BY <1>6 DEF Kernels
  <2>4. e \in [Slots -> Int]
    OBVIOUS
  <2>5. /\ desc = [r \in Rings |-> e] /\ avail = [r \in Rings |-> a]
        /\ used = [r \in Rings |-> u] /\ kernel = [r \in Rings |-> k]
    BY <1>7
  <2> HIDE DEF a, u, k, e
  <2>6. desc \in [Rings -> [Slots -> Int]]
    BY <2>4, <2>5
  <2>7. avail \in [Rings -> Avails] /\ used \in [Rings -> Useds] /\ kernel \in [Rings -> Kernels]
    BY <2>1, <2>2, <2>3, <2>5
  <2>8. seen_used \in [Rings -> Index]
    BY <1>6, <1>7
  <2> QED BY <2>6, <2>7, <2>8 DEF Typed
<1>9. ASSUME NEW r \in Rings
      PROVE  /\ LineOf(r).u = 0 /\ LineOf(r).k = 0 /\ LineOf(r).a = 0 /\ LineOf(r).t = {}
             /\ LineOf(r) \in Lines
             /\ \A i \in Offsets : LineOf(r).n[i] = i /\ i \in Slots
             /\ \A d \in Slots : d \in Offsets /\ desc[r][d] = 0
  <2>1. Ahead(0, 0) = 0
    BY <1>6, AheadMoves
  <2>2. \A i \in Offsets : Slot(0 + i) = i /\ i \in Slots
    <3> SUFFICES ASSUME NEW i \in Offsets PROVE Slot(0 + i) = i /\ i \in Slots
      OBVIOUS
    <3>1. i \in 0 .. RingSize - 1 /\ RingSize \in Nat \ {0}
      BY DEF Offsets
    <3>2. i % RingSize = i
      BY <3>1
    <3> QED BY <3>1, <3>2 DEF Slot, Slots
  <2>3. /\ LineOf(r).u = 0 /\ LineOf(r).k = 0 /\ LineOf(r).a = 0 /\ LineOf(r).t = {}
        /\ LineOf(r).b = [i \in Offsets |-> 0] /\ LineOf(r).n = [i \in Offsets |-> i]
    <3>1. /\ used[r].idx = 0 /\ kernel[r].avail = 0 /\ avail[r].idx = 0 /\ seen_used[r] = 0
          /\ kernel[r].taken = {}
          /\ \A s \in Slots : used[r].ring[s] = 0 /\ avail[r].ring[s] = s
      BY <1>7
    <3>2. \A i \in Offsets : used[r].ring[Slot(0 + i)] = 0 /\ avail[r].ring[Slot(0 + i)] = i
      BY <2>2, <3>1
    <3> QED BY <1>8, <2>1, <3>1, <3>2, LineIs
  <2>4. LineOf(r) \in Lines
    BY <2>2, <2>3 DEF LineOf, Lines, Counts, Slots
  <2>5. \A d \in Slots : d \in Offsets /\ desc[r][d] = 0
    BY <1>7 DEF Slots, Offsets
  <2> QED BY <2>2, <2>3, <2>4, <2>5
<1>10. ASSUME NEW r \in Rings PROVE Whole(LineOf(r)) /\ HeldIn(LineOf(r), desc[r])
  <2> DEFINE x == LineOf(r)
  <2>1. /\ x.u = 0 /\ x.k = 0 /\ x.a = 0 /\ x.t = {} /\ x \in Lines
        /\ \A i \in Offsets : x.n[i] = i /\ i \in Slots
        /\ \A d \in Slots : d \in Offsets /\ desc[r][d] = 0
    BY <1>9
  <2> HIDE DEF x
  <2>2. \A i \in Offsets : i >= 0 /\ ~(i < 0)
    BY DEF Offsets
  <2>3. Apart(x)
    BY <2>1, <2>2 DEF Apart
  <2>4. Covers(x)
    BY <2>1, <2>2 DEF Covers
  <2>5. Counted(x)
    BY <2>1, FS_EmptySet DEF Counted
  <2>6. HeldIn(x, desc[r])
    BY <2>1, <2>2 DEF HeldIn
  <2> QED BY <2>3, <2>4, <2>5, <2>6 DEF Whole, x
<1>11. Ordered
  BY <1>10 DEF Ordered
<1>12. Idle
  BY <1>9 DEF Idle
<1>13. "rx" \in Rings /\ "tx" \in Rings
  BY DEF Rings
<1>14. Rx
  BY <1>1, <1>9, <1>13 DEF Rx, RxData, RxQueue, Got, Offsets
<1>15. Tx
  <2>1. Waiting = 0 /\ Gone = 0
    BY <1>1, <1>9, <1>13 DEF Waiting, Gone
  <2>2. TxData(LineOf("tx"), desc["tx"], 0)
    BY <1>9, <1>13 DEF TxData, Offsets
  <2> QED BY <1>1, <1>3, <2>1, <2>2 DEF Tx
<1> QED BY <1>2, <1>4, <1>5, <1>8, <1>11, <1>12, <1>14, <1>15 DEF TunInv

\* The device is opened.
LEMMA Opens ==
  ASSUME TunInv, setup_vhost
  PROVE  TunInv'
<1>1. /\ device = "setup" /\ device' \in {"vhost", "open", "tun"} /\ pc' = "vpn"
      /\ UNCHANGED <<load, received, asked, tunq, queueVars, desc, seen_used, avail, used, kernel>>
  BY DEF setup_vhost, envVars, ringVars, TunInv, DevicePlaces
<1>2. Queues /\ InSequence /\ Rx /\ Tx /\ Idle /\ "rx" \in Rings /\ "tx" \in Rings
  BY <1>1, VhostIs DEF TunInv
<1>3. Typed' /\ Ordered' /\ \A r \in Rings : LineOf(r)' = LineOf(r)
  BY <1>1, Untouched
<1>4. Rx'
  BY <1>1, <1>2, <1>3 DEF Rx, RxQueue, Got, queueVars
<1>5. Tx'
  BY <1>1, <1>2, <1>3 DEF Tx, Gone, Waiting, Finished, queueVars
<1>6. Queues' /\ InSequence'
  BY <1>1, <1>2 DEF Queues, InSequence, Finished, queueVars
<1>7. Idle' /\ DevicePlaces'
  BY <1>1, <1>2, <1>3 DEF Idle, DevicePlaces, RingPlaces
<1> QED BY <1>3, <1>4, <1>5, <1>6, <1>7 DEF TunInv

\* The device is closed.
LEMMA Closes ==
  ASSUME TunInv, shutdown_vhost \/ Crash
  PROVE  TunInv'
<1>1. device' = "none" /\ pc' = "closed" /\ UNCHANGED <<load, received, asked, tunq, queueVars>>
  BY DEF shutdown_vhost, Crash, envVars
<1>2. Queues' /\ InSequence'
  BY <1>1 DEF TunInv, Queues, InSequence, Finished, queueVars
<1> QED BY <1>1, <1>2 DEF TunInv, DevicePlaces, RingPlaces

\* An application sends a packet.
LEMMA Sends ==
  ASSUME TunInv, AppSends
  PROVE  TunInv'
<1>1. /\ device # "none" /\ asked' = asked + 1 /\ tunq' = Append(tunq, asked + 1)
      /\ UNCHANGED <<load, received, queueVars, desc, seen_used, avail, used, kernel, device, pc>>
  BY DEF AppSends, ringVars, loopVars
<1>2. Queues /\ InSequence /\ Rx /\ Tx /\ "rx" \in Rings /\ "tx" \in Rings /\ Whole(LineOf("rx"))
  BY <1>1, VhostIs
<1>3. Typed' /\ Ordered' /\ \A r \in Rings : LineOf(r)' = LineOf(r)
  BY <1>1, Untouched
<1>4. tunq \in Seq(Int) /\ asked \in Nat /\ Len(tunq) \in Nat
  BY <1>2 DEF Queues
<1>5. /\ tunq' \in Seq(Int) /\ Len(tunq') = Len(tunq) + 1 /\ tunq'[Len(tunq) + 1] = asked + 1
      /\ \A i \in 1 .. Len(tunq) : tunq'[i] = tunq[i]
      /\ \A i \in 1 .. Len(tunq') : i \in 1 .. Len(tunq) \/ i = Len(tunq) + 1
  BY <1>1, <1>4
<1>6. Rx'
  <2> DEFINE x == LineOf("rx")
             g == Got
  <2>1. RxData(x, desc["rx"], g) /\ RxQueue(x, g) /\ g \in Nat /\ x.k \in Nat
    BY <1>2, Apartness DEF Rx, Got, Queues
  <2>2. g' = g /\ x' = x
    BY <1>1, <1>2, <1>3 DEF Got, queueVars
  <2> HIDE DEF x, g
  <2>3. asked' = g + x.k + Len(tunq')
    <3>1. asked = g + x.k + Len(tunq)
      BY <2>1 DEF RxQueue
    <3> QED BY <1>1, <1>4, <1>5, <2>1, <3>1
  <2>4. ASSUME NEW i \in 1 .. Len(tunq') PROVE tunq'[i] = g + x.k + i
    <3>1. CASE i \in 1 .. Len(tunq)
      BY <1>5, <2>1, <3>1 DEF RxQueue
    <3>2. CASE i = Len(tunq) + 1
      <4>1. tunq'[i] = asked + 1 /\ asked = g + x.k + Len(tunq)
        BY <1>5, <2>1, <3>2 DEF RxQueue
      <4> QED BY <1>4, <2>1, <3>2, <4>1
    <3> QED BY <1>5, <3>1, <3>2
  <2> QED BY <1>1, <2>1, <2>2, <2>3, <2>4 DEF Rx, RxQueue, x, g
<1>7. Tx'
  BY <1>1, <1>2, <1>3 DEF Tx, Gone, Waiting, Finished, queueVars
<1>8. Queues' /\ InSequence'
  BY <1>1, <1>2, <1>4, <1>5 DEF Queues, InSequence, Finished, queueVars
<1>9. Idle' /\ DevicePlaces'
  BY <1>1, <1>3 DEF TunInv, Idle, DevicePlaces, RingPlaces
<1> QED BY <1>3, <1>6, <1>7, <1>8, <1>9 DEF TunInv

\* A packet is written past the rings, in which the kernel has nothing left.
LEMMA Writes ==
  ASSUME TunInv, device # "none", incoming # <<>>, os_write_tun, Waiting = 0, DevicePlaces',
         UNCHANGED <<load, received, asked, tunq, ringVars, outgoing, sent, device>>
  PROVE  TunInv'
<1> DEFINE g == Gone
           p == Head(incoming)
<1>1. /\ Queues /\ InSequence /\ Rx /\ Tx /\ "rx" \in Rings /\ "tx" \in Rings
  BY VhostIs
<1>2. Typed' /\ Ordered' /\ \A r \in Rings : LineOf(r)' = LineOf(r)
  BY Untouched DEF ringVars
<1>3. /\ p \in Int /\ Tail(incoming) \in Seq(Int) /\ Len(incoming) \in Nat
      /\ Len(Tail(incoming)) = Len(incoming) - 1 /\ p = g + 1
      /\ \A i \in 1 .. Len(Tail(incoming)) :
           Tail(incoming)[i] = received - Len(Tail(incoming)) + i
      /\ received \in Nat /\ g = received - Len(incoming)
  BY <1>1, HeadGone
<1>4. g \in Nat /\ TxData(LineOf("tx"), desc["tx"], g) /\ FirstOf(Finished, g)
  BY <1>1 DEF Tx
<1>5. /\ incoming' = Tail(incoming)
      /\ \/ written' = Append(written, p) /\ UNCHANGED dropped
         \/ dropped' = dropped \cup {p} /\ UNCHANGED written
  BY DEF os_write_tun
<1> HIDE DEF g, p
<1>6. Gone' = g + 1
  <2>1. Waiting' = 0
    BY <1>1, <1>2 DEF Waiting
  <2>2. Gone' = received - Len(Tail(incoming)) - Waiting'
    BY <1>5 DEF Gone
  <2> QED BY <1>3, <2>1, <2>2
<1>7. /\ written' \in Seq(Int) /\ Increasing(written') /\ FirstOf(Finished', g + 1)
      /\ dropped' \subseteq Int
  <2>1. /\ written \in Seq(Int) /\ Increasing(written) /\ FirstOf(Elems(written) \cup dropped, g)
        /\ dropped \subseteq Int
    BY <1>1, <1>4 DEF Queues, InSequence, Finished
  <2>2. CASE written' = Append(written, p) /\ UNCHANGED dropped
    <3>1. written' = Append(written, g + 1)
      BY <1>3, <2>2
    <3>2. /\ written' \in Seq(Int) /\ Increasing(written')
          /\ FirstOf(Elems(written') \cup dropped, g + 1)
      BY <1>4, <2>1, <3>1, OutGrows
    <3> QED BY <2>1, <2>2, <3>2 DEF Finished
  <2>3. CASE dropped' = dropped \cup {p} /\ UNCHANGED written
    <3>1. dropped' = dropped \cup {g + 1}
      BY <1>3, <2>3
    <3>2. FirstOf(Elems(written) \cup (dropped \cup {g + 1}), g + 1)
      BY <1>4, <2>1, LostGrows
    <3>3. dropped' \subseteq Int
      BY <1>3, <2>1, <2>3
    <3>4. Finished' = Elems(written) \cup (dropped \cup {g + 1})
      BY <2>3, <3>1 DEF Finished
    <3> QED BY <2>1, <2>3, <3>2, <3>3, <3>4
  <2> QED BY <1>5, <2>2, <2>3
<1>8. Queues'
  BY <1>1, <1>3, <1>5, <1>7 DEF Queues
<1>9. InSequence'
  <2>1. g + 1 \in 0 .. received
    <3>1. Len(incoming) >= 1
      BY <1>1 DEF Queues
    <3> QED BY <1>3, <1>4, <3>1
  <2> QED BY <1>1, <1>7, <2>1 DEF InSequence
<1>10. Rx'
  BY <1>1, <1>2 DEF Rx, RxQueue, Got, ringVars
<1>11. Tx'
  <2>1. \A x, m : TxData(x, m, g) /\ x.k = x.a /\ x.k \in Int => TxData(x, m, g + 1)
    <3> SUFFICES ASSUME NEW x, NEW m, x.k = x.a, x.k \in Int PROVE TxData(x, m, g + 1)
      OBVIOUS
    <3>1. \A i \in Offsets : i \in Int
      BY IndexNat
    <3>2. \A i \in Offsets : ~(i >= x.k /\ i < x.a)
      BY <3>1
    <3> QED BY <3>2 DEF TxData
  <2>2. LineOf("tx").k = LineOf("tx").a /\ LineOf("tx").k \in Int
    <3>1. Whole(LineOf("tx"))
      BY VhostIs
    <3> DEFINE x == LineOf("tx")
    <3> HIDE DEF x
    <3>2. x.k \in Nat /\ x.a \in Nat
      BY <3>1, Apartness DEF x
    <3>3. x.a - x.k = 0
      BY DEF x, Waiting
    <3> QED BY <3>2, <3>3 DEF x
  <2>3. TxData(LineOf("tx"), desc["tx"], g + 1)
    BY <1>4, <2>1, <2>2
  <2>4. g + 1 \in Nat
    BY <1>4
  <2> QED BY <1>1, <1>2, <1>3, <1>5, <1>6, <1>7, <2>3, <2>4 DEF Tx, ringVars
<1>12. Idle'
  BY <1>2 DEF TunInv, Idle
<1> QED BY <1>2, <1>8, <1>9, <1>10, <1>11, <1>12 DEF TunInv

\* Past a ring that the kernel has emptied.
LEMMA NoneWaiting ==
  ASSUME TunInv, EventMeansIdle, WriteTun
  PROVE  device = "vhost" /\ Waiting = 0
<1>1. device = "vhost" /\ kernel["tx"].avail = avail["tx"].idx
  BY DEF WriteTun, EventMeansIdle, TunInv, DevicePlaces, RingPlaces
<1>2. Waiting = 0
  <2>1. Typed /\ "tx" \in Rings
    BY <1>1, VhostIs
  <2>2. LineOf("tx").a = LineOf("tx").k
    <3>1. /\ LineOf("tx").a = Ahead(avail["tx"].idx, seen_used["tx"])
          /\ LineOf("tx").k = Ahead(kernel["tx"].avail, seen_used["tx"])
      BY <2>1, LineIs
    <3> QED BY <1>1, <3>1
  <2>3. Waiting \in Nat /\ Waiting = LineOf("tx").a - LineOf("tx").k
    BY <1>1, WaitingIs
  <2>4. Whole(LineOf("tx"))
    BY <1>1, VhostIs
  <2> DEFINE x == LineOf("tx")
  <2> HIDE DEF x
  <2>5. x.a \in Nat
    BY <2>4, Apartness DEF x
  <2> QED BY <2>2, <2>3, <2>5 DEF x
<1> QED BY <1>1, <1>2

LEMMA WritesEarly ==
  ASSUME TunInv, EventMeansIdle, WriteTun
  PROVE  TunInv'
<1>1. /\ pc = "txfill" /\ device = "vhost" /\ incoming # <<>> /\ os_write_tun
      /\ UNCHANGED <<load, received, asked, tunq, ringVars, outgoing, sent, device, pc>>
  BY NoneWaiting DEF WriteTun, envVars, loopVars
<1>2. DevicePlaces'
  BY <1>1 DEF TunInv, DevicePlaces, RingPlaces
<1> QED BY <1>1, <1>2, NoneWaiting, Writes

\* To a device without rings.
LEMMA WritesDirect ==
  ASSUME TunInv, WritePacket
  PROVE  TunInv'
<1>1. /\ pc = "write" /\ device = "tun" /\ device' = device /\ incoming # <<>>
      /\ UNCHANGED <<load, received, asked, tunq, ringVars, outgoing, sent>>
      /\ pc' \in {"write", "vpn", "sleep"}
  BY DEF WritePacket, TunInv, DevicePlaces, AfterTun
<1>2. DevicePlaces'
  BY <1>1 DEF TunInv, DevicePlaces, RingPlaces
<1>3. CASE os_write_tun
  <2>1. Waiting = 0
    BY <1>1 DEF TunInv, Idle, Waiting, Rings
  <2> QED BY <1>1, <1>2, <1>3, <2>1, Writes
<1>4. CASE UNCHANGED <<incoming, written, dropped>>
  BY <1>1, <1>2, <1>4, RingsStay DEF ringVars, queueVars
<1> QED BY <1>3, <1>4 DEF WritePacket

\* The protocol's part of a turn.
LEMMA Turns ==
  ASSUME TunInv, VpnMoves
  PROVE  TunInv'
<1>1. /\ pc = "vpn" /\ device' = device
      /\ \/ sent' = sent \o outgoing /\ outgoing' = <<>>
         \/ UNCHANGED <<sent, outgoing>>
      /\ pc' = CASE device = "tun" -> "tun" [] device = "vhost" -> "rx" [] OTHER -> "crash"
      /\ UNCHANGED <<load, asked, tunq, desc, seen_used, avail, used, kernel, written, dropped>>
  BY DEF VpnMoves, ringVars
<1>2. PICK n \in 0 .. (load[1] - received) :
        received' = received + n /\ incoming' = incoming \o [i \in 1 .. n |-> received + i]
  BY DEF VpnMoves
<1>3. device \in {"tun", "vhost", "open"}
  BY <1>1 DEF TunInv, DevicePlaces
<1>4. /\ Queues /\ InSequence /\ Rx /\ Tx /\ "rx" \in Rings /\ "tx" \in Rings
  BY <1>3, VhostIs
<1>5. Typed' /\ Ordered' /\ \A r \in Rings : LineOf(r)' = LineOf(r)
  BY <1>1, <1>3, Untouched
<1>6. /\ sent \in Seq(Int) /\ outgoing \in Seq(Int) /\ incoming \in Seq(Int) /\ received \in Nat
      /\ Len(sent) \in Nat /\ Len(outgoing) \in Nat /\ Len(incoming) \in Nat /\ load \in Nat \X Nat
  BY <1>4, TunAssumption DEF Queues, TunAssumption
<1>7. n \in Nat /\ received' \in Nat
  BY <1>2, <1>6
<1>8. DevicePlaces'
  <2>1. CASE device = "tun"
    BY <1>1, <2>1 DEF DevicePlaces, RingPlaces
  <2>2. CASE device = "vhost"
    BY <1>1, <2>2 DEF DevicePlaces, RingPlaces
  <2>3. CASE device = "open"
    BY <1>1, <2>3 DEF DevicePlaces, RingPlaces
  <2> QED BY <1>3, <2>1, <2>2, <2>3
<1>9. /\ sent' \in Seq(Int) /\ outgoing' \in Seq(Int) /\ Len(outgoing') <= max_qlen /\ Got' = Got
      /\ \A i \in 1 .. Len(sent') : sent'[i] = i
      /\ \A i \in 1 .. Len(outgoing') : outgoing'[i] = Len(sent') + i
  <2>1. CASE sent' = sent \o outgoing /\ outgoing' = <<>>
    <3>1. sent' \in Seq(Int) /\ Len(sent') = Len(sent) + Len(outgoing)
      BY <1>6, <2>1, Joined
    <3>2. \A i \in 1 .. Len(sent) : sent[i] = 0 + i
      BY <1>4, <1>6 DEF InSequence
    <3>3. \A i \in 1 .. Len(outgoing) : outgoing[i] = 0 + Len(sent) + i
      BY <1>4, <1>6 DEF InSequence
    <3>4. outgoing \in [1 .. Len(outgoing) -> Int]
      BY <1>6
    <3>5. \A i \in 1 .. Len(sent') : sent'[i] = 0 + i
      BY <1>6, <2>1, <3>2, <3>3, <3>4, NumbersGoOn
    <3>6. \A i \in 1 .. Len(sent') : sent'[i] = i
      BY <3>1, <3>5
    <3>7. max_qlen \in Nat
      BY TunAssumption DEF TunAssumption
    <3> QED BY <1>6, <2>1, <3>1, <3>6, <3>7 DEF Got
  <2>2. CASE UNCHANGED <<sent, outgoing>>
    BY <1>4, <2>2 DEF Queues, InSequence, Got
  <2> QED BY <1>1, <2>1, <2>2
<1> DEFINE q == [i \in 1 .. n |-> received + i]
           s == received - Len(incoming)
<1>10. q \in [1 .. n -> Int] /\ \A i \in 1 .. n : q[i] = s + Len(incoming) + i
  BY <1>6, <1>7
<1>11. s \in Int /\ \A i \in 1 .. Len(incoming) : incoming[i] = s + i
  BY <1>4, <1>6 DEF Tx
<1>12. incoming' = incoming \o q
  BY <1>2
<1> HIDE DEF q
<1>13. incoming' \in Seq(Int) /\ Len(incoming') = Len(incoming) + n
  <2>1. incoming \in Seq(Int) /\ n \in Nat /\ q \in [1 .. n -> Int]
    BY <1>6, <1>7, <1>10
  <2>2. ASSUME NEW v, v = incoming \o q PROVE v \in Seq(Int) /\ Len(v) = Len(incoming) + n
    BY <2>1, <2>2, Extended
  <2> QED BY <1>12, <2>2
<1>14. \A i \in 1 .. Len(incoming') : incoming'[i] = s + i
  <2> HIDE DEF s
  <2> QED BY <1>6, <1>7, <1>10, <1>11, <1>12, NumbersGoOn
<1>15. received' - Len(incoming') = s
  BY <1>2, <1>6, <1>7, <1>13
<1>16. Tx'
  <2>1. Waiting' = Waiting
    BY <1>4, <1>5 DEF Waiting
  <2>2. Gone' = Gone
    <3>1. Gone = s - Waiting /\ Gone' = (received' - Len(incoming')) - Waiting'
      BY DEF Gone
    <3> QED BY <1>15, <2>1, <3>1
  <2> QED BY <1>1, <1>4, <1>5, <1>14, <1>15, <2>2 DEF Tx, Finished
<1>17. Rx'
  BY <1>1, <1>4, <1>5, <1>9 DEF Rx, RxQueue
<1>18. Queues'
  BY <1>1, <1>4, <1>7, <1>9, <1>13 DEF Queues
<1>19. InSequence'
  <2>1. PICK k \in 0 .. received : FirstOf(Finished, k)
    BY <1>4 DEF InSequence
  <2>2. k \in 0 .. received'
    BY <1>2, <1>6, <1>7
  <2>3. Increasing(written') /\ FirstOf(Finished', k)
    BY <1>1, <1>4, <2>1 DEF InSequence, Finished
  <2> QED BY <1>9, <2>2, <2>3 DEF InSequence
<1>20. Idle'
  BY <1>1, <1>5 DEF TunInv, Idle
<1> QED BY <1>5, <1>8, <1>16, <1>17, <1>18, <1>19, <1>20 DEF TunInv

\* The loop reads packets of applications from the device itself.
LEMMA Reads ==
  ASSUME TunInv, ReadPackets
  PROVE  TunInv'
<1> DEFINE reads == readable /\ "read" \in tun_monitored
           n == IF reads THEN Min({Len(tunq), max_qlen - Len(outgoing)}) ELSE 0
           q == SubSeq(tunq, 1, n)
<1>1. /\ pc = "tun" /\ pc' = "write" /\ device = "tun" /\ device' = device
      /\ outgoing' = outgoing \o q /\ tunq' = SubSeq(tunq, n + 1, Len(tunq))
      /\ UNCHANGED <<load, received, asked, desc, seen_used, avail, used, kernel,
                     incoming, sent, written, dropped>>
  BY DEF ReadPackets, ringVars, TunInv, DevicePlaces
<1>2. /\ Queues /\ InSequence /\ Rx /\ Tx /\ "rx" \in Rings /\ "tx" \in Rings
  BY <1>1, VhostIs
<1>3. Typed' /\ Ordered' /\ \A r \in Rings : LineOf(r)' = LineOf(r)
  BY <1>1, Untouched
<1>4. /\ tunq \in Seq(Int) /\ outgoing \in Seq(Int) /\ Len(tunq) \in Nat /\ Len(outgoing) \in Nat
      /\ Len(sent) \in Nat /\ max_qlen - Len(outgoing) \in Nat /\ max_qlen \in Nat
  BY <1>2, TunAssumption DEF Queues, TunAssumption
<1>5. n \in 0 .. Len(tunq) /\ n <= max_qlen - Len(outgoing)
  <2> DEFINE room == max_qlen - Len(outgoing)
             l == Len(tunq)
  <2>1. l \in Nat /\ room \in Nat
    BY <1>4
  <2>2. n = IF reads THEN Min({l, room}) ELSE 0
    OBVIOUS
  <2> HIDE DEF n, room, l
  <2>3. Min({l, room}) \in {l, room} /\ Min({l, room}) <= l /\ Min({l, room}) <= room
    BY <2>1, MinTwo
  <2>4. n \in 0 .. l /\ n <= room
    BY <2>1, <2>2, <2>3
  <2> QED BY <2>4 DEF l, room
<1> HIDE DEF n
<1>6. q \in [1 .. n -> Int] /\ \A i \in 1 .. n : q[i] = tunq[i]
  <2> SUFFICES ASSUME NEW w, w = SubSeq(tunq, 1, n)
               PROVE  w \in [1 .. n -> Int] /\ \A i \in 1 .. n : w[i] = tunq[i]
    OBVIOUS
  <2>1. n \in Nat /\ n <= Len(tunq)
    BY <1>4, <1>5
  <2>2. w \in Seq(Int) /\ Len(w) = n
    BY <1>4, <2>1
  <2>3. \A i \in 1 .. n : w[i] = tunq[i]
    BY <1>4, <2>1
  <2>4. w \in [1 .. n -> Int]
    <3> HIDE DEF n
    <3>1. \A z \in Seq(Int) : z \in [1 .. Len(z) -> Int]
      OBVIOUS
    <3>2. w \in [1 .. Len(w) -> Int]
      BY <2>2, <3>1
    <3> QED BY <2>2, <3>2
  <2> QED BY <2>3, <2>4
<1> HIDE DEF q
<1>7. /\ tunq' \in Seq(Int) /\ Len(tunq') = Len(tunq) - n
      /\ \A i \in 1 .. Len(tunq') : tunq'[i] = tunq[i + n]
  <2> SUFFICES ASSUME NEW w, w = SubSeq(tunq, n + 1, Len(tunq))
               PROVE  /\ w \in Seq(Int) /\ Len(w) = Len(tunq) - n
                      /\ \A i \in 1 .. Len(w) : w[i] = tunq[i + n]
    BY <1>1
  <2>1. w \in Seq(Int) /\ Len(w) = Len(tunq) - n
    BY <1>4, <1>5
  <2>2. ASSUME NEW i \in 1 .. Len(w) PROVE w[i] = tunq[i + n]
    BY <1>4, <1>5, <2>1
  <2> QED BY <2>1, <2>2
<1> DEFINE x == LineOf("rx")
           g == Got
<1>8. /\ RxData(x, desc["rx"], g) /\ RxQueue(x, g) /\ g \in Nat /\ x.k = 0 /\ x.u = 0 /\ x.t = {}
      /\ g = Len(sent) + Len(outgoing) /\ x' = x
  <2>1. x.k = 0 /\ x.u = 0
    BY <1>1, <1>2 DEF TunInv, Idle
  <2>2. x.t = {}
    <3>1. Whole(x)
      BY <1>1, VhostIs
    <3> HIDE DEF x
    <3>2. IsFiniteSet(x.t) /\ Cardinality(x.t) = 0
      BY <2>1, <3>1 DEF Whole, Counted
    <3> QED BY <3>2, FS_EmptySet
  <2> QED BY <1>2, <1>3, <1>4, <2>1, <2>2 DEF Rx, Got
<1> HIDE DEF x, g
<1>9. asked = g + Len(tunq) /\ \A i \in 1 .. Len(tunq) : tunq[i] = g + i
  BY <1>4, <1>8 DEF RxQueue
<1>10. outgoing' \in Seq(Int) /\ Len(outgoing') = Len(outgoing) + n
  BY <1>1, <1>4, <1>5, <1>6, Extended
<1>11. \A i \in 1 .. Len(outgoing') : outgoing'[i] = Len(sent) + i
  <2>1. \A i \in 1 .. Len(outgoing) : outgoing[i] = Len(sent) + i
    BY <1>2 DEF InSequence
  <2>2. ASSUME NEW i \in 1 .. n PROVE q[i] = Len(sent) + Len(outgoing) + i
    <3>1. i \in 1 .. Len(tunq)
      BY <1>4, <1>5
    <3>2. q[i] = g + i
      BY <1>6, <1>9, <3>1
    <3> QED BY <1>8, <3>2
  <2>3. /\ n \in Nat /\ Len(sent) \in Int /\ outgoing \in Seq(Int)
        /\ q \in [1 .. n -> Int] /\ outgoing' = outgoing \o q
    BY <1>1, <1>4, <1>5, <1>6
  <2>4. \A i \in 1 .. n : q[i] = Len(sent) + Len(outgoing) + i
    BY <2>2
  <2>5. ASSUME NEW v, v = outgoing \o q PROVE \A i \in 1 .. Len(v) : v[i] = Len(sent) + i
    BY <2>1, <2>3, <2>4, <2>5, NumbersGoOn
  <2> QED BY <2>3, <2>5
<1>12. g' = g + n
  BY <1>1, <1>4, <1>5, <1>8, <1>10 DEF g, Got
<1>13. Rx'
  <2>1. RxData(x, desc["rx"], g + n)
    <3>1. \A i \in Offsets : ~(i < x.u)
      <4>1. x.u = 0 /\ \A i \in Offsets : i \in Nat
        BY <1>8, IndexNat
      <4> QED BY <4>1
    <3> QED BY <1>8, <3>1 DEF RxData
  <2>2. asked = (g + n) + x.k + Len(tunq')
    BY <1>4, <1>5, <1>7, <1>8, <1>9
  <2>3. ASSUME NEW i \in 1 .. Len(tunq') PROVE tunq'[i] = (g + n) + x.k + i
    <3>1. i + n \in 1 .. Len(tunq) /\ i \in Nat /\ n \in Nat
      BY <1>4, <1>5, <1>7
    <3>2. tunq'[i] = g + (i + n)
      BY <1>7, <1>9, <3>1
    <3> QED BY <1>8, <3>1, <3>2
  <2>4. /\ Got' = g + n /\ LineOf("rx")' = x /\ asked' = asked /\ desc' = desc
    BY <1>1, <1>8, <1>12 DEF g, x, ringVars
  <2>5. RxQueue(LineOf("rx"), Got)'
    BY <2>2, <2>3, <2>4 DEF RxQueue
  <2>6. RxData(LineOf("rx"), desc["rx"], Got)'
    BY <2>1, <2>4
  <2> QED BY <2>5, <2>6 DEF Rx
<1>14. Tx'
  BY <1>1, <1>2, <1>3 DEF Tx, Gone, Waiting, Finished
<1>15. Queues'
  BY <1>1, <1>2, <1>4, <1>5, <1>7, <1>10 DEF Queues
<1>16. InSequence'
  BY <1>1, <1>2, <1>11 DEF InSequence, Finished
<1>17. Idle' /\ DevicePlaces'
  BY <1>1, <1>3 DEF TunInv, Idle, DevicePlaces, RingPlaces
<1> QED BY <1>3, <1>13, <1>14, <1>15, <1>16, <1>17 DEF TunInv

\* Every step keeps the numbering.
LEMMA KeepsNumbers ==
  ASSUME TunInv, EventMeansIdle, [TunNext]_deviceVars
  PROVE  TunInv'
<1> USE DEF Rings
<1>1. CASE setup_vhost
  BY <1>1, Opens
<1>2. CASE VpnMoves
  BY <1>2, Turns
<1>3. CASE Crash
  BY <1>3, Closes
<1>4. CASE process_used_rx
  <2>1. device = "vhost" /\ TakeUsed("rx") /\ HasRoom /\ DevicePlaces'
    BY <1>4 DEF process_used_rx, TakeUsed, TunInv, DevicePlaces, RingPlaces
  <2> QED BY <2>1, Reuses
<1>5. CASE process_used_tx
  <2>1. device = "vhost" /\ TakeUsed("tx") /\ DevicePlaces'
    BY <1>5 DEF process_used_tx, TakeUsed, TunInv, DevicePlaces, RingPlaces
  <2> QED BY <2>1, Reuses
<1>6. CASE PrimeRx
  BY <1>6, Primes
<1>7. CASE QueueTx
  BY <1>7, QueuesTx
<1>8. CASE WriteTun
  BY <1>8, WritesEarly
<1>9. CASE ReadPackets
  BY <1>9, Reads
<1>10. CASE WritePacket
  BY <1>10, WritesDirect
<1>11. CASE SkipRx \/ Filled \/ Kick \/ Written \/ TunPoll
  BY <1>11, OnlyTheLoop
<1>12. ASSUME NEW r \in Rings, CheckEvent(r) \/ LookAtUsed(r) PROVE TunInv'
  BY <1>12, OnlyTheLoop
<1>13. ASSUME NEW r \in Rings, set_ring_wake(r) PROVE TunInv'
  BY <1>13, Looks
<1>14. ASSUME NEW r \in Rings, KernelStep(r) PROVE TunInv'
  <2>1. CASE Take(r)
    BY <2>1, TakesRx, TakesTx
  <2>2. CASE GiveBack(r)
    BY <2>2, Gives
  <2>3. CASE Call(r) \/ AskForKick(r) \/ LookAgain(r) \/ Kicked(r)
    BY <2>3, Looks
  <2> QED BY <1>14, <2>1, <2>2, <2>3 DEF KernelStep
<1>15. CASE AppSends
  BY <1>15, Sends
<1>16. CASE shutdown_vhost
  BY <1>16, Closes
<1>17. CASE UNCHANGED deviceVars
  <2>1. /\ UNCHANGED <<load, received, asked, tunq, queueVars, desc, seen_used, avail, used, kernel>>
        /\ device' = device /\ pc' = pc
    BY <1>17 DEF deviceVars, envVars, ringVars, loopVars
  <2>2. DevicePlaces'
    BY <2>1 DEF TunInv, DevicePlaces, RingPlaces
  <2>3. CASE device # "none"
    BY <2>1, <2>2, <2>3, RingsStay
  <2>4. CASE device = "none"
    BY <2>1, <2>2, <2>4 DEF TunInv, Queues, InSequence, Finished, queueVars
  <2> QED BY <2>3, <2>4
<1> QED
  BY <1>1, <1>2, <1>3, <1>4, <1>5, <1>6, <1>7, <1>8, <1>9, <1>10, <1>11, <1>12, <1>13, <1>14,
     <1>15, <1>16, <1>17 DEF TunNext, LoopStep

\* What the numbering says of the packets.
LEMMA NumbersMeanOrder ==
  ASSUME TunInv
  PROVE  PacketsInOrder
<1>1. Queues /\ InSequence
  BY DEF TunInv
<1>2. sent \o outgoing = OneTo(Len(sent \o outgoing))
  <2> SUFFICES ASSUME NEW v, v = sent \o outgoing PROVE v = OneTo(Len(v))
    OBVIOUS
  <2>1. sent \in Seq(Int) /\ outgoing \in Seq(Int) /\ Len(sent) \in Nat /\ Len(outgoing) \in Nat
    BY <1>1 DEF Queues
  <2>2. \A i \in 1 .. Len(sent) : sent[i] = 0 + i
    BY <1>1, <2>1 DEF InSequence
  <2>3. \A i \in 1 .. Len(outgoing) : outgoing[i] = 0 + Len(sent) + i
    BY <1>1, <2>1 DEF InSequence
  <2>4. outgoing \in [1 .. Len(outgoing) -> Int]
    BY <2>1
  <2>5. \A i \in 1 .. Len(v) : v[i] = 0 + i
    BY <2>1, <2>2, <2>3, <2>4, NumbersGoOn
  <2>6. v \in Seq(Int)
    BY <2>1, Joined
  <2>7. v \in [1 .. Len(v) -> Int] /\ Len(v) \in Nat
    <3>1. \A z \in Seq(Int) : z \in [1 .. Len(z) -> Int] /\ Len(z) \in Nat
      OBVIOUS
    <3> QED BY <2>6, <3>1
  <2>8. \A i \in 1 .. Len(v) : v[i] = i
    BY <2>5, <2>7
  <2>9. v = [i \in 1 .. Len(v) |-> i]
    BY <2>7, <2>8
  <2> QED BY <2>9 DEF OneTo
<1>3. \A i, j \in 1 .. Len(written) : i < j => written[i] < written[j]
  BY <1>1 DEF InSequence, Increasing
<1>4. Finished = 1 .. Cardinality(Finished)
  <2>1. PICK n \in 0 .. received : FirstOf(Finished, n)
    BY <1>1 DEF InSequence
  <2>2. n \in Nat
    BY <1>1, <2>1 DEF Queues
  <2>3. Finished = 1 .. n
    BY <2>1 DEF FirstOf
  <2>4. Cardinality(1 .. n) = n
    BY <2>2, FS_Interval
  <2> QED BY <2>3, <2>4
<1>5. Finished = {written[i] : i \in 1 .. Len(written)} \cup dropped
  BY DEF Finished, Elems
<1> HIDE DEF TunInv
<1> QED BY <1>2, <1>3, <1>4, <1>5 DEF PacketsInOrder

\* What neither end sees.
LEMMA TakeUsedLeaves ==
  ASSUME NEW r, TakeUsed(r)
  PROVE  UNCHANGED <<asked, received, sent, written, dropped>>
BY Zenon DEF TakeUsed, envVars

\* Seen from the server's end: applications' packets.
LEMMA ServerPipe == TunInv /\ [TunNext]_deviceVars => [ToServer!Next]_(ToServer!vars)
<1> SUFFICES ASSUME TunInv, [TunNext]_deviceVars PROVE [ToServer!Next]_(ToServer!vars)
  OBVIOUS
<1>1. CASE UNCHANGED <<asked, sent>>
  BY <1>1 DEF ToServer!vars
<1>2. CASE AppSends
  BY <1>2 DEF TunInv, Queues, AppSends, queueVars, ToServer!Next, ToServer!Put
<1>3. CASE VpnMoves /\ sent' = sent \o outgoing
  <2> DEFINE l == Len(sent)
             n == Len(outgoing)
  <2>1. /\ sent \in Seq(Int) /\ outgoing \in Seq(Int) /\ asked \in Nat
        /\ \A i \in 1 .. l : sent[i] = i
        /\ \A i \in 1 .. n : outgoing[i] = l + i
    BY DEF TunInv, Queues, InSequence
  <2>2. l \in Nat /\ n \in Nat /\ sent \in [1 .. l -> Int] /\ outgoing \in [1 .. n -> Int]
    BY <2>1
  <2>3. l + n <= asked
    <3>1. device # "none"
      BY <1>3 DEF VpnMoves, TunInv, DevicePlaces
    <3>2. /\ asked = l + n + LineOf("rx").k + Len(tunq) /\ Whole(LineOf("rx")) /\ tunq \in Seq(Int)
      BY <3>1, VhostIs DEF Rx, RxQueue, Got, Queues
    <3>3. \A x : Whole(x) => x.k \in Nat
      BY Apartness
    <3>4. LineOf("rx").k \in Nat /\ Len(tunq) \in Nat
      BY <3>2, <3>3
    <3> HIDE DEF l, n
    <3> QED BY <2>1, <2>2, <3>2, <3>4
  <2>4. ToServer!Gone(l)
    BY <2>1 DEF ToServer!Gone
  <2>5. outgoing = [i \in 1 .. n |-> l + i]
    BY <2>1, <2>2
  <2>6. asked' = asked
    BY <1>3 DEF VpnMoves
  <2> HIDE DEF l, n
  <2>7. CASE n = 0
    <3>1. outgoing = <<>>
      BY <2>1, <2>7 DEF n
    <3>2. sent' = sent
      BY <1>3, <2>1, <3>1
    <3> QED BY <2>6, <3>2 DEF ToServer!vars
  <2>8. CASE n # 0
    <3>1. n \in 1 .. asked - l
      BY <2>1, <2>2, <2>3, <2>8
    <3>2. sent' = sent \o [i \in 1 .. n |-> l + i]
      BY <1>3, <2>5
    <3>3. l \in 0 .. asked
      BY <2>1, <2>2, <2>3
    <3>4. ToServer!Take
      BY <2>4, <2>6, <3>1, <3>2, <3>3 DEF ToServer!Take
    <3> QED BY <3>4 DEF ToServer!Next
  <2> QED BY <2>7, <2>8
<1>4. CASE VpnMoves /\ UNCHANGED sent
  BY <1>1, <1>4 DEF VpnMoves
<1>5. CASE LoopStep /\ ~ VpnMoves
  <2>1. CASE process_used_rx \/ process_used_tx
    <3>1. PICK r \in Rings : TakeUsed(r)
      BY <2>1 DEF process_used_rx, process_used_tx, Rings
    <3>2. UNCHANGED <<asked, sent>>
      BY <3>1, TakeUsedLeaves
    <3> QED BY <1>1, <3>2
  <2>2. CASE \E r \in Rings : CheckEvent(r) \/ set_ring_wake(r) \/ LookAtUsed(r)
    BY <1>1, <2>2 DEF CheckEvent, set_ring_wake, LookAtUsed, envVars, queueVars
  <2>3. CASE setup_vhost \/ Crash \/ SkipRx \/ Filled \/ Kick \/ Written \/ TunPoll
    BY <1>1, <2>3 DEF setup_vhost, Crash, SkipRx, Filled, Kick, Written, TunPoll, envVars, queueVars
  <2>4. CASE PrimeRx \/ QueueTx \/ WriteTun \/ ReadPackets \/ WritePacket
    BY <1>1, <2>4 DEF PrimeRx, QueueTx, WriteTun, ReadPackets, WritePacket, envVars, queueVars
  <2> QED BY <1>5, <2>1, <2>2, <2>3, <2>4 DEF LoopStep
<1>6. CASE \E r \in Rings : KernelStep(r)
  BY <1>1, <1>6 DEF KernelStep, Take, GiveBack, Call, AskForKick, LookAgain, Kicked, envVars, queueVars
<1>7. CASE shutdown_vhost \/ UNCHANGED deviceVars
  BY <1>1, <1>7 DEF shutdown_vhost, deviceVars, envVars, queueVars
<1> QED
  BY <1>2, <1>3, <1>4, <1>5, <1>6, <1>7 DEF TunNext, VpnMoves

\* The next packet from the VPN comes out of the other pipe, or is lost.
LEMMA OutNext ==
  ASSUME NEW g \in Nat, FirstOf(Finished, g), g < received, received \in Nat, UNCHANGED received,
         written \in Seq(Int),
         \/ written' = Append(written, g + 1) /\ UNCHANGED dropped
         \/ dropped' = dropped \cup {g + 1} /\ UNCHANGED written
  PROVE  ToDevice!Next
<1>1. ToDevice!Gone(g) /\ g \in 0 .. received /\ g \in 0 .. received - 1
  BY DEF ToDevice!Gone, FirstOf, Finished, Elems
<1>2. CASE written' = Append(written, g + 1) /\ UNCHANGED dropped
  <2>1. Append(written, g + 1) = written \o [i \in 1 .. 1 |-> g + i]
    <3>1. [i \in 1 .. 1 |-> g + i] = <<g + 1>>
      OBVIOUS
    <3>2. Append(written, g + 1) = written \o <<g + 1>>
      BY AppendIsConcat
    <3> QED BY <3>1, <3>2
  <2>2. 1 \in 1 .. received - g
    OBVIOUS
  <2>3. ToDevice!Take
    BY <1>1, <1>2, <2>1, <2>2 DEF ToDevice!Take
  <2> QED BY <2>3 DEF ToDevice!Next
<1>3. CASE dropped' = dropped \cup {g + 1} /\ UNCHANGED written
  BY <1>1, <1>3 DEF ToDevice!Next, ToDevice!Lose
<1> QED BY <1>2, <1>3

LEMMA PipeWrites ==
  ASSUME TunInv, device # "none", incoming # <<>>, os_write_tun, Waiting = 0, UNCHANGED received
  PROVE  ToDevice!Next
<1>1. Queues /\ Tx /\ Waiting \in Nat
  BY VhostIs
<1>2. /\ Head(incoming) = Gone + 1 /\ received \in Nat /\ Gone = received - Len(incoming)
      /\ Len(incoming) \in Nat
  BY <1>1, HeadGone DEF Tx
<1>3. Gone \in Nat /\ FirstOf(Finished, Gone) /\ written \in Seq(Int) /\ incoming \in Seq(Int)
  BY <1>1 DEF Tx, Queues
<1>4. Gone < received
  <2>1. Len(incoming) # 0
    BY <1>3
  <2> QED BY <1>2, <1>3, <2>1
<1>5. \/ written' = Append(written, Gone + 1) /\ UNCHANGED dropped
      \/ dropped' = dropped \cup {Gone + 1} /\ UNCHANGED written
  BY <1>2 DEF os_write_tun
<1> QED BY <1>2, <1>3, <1>4, <1>5, OutNext

LEMMA PipeTakes ==
  ASSUME TunInv, Take("tx")
  PROVE  ToDevice!Next
<1> DEFINE x == LineOf("tx")
           m == desc["tx"]
           d == avail["tx"].ring[Slot(kernel["tx"].avail)]
<1>1. /\ device = "vhost" /\ kernel["tx"].avail # avail["tx"].idx
      /\ written' = Append(written, m[d])
      /\ kernel' = [kernel EXCEPT !["tx"].avail = Up(@), !["tx"].taken = @ \cup {d}]
      /\ UNCHANGED <<received, avail, used, seen_used, dropped>>
  BY DEF Take
<1>2. /\ Queues /\ Typed /\ Tx /\ Whole(x) /\ "tx" \in Rings
  BY <1>1, VhostIs
<1>3. x.k < x.a /\ d = x.n[x.k]
  BY <1>1, <1>2, TakeLine
<1> DEFINE g == Gone
<1>4. g \in Nat /\ TxData(x, m, g) /\ g = received - Len(incoming) - (x.a - x.k)
      /\ FirstOf(Finished, g)
  BY <1>2 DEF Tx, Gone, Waiting
<1>5. received \in Nat /\ Len(incoming) \in Nat /\ written \in Seq(Int)
  BY <1>2 DEF Queues
<1> HIDE DEF x, m, d, g
<1>6. m[d] = g + 1
  BY <1>2, <1>3, <1>4, TakenTx
<1>7. g < received
  <2>1. x.k \in Nat /\ x.a \in Nat
    BY <1>2, Apartness
  <2> QED BY <1>3, <1>4, <1>5, <2>1
<1>8. written' = Append(written, g + 1) /\ UNCHANGED dropped
  BY <1>1, <1>6
<1> QED BY <1>1, <1>4, <1>5, <1>7, <1>8, OutNext

\* Seen from the device's end: the server's packets.
LEMMA DevicePipe ==
  TunInv /\ EventMeansIdle /\ [TunNext]_deviceVars => [ToDevice!Next]_(ToDevice!vars)
<1> SUFFICES ASSUME TunInv, EventMeansIdle, [TunNext]_deviceVars
             PROVE  [ToDevice!Next]_(ToDevice!vars)
  OBVIOUS
<1>1. CASE UNCHANGED <<received, written, dropped>>
  BY <1>1 DEF ToDevice!vars
<1>2. CASE VpnMoves
  <2>1. PICK n \in 0 .. (load[1] - received) : received' = received + n
    BY <1>2 DEF VpnMoves
  <2>2. UNCHANGED <<written, dropped>> /\ received \in Nat
    BY <1>2 DEF VpnMoves, TunInv, Queues
  <2>3. CASE n = 0
    BY <1>1, <2>1, <2>2, <2>3
  <2>4. CASE n # 0
    <3>1. n \in Nat /\ n > 0
      BY <2>4
    <3> QED BY <2>1, <2>2, <3>1 DEF ToDevice!Next, ToDevice!Put
  <2> QED BY <2>3, <2>4
<1>3. CASE WriteTun
  BY <1>3, NoneWaiting, PipeWrites DEF WriteTun, envVars
<1>4. CASE WritePacket /\ os_write_tun
  <2>1. device = "tun"
    BY <1>4 DEF TunInv, DevicePlaces, WritePacket
  <2>2. Waiting = 0
    BY <2>1 DEF TunInv, Idle, Waiting, Rings
  <2> QED BY <1>4, <2>1, <2>2, PipeWrites DEF WritePacket
<1>5. CASE WritePacket /\ ~ os_write_tun
  BY <1>1, <1>5 DEF WritePacket
<1>6. CASE LoopStep /\ ~ VpnMoves /\ ~ WriteTun /\ ~ WritePacket
  <2>1. CASE process_used_rx \/ process_used_tx
    <3>1. PICK r \in Rings : TakeUsed(r)
      BY <2>1 DEF process_used_rx, process_used_tx, Rings
    <3>2. UNCHANGED <<received, written, dropped>>
      BY <3>1, TakeUsedLeaves
    <3> QED BY <1>1, <3>2
  <2>2. CASE \E r \in Rings : CheckEvent(r) \/ set_ring_wake(r) \/ LookAtUsed(r)
    BY <1>1, <2>2 DEF CheckEvent, set_ring_wake, LookAtUsed, envVars, queueVars
  <2>3. CASE setup_vhost \/ Crash \/ SkipRx \/ Filled \/ Kick \/ Written \/ TunPoll
    BY <1>1, <2>3 DEF setup_vhost, Crash, SkipRx, Filled, Kick, Written, TunPoll, envVars, queueVars
  <2>4. CASE PrimeRx \/ QueueTx \/ ReadPackets
    BY <1>1, <2>4 DEF PrimeRx, QueueTx, ReadPackets, envVars, queueVars
  <2> QED BY <1>6, <2>1, <2>2, <2>3, <2>4 DEF LoopStep
<1>7. CASE Take("tx")
  BY <1>7, PipeTakes
<1>8. CASE (\E r \in Rings : KernelStep(r)) /\ ~ Take("tx")
  <2>1. CASE Take("rx")
    BY <1>1, <2>1 DEF Take
  <2>2. ASSUME NEW r \in Rings, GiveBack(r) \/ Call(r) \/ AskForKick(r) \/ LookAgain(r) \/ Kicked(r)
        PROVE  [ToDevice!Next]_(ToDevice!vars)
    BY <1>1, <2>2 DEF GiveBack, Call, AskForKick, LookAgain, Kicked, envVars, queueVars
  <2> QED BY <1>8, <2>1, <2>2 DEF KernelStep, Rings
<1>9. CASE AppSends \/ shutdown_vhost \/ UNCHANGED deviceVars
  BY <1>1, <1>9 DEF AppSends, shutdown_vhost, deviceVars, envVars, queueVars
<1> QED
  BY <1>2, <1>3, <1>4, <1>5, <1>6, <1>7, <1>8, <1>9 DEF TunNext

\* Nothing is lost or out of order as long as avail_event means what the code takes it for
\* (process_ring(), vhost.c:548).
THEOREM OrderFollowsEvents == TunSpec /\ []EventMeansIdle => []PacketsInOrder
<1>1. TunInit => TunInv
  BY Begins
<1>2. TunInv /\ EventMeansIdle /\ [TunNext]_deviceVars => TunInv'
  BY KeepsNumbers
<1>3. TunInv => PacketsInOrder
  BY NumbersMeanOrder
<1> QED BY <1>1, <1>2, <1>3, PTL DEF TunSpec

\* Each direction is a pipe, as long as an index that equals avail_event means that the
\* kernel has nothing left (process_ring(), vhost.c:548).
THEOREM PipesFollowEvents == TunSpec /\ []EventMeansIdle => ImplementsPipes
<1>1. TunInit => TunInv /\ ToServer!Init /\ ToDevice!Init
  BY Begins DEF TunInit, ToServer!Init, ToDevice!Init
<1>2. TunInv /\ EventMeansIdle /\ [TunNext]_deviceVars => TunInv'
  BY KeepsNumbers
<1>3. TunInv /\ EventMeansIdle /\ [TunNext]_deviceVars =>
        [ToServer!Next]_(ToServer!vars) /\ [ToDevice!Next]_(ToDevice!vars)
  BY ServerPipe, DevicePipe
<1> QED
  BY <1>1, <1>2, <1>3, PTL DEF TunSpec, ImplementsPipes, ToServer!Spec, ToDevice!Spec
=============================================================================
