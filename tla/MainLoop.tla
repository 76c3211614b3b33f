------------------------------ MODULE MainLoop ------------------------------
(***************************************************************************)
(* openconnect_mainloop(), ssl_reconnect() and the command pipe.           *)
(*                                                                         *)
(* One thread runs the loop; commands come from a signal handler or from   *)
(* another thread, which writes a byte to the pipe and then sets           *)
(* need_poll_cmd_fd.  The loop reads the pipe in three places, one byte a  *)
(* time: at the foot of each round, in the pauses of ssl_reconnect(), and  *)
(* inside tcp_connect(), whose every wait also selects on the pipe.        *)
(*                                                                         *)
(* The tunnel protocols appear as what their tcp_mainloop may come back    *)
(* with; PPP may also ask for a delay before a close (delay_close).        *)
(***************************************************************************)
EXTENDS Integers, Sequences

CONSTANTS
  Commands,          \* the commands the caller may give, of those below
  Internal,          \* cmd_fd_internal: the pipe is fed by our own signal handler
  ReconnectTimeout,  \* reconnect_timeout, in units of ReconnectInterval
  ReconnectInterval, \* reconnect_interval: first pause, and its increment
  IntervalMax,       \* RECONNECT_INTERVAL_MAX
  MaxCommands,       \* bound: commands ever given
  MaxLosses,         \* bound: TLS connections lost
  MaxDelays          \* bound: times a protocol delays the tun device or the close

ASSUME MainLoopAssumption ==
  /\ Commands \subseteq {"cancel", "pause", "detach", "stats"}
  /\ Internal \in BOOLEAN
  /\ ReconnectTimeout \in Nat
  /\ ReconnectInterval \in Nat \ {0}
  /\ IntervalMax \in Nat /\ IntervalMax >= ReconnectInterval
  /\ MaxCommands \in Nat /\ MaxLosses \in Nat /\ MaxDelays \in Nat

VARIABLES
  pc,               \* where the library's thread is
  pipe,             \* bytes in the command pipe
  flagging,         \* the writer has written its byte and not yet set the flag
  need_poll_cmd_fd,
  got_cancel_cmd,
  got_pause_cmd,
  cancel_type,      \* "none" until the first cancel or detach is read
  delay_close,      \* "no", "wait" or "callback"
  ssl_up,           \* ssl_fd # -1 and the session is usable
  tun_up,           \* tun_is_up(), and at the end whether it ever was
  quit_reason,      \* "none" or why the session ends
  ret,              \* ret of openconnect_mainloop()
  did_work,
  timeout,          \* what is left of reconnect_timeout in ssl_reconnect()
  interval,         \* the next pause of ssl_reconnect()
  slept,            \* history: time ssl_reconnect() has spent in pauses
  close_session,    \* history: what vpn_close_session() did: "not_called",
                    \* "logged_off", or "aborted" by a pending cancel
  asked,            \* history: the commands that have been given
  given,            \* how many
  refused,          \* history: the call whose refusal by the system ended the loop
  losses, delays    \* counters for the bounds

loopVars      == <<did_work, quit_reason, ret, delay_close, close_session, delays>>
linkVars      == <<ssl_up, tun_up, losses>>
commandVars   == <<got_cancel_cmd, got_pause_cmd, cancel_type>>
reconnectVars == <<timeout, interval, slept>>
outsideVars   == <<flagging, asked, given, refused>>
vars == <<pc, pipe, need_poll_cmd_fd, linkVars, loopVars, commandVars,
          reconnectVars, outsideVars>>

Places == {"idle", "top", "tun", "tcp", "connect", "failed", "pausing", "listening", "paused",
           "poll", "select", "obey", "wait", "quit", "done"}

TypeOK ==
  /\ pc \in Places
  /\ pipe \in Seq(Commands)
  /\ flagging \in BOOLEAN /\ need_poll_cmd_fd \in BOOLEAN
  /\ got_cancel_cmd \in BOOLEAN /\ got_pause_cmd \in BOOLEAN
  /\ cancel_type \in {"none", "cancel", "detach"}
  /\ delay_close \in {"no", "wait", "callback"}
  /\ ssl_up \in BOOLEAN /\ tun_up \in BOOLEAN /\ did_work \in BOOLEAN
  /\ quit_reason \in {"none", "aborted_by_caller", "reconnect_failed", "server_request",
                     "no_tun_device"}
  /\ ret \in {"0", "-EINTR", "-ECONNABORTED", "-EPIPE", "-EPERM", "-EIO"}
  /\ timeout \in Int /\ interval \in 0 .. IntervalMax /\ slept \in Nat
  /\ close_session \in {"not_called", "logged_off", "aborted"}
  /\ asked \subseteq Commands /\ given \in 0 .. MaxCommands
  /\ refused \in {"none", "script", "user", "sleep"}
  /\ losses \in 0 .. MaxLosses /\ delays \in 0 .. MaxDelays

\* The tunnel has been made and openconnect_mainloop() not called yet.
Init ==
  /\ pc = "idle"
  /\ pipe = <<>> /\ flagging = FALSE
  /\ need_poll_cmd_fd = TRUE
  /\ got_cancel_cmd = FALSE /\ got_pause_cmd = FALSE /\ cancel_type = "none"
  /\ delay_close = "no"
  /\ ssl_up = TRUE /\ tun_up = FALSE
  /\ quit_reason = "none" /\ ret = "0" /\ did_work = FALSE
  /\ timeout = 0 /\ interval = 0 /\ slept = 0
  /\ close_session = "not_called"
  /\ asked = {} /\ given = 0 /\ refused = "none" /\ losses = 0 /\ delays = 0

-----------------------------------------------------------------------------
\* The caller: handle_signal(), or console_ctrl_handler() in a thread of its own.

WriteCommand(cmd) ==
  /\ ~ flagging /\ given < MaxCommands /\ pc # "done"
  /\ pipe' = Append(pipe, cmd)
  /\ asked' = asked \cup {cmd}
  /\ given' = given + 1
  /\ flagging' = Internal
  /\ UNCHANGED <<pc, refused, need_poll_cmd_fd, linkVars, loopVars, commandVars, reconnectVars>>

SetPollFlag ==
  /\ flagging
  /\ flagging' = FALSE
  /\ need_poll_cmd_fd' = TRUE
  /\ UNCHANGED <<pc, pipe, linkVars, loopVars, commandVars, reconnectVars, asked,
                 given, refused>>

-----------------------------------------------------------------------------
\* check_cmd_fd() with a readable pipe: one byte is read and noted.
check_cmd_fd ==
  LET cmd == Head(pipe) IN
  /\ pipe # <<>>
  /\ pipe' = Tail(pipe)
  /\ got_cancel_cmd' = (got_cancel_cmd \/ cmd \in {"cancel", "detach"})
  /\ cancel_type' = IF cmd \in {"cancel", "detach"} THEN cmd ELSE cancel_type
  /\ got_pause_cmd' = (got_pause_cmd \/ cmd = "pause")

Pending == got_cancel_cmd \/ got_pause_cmd

\* The application calls openconnect_mainloop(), and again after each pause.
Enter ==
  /\ pc = "idle"
  /\ pc' = "top"
  /\ ret' = "0"
  /\ UNCHANGED <<pipe, need_poll_cmd_fd, linkVars, did_work, quit_reason, delay_close,
                 close_session, delays, commandVars, reconnectVars, outsideVars>>

\* The head of a round.
Top ==
  /\ pc = "top"
  /\ pc' = IF quit_reason # "none" THEN "quit" ELSE IF tun_up THEN "tcp" ELSE "tun"
  /\ did_work' = FALSE
  /\ UNCHANGED <<pipe, need_poll_cmd_fd, linkVars, quit_reason, ret, delay_close,
                 close_session, delays, commandVars, reconnectVars, outsideVars>>

\* A protocol may put off setting up the tun device, for ESP or PPP to come up ...
TunDelayed ==
  /\ pc = "tun" /\ delays < MaxDelays
  /\ delays' = delays + 1
  /\ pc' = "tcp"
  /\ UNCHANGED <<pipe, need_poll_cmd_fd, linkVars, did_work, quit_reason, ret,
                 delay_close, close_session, commandVars, reconnectVars, outsideVars>>

\* ... else it is set up ...
TunSetUp ==
  /\ pc = "tun"
  /\ tun_up' = TRUE
  /\ ret' = "0"
  /\ pc' = "tcp"
  /\ UNCHANGED <<pipe, need_poll_cmd_fd, ssl_up, losses, did_work, quit_reason,
                 delay_close, close_session, delays, commandVars, reconnectVars,
                 outsideVars>>

\* ... or that fails, with the device up already if its descriptor cannot be made
\* non-blocking, and only for the device itself with a quit_reason ...
TunFails ==
  /\ pc = "tun"
  /\ tun_up' \in BOOLEAN
  /\ \/ quit_reason' = "no_tun_device" /\ UNCHANGED refused
     \/ refused' = "script" /\ UNCHANGED quit_reason
  /\ ret' = "-EIO"
  /\ pc' = "quit"
  /\ UNCHANGED <<pipe, need_poll_cmd_fd, ssl_up, losses, did_work, delay_close,
                 close_session, delays, commandVars, reconnectVars, flagging, asked,
                 given>>

\* ... or the device is up and setgid(), setgroups() or setuid() is refused.
ChangeUserFails ==
  /\ pc = "tun"
  /\ tun_up' = TRUE
  /\ refused' = "user"
  /\ ret' = "-EPERM"
  /\ pc' = "quit"
  /\ UNCHANGED <<pipe, need_poll_cmd_fd, ssl_up, losses, did_work, quit_reason,
                 delay_close, close_session, delays, commandVars, reconnectVars,
                 flagging, asked, given>>

\* proto->udp_mainloop() and tcp_mainloop() with the connection up and nothing
\* wrong.  PPP asks for time to terminate: when its network comes up, for the
\* command that will come one day, and again while it waits for a TERMACK.
TcpQuiet ==
  /\ pc = "tcp" /\ ssl_up
  /\ \/ UNCHANGED <<delay_close, delays>>
     \/ /\ delays < MaxDelays
        /\ delay_close' \in IF Pending THEN {"callback", "wait"} ELSE {"callback"}
        /\ delays' = delays + 1
  /\ did_work' \in BOOLEAN
  /\ ret' = "0"
  /\ pc' = "poll"
  /\ UNCHANGED <<pipe, need_poll_cmd_fd, linkVars, quit_reason, close_session,
                 commandVars, reconnectVars, outsideVars>>

\* The server ends the session.
TcpServerQuits ==
  /\ pc = "tcp" /\ ssl_up
  /\ quit_reason' = "server_request"
  /\ ret' = "-EPIPE"
  /\ pc' = "quit"
  /\ UNCHANGED <<pipe, need_poll_cmd_fd, linkVars, did_work, delay_close, close_session,
                 delays, commandVars, reconnectVars, outsideVars>>

\* A read or a write fails, the peer is dead, or the connection was closed by
\* a pause: ssl_reconnect() starts.
TcpLost ==
  /\ pc = "tcp"
  /\ ssl_up => losses < MaxLosses
  /\ losses' = IF ssl_up THEN losses + 1 ELSE losses
  /\ ssl_up' = FALSE
  /\ timeout' = ReconnectTimeout
  /\ interval' = ReconnectInterval
  /\ slept' = 0
  /\ pc' = "connect"
  /\ UNCHANGED <<pipe, need_poll_cmd_fd, tun_up, loopVars, commandVars, outsideVars>>

\* proto->tcp_connect() succeeds: every connect() waits at least once, and that
\* wait fails while a command is pending.
ConnectWorks ==
  /\ pc = "connect" /\ ~ Pending
  /\ ssl_up' = TRUE
  /\ did_work' = TRUE
  /\ ret' = "0"
  /\ pc' = "poll"
  /\ UNCHANGED <<pipe, need_poll_cmd_fd, tun_up, losses, quit_reason, delay_close,
                 close_session, delays, commandVars, reconnectVars, outsideVars>>

\* A wait of tcp_connect() finds the pipe readable: is_cancel_pending() reads
\* one byte, and a pending command makes the connection fail.  The error is
\* -EINTR from a TLS handshake and -EINVAL from connect_https_socket().
ConnectReadsCommand ==
  /\ pc = "connect"
  /\ check_cmd_fd
  /\ IF Pending' THEN pc' = "failed" /\ ret' \in {"-EINTR", "-EIO"}
                 ELSE pc' = "connect" /\ UNCHANGED ret
  /\ UNCHANGED <<need_poll_cmd_fd, linkVars, did_work, quit_reason, delay_close,
                 close_session, delays, reconnectVars, outsideVars>>

\* It fails for a command read before, or for another reason, 401 Unauthorized
\* among them.
ConnectFails ==
  /\ pc = "connect"
  /\ ret' \in IF Pending THEN {"-EINTR", "-EIO"} ELSE {"-EIO", "-EPERM"}
  /\ pc' = "failed"
  /\ UNCHANGED <<pipe, need_poll_cmd_fd, linkVars, did_work, quit_reason, delay_close,
                 close_session, delays, commandVars, reconnectVars, outsideVars>>

\* ssl_reconnect() gives up when its time is spent or the cookie is refused,
\* and otherwise pauses.
GivesUp == timeout <= 0 \/ ret = "-EPERM"

ConnectFailed ==
  /\ pc = "failed"
  /\ pc' = IF GivesUp THEN "quit" ELSE IF Pending THEN "paused" ELSE "pausing"
  /\ quit_reason' = IF GivesUp THEN "reconnect_failed" ELSE quit_reason
  /\ UNCHANGED <<pipe, need_poll_cmd_fd, linkVars, did_work, ret, delay_close,
                 close_session, delays, commandVars, reconnectVars, outsideVars>>

\* The pause is poll_cmd_fd(interval): clear the flag, select() for the time
\* left, and again until a cancel or a pause is read or the time is up, which
\* may be with bytes left in the pipe.
PauseListens ==
  /\ pc = "pausing"
  /\ need_poll_cmd_fd' = ~ Internal
  /\ pc' = "listening"
  /\ UNCHANGED <<pipe, linkVars, loopVars, commandVars, reconnectVars, outsideVars>>

PauseReads ==
  /\ pc = "listening"
  /\ check_cmd_fd
  /\ need_poll_cmd_fd' = TRUE
  /\ pc' \in IF Pending' THEN {"paused"} ELSE {"pausing", "paused"}
  /\ UNCHANGED <<linkVars, loopVars, reconnectVars, outsideVars>>

PauseTimesOut ==
  /\ pc = "listening" /\ pipe = <<>>
  /\ pc' = "paused"
  /\ UNCHANGED <<pipe, need_poll_cmd_fd, linkVars, loopVars, commandVars, reconnectVars,
                 outsideVars>>

NextInterval ==
  IF interval + ReconnectInterval > IntervalMax THEN IntervalMax
                                                ELSE interval + ReconnectInterval

\* Broken on purpose: the pause is not taken off the time left.
PauseOver_NoCountdown ==
  /\ pc = "paused" /\ ~ Pending
  /\ slept' = slept + interval
  /\ timeout' = timeout
  /\ interval' = NextInterval
  /\ pc' = "connect"
  /\ UNCHANGED <<pipe, need_poll_cmd_fd, linkVars, loopVars, commandVars, outsideVars>>

PauseOver ==
  /\ pc = "paused" /\ ~ Pending
  /\ slept' = slept + interval
  /\ timeout' = timeout - interval
  /\ interval' = NextInterval
  /\ pc' = "connect"
  /\ UNCHANGED <<pipe, need_poll_cmd_fd, linkVars, loopVars, commandVars, outsideVars>>

\* A cancel or detach ends ssl_reconnect() with -EINTR, which ends the
\* session; a pause ends it with 0, as if it had reconnected.
PauseCut ==
  /\ pc = "paused" /\ Pending
  /\ IF got_cancel_cmd
     THEN /\ ret' = "-EINTR"
          /\ quit_reason' = "reconnect_failed"
          /\ pc' = "quit"
          /\ UNCHANGED did_work
     ELSE /\ ret' = "0"
          /\ did_work' = TRUE
          /\ pc' = "poll"
          /\ UNCHANGED quit_reason
  /\ UNCHANGED <<pipe, need_poll_cmd_fd, linkVars, delay_close, close_session, delays,
                 commandVars, reconnectVars, outsideVars>>

\* if (need_poll_cmd_fd) poll_cmd_fd(0): the flag is cleared first ...
Poll ==
  /\ pc = "poll"
  /\ IF need_poll_cmd_fd /\ ~ Pending
     THEN pc' = "select" /\ need_poll_cmd_fd' = ~ Internal
     ELSE pc' = "obey" /\ UNCHANGED need_poll_cmd_fd
  /\ UNCHANGED <<pipe, linkVars, loopVars, commandVars, reconnectVars, outsideVars>>

\* ... and then the pipe is looked at, once; the flag is set again "until it's
\* *empty*".
PollEmpty ==
  /\ pc = "select" /\ pipe = <<>>
  /\ pc' = "obey"
  /\ UNCHANGED <<pipe, need_poll_cmd_fd, linkVars, loopVars, commandVars, reconnectVars,
                 outsideVars>>

\* Broken on purpose: one byte is read and the rest forgotten.
PollReads_FlagStaysClear ==
  /\ pc = "select"
  /\ check_cmd_fd
  /\ pc' = "obey"
  /\ UNCHANGED <<need_poll_cmd_fd, linkVars, loopVars, reconnectVars, outsideVars>>

PollReads ==
  /\ pc = "select"
  /\ check_cmd_fd
  /\ need_poll_cmd_fd' = TRUE
  /\ pc' = "obey"
  /\ UNCHANGED <<linkVars, loopVars, reconnectVars, outsideVars>>

\* Broken on purpose: the request for a delay is never dropped.
ObeyLater_ForEver ==
  /\ pc = "obey" /\ Pending /\ delay_close # "no"
  /\ ~ (got_cancel_cmd /\ got_pause_cmd)
  /\ did_work' = (did_work \/ delay_close = "callback")
  /\ pc' = "wait"
  /\ UNCHANGED <<pipe, need_poll_cmd_fd, linkVars, quit_reason, ret, delay_close,
                 close_session, delays, commandVars, reconnectVars, outsideVars>>

\* A protocol that asked for it gets one more round before the command is
\* obeyed; the request is dropped so that it is not a delay for ever.
ObeyLater ==
  /\ pc = "obey" /\ Pending /\ delay_close # "no"
  /\ ~ (got_cancel_cmd /\ got_pause_cmd)
  /\ did_work' = (did_work \/ delay_close = "callback")
  /\ delay_close' = "no"
  /\ pc' = "wait"
  /\ UNCHANGED <<pipe, need_poll_cmd_fd, linkVars, quit_reason, ret, close_session,
                 delays, commandVars, reconnectVars, outsideVars>>

\* Broken on purpose: a cancel gives no reason to close the session.
ObeyCancel_NoReason ==
  /\ pc = "obey" /\ got_cancel_cmd /\ delay_close = "no"
  /\ got_cancel_cmd' = FALSE
  /\ ret' = IF cancel_type = "cancel" THEN "-EINTR" ELSE "-ECONNABORTED"
  /\ pc' = "quit"
  /\ UNCHANGED <<pipe, need_poll_cmd_fd, linkVars, did_work, quit_reason, delay_close,
                 close_session, delays, got_pause_cmd, cancel_type, reconnectVars,
                 outsideVars>>

ObeyCancel ==
  /\ pc = "obey" /\ got_cancel_cmd /\ delay_close = "no"
  /\ got_cancel_cmd' = FALSE
  /\ IF cancel_type = "cancel"
     THEN ret' = "-EINTR" /\ quit_reason' = "aborted_by_caller"
     ELSE ret' = "-ECONNABORTED" /\ UNCHANGED quit_reason
  /\ pc' = "quit"
  /\ UNCHANGED <<pipe, need_poll_cmd_fd, linkVars, did_work, delay_close, close_session,
                 delays, got_pause_cmd, cancel_type, reconnectVars, outsideVars>>

\* All connections are closed and the loop returns 0.  With a cancel pending
\* too it is the cancel that drops the request for a delay, and the pause that
\* is obeyed in the same round.
ObeyPause ==
  /\ pc = "obey" /\ got_pause_cmd
  /\ got_cancel_cmd <=> delay_close # "no"
  /\ ssl_up' = FALSE
  /\ delay_close' = "no"
  /\ got_pause_cmd' = FALSE
  /\ ret' = "0"
  /\ pc' = "idle"
  /\ UNCHANGED <<pipe, need_poll_cmd_fd, tun_up, losses, did_work, quit_reason,
                 close_session, delays, got_cancel_cmd, cancel_type,
                 reconnectVars, outsideVars>>

NothingToObey ==
  /\ pc = "obey" /\ ~ Pending
  /\ pc' = "wait"
  /\ UNCHANGED <<pipe, need_poll_cmd_fd, linkVars, loopVars, commandVars, reconnectVars,
                 outsideVars>>

\* Another round at once if there was work, else sleep until the pipe is
\* readable ...
WakeForWork ==
  /\ pc = "wait"
  /\ did_work \/ pipe # <<>>
  /\ pc' = "top"
  /\ UNCHANGED <<pipe, need_poll_cmd_fd, linkVars, loopVars, commandVars, reconnectVars,
                 outsideVars>>

\* ... or a packet comes or a deadline passes.
WakeForEvent ==
  /\ pc = "wait" /\ ~ did_work /\ pipe = <<>>
  /\ pc' = "top"
  /\ UNCHANGED <<pipe, need_poll_cmd_fd, linkVars, loopVars, commandVars, reconnectVars,
                 outsideVars>>

\* epoll_wait() or select() fails, and not for a signal.
SleepFails ==
  /\ pc = "wait" /\ ~ did_work
  /\ refused' = "sleep"
  /\ ret' = "-EIO"
  /\ pc' = "quit"
  /\ UNCHANGED <<pipe, need_poll_cmd_fd, linkVars, did_work, quit_reason, delay_close,
                 close_session, delays, commandVars, reconnectVars, flagging, asked,
                 given>>

\* The way out: a session with a quit_reason is closed.  vpn_close_session()
\* of most protocols is an HTTPS request of its own, and a cancel that is
\* still pending makes its first wait fail.
Quit ==
  /\ pc = "quit"
  /\ close_session' = IF quit_reason = "none" THEN "not_called"
                      ELSE IF Pending THEN "aborted" ELSE "logged_off"
  /\ ssl_up' = FALSE
  /\ ret' = IF ret = "0" THEN "-EIO" ELSE ret
  /\ pc' = "done"
  /\ UNCHANGED <<pipe, need_poll_cmd_fd, tun_up, losses, did_work, quit_reason,
                 delay_close, delays, commandVars, reconnectVars, outsideVars>>

Caller == SetPollFlag \/ \E cmd \in Commands : WriteCommand(cmd)

\* Everything the library's thread does without the help of the network.
Runs ==
  \/ Enter \/ Top \/ TunDelayed \/ TunSetUp \/ TunFails \/ ChangeUserFails
  \/ TcpQuiet \/ TcpServerQuits \/ TcpLost
  \/ ConnectWorks \/ ConnectReadsCommand \/ ConnectFails \/ ConnectFailed
  \/ PauseListens \/ PauseReads \/ PauseTimesOut \/ PauseOver \/ PauseCut
  \/ Poll \/ PollEmpty \/ PollReads
  \/ ObeyLater \/ ObeyCancel \/ ObeyPause \/ NothingToObey
  \/ WakeForWork \/ Quit

Finished == pc = "done" /\ UNCHANGED vars

Next == Caller \/ Runs \/ WakeForEvent \/ SleepFails \/ Finished

\* The library's thread runs whenever it is not asleep, and a writer that has
\* written its byte goes on to set the flag.  A loop that has put off a command
\* sleeps no longer than the second PPP waits for a TERMACK; otherwise no packet
\* and no deadline is assumed to wake a sleeping loop.
Fairness == WF_vars(Runs) /\ WF_vars(SetPollFlag) /\ WF_vars(Pending /\ WakeForEvent)

Spec == Init /\ [][Next]_vars /\ Fairness

-----------------------------------------------------------------------------
\* A sleeping loop never misses a command: a byte in the pipe is read sooner
\* or later, although need_poll_cmd_fd is cleared and set by both sides without
\* a lock, or the session has ended.
CommandsAreRead == (pipe # <<>>) ~> (pipe = <<>> \/ pc = "done")

\* A cancel ends the session, whatever was in the pipe before it, also in the
\* middle of a reconnection, in a paused loop, and while PPP asks for delays.
CancelEnds == ("cancel" \in asked) ~> (pc = "done")

\* ssl_reconnect() pauses for reconnect_timeout and less than one more
\* interval, never longer.
ReconnectTimeBounded == slept < ReconnectTimeout + IntervalMax

\* A session whose tunnel has been up is left without an attempt to close it
\* after a detach, or when the system refused the tun script's socket, the change
\* of user or the sleep, which end the loop with no quit_reason; and only then.
OnlyDetachKeepsSession ==
  pc = "done" /\ tun_up
    => (close_session = "not_called"
          <=> refused # "none" \/ (ret = "-ECONNABORTED" /\ "detach" \in asked))

-----------------------------------------------------------------------------
=============================================================================
