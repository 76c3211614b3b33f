------------------------------- MODULE Client -------------------------------
(***************************************************************************)
(* The command-line client from its signal handlers to its exit: main(),   *)
(* background_self(), the tun device and its script, install_vpn_opts().   *)
(*                                                                         *)
(* Up to two processes run: the one that was started, and the one forked   *)
(* into the background, which takes the session over while its parent      *)
(* writes the pid file, frees its copy and exits.  They share the command  *)
(* pipe, the connection and the epoll descriptor; variables are copied.    *)
(* The rounds of the main loop are reduced to what they may find (the      *)
(* module MainLoop has them whole, logging off included), each protocol to *)
(* what its tcp_connect brings: an ip_info, or an error.                   *)
(***************************************************************************)
EXTENDS ScriptEnv

CONSTANTS
  Options,       \* the command lines: records [cookie, cookieonly, background, pidfile, script]
  Protocols,     \* of "anyconnect", "nc" and "f5"
  FirstOffers,   \* what the server may offer at first, a set of ip_infos for each line
  LaterOffers,   \* ... and on those that follow
  MaxTries,      \* attempts of ssl_reconnect() before its time is over
  MaxSignals,    \* bound: signals ever sent
  MaxLosses      \* bound: connections lost

\* What a server may say, and what the client puts in its place.
PppAddress == "ppp_ipv4"
Words   == STRING \cup {None, PppAddress}
IpInfos == [addr : Words, netmask : Words, addr6 : Words, netmask6 : Seq(Words),
            includes : Seq(Routes), excludes : Seq(Routes), dns : Seq(Words), nbns : Seq(Words)]

ASSUME ClientAssumption ==
  /\ \A o \in Options : /\ o.cookieonly \in 0 .. 3 /\ o.script \in {"none", "file", "tun"}
                        /\ {o.cookie, o.background, o.pidfile} \subseteq BOOLEAN
  /\ Protocols \subseteq {"anyconnect", "nc", "f5"}
  /\ LaterOffers \subseteq IpInfos /\ \A o \in Options : FirstOffers[o] \subseteq IpInfos
  /\ {MaxTries, MaxSignals, MaxLosses} \subseteq Nat

Processes == {"front", "back"}
Commands  == {"cancel", "detach", "pause"}

VARIABLES
  at,          \* where the process is that has the session
  options, protocol,
  worker,      \* that process
  exit,        \* the exit code of each process, Running before it has one
  parent,      \* the front process after fork(): "none", "forked", "wrote", "gone"
  pidfile,     \* "absent", "empty", or the process it names
  wrote_pid,
  pipe,        \* the command pipe
  need_poll_cmd_fd, \* of each process
  got_cmd,     \* the cancel or detach that was read, or None
  got_pause_cmd,
  ret,
  ssl,         \* "down" or "up": ssl_fd
  tun,         \* "down" or "up": tun_fd
  epoll,       \* the descriptors the epoll descriptor watches
  ip_info,     \* NoAddresses until something is installed
  script_env,
  script,      \* the reasons the script was run for
  tries, signals, losses

procVars   == <<worker, exit, parent, pidfile, wrote_pid>>
cmdVars    == <<pipe, need_poll_cmd_fd, got_cmd, got_pause_cmd, signals>>
linkVars   == <<ssl, epoll, losses, tries>>
tunVars    == <<tun, script_env, script>>
fixed      == <<options, protocol>>
vars == <<at, fixed, procVars, cmdVars, ret, linkVars, tunVars, ip_info>>

Running == 100
NoAddresses == [addr |-> None, netmask |-> None, addr6 |-> None, netmask6 |-> <<>>,
                includes |-> <<>>, excludes |-> <<>>, dns |-> <<>>, nbns |-> <<>>]

TypeOK ==
  /\ options \in Options /\ protocol \in Protocols
  /\ worker \in Processes /\ exit \in [Processes -> {Running, 0, 1, 2}]
  /\ parent \in {"none", "forked", "wrote", "gone"}
  /\ pidfile \in {"absent", "empty"} \cup Processes /\ wrote_pid \in BOOLEAN
  /\ pipe \in Seq(Commands) /\ need_poll_cmd_fd \in [Processes -> BOOLEAN]
  /\ got_cmd \in {None, "cancel", "detach"} /\ got_pause_cmd \in BOOLEAN
  /\ ret \in {"0", "-EPERM", "-EINVAL", "-EINTR", "-ECONNABORTED", "-EPIPE", "-EIO"}
  /\ ssl \in {"down", "up"} /\ tun \in {"down", "up"}
  /\ epoll \subseteq {"cmd", "ssl", "tun"}
  /\ signals \in 0 .. MaxSignals /\ losses \in 0 .. MaxLosses /\ tries \in 0 .. MaxTries

\* main() has set up the handlers and the pipe.
Init ==
  /\ at = "cookie"
  /\ options \in Options /\ protocol \in Protocols
  /\ worker = "front" /\ exit = [p \in Processes |-> Running]
  /\ parent = "none" /\ pidfile = "absent" /\ wrote_pid = FALSE
  /\ pipe = <<>> /\ need_poll_cmd_fd = [p \in Processes |-> TRUE]
  /\ got_cmd = None /\ got_pause_cmd = FALSE
  /\ ret = "0" /\ ssl = "down" /\ tun = "down" /\ epoll = {}
  /\ ip_info = NoAddresses
  /\ script_env = [o \in {} |-> Unset] /\ script = <<>>
  /\ signals = 0 /\ losses = 0 /\ tries = 0

-----------------------------------------------------------------------------
(* Signals.  handle_signal() runs in the process the signal was sent to,   *)
(* but writes to the one pipe.                                             *)

Alive(p) == IF p = worker THEN exit[p] = Running ELSE parent \in {"forked", "wrote"}

\* sig_vpninfo is NULL once the parent has its pid file written.
Signal(p, cmd) ==
  /\ Alive(p) /\ signals < MaxSignals
  /\ signals' = signals + 1
  /\ pipe' = Append(pipe, cmd)
  /\ need_poll_cmd_fd' = IF p = worker \/ parent = "forked"
                         THEN [need_poll_cmd_fd EXCEPT ![p] = TRUE] ELSE need_poll_cmd_fd
  /\ UNCHANGED <<at, fixed, procVars, got_cmd, got_pause_cmd, ret, linkVars, tunVars,
                 ip_info>>

ReadCommand ==
  /\ pipe # <<>>
  /\ pipe' = Tail(pipe)
  /\ got_cmd' = IF Head(pipe) = "pause" THEN got_cmd ELSE Head(pipe)
  /\ got_pause_cmd' = (got_pause_cmd \/ Head(pipe) = "pause")

\* check_cmd_fd() in a wait of a connection: one byte is read, when there is one.
Listen == IF pipe # <<>> THEN ReadCommand ELSE UNCHANGED <<pipe, got_cmd, got_pause_cmd>>
Cancelled == got_cmd # None \/ got_pause_cmd

\* poll_cmd_fd() looks only when nothing is pending.
Hear == IF Cancelled THEN UNCHANGED <<pipe, got_cmd, got_pause_cmd>> ELSE Listen

-----------------------------------------------------------------------------
(* Getting connected.                                                      *)

\* The process ends; free() of what it has closes the connection.
Exit(code) ==
  /\ at' = "gone"
  /\ exit' = [exit EXCEPT ![worker] = code]
  /\ ssl' = "down" /\ epoll' = {}

\* openconnect_obtain_cookie(), which a command ends.
ObtainCookie ==
  /\ at = "cookie" /\ ~ options.cookie
  /\ Listen
  /\ IF Cancelled' THEN Exit(1)
     ELSE \/ /\ at' = "have"
             /\ ssl' = "up" /\ UNCHANGED <<exit, epoll>>
          \/ Exit(1)
  /\ UNCHANGED <<fixed, worker, parent, pidfile, wrote_pid, need_poll_cmd_fd, signals, ret,
                 losses, tries, tunVars, ip_info>>

CookieGiven ==
  /\ at = "cookie" /\ options.cookie
  /\ at' = "have"
  /\ UNCHANGED <<fixed, procVars, cmdVars, ret, ssl, epoll, losses, tries, tunVars, ip_info>>

\* --authenticate and --cookieonly print what they have and keep the session;
\* --printcookie goes on.
PrintCookie ==
  /\ at = "have"
  /\ IF options.cookieonly \in {1, 3} THEN Exit(0)
     ELSE at' = "connect" /\ UNCHANGED <<exit, ssl, epoll>>
  /\ UNCHANGED <<fixed, worker, parent, pidfile, wrote_pid, cmdVars, ret, losses,
                 tries, tunVars, ip_info>>

\* What a protocol takes from an offer: Network Connect knows no IPv6, and F5
\* no address but that of PPP.
Parsed(offer) ==
  CASE protocol = "nc" -> [offer EXCEPT !.addr6 = None, !.netmask6 = <<>>]
    [] protocol = "f5" -> [offer EXCEPT !.addr = None, !.addr6 = None, !.netmask6 = <<>>]
    [] OTHER -> offer

\* install_vpn_opts(): an offer without an address is an error but for F5 and,
\* on a reconnection, Network Connect, and what was there must not change.
NoAddress(new) == new.addr = None /\ new.addr6 = None /\ new.netmask6 = <<>>

Kept(old, new, none) == old = none \/ new = old

Unmoved(new) ==
  /\ Kept(ip_info.addr, new.addr, None) /\ Kept(ip_info.netmask, new.netmask, None)
  /\ Kept(ip_info.addr6, new.addr6, None) /\ Kept(ip_info.netmask6, new.netmask6, <<>>)

KeepsOldAddress(new) == NoAddress(new) /\ protocol = "nc" /\ ip_info.addr # None

Installed(new) ==
  IF KeepsOldAddress(new)
  THEN [new EXCEPT !.addr = ip_info.addr,
                   !.netmask = IF @ = None THEN ip_info.netmask ELSE @]
  ELSE new

\* Broken on purpose: the netmasks are not compared.
InstallError_AddressOnly(new) ==
  CASE KeepsOldAddress(new) -> "0"
    [] NoAddress(new) /\ protocol # "f5" -> "-EINVAL"
    [] ~ Kept(ip_info.addr, new.addr, None) -> "-EPERM"
    [] OTHER -> "0"

InstallError(new) ==
  CASE KeepsOldAddress(new) -> "0"
    [] NoAddress(new) /\ protocol # "f5" -> "-EINVAL"
    [] ~ Unmoved(new) -> "-EPERM"
    [] OTHER -> "0"

install_vpn_opts(new) ==
  ip_info' = IF InstallError(new) = "0" THEN Installed(new) ELSE ip_info

\* The connection is made: monitor_fd_new(ssl).
SslUp == ssl' = "up" /\ epoll' = epoll \cup {"ssl"}
SslDown == ssl' = "down" /\ epoll' = epoll \ {"ssl"}

make_cstp_connection ==
  /\ at = "connect"
  /\ Listen
  /\ IF Cancelled' THEN /\ ret' \in {"-EINTR", "-EINVAL"}
                        /\ at' = "out" /\ SslDown /\ UNCHANGED ip_info
     ELSE \/ /\ ret' \in {"-EPERM", "-EINVAL"}
             /\ at' = "out" /\ SslDown /\ UNCHANGED ip_info
          \/ \E new \in {Parsed(offer) : offer \in FirstOffers[options]} :
               /\ install_vpn_opts(new)
               /\ ret' = InstallError(new)
               /\ IF ret' = "0" THEN at' = "enter" /\ SslUp ELSE at' = "out" /\ SslDown
  /\ UNCHANGED <<fixed, procVars, need_poll_cmd_fd, signals, losses,
                 tries, tunVars>>

-----------------------------------------------------------------------------
(* The main loop.                                                          *)

\* openconnect_mainloop(): the command pipe is watched.
Enter ==
  /\ at = "enter"
  /\ at' = "round" /\ ret' = "0"
  /\ epoll' = epoll \cup {"cmd"}
  /\ UNCHANGED <<fixed, procVars, cmdVars, ssl, losses, tries, tunVars,
                 ip_info>>

\* F5 has no address, and delays the tun device, until PPP is up.
DelaysTun == protocol = "f5" /\ ip_info.addr = None

Round ==
  /\ at = "round"
  /\ at' = IF tun = "down" /\ ~ DelaysTun THEN "tun" ELSE "work"
  /\ UNCHANGED <<fixed, procVars, cmdVars, ret, linkVars, tunVars, ip_info>>

\* The loop ends.
Quit(err) == at' = "end" /\ ret' = err

\* setup_tun_device() calls fully_up_cb() first, and that background_self():
\* the pid file is opened, and then the process forks.
StayInFront ==
  /\ at = "tun" /\ (~ options.background \/ parent # "none")
  /\ at' = "device"
  /\ UNCHANGED <<fixed, procVars, cmdVars, ret, linkVars, tunVars, ip_info>>

background_self ==
  /\ at = "tun" /\ options.background /\ parent = "none"
  /\ worker' = "back" /\ parent' = "forked" /\ at' = "device"
  /\ wrote_pid' = options.pidfile
  /\ pidfile' = IF options.pidfile THEN "empty" ELSE pidfile
  /\ need_poll_cmd_fd' = [need_poll_cmd_fd EXCEPT !["back"] = need_poll_cmd_fd["front"]]
  /\ UNCHANGED <<fixed, exit, pipe, got_cmd, got_pause_cmd, signals, ret, linkVars,
                 tunVars, ip_info>>

\* The file cannot be opened, or the process does not fork: an exit at once.
BackgroundFails ==
  /\ at = "tun" /\ options.background /\ parent = "none"
  /\ pidfile' \in IF options.pidfile THEN {"absent", "empty"} ELSE {"absent"}
  /\ Exit(1)
  /\ UNCHANGED <<fixed, worker, parent, wrote_pid, cmdVars, ret, losses, tries,
                 tunVars, ip_info>>

\* Broken on purpose: the parent opens the file only here.
ParentWritesPid_Creates ==
  /\ parent = "forked"
  /\ parent' = "wrote"
  /\ pidfile' = IF options.pidfile THEN "back" ELSE pidfile
  /\ UNCHANGED <<at, fixed, worker, exit, wrote_pid, cmdVars, ret, linkVars, tunVars, ip_info>>

\* The parent writes to the file it has open, whose name may be gone.
ParentWritesPid ==
  /\ parent = "forked"
  /\ parent' = "wrote"
  /\ pidfile' = IF pidfile = "empty" THEN "back" ELSE pidfile
  /\ UNCHANGED <<at, fixed, worker, exit, wrote_pid, cmdVars, ret, linkVars, tunVars, ip_info>>

\* Broken on purpose: the parent unmonitors what it closes, in the epoll
\* descriptor it shares with its child.
ParentExits_Unmonitors ==
  /\ parent = "wrote"
  /\ parent' = "gone" /\ exit' = [exit EXCEPT !["front"] = 0]
  /\ epoll' = epoll \ {"ssl"}
  /\ UNCHANGED <<at, fixed, worker, pidfile, wrote_pid, cmdVars, ret, ssl, losses,
                 tries, tunVars, ip_info>>

\* The parent frees its copy, with epoll_fd set to -1 before.
ParentExits ==
  /\ parent = "wrote"
  /\ parent' = "gone" /\ exit' = [exit EXCEPT !["front"] = 0]
  /\ UNCHANGED <<at, fixed, worker, pidfile, wrote_pid, cmdVars, ret, linkVars, tunVars,
                 ip_info>>

-----------------------------------------------------------------------------
(* The tun device.                                                         *)

\* script_config_tun() waits for the script; what it returns is ignored.
script_config_tun(reason) ==
  script' = IF options.script = "file" THEN Append(script, reason) ELSE script

TunIsUp == tun' = "up" /\ epoll' = epoll \cup {"tun"}

\* openconnect_setup_tun_script(): the script is started with its end of a
\* socket pair, or that fails, after the start of the script too.
SetupTunScript ==
  /\ at = "device" /\ options.script = "tun"
  /\ script_env' = prepare_script_env(script_env, ip_info, worker)
  /\ \/ TunIsUp /\ at' = "user" /\ UNCHANGED ret
     \/ Quit("-EIO") /\ tun' \in {"down", "up"} /\ UNCHANGED epoll
  /\ UNCHANGED <<fixed, procVars, cmdVars, ssl, losses, tries, script, ip_info>>

PreInit ==
  /\ at = "device" /\ options.script # "tun"
  /\ script_env' = prepare_script_env(script_env, ip_info, worker)
  /\ script_config_tun("pre-init")
  /\ at' = "open"
  /\ UNCHANGED <<fixed, procVars, cmdVars, ret, linkVars, tun, ip_info>>

OsSetupTun ==
  /\ at = "open"
  /\ \/ script_config_tun("connect") /\ at' = "tunfd" /\ UNCHANGED ret
     \/ Quit("-EIO") /\ UNCHANGED script
  /\ UNCHANGED <<fixed, procVars, cmdVars, linkVars, tun, script_env, ip_info>>

\* Broken on purpose: tun_fd is set when nothing can fail any more.
SetupTunFd_Late ==
  /\ at = "tunfd"
  /\ \/ TunIsUp /\ at' = "user" /\ UNCHANGED ret
     \/ Quit("-EIO") /\ UNCHANGED <<tun, epoll>>
  /\ UNCHANGED <<fixed, procVars, cmdVars, ssl, losses, tries, script, script_env,
                 ip_info>>

\* openconnect_setup_tun_fd(): tun_fd is set, and then made nonblocking.
SetupTunFd ==
  /\ at = "tunfd"
  /\ \/ TunIsUp /\ at' = "user" /\ UNCHANGED ret
     \/ Quit("-EIO") /\ tun' = "up" /\ UNCHANGED epoll
  /\ UNCHANGED <<fixed, procVars, cmdVars, ssl, losses, tries, script, script_env,
                 ip_info>>

\* setgid(), setgroups() and setuid(), with an error that main() takes for
\* the server's.
ChangeUser ==
  /\ at = "user"
  /\ \/ at' = "work" /\ UNCHANGED ret
     \/ Quit("-EPERM")
  /\ UNCHANGED <<fixed, procVars, cmdVars, linkVars, tunVars, ip_info>>

-----------------------------------------------------------------------------
(* A round, and the end.                                                   *)

\* PPP has its addresses.
PppUp ==
  /\ at = "work" /\ ssl = "up" /\ DelaysTun
  /\ ip_info' = [ip_info EXCEPT !.addr = PppAddress]
  /\ at' = "poll"
  /\ UNCHANGED <<fixed, procVars, cmdVars, ret, linkVars, tunVars>>

Work ==
  /\ at = "work" /\ ssl = "up"
  /\ at' = "poll"
  /\ UNCHANGED <<fixed, procVars, cmdVars, ret, linkVars, tunVars, ip_info>>

ServerQuits ==
  /\ at = "work" /\ ssl = "up"
  /\ Quit("-EPIPE")
  /\ UNCHANGED <<fixed, procVars, cmdVars, linkVars, tunVars, ip_info>>

\* os_write_tun() finds that the script has gone.
TunScriptDies ==
  /\ at = "work" /\ options.script = "tun" /\ tun = "up"
  /\ Quit("-EIO")
  /\ UNCHANGED <<fixed, procVars, cmdVars, linkVars, tunVars, ip_info>>

\* ssl_reconnect() for a lost connection, or after a pause.
Lose ==
  /\ at = "work" /\ (ssl = "down" \/ losses < MaxLosses)
  /\ losses' = IF ssl = "up" THEN losses + 1 ELSE losses
  /\ SslDown
  /\ tries' = MaxTries
  /\ at' = "reconnect"
  /\ UNCHANGED <<fixed, procVars, cmdVars, ret, tunVars, ip_info>>

AttemptReconnect ==
  /\ at = "reconnect"
  /\ IF tun = "up" THEN script_config_tun("attempt-reconnect") ELSE UNCHANGED script
  /\ at' = "attempt"
  /\ UNCHANGED <<fixed, procVars, cmdVars, ret, linkVars, tun, script_env, ip_info>>

\* tcp_connect() brings no new addresses for F5, whose PPP session goes on.
Reconnected ==
  /\ at = "attempt" /\ ~ Cancelled
  /\ \/ protocol = "f5" /\ UNCHANGED ip_info
     \/ /\ protocol # "f5"
        /\ \E new \in {Parsed(offer) : offer \in LaterOffers} :
             InstallError(new) = "0" /\ install_vpn_opts(new)
  /\ SslUp
  /\ IF tun = "up" THEN script_config_tun("reconnect") ELSE UNCHANGED script
  /\ at' = "poll"
  /\ UNCHANGED <<fixed, procVars, cmdVars, ret, losses, tries, tun, script_env>>

ConnectFails ==
  /\ at = "attempt"
  /\ Listen
  /\ \E err \in IF Cancelled' THEN {"-EINTR", "-EINVAL"} ELSE {"-EPERM", "-EINVAL"} :
       IF tries = 0 \/ err = "-EPERM" THEN Quit(err)
                                     ELSE at' = "pause" /\ UNCHANGED ret
  /\ UNCHANGED <<fixed, procVars, need_poll_cmd_fd, signals, linkVars, tunVars, ip_info>>

Pause ==
  /\ at = "pause"
  /\ Hear
  /\ CASE got_cmd' # None -> Quit("-EINTR") /\ UNCHANGED tries
       [] got_cmd' = None /\ got_pause_cmd' -> at' = "poll" /\ UNCHANGED <<ret, tries>>
       [] OTHER -> at' = "reconnect" /\ tries' = tries - 1 /\ UNCHANGED ret
  /\ UNCHANGED <<fixed, procVars, need_poll_cmd_fd, signals, ssl, epoll, losses, tunVars,
                 ip_info>>

\* poll_cmd_fd(0), when the flag of this process is set.
Poll ==
  /\ at = "poll"
  /\ IF need_poll_cmd_fd[worker]
     THEN Hear /\ need_poll_cmd_fd' = [need_poll_cmd_fd EXCEPT ![worker] = pipe # <<>>]
     ELSE UNCHANGED <<pipe, got_cmd, got_pause_cmd, need_poll_cmd_fd>>
  /\ at' = "obey"
  /\ UNCHANGED <<fixed, procVars, signals, ret, linkVars, tunVars, ip_info>>

ObeyCancel ==
  /\ at = "obey" /\ got_cmd # None
  /\ IF got_cmd = "cancel" THEN Quit("-EINTR") ELSE Quit("-ECONNABORTED")
  /\ got_cmd' = None
  /\ UNCHANGED <<fixed, procVars, pipe, need_poll_cmd_fd, got_pause_cmd, signals, linkVars,
                 tunVars, ip_info>>

\* The loop returns 0 and main() calls it again.
ObeyPause ==
  /\ at = "obey" /\ got_cmd = None /\ got_pause_cmd
  /\ got_pause_cmd' = FALSE
  /\ ssl' = "down" /\ epoll' = epoll \ {"ssl", "cmd"}
  /\ at' = "enter"
  /\ UNCHANGED <<fixed, procVars, pipe, need_poll_cmd_fd, got_cmd, signals, ret,
                 losses, tries, tunVars, ip_info>>

Sleep ==
  /\ at = "obey" /\ ~ Cancelled
  /\ at' = "wait"
  /\ UNCHANGED <<fixed, procVars, cmdVars, ret, linkVars, tunVars, ip_info>>

\* epoll_wait() returns for the pipe, for a packet or a timer.
Wake ==
  /\ at = "wait"
  /\ at' = "round"
  /\ UNCHANGED <<fixed, procVars, cmdVars, ret, linkVars, tunVars, ip_info>>

\* The foot of openconnect_mainloop(): os_shutdown_tun().
End ==
  /\ at = "end"
  /\ IF tun = "up" THEN script_config_tun("disconnect") ELSE UNCHANGED script
  /\ tun' = "down" /\ epoll' = epoll \ {"tun", "cmd"}
  /\ at' = "unlink"
  /\ UNCHANGED <<fixed, procVars, cmdVars, ret, ssl, losses, tries, script_env, ip_info>>

UnlinkPidFile ==
  /\ at = "unlink"
  /\ pidfile' = IF wrote_pid THEN "absent" ELSE pidfile
  /\ at' = "out"
  /\ UNCHANGED <<fixed, worker, exit, parent, wrote_pid, cmdVars, ret, linkVars, tunVars,
                 ip_info>>

ExitCode == CASE ret = "-EPERM" -> 2
              [] ret \in {"-EINTR", "-ECONNABORTED"} -> 0
              [] OTHER -> 1

Out ==
  /\ at = "out"
  /\ Exit(ExitCode)
  /\ UNCHANGED <<fixed, worker, parent, pidfile, wrote_pid, cmdVars, ret, losses,
                 tries, tunVars, ip_info>>

\* Nothing is left to run.
Ended == at = "gone" /\ parent \in {"none", "gone"}

Rest == Ended /\ UNCHANGED vars

Session == \/ ObtainCookie \/ CookieGiven \/ PrintCookie \/ make_cstp_connection
           \/ Enter \/ Round \/ StayInFront \/ background_self \/ BackgroundFails
           \/ SetupTunScript \/ PreInit \/ OsSetupTun \/ SetupTunFd \/ ChangeUser
           \/ PppUp \/ Work \/ ServerQuits \/ TunScriptDies \/ Lose
           \/ AttemptReconnect \/ Reconnected \/ ConnectFails \/ Pause
           \/ Poll \/ ObeyCancel \/ ObeyPause \/ Sleep \/ Wake
           \/ End \/ UnlinkPidFile \/ Out

Next == \/ Session
        \/ ParentWritesPid \/ ParentExits
        \/ \E p \in Processes, cmd \in Commands : Signal(p, cmd)
        \/ Rest

Spec == Init /\ [][Next]_vars /\ WF_vars(Session) /\ WF_vars(ParentWritesPid \/ ParentExits)

-----------------------------------------------------------------------------
(* Properties.                                                             *)

Runs(reason) == Cardinality({i \in 1 .. Len(script) : script[i] = reason})

\* vpnc-script is run in order and in pairs: reconnect only right after an
\* attempt, both only after connect, disconnect last, and a process that ends
\* after connect has run it, whatever failed in between (tun.c, mainloop.c).
ScriptPaired ==
  /\ at = "gone" => Runs("disconnect") = Runs("connect")
  /\ Runs("connect") <= 1
  /\ \A i \in 1 .. Len(script) :
       /\ script[i] \notin {"pre-init", "connect"} => \E j \in 1 .. i - 1 : script[j] = "connect"
       /\ script[i] = "reconnect" => script[i - 1] = "attempt-reconnect"
       /\ script[i] = "disconnect" => i = Len(script)

Told(opt, values) == opt \in DOMAIN script_env => script_env[opt] \in values

\* What the script was told when the tunnel came up stays true while it is up,
\* through every reconnection: the process to signal, and the addresses and
\* netmasks of the interface (install_vpn_opts(), "Reconnect gave different").
ToldTruth ==
  tun = "up" =>
    /\ Told(<<"VPNPID">>, {<<worker>>})
    /\ Told(<<"INTERNAL_IP4_ADDRESS">>, {<<ip_info.addr>>})
    /\ Told(<<"INTERNAL_IP4_NETMASK">>, {<<ip_info.netmask>>})
    /\ Told(<<"INTERNAL_IP6_NETMASK">>, {ip_info.netmask6})
    /\ Told(<<"INTERNAL_IP6_ADDRESS">>, {<<ip_info.addr6>>} \cup
         IF ip_info.netmask6 = <<>> THEN {} ELSE {AddressOf(ip_info.netmask6)})

\* Once the command has returned, the pid file names the process in the
\* background while it runs the session, and is gone when that has ended,
\* whichever of the two processes was the faster (background_self(), main()).
PidTruth ==
  parent = "gone" /\ options.pidfile =>
    pidfile = IF at \in {"out", "gone"} THEN "absent" ELSE "back"

\* The loop never goes to sleep without watching for commands, for the
\* connection and for the tun device, although the process it was forked from
\* shares the epoll descriptor and cleans up at a time of its own.
LoopHears ==
  at = "wait" => {"cmd", "ssl"} \cup (IF tun = "up" THEN {"tun"} ELSE {}) \subseteq epoll

\* Where script_env has just been made for the script.
RunsScript == at \in {"open", "tunfd", "user"}

\* The routes the script is told of are those that make sense, numbered from
\* zero without a gap for each family, with the count that goes with them; of
\* an IPv6 network that follows one discarded, the text may not be cut.
Sound(family, route) ==
  route.family = family /\ IF family = 4 THEN Good4(route) ELSE Good6(route)

NumberOf(family, routes, n) == Cardinality({i \in 1 .. n : Sound(family, routes[i])})

CountTold(env, opt, count) ==
  IF count = 0 THEN opt \in DOMAIN env => env[opt] = Unset
               ELSE opt \in DOMAIN env /\ env[opt] = <<count>>

RouteTold(env, kind, number, route) ==
  LET addr == <<kind, route.family, number, "ADDR">>
      len  == <<kind, route.family, number, "MASKLEN">>
  IN  /\ {addr, len} \subseteq DOMAIN env
      /\ IF route.family = 4
         THEN /\ env[addr] = <<Network(route.net, MaskLen4(route.mask))>>
              /\ env[len] = <<MaskLen4(route.mask)>>
         ELSE /\ Head(env[addr]) = route.net
              /\ env[len] = <<MaskLen6(route.mask)>>

Numbered(env, kind, routes) ==
  \A family \in {4, 6} :
    /\ CountTold(env, <<kind, family>>, NumberOf(family, routes, Len(routes)))
    /\ \A i \in 1 .. Len(routes) : Sound(family, routes[i]) =>
         RouteTold(env, kind, NumberOf(family, routes, i - 1), routes[i])

RoutesNumbered ==
  RunsScript => /\ Numbered(script_env, "IN", ip_info.includes)
                /\ Numbered(script_env, "EX", ip_info.excludes)

\* "Ignore 0.0.0.0 as NBNS address" (www/changelog.xml:73): the script is told
\* of the other ones.
NbnsFiltered ==
  RunsScript =>
    script_env[<<"INTERNAL_IP4_NBNS">>] = SelectSeq(ip_info.nbns, LAMBDA addr : addr # Zero)
=============================================================================
