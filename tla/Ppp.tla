--------------------------------- MODULE Ppp ---------------------------------
(***************************************************************************)
(* ppp.c: PPP over TLS or DTLS, as F5 uses it (f5_connect(); Fortinet's    *)
(* fortinet_connect() differs in that it makes a new struct oc_ppp where   *)
(* this one resets it).                                                    *)
(*                                                                         *)
(* PPP starts on DTLS, moves to TLS when DTLS does not come up in time,    *)
(* back to DTLS when a later attempt works, and is negotiated anew on      *)
(* every connection.  One thread does it all: each place is one in         *)
(* openconnect_mainloop(), ppp_udp_mainloop(), ppp_tcp_mainloop() or       *)
(* ppp_mainloop(), which tcp_connect() calls too, so that it is re-entered *)
(* from ssl_reconnect().  The peer, the network and the clock are the      *)
(* choices of the actions that read, write, connect and look at a deadline.*)
(*                                                                         *)
(* Left out: for how long the loop sleeps, so that it is always woken,     *)
(* echo and discard requests, packets of unknown protocols, the contents   *)
(* of the options, DTLS_SECRET (as DTLS_CONNECTING with its five seconds   *)
(* over), failures to set up the tun device (MainLoop has them).           *)
(***************************************************************************)
EXTENDS Integers, Sequences

CONSTANTS
  Wanted,        \* network protocols configured: want_ipv4, want_ipv6
  MaxControl     \* bound: with as many control packets queued no other arrives or is
                 \* repeated, with more no connection is lost or paused

ASSUME PppAssumption ==
  /\ Wanted \subseteq {"IPCP", "IP6CP"}
  /\ MaxControl \in Nat \ {0}

VARIABLES
  place,              \* where the thread is
  on,                 \* whose ppp_mainloop(): "dtls", "tls", or the one that tcp_connect()
                      \* starts for ppp_tcp_mainloop() ("first") or for ppp_mainloop() ("again")
  back,               \* where handle_state_transition() was called: "first", "read", "write"
  dtls_state,
  ssl_up,             \* ssl_fd # -1
  ppp,                \* struct oc_ppp: the state, what lcp.state, ipcp.state and ip6cp.state
                      \* say of CONFREQ and CONFACK, want_ipv4 and want_ipv6, lcp.termreqs_sent,
                      \* NCP_TERM_ACK_RECEIVED, a second over since the last TERMREQ
  answers,            \* protocols whose request has reached the server, to be answered
  current_ssl_pkt,
  tcp_control_queue,
  delay_close,        \* "no", "wait" or "callback"
  delay_tunnel,       \* delay_tunnel_reason # NULL
  tun_up,
  got_cancel_cmd,
  got_pause_cmd,
  quit_reason,
  ret,                \* what openconnect_mainloop() returns
  up_on               \* history: where the network is up, "dtls" or "tls"; "before" when it has
                      \* only been up on other connections, or terminated; else "never"

call     == <<on, back>>
links    == <<dtls_state, ssl_up>>
conn     == <<ppp, answers, up_on>>
queues   == <<current_ssl_pkt, tcp_control_queue>>
delays   == <<delay_close, delay_tunnel>>
commands == <<got_cancel_cmd, got_pause_cmd>>
ending   == <<quit_reason, ret>>
pppVars == <<place, call, links, conn, queues, delays, tun_up, commands, ending>>

Protos == {"LCP", "IPCP", "IP6CP"}

NoPacket   == <<"none", "">>
Data       == <<"data", "">>
ConfReq(p) == <<"confreq", p>>
ConfAck(p) == <<"confack", p>>
TermReq    == <<"termreq", "LCP">>
TermAck    == <<"termack", "LCP">>
Handshake  == {<<c, p>> : c \in {"confreq", "confack"}, p \in Protos}
Control    == Handshake \cup {TermReq, TermAck}

OcPpp == [state : {"DEAD", "ESTABLISH", "OPENED", "NETWORK", "TERMINATE"},
          ncp : [Protos -> SUBSET {"req_sent", "ack_received", "ack_sent"}],
          want : SUBSET Wanted, termreqs : 0 .. 3, term_acked : BOOLEAN, second_over : BOOLEAN]

PppTypeOK ==
  /\ place \in {"top", "udp", "tcp", "transition", "read", "write", "service", "return",
             "connect", "foot", "obey", "idle", "ended"}
  /\ on \in {"dtls", "tls", "first", "again"} /\ back \in {"first", "read", "write"}
  /\ dtls_state \in {"DISABLED", "SLEEPING", "CONNECTING", "CONNECTED", "ESTABLISHED"}
  /\ ppp \in OcPpp
  /\ answers \subseteq Protos
  /\ current_ssl_pkt \in Control \cup {Data, NoPacket} /\ tcp_control_queue \in Seq(Control)
  /\ delay_close \in {"no", "wait", "callback"}
  /\ {ssl_up, delay_tunnel, tun_up, got_cancel_cmd, got_pause_cmd} \subseteq BOOLEAN
  /\ up_on \in {"never", "before", "dtls", "tls"}
  /\ quit_reason \in {"none", "aborted_by_caller", "no_network_protocols", "failed_to_establish",
                      "reconnect_failed", "server_reason"}
  /\ ret \in {"0", "-EINTR", "-EIO", "-EPERM", "-EINVAL"}

Fresh(want) == [state |-> "DEAD", ncp |-> [p \in Protos |-> {}], want |-> want,
                termreqs |-> 0, term_acked |-> FALSE, second_over |-> FALSE]

\* The tunnel has been configured: either DTLS is being tried and TLS closed,
\* or there is no DTLS and f5_connect() has started PPP over TLS.
PppInit ==
  /\ place = "top" /\ on = "tls" /\ back = "first"
  /\ \/ /\ dtls_state = "CONNECTING" /\ ssl_up = FALSE
        /\ ppp = Fresh(Wanted) /\ answers = {}
     \/ /\ dtls_state = "DISABLED" /\ ssl_up = TRUE
        /\ ppp = [Fresh(Wanted) EXCEPT !.state = "ESTABLISH", !.ncp["LCP"] = {"req_sent"}]
        /\ answers = {"LCP"}
  /\ current_ssl_pkt = NoPacket /\ tcp_control_queue = <<>>
  /\ delay_close = "no" /\ delay_tunnel = TRUE /\ tun_up = FALSE
  /\ got_cancel_cmd = FALSE /\ got_pause_cmd = FALSE
  /\ quit_reason = "none" /\ ret = "0" /\ up_on = "never"

\* The queues are not touched.
ppp_reset ==
  /\ ppp' = Fresh(ppp.want) /\ answers' = {}
  /\ up_on' = IF up_on = "never" THEN "never" ELSE "before"

Transport == IF on = "dtls" THEN "dtls" ELSE "tls"

Pending == got_cancel_cmd \/ got_pause_cmd

-----------------------------------------------------------------------------
\* openconnect_mainloop(), the head of a round.
Top ==
  /\ place = "top"
  /\ tun_up' = (tun_up \/ ~ delay_tunnel)
  /\ delay_tunnel' = (tun_up /\ delay_tunnel)
  /\ place' = IF dtls_state = "DISABLED" THEN "tcp" ELSE "udp"
  /\ UNCHANGED <<call, links, conn, queues, delay_close, commands, ending>>

-----------------------------------------------------------------------------
\* ppp_udp_mainloop()

\* The handshake goes on, fails, or is done and the connect request is sent; the
\* answer to that is waited for, refuses, or does not come for five seconds.
\* A request that cannot be written ends DTLS for good.
UdpTries ==
  /\ place = "udp"
  /\ dtls_state \in {"CONNECTING", "CONNECTED"}
  /\ dtls_state' \in {dtls_state, "CONNECTED", "SLEEPING", "DISABLED"}
  /\ delay_tunnel' =
       (delay_tunnel \/ (ppp.state = "DEAD"
                           /\ (dtls_state = "CONNECTING" \/ dtls_state' = "CONNECTED")))
  /\ place' = "tcp"
  /\ UNCHANGED <<call, ssl_up, conn, queues, delay_close, tun_up, commands, ending>>

\* The server's consent: PPP moves over to DTLS.
UdpAnswered ==
  /\ place = "udp" /\ dtls_state = "CONNECTED"
  /\ dtls_state' = "ESTABLISHED"
  /\ ppp_reset
  /\ UNCHANGED <<place, call, ssl_up, queues, delays, tun_up, commands, ending>>

UdpRuns ==
  /\ place = "udp" /\ dtls_state = "ESTABLISHED"
  /\ on' = "dtls" /\ back' = "first" /\ place' = "transition"
  /\ UNCHANGED <<links, conn, queues, delays, tun_up, commands, ending>>

\* A new attempt, when it is time or at once when TLS is down ("we've been
\* paused and resumed").
UdpAttempts ==
  /\ place = "udp" /\ dtls_state = "SLEEPING"
  /\ dtls_state' \in {"CONNECTING", "SLEEPING"}
  /\ IF ssl_up THEN UNCHANGED conn ELSE ppp_reset
  /\ place' = "tcp"
  /\ UNCHANGED <<call, ssl_up, queues, delays, tun_up, commands, ending>>

UdpSleeps ==
  /\ place = "udp" /\ dtls_state = "SLEEPING" /\ ssl_up
  /\ place' = "tcp"
  /\ UNCHANGED <<call, links, conn, queues, delays, tun_up, commands, ending>>

-----------------------------------------------------------------------------
\* ppp_tcp_mainloop()

TcpEstablished ==
  /\ place = "tcp" /\ dtls_state = "ESTABLISHED"
  /\ ssl_up' = FALSE
  /\ place' = "foot"
  /\ UNCHANGED <<call, dtls_state, conn, queues, delays, tun_up, commands, ending>>

\* "Allow 5 seconds after configuration for DTLS to start", and no more.
AwaitingDtls == dtls_state \in {"CONNECTING", "CONNECTED"} /\ ppp.state = "DEAD"

TcpWaits ==
  /\ place = "tcp" /\ AwaitingDtls
  /\ delay_tunnel' = TRUE
  /\ place' = "foot"
  /\ UNCHANGED <<call, links, conn, queues, delay_close, tun_up, commands, ending>>

TcpGivesUpOnDtls ==
  /\ place = "tcp" /\ AwaitingDtls
  /\ dtls_state' = "SLEEPING"
  /\ UNCHANGED <<place, call, ssl_up, conn, queues, delays, tun_up, commands, ending>>

TcpRuns ==
  /\ place = "tcp" /\ dtls_state # "ESTABLISHED" /\ ssl_up /\ ppp.state # "DEAD"
  /\ on' = "tls" /\ back' = "first" /\ place' = "transition"
  /\ UNCHANGED <<links, conn, queues, delays, tun_up, commands, ending>>

TcpConnects ==
  /\ place = "tcp" /\ dtls_state # "ESTABLISHED" /\ ~ AwaitingDtls
  /\ ~ ssl_up \/ ppp.state = "DEAD"
  /\ on' = "first" /\ place' = "connect"
  /\ UNCHANGED <<back, links, conn, queues, delays, tun_up, commands, ending>>

-----------------------------------------------------------------------------
\* ssl_reconnect() and f5_connect(), which always resets PPP.  Attempts that
\* fail are repeated until one of these happens.

\* "defer the connection to allow DTLS to connect": success without a connection.
ConnectDeferred ==
  /\ place = "connect" /\ dtls_state = "CONNECTING"
  /\ ppp_reset
  /\ ssl_up' = FALSE
  /\ place' = "return"
  /\ UNCHANGED <<call, dtls_state, queues, delays, tun_up, commands, ending>>

\* Connected, and ppp_start_tcp_mainloop() starts to negotiate.
ConnectWorks ==
  /\ place = "connect" /\ dtls_state \in {"DISABLED", "SLEEPING"} /\ ~ Pending
  /\ ppp_reset
  /\ ssl_up' = TRUE
  /\ back' = "first" /\ place' = "transition"
  /\ UNCHANGED <<on, dtls_state, queues, delays, tun_up, commands, ending>>

\* The cookie is refused or reconnect_timeout spent, which it always is when
\* ppp_tcp_should_connect() finds DTLS_CONNECTED.
ConnectGivesUp ==
  /\ place = "connect" /\ dtls_state # "CONNECTING"
  /\ ppp_reset
  /\ ssl_up' = FALSE
  /\ quit_reason' = "reconnect_failed" /\ ret' \in {"-EIO", "-EPERM"}
  /\ place' = "ended"
  /\ UNCHANGED <<call, dtls_state, queues, delays, tun_up, commands>>

\* A command, read now or before, ends ssl_reconnect(): a cancel with -EINTR
\* (lost if that was inside tcp_connect()), a pause as if it had connected.
ConnectInterrupted ==
  /\ place = "connect" /\ dtls_state # "CONNECTING"
  /\ \/ Pending /\ UNCHANGED commands
     \/ got_cancel_cmd' = TRUE /\ UNCHANGED got_pause_cmd
     \/ got_pause_cmd' = TRUE /\ UNCHANGED got_cancel_cmd
  /\ ppp_reset
  /\ ssl_up' = FALSE
  /\ IF got_cancel_cmd'
     THEN quit_reason' = "reconnect_failed" /\ ret' \in {"-EINTR", "-EIO"} /\ place' = "ended"
     ELSE place' = "return" /\ UNCHANGED ending
  /\ UNCHANGED <<call, dtls_state, queues, delays, tun_up>>

-----------------------------------------------------------------------------
\* handle_state_transition().  Its return value is looked at after a packet only.

Resume == place' = (IF back = "write" THEN "write" ELSE "read") /\ back' = "first"

IsOpen(p) == {"ack_received", "ack_sent"} \subseteq ppp.ncp[p]
Opened  == ppp.state = "OPENED" \/ (ppp.state = "ESTABLISH" /\ IsOpen("LCP"))
Closed  == {p \in ppp.want : ~ IsOpen(p)}

\* Requests not sent since the reset go out now, others again every three
\* seconds, for which the loop is woken.  (Time passes between the rounds, not
\* within a call of ppp_mainloop().)
CanRepeat(again) ==
  again # {} => back = "first" /\ Len(tcp_control_queue) < MaxControl

Request(state, protos, again) ==
  LET asked       == {p \in protos : "req_sent" \notin ppp.ncp[p] \/ p \in again}
      request(p)  == IF p \in asked THEN <<ConfReq(p)>> ELSE <<>>
  IN /\ tcp_control_queue' =
          tcp_control_queue \o request("LCP") \o request("IPCP") \o request("IP6CP")
     /\ ppp' = [ppp EXCEPT !.state = state,
                           !.ncp = [p \in Protos |-> IF p \in asked THEN @[p] \cup {"req_sent"}
                                                                    ELSE @[p]]]

\* Broken on purpose: what was being written on the old connection is kept.
EstablishingKeepsPacket(again) ==
  /\ place = "transition" /\ ppp.state \in {"DEAD", "ESTABLISH"} /\ ~ IsOpen("LCP")
  /\ again \subseteq {"LCP"} /\ CanRepeat(again)
  /\ Request("ESTABLISH", {"LCP"}, again)
  /\ delay_tunnel' = TRUE
  /\ Resume
  /\ UNCHANGED <<on, links, answers, current_ssl_pkt, delay_close, tun_up, commands, ending,
                 up_on>>

\* A new connection drops what was being written on the one before.
Establishing(again) ==
  /\ place = "transition" /\ ppp.state \in {"DEAD", "ESTABLISH"} /\ ~ IsOpen("LCP")
  /\ again \subseteq {"LCP"} /\ CanRepeat(again)
  /\ Request("ESTABLISH", {"LCP"}, again)
  /\ current_ssl_pkt' = IF ppp.state = "DEAD" THEN NoPacket ELSE current_ssl_pkt
  /\ delay_tunnel' = TRUE
  /\ Resume
  /\ UNCHANGED <<on, links, answers, delay_close, tun_up, commands, ending, up_on>>

Opening(again) ==
  /\ place = "transition" /\ Opened /\ Closed # {}
  /\ again \subseteq Closed /\ CanRepeat(again)
  /\ Request("OPENED", Closed, again)
  /\ delay_tunnel' = TRUE
  /\ Resume
  /\ UNCHANGED <<on, links, answers, current_ssl_pkt, delay_close, tun_up, commands, ending,
                 up_on>>

NothingWanted ==
  /\ place = "transition" /\ Opened /\ ppp.want = {}
  /\ ppp' = [ppp EXCEPT !.state = "OPENED"]
  /\ quit_reason' = "no_network_protocols"
  /\ IF back = "read" THEN place' = "return" /\ back' = "first" /\ ret' = "-EINVAL"
                      ELSE Resume /\ UNCHANGED ret
  /\ UNCHANGED <<on, links, answers, queues, delays, tun_up, commands, up_on>>

\* Broken on purpose: no delay for a TERMREQ is asked for.
NetworkUpAtOnce ==
  /\ place = "transition" /\ Opened /\ Closed = {} /\ ppp.want # {}
  /\ ppp' = [ppp EXCEPT !.state = "NETWORK"] /\ up_on' = Transport
  /\ delay_tunnel' = FALSE
  /\ Resume
  /\ UNCHANGED <<on, links, answers, queues, delay_close, tun_up, commands, ending>>

NetworkUp ==
  /\ place = "transition" /\ Opened /\ Closed = {} /\ ppp.want # {}
  /\ ppp' = [ppp EXCEPT !.state = "NETWORK"] /\ up_on' = Transport
  /\ delay_close' = "callback" /\ delay_tunnel' = FALSE
  /\ Resume
  /\ UNCHANGED <<on, links, answers, queues, tun_up, commands, ending>>

StaysUp ==
  /\ place = "transition" /\ ppp.state = "NETWORK" /\ ~ got_cancel_cmd
  /\ delay_tunnel' = FALSE
  /\ Resume
  /\ UNCHANGED <<on, links, conn, queues, delay_close, tun_up, commands, ending>>

\* PPPS_TERMINATE.  It is not left before a reset, and a server that has sent
\* TERMREQ itself gets one too: NCP_TERM_REQ_RECEIVED, which would return
\* -EPIPE here, is never set, ppp.c:817 having overwritten it.
\* "For TLS [...] we send TERMREQ just once, wait for a second, and give up.
\* For DTLS we try three times (with a second between them)."
Ending == ppp.state = "TERMINATE" \/ (ppp.state = "NETWORK" /\ got_cancel_cmd)

\* The flags of the protocols are not looked at before they are reset.
Terminated(termreqs, term_acked, second_over) ==
  [Fresh(ppp.want) EXCEPT !.state = "TERMINATE", !.termreqs = termreqs,
                          !.term_acked = term_acked, !.second_over = second_over]

\* now: the second is over since the last call of ppp_mainloop().
Terminating(now) ==
  LET second_over == ppp.second_over \/ now
      asks == ppp.termreqs = 0 \/ (second_over /\ on = "dtls" /\ ppp.termreqs < 3)
  IN /\ place = "transition" /\ Ending
     /\ now => back = "first" /\ ppp.termreqs > 0
     /\ IF asks /\ ~ ppp.term_acked
        THEN /\ tcp_control_queue' = Append(tcp_control_queue, TermReq)
             /\ ppp' = Terminated(ppp.termreqs + 1, FALSE, FALSE)
        ELSE /\ ppp' = Terminated(ppp.termreqs, ppp.term_acked, second_over)
             /\ UNCHANGED tcp_control_queue
     /\ IF ~ ppp.term_acked /\ (asks \/ ~ second_over)
        THEN delay_close' = "wait" ELSE UNCHANGED delay_close
     /\ delay_tunnel' = FALSE /\ answers' = {}
     /\ Resume
     /\ UNCHANGED <<on, links, current_ssl_pkt, tun_up, commands, ending, up_on>>

-----------------------------------------------------------------------------
\* ppp_mainloop() reads.  A packet of PPP's own goes through
\* handle_config_packet(), and handle_state_transition() follows.

Room       == Len(tcp_control_queue) < MaxControl
Reply(pkt) == tcp_control_queue' = Append(tcp_control_queue, pkt)
Parsed(b)  == back' = b /\ place' = "transition"

\* A request with acceptable options; to others CONFREJ or CONFNAK is sent and
\* nothing else happens.
ReadConfReq(p) ==
  /\ place = "read" /\ p \in ppp.want \cup {"LCP"} /\ Room /\ ppp.state # "TERMINATE"
  /\ Reply(ConfAck(p))
  /\ ppp' = [ppp EXCEPT !.ncp[p] = @ \cup {"ack_sent"}]
  /\ Parsed("read")
  /\ UNCHANGED <<on, links, answers, current_ssl_pkt, delays, tun_up, commands, ending,
                 up_on>>

\* The id is not looked at: any request of this connection will do.
ReadConfAck(p) ==
  /\ place = "read" /\ p \in answers \cap (ppp.want \cup {"LCP"})
  /\ ppp' = [ppp EXCEPT !.ncp[p] = @ \cup {"ack_received"}]
  /\ answers' = answers \ {p}
  /\ Parsed("read")
  /\ UNCHANGED <<on, links, queues, delays, tun_up, commands, ending, up_on>>

\* CONFNAK and CONFREJ: another request at once, unless the id is stale; the
\* server may instead refuse the protocol (IP6CP: without another request).
ReadConfNak(p) ==
  /\ place = "read" /\ p \in answers \cap (ppp.want \cup {"LCP"}) /\ Room
  /\ answers' = answers \ {p}
  /\ \/ UNCHANGED <<tcp_control_queue, ppp>>
     \/ Reply(ConfReq(p)) /\ UNCHANGED ppp
     \/ /\ ppp' = [ppp EXCEPT !.want = @ \ {p}]
        /\ IF p = "IP6CP" THEN UNCHANGED tcp_control_queue ELSE Reply(ConfReq(p))
  /\ Parsed("read")
  /\ UNCHANGED <<on, links, current_ssl_pkt, delays, tun_up, commands, ending,
                 up_on>>

\* PROTREJ, for a protocol we asked for.
ReadProtRej(p) ==
  /\ place = "read" /\ p \in answers \cap ppp.want
  /\ ppp' = [ppp EXCEPT !.want = @ \ {p}]
  /\ answers' = answers \ {p}
  /\ Parsed("read")
  /\ UNCHANGED <<on, links, queues, delays, tun_up, commands, ending, up_on>>

\* TERMREQ or TERMACK, with a reason in it or without.
ReadTerm ==
  /\ place = "read"
  /\ \/ /\ Room /\ Reply(TermAck)
        /\ ppp' = Terminated(ppp.termreqs, ppp.term_acked, ppp.second_over)
     \/ /\ ppp.termreqs > 0 /\ UNCHANGED tcp_control_queue
        /\ ppp' = Terminated(ppp.termreqs, TRUE, ppp.second_over)
  /\ answers' = {}
  /\ up_on' = IF up_on = "never" THEN "before" ELSE up_on
  /\ quit_reason' \in IF quit_reason = "none" THEN {"none", "server_reason"} ELSE {quit_reason}
  /\ delay_close' = "no"
  /\ Parsed("read")
  /\ UNCHANGED <<on, links, current_ssl_pkt, delay_tunnel, tun_up, commands, ret>>

\* A malformed packet or a refusal of all addresses: -EINVAL is added to did_work.
ReadBad ==
  /\ place = "read"
  /\ place' = "return"
  /\ UNCHANGED <<call, links, conn, queues, delays, tun_up, commands, ending>>

ReadsAll ==
  /\ place = "read"
  /\ place' = IF current_ssl_pkt = NoPacket THEN "service" ELSE "write"
  /\ UNCHANGED <<call, links, conn, queues, delays, tun_up, commands, ending>>

-----------------------------------------------------------------------------
\* ppp_mainloop() writes, until there is nothing to write or the write stalls.

\* What is written on DTLS may be lost; TLS delivers.
WriteDone(delivered) ==
  /\ place = "write" /\ (delivered \/ on = "dtls")
  /\ answers' = answers \cup {p \in Protos : /\ delivered /\ current_ssl_pkt = ConfReq(p)
                                             /\ "ack_received" \notin ppp.ncp[p]}
  /\ current_ssl_pkt' = NoPacket
  /\ place' = "service"
  /\ UNCHANGED <<call, links, ppp, tcp_control_queue, delays, tun_up, commands, ending,
                 up_on>>

WriteStalls ==
  /\ place = "write"
  /\ place' = "return"
  /\ UNCHANGED <<call, links, conn, queues, delays, tun_up, commands, ending>>

ServiceControl ==
  /\ place = "service" /\ tcp_control_queue # <<>>
  /\ current_ssl_pkt' = Head(tcp_control_queue)
  /\ tcp_control_queue' = Tail(tcp_control_queue)
  /\ Parsed("write")
  /\ UNCHANGED <<on, links, conn, delays, tun_up, commands, ending>>

\* There is data once there is a tun device to read it from.
ServiceData ==
  /\ place = "service" /\ tcp_control_queue = <<>> /\ ppp.state = "NETWORK" /\ tun_up
  /\ current_ssl_pkt' = Data
  /\ place' = "write"
  /\ UNCHANGED <<call, links, conn, tcp_control_queue, delays, tun_up, commands, ending>>

ServiceNothing ==
  /\ place = "service" /\ tcp_control_queue = <<>>
  /\ place' = "return"
  /\ UNCHANGED <<call, links, conn, queues, delays, tun_up, commands, ending>>

\* A read or a write fails, or the peer is dead.
Losing == place \in {"read", "write", "service"} /\ Len(tcp_control_queue) <= MaxControl

LostDtls ==
  /\ Losing /\ on = "dtls"
  /\ dtls_state' = "SLEEPING"
  /\ IF quit_reason = "none" THEN place' = "udp" /\ UNCHANGED ret
                             ELSE place' = "ended" /\ ret' = "-EIO"
  /\ UNCHANGED <<call, ssl_up, conn, queues, delays, tun_up, commands, quit_reason>>

LostTls ==
  /\ Losing /\ on # "dtls"
  /\ ssl_up' = FALSE
  /\ on' = IF on = "tls" THEN "again" ELSE on
  /\ IF ppp.state = "ESTABLISH"
     THEN /\ quit_reason' = "failed_to_establish"
          /\ ret' = IF on = "tls" THEN "-EPERM" ELSE "-EIO"
          /\ place' = "ended"
     ELSE place' = "connect" /\ UNCHANGED ending
  /\ UNCHANGED <<back, dtls_state, conn, queues, delays, tun_up, commands>>

\* Back in openconnect_mainloop(), from a connection by way of ssl_reconnect().
Return ==
  /\ place = "return"
  /\ IF quit_reason # "none"
     THEN place' = "ended" /\ ret' = IF ret = "0" THEN "-EIO" ELSE ret
     ELSE place' = (IF on = "dtls" THEN "tcp" ELSE "foot") /\ UNCHANGED ret
  /\ delay_tunnel' = (delay_tunnel \/ on = "first")
  /\ UNCHANGED <<call, links, conn, queues, delay_close, tun_up, commands, quit_reason>>

-----------------------------------------------------------------------------
\* openconnect_mainloop(), the foot of a round (MainLoop has the pipe).

FootReads ==
  /\ place = "foot"
  /\ \/ UNCHANGED commands
     \/ ~ Pending /\ got_cancel_cmd' = TRUE /\ UNCHANGED got_pause_cmd
     \/ /\ ~ Pending /\ Len(tcp_control_queue) <= MaxControl
        /\ got_pause_cmd' = TRUE /\ UNCHANGED got_cancel_cmd
  /\ place' = "obey"
  /\ on' = "tls"
  /\ UNCHANGED <<back, links, conn, queues, delays, tun_up, ending>>

ObeyLater ==
  /\ place = "obey" /\ Pending /\ delay_close # "no" /\ ~ (got_cancel_cmd /\ got_pause_cmd)
  /\ delay_close' = "no"
  /\ place' = "top"
  /\ UNCHANGED <<call, links, conn, queues, delay_tunnel, tun_up, commands, ending>>

ObeyCancel ==
  /\ place = "obey" /\ got_cancel_cmd /\ delay_close = "no"
  /\ quit_reason' = "aborted_by_caller" /\ ret' = "-EINTR"
  /\ place' = "ended"
  /\ UNCHANGED <<call, links, conn, queues, delays, tun_up, commands>>

\* All is closed.
ObeyPause ==
  /\ place = "obey" /\ got_pause_cmd /\ (got_cancel_cmd <=> delay_close # "no")
  /\ ssl_up' = FALSE
  /\ dtls_state' = IF dtls_state = "DISABLED" THEN "DISABLED" ELSE "SLEEPING"
  /\ delay_close' = "no"
  /\ got_pause_cmd' = FALSE
  /\ place' = "idle"
  /\ UNCHANGED <<call, conn, queues, delay_tunnel, tun_up, got_cancel_cmd, ending>>

NothingToObey ==
  /\ place = "obey" /\ ~ Pending
  /\ place' = "top"
  /\ UNCHANGED <<call, links, conn, queues, delays, tun_up, commands, ending>>

\* The application ends a pause.
Resumes ==
  /\ place = "idle"
  /\ place' = "top"
  /\ UNCHANGED <<call, links, conn, queues, delays, tun_up, commands, ending>>

Ended == place = "ended" /\ UNCHANGED pppVars

-----------------------------------------------------------------------------
Udp        == UdpTries \/ UdpAnswered \/ UdpRuns \/ UdpAttempts \/ UdpSleeps
Tcp        == TcpEstablished \/ TcpWaits \/ TcpGivesUpOnDtls \/ TcpRuns \/ TcpConnects
Connect    == ConnectDeferred \/ ConnectWorks \/ ConnectGivesUp \/ ConnectInterrupted
Transition == \/ \E again \in SUBSET Protos : Establishing(again) \/ Opening(again)
              \/ NothingWanted \/ NetworkUp \/ StaysUp
              \/ \E now \in BOOLEAN : Terminating(now)
Reads      == \/ \E p \in Protos :
                   ReadConfReq(p) \/ ReadConfAck(p) \/ ReadConfNak(p) \/ ReadProtRej(p)
              \/ ReadTerm \/ ReadBad \/ ReadsAll
Writes     == \/ \E delivered \in BOOLEAN : WriteDone(delivered)
              \/ WriteStalls \/ ServiceControl \/ ServiceData \/ ServiceNothing
Foot       == FootReads \/ ObeyLater \/ ObeyCancel \/ ObeyPause \/ NothingToObey

Runs == Top \/ Udp \/ Tcp \/ Connect \/ Transition \/ Reads \/ Writes \/ LostDtls \/ LostTls
          \/ Return \/ Foot
PppNext == Runs \/ Resumes \/ Ended

PppSpec == PppInit /\ [][PppNext]_pppVars

-----------------------------------------------------------------------------
\* The tun device is not set up before the addresses have been agreed once:
\* whatever clears delay_tunnel_reason at the head of a round, one of the two
\* mainloops sets it again before the next, unless the server has asked to
\* terminate.
TunAfterNegotiation == [][~ tun_up /\ tun_up' => up_on # "never"]_pppVars

\* Data is only written to the connection on which the network has come up: one
\* that replaces it, DTLS after TLS or TLS after DTLS, negotiates first, and what
\* was stalled on the old one is not finished there.
DataWhereUp ==
  [][place = "write" /\ place' = "service" /\ current_ssl_pkt = Data => up_on = Transport]_pppVars

\* Neither the device nor the data runs ahead of the negotiation on a connection.
WhereNegotiated == TunAfterNegotiation /\ DataWhereUp

\* A cancel of a network that is up is obeyed only when TERMREQ was sent and
\* waited for, except after a pause that used up the delay.
ClosesWithTermReq == [][ObeyCancel /\ ppp.state = "NETWORK" => got_pause_cmd]_pppVars

=============================================================================
