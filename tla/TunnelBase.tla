----------------------------- MODULE TunnelBase -----------------------------
(***************************************************************************)
(* What the data paths of Network Connect, Pulse, GlobalProtect and Array  *)
(* have in common: the UDP transport and the TLS tunnel beside it, tried   *)
(* in turn by openconnect_mainloop(), with the tun device after them.      *)
(* Three of the protocols have ESP on the UDP side, all with the same      *)
(* esp_mainloop(), which calls their hooks; Array has DTLS.                *)
(*                                                                         *)
(* Packets are the client's own, numbered in the order the tun device      *)
(* hands them over.  Whether a timer is due is left open; what is modelled *)
(* of time is whether the loop goes to sleep with a timer set.             *)
(***************************************************************************)
EXTENDS Integers, Sequences, FiniteSets, SequencesExt

CONSTANTS
  Protocols,   \* the data paths to follow, of "nc", "pulse", "gp", "array"
  Packets,     \* how many packets the tun device has for us
  MaxQlen,     \* max_qlen
  MaxProbes,   \* how many probes are repeated: 5 in the code
  MaxRekeys,   \* bound: key messages from the server
  MaxChecks,   \* bound: checks of the host that fall due
  MaxLosses,   \* bound: failures of UDP and TLS, and pauses
  MaxRetries   \* bound: attempts to connect that fail and are followed by another

ASSUME TunnelAssumption ==
  /\ Protocols \subseteq {"nc", "pulse", "gp", "array"}
  /\ Packets \in Nat /\ MaxQlen \in Nat \ {0} /\ MaxProbes \in Nat
  /\ MaxRekeys \in Nat /\ MaxChecks \in Nat /\ MaxLosses \in Nat /\ MaxRetries \in Nat

VARIABLES
  proto,
  pc,                   \* where the thread is
  work_done,            \* the round will be followed by another
  timer,                \* a deadline limits the sleep after this round
  outgoing_queue, next, \* next: the packet the tun device hands over next
  dtls_state,
  socket,               \* dtls_fd: "closed" or "open"; history: "heard" if a probe was answered on it
  udp_probes_sent,      \* counts no further than MaxProbes + 1
  dtls_need_reconnect,
  deflate_pkt,          \* an encrypted packet whose send would have blocked; 0: none
  ssl,                  \* "closed", "open", or "tunnel" when packets can be written
  current_ssl_pkt,      \* what the next TLS write writes: data by number
  tcp_control_queue,
  told,                 \* history: the server sends over UDP, because the client has said so
                        \* through this tunnel, or because Array's server has accepted DTLS
  tcp_blocked_for_udp,  \* Array's server has to be told when DTLS ends
  keys_valid,           \* history: the server takes packets with the keys the client has
  hip,                  \* history: "ok", "owed" after a configuration, "due" by the timer
  gone,                 \* history: packets written, sent, given up with ESP
  retries, losses,
  rekeys                \* key messages, or checks that fell due

udpVars  == <<dtls_state, socket, udp_probes_sent, dtls_need_reconnect, deflate_pkt>>
tlsVars  == <<ssl, current_ssl_pkt, tcp_control_queue, told, tcp_blocked_for_udp>>
gpVars   == <<keys_valid, hip>>
tunVars  == <<outgoing_queue, next>>
counters == <<proto, retries, rekeys, losses>>
vars == <<pc, work_done, timer, tunVars, udpVars, tlsVars, gpVars, gone, counters>>

Packet  == 1 .. Packets
None    == 0
Pkt(kind, p) == [kind |-> kind, pkt |-> p]
NoPkt   == Pkt("none", None)
Data    == {Pkt("data", p) : p \in Packet}

ConnectPhases == {"connect", "config", "negotiate", "hip", "tunnel", "connected", "failed"}
GpPhases      == {"recheck", "reopen", "fallback"}

TypeOK ==
  /\ proto \in Protocols
  /\ pc \in {"udp", "dtls_timers", "dtls", "probe", "keepalive", "send", "tcp", "timers", "write", "next", "tun",
             "pause", "asleep", "ended"} \cup ConnectPhases \cup GpPhases
  /\ work_done \in BOOLEAN /\ timer \in BOOLEAN
  /\ outgoing_queue \in Seq(Packet) /\ Len(outgoing_queue) <= MaxQlen
  /\ next \in 1 .. Packets + 1
  /\ dtls_state \in {"NOSECRET", "SECRET", "DISABLED", "SLEEPING", "CONNECTING", "CONNECTED", "ESTABLISHED"}
  /\ socket \in {"closed", "open", "heard"}
  /\ udp_probes_sent \in 0 .. MaxProbes + 1
  /\ dtls_need_reconnect \in BOOLEAN
  /\ deflate_pkt \in {None} \cup Packet
  /\ ssl \in {"closed", "open", "tunnel"}
  /\ current_ssl_pkt \in {Pkt(kind, None) : kind \in {"none", "enable", "disable", "keys", "dpd"}} \cup Data
  /\ tcp_control_queue \in Seq({Pkt("disable", None), Pkt("keys", None)} \cup Data)
  /\ told \in BOOLEAN
  /\ tcp_blocked_for_udp \in BOOLEAN /\ keys_valid \in BOOLEAN
  /\ hip \in {"ok", "owed", "due"}
  /\ gone \in Seq(Packet)
  /\ retries \in 0 .. MaxRetries /\ rekeys \in 0 .. MaxRekeys + MaxChecks /\ losses \in 0 .. MaxLosses

\* The tunnel is connected and udp_setup() has been called.  Without UDP the TLS
\* tunnel is up, and GlobalProtect's is not otherwise.  The first round sleeps no
\* longer than a second, because the tun device was not up when it began.
Init ==
  /\ proto \in Protocols
  /\ pc = "udp" /\ work_done = FALSE /\ timer = TRUE
  /\ outgoing_queue = <<>> /\ next = 1
  /\ \/ dtls_state = "SLEEPING" /\ socket = "open" /\ proto # "array"
     \/ dtls_state = "CONNECTING" /\ socket = "open" /\ proto = "array"
     \/ dtls_state = "SECRET" /\ socket = "closed"
     \/ dtls_state = "DISABLED" /\ socket = "closed"
  /\ udp_probes_sent = 0 /\ dtls_need_reconnect = FALSE /\ deflate_pkt = None
  /\ ssl = IF proto = "gp" /\ dtls_state # "DISABLED" THEN "open" ELSE "tunnel"
  /\ current_ssl_pkt = NoPkt /\ tcp_control_queue = <<>>
  /\ told = FALSE /\ tcp_blocked_for_udp = FALSE
  /\ keys_valid = (dtls_state # "DISABLED") /\ hip = "ok"
  /\ gone = <<>>
  /\ retries = 0 /\ rekeys = 0 /\ losses = 0

Loses == losses < MaxLosses /\ losses' = losses + 1

-----------------------------------------------------------------------------
\* The states that are > DTLS_DISABLED: the others have smaller numbers.
AboveDisabled == dtls_state \in {"SLEEPING", "CONNECTING", "CONNECTED", "ESTABLISHED"}

\* A probe has been answered; what the server has to be told when ESP is closed.
EspUp == dtls_state \in {"CONNECTED", "ESTABLISHED"}

\* Broken on purpose: the server is not told.
TellServer_Not == tcp_control_queue' = tcp_control_queue

\* queue_esp_control(0)
TellServer ==
  tcp_control_queue' = IF EspUp /\ proto = "nc" THEN Append(tcp_control_queue, Pkt("disable", None))
                                                ELSE tcp_control_queue

DropStalled ==
  /\ deflate_pkt' = None
  /\ gone' = IF deflate_pkt = None THEN gone ELSE Append(gone, deflate_pkt)

\* oncp_esp_close() and esp_close(), or dtls_close(), which leave dtls_state at state.
Close(state) ==
  /\ TellServer /\ DropStalled
  /\ socket' = "closed"
  /\ dtls_state' = state

Sleeping == IF AboveDisabled THEN "SLEEPING" ELSE dtls_state

\* What esp_shutdown() leaves.
NoSecret == IF dtls_state = "DISABLED" THEN "DISABLED" ELSE "NOSECRET"

\* Keys were set up.
WithKeys == IF dtls_state = "NOSECRET" THEN "SECRET" ELSE dtls_state

\* Without a socket there is a new one first, or none if udp_connect() fails.  A
\* socket that is open is used as it is.
oncp_esp_send_probes ==
  \/ socket = "closed" /\ socket' = "open" /\ dtls_state' = "SLEEPING"
  \/ UNCHANGED <<socket, dtls_state>>

\* The same with a ping to the gateway's address in the tunnel.
gpst_esp_send_probes ==
  \/ socket = "closed" /\ socket' = "open" /\ dtls_state' = "SLEEPING"
  \/ UNCHANGED <<socket, dtls_state>>

SendProbe == IF proto = "gp" THEN gpst_esp_send_probes ELSE oncp_esp_send_probes

-----------------------------------------------------------------------------
\* ssl_reconnect(): the connection is closed, and the protocol connects.

\* Pulse and Network Connect call esp_shutdown() before, GlobalProtect when it connects.
Reconnect ==
  /\ IF proto \in {"nc", "pulse"} THEN Close(NoSecret)
     ELSE UNCHANGED <<tcp_control_queue, deflate_pkt, gone, socket, dtls_state>>
  /\ ssl' = "closed" /\ told' = FALSE
  /\ pc' = "connect"
  /\ UNCHANGED <<proto, work_done, timer, tunVars, udp_probes_sent, dtls_need_reconnect, current_ssl_pkt,
                 tcp_blocked_for_udp, gpVars, retries, rekeys>>

\* What the protocol does when ssl_reconnect() has returned 0.
AfterReconnect ==
  /\ CASE proto \in {"nc", "pulse"} ->
            dtls_need_reconnect' = TRUE /\ UNCHANGED <<socket, dtls_state>>
       [] proto = "gp" ->
            /\ UNCHANGED dtls_need_reconnect
            /\ IF dtls_state \in {"DISABLED", "NOSECRET"} THEN UNCHANGED <<socket, dtls_state>>
                                                         ELSE SendProbe
       [] proto = "array" ->
            /\ dtls_need_reconnect' = (dtls_need_reconnect \/ (AboveDisabled /\ dtls_state # "SLEEPING"))
            /\ UNCHANGED <<socket, dtls_state>>
  /\ work_done' = TRUE
  /\ UNCHANGED <<timer, tunVars, udp_probes_sent, deflate_pkt, tlsVars, gpVars, gone, proto, rekeys, losses>>

Reconnected == pc = "connected" /\ AfterReconnect /\ pc' = "tun" /\ retries' = 0

\* It sleeps before it tries again, while there is time.
Sleeps == pc = "failed" /\ retries < MaxRetries /\ retries' = retries + 1

RetryConnect ==
  /\ Sleeps /\ pc' = "connect"
  /\ UNCHANGED <<proto, rekeys, losses, work_done, timer, tunVars, udpVars, tlsVars, gpVars, gone>>

\* The sleep ends with a pause, and that counts as success.
RetryPaused == Sleeps /\ AfterReconnect /\ pc' = "pause"

\* The time is up, the cookie is refused, or the application cancels.
GiveUp ==
  /\ pc = "failed"
  /\ pc' = "ended"
  /\ UNCHANGED <<work_done, timer, tunVars, udpVars, tlsVars, gpVars, gone, counters>>

-----------------------------------------------------------------------------
\* What the TLS loops have in common.

UdpSkipped ==
  /\ pc = "udp" /\ ~ AboveDisabled
  /\ pc' = "tcp"
  /\ UNCHANGED <<work_done, timer, tunVars, udpVars, tlsVars, gpVars, gone, counters>>

\* GlobalProtect deals with TLS only when it has given ESP up.
TlsTurn == pc = "tcp" /\ (proto = "gp" => dtls_state \in {"DISABLED", "NOSECRET"})

\* There is no connection after a pause.
Resumes == TlsTurn /\ ssl = "closed" /\ Reconnect /\ UNCHANGED losses

\* The packets that arrive only keep the loop busy.  Two of the protocols look at
\* their timers next.
TlsReadsAll ==
  /\ TlsTurn /\ ssl # "closed"
  /\ pc' = IF current_ssl_pkt # NoPkt THEN "write"
           ELSE IF proto \in {"gp", "array"} THEN "timers" ELSE "next"
  /\ UNCHANGED <<work_done, timer, tunVars, udpVars, tlsVars, gpVars, gone, counters>>

TlsReadFails == TlsTurn /\ ssl # "closed" /\ Loses /\ Reconnect

\* Broken on purpose: the loop may go to sleep with packets that ESP has to send.
Enable_Quiet == dtls_state' = "ESTABLISHED" /\ UNCHANGED work_done

Enable == dtls_state' = "ESTABLISHED" /\ work_done' = TRUE

\* Network Connect uses ESP when the server has been told to.
WriteDone ==
  /\ pc = "write"
  /\ IF current_ssl_pkt.kind = "enable" THEN Enable ELSE UNCHANGED <<dtls_state, work_done>>
  /\ told' = (current_ssl_pkt.kind = "enable" \/ (told /\ current_ssl_pkt.kind # "disable"))
  /\ gone' = IF current_ssl_pkt.kind = "data" THEN Append(gone, current_ssl_pkt.pkt) ELSE gone
  /\ current_ssl_pkt' = NoPkt
  /\ pc' = IF proto \in {"gp", "array"} THEN "timers" ELSE "next"
  /\ UNCHANGED <<timer, tunVars, socket, udp_probes_sent, dtls_need_reconnect, deflate_pkt, ssl,
                 tcp_control_queue, tcp_blocked_for_udp, gpVars, counters>>

WriteStalls ==
  /\ pc = "write"
  /\ pc' = "tun"
  /\ UNCHANGED <<work_done, timer, tunVars, udpVars, tlsVars, gpVars, gone, counters>>

\* Or it has stalled for so long that the peer is taken for dead.
WriteFails == pc = "write" /\ Loses /\ Reconnect

WriteNext(pkt) == current_ssl_pkt' = pkt /\ pc' = "write"

\* GlobalProtect's check of the host comes before the other timers, and is one itself.
TimersTurn == pc = "timers" /\ (proto = "gp" => hip # "due")

TlsDpd ==
  /\ TimersTurn
  /\ WriteNext(Pkt("dpd", None))
  /\ work_done' = (work_done \/ proto = "array")
  /\ timer' = (timer \/ proto = "gp")
  /\ UNCHANGED <<tunVars, udpVars, ssl, tcp_control_queue, told, tcp_blocked_for_udp, gpVars, gone, counters>>

\* The peer is dead, or the tunnel has to be renewed.
TlsPeerDead == TimersTurn /\ Loses /\ Reconnect

TimersSet ==
  /\ TimersTurn
  /\ timer' \in {TRUE, timer \/ proto = "gp"}
  /\ pc' = "next"
  /\ UNCHANGED <<work_done, tunVars, udpVars, tlsVars, gpVars, gone, counters>>

WritesControl ==
  /\ pc = "next" /\ tcp_control_queue # <<>>
  /\ proto \in {"nc", "pulse"} /\ dtls_state # "CONNECTED"
  /\ WriteNext(Head(tcp_control_queue))
  /\ tcp_control_queue' = Tail(tcp_control_queue)
  /\ UNCHANGED <<work_done, timer, tunVars, udpVars, ssl, told, tcp_blocked_for_udp, gpVars, gone, counters>>

\* "Service outgoing packet queue, if no DTLS".  Network Connect stops when a probe
\* is answered, the others when UDP is established.
TlsTakes ==
  /\ outgoing_queue # <<>>
  /\ tcp_control_queue = <<>> /\ ~ tcp_blocked_for_udp
  /\ IF proto = "nc" THEN ~ EspUp ELSE dtls_state # "ESTABLISHED"

Establishes == proto \in {"nc", "pulse"} /\ dtls_state = "CONNECTED"

WritesData ==
  /\ pc = "next" /\ TlsTakes /\ ~ Establishes
  /\ WriteNext(Pkt("data", Head(outgoing_queue)))
  /\ outgoing_queue' = Tail(outgoing_queue)
  /\ UNCHANGED <<work_done, timer, next, udpVars, ssl, tcp_control_queue, told, tcp_blocked_for_udp,
                 gpVars, gone, counters>>

NothingToWrite ==
  /\ pc = "next" /\ ~ TlsTakes /\ ~ Establishes
  /\ tcp_control_queue = <<>> /\ (tcp_blocked_for_udp => dtls_state = "ESTABLISHED")
  /\ pc' = "tun"
  /\ UNCHANGED <<work_done, timer, tunVars, udpVars, tlsVars, gpVars, gone, counters>>

-----------------------------------------------------------------------------
\* The tun device and the end of a round.

Room == Len(outgoing_queue) + Len(tcp_control_queue) < MaxQlen

TunReads ==
  /\ pc \in {"tun", "pause"} /\ next <= Packets /\ Room
  /\ outgoing_queue' = Append(outgoing_queue, next)
  /\ next' = next + 1
  /\ work_done' = TRUE
  /\ UNCHANGED <<pc, timer, udpVars, tlsVars, gpVars, gone, counters>>

NewRound == pc' = "udp" /\ work_done' = FALSE /\ timer' = FALSE

RoundEnds ==
  /\ pc = "tun"
  /\ IF work_done THEN NewRound ELSE pc' = "asleep" /\ UNCHANGED <<work_done, timer>>
  /\ UNCHANGED <<tunVars, udpVars, tlsVars, gpVars, gone, counters>>

\* A pause closes everything; the next call of openconnect_mainloop() finds no TLS
\* connection when it gets to the protocol's loop.
CloseForPause ==
  /\ IF AboveDisabled THEN Close("SLEEPING")
     ELSE UNCHANGED <<tcp_control_queue, deflate_pkt, gone, socket, dtls_state>>
  /\ ssl' = "closed" /\ told' = FALSE
  /\ NewRound
  /\ UNCHANGED <<tunVars, udp_probes_sent, dtls_need_reconnect, current_ssl_pkt, tcp_blocked_for_udp,
                 gpVars, proto, retries, rekeys>>

Pause == pc = "tun" /\ Loses /\ CloseForPause

\* The pause that ended ssl_reconnect().
PauseAfterReconnect == pc = "pause" /\ CloseForPause /\ UNCHANGED losses

\* A timer, a packet for the tun device, a socket that may be written again.
Wakes ==
  /\ pc = "asleep"
  /\ timer \/ (next <= Packets /\ Room) \/ deflate_pkt # None
       \/ (current_ssl_pkt # NoPkt /\ ssl = "tunnel")
  /\ NewRound
  /\ UNCHANGED <<tunVars, udpVars, tlsVars, gpVars, gone, counters>>

\* Something arrives, which nobody promises.
PacketArrives ==
  /\ pc = "asleep"
  /\ NewRound
  /\ UNCHANGED <<tunVars, udpVars, tlsVars, gpVars, gone, counters>>

\* What belongs to no protocol.
Common ==
  \/ UdpSkipped \/ Resumes \/ TlsReadsAll \/ TlsReadFails
  \/ TlsDpd \/ TlsPeerDead \/ TimersSet \/ WriteDone \/ WriteStalls \/ WriteFails \/ WritesControl \/ WritesData \/ NothingToWrite
  \/ Reconnected \/ RetryConnect \/ RetryPaused \/ GiveUp
  \/ TunReads \/ RoundEnds \/ Pause \/ PauseAfterReconnect \/ Wakes \/ PacketArrives

=============================================================================
