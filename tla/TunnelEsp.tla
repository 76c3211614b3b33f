----------------------------- MODULE TunnelEsp -----------------------------
(***************************************************************************)
(* esp_mainloop(), for Network Connect, Pulse and GlobalProtect.           *)
(***************************************************************************)
EXTENDS TunnelBase

EspTurn == pc = "udp" /\ AboveDisabled /\ proto # "array"

\* An answer that the client can decrypt.
ProbeAnswered ==
  /\ EspTurn /\ socket # "closed" /\ keys_valid
  /\ socket' = "heard"
  /\ dtls_state' = IF dtls_state = "SLEEPING" THEN "CONNECTED" ELSE dtls_state
  /\ work_done' = TRUE
  /\ UNCHANGED <<pc, timer, tunVars, udp_probes_sent, dtls_need_reconnect, deflate_pkt,
                 tlsVars, gone, gpVars, counters>>

\* "On *real* errors, close the UDP socket and try again later."
UdpFails ==
  /\ EspTurn /\ socket # "closed"
  /\ Loses
  /\ Close("SLEEPING")
  /\ pc' = "tcp" /\ work_done' = FALSE
  /\ UNCHANGED <<timer, tunVars, udp_probes_sent, dtls_need_reconnect, ssl, current_ssl_pkt, told,
                 tcp_blocked_for_udp,
                 gpVars, proto, retries, rekeys>>

\* Nothing more to receive.  CONNECTED has nothing to do here.
UdpDone ==
  /\ EspTurn
  /\ IF dtls_need_reconnect THEN Close("SLEEPING")
     ELSE UNCHANGED <<tcp_control_queue, deflate_pkt, gone, socket, dtls_state>>
  /\ pc' = CASE dtls_state' = "SLEEPING"    -> "probe"
             [] dtls_state' = "CONNECTED"   -> "tcp"
             [] dtls_state' = "ESTABLISHED" -> "keepalive"
  /\ work_done' = (work_done /\ dtls_state' # "CONNECTED")
  /\ UNCHANGED <<timer, tunVars, udp_probes_sent, dtls_need_reconnect, ssl, current_ssl_pkt, told,
                 tcp_blocked_for_udp,
                 gpVars, counters>>

\* A second after the last one.  The sleep is not limited to another second.
RepeatProbe ==
  /\ pc = "probe" /\ udp_probes_sent <= MaxProbes
  /\ udp_probes_sent' = udp_probes_sent + 1
  /\ SendProbe
  /\ pc' = "tcp" /\ work_done' = FALSE
  /\ UNCHANGED <<timer, tunVars, dtls_need_reconnect, deflate_pkt, tlsVars, gone, gpVars, counters>>

\* Broken on purpose: there are no attempts but those somebody asks for.
NewAttempt_Asked ==
  /\ pc = "probe" /\ dtls_need_reconnect
  /\ dtls_need_reconnect' = FALSE
  /\ udp_probes_sent' = 1 /\ timer' = TRUE
  /\ SendProbe
  /\ pc' = "tcp" /\ work_done' = FALSE
  /\ UNCHANGED <<tunVars, deflate_pkt, tlsVars, gone, gpVars, counters>>

\* dtls_attempt_period after the last attempt, or because TLS was reconnected.
NewAttempt ==
  /\ pc = "probe"
  /\ dtls_need_reconnect' = FALSE
  /\ udp_probes_sent' = 1 /\ timer' = TRUE
  /\ SendProbe
  /\ pc' = "tcp" /\ work_done' = FALSE
  /\ UNCHANGED <<tunVars, deflate_pkt, tlsVars, gone, gpVars, counters>>

NothingToProbe ==
  /\ pc = "probe" /\ ~ dtls_need_reconnect
  /\ timer' = TRUE
  /\ pc' = "tcp"
  /\ UNCHANGED <<work_done, tunVars, udpVars, tlsVars, gone, gpVars, counters>>

\* KA_DPD.  The packets are sent all the same, on a socket that may be new.
DpdProbe ==
  /\ pc = "keepalive"
  /\ udp_probes_sent' = IF udp_probes_sent > MaxProbes THEN udp_probes_sent
                                                       ELSE udp_probes_sent + 1
  /\ SendProbe
  /\ pc' = "send" /\ work_done' = TRUE
  /\ UNCHANGED <<timer, tunVars, dtls_need_reconnect, deflate_pkt, tlsVars, gone, gpVars, counters>>

\* KA_DPD_DEAD
EspPeerDead ==
  /\ pc = "keepalive" /\ Loses
  /\ Close("SLEEPING")
  /\ pc' = "probe"
  /\ UNCHANGED <<work_done, timer, tunVars, udp_probes_sent, dtls_need_reconnect, ssl,
                 current_ssl_pkt, told, tcp_blocked_for_udp, gpVars, proto, retries, rekeys>>

EspAlive ==
  /\ pc = "keepalive"
  /\ timer' = TRUE
  /\ pc' = "send"
  /\ UNCHANGED <<work_done, tunVars, udpVars, tlsVars, gone, gpVars, counters>>

\* The packet that waits goes first.
ToSend == pc = "send" /\ (deflate_pkt # None \/ outgoing_queue # <<>>)

Packet1 == IF deflate_pkt # None THEN deflate_pkt ELSE Head(outgoing_queue)

TakePacket ==
  outgoing_queue' = IF deflate_pkt # None THEN outgoing_queue ELSE Tail(outgoing_queue)

\* Pulse sends the packets of the other IP version over TLS, ahead of what waits there.
EspReroutes ==
  /\ proto = "pulse" /\ ToSend /\ deflate_pkt = None
  /\ tcp_control_queue' = Append(tcp_control_queue, Pkt("data", Packet1))
  /\ TakePacket
  /\ work_done' = TRUE
  /\ UNCHANGED <<pc, timer, next, udpVars, ssl, current_ssl_pkt, told, tcp_blocked_for_udp,
                 gpVars, gone, counters>>

EspSends ==
  /\ ToSend /\ socket # "closed"
  /\ gone' = Append(gone, Packet1)
  /\ TakePacket /\ deflate_pkt' = None
  /\ work_done' = TRUE
  /\ UNCHANGED <<pc, timer, next, dtls_state, socket, udp_probes_sent, dtls_need_reconnect, tlsVars,
                 gpVars, counters>>

\* "A real error in sending", as there is when the socket is closed.
EspDrops ==
  /\ ToSend
  /\ gone' = Append(gone, Packet1)
  /\ TakePacket /\ deflate_pkt' = None
  /\ work_done' = TRUE
  /\ UNCHANGED <<pc, timer, next, dtls_state, socket, udp_probes_sent, dtls_need_reconnect, tlsVars,
                 gpVars, counters>>

EspStalls ==
  /\ ToSend /\ socket # "closed"
  /\ TakePacket /\ deflate_pkt' = Packet1
  /\ pc' = "tcp"
  /\ UNCHANGED <<work_done, timer, next, dtls_state, socket, udp_probes_sent, dtls_need_reconnect,
                 tlsVars, gone, gpVars, counters>>

EspSentAll ==
  /\ pc = "send" /\ ~ ToSend
  /\ pc' = "tcp"
  /\ UNCHANGED <<work_done, timer, tunVars, udpVars, tlsVars, gone, gpVars, counters>>

esp_mainloop ==
  \/ ProbeAnswered \/ UdpFails \/ UdpDone
  \/ RepeatProbe \/ NewAttempt \/ NothingToProbe \/ DpdProbe \/ EspPeerDead \/ EspAlive
  \/ EspReroutes \/ EspSends \/ EspDrops \/ EspStalls \/ EspSentAll

=============================================================================
