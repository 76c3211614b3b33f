----------------------------- MODULE TunnelPulse -----------------------------
(***************************************************************************)
(* pulse_mainloop() and the configuration of pulse_connect().  Nobody is   *)
(* told which transport to use: the client begins with ESP when a probe is *)
(* answered.                                                               *)
(***************************************************************************)
EXTENDS TunnelBase

\* "If we already have a channel open, it's because we have just successfully
\* authenticated on it from pulse_obtain_cookie()": it is not authenticated again.
pulse_connect ==
  /\ pc = "connect" /\ proto = "pulse"
  /\ \/ ssl' = "open" /\ pc' = "config"
     \/ ssl = "closed" /\ ssl' = "closed" /\ pc' \in {"failed", "ended"}
  /\ UNCHANGED <<work_done, timer, tunVars, udpVars, current_ssl_pkt, tcp_control_queue, told,
                 tcp_blocked_for_udp, gpVars, gone, counters>>

\* The server's keys are used, and answered with the client's.
EspConfig ==
  /\ pc = "config" /\ proto = "pulse"
  /\ dtls_state = "NOSECRET" /\ dtls_state' = "SECRET"
  /\ UNCHANGED <<pc, work_done, timer, tunVars, socket, udp_probes_sent, dtls_need_reconnect, deflate_pkt,
                 tlsVars, gpVars, gone, counters>>

\* Or they are not good enough.
EspConfigRefused ==
  /\ pc = "config" /\ proto = "pulse"
  /\ dtls_state # "DISABLED" /\ dtls_state' = "DISABLED"
  /\ UNCHANGED <<pc, work_done, timer, tunVars, socket, udp_probes_sent, dtls_need_reconnect, deflate_pkt,
                 tlsVars, gpVars, gone, counters>>

\* The configuration cannot be parsed.  The connection is not closed.
MainConfigRefused ==
  /\ pc = "config" /\ proto = "pulse"
  /\ pc' = "failed"
  /\ UNCHANGED <<work_done, timer, tunVars, udpVars, tlsVars, gpVars, gone, counters>>

\* The connection fails, and is not closed either.
PulseConfigFails ==
  /\ pc = "config" /\ proto = "pulse"
  /\ pc' \in {"failed", "ended"}
  /\ UNCHANGED <<work_done, timer, tunVars, udpVars, tlsVars, gpVars, gone, counters>>

PulseConfigured ==
  /\ pc = "config" /\ proto = "pulse"
  /\ ssl' = "tunnel" /\ pc' = "connected"
  /\ UNCHANGED <<work_done, timer, tunVars, udpVars, current_ssl_pkt, tcp_control_queue, told,
                 tcp_blocked_for_udp, gpVars, gone, counters>>

-----------------------------------------------------------------------------
\* The server renews the keys: the answer waits with other control messages.
PulseRekeys ==
  /\ pc = "tcp" /\ proto = "pulse" /\ ssl = "tunnel" /\ rekeys < MaxRekeys
  /\ dtls_state # "DISABLED"
  /\ rekeys' = rekeys + 1
  /\ dtls_state' = WithKeys
  /\ tcp_control_queue' = Append(tcp_control_queue, Pkt("keys", None))
  /\ UNCHANGED <<proto, retries, losses, pc, work_done, timer, tunVars, socket, udp_probes_sent,
                 dtls_need_reconnect, deflate_pkt, ssl, current_ssl_pkt, told, tcp_blocked_for_udp, gpVars, gone>>

PulseRekeyFails ==
  /\ pc = "tcp" /\ proto = "pulse" /\ ssl = "tunnel" /\ rekeys < MaxRekeys
  /\ rekeys' = rekeys + 1
  /\ Close(Sleeping)
  /\ UNCHANGED <<proto, retries, losses, pc, work_done, timer, tunVars, udp_probes_sent, dtls_need_reconnect,
                 ssl, current_ssl_pkt, told, tcp_blocked_for_udp, gpVars>>

\* The licence message is taken for a sign that probes are answered now.
PulseLicence ==
  /\ pc = "tcp" /\ proto = "pulse" /\ ssl = "tunnel" /\ dtls_state = "SLEEPING" /\ socket = "closed"
  /\ SendProbe
  /\ UNCHANGED <<pc, work_done, timer, tunVars, udp_probes_sent, dtls_need_reconnect, deflate_pkt, tlsVars,
                 gpVars, gone, counters>>

\* A fatal error: somebody else has taken the session over, or its time is up.
PulseFatalError ==
  /\ pc = "tcp" /\ proto = "pulse" /\ ssl = "tunnel"
  /\ pc' = "ended"
  /\ UNCHANGED <<work_done, timer, tunVars, udpVars, tlsVars, gpVars, gone, counters>>

\* "Just go straight to CONNECTED mode."
PulseEstablishes ==
  /\ pc = "next" /\ proto = "pulse" /\ dtls_state = "CONNECTED"
  /\ dtls_state' = "ESTABLISHED" /\ work_done' = TRUE
  /\ UNCHANGED <<pc, timer, tunVars, socket, udp_probes_sent, dtls_need_reconnect, deflate_pkt, tlsVars,
                 gpVars, gone, counters>>

pulse_mainloop ==
  \/ pulse_connect \/ EspConfig \/ EspConfigRefused \/ MainConfigRefused \/ PulseConfigFails \/ PulseConfigured
  \/ PulseRekeys \/ PulseRekeyFails \/ PulseLicence \/ PulseFatalError \/ PulseEstablishes

=============================================================================
