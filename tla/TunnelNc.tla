------------------------------ MODULE TunnelNc ------------------------------
(***************************************************************************)
(* oncp_mainloop(), Network Connect's.  The client probes the server over  *)
(* UDP, and when a probe is answered it tells the server over TLS to use   *)
(* ESP, and uses it when that message has been written.  When it gives ESP *)
(* up it tells the server so, over TLS again.                              *)
(***************************************************************************)
EXTENDS TunnelBase

\* A new tunnel, which may begin with new keys.  current_ssl_pkt and the control
\* queue go over to it as they are.
oncp_connect ==
  /\ pc = "connect" /\ proto = "nc"
  /\ \/ ssl' = "tunnel" /\ pc' = "connected" /\ dtls_state' \in {dtls_state, WithKeys}
     \/ ssl' = "closed" /\ pc' \in {"failed", "ended"} /\ UNCHANGED dtls_state
  /\ UNCHANGED <<work_done, timer, tunVars, socket, udp_probes_sent, dtls_need_reconnect, deflate_pkt,
                 current_ssl_pkt, tcp_control_queue, told, tcp_blocked_for_udp, gpVars, gone, counters>>

\* oncp_receive_espkeys(): the answer has the client's new keys.
ReceivesKeys ==
  /\ pc = "tcp" /\ proto = "nc" /\ ssl = "tunnel" /\ rekeys < MaxRekeys
  /\ dtls_state # "DISABLED"
  /\ rekeys' = rekeys + 1
  /\ dtls_state' = WithKeys
  /\ tcp_control_queue' = Append(tcp_control_queue, Pkt("keys", None))
  /\ work_done' = TRUE
  /\ UNCHANGED <<proto, retries, losses, pc, timer, tunVars, socket, udp_probes_sent, dtls_need_reconnect,
                 deflate_pkt, ssl, current_ssl_pkt, told, tcp_blocked_for_udp, gpVars, gone>>

\* The keys are no good, and ESP is closed.
RefusesKeys ==
  /\ pc = "tcp" /\ proto = "nc" /\ ssl = "tunnel" /\ rekeys < MaxRekeys
  /\ rekeys' = rekeys + 1
  /\ Close(Sleeping)
  /\ work_done' = TRUE
  /\ UNCHANGED <<proto, retries, losses, pc, timer, tunVars, udp_probes_sent, dtls_need_reconnect, ssl,
                 current_ssl_pkt, told, tcp_blocked_for_udp, gpVars>>

WritesEnable ==
  /\ pc = "next" /\ proto = "nc" /\ dtls_state = "CONNECTED"
  /\ WriteNext(Pkt("enable", None))
  /\ UNCHANGED <<work_done, timer, tunVars, udpVars, ssl, tcp_control_queue, told, tcp_blocked_for_udp,
                 gpVars, gone, counters>>

oncp_mainloop == oncp_connect \/ ReceivesKeys \/ RefusesKeys \/ WritesEnable

=============================================================================
