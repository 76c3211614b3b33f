----------------------------- MODULE TunnelArray -----------------------------
(***************************************************************************)
(* array_connect(), array_mainloop() and array_dtls_mainloop().  A DTLS    *)
(* connection is of use when the server has answered a request on it; from *)
(* then on it sends over DTLS, until it is told over TLS that DTLS is off. *)
(***************************************************************************)
EXTENDS TunnelBase

\* A cookie that is not valid any more leads to a redirect, and ends the session.
array_connect ==
  /\ pc = "connect" /\ proto = "array"
  /\ \/ ssl' = "open" /\ pc' = "config"
     \/ ssl' = "closed" /\ pc' \in {"failed", "ended"}
  /\ UNCHANGED <<work_done, timer, tunVars, udpVars, current_ssl_pkt, tcp_control_queue, told,
                 tcp_blocked_for_udp, gpVars, gone, counters>>

\* The server may not want a "speed tunnel"; a DTLS connection is left as it is.
parse_speed_tunnel == dtls_state' \in {dtls_state, "DISABLED"}

\* Without an address there is no session.
parse_interface_info == {"negotiate", "failed"}

\* Two requests, the second for the addresses.
do_json_request ==
  \/ parse_speed_tunnel /\ pc' \in parse_interface_info
  \/ UNCHANGED dtls_state /\ pc' \in {"failed", "ended"}

ArrayConfig ==
  /\ pc = "config" /\ proto = "array"
  /\ do_json_request
  /\ ssl' = IF pc' = "negotiate" THEN ssl ELSE "closed"
  /\ UNCHANGED <<work_done, timer, tunVars, socket, udp_probes_sent, dtls_need_reconnect, deflate_pkt,
                 current_ssl_pkt, tcp_control_queue, told, tcp_blocked_for_udp, gpVars, gone, counters>>

\* "Refusing non-DTLS UDP tunnel"
ArrayNegotiates ==
  /\ pc = "negotiate" /\ proto = "array"
  /\ \/ ssl' = "tunnel" /\ pc' = "connected" /\ dtls_state' \in {WithKeys, "DISABLED"}
        /\ tcp_blocked_for_udp' = FALSE
     \/ ssl' = "closed" /\ pc' \in {"failed", "ended"} /\ dtls_state # "DISABLED"
        /\ UNCHANGED <<dtls_state, tcp_blocked_for_udp>>
  /\ UNCHANGED <<work_done, timer, tunVars, socket, udp_probes_sent, dtls_need_reconnect, deflate_pkt,
                 current_ssl_pkt, tcp_control_queue, told, gpVars, gone, counters>>

-----------------------------------------------------------------------------
\* array_dtls_mainloop()

DtlsTurn(state) == pc = "udp" /\ proto = "array" /\ dtls_state = state /\ ~ dtls_need_reconnect

\* connect_dtls_socket() and dtls_try_handshake(), after dtls_close(): the new state.
dtls_reconnect ==
  \/ dtls_state' = "SLEEPING" /\ socket' = "closed"
  \/ dtls_state' = "CONNECTING" /\ socket' = "open"

ArrayReconnectsDtls ==
  /\ pc = "udp" /\ proto = "array" /\ AboveDisabled /\ dtls_need_reconnect
  /\ dtls_need_reconnect' = FALSE
  /\ dtls_reconnect
  /\ pc' = "tcp" /\ work_done' = TRUE
  /\ UNCHANGED <<timer, tunVars, udp_probes_sent, deflate_pkt, tlsVars, gpVars, gone, counters>>

\* dtls_try_handshake(): not yet, or it has failed.
ArrayHandshakes ==
  /\ DtlsTurn("CONNECTING")
  /\ \/ UNCHANGED <<dtls_state, socket>>
     \/ dtls_state' = "SLEEPING" /\ socket' = "closed"
  /\ timer' = TRUE /\ pc' = "tcp" /\ work_done' = FALSE
  /\ UNCHANGED <<tunVars, udp_probes_sent, dtls_need_reconnect, deflate_pkt, tlsVars, gpVars, gone, counters>>

\* A request on the new connection.  If it cannot be sent there is no more DTLS.
ArrayRequests ==
  \/ dtls_state' = "CONNECTED" /\ UNCHANGED socket /\ work_done' = FALSE
  \/ dtls_state' = "DISABLED" /\ socket' = "closed" /\ work_done' = TRUE

ArrayConnects ==
  /\ DtlsTurn("CONNECTING")
  /\ ArrayRequests
  /\ timer' = TRUE /\ pc' = "tcp"
  /\ UNCHANGED <<tunVars, udp_probes_sent, dtls_need_reconnect, deflate_pkt, tlsVars, gpVars, gone, counters>>

\* "200 OK", or an IP packet because the answer may have been lost.
Accepted == dtls_state' = "ESTABLISHED" /\ tcp_blocked_for_udp' = TRUE

ArrayEstablishes ==
  /\ DtlsTurn("CONNECTED")
  /\ Accepted /\ told' = TRUE
  /\ work_done' \in BOOLEAN
  /\ pc' = "dtls_timers"
  /\ UNCHANGED <<timer, tunVars, socket, udp_probes_sent, dtls_need_reconnect, deflate_pkt, ssl, current_ssl_pkt,
                 tcp_control_queue, gpVars, gone, counters>>

ArrayReadFails ==
  /\ Loses
  /\ DtlsTurn("CONNECTED")
  /\ dtls_state' = "SLEEPING" /\ socket' = "closed"
  /\ pc' = "tcp" /\ work_done' = TRUE
  /\ UNCHANGED <<timer, tunVars, udp_probes_sent, dtls_need_reconnect, deflate_pkt, tlsVars, gpVars, gone, proto, retries, rekeys>>

\* "Resend the connect request every second"
ArrayRequestsAgain ==
  /\ DtlsTurn("CONNECTED")
  /\ ArrayRequests
  /\ timer' = TRUE /\ pc' = "tcp"
  /\ UNCHANGED <<tunVars, udp_probes_sent, dtls_need_reconnect, deflate_pkt, tlsVars, gpVars, gone, counters>>

\* dtls_attempt_period after the last attempt.
ArrayAttempts ==
  /\ DtlsTurn("SLEEPING")
  /\ dtls_reconnect
  /\ timer' = TRUE /\ pc' = "tcp" /\ work_done' = FALSE
  /\ UNCHANGED <<tunVars, udp_probes_sent, dtls_need_reconnect, deflate_pkt, tlsVars, gpVars, gone, counters>>

ArraySleeps ==
  /\ DtlsTurn("SLEEPING")
  /\ timer' = TRUE /\ pc' = "tcp" /\ work_done' = FALSE
  /\ UNCHANGED <<tunVars, udpVars, tlsVars, gpVars, gone, counters>>

\* Packets arrive, and the timers are next.
ArrayReads ==
  /\ DtlsTurn("ESTABLISHED")
  /\ work_done' \in BOOLEAN
  /\ pc' = "dtls_timers"
  /\ UNCHANGED <<timer, tunVars, udpVars, tlsVars, gpVars, gone, counters>>

\* "Fall back to SSL, and start a new DTLS connection"
ArrayPeerDead ==
  /\ Loses
  /\ pc = "dtls_timers" /\ proto = "array"
  /\ dtls_reconnect
  /\ pc' = "tcp" /\ work_done' = TRUE
  /\ UNCHANGED <<timer, tunVars, udp_probes_sent, dtls_need_reconnect, deflate_pkt, tlsVars, gpVars, gone, proto, retries, rekeys>>

\* KA_DPD, or nothing to do.
ArrayAlive ==
  /\ pc = "dtls_timers" /\ proto = "array"
  /\ work_done' \in {work_done, TRUE} /\ timer' \in {timer, TRUE}
  /\ pc' = "dtls"
  /\ UNCHANGED <<tunVars, udpVars, tlsVars, gpVars, gone, counters>>

ArraySends ==
  /\ pc = "dtls" /\ outgoing_queue # <<>>
  /\ gone' = Append(gone, Head(outgoing_queue))
  /\ outgoing_queue' = Tail(outgoing_queue)
  /\ UNCHANGED <<pc, work_done, timer, next, udpVars, tlsVars, gpVars, counters>>

\* The packet is put back where it was.
ArrayStalls ==
  /\ pc = "dtls" /\ outgoing_queue # <<>>
  /\ pc' = "tcp" /\ timer' = TRUE
  /\ UNCHANGED <<work_done, tunVars, udpVars, tlsVars, gpVars, gone, counters>>

\* "kill the DTLS connection so the requeued packet will be sent over SSL"
ArraySendFails ==
  /\ Loses
  /\ pc = "dtls" /\ outgoing_queue # <<>>
  /\ dtls_reconnect
  /\ pc' = "tcp" /\ work_done' = TRUE
  /\ UNCHANGED <<timer, tunVars, udp_probes_sent, dtls_need_reconnect, deflate_pkt, tlsVars, gpVars, gone, proto, retries, rekeys>>

ArraySentAll ==
  /\ pc = "dtls" /\ outgoing_queue = <<>>
  /\ pc' = "tcp"
  /\ UNCHANGED <<work_done, timer, tunVars, udpVars, tlsVars, gpVars, gone, counters>>

-----------------------------------------------------------------------------
\* What array_mainloop() has beside the others: "Sending DTLS off packet".
WritesDtlsOff ==
  /\ pc = "next" /\ dtls_state # "ESTABLISHED" /\ tcp_blocked_for_udp
  /\ WriteNext(Pkt("disable", None)) /\ tcp_blocked_for_udp' = FALSE
  /\ UNCHANGED <<work_done, timer, tunVars, udpVars, ssl, tcp_control_queue, told, gpVars, gone, counters>>

array_mainloop ==
  \/ array_connect \/ ArrayConfig \/ ArrayNegotiates
  \/ ArrayReconnectsDtls \/ ArrayHandshakes \/ ArrayConnects \/ ArrayEstablishes \/ ArrayReadFails
  \/ ArrayRequestsAgain \/ ArrayAttempts \/ ArraySleeps \/ ArrayReads \/ ArrayPeerDead \/ ArrayAlive
  \/ ArraySends \/ ArrayStalls \/ ArraySendFails \/ ArraySentAll \/ WritesDtlsOff

=============================================================================
