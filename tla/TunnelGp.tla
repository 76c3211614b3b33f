------------------------------ MODULE TunnelGp ------------------------------
(***************************************************************************)
(* gpst_setup(), gpst_connect() and gpst_mainloop(), GlobalProtect's.  The *)
(* gateway hands out ESP keys with the configuration and forgets them when *)
(* the tunnel over HTTPS is opened, which is why ESP gets five seconds to  *)
(* begin and HTTPS is used only after that.  The client reports on the     *)
(* host (HIP) after every configuration, and again from time to time.      *)
(***************************************************************************)
EXTENDS TunnelBase

\* Broken on purpose: the keys of the last configuration stay in use while the
\* next is fetched.
gpst_setup_KeepsKeys ==
  /\ pc = "connect" /\ proto = "gp"
  /\ pc' = "config"
  /\ UNCHANGED <<work_done, timer, tunVars, udpVars, tlsVars, gpVars, gone, counters>>

\* "ESP keys are invalid as soon as we (re-)fetch the configuration, hence shutdown"
gpst_setup ==
  /\ pc = "connect" /\ proto = "gp"
  /\ Close(NoSecret)
  /\ pc' = "config"
  /\ UNCHANGED <<work_done, timer, tunVars, udp_probes_sent, dtls_need_reconnect, ssl, current_ssl_pkt, told,
                 tcp_blocked_for_udp, gpVars, counters>>

\* Keys of the gateway's are set up, or there are none.
parse_config_xml ==
  \/ dtls_state' = WithKeys /\ keys_valid' = (dtls_state # "DISABLED")
  \/ dtls_state' = dtls_state /\ keys_valid' = FALSE

\* The request may fail before or after the gateway has dealt with it, and a
\* configuration may be refused after its keys were set up.
gpst_get_config ==
  /\ pc = "config" /\ proto = "gp"
  /\ ssl' \in {"closed", "open"}
  /\ \/ pc' = "hip" /\ hip' = "owed" /\ parse_config_xml
     \/ /\ pc' \in {"failed", "ended"} /\ UNCHANGED hip
        /\ parse_config_xml \/ UNCHANGED <<dtls_state, keys_valid>>
  /\ UNCHANGED <<work_done, timer, tunVars, socket, udp_probes_sent, dtls_need_reconnect, deflate_pkt,
                 current_ssl_pkt, tcp_control_queue, told, tcp_blocked_for_udp, gone, counters>>

\* The phases of gpst_mainloop() end the session where ssl_reconnect() tries again.
Otherwise == IF pc \in GpPhases THEN {"ended"} ELSE {"failed", "ended"}

\* What the gateway says of the last report's digest, or of a report.
check_or_submit_hip_report == {"enough", "report wanted", "error"}

\* The report of the script is posted, if it ends well.  Without a script the client
\* goes on as if there had been one.
run_hip_script == (check_or_submit_hip_report \ {"report wanted"}) \cup {"no script"}

check_and_maybe_submit_hip_report ==
  /\ pc \in {"hip", "recheck"} /\ proto = "gp"
  /\ ssl' \in {"closed", "open"}
  /\ \E result \in (check_or_submit_hip_report \ {"report wanted"}) \cup run_hip_script :
       IF result = "error" THEN UNCHANGED hip /\ pc' \in Otherwise
       ELSE hip' = "ok" /\ pc' = (IF pc = "hip" THEN "tunnel" ELSE "reopen")
  /\ UNCHANGED <<work_done, timer, tunVars, udpVars, current_ssl_pkt, tcp_control_queue, told,
                 tcp_blocked_for_udp, keys_valid, gone, counters>>

AfterConnect == CASE pc = "tunnel" -> "connected" [] pc = "reopen" -> "tun" [] pc = "fallback" -> "tcp"

\* "We do NOT actually start the HTTPS tunnel if ESP is enabled and we received ESP
\* keys, because the ESP keys become invalid as soon as the HTTPS tunnel is connected!"
gpst_connect_NotNeeded ==
  /\ pc \in {"tunnel", "reopen", "fallback"} /\ proto = "gp"
  /\ dtls_state \notin {"DISABLED", "NOSECRET"}
  /\ pc' = AfterConnect
  /\ UNCHANGED <<work_done, timer, tunVars, udpVars, tlsVars, gpVars, gone, counters>>

gpst_connect ==
  /\ pc \in {"tunnel", "reopen", "fallback"} /\ proto = "gp"
  /\ dtls_state \in {"DISABLED", "NOSECRET"}
  /\ Close(dtls_state)
  /\ ssl' = "tunnel" /\ keys_valid' = FALSE
  /\ pc' = AfterConnect
  /\ UNCHANGED <<work_done, timer, tunVars, udp_probes_sent, dtls_need_reconnect, current_ssl_pkt, told,
                 tcp_blocked_for_udp, hip, counters>>

\* Without a tunnel the connection is closed, except by who interrupts; the gateway may
\* have seen the request.
gpst_connect_Fails ==
  /\ pc \in {"tunnel", "reopen", "fallback"} /\ proto = "gp"
  /\ dtls_state \in {"DISABLED", "NOSECRET"}
  /\ ssl' \in {"closed", "open"} /\ keys_valid' \in {keys_valid, FALSE}
  /\ pc' \in Otherwise
  /\ UNCHANGED <<work_done, timer, tunVars, udpVars, current_ssl_pkt, tcp_control_queue, told,
                 tcp_blocked_for_udp, hip, gone, counters>>

-----------------------------------------------------------------------------
\* gpst_mainloop()

\* Time passes.
HipFallsDue ==
  /\ proto = "gp" /\ pc \in {"udp", "asleep"} /\ hip # "due"
  /\ rekeys < MaxChecks /\ rekeys' = rekeys + 1
  /\ hip' = "due"
  /\ UNCHANGED <<proto, retries, losses, pc, work_done, timer, tunVars, udpVars, tlsVars, keys_valid, gone>>

GpTurn(states) == pc = "tcp" /\ proto = "gp" /\ dtls_state \in states

\* A probe was answered: the HTTPS connection has done its work.
GpEstablishes ==
  /\ GpTurn({"CONNECTED"})
  /\ ssl' = "closed" /\ dtls_state' = "ESTABLISHED"
  /\ UNCHANGED <<pc, work_done, timer, tunVars, socket, udp_probes_sent, dtls_need_reconnect, deflate_pkt,
                 current_ssl_pkt, tcp_control_queue, told, tcp_blocked_for_udp, gpVars, gone, counters>>

GpRekey == GpTurn({"ESTABLISHED"}) /\ Loses /\ Reconnect

\* Broken on purpose: with ESP established the loop goes on.
HipRecheck_TlsOnly ==
  /\ hip = "due" /\ proto = "gp"
  /\ \/ GpTurn({"ESTABLISHED"}) /\ pc' = "tun" /\ timer' = TRUE /\ UNCHANGED ssl
     \/ pc = "timers" /\ ssl' = "closed" /\ pc' = "recheck" /\ UNCHANGED timer
  /\ UNCHANGED <<work_done, tunVars, udpVars, current_ssl_pkt, tcp_control_queue, told,
                 tcp_blocked_for_udp, gpVars, gone, counters>>

\* With ESP established as well as with the tunnel over HTTPS, which is closed for it.
HipRecheck ==
  /\ GpTurn({"ESTABLISHED"}) \/ (pc = "timers" /\ proto = "gp")
  /\ hip = "due"
  /\ ssl' = "closed" /\ pc' = "recheck"
  /\ UNCHANGED <<work_done, timer, tunVars, udpVars, current_ssl_pkt, tcp_control_queue, told,
                 tcp_blocked_for_udp, gpVars, gone, counters>>

\* ESP does all the work, or has five seconds to begin.
GpWaits ==
  /\ \/ GpTurn({"ESTABLISHED"}) /\ hip # "due"
     \/ GpTurn({"SECRET", "SLEEPING"})
  /\ timer' = TRUE /\ pc' = "tun"
  /\ UNCHANGED <<work_done, tunVars, udpVars, tlsVars, gpVars, gone, counters>>

\* "Failed to connect ESP tunnel; using HTTPS instead."
GpFallsBack ==
  /\ GpTurn({"SECRET", "SLEEPING"})
  /\ dtls_state' = "NOSECRET" /\ pc' = "fallback"
  /\ UNCHANGED <<work_done, timer, tunVars, socket, udp_probes_sent, dtls_need_reconnect, deflate_pkt,
                 tlsVars, gpVars, gone, counters>>

\* A short packet, or one of a type that is not known.
GpUnknownPacket ==
  /\ TlsTurn /\ proto = "gp" /\ ssl # "closed"
  /\ pc' = "ended"
  /\ UNCHANGED <<work_done, timer, tunVars, udpVars, tlsVars, gpVars, gone, counters>>

gpst_mainloop ==
  \/ gpst_setup \/ gpst_get_config \/ check_and_maybe_submit_hip_report
  \/ gpst_connect_NotNeeded \/ gpst_connect \/ gpst_connect_Fails
  \/ HipFallsDue \/ GpEstablishes \/ GpRekey \/ HipRecheck \/ GpWaits \/ GpFallsBack
  \/ GpUnknownPacket

=============================================================================
