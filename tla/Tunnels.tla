------------------------------ MODULE Tunnels ------------------------------
(***************************************************************************)
(* The data path of one session, with the protocol's own steps, ESP where  *)
(* it has that, and the main loop around them.                             *)
(***************************************************************************)
EXTENDS TunnelEsp, TunnelNc, TunnelPulse, TunnelGp, TunnelArray

Finished == pc = "ended" /\ UNCHANGED vars

Next ==
  \/ Common \/ esp_mainloop \/ Finished
  \/ oncp_mainloop \/ pulse_mainloop \/ gpst_mainloop \/ array_mainloop

\* Where two actions share a fairness condition, no protocol has both but GlobalProtect's
\* GpFallsBack and TimersSet.
\* The loop runs, and what is tried again and again works in the end: a write, a
\* send, the opening of a socket, a probe, a handshake, a request.  Timers: a new
\* attempt is due some time after the last, GlobalProtect's five seconds pass, and DPD
\* is due where nothing can be received, but not again at once.
Fairness ==
  /\ WF_vars(pc # "asleep" /\ Next) /\ WF_vars(Wakes)
  /\ SF_vars(WriteDone) /\ SF_vars(TunReads)
  /\ SF_vars(EspSends \/ ArraySends) /\ SF_vars(ProbeAnswered \/ ArrayEstablishes)
  /\ SF_vars((NewAttempt /\ socket' # "closed") \/ (ArrayAttempts /\ dtls_state' = "CONNECTING"))
  /\ SF_vars((socket = "closed" /\ DpdProbe /\ socket' # "closed") \/ ArrayConnects)
  /\ SF_vars(GpFallsBack \/ TimersSet)

Spec == Init /\ [][Next]_vars /\ Fairness

-----------------------------------------------------------------------------
Times(p, s) == Cardinality({i \in DOMAIN s : s[i] = p})

\* A server that sends over UDP, because it was told to or has said so, is not left
\* sending to a client that has given UDP up: the client still uses it, or the message
\* that it does not is on its way.
ServerNotMisled ==
  told =>
    \/ dtls_state = "ESTABLISHED"
    \/ current_ssl_pkt.kind = "disable" \/ Contains(tcp_control_queue, Pkt("disable", None))
    \/ tcp_blocked_for_udp

\* GlobalProtect's client has no keys that the gateway has forgotten, whatever step of
\* a reconnection failed and however it was interrupted.
GpKeysValid == proto = "gp" /\ dtls_state \notin {"DISABLED", "NOSECRET"} => keys_valid

\* A packet for GlobalProtect's tunnel over HTTPS whose write stalled before a reconnection
\* is kept while ESP is used.
Kept(p) == proto = "gp" /\ current_ssl_pkt = Pkt("data", p) /\ dtls_state = "ESTABLISHED"

\* After a check of the host GlobalProtect's loop goes to sleep with what is queued, and
\* without a timer.
Overslept ==
  proto = "gp" /\ pc = "asleep" /\ ~ timer /\ outgoing_queue # <<>> /\ (current_ssl_pkt = NoPkt \/ ssl # "tunnel")

\* No packet waits for ever, also when the client believes in an ESP connection
\* that is not there.
NoneStuck ==
  \A p \in Packet :
    <>(\/ Times(p, gone) > 0
       \/ Kept(p) \/ Overslept \/ pc = "ended")

\* After the last failure UDP comes back, as long as something wakes the loop, and
\* except when its loop is not called any more.
UdpComesBack ==
  []<>(pc # "asleep") =>
    <>[](\/ dtls_state = "ESTABLISHED" /\ (proto # "array" => socket = "heard")
         \/ dtls_state \in {"NOSECRET", "SECRET", "DISABLED"}
         \/ pc = "ended")

\* Every check of the host that is due is made, whichever transport is in use, unless
\* the loop is asleep without a timer.  That is how a check over HTTPS leaves it
\* (gpst.c:1312): the next one may fall due, and waits until something wakes the loop.
HipRechecked ==
  hip = "due" /\ (pc # "asleep" \/ timer) ~> hip # "due" \/ pc = "ended"

-----------------------------------------------------------------------------

=============================================================================
