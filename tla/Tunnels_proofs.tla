--------------------------- MODULE Tunnels_proofs ---------------------------
(***************************************************************************)
(* For any number of packets, probes, key messages, losses and retries: a  *)
(* server that sends over UDP is told when the client gives that up, and   *)
(* GlobalProtect's client has no keys that the gateway has forgotten.      *)
(***************************************************************************)
EXTENDS Tunnels, SequenceTheorems, TLAPS

\* The message that UDP is off.
Disable == Pkt("disable", None)

\* That UDP is off is being written, or waits to be.
Announced == current_ssl_pkt.kind = "disable" \/ Contains(tcp_control_queue, Disable)

\* Whose places and messages these are.
Places ==
  /\ pc \in {"probe", "keepalive", "send"} => proto # "array"
  /\ pc \in {"dtls_timers", "dtls"} => proto = "array"
  /\ dtls_state = "CONNECTING" \/ tcp_blocked_for_udp => proto = "array"
  /\ current_ssl_pkt.kind = "enable" => proto = "nc"
  /\ pc \in {"timers", "next"} => current_ssl_pkt = NoPkt

\* What is known of UDP between the steps of esp_mainloop() and while GlobalProtect's
\* configuration is fetched.
Probing ==
  /\ pc = "probe" => dtls_state = "SLEEPING"
  /\ pc = "keepalive" => dtls_state = "ESTABLISHED"
  /\ proto = "gp" /\ pc = "config" => dtls_state \in {"DISABLED", "NOSECRET"}

\* A new tunnel begins with a server that sends over TLS.
ToldHere ==
  told =>
    /\ proto \in {"nc", "array"}
    /\ pc \notin {"connect", "config", "negotiate", "connected", "failed", "pause"}
    /\ proto = "array" => tcp_blocked_for_udp \/ current_ssl_pkt.kind = "disable"

\* Network Connect's "enable" may be late.  A client without its socket, or that is
\* not probed successfully any more, has what takes it back behind it.
Retracted ==
  proto = "nc" =>
    /\ dtls_state = "CONNECTED" => socket # "closed"
    /\ current_ssl_pkt.kind = "enable" =>
         dtls_state = "CONNECTED" \/ Contains(tcp_control_queue, Disable)
    /\ told => (dtls_state = "ESTABLISHED" /\ socket # "closed") \/ Announced

\* What the client has and what the server has been told agree.
Consistent == Places /\ Probing /\ ToldHere /\ Retracted

-----------------------------------------------------------------------------
\* Types, in parts.

\* dtls_state.
States == {"NOSECRET", "SECRET", "DISABLED", "SLEEPING", "CONNECTING", "CONNECTED", "ESTABLISHED"}

\* What may wait in tcp_control_queue, and what may be written.
Control == {Pkt("disable", None), Pkt("keys", None)} \cup Data

Written == {Pkt(kind, None) : kind \in {"none", "enable", "disable", "keys", "dpd"}} \cup Data

\* Where the thread is, for which protocol.
Phases ==
  /\ proto \in Protocols
  /\ pc \in {"udp", "dtls_timers", "dtls", "probe", "keepalive", "send", "tcp", "timers", "write", "next", "tun",
             "pause", "asleep", "ended"} \cup ConnectPhases \cup GpPhases

\* The flags.
Flags ==
  /\ work_done \in BOOLEAN /\ timer \in BOOLEAN /\ dtls_need_reconnect \in BOOLEAN
  /\ told \in BOOLEAN /\ tcp_blocked_for_udp \in BOOLEAN /\ keys_valid \in BOOLEAN

\* The tun device's packets on their way to TLS.
Queues ==
  /\ outgoing_queue \in Seq(Packet) /\ Len(outgoing_queue) <= MaxQlen
  /\ next \in 1 .. Packets + 1
  /\ current_ssl_pkt \in Written

\* The other places where packets are.
Messages ==
  /\ tcp_control_queue \in Seq(Control)
  /\ deflate_pkt \in {None} \cup Packet
  /\ gone \in Seq(Packet)

\* Both transports, the timers and the counters.
Links ==
  /\ dtls_state \in States /\ socket \in {"closed", "open", "heard"}
  /\ udp_probes_sent \in 0 .. MaxProbes + 1
  /\ ssl \in {"closed", "open", "tunnel"} /\ hip \in {"ok", "owed", "due"}
  /\ retries \in 0 .. MaxRetries /\ rekeys \in 0 .. MaxRekeys + MaxChecks /\ losses \in 0 .. MaxLosses

\* The parts make up the type invariant.
LEMMA TypeParts ==
  /\ TypeOK <=> Phases /\ Flags /\ Queues /\ Messages /\ Links
  /\ TypeOK' <=> Phases' /\ Flags' /\ Queues' /\ Messages' /\ Links'
  BY DEF TypeOK, Phases, Flags, Queues, Messages, Links, States, Control, Written

\* What esp_close() and its like leave.
LEMMA CloseType ==
  ASSUME Messages, Links, NEW state \in States, Close(state)
  PROVE  /\ Messages'
         /\ dtls_state' = state /\ socket' = "closed"
<1>1. tcp_control_queue' \in Seq(Control)
  BY DEF Messages, Close, TellServer, Control
<1>2. deflate_pkt' \in {None} \cup Packet /\ gone' \in Seq(Packet)
  BY DEF Messages, Close, DropStalled
<1> QED
  BY <1>1, <1>2 DEF Messages, Close

\* A probe may need a new socket, and nothing else.
LEMMA ProbeType ==
  ASSUME SendProbe PROVE \/ dtls_state' = "SLEEPING" /\ socket = "closed" /\ socket' = "open"
                         \/ UNCHANGED <<dtls_state, socket>>
  BY DEF SendProbe, oncp_esp_send_probes, gpst_esp_send_probes

\* The packet that goes first, and what is left of the queue.
LEMMA FirstIsPacket ==
  ASSUME Queues, Messages, ToSend
  PROVE  /\ Packet1 \in Packet
         /\ TakePacket => outgoing_queue' \in Seq(Packet) /\ Len(outgoing_queue') <= MaxQlen
<1>1. CASE deflate_pkt # None
  BY <1>1 DEF Queues, Messages, Packet1, TakePacket
<1>2. CASE deflate_pkt = None
  <2>1. outgoing_queue # <<>> /\ outgoing_queue \in Seq(Packet)
    BY <1>2 DEF ToSend, Queues
  <2>2. Head(outgoing_queue) \in Packet /\ Tail(outgoing_queue) \in Seq(Packet)
        /\ Len(Tail(outgoing_queue)) = Len(outgoing_queue) - 1
    BY <2>1
  <2>3. Len(outgoing_queue) \in Nat
    BY <2>1
  <2> QED
    BY <1>2, <2>2, <2>3, TunnelAssumption DEF Queues, Packet1, TakePacket
<1> QED
  BY <1>1, <1>2

\* What each protocol does after ssl_reconnect() to the UDP side.
LEMMA ReconnectedType ==
  ASSUME TypeOK, AfterReconnect
  PROVE  /\ dtls_need_reconnect' \in BOOLEAN
         /\ dtls_state' \in {dtls_state, "SLEEPING"} /\ socket' \in {socket, "open"}
         /\ proto # "gp" \/ dtls_state \in {"DISABLED", "NOSECRET"} => UNCHANGED <<dtls_state, socket>>
         /\ work_done' = TRUE
         /\ UNCHANGED <<timer, tunVars, udp_probes_sent, deflate_pkt, tlsVars, gpVars, gone, proto, rekeys, losses>>
<1>1. /\ work_done' = TRUE
      /\ UNCHANGED <<timer, tunVars, udp_probes_sent, deflate_pkt, tlsVars, gpVars, gone, proto, rekeys, losses>>
  BY DEF AfterReconnect
<1>2. proto \in {"nc", "pulse", "gp", "array"}
  BY TunnelAssumption DEF TypeOK
<1>3. CASE proto \in {"nc", "pulse"}
  BY <1>3 DEF AfterReconnect
<1>4. CASE proto = "gp"
  <2>1. UNCHANGED dtls_need_reconnect /\ (SendProbe \/ UNCHANGED <<socket, dtls_state>>)
    BY <1>4 DEF AfterReconnect
  <2>2. dtls_state' \in {dtls_state, "SLEEPING"} /\ socket' \in {socket, "open"}
    BY <2>1, ProbeType
  <2>3. dtls_state \in {"DISABLED", "NOSECRET"} => UNCHANGED <<dtls_state, socket>>
    BY <1>4 DEF AfterReconnect
  <2>4. dtls_need_reconnect' \in BOOLEAN
    BY <2>1 DEF TypeOK
  <2> QED
    BY <1>1, <1>4, <2>2, <2>3, <2>4
<1>5. CASE proto = "array"
  BY <1>5 DEF AfterReconnect
<1> QED
  BY <1>1, <1>2, <1>3, <1>4, <1>5

\* The steps of the TLS loops and the main loop keep the types.
LEMMA TypeCommon ==
  ASSUME TypeOK, Places, Common PROVE TypeOK'
<1> USE TunnelAssumption
<1>1. CASE UdpSkipped
  BY <1>1 DEF TypeOK, UdpSkipped, AboveDisabled, udpVars, tlsVars, gpVars, tunVars,
       counters, ConnectPhases, GpPhases, Packet, None, Data
<1>2. CASE Resumes
  <2>1. Phases'
    BY <1>2, TypeParts, CloseType DEF Resumes, EspUp, NoSecret, Reconnect, TlsTurn,
       gpVars, tunVars, Pkt, Phases, ConnectPhases, GpPhases, Links, States, Messages
  <2>2. Flags'
    BY <1>2, TypeParts, CloseType DEF Resumes, EspUp, NoSecret, Reconnect, TlsTurn,
       gpVars, tunVars, Pkt, Flags, Links, States, Messages
  <2>3. Queues'
    BY <1>2, TypeParts, CloseType DEF Resumes, EspUp, NoSecret, Reconnect, TlsTurn,
       gpVars, tunVars, Pkt, Queues, Written, Data, Packet, None, Links, States,
       Messages
  <2>4. Messages'
    BY <1>2, TypeParts, CloseType DEF Resumes, EspUp, NoSecret, Reconnect, TlsTurn,
       gpVars, tunVars, Pkt, Messages, Control, Data, Packet, None, Links, States
  <2>5. Links'
    BY <1>2, TypeParts, CloseType DEF Resumes, EspUp, NoSecret, Reconnect, TlsTurn,
       gpVars, tunVars, Pkt, Links, States, Messages
  <2> QED
    BY <2>1, <2>2, <2>3, <2>4, <2>5, TypeParts
<1>3. CASE TlsReadsAll
  BY <1>3 DEF TypeOK, TlsReadsAll, TlsTurn, udpVars, tlsVars, gpVars, tunVars, counters,
       Pkt, NoPkt, ConnectPhases, GpPhases, Packet, None, Data
<1>4. CASE TlsReadFails
  <2>1. Phases'
    BY <1>4, TypeParts, CloseType DEF TlsReadFails, Loses, EspUp, NoSecret, Reconnect,
       TlsTurn, gpVars, tunVars, Pkt, Phases, ConnectPhases, GpPhases, Links, States,
       Messages
  <2>2. Flags'
    BY <1>4, TypeParts, CloseType DEF TlsReadFails, Loses, EspUp, NoSecret, Reconnect,
       TlsTurn, gpVars, tunVars, Pkt, Flags, Links, States, Messages
  <2>3. Queues'
    BY <1>4, TypeParts, CloseType DEF TlsReadFails, Loses, EspUp, NoSecret, Reconnect,
       TlsTurn, gpVars, tunVars, Pkt, Queues, Written, Data, Packet, None, Links,
       States, Messages
  <2>4. Messages'
    BY <1>4, TypeParts, CloseType DEF TlsReadFails, Loses, EspUp, NoSecret, Reconnect,
       TlsTurn, gpVars, tunVars, Pkt, Messages, Control, Data, Packet, None, Links,
       States
  <2>5. Links'
    BY <1>4, TypeParts, CloseType DEF TlsReadFails, Loses, EspUp, NoSecret, Reconnect,
       TlsTurn, gpVars, tunVars, Pkt, Links, States, Messages
  <2> QED
    BY <2>1, <2>2, <2>3, <2>4, <2>5, TypeParts
<1>5. CASE TlsDpd
  BY <1>5 DEF TypeOK, TlsDpd, WriteNext, TimersTurn, udpVars, gpVars, tunVars, counters,
       Pkt, ConnectPhases, GpPhases, Packet, None, Data
<1>6. CASE TlsPeerDead
  <2>1. Phases'
    BY <1>6, TypeParts, CloseType DEF TlsPeerDead, Loses, EspUp, NoSecret, Reconnect,
       TimersTurn, gpVars, tunVars, Pkt, Phases, ConnectPhases, GpPhases, Links, States,
       Messages
  <2>2. Flags'
    BY <1>6, TypeParts, CloseType DEF TlsPeerDead, Loses, EspUp, NoSecret, Reconnect,
       TimersTurn, gpVars, tunVars, Pkt, Flags, Links, States, Messages
  <2>3. Queues'
    BY <1>6, TypeParts, CloseType DEF TlsPeerDead, Loses, EspUp, NoSecret, Reconnect,
       TimersTurn, gpVars, tunVars, Pkt, Queues, Written, Data, Packet, None, Links,
       States, Messages
  <2>4. Messages'
    BY <1>6, TypeParts, CloseType DEF TlsPeerDead, Loses, EspUp, NoSecret, Reconnect,
       TimersTurn, gpVars, tunVars, Pkt, Messages, Control, Data, Packet, None, Links,
       States
  <2>5. Links'
    BY <1>6, TypeParts, CloseType DEF TlsPeerDead, Loses, EspUp, NoSecret, Reconnect,
       TimersTurn, gpVars, tunVars, Pkt, Links, States, Messages
  <2> QED
    BY <2>1, <2>2, <2>3, <2>4, <2>5, TypeParts
<1>7. CASE TimersSet
  <2>1. Phases'
    BY <1>7, TypeParts DEF TimersSet, TimersTurn, udpVars, tlsVars, gpVars, tunVars,
       counters, Phases, ConnectPhases, GpPhases
  <2>2. Flags'
    BY <1>7, TypeParts DEF TimersSet, TimersTurn, udpVars, tlsVars, gpVars, tunVars,
       counters, Flags
  <2>3. Queues'
    BY <1>7, TypeParts DEF TimersSet, TimersTurn, udpVars, tlsVars, gpVars, tunVars,
       counters, Queues, Written, Data, Packet, None
  <2>4. Messages'
    BY <1>7, TypeParts DEF TimersSet, TimersTurn, udpVars, tlsVars, gpVars, tunVars,
       counters, Messages, Control, Data, Packet, None
  <2>5. Links'
    BY <1>7, TypeParts DEF TimersSet, TimersTurn, udpVars, tlsVars, gpVars, tunVars,
       counters, Links, States
  <2> QED
    BY <2>1, <2>2, <2>3, <2>4, <2>5, TypeParts
<1>8. CASE WriteDone
  <2>1. Phases'
    BY <1>8, TypeParts DEF WriteDone, Enable, gpVars, tunVars, counters, Pkt, NoPkt,
       Phases, ConnectPhases, GpPhases
  <2>2. Flags'
    BY <1>8, TypeParts DEF WriteDone, Enable, gpVars, tunVars, counters, Pkt, NoPkt,
       Flags
  <2>3. Queues'
    BY <1>8, TypeParts DEF WriteDone, Enable, gpVars, tunVars, counters, Pkt, NoPkt,
       Queues, Written, Data, Packet, None
  <2>4. Messages'
    <3>1. current_ssl_pkt.kind = "data" => current_ssl_pkt.pkt \in Packet
      BY TypeParts DEF Queues, Written, Data, Pkt
    <3>2. gone' \in Seq(Packet)
      BY <1>8, <3>1, TypeParts DEF WriteDone, Messages
    <3> QED
      BY <1>8, <3>2, TypeParts DEF WriteDone, Messages
  <2>5. Links'
    BY <1>8, TypeParts DEF WriteDone, Enable, gpVars, tunVars, counters, Pkt, NoPkt,
       Links, States
  <2> QED
    BY <2>1, <2>2, <2>3, <2>4, <2>5, TypeParts
<1>9. CASE WriteStalls
  BY <1>9 DEF TypeOK, WriteStalls, udpVars, tlsVars, gpVars, tunVars, counters,
       ConnectPhases, GpPhases, Packet, None, Data
<1>10. CASE WriteFails
  <2>1. Phases'
    BY <1>10, TypeParts, CloseType DEF WriteFails, Loses, EspUp, NoSecret, Reconnect,
       gpVars, tunVars, Pkt, Phases, ConnectPhases, GpPhases, Links, States, Messages
  <2>2. Flags'
    BY <1>10, TypeParts, CloseType DEF WriteFails, Loses, EspUp, NoSecret, Reconnect,
       gpVars, tunVars, Pkt, Flags, Links, States, Messages
  <2>3. Queues'
    BY <1>10, TypeParts, CloseType DEF WriteFails, Loses, EspUp, NoSecret, Reconnect,
       gpVars, tunVars, Pkt, Queues, Written, Data, Packet, None, Links, States,
       Messages
  <2>4. Messages'
    BY <1>10, TypeParts, CloseType DEF WriteFails, Loses, EspUp, NoSecret, Reconnect,
       gpVars, tunVars, Pkt, Messages, Control, Data, Packet, None, Links, States
  <2>5. Links'
    BY <1>10, TypeParts, CloseType DEF WriteFails, Loses, EspUp, NoSecret, Reconnect,
       gpVars, tunVars, Pkt, Links, States, Messages
  <2> QED
    BY <2>1, <2>2, <2>3, <2>4, <2>5, TypeParts
<1>11. CASE WritesControl
  BY <1>11 DEF TypeOK, WritesControl, WriteNext, udpVars, gpVars, tunVars, counters,
       ConnectPhases, GpPhases, Packet, None, Data
<1>12. CASE WritesData
  BY <1>12 DEF TypeOK, WritesData, EspUp, WriteNext, TlsTakes, Establishes, udpVars,
       gpVars, counters, Pkt, ConnectPhases, GpPhases, Packet, None, Data
<1>13. CASE NothingToWrite
  BY <1>13 DEF TypeOK, NothingToWrite, EspUp, TlsTakes, Establishes, udpVars, tlsVars,
       gpVars, tunVars, counters, ConnectPhases, GpPhases, Packet, None, Data
<1>14. CASE Reconnected
  <2>1. Phases'
    BY <1>14, TypeParts, ReconnectedType DEF Reconnected, tlsVars, gpVars, tunVars,
       Phases, ConnectPhases, GpPhases, Links, States, Messages
  <2>2. Flags'
    BY <1>14, TypeParts, ReconnectedType DEF Reconnected, tlsVars, gpVars, tunVars,
       Flags, Links, States, Messages
  <2>3. Queues'
    BY <1>14, TypeParts, ReconnectedType DEF Reconnected, tlsVars, gpVars, tunVars,
       Queues, Written, Data, Packet, None, Links, States, Messages
  <2>4. Messages'
    BY <1>14, TypeParts, ReconnectedType DEF Reconnected, tlsVars, gpVars, tunVars,
       Messages, Control, Data, Packet, None, Links, States
  <2>5. Links'
    BY <1>14, TypeParts, ReconnectedType DEF Reconnected, tlsVars, gpVars, tunVars,
       Links, States, Messages
  <2> QED
    BY <2>1, <2>2, <2>3, <2>4, <2>5, TypeParts
<1>15. CASE RetryConnect
  BY <1>15 DEF TypeOK, RetryConnect, Sleeps, udpVars, tlsVars, gpVars, tunVars,
       ConnectPhases, GpPhases, Packet, None, Data
<1>16. CASE RetryPaused
  <2>1. Phases'
    BY <1>16, TypeParts, ReconnectedType DEF RetryPaused, Sleeps, tlsVars, gpVars,
       tunVars, Phases, ConnectPhases, GpPhases, Links, States, Messages
  <2>2. Flags'
    BY <1>16, TypeParts, ReconnectedType DEF RetryPaused, Sleeps, tlsVars, gpVars,
       tunVars, Flags, Links, States, Messages
  <2>3. Queues'
    BY <1>16, TypeParts, ReconnectedType DEF RetryPaused, Sleeps, tlsVars, gpVars,
       tunVars, Queues, Written, Data, Packet, None, Links, States, Messages
  <2>4. Messages'
    BY <1>16, TypeParts, ReconnectedType DEF RetryPaused, Sleeps, tlsVars, gpVars,
       tunVars, Messages, Control, Data, Packet, None, Links, States
  <2>5. Links'
    BY <1>16, TypeParts, ReconnectedType DEF RetryPaused, Sleeps, tlsVars, gpVars,
       tunVars, Links, States, Messages
  <2> QED
    BY <2>1, <2>2, <2>3, <2>4, <2>5, TypeParts
<1>17. CASE GiveUp
  BY <1>17 DEF TypeOK, GiveUp, udpVars, tlsVars, gpVars, tunVars, counters,
       ConnectPhases, GpPhases, Packet, None, Data
<1>18. CASE TunReads
  BY <1>18 DEF TypeOK, TunReads, Room, udpVars, tlsVars, gpVars, counters,
       ConnectPhases, GpPhases, Packet, None, Data
<1>19. CASE RoundEnds
  <2>1. Phases'
    BY <1>19, TypeParts DEF RoundEnds, NewRound, udpVars, tlsVars, gpVars, tunVars,
       counters, Phases, ConnectPhases, GpPhases
  <2>2. Flags'
    BY <1>19, TypeParts DEF RoundEnds, NewRound, udpVars, tlsVars, gpVars, tunVars,
       counters, Flags
  <2>3. Queues'
    BY <1>19, TypeParts DEF RoundEnds, NewRound, udpVars, tlsVars, gpVars, tunVars,
       counters, Queues, Written, Data, Packet, None
  <2>4. Messages'
    BY <1>19, TypeParts DEF RoundEnds, NewRound, udpVars, tlsVars, gpVars, tunVars,
       counters, Messages, Control, Data, Packet, None
  <2>5. Links'
    BY <1>19, TypeParts DEF RoundEnds, NewRound, udpVars, tlsVars, gpVars, tunVars,
       counters, Links, States
  <2> QED
    BY <2>1, <2>2, <2>3, <2>4, <2>5, TypeParts
<1>20. CASE Pause
  <2>1. Phases'
    BY <1>20, TypeParts, CloseType DEF Pause, Loses, AboveDisabled, EspUp, NewRound,
       CloseForPause, gpVars, tunVars, Pkt, Phases, ConnectPhases, GpPhases, Links,
       States, Messages
  <2>2. Flags'
    BY <1>20, TypeParts, CloseType DEF Pause, Loses, AboveDisabled, EspUp, NewRound,
       CloseForPause, gpVars, tunVars, Pkt, Flags, Links, States, Messages
  <2>3. Queues'
    BY <1>20, TypeParts, CloseType DEF Pause, Loses, AboveDisabled, EspUp, NewRound,
       CloseForPause, gpVars, tunVars, Pkt, Queues, Written, Data, Packet, None, Links,
       States, Messages
  <2>4. Messages'
    BY <1>20, TypeParts, CloseType DEF Pause, Loses, AboveDisabled, EspUp, NewRound,
       CloseForPause, gpVars, tunVars, Pkt, Messages, Control, Data, Packet, None,
       Links, States
  <2>5. Links'
    BY <1>20, TypeParts, CloseType DEF Pause, Loses, AboveDisabled, EspUp, NewRound,
       CloseForPause, gpVars, tunVars, Pkt, Links, States, Messages
  <2> QED
    BY <2>1, <2>2, <2>3, <2>4, <2>5, TypeParts
<1>21. CASE PauseAfterReconnect
  <2>1. Phases'
    BY <1>21, TypeParts, CloseType DEF PauseAfterReconnect, AboveDisabled, EspUp,
       NewRound, CloseForPause, gpVars, tunVars, Pkt, Phases, ConnectPhases, GpPhases,
       Links, States, Messages
  <2>2. Flags'
    BY <1>21, TypeParts, CloseType DEF PauseAfterReconnect, AboveDisabled, EspUp,
       NewRound, CloseForPause, gpVars, tunVars, Pkt, Flags, Links, States, Messages
  <2>3. Queues'
    BY <1>21, TypeParts, CloseType DEF PauseAfterReconnect, AboveDisabled, EspUp,
       NewRound, CloseForPause, gpVars, tunVars, Pkt, Queues, Written, Data, Packet,
       None, Links, States, Messages
  <2>4. Messages'
    BY <1>21, TypeParts, CloseType DEF PauseAfterReconnect, AboveDisabled, EspUp,
       NewRound, CloseForPause, gpVars, tunVars, Pkt, Messages, Control, Data, Packet,
       None, Links, States
  <2>5. Links'
    BY <1>21, TypeParts, CloseType DEF PauseAfterReconnect, AboveDisabled, EspUp,
       NewRound, CloseForPause, gpVars, tunVars, Pkt, Links, States, Messages
  <2> QED
    BY <2>1, <2>2, <2>3, <2>4, <2>5, TypeParts
<1>22. CASE Wakes
  <2>1. Phases'
    BY <1>22, TypeParts DEF Wakes, Room, NewRound, udpVars, tlsVars, gpVars, tunVars,
       counters, Pkt, NoPkt, Phases, ConnectPhases, GpPhases
  <2>2. Flags'
    BY <1>22, TypeParts DEF Wakes, Room, NewRound, udpVars, tlsVars, gpVars, tunVars,
       counters, Pkt, NoPkt, Flags
  <2>3. Queues'
    BY <1>22, TypeParts DEF Wakes, Room, NewRound, udpVars, tlsVars, gpVars, tunVars,
       counters, Pkt, NoPkt, Queues, Written, Data, Packet, None
  <2>4. Messages'
    BY <1>22, TypeParts DEF Wakes, Room, NewRound, udpVars, tlsVars, gpVars, tunVars,
       counters, Pkt, NoPkt, Messages, Control, Data, Packet, None
  <2>5. Links'
    BY <1>22, TypeParts DEF Wakes, Room, NewRound, udpVars, tlsVars, gpVars, tunVars,
       counters, Pkt, NoPkt, Links, States
  <2> QED
    BY <2>1, <2>2, <2>3, <2>4, <2>5, TypeParts
<1>23. CASE PacketArrives
  <2>1. Phases'
    BY <1>23, TypeParts DEF PacketArrives, NewRound, udpVars, tlsVars, gpVars, tunVars,
       counters, Phases, ConnectPhases, GpPhases
  <2>2. Flags'
    BY <1>23, TypeParts DEF PacketArrives, NewRound, udpVars, tlsVars, gpVars, tunVars,
       counters, Flags
  <2>3. Queues'
    BY <1>23, TypeParts DEF PacketArrives, NewRound, udpVars, tlsVars, gpVars, tunVars,
       counters, Queues, Written, Data, Packet, None
  <2>4. Messages'
    BY <1>23, TypeParts DEF PacketArrives, NewRound, udpVars, tlsVars, gpVars, tunVars,
       counters, Messages, Control, Data, Packet, None
  <2>5. Links'
    BY <1>23, TypeParts DEF PacketArrives, NewRound, udpVars, tlsVars, gpVars, tunVars,
       counters, Links, States
  <2> QED
    BY <2>1, <2>2, <2>3, <2>4, <2>5, TypeParts
<1> QED
  BY <1>1, <1>2, <1>3, <1>4, <1>5, <1>6, <1>7, <1>8, <1>9, <1>10, <1>11, <1>12, <1>13,
       <1>14, <1>15, <1>16, <1>17, <1>18, <1>19, <1>20, <1>21, <1>22, <1>23 DEF Common

\* The steps of esp_mainloop() keep the types.
LEMMA TypeEsp ==
  ASSUME TypeOK, Places, esp_mainloop PROVE TypeOK'
<1> USE TunnelAssumption
<1>1. CASE ProbeAnswered
  BY <1>1 DEF TypeOK, ProbeAnswered, AboveDisabled, EspTurn, tlsVars, gpVars, tunVars,
       counters, ConnectPhases, GpPhases, Packet, None, Data
<1>2. CASE UdpFails
  <2>1. Phases'
    BY <1>2, TypeParts, CloseType DEF UdpFails, Loses, AboveDisabled, EspUp, EspTurn,
       gpVars, tunVars, Pkt, Phases, ConnectPhases, GpPhases, Links, States, Messages
  <2>2. Flags'
    BY <1>2, TypeParts, CloseType DEF UdpFails, Loses, AboveDisabled, EspUp, EspTurn,
       gpVars, tunVars, Pkt, Flags, Links, States, Messages
  <2>3. Queues'
    BY <1>2, TypeParts, CloseType DEF UdpFails, Loses, AboveDisabled, EspUp, EspTurn,
       gpVars, tunVars, Pkt, Queues, Written, Data, Packet, None, Links, States,
       Messages
  <2>4. Messages'
    BY <1>2, TypeParts, CloseType DEF UdpFails, Loses, AboveDisabled, EspUp, EspTurn,
       gpVars, tunVars, Pkt, Messages, Control, Data, Packet, None, Links, States
  <2>5. Links'
    BY <1>2, TypeParts, CloseType DEF UdpFails, Loses, AboveDisabled, EspUp, EspTurn,
       gpVars, tunVars, Pkt, Links, States, Messages
  <2> QED
    BY <2>1, <2>2, <2>3, <2>4, <2>5, TypeParts
<1>3. CASE UdpDone
  <2>1. Phases'
    BY <1>3, TypeParts, CloseType DEF UdpDone, AboveDisabled, EspUp, EspTurn, gpVars,
       tunVars, counters, Pkt, Phases, ConnectPhases, GpPhases, Places, Links, States,
       Messages
  <2>2. Flags'
    BY <1>3, TypeParts, CloseType DEF UdpDone, AboveDisabled, EspUp, EspTurn, gpVars,
       tunVars, counters, Pkt, Flags, Links, States, Messages
  <2>3. Queues'
    BY <1>3, TypeParts, CloseType DEF UdpDone, AboveDisabled, EspUp, EspTurn, gpVars,
       tunVars, counters, Pkt, Queues, Written, Data, Packet, None, Links, States,
       Messages
  <2>4. Messages'
    BY <1>3, TypeParts, CloseType DEF UdpDone, AboveDisabled, EspUp, EspTurn, gpVars,
       tunVars, counters, Pkt, Messages, Control, Data, Packet, None, Links, States
  <2>5. Links'
    BY <1>3, TypeParts, CloseType DEF UdpDone, AboveDisabled, EspUp, EspTurn, gpVars,
       tunVars, counters, Pkt, Links, States, Messages
  <2> QED
    BY <2>1, <2>2, <2>3, <2>4, <2>5, TypeParts
<1>4. CASE RepeatProbe
  <2>1. Phases'
    BY <1>4, TypeParts, ProbeType DEF RepeatProbe, tlsVars, gpVars, tunVars, counters,
       Phases, ConnectPhases, GpPhases, Links, States, Messages
  <2>2. Flags'
    BY <1>4, TypeParts, ProbeType DEF RepeatProbe, tlsVars, gpVars, tunVars, counters,
       Flags, Links, States, Messages
  <2>3. Queues'
    BY <1>4, TypeParts, ProbeType DEF RepeatProbe, tlsVars, gpVars, tunVars, counters,
       Queues, Written, Data, Packet, None, Links, States, Messages
  <2>4. Messages'
    BY <1>4, TypeParts, ProbeType DEF RepeatProbe, tlsVars, gpVars, tunVars, counters,
       Messages, Control, Data, Packet, None, Links, States
  <2>5. Links'
    BY <1>4, TypeParts, ProbeType DEF RepeatProbe, tlsVars, gpVars, tunVars, counters,
       Links, States, Messages
  <2> QED
    BY <2>1, <2>2, <2>3, <2>4, <2>5, TypeParts
<1>5. CASE NewAttempt
  <2>1. Phases'
    BY <1>5, TypeParts, ProbeType DEF NewAttempt, tlsVars, gpVars, tunVars, counters,
       Phases, ConnectPhases, GpPhases, Links, States, Messages
  <2>2. Flags'
    BY <1>5, TypeParts, ProbeType DEF NewAttempt, tlsVars, gpVars, tunVars, counters,
       Flags, Links, States, Messages
  <2>3. Queues'
    BY <1>5, TypeParts, ProbeType DEF NewAttempt, tlsVars, gpVars, tunVars, counters,
       Queues, Written, Data, Packet, None, Links, States, Messages
  <2>4. Messages'
    BY <1>5, TypeParts, ProbeType DEF NewAttempt, tlsVars, gpVars, tunVars, counters,
       Messages, Control, Data, Packet, None, Links, States
  <2>5. Links'
    BY <1>5, TypeParts, ProbeType DEF NewAttempt, tlsVars, gpVars, tunVars, counters,
       Links, States, Messages
  <2> QED
    BY <2>1, <2>2, <2>3, <2>4, <2>5, TypeParts
<1>6. CASE NothingToProbe
  BY <1>6 DEF TypeOK, NothingToProbe, udpVars, tlsVars, gpVars, tunVars, counters,
       ConnectPhases, GpPhases, Packet, None, Data
<1>7. CASE DpdProbe
  BY <1>7 DEF TypeOK, DpdProbe, oncp_esp_send_probes, gpst_esp_send_probes, SendProbe,
       tlsVars, gpVars, tunVars, counters, ConnectPhases, GpPhases, Packet, None, Data
<1>8. CASE EspPeerDead
  <2>1. Phases'
    BY <1>8, TypeParts, CloseType DEF EspPeerDead, Loses, EspUp, gpVars, tunVars, Pkt,
       Phases, ConnectPhases, GpPhases, Links, States, Messages
  <2>2. Flags'
    BY <1>8, TypeParts, CloseType DEF EspPeerDead, Loses, EspUp, gpVars, tunVars, Pkt,
       Flags, Links, States, Messages
  <2>3. Queues'
    BY <1>8, TypeParts, CloseType DEF EspPeerDead, Loses, EspUp, gpVars, tunVars, Pkt,
       Queues, Written, Data, Packet, None, Links, States, Messages
  <2>4. Messages'
    BY <1>8, TypeParts, CloseType DEF EspPeerDead, Loses, EspUp, gpVars, tunVars, Pkt,
       Messages, Control, Data, Packet, None, Links, States
  <2>5. Links'
    BY <1>8, TypeParts, CloseType DEF EspPeerDead, Loses, EspUp, gpVars, tunVars, Pkt,
       Links, States, Messages
  <2> QED
    BY <2>1, <2>2, <2>3, <2>4, <2>5, TypeParts
<1>9. CASE EspAlive
  BY <1>9 DEF TypeOK, EspAlive, udpVars, tlsVars, gpVars, tunVars, counters,
       ConnectPhases, GpPhases, Packet, None, Data
<1>10. CASE EspReroutes
  <2>1. Phases'
    BY <1>10, TypeParts, FirstIsPacket DEF EspReroutes, ToSend, Packet1, TakePacket,
       udpVars, gpVars, counters, Pkt, Phases, ConnectPhases, GpPhases, Links, States,
       Messages
  <2>2. Flags'
    BY <1>10, TypeParts, FirstIsPacket DEF EspReroutes, ToSend, Packet1, TakePacket,
       udpVars, gpVars, counters, Pkt, Flags, Links, States, Messages
  <2>3. Queues'
    BY <1>10, TypeParts, FirstIsPacket DEF EspReroutes, ToSend, Packet1, TakePacket,
       udpVars, gpVars, counters, Pkt, Queues, Written, Data, Packet, None, Links,
       States, Messages
  <2>4. Messages'
    BY SMTT(30), <1>10, TypeParts, FirstIsPacket DEF EspReroutes, ToSend, Packet1, TakePacket,
       udpVars, gpVars, counters, Pkt, Messages, Control, Data, Packet, None, Links,
       States
  <2>5. Links'
    BY <1>10, TypeParts, FirstIsPacket DEF EspReroutes, ToSend, Packet1, TakePacket,
       udpVars, gpVars, counters, Pkt, Links, States, Messages
  <2> QED
    BY <2>1, <2>2, <2>3, <2>4, <2>5, TypeParts
<1>11. CASE EspSends
  <2>1. Phases'
    BY <1>11, TypeParts, FirstIsPacket DEF EspSends, ToSend, Packet1, TakePacket,
       tlsVars, gpVars, counters, Phases, ConnectPhases, GpPhases, Links, States,
       Messages
  <2>2. Flags'
    BY <1>11, TypeParts, FirstIsPacket DEF EspSends, ToSend, Packet1, TakePacket,
       tlsVars, gpVars, counters, Flags, Links, States, Messages
  <2>3. Queues'
    BY <1>11, TypeParts, FirstIsPacket DEF EspSends, ToSend, Packet1, TakePacket,
       tlsVars, gpVars, counters, Queues, Written, Data, Packet, None, Links, States,
       Messages
  <2>4. Messages'
    BY <1>11, TypeParts, FirstIsPacket DEF EspSends, ToSend, Packet1, TakePacket,
       tlsVars, gpVars, counters, Messages, Control, Data, Packet, None, Links, States
  <2>5. Links'
    BY <1>11, TypeParts, FirstIsPacket DEF EspSends, ToSend, Packet1, TakePacket,
       tlsVars, gpVars, counters, Links, States, Messages
  <2> QED
    BY <2>1, <2>2, <2>3, <2>4, <2>5, TypeParts
<1>12. CASE EspDrops
  <2>1. Phases'
    BY <1>12, TypeParts, FirstIsPacket DEF EspDrops, ToSend, Packet1, TakePacket,
       tlsVars, gpVars, counters, Phases, ConnectPhases, GpPhases, Links, States,
       Messages
  <2>2. Flags'
    BY <1>12, TypeParts, FirstIsPacket DEF EspDrops, ToSend, Packet1, TakePacket,
       tlsVars, gpVars, counters, Flags, Links, States, Messages
  <2>3. Queues'
    BY <1>12, TypeParts, FirstIsPacket DEF EspDrops, ToSend, Packet1, TakePacket,
       tlsVars, gpVars, counters, Queues, Written, Data, Packet, None, Links, States,
       Messages
  <2>4. Messages'
    BY <1>12, TypeParts, FirstIsPacket DEF EspDrops, ToSend, Packet1, TakePacket,
       tlsVars, gpVars, counters, Messages, Control, Data, Packet, None, Links, States
  <2>5. Links'
    BY <1>12, TypeParts, FirstIsPacket DEF EspDrops, ToSend, Packet1, TakePacket,
       tlsVars, gpVars, counters, Links, States, Messages
  <2> QED
    BY <2>1, <2>2, <2>3, <2>4, <2>5, TypeParts
<1>13. CASE EspStalls
  <2>1. Phases'
    BY <1>13, TypeParts, FirstIsPacket DEF EspStalls, ToSend, Packet1, TakePacket,
       tlsVars, gpVars, counters, Phases, ConnectPhases, GpPhases, Links, States,
       Messages
  <2>2. Flags'
    BY <1>13, TypeParts, FirstIsPacket DEF EspStalls, ToSend, Packet1, TakePacket,
       tlsVars, gpVars, counters, Flags, Links, States, Messages
  <2>3. Queues'
    BY <1>13, TypeParts, FirstIsPacket DEF EspStalls, ToSend, Packet1, TakePacket,
       tlsVars, gpVars, counters, Queues, Written, Data, Packet, None, Links, States,
       Messages
  <2>4. Messages'
    BY <1>13, TypeParts, FirstIsPacket DEF EspStalls, ToSend, Packet1, TakePacket,
       tlsVars, gpVars, counters, Messages, Control, Data, Packet, None, Links, States
  <2>5. Links'
    BY <1>13, TypeParts, FirstIsPacket DEF EspStalls, ToSend, Packet1, TakePacket,
       tlsVars, gpVars, counters, Links, States, Messages
  <2> QED
    BY <2>1, <2>2, <2>3, <2>4, <2>5, TypeParts
<1>14. CASE EspSentAll
  BY <1>14 DEF TypeOK, EspSentAll, ToSend, udpVars, tlsVars, gpVars, tunVars, counters,
       ConnectPhases, GpPhases, Packet, None, Data
<1> QED
  BY <1>1, <1>2, <1>3, <1>4, <1>5, <1>6, <1>7, <1>8, <1>9, <1>10, <1>11, <1>12, <1>13,
       <1>14 DEF esp_mainloop

\* The steps of oncp_mainloop() keep the types.
LEMMA TypeNc ==
  ASSUME TypeOK, Places, oncp_mainloop PROVE TypeOK'
<1> USE TunnelAssumption
<1>1. CASE oncp_connect
  BY <1>1 DEF TypeOK, oncp_connect, WithKeys, gpVars, tunVars, counters, ConnectPhases,
       GpPhases, Packet, None, Data
<1>2. CASE ReceivesKeys
  BY <1>2 DEF TypeOK, ReceivesKeys, WithKeys, gpVars, tunVars, Pkt, ConnectPhases,
       GpPhases, Packet, None, Data
<1>3. CASE RefusesKeys
  <2>1. Phases'
    BY <1>3, TypeParts, CloseType DEF RefusesKeys, AboveDisabled, EspUp, Sleeping,
       gpVars, tunVars, Pkt, Phases, ConnectPhases, GpPhases, Links, States, Messages
  <2>2. Flags'
    BY <1>3, TypeParts, CloseType DEF RefusesKeys, AboveDisabled, EspUp, Sleeping,
       gpVars, tunVars, Pkt, Flags, Links, States, Messages
  <2>3. Queues'
    BY <1>3, TypeParts, CloseType DEF RefusesKeys, AboveDisabled, EspUp, Sleeping,
       gpVars, tunVars, Pkt, Queues, Written, Data, Packet, None, Links, States,
       Messages
  <2>4. Messages'
    BY <1>3, TypeParts, CloseType DEF RefusesKeys, AboveDisabled, EspUp, Sleeping,
       gpVars, tunVars, Pkt, Messages, Control, Data, Packet, None, Links, States
  <2>5. Links'
    BY <1>3, TypeParts, CloseType DEF RefusesKeys, AboveDisabled, EspUp, Sleeping,
       gpVars, tunVars, Pkt, Links, States, Messages
  <2> QED
    BY <2>1, <2>2, <2>3, <2>4, <2>5, TypeParts
<1>4. CASE WritesEnable
  BY <1>4 DEF TypeOK, WritesEnable, WriteNext, udpVars, gpVars, tunVars, counters, Pkt,
       ConnectPhases, GpPhases, Packet, None, Data
<1> QED
  BY <1>1, <1>2, <1>3, <1>4 DEF oncp_mainloop

\* The steps of pulse_mainloop() keep the types.
LEMMA TypePulse ==
  ASSUME TypeOK, Places, pulse_mainloop PROVE TypeOK'
<1> USE TunnelAssumption
<1>1. CASE pulse_connect
  BY <1>1 DEF TypeOK, pulse_connect, udpVars, gpVars, tunVars, counters, ConnectPhases,
       GpPhases, Packet, None, Data
<1>2. CASE EspConfig
  BY <1>2 DEF TypeOK, EspConfig, tlsVars, gpVars, tunVars, counters, ConnectPhases,
       GpPhases, Packet, None, Data
<1>3. CASE EspConfigRefused
  BY <1>3 DEF TypeOK, EspConfigRefused, tlsVars, gpVars, tunVars, counters,
       ConnectPhases, GpPhases, Packet, None, Data
<1>4. CASE MainConfigRefused
  BY <1>4 DEF TypeOK, MainConfigRefused, udpVars, tlsVars, gpVars, tunVars, counters,
       ConnectPhases, GpPhases, Packet, None, Data
<1>5. CASE PulseConfigFails
  BY <1>5 DEF TypeOK, PulseConfigFails, udpVars, tlsVars, gpVars, tunVars, counters,
       ConnectPhases, GpPhases, Packet, None, Data
<1>6. CASE PulseConfigured
  BY <1>6 DEF TypeOK, PulseConfigured, udpVars, gpVars, tunVars, counters,
       ConnectPhases, GpPhases, Packet, None, Data
<1>7. CASE PulseRekeys
  BY <1>7 DEF TypeOK, PulseRekeys, WithKeys, gpVars, tunVars, Pkt, ConnectPhases,
       GpPhases, Packet, None, Data
<1>8. CASE PulseRekeyFails
  <2>1. Phases'
    BY <1>8, TypeParts, CloseType DEF PulseRekeyFails, AboveDisabled, EspUp, Sleeping,
       gpVars, tunVars, Pkt, Phases, ConnectPhases, GpPhases, Links, States, Messages
  <2>2. Flags'
    BY <1>8, TypeParts, CloseType DEF PulseRekeyFails, AboveDisabled, EspUp, Sleeping,
       gpVars, tunVars, Pkt, Flags, Links, States, Messages
  <2>3. Queues'
    BY <1>8, TypeParts, CloseType DEF PulseRekeyFails, AboveDisabled, EspUp, Sleeping,
       gpVars, tunVars, Pkt, Queues, Written, Data, Packet, None, Links, States,
       Messages
  <2>4. Messages'
    BY <1>8, TypeParts, CloseType DEF PulseRekeyFails, AboveDisabled, EspUp, Sleeping,
       gpVars, tunVars, Pkt, Messages, Control, Data, Packet, None, Links, States
  <2>5. Links'
    BY <1>8, TypeParts, CloseType DEF PulseRekeyFails, AboveDisabled, EspUp, Sleeping,
       gpVars, tunVars, Pkt, Links, States, Messages
  <2> QED
    BY <2>1, <2>2, <2>3, <2>4, <2>5, TypeParts
<1>9. CASE PulseLicence
  BY <1>9 DEF TypeOK, PulseLicence, oncp_esp_send_probes, gpst_esp_send_probes,
       SendProbe, tlsVars, gpVars, tunVars, counters, ConnectPhases, GpPhases, Packet,
       None, Data
<1>10. CASE PulseFatalError
  BY <1>10 DEF TypeOK, PulseFatalError, udpVars, tlsVars, gpVars, tunVars, counters,
       ConnectPhases, GpPhases, Packet, None, Data
<1>11. CASE PulseEstablishes
  BY <1>11 DEF TypeOK, PulseEstablishes, tlsVars, gpVars, tunVars, counters,
       ConnectPhases, GpPhases, Packet, None, Data
<1> QED
  BY <1>1, <1>2, <1>3, <1>4, <1>5, <1>6, <1>7, <1>8, <1>9, <1>10, <1>11 DEF pulse_mainloop

\* The steps of gpst_mainloop() keep the types.
LEMMA TypeGp ==
  ASSUME TypeOK, Places, gpst_mainloop PROVE TypeOK'
<1> USE TunnelAssumption
<1>1. CASE gpst_setup
  <2>1. Phases'
    BY <1>1, TypeParts, CloseType DEF gpst_setup, EspUp, NoSecret, gpVars, tunVars,
       counters, Pkt, Phases, ConnectPhases, GpPhases, Links, States, Messages
  <2>2. Flags'
    BY <1>1, TypeParts, CloseType DEF gpst_setup, EspUp, NoSecret, gpVars, tunVars,
       counters, Pkt, Flags, Links, States, Messages
  <2>3. Queues'
    BY <1>1, TypeParts, CloseType DEF gpst_setup, EspUp, NoSecret, gpVars, tunVars,
       counters, Pkt, Queues, Written, Data, Packet, None, Links, States, Messages
  <2>4. Messages'
    BY <1>1, TypeParts, CloseType DEF gpst_setup, EspUp, NoSecret, gpVars, tunVars,
       counters, Pkt, Messages, Control, Data, Packet, None, Links, States
  <2>5. Links'
    BY <1>1, TypeParts, CloseType DEF gpst_setup, EspUp, NoSecret, gpVars, tunVars,
       counters, Pkt, Links, States, Messages
  <2> QED
    BY <2>1, <2>2, <2>3, <2>4, <2>5, TypeParts
<1>2. CASE gpst_get_config
  <2>1. Phases'
    BY <1>2, TypeParts DEF gpst_get_config, WithKeys, parse_config_xml, tunVars,
       counters, Phases, ConnectPhases, GpPhases
  <2>2. Flags'
    BY <1>2, TypeParts DEF gpst_get_config, WithKeys, parse_config_xml, tunVars,
       counters, Flags
  <2>3. Queues'
    BY <1>2, TypeParts DEF gpst_get_config, WithKeys, parse_config_xml, tunVars,
       counters, Queues, Written, Data, Packet, None
  <2>4. Messages'
    BY <1>2, TypeParts DEF gpst_get_config, WithKeys, parse_config_xml, tunVars,
       counters, Messages, Control, Data, Packet, None
  <2>5. Links'
    BY <1>2, TypeParts DEF gpst_get_config, WithKeys, parse_config_xml, tunVars,
       counters, Links, States
  <2> QED
    BY <2>1, <2>2, <2>3, <2>4, <2>5, TypeParts
<1>3. CASE check_and_maybe_submit_hip_report
  <2>1. Phases'
    BY <1>3, TypeParts DEF check_and_maybe_submit_hip_report, Otherwise,
       check_or_submit_hip_report, run_hip_script, GpPhases, udpVars, tunVars, counters,
       Phases, ConnectPhases
  <2>2. Flags'
    BY <1>3, TypeParts DEF check_and_maybe_submit_hip_report, Otherwise,
       check_or_submit_hip_report, run_hip_script, GpPhases, udpVars, tunVars, counters,
       Flags
  <2>3. Queues'
    BY <1>3, TypeParts DEF check_and_maybe_submit_hip_report, Otherwise,
       check_or_submit_hip_report, run_hip_script, GpPhases, udpVars, tunVars, counters,
       Queues, Written, Data, Packet, None
  <2>4. Messages'
    BY <1>3, TypeParts DEF check_and_maybe_submit_hip_report, Otherwise,
       check_or_submit_hip_report, run_hip_script, GpPhases, udpVars, tunVars, counters,
       Messages, Control, Data, Packet, None
  <2>5. Links'
    BY <1>3, TypeParts DEF check_and_maybe_submit_hip_report, Otherwise,
       check_or_submit_hip_report, run_hip_script, GpPhases, udpVars, tunVars, counters,
       Links, States
  <2> QED
    BY <2>1, <2>2, <2>3, <2>4, <2>5, TypeParts
<1>4. CASE gpst_connect_NotNeeded
  BY <1>4 DEF TypeOK, gpst_connect_NotNeeded, AfterConnect, udpVars, tlsVars, gpVars,
       tunVars, counters, ConnectPhases, GpPhases, Packet, None, Data
<1>5. CASE gpst_connect
  <2>1. Phases'
    BY <1>5, TypeParts, CloseType DEF gpst_connect, EspUp, AfterConnect, tunVars,
       counters, Pkt, Phases, ConnectPhases, GpPhases, Links, States, Messages
  <2>2. Flags'
    BY <1>5, TypeParts, CloseType DEF gpst_connect, EspUp, AfterConnect, tunVars,
       counters, Pkt, Flags, Links, States, Messages
  <2>3. Queues'
    BY <1>5, TypeParts, CloseType DEF gpst_connect, EspUp, AfterConnect, tunVars,
       counters, Pkt, Queues, Written, Data, Packet, None, Links, States, Messages
  <2>4. Messages'
    BY <1>5, TypeParts, CloseType DEF gpst_connect, EspUp, AfterConnect, tunVars,
       counters, Pkt, Messages, Control, Data, Packet, None, Links, States
  <2>5. Links'
    BY <1>5, TypeParts, CloseType DEF gpst_connect, EspUp, AfterConnect, tunVars,
       counters, Pkt, Links, States, Messages
  <2> QED
    BY <2>1, <2>2, <2>3, <2>4, <2>5, TypeParts
<1>6. CASE gpst_connect_Fails
  <2>1. Phases'
    BY <1>6, TypeParts DEF gpst_connect_Fails, Otherwise, GpPhases, udpVars, tunVars,
       counters, Phases, ConnectPhases
  <2>2. Flags'
    BY <1>6, TypeParts DEF gpst_connect_Fails, Otherwise, GpPhases, udpVars, tunVars,
       counters, Flags
  <2>3. Queues'
    BY <1>6, TypeParts DEF gpst_connect_Fails, Otherwise, GpPhases, udpVars, tunVars,
       counters, Queues, Written, Data, Packet, None
  <2>4. Messages'
    BY <1>6, TypeParts DEF gpst_connect_Fails, Otherwise, GpPhases, udpVars, tunVars,
       counters, Messages, Control, Data, Packet, None
  <2>5. Links'
    BY <1>6, TypeParts DEF gpst_connect_Fails, Otherwise, GpPhases, udpVars, tunVars,
       counters, Links, States
  <2> QED
    BY <2>1, <2>2, <2>3, <2>4, <2>5, TypeParts
<1>7. CASE HipFallsDue
  BY <1>7 DEF TypeOK, HipFallsDue, udpVars, tlsVars, tunVars, ConnectPhases, GpPhases,
       Packet, None, Data
<1>8. CASE GpEstablishes
  BY <1>8 DEF TypeOK, GpEstablishes, GpTurn, gpVars, tunVars, counters, ConnectPhases,
       GpPhases, Packet, None, Data
<1>9. CASE GpRekey
  <2>1. Phases'
    BY <1>9, TypeParts, CloseType DEF GpRekey, Loses, EspUp, NoSecret, Reconnect,
       GpTurn, gpVars, tunVars, Pkt, Phases, ConnectPhases, GpPhases, Links, States,
       Messages
  <2>2. Flags'
    BY <1>9, TypeParts, CloseType DEF GpRekey, Loses, EspUp, NoSecret, Reconnect,
       GpTurn, gpVars, tunVars, Pkt, Flags, Links, States, Messages
  <2>3. Queues'
    BY <1>9, TypeParts, CloseType DEF GpRekey, Loses, EspUp, NoSecret, Reconnect,
       GpTurn, gpVars, tunVars, Pkt, Queues, Written, Data, Packet, None, Links, States,
       Messages
  <2>4. Messages'
    BY <1>9, TypeParts, CloseType DEF GpRekey, Loses, EspUp, NoSecret, Reconnect,
       GpTurn, gpVars, tunVars, Pkt, Messages, Control, Data, Packet, None, Links,
       States
  <2>5. Links'
    BY <1>9, TypeParts, CloseType DEF GpRekey, Loses, EspUp, NoSecret, Reconnect,
       GpTurn, gpVars, tunVars, Pkt, Links, States, Messages
  <2> QED
    BY <2>1, <2>2, <2>3, <2>4, <2>5, TypeParts
<1>10. CASE HipRecheck
  BY <1>10 DEF TypeOK, HipRecheck, GpTurn, udpVars, gpVars, tunVars, counters,
       ConnectPhases, GpPhases, Packet, None, Data
<1>11. CASE GpWaits
  BY <1>11 DEF TypeOK, GpWaits, GpTurn, udpVars, tlsVars, gpVars, tunVars, counters,
       ConnectPhases, GpPhases, Packet, None, Data
<1>12. CASE GpFallsBack
  BY <1>12 DEF TypeOK, GpFallsBack, GpTurn, tlsVars, gpVars, tunVars, counters,
       ConnectPhases, GpPhases, Packet, None, Data
<1>13. CASE GpUnknownPacket
  BY <1>13 DEF TypeOK, GpUnknownPacket, TlsTurn, udpVars, tlsVars, gpVars, tunVars,
       counters, ConnectPhases, GpPhases, Packet, None, Data
<1> QED
  BY <1>1, <1>2, <1>3, <1>4, <1>5, <1>6, <1>7, <1>8, <1>9, <1>10, <1>11, <1>12, <1>13 DEF gpst_mainloop

\* The steps of array_mainloop() keep the types.
LEMMA TypeArray ==
  ASSUME TypeOK, Places, array_mainloop PROVE TypeOK'
<1> USE TunnelAssumption
<1>1. CASE array_connect
  BY <1>1 DEF TypeOK, array_connect, udpVars, gpVars, tunVars, counters, ConnectPhases,
       GpPhases, Packet, None, Data
<1>2. CASE ArrayConfig
  BY <1>2 DEF TypeOK, ArrayConfig, parse_speed_tunnel, parse_interface_info,
       do_json_request, gpVars, tunVars, counters, ConnectPhases, GpPhases, Packet,
       None, Data
<1>3. CASE ArrayNegotiates
  <2>1. Phases'
    BY <1>3, TypeParts DEF ArrayNegotiates, WithKeys, gpVars, tunVars, counters, Phases,
       ConnectPhases, GpPhases
  <2>2. Flags'
    BY <1>3, TypeParts DEF ArrayNegotiates, WithKeys, gpVars, tunVars, counters, Flags
  <2>3. Queues'
    BY <1>3, TypeParts DEF ArrayNegotiates, WithKeys, gpVars, tunVars, counters, Queues,
       Written, Data, Packet, None
  <2>4. Messages'
    BY <1>3, TypeParts DEF ArrayNegotiates, WithKeys, gpVars, tunVars, counters,
       Messages, Control, Data, Packet, None
  <2>5. Links'
    BY <1>3, TypeParts DEF ArrayNegotiates, WithKeys, gpVars, tunVars, counters, Links,
       States
  <2> QED
    BY <2>1, <2>2, <2>3, <2>4, <2>5, TypeParts
<1>4. CASE ArrayReconnectsDtls
  BY ZenonT(60), <1>4 DEF TypeOK, ArrayReconnectsDtls, AboveDisabled, dtls_reconnect, tlsVars,
       gpVars, tunVars, counters, ConnectPhases, GpPhases, Packet, None, Data
<1>5. CASE ArrayHandshakes
  BY ZenonT(60), <1>5 DEF TypeOK, ArrayHandshakes, DtlsTurn, tlsVars, gpVars, tunVars, counters,
       ConnectPhases, GpPhases, Packet, None, Data
<1>6. CASE ArrayConnects
  BY ZenonT(60), <1>6 DEF TypeOK, ArrayConnects, DtlsTurn, ArrayRequests, tlsVars, gpVars, tunVars,
       counters, ConnectPhases, GpPhases, Packet, None, Data
<1>7. CASE ArrayEstablishes
  BY <1>7 DEF TypeOK, ArrayEstablishes, DtlsTurn, Accepted, gpVars, tunVars, counters,
       ConnectPhases, GpPhases, Packet, None, Data
<1>8. CASE ArrayReadFails
  BY <1>8 DEF TypeOK, ArrayReadFails, Loses, DtlsTurn, tlsVars, gpVars, tunVars,
       ConnectPhases, GpPhases, Packet, None, Data
<1>9. CASE ArrayRequestsAgain
  BY ZenonT(60), <1>9 DEF TypeOK, ArrayRequestsAgain, DtlsTurn, ArrayRequests, tlsVars, gpVars,
       tunVars, counters, ConnectPhases, GpPhases, Packet, None, Data
<1>10. CASE ArrayAttempts
  BY ZenonT(60), <1>10 DEF TypeOK, ArrayAttempts, DtlsTurn, dtls_reconnect, tlsVars, gpVars,
       tunVars, counters, ConnectPhases, GpPhases, Packet, None, Data
<1>11. CASE ArraySleeps
  BY ZenonT(60), <1>11 DEF TypeOK, ArraySleeps, DtlsTurn, udpVars, tlsVars, gpVars, tunVars,
       counters, ConnectPhases, GpPhases, Packet, None, Data
<1>12. CASE ArrayReads
  BY <1>12 DEF TypeOK, ArrayReads, DtlsTurn, udpVars, tlsVars, gpVars, tunVars,
       counters, ConnectPhases, GpPhases, Packet, None, Data
<1>13. CASE ArrayPeerDead
  BY <1>13 DEF TypeOK, ArrayPeerDead, Loses, dtls_reconnect, tlsVars, gpVars, tunVars,
       ConnectPhases, GpPhases, Packet, None, Data
<1>14. CASE ArrayAlive
  <2>1. Phases'
    BY <1>14, TypeParts DEF ArrayAlive, udpVars, tlsVars, gpVars, tunVars, counters,
       Phases, ConnectPhases, GpPhases
  <2>2. Flags'
    BY <1>14, TypeParts DEF ArrayAlive, udpVars, tlsVars, gpVars, tunVars, counters,
       Flags
  <2>3. Queues'
    BY <1>14, TypeParts DEF ArrayAlive, udpVars, tlsVars, gpVars, tunVars, counters,
       Queues, Written, Data, Packet, None
  <2>4. Messages'
    BY <1>14, TypeParts DEF ArrayAlive, udpVars, tlsVars, gpVars, tunVars, counters,
       Messages, Control, Data, Packet, None
  <2>5. Links'
    BY <1>14, TypeParts DEF ArrayAlive, udpVars, tlsVars, gpVars, tunVars, counters,
       Links, States
  <2> QED
    BY <2>1, <2>2, <2>3, <2>4, <2>5, TypeParts
<1>15. CASE ArraySends
  BY <1>15 DEF TypeOK, ArraySends, udpVars, tlsVars, gpVars, counters, ConnectPhases,
       GpPhases, Packet, None, Data
<1>16. CASE ArrayStalls
  BY <1>16 DEF TypeOK, ArrayStalls, udpVars, tlsVars, gpVars, tunVars, counters,
       ConnectPhases, GpPhases, Packet, None, Data
<1>17. CASE ArraySendFails
  BY <1>17 DEF TypeOK, ArraySendFails, Loses, dtls_reconnect, tlsVars, gpVars, tunVars,
       ConnectPhases, GpPhases, Packet, None, Data
<1>18. CASE ArraySentAll
  BY <1>18 DEF TypeOK, ArraySentAll, udpVars, tlsVars, gpVars, tunVars, counters,
       ConnectPhases, GpPhases, Packet, None, Data
<1>19. CASE WritesDtlsOff
  <2>1. Phases'
    BY <1>19, TypeParts DEF WritesDtlsOff, WriteNext, udpVars, gpVars, tunVars,
       counters, Pkt, Phases, ConnectPhases, GpPhases
  <2>2. Flags'
    BY <1>19, TypeParts DEF WritesDtlsOff, WriteNext, udpVars, gpVars, tunVars,
       counters, Pkt, Flags
  <2>3. Queues'
    BY <1>19, TypeParts DEF WritesDtlsOff, WriteNext, udpVars, gpVars, tunVars,
       counters, Pkt, Queues, Written, Data, Packet, None
  <2>4. Messages'
    BY <1>19, TypeParts DEF WritesDtlsOff, WriteNext, udpVars, gpVars, tunVars,
       counters, Pkt, Messages, Control, Data, Packet, None
  <2>5. Links'
    BY <1>19, TypeParts DEF WritesDtlsOff, WriteNext, udpVars, gpVars, tunVars,
       counters, Pkt, Links, States
  <2> QED
    BY <2>1, <2>2, <2>3, <2>4, <2>5, TypeParts
<1> QED
  BY <1>1, <1>2, <1>3, <1>4, <1>5, <1>6, <1>7, <1>8, <1>9, <1>10, <1>11, <1>12, <1>13,
       <1>14, <1>15, <1>16, <1>17, <1>18, <1>19 DEF array_mainloop

-----------------------------------------------------------------------------
\* The parts of the invariant.

\* A message stays in a queue that grows.
LEMMA ContainsAppend ==
  ASSUME NEW S, NEW q \in Seq(S), NEW e \in S, NEW x
  PROVE  /\ Contains(Append(q, e), e)
         /\ Contains(q, x) => Contains(Append(q, e), x)
<1>1. /\ Len(Append(q, e)) = Len(q) + 1 /\ Len(q) \in Nat
      /\ Append(q, e)[Len(q) + 1] = e
      /\ \A i \in 1 .. Len(q) : Append(q, e)[i] = q[i]
  BY AppendProperties
<1> QED
  BY <1>1 DEF Contains

\* A message stays in a queue whose head is taken, or is that head.
LEMMA ContainsRest ==
  ASSUME NEW S, NEW q \in Seq(S), q # <<>>, NEW x, Contains(q, x)
  PROVE  Head(q) = x \/ Contains(Tail(q), x)
<1>1. PICK i \in 1 .. Len(q) : q[i] = x
  BY DEF Contains
<1>2. CASE i = 1
  BY <1>1, <1>2
<1>3. CASE i > 1
  <2>1. i - 1 \in 1 .. Len(Tail(q)) /\ Tail(q)[i - 1] = q[i]
    BY <1>3
  <2> QED
    BY <1>1, <2>1 DEF Contains
<1> QED
  BY <1>2, <1>3

\* Network Connect's server is told when ESP is closed.
LEMMA CloseTells ==
  ASSUME TypeOK, NEW state, Close(state)
  PROVE  /\ proto = "nc" /\ EspUp => Contains(tcp_control_queue', Disable)
         /\ Contains(tcp_control_queue, Disable) => Contains(tcp_control_queue', Disable)
         /\ dtls_state' = state /\ socket' = "closed"
<1>1. tcp_control_queue \in Seq(Control) /\ Disable \in Control
  BY TypeParts DEF Messages, Control, Disable
<1>2. /\ Contains(Append(tcp_control_queue, Disable), Disable)
      /\ Contains(tcp_control_queue, Disable) => Contains(Append(tcp_control_queue, Disable), Disable)
  BY <1>1, ContainsAppend
<1> QED
  BY <1>2 DEF Close, TellServer, Disable

\* The steps of the TLS loops and the main loop keep server and client consistent.
LEMMA ConsistentCommon ==
  ASSUME TypeOK, Consistent, Common PROVE Consistent'
<1>1. CASE UdpSkipped
  BY <1>1 DEF Consistent, Places, Probing, ToldHere, Retracted, Announced, Disable,
       UdpSkipped, AboveDisabled, udpVars, tlsVars, gpVars, tunVars, counters, Pkt,
       NoPkt
<1>2. CASE Resumes
  BY <1>2, CloseTells DEF Consistent, Places, Probing, ToldHere, Retracted, Announced,
       Disable, Resumes, EspUp, NoSecret, Reconnect, TlsTurn, gpVars, tunVars, Pkt,
       NoPkt
<1>3. CASE TlsReadsAll
  BY <1>3 DEF Consistent, Places, Probing, ToldHere, Retracted, Announced, Disable,
       TlsReadsAll, TlsTurn, udpVars, tlsVars, gpVars, tunVars, counters, Pkt, NoPkt
<1>4. CASE TlsReadFails
  BY <1>4, CloseTells DEF Consistent, Places, Probing, ToldHere, Retracted, Announced,
       Disable, TlsReadFails, Loses, EspUp, NoSecret, Reconnect, TlsTurn, gpVars,
       tunVars, Pkt, NoPkt
<1>5. CASE TlsDpd
  BY <1>5 DEF Consistent, Places, Probing, ToldHere, Retracted, Announced, Disable,
       TlsDpd, WriteNext, TimersTurn, udpVars, gpVars, tunVars, counters, Pkt, NoPkt
<1>6. CASE TlsPeerDead
  BY <1>6, CloseTells DEF Consistent, Places, Probing, ToldHere, Retracted, Announced,
       Disable, TlsPeerDead, Loses, EspUp, NoSecret, Reconnect, TimersTurn, gpVars,
       tunVars, Pkt, NoPkt
<1>7. CASE TimersSet
  BY <1>7 DEF Consistent, Places, Probing, ToldHere, Retracted, Announced, Disable,
       TimersSet, TimersTurn, udpVars, tlsVars, gpVars, tunVars, counters, Pkt, NoPkt
<1>8. CASE WriteDone
  BY <1>8 DEF Consistent, Places, Probing, ToldHere, Retracted, Announced, Disable,
       WriteDone, Enable, gpVars, tunVars, counters, Pkt, NoPkt
<1>9. CASE WriteStalls
  BY <1>9 DEF Consistent, Places, Probing, ToldHere, Retracted, Announced, Disable,
       WriteStalls, udpVars, tlsVars, gpVars, tunVars, counters, Pkt, NoPkt
<1>10. CASE WriteFails
  BY <1>10, CloseTells DEF Consistent, Places, Probing, ToldHere, Retracted, Announced,
       Disable, WriteFails, Loses, EspUp, NoSecret, Reconnect, gpVars, tunVars, Pkt,
       NoPkt
<1>11. CASE WritesControl
  <2>1. /\ Head(tcp_control_queue) \in Control
        /\ Contains(tcp_control_queue, Disable) =>
             Head(tcp_control_queue) = Disable \/ Contains(Tail(tcp_control_queue), Disable)
    BY <1>11, TypeParts, ContainsRest DEF Messages, WritesControl
  <2>2. Head(tcp_control_queue).kind # "enable"
    BY <2>1 DEF Control, Data, Pkt
  <2> QED
    BY <1>11, <2>1, <2>2
       DEF Consistent, Places, Probing, ToldHere, Retracted, Announced, Disable, WritesControl, WriteNext,
       udpVars, gpVars, tunVars, counters, Pkt, NoPkt
<1>12. CASE WritesData
  BY <1>12 DEF Consistent, Places, Probing, ToldHere, Retracted, Announced, Disable,
       WritesData, EspUp, WriteNext, TlsTakes, Establishes, udpVars, gpVars, counters,
       Pkt, NoPkt
<1>13. CASE NothingToWrite
  BY <1>13 DEF Consistent, Places, Probing, ToldHere, Retracted, Announced, Disable,
       NothingToWrite, EspUp, TlsTakes, Establishes, udpVars, tlsVars, gpVars, tunVars,
       counters, Pkt, NoPkt
<1>14. CASE Reconnected
  BY <1>14, ProbeType, ReconnectedType DEF Consistent, Places, Probing, ToldHere,
       Retracted, Announced, Disable, Reconnected, AboveDisabled, tlsVars, gpVars,
       tunVars, Pkt, NoPkt
<1>15. CASE RetryConnect
  BY <1>15 DEF Consistent, Places, Probing, ToldHere, Retracted, Announced, Disable,
       RetryConnect, Sleeps, udpVars, tlsVars, gpVars, tunVars, Pkt, NoPkt
<1>16. CASE RetryPaused
  BY <1>16, ProbeType, ReconnectedType DEF Consistent, Places, Probing, ToldHere,
       Retracted, Announced, Disable, RetryPaused, AboveDisabled, Sleeps, tlsVars,
       gpVars, tunVars, Pkt, NoPkt
<1>17. CASE GiveUp
  BY <1>17 DEF Consistent, Places, Probing, ToldHere, Retracted, Announced, Disable,
       GiveUp, udpVars, tlsVars, gpVars, tunVars, counters, Pkt, NoPkt
<1>18. CASE TunReads
  BY <1>18 DEF Consistent, Places, Probing, ToldHere, Retracted, Announced, Disable,
       TunReads, Room, udpVars, tlsVars, gpVars, counters, Pkt, NoPkt
<1>19. CASE RoundEnds
  BY <1>19 DEF Consistent, Places, Probing, ToldHere, Retracted, Announced, Disable,
       RoundEnds, NewRound, udpVars, tlsVars, gpVars, tunVars, counters, Pkt, NoPkt
<1>20. CASE Pause
  BY <1>20, CloseTells DEF Consistent, Places, Probing, ToldHere, Retracted, Announced,
       Disable, Pause, Loses, AboveDisabled, EspUp, NewRound, CloseForPause, gpVars,
       tunVars, Pkt, NoPkt
<1>21. CASE PauseAfterReconnect
  BY <1>21, CloseTells DEF Consistent, Places, Probing, ToldHere, Retracted, Announced,
       Disable, PauseAfterReconnect, AboveDisabled, EspUp, NewRound, CloseForPause,
       gpVars, tunVars, Pkt, NoPkt
<1>22. CASE Wakes
  BY <1>22 DEF Consistent, Places, Probing, ToldHere, Retracted, Announced, Disable,
       Wakes, Room, NewRound, udpVars, tlsVars, gpVars, tunVars, counters, Pkt, NoPkt
<1>23. CASE PacketArrives
  BY <1>23 DEF Consistent, Places, Probing, ToldHere, Retracted, Announced, Disable,
       PacketArrives, NewRound, udpVars, tlsVars, gpVars, tunVars, counters, Pkt, NoPkt
<1> QED
  BY <1>1, <1>2, <1>3, <1>4, <1>5, <1>6, <1>7, <1>8, <1>9, <1>10, <1>11, <1>12, <1>13,
       <1>14, <1>15, <1>16, <1>17, <1>18, <1>19, <1>20, <1>21, <1>22, <1>23 DEF Common

\* The steps of esp_mainloop() keep server and client consistent.
LEMMA ConsistentEsp ==
  ASSUME TypeOK, Consistent, esp_mainloop PROVE Consistent'
<1>1. CASE ProbeAnswered
  BY <1>1 DEF Consistent, Places, Probing, ToldHere, Retracted, Announced, Disable,
       ProbeAnswered, AboveDisabled, EspTurn, tlsVars, gpVars, tunVars, counters, Pkt,
       NoPkt
<1>2. CASE UdpFails
  BY <1>2, CloseTells DEF Consistent, Places, Probing, ToldHere, Retracted, Announced,
       Disable, UdpFails, Loses, AboveDisabled, EspUp, EspTurn, gpVars, tunVars, Pkt,
       NoPkt
<1>3. CASE UdpDone
  BY <1>3, CloseTells DEF Consistent, Places, Probing, ToldHere, Retracted, Announced,
       Disable, UdpDone, AboveDisabled, EspUp, EspTurn, gpVars, tunVars, counters, Pkt,
       NoPkt
<1>4. CASE RepeatProbe
  BY <1>4, ProbeType DEF Consistent, Places, Probing, ToldHere, Retracted, Announced,
       Disable, RepeatProbe, tlsVars, gpVars, tunVars, counters, Pkt, NoPkt
<1>5. CASE NewAttempt
  BY <1>5, ProbeType DEF Consistent, Places, Probing, ToldHere, Retracted, Announced,
       Disable, NewAttempt, tlsVars, gpVars, tunVars, counters, Pkt, NoPkt
<1>6. CASE NothingToProbe
  BY <1>6 DEF Consistent, Places, Probing, ToldHere, Retracted, Announced, Disable,
       NothingToProbe, udpVars, tlsVars, gpVars, tunVars, counters, Pkt, NoPkt
<1>7. CASE DpdProbe
  BY <1>7, ProbeType DEF Consistent, Places, Probing, ToldHere, Retracted, Announced,
       Disable, DpdProbe, tlsVars, gpVars, tunVars, counters, Pkt, NoPkt
<1>8. CASE EspPeerDead
  BY <1>8, CloseTells DEF Consistent, Places, Probing, ToldHere, Retracted, Announced,
       Disable, EspPeerDead, Loses, EspUp, gpVars, tunVars, Pkt, NoPkt
<1>9. CASE EspAlive
  BY <1>9 DEF Consistent, Places, Probing, ToldHere, Retracted, Announced, Disable,
       EspAlive, udpVars, tlsVars, gpVars, tunVars, counters, Pkt, NoPkt
<1>10. CASE EspReroutes
  BY <1>10 DEF Consistent, Places, Probing, ToldHere, Retracted, Announced, Disable,
       EspReroutes, ToSend, Packet1, TakePacket, udpVars, gpVars, counters, Pkt, NoPkt
<1>11. CASE EspSends
  BY <1>11 DEF Consistent, Places, Probing, ToldHere, Retracted, Announced, Disable,
       EspSends, ToSend, Packet1, TakePacket, tlsVars, gpVars, counters, Pkt, NoPkt
<1>12. CASE EspDrops
  BY <1>12 DEF Consistent, Places, Probing, ToldHere, Retracted, Announced, Disable,
       EspDrops, ToSend, Packet1, TakePacket, tlsVars, gpVars, counters, Pkt, NoPkt
<1>13. CASE EspStalls
  BY <1>13 DEF Consistent, Places, Probing, ToldHere, Retracted, Announced, Disable,
       EspStalls, ToSend, Packet1, TakePacket, tlsVars, gpVars, counters, Pkt, NoPkt
<1>14. CASE EspSentAll
  BY <1>14 DEF Consistent, Places, Probing, ToldHere, Retracted, Announced, Disable,
       EspSentAll, ToSend, udpVars, tlsVars, gpVars, tunVars, counters, Pkt, NoPkt
<1> QED
  BY <1>1, <1>2, <1>3, <1>4, <1>5, <1>6, <1>7, <1>8, <1>9, <1>10, <1>11, <1>12, <1>13,
       <1>14 DEF esp_mainloop

\* The steps of oncp_mainloop() keep server and client consistent.
LEMMA ConsistentNc ==
  ASSUME TypeOK, Consistent, oncp_mainloop PROVE Consistent'
<1>1. CASE oncp_connect
  BY <1>1 DEF Consistent, Places, Probing, ToldHere, Retracted, Announced, Disable,
       oncp_connect, WithKeys, gpVars, tunVars, counters, Pkt, NoPkt
<1>2. CASE ReceivesKeys
  <2>1. Contains(tcp_control_queue, Disable) => Contains(tcp_control_queue', Disable)
    <3>1. tcp_control_queue \in Seq(Control) /\ Pkt("keys", None) \in Control
      BY TypeParts DEF Messages, Control
    <3> QED
      BY <1>2, <3>1, ContainsAppend DEF ReceivesKeys
  <2> QED
    BY <1>2, <2>1 DEF Consistent, Places, Probing, ToldHere, Retracted, Announced, ReceivesKeys, WithKeys,
       gpVars, tunVars, counters, Pkt, NoPkt
<1>3. CASE RefusesKeys
  BY <1>3, CloseTells DEF Consistent, Places, Probing, ToldHere, Retracted, Announced,
       Disable, RefusesKeys, AboveDisabled, EspUp, Sleeping, gpVars, tunVars, Pkt, NoPkt
<1>4. CASE WritesEnable
  BY <1>4 DEF Consistent, Places, Probing, ToldHere, Retracted, Announced, Disable,
       WritesEnable, WriteNext, udpVars, gpVars, tunVars, counters, Pkt, NoPkt
<1> QED
  BY <1>1, <1>2, <1>3, <1>4 DEF oncp_mainloop

\* The steps of pulse_mainloop() keep server and client consistent.
LEMMA ConsistentPulse ==
  ASSUME TypeOK, Consistent, pulse_mainloop PROVE Consistent'
<1>1. CASE pulse_connect
  BY <1>1 DEF Consistent, Places, Probing, ToldHere, Retracted, Announced, Disable,
       pulse_connect, udpVars, gpVars, tunVars, counters, Pkt, NoPkt
<1>2. CASE EspConfig
  BY <1>2 DEF Consistent, Places, Probing, ToldHere, Retracted, Announced, Disable,
       EspConfig, tlsVars, gpVars, tunVars, counters, Pkt, NoPkt
<1>3. CASE EspConfigRefused
  BY <1>3 DEF Consistent, Places, Probing, ToldHere, Retracted, Announced, Disable,
       EspConfigRefused, tlsVars, gpVars, tunVars, counters, Pkt, NoPkt
<1>4. CASE MainConfigRefused
  BY <1>4 DEF Consistent, Places, Probing, ToldHere, Retracted, Announced, Disable,
       MainConfigRefused, udpVars, tlsVars, gpVars, tunVars, counters, Pkt, NoPkt
<1>5. CASE PulseConfigFails
  BY <1>5 DEF Consistent, Places, Probing, ToldHere, Retracted, Announced, Disable,
       PulseConfigFails, udpVars, tlsVars, gpVars, tunVars, counters, Pkt, NoPkt
<1>6. CASE PulseConfigured
  BY <1>6 DEF Consistent, Places, Probing, ToldHere, Retracted, Announced, Disable,
       PulseConfigured, udpVars, gpVars, tunVars, counters, Pkt, NoPkt
<1>7. CASE PulseRekeys
  BY <1>7 DEF Consistent, Places, Probing, ToldHere, Retracted, Announced, Disable,
       PulseRekeys, WithKeys, gpVars, tunVars, Pkt, NoPkt
<1>8. CASE PulseRekeyFails
  BY <1>8, CloseTells DEF Consistent, Places, Probing, ToldHere, Retracted, Announced,
       Disable, PulseRekeyFails, AboveDisabled, EspUp, Sleeping, gpVars, tunVars, Pkt,
       NoPkt
<1>9. CASE PulseLicence
  BY <1>9, ProbeType DEF Consistent, Places, Probing, ToldHere, Retracted, Announced,
       Disable, PulseLicence, tlsVars, gpVars, tunVars, counters, Pkt, NoPkt
<1>10. CASE PulseFatalError
  BY <1>10 DEF Consistent, Places, Probing, ToldHere, Retracted, Announced, Disable,
       PulseFatalError, udpVars, tlsVars, gpVars, tunVars, counters, Pkt, NoPkt
<1>11. CASE PulseEstablishes
  BY <1>11 DEF Consistent, Places, Probing, ToldHere, Retracted, Announced, Disable,
       PulseEstablishes, tlsVars, gpVars, tunVars, counters, Pkt, NoPkt
<1> QED
  BY <1>1, <1>2, <1>3, <1>4, <1>5, <1>6, <1>7, <1>8, <1>9, <1>10, <1>11 DEF pulse_mainloop

\* The steps of gpst_mainloop() keep server and client consistent.
LEMMA ConsistentGp ==
  ASSUME TypeOK, Consistent, gpst_mainloop PROVE Consistent'
<1>1. CASE gpst_setup
  BY <1>1, CloseTells DEF Consistent, Places, Probing, ToldHere, Retracted, Announced,
       Disable, gpst_setup, EspUp, NoSecret, gpVars, tunVars, counters, Pkt, NoPkt
<1>2. CASE gpst_get_config
  BY <1>2 DEF Consistent, Places, Probing, ToldHere, Retracted, Announced, Disable,
       gpst_get_config, WithKeys, parse_config_xml, tunVars, counters, Pkt, NoPkt
<1>3. CASE check_and_maybe_submit_hip_report
  BY <1>3 DEF Consistent, Places, Probing, ToldHere, Retracted, Announced, Disable,
       check_and_maybe_submit_hip_report, Otherwise, check_or_submit_hip_report,
       run_hip_script, GpPhases, udpVars, tunVars, counters, Pkt, NoPkt
<1>4. CASE gpst_connect_NotNeeded
  BY <1>4 DEF Consistent, Places, Probing, ToldHere, Retracted, Announced, Disable,
       gpst_connect_NotNeeded, AfterConnect, udpVars, tlsVars, gpVars, tunVars,
       counters, Pkt, NoPkt
<1>5. CASE gpst_connect
  BY <1>5, CloseTells DEF Consistent, Places, Probing, ToldHere, Retracted, Announced,
       Disable, gpst_connect, EspUp, AfterConnect, tunVars, counters, Pkt, NoPkt
<1>6. CASE gpst_connect_Fails
  BY <1>6 DEF Consistent, Places, Probing, ToldHere, Retracted, Announced, Disable,
       gpst_connect_Fails, Otherwise, GpPhases, udpVars, tunVars, counters, Pkt, NoPkt
<1>7. CASE HipFallsDue
  BY <1>7 DEF Consistent, Places, Probing, ToldHere, Retracted, Announced, Disable,
       HipFallsDue, udpVars, tlsVars, tunVars, Pkt, NoPkt
<1>8. CASE GpEstablishes
  BY <1>8 DEF Consistent, Places, Probing, ToldHere, Retracted, Announced, Disable,
       GpEstablishes, GpTurn, gpVars, tunVars, counters, Pkt, NoPkt
<1>9. CASE GpRekey
  BY <1>9, CloseTells DEF Consistent, Places, Probing, ToldHere, Retracted, Announced,
       Disable, GpRekey, Loses, EspUp, NoSecret, Reconnect, GpTurn, gpVars, tunVars,
       Pkt, NoPkt
<1>10. CASE HipRecheck
  BY <1>10 DEF Consistent, Places, Probing, ToldHere, Retracted, Announced, Disable,
       HipRecheck, GpTurn, udpVars, gpVars, tunVars, counters, Pkt, NoPkt
<1>11. CASE GpWaits
  BY <1>11 DEF Consistent, Places, Probing, ToldHere, Retracted, Announced, Disable,
       GpWaits, GpTurn, udpVars, tlsVars, gpVars, tunVars, counters, Pkt, NoPkt
<1>12. CASE GpFallsBack
  BY <1>12 DEF Consistent, Places, Probing, ToldHere, Retracted, Announced, Disable,
       GpFallsBack, GpTurn, tlsVars, gpVars, tunVars, counters, Pkt, NoPkt
<1>13. CASE GpUnknownPacket
  BY <1>13 DEF Consistent, Places, Probing, ToldHere, Retracted, Announced, Disable,
       GpUnknownPacket, TlsTurn, udpVars, tlsVars, gpVars, tunVars, counters, Pkt, NoPkt
<1> QED
  BY <1>1, <1>2, <1>3, <1>4, <1>5, <1>6, <1>7, <1>8, <1>9, <1>10, <1>11, <1>12, <1>13 DEF gpst_mainloop

\* The steps of array_mainloop() keep server and client consistent.
LEMMA ConsistentArray ==
  ASSUME TypeOK, Consistent, array_mainloop PROVE Consistent'
<1>1. CASE array_connect
  BY <1>1 DEF Consistent, Places, Probing, ToldHere, Retracted, Announced, Disable,
       array_connect, udpVars, gpVars, tunVars, counters, Pkt, NoPkt
<1>2. CASE ArrayConfig
  BY <1>2 DEF Consistent, Places, Probing, ToldHere, Retracted, Announced, Disable,
       ArrayConfig, parse_speed_tunnel, parse_interface_info, do_json_request, gpVars,
       tunVars, counters, Pkt, NoPkt
<1>3. CASE ArrayNegotiates
  BY <1>3 DEF Consistent, Places, Probing, ToldHere, Retracted, Announced, Disable,
       ArrayNegotiates, WithKeys, gpVars, tunVars, counters, Pkt, NoPkt
<1>4. CASE ArrayReconnectsDtls
  BY <1>4 DEF Consistent, Places, Probing, ToldHere, Retracted, Announced, Disable,
       ArrayReconnectsDtls, AboveDisabled, dtls_reconnect, tlsVars, gpVars, tunVars,
       counters, Pkt, NoPkt
<1>5. CASE ArrayHandshakes
  BY <1>5 DEF Consistent, Places, Probing, ToldHere, Retracted, Announced, Disable,
       ArrayHandshakes, DtlsTurn, tlsVars, gpVars, tunVars, counters, Pkt, NoPkt
<1>6. CASE ArrayConnects
  BY <1>6 DEF Consistent, Places, Probing, ToldHere, Retracted, Announced, Disable,
       ArrayConnects, DtlsTurn, ArrayRequests, tlsVars, gpVars, tunVars, counters, Pkt,
       NoPkt
<1>7. CASE ArrayEstablishes
  BY <1>7 DEF Consistent, Places, Probing, ToldHere, Retracted, Announced, Disable,
       ArrayEstablishes, DtlsTurn, Accepted, gpVars, tunVars, counters, Pkt, NoPkt
<1>8. CASE ArrayReadFails
  BY <1>8 DEF Consistent, Places, Probing, ToldHere, Retracted, Announced, Disable,
       ArrayReadFails, Loses, DtlsTurn, tlsVars, gpVars, tunVars, Pkt, NoPkt
<1>9. CASE ArrayRequestsAgain
  BY <1>9 DEF Consistent, Places, Probing, ToldHere, Retracted, Announced, Disable,
       ArrayRequestsAgain, DtlsTurn, ArrayRequests, tlsVars, gpVars, tunVars, counters,
       Pkt, NoPkt
<1>10. CASE ArrayAttempts
  BY <1>10 DEF Consistent, Places, Probing, ToldHere, Retracted, Announced, Disable,
       ArrayAttempts, DtlsTurn, dtls_reconnect, tlsVars, gpVars, tunVars, counters, Pkt,
       NoPkt
<1>11. CASE ArraySleeps
  BY <1>11 DEF Consistent, Places, Probing, ToldHere, Retracted, Announced, Disable,
       ArraySleeps, DtlsTurn, udpVars, tlsVars, gpVars, tunVars, counters, Pkt, NoPkt
<1>12. CASE ArrayReads
  BY <1>12 DEF Consistent, Places, Probing, ToldHere, Retracted, Announced, Disable,
       ArrayReads, DtlsTurn, udpVars, tlsVars, gpVars, tunVars, counters, Pkt, NoPkt
<1>13. CASE ArrayPeerDead
  BY <1>13 DEF Consistent, Places, Probing, ToldHere, Retracted, Announced, Disable,
       ArrayPeerDead, Loses, dtls_reconnect, tlsVars, gpVars, tunVars, Pkt, NoPkt
<1>14. CASE ArrayAlive
  BY <1>14 DEF Consistent, Places, Probing, ToldHere, Retracted, Announced, Disable,
       ArrayAlive, udpVars, tlsVars, gpVars, tunVars, counters, Pkt, NoPkt
<1>15. CASE ArraySends
  BY <1>15 DEF Consistent, Places, Probing, ToldHere, Retracted, Announced, Disable,
       ArraySends, udpVars, tlsVars, gpVars, counters, Pkt, NoPkt
<1>16. CASE ArrayStalls
  BY <1>16 DEF Consistent, Places, Probing, ToldHere, Retracted, Announced, Disable,
       ArrayStalls, udpVars, tlsVars, gpVars, tunVars, counters, Pkt, NoPkt
<1>17. CASE ArraySendFails
  BY <1>17 DEF Consistent, Places, Probing, ToldHere, Retracted, Announced, Disable,
       ArraySendFails, Loses, dtls_reconnect, tlsVars, gpVars, tunVars, Pkt, NoPkt
<1>18. CASE ArraySentAll
  BY <1>18 DEF Consistent, Places, Probing, ToldHere, Retracted, Announced, Disable,
       ArraySentAll, udpVars, tlsVars, gpVars, tunVars, counters, Pkt, NoPkt
<1>19. CASE WritesDtlsOff
  BY <1>19 DEF Consistent, Places, Probing, ToldHere, Retracted, Announced, Disable,
       WritesDtlsOff, WriteNext, udpVars, gpVars, tunVars, counters, Pkt, NoPkt
<1> QED
  BY <1>1, <1>2, <1>3, <1>4, <1>5, <1>6, <1>7, <1>8, <1>9, <1>10, <1>11, <1>12, <1>13,
       <1>14, <1>15, <1>16, <1>17, <1>18, <1>19 DEF array_mainloop

\* The steps of the TLS loops and the main loop leave no keys that are not valid.
LEMMA GpKeysCommon ==
  ASSUME TypeOK, Consistent, GpKeysValid, Common PROVE GpKeysValid'
<1>1. CASE UdpSkipped
  BY <1>1 DEF GpKeysValid, Consistent, Places, Probing, UdpSkipped, AboveDisabled,
       udpVars, tlsVars, gpVars, tunVars, counters
<1>2. CASE Resumes
  BY <1>2, CloseTells DEF GpKeysValid, Consistent, Places, Probing, Resumes, EspUp,
       NoSecret, Reconnect, TlsTurn, gpVars, tunVars, Pkt
<1>3. CASE TlsReadsAll
  BY <1>3 DEF GpKeysValid, Consistent, Places, Probing, TlsReadsAll, TlsTurn, udpVars,
       tlsVars, gpVars, tunVars, counters, Pkt, NoPkt
<1>4. CASE TlsReadFails
  BY <1>4, CloseTells DEF GpKeysValid, Consistent, Places, Probing, TlsReadFails, Loses,
       EspUp, NoSecret, Reconnect, TlsTurn, gpVars, tunVars, Pkt
<1>5. CASE TlsDpd
  BY <1>5 DEF GpKeysValid, Consistent, Places, Probing, TlsDpd, WriteNext, TimersTurn,
       udpVars, gpVars, tunVars, counters, Pkt
<1>6. CASE TlsPeerDead
  BY <1>6, CloseTells DEF GpKeysValid, Consistent, Places, Probing, TlsPeerDead, Loses,
       EspUp, NoSecret, Reconnect, TimersTurn, gpVars, tunVars, Pkt
<1>7. CASE TimersSet
  BY <1>7 DEF GpKeysValid, Consistent, Places, Probing, TimersSet, TimersTurn, udpVars,
       tlsVars, gpVars, tunVars, counters
<1>8. CASE WriteDone
  BY <1>8 DEF GpKeysValid, Consistent, Places, Probing, WriteDone, Enable, gpVars,
       tunVars, counters, Pkt, NoPkt
<1>9. CASE WriteStalls
  BY <1>9 DEF GpKeysValid, Consistent, Places, Probing, WriteStalls, udpVars, tlsVars,
       gpVars, tunVars, counters
<1>10. CASE WriteFails
  BY <1>10, CloseTells DEF GpKeysValid, Consistent, Places, Probing, WriteFails, Loses,
       EspUp, NoSecret, Reconnect, gpVars, tunVars, Pkt
<1>11. CASE WritesControl
  BY <1>11 DEF GpKeysValid, Consistent, Places, Probing, WritesControl, WriteNext,
       udpVars, gpVars, tunVars, counters
<1>12. CASE WritesData
  BY <1>12 DEF GpKeysValid, Consistent, Places, Probing, WritesData, EspUp, WriteNext,
       TlsTakes, Establishes, udpVars, gpVars, counters, Pkt
<1>13. CASE NothingToWrite
  BY <1>13 DEF GpKeysValid, Consistent, Places, Probing, NothingToWrite, EspUp,
       TlsTakes, Establishes, udpVars, tlsVars, gpVars, tunVars, counters
<1>14. CASE Reconnected
  BY <1>14, ProbeType, ReconnectedType DEF GpKeysValid, Consistent, Places, Probing,
       Reconnected, AboveDisabled, tlsVars, gpVars, tunVars
<1>15. CASE RetryConnect
  BY <1>15 DEF GpKeysValid, Consistent, Places, Probing, RetryConnect, Sleeps, udpVars,
       tlsVars, gpVars, tunVars
<1>16. CASE RetryPaused
  BY <1>16, ProbeType, ReconnectedType DEF GpKeysValid, Consistent, Places, Probing,
       RetryPaused, AboveDisabled, Sleeps, tlsVars, gpVars, tunVars
<1>17. CASE GiveUp
  BY <1>17 DEF GpKeysValid, Consistent, Places, Probing, GiveUp, udpVars, tlsVars,
       gpVars, tunVars, counters
<1>18. CASE TunReads
  BY <1>18 DEF GpKeysValid, Consistent, Places, Probing, TunReads, Room, udpVars,
       tlsVars, gpVars, counters
<1>19. CASE RoundEnds
  BY <1>19 DEF GpKeysValid, Consistent, Places, Probing, RoundEnds, NewRound, udpVars,
       tlsVars, gpVars, tunVars, counters
<1>20. CASE Pause
  BY <1>20, CloseTells DEF GpKeysValid, Consistent, Places, Probing, Pause, Loses,
       AboveDisabled, EspUp, NewRound, CloseForPause, gpVars, tunVars, Pkt
<1>21. CASE PauseAfterReconnect
  BY <1>21, CloseTells DEF GpKeysValid, Consistent, Places, Probing,
       PauseAfterReconnect, AboveDisabled, EspUp, NewRound, CloseForPause, gpVars,
       tunVars, Pkt
<1>22. CASE Wakes
  BY <1>22 DEF GpKeysValid, Consistent, Places, Probing, Wakes, Room, NewRound, udpVars,
       tlsVars, gpVars, tunVars, counters, Pkt, NoPkt
<1>23. CASE PacketArrives
  BY <1>23 DEF GpKeysValid, Consistent, Places, Probing, PacketArrives, NewRound,
       udpVars, tlsVars, gpVars, tunVars, counters
<1> QED
  BY <1>1, <1>2, <1>3, <1>4, <1>5, <1>6, <1>7, <1>8, <1>9, <1>10, <1>11, <1>12, <1>13,
       <1>14, <1>15, <1>16, <1>17, <1>18, <1>19, <1>20, <1>21, <1>22, <1>23 DEF Common

\* The steps of esp_mainloop() leave no keys that are not valid.
LEMMA GpKeysEsp ==
  ASSUME TypeOK, Consistent, GpKeysValid, esp_mainloop PROVE GpKeysValid'
<1>1. CASE ProbeAnswered
  BY <1>1 DEF GpKeysValid, Consistent, Places, Probing, ProbeAnswered, AboveDisabled,
       EspTurn, tlsVars, gpVars, tunVars, counters
<1>2. CASE UdpFails
  BY <1>2, CloseTells DEF GpKeysValid, Consistent, Places, Probing, UdpFails, Loses,
       AboveDisabled, EspUp, EspTurn, gpVars, tunVars, Pkt
<1>3. CASE UdpDone
  BY <1>3, CloseTells DEF GpKeysValid, Consistent, Places, Probing, UdpDone,
       AboveDisabled, EspUp, EspTurn, gpVars, tunVars, counters, Pkt
<1>4. CASE RepeatProbe
  BY <1>4, ProbeType DEF GpKeysValid, Consistent, Places, Probing, RepeatProbe, tlsVars,
       gpVars, tunVars, counters
<1>5. CASE NewAttempt
  BY <1>5, ProbeType DEF GpKeysValid, Consistent, Places, Probing, NewAttempt, tlsVars,
       gpVars, tunVars, counters
<1>6. CASE NothingToProbe
  BY <1>6 DEF GpKeysValid, Consistent, Places, Probing, NothingToProbe, udpVars,
       tlsVars, gpVars, tunVars, counters
<1>7. CASE DpdProbe
  BY <1>7, ProbeType DEF GpKeysValid, Consistent, Places, Probing, DpdProbe, tlsVars,
       gpVars, tunVars, counters
<1>8. CASE EspPeerDead
  BY <1>8, CloseTells DEF GpKeysValid, Consistent, Places, Probing, EspPeerDead, Loses,
       EspUp, gpVars, tunVars, Pkt
<1>9. CASE EspAlive
  BY <1>9 DEF GpKeysValid, Consistent, Places, Probing, EspAlive, udpVars, tlsVars,
       gpVars, tunVars, counters
<1>10. CASE EspReroutes
  BY <1>10 DEF GpKeysValid, Consistent, Places, Probing, EspReroutes, ToSend, Packet1,
       TakePacket, udpVars, gpVars, counters, Pkt
<1>11. CASE EspSends
  BY <1>11 DEF GpKeysValid, Consistent, Places, Probing, EspSends, ToSend, Packet1,
       TakePacket, tlsVars, gpVars, counters
<1>12. CASE EspDrops
  BY <1>12 DEF GpKeysValid, Consistent, Places, Probing, EspDrops, ToSend, Packet1,
       TakePacket, tlsVars, gpVars, counters
<1>13. CASE EspStalls
  BY <1>13 DEF GpKeysValid, Consistent, Places, Probing, EspStalls, ToSend, Packet1,
       TakePacket, tlsVars, gpVars, counters
<1>14. CASE EspSentAll
  BY <1>14 DEF GpKeysValid, Consistent, Places, Probing, EspSentAll, ToSend, udpVars,
       tlsVars, gpVars, tunVars, counters
<1> QED
  BY <1>1, <1>2, <1>3, <1>4, <1>5, <1>6, <1>7, <1>8, <1>9, <1>10, <1>11, <1>12, <1>13,
       <1>14 DEF esp_mainloop

\* The steps of oncp_mainloop() leave no keys that are not valid.
LEMMA GpKeysNc ==
  ASSUME TypeOK, Consistent, GpKeysValid, oncp_mainloop PROVE GpKeysValid'
<1>1. CASE oncp_connect
  BY <1>1 DEF GpKeysValid, Consistent, Places, Probing, oncp_connect, WithKeys, gpVars,
       tunVars, counters
<1>2. CASE ReceivesKeys
  BY <1>2 DEF GpKeysValid, Consistent, Places, Probing, ReceivesKeys, WithKeys, gpVars,
       tunVars, Pkt
<1>3. CASE RefusesKeys
  BY <1>3, CloseTells DEF GpKeysValid, Consistent, Places, Probing, RefusesKeys,
       AboveDisabled, EspUp, Sleeping, gpVars, tunVars, Pkt
<1>4. CASE WritesEnable
  BY <1>4 DEF GpKeysValid, Consistent, Places, Probing, WritesEnable, WriteNext,
       udpVars, gpVars, tunVars, counters, Pkt
<1> QED
  BY <1>1, <1>2, <1>3, <1>4 DEF oncp_mainloop

\* The steps of pulse_mainloop() leave no keys that are not valid.
LEMMA GpKeysPulse ==
  ASSUME TypeOK, Consistent, GpKeysValid, pulse_mainloop PROVE GpKeysValid'
<1>1. CASE pulse_connect
  BY <1>1 DEF GpKeysValid, Consistent, Places, Probing, pulse_connect, udpVars, gpVars,
       tunVars, counters
<1>2. CASE EspConfig
  BY <1>2 DEF GpKeysValid, Consistent, Places, Probing, EspConfig, tlsVars, gpVars,
       tunVars, counters
<1>3. CASE EspConfigRefused
  BY <1>3 DEF GpKeysValid, Consistent, Places, Probing, EspConfigRefused, tlsVars,
       gpVars, tunVars, counters
<1>4. CASE MainConfigRefused
  BY <1>4 DEF GpKeysValid, Consistent, Places, Probing, MainConfigRefused, udpVars,
       tlsVars, gpVars, tunVars, counters
<1>5. CASE PulseConfigFails
  BY <1>5 DEF GpKeysValid, Consistent, Places, Probing, PulseConfigFails, udpVars,
       tlsVars, gpVars, tunVars, counters
<1>6. CASE PulseConfigured
  BY <1>6 DEF GpKeysValid, Consistent, Places, Probing, PulseConfigured, udpVars,
       gpVars, tunVars, counters
<1>7. CASE PulseRekeys
  BY <1>7 DEF GpKeysValid, Consistent, Places, Probing, PulseRekeys, WithKeys, gpVars,
       tunVars, Pkt
<1>8. CASE PulseRekeyFails
  BY <1>8, CloseTells DEF GpKeysValid, Consistent, Places, Probing, PulseRekeyFails,
       AboveDisabled, EspUp, Sleeping, gpVars, tunVars, Pkt
<1>9. CASE PulseLicence
  BY <1>9, ProbeType DEF GpKeysValid, Consistent, Places, Probing, PulseLicence,
       tlsVars, gpVars, tunVars, counters
<1>10. CASE PulseFatalError
  BY <1>10 DEF GpKeysValid, Consistent, Places, Probing, PulseFatalError, udpVars,
       tlsVars, gpVars, tunVars, counters
<1>11. CASE PulseEstablishes
  BY <1>11 DEF GpKeysValid, Consistent, Places, Probing, PulseEstablishes, tlsVars,
       gpVars, tunVars, counters
<1> QED
  BY <1>1, <1>2, <1>3, <1>4, <1>5, <1>6, <1>7, <1>8, <1>9, <1>10, <1>11 DEF pulse_mainloop

\* The steps of gpst_mainloop() leave no keys that are not valid.
LEMMA GpKeysGp ==
  ASSUME TypeOK, Consistent, GpKeysValid, gpst_mainloop PROVE GpKeysValid'
<1>1. CASE gpst_setup
  BY <1>1, CloseTells DEF GpKeysValid, Consistent, Places, Probing, gpst_setup, EspUp,
       NoSecret, gpVars, tunVars, counters, Pkt
<1>2. CASE gpst_get_config
  BY <1>2 DEF GpKeysValid, Consistent, Places, Probing, gpst_get_config, WithKeys,
       parse_config_xml, tunVars, counters
<1>3. CASE check_and_maybe_submit_hip_report
  BY <1>3 DEF GpKeysValid, Consistent, Places, Probing,
       check_and_maybe_submit_hip_report, Otherwise, check_or_submit_hip_report,
       run_hip_script, GpPhases, udpVars, tunVars, counters
<1>4. CASE gpst_connect_NotNeeded
  BY <1>4 DEF GpKeysValid, Consistent, Places, Probing, gpst_connect_NotNeeded,
       AfterConnect, udpVars, tlsVars, gpVars, tunVars, counters
<1>5. CASE gpst_connect
  BY <1>5, CloseTells DEF GpKeysValid, Consistent, Places, Probing, gpst_connect, EspUp,
       AfterConnect, tunVars, counters, Pkt
<1>6. CASE gpst_connect_Fails
  BY <1>6 DEF GpKeysValid, Consistent, Places, Probing, gpst_connect_Fails, Otherwise,
       GpPhases, udpVars, tunVars, counters
<1>7. CASE HipFallsDue
  BY <1>7 DEF GpKeysValid, Consistent, Places, Probing, HipFallsDue, udpVars, tlsVars,
       tunVars
<1>8. CASE GpEstablishes
  BY <1>8 DEF GpKeysValid, Consistent, Places, Probing, GpEstablishes, GpTurn, gpVars,
       tunVars, counters
<1>9. CASE GpRekey
  BY <1>9, CloseTells DEF GpKeysValid, Consistent, Places, Probing, GpRekey, Loses,
       EspUp, NoSecret, Reconnect, GpTurn, gpVars, tunVars, Pkt
<1>10. CASE HipRecheck
  BY <1>10 DEF GpKeysValid, Consistent, Places, Probing, HipRecheck, GpTurn, udpVars,
       gpVars, tunVars, counters
<1>11. CASE GpWaits
  BY <1>11 DEF GpKeysValid, Consistent, Places, Probing, GpWaits, GpTurn, udpVars,
       tlsVars, gpVars, tunVars, counters
<1>12. CASE GpFallsBack
  BY <1>12 DEF GpKeysValid, Consistent, Places, Probing, GpFallsBack, GpTurn, tlsVars,
       gpVars, tunVars, counters
<1>13. CASE GpUnknownPacket
  BY <1>13 DEF GpKeysValid, Consistent, Places, Probing, GpUnknownPacket, TlsTurn,
       udpVars, tlsVars, gpVars, tunVars, counters
<1> QED
  BY <1>1, <1>2, <1>3, <1>4, <1>5, <1>6, <1>7, <1>8, <1>9, <1>10, <1>11, <1>12, <1>13 DEF gpst_mainloop

\* The steps of array_mainloop() leave no keys that are not valid.
LEMMA GpKeysArray ==
  ASSUME TypeOK, Consistent, GpKeysValid, array_mainloop PROVE GpKeysValid'
<1>1. CASE array_connect
  BY <1>1 DEF GpKeysValid, Consistent, Places, Probing, array_connect, udpVars, gpVars,
       tunVars, counters
<1>2. CASE ArrayConfig
  BY <1>2 DEF GpKeysValid, Consistent, Places, Probing, ArrayConfig, parse_speed_tunnel,
       parse_interface_info, do_json_request, gpVars, tunVars, counters
<1>3. CASE ArrayNegotiates
  BY <1>3 DEF GpKeysValid, Consistent, Places, Probing, ArrayNegotiates, WithKeys,
       gpVars, tunVars, counters
<1>4. CASE ArrayReconnectsDtls
  BY <1>4 DEF GpKeysValid, Consistent, Places, Probing, ArrayReconnectsDtls,
       AboveDisabled, dtls_reconnect, tlsVars, gpVars, tunVars, counters
<1>5. CASE ArrayHandshakes
  BY <1>5 DEF GpKeysValid, Consistent, Places, Probing, ArrayHandshakes, DtlsTurn,
       tlsVars, gpVars, tunVars, counters
<1>6. CASE ArrayConnects
  BY <1>6 DEF GpKeysValid, Consistent, Places, Probing, ArrayConnects, DtlsTurn,
       ArrayRequests, tlsVars, gpVars, tunVars, counters
<1>7. CASE ArrayEstablishes
  BY <1>7 DEF GpKeysValid, Consistent, Places, Probing, ArrayEstablishes, DtlsTurn,
       Accepted, gpVars, tunVars, counters
<1>8. CASE ArrayReadFails
  BY <1>8 DEF GpKeysValid, Consistent, Places, Probing, ArrayReadFails, Loses, DtlsTurn,
       tlsVars, gpVars, tunVars
<1>9. CASE ArrayRequestsAgain
  BY <1>9 DEF GpKeysValid, Consistent, Places, Probing, ArrayRequestsAgain, DtlsTurn,
       ArrayRequests, tlsVars, gpVars, tunVars, counters
<1>10. CASE ArrayAttempts
  BY <1>10 DEF GpKeysValid, Consistent, Places, Probing, ArrayAttempts, DtlsTurn,
       dtls_reconnect, tlsVars, gpVars, tunVars, counters
<1>11. CASE ArraySleeps
  BY <1>11 DEF GpKeysValid, Consistent, Places, Probing, ArraySleeps, DtlsTurn, udpVars,
       tlsVars, gpVars, tunVars, counters
<1>12. CASE ArrayReads
  BY <1>12 DEF GpKeysValid, Consistent, Places, Probing, ArrayReads, DtlsTurn, udpVars,
       tlsVars, gpVars, tunVars, counters
<1>13. CASE ArrayPeerDead
  BY <1>13 DEF GpKeysValid, Consistent, Places, Probing, ArrayPeerDead, Loses,
       dtls_reconnect, tlsVars, gpVars, tunVars
<1>14. CASE ArrayAlive
  BY <1>14 DEF GpKeysValid, Consistent, Places, Probing, ArrayAlive, udpVars, tlsVars,
       gpVars, tunVars, counters
<1>15. CASE ArraySends
  BY <1>15 DEF GpKeysValid, Consistent, Places, Probing, ArraySends, udpVars, tlsVars,
       gpVars, counters
<1>16. CASE ArrayStalls
  BY <1>16 DEF GpKeysValid, Consistent, Places, Probing, ArrayStalls, udpVars, tlsVars,
       gpVars, tunVars, counters
<1>17. CASE ArraySendFails
  BY <1>17 DEF GpKeysValid, Consistent, Places, Probing, ArraySendFails, Loses,
       dtls_reconnect, tlsVars, gpVars, tunVars
<1>18. CASE ArraySentAll
  BY <1>18 DEF GpKeysValid, Consistent, Places, Probing, ArraySentAll, udpVars, tlsVars,
       gpVars, tunVars, counters
<1>19. CASE WritesDtlsOff
  BY <1>19 DEF GpKeysValid, Consistent, Places, Probing, WritesDtlsOff, WriteNext,
       udpVars, gpVars, tunVars, counters, Pkt
<1> QED
  BY <1>1, <1>2, <1>3, <1>4, <1>5, <1>6, <1>7, <1>8, <1>9, <1>10, <1>11, <1>12, <1>13,
       <1>14, <1>15, <1>16, <1>17, <1>18, <1>19 DEF array_mainloop

-----------------------------------------------------------------------------
\* The inductive invariant.
TunnelInv == TypeOK /\ Consistent /\ GpKeysValid

\* The invariant holds when the tunnel has been connected.
LEMMA InitInv == Init => TunnelInv
<1> SUFFICES ASSUME Init PROVE TunnelInv
  OBVIOUS
<1>1. TypeOK
  <2>1. Phases /\ Queues /\ Messages /\ Links
    BY TunnelAssumption DEF Init, Phases, Queues, Messages, Links, Written, Control, NoPkt, Pkt, None,
       ConnectPhases, GpPhases, States, Packet
  <2>2. Flags
    BY DEF Init, Flags
  <2> QED
    BY <2>1, <2>2, TypeParts
<1>2. Consistent
  BY DEF Init, Consistent, Places, Probing, ToldHere, Retracted, NoPkt, Pkt
<1>3. GpKeysValid
  BY DEF Init, GpKeysValid
<1> QED
  BY <1>1, <1>2, <1>3 DEF TunnelInv

\* Every step keeps it.
LEMMA StepInv == TunnelInv /\ [Next]_vars => TunnelInv'
<1> SUFFICES ASSUME TunnelInv, [Next]_vars PROVE TunnelInv'
  OBVIOUS
<1> USE DEF TunnelInv
<1>1. CASE Common
  BY <1>1, TypeCommon, ConsistentCommon, GpKeysCommon DEF Consistent
<1>2. CASE esp_mainloop
  BY <1>2, TypeEsp, ConsistentEsp, GpKeysEsp DEF Consistent
<1>3. CASE oncp_mainloop
  BY <1>3, TypeNc, ConsistentNc, GpKeysNc DEF Consistent
<1>4. CASE pulse_mainloop
  BY <1>4, TypePulse, ConsistentPulse, GpKeysPulse DEF Consistent
<1>5. CASE gpst_mainloop
  BY <1>5, TypeGp, ConsistentGp, GpKeysGp DEF Consistent
<1>6. CASE array_mainloop
  BY <1>6, TypeArray, ConsistentArray, GpKeysArray DEF Consistent
<1>7. CASE UNCHANGED vars
  <2> USE <1>7 DEF vars, udpVars, tlsVars, gpVars, tunVars, counters
  <2>1. TypeOK'
    <3>1. Phases' /\ Queues' /\ Messages' /\ Links'
      BY TypeParts DEF Phases, Queues, Messages, Links
    <3>2. Flags'
      BY TypeParts DEF Flags
    <3> QED
      BY <3>1, <3>2, TypeParts
  <2>2. Consistent'
    BY DEF Consistent, Places, Probing, ToldHere, Retracted, Announced
  <2>3. GpKeysValid'
    BY DEF GpKeysValid
  <2> QED
    BY <2>1, <2>2, <2>3
<1> QED
  BY <1>1, <1>2, <1>3, <1>4, <1>5, <1>6, <1>7 DEF Next, Finished

\* So it holds always.
LEMMA InvHolds == Spec => []TunnelInv
  BY InitInv, StepInv, PTL DEF Spec

\* Types, with the bound on the queue of the tun device: a packet is taken from the device
\* only while queued packets and control messages together leave room.
THEOREM TypeCorrect == Spec => []TypeOK
<1>1. TunnelInv => TypeOK
  BY DEF TunnelInv
<1> QED
  BY <1>1, InvHolds, PTL

\* A server that sends over UDP is never left without the message that the client has
\* given it up, in whatever order writes stall, sockets fail and tunnels are renewed.
THEOREM ServersAreNotMisled == Spec => []ServerNotMisled
<1>1. TunnelInv => ServerNotMisled
  BY DEF TunnelInv, TypeOK, Consistent, ToldHere, Retracted, Announced, Disable, ServerNotMisled
<1> QED
  BY <1>1, InvHolds, PTL

\* GlobalProtect's ESP is in use only with keys that the gateway has not forgotten.
THEOREM GpKeysAreValid == Spec => []GpKeysValid
<1>1. TunnelInv => GpKeysValid
  BY DEF TunnelInv
<1> QED
  BY <1>1, InvHolds, PTL

=============================================================================
