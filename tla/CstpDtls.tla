------------------------------ MODULE CstpDtls ------------------------------
(***************************************************************************)
(* The AnyConnect data path: dtls_mainloop(), cstp_mainloop() and the tun  *)
(* device taken in turn by one thread, with one outgoing queue between     *)
(* them.  A packet leaves over DTLS when that is up and over TLS when not. *)
(* A TLS write that returns -EAGAIN has to be repeated with the same data, *)
(* so the packet stays in current_ssl_pkt; a DTLS write does not, and its  *)
(* packet goes back to the head of the queue.  Compressed packets share    *)
(* one buffer, deflate_pkt.                                                *)
(*                                                                         *)
(* Packets are numbered in the order the tun device hands them over.       *)
(* What the peer sends matters only where the client reacts to it.         *)
(***************************************************************************)
EXTENDS Integers, Sequences, FiniteSets

CONSTANTS
  Packets,     \* how many packets the tun device has for us
  MaxQlen,     \* max_qlen
  CstpCompr,   \* cstp_compr: "none", "lzs" or "deflate"
  DtlsCompr,   \* dtls_compr: "none" or "lzs"
  SslRekey,    \* ssl_times.rekey_method: "none", "tunnel" or "ssl"; a new tunnel
               \* is a reconnection like any other
  DtlsRekey,   \* dtls_times.rekey_method
  MaxSid       \* bound: DTLS session ids the server hands out

ASSUME CstpDtlsAssumption ==
  /\ Packets \in Nat /\ MaxQlen \in Nat \ {0} /\ MaxSid \in Nat
  /\ CstpCompr \in {"none", "lzs", "deflate"} /\ DtlsCompr \in {"none", "lzs"}
  /\ SslRekey \in {"none", "tunnel", "ssl"} /\ DtlsRekey \in {"none", "tunnel", "ssl"}

VARIABLES
  pc,                    \* where the thread is
  outgoing_queue,
  next,                  \* the packet the tun device hands over next
  tun_monitored,         \* the loop watches the tun device for packets
  current_ssl_pkt,       \* what the next TLS write writes, and a number if it is data
  pending_deflated_pkt,  \* the packet that is in deflate_pkt while CSTP writes that; 0: none
  deflate_pkt,           \* whose compressed form the buffer holds
  owe_ssl_dpd_response,
  ssl_up,                \* there is a TLS session
  stalled,               \* the data of a TLS write that returned -EAGAIN
  dtls_state,
  dtls_need_reconnect,
  dtls_session_id,       \* the id the server last gave
  dtls_on,               \* history: the id the DTLS connection was made with
  sentTls, sentDtls,     \* history: packets written, in order
  deflated,              \* history: packets fed to this connection's deflate stream
  inflated               \* history: those the peer has been sent

queueVars == <<outgoing_queue, next, tun_monitored>>
bufVars   == <<current_ssl_pkt, pending_deflated_pkt, deflate_pkt>>
dtlsVars  == <<dtls_state, dtls_need_reconnect, dtls_session_id, dtls_on>>
tlsVars   == <<ssl_up, stalled, owe_ssl_dpd_response>>
sentVars  == <<sentTls, sentDtls, deflated, inflated>>
vars == <<pc, queueVars, bufVars, dtlsVars, tlsVars, sentVars>>

Packet == 1 .. Packets
Pkt(kind, p) == [kind |-> kind, pkt |-> p]
NoPkt == Pkt("none", 0)
Special == {Pkt(kind, 0) : kind \in {"dpd", "dpd_resp", "keepalive"}}

DtlsStates == {"DISABLED", "SLEEPING", "CONNECTING", "CONNECTED", "ESTABLISHED"}
AboveSleeping == dtls_state \in {"CONNECTING", "CONNECTED", "ESTABLISHED"}

TypeOK ==
  /\ pc \in {"udp", "udp_out", "tcp", "write", "idle", "send", "reconnect", "tun", "quit", "done"}
  /\ outgoing_queue \in Seq(Packet)
  /\ Len(outgoing_queue) <= MaxQlen + (IF CstpCompr = "deflate" THEN 1 ELSE 0)
  /\ next \in 1 .. Packets + 1 /\ tun_monitored \in BOOLEAN
  /\ current_ssl_pkt \in {NoPkt} \cup Special \cup {Pkt("data", p) : p \in Packet}
                           \cup {Pkt("deflate", 0)}
  /\ pending_deflated_pkt \in 0 .. Packets /\ deflate_pkt \in 0 .. Packets
  /\ owe_ssl_dpd_response \in BOOLEAN /\ ssl_up \in BOOLEAN /\ dtls_need_reconnect \in BOOLEAN
  /\ stalled \in {NoPkt} \cup Special \cup {Pkt(k, p) : k \in {"data", "deflate"}, p \in Packet}
  /\ dtls_state \in DtlsStates
  /\ dtls_session_id \in 0 .. MaxSid /\ dtls_on \in 0 .. MaxSid
  /\ \A s \in {sentTls, sentDtls, deflated, inflated} : s \in Seq(Packet)

\* openconnect_make_cstp_connection() and openconnect_setup_dtls() are done.
Init ==
  /\ pc = "udp"
  /\ outgoing_queue = <<>> /\ next = 1 /\ tun_monitored = TRUE
  /\ current_ssl_pkt = NoPkt /\ pending_deflated_pkt = 0 /\ deflate_pkt = 0
  /\ owe_ssl_dpd_response = FALSE /\ ssl_up = TRUE /\ stalled = NoPkt
  /\ dtls_state \in {"DISABLED", "SLEEPING", "CONNECTING", "CONNECTED"}
  /\ dtls_need_reconnect = FALSE /\ dtls_session_id = 0 /\ dtls_on = 0
  /\ sentTls = <<>> /\ sentDtls = <<>> /\ deflated = <<>> /\ inflated = <<>>

-----------------------------------------------------------------------------
\* dtls_mainloop()

\* dtls_close() and connect_dtls_socket(): with the session id of the day; the
\* handshake is under way, done, failed or refused for good.
ConnectDtls ==
  /\ dtls_state' \in {"CONNECTING", "CONNECTED", "SLEEPING", "DISABLED"}
  /\ dtls_on' = dtls_session_id

UdpDisabled ==
  /\ pc = "udp" /\ dtls_state = "DISABLED"
  /\ pc' = "tcp"
  /\ UNCHANGED <<queueVars, bufVars, dtlsVars, tlsVars, sentVars>>

UdpReconnects ==
  /\ pc = "udp" /\ dtls_state # "DISABLED" /\ dtls_need_reconnect
  /\ dtls_need_reconnect' = FALSE
  /\ ConnectDtls
  /\ pc' = "tcp"
  /\ UNCHANGED <<dtls_session_id, queueVars, bufVars, tlsVars, sentVars>>

\* dtls_try_handshake() on the connection there is.
UdpHandshakes ==
  /\ pc = "udp" /\ dtls_state = "CONNECTING" /\ ~ dtls_need_reconnect
  /\ dtls_state' \in {"CONNECTING", "CONNECTED", "SLEEPING", "DISABLED"}
  /\ pc' = "tcp"
  /\ UNCHANGED <<dtls_need_reconnect, dtls_session_id, dtls_on, queueVars, bufVars, tlsVars, sentVars>>

\* Sleep on, or attempt a new connection.
UdpSleeps ==
  /\ pc = "udp" /\ dtls_state = "SLEEPING" /\ ~ dtls_need_reconnect
  /\ ConnectDtls \/ UNCHANGED <<dtls_state, dtls_on>>
  /\ pc' = "tcp"
  /\ UNCHANGED <<dtls_need_reconnect, dtls_session_id, queueVars, bufVars, tlsVars, sentVars>>

DtlsUp == /\ pc = "udp" /\ dtls_state \in {"CONNECTED", "ESTABLISHED"} /\ ~ dtls_need_reconnect

\* Packets are read, a DPD or keepalive sent if due, and the queue is next.
UdpQuiet ==
  /\ DtlsUp
  /\ dtls_state' = "ESTABLISHED"
  /\ pc' = "udp_out"
  /\ UNCHANGED <<dtls_need_reconnect, dtls_session_id, dtls_on, queueVars, bufVars, tlsVars, sentVars>>

\* A compressed packet although none was agreed on ends the session.
UdpUnknownPacket ==
  /\ DtlsUp /\ DtlsCompr = "none"
  /\ dtls_state' = "ESTABLISHED"
  /\ pc' = "quit"
  /\ UNCHANGED <<dtls_need_reconnect, dtls_session_id, dtls_on, queueVars, bufVars, tlsVars, sentVars>>

\* KA_REKEY: for REKEY_SSL a handshake, and a new connection when that fails;
\* for REKEY_TUNNEL nothing.
UdpRekeys ==
  /\ DtlsUp /\ DtlsRekey # "none"
  /\ IF DtlsRekey = "ssl"
     THEN \/ dtls_state' \in {"CONNECTING", "CONNECTED"} /\ UNCHANGED dtls_on
          \/ ConnectDtls
     ELSE dtls_state' = "ESTABLISHED" /\ UNCHANGED dtls_on
  /\ pc' = "tcp"
  /\ UNCHANGED <<dtls_need_reconnect, dtls_session_id, queueVars, bufVars, tlsVars, sentVars>>

UdpPeerDead ==
  /\ DtlsUp
  /\ ConnectDtls
  /\ pc' = "tcp"
  /\ UNCHANGED <<dtls_need_reconnect, dtls_session_id, queueVars, bufVars, tlsVars, sentVars>>

\* Broken on purpose: the shared buffer is taken although CSTP is writing it.
DtlsCompress_TakesBuffer(p) ==
  deflate_pkt' \in IF DtlsCompr = "lzs" THEN {p, deflate_pkt} ELSE {deflate_pkt}

\* The packet may be compressed into deflate_pkt, which fails for small ones,
\* unless CSTP has a compressed packet pending there.
DtlsCompress(p) ==
  deflate_pkt' \in IF DtlsCompr = "lzs" /\ current_ssl_pkt.kind # "deflate"
                   THEN {p, deflate_pkt} ELSE {deflate_pkt}

UdpSends ==
  /\ pc = "udp_out" /\ outgoing_queue # <<>>
  /\ DtlsCompress(Head(outgoing_queue))
  /\ sentDtls' = Append(sentDtls, Head(outgoing_queue))
  /\ outgoing_queue' = Tail(outgoing_queue)
  /\ UNCHANGED <<pc, next, tun_monitored, current_ssl_pkt, pending_deflated_pkt, dtlsVars, tlsVars,
                 sentTls, deflated, inflated>>

\* -EAGAIN: the packet is requeued at the head.
UdpSendStalls ==
  /\ pc = "udp_out" /\ outgoing_queue # <<>>
  /\ DtlsCompress(Head(outgoing_queue))
  /\ pc' = "tcp"
  /\ UNCHANGED <<queueVars, current_ssl_pkt, pending_deflated_pkt, dtlsVars, tlsVars, sentVars>>

\* A real error: requeued, and DTLS is restarted.
UdpSendFails ==
  /\ pc = "udp_out" /\ outgoing_queue # <<>>
  /\ DtlsCompress(Head(outgoing_queue))
  /\ ConnectDtls
  /\ pc' = "tcp"
  /\ UNCHANGED <<queueVars, current_ssl_pkt, pending_deflated_pkt, dtls_need_reconnect,
                 dtls_session_id, tlsVars, sentVars>>

UdpSentAll ==
  /\ pc = "udp_out" /\ outgoing_queue = <<>>
  /\ pc' = "tcp"
  /\ UNCHANGED <<queueVars, bufVars, dtlsVars, tlsVars, sentVars>>

-----------------------------------------------------------------------------
\* cstp_mainloop()

TcpReadsDpdRequest ==
  /\ pc = "tcp" /\ ssl_up
  /\ owe_ssl_dpd_response' = TRUE
  /\ UNCHANGED <<pc, ssl_up, stalled, queueVars, bufVars, dtlsVars, sentVars>>

\* Nothing more to read: on with a write that is pending, or else to what is due.
TcpReadsAll ==
  /\ pc = "tcp" /\ ssl_up
  /\ pc' = IF current_ssl_pkt # NoPkt THEN "write" ELSE "idle"
  /\ UNCHANGED <<queueVars, bufVars, dtlsVars, tlsVars, sentVars>>

\* A disconnect from the server, a packet that is not understood, or a write
\* that was short.
TcpEnds ==
  /\ pc \in {"tcp", "write"} /\ ssl_up
  /\ pc' = "quit"
  /\ UNCHANGED <<queueVars, bufVars, dtlsVars, tlsVars, sentVars>>

\* A read fails, there is no connection to read from, the peer is dead, or a
\* new tunnel is due.
TcpLost ==
  /\ pc = "tcp" \/ (pc = "idle" /\ ~ owe_ssl_dpd_response)
  /\ pc' = "reconnect"
  /\ UNCHANGED <<queueVars, bufVars, dtlsVars, tlsVars, sentVars>>

\* What ssl_nonblock_write() is given.
Data == IF current_ssl_pkt.kind = "deflate" THEN Pkt("deflate", deflate_pkt) ELSE current_ssl_pkt

WriteDone ==
  /\ pc = "write"
  /\ sentTls' = IF Data.pkt # 0 THEN Append(sentTls, Data.pkt) ELSE sentTls
  /\ inflated' = IF Data.kind = "deflate" THEN Append(inflated, Data.pkt) ELSE inflated
  /\ pending_deflated_pkt' = IF Data.kind = "deflate" THEN 0 ELSE pending_deflated_pkt
  /\ current_ssl_pkt' = NoPkt
  /\ stalled' = NoPkt
  /\ pc' = "idle"
  /\ UNCHANGED <<deflate_pkt, queueVars, dtlsVars, ssl_up, owe_ssl_dpd_response, sentDtls, deflated>>

\* Broken on purpose: what could not be written is given up.
WriteStalls_GivesUp ==
  /\ pc = "write"
  /\ stalled' = Data
  /\ current_ssl_pkt' = NoPkt
  /\ pc' \in {"tun", "reconnect"}
  /\ UNCHANGED <<queueVars, pending_deflated_pkt, deflate_pkt, dtlsVars, ssl_up,
                 owe_ssl_dpd_response, sentVars>>

\* -EAGAIN: wait, unless DPD finds the peer dead.
WriteStalls ==
  /\ pc = "write"
  /\ stalled' = Data
  /\ pc' \in {"tun", "reconnect"}
  /\ UNCHANGED <<queueVars, bufVars, dtlsVars, ssl_up, owe_ssl_dpd_response, sentVars>>

WriteFails ==
  /\ pc = "write"
  /\ pc' = "reconnect"
  /\ UNCHANGED <<queueVars, bufVars, dtlsVars, tlsVars, sentVars>>

\* "Rekey DTLS, if it is not rekeying itself."
NeedsReconnect == AboveSleeping /\ DtlsRekey = "none"

\* The TLS session is rekeyed in place, also while a write is stalled.
TlsRekeys ==
  /\ SslRekey = "ssl"
  /\ \/ pc = "idle" /\ ~ owe_ssl_dpd_response /\ UNCHANGED stalled
     \/ pc = "write" /\ stalled' = Data
  /\ dtls_need_reconnect' = (dtls_need_reconnect \/ NeedsReconnect)
  /\ pc' = "tun"
  /\ UNCHANGED <<dtls_state, dtls_session_id, dtls_on, queueVars, bufVars, ssl_up,
                 owe_ssl_dpd_response, sentVars>>

\* Whether cstp_mainloop() services the queue.
TlsMaySend == dtls_state # "CONNECTED"

\* One of the packets that never change is next.
SpecialDue(kind) ==
  /\ pc = "idle"
  /\ current_ssl_pkt' = Pkt(kind, 0)
  /\ pc' = "write"
  /\ UNCHANGED <<pending_deflated_pkt, deflate_pkt, queueVars, dtlsVars, ssl_up, stalled, sentVars>>

DpdResponse == SpecialDue("dpd_resp") /\ owe_ssl_dpd_response /\ owe_ssl_dpd_response' = FALSE
Dpd         == SpecialDue("dpd") /\ ~ owe_ssl_dpd_response /\ UNCHANGED owe_ssl_dpd_response
Keepalive   == /\ SpecialDue("keepalive") /\ ~ owe_ssl_dpd_response
               /\ ~ TlsMaySend \/ outgoing_queue = <<>>
               /\ UNCHANGED owe_ssl_dpd_response

\* Nothing special is due, or a keepalive that real data make unnecessary.
NothingDue ==
  /\ pc = "idle" /\ ~ owe_ssl_dpd_response
  /\ pc' = "send"
  /\ UNCHANGED <<queueVars, bufVars, dtlsVars, tlsVars, sentVars>>

\* The head of the queue becomes current_ssl_pkt, compressed or as it is.  LZS
\* refuses small packets; a deflate stream takes all.
SendPlain ==
  /\ pc = "send" /\ TlsMaySend /\ outgoing_queue # <<>>
  /\ CstpCompr # "deflate"
  /\ current_ssl_pkt' = Pkt("data", Head(outgoing_queue))
  /\ outgoing_queue' = Tail(outgoing_queue)
  /\ pc' = "write"
  /\ UNCHANGED <<next, tun_monitored, pending_deflated_pkt, deflate_pkt, dtlsVars, tlsVars, sentVars>>

SendCompressed ==
  /\ pc = "send" /\ TlsMaySend /\ outgoing_queue # <<>>
  /\ CstpCompr # "none"
  /\ current_ssl_pkt' = Pkt("deflate", 0)
  /\ deflate_pkt' = Head(outgoing_queue)
  /\ pending_deflated_pkt' = Head(outgoing_queue)
  /\ deflated' = Append(deflated, Head(outgoing_queue))
  /\ outgoing_queue' = Tail(outgoing_queue)
  /\ pc' = "write"
  /\ UNCHANGED <<next, tun_monitored, dtlsVars, tlsVars, sentTls, sentDtls, inflated>>

SendNothing ==
  /\ pc = "send"
  /\ ~ TlsMaySend \/ outgoing_queue = <<>>
  /\ pc' = "tun"
  /\ UNCHANGED <<queueVars, bufVars, dtlsVars, tlsVars, sentVars>>

\* Broken on purpose: the pending packet is sent on the new connection as it is.
RequeueDeflated_Keeps == UNCHANGED <<outgoing_queue, current_ssl_pkt, pending_deflated_pkt>>

\* cstp_reconnect(): what the old deflate stream compressed is of no use to the
\* next, so the original packet is queued again, behind the others.
RequeueDeflated ==
  IF CstpCompr = "deflate" /\ current_ssl_pkt.kind = "deflate"
  THEN /\ outgoing_queue' = Append(outgoing_queue, pending_deflated_pkt)
       /\ current_ssl_pkt' = NoPkt
       /\ pending_deflated_pkt' = 0
  ELSE UNCHANGED <<outgoing_queue, current_ssl_pkt, pending_deflated_pkt>>

\* A new TLS session, with new streams, and maybe with a new DTLS session id.
ReconnectWorks ==
  /\ pc = "reconnect"
  /\ RequeueDeflated
  /\ stalled' = NoPkt
  /\ deflated' = <<>> /\ inflated' = <<>>
  /\ dtls_session_id' \in {dtls_session_id, dtls_session_id + 1} \cap 0 .. MaxSid
  /\ dtls_need_reconnect' = \/ dtls_need_reconnect \/ NeedsReconnect
                            \/ AboveSleeping /\ dtls_session_id' # dtls_session_id
  /\ ssl_up' = TRUE
  /\ pc' = "tun"
  /\ UNCHANGED <<next, tun_monitored, deflate_pkt, dtls_state, dtls_on, owe_ssl_dpd_response,
                 sentTls, sentDtls>>

ReconnectFails ==
  /\ pc = "reconnect"
  /\ RequeueDeflated
  /\ ssl_up' = FALSE
  /\ deflated' = <<>> /\ inflated' = <<>>
  /\ pc' = "quit"
  /\ UNCHANGED <<next, tun_monitored, deflate_pkt, dtlsVars, stalled, owe_ssl_dpd_response, sentTls, sentDtls>>

-----------------------------------------------------------------------------
\* The tun device and the loop around all three.

\* tun_mainloop() reads until the queue is full, and then ceases to watch.
TunReads ==
  /\ pc = "tun" /\ next <= Packets /\ tun_monitored
  /\ outgoing_queue' = Append(outgoing_queue, next)
  /\ next' = next + 1
  /\ tun_monitored' = (Len(outgoing_queue') < MaxQlen)
  /\ UNCHANGED <<pc, bufVars, dtlsVars, tlsVars, sentVars>>

\* Broken on purpose: the device is not watched again.
TunDone_Forgets ==
  /\ pc = "tun"
  /\ pc' = "udp"
  /\ UNCHANGED <<queueVars, bufVars, dtlsVars, tlsVars, sentVars>>

\* The device is watched again when there is room.
TunDone ==
  /\ pc = "tun"
  /\ tun_monitored' = (tun_monitored \/ Len(outgoing_queue) < MaxQlen)
  /\ pc' = "udp"
  /\ UNCHANGED <<outgoing_queue, next, bufVars, dtlsVars, tlsVars, sentVars>>

\* A pause closes everything; the next call finds no TLS connection.
Pause ==
  /\ pc = "tun"
  /\ dtls_state' = IF dtls_state = "DISABLED" THEN "DISABLED" ELSE "SLEEPING"
  /\ ssl_up' = FALSE /\ stalled' = NoPkt
  /\ pc' = "udp"
  /\ UNCHANGED <<dtls_need_reconnect, dtls_session_id, dtls_on, queueVars, bufVars,
                 owe_ssl_dpd_response, sentVars>>

Cancel ==
  /\ pc = "tun"
  /\ pc' = "quit"
  /\ UNCHANGED <<queueVars, bufVars, dtlsVars, tlsVars, sentVars>>

\* cstp_bye() writes a packet of its own if there is a session, and tries once.
Bye ==
  /\ pc = "quit"
  /\ pc' = "done"
  /\ UNCHANGED <<queueVars, bufVars, dtlsVars, tlsVars, sentVars>>

Finished == pc = "done" /\ UNCHANGED vars

dtls_mainloop ==
  \/ UdpDisabled \/ UdpReconnects \/ UdpHandshakes \/ UdpSleeps \/ UdpQuiet \/ UdpUnknownPacket
  \/ UdpRekeys \/ UdpPeerDead \/ UdpSends \/ UdpSendStalls \/ UdpSendFails \/ UdpSentAll

cstp_mainloop ==
  \/ TcpReadsDpdRequest \/ TcpReadsAll \/ TcpEnds \/ TcpLost
  \/ WriteDone \/ WriteStalls \/ WriteFails \/ TlsRekeys
  \/ DpdResponse \/ Dpd \/ Keepalive \/ NothingDue
  \/ SendPlain \/ SendCompressed \/ SendNothing \/ ReconnectWorks \/ ReconnectFails

Next ==
  dtls_mainloop \/ cstp_mainloop \/ TunReads \/ TunDone \/ Pause \/ Cancel \/ Bye \/ Finished

\* The loop runs and the tun device that has packets is read.  DPD requests come
\* seconds apart and leave rounds without one, no keepalive is due in every
\* round, and a write that is repeated works in the end.
Fairness ==
  /\ WF_vars(Next) /\ WF_vars(TunDone) /\ SF_vars(TunReads) /\ SF_vars(NothingDue) /\ SF_vars(WriteDone)
  /\ SF_vars(~ owe_ssl_dpd_response /\ TcpReadsAll)
  /\ SF_vars(~ owe_ssl_dpd_response /\ WriteDone)

Spec == Init /\ [][Next]_vars /\ Fairness

-----------------------------------------------------------------------------
Times(p, s) == Cardinality({i \in DOMAIN s : s[i] = p})

\* A packet taken from the tun device is queued, or being written, or written
\* once over one of the two transports: stalls, reconnections, compression and
\* changes of transport neither lose nor repeat one.
EachPacketOnce ==
  \A p \in 1 .. next - 1 :
    Times(p, outgoing_queue) + Times(p, sentTls) + Times(p, sentDtls)
      + (IF current_ssl_pkt = Pkt("data", p) THEN 1 ELSE 0)
      + (IF pending_deflated_pkt = p THEN 1 ELSE 0) = 1

\* A TLS write that returned -EAGAIN is repeated with the same data, whatever
\* DTLS does to the shared buffer and however many rounds pass.
StalledWriteRetried == pc = "write" /\ stalled # NoPkt => Data = stalled

\* The peer's inflate stream gets exactly what this connection's deflate stream
\* was fed, in order: a stream is of use only if nothing is left out.
StreamsInStep ==
  CstpCompr = "deflate" =>
    deflated = inflated \o (IF current_ssl_pkt.kind = "deflate" THEN <<pending_deflated_pkt>>
                                                                ELSE <<>>)

\* DTLS never goes on with a session the server has replaced: either it was made
\* with the current id or it is about to be made anew.
DtlsFollowsSession ==
  AboveSleeping /\ dtls_on # dtls_session_id => dtls_need_reconnect

\* A connection is lost, replaced or closed.
Trouble == TcpLost \/ WriteFails \/ (WriteStalls /\ pc' = "reconnect") \/ Pause \/ TlsRekeys
             \/ UdpRekeys \/ UdpPeerDead \/ UdpSendFails

\* Once the connections are left alone, every packet is taken from the tun
\* device and sent, unless the session ends first; also when DTLS is up and never
\* takes one.
AllSent ==
  <>[][~ Trouble]_vars =>
    \A p \in Packet : <>(Times(p, sentTls) + Times(p, sentDtls) > 0 \/ pc = "done")
=============================================================================
