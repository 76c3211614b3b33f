-------------------------- MODULE CstpDtls_proofs --------------------------
(***************************************************************************)
(* CstpDtls for any number of packets, any length of queue and every       *)
(* choice of compression and rekeying: what deflate_pkt holds while TLS    *)
(* has to write it, the deflate streams across reconnections, the DTLS     *)
(* session id, how long the queue gets, and where each packet is.          *)
(***************************************************************************)
EXTENDS CstpDtls, FiniteSetTheorems, FunctionTheorems, TLAPS

\* TypeOK in parts: truth values, single values, sequences.
FlagsOK ==
  /\ owe_ssl_dpd_response \in BOOLEAN /\ ssl_up \in BOOLEAN
  /\ dtls_need_reconnect \in BOOLEAN /\ tun_monitored \in BOOLEAN

ValuesOK ==
  /\ pc \in {"udp", "udp_out", "tcp", "write", "idle", "send", "reconnect", "tun", "quit", "done"}
  /\ next \in 1 .. Packets + 1
  /\ current_ssl_pkt \in {NoPkt} \cup Special \cup {Pkt("data", p) : p \in Packet}
                           \cup {Pkt("deflate", 0)}
  /\ pending_deflated_pkt \in 0 .. Packets /\ deflate_pkt \in 0 .. Packets
  /\ stalled \in {NoPkt} \cup Special \cup {Pkt(k, p) : k \in {"data", "deflate"}, p \in Packet}
  /\ dtls_state \in DtlsStates
  /\ dtls_session_id \in 0 .. MaxSid /\ dtls_on \in 0 .. MaxSid

SeqsOK ==
  /\ outgoing_queue \in Seq(Packet)
  /\ sentTls \in Seq(Packet) /\ sentDtls \in Seq(Packet)
  /\ deflated \in Seq(Packet) /\ inflated \in Seq(Packet)

\* A compressed packet that is to be written is the one that is pending, there is
\* no pending one otherwise, and nothing is to be written where the next packet
\* is chosen.
BufferHeld ==
  /\ current_ssl_pkt.kind = "deflate"
       => pending_deflated_pkt \in Packet /\ deflate_pkt = pending_deflated_pkt
  /\ current_ssl_pkt.kind # "deflate" => pending_deflated_pkt = 0
  /\ pc \in {"idle", "send"} => current_ssl_pkt = NoPkt
  /\ pc = "write" => current_ssl_pkt # NoPkt

\* EachPacketOnce, with the packets that have not been taken from the tun device.
Places(p) ==
  Times(p, outgoing_queue) + Times(p, sentTls) + Times(p, sentDtls)
    + (IF current_ssl_pkt = Pkt("data", p) THEN 1 ELSE 0)
    + (IF pending_deflated_pkt = p THEN 1 ELSE 0)

Counted == \A p \in Packet : Places(p) = IF p < next THEN 1 ELSE 0

\* StalledWriteRetried, wherever the thread is.
StalledKept ==
  stalled # NoPkt /\ pc \notin {"quit", "done"} => Data = stalled /\ pc \notin {"idle", "send"}

Deflating == IF CstpCompr = "deflate" /\ current_ssl_pkt.kind = "deflate" THEN 1 ELSE 0
OneMore   == IF CstpCompr = "deflate" THEN 1 ELSE 0

\* A deflated packet still counts for the queue, to which it may return; and
\* that can happen once between the tests of tun_mainloop().
QueueBounded ==
  /\ Len(outgoing_queue) + Deflating <= MaxQlen + OneMore
  /\ tun_monitored => Len(outgoing_queue) + Deflating < MaxQlen + OneMore

IInv ==
  /\ FlagsOK /\ ValuesOK /\ SeqsOK
  /\ BufferHeld /\ StalledKept /\ StreamsInStep /\ DtlsFollowsSession /\ QueueBounded
  /\ Counted

USE CstpDtlsAssumption DEF CstpDtlsAssumption

\* The packets that never change are not compressed data, and neither is none.
LEMMA Kinds ==
  /\ \A k1, k2, p1, p2 : Pkt(k1, p1) = Pkt(k2, p2) <=> k1 = k2 /\ p1 = p2
  /\ \A k, p : Pkt(k, p).kind = k /\ Pkt(k, p).pkt = p
  /\ NoPkt.kind = "none" /\ NoPkt.pkt = 0
  /\ \A s \in Special : s.kind \in {"dpd", "dpd_resp", "keepalive"} /\ s.pkt = 0 /\ s # NoPkt
BY DEF Pkt, NoPkt, Special

\* Taking the head off the queue and putting a packet behind it.
LEMMA QueueOps ==
  /\ outgoing_queue \in Seq(Packet) /\ outgoing_queue # <<>>
       => /\ Head(outgoing_queue) \in Packet /\ Tail(outgoing_queue) \in Seq(Packet)
          /\ Len(Tail(outgoing_queue)) = Len(outgoing_queue) - 1 /\ Len(outgoing_queue) > 0
  /\ \A s \in Seq(Packet), p \in Packet :
       Append(s, p) \in Seq(Packet) /\ Len(Append(s, p)) = Len(s) + 1
  /\ \A s \in Seq(Packet), p \in Packet : s \o <<p>> = Append(s, p)
  /\ \A s \in Seq(Packet) : s \o <<>> = s
OBVIOUS

\* A packet is once more in a sequence that it is appended to, ...
LEMMA TimesAppend ==
  ASSUME NEW s \in Seq(Packet), NEW e \in Packet, NEW p
  PROVE  Times(p, Append(s, e)) = Times(p, s) + (IF e = p THEN 1 ELSE 0) /\ Times(p, s) \in Nat
<1> DEFINE At(t) == {i \in DOMAIN t : t[i] = p}
           n == Len(s) + 1
<1>1. /\ DOMAIN s = 1 .. Len(s) /\ DOMAIN Append(s, e) = 1 .. n /\ Len(s) \in Nat
      /\ Append(s, e)[n] = e /\ \A i \in 1 .. Len(s) : Append(s, e)[i] = s[i]
  OBVIOUS
<1>2. IsFiniteSet(At(s)) /\ Cardinality(At(s)) \in Nat
  <2>1. IsFiniteSet(1 .. Len(s))
    BY <1>1, FS_Interval
  <2> QED
    BY <1>1, <2>1, FS_Subset, FS_CardinalityType
<1>3. At(Append(s, e)) = IF e = p THEN At(s) \cup {n} ELSE At(s)
  BY <1>1
<1>4. n \notin At(s)
  BY <1>1
<1>5. Cardinality(At(s) \cup {n}) = Cardinality(At(s)) + 1
  BY <1>2, <1>4, FS_AddElement
<1>6. Times(p, s) = Cardinality(At(s)) /\ Times(p, Append(s, e)) = Cardinality(At(Append(s, e)))
  BY DEF Times
<1> HIDE DEF At, n
<1> QED
  BY <1>2, <1>3, <1>5, <1>6

\* ... and once less in one that it was the head of.
LEMMA TimesTail ==
  ASSUME NEW s \in Seq(Packet), s # <<>>, NEW p
  PROVE  Times(p, Tail(s)) = Times(p, s) - (IF Head(s) = p THEN 1 ELSE 0)
<1> DEFINE At(t) == {i \in DOMAIN t : t[i] = p}
           f == [i \in At(Tail(s)) |-> i + 1]
<1>1. /\ DOMAIN s = 1 .. Len(s) /\ Len(s) \in Nat \ {0} /\ DOMAIN Tail(s) = 1 .. Len(s) - 1
      /\ Head(s) = s[1] /\ \A i \in 1 .. Len(s) - 1 : Tail(s)[i] = s[i + 1]
  OBVIOUS
<1>2. IsFiniteSet(At(s)) /\ IsFiniteSet(At(Tail(s))) /\ Cardinality(At(s)) \in Nat
  <2>1. IsFiniteSet(1 .. Len(s)) /\ IsFiniteSet(1 .. Len(s) - 1)
    BY <1>1, FS_Interval
  <2> QED
    BY <1>1, <2>1, FS_Subset, FS_CardinalityType
<1>3. f \in Bijection(At(Tail(s)), At(s) \ {1})
  <2>1. f \in [At(Tail(s)) -> At(s) \ {1}]
    BY <1>1
  <2>2. \A i, j \in At(Tail(s)) : f[i] = f[j] => i = j
    BY <1>1
  <2>3. \A j \in At(s) \ {1} : \E i \in At(Tail(s)) : f[i] = j
    <3> SUFFICES ASSUME NEW j \in At(s) \ {1} PROVE \E i \in At(Tail(s)) : f[i] = j
      OBVIOUS
    <3>1. j - 1 \in At(Tail(s)) /\ f[j - 1] = j
      BY <1>1
    <3> QED
      BY <3>1
  <2> HIDE DEF At, f
  <2> QED
    BY <2>1, <2>2, <2>3, Fun_IsBij
<1>4. Cardinality(At(Tail(s))) = Cardinality(At(s) \ {1})
  <2> HIDE DEF At, f
  <2> QED
    BY <1>2, <1>3, FS_Bijection DEF ExistsBijection
<1>5. Cardinality(At(s) \ {1}) = IF 1 \in At(s) THEN Cardinality(At(s)) - 1 ELSE Cardinality(At(s))
  BY <1>2, FS_RemoveElement
<1>6. 1 \in At(s) <=> Head(s) = p
  BY <1>1
<1>7. Times(p, s) = Cardinality(At(s)) /\ Times(p, Tail(s)) = Cardinality(At(Tail(s)))
  BY DEF Times
<1> HIDE DEF At
<1> QED
  BY <1>2, <1>4, <1>5, <1>6, <1>7

LEMMA InitIInv == Init => IInv
<1> SUFFICES ASSUME Init PROVE IInv
  OBVIOUS
<1> USE DEF Init
<1>1. FlagsOK /\ DtlsFollowsSession
  BY DEF FlagsOK, DtlsFollowsSession
<1>2. SeqsOK
  BY DEF SeqsOK
<1>3. ValuesOK
  BY DEF ValuesOK, DtlsStates
<1>4. BufferHeld /\ StalledKept
  BY Kinds DEF BufferHeld, StalledKept
<1>5. StreamsInStep /\ QueueBounded
  BY Kinds DEF StreamsInStep, QueueBounded, Deflating, OneMore
<1>6. Counted
  <2> SUFFICES ASSUME NEW p \in Packet PROVE Places(p) = 0
    BY DEF Counted, Packet
  <2>1. Times(p, <<>>) = 0
    BY FS_EmptySet DEF Times
  <2> QED
    BY <2>1, Kinds DEF Places, Packet
<1> QED
  BY <1>1, <1>2, <1>3, <1>4, <1>5, <1>6 DEF IInv

\* The flags are set and cleared, never anything else.
LEMMA FlagsStep == FlagsOK /\ [Next]_vars => FlagsOK'
<1> SUFFICES ASSUME FlagsOK, [Next]_vars PROVE FlagsOK'
  OBVIOUS
<1> USE DEF FlagsOK, queueVars, bufVars, dtlsVars, tlsVars, sentVars
<1>1. CASE UNCHANGED vars
  BY <1>1 DEF vars
<1>2. CASE UdpDisabled \/ UdpQuiet \/ UdpUnknownPacket
  BY <1>2 DEF UdpDisabled, UdpQuiet, UdpUnknownPacket, DtlsUp
<1>3. CASE UdpReconnects \/ UdpHandshakes \/ UdpSleeps
  BY <1>3 DEF UdpReconnects, UdpHandshakes, UdpSleeps, ConnectDtls
<1>4. CASE UdpRekeys \/ UdpPeerDead
  BY <1>4 DEF UdpRekeys, UdpPeerDead, DtlsUp, ConnectDtls
<1>5. CASE UdpSends
  BY <1>5 DEF UdpSends, DtlsCompress
<1>6. CASE UdpSendStalls
  BY <1>6 DEF UdpSendStalls, DtlsCompress
<1>7. CASE UdpSendFails
  BY <1>7 DEF UdpSendFails, DtlsCompress, ConnectDtls
<1>8. CASE UdpSentAll
  BY <1>8 DEF UdpSentAll
<1>9. CASE TcpReadsDpdRequest \/ TcpReadsAll \/ TcpEnds \/ TcpLost
  BY <1>9 DEF TcpReadsDpdRequest, TcpReadsAll, TcpEnds, TcpLost
<1>10. CASE WriteDone
  BY <1>10 DEF WriteDone, Data
<1>11. CASE WriteStalls \/ WriteFails
  BY <1>11 DEF WriteStalls, WriteFails, Data
<1>12. CASE TlsRekeys
  BY <1>12 DEF TlsRekeys, Data, NeedsReconnect
<1>13. CASE DpdResponse \/ Dpd \/ Keepalive
  BY <1>13 DEF DpdResponse, Dpd, Keepalive, SpecialDue
<1>14. CASE NothingDue \/ SendNothing
  BY <1>14 DEF NothingDue, SendNothing
<1>15. CASE SendPlain
  BY <1>15 DEF SendPlain
<1>16. CASE SendCompressed
  BY <1>16 DEF SendCompressed
<1>17. CASE ReconnectWorks
  BY <1>17 DEF ReconnectWorks, RequeueDeflated, NeedsReconnect
<1>18. CASE ReconnectFails
  BY <1>18 DEF ReconnectFails, RequeueDeflated
<1>19. CASE TunReads
  BY <1>19 DEF TunReads
<1>20. CASE TunDone
  BY <1>20 DEF TunDone
<1>21. CASE Pause
  BY <1>21 DEF Pause
<1>22. CASE Cancel \/ Bye
  BY <1>22 DEF Cancel, Bye
<1> QED
  BY <1>1, <1>2, <1>3, <1>4, <1>5, <1>6, <1>7, <1>8, <1>9, <1>10, <1>11, <1>12, <1>13,
     <1>14, <1>15, <1>16, <1>17, <1>18, <1>19, <1>20, <1>21, <1>22 DEF Next,
     dtls_mainloop, cstp_mainloop, Finished

\* No step leaves the ranges of the values.
LEMMA ValuesStep == ValuesOK /\ SeqsOK /\ BufferHeld /\ [Next]_vars => ValuesOK'
<1> SUFFICES ASSUME ValuesOK, SeqsOK, BufferHeld, [Next]_vars PROVE ValuesOK'
  OBVIOUS
<1> USE DEF ValuesOK, DtlsStates, queueVars, bufVars, dtlsVars, tlsVars, sentVars
<1>1. CASE UNCHANGED vars
  BY <1>1 DEF vars
<1>2. CASE UdpDisabled \/ UdpQuiet \/ UdpUnknownPacket
  BY <1>2 DEF UdpDisabled, UdpQuiet, UdpUnknownPacket, DtlsUp
<1>3. CASE UdpReconnects \/ UdpHandshakes \/ UdpSleeps
  BY <1>3 DEF UdpReconnects, UdpHandshakes, UdpSleeps, ConnectDtls
<1>4. CASE UdpRekeys \/ UdpPeerDead
  BY <1>4 DEF UdpRekeys, UdpPeerDead, DtlsUp, ConnectDtls
<1>0. ASSUME outgoing_queue # <<>>, DtlsCompress(Head(outgoing_queue))
      PROVE  deflate_pkt' \in 0 .. Packets
  <2>1. Head(outgoing_queue) \in 0 .. Packets
    BY <1>0, QueueOps DEF SeqsOK, Packet
  <2> QED
    BY <1>0, <2>1 DEF DtlsCompress
<1>5. CASE UdpSends
  BY <1>5, <1>0 DEF UdpSends
<1>6. CASE UdpSendStalls
  BY <1>6, <1>0 DEF UdpSendStalls
<1>7. CASE UdpSendFails
  <2>1. deflate_pkt' \in 0 .. Packets
    BY <1>7, <1>0 DEF UdpSendFails
  <2> QED
    BY <1>7, <2>1 DEF UdpSendFails, ConnectDtls
<1>8. CASE UdpSentAll
  BY <1>8 DEF UdpSentAll
<1>9. CASE TcpReadsDpdRequest \/ TcpReadsAll \/ TcpEnds \/ TcpLost
  BY <1>9 DEF TcpReadsDpdRequest, TcpReadsAll, TcpEnds, TcpLost
<1>10. CASE WriteDone
  BY <1>10 DEF WriteDone, Data
<1>11. CASE WriteStalls \/ WriteFails
  <2>1. CASE WriteFails
    BY <2>1 DEF WriteFails
  <2>2. CASE WriteStalls
    <3>1. Data \in {NoPkt} \cup Special \cup {Pkt(k, p) : k \in {"data", "deflate"}, p \in Packet}
      BY <2>2, Kinds DEF Data, BufferHeld
    <3> QED
      BY <2>2, <3>1 DEF WriteStalls
  <2> QED
    BY <1>11, <2>1, <2>2
<1>12. CASE TlsRekeys
  <2>1. Data \in {NoPkt} \cup Special \cup {Pkt(k, p) : k \in {"data", "deflate"}, p \in Packet}
    BY Kinds DEF Data, BufferHeld
  <2> QED
    BY <1>12, <2>1 DEF TlsRekeys
<1>13. CASE DpdResponse \/ Dpd \/ Keepalive
  BY <1>13 DEF DpdResponse, Dpd, Keepalive, SpecialDue, Special
<1>14. CASE NothingDue \/ SendNothing
  BY <1>14 DEF NothingDue, SendNothing
<1>15. CASE SendPlain
  BY <1>15, QueueOps DEF SendPlain, SeqsOK
<1>16. CASE SendCompressed
  BY SMTT(30), <1>16, QueueOps DEF SendCompressed, SeqsOK, Packet
<1>17. CASE ReconnectWorks
  BY <1>17 DEF ReconnectWorks, RequeueDeflated, NeedsReconnect
<1>18. CASE ReconnectFails
  BY <1>18 DEF ReconnectFails, RequeueDeflated
<1>19. CASE TunReads
  BY <1>19 DEF TunReads
<1>20. CASE TunDone
  BY <1>20 DEF TunDone
<1>21. CASE Pause
  BY <1>21 DEF Pause
<1>22. CASE Cancel \/ Bye
  BY <1>22 DEF Cancel, Bye
<1> QED
  BY <1>1, <1>2, <1>3, <1>4, <1>5, <1>6, <1>7, <1>8, <1>9, <1>10, <1>11, <1>12, <1>13,
     <1>14, <1>15, <1>16, <1>17, <1>18, <1>19, <1>20, <1>21, <1>22 DEF Next,
     dtls_mainloop, cstp_mainloop, Finished

\* Only packets are queued, written and compressed.
LEMMA SeqsStep == SeqsOK /\ ValuesOK /\ BufferHeld /\ [Next]_vars => SeqsOK'
<1> SUFFICES ASSUME SeqsOK, ValuesOK, BufferHeld, [Next]_vars PROVE SeqsOK'
  OBVIOUS
<1> USE DEF SeqsOK, queueVars, bufVars, dtlsVars, tlsVars, sentVars
<1>1. CASE UNCHANGED vars
  BY <1>1 DEF vars
<1>2. CASE UdpDisabled \/ UdpQuiet \/ UdpUnknownPacket
  BY <1>2 DEF UdpDisabled, UdpQuiet, UdpUnknownPacket, DtlsUp
<1>3. CASE UdpReconnects \/ UdpHandshakes \/ UdpSleeps
  BY <1>3 DEF UdpReconnects, UdpHandshakes, UdpSleeps, ConnectDtls
<1>4. CASE UdpRekeys \/ UdpPeerDead
  BY <1>4 DEF UdpRekeys, UdpPeerDead, DtlsUp, ConnectDtls
<1>5. CASE UdpSends
  BY <1>5, QueueOps DEF UdpSends
<1>6. CASE UdpSendStalls
  BY <1>6 DEF UdpSendStalls
<1>7. CASE UdpSendFails
  BY <1>7 DEF UdpSendFails
<1>8. CASE UdpSentAll
  BY <1>8 DEF UdpSentAll
<1>9. CASE TcpReadsDpdRequest \/ TcpReadsAll \/ TcpEnds \/ TcpLost
  BY <1>9 DEF TcpReadsDpdRequest, TcpReadsAll, TcpEnds, TcpLost
<1>10. CASE WriteDone
  <2>1. Data.pkt \in 0 .. Packets /\ (Data.kind = "deflate" => Data.pkt \in Packet)
    BY Kinds DEF Data, BufferHeld, ValuesOK, Packet
  <2> QED
    <3>1. sentTls' \in Seq(Packet)
      <4>1. CASE Data.pkt = 0
        BY <1>10, <4>1 DEF WriteDone
      <4>2. CASE Data.pkt # 0
        <5>1. Data.pkt \in Packet
          BY <2>1, <4>2 DEF Packet
        <5> QED
          BY <1>10, <4>2, <5>1, QueueOps DEF WriteDone
      <4> QED
        BY <4>1, <4>2
    <3>2. inflated' \in Seq(Packet)
      BY <1>10, <2>1, QueueOps DEF WriteDone
    <3> QED
      BY <1>10, <3>1, <3>2 DEF WriteDone
<1>11. CASE WriteStalls \/ WriteFails
  BY <1>11 DEF WriteStalls, WriteFails, Data
<1>12. CASE TlsRekeys
  BY <1>12 DEF TlsRekeys, Data, NeedsReconnect
<1>13. CASE DpdResponse \/ Dpd \/ Keepalive
  BY <1>13 DEF DpdResponse, Dpd, Keepalive, SpecialDue
<1>14. CASE NothingDue \/ SendNothing
  BY <1>14 DEF NothingDue, SendNothing
<1>15. CASE SendPlain
  BY <1>15, QueueOps DEF SendPlain
<1>16. CASE SendCompressed
  BY <1>16, QueueOps DEF SendCompressed
<1>17. CASE ReconnectWorks
  <2>1. outgoing_queue' \in Seq(Packet)
    BY <1>17, QueueOps DEF ReconnectWorks, RequeueDeflated, BufferHeld
  <2> QED
    BY <1>17, <2>1 DEF ReconnectWorks
<1>18. CASE ReconnectFails
  <2>1. outgoing_queue' \in Seq(Packet)
    BY <1>18, QueueOps DEF ReconnectFails, RequeueDeflated, BufferHeld
  <2> QED
    BY <1>18, <2>1 DEF ReconnectFails
<1>19. CASE TunReads
  BY <1>19, QueueOps DEF TunReads, ValuesOK, Packet
<1>20. CASE TunDone
  BY <1>20 DEF TunDone
<1>21. CASE Pause
  BY <1>21 DEF Pause
<1>22. CASE Cancel \/ Bye
  BY <1>22 DEF Cancel, Bye
<1> QED
  BY <1>1, <1>2, <1>3, <1>4, <1>5, <1>6, <1>7, <1>8, <1>9, <1>10, <1>11, <1>12, <1>13,
     <1>14, <1>15, <1>16, <1>17, <1>18, <1>19, <1>20, <1>21, <1>22 DEF Next,
     dtls_mainloop, cstp_mainloop, Finished

\* Nobody compresses into the buffer that TLS has to write.
LEMMA BufferStep == BufferHeld /\ ValuesOK /\ SeqsOK /\ [Next]_vars => BufferHeld'
<1> SUFFICES ASSUME BufferHeld, ValuesOK, SeqsOK, [Next]_vars PROVE BufferHeld'
  OBVIOUS
<1> USE DEF BufferHeld, queueVars, bufVars, dtlsVars, tlsVars, sentVars
<1>1. CASE UNCHANGED vars
  BY <1>1 DEF vars
<1>2. CASE UdpDisabled \/ UdpQuiet \/ UdpUnknownPacket
  BY <1>2 DEF UdpDisabled, UdpQuiet, UdpUnknownPacket, DtlsUp
<1>3. CASE UdpReconnects \/ UdpHandshakes \/ UdpSleeps
  BY <1>3 DEF UdpReconnects, UdpHandshakes, UdpSleeps, ConnectDtls
<1>4. CASE UdpRekeys \/ UdpPeerDead
  BY <1>4 DEF UdpRekeys, UdpPeerDead, DtlsUp, ConnectDtls
<1>5. CASE UdpSends
  BY <1>5, Kinds DEF UdpSends, DtlsCompress
<1>6. CASE UdpSendStalls
  BY <1>6 DEF UdpSendStalls, DtlsCompress
<1>7. CASE UdpSendFails
  BY <1>7 DEF UdpSendFails, DtlsCompress, ConnectDtls
<1>8. CASE UdpSentAll
  BY <1>8 DEF UdpSentAll
<1>9. CASE TcpReadsDpdRequest \/ TcpReadsAll \/ TcpEnds \/ TcpLost
  BY <1>9 DEF TcpReadsDpdRequest, TcpReadsAll, TcpEnds, TcpLost
<1>10. CASE WriteDone
  BY <1>10, Kinds DEF WriteDone, Data
<1>11. CASE WriteStalls \/ WriteFails
  BY <1>11 DEF WriteStalls, WriteFails, Data
<1>12. CASE TlsRekeys
  BY <1>12 DEF TlsRekeys, Data, NeedsReconnect
<1>13. CASE DpdResponse \/ Dpd \/ Keepalive
  BY <1>13, Kinds DEF DpdResponse, Dpd, Keepalive, SpecialDue
<1>14. CASE NothingDue \/ SendNothing
  BY <1>14 DEF NothingDue, SendNothing
<1>15. CASE SendPlain
  BY <1>15, Kinds DEF SendPlain
<1>16. CASE SendCompressed
  BY <1>16, Kinds, QueueOps DEF SendCompressed, SeqsOK
<1>17. CASE ReconnectWorks
  BY <1>17, Kinds DEF ReconnectWorks, RequeueDeflated
<1>18. CASE ReconnectFails
  BY <1>18, Kinds DEF ReconnectFails, RequeueDeflated
<1>19. CASE TunReads
  BY <1>19 DEF TunReads
<1>20. CASE TunDone
  BY <1>20 DEF TunDone
<1>21. CASE Pause
  BY <1>21 DEF Pause
<1>22. CASE Cancel \/ Bye
  BY <1>22 DEF Cancel, Bye
<1> QED
  BY <1>1, <1>2, <1>3, <1>4, <1>5, <1>6, <1>7, <1>8, <1>9, <1>10, <1>11, <1>12, <1>13,
     <1>14, <1>15, <1>16, <1>17, <1>18, <1>19, <1>20, <1>21, <1>22 DEF Next,
     dtls_mainloop, cstp_mainloop, Finished

\* What could not be written stays as it was until it is, or the connection goes.
LEMMA StalledStep == StalledKept /\ BufferHeld /\ [Next]_vars => StalledKept'
<1> SUFFICES ASSUME StalledKept, BufferHeld, [Next]_vars PROVE StalledKept'
  OBVIOUS
<1> USE DEF StalledKept, Data, queueVars, bufVars, dtlsVars, tlsVars, sentVars
<1>1. CASE UNCHANGED vars
  BY <1>1 DEF vars
<1>2. CASE UdpDisabled \/ UdpQuiet \/ UdpUnknownPacket
  BY <1>2 DEF UdpDisabled, UdpQuiet, UdpUnknownPacket, DtlsUp
<1>3. CASE UdpReconnects \/ UdpHandshakes \/ UdpSleeps
  BY <1>3 DEF UdpReconnects, UdpHandshakes, UdpSleeps, ConnectDtls
<1>4. CASE UdpRekeys \/ UdpPeerDead
  BY <1>4 DEF UdpRekeys, UdpPeerDead, DtlsUp, ConnectDtls
<1>5. CASE UdpSends
  BY <1>5 DEF UdpSends, DtlsCompress
<1>6. CASE UdpSendStalls
  BY <1>6 DEF UdpSendStalls, DtlsCompress
<1>7. CASE UdpSendFails
  BY <1>7 DEF UdpSendFails, DtlsCompress, ConnectDtls
<1>8. CASE UdpSentAll
  BY <1>8 DEF UdpSentAll
<1>9. CASE TcpReadsDpdRequest \/ TcpReadsAll \/ TcpEnds \/ TcpLost
  BY <1>9, Kinds DEF TcpReadsDpdRequest, TcpReadsAll, TcpEnds, TcpLost, BufferHeld
<1>10. CASE WriteDone
  BY <1>10 DEF WriteDone, Data
<1>11. CASE WriteStalls \/ WriteFails
  BY <1>11 DEF WriteStalls, WriteFails, Data
<1>12. CASE TlsRekeys
  BY <1>12 DEF TlsRekeys, Data, NeedsReconnect
<1>13. CASE DpdResponse \/ Dpd \/ Keepalive
  BY <1>13 DEF DpdResponse, Dpd, Keepalive, SpecialDue
<1>14. CASE NothingDue \/ SendNothing
  BY <1>14 DEF NothingDue, SendNothing
<1>15. CASE SendPlain
  BY <1>15 DEF SendPlain
<1>16. CASE SendCompressed
  BY <1>16 DEF SendCompressed
<1>17. CASE ReconnectWorks
  BY <1>17 DEF ReconnectWorks, RequeueDeflated, NeedsReconnect
<1>18. CASE ReconnectFails
  BY <1>18 DEF ReconnectFails, RequeueDeflated
<1>19. CASE TunReads
  BY <1>19 DEF TunReads
<1>20. CASE TunDone
  BY <1>20 DEF TunDone
<1>21. CASE Pause
  BY <1>21 DEF Pause
<1>22. CASE Cancel \/ Bye
  BY <1>22 DEF Cancel, Bye
<1> QED
  BY <1>1, <1>2, <1>3, <1>4, <1>5, <1>6, <1>7, <1>8, <1>9, <1>10, <1>11, <1>12, <1>13,
     <1>14, <1>15, <1>16, <1>17, <1>18, <1>19, <1>20, <1>21, <1>22 DEF Next,
     dtls_mainloop, cstp_mainloop, Finished

\* A deflate stream and its peer part in no step.
LEMMA StreamsStep == StreamsInStep /\ BufferHeld /\ SeqsOK /\ ValuesOK /\ [Next]_vars => StreamsInStep'
<1> SUFFICES ASSUME StreamsInStep, BufferHeld, SeqsOK, ValuesOK, [Next]_vars PROVE StreamsInStep'
  OBVIOUS
<1> USE DEF StreamsInStep, queueVars, bufVars, dtlsVars, tlsVars, sentVars
<1>1. CASE UNCHANGED vars
  BY <1>1 DEF vars
<1>2. CASE UdpDisabled \/ UdpQuiet \/ UdpUnknownPacket
  BY <1>2 DEF UdpDisabled, UdpQuiet, UdpUnknownPacket, DtlsUp
<1>3. CASE UdpReconnects \/ UdpHandshakes \/ UdpSleeps
  BY <1>3 DEF UdpReconnects, UdpHandshakes, UdpSleeps, ConnectDtls
<1>4. CASE UdpRekeys \/ UdpPeerDead
  BY <1>4 DEF UdpRekeys, UdpPeerDead, DtlsUp, ConnectDtls
<1>5. CASE UdpSends
  BY <1>5 DEF UdpSends, DtlsCompress
<1>6. CASE UdpSendStalls
  BY <1>6 DEF UdpSendStalls, DtlsCompress
<1>7. CASE UdpSendFails
  BY <1>7 DEF UdpSendFails, DtlsCompress, ConnectDtls
<1>8. CASE UdpSentAll
  BY <1>8 DEF UdpSentAll
<1>9. CASE TcpReadsDpdRequest \/ TcpReadsAll \/ TcpEnds \/ TcpLost
  BY <1>9 DEF TcpReadsDpdRequest, TcpReadsAll, TcpEnds, TcpLost
<1>10. CASE WriteDone
  <2> SUFFICES ASSUME CstpCompr = "deflate" PROVE StreamsInStep'
    OBVIOUS
  <2>1. current_ssl_pkt' = NoPkt /\ deflated' = deflated
    BY <1>10 DEF WriteDone
  <2>2. inflated' = deflated
    <3>1. CASE current_ssl_pkt.kind = "deflate"
      <4>1. inflated' = Append(inflated, pending_deflated_pkt) /\ pending_deflated_pkt \in Packet
        BY <1>10, <3>1, Kinds DEF WriteDone, Data, BufferHeld
      <4>2. deflated = inflated \o <<pending_deflated_pkt>>
        BY <3>1
      <4> QED
        BY <4>1, <4>2, QueueOps DEF SeqsOK
    <3>2. CASE current_ssl_pkt.kind # "deflate"
      BY <1>10, <3>2, QueueOps DEF WriteDone, Data, SeqsOK
    <3> QED
      BY <3>1, <3>2
  <2>3. inflated' \o <<>> = inflated'
    BY <2>2, QueueOps DEF SeqsOK
  <2> QED
    BY <2>1, <2>2, <2>3, Kinds
<1>11. CASE WriteStalls \/ WriteFails
  BY <1>11 DEF WriteStalls, WriteFails, Data
<1>12. CASE TlsRekeys
  BY <1>12 DEF TlsRekeys, Data, NeedsReconnect
<1>13. CASE DpdResponse \/ Dpd \/ Keepalive
  BY <1>13, Kinds DEF DpdResponse, Dpd, Keepalive, SpecialDue, BufferHeld
<1>14. CASE NothingDue \/ SendNothing
  BY <1>14 DEF NothingDue, SendNothing
<1>15. CASE SendPlain
  BY <1>15 DEF SendPlain
<1>16. CASE SendCompressed
  <2> SUFFICES ASSUME CstpCompr = "deflate" PROVE StreamsInStep'
    OBVIOUS
  <2>1. deflated = inflated
    BY <1>16, Kinds, QueueOps DEF SendCompressed, BufferHeld, SeqsOK
  <2>2. /\ deflated' = Append(deflated, pending_deflated_pkt') /\ pending_deflated_pkt' \in Packet
        /\ inflated' = inflated /\ current_ssl_pkt'.kind = "deflate"
    BY <1>16, Kinds, QueueOps DEF SendCompressed, SeqsOK
  <2> QED
    BY <2>1, <2>2, QueueOps DEF SeqsOK
<1>17. CASE ReconnectWorks
  BY <1>17, Kinds DEF ReconnectWorks, RequeueDeflated
<1>18. CASE ReconnectFails
  BY <1>18, Kinds DEF ReconnectFails, RequeueDeflated
<1>19. CASE TunReads
  BY <1>19 DEF TunReads
<1>20. CASE TunDone
  BY <1>20 DEF TunDone
<1>21. CASE Pause
  BY <1>21 DEF Pause
<1>22. CASE Cancel \/ Bye
  BY <1>22 DEF Cancel, Bye
<1> QED
  BY <1>1, <1>2, <1>3, <1>4, <1>5, <1>6, <1>7, <1>8, <1>9, <1>10, <1>11, <1>12, <1>13,
     <1>14, <1>15, <1>16, <1>17, <1>18, <1>19, <1>20, <1>21, <1>22 DEF Next,
     dtls_mainloop, cstp_mainloop, Finished

\* Whoever changes the session id of a DTLS that is up asks for a new connection.
LEMMA SessionStep == DtlsFollowsSession /\ [Next]_vars => DtlsFollowsSession'
<1> SUFFICES ASSUME DtlsFollowsSession, [Next]_vars PROVE DtlsFollowsSession'
  OBVIOUS
<1> USE DEF DtlsFollowsSession, AboveSleeping, queueVars, bufVars, dtlsVars, tlsVars, sentVars
<1>1. CASE UNCHANGED vars
  BY <1>1 DEF vars
<1>2. CASE UdpDisabled \/ UdpQuiet \/ UdpUnknownPacket
  BY <1>2 DEF UdpDisabled, UdpQuiet, UdpUnknownPacket, DtlsUp
<1>3. CASE UdpReconnects \/ UdpHandshakes \/ UdpSleeps
  BY <1>3 DEF UdpReconnects, UdpHandshakes, UdpSleeps, ConnectDtls
<1>4. CASE UdpRekeys \/ UdpPeerDead
  BY <1>4 DEF UdpRekeys, UdpPeerDead, DtlsUp, ConnectDtls
<1>5. CASE UdpSends
  BY <1>5 DEF UdpSends, DtlsCompress
<1>6. CASE UdpSendStalls
  BY <1>6 DEF UdpSendStalls, DtlsCompress
<1>7. CASE UdpSendFails
  BY <1>7 DEF UdpSendFails, DtlsCompress, ConnectDtls
<1>8. CASE UdpSentAll
  BY <1>8 DEF UdpSentAll
<1>9. CASE TcpReadsDpdRequest \/ TcpReadsAll \/ TcpEnds \/ TcpLost
  BY <1>9 DEF TcpReadsDpdRequest, TcpReadsAll, TcpEnds, TcpLost
<1>10. CASE WriteDone
  BY <1>10 DEF WriteDone, Data
<1>11. CASE WriteStalls \/ WriteFails
  BY <1>11 DEF WriteStalls, WriteFails, Data
<1>12. CASE TlsRekeys
  BY <1>12 DEF TlsRekeys, Data, NeedsReconnect
<1>13. CASE DpdResponse \/ Dpd \/ Keepalive
  BY <1>13 DEF DpdResponse, Dpd, Keepalive, SpecialDue
<1>14. CASE NothingDue \/ SendNothing
  BY <1>14 DEF NothingDue, SendNothing
<1>15. CASE SendPlain
  BY <1>15 DEF SendPlain
<1>16. CASE SendCompressed
  BY <1>16 DEF SendCompressed
<1>17. CASE ReconnectWorks
  BY <1>17 DEF ReconnectWorks, RequeueDeflated, NeedsReconnect
<1>18. CASE ReconnectFails
  BY <1>18 DEF ReconnectFails, RequeueDeflated
<1>19. CASE TunReads
  BY <1>19 DEF TunReads
<1>20. CASE TunDone
  BY <1>20 DEF TunDone
<1>21. CASE Pause
  BY <1>21 DEF Pause
<1>22. CASE Cancel \/ Bye
  BY <1>22 DEF Cancel, Bye
<1> QED
  BY <1>1, <1>2, <1>3, <1>4, <1>5, <1>6, <1>7, <1>8, <1>9, <1>10, <1>11, <1>12, <1>13,
     <1>14, <1>15, <1>16, <1>17, <1>18, <1>19, <1>20, <1>21, <1>22 DEF Next,
     dtls_mainloop, cstp_mainloop, Finished

\* The tun device is read while there is room, and one packet may come back.
LEMMA QueueStep == QueueBounded /\ SeqsOK /\ BufferHeld /\ ValuesOK /\ StreamsInStep /\ [Next]_vars => QueueBounded'
<1> SUFFICES ASSUME QueueBounded, SeqsOK, BufferHeld, ValuesOK, StreamsInStep, [Next]_vars PROVE QueueBounded'
  OBVIOUS
<1> USE DEF QueueBounded, Deflating, OneMore, queueVars, bufVars, dtlsVars, tlsVars, sentVars
<1>1. CASE UNCHANGED vars
  BY <1>1 DEF vars
<1>2. CASE UdpDisabled \/ UdpQuiet \/ UdpUnknownPacket
  BY <1>2 DEF UdpDisabled, UdpQuiet, UdpUnknownPacket, DtlsUp
<1>3. CASE UdpReconnects \/ UdpHandshakes \/ UdpSleeps
  BY <1>3 DEF UdpReconnects, UdpHandshakes, UdpSleeps, ConnectDtls
<1>4. CASE UdpRekeys \/ UdpPeerDead
  BY <1>4 DEF UdpRekeys, UdpPeerDead, DtlsUp, ConnectDtls
<1>5. CASE UdpSends
  BY <1>5, QueueOps DEF UdpSends, SeqsOK
<1>6. CASE UdpSendStalls
  BY <1>6 DEF UdpSendStalls
<1>7. CASE UdpSendFails
  BY <1>7 DEF UdpSendFails
<1>8. CASE UdpSentAll
  BY <1>8 DEF UdpSentAll
<1>9. CASE TcpReadsDpdRequest \/ TcpReadsAll \/ TcpEnds \/ TcpLost
  BY <1>9 DEF TcpReadsDpdRequest, TcpReadsAll, TcpEnds, TcpLost
<1>10. CASE WriteDone
  BY <1>10, Kinds, Len(outgoing_queue) \in Nat DEF WriteDone, SeqsOK
<1>11. CASE WriteStalls \/ WriteFails
  BY <1>11 DEF WriteStalls, WriteFails, Data
<1>12. CASE TlsRekeys
  BY <1>12 DEF TlsRekeys, Data, NeedsReconnect
<1>13. CASE DpdResponse \/ Dpd \/ Keepalive
  BY <1>13, Kinds DEF DpdResponse, Dpd, Keepalive, SpecialDue, BufferHeld
<1>14. CASE NothingDue \/ SendNothing
  BY <1>14 DEF NothingDue, SendNothing
<1>15. CASE SendPlain
  BY <1>15, Kinds, QueueOps DEF SendPlain, SeqsOK
<1>16. CASE SendCompressed
  BY <1>16, Kinds, QueueOps DEF SendCompressed, SeqsOK, BufferHeld
<1>17. CASE ReconnectWorks
  BY <1>17, Kinds, QueueOps, Len(outgoing_queue) \in Nat DEF ReconnectWorks, RequeueDeflated, SeqsOK, BufferHeld
<1>18. CASE ReconnectFails
  BY <1>18, Kinds, QueueOps, Len(outgoing_queue) \in Nat DEF ReconnectFails, RequeueDeflated, SeqsOK, BufferHeld
<1>19. CASE TunReads
  <2>1. next \in Packet /\ Len(outgoing_queue') = Len(outgoing_queue) + 1
    BY <1>19, QueueOps DEF TunReads, SeqsOK, ValuesOK, Packet
  <2>2. Len(outgoing_queue) \in Nat
    BY DEF SeqsOK
  <2> QED
    <3>1. Len(outgoing_queue') + Deflating <= MaxQlen + OneMore
      BY <1>19, <2>1, <2>2 DEF TunReads
    <3>2. tun_monitored' <=> Len(outgoing_queue') < MaxQlen
      BY <1>19 DEF TunReads
    <3>3. Deflating' = Deflating /\ Deflating <= OneMore
      BY <1>19 DEF TunReads
    <3>4. tun_monitored' => Len(outgoing_queue') + Deflating < MaxQlen + OneMore
      BY <2>1, <2>2, <3>2, <3>3
    <3> QED
      BY <3>1, <3>3, <3>4
<1>20. CASE TunDone
  <2>1. Len(outgoing_queue) \in Nat
    BY DEF SeqsOK
  <2>2. tun_monitored' => tun_monitored \/ Len(outgoing_queue) < MaxQlen
    BY <1>20 DEF TunDone
  <2>3. Len(outgoing_queue) < MaxQlen => Len(outgoing_queue) + Deflating < MaxQlen + OneMore
    BY <2>1
  <2> QED
    BY <1>20, <2>1, <2>2, <2>3 DEF TunDone
<1>21. CASE Pause
  BY <1>21 DEF Pause
<1>22. CASE Cancel \/ Bye
  BY <1>22 DEF Cancel, Bye
<1> QED
  BY <1>1, <1>2, <1>3, <1>4, <1>5, <1>6, <1>7, <1>8, <1>9, <1>10, <1>11, <1>12, <1>13,
     <1>14, <1>15, <1>16, <1>17, <1>18, <1>19, <1>20, <1>21, <1>22 DEF Next,
     dtls_mainloop, cstp_mainloop, Finished

\* No step takes a packet away, and none makes a second of one.
LEMMA CountedStep == Counted /\ ValuesOK /\ SeqsOK /\ BufferHeld /\ [Next]_vars => Counted'
<1> SUFFICES ASSUME Counted, ValuesOK, SeqsOK, BufferHeld, [Next]_vars, NEW p \in Packet
             PROVE  Places(p)' = IF p < next' THEN 1 ELSE 0
  BY DEF Counted
<1>0. /\ Places(p) = IF p < next THEN 1 ELSE 0
      /\ Times(p, outgoing_queue) \in Nat /\ Times(p, sentTls) \in Nat /\ Times(p, sentDtls) \in Nat
      /\ p \in 1 .. Packets /\ next \in Int
  <2>1. \A s \in Seq(Packet) : Times(p, s) \in Nat
    BY TimesAppend
  <2> QED
    BY <2>1 DEF Counted, ValuesOK, SeqsOK, Packet
<1> USE DEF Places, queueVars, bufVars, dtlsVars, tlsVars, sentVars
<1>1. CASE UNCHANGED vars
  BY <1>0, <1>1 DEF vars
<1>2. CASE UdpDisabled \/ UdpQuiet \/ UdpUnknownPacket
  BY <1>0, <1>2 DEF UdpDisabled, UdpQuiet, UdpUnknownPacket, DtlsUp
<1>3. CASE UdpReconnects \/ UdpHandshakes \/ UdpSleeps
  BY <1>0, <1>3 DEF UdpReconnects, UdpHandshakes, UdpSleeps, ConnectDtls
<1>4. CASE UdpRekeys \/ UdpPeerDead
  BY <1>0, <1>4 DEF UdpRekeys, UdpPeerDead, DtlsUp, ConnectDtls
<1>5. CASE UdpSends
  <2>1. /\ Head(outgoing_queue) \in Packet
        /\ Times(p, Tail(outgoing_queue)) = Times(p, outgoing_queue) - (IF Head(outgoing_queue) = p THEN 1 ELSE 0)
        /\ Times(p, Append(sentDtls, Head(outgoing_queue)))
             = Times(p, sentDtls) + (IF Head(outgoing_queue) = p THEN 1 ELSE 0)
    BY <1>5, QueueOps, TimesAppend, TimesTail DEF UdpSends, SeqsOK
  <2> QED
    BY <1>0, <1>5, <2>1 DEF UdpSends, SeqsOK
<1>6. CASE UdpSendStalls
  BY <1>0, <1>6 DEF UdpSendStalls, DtlsCompress
<1>7. CASE UdpSendFails
  BY <1>0, <1>7 DEF UdpSendFails, DtlsCompress, ConnectDtls
<1>8. CASE UdpSentAll
  BY <1>0, <1>8 DEF UdpSentAll
<1>9. CASE TcpReadsDpdRequest \/ TcpReadsAll \/ TcpEnds \/ TcpLost
  BY <1>0, <1>9 DEF TcpReadsDpdRequest, TcpReadsAll, TcpEnds, TcpLost
<1>10. CASE WriteDone
  <2>1. /\ Data.pkt = 0 => sentTls' = sentTls
        /\ Data.pkt # 0 => Data.pkt \in Packet /\ sentTls' = Append(sentTls, Data.pkt)
    BY <1>10, Kinds DEF WriteDone, Data, BufferHeld, ValuesOK, Packet
  <2>2. Times(p, sentTls') = Times(p, sentTls) + (IF Data.pkt = p THEN 1 ELSE 0)
    <3>1. CASE Data.pkt = 0
      BY <1>0, <2>1, <3>1
    <3>2. CASE Data.pkt # 0
      <4>1. Times(p, Append(sentTls, Data.pkt)) = Times(p, sentTls) + (IF Data.pkt = p THEN 1 ELSE 0)
        BY <2>1, <3>2, TimesAppend DEF SeqsOK
      <4> QED
        BY <2>1, <3>2, <4>1
    <3> QED
      BY <3>1, <3>2
  <2>3. Data.pkt = p <=> current_ssl_pkt = Pkt("data", p) \/ pending_deflated_pkt = p
    BY <1>0, <1>10, Kinds DEF Data, BufferHeld, ValuesOK, Packet
  <2>4. ~ (current_ssl_pkt = Pkt("data", p) /\ pending_deflated_pkt = p)
    BY <1>0, Kinds DEF BufferHeld
  <2>5. /\ current_ssl_pkt' # Pkt("data", p) /\ pending_deflated_pkt' # p
        /\ next' = next /\ outgoing_queue' = outgoing_queue /\ sentDtls' = sentDtls
    BY <1>0, <1>10, Kinds DEF WriteDone, Data, BufferHeld
  <2> QED
    BY <1>0, <2>2, <2>3, <2>4, <2>5 DEF SeqsOK
<1>11. CASE WriteStalls \/ WriteFails
  BY <1>0, <1>11 DEF WriteStalls, WriteFails, Data
<1>12. CASE TlsRekeys
  BY <1>0, <1>12 DEF TlsRekeys, Data, NeedsReconnect
<1>13. CASE DpdResponse \/ Dpd \/ Keepalive
  BY <1>0, <1>13, Kinds DEF DpdResponse, Dpd, Keepalive, SpecialDue, BufferHeld
<1>14. CASE NothingDue \/ SendNothing
  BY <1>0, <1>14 DEF NothingDue, SendNothing
<1>15. CASE SendPlain
  <2>1. /\ Head(outgoing_queue) \in Packet
        /\ Times(p, Tail(outgoing_queue)) = Times(p, outgoing_queue) - (IF Head(outgoing_queue) = p THEN 1 ELSE 0)
    BY <1>15, QueueOps, TimesTail DEF SendPlain, SeqsOK
  <2>2. /\ current_ssl_pkt # Pkt("data", p)
        /\ current_ssl_pkt' = Pkt("data", p) <=> Head(outgoing_queue) = p
    BY <1>15, Kinds DEF SendPlain, BufferHeld
  <2> QED
    BY <1>0, <1>15, <2>1, <2>2 DEF SendPlain, SeqsOK
<1>16. CASE SendCompressed
  <2>1. /\ Head(outgoing_queue) \in Packet
        /\ Times(p, Tail(outgoing_queue)) = Times(p, outgoing_queue) - (IF Head(outgoing_queue) = p THEN 1 ELSE 0)
    BY <1>16, QueueOps, TimesTail DEF SendCompressed, SeqsOK
  <2>2. /\ current_ssl_pkt # Pkt("data", p) /\ current_ssl_pkt' # Pkt("data", p)
        /\ pending_deflated_pkt # p
    BY <1>0, <1>16, Kinds DEF SendCompressed, BufferHeld
  <2> QED
    BY SMTT(30), <1>0, <1>16, <2>1, <2>2 DEF SendCompressed, SeqsOK
<1>17. CASE ReconnectWorks
  <2>1. CASE CstpCompr = "deflate" /\ current_ssl_pkt.kind = "deflate"
    <3>1. Times(p, outgoing_queue')
            = Times(p, outgoing_queue) + (IF pending_deflated_pkt = p THEN 1 ELSE 0)
      <4>1. pending_deflated_pkt \in Packet /\ outgoing_queue' = Append(outgoing_queue, pending_deflated_pkt)
        BY <1>17, <2>1 DEF ReconnectWorks, RequeueDeflated, BufferHeld
      <4>2. Times(p, Append(outgoing_queue, pending_deflated_pkt))
              = Times(p, outgoing_queue) + (IF pending_deflated_pkt = p THEN 1 ELSE 0)
        BY <4>1, TimesAppend DEF SeqsOK
      <4> QED
        BY <4>1, <4>2
    <3>2. /\ current_ssl_pkt # Pkt("data", p) /\ current_ssl_pkt' # Pkt("data", p)
          /\ pending_deflated_pkt' # p
      BY <1>0, <1>17, <2>1, Kinds DEF ReconnectWorks, RequeueDeflated
    <3> QED
      BY SMTT(30), <1>0, <1>17, <3>1, <3>2 DEF ReconnectWorks, SeqsOK
  <2>2. CASE ~ (CstpCompr = "deflate" /\ current_ssl_pkt.kind = "deflate")
    BY <1>0, <1>17, <2>2 DEF ReconnectWorks, RequeueDeflated
  <2> QED
    BY <2>1, <2>2
<1>18. CASE ReconnectFails
  <2>1. CASE CstpCompr = "deflate" /\ current_ssl_pkt.kind = "deflate"
    <3>1. Times(p, outgoing_queue')
            = Times(p, outgoing_queue) + (IF pending_deflated_pkt = p THEN 1 ELSE 0)
      <4>1. pending_deflated_pkt \in Packet /\ outgoing_queue' = Append(outgoing_queue, pending_deflated_pkt)
        BY <1>18, <2>1 DEF ReconnectFails, RequeueDeflated, BufferHeld
      <4>2. Times(p, Append(outgoing_queue, pending_deflated_pkt))
              = Times(p, outgoing_queue) + (IF pending_deflated_pkt = p THEN 1 ELSE 0)
        BY <4>1, TimesAppend DEF SeqsOK
      <4> QED
        BY <4>1, <4>2
    <3>2. /\ current_ssl_pkt # Pkt("data", p) /\ current_ssl_pkt' # Pkt("data", p)
          /\ pending_deflated_pkt' # p
      BY <1>0, <1>18, <2>1, Kinds DEF ReconnectFails, RequeueDeflated
    <3> QED
      BY <1>0, <1>18, <3>1, <3>2 DEF ReconnectFails, SeqsOK
  <2>2. CASE ~ (CstpCompr = "deflate" /\ current_ssl_pkt.kind = "deflate")
    BY <1>0, <1>18, <2>2 DEF ReconnectFails, RequeueDeflated
  <2> QED
    BY <2>1, <2>2
<1>19. CASE TunReads
  <2>1. next \in Packet /\ outgoing_queue' = Append(outgoing_queue, next)
    BY <1>19 DEF TunReads, ValuesOK, Packet
  <2>2. Times(p, outgoing_queue') = Times(p, outgoing_queue) + (IF next = p THEN 1 ELSE 0)
    <3>1. Times(p, Append(outgoing_queue, next)) = Times(p, outgoing_queue) + (IF next = p THEN 1 ELSE 0)
      BY <2>1, TimesAppend DEF SeqsOK
    <3> QED
      BY <2>1, <3>1
  <2> QED
    BY SMTT(30), <1>0, <1>19, <2>2 DEF TunReads, SeqsOK
<1>20. CASE TunDone
  BY <1>0, <1>20 DEF TunDone
<1>21. CASE Pause
  BY <1>0, <1>21 DEF Pause
<1>22. CASE Cancel \/ Bye
  BY <1>0, <1>22 DEF Cancel, Bye
<1> QED
  BY <1>1, <1>2, <1>3, <1>4, <1>5, <1>6, <1>7, <1>8, <1>9, <1>10, <1>11, <1>12, <1>13,
     <1>14, <1>15, <1>16, <1>17, <1>18, <1>19, <1>20, <1>21, <1>22 DEF Next,
     dtls_mainloop, cstp_mainloop, Finished

LEMMA AlwaysIInv == Spec => []IInv
<1>1. IInv /\ [Next]_vars => IInv'
  BY FlagsStep, ValuesStep, SeqsStep, BufferStep, StalledStep, StreamsStep, SessionStep,
     QueueStep, CountedStep DEF IInv
<1> QED
  BY InitIInv, <1>1, PTL DEF Spec

\* Every variable keeps its type; the queue holds at most one packet more than
\* max_qlen, and that only with deflate.
THEOREM TypeCorrect == Spec => []TypeOK
<1>1. IInv => TypeOK
  <2> SUFFICES ASSUME IInv PROVE TypeOK
    OBVIOUS
  <2>1. Len(outgoing_queue) <= MaxQlen + (IF CstpCompr = "deflate" THEN 1 ELSE 0)
    BY Len(outgoing_queue) \in Nat DEF IInv, SeqsOK, QueueBounded, Deflating, OneMore
  <2>2. FlagsOK /\ ValuesOK /\ SeqsOK
    BY DEF IInv
  <2> QED
    BY <2>1, <2>2 DEF TypeOK, FlagsOK, ValuesOK, SeqsOK
<1> QED
  BY AlwaysIInv, <1>1, PTL

\* A TLS write that returned -EAGAIN is repeated with the same data: neither
\* DTLS, which compresses into the same buffer, nor DPD, a rekeying or a new
\* packet comes between.
THEOREM StalledWritesRetried == Spec => []StalledWriteRetried
<1>1. IInv => StalledWriteRetried
  BY DEF IInv, StalledKept, StalledWriteRetried
<1> QED
  BY AlwaysIInv, <1>1, PTL

\* Every packet from the tun device is in one place, once: in the queue, being
\* written, or written over one of the two transports.
THEOREM PacketsAreKept == Spec => []EachPacketOnce
<1>1. IInv => EachPacketOnce
  <2> SUFFICES ASSUME IInv, NEW p \in 1 .. next - 1 PROVE Places(p) = 1
    BY DEF EachPacketOnce, Places
  <2>1. p \in Packet /\ p < next
    BY DEF IInv, ValuesOK, Packet
  <2> QED
    BY <2>1 DEF IInv, Counted
<1> QED
  BY AlwaysIInv, <1>1, PTL

\* With deflate the peer is sent all that this connection's stream was fed, in
\* order, over any number of reconnections.
THEOREM StreamsStayInStep == Spec => []StreamsInStep
<1>1. IInv => StreamsInStep
  BY DEF IInv
<1> QED
  BY AlwaysIInv, <1>1, PTL

\* DTLS never goes on with a session id the server has replaced.
THEOREM DtlsIsReplaced == Spec => []DtlsFollowsSession
<1>1. IInv => DtlsFollowsSession
  BY DEF IInv
<1> QED
  BY AlwaysIInv, <1>1, PTL

=============================================================================
