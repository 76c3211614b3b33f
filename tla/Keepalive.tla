----------------------------- MODULE Keepalive -----------------------------
(***************************************************************************)
(* The timers of one connection, TLS or DTLS: keepalive_action() and       *)
(* ka_stalled_action(), the sends and the receipts that move their times,  *)
(* and the sleep of the main loop, which has to end when the next of them  *)
(* is due.  Dead peer detection asks a peer that has been silent for Dpd   *)
(* seconds and gives it up after twice that.                               *)
(*                                                                         *)
(* Time is time(NULL), in whole seconds, and passes only while the loop    *)
(* sleeps.                                                                 *)
(***************************************************************************)
EXTENDS Integers

CONSTANTS
  Dpd, KeepalivePeriod, Rekey, RekeyMethod, \* ka->dpd, ->keepalive, ->rekey, ->rekey_method
  Transports, \* what the connection may be: see reliable
  MaxStall,   \* environment: how long a write to a live peer stalls
  MaxLoss,    \* environment: packets lost in one silence of a live peer
  Delay,      \* environment: how long a live peer takes to answer
  Horizon     \* bound: the last second

ASSUME KeepaliveAssumption ==
  /\ Dpd \in Nat /\ KeepalivePeriod \in Nat /\ Rekey \in Nat \ {0}
  /\ RekeyMethod \in {"none", "tunnel", "ssl"}
  /\ Transports \subseteq BOOLEAN
  /\ MaxStall \in Nat /\ MaxLoss \in {0, 1} /\ Delay \in Nat /\ Horizon \in Nat

VARIABLES
  reliable,      \* TLS, where a write may stall; otherwise DTLS, where a packet may be lost
  ka_pc,
  now,
  wake,          \* when the sleep ends of itself
  last_rx, last_tx, last_dpd, last_rekey,
  writing,       \* what the next write writes
  since,         \* when it first stalled; None if it did not
  queue,         \* outgoing_queue is not empty
  alive,         \* the peer answers
  answer,        \* when an answer will have arrived at the latest; None if none is due
  lost           \* packets lost since last_rx

times  == <<last_rx, last_tx, last_dpd, last_rekey>>
peer   == <<alive, answer, lost>>
kaVars == <<reliable, ka_pc, now, wake, times, writing, since, queue, peer>>

None == -1

KeepaliveTypeOK ==
  /\ reliable \in Transports
  /\ ka_pc \in {"write", "decide", "asleep"}
  /\ now \in 0 .. Horizon
  /\ wake \in Nat
  /\ last_rx \in 0 .. now /\ last_tx \in 0 .. now
  /\ last_dpd \in 0 .. now /\ last_rekey \in 0 .. now
  /\ writing \in {"none", "dpd", "keepalive", "data"}
  /\ since \in {None} \cup (0 .. now)
  /\ queue \in BOOLEAN /\ alive \in BOOLEAN
  /\ answer \in {None} \cup Nat
  /\ lost \in 0 .. MaxLoss

\* The connection was made in second 0.
KeepaliveInit ==
  /\ reliable \in Transports
  /\ ka_pc = "decide" /\ now = 0 /\ wake = 0
  /\ last_rx = 0 /\ last_tx = 0 /\ last_dpd = 0 /\ last_rekey = 0
  /\ writing = "none" /\ since = None /\ queue = FALSE
  /\ alive = TRUE /\ answer = None /\ lost = 0

-----------------------------------------------------------------------------
RekeyDue == RekeyMethod # "none" /\ now >= last_rekey + Rekey

overdue == last_rx + 2 * Dpd

\* Broken on purpose: a DPD is not repeated.
due_NoRepeat == IF last_dpd > last_rx THEN overdue + 1 ELSE last_rx + Dpd

\* "If we already have DPD outstanding, don't flood."
due == IF last_dpd > last_rx THEN last_dpd + Dpd \div 2 ELSE last_rx + Dpd

DpdDue == Dpd # 0 /\ now >= due

KeepaliveDue == KeepalivePeriod # 0 /\ now >= last_tx + KeepalivePeriod

\* The deadlines ka_check_deadline() takes into account, when none is met.
Deadlines ==
  {d \in {last_rekey + Rekey} : RekeyMethod # "none"}
    \cup {d \in {due} : Dpd # 0}
    \cup {d \in {last_tx + KeepalivePeriod} : KeepalivePeriod # 0}

\* Broken on purpose: a stalled write is left to itself until the next rekeying.
StalledDeadlines_NoDpd == {d \in {last_rekey + Rekey} : RekeyMethod # "none"}

StalledDeadlines ==
  {d \in {last_rekey + Rekey} : RekeyMethod # "none"} \cup {d \in {overdue} : Dpd # 0}

\* The sleep ends with the first deadline, or not before the end of time.
SleepUntil(deadlines) ==
  /\ \E w \in deadlines \cup {Horizon} : wake' = w /\ \A d \in deadlines : w <= d
  /\ ka_pc' = "asleep"

\* Where a round of the loop begins: a write that stalled comes first.
Round == ka_pc' = IF writing # "none" THEN "write" ELSE "decide"

\* A new connection starts all times but last_dpd, and writes again what was
\* being written.
Reconnect ==
  /\ last_rx' = now /\ last_tx' = now /\ last_rekey' = now
  /\ alive' = TRUE /\ answer' = None /\ lost' = 0
  /\ since' = None
  /\ Round
  /\ UNCHANGED <<now, wake, last_dpd, writing, queue>>

-----------------------------------------------------------------------------
\* keepalive_action() and what is done about it.

\* The rekeying that starts all times again: a new tunnel for TLS, where one in
\* place does not; a handshake for DTLS, where REKEY_TUNNEL does nothing.
Renews == RekeyMethod = IF reliable THEN "tunnel" ELSE "ssl"

Rekeys ==
  /\ ka_pc = "decide" /\ RekeyDue
  /\ IF Renews THEN Reconnect
     ELSE /\ last_rekey' = now
          /\ UNCHANGED <<ka_pc, now, wake, last_rx, last_tx, last_dpd, writing, since, queue, peer>>

PeerDead ==
  /\ ka_pc = "decide" /\ ~ RekeyDue
  /\ Dpd # 0 /\ now > overdue
  /\ Reconnect

SendsDpd ==
  /\ ka_pc = "decide" /\ ~ RekeyDue
  /\ now <= overdue /\ DpdDue
  /\ last_dpd' = now
  /\ writing' = "dpd" /\ ka_pc' = "write"
  /\ UNCHANGED <<now, wake, last_rx, last_tx, last_rekey, since, queue, peer>>

\* Nothing to do for rekeying and DPD.
Unprompted == ka_pc = "decide" /\ ~ RekeyDue /\ (Dpd # 0 => now <= overdue /\ ~ DpdDue)

SendsKeepalive ==
  /\ Unprompted /\ KeepaliveDue /\ ~ queue
  /\ writing' = "keepalive" /\ ka_pc' = "write"
  /\ UNCHANGED <<now, wake, times, since, queue, peer>>

\* "No need to send an explicit keepalive if we have real data to send".
SendsData ==
  /\ Unprompted /\ queue
  /\ queue' = FALSE
  /\ writing' = "data" /\ ka_pc' = "write"
  /\ UNCHANGED <<now, wake, times, since, peer>>

Sleeps ==
  /\ Unprompted /\ ~ KeepaliveDue /\ ~ queue
  /\ SleepUntil(Deadlines)
  /\ UNCHANGED <<now, times, writing, since, queue, peer>>

-----------------------------------------------------------------------------
\* Writing.

\* A DPD packet that arrives is answered, and some are lost.
Asked ==
  \/ ~ alive /\ UNCHANGED peer
  \/ /\ alive
     /\ answer' = IF answer = None THEN now + Delay ELSE answer
     /\ UNCHANGED <<alive, lost>>
  \/ /\ alive /\ ~ reliable /\ lost < MaxLoss
     /\ lost' = lost + 1
     /\ UNCHANGED <<alive, answer>>

Writes ==
  /\ ka_pc = "write"
  /\ last_tx' = now
  /\ IF writing = "dpd" THEN Asked ELSE UNCHANGED peer
  /\ writing' = "none" /\ since' = None
  /\ ka_pc' = "decide"
  /\ UNCHANGED <<now, wake, last_rx, last_dpd, last_rekey, queue>>

\* A write stalls: for ever with a dead peer, for a while with a live one.
Stall == ka_pc = "write" /\ reliable /\ (alive /\ since # None => now < since + MaxStall)

\* ka_stalled_action() has nothing to do.  last_tx is set before the write.
Stalls ==
  /\ Stall /\ ~ RekeyDue /\ ~ (Dpd # 0 /\ now >= overdue)
  /\ last_tx' = now
  /\ since' = IF since = None THEN now ELSE since
  /\ SleepUntil(StalledDeadlines)
  /\ UNCHANGED <<now, last_rx, last_dpd, last_rekey, writing, queue, peer>>

StallEndsInRekey ==
  /\ Stall /\ RekeyDue
  /\ IF Renews THEN Reconnect
     ELSE /\ last_rekey' = now /\ last_tx' = now
          /\ since' = IF since = None THEN now ELSE since
          /\ UNCHANGED <<ka_pc, now, wake, last_rx, last_dpd, writing, queue, peer>>

StallEndsDead ==
  /\ Stall /\ ~ RekeyDue /\ Dpd # 0 /\ now >= overdue
  /\ Reconnect

-----------------------------------------------------------------------------
\* What ends the sleep, and the world outside.

TimerFires ==
  /\ ka_pc = "asleep" /\ now >= wake
  /\ Round
  /\ UNCHANGED <<now, wake, times, writing, since, queue, peer>>

SocketWritable ==
  /\ ka_pc = "asleep" /\ since # None
  /\ ka_pc' = "write"
  /\ UNCHANGED <<now, wake, times, writing, since, queue, peer>>

TunReadable ==
  /\ ka_pc = "asleep" /\ ~ queue
  /\ queue' = TRUE
  /\ Round
  /\ UNCHANGED <<now, wake, times, writing, since, peer>>

\* Any packet of the peer sets last_rx, be it an answer or not.
Receives ==
  /\ ka_pc = "asleep" /\ alive
  /\ last_rx' = now
  /\ answer' \in {answer, None} /\ lost' = 0
  /\ Round
  /\ UNCHANGED <<now, wake, last_tx, last_dpd, last_rekey, writing, since, queue, alive>>

PeerDies ==
  /\ ka_pc = "asleep" /\ alive
  /\ alive' = FALSE /\ answer' = None
  /\ UNCHANGED <<ka_pc, now, wake, times, writing, since, queue, lost>>

\* Time passes up to what has to happen next.
Tick ==
  /\ ka_pc = "asleep" /\ now < wake /\ now < Horizon
  /\ answer # None => now < answer
  /\ alive /\ since # None => now < since + MaxStall
  /\ now' = now + 1
  /\ UNCHANGED <<ka_pc, wake, times, writing, since, queue, peer>>

TimeIsOver == now = Horizon /\ UNCHANGED kaVars

Step ==
  \/ Rekeys \/ PeerDead \/ SendsDpd \/ SendsKeepalive \/ SendsData \/ Sleeps
  \/ Writes \/ Stalls \/ StallEndsInRekey \/ StallEndsDead
  \/ TimerFires \/ SocketWritable \/ TunReadable \/ Receives \/ PeerDies \/ Tick \/ TimeIsOver

KeepaliveNext == Step /\ UNCHANGED reliable

KeepaliveSpec == KeepaliveInit /\ [][KeepaliveNext]_kaVars

-----------------------------------------------------------------------------
\* A silent peer is given up after two and a half DPD periods at the latest,
\* also while a write stalls and whatever else the loop has to do: the sleep
\* is never too long for that.
DeadPeerFound == Dpd # 0 => now - last_rx <= 2 * Dpd + Dpd \div 2

\* A peer that answers in time is not given up: not when one packet is lost on
\* DTLS and the next is answered, not when writes stall a while on TLS.
LivePeerKept == [][PeerDead \/ StallEndsDead => ~ alive]_kaVars

\* What Delay, MaxLoss and MaxStall have to be for that.
Answerable ==
  \A tls \in Transports :
    IF tls THEN 2 * MaxStall + Delay < Dpd
           ELSE MaxLoss * (Dpd \div 2) + Delay <= Dpd

\* The server hears from the client in every keepalive period, except while a
\* write stalls.
KeepaliveSent ==
  KeepalivePeriod # 0 /\ writing = "none" => now <= last_tx + KeepalivePeriod

\* No key is used longer than the rekey time.
RekeyOnTime == RekeyMethod # "none" => now <= last_rekey + Rekey

=============================================================================
