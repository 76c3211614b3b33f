-------------------------------- MODULE Tun ---------------------------------
(***************************************************************************)
(* The tun device, read and written by the loop itself (tun_mainloop) or   *)
(* through rings that it shares with the kernel's vhost-net threads        *)
(* (vhost.c).  The loop and the kernel's threads, one for each ring, run   *)
(* at the same time; each tells the other when it wants to be woken.       *)
(* Packets are numbered in the order in which they come.                   *)
(***************************************************************************)
EXTENDS Integers, Sequences, FiniteSetsExt

CONSTANTS
  Loads,        \* pairs: packets that come from the VPN and from applications (bound)
  RingSize,     \* vhost_ring_size
  IndexSpan,    \* ring indexes wrap here, at 2^16 in the code
  max_qlen,
  MaxStalls     \* packets that the server or the device refuses for now (bound)

VARIABLES
  device,       \* setup, tun: the loop reads it; vhost: the rings are there;
                \* open: only /dev/vhost-net is; none
  pc,           \* what the loop does next
  load,
  received,     \* packets from the VPN so far
  incoming, outgoing,
  sent, written, dropped,   \* history: over the VPN, to the device, lost in os_write_tun()
  asked,        \* packets of applications so far
  tunq,         \* those that wait in the device
  desc,         \* by ring and descriptor: the packet, Buffer, or 0
  avail, used,  \* the halves of each ring
  seen_used,
  kernel,       \* of each ring: what its thread does and has
  kick_fd,      \* by ring: its thread was kicked
  call_fd,
  kick, did_work, readable,
  tun_monitored, \* "read", "write"
  stalls

Rings == {"rx", "tx"}
Buffer == -1
Slots == 0..RingSize-1
Slot(i) == i % RingSize
Up(i) == (i + 1) % IndexSpan
HasRoom == Len(outgoing) < max_qlen

ASSUME TunAssumption ==
  /\ RingSize \in Nat \ {0} /\ max_qlen \in 2..RingSize
  /\ IndexSpan \in Nat /\ IndexSpan > RingSize /\ IndexSpan % RingSize = 0
  /\ Loads \subseteq Nat \X Nat /\ MaxStalls \in Nat

envVars == <<load, received, asked, tunq, stalls>>
ringVars == <<desc, avail, used, seen_used, kernel, kick_fd, call_fd>>
queueVars == <<incoming, outgoing, sent, written, dropped>>
loopVars == <<device, pc, kick, did_work, readable, tun_monitored>>
deviceVars == <<envVars, ringVars, queueVars, loopVars>>

TunInit ==
  /\ device = "setup" /\ pc = "setup" /\ load \in Loads
  /\ received = 0 /\ asked = 0 /\ tunq = <<>> /\ stalls = 0
  /\ incoming = <<>> /\ outgoing = <<>> /\ sent = <<>> /\ written = <<>> /\ dropped = {}
  /\ desc = [r \in Rings |-> [d \in Slots |-> 0]]
  /\ avail = [r \in Rings |-> [idx |-> 0, ring |-> [s \in Slots |-> s], used_event |-> 0]]
  /\ used = [r \in Rings |-> [idx |-> 0, ring |-> [s \in Slots |-> 0], avail_event |-> 0]]
  /\ seen_used = [r \in Rings |-> 0]
  /\ kernel = [r \in Rings |-> [does |-> "work", avail |-> 0, taken |-> {}, signalled |-> 0]]
  /\ kick_fd = [r \in Rings |-> FALSE] /\ call_fd = FALSE
  /\ kick = FALSE /\ did_work = FALSE /\ readable = FALSE /\ tun_monitored = {}

\* setup_vhost(): without the features that it wants it leaves the file open.
setup_vhost ==
  /\ pc = "setup" /\ pc' = "vpn"
  /\ \/ device' = "vhost" /\ UNCHANGED <<readable, tun_monitored>>
     \/ device' = "open" /\ readable' = TRUE /\ tun_monitored' = {"read"}
     \/ device' = "tun" /\ readable' = TRUE /\ tun_monitored' = {"read"}
  /\ UNCHANGED <<envVars, ringVars, queueVars, kick, did_work>>

\* os_shutdown_tun(), shutdown_vhost(): the file is closed, then the packets are freed.
shutdown_vhost ==
  /\ pc = "vpn" /\ pc' = "closed" /\ device' = "none"
  /\ desc' = [r \in Rings |-> [d \in Slots |-> 0]]
  /\ UNCHANGED <<envVars, avail, used, seen_used, kernel, kick_fd, call_fd, queueVars, kick,
                 did_work, readable, tun_monitored>>

-----------------------------------------------------------------------------
(* The world.                                                              *)

AppSends ==
  /\ device \notin {"setup", "none"} /\ asked < load[2]
  /\ asked' = asked + 1 /\ tunq' = Append(tunq, asked + 1)
  /\ UNCHANGED <<load, received, stalls, ringVars, queueVars, loopVars>>

\* The protocol's part of a turn: it sends what is queued unless the server stalls,
\* and takes what has come.
VpnMoves ==
  /\ pc = "vpn"
  /\ \/ sent' = sent \o outgoing /\ outgoing' = <<>> /\ UNCHANGED stalls
     \/ outgoing # <<>> /\ stalls < MaxStalls /\ stalls' = stalls + 1
        /\ UNCHANGED <<sent, outgoing>>
  /\ \E n \in 0..(load[1] - received) :
       /\ received' = received + n
       /\ incoming' = incoming \o [i \in 1..n |-> received + i]
       /\ did_work' = (n > 0)
  /\ pc' = CASE device = "tun" -> "tun" [] device = "vhost" -> "rx" [] OTHER -> "crash"
  /\ kick' = FALSE
  /\ UNCHANGED <<load, asked, tunq, ringVars, written, dropped, device, readable, tun_monitored>>

\* process_ring() finds no ring behind the file that was left open.
Crash ==
  /\ pc = "crash" /\ pc' = "closed" /\ device' = "none"
  /\ UNCHANGED <<envVars, ringVars, queueVars, kick, did_work, readable, tun_monitored>>

-----------------------------------------------------------------------------
(* The kernel's thread of ring r.                                          *)

\* It sends a packet to the device's users, or fills a buffer with one of theirs.
Take(r) ==
  LET k == kernel[r]
      d == avail[r].ring[Slot(k.avail)] IN
  /\ device = "vhost" /\ k.does = "work" /\ k.avail # avail[r].idx
  /\ IF r = "tx"
     THEN /\ written' = Append(written, desc[r][d])
          /\ UNCHANGED <<desc, tunq>>
     ELSE /\ tunq # <<>> /\ k.taken = {}
          /\ desc' = [desc EXCEPT ![r][d] = Head(tunq)] /\ tunq' = Tail(tunq)
          /\ UNCHANGED written
  /\ kernel' = [kernel EXCEPT ![r].avail = Up(@), ![r].taken = @ \cup {d}]
  /\ UNCHANGED <<load, received, asked, stalls, avail, used, seen_used, kick_fd, call_fd,
                 incoming, outgoing, sent, dropped, loopVars>>

GiveBack(r) ==
  /\ device = "vhost"
  /\ \E d \in kernel[r].taken :
       /\ used' = [used EXCEPT ![r].ring[Slot(used[r].idx)] = d, ![r].idx = Up(@)]
       /\ kernel' = [kernel EXCEPT ![r].taken = @ \ {d}]
  /\ UNCHANGED <<envVars, desc, avail, seen_used, kick_fd, call_fd, queueVars, loopVars>>

\* vring_need_event(): the index wanted is among those passed since the last call.
need_event(event, new, old) ==
  (new - event - 1) % IndexSpan < (new - old) % IndexSpan

Call(r) ==
  LET k == kernel[r] IN
  /\ device = "vhost" /\ k.signalled # used[r].idx
  /\ call_fd' = (call_fd \/ need_event(avail[r].used_event, used[r].idx, k.signalled))
  /\ kernel' = [kernel EXCEPT ![r].signalled = used[r].idx]
  /\ UNCHANGED <<envVars, desc, avail, used, seen_used, kick_fd, queueVars, loopVars>>

\* With nothing left it asks for a kick, and looks again.
AskForKick(r) ==
  LET k == kernel[r] IN
  /\ device = "vhost" /\ k.does = "work" /\ k.avail = avail[r].idx
  /\ k.taken = {} /\ k.signalled = used[r].idx
  /\ used' = [used EXCEPT ![r].avail_event = k.avail]
  /\ kernel' = [kernel EXCEPT ![r].does = "look"]
  /\ UNCHANGED <<envVars, desc, avail, seen_used, kick_fd, call_fd, queueVars, loopVars>>

LookAgain(r) ==
  LET k == kernel[r] IN
  /\ device = "vhost" /\ k.does = "look"
  /\ kernel' = [kernel EXCEPT ![r].does = IF k.avail # avail[r].idx THEN "work" ELSE "sleep"]
  /\ UNCHANGED <<envVars, desc, avail, used, seen_used, kick_fd, call_fd, queueVars, loopVars>>

Kicked(r) ==
  /\ device = "vhost" /\ kernel[r].does = "sleep" /\ kick_fd[r]
  /\ kernel' = [kernel EXCEPT ![r].does = "work"]
  /\ kick_fd' = [kick_fd EXCEPT ![r] = FALSE]
  /\ UNCHANGED <<envVars, desc, avail, used, seen_used, call_fd, queueVars, loopVars>>

-----------------------------------------------------------------------------
(* process_ring().                                                         *)

\* A packet that the device does not want at all is lost.
os_write_tun ==
  /\ incoming' = Tail(incoming)
  /\ \/ written' = Append(written, Head(incoming)) /\ UNCHANGED dropped
     \/ dropped' = dropped \cup {Head(incoming)} /\ UNCHANGED written

\* Packets that the ring hands back: sent ones are freed, read ones are queued
\* until the queue is full; their descriptors are lined up to be used again.
TakeUsed(r) ==
  LET pending == (used[r].idx - seen_used[r]) % IndexSpan
      n == IF r = "tx" THEN pending ELSE Min({pending, max_qlen - Len(outgoing)})
      back == [i \in 1..n |-> used[r].ring[Slot(seen_used[r] + i - 1)]]
      freed == {back[i] : i \in 1..n} IN
  /\ desc' = [desc EXCEPT ![r] = [d \in Slots |-> IF d \in freed THEN 0 ELSE @[d]]]
  /\ avail' = [avail EXCEPT ![r].ring =
       [s \in Slots |-> IF \E i \in 1..n : Slot(seen_used[r] + i - 1) = s
                        THEN back[CHOOSE i \in 1..n : Slot(seen_used[r] + i - 1) = s]
                        ELSE @[s]]]
  /\ seen_used' = [seen_used EXCEPT ![r] = (@ + n) % IndexSpan]
  /\ IF r = "rx"
     THEN /\ outgoing' = outgoing \o [i \in 1..n |-> desc[r][back[i]]]
          /\ did_work' = (did_work \/ n > 0)
     ELSE UNCHANGED <<outgoing, did_work>>
  /\ UNCHANGED <<envVars, used, kernel, kick_fd, call_fd, incoming, sent, written, dropped,
                 device, kick, readable, tun_monitored>>

process_used_rx ==
  /\ pc = "rx" /\ HasRoom /\ pc' = "rxfill" /\ TakeUsed("rx")

SkipRx ==
  /\ pc = "rx" /\ ~HasRoom /\ pc' = "tx"
  /\ UNCHANGED <<envVars, ringVars, queueVars, device, kick, did_work, readable, tun_monitored>>

process_used_tx == pc = "tx" /\ pc' = "txfill" /\ TakeUsed("tx")

NextDesc(r) == avail[r].ring[Slot(avail[r].idx)]
IsFree(r) == desc[r][NextDesc(r)] = 0

Publish(r, packet) ==
  /\ desc' = [desc EXCEPT ![r][NextDesc(r)] = packet]
  /\ avail' = [avail EXCEPT ![r].idx = Up(@)]

PrimeRx ==
  /\ pc = "rxfill" /\ IsFree("rx") /\ Publish("rx", Buffer) /\ pc' = "rxevent"
  /\ UNCHANGED <<envVars, used, seen_used, kernel, kick_fd, call_fd, queueVars, device, kick,
                 did_work, readable, tun_monitored>>

\* os_write_tun() refuses for now, which has the device watched, and it goes to the ring.
QueueTx ==
  /\ pc = "txfill" /\ IsFree("tx") /\ incoming # <<>>
  /\ \/ UNCHANGED <<stalls, tun_monitored>>
        /\ \/ kick \/ Len(incoming) - 1 >= max_qlen \div 2
           \/ avail["tx"].idx # used["tx"].avail_event
     \/ /\ ~kick /\ Len(incoming) - 1 < max_qlen \div 2
        /\ avail["tx"].idx = used["tx"].avail_event
        /\ stalls < MaxStalls /\ stalls' = stalls + 1
        /\ tun_monitored' = tun_monitored \cup {"write"}
  /\ Publish("tx", Head(incoming)) /\ incoming' = Tail(incoming) /\ pc' = "txevent"
  /\ UNCHANGED <<load, received, asked, tunq, used, seen_used, kernel, kick_fd, call_fd,
                 outgoing, sent, written, dropped, device, kick, did_work, readable>>

\* Broken on purpose: nothing is queued here, but the kernel may still have some.
WriteTun_Early ==
  /\ pc = "txfill" /\ IsFree("tx") /\ incoming # <<>>
  /\ ~kick /\ Len(incoming) - 1 < max_qlen \div 2
  /\ incoming' = Tail(incoming)
  /\ written' = Append(written, Head(incoming)) /\ UNCHANGED dropped
  /\ UNCHANGED <<envVars, ringVars, outgoing, sent, loopVars>>

\* The kernel has nothing left and a few packets are waiting: they are written at once.
WriteTun ==
  /\ pc = "txfill" /\ IsFree("tx") /\ incoming # <<>>
  /\ ~kick /\ Len(incoming) - 1 < max_qlen \div 2
  /\ avail["tx"].idx = used["tx"].avail_event
  /\ os_write_tun
  /\ UNCHANGED <<envVars, ringVars, outgoing, sent, loopVars>>

\* The index is written before avail_event is read.
CheckEvent(r) ==
  /\ pc = (IF r = "rx" THEN "rxevent" ELSE "txevent")
  /\ pc' = (IF r = "rx" THEN "rxfill" ELSE "txfill")
  /\ kick' = (kick \/ Up(used[r].avail_event) = avail[r].idx)
  /\ UNCHANGED <<envVars, ringVars, queueVars, device, did_work, readable, tun_monitored>>

Filled ==
  /\ \/ pc = "rxfill" /\ ~IsFree("rx") /\ pc' = "tx"
     \/ pc = "txfill" /\ (~IsFree("tx") \/ incoming = <<>>) /\ pc' = "kick"
  /\ UNCHANGED <<envVars, ringVars, queueVars, device, kick, did_work, readable, tun_monitored>>

-----------------------------------------------------------------------------
(* The rest of vhost_tun_mainloop().                                       *)

\* The eventfd is read when there is no work left; it stays marked as readable, so that
\* it is read again in a turn that set_ring_wake() asks for.
Kick ==
  LET worked == did_work \/ kick IN
  /\ pc = "kick" /\ did_work' = worked
  /\ kick_fd' = (IF kick THEN [r \in Rings |-> TRUE] ELSE kick_fd)
  /\ call_fd' = (call_fd /\ (worked \/ ~readable))
  /\ pc' = IF worked THEN "vpn" ELSE "waketx"
  /\ UNCHANGED <<envVars, desc, avail, used, seen_used, kernel, queueVars, device, kick,
                 readable, tun_monitored>>

\* The end of a turn in which nothing was done: vhost_r is cleared.
EndsTurn == pc' = "sleep" /\ readable' = FALSE

\* set_ring_wake() asks for a call; none for packets that could not be queued.
set_ring_wake(r) ==
  /\ pc = (IF r = "rx" THEN "wakerx" ELSE "waketx")
  /\ IF r = "rx" /\ ~HasRoom
     THEN EndsTurn /\ UNCHANGED avail
     ELSE /\ avail' = [avail EXCEPT ![r].used_event = seen_used[r]]
          /\ pc' = (IF r = "rx" THEN "lookrx" ELSE "looktx")
          /\ UNCHANGED readable
  /\ UNCHANGED <<envVars, desc, used, seen_used, kernel, kick_fd, call_fd, queueVars, device,
                 kick, did_work, tun_monitored>>

\* Broken on purpose: the kernel was asked to call, so it will.
LookAtUsed_Trusts(r) ==
  /\ pc = (IF r = "rx" THEN "lookrx" ELSE "looktx")
  /\ IF r = "rx" THEN EndsTurn ELSE pc' = "wakerx" /\ UNCHANGED readable
  /\ UNCHANGED <<envVars, ringVars, queueVars, device, kick, did_work, tun_monitored>>

\* If the ring has moved on meanwhile there is one more turn.
LookAtUsed(r) ==
  /\ pc = (IF r = "rx" THEN "lookrx" ELSE "looktx")
  /\ \/ used[r].idx # seen_used[r] /\ pc' = "vpn" /\ UNCHANGED readable
     \/ used[r].idx = seen_used[r] /\ r = "rx" /\ EndsTurn
     \/ used[r].idx = seen_used[r] /\ r = "tx" /\ pc' = "wakerx" /\ UNCHANGED readable
  /\ UNCHANGED <<envVars, ringVars, queueVars, device, kick, did_work, tun_monitored>>

-----------------------------------------------------------------------------
(* tun_mainloop(), without rings.                                          *)

AfterTun == IF did_work THEN "vpn" ELSE "sleep"

\* It reads until the device has no more or the queue is full; then it no longer watches.
ReadPackets ==
  LET reads == readable /\ "read" \in tun_monitored
      n == IF reads THEN Min({Len(tunq), max_qlen - Len(outgoing)}) ELSE 0
      full == reads /\ Len(outgoing) + n >= max_qlen IN
  /\ pc = "tun" /\ pc' = "write"
  /\ outgoing' = outgoing \o SubSeq(tunq, 1, n)
  /\ tunq' = SubSeq(tunq, n + 1, Len(tunq))
  /\ did_work' = (did_work \/ n > 0)
  /\ tun_monitored' = IF reads THEN tun_monitored \ (IF full THEN {"read"} ELSE {})
                      ELSE tun_monitored \cup (IF HasRoom THEN {"read"} ELSE {})
  /\ UNCHANGED <<load, received, asked, stalls, ringVars, incoming, sent, written, dropped,
                 device, kick, readable>>

\* A packet that the device refuses for now goes back to the head of the queue.
WritePacket ==
  /\ pc = "write" /\ incoming # <<>>
  /\ \/ os_write_tun /\ pc' = pc /\ UNCHANGED stalls
        /\ tun_monitored' = tun_monitored \ {"write"}
     \/ /\ stalls < MaxStalls /\ stalls' = stalls + 1
        /\ tun_monitored' = tun_monitored \cup {"write"}
        /\ pc' = AfterTun /\ UNCHANGED <<incoming, written, dropped>>
  /\ UNCHANGED <<load, received, asked, tunq, ringVars, outgoing, sent, device, kick,
                 did_work, readable>>

Written ==
  /\ pc = "write" /\ incoming = <<>> /\ pc' = AfterTun
  /\ UNCHANGED <<envVars, ringVars, queueVars, device, kick, did_work, readable, tun_monitored>>

-----------------------------------------------------------------------------
(* The loop sleeps until the kernel calls, the device wants it, something comes *)
(* from the server, or it takes packets again.                             *)

TunPoll ==
  /\ pc = "sleep"
  /\ \/ device = "vhost" /\ call_fd
     \/ device = "tun" /\ "read" \in tun_monitored /\ tunq # <<>>
     \/ "write" \in tun_monitored
     \/ outgoing # <<>>
     \/ received < load[1]
  /\ pc' = "vpn"
  /\ readable' = IF device = "vhost" THEN call_fd ELSE tunq # <<>>
  /\ UNCHANGED <<envVars, ringVars, queueVars, device, kick, did_work, tun_monitored>>

KernelStep(r) ==
  Take(r) \/ GiveBack(r) \/ Call(r) \/ AskForKick(r) \/ LookAgain(r) \/ Kicked(r)

LoopStep ==
  \/ setup_vhost \/ VpnMoves \/ Crash
  \/ process_used_rx \/ SkipRx \/ process_used_tx \/ PrimeRx \/ QueueTx \/ WriteTun \/ Filled
  \/ Kick \/ ReadPackets \/ WritePacket \/ Written \/ TunPoll
  \/ \E r \in Rings : CheckEvent(r) \/ set_ring_wake(r) \/ LookAtUsed(r)

TunNext == LoopStep \/ (\E r \in Rings : KernelStep(r)) \/ AppSends \/ shutdown_vhost

\* The kernel runs its threads and the loop's; nobody has to send anything.
TunFairness ==
  /\ WF_deviceVars(LoopStep)
  /\ \A r \in Rings : WF_deviceVars(KernelStep(r))

TunSpec == TunInit /\ [][TunNext]_deviceVars /\ TunFairness
-----------------------------------------------------------------------------
OneTo(n) == [i \in 1..n |-> i]

\* With the queues between the ends: what applications send goes over the VPN in order,
\* none lost or sent twice, whichever way it was read; what comes from the VPN reaches the
\* device in order and once, though a packet may be written past the ring, and is lost only
\* where the device refused it for good (vhost.c:560).
PacketsInOrder ==
  /\ sent \o outgoing = OneTo(Len(sent \o outgoing))
  /\ \A i, j \in 1..Len(written) : i < j => written[i] < written[j]
  /\ LET gone == {written[i] : i \in 1..Len(written)} \cup dropped IN
       gone = 1..Cardinality(gone)

\* Seen from its ends, each direction is a pipe that keeps the order of its packets,
\* however they went through the queues, the rings and the kernel's threads, one by
\* one or past the ring; only the device may lose one, in its turn (process_ring(),
\* tun_mainloop(), os_write_tun()).
ToServer == INSTANCE PacketPipe WITH put <- asked, taken <- sent, lost <- {}
ToDevice == INSTANCE PacketPipe WITH put <- received, taken <- written, lost <- dropped

ImplementsPipes == ToServer!Spec /\ ToDevice!Spec

\* No kick and no call is ever lost: whatever was received and whatever applications
\* sent gets where it goes, without the loop's timers (vhost.c:566, vhost.c:616).
AllDelivered ==
  <>[](\/ pc = "closed"
       \/ /\ Len(written) + Cardinality(dropped) = received
          /\ Len(sent) = asked)
=============================================================================
