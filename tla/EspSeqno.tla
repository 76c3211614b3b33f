------------------------------ MODULE EspSeqno ------------------------------
(***************************************************************************)
(* verify_packet_seqno() of esp-seqno.c as pure operators on one incoming  *)
(* window.                                                                 *)
(*                                                                         *)
(* A window is the pair of fields of struct esp the function works on:     *)
(*   seq      the next *expected* sequence number, a 64-bit counter;       *)
(*   backlog  seq_backlog, as the set of the positions of its one bits.    *)
(* Bit i is the packet seq - 2 - i; a one bit is a packet not seen yet.    *)
(***************************************************************************)
EXTENDS Integers

CONSTANTS
  W,        \* bits of seq_backlog: 64 in the code
  MaxSeq    \* largest sequence number on the wire: 2^32 - 1 in the code

ASSUME WindowAssumption ==
  /\ W \in Nat \ {0}
  /\ MaxSeq \in Nat
  /\ MaxSeq > W

SeqNo == 0 .. MaxSeq
Bits  == 0 .. W - 1

\* seq may reach a value no packet can carry.
Window == [seq : 0 .. MaxSeq + 1, backlog : SUBSET Bits]

EmptyWindow == [seq |-> 0, backlog |-> {}]

\* backlog << n: a bit shifted past the top is lost.
ShiftLeft(backlog, n) == {i \in Bits : i - n \in backlog}

\* How far s is behind the expected packet, as a uint32_t: 0 when the window
\* stands at MaxSeq + 1 and s is 0.
Behind(w, s) == (w.seq - s) % (MaxSeq + 1)

Ancient(w, s) == s < w.seq /\ (Behind(w, s) > W + 1 \/ Behind(w, s) = 0)

\* The latest packet itself, or one whose bit is clear.
Replayed(w, s) ==
  /\ s < w.seq
  /\ ~ Ancient(w, s)
  /\ Behind(w, s) = 1 \/ Behind(w, s) - 2 \notin w.backlog

\* Broken on purpose: the shift forgets the zero bit of packet seq - 1.
SkipBacklog_ShortShift(w, skipped) ==
  IF skipped >= W THEN Bits
  ELSE ShiftLeft(w.backlog, skipped) \cup 0 .. skipped - 1

\* Broken on purpose: a jump past the whole window keeps the old bits.
SkipBacklog_NoReset(w, skipped) ==
  IF skipped >= W - 1 THEN w.backlog
  ELSE ShiftLeft(w.backlog, skipped + 1) \cup 0 .. skipped - 1

\* s is new, and seq - s packets were skipped to get there.
SkipBacklog(w, skipped) ==
  IF skipped >= W THEN Bits
  ELSE IF skipped = W - 1 THEN Bits \ {W - 1}
  ELSE ShiftLeft(w.backlog, skipped + 1) \cup 0 .. skipped - 1

Update(w, s) ==
  IF s = w.seq THEN [seq |-> s + 1, backlog |-> ShiftLeft(w.backlog, 1)]
  ELSE IF s > w.seq
       THEN [seq |-> s + 1, backlog |-> SkipBacklog(w, s - w.seq)]
  ELSE IF Ancient(w, s) \/ Replayed(w, s) THEN w
  ELSE [w EXCEPT !.backlog = @ \ {Behind(w, s) - 2}]

\* The comment at the head of the function, for a set of packets received:
\* packet seq - 1 is in it, no later one is, and each bit of the backlog tells
\* the truth about its packet.
TellsTruth(w, received) ==
  /\ w.seq > 0 => w.seq - 1 \in received
  /\ \A s \in received : s < w.seq
  /\ \A i \in Bits : w.seq - 2 - i >= 0 =>
                       (i \in w.backlog <=> w.seq - 2 - i \notin received)

\* Return value 0. Without esp_replay_protect nothing is refused, but the
\* window is kept all the same.
Accepts(w, s, protect) == protect => ~ Ancient(w, s) /\ ~ Replayed(w, s)
=============================================================================
