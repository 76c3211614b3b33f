------------------------------ MODULE EspReplay ------------------------------
(***************************************************************************)
(* One incoming ESP context under a network that loses, repeats, delays    *)
(* and reorders packets at will: each step offers verify_packet_seqno()    *)
(* any sequence number, as decrypt_esp_packet() does once the HMAC of a    *)
(* packet is right.                                                        *)
(***************************************************************************)
EXTENDS EspSeqno

CONSTANT Protect          \* vpninfo->esp_replay_protect

ASSUME ProtectAssumption == Protect \in BOOLEAN

VARIABLES
  window,   \* esp->seq and esp->seq_backlog
  seen,     \* history: every packet ever taken inside the window
  verdict   \* history: the last packet and what the function returned for it

vars == <<window, seen, verdict>>

TypeOK ==
  /\ window \in Window
  /\ seen \subseteq SeqNo
  /\ verdict \in [seq : SeqNo \cup {-1}, taken : BOOLEAN]

Init ==
  /\ window = EmptyWindow
  /\ seen = {}
  /\ verdict = [seq |-> -1, taken |-> FALSE]

verify_packet_seqno(s) ==
  /\ window' = Update(window, s)
  /\ verdict' = [seq |-> s, taken |-> Accepts(window, s, Protect)]
  /\ seen' = IF Ancient(window, s) THEN seen ELSE seen \cup {s}

Next == \E s \in SeqNo : verify_packet_seqno(s)

Spec == Init /\ [][Next]_vars

-----------------------------------------------------------------------------
\* The window tells the truth about every packet it covers: this is what the
\* shifts by delta + 1, by W - 1 and by W or more must keep.
WindowTellsTruth == TellsTruth(window, seen)

\* A packet that was taken once is never taken again while replay protection
\* is on, however late or reordered its copies are: across window jumps and at
\* the end of the sequence space too.
NoReplayTaken ==
  [][\A s \in SeqNo :
       Protect /\ verify_packet_seqno(s) /\ s \in seen => ~ verdict'.taken]_vars

\* The filter never costs a good packet: one not seen yet and at most W behind
\* the newest is always taken.
FreshPacketTaken ==
  [][\A s \in SeqNo :
       verify_packet_seqno(s) /\ s \notin seen /\ (\A n \in seen : n - s <= W)
         => verdict'.taken]_vars

\* The window and the once-only filter with unbounded memory are the same to
\* the sender of packets.
Filter == INSTANCE OnceOnly WITH seen <- seen, verdict <- verdict
ImplementsOnceOnly == Filter!Spec
=============================================================================
