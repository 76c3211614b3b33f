---------------------------- MODULE Parts_proofs ----------------------------
(***************************************************************************)
(* Small parts that share nothing: those of MCParts, and PPP.              *)
(*                                                                         *)
(* The replay window is exact for every width of the backlog and every     *)
(* sequence space larger than it.  WindowTellsTruth is inductive together  *)
(* with TypeOK: each branch of verify_packet_seqno() moves the bits by as  *)
(* much as it moves seq.                                                   *)
(*                                                                         *)
(* No HOTP code is sent twice, for any number of programs and any number   *)
(* of crashes, while the token is kept by a lock or by one program.        *)
(*                                                                         *)
(* The search for the MTU finds what the path carries, for any sizes and   *)
(* any number of tries: what is known of both its ends is inductive.       *)
(*                                                                         *)
(* PPP is negotiated anew on each connection before the network is used,   *)
(* for any number of connections and of control packets in the queue.      *)
(***************************************************************************)
EXTENDS MCParts, Ppp, TLAPS

\* The uint32_t distance is the true distance, except that a whole sequence
\* space away is 0.
LEMMA BehindValue ==
  ASSUME NEW w \in Window, NEW s \in SeqNo, s < w.seq
  PROVE  /\ w.seq - s <= MaxSeq => Behind(w, s) = w.seq - s
         /\ w.seq - s = MaxSeq + 1 => Behind(w, s) = 0
         /\ w.seq - s \in 1 .. MaxSeq + 1
<1> DEFINE d == w.seq - s
<1>1. d \in 1 .. MaxSeq + 1
  BY WindowAssumption DEF Window, SeqNo
<1>2. d \in Int /\ MaxSeq + 1 \in Nat \ {0}
  BY <1>1, WindowAssumption
<1>3. ASSUME NEW m \in Nat \ {0}, NEW e \in 0 .. m - 1 PROVE e % m = e
  OBVIOUS
<1>4. ASSUME NEW m \in Nat \ {0} PROVE m % m = 0
  OBVIOUS
<1> HIDE DEF d
<1>5. d <= MaxSeq => d % (MaxSeq + 1) = d
  <2> SUFFICES ASSUME d <= MaxSeq PROVE d % (MaxSeq + 1) = d
    OBVIOUS
  <2>1. d \in 0 .. (MaxSeq + 1) - 1
    BY <1>1, <1>2, WindowAssumption
  <2> QED
    BY <2>1, <1>2, <1>3
<1>6. d = MaxSeq + 1 => d % (MaxSeq + 1) = 0
  BY <1>2, <1>4
<1> QED
  BY <1>1, <1>5, <1>6 DEF d, Behind

\* The function leaves a window of the right shape.
LEMMA UpdateType ==
  ASSUME NEW w \in Window, NEW s \in SeqNo
  PROVE  Update(w, s) \in Window
<1>1. CASE s = w.seq
  BY <1>1, WindowAssumption DEF Update, Window, SeqNo, ShiftLeft, Bits
<1>2. CASE s > w.seq
  BY <1>2, WindowAssumption DEF Update, Window, SeqNo, ShiftLeft, Bits, SkipBacklog
<1>3. CASE s < w.seq
  BY <1>3 DEF Update, Window, SeqNo
<1> QED
  BY <1>1, <1>2, <1>3 DEF Window, SeqNo

\* Inside the window the bit test answers exactly whether the packet came.
LEMMA ReplayedIffReceived ==
  ASSUME NEW w \in Window, NEW received \in SUBSET SeqNo, NEW s \in SeqNo,
         TellsTruth(w, received), s < w.seq, ~ Ancient(w, s)
  PROVE  Replayed(w, s) <=> s \in received
<1> DEFINE d == Behind(w, s)
<1>1. d = w.seq - s /\ d \in 1 .. W + 1
  <2>1. w.seq - s # MaxSeq + 1 /\ w.seq - s \in 1 .. MaxSeq + 1
    BY BehindValue DEF Ancient
  <2>2. d = w.seq - s
    BY <2>1, BehindValue, WindowAssumption
  <2> QED
    BY <2>1, <2>2, WindowAssumption DEF Ancient
<1>2. CASE d = 1
  BY <1>1, <1>2 DEF Replayed, TellsTruth, Window, SeqNo
<1>3. CASE d # 1
  <2>1. d - 2 \in Bits /\ w.seq - 2 - (d - 2) = s
    BY <1>1, <1>3, WindowAssumption DEF Bits, Window, SeqNo
  <2>2. d - 2 \in w.backlog <=> s \notin received
    BY <2>1 DEF TellsTruth, SeqNo
  <2> QED
    BY <2>2, <1>3 DEF Replayed
<1> QED
  BY <1>2, <1>3

\* One call keeps the window true to what has been received.
LEMMA UpdateTellsTruth ==
  ASSUME NEW w \in Window, NEW received \in SUBSET SeqNo, NEW s \in SeqNo,
         TellsTruth(w, received)
  PROVE  TellsTruth(Update(w, s), IF Ancient(w, s) THEN received ELSE received \cup {s})
<1>1. CASE s = w.seq
  BY <1>1, WindowAssumption
  DEF Update, Window, SeqNo, ShiftLeft, Bits, TellsTruth, Ancient
<1>2. CASE s > w.seq
  <2> DEFINE skipped == s - w.seq
             u == Update(w, s)
  <2>1. u = [seq |-> s + 1, backlog |-> SkipBacklog(w, skipped)] /\ skipped \in 1 .. MaxSeq
    <3>1. skipped \in 1 .. MaxSeq
      BY <1>2, WindowAssumption DEF Window, SeqNo
    <3>2. s # w.seq
      BY <1>2 DEF Window, SeqNo
    <3> QED
      BY <1>2, <3>1, <3>2 DEF Update
  <2>2. ~ Ancient(w, s) /\ \A n \in received : n < s
    BY <1>2 DEF Ancient, TellsTruth, Window, SeqNo
  <2>3. ASSUME NEW i \in Bits, s - 1 - i >= 0
        PROVE  i \in SkipBacklog(w, skipped) <=> s - 1 - i \notin received
    <3>1. CASE i < skipped
      <4>1. s - 1 - i >= w.seq
        BY <3>1, <2>1 DEF Bits, Window, SeqNo
      <4>2. s - 1 - i \notin received
        BY <4>1 DEF TellsTruth, Bits, Window, SeqNo
      <4>3. i \in SkipBacklog(w, skipped)
        BY <3>1, <2>1, WindowAssumption DEF SkipBacklog, Bits
      <4> QED
        BY <4>2, <4>3
    <3>2. CASE i = skipped
      BY SMTT(30), <3>2, <2>1, <2>3, WindowAssumption
      DEF SkipBacklog, Bits, TellsTruth, ShiftLeft, Window, SeqNo
    <3>3. CASE i > skipped
      <4>1. i - (skipped + 1) \in Bits /\ skipped < W - 1
        BY <3>3, <2>1, WindowAssumption DEF Bits
      <4>2. i \in SkipBacklog(w, skipped) <=> i - (skipped + 1) \in w.backlog
        BY <3>3, <4>1, <2>1, WindowAssumption DEF SkipBacklog, Bits, ShiftLeft
      <4>3. w.seq - 2 - (i - (skipped + 1)) = s - 1 - i
        BY <2>1 DEF Bits, Window, SeqNo
      <4> QED
        BY <4>1, <4>2, <4>3, <2>3 DEF TellsTruth
    <3> QED
      BY <3>1, <3>2, <3>3, <2>1 DEF Bits
  <2> HIDE DEF skipped
  <2> QED
    BY <2>1, <2>2, <2>3 DEF TellsTruth, Bits, SeqNo
<1>3. CASE s < w.seq
  <2>1. CASE Ancient(w, s)
    BY <1>3, <2>1 DEF Update, SeqNo, Window
  <2>2. CASE ~ Ancient(w, s) /\ Replayed(w, s)
    <3>1. s \in received
      BY <1>3, <2>2, ReplayedIffReceived
    <3>2. Update(w, s) = w /\ received \cup {s} = received
      BY <1>3, <2>2, <3>1 DEF Update, SeqNo, Window
    <3> QED
      BY <2>2, <3>2
  <2>3. CASE ~ Ancient(w, s) /\ ~ Replayed(w, s)
    <3> DEFINE b == w.seq - s - 2
    <3>1. w.seq - s # MaxSeq + 1 /\ w.seq - s \in 1 .. MaxSeq + 1
      BY <1>3, <2>3, BehindValue DEF Ancient
    <3>2. Behind(w, s) = w.seq - s
      BY <1>3, <3>1, BehindValue, WindowAssumption
    <3>3. Update(w, s) = [w EXCEPT !.backlog = @ \ {b}]
      BY <1>3, <2>3, <3>2 DEF Update, SeqNo, Window
    <3>4. ASSUME NEW i \in Bits, w.seq - 2 - i >= 0
          PROVE  i \in w.backlog \ {b} <=> w.seq - 2 - i \notin received \cup {s}
      BY <1>3, <3>4 DEF TellsTruth, Bits, Window, SeqNo
    <3> HIDE DEF b
    <3> QED
      BY <1>3, <2>3, <3>3, <3>4 DEF TellsTruth, Window, SeqNo
  <2> QED
    BY <2>1, <2>2, <2>3
<1> QED
  BY <1>1, <1>2, <1>3 DEF Window, SeqNo

-----------------------------------------------------------------------------
\* The window keeps its shape: seq stays a number the 64-bit counter holds and
\* one past the last packet at most, whatever arrives.
THEOREM TypeCorrect == Spec => []TypeOK
<1>1. Init => TypeOK
  BY WindowAssumption DEF Init, TypeOK, EmptyWindow, Window
<1>2. TypeOK /\ [Next]_vars => TypeOK'
  <2> SUFFICES ASSUME TypeOK, [Next]_vars PROVE TypeOK'
    OBVIOUS
  <2>1. ASSUME NEW s \in SeqNo, verify_packet_seqno(s) PROVE TypeOK'
    <3>1. window' \in Window
      BY <2>1, UpdateType DEF TypeOK, verify_packet_seqno
    <3>2. seen' \subseteq SeqNo
      BY <2>1 DEF TypeOK, verify_packet_seqno
    <3>3. verdict' \in [seq : SeqNo \cup {-1}, taken : BOOLEAN]
      <4>1. Accepts(window, s, Protect) \in BOOLEAN
        BY DEF Accepts
      <4> QED
        BY <2>1, <4>1 DEF verify_packet_seqno
    <3> QED
      BY <3>1, <3>2, <3>3 DEF TypeOK
  <2>2. CASE UNCHANGED vars
    BY <2>2 DEF TypeOK, vars
  <2> QED
    BY <2>1, <2>2 DEF Next
<1> QED
  BY <1>1, <1>2, PTL DEF Spec

\* The backlog is exact for every width and every arrival order.
THEOREM BacklogExact == Spec => []WindowTellsTruth
<1>1. Init => WindowTellsTruth
  BY DEF Init, WindowTellsTruth, TellsTruth, EmptyWindow, Bits
<1>2. TypeOK /\ WindowTellsTruth /\ [Next]_vars => WindowTellsTruth'
  <2> SUFFICES ASSUME TypeOK, WindowTellsTruth, [Next]_vars PROVE WindowTellsTruth'
    OBVIOUS
  <2>1. ASSUME NEW s \in SeqNo, verify_packet_seqno(s) PROVE WindowTellsTruth'
    BY <2>1, UpdateTellsTruth DEF verify_packet_seqno, WindowTellsTruth, TypeOK
  <2>2. CASE UNCHANGED vars
    BY <2>2 DEF WindowTellsTruth, vars
  <2> QED
    BY <2>1, <2>2 DEF Next
<1> QED
  BY <1>1, <1>2, TypeCorrect, PTL DEF Spec

\* What the distance test calls ancient is exactly what is more than W behind
\* the newest packet, also where the 32-bit distance wraps to 0.
LEMMA AncientIffTooOld ==
  ASSUME NEW w \in Window, NEW received \in SUBSET SeqNo, NEW s \in SeqNo,
         TellsTruth(w, received)
  PROVE  Ancient(w, s) <=> \E n \in received : n - s > W
<1>1. CASE s >= w.seq
  BY <1>1, WindowAssumption DEF Ancient, TellsTruth, Window, SeqNo
<1>2. CASE s < w.seq
  <2>1. w.seq - 1 \in received /\ \A n \in received : n <= w.seq - 1
    BY <1>2 DEF TellsTruth, Window, SeqNo
  <2>2. (\E n \in received : n - s > W) <=> w.seq - s > W + 1
    BY <2>1, <1>2, WindowAssumption DEF Window, SeqNo
  <2>3. Ancient(w, s) <=> w.seq - s > W + 1
    <3>1. CASE w.seq - s = MaxSeq + 1
      BY <1>2, <3>1, BehindValue, WindowAssumption DEF Ancient
    <3>2. CASE w.seq - s <= MaxSeq
      BY <1>2, <3>2, BehindValue, WindowAssumption DEF Ancient
    <3> QED
      BY <1>2, <3>1, <3>2, WindowAssumption DEF Window, SeqNo
  <2> QED
    BY <2>2, <2>3
<1> QED
  BY <1>1, <1>2 DEF Window, SeqNo

\* What the function returns depends only on what has been received: the
\* newest packet and whether this one is among them.
LEMMA VerdictExact ==
  ASSUME NEW w \in Window, NEW received \in SUBSET SeqNo, NEW s \in SeqNo,
         TellsTruth(w, received), NEW protect \in BOOLEAN
  PROVE  Accepts(w, s, protect) <=>
           ~ protect \/ ~ (s \in received \/ \E n \in received : n - s > W)
<1>1. CASE s >= w.seq
  <2>1. s \notin received
    BY <1>1 DEF TellsTruth, Window, SeqNo
  <2>2. ~ Ancient(w, s) /\ ~ Replayed(w, s)
    BY <1>1 DEF Ancient, Replayed, Window, SeqNo
  <2> QED
    BY <2>1, <2>2, AncientIffTooOld DEF Accepts
<1>2. CASE s < w.seq /\ Ancient(w, s)
  BY <1>2, AncientIffTooOld DEF Accepts
<1>3. CASE s < w.seq /\ ~ Ancient(w, s)
  BY <1>3, AncientIffTooOld, ReplayedIffReceived DEF Accepts
<1> QED
  BY <1>1, <1>2, <1>3 DEF Window, SeqNo

\* No packet is taken twice while replay protection is on, in any order of
\* arrival and for every size of window and sequence space.
THEOREM NoPacketTakenTwice == Spec => NoReplayTaken
<1> DEFINE Once == \A s \in SeqNo :
             Protect /\ verify_packet_seqno(s) /\ s \in seen => ~ verdict'.taken
<1>1. TypeOK /\ WindowTellsTruth /\ [Next]_vars => [Once]_vars
  <2> SUFFICES ASSUME TypeOK, WindowTellsTruth, NEW s \in SeqNo,
                      Protect, verify_packet_seqno(s), s \in seen
               PROVE  ~ verdict'.taken
    OBVIOUS
  <2>1. ~ Accepts(window, s, Protect)
    BY VerdictExact, ProtectAssumption DEF TypeOK, WindowTellsTruth
  <2>2. verdict'.taken = Accepts(window, s, Protect)
    BY DEF verify_packet_seqno
  <2> QED
    BY <2>1, <2>2
<1> QED
  BY <1>1, TypeCorrect, BacklogExact, PTL DEF Spec, NoReplayTaken

\* The filter never refuses a packet it has not seen and whose place the window
\* still covers.
THEOREM NoFreshPacketLost == Spec => FreshPacketTaken
<1> DEFINE Newer == \A s \in SeqNo :
             verify_packet_seqno(s) /\ s \notin seen /\ (\A n \in seen : n - s <= W)
               => verdict'.taken
<1>1. TypeOK /\ WindowTellsTruth /\ [Next]_vars => [Newer]_vars
  <2> SUFFICES ASSUME TypeOK, WindowTellsTruth, NEW s \in SeqNo,
                      verify_packet_seqno(s), s \notin seen, \A n \in seen : n - s <= W
               PROVE  verdict'.taken
    OBVIOUS
  <2>1. ~ \E n \in seen : n - s > W
    BY WindowAssumption DEF TypeOK, SeqNo
  <2>2. Accepts(window, s, Protect)
    BY <2>1, VerdictExact, ProtectAssumption DEF TypeOK, WindowTellsTruth
  <2> QED
    BY <2>2 DEF verify_packet_seqno
<1> QED
  BY <1>1, TypeCorrect, BacklogExact, PTL DEF Spec, FreshPacketTaken

\* The 64-bit window is indistinguishable from a filter that remembers every
\* packet: each call of verify_packet_seqno() is one step of OnceOnly.
THEOREM WindowImplementsOnceOnly == Spec => ImplementsOnceOnly
<1>1. Init => Filter!Init
  BY DEF Init, Filter!Init, Filter!NoVerdict
<1>2. TypeOK /\ WindowTellsTruth /\ [Next]_vars => [Filter!Next]_(Filter!vars)
  <2> SUFFICES ASSUME TypeOK, WindowTellsTruth, [Next]_vars
               PROVE  [Filter!Next]_(Filter!vars)
    OBVIOUS
  <2>1. ASSUME NEW s \in SeqNo, verify_packet_seqno(s) PROVE Filter!Arrive(s)
    <3>1. Ancient(window, s) <=> Filter!TooOld(s)
      BY AncientIffTooOld DEF TypeOK, WindowTellsTruth, Filter!TooOld
    <3>2. Accepts(window, s, Protect) =
            (~ Protect \/ ~ (s \in seen \/ Filter!TooOld(s)))
      <4>1. Accepts(window, s, Protect) <=>
              ~ Protect \/ ~ (s \in seen \/ Filter!TooOld(s))
        BY VerdictExact, ProtectAssumption
        DEF TypeOK, WindowTellsTruth, Filter!TooOld
      <4> QED
        BY <4>1 DEF Accepts
    <3> QED
      BY <2>1, <3>1, <3>2 DEF verify_packet_seqno, Filter!Arrive
  <2>2. CASE UNCHANGED vars
    BY <2>2 DEF vars, Filter!vars
  <2> QED
    BY <2>1, <2>2 DEF Next, Filter!Next, SeqNo
<1> QED
  BY <1>1, <1>2, TypeCorrect, BacklogExact, PTL
  DEF Spec, ImplementsOnceOnly, Filter!Spec

-----------------------------------------------------------------------------
\* One-time passwords.

Working == {"waiting", "locked", "made", "opened", "stored"}

\* A code that was made has been counted.
Made == \A c \in Clients : pc[c] \in {"made", "opened", "stored"} => token_time[c] > 0

\* Who may be where: only a lock's holder has a code that is not stored, and a
\* storage with a lock is never empty.
InPlace ==
  /\ \A c \in Clients : pc[c] \in Working => c \in setup.active
  /\ setup.locking =>
       /\ file # Empty
       /\ \A c \in Clients : /\ pc[c] \in {"locked", "made"} => holder = c
                             /\ pc[c] # "opened"

\* The counter that is stored is above all codes that were sent.
Ahead == file # Empty => \A n \in sent : n < file

\* What a program knows of the counter between the lock and the form.
Known(c) ==
  /\ pc[c] = "locked" => file # Empty /\ token_time[c] = file
  /\ pc[c] = "made"   => file # Empty /\ token_time[c] = file + 1
  /\ pc[c] = "opened" => file = Empty /\ \A n \in sent : n < token_time[c] - 1
  /\ pc[c] = "stored" => /\ token_time[c] - 1 \notin sent
                         /\ file # Empty => token_time[c] <= file

\* Two codes that are about to be sent are not the same.
Distinct ==
  \A c, d \in Clients :
    c # d /\ pc[c] = "stored" /\ pc[d] = "stored" => token_time[c] # token_time[d]

Counted == Kept => ~ repeated /\ Ahead /\ Distinct /\ \A c \in Clients : Known(c)

IInv == HotpTypeOK /\ Made /\ InPlace /\ Counted

USE HotpAssumption DEF HotpAssumption, Empty, None

\* One step of one program.
Step(c) == can_gen_hotp_code(c) \/ do_gen_hotp_code(c) \/ Crash(c) \/ Restart(c)

LEMMA TypeInitially == HotpInit => HotpTypeOK /\ Made
<1> SUFFICES ASSUME HotpInit PROVE HotpTypeOK /\ Made
  OBVIOUS
<1>1. pc \in [Clients -> {"idle"}] /\ token_time \in [Clients -> Nat] /\ token_tries \in [Clients -> Nat]
  BY DEF HotpInit
<1>2. setup \in [locking : BOOLEAN, active : SUBSET Clients, writable : BOOLEAN, hmac : BOOLEAN]
  BY DEF HotpInit
<1>3. HotpTypeOK
  BY <1>1, <1>2 DEF HotpInit, HotpTypeOK
<1>4. Made
  BY DEF HotpInit, Made
<1> QED
  BY <1>3, <1>4

LEMMA TypeKept == HotpTypeOK /\ Made /\ [HotpNext]_hotpVars => HotpTypeOK' /\ Made'
<1> SUFFICES ASSUME HotpTypeOK, Made, [HotpNext]_hotpVars PROVE HotpTypeOK' /\ Made'
  OBVIOUS
<1> USE DEF HotpTypeOK, Made, Goto, Unlocked
<1>1. CASE UNCHANGED hotpVars
  BY <1>1 DEF hotpVars
<1>2. ASSUME NEW c \in Clients, Step(c) PROVE HotpTypeOK' /\ Made'
  <2>1. CASE can_gen_hotp_code(c)
    BY <2>1 DEF can_gen_hotp_code
  <2>2. CASE lock_token(c)
    BY <2>2 DEF lock_token
  <2>3. CASE gen_hotp(c)
    BY <2>3 DEF gen_hotp
  <2>4. CASE gen_hotp_fails(c)
    BY <2>4 DEF gen_hotp_fails
  <2>5. CASE Store(c)
    BY <2>5 DEF Store
  <2>6. CASE Open(c)
    BY <2>6 DEF Open
  <2>7. CASE Write(c)
    BY <2>7 DEF Write
  <2>8. CASE Send(c)
    <3>1. token_time[c] \in Nat /\ token_time[c] > 0
      BY <2>8 DEF Send
    <3>2. token_time[c] - 1 \in Nat
      BY <3>1
    <3> QED
      BY <2>8, <3>2 DEF Send
  <2>9. CASE Crash(c)
    BY <2>9 DEF Crash
  <2>10. CASE Restart(c)
    BY <2>10 DEF Restart
  <2> QED
    BY <1>2, <2>1, <2>2, <2>3, <2>4, <2>5, <2>6, <2>7, <2>8, <2>9, <2>10
    DEF Step, do_gen_hotp_code
<1> QED
  BY <1>1, <1>2 DEF HotpNext, Step

LEMMA PlacesInitially == HotpInit => InPlace /\ Counted
BY DEF HotpInit, InPlace, Counted, Ahead, Known, Distinct, Working

LEMMA PlacesKept == HotpTypeOK /\ InPlace /\ [HotpNext]_hotpVars => InPlace'
<1> SUFFICES ASSUME HotpTypeOK, InPlace, [HotpNext]_hotpVars PROVE InPlace'
  OBVIOUS
<1> USE DEF HotpTypeOK, InPlace, Working, Goto, Unlocked
<1>1. CASE UNCHANGED hotpVars
  BY <1>1 DEF hotpVars
<1>2. ASSUME NEW c \in Clients, Step(c) PROVE InPlace'
  <2>1. CASE can_gen_hotp_code(c)
    BY <2>1 DEF can_gen_hotp_code
  <2>2. CASE lock_token(c)
    BY <2>2 DEF lock_token
  <2>3. CASE gen_hotp(c)
    BY <2>3 DEF gen_hotp
  <2>4. CASE gen_hotp_fails(c)
    BY <2>4 DEF gen_hotp_fails
  <2>5. CASE Store(c)
    BY <2>5 DEF Store
  <2>6. CASE Open(c)
    BY <2>6 DEF Open
  <2>7. CASE Write(c)
    BY <2>7 DEF Write
  <2>8. CASE Send(c)
    BY <2>8 DEF Send
  <2>9. CASE Crash(c)
    BY <2>9 DEF Crash
  <2>10. CASE Restart(c)
    BY <2>10 DEF Restart
  <2> QED
    BY <1>2, <2>1, <2>2, <2>3, <2>4, <2>5, <2>6, <2>7, <2>8, <2>9, <2>10
    DEF Step, do_gen_hotp_code
<1> QED
  BY <1>1, <1>2 DEF HotpNext, Step

\* Under Kept, another program than the one that steps has nothing in hand
\* that the step could make wrong.
LEMMA OthersAway ==
  ASSUME HotpTypeOK, InPlace, Kept, NEW c \in Clients, NEW d \in Clients, c # d, pc[c] \in Working
  PROVE  /\ setup.locking /\ holder # d => pc[d] \notin {"locked", "made"}
         /\ setup.locking => pc[d] # "opened"
         /\ ~ setup.locking => pc[d] \notin Working
BY DEF HotpTypeOK, InPlace, Kept, Working

LEMMA CountKept == HotpTypeOK /\ Made /\ InPlace /\ Counted /\ [HotpNext]_hotpVars => Counted'
<1> SUFFICES ASSUME HotpTypeOK, Made, InPlace, Counted, [HotpNext]_hotpVars, Kept' PROVE (~ repeated /\ Ahead /\ Distinct)' /\ \A d \in Clients : Known(d)'
  BY DEF Counted
<1> USE DEF Goto, Unlocked
<1>1. CASE UNCHANGED hotpVars
  BY <1>1 DEF hotpVars, Counted, Kept, Ahead, Distinct, Known
<1>2. ASSUME NEW c \in Clients, Step(c) PROVE (~ repeated /\ Ahead /\ Distinct)' /\ \A d \in Clients : Known(d)'
  <2>0. Kept /\ UNCHANGED setup
    BY <1>2 DEF Step, do_gen_hotp_code, can_gen_hotp_code, lock_token, gen_hotp, gen_hotp_fails, Store, Open, Write, Send, Crash, Restart, Kept
  <2>a. ~ repeated /\ Ahead /\ Distinct /\ \A d \in Clients : Known(d)
    BY <2>0 DEF Counted
  <2>1. CASE can_gen_hotp_code(c)
    BY <2>1, <2>0, <2>a, OthersAway DEF can_gen_hotp_code, HotpTypeOK, Made, InPlace, Working, Ahead, Distinct, Known
  <2>2. CASE lock_token(c)
    BY <2>2, <2>0, <2>a, OthersAway DEF lock_token, HotpTypeOK, Made, InPlace, Working, Ahead, Distinct, Known
  <2>3. CASE gen_hotp(c)
    BY <2>3, <2>0, <2>a, OthersAway DEF gen_hotp, HotpTypeOK, Made, InPlace, Working, Ahead, Distinct, Known
  <2>4. CASE gen_hotp_fails(c)
    BY <2>4, <2>0, <2>a, OthersAway DEF gen_hotp_fails, HotpTypeOK, Made, InPlace, Working, Ahead, Distinct, Known
  <2>5. CASE Store(c)
    <3>1. /\ pc[c] = "made" /\ setup.locking /\ holder = c
          /\ file \in Nat /\ token_time[c] = file + 1 /\ file' = file + 1
      BY <2>5, <2>a DEF Store, InPlace, Known, HotpTypeOK
    <3>2. pc' = [pc EXCEPT ![c] = "stored"] /\ UNCHANGED <<token_time, sent, repeated>>
      BY <2>5 DEF Store
    <3>3. ~ repeated' /\ Ahead'
      BY <3>1, <3>2, <2>a DEF Ahead, HotpTypeOK
    <3>4. \A d \in Clients : d # c /\ pc[d] = "stored" => token_time[d] <= file
      BY <3>1, <2>a DEF Known
    <3>5. Distinct'
      BY <3>1, <3>2, <3>4, <2>a DEF Distinct, HotpTypeOK
    <3>6. ASSUME NEW d \in Clients PROVE Known(d)'
      <4>1. CASE d = c
        BY <4>1, <3>1, <3>2, <2>a DEF Known, Ahead, HotpTypeOK
      <4>2. CASE d # c
        <5>1. pc'[d] = pc[d] /\ pc[d] \notin {"locked", "made", "opened"}
          BY <4>2, <3>1, <3>2 DEF InPlace, HotpTypeOK
        <5>2. pc[d] = "stored" => token_time[d] <= file + 1 /\ token_time[d] - 1 \notin sent
          BY <4>2, <3>1, <3>4, <2>a DEF Known, HotpTypeOK
        <5> QED
          BY <5>1, <5>2, <3>1, <3>2 DEF Known
      <4> QED
        BY <4>1, <4>2
    <3> QED
      BY <3>3, <3>5, <3>6
  <2>6. CASE Open(c)
    <3>1. /\ pc[c] = "made" /\ ~ setup.locking
          /\ file \in Nat /\ token_time[c] = file + 1 /\ \A n \in sent : n < file
      BY <2>6, <2>a DEF Open, Known, Ahead, HotpTypeOK
    <3>2. UNCHANGED <<token_time, sent, repeated>> /\ file' \in {file, Empty}
      BY <2>6 DEF Open
    <3>3. \A d \in Clients : d # c => pc'[d] = pc[d] /\ pc[d] \notin Working
      BY <2>6, <2>0, <3>1, OthersAway DEF Open, HotpTypeOK, Working
    <3>4. ~ repeated' /\ Ahead' /\ Distinct'
      BY <3>1, <3>2, <3>3, <2>a DEF Ahead, Distinct, Working
    <3>5. setup.writable
      BY <2>0, <3>1 DEF Kept
    <3>6. Known(c)'
      BY <2>6, <3>1, <3>5 DEF Open, Known, HotpTypeOK
    <3>7. \A d \in Clients : d # c => Known(d)'
      BY <3>3 DEF Known, Working
    <3> QED
      BY <3>4, <3>6, <3>7
  <2>7. CASE Write(c)
    BY <2>7, <2>0, <2>a, OthersAway DEF Write, HotpTypeOK, Made, InPlace, Working, Ahead, Distinct, Known
  <2>8. CASE Send(c)
    BY <2>8, <2>0, <2>a, OthersAway DEF Send, HotpTypeOK, Made, InPlace, Working, Ahead, Distinct, Known
  <2>9. CASE Crash(c)
    BY <2>9, <2>0, <2>a, OthersAway DEF Crash, HotpTypeOK, Made, InPlace, Working, Ahead, Distinct, Known
  <2>10. CASE Restart(c)
    BY <2>10, <2>0, <2>a, OthersAway DEF Restart, HotpTypeOK, Made, InPlace, Working, Ahead, Distinct, Known
  <2> QED
    BY <1>2, <2>1, <2>2, <2>3, <2>4, <2>5, <2>6, <2>7, <2>8, <2>9, <2>10
    DEF Step, do_gen_hotp_code
<1> QED
  BY <1>1, <1>2 DEF HotpNext, Step

\* The history and the counters have their types, for any number of programs.
THEOREM HotpType == HotpSpec => []HotpTypeOK
<1>1. HotpInit => HotpTypeOK /\ Made
  BY TypeInitially
<1>2. (HotpTypeOK /\ Made) /\ [HotpNext]_hotpVars => (HotpTypeOK /\ Made)'
  BY TypeKept
<1> QED
  BY <1>1, <1>2, PTL DEF HotpSpec

\* No server is sent a code twice (do_gen_hotp_code(), main.c's lock_token()
\* and unlock_token()), for any number of programs, crashes and codes.
THEOREM NoCodeSentTwice == HotpSpec => []SentOnce
<1>1. HotpInit => IInv
  BY TypeInitially, PlacesInitially DEF IInv
<1>2. IInv /\ [HotpNext]_hotpVars => IInv'
  BY TypeKept, PlacesKept, CountKept DEF IInv
<1>3. IInv => SentOnce
  BY DEF IInv, Counted, SentOnce
<1> QED
  BY <1>1, <1>2, <1>3, PTL DEF HotpSpec

-----------------------------------------------------------------------------
\* The MTU that DTLS can carry.

Sizes == [min : Int, max : Int, cur : Int, last : Int, tries : Int, top : Int, ret : Int]

MtuTyped ==
  /\ options \in [v6 : BOOLEAN, psk : BOOLEAN]
  /\ path \in [size : Nat, known : BOOLEAN]
  /\ cstp \in [mtu : Int, base : Int]
  /\ probe \in Sizes
  /\ net \subseteq Int /\ answered \subseteq Int

\* Only what fits is answered.
Fitting == cstp_pc \in {"probe", "wait", "found"} => \A n \in net \cup answered : C!Fits(n)

\* The lower end of the search was answered, unless it is the one it began with.
LowerEnd == cstp_pc \in {"probe", "wait"} => probe.min \in {absolute_min} \cup answered

\* What the kernel knows not to get through is not tried.
Ruled(n) == options.v6 /\ path.known /\ C!Limited(n) # n

\* Above its upper end nothing fits but what the kernel rules out.
UpperEnd ==
  cstp_pc \in {"probe", "wait"} /\ ~ faulty =>
    \A n \in probe.max + 1 .. probe.top : C!Fits(n) => Ruled(n)

\* If the network does its work, a probe without an answer under way was too large.
ProbeOut == cstp_pc = "wait" /\ ~ faulty => probe.cur \in net \/ ~ C!Fits(probe.cur)

MtuInv == MtuTyped /\ Fitting /\ LowerEnd /\ UpperEnd /\ ProbeOut /\ MtuFound

\* A smaller packet fits as well.
LEMMA FitsDown ==
  ASSUME MtuTyped, NEW m \in Int, NEW n \in Int, m <= n, C!Fits(n)
  PROVE  C!Fits(m)
<1>1. C!IpHeader(options.v6) \in Int /\ path.size \in Int
  BY DEF MtuTyped, C!IpHeader
<1> QED
  BY <1>1 DEF C!Fits, C!DtlsHeader

\* Limited() lowers a size to what the kernel knows of the path, and every larger one too.
LEMMA LimitedLowers ==
  ASSUME MtuTyped, NEW n \in Int
  PROVE  /\ C!Limited(n) \in Int /\ C!Limited(n) <= n
         /\ \A m \in Int : C!Limited(n) < m /\ m <= n => Ruled(m)
<1> DEFINE known == options.v6 /\ path.known
           limit == path.size - C!DtlsHeader - C!IpHeader(TRUE) - C!PathSlack
<1>1. limit \in Int
  BY DEF MtuTyped, C!DtlsHeader, C!IpHeader, C!PathSlack
<1>2. \A m \in Int : C!Limited(m) = IF known THEN C!Smaller(m, limit) ELSE m
  BY DEF C!Limited
<1>3. \A m \in Int : Ruled(m) <=> known /\ C!Limited(m) # m
  BY DEF Ruled
<1> HIDE DEF known, limit
<1> QED
  BY <1>1, <1>2, <1>3 DEF C!Smaller

\* Outside of a search only the types matter.
LEMMA NoSearch ==
  ASSUME MtuTyped', cstp_pc' \notin {"probe", "wait", "found"}
  PROVE  MtuInv'
BY DEF MtuInv, Fitting, LowerEnd, UpperEnd, ProbeOut, MtuFound, C!MtuProven, C!BestFound

\* A search begins with all sizes.
LEMMA SearchBegins ==
  ASSUME MtuInv, C!DtlsConnected PROVE MtuInv'
<1> DEFINE data == cstp.base - C!IpHeader(FALSE) - C!DtlsHeader
           mtu == IF options.psk THEN C!Smaller(cstp.mtu, data) ELSE cstp.mtu
<1>1. mtu \in Int
  BY DEF MtuInv, MtuTyped, C!IpHeader, C!DtlsHeader, C!Smaller
<1>2. /\ cstp' = [cstp EXCEPT !.mtu = mtu] /\ probe' = C!Searching(mtu)
      /\ net' = {} /\ answered' = {} /\ cstp_pc' \in {"found", "probe"}
      /\ UNCHANGED <<options, path>>
  BY DEF C!DtlsConnected, C!lifeVars
<1> HIDE DEF mtu
<1>3. MtuTyped'
  <2>1. absolute_min \in Int
    BY PartsAssumption DEF C!CstpAssumption
  <2>2. probe' \in Sizes
    BY <1>1, <1>2, <2>1 DEF C!Searching, Sizes
  <2> QED
    BY <1>1, <1>2, <2>2 DEF MtuInv, MtuTyped
<1>4. probe'.min = absolute_min /\ probe'.max = probe'.top /\ probe'.ret = 0 /\ probe'.top \in Int
  BY <1>1, <1>2 DEF C!Searching
<1>5. Fitting' /\ LowerEnd' /\ ProbeOut'
  BY <1>2, <1>4 DEF Fitting, LowerEnd, ProbeOut
<1>6. UpperEnd'
  BY <1>4 DEF UpperEnd
<1>7. MtuFound'
  BY <1>4 DEF MtuFound, C!MtuProven, C!BestFound
<1> QED
  BY <1>3, <1>5, <1>6, <1>7 DEF MtuInv

\* A probe that the kernel does not take rules out its size and all above.
LEMMA WriteFailsKeeps ==
  ASSUME MtuInv, C!WriteFails PROVE MtuInv'
<1> DEFINE max == C!Limited(probe.max)
           cur == C!Limited(probe.cur)
<1>1. probe \in Sizes /\ absolute_min \in Int
  BY PartsAssumption DEF MtuInv, MtuTyped, C!CstpAssumption
<1>2. /\ max \in Int /\ max <= probe.max /\ cur \in Int
      /\ \A n \in Int : max < n /\ n <= probe.max => Ruled(n)
  BY <1>1, LimitedLowers DEF MtuInv, Sizes
<1>3. /\ cstp_pc = "probe"
      /\ ~ C!Fits(cur) \/ faulty'
      /\ UNCHANGED <<options, path, cstp, net, answered>>
      /\ ~ faulty' => ~ faulty
      /\ \/ cur = max /\ cstp_pc' = "probe" /\ probe' = [probe EXCEPT !.max = cur - 1, !.cur = cur - 1]
         \/ cstp_pc' = "found" /\ probe' = [probe EXCEPT !.ret = 0]
  BY DEF C!WriteFails, C!Found, C!lifeVars, C!linkVars
<1> HIDE DEF max, cur
<1> DEFINE After ==
             /\ probe' \in Sizes /\ probe'.min = probe.min /\ probe'.top = probe.top
             /\ cstp_pc' \in {"probe", "found"}
             /\ cstp_pc' = "probe" => cur = max /\ probe'.max = max - 1
             /\ cstp_pc' = "found" => probe'.ret = 0
<1>4. After
  <2>1. ASSUME cur = max, cstp_pc' = "probe", probe' = [probe EXCEPT !.max = cur - 1, !.cur = cur - 1]
        PROVE  After
    <3>1. cur - 1 \in Int
      BY <1>2
    <3> QED
      BY <1>1, <2>1, <3>1 DEF Sizes
  <2>2. ASSUME cstp_pc' = "found", probe' = [probe EXCEPT !.ret = 0]
        PROVE  After
    BY <1>1, <2>2 DEF Sizes
  <2> QED
    BY <1>3, <2>1, <2>2
<1>5. MtuTyped'
  BY <1>3, <1>4 DEF MtuInv, MtuTyped
<1>6. Fitting'
  BY <1>3 DEF MtuInv, Fitting, C!Fits
<1>7. probe'.min = probe.min /\ probe'.top = probe.top
  BY <1>4
<1>8. LowerEnd' /\ ProbeOut'
  BY <1>3, <1>7 DEF MtuInv, LowerEnd, ProbeOut
<1>9. UpperEnd'
  <2> SUFFICES ASSUME cstp_pc' = "probe", ~ faulty', NEW n \in probe'.max + 1 .. probe'.top, C!Fits(n)
               PROVE  Ruled(n)
    BY <1>3 DEF UpperEnd, C!Fits, Ruled, C!Limited
  <2>1. probe'.max = max - 1 /\ cur = max /\ n \in Int /\ probe.max \in Int
    BY <1>1, <1>4 DEF Sizes
  <2>2. n >= max /\ n <= probe.top
    BY <1>2, <1>7, <2>1
  <2>3. n # max /\ ~ C!Fits(max)
    BY <1>3, <2>1
  <2>4. CASE n <= probe.max
    BY <1>2, <2>1, <2>2, <2>3, <2>4
  <2>5. CASE n > probe.max
    <3>1. n \in probe.max + 1 .. probe.top
      BY <1>1, <2>1, <2>2, <2>5 DEF Sizes
    <3> QED
      BY <1>3, <3>1 DEF MtuInv, UpperEnd
  <2> QED
    BY <2>1, <2>4, <2>5
<1>10. MtuFound'
  <2>1. cstp_pc' = "found" => probe'.ret = 0
    BY <1>4
  <2> QED
    BY <2>1 DEF MtuFound, C!MtuProven, C!BestFound
<1> QED
  BY <1>5, <1>6, <1>8, <1>9, <1>10 DEF MtuInv

\* A probe that is written, and may be lost.
LEMMA ProbeKeeps ==
  ASSUME MtuInv, C!Probe PROVE MtuInv'
<1> DEFINE max == C!Limited(probe.max)
           cur == C!Limited(probe.cur)
           tries == IF probe.last = cur THEN probe.tries + 1 ELSE 0
<1>1. probe \in Sizes
  BY DEF MtuInv, MtuTyped
<1>2. /\ max \in Int /\ max <= probe.max /\ cur \in Int /\ tries \in Int
      /\ \A n \in Int : max < n /\ n <= probe.max => Ruled(n)
  BY <1>1, LimitedLowers DEF MtuInv, Sizes
<1>3. /\ cstp_pc = "probe" /\ cstp_pc' = "wait"
      /\ probe' = [probe EXCEPT !.max = max, !.cur = cur, !.last = cur, !.tries = tries]
      /\ UNCHANGED <<options, cstp, answered>>
      /\ ~ faulty' => ~ faulty
      /\ \/ C!Fits(cur) /\ net' = net \cup {cur} /\ UNCHANGED path
         \/ faulty' /\ UNCHANGED <<path, net>>
         \/ ~ C!Fits(cur) /\ ~ path.known /\ UNCHANGED net
            /\ \E k \in BOOLEAN : path' = [path EXCEPT !.known = k]
  BY DEF C!Probe, C!lifeVars
<1> HIDE DEF max, cur, tries
<1>4. path' \in [size : Nat, known : BOOLEAN] /\ path'.size = path.size /\ (path.known => path' = path)
  BY <1>3 DEF MtuInv, MtuTyped
<1>5. /\ probe' \in Sizes /\ probe'.max = max /\ probe'.cur = cur
      /\ probe'.min = probe.min /\ probe'.top = probe.top
  BY <1>1, <1>2, <1>3 DEF Sizes
<1>6. \A n : C!Fits(n)' <=> C!Fits(n)
  BY <1>3, <1>4 DEF C!Fits
<1>7. MtuTyped'
  <2>1. net' \subseteq Int
    BY <1>2, <1>3 DEF MtuInv, MtuTyped
  <2> QED
    BY <1>3, <1>4, <1>5, <2>1 DEF MtuInv, MtuTyped
<1>8. Fitting' /\ LowerEnd' /\ MtuFound'
  BY <1>3, <1>5, <1>6 DEF MtuInv, Fitting, LowerEnd, MtuFound, C!MtuProven, C!BestFound
<1>9. ProbeOut'
  BY <1>3, <1>5, <1>6 DEF MtuInv, Fitting, ProbeOut
<1>10. UpperEnd'
  <2> SUFFICES ASSUME ~ faulty', NEW n \in max + 1 .. probe.top, C!Fits(n)
               PROVE  Ruled(n)'
    BY <1>5, <1>6 DEF UpperEnd
  <2>1. Ruled(n)
    <3>1. n \in Int /\ probe.max \in Int /\ probe.top \in Int
      BY <1>1, <1>2 DEF Sizes
    <3>2. CASE n <= probe.max
      BY <1>2, <3>1, <3>2
    <3>3. CASE n > probe.max
      BY <1>3, <3>1, <3>3 DEF MtuInv, UpperEnd
    <3> QED
      BY <3>1, <3>2, <3>3
  <2> QED
    BY <1>3, <1>4, <2>1 DEF Ruled, C!Limited
<1> QED
  BY <1>7, <1>8, <1>9, <1>10 DEF MtuInv

\* The answer moves the lower end up, or ends the search.
LEMMA ProbeAnsweredKeeps ==
  ASSUME MtuInv, C!ProbeAnswered PROVE MtuInv'
<1> DEFINE min == C!Larger(probe.min, probe.cur)
           cur == IF probe.cur > probe.min THEN (probe.cur + probe.max + 1) \div 2
                  ELSE (probe.min + probe.last + 1) \div 2
<1>1. probe \in Sizes
  BY DEF MtuInv, MtuTyped
<1>2. min \in Int /\ cur \in Int /\ min \in {probe.min, probe.cur}
  BY <1>1 DEF Sizes, C!Larger
<1>3. /\ cstp_pc = "wait" /\ probe.cur \in net
      /\ net' \subseteq net /\ answered' = answered \cup {probe.cur}
      /\ UNCHANGED <<options, path, cstp, faulty>>
      /\ \/ probe.cur = probe.max /\ cstp_pc' = "found" /\ probe' = [probe EXCEPT !.ret = probe.cur]
         \/ cstp_pc' = "probe" /\ probe' = [probe EXCEPT !.tries = 0, !.min = min, !.cur = cur]
  BY DEF C!ProbeAnswered, C!Found, C!lifeVars, C!linkVars
<1> HIDE DEF min, cur
<1> DEFINE After ==
             /\ probe' \in Sizes /\ probe'.max = probe.max /\ probe'.top = probe.top
             /\ cstp_pc' \in {"probe", "found"}
             /\ cstp_pc' = "probe" => probe'.min \in {probe.min, probe.cur}
             /\ cstp_pc' = "found" => probe.cur = probe.max /\ probe'.ret = probe.cur
<1>4. After
  <2>1. ASSUME probe.cur = probe.max, cstp_pc' = "found", probe' = [probe EXCEPT !.ret = probe.cur]
        PROVE  After
    BY <1>1, <2>1 DEF Sizes
  <2>2. ASSUME cstp_pc' = "probe", probe' = [probe EXCEPT !.tries = 0, !.min = min, !.cur = cur]
        PROVE  After
    <3> DEFINE first == [probe EXCEPT !.tries = 0]
               second == [first EXCEPT !.min = min]
    <3>1. first \in Sizes
      BY <1>1 DEF Sizes
    <3>2. second \in Sizes
      BY <1>2, <3>1 DEF Sizes
    <3>3. [second EXCEPT !.cur = cur] \in Sizes
      BY <1>2, <3>2 DEF Sizes
    <3>4. probe' \in Sizes
      BY <2>2, <3>3
    <3>5. probe'.max = probe.max /\ probe'.top = probe.top
      BY <1>1, <2>2 DEF Sizes
    <3>6. probe'.min = min
      BY <1>1, <2>2 DEF Sizes
    <3> QED
      BY <1>2, <2>2, <3>4, <3>5, <3>6
  <2> QED
    BY <1>3, <2>1, <2>2
<1> HIDE DEF After
<1>5. MtuTyped'
  BY <1>1, <1>3, <1>4 DEF MtuInv, MtuTyped, After, Sizes
<1>6. Fitting'
  BY <1>3 DEF MtuInv, Fitting, C!Fits
<1>7. LowerEnd' /\ ProbeOut'
  BY <1>3, <1>4 DEF MtuInv, LowerEnd, ProbeOut, After
<1>8. UpperEnd'
  BY <1>3, <1>4 DEF MtuInv, UpperEnd, After, C!Fits, Ruled, C!Limited
<1>9. MtuFound'
  <2> SUFFICES ASSUME cstp_pc' = "found" PROVE MtuFound'
    BY DEF MtuFound, C!MtuProven, C!BestFound
  <2>1. C!MtuProven'
    BY <1>3, <1>4 DEF C!MtuProven, After
  <2>2. C!Fits(probe.cur)
    BY <1>3 DEF MtuInv, Fitting
  <2>3. ~ faulty => \A n \in probe.max + 1 .. probe.top : C!Fits(n) => Ruled(n)
    BY <1>3 DEF MtuInv, UpperEnd
  <2>4. C!BestFound'
    BY <1>3, <1>4, <2>2, <2>3 DEF C!BestFound, After, C!Fits, Ruled, C!Limited
  <2> QED
    BY <2>1, <2>4 DEF MtuFound
<1> QED
  BY <1>5, <1>6, <1>7, <1>8, <1>9 DEF MtuInv

\* An answer to another size leaves the one that is waited for.
LEMMA AnswerSkippedKeeps ==
  ASSUME MtuInv, C!AnswerSkipped PROVE MtuInv'
<1>1. /\ cstp_pc = "wait" /\ net' \subseteq net
      /\ \E n \in net \ {probe.cur} : net' = net \ {n} /\ answered' = answered \cup {n}
      /\ UNCHANGED <<options, path, cstp, faulty, probe, cstp_pc>>
  BY DEF C!AnswerSkipped, C!lifeVars, C!linkVars
<1>2. MtuTyped'
  BY <1>1 DEF MtuInv, MtuTyped
<1>3. Fitting' /\ LowerEnd'
  BY <1>1 DEF MtuInv, Fitting, LowerEnd, C!Fits
<1>4. ProbeOut' /\ UpperEnd'
  BY <1>1 DEF MtuInv, ProbeOut, UpperEnd, C!Fits, Ruled, C!Limited
<1>5. MtuFound'
  BY <1>1 DEF MtuFound, C!MtuProven, C!BestFound
<1> QED
  BY <1>2, <1>3, <1>4, <1>5 DEF MtuInv

\* Without an answer to the last of several tries the size was too large, if the network
\* does its work.
LEMMA ProbeTimeoutKeeps ==
  ASSUME MtuInv, C!ProbeTimeout PROVE MtuInv'
<1> DEFINE max == C!Smaller(probe.max, probe.cur - 1)
           cur == (probe.min + probe.last + 1) \div 2
<1>1. probe \in Sizes
  BY DEF MtuInv, MtuTyped
<1>2. max \in Int /\ cur \in Int /\ max <= probe.max /\ (max < probe.max => max = probe.cur - 1)
  BY <1>1 DEF Sizes, C!Smaller
<1>3. /\ cstp_pc = "wait"
      /\ ~ faulty' => ~ faulty /\ probe.cur \notin net
      /\ UNCHANGED <<options, path, cstp, net, answered>>
      /\ \/ cstp_pc' = "probe" /\ UNCHANGED probe
         \/ cstp_pc' = "found" /\ probe.cur <= probe.min + 1 /\ probe' = [probe EXCEPT !.max = max, !.ret = probe.min]
         \/ cstp_pc' = "probe" /\ probe' = [probe EXCEPT !.max = max, !.cur = cur]
  BY DEF C!ProbeTimeout, C!lifeVars, C!linkVars
<1> HIDE DEF max, cur
<1> DEFINE After ==
             /\ probe' \in Sizes /\ probe'.max \in {probe.max, max} /\ probe'.top = probe.top
             /\ probe'.min = probe.min
             /\ cstp_pc' \in {"probe", "found"}
             /\ cstp_pc' = "found" => /\ probe.cur <= probe.min + 1 /\ probe'.ret = probe.min
<1>4. After
  <2>1. CASE cstp_pc' = "probe" /\ UNCHANGED probe
    BY <1>1, <2>1
  <2>2. ASSUME cstp_pc' = "found", probe.cur <= probe.min + 1,
               probe' = [probe EXCEPT !.max = max, !.ret = probe.min]
        PROVE  After
    BY <1>1, <1>2, <2>2 DEF Sizes
  <2>3. ASSUME cstp_pc' = "probe", probe' = [probe EXCEPT !.max = max, !.cur = cur]
        PROVE  After
    BY <1>1, <1>2, <2>3 DEF Sizes
  <2> QED
    BY <1>3, <2>1, <2>2, <2>3
<1> HIDE DEF After
<1>5. MtuTyped'
  BY <1>3, <1>4 DEF MtuInv, MtuTyped, After
<1>6. Fitting' /\ LowerEnd' /\ ProbeOut'
  BY <1>3, <1>4 DEF MtuInv, Fitting, LowerEnd, ProbeOut, After, C!Fits
<1>7. ~ faulty' => \A n \in Int : n >= probe.cur => ~ C!Fits(n)
  <2> SUFFICES ASSUME ~ faulty', NEW n \in Int, n >= probe.cur, C!Fits(n) PROVE FALSE
    OBVIOUS
  <2>1. ~ C!Fits(probe.cur)
    BY <1>3 DEF MtuInv, ProbeOut
  <2> QED
    BY <1>1, <2>1, FitsDown DEF MtuInv, Sizes
<1>8. ~ faulty' => \A n \in max + 1 .. probe.top : C!Fits(n) => Ruled(n)
  <2> SUFFICES ASSUME ~ faulty', NEW n \in max + 1 .. probe.top, C!Fits(n) PROVE Ruled(n)
    OBVIOUS
  <2>1. n \in Int /\ probe.max \in Int /\ probe.cur \in Int /\ probe.top \in Int
    BY <1>1, <1>2 DEF Sizes
  <2>2. n < probe.cur
    BY <1>7, <2>1
  <2>3. n \in probe.max + 1 .. probe.top
    BY <1>2, <2>1, <2>2
  <2> QED
    BY <1>3, <2>3 DEF MtuInv, UpperEnd
<1>9. UpperEnd'
  <2>1. ~ faulty' => \A n \in probe.max + 1 .. probe.top : C!Fits(n) => Ruled(n)
    BY <1>3 DEF MtuInv, UpperEnd
  <2> QED
    BY <1>3, <1>4, <1>8, <2>1 DEF UpperEnd, After, C!Fits, Ruled, C!Limited
<1>10. MtuFound'
  <2> SUFFICES ASSUME cstp_pc' = "found" PROVE MtuFound'
    BY DEF MtuFound, C!MtuProven, C!BestFound
  <2>1. C!MtuProven'
    BY <1>3, <1>4 DEF MtuInv, LowerEnd, C!MtuProven, After
  <2>2. probe.min = absolute_min \/ C!Fits(probe.min)
    BY <1>3 DEF MtuInv, LowerEnd, Fitting
  <2>3. ~ faulty' => \A n \in probe.min + 1 .. probe.top : ~ C!Fits(n)
    <3> SUFFICES ASSUME ~ faulty', NEW n \in probe.min + 1 .. probe.top, C!Fits(n) PROVE FALSE
      OBVIOUS
    <3>1. n \in Int /\ n >= probe.cur
      BY <1>1, <1>4 DEF After, Sizes
    <3> QED
      BY <1>7, <3>1
  <2>4. C!BestFound'
    BY <1>3, <1>4, <2>2, <2>3 DEF C!BestFound, After, C!Fits
  <2> QED
    BY <2>1, <2>4 DEF MtuFound
<1> QED
  BY <1>5, <1>6, <1>9, <1>10 DEF MtuInv

\* Whoever gives up takes nothing, or what was answered last.
LEMMA GivesUpKeeps ==
  ASSUME MtuInv, C!ProbeGivesUp \/ C!PathTooSmall PROVE MtuInv'
<1>1. probe \in Sizes /\ absolute_min \in Int
  BY PartsAssumption DEF MtuInv, MtuTyped, C!CstpAssumption
<1>2. /\ cstp_pc' = "found" /\ cstp_pc \in {"probe", "wait"}
      /\ \E found \in {0, probe.min} :
           probe' = [probe EXCEPT !.ret = found] /\ (found # 0 => faulty')
      /\ UNCHANGED <<options, path, cstp, net, answered>>
  BY DEF C!ProbeGivesUp, C!PathTooSmall, C!Found, C!lifeVars, C!linkVars
<1>3. /\ probe' \in Sizes /\ probe'.ret \in {0, probe.min} /\ probe'.top = probe.top
      /\ probe'.ret # 0 => faulty'
  BY <1>1, <1>2 DEF Sizes
<1>4. MtuTyped'
  BY <1>2, <1>3 DEF MtuInv, MtuTyped
<1>5. Fitting' /\ LowerEnd' /\ UpperEnd' /\ ProbeOut'
  BY <1>2 DEF MtuInv, Fitting, LowerEnd, UpperEnd, ProbeOut, C!Fits
<1>6. MtuFound'
  BY <1>2, <1>3 DEF MtuInv, LowerEnd, MtuFound, C!MtuProven, C!BestFound
<1> QED
  BY <1>4, <1>5, <1>6 DEF MtuInv

\* Before and after a search there are only types to keep.
LEMMA ConnectionType ==
  ASSUME MtuInv,
         \/ C!cstp_connect \/ C!Request \/ C!NoAnswer \/ C!Refused \/ C!BadHeaders \/ C!Headers
         \/ C!dtls_setup \/ C!SetUpTun \/ C!DtlsReconnects \/ C!DtlsConnecting \/ C!DtlsFails
         \/ C!DtlsElse \/ C!tcp_mainloop \/ C!Reconnect
  PROVE  MtuTyped' /\ cstp_pc' \notin {"probe", "wait", "found"}
<1> USE DEF C!lifeVars, C!linkVars, C!probeVars, C!Fails, MtuInv, MtuTyped
<1>1. CASE C!cstp_connect
  BY <1>1 DEF C!cstp_connect
<1>2. CASE C!Request
  <2>1. PICK pmtu \in {0, path.size} : cstp' = [cstp EXCEPT !.base = C!calculate_dtls_mtu(pmtu)]
    BY <1>2 DEF C!Request
  <2>2. pmtu \in Int /\ MinBase \in Int
    BY PartsAssumption DEF C!CstpAssumption
  <2>3. C!calculate_dtls_mtu(pmtu) \in Int
    BY <2>2 DEF C!calculate_dtls_mtu, C!Larger
  <2>4. cstp' \in [mtu : Int, base : Int]
    BY <2>1, <2>3
  <2> QED
    BY <1>2, <2>4 DEF C!Request
<1>3. CASE C!NoAnswer
  BY <1>3 DEF C!NoAnswer
<1>4. CASE C!Refused
  BY <1>4 DEF C!Refused
<1>5. CASE C!BadHeaders
  BY <1>5 DEF C!BadHeaders
<1>6. CASE C!Headers
  <2>1. Mtus \subseteq Int /\ Paths \subseteq Int
    BY PartsAssumption DEF C!CstpAssumption
  <2>2. cstp' \in [mtu : Int, base : Int]
    BY <1>6, <2>1 DEF C!Headers
  <2> QED
    BY <1>6, <2>2 DEF C!Headers
<1>7. CASE C!dtls_setup
  BY <1>7 DEF C!dtls_setup
<1>8. CASE C!SetUpTun
  BY <1>8 DEF C!SetUpTun
<1>9. CASE C!DtlsReconnects
  BY <1>9 DEF C!DtlsReconnects
<1>10. CASE C!DtlsConnecting
  BY <1>10 DEF C!DtlsConnecting
<1>11. CASE C!DtlsFails
  BY <1>11 DEF C!DtlsFails
<1>12. CASE C!DtlsElse
  BY <1>12 DEF C!DtlsElse
<1>13. CASE C!tcp_mainloop
  BY <1>13 DEF C!tcp_mainloop
<1>14. CASE C!Reconnect
  BY <1>14, PartsAssumption DEF C!Reconnect, C!CstpAssumption
<1> QED
  BY <1>1, <1>2, <1>3, <1>4, <1>5, <1>6, <1>7, <1>8, <1>9, <1>10, <1>11, <1>12, <1>13, <1>14

\* What the search found is taken over, and the search is over.
LEMMA SearchEnds ==
  ASSUME MtuInv, C!MtuFound PROVE MtuTyped' /\ cstp_pc' = "tcp"
<1>1. absolute_min \in Int
  BY PartsAssumption DEF C!CstpAssumption
<1>2. probe' \in Sizes
  BY <1>1 DEF C!MtuFound, C!NoProbe, C!Searching, Sizes
<1>3. probe.ret \in Int
  BY DEF MtuInv, MtuTyped, Sizes
<1>4. cstp' \in [mtu : Int, base : Int]
  BY <1>3 DEF C!MtuFound, MtuInv, MtuTyped
<1> QED
  BY <1>2, <1>4 DEF C!MtuFound, C!lifeVars, MtuInv, MtuTyped

\* A connection begins without a search.
LEMMA MtuInit == MCInit => MtuInv
<1> SUFFICES ASSUME MCInit PROVE MtuInv
  OBVIOUS
<1>1. absolute_min \in Int /\ Paths \subseteq Nat
  BY PartsAssumption DEF C!CstpAssumption
<1>2. probe \in Sizes
  BY <1>1 DEF MCInit, C!Init, C!NoProbe, C!Searching, Sizes
<1>3. options \in [v6 : BOOLEAN, psk : BOOLEAN] /\ cstp \in [mtu : Int, base : Int]
  BY DEF MCInit, C!Init
<1>4. path \in [size : Nat, known : BOOLEAN]
  BY <1>1 DEF MCInit, C!Init
<1>5. net = {} /\ answered = {} /\ cstp_pc = "connect"
  BY DEF MCInit, C!Init
<1> QED
  BY <1>2, <1>3, <1>4, <1>5 DEF MtuInv, MtuTyped, Fitting, LowerEnd, UpperEnd, ProbeOut, MtuFound,
     C!MtuProven, C!BestFound

\* Every step keeps the invariant.
LEMMA MtuStep == MtuInv /\ [MCNext]_partVars => MtuInv'
<1> SUFFICES ASSUME MtuInv, [MCNext]_partVars PROVE MtuInv'
  OBVIOUS
<1>1. CASE C!Next
  BY <1>1, SearchBegins, WriteFailsKeeps, ProbeKeeps, ProbeAnsweredKeeps, AnswerSkippedKeeps,
     ProbeTimeoutKeeps, GivesUpKeeps, ConnectionType, SearchEnds, NoSearch DEF C!Next
<1>2. CASE UNCHANGED cstpVars
  BY <1>2 DEF cstpVars, MtuInv, MtuTyped, Fitting, LowerEnd, UpperEnd, ProbeOut, MtuFound, C!MtuProven,
     C!BestFound, C!Fits, C!Limited, Ruled
<1> QED
  BY <1>1, <1>2 DEF MCNext, InEsp, InHotp, InCstp, partVars

\* Whatever the sizes and the tries, and whatever the network does to the probes: the MTU of DTLS
\* is one that was answered, and the largest that fits if the network loses nothing and answers
\* in time (probe_mtu() in dtls.c).
THEOREM MtusAreFound == MCSpec => []MtuFound
<1>1. MtuInv => MtuFound
  BY DEF MtuInv
<1> QED
  BY <1>1, MtuInit, MtuStep, PTL DEF MCSpec

-----------------------------------------------------------------------------
\* PPP. Its types are kept in four parts, the invariant in five more.

HIDE HotpAssumption DEF HotpAssumption, Empty, None
USE DEF call, links, conn, queues, delays, commands, ending

Running == {"read", "write", "service"}

\* A connection is there, and the one that ppp_mainloop() is to use.
Live == dtls_state = "ESTABLISHED" \/ ssl_up
Here == IF dtls_state = "ESTABLISHED" THEN "dtls" ELSE "tls"

\* The device may be set up, has been, or is told to wait.
Due == up_on # "never" \/ tun_up \/ delay_tunnel

\* Which connection each place is about.
OnConnection ==
  /\ place \in Running \cup {"transition"} =>
       (on = "dtls" <=> dtls_state = "ESTABLISHED") /\ (on # "dtls" => ssl_up)
  /\ place \in Running => back = "first" /\ ppp.state # "DEAD"
  /\ place = "return" /\ dtls_state = "ESTABLISHED" => on = "dtls"
  /\ place = "connect" => on # "dtls" /\ dtls_state # "ESTABLISHED"
  /\ place = "idle" => ~ Live
  /\ place \in {"foot", "obey", "top"} /\ dtls_state = "ESTABLISHED" => ~ ssl_up
  /\ ppp.state = "DEAD" => ppp.ncp = [p \in Protos |-> {}]

\* The round in which DTLS takes over from TLS, which is not closed before ppp_mainloop()
\* has returned: nothing is agreed by then, and nothing of TLS is left to be written.
TakesOver ==
  /\ place = "udp" /\ dtls_state = "ESTABLISHED" /\ ssl_up => ppp.state = "DEAD" /\ answers = {}
  /\ on = "dtls" /\ ssl_up /\ place \in Running \cup {"transition"} =>
       /\ ppp.state \in {"DEAD", "ESTABLISH", "TERMINATE"}
       /\ ppp.state # "DEAD" => current_ssl_pkt # Data
       /\ ppp.state # "TERMINATE" => "ack_received" \notin ppp.ncp["LCP"]
       /\ place = "read" \/ (place = "transition" /\ back # "write") => answers = {}

\* Where the network is, and where data is written, it has come up.
UpHere ==
  (ppp.state = "NETWORK" \/ (current_ssl_pkt = Data /\ ppp.state # "DEAD")) /\ Live =>
    up_on = Here

\* The device waits for the network at every place of the round but those between its
\* head and the call that says so.
TunWaits ==
  /\ place \in Running => Due \/ quit_reason # "none"
  /\ place \in {"return", "connect"} => Due \/ quit_reason # "none" \/ on = "first"
  /\ place \in {"foot", "obey", "idle", "top"} => Due
  /\ place = "tcp" /\ dtls_state = "ESTABLISHED" => Due
  /\ place \in {"top", "udp", "tcp", "foot", "obey", "idle"} => quit_reason = "none"
  /\ ppp.state \in {"NETWORK", "TERMINATE"} => up_on # "never"

\* A close is put off as long as the network is up, unless it has been put off already.
CloseWaits ==
  ppp.state = "NETWORK" =>
    /\ place \in Running \cup {"return", "foot", "obey"} => delay_close # "no" \/ got_pause_cmd
    /\ place = "transition" => delay_close # "no" \/ Pending
    /\ place \in {"top", "udp", "tcp"} => delay_close # "no" \/ Pending \/ ~ Live
    /\ place = "tcp" /\ dtls_state = "ESTABLISHED" => delay_close # "no" \/ got_pause_cmd

PppInv == PppTypeOK /\ OnConnection /\ TakesOver /\ UpHere /\ TunWaits /\ CloseWaits

\* What is queued is of PPP's own, and never data.
LEMMA PacketsAre ==
  /\ \A p \in Protos : ConfReq(p) \in Control /\ ConfAck(p) \in Control
  /\ TermReq \in Control /\ TermAck \in Control
  /\ Data \notin Control /\ NoPacket \notin Control /\ Data # NoPacket
  BY DEF Protos, ConfReq, ConfAck, TermReq, TermAck, Data, NoPacket, Handshake, Control

\* After a reset.
LEMMA FreshIs ==
  ASSUME NEW want \in SUBSET Wanted
  PROVE  /\ Fresh(want) \in OcPpp /\ Fresh(want).state = "DEAD"
         /\ Fresh(want).ncp = [p \in Protos |-> {}]
  BY DEF Fresh, OcPpp

\* One more thing is said of a protocol.
LEMMA FlagAdded ==
  ASSUME NEW c \in OcPpp, NEW p \in Protos,
         NEW f \in {"req_sent", "ack_received", "ack_sent"}
  PROVE  [c EXCEPT !.ncp[p] = @ \cup {f}] \in OcPpp
<1> DEFINE n == [c.ncp EXCEPT ![p] = @ \cup {f}]
<1>1. n \in [Protos -> SUBSET {"req_sent", "ack_received", "ack_sent"}]
  BY DEF OcPpp
<1>2. [c EXCEPT !.ncp = n] \in OcPpp
  <2> HIDE DEF n
  <2> QED BY <1>1 DEF OcPpp
<1> QED BY <1>2

\* What is kept in a termination.
LEMMA TerminatedIs ==
  ASSUME NEW n \in 0 .. 3, NEW a \in BOOLEAN, NEW s \in BOOLEAN, ppp \in OcPpp
  PROVE  Terminated(n, a, s) \in OcPpp /\ Terminated(n, a, s).state = "TERMINATE"
  BY DEF Terminated, Fresh, OcPpp

\* What a call for requests leaves: nothing is agreed by it.
LEMMA Requested ==
  ASSUME NEW state \in {"ESTABLISH", "OPENED"}, NEW protos \in SUBSET Protos,
         NEW again \in SUBSET Protos, PppTypeOK, Request(state, protos, again)
  PROVE  /\ ppp' \in OcPpp /\ ppp'.state = state
         /\ tcp_control_queue' \in Seq(Control)
         /\ ("ack_received" \in ppp'.ncp["LCP"] <=> "ack_received" \in ppp.ncp["LCP"])
<1> DEFINE asked == {p \in protos : "req_sent" \notin ppp.ncp[p] \/ p \in again}
           request(p) == IF p \in asked THEN <<ConfReq(p)>> ELSE <<>>
           ncp == [p \in Protos |-> IF p \in asked THEN ppp.ncp[p] \cup {"req_sent"}
                                                    ELSE ppp.ncp[p]]
           named == [ppp EXCEPT !.state = state]
<1>1. /\ tcp_control_queue' =
           tcp_control_queue \o request("LCP") \o request("IPCP") \o request("IP6CP")
      /\ ppp' = [named EXCEPT !.ncp = ncp]
  BY DEF Request, PppTypeOK, OcPpp
<1>2. /\ ncp \in [Protos -> SUBSET {"req_sent", "ack_received", "ack_sent"}]
      /\ ("ack_received" \in ncp["LCP"] <=> "ack_received" \in ppp.ncp["LCP"])
  <2> HIDE DEF asked
  <2> QED BY DEF PppTypeOK, OcPpp, Protos
<1>3. \A p \in Protos : request(p) \in Seq(Control)
  <2> HIDE DEF asked
  <2> QED BY PacketsAre
<1>4. named \in OcPpp /\ named.state = state
  BY DEF PppTypeOK, OcPpp
<1>5. tcp_control_queue' \in Seq(Control)
  <2> HIDE DEF request
  <2> QED BY <1>1, <1>3 DEF PppTypeOK, Protos
<1> HIDE DEF ncp, named, request, asked
<1> QED BY <1>1, <1>2, <1>4, <1>5 DEF OcPpp

\* The types in parts, for the provers: names, flags, packets and the negotiation.
Words ==
  /\ place \in {"top", "udp", "tcp", "transition", "read", "write", "service", "return",
             "connect", "foot", "obey", "idle", "ended"}
  /\ on \in {"dtls", "tls", "first", "again"} /\ back \in {"first", "read", "write"}
  /\ dtls_state \in {"DISABLED", "SLEEPING", "CONNECTING", "CONNECTED", "ESTABLISHED"}
  /\ delay_close \in {"no", "wait", "callback"}
  /\ up_on \in {"never", "before", "dtls", "tls"}
  /\ quit_reason \in {"none", "aborted_by_caller", "no_network_protocols", "failed_to_establish",
                      "reconnect_failed", "server_reason"}
  /\ ret \in {"0", "-EINTR", "-EIO", "-EPERM", "-EINVAL"}

Flags == {ssl_up, delay_tunnel, tun_up, got_cancel_cmd, got_pause_cmd} \subseteq BOOLEAN
Packets == current_ssl_pkt \in Control \cup {Data, NoPacket} /\ tcp_control_queue \in Seq(Control)
Conns == ppp \in OcPpp /\ answers \subseteq Protos

\* The parts of the types are kept by every step.
LEMMA WordsKept == Words /\ PppNext => Words'
<1> SUFFICES ASSUME Words, PppNext PROVE Words'
  OBVIOUS
<1> USE DEF Words
<1>1. CASE Top
  BY <1>1 DEF Top
<1>2. CASE Udp
  BY <1>2 DEF Udp, UdpTries, UdpAnswered, UdpRuns, UdpAttempts, UdpSleeps, ppp_reset
<1>3. CASE Tcp
  BY <1>3 DEF Tcp, TcpEstablished, TcpWaits, TcpGivesUpOnDtls, TcpRuns, TcpConnects
<1>4. CASE Connect
  BY <1>4 DEF Connect, ConnectDeferred, ConnectWorks, ConnectGivesUp, ConnectInterrupted,
    ppp_reset
<1>5. CASE Transition
  BY <1>5 DEF Transition, Establishing, Opening, NothingWanted, NetworkUp, StaysUp, Terminating,
    Resume, Transport
<1>6. CASE Reads
  BY <1>6 DEF Reads, ReadConfReq, ReadConfAck, ReadConfNak, ReadProtRej, ReadTerm, ReadBad,
    ReadsAll, Parsed, Reply
<1>7. CASE Writes
  BY <1>7 DEF Writes, WriteDone, WriteStalls, ServiceControl, ServiceData, ServiceNothing, Parsed
<1>8. CASE LostDtls
  BY <1>8 DEF LostDtls, Losing
<1>9. CASE LostTls
  BY <1>9 DEF LostTls, Losing
<1>10. CASE Return
  BY <1>10 DEF Return
<1>11. CASE Foot
  BY <1>11 DEF Foot, FootReads, ObeyLater, ObeyCancel, ObeyPause, NothingToObey
<1>12. CASE Resumes
  BY <1>12 DEF Resumes
<1>13. CASE Ended
  BY <1>13 DEF Ended, pppVars
<1> QED BY <1>1, <1>2, <1>3, <1>4, <1>5, <1>6, <1>7, <1>8, <1>9, <1>10, <1>11, <1>12, <1>13 DEF
       PppNext, Runs

LEMMA FlagsKept == Flags /\ PppNext => Flags'
<1> SUFFICES ASSUME Flags, PppNext PROVE Flags'
  OBVIOUS
<1> USE DEF Flags
<1>1. CASE Top
  BY <1>1, Zenon DEF Top
<1>2. CASE Udp
  BY <1>2, Zenon DEF Udp, UdpTries, UdpAnswered, UdpRuns, UdpAttempts, UdpSleeps, ppp_reset
<1>3. CASE Tcp
  BY <1>3, Zenon DEF Tcp, TcpEstablished, TcpWaits, TcpGivesUpOnDtls, TcpRuns, TcpConnects
<1>4. CASE Connect
  BY <1>4, Zenon DEF Connect, ConnectDeferred, ConnectWorks, ConnectGivesUp, ConnectInterrupted,
    ppp_reset
<1>5. CASE Transition
  BY <1>5, Zenon DEF Transition, Establishing, Opening, NothingWanted, NetworkUp, StaysUp,
    Terminating, Resume, Transport
<1>6. CASE Reads
  BY <1>6, Zenon DEF Reads, ReadConfReq, ReadConfAck, ReadConfNak, ReadProtRej, ReadTerm, ReadBad,
    ReadsAll, Parsed, Reply
<1>7. CASE Writes
  BY <1>7, Zenon DEF Writes, WriteDone, WriteStalls, ServiceControl, ServiceData, ServiceNothing,
    Parsed
<1>8. CASE LostDtls
  BY <1>8, Zenon DEF LostDtls, Losing
<1>9. CASE LostTls
  BY <1>9, Zenon DEF LostTls, Losing
<1>10. CASE Return
  BY <1>10, Zenon DEF Return
<1>11. CASE Foot
  BY <1>11, Zenon DEF Foot, FootReads, ObeyLater, ObeyCancel, ObeyPause, NothingToObey
<1>12. CASE Resumes
  BY <1>12, Zenon DEF Resumes
<1>13. CASE Ended
  BY <1>13, Zenon DEF Ended, pppVars
<1> QED BY <1>1, <1>2, <1>3, <1>4, <1>5, <1>6, <1>7, <1>8, <1>9, <1>10, <1>11, <1>12, <1>13 DEF
       PppNext, Runs


\* What a call for some protocols may ask for.
LEMMA Askable == PppTypeOK => Closed \in SUBSET Protos /\ {"LCP"} \in SUBSET Protos
  BY PppAssumption DEF PppAssumption, PppTypeOK, OcPpp, Closed, Protos

\* A step of a termination.
LEMMA Terminates ==
  ASSUME PppTypeOK, NEW now \in BOOLEAN, Terminating(now)
  PROVE  /\ ppp' \in OcPpp /\ ppp'.state = "TERMINATE" /\ answers' = {}
         /\ tcp_control_queue' \in Seq(Control)
<1> DEFINE over == ppp.second_over \/ now
           asks == ppp.termreqs = 0 \/ (over /\ on = "dtls" /\ ppp.termreqs < 3)
<1>1. over \in BOOLEAN /\ ppp.termreqs \in 0 .. 3 /\ ppp.term_acked \in BOOLEAN
  BY DEF PppTypeOK, OcPpp
<1>2. ppp \in OcPpp /\ tcp_control_queue \in Seq(Control)
  BY DEF PppTypeOK
<1>3. CASE asks /\ ~ ppp.term_acked
  <2>1. /\ tcp_control_queue' = Append(tcp_control_queue, TermReq)
        /\ ppp' = Terminated(ppp.termreqs + 1, FALSE, FALSE) /\ answers' = {}
    BY <1>3 DEF Terminating
  <2>2. ppp.termreqs + 1 \in 0 .. 3
    BY <1>1, <1>3
  <2>3. Terminated(ppp.termreqs + 1, FALSE, FALSE) \in OcPpp
    BY <1>2, <2>2, TerminatedIs
  <2>4. Terminated(ppp.termreqs + 1, FALSE, FALSE).state = "TERMINATE"
    BY <1>2, <2>2, TerminatedIs
  <2>5. Append(tcp_control_queue, TermReq) \in Seq(Control)
    BY <1>2, PacketsAre
  <2> HIDE DEF over, asks
  <2> QED BY <2>1, <2>3, <2>4, <2>5
<1>4. CASE ~ (asks /\ ~ ppp.term_acked)
  <2>1. /\ tcp_control_queue' = tcp_control_queue
        /\ ppp' = Terminated(ppp.termreqs, ppp.term_acked, over) /\ answers' = {}
    BY <1>4 DEF Terminating
  <2> HIDE DEF over, asks
  <2> QED BY <1>1, <1>2, <2>1, TerminatedIs
<1> QED BY <1>3, <1>4

\* The server's TERMREQ or TERMACK.
LEMMA TermRead ==
  ASSUME PppTypeOK, ReadTerm
  PROVE  /\ ppp' \in OcPpp /\ ppp'.state = "TERMINATE" /\ answers' = {}
         /\ tcp_control_queue' \in Seq(Control)
<1>1. ppp.second_over \in BOOLEAN /\ ppp.termreqs \in 0 .. 3 /\ ppp.term_acked \in BOOLEAN
  BY DEF PppTypeOK, OcPpp
<1>2. ppp \in OcPpp /\ tcp_control_queue \in Seq(Control)
  BY DEF PppTypeOK
<1>3. answers' = {}
  BY DEF ReadTerm
<1>4. CASE /\ tcp_control_queue' = Append(tcp_control_queue, TermAck)
           /\ ppp' = Terminated(ppp.termreqs, ppp.term_acked, ppp.second_over)
  BY <1>1, <1>2, <1>3, <1>4, TerminatedIs, PacketsAre
<1>5. CASE /\ tcp_control_queue' = tcp_control_queue
           /\ ppp' = Terminated(ppp.termreqs, TRUE, ppp.second_over)
  BY <1>1, <1>2, <1>3, <1>5, TerminatedIs
<1> QED BY <1>4, <1>5 DEF ReadTerm, Reply

LEMMA PacketsKept == PppTypeOK /\ PppNext => Packets'
<1> SUFFICES ASSUME PppTypeOK, PppNext PROVE Packets'
  OBVIOUS
<1> USE DEF Packets, PppTypeOK
<1>1. CASE Top
  BY <1>1 DEF Top
<1>2. CASE Udp
  BY <1>2 DEF Udp, UdpTries, UdpAnswered, UdpRuns, UdpAttempts, UdpSleeps, ppp_reset
<1>3. CASE Tcp
  BY <1>3 DEF Tcp, TcpEstablished, TcpWaits, TcpGivesUpOnDtls, TcpRuns, TcpConnects
<1>4. CASE Connect
  BY <1>4 DEF Connect, ConnectDeferred, ConnectWorks, ConnectGivesUp, ConnectInterrupted,
    ppp_reset
<1>5. CASE Transition
  <2>1. ASSUME NEW again \in SUBSET Protos, Establishing(again) PROVE Packets'
    BY <2>1, Requested, Askable DEF Establishing
  <2>2. ASSUME NEW again \in SUBSET Protos, Opening(again) PROVE Packets'
    BY <2>2, Requested, Askable DEF Opening
  <2>3. ASSUME NEW now \in BOOLEAN, Terminating(now) PROVE Packets'
    BY <2>3, Terminates DEF Terminating
  <2>4. CASE NothingWanted
    BY <2>4 DEF NothingWanted
  <2>5. CASE NetworkUp
    BY <2>5 DEF NetworkUp
  <2>6. CASE StaysUp
    BY <2>6 DEF StaysUp
  <2> QED BY <1>5, <2>1, <2>2, <2>3, <2>4, <2>5, <2>6 DEF Transition
<1>6. CASE Reads
  <2>1. ASSUME NEW p \in Protos, ReadConfReq(p) PROVE Packets'
    BY <2>1, PacketsAre DEF ReadConfReq, Reply
  <2>2. ASSUME NEW p \in Protos, ReadConfAck(p) PROVE Packets'
    BY <2>2, PacketsAre DEF ReadConfAck, Reply
  <2>3. ASSUME NEW p \in Protos, ReadConfNak(p) PROVE Packets'
    BY <2>3, PacketsAre DEF ReadConfNak, Reply
  <2>4. ASSUME NEW p \in Protos, ReadProtRej(p) PROVE Packets'
    BY <2>4, PacketsAre DEF ReadProtRej, Reply
  <2>5. CASE ReadTerm
    BY <2>5, TermRead DEF ReadTerm
  <2>6. CASE ReadBad
    BY <2>6, PacketsAre DEF ReadBad, Reply
  <2>7. CASE ReadsAll
    BY <2>7, PacketsAre DEF ReadsAll, Reply
  <2> QED BY <1>6, <2>1, <2>2, <2>3, <2>4, <2>5, <2>6, <2>7 DEF Reads
<1>7. CASE Writes
  BY <1>7, PacketsAre DEF Writes, WriteDone, WriteStalls, ServiceControl, ServiceData,
    ServiceNothing, Parsed
<1>8. CASE LostDtls
  BY <1>8 DEF LostDtls, Losing
<1>9. CASE LostTls
  BY <1>9 DEF LostTls, Losing
<1>10. CASE Return
  BY <1>10 DEF Return
<1>11. CASE Foot
  BY <1>11 DEF Foot, FootReads, ObeyLater, ObeyCancel, ObeyPause, NothingToObey
<1>12. CASE Resumes
  BY <1>12 DEF Resumes
<1>13. CASE Ended
  BY <1>13 DEF Ended, pppVars
<1> QED BY <1>1, <1>2, <1>3, <1>4, <1>5, <1>6, <1>7, <1>8, <1>9, <1>10, <1>11, <1>12, <1>13 DEF
       PppNext, Runs

\* A protocol that is wanted can only be dropped.
LEMMA WantIs == PppTypeOK => ppp.want \in SUBSET Wanted
  BY DEF PppTypeOK, OcPpp

LEMMA Unwanted ==
  ASSUME NEW p, ppp \in OcPpp
  PROVE  [ppp EXCEPT !.want = @ \ {p}] \in OcPpp
  BY DEF OcPpp

LEMMA ConnsKept == PppTypeOK /\ PppNext => Conns'
<1> SUFFICES ASSUME PppTypeOK, PppNext PROVE Conns'
  OBVIOUS
<1> USE DEF Conns, PppTypeOK
<1>1. CASE Top
  BY <1>1 DEF Top
<1>2. CASE Udp
  BY <1>2, FreshIs, WantIs DEF Udp, UdpTries, UdpAnswered, UdpRuns, UdpAttempts, UdpSleeps,
    ppp_reset
<1>3. CASE Tcp
  BY <1>3 DEF Tcp, TcpEstablished, TcpWaits, TcpGivesUpOnDtls, TcpRuns, TcpConnects
<1>4. CASE Connect
  BY <1>4, FreshIs, WantIs DEF Connect, ConnectDeferred, ConnectWorks, ConnectGivesUp,
    ConnectInterrupted, ppp_reset
<1>5. CASE Transition
  <2>1. ASSUME NEW again \in SUBSET Protos, Establishing(again) PROVE Conns'
    BY <2>1, Requested, Askable DEF Establishing
  <2>2. ASSUME NEW again \in SUBSET Protos, Opening(again) PROVE Conns'
    BY <2>2, Requested, Askable DEF Opening
  <2>3. ASSUME NEW now \in BOOLEAN, Terminating(now) PROVE Conns'
    BY <2>3, Terminates DEF Terminating
  <2>4. CASE NothingWanted
    BY <2>4 DEF NothingWanted, OcPpp
  <2>5. CASE NetworkUp
    BY <2>5 DEF NetworkUp, OcPpp
  <2>6. CASE StaysUp
    BY <2>6 DEF StaysUp, OcPpp
  <2> QED BY <1>5, <2>1, <2>2, <2>3, <2>4, <2>5, <2>6 DEF Transition
<1>6. CASE Reads
  <2>1. ASSUME NEW p \in Protos, ReadConfReq(p) PROVE Conns'
    BY <2>1, FlagAdded DEF ReadConfReq
  <2>2. ASSUME NEW p \in Protos, ReadConfAck(p) PROVE Conns'
    BY <2>2, FlagAdded DEF ReadConfAck
  <2>3. ASSUME NEW p \in Protos, ReadConfNak(p) PROVE Conns'
    <3>1. answers' = answers \ {p} /\ (ppp' = ppp \/ ppp' = [ppp EXCEPT !.want = @ \ {p}])
      BY <2>3 DEF ReadConfNak
    <3> QED BY <3>1, Unwanted
  <2>4. ASSUME NEW p \in Protos, ReadProtRej(p) PROVE Conns'
    BY <2>4, Unwanted DEF ReadProtRej
  <2>5. CASE ReadTerm
    BY <2>5, TermRead
  <2>6. CASE ReadBad
    BY <2>6 DEF ReadBad
  <2>7. CASE ReadsAll
    BY <2>7 DEF ReadsAll
  <2> QED BY <1>6, <2>1, <2>2, <2>3, <2>4, <2>5, <2>6, <2>7 DEF Reads
<1>7. CASE Writes
  BY <1>7 DEF Writes, WriteDone, WriteStalls, ServiceControl, ServiceData, ServiceNothing, Parsed
<1>8. CASE LostDtls
  BY <1>8 DEF LostDtls, Losing
<1>9. CASE LostTls
  BY <1>9 DEF LostTls, Losing
<1>10. CASE Return
  BY <1>10 DEF Return
<1>11. CASE Foot
  BY <1>11 DEF Foot, FootReads, ObeyLater, ObeyCancel, ObeyPause, NothingToObey
<1>12. CASE Resumes
  BY <1>12 DEF Resumes
<1>13. CASE Ended
  BY <1>13 DEF Ended, pppVars
<1> QED BY <1>1, <1>2, <1>3, <1>4, <1>5, <1>6, <1>7, <1>8, <1>9, <1>10, <1>11, <1>12, <1>13 DEF
       PppNext, Runs

LEMMA PppTypesKept == PppTypeOK /\ PppNext => PppTypeOK'
<1>1. PppTypeOK <=> Words /\ Conns /\ Packets /\ Flags
  BY DEF PppTypeOK, Words, Conns, Packets, Flags
<1>2. PppTypeOK' <=> (Words /\ Conns /\ Packets /\ Flags)'
  BY DEF PppTypeOK, Words, Conns, Packets, Flags
<1> QED BY <1>1, <1>2, WordsKept, ConnsKept, PacketsKept, FlagsKept

\* The parts of the invariant are kept by every step.
LEMMA OnConnectionKept == PppTypeOK /\ OnConnection /\ PppNext => OnConnection'
<1> SUFFICES ASSUME PppTypeOK, OnConnection, PppNext PROVE OnConnection'
  OBVIOUS
<1> USE DEF PppTypeOK, OnConnection, Running, Live
<1>1. CASE Top
  BY <1>1 DEF Top
<1>2. CASE Udp
  BY <1>2, FreshIs, WantIs DEF Udp, UdpTries, UdpAnswered, UdpRuns, UdpAttempts, UdpSleeps,
    ppp_reset
<1>3. CASE Tcp
  <2>1. CASE TcpEstablished
    BY <2>1 DEF TcpEstablished
  <2>2. CASE TcpWaits
    BY <2>2 DEF TcpWaits, AwaitingDtls
  <2>3. CASE TcpGivesUpOnDtls
    BY <2>3 DEF TcpGivesUpOnDtls, AwaitingDtls
  <2>4. CASE TcpRuns
    BY <2>4 DEF TcpRuns
  <2>5. CASE TcpConnects
    BY <2>5 DEF TcpConnects, AwaitingDtls
  <2> QED BY <1>3, <2>1, <2>2, <2>3, <2>4, <2>5 DEF Tcp
<1>4. CASE Connect
  BY <1>4, FreshIs, WantIs DEF Connect, ConnectDeferred, ConnectWorks, ConnectGivesUp,
    ConnectInterrupted, ppp_reset
<1>5. CASE Transition
  <2>1. ASSUME NEW again \in SUBSET Protos, Establishing(again) PROVE OnConnection'
    BY <2>1, Requested, Askable, PacketsAre DEF Establishing, Resume
  <2>2. ASSUME NEW again \in SUBSET Protos, Opening(again) PROVE OnConnection'
    BY <2>2, Requested, Askable DEF Opening, Resume, Opened, IsOpen
  <2>3. ASSUME NEW now \in BOOLEAN, Terminating(now) PROVE OnConnection'
    BY <2>3, Terminates DEF Terminating, Resume, Ending
  <2>4. CASE NothingWanted
    BY <2>4 DEF NothingWanted, Resume, OcPpp, Opened, IsOpen
  <2>5. CASE NetworkUp
    BY <2>5 DEF NetworkUp, Resume, OcPpp, Opened, IsOpen
  <2>6. CASE StaysUp
    BY <2>6 DEF StaysUp, Resume, OcPpp, Opened, IsOpen
  <2> QED BY <1>5, <2>1, <2>2, <2>3, <2>4, <2>5, <2>6 DEF Transition
<1>6. CASE Reads
  <2>1. ASSUME NEW p \in Protos, ReadConfReq(p) PROVE OnConnection'
    BY <2>1 DEF ReadConfReq, Parsed, Reply, OcPpp
  <2>2. ASSUME NEW p \in Protos, ReadConfAck(p) PROVE OnConnection'
    BY <2>2 DEF ReadConfAck, Parsed, Reply, OcPpp
  <2>3. ASSUME NEW p \in Protos, ReadConfNak(p) PROVE OnConnection'
    BY <2>3 DEF ReadConfNak, Parsed, Reply, OcPpp
  <2>4. ASSUME NEW p \in Protos, ReadProtRej(p) PROVE OnConnection'
    BY <2>4 DEF ReadProtRej, Parsed, Reply, OcPpp
  <2>5. CASE ReadTerm
    BY <2>5, TermRead DEF ReadTerm, Parsed
  <2>6. CASE ReadBad
    BY <2>6 DEF ReadBad
  <2>7. CASE ReadsAll
    BY <2>7 DEF ReadsAll
  <2> QED BY <1>6, <2>1, <2>2, <2>3, <2>4, <2>5, <2>6, <2>7 DEF Reads
<1>7. CASE Writes
  BY <1>7, PacketsAre DEF Writes, WriteDone, WriteStalls, ServiceControl, ServiceData,
    ServiceNothing, Parsed
<1>8. CASE LostDtls
  BY <1>8 DEF LostDtls, Losing
<1>9. CASE LostTls
  BY <1>9 DEF LostTls, Losing
<1>10. CASE Return
  BY <1>10 DEF Return
<1>11. CASE Foot
  BY <1>11 DEF Foot, FootReads, ObeyLater, ObeyCancel, ObeyPause, NothingToObey
<1>12. CASE Resumes
  BY <1>12 DEF Resumes
<1>13. CASE Ended
  BY <1>13 DEF Ended, pppVars
<1> QED BY <1>1, <1>2, <1>3, <1>4, <1>5, <1>6, <1>7, <1>8, <1>9, <1>10, <1>11, <1>12, <1>13 DEF
       PppNext, Runs

LEMMA TakesOverKept == PppTypeOK /\ OnConnection /\ TakesOver /\ PppNext => TakesOver'
<1> SUFFICES ASSUME PppTypeOK, OnConnection, TakesOver, PppNext PROVE TakesOver'
  OBVIOUS
<1> USE DEF PppTypeOK, OnConnection, TakesOver, Running, Live
<1>1. CASE Top
  BY <1>1 DEF Top
<1>2. CASE Udp
  <2>1. CASE UdpTries
    BY <2>1 DEF UdpTries
  <2>2. CASE UdpAnswered
    BY <2>2, FreshIs, WantIs DEF UdpAnswered, ppp_reset
  <2>3. CASE UdpRuns
    BY <2>3 DEF UdpRuns, Protos
  <2>4. CASE UdpAttempts
    BY <2>4, FreshIs, WantIs DEF UdpAttempts, ppp_reset
  <2>5. CASE UdpSleeps
    BY <2>5 DEF UdpSleeps
  <2> QED BY <1>2, <2>1, <2>2, <2>3, <2>4, <2>5 DEF Udp
<1>3. CASE Tcp
  <2>1. CASE TcpEstablished
    BY <2>1 DEF TcpEstablished
  <2>2. CASE TcpWaits
    BY <2>2 DEF TcpWaits, AwaitingDtls
  <2>3. CASE TcpGivesUpOnDtls
    BY <2>3 DEF TcpGivesUpOnDtls, AwaitingDtls
  <2>4. CASE TcpRuns
    BY <2>4 DEF TcpRuns
  <2>5. CASE TcpConnects
    BY <2>5 DEF TcpConnects, AwaitingDtls
  <2> QED BY <1>3, <2>1, <2>2, <2>3, <2>4, <2>5 DEF Tcp
<1>4. CASE Connect
  BY <1>4, FreshIs, WantIs DEF Connect, ConnectDeferred, ConnectWorks, ConnectGivesUp,
    ConnectInterrupted, ppp_reset
<1>5. CASE Transition
  <2>1. ASSUME NEW again \in SUBSET Protos, Establishing(again) PROVE TakesOver'
    BY <2>1, Requested, Askable, PacketsAre DEF Establishing, Resume
  <2>2. ASSUME NEW again \in SUBSET Protos, Opening(again) PROVE TakesOver'
    BY <2>2, Requested, Askable DEF Opening, Resume, Opened, IsOpen
  <2>3. ASSUME NEW now \in BOOLEAN, Terminating(now) PROVE TakesOver'
    BY <2>3, Terminates DEF Terminating, Resume, Ending
  <2>4. CASE NothingWanted
    BY <2>4 DEF NothingWanted, Resume, OcPpp, Opened, IsOpen
  <2>5. CASE NetworkUp
    BY <2>5 DEF NetworkUp, Resume, OcPpp, Opened, IsOpen
  <2>6. CASE StaysUp
    BY <2>6 DEF StaysUp, Resume, OcPpp, Opened, IsOpen
  <2> QED BY <1>5, <2>1, <2>2, <2>3, <2>4, <2>5, <2>6 DEF Transition
<1>6. CASE Reads
  <2>1. ASSUME NEW p \in Protos, ReadConfReq(p) PROVE TakesOver'
    BY <2>1 DEF ReadConfReq, Parsed, Reply, OcPpp
  <2>2. ASSUME NEW p \in Protos, ReadConfAck(p) PROVE TakesOver'
    BY <2>2 DEF ReadConfAck, Parsed, Reply, OcPpp
  <2>3. ASSUME NEW p \in Protos, ReadConfNak(p) PROVE TakesOver'
    BY <2>3 DEF ReadConfNak, Parsed, Reply, OcPpp
  <2>4. ASSUME NEW p \in Protos, ReadProtRej(p) PROVE TakesOver'
    BY <2>4 DEF ReadProtRej, Parsed, Reply, OcPpp
  <2>5. CASE ReadTerm
    BY <2>5, TermRead DEF ReadTerm, Parsed
  <2>6. CASE ReadBad
    BY <2>6 DEF ReadBad
  <2>7. CASE ReadsAll
    BY <2>7 DEF ReadsAll
  <2> QED BY <1>6, <2>1, <2>2, <2>3, <2>4, <2>5, <2>6, <2>7 DEF Reads
<1>7. CASE Writes
  BY <1>7, PacketsAre DEF Writes, WriteDone, WriteStalls, ServiceControl, ServiceData,
    ServiceNothing, Parsed
<1>8. CASE LostDtls
  BY <1>8 DEF LostDtls, Losing
<1>9. CASE LostTls
  BY <1>9 DEF LostTls, Losing
<1>10. CASE Return
  BY <1>10 DEF Return
<1>11. CASE Foot
  BY <1>11 DEF Foot, FootReads, ObeyLater, ObeyCancel, ObeyPause, NothingToObey
<1>12. CASE Resumes
  BY <1>12 DEF Resumes
<1>13. CASE Ended
  BY <1>13 DEF Ended, pppVars
<1> QED BY <1>1, <1>2, <1>3, <1>4, <1>5, <1>6, <1>7, <1>8, <1>9, <1>10, <1>11, <1>12, <1>13 DEF
       PppNext, Runs

LEMMA UpHereKept == PppTypeOK /\ OnConnection /\ TakesOver /\ UpHere /\ PppNext => UpHere'
<1> SUFFICES ASSUME PppTypeOK, OnConnection, TakesOver, UpHere, PppNext PROVE UpHere'
  OBVIOUS
<1> USE DEF PppTypeOK, OnConnection, TakesOver, UpHere, Running, Live, Here
<1>1. CASE Top
  BY <1>1 DEF Top
<1>2. CASE Udp
  BY <1>2, FreshIs, WantIs DEF Udp, UdpTries, UdpAnswered, UdpRuns, UdpAttempts, UdpSleeps,
    ppp_reset
<1>3. CASE Tcp
  <2>1. CASE TcpEstablished
    BY <2>1 DEF TcpEstablished
  <2>2. CASE TcpWaits
    BY <2>2 DEF TcpWaits, AwaitingDtls
  <2>3. CASE TcpGivesUpOnDtls
    BY <2>3 DEF TcpGivesUpOnDtls, AwaitingDtls
  <2>4. CASE TcpRuns
    BY <2>4 DEF TcpRuns
  <2>5. CASE TcpConnects
    BY <2>5 DEF TcpConnects, AwaitingDtls
  <2> QED BY <1>3, <2>1, <2>2, <2>3, <2>4, <2>5 DEF Tcp
<1>4. CASE Connect
  BY <1>4, FreshIs, WantIs DEF Connect, ConnectDeferred, ConnectWorks, ConnectGivesUp,
    ConnectInterrupted, ppp_reset
<1>5. CASE Transition
  <2>1. ASSUME NEW again \in SUBSET Protos, Establishing(again) PROVE UpHere'
    BY <2>1, Requested, Askable, PacketsAre DEF Establishing, Resume
  <2>2. ASSUME NEW again \in SUBSET Protos, Opening(again) PROVE UpHere'
    BY <2>2, Requested, Askable DEF Opening, Resume, Opened, IsOpen
  <2>3. ASSUME NEW now \in BOOLEAN, Terminating(now) PROVE UpHere'
    BY <2>3, Terminates DEF Terminating, Resume, Ending
  <2>4. CASE NothingWanted
    BY <2>4 DEF NothingWanted, Resume, OcPpp, Opened, IsOpen
  <2>5. CASE NetworkUp
    BY <2>5 DEF NetworkUp, Resume, OcPpp, Opened, IsOpen, Transport
  <2>6. CASE StaysUp
    BY <2>6 DEF StaysUp, Resume, OcPpp, Opened, IsOpen
  <2> QED BY <1>5, <2>1, <2>2, <2>3, <2>4, <2>5, <2>6 DEF Transition
<1>6. CASE Reads
  <2>1. ASSUME NEW p \in Protos, ReadConfReq(p) PROVE UpHere'
    BY <2>1 DEF ReadConfReq, Parsed, Reply, OcPpp
  <2>2. ASSUME NEW p \in Protos, ReadConfAck(p) PROVE UpHere'
    BY <2>2 DEF ReadConfAck, Parsed, Reply, OcPpp
  <2>3. ASSUME NEW p \in Protos, ReadConfNak(p) PROVE UpHere'
    BY <2>3 DEF ReadConfNak, Parsed, Reply, OcPpp
  <2>4. ASSUME NEW p \in Protos, ReadProtRej(p) PROVE UpHere'
    BY <2>4 DEF ReadProtRej, Parsed, Reply, OcPpp
  <2>5. CASE ReadTerm
    BY <2>5, TermRead DEF ReadTerm, Parsed
  <2>6. CASE ReadBad
    BY <2>6 DEF ReadBad
  <2>7. CASE ReadsAll
    BY <2>7 DEF ReadsAll
  <2> QED BY <1>6, <2>1, <2>2, <2>3, <2>4, <2>5, <2>6, <2>7 DEF Reads
<1>7. CASE Writes
  BY <1>7, PacketsAre DEF Writes, WriteDone, WriteStalls, ServiceControl, ServiceData,
    ServiceNothing, Parsed
<1>8. CASE LostDtls
  BY <1>8 DEF LostDtls, Losing
<1>9. CASE LostTls
  BY <1>9 DEF LostTls, Losing
<1>10. CASE Return
  BY <1>10 DEF Return
<1>11. CASE Foot
  BY <1>11 DEF Foot, FootReads, ObeyLater, ObeyCancel, ObeyPause, NothingToObey
<1>12. CASE Resumes
  BY <1>12 DEF Resumes
<1>13. CASE Ended
  BY <1>13 DEF Ended, pppVars
<1> QED BY <1>1, <1>2, <1>3, <1>4, <1>5, <1>6, <1>7, <1>8, <1>9, <1>10, <1>11, <1>12, <1>13 DEF
       PppNext, Runs

LEMMA TunWaitsKept == PppTypeOK /\ TunWaits /\ PppNext => TunWaits'
<1> SUFFICES ASSUME PppTypeOK, TunWaits, PppNext PROVE TunWaits'
  OBVIOUS
<1> USE DEF PppTypeOK, TunWaits, Running, Due
<1>1. CASE Top
  BY <1>1 DEF Top
<1>2. CASE Udp
  BY <1>2, FreshIs, WantIs DEF Udp, UdpTries, UdpAnswered, UdpRuns, UdpAttempts, UdpSleeps,
    ppp_reset
<1>3. CASE Tcp
  <2>1. CASE TcpEstablished
    BY <2>1 DEF TcpEstablished
  <2>2. CASE TcpWaits
    BY <2>2 DEF TcpWaits, AwaitingDtls
  <2>3. CASE TcpGivesUpOnDtls
    BY <2>3 DEF TcpGivesUpOnDtls, AwaitingDtls
  <2>4. CASE TcpRuns
    BY <2>4 DEF TcpRuns
  <2>5. CASE TcpConnects
    BY <2>5 DEF TcpConnects, AwaitingDtls
  <2> QED BY <1>3, <2>1, <2>2, <2>3, <2>4, <2>5 DEF Tcp
<1>4. CASE Connect
  BY <1>4, FreshIs, WantIs DEF Connect, ConnectDeferred, ConnectWorks, ConnectGivesUp,
    ConnectInterrupted, ppp_reset
<1>5. CASE Transition
  <2>1. ASSUME NEW again \in SUBSET Protos, Establishing(again) PROVE TunWaits'
    BY <2>1, Requested, Askable, PacketsAre DEF Establishing, Resume
  <2>2. ASSUME NEW again \in SUBSET Protos, Opening(again) PROVE TunWaits'
    BY <2>2, Requested, Askable DEF Opening, Resume, Opened, IsOpen
  <2>3. ASSUME NEW now \in BOOLEAN, Terminating(now) PROVE TunWaits'
    BY <2>3, Terminates DEF Terminating, Resume, Ending
  <2>4. CASE NothingWanted
    BY <2>4 DEF NothingWanted, Resume, OcPpp, Opened, IsOpen
  <2>5. CASE NetworkUp
    BY <2>5 DEF NetworkUp, Resume, OcPpp, Opened, IsOpen, Transport
  <2>6. CASE StaysUp
    BY <2>6 DEF StaysUp, Resume, OcPpp, Opened, IsOpen
  <2> QED BY <1>5, <2>1, <2>2, <2>3, <2>4, <2>5, <2>6 DEF Transition
<1>6. CASE Reads
  <2>1. ASSUME NEW p \in Protos, ReadConfReq(p) PROVE TunWaits'
    BY <2>1 DEF ReadConfReq, Parsed, Reply, OcPpp
  <2>2. ASSUME NEW p \in Protos, ReadConfAck(p) PROVE TunWaits'
    BY <2>2 DEF ReadConfAck, Parsed, Reply, OcPpp
  <2>3. ASSUME NEW p \in Protos, ReadConfNak(p) PROVE TunWaits'
    BY <2>3 DEF ReadConfNak, Parsed, Reply, OcPpp
  <2>4. ASSUME NEW p \in Protos, ReadProtRej(p) PROVE TunWaits'
    BY <2>4 DEF ReadProtRej, Parsed, Reply, OcPpp
  <2>5. CASE ReadTerm
    BY <2>5, TermRead DEF ReadTerm, Parsed
  <2>6. CASE ReadBad
    BY <2>6 DEF ReadBad
  <2>7. CASE ReadsAll
    BY <2>7 DEF ReadsAll
  <2> QED BY <1>6, <2>1, <2>2, <2>3, <2>4, <2>5, <2>6, <2>7 DEF Reads
<1>7. CASE Writes
  BY <1>7, PacketsAre DEF Writes, WriteDone, WriteStalls, ServiceControl, ServiceData,
    ServiceNothing, Parsed
<1>8. CASE LostDtls
  BY <1>8 DEF LostDtls, Losing
<1>9. CASE LostTls
  BY <1>9 DEF LostTls, Losing
<1>10. CASE Return
  BY <1>10 DEF Return
<1>11. CASE Foot
  BY <1>11 DEF Foot, FootReads, ObeyLater, ObeyCancel, ObeyPause, NothingToObey
<1>12. CASE Resumes
  BY <1>12 DEF Resumes
<1>13. CASE Ended
  BY <1>13 DEF Ended, pppVars
<1> QED BY <1>1, <1>2, <1>3, <1>4, <1>5, <1>6, <1>7, <1>8, <1>9, <1>10, <1>11, <1>12, <1>13 DEF
       PppNext, Runs

LEMMA CloseWaitsKept ==
  PppTypeOK /\ OnConnection /\ TakesOver /\ CloseWaits /\ PppNext => CloseWaits'
<1> SUFFICES ASSUME PppTypeOK, OnConnection, TakesOver, CloseWaits, PppNext PROVE CloseWaits'
  OBVIOUS
<1> USE DEF PppTypeOK, OnConnection, TakesOver, CloseWaits, Running, Live, Pending
<1>1. CASE Top
  BY <1>1 DEF Top
<1>2. CASE Udp
  BY <1>2, FreshIs, WantIs DEF Udp, UdpTries, UdpAnswered, UdpRuns, UdpAttempts, UdpSleeps,
    ppp_reset
<1>3. CASE Tcp
  <2>1. CASE TcpEstablished
    BY <2>1 DEF TcpEstablished
  <2>2. CASE TcpWaits
    BY <2>2 DEF TcpWaits, AwaitingDtls
  <2>3. CASE TcpGivesUpOnDtls
    BY <2>3 DEF TcpGivesUpOnDtls, AwaitingDtls
  <2>4. CASE TcpRuns
    BY <2>4 DEF TcpRuns
  <2>5. CASE TcpConnects
    BY <2>5 DEF TcpConnects, AwaitingDtls
  <2> QED BY <1>3, <2>1, <2>2, <2>3, <2>4, <2>5 DEF Tcp
<1>4. CASE Connect
  BY <1>4, FreshIs, WantIs DEF Connect, ConnectDeferred, ConnectWorks, ConnectGivesUp,
    ConnectInterrupted, ppp_reset
<1>5. CASE Transition
  <2>1. ASSUME NEW again \in SUBSET Protos, Establishing(again) PROVE CloseWaits'
    BY <2>1, Requested, Askable, PacketsAre DEF Establishing, Resume
  <2>2. ASSUME NEW again \in SUBSET Protos, Opening(again) PROVE CloseWaits'
    BY <2>2, Requested, Askable DEF Opening, Resume, Opened, IsOpen
  <2>3. ASSUME NEW now \in BOOLEAN, Terminating(now) PROVE CloseWaits'
    BY <2>3, Terminates DEF Terminating, Resume, Ending
  <2>4. CASE NothingWanted
    BY <2>4 DEF NothingWanted, Resume, OcPpp, Opened, IsOpen
  <2>5. CASE NetworkUp
    BY <2>5 DEF NetworkUp, Resume, OcPpp, Opened, IsOpen
  <2>6. CASE StaysUp
    BY <2>6 DEF StaysUp, Resume, OcPpp, Opened, IsOpen
  <2> QED BY <1>5, <2>1, <2>2, <2>3, <2>4, <2>5, <2>6 DEF Transition
<1>6. CASE Reads
  <2>1. ASSUME NEW p \in Protos, ReadConfReq(p) PROVE CloseWaits'
    BY <2>1 DEF ReadConfReq, Parsed, Reply, OcPpp
  <2>2. ASSUME NEW p \in Protos, ReadConfAck(p) PROVE CloseWaits'
    BY <2>2 DEF ReadConfAck, Parsed, Reply, OcPpp
  <2>3. ASSUME NEW p \in Protos, ReadConfNak(p) PROVE CloseWaits'
    BY <2>3 DEF ReadConfNak, Parsed, Reply, OcPpp
  <2>4. ASSUME NEW p \in Protos, ReadProtRej(p) PROVE CloseWaits'
    BY <2>4 DEF ReadProtRej, Parsed, Reply, OcPpp
  <2>5. CASE ReadTerm
    BY <2>5, TermRead DEF ReadTerm, Parsed
  <2>6. CASE ReadBad
    BY <2>6 DEF ReadBad
  <2>7. CASE ReadsAll
    BY <2>7 DEF ReadsAll
  <2> QED BY <1>6, <2>1, <2>2, <2>3, <2>4, <2>5, <2>6, <2>7 DEF Reads
<1>7. CASE Writes
  BY <1>7, PacketsAre DEF Writes, WriteDone, WriteStalls, ServiceControl, ServiceData,
    ServiceNothing, Parsed
<1>8. CASE LostDtls
  BY <1>8 DEF LostDtls, Losing
<1>9. CASE LostTls
  BY <1>9 DEF LostTls, Losing
<1>10. CASE Return
  BY <1>10 DEF Return
<1>11. CASE Foot
  BY <1>11 DEF Foot, FootReads, ObeyLater, ObeyCancel, ObeyPause, NothingToObey
<1>12. CASE Resumes
  BY <1>12 DEF Resumes
<1>13. CASE Ended
  BY <1>13 DEF Ended, pppVars
<1> QED BY <1>1, <1>2, <1>3, <1>4, <1>5, <1>6, <1>7, <1>8, <1>9, <1>10, <1>11, <1>12, <1>13 DEF
       PppNext, Runs

\* It holds at first, with and without DTLS, and is inductive.
LEMMA PppInvStarts == PppInit => PppInv
<1> SUFFICES ASSUME PppInit PROVE PppInv
  OBVIOUS
<1>1. \/ ppp = Fresh(Wanted)
      \/ ppp = [Fresh(Wanted) EXCEPT !.state = "ESTABLISH", !.ncp["LCP"] = {"req_sent"}]
  BY DEF PppInit
<1> DEFINE new == Fresh(Wanted)
           asking == [new EXCEPT !.ncp["LCP"] = @ \cup {"req_sent"}]
<1>2. /\ ppp \in OcPpp /\ ppp.state \in {"DEAD", "ESTABLISH"}
      /\ ppp.state = "DEAD" => ppp.ncp = [p \in Protos |-> {}]
  <2>1. new \in OcPpp /\ new.state = "DEAD" /\ new.ncp = [p \in Protos |-> {}]
    BY FreshIs
  <2>2. asking \in OcPpp
    <3> HIDE DEF new
    <3> QED BY <2>1, FlagAdded DEF Protos
  <2>3. ppp = new \/ ppp = [asking EXCEPT !.state = "ESTABLISH"]
    <3>1. new.ncp["LCP"] \cup {"req_sent"} = {"req_sent"}
      BY <2>1 DEF Protos
    <3> HIDE DEF new
    <3>2. ppp = new \/ ppp = [new EXCEPT !.state = "ESTABLISH", !.ncp["LCP"] = {"req_sent"}]
      BY <1>1 DEF new
    <3> QED BY <2>1, <3>1, <3>2 DEF OcPpp
  <2> HIDE DEF new, asking
  <2> QED BY <2>1, <2>2, <2>3 DEF OcPpp
<1>3. PppTypeOK
  <2>1. Words /\ Flags
    BY DEF PppInit, Words, Flags
  <2>2. Packets
    BY DEF PppInit, Packets
  <2>3. Conns
    BY <1>2 DEF PppInit, Conns, Protos
  <2> QED BY <2>1, <2>2, <2>3 DEF PppTypeOK, Words, Flags, Packets, Conns
<1>4. OnConnection /\ TakesOver /\ TunWaits /\ CloseWaits
  BY <1>2 DEF PppInit, OnConnection, TakesOver, TunWaits, CloseWaits, Running, Live, Due
<1>5. UpHere
  BY <1>2, PacketsAre DEF PppInit, UpHere
<1> QED BY <1>3, <1>4, <1>5 DEF PppInv

LEMMA PppInvKept == PppInv /\ [PppNext]_pppVars => PppInv'
<1>1. CASE PppNext
  BY <1>1, PppTypesKept, OnConnectionKept, TakesOverKept, UpHereKept, TunWaitsKept,
     CloseWaitsKept DEF PppInv
<1>2. CASE UNCHANGED pppVars
  BY <1>2 DEF pppVars, PppInv, PppTypeOK, OnConnection, TakesOver, UpHere, TunWaits, CloseWaits,
              Running, Live, Here, Due, Pending
<1> QED BY <1>1, <1>2

\* PPP's types, for any network protocols and any number of control packets.
THEOREM PppTypes == PppSpec => []PppTypeOK
<1>1. PppInv => PppTypeOK
  BY DEF PppInv
<1> QED BY <1>1, PppInvStarts, PppInvKept, PTL DEF PppSpec

\* Neither the device nor the data runs ahead of the negotiation on a connection, over any
\* number of changes between DTLS and TLS.
THEOREM NothingRunsAhead == PppSpec => WhereNegotiated
<1>1. PppInv /\ [PppNext]_pppVars => (~ tun_up /\ tun_up' => up_on # "never")
  <2> SUFFICES ASSUME PppInv, [PppNext]_pppVars, ~ tun_up, tun_up' PROVE up_on # "never"
    OBVIOUS
  <2>1. CASE Top
    BY <2>1 DEF Top, PppInv, TunWaits, Due
  <2>2. CASE ~ Top
    <3>1. UNCHANGED tun_up
      BY <2>2 DEF PppNext, Runs, Top, Udp, UdpTries, UdpAnswered, UdpRuns, UdpAttempts,
         UdpSleeps, Tcp, TcpEstablished, TcpWaits, TcpGivesUpOnDtls, TcpRuns, TcpConnects, Connect,
         ConnectDeferred, ConnectWorks, ConnectGivesUp, ConnectInterrupted, Transition,
         Establishing, Opening, NothingWanted, NetworkUp, StaysUp, Terminating, Reads, ReadConfReq,
         ReadConfAck, ReadConfNak, ReadProtRej, ReadTerm, ReadBad, ReadsAll, Writes, WriteDone,
         WriteStalls, ServiceControl, ServiceData, ServiceNothing, LostDtls, Losing, LostTls,
         Return, Foot, FootReads, ObeyLater, ObeyCancel, ObeyPause, NothingToObey, Resumes, Ended,
         pppVars
    <3> QED BY <3>1
  <2> QED BY <2>1, <2>2
<1>2. PppInv /\ [PppNext]_pppVars =>
        (place = "write" /\ place' = "service" /\ current_ssl_pkt = Data => up_on = Transport)
  BY DEF PppInv, OnConnection, UpHere, Running, Live, Here, Transport
<1>3. PppSpec => TunAfterNegotiation
  BY <1>1, PppInvStarts, PppInvKept, PTL DEF PppSpec, TunAfterNegotiation
<1>4. PppSpec => DataWhereUp
  BY <1>2, PppInvStarts, PppInvKept, PTL DEF PppSpec, DataWhereUp
<1> QED BY <1>3, <1>4 DEF WhereNegotiated

\* A network that is up is not closed by a cancel without TERMREQ having been asked for.
THEOREM CancelsAreAnnounced == PppSpec => ClosesWithTermReq
<1>1. PppInv /\ [PppNext]_pppVars =>
        (ObeyCancel /\ ppp.state = "NETWORK" => got_pause_cmd)
  BY DEF PppInv, CloseWaits, ObeyCancel
<1> QED BY <1>1, PppInvStarts, PppInvKept, PTL DEF PppSpec, ClosesWithTermReq
=============================================================================
