----------------------------- MODULE PacketPipe -----------------------------
(***************************************************************************)
(* What the tun device and the loop promise to packets that go one way,    *)
(* with no queue, no ring and no kernel: they are numbered as they are put *)
(* in, and each comes out next after those before it, or is lost in its    *)
(* turn.                                                                   *)
(***************************************************************************)
EXTENDS Integers, Sequences

VARIABLES
  put,     \* how many were put in
  taken,   \* those that came out
  lost

vars == <<put, taken, lost>>

\* The first g packets are gone.
Gone(g) == {taken[i] : i \in 1 .. Len(taken)} \cup lost = 1 .. g

Init == put = 0 /\ taken = <<>> /\ lost = {}

Put ==
  /\ put' \in Nat /\ put' > put
  /\ UNCHANGED <<taken, lost>>

\* One packet, or several at a time.
Take ==
  /\ \E g \in 0 .. put : /\ Gone(g)
                         /\ \E n \in 1 .. put - g : taken' = taken \o [i \in 1 .. n |-> g + i]
  /\ UNCHANGED <<put, lost>>

Lose ==
  /\ \E g \in 0 .. put - 1 : Gone(g) /\ lost' = lost \cup {g + 1}
  /\ UNCHANGED <<put, taken>>

Next == Put \/ Take \/ Lose

Spec == Init /\ [][Next]_vars
=============================================================================
