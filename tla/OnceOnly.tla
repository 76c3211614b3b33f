------------------------------ MODULE OnceOnly ------------------------------
(***************************************************************************)
(* What a replay filter promises, with no window at all: it remembers      *)
(* every packet that ever came, refuses the ones it has seen and the ones  *)
(* more than W behind the newest, and takes every other one. With          *)
(* Protect = FALSE it takes everything.                                    *)
(***************************************************************************)
EXTENDS Integers

CONSTANTS W, MaxSeq, Protect

VARIABLES
  seen,     \* the sequence numbers that have been taken
  verdict   \* the last packet and whether it was taken

vars == <<seen, verdict>>

NoVerdict == [seq |-> -1, taken |-> FALSE]

TooOld(s) == \E n \in seen : n - s > W

Init == seen = {} /\ verdict = NoVerdict

Arrive(s) ==
  /\ verdict' = [seq |-> s, taken |-> ~ Protect \/ ~ (s \in seen \/ TooOld(s))]
  /\ seen' = IF TooOld(s) THEN seen ELSE seen \cup {s}

Next == \E s \in 0 .. MaxSeq : Arrive(s)

Spec == Init /\ [][Next]_vars
=============================================================================
