-------------------------------- MODULE Hotp --------------------------------
(***************************************************************************)
(* HOTP tokens: a counter that each code moves on, kept where several      *)
(* programs find it.  do_gen_hotp_code() locks the token, makes a code and *)
(* stores the counter before the code is sent.  Applications bring their   *)
(* own storage through the callbacks; openconnect itself has a file that   *)
(* it does not lock, which is emptied before it is written.                *)
(***************************************************************************)
EXTENDS Integers

CONSTANTS
  Clients,      \* programs that make codes from the same token
  MaxCounter,   \* codes are made up to this one (bound)
  MaxCrashes    \* programs that end at any point (bound)

Empty == -1
None == "none"

ASSUME HotpAssumption == MaxCounter \in Nat /\ MaxCrashes \in Nat /\ None \notin Clients

VARIABLES
  setup,        \* locking: the callbacks of an application that locks; active: the
                \* programs that run; writable: the file is; hmac: codes can be computed
  file,         \* the counter that is stored
  holder,       \* of the lock
  pc, token_time, token_tries,
  sent,         \* history: the codes that servers were sent
  repeated,     \* history: one of them had been sent before
  crashes

hotpVars == <<setup, file, holder, pc, token_time, token_tries, sent, repeated, crashes>>

HotpInit ==
  /\ setup \in [locking : BOOLEAN, active : SUBSET Clients, writable : BOOLEAN, hmac : BOOLEAN]
  /\ file = 0 /\ holder = None
  /\ pc = [c \in Clients |-> "idle"]
  /\ token_time = [c \in Clients |-> 0]
  /\ token_tries = [c \in Clients |-> 0]
  /\ sent = {} /\ repeated = FALSE /\ crashes = 0

Goto(c, label) == pc' = [pc EXCEPT ![c] = label]

Unlocked(c) == IF holder = c THEN None ELSE holder

\* A form wants a code: two of them, and the user is asked after that.
can_gen_hotp_code(c) ==
  /\ c \in setup.active /\ pc[c] = "idle" /\ token_tries[c] <= 1
  /\ Goto(c, "waiting")
  /\ UNCHANGED <<setup, file, holder, token_time, token_tries, sent, repeated, crashes>>

\* Broken on purpose: what the program knows of the token is good enough.
lock_token_Stale(c) ==
  /\ pc[c] = "waiting" /\ (setup.locking => holder = None)
  /\ holder' = (IF setup.locking THEN c ELSE holder)
  /\ Goto(c, "locked")
  /\ UNCHANGED <<setup, file, token_time, token_tries, sent, repeated, crashes>>

\* The token is read again, others may have used it.
lock_token(c) ==
  /\ pc[c] = "waiting" /\ (setup.locking => holder = None)
  /\ file < MaxCounter
  /\ IF file = Empty
     THEN Goto(c, "failed") /\ UNCHANGED <<holder, token_time>>
     ELSE /\ holder' = (IF setup.locking THEN c ELSE holder)
          /\ token_time' = [token_time EXCEPT ![c] = file]
          /\ Goto(c, "locked")
  /\ UNCHANGED <<setup, file, token_tries, sent, repeated, crashes>>

\* The code is for the time before it is counted on.
gen_hotp(c) ==
  /\ pc[c] = "locked" /\ setup.hmac
  /\ token_time' = [token_time EXCEPT ![c] = @ + 1]
  /\ token_tries' = [token_tries EXCEPT ![c] = @ + 1]
  /\ Goto(c, "made")
  /\ UNCHANGED <<setup, file, holder, sent, repeated, crashes>>

\* do_gen_hotp_code() returns at once.
gen_hotp_fails(c) ==
  /\ pc[c] = "locked" /\ ~ setup.hmac
  /\ Goto(c, "failed")
  /\ UNCHANGED <<setup, file, holder, token_time, token_tries, sent, repeated, crashes>>

\* unlock_token() of an application.
Store(c) ==
  /\ pc[c] = "made" /\ setup.locking
  /\ file' = token_time[c] /\ holder' = Unlocked(c)
  /\ Goto(c, "stored")
  /\ UNCHANGED <<setup, token_time, token_tries, sent, repeated, crashes>>

\* unlock_token() of openconnect: open() empties the file, or fails, which
\* nobody minds.
Open(c) ==
  /\ pc[c] = "made" /\ ~ setup.locking
  /\ IF setup.writable THEN file' = Empty /\ Goto(c, "opened")
     ELSE Goto(c, "stored") /\ UNCHANGED file
  /\ UNCHANGED <<setup, holder, token_time, token_tries, sent, repeated, crashes>>

\* So short a write is taken whole or not at all.
Write(c) ==
  /\ pc[c] = "opened"
  /\ file' \in {token_time[c], file}
  /\ Goto(c, "stored")
  /\ UNCHANGED <<setup, holder, token_time, token_tries, sent, repeated, crashes>>

\* The form is posted.
Send(c) ==
  /\ pc[c] = "stored"
  /\ sent' = sent \cup {token_time[c] - 1}
  /\ repeated' = (repeated \/ token_time[c] - 1 \in sent)
  /\ Goto(c, "idle")
  /\ UNCHANGED <<setup, file, holder, token_time, token_tries, crashes>>

Crash(c) ==
  /\ pc[c] # "dead" /\ crashes < MaxCrashes
  /\ Goto(c, "dead") /\ holder' = Unlocked(c) /\ crashes' = crashes + 1
  /\ UNCHANGED <<setup, file, token_time, token_tries, sent, repeated>>

\* Again from the start, where an empty file is not taken; so does a program
\* whose login has failed.
Restart(c) ==
  /\ pc[c] \in {"dead", "failed"} /\ file # Empty /\ holder # c
  /\ Goto(c, "idle")
  /\ token_time' = [token_time EXCEPT ![c] = file]
  /\ token_tries' = [token_tries EXCEPT ![c] = 0]
  /\ UNCHANGED <<setup, file, holder, sent, repeated, crashes>>

do_gen_hotp_code(c) ==
  lock_token(c) \/ gen_hotp(c) \/ gen_hotp_fails(c) \/ Store(c) \/ Open(c) \/ Write(c) \/ Send(c)

HotpNext == \E c \in Clients : can_gen_hotp_code(c) \/ do_gen_hotp_code(c) \/ Crash(c) \/ Restart(c)

HotpSpec == HotpInit /\ [][HotpNext]_hotpVars

-----------------------------------------------------------------------------
HotpTypeOK ==
  /\ setup \in [locking : BOOLEAN, active : SUBSET Clients, writable : BOOLEAN, hmac : BOOLEAN]
  /\ file \in Nat \cup {Empty}
  /\ holder \in Clients \cup {None}
  /\ pc \in [Clients -> {"idle", "waiting", "locked", "made", "opened", "stored", "failed", "dead"}]
  /\ token_time \in [Clients -> Nat]
  /\ token_tries \in [Clients -> Nat]
  /\ sent \subseteq Nat /\ repeated \in BOOLEAN /\ crashes \in Nat

\* One program at a time, or a lock, and a file that can be written.
Kept ==
  \/ setup.locking
  \/ setup.writable /\ \A c, d \in setup.active : c = d

\* A server is never sent the same code twice, wherever programs are stopped:
\* the counter has been stored, or is lost, when a code is sent.  (Programs that
\* share a file, or one that cannot write it, do send codes twice.)
SentOnce == Kept => ~ repeated
=============================================================================
