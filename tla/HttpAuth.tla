------------------------------ MODULE HttpAuth ------------------------------
(***************************************************************************)
(* HTTP authentication towards a server or a proxy: the state of each      *)
(* method, and what gen_authorization_hdr() may do with them.  A method is *)
(* a record of its state and of the challenge that came with the offer:    *)
(* none, or a token.  Operators only; Http keeps the states in variables.  *)
(***************************************************************************)
EXTENDS Integers

AUTH_DEFAULT_DISABLED == -3
AUTH_DISABLED == -2
AUTH_FAILED == -1
AUTH_UNSEEN == 0
AUTH_AVAILABLE == 1
AUTH_IN_PROGRESS == 2
NTLM_SSO_REQ == 2
NTLM_MANUAL == 3
NTLM_MANUAL_REQ == 4
GSSAPI_CONTINUE == 2
GSSAPI_COMPLETE == 3

\* Of a build with GSSAPI.
Method == {"Negotiate", "NTLM", "Digest", "Basic", "Bearer"}

AuthState == [state : -3 .. 4, challenge : {"none", "token"}]

\* What the user has given: a password (for a proxy only) and a bearer token.
Credentials == [proxy : BOOLEAN, password : BOOLEAN, bearer : BOOLEAN]

\* A method waits to be offered, and Basic is ruled out, unless the user lists
\* the methods to use.
DefaultStates ==
  [m \in Method |->
     [state |-> IF m = "Basic" THEN AUTH_DEFAULT_DISABLED ELSE AUTH_UNSEEN,
      challenge |-> "none"]]

set_authmethods(methods) ==
  [m \in Method |->
     [state |-> IF m \in methods THEN AUTH_UNSEEN ELSE AUTH_DISABLED, challenge |-> "none"]]

\* The Authenticate headers of a response.  A method that failed or that is
\* disabled stays what it is.
handle_auth_proto(states, offer) ==
  [m \in Method |->
     IF m \notin DOMAIN offer \/ states[m].state <= AUTH_FAILED THEN states[m]
     ELSE [state |-> IF states[m].state = AUTH_UNSEEN THEN AUTH_AVAILABLE
                     ELSE states[m].state,
           challenge |-> offer[m]]]

\* Broken on purpose: a method that failed is forgotten, too.
clear_auth_states_ForgetsFailure(states, reset) ==
  [m \in Method |->
     [state |-> IF states[m].state >= AUTH_FAILED
                   /\ (reset \/ states[m].state = AUTH_AVAILABLE)
                THEN AUTH_UNSEEN ELSE states[m].state,
      challenge |-> "none"]]

clear_auth_states(states, reset) ==
  [m \in Method |->
     [state |-> IF states[m].state > AUTH_FAILED
                   /\ (reset \/ states[m].state = AUTH_AVAILABLE)
                THEN AUTH_UNSEEN ELSE states[m].state,
      challenge |-> "none"]]

-----------------------------------------------------------------------------
\* What a method's function returns, the state it leaves, and whether it asks
\* that the proxy's states survive the next connection.
Attempt(ret, state) == [ret |-> ret, state |-> state, close |-> FALSE]

\* Broken on purpose: a password that was turned down is tried again.
basic_authorization_Again(a, who) ==
  IF who.proxy /\ who.password THEN {Attempt("OK", AUTH_IN_PROGRESS)}
  ELSE {Attempt("EINVAL", a.state)}

basic_authorization(a, who) ==
  IF ~ (who.proxy /\ who.password) THEN {Attempt("EINVAL", a.state)}
  ELSE IF a.state = AUTH_IN_PROGRESS THEN {Attempt("EAGAIN", AUTH_FAILED)}
  ELSE {Attempt("OK", AUTH_IN_PROGRESS)}

\* A challenge that cannot be parsed or that is missing leaves the state.
digest_authorization(a, who) ==
  IF ~ (who.proxy /\ who.password) THEN {Attempt("EINVAL", a.state)}
  ELSE IF a.state = AUTH_IN_PROGRESS THEN {Attempt("EAGAIN", AUTH_FAILED)}
  ELSE {Attempt("EINVAL", a.state)} \cup
       IF a.challenge = "token" THEN {Attempt("OK", AUTH_IN_PROGRESS)} ELSE {}

bearer_authorization(a, who) ==
  IF who.proxy \/ ~ who.bearer THEN {Attempt("EINVAL", a.state)}
  ELSE IF a.state = AUTH_IN_PROGRESS THEN {Attempt("EAGAIN", AUTH_FAILED)}
  ELSE {Attempt("OK", AUTH_IN_PROGRESS)}

\* First the helper of the system, then, if there is a password, by hand.
ntlm_authorization(a, who) ==
  LET password == who.proxy /\ who.password
      failed == {Attempt("EAGAIN", AUTH_FAILED)}
      by_hand == IF password THEN {Attempt("OK", NTLM_MANUAL_REQ)} ELSE failed
  IN CASE a.state = AUTH_AVAILABLE ->
            by_hand \cup IF password THEN {} ELSE {Attempt("OK", NTLM_SSO_REQ)}
       [] a.state = NTLM_SSO_REQ ->
            by_hand \cup {Attempt("OK", NTLM_MANUAL),
                          [ret |-> "EAGAIN", state |-> NTLM_MANUAL, close |-> who.proxy]}
       [] a.state = NTLM_MANUAL -> by_hand
       [] a.state = NTLM_MANUAL_REQ ->
            failed \cup IF password /\ a.challenge = "token"
                        THEN {Attempt("OK", NTLM_MANUAL_REQ)} ELSE {}

\* The library needs at most two legs.  An offer without a token while an
\* attempt is under way means that it was turned down.
gssapi_authorization(a, who) ==
  CASE a.state = AUTH_AVAILABLE ->
         {Attempt("EIO", AUTH_FAILED), Attempt("OK", GSSAPI_COMPLETE),
          Attempt("OK", GSSAPI_CONTINUE),
          Attempt(IF a.challenge = "token" THEN "EAGAIN" ELSE "ENOENT", AUTH_FAILED)}
    [] a.state = GSSAPI_CONTINUE /\ a.challenge = "token" ->
         {Attempt("OK", GSSAPI_COMPLETE), Attempt("EAGAIN", AUTH_FAILED)}
    [] a.state = GSSAPI_COMPLETE /\ a.challenge = "token" ->
         {Attempt("EAGAIN", AUTH_FAILED)}
    [] OTHER -> {Attempt("ENOENT", AUTH_FAILED)}

authorization(m, a, who) ==
  CASE m = "Negotiate" -> gssapi_authorization(a, who)
    [] m = "NTLM" -> ntlm_authorization(a, who)
    [] m = "Digest" -> digest_authorization(a, who)
    [] m = "Basic" -> basic_authorization(a, who)
    [] m = "Bearer" -> bearer_authorization(a, who)

-----------------------------------------------------------------------------
\* One method of the walk, from the outcomes of those before it.  The walk
\* stops at a method that is disabled by default, whether it was offered or
\* not, and at one that sends something or wants a new connection.
TryMethod(outcomes, m, who) ==
  LET disabled(o) == [o EXCEPT !.ret = "EINVAL", !.states[m].state = AUTH_FAILED]
      tried(o) ==
        {[ret |-> IF a.ret \in {"OK", "EAGAIN"} THEN a.ret ELSE "ENOENT",
          sent |-> IF a.ret = "OK" THEN m ELSE "none",
          close |-> a.close,
          states |-> [o.states EXCEPT ![m].state = a.state]] :
            a \in authorization(m, o.states[m], who)}
  IN UNION {IF o.ret # "ENOENT" THEN {o}
            ELSE IF o.states[m].state = AUTH_DEFAULT_DISABLED THEN {disabled(o)}
            ELSE IF o.states[m].state > AUTH_UNSEEN THEN tried(o)
            ELSE {o} : o \in outcomes}

\* The outcomes of one walk through the methods, in the order of the table
\* auth_methods: its return value, the states it leaves, the method that has put
\* a header into the request, and whether the states are to survive the next
\* connection.
gen_authorization_hdr(states, who) ==
  LET start == {[ret |-> "ENOENT", sent |-> "none", close |-> FALSE, states |-> states]}
      negotiate == TryMethod(start, "Negotiate", who)
      ntlm == TryMethod(negotiate, "NTLM", who)
      digest == TryMethod(ntlm, "Digest", who)
      basic == TryMethod(digest, "Basic", who)
  IN TryMethod(basic, "Bearer", who)
=============================================================================
