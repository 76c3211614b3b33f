---------------------------- MODULE Http_proofs ----------------------------
(***************************************************************************)
(* Proofs about the HTTP client, for any servers, methods of the proxy,    *)
(* number of redirects and of requests: requests and cookies go to the     *)
(* server that is meant (Connected), and no credentials are sent to the    *)
(* proxy that it has turned down (ProxyInv).  The second needs what a walk *)
(* through the methods of authentication may leave: every method before    *)
(* the one it stops at was passed, those after it were not looked at.      *)
(* The same walk spends something of the method it stops at, which gives a *)
(* rank that every step of a request lowers: the proof that requests take  *)
(* a bounded number of steps.                                              *)
(***************************************************************************)
EXTENDS Http, TLAPS

USE DEF AUTH_DEFAULT_DISABLED, AUTH_DISABLED, AUTH_FAILED, AUTH_UNSEEN, AUTH_AVAILABLE,
        AUTH_IN_PROGRESS, NTLM_SSO_REQ, NTLM_MANUAL, NTLM_MANUAL_REQ, GSSAPI_CONTINUE,
        GSSAPI_COMPLETE

-----------------------------------------------------------------------------
\* The walk of gen_authorization_hdr()

Rets == {"OK", "EAGAIN", "EINVAL", "ENOENT", "EIO"}

AttemptOf == [ret : Rets, state : -3 .. 4, close : BOOLEAN]

OutcomeOf == [ret : Rets, sent : Method \cup {"none"}, close : BOOLEAN,
              states : [Method -> AuthState]]

\* The walk stops at a method that sends something or wants a new connection.
Stops(a) == a.ret \in {"OK", "EAGAIN"}

\* The walk from the states s to the outcome o has gone past k.
Passed(s, o, k, who) ==
  \/ s[k].state <= AUTH_UNSEEN /\ o.states[k] = s[k]
  \/ \E a \in authorization(k, s[k], who) :
       ~ Stops(a) /\ s[k].state > AUTH_UNSEEN /\ o.states[k].state = a.state

\* The methods tried before m.
Earlier(m) ==
  CASE m = "Negotiate" -> {}
    [] m = "NTLM" -> {"Negotiate"}
    [] m = "Digest" -> {"Negotiate", "NTLM"}
    [] m = "Basic" -> {"Negotiate", "NTLM", "Digest"}
    [] m = "Bearer" -> {"Negotiate", "NTLM", "Digest", "Basic"}

\* It has stopped at m.
StoppedAt(m, s, o, who) ==
  /\ s[m].state > AUTH_UNSEEN
  /\ \E a \in authorization(m, s[m], who) :
       /\ Stops(a) /\ o.ret = a.ret /\ o.close = a.close /\ o.states[m].state = a.state
       /\ o.sent = IF a.ret = "OK" THEN m ELSE "none"
  /\ \A k \in Earlier(m) : Passed(s, o, k, who)
  /\ \A k \in Method \ (Earlier(m) \cup {m}) : o.states[k] = s[k]

\* An outcome of the walk through some methods: ended with an error, still going
\* on, or stopped at one of them.
Walked(methods, s, o, who) ==
  /\ o \in OutcomeOf
  /\ \/ o.ret = "EINVAL"
     \/ /\ o.ret = "ENOENT"
        /\ \A k \in methods : Passed(s, o, k, who)
        /\ \A k \in Method \ methods : o.states[k] = s[k]
     \/ \E m \in Method : StoppedAt(m, s, o, who)

\* What the function of a method returns.
LEMMA AttemptType ==
  ASSUME NEW m \in Method, NEW st \in AuthState, NEW who \in Credentials,
         st.state > AUTH_UNSEEN
  PROVE  \A a \in authorization(m, st, who) : a \in AttemptOf
<1>1. \A r \in Rets, x \in -3 .. 4 : Attempt(r, x) \in AttemptOf
  BY DEF Attempt, AttemptOf
<1>2. [ret |-> "EAGAIN", state |-> NTLM_MANUAL, close |-> who.proxy] \in AttemptOf
  BY DEF AttemptOf, Rets, Credentials
<1>3. st.state \in {1, 2, 3, 4} /\ st.challenge \in {"none", "token"}
  BY DEF AuthState
<1>4. {"OK", "EAGAIN", "EINVAL", "ENOENT", "EIO"} \subseteq Rets
  BY DEF Rets
<1>5. CASE m = "Negotiate"
  <2>1. authorization(m, st, who) = gssapi_authorization(st, who)
    BY <1>5 DEF authorization
  <2> QED
    BY <1>1, <1>3, <1>4, <2>1 DEF gssapi_authorization
<1>6. CASE m = "NTLM"
  <2>1. authorization(m, st, who) = ntlm_authorization(st, who)
    BY <1>6 DEF authorization
  <2> DEFINE all == {Attempt("EAGAIN", AUTH_FAILED), Attempt("OK", NTLM_MANUAL_REQ),
                     Attempt("OK", NTLM_SSO_REQ), Attempt("OK", NTLM_MANUAL),
                     [ret |-> "EAGAIN", state |-> NTLM_MANUAL, close |-> who.proxy]}
  <2>2. all \subseteq AttemptOf
    <3> SUFFICES ASSUME NEW a \in all PROVE a \in AttemptOf
      OBVIOUS
    <3> QED
      BY <1>1, <1>2, <1>4
  <2>3. \A a \in ntlm_authorization(st, who) : a \in all
    BY <1>3 DEF ntlm_authorization
  <2> QED
    BY <2>1, <2>2, <2>3
<1>7. CASE m = "Digest"
  <2>1. authorization(m, st, who) = digest_authorization(st, who)
    BY <1>7 DEF authorization
  <2> QED
    BY <1>1, <1>3, <1>4, <2>1 DEF digest_authorization
<1>8. CASE m = "Basic"
  <2>1. authorization(m, st, who) = basic_authorization(st, who)
    BY <1>8 DEF authorization
  <2> QED
    BY <1>1, <1>3, <1>4, <2>1 DEF basic_authorization
<1>9. CASE m = "Bearer"
  <2>1. authorization(m, st, who) = bearer_authorization(st, who)
    BY <1>9 DEF authorization
  <2> QED
    BY <1>1, <1>3, <1>4, <2>1 DEF bearer_authorization
<1> QED
  BY <1>5, <1>6, <1>7, <1>8, <1>9 DEF Method

\* One more method of the walk.
LEMMA TryWalks ==
  ASSUME NEW outcomes, NEW m \in Method, NEW s \in [Method -> AuthState],
         NEW who \in Credentials,
         \A o \in outcomes : Walked(Earlier(m), s, o, who)
  PROVE  \A o \in TryMethod(outcomes, m, who) : Walked(Earlier(m) \cup {m}, s, o, who)
<1> DEFINE disabled(o) == [o EXCEPT !.ret = "EINVAL", !.states[m].state = AUTH_FAILED]
           outcome(o, a) ==
             [ret |-> IF a.ret \in {"OK", "EAGAIN"} THEN a.ret ELSE "ENOENT",
              sent |-> IF a.ret = "OK" THEN m ELSE "none",
              close |-> a.close,
              states |-> [o.states EXCEPT ![m].state = a.state]]
           tried(o) == {outcome(o, a) : a \in authorization(m, o.states[m], who)}
           Of(o) == IF o.ret # "ENOENT" THEN {o}
                    ELSE IF o.states[m].state = AUTH_DEFAULT_DISABLED THEN {disabled(o)}
                    ELSE IF o.states[m].state > AUTH_UNSEEN THEN tried(o)
                    ELSE {o}
<1>1. TryMethod(outcomes, m, who) = UNION {Of(o) : o \in outcomes}
  BY DEF TryMethod
<1>2. SUFFICES ASSUME NEW o \in outcomes, NEW p \in Of(o)
               PROVE  Walked(Earlier(m) \cup {m}, s, p, who)
  BY <1>1
<1>3. Walked(Earlier(m), s, o, who) /\ o \in OutcomeOf
  BY DEF Walked
<1>4. m \notin Earlier(m) /\ Earlier(m) \subseteq Method
  BY DEF Earlier, Method
<1>5. CASE o.ret # "ENOENT"
  BY <1>2, <1>3, <1>5 DEF Walked
<1>6. CASE o.ret = "ENOENT"
  <2>1. ~ \E k \in Method : StoppedAt(k, s, o, who)
    BY <1>6 DEF StoppedAt, Stops
  <2>2. /\ \A k \in Earlier(m) : Passed(s, o, k, who)
        /\ \A k \in Method \ Earlier(m) : o.states[k] = s[k]
    BY <1>3, <1>6, <2>1 DEF Walked
  <2>3. o.states[m] = s[m] /\ s[m] \in AuthState /\ s[m].state \in -3 .. 4
    BY <1>4, <2>2 DEF AuthState
  <2>4. CASE o.states[m].state = AUTH_DEFAULT_DISABLED
    <3>1. p = disabled(o)
      BY <1>2, <1>6, <2>4
    <3>2. o.states \in [Method -> AuthState]
      BY <1>3 DEF OutcomeOf
    <3>3. [o.states EXCEPT ![m].state = AUTH_FAILED] \in [Method -> AuthState]
      BY <3>2 DEF AuthState
    <3>4. p \in OutcomeOf /\ p.ret = "EINVAL"
      BY <1>3, <3>1, <3>3 DEF OutcomeOf, Rets
    <3> QED
      BY <3>4 DEF Walked
  <2>5. CASE o.states[m].state # AUTH_DEFAULT_DISABLED /\ o.states[m].state > AUTH_UNSEEN
    <3>1. PICK a \in authorization(m, o.states[m], who) : p = outcome(o, a)
      BY <1>2, <1>6, <2>5
    <3>2. a \in AttemptOf
      BY <2>3, <2>5, <3>1, AttemptType
    <3>3. o.states \in [Method -> AuthState]
      BY <1>3 DEF OutcomeOf
    <3>4. p.states \in [Method -> AuthState]
      BY <3>1, <3>2, <3>3 DEF AuthState, AttemptOf
    <3>5. p \in OutcomeOf
      BY <3>1, <3>2, <3>4 DEF OutcomeOf, AttemptOf, Rets
    <3>6. p.states[m].state = a.state /\ \A k \in Method \ {m} : p.states[k] = o.states[k]
      BY <3>1, <3>3 DEF AuthState
    <3>7. \A k \in Earlier(m) : Passed(s, p, k, who)
      BY <1>4, <2>2, <3>6 DEF Passed
    <3>8. \A k \in Method \ (Earlier(m) \cup {m}) : p.states[k] = s[k]
      BY <2>2, <3>6
    <3>9. a \in authorization(m, s[m], who) /\ s[m].state > AUTH_UNSEEN
      BY <2>3, <2>5, <3>1
    <3>10. CASE Stops(a)
      <4>1. /\ p.ret = a.ret /\ p.close = a.close
            /\ p.sent = IF a.ret = "OK" THEN m ELSE "none"
        BY <3>1, <3>10 DEF Stops
      <4>2. StoppedAt(m, s, p, who)
        BY <3>6, <3>7, <3>8, <3>9, <3>10, <4>1 DEF StoppedAt
      <4> QED
        BY <3>5, <4>2 DEF Walked
    <3>11. CASE ~ Stops(a)
      <4>1. p.ret = "ENOENT"
        BY <3>1, <3>11 DEF Stops
      <4>2. Passed(s, p, m, who)
        BY <3>6, <3>9, <3>11 DEF Passed
      <4> QED
        BY <3>5, <3>7, <3>8, <4>1, <4>2 DEF Walked
    <3> QED
      BY <3>10, <3>11
  <2>6. CASE o.states[m].state # AUTH_DEFAULT_DISABLED /\ ~ (o.states[m].state > AUTH_UNSEEN)
    <3>1. p = o
      BY <1>2, <1>6, <2>6
    <3>2. Passed(s, p, m, who)
      BY <2>3, <2>6, <3>1 DEF Passed
    <3> QED
      BY <1>3, <1>6, <2>2, <3>1, <3>2 DEF Walked
  <2> QED
    BY <2>4, <2>5, <2>6
<1> QED
  BY <1>5, <1>6

\* The whole walk.
LEMMA WalkEnds ==
  ASSUME NEW s \in [Method -> AuthState], NEW who \in Credentials
  PROVE  \A o \in gen_authorization_hdr(s, who) : Walked(Method, s, o, who)
<1> DEFINE start == {[ret |-> "ENOENT", sent |-> "none", close |-> FALSE, states |-> s]}
           negotiate == TryMethod(start, "Negotiate", who)
           ntlm == TryMethod(negotiate, "NTLM", who)
           digest == TryMethod(ntlm, "Digest", who)
           basic == TryMethod(digest, "Basic", who)
           bearer == TryMethod(basic, "Bearer", who)
<1>1. gen_authorization_hdr(s, who) = bearer
  BY DEF gen_authorization_hdr
<1>2. \A o \in start : Walked(Earlier("Negotiate"), s, o, who)
  <2> SUFFICES ASSUME NEW o \in start PROVE Walked(Earlier("Negotiate"), s, o, who)
    OBVIOUS
  <2>1. o = [ret |-> "ENOENT", sent |-> "none", close |-> FALSE, states |-> s]
    OBVIOUS
  <2>2. o \in OutcomeOf
    <3>1. "ENOENT" \in Rets /\ "none" \in Method \cup {"none"}
      BY DEF Rets
    <3> QED
      BY <2>1, <3>1 DEF OutcomeOf
  <2> QED
    BY <2>1, <2>2 DEF Walked, Earlier
<1> HIDE DEF start
<1>3. \A o \in negotiate : Walked(Earlier("Negotiate") \cup {"Negotiate"}, s, o, who)
  BY <1>2, TryWalks DEF Method
<1>4. Earlier("Negotiate") \cup {"Negotiate"} = Earlier("NTLM")
  BY DEF Earlier
<1> HIDE DEF negotiate
<1>5. \A o \in ntlm : Walked(Earlier("NTLM") \cup {"NTLM"}, s, o, who)
  BY <1>3, <1>4, TryWalks DEF Method
<1>6. Earlier("NTLM") \cup {"NTLM"} = Earlier("Digest")
  BY DEF Earlier
<1> HIDE DEF ntlm
<1>7. \A o \in digest : Walked(Earlier("Digest") \cup {"Digest"}, s, o, who)
  BY <1>5, <1>6, TryWalks DEF Method
<1>8. Earlier("Digest") \cup {"Digest"} = Earlier("Basic")
  BY DEF Earlier
<1> HIDE DEF digest
<1>9. \A o \in basic : Walked(Earlier("Basic") \cup {"Basic"}, s, o, who)
  BY ZenonT(60), <1>7, <1>8, TryWalks DEF Method
<1>10. Earlier("Basic") \cup {"Basic"} = Earlier("Bearer")
  BY DEF Earlier
<1> HIDE DEF basic
<1>11. \A o \in bearer : Walked(Earlier("Bearer") \cup {"Bearer"}, s, o, who)
  BY ZenonT(60), <1>9, <1>10, TryWalks DEF Method
<1>12. Earlier("Bearer") \cup {"Bearer"} = Method
  BY DEF Earlier, Method
<1> QED
  BY <1>1, <1>11, <1>12
\* Negotiate sends something only before it is complete, and has failed otherwise.
LEMMA NegotiateOutcomes ==
  ASSUME NEW st \in AuthState, NEW who, NEW a \in authorization("Negotiate", st, who)
  PROVE  /\ a.close = FALSE
         /\ a.ret = "OK" =>
              /\ st.state # GSSAPI_COMPLETE
              /\ a.state \in {GSSAPI_CONTINUE, GSSAPI_COMPLETE}
              /\ st.state # AUTH_AVAILABLE =>
                   st.state = GSSAPI_CONTINUE /\ a.state = GSSAPI_COMPLETE
         /\ a.ret # "OK" => a.state = AUTH_FAILED
<1>1. a \in gssapi_authorization(st, who)
  BY DEF authorization
<1>2. CASE st.state = AUTH_AVAILABLE
  BY <1>1, <1>2 DEF gssapi_authorization, Attempt
<1>3. CASE st.state = GSSAPI_CONTINUE /\ st.challenge = "token"
  BY <1>1, <1>3 DEF gssapi_authorization, Attempt
<1>4. CASE st.state = GSSAPI_COMPLETE /\ st.challenge = "token"
  BY <1>1, <1>4 DEF gssapi_authorization, Attempt
<1>5. CASE /\ st.state # AUTH_AVAILABLE
           /\ ~ (st.state = GSSAPI_CONTINUE /\ st.challenge = "token")
           /\ ~ (st.state = GSSAPI_COMPLETE /\ st.challenge = "token")
  BY <1>1, <1>5 DEF gssapi_authorization, Attempt
<1> QED
  BY <1>2, <1>3, <1>4, <1>5

\* NTLM always stops the walk; its states follow each other with or without a password.
LEMMA NtlmOutcomes ==
  ASSUME NEW st \in AuthState, st.state > AUTH_UNSEEN,
         NEW who \in Credentials, who.proxy,
         NEW a \in authorization("NTLM", st, who)
  PROVE  /\ Stops(a)
         /\ a.ret = "OK" =>
              /\ a.state \in {NTLM_SSO_REQ, NTLM_MANUAL, NTLM_MANUAL_REQ}
              /\ a.state = NTLM_MANUAL => st.state = NTLM_SSO_REQ
              /\ a.state = NTLM_SSO_REQ => st.state = AUTH_AVAILABLE /\ ~ who.password
              /\ st.state # NTLM_MANUAL_REQ /\ a.state = NTLM_MANUAL_REQ => who.password
              /\ st.state = NTLM_MANUAL_REQ =>
                   st.challenge = "token" /\ a.state = NTLM_MANUAL_REQ
              /\ st.state = NTLM_MANUAL => who.password
         /\ a.ret = "EAGAIN" =>
              \/ ~ a.close /\ a.state = AUTH_FAILED
              \/ a.close /\ st.state = NTLM_SSO_REQ /\ a.state = NTLM_MANUAL
<1>1. a \in ntlm_authorization(st, who)
  BY DEF authorization
<1>2. st.state \in {1, 2, 3, 4}
  BY DEF AuthState
<1>3. who.proxy = TRUE /\ who.password \in BOOLEAN
  BY DEF Credentials
<1>4. CASE st.state = AUTH_AVAILABLE
  <2>1. \/ a = Attempt("OK", NTLM_MANUAL_REQ) /\ who.password
        \/ a = Attempt("EAGAIN", AUTH_FAILED)
        \/ a = Attempt("OK", NTLM_SSO_REQ) /\ ~ who.password
    BY <1>1, <1>3, <1>4 DEF ntlm_authorization
  <2> QED
    BY <1>4, <2>1 DEF Attempt, Stops
<1>5. CASE st.state = NTLM_SSO_REQ
  <2>1. \/ a = Attempt("OK", NTLM_MANUAL_REQ) /\ who.password
        \/ a = Attempt("EAGAIN", AUTH_FAILED)
        \/ a = Attempt("OK", NTLM_MANUAL)
        \/ a = [ret |-> "EAGAIN", state |-> NTLM_MANUAL, close |-> who.proxy]
    BY <1>1, <1>3, <1>5 DEF ntlm_authorization
  <2> QED
    BY <1>3, <1>5, <2>1 DEF Attempt, Stops
<1>6. CASE st.state = NTLM_MANUAL
  <2>1. \/ a = Attempt("OK", NTLM_MANUAL_REQ) /\ who.password
        \/ a = Attempt("EAGAIN", AUTH_FAILED)
    BY <1>1, <1>3, <1>6 DEF ntlm_authorization
  <2> QED
    BY <1>6, <2>1 DEF Attempt, Stops
<1>7. CASE st.state = NTLM_MANUAL_REQ
  <2>1. \/ a = Attempt("EAGAIN", AUTH_FAILED)
        \/ a = Attempt("OK", NTLM_MANUAL_REQ) /\ st.challenge = "token"
    BY <1>1, <1>3, <1>7 DEF ntlm_authorization
  <2> QED
    BY <1>7, <2>1 DEF Attempt, Stops
<1> QED
  BY <1>2, <1>4, <1>5, <1>6, <1>7

\* Digest is passed when it cannot be used, and never while it is under way.
LEMMA DigestOutcomes ==
  ASSUME NEW st \in AuthState, NEW who \in Credentials, who.proxy,
         NEW a \in authorization("Digest", st, who)
  PROVE  /\ a.close = FALSE
         /\ Stops(a) => who.password
         /\ a.ret = "OK" => st.state # AUTH_IN_PROGRESS /\ a.state = AUTH_IN_PROGRESS
         /\ a.ret = "EAGAIN" => st.state = AUTH_IN_PROGRESS /\ a.state = AUTH_FAILED
         /\ ~ Stops(a) =>
              a.state = st.state /\ (who.password => st.state # AUTH_IN_PROGRESS)
<1>1. who.proxy = TRUE /\ who.password \in BOOLEAN
  BY DEF Credentials
<1>2. \/ a = Attempt("EINVAL", st.state) /\ ~ who.password
      \/ a = Attempt("EAGAIN", AUTH_FAILED) /\ who.password /\ st.state = AUTH_IN_PROGRESS
      \/ a = Attempt("EINVAL", st.state) /\ st.state # AUTH_IN_PROGRESS
      \/ a = Attempt("OK", AUTH_IN_PROGRESS) /\ who.password /\ st.state # AUTH_IN_PROGRESS
  BY <1>1 DEF authorization, digest_authorization
<1> QED
  BY <1>2 DEF Attempt, Stops

\* Basic sends the password once.
LEMMA BasicOutcomes ==
  ASSUME NEW st \in AuthState, NEW who \in Credentials, who.proxy,
         NEW a \in authorization("Basic", st, who)
  PROVE  /\ a.close = FALSE
         /\ Stops(a) => who.password
         /\ a.ret = "OK" => st.state # AUTH_IN_PROGRESS /\ a.state = AUTH_IN_PROGRESS
         /\ a.ret = "EAGAIN" => a.state = AUTH_FAILED
         /\ ~ Stops(a) => a.state = st.state
<1>1. who.proxy = TRUE /\ who.password \in BOOLEAN
  BY DEF Credentials
<1>2. \/ a = Attempt("EINVAL", st.state) /\ ~ who.password
      \/ a = Attempt("EAGAIN", AUTH_FAILED) /\ who.password
      \/ a = Attempt("OK", AUTH_IN_PROGRESS) /\ who.password /\ st.state # AUTH_IN_PROGRESS
  BY <1>1 DEF authorization, basic_authorization
<1> QED
  BY <1>2 DEF Attempt, Stops

\* No bearer token is given to a proxy.
LEMMA BearerOutcomes ==
  ASSUME NEW st \in AuthState, NEW who \in Credentials, who.proxy,
         NEW a \in authorization("Bearer", st, who)
  PROVE  ~ Stops(a) /\ a.state = st.state
<1>1. who.proxy = TRUE
  BY DEF Credentials
<1>2. a = Attempt("EINVAL", st.state)
  BY <1>1 DEF authorization, bearer_authorization
<1> QED
  BY <1>2 DEF Attempt, Stops

-----------------------------------------------------------------------------
\* The invariants

\* What is known of the places requests go to: addresses and connections are the
\* host's, or there are none; a connection is made from an address of the host.
Connected ==
  /\ peer_addr \in {None, hostname} /\ conn \in {None, hostname}
  /\ cookies \subseteq {hostname}
  /\ unread => pc = "spinning"
  /\ pc \in {"write", "read"} => conn = hostname
  /\ pc = "tls" /\ setup.proxy = None => peer_addr = hostname
  /\ pc \in {"proxy", "proxy_read"} => setup.proxy # None

S(m) == proxy_auth[m].state

\* No method has been offered yet, or has been tried without having failed.
Fresh == \A m \in Method : S(m) <= AUTH_UNSEEN

\* The types of the proxy's side.
ProxyTyped ==
  /\ proxy_auth \in [Method -> AuthState]
  /\ setup.wants \subseteq Method /\ setup.password \in BOOLEAN
  /\ setup.proxy # "http" => setup.wants = {}
  /\ sent \in [method : Method \cup {None}, first : BOOLEAN, last : BOOLEAN]
  /\ proxyauth \in BOOLEAN /\ proxy_close_during_auth \in BOOLEAN
  /\ rejected \subseteq Method

\* In between, nothing is known of the proxy's methods.
BetweenOpenings ==
  pc \notin {"connect", "proxy", "proxy_read", "tls"} => rejected = {} /\ Fresh

\* A CONNECT without a header is sent with no method tried; one with a header is
\* built when the proxy has just offered all that it wants.
WithHeader ==
  (pc = "connect" /\ proxy_close_during_auth) \/ (pc = "proxy" /\ proxyauth)

WithoutHeader ==
  \/ pc = "connect" /\ ~ proxy_close_during_auth
  \/ pc = "proxy" /\ ~ proxyauth
  \/ pc = "proxy_read" /\ sent.method = None

Offered ==
  /\ WithoutHeader => Fresh
  /\ WithHeader => Fresh \/ \A m \in setup.wants : S(m) # AUTH_UNSEEN

\* The states of the methods while a connection is opened: Negotiate and NTLM are
\* given up before a later method is tried, NTLM uses the helper without a
\* password only, Digest is under way when it has been sent.
InOrder ==
  pc \in {"connect", "proxy", "proxy_read"} =>
    /\ \A m \in Method \ setup.wants : S(m) <= AUTH_UNSEEN
    /\ \A k \in {"Negotiate", "NTLM"} \cap setup.wants :
         \A m \in {"Digest", "Basic"} \cup (IF k = "Negotiate" THEN {"NTLM"} ELSE {}) :
           S(m) > AUTH_AVAILABLE => S(k) <= AUTH_FAILED
    /\ S("Negotiate") <= GSSAPI_COMPLETE
    /\ S("Digest") <= AUTH_IN_PROGRESS /\ S("Basic") <= AUTH_IN_PROGRESS
    /\ S("NTLM") \in {NTLM_SSO_REQ, NTLM_MANUAL} => ~ setup.password
    /\ S("Digest") = AUTH_IN_PROGRESS =>
         \/ "Digest" \in rejected
         \/ pc = "proxy_read" /\ sent.last /\ sent.method = "Digest"

\* A method that was turned down has failed, or will when it is its turn.
Spent ==
  pc \in {"connect", "proxy"} =>
    /\ "Negotiate" \in rejected =>
         S("Negotiate") <= AUTH_FAILED \/ S("Negotiate") = GSSAPI_COMPLETE
    /\ "NTLM" \in rejected =>
         \/ S("NTLM") <= AUTH_FAILED
         \/ S("NTLM") = NTLM_MANUAL /\ ~ setup.password
         \/ S("NTLM") = NTLM_MANUAL_REQ /\ proxy_auth["NTLM"].challenge = "none"
    /\ "Digest" \in rejected => S("Digest") <= AUTH_FAILED \/ S("Digest") = AUTH_IN_PROGRESS
    /\ "Basic" \in rejected =>
         S("Basic") <= AUTH_FAILED \/ S("Basic") = AUTH_IN_PROGRESS \/ "Digest" \in rejected

\* What waits for the proxy's answer: the last message of a method, and the
\* methods that were turned down before.
Awaited ==
  pc = "proxy_read" =>
    /\ \A m \in rejected \cap {"Negotiate", "NTLM", "Digest"} : S(m) <= AUTH_FAILED
    /\ "Basic" \in rejected =>
         \/ S("Basic") <= AUTH_FAILED \/ S("Basic") = AUTH_IN_PROGRESS
         \/ "Digest" \in rejected
    /\ sent.last =>
         /\ sent.method \in {"Negotiate", "NTLM", "Digest", "Basic"}
         /\ sent.method = "Negotiate" => S("Negotiate") = GSSAPI_COMPLETE
         /\ sent.method = "NTLM" =>
              \/ S("NTLM") = NTLM_MANUAL /\ ~ setup.password
              \/ S("NTLM") = NTLM_MANUAL_REQ /\ ~ sent.first
         /\ sent.method \in {"Digest", "Basic"} => S(sent.method) = AUTH_IN_PROGRESS
    /\ RejectedNotRepeated

-----------------------------------------------------------------------------
\* A walk on the proxy's side

\* What is known of an outcome that stopped at m, in a state of the invariant: the
\* methods turned down before have failed, but Basic if Digest was turned down, too,
\* and those later than Negotiate and NTLM were not tried before these had failed.
Handled(o, m) ==
  LET T(k) == o.states[k].state
  IN /\ o.states \in [Method -> AuthState] /\ o.close \in BOOLEAN
     /\ m \in {"Negotiate", "NTLM", "Digest", "Basic"} \cap setup.wants
     /\ o.sent = IF o.ret = "OK" THEN m ELSE "none"
     /\ \A k \in setup.wants : T(k) # AUTH_UNSEEN
     /\ \A k \in Method \ setup.wants : T(k) <= AUTH_UNSEEN
     /\ \A k \in {"Negotiate", "NTLM"} \cap setup.wants :
          \A l \in {"Digest", "Basic"} \cup (IF k = "Negotiate" THEN {"NTLM"} ELSE {}) :
            T(l) > AUTH_AVAILABLE => T(k) <= AUTH_FAILED
     /\ \A k \in rejected \cap {"Negotiate", "NTLM", "Digest"} : k # m => T(k) <= AUTH_FAILED
     /\ T("Negotiate") <= GSSAPI_COMPLETE
     /\ T("Digest") <= AUTH_IN_PROGRESS /\ T("Basic") <= AUTH_IN_PROGRESS
     /\ T("NTLM") \in {NTLM_SSO_REQ, NTLM_MANUAL} => ~ setup.password
     /\ T("Digest") = AUTH_IN_PROGRESS => m = "Digest" /\ o.ret = "OK"
     /\ "Basic" \in rejected /\ m # "Basic" =>
          \/ T("Basic") <= AUTH_FAILED \/ "Digest" \in rejected
          \/ T("Basic") = AUTH_IN_PROGRESS /\ m = "Digest" /\ o.ret = "OK"
     /\ o.ret = "OK" =>
          /\ m \in rejected => m = "Basic" /\ "Digest" \in rejected
          /\ m = "Negotiate" => T(m) \in {GSSAPI_CONTINUE, GSSAPI_COMPLETE}
          /\ m = "NTLM" =>
               /\ T(m) > AUTH_AVAILABLE
               /\ S(m) = NTLM_SSO_REQ => T(m) = NTLM_MANUAL /\ ~ setup.password
               /\ S(m) = NTLM_MANUAL_REQ => T(m) = NTLM_MANUAL_REQ
          /\ m \in {"Digest", "Basic"} => T(m) = AUTH_IN_PROGRESS
     /\ o.ret = "EAGAIN" =>
          /\ ~ o.close => T(m) = AUTH_FAILED
          /\ o.close => m = "NTLM" /\ T(m) = NTLM_MANUAL /\ ~ setup.password

\* The walk of a CONNECT with a header stops like this.
LEMMA WalkHandled ==
  ASSUME ProxyTyped, Offered, InOrder, Spent, pc = "proxy", proxyauth,
         NEW o \in gen_authorization_hdr(proxy_auth, Proxy), Stops(o)
  PROVE  \E m \in Method : Handled(o, m)
<1>1. Proxy \in Credentials /\ Proxy.proxy /\ Proxy.password = setup.password
  BY DEF Proxy, Credentials, ProxyTyped
<1> DEFINE who == Proxy
<1>2. proxy_auth \in [Method -> AuthState]
  BY DEF ProxyTyped
<1>3. Walked(Method, proxy_auth, o, who)
  BY <1>1, <1>2, WalkEnds
<1> HIDE DEF who
<1>4. who \in Credentials /\ who.proxy /\ who.password = setup.password
  BY <1>1 DEF who
<1>5. PICK m \in Method : StoppedAt(m, proxy_auth, o, who)
  BY <1>3 DEF Walked, Stops
<1>6. o \in OutcomeOf
  BY <1>3 DEF Walked
<1>7. o.states \in [Method -> AuthState] /\ o.close \in BOOLEAN
  BY <1>6 DEF OutcomeOf
<1> DEFINE T(k) == o.states[k].state
<1>8. \A k \in Method : S(k) \in -3 .. 4 /\ T(k) \in -3 .. 4 /\ proxy_auth[k] \in AuthState
  BY <1>2, <1>7 DEF S, AuthState
<1>9. S(m) > AUTH_UNSEEN
  BY <1>5 DEF StoppedAt, S
<1>10. PICK a \in authorization(m, proxy_auth[m], who) :
         /\ Stops(a) /\ o.ret = a.ret /\ o.close = a.close /\ T(m) = a.state
         /\ o.sent = IF a.ret = "OK" THEN m ELSE "none"
  BY <1>5 DEF StoppedAt
<1>11. m # "Bearer"
  BY <1>4, <1>8, <1>10, BearerOutcomes
<1>12. m \in setup.wants /\ \A k \in setup.wants : S(k) # AUTH_UNSEEN
  <2>1. m \in setup.wants
    BY <1>8, <1>9 DEF InOrder
  <2>2. ~ Fresh
    BY <1>8, <1>9 DEF Fresh
  <2> QED
    BY <2>1, <2>2 DEF Offered, WithHeader
<1>13. \A k \in Method \ (Earlier(m) \cup {m}) : T(k) = S(k)
  BY <1>5 DEF StoppedAt, S
<1>14. \A k \in Earlier(m) : Passed(proxy_auth, o, k, who)
  BY <1>5 DEF StoppedAt
<1>15. "Negotiate" \in Earlier(m) =>
         /\ T("Negotiate") <= AUTH_UNSEEN
         /\ T("Negotiate") = S("Negotiate") \/ T("Negotiate") = AUTH_FAILED
  <2> SUFFICES ASSUME "Negotiate" \in Earlier(m)
               PROVE  /\ T("Negotiate") <= AUTH_UNSEEN
                      /\ T("Negotiate") = S("Negotiate") \/ T("Negotiate") = AUTH_FAILED
    OBVIOUS
  <2>1. Passed(proxy_auth, o, "Negotiate", who)
    BY <1>14
  <2>2. CASE S("Negotiate") <= AUTH_UNSEEN /\ o.states["Negotiate"] = proxy_auth["Negotiate"]
    BY <2>2 DEF S
  <2>3. CASE \E b \in authorization("Negotiate", proxy_auth["Negotiate"], who) :
               ~ Stops(b) /\ T("Negotiate") = b.state
    <3>1. PICK b \in authorization("Negotiate", proxy_auth["Negotiate"], who) :
                 ~ Stops(b) /\ T("Negotiate") = b.state
      BY <2>3
    <3>2. b.ret # "OK"
      BY <3>1 DEF Stops
    <3>3. proxy_auth["Negotiate"] \in AuthState
      BY <1>8 DEF Method
    <3>4. b.state = AUTH_FAILED
      BY <3>2, <3>3, NegotiateOutcomes
    <3> QED
      BY <3>1, <3>4
  <2> QED
    BY <2>1, <2>2, <2>3 DEF Passed, S
<1>16. "NTLM" \in Earlier(m) => T("NTLM") <= AUTH_UNSEEN /\ T("NTLM") = S("NTLM")
  <2> SUFFICES ASSUME "NTLM" \in Earlier(m)
               PROVE  T("NTLM") <= AUTH_UNSEEN /\ T("NTLM") = S("NTLM")
    OBVIOUS
  <2>1. Passed(proxy_auth, o, "NTLM", who)
    BY <1>14
  <2>2. ~ \E b \in authorization("NTLM", proxy_auth["NTLM"], who) :
            ~ Stops(b) /\ proxy_auth["NTLM"].state > AUTH_UNSEEN
    BY <1>4, <1>8, NtlmOutcomes DEF Method
  <2> QED
    BY <2>1, <2>2 DEF Passed, S
<1>17. "Digest" \in Earlier(m) =>
         T("Digest") = S("Digest") /\ (setup.password => S("Digest") # AUTH_IN_PROGRESS)
  <2> SUFFICES ASSUME "Digest" \in Earlier(m)
               PROVE  T("Digest") = S("Digest") /\ (setup.password => S("Digest") # AUTH_IN_PROGRESS)
    OBVIOUS
  <2>1. Passed(proxy_auth, o, "Digest", who)
    BY <1>14
  <2>2. CASE S("Digest") <= AUTH_UNSEEN /\ o.states["Digest"] = proxy_auth["Digest"]
    BY <2>2 DEF S
  <2>3. CASE \E b \in authorization("Digest", proxy_auth["Digest"], who) :
               ~ Stops(b) /\ T("Digest") = b.state
    BY <1>4, <1>8, <2>3, DigestOutcomes DEF Method, S
  <2> QED
    BY <2>1, <2>2, <2>3 DEF Passed, S
<1>18. \A k \in {"Negotiate", "NTLM", "Digest", "Basic", "Bearer"} :
         k \in Method /\ S(k) \in -3 .. 4 /\ T(k) \in -3 .. 4
  BY <1>8 DEF Method
<1>19. SUFFICES Handled(o, m)
  OBVIOUS
<1>20. CASE m = "Negotiate"
  <2>1. Earlier(m) = {}
    BY <1>20 DEF Earlier
  <2>2. \A k \in {"NTLM", "Digest", "Basic"} : T(k) = S(k) /\ S(k) <= AUTH_AVAILABLE
    <3>1. \A k \in {"NTLM", "Digest", "Basic"} : S(k) <= AUTH_AVAILABLE
      <4>1. m \in {"Negotiate", "NTLM"} \cap setup.wants
        BY <1>12, <1>20
      <4>2. \A k \in {"Digest", "Basic"} \cup {"NTLM"} :
              S(k) > AUTH_AVAILABLE => S(m) <= AUTH_FAILED
        BY <1>20, <4>1 DEF InOrder
      <4> QED
        BY <1>9, <1>18, <1>20, <4>2
    <3>2. \A k \in {"NTLM", "Digest", "Basic"} : T(k) = S(k)
      BY <1>13, <1>18, <1>20, <2>1
    <3> QED
      BY <3>1, <3>2
  <2>3. /\ ~ o.close
        /\ o.ret = "OK" =>
             S(m) # GSSAPI_COMPLETE /\ T(m) \in {GSSAPI_CONTINUE, GSSAPI_COMPLETE}
        /\ o.ret # "OK" => T(m) = AUTH_FAILED
    BY ZenonT(60), <1>8, <1>10, <1>20, NegotiateOutcomes DEF S
  <2>4. T("Bearer") = S("Bearer")
    BY <1>13, <1>18, <1>20, <2>1
  <2>5. \A k \in setup.wants : T(k) # AUTH_UNSEEN
    BY <1>12, <1>20, <2>2, <2>3, <2>4 DEF Method, ProxyTyped
  <2>6. \A k \in Method \ setup.wants : T(k) <= AUTH_UNSEEN
    BY <1>12, <1>20, <2>2, <2>4 DEF InOrder, Method
  <2>7. \A k \in rejected \cap {"Negotiate", "NTLM", "Digest"} : k # m => T(k) <= AUTH_FAILED
    BY <1>18, <1>20, <2>2 DEF Spent
  <2>8. "Basic" \in rejected => T("Basic") <= AUTH_FAILED \/ "Digest" \in rejected
    BY <1>18, <2>2 DEF Spent
  <2>9. o.ret = "OK" => m \notin rejected
    BY <1>9, <1>18, <1>20, <2>3 DEF Spent
  <2> QED
    <3>1. m \in {"Negotiate", "NTLM", "Digest", "Basic"} \cap setup.wants
      BY <1>12, <1>20
    <3>2. \A k \in {"Negotiate", "NTLM"} \cap setup.wants :
          \A l \in {"Digest", "Basic"} \cup (IF k = "Negotiate" THEN {"NTLM"} ELSE {}) :
            T(l) > AUTH_AVAILABLE => T(k) <= AUTH_FAILED
      BY <1>18, <2>2
    <3>3. /\ T("Negotiate") <= GSSAPI_COMPLETE
          /\ T("Digest") <= AUTH_IN_PROGRESS /\ T("Basic") <= AUTH_IN_PROGRESS
          /\ T("NTLM") \in {NTLM_SSO_REQ, NTLM_MANUAL} => ~ setup.password
          /\ T("Digest") # AUTH_IN_PROGRESS
      BY <1>10, <1>18, <1>20, <2>2, <2>3 DEF Stops
    <3> QED
      BY <1>7, <1>10, <1>20, <2>3, <2>5, <2>6, <2>7, <2>8, <2>9, <3>1, <3>2, <3>3 DEF Handled, Stops
<1>21. CASE m = "NTLM"
  <2>1. Earlier(m) = {"Negotiate"}
    BY <1>21 DEF Earlier
  <2>2. \A k \in {"Digest", "Basic"} : T(k) = S(k) /\ S(k) <= AUTH_AVAILABLE
    <3>1. m \in {"Negotiate", "NTLM"} \cap setup.wants
      BY <1>12, <1>21
    <3>2. \A k \in {"Digest", "Basic"} : S(k) > AUTH_AVAILABLE => S(m) <= AUTH_FAILED
      BY <1>21, <3>1 DEF InOrder
    <3>3. \A k \in {"Digest", "Basic"} : S(k) <= AUTH_AVAILABLE
      BY <1>9, <1>18, <1>21, <3>2
    <3>4. \A k \in {"Digest", "Basic"} : T(k) = S(k)
      BY <1>13, <1>18, <1>21, <2>1
    <3> QED
      BY <3>3, <3>4
  <2>3. T("Bearer") = S("Bearer")
    BY <1>13, <1>18, <1>21, <2>1
  <2>4. /\ T("Negotiate") <= AUTH_UNSEEN
        /\ T("Negotiate") = S("Negotiate") \/ T("Negotiate") = AUTH_FAILED
    BY <1>15, <2>1
  <2>5. /\ o.ret = "OK" =>
             /\ T(m) \in {NTLM_SSO_REQ, NTLM_MANUAL, NTLM_MANUAL_REQ}
             /\ T(m) = NTLM_MANUAL => S(m) = NTLM_SSO_REQ
             /\ T(m) = NTLM_SSO_REQ => S(m) = AUTH_AVAILABLE /\ ~ setup.password
             /\ S(m) # NTLM_MANUAL_REQ /\ T(m) = NTLM_MANUAL_REQ => setup.password
             /\ S(m) = NTLM_MANUAL_REQ =>
                  proxy_auth[m].challenge = "token" /\ T(m) = NTLM_MANUAL_REQ
             /\ S(m) = NTLM_MANUAL => setup.password
        /\ o.ret = "EAGAIN" =>
             \/ ~ o.close /\ T(m) = AUTH_FAILED
             \/ o.close /\ S(m) = NTLM_SSO_REQ /\ T(m) = NTLM_MANUAL
    BY <1>4, <1>8, <1>9, <1>10, <1>21, NtlmOutcomes DEF S
  <2>6. S(m) \in {NTLM_SSO_REQ, NTLM_MANUAL} => ~ setup.password
    BY <1>21 DEF InOrder
  <2>7. T(m) \in {NTLM_SSO_REQ, NTLM_MANUAL} => ~ setup.password
    BY <1>10, <2>5, <2>6 DEF Stops
  <2>8. \A k \in setup.wants : T(k) # AUTH_UNSEEN
    BY <1>10, <1>12, <1>21, <2>2, <2>3, <2>4, <2>5 DEF Method, ProxyTyped, Stops
  <2>9. \A k \in Method \ setup.wants : T(k) <= AUTH_UNSEEN
    BY <1>12, <1>21, <2>2, <2>3, <2>4 DEF InOrder, Method
  <2>10. \A k \in rejected \cap {"Negotiate", "NTLM", "Digest"} : k # m => T(k) <= AUTH_FAILED
    BY <1>18, <1>21, <2>2, <2>4 DEF Spent
  <2>11. "Basic" \in rejected => T("Basic") <= AUTH_FAILED \/ "Digest" \in rejected
    BY <1>18, <2>2 DEF Spent
  <2>12. o.ret = "OK" => m \notin rejected
    <3>1. "NTLM" \in rejected =>
            \/ S("NTLM") <= AUTH_FAILED
            \/ S("NTLM") = NTLM_MANUAL /\ ~ setup.password
            \/ S("NTLM") = NTLM_MANUAL_REQ /\ proxy_auth["NTLM"].challenge = "none"
      BY DEF Spent
    <3> QED
      BY <1>9, <1>18, <1>21, <2>5, <3>1
  <2>13. o.ret = "OK" =>
           /\ T(m) > AUTH_AVAILABLE
           /\ S(m) = NTLM_SSO_REQ => T(m) = NTLM_MANUAL /\ ~ setup.password
           /\ S(m) = NTLM_MANUAL_REQ => T(m) = NTLM_MANUAL_REQ
    BY <2>5, <2>6
  <2>14. o.ret = "EAGAIN" =>
           /\ ~ o.close => T(m) = AUTH_FAILED
           /\ o.close => T(m) = NTLM_MANUAL /\ ~ setup.password
    BY <2>5, <2>6
  <2> QED
    <3>1. m \in {"Negotiate", "NTLM", "Digest", "Basic"} \cap setup.wants
      BY <1>12, <1>21
    <3>2. "Negotiate" \in setup.wants => T("Negotiate") <= AUTH_FAILED
      BY <1>18, <2>4, <2>8
    <3>3. \A k \in {"Negotiate", "NTLM"} \cap setup.wants :
          \A l \in {"Digest", "Basic"} \cup (IF k = "Negotiate" THEN {"NTLM"} ELSE {}) :
            T(l) > AUTH_AVAILABLE => T(k) <= AUTH_FAILED
      BY <1>18, <1>21, <2>2, <3>2
    <3>4. /\ T("Negotiate") <= GSSAPI_COMPLETE
          /\ T("Digest") <= AUTH_IN_PROGRESS /\ T("Basic") <= AUTH_IN_PROGRESS
          /\ T("Digest") # AUTH_IN_PROGRESS
      BY <1>18, <2>2, <2>4
    <3>5. o.sent = IF o.ret = "OK" THEN m ELSE "none"
      BY <1>10
    <3> QED
      BY <1>7, <1>21, <2>7, <2>8, <2>9, <2>10, <2>11, <2>12, <2>13, <2>14, <3>1, <3>3, <3>4, <3>5
         DEF Handled
<1>22. CASE m = "Digest"
  <2>1. Earlier(m) = {"Negotiate", "NTLM"}
    BY <1>22 DEF Earlier
  <2>2. T("Basic") = S("Basic") /\ T("Bearer") = S("Bearer")
    BY <1>13, <1>18, <1>22, <2>1
  <2>3. /\ T("Negotiate") <= AUTH_UNSEEN
        /\ T("Negotiate") = S("Negotiate") \/ T("Negotiate") = AUTH_FAILED
        /\ T("NTLM") <= AUTH_UNSEEN /\ T("NTLM") = S("NTLM")
    BY <1>15, <1>16, <2>1
  <2>4. /\ ~ o.close
        /\ o.ret = "OK" => S(m) # AUTH_IN_PROGRESS /\ T(m) = AUTH_IN_PROGRESS
        /\ o.ret = "EAGAIN" => S(m) = AUTH_IN_PROGRESS /\ T(m) = AUTH_FAILED
    <3>1. /\ a \in authorization("Digest", proxy_auth["Digest"], who)
          /\ proxy_auth["Digest"] \in AuthState
      BY <1>8, <1>22
    <3>2. /\ a.close = FALSE
          /\ a.ret = "OK" => S(m) # AUTH_IN_PROGRESS /\ a.state = AUTH_IN_PROGRESS
          /\ a.ret = "EAGAIN" => S(m) = AUTH_IN_PROGRESS /\ a.state = AUTH_FAILED
      BY <1>4, <1>22, <3>1, DigestOutcomes DEF S
    <3> QED
      BY <1>10, <3>2
  <2>5. o.ret \in {"OK", "EAGAIN"}
    BY <1>10 DEF Stops
  <2>6. S("Digest") <= AUTH_IN_PROGRESS /\ S("Basic") <= AUTH_IN_PROGRESS
    BY DEF InOrder
  <2>7. \A k \in setup.wants : T(k) # AUTH_UNSEEN
    BY <1>12, <1>22, <2>2, <2>3, <2>4, <2>5 DEF Method, ProxyTyped
  <2>8. \A k \in Method \ setup.wants : T(k) <= AUTH_UNSEEN
    BY <1>12, <1>22, <2>2, <2>3 DEF InOrder, Method
  <2>9. \A k \in rejected \cap {"Negotiate", "NTLM", "Digest"} : k # m => T(k) <= AUTH_FAILED
    BY <1>18, <1>22, <2>3 DEF Spent
  <2>10. o.ret = "EAGAIN" => "Digest" \in rejected
    BY <1>22, <2>4 DEF InOrder
  <2>11. "Basic" \in rejected =>
           \/ T("Basic") <= AUTH_FAILED \/ "Digest" \in rejected
           \/ T("Basic") = AUTH_IN_PROGRESS /\ o.ret = "OK"
    BY <2>2, <2>5, <2>10 DEF Spent
  <2>12. o.ret = "OK" => m \notin rejected
    BY <1>9, <1>18, <1>22, <2>4 DEF Spent
  <2> QED
    <3>1. m \in {"Negotiate", "NTLM", "Digest", "Basic"} \cap setup.wants
      BY <1>12, <1>22
    <3>2. \A k \in {"Negotiate", "NTLM"} \cap setup.wants : T(k) <= AUTH_FAILED
      BY <1>18, <2>3, <2>7
    <3>3. \A k \in {"Negotiate", "NTLM"} \cap setup.wants :
          \A l \in {"Digest", "Basic"} \cup (IF k = "Negotiate" THEN {"NTLM"} ELSE {}) :
            T(l) > AUTH_AVAILABLE => T(k) <= AUTH_FAILED
      BY <3>2
    <3>4. /\ T("Negotiate") <= GSSAPI_COMPLETE
          /\ T("Digest") <= AUTH_IN_PROGRESS /\ T("Basic") <= AUTH_IN_PROGRESS
          /\ ~ (T("NTLM") \in {NTLM_SSO_REQ, NTLM_MANUAL})
      BY <1>18, <1>22, <2>2, <2>3, <2>4, <2>5, <2>6
    <3>5. T("Digest") = AUTH_IN_PROGRESS => o.ret = "OK"
      BY <1>22, <2>4, <2>5
    <3>6. o.sent = IF o.ret = "OK" THEN m ELSE "none"
      BY <1>10
    <3> QED
      BY <1>7, <1>22, <2>4, <2>7, <2>8, <2>9, <2>11, <2>12, <3>1, <3>3, <3>4, <3>5, <3>6
         DEF Handled
<1>23. CASE m = "Basic"
  <2>1. Earlier(m) = {"Negotiate", "NTLM", "Digest"}
    BY <1>23 DEF Earlier
  <2>2. T("Bearer") = S("Bearer")
    BY <1>13, <1>18, <1>23, <2>1
  <2>3. /\ T("Negotiate") <= AUTH_UNSEEN
        /\ T("Negotiate") = S("Negotiate") \/ T("Negotiate") = AUTH_FAILED
        /\ T("NTLM") <= AUTH_UNSEEN /\ T("NTLM") = S("NTLM")
    BY <1>15, <1>16, <2>1
  <2>4. /\ ~ o.close /\ setup.password
        /\ o.ret = "OK" => S(m) # AUTH_IN_PROGRESS /\ T(m) = AUTH_IN_PROGRESS
        /\ o.ret = "EAGAIN" => T(m) = AUTH_FAILED
    <3>1. /\ a \in authorization("Basic", proxy_auth["Basic"], who)
          /\ proxy_auth["Basic"] \in AuthState
      BY <1>8, <1>23
    <3>2. /\ a.close = FALSE /\ (Stops(a) => who.password)
          /\ a.ret = "OK" => S(m) # AUTH_IN_PROGRESS /\ a.state = AUTH_IN_PROGRESS
          /\ a.ret = "EAGAIN" => a.state = AUTH_FAILED
      BY <1>4, <1>23, <3>1, BasicOutcomes DEF S
    <3> QED
      BY <1>4, <1>10, <3>2
  <2>5. o.ret \in {"OK", "EAGAIN"}
    BY <1>10 DEF Stops
  <2>6. T("Digest") = S("Digest") /\ S("Digest") # AUTH_IN_PROGRESS
    BY <1>17, <2>1, <2>4
  <2>7. S("Digest") <= AUTH_AVAILABLE
    BY <1>18, <2>6 DEF InOrder
  <2>8. \A k \in setup.wants : T(k) # AUTH_UNSEEN
    BY <1>12, <1>23, <2>2, <2>3, <2>4, <2>5, <2>6 DEF Method, ProxyTyped
  <2>9. \A k \in Method \ setup.wants : T(k) <= AUTH_UNSEEN
    BY <1>12, <1>23, <2>2, <2>3, <2>6 DEF InOrder, Method
  <2>10. \A k \in rejected \cap {"Negotiate", "NTLM", "Digest"} : k # m => T(k) <= AUTH_FAILED
    BY <1>18, <2>3, <2>6 DEF Spent
  <2>11. o.ret = "OK" /\ m \in rejected => "Digest" \in rejected
    BY <1>9, <1>18, <1>23, <2>4 DEF Spent
  <2> QED
    <3>1. m \in {"Negotiate", "NTLM", "Digest", "Basic"} \cap setup.wants
      BY <1>12, <1>23
    <3>2. \A k \in {"Negotiate", "NTLM"} \cap setup.wants : T(k) <= AUTH_FAILED
      BY <1>18, <2>3, <2>8
    <3>3. \A k \in {"Negotiate", "NTLM"} \cap setup.wants :
          \A l \in {"Digest", "Basic"} \cup (IF k = "Negotiate" THEN {"NTLM"} ELSE {}) :
            T(l) > AUTH_AVAILABLE => T(k) <= AUTH_FAILED
      BY <3>2
    <3>4. /\ T("Negotiate") <= GSSAPI_COMPLETE
          /\ T("Digest") <= AUTH_IN_PROGRESS /\ T("Basic") <= AUTH_IN_PROGRESS
          /\ ~ (T("NTLM") \in {NTLM_SSO_REQ, NTLM_MANUAL})
          /\ T("Digest") # AUTH_IN_PROGRESS
      BY <1>18, <1>23, <2>3, <2>4, <2>5, <2>6, <2>7
    <3>5. o.sent = IF o.ret = "OK" THEN m ELSE "none"
      BY <1>10
    <3> QED
      BY <1>7, <1>23, <2>4, <2>8, <2>9, <2>10, <2>11, <3>1, <3>3, <3>4, <3>5
         DEF Handled
<1> QED
  BY <1>11, <1>20, <1>21, <1>22, <1>23 DEF Method

-----------------------------------------------------------------------------
\* The steps

ProxyInv ==
  ProxyTyped /\ BetweenOpenings /\ Offered /\ InOrder /\ Spent /\ Awaited

proxyside == <<setup, proxy_auth, sent, rejected, proxyauth, proxy_close_during_auth>>

Opening == {"connect", "proxy", "proxy_read", "tls"}

\* What clear_auth_states() leaves.
LEMMA ClearedStates ==
  ASSUME NEW s \in [Method -> AuthState], NEW reset \in BOOLEAN
  PROVE  LET c == clear_auth_states(s, reset)
         IN /\ c \in [Method -> AuthState]
            /\ \A m \in Method :
                 /\ c[m].challenge = "none"
                 /\ c[m].state = IF s[m].state > AUTH_FAILED
                                    /\ (reset \/ s[m].state = AUTH_AVAILABLE)
                                 THEN AUTH_UNSEEN ELSE s[m].state
<1>1. \A m \in Method : s[m].state \in -3 .. 4
  BY DEF AuthState
<1> QED
  BY <1>1 DEF clear_auth_states, AuthState

\* The states after a walk are typed.
LEMMA WalkTyped ==
  ASSUME NEW s \in [Method -> AuthState], NEW who \in Credentials
  PROVE  \A o \in gen_authorization_hdr(s, who) : o.states \in [Method -> AuthState]
BY WalkEnds DEF Walked, OutcomeOf

\* Steps outside the opening of a connection, and the one that begins it.
LEMMA BetweenStep ==
  ASSUME ProxyInv, pc \notin Opening, pc' \notin Opening \/ pc' = "connect",
         UNCHANGED proxyside
  PROVE  ProxyInv'
<1>1. Fresh /\ rejected = {}
  BY DEF ProxyInv, BetweenOpenings, Opening
<1>2. ProxyTyped'
  BY DEF ProxyInv, ProxyTyped, proxyside
<1>3. Fresh' /\ rejected' = {}
  BY <1>1 DEF Fresh, S, proxyside
<1>4. \A m \in Method : S(m)' \in -3 .. 4 /\ S(m)' <= AUTH_UNSEEN
  BY <1>2, <1>3 DEF Fresh, S, ProxyTyped, AuthState
<1>5. pc' # "proxy_read"
  BY DEF Opening
<1>6. BetweenOpenings' /\ Offered' /\ Spent' /\ Awaited'
  BY <1>3, <1>5 DEF BetweenOpenings, Offered, Spent, Awaited
<1>7. InOrder'
  BY <1>2, <1>4 DEF InOrder, Method, ProxyTyped
<1> QED
  BY <1>2, <1>6, <1>7 DEF ProxyInv

\* Steps that end it: the methods start again.
LEMMA OpenedStep ==
  ASSUME ProxyInv, NEW s \in [Method -> AuthState], Opened(s), pc' \notin Opening,
         setup' = setup, proxy_close_during_auth' \in BOOLEAN
  PROVE  ProxyInv'
<1>1. /\ proxy_auth' \in [Method -> AuthState]
      /\ \A m \in Method : proxy_auth'[m].state <= AUTH_UNSEEN
  <2> DEFINE c == clear_auth_states(s, TRUE)
  <2>1. proxy_auth' = c
    BY DEF Opened
  <2>2. \A m \in Method : s[m].state \in -3 .. 4
    BY DEF AuthState
  <2>3. /\ c \in [Method -> AuthState]
        /\ \A m \in Method :
             c[m].state = IF s[m].state > AUTH_FAILED THEN AUTH_UNSEEN ELSE s[m].state
    BY ClearedStates
  <2> HIDE DEF c
  <2> QED
    BY <2>1, <2>2, <2>3
<1>2. ProxyTyped'
  BY <1>1 DEF ProxyInv, ProxyTyped, Opened, NotSent
<1>3. Fresh' /\ rejected' = {}
  BY <1>1 DEF Fresh, S, Opened
<1> QED
  BY <1>2, <1>3 DEF ProxyInv, BetweenOpenings, Offered, WithHeader, WithoutHeader, Spent, Awaited,
     InOrder, Opening

\* A socket to the proxy: Connect.
LEMMA ConnectStep ==
  ASSUME ProxyInv, Connect
  PROVE  ProxyInv'
<1>1. proxy_auth' = proxy_auth /\ setup' = setup /\ rejected' = rejected /\ sent' = sent
  BY DEF Connect, opening
<1>2. pc = "connect" /\ pc' \in {"tls", "proxy"}
  BY DEF Connect
<1>3. ProxyTyped'
  BY <1>1 DEF Connect, ProxyInv, ProxyTyped
<1>4. BetweenOpenings'
  BY <1>2 DEF BetweenOpenings
<1>5. Offered'
  <2>1. CASE setup.proxy = "http"
    <3>1. proxyauth' = proxy_close_during_auth
      BY <2>1 DEF Connect
    <3> QED
      BY <1>1, <1>2, <3>1 DEF ProxyInv, Offered, WithHeader, WithoutHeader, Fresh, S
  <2>2. CASE setup.proxy # "http"
    <3>1. Fresh
      BY <1>2, <2>2 DEF ProxyInv, ProxyTyped, InOrder, Fresh
    <3>2. Fresh'
      BY <1>1, <3>1 DEF Fresh, S
    <3> QED
      BY <3>2 DEF Offered
  <2> QED
    BY <2>1, <2>2
<1>6. InOrder'
  BY <1>1, <1>2 DEF ProxyInv, InOrder, S
<1>7. Spent'
  BY <1>1, <1>2 DEF ProxyInv, Spent, S
<1>8. Awaited'
  BY <1>2 DEF Awaited
<1> QED
  BY <1>3, <1>4, <1>5, <1>6, <1>7, <1>8 DEF ProxyInv

\* SendConnect without a header.
LEMMA SendPlainStep ==
  ASSUME ProxyInv, pc = "proxy", ~ proxyauth, pc' = "proxy_read", sent' = NotSent,
         UNCHANGED <<proxy_auth, proxy_close_during_auth, setup, proxyauth, rejected>>
  PROVE  ProxyInv'
<1>1. Fresh
  BY DEF ProxyInv, Offered, WithoutHeader
<1>2. ProxyTyped'
  BY DEF ProxyInv, ProxyTyped, NotSent
<1>3. \A m \in Method : S(m) \in -3 .. 4 /\ S(m) <= AUTH_UNSEEN /\ S(m)' = S(m)
  BY <1>1 DEF ProxyInv, ProxyTyped, Fresh, S, AuthState
<1>4. Fresh'
  BY <1>3 DEF Fresh
<1>5. \A m \in {"Negotiate", "NTLM", "Digest", "Basic"} :
        S(m)' \in -3 .. 4 /\ S(m)' <= AUTH_UNSEEN /\ S(m)' = S(m)
  BY <1>3 DEF Method
<1>6. InOrder'
  BY <1>2, <1>3, <1>5 DEF InOrder, ProxyTyped
<1>7. Awaited'
  BY <1>5 DEF ProxyInv, Spent, Awaited, RejectedNotRepeated, NotSent
<1> QED
  BY <1>2, <1>4, <1>6, <1>7 DEF ProxyInv, BetweenOpenings, Offered, Spent

\* What SendConnect records of the header of an outcome.
SentHeader(o) ==
  sent' = [method |-> o.sent,
           first |-> o.sent = "NTLM"
             /\ proxy_auth["NTLM"].state \in {AUTH_AVAILABLE, NTLM_MANUAL},
           last |-> CASE o.sent = "NTLM" -> proxy_auth["NTLM"].state
                            \in {NTLM_SSO_REQ, NTLM_MANUAL_REQ}
                      [] o.sent = "Negotiate" ->
                           o.states["Negotiate"].state = GSSAPI_COMPLETE
                      [] OTHER -> TRUE]

\* SendConnect with a header.
LEMMA SendHeaderStep ==
  ASSUME ProxyInv, pc = "proxy", proxyauth, pc' = "proxy_read",
         NEW o \in gen_authorization_hdr(proxy_auth, Proxy), o.ret = "OK",
         SentHeader(o),
         proxy_auth' = clear_auth_states(o.states, FALSE),
         UNCHANGED <<proxy_close_during_auth, setup, proxyauth, rejected>>
  PROVE  ProxyInv'
<1>1. PICK m \in Method : Handled(o, m)
  BY WalkHandled DEF ProxyInv, Stops
<1> DEFINE T(k) == o.states[k].state
<1>2. o.states \in [Method -> AuthState] /\ m \in {"Negotiate", "NTLM", "Digest", "Basic"}
  BY <1>1 DEF Handled
<1>3. /\ proxy_auth' \in [Method -> AuthState]
      /\ \A k \in Method :
           S(k)' = IF T(k) = AUTH_AVAILABLE THEN AUTH_UNSEEN ELSE T(k)
  <2>1. \A k \in Method : T(k) \in -3 .. 4
    BY <1>2 DEF AuthState
  <2> DEFINE c == clear_auth_states(o.states, FALSE)
  <2>2. /\ c \in [Method -> AuthState]
        /\ \A k \in Method :
             c[k].state =
               IF T(k) > AUTH_FAILED /\ T(k) = AUTH_AVAILABLE THEN AUTH_UNSEEN ELSE T(k)
    BY <1>2, ClearedStates
  <2>3. proxy_auth' = c
    OBVIOUS
  <2> HIDE DEF c
  <2>4. \A k \in Method : S(k)' = IF T(k) = AUTH_AVAILABLE THEN AUTH_UNSEEN ELSE T(k)
    <3> TAKE k \in Method
    <3>1. S(k)' = c[k].state
      BY <2>3 DEF S
    <3>2. T(k) \in -3 .. 4
      BY <2>1
    <3> HIDE DEF T
    <3> QED
      BY <2>2, <3>1, <3>2
  <2> QED
    BY <2>2, <2>3, <2>4
<1>4. \A k \in Method : T(k) \in -3 .. 4
  BY <1>2 DEF AuthState
<1>5. o.sent = m
  BY <1>1 DEF Handled
<1>6. /\ sent'.method = m
      /\ sent'.first => S("NTLM") \in {AUTH_AVAILABLE, NTLM_MANUAL}
      /\ m = "NTLM" /\ sent'.last => S("NTLM") \in {NTLM_SSO_REQ, NTLM_MANUAL_REQ}
      /\ m = "Negotiate" /\ sent'.last => T("Negotiate") = GSSAPI_COMPLETE
      /\ m \in {"Digest", "Basic"} => sent'.last
      /\ sent' \in [method : Method \cup {None}, first : BOOLEAN, last : BOOLEAN]
  <2>1. CASE m = "NTLM"
    <3>1. sent' = [method |-> "NTLM",
                   first |-> S("NTLM") \in {AUTH_AVAILABLE, NTLM_MANUAL},
                   last |-> S("NTLM") \in {NTLM_SSO_REQ, NTLM_MANUAL_REQ}]
      BY <1>5, <2>1 DEF S, SentHeader
    <3> DEFINE x == S("NTLM") \in {AUTH_AVAILABLE, NTLM_MANUAL}
               y == S("NTLM") \in {NTLM_SSO_REQ, NTLM_MANUAL_REQ}
    <3>2. x \in BOOLEAN /\ y \in BOOLEAN
      OBVIOUS
    <3>3. sent' = [method |-> "NTLM", first |-> x, last |-> y]
      BY <3>1, Zenon
    <3> HIDE DEF x, y
    <3>4. /\ sent'.method = "NTLM" /\ sent'.first = x /\ sent'.last = y
          /\ sent' \in [method : Method \cup {None}, first : BOOLEAN, last : BOOLEAN]
      BY <3>2, <3>3 DEF Method
    <3>5. (x => S("NTLM") \in {AUTH_AVAILABLE, NTLM_MANUAL})
          /\ (y => S("NTLM") \in {NTLM_SSO_REQ, NTLM_MANUAL_REQ})
      BY Zenon DEF x, y
    <3> HIDE DEF S
    <3> QED
      BY <2>1, <3>4, <3>5
  <2>2. CASE m = "Negotiate"
    BY <1>5, <2>2 DEF S, SentHeader
  <2>3. CASE m \in {"Digest", "Basic"}
    BY <1>5, <2>3 DEF S, SentHeader
  <2> QED
    BY <1>2, <2>1, <2>2, <2>3
<1>7. ProxyTyped'
  BY <1>3, <1>6 DEF ProxyInv, ProxyTyped
<1>8. m # None
  BY <1>2 DEF None
<1>9. BetweenOpenings' /\ Offered' /\ Spent'
  BY <1>6, <1>8 DEF BetweenOpenings, Offered, WithHeader, WithoutHeader, Spent
<1>10. \A k \in {"Negotiate", "NTLM", "Digest", "Basic"} :
         /\ T(k) \in -3 .. 4
         /\ S(k)' = IF T(k) = AUTH_AVAILABLE THEN AUTH_UNSEEN ELSE T(k)
  BY <1>3, <1>4 DEF Method
<1>11. InOrder'
  <2>1. \A k \in Method \ setup.wants : S(k)' <= AUTH_UNSEEN
    BY <1>1, <1>3, <1>4 DEF Handled
  <2>2. \A k \in {"Negotiate", "NTLM"} \cap setup.wants :
          \A l \in {"Digest", "Basic"} \cup (IF k = "Negotiate" THEN {"NTLM"} ELSE {}) :
            S(l)' > AUTH_AVAILABLE => S(k)' <= AUTH_FAILED
    BY <1>1, <1>10 DEF Handled
  <2>3. /\ S("Negotiate")' <= GSSAPI_COMPLETE
        /\ S("Digest")' <= AUTH_IN_PROGRESS /\ S("Basic")' <= AUTH_IN_PROGRESS
        /\ S("NTLM")' \in {NTLM_SSO_REQ, NTLM_MANUAL} => ~ setup.password
    BY <1>1, <1>10 DEF Handled
  <2>4. S("Digest")' = AUTH_IN_PROGRESS => m = "Digest"
    BY <1>1, <1>10 DEF Handled
  <2> QED
    BY <1>6, <2>1, <2>2, <2>3, <2>4 DEF InOrder
<1>12. Awaited'
  <2>1. m \in rejected => m = "Basic" /\ "Digest" \in rejected
    BY <1>1 DEF Handled
  <2>2. \A k \in rejected \cap {"Negotiate", "NTLM", "Digest"} : S(k)' <= AUTH_FAILED
    BY <1>1, <1>10, <2>1 DEF Handled
  <2>3. "Basic" \in rejected =>
          \/ S("Basic")' <= AUTH_FAILED \/ S("Basic")' = AUTH_IN_PROGRESS
          \/ "Digest" \in rejected
    BY <1>1, <1>10, <2>1 DEF Handled
  <2>4. sent'.last /\ m = "Negotiate" => S("Negotiate")' = GSSAPI_COMPLETE
    BY <1>6, <1>10
  <2>5. sent'.last /\ m = "NTLM" =>
          \/ S("NTLM")' = NTLM_MANUAL /\ ~ setup.password
          \/ S("NTLM")' = NTLM_MANUAL_REQ /\ ~ sent'.first
    BY <1>1, <1>6, <1>10 DEF Handled
  <2>6. m \in {"Digest", "Basic"} => S(m)' = AUTH_IN_PROGRESS
    BY <1>1, <1>10 DEF Handled
  <2> QED
    BY <1>2, <1>6, <2>1, <2>2, <2>3, <2>4, <2>5, <2>6 DEF Awaited, RejectedNotRepeated
<1> QED
  BY <1>7, <1>9, <1>11, <1>12 DEF ProxyInv

\* SendConnect for which a method wants a new connection.
LEMMA ReconnectStep ==
  ASSUME ProxyInv, pc = "proxy", proxyauth, pc' = "connect",
         NEW o \in gen_authorization_hdr(proxy_auth, Proxy), o.ret = "EAGAIN",
         proxy_close_during_auth' = o.close,
         proxy_auth' = IF o.close THEN o.states ELSE clear_auth_states(o.states, TRUE),
         UNCHANGED <<sent, setup, proxyauth, rejected>>
  PROVE  ProxyInv'
<1>1. PICK m \in Method : Handled(o, m)
  BY WalkHandled DEF ProxyInv, Stops
<1> DEFINE T(k) == o.states[k].state
<1>2. o.states \in [Method -> AuthState] /\ o.close \in BOOLEAN
  BY <1>1 DEF Handled
<1>3. proxy_auth' \in [Method -> AuthState]
  BY <1>2, ClearedStates
<1>4. \A k \in Method : T(k) \in -3 .. 4
  BY <1>2 DEF AuthState
<1>5. ProxyTyped'
  BY <1>2, <1>3 DEF ProxyInv, ProxyTyped
<1>6. BetweenOpenings' /\ Awaited'
  BY DEF BetweenOpenings, Awaited
<1>7. CASE ~ o.close
  <2>1. \A k \in Method : S(k)' = IF T(k) > AUTH_FAILED THEN AUTH_UNSEEN ELSE T(k)
    BY <1>2, <1>7, ClearedStates DEF S
  <2>2. Fresh' /\ \A k \in Method : S(k)' \in -3 .. 4 /\ S(k)' <= AUTH_UNSEEN
    BY <1>4, <2>1 DEF Fresh
  <2>3. Offered'
    BY <2>2 DEF Offered
  <2>4. \A k \in {"Negotiate", "NTLM", "Digest", "Basic"} :
          /\ T(k) \in -3 .. 4
          /\ S(k)' = IF T(k) > AUTH_FAILED THEN AUTH_UNSEEN ELSE T(k)
    BY <1>4, <2>1 DEF Method
  <2>5. InOrder'
    BY <1>5, <2>2, <2>4 DEF InOrder, ProxyTyped
  <2>6. T(m) = AUTH_FAILED
    BY <1>1, <1>7 DEF Handled
  <2>7. \A k \in rejected \cap {"Negotiate", "NTLM", "Digest"} : T(k) <= AUTH_FAILED
    BY <1>1, <2>6 DEF Handled
  <2>8. "Basic" \in rejected => T("Basic") <= AUTH_FAILED \/ "Digest" \in rejected
    BY <1>1, <2>6 DEF Handled
  <2>9. Spent'
    <3>1. \A k \in rejected' \cap {"Negotiate", "NTLM", "Digest"} : S(k)' <= AUTH_FAILED
      BY <2>4, <2>7
    <3>2. "Basic" \in rejected' => S("Basic")' <= AUTH_FAILED \/ "Digest" \in rejected'
      BY <2>4, <2>8
    <3> QED
      BY <3>1, <3>2 DEF Spent
  <2> QED
    BY <1>5, <1>6, <2>3, <2>5, <2>9 DEF ProxyInv
<1>8. CASE o.close
  <2>1. \A k \in Method : S(k)' = T(k)
    BY <1>8 DEF S
  <2>2. m = "NTLM" /\ T(m) = NTLM_MANUAL /\ ~ setup.password
    BY <1>1, <1>8 DEF Handled
  <2>3. \A k \in {"Negotiate", "NTLM", "Digest", "Basic"} : T(k) \in -3 .. 4 /\ S(k)' = T(k)
    BY <1>4, <2>1 DEF Method
  <2>4. WithHeader' /\ ~ WithoutHeader'
    BY <1>8 DEF WithHeader, WithoutHeader
  <2>5. \A k \in setup.wants : S(k)' # AUTH_UNSEEN
    BY <1>1, <2>1 DEF Handled, ProxyInv, ProxyTyped
  <2>6. Offered'
    BY <2>4, <2>5 DEF Offered
  <2>7. InOrder'
    <3>1. \A k \in Method \ setup.wants : S(k)' <= AUTH_UNSEEN
      BY <1>1, <2>1 DEF Handled
    <3>2. \A k \in {"Negotiate", "NTLM"} \cap setup.wants :
            \A l \in {"Digest", "Basic"} \cup (IF k = "Negotiate" THEN {"NTLM"} ELSE {}) :
              S(l)' > AUTH_AVAILABLE => S(k)' <= AUTH_FAILED
      BY <1>1, <2>3 DEF Handled
    <3>3. /\ S("Negotiate")' <= GSSAPI_COMPLETE
          /\ S("Digest")' <= AUTH_IN_PROGRESS /\ S("Basic")' <= AUTH_IN_PROGRESS
          /\ S("Digest")' # AUTH_IN_PROGRESS
      BY <1>1, <2>2, <2>3 DEF Handled
    <3> QED
      BY <2>2, <3>1, <3>2, <3>3 DEF InOrder
  <2>8. \A k \in rejected \cap {"Negotiate", "Digest"} : S(k)' <= AUTH_FAILED
    BY <1>1, <2>2, <2>3 DEF Handled
  <2>9. "Basic" \in rejected => S("Basic")' <= AUTH_FAILED \/ "Digest" \in rejected
    BY <1>1, <2>2, <2>3 DEF Handled
  <2>10. Spent'
    BY <2>2, <2>3, <2>8, <2>9 DEF Spent
  <2> QED
    BY <1>5, <1>6, <2>6, <2>7, <2>10 DEF ProxyInv
<1> QED
  BY <1>2, <1>7, <1>8

\* ProxyChallenges: what was sent last is turned down.
LEMMA ChallengeStep ==
  ASSUME ProxyInv, ProxyChallenges
  PROVE  ProxyInv'
<1>1. PICK close \in BOOLEAN, token \in BOOLEAN :
        LET offer == [m \in setup.wants |->
              IF m = "Digest" \/ (m = "Negotiate" /\ token) \/ (m = "NTLM" /\ sent.first)
              THEN "token" ELSE "none"]
        IN /\ proxy_auth' = handle_auth_proto(proxy_auth, offer)
           /\ proxy_close_during_auth' = (proxy_close_during_auth \/ close)
  BY DEF ProxyChallenges
<1> DEFINE offer == [m \in setup.wants |->
              IF m = "Digest" \/ (m = "Negotiate" /\ token) \/ (m = "NTLM" /\ sent.first)
              THEN "token" ELSE "none"]
<1>2. ProxyTyped /\ pc = "proxy_read" /\ setup' = setup /\ sent' = sent
  BY DEF ProxyInv, ProxyChallenges
<1>3. \A m \in Method : S(m) \in -3 .. 4 /\ proxy_auth[m] \in AuthState
  BY <1>2 DEF ProxyTyped, AuthState, S
<1>4. /\ DOMAIN offer = setup.wants
      /\ \A m \in setup.wants : offer[m] \in {"none", "token"}
      /\ "NTLM" \in setup.wants /\ ~ sent.first => offer["NTLM"] = "none"
  OBVIOUS
<1>5. proxy_auth' =
        [m \in Method |->
           IF m \notin DOMAIN offer \/ proxy_auth[m].state <= AUTH_FAILED THEN proxy_auth[m]
           ELSE [state |-> IF proxy_auth[m].state = AUTH_UNSEEN THEN AUTH_AVAILABLE
                           ELSE proxy_auth[m].state,
                 challenge |-> offer[m]]]
  BY <1>1 DEF handle_auth_proto
<1> HIDE DEF offer
<1>6. \A m \in Method : proxy_auth'[m] \in AuthState
  BY <1>3, <1>4, <1>5 DEF AuthState, S
<1>7. proxy_auth' \in [Method -> AuthState]
  BY <1>5, <1>6
<1>8. \A m \in Method :
        S(m)' = IF m \in setup.wants /\ S(m) = AUTH_UNSEEN THEN AUTH_AVAILABLE ELSE S(m)
  BY <1>3, <1>4, <1>5 DEF S
<1>9. "NTLM" \in setup.wants /\ S("NTLM") > AUTH_FAILED /\ ~ sent.first
        => proxy_auth'["NTLM"].challenge = "none"
  BY <1>3, <1>4, <1>5 DEF S, Method
<1>10. /\ rejected' = IF sent.last THEN rejected \cup {sent.method} ELSE rejected
       /\ \/ pc' = "connect" /\ proxy_close_during_auth' /\ UNCHANGED proxyauth
          \/ pc' = "proxy" /\ proxyauth' = TRUE
  BY DEF ProxyChallenges
<1>11. sent.last => sent.method \in {"Negotiate", "NTLM", "Digest", "Basic"}
  BY <1>2 DEF ProxyInv, Awaited
<1>12. ProxyTyped'
  <2>1. rejected' \subseteq Method
    BY <1>2, <1>10, <1>11 DEF ProxyTyped, Method
  <2>2. proxy_close_during_auth' \in BOOLEAN
    BY <1>1, <1>2 DEF ProxyTyped
  <2> QED
    BY <1>2, <1>7, <1>10, <2>1, <2>2 DEF ProxyTyped
<1>13. BetweenOpenings' /\ Awaited'
  BY <1>10 DEF BetweenOpenings, Awaited
<1>14. Offered'
  <2>1. ~ WithoutHeader'
    BY <1>10 DEF WithoutHeader
  <2>2. \A m \in setup.wants : S(m)' # AUTH_UNSEEN
    BY <1>2, <1>8 DEF ProxyTyped
  <2> QED
    BY <1>2, <2>1, <2>2 DEF Offered
<1>15. \A k \in {"Negotiate", "NTLM", "Digest", "Basic"} :
         /\ S(k) \in -3 .. 4
         /\ S(k)' = IF k \in setup.wants /\ S(k) = AUTH_UNSEEN THEN AUTH_AVAILABLE ELSE S(k)
  BY <1>3, <1>8 DEF Method
<1>16. InOrder'
  <2>1. InOrder
    BY DEF ProxyInv
  <2>2. \A m \in Method \ setup.wants : S(m)' <= AUTH_UNSEEN
    BY <1>2, <1>8, <2>1 DEF InOrder
  <2>3. \A k \in {"Negotiate", "NTLM"} \cap setup.wants :
          \A l \in {"Digest", "Basic"} \cup (IF k = "Negotiate" THEN {"NTLM"} ELSE {}) :
            S(l)' > AUTH_AVAILABLE => S(k)' <= AUTH_FAILED
    BY <1>2, <1>15, <2>1 DEF InOrder
  <2>4. /\ S("Negotiate")' <= GSSAPI_COMPLETE
        /\ S("Digest")' <= AUTH_IN_PROGRESS /\ S("Basic")' <= AUTH_IN_PROGRESS
        /\ S("NTLM")' \in {NTLM_SSO_REQ, NTLM_MANUAL} => ~ setup.password
    BY <1>2, <1>15, <2>1 DEF InOrder
  <2>5. S("Digest")' = AUTH_IN_PROGRESS => "Digest" \in rejected'
    BY <1>2, <1>10, <1>15, <2>1 DEF InOrder
  <2> QED
    BY <1>2, <2>2, <2>3, <2>4, <2>5 DEF InOrder
<1>17. Spent'
  <2>1. Awaited /\ InOrder
    BY DEF ProxyInv
  <2>2. "Negotiate" \in rejected' =>
          S("Negotiate")' <= AUTH_FAILED \/ S("Negotiate")' = GSSAPI_COMPLETE
    BY <1>2, <1>10, <1>15, <2>1 DEF Awaited
  <2>3. "NTLM" \in rejected' =>
          \/ S("NTLM")' <= AUTH_FAILED
          \/ S("NTLM")' = NTLM_MANUAL /\ ~ setup.password
          \/ S("NTLM")' = NTLM_MANUAL_REQ /\ proxy_auth'["NTLM"].challenge = "none"
    <3>1. S("NTLM") > AUTH_UNSEEN => "NTLM" \in setup.wants
      BY <1>2, <1>15, <2>1 DEF InOrder, Method
    <3> QED
      BY <1>2, <1>9, <1>10, <1>15, <2>1, <3>1 DEF Awaited
  <2>4. "Digest" \in rejected' =>
          S("Digest")' <= AUTH_FAILED \/ S("Digest")' = AUTH_IN_PROGRESS
    BY <1>2, <1>10, <1>15, <2>1 DEF Awaited
  <2>5. "Basic" \in rejected' =>
          \/ S("Basic")' <= AUTH_FAILED \/ S("Basic")' = AUTH_IN_PROGRESS
          \/ "Digest" \in rejected'
    BY <1>2, <1>10, <1>15, <2>1 DEF Awaited
  <2> QED
    BY <1>2, <2>2, <2>3, <2>4, <2>5 DEF Spent
<1> QED
  BY <1>12, <1>13, <1>14, <1>16, <1>17 DEF ProxyInv

\* The proxy has made the connection.
LEMMA TlsStep ==
  ASSUME ProxyInv, NEW s \in [Method -> AuthState], proxy_auth' = clear_auth_states(s, TRUE),
         pc' = "tls", proxy_close_during_auth' \in BOOLEAN,
         UNCHANGED <<setup, sent, rejected, proxyauth>>
  PROVE  ProxyInv'
<1>1. ProxyTyped'
  BY ClearedStates DEF ProxyInv, ProxyTyped
<1> QED
  BY <1>1 DEF ProxyInv, BetweenOpenings, Offered, WithHeader, WithoutHeader, Spent, Awaited, InOrder

\* Connected is inductive.
LEMMA ConnectedStep == Connected /\ [Next]_vars => Connected'
<1> SUFFICES ASSUME Connected, [Next]_vars PROVE Connected'
  OBVIOUS
<1> USE DEF Connected, place, locals, serverauth, opening, proxystate, channel, Out, OpenFails,
            Opened, Headers, SameHost, NewHost
<1>1. CASE Call
  BY <1>1 DEF Call
<1>2. CASE TooManyRedirects
  BY <1>2 DEF TooManyRedirects
<1>3. CASE BuildRequest
  BY <1>3 DEF BuildRequest
<1>4. CASE BuildAuthorized
  BY <1>4 DEF BuildAuthorized
<1>5. CASE UseConnection
  BY <1>5 DEF UseConnection
<1>6. CASE OpenConnection
  BY <1>6 DEF OpenConnection
<1>7. CASE Connect
  BY <1>7 DEF Connect
<1>8. CASE ConnectFails
  BY <1>8 DEF ConnectFails
<1>9. CASE SendConnect
  BY <1>9 DEF SendConnect
<1>10. CASE SendConnectFails
  BY <1>10 DEF SendConnectFails
<1>11. CASE ProxyChallenges
  BY <1>11 DEF ProxyChallenges
<1>12. CASE ProxyConnects
  BY <1>12 DEF ProxyConnects
<1>13. CASE ProxyRefuses
  BY <1>13 DEF ProxyRefuses
<1>14. CASE SocksConnects
  BY <1>14 DEF SocksConnects
<1>15. CASE SocksRefuses
  BY <1>15 DEF SocksRefuses
<1>16. CASE Handshake
  BY <1>16 DEF Handshake
<1>17. CASE HandshakeFails
  BY <1>17 DEF HandshakeFails
<1>18. CASE WriteRequest
  BY <1>18 DEF WriteRequest
<1>19. CASE WriteFails
  BY <1>19 DEF WriteFails
<1>20. CASE ReadFails
  BY <1>20 DEF ReadFails
<1>21. CASE ServerChallenges
  BY <1>21 DEF ServerChallenges
<1>22. CASE ServerRedirects
  BY <1>22 DEF ServerRedirects
<1>23. CASE ServerRefuses
  BY <1>23 DEF ServerRefuses
<1>24. CASE ServerAnswers
  BY <1>24 DEF ServerAnswers
<1>25. CASE UNCHANGED vars
  BY <1>25 DEF vars, place, channel
<1>26. CASE BodyCutShort
  BY <1>26 DEF BodyCutShort
<1> QED
  BY <1>1, <1>2, <1>3, <1>4, <1>5, <1>6, <1>7, <1>8, <1>9, <1>10, <1>11, <1>12, <1>13, <1>14,
     <1>15, <1>16, <1>17, <1>18, <1>19, <1>20, <1>21, <1>22, <1>23, <1>24, <1>25, <1>26
     DEF Next, Step, Open, Respond

\* Connected holds at the start.
LEMMA ConnectedInit == Init => Connected
BY DEF Init, Connected

\* The invariant of the proxy's side is inductive.
LEMMA ProxyStep == ProxyInv /\ [Next]_vars => ProxyInv'
<1> SUFFICES ASSUME ProxyInv, [Next]_vars PROVE ProxyInv'
  OBVIOUS
<1>0. proxy_auth \in [Method -> AuthState] /\ proxy_close_during_auth \in BOOLEAN
  BY DEF ProxyInv, ProxyTyped
<1>1. CASE Call
  BY <1>1, BetweenStep DEF Call, Out, Opening, proxyside, opening, proxystate
<1>2. CASE TooManyRedirects
  BY <1>2, BetweenStep DEF TooManyRedirects, Out, Opening, proxyside, opening, proxystate
<1>3. CASE BuildRequest
  BY <1>3, BetweenStep DEF BuildRequest, Out, Opening, proxyside, opening, proxystate
<1>4. CASE BuildAuthorized
  BY <1>4, BetweenStep DEF BuildAuthorized, Out, Opening, proxyside, opening, proxystate
<1>5. CASE UseConnection
  BY <1>5, BetweenStep DEF UseConnection, Out, Opening, proxyside, opening, proxystate
<1>6. CASE OpenConnection
  BY <1>6, BetweenStep DEF OpenConnection, Out, Opening, proxyside, opening, proxystate
<1>7. CASE Connect
  BY <1>7, ConnectStep
<1>8. CASE ConnectFails
  BY <1>0, <1>8, OpenedStep DEF ConnectFails, OpenFails, Out, Opening, proxystate
<1>9. CASE SendConnect
  <2>1. pc = "proxy" /\ UNCHANGED <<setup, proxyauth, rejected>>
    BY <1>9 DEF SendConnect
  <2>2. CASE ~ proxyauth /\ pc' = "proxy_read" /\ sent' = NotSent
             /\ UNCHANGED <<proxy_auth, proxy_close_during_auth>>
    BY <2>1, <2>2, SendPlainStep
  <2>3. CASE proxyauth /\ ~ (~ proxyauth /\ pc' = "proxy_read" /\ sent' = NotSent
             /\ UNCHANGED <<proxy_auth, proxy_close_during_auth>>)
    <3>1. PICK o \in gen_authorization_hdr(proxy_auth, Proxy) :
             \/ /\ o.ret = "OK"
                /\ pc' = "proxy_read"
                /\ sent' = [method |-> o.sent,
                            first |-> o.sent = "NTLM"
                              /\ proxy_auth["NTLM"].state \in {AUTH_AVAILABLE, NTLM_MANUAL},
                            last |-> CASE o.sent = "NTLM" -> proxy_auth["NTLM"].state
                                             \in {NTLM_SSO_REQ, NTLM_MANUAL_REQ}
                                       [] o.sent = "Negotiate" ->
                                            o.states["Negotiate"].state = GSSAPI_COMPLETE
                                       [] OTHER -> TRUE]
                /\ proxy_auth' = clear_auth_states(o.states, FALSE)
                /\ UNCHANGED proxy_close_during_auth
             \/ /\ o.ret = "EAGAIN"
                /\ pc' = "connect"
                /\ proxy_close_during_auth' = o.close
                /\ proxy_auth' = IF o.close THEN o.states
                                 ELSE clear_auth_states(o.states, TRUE)
                /\ UNCHANGED sent
      BY <1>9, <2>3 DEF SendConnect
    <3>2. CASE o.ret = "OK"
      BY <2>1, <2>3, <3>1, <3>2, SendHeaderStep DEF SentHeader
    <3>3. CASE o.ret # "OK"
      BY <2>1, <2>3, <3>1, <3>3, ReconnectStep
    <3> QED
      BY <3>2, <3>3
  <2> QED
    BY <1>9, <2>2, <2>3 DEF SendConnect
<1>10. CASE SendConnectFails
  <2>1. PICK o \in IF proxyauth THEN gen_authorization_hdr(proxy_auth, Proxy)
                  ELSE {[ret |-> "OK", states |-> proxy_auth]} : OpenFails(o.states)
    BY <1>10 DEF SendConnectFails
  <2>2. Proxy \in Credentials
    BY DEF Proxy, Credentials, ProxyInv, ProxyTyped
  <2>3. o.states \in [Method -> AuthState]
    BY <1>0, <2>1, <2>2, WalkTyped
  <2>4. setup' = setup /\ Opened(o.states) /\ pc' \notin Opening
        /\ proxy_close_during_auth' \in BOOLEAN
    BY <1>0, <1>10, <2>1 DEF SendConnectFails, OpenFails, Out, Opening
  <2> QED
    BY <2>3, <2>4, OpenedStep
<1>11. CASE ProxyChallenges
  BY <1>11, ChallengeStep
<1>12. CASE ProxyConnects
  BY <1>0, <1>12, TlsStep DEF ProxyConnects, opening
<1>13. CASE ProxyRefuses
  BY <1>0, <1>13, OpenedStep DEF ProxyRefuses, OpenFails, Out, Opening, proxystate
<1>14. CASE SocksConnects
  BY <1>0, <1>14, TlsStep DEF SocksConnects, opening
<1>15. CASE SocksRefuses
  BY <1>0, <1>15, OpenedStep DEF SocksRefuses, OpenFails, Out, Opening, proxystate
<1>16. CASE Handshake
  BY <1>0, <1>16, OpenedStep DEF Handshake, OpenFails, Out, Opening, proxystate
<1>17. CASE HandshakeFails
  BY <1>0, <1>17, OpenedStep DEF HandshakeFails, OpenFails, Out, Opening, proxystate
<1>18. CASE WriteRequest
  BY <1>18, BetweenStep DEF WriteRequest, Out, Opening, proxyside, opening, proxystate
<1>19. CASE WriteFails
  BY <1>19, BetweenStep DEF WriteFails, Out, Opening, proxyside, opening, proxystate
<1>20. CASE ReadFails
  BY <1>20, BetweenStep DEF ReadFails, Out, Opening, proxyside, opening, proxystate
<1>21. CASE ServerChallenges
  BY <1>21, BetweenStep DEF ServerChallenges, Out, Opening, proxyside, opening, proxystate
<1>22. CASE ServerRedirects
  BY <1>22, BetweenStep DEF ServerRedirects, Out, Opening, proxyside, opening, proxystate
<1>23. CASE ServerRefuses
  BY <1>23, BetweenStep DEF ServerRefuses, Out, Opening, proxyside, opening, proxystate
<1>24. CASE ServerAnswers
  BY <1>24, BetweenStep DEF ServerAnswers, Out, Opening, proxyside, opening, proxystate
<1>25. CASE UNCHANGED vars
  BY <1>25 DEF vars, opening, proxystate, ProxyInv, ProxyTyped, BetweenOpenings, Fresh, S,
     Offered, WithHeader, WithoutHeader, InOrder, Spent, Awaited, RejectedNotRepeated
<1>26. CASE BodyCutShort
  BY <1>26, BetweenStep DEF BodyCutShort, locals, Opening, proxyside, opening, proxystate
<1> QED
  BY <1>1, <1>2, <1>3, <1>4, <1>5, <1>6, <1>7, <1>8, <1>9, <1>10, <1>11, <1>12, <1>13, <1>14,
     <1>15, <1>16, <1>17, <1>18, <1>19, <1>20, <1>21, <1>22, <1>23, <1>24, <1>25, <1>26
     DEF Next, Step, Open, Respond

\* It holds at the start.
LEMMA ProxyInit == Init => ProxyInv
<1> SUFFICES ASSUME Init PROVE ProxyInv
  OBVIOUS
<1>1. PICK proxy \in {None, "http", "socks"}, password, bearer, basic \in BOOLEAN,
           wants \in SUBSET ProxyMethods, asks \in SUBSET ServerMethods :
        /\ proxy # "http" => wants = {} /\ ~ password /\ ~ basic
        /\ proxy = "http" => asks = {} /\ ~ bearer
        /\ setup = [proxy |-> proxy, password |-> password, bearer |-> bearer,
                    wants |-> wants, asks |-> asks]
        /\ http_auth = DefaultStates
        /\ proxy_auth = IF basic THEN set_authmethods(ProxyMethods) ELSE DefaultStates
  BY Zenon DEF Init
<1>2. proxy_auth \in [Method -> AuthState] /\ \A m \in Method : proxy_auth[m].state <= AUTH_UNSEEN
  <2>1. CASE basic
    BY <1>1, <2>1 DEF set_authmethods, AuthState
  <2>2. CASE ~ basic
    BY <1>1, <2>2 DEF DefaultStates, AuthState
  <2> QED
    BY <2>1, <2>2
<1>3. ProxyTyped
  BY <1>1, <1>2, HttpAssumption DEF Init, ProxyTyped, NotSent
<1>4. Fresh /\ rejected = {} /\ pc = "idle"
  BY <1>2 DEF Init, Fresh, S
<1> QED
  BY <1>3, <1>4 DEF ProxyInv, BetweenOpenings, Offered, WithHeader, WithoutHeader, InOrder,
     Spent, Awaited

-----------------------------------------------------------------------------
\* How far a request is from its end

\* What a method may still cost while a connection is opened: one that has failed
\* nothing, the others the messages they have left.  NTLM's last one is sent twice
\* if the first was a negotiation of its own.
Weight(m, a, begun) ==
  CASE a.state <= AUTH_FAILED -> 0
    [] a.state \in {AUTH_UNSEEN, AUTH_AVAILABLE} -> 6
    [] a.state > AUTH_AVAILABLE /\ m = "Negotiate" -> IF a.state = GSSAPI_CONTINUE THEN 5 ELSE 4
    [] a.state > AUTH_AVAILABLE /\ m = "NTLM" ->
         (CASE a.state = NTLM_SSO_REQ -> 5
            [] a.state = NTLM_MANUAL -> 4
            [] OTHER -> IF a.challenge = "token" \/ begun THEN 2 ELSE 1)
    [] OTHER -> IF a.state = AUTH_IN_PROGRESS THEN 1 ELSE 6

\* And whether it may be tried at all.
Alive(a) == IF a.state > AUTH_FAILED THEN 1 ELSE 0

Cost(m) == Weight(m, proxy_auth[m], pc = "proxy_read" /\ sent.first)
Left(m) == Alive(proxy_auth[m])

Costs == Cost("Negotiate") + Cost("NTLM") + Cost("Digest") + Cost("Basic") + Cost("Bearer")
Lefts == Left("Negotiate") + Left("NTLM") + Left("Digest") + Left("Basic") + Left("Bearer")

\* The places between two messages of a method.
Turn ==
  CASE pc = "proxy_read" -> 3
    [] pc = "connect" -> IF setup.proxy = "http" /\ proxy_close_during_auth THEN 2 ELSE 5
    [] pc = "proxy" -> IF setup.proxy = "http" /\ proxyauth THEN 1 ELSE 4
    [] OTHER -> 0

\* Trying a method anew on another connection costs one that has failed.
Proxying == IF pc \in {"connect", "proxy", "proxy_read"} THEN 186 * Lefts + 6 * Costs + Turn ELSE 0

\* The places of one attempt at the request.
Attempting ==
  CASE pc = "retry" -> IF conn = None THEN 5 ELSE 7
    [] pc = "write" -> IF rq_retry THEN 6 ELSE 2
    [] pc \in {"connect", "proxy", "proxy_read"} -> 4
    [] pc = "tls" -> 3
    [] pc = "read" -> 1
    [] OTHER -> 0

Outer == 8 * left + Attempting

Rank == IF pc = "idle" THEN 0 ELSE 1 + 1116 * Outer + Proxying

Longest == 1 + 8928 * MaxRedirects

\* The types that it takes, and that a connection is only made for an attempt that
\* has not been on an old one.
Counted ==
  /\ pc \in {"idle", "redirected", "retry", "connect", "proxy", "proxy_read", "tls",
             "write", "read", "spinning"}
  /\ left \in 0 .. MaxRedirects
  /\ pc \in Opening => ~ rq_retry

LEMMA WeightRange ==
  ASSUME NEW m \in Method, NEW a \in AuthState, NEW begun \in BOOLEAN
  PROVE  Weight(m, a, begun) \in 0 .. 6 /\ Alive(a) \in 0 .. 1
<1>1. a.state \in -3 .. 4
  BY DEF AuthState
<1>2. Alive(a) \in 0 .. 1
  BY DEF Alive
<1>3. CASE m = "Negotiate"
  BY <1>1, <1>2, <1>3 DEF Weight
<1>4. CASE m = "NTLM"
  BY <1>1, <1>2, <1>4 DEF Weight
<1>5. CASE m \notin {"Negotiate", "NTLM"}
  BY <1>1, <1>2, <1>5 DEF Weight
<1> QED
  BY <1>3, <1>4, <1>5

\* What the methods may cost in all.
CostsTyped ==
  /\ \A m \in Method : Cost(m) \in 0 .. 6 /\ Left(m) \in 0 .. 1
  /\ Costs \in 0 .. 30 /\ Lefts \in 0 .. 5

LEMMA CostsRange == ProxyTyped => CostsTyped
<1> SUFFICES ASSUME ProxyTyped PROVE CostsTyped
  OBVIOUS
<1>1. \A m \in Method : proxy_auth[m] \in AuthState
  BY DEF ProxyTyped
<1>2. (pc = "proxy_read" /\ sent.first) \in BOOLEAN
  BY Zenon
<1>3. \A m \in Method : Cost(m) \in 0 .. 6 /\ Left(m) \in 0 .. 1
  BY <1>1, <1>2, WeightRange, Zenon DEF Cost, Left
<1>4. \A m \in {"Negotiate", "NTLM", "Digest", "Basic", "Bearer"} :
        Cost(m) \in 0 .. 6 /\ Left(m) \in 0 .. 1
  BY <1>3 DEF Method
<1> HIDE DEF Cost, Left
<1> QED
  BY <1>3, <1>4 DEF Costs, Lefts, CostsTyped

LEMMA CostsRangeNext == ProxyTyped' => CostsTyped'
BY CostsRange, PTL

\* No method costs more than before; and one less.
LEMMA CostsDown ==
  ASSUME ProxyTyped, ProxyTyped',
         \A k \in Method : Cost(k)' <= Cost(k) /\ Left(k)' <= Left(k)
  PROVE  /\ Costs' <= Costs /\ Lefts' <= Lefts
         /\ (\E k \in Method : Cost(k)' < Cost(k)) => Costs' < Costs
<1>1. /\ \A k \in Method : Cost(k) \in 0 .. 6 /\ Left(k) \in 0 .. 1
      /\ \A k \in Method : Cost(k)' \in 0 .. 6 /\ Left(k)' \in 0 .. 1
  BY CostsRange, CostsRangeNext DEF CostsTyped
<1>2. \A k \in {"Negotiate", "NTLM", "Digest", "Basic", "Bearer"} :
        /\ Cost(k) \in Nat /\ Cost(k)' \in Nat /\ Cost(k)' <= Cost(k)
        /\ Left(k) \in Nat /\ Left(k)' \in Nat /\ Left(k)' <= Left(k)
  BY <1>1 DEF Method
<1>3. (\E k \in Method : Cost(k)' < Cost(k)) =>
        \E k \in {"Negotiate", "NTLM", "Digest", "Basic", "Bearer"} : Cost(k)' < Cost(k)
  BY DEF Method
<1>4. Lefts' <= Lefts
  BY <1>2 DEF Lefts
<1>5. Costs' <= Costs
  BY <1>2 DEF Costs
<1>6. (\E k \in Method : Cost(k)' < Cost(k)) => Costs' < Costs
  BY <1>2, <1>3 DEF Costs
<1> QED
  BY <1>4, <1>5, <1>6

\* A method that has failed is not tried again: the others may start anew.
LEMMA LeftsDown ==
  ASSUME ProxyTyped, ProxyTyped', \A k \in Method : Left(k)' <= Left(k),
         \E k \in Method : Left(k)' < Left(k)
  PROVE  Lefts' < Lefts
<1>1. /\ \A k \in Method : Left(k) \in 0 .. 1
      /\ \A k \in Method : Left(k)' \in 0 .. 1
  BY CostsRange, CostsRangeNext DEF CostsTyped
<1>2. \A k \in {"Negotiate", "NTLM", "Digest", "Basic", "Bearer"} :
        Left(k) \in Nat /\ Left(k)' \in Nat /\ Left(k)' <= Left(k)
  BY <1>1 DEF Method
<1>3. \E k \in {"Negotiate", "NTLM", "Digest", "Basic", "Bearer"} : Left(k)' < Left(k)
  BY DEF Method
<1> QED
  BY <1>2, <1>3 DEF Lefts

\* What a walk on the proxy's side leaves of m, at which it stopped, and of the others.
Spends(s, o, m) ==
  LET T(k) == o.states[k].state
  IN /\ s[m].state > AUTH_UNSEEN
     /\ \A k \in Method \ {m} : T(k) = s[k].state \/ T(k) = AUTH_FAILED
     /\ o.sent = IF o.ret = "OK" THEN m ELSE "none"
     /\ o.ret = "EAGAIN" /\ ~ o.close => T(m) = AUTH_FAILED
     /\ o.ret = "EAGAIN" /\ o.close =>
          m = "NTLM" /\ s[m].state = NTLM_SSO_REQ /\ T(m) = NTLM_MANUAL
     /\ o.ret = "OK" =>
          /\ m # "Bearer"
          /\ m = "Negotiate" =>
               \/ s[m].state = AUTH_AVAILABLE /\ T(m) \in {GSSAPI_CONTINUE, GSSAPI_COMPLETE}
               \/ s[m].state = GSSAPI_CONTINUE /\ T(m) = GSSAPI_COMPLETE
          /\ m = "NTLM" =>
               /\ T(m) \in {NTLM_SSO_REQ, NTLM_MANUAL, NTLM_MANUAL_REQ}
               /\ T(m) = NTLM_MANUAL => s[m].state = NTLM_SSO_REQ
               /\ T(m) = NTLM_SSO_REQ => s[m].state = AUTH_AVAILABLE
               /\ s[m].state = NTLM_MANUAL_REQ =>
                    s[m].challenge = "token" /\ T(m) = NTLM_MANUAL_REQ
          /\ m \in {"Digest", "Basic"} =>
               s[m].state # AUTH_IN_PROGRESS /\ T(m) = AUTH_IN_PROGRESS

LEMMA WalkSpends ==
  ASSUME NEW s \in [Method -> AuthState], NEW who \in Credentials, who.proxy,
         NEW o \in gen_authorization_hdr(s, who), Stops(o)
  PROVE  \E m \in Method : Spends(s, o, m)
<1>1. Walked(Method, s, o, who)
  BY WalkEnds
<1>2. PICK m \in Method : StoppedAt(m, s, o, who)
  BY <1>1 DEF Walked, Stops
<1>3. PICK a \in authorization(m, s[m], who) :
        /\ Stops(a) /\ o.ret = a.ret /\ o.close = a.close /\ o.states[m].state = a.state
        /\ o.sent = IF a.ret = "OK" THEN m ELSE "none"
  BY <1>2 DEF StoppedAt
<1>4. s[m].state > AUTH_UNSEEN /\ s[m] \in AuthState
  BY <1>2 DEF StoppedAt
<1>5. \A k \in Method \ {m} :
        o.states[k].state = s[k].state \/ o.states[k].state = AUTH_FAILED
  <2> TAKE k \in Method \ {m}
  <2>1. k \notin Earlier(m) => o.states[k] = s[k]
    BY <1>2 DEF StoppedAt
  <2>2. k \in Earlier(m) => Passed(s, o, k, who)
    BY <1>2 DEF StoppedAt
  <2>3. SUFFICES ASSUME NEW b \in authorization(k, s[k], who), ~ Stops(b),
                        s[k].state > AUTH_UNSEEN, o.states[k].state = b.state
                 PROVE  b.state = s[k].state \/ b.state = AUTH_FAILED
    BY <2>1, <2>2 DEF Passed
  <2>4. s[k] \in AuthState
    OBVIOUS
  <2>5. CASE k = "Negotiate"
    BY <2>3, <2>4, <2>5, NegotiateOutcomes DEF Stops
  <2>6. CASE k = "NTLM"
    BY <2>3, <2>4, <2>6, NtlmOutcomes
  <2>7. CASE k = "Digest"
    BY <2>3, <2>4, <2>7, DigestOutcomes
  <2>8. CASE k = "Basic"
    BY <2>3, <2>4, <2>8, BasicOutcomes
  <2>9. CASE k = "Bearer"
    BY <2>3, <2>4, <2>9, BearerOutcomes
  <2> QED
    BY <2>5, <2>6, <2>7, <2>8, <2>9 DEF Method
<1>6. CASE m = "Negotiate"
  <2>1. /\ a.close = FALSE
        /\ a.ret = "OK" =>
             \/ s[m].state = AUTH_AVAILABLE /\ a.state \in {GSSAPI_CONTINUE, GSSAPI_COMPLETE}
             \/ s[m].state = GSSAPI_CONTINUE /\ a.state = GSSAPI_COMPLETE
        /\ a.ret = "EAGAIN" => a.state = AUTH_FAILED
    BY <1>3, <1>4, <1>6, NegotiateOutcomes
  <2> QED
    BY <1>3, <1>4, <1>5, <1>6, <2>1 DEF Spends
<1>7. CASE m = "NTLM"
  BY <1>3, <1>4, <1>5, <1>7, NtlmOutcomes DEF Spends, Stops
<1>8. CASE m = "Digest"
  <2>1. /\ a.close = FALSE
        /\ a.ret = "OK" => s[m].state # AUTH_IN_PROGRESS /\ a.state = AUTH_IN_PROGRESS
        /\ a.ret = "EAGAIN" => a.state = AUTH_FAILED
    BY <1>3, <1>4, <1>8, DigestOutcomes
  <2> QED
    BY <1>3, <1>4, <1>5, <1>8, <2>1 DEF Spends
<1>9. CASE m = "Basic"
  <2>1. /\ a.close = FALSE
        /\ a.ret = "OK" => s[m].state # AUTH_IN_PROGRESS /\ a.state = AUTH_IN_PROGRESS
        /\ a.ret = "EAGAIN" => a.state = AUTH_FAILED
    <3>1. a \in authorization("Basic", s["Basic"], who) /\ s["Basic"] \in AuthState
      BY <1>4, <1>9
    <3> QED
      BY <1>9, <3>1, BasicOutcomes
  <2> QED
    BY <1>3, <1>4, <1>5, <1>9, <2>1 DEF Spends
<1>10. CASE m = "Bearer"
  BY <1>3, <1>4, <1>10, BearerOutcomes
<1> QED
  BY <1>6, <1>7, <1>8, <1>9, <1>10 DEF Method

\* A method that is not the one that is used costs no more.
LEMMA WeightKept ==
  ASSUME NEW m \in Method, NEW a \in AuthState, NEW b \in AuthState,
         NEW begun \in BOOLEAN, NEW after \in BOOLEAN,
         m = "NTLM" /\ b.state = NTLM_MANUAL_REQ =>
           (b.challenge = "token" \/ after => a.challenge = "token" \/ begun),
         \/ b.state = a.state \/ b.state = AUTH_FAILED
         \/ {a.state, b.state} \subseteq {AUTH_UNSEEN, AUTH_AVAILABLE}
  PROVE  Weight(m, b, after) <= Weight(m, a, begun) /\ Alive(b) <= Alive(a)
<1>1. a.state \in -3 .. 4 /\ b.state \in -3 .. 4
  BY DEF AuthState
<1>2. Alive(b) <= Alive(a)
  BY <1>1 DEF Alive
<1>3. CASE b.state = AUTH_FAILED
  BY <1>1, <1>2, <1>3, WeightRange DEF Weight
<1>4. CASE {a.state, b.state} \subseteq {AUTH_UNSEEN, AUTH_AVAILABLE}
  BY <1>1, <1>2, <1>4 DEF Weight
<1>5. CASE b.state = a.state
  <2>1. CASE m = "NTLM"
    BY <1>1, <1>2, <1>5, <2>1 DEF Weight
  <2>2. CASE m # "NTLM"
    BY <1>1, <1>2, <1>5, <2>2 DEF Weight
  <2> QED
    BY <2>1, <2>2
<1> QED
  BY <1>3, <1>4, <1>5

\* The one that is used costs less.
LEMMA WeightSpent ==
  ASSUME NEW m \in Method \ {"Bearer"}, NEW a \in AuthState, NEW b \in AuthState,
         NEW after \in BOOLEAN, a.state > AUTH_UNSEEN, b.challenge = "none",
         m = "Negotiate" =>
           \/ a.state = AUTH_AVAILABLE /\ b.state \in {GSSAPI_CONTINUE, GSSAPI_COMPLETE}
           \/ a.state = GSSAPI_CONTINUE /\ b.state = GSSAPI_COMPLETE,
         m = "NTLM" =>
           /\ b.state \in {NTLM_SSO_REQ, NTLM_MANUAL, NTLM_MANUAL_REQ}
           /\ b.state = NTLM_MANUAL => a.state = NTLM_SSO_REQ
           /\ b.state = NTLM_SSO_REQ => a.state = AUTH_AVAILABLE
           /\ a.state = NTLM_MANUAL_REQ => a.challenge = "token"
           /\ after => a.state \in {AUTH_AVAILABLE, NTLM_MANUAL},
         m \in {"Digest", "Basic"} =>
           a.state # AUTH_IN_PROGRESS /\ b.state = AUTH_IN_PROGRESS
  PROVE  Weight(m, b, after) < Weight(m, a, FALSE) /\ Alive(b) <= Alive(a)
<1>1. a.state \in 1 .. 4 /\ b.state \in -3 .. 4
  BY DEF AuthState
<1>2. Alive(b) <= Alive(a)
  BY <1>1 DEF Alive
<1>3. CASE m = "Negotiate"
  BY <1>1, <1>2, <1>3 DEF Weight
<1>4. CASE m = "NTLM"
  <2>1. b.state \in {NTLM_SSO_REQ, NTLM_MANUAL, NTLM_MANUAL_REQ} /\ a.state \in 1 .. 4
    BY <1>1, <1>4
  <2>2. CASE b.state = NTLM_SSO_REQ
    BY <1>2, <1>4, <2>2 DEF Weight
  <2>3. CASE b.state = NTLM_MANUAL
    BY <1>2, <1>4, <2>3 DEF Weight
  <2>4. CASE b.state = NTLM_MANUAL_REQ /\ a.state = NTLM_MANUAL_REQ
    BY <1>2, <1>4, <2>4 DEF Weight
  <2>5. CASE b.state = NTLM_MANUAL_REQ /\ a.state \in 1 .. 3
    <3> DEFINE x == Weight(m, b, after)
               y == Weight(m, a, FALSE)
    <3>1. x \in 0 .. 2
      BY <1>4, <2>5 DEF Weight
    <3>2. y \in 4 .. 6
      BY <1>4, <2>5 DEF Weight
    <3> HIDE DEF x, y
    <3>3. x < y
      BY <3>1, <3>2
    <3> QED
      BY <1>2, <3>3 DEF x, y
  <2>6. \/ b.state = NTLM_SSO_REQ \/ b.state = NTLM_MANUAL
        \/ b.state = NTLM_MANUAL_REQ /\ a.state = NTLM_MANUAL_REQ
        \/ b.state = NTLM_MANUAL_REQ /\ a.state \in 1 .. 3
    BY <2>1
  <2> QED
    BY <2>2, <2>3, <2>4, <2>5, <2>6, Zenon
<1>5. CASE m \in {"Digest", "Basic"}
  BY <1>1, <1>2, <1>5 DEF Weight
<1> QED
  BY <1>3, <1>4, <1>5 DEF Method

\* The states that clear_auth_states() leaves of an outcome.
LEMMA ClearedCosts ==
  ASSUME NEW s \in [Method -> AuthState]
  PROVE  LET c == clear_auth_states(s, FALSE)
         IN /\ c \in [Method -> AuthState]
            /\ \A k \in Method :
                 /\ c[k].challenge = "none"
                 /\ \/ c[k].state = s[k].state
                    \/ {s[k].state, c[k].state} \subseteq {AUTH_UNSEEN, AUTH_AVAILABLE}
                 /\ s[k].state # AUTH_AVAILABLE => c[k].state = s[k].state
<1> DEFINE c == clear_auth_states(s, FALSE)
<1>1. /\ c \in [Method -> AuthState]
      /\ \A k \in Method :
           /\ c[k].challenge = "none"
           /\ c[k].state = IF s[k].state > AUTH_FAILED /\ (FALSE \/ s[k].state = AUTH_AVAILABLE)
                           THEN AUTH_UNSEEN ELSE s[k].state
  BY ClearedStates
<1> HIDE DEF c
<1>2. \A k \in Method : s[k].state \in -3 .. 4
  BY DEF AuthState
<1> QED
  BY <1>1, <1>2 DEF c

\* A CONNECT with a header: its method costs less.
LEMMA HeaderCosts ==
  ASSUME ProxyTyped, ProxyTyped', pc = "proxy", pc' = "proxy_read",
         NEW o \in gen_authorization_hdr(proxy_auth, Proxy), o.ret = "OK", SentHeader(o),
         proxy_auth' = clear_auth_states(o.states, FALSE)
  PROVE  Costs' < Costs /\ Lefts' <= Lefts
<1>1. proxy_auth \in [Method -> AuthState] /\ Proxy \in Credentials /\ Proxy.proxy
  BY DEF ProxyTyped, Proxy, Credentials
<1>2. PICK m \in Method : Spends(proxy_auth, o, m)
  BY <1>1, WalkSpends DEF Stops
<1>3. o.states \in [Method -> AuthState]
  BY <1>1, WalkTyped
<1> DEFINE A(k) == proxy_auth[k]
           B(k) == proxy_auth'[k]
           T(k) == o.states[k].state
           after == sent'.first
<1>4. \A k \in Method :
        /\ A(k) \in AuthState /\ B(k) \in AuthState
        /\ B(k).challenge = "none"
        /\ B(k).state = T(k) \/ {T(k), B(k).state} \subseteq {AUTH_UNSEEN, AUTH_AVAILABLE}
        /\ T(k) # AUTH_AVAILABLE => B(k).state = T(k)
  BY <1>1, <1>3, ClearedCosts
<1>5. after = (m = "NTLM" /\ A("NTLM").state \in {AUTH_AVAILABLE, NTLM_MANUAL})
  <2>1. o.sent = m
    BY <1>2 DEF Spends
  <2> QED
    BY <2>1, Zenon DEF SentHeader
<1>6. after \in BOOLEAN
  BY <1>5, Zenon
<1>7. \A k \in Method : Cost(k) = Weight(k, A(k), FALSE) /\ Left(k) = Alive(A(k))
  <2>1. (pc = "proxy_read" /\ sent.first) = FALSE
    OBVIOUS
  <2> QED
    BY <2>1, Zenon DEF Cost, Left
<1>10. \A k \in Method : Cost(k)' = Weight(k, B(k), after) /\ Left(k)' = Alive(B(k))
  <2>1. (pc' = "proxy_read" /\ sent'.first) = after
    BY <1>6, Zenon
  <2> QED
    BY <2>1, Zenon DEF Cost, Left
<1> HIDE DEF A, B, T, after
<1>8. \A k \in Method \ {m} :
        Weight(k, B(k), after) <= Weight(k, A(k), FALSE) /\ Alive(B(k)) <= Alive(A(k))
  <2> TAKE k \in Method \ {m}
  <2>1. T(k) = A(k).state \/ T(k) = AUTH_FAILED
    BY <1>2 DEF Spends, A, T
  <2>2. \/ B(k).state = A(k).state \/ B(k).state = AUTH_FAILED
        \/ {A(k).state, B(k).state} \subseteq {AUTH_UNSEEN, AUTH_AVAILABLE}
    BY <1>4, <2>1
  <2>3. k = "NTLM" => ~ after
    BY <1>5
  <2>4. A(k) \in AuthState /\ B(k) \in AuthState /\ B(k).challenge = "none" /\ FALSE \in BOOLEAN
    BY <1>4
  <2> QED
    BY <1>6, <2>2, <2>3, <2>4, WeightKept
<1>9. Weight(m, B(m), after) < Weight(m, A(m), FALSE) /\ Alive(B(m)) <= Alive(A(m))
  <2>1. A(m).state > AUTH_UNSEEN /\ m # "Bearer"
    BY <1>2 DEF Spends, A
  <2>2. /\ m = "Negotiate" =>
             \/ A(m).state = AUTH_AVAILABLE /\ T(m) \in {GSSAPI_CONTINUE, GSSAPI_COMPLETE}
             \/ A(m).state = GSSAPI_CONTINUE /\ T(m) = GSSAPI_COMPLETE
        /\ m = "NTLM" =>
             /\ T(m) \in {NTLM_SSO_REQ, NTLM_MANUAL, NTLM_MANUAL_REQ}
             /\ T(m) = NTLM_MANUAL => A(m).state = NTLM_SSO_REQ
             /\ T(m) = NTLM_SSO_REQ => A(m).state = AUTH_AVAILABLE
             /\ A(m).state = NTLM_MANUAL_REQ =>
                  A(m).challenge = "token" /\ T(m) = NTLM_MANUAL_REQ
        /\ m \in {"Digest", "Basic"} =>
             A(m).state # AUTH_IN_PROGRESS /\ T(m) = AUTH_IN_PROGRESS
    BY <1>2 DEF Spends, A, T
  <2>3. T(m) # AUTH_AVAILABLE
    BY <2>1, <2>2 DEF Method
  <2>4. B(m).state = T(m) /\ B(m).challenge = "none" /\ A(m) \in AuthState /\ B(m) \in AuthState
    BY <1>4, <2>3
  <2>5. m = "NTLM" /\ after => A(m).state \in {AUTH_AVAILABLE, NTLM_MANUAL}
    BY <1>5
  <2> QED
    BY <1>6, <2>1, <2>2, <2>4, <2>5, WeightSpent
<1>11. \A k \in Method : Cost(k)' <= Cost(k) /\ Left(k)' <= Left(k)
  <2> TAKE k \in Method
  <2> DEFINE x == Weight(k, B(k), after)
             y == Weight(k, A(k), FALSE)
  <2>1. x \in Int /\ y \in Int
    <3>1. FALSE \in BOOLEAN /\ A(k) \in AuthState /\ B(k) \in AuthState
      BY <1>4
    <3>2. x \in 0 .. 6
      BY <1>6, <3>1, WeightRange
    <3>3. y \in 0 .. 6
      BY <3>1, WeightRange
    <3> HIDE DEF x, y
    <3> QED
      BY <3>2, <3>3
  <2>2. Cost(k)' = Weight(k, B(k), after) /\ Left(k)' = Alive(B(k))
    BY <1>10
  <2>3. Cost(k) = Weight(k, A(k), FALSE) /\ Left(k) = Alive(A(k))
    BY <1>7
  <2>4. /\ Weight(k, B(k), after) <= Weight(k, A(k), FALSE)
        /\ Alive(B(k)) <= Alive(A(k))
    <3>1. CASE k = m
      <4>1. x < y /\ Alive(B(k)) <= Alive(A(k))
        BY <1>9, <3>1, Zenon
      <4>2. x \in Int /\ y \in Int
        BY <2>1
      <4> HIDE DEF x, y
      <4>3. x <= y
        BY <4>1, <4>2
      <4> QED
        BY <4>1, <4>3 DEF x, y
    <3>2. CASE k # m
      BY <1>8, <3>2, Zenon
    <3> QED
      BY <3>1, <3>2
  <2> QED
    BY <2>2, <2>3, <2>4, Zenon
<1>12. Cost(m)' < Cost(m)
  BY <1>7, <1>9, <1>10, Zenon
<1> QED
  BY <1>11, <1>12, CostsDown, Zenon

\* A walk after which another connection is made: a method has failed, or NTLM goes
\* on by hand.
LEMMA ReconnectCosts ==
  ASSUME ProxyTyped, ProxyTyped', pc = "proxy", pc' = "connect",
         NEW o \in gen_authorization_hdr(proxy_auth, Proxy), o.ret = "EAGAIN",
         o.close \in BOOLEAN,
         proxy_auth' = IF o.close THEN o.states ELSE clear_auth_states(o.states, TRUE)
  PROVE  IF o.close THEN Costs' < Costs /\ Lefts' <= Lefts ELSE Lefts' < Lefts
<1>1. proxy_auth \in [Method -> AuthState] /\ Proxy \in Credentials /\ Proxy.proxy
  BY DEF ProxyTyped, Proxy, Credentials
<1>2. PICK m \in Method : Spends(proxy_auth, o, m)
  BY <1>1, WalkSpends DEF Stops
<1>3. o.states \in [Method -> AuthState]
  BY <1>1, WalkTyped
<1> DEFINE A(k) == proxy_auth[k]
           B(k) == proxy_auth'[k]
           T(k) == o.states[k].state
<1>4. \A k \in Method : A(k) \in AuthState /\ B(k) \in AuthState
  BY <1>1 DEF ProxyTyped
<1>5. \A k \in Method : Left(k) = Alive(A(k)) /\ Left(k)' = Alive(B(k))
  BY DEF Left
<1>6. \A k \in Method : A(k).state \in -3 .. 4 /\ B(k).state \in -3 .. 4 /\ T(k) \in -3 .. 4
  BY <1>3, <1>4 DEF AuthState
<1>9. \A k \in Method : Cost(k) = Weight(k, A(k), FALSE) /\ Cost(k)' = Weight(k, B(k), FALSE)
  <2>1. (pc = "proxy_read" /\ sent.first) = FALSE /\ (pc' = "proxy_read" /\ sent'.first) = FALSE
    OBVIOUS
  <2> QED
    BY <2>1, Zenon DEF Cost
<1>10. proxy_auth' = IF o.close THEN o.states ELSE clear_auth_states(o.states, TRUE)
  OBVIOUS
<1> HIDE DEF A, B, T
<1>7. CASE o.close
  <2>1. B(m).state = NTLM_MANUAL /\ A(m).state = NTLM_SSO_REQ /\ m = "NTLM"
        /\ \A k \in Method \ {m} : B(k).state = A(k).state \/ B(k).state = AUTH_FAILED
    BY <1>2, <1>7, <1>10 DEF Spends, A, B
  <2>3. Cost(m) = 5 /\ Cost(m)' = 4 /\ Left(m)' <= Left(m)
    <3>1. Weight(m, A(m), FALSE) = 5 /\ Weight(m, B(m), FALSE) = 4
      BY <2>1 DEF Weight
    <3>2. Alive(A(m)) = 1 /\ Alive(B(m)) = 1
      BY <2>1 DEF Alive
    <3>3. Cost(m) = 5 /\ Cost(m)' = 4
      BY <1>9, <3>1, Zenon
    <3>4. Left(m) = 1 /\ Left(m)' = 1
      BY <1>5, <3>2, Zenon
    <3> QED
      BY <3>3, <3>4
  <2>4. \A k \in Method \ {m} : Cost(k)' <= Cost(k) /\ Left(k)' <= Left(k)
    <3> TAKE k \in Method \ {m}
    <3>1. /\ k # "NTLM" /\ FALSE \in BOOLEAN /\ A(k) \in AuthState /\ B(k) \in AuthState
          /\ B(k).state = A(k).state \/ B(k).state = AUTH_FAILED
      BY <1>4, <2>1
    <3>2. Weight(k, B(k), FALSE) <= Weight(k, A(k), FALSE) /\ Alive(B(k)) <= Alive(A(k))
      BY <3>1, WeightKept
    <3> QED
      BY <1>5, <1>9, <3>2, Zenon
  <2>5. \A k \in Method : Cost(k)' <= Cost(k) /\ Left(k)' <= Left(k)
    BY <2>3, <2>4
  <2>6. Cost(m)' < Cost(m)
    BY <2>3
  <2>7. Costs' < Costs /\ Lefts' <= Lefts
    BY <2>5, <2>6, CostsDown, Zenon
  <2> QED
    BY <1>7, <2>7, Zenon
<1>8. CASE ~ o.close
  <2>1. T(m) = AUTH_FAILED /\ A(m).state > AUTH_UNSEEN
        /\ \A k \in Method \ {m} : T(k) = A(k).state \/ T(k) = AUTH_FAILED
    BY <1>2, <1>8 DEF Spends, A, T
  <2>2. \A k \in Method : B(k).state = IF T(k) > AUTH_FAILED THEN AUTH_UNSEEN ELSE T(k)
    <3> DEFINE c == clear_auth_states(o.states, TRUE)
    <3>1. \A k \in Method :
            c[k].state = IF T(k) > AUTH_FAILED THEN AUTH_UNSEEN ELSE T(k)
      BY <1>3, ClearedStates DEF T
    <3>2. proxy_auth' = c
      BY <1>8, <1>10
    <3> HIDE DEF c
    <3> QED
      BY <3>1, <3>2 DEF B
  <2>3. \A k \in Method : B(k).state > AUTH_FAILED => A(k).state > AUTH_FAILED
    BY <1>6, <2>1, <2>2
  <2>4. ~ (B(m).state > AUTH_FAILED) /\ A(m).state > AUTH_FAILED
    BY <1>6, <2>1, <2>2
  <2>5. \A k \in Method : Left(k)' <= Left(k)
    <3> TAKE k \in Method
    <3>1. Alive(B(k)) <= Alive(A(k))
      BY <2>3 DEF Alive
    <3> QED
      BY <1>5, <3>1
  <2>6. Left(m)' < Left(m)
    <3>1. Alive(B(m)) = 0 /\ Alive(A(m)) = 1
      BY <2>4 DEF Alive
    <3> QED
      BY <1>5, <3>1
  <2>7. Lefts' < Lefts
    BY <2>5, <2>6, LeftsDown, Zenon
  <2> QED
    BY <1>8, <2>7, Zenon
<1> QED
  BY <1>7, <1>8

\* A challenge gives the methods no more than they had.
LEMMA ChallengeCosts ==
  ASSUME ProxyTyped, ProxyTyped', ProxyChallenges
  PROVE  Costs' <= Costs /\ Lefts' <= Lefts
<1>1. pc = "proxy_read" /\ pc' # "proxy_read"
  BY DEF ProxyChallenges
<1>2. PICK token \in BOOLEAN :
        proxy_auth' = handle_auth_proto(proxy_auth,
          [m \in setup.wants |->
             IF m = "Digest" \/ (m = "Negotiate" /\ token) \/ (m = "NTLM" /\ sent.first)
             THEN "token" ELSE "none"])
  BY DEF ProxyChallenges
<1> DEFINE A(k) == proxy_auth[k]
           B(k) == proxy_auth'[k]
           begun == sent.first
<1>3. /\ \A k \in Method : A(k) \in AuthState /\ B(k) \in AuthState
      /\ begun \in BOOLEAN
  BY DEF ProxyTyped
<1>4. \A k \in Method : A(k).state \in -3 .. 4
  BY <1>3 DEF AuthState
<1>5. \A k \in Method :
        /\ \/ B(k).state = A(k).state
           \/ {A(k).state, B(k).state} \subseteq {AUTH_UNSEEN, AUTH_AVAILABLE}
        /\ k = "NTLM" /\ B(k).challenge = "token" => A(k).challenge = "token" \/ begun
  <2> TAKE k \in Method
  <2>1. CASE k \notin setup.wants \/ A(k).state <= AUTH_FAILED
    <3>1. B(k) = A(k)
      BY <1>2, <2>1 DEF handle_auth_proto
    <3> QED
      BY <3>1
  <2>2. CASE k \in setup.wants /\ A(k).state > AUTH_FAILED
    <3>1. B(k) = [state |-> IF A(k).state = AUTH_UNSEEN THEN AUTH_AVAILABLE ELSE A(k).state,
                  challenge |->
                    IF k = "Digest" \/ (k = "Negotiate" /\ token) \/ (k = "NTLM" /\ begun)
                    THEN "token" ELSE "none"]
      BY <1>2, <1>4, <2>2 DEF handle_auth_proto
    <3> QED
      BY <3>1
  <2> QED
    BY <1>4, <2>1, <2>2
<1>6. \A k \in Method : Cost(k) = Weight(k, A(k), begun) /\ Cost(k)' = Weight(k, B(k), FALSE)
  <2>1. (pc = "proxy_read" /\ sent.first) = begun
    BY <1>1, <1>3, Zenon
  <2>2. (pc' = "proxy_read" /\ sent'.first) = FALSE
    BY <1>1, Zenon
  <2> QED
    BY <2>1, <2>2, Zenon DEF Cost
<1>7. \A k \in Method : Left(k) = Alive(A(k)) /\ Left(k)' = Alive(B(k))
  BY DEF Left
<1> HIDE DEF A, B, begun
<1>8. \A k \in Method : Cost(k)' <= Cost(k) /\ Left(k)' <= Left(k)
  <2> TAKE k \in Method
  <2>1. FALSE \in BOOLEAN
    OBVIOUS
  <2>2. Weight(k, B(k), FALSE) <= Weight(k, A(k), begun) /\ Alive(B(k)) <= Alive(A(k))
    BY <1>3, <1>5, <2>1, WeightKept
  <2> QED
    BY <1>6, <1>7, <2>2, Zenon
<1> QED
  BY <1>8, CostsDown

-----------------------------------------------------------------------------
\* The rank

\* A change of the places of the request outweighs all that a connection can cost;
\* and the end outweighs everything.
RankBounds ==
  /\ Outer \in Nat /\ Proxying \in 0 .. 1115 /\ Rank \in Nat
  /\ pc # "idle" => Rank = 1 + 1116 * Outer + Proxying

LEMMA RankTyped == ProxyTyped /\ Counted => RankBounds
<1> SUFFICES ASSUME ProxyTyped, Counted PROVE RankBounds
  OBVIOUS
<1>1. Costs \in 0 .. 30 /\ Lefts \in 0 .. 5
  BY CostsRange DEF CostsTyped
<1>2. Turn \in 0 .. 5
  BY DEF Turn
<1>3. Attempting \in 0 .. 7
  BY DEF Attempting
<1> HIDE DEF Costs, Lefts, Turn, Attempting
<1>4. Proxying \in 0 .. 1115
  BY <1>1, <1>2 DEF Proxying
<1>5. left \in Nat
  BY HttpAssumption DEF Counted
<1>6. Outer \in Nat
  BY <1>3, <1>5 DEF Outer
<1> HIDE DEF Proxying, Outer
<1>7. Rank \in Nat
  BY <1>4, <1>6 DEF Rank
<1>8. pc # "idle" => Rank = 1 + 1116 * Outer + Proxying
  BY Zenon DEF Rank
<1> QED
  BY <1>4, <1>6, <1>7, <1>8 DEF RankBounds

LEMMA RankTypedNext == (ProxyTyped /\ Counted)' => RankBounds'
BY RankTyped, PTL

\* The request is at its end.
LEMMA Ends ==
  ASSUME ProxyTyped, Counted, pc # "idle", pc' = "idle"
  PROVE  Rank' < Rank
<1>1. Rank' = 0
  BY DEF Rank
<1>2. Outer \in Nat /\ Proxying \in 0 .. 1115 /\ Rank = 1 + 1116 * Outer + Proxying
  BY RankTyped, Zenon DEF RankBounds
<1> QED
  BY <1>1, <1>2

\* The request has come nearer to it, whatever the proxy's side costs.
LEMMA Advances ==
  ASSUME ProxyTyped, Counted, ProxyTyped', Counted', pc # "idle", pc' # "idle", Outer' < Outer
  PROVE  Rank' < Rank
<1> DEFINE a == Outer
           b == Outer'
           p == Proxying
           q == Proxying'
           r == Rank
           s == Rank'
<1>1. a \in Nat /\ p \in 0 .. 1115 /\ r = 1 + 1116 * a + p
  BY RankTyped, Zenon DEF RankBounds
<1>2. b \in Nat /\ q \in 0 .. 1115 /\ s = 1 + 1116 * b + q
  BY RankTypedNext, Zenon DEF RankBounds
<1>3. b < a
  OBVIOUS
<1> HIDE DEF a, b, p, q, r, s
<1>4. s < r
  BY <1>1, <1>2, <1>3
<1> QED
  BY <1>4 DEF r, s

\* Or the connection has.
LEMMA ProxyAdvances ==
  ASSUME ProxyTyped, Counted, ProxyTyped', Counted', left' = left,
         pc \in {"connect", "proxy", "proxy_read"}, pc' \in {"connect", "proxy", "proxy_read"},
         186 * Lefts' + 6 * Costs' + Turn' < 186 * Lefts + 6 * Costs + Turn
  PROVE  Rank' < Rank
<1> DEFINE a == Outer
           p == Proxying
           q == Proxying'
           r == Rank
           s == Rank'
<1>0. pc # "idle" /\ pc' # "idle"
  OBVIOUS
<1>1. a \in Nat /\ p \in 0 .. 1115 /\ r = 1 + 1116 * a + p
  BY <1>0, RankTyped, Zenon DEF RankBounds
<1>2. Outer' = a
  BY DEF Outer, Attempting
<1>3. q \in 0 .. 1115 /\ s = 1 + 1116 * a + q
  <2>1. q \in 0 .. 1115 /\ s = 1 + 1116 * Outer' + q
    BY <1>0, RankTypedNext, Zenon DEF RankBounds
  <2> QED
    BY <1>2, <2>1, Zenon
<1>4. q < p
  BY Zenon DEF Proxying
<1> HIDE DEF a, p, q, r, s
<1>5. s < r
  BY <1>1, <1>3, <1>4
<1> QED
  BY <1>5 DEF r, s

-----------------------------------------------------------------------------
\* Counted is inductive.

LEMMA CountedInit == Init => Counted
BY HttpAssumption DEF Init, Counted, Opening

\* The end of a request.
LEMMA CountedOut ==
  ASSUME Counted, NEW states, NEW ret, Out(states, ret)
  PROVE  Counted'
BY HttpAssumption DEF Counted, Out, Opening

LEMMA CountedStep == Counted /\ [Next]_vars => Counted'
<1> SUFFICES ASSUME Counted, [Next]_vars PROVE Counted'
  OBVIOUS
<1>0. MaxRedirects \in Nat /\ left \in 0 .. MaxRedirects
  BY HttpAssumption DEF Counted
<1>1. CASE Call
  BY <1>0, <1>1 DEF Call, Counted, Opening
<1>2. CASE TooManyRedirects
  BY <1>2, CountedOut DEF TooManyRedirects
<1>3. CASE BuildRequest
  BY <1>0, <1>3 DEF BuildRequest, Counted, Opening
<1>4. CASE BuildAuthorized
  <2>1. CASE \E o \in gen_authorization_hdr(http_auth, Server) : Out(o.states, o.ret)
    BY <2>1, CountedOut
  <2>2. CASE left > 0 /\ left' = left - 1 /\ pc' = "retry"
    BY <1>0, <2>2 DEF Counted, Opening
  <2> QED
    BY <1>4, <2>1, <2>2 DEF BuildAuthorized
<1>5. CASE UseConnection
  BY <1>5 DEF UseConnection, Counted, Opening
<1>6. CASE OpenConnection
  BY <1>6 DEF OpenConnection, Counted, Opening
<1>7. CASE Connect
  BY <1>7 DEF Connect, Counted, Opening, locals
<1>8. CASE ConnectFails
  BY <1>8, CountedOut DEF ConnectFails, OpenFails
<1>9. CASE SendConnect
  BY <1>9 DEF SendConnect, Counted, Opening, locals
<1>10. CASE SendConnectFails
  BY <1>10, CountedOut DEF SendConnectFails, OpenFails
<1>11. CASE ProxyChallenges
  BY <1>11 DEF ProxyChallenges, Counted, Opening, locals
<1>12. CASE ProxyConnects
  BY <1>12 DEF ProxyConnects, Counted, Opening, locals
<1>13. CASE ProxyRefuses
  BY <1>13, CountedOut DEF ProxyRefuses, OpenFails
<1>14. CASE SocksConnects
  BY <1>14 DEF SocksConnects, Counted, Opening, locals
<1>15. CASE SocksRefuses
  BY <1>15, CountedOut DEF SocksRefuses, OpenFails
<1>16. CASE Handshake
  BY <1>16 DEF Handshake, Counted, Opening, locals
<1>17. CASE HandshakeFails
  BY <1>17, CountedOut DEF HandshakeFails, OpenFails
<1>18. CASE WriteRequest
  BY <1>18 DEF WriteRequest, Counted, Opening, locals
<1>19. CASE WriteFails
  <2>1. CASE rq_retry
    BY <1>19, <2>1 DEF WriteFails, Counted, Opening, locals
  <2>2. CASE ~ rq_retry
    BY <1>19, <2>2, CountedOut DEF WriteFails
  <2> QED
    BY <2>1, <2>2
<1>20. CASE ReadFails
  <2>1. CASE rq_retry
    BY <1>20, <2>1 DEF ReadFails, Counted, Opening, locals
  <2>2. CASE ~ rq_retry
    BY <1>20, <2>2, CountedOut DEF ReadFails
  <2> QED
    BY <2>1, <2>2
<1>21. CASE ServerChallenges
  BY <1>21 DEF ServerChallenges, Counted, Opening
<1>22. CASE ServerRedirects
  <2>1. CASE \E ret \in {"EINVAL", "redirected"} : Out(http_auth, ret)
    BY <2>1, CountedOut
  <2>2. CASE pc' = "redirected" /\ UNCHANGED locals
    BY <2>2 DEF Counted, Opening, locals
  <2> QED
    BY <1>22, <2>1, <2>2 DEF ServerRedirects
<1>23. CASE ServerRefuses
  BY <1>23, CountedOut DEF ServerRefuses
<1>24. CASE ServerAnswers
  BY <1>24, CountedOut DEF ServerAnswers
<1>25. CASE UNCHANGED vars
  BY <1>25 DEF vars, locals, Counted
<1>26. CASE BodyCutShort
  BY <1>26 DEF BodyCutShort, locals, Counted, Opening
<1> QED
  BY <1>1, <1>2, <1>3, <1>4, <1>5, <1>6, <1>7, <1>8, <1>9, <1>10, <1>11, <1>12, <1>13, <1>14,
     <1>15, <1>16, <1>17, <1>18, <1>19, <1>20, <1>21, <1>22, <1>23, <1>24, <1>25, <1>26
     DEF Next, Step, Open, Respond

-----------------------------------------------------------------------------
\* Every step brings the end nearer.

\* The end of a connection that could not be opened.
LEMMA OpenEnds ==
  ASSUME ProxyTyped, Counted, pc # "idle", NEW states, OpenFails(states)
  PROVE  Rank' < Rank
BY Ends DEF OpenFails, Out

\* Nothing that the methods may cost has changed.
LEMMA SameCosts ==
  ASSUME ProxyTyped, ProxyTyped', UNCHANGED proxy_auth,
         pc # "proxy_read", pc' = "proxy_read" => ~ sent'.first
  PROVE  Costs' <= Costs /\ Lefts' <= Lefts
<1>1. (pc = "proxy_read" /\ sent.first) = FALSE /\ (pc' = "proxy_read" /\ sent'.first) = FALSE
  BY Zenon
<1>2. Left("Negotiate")' = Left("Negotiate") /\ Left("NTLM")' = Left("NTLM")
      /\ Left("Digest")' = Left("Digest") /\ Left("Basic")' = Left("Basic")
      /\ Left("Bearer")' = Left("Bearer")
  BY Zenon DEF Left
<1>3. Cost("Negotiate")' = Cost("Negotiate") /\ Cost("NTLM")' = Cost("NTLM")
      /\ Cost("Digest")' = Cost("Digest") /\ Cost("Basic")' = Cost("Basic")
      /\ Cost("Bearer")' = Cost("Bearer")
  BY <1>1, Zenon DEF Cost
<1>4. Costs' = Costs
  BY <1>3, Zenon DEF Costs
<1>5. Lefts' = Lefts
  BY <1>2, Zenon DEF Lefts
<1> QED
  BY <1>4, <1>5, CostsRange DEF CostsTyped

\* What brings the opening of a connection forward: a method that has failed, a message
\* of one, or another place.
LEMMA CostsAdvance ==
  ASSUME ProxyTyped, Counted, ProxyTyped', Counted', left' = left,
         pc \in {"connect", "proxy", "proxy_read"}, pc' \in {"connect", "proxy", "proxy_read"},
         \/ Lefts' < Lefts
         \/ Lefts' <= Lefts /\ Costs' < Costs
         \/ Lefts' <= Lefts /\ Costs' <= Costs /\ Turn' < Turn
  PROVE  Rank' < Rank
<1> DEFINE c == Costs
           d == Costs'
           k == Lefts
           l == Lefts'
           t == Turn
           u == Turn'
<1>1. c \in 0 .. 30 /\ k \in 0 .. 5 /\ d \in 0 .. 30 /\ l \in 0 .. 5
  BY CostsRange, CostsRangeNext DEF CostsTyped
<1>2. t \in 0 .. 5 /\ u \in 0 .. 5
  BY DEF Turn
<1>3. l < k \/ (l <= k /\ d < c) \/ (l <= k /\ d <= c /\ u < t)
  BY Zenon
<1> HIDE DEF c, d, k, l, t, u
<1>4. 186 * l + 6 * d + u < 186 * k + 6 * c + t
  BY <1>1, <1>2, <1>3
<1>5. 186 * Lefts' + 6 * Costs' + Turn' < 186 * Lefts + 6 * Costs + Turn
  BY <1>4, Zenon DEF c, d, k, l, t, u
<1> QED
  BY <1>5, ProxyAdvances

\* SendConnect spends something, whichever way it goes on.
LEMMA SendAdvances ==
  ASSUME ProxyTyped, Counted, ProxyTyped', Counted', SendConnect
  PROVE  Rank' < Rank
<1>1. pc = "proxy" /\ setup.proxy = "http" /\ setup' = setup /\ left' = left
      /\ proxyauth' = proxyauth
  BY DEF SendConnect, locals
<1>2. CASE ~ proxyauth /\ pc' = "proxy_read" /\ sent' = NotSent
           /\ UNCHANGED <<proxy_auth, proxy_close_during_auth>>
  <2>1. Costs' <= Costs /\ Lefts' <= Lefts
    BY <1>1, <1>2, SameCosts DEF NotSent
  <2>2. Turn' = 3 /\ Turn = 4
    BY <1>1, <1>2 DEF Turn
  <2>3. Turn' < Turn
    BY <2>2
  <2> QED
    BY <1>1, <1>2, <2>1, <2>3, CostsAdvance
<1>3. CASE proxyauth /\ \E o \in gen_authorization_hdr(proxy_auth, Proxy) :
             \/ /\ o.ret = "OK" /\ pc' = "proxy_read" /\ SentHeader(o)
                /\ proxy_auth' = clear_auth_states(o.states, FALSE)
             \/ /\ o.ret = "EAGAIN" /\ pc' = "connect"
                /\ proxy_close_during_auth' = o.close
                /\ proxy_auth' = IF o.close THEN o.states ELSE clear_auth_states(o.states, TRUE)
  <2>1. PICK o \in gen_authorization_hdr(proxy_auth, Proxy) :
             \/ /\ o.ret = "OK" /\ pc' = "proxy_read" /\ SentHeader(o)
                /\ proxy_auth' = clear_auth_states(o.states, FALSE)
             \/ /\ o.ret = "EAGAIN" /\ pc' = "connect"
                /\ proxy_close_during_auth' = o.close
                /\ proxy_auth' = IF o.close THEN o.states ELSE clear_auth_states(o.states, TRUE)
    BY <1>3
  <2>2. CASE o.ret = "OK"
    <3>1. pc' = "proxy_read"
      BY <2>1, <2>2
    <3>2. Costs' < Costs /\ Lefts' <= Lefts
      BY <1>1, <2>1, <2>2, HeaderCosts
    <3> QED
      BY <1>1, <3>1, <3>2, CostsAdvance
  <2>3. CASE o.ret = "EAGAIN"
    <3>1. pc' = "connect" /\ o.close \in BOOLEAN
      BY <2>1, <2>3 DEF ProxyTyped
    <3>2. IF o.close THEN Costs' < Costs /\ Lefts' <= Lefts ELSE Lefts' < Lefts
      BY <1>1, <2>1, <2>3, <3>1, ReconnectCosts
    <3> QED
      BY <1>1, <3>1, <3>2, CostsAdvance
  <2> QED
    BY <2>1, <2>2, <2>3
<1> QED
  BY <1>2, <1>3 DEF SendConnect, SentHeader

\* A challenge of the proxy takes the opening back to one of two places, which are
\* nearer to its end than they were before the proxy asked for anything.
LEMMA ChallengeAdvances ==
  ASSUME ProxyTyped, Counted, ProxyTyped', Counted', ProxyChallenges
  PROVE  Rank' < Rank
<1>1. Costs' <= Costs /\ Lefts' <= Lefts
  BY ChallengeCosts
<1>2. pc = "proxy_read" /\ setup.proxy = "http" /\ setup' = setup /\ left' = left
  BY DEF ProxyChallenges, ProxyTyped, locals
<1>3. \/ pc' = "connect" /\ proxy_close_during_auth'
      \/ pc' = "proxy" /\ proxyauth' = TRUE
  BY DEF ProxyChallenges
<1>4. Turn = 3 /\ Turn' \in {1, 2}
  BY <1>2, <1>3 DEF Turn
<1>5. Turn' < Turn
  BY <1>4
<1> QED
  BY <1>1, <1>2, <1>3, <1>5, CostsAdvance

LEMMA RankStep ==
  ASSUME ProxyTyped, Counted, ProxyTyped', Counted', Step
  PROVE  Rank' < Rank
<1>0. left \in Nat /\ left' \in Nat
  BY HttpAssumption DEF Counted
<1>1. CASE TooManyRedirects
  BY <1>1, Ends DEF TooManyRedirects, Out
<1>2. CASE BuildRequest
  <2>1. pc = "redirected" /\ pc' = "retry" /\ left' = left - 1
    BY <1>2 DEF BuildRequest
  <2>2. Outer' < Outer
    BY <1>0, <2>1 DEF Outer, Attempting
  <2> QED
    BY <2>1, <2>2, Advances
<1>3. CASE BuildAuthorized
  <2>1. CASE pc' = "idle"
    BY <1>3, <2>1, Ends DEF BuildAuthorized
  <2>2. CASE pc' # "idle"
    <3>1. pc = "redirected" /\ pc' = "retry" /\ left' = left - 1
      BY <1>3, <2>2 DEF BuildAuthorized, Out
    <3>2. Outer' < Outer
      BY <1>0, <3>1 DEF Outer, Attempting
    <3> QED
      BY <3>1, <3>2, Advances
  <2> QED
    BY <2>1, <2>2
<1>4. CASE UseConnection
  <2>1. pc = "retry" /\ conn # None /\ pc' = "write" /\ rq_retry' /\ left' = left
    BY <1>4 DEF UseConnection
  <2>2. Outer' < Outer
    BY <1>0, <2>1 DEF Outer, Attempting
  <2> QED
    BY <2>1, <2>2, Advances
<1>5. CASE OpenConnection
  <2>1. pc = "retry" /\ pc' = "connect" /\ left' = left
    BY <1>5 DEF OpenConnection
  <2>2. Outer' < Outer
    BY <1>0, <2>1 DEF Outer, Attempting
  <2> QED
    BY <2>1, <2>2, Advances
<1>6. CASE Connect
  <2>1. pc = "connect" /\ left' = left /\ setup' = setup /\ proxy_auth' = proxy_auth
    BY <1>6 DEF Connect, locals
  <2>2. CASE setup.proxy = None
    <3>1. pc' = "tls"
      BY <1>6, <2>2 DEF Connect
    <3>2. Outer' < Outer
      BY <1>0, <2>1, <3>1 DEF Outer, Attempting
    <3> QED
      BY <2>1, <3>1, <3>2, Advances
  <2>3. CASE setup.proxy # None
    <3>1. pc' = "proxy"
      BY <1>6, <2>3 DEF Connect
    <3>2. Costs' <= Costs /\ Lefts' <= Lefts
      BY <2>1, <3>1, SameCosts
    <3>3. CASE setup.proxy = "http"
      <4>1. proxyauth' = proxy_close_during_auth
        BY <1>6, <3>3 DEF Connect
      <4>2. Turn' < Turn
        BY <2>1, <3>1, <3>3, <4>1 DEF Turn
      <4> QED
        BY <2>1, <3>1, <3>2, <4>2, CostsAdvance
    <3>4. CASE setup.proxy # "http"
      <4>1. Turn' < Turn
        BY <2>1, <3>1, <3>4 DEF Turn
      <4> QED
        BY <2>1, <3>1, <3>2, <4>1, CostsAdvance
    <3> QED
      BY <3>3, <3>4
  <2> QED
    BY <2>2, <2>3
<1>7. CASE ConnectFails
  BY <1>7, OpenEnds DEF ConnectFails
<1>8. CASE SendConnect
  BY <1>8, SendAdvances
<1>9. CASE SendConnectFails
  BY <1>9, OpenEnds DEF SendConnectFails
<1>10. CASE ProxyChallenges
  BY <1>10, ChallengeAdvances
<1>11. CASE ProxyConnects \/ SocksConnects
  <2>1. pc \in {"proxy", "proxy_read"} /\ pc' = "tls" /\ left' = left
    BY <1>11 DEF ProxyConnects, SocksConnects, locals
  <2>2. Outer' < Outer
    BY <1>0, <2>1 DEF Outer, Attempting
  <2> QED
    BY <2>1, <2>2, Advances
<1>12. CASE ProxyRefuses
  BY <1>12, OpenEnds DEF ProxyRefuses
<1>13. CASE SocksRefuses
  BY <1>13, OpenEnds DEF SocksRefuses
<1>14. CASE Handshake
  <2>1. pc = "tls" /\ pc' = "write" /\ left' = left /\ ~ rq_retry'
    BY <1>14 DEF Handshake, Counted, Opening, locals
  <2>2. Outer' < Outer
    BY <1>0, <2>1 DEF Outer, Attempting
  <2> QED
    BY <2>1, <2>2, Advances
<1>15. CASE HandshakeFails
  BY <1>15, OpenEnds DEF HandshakeFails
<1>16. CASE WriteRequest
  <2>1. pc = "write" /\ pc' = "read" /\ left' = left
    BY <1>16 DEF WriteRequest, locals
  <2>2. Outer' < Outer
    BY <1>0, <2>1 DEF Outer, Attempting
  <2> QED
    BY <2>1, <2>2, Advances
<1>17. CASE WriteFails
  <2>1. CASE rq_retry
    <3>1. pc = "write" /\ pc' = "retry" /\ conn' = None /\ left' = left
      BY <1>17, <2>1 DEF WriteFails, locals
    <3>2. Outer' < Outer
      BY <1>0, <2>1, <3>1 DEF Outer, Attempting
    <3> QED
      BY <3>1, <3>2, Advances
  <2>2. CASE ~ rq_retry
    BY <1>17, <2>2, Ends DEF WriteFails, Out
  <2> QED
    BY <2>1, <2>2
<1>18. CASE Respond
  <2>1. pc = "read"
    BY <1>18 DEF Respond, ReadFails, BodyCutShort, ServerChallenges, ServerRedirects,
       ServerRefuses, ServerAnswers
  <2>2. CASE pc' = "idle"
    BY <2>1, <2>2, Ends
  <2>3. CASE pc' # "idle"
    <3>1. pc' \in {"redirected", "spinning"} /\ left' = left
      BY <1>18, <2>3 DEF Respond, ReadFails, BodyCutShort, ServerChallenges, ServerRedirects,
         ServerRefuses, ServerAnswers, Out, locals
    <3>2. Outer' < Outer
      BY <1>0, <2>1, <3>1 DEF Outer, Attempting
    <3> QED
      BY <2>1, <3>1, <3>2, Advances
  <2> QED
    BY <2>2, <2>3
<1> QED
  BY <1>1, <1>2, <1>3, <1>4, <1>5, <1>6, <1>7, <1>8, <1>9, <1>10, <1>11, <1>12, <1>13, <1>14,
     <1>15, <1>16, <1>17, <1>18 DEF Step, Open

\* What a rank may be: what a request starts with, at most.
Ranked == Rank \in 0 .. Longest

LEMMA RankInit == Init => Ranked
BY HttpAssumption DEF Init, Ranked, Rank, Longest

LEMMA RankedStep == ProxyInv /\ Counted /\ Ranked /\ [Next]_vars => Ranked'
<1> SUFFICES ASSUME ProxyInv, Counted, Ranked, [Next]_vars PROVE Ranked'
  OBVIOUS
<1>1. ProxyTyped /\ ProxyTyped' /\ Counted'
  BY ProxyStep, CountedStep DEF ProxyInv
<1>2. Rank \in Nat /\ Rank' \in Nat /\ Rank \in 0 .. Longest /\ Longest \in Nat
  <2>1. Rank \in Nat
    BY <1>1, RankTyped DEF RankBounds
  <2>2. Rank' \in Nat
    BY <1>1, RankTypedNext DEF RankBounds
  <2> QED
    BY <2>1, <2>2, HttpAssumption DEF Ranked, Longest
<1>3. CASE Call
  <2>1. pc' = "redirected" /\ left' = MaxRedirects
    BY <1>3 DEF Call
  <2>2. Rank' = 1 + 1116 * (8 * MaxRedirects)
    <3>1. Attempting' = 0 /\ Proxying' = 0
      BY <2>1 DEF Attempting, Proxying
    <3>2. Rank' = 1 + 1116 * (8 * left' + Attempting') + Proxying'
      BY <2>1, Zenon DEF Rank, Outer
    <3> QED
      BY <2>1, <3>1, <3>2, HttpAssumption
  <2> QED
    BY <1>2, <2>2, HttpAssumption DEF Ranked, Longest
<1>4. CASE Step
  <2>1. Rank' < Rank
    BY <1>1, <1>4, RankStep
  <2> HIDE DEF Rank, Longest
  <2> QED
    BY <1>2, <2>1 DEF Ranked
<1>5. CASE UNCHANGED vars
  <2>1. Rank' = Rank
    BY <1>5 DEF vars, locals, serverauth, opening, proxystate, channel, Rank, Outer, Attempting,
       Proxying, Costs, Lefts, Turn, Cost, Left
  <2> QED
    BY <1>2, <2>1 DEF Ranked
<1> QED
  BY <1>3, <1>4, <1>5 DEF Next
-----------------------------------------------------------------------------
\* Every request goes to the server that is meant, with cookies of no other one:
\* over any number of redirects, requests, connections and proxies.
THEOREM CookiesStay == Spec => []CookiesStayWithHost
<1>1. Connected => CookiesStayWithHost
  BY DEF Connected, CookiesStayWithHost
<1> QED
  BY <1>1, ConnectedInit, ConnectedStep, PTL DEF Spec

\* No request is written on a connection with a response left half read.
THEOREM ResponsesAreRead == Spec => []InStep
<1>1. Connected => InStep
  BY DEF Connected, InStep
<1> QED
  BY <1>1, ConnectedInit, ConnectedStep, PTL DEF Spec

\* While a connection is opened, the proxy gets no credentials that it has turned
\* down, on however many sockets and whatever methods it asks for; but for Basic,
\* which Digest failing meanwhile makes the client forget.
THEOREM RejectedIsNotRepeated == Spec => []RejectedNotRepeated
<1>1. ProxyInv => RejectedNotRepeated
  BY DEF ProxyInv, Awaited, RejectedNotRepeated
<1> QED
  BY <1>1, ProxyInit, ProxyStep, PTL DEF Spec

\* A request takes at most as many steps as its rank is when it is made, and every one
\* of them brings its end nearer: over whatever redirects, challenges of servers and of
\* the proxy, connections that break and methods that fail, in whichever order.  After
\* the last of them it has ended, or the code is left reading a body that was cut short
\* for ever ("spinning").  It is what RequestEnds needs but for the fairness that keeps
\* the client going.
THEOREM RequestsAreBounded == Spec => []Ranked /\ [][Step => Rank' < Rank]_vars
<1>1. ProxyInv /\ Counted /\ [Next]_vars => [Step => Rank' < Rank]_vars
  <2> SUFFICES ASSUME ProxyInv, Counted, [Next]_vars, Step PROVE Rank' < Rank
    OBVIOUS
  <2>1. ProxyTyped /\ ProxyTyped' /\ Counted'
    BY ProxyStep, CountedStep DEF ProxyInv
  <2> QED
    BY <2>1, RankStep
<1> QED
  BY <1>1, ProxyInit, ProxyStep, CountedInit, CountedStep, RankInit, RankedStep, PTL DEF Spec
=============================================================================
