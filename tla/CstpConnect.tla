---------------------------- MODULE CstpConnect -----------------------------
(***************************************************************************)
(* An AnyConnect tunnel being made: the CONNECT request and its answer     *)
(* (start_cstp_connection), the rounds of the loop in which DTLS connects  *)
(* and the tun device waits for it, and the search for an MTU that DTLS    *)
(* can carry (probe_mtu).  Sizes are counted in units of a few dozen bytes. *)
(***************************************************************************)
EXTENDS Integers, FiniteSets

CONSTANTS
  Paths,        \* sizes of the largest packet that gets to the server
  Mtus,         \* MTUs that the server answers
  MinBase,      \* no base MTU is below this one, 1280 bytes
  absolute_min, \* what DTLS is assumed to carry
  MaxTries,     \* of a size, 6 in the code
  MaxConnects   \* TLS and DTLS connections together (bound)

VARIABLES
  options,      \* what the user chose, and what kind of connections there are
  path,         \* [size, known: the kernel knows it]
  pc,
  started,      \* openconnect_mainloop() was
  retried,      \* the request was
  cstp,         \* [mtu, base]: what the last answer said
  dtls,         \* [state, attempt_period: it is not 0]
  dtls_need_reconnect,
  delay,        \* delay_tunnel_reason is set
  tun,          \* the device is up
  probe,        \* the variables of probe_mtu()
  net,          \* sizes whose answers are on their way
  answered,     \* history: sizes that were answered in this search
  faulty,       \* history: the network lost or delayed some of the search
  connects

lifeVars == <<options, started>>
linkVars == <<path, cstp, dtls_need_reconnect, dtls>>
probeVars == <<probe, net, answered, faulty>>
vars == <<lifeVars, path, pc, retried, cstp, dtls, dtls_need_reconnect, delay, tun, probeVars,
          connects>>

IpHeader(v6) == IF v6 THEN 2 ELSE 1
DtlsHeader == 1
PathSlack == 1     \* probe_mtu() takes off 12 bytes more than the headers

CstpAssumption ==
  /\ Paths \subseteq Nat \ {0} /\ Mtus \subseteq Nat /\ absolute_min \in Nat \ {0}
  /\ MinBase \in Nat /\ MaxTries \in Nat \ {0} /\ MaxConnects \in Nat

\* probe_mtu() starts from the largest size.
Searching(top) ==
  [min |-> absolute_min, max |-> top, cur |-> top, last |-> top, tries |-> 0, top |-> top,
   ret |-> 0]

NoProbe == Searching(0)

Init ==
  /\ options \in [v6 : BOOLEAN, psk : BOOLEAN]
  /\ path \in [size : Paths, known : {FALSE}]
  /\ pc = "connect" /\ started = FALSE /\ retried = FALSE
  /\ cstp = [mtu |-> 0, base |-> 0]
  /\ dtls = [state |-> "NOSECRET", attempt_period |-> TRUE]
  /\ dtls_need_reconnect = FALSE /\ delay = FALSE /\ tun = FALSE
  /\ probe = NoProbe /\ net = {} /\ answered = {} /\ faulty = FALSE /\ connects = 0

Larger(a, b) == IF a > b THEN a ELSE b
Smaller(a, b) == IF a < b THEN a ELSE b

-----------------------------------------------------------------------------
(* The request.                                                            *)

\* The base MTU comes from the kernel.  The MTU that is asked for binds nobody.
calculate_dtls_mtu(pmtu) == Larger(IF pmtu = 0 THEN MinBase ELSE pmtu, MinBase)

\* ssl_reconnect() tries again, or the session ends, as it does without a first
\* connection.
Fails ==
  \/ started /\ connects < MaxConnects /\ connects' = connects + 1 /\ pc' = "connect"
  \/ pc' = "ended" /\ UNCHANGED connects

\* cstp_connect() before the request: a secret for DTLS, and a TLS connection.
cstp_connect ==
  /\ pc = "connect" /\ retried' = FALSE
  /\ \/ /\ dtls' = (IF dtls.state = "NOSECRET" THEN [dtls EXCEPT !.state = "SECRET"] ELSE dtls)
        /\ pc' = "request" /\ UNCHANGED connects
     \/ UNCHANGED dtls /\ Fails
  /\ UNCHANGED <<lifeVars, path, cstp, dtls_need_reconnect, delay, tun, probeVars>>

Request ==
  /\ pc = "request"
  /\ \E pmtu \in {0, path.size} :
       cstp' = [cstp EXCEPT !.base = calculate_dtls_mtu(pmtu)]
  /\ delay' = (delay \/ dtls.state # "DISABLED")
  /\ pc' = "answer"
  /\ UNCHANGED <<lifeVars, path, retried, dtls, dtls_need_reconnect, tun, probeVars,
                 connects>>

\* No answer: once, on another TLS connection, and then not again.
NoAnswer ==
  /\ pc = "answer"
  /\ \/ ~retried /\ retried' = TRUE /\ pc' = "request" /\ UNCHANGED connects
     \/ UNCHANGED retried /\ Fails
  /\ UNCHANGED <<lifeVars, linkVars, delay, tun, probeVars>>

\* 401 and 503 and everything else that is not 200.
Refused ==
  /\ pc = "answer"
  /\ \/ pc' = "ended" /\ UNCHANGED connects
     \/ Fails
  /\ UNCHANGED <<lifeVars, linkVars, retried, delay, tun, probeVars>>

\* A session id that is another one makes a DTLS connection stale.
TakeSession(id) ==
  dtls_need_reconnect' =
    (dtls_need_reconnect
       \/ (id = "another" /\ dtls.state \in {"CONNECTING", "CONNECTED", "ESTABLISHED"}))

\* The headers in front of a wrong one are obeyed, and it may have none for the MTU.
BadHeaders ==
  /\ pc = "answer"
  /\ \E id \in {"same", "another"}, period \in {dtls.attempt_period, FALSE} :
       /\ TakeSession(id)
       /\ dtls' = [dtls EXCEPT !.attempt_period = period]
  /\ Fails
  /\ UNCHANGED <<lifeVars, path, cstp, retried, delay, tun, probeVars>>

\* The answer is complete and its addresses are those of before.
Headers ==
  /\ pc = "answer"
  /\ \E id \in {"none", "same", "another"}, mtu \in Mtus,
        base \in {cstp.base} \cup (IF options.psk THEN Paths ELSE {}) :
       /\ TakeSession(id)
       /\ cstp' = [mtu |-> mtu, base |-> base]
       /\ dtls' = [dtls EXCEPT !.attempt_period = @ /\ id # "none"]
  /\ pc' = IF started THEN "top" ELSE "setup"
  /\ UNCHANGED <<lifeVars, path, retried, delay, tun, probeVars, connects>>

-----------------------------------------------------------------------------
(* DTLS.                                                                   *)

\* connect_dtls_socket(): the handshake starts, or fails at once.
connect_dtls_socket ==
  \/ connects < MaxConnects /\ connects' = connects + 1
     /\ dtls' = [dtls EXCEPT !.state = "CONNECTING"]
  \/ \E period \in {dtls.attempt_period, FALSE} :
       dtls' = [dtls EXCEPT !.state = IF @ = "SECRET" THEN "SECRET" ELSE "SLEEPING",
                            !.attempt_period = period]
     /\ UNCHANGED connects

\* dtls_setup(), once the first TLS connection is there.
dtls_setup ==
  /\ pc = "setup" /\ pc' = "top" /\ started' = TRUE
  /\ IF dtls.attempt_period THEN connect_dtls_socket ELSE UNCHANGED <<dtls, connects>>
  /\ UNCHANGED <<options, path, retried, cstp, dtls_need_reconnect, delay, tun, probeVars>>

\* The top of the loop: while the tunnel has no device there is one turn for every
\* reason to wait for it.
SetUpTun ==
  /\ pc = "top" /\ pc' = "udp" /\ delay' = FALSE
  /\ tun' = (tun \/ ~delay)
  /\ UNCHANGED <<lifeVars, linkVars, retried, probeVars, connects>>

\* dtls_reconnect(), because of the session id or to rekey.
DtlsReconnects ==
  /\ pc = "udp" /\ pc' = "tcp"
  /\ dtls.state \in {"SLEEPING", "CONNECTING", "CONNECTED", "ESTABLISHED"}
  /\ dtls_need_reconnect \/ dtls.state = "ESTABLISHED"
  /\ dtls_need_reconnect' = FALSE
  /\ connect_dtls_socket
  /\ UNCHANGED <<lifeVars, path, retried, cstp, delay, tun, probeVars>>

\* dtls_try_handshake() is not through: the device has to wait.
DtlsConnecting ==
  /\ pc = "udp" /\ pc' = "tcp" /\ ~dtls_need_reconnect /\ dtls.state = "CONNECTING"
  /\ delay' = TRUE
  /\ UNCHANGED <<lifeVars, linkVars, retried, tun, probeVars, connects>>

\* It has failed, or the session was not resumed.
DtlsFails ==
  /\ pc = "udp" /\ pc' = "tcp" /\ ~dtls_need_reconnect /\ dtls.state = "CONNECTING"
  /\ \/ dtls' = [dtls EXCEPT !.state = "SLEEPING"]
     \/ ~options.psk /\ dtls' = [dtls EXCEPT !.state = "DISABLED", !.attempt_period = FALSE]
  /\ delay' = TRUE
  /\ UNCHANGED <<lifeVars, path, retried, cstp, dtls_need_reconnect, tun, probeVars,
                 connects>>

\* DTLS is up.  With PSK-NEGOTIATE the MTU follows from the base MTU: the header of
\* IPv6 is never taken off, an address family is compared with a protocol number.
\* dtls_detect_mtu() starts from there.
DtlsConnected ==
  LET data == cstp.base - IpHeader(FALSE) - DtlsHeader
      mtu == IF options.psk THEN Smaller(cstp.mtu, data) ELSE cstp.mtu IN
  /\ pc = "udp" /\ ~dtls_need_reconnect /\ dtls.state = "CONNECTING"
  /\ cstp' = [cstp EXCEPT !.mtu = mtu]
  /\ dtls' = [dtls EXCEPT !.state = "CONNECTED"]
  /\ probe' = Searching(mtu)
  /\ net' = {} /\ answered' = {} /\ faulty' = FALSE
  /\ pc' = IF mtu <= absolute_min THEN "found" ELSE "probe"
  /\ UNCHANGED <<lifeVars, path, retried, dtls_need_reconnect, delay, tun, connects>>

\* DTLS carries packets, sleeps until the next attempt, which is more than a turn
\* away while the device is down, or is not wanted.
DtlsElse ==
  /\ pc = "udp" /\ pc' = "tcp" /\ ~dtls_need_reconnect
  /\ CASE dtls.state \in {"CONNECTED", "ESTABLISHED"} ->
            dtls' = [dtls EXCEPT !.state = "ESTABLISHED"] /\ UNCHANGED connects
       [] dtls.state = "SLEEPING" ->
            \/ (tun \/ ~dtls.attempt_period) /\ connect_dtls_socket
            \/ UNCHANGED <<dtls, connects>>
       [] dtls.state \in {"SECRET", "DISABLED"} -> UNCHANGED <<dtls, connects>>
       [] OTHER -> FALSE
  /\ UNCHANGED <<lifeVars, path, retried, cstp, dtls_need_reconnect, delay, tun, probeVars>>

-----------------------------------------------------------------------------
(* The search for the MTU.                                                 *)

Fits(n) == n + DtlsHeader + IpHeader(options.v6) <= path.size

Found(ret) == pc' = "found" /\ probe' = [probe EXCEPT !.ret = ret]

\* IPV6_PATHMTU limits what is worth a try.
Limited(n) ==
  IF options.v6 /\ path.known
  THEN Smaller(n, path.size - DtlsHeader - IpHeader(TRUE) - PathSlack) ELSE n

\* A probe that the kernel does not take: the next smaller one, if it was the largest.
WriteFails ==
  LET max == Limited(probe.max)  cur == Limited(probe.cur) IN
  /\ pc = "probe" /\ Limited(absolute_min) = absolute_min
  /\ \/ path.known /\ ~Fits(cur) /\ UNCHANGED faulty
     \/ faulty' = TRUE
  /\ IF cur = max /\ cur > absolute_min
     THEN /\ probe' = [probe EXCEPT !.max = cur - 1, !.cur = cur - 1]
          /\ pc' = "probe"
     ELSE Found(0)
  /\ UNCHANGED <<lifeVars, linkVars, retried, delay, tun, net, answered, connects>>

PathTooSmall ==
  /\ pc = "probe" /\ Limited(absolute_min) # absolute_min /\ Found(0)
  /\ UNCHANGED <<lifeVars, linkVars, retried, delay, tun, net, answered, faulty,
                 connects>>

\* A probe that is written.  Too large a one is lost, and the kernel may be told.
Probe ==
  LET max == Limited(probe.max)  cur == Limited(probe.cur) IN
  /\ pc = "probe" /\ pc' = "wait" /\ Limited(absolute_min) = absolute_min
  /\ probe' = [probe EXCEPT !.max = max, !.cur = cur, !.last = cur,
                            !.tries = IF probe.last = cur THEN @ + 1 ELSE 0]
  /\ \/ Fits(cur) /\ net' = net \cup {cur} /\ UNCHANGED <<path, faulty>>
     \/ Fits(cur) /\ faulty' = TRUE /\ UNCHANGED <<path, net>>
     \/ /\ ~Fits(cur) /\ ~path.known
        /\ \E k \in BOOLEAN : path' = [path EXCEPT !.known = k]
        /\ UNCHANGED <<net, faulty>>
  /\ UNCHANGED <<lifeVars, retried, cstp, dtls_need_reconnect, dtls, delay, tun,
                 answered, connects>>

\* Broken on purpose: whatever comes is the answer, of a search that has moved on.
ProbeAnswered_Any ==
  LET p == probe IN
  /\ pc = "wait"
  /\ \E n \in net : net' = net \ {n} /\ answered' = answered \cup {n}
  /\ IF p.cur = p.max
     THEN Found(p.cur)
     ELSE /\ pc' = "probe"
          /\ probe' = [p EXCEPT !.tries = 0, !.min = p.cur,
                                !.cur = (p.cur + p.max + 1) \div 2]
  /\ UNCHANGED <<lifeVars, linkVars, retried, delay, tun, faulty, connects>>

\* The answer: the network may bring it once more.
ProbeAnswered ==
  LET p == probe IN
  /\ pc = "wait" /\ p.cur \in net
  /\ net' \in {net, net \ {p.cur}} /\ answered' = answered \cup {p.cur}
  /\ IF p.cur = p.max
     THEN Found(p.cur)
     ELSE /\ pc' = "probe"
          /\ probe' = [p EXCEPT !.tries = 0, !.min = Larger(p.min, p.cur),
                                !.cur = IF p.cur > p.min THEN (p.cur + p.max + 1) \div 2
                                        ELSE (p.min + p.last + 1) \div 2]
  /\ UNCHANGED <<lifeVars, linkVars, retried, delay, tun, faulty, connects>>

\* An answer to another size is skipped, and there is more waiting.
AnswerSkipped ==
  /\ pc = "wait"
  /\ \E n \in net \ {probe.cur} : net' = net \ {n} /\ answered' = answered \cup {n}
  /\ UNCHANGED <<lifeVars, linkVars, pc, retried, delay, tun, probe, faulty, connects>>

\* No answer after a while, to the last of several tries.
ProbeTimeout ==
  LET p == probe IN
  /\ pc = "wait"
  /\ faulty' = (faulty \/ p.cur \in net)
  /\ IF p.tries < MaxTries
     THEN pc' = "probe" /\ UNCHANGED probe
     ELSE IF p.cur <= p.min + 1
          THEN pc' = "found"
               /\ probe' = [p EXCEPT !.max = Smaller(p.max, p.cur - 1), !.ret = p.min]
          ELSE /\ pc' = "probe"
               /\ probe' = [p EXCEPT !.max = Smaller(p.max, p.cur - 1),
                                     !.cur = (p.min + p.last + 1) \div 2]
  /\ UNCHANGED <<lifeVars, linkVars, retried, delay, tun, net, answered, connects>>

\* More than ten seconds, or an error.
ProbeGivesUp ==
  /\ pc = "wait" /\ faulty' = TRUE
  /\ Found(0) \/ (probe.min # absolute_min /\ Found(probe.min))
  /\ UNCHANGED <<lifeVars, linkVars, retried, delay, tun, net, answered, connects>>

\* dtls_detect_mtu() keeps what was found; dtls_mainloop() has done its work.
MtuFound ==
  /\ pc = "found" /\ pc' = "tcp"
  /\ cstp' = [cstp EXCEPT !.mtu = IF probe.ret = 0 THEN @ ELSE probe.ret]
  /\ probe' = NoProbe /\ net' = {} /\ answered' = {} /\ faulty' = FALSE
  /\ UNCHANGED <<lifeVars, path, retried, dtls, dtls_need_reconnect, delay, tun,
                 connects>>

-----------------------------------------------------------------------------
(* The rest of a turn, and the end of a connection.                        *)

tcp_mainloop ==
  /\ pc = "tcp" /\ pc' = "top"
  /\ UNCHANGED <<lifeVars, linkVars, retried, delay, tun, probeVars, connects>>

\* cstp_reconnect().  The network may be another one by then.
Reconnect ==
  /\ pc = "tcp" /\ connects < MaxConnects /\ connects' = connects + 1
  /\ path' \in [size : Paths, known : {FALSE}]
  /\ pc' = "connect"
  /\ UNCHANGED <<lifeVars, retried, cstp, dtls_need_reconnect, dtls, delay, tun, probeVars>>

Next ==
  \/ cstp_connect \/ Request \/ NoAnswer \/ Refused \/ BadHeaders \/ Headers
  \/ dtls_setup \/ SetUpTun \/ DtlsReconnects \/ DtlsConnecting \/ DtlsFails \/ DtlsConnected
  \/ DtlsElse
  \/ WriteFails \/ PathTooSmall \/ Probe \/ ProbeAnswered \/ AnswerSkipped \/ ProbeTimeout
  \/ ProbeGivesUp \/ MtuFound
  \/ tcp_mainloop \/ Reconnect

Spec == Init /\ [][Next]_vars
-----------------------------------------------------------------------------
\* The MTU that a search ends with was answered in that search, or is the one that
\* every path is taken to carry: never one that was only tried (dtls.c:550).
MtuProven ==
  pc = "found" => probe.ret \in {0, absolute_min} \cup answered

\* If the network loses nothing and answers in time, the search ends with the largest
\* MTU up to the one it started from, whatever the kernel is told meanwhile, or gives up.
BestFound ==
  (pc = "found" /\ ~faulty /\ probe.ret # 0) =>
    /\ \/ probe.ret = absolute_min \/ Fits(probe.ret)
    /\ \A n \in probe.ret + 1..probe.top :
         Fits(n) => (options.v6 /\ path.known /\ Limited(n) # n)
=============================================================================
