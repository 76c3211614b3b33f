-------------------------------- MODULE Http --------------------------------
(***************************************************************************)
(* The HTTP client that every protocol logs in with: do_https_request()    *)
(* with its redirects, authentication, retries and connections, which may  *)
(* go through a proxy that wants authentication of its own.  Requests are  *)
(* made one after the other, as logins make them, and share a connection,  *)
(* cookies and what is known of the methods of authentication.             *)
(***************************************************************************)
EXTENDS HttpAuth, FiniteSets, TLC

CONSTANTS
  Hosts,          \* servers; each names others in its redirects
  Home,           \* the server the user gave
  ServerMethods,  \* methods of authentication servers ask for
  ProxyMethods,   \* and the proxy
  MaxRedirects,   \* max_redirects, 10 in the code
  MaxRequests     \* calls of do_https_request() (bound)

ASSUME HttpAssumption ==
  /\ Home \in Hosts
  /\ ServerMethods \subseteq Method /\ ProxyMethods \subseteq Method
  /\ MaxRedirects \in Nat \ {0} /\ MaxRequests \in Nat

None == "none"

\* What a Location header may hold: a place on the same server (relative,
\* absolute, or nothing at all), a URL that cannot be followed, another server.
Url == {"local", "http:"} \cup Hosts

VARIABLES
  pc,
  setup,           \* the user's proxy and credentials, the methods the proxy wants and
                   \* those servers ask for (one side at a time: a bound)
  hostname, redirect_url, cookies,   \* cookies: the servers they came from
  peer_addr,       \* the server whose address is known, or None
  conn,            \* https_sess: the server it goes to, or None
  unread,          \* history: a response was left half read on conn
  http_auth, try_http_auth, retry_on_auth_fail, auth,
  proxy_auth, proxy_close_during_auth,
  proxyauth,       \* auth of process_http_proxy()
  sent,            \* history: method of the last CONNECT, the first NTLM message,
                   \* the last message of the method
  challenged,      \* history: the proxy asked for authentication in this opening
  rejected,        \* history: methods the proxy turned down in this opening
  flags, left, rq_retry, result,
  cancelled,       \* got_cancel_cmd
  calls

place == <<hostname, redirect_url, cookies>>
locals == <<flags, left, auth, rq_retry, result>>
serverauth == <<http_auth, try_http_auth, retry_on_auth_fail>>
opening == <<proxyauth, sent, challenged, rejected>>
proxystate == <<proxy_auth, proxy_close_during_auth>>
channel == <<peer_addr, conn, unread>>
vars == <<pc, setup, place, locals, serverauth, opening, proxystate, channel, cancelled, calls>>

Server == [proxy |-> FALSE, password |-> FALSE, bearer |-> setup.bearer]
Proxy == [proxy |-> TRUE, password |-> setup.password, bearer |-> FALSE]

NotSent == [method |-> None, first |-> FALSE, last |-> FALSE]

TypeOK ==
  /\ pc \in {"idle", "redirected", "retry", "connect", "proxy", "proxy_read", "tls",
             "write", "read", "spinning"}
  /\ hostname \in Hosts /\ redirect_url \in Url \cup {None} /\ cookies \subseteq Hosts
  /\ peer_addr \in Hosts \cup {None} /\ conn \in Hosts \cup {None} /\ unread \in BOOLEAN
  /\ http_auth \in [Method -> AuthState] /\ proxy_auth \in [Method -> AuthState]
  /\ left \in 0 .. MaxRedirects /\ calls \in 0 .. MaxRequests
  /\ rejected \subseteq Method

Init ==
  /\ pc = "idle"
  /\ \E proxy \in {None, "http", "socks"}, password, bearer, basic \in BOOLEAN,
        wants \in SUBSET ProxyMethods, asks \in SUBSET ServerMethods :
       /\ proxy # "http" => wants = {} /\ ~ password /\ ~ basic
       /\ proxy = "http" => asks = {} /\ ~ bearer
       /\ setup = [proxy |-> proxy, password |-> password, bearer |-> bearer,
                   wants |-> wants, asks |-> asks]
       /\ http_auth = DefaultStates
       /\ proxy_auth = IF basic THEN set_authmethods(ProxyMethods) ELSE DefaultStates
  /\ hostname = Home /\ redirect_url = None /\ cookies = {}
  /\ peer_addr = None /\ conn = None /\ unread = FALSE
  /\ try_http_auth = TRUE /\ retry_on_auth_fail = FALSE /\ auth = FALSE
  /\ proxy_close_during_auth = FALSE /\ proxyauth = FALSE
  /\ sent = NotSent /\ challenged = FALSE /\ rejected = {}
  /\ flags = None /\ left = 0 /\ rq_retry = FALSE /\ result = None
  /\ cancelled = FALSE /\ calls = 0

-----------------------------------------------------------------------------
\* do_https_request()

Call ==
  /\ pc = "idle" /\ calls < MaxRequests /\ ~ cancelled
  /\ flags' \in {None, "HTTP_REDIRECT"}
  /\ left' = MaxRedirects /\ result' = None /\ calls' = calls + 1
  /\ pc' = "redirected"
  /\ UNCHANGED <<setup, place, auth, rq_retry, serverauth, opening, proxystate, channel,
                 cancelled>>

\* The label out: the methods that did not fail may be tried for the next
\* request.  The locals end here.
Out(states, ret) ==
  /\ pc' = "idle" /\ result' = ret
  /\ http_auth' = clear_auth_states(states, TRUE)
  /\ flags' = None /\ left' = 0 /\ auth' = FALSE /\ rq_retry' = FALSE

\* The label redirected: the request is built anew for every redirect, every
\* answer to a challenge and every response that failed.
TooManyRedirects ==
  /\ pc = "redirected" /\ left = 0
  /\ Out(http_auth, "EIO")
  /\ UNCHANGED <<setup, place, try_http_auth, retry_on_auth_fail, opening, proxystate,
                 channel, cancelled, calls>>

BuildRequest ==
  /\ pc = "redirected" /\ left > 0 /\ ~ auth
  /\ left' = left - 1 /\ pc' = "retry" /\ retry_on_auth_fail' = FALSE
  /\ UNCHANGED <<setup, place, flags, auth, rq_retry, result, http_auth, try_http_auth,
                 opening, proxystate, channel, cancelled, calls>>

\* With no method left, a server that said so gets the request once more
\* without the header that asked it for authentication.
BuildAuthorized ==
  /\ pc = "redirected" /\ left > 0 /\ auth
  /\ \E o \in gen_authorization_hdr(http_auth, Server) :
       LET fallback == o.ret = "ENOENT" /\ retry_on_auth_fail
       IN IF o.ret = "OK" \/ fallback
          THEN /\ left' = left - 1 /\ pc' = "retry" /\ retry_on_auth_fail' = FALSE
               /\ http_auth' = clear_auth_states(o.states, FALSE)
               /\ try_http_auth' = (try_http_auth /\ ~ fallback)
               /\ UNCHANGED <<flags, auth, rq_retry, result>>
          ELSE Out(o.states, o.ret) /\ UNCHANGED <<try_http_auth, retry_on_auth_fail>>
  /\ UNCHANGED <<setup, place, opening, proxystate, channel, cancelled, calls>>

\* The label retry: https_socket_closed() finds out whether the server has
\* closed the connection; without one, openconnect_open_https() makes one.
UseConnection ==
  /\ pc = "retry" /\ conn # None
  /\ rq_retry' = TRUE /\ pc' = "write"
  /\ UNCHANGED <<setup, place, flags, left, auth, result, serverauth, opening, proxystate,
                 channel, cancelled, calls>>

OpenConnection ==
  /\ pc = "retry"
  /\ conn' = None
  /\ rq_retry' = FALSE /\ pc' = "connect"
  /\ UNCHANGED <<setup, place, flags, left, auth, result, serverauth, opening, proxystate,
                 peer_addr, unread, cancelled, calls>>

-----------------------------------------------------------------------------
\* openconnect_open_https(), connect_https_socket() and process_proxy()

\* The end of connect_https_socket(): the proxy's methods start again.
Opened(states) ==
  /\ proxy_auth' = clear_auth_states(states, TRUE)
  /\ proxyauth' = FALSE /\ sent' = NotSent /\ challenged' = FALSE /\ rejected' = {}

\* A failure anywhere below gives -EIO, so that no caller takes it for an
\* answer of the server.
OpenFails(states) ==
  /\ Out(http_auth, "EIO")
  /\ Opened(states)
  /\ UNCHANGED <<setup, place, try_http_auth, retry_on_auth_fail, conn, unread, calls>>

\* cancellable_connect() to the address that is known, or the one DNS gives
\* for the server; the proxy's if there is one.
Connect ==
  /\ pc = "connect" /\ ~ cancelled
  /\ peer_addr' = IF peer_addr = None THEN hostname ELSE peer_addr
  /\ pc' = IF setup.proxy = None THEN "tls" ELSE "proxy"
  /\ IF setup.proxy = "http"
     THEN proxyauth' = proxy_close_during_auth /\ proxy_close_during_auth' = FALSE
     ELSE UNCHANGED <<proxyauth, proxy_close_during_auth>>
  /\ UNCHANGED <<setup, place, locals, serverauth, proxy_auth, sent, challenged, rejected,
                 conn, unread, cancelled, calls>>

\* No connection, or a command that is noticed while waiting for one: the
\* command is kept, so that no later attempt gets any further.
ConnectFails ==
  /\ pc = "connect"
  /\ cancelled' \in {cancelled, TRUE}
  /\ OpenFails(proxy_auth)
  /\ UNCHANGED <<peer_addr, proxy_close_during_auth>>

\* process_http_proxy() builds a CONNECT request and writes it.  If the method
\* cannot go on in this connection, connect_https_socket() makes another.
SendConnect ==
  /\ pc = "proxy" /\ setup.proxy = "http"
  /\ \/ /\ ~ proxyauth
        /\ pc' = "proxy_read" /\ sent' = NotSent
        /\ UNCHANGED <<proxy_auth, proxy_close_during_auth>>
     \/ /\ proxyauth
        /\ \E o \in gen_authorization_hdr(proxy_auth, Proxy) :
             \/ /\ o.ret = "OK"
                /\ pc' = "proxy_read"
                /\ sent' = [method |-> o.sent,
                            first |-> o.sent = "NTLM"
                              /\ proxy_auth["NTLM"].state \in {AUTH_AVAILABLE, NTLM_MANUAL},
                            last |-> CASE o.sent = "NTLM" -> proxy_auth["NTLM"].state
                                             \in {NTLM_SSO_REQ, NTLM_MANUAL_REQ}
                                       [] o.sent = "Negotiate" ->
                                            o.states["Negotiate"].state = GSSAPI_COMPLETE
                                       [] OTHER -> TRUE]
                /\ proxy_auth' = clear_auth_states(o.states, FALSE)
                /\ UNCHANGED proxy_close_during_auth
             \/ /\ o.ret = "EAGAIN"
                /\ pc' = "connect"
                /\ proxy_close_during_auth' = o.close
                /\ proxy_auth' = IF o.close THEN o.states
                                 ELSE clear_auth_states(o.states, TRUE)
                /\ UNCHANGED sent
  /\ UNCHANGED <<setup, place, locals, serverauth, proxyauth, challenged, rejected, channel,
                 cancelled, calls>>

SendConnectFails ==
  /\ pc = "proxy" /\ setup.proxy = "http"
  /\ \E o \in IF proxyauth THEN gen_authorization_hdr(proxy_auth, Proxy)
              ELSE {[ret |-> "OK", states |-> proxy_auth]} :
       /\ o.ret # "EAGAIN"
       /\ cancelled' \in IF o.ret = "OK" THEN BOOLEAN ELSE {cancelled}
       /\ OpenFails(o.states)
  /\ UNCHANGED <<peer_addr, proxy_close_during_auth>>

\* 407: with "Connection: close" on a new connection, else on this one.
ProxyChallenges ==
  /\ pc = "proxy_read" /\ setup.wants # {}
  /\ \E close \in BOOLEAN, token \in BOOLEAN :
       LET offer == [m \in setup.wants |->
             IF m = "Digest" \/ (m = "Negotiate" /\ token) \/ (m = "NTLM" /\ sent.first)
             THEN "token" ELSE "none"]
       IN /\ proxy_auth' = handle_auth_proto(proxy_auth, offer)
          /\ proxy_close_during_auth' = (proxy_close_during_auth \/ close)
  /\ IF proxy_close_during_auth' THEN pc' = "connect" /\ UNCHANGED proxyauth
     ELSE pc' = "proxy" /\ proxyauth' = TRUE
  /\ challenged' = TRUE
  /\ rejected' = IF sent.last THEN rejected \cup {sent.method} ELSE rejected
  /\ UNCHANGED <<setup, place, locals, serverauth, sent, channel, cancelled, calls>>

\* 200.  The header may be on this response, too.
ProxyConnects ==
  /\ pc = "proxy_read"
  /\ proxy_close_during_auth' \in {proxy_close_during_auth, TRUE}
  /\ proxy_auth' = clear_auth_states(proxy_auth, TRUE)
  /\ pc' = "tls"
  /\ UNCHANGED <<setup, place, locals, serverauth, opening, channel, cancelled, calls>>

\* Any other status, a response that makes no sense, or none.
ProxyRefuses ==
  /\ pc = "proxy_read"
  /\ proxy_close_during_auth' \in {proxy_close_during_auth, TRUE}
  /\ cancelled' \in BOOLEAN
  /\ OpenFails(proxy_auth)
  /\ UNCHANGED peer_addr

\* process_socks_proxy() offers no authentication, and a password if there is
\* one that the user has not ruled out; the proxy picks, and says yes or no.
SocksConnects ==
  /\ pc = "proxy" /\ setup.proxy = "socks"
  /\ proxy_auth' = clear_auth_states(proxy_auth, TRUE)
  /\ pc' = "tls"
  /\ UNCHANGED <<setup, place, locals, serverauth, opening, proxy_close_during_auth, channel,
                 cancelled, calls>>

SocksRefuses ==
  /\ pc = "proxy" /\ setup.proxy = "socks"
  /\ cancelled' \in BOOLEAN
  /\ OpenFails(proxy_auth)
  /\ UNCHANGED <<peer_addr, proxy_close_during_auth>>

\* The TLS handshake, at the end of which the certificate has been accepted.
Handshake ==
  /\ pc = "tls"
  /\ conn' = IF setup.proxy = None THEN peer_addr ELSE hostname
  /\ Opened(proxy_auth)
  /\ pc' = "write"
  /\ UNCHANGED <<setup, place, locals, serverauth, proxy_close_during_auth, peer_addr,
                 unread, cancelled, calls>>

HandshakeFails ==
  /\ pc = "tls"
  /\ cancelled' \in BOOLEAN
  /\ OpenFails(proxy_auth)
  /\ UNCHANGED <<peer_addr, proxy_close_during_auth>>

-----------------------------------------------------------------------------
\* The request and process_http_response()

WriteRequest ==
  /\ pc = "write"
  /\ pc' = "read"
  /\ UNCHANGED <<setup, place, locals, serverauth, opening, proxystate, channel, cancelled,
                 calls>>

\* A connection that was open before may have died meanwhile: once more, on a
\* new one.
WriteFails ==
  /\ pc = "write"
  /\ cancelled' \in BOOLEAN
  /\ IF rq_retry
     THEN conn' = None /\ pc' = "retry" /\ UNCHANGED <<locals, http_auth>>
     ELSE Out(http_auth, "EIO") /\ UNCHANGED conn
  /\ UNCHANGED <<setup, place, try_http_auth, retry_on_auth_fail, opening, proxystate,
                 peer_addr, unread, calls>>

\* The headers of a response.  A Location replaces one that is still there,
\* and stays until a redirect is followed.
Latest(url) == IF url = None THEN redirect_url ELSE url

Headers ==
  /\ cookies' \in {cookies, cookies \cup {hostname}}
  /\ conn' \in {conn, None}

\* Broken on purpose: the connection is kept.
ReadFails_KeepsConnection ==
  /\ pc = "read"
  /\ unread' = TRUE
  /\ IF rq_retry THEN pc' = "redirected" /\ UNCHANGED <<locals, http_auth>>
     ELSE Out(http_auth, "error")
  /\ UNCHANGED <<setup, place, try_http_auth, retry_on_auth_fail, opening, proxystate, conn,
                 peer_addr, cancelled, calls>>

\* A response that makes no sense, is cut short in its headers or is cancelled
\* takes the connection with it.  The request is repeated on a new one, whether or not
\* the server has acted on it, if the connection had been open before.
ReadFails ==
  /\ pc = "read"
  /\ cancelled' \in BOOLEAN
  /\ conn' = None /\ unread' = (conn' # None)
  /\ cookies' \in {cookies, cookies \cup {hostname}}
  /\ \E url \in Url \cup {None} : redirect_url' = Latest(url)
  /\ IF rq_retry THEN pc' = "redirected" /\ UNCHANGED <<locals, http_auth>>
     ELSE Out(http_auth, "error")
  /\ UNCHANGED <<setup, hostname, try_http_auth, retry_on_auth_fail, opening, proxystate,
                 peer_addr, calls>>

\* The server closes the connection before the end of a body whose length it
\* has given, or before the end of a chunk.  ssl_read() returns 0 from then on,
\* which is no error and brings the end of the body no nearer: the loop that
\* reads it never ends, and looks at no command.
BodyCutShort ==
  /\ pc = "read"
  /\ pc' = "spinning" /\ unread' = TRUE
  /\ cookies' \in {cookies, cookies \cup {hostname}}
  /\ \E url \in Url \cup {None} : redirect_url' = Latest(url)
  /\ UNCHANGED <<setup, hostname, locals, serverauth, opening, proxystate, peer_addr, conn,
                 cancelled, calls>>

ServerChallenges ==
  /\ pc = "read" /\ try_http_auth
  /\ Headers
  /\ \E url \in Url \cup {None} : redirect_url' = Latest(url)
  /\ retry_on_auth_fail' \in BOOLEAN
  /\ \E offered \in SUBSET setup.asks, token \in {"none", "token"} :
       http_auth' = handle_auth_proto(http_auth, [m \in offered |-> token])
  /\ auth' = TRUE
  /\ pc' = "redirected"
  /\ UNCHANGED <<setup, hostname, flags, left, rq_retry, result, try_http_auth, opening,
                 proxystate, peer_addr, unread, cancelled, calls>>

\* Broken on purpose: the address of the last server is kept.
NewHost_KeepsAddress(url) ==
  /\ hostname' = url /\ cookies' = {}
  /\ conn' = None /\ UNCHANGED peer_addr

\* handle_redirect(): another server, or another place on this one.
NewHost(url) ==
  /\ hostname' = url /\ cookies' = {}
  /\ peer_addr' = None /\ conn' = None

SameHost == Headers /\ UNCHANGED <<hostname, peer_addr>>

\* Any status but 200 with a Location, whichever response that came with.
\* Without a flag that allows it the caller is told, and follows by itself.
ServerRedirects ==
  /\ pc = "read"
  /\ \E given \in Url \cup {None} :
       LET url == Latest(given)
           elsewhere == url \in Hosts \ {hostname}
       IN /\ url # None
          /\ IF elsewhere THEN NewHost(url) ELSE SameHost
          /\ IF url = "http:" THEN Out(http_auth, "EINVAL")
             ELSE IF flags = None THEN Out(http_auth, "redirected")
             ELSE /\ pc' = "redirected"
                  /\ http_auth' = IF elsewhere THEN clear_auth_states(http_auth, TRUE)
                                  ELSE http_auth
                  /\ UNCHANGED locals
  /\ redirect_url' = None
  /\ UNCHANGED <<setup, try_http_auth, retry_on_auth_fail, unread, opening, proxystate,
                 cancelled, calls>>

\* Any status but 200 and no redirect, or no body.
ServerRefuses ==
  /\ pc = "read"
  /\ Headers
  /\ \E ret \in {"EPERM", "EACCES", "EOPNOTSUPP", "EINVAL"}, url \in Url \cup {None} :
       /\ Latest(url) # None => ret = "EINVAL"
       /\ redirect_url' = Latest(url)
       /\ Out(http_auth, ret)
  /\ UNCHANGED <<setup, hostname, try_http_auth, retry_on_auth_fail, opening, peer_addr,
                 unread, proxystate, cancelled, calls>>

ServerAnswers ==
  /\ pc = "read"
  /\ Headers
  /\ \E url \in Url \cup {None} : redirect_url' = Latest(url)
  /\ Out(http_auth, "ok")
  /\ UNCHANGED <<setup, hostname, try_http_auth, retry_on_auth_fail, opening, peer_addr,
                 unread, proxystate, cancelled, calls>>

Respond ==
  \/ ReadFails \/ BodyCutShort
  \/ ServerChallenges \/ ServerRedirects \/ ServerRefuses \/ ServerAnswers

Open ==
  \/ Connect \/ ConnectFails \/ SendConnect \/ SendConnectFails
  \/ ProxyChallenges \/ ProxyConnects \/ ProxyRefuses \/ SocksConnects \/ SocksRefuses
  \/ Handshake \/ HandshakeFails

Step ==
  \/ TooManyRedirects \/ BuildRequest \/ BuildAuthorized \/ UseConnection \/ OpenConnection \/ Open
  \/ WriteRequest \/ WriteFails \/ Respond

Next == Call \/ Step

\* The client does not stop in the middle of a request, and what it waits for
\* ends: with what the server sends, with a close, or with an error.
Spec == Init /\ [][Next]_vars /\ WF_vars(Step)

-----------------------------------------------------------------------------
\* Properties

\* A request goes to the server the client means, and takes along no cookie of
\* another one: over redirects to other servers, addresses that were kept,
\* proxies, and connections that are replaced on the way.
CookiesStayWithHost == pc = "read" => conn = hostname /\ cookies \subseteq {hostname}

\* No request is written after a response that was not read to its end.
InStep == pc = "write" => ~ unread

\* While one connection is being opened the proxy gets the complete credentials
\* of a method once: what it has turned down is not sent again, on whichever
\* of the sockets it takes.  Basic is sent again after Digest has failed, too,
\* if Digest could not be used when Basic was sent first.
RejectedNotRepeated ==
  sent.last /\ pc = "proxy_read" /\ sent.method \in rejected
    => sent.method = "Basic" /\ "Digest" \in rejected

\* However servers redirect and challenge a request and whatever the proxy
\* wants, it comes to an end; but for one whose body is cut short, where the
\* code has no way out (BodyCutShort).
RequestEnds == pc # "idle" ~> pc \in {"idle", "spinning"}

=============================================================================
