-------------------------------- MODULE Tls --------------------------------
(***************************************************************************)
(* The TLS connection of one server after another: the socket, the         *)
(* credentials, the handshake and the server's certificate, reads and      *)
(* writes that wait, renegotiation, and what is kept from one connection   *)
(* to the next (gnutls.c, connect_https_socket() of ssl.c and              *)
(* validate_peer_cert() of main.c).                                        *)
(***************************************************************************)
EXTENDS ClientCert

CONSTANTS
  Hosts, PeerCerts, Addresses,
  MaxOpens   \* connections that are opened (bound)

ASSUME TlsAssumption == MaxOpens \in Nat \ {0}

VARIABLES
  options,     \* cafile, system: which certificates the CA file and the system's CAs vouch
               \* for, and for which host; pins: --servercert; dyndns: is_dyndns
  pc, host,
  peer_addr,   \* of the last connection
  names,       \* addresses of the host that have not been tried yet
  https_cred, https_sess, ssl_fd,
  ciphersuite_config,
  peer_cert,   \* vpninfo->peer_cert
  shown,       \* the certificate of the server at the other end
  accepted_certs,
  yes,         \* history: what the user has accepted, and where
  cancelled,   \* got_cancel_cmd
  opens

tlsvars == <<pc, host, peer_addr, names, https_cred, https_sess, ssl_fd, ciphersuite_config,
             peer_cert, shown, accepted_certs, yes, cancelled, opens>>
vars == <<certvars, tlsvars, options>>

Init ==
  /\ CertInit
  /\ options \in [cafile : SUBSET (Hosts \X PeerCerts), system : SUBSET (Hosts \X PeerCerts),
                 pins : SUBSET PeerCerts, dyndns : BOOLEAN]
  /\ pc = "closed" /\ host \in Hosts
  /\ peer_addr = None /\ names = {}
  /\ https_cred = FALSE /\ https_sess = FALSE /\ ssl_fd = FALSE
  /\ ciphersuite_config = None
  /\ peer_cert = None /\ shown = None
  /\ accepted_certs = {} /\ yes = {}
  /\ cancelled = FALSE /\ opens = 0

Goto(label) == pc' = label

-----------------------------------------------------------------------------
\* Broken on purpose: the certificate of the last connection stays.
Open_Keeps ==
  /\ pc = "closed" /\ ~ https_sess /\ opens < MaxOpens
  /\ opens' = opens + 1
  /\ Goto("socket")
  /\ UNCHANGED <<certvars, options, peer_cert, host, peer_addr, names, https_cred, https_sess, ssl_fd,
                 ciphersuite_config, shown, accepted_certs, yes, cancelled>>

\* openconnect_open_https(), where there is no session yet.
Open ==
  /\ pc = "closed" /\ ~ https_sess /\ opens < MaxOpens
  /\ opens' = opens + 1
  /\ peer_cert' = None
  /\ Goto("socket")
  /\ UNCHANGED <<certvars, options, host, peer_addr, names, https_cred, https_sess, ssl_fd,
                 ciphersuite_config, shown, accepted_certs, yes, cancelled>>

socketvars == <<certvars, options, host, https_cred, https_sess, ssl_fd, ciphersuite_config,
                peer_cert, shown, accepted_certs, yes, cancelled, opens>>

\* The last address is good enough, unless the server said that it moves.
UseAddress ==
  /\ pc = "socket" /\ peer_addr # None /\ ~ options.dyndns
  /\ Goto("reconnect")
  /\ UNCHANGED <<peer_addr, names, socketvars>>

\* getaddrinfo(), which may fail: then the address of the last time will have to do.
Resolve ==
  /\ pc = "socket" /\ (peer_addr = None \/ options.dyndns)
  /\ \/ \E found \in SUBSET Addresses \ {{}} : names' = found /\ Goto("names")
     \/ names' = {} /\ Goto("none")
  /\ UNCHANGED <<peer_addr, socketvars>>

\* cancellable_connect() waits for the socket or a command.
NameAnswers ==
  /\ pc = "names" /\ ~ cancelled
  /\ \E a \in names : peer_addr' = a
  /\ names' = {} /\ Goto("connected")
  /\ UNCHANGED socketvars

NameFails ==
  /\ pc = "names"
  /\ \E a \in names :
       /\ names' = names \ {a}
       /\ peer_addr' = IF peer_addr = a THEN None ELSE peer_addr
  /\ pc' = IF names' = {} THEN "none" ELSE "names"
  /\ UNCHANGED socketvars

NoName ==
  /\ pc = "none"
  /\ pc' = IF peer_addr # None THEN "reconnect" ELSE "closed"
  /\ UNCHANGED <<peer_addr, names, socketvars>>

Reconnect ==
  /\ pc = "reconnect"
  /\ \/ ~ cancelled /\ Goto("connected")
     \/ Goto("closed")
  /\ UNCHANGED <<peer_addr, names, socketvars>>

-----------------------------------------------------------------------------
\* Credentials are made for the first connection that needs them, and kept.
Credentials ==
  /\ pc = "connected" /\ ~ https_cred
  /\ \/ /\ https_cred' = TRUE
        /\ \E trusted \in {{}, {"inter", "policy", "root"}, {"policy"}} :
             IF sources.cert = None THEN Goto("hello") /\ UNCHANGED load
             ELSE Goto("load") /\ load' = [NoLoad EXCEPT !.step = "cert", !.trust = trusted]
     \/ Goto("closed") /\ UNCHANGED <<https_cred, load>>   \* the CA file cannot be read
  /\ UNCHANGED <<sources, secrets, no_tls13, options, host, peer_addr, names, https_sess, ssl_fd,
                 ciphersuite_config, peer_cert, shown, accepted_certs, yes, cancelled, opens>>

KeepCredentials ==
  /\ pc = "connected" /\ https_cred
  /\ Goto("hello")
  /\ UNCHANGED <<peer_addr, names, socketvars>>

LoadStep ==
  /\ pc = "load" /\ load_certificate
  /\ UNCHANGED <<tlsvars, options>>

LoadEnds ==
  /\ pc = "load" /\ load.step \in {"loaded", "failed"}
  /\ https_cred' = (load.step = "loaded")
  /\ pc' = IF load.step = "loaded" THEN "hello" ELSE "closed"
  /\ load' = NoLoad
  /\ UNCHANGED <<sources, secrets, no_tls13, options, host, peer_addr, names, https_sess, ssl_fd,
                 ciphersuite_config, peer_cert, shown, accepted_certs, yes, cancelled, opens>>

Priority == IF ciphersuite_config # None THEN ciphersuite_config
            ELSE IF no_tls13 THEN "tls12" ELSE "tls13"

\* The priority string is made once.
Hello ==
  /\ pc = "hello"
  /\ ciphersuite_config' = Priority
  /\ https_sess' = TRUE /\ shown' = None
  /\ Goto("handshake")
  /\ UNCHANGED <<certvars, options, host, peer_addr, names, https_cred, ssl_fd, peer_cert,
                 accepted_certs, yes, cancelled, opens>>

-----------------------------------------------------------------------------
\* cstp_handshake(), of a new session and of one that renegotiates.

handshakevars == <<certvars, options, host, peer_addr, names, https_cred, ciphersuite_config,
                   accepted_certs, yes, opens>>

\* The session and the socket are gone, although ssl_fd still has its number
\* when it was a renegotiation that failed.
HandshakeFails ==
  /\ pc \in {"handshake", "ask"}
  /\ https_sess' = FALSE /\ shown' = None
  /\ Goto("closed")
  /\ UNCHANGED <<handshakevars, ssl_fd, peer_cert, cancelled>>

HandshakeCancelled ==
  /\ pc = "handshake" /\ cancelled
  /\ https_sess' = FALSE /\ shown' = None
  /\ Goto("closed")
  /\ UNCHANGED <<handshakevars, ssl_fd, peer_cert, cancelled>>

\* The library finds no fault.  --servercert turns the system's CAs off
\* (main.c:1984); the CA file is loaded whatever else is given.
Trusted(h, c) ==
  \/ <<h, c>> \in options.cafile
  \/ <<h, c>> \in options.system /\ options.pins = {}

\* verify_peer() of a certificate that has not been seen: it is the library's
\* word, or validate_peer_cert()'s.
VerifyNew ==
  /\ pc = "handshake" /\ peer_cert = None
  /\ \E c \in PeerCerts :
       /\ peer_cert' = c /\ shown' = c
       /\ pc' = IF Trusted(host, c) THEN "finished" ELSE "validate"
  /\ UNCHANGED <<handshakevars, https_sess, ssl_fd, cancelled>>

\* It has to be the same again when the session renegotiates.
VerifyAgain ==
  /\ pc = "handshake" /\ peer_cert # None
  /\ \E c \in PeerCerts :
       IF c = peer_cert THEN shown' = c /\ Goto("finished") /\ UNCHANGED https_sess
       ELSE shown' = None /\ https_sess' = FALSE /\ Goto("closed")
  /\ UNCHANGED <<handshakevars, ssl_fd, peer_cert, cancelled>>

Known(h, c) == c \in options.pins \/ <<h, c>> \in accepted_certs

validate_peer_cert ==
  /\ pc = "validate"
  /\ pc' = CASE Known(host, peer_cert) -> "finished"
             [] ~ Known(host, peer_cert) /\ options.pins = {} -> "ask"
             [] OTHER -> "refused"
  /\ UNCHANGED <<handshakevars, https_sess, ssl_fd, peer_cert, shown, cancelled>>

\* The user, if there is one, types "yes" (it may not be possible to remember it), "no", or the details once more.
UserAccepts ==
  /\ pc = "ask"
  /\ yes' = yes \cup {<<host, peer_cert>>}
  /\ accepted_certs' \in {accepted_certs, accepted_certs \cup {<<host, peer_cert>>}}
  /\ Goto("finished")
  /\ UNCHANGED <<certvars, options, host, peer_addr, names, https_cred, https_sess, ssl_fd,
                 ciphersuite_config, peer_cert, shown, cancelled, opens>>

Refused ==
  /\ pc = "refused"
  /\ https_sess' = FALSE /\ shown' = None /\ Goto("closed")
  /\ UNCHANGED <<handshakevars, ssl_fd, peer_cert, cancelled>>

Finished ==
  /\ pc = "finished"
  /\ ssl_fd' = TRUE /\ Goto("up")
  /\ UNCHANGED <<handshakevars, https_sess, peer_cert, shown, cancelled>>

-----------------------------------------------------------------------------
\* A read or a write finds that it has to wait.
Wait ==
  /\ pc = "up"
  /\ Goto("io")
  /\ UNCHANGED <<handshakevars, https_sess, ssl_fd, peer_cert, shown, cancelled>>

\* Data, the end, or an error: the caller will see to it.
Transfer ==
  /\ pc = "io"
  /\ Goto("up")
  /\ UNCHANGED <<handshakevars, https_sess, ssl_fd, peer_cert, shown, cancelled>>

TransferCancelled ==
  /\ pc = "io" /\ cancelled
  /\ Goto("up")
  /\ UNCHANGED <<handshakevars, https_sess, ssl_fd, peer_cert, shown, cancelled>>

\* The server, or the client, wants other keys.
Rehandshake ==
  /\ pc \in {"io", "up"}
  /\ Goto("handshake")
  /\ UNCHANGED <<handshakevars, https_sess, ssl_fd, peer_cert, shown, cancelled>>

\* openconnect_close_https(): after an error, or to go to another host, whose
\* address is not the same.
Close ==
  /\ pc = "up" \/ (pc = "closed" /\ ssl_fd)
  /\ https_sess' = FALSE /\ ssl_fd' = FALSE /\ shown' = None
  /\ host' \in Hosts
  /\ peer_addr' = IF host' = host THEN peer_addr ELSE None
  /\ Goto("closed")
  /\ UNCHANGED <<certvars, options, names, https_cred, ciphersuite_config, peer_cert,
                 accepted_certs, yes, cancelled, opens>>

\* openconnect_reset_ssl(): another login.
Reset ==
  /\ pc = "closed" /\ cancelled
  /\ cancelled' = FALSE
  /\ https_sess' = FALSE /\ ssl_fd' = FALSE /\ peer_addr' = None
  /\ UNCHANGED <<certvars, options, pc, host, names, https_cred, ciphersuite_config, peer_cert,
                 shown, accepted_certs, yes, opens>>

Cancel ==
  /\ ~ cancelled /\ pc # "closed"
  /\ cancelled' = TRUE
  /\ UNCHANGED <<certvars, options, pc, host, peer_addr, names, https_cred, https_sess, ssl_fd,
                 ciphersuite_config, peer_cert, shown, accepted_certs, yes, opens>>

Client ==
  \/ UseAddress \/ NoName \/ Resolve \/ NameFails \/ Reconnect
  \/ Credentials \/ KeepCredentials \/ LoadEnds \/ Hello
  \/ HandshakeCancelled \/ validate_peer_cert \/ Refused \/ Finished
  \/ TransferCancelled

Next ==
  \/ Client \/ Open \/ NameAnswers \/ LoadStep
  \/ HandshakeFails \/ VerifyNew \/ VerifyAgain \/ UserAccepts
  \/ Wait \/ Transfer \/ Rehandshake \/ Close \/ Reset \/ Cancel

Spec == Init /\ [][Next]_vars

-----------------------------------------------------------------------------
TypeOK ==
  /\ host \in Hosts /\ peer_cert \in PeerCerts \cup {None}
  /\ shown \in PeerCerts \cup {None}
  /\ accepted_certs \subseteq Hosts \X PeerCerts
  /\ {https_cred, https_sess, ssl_fd, cancelled} \subseteq BOOLEAN

\* Data is only exchanged with a server whose certificate is one of
\* --servercert or one that the CA file vouches for, for this host; without
\* --servercert it may also be one that the system vouches for or that the user
\* has accepted.  What is left of earlier connections and handshakes does not
\* count.  The CA file is named here because the code asks it first: see
\* ServerCertObeyed.
PeerIsKnown ==
  pc \in {"up", "io"} =>
    \/ shown \in options.pins \/ <<host, shown>> \in options.cafile
    \/ options.pins = {} /\ <<host, shown>> \in options.system \cup yes

\* "Accept server's SSL certificate only if it matches the provided
\* fingerprint" (openconnect.8.in:815, of --servercert).  The code does not
\* look at the fingerprints where the library finds no fault
\* (gnutls.c:2213-2226), and with --cafile it may find none.
ServerCertObeyed ==
  pc \in {"up", "io"} /\ options.pins # {} => shown \in options.pins

\* A passphrase or PIN that did not open a file or a token is never tried there
\* again unless the user says so: it costs one of the tries of the token.
SecretsNotRepeated == ~ repeated

\* The certificate belongs to the key, every other one signed the one before
\* it, roots are left out, and no issuer that could be had is missing.
ChainFits ==
  load.step = "assign" =>
    LET chain == load.chain
    IN /\ chain[1] = load.key
       /\ \A i \in 2 .. Len(chain) : chain[i] = Issuer[chain[i - 1]] /\ ~ SelfSigned(chain[i])
       /\ LET next == Issuer[Last(chain)]
          IN ~ SelfSigned(next) =>
               next \notin load.trust /\ \A i \in DOMAIN load.extra : load.extra[i] # next

=============================================================================
