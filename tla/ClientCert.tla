----------------------------- MODULE ClientCert -----------------------------
(***************************************************************************)
(* The client's certificate and key: from a token, the system or files of  *)
(* several formats, with the passphrase or PIN they may need, the          *)
(* certificate that belongs to the key, and the chain that goes with it    *)
(* (load_certificate() and gnutls_pin_callback() of gnutls.c).  Formats    *)
(* and cryptography are GnuTLS's: what it answers is a choice here.        *)
(***************************************************************************)
EXTENDS Integers, Sequences

CONSTANT MaxTries   \* wrong PINs after which the token locks itself

ASSUME ClientCertAssumption == MaxTries \in Nat \ {0}

None == "none"

\* Who has signed a certificate; two of them are for the key "user" or "self".
Issuer == [user |-> "inter", inter |-> "policy", policy |-> "root", root |-> "root",
           other |-> "root", self |-> "self"]
SelfSigned(c) == Issuer[c] = c

\* What a file of certificates may hold, in this order.
Files == {<<"user">>, <<"other", "user", "inter">>, <<"inter", "user", "root">>, <<"other">>, <<"self">>}

Keys == {"user", "self", "stranger"}

Secrets == {"right", "wrong"}

VARIABLES
  sources,     \* certinfo->cert and ->key; pss: the key can do RSA-PSS
  load,        \* the load in progress
  password,    \* certinfo->password
  pin_cache,   \* the PIN of the token
  tries,       \* the token's: wrong PINs it still takes
  refused,     \* history: what a file or the token has been offered in vain
  repeated,    \* history: the library has offered it again, without the user
  no_tls13

certvars == <<sources, load, password, pin_cache, tries, refused, repeated, no_tls13>>

NoLoad == [step |-> None, extra |-> <<>>, cert |-> None, key |-> None, chain |-> <<>>,
           url |-> "given", lock |-> "empty", pass |-> None, attempt |-> 0, back |-> None, trust |-> {}]

KeyOnToken == sources.key = "token" \/ (sources.key = "same" /\ sources.cert = "token")

CertInit ==
  /\ sources \in [cert : {None, "token", "file"}, key : {"same", "token", "file"}, pss : BOOLEAN]
  /\ (sources.cert = None => sources.key = "same") /\ (KeyOnToken \/ sources.pss)
  /\ load = NoLoad
  /\ password \in Secrets \cup {None}
  /\ pin_cache = None /\ tries = MaxTries
  /\ refused = {} /\ repeated = FALSE /\ no_tls13 = FALSE

secrets == <<password, pin_cache, tries, refused, repeated>>

To(changed) == load' = changed /\ UNCHANGED <<sources, secrets, no_tls13>>
Step(label) == [load EXCEPT !.step = label]

\* unload_certificate(): all that has been loaded is given back.
Fail == To([NoLoad EXCEPT !.step = "failed"])

-----------------------------------------------------------------------------
\* The certificate.

TokenCert ==
  /\ load.step = "cert" /\ sources.cert = "token"
  /\ \/ \E c \in {"user", "other", "self"} : To([Step("key") EXCEPT !.cert = c])
     \/ tries > 0 /\ To([Step("pin") EXCEPT !.back = "cert", !.attempt = 0])
     \/ Fail

\* A file that cannot be read; and one that holds no certificate.
FileFails ==
  /\ load.step = "cert" /\ sources.cert = "file"
  /\ Fail

\* PKCS#12 holds the key as well, and so is not tried for a key elsewhere on a token.
Pkcs12 ==
  /\ load.step = "cert" /\ sources.cert = "file" /\ ~ KeyOnToken
  /\ \E certs \in Files, key \in Keys, lock \in {"right", "empty"} :
       To([Step("passphrase") EXCEPT !.back = "pkcs12", !.extra = certs, !.key = key,
                                     !.lock = lock, !.attempt = 0])

PemCerts ==
  /\ load.step = "cert" /\ sources.cert = "file"
  /\ \E certs \in Files : To([Step("key") EXCEPT !.extra = certs])

\* Where the key's certificate is, and 0 when it is nowhere.
Place(certs, key) ==
  IF \E i \in DOMAIN certs : certs[i] = key
  THEN CHOOSE i \in DOMAIN certs : certs[i] = key /\ \A j \in 1 .. i - 1 : certs[j] # key
  ELSE 0

\* gnutls_pkcs12_simple_parse() finds the certificate of the key.
ParsePkcs12 ==
  /\ load.step = "pkcs12"
  /\ LET i == Place(load.extra, load.key)
     IN IF i = 0 THEN Fail
        ELSE To([Step("chain") EXCEPT !.chain = <<load.key>>, !.cert = load.key,
                                      !.extra = [@ EXCEPT ![i] = None]])

-----------------------------------------------------------------------------
\* Passphrases of files.

\* The one from the command line, or none, comes first; "" is tried then.
Offer == CASE load.attempt > 0 -> load.pass [] password # None -> password [] OTHER -> "empty"

\* GnuTLS fails for another reason than the passphrase: what was not known to
\* be PKCS#12 may be something else.
Unreadable ==
  /\ load.step = "passphrase"
  /\ IF load.back = "pkcs12" /\ load.attempt = 0
     THEN \E certs \in Files : To([Step("key") EXCEPT !.extra = certs, !.key = None, !.back = None])
     ELSE Fail

TryPassphrase ==
  /\ load.step = "passphrase"
  /\ load' = IF Offer = load.lock THEN Step(load.back) ELSE Step("ask")
  /\ refused' = IF Offer = load.lock THEN refused ELSE refused \cup {<<"file", Offer>>}
  /\ repeated' = (repeated \/ (load.attempt = 0 /\ <<"file", Offer>> \in refused /\ Offer # "empty"))
  /\ password' = None
  /\ UNCHANGED <<sources, pin_cache, tries, no_tls13>>

\* request_passphrase(), until the user has had enough.
AskPassphrase ==
  /\ load.step = "ask"
  /\ \/ \E s \in Secrets \cup {"empty"} : To([Step("passphrase") EXCEPT !.pass = s, !.attempt = 1])
     \/ Fail

-----------------------------------------------------------------------------
\* The PIN of the token.

\* C_Login: the token counts the wrong ones.  GnuTLS asks again until it locks.
Present(pin) ==
  IF pin = "right"
  THEN /\ tries' = MaxTries /\ UNCHANGED refused
       /\ load' = [Step(load.back) EXCEPT !.attempt = 0]
  ELSE /\ tries' = tries - 1 /\ refused' = refused \cup {<<"token", pin>>}
       /\ load' = IF tries = 1 THEN [NoLoad EXCEPT !.step = "failed"]
                  ELSE [load EXCEPT !.attempt = 1]

Repeats(pin) == repeated' = (repeated \/ <<"token", pin>> \in refused)

\* Broken on purpose: the PIN stays in the cache.
CachedPin_Keeps ==
  /\ load.step = "pin" /\ pin_cache # None
  /\ Present(pin_cache) /\ Repeats(pin_cache)
  /\ UNCHANGED <<sources, password, pin_cache, no_tls13>>

\* The PIN that is known is for the first attempt only, ...
CachedPin ==
  /\ load.step = "pin" /\ load.attempt = 0 /\ pin_cache # None
  /\ Present(pin_cache) /\ Repeats(pin_cache)
  /\ UNCHANGED <<sources, password, pin_cache, no_tls13>>

\* ... so is that of the command line, ...
PasswordIsPin ==
  /\ load.step = "pin" /\ load.attempt = 0 /\ pin_cache = None /\ password # None
  /\ Present(password) /\ Repeats(password)
  /\ pin_cache' = password /\ password' = None
  /\ UNCHANGED <<sources, no_tls13>>

\* ... and the user is asked for another, or leaves.
AskPin ==
  /\ load.step = "pin" /\ (load.attempt = 0 => pin_cache = None /\ password = None)
  /\ \/ \E s \in Secrets : Present(s) /\ pin_cache' = s
     \/ /\ load' = [NoLoad EXCEPT !.step = "failed"] /\ pin_cache' = None
        /\ UNCHANGED <<tries, refused>>
  /\ UNCHANGED <<sources, password, repeated, no_tls13>>

-----------------------------------------------------------------------------
\* The key.

\* A token may not own up to a key before the URL says which token, or which
\* object, is meant; both can be told from a certificate that was found there.
TokenKey ==
  /\ load.step = "key" /\ KeyOnToken
  /\ \/ \E k \in Keys : To([Step("sign") EXCEPT !.key = k])
     \/ tries > 0 /\ To([Step("pin") EXCEPT !.back = "key", !.attempt = 0])
     \/ sources.key = "same" /\ load.url = "given" /\ To([load EXCEPT !.url = "token"])
     \/ sources.key = "same" /\ load.url = "token" /\ To([load EXCEPT !.url = "id"])
     \/ Fail

FileKeyFails ==
  /\ load.step = "key" /\ ~ KeyOnToken
  /\ Fail

\* The blob of a key in a TPM.
TpmKey ==
  /\ load.step = "key" /\ ~ KeyOnToken
  /\ \E k \in Keys : To([Step("sign") EXCEPT !.key = k])

\* PKCS#1 and PKCS#8, PEM and DER.
PlainKey ==
  /\ load.step = "key" /\ ~ KeyOnToken
  /\ \E k \in Keys : To([Step("match") EXCEPT !.key = k])

\* The same in OpenSSL's PEM, encrypted, ...
EncryptedPem ==
  /\ load.step = "key" /\ ~ KeyOnToken
  /\ \E k \in Keys : To([Step("passphrase") EXCEPT !.back = "match", !.key = k, !.lock = "right", !.attempt = 0])

\* ... which has a header and padding that have to be right, ...
PemHeader ==
  /\ load.step = "passphrase" /\ load.back = "match" /\ load.attempt = 0
  /\ Fail

\* ... and in PKCS#8, where no passphrase is the empty one.
EncryptedPkcs8 ==
  /\ load.step = "key" /\ ~ KeyOnToken
  /\ \E k \in Keys, lock \in {"right", "empty"} :
       To([Step("passphrase") EXCEPT !.back = "match", !.key = k, !.lock = lock, !.attempt = 0])

\* The certificates there are to choose from.
Candidates == IF load.extra = <<>> THEN <<load.cert>> ELSE load.extra

Matched(i) ==
  [Step("chain") EXCEPT !.cert = Candidates[i], !.chain = <<Candidates[i]>>,
                        !.extra = IF @ = <<>> THEN @ ELSE [@ EXCEPT ![i] = None]]

\* Broken on purpose: the first certificate will do.
Match_First(step) ==
  /\ load.step = step
  /\ To(Matched(1))

\* By the name of the key; and, for one that does not show itself, by a
\* signature, which the token may want its PIN for.
Match(step) ==
  /\ load.step = step
  /\ LET i == Place(Candidates, load.key) IN IF i = 0 THEN Fail ELSE To(Matched(i))

MatchById == Match("match")
MatchBySignature == Match("sign")

SignFails ==
  /\ load.step = "sign"
  /\ \/ Fail
     \/ KeyOnToken /\ tries > 0 /\ To([Step("pin") EXCEPT !.back = "sign", !.attempt = 0])

-----------------------------------------------------------------------------
\* The chain, which ends below a root.

Last(chain) == chain[Len(chain)]

InExtra == Place(load.extra, Issuer[Last(load.chain)])

AddIssuer(extra) ==
  LET issuer == Issuer[Last(load.chain)]
  IN IF SelfSigned(issuer) THEN To([Step("assign") EXCEPT !.extra = extra])
     ELSE To([load EXCEPT !.chain = Append(@, issuer), !.extra = extra])

FromExtra ==
  /\ load.step = "chain" /\ InExtra # 0
  /\ AddIssuer([load.extra EXCEPT ![InExtra] = None])

\* From those the user trusts, or from the token the certificate came from.
FromTrust ==
  /\ load.step = "chain" /\ InExtra = 0
  /\ Issuer[Last(load.chain)] \in load.trust \/ sources.cert = "token"
  /\ AddIssuer(load.extra)

ChainEnds ==
  /\ load.step = "chain" /\ InExtra = 0 /\ Issuer[Last(load.chain)] \notin load.trust
  /\ To(Step("assign"))

\* A key that cannot do PSS rules out TLS 1.3, if it is RSA.
Assign ==
  /\ load.step = "assign"
  /\ load' = Step("loaded")
  /\ no_tls13' = (no_tls13 \/ ~ sources.pss)
  /\ UNCHANGED <<sources, secrets>>

AssignFails ==
  /\ load.step = "assign"
  /\ load' = [NoLoad EXCEPT !.step = "failed"]
  /\ no_tls13' \in {no_tls13, no_tls13 \/ ~ sources.pss}
  /\ UNCHANGED <<sources, secrets>>

load_certificate ==
  \/ TokenCert \/ FileFails \/ Pkcs12 \/ PemCerts \/ ParsePkcs12
  \/ Unreadable \/ TryPassphrase \/ AskPassphrase
  \/ CachedPin \/ PasswordIsPin \/ AskPin
  \/ TokenKey \/ FileKeyFails \/ TpmKey \/ PlainKey \/ EncryptedPem \/ PemHeader \/ EncryptedPkcs8
  \/ MatchById \/ MatchBySignature \/ SignFails
  \/ FromExtra \/ FromTrust \/ ChainEnds
  \/ Assign \/ AssignFails
=============================================================================
