----------------------------- MODULE Tls_proofs -----------------------------
(***************************************************************************)
(* Tls for any hosts, certificates, addresses, connections and tries at a  *)
(* PIN: who is at the other end of a connection, which secrets are offered *)
(* again, and what the client's chain of certificates is.                  *)
(***************************************************************************)
EXTENDS Tls, SequenceTheorems, WellFoundedInduction, TLAPS

KnownPeer(h, c) ==
  \/ c \in options.pins \/ <<h, c>> \in options.cafile
  \/ options.pins = {} /\ <<h, c>> \in options.system \cup yes

\* There is no certificate before a handshake, it has been looked at after one,
\* and only that one passes when the session renegotiates.
PeerLookedAt ==
  /\ accepted_certs \subseteq yes
  /\ options.pins # {} => yes = {} /\ pc # "ask"
  /\ pc \in {"socket", "names", "none", "reconnect", "connected", "load", "hello"} => peer_cert = None
  /\ pc = "handshake" /\ peer_cert # None => KnownPeer(host, peer_cert)
  /\ pc \in {"validate", "ask", "refused", "finished", "up", "io"} => shown = peer_cert
  /\ pc \in {"finished", "up", "io"} => KnownPeer(host, peer_cert)

\* The password is not tried twice because it is forgotten, and the PIN of the
\* cache is only wrong while another is asked for, or where the token is locked.
SecretsKept ==
  /\ pc # "load" => load = NoLoad
  /\ tries \in 0 .. MaxTries
  /\ password \in Secrets \cup {None} /\ pin_cache \in Secrets \cup {None}
  /\ <<"token", "right">> \notin refused
  /\ repeated = FALSE
  /\ password # None => refused = {} /\ pin_cache = None
  /\ load.step = "pin" => tries > 0
  /\ load.step = "pin" /\ load.attempt > 0 => password = None
  /\ pin_cache # None /\ <<"token", pin_cache>> \in refused =>
       tries = 0 \/ (load.step = "pin" /\ load.attempt > 0)

Certs == {"user", "inter", "policy", "root", "other", "self"}

Steps == {None, "cert", "key", "pin", "passphrase", "ask", "pkcs12", "match", "sign", "chain",
          "assign", "loaded", "failed"}

Backs == {None, "cert", "key", "sign", "pkcs12", "match"}

Loads ==
  [step : Steps,
   extra : Seq(Certs \cup {None}), cert : Certs \cup {None}, key : Keys \cup {None},
   chain : Seq(Certs), url : {"given", "token", "id"}, lock : {"right", "empty"},
   pass : Secrets \cup {None, "empty"}, attempt : {0, 1},
   back : Backs, trust : SUBSET Certs]

\* There is a key wherever a certificate is looked for that belongs to it.
KeyIsThere ==
  /\ load.step \in {"passphrase", "ask"} => load.back \in {"pkcs12", "match"} /\ load.key \in Keys
  /\ load.step \in {"pkcs12", "match", "sign"} => load.key \in Keys
  /\ load.step = "pin" => load.back \in {"cert", "key", "sign"}
  /\ load.step = "pin" /\ load.back = "sign" => load.key \in Keys
  /\ load.step = "chain" => load.chain # <<>>

LoadOK == load \in Loads /\ KeyIsThere

\* ChainFits, while the chain grows.
Linked ==
  load.step \in {"chain", "assign"} =>
    /\ load.chain[1] = load.key
    /\ \A i \in 2 .. Len(load.chain) :
         load.chain[i] = Issuer[load.chain[i - 1]] /\ ~ SelfSigned(load.chain[i])

USE DEF None, Goto

\* A set of naturals has a least element.
LEMMA LeastOf ==
  ASSUME NEW T, T \subseteq Nat, T # {}
  PROVE  \E x \in T : \A y \in T : ~ (y < x)
<1>1. IsWellFoundedOn({ss \in Nat \X Nat : ss[1] < ss[2]}, Nat)
  BY NatLessThanWellFounded, Zenon DEF OpToRel
<1>2. PICK x \in T : \A y \in T : ~ (<<y, x>> \in {ss \in Nat \X Nat : ss[1] < ss[2]})
  BY <1>1, WFMin, Zenon
<1> QED
  BY <1>2

\* The place of a key's certificate is one that has it.
LEMMA PlaceIs ==
  ASSUME NEW S, NEW certs \in Seq(S), NEW key
  PROVE  /\ Place(certs, key) # 0 =>
              Place(certs, key) \in DOMAIN certs /\ certs[Place(certs, key)] = key
         /\ Place(certs, key) = 0 => \A i \in DOMAIN certs : certs[i] # key
<1> DEFINE T == {i \in DOMAIN certs : certs[i] = key}
<1>1. CASE T = {}
  BY <1>1 DEF Place
<1>2. CASE T # {}
  <2>1. T \subseteq Nat /\ DOMAIN certs = 1 .. Len(certs) /\ Len(certs) \in Nat
    BY LenProperties
  <2>2. PICK x \in T : \A y \in T : ~ (y < x)
    BY <1>2, <2>1, LeastOf
  <2>3. x \in DOMAIN certs /\ certs[x] = key /\ \A j \in 1 .. x - 1 : certs[j] # key
    BY <2>1, <2>2
  <2>4. Place(certs, key) = CHOOSE i \in DOMAIN certs : certs[i] = key /\ \A j \in 1 .. i - 1 : certs[j] # key
    BY <1>2 DEF Place
  <2>5. Place(certs, key) \in DOMAIN certs /\ certs[Place(certs, key)] = key
    BY <2>3, <2>4
  <2> QED
    BY <2>1, <2>5
<1> QED
  BY <1>1, <1>2

\* The files hold certificates.
LEMMA FilesOK == \A certs \in Files : certs \in Seq(Certs \cup {None})
<1> DEFINE S == Certs \cup {None}
<1>1. "user" \in S /\ "inter" \in S /\ "other" \in S /\ "root" \in S /\ "self" \in S
  BY DEF Certs
<1> HIDE DEF S
<1>2. <<"user">> \in Seq(S) /\ <<"other">> \in Seq(S) /\ <<"self">> \in Seq(S)
  BY <1>1
<1>3. <<"other", "user", "inter">> \in Seq(S)
  BY <1>1
<1>4. <<"inter", "user", "root">> \in Seq(S)
  BY <1>1
<1> QED
  BY <1>2, <1>3, <1>4 DEF Files, S

\* Nothing loaded is of the type, and so is what is left when a load fails.
LEMMA NoLoadOK ==
  /\ NoLoad \in Loads /\ NoLoad.step = None /\ NoLoad.attempt = 0
  /\ [NoLoad EXCEPT !.step = "failed"] \in Loads
  /\ [NoLoad EXCEPT !.step = "failed"].step = "failed"
<1>1. NoLoad \in Loads /\ NoLoad.step = None /\ NoLoad.attempt = 0
  BY DEF NoLoad, Loads, Steps, Backs
<1> QED
  BY <1>1 DEF Loads, Steps

LEMMA FailOK == Fail => LoadOK'
BY NoLoadOK DEF Fail, To, LoadOK, KeyIsThere

\* After a step that gives a field a value of its type, the load has its type.
LEMMA FieldsOK ==
  ASSUME NEW l \in Loads
  PROVE  /\ \A v \in Steps : [l EXCEPT !.step = v] \in Loads
         /\ \A v \in Seq(Certs \cup {None}) : [l EXCEPT !.extra = v] \in Loads
         /\ \A v \in Certs \cup {None} : [l EXCEPT !.cert = v] \in Loads
         /\ \A v \in Keys \cup {None} : [l EXCEPT !.key = v] \in Loads
         /\ \A v \in Seq(Certs) : [l EXCEPT !.chain = v] \in Loads
         /\ \A v \in {"right", "empty"} : [l EXCEPT !.lock = v] \in Loads
         /\ \A v \in {0, 1} : [l EXCEPT !.attempt = v] \in Loads
         /\ \A v \in Backs : [l EXCEPT !.back = v] \in Loads
         /\ \A v \in SUBSET Certs : [l EXCEPT !.trust = v] \in Loads
BY DEF Loads

\* A PIN that opens the token lets the load go on where it was; another one does
\* not, and may end it.
LEMMA PresentOK ==
  ASSUME LoadOK, load.step = "pin", NEW pin, Present(pin)
  PROVE  LoadOK' /\ load'.step \in {"cert", "key", "sign", "pin", "failed"}
<1> DEFINE on == [load EXCEPT !.step = load.back]
<1>1. load \in Loads /\ load.back \in Steps /\ load.back \in {"cert", "key", "sign"}
  BY DEF LoadOK, KeyIsThere, Steps
<1>2. on \in Loads
  BY <1>1, FieldsOK
<1>3. on.step = load.back /\ on.key = load.key /\ on.back = load.back
  BY <1>1 DEF Loads
<1> HIDE DEF on
<1>4. CASE pin = "right"
  <2>1. load' = [on EXCEPT !.attempt = 0]
    BY <1>4 DEF Present, Step, on
  <2>2. load' \in Loads
    BY <1>2, <2>1, FieldsOK
  <2>3. load'.step = load.back /\ load'.key = load.key /\ load'.back = load.back
    BY <1>2, <1>3, <2>1 DEF Loads
  <2> QED
    BY <1>1, <2>2, <2>3 DEF LoadOK, KeyIsThere
<1>5. CASE pin # "right" /\ tries = 1
  BY <1>5, NoLoadOK DEF Present, LoadOK, KeyIsThere
<1>6. CASE pin # "right" /\ tries # 1
  <2>1. load' = [load EXCEPT !.attempt = 1]
    BY <1>6 DEF Present
  <2>2. load' \in Loads
    BY <1>1, <2>1, FieldsOK
  <2>3. load'.step = "pin" /\ load'.back = load.back /\ load'.key = load.key
    BY <1>1, <2>1 DEF Loads
  <2> QED
    BY <2>2, <2>3 DEF LoadOK, KeyIsThere
<1> QED
  BY <1>4, <1>5, <1>6

\* The place found in the certificates at hand is one of theirs.
LEMMA ExtraOK ==
  ASSUME NEW certs \in Seq(Certs \cup {None}), NEW i \in DOMAIN certs
  PROVE  [certs EXCEPT ![i] = None] \in Seq(Certs \cup {None})
BY LenProperties, ExceptSeq

LEMMA CandidatesOK == LoadOK => Candidates \in Seq(Certs \cup {None})
<1> SUFFICES ASSUME LoadOK PROVE Candidates \in Seq(Certs \cup {None})
  OBVIOUS
<1>1. load.extra \in Seq(Certs \cup {None}) /\ load.cert \in Certs \cup {None}
  BY DEF LoadOK, Loads
<1>2. <<load.cert>> \in Seq(Certs \cup {None})
  BY <1>1
<1> QED
  BY <1>1, <1>2 DEF Candidates

\* The certificate that has been chosen starts the chain.
LEMMA MatchedIs ==
  ASSUME LoadOK, load.key \in Keys, NEW i \in DOMAIN Candidates, Candidates[i] = load.key
  PROVE  /\ Matched(i) \in Loads /\ Matched(i).step = "chain"
         /\ Matched(i).chain = <<load.key>> /\ Matched(i).key = load.key
<1> USE DEF LoadOK
<1>1. load.extra \in Seq(Certs \cup {None}) /\ load.cert \in Certs \cup {None}
  BY DEF Loads
<1>2. load.key \in Certs
  BY CandidatesOK, LenProperties, ElementOfSeq DEF Keys, Certs
<1>3. <<load.key>> \in Seq(Certs)
  BY <1>2
<1> DEFINE rest == IF load.extra = <<>> THEN load.extra ELSE [load.extra EXCEPT ![i] = None]
<1>4. rest \in Seq(Certs \cup {None})
  BY <1>1, ExtraOK DEF Candidates
<1>5. Matched(i) = [Step("chain") EXCEPT !.cert = load.key, !.chain = <<load.key>>, !.extra = rest]
  BY DEF Matched, Step, Loads
<1> HIDE DEF rest
<1>6. Matched(i) \in Loads
  BY <1>2, <1>3, <1>4, <1>5 DEF Step, Loads, Steps
<1>7. Matched(i).step = "chain" /\ Matched(i).chain = <<load.key>> /\ Matched(i).key = load.key
  BY <1>5 DEF Step, Loads
<1> QED
  BY <1>6, <1>7

\* The key finds its certificate, or the load fails.
LEMMA MatchIs ==
  ASSUME LoadOK, NEW step \in {"match", "sign"}, Match(step)
  PROVE  \/ Fail
         \/ /\ load' \in Loads /\ load'.step = "chain"
            /\ load'.chain = <<load.key>> /\ load'.key = load.key
<1> DEFINE i == Place(Candidates, load.key)
<1>1. CASE i = 0
  BY <1>1 DEF Match
<1>2. CASE i # 0
  <2>1. load.key \in Keys
    BY DEF LoadOK, KeyIsThere, Match
  <2>2. i \in DOMAIN Candidates /\ Candidates[i] = load.key
    BY <1>2, CandidatesOK, PlaceIs
  <2>3. load' = Matched(i)
    BY <1>2 DEF Match, To
  <2> QED
    BY <2>1, <2>2, <2>3, MatchedIs
<1> QED
  BY <1>1, <1>2

LEMMA MatchOK ==
  ASSUME LoadOK, NEW step \in {"match", "sign"}, Match(step)
  PROVE  LoadOK'
<1>1. CASE Fail
  BY <1>1, FailOK
<1>2. CASE load' \in Loads /\ load'.step = "chain" /\ load'.chain = <<load.key>>
  BY <1>2 DEF LoadOK, KeyIsThere
<1> QED
  BY <1>1, <1>2, MatchIs

\* The chain grows by the issuer of its last certificate, unless that is a root.
LEMMA AddIssuerIs ==
  ASSUME LoadOK, load.step = "chain", load.chain # <<>>,
         NEW extra \in Seq(Certs \cup {None}), AddIssuer(extra)
  PROVE  /\ load' \in Loads /\ load'.step \in {"chain", "assign"} /\ load'.key = load.key
         /\ \/ load'.chain = load.chain
            \/ /\ load'.chain = Append(load.chain, Issuer[Last(load.chain)])
               /\ ~ SelfSigned(Issuer[Last(load.chain)])
<1> USE DEF LoadOK
<1> DEFINE issuer == Issuer[Last(load.chain)]
<1>1. load \in Loads /\ load.chain \in Seq(Certs)
  BY DEF Loads
<1>2. Last(load.chain) \in Certs
  BY <1>1, LenProperties, EmptySeq, ElementOfSeq DEF Last
<1>3. issuer \in Certs
  BY <1>2 DEF Issuer, Certs
<1>4. Append(load.chain, issuer) \in Seq(Certs)
  BY <1>1, <1>3, AppendProperties
<1>5. CASE SelfSigned(issuer)
  <2>1. load' = [Step("assign") EXCEPT !.extra = extra]
    BY <1>5 DEF AddIssuer, To
  <2>2. load' \in Loads /\ load'.step = "assign" /\ load'.key = load.key /\ load'.chain = load.chain
    BY <1>1, <2>1 DEF Step, Loads, Steps
  <2> QED
    BY <2>2
<1>6. CASE ~ SelfSigned(issuer)
  <2> DEFINE longer == Append(load.chain, issuer)
  <2>1. load' = [load EXCEPT !.chain = longer, !.extra = extra]
    BY <1>1, <1>6 DEF AddIssuer, To, Loads
  <2>2. longer \in Seq(Certs)
    BY <1>4
  <2> HIDE DEF longer
  <2>3. load' \in Loads /\ load'.step = "chain" /\ load'.key = load.key /\ load'.chain = longer
    BY <1>1, <2>1, <2>2 DEF Loads
  <2> QED
    BY <1>6, <2>3 DEF longer
<1> QED
  BY <1>5, <1>6

LEMMA FromExtraIs == LoadOK /\ FromExtra => [load.extra EXCEPT ![InExtra] = None] \in Seq(Certs \cup {None})
<1> SUFFICES ASSUME LoadOK, FromExtra PROVE [load.extra EXCEPT ![InExtra] = None] \in Seq(Certs \cup {None})
  OBVIOUS
<1>1. load.extra \in Seq(Certs \cup {None})
  BY DEF LoadOK, Loads
<1>2. InExtra \in DOMAIN load.extra
  BY <1>1, PlaceIs DEF FromExtra, InExtra
<1> QED
  BY <1>1, <1>2, ExtraOK

LEMMA AddIssuerOK ==
  ASSUME LoadOK, load.step = "chain", NEW extra \in Seq(Certs \cup {None}), AddIssuer(extra)
  PROVE  LoadOK'
BY AddIssuerIs DEF LoadOK, KeyIsThere

\* The load changes nowhere else.
LEMMA LoadChanges ==
  [Next]_vars =>
    \/ UNCHANGED <<load, secrets>> /\ (pc' = "load" <=> pc = "load")
    \/ Credentials \/ LoadEnds \/ LoadStep
<1> SUFFICES ASSUME [Next]_vars
             PROVE  \/ UNCHANGED <<load, secrets>> /\ (pc' = "load" <=> pc = "load")
                    \/ Credentials \/ LoadEnds \/ LoadStep
  OBVIOUS
<1> USE DEF vars, certvars, secrets, tlsvars, socketvars, handshakevars
<1>1. CASE UseAddress
  BY <1>1 DEF UseAddress
<1>2. CASE NoName
  BY <1>2 DEF NoName
<1>3. CASE Resolve
  BY <1>3 DEF Resolve
<1>4. CASE NameFails
  BY <1>4 DEF NameFails
<1>5. CASE Reconnect
  BY <1>5 DEF Reconnect
<1>6. CASE KeepCredentials
  BY <1>6 DEF KeepCredentials
<1>7. CASE Hello
  BY <1>7 DEF Hello
<1>8. CASE HandshakeCancelled
  BY <1>8 DEF HandshakeCancelled
<1>9. CASE validate_peer_cert
  BY <1>9 DEF validate_peer_cert
<1>10. CASE Refused
  BY <1>10 DEF Refused
<1>11. CASE Finished
  BY <1>11 DEF Finished
<1>12. CASE TransferCancelled
  BY <1>12 DEF TransferCancelled
<1>13. CASE Open
  BY <1>13 DEF Open
<1>14. CASE NameAnswers
  BY <1>14 DEF NameAnswers
<1>15. CASE HandshakeFails
  BY <1>15 DEF HandshakeFails
<1>16. CASE VerifyNew
  BY <1>16 DEF VerifyNew
<1>17. CASE VerifyAgain
  BY <1>17 DEF VerifyAgain
<1>18. CASE UserAccepts
  BY <1>18 DEF UserAccepts
<1>19. CASE Wait
  BY <1>19 DEF Wait
<1>20. CASE Transfer
  BY <1>20 DEF Transfer
<1>21. CASE Rehandshake
  BY <1>21 DEF Rehandshake
<1>22. CASE Close
  BY <1>22 DEF Close
<1>23. CASE Reset
  BY <1>23 DEF Reset
<1>24. CASE Cancel
  BY <1>24 DEF Cancel
<1>25. CASE UNCHANGED vars
  BY <1>25
<1> QED
  BY <1>1, <1>2, <1>3, <1>4, <1>5, <1>6, <1>7, <1>8, <1>9, <1>10, <1>11, <1>12, <1>13, <1>14,
     <1>15, <1>16, <1>17, <1>18, <1>19, <1>20, <1>21, <1>22, <1>23, <1>24, <1>25 DEF Next, Client
\* What is loaded keeps its type.
LEMMA LoadOKStep == LoadOK /\ [Next]_vars => LoadOK'
<1> SUFFICES ASSUME LoadOK, [Next]_vars PROVE LoadOK'
  OBVIOUS
<1> USE DEF LoadOK, KeyIsThere
<1>1. CASE UNCHANGED <<load, secrets>> /\ (pc' = "load" <=> pc = "load")
  BY <1>1 DEF LoadOK, KeyIsThere
<1>2. CASE Credentials
  <2>1. CASE UNCHANGED load
    BY <2>1 DEF LoadOK, KeyIsThere
  <2>2. CASE \E trusted \in SUBSET Certs : load' = [NoLoad EXCEPT !.step = "cert", !.trust = trusted]
    <3>1. PICK trusted \in SUBSET Certs : load' = [NoLoad EXCEPT !.step = "cert", !.trust = trusted]
      BY <2>2
    <3>2. NoLoad \in Loads
      BY NoLoadOK
    <3>3. load' \in Loads /\ load'.step = "cert"
      BY <3>1, <3>2 DEF Loads, Steps
    <3> QED
      BY <3>3 DEF LoadOK, KeyIsThere
  <2> QED
    BY <1>2, <2>1, <2>2 DEF Credentials, Certs
<1>3. CASE LoadEnds
  BY <1>3, NoLoadOK DEF LoadEnds, LoadOK, KeyIsThere
<1>4. CASE LoadStep
  <2>0. load_certificate /\ pc = "load" /\ pc' = "load"
    BY <1>4 DEF LoadStep, tlsvars
  <2>1. CASE TokenCert
    <3>1. CASE Fail
      BY <3>1, FailOK
    <3>2. CASE \E c \in {"user", "other", "self"} : load' = [Step("key") EXCEPT !.cert = c]
      <4>1. PICK c \in {"user", "other", "self"} : load' = [Step("key") EXCEPT !.cert = c]
        BY <3>2
      <4>2. c \in Certs
        BY DEF Certs
      <4>3. load' \in Loads
        BY <4>1, <4>2 DEF Step, Loads, Steps
      <4>4. load'.step = "key"
        BY <4>1 DEF Step, Loads
      <4> QED
        BY <4>3, <4>4
    <3>3. CASE load' = [Step("pin") EXCEPT !.back = "cert", !.attempt = 0]
      BY ZenonT(60), <3>3 DEF Step, Loads, Steps, Backs
    <3> QED
      BY <2>1, <3>1, <3>2, <3>3 DEF TokenCert, To
  <2>2. CASE FileFails
    BY <2>0, <2>2, FailOK DEF FileFails, LoadOK
  <2>3. CASE Pkcs12
    <3>1. PICK certs \in Files, key \in Keys, lock \in {"right", "empty"} :
             load' = [Step("passphrase") EXCEPT !.back = "pkcs12", !.extra = certs, !.key = key,
                                                !.lock = lock, !.attempt = 0]
      BY <2>3 DEF Pkcs12, To
    <3>2. certs \in Seq(Certs \cup {None})
      BY FilesOK
    <3>3. load' \in Loads
      BY <3>1, <3>2 DEF Step, Loads, Steps, Backs
    <3>4. load'.step = "passphrase" /\ load'.back = "pkcs12" /\ load'.key = key
      BY <3>1 DEF Step, Loads
    <3> QED
      BY <3>3, <3>4
  <2>4. CASE PemCerts
    <3>1. PICK certs \in Files : load' = [Step("key") EXCEPT !.extra = certs]
      BY <2>4 DEF PemCerts, To
    <3>2. certs \in Seq(Certs \cup {None})
      BY FilesOK
    <3>3. load' \in Loads
      BY <3>1, <3>2 DEF Step, Loads, Steps
    <3>4. load'.step = "key"
      BY <3>1 DEF Step, Loads
    <3> QED
      BY <3>3, <3>4
  <2>5. CASE ParsePkcs12
    <3> DEFINE i == Place(load.extra, load.key)
    <3>0. load.extra \in Seq(Certs \cup {None}) /\ load.key \in Keys
      BY <2>5 DEF ParsePkcs12, Loads
    <3>1. CASE i = 0
      BY <2>5, <3>1, FailOK DEF ParsePkcs12
    <3>2. CASE i # 0
      <4>1. i \in DOMAIN load.extra /\ load.extra[i] = load.key
        BY <3>0, <3>2, PlaceIs
      <4>2. [load.extra EXCEPT ![i] = None] \in Seq(Certs \cup {None})
        BY <3>0, <4>1, ExtraOK
      <4>3. load.key \in Certs
        BY <3>0, <4>1, LenProperties, ElementOfSeq DEF Keys
      <4>4. <<load.key>> \in Seq(Certs)
        BY <4>3
      <4> DEFINE rest == [load.extra EXCEPT ![i] = None]
      <4>5. load' = [Step("chain") EXCEPT !.chain = <<load.key>>, !.cert = load.key, !.extra = rest]
        BY <2>5, <3>2 DEF ParsePkcs12, To, Step, Loads
      <4> HIDE DEF rest, i
      <4>6. rest \in Seq(Certs \cup {None})
        BY <4>2 DEF rest
      <4>7. load' \in Loads
        BY <4>3, <4>4, <4>5, <4>6 DEF Step, Loads, Steps
      <4>8. load'.step = "chain" /\ load'.chain = <<load.key>>
        BY <4>5 DEF Step, Loads
      <4> QED
        BY <4>7, <4>8
    <3> QED
      BY <3>1, <3>2
  <2>6. CASE Unreadable
    <3>1. CASE Fail
      BY <3>1, FailOK
    <3>2. CASE \E certs \in Files : load' = [Step("key") EXCEPT !.extra = certs, !.key = None, !.back = None]
      <4>1. PICK certs \in Files : load' = [Step("key") EXCEPT !.extra = certs, !.key = None, !.back = None]
        BY <3>2
      <4>2. certs \in Seq(Certs \cup {None})
        BY FilesOK
      <4>3. load' \in Loads
        BY <4>1, <4>2 DEF Step, Loads, Steps, Backs
      <4>4. load'.step = "key"
        BY <4>1 DEF Step, Loads
      <4> QED
        BY <4>3, <4>4
    <3> QED
      BY <2>6, <3>1, <3>2 DEF Unreadable, To
  <2>7. CASE TryPassphrase
    BY <2>0, <2>7 DEF TryPassphrase, Offer, Step, Loads, Steps
  <2>8. CASE AskPassphrase
    BY ZenonT(60), <2>0, <2>8, FailOK DEF AskPassphrase, To, Step, Loads, Steps, Secrets
  <2>9. CASE CachedPin
    BY <2>0, <2>9, PresentOK DEF CachedPin
  <2>10. CASE PasswordIsPin
    BY <2>0, <2>10, PresentOK DEF PasswordIsPin
  <2>11. CASE AskPin
    <3>1. CASE \E s \in Secrets : Present(s)
      BY <2>11, <3>1, PresentOK DEF AskPin
    <3>2. CASE load' = [NoLoad EXCEPT !.step = "failed"]
      BY <3>2, NoLoadOK
    <3> QED
      BY <2>11, <3>1, <3>2 DEF AskPin
  <2>12. CASE TokenKey
    BY ZenonT(60), <2>0, <2>12, FailOK DEF TokenKey, To, Step, Loads, Steps, Backs
  <2>13. CASE FileKeyFails
    BY <2>0, <2>13, FailOK DEF FileKeyFails, LoadOK
  <2>14. CASE TpmKey
    BY ZenonT(60), <2>0, <2>14 DEF TpmKey, To, Step, Loads, Steps, Backs
  <2>15. CASE PlainKey
    BY ZenonT(60), <2>0, <2>15 DEF PlainKey, To, Step, Loads, Steps, Backs
  <2>16. CASE EncryptedPem
    <3>1. PICK k \in Keys :
             load' = [Step("passphrase") EXCEPT !.back = "match", !.key = k, !.lock = "right", !.attempt = 0]
      BY <2>16 DEF EncryptedPem, To
    <3>2. load' \in Loads
      BY <3>1 DEF Step, Loads, Steps, Backs
    <3>3. load'.step = "passphrase" /\ load'.back = "match" /\ load'.key = k
      BY <3>1 DEF Step, Loads
    <3> QED
      BY <3>2, <3>3
  <2>17. CASE PemHeader
    BY <2>0, <2>17, FailOK DEF PemHeader, LoadOK
  <2>18. CASE EncryptedPkcs8
    <3>1. PICK k \in Keys, lock \in {"right", "empty"} :
             load' = [Step("passphrase") EXCEPT !.back = "match", !.key = k, !.lock = lock, !.attempt = 0]
      BY <2>18 DEF EncryptedPkcs8, To
    <3>2. load' \in Loads
      BY <3>1 DEF Step, Loads, Steps, Backs
    <3>3. load'.step = "passphrase" /\ load'.back = "match" /\ load'.key = k
      BY <3>1 DEF Step, Loads
    <3> QED
      BY <3>2, <3>3
  <2>19. CASE MatchById
    BY <2>0, <2>19, MatchOK DEF MatchById, Match
  <2>20. CASE MatchBySignature
    BY <2>0, <2>20, MatchOK DEF MatchBySignature, Match
  <2>21. CASE SignFails
    BY ZenonT(60), <2>0, <2>21, FailOK DEF SignFails, To, Step, Loads, Steps, Backs
  <2>22. CASE FromExtra
    BY <2>0, <2>22, FromExtraIs, AddIssuerOK DEF FromExtra
  <2>23. CASE FromTrust
    <3>1. load.extra \in Seq(Certs \cup {None})
      BY DEF Loads
    <3> QED
      BY <2>23, <3>1, AddIssuerOK DEF FromTrust
  <2>24. CASE ChainEnds
    BY <2>0, <2>24 DEF ChainEnds, To, Step, Loads, Steps, Backs
  <2>25. CASE Assign
    BY <2>0, <2>25 DEF Assign, To, Step, Loads, Steps, Backs
  <2>26. CASE AssignFails
    BY <2>0, <2>26, NoLoadOK DEF AssignFails
  <2> QED
    BY <2>0, <2>1, <2>2, <2>3, <2>4, <2>5, <2>6, <2>7, <2>8, <2>9, <2>10, <2>11, <2>12, <2>13,
       <2>14, <2>15, <2>16, <2>17, <2>18, <2>19, <2>20, <2>21, <2>22, <2>23, <2>24, <2>25,
       <2>26 DEF load_certificate
<1> QED
  BY <1>1, <1>2, <1>3, <1>4, LoadChanges

\* Only a certificate that is known for this host lets the connection be used.
LEMMA PeerStep == PeerLookedAt /\ [Next]_vars => PeerLookedAt'
<1> SUFFICES ASSUME PeerLookedAt, [Next]_vars PROVE PeerLookedAt'
  OBVIOUS
<1> USE DEF PeerLookedAt, KnownPeer, Trusted, certvars, tlsvars, secrets, socketvars, handshakevars
<1>1. CASE UNCHANGED vars
  BY <1>1 DEF vars
<1>2. CASE UseAddress
  BY <1>2 DEF UseAddress
<1>3. CASE NoName
  BY <1>3 DEF NoName
<1>4. CASE Resolve
  BY <1>4 DEF Resolve
<1>5. CASE NameFails
  BY <1>5 DEF NameFails
<1>6. CASE Reconnect
  BY <1>6 DEF Reconnect
<1>7. CASE Credentials
  BY <1>7 DEF Credentials
<1>8. CASE KeepCredentials
  BY <1>8 DEF KeepCredentials
<1>9. CASE LoadEnds
  BY <1>9 DEF LoadEnds
<1>10. CASE Hello
  BY <1>10 DEF Hello
<1>11. CASE HandshakeCancelled
  BY <1>11 DEF HandshakeCancelled
<1>12. CASE validate_peer_cert
  BY <1>12 DEF validate_peer_cert, Known
<1>13. CASE Refused
  BY <1>13 DEF Refused
<1>14. CASE Finished
  BY <1>14 DEF Finished
<1>15. CASE TransferCancelled
  BY <1>15 DEF TransferCancelled
<1>16. CASE Open
  BY <1>16 DEF Open
<1>17. CASE NameAnswers
  BY <1>17 DEF NameAnswers
<1>18. CASE HandshakeFails
  BY <1>18 DEF HandshakeFails
<1>19. CASE VerifyNew
  BY <1>19 DEF VerifyNew
<1>20. CASE VerifyAgain
  BY <1>20 DEF VerifyAgain
<1>21. CASE UserAccepts
  BY <1>21 DEF UserAccepts
<1>22. CASE Wait
  BY <1>22 DEF Wait
<1>23. CASE Transfer
  BY <1>23 DEF Transfer
<1>24. CASE Rehandshake
  BY <1>24 DEF Rehandshake
<1>25. CASE Close
  BY <1>25 DEF Close
<1>26. CASE Reset
  BY <1>26 DEF Reset
<1>27. CASE Cancel
  BY <1>27 DEF Cancel
<1>28. CASE LoadStep
  BY <1>28 DEF LoadStep
<1> QED
  BY <1>1, <1>2, <1>3, <1>4, <1>5, <1>6, <1>7, <1>8, <1>9, <1>10, <1>11, <1>12, <1>13, <1>14,
     <1>15, <1>16, <1>17, <1>18, <1>19, <1>20, <1>21, <1>22, <1>23, <1>24, <1>25, <1>26, <1>27,
     <1>28 DEF Next, Client

LEMMA FailIs == Fail => load'.step = "failed" /\ UNCHANGED secrets
BY NoLoadOK DEF Fail, To, secrets

\* Nothing changes for the secrets while no PIN is asked for, ...
LEMMA OtherStep ==
  ASSUME SecretsKept, pc' = "load", UNCHANGED secrets, load.step # "pin", load'.step # "pin"
  PROVE  SecretsKept'
BY DEF SecretsKept, secrets

\* ... nor when the load comes to that, ...
LEMMA PinWanted ==
  ASSUME SecretsKept, pc' = "load", UNCHANGED secrets, load.step # "pin", tries > 0,
         load'.step = "pin", load'.attempt = 0
  PROVE  SecretsKept'
BY DEF SecretsKept, secrets

\* ... and the one that is presented is right, or wrong for as long as it is in the cache.
LEMMA PinPresented ==
  ASSUME SecretsKept, LoadOK, load.step = "pin", NEW pin \in Secrets, Present(pin), pc' = "load",
         pin_cache' = pin, password' = None, repeated' = FALSE
  PROVE  SecretsKept'
<1>1. load \in Loads /\ load.back \in {"cert", "key", "sign"}
  BY DEF LoadOK, KeyIsThere
<1>2. MaxTries \in Nat \ {0} /\ tries \in 0 .. MaxTries /\ tries > 0
  BY ClientCertAssumption DEF SecretsKept
<1>3. CASE pin = "right"
  <2>1. load' = [Step(load.back) EXCEPT !.attempt = 0]
    BY <1>3 DEF Present
  <2>2. load'.step = load.back
    BY <1>1, <2>1 DEF Step, Loads
  <2>3. tries' = MaxTries /\ refused' = refused
    BY <1>3 DEF Present
  <2> QED
    BY <1>1, <1>2, <1>3, <2>2, <2>3 DEF SecretsKept, Secrets
<1>4. CASE pin # "right"
  <2>1. tries' = tries - 1 /\ refused' = refused \cup {<<"token", pin>>}
    BY <1>4 DEF Present
  <2>2. <<"token", "right">> \notin refused'
    BY <1>4, <2>1 DEF SecretsKept
  <2>3. CASE tries = 1
    <3>1. load'.step = "failed"
      BY <1>4, <2>3, NoLoadOK DEF Present
    <3> QED
      BY <1>2, <2>1, <2>2, <2>3, <3>1 DEF SecretsKept, Secrets
  <2>4. CASE tries # 1
    <3>1. load' = [load EXCEPT !.attempt = 1]
      BY <1>4, <2>4 DEF Present
    <3>2. load'.step = "pin" /\ load'.attempt = 1
      BY <1>1, <3>1 DEF Loads
    <3> QED
      BY <1>2, <2>1, <2>2, <2>4, <3>2 DEF SecretsKept, Secrets
  <2> QED
    BY <2>3, <2>4
<1> QED
  BY <1>3, <1>4

\* A secret that was refused is forgotten, or the token takes no more.
LEMMA SecretsStep == SecretsKept /\ LoadOK /\ [Next]_vars => SecretsKept'
<1> SUFFICES ASSUME SecretsKept, LoadOK, [Next]_vars PROVE SecretsKept'
  OBVIOUS
<1>1. CASE UNCHANGED <<load, secrets>> /\ (pc' = "load" <=> pc = "load")
  BY <1>1 DEF SecretsKept, secrets
<1>2. CASE Credentials
  <2>1. load = NoLoad /\ (load' = load \/ load'.step # "pin") /\ UNCHANGED secrets
    <3>1. \A trusted \in SUBSET Certs : [NoLoad EXCEPT !.step = "cert", !.trust = trusted].step = "cert"
      BY NoLoadOK DEF Loads
    <3> QED
      BY <1>2, <3>1 DEF Credentials, Certs, SecretsKept
  <2> QED
    BY <1>2, <2>1, NoLoadOK DEF Credentials, SecretsKept, secrets
<1>3. CASE LoadEnds
  BY <1>3, NoLoadOK DEF LoadEnds, SecretsKept, secrets
<1>4. CASE LoadStep
  <2>0. load_certificate /\ pc = "load" /\ pc' = "load"
    BY <1>4 DEF LoadStep, tlsvars
  <2>1. CASE TokenCert
    <3>1. load \in Loads /\ load.step = "cert"
      BY <2>1 DEF TokenCert, LoadOK
    <3>2. CASE Fail
      BY <2>0, <3>1, <3>2, FailIs, OtherStep
    <3>3. CASE \E c \in {"user", "other", "self"} : To([Step("key") EXCEPT !.cert = c])
      <4>1. PICK c \in {"user", "other", "self"} : To([Step("key") EXCEPT !.cert = c])
        BY <3>3
      <4>2. load'.step = "key" /\ UNCHANGED secrets
        BY <3>1, <4>1 DEF To, Step, Loads, secrets
      <4> QED
        BY <2>0, <3>1, <4>2, OtherStep
    <3>4. CASE tries > 0 /\ To([Step("pin") EXCEPT !.back = "cert", !.attempt = 0])
      <4>1. load'.step = "pin" /\ load'.attempt = 0 /\ UNCHANGED secrets
        BY <3>1, <3>4 DEF To, Step, Loads, secrets
      <4> QED
        BY <2>0, <3>1, <3>4, <4>1, PinWanted
    <3> QED
      BY <2>1, <3>2, <3>3, <3>4 DEF TokenCert
  <2>2. CASE FileFails
    BY <2>0, <2>2, FailIs, OtherStep DEF FileFails
  <2>3. CASE Pkcs12
    <3>1. load \in Loads /\ load.step = "cert"
      BY <2>3 DEF Pkcs12, LoadOK
    <3>2. PICK certs \in Files, key \in Keys, lock \in {"right", "empty"} :
             To([Step("passphrase") EXCEPT !.back = "pkcs12", !.extra = certs, !.key = key,
                                                   !.lock = lock, !.attempt = 0])
      BY <2>3 DEF Pkcs12
    <3>3. load'.step = "passphrase" /\ UNCHANGED secrets
      BY <3>1, <3>2 DEF To, Step, Loads, secrets
    <3> QED
      BY <2>0, <3>1, <3>3, OtherStep
  <2>4. CASE PemCerts
    <3>1. load \in Loads /\ load.step = "cert"
      BY <2>4 DEF PemCerts, LoadOK
    <3>2. PICK certs \in Files :
             To([Step("key") EXCEPT !.extra = certs])
      BY <2>4 DEF PemCerts
    <3>3. load'.step = "key" /\ UNCHANGED secrets
      BY <3>1, <3>2 DEF To, Step, Loads, secrets
    <3> QED
      BY <2>0, <3>1, <3>3, OtherStep
  <2>5. CASE ParsePkcs12
    <3>1. load \in Loads /\ load.step = "pkcs12"
      BY <2>5 DEF ParsePkcs12, LoadOK
    <3>2. CASE Fail
      BY <2>0, <3>1, <3>2, FailIs, OtherStep
    <3>3. CASE ~ Fail
      <4>1. load'.step = "chain" /\ UNCHANGED secrets
        BY <2>5, <3>1, <3>3 DEF ParsePkcs12, To, Step, Loads, secrets
      <4> QED
        BY <2>0, <3>1, <4>1, OtherStep
    <3> QED
      BY <3>2, <3>3
  <2>6. CASE Unreadable
    <3>1. load \in Loads /\ load.step = "passphrase"
      BY <2>6 DEF Unreadable, LoadOK
    <3>2. CASE Fail
      BY <2>0, <3>1, <3>2, FailIs, OtherStep
    <3>3. CASE \E certs \in Files : To([Step("key") EXCEPT !.extra = certs, !.key = None, !.back = None])
      <4>1. PICK certs \in Files : To([Step("key") EXCEPT !.extra = certs, !.key = None, !.back = None])
        BY <3>3
      <4>2. load'.step = "key" /\ UNCHANGED secrets
        BY <3>1, <4>1 DEF To, Step, Loads, secrets
      <4> QED
        BY <2>0, <3>1, <4>2, OtherStep
    <3> QED
      BY <2>6, <3>2, <3>3 DEF Unreadable
  <2>7. CASE TryPassphrase
    <3>1. load \in Loads /\ load.step = "passphrase" /\ load.back \in {"pkcs12", "match"}
      BY <2>7 DEF TryPassphrase, LoadOK, KeyIsThere
    <3>2. load'.step \in {"pkcs12", "match", "ask"}
      BY <2>7, <3>1 DEF TryPassphrase, Step, Loads
    <3>3. repeated' = FALSE
      <4>1. ~ repeated /\ (password # None => refused = {})
        BY DEF SecretsKept
      <4>2. load.attempt = 0 /\ password = None => Offer = "empty"
        BY DEF Offer
      <4> QED
        BY <2>7, <4>1, <4>2 DEF TryPassphrase
    <3>4. \A secret : <<"token", secret>> \in refused' <=> <<"token", secret>> \in refused
      BY <2>7 DEF TryPassphrase
    <3>5. password' = None /\ UNCHANGED <<pin_cache, tries>>
      BY <2>7 DEF TryPassphrase
    <3> QED
      BY <2>0, <3>1, <3>2, <3>3, <3>4, <3>5 DEF SecretsKept
  <2>8. CASE AskPassphrase
    <3>1. load \in Loads /\ load.step = "ask"
      BY <2>8 DEF AskPassphrase, LoadOK
    <3>2. CASE Fail
      BY <2>0, <3>1, <3>2, FailIs, OtherStep
    <3>3. CASE \E s \in Secrets \cup {"empty"} : To([Step("passphrase") EXCEPT !.pass = s, !.attempt = 1])
      <4>1. PICK s \in Secrets \cup {"empty"} : To([Step("passphrase") EXCEPT !.pass = s, !.attempt = 1])
        BY <3>3
      <4>2. load'.step = "passphrase" /\ UNCHANGED secrets
        BY <3>1, <4>1 DEF To, Step, Loads, secrets
      <4> QED
        BY <2>0, <3>1, <4>2, OtherStep
    <3> QED
      BY <2>8, <3>2, <3>3 DEF AskPassphrase
  <2>9. CASE CachedPin
    <3>1. load.step = "pin" /\ load.attempt = 0 /\ pin_cache \in Secrets /\ Present(pin_cache)
      BY <2>9 DEF CachedPin, SecretsKept
    <3>2. <<"token", pin_cache>> \notin refused /\ password = None
      BY <2>9, <3>1 DEF CachedPin, SecretsKept
    <3>3. repeated' = FALSE
      BY <2>9, <3>2 DEF CachedPin, Repeats, SecretsKept
    <3> QED
      BY <2>0, <2>9, <3>1, <3>2, <3>3, PinPresented DEF CachedPin
  <2>10. CASE PasswordIsPin
    <3>1. load.step = "pin" /\ password \in Secrets /\ Present(password) /\ refused = {}
      BY <2>10 DEF PasswordIsPin, SecretsKept
    <3>2. repeated' = FALSE
      BY <2>10, <3>1 DEF PasswordIsPin, Repeats, SecretsKept
    <3> QED
      BY <2>0, <2>10, <3>1, <3>2, PinPresented DEF PasswordIsPin
  <2>11. CASE AskPin
    <3>1. load.step = "pin" /\ load.attempt \in {0, 1} /\ password = None /\ password' = None /\ repeated' = FALSE
      BY <2>11 DEF AskPin, LoadOK, Loads, SecretsKept
    <3>2. CASE \E s \in Secrets : Present(s) /\ pin_cache' = s
      BY <2>0, <3>1, <3>2, PinPresented
    <3>3. CASE load' = [NoLoad EXCEPT !.step = "failed"] /\ pin_cache' = None /\ UNCHANGED <<tries, refused>>
      <4>1. load'.step = "failed"
        BY <3>3, NoLoadOK
      <4> QED
        BY <2>0, <3>1, <3>3, <4>1 DEF SecretsKept
    <3> QED
      BY <2>11, <3>2, <3>3 DEF AskPin
  <2>12. CASE TokenKey
    <3>1. load \in Loads /\ load.step = "key"
      BY <2>12 DEF TokenKey, LoadOK
    <3>2. CASE Fail
      BY <2>0, <3>1, <3>2, FailIs, OtherStep
    <3>3. CASE \E k \in Keys : To([Step("sign") EXCEPT !.key = k])
      <4>1. PICK k \in Keys : To([Step("sign") EXCEPT !.key = k])
        BY <3>3
      <4>2. load'.step = "sign" /\ UNCHANGED secrets
        BY <3>1, <4>1 DEF To, Step, Loads, secrets
      <4> QED
        BY <2>0, <3>1, <4>2, OtherStep
    <3>4. CASE tries > 0 /\ To([Step("pin") EXCEPT !.back = "key", !.attempt = 0])
      <4>1. load'.step = "pin" /\ load'.attempt = 0 /\ UNCHANGED secrets
        BY <3>1, <3>4 DEF To, Step, Loads, secrets
      <4> QED
        BY <2>0, <3>1, <3>4, <4>1, PinWanted
    <3>5. CASE To([load EXCEPT !.url = "token"]) \/ To([load EXCEPT !.url = "id"])
      <4>1. load'.step = "key" /\ UNCHANGED secrets
        BY <3>1, <3>5 DEF To, Loads, secrets
      <4> QED
        BY <2>0, <3>1, <4>1, OtherStep
    <3> QED
      BY <2>12, <3>2, <3>3, <3>4, <3>5 DEF TokenKey
  <2>13. CASE FileKeyFails
    BY <2>0, <2>13, FailIs, OtherStep DEF FileKeyFails
  <2>14. CASE TpmKey
    <3>1. load \in Loads /\ load.step = "key"
      BY <2>14 DEF TpmKey, LoadOK
    <3>2. PICK k \in Keys :
             To([Step("sign") EXCEPT !.key = k])
      BY <2>14 DEF TpmKey
    <3>3. load'.step = "sign" /\ UNCHANGED secrets
      BY <3>1, <3>2 DEF To, Step, Loads, secrets
    <3> QED
      BY <2>0, <3>1, <3>3, OtherStep
  <2>15. CASE PlainKey
    <3>1. load \in Loads /\ load.step = "key"
      BY <2>15 DEF PlainKey, LoadOK
    <3>2. PICK k \in Keys :
             To([Step("match") EXCEPT !.key = k])
      BY <2>15 DEF PlainKey
    <3>3. load'.step = "match" /\ UNCHANGED secrets
      BY <3>1, <3>2 DEF To, Step, Loads, secrets
    <3> QED
      BY <2>0, <3>1, <3>3, OtherStep
  <2>16. CASE EncryptedPem
    <3>1. load \in Loads /\ load.step = "key"
      BY <2>16 DEF EncryptedPem, LoadOK
    <3>2. PICK k \in Keys :
             To([Step("passphrase") EXCEPT !.back = "match", !.key = k, !.lock = "right", !.attempt = 0])
      BY <2>16 DEF EncryptedPem
    <3>3. load'.step = "passphrase" /\ UNCHANGED secrets
      BY <3>1, <3>2 DEF To, Step, Loads, secrets
    <3> QED
      BY <2>0, <3>1, <3>3, OtherStep
  <2>17. CASE PemHeader
    BY <2>0, <2>17, FailIs, OtherStep DEF PemHeader
  <2>18. CASE EncryptedPkcs8
    <3>1. load \in Loads /\ load.step = "key"
      BY <2>18 DEF EncryptedPkcs8, LoadOK
    <3>2. PICK k \in Keys, lock \in {"right", "empty"} :
             To([Step("passphrase") EXCEPT !.back = "match", !.key = k, !.lock = lock, !.attempt = 0])
      BY <2>18 DEF EncryptedPkcs8
    <3>3. load'.step = "passphrase" /\ UNCHANGED secrets
      BY <3>1, <3>2 DEF To, Step, Loads, secrets
    <3> QED
      BY <2>0, <3>1, <3>3, OtherStep
  <2>19. CASE MatchById
    <3>1. Match("match") /\ load.step = "match"
      BY <2>19 DEF MatchById, Match
    <3>2. load'.step \in {"failed", "chain"} /\ UNCHANGED secrets
      BY <3>1, MatchIs, FailIs DEF Match, To, secrets
    <3> QED
      BY <2>0, <3>1, <3>2, OtherStep
  <2>20. CASE MatchBySignature
    <3>1. Match("sign") /\ load.step = "sign"
      BY <2>20 DEF MatchBySignature, Match
    <3>2. load'.step \in {"failed", "chain"} /\ UNCHANGED secrets
      BY <3>1, MatchIs, FailIs DEF Match, To, secrets
    <3> QED
      BY <2>0, <3>1, <3>2, OtherStep
  <2>21. CASE SignFails
    <3>1. load \in Loads /\ load.step = "sign"
      BY <2>21 DEF SignFails, LoadOK
    <3>2. CASE Fail
      BY <2>0, <3>1, <3>2, FailIs, OtherStep
    <3>3. CASE tries > 0 /\ To([Step("pin") EXCEPT !.back = "sign", !.attempt = 0])
      <4>1. load'.step = "pin" /\ load'.attempt = 0 /\ UNCHANGED secrets
        BY <3>1, <3>3 DEF To, Step, Loads, secrets
      <4> QED
        BY <2>0, <3>1, <3>3, <4>1, PinWanted
    <3> QED
      BY <2>21, <3>2, <3>3 DEF SignFails
  <2>22. CASE FromExtra
    <3>1. PICK extra \in Seq(Certs \cup {None}) : AddIssuer(extra)
      BY <2>22, FromExtraIs DEF FromExtra
    <3>2. load.step = "chain" /\ load.chain # <<>>
      BY <2>22 DEF FromExtra, LoadOK, KeyIsThere
    <3>3. load'.step \in {"chain", "assign"}
      BY <3>1, <3>2, AddIssuerIs
    <3>4. UNCHANGED secrets
      BY <3>1 DEF AddIssuer, To, secrets
    <3> QED
      BY <2>0, <3>2, <3>3, <3>4, OtherStep
  <2>23. CASE FromTrust
    <3>1. load.extra \in Seq(Certs \cup {None}) /\ AddIssuer(load.extra)
      BY <2>23 DEF FromTrust, LoadOK, Loads
    <3>2. load.step = "chain" /\ load.chain # <<>>
      BY <2>23 DEF FromTrust, LoadOK, KeyIsThere
    <3>3. load'.step \in {"chain", "assign"}
      BY <3>1, <3>2, AddIssuerIs
    <3>4. UNCHANGED secrets
      BY <3>1 DEF AddIssuer, To, secrets
    <3> QED
      BY <2>0, <3>2, <3>3, <3>4, OtherStep
  <2>24. CASE ChainEnds
    <3>1. load \in Loads /\ load.step = "chain"
      BY <2>24 DEF ChainEnds, LoadOK
    <3>2. load'.step = "assign" /\ UNCHANGED secrets
      BY <2>24, <3>1 DEF ChainEnds, To, Step, Loads, secrets
    <3> QED
      BY <2>0, <3>1, <3>2, OtherStep
  <2>25. CASE Assign
    <3>1. load \in Loads /\ load.step = "assign"
      BY <2>25 DEF Assign, LoadOK
    <3>2. load'.step = "loaded" /\ UNCHANGED secrets
      BY <2>25, <3>1 DEF Assign, To, Step, Loads, secrets
    <3> QED
      BY <2>0, <3>1, <3>2, OtherStep
  <2>26. CASE AssignFails
    <3>1. load.step = "assign" /\ load'.step = "failed" /\ UNCHANGED secrets
      BY <2>26, NoLoadOK DEF AssignFails, secrets
    <3> QED
      BY <2>0, <3>1, OtherStep
  <2> QED
    BY <2>0, <2>1, <2>2, <2>3, <2>4, <2>5, <2>6, <2>7, <2>8, <2>9, <2>10, <2>11, <2>12, <2>13,
       <2>14, <2>15, <2>16, <2>17, <2>18, <2>19, <2>20, <2>21, <2>22, <2>23, <2>24, <2>25,
       <2>26 DEF load_certificate
<1> QED
  BY <1>1, <1>2, <1>3, <1>4, LoadChanges

LEMMA SameLoad ==
  ASSUME Linked, ChainFits, UNCHANGED load
  PROVE  (Linked /\ ChainFits)'
BY DEF Linked, ChainFits

\* There is no chain yet, or none any more.
LEMMA NoChain ==
  ASSUME load'.step \notin {"chain", "assign"}
  PROVE  (Linked /\ ChainFits)'
BY DEF Linked, ChainFits

\* The certificate of the key starts the chain.
LEMMA ChainStarts ==
  ASSUME load'.step = "chain", load'.chain = <<load.key>>, load'.key = load.key
  PROVE  (Linked /\ ChainFits)'
<1>1. load'.chain[1] = load'.key /\ Len(load'.chain) = 1
  OBVIOUS
<1> QED
  BY <1>1 DEF Linked, ChainFits

\* It grows by one that has signed its last certificate, or ends because that is a root.
LEMMA ChainGrows ==
  ASSUME Linked, LoadOK, load.step = "chain",
         NEW extra \in Seq(Certs \cup {None}), AddIssuer(extra)
  PROVE  (Linked /\ ChainFits)'
<1> DEFINE chain == load.chain
           last == Last(load.chain)
           issuer == Issuer[Last(load.chain)]
<1>1. load \in Loads /\ chain \in Seq(Certs) /\ chain # <<>>
  BY DEF LoadOK, KeyIsThere, Loads
<1>2. Len(chain) \in Nat /\ Len(chain) > 0 /\ DOMAIN chain = 1 .. Len(chain)
  BY <1>1, LenProperties, EmptySeq
<1>3. /\ chain[1] = load.key
      /\ \A i \in 2 .. Len(chain) : chain[i] = Issuer[chain[i - 1]] /\ ~ SelfSigned(chain[i])
  BY DEF Linked
<1>4. CASE SelfSigned(issuer)
  <2>1. load' = [Step("assign") EXCEPT !.extra = extra]
    BY <1>4 DEF AddIssuer, To
  <2>2. load'.step = "assign" /\ load'.key = load.key /\ load'.chain = chain
    BY <1>1, <2>1 DEF Step, Loads
  <2>3. Linked'
    BY <1>3, <2>2 DEF Linked
  <2> QED
    BY <1>3, <1>4, <2>2, <2>3 DEF ChainFits
<1>5. CASE ~ SelfSigned(issuer)
  <2>1. load'.step = "chain" /\ load'.key = load.key /\ load'.chain = Append(chain, issuer)
    <3>1. load' = [load EXCEPT !.chain = Append(load.chain, issuer), !.extra = extra]
      BY <1>1, <1>5 DEF AddIssuer, To, Loads
    <3> DEFINE longer == Append(load.chain, issuer)
    <3>2. load' = [load EXCEPT !.chain = longer, !.extra = extra]
      BY <3>1
    <3> HIDE DEF longer
    <3>3. load'.step = "chain" /\ load'.key = load.key /\ load'.chain = longer
      BY <1>1, <3>2 DEF Loads
    <3> QED
      BY <3>3 DEF longer
  <2>2. last \in Certs
    BY <1>1, <1>2, ElementOfSeq DEF Last
  <2>3. issuer \in Certs
    BY <2>2 DEF Issuer, Certs
  <2> DEFINE longer == Append(chain, issuer)
  <2>4. /\ Len(longer) = Len(chain) + 1 /\ longer[Len(chain) + 1] = issuer
        /\ \A i \in 1 .. Len(chain) : longer[i] = chain[i]
    BY <1>1, <2>3, AppendProperties
  <2>5. last = longer[Len(chain)] /\ longer[1] = chain[1]
    BY <1>2, <2>4 DEF Last
  <2> HIDE DEF longer, issuer, last, chain
  <2>6. \A i \in 2 .. Len(longer) : longer[i] = Issuer[longer[i - 1]] /\ ~ SelfSigned(longer[i])
    <3> TAKE i \in 2 .. Len(longer)
    <3>1. CASE i = Len(chain) + 1
      BY <1>2, <1>5, <2>4, <2>5, <3>1 DEF issuer, last
    <3>2. CASE i # Len(chain) + 1
      <4>1. i \in 2 .. Len(chain) /\ i - 1 \in 1 .. Len(chain)
        BY <1>2, <2>4, <3>2
      <4>2. longer[i] = chain[i] /\ longer[i - 1] = chain[i - 1]
        BY <1>2, <2>4, <4>1
      <4> QED
        BY <1>3, <4>1, <4>2
    <3> QED
      BY <3>1, <3>2
  <2>7. load'.step = "chain" /\ load'.key = load.key /\ load'.chain = longer
    BY <2>1 DEF longer, chain, issuer
  <2> QED
    BY <1>3, <2>5, <2>6, <2>7 DEF Linked, ChainFits
<1> QED
  BY <1>4, <1>5

\* A certificate is added that has signed the last one, while there is one to be had.
LEMMA LinkedStep == Linked /\ ChainFits /\ LoadOK /\ [Next]_vars => (Linked /\ ChainFits)'
<1> SUFFICES ASSUME Linked, ChainFits, LoadOK, [Next]_vars PROVE (Linked /\ ChainFits)'
  OBVIOUS
<1>1. CASE UNCHANGED <<load, secrets>> /\ (pc' = "load" <=> pc = "load")
  BY <1>1, SameLoad
<1>2. CASE Credentials
  <2>1. CASE UNCHANGED load
    BY <2>1, SameLoad
  <2>2. CASE \E trusted \in SUBSET Certs : load' = [NoLoad EXCEPT !.step = "cert", !.trust = trusted]
    <3>1. \A trusted \in SUBSET Certs : [NoLoad EXCEPT !.step = "cert", !.trust = trusted].step = "cert"
      BY NoLoadOK DEF Loads
    <3> QED
      BY <2>2, <3>1, NoChain
  <2> QED
    BY <1>2, <2>1, <2>2 DEF Credentials, Certs
<1>3. CASE LoadEnds
  BY <1>3, NoLoadOK, NoChain DEF LoadEnds
<1>4. CASE LoadStep
  <2>0. load_certificate /\ pc = "load" /\ pc' = "load"
    BY <1>4 DEF LoadStep, tlsvars
  <2>1. CASE TokenCert
    <3>1. load \in Loads /\ load.step = "cert"
      BY <2>1 DEF TokenCert, LoadOK
    <3>2. CASE Fail
      BY <3>2, FailIs, NoChain
    <3>3. CASE \E c \in {"user", "other", "self"} : To([Step("key") EXCEPT !.cert = c])
      <4>1. PICK c \in {"user", "other", "self"} : To([Step("key") EXCEPT !.cert = c])
        BY <3>3
      <4>2. load'.step = "key"
        BY <3>1, <4>1 DEF To, Step, Loads
      <4> QED
        BY <4>2, NoChain
    <3>4. CASE tries > 0 /\ To([Step("pin") EXCEPT !.back = "cert", !.attempt = 0])
      <4>1. load'.step = "pin" /\ load'.attempt = 0
        BY <3>1, <3>4 DEF To, Step, Loads
      <4> QED
        BY <4>1, NoChain
    <3> QED
      BY <2>1, <3>2, <3>3, <3>4 DEF TokenCert
  <2>2. CASE FileFails
    BY <2>0, <2>2, FailIs, NoChain DEF FileFails
  <2>3. CASE Pkcs12
    <3>1. load \in Loads /\ load.step = "cert"
      BY <2>3 DEF Pkcs12, LoadOK
    <3>2. PICK certs \in Files, key \in Keys, lock \in {"right", "empty"} :
             To([Step("passphrase") EXCEPT !.back = "pkcs12", !.extra = certs, !.key = key,
                                                   !.lock = lock, !.attempt = 0])
      BY <2>3 DEF Pkcs12
    <3>3. load'.step = "passphrase"
      BY <3>1, <3>2 DEF To, Step, Loads
    <3> QED
      BY <3>3, NoChain
  <2>4. CASE PemCerts
    <3>1. load \in Loads /\ load.step = "cert"
      BY <2>4 DEF PemCerts, LoadOK
    <3>2. PICK certs \in Files :
             To([Step("key") EXCEPT !.extra = certs])
      BY <2>4 DEF PemCerts
    <3>3. load'.step = "key"
      BY <3>1, <3>2 DEF To, Step, Loads
    <3> QED
      BY <3>3, NoChain
  <2>5. CASE ParsePkcs12
    <3>1. load \in Loads /\ load.step = "pkcs12"
      BY <2>5 DEF ParsePkcs12, LoadOK
    <3>2. CASE Fail
      BY <3>2, FailIs, NoChain
    <3>3. CASE ~ Fail
      <4> DEFINE i == Place(load.extra, load.key)
                 rest == [load.extra EXCEPT ![i] = None]
      <4>1. load' = [Step("chain") EXCEPT !.chain = <<load.key>>, !.cert = load.key, !.extra = rest]
        BY <2>5, <3>1, <3>3 DEF ParsePkcs12, To, Step, Loads
      <4> HIDE DEF rest
      <4>2. load'.step = "chain" /\ load'.chain = <<load.key>> /\ load'.key = load.key
        BY <3>1, <4>1 DEF Step, Loads
      <4> QED
        BY <4>2, ChainStarts
    <3> QED
      BY <3>2, <3>3
  <2>6. CASE Unreadable
    <3>1. load \in Loads /\ load.step = "passphrase"
      BY <2>6 DEF Unreadable, LoadOK
    <3>2. CASE Fail
      BY <3>2, FailIs, NoChain
    <3>3. CASE \E certs \in Files : To([Step("key") EXCEPT !.extra = certs, !.key = None, !.back = None])
      <4>1. PICK certs \in Files : To([Step("key") EXCEPT !.extra = certs, !.key = None, !.back = None])
        BY <3>3
      <4>2. load'.step = "key"
        BY <3>1, <4>1 DEF To, Step, Loads
      <4> QED
        BY <4>2, NoChain
    <3> QED
      BY <2>6, <3>2, <3>3 DEF Unreadable
  <2>7. CASE TryPassphrase
    <3>1. load \in Loads /\ load.step = "passphrase" /\ load.back \in {"pkcs12", "match"}
      BY <2>7 DEF TryPassphrase, LoadOK, KeyIsThere
    <3>2. load'.step \in {"pkcs12", "match", "ask"}
      BY <2>7, <3>1 DEF TryPassphrase, Step, Loads
    <3> QED
      BY <3>2, NoChain
  <2>8. CASE AskPassphrase
    <3>1. load \in Loads /\ load.step = "ask"
      BY <2>8 DEF AskPassphrase, LoadOK
    <3>2. CASE Fail
      BY <3>2, FailIs, NoChain
    <3>3. CASE \E s \in Secrets \cup {"empty"} : To([Step("passphrase") EXCEPT !.pass = s, !.attempt = 1])
      <4>1. PICK s \in Secrets \cup {"empty"} : To([Step("passphrase") EXCEPT !.pass = s, !.attempt = 1])
        BY <3>3
      <4>2. load'.step = "passphrase"
        BY <3>1, <4>1 DEF To, Step, Loads
      <4> QED
        BY <4>2, NoChain
    <3> QED
      BY <2>8, <3>2, <3>3 DEF AskPassphrase
  <2>9. CASE CachedPin
    BY <2>0, <2>9, PresentOK, NoChain DEF CachedPin
  <2>10. CASE PasswordIsPin
    BY <2>0, <2>10, PresentOK, NoChain DEF PasswordIsPin
  <2>11. CASE AskPin
    <3>1. CASE \E s \in Secrets : Present(s)
      BY <2>11, <3>1, PresentOK, NoChain DEF AskPin
    <3>2. CASE load' = [NoLoad EXCEPT !.step = "failed"]
      BY <3>2, NoLoadOK, NoChain
    <3> QED
      BY <2>11, <3>1, <3>2 DEF AskPin
  <2>12. CASE TokenKey
    <3>1. load \in Loads /\ load.step = "key"
      BY <2>12 DEF TokenKey, LoadOK
    <3>2. CASE Fail
      BY <3>2, FailIs, NoChain
    <3>3. CASE \E k \in Keys : To([Step("sign") EXCEPT !.key = k])
      <4>1. PICK k \in Keys : To([Step("sign") EXCEPT !.key = k])
        BY <3>3
      <4>2. load'.step = "sign"
        BY <3>1, <4>1 DEF To, Step, Loads
      <4> QED
        BY <4>2, NoChain
    <3>4. CASE tries > 0 /\ To([Step("pin") EXCEPT !.back = "key", !.attempt = 0])
      <4>1. load'.step = "pin" /\ load'.attempt = 0
        BY <3>1, <3>4 DEF To, Step, Loads
      <4> QED
        BY <4>1, NoChain
    <3>5. CASE To([load EXCEPT !.url = "token"]) \/ To([load EXCEPT !.url = "id"])
      <4>1. load'.step = "key"
        BY <3>1, <3>5 DEF To, Loads
      <4> QED
        BY <4>1, NoChain
    <3> QED
      BY <2>12, <3>2, <3>3, <3>4, <3>5 DEF TokenKey
  <2>13. CASE FileKeyFails
    BY <2>0, <2>13, FailIs, NoChain DEF FileKeyFails
  <2>14. CASE TpmKey
    <3>1. load \in Loads /\ load.step = "key"
      BY <2>14 DEF TpmKey, LoadOK
    <3>2. PICK k \in Keys :
             To([Step("sign") EXCEPT !.key = k])
      BY <2>14 DEF TpmKey
    <3>3. load'.step = "sign"
      BY <3>1, <3>2 DEF To, Step, Loads
    <3> QED
      BY <3>3, NoChain
  <2>15. CASE PlainKey
    <3>1. load \in Loads /\ load.step = "key"
      BY <2>15 DEF PlainKey, LoadOK
    <3>2. PICK k \in Keys :
             To([Step("match") EXCEPT !.key = k])
      BY <2>15 DEF PlainKey
    <3>3. load'.step = "match"
      BY <3>1, <3>2 DEF To, Step, Loads
    <3> QED
      BY <3>3, NoChain
  <2>16. CASE EncryptedPem
    <3>1. load \in Loads /\ load.step = "key"
      BY <2>16 DEF EncryptedPem, LoadOK
    <3>2. PICK k \in Keys :
             To([Step("passphrase") EXCEPT !.back = "match", !.key = k, !.lock = "right", !.attempt = 0])
      BY <2>16 DEF EncryptedPem
    <3>3. load'.step = "passphrase"
      BY <3>1, <3>2 DEF To, Step, Loads
    <3> QED
      BY <3>3, NoChain
  <2>17. CASE PemHeader
    BY <2>0, <2>17, FailIs, NoChain DEF PemHeader
  <2>18. CASE EncryptedPkcs8
    <3>1. load \in Loads /\ load.step = "key"
      BY <2>18 DEF EncryptedPkcs8, LoadOK
    <3>2. PICK k \in Keys, lock \in {"right", "empty"} :
             To([Step("passphrase") EXCEPT !.back = "match", !.key = k, !.lock = lock, !.attempt = 0])
      BY <2>18 DEF EncryptedPkcs8
    <3>3. load'.step = "passphrase"
      BY <3>1, <3>2 DEF To, Step, Loads
    <3> QED
      BY <3>3, NoChain
  <2>19. CASE MatchById
    BY <2>0, <2>19, MatchIs, FailIs, NoChain, ChainStarts DEF MatchById
  <2>20. CASE MatchBySignature
    BY <2>0, <2>20, MatchIs, FailIs, NoChain, ChainStarts DEF MatchBySignature
  <2>21. CASE SignFails
    <3>1. load \in Loads /\ load.step = "sign"
      BY <2>21 DEF SignFails, LoadOK
    <3>2. CASE Fail
      BY <3>2, FailIs, NoChain
    <3>3. CASE tries > 0 /\ To([Step("pin") EXCEPT !.back = "sign", !.attempt = 0])
      <4>1. load'.step = "pin" /\ load'.attempt = 0
        BY <3>1, <3>3 DEF To, Step, Loads
      <4> QED
        BY <4>1, NoChain
    <3> QED
      BY <2>21, <3>2, <3>3 DEF SignFails
  <2>22. CASE FromExtra
    BY <2>0, <2>22, FromExtraIs, ChainGrows DEF FromExtra
  <2>23. CASE FromTrust
    <3>1. load.extra \in Seq(Certs \cup {None})
      BY DEF LoadOK, Loads
    <3> QED
      BY <2>23, <3>1, ChainGrows DEF FromTrust
  <2>24. CASE ChainEnds
    <3>1. load \in Loads /\ load.step = "chain" /\ load.chain # <<>> /\ load.extra \in Seq(Certs \cup {None})
      BY <2>24 DEF ChainEnds, LoadOK, KeyIsThere, Loads
    <3>2. load' = [load EXCEPT !.step = "assign"]
      BY <2>24 DEF ChainEnds, To, Step
    <3>3. load'.step = "assign" /\ load'.key = load.key /\ load'.chain = load.chain /\ load'.extra = load.extra
          /\ load'.trust = load.trust
      BY <3>1, <3>2 DEF Loads
    <3>4. Issuer[Last(load.chain)] \notin load.trust
      BY <2>24 DEF ChainEnds
    <3>5. \A i \in DOMAIN load.extra : load.extra[i] # Issuer[Last(load.chain)]
      BY <2>24, <3>1, PlaceIs DEF ChainEnds, InExtra
    <3>6. /\ load.chain[1] = load.key
          /\ \A i \in 2 .. Len(load.chain) :
               load.chain[i] = Issuer[load.chain[i - 1]] /\ ~ SelfSigned(load.chain[i])
      BY <3>1 DEF Linked
    <3> QED
      BY <3>3, <3>4, <3>5, <3>6 DEF Linked, ChainFits
  <2>25. CASE Assign
    <3>1. load \in Loads /\ load.step = "assign"
      BY <2>25 DEF Assign, LoadOK
    <3>2. load'.step = "loaded"
      BY <2>25, <3>1 DEF Assign, To, Step, Loads
    <3> QED
      BY <3>2, NoChain
  <2>26. CASE AssignFails
    <3>1. load.step = "assign" /\ load'.step = "failed"
      BY <2>26, NoLoadOK DEF AssignFails
    <3> QED
      BY <3>1, NoChain
  <2> QED
    BY <2>0, <2>1, <2>2, <2>3, <2>4, <2>5, <2>6, <2>7, <2>8, <2>9, <2>10, <2>11, <2>12, <2>13,
       <2>14, <2>15, <2>16, <2>17, <2>18, <2>19, <2>20, <2>21, <2>22, <2>23, <2>24, <2>25,
       <2>26 DEF load_certificate
<1> QED
  BY <1>1, <1>2, <1>3, <1>4, LoadChanges

-----------------------------------------------------------------------------
IInv == PeerLookedAt /\ LoadOK /\ SecretsKept /\ Linked /\ ChainFits

LEMMA InitIInv == Init => IInv
<1> SUFFICES ASSUME Init PROVE IInv
  OBVIOUS
<1>1. LoadOK
  BY NoLoadOK DEF Init, CertInit, LoadOK, KeyIsThere
<1>2. PeerLookedAt
  BY DEF Init, PeerLookedAt
<1>3. SecretsKept
  BY NoLoadOK, ClientCertAssumption DEF Init, CertInit, SecretsKept
<1>4. Linked /\ ChainFits
  BY NoLoadOK DEF Init, CertInit, Linked, ChainFits
<1> QED
  BY <1>1, <1>2, <1>3, <1>4 DEF IInv

LEMMA AlwaysIInv == Spec => []IInv
<1>1. IInv /\ [Next]_vars => IInv'
  BY PeerStep, LoadOKStep, SecretsStep, LinkedStep DEF IInv
<1> QED
  BY InitIInv, <1>1, PTL DEF Spec

\* Data is only exchanged with a server whose certificate is in order for the
\* host, is one of --servercert or has been accepted for it (verify_peer(),
\* validate_peer_cert()), for any hosts and certificates and however often the
\* connection is lost, renegotiated, cancelled or opened to another host.
THEOREM PeersAreKnown == Spec => []PeerIsKnown
<1>1. IInv => PeerIsKnown
  BY DEF IInv, PeerLookedAt, KnownPeer, PeerIsKnown
<1> QED
  BY AlwaysIInv, <1>1, PTL

\* The library offers no passphrase or PIN again where it has been refused
\* (load_pkcs12_certificate(), gnutls_pin_callback()), however many tries the
\* token allows and whatever loads came before.
THEOREM SecretsAreNotRepeated == Spec => []SecretsNotRepeated
<1>1. IInv => SecretsNotRepeated
  BY DEF IInv, SecretsKept, SecretsNotRepeated
<1> QED
  BY AlwaysIInv, <1>1, PTL

\* The chain that is sent starts with the certificate of the key, every other one
\* has signed the one before it, roots are left out, and no issuer that could be
\* had is missing (the end of load_certificate()).
THEOREM ChainsFit == Spec => []ChainFits
<1>1. IInv => ChainFits
  BY DEF IInv
<1> QED
  BY AlwaysIInv, <1>1, PTL

=============================================================================
