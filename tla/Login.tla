-------------------------------- MODULE Login --------------------------------
(***************************************************************************)
(* openconnect_obtain_cookie(): from a server's address to a cookie, by    *)
(* the forms of seven protocols, with requests that fail in any way they can *)
(* (module Http has their details), servers that answer whatever the       *)
(* parsers take, a user who may give up, and tokens that make codes.       *)
(***************************************************************************)
EXTENDS LoginCstp, LoginGp, LoginPulse

\* What may have been set up for a protocol, and the kind of its server.
Plain == [xmlpost |-> TRUE, cert2 |-> FALSE, multicert |-> FALSE,
          csd |-> FALSE, wrapper |-> FALSE, uid_csd_given |-> FALSE, nopasswd |-> FALSE,
          server |-> "portal", alt_secret |-> FALSE]

Setups(p) ==
  {Plain} \cup
  CASE p = "anyconnect" ->
         {[Plain EXCEPT !.xmlpost = FALSE], [Plain EXCEPT !.nopasswd = TRUE]} \cup
         {[Plain EXCEPT !.multicert = TRUE, !.cert2 = second] : second \in BOOLEAN} \cup
         {[Plain EXCEPT !.csd = TRUE, !.wrapper = w, !.uid_csd_given = u] : w, u \in BOOLEAN}
    [] p = "gp" -> {[Plain EXCEPT !.server = kind, !.alt_secret = alt] :
                      kind \in {"portal", "gateway", "either"}, alt \in BOOLEAN}
    [] p = "nc" -> {[Plain EXCEPT !.wrapper = TRUE]}
    [] OTHER -> {}

\* Somebody at a terminal, somebody with a browser, a script with a password.
Ways == {"user", "browser", "script"}

Init ==
  /\ proto \in Protocols
  /\ given \in Setups(proto)
  /\ pc = CASE proto = "anyconnect" -> "probe" [] proto = "array" -> "ask" [] OTHER -> "fetch"
  /\ form = IF proto = "array" THEN LoginForm ELSE NoForm
  /\ body = EmptyBody
  /\ \E way \in Ways, group \in {None, WithGroup} \cup NoAaa, mode \in {None, "TOTP", "HOTP"} :
       /\ given # Plain \/ way # "user" => mode = "TOTP"
       /\ given # Plain \/ proto \in {"fortinet", "array"} => group = None
       /\ client = NewClient(group, way = "script", way # "script", way = "browser")
       /\ tok = [mode |-> mode, tries |-> 0, time |-> 0, bypassed |-> FALSE]
  /\ sent = NothingSent
  /\ cancelled = FALSE /\ cookie = FALSE /\ result = None
  /\ cstp = CstpStart /\ gp = GpStart /\ html = HtmlStart

openconnect_obtain_cookie == CstpNext \/ GpNext \/ HtmlNext \/ PulseNext

Next == openconnect_obtain_cookie \/ Cancel

\* Users answer in the end, and requests end (Http!RequestEnds, which names one that does not).
Spec == Init /\ [][Next]_vars /\ WF_vars(openconnect_obtain_cookie)

-----------------------------------------------------------------------------
TypeOK ==
  /\ proto \in Protocols /\ given \in Setups(proto)
  /\ pc \in {"probe", "scan", "wait", "refetch", "fetch", "tncc", "portal", "ask", "post", "done"}
  /\ form \in Form /\ body \in Body /\ client \in Client /\ tok \in Token
  /\ sent.pass \in 0 .. MaxTyped /\ sent.codes \in 0 .. MaxCodes
  /\ cancelled \in BOOLEAN /\ cookie \in BOOLEAN
  /\ cstp \in CstpState /\ gp \in GpState
  /\ html \in [try_tncc : BOOLEAN, first : BOOLEAN, page : BOOLEAN,
              flags : SUBSET {"USERNAME", "PASSWORD"}, stage : Stages]

\* A password that the user has handed over is posted to a server once: what
\* has been refused, or has been lost with a request, is asked for again and
\* not tried again, by no protocol.  (GlobalProtect hands it on to the gateway.)
NotPostedTwice == pc = "post" => body.pass = 0 \/ body.pass > sent.pass

\* A token makes no more than two codes for a login, and never the same one
\* again.  (Fortinet and GlobalProtect do: TriesLimited.)
CodesLimited ==
  proto \notin {"fortinet", "gp"} =>
    /\ sent.codes <= 2
    /\ pc = "post" => body.code = 0 \/ body.code > sent.code

\* The program that a server has run on the user's machine is run once in a
\* login, whatever later pages and later probes for another group say.
HostScanOnce == cstp.scans <= 1

\* The group that is posted is the one whose fields the user was shown, unless
\* the user was asked for another since the server did not have it.
GroupKept ==
  pc = "post" /\ body.group # None /\ ~ client.asked_again /\ ~ form.sso => body.group = body.shown

\* Probes lead to a form, or to an end: redirects, requests for certificates
\* and answers that are not understood do not go on for ever.
ProbeEnds == pc = "probe" /\ ~ given.multicert ~> pc # "probe"

=============================================================================
