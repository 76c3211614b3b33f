------------------------------ MODULE LoginCstp ------------------------------
(***************************************************************************)
(* cstp_obtain_cookie(): the login of AnyConnect.  Probes find out whether *)
(* the server takes XML and which certificates it wants, a host scan may   *)
(* have to be run, and then forms are filled in until one says success.    *)
(***************************************************************************)
EXTENDS LoginBase

\* The local variables, and what is known of the host scan: it is only asked
\* for with all its addresses.  scans is history.
CstpState == [xmlpost : BOOLEAN, tries : 0 .. 6, newgroup_attempts : 0 .. 4,
              cert2 : BOOLEAN, csd : {None, "given", "ran"}, scans : 0 .. 2]

CstpStart == [xmlpost |-> given.xmlpost, tries |-> 0, newgroup_attempts |-> 4,
              cert2 |-> FALSE, csd |-> None, scans |-> 0]

CstpForms == GroupForms(Groups) \cup
             {ChallengeForm, [LoginForm EXCEPT !.code = "PASSWORD"], [EmptyForm EXCEPT !.sso = TRUE],
              NoForm, [EmptyForm EXCEPT !.id = "complete"], [EmptyForm EXCEPT !.id = "success"]}

AtCstp(label) == proto = "anyconnect" /\ pc = label

\* No request or page changes these.
CstpSame == UNCHANGED <<proto, given, client, cancelled, gp, html>>

NotParsed == UNCHANGED <<form, tok, cookie>>

-----------------------------------------------------------------------------
\* The probes.

\* Broken on purpose: XML is tried again.
Fail_StaysXml(c) == Goto("probe") /\ cstp' = [c EXCEPT !.tries = 0]

\* fail: try without XML, on the host that the probes started from.
Fail(c) ==
  IF c.xmlpost
  THEN Goto("probe") /\ cstp' = [c EXCEPT !.xmlpost = FALSE, !.tries = 0]
  ELSE Finish("ERR") /\ cstp' = c

\* continue: one more, if there have not been exactly as many as there may be.
\* (Beyond that tries only has to be another number.)
Again(c) ==
  LET tries == IF c.tries = 6 THEN 5 ELSE c.tries + 1
  IN IF tries = 3 + (IF c.cert2 THEN 1 ELSE 0) THEN Fail(c)
     ELSE Goto("probe") /\ cstp' = [c EXCEPT !.tries = tries]

ProbeFails ==
  /\ \/ cancelled /\ Finish("CANCELLED") /\ UNCHANGED cstp
     \/ ~ cancelled /\ (Fail(cstp) \/ (Finish("ERR") /\ UNCHANGED cstp))
  /\ NotParsed

\* Redirects on the same host are not for XML.
ProbeRedirected ==
  /\ ~ cancelled
  /\ \E local \in BOOLEAN : IF local /\ cstp.xmlpost THEN Fail(cstp) ELSE Again(cstp)
  /\ NotParsed

\* The page is not one, or does not go with what had been asked for.
ProbeUnusable ==
  /\ ~ cancelled
  /\ \E two \in {FALSE, given.multicert} : Fail([cstp EXCEPT !.cert2 = two])
  /\ NotParsed

\* The server wants the certificate of the connection: it may come with the
\* next one, or the next request says that there is none.
CertRequested ==
  /\ ~ cancelled
  /\ \E two \in {FALSE, given.multicert} : Again([cstp EXCEPT !.cert2 = two])
  /\ NotParsed

\* It has it and wants a signature by another one.
MultipleCertRequested ==
  /\ ~ cancelled /\ given.multicert
  /\ LET c == [cstp EXCEPT !.cert2 = TRUE]
     IN \/ Finish("ERR") /\ cstp' = c
        \/ given.cert2 /\ (Again(c) \/ Fail(c))
  /\ NotParsed

\* Broken on purpose: they count again when the scan has been run.
parse_csd_Again(asked) == IF asked THEN "given" ELSE cstp.csd

\* <csd> and <host-scan> count until the scan has been run.
parse_csd(asked) == IF cstp.csd = "ran" THEN "ran" ELSE IF asked THEN "given" ELSE cstp.csd

\* A form, and what next: the host scan or the form itself.  (The counts of the
\* probes are not read again, nor is the form before the host scan.)
ProbeAnswered ==
  /\ ~ cancelled
  /\ \E f \in CstpForms, asked \in {FALSE, given.csd} :
       LET parsed == parse_input_node(f, ~ tok.bypassed, tok)
           csd == parse_csd(asked)
       IN /\ form' = (IF csd = "given" THEN NoForm ELSE parsed.form) /\ tok' = parsed.tok
          /\ Goto(IF csd = "given" THEN "scan" ELSE "ask")
          /\ cstp' = [cstp EXCEPT !.tries = 0, !.cert2 = FALSE, !.csd = csd]
  /\ UNCHANGED cookie

Probe ==
  /\ AtCstp("probe")
  /\ ProbeFails \/ ProbeRedirected \/ ProbeUnusable \/ CertRequested \/ MultipleCertRequested \/ ProbeAnswered
  /\ CstpSame /\ UNCHANGED <<body, sent>>

-----------------------------------------------------------------------------
\* The host scan: a program is fetched, unless there is a wrapper for it, and
\* run; then the wait page is read until it says no more, and the form again.

Ran == [cstp EXCEPT !.csd = "ran", !.scans = @ + 1]

run_csd_script ==
  /\ AtCstp("scan")
  /\ \/ Finish("ERR") /\ UNCHANGED cstp
     \/ /\ given.wrapper \/ (given.uid_csd_given /\ ~ cancelled)
        /\ Goto("wait") /\ cstp' = Ran
  /\ CstpSame /\ NotParsed /\ UNCHANGED <<body, sent>>

WaitPage ==
  /\ AtCstp("wait")
  /\ \/ Finish("ERR")
     \/ ~ cancelled /\ Goto("refetch")
  /\ CstpSame /\ NotParsed /\ UNCHANGED <<body, sent, cstp>>

\* A form that does not come from a probe; the host scan may be asked for late.
FormPage ==
  /\ ~ cancelled
  /\ \E f \in CstpForms, asked \in {FALSE, given.csd} :
       /\ ShowForm(f, ~ tok.bypassed)
       /\ cstp' = [cstp EXCEPT !.csd = parse_csd(asked)]
  /\ UNCHANGED cookie

FormFails ==
  /\ Finish("ERR")
  /\ NotParsed /\ UNCHANGED cstp

Refetch ==
  /\ AtCstp("refetch")
  /\ FormPage \/ FormFails
  /\ CstpSame /\ UNCHANGED <<body, sent>>

-----------------------------------------------------------------------------
\* handle_auth_form() and what follows from it.

LoggedIn ==
  /\ form.id = "success"
  /\ cookie' \in BOOLEAN /\ Finish("ok")
  /\ UNCHANGED <<client, tok, body, cstp>>

\* Nobody to ask, nothing to fill in, or a host scan that comes too late to be
\* run: then nothing is posted.
NotAsked ==
  /\ form.id # "success"
  /\ IF given.nopasswd THEN Finish("ERR")
     ELSE IF cstp.csd = "given" \/ form.id = "complete" THEN Goto("post")
     ELSE form.id = "bare" /\ Finish("ERR")
  /\ body' = EmptyBody
  /\ UNCHANGED <<client, tok, cookie, cstp>>

newgroup ==
  IF cstp.newgroup_attempts = 0
  THEN Finish("ERR") /\ UNCHANGED cstp
  ELSE Goto("probe") /\ cstp' = [cstp EXCEPT !.newgroup_attempts = @ - 1, !.tries = 0]

FormAsked ==
  /\ form.id \in {"login", "challenge"} /\ ~ given.nopasswd /\ cstp.csd # "given"
  /\ LET answers == process_auth_form(form, client, cstp.xmlpost)
     IN \/ /\ \E a \in answers : a.ret = "NEWGROUP" /\ client' = a.client
           /\ newgroup /\ UNCHANGED <<tok, body>>
        \/ Fill({a \in answers : a.ret # "NEWGROUP"}) /\ UNCHANGED cstp
  /\ UNCHANGED cookie

handle_auth_form ==
  /\ AtCstp("ask")
  /\ LoggedIn \/ NotAsked \/ FormAsked
  /\ form' = NoForm
  /\ UNCHANGED <<proto, given, sent, cancelled, gp, html>>

PostForm ==
  /\ AtCstp("post")
  /\ FormPage \/ FormFails
  /\ sent' = Posted /\ body' = EmptyBody
  /\ CstpSame

CstpNext == Probe \/ run_csd_script \/ WaitPage \/ Refetch \/ handle_auth_form \/ PostForm
=============================================================================
