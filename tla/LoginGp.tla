------------------------------- MODULE LoginGp -------------------------------
(***************************************************************************)
(* gpst_obtain_cookie() and gpst_login(): GlobalProtect.  A portal gives   *)
(* a list of gateways, one of which gives the cookie; either of them shows *)
(* its own forms, and what one has taken is tried on the other unasked.    *)
(***************************************************************************)
EXTENDS LoginBase

\* either: the address did not say which of the two the server is.  value is
\* the password in the form, the rest is in the struct login_context.
GpState == [portal : BOOLEAN, either : BOOLEAN, blind_retry : BOOLEAN, username : BOOLEAN,
            portal_cookie : BOOLEAN, value : 0 .. MaxTyped]

GpStart == [portal |-> given.server # "gateway", either |-> given.server = "either",
            blind_retry |-> FALSE, username |-> FALSE, portal_cookie |-> FALSE, value |-> 0]

AtGp(label) == proto = "gp" /\ pc = label

GpSame == UNCHANGED <<proto, given, cancelled, cstp, html>>

\* The end of gpst_login(): a server that may be a gateway is tried as one.
Over(ret, g) ==
  IF ret = "EEXIST" /\ g.either
  THEN Goto("fetch") /\ gp' = [g EXCEPT !.either = FALSE, !.portal = FALSE, !.blind_retry = FALSE]
  ELSE Finish(IF ret = "CANCELLED" THEN ret ELSE "ERR") /\ gp' = g

\* A request that fails, and what gpst_xml_or_error() makes of pages that are
\* none of those expected.
GpErrors == IF cancelled THEN {"EINTR"} ELSE {"EEXIST", "EINVAL"}

-----------------------------------------------------------------------------
\* parse_prelogin_xml(): a user name unless there is one, and a password, which
\* is taken for a code if the server has a name of its own for it.
PreloginForm ==
  /\ \E custom \in BOOLEAN :
       LET token == custom /\ can_gen_tokencode(tok) /\ ~ given.alt_secret
       IN form' = [EmptyForm EXCEPT !.text = ~ gp.username, !.pass = ~ token,
                                    !.code = IF token THEN "TOKEN" ELSE None]
  /\ tok' = Asked(tok)
  /\ Goto("ask")
  /\ gp' = [gp EXCEPT !.username = FALSE, !.value = 0]

\* Or everything comes from a browser; without one, what a browser has left
\* behind elsewhere is used.
PreloginSaml ==
  IF client.browser
  THEN /\ form' = [EmptyForm EXCEPT !.sso = TRUE]
       /\ Goto("ask")
       /\ gp' = [gp EXCEPT !.username = FALSE, !.value = 0]
       /\ UNCHANGED tok
  ELSE IF gp.portal_cookie \/ given.alt_secret THEN PreloginForm
  ELSE Over("EINVAL", gp) /\ UNCHANGED <<form, tok>>

Prelogin ==
  /\ AtGp("fetch")
  /\ \/ \E ret \in GpErrors : Over(ret, gp) /\ UNCHANGED <<form, tok>>
     \/ ~ cancelled /\ (PreloginForm \/ PreloginSaml)
  /\ GpSame /\ UNCHANGED <<body, client, sent, cookie>>

-----------------------------------------------------------------------------
\* got_form and replay_form: ask, add a code, off it goes.

\* Coming back from a browser there may be another address, or none.
GpFill ==
  /\ AtGp("ask")
  /\ \/ Fill(process_auth_form(form, client, TRUE))
     \/ form.sso /\ Finish("ERR") /\ UNCHANGED <<client, tok, body>>
  /\ gp' = [gp EXCEPT !.value = body'.pass]
  /\ GpSame /\ UNCHANGED <<form, sent, cookie>>

\* What the form still holds.
Replay(g) ==
  \E c \in do_gen_tokencode(form, tok) :
    /\ tok' = c.tok
    /\ gp' = g
    /\ IF c.ok THEN Goto("post") /\ body' = [EmptyBody EXCEPT !.pass = g.value, !.code = c.code]
       ELSE Finish("ERR") /\ UNCHANGED body

\* challenge_cb(): the password that a form asked for is followed by a code.
challenge_cb ==
  LET token == form.pass /\ can_gen_tokencode(tok)
  IN /\ form' = [EmptyForm EXCEPT !.id = "challenge", !.pass = ~ token,
                                  !.code = IF token THEN "TOKEN" ELSE None]
     /\ tok' = Asked(tok)
     /\ Goto("ask")
     /\ gp' = [gp EXCEPT !.username = TRUE, !.value = 0]

\* Broken on purpose: what has been refused is tried once more.
Rejected_KeepsValue ==
  IF gp.blind_retry THEN Replay([gp EXCEPT !.blind_retry = FALSE]) /\ UNCHANGED form
  ELSE Goto("ask") /\ gp' = [gp EXCEPT !.value = 0] /\ UNCHANGED <<form, tok, body>>

\* EACCES: the same form again, but blank, or another one if nobody has seen
\* this one.
Rejected ==
  /\ IF gp.blind_retry THEN Goto("fetch") /\ gp' = [gp EXCEPT !.blind_retry = FALSE, !.value = 0]
     ELSE Goto("ask") /\ gp' = [gp EXCEPT !.value = 0]
  /\ UNCHANGED <<form, tok, body>>

GatewayAnswers ==
  /\ ~ gp.portal
  /\ cookie' = TRUE /\ Finish("ok")
  /\ gp' = gp /\ UNCHANGED <<form, tok, body>>

\* The gateways, and a cookie for them.
PortalAnswers ==
  /\ gp.portal
  /\ \E p \in BOOLEAN : gp' = [gp EXCEPT !.username = TRUE, !.portal_cookie = p]
  /\ Goto("portal")
  /\ UNCHANGED <<form, tok, body, cookie>>

GpPost ==
  /\ AtGp("post")
  /\ \/ \E ret \in GpErrors :
          Over(ret, [gp EXCEPT !.username = TRUE]) /\ UNCHANGED <<form, tok, body, cookie>>
     \/ /\ ~ cancelled /\ (form.code = "TOKEN" => MoreCodes(Posted))
        /\ \/ Rejected /\ UNCHANGED cookie
           \/ Goto("ask") /\ gp' = [gp EXCEPT !.username = TRUE] /\ UNCHANGED <<form, tok, body, cookie>>
           \/ PortalAnswers
     \/ ~ cancelled /\ (GatewayAnswers \/ (challenge_cb /\ UNCHANGED <<body, cookie>>))
  /\ sent' = Posted
  /\ GpSame /\ UNCHANGED client

\* parse_portal_xml() has the user choose, and the login goes on elsewhere.
ChooseGateway ==
  /\ AtGp("portal")
  /\ \E f \in GroupForms(WithFields) :
       LET first == f.selected
           known == [client EXCEPT !.authgroup = IF @ = None THEN first ELSE @]
           gateways == [EmptyForm EXCEPT !.groups = f.groups, !.selected = first]
       IN \E a \in process_auth_form(gateways, known, TRUE) :
            /\ client' = a.client
            /\ IF a.ret \in {"ERR", "CANCELLED"}
               THEN Over(a.ret, gp) /\ UNCHANGED <<tok, body, sent>>
               ELSE LET g == [gp EXCEPT !.portal = FALSE]
                    IN /\ sent' = [sent EXCEPT !.pass = 0, !.code = 0]
                       /\ IF g.portal_cookie \/ (form.id # "challenge" /\ ~ given.alt_secret)
                          THEN Replay([g EXCEPT !.blind_retry = TRUE])
                          ELSE Goto("fetch") /\ gp' = g /\ UNCHANGED <<tok, body>>
  /\ GpSame /\ UNCHANGED <<form, cookie>>

NoGateways ==
  /\ AtGp("portal")
  /\ Over("EINVAL", gp)
  /\ GpSame /\ UNCHANGED <<form, tok, body, client, sent, cookie>>

GpNext == Prelogin \/ GpFill \/ GpPost \/ ChooseGateway \/ NoGateways
=============================================================================
