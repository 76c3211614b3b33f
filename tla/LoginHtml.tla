------------------------------ MODULE LoginHtml ------------------------------
(***************************************************************************)
(* Logins through web pages: Network Connect, F5, Fortinet and Array.      *)
(***************************************************************************)
EXTENDS LoginBase

\* The local variables of the functions: html.try_tncc of oncp_obtain_cookie(),
\* html.first of f5_obtain_cookie() (form_order is 1), whether the form of
\* fortinet_obtain_cookie() has come with a page, and what LoginPulse keeps: the
\* prompt_flags of pulse_authenticate() and how far its connection is.
HtmlStart == [try_tncc |-> given.wrapper, first |-> TRUE, page |-> FALSE,
              flags |-> {"USERNAME", "PASSWORD"}, stage |-> "upgrade"]

At(protocol, labels) == proto = protocol /\ pc \in labels

\* The cookie that the login is for came along: the result does not matter.
GotCookie ==
  /\ cookie' = TRUE /\ Finish("ok")
  /\ UNCHANGED <<form, tok, html>>

RequestFails ==
  /\ Finish("ERR")
  /\ UNCHANGED <<form, tok, html, cookie>>

Unusable ==
  /\ ~ cancelled /\ Finish("ERR")
  /\ UNCHANGED <<form, tok, html, cookie>>

\* What a request leaves alone.
Requested(label) ==
  /\ sent' = IF label = "post" THEN Posted ELSE sent
  /\ body' = EmptyBody
  /\ UNCHANGED <<proto, given, client, cancelled, cstp, gp>>

-----------------------------------------------------------------------------
\* oncp_obtain_cookie(): frmLogin with a realm and perhaps a second password,
\* frmDefender and the like for a code, frmConfirmation, frmSelectRoles.
NcForms == GroupForms(WithFields) \cup
           {[LoginForm EXCEPT !.code = "PASSWORD"], ChallengeForm,
            [EmptyForm EXCEPT !.id = "confirm"],
            [EmptyForm EXCEPT !.id = "roles", !.groups = WithFields]}

\* Confirmations are sent without asking anybody.
NcPage ==
  /\ ~ cancelled
  /\ \E f \in NcForms :
       IF f.id = "confirm"
       THEN form' = f /\ Goto("post") /\ UNCHANGED tok
       ELSE ShowForm(f, ~ tok.bypassed)
  /\ UNCHANGED <<html, cookie>>

\* A page without a form has the host checker run, once.
NcTncc ==
  /\ ~ cancelled /\ html.try_tncc
  /\ Goto("tncc")
  /\ html' = [html EXCEPT !.try_tncc = FALSE]
  /\ UNCHANGED <<form, tok, cookie>>

NcRequest ==
  /\ At("nc", {"fetch", "post"})
  /\ GotCookie \/ RequestFails \/ Unusable \/ NcPage \/ NcTncc
  /\ Requested(pc)

\* tncc_preauth(): the new DSPREAUTH cookie, or the end of the login.
tncc_preauth ==
  /\ At("nc", {"tncc"})
  /\ \/ ~ cancelled /\ Goto("fetch")
     \/ Finish("ERR")
  /\ UNCHANGED <<proto, given, form, body, client, tok, sent, cancelled, cookie, own>>

\* Roles are links: one is followed.
NcFill ==
  /\ At("nc", {"ask"})
  /\ IF form.id = "roles"
     THEN /\ \E a \in ask_until_group(form, client) :
               /\ client' = a.client
               /\ IF a.ret = "OK" THEN Goto("fetch") ELSE Finish(a.ret)
          /\ UNCHANGED <<tok, body>>
     ELSE Fill(ask_until_group(form, client))
  /\ form' = NoForm
  /\ UNCHANGED <<proto, given, sent, cancelled, cookie, own>>

-----------------------------------------------------------------------------
\* f5_obtain_cookie(): the first page has a form for a user name and a
\* password, or none that can be found; later ones may want a code.
F5Forms == GroupForms(WithFields) \cup
           {LoginForm, [LoginForm EXCEPT !.code = "PASSWORD"], ChallengeForm, EmptyForm}

F5Page ==
  /\ ~ cancelled
  /\ \E f \in F5Forms : ShowForm(f, ~ html.first)
  /\ html' = [html EXCEPT !.first = FALSE]
  /\ UNCHANGED cookie

F5Request ==
  /\ At("f5", {"fetch", "post"})
  /\ GotCookie \/ RequestFails \/ Unusable \/ F5Page
  /\ Requested(pc)

F5Fill ==
  /\ At("f5", {"ask"})
  /\ Fill(ask_until_group(form, client))
  /\ form' = NoForm
  /\ UNCHANGED <<proto, given, sent, cancelled, cookie, own>>

-----------------------------------------------------------------------------
\* fortinet_obtain_cookie(): the first page is of interest only for where it
\* leads to; the form is the client's own.
FortinetStart ==
  /\ At("fortinet", {"fetch"})
  /\ \/ RequestFails
     \/ /\ ~ cancelled
        /\ form' = LoginForm /\ Goto("ask")
        /\ UNCHANGED <<tok, html, cookie>>
  /\ Requested("fetch")

FortinetFill ==
  /\ At("fortinet", {"ask"})
  /\ Fill(process_auth_form(form, client, TRUE))
  /\ UNCHANGED <<proto, given, form, sent, cancelled, cookie, own>>

\* The answer holds tokeninfo: the client turns its form into one for a code,
\* which it fills in as often as the form is shown.  (When the form came with a
\* page, the fields it would change are not there any more: not modelled.)
Tokeninfo ==
  /\ ~ cancelled /\ ~ html.page
  /\ form' = [ChallengeForm EXCEPT !.id = "challenge",
                !.code = IF can_gen_tokencode(tok) THEN "TOKEN" ELSE "PASSWORD"]
  /\ tok' = Asked(tok)
  /\ Goto("ask")
  /\ UNCHANGED <<html, cookie>>

\* 401 with a page.
ChallengePage ==
  /\ ~ cancelled
  /\ ShowForm(ChallengeForm, TRUE)
  /\ html' = [html EXCEPT !.page = TRUE]
  /\ UNCHANGED cookie

\* Invalid credentials, and everything that can go wrong: the same form again.
FortinetAgain ==
  /\ form.code = "TOKEN" => MoreCodes(Posted)
  /\ Goto("ask")
  /\ UNCHANGED <<form, tok, html, cookie>>

FortinetLogin ==
  /\ At("fortinet", {"post"})
  /\ GotCookie \/ Tokeninfo \/ ChallengePage \/ Unusable \/ FortinetAgain
  /\ Requested("post")

-----------------------------------------------------------------------------
\* array_obtain_cookie(): one form, one answer.
ArrayFill ==
  /\ At("array", {"ask"})
  /\ Fill(ask_until_group(form, client))
  /\ form' = NoForm
  /\ UNCHANGED <<proto, given, sent, cancelled, cookie, own>>

ArrayLogin ==
  /\ At("array", {"post"})
  /\ \/ RequestFails
     \/ ~ cancelled /\ (GotCookie \/ (Finish("ERR") /\ UNCHANGED <<form, tok, html, cookie>>))
  /\ Requested("post")

HtmlNext ==
  \/ NcRequest \/ tncc_preauth \/ NcFill
  \/ F5Request \/ F5Fill
  \/ FortinetStart \/ FortinetFill \/ FortinetLogin
  \/ ArrayFill \/ ArrayLogin
=============================================================================
