------------------------------ MODULE LoginPulse ------------------------------
(***************************************************************************)
(* pulse_authenticate() for pulse_obtain_cookie(): a connection is         *)
(* upgraded to IF-T/TLS and, perhaps inside of EAP-TTLS, the server asks   *)
(* for one thing after another until it sends a cookie.                    *)
(***************************************************************************)
EXTENDS LoginHtml

\* How far the connection is; later failures differ only in what they say.
Stages == {"upgrade", "version", "challenge", "ttls", "info"}

PulseStays == UNCHANGED <<form, tok, cookie>>

\* out: the connection is closed, and nothing is tried again.
PulseFails == Finish("ERR") /\ UNCHANGED html /\ PulseStays

Reached(stage) ==
  ~ cancelled /\ Goto("fetch") /\ html' = [html EXCEPT !.stage = stage] /\ PulseStays

\* The request to upgrade is to be answered by 101.
Upgrade == html.stage = "upgrade" /\ (PulseFails \/ Reached("version"))

\* The version, the client's name and address, and the server's empty challenge.
NegotiateVersion == html.stage = "version" /\ (PulseFails \/ Reached("challenge"))

\* "anonymous": the server goes on with EAP, or wants TTLS around it.
SendIdentity == html.stage = "challenge" /\ (PulseFails \/ Reached("ttls") \/ Reached("info"))

\* establish_eap_ttls(), and the identity once more within it.
EstablishTtls == html.stage = "ttls" /\ (PulseFails \/ Reached("info"))

\* The server's information is skipped over, and the client's is what the first
\* request answers.
PresentClient ==
  /\ html.stage = "info"
  /\ PulseFails \/ (~ cancelled /\ Goto("post") /\ UNCHANGED html /\ PulseStays)

PulseOpen ==
  /\ At("pulse", {"fetch"})
  /\ Upgrade \/ NegotiateVersion \/ SendIdentity \/ EstablishTtls \/ PresentClient
  /\ Requested("fetch")

-----------------------------------------------------------------------------
\* The forms; a choice that is no realm counts as a text field.
pulse_request_realm_entry == [EmptyForm EXCEPT !.text = TRUE]

\* Realms, in a form that is shown until the group does not change any more.
pulse_request_realm_choice ==
  {[f EXCEPT !.text = FALSE, !.pass = FALSE] : f \in GroupForms(WithFields)}

pulse_request_region_choice == [EmptyForm EXCEPT !.text = TRUE]

pulse_request_session_kill == [EmptyForm EXCEPT !.text = TRUE]

pulse_request_user_auth(flags) ==
  [EmptyForm EXCEPT !.text = "USERNAME" \in flags, !.pass = "PASSWORD" \in flags]

\* The current password, and a new one twice.
pulse_request_pass_change == [EmptyForm EXCEPT !.id = "change", !.pass = TRUE, !.code = "PASSWORD"]

\* A code, typed in if no token can make it.
pulse_request_gtc(flags) ==
  [EmptyForm EXCEPT !.text = "USERNAME" \in flags,
                    !.code = IF can_gen_tokencode(tok) THEN "TOKEN" ELSE "PASSWORD"]

-----------------------------------------------------------------------------
\* Attribute 0xd73 says what to prompt for from now on, until the next one.
PromptFlags ==
  {html.flags, {"USERNAME", "PASSWORD"}, {"PASSWORD"}, {"USERNAME"}}

Show(f, asked) ==
  \E flags \in PromptFlags :
    /\ form' = f[flags]
    /\ tok' = IF asked THEN Asked(tok) ELSE tok
    /\ html' = [html EXCEPT !.flags = flags]
    /\ Goto("ask")
    /\ UNCHANGED cookie

Whatever(f) == [flags \in SUBSET {"USERNAME", "PASSWORD"} |-> f]

\* Precisely one request, or no other than that to sign in, which is confirmed
\* without asking anybody.
Request ==
  /\ ~ cancelled
  /\ \/ Show(Whatever(pulse_request_realm_entry), FALSE)
     \/ \E f \in pulse_request_realm_choice : Show(Whatever(f), FALSE)
     \/ Show(Whatever(pulse_request_region_choice), FALSE)
     \/ Show(Whatever(pulse_request_session_kill), FALSE)
     \/ Show([flags \in SUBSET {"USERNAME", "PASSWORD"} |-> pulse_request_user_auth(flags)], FALSE)
     \/ Show(Whatever(pulse_request_pass_change), FALSE)
     \/ Show([flags \in SUBSET {"USERNAME", "PASSWORD"} |-> pulse_request_gtc(flags)], TRUE)
     \/ Goto("post") /\ form' = NoForm /\ UNCHANGED <<html, tok, cookie>>

\* A failure, more than one request, or something that is not understood.
Refused == ~ cancelled /\ PulseFails

\* A cookie: an empty response, to which the server is to answer "success".
\* If it does not the login has failed, with a cookie.
CookieFound ==
  /\ ~ cancelled
  /\ cookie' = TRUE
  /\ \E ret \in {"ok", "ERR"} : Finish(ret)
  /\ UNCHANGED <<form, tok, html>>

auth_response ==
  /\ At("pulse", {"post"})
  /\ PulseFails \/ Request \/ Refused \/ CookieFound
  /\ Requested("post")

\* New passwords that differ, or are too long, are asked for again, and the old
\* one with them.
PasswordsDiffer ==
  /\ form.id = "change"
  /\ \E a \in process_auth_form(form, client, TRUE) :
       a.ret = "OK" /\ client' = a.client
  /\ Goto("ask") /\ UNCHANGED <<tok, body>>

PulseFill ==
  /\ At("pulse", {"ask"})
  /\ Fill(ask_until_group(form, client)) \/ PasswordsDiffer
  /\ form' = IF pc' = "ask" THEN form ELSE NoForm
  /\ UNCHANGED <<proto, given, sent, cancelled, cookie, own>>

PulseNext == PulseOpen \/ auth_response \/ PulseFill
=============================================================================
