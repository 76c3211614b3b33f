------------------------------ MODULE LoginBase ------------------------------
(***************************************************************************)
(* The state of a login and the steps that all protocols share: the user   *)
(* fills in a form, and what has been filled in is posted.                 *)
(***************************************************************************)
EXTENDS AuthForm

CONSTANT MaxCodes   \* codes made from a token before servers stop asking (bound)

ASSUME LoginAssumption == MaxCodes \in Nat \ {0}

VARIABLES
  proto,      \* the protocol that openconnect_obtain_cookie() has been told to use
  given,      \* what the user has set up: certificates, a host scan, a second field
  pc, form,
  body,       \* what is to be posted
  client, tok,
  sent,       \* history: the last password and the last code the server at hand was
              \* sent, and how many codes all servers were sent
  cancelled,  \* got_cancel_cmd
  cookie,     \* vpninfo->cookie has been set
  result,
  cstp, gp, html   \* what cstp_obtain_cookie(), gpst_login() and the others keep

vars == <<proto, given, pc, form, body, client, tok, sent, cancelled, cookie, result,
          cstp, gp, html>>

own == <<cstp, gp, html>>

Protocols == {"anyconnect", "nc", "gp", "f5", "fortinet", "array", "pulse"}

NothingSent == [pass |-> 0, code |-> 0, codes |-> 0]

Later(a, b) == IF a > b THEN a ELSE b

Posted == [pass |-> Later(sent.pass, body.pass), code |-> Later(sent.code, body.code),
           codes |-> sent.codes + IF body.code = 0 THEN 0 ELSE 1]

\* Servers may ask for yet another code.
MoreCodes(s) == s.codes < MaxCodes

\* 0, more than 0 or less than 0: "ok", "CANCELLED" or "ERR".
Finish(ret) == pc' = "done" /\ result' = ret

Goto(label) == pc' = label /\ UNCHANGED result

\* The user fills in the form and the code is added: off it goes.
Fill(answers) ==
  \E a \in answers :
    /\ client' = a.client
    /\ IF a.ret = "OK"
       THEN \E g \in do_gen_tokencode(form, tok) :
              /\ tok' = g.tok
              /\ IF g.ok THEN Goto("post") /\ body' = append_form_opts(a, g.code)
                 ELSE Finish("ERR") /\ UNCHANGED body
       ELSE Finish(a.ret) /\ UNCHANGED <<tok, body>>

\* A page that holds a form, parsed.
ShowForm(f, allowed) ==
  LET parsed == parse_input_node(f, allowed, tok)
  IN form' = parsed.form /\ tok' = parsed.tok /\ Goto("ask")

\* A command from the user or the application.
Cancel ==
  /\ pc # "done" /\ ~ cancelled
  /\ cancelled' = TRUE
  /\ UNCHANGED <<proto, given, pc, form, body, client, tok, sent, cookie, result, own>>
=============================================================================
