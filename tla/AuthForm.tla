------------------------------ MODULE AuthForm ------------------------------
(***************************************************************************)
(* What every login is made of, whichever protocol it is for: forms as     *)
(* servers send them and as they are parsed, process_auth_form() with the  *)
(* command line client's answers to it, one-time codes, and the body that  *)
(* is posted in the end.  Operators only; Login keeps the state.           *)
(***************************************************************************)
EXTENDS Integers, FiniteSets, TLC

CONSTANTS
  Groups,     \* groups (realms, roles, gateways) a form may offer
  NoAaa,      \* those that ask for nothing but a certificate
  MaxTyped    \* passwords and codes the user hands over before giving up (bound)

MaxTime == 3  \* steps of a token told apart (bound)

ASSUME AuthFormAssumption ==
  NoAaa \subseteq Groups /\ NoAaa # Groups /\ MaxTyped \in Nat

None == "none"

\* How a field of a form is treated once the form has been parsed.
FieldType == {None, "PASSWORD", "TOKEN"}

\* "login" stands for every form with fields; the others have none, or are
\* known by their name only.  text is a user name or another field that has a
\* given answer, pass a password, code a second secret, shown under the name of
\* a password and perhaps filled in by a token.
Form == [id : {"login", "challenge", "confirm", "change", "roles", "bare", "complete", "success"},
         text : BOOLEAN, pass : BOOLEAN, code : FieldType, sso : BOOLEAN,
         groups : SUBSET Groups, selected : Groups \cup {None}]

EmptyForm == [id |-> "login", text |-> FALSE, pass |-> FALSE, code |-> None, sso |-> FALSE,
              groups |-> {}, selected |-> None]

NoForm == [EmptyForm EXCEPT !.id = "bare"]

LoginForm == [EmptyForm EXCEPT !.text = TRUE, !.pass = TRUE]
ChallengeForm == [EmptyForm EXCEPT !.code = "PASSWORD"]
GroupForm(offered, selected) == [LoginForm EXCEPT !.groups = offered, !.selected = selected]

\* Only AnyConnect has groups that need no fields.
WithFields == Groups \ NoAaa
WithGroup == CHOOSE g \in WithFields : TRUE

\* The whole list of groups, or one that holds a single group.
GroupForms(all) == {GroupForm(all, g) : g \in all} \cup {GroupForm({WithGroup}, WithGroup)}

-----------------------------------------------------------------------------
\* One-time codes.  A code is the step in time, or the count, it is made for.

Token == [mode : {None, "TOTP", "HOTP"}, tries : Nat, time : Nat, bypassed : BOOLEAN]

\* can_gen_totp_code(), can_gen_hotp_code() and the functions that choose.
can_gen_tokencode(tok) == tok.mode # None /\ tok.tries <= 1

\* The side effect of asking: a TOTP code will be for the time it is made at, or
\* for the step after the last.
Asked(tok) ==
  IF ~ can_gen_tokencode(tok) \/ tok.mode = "HOTP" THEN tok
  ELSE [tok EXCEPT !.time = IF tok.tries = 0 THEN 0 ELSE IF @ = MaxTime THEN @ ELSE @ + 1]

\* Broken on purpose: the tries are not counted.
do_gen_tokencode_Uncounted(f, tok) ==
  IF f.code # "TOKEN" THEN {[ok |-> TRUE, tok |-> tok, code |-> 0]}
  ELSE LET now == IF tok.time = 0 THEN 1 ELSE tok.time
       IN {[ok |-> TRUE, code |-> now,
            tok |-> [tok EXCEPT !.time = IF tok.mode = "TOTP" THEN now ELSE now + 1]]}

\* The code for a form that has a field for it.  A token that fails is not
\* used again, and neither does the login go on.
do_gen_tokencode(f, tok) ==
  IF f.code # "TOKEN" THEN {[ok |-> TRUE, tok |-> tok, code |-> 0]}
  ELSE LET now == IF tok.time = 0 THEN 1 ELSE tok.time
       IN {[ok |-> TRUE, code |-> now,
            tok |-> [tok EXCEPT !.tries = @ + 1,
                                !.time = IF tok.mode = "TOTP" THEN now ELSE now + 1]],
           [ok |-> FALSE, code |-> 0, tok |-> [tok EXCEPT !.bypassed = TRUE]]}

\* A field for a password turns into one for a code if allowed says so.
parse_input_node(f, allowed, tok) ==
  IF f.code = "PASSWORD" /\ allowed
  THEN [form |-> IF can_gen_tokencode(tok) THEN [f EXCEPT !.code = "TOKEN"] ELSE f,
        tok |-> Asked(tok)]
  ELSE [form |-> f, tok |-> tok]

-----------------------------------------------------------------------------
\* The client: the library's authgroup, the user's, whether it has been told to
\* the library, forms in a row that the user had no part in, a password given
\* on the command line, whether there is somebody to ask, whether a browser is
\* at hand, and how many passwords have been handed over: a password is known
\* by its number.
Client == [authgroup : Groups \cup {None}, wanted : Groups \cup {None},
           authgroup_set : BOOLEAN, asked_again : BOOLEAN, last_form_empty : 0 .. 3, password : BOOLEAN,
           interactive : BOOLEAN, browser : BOOLEAN, typed : 0 .. MaxTyped]

NewClient(group, password, interactive, browser) ==
  [authgroup |-> group, wanted |-> group, authgroup_set |-> FALSE, asked_again |-> FALSE, last_form_empty |-> 0,
   password |-> password, interactive |-> interactive, browser |-> browser, typed |-> 0]

\* What the callback answers: the group, the group whose fields were shown,
\* whether the user was asked for a group although there was one, the number of
\* the password.
Answer(ret, c, group, shown, pass) ==
  [ret |-> ret, client |-> c, group |-> group, shown |-> shown, pass |-> pass]

\* match_choice_label() and prompt_opt_select(): the only choice needs nobody.
Choices(f, c) ==
  IF c.wanted \in f.groups THEN {c.wanted}
  ELSE IF Cardinality(f.groups) = 1 \/ c.interactive THEN f.groups
  ELSE {}

\* The fields of a form, those that the group shown has no use for left out.
answer_fields(f, c, group, shown) ==
  LET ignored == shown \in NoAaa
      secrets == IF ignored THEN 0
                 ELSE (IF f.pass THEN 1 ELSE 0) + (IF f.code = "PASSWORD" THEN 1 ELSE 0)
      given == IF c.password THEN 1 ELSE 0
      empty == f.code # "TOKEN" /\ (ignored \/ (~ f.text /\ secrets = 0))
      known == secrets <= given \/ c.interactive
      answered == [c EXCEPT !.typed = @ + secrets,
                            !.password = @ /\ secrets = 0,
                            !.last_form_empty = IF ~ empty THEN 0 ELSE IF @ = 3 THEN 3 ELSE @ + 1]
  IN IF ~ known \/ c.typed + secrets > MaxTyped
     THEN Answer("ERR", c, group, shown, 0)
     ELSE Answer(IF answered.last_form_empty = 3 THEN "CANCELLED" ELSE "OK",
                 answered, group, shown,
                 IF f.pass /\ ~ ignored THEN c.typed + 1 ELSE 0)

\* process_auth_form_cb(): a group first.  The first one is told to the
\* library, which may have the form change with it.
process_auth_form_cb(f, c, shown) ==
  IF f.groups = {} THEN {answer_fields(f, c, None, shown)}
  ELSE IF Choices(f, c) = {} THEN {Answer("ERR", c, None, shown, 0)}
  ELSE {LET d == [c EXCEPT !.wanted = g, !.authgroup_set = TRUE,
                              !.asked_again = @ \/ (c.authgroup_set /\ c.wanted # g)]
        IN IF ~ c.authgroup_set THEN Answer("NEWGROUP", d, g, shown, 0)
           ELSE answer_fields(f, d, g, shown) : g \in Choices(f, c)}

\* The group whose fields are shown: the library's, or what the server says.
Shown(f, c) ==
  IF f.groups = {} THEN None ELSE IF c.authgroup \in f.groups THEN c.authgroup ELSE f.selected

\* Broken on purpose: the library does not take the group.
NewGroup_NotTaken(a) == a

\* The library takes the group that was answered.
NewGroup(a) == [a EXCEPT !.client.authgroup = a.group]

\* The single sign-on that a form asks for takes place whatever the callback
\* has said, and what it returns is what counts.
SingleSignOn(f, answers) ==
  IF ~ f.sso THEN answers
  ELSE UNION {{[a EXCEPT !.ret = "ERR"]} \cup
              IF a.client.browser THEN {[a EXCEPT !.ret = "OK"]} ELSE {} : a \in answers}

\* process_auth_form().  Without XML POST the form is shown again for a new
\* group; with it, the caller is told.
process_auth_form(f, c, xmlpost) ==
  LET first == process_auth_form_cb(f, c, Shown(f, c))
      again == UNION {process_auth_form_cb(f, NewGroup(a).client, Shown(f, NewGroup(a).client)) :
                        a \in {b \in first : b.ret = "NEWGROUP"}}
      told == {IF a.ret = "NEWGROUP" THEN NewGroup(a) ELSE a : a \in first}
  IN SingleSignOn(f, IF xmlpost THEN told
                     ELSE {a \in first : a.ret # "NEWGROUP"} \cup again)

\* Callers that show the form again themselves.
ask_until_group(f, c) == process_auth_form(f, c, FALSE)

-----------------------------------------------------------------------------
\* What is posted: the group and the group whose fields were shown, the number
\* of the password, the code of the token.
Body == [group : Groups \cup {None}, shown : Groups \cup {None},
         pass : 0 .. MaxTyped, code : Nat]

EmptyBody == [group |-> None, shown |-> None, pass |-> 0, code |-> 0]

append_form_opts(a, code) ==
  [group |-> a.group, shown |-> a.shown, pass |-> a.pass, code |-> code]
=============================================================================
