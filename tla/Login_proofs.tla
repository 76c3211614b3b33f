---------------------------- MODULE Login_proofs ----------------------------
(***************************************************************************)
(* Login for any groups, any number of passwords and any setting: no       *)
(* password and no code is posted twice, the host scan is run once, and    *)
(* the group that is posted is the one that was shown.                     *)
(*                                                                         *)
(* Apart from GlobalProtect's, the steps of the protocols come to the same *)
(* few (Moves): a page or the lack of one, a form that is filled in, and   *)
(* a user's answer that is not posted.                                     *)
(***************************************************************************)
EXTENDS Login, TLAPS

\* Places in the functions, and what the user may have set up.
Places == {"probe", "scan", "wait", "refetch", "fetch", "tncc", "portal", "ask", "post", "done"}

Settings == [xmlpost : BOOLEAN, cert2 : BOOLEAN, multicert : BOOLEAN, csd : BOOLEAN, wrapper : BOOLEAN,
             uid_csd_given : BOOLEAN, nopasswd : BOOLEAN,
             server : {"portal", "gateway", "either"}, alt_secret : BOOLEAN]

\* What servers were sent, and what LoginHtml and LoginPulse keep.
Histories == [pass : Nat, code : Nat, codes : Nat]

Pages == [try_tncc : BOOLEAN, first : BOOLEAN, page : BOOLEAN,
          flags : SUBSET {"USERNAME", "PASSWORD"}, stage : Stages]

\* A form, and that browsers come without a choice of groups.
AForm(f) == f \in Form /\ (f.sso => f.groups = {})

\* Types, but for the number of codes, which is another matter.
Fixed == proto \in Protocols /\ given \in Settings /\ pc \in Places
Filled == AForm(form) /\ body \in Body /\ client \in Client /\ tok \in Token /\ sent \in Histories
Kept == cstp \in CstpState /\ gp \in GpState /\ html \in Pages

\* What has been posted is gone.
BodyGone == proto # "gp" /\ pc # "post" => body = EmptyBody

\* A password that was, or is to be, posted was handed over; what is to be posted
\* after what was.
Passwords ==
  /\ sent.pass <= client.typed /\ body.pass <= client.typed /\ gp.value <= client.typed
  /\ NotPostedTwice

Limited == proto \notin {"fortinet", "gp"}

\* How many codes there were is what the token has counted, and the time of the next
\* one is later than theirs where a form asks for it.
Codes ==
  Limited =>
    /\ tok.tries <= 2
    /\ sent.codes + (IF body.code = 0 THEN 0 ELSE 1) <= tok.tries
    /\ body.code = 0 \/ body.code > sent.code
    /\ tok.tries <= 1 => sent.code <= tok.tries /\ body.code <= tok.tries
    /\ tok.tries = 0 => tok.time = 0
    /\ tok.tries = 1 => tok.time >= (IF tok.mode = "HOTP" THEN 2 ELSE 1)
    /\ pc = "ask" /\ form.code = "TOKEN" =>
         tok.mode # None /\ tok.tries <= 1 /\ (tok.tries = 1 => tok.time >= 2)

\* The library's group is the user's, unless there was a reason to ask for another.
Agreed(c) == c.authgroup_set /\ ~ c.asked_again => c.authgroup = c.wanted

\* The group of a form without groups is none; the group is the one that was shown.
Groupings ==
  /\ proto = "gp" => form.groups = {} /\ body.group = None
  /\ proto # "gp" => Agreed(client)
  /\ pc = "post" /\ body.group # None /\ ~ client.asked_again => body.group = body.shown

\* The scan that is about to be run is the first one.
Scans ==
  /\ cstp.scans <= 1
  /\ cstp.csd # "ran" => cstp.scans = 0
  /\ proto = "anyconnect" /\ pc = "scan" => cstp.csd = "given"

\* The inductive invariant.
LoginInv == Fixed /\ Filled /\ Kept /\ BodyGone /\ Passwords /\ Codes /\ Groupings /\ Scans

USE AuthFormAssumption DEF AuthFormAssumption, None

-----------------------------------------------------------------------------
\* Forms and answers.

\* Groups that may be answered, and what process_auth_form() returns.
Choosable == Groups \cup {None}

Answers == [ret : {"OK", "ERR", "CANCELLED", "NEWGROUP"}, client : Client, group : Choosable,
            shown : Choosable, pass : 0 .. MaxTyped]

\* An answer's password is a new one, and its group is the one that was shown.
Fits(a, f, c) ==
  /\ a \in Answers
  /\ c.typed <= a.client.typed
  /\ a.pass = 0 \/ (a.pass > c.typed /\ a.pass <= a.client.typed)
  /\ Agreed(c) => Agreed(a.client)
  /\ f.groups = {} => a.group = None
  /\ Agreed(c) /\ a.ret = "OK" /\ a.group # None /\ ~ a.client.asked_again => a.group = a.shown

\* The fields leave the client's groups alone.
FieldsFit(a, c, group, shown) ==
  /\ a \in Answers /\ a.ret # "NEWGROUP" /\ a.group = group /\ a.shown = shown
  /\ c.typed <= a.client.typed
  /\ a.pass = 0 \/ (a.pass > c.typed /\ a.pass <= a.client.typed)
  /\ a.client.authgroup = c.authgroup /\ a.client.wanted = c.wanted
  /\ a.client.authgroup_set = c.authgroup_set /\ a.client.asked_again = c.asked_again

\* A password that is answered has just been handed over.
LEMMA FieldsAnswered ==
  ASSUME NEW f \in Form, NEW c \in Client, NEW group \in Choosable, NEW shown \in Choosable
  PROVE  FieldsFit(answer_fields(f, c, group, shown), c, group, shown)
<1> DEFINE ignored == shown \in NoAaa
           secrets == IF ignored THEN 0
                      ELSE (IF f.pass THEN 1 ELSE 0) + (IF f.code = "PASSWORD" THEN 1 ELSE 0)
           known == secrets <= (IF c.password THEN 1 ELSE 0) \/ c.interactive
           empty == f.code # "TOKEN" /\ (ignored \/ (~ f.text /\ secrets = 0))
           d1 == [c EXCEPT !.typed = @ + secrets]
           d2 == [d1 EXCEPT !.password = @ /\ secrets = 0]
           d == [d2 EXCEPT !.last_form_empty = IF ~ empty THEN 0 ELSE IF @ = 3 THEN 3 ELSE @ + 1]
           a == answer_fields(f, c, group, shown)
<1>1. secrets \in 0 .. 2 /\ (f.pass /\ ~ ignored => secrets >= 1)
  OBVIOUS
<1>2. c.typed \in 0 .. MaxTyped /\ c.password \in BOOLEAN /\ c.last_form_empty \in 0 .. 3
  BY DEF Client
<1>3. ASSUME ~ (~ known \/ c.typed + secrets > MaxTyped)
      PROVE  a = Answer(IF d.last_form_empty = 3 THEN "CANCELLED" ELSE "OK", d, group, shown,
                        IF f.pass /\ ~ ignored THEN c.typed + 1 ELSE 0)
  BY <1>3 DEF answer_fields
<1>4. ASSUME ~ known \/ c.typed + secrets > MaxTyped
      PROVE  a = Answer("ERR", c, group, shown, 0)
  BY <1>4 DEF answer_fields
<1>5. ASSUME c.typed + secrets <= MaxTyped
      PROVE  /\ d \in Client /\ d.typed = c.typed + secrets
             /\ d.authgroup = c.authgroup /\ d.wanted = c.wanted
             /\ d.authgroup_set = c.authgroup_set /\ d.asked_again = c.asked_again
  <2> HIDE DEF secrets, empty
  <2>1. c.typed + secrets \in 0 .. MaxTyped
    BY <1>1, <1>2, <1>5
  <2>2. d1 \in Client /\ d1.typed = c.typed + secrets /\ d1.authgroup = c.authgroup /\ d1.wanted = c.wanted
        /\ d1.authgroup_set = c.authgroup_set /\ d1.asked_again = c.asked_again
    BY <2>1 DEF Client
  <2> HIDE DEF d1
  <2>3. d2 \in Client /\ d2.typed = d1.typed /\ d2.authgroup = d1.authgroup /\ d2.wanted = d1.wanted
        /\ d2.authgroup_set = d1.authgroup_set /\ d2.asked_again = d1.asked_again
    BY <2>2 DEF Client
  <2> HIDE DEF d2
  <2>4. d \in Client /\ d.typed = d2.typed /\ d.authgroup = d2.authgroup /\ d.wanted = d2.wanted
        /\ d.authgroup_set = d2.authgroup_set /\ d.asked_again = d2.asked_again
    BY <2>3 DEF Client
  <2> QED
    BY <2>2, <2>3, <2>4
<1> HIDE DEF a, d, d1, d2, secrets, known, ignored, empty
<1>6. CASE ~ known \/ c.typed + secrets > MaxTyped
  BY <1>2, <1>4, <1>6 DEF Answer, Answers, FieldsFit, a
<1>7. CASE ~ (~ known \/ c.typed + secrets > MaxTyped)
  <2>1. c.typed + secrets <= MaxTyped
    BY <1>1, <1>2, <1>7
  <2>2. a.pass = 0 \/ (a.pass = c.typed + 1 /\ secrets >= 1)
    BY <1>1, <1>3, <1>7 DEF Answer
  <2>3. a.client = d /\ a.group = group /\ a.shown = shown /\ a.ret \in {"CANCELLED", "OK"}
    BY <1>3, <1>7 DEF Answer
  <2>4. a.pass \in 0 .. MaxTyped
    BY <1>1, <1>2, <2>1, <2>2
  <2>5. a \in Answers
    BY <1>3, <1>5, <1>7, <2>1, <2>3, <2>4 DEF Answer, Answers
  <2> QED
    BY <1>1, <1>2, <1>5, <2>1, <2>2, <2>3, <2>5 DEF FieldsFit, a
<1> QED
  BY <1>6, <1>7

\* The groups to choose from are those of the form.
LEMMA ChoicesOffered == \A f, c : Choices(f, c) \subseteq f.groups
BY DEF Choices

\* The callback's answers fit, once a group has been told; the first one is only told.
LEMMA CallbackFits ==
  ASSUME NEW f \in Form, NEW c \in Client, NEW shown \in Choosable, NEW a \in process_auth_form_cb(f, c, shown),
         shown = Shown(f, c)
  PROVE  /\ a \in Answers /\ c.typed <= a.client.typed /\ a.group \in f.groups \cup {None}
         /\ a.ret # "NEWGROUP" => Fits(a, f, c)
         /\ a.ret = "NEWGROUP" => /\ a.pass = 0 /\ a.group \in f.groups /\ a.client.wanted = a.group
                                  /\ a.client.authgroup_set /\ f.groups # {}
<1> USE DEF Agreed, Fits
<1>0. c.typed \in Nat /\ c.asked_again \in BOOLEAN /\ c.authgroup_set \in BOOLEAN
  BY DEF Client
<1>1. CASE f.groups = {}
  <2>1. a = answer_fields(f, c, None, shown) /\ None \in Choosable
    BY <1>1 DEF process_auth_form_cb, Choosable
  <2> QED
    BY <1>1, <2>1, FieldsAnswered DEF FieldsFit
<1>2. CASE f.groups # {} /\ Choices(f, c) = {}
  <2>1. a = Answer("ERR", c, None, shown, 0)
    BY <1>2 DEF process_auth_form_cb
  <2> QED
    BY <1>0, <1>2, <2>1 DEF Answer, Answers, Choosable
<1>3. CASE f.groups # {} /\ Choices(f, c) # {}
  <2>1. PICK g \in Choices(f, c) :
          a = LET d == [c EXCEPT !.wanted = g, !.authgroup_set = TRUE,
                              !.asked_again = @ \/ (c.authgroup_set /\ c.wanted # g)]
              IN IF ~ c.authgroup_set THEN Answer("NEWGROUP", d, g, shown, 0)
                 ELSE answer_fields(f, d, g, shown)
    BY <1>3 DEF process_auth_form_cb
  <2>2. g \in f.groups /\ g \in Groups /\ g \in Choosable
    BY ChoicesOffered DEF Form, Choosable
  <2> DEFINE d1 == [c EXCEPT !.wanted = g]
             d2 == [d1 EXCEPT !.authgroup_set = TRUE]
             d == [d2 EXCEPT !.asked_again = @ \/ (c.authgroup_set /\ c.wanted # g)]
  <2>3. d1 \in Client /\ d1.wanted = g /\ d1.typed = c.typed /\ d1.authgroup = c.authgroup
        /\ d1.asked_again = c.asked_again
    BY <2>2 DEF Client
  <2>4. a = IF ~ c.authgroup_set THEN Answer("NEWGROUP", d, g, shown, 0)
            ELSE answer_fields(f, d, g, shown)
    BY <2>1 DEF d1, d2, d
  <2> HIDE DEF d1
  <2>5. d2 \in Client /\ d2.wanted = g /\ d2.typed = c.typed /\ d2.authgroup = c.authgroup
        /\ d2.asked_again = c.asked_again /\ d2.authgroup_set
    BY <2>3 DEF Client
  <2> HIDE DEF d2
  <2>6. d \in Client /\ d.wanted = g /\ d.typed = c.typed /\ d.authgroup = c.authgroup /\ d.authgroup_set
    BY <1>0, <2>5 DEF Client
  <2>7. d.asked_again <=> c.asked_again \/ (c.authgroup_set /\ c.wanted # g)
    BY <1>0, <2>5 DEF Client
  <2> HIDE DEF d
  <2>8. CASE ~ c.authgroup_set
    BY <1>0, <1>3, <2>2, <2>4, <2>6, <2>8 DEF Answer, Answers
  <2>9. CASE c.authgroup_set
    <3> DEFINE b == answer_fields(f, d, g, shown)
    <3>1. FieldsFit(b, d, g, shown)
      BY <2>2, <2>6, FieldsAnswered
    <3>2. a = b
      BY <2>4, <2>9
    <3> HIDE DEF b
    <3>3. (c.authgroup = c.wanted) /\ ~ d.asked_again => c.authgroup = g
      BY <2>7, <2>9
    <3>4. c.authgroup = g => shown = g
      BY <2>2, <1>3 DEF Shown
    <3>5. Agreed(c) => Agreed(b.client)
      BY <2>6, <2>7, <2>9, <3>1, <3>3 DEF FieldsFit
    <3>6. Agreed(c) /\ ~ b.client.asked_again => b.group = b.shown
      BY <2>7, <2>9, <3>1, <3>3, <3>4 DEF FieldsFit
    <3> QED
      BY <1>3, <2>2, <2>6, <3>1, <3>2, <3>5, <3>6 DEF FieldsFit
  <2> QED
    BY <2>8, <2>9
<1> QED
  BY <1>1, <1>2, <1>3

\* The group that is shown is one, or none.
LEMMA ShownIs == \A f \in Form, c \in Client : Shown(f, c) \in Choosable
BY DEF Shown, Form, Client, Choosable

\* Taking the group makes the library's the user's.
LEMMA GroupTaken ==
  ASSUME NEW f \in Form, NEW c \in Client, NEW a \in process_auth_form_cb(f, c, Shown(f, c)), a.ret = "NEWGROUP"
  PROVE  /\ Fits(NewGroup(a), f, c) /\ NewGroup(a).ret = "NEWGROUP"
         /\ NewGroup(a).client \in Client /\ Agreed(NewGroup(a).client)
         /\ NewGroup(a).client.typed >= c.typed
<1>1. /\ a \in Answers /\ c.typed <= a.client.typed /\ a.pass = 0 /\ a.group \in f.groups
      /\ a.client.wanted = a.group /\ f.groups # {}
  BY CallbackFits, ShownIs
<1> DEFINE d == [a.client EXCEPT !.authgroup = a.group]
<1>2. a.client \in Client /\ a.group \in Choosable
  BY <1>1 DEF Answers
<1>3. d \in Client /\ d.authgroup = a.group /\ d.wanted = a.client.wanted /\ d.typed = a.client.typed
  BY <1>2 DEF Client, Choosable
<1>4. NewGroup(a) = [a EXCEPT !.client = d]
  BY <1>1 DEF NewGroup, Answers
<1> HIDE DEF d
<1>5. /\ NewGroup(a) \in Answers /\ NewGroup(a).client = d /\ NewGroup(a).pass = 0
      /\ NewGroup(a).ret = "NEWGROUP" /\ NewGroup(a).group = a.group
  BY <1>1, <1>3, <1>4 DEF Answers
<1> QED
  BY <1>1, <1>3, <1>5 DEF Fits, Agreed

\* Every answer fits, whether the form is shown again for a new group or not.
LEMMA AnswersFit ==
  ASSUME NEW f \in Form, NEW c \in Client, NEW xmlpost \in BOOLEAN, f.sso => f.groups = {},
         NEW a \in process_auth_form(f, c, xmlpost)
  PROVE  Fits(a, f, c) /\ (a.ret = "NEWGROUP" => f.groups # {})
<1> DEFINE first == process_auth_form_cb(f, c, Shown(f, c))
           next(b) == process_auth_form_cb(f, NewGroup(b).client, Shown(f, NewGroup(b).client))
           again == UNION {next(b) : b \in {e \in first : e.ret = "NEWGROUP"}}
           told == {IF b.ret = "NEWGROUP" THEN NewGroup(b) ELSE b : b \in first}
           answers == IF xmlpost THEN told ELSE {b \in first : b.ret # "NEWGROUP"} \cup again
<1>0. c.typed \in Nat
  BY DEF Client
<1>1. \A b \in first : /\ b.ret # "NEWGROUP" => Fits(b, f, c)
                       /\ b.ret = "NEWGROUP" => f.groups # {} /\ Fits(NewGroup(b), f, c)
  BY CallbackFits, GroupTaken, ShownIs
<1>2. \A b \in again : b.ret # "NEWGROUP" /\ Fits(b, f, c)
  <2> SUFFICES ASSUME NEW e \in first, e.ret = "NEWGROUP", NEW b \in next(e)
               PROVE  b.ret # "NEWGROUP" /\ Fits(b, f, c)
    OBVIOUS
  <2> DEFINE d == NewGroup(e).client
  <2>1. d \in Client /\ Agreed(d) /\ d.typed >= c.typed
    BY GroupTaken
  <2>2. e.client.authgroup_set /\ e.client \in Client /\ e \in Answers
    BY CallbackFits, ShownIs DEF Answers
  <2>3. d.authgroup_set
    BY <2>2 DEF NewGroup, Answers, Client
  <2>4. Shown(f, d) \in Choosable
    BY <2>1, ShownIs
  <2> HIDE DEF d
  <2>5. b \in process_auth_form_cb(f, d, Shown(f, d))
    BY DEF d
  <2>6. \A x \in process_auth_form_cb(f, d, Shown(f, d)) : x.ret # "NEWGROUP"
    <3>1. \A g, s, e2 : answer_fields(f, e2, g, s).ret # "NEWGROUP"
      BY DEF answer_fields, Answer
    <3>2. ASSUME NEW x \in process_auth_form_cb(f, d, Shown(f, d))
          PROVE  \/ \E e2, g : x = answer_fields(f, e2, g, Shown(f, d))
                 \/ x = Answer("ERR", d, None, Shown(f, d), 0)
      BY <2>3 DEF process_auth_form_cb
    <3>3. Answer("ERR", d, None, Shown(f, d), 0).ret # "NEWGROUP"
      BY DEF Answer
    <3> QED
      BY <3>1, <3>2, <3>3
  <2>7. Fits(b, f, d) /\ b.ret # "NEWGROUP"
    BY <2>1, <2>4, <2>5, <2>6, CallbackFits
  <2>8. b.client.typed \in Nat /\ d.typed \in Nat /\ b.pass \in Nat
    BY <2>1, <2>7 DEF Fits, Answers, Client
  <2> QED
    BY <1>0, <2>1, <2>7, <2>8 DEF Fits
<1>3. \A b \in answers : Fits(b, f, c) /\ (b.ret = "NEWGROUP" => f.groups # {})
  <2>1. \A b \in told : Fits(b, f, c) /\ (b.ret = "NEWGROUP" => f.groups # {})
    BY <1>1
  <2> HIDE DEF first, again, told
  <2>2. \A b \in first : b.ret # "NEWGROUP" => Fits(b, f, c)
    BY <1>1 DEF first
  <2> QED
    BY <1>2, <2>1, <2>2
<1>4. a \in SingleSignOn(f, answers)
  BY DEF process_auth_form
<1> HIDE DEF answers
<1>5. CASE ~ f.sso
  BY <1>3, <1>4, <1>5 DEF SingleSignOn
<1>6. CASE f.sso
  <2>1. PICK b \in answers : a \in {[b EXCEPT !.ret = "ERR"], [b EXCEPT !.ret = "OK"]}
    BY <1>4, <1>6 DEF SingleSignOn
  <2>2. Fits(b, f, c) /\ f.groups = {}
    BY <1>3, <1>6
  <2>3. /\ a \in Answers /\ a.ret \in {"ERR", "OK"} /\ a.client = b.client /\ a.pass = b.pass
        /\ a.group = b.group /\ a.shown = b.shown
    BY <2>1, <2>2 DEF Fits, Answers
  <2> QED
    BY <2>2, <2>3 DEF Fits
<1> QED
  BY <1>5, <1>6

-----------------------------------------------------------------------------
\* Codes.

\* Being asked for a code changes when the next one is for.
LEMMA AskedIs ==
  ASSUME NEW t \in Token
  PROVE  /\ Asked(t) \in Token /\ Asked(t).mode = t.mode /\ Asked(t).tries = t.tries
         /\ t.time = 0 /\ t.tries = 0 => Asked(t).time = 0
         /\ t.tries # 0 => Asked(t).time >= t.time
         /\ can_gen_tokencode(t) /\ t.tries # 0 /\ t.time >= (IF t.mode = "HOTP" THEN 2 ELSE 1) => Asked(t).time >= 2
<1> DEFINE n == IF t.tries = 0 THEN 0 ELSE IF t.time = MaxTime THEN t.time ELSE t.time + 1
<1>1. t.time \in Nat /\ t.tries \in Nat /\ n \in Nat /\ MaxTime = 3
  BY DEF Token, MaxTime
<1>2. CASE ~ can_gen_tokencode(t) \/ t.mode = "HOTP"
  <2>1. Asked(t) = t
    BY <1>2 DEF Asked
  <2> QED
    BY <1>1, <1>2, <2>1
<1>3. CASE ~ (~ can_gen_tokencode(t) \/ t.mode = "HOTP")
  <2>1. Asked(t) = [t EXCEPT !.time = n]
    BY <1>3 DEF Asked
  <2>2. t.tries # 0 => n >= t.time /\ (t.time >= 1 => n >= 2)
    BY <1>1
  <2>3. t.tries = 0 => n = 0
    OBVIOUS
  <2> HIDE DEF n
  <2>4. Asked(t) \in Token /\ Asked(t).time = n /\ Asked(t).mode = t.mode /\ Asked(t).tries = t.tries
    BY <1>1, <2>1 DEF Token
  <2> QED
    BY <1>1, <1>3, <2>2, <2>3, <2>4
<1> QED
  BY <1>2, <1>3

\* A code is for the time the token has come to, which it counts.
CodeMade(g, t) ==
  /\ g.tok \in Token /\ g.tok.mode = t.mode /\ g.code \in Nat
  /\ g.ok => /\ g.tok.tries = t.tries + 1 /\ g.code = (IF t.time = 0 THEN 1 ELSE t.time)
             /\ g.tok.time = IF t.mode = "TOTP" THEN g.code ELSE g.code + 1
  /\ ~ g.ok => g.tok.tries = t.tries /\ g.tok.time = t.time

\* do_gen_tokencode() makes a code where the form has a field for it.
LEMMA CodesMade ==
  ASSUME NEW f, NEW t \in Token, NEW g \in do_gen_tokencode(f, t)
  PROVE  /\ f.code # "TOKEN" => g.ok /\ g.tok = t /\ g.code = 0
         /\ f.code = "TOKEN" => CodeMade(g, t)
<1>1. CASE f.code # "TOKEN"
  <2>1. g = [ok |-> TRUE, tok |-> t, code |-> 0]
    BY <1>1 DEF do_gen_tokencode
  <2> QED
    BY <1>1, <2>1
<1>2. CASE f.code = "TOKEN"
  <2> DEFINE now == IF t.time = 0 THEN 1 ELSE t.time
             next == IF t.mode = "TOTP" THEN now ELSE now + 1
             d1 == [t EXCEPT !.tries = @ + 1]
             d2 == [d1 EXCEPT !.time = next]
             d3 == [t EXCEPT !.bypassed = TRUE]
  <2>1. g \in {[ok |-> TRUE, code |-> now, tok |-> d2], [ok |-> FALSE, code |-> 0, tok |-> d3]}
    BY <1>2 DEF do_gen_tokencode
  <2>2. now \in Nat /\ next \in Nat
    BY DEF Token
  <2>3. next = IF t.mode = "TOTP" THEN now ELSE now + 1
    OBVIOUS
  <2>4. now = IF t.time = 0 THEN 1 ELSE t.time
    OBVIOUS
  <2> HIDE DEF now, next
  <2>5. d1 \in Token /\ d1.tries = t.tries + 1 /\ d1.mode = t.mode
    BY DEF Token
  <2> HIDE DEF d1
  <2>6. d2 \in Token /\ d2.tries = d1.tries /\ d2.mode = d1.mode /\ d2.time = next
    BY <2>2, <2>5 DEF Token
  <2>7. d3 \in Token /\ d3.tries = t.tries /\ d3.mode = t.mode /\ d3.time = t.time
    BY DEF Token
  <2> HIDE DEF d2, d3
  <2>8. CASE g = [ok |-> TRUE, code |-> now, tok |-> d2]
    BY <1>2, <2>2, <2>3, <2>4, <2>5, <2>6, <2>8 DEF CodeMade
  <2>9. CASE g = [ok |-> FALSE, code |-> 0, tok |-> d3]
    BY <1>2, <2>7, <2>9 DEF CodeMade
  <2> QED
    BY <2>1, <2>8, <2>9
<1> QED
  BY <1>1, <1>2

\* What pages hold: forms without codes of tokens, which parsing may add.
PageForm(f) == AForm(f) /\ f.code # "TOKEN"

\* A form has a field for a code only if the token could make one when asked.
AskedFor(f, t) == f.code = "TOKEN" => can_gen_tokencode(tok) /\ t = Asked(tok)

\* parse_input_node() asks the token.
LEMMA Parsed ==
  ASSUME NEW f, PageForm(f), NEW allowed \in BOOLEAN
  PROVE  /\ AForm(parse_input_node(f, allowed, tok).form)
         /\ parse_input_node(f, allowed, tok).form.groups = f.groups
         /\ parse_input_node(f, allowed, tok).tok \in {tok, Asked(tok)}
         /\ AskedFor(parse_input_node(f, allowed, tok).form, parse_input_node(f, allowed, tok).tok)
<1> DEFINE d == [f EXCEPT !.code = "TOKEN"]
<1>1. d \in Form /\ d.sso = f.sso /\ d.groups = f.groups /\ d.code = "TOKEN"
  BY DEF PageForm, AForm, Form, FieldType
<1> HIDE DEF d
<1>2. CASE f.code = "PASSWORD" /\ allowed
  <2>1. parse_input_node(f, allowed, tok) =
          [form |-> IF can_gen_tokencode(tok) THEN d ELSE f, tok |-> Asked(tok)]
    BY <1>2 DEF parse_input_node, d
  <2> QED
    BY <1>1, <2>1 DEF AForm, PageForm, AskedFor
<1>3. CASE ~ (f.code = "PASSWORD" /\ allowed)
  <2>1. parse_input_node(f, allowed, tok) = [form |-> f, tok |-> tok]
    BY <1>3 DEF parse_input_node
  <2> QED
    BY <2>1 DEF AForm, PageForm, AskedFor
<1> QED
  BY <1>2, <1>3

\* The forms that are named, and those with groups.
LEMMA NamedForms ==
  /\ PageForm(EmptyForm) /\ PageForm(NoForm) /\ PageForm(LoginForm) /\ PageForm(ChallengeForm)
  /\ EmptyForm.groups = {} /\ NoForm.groups = {}
<1> USE DEF PageForm, AForm
<1>1. EmptyForm \in Form /\ ~ EmptyForm.sso /\ EmptyForm.code = None /\ EmptyForm.groups = {}
  BY DEF EmptyForm, Form, FieldType
<1>2. NoForm \in Form /\ ~ NoForm.sso /\ NoForm.code = None /\ NoForm.groups = {}
  BY <1>1 DEF NoForm, Form
<1>3. LoginForm \in Form /\ ~ LoginForm.sso /\ LoginForm.code = None
  BY <1>1 DEF LoginForm, Form
<1>4. ChallengeForm \in Form /\ ~ ChallengeForm.sso /\ ChallengeForm.code = "PASSWORD"
  BY <1>1 DEF ChallengeForm, Form, FieldType
<1> QED
  BY <1>1, <1>2, <1>3, <1>4

\* Forms with groups are for some of those that there are.
LEMMA GroupFormsAre ==
  ASSUME NEW all \in SUBSET Groups, NEW f \in GroupForms(all)
  PROVE  PageForm(f) /\ f.groups \subseteq Groups /\ f.selected \in Groups
<1>1. WithGroup \in Groups /\ WithFields \subseteq Groups
  BY DEF WithGroup, WithFields
<1>2. PICK o \in SUBSET Groups, g \in Groups : f = GroupForm(o, g)
  BY <1>1 DEF GroupForms
<1>3. LoginForm \in Form /\ ~ LoginForm.sso /\ LoginForm.code # "TOKEN"
  BY DEF LoginForm, EmptyForm, Form, FieldType
<1> DEFINE d == [LoginForm EXCEPT !.groups = o]
<1>4. d \in Form /\ ~ d.sso /\ d.code # "TOKEN" /\ d.groups = o
  BY <1>3 DEF Form
<1>5. f = [d EXCEPT !.selected = g]
  BY <1>2 DEF GroupForm
<1> HIDE DEF d
<1> QED
  BY <1>4, <1>5 DEF PageForm, AForm, Form

\* So are those of AnyConnect,
LEMMA CstpFormsAre == \A f \in CstpForms : PageForm(f)
<1>1. \A f \in GroupForms(Groups) : PageForm(f)
  BY GroupFormsAre
<1>2. PageForm([LoginForm EXCEPT !.code = "PASSWORD"])
  BY NamedForms DEF PageForm, AForm, Form, FieldType
<1>3. PageForm([EmptyForm EXCEPT !.sso = TRUE])
  BY NamedForms DEF PageForm, AForm, Form
<1>4. PageForm([EmptyForm EXCEPT !.id = "complete"]) /\ PageForm([EmptyForm EXCEPT !.id = "success"])
  BY NamedForms DEF PageForm, AForm, Form
<1> QED
  BY <1>1, <1>2, <1>3, <1>4, NamedForms DEF CstpForms

\* those of Network Connect,
LEMMA NcFormsAre == \A f \in NcForms : PageForm(f)
<1>0. WithFields \in SUBSET Groups
  BY DEF WithFields
<1>1. \A f \in GroupForms(WithFields) : PageForm(f)
  BY <1>0, GroupFormsAre
<1>2. PageForm([LoginForm EXCEPT !.code = "PASSWORD"])
  BY NamedForms DEF PageForm, AForm, Form, FieldType
<1>3. PageForm([EmptyForm EXCEPT !.id = "confirm"])
  BY NamedForms DEF PageForm, AForm, Form
<1>4. PageForm([EmptyForm EXCEPT !.id = "roles", !.groups = WithFields])
  <2> DEFINE d == [EmptyForm EXCEPT !.id = "roles"]
  <2>1. d \in Form /\ ~ d.sso /\ d.code = None
    BY DEF EmptyForm, Form, FieldType
  <2>2. PageForm([d EXCEPT !.groups = WithFields])
    <3> HIDE DEF d
    <3> QED
      BY <1>0, <2>1 DEF PageForm, AForm, Form
  <2> QED
    BY <2>2
<1> QED
  BY <1>1, <1>2, <1>3, <1>4, NamedForms DEF NcForms

\* and those of F5.
LEMMA F5FormsAre == \A f \in F5Forms : PageForm(f)
<1>1. \A f \in GroupForms(WithFields) : PageForm(f)
  BY GroupFormsAre DEF WithFields
<1>2. PageForm([LoginForm EXCEPT !.code = "PASSWORD"])
  BY NamedForms DEF PageForm, AForm, Form, FieldType
<1> QED
  BY <1>1, <1>2, NamedForms DEF F5Forms

\* Pulse asks for a code in one form, which is for the token if it can make one.
LEMMA PulseFormsAre ==
  ASSUME NEW flags \in SUBSET {"USERNAME", "PASSWORD"}
  PROVE  /\ PageForm(pulse_request_realm_entry)
         /\ \A f \in pulse_request_realm_choice : PageForm(f)
         /\ PageForm(pulse_request_region_choice) /\ PageForm(pulse_request_session_kill)
         /\ PageForm(pulse_request_user_auth(flags)) /\ PageForm(pulse_request_pass_change)
         /\ AForm(pulse_request_gtc(flags))
         /\ pulse_request_gtc(flags).code = "TOKEN" => can_gen_tokencode(tok)
<1> USE DEF PageForm, AForm
<1>0. EmptyForm \in Form /\ ~ EmptyForm.sso /\ EmptyForm.code = None
  BY DEF EmptyForm, Form, FieldType
<1>1. PageForm([EmptyForm EXCEPT !.text = TRUE])
  BY <1>0 DEF Form
<1>2. ASSUME NEW f \in pulse_request_realm_choice
      PROVE  PageForm(f)
  <2>1. PICK h \in GroupForms(WithFields) : f = [h EXCEPT !.text = FALSE, !.pass = FALSE]
    BY DEF pulse_request_realm_choice
  <2>2. h \in Form /\ (h.sso => h.groups = {}) /\ h.code # "TOKEN"
    BY GroupFormsAre DEF WithFields
  <2> DEFINE d == [h EXCEPT !.text = FALSE]
  <2>3. d \in Form /\ (d.sso => d.groups = {}) /\ d.code # "TOKEN"
    BY <2>2 DEF Form
  <2>4. f = [d EXCEPT !.pass = FALSE]
    BY <2>1
  <2> HIDE DEF d
  <2> QED
    BY <2>3, <2>4 DEF Form
<1>3. \A p \in BOOLEAN, q \in BOOLEAN : PageForm([EmptyForm EXCEPT !.text = p, !.pass = q])
  <2> SUFFICES ASSUME NEW p \in BOOLEAN, NEW q \in BOOLEAN
               PROVE  PageForm([EmptyForm EXCEPT !.text = p, !.pass = q])
    OBVIOUS
  <2> DEFINE d == [EmptyForm EXCEPT !.text = p]
  <2>1. d \in Form /\ ~ d.sso /\ d.code = None
    BY <1>0 DEF Form
  <2>2. [EmptyForm EXCEPT !.text = p, !.pass = q] = [d EXCEPT !.pass = q]
    OBVIOUS
  <2> HIDE DEF d
  <2> QED
    BY <2>1, <2>2 DEF Form
<1>4. PageForm(pulse_request_user_auth(flags))
  <2>1. ("USERNAME" \in flags) \in BOOLEAN /\ ("PASSWORD" \in flags) \in BOOLEAN
    OBVIOUS
  <2> QED
    BY <1>3, <2>1, Zenon DEF pulse_request_user_auth
<1>5. PageForm(pulse_request_pass_change)
  <2> DEFINE d1 == [EmptyForm EXCEPT !.id = "change"]
             d2 == [d1 EXCEPT !.pass = TRUE]
  <2>1. d1 \in Form /\ ~ d1.sso
    BY <1>0 DEF Form
  <2>2. d2 \in Form /\ ~ d2.sso
    BY <2>1 DEF Form
  <2>3. pulse_request_pass_change = [d2 EXCEPT !.code = "PASSWORD"]
    BY DEF pulse_request_pass_change
  <2> HIDE DEF d1, d2
  <2> QED
    BY <2>2, <2>3 DEF Form, FieldType
<1>6. AForm(pulse_request_gtc(flags)) /\ (pulse_request_gtc(flags).code = "TOKEN" => can_gen_tokencode(tok))
  <2> DEFINE p == "USERNAME" \in flags
             c == IF can_gen_tokencode(tok) THEN "TOKEN" ELSE "PASSWORD"
             d == [EmptyForm EXCEPT !.text = p]
  <2>1. c \in FieldType /\ (c = "TOKEN" => can_gen_tokencode(tok))
    BY DEF FieldType
  <2>2. p \in BOOLEAN
    OBVIOUS
  <2>3. pulse_request_gtc(flags) = [d EXCEPT !.code = c]
    BY DEF pulse_request_gtc
  <2> HIDE DEF p, c
  <2>4. d \in Form /\ ~ d.sso
    BY <1>0, <2>2 DEF Form
  <2> HIDE DEF d
  <2>5. [d EXCEPT !.code = c] \in Form /\ ~ [d EXCEPT !.code = c].sso /\ [d EXCEPT !.code = c].code = c
    BY <2>1, <2>4 DEF Form
  <2> QED
    BY <2>1, <2>3, <2>5
<1> QED
  BY <1>1, <1>2, <1>4, <1>5, <1>6
     DEF pulse_request_realm_entry, pulse_request_region_choice, pulse_request_session_kill

-----------------------------------------------------------------------------
\* A form that is filled in: what is posted, unless nothing is.
FilledIn ==
  /\ client' \in Client /\ tok' \in Token /\ body' \in Body /\ pc' \in {"post", "done"}
  /\ client.typed <= client'.typed
  /\ Agreed(client) => Agreed(client')
  /\ form.code # "TOKEN" => tok' = tok
  /\ pc' = "done" => body' = body /\ tok'.mode = tok.mode /\ tok'.tries = tok.tries /\ tok'.time = tok.time
  /\ pc' = "post" =>
       /\ body'.pass = 0 \/ (body'.pass > client.typed /\ body'.pass <= client'.typed)
       /\ form.groups = {} => body'.group = None
       /\ Agreed(client) /\ body'.group # None /\ ~ client'.asked_again => body'.group = body'.shown
       /\ IF form.code = "TOKEN" THEN \E g : g.ok /\ CodeMade(g, tok) /\ tok' = g.tok /\ body'.code = g.code
          ELSE body'.code = 0

\* Fill() does that, whatever the answers.
LEMMA FillFillsIn ==
  ASSUME Filled, NEW x \in BOOLEAN, NEW answers \in SUBSET process_auth_form(form, client, x), Fill(answers)
  PROVE  FilledIn
<1>1. PICK a \in answers :
        /\ client' = a.client
        /\ IF a.ret = "OK"
           THEN \E g \in do_gen_tokencode(form, tok) :
                  /\ tok' = g.tok
                  /\ IF g.ok THEN Goto("post") /\ body' = append_form_opts(a, g.code)
                     ELSE Finish("ERR") /\ UNCHANGED body
           ELSE Finish(a.ret) /\ UNCHANGED <<tok, body>>
  BY DEF Fill
<1>2. form \in Form /\ client \in Client /\ (form.sso => form.groups = {}) /\ a \in process_auth_form(form, client, x)
  BY DEF Filled, AForm
<1>3. Fits(a, form, client)
  BY <1>2, AnswersFit
<1>4. client' \in Client /\ client.typed <= client'.typed /\ (Agreed(client) => Agreed(client'))
  BY <1>1, <1>3 DEF Fits, Answers
<1>5. CASE a.ret # "OK"
  BY <1>1, <1>4, <1>5 DEF FilledIn, Finish, Filled
<1>6. CASE a.ret = "OK"
  <2>1. PICK g \in do_gen_tokencode(form, tok) :
          /\ tok' = g.tok
          /\ IF g.ok THEN Goto("post") /\ body' = append_form_opts(a, g.code)
             ELSE Finish("ERR") /\ UNCHANGED body
    BY <1>1, <1>6
  <2>2. tok \in Token
    BY DEF Filled
  <2>3. /\ form.code # "TOKEN" => g.ok /\ g.tok = tok /\ g.code = 0
        /\ form.code = "TOKEN" => CodeMade(g, tok)
    BY <2>2, CodesMade
  <2>4. g.tok \in Token /\ g.code \in Nat
    BY <2>2, <2>3 DEF CodeMade
  <2>5. CASE ~ g.ok
    BY <1>4, <2>1, <2>3, <2>4, <2>5 DEF FilledIn, Finish, Filled, CodeMade
  <2>6. CASE g.ok
    <3>1. /\ body' \in Body /\ body'.pass = a.pass /\ body'.group = a.group /\ body'.shown = a.shown
          /\ body'.code = g.code /\ pc' = "post"
      BY <1>3, <2>1, <2>4, <2>6 DEF append_form_opts, Body, Fits, Answers, Goto, Choosable
    <3>2. IF form.code = "TOKEN" THEN \E h : h.ok /\ CodeMade(h, tok) /\ tok' = h.tok /\ body'.code = h.code
          ELSE body'.code = 0
      BY <2>1, <2>3, <2>6, <3>1
    <3>3. /\ body'.pass = 0 \/ (body'.pass > client.typed /\ body'.pass <= client'.typed)
          /\ form.groups = {} => body'.group = None
          /\ Agreed(client) /\ body'.group # None /\ ~ client'.asked_again => body'.group = body'.shown
      BY <1>1, <1>3, <1>6, <3>1 DEF Fits
    <3> QED
      BY <1>4, <2>1, <2>3, <2>4, <3>1, <3>2, <3>3 DEF FilledIn
  <2> QED
    BY <2>5, <2>6
<1> QED
  BY <1>5, <1>6

-----------------------------------------------------------------------------
\* The moves of every protocol but GlobalProtect.

\* A page, or none: what was to be posted has been.  (Where codes are not limited a
\* form may ask for one that the token has not been asked for.)
Paged ==
  /\ client' = client /\ tok' \in {tok, Asked(tok)} /\ AForm(form') /\ pc' \in Places
  /\ sent' = IF pc = "post" THEN Posted ELSE sent
  /\ body' = EmptyBody \/ (pc # "post" /\ body' = body)
  /\ pc' = "ask" /\ Limited => AskedFor(form', tok')

\* The form in an action that has it filled in.
Filling == pc = "ask" /\ sent' = sent /\ form' \in {form, NoForm} /\ FilledIn

\* An answer that is not posted.
Answered ==
  /\ pc = "ask" /\ pc' \in Places \ {"post"}
  /\ form' \in {form, NoForm} /\ (pc' = "ask" => form' = form)
  /\ \E a : Fits(a, form, client) /\ client' = a.client
  /\ UNCHANGED <<tok, body, sent>>

\* The three moves.
Moves == Paged \/ Filling \/ Answered

\* Posting adds to the history.
LEMMA PostedIs ==
  ASSUME Filled
  PROVE  /\ Posted \in Histories
         /\ Posted.pass >= sent.pass /\ Posted.pass >= body.pass
         /\ Posted.pass = sent.pass \/ Posted.pass = body.pass
         /\ Posted.code = sent.code \/ Posted.code = body.code
         /\ Posted.codes = sent.codes + (IF body.code = 0 THEN 0 ELSE 1)
<1>1. sent.pass \in Nat /\ sent.code \in Nat /\ sent.codes \in Nat /\ body.pass \in Nat /\ body.code \in Nat
  BY DEF Filled, Histories, Body
<1> DEFINE p == Later(sent.pass, body.pass)
           c == Later(sent.code, body.code)
<1>2. p \in Nat /\ p >= sent.pass /\ p >= body.pass /\ (p = sent.pass \/ p = body.pass)
  BY <1>1 DEF Later
<1>3. c \in Nat /\ (c = sent.code \/ c = body.code)
  BY <1>1 DEF Later
<1>4. Posted = [pass |-> p, code |-> c, codes |-> sent.codes + (IF body.code = 0 THEN 0 ELSE 1)]
  BY DEF Posted
<1> HIDE DEF p, c
<1> QED
  BY <1>1, <1>2, <1>3, <1>4 DEF Histories

\* Nothing is to be posted.
LEMMA EmptyIs ==
  /\ EmptyBody \in Body /\ EmptyBody.pass = 0 /\ EmptyBody.code = 0 /\ EmptyBody.group = None
BY DEF EmptyBody, Body

\* What a move keeps true.
MovesKeep == Filled' /\ BodyGone' /\ Passwords' /\ Codes' /\ Groupings'

\* Pages bring forms, and for those that ask for a code the token has been asked.
LEMMA PagedKeeps ==
  ASSUME LoginInv, proto # "gp", proto' = proto, gp' = gp, Paged
  PROVE  MovesKeep
<1> USE DEF LoginInv
<1>1. /\ client' = client /\ sent' = (IF pc = "post" THEN Posted ELSE sent) /\ pc' \in Places
      /\ body' = EmptyBody \/ (pc # "post" /\ body' = body)
  BY DEF Paged, Places
<1>2. body' = EmptyBody
  BY <1>1 DEF BodyGone
<1>3. tok \in Token /\ Asked(tok) \in Token /\ client \in Client /\ client.typed \in Nat
  BY AskedIs DEF Filled, Client
<1>4. Filled'
  BY <1>1, <1>2, <1>3, PostedIs, EmptyIs DEF Paged, Filled
<1>5. BodyGone'
  BY <1>2 DEF BodyGone
<1>6. Passwords'
  BY <1>1, <1>2, <1>3, PostedIs, EmptyIs DEF Passwords, NotPostedTwice
<1>7. ASSUME Paged, Limited
      PROVE  Codes'
  <2>1. tok.tries \in Nat /\ tok.time \in Nat /\ sent.code \in Nat /\ sent.codes \in Nat /\ body.code \in Nat
        /\ sent'.code \in Nat /\ tok'.time \in Nat
    BY <1>3, <1>4 DEF Filled, Token, Histories, Body
  <2>2. Limited'
    BY <1>7 DEF Limited
  <2>3. tok'.tries = tok.tries /\ tok'.mode = tok.mode
        /\ (tok.time = 0 /\ tok.tries = 0 => tok'.time = 0) /\ (tok.tries # 0 => tok'.time >= tok.time)
    BY <1>3, <1>7, <2>1, AskedIs DEF Paged
  <2>4. sent'.codes <= tok'.tries /\ (tok'.tries <= 1 => sent'.code <= tok'.tries)
    BY <1>1, <1>7, <2>1, <2>3, PostedIs DEF Codes
  <2>5. pc' = "ask" /\ form'.code = "TOKEN" =>
          tok'.mode # None /\ tok'.tries <= 1 /\ (tok'.tries = 1 => tok'.time >= 2)
    BY <1>3, <1>7, <2>1, <2>3, AskedIs DEF Paged, AskedFor, can_gen_tokencode, Codes
  <2>6. sent'.codes \in Nat
    BY <1>4 DEF Filled, Histories
  <2> QED
    BY <1>2, <1>7, <2>1, <2>2, <2>3, <2>4, <2>5, <2>6, EmptyIs DEF Codes
<1>8. Codes'
  BY <1>7 DEF Codes, Limited
<1>9. Groupings'
  BY <1>1, <1>2, EmptyIs DEF Groupings
<1> QED
  BY <1>4, <1>5, <1>6, <1>8, <1>9 DEF MovesKeep

\* Nothing is posted, but the client may have another group.
LEMMA AnsweredKeeps ==
  ASSUME LoginInv, proto # "gp", proto' = proto, gp' = gp, Answered
  PROVE  MovesKeep
<1> USE DEF LoginInv
<1>1. PICK a : Fits(a, form, client) /\ client' = a.client
  BY DEF Answered
<1>2. client' \in Client /\ client.typed <= client'.typed /\ Agreed(client')
  BY <1>1 DEF Fits, Answers, Groupings
<1>3. client.typed \in Nat /\ client'.typed \in Nat /\ gp.value \in Nat /\ body.pass \in Nat /\ sent.pass \in Nat
  BY <1>2 DEF Filled, Kept, Client, GpState, Body, Histories
<1>4. Filled'
  BY <1>2, NamedForms DEF Answered, Filled, PageForm
<1>5. BodyGone'
  BY DEF BodyGone, Answered
<1>6. Passwords'
  BY <1>2, <1>3 DEF Passwords, NotPostedTwice, Answered
<1>7. Codes'
  BY DEF Codes, Answered, Limited
<1>8. Groupings'
  BY <1>2 DEF Groupings, Answered
<1> QED
  BY <1>4, <1>5, <1>6, <1>7, <1>8 DEF MovesKeep

\* What is posted is new: the password has just been handed over, the code just been made.
LEMMA FillingKeeps ==
  ASSUME LoginInv, proto # "gp", proto' = proto, gp' = gp, Filling
  PROVE  MovesKeep
<1> USE DEF LoginInv
<1>0. /\ body = EmptyBody /\ pc = "ask" /\ sent' = sent /\ Agreed(client)
      /\ client' \in Client /\ tok' \in Token /\ body' \in Body /\ pc' \in {"post", "done"}
      /\ client.typed <= client'.typed /\ Agreed(client')
  BY DEF Filling, BodyGone, Groupings, FilledIn
<1>1. client.typed \in Nat /\ client'.typed \in Nat /\ gp.value \in Nat /\ body'.pass \in Nat /\ sent.pass \in Nat
  BY <1>0 DEF Filled, Kept, Client, GpState, Body, Histories
<1>2. Filled'
  BY <1>0, NamedForms DEF Filling, Filled, PageForm
<1>3. BodyGone'
  BY <1>0 DEF BodyGone, Filling, FilledIn
<1>4. body'.pass = 0 \/ (body'.pass > client.typed /\ body'.pass <= client'.typed)
  BY <1>0, EmptyIs DEF Filling, FilledIn
<1>5. Passwords'
  BY <1>0, <1>1, <1>4 DEF Passwords, NotPostedTwice
<1>6. Codes'
  <2>1. tok.tries \in Nat /\ tok.time \in Nat /\ sent.code \in Nat /\ sent.codes \in Nat
    BY DEF Filled, Token, Histories
  <2>2. CASE ~ Limited
    BY <2>2 DEF Codes, Limited
  <2>3. CASE pc' = "done" /\ Limited
    BY <1>0, <2>3 DEF Codes, Filling, FilledIn, Limited
  <2>4. CASE pc' = "post" /\ form.code # "TOKEN" /\ Limited
    <3>1. body'.code = 0 /\ tok' = tok
      BY <2>4 DEF Filling, FilledIn
    <3> QED
      BY <1>0, <2>1, <2>4, <3>1, EmptyIs DEF Codes, Limited
  <2>5. CASE pc' = "post" /\ form.code = "TOKEN" /\ Limited
    <3>1. PICK g : g.ok /\ CodeMade(g, tok) /\ tok' = g.tok /\ body'.code = g.code
      BY <2>5 DEF Filling, FilledIn
    <3>2. tok'.tries = tok.tries + 1 /\ body'.code = (IF tok.time = 0 THEN 1 ELSE tok.time)
          /\ tok'.mode = tok.mode /\ tok'.time = (IF tok.mode = "TOTP" THEN body'.code ELSE body'.code + 1)
      BY <3>1 DEF CodeMade
    <3>3. tok.tries <= 1 /\ tok.mode # None /\ tok.mode \in {None, "TOTP", "HOTP"}
          /\ (tok.tries = 1 => tok.time >= 2) /\ (tok.tries = 0 => tok.time = 0)
          /\ sent.code <= tok.tries /\ sent.codes <= tok.tries
      BY <1>0, <2>1, <2>5, EmptyIs DEF Codes, Filled, Token
    <3>4. body'.code > sent.code
      BY <2>1, <3>2, <3>3
    <3>5. tok'.tries = 1 => tok'.time >= (IF tok'.mode = "HOTP" THEN 2 ELSE 1) /\ sent.code <= 1 /\ body'.code <= 1
      BY <2>1, <3>2, <3>3
    <3>6. tok'.tries <= 2 /\ tok'.tries # 0 /\ tok'.tries \in Nat /\ sent.codes + 1 <= tok'.tries
      BY <2>1, <3>2, <3>3
    <3> QED
      BY <1>0, <2>1, <2>5, <3>4, <3>5, <3>6 DEF Codes, Limited
  <2> QED
    BY <1>0, <2>2, <2>3, <2>4, <2>5
<1>7. Groupings'
  BY <1>0, EmptyIs DEF Groupings, Filling, FilledIn
<1> QED
  BY <1>2, <1>3, <1>5, <1>6, <1>7 DEF MovesKeep

-----------------------------------------------------------------------------
\* The protocols' steps are moves.

\* What leaves the form and the token alone, and does not ask for anything.
LEMMA StillPaged ==
  ASSUME LoginInv, client' = client, tok' = tok, form' = form, pc' \in Places \ {"ask"},
         sent' = (IF pc = "post" THEN Posted ELSE sent),
         body' = EmptyBody \/ (pc # "post" /\ body' = body)
  PROVE  Paged
BY DEF Paged, LoginInv, Filled

\* A page with a form that has been parsed.
LEMMA ShownPaged ==
  ASSUME LoginInv, NEW f, PageForm(f), NEW allowed \in BOOLEAN, ShowForm(f, allowed), client' = client,
         sent' = (IF pc = "post" THEN Posted ELSE sent),
         body' = EmptyBody \/ (pc # "post" /\ body' = body)
  PROVE  Paged
<1> DEFINE parsed == parse_input_node(f, allowed, tok)
<1>1. form' = parsed.form /\ tok' = parsed.tok /\ pc' = "ask"
  BY DEF ShowForm, Goto
<1>2. AForm(parsed.form) /\ parsed.tok \in {tok, Asked(tok)} /\ AskedFor(parsed.form, parsed.tok)
  BY Parsed
<1> HIDE DEF parsed
<1> QED
  BY <1>1, <1>2 DEF Paged, Places, AskedFor

\* AnyConnect.
LEMMA CstpMoves ==
  ASSUME LoginInv, CstpNext
  PROVE  Moves /\ proto = "anyconnect" /\ proto' = proto /\ given' = given /\ gp' = gp /\ html' = html
<1> USE DEF LoginInv
<1>0. tok.bypassed \in BOOLEAN /\ (~ tok.bypassed) \in BOOLEAN /\ cstp.xmlpost \in BOOLEAN
  BY DEF Filled, Token, Kept, CstpState
<1>1. CASE Probe
  <2>1. /\ pc = "probe" /\ client' = client /\ body' = body /\ sent' = sent
        /\ proto = "anyconnect" /\ proto' = proto /\ given' = given /\ gp' = gp /\ html' = html
    BY <1>1 DEF Probe, AtCstp, CstpSame
  <2>2. ASSUME NotParsed, pc' \in {"probe", "done"}
        PROVE  Paged
    BY <2>1, <2>2, StillPaged DEF NotParsed, Places
  <2>3. CASE ProbeFails
    BY <2>1, <2>2, <2>3 DEF ProbeFails, Fail, Again, Goto, Finish, Moves
  <2>4. CASE ProbeRedirected
    BY <2>1, <2>2, <2>4 DEF ProbeRedirected, Fail, Again, Goto, Finish, Moves
  <2>5. CASE ProbeUnusable
    BY <2>1, <2>2, <2>5 DEF ProbeUnusable, Fail, Again, Goto, Finish, Moves
  <2>6. CASE CertRequested
    BY <2>1, <2>2, <2>6 DEF CertRequested, Fail, Again, Goto, Finish, Moves
  <2>7. CASE MultipleCertRequested
    BY <2>1, <2>2, <2>7 DEF MultipleCertRequested, Fail, Again, Goto, Finish, Moves
  <2>8. CASE ProbeAnswered
    <3>1. PICK f \in CstpForms, asked \in {FALSE, given.csd} :
            LET parsed == parse_input_node(f, ~ tok.bypassed, tok)
                csd == parse_csd(asked)
            IN /\ form' = (IF csd = "given" THEN NoForm ELSE parsed.form) /\ tok' = parsed.tok
               /\ Goto(IF csd = "given" THEN "scan" ELSE "ask")
      BY <2>8 DEF ProbeAnswered
    <3> DEFINE parsed == parse_input_node(f, ~ tok.bypassed, tok)
    <3>2. PageForm(f)
      BY CstpFormsAre
    <3>3. AForm(parsed.form) /\ parsed.tok \in {tok, Asked(tok)} /\ AskedFor(parsed.form, parsed.tok)
      BY <1>0, <3>2, Parsed
    <3>4. tok' = parsed.tok /\ \/ form' = NoForm /\ pc' = "scan"
                               \/ form' = parsed.form /\ pc' = "ask"
      BY <3>1 DEF Goto
    <3> HIDE DEF parsed
    <3> QED
      BY <2>1, <3>3, <3>4, NamedForms DEF Moves, Paged, Places, PageForm
  <2> QED
    BY <1>1, <2>1, <2>3, <2>4, <2>5, <2>6, <2>7, <2>8 DEF Probe, Moves
<1>2. CASE run_csd_script \/ WaitPage
  BY <1>2, StillPaged
     DEF run_csd_script, WaitPage, AtCstp, CstpSame, NotParsed, Goto, Finish, Moves, Places
<1>3. CASE Refetch \/ PostForm
  <2>1. /\ client' = client /\ sent' = (IF pc = "post" THEN Posted ELSE sent)
        /\ body' = EmptyBody \/ (pc # "post" /\ body' = body)
        /\ proto = "anyconnect" /\ proto' = proto /\ given' = given /\ gp' = gp /\ html' = html
    BY <1>3 DEF Refetch, PostForm, AtCstp, CstpSame
  <2>2. CASE FormPage
    BY <1>0, <2>1, <2>2, ShownPaged, CstpFormsAre DEF FormPage, Moves
  <2>3. CASE FormFails
    BY <2>1, <2>3, StillPaged DEF FormFails, Finish, NotParsed, Moves, Places
  <2> QED
    BY <1>3, <2>2, <2>3, <2>1 DEF Refetch, PostForm
<1>4. CASE handle_auth_form
  <2>1. /\ pc = "ask" /\ form' = NoForm /\ sent' = sent
        /\ proto = "anyconnect" /\ proto' = proto /\ given' = given /\ gp' = gp /\ html' = html
    BY <1>4 DEF handle_auth_form, AtCstp
  <2>2. CASE LoggedIn
    BY <2>1, <2>2, NamedForms DEF LoggedIn, Finish, Moves, Paged, Places, PageForm
  <2>3. CASE NotAsked
    BY <2>1, <2>3, NamedForms DEF NotAsked, Finish, Goto, Moves, Paged, Places, PageForm
  <2>4. CASE FormAsked
    <3> DEFINE answers == process_auth_form(form, client, cstp.xmlpost)
    <3>1. form \in Form /\ client \in Client /\ (form.sso => form.groups = {})
      BY DEF Filled, AForm
    <3>2. \A a \in answers : Fits(a, form, client)
      BY <1>0, <3>1, AnswersFit
    <3>3. CASE (\E a \in answers : a.ret = "NEWGROUP" /\ client' = a.client) /\ newgroup /\ UNCHANGED <<tok, body>>
      BY <2>1, <3>2, <3>3 DEF newgroup, Finish, Goto, Answered, Moves, Places
    <3>4. CASE Fill({a \in answers : a.ret # "NEWGROUP"})
      BY <1>0, <2>1, <3>4, FillFillsIn DEF Filling, Moves
    <3> QED
      BY <2>1, <2>4, <3>3, <3>4 DEF FormAsked
  <2> QED
    BY <1>4, <2>1, <2>2, <2>3, <2>4 DEF handle_auth_form
<1> QED
  BY <1>1, <1>2, <1>3, <1>4 DEF CstpNext

\* A request of a web page or of Pulse: what has been posted is gone.
LEMMA RequestedIs ==
  ASSUME NEW label \in {"fetch", "post"}, pc = label, Requested(label)
  PROVE  /\ client' = client /\ sent' = (IF pc = "post" THEN Posted ELSE sent) /\ body' = EmptyBody
         /\ proto' = proto /\ given' = given /\ cstp' = cstp /\ gp' = gp
BY DEF Requested

\* Whatever is asked, answers fit.
LEMMA HtmlFillMoves ==
  ASSUME LoginInv, pc = "ask", Fill(ask_until_group(form, client)) \/ Fill(process_auth_form(form, client, TRUE)),
         sent' = sent, form' \in {form, NoForm}
  PROVE  Moves
<1>1. Filled
  BY DEF LoginInv
<1>2. CASE Fill(ask_until_group(form, client))
  <2>1. Fill(process_auth_form(form, client, FALSE))
    BY <1>2 DEF ask_until_group
  <2>2. FilledIn
    BY <1>1, <2>1, FillFillsIn
  <2> QED
    BY <2>2 DEF Filling, Moves
<1>3. CASE Fill(process_auth_form(form, client, TRUE))
  <2>1. FilledIn
    BY <1>1, <1>3, FillFillsIn
  <2> QED
    BY <2>1 DEF Filling, Moves
<1> QED
  BY <1>2, <1>3

\* Network Connect, F5, Fortinet and Array.
LEMMA HtmlMoves ==
  ASSUME LoginInv, HtmlNext
  PROVE  Moves /\ proto \in {"nc", "f5", "fortinet", "array"} /\ proto' = proto /\ given' = given
         /\ gp' = gp /\ cstp' = cstp
<1> USE DEF LoginInv
<1> DEFINE Same == proto \in {"nc", "f5", "fortinet", "array"} /\ proto' = proto /\ given' = given
                   /\ gp' = gp /\ cstp' = cstp
           Sent == /\ client' = client /\ sent' = (IF pc = "post" THEN Posted ELSE sent) /\ body' = EmptyBody
<1>0. tok.bypassed \in BOOLEAN /\ (~ tok.bypassed) \in BOOLEAN /\ html.first \in BOOLEAN /\ (~ html.first) \in BOOLEAN
      /\ form \in Form /\ client \in Client /\ (form.sso => form.groups = {})
  BY DEF Filled, Token, Kept, Pages, AForm
<1>1. ASSUME Sent, GotCookie \/ RequestFails \/ Unusable
      PROVE  Paged
  BY <1>1, StillPaged DEF GotCookie, RequestFails, Unusable, Finish, Places
<1>2. CASE NcRequest
  <2>1. Sent /\ Same
    BY <1>2 DEF NcRequest, At, Requested
  <2>2. CASE NcPage
    <3>1. PICK f \in NcForms : IF f.id = "confirm" THEN form' = f /\ Goto("post") /\ UNCHANGED tok
                               ELSE ShowForm(f, ~ tok.bypassed)
      BY <2>2 DEF NcPage
    <3>2. PageForm(f)
      BY NcFormsAre
    <3>3. CASE f.id = "confirm"
      BY <2>1, <3>1, <3>2, <3>3 DEF Goto, Paged, Moves, PageForm, Places
    <3>4. CASE f.id # "confirm"
      BY <1>0, <2>1, <3>1, <3>2, <3>4, ShownPaged DEF Moves
    <3> QED
      BY <3>3, <3>4, <2>1
  <2>3. CASE NcTncc
    BY <2>1, <2>3, StillPaged DEF NcTncc, Goto, Moves, Places
  <2> QED
    BY <1>1, <1>2, <2>1, <2>2, <2>3 DEF NcRequest, Moves
<1>3. CASE tncc_preauth
  BY <1>3, StillPaged DEF tncc_preauth, At, own, Goto, Finish, Moves, Places
<1>4. CASE NcFill
  <2>1. pc = "ask" /\ form' = NoForm /\ sent' = sent /\ Same
    BY <1>4 DEF NcFill, At, own
  <2>2. CASE form.id = "roles"
    <3>1. PICK a \in ask_until_group(form, client) :
            client' = a.client /\ (IF a.ret = "OK" THEN Goto("fetch") ELSE Finish(a.ret))
      BY <1>4, <2>2 DEF NcFill
    <3>2. Fits(a, form, client)
      BY <1>0, <3>1, AnswersFit DEF ask_until_group
    <3>3. UNCHANGED <<tok, body>>
      BY <1>4, <2>2 DEF NcFill
    <3>4. pc' \in {"fetch", "done"}
      BY <3>1 DEF Goto, Finish
    <3> QED
      BY <2>1, <3>1, <3>2, <3>3, <3>4 DEF Answered, Moves, Places
  <2>3. CASE form.id # "roles"
    BY <1>4, <2>1, <2>3, HtmlFillMoves DEF NcFill
  <2> QED
    BY <2>2, <2>3
<1>5. CASE F5Request
  <2>1. Sent /\ Same
    BY <1>5 DEF F5Request, At, Requested
  <2>2. CASE F5Page
    BY <1>0, <2>1, <2>2, ShownPaged, F5FormsAre DEF F5Page, Moves
  <2> QED
    BY <1>1, <1>5, <2>1, <2>2 DEF F5Request, Moves
<1>6. CASE F5Fill \/ FortinetFill \/ ArrayFill
  BY <1>6, HtmlFillMoves DEF F5Fill, FortinetFill, ArrayFill, At, own
<1>7. CASE FortinetStart
  <2>1. Sent /\ Same /\ pc = "fetch"
    BY <1>7 DEF FortinetStart, At, Requested
  <2>2. ASSUME form' = LoginForm, Goto("ask"), UNCHANGED tok
        PROVE  Paged
    BY <2>1, <2>2, NamedForms DEF Paged, Goto, PageForm, Places, AskedFor
  <2> QED
    BY <1>1, <1>7, <2>1, <2>2 DEF FortinetStart, Moves
<1>8. CASE FortinetLogin
  <2>1. Sent /\ Same /\ proto = "fortinet"
    BY <1>8 DEF FortinetLogin, At, Requested
  <2>2. CASE Tokeninfo
    <3> DEFINE c == IF can_gen_tokencode(tok) THEN "TOKEN" ELSE "PASSWORD"
               d == [ChallengeForm EXCEPT !.id = "challenge"]
    <3>1. c \in FieldType /\ (c = "TOKEN" => can_gen_tokencode(tok))
      BY DEF FieldType
    <3>2. d \in Form /\ ~ d.sso
      BY NamedForms DEF PageForm, AForm, Form, ChallengeForm, EmptyForm
    <3>3. form' = [d EXCEPT !.code = c]
      BY <2>2 DEF Tokeninfo
    <3> HIDE DEF c, d
    <3>4. AForm(form') /\ form'.code = c
      BY <3>1, <3>2, <3>3 DEF Form, AForm
    <3> QED
      BY <2>1, <2>2, <3>1, <3>4 DEF Tokeninfo, Goto, Paged, Moves, Places, AskedFor
  <2>3. CASE ChallengePage
    BY <2>1, <2>3, ShownPaged, NamedForms DEF ChallengePage, Moves
  <2>4. CASE FortinetAgain
    BY <2>1, <2>4 DEF FortinetAgain, Goto, Paged, Moves, Places, Limited, Filled
  <2> QED
    BY <1>1, <1>8, <2>1, <2>2, <2>3, <2>4 DEF FortinetLogin, Moves
<1>9. CASE ArrayLogin
  <2>1. Sent /\ Same
    BY <1>9 DEF ArrayLogin, At, Requested
  <2>2. ASSUME Finish("ERR") /\ UNCHANGED <<form, tok, html, cookie>>
        PROVE  Paged
    BY <2>1, <2>2, StillPaged DEF Finish, Places
  <2> QED
    BY <1>1, <1>9, <2>1, <2>2 DEF ArrayLogin, Moves
<1> QED
  BY <1>2, <1>3, <1>4, <1>5, <1>6, <1>7, <1>8, <1>9 DEF HtmlNext

\* A request of Pulse's shows a form, or is answered unasked.
LEMMA PulseRequests ==
  ASSUME LoginInv, pc = "post", Request, client' = client, sent' = Posted, body' = EmptyBody
  PROVE  Paged /\ html' \in Pages
<1> USE DEF LoginInv
<1> DEFINE All == SUBSET {"USERNAME", "PASSWORD"}
<1>0. html \in Pages /\ html.flags \in All
  BY DEF Kept, Pages
<1>1. ASSUME NEW flags \in All, html' = [html EXCEPT !.flags = flags]
      PROVE  html' \in Pages
  BY <1>0, <1>1 DEF Pages
<1>2. PromptFlags \subseteq All
  BY <1>0 DEF PromptFlags
<1>3. ASSUME NEW f, PageForm(f),
             \E flags \in PromptFlags : /\ form' = Whatever(f)[flags] /\ tok' = tok
                                        /\ html' = [html EXCEPT !.flags = flags] /\ Goto("ask")
      PROVE  Paged /\ html' \in Pages
  <2>1. form' = f /\ tok' = tok /\ pc' = "ask" /\ html' \in Pages
    BY <1>1, <1>2, <1>3 DEF Whatever, Goto
  <2> QED
    BY <1>3, <2>1 DEF Paged, PageForm, Places, AskedFor
<1>4. CASE Show(Whatever(pulse_request_realm_entry), FALSE)
  BY <1>0, <1>3, <1>4, PulseFormsAre DEF Show
<1>5. CASE \E f \in pulse_request_realm_choice : Show(Whatever(f), FALSE)
  <2>1. PICK f \in pulse_request_realm_choice :
          \E flags \in PromptFlags : /\ form' = Whatever(f)[flags] /\ tok' = tok
                                     /\ html' = [html EXCEPT !.flags = flags] /\ Goto("ask")
    BY <1>5 DEF Show
  <2>2. PageForm(f)
    BY <1>0, PulseFormsAre
  <2> QED
    BY <1>3, <2>1, <2>2
<1>6. CASE Show(Whatever(pulse_request_region_choice), FALSE)
  BY <1>0, <1>3, <1>6, PulseFormsAre DEF Show
<1>7. CASE Show(Whatever(pulse_request_session_kill), FALSE)
  BY <1>0, <1>3, <1>7, PulseFormsAre DEF Show
<1>8. CASE Show([flags \in All |-> pulse_request_user_auth(flags)], FALSE)
  <2>1. PICK flags \in PromptFlags :
          /\ form' = [g \in All |-> pulse_request_user_auth(g)][flags] /\ tok' = tok
          /\ html' = [html EXCEPT !.flags = flags] /\ Goto("ask")
    BY <1>8 DEF Show
  <2>2. flags \in All
    BY <1>2
  <2>3. form' = pulse_request_user_auth(flags)
    BY <2>1, <2>2
  <2>4. PageForm(pulse_request_user_auth(flags))
    BY <2>2, PulseFormsAre
  <2> QED
    BY <1>1, <2>1, <2>2, <2>3, <2>4 DEF Goto, Paged, PageForm, Places, AskedFor
<1>9. CASE Show(Whatever(pulse_request_pass_change), FALSE)
  BY <1>0, <1>3, <1>9, PulseFormsAre DEF Show
<1>10. CASE Show([flags \in All |-> pulse_request_gtc(flags)], TRUE)
  <2>1. PICK flags \in PromptFlags :
          /\ form' = [g \in All |-> pulse_request_gtc(g)][flags] /\ tok' = Asked(tok)
          /\ html' = [html EXCEPT !.flags = flags] /\ Goto("ask")
    BY <1>10 DEF Show
  <2>2. flags \in All
    BY <1>2
  <2>3. form' = pulse_request_gtc(flags)
    BY <2>1, <2>2
  <2>4. /\ AForm(pulse_request_gtc(flags))
        /\ pulse_request_gtc(flags).code = "TOKEN" => can_gen_tokencode(tok)
    BY <2>2, PulseFormsAre
  <2> QED
    BY <1>1, <2>1, <2>2, <2>3, <2>4 DEF Goto, Paged, Places, AskedFor
<1>11. CASE Goto("post") /\ form' = NoForm /\ UNCHANGED <<html, tok, cookie>>
  BY <1>0, <1>11, NamedForms DEF Goto, Paged, Places, PageForm
<1> QED
  BY <1>4, <1>5, <1>6, <1>7, <1>8, <1>9, <1>10, <1>11 DEF Request

\* Pulse.
LEMMA PulseMoves ==
  ASSUME LoginInv, PulseNext
  PROVE  Moves /\ proto = "pulse" /\ proto' = proto /\ given' = given /\ gp' = gp /\ cstp' = cstp
         /\ html' \in Pages
<1> USE DEF LoginInv
<1> DEFINE Same == proto = "pulse" /\ proto' = proto /\ given' = given /\ gp' = gp /\ cstp' = cstp
           Sent == /\ client' = client /\ sent' = (IF pc = "post" THEN Posted ELSE sent) /\ body' = EmptyBody
<1>0. html \in Pages
  BY DEF Kept
<1>1. CASE PulseOpen
  <2>1. Same /\ Sent
    BY <1>1 DEF PulseOpen, At, Requested
  <2>2. form' = form /\ tok' = tok /\ pc' \in {"fetch", "post", "done"}
    BY <1>1 DEF PulseOpen, Upgrade, NegotiateVersion, SendIdentity, EstablishTtls, PresentClient, PulseFails,
                Reached, PulseStays, Goto, Finish
  <2>3. html' = html \/ \E stage \in Stages : html' = [html EXCEPT !.stage = stage]
    BY <1>1 DEF PulseOpen, Upgrade, NegotiateVersion, SendIdentity, EstablishTtls, PresentClient, PulseFails,
                Reached, Stages
  <2>4. html' \in Pages
    BY <1>0, <2>3 DEF Pages
  <2> QED
    BY <2>1, <2>2, <2>4, StillPaged DEF Moves, Places
<1>2. CASE auth_response
  <2>1. Same /\ Sent /\ pc = "post"
    BY <1>2 DEF auth_response, At, Requested
  <2>2. CASE Request
    BY <2>1, <2>2, PulseRequests DEF Moves
  <2>3. CASE PulseFails \/ Refused \/ CookieFound
    <3>1. html' = html /\ form' = form /\ tok' = tok /\ pc' = "done"
      BY <2>3 DEF PulseFails, Refused, CookieFound, PulseStays, Finish
    <3> QED
      BY <1>0, <2>1, <3>1, StillPaged DEF Moves, Places
  <2> QED
    BY <1>2, <2>2, <2>3 DEF auth_response
<1>3. CASE PulseFill
  <2>1. Same /\ pc = "ask" /\ sent' = sent /\ html' = html /\ form' = (IF pc' = "ask" THEN form ELSE NoForm)
    BY <1>3 DEF PulseFill, At, own
  <2>2. CASE Fill(ask_until_group(form, client))
    BY <1>0, <2>1, <2>2, HtmlFillMoves
  <2>3. CASE PasswordsDiffer
    <3>1. PICK a \in process_auth_form(form, client, TRUE) : client' = a.client
      BY <2>3 DEF PasswordsDiffer
    <3>2. Fits(a, form, client)
      BY <3>1, AnswersFit DEF Filled, AForm
    <3> QED
      BY <1>0, <2>1, <2>3, <3>1, <3>2 DEF PasswordsDiffer, Goto, Answered, Moves, Places
  <2> QED
    BY <1>3, <2>2, <2>3 DEF PulseFill
<1> QED
  BY <1>1, <1>2, <1>3 DEF PulseNext

-----------------------------------------------------------------------------
\* GlobalProtect: what a step may do with passwords, where codes are not limited.
GpMoved ==
  /\ proto = "gp" /\ proto' = proto /\ given' = given /\ cstp' = cstp /\ html' = html
  /\ pc' \in Places /\ client' \in Client /\ tok' \in Token /\ body' \in Body /\ sent' \in Histories
  /\ gp' \in GpState /\ AForm(form') /\ form'.groups = {} /\ body'.group = None
  /\ sent'.pass <= client'.typed /\ body'.pass <= client'.typed /\ gp'.value <= client'.typed
  /\ pc' = "post" => body'.pass = 0 \/ body'.pass > sent'.pass

\* Which is what there is to keep.
LEMMA GpMovedKeeps ==
  ASSUME LoginInv, GpMoved
  PROVE  MovesKeep
<1>1. ~ Limited' /\ proto' = "gp"
  BY DEF GpMoved, Limited
<1>2. Codes'
  BY <1>1 DEF Codes
<1> QED
  BY <1>1, <1>2 DEF GpMoved, MovesKeep, Filled, BodyGone, Passwords, NotPostedTwice, Groupings

\* What the step does not concern.
GpStill ==
  /\ proto = "gp" /\ proto' = proto /\ given' = given /\ cstp' = cstp /\ html' = html
  /\ pc' \in Places \ {"post"} /\ client' = client /\ body' = body
  /\ sent' = sent \/ sent' = Posted
  /\ gp' \in GpState /\ gp'.value \in {0, gp.value}

\* A step to another form that posts nothing.
LEMMA GpStillMoved ==
  ASSUME LoginInv, GpStill, tok' \in {tok, Asked(tok)}, AForm(form'), form'.groups = {}
  PROVE  GpMoved
<1> USE DEF LoginInv
<1>1. tok' \in Token
  BY AskedIs DEF Filled
<1>2. client.typed \in Nat /\ sent.pass \in Nat /\ body.pass \in Nat /\ gp.value \in Nat
  BY DEF Filled, Kept, Client, Histories, Body, GpState
<1>3. sent' \in Histories /\ sent'.pass <= client.typed
  BY <1>2, PostedIs DEF GpStill, Filled, Passwords
<1> QED
  BY <1>1, <1>2, <1>3 DEF GpStill, GpMoved, Passwords, Groupings, Filled

\* The struct login_context changes a field at a time.
LEMMA GpFields ==
  ASSUME NEW g \in GpState
  PROVE  /\ \A b \in BOOLEAN :
              /\ [g EXCEPT !.username = b] \in GpState /\ [g EXCEPT !.username = b].value = g.value
              /\ [g EXCEPT !.either = b] \in GpState /\ [g EXCEPT !.either = b].value = g.value
              /\ [g EXCEPT !.portal = b] \in GpState /\ [g EXCEPT !.portal = b].value = g.value
              /\ [g EXCEPT !.portal_cookie = b] \in GpState /\ [g EXCEPT !.portal_cookie = b].value = g.value
              /\ [g EXCEPT !.blind_retry = b] \in GpState /\ [g EXCEPT !.blind_retry = b].value = g.value
         /\ \A v \in 0 .. MaxTyped : [g EXCEPT !.value = v] \in GpState /\ [g EXCEPT !.value = v].value = v
BY DEF GpState

\* The end of gpst_login(): another start, or the end of the login.
LEMMA OverIs ==
  ASSUME NEW g \in GpState, NEW ret,
         IF ret = "EEXIST" /\ g.either
         THEN Goto("fetch") /\ gp' = [g EXCEPT !.either = FALSE, !.portal = FALSE, !.blind_retry = FALSE]
         ELSE Finish(IF ret = "CANCELLED" THEN ret ELSE "ERR") /\ gp' = g
  PROVE  gp' \in GpState /\ gp'.value = g.value /\ pc' \in {"fetch", "done"}
<1> DEFINE d1 == [g EXCEPT !.either = FALSE]
           d2 == [d1 EXCEPT !.portal = FALSE]
           d3 == [d2 EXCEPT !.blind_retry = FALSE]
<1>1. d1 \in GpState /\ d1.value = g.value
  BY GpFields
<1> HIDE DEF d1
<1>2. d2 \in GpState /\ d2.value = g.value
  BY <1>1, GpFields
<1> HIDE DEF d2
<1>3. d3 \in GpState /\ d3.value = g.value
  BY <1>2, GpFields
<1>4. gp' \in {g, d3} /\ pc' \in {"fetch", "done"}
  BY DEF Goto, Finish, d1, d2, d3
<1> HIDE DEF d3
<1> QED
  BY <1>3, <1>4

\* A form for a password, or for a code.
GpForm(id, text, pass, code) ==
  [id |-> id, text |-> text, pass |-> pass, code |-> code, sso |-> FALSE, groups |-> {}, selected |-> None]

\* It has no groups.
LEMMA GpForms ==
  ASSUME NEW text \in BOOLEAN, NEW pass \in BOOLEAN, NEW code \in FieldType, NEW id \in {"login", "challenge"}
  PROVE  AForm(GpForm(id, text, pass, code)) /\ GpForm(id, text, pass, code).groups = {}
BY DEF GpForm, AForm, Form

\* The first form.
LEMMA PreloginMoved ==
  ASSUME LoginInv, Prelogin
  PROVE  GpMoved
<1> USE DEF LoginInv
<1>0. gp \in GpState /\ gp.username \in BOOLEAN /\ gp.value \in Nat
  BY DEF Kept, GpState
<1>1. /\ proto = "gp" /\ proto' = proto /\ given' = given /\ cstp' = cstp /\ html' = html
      /\ body' = body /\ client' = client /\ sent' = sent
  BY DEF Prelogin, AtGp, GpSame
<1> DEFINE g == [gp EXCEPT !.username = FALSE, !.value = 0]
<1>3. g \in GpState /\ g.value = 0
  <2> DEFINE d == [gp EXCEPT !.username = FALSE]
  <2>1. d \in GpState
    BY <1>0, GpFields
  <2>2. g = [d EXCEPT !.value = 0]
    OBVIOUS
  <2> HIDE DEF d, g
  <2> QED
    BY <2>1, <2>2, GpFields
<1> HIDE DEF g
<1>4. CASE PreloginForm
  <2>1. PICK token \in BOOLEAN :
          form' = [EmptyForm EXCEPT !.text = ~ gp.username, !.pass = ~ token,
                                    !.code = IF token THEN "TOKEN" ELSE None]
    BY <1>4 DEF PreloginForm
  <2> DEFINE u == ~ gp.username
             p == ~ token
             c == IF token THEN "TOKEN" ELSE None
  <2>2. u \in BOOLEAN /\ p \in BOOLEAN /\ c \in FieldType
    BY <1>0 DEF FieldType
  <2>3. form' = GpForm("login", u, p, c)
    BY <2>1 DEF EmptyForm, GpForm
  <2> HIDE DEF u, p, c
  <2>4. AForm(form') /\ form'.groups = {}
    BY <2>2, <2>3, GpForms
  <2>5. tok' = Asked(tok) /\ pc' = "ask" /\ gp' = g
    BY <1>4 DEF PreloginForm, Goto, g
  <2> QED
    BY <1>1, <1>3, <2>4, <2>5, GpStillMoved DEF GpStill, Places
<1>5. CASE PreloginSaml /\ ~ PreloginForm
  <2>1. CASE client.browser
    <3>1. form' = [EmptyForm EXCEPT !.sso = TRUE] /\ pc' = "ask" /\ gp' = g /\ tok' = tok
      BY <1>5, <2>1 DEF PreloginSaml, Goto, g
    <3>2. AForm(form') /\ form'.groups = {}
      BY <3>1, NamedForms DEF PageForm, AForm, Form
    <3> QED
      BY <1>1, <1>3, <3>1, <3>2, GpStillMoved DEF GpStill, Places
  <2>2. CASE ~ client.browser
    <3>1. UNCHANGED <<form, tok>>
      BY <1>5, <2>2 DEF PreloginSaml
    <3>2. gp' \in GpState /\ gp'.value = gp.value /\ pc' \in {"fetch", "done"}
      BY <1>0, <1>5, <2>2, OverIs DEF PreloginSaml, Over
    <3>3. AForm(form') /\ form'.groups = {}
      BY <1>1, <3>1 DEF Filled, Groupings
    <3> QED
      BY <1>1, <3>1, <3>2, <3>3, GpStillMoved DEF GpStill, Places
  <2> QED
    BY <2>1, <2>2
<1>6. CASE \E ret \in GpErrors : Over(ret, gp) /\ UNCHANGED <<form, tok>>
  <2>1. gp' \in GpState /\ gp'.value = gp.value /\ pc' \in {"fetch", "done"}
    BY <1>0, <1>6, OverIs DEF Over
  <2>2. AForm(form') /\ form'.groups = {} /\ tok' = tok
    BY <1>1, <1>6 DEF Filled, Groupings
  <2> QED
    BY <1>1, <2>1, <2>2, GpStillMoved DEF GpStill, Places
<1> QED
  BY <1>4, <1>5, <1>6 DEF Prelogin

\* What is filled in is posted.
LEMMA GpFillMoved ==
  ASSUME LoginInv, GpFill
  PROVE  GpMoved
<1> USE DEF LoginInv
<1>1. /\ proto = "gp" /\ proto' = proto /\ given' = given /\ cstp' = cstp /\ html' = html
      /\ form' = form /\ sent' = sent /\ gp' = [gp EXCEPT !.value = body'.pass]
  BY DEF GpFill, AtGp, GpSame
<1>2. client.typed \in Nat /\ sent.pass \in Nat /\ body.pass \in Nat /\ gp \in GpState
  BY DEF Filled, Kept, Client, Histories, Body
<1>3. ASSUME body' \in Body
      PROVE  gp' \in GpState /\ gp'.value = body'.pass
  <2>1. body'.pass \in 0 .. MaxTyped
    BY <1>3 DEF Body
  <2> QED
    BY <1>1, <1>2, <2>1, GpFields
<1>4. AForm(form') /\ form'.groups = {} /\ sent' \in Histories /\ form.groups = {}
  BY <1>1 DEF Filled, Groupings
<1>5. CASE Fill(process_auth_form(form, client, TRUE))
  <2>1. FilledIn
    BY <1>5, FillFillsIn
  <2>2. /\ client' \in Client /\ client'.typed \in Nat /\ tok' \in Token /\ body' \in Body /\ body'.pass \in Nat
        /\ pc' \in {"post", "done"} /\ client.typed <= client'.typed
    BY <2>1 DEF FilledIn, Client, Body
  <2>3. CASE pc' = "post"
    <3>1. body'.group = None /\ (body'.pass = 0 \/ (body'.pass > client.typed /\ body'.pass <= client'.typed))
      BY <1>4, <2>1, <2>3 DEF FilledIn
    <3> QED
      BY <1>1, <1>2, <1>3, <1>4, <2>2, <2>3, <3>1 DEF GpMoved, Places, Passwords
  <2>4. CASE pc' = "done"
    <3>1. body' = body
      BY <2>1, <2>4 DEF FilledIn
    <3> QED
      BY <1>1, <1>2, <1>3, <1>4, <2>2, <2>4, <3>1 DEF GpMoved, Places, Passwords, Groupings
  <2> QED
    BY <2>2, <2>3, <2>4
<1>6. CASE Finish("ERR") /\ UNCHANGED <<client, tok, body>>
  BY <1>1, <1>2, <1>3, <1>4, <1>6 DEF Finish, GpMoved, Places, Passwords, Groupings, Filled
<1> QED
  BY <1>5, <1>6 DEF GpFill

\* Answers to a post: the same form or another, the gateways, or the cookie.
LEMMA GpPostMoved ==
  ASSUME LoginInv, GpPost
  PROVE  GpMoved
<1> USE DEF LoginInv
<1>1. /\ proto = "gp" /\ proto' = proto /\ given' = given /\ cstp' = cstp /\ html' = html
      /\ client' = client /\ sent' = Posted
  BY DEF GpPost, AtGp, GpSame
<1>2. gp \in GpState /\ gp.value \in Nat
  BY DEF Kept, GpState
<1> DEFINE known == [gp EXCEPT !.username = TRUE]
<1>3. known \in GpState /\ known.value = gp.value
  BY <1>2, GpFields
<1> HIDE DEF known
<1>4. ASSUME UNCHANGED <<form, tok, body>>, gp' \in GpState, gp'.value \in {0, gp.value}, pc' \in Places \ {"post"}
      PROVE  GpMoved
  BY <1>1, <1>4, GpStillMoved DEF GpStill, Filled, Groupings
<1>5. CASE \E ret \in GpErrors : Over(ret, [gp EXCEPT !.username = TRUE]) /\ UNCHANGED <<form, tok, body, cookie>>
  <2>1. PICK ret \in GpErrors :
          IF ret = "EEXIST" /\ known.either
          THEN Goto("fetch") /\ gp' = [known EXCEPT !.either = FALSE, !.portal = FALSE, !.blind_retry = FALSE]
          ELSE Finish(IF ret = "CANCELLED" THEN ret ELSE "ERR") /\ gp' = known
    BY <1>5 DEF Over, known
  <2>2. gp' \in GpState /\ gp'.value = known.value /\ pc' \in {"fetch", "done"}
    BY <1>3, <2>1, OverIs
  <2> QED
    BY <1>3, <1>4, <1>5, <2>2 DEF Places
<1>6. CASE Rejected
  <2> DEFINE blank == [gp EXCEPT !.value = 0]
             d == [gp EXCEPT !.blind_retry = FALSE]
  <2>1. blank \in GpState /\ blank.value = 0 /\ d \in GpState
    BY <1>2, GpFields, 0 \in 0 .. MaxTyped
  <2>2. [d EXCEPT !.value = 0] \in GpState /\ [d EXCEPT !.value = 0].value = 0
    <3> HIDE DEF d
    <3> QED
      BY <2>1, GpFields
  <2>3. gp' \in {blank, [d EXCEPT !.value = 0]}
    BY <1>6 DEF Rejected
  <2>4. pc' \in {"fetch", "ask"} /\ UNCHANGED <<form, tok, body>>
    BY <1>6 DEF Rejected, Goto
  <2> HIDE DEF blank, d
  <2> QED
    BY <1>4, <2>1, <2>2, <2>3, <2>4 DEF Places
<1>7. CASE Goto("ask") /\ gp' = [gp EXCEPT !.username = TRUE] /\ UNCHANGED <<form, tok, body, cookie>>
  BY <1>3, <1>4, <1>7 DEF Goto, Places, known
<1>8. CASE PortalAnswers
  <2>1. PICK p \in BOOLEAN : gp' = [gp EXCEPT !.username = TRUE, !.portal_cookie = p]
    BY <1>8 DEF PortalAnswers
  <2>2. gp' = [known EXCEPT !.portal_cookie = p]
    BY <2>1 DEF known
  <2>3. gp' \in GpState /\ gp'.value = gp.value
    BY <1>3, <2>2, GpFields
  <2> QED
    BY <1>4, <1>8, <2>3 DEF PortalAnswers, Goto, Places
<1>9. CASE GatewayAnswers
  BY <1>2, <1>4, <1>9 DEF GatewayAnswers, Finish, Places
<1>10. CASE challenge_cb /\ UNCHANGED <<body, cookie>>
  <2>1. PICK token \in BOOLEAN :
          form' = [EmptyForm EXCEPT !.id = "challenge", !.pass = ~ token, !.code = IF token THEN "TOKEN" ELSE None]
    BY <1>10 DEF challenge_cb
  <2> DEFINE p == ~ token
             c == IF token THEN "TOKEN" ELSE None
  <2>2. p \in BOOLEAN /\ c \in FieldType
    BY DEF FieldType
  <2>3. form' = GpForm("challenge", FALSE, p, c)
    BY <2>1 DEF EmptyForm, GpForm
  <2> HIDE DEF p, c
  <2>4. AForm(form') /\ form'.groups = {}
    BY <2>2, <2>3, GpForms
  <2>5. tok' = Asked(tok) /\ pc' = "ask" /\ gp' = [known EXCEPT !.value = 0]
    BY <1>10 DEF challenge_cb, Goto, known
  <2>6. gp' \in GpState /\ gp'.value = 0
    BY <1>3, <2>5, GpFields
  <2> QED
    BY <1>1, <1>10, <2>4, <2>5, <2>6, GpStillMoved DEF GpStill, Places
<1> QED
  BY <1>5, <1>6, <1>7, <1>8, <1>9, <1>10 DEF GpPost

\* The server knows nothing of what the other one has been sent.
LEMMA Forgotten ==
  ASSUME NEW s \in Histories
  PROVE  [s EXCEPT !.pass = 0, !.code = 0] \in Histories /\ [s EXCEPT !.pass = 0, !.code = 0].pass = 0
<1> DEFINE d == [s EXCEPT !.pass = 0]
<1>1. d \in Histories /\ d.pass = 0
  BY DEF Histories
<1>2. [s EXCEPT !.pass = 0, !.code = 0] = [d EXCEPT !.code = 0]
  OBVIOUS
<1> HIDE DEF d
<1> QED
  BY <1>1, <1>2 DEF Histories

\* A gateway is chosen, and what the portal has taken tried on it.
LEMMA ChooseMoved ==
  ASSUME LoginInv, ChooseGateway
  PROVE  GpMoved
<1> USE DEF LoginInv
<1>1. PICK f \in GroupForms(WithFields) :
        LET first == f.selected
            known == [client EXCEPT !.authgroup = IF @ = None THEN first ELSE @]
            gateways == [EmptyForm EXCEPT !.groups = f.groups, !.selected = first]
        IN \E a \in process_auth_form(gateways, known, TRUE) :
             /\ client' = a.client
             /\ IF a.ret \in {"ERR", "CANCELLED"}
                THEN Over(a.ret, gp) /\ UNCHANGED <<tok, body, sent>>
                ELSE LET g == [gp EXCEPT !.portal = FALSE]
                     IN /\ sent' = [sent EXCEPT !.pass = 0, !.code = 0]
                        /\ IF g.portal_cookie \/ (form.id # "challenge" /\ ~ given.alt_secret)
                           THEN Replay([g EXCEPT !.blind_retry = TRUE])
                           ELSE Goto("fetch") /\ gp' = g /\ UNCHANGED <<tok, body>>
  BY DEF ChooseGateway
<1> DEFINE group == IF client.authgroup = None THEN f.selected ELSE client.authgroup
           known == [client EXCEPT !.authgroup = group]
           some == [EmptyForm EXCEPT !.groups = f.groups]
           gateways == [some EXCEPT !.selected = f.selected]
           g == [gp EXCEPT !.portal = FALSE]
           h == [g EXCEPT !.blind_retry = TRUE]
<1>2. f.groups \in SUBSET Groups /\ f.selected \in Groups
  BY GroupFormsAre DEF WithFields
<1>3. client \in Client /\ client.authgroup \in Choosable /\ gp \in GpState /\ sent \in Histories
  BY DEF Filled, Kept, Client, Choosable
<1>4. known \in Client /\ known.typed = client.typed
  <2>1. group \in Choosable
    BY <1>2, <1>3 DEF Choosable
  <2> HIDE DEF group
  <2> QED
    BY <1>3, <2>1 DEF Client, Choosable
<1>5. gateways \in Form /\ ~ gateways.sso
  <2>1. some \in Form /\ ~ some.sso
    BY <1>2, NamedForms DEF PageForm, AForm, Form, EmptyForm
  <2> HIDE DEF some
  <2> QED
    BY <1>2, <2>1 DEF Form
<1>6. g \in GpState /\ g.value = gp.value
  BY <1>3, GpFields
<1>7. h \in GpState /\ h.value = gp.value
  <2> HIDE DEF g
  <2> QED
    BY <1>6, GpFields
<1>8. /\ proto = "gp" /\ proto' = proto /\ given' = given /\ cstp' = cstp /\ html' = html /\ form' = form
  BY DEF ChooseGateway, AtGp, GpSame
<1>9. PICK a \in process_auth_form(gateways, known, TRUE) :
        /\ client' = a.client
        /\ IF a.ret \in {"ERR", "CANCELLED"}
           THEN Over(a.ret, gp) /\ UNCHANGED <<tok, body, sent>>
           ELSE /\ sent' = [sent EXCEPT !.pass = 0, !.code = 0]
                /\ IF g.portal_cookie \/ (form.id # "challenge" /\ ~ given.alt_secret)
                   THEN Replay(h)
                   ELSE Goto("fetch") /\ gp' = g /\ UNCHANGED <<tok, body>>
  BY <1>1
<1> HIDE DEF known, gateways, some, g, h, group
<1>10. client' \in Client /\ client.typed <= client'.typed
  <2>1. Fits(a, gateways, known)
    BY <1>4, <1>5, AnswersFit
  <2> QED
    BY <1>4, <1>9, <2>1 DEF Fits, Answers
<1>11. /\ client.typed \in Nat /\ client'.typed \in Nat /\ gp.value \in 0 .. MaxTyped /\ sent.pass \in Nat /\ body.pass \in Nat
       /\ AForm(form') /\ form'.groups = {} /\ tok \in Token /\ body \in Body /\ body.group = None
       /\ sent.pass <= client.typed /\ body.pass <= client.typed /\ gp.value <= client.typed
  BY <1>3, <1>8, <1>10 DEF Filled, Client, GpState, Histories, Body, Groupings, Passwords
<1>12. CASE a.ret \in {"ERR", "CANCELLED"}
  <2>1. UNCHANGED <<tok, body, sent>> /\
          IF a.ret = "EEXIST" /\ gp.either
          THEN Goto("fetch") /\ gp' = [gp EXCEPT !.either = FALSE, !.portal = FALSE, !.blind_retry = FALSE]
          ELSE Finish(IF a.ret = "CANCELLED" THEN a.ret ELSE "ERR") /\ gp' = gp
    BY <1>9, <1>12 DEF Over
  <2>2. gp' \in GpState /\ gp'.value = gp.value /\ pc' \in {"fetch", "done"}
    BY <1>3, <2>1, OverIs
  <2> QED
    BY <1>3, <1>8, <1>10, <1>11, <2>1, <2>2 DEF GpMoved, Places
<1>13. CASE a.ret \notin {"ERR", "CANCELLED"}
  <2>1. sent' \in Histories /\ sent'.pass = 0
    BY <1>3, <1>9, <1>13, Forgotten
  <2>2. CASE g.portal_cookie \/ (form.id # "challenge" /\ ~ given.alt_secret)
    <3>1. PICK c \in do_gen_tokencode(form, tok) :
            /\ tok' = c.tok /\ gp' = h
            /\ IF c.ok THEN Goto("post") /\ body' = [EmptyBody EXCEPT !.pass = h.value, !.code = c.code]
               ELSE Finish("ERR") /\ UNCHANGED body
      BY <1>9, <1>13, <2>2 DEF Replay
    <3>2. c.tok \in Token /\ c.code \in Nat
      BY <1>11, CodesMade DEF CodeMade
    <3>3. CASE c.ok
      <4> DEFINE d == [EmptyBody EXCEPT !.pass = h.value]
                 b == [d EXCEPT !.code = c.code]
      <4>1. d \in Body /\ d.pass = gp.value /\ d.group = None
        BY <1>7, <1>11, EmptyIs DEF Body
      <4>2. b \in Body /\ b.pass = gp.value /\ b.group = None
        <5> HIDE DEF d
        <5> QED
          BY <3>2, <4>1 DEF Body
      <4>3. body' = b /\ pc' = "post"
        BY <3>1, <3>3 DEF Goto
      <4> HIDE DEF b
      <4> QED
        BY <1>7, <1>8, <1>10, <1>11, <2>1, <3>1, <3>2, <4>2, <4>3 DEF GpMoved, Places
    <3>4. CASE ~ c.ok
      BY <1>7, <1>8, <1>10, <1>11, <2>1, <3>1, <3>2, <3>4 DEF GpMoved, Places, Finish
    <3> QED
      BY <3>3, <3>4
  <2>3. CASE ~ (g.portal_cookie \/ (form.id # "challenge" /\ ~ given.alt_secret))
    BY <1>6, <1>8, <1>9, <1>10, <1>11, <1>13, <2>1, <2>3 DEF GpMoved, Places, Goto
  <2> QED
    BY <2>2, <2>3
<1> QED
  BY <1>12, <1>13

\* GlobalProtect.
LEMMA GpMoves ==
  ASSUME LoginInv, GpNext
  PROVE  GpMoved
<1> USE DEF LoginInv
<1>1. CASE NoGateways
  <2>1. /\ proto = "gp" /\ proto' = proto /\ given' = given /\ cstp' = cstp /\ html' = html
        /\ UNCHANGED <<form, tok, body, client, sent>>
    BY <1>1 DEF NoGateways, AtGp, GpSame
  <2>2. gp \in GpState
    BY DEF Kept
  <2>3. gp' \in GpState /\ gp'.value = gp.value /\ pc' \in {"fetch", "done"}
    BY <1>1, <2>2, OverIs DEF NoGateways, Over
  <2>4. AForm(form') /\ form'.groups = {}
    BY <2>1 DEF Filled, Groupings
  <2> QED
    BY <2>1, <2>3, <2>4, GpStillMoved DEF GpStill, Places
<1> QED
  BY <1>1, PreloginMoved, GpFillMoved, GpPostMoved, ChooseMoved DEF GpNext

-----------------------------------------------------------------------------
\* The host scan.

\* What cstp_obtain_cookie() keeps, and that the scan is counted.
Counted(c) == c \in CstpState /\ c.scans <= 1 /\ (c.csd # "ran" => c.scans = 0)

\* The other variables do not matter to that.
LEMMA CountedStays ==
  ASSUME NEW c, Counted(c)
  PROVE  /\ \A b \in BOOLEAN : /\ Counted([c EXCEPT !.xmlpost = b]) /\ Counted([c EXCEPT !.cert2 = b])
                               /\ [c EXCEPT !.xmlpost = b].csd = c.csd /\ [c EXCEPT !.cert2 = b].csd = c.csd
         /\ \A n \in 0 .. 6 : Counted([c EXCEPT !.tries = n]) /\ [c EXCEPT !.tries = n].csd = c.csd
         /\ \A n \in 0 .. 4 : Counted([c EXCEPT !.newgroup_attempts = n])
BY DEF Counted, CstpState

\* Probes that go on, and those that are the last one.
LEMMA ProbesCount ==
  ASSUME NEW c, Counted(c), Fail(c) \/ Again(c)
  PROVE  Counted(cstp') /\ pc' \in {"probe", "done"}
<1> DEFINE d == [c EXCEPT !.xmlpost = FALSE]
           e == [d EXCEPT !.tries = 0]
           n == IF c.tries = 6 THEN 5 ELSE c.tries + 1
<1>1. Counted(e)
  <2>1. Counted(d)
    BY CountedStays
  <2> HIDE DEF d
  <2> QED
    BY <2>1, CountedStays, 0 \in 0 .. 6
<1>2. n \in 0 .. 6
  BY DEF Counted, CstpState
<1>3. Counted([c EXCEPT !.tries = n])
  <2> HIDE DEF n
  <2> QED
    BY <1>2, CountedStays
<1>4. cstp' \in {c, e, [c EXCEPT !.tries = n]} /\ pc' \in {"probe", "done"}
  BY DEF Fail, Again, Goto, Finish
<1> HIDE DEF d, e, n
<1> QED
  BY <1>1, <1>3, <1>4

\* Only pages say that there is to be a scan, and only before there was one.
LEMMA CsdCounted ==
  ASSUME Counted(cstp), NEW asked \in BOOLEAN
  PROVE  Counted([cstp EXCEPT !.csd = parse_csd(asked)]) /\ [cstp EXCEPT !.csd = parse_csd(asked)].csd = parse_csd(asked)
<1>1. parse_csd(asked) \in {None, "given", "ran"} /\ (cstp.csd = "ran" => parse_csd(asked) = "ran")
      /\ (cstp.csd # "ran" => parse_csd(asked) # "ran")
  BY DEF parse_csd, Counted, CstpState
<1> DEFINE d == parse_csd(asked)
<1>2. d \in {None, "given", "ran"} /\ (cstp.csd = "ran" <=> d = "ran")
  BY <1>1
<1> HIDE DEF d
<1>3. Counted([cstp EXCEPT !.csd = d]) /\ [cstp EXCEPT !.csd = d].csd = d
  BY <1>2 DEF Counted, CstpState
<1> QED
  BY <1>3 DEF d

\* A scan is run when there was none.
LEMMA CstpKeeps ==
  ASSUME LoginInv, CstpNext
  PROVE  cstp' \in CstpState /\ Scans'
<1> USE DEF LoginInv
<1>0. Counted(cstp) /\ given.csd \in BOOLEAN /\ given.multicert \in BOOLEAN
  BY DEF Kept, Scans, Counted, Fixed, Settings
<1>1. ASSUME Counted(cstp'), pc' = "scan" => cstp'.csd = "given"
      PROVE  cstp' \in CstpState /\ Scans'
  BY <1>1 DEF Counted, Scans
<1> DEFINE one(b) == [cstp EXCEPT !.cert2 = b]
<1>2. \A b \in BOOLEAN : Counted(one(b))
  BY <1>0, CountedStays
<1>3. CASE Probe
  <2>1. CASE ProbeFails
    BY <1>0, <1>1, <2>1, ProbesCount DEF ProbeFails, Finish
  <2>2. CASE ProbeRedirected
    BY <1>0, <1>1, <2>2, ProbesCount DEF ProbeRedirected
  <2>3. CASE ProbeUnusable
    <3>1. PICK two \in BOOLEAN : Fail(one(two))
      BY <1>0, <2>3 DEF ProbeUnusable
    <3> QED
      BY <1>1, <1>2, <3>1, ProbesCount
  <2>4. CASE CertRequested
    <3>1. PICK two \in BOOLEAN : Again(one(two))
      BY <1>0, <2>4 DEF CertRequested
    <3> QED
      BY <1>1, <1>2, <3>1, ProbesCount
  <2>5. CASE MultipleCertRequested
    BY <1>1, <1>2, <2>5, ProbesCount DEF MultipleCertRequested, Finish
  <2>6. CASE ProbeAnswered
    <3>1. PICK asked \in BOOLEAN :
            /\ pc' = "scan" => parse_csd(asked) = "given"
            /\ cstp' = [cstp EXCEPT !.tries = 0, !.cert2 = FALSE, !.csd = parse_csd(asked)]
      BY <1>0, <2>6 DEF ProbeAnswered, Goto
    <3> DEFINE c1 == [cstp EXCEPT !.csd = parse_csd(asked)]
               c2 == [c1 EXCEPT !.tries = 0]
               c3 == [c2 EXCEPT !.cert2 = FALSE]
    <3>2. Counted(c1) /\ c1.csd = parse_csd(asked)
      BY <1>0, CsdCounted
    <3> HIDE DEF c1
    <3>3. Counted(c2) /\ c2.csd = c1.csd
      BY <3>2, CountedStays, 0 \in 0 .. 6
    <3> HIDE DEF c2
    <3>4. Counted(c3) /\ c3.csd = c2.csd
      BY <3>3, CountedStays
    <3>5. cstp' = c3
      BY <3>1 DEF c1, c2
    <3> HIDE DEF c3
    <3> QED
      BY <1>1, <3>1, <3>2, <3>3, <3>4, <3>5
  <2> QED
    BY <1>3, <2>1, <2>2, <2>3, <2>4, <2>5, <2>6 DEF Probe
<1>4. CASE run_csd_script
  <2>1. cstp.csd = "given"
    BY <1>4 DEF run_csd_script, AtCstp, Scans
  <2> DEFINE d == [cstp EXCEPT !.csd = "ran"]
             e == [d EXCEPT !.scans = 1]
  <2>2. cstp.scans = 0
    BY <1>0, <2>1 DEF Counted
  <2>3. d \in CstpState /\ d.csd = "ran"
    BY <1>0 DEF Counted, CstpState
  <2>4. Ran = e
    BY <2>2 DEF Ran
  <2> HIDE DEF d
  <2>5. Counted(e)
    BY <2>3 DEF Counted, CstpState
  <2> HIDE DEF e
  <2>6. cstp' \in {cstp, e} /\ pc' \in {"wait", "done"}
    BY <1>4, <2>4 DEF run_csd_script, Goto, Finish
  <2> QED
    BY <1>0, <1>1, <2>5, <2>6
<1>5. CASE WaitPage
  BY <1>0, <1>1, <1>5 DEF WaitPage, Goto, Finish
<1>6. CASE Refetch \/ PostForm
  <2>1. CASE FormPage
    <3>1. PICK asked \in BOOLEAN : cstp' = [cstp EXCEPT !.csd = parse_csd(asked)]
      BY <1>0, <2>1 DEF FormPage
    <3>2. pc' = "ask"
      BY <2>1 DEF FormPage, ShowForm, Goto
    <3> QED
      BY <1>0, <1>1, <3>1, <3>2, CsdCounted
  <2>2. CASE FormFails
    BY <1>0, <1>1, <2>2 DEF FormFails, Finish
  <2> QED
    BY <1>6, <2>1, <2>2 DEF Refetch, PostForm
<1>7. CASE handle_auth_form
  <2>1. CASE LoggedIn \/ NotAsked
    BY <1>0, <1>1, <2>1 DEF LoggedIn, NotAsked, Finish, Goto
  <2>2. CASE FormAsked /\ newgroup
    <3> DEFINE n == cstp.newgroup_attempts - 1
               d == [cstp EXCEPT !.newgroup_attempts = n]
               e == [d EXCEPT !.tries = 0]
    <3>1. CASE cstp.newgroup_attempts = 0
      BY <1>0, <1>1, <2>2, <3>1 DEF newgroup, Finish
    <3>2. CASE cstp.newgroup_attempts # 0
      <4>1. n \in 0 .. 4
        BY <1>0, <3>2 DEF Counted, CstpState
      <4>2. cstp' = e /\ pc' = "probe"
        BY <2>2, <3>2 DEF newgroup, Goto
      <4> HIDE DEF n
      <4>3. Counted(d)
        BY <1>0, <4>1, CountedStays
      <4> HIDE DEF d
      <4>4. Counted(e)
        BY <4>3, CountedStays, 0 \in 0 .. 6
      <4> HIDE DEF e
      <4> QED
        BY <1>1, <4>2, <4>4
    <3> QED
      BY <3>1, <3>2
  <2>3. CASE FormAsked /\ ~ newgroup
    BY <1>0, <1>1, <2>3 DEF FormAsked, Fill, Goto, Finish
  <2> QED
    BY <1>7, <2>1, <2>2, <2>3 DEF handle_auth_form
<1> QED
  BY <1>3, <1>4, <1>5, <1>6, <1>7 DEF CstpNext

-----------------------------------------------------------------------------
\* Logins start so.
LEMMA LoginInvInit == Init => LoginInv
<1> SUFFICES ASSUME Init
             PROVE  LoginInv
  OBVIOUS
<1>1. Plain \in Settings
  BY DEF Plain, Settings
<1>2. given \in Settings
  <2>1. given \in Setups(proto) /\ proto \in Protocols
    BY DEF Init
  <2>2. \A b \in BOOLEAN :
          /\ [Plain EXCEPT !.xmlpost = b] \in Settings /\ [Plain EXCEPT !.nopasswd = b] \in Settings
          /\ [Plain EXCEPT !.wrapper = b] \in Settings
    BY <1>1 DEF Settings
  <2>3. \A b \in BOOLEAN : [Plain EXCEPT !.multicert = TRUE, !.cert2 = b] \in Settings
    BY DEF Settings, Plain
  <2>4. \A w, u \in BOOLEAN : [Plain EXCEPT !.csd = TRUE, !.wrapper = w, !.uid_csd_given = u] \in Settings
    BY DEF Settings, Plain
  <2>5. \A kind \in {"portal", "gateway", "either"}, alt \in BOOLEAN :
          [Plain EXCEPT !.server = kind, !.alt_secret = alt] \in Settings
    BY DEF Settings, Plain
  <2> DEFINE multi(b) == [Plain EXCEPT !.multicert = TRUE, !.cert2 = b]
             scan(w, u) == [Plain EXCEPT !.csd = TRUE, !.wrapper = w, !.uid_csd_given = u]
             site(kind, alt) == [Plain EXCEPT !.server = kind, !.alt_secret = alt]
  <2>6. CASE proto = "anyconnect"
    <3>1. Setups(proto) = {Plain} \cup ({[Plain EXCEPT !.xmlpost = FALSE], [Plain EXCEPT !.nopasswd = TRUE]} \cup
                            {multi(b) : b \in BOOLEAN} \cup {scan(w, u) : w, u \in BOOLEAN})
      BY <2>6 DEF Setups
    <3> HIDE DEF multi, scan
    <3>2. \/ given \in {Plain, [Plain EXCEPT !.xmlpost = FALSE], [Plain EXCEPT !.nopasswd = TRUE]}
          \/ given \in {multi(b) : b \in BOOLEAN} \/ given \in {scan(w, u) : w, u \in BOOLEAN}
      BY <2>1, <3>1
    <3>3. \/ given \in {Plain, [Plain EXCEPT !.xmlpost = FALSE], [Plain EXCEPT !.nopasswd = TRUE]}
          \/ (\E b \in BOOLEAN : given = multi(b)) \/ (\E w, u \in BOOLEAN : given = scan(w, u))
      BY <3>2
    <3> QED
      BY <1>1, <2>2, <2>3, <2>4, <3>3 DEF multi, scan
  <2>7. CASE proto = "gp"
    <3>1. Setups(proto) = {Plain} \cup {site(kind, alt) : kind \in {"portal", "gateway", "either"}, alt \in BOOLEAN}
      BY <2>7 DEF Setups
    <3> HIDE DEF site
    <3>2. given = Plain \/ \E kind \in {"portal", "gateway", "either"}, alt \in BOOLEAN : given = site(kind, alt)
      BY <2>1, <3>1
    <3> QED
      BY <1>1, <2>5, <3>2 DEF site
  <2>8. CASE proto = "nc"
    <3>1. Setups(proto) = {Plain} \cup {[Plain EXCEPT !.wrapper = TRUE]}
      BY <2>8 DEF Setups
    <3> QED
      BY <1>1, <2>1, <2>2, <3>1
  <2>9. CASE proto # "anyconnect" /\ proto # "gp" /\ proto # "nc"
    <3>1. given \in {Plain} \cup {}
      BY <2>1, <2>9, SMT DEF Setups
    <3> QED
      BY <1>1, <3>1
  <2> QED
    BY <2>6, <2>7, <2>8, <2>9
<1>3. Fixed
  BY <1>2 DEF Init, Fixed, Places, Protocols
<1>4. PICK way \in Ways, group \in {None, WithGroup} \cup NoAaa, mode \in {None, "TOTP", "HOTP"} :
        /\ client = NewClient(group, way = "script", way # "script", way = "browser")
        /\ tok = [mode |-> mode, tries |-> 0, time |-> 0, bypassed |-> FALSE]
  BY DEF Init
<1>5. client \in Client /\ client.typed = 0 /\ ~ client.authgroup_set
  <2>1. group \in Choosable
    BY DEF WithGroup, WithFields, Choosable
  <2>2. \A p, i, b \in BOOLEAN : NewClient(group, p, i, b) \in Client /\ NewClient(group, p, i, b).typed = 0
                                 /\ ~ NewClient(group, p, i, b).authgroup_set
    BY <2>1 DEF NewClient, Client, Choosable
  <2>3. (way = "script") \in BOOLEAN /\ (way # "script") \in BOOLEAN /\ (way = "browser") \in BOOLEAN
    OBVIOUS
  <2> QED
    BY <1>4, <2>2, <2>3, Zenon
<1>6. tok \in Token /\ tok.tries = 0 /\ tok.time = 0
  BY <1>4 DEF Token
<1>7. form \in {LoginForm, NoForm} /\ (proto # "array" => form = NoForm) /\ body = EmptyBody /\ sent = NothingSent
  BY DEF Init
<1>8. AForm(form) /\ form.code # "TOKEN" /\ (proto # "array" => form.groups = {})
  BY <1>7, NamedForms DEF PageForm
<1>9. sent \in Histories /\ sent.pass = 0 /\ sent.code = 0 /\ sent.codes = 0
  BY <1>7 DEF NothingSent, Histories
<1>10. cstp \in CstpState /\ cstp.scans = 0
  BY <1>2 DEF Init, CstpStart, CstpState, Settings
<1>11. gp \in GpState /\ gp.value = 0
  <2>1. gp = GpStart
    BY DEF Init
  <2> DEFINE portal == given.server # "gateway"
             either == given.server = "either"
  <2>2. portal \in BOOLEAN /\ either \in BOOLEAN
    OBVIOUS
  <2>3. gp = [portal |-> portal, either |-> either, blind_retry |-> FALSE, username |-> FALSE,
              portal_cookie |-> FALSE, value |-> 0]
    BY <2>1 DEF GpStart
  <2> HIDE DEF portal, either
  <2> QED
    BY <2>2, <2>3 DEF GpState
<1>12. html \in Pages
  BY <1>2 DEF Init, HtmlStart, Pages, Settings, Stages
<1>13. pc \in {"probe", "ask", "fetch"}
  BY DEF Init
<1> QED
  BY <1>3, <1>5, <1>6, <1>7, <1>8, <1>9, <1>10, <1>11, <1>12, <1>13, EmptyIs
     DEF LoginInv, Filled, Kept, BodyGone, Passwords, NotPostedTwice, Codes, Groupings, Agreed, Scans

\* Every step keeps the invariant.
LEMMA LoginInvStep == LoginInv /\ [Next]_vars => LoginInv'
<1> SUFFICES ASSUME LoginInv, [Next]_vars
             PROVE  LoginInv'
  OBVIOUS
<1> USE DEF LoginInv
<1>0. cstp \in CstpState /\ gp \in GpState /\ html \in Pages /\ proto \in Protocols /\ given \in Settings
  BY DEF Kept, Fixed
<1>1. ASSUME Moves, proto # "gp", proto' = proto, given' = given, gp' = gp
      PROVE  MovesKeep /\ Fixed'
  <2>1. pc' \in Places
    BY <1>1 DEF Moves, Paged, Filling, Answered, FilledIn, Places
  <2> QED
    BY <1>0, <1>1, <2>1, PagedKeeps, FillingKeeps, AnsweredKeeps DEF Moves, Fixed
<1>2. ASSUME cstp' = cstp, proto' = proto, proto # "anyconnect"
      PROVE  Scans'
  BY <1>2 DEF Scans
<1>3. CASE CstpNext
  <2>1. MovesKeep /\ Fixed' /\ gp' = gp /\ html' = html
    BY <1>1, <1>3, CstpMoves
  <2>2. cstp' \in CstpState /\ Scans'
    BY <1>3, CstpKeeps
  <2> QED
    BY <1>0, <2>1, <2>2 DEF MovesKeep, Kept
<1>4. CASE GpNext
  <2>1. GpMoved
    BY <1>4, GpMoves
  <2>2. MovesKeep
    BY <2>1, GpMovedKeeps
  <2> QED
    BY <1>0, <1>2, <2>1, <2>2 DEF GpMoved, MovesKeep, Kept, Fixed
<1>5. CASE HtmlNext
  <2>1. Moves /\ proto \notin {"gp", "anyconnect"} /\ proto' = proto /\ given' = given /\ gp' = gp /\ cstp' = cstp
    BY <1>5, HtmlMoves
  <2>2. html' = html \/ \E b \in BOOLEAN : html' \in {[html EXCEPT !.try_tncc = b], [html EXCEPT !.first = b],
                                                      [html EXCEPT !.page = b]}
    BY <1>5 DEF HtmlNext, NcRequest, GotCookie, RequestFails, Unusable, NcPage, NcTncc, tncc_preauth, NcFill,
                F5Request, F5Page, F5Fill, FortinetStart, FortinetFill, FortinetLogin, Tokeninfo, ChallengePage,
                FortinetAgain, ArrayFill, ArrayLogin, own
  <2>3. html' \in Pages
    BY <1>0, <2>2 DEF Pages
  <2> QED
    BY <1>0, <1>1, <1>2, <2>1, <2>3 DEF MovesKeep, Kept
<1>6. CASE PulseNext
  <2>1. Moves /\ proto \notin {"gp", "anyconnect"} /\ proto' = proto /\ given' = given /\ gp' = gp /\ cstp' = cstp
        /\ html' \in Pages
    BY <1>6, PulseMoves
  <2> QED
    BY <1>0, <1>1, <1>2, <2>1 DEF MovesKeep, Kept
<1>7. CASE Cancel \/ UNCHANGED vars
  <2>1. UNCHANGED <<proto, given, pc, form, body, client, tok, sent, cstp, gp, html>>
    BY <1>7 DEF Cancel, own, vars
  <2> QED
    BY <2>1 DEF Fixed, Filled, Kept, BodyGone, Passwords, NotPostedTwice, Codes, Limited, Groupings, Scans
<1> QED
  BY <1>3, <1>4, <1>5, <1>6, <1>7 DEF Next, openconnect_obtain_cookie

\* So they are in every state.
LEMMA LoginInvHolds == Spec => []LoginInv
BY LoginInvInit, LoginInvStep, PTL DEF Spec

\* A password that has been posted is not posted again, by any protocol that
\* openconnect_obtain_cookie() may use, however often the server refuses or fails to answer.
THEOREM PasswordsArePostedOnce == Spec => []NotPostedTwice
<1>1. LoginInv => NotPostedTwice
  BY DEF LoginInv, Passwords
<1> QED
  BY <1>1, LoginInvHolds, PTL

\* No more than two codes are made from a token in a login, each later than the one
\* before (can_gen_tokencode() and do_gen_tokencode()), but for Fortinet and GlobalProtect.
THEOREM CodesAreLimited == Spec => []CodesLimited
<1>1. LoginInv => CodesLimited
  <2> SUFFICES ASSUME LoginInv, proto \notin {"fortinet", "gp"}
               PROVE  sent.codes <= 2 /\ (pc = "post" => body.code = 0 \/ body.code > sent.code)
    BY DEF CodesLimited
  <2>1. sent.codes \in Nat /\ tok.tries \in Nat
    BY DEF LoginInv, Filled, Histories, Token
  <2> QED
    BY <2>1 DEF LoginInv, Codes, Limited
<1> QED
  BY <1>1, LoginInvHolds, PTL

\* run_csd_script() is called once in a login, whatever pages and probes follow.
THEOREM HostScansAreRunOnce == Spec => []HostScanOnce
<1>1. LoginInv => HostScanOnce
  BY DEF LoginInv, Scans, HostScanOnce
<1> QED
  BY <1>1, LoginInvHolds, PTL

\* The group in what append_form_opts() has posted is the one whose fields
\* process_auth_form() had the user shown, unless the user was asked for another.
THEOREM GroupsAreKept == Spec => []GroupKept
<1>1. LoginInv => GroupKept
  BY DEF LoginInv, Groupings, GroupKept
<1> QED
  BY <1>1, LoginInvHolds, PTL

=============================================================================
