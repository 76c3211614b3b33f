------------------------------ MODULE MCClient ------------------------------
(***************************************************************************)
(* Client for TLC.  Two families of scenarios: the whole life of the two   *)
(* processes with a handful of offers, and one plain session, in the       *)
(* foreground, with every short list of routes.                            *)
(***************************************************************************)
EXTENDS Client, SequencesExt

Mask(form, len) == [form |-> form, len |-> len]
Legacy4(net, form, len) == [family |-> 4, net |-> net, mask |-> Mask(form, len)]
Network6(net, form, len) == [family |-> 6, net |-> net, mask |-> Mask(form, len)]

MCRoutes == {Legacy4("n1", "none", 32), Legacy4("n2", "len", 8), Legacy4("n3", "torn", 0),
             Legacy4("n4", "junk", 0), Network6("n6", "len", 64), Network6("n7", "torn", 0)}

Plain == [addr |-> "a", netmask |-> "m", addr6 |-> None, netmask6 |-> <<>>,
          includes |-> <<>>, excludes |-> <<>>, dns |-> <<"d1", "d2">>, nbns |-> <<>>]

Dual == [Plain EXCEPT !.netmask6 = <<"a6", "64">>,
                      !.includes = <<Legacy4(BadNet, "len", 8), Network6("n8", "none", 128)>>]

Offers ==
  {Plain, Dual, NoAddresses,
   [Plain EXCEPT !.nbns = <<Zero, Zero>>],
   [NoAddresses EXCEPT !.addr6 = "a6"]}

RouteOffers ==
  {[Plain EXCEPT !.includes = rs, !.excludes = Reverse(rs)] :
     rs \in UNION {[1 .. n -> MCRoutes] : n \in 1 .. 3}}

MCLaterOffers ==
  {Plain, Dual, NoAddresses,
   [Plain EXCEPT !.addr = "b"], [Plain EXCEPT !.netmask = "n"],
   [Dual EXCEPT !.netmask6 = <<"b6", "64">>],
   [Plain EXCEPT !.addr6 = "a6"],
   [NoAddresses EXCEPT !.addr6 = "a6"]}

Line(given, only, back, pid, how) ==
  [cookie |-> given, cookieonly |-> only, background |-> back, pidfile |-> pid, script |-> how]

MCOptions ==
  {Line(FALSE, 0, FALSE, FALSE, "file"), Line(FALSE, 3, FALSE, FALSE, "file"),
   Line(TRUE, 2, TRUE, TRUE, "file"), Line(TRUE, 0, TRUE, FALSE, "tun"),
   Line(TRUE, 0, FALSE, FALSE, "tun"), Line(TRUE, 2, FALSE, FALSE, "none")}

\* The lists of routes are for a plain session.
MCFirstOffers ==
  [o \in MCOptions |-> IF o.cookieonly = 2 /\ ~ o.background THEN RouteOffers ELSE Offers]
=============================================================================
