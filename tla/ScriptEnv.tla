----------------------------- MODULE ScriptEnv -----------------------------
(***************************************************************************)
(* What vpnc-script is told: script.c, from ip_info to the environment of  *)
(* the script.                                                             *)
(*                                                                         *)
(* The environment is a function from the variables that have been set to  *)
(* their values, which are sequences of words: Unset for one that          *)
(* script_setenv() was given NULL for.  Variables are tuples, so that      *)
(* <<"IN", 4, 0, "ADDR">> is CISCO_SPLIT_INC_0_ADDR and <<"IN", 4>> is the *)
(* CISCO_SPLIT_INC that counts them.  A route is a record: its family, its *)
(* network, and what stands after the slash; texts are not taken apart     *)
(* further than that.                                                      *)
(***************************************************************************)
EXTENDS Integers, Sequences, FiniteSets

Unset == <<>>
None  == "none"

\* What stands after the slash: nothing, a length, an address, a text that is no
\* number, or one that is no mask either.
Routes == [family : {4, 6}, net : STRING,
           mask : [form : {"none", "len", "dotted", "junk", "torn"}, len : Nat]]

\* The texts that stand for no network, and the NBNS address that is none.
BadNet == "bad"
Zero   == "0.0.0.0"

-----------------------------------------------------------------------------

\* A length to cut the text to is heeded for a new variable only.
script_setenv(env, opt, val) ==
  [o \in DOMAIN env \cup {opt} |-> IF o = opt THEN val ELSE env[o]]

SetTruncated(env, opt, cut, whole) ==
  script_setenv(env, opt, IF opt \in DOMAIN env THEN whole ELSE cut)

-----------------------------------------------------------------------------
(* process_split_xxclude().                                                *)

\* strtol() takes what is no number for /0 in a legacy route; an IPv6 route
\* must be a number to its end, or a mask.
MaskLen4(mask) ==
  CASE mask.form = "none" -> 32
    [] mask.form \in {"len", "dotted"} -> mask.len
    [] OTHER -> 0

Good4(route) == route.net # BadNet /\ route.mask.form # "torn"
MaskLen6(mask) == IF mask.form = "none" THEN 128 ELSE mask.len
Good6(route) == route.mask.form \in {"none", "len", "dotted"}

\* The host bits of a legacy network are cleared.
Network(net, len) == [net |-> net, bits |-> len]

\* An IPv6 network goes in before its mask is looked at, and is counted only
\* when that is good.
SplitIPv6(st, kind, route) ==
  LET addr == SetTruncated(st.env, <<kind, 6, st.v6, "ADDR">>, <<route.net>>,
                           IF route.mask.form = "none" THEN <<route.net>>
                           ELSE <<route.net, route.mask>>)
      both == script_setenv(addr, <<kind, 6, st.v6, "MASKLEN">>, <<MaskLen6(route.mask)>>)
  IN  IF Good6(route) THEN [env |-> both, v4 |-> st.v4, v6 |-> st.v6 + 1]
                      ELSE [env |-> addr, v4 |-> st.v4, v6 |-> st.v6]

SplitLegacy(st, kind, route) ==
  LET len  == MaskLen4(route.mask)
      addr == script_setenv(st.env, <<kind, 4, st.v4, "ADDR">>, <<Network(route.net, len)>>)
      both == script_setenv(addr, <<kind, 4, st.v4, "MASKLEN">>, <<len>>)
  IN  IF Good4(route) THEN [env |-> both, v4 |-> st.v4 + 1, v6 |-> st.v6] ELSE st

\* Broken on purpose: a network that is discarded takes a number.
process_split_xxclude_CountsBad(st, kind, route) ==
  IF route.family = 6 THEN SplitIPv6(st, kind, route)
  ELSE IF Good4(route) THEN SplitLegacy(st, kind, route) ELSE [st EXCEPT !.v4 = @ + 1]

process_split_xxclude(st, kind, route) ==
  IF route.family = 6 THEN SplitIPv6(st, kind, route) ELSE SplitLegacy(st, kind, route)

\* All the routes of a kind, one after the other ...
Split(env, kind, routes) ==
  LET st[n \in 0 .. Len(routes)] ==
        IF n = 0 THEN [env |-> env, v4 |-> 0, v6 |-> 0]
        ELSE process_split_xxclude(st[n - 1], kind, routes[n])
  IN  st[Len(routes)]

\* ... and how many there are of each family.
SetCount(env, opt, n) == IF n > 0 THEN script_setenv(env, opt, <<n>>) ELSE env

SplitRoutes(env, kind, routes) ==
  LET st == Split(env, kind, routes)
  IN  SetCount(SetCount(st.env, <<kind, 4>>, st.v4), <<kind, 6>>, st.v6)

-----------------------------------------------------------------------------
(* prepare_script_env().                                                   *)

PutIf(cond, env, opt, val) == IF cond THEN script_setenv(env, opt, val) ELSE env

\* A list starts afresh with its first entry, NULL where that is not kept, and
\* the others are appended.
Chosen(list, kept) == SelectSeq(list, LAMBDA addr : addr \in kept)
PutList(env, opt, list, kept) == script_setenv(env, opt, Chosen(list, kept))

\* strcmp() gives 0 for equal: the address that is kept is 0.0.0.0.
KeptNbns == {Zero}
KeptDns(list) == {list[i] : i \in 1..Len(list)}

AddressOf(netmask6) == <<Head(netmask6)>>

Legacy(env, ip) ==
  LET addr == PutIf(ip.addr # None, env, <<"INTERNAL_IP4_ADDRESS">>, <<ip.addr>>)
  IN  PutIf(ip.addr # None /\ ip.netmask # None, addr, <<"INTERNAL_IP4_NETMASK">>, <<ip.netmask>>)

IPv6(env, ip) ==
  LET addr == PutIf(ip.addr6 # None, env, <<"INTERNAL_IP6_ADDRESS">>, <<ip.addr6>>)
      mask == PutIf(ip.netmask6 # <<>>, addr, <<"INTERNAL_IP6_NETMASK">>, ip.netmask6)
  IN  IF ip.netmask6 # <<>> /\ ip.addr6 = None
      THEN SetTruncated(mask, <<"INTERNAL_IP6_ADDRESS">>, AddressOf(ip.netmask6), ip.netmask6)
      ELSE mask

prepare_script_env(env, ip, pid) ==
  LET cleared == script_setenv(script_setenv(env, <<"IN", 4>>, Unset), <<"EX", 4>>, Unset)
      addrs   == IPv6(Legacy(script_setenv(cleared, <<"VPNPID">>, <<pid>>), ip), ip)
      lists   == PutList(PutList(addrs, <<"INTERNAL_IP4_DNS">>, ip.dns, KeptDns(ip.dns)),
                         <<"INTERNAL_IP4_NBNS">>, ip.nbns, KeptNbns)
  IN  SplitRoutes(SplitRoutes(lists, "IN", ip.includes), "EX", ip.excludes)

=============================================================================
