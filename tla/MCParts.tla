------------------------------ MODULE MCParts -------------------------------
(***************************************************************************)
(* Three small parts that share nothing, for TLC: the replay window of     *)
(* EspReplay, the one-time passwords of Hotp and the AnyConnect connection *)
(* of CstpConnect.  A behaviour is one of a single part, the others keep   *)
(* an initial state.                                                       *)
(***************************************************************************)
EXTENDS EspReplay, Hotp

CONSTANTS Paths, Mtus, MinBase, absolute_min, MaxTries, MaxConnects

VARIABLES
  part,
  options, path, cstp_pc, started, retried, cstp, dtls, dtls_need_reconnect, delay, tun,
  probe, net, answered, faulty, connects

C == INSTANCE CstpConnect WITH pc <- cstp_pc

ASSUME PartsAssumption == C!CstpAssumption

cstpVars ==
  <<options, path, cstp_pc, started, retried, cstp, dtls, dtls_need_reconnect, delay, tun,
    probe, net, answered, faulty, connects>>
partVars == <<part, vars, hotpVars, cstpVars>>

\* A part that is not looked at starts in one of its states.
MCInit ==
  /\ part \in {"esp", "hotp", "cstp"}
  /\ Init
  /\ HotpInit /\ (part # "hotp" => /\ setup.active = {} /\ setup.locking
                                   /\ setup.writable /\ setup.hmac)
  /\ C!Init /\ (part # "cstp" => ~options.v6 /\ ~options.psk /\ path.size = MinBase)

InEsp == part = "esp" /\ UNCHANGED <<part, hotpVars, cstpVars>>
InHotp == part = "hotp" /\ UNCHANGED <<part, vars, cstpVars>>
InCstp == part = "cstp" /\ UNCHANGED <<part, vars, hotpVars>>

MCNext == (InEsp /\ Next) \/ (InHotp /\ HotpNext) \/ (InCstp /\ C!Next)

MCSpec == MCInit /\ [][MCNext]_partVars
-----------------------------------------------------------------------------
\* The search for the MTU of DTLS ends with one that was answered in it, not only tried
\* (dtls.c:550), and with the largest that fits unless the network loses or delays
\* something (dtls.c:476).
MtuFound == C!MtuProven /\ C!BestFound
=============================================================================
