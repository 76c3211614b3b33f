------------------------------- MODULE MCTls -------------------------------
(***************************************************************************)
(* Tls for TLC: either the server and its certificates vary, or the client *)
(* certificate and its secrets do.  Between them they meet in one value,   *)
(* whether there are credentials.                                          *)
(***************************************************************************)
EXTENDS Tls

OneServer == [cafile |-> {}, system |-> Hosts \X PeerCerts, pins |-> {}, dyndns |-> FALSE]

MCInit ==
  /\ Init
  /\ \/ sources.cert = None /\ password = None /\ options.pins # PeerCerts
        /\ \E h \in Hosts, c \in PeerCerts :
             <<options.cafile, options.system>> \in
               {<<{}, {}>>, <<{<<h, c>>}, {}>>, <<{}, {<<h, c>>}>>}
     \/ sources.cert # None /\ options = OneServer

MCSpec == MCInit /\ [][Next]_vars
=============================================================================
