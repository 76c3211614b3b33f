------------------------------- MODULE MCCstp -------------------------------
(***************************************************************************)
(* CstpDtls for TLC with two choices of compression and rekeying: the      *)
(* constants of the cfg (deflate), and none with TLS rekeyed in place.     *)
(***************************************************************************)
EXTENDS CstpDtls

VARIABLE compressed   \* which of the two it is

mcVars == <<compressed, vars>>

P == INSTANCE CstpDtls WITH
  Packets <- Packets + 1, CstpCompr <- "none", DtlsCompr <- "none", SslRekey <- "ssl", DtlsRekey <- "none"

MCInit == compressed \in BOOLEAN /\ Init

MCNext ==
  /\ UNCHANGED compressed
  /\ \/ compressed /\ Next
     \/ ~compressed /\ P!Next

Plain(A) == ~compressed /\ A /\ UNCHANGED compressed

\* The fairness of CstpDtls, for the session without compression.
MCFairness ==
  /\ WF_mcVars(Plain(P!Next)) /\ WF_mcVars(Plain(P!TunDone))
  /\ SF_mcVars(Plain(P!TunReads)) /\ SF_mcVars(Plain(P!NothingDue))
  /\ SF_mcVars(Plain(P!WriteDone))
  /\ SF_mcVars(Plain(~owe_ssl_dpd_response /\ P!TcpReadsAll))
  /\ SF_mcVars(Plain(~owe_ssl_dpd_response /\ P!WriteDone))

MCSpec == MCInit /\ [][MCNext]_mcVars /\ MCFairness
-----------------------------------------------------------------------------
\* Without compression every packet is sent once the connections are left alone
\* (cstp.c:1199).
PlainAllSent == P!AllSent \/ [](compressed)
=============================================================================
