------------------------------- MODULE MCTun -------------------------------
(***************************************************************************)
(* Tun for TLC: more packets in one direction than the rings hold, or one  *)
(* each way.                                                               *)
(***************************************************************************)
EXTENDS Tun

MCLoads == {<<3, 0>>, <<0, 3>>, <<1, 1>>}
=============================================================================
