--------------------------- MODULE MCInterKbLink ---------------------------
(***************************************************************************)
(* Instance of InterKbLink: the boards' two connection objects, one key on *)
(* the slave half, two notifications under way.                            *)
(***************************************************************************)
EXTENDS InterKbLink, InterKbProto, TLC

CONSTANTS c1, c2, k1

MCSlaveKeySet == {k1}
MCConns == {c1, c2}
MCTxBuffers == 2
=============================================================================
