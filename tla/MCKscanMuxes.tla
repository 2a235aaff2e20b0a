---------------------------- MODULE MCKscanMuxes ----------------------------
(***************************************************************************)
(* Two muxes of two select lines: one with three of its four channels in   *)
(* use and an enable line, one with a single channel and none.             *)
(***************************************************************************)
EXTENDS KscanMuxes

MCChannels == <<3, 1>>
MCHasEn == {1}
=============================================================================
