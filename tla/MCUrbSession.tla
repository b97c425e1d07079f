---------------------------- MODULE MCUrbSession ----------------------------
(* An import session with two URBs. *)
EXTENDS UrbSession

CONSTANTS s1, s2

TwoSeqnums == {s1, s2}
=============================================================================
