----------------------------- MODULE MCRfbResize -----------------------------
(***************************************************************************)
(* Small instances of RfbResize for TLC: pixels of two units, a row of one *)
(* pixel and of two, and one of a pixel and a half, whose client size is   *)
(* rounded either way.                                                     *)
(***************************************************************************)
EXTENDS RfbResize

Row(units, pixels) == [box |-> <<units, 2>>, client |-> <<pixels, 1>>]

MCWindows == {Row(2, 1), Row(3, 1), Row(3, 2), Row(4, 2)}
MCSizes   == {<<1, 1>>, <<2, 1>>}
=============================================================================
