--------------------------- MODULE MCOSRelease ---------------------------
(***************************************************************************)
(* Instances of OSRelease for TLC: two files; the first has a content with *)
(* a support end and a malformed one, the second a plain one and one whose *)
(* support end is not a date.                                              *)
(***************************************************************************)
EXTENDS OSRelease

Broken == {<<1, 2>>}
WithDate == {<<1, 1>>, <<2, 2>>}
WithBadDate == {<<2, 2>>}
=============================================================================
