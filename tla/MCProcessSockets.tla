------------------------- MODULE MCProcessSockets -------------------------
(***************************************************************************)
(* Two process ids, of which /proc lists the larger first, as their names  *)
(* sort; a socket in each table, both on one port.                         *)
(***************************************************************************)
EXTENDS ProcessSockets

CONSTANTS v4, v6

ByName == [p \in {9, 10} |-> IF p = 10 THEN 1 ELSE 2]
SamePort == [s \in {v4, v6} |-> "http"]
=============================================================================
