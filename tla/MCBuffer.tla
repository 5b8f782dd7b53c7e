------------------------------ MODULE MCBuffer ------------------------------
(* An instance of Buffer for TLC.                                          *)
EXTENDS Buffer

CONSTANTS x, y

Pieces == {<<x>>, <<EOL, y, x>>}
=============================================================================
