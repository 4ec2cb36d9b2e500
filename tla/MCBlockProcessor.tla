--------------------------- MODULE MCBlockProcessor ---------------------------
(* A small instance of BlockProcessor for TLC.                             *)
EXTENDS BlockProcessor, TLC
=============================================================================
