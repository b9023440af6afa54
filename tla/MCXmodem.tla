------------------------------ MODULE MCXmodem ------------------------------
(* Xmodem with files of a few blocks.                                       *)
EXTENDS Xmodem
=============================================================================
