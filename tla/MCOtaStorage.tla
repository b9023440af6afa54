---------------------------- MODULE MCOtaStorage ----------------------------
(* OtaStorage on a bank of three pages of four bytes, two program units per *)
(* page, with blocks of every length up to a page.                          *)
EXTENDS OtaStorage
CONSTANTS v1
=============================================================================
