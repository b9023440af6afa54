---------------------------- MODULE MCBootloader ----------------------------
(* Bootloader with two or three images in slots of four sectors; one image *)
(* ends within a page, one needs every kind of erase.                      *)
EXTENDS Bootloader
CONSTANTS old, new, forged
ImageLengths == [v \in Images |-> CASE v = old -> 2 [] v = new -> 7 [] OTHER -> 3]
=============================================================================
