-------------------------------- MODULE MCBulb --------------------------------
(* The bulb and one more endpoint, two groups and a device, a binding table *)
(* of three entries; prints of up to three bytes, packets of two.           *)
EXTENDS Bulb, TLC

CONSTANTS e1, e2, groups, onoff, g1, g2, d
SymGroups == Permutations({g1, g2})
=============================================================================
