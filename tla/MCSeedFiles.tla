----------------------------- MODULE MCSeedFiles -----------------------------
(***************************************************************************)
(* SeedFiles for TLC: one card in the vault and one that is not, expiry    *)
(* dates and months around the end of a year.  The runs of the generator   *)
(* are interchangeable.                                                        *)
(***************************************************************************)
EXTENDS SeedFiles, TLC

MCVault == {"card"}

MCRequests ==
    [pan : {"card", "stranger"}, expiry : {<<11, 27>>, <<12, 27>>}, pin : Entry, cvv : Entry]

MCMonths == {[year |-> 2027, month |-> 12], [year |-> 2028, month |-> 1]}

Symmetry == Permutations(Generators)
=============================================================================
