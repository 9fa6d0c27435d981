--------------------------------- MODULE MCListing ---------------------------------
(***************************************************************************)
(* Small instances of Listing for TLC.                                     *)
(***************************************************************************)
EXTENDS Listing, TLC

CONSTANT foreign   \* an account of another tenant

\* No limit, one below the default, and one above the maximum.
MCLimits == {0, 1, 9}

Symmetry == Permutations(Users \ {foreign})
================================================================================
