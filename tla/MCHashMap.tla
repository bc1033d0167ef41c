----------------------------- MODULE MCHashMap -----------------------------
(***************************************************************************)
(* Small instance of HashMap: a table of six places, and four keys with    *)
(* hash values 0, 5, 6 and 17.  In this table 5 and 17 have the last place *)
(* and continue in that of 0 and 6; in its double 6 follows 5 and 17, so   *)
(* that a rehash itself can find no place; in the next 17 is alone.        *)
(***************************************************************************)
EXTENDS HashMap, TLC

\* Init has every assignment of hash values to keys, so the keys are
\* interchangeable.
MCSymmetry == Permutations(Key)
=============================================================================
