------------------------------ MODULE MCStrTab ------------------------------
(***************************************************************************)
(* Five strings in a table of two buckets, which doubles twice.  Three of  *)
(* them share the last of four buckets, so that probes wrap around; two of *)
(* these have the same hash, and doubling separates only the third.        *)
(***************************************************************************)
EXTENDS StrTab

CONSTANTS a, b, c, d, e

MCStr == {a, b, c, d, e}
MCHash == [s \in MCStr |-> CASE s = a -> 3 [] s = b -> 3 [] s = c -> 7
                             [] s = d -> 0 [] s = e -> 6]
=============================================================================
