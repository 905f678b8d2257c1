------------------------------ MODULE MCArena ------------------------------
(***************************************************************************)
(* A small arena, in words of 8 bytes: the header takes three words, which *)
(* leaves data[] misaligned for the 16-byte alignment malloc gives the     *)
(* block, as on a 64-bit build.  A request of three words overruns a fresh *)
(* block that already holds something, and one with padding exceeds it.    *)
(***************************************************************************)
EXTENDS Arena

MCSizes == {2, 3}   \* arena_strdup asks for one byte more
MCAligns == {1, 2}
============================================================================
