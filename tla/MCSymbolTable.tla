--------------------------- MODULE MCSymbolTable ---------------------------
(***************************************************************************)
(* Three names in tables of two buckets: two of them collide, and their    *)
(* hashes exceed the capacity.                                             *)
(***************************************************************************)
EXTENDS SymbolTable

CONSTANTS a, b, c, x, y

MCNames == {a, b, c}
MCSymbols == {x, y}
MCHash == [n \in MCNames |-> CASE n = a -> 3 [] n = b -> 5 [] n = c -> 2]
=============================================================================
