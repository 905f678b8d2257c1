------------------------------- MODULE Chains -------------------------------
(***************************************************************************)
(* Chains of scopes, as sequences of dictionaries: what the symbol table   *)
(* (symbol_table.c) computes, whatever its buckets look like.              *)
(***************************************************************************)
EXTENDS Naturals, Sequences

CONSTANTS
  Names,    \* the identifiers
  NoSymbol  \* NULL: the name is not defined

EmptyScope == [name \in Names |-> NoSymbol]
Push(chain, scope) == Append(chain, scope)
Pop(chain) == IF Len(chain) > 1 THEN SubSeq(chain, 1, Len(chain) - 1) ELSE chain

LookupLocal(chain, name) == chain[Len(chain)][name]

\* The scopes that define name, and what the innermost of them makes of it.
Defining(chain, name) == {k \in 1 .. Len(chain) : chain[k][name] # NoSymbol}
Innermost(chain, name) ==
  CHOOSE k \in Defining(chain, name) : \A j \in Defining(chain, name) : j <= k
Lookup(chain, name) ==
  IF Defining(chain, name) = {} THEN NoSymbol
  ELSE chain[Innermost(chain, name)][name]

\* Defining a name twice in a scope changes nothing.
Define(chain, name, symbol) ==
  IF LookupLocal(chain, name) # NoSymbol THEN chain
  ELSE [chain EXCEPT ![Len(chain)] = [@ EXCEPT ![name] = symbol]]
=============================================================================
