---------------------------- MODULE SymbolTable ----------------------------
(***************************************************************************)
(* The symbol table (src/symbol_table.c): a stack of hash tables of fixed  *)
(* size with chaining.  Names are interned pointers, so they are compared  *)
(* and hashed by identity; what a symbol says of its name is a member of   *)
(* Symbols.  Scopes live in the arena and are only unlinked by a pop.      *)
(***************************************************************************)
EXTENDS Naturals, Sequences, FiniteSets

CONSTANTS
  Names,
  Symbols,
  NoSymbol,
  INITIAL_CAPACITY,
  HashOf,     \* hash_ptr of each name
  MaxScopes   \* how deep scopes nest (bounds the model only)

ASSUME SymbolTableAssumption ==
  /\ NoSymbol \notin Symbols
  /\ INITIAL_CAPACITY \in Nat \ {0}
  /\ HashOf \in [Names -> Nat]
  /\ MaxScopes \in Nat

VARIABLES
  scopes,  \* st->current and its parents, the root first
  answer   \* what the last call returned

table_vars == <<scopes, answer>>

Buckets == 0 .. INITIAL_CAPACITY - 1
ScopeEntry == [name : Names, symbol : Symbols]
Scope == [buckets : [Buckets -> Seq(ScopeEntry)], count : Nat]

----------------------------------------------------------------------------
(* Helpers                                                                 *)

BucketOf(name) == HashOf[name] % INITIAL_CAPACITY

scope_new == [buckets |-> [k \in Buckets |-> <<>>], count |-> 0]
current == scopes[Len(scopes)]

\* The entries of a scope that a walk down name's chain compares equal.
SameNamed(scope, name) ==
  {i \in DOMAIN scope.buckets[BucketOf(name)] : scope.buckets[BucketOf(name)][i].name = name}

\* The first of them ends the walk.
FirstMatch(scope, name) ==
  CHOOSE i \in SameNamed(scope, name) : \A j \in SameNamed(scope, name) : i <= j
Found(scope, name) ==
  IF SameNamed(scope, name) = {} THEN NoSymbol
  ELSE scope.buckets[BucketOf(name)][FirstMatch(scope, name)].symbol

\* The scopes where the walk outwards finds name; it ends at the innermost.
OutwardsFromRoot(name) ==   \* a mutant: the walk goes the other way
  IF \A k \in 1 .. Len(scopes) : Found(scopes[k], name) = NoSymbol THEN 0
  ELSE CHOOSE k \in 1 .. Len(scopes) :
         /\ Found(scopes[k], name) # NoSymbol
         /\ \A j \in 1 .. k - 1 : Found(scopes[j], name) = NoSymbol
Outwards(name) ==
  IF \A k \in 1 .. Len(scopes) : Found(scopes[k], name) = NoSymbol THEN 0
  ELSE CHOOSE k \in 1 .. Len(scopes) :
         /\ Found(scopes[k], name) # NoSymbol
         /\ \A j \in k + 1 .. Len(scopes) : Found(scopes[j], name) = NoSymbol

\* A new entry goes in front of its chain.
WithEntry(scope, name, symbol) ==
  [buckets |-> [scope.buckets EXCEPT
                  ![BucketOf(name)] = <<[name |-> name, symbol |-> symbol]>> \o @],
   count |-> scope.count + 1]

----------------------------------------------------------------------------
(* Operations                                                              *)

symbol_table_init ==
  /\ scopes = <<scope_new>>
  /\ answer = NoSymbol

symbol_table_push ==
  /\ Len(scopes) < MaxScopes
  /\ scopes' = Append(scopes, scope_new)
  /\ answer' = NoSymbol

HasParentAlways == TRUE   \* a mutant: the root is left too
HasParent == Len(scopes) > 1

symbol_table_pop ==
  /\ scopes' = IF HasParent THEN SubSeq(scopes, 1, Len(scopes) - 1) ELSE scopes
  /\ answer' = NoSymbol

NotYet(name) == SameNamed(current, name) = {}

symbol_table_define(name, symbol) ==
  /\ answer' = NotYet(name)
  /\ scopes' = IF NotYet(name)
               THEN [scopes EXCEPT ![Len(scopes)] = WithEntry(current, name, symbol)]
               ELSE scopes

symbol_table_lookup(name) ==
  /\ answer' = IF Outwards(name) = 0 THEN NoSymbol ELSE Found(scopes[Outwards(name)], name)
  /\ UNCHANGED scopes

symbol_table_lookup_local(name) ==
  /\ answer' = Found(current, name)
  /\ UNCHANGED scopes

TableNext ==
  \/ symbol_table_push
  \/ symbol_table_pop
  \/ \E name \in Names :
       \/ \E symbol \in Symbols : symbol_table_define(name, symbol)
       \/ symbol_table_lookup(name)
       \/ symbol_table_lookup_local(name)

TableSpec == symbol_table_init /\ [][TableNext]_table_vars

----------------------------------------------------------------------------
(* Properties                                                              *)

\* Every variable has its type, and there is always a current scope: no
\* unmatched pop takes the root away.
TableTypeOK ==
  /\ scopes \in Seq(Scope)
  /\ Len(scopes) > 0
  /\ answer \in Symbols \cup {NoSymbol} \cup BOOLEAN

\* All entries of a scope: bucket and place in the chain.
Entries(scope) ==
  UNION {{<<k, i>> : i \in 1 .. Len(scope.buckets[k])} : k \in Buckets}

\* Every entry is in its name's chain and no name has two, whatever collides
\* with it and however often it was defined; count is the number of entries.
EntriesUnique ==
  \A m \in 1 .. Len(scopes) :
    /\ \A k \in Buckets : \A i \in 1 .. Len(scopes[m].buckets[k]) :
         /\ BucketOf(scopes[m].buckets[k][i].name) = k
         /\ \A j \in 1 .. Len(scopes[m].buckets[k]) :
              scopes[m].buckets[k][i].name = scopes[m].buckets[k][j].name => i = j
    /\ scopes[m].count = Cardinality(Entries(scopes[m]))

\* The stack of dictionaries the hash tables stand for.
Chain == [m \in 1 .. Len(scopes) |-> [name \in Names |-> Found(scopes[m], name)]]

Abstract == INSTANCE Scopes WITH chain <- Chain

\* The hash tables behave as the stack of dictionaries: first definition
\* kept, inner names hide outer ones, a pop forgets exactly one scope.
ImplementsScopes == Abstract!Spec
=============================================================================
