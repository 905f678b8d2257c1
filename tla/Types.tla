------------------------------- MODULE Types -------------------------------
(***************************************************************************)
(* The types of the language and the relations between them                *)
(* (src/types.h, src/types.c).  A type is a tree; two pointers to one node *)
(* are one tree, so the pointer comparisons of the code are shortcuts.     *)
(* Structs, variants, interfaces and error sets are known by their names.  *)
(***************************************************************************)
EXTENDS Naturals, Sequences

\* How deep a type nests that is made of types.  What is recursive in the code is a
\* recursive function of this depth here.
Above(types) ==
  IF types = {} THEN 0
  ELSE 1 + (CHOOSE t \in types : \A u \in types : u.height <= t.height).height

\* The constructors.  A function also has is_method, which no relation reads.
Primitive(name) == [kind |-> "PRIMITIVE", name |-> name, height |-> 0]
Pointer(inner) == [kind |-> "POINTER", inner |-> inner, height |-> Above({inner})]
Array(inner, size) ==
  [kind |-> "ARRAY", inner |-> inner, size |-> size, height |-> Above({inner})]
Tuple(elems) ==
  [kind |-> "TUPLE", elems |-> elems, height |-> Above({elems[i] : i \in DOMAIN elems})]
Function(params, ret, strategy) ==
  [kind |-> "FUNCTION", params |-> params, ret |-> ret, strategy |-> strategy,
   height |-> Above({ret} \cup {params[i] : i \in DOMAIN params})]
Fallible(inner) == [kind |-> "FALLIBLE", inner |-> inner, height |-> Above({inner})]
Named(kind, name) == [kind |-> kind, name |-> name, height |-> 0]

NamedKind == {"PRIMITIVE", "STRUCT", "VARIANT", "INTERFACE", "ERROR"}

\* Pending inference, and inference that failed and was reported (the poison).
Unknown == [kind |-> "UNKNOWN", height |-> 0]
InferError == [kind |-> "INFER_ERROR", height |-> 0]
Poison == {Unknown, InferError}

IsPrim(t, name) == t.kind = "PRIMITIVE" /\ t.name = name

\* type_is_resolved (typecheck.c)
ResolvedKnown(t) == t # Unknown   \* a mutant: the poison is a type like others
Resolved(t) == t \notin Poison

----------------------------------------------------------------------------
(* What types are made of.                                                 *)

Wrapping == {"POINTER", "ARRAY", "FALLIBLE"}

\* What is reached from x by at most n steps.
Reached(step(_), x, n) ==
  LET within[k \in 0 .. n] ==
        IF k = 0 THEN {x}
        ELSE LET before == within[k - 1] IN before \cup UNION {step(y) : y \in before}
  IN  within[n]

Inner(t) ==
  CASE t.kind \in Wrapping -> {t.inner}
    [] t.kind = "TUPLE" -> {t.elems[i] : i \in DOMAIN t.elems}
    [] t.kind = "FUNCTION" -> {t.ret} \cup {t.params[i] : i \in DOMAIN t.params}
    [] OTHER -> {}

\* A type and the types it is made of, however deep.
Parts(t) == Reached(Inner, t, t.height)
Holds(t, u) == u \in Parts(t)

----------------------------------------------------------------------------
(* The numbers.                                                            *)

\* numeric_types: bit_width; the float types, and the unsigned ones.
BitWidth ==
  [i8 |-> 8, i16 |-> 16, i32 |-> 32, i64 |-> 64, u8 |-> 8, u16 |-> 16,
   u32 |-> 32, u64 |-> 64, f32 |-> 32, f64 |-> 64, usize |-> 64]
FloatNames == {"f32", "f64"}
UnsignedNames == {"u8", "u16", "u32", "u64", "usize"}

\* get_numeric_info, and the predicates made of it
IsNumeric(t) == t.kind = "PRIMITIVE" /\ t.name \in DOMAIN BitWidth
IsFloat(t) == IsNumeric(t) /\ t.name \in FloatNames
IsInteger(t) == IsNumeric(t) /\ t.name \notin FloatNames
IsSignedInt(t) == IsInteger(t) /\ t.name \notin UnsignedNames

----------------------------------------------------------------------------
(* The relations.                                                          *)

\* What type_equals compares itself.  A type whose inference failed is like every
\* other.
Alike(pair) ==
  LET a == pair[1]
      b == pair[2] IN
  \/ InferError \in {a, b}
  \/ /\ a.kind = b.kind
     /\ a.kind \in NamedKind => a.name = b.name
     /\ a.kind = "ARRAY" => a.size = b.size
     /\ a.kind = "TUPLE" => Len(a.elems) = Len(b.elems)
     /\ a.kind = "FUNCTION" => a.strategy = b.strategy /\ Len(a.params) = Len(b.params)

\* The pairs it then calls itself for.
InnerPairs(pair) ==
  LET a == pair[1]
      b == pair[2] IN
  IF ~Alike(pair) \/ InferError \in {a, b} THEN {}
  ELSE CASE a.kind \in Wrapping -> {<<a.inner, b.inner>>}
         [] a.kind = "TUPLE" -> {<<a.elems[i], b.elems[i]>> : i \in DOMAIN a.elems}
         [] a.kind = "FUNCTION" ->
              {<<a.ret, b.ret>>} \cup {<<a.params[i], b.params[i]>> : i \in DOMAIN a.params}
         [] OTHER -> {}

\* type_equals
Equals(a, b) == \A pair \in Reached(InnerPairs, <<a, b>>, a.height) : Alike(pair)

\* What both other relations allow at the top: types not known yet, and
\* pointers to such.
Lenient(a, b) ==
  \/ {a, b} \cap Poison # {}
  \/ a.kind = "POINTER" /\ b.kind = "POINTER" /\ Unknown \in {a.inner, b.inner}

\* The types of literals go where literals may.
LiteralAdapts(target, source) ==
  \/ IsPrim(source, "i32") /\ IsInteger(target)
  \/ IsPrim(source, "f64") /\ IsPrim(target, "f32")

\* What type_is_assignable compares itself; and it calls itself for the type within a
\* fallible one.
AssignsTo(target, source) ==
  \/ Equals(target, source)
  \/ Lenient(target, source)
  \/ LiteralAdapts(target, source)
  \/ IsPrim(source, "Error")
Succeeding(t) == IF t.kind = "FALLIBLE" THEN {t.inner} ELSE {}

\* type_is_assignable
Assignable(target, source) ==
  \E t \in Reached(Succeeding, target, target.height) : AssignsTo(t, source)

\* type_is_comparable.  Next to the literal types any name that begins like
\* an integer's will do; of the names that denote primitives those are the
\* integers'.
ComparableLeft(a, b) ==   \* a mutant: only the right operand may be a literal
  \/ Equals(a, b)
  \/ Lenient(a, b)
  \/ LiteralAdapts(a, b)
Comparable(a, b) ==
  \/ Equals(a, b)
  \/ Lenient(a, b)
  \/ LiteralAdapts(a, b)
  \/ LiteralAdapts(b, a)
=============================================================================
