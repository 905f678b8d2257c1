----------------------------- MODULE InferProof -----------------------------
(***************************************************************************)
(* Proofs about the types of expressions, for any types as written, any    *)
(* literals and bodies of any size: that types are well formed and poison  *)
(* is reported, that errors do not cascade, that assignability composes    *)
(* and comparability does not depend on the order, and that the stacks of  *)
(* calls, types and scopes fit.                                            *)
(*                                                                         *)
(* What the code computes by recursion over a type is computed in rounds   *)
(* here, and a fact about it is proved by induction over the rounds.       *)
(***************************************************************************)
EXTENDS Infer, SequenceTheorems, FiniteSetTheorems, WellFoundedInduction, TLAPS

----------------------------------------------------------------------------
(* Numbers, and what is computed in rounds                                 *)

\* Every set of numbers has a least element.
LEMMA Least ==
  ASSUME NEW T \in SUBSET Nat, T # {}
  PROVE  \E k \in T : \A j \in T : k <= j
<1> DEFINE R == {ss \in Nat \X Nat : ss[1] < ss[2]}
<1>1. IsWellFoundedOn(R, Nat)
  BY NatLessThanWellFounded DEF OpToRel
<1>2. ASSUME NEW k \in Nat, NEW j \in Nat, <<j, k>> \notin R
      PROVE  k <= j
  <2>1. <<j, k>> \in Nat \X Nat /\ <<j, k>>[1] = j /\ <<j, k>>[2] = k
    OBVIOUS
  <2> QED
    BY <1>2, <2>1
<1> HIDE DEF R
<1>3. \E k \in T : \A j \in T : <<j, k>> \notin R
  BY <1>1, WFMin
<1> QED
  BY <1>2, <1>3

\* And a greatest one, when it is bounded.
LEMMA Greatest ==
  ASSUME NEW n \in Nat, NEW T \in SUBSET (1 .. n), T # {}
  PROVE  \E k \in T : \A j \in T : j <= k
<1> DEFINE U == {d \in Nat : \E k \in T : d = n - k}
<1>1. \A k \in T : k \in 1 .. n /\ n - k \in Nat /\ n - k \in U
  OBVIOUS
<1>2. U # {}
  BY <1>1
<1>3. \E u \in U : \A y \in U : u <= y
  <2> HIDE DEF U
  <2> QED
    BY <1>2, Least DEF U
<1>4. PICK k \in T : \A y \in U : n - k <= y
  BY <1>3
<1>5. \A j \in T : n - k <= n - j
  BY <1>1, <1>4
<1> QED
  BY <1>1, <1>5

\* Induction up to n, for the members of a set.
LEMMA UpTo ==
  ASSUME NEW n \in Nat, NEW T, 0 \in T, \A k \in 1 .. n : k - 1 \in T => k \in T
  PROVE  0 .. n \subseteq T
<1> DEFINE U == {k \in 0 .. n : k \notin T}
<1>1. SUFFICES ASSUME U # {} PROVE FALSE
  OBVIOUS
<1>2. PICK k \in U : \A j \in U : k <= j
  <2>1. U \in SUBSET Nat
    OBVIOUS
  <2> HIDE DEF U
  <2> QED
    BY <1>1, <2>1, Least
<1>3. k \in 1 .. n /\ k - 1 \in 0 .. n
  BY <1>2
<1>4. k - 1 \in T
  BY <1>2, <1>3
<1> QED
  BY <1>2, <1>3, <1>4

\* What a loop makes of x, round by round.
Rounds(f, n, x, step) == f[0] = x /\ \A k \in 1 .. n : f[k] = step[k][f[k - 1]]

\* A computation in rounds exists, and so what is defined by one is what it says.
LEMMA RoundsExist ==
  ASSUME NEW n \in Nat, NEW S, NEW x \in S, NEW step \in [1 .. n -> [S -> S]]
  PROVE  \E f \in [0 .. n -> S] : Rounds(f, n, x, step)
<1> DEFINE T == {m \in 0 .. n : \E f \in [0 .. n -> S] : Rounds(f, m, x, step)}
<1>1. 0 \in T
  <2>1. [k \in 0 .. n |-> x] \in [0 .. n -> S] /\ Rounds([k \in 0 .. n |-> x], 0, x, step)
    BY DEF Rounds
  <2> QED
    BY <2>1
<1>2. ASSUME NEW m \in 1 .. n, m - 1 \in T
      PROVE  m \in T
  <2>1. PICK f \in [0 .. n -> S] : Rounds(f, m - 1, x, step)
    BY <1>2
  <2>2. m \in 0 .. n /\ m - 1 \in 0 .. n /\ m # 0 /\ f[m - 1] \in S
    OBVIOUS
  <2> DEFINE g == [f EXCEPT ![m] = step[m][f[m - 1]]]
  <2>3. g \in [0 .. n -> S] /\ g[0] = x /\ g[m] = step[m][f[m - 1]]
    BY <2>1, <2>2 DEF Rounds
  <2>4. \A k \in 0 .. n : k # m => g[k] = f[k]
    BY <2>2
  <2> HIDE DEF g
  <2>5. ASSUME NEW k \in 1 .. m
        PROVE  g[k] = step[k][g[k - 1]]
    <3>1. k - 1 \in 0 .. n /\ k - 1 # m /\ g[k - 1] = f[k - 1]
      BY <2>2, <2>4
    <3>2. k # m => k \in 1 .. m - 1 /\ k \in 0 .. n /\ g[k] = f[k]
      BY <2>2, <2>4
    <3> QED
      BY <2>1, <2>3, <3>1, <3>2 DEF Rounds
  <2>6. Rounds(g, m, x, step)
    BY <2>3, <2>5 DEF Rounds
  <2> QED
    BY <2>2, <2>3, <2>6
<1>3. n \in T
  <2>1. 0 .. n \subseteq T
    <3> HIDE DEF T
    <3> QED
      BY <1>1, <1>2, UpTo
  <2>2. n \in 0 .. n
    OBVIOUS
  <2> HIDE DEF T
  <2> QED
    BY <2>1, <2>2
<1> QED
  BY <1>3

\* Two functions that agree at 0 and from each number to the next agree up to n.
Agreeing(f, g, n) == f[0] = g[0] /\ \A k \in 1 .. n : f[k - 1] = g[k - 1] => f[k] = g[k]

\* Two computations that begin alike and go on alike end alike.
LEMMA RoundsAgree ==
  ASSUME NEW n \in Nat, NEW f, NEW g, Agreeing(f, g, n)
  PROVE  f[n] = g[n]
<1> DEFINE T == {k \in 0 .. n : f[k] = g[k]}
<1>1. 0 \in T /\ \A k \in 1 .. n : k - 1 \in T => k \in T
  BY DEF Agreeing
<1>2. 0 .. n \subseteq T
  <2> HIDE DEF T
  <2> QED
    BY <1>1, UpTo
<1> QED
  BY <1>2


----------------------------------------------------------------------------
(* What is reached by steps within a set                                   *)

\* w[k] is what at most k steps from x reach.
ReachedBy(w, n, X, x, step) ==
  /\ n \in Nat /\ x \in X /\ step \in [X -> SUBSET X]
  /\ w \in [0 .. n -> SUBSET X]
  /\ w[0] = {x}
  /\ \A k \in 1 .. n : w[k] = w[k - 1] \cup UNION {step[y] : y \in w[k - 1]}
Keeps(Z, X, step) == \A y \in Z \cap X : step[y] \subseteq Z
Descends(X, step, height) ==
  /\ height \in [X -> Nat]
  /\ \A y \in X : \A z \in step[y] : height[z] < height[y]

\* What is reached in n rounds exists.
LEMMA ReachedByExists ==
  ASSUME NEW n \in Nat, NEW X, NEW x \in X, NEW step \in [X -> SUBSET X]
  PROVE  \E w : ReachedBy(w, n, X, x, step)
<1> DEFINE wider == [k \in 1 .. n |-> [Y \in SUBSET X |-> Y \cup UNION {step[y] : y \in Y}]]
<1>1. wider \in [1 .. n -> [SUBSET X -> SUBSET X]]
  <2>1. ASSUME NEW Y \in SUBSET X
        PROVE  Y \cup UNION {step[y] : y \in Y} \in SUBSET X
    OBVIOUS
  <2> QED
    BY <2>1
<1>2. {x} \in SUBSET X
  OBVIOUS
<1>3. \A k \in 1 .. n, Y \in SUBSET X : wider[k][Y] = Y \cup UNION {step[y] : y \in Y}
  OBVIOUS
<1> HIDE DEF wider
<1>4. PICK w \in [0 .. n -> SUBSET X] : Rounds(w, n, {x}, wider)
  BY <1>1, <1>2, RoundsExist
<1>5. \A k \in 1 .. n : w[k - 1] \in SUBSET X
  OBVIOUS
<1> QED
  BY <1>3, <1>4, <1>5 DEF Rounds, ReachedBy

\* It is in every set that no step leaves.
LEMMA ReachedByLeast ==
  ASSUME NEW w, NEW n, NEW X, NEW x, NEW step, ReachedBy(w, n, X, x, step),
         NEW Z, x \in Z, Keeps(Z, X, step)
  PROVE  w[n] \subseteq Z
<1> DEFINE T == {k \in 0 .. n : w[k] \subseteq Z}
<1>1. 0 \in T
  BY DEF ReachedBy
<1>2. ASSUME NEW k \in 1 .. n, k - 1 \in T
      PROVE  k \in T
  <2>1. w[k - 1] \subseteq Z \cap X
    BY <1>2 DEF ReachedBy
  <2>2. \A y \in w[k - 1] : step[y] \subseteq Z
    BY <2>1 DEF Keeps
  <2> QED
    BY <2>1, <2>2 DEF ReachedBy
<1>3. 0 .. n \subseteq T
  <2>1. n \in Nat
    BY DEF ReachedBy
  <2> HIDE DEF T
  <2> QED
    BY <1>1, <1>2, <2>1, UpTo
<1> QED
  BY <1>3 DEF ReachedBy

\* And no step leaves it, if each step goes down and there were enough of them.
LEMMA ReachedByClosed ==
  ASSUME NEW w, NEW n, NEW X, NEW x, NEW step, ReachedBy(w, n, X, x, step),
         NEW height, Descends(X, step, height), height[x] <= n
  PROVE  x \in w[n] /\ w[n] \subseteq X /\ Keeps(w[n], X, step)
<1> DEFINE Done(k) == /\ x \in w[k]
                      /\ \A y \in w[k] : step[y] \subseteq w[k] \/ height[y] + k <= n
           T == {k \in 0 .. n : Done(k)}
<1>0. n \in Nat /\ x \in X /\ step \in [X -> SUBSET X] /\ height \in [X -> Nat]
      /\ w \in [0 .. n -> SUBSET X]
  BY DEF ReachedBy, Descends
<1>1. 0 \in T
  BY <1>0 DEF ReachedBy
<1>2. ASSUME NEW k \in 1 .. n, k - 1 \in T
      PROVE  k \in T
  <2>1. /\ k - 1 \in 0 .. n
        /\ Done(k - 1)
        /\ w[k - 1] \in SUBSET X /\ w[k] \in SUBSET X
        /\ w[k] = w[k - 1] \cup UNION {step[y] : y \in w[k - 1]}
    BY <1>0, <1>2 DEF ReachedBy
  <2>2. ASSUME NEW y \in w[k]
        PROVE  step[y] \subseteq w[k] \/ height[y] + k <= n
    <3>1. CASE y \in w[k - 1]
      BY <2>1, <3>1
    <3>2. CASE y \notin w[k - 1]
      <4>1. PICK z \in w[k - 1] : y \in step[z]
        BY <2>1, <3>2
      <4>2. ~ step[z] \subseteq w[k - 1]
        BY <3>2, <4>1
      <4>3. height[z] + (k - 1) <= n
        BY <2>1, <4>2
      <4>4. y \in X /\ z \in X /\ height[y] < height[z] /\ height[y] \in Nat /\ height[z] \in Nat
        BY <1>0, <2>1, <4>1 DEF Descends
      <4> QED
        BY <1>0, <4>3, <4>4
    <3> QED
      BY <3>1, <3>2
  <2> QED
    BY <2>1, <2>2
<1>3. 0 .. n \subseteq T
  <2> HIDE DEF T
  <2> QED
    BY <1>0, <1>1, <1>2, UpTo
<1>4. Done(n) /\ w[n] \subseteq X
  BY <1>0, <1>3
<1>5. ASSUME NEW y \in w[n]
      PROVE  step[y] \subseteq w[n]
  <2>1. CASE height[y] + n <= n
    <3>1. y \in X /\ height[y] \in Nat /\ step[y] \in SUBSET X
      BY <1>0, <1>4
    <3>2. \A z \in step[y] : z \in X /\ height[z] \in Nat /\ height[z] < height[y]
      BY <1>0, <3>1 DEF Descends
    <3> QED
      BY <1>0, <2>1, <3>1, <3>2
  <2> QED
    BY <1>4, <2>1
<1> QED
  BY <1>4, <1>5 DEF Keeps

\* Reached, of the three operators it is used with: what is reached is what rounds
\* of the step as a function reach.
LEMMA InnerReached ==
  ASSUME NEW n \in Nat, NEW X, NEW x \in X, \A y \in X : Inner(y) \subseteq X
  PROVE  \E w : ReachedBy(w, n, X, x, [y \in X |-> Inner(y)]) /\ Reached(Inner, x, n) = w[n]
<1> DEFINE step == [y \in X |-> Inner(y)]
           Round(f, k) == IF k = 0 THEN {x}
                          ELSE LET before == f[k - 1] IN before \cup UNION {Inner(y) : y \in before}
           within == CHOOSE f : f = [k \in 0 .. n |-> Round(f, k)]
<1>1. step \in [X -> SUBSET X] /\ \A y \in X : step[y] = Inner(y)
  OBVIOUS
<1> HIDE DEF step, Round, within
<1>2. PICK w : ReachedBy(w, n, X, x, step)
  BY <1>1, ReachedByExists
<1>3. ASSUME NEW k \in 1 .. n
      PROVE  k # 0 /\ w[k] = w[k - 1] \cup UNION {Inner(y) : y \in w[k - 1]}
  <2>1. k - 1 \in 0 .. n /\ w[k - 1] \in SUBSET X
    BY <1>2 DEF ReachedBy
  <2>2. {step[y] : y \in w[k - 1]} = {Inner(y) : y \in w[k - 1]}
    BY <1>1, <2>1
  <2>3. w[k] = w[k - 1] \cup UNION {step[y] : y \in w[k - 1]}
    BY <1>2 DEF ReachedBy
  <2>4. k # 0
    OBVIOUS
  <2> QED
    BY <2>2, <2>3, <2>4, Zenon
<1>4. w = [k \in 0 .. n |-> Round(w, k)]
  <2>1. DOMAIN w = 0 .. n /\ w = [k \in DOMAIN w |-> w[k]] /\ w[0] = {x}
    BY <1>2 DEF ReachedBy
  <2> QED
    BY <1>3, <2>1 DEF Round
<1>5. within = [k \in 0 .. n |-> Round(within, k)]
  BY <1>4 DEF within
<1>6. Agreeing(within, w, n)
  <2>1. within[0] = w[0]
    BY <1>2, <1>5 DEF Round, ReachedBy
  <2>2. ASSUME NEW k \in 1 .. n, within[k - 1] = w[k - 1]
        PROVE  within[k] = w[k]
    <3>1. k \in 0 .. n /\ within[k] = Round(within, k)
      BY <1>5
    <3>2. Round(within, k) = within[k - 1] \cup UNION {Inner(y) : y \in within[k - 1]}
      BY <1>3 DEF Round
    <3> QED
      BY <1>3, <2>2, <3>1, <3>2
  <2> QED
    BY <2>1, <2>2 DEF Agreeing
<1>7. within[n] = w[n]
  BY <1>6, RoundsAgree
<1> QED
  BY <1>2, <1>7 DEF within, Round, step, Reached

LEMMA InnerPairsReached ==
  ASSUME NEW n \in Nat, NEW X, NEW x \in X, \A y \in X : InnerPairs(y) \subseteq X
  PROVE  \E w : ReachedBy(w, n, X, x, [y \in X |-> InnerPairs(y)]) /\ Reached(InnerPairs, x, n) = w[n]
<1> DEFINE step == [y \in X |-> InnerPairs(y)]
           Round(f, k) == IF k = 0 THEN {x}
                          ELSE LET before == f[k - 1] IN before \cup UNION {InnerPairs(y) : y \in before}
           within == CHOOSE f : f = [k \in 0 .. n |-> Round(f, k)]
<1>1. step \in [X -> SUBSET X] /\ \A y \in X : step[y] = InnerPairs(y)
  OBVIOUS
<1> HIDE DEF step, Round, within
<1>2. PICK w : ReachedBy(w, n, X, x, step)
  BY <1>1, ReachedByExists
<1>3. ASSUME NEW k \in 1 .. n
      PROVE  k # 0 /\ w[k] = w[k - 1] \cup UNION {InnerPairs(y) : y \in w[k - 1]}
  <2>1. k - 1 \in 0 .. n /\ w[k - 1] \in SUBSET X
    BY <1>2 DEF ReachedBy
  <2>2. {step[y] : y \in w[k - 1]} = {InnerPairs(y) : y \in w[k - 1]}
    BY <1>1, <2>1
  <2>3. w[k] = w[k - 1] \cup UNION {step[y] : y \in w[k - 1]}
    BY <1>2 DEF ReachedBy
  <2>4. k # 0
    OBVIOUS
  <2> QED
    BY <2>2, <2>3, <2>4, Zenon
<1>4. w = [k \in 0 .. n |-> Round(w, k)]
  <2>1. DOMAIN w = 0 .. n /\ w = [k \in DOMAIN w |-> w[k]] /\ w[0] = {x}
    BY <1>2 DEF ReachedBy
  <2> QED
    BY <1>3, <2>1 DEF Round
<1>5. within = [k \in 0 .. n |-> Round(within, k)]
  BY <1>4 DEF within
<1>6. Agreeing(within, w, n)
  <2>1. within[0] = w[0]
    BY <1>2, <1>5 DEF Round, ReachedBy
  <2>2. ASSUME NEW k \in 1 .. n, within[k - 1] = w[k - 1]
        PROVE  within[k] = w[k]
    <3>1. k \in 0 .. n /\ within[k] = Round(within, k)
      BY <1>5
    <3>2. Round(within, k) = within[k - 1] \cup UNION {InnerPairs(y) : y \in within[k - 1]}
      BY <1>3 DEF Round
    <3> QED
      BY <1>3, <2>2, <3>1, <3>2
  <2> QED
    BY <2>1, <2>2 DEF Agreeing
<1>7. within[n] = w[n]
  BY <1>6, RoundsAgree
<1> QED
  BY <1>2, <1>7 DEF within, Round, step, Reached

LEMMA SucceedingReached ==
  ASSUME NEW n \in Nat, NEW X, NEW x \in X, \A y \in X : Succeeding(y) \subseteq X
  PROVE  \E w : ReachedBy(w, n, X, x, [y \in X |-> Succeeding(y)]) /\ Reached(Succeeding, x, n) = w[n]
<1> DEFINE step == [y \in X |-> Succeeding(y)]
           Round(f, k) == IF k = 0 THEN {x}
                          ELSE LET before == f[k - 1] IN before \cup UNION {Succeeding(y) : y \in before}
           within == CHOOSE f : f = [k \in 0 .. n |-> Round(f, k)]
<1>1. step \in [X -> SUBSET X] /\ \A y \in X : step[y] = Succeeding(y)
  OBVIOUS
<1> HIDE DEF step, Round, within
<1>2. PICK w : ReachedBy(w, n, X, x, step)
  BY <1>1, ReachedByExists
<1>3. ASSUME NEW k \in 1 .. n
      PROVE  k # 0 /\ w[k] = w[k - 1] \cup UNION {Succeeding(y) : y \in w[k - 1]}
  <2>1. k - 1 \in 0 .. n /\ w[k - 1] \in SUBSET X
    BY <1>2 DEF ReachedBy
  <2>2. {step[y] : y \in w[k - 1]} = {Succeeding(y) : y \in w[k - 1]}
    BY <1>1, <2>1
  <2>3. w[k] = w[k - 1] \cup UNION {step[y] : y \in w[k - 1]}
    BY <1>2 DEF ReachedBy
  <2>4. k # 0
    OBVIOUS
  <2> QED
    BY <2>2, <2>3, <2>4, Zenon
<1>4. w = [k \in 0 .. n |-> Round(w, k)]
  <2>1. DOMAIN w = 0 .. n /\ w = [k \in DOMAIN w |-> w[k]] /\ w[0] = {x}
    BY <1>2 DEF ReachedBy
  <2> QED
    BY <1>3, <2>1 DEF Round
<1>5. within = [k \in 0 .. n |-> Round(within, k)]
  BY <1>4 DEF within
<1>6. Agreeing(within, w, n)
  <2>1. within[0] = w[0]
    BY <1>2, <1>5 DEF Round, ReachedBy
  <2>2. ASSUME NEW k \in 1 .. n, within[k - 1] = w[k - 1]
        PROVE  within[k] = w[k]
    <3>1. k \in 0 .. n /\ within[k] = Round(within, k)
      BY <1>5
    <3>2. Round(within, k) = within[k - 1] \cup UNION {Succeeding(y) : y \in within[k - 1]}
      BY <1>3 DEF Round
    <3> QED
      BY <1>3, <2>2, <3>1, <3>2
  <2> QED
    BY <2>1, <2>2 DEF Agreeing
<1>7. within[n] = w[n]
  BY <1>6, RoundsAgree
<1> QED
  BY <1>2, <1>7 DEF within, Round, step, Reached

----------------------------------------------------------------------------
(* The shapes of types                                                     *)

\* How deep a type of one or two others is.
LEMMA AboveOne ==
  ASSUME NEW t, t.height \in Nat
  PROVE  Above({t}) = 1 + t.height
<1> DEFINE top == CHOOSE x \in {t} : \A y \in {t} : y.height <= x.height
<1>1. \E x \in {t} : \A y \in {t} : y.height <= x.height
  OBVIOUS
<1>2. top = t
  BY <1>1
<1> QED
  BY <1>2 DEF Above

LEMMA AbovePair ==
  ASSUME NEW t, NEW u, t.height \in Nat, u.height \in Nat
  PROVE  Above({t, u}) \in Nat /\ t.height < Above({t, u}) /\ u.height < Above({t, u})
<1> DEFINE top == CHOOSE x \in {t, u} : \A y \in {t, u} : y.height <= x.height
<1>1. \E x \in {t, u} : \A y \in {t, u} : y.height <= x.height
  OBVIOUS
<1>2. top \in {t, u} /\ \A y \in {t, u} : y.height <= top.height
  BY <1>1
<1>3. Above({t, u}) = 1 + top.height
  BY DEF Above
<1> HIDE DEF top
<1> QED
  BY <1>2, <1>3

\* A type made of another.
Wraps(u, v) == u = Pointer(v) \/ (\E n : u = Array(v, n)) \/ u = Fallible(v)
\* A type made of two.
Pairs(u, v, w) == u = Tuple(<<v, w>>)
\* A type made of no other.
Leaf(u) == u \in Poison \/ \E name \in PrimitiveNames : u = Primitive(name)

\* A set of types with what they are made of, none of which is poison without an error.
TypeSet(X, error) ==
  \A u \in X :
    /\ u.height \in Nat
    /\ u = InferError => error
    /\ \/ Leaf(u)
       \/ \E v \in X : Wraps(u, v)
       \/ \E v \in X, w \in X : Pairs(u, v, w)

\* What the three shapes of a type have.
LEMMA LeafFacts ==
  ASSUME NEW u, Leaf(u)
  PROVE  /\ u.kind \in {"UNKNOWN", "INFER_ERROR", "PRIMITIVE"}
         /\ u.height = 0
         /\ Inner(u) = {}
         /\ u.kind = "UNKNOWN" => u = Unknown
         /\ u.kind = "INFER_ERROR" => u = InferError
         /\ u.kind = "PRIMITIVE" => u.name \in PrimitiveNames /\ u = Primitive(u.name)
  BY DEF Leaf, Poison, Unknown, InferError, Primitive, Inner, Wrapping

LEMMA WrapsFacts ==
  ASSUME NEW u, NEW v, Wraps(u, v), v.height \in Nat
  PROVE  /\ u.kind \in Wrapping
         /\ u.inner = v
         /\ u.height = v.height + 1
         /\ Inner(u) = {v}
<1>1. Above({v}) = 1 + v.height
  BY AboveOne
<1>2. CASE u = Pointer(v)
  BY <1>1, <1>2 DEF Pointer, Wrapping, Inner
<1>3. CASE \E n : u = Array(v, n)
  <2>1. PICK n : u = Array(v, n)
    BY <1>3
  <2> QED
    BY <1>1, <2>1 DEF Array, Wrapping, Inner
<1>4. CASE u = Fallible(v)
  BY <1>1, <1>4 DEF Fallible, Wrapping, Inner
<1> QED
  BY <1>2, <1>3, <1>4 DEF Wraps

LEMMA TupleFacts ==
  ASSUME NEW u, NEW v, NEW w, Pairs(u, v, w), v.height \in Nat, w.height \in Nat
  PROVE  /\ u.kind = "TUPLE"
         /\ u.elems = <<v, w>> /\ DOMAIN u.elems = {1, 2} /\ Len(u.elems) = 2
         /\ u.elems[1] = v /\ u.elems[2] = w
         /\ u.height \in Nat /\ v.height < u.height /\ w.height < u.height
         /\ u.height = Above({v, w})
         /\ Inner(u) = {v, w}
<1> DEFINE elems == <<v, w>>
<1>1. DOMAIN elems = {1, 2} /\ elems[1] = v /\ elems[2] = w /\ Len(elems) = 2
  OBVIOUS
<1>2. {elems[i] : i \in DOMAIN elems} = {v, w}
  BY <1>1
<1> HIDE DEF elems
<1>3. u.kind = "TUPLE" /\ u.elems = elems /\ u.height = Above({elems[i] : i \in DOMAIN elems})
  BY DEF elems, Tuple, Pairs
<1>4. Inner(u) = {u.elems[i] : i \in DOMAIN u.elems}
  BY <1>3 DEF Inner, Wrapping
<1>5. Inner(u) = {v, w}
  BY <1>2, <1>3, <1>4
<1>6. u.height = Above({v, w})
  BY <1>2, <1>3
<1> QED
  BY <1>1, <1>3, <1>5, <1>6, AbovePair DEF elems

\* What a type of such a set is made of is in the set too, and less deep.
LEMMA TypeSetFacts ==
  ASSUME NEW X, NEW error, TypeSet(X, error), NEW u \in X
  PROVE  /\ u.height \in Nat
         /\ Inner(u) \subseteq X
         /\ \A v \in Inner(u) : v.height < u.height
<1>1. CASE Leaf(u)
  BY <1>1, LeafFacts DEF TypeSet
<1>2. CASE \E v \in X : Wraps(u, v)
  <2>1. PICK v \in X : Wraps(u, v)
    BY <1>2
  <2>2. v.height \in Nat
    BY DEF TypeSet
  <2> QED
    BY <2>1, <2>2, WrapsFacts
<1>3. CASE \E v \in X, w \in X : Pairs(u, v, w)
  <2>1. PICK v \in X, w \in X : Pairs(u, v, w)
    BY <1>3
  <2>2. v.height \in Nat /\ w.height \in Nat
    BY DEF TypeSet
  <2>3. u.height \in Nat /\ v.height < u.height /\ w.height < u.height /\ Inner(u) = {v, w}
    BY <2>1, <2>2, TupleFacts
  <2> QED
    BY <2>3
<1> QED
  BY <1>1, <1>2, <1>3 DEF TypeSet

----------------------------------------------------------------------------
(* The parts of a type                                                     *)

\* Parts(t) is the least set that has t and, with a type, what that is made of.
LEMMA PartsLeast ==
  ASSUME NEW X, NEW error, TypeSet(X, error), NEW t \in X, NEW Z, t \in Z,
         \A y \in Z \cap X : Inner(y) \subseteq Z
  PROVE  Parts(t) \subseteq Z
<1> DEFINE step == [y \in X |-> Inner(y)]
<1>1. t.height \in Nat /\ \A y \in X : Inner(y) \subseteq X
  BY TypeSetFacts
<1>2. PICK w : ReachedBy(w, t.height, X, t, step) /\ Reached(Inner, t, t.height) = w[t.height]
  BY <1>1, InnerReached
<1>3. Keeps(Z, X, step)
  BY DEF Keeps
<1> HIDE DEF step
<1> QED
  BY <1>2, <1>3, ReachedByLeast DEF Parts

\* That set is such a set.
LEMMA PartsClosed ==
  ASSUME NEW X, NEW error, TypeSet(X, error), NEW t \in X
  PROVE  /\ t \in Parts(t)
         /\ Parts(t) \subseteq X
         /\ \A y \in Parts(t) : Inner(y) \subseteq Parts(t)
<1> DEFINE step == [y \in X |-> Inner(y)]
           height == [y \in X |-> y.height]
<1>1. t.height \in Nat /\ \A y \in X : Inner(y) \subseteq X
  BY TypeSetFacts
<1>2. PICK w : ReachedBy(w, t.height, X, t, step) /\ Reached(Inner, t, t.height) = w[t.height]
  BY <1>1, InnerReached
<1>3. /\ \A y \in X : step[y] = Inner(y)
      /\ height \in [X -> Nat] /\ \A y \in X : height[y] = y.height
  BY <1>1, TypeSetFacts
<1>4. Descends(X, step, height) /\ height[t] <= t.height
  <2>1. \A y \in X : \A z \in Inner(y) : z \in X /\ z.height < y.height
    BY <1>1, TypeSetFacts
  <2> HIDE DEF step, height
  <2> QED
    BY <1>1, <1>3, <2>1 DEF Descends
<1> HIDE DEF step, height
<1>5. t \in w[t.height] /\ w[t.height] \subseteq X /\ Keeps(w[t.height], X, step)
  BY <1>2, <1>4, ReachedByClosed
<1> QED
  BY <1>2, <1>3, <1>5 DEF Parts, Keeps

\* A type with all that it is made of.
Good(t, error) == \E X : t \in X /\ TypeSet(X, error)

\* Types stay good when an error is reported later, and what the constructors
\* make of them is good.
LEMMA GoodMore ==
  ASSUME NEW t, NEW error, NEW later, Good(t, error), error => later
  PROVE  Good(t, later)
<1>1. PICK X : t \in X /\ TypeSet(X, error)
  BY DEF Good
<1>2. TypeSet(X, later)
  BY <1>1 DEF TypeSet
<1> QED
  BY <1>1, <1>2 DEF Good

LEMMA GoodLeaf ==
  ASSUME NEW t, NEW error, Leaf(t), t = InferError => error
  PROVE  Good(t, error)
<1>1. TypeSet({t}, error)
  BY LeafFacts DEF TypeSet
<1> QED
  BY <1>1 DEF Good

LEMMA GoodWraps ==
  ASSUME NEW t, NEW error, NEW v, Good(v, error), Wraps(t, v)
  PROVE  Good(t, error)
<1>1. PICK X : v \in X /\ TypeSet(X, error)
  BY DEF Good
<1>2. v.height \in Nat
  BY <1>1 DEF TypeSet
<1>3. t.kind \in Wrapping /\ t.height = v.height + 1
  BY <1>2, WrapsFacts
<1>4. t # InferError
  BY <1>3 DEF InferError, Wrapping
<1>5. TypeSet(X \cup {t}, error)
  BY <1>1, <1>2, <1>3, <1>4 DEF TypeSet
<1> QED
  BY <1>5 DEF Good

LEMMA GoodTuple ==
  ASSUME NEW t, NEW error, NEW v, NEW w, Good(v, error), Good(w, error), Pairs(t, v, w)
  PROVE  Good(t, error)
<1>1. PICK X : v \in X /\ TypeSet(X, error)
  BY DEF Good
<1>2. PICK Y : w \in Y /\ TypeSet(Y, error)
  BY DEF Good
<1>3. v.height \in Nat /\ w.height \in Nat
  BY <1>1, <1>2 DEF TypeSet
<1>4. t.kind = "TUPLE" /\ t.height \in Nat
  BY <1>3, TupleFacts
<1>5. t # InferError
  BY <1>4 DEF InferError
<1>6. TypeSet(X \cup Y \cup {t}, error)
  BY <1>1, <1>2, <1>4, <1>5 DEF TypeSet
<1> QED
  BY <1>6 DEF Good

\* What a type is.
LEMMA GoodCases ==
  ASSUME NEW t, NEW error, Good(t, error)
  PROVE  /\ t.height \in Nat
         /\ t = InferError => error
         /\ \/ Leaf(t)
            \/ \E v : Good(v, error) /\ Wraps(t, v)
            \/ \E v, w : Good(v, error) /\ Good(w, error) /\ Pairs(t, v, w)
  BY DEF Good, TypeSet

\* By its kind.
LEMMA GoodKinds ==
  ASSUME NEW t, NEW error, Good(t, error)
  PROVE  /\ t.kind \in {"UNKNOWN", "INFER_ERROR", "PRIMITIVE", "TUPLE"} \cup Wrapping
         /\ t.kind = "UNKNOWN" => t = Unknown
         /\ t.kind = "INFER_ERROR" => t = InferError
         /\ t.kind = "PRIMITIVE" => t.name \in PrimitiveNames /\ t = Primitive(t.name)
         /\ t.kind \in Wrapping => Good(t.inner, error)
         /\ t.kind = "TUPLE" =>
              /\ DOMAIN t.elems = {1, 2} /\ Len(t.elems) = 2
              /\ Good(t.elems[1], error) /\ Good(t.elems[2], error)
<1>1. CASE Leaf(t)
  BY <1>1, LeafFacts DEF Wrapping
<1>2. CASE \E v : Good(v, error) /\ Wraps(t, v)
  <2>1. PICK v : Good(v, error) /\ Wraps(t, v)
    BY <1>2
  <2>2. v.height \in Nat
    BY <2>1, GoodCases
  <2>3. t.kind \in Wrapping /\ t.inner = v
    BY <2>1, <2>2, WrapsFacts
  <2> QED
    BY <2>1, <2>3 DEF Wrapping
<1>3. CASE \E v, w : Good(v, error) /\ Good(w, error) /\ Pairs(t, v, w)
  <2>1. PICK v, w : Good(v, error) /\ Good(w, error) /\ Pairs(t, v, w)
    BY <1>3
  <2>2. v.height \in Nat /\ w.height \in Nat
    BY <2>1, GoodCases
  <2>3. /\ t.kind = "TUPLE" /\ t.elems[1] = v /\ t.elems[2] = w
        /\ DOMAIN t.elems = {1, 2} /\ Len(t.elems) = 2
    BY <2>1, <2>2, TupleFacts
  <2> QED
    BY <2>1, <2>3 DEF Wrapping
<1> QED
  BY <1>1, <1>2, <1>3, GoodCases

\* A type is a type through and through, and holds the poison only with an error.
LEMMA GoodIsType ==
  ASSUME NEW t, NEW error, Good(t, error)
  PROVE  IsType(t) /\ (Holds(t, InferError) => error)
<1>1. PICK X : t \in X /\ TypeSet(X, error)
  BY DEF Good
<1>2. Parts(t) \subseteq X
  BY <1>1, PartsClosed
<1>3. ASSUME NEW u \in X
      PROVE  \/ u \in Poison
             \/ u.kind = "PRIMITIVE" /\ u.name \in PrimitiveNames
             \/ u.kind \in Wrapping \cup {"TUPLE"}
  <2>1. Good(u, error)
    BY <1>1 DEF Good
  <2> QED
    BY <2>1, GoodKinds DEF Poison
<1>4. InferError \in X => error
  BY <1>1 DEF TypeSet
<1> QED
  BY <1>2, <1>3, <1>4 DEF IsType, Holds

----------------------------------------------------------------------------
(* Equality                                                                *)

\* The pairs that are looked at next.
LEMMA InnerPairsCases ==
  ASSUME NEW a, NEW b, NEW error, Good(a, error), Good(b, error)
  PROVE  /\ ~Alike(<<a, b>>) \/ InferError \in {a, b} => InnerPairs(<<a, b>>) = {}
         /\ Alike(<<a, b>>) /\ InferError \notin {a, b} /\ a.kind \in Wrapping =>
              InnerPairs(<<a, b>>) = {<<a.inner, b.inner>>}
         /\ Alike(<<a, b>>) /\ InferError \notin {a, b} /\ a.kind = "TUPLE" =>
              InnerPairs(<<a, b>>) =
                {<<a.elems[1], b.elems[1]>>, <<a.elems[2], b.elems[2]>>}
         /\ a.kind \notin Wrapping \cup {"TUPLE"} => InnerPairs(<<a, b>>) = {}
<1>1. a.kind = "TUPLE" => DOMAIN a.elems = {1, 2}
  BY GoodKinds
<1>2. a.kind = "TUPLE" => {<<a.elems[i], b.elems[i]>> : i \in DOMAIN a.elems} =
                {<<a.elems[1], b.elems[1]>>, <<a.elems[2], b.elems[2]>>}
  BY <1>1
<1>3. a.kind # "FUNCTION"
  BY GoodKinds DEF Wrapping
<1> DEFINE p == <<a, b>>
<1>4. p[1] = a /\ p[2] = b
  OBVIOUS
<1> HIDE DEF p
<1>5. InnerPairs(p) =
        IF ~Alike(p) \/ InferError \in {a, b} THEN {}
        ELSE CASE a.kind \in Wrapping -> {<<a.inner, b.inner>>}
               [] a.kind = "TUPLE" -> {<<a.elems[i], b.elems[i]>> : i \in DOMAIN a.elems}
               [] a.kind = "FUNCTION" ->
                    {<<a.ret, b.ret>>} \cup {<<a.params[i], b.params[i]>> : i \in DOMAIN a.params}
               [] OTHER -> {}
  <2>1. InnerPairs(p) =
        IF ~Alike(p) \/ InferError \in {p[1], p[2]} THEN {}
        ELSE CASE p[1].kind \in Wrapping -> {<<p[1].inner, p[2].inner>>}
               [] p[1].kind = "TUPLE" -> {<<p[1].elems[i], p[2].elems[i]>> : i \in DOMAIN p[1].elems}
               [] p[1].kind = "FUNCTION" ->
                    {<<p[1].ret, p[2].ret>>}
                      \cup {<<p[1].params[i], p[2].params[i]>> : i \in DOMAIN p[1].params}
               [] OTHER -> {}
    BY DEF InnerPairs
  <2> QED
    BY <1>4, <2>1
<1>6. ~Alike(p) \/ InferError \in {a, b} => InnerPairs(p) = {}
  BY <1>5 DEF Wrapping
<1>7. Alike(p) /\ InferError \notin {a, b} /\ a.kind \in Wrapping =>
        InnerPairs(p) = {<<a.inner, b.inner>>}
  BY <1>5 DEF Wrapping
<1>8. Alike(p) /\ InferError \notin {a, b} /\ a.kind = "TUPLE" =>
        InnerPairs(p) = {<<a.elems[1], b.elems[1]>>, <<a.elems[2], b.elems[2]>>}
  BY <1>2, <1>5 DEF Wrapping
<1>9. a.kind \notin Wrapping \cup {"TUPLE"} => InnerPairs(p) = {}
  BY <1>3, <1>5
<1> QED
  BY <1>6, <1>7, <1>8, <1>9 DEF p

\* The pairs that type_equals goes on with are of what the two types are made of.
LEMMA InnerPairsIn ==
  ASSUME NEW a, NEW b, NEW error, Good(a, error), Good(b, error)
  PROVE  InnerPairs(<<a, b>>) \subseteq Inner(a) \X Inner(b)
<1>1. CASE ~Alike(<<a, b>>) \/ InferError \in {a, b} \/ a.kind \notin Wrapping \cup {"TUPLE"}
  BY <1>1, InnerPairsCases
<1>2. CASE Alike(<<a, b>>) /\ InferError \notin {a, b} /\ a.kind \in Wrapping
  <2>1. a.kind = b.kind
    BY <1>2 DEF Alike
  <2>2. InnerPairs(<<a, b>>) = {<<a.inner, b.inner>>}
    BY <1>2, InnerPairsCases
  <2>3. a.inner \in Inner(a) /\ b.inner \in Inner(b)
    BY <1>2, <2>1 DEF Inner, Wrapping
  <2> QED
    BY <2>2, <2>3
<1>3. CASE Alike(<<a, b>>) /\ InferError \notin {a, b} /\ a.kind = "TUPLE"
  <2>1. a.kind = b.kind
    BY <1>3 DEF Alike
  <2>2. InnerPairs(<<a, b>>) = {<<a.elems[1], b.elems[1]>>, <<a.elems[2], b.elems[2]>>}
    BY <1>3, InnerPairsCases
  <2>3. DOMAIN a.elems = {1, 2} /\ DOMAIN b.elems = {1, 2}
    BY <1>3, <2>1, GoodKinds
  <2>4. /\ a.elems[1] \in Inner(a) /\ a.elems[2] \in Inner(a)
        /\ b.elems[1] \in Inner(b) /\ b.elems[2] \in Inner(b)
    BY <1>3, <2>1, <2>3 DEF Inner, Wrapping
  <2> QED
    BY <2>2, <2>4
<1> QED
  BY <1>1, <1>2, <1>3

\* Pairs that are alike all the way down.
Agreed(R) == \A p \in R : Alike(p) /\ InnerPairs(p) \subseteq R

\* What type_equals does with two types, pair by pair.
EqualsRun(a, b, error, n, X, Z, x, step, height, w) ==
  /\ n \in Nat /\ TypeSet(X, error)
  /\ \A p \in Z : /\ p = <<p[1], p[2]>> /\ p[1] \in X
                  /\ Good(p[1], error) /\ Good(p[2], error)
  /\ x = <<a, b>> /\ x \in Z
  /\ \A p \in Z : step[p] = InnerPairs(p)
  /\ height \in [Z -> Nat] /\ (\A p \in Z : height[p] = p[1].height) /\ height[x] = n
  /\ ReachedBy(w, n, Z, x, step)
  /\ Equals(a, b) <=> \A p \in w[n] : Alike(p)

\* What Equals computes, in full.
LEMMA EqualsSteps ==
  ASSUME NEW a, NEW b, NEW error, Good(a, error), Good(b, error)
  PROVE  \E n, X, Z, x, step, height, w :
           EqualsRun(a, b, error, n, X, Z, x, step, height, w)
<1>1. PICK X : a \in X /\ TypeSet(X, error)
  BY DEF Good
<1>2. PICK Y : b \in Y /\ TypeSet(Y, error)
  BY DEF Good
<1>3. ASSUME NEW p \in X \X Y
      PROVE  /\ InnerPairs(p) \subseteq X \X Y
             /\ p = <<p[1], p[2]>> /\ p[1] \in X /\ p[1].height \in Nat
             /\ Good(p[1], error) /\ Good(p[2], error)
  <2>1. p = <<p[1], p[2]>> /\ p[1] \in X /\ p[2] \in Y
    OBVIOUS
  <2>2. Good(p[1], error) /\ Good(p[2], error)
    BY <1>1, <1>2, <2>1 DEF Good
  <2>3. Inner(p[1]) \subseteq X /\ Inner(p[2]) \subseteq Y
    BY <1>1, <1>2, <2>1, TypeSetFacts
  <2>4. InnerPairs(<<p[1], p[2]>>) \subseteq Inner(p[1]) \X Inner(p[2])
    BY <2>2, InnerPairsIn
  <2>5. p[1].height \in Nat
    BY <1>1, <2>1 DEF TypeSet
  <2> QED
    BY <2>1, <2>2, <2>3, <2>4, <2>5
<1>4. a.height \in Nat /\ <<a, b>> \in X \X Y
  BY <1>1, <1>2 DEF TypeSet
<1> DEFINE Z == X \X Y
           x == <<a, b>>
           step == [p \in Z |-> InnerPairs(p)]
           height == [p \in Z |-> p[1].height]
           n == a.height
<1>5. x \in Z /\ \A p \in Z : InnerPairs(p) \subseteq Z
  BY <1>3, <1>4
<1>6. n \in Nat /\ x[1] = a
  BY <1>4
<1>7. /\ \A p \in Z : p[1].height \in Nat
      /\ \A p \in Z : /\ p = <<p[1], p[2]>> /\ p[1] \in X
                      /\ Good(p[1], error) /\ Good(p[2], error)
  BY <1>3
<1> HIDE DEF Z, x
<1>8. step \in [Z -> SUBSET Z] /\ \A p \in Z : step[p] = InnerPairs(p)
  BY <1>5
<1>9. height \in [Z -> Nat] /\ (\A p \in Z : height[p] = p[1].height) /\ height[x] = n
  BY <1>5, <1>6, <1>7
<1> HIDE DEF n
<1>10. PICK w : ReachedBy(w, n, Z, x, step) /\ Reached(InnerPairs, x, n) = w[n]
  BY <1>5, <1>6, InnerPairsReached
<1>11. Equals(a, b) <=> \A p \in w[n] : Alike(p)
  BY <1>10 DEF Equals, x, n
<1>12. x = <<a, b>>
  BY DEF x
<1> HIDE DEF step, height
<1>13. EqualsRun(a, b, error, n, X, Z, x, step, height, w)
  BY <1>1, <1>5, <1>6, <1>7, <1>8, <1>9, <1>10, <1>11, <1>12 DEF EqualsRun
<1> QED
  BY <1>13, Zenon

\* Two types are equal just if some set of pairs has the two and, with a pair, which
\* is alike, the pairs made of it.
LEMMA EqualsIf ==
  ASSUME NEW a, NEW b, NEW error, Good(a, error), Good(b, error),
         NEW R, <<a, b>> \in R, Agreed(R)
  PROVE  Equals(a, b)
<1>1. PICK n, X, Z, x, step, height, w :
           EqualsRun(a, b, error, n, X, Z, x, step, height, w)
  BY EqualsSteps, Zenon
<1>2. x \in R /\ Keeps(R, Z, step)
  BY <1>1 DEF EqualsRun, Agreed, Keeps
<1>3. w[n] \subseteq R
  BY <1>1, <1>2, ReachedByLeast DEF EqualsRun
<1> QED
  BY <1>1, <1>3 DEF EqualsRun, Agreed

LEMMA EqualsOnly ==
  ASSUME NEW a, NEW b, NEW error, Good(a, error), Good(b, error), Equals(a, b)
  PROVE  \E R : <<a, b>> \in R /\ Agreed(R) /\ \A p \in R : /\ p = <<p[1], p[2]>>
                                                         /\ Good(p[1], error)
                                                         /\ Good(p[2], error)
<1>1. PICK n, X, Z, x, step, height, w :
           EqualsRun(a, b, error, n, X, Z, x, step, height, w)
  BY EqualsSteps, Zenon
<1>2. Descends(Z, step, height) /\ height[x] <= n
  <2>1. ASSUME NEW p \in Z, NEW q \in step[p]
        PROVE  height[q] < height[p]
    <3>1. q \in Z
      BY <1>1 DEF EqualsRun, ReachedBy
    <3>2. /\ p = <<p[1], p[2]>> /\ p[1] \in X /\ Good(p[1], error) /\ Good(p[2], error)
          /\ q \in InnerPairs(p) /\ height[q] = q[1].height /\ height[p] = p[1].height
      BY <1>1, <3>1 DEF EqualsRun
    <3>3. InnerPairs(<<p[1], p[2]>>) \subseteq Inner(p[1]) \X Inner(p[2])
      BY <3>2, InnerPairsIn
    <3>4. q \in Inner(p[1]) \X Inner(p[2])
      BY <3>2, <3>3
    <3>5. q[1] \in Inner(p[1])
      BY <3>4
    <3>6. q[1].height < p[1].height
      BY <1>1, <3>2, <3>5, TypeSetFacts DEF EqualsRun
    <3> QED
      BY <3>2, <3>6
  <2> QED
    BY <1>1, <2>1 DEF Descends, EqualsRun
<1>3. x \in w[n] /\ w[n] \subseteq Z /\ Keeps(w[n], Z, step)
  BY <1>1, <1>2, ReachedByClosed DEF EqualsRun
<1>4. Agreed(w[n])
  BY <1>1, <1>3 DEF Agreed, EqualsRun, Keeps
<1> QED
  BY <1>1, <1>3, <1>4 DEF EqualsRun

\* What equal types have in common, and that what they are made of is equal too.
LEMMA EqualsParts ==
  ASSUME NEW a, NEW b, NEW error, Good(a, error), Good(b, error), Equals(a, b),
         a # InferError, b # InferError
  PROVE  /\ a.kind = b.kind
         /\ a.kind = "PRIMITIVE" => a.name = b.name
         /\ a.kind \in Wrapping => Equals(a.inner, b.inner)
<1>1. PICK R : <<a, b>> \in R /\ Agreed(R)
  BY EqualsOnly, Zenon
<1>2. Alike(<<a, b>>) /\ InnerPairs(<<a, b>>) \subseteq R
  BY <1>1 DEF Agreed
<1>3. a.kind = b.kind /\ (a.kind = "PRIMITIVE" => a.name = b.name)
  BY <1>2 DEF Alike, NamedKind
<1>4. ASSUME a.kind \in Wrapping
      PROVE  Equals(a.inner, b.inner)
  <2>1. InnerPairs(<<a, b>>) = {<<a.inner, b.inner>>}
    BY <1>2, <1>4, InnerPairsCases
  <2>2. <<a.inner, b.inner>> \in R
    BY <1>2, <2>1
  <2>3. Good(a.inner, error) /\ Good(b.inner, error)
    BY <1>3, <1>4, GoodKinds
  <2> QED
    BY <1>1, <2>2, <2>3, EqualsIf
<1> QED
  BY <1>3, <1>4

\* Which type comes first does not matter to type_equals.
LEMMA EqualsTurned ==
  ASSUME NEW a, NEW b, NEW error, Good(a, error), Good(b, error), Equals(a, b)
  PROVE  Equals(b, a)
<1>1. PICK R : <<a, b>> \in R /\ Agreed(R) /\ \A p \in R : /\ p = <<p[1], p[2]>>
                                                         /\ Good(p[1], error)
                                                         /\ Good(p[2], error)
  BY EqualsOnly, Zenon
<1> DEFINE Q == {<<p[2], p[1]>> : p \in R}
<1>2. <<b, a>> \in Q
  BY <1>1
<1>3. ASSUME NEW q \in Q
      PROVE  Alike(q) /\ InnerPairs(q) \subseteq Q
  <2>1. PICK p \in R : q = <<p[2], p[1]>>
    OBVIOUS
  <2> DEFINE u == p[1]
             v == p[2]
  <2>2. p = <<u, v>> /\ q = <<v, u>> /\ Good(u, error) /\ Good(v, error)
    BY <1>1, <2>1
  <2> HIDE DEF u, v
  <2>3. Alike(<<u, v>>) /\ InnerPairs(<<u, v>>) \subseteq R
    BY <1>1, <2>2 DEF Agreed
  <2>4. Alike(<<v, u>>)
    BY <2>3 DEF Alike
  <2>5. \A x, y : <<x, y>> \in R => <<y, x>> \in Q
    <3>1. ASSUME NEW x, NEW y, <<x, y>> \in R
          PROVE  <<y, x>> \in Q
      <4> DEFINE r == <<x, y>>
      <4>1. r \in R /\ r[1] = x /\ r[2] = y
        BY <3>1
      <4> QED
        BY <4>1
    <3> QED
      BY <3>1
  <2>6. InnerPairs(<<v, u>>) \subseteq Q
    <3>1. CASE InferError \in {v, u} \/ v.kind \notin Wrapping \cup {"TUPLE"}
      BY <2>2, <3>1, InnerPairsCases
    <3>2. CASE InferError \notin {v, u} /\ v.kind \in Wrapping
      <4>1. InnerPairs(<<v, u>>) = {<<v.inner, u.inner>>}
        BY <2>2, <2>4, <3>2, InnerPairsCases
      <4>2. InnerPairs(<<u, v>>) = {<<u.inner, v.inner>>}
        <5>1. u.kind = v.kind
          BY <2>4, <3>2 DEF Alike
        <5> QED
          BY <2>2, <2>3, <3>2, <5>1, InnerPairsCases
      <4> HIDE DEF Q
      <4> QED
        BY <2>3, <2>5, <4>1, <4>2
    <3>3. CASE InferError \notin {v, u} /\ v.kind = "TUPLE"
      <4>1. InnerPairs(<<v, u>>) =
              {<<v.elems[1], u.elems[1]>>, <<v.elems[2], u.elems[2]>>}
        BY <2>2, <2>4, <3>3, InnerPairsCases
      <4>2. InnerPairs(<<u, v>>) =
              {<<u.elems[1], v.elems[1]>>, <<u.elems[2], v.elems[2]>>}
        <5>1. u.kind = v.kind
          BY <2>4, <3>3 DEF Alike
        <5> QED
          BY <2>2, <2>3, <3>3, <5>1, InnerPairsCases
      <4>3. <<u.elems[1], v.elems[1]>> \in R /\ <<u.elems[2], v.elems[2]>> \in R
        BY <2>3, <4>2
      <4> HIDE DEF Q
      <4>4. <<v.elems[1], u.elems[1]>> \in Q /\ <<v.elems[2], u.elems[2]>> \in Q
        BY <2>5, <4>3
      <4> QED
        BY <2>4, <4>1, <4>4
    <3> QED
      BY <3>1, <3>2, <3>3
  <2> QED
    BY <2>2, <2>4, <2>6
<1> HIDE DEF Q
<1> QED
  BY <1>2, <1>3, EqualsIf DEF Agreed

\* Among types without poison.
LEMMA EqualsThrough ==
  ASSUME NEW a, NEW b, NEW c, Good(a, FALSE), Good(b, FALSE), Good(c, FALSE),
         Equals(a, b), Equals(b, c)
  PROVE  Equals(a, c)
<1>1. PICK R : <<a, b>> \in R /\ Agreed(R) /\ \A p \in R : /\ p = <<p[1], p[2]>>
                                                         /\ Good(p[1], FALSE)
                                                         /\ Good(p[2], FALSE)
  BY EqualsOnly, Zenon
<1>2. PICK S : <<b, c>> \in S /\ Agreed(S) /\ \A p \in S : /\ p = <<p[1], p[2]>>
                                                         /\ Good(p[1], FALSE)
                                                         /\ Good(p[2], FALSE)
  BY EqualsOnly, Zenon
<1> DEFINE Q == {q \in {p[1] : p \in R} \X {p[2] : p \in S} :
                   \E v : <<q[1], v>> \in R /\ <<v, q[2]>> \in S}
<1>3. ASSUME NEW x, NEW y, NEW z, <<x, y>> \in R, <<y, z>> \in S
      PROVE  <<x, z>> \in Q
  <2> DEFINE r == <<x, y>>
             s == <<y, z>>
             q == <<x, z>>
  <2>1. r \in R /\ r[1] = x /\ s \in S /\ s[2] = z
    BY <1>3
  <2>2. x \in {p[1] : p \in R} /\ z \in {p[2] : p \in S}
    BY <2>1
  <2>3. q \in {p[1] : p \in R} \X {p[2] : p \in S} /\ q[1] = x /\ q[2] = z
    BY <2>2
  <2>4. <<q[1], y>> \in R /\ <<y, q[2]>> \in S
    BY <1>3, <2>3
  <2> QED
    BY <2>3, <2>4
<1>4. <<a, c>> \in Q
  BY <1>1, <1>2, <1>3
<1>5. ASSUME NEW q \in Q
      PROVE  Alike(q) /\ InnerPairs(q) \subseteq Q
  <2>1. PICK v : <<q[1], v>> \in R /\ <<v, q[2]>> \in S
    OBVIOUS
  <2> DEFINE u == q[1]
             w == q[2]
  <2>2. q = <<u, w>>
    OBVIOUS
  <2>3. <<u, v>> \in R /\ <<v, w>> \in S
    BY <2>1
  <2> HIDE DEF u, w, Q
  <2>4. Good(u, FALSE) /\ Good(v, FALSE) /\ Good(w, FALSE)
    <3> DEFINE r == <<u, v>>
               s == <<v, w>>
    <3>1. r[1] = u /\ r[2] = v /\ s[2] = w
      OBVIOUS
    <3>2. r \in R /\ s \in S
      BY <2>3
    <3> HIDE DEF r, s
    <3> QED
      BY <1>1, <1>2, <3>1, <3>2
  <2>5. u # InferError /\ v # InferError /\ w # InferError
    BY <2>4, GoodCases
  <2>6. Alike(<<u, v>>) /\ InnerPairs(<<u, v>>) \subseteq R
    BY <1>1, <2>3 DEF Agreed
  <2>7. Alike(<<v, w>>) /\ InnerPairs(<<v, w>>) \subseteq S
    BY <1>2, <2>3 DEF Agreed
  <2>8. Alike(<<u, w>>) /\ u.kind = v.kind
    BY <2>5, <2>6, <2>7 DEF Alike
  <2>9. InnerPairs(<<u, w>>) \subseteq Q
    <3>1. CASE u.kind \notin Wrapping \cup {"TUPLE"}
      BY <2>4, <3>1, InnerPairsCases
    <3>2. CASE u.kind \in Wrapping
      <4>1. /\ InnerPairs(<<u, w>>) = {<<u.inner, w.inner>>}
            /\ InnerPairs(<<u, v>>) = {<<u.inner, v.inner>>}
            /\ InnerPairs(<<v, w>>) = {<<v.inner, w.inner>>}
        BY <2>4, <2>5, <2>6, <2>7, <2>8, <3>2, InnerPairsCases
      <4>2. <<u.inner, v.inner>> \in R /\ <<v.inner, w.inner>> \in S
        BY <2>6, <2>7, <4>1
      <4>3. <<u.inner, w.inner>> \in Q
        BY <1>3, <4>2
      <4> QED
        BY <4>1, <4>3
    <3>3. CASE u.kind = "TUPLE"
      <4>1. /\ InnerPairs(<<u, w>>) =
                 {<<u.elems[1], w.elems[1]>>, <<u.elems[2], w.elems[2]>>}
            /\ InnerPairs(<<u, v>>) =
                 {<<u.elems[1], v.elems[1]>>, <<u.elems[2], v.elems[2]>>}
            /\ InnerPairs(<<v, w>>) =
                 {<<v.elems[1], w.elems[1]>>, <<v.elems[2], w.elems[2]>>}
        BY <2>4, <2>5, <2>6, <2>7, <2>8, <3>3, InnerPairsCases
      <4>2. /\ <<u.elems[1], v.elems[1]>> \in R /\ <<v.elems[1], w.elems[1]>> \in S
            /\ <<u.elems[2], v.elems[2]>> \in R /\ <<v.elems[2], w.elems[2]>> \in S
        BY <2>6, <2>7, <4>1
      <4>3. <<u.elems[1], w.elems[1]>> \in Q /\ <<u.elems[2], w.elems[2]>> \in Q
        BY <1>3, <4>2
      <4> QED
        BY <4>1, <4>3
    <3> QED
      BY <3>1, <3>2, <3>3
  <2> QED
    BY <2>2, <2>8, <2>9
<1> HIDE DEF Q
<1> QED
  BY <1>4, <1>5, EqualsIf DEF Agreed

----------------------------------------------------------------------------
(* What fallible types are about                                           *)

\* The types a type is assigned to in turn.
Within(t) == Reached(Succeeding, t, t.height)

LEMMA SucceedingInner == \A t : Succeeding(t) \subseteq Inner(t)
  BY DEF Succeeding, Inner, Wrapping

\* The types within a type are the least set with it that the type a fallible one
\* is about is in, and all of them are types of the same kind of set.
LEMMA WithinLeast ==
  ASSUME NEW t, NEW error, Good(t, error), NEW Z, t \in Z,
         \A y \in Z : Good(y, error) => Succeeding(y) \subseteq Z
  PROVE  Within(t) \subseteq Z
<1>1. PICK X : t \in X /\ TypeSet(X, error)
  BY DEF Good
<1> DEFINE step == [y \in X |-> Succeeding(y)]
<1>2. t.height \in Nat /\ \A y \in X : Succeeding(y) \subseteq X
  BY <1>1, TypeSetFacts, SucceedingInner
<1>3. PICK w : ReachedBy(w, t.height, X, t, step) /\ Reached(Succeeding, t, t.height) = w[t.height]
  BY <1>1, <1>2, SucceedingReached
<1>4. Keeps(Z, X, step)
  BY <1>1 DEF Good, Keeps
<1> HIDE DEF step
<1> QED
  BY <1>3, <1>4, ReachedByLeast DEF Within

LEMMA WithinClosed ==
  ASSUME NEW t, NEW error, Good(t, error)
  PROVE  /\ t \in Within(t)
         /\ \A y \in Within(t) : Good(y, error) /\ Succeeding(y) \subseteq Within(t)
         /\ Within(t) \subseteq Parts(t)
<1>1. PICK X : t \in X /\ TypeSet(X, error)
  BY DEF Good
<1> DEFINE step == [y \in X |-> Succeeding(y)]
           height == [y \in X |-> y.height]
<1>2. t.height \in Nat /\ \A y \in X : Succeeding(y) \subseteq X
  BY <1>1, TypeSetFacts, SucceedingInner
<1>3. PICK w : ReachedBy(w, t.height, X, t, step) /\ Reached(Succeeding, t, t.height) = w[t.height]
  BY <1>1, <1>2, SucceedingReached
<1>4. /\ \A y \in X : step[y] = Succeeding(y)
      /\ height \in [X -> Nat] /\ \A y \in X : height[y] = y.height
  BY <1>1, TypeSetFacts
<1>5. Descends(X, step, height) /\ height[t] <= t.height
  <2>1. \A y \in X : \A z \in Succeeding(y) : z \in X /\ z.height < y.height
    BY <1>1, <1>2, TypeSetFacts, SucceedingInner
  <2> HIDE DEF step, height
  <2> QED
    BY <1>1, <1>2, <1>4, <2>1 DEF Descends
<1> HIDE DEF step, height
<1>6. t \in w[t.height] /\ w[t.height] \subseteq X /\ Keeps(w[t.height], X, step)
  BY <1>3, <1>5, ReachedByClosed
<1>7. t \in Parts(t) /\ Keeps(Parts(t), X, step)
  BY <1>1, <1>4, PartsClosed, SucceedingInner DEF Keeps
<1>8. w[t.height] \subseteq Parts(t)
  BY <1>3, <1>7, ReachedByLeast
<1>9. \A y \in X : Good(y, error)
  BY <1>1 DEF Good
<1> QED
  BY <1>3, <1>4, <1>6, <1>8, <1>9 DEF Within, Keeps

LEMMA WithinMore ==
  ASSUME NEW t, NEW error, Good(t, error), NEW u \in Within(t)
  PROVE  Within(u) \subseteq Within(t)
<1>1. Good(u, error) /\ \A y \in Within(t) : Succeeding(y) \subseteq Within(t)
  BY WithinClosed
<1> QED
  BY <1>1, WithinLeast

\* What an equal type is about is equal.
LEMMA WithinEqual ==
  ASSUME NEW t, NEW u, Good(t, FALSE), Good(u, FALSE), Equals(t, u), NEW v \in Within(u)
  PROVE  \E s \in Within(t) : Equals(s, v)
<1> DEFINE Z == {y \in Within(u) : \E s \in Within(t) : Equals(s, y)}
<1>1. t \in Within(t) /\ u \in Within(u)
  BY WithinClosed
<1>2. u \in Z
  BY <1>1
<1>3. ASSUME NEW y \in Z
      PROVE  Succeeding(y) \subseteq Z
  <2>1. PICK s \in Within(t) : Equals(s, y)
    OBVIOUS
  <2>2. /\ Good(s, FALSE) /\ Good(y, FALSE)
        /\ Succeeding(s) \subseteq Within(t) /\ Succeeding(y) \subseteq Within(u)
    BY WithinClosed
  <2>3. s # InferError /\ y # InferError
    BY <2>2, GoodCases
  <2>4. s.kind = y.kind /\ (s.kind \in Wrapping => Equals(s.inner, y.inner))
    BY <2>1, <2>2, <2>3, EqualsParts
  <2>5. y.kind = "FALLIBLE" =>
          /\ s.inner \in Within(t) /\ y.inner \in Within(u)
          /\ Equals(s.inner, y.inner) /\ Succeeding(y) = {y.inner}
    BY <2>2, <2>4 DEF Succeeding, Wrapping
  <2> QED
    BY <2>5 DEF Succeeding
<1> HIDE DEF Z
<1>4. Within(u) \subseteq Z
  BY <1>2, <1>3, WithinLeast
<1> QED
  BY <1>4 DEF Z

\* type_is_assignable asks what may be assigned to one of them.
LEMMA AssignableIs ==
  ASSUME NEW t, NEW u
  PROVE  Assignable(t, u) <=> \E s \in Within(t) : AssignsTo(s, u)
  BY DEF Assignable, Within

\* A type without poison.
LEMMA SoundGood ==
  ASSUME NEW t, NEW error, Good(t, error), \A p \in Poison : ~Holds(t, p)
  PROVE  /\ Good(t, FALSE)
         /\ t \notin Poison
         /\ \A u \in Parts(t) : u \notin Poison /\ (u.kind \in Wrapping => u.inner # Unknown)
<1>1. PICK X : t \in X /\ TypeSet(X, error)
  BY DEF Good
<1>2. t \in Parts(t) /\ Parts(t) \subseteq X /\ \A y \in Parts(t) : Inner(y) \subseteq Parts(t)
  BY <1>1, PartsClosed
<1>3. ASSUME NEW u \in Parts(t)
      PROVE  /\ u.height \in Nat /\ u # InferError
             /\ \/ Leaf(u)
                \/ \E v \in Parts(t) : Wraps(u, v)
                \/ \E v \in Parts(t), w \in Parts(t) : Pairs(u, v, w)
  <2>1. u \in X /\ Inner(u) \subseteq Parts(t)
    BY <1>2
  <2>2. u # InferError
    BY DEF Holds, Poison
  <2>3. CASE \E v \in X : Wraps(u, v)
    <3>1. PICK v \in X : Wraps(u, v)
      BY <2>3
    <3>2. v.height \in Nat
      BY <1>1 DEF TypeSet
    <3>3. Inner(u) = {v}
      BY <3>1, <3>2, WrapsFacts
    <3>4. v \in Parts(t)
      BY <2>1, <3>3
    <3> QED
      BY <1>1, <2>1, <2>2, <3>1, <3>4 DEF TypeSet
  <2>4. CASE \E v \in X, w \in X : Pairs(u, v, w)
    <3>1. PICK v \in X, w \in X : Pairs(u, v, w)
      BY <2>4
    <3>2. v.height \in Nat /\ w.height \in Nat
      BY <1>1 DEF TypeSet
    <3>3. Inner(u) = {v, w}
      BY <3>1, <3>2, TupleFacts
    <3>4. v \in Parts(t) /\ w \in Parts(t)
      BY <2>1, <3>3
    <3> QED
      BY <1>1, <2>1, <2>2, <3>1, <3>4 DEF TypeSet
  <2> QED
    BY <1>1, <2>1, <2>2, <2>3, <2>4 DEF TypeSet
<1>4. TypeSet(Parts(t), FALSE)
  BY <1>3 DEF TypeSet
<1>5. \A u \in Parts(t) : u.kind \in Wrapping => u.inner \in Parts(t)
  <2>1. \A u : u.kind \in Wrapping => u.inner \in Inner(u)
    BY DEF Inner, Wrapping
  <2> QED
    BY <1>2, <2>1
<1>6. \A u \in Parts(t) : u \notin Poison
  BY DEF Holds
<1>7. Unknown \in Poison
  BY DEF Poison
<1>8. Good(t, FALSE)
  BY <1>2, <1>4 DEF Good
<1> QED
  BY <1>2, <1>5, <1>6, <1>7, <1>8

\* From a type to a second, and from that to a third.
LEMMA AssignableThrough ==
  ASSUME NEW v, NEW u, NEW t, NEW e1, NEW e2, NEW e3,
         Good(v, e1), Good(u, e2), Good(t, e3),
         \A p \in Poison : ~Holds(v, p) /\ ~Holds(u, p) /\ ~Holds(t, p),
         Assignable(u, v), Assignable(t, u)
  PROVE  Assignable(t, v)
<1>1. /\ Good(v, FALSE) /\ Good(u, FALSE) /\ Good(t, FALSE)
      /\ v \notin Poison /\ u \notin Poison
  BY SoundGood
<1>2. PICK u1 \in Within(u) : AssignsTo(u1, v)
  BY AssignableIs
<1>3. PICK t1 \in Within(t) : AssignsTo(t1, u)
  BY AssignableIs
<1>4. Good(u1, FALSE) /\ Good(t1, FALSE) /\ u1 # InferError /\ t1 # InferError
  BY <1>1, WithinClosed, GoodCases
<1>5. ~IsPrim(v, "Error") /\ ~IsPrim(u, "Error")
  BY <1>1, GoodKinds DEF IsPrim, PrimitiveNames, BitWidth
<1>6. ~Lenient(u1, v) /\ ~Lenient(t1, u)
  <2>1. u1 \in Parts(u) /\ t1 \in Parts(t) /\ u \in Parts(u) /\ v \in Parts(v)
    <3>1. Within(u) \subseteq Parts(u) /\ Within(t) \subseteq Parts(t)
      BY <1>1, WithinClosed
    <3> QED
      BY <1>1, <3>1, PartsClosed DEF Good
  <2>2. \A y \in {u1, t1, u, v} :
          y \notin Poison /\ (y.kind = "POINTER" => y.inner # Unknown)
    BY <2>1, SoundGood DEF Wrapping
  <2> QED
    BY <2>2 DEF Lenient
<1>7. Equals(u1, v) \/ LiteralAdapts(u1, v)
  BY <1>2, <1>5, <1>6 DEF AssignsTo
<1>8. CASE Equals(t1, u)
  <2>1. PICK s \in Within(t1) : Equals(s, u1)
    BY <1>1, <1>4, <1>8, WithinEqual
  <2>2. s \in Within(t) /\ Good(s, FALSE)
    BY <1>1, <1>4, WithinMore, WithinClosed
  <2>3. CASE Equals(u1, v)
    <3>1. Equals(s, v)
      BY <1>1, <1>4, <2>1, <2>2, <2>3, EqualsThrough
    <3> QED
      BY <2>2, <3>1, AssignableIs DEF AssignsTo
  <2>4. CASE LiteralAdapts(u1, v)
    <3>1. s.kind = u1.kind /\ (s.kind = "PRIMITIVE" => s.name = u1.name)
      <4>1. s # InferError
        BY <2>2, GoodCases
      <4> QED
        BY <1>4, <2>1, <2>2, <4>1, EqualsParts
    <3>2. LiteralAdapts(s, v)
      BY <2>4, <3>1 DEF LiteralAdapts, IsPrim, IsInteger, IsNumeric
    <3> QED
      BY <2>2, <3>2, AssignableIs DEF AssignsTo
  <2> QED
    BY <1>7, <2>3, <2>4
<1>9. CASE LiteralAdapts(t1, u)
  <2>1. u.kind = "PRIMITIVE" /\ u.name \in {"i32", "f64"}
        /\ (u.name = "i32" => IsInteger(t1)) /\ (u.name = "f64" => IsPrim(t1, "f32"))
    BY <1>9 DEF LiteralAdapts, IsPrim
  <2>2. u1 = u
    <3>1. Succeeding(u) \subseteq {u}
      BY <2>1 DEF Succeeding
    <3>2. Within(u) \subseteq {u}
      BY <1>1, <3>1, WithinLeast
    <3> QED
      BY <3>2
  <2>3. v.kind = "PRIMITIVE" /\ v.name = u.name
    <3>1. CASE Equals(u, v)
      BY <1>1, <2>1, <3>1, EqualsParts DEF Poison
    <3>2. CASE LiteralAdapts(u, v)
      BY <2>1, <3>2 DEF LiteralAdapts, IsPrim, IsInteger, FloatNames
    <3> QED
      BY <1>7, <2>2, <3>1, <3>2
  <2>4. LiteralAdapts(t1, v)
    BY <2>1, <2>3 DEF LiteralAdapts, IsPrim
  <2> QED
    BY <2>4, AssignableIs DEF AssignsTo
<1> QED
  BY <1>3, <1>5, <1>6, <1>8, <1>9 DEF AssignsTo

\* Which operand of a comparison comes first does not matter.
LEMMA ComparesTurned ==
  ASSUME NEW a, NEW b, NEW error, Good(a, error), Good(b, error), Comparable(a, b)
  PROVE  Comparable(b, a)
<1>1. Equals(a, b) => Equals(b, a)
  BY EqualsTurned
<1>2. Lenient(a, b) => Lenient(b, a)
  BY DEF Lenient
<1> QED
  BY <1>1, <1>2 DEF Comparable

----------------------------------------------------------------------------
(* What failed, filled in                                                  *)

\* The types that a type's parts become.
FillMap(F, P, u) == \A p \in P : Inner(p) \subseteq P /\ F[p] = FilledOne(F, p, u)

FilledFrom(f, n, P, u) ==
  IF n = 0 THEN [p \in P |-> p] ELSE [p \in P |-> FilledOne(f[n - 1], p, u)]

FilledRun(f, n, P, u) == f = [k \in 0 .. n |-> FilledFrom(f, k, P, u)]

LEMMA FilledRounds ==
  ASSUME NEW n \in Nat, NEW P, NEW u
  PROVE  \E f : FilledRun(f, n, P, u)
<1> DEFINE T == {m \in 0 .. n : \E f : f = [k \in 0 .. m |-> FilledFrom(f, k, P, u)]}
<1>1. 0 \in T
  <2> DEFINE f == [k \in 0 .. 0 |-> [p \in P |-> p]]
  <2>1. \A k \in 0 .. 0 : FilledFrom(f, k, P, u) = [p \in P |-> p]
    BY DEF FilledFrom
  <2>2. f = [k \in 0 .. 0 |-> FilledFrom(f, k, P, u)]
    BY <2>1
  <2> QED
    BY <2>2
<1>2. ASSUME NEW m \in 1 .. n, m - 1 \in T
      PROVE  m \in T
  <2>1. PICK f : f = [k \in 0 .. m - 1 |-> FilledFrom(f, k, P, u)]
    BY <1>2
  <2> DEFINE g == [k \in 0 .. m |-> IF k = m THEN FilledFrom(f, m, P, u) ELSE f[k]]
  <2>2. ASSUME NEW k \in 0 .. m
        PROVE  g[k] = FilledFrom(g, k, P, u)
    <3>1. k # 0 => g[k - 1] = f[k - 1]
      OBVIOUS
    <3>2. FilledFrom(g, k, P, u) = FilledFrom(f, k, P, u)
      BY <3>1 DEF FilledFrom
    <3>3. k # m => k \in 0 .. m - 1 /\ g[k] = f[k]
      OBVIOUS
    <3>4. k # m => f[k] = FilledFrom(f, k, P, u)
      BY <2>1, <3>3
    <3>5. k = m => g[k] = FilledFrom(f, k, P, u)
      OBVIOUS
    <3> HIDE DEF g
    <3> QED
      BY <3>2, <3>3, <3>4, <3>5
  <2>3. g = [k \in 0 .. m |-> g[k]]
    OBVIOUS
  <2> HIDE DEF g
  <2>4. g = [k \in 0 .. m |-> FilledFrom(g, k, P, u)]
    BY <2>2, <2>3
  <2> QED
    BY <2>4
<1>3. n \in T
  <2>1. 0 .. n \subseteq T
    <3> HIDE DEF T
    <3> QED
      BY <1>1, <1>2, UpTo
  <2>2. n \in 0 .. n
    OBVIOUS
  <2> HIDE DEF T
  <2> QED
    BY <2>1, <2>2
<1> QED
  BY <1>3 DEF FilledRun

\* What becomes of a type only depends on what becomes of what it is made of.
LEMMA FilledOneSame ==
  ASSUME NEW F, NEW G, NEW t, NEW error, NEW u, Good(t, error),
         \A p \in Inner(t) : F[p] = G[p]
  PROVE  FilledOne(F, t, u) = FilledOne(G, t, u)
<1>1. CASE t.kind \in Wrapping
  <2>1. t.inner \in Inner(t)
    BY <1>1 DEF Inner, Wrapping
  <2> QED
    BY <1>1, <2>1 DEF FilledOne, Wrapping, InferError
<1>2. CASE t.kind = "TUPLE"
  <2>1. \A i \in DOMAIN t.elems : t.elems[i] \in Inner(t)
    BY <1>2 DEF Inner, Wrapping
  <2>2. [i \in DOMAIN t.elems |-> F[t.elems[i]]] = [i \in DOMAIN t.elems |-> G[t.elems[i]]]
    BY <2>1
  <2> QED
    BY <1>2, <2>2 DEF FilledOne, Wrapping, InferError
<1>3. CASE t.kind \notin Wrapping \cup {"TUPLE"}
  BY <1>3 DEF FilledOne, Wrapping, InferError
<1> QED
  BY <1>1, <1>2, <1>3

\* What Filled computes: a map of the parts of the type.
LEMMA FilledIs ==
  ASSUME NEW t, NEW error, Good(t, error), NEW u
  PROVE  \E F : Filled(t, u) = F[t] /\ FillMap(F, Parts(t), u)
<1>1. PICK X : t \in X /\ TypeSet(X, error)
  BY DEF Good
<1> DEFINE P == Parts(t)
           h == t.height
           f == CHOOSE f : f = [k \in 0 .. h + 1 |-> FilledFrom(f, k, P, u)]
<1>2. /\ t \in P /\ P \subseteq X /\ h \in Nat
      /\ \A y \in P : Inner(y) \subseteq P /\ y.height \in Nat /\ Good(y, error)
      /\ \A y \in P : \A z \in Inner(y) : z.height < y.height
  BY <1>1, PartsClosed, TypeSetFacts DEF Good
<1>3. \A y \in P : y.height <= h
  <2> DEFINE Z == {y \in X : y.height <= h}
  <2>1. t \in Z
    BY <1>1, <1>2
  <2>2. ASSUME NEW y \in Z \cap X
        PROVE  Inner(y) \subseteq Z
    <3>1. y.height \in Nat /\ Inner(y) \subseteq X /\ \A z \in Inner(y) : z.height < y.height
      BY <1>1, TypeSetFacts
    <3>2. \A z \in Inner(y) : z.height \in Nat
      BY <1>1, <3>1, TypeSetFacts
    <3> QED
      BY <1>2, <3>1, <3>2
  <2> HIDE DEF Z
  <2>3. P \subseteq Z
    BY <1>1, <2>1, <2>2, PartsLeast
  <2> QED
    BY <2>3 DEF Z
<1>4. Filled(t, u) = f[h + 1][t]
  BY DEF Filled, FilledFrom
<1>5. f = [k \in 0 .. h + 1 |-> FilledFrom(f, k, P, u)]
  <2> HIDE DEF P, h
  <2>1. h + 1 \in Nat
    BY <1>2
  <2>2. \E g : FilledRun(g, h + 1, P, u)
    BY <2>1, FilledRounds
  <2> QED
    BY <2>2 DEF FilledRun
<1> HIDE DEF P, h, f
<1>6. ASSUME NEW k \in 1 .. h + 1, NEW p \in P
      PROVE  f[k][p] = FilledOne(f[k - 1], p, u)
  <2>1. k \in 0 .. h + 1 /\ k # 0
    BY <1>2
  <2>2. f[k] = FilledFrom(f, k, P, u)
    BY <1>5, <2>1
  <2> QED
    BY <2>1, <2>2 DEF FilledFrom
<1> DEFINE T == {k \in 0 .. h : \A p \in P : p.height < k => f[k][p] = f[k + 1][p]}
<1>7. 0 \in T
  BY <1>2
<1>8. ASSUME NEW k \in 1 .. h, k - 1 \in T
      PROVE  k \in T
  <2>1. ASSUME NEW p \in P, p.height < k
        PROVE  f[k][p] = f[k + 1][p]
    <3>1. \A q \in Inner(p) : q \in P /\ q.height < k - 1
      <4>1. \A q \in Inner(p) : q \in P /\ q.height < p.height /\ q.height \in Nat
        BY <1>2
      <4>2. p.height \in Nat
        BY <1>2
      <4> QED
        BY <2>1, <4>1, <4>2
    <3>2. \A q \in P : q.height < k - 1 => f[k - 1][q] = f[k][q]
      BY <1>2, <1>8
    <3>3. k \in 1 .. h + 1 /\ k + 1 \in 1 .. h + 1 /\ (k + 1) - 1 = k
      BY <1>2
    <3>4. f[k][p] = FilledOne(f[k - 1], p, u) /\ f[k + 1][p] = FilledOne(f[k], p, u)
      BY <1>6, <3>3
    <3>5. FilledOne(f[k - 1], p, u) = FilledOne(f[k], p, u)
      <4>1. Good(p, error)
        BY <1>2
      <4> QED
        BY <3>1, <3>2, <4>1, FilledOneSame
    <3> QED
      BY <3>4, <3>5
  <2> QED
    BY <1>2, <2>1
<1>9. h \in T
  <2>1. 0 .. h \subseteq T
    <3> HIDE DEF T
    <3> QED
      BY <1>2, <1>7, <1>8, UpTo
  <2>2. h \in 0 .. h
    BY <1>2
  <2> HIDE DEF T
  <2> QED
    BY <2>1, <2>2
<1>10. ASSUME NEW p \in P
       PROVE  f[h + 1][p] = FilledOne(f[h + 1], p, u)
  <2>1. \A q \in Inner(p) : q \in P /\ q.height < h
    <3>1. \A q \in Inner(p) : q \in P /\ q.height < p.height /\ q.height \in Nat
      BY <1>2
    <3>2. p.height \in Nat /\ p.height <= h
      BY <1>2, <1>3
    <3> QED
      BY <1>2, <3>1, <3>2
  <2>2. \A q \in Inner(p) : f[h][q] = f[h + 1][q]
    BY <1>9, <2>1
  <2>3. h + 1 \in 1 .. h + 1 /\ (h + 1) - 1 = h
    BY <1>2
  <2>4. f[h + 1][p] = FilledOne(f[h], p, u)
    BY <1>6, <2>3
  <2>5. Good(p, error)
    BY <1>2
  <2>6. FilledOne(f[h], p, u) = FilledOne(f[h + 1], p, u)
    BY <2>2, <2>5, FilledOneSame
  <2> QED
    BY <2>4, <2>6
<1>11. FillMap(f[h + 1], P, u)
  BY <1>2, <1>10 DEF FillMap
<1> QED
  BY <1>4, <1>11 DEF P

\* A type that may be filled in.
Filling(u) == Good(u, FALSE) /\ u \notin Poison /\ (u.kind = "POINTER" => u.inner # Unknown)

\* The fillings that the property tries are some of those the proof is about.
LEMMA FillingsFill == \A u \in Fillings : Filling(u)
<1>1. Leaf(I32) /\ Leaf(Str) /\ Leaf(Bool)
  BY DEF Leaf, I32, Str, Bool, PrimitiveNames, BitWidth
<1>2. I32 # InferError /\ Str # InferError /\ Bool # InferError
  BY DEF I32, Str, Bool, Primitive, InferError
<1>3. Good(I32, FALSE) /\ Good(Str, FALSE) /\ Good(Bool, FALSE)
  BY <1>1, <1>2, GoodLeaf
<1>4. Good(Pointer(I32), FALSE) /\ Good(Fallible(Str), FALSE)
  BY <1>3, GoodWraps DEF Wraps
<1>5. \A u \in Fillings : u \notin Poison /\ (u.kind = "POINTER" => u.inner # Unknown)
  BY DEF Fillings, I32, Str, Bool, Primitive, Pointer, Fallible, Poison, Unknown, InferError
<1> QED
  BY <1>3, <1>4, <1>5 DEF Fillings, Filling

\* What becomes of a type.
FillShaped(F, p, u) ==
  /\ p = InferError => F[p] = u
  /\ p # InferError => F[p].kind = p.kind
  /\ p # InferError /\ p.kind \notin Wrapping \cup {"TUPLE"} => F[p] = p
  /\ p.kind \in Wrapping => F[p].inner = F[p.inner]
  /\ p.kind = "ARRAY" => F[p].size = p.size
  /\ p.kind = "TUPLE" =>
       /\ DOMAIN F[p].elems = {1, 2} /\ Len(F[p].elems) = 2
       /\ F[p].elems[1] = F[p.elems[1]] /\ F[p].elems[2] = F[p.elems[2]]
  /\ Good(F[p], FALSE)

\* What a part becomes, given that what it is made of has become types.
LEMMA FillShape ==
  ASSUME NEW F, NEW P, NEW u, NEW error, FillMap(F, P, u), Filling(u),
         NEW p \in P, Good(p, error),
         \A q \in Inner(p) : Good(F[q], FALSE)
  PROVE  FillShaped(F, p, u)
<1>0. F[p] = FilledOne(F, p, u)
  BY DEF FillMap
<1>1. CASE Leaf(p)
  <2>1. p.kind \notin Wrapping \cup {"TUPLE"}
    BY <1>1, LeafFacts DEF Wrapping
  <2>2. CASE p = InferError
    <3>1. F[p] = u
      BY <1>0, <2>2 DEF FilledOne, InferError, Wrapping
    <3> QED
      BY <2>1, <2>2, <3>1 DEF Filling, Wrapping, FillShaped
  <2>3. CASE p # InferError
    <3>1. F[p] = p
      BY <1>0, <2>1, <2>3 DEF FilledOne
    <3>2. Good(p, FALSE)
      BY <1>1, <2>3, GoodLeaf
    <3> QED
      BY <2>1, <2>3, <3>1, <3>2 DEF Wrapping, FillShaped
  <2> QED
    BY <2>2, <2>3
<1>2. CASE \E v : Good(v, error) /\ Wraps(p, v)
  <2>1. PICK v : Good(v, error) /\ Wraps(p, v)
    BY <1>2
  <2>2. v.height \in Nat
    BY <2>1, GoodCases
  <2>3. p.kind \in Wrapping /\ p.inner = v /\ Inner(p) = {v}
    BY <2>1, <2>2, WrapsFacts
  <2>4. Good(F[v], FALSE) /\ p # InferError /\ p.kind # "TUPLE"
    <3>1. v \in Inner(p)
      BY <2>3
    <3>2. p # InferError /\ p.kind # "TUPLE"
      BY <2>3 DEF InferError, Wrapping
    <3> QED
      BY <3>1, <3>2
  <2> DEFINE w == F[v]
  <2>5. F[p] = [p EXCEPT !.inner = w, !.height = Above({w})]
    BY <1>0, <2>3, <2>4 DEF FilledOne
  <2> HIDE DEF w
  <2>6. /\ F[p].kind = p.kind /\ F[p].inner = w
        /\ p.kind = "ARRAY" => F[p].size = p.size
        /\ Wraps(F[p], w)
    <3>1. CASE p = Pointer(v)
      BY <2>5, <3>1 DEF Pointer, Wraps
    <3>2. CASE p = Fallible(v)
      BY <2>5, <3>2 DEF Fallible, Wraps
    <3>3. CASE \E n : p = Array(v, n)
      <4>1. PICK n : p = Array(v, n)
        BY <3>3
      <4>2. F[p] = Array(w, n)
        BY <2>5, <4>1 DEF Array
      <4>3. Wraps(F[p], w)
        BY <4>2 DEF Wraps
      <4> QED
        BY <4>1, <4>2, <4>3 DEF Array
    <3> QED
      BY <2>1, <3>1, <3>2, <3>3 DEF Wraps
  <2>7. Good(F[p], FALSE)
    BY <2>4, <2>6, GoodWraps DEF w
  <2> QED
    BY <2>3, <2>4, <2>6, <2>7 DEF w, Wrapping, FillShaped
<1>3. CASE \E v, w : Good(v, error) /\ Good(w, error) /\ Pairs(p, v, w)
  <2>1. PICK v, w : Good(v, error) /\ Good(w, error) /\ Pairs(p, v, w)
    BY <1>3
  <2>2. v.height \in Nat /\ w.height \in Nat
    BY <2>1, GoodCases
  <2>3. /\ p.kind = "TUPLE" /\ DOMAIN p.elems = {1, 2} /\ p.elems[1] = v /\ p.elems[2] = w
        /\ Inner(p) = {v, w}
    BY <2>1, <2>2, TupleFacts
  <2>4. Good(F[v], FALSE) /\ Good(F[w], FALSE) /\ p # InferError
    <3>1. v \in Inner(p) /\ w \in Inner(p)
      BY <2>3
    <3>2. p # InferError
      BY <2>3 DEF InferError
    <3> QED
      BY <3>1, <3>2
  <2>5. F[p] = Tuple([i \in DOMAIN p.elems |-> F[p.elems[i]]])
    BY <1>0, <2>3, <2>4 DEF FilledOne, Wrapping
  <2>6. [i \in DOMAIN p.elems |-> F[p.elems[i]]] = <<F[v], F[w]>>
    BY <2>3
  <2>7. Pairs(F[p], F[v], F[w])
    BY <2>5, <2>6 DEF Pairs
  <2>8. F[v].height \in Nat /\ F[w].height \in Nat
    BY <2>4, GoodCases
  <2> DEFINE a == F[p]
             b == F[v]
             c == F[w]
  <2>9. /\ F[p].kind = "TUPLE" /\ F[p].elems[1] = F[v] /\ F[p].elems[2] = F[w]
        /\ DOMAIN F[p].elems = {1, 2} /\ Len(F[p].elems) = 2
    <3>1. Pairs(a, b, c) /\ b.height \in Nat /\ c.height \in Nat
      BY <2>7, <2>8
    <3> HIDE DEF a, b, c
    <3>2. /\ a.kind = "TUPLE" /\ a.elems[1] = b /\ a.elems[2] = c
          /\ DOMAIN a.elems = {1, 2} /\ Len(a.elems) = 2
      BY <3>1, TupleFacts
    <3> QED
      BY <3>2 DEF a, b, c
  <2>10. Good(F[p], FALSE)
    BY <2>4, <2>7, GoodTuple
  <2> QED
    BY <2>3, <2>4, <2>9, <2>10 DEF Wrapping, FillShaped
<1> QED
  BY <1>1, <1>2, <1>3, GoodCases

\* What the parts of a type become are types.
LEMMA FillGood ==
  ASSUME NEW X, NEW error, TypeSet(X, error), NEW P, P \subseteq X,
         NEW F, NEW u, FillMap(F, P, u), Filling(u), NEW t \in P
  PROVE  Good(F[t], FALSE)
<1> DEFINE h == t.height
           Ready(k) == \A p \in P : p.height <= k => Good(F[p], FALSE)
           T == {k \in 0 .. h : Ready(k)}
<1>1. \A p \in P : /\ p.height \in Nat /\ Good(p, error)
                   /\ \A q \in Inner(p) : q \in P /\ q.height \in Nat /\ q.height < p.height
  <2>1. \A p \in P : Inner(p) \subseteq P
    BY DEF FillMap
  <2> QED
    BY <2>1, TypeSetFacts DEF Good
<1>0. h \in Nat
  BY <1>1
<1> HIDE DEF h
<1>2. 0 \in T
  <2>1. ASSUME NEW p \in P, p.height <= 0
        PROVE  Good(F[p], FALSE)
    <3>1. \A q \in Inner(p) : Good(F[q], FALSE)
      BY <1>1, <2>1
    <3> QED
      BY <1>1, <3>1, FillShape DEF FillShaped
  <2>2. Ready(0)
    BY <2>1
  <2> HIDE DEF Ready
  <2> QED
    BY <1>0, <2>2
<1>3. ASSUME NEW k \in 1 .. h, k - 1 \in T
      PROVE  k \in T
  <2>1. ASSUME NEW p \in P, p.height <= k
        PROVE  Good(F[p], FALSE)
    <3>1. \A q \in Inner(p) : q \in P /\ q.height <= k - 1
      BY <1>1, <2>1
    <3>2. \A q \in Inner(p) : Good(F[q], FALSE)
      BY <1>3, <3>1
    <3> QED
      BY <1>1, <3>2, FillShape DEF FillShaped
  <2>2. Ready(k)
    BY <2>1
  <2> HIDE DEF Ready
  <2> QED
    BY <1>0, <2>2
<1>4. h \in T
  <2>2. 0 .. h \subseteq T
    <3> HIDE DEF T
    <3> QED
      BY <1>0, <1>2, <1>3, UpTo
  <2>3. h \in 0 .. h
    BY <1>0
  <2> HIDE DEF T
  <2> QED
    BY <2>2, <2>3
<1>5. Ready(h)
  BY <1>4
<1>6. t.height <= h
  BY <1>0 DEF h
<1> QED
  BY <1>5, <1>6

\* All that is needed about a type t and what it becomes.
FilledIn(F, P, t, u, error) ==
  /\ t \in P
  /\ \A p \in P : Good(p, error) /\ Inner(p) \subseteq P /\ FillShaped(F, p, u)

\* A type filled in, by a map of its parts with all these facts.
LEMMA FilledInIs ==
  ASSUME NEW t, NEW error, Good(t, error), NEW u, Filling(u)
  PROVE  \E F : Filled(t, u) = F[t] /\ FilledIn(F, Parts(t), t, u, error)
<1>1. PICK X : t \in X /\ TypeSet(X, error)
  BY DEF Good
<1>2. PICK F : Filled(t, u) = F[t] /\ FillMap(F, Parts(t), u)
  BY FilledIs
<1>3. t \in Parts(t) /\ Parts(t) \subseteq X
  BY <1>1, PartsClosed
<1>4. \A p \in Parts(t) : Good(p, error) /\ Good(F[p], FALSE) /\ Inner(p) \subseteq Parts(t)
  BY <1>1, <1>2, <1>3, FillGood DEF Good, FillMap
<1>5. \A p \in Parts(t) : FillShaped(F, p, u)
  <2>1. \A p \in Parts(t) : \A q \in Inner(p) : Good(F[q], FALSE)
    BY <1>4
  <2> QED
    BY <1>2, <1>4, <2>1, FillShape
<1>6. FilledIn(F, Parts(t), t, u, error)
  BY <1>3, <1>4, <1>5 DEF FilledIn
<1> QED
  BY <1>2, <1>6

\* Types that become equal are equal, as far as they are known.
LEMMA EqualsFilled ==
  ASSUME NEW F, NEW P, NEW a, NEW G, NEW Q, NEW b, NEW u, NEW error,
         FilledIn(F, P, a, u, error), FilledIn(G, Q, b, u, error), Filling(u),
         NEW x \in P, NEW y \in Q, Equals(F[x], G[y])
  PROVE  Equals(x, y)
<1>1. Good(F[x], FALSE) /\ Good(G[y], FALSE) /\ Good(x, error) /\ Good(y, error)
  BY DEF FilledIn, FillShaped
<1>2. PICK S : <<F[x], G[y]>> \in S /\ Agreed(S)
  BY <1>1, EqualsOnly, Zenon
<1> DEFINE R == {r \in P \X Q : <<F[r[1]], G[r[2]]>> \in S}
<1>3. \A v \in P, w \in Q : <<F[v], G[w]>> \in S => <<v, w>> \in R
  OBVIOUS
<1>4. <<x, y>> \in R
  BY <1>2, <1>3
<1>5. ASSUME NEW r \in R
      PROVE  Alike(r) /\ InnerPairs(r) \subseteq R
  <2>1. PICK v \in P, w \in Q : r = <<v, w>> /\ <<F[v], G[w]>> \in S
    OBVIOUS
  <2> HIDE DEF R
  <2>2. Good(v, error) /\ Inner(v) \subseteq P /\ FillShaped(F, v, u)
    BY DEF FilledIn
  <2>3. Good(w, error) /\ Inner(w) \subseteq Q /\ FillShaped(G, w, u)
    BY DEF FilledIn
  <2>4. Alike(<<F[v], G[w]>>) /\ InnerPairs(<<F[v], G[w]>>) \subseteq S
    BY <1>2, <2>1 DEF Agreed
  <2>5. F[v] # InferError /\ G[w] # InferError
    BY <2>2, <2>3, GoodCases DEF FillShaped
  <2>6. CASE v = InferError \/ w = InferError
    <3>1. Alike(<<v, w>>)
      BY <2>6 DEF Alike
    <3>2. InnerPairs(<<v, w>>) = {}
      BY <2>2, <2>3, <2>6, InnerPairsCases
    <3> QED
      BY <2>1, <3>1, <3>2
  <2>7. CASE v # InferError /\ w # InferError
    <3>1. v.kind = w.kind
      BY <2>2, <2>3, <2>4, <2>5, <2>7 DEF Alike, FillShaped
    <3>2. v.kind \in {"UNKNOWN", "PRIMITIVE", "TUPLE"} \cup Wrapping
      BY <2>2, <2>7, GoodKinds
    <3>3. Alike(<<v, w>>)
      <4>1. CASE v.kind \in {"UNKNOWN", "PRIMITIVE"}
        <5>1. F[v] = v /\ G[w] = w
          BY <2>2, <2>3, <2>7, <3>1, <4>1 DEF Wrapping, FillShaped
        <5> QED
          BY <2>4, <5>1
      <4>2. CASE v.kind = "TUPLE"
        BY <2>2, <2>3, <3>1, <4>2, GoodKinds DEF Alike, NamedKind
      <4>3. CASE v.kind \in Wrapping
        BY <2>2, <2>3, <2>4, <2>5, <2>7, <3>1, <4>3 DEF Alike, NamedKind, Wrapping, FillShaped
      <4> QED
        BY <3>2, <4>1, <4>2, <4>3
    <3>4. InnerPairs(<<v, w>>) \subseteq R
      <4>1. CASE v.kind \in {"UNKNOWN", "PRIMITIVE"}
        BY <2>2, <2>3, <4>1, InnerPairsCases DEF Wrapping
      <4>2. CASE v.kind = "TUPLE"
        <5>1. InnerPairs(<<v, w>>) =
                {<<v.elems[1], w.elems[1]>>, <<v.elems[2], w.elems[2]>>}
          BY <2>2, <2>3, <2>7, <3>3, <4>2, InnerPairsCases
        <5>2. InnerPairs(<<F[v], G[w]>>) =
                {<<F[v].elems[1], G[w].elems[1]>>, <<F[v].elems[2], G[w].elems[2]>>}
          <6>1. F[v].kind = "TUPLE" /\ Good(F[v], FALSE) /\ Good(G[w], FALSE)
            BY <2>2, <2>3, <2>7, <4>2 DEF FillShaped
          <6> QED
            BY <2>4, <2>5, <6>1, InnerPairsCases
        <5>3. /\ <<F[v.elems[1]], G[w.elems[1]]>> \in S
              /\ <<F[v.elems[2]], G[w.elems[2]]>> \in S
          BY <2>2, <2>3, <2>4, <3>1, <4>2, <5>2 DEF FillShaped
        <5>4. /\ v.elems[1] \in P /\ v.elems[2] \in P
              /\ w.elems[1] \in Q /\ w.elems[2] \in Q
          <6>1. DOMAIN v.elems = {1, 2} /\ DOMAIN w.elems = {1, 2}
            BY <2>2, <2>3, <3>1, <4>2, GoodKinds
          <6> QED
            BY <2>2, <2>3, <3>1, <4>2, <6>1 DEF Inner, Wrapping
        <5> QED
          BY <1>3, <5>1, <5>3, <5>4
      <4>3. CASE v.kind \in Wrapping
        <5>1. InnerPairs(<<v, w>>) = {<<v.inner, w.inner>>}
          BY <2>2, <2>3, <2>7, <3>3, <4>3, InnerPairsCases
        <5>2. InnerPairs(<<F[v], G[w]>>) = {<<F[v].inner, G[w].inner>>}
          <6>1. F[v].kind \in Wrapping /\ Good(F[v], FALSE) /\ Good(G[w], FALSE)
            BY <2>2, <2>3, <2>7, <4>3 DEF FillShaped
          <6> QED
            BY <2>4, <2>5, <6>1, InnerPairsCases
        <5>3. <<F[v.inner], G[w.inner]>> \in S
          BY <2>2, <2>3, <2>4, <3>1, <4>3, <5>2 DEF FillShaped
        <5>4. v.inner \in P /\ w.inner \in Q
          BY <2>2, <2>3, <3>1, <4>3 DEF Inner, Wrapping
        <5> QED
          BY <1>3, <5>1, <5>3, <5>4
      <4> QED
        BY <3>2, <4>1, <4>2, <4>3
    <3> QED
      BY <2>1, <3>3, <3>4
  <2> QED
    BY <2>6, <2>7
<1>6. Agreed(R)
  BY <1>5 DEF Agreed
<1> HIDE DEF R
<1> QED
  BY <1>1, <1>4, <1>6, EqualsIf

\* What a part becomes, by what it is.
LEMMA FilledKind ==
  ASSUME NEW F, NEW P, NEW a, NEW u, NEW error, FilledIn(F, P, a, u, error), Filling(u),
         NEW x \in P, x # InferError
  PROVE  /\ F[x].kind = x.kind
         /\ F[x] \in Poison => x = Unknown
         /\ F[x].kind = "PRIMITIVE" => F[x] = x
         /\ x.kind \in Wrapping =>
              /\ x.inner \in P
              /\ F[x].inner = F[x.inner]
              /\ F[x.inner] = Unknown => x.inner = Unknown
<1>1. Good(x, error) /\ Inner(x) \subseteq P /\ FillShaped(F, x, u)
  BY DEF FilledIn
<1>2. F[x].kind = x.kind
  BY <1>1 DEF FillShaped
<1>3. F[x] \in Poison => x = Unknown
  BY <1>1, <1>2, GoodKinds DEF Poison, Unknown, InferError
<1>4. F[x].kind = "PRIMITIVE" => F[x] = x
  BY <1>1, <1>2 DEF FillShaped, Wrapping
<1>5. ASSUME x.kind \in Wrapping
      PROVE  /\ x.inner \in P
             /\ F[x].inner = F[x.inner]
             /\ F[x.inner] = Unknown => x.inner = Unknown
  <2>1. x.inner \in P
    BY <1>1, <1>5 DEF Inner, Wrapping
  <2>2. Good(x.inner, error) /\ FillShaped(F, x.inner, u)
    BY <2>1 DEF FilledIn
  <2>3. x.inner = InferError => F[x.inner] # Unknown
    BY <2>2 DEF FillShaped, Filling, Poison
  <2>4. x.inner # InferError /\ F[x.inner] = Unknown => x.inner = Unknown
    BY <2>2, GoodKinds DEF FillShaped, Unknown
  <2> QED
    BY <1>1, <1>5, <2>1, <2>3, <2>4 DEF FillShaped
<1> QED
  BY <1>2, <1>3, <1>4, <1>5

\* What is allowed of what types become is allowed of them.
LEMMA PartsFilled ==
  ASSUME NEW F, NEW P, NEW a, NEW G, NEW Q, NEW b, NEW u, NEW error,
         FilledIn(F, P, a, u, error), FilledIn(G, Q, b, u, error), Filling(u),
         NEW x \in P, NEW y \in Q, x # InferError, y # InferError
  PROVE  /\ Equals(F[x], G[y]) => Equals(x, y)
         /\ Lenient(F[x], G[y]) => Lenient(x, y)
         /\ LiteralAdapts(F[x], G[y]) => LiteralAdapts(x, y)
         /\ LiteralAdapts(G[y], F[x]) => LiteralAdapts(y, x)
<1>1. Equals(F[x], G[y]) => Equals(x, y)
  BY EqualsFilled
<1>2. /\ F[x].kind = x.kind
      /\ F[x] \in Poison => x = Unknown
      /\ F[x].kind = "PRIMITIVE" => F[x] = x
      /\ x.kind \in Wrapping => F[x].inner = F[x.inner] /\ (F[x.inner] = Unknown => x.inner = Unknown)
  BY FilledKind
<1>3. /\ G[y].kind = y.kind
      /\ G[y] \in Poison => y = Unknown
      /\ G[y].kind = "PRIMITIVE" => G[y] = y
      /\ y.kind \in Wrapping => G[y].inner = G[y.inner] /\ (G[y.inner] = Unknown => y.inner = Unknown)
  BY FilledKind
<1>4. ASSUME Lenient(F[x], G[y])
      PROVE  Lenient(x, y)
  <2>1. CASE F[x] \in Poison \/ G[y] \in Poison
    BY <1>2, <1>3, <2>1 DEF Lenient, Poison
  <2>2. CASE F[x].kind = "POINTER" /\ G[y].kind = "POINTER" /\ Unknown \in {F[x].inner, G[y].inner}
    BY <1>2, <1>3, <2>2 DEF Lenient, Wrapping
  <2> QED
    BY <1>4, <2>1, <2>2 DEF Lenient
<1>5. LiteralAdapts(F[x], G[y]) => LiteralAdapts(x, y)
  BY <1>2, <1>3 DEF LiteralAdapts, IsPrim, IsInteger, IsNumeric
<1>6. LiteralAdapts(G[y], F[x]) => LiteralAdapts(y, x)
  BY <1>2, <1>3 DEF LiteralAdapts, IsPrim, IsInteger, IsNumeric
<1> QED
  BY <1>1, <1>4, <1>5, <1>6

\* The same of the type itself.
LEMMA FilledRoot ==
  ASSUME NEW t, NEW error, Good(t, error), NEW u, Filling(u)
  PROVE  /\ t = InferError => Filled(t, u) = u
         /\ t # InferError =>
              /\ Filled(t, u).kind = t.kind
              /\ Filled(t, u) \in Poison => t = Unknown
              /\ Filled(t, u).kind = "PRIMITIVE" => Filled(t, u) = t
<1>1. PICK F : Filled(t, u) = F[t] /\ FilledIn(F, Parts(t), t, u, error)
  BY FilledInIs
<1>2. t \in Parts(t)
  BY <1>1 DEF FilledIn
<1>3. t = InferError => F[t] = u
  BY <1>1, <1>2 DEF FilledIn, FillShaped
<1> QED
  BY <1>1, <1>2, <1>3, FilledKind

LEMMA AssignableFilled ==
  ASSUME NEW a, NEW b, NEW error, Good(a, error), Good(b, error), b # InferError,
         NEW u, Filling(u), Assignable(Filled(a, u), Filled(b, u))
  PROVE  Assignable(a, b)
<1>1. PICK F : Filled(a, u) = F[a] /\ FilledIn(F, Parts(a), a, u, error)
  BY FilledInIs
<1>2. PICK G : Filled(b, u) = G[b] /\ FilledIn(G, Parts(b), b, u, error)
  BY FilledInIs
<1>3. /\ a \in Within(a) /\ Within(a) \subseteq Parts(a) /\ b \in Parts(b)
      /\ \A x \in Within(a) : Good(x, error) /\ Succeeding(x) \subseteq Within(a)
  BY <1>2, WithinClosed DEF FilledIn
<1>4. CASE InferError \in Within(a)
  <2>1. AssignsTo(InferError, b)
    BY DEF AssignsTo, Lenient, Poison
  <2> QED
    BY <1>4, <2>1, AssignableIs
<1>5. CASE InferError \notin Within(a)
  <2> DEFINE Z == {F[x] : x \in Within(a)}
  <2>1. F[a] \in Z /\ Good(F[a], FALSE)
    BY <1>1, <1>3 DEF FilledIn, FillShaped
  <2>2. ASSUME NEW z \in Z
        PROVE  Succeeding(z) \subseteq Z
    <3>1. PICK x \in Within(a) : z = F[x]
      OBVIOUS
    <3>2. x \in Parts(a) /\ x # InferError
      BY <1>3, <1>5
    <3>3. F[x].kind = x.kind /\ (x.kind \in Wrapping => F[x].inner = F[x.inner])
      BY <1>1, <3>2, FilledKind
    <3>4. x.kind = "FALLIBLE" => x.inner \in Within(a) /\ Succeeding(z) = {F[x.inner]}
      BY <1>3, <3>1, <3>3 DEF Succeeding, Wrapping
    <3>5. x.kind # "FALLIBLE" => Succeeding(z) = {}
      BY <3>1, <3>3 DEF Succeeding
    <3> QED
      BY <3>4, <3>5
  <2>3. Within(F[a]) \subseteq Z
    <3> HIDE DEF Z
    <3> QED
      BY <2>1, <2>2, WithinLeast
  <2>4. PICK s \in Within(F[a]) : AssignsTo(s, G[b])
    BY <1>1, <1>2, AssignableIs
  <2>5. PICK x \in Within(a) : s = F[x]
    BY <2>3, <2>4
  <2>6. x \in Parts(a) /\ x # InferError
    BY <1>3, <1>5
  <2>7. /\ Equals(F[x], G[b]) => Equals(x, b)
        /\ Lenient(F[x], G[b]) => Lenient(x, b)
        /\ LiteralAdapts(F[x], G[b]) => LiteralAdapts(x, b)
    BY <1>1, <1>2, <1>3, <2>6, PartsFilled
  <2>8. IsPrim(G[b], "Error") => IsPrim(b, "Error")
    BY <1>2, <1>3, FilledKind DEF IsPrim
  <2>9. AssignsTo(x, b)
    BY <2>4, <2>5, <2>7, <2>8 DEF AssignsTo
  <2> QED
    BY <2>9, AssignableIs
<1> QED
  BY <1>4, <1>5

\* So it is with comparisons.
LEMMA ComparableFilled ==
  ASSUME NEW a, NEW b, NEW error, Good(a, error), Good(b, error), a # InferError, b # InferError,
         NEW u, Filling(u)
  PROVE  /\ Equals(Filled(a, u), Filled(b, u)) => Equals(a, b)
         /\ Comparable(Filled(a, u), Filled(b, u)) => Comparable(a, b)
<1>1. PICK F : Filled(a, u) = F[a] /\ FilledIn(F, Parts(a), a, u, error)
  BY FilledInIs
<1>2. PICK G : Filled(b, u) = G[b] /\ FilledIn(G, Parts(b), b, u, error)
  BY FilledInIs
<1>3. a \in Parts(a) /\ b \in Parts(b)
  BY <1>1, <1>2 DEF FilledIn
<1>4. /\ Equals(F[a], G[b]) => Equals(a, b)
      /\ Lenient(F[a], G[b]) => Lenient(a, b)
      /\ LiteralAdapts(F[a], G[b]) => LiteralAdapts(a, b)
      /\ LiteralAdapts(G[b], F[a]) => LiteralAdapts(b, a)
  BY <1>1, <1>2, <1>3, PartsFilled
<1> QED
  BY <1>1, <1>2, <1>4 DEF Comparable

\* A check of two types that is passed by what they become is passed by them.
LEMMA RulesOfTwo ==
  ASSUME NEW a, NEW b, NEW error, Good(a, error), Good(b, error), NEW u, Filling(u),
         NEW rule \in {"assign", "arithmetic", "literal", "compare", "logical"},
         Rule(rule, <<Filled(a, u), Filled(b, u)>>)
  PROVE  Rule(rule, <<a, b>>)
<1> DEFINE x == Filled(a, u)
           y == Filled(b, u)
<1>1. SUFFICES ASSUME Resolved(a), Resolved(b)
               PROVE  Rule(rule, <<a, b>>)
  BY DEF Rule, Fields, BothResolved
<1>2. a # InferError /\ b # InferError /\ a \notin Poison /\ b \notin Poison
  BY <1>1 DEF Resolved, Poison
<1>3. /\ x.kind = a.kind /\ x \notin Poison /\ (x.kind = "PRIMITIVE" => x = a)
      /\ y.kind = b.kind /\ y \notin Poison /\ (y.kind = "PRIMITIVE" => y = b)
  BY <1>2, FilledRoot DEF Poison
<1>4. /\ Assignable(x, y) => Assignable(a, b)
      /\ Assignable(y, x) => Assignable(b, a)
      /\ Equals(x, y) => Equals(a, b)
      /\ Comparable(x, y) => Comparable(a, b)
  BY <1>2, AssignableFilled, ComparableFilled
<1>5. Resolved(x) /\ Resolved(y)
  BY <1>3 DEF Resolved
<1> HIDE DEF x, y
<1>6. Rule(rule, <<x, y>>)
  BY DEF x, y
<1>7. CASE rule = "assign"
  BY <1>4, <1>5, <1>6, <1>7 DEF Rule, Fields, BothResolved
<1>8. CASE rule = "arithmetic"
  <2>1. Adds(x, y, FALSE)
    BY <1>5, <1>6, <1>8 DEF Rule, Fields, BothResolved
  <2>2. Adds(a, b, FALSE)
    BY <1>3, <1>4, <2>1 DEF Adds
  <2> QED
    BY <1>8, <2>2 DEF Rule, Fields
<1>9. CASE rule = "literal"
  <2>1. Adds(x, y, TRUE)
    BY <1>5, <1>6, <1>9 DEF Rule, Fields, BothResolved
  <2>2. Adds(a, b, TRUE)
    BY <1>3, <1>4, <2>1 DEF Adds
  <2> QED
    BY <1>9, <2>2 DEF Rule, Fields
<1>10. CASE rule = "compare"
  BY <1>4, <1>5, <1>6, <1>10 DEF Rule, Fields, BothResolved
<1>11. CASE rule = "logical"
  <2>1. IsBool(x) /\ IsBool(y)
    BY <1>5, <1>6, <1>11 DEF Rule, Fields, BothResolved
  <2>2. IsBool(a) /\ IsBool(b)
    BY <1>3, <2>1 DEF IsBool, IsPrim
  <2> QED
    BY <1>11, <2>2 DEF Rule, Fields
<1> QED
  BY <1>7, <1>8, <1>9, <1>10, <1>11

RulesOfOneType == {UnaryRule(form) : form \in UnaryForms} \cup Patterns

LEMMA UnaryRules ==
  {UnaryRule(form) : form \in UnaryForms} \subseteq
    {"unresolved", "pointer", "bool", "fallible", "any"} \cup Fields
  BY DEF UnaryRule, UnaryForms, Fields

\* So it is with the rules for one type, and so a failing rule is never the
\* fault of the poison.
LEMMA RulesOfOne ==
  ASSUME NEW a, NEW error, Good(a, error), NEW u, Filling(u),
         NEW rule \in RulesOfOneType,
         Rule(rule, <<Filled(a, u)>>)
  PROVE  Rule(rule, <<a>>)
<1> DEFINE x == Filled(a, u)
<1>1. /\ a = InferError => x = u
      /\ a # InferError => /\ x.kind = a.kind /\ (x.kind = "PRIMITIVE" => x = a)
                           /\ x \in Poison => a = Unknown
  BY FilledRoot
<1>2. u \notin Poison /\ InferError \in Poison
  BY DEF Filling, Poison
<1> HIDE DEF x
<1>3. Rule(rule, <<x>>)
  BY DEF x
<1>4. a = Unknown => a.kind = "UNKNOWN"
  BY DEF Unknown
<1>5. CASE rule = "unresolved"
  BY <1>1, <1>2, <1>3, <1>5 DEF Rule, Fields, Resolved, Poison
<1>6. CASE ~Resolved(a) /\ rule \in {"pointer", "bool", "fallible", "number pattern",
                                    "str pattern", "bool pattern", "destructure"}
  BY <1>6 DEF Rule, Fields
<1>7. ASSUME Resolved(a)
      PROVE  x.kind = a.kind /\ (x.kind = "PRIMITIVE" => x = a) /\ Resolved(x)
  BY <1>1, <1>2, <1>7 DEF Resolved, Poison
<1>8. CASE Resolved(a) /\ rule \in {"pointer", "fallible", "number pattern", "destructure"}
  <2>1. x.kind = a.kind /\ Resolved(x)
    BY <1>7, <1>8
  <2> QED
    BY <1>3, <1>8, <2>1 DEF Rule, Fields
<1>9. CASE Resolved(a) /\ rule \in {"bool", "str pattern", "bool pattern"}
  <2>1. (x.kind = "PRIMITIVE" => x = a) /\ Resolved(x)
    BY <1>7, <1>9
  <2> QED
    BY <1>3, <1>9, <2>1 DEF Rule, Fields, IsBool, IsPrim
<1>10. CASE rule \in Fields
  <2>1. FieldOf(x, rule) # InferError
    BY <1>3, <1>10 DEF Rule, Fields
  <2>2. FieldOf(a, rule) # InferError
    <3>1. CASE a = InferError
      BY <3>1 DEF FieldOf, InferError, Unknown, IsPrim
    <3>2. CASE a # InferError
      BY <1>1, <2>1, <3>2 DEF FieldOf, IsPrim
    <3> QED
      BY <3>1, <3>2
  <2> QED
    BY <1>10, <2>2 DEF Rule, Fields
<1>11. CASE rule \in {"any", "name", "other"}
  BY <1>11 DEF Rule, Fields
<1>12. rule \in {"unresolved", "pointer", "bool", "fallible", "any"} \cup Fields \cup Patterns
  BY UnaryRules DEF RulesOfOneType
<1> QED
  BY <1>5, <1>6, <1>8, <1>9, <1>10, <1>11, <1>12 DEF Patterns

LEMMA OwnFaultOfTwo ==
  ASSUME NEW a, NEW b, NEW error, Good(a, error), Good(b, error),
         NEW rules, rules \subseteq {"assign", "arithmetic", "literal", "compare", "logical"}
  PROVE  OwnFault(rules, <<a, b>>)
<1> DEFINE types == <<a, b>>
<1>1. SUFFICES ASSUME NEW rule \in rules, NEW u \in Fillings,
                      Rule(rule, [i \in DOMAIN types |-> Filled(types[i], u)])
               PROVE  Rule(rule, types)
  BY DEF OwnFault
<1>2. [i \in DOMAIN types |-> Filled(types[i], u)] = <<Filled(a, u), Filled(b, u)>>
  OBVIOUS
<1> QED
  BY <1>1, <1>2, RulesOfTwo, FillingsFill

LEMMA OwnFaultOfOne ==
  ASSUME NEW a, NEW error, Good(a, error), NEW rules, rules \subseteq RulesOfOneType
  PROVE  OwnFault(rules, <<a>>)
<1> DEFINE types == <<a>>
<1>1. SUFFICES ASSUME NEW rule \in rules, NEW u \in Fillings,
                      Rule(rule, [i \in DOMAIN types |-> Filled(types[i], u)])
               PROVE  Rule(rule, types)
  BY DEF OwnFault
<1>2. [i \in DOMAIN types |-> Filled(types[i], u)] = <<Filled(a, u)>>
  OBVIOUS
<1> QED
  BY <1>1, <1>2, RulesOfOne, FillingsFill

----------------------------------------------------------------------------
(* Literals that initialize variables                                      *)

\* The types of numbers.
LEMMA Widths ==
  ASSUME NEW name \in DOMAIN BitWidth
  PROVE  /\ BitWidth[name] \in Nat /\ BitWidth[name] >= 8
         /\ Primitive(name).kind = "PRIMITIVE" /\ Primitive(name).name = name
         /\ IsNumeric(Primitive(name))
  BY DEF BitWidth, Primitive, IsNumeric

LEMMA LimitsAre ==
  ASSUME NEW value \in Limits
  PROVE  value = <<value[1], value[2]>> /\ value[1] \in Nat /\ value[2] \in {0 - 1, 0}
<1>1. PICK e \in {0, 127, 128}
              \cup UNION {{BitWidth[name] - 1, BitWidth[name]} : name \in DOMAIN BitWidth},
           d \in {0 - 1, 0} : value = <<e, d>>
  BY DEF Limits
<1>2. e \in Nat
  <2>1. CASE e \in {0, 127, 128}
    BY <2>1
  <2>2. CASE e \notin {0, 127, 128}
    <3>1. PICK name \in DOMAIN BitWidth : e \in {BitWidth[name] - 1, BitWidth[name]}
      BY <1>1, <2>2
    <3> QED
      BY <3>1, Widths
  <2> QED
    BY <2>1, <2>2
<1> QED
  BY <1>1, <1>2

\* One literal of one type: the comparisons of powers of two, and the count of bits.
LEMMA FitsOrOverflows ==
  ASSUME NEW name \in DOMAIN BitWidth, NEW node, NEW value, NEW e \in Nat, NEW d \in {0 - 1, 0},
         value = <<e, d>>
  PROVE  Overflow(Primitive(name), node, value) <=> ~FitsIn(Primitive(name), node, value)
<1> DEFINE t == Primitive(name)
           w == BitWidth[name]
<1>1. w \in Nat /\ w >= 8 /\ t.kind = "PRIMITIVE" /\ t.name = name /\ IsNumeric(t)
  BY Widths
<1>2. value[1] = e /\ value[2] = d
  OBVIOUS
<1>3. (IsSignedInt(t) => IsInteger(t)) /\ (IsPrim(t, "f32") => ~IsInteger(t))
  BY DEF IsSignedInt, IsInteger, IsPrim, FloatNames
<1>4. IsInteger(t) => (IsSignedInt(t) <=> name \notin UnsignedNames)
  BY <1>1 DEF IsSignedInt
<1> SUFFICES Overflow(t, node, value) <=> ~FitsIn(t, node, value)
  OBVIOUS
<1> HIDE DEF t
<1>5. CASE node = "int"
  <2>1. CASE IsInteger(t)
    <3>1. Overflow(t, node, value) <=> ~AtMost(value, MaxVal(name))
      BY <1>1, <1>5, <2>1 DEF Overflow
    <3>2. FitsIn(t, node, value) <=>
            Bits(value) + (IF IsSignedInt(t) THEN 1 ELSE 0) <= w
      BY <1>1, <1>5, <2>1 DEF FitsIn
    <3>3. CASE IsSignedInt(t)
      <4>1. MaxVal(name) = <<w - 1, 0 - 1>>
        BY <1>4, <2>1, <3>3 DEF MaxVal
      <4> HIDE DEF w
      <4>2. AtMost(value, MaxVal(name)) <=> e < w - 1 \/ (e = w - 1 /\ d <= 0 - 1)
        BY <1>2, <4>1 DEF AtMost
      <4>3. Bits(value) = IF d = 0 THEN e + 1 ELSE e
        BY <1>2 DEF Bits
      <4>4. AtMost(value, MaxVal(name)) <=> Bits(value) + 1 <= w
        BY <1>1, <4>2, <4>3
      <4> QED
        BY <3>1, <3>2, <3>3, <4>4
    <3>4. CASE ~IsSignedInt(t)
      <4>1. MaxVal(name) = <<w, 0 - 1>>
        BY <1>4, <2>1, <3>4 DEF MaxVal
      <4> HIDE DEF w
      <4>2. AtMost(value, MaxVal(name)) <=> e < w \/ (e = w /\ d <= 0 - 1)
        BY <1>2, <4>1 DEF AtMost
      <4>3. Bits(value) = IF d = 0 THEN e + 1 ELSE e
        BY <1>2 DEF Bits
      <4>4. AtMost(value, MaxVal(name)) <=> Bits(value) + 0 <= w
        BY <1>1, <4>2, <4>3
      <4> QED
        BY <3>1, <3>2, <3>4, <4>4
    <3> QED
      BY <3>3, <3>4
  <2>2. CASE ~IsInteger(t)
    <3>1. ~Overflow(t, node, value)
      BY <1>5, <2>2 DEF Overflow
    <3>2. FitsIn(t, node, value)
      BY <1>5, <2>2 DEF FitsIn
    <3> QED
      BY <3>1, <3>2
  <2> QED
    BY <2>1, <2>2
<1>6. CASE node = "-int"
  <2>1. CASE IsInteger(t)
    <3>1. Overflow(t, node, value) <=> (IsSignedInt(t) => ~AtMost(value, MaxNegative(name)))
      BY <1>1, <1>6, <2>1 DEF Overflow
    <3>2. FitsIn(t, node, value) <=> IsSignedInt(t) /\ BitsBefore(value) + 1 <= w
      BY <1>1, <1>6, <2>1 DEF FitsIn
    <3>3. MaxNegative(name) = <<w - 1, 0>>
      BY DEF MaxNegative
    <3> HIDE DEF w
    <3>4. AtMost(value, MaxNegative(name)) <=> BitsBefore(value) + 1 <= w
      BY <1>1, <1>2, <3>3 DEF AtMost, BitsBefore
    <3> QED
      BY <3>1, <3>2, <3>4
  <2>2. CASE ~IsInteger(t)
    <3>1. ~Overflow(t, node, value)
      BY <1>6, <2>2 DEF Overflow
    <3>2. FitsIn(t, node, value)
      BY <1>6, <2>2 DEF FitsIn
    <3> QED
      BY <3>1, <3>2
  <2> QED
    BY <2>1, <2>2
<1>7. CASE node \in {"float", "-float"}
  BY <1>2, <1>3, <1>7 DEF Overflow, FitsIn
<1>8. CASE node \notin {"int", "-int", "float", "-float"}
  BY <1>8 DEF Overflow, FitsIn
<1> QED
  BY <1>5, <1>6, <1>7, <1>8

\* And so all of them.
LEMMA AllInitsFit == InitFits
<1>1. ASSUME NEW name \in DOMAIN BitWidth, NEW node, NEW value \in Values(node, Limits)
      PROVE  Overflow(Primitive(name), node, value) <=> ~FitsIn(Primitive(name), node, value)
  <2>1. value \in Limits \/ value = <<0, 0>>
    BY DEF Values
  <2>2. PICK e \in Nat, d \in {0 - 1, 0} : value = <<e, d>>
    BY <2>1, LimitsAre
  <2> QED
    BY <2>2, FitsOrOverflows
<1> QED
  BY <1>1 DEF InitFits

----------------------------------------------------------------------------
(* The scopes                                                              *)

\* A symbol has a good type or none.
SymbolGood(sym, error) == sym = NoSymbol \/ sym.type = NoType \/ Good(sym.type, error)
ChainGood(ch, error) ==
  Len(ch) >= 1 /\ \E S : ch \in Seq([Names -> S]) /\ \A sym \in S : SymbolGood(sym, error)

\* The scopes stay good when an error is reported, a scope is opened or closed, or
\* a symbol defined in one.
LEMMA ChainMore ==
  ASSUME NEW ch, NEW error, NEW later, ChainGood(ch, error), error => later
  PROVE  ChainGood(ch, later)
<1>1. \A sym : SymbolGood(sym, error) => SymbolGood(sym, later)
  BY GoodMore DEF SymbolGood
<1> QED
  BY <1>1 DEF ChainGood

LEMMA ChainPush ==
  ASSUME NEW ch, NEW error, ChainGood(ch, error)
  PROVE  ChainGood(Push(ch, EmptyScope), error) /\ Len(Push(ch, EmptyScope)) = Len(ch) + 1
<1>1. PICK S : ch \in Seq([Names -> S]) /\ \A sym \in S : SymbolGood(sym, error)
  BY DEF ChainGood
<1> DEFINE Q == S \cup {NoSymbol}
<1>2. ch \in Seq([Names -> Q])
  <2>1. [Names -> S] \subseteq [Names -> Q]
    OBVIOUS
  <2>2. \A i \in 1 .. Len(ch) : ch[i] \in [Names -> Q]
    BY <1>1, <2>1
  <2> QED
    BY <1>1, <2>2, SeqDef
<1>3. EmptyScope \in [Names -> Q]
  BY DEF EmptyScope
<1>4. \A sym \in Q : SymbolGood(sym, error)
  BY <1>1 DEF SymbolGood
<1> HIDE DEF Q
<1>5. Append(ch, EmptyScope) \in Seq([Names -> Q]) /\ Len(Append(ch, EmptyScope)) = Len(ch) + 1
  BY <1>2, <1>3
<1>6. Len(ch) \in Nat /\ Push(ch, EmptyScope) = Append(ch, EmptyScope)
  BY <1>2 DEF Push
<1>7. \E T : /\ Append(ch, EmptyScope) \in Seq([Names -> T])
              /\ \A sym \in T : SymbolGood(sym, error)
  BY <1>4, <1>5, Zenon
<1>8. Len(ch) + 1 >= 1
  BY <1>6
<1> QED
  BY <1>5, <1>6, <1>7, <1>8, Zenon DEF ChainGood

LEMMA ChainPop ==
  ASSUME NEW ch, NEW error, ChainGood(ch, error), Len(ch) >= 2
  PROVE  ChainGood(Pop(ch), error) /\ Len(Pop(ch)) = Len(ch) - 1
<1>1. PICK S : ch \in Seq([Names -> S]) /\ \A sym \in S : SymbolGood(sym, error)
  BY DEF ChainGood
<1> DEFINE Q == [Names -> S]
<1>2. Pop(ch) = SubSeq(ch, 1, Len(ch) - 1)
  BY <1>1 DEF Pop
<1> HIDE DEF Q
<1>3. ch \in Seq(Q) /\ Len(ch) \in Nat
  BY <1>1 DEF Q
<1>4. SubSeq(ch, 1, Len(ch) - 1) \in Seq(Q) /\ Len(SubSeq(ch, 1, Len(ch) - 1)) = Len(ch) - 1
  BY <1>3
<1>5. Len(Pop(ch)) >= 1 /\ Len(Pop(ch)) = Len(ch) - 1 /\ Pop(ch) \in Seq(Q)
  BY <1>2, <1>3, <1>4
<1>6. Pop(ch) \in Seq([Names -> S])
  BY <1>5 DEF Q
<1> QED
  BY <1>1, <1>5, <1>6 DEF ChainGood

LEMMA ChainDefine ==
  ASSUME NEW ch, NEW error, ChainGood(ch, error), NEW name \in Names,
         NEW sym, SymbolGood(sym, error)
  PROVE  ChainGood(Define(ch, name, sym), error) /\ Len(Define(ch, name, sym)) = Len(ch)
<1>1. PICK S : ch \in Seq([Names -> S]) /\ \A s \in S : SymbolGood(s, error)
  BY DEF ChainGood
<1> DEFINE Q == S \cup {sym}
           scope == [ch[Len(ch)] EXCEPT ![name] = sym]
           new == [ch EXCEPT ![Len(ch)] = scope]
<1>2. Len(ch) \in 1 .. Len(ch) /\ ch[Len(ch)] \in [Names -> S]
  BY <1>1 DEF ChainGood
<1>3. scope \in [Names -> Q]
  BY <1>2
<1>4. \A i \in 1 .. Len(ch) : new[i] \in [Names -> Q]
  <2>1. \A i \in 1 .. Len(ch) : ch[i] \in [Names -> Q]
    BY <1>1
  <2>2. \A i \in 1 .. Len(ch) : new[i] = IF i = Len(ch) THEN scope ELSE ch[i]
    BY <1>1
  <2> HIDE DEF Q, scope, new
  <2> QED
    BY <1>3, <2>1, <2>2
<1>5. new \in Seq([Names -> Q]) /\ Len(new) = Len(ch)
  <2>1. DOMAIN ch = 1 .. Len(ch) /\ Len(ch) \in Nat
    BY <1>1
  <2> HIDE DEF scope, Q
  <2>2. DOMAIN new = 1 .. Len(ch) /\ new = [i \in DOMAIN ch |-> new[i]]
    BY <2>1
  <2> HIDE DEF new
  <2>3. new = [i \in 1 .. Len(ch) |-> new[i]]
    BY <2>1, <2>2
  <2>4. new \in [1 .. Len(ch) -> [Names -> Q]]
    BY <1>4, <2>3
  <2> QED
    BY <2>1, <2>4, SeqDef
<1>6. Define(ch, name, sym) \in {ch, new}
  BY DEF Define
<1>7. \A s \in Q : SymbolGood(s, error)
  BY <1>1
<1>8. ChainGood(new, error)
  <2> HIDE DEF Q, new
  <2> QED
    BY <1>2, <1>5, <1>7 DEF ChainGood
<1> QED
  BY <1>5, <1>6, <1>8

\* What a name is found to have as a type is good, if it has one.
LEMMA ChainLookup ==
  ASSUME NEW ch, NEW error, ChainGood(ch, error), NEW name
  PROVE  TypeOf(ch, name) = NoType \/ Good(TypeOf(ch, name), error)
<1>1. SUFFICES ASSUME name \in Names, Lookup(ch, name) # NoSymbol
               PROVE  TypeOf(ch, name) = NoType \/ Good(TypeOf(ch, name), error)
  BY DEF TypeOf
<1>2. PICK S : ch \in Seq([Names -> S]) /\ \A s \in S : SymbolGood(s, error)
  BY DEF ChainGood
<1> DEFINE D == Defining(ch, name)
<1>3. D # {} /\ Lookup(ch, name) = ch[Innermost(ch, name)][name]
  BY <1>1 DEF Lookup
<1>4. D \subseteq 1 .. Len(ch) /\ Len(ch) \in Nat
  BY <1>2 DEF Defining
<1>5. Innermost(ch, name) \in D
  <2>1. \E k \in D : \A j \in D : j <= k
    <3> HIDE DEF D
    <3> QED
      BY <1>3, <1>4, Greatest
  <2> QED
    BY <2>1 DEF Innermost
<1>6. ch[Innermost(ch, name)] \in [Names -> S]
  BY <1>2, <1>4, <1>5
<1>7. Lookup(ch, name) \in S
  BY <1>1, <1>3, <1>6
<1> QED
  BY <1>1, <1>2, <1>7 DEF TypeOf, SymbolGood

LEMMA BindGood ==
  ASSUME NEW ch, NEW error, ChainGood(ch, error), NEW name, NEW type, Good(type, error)
  PROVE  ChainGood(Bind(ch, name, type), error) /\ Len(Bind(ch, name, type)) = Len(ch)
<1>1. SymbolGood(Variable(type), error)
  BY DEF SymbolGood, Variable
<1> QED
  BY <1>1, ChainDefine DEF Bind

----------------------------------------------------------------------------
(* Types as written                                                        *)

LEMMA UnknownGood == \A error : Good(Unknown, error)
<1>1. Leaf(Unknown) /\ Unknown # InferError
  BY DEF Leaf, Poison, Unknown, InferError
<1> QED
  BY <1>1, GoodLeaf

\* What typechecker_resolve_type_expr makes of a type as written is good.
LEMMA PrimitiveGood ==
  ASSUME NEW name \in PrimitiveNames, NEW error
  PROVE  Good(Primitive(name), error)
<1>1. Leaf(Primitive(name)) /\ Primitive(name) # InferError
  BY DEF Leaf, Primitive, InferError
<1> QED
  BY <1>1, GoodLeaf

LEMMA BaseGood ==
  ASSUME NEW ch, NEW error, ChainGood(ch, error), NEW base
  PROVE  Good(BaseType(ch, base), error)
<1>1. "void" \in PrimitiveNames
  BY DEF PrimitiveNames
<1>2. Good(Primitive("void"), error)
  BY <1>1, PrimitiveGood
<1>3. CASE base.kind = "omitted"
  BY <1>2, <1>3 DEF BaseType
<1>4. CASE base.kind = "named" /\ base.name \in PrimitiveNames
  BY <1>4, PrimitiveGood DEF BaseType
<1>5. CASE base.kind = "named" /\ base.name \notin PrimitiveNames
  BY <1>5, ChainLookup, UnknownGood DEF BaseType
<1>6. CASE base.kind # "omitted" /\ base.kind # "named"
  BY <1>6, UnknownGood DEF BaseType
<1> QED
  BY <1>3, <1>4, <1>5, <1>6

LEMMA AroundGood ==
  ASSUME NEW type, NEW error, Good(type, error), NEW around \in Around
  PROVE  Good(TypeAround(around, type), error)
<1>1. around.kind \in {"ptr", "array", "fallible"}
  BY DEF Around
<1>2. Wraps(TypeAround(around, type), type)
  BY <1>1 DEF TypeAround, Wraps
<1> QED
  BY <1>2, GoodWraps

ResolvedRound(f, n, ch, te) ==
  IF n = 0 THEN BaseType(ch, te.base) ELSE TypeAround(te.around[n], f[n - 1])
ResolvedRun(f, n, ch, te) == f = [k \in 0 .. n |-> ResolvedRound(f, k, ch, te)]

\* The rounds in which it wraps what is innermost.
LEMMA ResolvedRounds ==
  ASSUME NEW n \in Nat, NEW ch, NEW te
  PROVE  \E f : ResolvedRun(f, n, ch, te)
<1> DEFINE T == {m \in 0 .. n : \E f : ResolvedRun(f, m, ch, te)}
<1>1. 0 \in T
  <2> DEFINE f == [k \in 0 .. 0 |-> BaseType(ch, te.base)]
  <2>1. \A k \in 0 .. 0 : ResolvedRound(f, k, ch, te) = BaseType(ch, te.base)
    BY DEF ResolvedRound
  <2>2. ResolvedRun(f, 0, ch, te)
    BY <2>1 DEF ResolvedRun
  <2> QED
    BY <2>2
<1>2. ASSUME NEW m \in 1 .. n, m - 1 \in T
      PROVE  m \in T
  <2>1. PICK f : ResolvedRun(f, m - 1, ch, te)
    BY <1>2
  <2> DEFINE g == [k \in 0 .. m |-> IF k = m THEN ResolvedRound(f, m, ch, te) ELSE f[k]]
  <2>2. ASSUME NEW k \in 0 .. m
        PROVE  g[k] = ResolvedRound(g, k, ch, te)
    <3>1. k # 0 => g[k - 1] = f[k - 1]
      OBVIOUS
    <3>2. ResolvedRound(g, k, ch, te) = ResolvedRound(f, k, ch, te)
      BY <3>1 DEF ResolvedRound
    <3>3. k # m => k \in 0 .. m - 1 /\ g[k] = f[k]
      OBVIOUS
    <3>4. k # m => f[k] = ResolvedRound(f, k, ch, te)
      BY <2>1, <3>3 DEF ResolvedRun
    <3>5. k = m => g[k] = ResolvedRound(f, k, ch, te)
      OBVIOUS
    <3> HIDE DEF g
    <3> QED
      BY <3>2, <3>3, <3>4, <3>5
  <2>3. g = [k \in 0 .. m |-> g[k]]
    OBVIOUS
  <2> HIDE DEF g
  <2>4. ResolvedRun(g, m, ch, te)
    BY <2>2, <2>3 DEF ResolvedRun
  <2> QED
    BY <2>4
<1>3. n \in T
  <2>1. 0 .. n \subseteq T
    <3> HIDE DEF T
    <3> QED
      BY <1>1, <1>2, UpTo
  <2>2. n \in 0 .. n
    OBVIOUS
  <2> HIDE DEF T
  <2> QED
    BY <2>1, <2>2
<1> QED
  BY <1>3

LEMMA ResolveGood ==
  ASSUME NEW ch, NEW error, ChainGood(ch, error), NEW te \in TypeExpr
  PROVE  Good(ResolveTypeExpr(ch, te), error)
<1> DEFINE n == Len(te.around)
           f == CHOOSE f : f = [k \in 0 .. n |-> ResolvedRound(f, k, ch, te)]
<1>1. n \in Nat /\ \A k \in 1 .. n : te.around[k] \in Around
  BY DEF TypeExpr
<1>2. ResolveTypeExpr(ch, te) = f[n]
  BY DEF ResolveTypeExpr, ResolvedRound
<1> HIDE DEF n
<1>3. f = [k \in 0 .. n |-> ResolvedRound(f, k, ch, te)]
  <2>1. \E g : ResolvedRun(g, n, ch, te)
    BY <1>1, ResolvedRounds
  <2> QED
    BY <2>1 DEF ResolvedRun
<1> HIDE DEF f
<1> DEFINE T == {k \in 0 .. n : Good(f[k], error)}
<1>4. 0 \in T
  <2>1. f[0] = BaseType(ch, te.base)
    BY <1>1, <1>3 DEF ResolvedRound
  <2> QED
    BY <1>1, <2>1, BaseGood
<1>5. ASSUME NEW k \in 1 .. n, k - 1 \in T
      PROVE  k \in T
  <2>1. k \in 0 .. n /\ k # 0 /\ Good(f[k - 1], error)
    BY <1>5
  <2>2. f[k] = TypeAround(te.around[k], f[k - 1])
    BY <1>3, <2>1 DEF ResolvedRound
  <2> QED
    BY <1>1, <2>1, <2>2, AroundGood
<1>6. 0 .. n \subseteq T
  <2> HIDE DEF T
  <2> QED
    BY <1>1, <1>4, <1>5, UpTo
<1> QED
  BY <1>1, <1>2, <1>6

----------------------------------------------------------------------------
(* The values                                                              *)

\* A value is a good type and the node it is the type of.
ValueGood(v, error) == v = [type |-> v.type, node |-> v.node] /\ Good(v.type, error)
ValsGood(vs, error) == \E S : vs \in Seq(S) /\ \A v \in S : ValueGood(v, error)

\* The values stay good when an error is reported, some are dropped or one is added.
LEMMA ValsMore ==
  ASSUME NEW vs, NEW error, NEW later, ValsGood(vs, error), error => later
  PROVE  ValsGood(vs, later)
<1>1. \A v : ValueGood(v, error) => ValueGood(v, later)
  BY GoodMore DEF ValueGood
<1> QED
  BY <1>1 DEF ValsGood

LEMMA ValsVal ==
  ASSUME NEW vs, NEW error, ValsGood(vs, error), NEW k \in 1 .. Len(vs)
  PROVE  ValueGood(vs[Len(vs) - k + 1], error)
<1>1. PICK S : vs \in Seq(S) /\ \A v \in S : ValueGood(v, error)
  BY DEF ValsGood
<1>2. Len(vs) - k + 1 \in 1 .. Len(vs)
  BY <1>1
<1>3. vs[Len(vs) - k + 1] \in S
  BY <1>1, <1>2
<1> QED
  BY <1>1, <1>3

LEMMA ValsDropped ==
  ASSUME NEW vs, NEW error, ValsGood(vs, error), NEW n \in Nat, n <= Len(vs)
  PROVE  /\ ValsGood(SubSeq(vs, 1, Len(vs) - n), error)
         /\ Len(SubSeq(vs, 1, Len(vs) - n)) = Len(vs) - n
<1>1. PICK S : vs \in Seq(S) /\ \A v \in S : ValueGood(v, error)
  BY DEF ValsGood
<1>2. Len(vs) - n \in 0 .. Len(vs) /\ Len(vs) \in Nat
  BY <1>1
<1>3. SubSeq(vs, 1, Len(vs) - n) \in Seq(S) /\ Len(SubSeq(vs, 1, Len(vs) - n)) = Len(vs) - n
  BY <1>1, <1>2
<1> QED
  BY <1>1, <1>3 DEF ValsGood

LEMMA ValsAppended ==
  ASSUME NEW vs, NEW error, ValsGood(vs, error), NEW value, ValueGood(value, error)
  PROVE  ValsGood(Append(vs, value), error) /\ Len(Append(vs, value)) = Len(vs) + 1
<1>1. PICK S : vs \in Seq(S) /\ \A v \in S : ValueGood(v, error)
  BY DEF ValsGood
<1> DEFINE Q == S \cup {value}
<1>2. \A i \in 1 .. Len(vs) : vs[i] \in Q
  BY <1>1
<1>3. vs \in Seq(Q) /\ value \in Q
  BY <1>1, <1>2, SeqDef
<1>4. \A v \in Q : ValueGood(v, error)
  BY <1>1
<1> HIDE DEF Q
<1>5. Append(vs, value) \in Seq(Q) /\ Len(Append(vs, value)) = Len(vs) + 1
  BY <1>3
<1> QED
  BY <1>4, <1>5 DEF ValsGood

----------------------------------------------------------------------------
(* The calls under way                                                     *)

\* How many values a call that is to go on uses up, and how many it leaves.
Takes(item) ==
  IF item.do \in {"binary", "arms", "arm"} THEN 2
  ELSE IF item.do \in {"unary", "use", "guard", "body"}
          \/ (item.do = "caught" /\ item.form = "expr") THEN 1
  ELSE 0
Gives(item) ==
  IF item.do \in {"infer", "unary", "binary", "caught", "arms", "body", "arm"} THEN 1 ELSE 0
Shut(item) == IF Closes(item) THEN 1 ELSE 0

Doings == {"infer", "unary", "binary", "caught", "arms", "guard", "body", "arm", "block",
           "stmts", "pop", "use"}
\* A call that handles an error holds the type of success.
ItemGood(item, error) ==
  /\ item.do \in Doings
  /\ item.do = "caught" => item.form \in {"block", "expr"} /\ Good(item.success, error)
  /\ item.do \in {"arms", "stmts"} => item = [do |-> item.do, first |-> item.first]

\* The values suffice for all the calls to come, from n on.
Levels(lev, items, n) ==
  /\ lev \in [0 .. Len(items) -> Nat]
  /\ lev[0] = n
  /\ \A i \in 1 .. Len(items) :
       /\ Takes(items[i]) <= lev[i - 1]
       /\ lev[i] = lev[i - 1] - Takes(items[i]) + Gives(items[i])
\* The calls that will close a scope.
Closing(items) == {i \in DOMAIN items : Closes(items[i])}
ItemsGood(items, error) == \E S : items \in Seq(S) /\ \A item \in S : ItemGood(item, error)
\* The calls to come, given n values and m scopes.
Plan(items, n, m, error) ==
  /\ ItemsGood(items, error)
  /\ \E lev : Levels(lev, items, n)
  /\ IsFiniteSet(Closing(items))
  /\ m = 2 + Cardinality(Closing(items))

\* The plan stays one when an error is reported.
LEMMA PlanMore ==
  ASSUME NEW items, NEW n, NEW m, NEW error, NEW later, Plan(items, n, m, error), error => later
  PROVE  Plan(items, n, m, later)
<1>1. \A item : ItemGood(item, error) => ItemGood(item, later)
  BY GoodMore DEF ItemGood
<1>2. ItemsGood(items, later)
  BY <1>1 DEF Plan, ItemsGood
<1> QED
  BY <1>2 DEF Plan

LEMMA TakesNat == \A item : Takes(item) \in Nat /\ Gives(item) \in {0, 1} /\ Shut(item) \in {0, 1}
BY DEF Takes, Gives, Shut

\* A call before others.
LEMMA ConsFacts ==
  ASSUME NEW S, NEW s \in Seq(S), NEW x
  PROVE  /\ <<x>> \o s \in Seq(S \cup {x})
         /\ Len(<<x>> \o s) = Len(s) + 1
         /\ (<<x>> \o s)[1] = x
         /\ \A i \in 1 .. Len(s) : (<<x>> \o s)[i + 1] = s[i]
<1> DEFINE Q == S \cup {x}
<1>1. \A i \in 1 .. Len(s) : s[i] \in Q
  OBVIOUS
<1>2. s \in Seq(Q) /\ <<x>> \in Seq(Q)
  BY <1>1, SeqDef
<1>3. Len(<<x>>) = 1 /\ <<x>>[1] = x /\ Len(s) \in Nat
  OBVIOUS
<1> HIDE DEF Q
<1>4. <<x>> \o s \in Seq(Q) /\ Len(<<x>> \o s) = Len(s) + 1
  BY <1>2, <1>3
<1>5. ASSUME NEW i \in 1 .. Len(s) + 1
      PROVE  (<<x>> \o s)[i] = IF i <= 1 THEN <<x>>[i] ELSE s[i - 1]
  BY <1>2, <1>3
<1>6. (<<x>> \o s)[1] = x
  BY <1>3, <1>5
<1>7. ASSUME NEW i \in 1 .. Len(s)
      PROVE  (<<x>> \o s)[i + 1] = s[i]
  <2>1. i + 1 \in 1 .. Len(s) + 1 /\ ~(i + 1 <= 1) /\ (i + 1) - 1 = i
    BY <1>3
  <2> QED
    BY <1>5, <2>1
<1> QED
  BY <1>4, <1>6, <1>7 DEF Q

LEMMA ConsClosing ==
  ASSUME NEW S, NEW s \in Seq(S), NEW x
  PROVE  /\ IsFiniteSet(Closing(<<x>> \o s)) <=> IsFiniteSet(Closing(s))
         /\ IsFiniteSet(Closing(s)) =>
              Cardinality(Closing(<<x>> \o s)) = Cardinality(Closing(s)) + Shut(x)
<1> DEFINE t == <<x>> \o s
           A == Closing(s)
           B == {i + 1 : i \in A}
           f == [i \in A |-> i + 1]
<1>1. /\ Len(t) = Len(s) + 1 /\ Len(s) \in Nat /\ DOMAIN t = 1 .. Len(t) /\ DOMAIN s = 1 .. Len(s)
      /\ t[1] = x /\ \A i \in 1 .. Len(s) : t[i + 1] = s[i]
  BY ConsFacts
<1> HIDE DEF t
<1>2. A \subseteq 1 .. Len(s) /\ IsFiniteSet(A)
  <2>1. A \subseteq 1 .. Len(s)
    BY <1>1 DEF Closing
  <2>2. IsFiniteSet(1 .. Len(s))
    BY <1>1, FS_Interval
  <2> HIDE DEF A
  <2> QED
    BY <2>1, <2>2, FS_Subset
<1>3. Closing(t) = IF Closes(x) THEN B \cup {1} ELSE B
  <2>1. ASSUME NEW k
        PROVE  k \in Closing(t) <=> (k = 1 /\ Closes(x)) \/ k \in B
    <3>1. k \in Closing(t) <=> k \in 1 .. Len(s) + 1 /\ Closes(t[k])
      BY <1>1 DEF Closing
    <3>2. k \in B <=> k \in 2 .. Len(s) + 1 /\ Closes(s[k - 1])
      <4>1. k \in B => k \in 2 .. Len(s) + 1 /\ Closes(s[k - 1])
        BY <1>1 DEF Closing
      <4>2. ASSUME k \in 2 .. Len(s) + 1, Closes(s[k - 1])
            PROVE  k \in B
        <5>1. k - 1 \in A /\ k = (k - 1) + 1
          BY <1>1, <4>2 DEF Closing
        <5> HIDE DEF A
        <5> QED
          BY <5>1
      <4> QED
        BY <4>1, <4>2
    <3>3. k \in 2 .. Len(s) + 1 => t[k] = s[k - 1]
      <4>1. SUFFICES ASSUME k \in 2 .. Len(s) + 1 PROVE t[k] = s[k - 1]
        OBVIOUS
      <4>2. k - 1 \in 1 .. Len(s) /\ (k - 1) + 1 = k
        BY <1>1, <4>1
      <4> QED
        BY <1>1, <4>2
    <3>4. k \in 1 .. Len(s) + 1 <=> k = 1 \/ k \in 2 .. Len(s) + 1
      BY <1>1
    <3> HIDE DEF B, A
    <3> QED
      BY <1>1, <3>1, <3>2, <3>3, <3>4
  <2> HIDE DEF B, A
  <2> QED
    BY <2>1
<1>4. f \in Bijection(A, B)
  <2>1. \A i \in A, j \in A : f[i] = f[j] => i = j
    BY <1>1, <1>2
  <2>2. f \in [A -> B] /\ \A k \in B : \E i \in A : f[i] = k
    OBVIOUS
  <2> HIDE DEF A, B, f
  <2> QED
    BY <2>1, <2>2 DEF Bijection, Injection, Surjection, IsInjective
<1>5. IsFiniteSet(B) /\ Cardinality(B) = Cardinality(A)
  <2> HIDE DEF A, B, f
  <2> QED
    BY <1>2, <1>4, FS_Bijection DEF ExistsBijection
<1>6. 1 \notin B
  BY <1>1, <1>2
<1>7. IsFiniteSet(B \cup {1}) /\ Cardinality(B \cup {1}) = Cardinality(B) + 1
  <2> HIDE DEF B, A
  <2> QED
    BY <1>5, <1>6, FS_AddElement
<1>8. IsFiniteSet(Closing(t)) /\ Cardinality(Closing(t)) = Cardinality(A) + Shut(x)
  <2>1. Cardinality(A) \in Nat
    <3> HIDE DEF A, B
    <3> QED
      BY <1>2, FS_CardinalityType
  <2> HIDE DEF A, B
  <2> QED
    BY <1>3, <1>5, <1>7, <2>1 DEF Shut
<1> QED
  BY <1>2, <1>8 DEF t

\* The values suffice with one more call first, and with the first one done.
LEMMA LevelsCons ==
  ASSUME NEW S, NEW s \in Seq(S), NEW x, NEW n \in Nat, Takes(x) <= n,
         NEW lev, Levels(lev, s, n - Takes(x) + Gives(x))
  PROVE  \E more : Levels(more, <<x>> \o s, n)
<1> DEFINE t == <<x>> \o s
           more == [k \in 0 .. Len(s) + 1 |-> IF k = 0 THEN n ELSE lev[k - 1]]
<1>1. /\ Len(t) = Len(s) + 1 /\ Len(s) \in Nat
      /\ t[1] = x /\ \A i \in 1 .. Len(s) : t[i + 1] = s[i]
  BY ConsFacts
<1>2. Takes(x) \in Nat /\ Gives(x) \in Nat
  BY TakesNat
<1>3. lev \in [0 .. Len(s) -> Nat] /\ lev[0] = n - Takes(x) + Gives(x)
  BY DEF Levels
<1> HIDE DEF t
<1>4. more \in [0 .. Len(t) -> Nat] /\ more[0] = n
  BY <1>1, <1>3
<1>5. ASSUME NEW i \in 1 .. Len(t)
      PROVE  /\ Takes(t[i]) <= more[i - 1]
             /\ more[i] = more[i - 1] - Takes(t[i]) + Gives(t[i])
  <2>1. CASE i = 1
    BY <1>1, <1>2, <1>3, <2>1
  <2>2. CASE i # 1
    <3>1. i - 1 \in 1 .. Len(s) /\ i = (i - 1) + 1
      BY <1>1, <2>2
    <3>2. t[i] = s[i - 1]
      BY <1>1, <3>1
    <3>3. more[i] = lev[i - 1] /\ more[i - 1] = lev[(i - 1) - 1]
      BY <1>1, <3>1
    <3>4. /\ Takes(s[i - 1]) <= lev[(i - 1) - 1]
          /\ lev[i - 1] = lev[(i - 1) - 1] - Takes(s[i - 1]) + Gives(s[i - 1])
      BY <3>1 DEF Levels
    <3> QED
      BY <3>2, <3>3, <3>4
  <2> QED
    BY <2>1, <2>2
<1>6. Levels(more, t, n)
  <2> HIDE DEF more
  <2> QED
    BY <1>4, <1>5 DEF Levels
<1> QED
  BY <1>6 DEF t

LEMMA PlanCons ==
  ASSUME NEW s, NEW x, NEW error, ItemGood(x, error), NEW n \in Nat, NEW m, Takes(x) <= n,
         NEW m1 \in Nat, Plan(s, n - Takes(x) + Gives(x), m1, error), m = m1 + Shut(x)
  PROVE  Plan(<<x>> \o s, n, m, error)
<1>1. PICK S : s \in Seq(S) /\ \A item \in S : ItemGood(item, error)
  BY DEF Plan, ItemsGood
<1>2. ItemsGood(<<x>> \o s, error)
  <2>1. <<x>> \o s \in Seq(S \cup {x})
    BY <1>1, ConsFacts
  <2> QED
    BY <1>1, <2>1 DEF ItemsGood
<1>3. PICK lev : Levels(lev, s, n - Takes(x) + Gives(x))
  BY DEF Plan
<1>4. \E more : Levels(more, <<x>> \o s, n)
  BY <1>1, <1>3, LevelsCons
<1>5. IsFiniteSet(Closing(s)) /\ m1 = 2 + Cardinality(Closing(s)) /\ Cardinality(Closing(s)) \in Nat
  BY FS_CardinalityType DEF Plan
<1>6. /\ IsFiniteSet(Closing(<<x>> \o s))
      /\ Cardinality(Closing(<<x>> \o s)) = Cardinality(Closing(s)) + Shut(x)
  BY <1>1, <1>5, ConsClosing
<1>7. m = 2 + Cardinality(Closing(<<x>> \o s))
  BY <1>5, <1>6, TakesNat
<1> QED
  BY <1>2, <1>4, <1>6, <1>7 DEF Plan

\* The first call and the others.
LEMMA HeadTail ==
  ASSUME NEW S, NEW items \in Seq(S), items # <<>>
  PROVE  /\ items = <<Head(items)>> \o Tail(items)
         /\ Tail(items) \in Seq(S)
         /\ Head(items) \in S /\ Head(items) = items[1]
         /\ Len(items) = Len(Tail(items)) + 1
         /\ Len(Tail(items)) \in Nat
<1>1. Tail(items) \in Seq(S) /\ Head(items) \in S /\ Head(items) = items[1]
  BY HeadTailProperties
<1>2. Len(items) = Len(Tail(items)) + 1 /\ Len(Tail(items)) \in Nat
  BY HeadTailProperties
<1>3. items = <<Head(items)>> \o Tail(items)
  BY HeadTailProperties
<1> QED
  BY <1>1, <1>2, <1>3

LEMMA LevelsTail ==
  ASSUME NEW S, NEW items \in Seq(S), items # <<>>, NEW n, NEW lev, Levels(lev, items, n)
  PROVE  /\ n \in Nat /\ Takes(Head(items)) <= n
         /\ \E less : Levels(less, Tail(items), n - Takes(Head(items)) + Gives(Head(items)))
<1> DEFINE x == Head(items)
           s == Tail(items)
           less == [k \in 0 .. Len(s) |-> lev[k + 1]]
<1>1. /\ items = <<x>> \o s /\ s \in Seq(S) /\ x = items[1]
      /\ Len(items) = Len(s) + 1 /\ Len(s) \in Nat
  BY HeadTail
<1> HIDE DEF x, s
<1>2. \A i \in 1 .. Len(s) : items[i + 1] = s[i]
  BY <1>1, ConsFacts
<1>3. lev \in [0 .. Len(items) -> Nat] /\ lev[0] = n
  BY DEF Levels
<1>4. 1 \in 1 .. Len(items) /\ 0 \in 0 .. Len(items)
  BY <1>1
<1>5. n \in Nat /\ Takes(x) <= n /\ lev[1] = n - Takes(x) + Gives(x)
  <2>1. /\ Takes(items[1]) <= lev[1 - 1]
        /\ lev[1] = lev[1 - 1] - Takes(items[1]) + Gives(items[1])
    BY <1>4 DEF Levels
  <2> QED
    BY <1>1, <1>3, <1>4, <2>1
<1>6. less \in [0 .. Len(s) -> Nat] /\ less[0] = n - Takes(x) + Gives(x)
  BY <1>1, <1>3, <1>5
<1>7. ASSUME NEW i \in 1 .. Len(s)
      PROVE  /\ Takes(s[i]) <= less[i - 1]
             /\ less[i] = less[i - 1] - Takes(s[i]) + Gives(s[i])
  <2>1. i + 1 \in 1 .. Len(items) /\ (i + 1) - 1 = i
    BY <1>1
  <2>2. /\ Takes(items[i + 1]) <= lev[(i + 1) - 1]
        /\ lev[i + 1] = lev[(i + 1) - 1] - Takes(items[i + 1]) + Gives(items[i + 1])
    BY <2>1 DEF Levels
  <2>3. less[i] = lev[i + 1] /\ less[i - 1] = lev[i]
    BY <1>1
  <2> QED
    BY <1>2, <2>1, <2>2, <2>3
<1>8. Levels(less, s, n - Takes(x) + Gives(x))
  <2> HIDE DEF less
  <2> QED
    BY <1>6, <1>7 DEF Levels
<1> QED
  BY <1>5, <1>8 DEF x, s

\* What is planned once the first call is done.
LEMMA PlanTail ==
  ASSUME NEW items, NEW n, NEW m, NEW error, Plan(items, n, m, error), items # <<>>
  PROVE  /\ ItemGood(Head(items), error)
         /\ n \in Nat /\ Takes(Head(items)) <= n
         /\ m - Shut(Head(items)) \in Nat /\ m - Shut(Head(items)) >= 2 /\ m \in Nat
         /\ Plan(Tail(items), n - Takes(Head(items)) + Gives(Head(items)),
                 m - Shut(Head(items)), error)
<1> DEFINE x == Head(items)
           s == Tail(items)
<1>1. PICK S : items \in Seq(S) /\ \A item \in S : ItemGood(item, error)
  BY DEF Plan, ItemsGood
<1>2. items = <<x>> \o s /\ s \in Seq(S) /\ x \in S
  BY <1>1, HeadTail
<1>3. PICK lev : Levels(lev, items, n)
  BY DEF Plan
<1>4. n \in Nat /\ Takes(x) <= n /\ \E less : Levels(less, s, n - Takes(x) + Gives(x))
  BY <1>1, <1>3, LevelsTail
<1>5. IsFiniteSet(Closing(items)) /\ m = 2 + Cardinality(Closing(items))
  BY DEF Plan
<1> HIDE DEF x, s
<1>6. /\ IsFiniteSet(Closing(s))
      /\ Cardinality(Closing(items)) = Cardinality(Closing(s)) + Shut(x)
  BY <1>2, <1>5, ConsClosing
<1>7. Cardinality(Closing(s)) \in Nat
  BY <1>6, FS_CardinalityType
<1>8. Shut(x) \in Nat
  BY TakesNat
<1>9. m - Shut(x) = 2 + Cardinality(Closing(s)) /\ m \in Nat
  BY <1>5, <1>6, <1>7, <1>8
<1>10. Plan(s, n - Takes(x) + Gives(x), m - Shut(x), error)
  BY <1>1, <1>2, <1>4, <1>6, <1>9 DEF Plan, ItemsGood
<1>11. ItemGood(x, error)
  BY <1>1, <1>2
<1>12. m - Shut(x) \in Nat /\ m - Shut(x) >= 2
  BY <1>9, <1>7
<1> QED
  BY <1>4, <1>9, <1>10, <1>11, <1>12 DEF x, s

\* Calls one before the other.
LEMMA TwoCalls ==
  ASSUME NEW S, NEW s \in Seq(S), NEW x, NEW y
  PROVE  <<x, y>> \o s = <<x>> \o (<<y>> \o s)
<1> DEFINE Q == S \cup {x, y}
<1>1. \A i \in 1 .. Len(s) : s[i] \in Q
  OBVIOUS
<1>2. s \in Seq(Q)
  BY <1>1, SeqDef
<1>3. x \in Q /\ y \in Q
  OBVIOUS
<1> HIDE DEF Q
<1>4. <<x>> \in Seq(Q) /\ <<y>> \in Seq(Q) /\ <<x, y>> = <<x>> \o <<y>>
  <2>1. <<x>> \in Seq(Q) /\ <<y>> \in Seq(Q)
    BY <1>3
  <2>2. <<x, y>> \in Seq(Q) /\ Len(<<x, y>>) = 2 /\ <<x, y>>[1] = x /\ <<x, y>>[2] = y
    BY <1>3
  <2>3. /\ <<x>> \o <<y>> \in Seq(Q) /\ Len(<<x>> \o <<y>>) = 2
        /\ (<<x>> \o <<y>>)[1] = x /\ (<<x>> \o <<y>>)[2] = y
    BY <2>1
  <2>4. \A i \in 1 .. Len(<<x, y>>) : <<x, y>>[i] = (<<x>> \o <<y>>)[i]
    BY <2>2, <2>3
  <2>5. <<x, y>> = <<x>> \o <<y>>
    BY <2>2, <2>3, <2>4, SeqEqual
  <2> QED
    BY <2>1, <2>5
<1>5. (<<x>> \o <<y>>) \o s = <<x>> \o (<<y>> \o s)
  BY <1>2, <1>4, ConcatAssociative
<1> QED
  BY <1>4, <1>5

LEMMA ThreeCalls ==
  ASSUME NEW S, NEW s \in Seq(S), NEW x, NEW y, NEW z
  PROVE  <<x, y, z>> \o s = <<x>> \o (<<y>> \o (<<z>> \o s))
<1> DEFINE Q == S \cup {x, y, z}
<1>1. \A i \in 1 .. Len(s) : s[i] \in Q
  OBVIOUS
<1>2. s \in Seq(Q)
  BY <1>1, SeqDef
<1>3. x \in Q /\ y \in Q /\ z \in Q
  OBVIOUS
<1> HIDE DEF Q
<1>4. <<x>> \in Seq(Q) /\ <<y, z>> \in Seq(Q) /\ <<x, y, z>> = <<x>> \o <<y, z>>
  BY <1>3
<1>5. (<<x>> \o <<y, z>>) \o s = <<x>> \o (<<y, z>> \o s)
  BY <1>2, <1>4, ConcatAssociative
<1>6. <<y, z>> \o s = <<y>> \o (<<z>> \o s)
  BY TwoCalls
<1> QED
  BY <1>4, <1>5, <1>6

\* A call put before others, with the values and the scopes it will find.
LEMMA PlanDo ==
  ASSUME NEW s, NEW x, NEW error, ItemGood(x, error), NEW n \in Nat, NEW m \in Nat, Takes(x) <= n,
         NEW n1, NEW m1 \in Nat, Plan(s, n1, m1, error),
         n1 = n - Takes(x) + Gives(x), m = m1 + Shut(x)
  PROVE  Plan(<<x>> \o s, n, m, error)
BY PlanCons

\* The calls that need nothing but their names.
LEMMA Calls ==
  ASSUME NEW what, NEW error,
         what \in {"infer", "unary", "binary", "guard", "body", "arm", "block", "pop"}
  PROVE  /\ ItemGood(Do(what), error)
         /\ Takes(Do(what)) = CASE what \in {"binary", "arm"} -> 2
                                [] what \in {"unary", "guard", "body"} -> 1
                                [] OTHER -> 0
         /\ Gives(Do(what)) = IF what \in {"infer", "unary", "binary", "body", "arm"} THEN 1 ELSE 0
         /\ Shut(Do(what)) = IF what \in {"pop", "body", "arm"} THEN 1 ELSE 0
<1>1. Do(what).do = what
  BY DEF Do
<1>2. ItemGood(Do(what), error)
  BY <1>1 DEF ItemGood, Doings
<1>3. Takes(Do(what)) = CASE what \in {"binary", "arm"} -> 2
                          [] what \in {"unary", "guard", "body"} -> 1
                          [] OTHER -> 0
  BY <1>1 DEF Takes
<1>4. Gives(Do(what)) = IF what \in {"infer", "unary", "binary", "body", "arm"} THEN 1 ELSE 0
  BY <1>1 DEF Gives
<1>5. Shut(Do(what)) = IF what \in {"pop", "body", "arm"} THEN 1 ELSE 0
  BY <1>1 DEF Shut, Closes
<1> QED
  BY <1>2, <1>3, <1>4, <1>5

\* The plans that begin with one of them.
LEMMA PlanInfer ==
  ASSUME NEW s, NEW n \in Nat, NEW m \in Nat, NEW error, Plan(s, n + 1, m, error)
  PROVE  Plan(<<Infer>> \o s, n, m, error)
<1>1. ItemGood(Infer, error) /\ Takes(Infer) = 0 /\ Gives(Infer) = 1 /\ Shut(Infer) = 0
  BY Calls DEF Infer
<1> QED
  BY <1>1, PlanDo

LEMMA PlanOperator ==
  ASSUME NEW s, NEW n \in Nat, NEW m \in Nat, NEW error, Plan(s, n + 1, m, error)
  PROVE  /\ Plan(<<Do("unary")>> \o s, n + 1, m, error)
         /\ Plan(<<Do("binary")>> \o s, (n + 1) + 1, m, error)
<1>1. /\ ItemGood(Do("unary"), error) /\ Takes(Do("unary")) = 1 /\ Gives(Do("unary")) = 1
      /\ Shut(Do("unary")) = 0
  BY Calls
<1>2. /\ ItemGood(Do("binary"), error) /\ Takes(Do("binary")) = 2 /\ Gives(Do("binary")) = 1
      /\ Shut(Do("binary")) = 0
  BY Calls
<1>3. n + 1 \in Nat /\ (n + 1) + 1 \in Nat
  OBVIOUS
<1>4. Plan(<<Do("unary")>> \o s, n + 1, m, error)
  BY <1>1, <1>3, PlanDo
<1>5. Plan(<<Do("binary")>> \o s, (n + 1) + 1, m, error)
  BY <1>2, <1>3, PlanDo
<1> QED
  BY <1>4, <1>5

LEMMA PlanBlock ==
  ASSUME NEW s, NEW n \in Nat, NEW m \in Nat, NEW error, Plan(s, n, m, error)
  PROVE  Plan(<<Block>> \o s, n, m, error)
<1>1. ItemGood(Block, error) /\ Takes(Block) = 0 /\ Gives(Block) = 0 /\ Shut(Block) = 0
  BY Calls DEF Block
<1> QED
  BY <1>1, PlanDo

LEMMA PlanPop ==
  ASSUME NEW s, NEW n \in Nat, NEW m \in Nat, NEW error, Plan(s, n, m, error)
  PROVE  Plan(<<Do("pop")>> \o s, n, m + 1, error)
<1>1. /\ ItemGood(Do("pop"), error) /\ Takes(Do("pop")) = 0 /\ Gives(Do("pop")) = 0
      /\ Shut(Do("pop")) = 1
  BY Calls
<1>2. m + 1 \in Nat
  OBVIOUS
<1> QED
  BY <1>1, <1>2, PlanDo

LEMMA PlanGuard ==
  ASSUME NEW s, NEW n \in Nat, NEW m \in Nat, NEW error, Plan(s, n, m, error)
  PROVE  Plan(<<Do("guard")>> \o s, n + 1, m, error)
<1>1. /\ ItemGood(Do("guard"), error) /\ Takes(Do("guard")) = 1 /\ Gives(Do("guard")) = 0
      /\ Shut(Do("guard")) = 0
  BY Calls
<1>2. n + 1 \in Nat /\ n = (n + 1) - 1 + 0
  OBVIOUS
<1> QED
  BY <1>1, <1>2, PlanDo

LEMMA PlanBody ==
  ASSUME NEW s, NEW n \in Nat, n >= 1, NEW m \in Nat, NEW error, Plan(s, n, m, error)
  PROVE  /\ Plan(<<Do("body")>> \o s, n, m + 1, error)
         /\ Plan(<<Do("arm")>> \o s, n + 1, m + 1, error)
<1>1. /\ ItemGood(Do("body"), error) /\ Takes(Do("body")) = 1 /\ Gives(Do("body")) = 1
      /\ Shut(Do("body")) = 1
  BY Calls
<1>2. /\ ItemGood(Do("arm"), error) /\ Takes(Do("arm")) = 2 /\ Gives(Do("arm")) = 1
      /\ Shut(Do("arm")) = 1
  BY Calls
<1>3. n + 1 \in Nat /\ m + 1 \in Nat
  OBVIOUS
<1>4. Plan(<<Do("body")>> \o s, n, m + 1, error)
  BY <1>1, <1>3, PlanDo
<1>5. Plan(<<Do("arm")>> \o s, n + 1, m + 1, error)
  BY <1>2, <1>3, PlanDo
<1> QED
  BY <1>4, <1>5

LEMMA PlanStmts ==
  ASSUME NEW s, NEW n \in Nat, NEW m \in Nat, NEW error, Plan(s, n, m, error),
         NEW x, x.do = "stmts", x = [do |-> x.do, first |-> x.first]
  PROVE  Plan(<<x>> \o s, n, m, error)
<1>1. ItemGood(x, error) /\ Takes(x) = 0 /\ Gives(x) = 0 /\ Shut(x) = 0
  BY DEF ItemGood, Doings, Takes, Gives, Shut, Closes
<1> QED
  BY <1>1, PlanDo

LEMMA PlanArms ==
  ASSUME NEW s, NEW n \in Nat, n >= 1, NEW m \in Nat, NEW error, Plan(s, n, m, error),
         NEW x, x.do = "arms", x = [do |-> x.do, first |-> x.first]
  PROVE  Plan(<<x>> \o s, n + 1, m, error)
<1>1. ItemGood(x, error) /\ Takes(x) = 2 /\ Gives(x) = 1 /\ Shut(x) = 0
  BY DEF ItemGood, Doings, Takes, Gives, Shut, Closes
<1>2. n + 1 \in Nat
  OBVIOUS
<1> QED
  BY <1>1, <1>2, PlanDo

LEMMA PlanUse ==
  ASSUME NEW s, NEW n \in Nat, NEW m \in Nat, NEW error, Plan(s, n, m, error),
         NEW x, x.do = "use"
  PROVE  Plan(<<x>> \o s, n + 1, m, error)
<1>1. ItemGood(x, error) /\ Takes(x) = 1 /\ Gives(x) = 0 /\ Shut(x) = 0
  BY DEF ItemGood, Doings, Takes, Gives, Shut, Closes
<1>2. n + 1 \in Nat /\ n = (n + 1) - 1 + 0
  OBVIOUS
<1> QED
  BY <1>1, <1>2, PlanDo

LEMMA PlanCaught ==
  ASSUME NEW s, NEW n \in Nat, NEW m \in Nat, NEW error, Plan(s, n + 1, m, error),
         NEW x, x.do = "caught", Good(x.success, error)
  PROVE  /\ x.form = "block" => Plan(<<x>> \o s, n, m + 1, error)
         /\ x.form = "expr" => Plan(<<x>> \o s, n + 1, m, error)
<1>1. x.form = "block" => ItemGood(x, error) /\ Takes(x) = 0 /\ Gives(x) = 1 /\ Shut(x) = 1
  BY DEF ItemGood, Doings, Takes, Gives, Shut, Closes
<1>2. x.form = "expr" => ItemGood(x, error) /\ Takes(x) = 1 /\ Gives(x) = 1 /\ Shut(x) = 0
  BY DEF ItemGood, Doings, Takes, Gives, Shut, Closes
<1>3. n + 1 \in Nat /\ m + 1 \in Nat /\ n + 1 = (n + 1) - 1 + 1
  OBVIOUS
<1>4. x.form = "block" => Plan(<<x>> \o s, n, m + 1, error)
  BY <1>1, <1>3, PlanDo
<1>5. x.form = "expr" => Plan(<<x>> \o s, n + 1, m, error)
  BY <1>2, <1>3, PlanDo
<1> QED
  BY <1>4, <1>5

----------------------------------------------------------------------------
(* The inductive invariant                                                 *)

\* Every type about is good; the values suffice for the calls to come; there
\* is a scope for each call that will close one, besides the two at the start.
InferInv ==
  /\ ChainGood(chain, had_error)
  /\ Good(expected_ret, had_error)
  /\ ValsGood(vals, had_error)
  /\ Plan(todo, Len(vals), Len(chain), had_error)
  /\ had_error \in BOOLEAN
  /\ left \in 0 .. Nodes

\* What an action is left to show.
LEMMA Onward ==
  ASSUME InferInv, had_error' \in BOOLEAN, had_error => had_error',
         UNCHANGED expected_ret, left' \in 0 .. Nodes,
         ChainGood(chain', had_error'), ValsGood(vals', had_error'),
         Plan(todo', Len(vals'), Len(chain'), had_error')
  PROVE  InferInv'
<1>1. Good(expected_ret', had_error')
  BY GoodMore DEF InferInv
<1> QED
  BY <1>1 DEF InferInv

\* What there is before it, whether or not it reports an error.
LEMMA AtWork ==
  ASSUME InferInv, NEW what, Doing(what), NEW error, had_error => error
  PROVE  /\ Item.do = what /\ ItemGood(Item, error)
         /\ \E S : Tail(todo) \in Seq(S)
         /\ Len(vals) \in Nat /\ Len(chain) \in Nat
         /\ Takes(Item) <= Len(vals) /\ Len(chain) - Shut(Item) >= 2
         /\ ChainGood(chain, error) /\ Good(expected_ret, error) /\ ValsGood(vals, error)
         /\ Plan(Tail(todo), Len(vals) - Takes(Item) + Gives(Item), Len(chain) - Shut(Item), error)
<1>1. /\ ChainGood(chain, error) /\ Good(expected_ret, error) /\ ValsGood(vals, error)
      /\ Plan(todo, Len(vals), Len(chain), error)
  BY ChainMore, GoodMore, ValsMore, PlanMore DEF InferInv
<1>2. todo # <<>> /\ Item.do = what
  BY DEF Doing
<1>3. Item = Head(todo)
  BY DEF Item
<1>4. /\ ItemGood(Item, error) /\ Takes(Item) <= Len(vals)
      /\ Len(vals) \in Nat /\ Len(chain) \in Nat /\ Len(chain) - Shut(Item) >= 2
      /\ Plan(Tail(todo), Len(vals) - Takes(Item) + Gives(Item), Len(chain) - Shut(Item), error)
  BY <1>1, <1>2, <1>3, PlanTail
<1>5. \E S : Tail(todo) \in Seq(S)
  BY <1>4 DEF Plan, ItemsGood
<1> QED
  BY <1>1, <1>2, <1>4, <1>5

\* The scopes of what has been at work, once it is done.
Closed == \/ UNCHANGED chain /\ Shut(Item) = 0
          \/ chain' = Pop(chain) /\ Shut(Item) = 1

LEMMA ClosedScopes ==
  ASSUME InferInv, NEW what, Doing(what), Closed, NEW error, had_error => error
  PROVE  ChainGood(chain', error) /\ Len(chain') = Len(chain) - Shut(Item)
<1>1. /\ ChainGood(chain, error) /\ Len(chain) \in Nat /\ Len(chain) - Shut(Item) >= 2
  BY AtWork
<1>2. CASE UNCHANGED chain /\ Shut(Item) = 0
  BY <1>1, <1>2
<1>3. CASE chain' = Pop(chain) /\ Shut(Item) = 1
  BY <1>1, <1>3, ChainPop
<1> QED
  BY <1>2, <1>3 DEF Closed

\* A step that returns a value and goes on with the caller.
LEMMA GiveStep ==
  ASSUME InferInv, NEW what, Doing(what), NEW n \in Nat, NEW value, GiveValue(n, value),
         Takes(Item) = n, Gives(Item) = 1, Closed, ValueGood(value, had_error'),
         had_error' \in BOOLEAN, had_error => had_error', UNCHANGED <<expected_ret, left>>
  PROVE  InferInv'
<1> DEFINE m == Len(chain) - Shut(Item)
<1>1. /\ Len(vals) \in Nat /\ n <= Len(vals)
      /\ ValsGood(vals, had_error')
      /\ Plan(Tail(todo), Len(vals) - n + 1, m, had_error')
  BY AtWork
<1>2. ChainGood(chain', had_error') /\ Len(chain') = m
  BY ClosedScopes
<1> HIDE DEF m
<1>3. todo' = Tail(todo) /\ vals' = Append(SubSeq(vals, 1, Len(vals) - n), value)
  BY DEF GiveValue
<1>4. ValsGood(SubSeq(vals, 1, Len(vals) - n), had_error') /\ Len(SubSeq(vals, 1, Len(vals) - n)) = Len(vals) - n
  BY <1>1, ValsDropped
<1>5. ValsGood(vals', had_error') /\ Len(vals') = Len(vals) - n + 1
  BY <1>3, <1>4, ValsAppended
<1>6. left' \in 0 .. Nodes
  BY DEF InferInv
<1>7. Plan(todo', Len(vals'), Len(chain'), had_error')
  BY <1>1, <1>2, <1>3, <1>5
<1> QED
  BY <1>2, <1>5, <1>6, <1>7, Onward

LEMMA ValGood ==
  ASSUME InferInv, NEW what, Doing(what), NEW k \in 1 .. Takes(Item), NEW error, had_error => error
  PROVE  ValueGood(Val(k), error) /\ Good(Val(k).type, error)
<1>1. Len(vals) \in Nat /\ Takes(Item) <= Len(vals) /\ ValsGood(vals, error)
  BY AtWork
<1>2. k \in 1 .. Len(vals)
  BY <1>1, TakesNat
<1> QED
  BY <1>1, <1>2, ValsVal DEF Val, ValueGood

LEMMA DropStep ==
  ASSUME InferInv, NEW what, Doing(what), Drop(1), Takes(Item) = 1, NEW error, had_error => error
  PROVE  ValsGood(vals', error) /\ Len(vals') = Len(vals) - 1 /\ Len(vals') \in Nat
<1>1. Len(vals) \in Nat /\ 1 <= Len(vals) /\ ValsGood(vals, error)
  BY AtWork
<1>2. vals' = SubSeq(vals, 1, Len(vals) - 1)
  BY DEF Drop
<1>3. /\ ValsGood(SubSeq(vals, 1, Len(vals) - 1), error)
      /\ Len(SubSeq(vals, 1, Len(vals) - 1)) = Len(vals) - 1
  <2>1. 1 \in Nat
    OBVIOUS
  <2> QED
    BY <1>1, <2>1, ValsDropped
<1> QED
  BY <1>1, <1>2, <1>3

----------------------------------------------------------------------------
(* The actions that return a value                                         *)

\* What the calls at work take, give and close.
LEMMA ItemShape ==
  /\ Item.do = "infer" => Takes(Item) = 0 /\ Gives(Item) = 1 /\ Shut(Item) = 0
  /\ Item.do = "unary" => Takes(Item) = 1 /\ Gives(Item) = 1 /\ Shut(Item) = 0
  /\ Item.do = "binary" => Takes(Item) = 2 /\ Gives(Item) = 1 /\ Shut(Item) = 0
  /\ Item.do = "caught" /\ Item.form = "block" =>
       Takes(Item) = 0 /\ Gives(Item) = 1 /\ Shut(Item) = 1
  /\ Item.do = "caught" /\ Item.form = "expr" =>
       Takes(Item) = 1 /\ Gives(Item) = 1 /\ Shut(Item) = 0
  /\ Item.do = "arms" => Takes(Item) = 2 /\ Gives(Item) = 1 /\ Shut(Item) = 0
  /\ Item.do = "guard" => Takes(Item) = 1 /\ Gives(Item) = 0 /\ Shut(Item) = 0
  /\ Item.do = "body" => Takes(Item) = 1 /\ Gives(Item) = 1 /\ Shut(Item) = 1
  /\ Item.do = "arm" => Takes(Item) = 2 /\ Gives(Item) = 1 /\ Shut(Item) = 1
  /\ Item.do = "block" => Takes(Item) = 0 /\ Gives(Item) = 0 /\ Shut(Item) = 0
  /\ Item.do = "stmts" => Takes(Item) = 0 /\ Gives(Item) = 0 /\ Shut(Item) = 0
  /\ Item.do = "pop" => Takes(Item) = 0 /\ Gives(Item) = 0 /\ Shut(Item) = 1
  /\ Item.do = "use" => Takes(Item) = 1 /\ Gives(Item) = 0 /\ Shut(Item) = 0
BY DEF Takes, Gives, Shut, Closes

\* An action that returns a type, with or without an error.
LEMMA Returns ==
  ASSUME InferInv, NEW what, Doing(what), what \in {"infer", "unary", "binary", "arms"},
         NEW value, GiveValue(Takes(Item), value), ValueGood(value, had_error'),
         had_error' \in BOOLEAN, had_error => had_error',
         UNCHANGED <<chain, expected_ret, left>>
  PROVE  InferInv'
<1>1. Item.do = what
  BY DEF Doing
<1>2. Gives(Item) = 1 /\ Shut(Item) = 0 /\ Takes(Item) \in Nat
  BY <1>1, ItemShape, TakesNat
<1>3. Closed
  BY <1>2 DEF Closed
<1> QED
  BY <1>2, <1>3, GiveStep

LEMMA TakesOf ==
  /\ Doing("infer") => Takes(Item) = 0
  /\ Doing("unary") => Takes(Item) = 1
  /\ Doing("binary") => Takes(Item) = 2
  /\ Doing("arms") => Takes(Item) = 2
BY ItemShape DEF Doing

LEMMA ErrorGood == Good(InferError, TRUE)
<1>1. Leaf(InferError)
  BY DEF Leaf, Poison
<1> QED
  BY <1>1, GoodLeaf

\* The types that the rules name.
LEMMA NamesGood ==
  /\ \A e : Good(Bool, e) /\ Good(Usize, e) /\ Good(Pointer(Primitive("u8")), e)
  /\ \A type \in LiteralTypes : \A e : Good(type, e)
<1>1. {"i32", "f64", "str", "bool", "char", "usize", "u8"} \subseteq PrimitiveNames
  BY DEF PrimitiveNames, BitWidth
<1>2. \A e : Good(Bool, e) /\ Good(Usize, e) /\ Good(Primitive("u8"), e)
  BY <1>1, PrimitiveGood DEF Bool, Usize
<1>3. \A e : Good(Pointer(Primitive("u8")), e)
  <2>1. Wraps(Pointer(Primitive("u8")), Primitive("u8"))
    BY DEF Wraps
  <2> QED
    BY <1>2, <2>1, GoodWraps
<1>4. \A type \in LiteralTypes : \A e : Good(type, e)
  <2>1. \A type \in LiteralTypes : \E name \in PrimitiveNames : type = Primitive(name)
    BY <1>1 DEF LiteralTypes, I32, F64, Str, Bool, Usize
  <2> QED
    BY <2>1, PrimitiveGood
<1> QED
  BY <1>2, <1>3, <1>4

\* The cases of typechecker_infer_expr, one by one.
LEMMA LiteralKeeps == ASSUME InferInv, Literal PROVE InferInv'
<1>1. Doing("infer") /\ UNCHANGED <<chain, expected_ret, left>> /\ UNCHANGED had_error
  BY DEF Literal, NoChecks
<1>2. PICK type \in Literals : GiveValue(0, [type |-> type, node |-> LiteralNode(type)])
  BY DEF Literal
<1>3. ValueGood([type |-> type, node |-> LiteralNode(type)], had_error')
  BY InferAssumption, NamesGood DEF ValueGood
<1>4. had_error' \in BOOLEAN /\ (had_error => had_error') /\ Takes(Item) = 0
  BY <1>1, TakesOf DEF InferInv
<1> QED
  BY <1>1, <1>2, <1>3, <1>4, Returns

LEMMA WithoutPartsKeeps == ASSUME InferInv, WithoutParts PROVE InferInv'
<1>1. /\ Doing("infer") /\ GiveValue(0, Value(Unknown))
      /\ UNCHANGED <<chain, expected_ret, left>> /\ UNCHANGED had_error
  BY DEF WithoutParts, NoChecks, Give
<1>2. ValueGood(Value(Unknown), had_error')
  BY UnknownGood DEF Value, ValueGood
<1>3. had_error' \in BOOLEAN /\ (had_error => had_error') /\ Takes(Item) = 0
  BY <1>1, TakesOf DEF InferInv
<1> QED
  BY <1>1, <1>2, <1>3, Returns

LEMMA IdentifierKeeps == ASSUME InferInv, Identifier PROVE InferInv'
<1>1. Doing("infer") /\ UNCHANGED <<chain, expected_ret, left>>
  BY DEF Identifier
<1>2. PICK name \in Names :
        /\ GiveValue(0, [type |-> IdentifierType(name), node |-> IdentifierNode(name)])
        /\ had_error' = (had_error \/ TypeOf(chain, name) = NoType)
  BY DEF Identifier
<1>3. had_error' \in BOOLEAN /\ (had_error => had_error') /\ Takes(Item) = 0
  BY <1>1, <1>2, TakesOf
<1>4. ChainGood(chain, had_error')
  BY <1>3, ChainMore DEF InferInv
<1>5. Good(IdentifierType(name), had_error')
  <2>1. CASE TypeOf(chain, name) = NoType
    <3>1. had_error' = TRUE
      BY <1>2, <2>1
    <3> QED
      BY <2>1, <3>1, ErrorGood DEF IdentifierType
  <2>2. CASE TypeOf(chain, name) # NoType
    BY <1>4, <2>2, ChainLookup DEF IdentifierType
  <2> QED
    BY <2>1, <2>2
<1>6. ValueGood([type |-> IdentifierType(name), node |-> IdentifierNode(name)], had_error')
  BY <1>5 DEF ValueGood
<1> QED
  BY <1>1, <1>2, <1>3, <1>6, Returns

\* The operands of the expression at hand.
LEMMA OneOperand ==
  ASSUME InferInv, Doing("unary"), NEW error, had_error => error
  PROVE  Good(Val(1).type, error) /\ ValueGood(Val(1), error)
BY ValGood, TakesOf

\* And those of a call with two.
LEMMA TwoOperands ==
  ASSUME InferInv, NEW what \in {"binary", "arms", "arm"}, Doing(what), NEW error, had_error => error
  PROVE  Good(Val(2).type, error) /\ Good(Val(1).type, error)
<1>1. Takes(Item) = 2
  BY ItemShape DEF Doing
<1> QED
  BY <1>1, ValGood

\* What is InferError if a check fails is a type, as the failure is reported.
LEMMA UnlessGood ==
  ASSUME NEW rule, NEW types, NEW type, NEW error, Good(type, error), ~Rule(rule, types) => error = TRUE
  PROVE  Good(Unless(rule, types, type), error)
BY ErrorGood DEF Unless

LEMMA BinaryKeeps == ASSUME InferInv, Binary PROVE InferInv'
<1>1. Doing("binary") /\ UNCHANGED <<chain, expected_ret, left>>
  BY DEF Binary
<1> DEFINE types == <<Val(2).type, Val(1).type>>
<1>2. PICK op \in BinaryOps, rule \in BinaryOps \cup {"literal"} :
        /\ had_error' = (had_error \/ ~Rule(rule, types))
        /\ GiveValue(2, Operation(CASE op = "arithmetic" -> Unless(rule, types, types[1])
                                    [] op \in {"compare", "logical"} -> Bool
                                    [] OTHER -> Unknown))
  BY DEF Binary, Check
<1>3. had_error' \in BOOLEAN /\ (had_error => had_error') /\ Takes(Item) = 2
  BY <1>1, <1>2, TakesOf
<1>4. Good(types[1], had_error')
  BY <1>1, <1>3, TwoOperands
<1> HIDE DEF types
<1>5. Good(Unless(rule, types, types[1]), had_error')
  BY <1>2, <1>4, UnlessGood
<1> DEFINE type == CASE op = "arithmetic" -> Unless(rule, types, types[1])
                     [] op \in {"compare", "logical"} -> Bool
                     [] OTHER -> Unknown
<1>6. type \in {Unless(rule, types, types[1]), Bool, Unknown}
  BY DEF BinaryOps
<1>7. ValueGood(Operation(type), had_error') /\ GiveValue(2, Operation(type))
  <2>1. GiveValue(2, Operation(type))
    BY <1>2
  <2> HIDE DEF type
  <2> QED
    BY <1>5, <1>6, <2>1, NamesGood, UnknownGood DEF Operation, ValueGood
<1> HIDE DEF type
<1> QED
  BY <1>1, <1>3, <1>7, Returns

LEMMA AssignKeeps == ASSUME InferInv, Assign PROVE InferInv'
<1>1. /\ Doing("binary") /\ UNCHANGED <<chain, expected_ret, left>>
      /\ GiveValue(2, Value(Val(2).type))
  BY DEF Assign, Give
<1>2. had_error' \in BOOLEAN /\ (had_error => had_error') /\ Takes(Item) = 2
  BY <1>1, TakesOf DEF Assign
<1>3. ValueGood(Value(Val(2).type), had_error')
  BY <1>1, <1>2, TwoOperands DEF Value, ValueGood
<1> QED
  BY <1>1, <1>2, <1>3, Returns

LEMMA IndexKeeps == ASSUME InferInv, Index PROVE InferInv'
<1> DEFINE target == Val(2).type
           index == Val(1).type
           type == IF target.kind = "ARRAY" THEN target.inner
                   ELSE IF Resolved(target) THEN InferError ELSE Unknown
<1>1. /\ Doing("binary") /\ UNCHANGED <<chain, expected_ret, left>>
      /\ GiveValue(2, Value(type))
      /\ had_error' = (had_error \/ ~Rule("array", <<target>>) \/ ~Rule("index", <<index>>))
  BY DEF Index, Give
<1>2. had_error' \in BOOLEAN /\ (had_error => had_error') /\ Takes(Item) = 2
  BY <1>1, TakesOf
<1>3. Good(target, had_error')
  BY <1>1, <1>2, TwoOperands
<1>4. Good(type, had_error')
  <2>1. CASE target.kind = "ARRAY"
    BY <1>3, <2>1, GoodKinds DEF Wrapping
  <2>2. CASE target.kind # "ARRAY" /\ Resolved(target)
    <3>1. ~Rule("array", <<target>>)
      BY <2>2 DEF Rule, Fields
    <3>2. had_error' = TRUE
      BY <1>1, <3>1
    <3> QED
      BY <2>2, <3>2, ErrorGood
  <2>3. CASE target.kind # "ARRAY" /\ ~Resolved(target)
    BY <2>3, UnknownGood
  <2> QED
    BY <2>1, <2>2, <2>3
<1> HIDE DEF type
<1>5. ValueGood(Value(type), had_error')
  BY <1>4 DEF Value, ValueGood
<1> QED
  BY <1>1, <1>2, <1>5, Returns

LEMMA TupleExprKeeps == ASSUME InferInv, TupleExpr PROVE InferInv'
<1> DEFINE type == Tuple(<<Val(2).type, Val(1).type>>)
<1>1. /\ Doing("binary") /\ UNCHANGED <<chain, expected_ret, left>>
      /\ GiveValue(2, Value(type)) /\ UNCHANGED had_error
  BY DEF TupleExpr, Give, NoChecks
<1>2. had_error' \in BOOLEAN /\ (had_error => had_error') /\ Takes(Item) = 2
  BY <1>1, TakesOf DEF InferInv
<1>3. Good(Val(2).type, had_error') /\ Good(Val(1).type, had_error')
  BY <1>1, <1>2, TwoOperands
<1>4. Good(type, had_error')
  <2>1. Pairs(type, Val(2).type, Val(1).type)
    BY DEF Pairs
  <2> HIDE DEF type
  <2> QED
    BY <1>3, <2>1, GoodTuple
<1> HIDE DEF type
<1>5. ValueGood(Value(type), had_error')
  BY <1>4 DEF Value, ValueGood
<1> QED
  BY <1>1, <1>2, <1>5, Returns

\* The type of an expression with one operand is good, if what fails is reported.
LEMMA UnaryTypeGood ==
  ASSUME NEW type, NEW error, Good(type, error), NEW form \in UnaryForms,
         ~Rule(UnaryRule(form), <<type>>) => error = TRUE
  PROVE  Good(UnaryType(form, type), error)
<1> DEFINE rule == UnaryRule(form)
<1>1. CASE form = "promote"
  BY <1>1 DEF UnaryType
<1>2. CASE form # "promote" /\ ~Resolved(type)
  BY <1>2, UnknownGood DEF UnaryType
<1>3. CASE form # "promote" /\ Resolved(type) /\ form # "not" /\ ~Rule(rule, <<type>>)
  BY <1>3, ErrorGood DEF UnaryType
<1>4. CASE form # "promote" /\ Resolved(type) /\ (form = "not" \/ Rule(rule, <<type>>))
  <2> DEFINE result == CASE form \in {"deref", "try"} -> type.inner
                         [] form = "address" -> Pointer(IF type.kind = "ARRAY" THEN type.inner ELSE type)
                         [] form \in {"minus", "not"} -> type
                         [] form \in Fields -> FieldOf(type, form)
                         [] OTHER -> Unknown
  <2>1. UnaryType(form, type) = result
    BY <1>4 DEF UnaryType
  <2>2. CASE form \in {"deref", "try"}
    <3>1. Rule(rule, <<type>>)
      BY <1>4, <2>2
    <3>2. type.kind \in Wrapping
      BY <1>4, <2>2, <3>1 DEF Rule, UnaryRule, Fields, Wrapping
    <3>3. result = type.inner
      BY <2>2 DEF Fields
    <3> HIDE DEF result
    <3> QED
      BY <2>1, <3>2, <3>3, GoodKinds
  <2>3. CASE form = "address"
    <3> DEFINE of == IF type.kind = "ARRAY" THEN type.inner ELSE type
    <3>1. Good(of, error)
      BY GoodKinds DEF Wrapping
    <3>2. result = Pointer(of)
      BY <2>3 DEF Fields
    <3> HIDE DEF result, of
    <3>3. Wraps(Pointer(of), of)
      BY DEF Wraps
    <3> QED
      BY <2>1, <3>1, <3>2, <3>3, GoodWraps
  <2>4. CASE form \in {"minus", "not"}
    BY <2>1, <2>4 DEF Fields
  <2>5. CASE form \in Fields
    <3>1. FieldOf(type, form) \in {Pointer(Primitive("u8")), Usize, InferError, Unknown}
      BY DEF FieldOf
    <3>2. FieldOf(type, form) # InferError
      <4>1. Rule(rule, <<type>>) /\ rule = form
        BY <1>4, <2>5 DEF UnaryRule, Fields
      <4> QED
        BY <2>5, <4>1 DEF Rule, Fields
    <3>3. result = FieldOf(type, form)
      BY <2>5 DEF Fields
    <3> HIDE DEF result
    <3> QED
      BY <2>1, <3>1, <3>2, <3>3, NamesGood, UnknownGood
  <2>6. CASE form \notin {"deref", "try", "address", "minus", "not"} \cup Fields
    BY <2>1, <2>6, UnknownGood
  <2> QED
    BY <2>2, <2>3, <2>4, <2>5, <2>6
<1> QED
  BY <1>1, <1>2, <1>3, <1>4

LEMMA UnaryKeeps == ASSUME InferInv, Unary PROVE InferInv'
<1>1. Doing("unary") /\ UNCHANGED <<chain, expected_ret, left>>
  BY DEF Unary
<1>2. PICK form \in UnaryForms :
        /\ had_error' = (had_error \/ ~Rule(UnaryRule(form), <<Val(1).type>>))
        /\ IF form = "minus" /\ Val(1).node \in {"int", "float"}
           THEN GiveValue(1, [Val(1) EXCEPT !.node = Negated(@)])
           ELSE GiveValue(1, [type |-> UnaryType(form, Val(1).type), node |-> UnaryNode(form)])
  BY DEF Unary, Check
<1>3. had_error' \in BOOLEAN /\ (had_error => had_error') /\ Takes(Item) = 1
  BY <1>1, <1>2, TakesOf
<1>4. Good(Val(1).type, had_error') /\ ValueGood(Val(1), had_error')
  BY <1>1, <1>3, OneOperand
<1>5. Good(UnaryType(form, Val(1).type), had_error')
  <2>1. ~Rule(UnaryRule(form), <<Val(1).type>>) => had_error' = TRUE
    BY <1>2
  <2> QED
    BY <1>4, <2>1, UnaryTypeGood
<1>6. \E value : GiveValue(1, value) /\ ValueGood(value, had_error')
  <2> DEFINE negated == [Val(1) EXCEPT !.node = Negated(@)]
             other == [type |-> UnaryType(form, Val(1).type), node |-> UnaryNode(form)]
  <2>1. ValueGood(negated, had_error')
    BY <1>4 DEF ValueGood
  <2>2. ValueGood(other, had_error')
    BY <1>5 DEF ValueGood
  <2>3. GiveValue(1, negated) \/ GiveValue(1, other)
    BY <1>2
  <2> HIDE DEF negated, other
  <2> QED
    BY <2>1, <2>2, <2>3
<1> QED
  BY <1>1, <1>3, <1>6, Returns

LEMMA CastKeeps == ASSUME InferInv, Cast PROVE InferInv'
<1>1. Doing("unary") /\ UNCHANGED <<chain, expected_ret, left>> /\ UNCHANGED had_error
  BY DEF Cast, NoChecks
<1>2. PICK te \in TypeExprs : GiveValue(1, Value(ResolveTypeExpr(chain, te)))
  BY DEF Cast, Give
<1>3. had_error' \in BOOLEAN /\ (had_error => had_error') /\ Takes(Item) = 1
  BY <1>1, TakesOf DEF InferInv
<1>4. ChainGood(chain, had_error')
  BY <1>1, <1>3, AtWork
<1>5. ValueGood(Value(ResolveTypeExpr(chain, te)), had_error')
  BY <1>4, ResolveGood, InferAssumption DEF Value, ValueGood
<1> QED
  BY <1>1, <1>2, <1>3, <1>5, Returns

LEMMA CatchNothingKeeps == ASSUME InferInv, CatchNothing PROVE InferInv'
<1> DEFINE type == IF Resolved(Val(1).type) THEN InferError ELSE Unknown
<1>1. /\ Doing("unary") /\ UNCHANGED <<chain, expected_ret, left>>
      /\ Val(1).type.kind # "FALLIBLE"
      /\ had_error' = (had_error \/ ~Rule("fallible", <<Val(1).type>>))
      /\ GiveValue(1, Value(type))
  BY DEF CatchNothing, Check, Give
<1>2. had_error' \in BOOLEAN /\ (had_error => had_error') /\ Takes(Item) = 1
  BY <1>1, TakesOf
<1>3. Good(type, had_error')
  <2>1. CASE Resolved(Val(1).type)
    <3>1. ~Rule("fallible", <<Val(1).type>>)
      BY <1>1, <2>1 DEF Rule, Fields
    <3>2. had_error' = TRUE
      BY <1>1, <3>1
    <3> QED
      BY <2>1, <3>2, ErrorGood
  <2>2. CASE ~Resolved(Val(1).type)
    BY <2>2, UnknownGood
  <2> QED
    BY <2>1, <2>2
<1> HIDE DEF type
<1>4. ValueGood(Value(type), had_error')
  BY <1>3 DEF Value, ValueGood
<1> QED
  BY <1>1, <1>2, <1>4, Returns

LEMMA CaughtBlockKeeps == ASSUME InferInv, CaughtBlock PROVE InferInv'
<1>1. /\ Doing("caught") /\ Item.form = "block" /\ chain' = Pop(chain)
      /\ GiveValue(0, Value(Item.success)) /\ UNCHANGED <<expected_ret, left>>
      /\ UNCHANGED had_error
  BY DEF CaughtBlock, CaughtScope, Give, NoChecks
<1>2. Item.do = "caught" /\ Takes(Item) = 0 /\ Gives(Item) = 1 /\ Shut(Item) = 1
  BY <1>1, ItemShape DEF Doing
<1>3. had_error' \in BOOLEAN /\ (had_error => had_error')
  BY <1>1 DEF InferInv
<1>4. ValueGood(Value(Item.success), had_error')
  BY <1>1, <1>2, <1>3, AtWork DEF ItemGood, Value, ValueGood
<1>5. Closed
  BY <1>1, <1>2 DEF Closed
<1> QED
  BY <1>1, <1>2, <1>3, <1>4, <1>5, GiveStep

LEMMA CaughtExprKeeps == ASSUME InferInv, CaughtExpr PROVE InferInv'
<1>1. Doing("caught") /\ Item.form = "expr" /\ UNCHANGED <<chain, expected_ret, left>>
  BY DEF CaughtExpr
<1>2. Item.do = "caught" /\ Takes(Item) = 1 /\ Gives(Item) = 1 /\ Shut(Item) = 0
  BY <1>1, ItemShape DEF Doing
<1>3. PICK type \in {Val(1).type, Item.success} : GiveValue(1, Value(type))
  BY DEF CaughtExpr, Give
<1>4. had_error' \in BOOLEAN /\ (had_error => had_error')
  BY DEF CaughtExpr, NoChecks, Check, InferInv
<1>5. Good(Val(1).type, had_error')
  BY <1>1, <1>2, <1>4, ValGood
<1>6. Good(Item.success, had_error')
  BY <1>1, <1>2, <1>4, AtWork DEF ItemGood
<1>7. ValueGood(Value(type), had_error')
  BY <1>3, <1>5, <1>6 DEF Value, ValueGood
<1>8. Closed
  BY <1>1, <1>2 DEF Closed
<1> QED
  BY <1>1, <1>2, <1>3, <1>4, <1>7, <1>8, GiveStep

LEMMA MatchDoneKeeps == ASSUME InferInv, MatchDone PROVE InferInv'
<1>1. /\ Doing("arms") /\ UNCHANGED <<chain, expected_ret, left>> /\ UNCHANGED had_error
      /\ GiveValue(2, Value(Val(1).type))
  BY DEF MatchDone, Give, NoChecks
<1>2. had_error' \in BOOLEAN /\ (had_error => had_error') /\ Takes(Item) = 2
  BY <1>1, TakesOf DEF InferInv
<1>3. ValueGood(Value(Val(1).type), had_error')
  BY <1>1, <1>2, TwoOperands DEF Value, ValueGood
<1> QED
  BY <1>1, <1>2, <1>3, Returns

LEMMA ArmDoneKeeps == ASSUME InferInv, ArmDone PROVE InferInv'
<1>1. Doing("arm") /\ chain' = Pop(chain) /\ UNCHANGED <<expected_ret, left>>
  BY DEF ArmDone
<1>2. Takes(Item) = 2 /\ Gives(Item) = 1 /\ Shut(Item) = 1
  BY <1>1, ItemShape DEF Doing
<1>3. PICK type \in {Val(2).type, Val(1).type} : GiveValue(2, Value(type))
  BY DEF ArmDone, Give
<1>4. had_error' \in BOOLEAN /\ (had_error => had_error')
  BY DEF ArmDone, NoChecks, Check, InferInv
<1>5. ValueGood(Value(type), had_error')
  BY <1>1, <1>3, <1>4, TwoOperands DEF Value, ValueGood
<1>6. Closed
  BY <1>1, <1>2 DEF Closed
<1> QED
  BY <1>1, <1>2, <1>3, <1>4, <1>5, <1>6, GiveStep

----------------------------------------------------------------------------
(* The actions that call, and the statements                               *)

\* A case that infers its operands first.
LEMMA OperandsKeeps == ASSUME InferInv, Operands PROVE InferInv'
<1>1. /\ Doing("infer") /\ left > 0 /\ left' = left - 1
      /\ UNCHANGED <<chain, expected_ret, vals>> /\ UNCHANGED had_error
  BY DEF Operands, NoChecks
<1>2. had_error' \in BOOLEAN /\ (had_error => had_error') /\ left' \in 0 .. Nodes
  BY <1>1, InferAssumption DEF InferInv
<1> DEFINE n == Len(vals)
           m == Len(chain)
           rest == Tail(todo)
<1>3. Takes(Item) = 0 /\ Gives(Item) = 1 /\ Shut(Item) = 0
  BY <1>1, ItemShape DEF Doing
<1>4. /\ n \in Nat /\ m \in Nat /\ \E S : rest \in Seq(S)
      /\ ChainGood(chain', had_error') /\ ValsGood(vals', had_error')
      /\ Plan(rest, n - 0 + 1, m - 0, had_error')
  BY <1>1, <1>2, <1>3, AtWork
<1>5. todo' \in {<<Infer, Do("unary")>> \o rest, <<Infer, Infer, Do("binary")>> \o rest}
  BY DEF Operands, Call
<1>6. n' = n /\ m' = m
  BY <1>1
<1> HIDE DEF n, m, rest
<1>7. Plan(rest, n + 1, m, had_error')
  <2>1. n - 0 + 1 = n + 1 /\ m - 0 = m
    BY <1>4
  <2> QED
    BY <1>4, <2>1
<1>8. Plan(<<Infer, Do("unary")>> \o rest, n, m, had_error')
  <2>1. Plan(<<Do("unary")>> \o rest, n + 1, m, had_error')
    BY <1>4, <1>7, PlanOperator
  <2>2. Plan(<<Infer>> \o (<<Do("unary")>> \o rest), n, m, had_error')
    BY <1>4, <2>1, PlanInfer
  <2> QED
    BY <1>4, <2>2, TwoCalls
<1>9. Plan(<<Infer, Infer, Do("binary")>> \o rest, n, m, had_error')
  <2>1. Plan(<<Do("binary")>> \o rest, (n + 1) + 1, m, had_error')
    BY <1>4, <1>7, PlanOperator
  <2>2. Plan(<<Infer>> \o (<<Do("binary")>> \o rest), n + 1, m, had_error')
    BY <1>4, <2>1, PlanInfer
  <2>3. Plan(<<Infer>> \o (<<Infer>> \o (<<Do("binary")>> \o rest)), n, m, had_error')
    BY <1>4, <2>2, PlanInfer
  <2>4. PICK S : rest \in Seq(S)
    BY <1>4
  <2>5. <<Infer, Infer, Do("binary")>> \o rest = <<Infer>> \o (<<Infer>> \o (<<Do("binary")>> \o rest))
    BY <2>4, ThreeCalls
  <2> QED
    BY <2>3, <2>5
<1>10. Plan(todo', n', m', had_error')
  BY <1>5, <1>6, <1>8, <1>9
<1>11. Plan(todo', Len(vals'), Len(chain'), had_error')
  BY <1>10 DEF n, m
<1> QED
  BY <1>1, <1>2, <1>4, <1>11, Onward

LEMMA CatchHandlerKeeps == ASSUME InferInv, CatchHandler PROVE InferInv'
<1>1. /\ Doing("unary") /\ Val(1).type.kind = "FALLIBLE" /\ Drop(1)
      /\ UNCHANGED <<expected_ret, left>> /\ UNCHANGED had_error
  BY DEF CatchHandler, NoChecks
<1>2. had_error' \in BOOLEAN /\ (had_error => had_error') /\ left' \in 0 .. Nodes
  BY <1>1 DEF InferInv
<1> DEFINE n == Len(vals)
           m == Len(chain)
           rest == Tail(todo)
<1>3. Takes(Item) = 1 /\ Gives(Item) = 1 /\ Shut(Item) = 0
  BY <1>1, ItemShape DEF Doing
<1>4. /\ n \in Nat /\ m \in Nat /\ \E S : rest \in Seq(S) /\ 1 <= n
      /\ ChainGood(chain, had_error')
      /\ Plan(rest, n - 1 + 1, m - 0, had_error')
  BY <1>1, <1>2, <1>3, AtWork
<1>5. ValsGood(vals', had_error') /\ Len(vals') = n - 1 /\ Len(vals') \in Nat
  BY <1>1, <1>2, <1>3, DropStep
<1>6. \/ /\ todo' = <<Block, Caught("block")>> \o rest
         /\ \E name : chain' = Bind(PushScope, name, Unknown)
      \/ todo' = <<Infer, Caught("expr")>> \o rest /\ chain' = chain
  BY DEF CatchHandler, Call
<1>7. Good(Val(1).type.inner, had_error')
  BY <1>1, <1>2, OneOperand, GoodKinds DEF Wrapping
<1> HIDE DEF n, rest, m
<1>8. \A form : /\ Caught(form).do = "caught" /\ Caught(form).form = form
                /\ Good(Caught(form).success, had_error')
  BY <1>7 DEF Caught
<1>9. n - 1 \in Nat /\ Plan(rest, (n - 1) + 1, m, had_error')
  <2>1. n - 1 + 1 = (n - 1) + 1 /\ m - 0 = m /\ n - 1 \in Nat
    BY <1>4
  <2> QED
    BY <1>4, <2>1
<1>10. CASE \E name : /\ todo' = <<Block, Caught("block")>> \o rest
                      /\ chain' = Bind(PushScope, name, Unknown)
  <2>1. PICK name : chain' = Bind(PushScope, name, Unknown)
    BY <1>10
  <2>2. ChainGood(PushScope, had_error') /\ Len(PushScope) = m + 1
    BY <1>4, ChainPush DEF PushScope, m
  <2>3. ChainGood(chain', had_error') /\ Len(chain') = m + 1
    BY <2>1, <2>2, BindGood, UnknownGood
  <2>4. Plan(<<Caught("block")>> \o rest, n - 1, m + 1, had_error')
    BY <1>4, <1>8, <1>9, PlanCaught
  <2>5. m + 1 \in Nat
    BY <1>4
  <2>6. Plan(<<Block>> \o (<<Caught("block")>> \o rest), n - 1, m + 1, had_error')
    BY <1>9, <2>4, <2>5, PlanBlock
  <2>7. Plan(todo', Len(vals'), Len(chain'), had_error')
    BY <1>4, <1>5, <1>10, <2>3, <2>6, TwoCalls
  <2> QED
    BY <1>1, <1>2, <1>5, <2>3, <2>7, Onward
<1>11. CASE todo' = <<Infer, Caught("expr")>> \o rest /\ chain' = chain
  <2>1. Plan(<<Caught("expr")>> \o rest, (n - 1) + 1, m, had_error')
    BY <1>4, <1>8, <1>9, PlanCaught
  <2>2. Plan(<<Infer>> \o (<<Caught("expr")>> \o rest), n - 1, m, had_error')
    BY <1>4, <1>9, <2>1, PlanInfer
  <2>3. Len(chain') = m
    BY <1>11 DEF m
  <2>4. Plan(todo', Len(vals'), Len(chain'), had_error')
    BY <1>4, <1>5, <1>11, <2>2, <2>3, TwoCalls
  <2> QED
    BY <1>1, <1>2, <1>4, <1>5, <1>11, <2>4, Onward
<1> QED
  BY <1>6, <1>10, <1>11

LEMMA MatchExprKeeps == ASSUME InferInv, MatchExpr PROVE InferInv'
<1> DEFINE arms == [do |-> "arms", first |-> TRUE]
<1>1. /\ Doing("unary") /\ vals' = Append(vals, Value(Unknown)) /\ todo' = <<arms>> \o Tail(todo)
      /\ UNCHANGED <<chain, expected_ret, left>> /\ UNCHANGED had_error
  BY DEF MatchExpr, NoChecks, Call
<1>2. had_error' \in BOOLEAN /\ (had_error => had_error') /\ left' \in 0 .. Nodes
  BY <1>1 DEF InferInv
<1>3. Takes(Item) = 1 /\ Gives(Item) = 1 /\ Shut(Item) = 0
  BY <1>1, ItemShape DEF Doing
<1>4. /\ Len(vals) \in Nat /\ Len(chain) \in Nat /\ 1 <= Len(vals)
      /\ ChainGood(chain', had_error') /\ ValsGood(vals, had_error')
      /\ Plan(Tail(todo), Len(vals) - 1 + 1, Len(chain) - 0, had_error')
  BY <1>1, <1>2, <1>3, AtWork
<1>5. ValueGood(Value(Unknown), had_error')
  BY UnknownGood DEF Value, ValueGood
<1>6. ValsGood(vals', had_error') /\ Len(vals') = Len(vals) + 1
  BY <1>1, <1>4, <1>5, ValsAppended
<1>7. Plan(Tail(todo), Len(vals), Len(chain), had_error')
  <2>1. Len(vals) - 1 + 1 = Len(vals) /\ Len(chain) - 0 = Len(chain)
    BY <1>4
  <2> QED
    BY <1>4, <2>1
<1>8. arms.do = "arms" /\ arms = [do |-> arms.do, first |-> arms.first]
  OBVIOUS
<1> HIDE DEF arms
<1>9. Plan(<<arms>> \o Tail(todo), Len(vals) + 1, Len(chain), had_error')
  BY <1>4, <1>7, <1>8, PlanArms
<1>10. Plan(todo', Len(vals'), Len(chain'), had_error')
  BY <1>1, <1>6, <1>9
<1> QED
  BY <1>1, <1>2, <1>4, <1>6, <1>10, Onward

\* The scope of a pattern.
LEMMA PatternScopeGood ==
  ASSUME NEW error, ChainGood(chain, error), NEW kind, NEW name, NEW subject, Good(subject, error)
  PROVE  /\ ChainGood(PatternScope(kind, name, subject), error)
         /\ Len(PatternScope(kind, name, subject)) = Len(chain) + 1
<1>1. ChainGood(PushScope, error) /\ Len(PushScope) = Len(chain) + 1
  BY ChainPush DEF PushScope
<1>2. CASE kind = "name"
  BY <1>1, <1>2, BindGood DEF PatternScope
<1>3. CASE kind = "destructure"
  BY <1>1, <1>3, BindGood, UnknownGood DEF PatternScope
<1>4. CASE kind \notin {"name", "destructure"}
  BY <1>1, <1>4 DEF PatternScope
<1> QED
  BY <1>2, <1>3, <1>4

\* The arms or the statements after the first one.
LEMMA AgainShape ==
  ASSUME NEW x, x = [do |-> x.do, first |-> x.first], NEW first
  PROVE  [x EXCEPT !.first = first] = [do |-> x.do, first |-> first]
OBVIOUS

\* An arm's calls, without a guard and with one.
LEMMA ArmCalls ==
  ASSUME NEW S, NEW s \in Seq(S), NEW x, NEW y
  PROVE  (<<>> \o <<x, y>>) \o s = <<x>> \o (<<y>> \o s)
<1> DEFINE Q == S \cup {x, y}
<1>1. <<x, y>> \in Seq(Q)
  OBVIOUS
<1> HIDE DEF Q
<1>2. <<>> \o <<x, y>> = <<x, y>>
  BY <1>1, ConcatEmptySeq
<1>3. <<x, y>> \o s = <<x>> \o (<<y>> \o s)
  BY TwoCalls
<1> QED
  BY <1>2, <1>3

LEMMA GuardedCalls ==
  ASSUME NEW S, NEW s \in Seq(S), NEW x, NEW y, NEW v, NEW w
  PROVE  (<<v, w>> \o <<x, y>>) \o s = <<v>> \o (<<w>> \o (<<x>> \o (<<y>> \o s)))
<1> DEFINE Q == S \cup {v, w, x, y}
<1>1. \A i \in 1 .. Len(s) : s[i] \in Q
  OBVIOUS
<1>2. s \in Seq(Q)
  BY <1>1, SeqDef
<1>3. x \in Q /\ y \in Q /\ v \in Q /\ w \in Q
  OBVIOUS
<1> HIDE DEF Q
<1>4. <<x, y>> \in Seq(Q) /\ <<v, w>> \in Seq(Q)
  BY <1>3
<1>5. (<<v, w>> \o <<x, y>>) \o s = <<v, w>> \o (<<x, y>> \o s)
  BY <1>2, <1>4, ConcatAssociative
<1>6. <<x, y>> \o s = <<x>> \o (<<y>> \o s)
  BY TwoCalls
<1>7. <<x, y>> \o s \in Seq(Q)
  BY <1>2, <1>4, ConcatProperties
<1>8. <<v, w>> \o (<<x, y>> \o s) = <<v>> \o (<<w>> \o (<<x, y>> \o s))
  BY <1>7, TwoCalls
<1> QED
  BY <1>5, <1>6, <1>8

LEMMA ArmKeeps == ASSUME InferInv, Arm PROVE InferInv'
<1> DEFINE n == Len(vals)
           m == Len(chain)
           rest == Tail(todo)
           again == [Item EXCEPT !.first = FALSE]
<1>1. Doing("arms") /\ UNCHANGED <<expected_ret, vals>>
  BY DEF Arm
<1>2. PICK kind \in Patterns, name \in Names, guarded \in BOOLEAN :
        /\ chain' = PatternScope(kind, name, Val(2).type)
        /\ had_error' = (had_error \/ ~Rule(kind, <<Val(2).type>>))
        /\ todo' = (IF guarded THEN <<Infer, Do("guard")>> ELSE <<>>)
                     \o <<Do("body"), again>> \o rest
  BY Zenon DEF Arm, Check
<1>3. had_error' \in BOOLEAN /\ (had_error => had_error')
  BY <1>2
<1>4. left' \in 0 .. Nodes
  BY InferAssumption DEF InferInv, Arm
<1>5. Takes(Item) = 2 /\ Gives(Item) = 1 /\ Shut(Item) = 0 /\ Item.do = "arms"
  BY <1>1, ItemShape DEF Doing
<1>6. /\ n \in Nat /\ m \in Nat /\ 2 <= n /\ ChainGood(chain, had_error')
      /\ ItemGood(Item, had_error')
      /\ ValsGood(vals', had_error') /\ Plan(rest, n - 2 + 1, m - 0, had_error')
  BY <1>1, <1>3, <1>5, AtWork
<1>7. PICK S : rest \in Seq(S)
  BY <1>1, <1>3, AtWork
<1>8. Good(Val(2).type, had_error')
  BY <1>1, <1>3, TwoOperands
<1>9. ChainGood(chain', had_error') /\ Len(chain') = m + 1
  BY <1>2, <1>6, <1>8, PatternScopeGood
<1>10. again.do = "arms" /\ again = [do |-> again.do, first |-> again.first]
  <2>1. Item = [do |-> Item.do, first |-> Item.first]
    BY <1>5, <1>6 DEF ItemGood
  <2>2. again = [do |-> Item.do, first |-> FALSE]
    BY <2>1, AgainShape
  <2> HIDE DEF again
  <2> QED
    BY <1>5, <2>2
<1>11. Len(vals') = n
  BY <1>1
<1> HIDE DEF n, m, rest, again
<1>12. /\ n - 1 \in Nat /\ n - 1 >= 1 /\ (n - 1) + 1 = n /\ m + 1 \in Nat /\ n >= 1
       /\ Plan(rest, n - 1, m, had_error')
  <2>1. n - 2 + 1 = n - 1 /\ m - 0 = m
    BY <1>6
  <2> QED
    BY <1>6, <2>1
<1>13. Plan(<<again>> \o rest, n, m, had_error')
  <2>1. Plan(<<again>> \o rest, (n - 1) + 1, m, had_error')
    BY <1>6, <1>10, <1>12, PlanArms
  <2> QED
    BY <1>12, <2>1
<1>14. Plan(<<Do("body")>> \o (<<again>> \o rest), n, m + 1, had_error')
  BY <1>6, <1>12, <1>13, PlanBody
<1>15. Plan(todo', n, m + 1, had_error')
  <2>1. CASE ~guarded
    <3>1. todo' = (<<>> \o <<Do("body"), again>>) \o rest
      BY <1>2, <2>1
    <3>2. todo' = <<Do("body")>> \o (<<again>> \o rest)
      BY <1>7, <3>1, ArmCalls
    <3> QED
      BY <1>14, <3>2
  <2>2. CASE guarded
    <3>1. todo' = (<<Infer, Do("guard")>> \o <<Do("body"), again>>) \o rest
      BY <1>2, <2>2
    <3>2. todo' = <<Infer>> \o (<<Do("guard")>> \o (<<Do("body")>> \o (<<again>> \o rest)))
      <4>1. (<<Infer, Do("guard")>> \o <<Do("body"), again>>) \o rest
              = <<Infer>> \o (<<Do("guard")>> \o (<<Do("body")>> \o (<<again>> \o rest)))
        <5>1. \A x, y, v, w :
                (<<v, w>> \o <<x, y>>) \o rest = <<v>> \o (<<w>> \o (<<x>> \o (<<y>> \o rest)))
          BY <1>7, GuardedCalls
        <5> QED
          BY <5>1, Zenon
      <4> QED
        BY <3>1, <4>1
    <3>3. Plan(<<Do("guard")>> \o (<<Do("body")>> \o (<<again>> \o rest)), n + 1, m + 1, had_error')
      BY <1>6, <1>12, <1>14, PlanGuard
    <3>4. Plan(todo', n, m + 1, had_error')
      BY <1>6, <1>12, <3>2, <3>3, PlanInfer
    <3> QED
      BY <3>4
  <2> QED
    BY <2>1, <2>2
<1>16. Plan(todo', Len(vals'), Len(chain'), had_error')
  BY <1>9, <1>11, <1>15
<1> QED
  BY <1>1, <1>3, <1>4, <1>6, <1>9, <1>16, Onward

LEMMA GuardKeeps == ASSUME InferInv, Guard PROVE InferInv'
<1>1. /\ Doing("guard") /\ Drop(1) /\ todo' = Tail(todo) /\ UNCHANGED <<chain, expected_ret, left>>
  BY DEF Guard
<1>2. had_error' \in BOOLEAN /\ (had_error => had_error') /\ left' \in 0 .. Nodes
  BY <1>1 DEF InferInv, Guard, Check
<1>3. Takes(Item) = 1 /\ Gives(Item) = 0 /\ Shut(Item) = 0
  BY <1>1, ItemShape DEF Doing
<1>4. /\ Len(vals) \in Nat /\ Len(chain) \in Nat
      /\ ChainGood(chain', had_error')
      /\ Plan(Tail(todo), Len(vals) - 1 + 0, Len(chain) - 0, had_error')
  BY <1>1, <1>2, <1>3, AtWork
<1>5. ValsGood(vals', had_error') /\ Len(vals') = Len(vals) - 1
  BY <1>1, <1>2, <1>3, DropStep
<1>6. Len(vals) - 1 + 0 = Len(vals') /\ Len(chain) - 0 = Len(chain')
  BY <1>1, <1>4, <1>5
<1>7. Plan(todo', Len(vals'), Len(chain'), had_error')
  BY <1>1, <1>4, <1>6
<1> QED
  BY <1>1, <1>2, <1>4, <1>5, <1>7, Onward

LEMMA ArmBodyKeeps == ASSUME InferInv, ArmBody PROVE InferInv'
<1>1. Doing("body") /\ UNCHANGED <<chain, expected_ret, vals, left>> /\ UNCHANGED had_error
  BY DEF ArmBody, NoChecks
<1>2. had_error' \in BOOLEAN /\ (had_error => had_error') /\ left' \in 0 .. Nodes
  BY <1>1 DEF InferInv
<1> DEFINE n == Len(vals)
           m == Len(chain)
           rest == Tail(todo)
<1>3. Takes(Item) = 1 /\ Gives(Item) = 1 /\ Shut(Item) = 1
  BY <1>1, ItemShape DEF Doing
<1>4. /\ n \in Nat /\ m \in Nat /\ 1 <= n /\ m - 1 >= 2
      /\ ChainGood(chain', had_error') /\ ValsGood(vals', had_error')
      /\ Plan(rest, n - 1 + 1, m - 1, had_error')
  BY <1>1, <1>2, <1>3, AtWork
<1>5. PICK S : rest \in Seq(S)
  BY <1>1, <1>2, AtWork
<1>6. todo' \in {<<Block, Do("pop")>> \o rest, <<Infer, Do("arm")>> \o rest}
  BY DEF ArmBody, Call
<1>7. Len(vals') = n /\ Len(chain') = m
  BY <1>1
<1> HIDE DEF n, m, rest
<1>8. m - 1 \in Nat /\ (m - 1) + 1 = m /\ n >= 1 /\ Plan(rest, n, m - 1, had_error')
  <2>1. n - 1 + 1 = n
    BY <1>4
  <2> QED
    BY <1>4, <2>1
<1>9. Plan(<<Block, Do("pop")>> \o rest, n, m, had_error')
  <2>1. Plan(<<Do("pop")>> \o rest, n, (m - 1) + 1, had_error')
    BY <1>4, <1>8, PlanPop
  <2>2. Plan(<<Block>> \o (<<Do("pop")>> \o rest), n, m, had_error')
    BY <1>4, <1>8, <2>1, PlanBlock
  <2> QED
    BY <1>5, <2>2, TwoCalls
<1>10. Plan(<<Infer, Do("arm")>> \o rest, n, m, had_error')
  <2>1. Plan(<<Do("arm")>> \o rest, n + 1, (m - 1) + 1, had_error')
    BY <1>4, <1>8, PlanBody
  <2>2. Plan(<<Infer>> \o (<<Do("arm")>> \o rest), n, m, had_error')
    BY <1>4, <1>8, <2>1, PlanInfer
  <2> QED
    BY <1>5, <2>2, TwoCalls
<1>11. Plan(todo', Len(vals'), Len(chain'), had_error')
  BY <1>6, <1>7, <1>9, <1>10
<1> QED
  BY <1>1, <1>2, <1>4, <1>11, Onward

LEMMA EnterBlockKeeps == ASSUME InferInv, EnterBlock PROVE InferInv'
<1> DEFINE n == Len(vals)
           m == Len(chain)
           rest == Tail(todo)
           stmts == [do |-> "stmts", first |-> TRUE]
<1>1. /\ Doing("block") /\ left > 0 /\ left' = left - 1 /\ chain' = Push(chain, EmptyScope)
      /\ UNCHANGED <<expected_ret, vals>> /\ UNCHANGED had_error
      /\ todo' = <<stmts, Do("pop")>> \o rest
  BY DEF EnterBlock, NoChecks, PushScope, Call
<1>2. had_error' \in BOOLEAN /\ (had_error => had_error') /\ left' \in 0 .. Nodes
  BY <1>1, InferAssumption DEF InferInv
<1>3. Takes(Item) = 0 /\ Gives(Item) = 0 /\ Shut(Item) = 0
  BY <1>1, ItemShape DEF Doing
<1>4. /\ n \in Nat /\ m \in Nat
      /\ ChainGood(chain, had_error') /\ ValsGood(vals', had_error')
      /\ Plan(rest, n - 0 + 0, m - 0, had_error')
  BY <1>1, <1>2, <1>3, AtWork
<1>5. PICK S : rest \in Seq(S)
  BY <1>1, <1>2, AtWork
<1>6. stmts.do = "stmts" /\ stmts = [do |-> stmts.do, first |-> stmts.first]
  OBVIOUS
<1>7. Len(vals') = n
  BY <1>1
<1>8. ChainGood(chain', had_error') /\ Len(chain') = m + 1
  BY <1>1, <1>4, ChainPush
<1> HIDE DEF n, m, rest, stmts
<1>9. m + 1 \in Nat /\ Plan(rest, n, m, had_error')
  <2>1. n - 0 + 0 = n /\ m - 0 = m
    BY <1>4
  <2> QED
    BY <1>4, <2>1
<1>10. Plan(<<Do("pop")>> \o rest, n, m + 1, had_error')
  BY <1>4, <1>9, PlanPop
<1>11. Plan(<<stmts>> \o (<<Do("pop")>> \o rest), n, m + 1, had_error')
  BY <1>4, <1>6, <1>9, <1>10, PlanStmts
<1>12. todo' = <<stmts>> \o (<<Do("pop")>> \o rest)
  BY <1>1, <1>5, TwoCalls
<1>13. Plan(todo', Len(vals'), Len(chain'), had_error')
  BY <1>7, <1>8, <1>11, <1>12
<1> QED
  BY <1>1, <1>2, <1>4, <1>8, <1>13, Onward

LEMMA EndOfBlockKeeps == ASSUME InferInv, EndOfBlock PROVE InferInv'
<1>1. /\ Doing("stmts") /\ todo' = Tail(todo) /\ UNCHANGED <<chain, expected_ret, vals, left>>
      /\ UNCHANGED had_error
  BY DEF EndOfBlock, NoChecks
<1>2. had_error' \in BOOLEAN /\ (had_error => had_error') /\ left' \in 0 .. Nodes
  BY <1>1 DEF InferInv
<1>3. Takes(Item) = 0 /\ Gives(Item) = 0 /\ Shut(Item) = 0
  BY <1>1, ItemShape DEF Doing
<1>4. /\ Len(vals) \in Nat /\ Len(chain) \in Nat
      /\ ChainGood(chain', had_error') /\ ValsGood(vals', had_error')
      /\ Plan(Tail(todo), Len(vals) - 0 + 0, Len(chain) - 0, had_error')
  BY <1>1, <1>2, <1>3, AtWork
<1>5. Len(vals) - 0 + 0 = Len(vals') /\ Len(chain) - 0 = Len(chain')
  BY <1>1, <1>4
<1>6. Plan(todo', Len(vals'), Len(chain'), had_error')
  BY <1>1, <1>4, <1>5
<1> QED
  BY <1>1, <1>2, <1>4, <1>6, Onward

LEMMA PopScopeKeeps == ASSUME InferInv, PopScope PROVE InferInv'
<1>1. /\ Doing("pop") /\ todo' = Tail(todo) /\ chain' = Pop(chain)
      /\ UNCHANGED <<expected_ret, vals, left>> /\ UNCHANGED had_error
  BY DEF PopScope, NoChecks
<1>2. had_error' \in BOOLEAN /\ (had_error => had_error') /\ left' \in 0 .. Nodes
  BY <1>1 DEF InferInv
<1>3. Takes(Item) = 0 /\ Gives(Item) = 0 /\ Shut(Item) = 1
  BY <1>1, ItemShape DEF Doing
<1>4. /\ Len(vals) \in Nat /\ Len(chain) \in Nat
      /\ ValsGood(vals', had_error')
      /\ Plan(Tail(todo), Len(vals) - 0 + 0, Len(chain) - 1, had_error')
  BY <1>1, <1>2, <1>3, AtWork
<1>5. ChainGood(chain', had_error') /\ Len(chain') = Len(chain) - 1
  BY <1>1, <1>2, <1>3, ClosedScopes DEF Closed
<1>6. Len(vals) - 0 + 0 = Len(vals')
  BY <1>1, <1>4
<1>7. Plan(todo', Len(vals'), Len(chain'), had_error')
  BY <1>1, <1>4, <1>5, <1>6
<1> QED
  BY <1>1, <1>2, <1>4, <1>5, <1>7, Onward

LEMMA StatementKeeps == ASSUME InferInv, Statement PROVE InferInv'
<1> DEFINE n == Len(vals)
           m == Len(chain)
           rest == Tail(todo)
           use == [do |-> "use", first |-> Item.first]
           again == [Item EXCEPT !.first = FALSE]
<1>1. /\ Doing("stmts") /\ UNCHANGED <<chain, expected_ret, vals, left>> /\ UNCHANGED had_error
      /\ todo' = <<Infer, use, again>> \o rest
  BY DEF Statement, NoChecks, Call
<1>2. had_error' \in BOOLEAN /\ (had_error => had_error') /\ left' \in 0 .. Nodes
  BY <1>1 DEF InferInv
<1>3. Takes(Item) = 0 /\ Gives(Item) = 0 /\ Shut(Item) = 0 /\ Item.do = "stmts"
  BY <1>1, ItemShape DEF Doing
<1>4. /\ n \in Nat /\ m \in Nat /\ ItemGood(Item, had_error')
      /\ ChainGood(chain', had_error') /\ ValsGood(vals', had_error')
      /\ Plan(rest, n - 0 + 0, m - 0, had_error')
  BY <1>1, <1>2, <1>3, AtWork
<1>5. PICK S : rest \in Seq(S)
  BY <1>1, <1>2, AtWork
<1>6. again.do = "stmts" /\ again = [do |-> again.do, first |-> again.first]
  <2>1. Item = [do |-> Item.do, first |-> Item.first]
    BY <1>3, <1>4 DEF ItemGood
  <2>2. again = [do |-> Item.do, first |-> FALSE]
    BY <2>1, AgainShape
  <2> HIDE DEF again
  <2> QED
    BY <1>3, <2>2
<1>7. Len(vals') = n /\ Len(chain') = m /\ use.do = "use"
  BY <1>1
<1> HIDE DEF n, m, rest, again, use
<1>8. n + 1 \in Nat /\ Plan(rest, n, m, had_error')
  <2>1. n - 0 + 0 = n /\ m - 0 = m
    BY <1>4
  <2> QED
    BY <1>4, <2>1
<1>9. Plan(<<again>> \o rest, n, m, had_error')
  BY <1>4, <1>6, <1>8, PlanStmts
<1>10. Plan(<<use>> \o (<<again>> \o rest), n + 1, m, had_error')
  BY <1>4, <1>7, <1>9, PlanUse
<1>11. Plan(<<Infer>> \o (<<use>> \o (<<again>> \o rest)), n, m, had_error')
  BY <1>4, <1>10, PlanInfer
<1>12. todo' = <<Infer>> \o (<<use>> \o (<<again>> \o rest))
  <2>1. <<Infer, use, again>> \o rest = <<Infer>> \o (<<use>> \o (<<again>> \o rest))
    BY <1>5, ThreeCalls, SMTT(40)
  <2> QED
    BY <1>1, <2>1
<1>13. Plan(todo', Len(vals'), Len(chain'), had_error')
  BY <1>7, <1>11, <1>12
<1> QED
  BY <1>1, <1>2, <1>4, <1>13, Onward

\* A statement that has used its expression's type, with what it has declared.
LEMMA UseStep ==
  ASSUME InferInv, NEW calls \in {<<>>, <<Block>>}, Use(calls),
         had_error' \in BOOLEAN, had_error => had_error',
         ChainGood(chain', had_error'), Len(chain') = Len(chain)
  PROVE  InferInv'
<1>1. Doing("use") /\ todo' = calls \o Tail(todo) /\ Drop(1) /\ UNCHANGED <<expected_ret, left>>
  BY DEF Use, Call
<1> DEFINE n == Len(vals)
           m == Len(chain)
           rest == Tail(todo)
<1>2. Takes(Item) = 1 /\ Gives(Item) = 0 /\ Shut(Item) = 0
  BY <1>1, ItemShape DEF Doing
<1>3. n \in Nat /\ m \in Nat /\ 1 <= n /\ Plan(rest, n - 1 + 0, m - 0, had_error')
  BY <1>1, <1>2, AtWork
<1>4. PICK S : rest \in Seq(S)
  BY <1>1, <1>2, AtWork
<1>5. ValsGood(vals', had_error') /\ Len(vals') = n - 1
  BY <1>1, <1>2, DropStep
<1>6. Len(chain') = m /\ left' \in 0 .. Nodes
  BY <1>1 DEF InferInv
<1>7. todo' = <<>> \o rest \/ todo' = <<Block>> \o rest
  BY <1>1
<1> HIDE DEF n, m, rest
<1>8. n - 1 \in Nat /\ Plan(rest, n - 1, m, had_error')
  <2>1. n - 1 + 0 = n - 1 /\ m - 0 = m
    BY <1>3
  <2> QED
    BY <1>3, <2>1
<1>9. Plan(<<Block>> \o rest, n - 1, m, had_error')
  BY <1>3, <1>8, PlanBlock
<1>10. <<>> \o rest = rest
  BY <1>4, ConcatEmptySeq
<1>11. Plan(todo', Len(vals'), Len(chain'), had_error')
  BY <1>5, <1>6, <1>7, <1>8, <1>9, <1>10
<1> QED
  BY <1>1, <1>5, <1>6, <1>11, Onward

\* The value a statement is about, and what it declares things to be.
LEMMA UsedGood ==
  ASSUME InferInv, Doing("use"), NEW error, had_error => error
  PROVE  Good(Val(1).type, error) /\ ChainGood(chain, error)
<1>1. Takes(Item) = 1
  BY ItemShape DEF Doing
<1> QED
  BY <1>1, ValGood, AtWork

LEMMA StatementsKeep ==
  ASSUME InferInv, ExprStatement \/ ReturnStatement \/ IfStatement
  PROVE  InferInv'
<1>1. UNCHANGED chain
  BY DEF ExprStatement, ReturnStatement, IfStatement
<1>2. had_error' \in BOOLEAN /\ (had_error => had_error')
  BY DEF ExprStatement, ReturnStatement, IfStatement, NoChecks, Check, InferInv
<1>3. PICK calls \in {<<>>, <<Block>>} : Use(calls)
  BY DEF ExprStatement, ReturnStatement, IfStatement
<1>4. ChainGood(chain', had_error')
  BY <1>1, <1>2, <1>3, UsedGood DEF Use
<1> QED
  BY <1>1, <1>2, <1>3, <1>4, UseStep

LEMMA VarDeclBareKeeps == ASSUME InferInv, VarDeclBare PROVE InferInv'
<1> DEFINE again == [Item EXCEPT !.first = FALSE]
<1>1. /\ Doing("stmts") /\ UNCHANGED <<expected_ret, vals, left>> /\ UNCHANGED had_error
      /\ todo' = <<again>> \o Tail(todo)
  BY DEF VarDeclBare, NoChecks, Call
<1>2. PICK name \in Names, te \in TypeExprs :
        chain' = Define(chain, name, Variable(ResolveTypeExpr(chain, te)))
  BY DEF VarDeclBare
<1>3. had_error' \in BOOLEAN /\ (had_error => had_error') /\ left' \in 0 .. Nodes
  BY <1>1 DEF InferInv
<1>4. Takes(Item) = 0 /\ Gives(Item) = 0 /\ Shut(Item) = 0 /\ Item.do = "stmts"
  BY <1>1, ItemShape DEF Doing
<1>5. /\ Len(vals) \in Nat /\ Len(chain) \in Nat /\ ItemGood(Item, had_error')
      /\ ChainGood(chain, had_error') /\ ValsGood(vals', had_error')
      /\ Plan(Tail(todo), Len(vals) - 0 + 0, Len(chain) - 0, had_error')
  BY <1>1, <1>3, <1>4, AtWork
<1>6. again.do = "stmts" /\ again = [do |-> again.do, first |-> again.first]
  <2>1. Item = [do |-> Item.do, first |-> Item.first]
    BY <1>4, <1>5 DEF ItemGood
  <2>2. again = [do |-> Item.do, first |-> FALSE]
    BY <2>1, AgainShape
  <2> HIDE DEF again
  <2> QED
    BY <1>4, <2>2
<1> HIDE DEF again
<1>7. Good(ResolveTypeExpr(chain, te), had_error')
  BY <1>5, ResolveGood, InferAssumption
<1>8. SymbolGood(Variable(ResolveTypeExpr(chain, te)), had_error')
  BY <1>7 DEF SymbolGood, Variable
<1>9. ChainGood(chain', had_error') /\ Len(chain') = Len(chain)
  BY <1>2, <1>5, <1>8, ChainDefine
<1>10. Plan(Tail(todo), Len(vals), Len(chain), had_error')
  <2>1. Len(vals) - 0 + 0 = Len(vals) /\ Len(chain) - 0 = Len(chain)
    BY <1>5
  <2> QED
    BY <1>5, <2>1
<1>11. Plan(<<again>> \o Tail(todo), Len(vals), Len(chain), had_error')
  BY <1>5, <1>6, <1>10, PlanStmts
<1>12. Plan(todo', Len(vals'), Len(chain'), had_error')
  BY <1>1, <1>9, <1>11
<1> QED
  BY <1>1, <1>3, <1>5, <1>9, <1>12, Onward

LEMMA VarDeclKeeps == ASSUME InferInv, VarDecl PROVE InferInv'
<1>1. Use(<<>>) /\ Doing("use")
  <2>1. Use(<<>>)
    BY DEF VarDecl
  <2> QED
    BY <2>1 DEF Use
<1>2. PICK name, te, type, is_const, wrong :
        /\ name \in Names /\ te \in TypeExprs \cup {NoTypeExpr} /\ wrong \in BOOLEAN
        /\ type \in {Declared(te), Val(1).type}
        /\ had_error' = (had_error \/ wrong)
        /\ chain' = Define(chain, name, [type |-> type, is_const |-> is_const])
  <2>1. PICK name \in Names, te \in TypeExprs \cup {NoTypeExpr},
             value \in Values(Val(1).node, Magnitudes), is_const \in BOOLEAN :
          LET types == <<Declared(te), Val(1).type>>
              both == BothResolved(types) IN
          /\ had_error' = (\/ had_error
                           \/ both /\ ~Assignable(types[1], types[2])
                           \/ both /\ Overflow(types[1], Val(1).node, value))
          /\ chain' = Define(chain, name,
                             [type |-> IF both THEN types[1] ELSE types[2], is_const |-> is_const])
    BY DEF VarDecl
  <2> DEFINE types == <<Declared(te), Val(1).type>>
             both == BothResolved(types)
             wrong == \/ both /\ ~Assignable(types[1], types[2])
                      \/ both /\ Overflow(types[1], Val(1).node, value)
             type == IF both THEN types[1] ELSE types[2]
  <2>2. had_error' = (had_error \/ wrong)
    BY <2>1
  <2>3. chain' = Define(chain, name, [type |-> type, is_const |-> is_const])
    BY <2>1
  <2>4. type \in {Declared(te), Val(1).type} /\ wrong \in BOOLEAN
    OBVIOUS
  <2> HIDE DEF type, wrong
  <2> QED
    BY <2>2, <2>3, <2>4
<1>3. had_error' \in BOOLEAN /\ (had_error => had_error')
  BY <1>2
<1>4. Good(Val(1).type, had_error') /\ ChainGood(chain, had_error')
  BY <1>1, <1>3, UsedGood
<1>5. Good(Declared(te), had_error')
  <2>1. CASE te = NoTypeExpr
    BY <2>1, UnknownGood DEF Declared
  <2>2. CASE te # NoTypeExpr
    <3>1. te \in TypeExpr
      BY <1>2, <2>2, InferAssumption
    <3> QED
      BY <1>4, <2>2, <3>1, ResolveGood DEF Declared
  <2> QED
    BY <2>1, <2>2
<1>6. SymbolGood([type |-> type, is_const |-> is_const], had_error')
  BY <1>2, <1>4, <1>5 DEF SymbolGood
<1>7. ChainGood(chain', had_error') /\ Len(chain') = Len(chain)
  BY <1>2, <1>4, <1>6, ChainDefine
<1> QED
  BY <1>1, <1>3, <1>7, UseStep

LEMMA DestructureKeeps == ASSUME InferInv, Destructure PROVE InferInv'
<1>1. Use(<<>>) /\ Doing("use")
  BY DEF Destructure, Use
<1> DEFINE init == Val(1).type
<1>2. PICK x \in Names, y \in Names, te \in TypeExprs, three \in BOOLEAN :
        LET types == <<ResolveTypeExpr(chain, te), Element(init, 1)>>
            pair == Bind(Bind(chain, x, types[1]), y, Element(init, 2)) IN
        IF three /\ init.kind = "TUPLE"
        THEN had_error' = TRUE /\ UNCHANGED chain
        ELSE /\ Check("assign", types)
             /\ \E z \in Names : chain' = IF three THEN Bind(pair, z, Unknown) ELSE pair
  BY DEF Destructure
<1>3. had_error' \in BOOLEAN /\ (had_error => had_error')
  BY <1>2 DEF Check
<1>4. Good(init, had_error') /\ ChainGood(chain, had_error')
  BY <1>1, <1>3, UsedGood
<1> DEFINE first == ResolveTypeExpr(chain, te)
           second == Element(init, 2)
           pair == Bind(Bind(chain, x, first), y, second)
<1>5. chain' = chain \/ \E z : chain' \in {pair, Bind(pair, z, Unknown)}
  BY <1>2
<1>6. Good(first, had_error')
  BY <1>4, ResolveGood, InferAssumption
<1>7. Good(second, had_error')
  BY <1>4, GoodKinds, UnknownGood DEF Element
<1> HIDE DEF first, second
<1>8. ChainGood(pair, had_error') /\ Len(pair) = Len(chain)
  BY <1>4, <1>6, <1>7, BindGood
<1> HIDE DEF pair
<1>9. ChainGood(chain', had_error') /\ Len(chain') = Len(chain)
  BY <1>4, <1>5, <1>8, BindGood, UnknownGood
<1> QED
  BY <1>1, <1>3, <1>9, UseStep

----------------------------------------------------------------------------
(* The theorems                                                            *)

\* The scopes at the start.
LEMMA ChainFirst == ChainGood(<<Outside, EmptyScope>>, FALSE)
<1> DEFINE S == {[type |-> NoType, is_const |-> FALSE], NoSymbol}
<1>1. Outside \in [Names -> S] /\ EmptyScope \in [Names -> S]
  BY DEF Outside, EmptyScope
<1>2. \A sym \in S : SymbolGood(sym, FALSE)
  <2>1. [type |-> NoType, is_const |-> FALSE].type = NoType
    OBVIOUS
  <2>2. SymbolGood([type |-> NoType, is_const |-> FALSE], FALSE) /\ SymbolGood(NoSymbol, FALSE)
    BY <2>1, Zenon DEF SymbolGood
  <2> QED
    BY <2>2, Zenon
<1> HIDE DEF S
<1>3. <<Outside, EmptyScope>> \in Seq([Names -> S]) /\ Len(<<Outside, EmptyScope>>) = 2
  BY <1>1
<1>4. Len(<<Outside, EmptyScope>>) >= 1
  BY <1>3
<1> QED
  BY <1>2, <1>3, <1>4, Zenon DEF ChainGood

\* The invariant holds at the start, and every step keeps it.
LEMMA InferInitInv == Init => InferInv
<1>1. SUFFICES ASSUME Init PROVE InferInv
  OBVIOUS
<1>2. /\ chain = <<Outside, EmptyScope>> /\ vals = <<>> /\ had_error = FALSE /\ left = Nodes
      /\ todo = <<[do |-> "stmts", first |-> TRUE]>>
  BY <1>1 DEF Init
<1>3. PICK te \in RetTypes : expected_ret = ResolveTypeExpr(chain, te)
  BY <1>1 DEF Init
<1>4. ChainGood(chain, had_error) /\ Len(chain) = 2
  BY <1>2, ChainFirst
<1>5. Good(expected_ret, had_error)
  BY <1>3, <1>4, ResolveGood, InferAssumption
<1>6. ValsGood(vals, had_error) /\ Len(vals) = 0
  <2>1. <<>> \in Seq({}) /\ Len(<<>>) = 0
    BY EmptySeq
  <2>2. vals \in Seq({}) /\ \A v \in {} : ValueGood(v, had_error)
    BY <1>2, <2>1
  <2> QED
    BY <1>2, <2>1, <2>2 DEF ValsGood
<1>7. Plan(<<>>, 0, 2, had_error)
  <2>1. <<>> \in Seq({}) /\ Len(<<>>) = 0
    BY EmptySeq
  <2>2. ItemsGood(<<>>, had_error)
    <3> DEFINE S == {}
    <3>1. <<>> \in Seq(S) /\ \A item \in S : ItemGood(item, had_error)
      BY <2>1
    <3> HIDE DEF S
    <3> QED
      BY <3>1 DEF ItemsGood
  <2>3. Levels([k \in 0 .. 0 |-> 0], <<>>, 0)
    BY <2>1 DEF Levels
  <2>4. Closing(<<>>) = {}
    BY DEF Closing
  <2>5. IsFiniteSet({}) /\ 2 = 2 + Cardinality({})
    BY FS_EmptySet
  <2> QED
    BY <2>2, <2>3, <2>4, <2>5, Zenon DEF Plan
<1>8. Plan(todo, 0, 2, had_error)
  <2> DEFINE stmts == [do |-> "stmts", first |-> TRUE]
  <2>1. stmts.do = "stmts" /\ stmts = [do |-> stmts.do, first |-> stmts.first]
    OBVIOUS
  <2>2. todo = <<stmts>>
    BY <1>2
  <2> HIDE DEF stmts
  <2>3. Plan(<<stmts>> \o <<>>, 0, 2, had_error)
    BY <1>7, <2>1, PlanStmts
  <2>4. <<stmts>> \o <<>> = <<stmts>>
    <3>1. <<stmts>> \in Seq({stmts})
      OBVIOUS
    <3> QED
      BY <3>1, ConcatEmptySeq
  <2> QED
    BY <2>2, <2>3, <2>4
<1>9. left \in 0 .. Nodes /\ had_error \in BOOLEAN
  <2>1. Nodes \in Nat
    BY InferAssumption
  <2>2. left \in 0 .. Nodes
    BY <1>2, <2>1
  <2>3. had_error \in BOOLEAN
    BY <1>2
  <2> QED
    BY <2>2, <2>3
<1>10. Plan(todo, Len(vals), Len(chain), had_error)
  BY <1>4, <1>6, <1>8, Zenon
<1> QED
  BY <1>4, <1>5, <1>6, <1>9, <1>10 DEF InferInv

LEMMA InferNextInv == InferInv /\ [Next]_vars => InferInv'
<1>1. SUFFICES ASSUME InferInv, [Next]_vars PROVE InferInv'
  OBVIOUS
<1>2. CASE UNCHANGED vars
  BY <1>1, <1>2 DEF InferInv, vars
<1>3. CASE \/ Literal \/ WithoutParts \/ Identifier \/ Operands
           \/ Binary \/ Assign \/ Index \/ TupleExpr
  BY <1>1, <1>3, LiteralKeeps, WithoutPartsKeeps, IdentifierKeeps, OperandsKeeps,
     BinaryKeeps, AssignKeeps, IndexKeeps, TupleExprKeeps
<1>4. CASE \/ Unary \/ Cast
           \/ CatchHandler \/ CatchNothing \/ CaughtBlock \/ CaughtExpr
  BY <1>1, <1>4, UnaryKeeps, CastKeeps, CatchHandlerKeeps, CatchNothingKeeps, CaughtBlockKeeps,
     CaughtExprKeeps
<1>5. CASE MatchExpr \/ Arm \/ Guard \/ ArmBody \/ ArmDone \/ MatchDone
  BY <1>1, <1>5, MatchExprKeeps, ArmKeeps, GuardKeeps, ArmBodyKeeps, ArmDoneKeeps, MatchDoneKeeps
<1>6. CASE \/ EnterBlock \/ EndOfBlock \/ PopScope
           \/ Statement \/ ExprStatement \/ ReturnStatement \/ IfStatement
           \/ VarDeclBare \/ VarDecl \/ Destructure
  BY <1>1, <1>6, EnterBlockKeeps, EndOfBlockKeeps, PopScopeKeeps, StatementKeeps, StatementsKeep,
     VarDeclBareKeeps, VarDeclKeeps, DestructureKeeps
<1> QED
  BY <1>1, <1>2, <1>3, <1>4, <1>5, <1>6 DEF Next

\* The stack of calls and the stack of types fit each other, there is a scope for
\* every call that will close one, and every type about has been built by the
\* constructors, from InferError only if an error was reported.
THEOREM InferSafe == Spec => []InferInv
<1>1. Init => InferInv
  BY InferInitInv
<1>2. InferInv /\ [Next]_vars => InferInv'
  BY InferNextInv
<1> QED
  BY <1>1, <1>2, PTL DEF Spec

\* The types there are.
LEMMA PresentGood ==
  ASSUME InferInv, NEW t \in TypesPresent
  PROVE  t = NoType \/ Good(t, had_error)
<1>1. CASE t \in {vals[i].type : i \in DOMAIN vals}
  <2>1. PICK S : vals \in Seq(S) /\ \A v \in S : ValueGood(v, had_error)
    BY DEF InferInv, ValsGood
  <2>2. PICK i \in DOMAIN vals : t = vals[i].type
    BY <1>1
  <2>3. vals[i] \in S
    BY <2>1, <2>2
  <2> QED
    BY <2>1, <2>2, <2>3 DEF ValueGood
<1>2. CASE t = expected_ret
  BY <1>2 DEF InferInv
<1>3. CASE t \in {sym.type : sym \in (UNION {{scope[name] : name \in Names} :
                                   scope \in {chain[k] : k \in DOMAIN chain}}) \ {NoSymbol}}
  <2>1. PICK S : chain \in Seq([Names -> S]) /\ \A sym \in S : SymbolGood(sym, had_error)
    BY DEF InferInv, ChainGood
  <2>2. PICK k \in DOMAIN chain, name \in Names : chain[k][name] # NoSymbol /\ t = chain[k][name].type
    <3>1. PICK sym \in (UNION {{scope[name] : name \in Names} :
                                 scope \in {chain[k] : k \in DOMAIN chain}}) \ {NoSymbol} : t = sym.type
      BY <1>3, Zenon
    <3>2. PICK k \in DOMAIN chain, name \in Names : sym = chain[k][name]
      BY <3>1
    <3>3. sym # NoSymbol
      BY <3>1
    <3> QED
      BY <3>1, <3>2, <3>3
  <2>3. chain[k] \in [Names -> S]
    BY <2>1, <2>2
  <2>4. chain[k][name] \in S
    BY <2>3
  <2> QED
    BY <2>1, <2>2, <2>4 DEF SymbolGood
<1>4. CASE t \in {todo[k].success : k \in {j \in DOMAIN todo : todo[j].do = "caught"}}
  <2>1. PICK S : todo \in Seq(S) /\ \A item \in S : ItemGood(item, had_error)
    BY DEF InferInv, Plan, ItemsGood
  <2>2. PICK k \in DOMAIN todo : todo[k].do = "caught" /\ t = todo[k].success
    BY <1>4
  <2>3. todo[k] \in S
    BY <2>1, <2>2
  <2> QED
    BY <2>1, <2>2, <2>3 DEF ItemGood
<1> QED
  BY <1>1, <1>2, <1>3, <1>4 DEF TypesPresent

\* Whatever typechecker_infer_expr returns is a type and never NULL, and the scopes
\* it has opened are those that calls under way will close.
THEOREM InferTypes == Spec => []TypeOK
<1>1. ASSUME InferInv PROVE TypeOK
  <2>1. \A i \in DOMAIN vals : IsType(vals[i].type)
    <3>1. PICK S : vals \in Seq(S) /\ \A v \in S : ValueGood(v, had_error)
      BY <1>1 DEF InferInv, ValsGood
    <3>2. \A i \in DOMAIN vals : ValueGood(vals[i], had_error)
      BY <3>1
    <3> QED
      BY <3>2, GoodIsType DEF ValueGood
  <2>2. IsType(expected_ret)
    BY <1>1, GoodIsType DEF InferInv
  <2>3. \A t \in TypesPresent : t = NoType \/ IsType(t)
    BY <1>1, PresentGood, GoodIsType
  <2>4. Len(chain) = 2 + Cardinality({i \in DOMAIN todo : Closes(todo[i])})
    BY <1>1 DEF InferInv, Plan, Closing
  <2> QED
    BY <1>1, <2>1, <2>2, <2>3, <2>4 DEF TypeOK, InferInv
<1> QED
  BY <1>1, InferSafe, PTL

\* No type has the poison in it, however deep, unless an error was reported.
THEOREM InferReported == Spec => []PoisonReported
<1>1. ASSUME InferInv PROVE PoisonReported
  <2>1. \A t \in TypesPresent : Holds(t, InferError) => had_error
    <3>1. ~Holds(NoType, InferError)
      <4>1. Inner(NoType) = {} /\ NoType # InferError /\ NoType.height = 0
        BY DEF Inner, NoType, Wrapping, InferError
      <4> DEFINE X == {NoType}
      <4>2. 0 \in Nat /\ NoType \in X /\ \A y \in X : Inner(y) \subseteq X
        BY <4>1
      <4> HIDE DEF X
      <4>3. PICK w : /\ ReachedBy(w, 0, X, NoType, [y \in X |-> Inner(y)])
                     /\ Reached(Inner, NoType, 0) = w[0]
        BY <4>2, InnerReached
      <4>4. w[0] = {NoType}
        BY <4>3 DEF ReachedBy
      <4>5. Parts(NoType) = {NoType}
        BY <4>1, <4>3, <4>4 DEF Parts
      <4> QED
        BY <4>1, <4>5 DEF Holds
    <3> QED
      BY <1>1, <3>1, PresentGood, GoodIsType
  <2> QED
    BY <2>1 DEF PoisonReported
<1> QED
  BY <1>1, InferSafe, PTL

\* A check never fails because of the part of a type that is poison.
THEOREM InferNoCascade == Spec => []NoCascade
<1>1. ASSUME InferInv PROVE NoCascade
  <2>1. Doing("binary") => OwnFault({"assign", "arithmetic", "literal", "compare", "logical"},
                                    <<Val(2).type, Val(1).type>>)
    BY <1>1, TwoOperands, OwnFaultOfTwo
  <2>2. Doing("unary") => OwnFault({UnaryRule(form) : form \in UnaryForms}, <<Val(1).type>>)
    BY <1>1, OneOperand, OwnFaultOfOne DEF RulesOfOneType
  <2>3. Doing("arms") => OwnFault(Patterns, <<Val(2).type>>)
    BY <1>1, TwoOperands, OwnFaultOfOne DEF RulesOfOneType
  <2>4. Doing("arm") => OwnFault({"assign"}, <<Val(2).type, Val(1).type>>)
    BY <1>1, TwoOperands, OwnFaultOfTwo
  <2>5. Doing("use") => OwnFault({"assign"}, <<expected_ret, Val(1).type>>)
    BY <1>1, UsedGood, OwnFaultOfTwo DEF InferInv
  <2> QED
    BY <2>1, <2>2, <2>3, <2>4, <2>5 DEF NoCascade
<1> QED
  BY <1>1, InferSafe, PTL

\* What may be assigned in steps may be assigned at once, and the order of a
\* comparison's operands does not matter.
THEOREM InferConsistent == Spec => []RulesConsistent
<1>1. ASSUME InferInv PROVE RulesConsistent
  <2>1. AssignChains
    <3>1. \A t \in Sound : Good(t, had_error) /\ \A p \in Poison : ~Holds(t, p)
      BY <1>1, PresentGood DEF Sound
    <3> QED
      BY <3>1, AssignableThrough DEF AssignChains
  <2>2. ComparesBothWays
    BY <1>1, TwoOperands, ComparesTurned DEF ComparesBothWays
  <2> QED
    BY <2>1, <2>2 DEF RulesConsistent
<1> QED
  BY <1>1, InferSafe, PTL

\* An initializer is reported just if it does not fit, whatever the type.
THEOREM InferFits == Spec => []InitFits
<1>1. InitFits
  BY AllInitsFit
<1> QED
  BY <1>1, PTL
=============================================================================
