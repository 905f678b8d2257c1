--------------------------- MODULE CheckWalkProof ---------------------------
(***************************************************************************)
(* Proofs about the type checker's walk, for programs of any depth and any *)
(* realms and types.  CheckWalkInv is inductive; every step lets the stack *)
(* of open constructs grow by one, shrink by one or keep its length, and   *)
(* each part of the invariant is carried over from the shape of the step.  *)
(***************************************************************************)
EXTENDS CheckWalk, FiniteSetTheorems, SequenceTheorems, TLAPS

----------------------------------------------------------------------------
(* The shapes of a step                                                    *)

\* What never changes about a frame while it is open.
Kept(f, g) ==
  /\ f.kind = g.kind
  /\ f.named = g.named
  /\ f.realm = g.realm
  /\ f.saved = g.saved
  /\ f.ret = g.ret
  /\ f.bad = g.bad

Grown(op, op2, f) ==
  /\ op2 \in Seq(Frame)
  /\ Len(op2) = Len(op) + 1
  /\ op2[Len(op) + 1] = f
  /\ \A k \in 1 .. Len(op) : Kept(op2[k], op[k]) /\ op2[k].cut = op[k].cut

Shrunk(op, op2) ==
  /\ op2 \in Seq(Frame)
  /\ Len(op) > 0
  /\ Len(op2) = Len(op) - 1
  /\ \A k \in 1 .. Len(op2) : Kept(op2[k], op[k]) /\ op2[k].done = op[k].done

\* What symbol_table_pop leaves of a scope chain.
Popped(sc) == IF Len(sc) > 1 THEN SubSeq(sc, 1, Len(sc) - 1) ELSE sc

Flagged(op, op2) ==
  /\ op2 \in Seq(Frame)
  /\ Len(op2) = Len(op)
  /\ \A k \in 1 .. Len(op) : /\ Kept(op2[k], op[k])
                             /\ op2[k].cut = op[k].cut
                             /\ op2[k].done = op[k].done

\* Plain is a frame, and so is what an action opens.
LEMMA PlainFrame == Plain \in Frame
BY CheckWalkAssumption DEF Plain, Frame, Kinds, Realm, TypeOrNot

\* Appending a frame makes the stack grow.
LEMMA OpenGrows ==
  ASSUME NEW op \in Seq(Frame), NEW f \in Frame
  PROVE  /\ Grown(op, Append(op, f), f)
         /\ \A k \in 1 .. Len(op) : Append(op, f)[k] = op[k]
BY DEF Grown, Kept

\* Taking the last frame off makes it shrink.
LEMMA BelowShrinks ==
  ASSUME TypeOK, open # <<>>
  PROVE  /\ Shrunk(open, Below)
         /\ \A k \in 1 .. Len(Below) : Below[k] = open[k]
<1>1. open \in Seq(Frame) /\ Len(open) \in Nat /\ Len(open) > 0
  BY DEF TypeOK
<1>2. /\ Below \in Seq(Frame)
      /\ Len(Below) = Len(open) - 1
      /\ \A k \in 1 .. Len(open) - 1 : Below[k] = open[k]
  <2>1. \A k \in 1 .. Len(open) - 1 : open[k] \in Frame
    BY <1>1
  <2>2. Below = [k \in 1 .. Len(open) - 1 |-> open[k]]
    BY <1>1 DEF Below
  <2> QED
    BY <1>1, <2>1, <2>2
<1> QED
  BY <1>1, <1>2 DEF Shrunk, Kept

\* So does marking those below as cut.
LEMMA CutShrinks ==
  ASSUME TypeOK, open # <<>>
  PROVE  /\ Shrunk(open, CutBelow)
         /\ \A k \in 1 .. Len(CutBelow) : CutBelow[k].cut
<1>1. open \in Seq(Frame) /\ Len(open) \in Nat /\ Len(open) > 0
  BY DEF TypeOK
<1>2. \A k \in 1 .. Len(open) - 1 :
        /\ [open[k] EXCEPT !.cut = TRUE] \in Frame
        /\ Kept([open[k] EXCEPT !.cut = TRUE], open[k])
        /\ [open[k] EXCEPT !.cut = TRUE].done = open[k].done
        /\ [open[k] EXCEPT !.cut = TRUE].cut
  <2> TAKE k \in 1 .. Len(open) - 1
  <2>1. open[k] \in Frame
    BY <1>1
  <2> QED
    BY <2>1 DEF Frame, Kept
<1>3. /\ CutBelow \in Seq(Frame)
      /\ Len(CutBelow) = Len(open) - 1
      /\ \A k \in 1 .. Len(open) - 1 : CutBelow[k] = [open[k] EXCEPT !.cut = TRUE]
  BY <1>1, <1>2 DEF CutBelow
<1> HIDE DEF CutBelow
<1>4. ASSUME NEW k \in 1 .. Len(CutBelow)
      PROVE  Kept(CutBelow[k], open[k]) /\ CutBelow[k].done = open[k].done /\ CutBelow[k].cut
  <2>1. k \in 1 .. Len(open) - 1
    BY <1>3
  <2>2. CutBelow[k] = [open[k] EXCEPT !.cut = TRUE]
    BY <1>3, <2>1
  <2> QED
    BY <1>2, <2>1, <2>2
<1> QED
  BY <1>1, <1>3, <1>4 DEF Shrunk

\* Marking the function whose result is set only flags a frame.
LEMMA DeliveredFlags ==
  ASSUME TypeOK
  PROVE  Flagged(open, Delivered)
<1>1. open \in Seq(Frame) /\ Len(open) \in Nat
  BY DEF TypeOK
<1>2. \A k \in 1 .. Len(open) : open[k] \in Frame
  BY <1>1
<1> DEFINE g(k) == IF Innermost(open, k) THEN [open[k] EXCEPT !.delivers = TRUE] ELSE open[k]
<1>3. \A k \in 1 .. Len(open) :
        g(k) \in Frame /\ Kept(g(k), open[k]) /\ g(k).cut = open[k].cut /\ g(k).done = open[k].done
  <2> TAKE k \in 1 .. Len(open)
  <2>1. open[k] \in Frame
    BY <1>2
  <2>2. CASE Innermost(open, k)
    <3>1. g(k) = [open[k] EXCEPT !.delivers = TRUE]
      BY <2>2
    <3> QED
      BY <2>1, <3>1 DEF Frame, Kept
  <2>3. CASE ~Innermost(open, k)
    <3>1. g(k) = open[k]
      BY <2>3
    <3> QED
      BY <2>1, <3>1 DEF Kept
  <2> QED
    BY <2>2, <2>3
<1>4. Delivered = [k \in 1 .. Len(open) |-> g(k)]
  BY DEF Delivered
<1> HIDE DEF g
<1>5. /\ Delivered \in Seq(Frame)
      /\ Len(Delivered) = Len(open)
      /\ \A k \in 1 .. Len(open) : Delivered[k] = g(k)
  BY <1>1, <1>3, <1>4
<1> QED
  BY <1>3, <1>5 DEF Flagged

\* A block opens a frame and notes in the one around it that its body is met.
LEMMA BlockGrows ==
  ASSUME TypeOK
  PROVE  /\ Grown(open, Append(WithBody, Plain), Plain)
         /\ \A k \in 1 .. Len(open) :
              Append(WithBody, Plain)[k].done = (IF k = Len(open) THEN TRUE ELSE open[k].done)
<1>1. open \in Seq(Frame) /\ Len(open) \in Nat
  BY DEF TypeOK
<1>2. CASE open = <<>>
  <2>1. WithBody = open
    BY <1>2 DEF WithBody
  <2>2. 1 .. Len(open) = {}
    BY <1>2
  <2> QED
    BY <1>1, <2>1, <2>2, PlainFrame, OpenGrows
<1>3. CASE open # <<>>
  <2>1. Len(open) \in 1 .. Len(open)
    BY <1>1, <1>3
  <2>2. \A k \in 1 .. Len(open) : open[k] \in Frame
    BY <1>1
  <2>3. WithBody = [open EXCEPT ![Len(open)] = [open[Len(open)] EXCEPT !.done = TRUE]]
    BY <1>3 DEF WithBody
  <2>4. [open[Len(open)] EXCEPT !.done = TRUE] \in Frame
    BY <2>1, <2>2 DEF Frame
  <2>5. WithBody \in Seq(Frame) /\ Len(WithBody) = Len(open)
    BY <1>1, <2>1, <2>3, <2>4
  <2>6. \A k \in 1 .. Len(open) :
          /\ Kept(WithBody[k], open[k])
          /\ WithBody[k].cut = open[k].cut
          /\ WithBody[k].done = (IF k = Len(open) THEN TRUE ELSE open[k].done)
    <3> TAKE k \in 1 .. Len(open)
    <3>1. open[k] \in Frame
      BY <2>2
    <3>2. CASE k = Len(open)
      <4> DEFINE g == [open[Len(open)] EXCEPT !.done = TRUE]
      <4>2. WithBody[Len(open)] = g
        <5> HIDE DEF g
        <5>1. WithBody = [open EXCEPT ![Len(open)] = g]
          BY <2>3 DEF g
        <5> QED
          BY <1>1, <2>1, <5>1
      <4>1. WithBody[k] = [open[k] EXCEPT !.done = TRUE]
        BY <3>2, <4>2
      <4> QED
        BY <3>1, <3>2, <4>1 DEF Kept, Frame
    <3>3. CASE k # Len(open)
      <4>1. WithBody[k] = open[k]
        BY <1>1, <2>1, <2>3, <3>3
      <4> QED
        BY <3>1, <3>3, <4>1 DEF Kept
    <3> QED
      BY <3>2, <3>3
  <2>7. /\ Grown(WithBody, Append(WithBody, Plain), Plain)
        /\ \A k \in 1 .. Len(open) : Append(WithBody, Plain)[k] = WithBody[k]
    BY <2>5, PlainFrame, OpenGrows
  <2> HIDE DEF WithBody
  <2> QED
    BY <2>5, <2>6, <2>7 DEF Grown
<1> QED
  BY <1>2, <1>3

----------------------------------------------------------------------------
(* Realms                                                                  *)

\* The realm after n constructs depends on what is kept about those only.
LEMMA RealmAtKept ==
  ASSUME NEW op, NEW op2, NEW n \in Nat, NEW r,
         \A k \in 1 .. n : Kept(op2[k], op[k]),
         RealmAt(op, n, r)
  PROVE  RealmAt(op2, n, r)
<1>1. \A k \in 1 .. n : (IsFunc(op2[k]) <=> IsFunc(op[k])) /\ op2[k].realm = op[k].realm
  BY DEF Kept, IsFunc
<1>2. \A j \in 1 .. n : \A k \in j + 1 .. n : k \in 1 .. n
  OBVIOUS
<1> QED
  BY <1>1, <1>2 DEF RealmAt

\* One construct further on the realm is the function's, or the same.
LEMMA RealmAtNext ==
  ASSUME NEW op, NEW n \in Nat, NEW r, NEW r2,
         RealmAt(op, n, r),
         r2 = IF IsFunc(op[n + 1]) THEN op[n + 1].realm ELSE r
  PROVE  RealmAt(op, n + 1, r2)
<1>1. CASE IsFunc(op[n + 1])
  <2>1. n + 1 \in 1 .. n + 1
    OBVIOUS
  <2>2. \A j \in 1 .. n + 1 : j # n + 1 => n + 1 \in j + 1 .. n + 1
    OBVIOUS
  <2> QED
    BY <1>1, <2>1, <2>2 DEF RealmAt
<1>2. CASE ~IsFunc(op[n + 1])
  <2>1. \A j \in 1 .. n + 1 : IsFunc(op[j]) => j \in 1 .. n
    BY <1>2
  <2>2. \A j \in 1 .. n : \A k \in j + 1 .. n : k \in j + 1 .. n + 1
    OBVIOUS
  <2>3. \A j \in 1 .. n : j \in 1 .. n + 1
    OBVIOUS
  <2> QED
    BY <1>2, <2>1, <2>2, <2>3 DEF RealmAt
<1> QED
  BY <1>1, <1>2

\* And the other way, past a construct that is not a function.
LEMMA RealmAtBack ==
  ASSUME NEW op, NEW n \in Nat, NEW r,
         RealmAt(op, n + 1, r),
         ~IsFunc(op[n + 1])
  PROVE  RealmAt(op, n, r)
<1>1. \A j \in 1 .. n + 1 : j \in 1 .. n \/ j = n + 1
  OBVIOUS
<1>2. \A j \in 1 .. n : \A k \in j + 1 .. n + 1 : k \in j + 1 .. n \/ k = n + 1
  OBVIOUS
<1>3. \A j \in 1 .. n : j \in 1 .. n + 1
  OBVIOUS
<1> QED
  BY <1>1, <1>2, <1>3 DEF RealmAt

\* SavedRight and RealmTracked, of any stack and realm.
RealmsOK(op, r) ==
  /\ RealmAt(op, Len(op), r)
  /\ \A k \in 1 .. Len(op) : IsFunc(op[k]) => RealmAt(op, k - 1, op[k].saved)

LEMMA RealmsGrow ==
  ASSUME NEW op \in Seq(Frame), NEW op2, NEW f, NEW r, NEW r2,
         Grown(op, op2, f),
         RealmsOK(op, r),
         IF IsFunc(f) THEN f.saved = r /\ f.realm = r2 ELSE r2 = r
  PROVE  RealmsOK(op2, r2)
<1>1. Len(op) \in Nat /\ Len(op2) = Len(op) + 1
  BY DEF Grown
<1>2. \A n \in 0 .. Len(op) : \A k \in 1 .. n : Kept(op2[k], op[k])
  BY <1>1 DEF Grown
<1>3. RealmAt(op2, Len(op), r)
  BY <1>1, <1>2, RealmAtKept DEF RealmsOK
<1>4. RealmAt(op2, Len(op) + 1, r2)
  BY <1>1, <1>3, RealmAtNext DEF Grown
<1>5. ASSUME NEW k \in 1 .. Len(op2), IsFunc(op2[k])
      PROVE  RealmAt(op2, k - 1, op2[k].saved)
  <2>1. CASE k = Len(op) + 1
    BY <1>1, <1>3, <1>5, <2>1 DEF Grown
  <2>2. CASE k \in 1 .. Len(op)
    <3>1. IsFunc(op[k]) /\ op2[k].saved = op[k].saved
      BY <1>5, <2>2 DEF Grown, Kept, IsFunc
    <3>2. RealmAt(op, k - 1, op2[k].saved) /\ k - 1 \in Nat
      BY <2>2, <3>1 DEF RealmsOK
    <3>3. \A m \in 1 .. k - 1 : Kept(op2[m], op[m])
      BY <1>2, <2>2
    <3> QED
      BY <3>2, <3>3, RealmAtKept
  <2> QED
    BY <1>1, <2>1, <2>2
<1> QED
  BY <1>1, <1>4, <1>5 DEF RealmsOK

LEMMA RealmsShrink ==
  ASSUME NEW op \in Seq(Frame), NEW op2, NEW r, NEW r2,
         Shrunk(op, op2),
         RealmsOK(op, r),
         r2 = IF IsFunc(op[Len(op)]) THEN op[Len(op)].saved ELSE r
  PROVE  RealmsOK(op2, r2)
<1>1. /\ Len(op) \in Nat /\ Len(op) > 0
      /\ Len(op2) \in Nat /\ Len(op2) = Len(op) - 1
      /\ Len(op) = Len(op2) + 1
  BY DEF Shrunk
<1>2. \A n \in 0 .. Len(op2) : \A k \in 1 .. n : Kept(op2[k], op[k])
  BY <1>1 DEF Shrunk
<1>3. RealmAt(op, Len(op2), r2)
  <2>1. CASE IsFunc(op[Len(op)])
    BY <1>1, <2>1 DEF RealmsOK
  <2>2. CASE ~IsFunc(op[Len(op)])
    BY <1>1, <2>2, RealmAtBack DEF RealmsOK
  <2> QED
    BY <2>1, <2>2
<1>4. RealmAt(op2, Len(op2), r2)
  BY <1>1, <1>2, <1>3, RealmAtKept
<1>5. ASSUME NEW k \in 1 .. Len(op2), IsFunc(op2[k])
      PROVE  RealmAt(op2, k - 1, op2[k].saved)
  <2>1. IsFunc(op[k]) /\ op2[k].saved = op[k].saved
    BY <1>5 DEF Shrunk, Kept, IsFunc
  <2>2. RealmAt(op, k - 1, op2[k].saved) /\ k - 1 \in Nat
    BY <1>1, <2>1 DEF RealmsOK
  <2>3. \A m \in 1 .. k - 1 : Kept(op2[m], op[m])
    BY <1>1, <1>2
  <2> QED
    BY <2>2, <2>3, RealmAtKept
<1> QED
  BY <1>4, <1>5 DEF RealmsOK

LEMMA RealmsFlag ==
  ASSUME NEW op \in Seq(Frame), NEW op2, NEW r,
         Flagged(op, op2),
         RealmsOK(op, r)
  PROVE  RealmsOK(op2, r)
<1>1. Len(op) \in Nat /\ Len(op2) = Len(op)
  BY DEF Flagged
<1>2. \A n \in 0 .. Len(op) : \A k \in 1 .. n : Kept(op2[k], op[k])
  BY <1>1 DEF Flagged
<1>3. RealmAt(op2, Len(op2), r)
  BY <1>1, <1>2, RealmAtKept DEF RealmsOK
<1>4. ASSUME NEW k \in 1 .. Len(op2), IsFunc(op2[k])
      PROVE  RealmAt(op2, k - 1, op2[k].saved)
  <2>1. IsFunc(op[k]) /\ op2[k].saved = op[k].saved
    BY <1>1, <1>4 DEF Flagged, Kept, IsFunc
  <2>2. RealmAt(op, k - 1, op2[k].saved) /\ k - 1 \in Nat
    BY <1>1, <2>1 DEF RealmsOK
  <2>3. \A m \in 1 .. k - 1 : Kept(op2[m], op[m])
    BY <1>1, <1>2
  <2> QED
    BY <2>2, <2>3, RealmAtKept
<1> QED
  BY <1>3, <1>4 DEF RealmsOK

----------------------------------------------------------------------------
(* Confinement                                                             *)

\* InnermostExists, of any stack.
InnerOK(op) ==
  \A n \in 0 .. Len(op) : (\E j \in 1 .. n : IsFunc(op[j])) =>
    \E j \in 1 .. n : IsFunc(op[j]) /\ \A k \in j + 1 .. n : ~IsFunc(op[k])

LEMMA InnerSame ==
  ASSUME NEW op, NEW op2, NEW n \in Nat,
         \A k \in 1 .. n : Kept(op2[k], op[k]),
         (\E j \in 1 .. n : IsFunc(op[j])) =>
            \E j \in 1 .. n : IsFunc(op[j]) /\ \A k \in j + 1 .. n : ~IsFunc(op[k]),
         \E j \in 1 .. n : IsFunc(op2[j])
  PROVE  \E j \in 1 .. n : IsFunc(op2[j]) /\ \A k \in j + 1 .. n : ~IsFunc(op2[k])
<1>1. \A k \in 1 .. n : IsFunc(op2[k]) <=> IsFunc(op[k])
  BY DEF Kept, IsFunc
<1>2. \A j \in 1 .. n : \A k \in j + 1 .. n : k \in 1 .. n
  OBVIOUS
<1> QED
  BY <1>1, <1>2

LEMMA InnerGrow ==
  ASSUME NEW op \in Seq(Frame), NEW op2, NEW f, Grown(op, op2, f), InnerOK(op)
  PROVE  InnerOK(op2)
<1>1. Len(op) \in Nat /\ Len(op2) = Len(op) + 1 /\ op2[Len(op) + 1] = f
  BY DEF Grown
<1>2. SUFFICES ASSUME NEW n \in 0 .. Len(op2), \E j \in 1 .. n : IsFunc(op2[j])
               PROVE  \E j \in 1 .. n : IsFunc(op2[j]) /\ \A k \in j + 1 .. n : ~IsFunc(op2[k])
  BY DEF InnerOK
<1>3. \A m \in 0 .. Len(op) : (\E j \in 1 .. m : IsFunc(op2[j])) =>
        \E j \in 1 .. m : IsFunc(op2[j]) /\ \A k \in j + 1 .. m : ~IsFunc(op2[k])
  <2> TAKE m \in 0 .. Len(op)
  <2> HAVE \E j \in 1 .. m : IsFunc(op2[j])
  <2>1. \A k \in 1 .. m : Kept(op2[k], op[k])
    BY <1>1 DEF Grown
  <2>2. m \in Nat
    BY <1>1
  <2>3. (\E j \in 1 .. m : IsFunc(op[j])) =>
          \E j \in 1 .. m : IsFunc(op[j]) /\ \A k \in j + 1 .. m : ~IsFunc(op[k])
    BY DEF InnerOK
  <2> QED
    BY <2>1, <2>2, <2>3, InnerSame
<1>4. CASE n \in 0 .. Len(op)
  BY <1>2, <1>3, <1>4
<1>5. CASE n = Len(op) + 1 /\ IsFunc(f)
  <2>1. n \in 1 .. n /\ n + 1 .. n = {}
    BY <1>1, <1>5
  <2> QED
    BY <1>1, <1>5, <2>1
<1>6. CASE n = Len(op) + 1 /\ ~IsFunc(f)
  <2>1. \A j \in 1 .. n : IsFunc(op2[j]) => j \in 1 .. Len(op)
    BY <1>1, <1>6
  <2>2. PICK j \in 1 .. Len(op) :
               IsFunc(op2[j]) /\ \A k \in j + 1 .. Len(op) : ~IsFunc(op2[k])
    <3>1. \E j \in 1 .. Len(op) : IsFunc(op2[j])
      BY <1>2, <2>1
    <3>2. Len(op) \in 0 .. Len(op)
      BY <1>1
    <3> QED
      BY <1>3, <3>1, <3>2
  <2>3. \A k \in j + 1 .. n : k \in j + 1 .. Len(op) \/ k = n
    BY <1>1, <1>6
  <2>4. j \in 1 .. n
    BY <1>1, <1>6
  <2> QED
    BY <1>1, <1>6, <2>2, <2>3, <2>4
<1> QED
  BY <1>1, <1>4, <1>5, <1>6

LEMMA InnerFewer ==
  ASSUME NEW op \in Seq(Frame), NEW op2, Shrunk(op, op2) \/ Flagged(op, op2), InnerOK(op)
  PROVE  InnerOK(op2)
<1>1. /\ Len(op2) \in Nat
      /\ \A m \in 0 .. Len(op2) : m \in Nat /\ m \in 0 .. Len(op)
      /\ \A k \in 1 .. Len(op2) : Kept(op2[k], op[k])
  BY DEF Shrunk, Flagged
<1>2. SUFFICES ASSUME NEW n \in 0 .. Len(op2), \E j \in 1 .. n : IsFunc(op2[j])
               PROVE  \E j \in 1 .. n : IsFunc(op2[j]) /\ \A k \in j + 1 .. n : ~IsFunc(op2[k])
  BY DEF InnerOK
<1>3. \A k \in 1 .. n : Kept(op2[k], op[k])
  BY <1>1
<1>4. (\E j \in 1 .. n : IsFunc(op[j])) =>
        \E j \in 1 .. n : IsFunc(op[j]) /\ \A k \in j + 1 .. n : ~IsFunc(op[k])
  BY <1>1 DEF InnerOK
<1> QED
  BY <1>1, <1>2, <1>3, <1>4, InnerSame

\* Confined, of any stack.
ConfinedIn(op) ==
  \A j, k \in 1 .. Len(op) : Unreported(op, j, k) => op[k].realm \in Inside(op[j].realm)

LEMMA UnreportedKept ==
  ASSUME NEW op, NEW op2, NEW n \in Nat, NEW j \in 1 .. n, NEW k \in 1 .. n,
         \A m \in 1 .. n : Kept(op2[m], op[m]),
         Unreported(op2, j, k)
  PROVE  Unreported(op, j, k)
<1>1. \A m \in j + 1 .. k : m \in 1 .. n
  OBVIOUS
<1> QED
  BY <1>1 DEF Unreported, Kept, IsFunc

LEMMA ConfinedFewer ==
  ASSUME NEW op \in Seq(Frame), NEW op2, Shrunk(op, op2) \/ Flagged(op, op2), ConfinedIn(op)
  PROVE  ConfinedIn(op2)
<1>1. /\ Len(op2) \in Nat
      /\ \A k \in 1 .. Len(op2) : k \in 1 .. Len(op) /\ Kept(op2[k], op[k])
  BY DEF Shrunk, Flagged
<1>2. SUFFICES ASSUME NEW j \in 1 .. Len(op2), NEW k \in 1 .. Len(op2), Unreported(op2, j, k)
               PROVE  op2[k].realm \in Inside(op2[j].realm)
  BY DEF ConfinedIn
<1>3. Unreported(op, j, k)
  BY <1>1, <1>2, UnreportedKept
<1>4. op2[k].realm = op[k].realm /\ op2[j].realm = op[j].realm
  BY <1>1 DEF Kept
<1> QED
  BY <1>1, <1>3, <1>4 DEF ConfinedIn

\* The matrix is closed: what may stand in something that may stand in a
\* realm may stand in that realm.
LEMMA InsideClosed ==
  ASSUME NEW outer \in Realm, NEW middle \in Inside(outer), NEW inner \in Realm,
         is_realm_nesting_legal(middle, inner), middle # "MAIN"
  PROVE  inner \in Inside(outer)
BY DEF Inside, Realm, is_realm_nesting_legal

LEMMA LegalInside ==
  ASSUME NEW outer \in Realm, NEW inner \in Realm, is_realm_nesting_legal(outer, inner)
  PROVE  inner \in Inside(outer)
BY DEF Inside, Realm, is_realm_nesting_legal

LEMMA ConfinedGrow ==
  ASSUME NEW op \in Seq(Frame), NEW op2, NEW f \in Frame, NEW r,
         Grown(op, op2, f), ConfinedIn(op), InnerOK(op), RealmsOK(op, r),
         (f.kind = "func" /\ ~f.bad /\ f.realm # "MAIN") => is_realm_nesting_legal(r, f.realm)
  PROVE  ConfinedIn(op2)
<1>1. /\ Len(op) \in Nat /\ Len(op2) = Len(op) + 1 /\ op2[Len(op) + 1] = f
      /\ \A k \in 1 .. Len(op) : op[k] \in Frame /\ Kept(op2[k], op[k])
  BY DEF Grown
<1>2. SUFFICES ASSUME NEW j \in 1 .. Len(op2), NEW k \in 1 .. Len(op2), Unreported(op2, j, k)
               PROVE  op2[k].realm \in Inside(op2[j].realm)
  BY DEF ConfinedIn
<1>3. j < k /\ j \in 1 .. Len(op)
  BY <1>1, <1>2 DEF Unreported
<1>4. op2[j].realm = op[j].realm /\ op[j].realm \in Realm
  BY <1>1, <1>3 DEF Kept, Frame
<1>5. CASE k \in 1 .. Len(op)
  <2>1. Unreported(op, j, k)
    BY <1>1, <1>2, <1>3, <1>5, UnreportedKept
  <2>2. op2[k].realm = op[k].realm
    BY <1>1, <1>5 DEF Kept
  <2> QED
    BY <1>3, <1>4, <1>5, <2>1, <2>2 DEF ConfinedIn
<1>6. CASE k = Len(op) + 1
  <2>1. f.kind = "func" /\ IsFunc(f) /\ ~f.bad /\ f.realm # "MAIN" /\ f.realm \in Realm
    <3>1. k \in j + 1 .. k /\ op2[k] = f
      BY <1>1, <1>3, <1>6
    <3>2. f.kind = "func" /\ IsFunc(f)
      BY <1>2, <3>1 DEF Unreported, IsFunc
    <3> QED
      BY <1>2, <3>1, <3>2 DEF Unreported, Frame
  <2>2. is_realm_nesting_legal(r, f.realm)
    BY <2>1
  <2>3. IsFunc(op[j])
    BY <1>1, <1>2, <1>3 DEF Unreported, Kept, IsFunc
  <2>4. Len(op) \in 0 .. Len(op)
    BY <1>1
  <2>5. PICK m \in 1 .. Len(op) : IsFunc(op[m]) /\ \A i \in m + 1 .. Len(op) : ~IsFunc(op[i])
    BY <1>3, <2>3, <2>4 DEF InnerOK
  <2>6. r = op[m].realm /\ r \in Realm
    BY <1>1, <2>5 DEF RealmsOK, RealmAt, Frame
  <2>7. CASE m = j
    BY <1>1, <1>4, <1>6, <2>1, <2>2, <2>6, <2>7, LegalInside
  <2>8. CASE m # j
    <3>1. j < m
      <4>1. ~(m < j)
        BY <1>3, <2>3, <2>5
      <4> QED
        BY <1>1, <2>8, <4>1
    <3>2. \A i \in j + 1 .. m : i \in j + 1 .. k /\ i \in 1 .. Len(op)
      BY <1>1, <1>3, <1>6
    <3>3. m \in j + 1 .. m
      BY <1>1, <3>1
    <3>4. Unreported(op, j, m) /\ op[m].realm # "MAIN"
      BY <1>1, <1>2, <2>3, <2>5, <3>1, <3>2, <3>3 DEF Unreported, Kept, IsFunc
    <3>5. op[m].realm \in Inside(op[j].realm)
      BY <1>3, <3>4 DEF ConfinedIn
    <3> QED
      BY <1>1, <1>4, <1>6, <2>1, <2>2, <2>6, <3>4, <3>5, InsideClosed
  <2> QED
    BY <2>7, <2>8
<1> QED
  BY <1>1, <1>5, <1>6

----------------------------------------------------------------------------
(* Scopes                                                                  *)

\* ScopesMatched, of any stack and scope chain.
ScopesIn(op, sc) ==
  /\ Len(sc) > 0
  /\ sc[1] = 0
  /\ \A m, n \in 1 .. Len(sc) : m < n => sc[m] < sc[n]
  /\ \A n \in 2 .. Len(sc) : sc[n] \in 1 .. Len(op) /\ Pushes(op[sc[n]])
  /\ \A k \in 1 .. Len(op) : Pushes(op[k]) => \E n \in 2 .. Len(sc) : sc[n] = k

LEMMA PushesKept ==
  ASSUME NEW f, NEW g, Kept(f, g)
  PROVE  Pushes(f) <=> Pushes(g)
BY DEF Kept, Pushes

LEMMA ScopesPush ==
  ASSUME NEW op \in Seq(Frame), NEW op2, NEW f, NEW sc \in Seq(Nat),
         Grown(op, op2, f), Pushes(f), ScopesIn(op, sc)
  PROVE  ScopesIn(op2, Append(sc, Len(op) + 1)) /\ Append(sc, Len(op) + 1) \in Seq(Nat)
<1> DEFINE sc2 == Append(sc, Len(op) + 1)
<1>1. /\ Len(op) \in Nat /\ Len(op2) = Len(op) + 1 /\ op2[Len(op) + 1] = f
      /\ \A k \in 1 .. Len(op) : Pushes(op2[k]) <=> Pushes(op[k])
  BY PushesKept DEF Grown
<1>2. /\ sc2 \in Seq(Nat)
      /\ Len(sc) \in Nat /\ Len(sc) > 0 /\ Len(sc2) = Len(sc) + 1
      /\ sc2[Len(sc) + 1] = Len(op) + 1
      /\ \A n \in 1 .. Len(sc) : sc2[n] = sc[n] /\ sc[n] \in Nat
  BY <1>1 DEF ScopesIn
<1> HIDE DEF sc2
<1>3. \A n \in 1 .. Len(sc) : sc[n] < Len(op) + 1
  <2>1. \A n \in 1 .. Len(sc) : n = 1 \/ n \in 2 .. Len(sc)
    BY <1>2
  <2> QED
    BY <1>1, <1>2, <2>1, SMTT(30) DEF ScopesIn
<1>4. sc2[1] = 0
  BY <1>2 DEF ScopesIn
<1>5. ASSUME NEW m \in 1 .. Len(sc2), NEW n \in 1 .. Len(sc2), m < n
      PROVE  sc2[m] < sc2[n]
  <2>1. m \in 1 .. Len(sc)
    BY <1>2, <1>5
  <2>2. CASE n \in 1 .. Len(sc)
    BY <1>2, <1>5, <2>1, <2>2 DEF ScopesIn
  <2>3. CASE n = Len(sc) + 1
    BY <1>2, <1>3, <2>1, <2>3
  <2> QED
    BY <1>2, <2>2, <2>3
<1>6. ASSUME NEW n \in 2 .. Len(sc2)
      PROVE  sc2[n] \in 1 .. Len(op2) /\ Pushes(op2[sc2[n]])
  <2>1. CASE n \in 2 .. Len(sc)
    <3>1. sc2[n] = sc[n] /\ sc[n] \in 1 .. Len(op) /\ Pushes(op[sc[n]])
      BY <1>2, <2>1 DEF ScopesIn
    <3> QED
      BY <1>1, <3>1
  <2>2. CASE n = Len(sc) + 1
    BY <1>1, <1>2, <2>2
  <2> QED
    BY <1>2, <2>1, <2>2
<1>7. ASSUME NEW k \in 1 .. Len(op2), Pushes(op2[k])
      PROVE  \E n \in 2 .. Len(sc2) : sc2[n] = k
  <2>1. CASE k = Len(op) + 1
    <3>1. Len(sc) + 1 \in 2 .. Len(sc2)
      BY <1>2
    <3> QED
      BY <1>2, <2>1, <3>1
  <2>2. CASE k \in 1 .. Len(op)
    <3>1. PICK n \in 2 .. Len(sc) : sc[n] = k
      BY <1>1, <1>7, <2>2 DEF ScopesIn
    <3>2. n \in 2 .. Len(sc2) /\ sc2[n] = k
      BY <1>2, <3>1, SMTT(30)
    <3> QED
      BY <3>2
  <2> QED
    BY <1>1, <2>1, <2>2
<1>8. Len(sc2) > 0
  BY <1>2
<1>9. ScopesIn(op2, sc2)
  BY <1>4, <1>5, <1>6, <1>7, <1>8 DEF ScopesIn
<1> QED
  BY <1>2, <1>9 DEF sc2

LEMMA ScopesNoPush ==
  ASSUME NEW op \in Seq(Frame), NEW op2, NEW f, NEW sc \in Seq(Nat),
         Grown(op, op2, f), ~Pushes(f), ScopesIn(op, sc)
  PROVE  ScopesIn(op2, sc)
<1>1. /\ Len(op) \in Nat /\ Len(op2) = Len(op) + 1 /\ op2[Len(op) + 1] = f
      /\ \A k \in 1 .. Len(op) : Pushes(op2[k]) <=> Pushes(op[k])
  BY PushesKept DEF Grown
<1>2. \A k \in 1 .. Len(op2) : k \in 1 .. Len(op) \/ k = Len(op) + 1
  BY <1>1
<1>3. \A k \in 1 .. Len(op) : k \in 1 .. Len(op2)
  BY <1>1
<1> QED
  BY <1>1, <1>2, <1>3 DEF ScopesIn

LEMMA ScopesFlag ==
  ASSUME NEW op \in Seq(Frame), NEW op2, NEW sc \in Seq(Nat), Flagged(op, op2), ScopesIn(op, sc)
  PROVE  ScopesIn(op2, sc)
<1>1. /\ Len(op2) = Len(op)
      /\ \A k \in 1 .. Len(op) : Pushes(op2[k]) <=> Pushes(op[k])
  BY PushesKept DEF Flagged
<1> QED
  BY <1>1 DEF ScopesIn

\* The scope of the last construct, if it has one, is the last scope.
LEMMA LastScope ==
  ASSUME NEW op \in Seq(Frame), NEW sc \in Seq(Nat), Len(op) > 0, ScopesIn(op, sc)
  PROVE  IF Pushes(op[Len(op)])
         THEN Len(sc) > 1 /\ sc[Len(sc)] = Len(op)
         ELSE \A n \in 2 .. Len(sc) : sc[n] \in 1 .. Len(op) - 1
<1>1. Len(op) \in Nat /\ Len(sc) \in Nat /\ \A n \in 1 .. Len(sc) : sc[n] \in Nat
  OBVIOUS
<1>2. CASE Pushes(op[Len(op)])
  <2>1. PICK n \in 2 .. Len(sc) : sc[n] = Len(op)
    BY <1>1, <1>2, SMTT(30) DEF ScopesIn
  <2>2. n = Len(sc)
    <3>1. SUFFICES ASSUME n # Len(sc) PROVE FALSE
      OBVIOUS
    <3>2. n < Len(sc) /\ Len(sc) \in 2 .. Len(sc) /\ n \in 1 .. Len(sc) /\ Len(sc) \in 1 .. Len(sc)
      BY <1>1, <3>1
    <3>3. sc[Len(sc)] > Len(op)
      BY <1>1, <2>1, <3>2 DEF ScopesIn
    <3>4. sc[Len(sc)] \in 1 .. Len(op)
      BY <3>2 DEF ScopesIn
    <3> QED
      BY <1>1, <3>3, <3>4
  <2> QED
    BY <1>1, <1>2, <2>1, <2>2
<1>3. CASE ~Pushes(op[Len(op)])
  <2>1. \A n \in 2 .. Len(sc) : sc[n] \in 1 .. Len(op) /\ sc[n] # Len(op)
    BY <1>3 DEF ScopesIn
  <2> QED
    BY <1>1, <1>3, <2>1
<1> QED
  BY <1>2, <1>3

LEMMA ScopesNoPop ==
  ASSUME NEW op \in Seq(Frame), NEW op2, NEW sc \in Seq(Nat),
         Shrunk(op, op2), ~Pushes(op[Len(op)]), ScopesIn(op, sc)
  PROVE  ScopesIn(op2, sc)
<1>1. /\ Len(op) \in Nat /\ Len(op) > 0 /\ Len(op2) = Len(op) - 1
      /\ \A k \in 1 .. Len(op2) : Pushes(op2[k]) <=> Pushes(op[k])
  BY PushesKept DEF Shrunk
<1>2. \A n \in 2 .. Len(sc) : sc[n] \in 1 .. Len(op2)
  BY <1>1, LastScope
<1>3. \A k \in 1 .. Len(op2) : k \in 1 .. Len(op)
  BY <1>1
<1> QED
  BY <1>1, <1>2, <1>3 DEF ScopesIn

LEMMA ScopesPop ==
  ASSUME NEW op \in Seq(Frame), NEW op2, NEW sc \in Seq(Nat), NEW sc2,
         Shrunk(op, op2), Pushes(op[Len(op)]), ScopesIn(op, sc),
         sc2 = Popped(sc)
  PROVE  ScopesIn(op2, sc2) /\ sc2 \in Seq(Nat)
<1>1. /\ Len(op) \in Nat /\ Len(op) > 0 /\ Len(op2) = Len(op) - 1
      /\ \A k \in 1 .. Len(op2) : Pushes(op2[k]) <=> Pushes(op[k])
  BY PushesKept DEF Shrunk
<1>2. Len(sc) \in Nat /\ Len(sc) > 1 /\ sc[Len(sc)] = Len(op)
  BY <1>1, LastScope
<1>3. /\ sc2 \in Seq(Nat)
      /\ Len(sc2) = Len(sc) - 1
      /\ \A n \in 1 .. Len(sc2) : sc2[n] = sc[n] /\ sc[n] \in Nat
  <2>1. sc2 = [n \in 1 .. Len(sc) - 1 |-> sc[n]]
    BY <1>2 DEF Popped
  <2>2. \A n \in 1 .. Len(sc) - 1 : sc[n] \in Nat
    BY <1>2
  <2> QED
    BY <1>2, <2>1, <2>2
<1>4. \A n \in 1 .. Len(sc2) : n \in 1 .. Len(sc) /\ n < Len(sc)
  BY <1>2, <1>3, SMTT(30)
<1>5. sc2[1] = 0 /\ Len(sc2) > 0
  BY <1>2, <1>3, SMTT(30) DEF ScopesIn
<1>6. \A m, n \in 1 .. Len(sc2) : m < n => sc2[m] < sc2[n]
  BY <1>3, <1>4 DEF ScopesIn
<1>7. ASSUME NEW n \in 2 .. Len(sc2)
      PROVE  sc2[n] \in 1 .. Len(op2) /\ Pushes(op2[sc2[n]])
  <2>1. n \in 2 .. Len(sc) /\ n \in 1 .. Len(sc2) /\ n < Len(sc) /\ Len(sc) \in 1 .. Len(sc)
    BY <1>2, <1>3, <1>4
  <2>2. sc2[n] = sc[n] /\ sc[n] \in 1 .. Len(op) /\ Pushes(op[sc[n]])
    BY <1>3, <2>1 DEF ScopesIn
  <2>3. sc[n] < Len(op)
    BY <1>2, <1>4, <2>1 DEF ScopesIn
  <2>4. sc[n] \in 1 .. Len(op2)
    BY <1>1, <2>2, <2>3
  <2> QED
    BY <1>1, <2>2, <2>4
<1>8. ASSUME NEW k \in 1 .. Len(op2), Pushes(op2[k])
      PROVE  \E n \in 2 .. Len(sc2) : sc2[n] = k
  <2>1. k \in 1 .. Len(op) /\ k # Len(op) /\ Pushes(op[k])
    BY <1>1, <1>8
  <2>2. PICK n \in 2 .. Len(sc) : sc[n] = k
    BY <2>1 DEF ScopesIn
  <2>3. n \in 2 .. Len(sc2) /\ n \in 1 .. Len(sc2)
    BY <1>2, <1>3, <2>1, <2>2
  <2> QED
    BY <1>3, <2>2, <2>3
<1> QED
  BY <1>3, <1>5, <1>6, <1>7, <1>8 DEF ScopesIn

----------------------------------------------------------------------------
(* Loops                                                                   *)

LEMMA LoopsFinite ==
  ASSUME NEW op \in Seq(Frame)
  PROVE  IsFiniteSet(Loops(op)) /\ Cardinality(Loops(op)) \in Nat
<1>1. IsFiniteSet(1 .. Len(op))
  BY FS_Interval
<1>2. Loops(op) \subseteq 1 .. Len(op)
  BY DEF Loops
<1> QED
  BY <1>1, <1>2, FS_Subset, FS_CardinalityType

\* A construct that starts to loop counts once more, one that stops to once
\* less.
LEMMA LoopsAdd ==
  ASSUME NEW op \in Seq(Frame), NEW op2, NEW k,
         k \notin Loops(op), Loops(op2) = Loops(op) \cup {k}
  PROVE  Cardinality(Loops(op2)) = Cardinality(Loops(op)) + 1
BY LoopsFinite, FS_AddElement

LEMMA LoopsRemove ==
  ASSUME NEW op \in Seq(Frame), NEW op2, NEW k,
         k \in Loops(op), Loops(op2) = Loops(op) \ {k}
  PROVE  Cardinality(Loops(op2)) = Cardinality(Loops(op)) - 1
BY LoopsFinite, FS_RemoveElement

\* Opening a construct other than a loop, with nothing else changed.
LEMMA LoopsGrowSame ==
  ASSUME NEW op \in Seq(Frame), NEW f, ~Looping(f)
  PROVE  Loops(Append(op, f)) = Loops(op)
<1>1. /\ Len(op) \in Nat /\ Len(Append(op, f)) = Len(op) + 1
      /\ Append(op, f)[Len(op) + 1] = f
      /\ \A k \in 1 .. Len(op) : Append(op, f)[k] = op[k]
  OBVIOUS
<1> QED
  BY <1>1 DEF Loops

LEMMA LoopsGrowAdd ==
  ASSUME NEW op \in Seq(Frame), NEW f, Looping(f)
  PROVE  Loops(Append(op, f)) = Loops(op) \cup {Len(op) + 1} /\ Len(op) + 1 \notin Loops(op)
<1>1. /\ Len(op) \in Nat /\ Len(Append(op, f)) = Len(op) + 1
      /\ Append(op, f)[Len(op) + 1] = f
      /\ \A k \in 1 .. Len(op) : Append(op, f)[k] = op[k]
  OBVIOUS
<1> QED
  BY <1>1 DEF Loops

\* Looping depends on the kind and on done.
LEMMA LoopsSameBelow ==
  ASSUME NEW op \in Seq(Frame), NEW op2, Shrunk(op, op2)
  PROVE  Loops(op2) = Loops(op) \ {Len(op)}
<1>1. /\ Len(op) \in Nat /\ Len(op) > 0 /\ Len(op2) = Len(op) - 1
      /\ \A k \in 1 .. Len(op2) : Looping(op2[k]) <=> Looping(op[k])
  BY DEF Shrunk, Kept, Looping
<1>2. \A k : k \in 1 .. Len(op2) <=> (k \in 1 .. Len(op) /\ k # Len(op))
  BY <1>1
<1> QED
  BY <1>1, <1>2 DEF Loops

LEMMA LoopsFlag ==
  ASSUME NEW op \in Seq(Frame), NEW op2, Flagged(op, op2)
  PROVE  Loops(op2) = Loops(op)
BY DEF Flagged, Kept, Looping, Loops

\* A block: a for around it starts to loop.
LEMMA LoopsBlock ==
  ASSUME TypeOK, AtBody
  PROVE  Cardinality(Loops(Append(WithBody, Plain))) =
           Cardinality(Loops(open)) + (IF Place = "for" THEN 1 ELSE 0)
<1> DEFINE op2 == Append(WithBody, Plain)
<1>1. open \in Seq(Frame) /\ Len(open) \in Nat
  BY DEF TypeOK
<1>2. /\ Grown(open, op2, Plain)
      /\ \A k \in 1 .. Len(open) :
           op2[k].done = (IF k = Len(open) THEN TRUE ELSE open[k].done)
  BY BlockGrows
<1> HIDE DEF op2
<1>3. /\ Len(op2) = Len(open) + 1 /\ op2[Len(open) + 1] = Plain
      /\ \A k \in 1 .. Len(open) : op2[k].kind = open[k].kind
  BY <1>2 DEF Grown, Kept
<1>4. ~Looping(Plain)
  BY DEF Plain, Looping
<1>5. \A k \in 1 .. Len(open) :
        Looping(op2[k]) <=> Looping(open[k]) \/ (k = Len(open) /\ open[k].kind = "for")
  BY <1>2, <1>3 DEF Looping
<1>6. Loops(op2) = {k \in 1 .. Len(open) :
                      Looping(open[k]) \/ (k = Len(open) /\ open[k].kind = "for")}
  BY <1>1, <1>3, <1>4, <1>5 DEF Loops
<1>7. CASE Place = "for"
  <2>1. open # <<>> /\ Top.kind = "for" /\ ~Top.done
    BY <1>7 DEF Place, AtBody, AtStatement
  <2>2. Len(open) \in 1 .. Len(open)
    BY <1>1, <2>1
  <2>3. Loops(op2) = Loops(open) \cup {Len(open)} /\ Len(open) \notin Loops(open)
    BY <1>6, <2>1, <2>2 DEF Loops, Looping, Top
  <2>4. Cardinality(Loops(op2)) = Cardinality(Loops(open)) + 1
    BY <1>1, <2>3, LoopsAdd
  <2> QED
    BY <1>7, <2>4 DEF op2
<1>8. CASE Place # "for"
  <2>1. \A k \in 1 .. Len(open) : k = Len(open) => open[k].kind # "for"
    BY <1>1, <1>8 DEF Place, Top
  <2>2. Loops(op2) = Loops(open)
    BY <1>6, <2>1 DEF Loops
  <2>3. Cardinality(Loops(open)) \in Nat
    BY <1>1, LoopsFinite
  <2> QED
    BY <1>8, <2>2, <2>3 DEF op2
<1> QED
  BY <1>7, <1>8

----------------------------------------------------------------------------
(* The expected return type                                                *)

\* ExpectedRet, of any stack and type.
RetIn(op, ret) ==
  /\ \A j \in 1 .. Len(op) : Innermost(op, j) =>
       ret = IF op[j].cut THEN NoType ELSE op[j].ret
  /\ (\A j \in 1 .. Len(op) : ~IsFunc(op[j])) => ret = NoType

\* A function is opened: its type is expected.
LEMMA RetFunc ==
  ASSUME NEW op \in Seq(Frame), NEW op2, NEW f, Grown(op, op2, f), IsFunc(f), ~f.cut
  PROVE  RetIn(op2, f.ret)
<1>1. /\ Len(op) \in Nat /\ Len(op2) = Len(op) + 1 /\ op2[Len(op) + 1] = f
      /\ Len(op2) \in 1 .. Len(op2)
  BY DEF Grown
<1>2. \A j \in 1 .. Len(op2) : Innermost(op2, j) => j = Len(op2)
  <2>1. \A j \in 1 .. Len(op2) : j # Len(op2) => Len(op2) \in j + 1 .. Len(op2)
    BY <1>1
  <2> QED
    BY <1>1, <2>1 DEF Innermost
<1> QED
  BY <1>1, <1>2 DEF RetIn

\* Anything else is opened or closed, or flagged: the function stays the same.
LEMMA RetOther ==
  ASSUME NEW op \in Seq(Frame), NEW op2 \in Seq(Frame), NEW n \in Nat, NEW ret,
         n = Len(op) \/ (n + 1 = Len(op) /\ ~IsFunc(op[n + 1])),
         n = Len(op2) \/ (n + 1 = Len(op2) /\ ~IsFunc(op2[n + 1])),
         \A k \in 1 .. n : Kept(op2[k], op[k]) /\ op2[k].cut = op[k].cut,
         RetIn(op, ret)
  PROVE  RetIn(op2, ret)
<1>1. \A k \in 1 .. n : /\ IsFunc(op2[k]) <=> IsFunc(op[k])
                        /\ op2[k].ret = op[k].ret
                        /\ op2[k].cut = op[k].cut
                        /\ k \in 1 .. Len(op)
                        /\ k \in 1 .. Len(op2)
  BY DEF Kept, IsFunc
<1>2. ASSUME NEW j \in 1 .. Len(op2), IsFunc(op2[j]) PROVE j \in 1 .. n
  BY <1>2
<1>3. ASSUME NEW j \in 1 .. Len(op), IsFunc(op[j]) PROVE j \in 1 .. n
  BY <1>3
<1>4. ASSUME NEW j \in 1 .. n, Innermost(op2, j)
      PROVE  Innermost(op, j)
  <2>1. IsFunc(op[j]) /\ j \in 1 .. Len(op)
    BY <1>1, <1>4 DEF Innermost
  <2>2. ASSUME NEW k \in j + 1 .. Len(op), IsFunc(op[k]) PROVE FALSE
    <3>1. k \in 1 .. Len(op)
      OBVIOUS
    <3>2. k \in 1 .. n /\ k \in j + 1 .. Len(op2)
      BY <1>3, <2>2, <3>1
    <3> QED
      BY <1>1, <1>4, <2>2, <3>2 DEF Innermost
  <2> QED
    BY <2>1, <2>2 DEF Innermost
<1>5. ASSUME NEW j \in 1 .. Len(op2), Innermost(op2, j)
      PROVE  ret = IF op2[j].cut THEN NoType ELSE op2[j].ret
  <2>1. j \in 1 .. n
    BY <1>2, <1>5 DEF Innermost
  <2>2. Innermost(op, j) /\ j \in 1 .. Len(op)
    BY <1>1, <1>4, <1>5, <2>1
  <2>3. op2[j].cut = op[j].cut /\ op2[j].ret = op[j].ret
    BY <1>1, <2>1
  <2>4. ret = IF op[j].cut THEN NoType ELSE op[j].ret
    BY <2>2 DEF RetIn
  <2> QED
    BY <2>3, <2>4
<1>6. ASSUME \A j \in 1 .. Len(op2) : ~IsFunc(op2[j])
      PROVE  ret = NoType
  <2>1. \A j \in 1 .. Len(op) : ~IsFunc(op[j])
    BY <1>1, <1>3, <1>6
  <2> QED
    BY <2>1 DEF RetIn
<1> QED
  BY <1>5, <1>6 DEF RetIn

\* A function is closed: those around it are cut.
LEMMA RetCut ==
  ASSUME NEW op, \A k \in 1 .. Len(op) : op[k].cut
  PROVE  RetIn(op, NoType)
BY DEF RetIn

----------------------------------------------------------------------------
(* The steps                                                               *)

\* The invariant and its successor, in the terms of the lemmas above.
Parts(op, sc, realm, ret, loop) ==
  /\ op \in Seq(Frame)
  /\ sc \in Seq(Nat)
  /\ realm \in Realm
  /\ ret \in TypeOrNot \cup {NoType}
  /\ RealmsOK(op, realm)
  /\ InnerOK(op)
  /\ ConfinedIn(op)
  /\ ScopesIn(op, sc)
  /\ loop = Cardinality(Loops(op))
  /\ RetIn(op, ret)

LEMMA InvParts ==
  CheckWalkInv => /\ Parts(open, scopes, current_realm, expected_ret, loop_depth)
                  /\ TypeOK
                  /\ loop_depth \in Nat
BY DEF CheckWalkInv, Parts, TypeOK, RealmTracked, SavedRight, RealmsOK, InnermostExists,
       InnerOK, Confined, ConfinedIn, ScopesMatched, ScopesIn, LoopsCounted,
       ExpectedRet, RetIn

LEMMA PartsInv ==
  ASSUME Parts(open', scopes', current_realm', expected_ret', loop_depth'), report' \in Reports
  PROVE  CheckWalkInv'
<1>1. loop_depth' \in Nat
  BY LoopsFinite DEF Parts
<1>2. TypeOK'
  BY <1>1 DEF Parts, TypeOK
<1>3. RealmTracked' /\ SavedRight'
  BY DEF Parts, RealmTracked, SavedRight, RealmsOK
<1>4. InnermostExists' /\ Confined'
  BY DEF Parts, InnermostExists, InnerOK, Confined, ConfinedIn
<1>5. ScopesMatched' /\ LoopsCounted'
  BY DEF Parts, ScopesMatched, ScopesIn, LoopsCounted
<1>6. ExpectedRet'
  BY DEF Parts, ExpectedRet, RetIn
<1> QED
  BY <1>2, <1>3, <1>4, <1>5, <1>6 DEF CheckWalkInv

LEMMA InitInv == Init => CheckWalkInv
<1> SUFFICES ASSUME Init PROVE CheckWalkInv
  OBVIOUS
<1>1. open = <<>> /\ Len(open) = 0 /\ scopes = <<0>> /\ Len(scopes) = 1 /\ scopes[1] = 0
  BY DEF Init
<1>2. TypeOK
  BY <1>1 DEF Init, TypeOK, Realm, Reports
<1>3. RealmTracked /\ SavedRight /\ InnermostExists /\ Confined /\ ExpectedRet
  BY <1>1 DEF Init, RealmTracked, RealmAt, SavedRight, InnermostExists, Confined, ExpectedRet
<1>4. ScopesMatched
  BY <1>1 DEF ScopesMatched
<1>5. LoopsCounted
  <2>1. Loops(open) = {}
    BY <1>1 DEF Loops
  <2> QED
    BY <2>1, FS_EmptySet DEF Init, LoopsCounted
<1> QED
  BY <1>2, <1>3, <1>4, <1>5 DEF CheckWalkInv

\* A function or a method is opened.
LEMMA OpenFuncInv ==
  ASSUME CheckWalkInv, NEW f \in Frame, IsFunc(f), ~f.cut, f.saved = current_realm,
         open' = Append(open, f), scopes' = PushScope, current_realm' = f.realm,
         expected_ret' = f.ret, UNCHANGED loop_depth, report' \in Reports,
         (f.kind = "func" /\ ~f.bad /\ f.realm # "MAIN") =>
            is_realm_nesting_legal(current_realm, f.realm)
  PROVE  CheckWalkInv'
<1>1. Parts(open, scopes, current_realm, expected_ret, loop_depth)
  BY InvParts
<1>2. Grown(open, open', f) /\ open \in Seq(Frame) /\ open' \in Seq(Frame) /\ scopes \in Seq(Nat)
  BY <1>1, OpenGrows DEF Parts, Grown
<1>3. RealmsOK(open', current_realm')
  BY <1>1, <1>2, RealmsGrow DEF Parts
<1>4. InnerOK(open') /\ ConfinedIn(open')
  BY <1>1, <1>2, InnerGrow, ConfinedGrow DEF Parts
<1>5. ScopesIn(open', scopes') /\ scopes' \in Seq(Nat)
  <2>1. Pushes(f)
    BY DEF IsFunc, Pushes
  <2> QED
    BY <1>1, <1>2, <2>1, ScopesPush DEF Parts, PushScope
<1>6. loop_depth' = Cardinality(Loops(open'))
  <2>1. ~Looping(f)
    BY DEF IsFunc, Looping
  <2> QED
    BY <1>1, <2>1, LoopsGrowSame DEF Parts
<1>7. RetIn(open', expected_ret')
  BY <1>2, RetFunc
<1>8. current_realm' \in Realm /\ expected_ret' \in TypeOrNot \cup {NoType}
  BY DEF Frame
<1> QED
  BY <1>2, <1>3, <1>4, <1>5, <1>6, <1>7, <1>8, PartsInv DEF Parts

\* Another construct is opened, with or without a scope.
LEMMA OpenOtherInv ==
  ASSUME CheckWalkInv, NEW f \in Frame, ~IsFunc(f),
         Grown(open, open', f),
         scopes' = IF Pushes(f) THEN PushScope ELSE scopes,
         loop_depth' = Cardinality(Loops(open')),
         UNCHANGED <<current_realm, expected_ret>>, report' \in Reports
  PROVE  CheckWalkInv'
<1>1. Parts(open, scopes, current_realm, expected_ret, loop_depth)
  BY InvParts
<1>2. open \in Seq(Frame) /\ open' \in Seq(Frame) /\ scopes \in Seq(Nat)
  BY <1>1 DEF Parts, Grown
<1>3. RealmsOK(open', current_realm')
  BY <1>1, <1>2, RealmsGrow DEF Parts
<1>4. InnerOK(open') /\ ConfinedIn(open')
  <2>1. f.kind # "func"
    BY DEF IsFunc
  <2> QED
    BY <1>1, <1>2, <2>1, InnerGrow, ConfinedGrow DEF Parts
<1>5. ScopesIn(open', scopes') /\ scopes' \in Seq(Nat)
  BY <1>1, <1>2, ScopesPush, ScopesNoPush DEF Parts, PushScope
<1>6. RetIn(open', expected_ret')
  <2>1. Len(open) \in Nat /\ Len(open) + 1 = Len(open') /\ open'[Len(open) + 1] = f
    BY <1>2 DEF Grown
  <2>2. \A k \in 1 .. Len(open) : Kept(open'[k], open[k]) /\ open'[k].cut = open[k].cut
    BY DEF Grown
  <2>3. RetIn(open', expected_ret)
    BY <1>1, <1>2, <2>1, <2>2, RetOther DEF Parts
  <2> QED
    BY <2>3
<1>7. current_realm' \in Realm /\ expected_ret' \in TypeOrNot \cup {NoType}
  BY <1>1 DEF Parts
<1> QED
  BY <1>2, <1>3, <1>4, <1>5, <1>6, <1>7, PartsInv DEF Parts

\* A construct other than a function is closed.
LEMMA CloseOtherInv ==
  ASSUME CheckWalkInv, open # <<>>, ~IsFunc(Top), open' = Below,
         scopes' = IF Pushes(Top) THEN PopScope ELSE scopes,
         loop_depth' = IF Looping(Top) THEN loop_depth - 1 ELSE loop_depth,
         UNCHANGED <<current_realm, expected_ret>>, report' \in Reports
  PROVE  CheckWalkInv'
<1>1. Parts(open, scopes, current_realm, expected_ret, loop_depth) /\ TypeOK
  BY InvParts
<1>2. /\ Shrunk(open, open') /\ open \in Seq(Frame) /\ open' \in Seq(Frame)
      /\ \A k \in 1 .. Len(open') : open'[k] = open[k]
      /\ scopes \in Seq(Nat)
  BY <1>1, BelowShrinks DEF Parts, Shrunk
<1>3. /\ Len(open) \in Nat /\ Len(open') \in Nat /\ Len(open') + 1 = Len(open) /\ Len(open) > 0
      /\ Top = open[Len(open)] /\ Len(open) \in 1 .. Len(open)
  BY <1>2 DEF Shrunk, Top
<1>4. RealmsOK(open', current_realm')
  BY <1>1, <1>2, <1>3, RealmsShrink DEF Parts
<1>5. InnerOK(open') /\ ConfinedIn(open')
  BY <1>1, <1>2, InnerFewer, ConfinedFewer DEF Parts
<1>6. ScopesIn(open', scopes') /\ scopes' \in Seq(Nat)
  <2>1. ScopesIn(open, scopes)
    BY <1>1 DEF Parts
  <2>2. CASE Pushes(Top)
    <3>1. scopes' = Popped(scopes)
      BY <2>2 DEF PopScope, Popped
    <3>2. Pushes(open[Len(open)])
      BY <1>3, <2>2
    <3> QED
      BY <1>2, <2>1, <3>1, <3>2, ScopesPop
  <2>3. CASE ~Pushes(Top)
    <3>1. scopes' = scopes /\ ~Pushes(open[Len(open)])
      BY <1>3, <2>3
    <3> QED
      BY <1>2, <2>1, <3>1, ScopesNoPop
  <2> QED
    BY <2>2, <2>3
<1>7. loop_depth' = Cardinality(Loops(open'))
  <2>1. Loops(open') = Loops(open) \ {Len(open)}
    BY <1>2, LoopsSameBelow
  <2>2. Len(open) \in Loops(open) <=> Looping(Top)
    BY <1>3 DEF Loops
  <2>3. CASE Looping(Top)
    BY <1>1, <1>2, <2>1, <2>2, <2>3, LoopsRemove DEF Parts
  <2>4. CASE ~Looping(Top)
    <3>1. Loops(open') = Loops(open)
      BY <2>1, <2>2, <2>4
    <3> QED
      BY <1>1, <2>4, <3>1 DEF Parts
  <2> QED
    BY <2>3, <2>4
<1>8. RetIn(open', expected_ret')
  <2>1. \A k \in 1 .. Len(open') : Kept(open'[k], open[k]) /\ open'[k].cut = open[k].cut
    BY <1>2 DEF Kept
  <2>2. RetIn(open', expected_ret)
    BY <1>1, <1>2, <1>3, <2>1, RetOther, ZenonT(30) DEF Parts
  <2> QED
    BY <2>2
<1>9. current_realm' \in Realm /\ expected_ret' \in TypeOrNot \cup {NoType}
  BY <1>1 DEF Parts
<1> QED
  BY <1>2, <1>4, <1>5, <1>6, <1>7, <1>8, <1>9, PartsInv DEF Parts

\* A function is closed.
LEMMA LeaveFuncInv ==
  ASSUME CheckWalkInv, NEW all_paths \in BOOLEAN, LeaveFunc(all_paths)
  PROVE  CheckWalkInv'
<1>1. Parts(open, scopes, current_realm, expected_ret, loop_depth) /\ TypeOK
  BY InvParts
<1>2. /\ open # <<>> /\ IsFunc(Top) /\ open' = CutBelow /\ report' \in Reports
      /\ current_realm' = Top.saved /\ expected_ret' = NoType
      /\ scopes' = PopScope /\ loop_depth' = loop_depth
  BY DEF LeaveFunc, Reports, RestoredRealm, ResetRet
<1>3. /\ Shrunk(open, open') /\ open \in Seq(Frame) /\ open' \in Seq(Frame)
      /\ \A k \in 1 .. Len(open') : open'[k].cut
      /\ scopes \in Seq(Nat)
  BY <1>1, <1>2, CutShrinks DEF Parts, Shrunk
<1>4. /\ Len(open) \in Nat /\ Len(open) > 0
      /\ Top = open[Len(open)] /\ Len(open) \in 1 .. Len(open) /\ Top \in Frame
  BY <1>3 DEF Shrunk, Top
<1>5. RealmsOK(open', current_realm') /\ current_realm' \in Realm
  <2>1. current_realm' \in Realm
    BY <1>2, <1>4 DEF Frame
  <2>2. RealmsOK(open', current_realm')
    BY <1>1, <1>2, <1>3, <1>4, RealmsShrink DEF Parts
  <2> QED
    BY <2>1, <2>2
<1>6. InnerOK(open') /\ ConfinedIn(open')
  BY <1>1, <1>3, InnerFewer, ConfinedFewer DEF Parts
<1>7. ScopesIn(open', scopes') /\ scopes' \in Seq(Nat)
  <2>1. Pushes(open[Len(open)])
    BY <1>2, <1>4 DEF IsFunc, Pushes
  <2>2. ScopesIn(open, scopes)
    BY <1>1 DEF Parts
  <2>3. scopes' = Popped(scopes)
    BY <1>2 DEF PopScope, Popped
  <2>4. Shrunk(open, open') /\ open \in Seq(Frame) /\ scopes \in Seq(Nat)
    BY <1>3
  <2> QED
    BY <2>1, <2>2, <2>3, <2>4, ScopesPop
<1>8. loop_depth' = Cardinality(Loops(open'))
  <2>1. Loops(open') = Loops(open) \ {Len(open)}
    BY <1>3, LoopsSameBelow
  <2>2. Len(open) \notin Loops(open)
    BY <1>2, <1>4 DEF Loops, Looping, IsFunc
  <2>3. Loops(open') = Loops(open)
    BY <2>1, <2>2
  <2> QED
    BY <1>1, <1>2, <2>3 DEF Parts
<1>9. RetIn(open', expected_ret')
  BY <1>2, <1>3, RetCut
<1> QED
  BY <1>2, <1>3, <1>5, <1>6, <1>7, <1>8, <1>9, PartsInv DEF Parts

\* A step that opens and closes nothing.
LEMMA FlagInv ==
  ASSUME CheckWalkInv, Flagged(open, open'), report' \in Reports,
         UNCHANGED <<scopes, current_realm, expected_ret, loop_depth>>
  PROVE  CheckWalkInv'
<1>1. Parts(open, scopes, current_realm, expected_ret, loop_depth)
  BY InvParts
<1>2. open \in Seq(Frame) /\ open' \in Seq(Frame) /\ scopes \in Seq(Nat)
  BY <1>1 DEF Parts, Flagged
<1>3. RealmsOK(open', current_realm') /\ InnerOK(open') /\ ConfinedIn(open')
  BY <1>1, <1>2, RealmsFlag, InnerFewer, ConfinedFewer DEF Parts
<1>4. ScopesIn(open', scopes')
  BY <1>1, <1>2, ScopesFlag DEF Parts
<1>5. loop_depth' = Cardinality(Loops(open'))
  BY <1>1, <1>2, LoopsFlag DEF Parts
<1>6. RetIn(open', expected_ret')
  <2>1. Len(open) \in Nat /\ Len(open) = Len(open')
    BY <1>2 DEF Flagged
  <2>2. \A k \in 1 .. Len(open) : Kept(open'[k], open[k]) /\ open'[k].cut = open[k].cut
    BY DEF Flagged
  <2>3. RetIn(open', expected_ret)
    BY <1>1, <1>2, <2>1, <2>2, RetOther DEF Parts
  <2> QED
    BY <2>3
<1> QED
  BY <1>1, <1>2, <1>3, <1>4, <1>5, <1>6, PartsInv DEF Parts

LEMMA UnchangedFlags ==
  ASSUME TypeOK
  PROVE  Flagged(open, open)
BY DEF TypeOK, Flagged, Kept

LEMMA EnterFuncInv ==
  ASSUME CheckWalkInv, NEW main \in BOOLEAN, NEW realm \in Declared, NEW ret \in TypeOrNot,
         EnterFunc(main, realm, ret)
  PROVE  CheckWalkInv'
<1> DEFINE bad == ~main /\ ~is_realm_nesting_legal(current_realm, realm)
           f == [Plain EXCEPT !.kind = "func", !.realm = RealmOfBody(main, realm),
                              !.saved = current_realm, !.ret = ret, !.bad = bad]
<1>1. current_realm \in Realm
  BY InvParts DEF TypeOK
<1>2. realm \in Realm /\ RealmOfBody(main, realm) \in Realm
  BY CheckWalkAssumption DEF RealmOfBody, Realm
<1>3. /\ f \in Frame /\ f.kind = "func" /\ ~f.cut /\ f.saved = current_realm
      /\ f.realm = RealmOfBody(main, realm) /\ f.ret = ret /\ f.bad = bad
  BY <1>1, <1>2 DEF Plain, Frame, Kinds
<1>4. (~f.bad /\ f.realm # "MAIN") => is_realm_nesting_legal(current_realm, f.realm)
  BY <1>3 DEF RealmOfBody
<1>5. /\ open' = Append(open, f) /\ scopes' = PushScope /\ report' \in Reports
      /\ current_realm' = RealmOfBody(main, realm) /\ expected_ret' = ret
      /\ UNCHANGED loop_depth
  BY DEF EnterFunc, Open, Reports
<1> HIDE DEF f, bad
<1>6. IsFunc(f)
  BY <1>3 DEF IsFunc
<1> QED
  BY <1>3, <1>4, <1>5, <1>6, OpenFuncInv

LEMMA EnterMethodInv ==
  ASSUME CheckWalkInv, NEW realm \in Declared, NEW ret \in TypeOrNot, EnterMethod(realm, ret)
  PROVE  CheckWalkInv'
<1> DEFINE f == [Plain EXCEPT !.kind = "method", !.realm = realm,
                              !.saved = current_realm, !.ret = ret]
<1>1. current_realm \in Realm /\ realm \in Realm
  BY InvParts, CheckWalkAssumption DEF TypeOK
<1>2. /\ f \in Frame /\ f.kind = "method" /\ ~f.cut /\ f.saved = current_realm
      /\ f.realm = realm /\ f.ret = ret
  BY <1>1 DEF Plain, Frame, Kinds
<1>3. /\ open' = Append(open, f) /\ scopes' = PushScope /\ report' \in Reports
      /\ current_realm' = realm /\ expected_ret' = ret /\ UNCHANGED loop_depth
  BY DEF EnterMethod, Open, Reports
<1> HIDE DEF f
<1>4. IsFunc(f)
  BY <1>2 DEF IsFunc
<1> QED
  BY <1>2, <1>3, <1>4, OpenFuncInv

LEMMA EnterBlockInv ==
  ASSUME CheckWalkInv, EnterBlock
  PROVE  CheckWalkInv'
<1>1. TypeOK /\ LoopsCounted /\ loop_depth \in Nat
  BY InvParts DEF CheckWalkInv
<1>2. /\ open' = Append(WithBody, Plain) /\ scopes' = PushScope /\ report' \in Reports
      /\ loop_depth' = IF Place = "for" THEN loop_depth + 1 ELSE loop_depth
      /\ UNCHANGED <<current_realm, expected_ret>> /\ AtBody
  BY DEF EnterBlock, Reports
<1>3. Grown(open, open', Plain)
  BY <1>1, <1>2, BlockGrows
<1>4. ~IsFunc(Plain) /\ Pushes(Plain) /\ Plain \in Frame
  BY PlainFrame DEF Plain, IsFunc, Pushes
<1>5. loop_depth' = Cardinality(Loops(open'))
  BY <1>1, <1>2, LoopsBlock DEF LoopsCounted
<1> QED
  BY <1>2, <1>3, <1>4, <1>5, OpenOtherInv

\* The other constructs that are opened: a loop counts at once.
LEMMA EnterOtherInv ==
  ASSUME CheckWalkInv, EnterLoop \/ EnterFor \/ EnterArm \/ \E named \in BOOLEAN : EnterCatch(named)
  PROVE  CheckWalkInv'
<1>1. TypeOK /\ LoopsCounted /\ loop_depth \in Nat /\ open \in Seq(Frame)
  BY InvParts DEF CheckWalkInv, TypeOK
<1>2. ASSUME NEW f \in Frame, ~IsFunc(f), open' = Append(open, f),
             scopes' = (IF Pushes(f) THEN PushScope ELSE scopes),
             loop_depth' = (IF Looping(f) THEN loop_depth + 1 ELSE loop_depth),
             UNCHANGED <<current_realm, expected_ret>>, report' \in Reports
      PROVE  CheckWalkInv'
  <2>1. Grown(open, open', f)
    BY <1>1, <1>2, OpenGrows
  <2>2. loop_depth' = Cardinality(Loops(open'))
    <3>1. CASE Looping(f)
      <4>1. Cardinality(Loops(open')) = Cardinality(Loops(open)) + 1
        BY <1>1, <1>2, <3>1, LoopsGrowAdd, LoopsAdd
      <4> QED
        BY <1>1, <1>2, <3>1, <4>1 DEF LoopsCounted
    <3>2. CASE ~Looping(f)
      BY <1>1, <1>2, <3>2, LoopsGrowSame DEF LoopsCounted
    <3> QED
      BY <3>1, <3>2
  <2> QED
    BY <1>2, <2>1, <2>2, OpenOtherInv
<1>3. CASE EnterLoop
  <2> DEFINE f == [Plain EXCEPT !.kind = "loop"]
  <2>1. f \in Frame /\ f.kind = "loop"
    BY PlainFrame DEF Plain, Frame, Kinds
  <2>2. /\ open' = Append(open, f) /\ loop_depth' = loop_depth + 1 /\ report' \in Reports
        /\ UNCHANGED <<scopes, current_realm, expected_ret>>
    BY <1>3 DEF EnterLoop, Open, Reports
  <2> HIDE DEF f
  <2>3. ~IsFunc(f) /\ ~Pushes(f) /\ Looping(f)
    BY <2>1 DEF IsFunc, Pushes, Looping
  <2> QED
    BY <1>2, <2>1, <2>2, <2>3
<1>4. CASE EnterFor
  <2> DEFINE f == [Plain EXCEPT !.kind = "for"]
  <2>1. f \in Frame /\ f.kind = "for" /\ ~f.done
    BY PlainFrame DEF Plain, Frame, Kinds
  <2>2. /\ open' = Append(open, f) /\ scopes' = PushScope /\ report' \in Reports
        /\ UNCHANGED <<loop_depth, current_realm, expected_ret>>
    BY <1>4 DEF EnterFor, Open, Reports
  <2> HIDE DEF f
  <2>3. ~IsFunc(f) /\ Pushes(f) /\ ~Looping(f)
    BY <2>1 DEF IsFunc, Pushes, Looping
  <2> QED
    BY <1>2, <2>1, <2>2, <2>3
<1>5. CASE EnterArm
  <2> DEFINE f == [Plain EXCEPT !.kind = "arm"]
  <2>1. f \in Frame /\ f.kind = "arm"
    BY PlainFrame DEF Plain, Frame, Kinds
  <2>2. /\ open' = Append(open, f) /\ scopes' = PushScope /\ report' \in Reports
        /\ UNCHANGED <<loop_depth, current_realm, expected_ret>>
    BY <1>5 DEF EnterArm, Open, Reports
  <2> HIDE DEF f
  <2>3. ~IsFunc(f) /\ Pushes(f) /\ ~Looping(f)
    BY <2>1 DEF IsFunc, Pushes, Looping
  <2> QED
    BY <1>2, <2>1, <2>2, <2>3
<1>6. CASE \E named \in BOOLEAN : EnterCatch(named)
  <2> PICK named \in BOOLEAN : EnterCatch(named)
    BY <1>6
  <2> DEFINE f == [Plain EXCEPT !.kind = "catch", !.named = named]
  <2>1. f \in Frame /\ f.kind = "catch" /\ f.named = named
    BY PlainFrame DEF Plain, Frame, Kinds
  <2>2. /\ open' = Append(open, f) /\ report' \in Reports
        /\ scopes' = (IF named THEN PushScope ELSE scopes)
        /\ UNCHANGED <<loop_depth, current_realm, expected_ret>>
    BY DEF EnterCatch, Open, Reports
  <2> HIDE DEF f
  <2>3. ~IsFunc(f) /\ (Pushes(f) <=> named) /\ ~Looping(f)
    BY <2>1 DEF IsFunc, Pushes, Looping
  <2> QED
    BY <1>2, <2>1, <2>2, <2>3
<1> QED
  BY <1>3, <1>4, <1>5, <1>6

LEMMA LeaveOtherInv ==
  ASSUME CheckWalkInv, LeaveBlock \/ LeaveLoop \/ LeaveFor \/ LeaveArm \/ LeaveCatch
  PROVE  CheckWalkInv'
<1>1. CASE LeaveBlock
  <2>1. open # <<>> /\ ~IsFunc(Top) /\ Pushes(Top) /\ ~Looping(Top)
    BY <1>1 DEF LeaveBlock, IsFunc, Pushes, Looping
  <2> QED
    BY <1>1, <2>1, CloseOtherInv DEF LeaveBlock, Reports
<1>2. CASE LeaveLoop
  <2>1. open # <<>> /\ ~IsFunc(Top) /\ ~Pushes(Top) /\ Looping(Top)
    BY <1>2 DEF LeaveLoop, IsFunc, Pushes, Looping
  <2> QED
    BY <1>2, <2>1, CloseOtherInv DEF LeaveLoop, Reports
<1>3. CASE LeaveFor
  <2>1. open # <<>> /\ ~IsFunc(Top) /\ Pushes(Top) /\ Looping(Top)
    BY <1>3 DEF LeaveFor, IsFunc, Pushes, Looping
  <2> QED
    BY <1>3, <2>1, CloseOtherInv DEF LeaveFor, DepthAfterFor, Reports
<1>4. CASE LeaveArm
  <2>1. open # <<>> /\ ~IsFunc(Top) /\ Pushes(Top) /\ ~Looping(Top)
    BY <1>4 DEF LeaveArm, IsFunc, Pushes, Looping
  <2> QED
    BY <1>4, <2>1, CloseOtherInv DEF LeaveArm, Reports
<1>5. CASE LeaveCatch
  <2>1. open # <<>> /\ ~IsFunc(Top) /\ (Pushes(Top) <=> Top.named) /\ ~Looping(Top)
    BY <1>5 DEF LeaveCatch, IsFunc, Pushes, Looping
  <2> QED
    BY <1>5, <2>1, CloseOtherInv DEF LeaveCatch, CatchPops, Reports
<1> QED
  BY <1>1, <1>2, <1>3, <1>4, <1>5

LEMMA VisitInv ==
  ASSUME CheckWalkInv, Visit \/ CollectCrashes
  PROVE  CheckWalkInv'
<1>1. TypeOK
  BY InvParts
<1>2. Flagged(open, open) /\ Flagged(open, Delivered)
  BY <1>1, UnchangedFlags, DeliveredFlags
<1>3. /\ open' = open \/ open' = Delivered
      /\ UNCHANGED <<scopes, current_realm, expected_ret, loop_depth>>
      /\ report' \in Reports
  BY DEF Visit, Return, AssignResult, BreakOrContinue, Promote, CollectCrashes, Reports
<1> QED
  BY <1>2, <1>3, FlagInv

\* No step breaks the invariant.
LEMMA NextInv == CheckWalkInv /\ [Next]_vars => CheckWalkInv'
<1> SUFFICES ASSUME CheckWalkInv, [Next]_vars PROVE CheckWalkInv'
  OBVIOUS
<1>1. CASE Enter
  BY <1>1, EnterFuncInv, EnterMethodInv, EnterBlockInv, EnterOtherInv DEF Enter
<1>2. CASE Leave
  BY <1>2, LeaveFuncInv, LeaveOtherInv DEF Leave
<1>3. CASE Visit \/ CollectCrashes
  BY <1>3, VisitInv
<1>4. CASE UNCHANGED vars
  <2>1. TypeOK /\ report \in Reports
    BY InvParts DEF TypeOK
  <2> QED
    BY <1>4, <2>1, UnchangedFlags, FlagInv DEF vars
<1> QED
  BY <1>1, <1>2, <1>3, <1>4 DEF Next

----------------------------------------------------------------------------
(* Theorems                                                                *)

\* The invariant holds of every walk.
THEOREM CheckWalkSafe == Spec => []CheckWalkInv
<1>1. Init => CheckWalkInv
  BY InitInv
<1>2. CheckWalkInv /\ [Next]_vars => CheckWalkInv'
  BY NextInv
<1> QED
  BY <1>1, <1>2, PTL DEF Spec

\* The checker's state is always of its type.
THEOREM CheckWalkTypeOK == Spec => []TypeOK
<1>1. CheckWalkInv => TypeOK
  BY DEF CheckWalkInv
<1> QED
  BY <1>1, CheckWalkSafe, PTL

\* current_realm is the realm of the innermost function being checked.
THEOREM CheckWalkRealm == Spec => []RealmTracked
<1>1. CheckWalkInv => RealmTracked
  BY DEF CheckWalkInv
<1> QED
  BY <1>1, CheckWalkSafe, PTL

\* A restricted realm confines the functions in it at any depth.
THEOREM CheckWalkConfined == Spec => []Confined
<1>1. CheckWalkInv => Confined
  BY DEF CheckWalkInv
<1> QED
  BY <1>1, CheckWalkSafe, PTL

\* Every scope pushed is popped by the construct that pushed it.
THEOREM CheckWalkScopes == Spec => []ScopesMatched
<1>1. CheckWalkInv => ScopesMatched
  BY DEF CheckWalkInv
<1> QED
  BY <1>1, CheckWalkSafe, PTL

\* loop_depth counts the open loops.
THEOREM CheckWalkLoops == Spec => []LoopsCounted
<1>1. CheckWalkInv => LoopsCounted
  BY DEF CheckWalkInv
<1> QED
  BY <1>1, CheckWalkSafe, PTL

\* expected_ret is the innermost function's return type or NULL.
THEOREM CheckWalkRet == Spec => []ExpectedRet
<1>1. CheckWalkInv => ExpectedRet
  BY DEF CheckWalkInv
<1> QED
  BY <1>1, CheckWalkSafe, PTL

\* A stack with a function has an innermost one.
LEMMA SomeInnermost ==
  ASSUME CheckWalkInv, NEW i \in 1 .. Len(open), IsFunc(open[i])
  PROVE  \E j \in 1 .. Len(open) : Innermost(open, j)
<1>1. Len(open) \in 0 .. Len(open)
  BY DEF CheckWalkInv, TypeOK
<1>2. PICK j \in 1 .. Len(open) : IsFunc(open[j]) /\ \A k \in j + 1 .. Len(open) : ~IsFunc(open[k])
  BY <1>1 DEF CheckWalkInv, InnermostExists
<1> QED
  BY <1>2 DEF Innermost

\* A promote is refused exactly inside a stack function.
THEOREM CheckWalkPromote == Spec => PromoteInStack
<1>1. ASSUME CheckWalkInv, Promote
      PROVE  report' = "promote" <=>
               \E j \in 1 .. Len(open) : Innermost(open, j) /\ open[j].realm = "STACK"
  <2>1. report' = "promote" <=> current_realm = "STACK"
    BY <1>1 DEF Promote, PromoteRefused
  <2>2. \A j \in 1 .. Len(open) : Innermost(open, j) => current_realm = open[j].realm
    BY <1>1 DEF CheckWalkInv, RealmTracked, RealmAt, Innermost
  <2>3. ASSUME current_realm = "STACK"
        PROVE  \E j \in 1 .. Len(open) : Innermost(open, j) /\ open[j].realm = "STACK"
    <3>1. PICK i \in 1 .. Len(open) : IsFunc(open[i])
      BY <1>1, <2>3 DEF CheckWalkInv, RealmTracked, RealmAt
    <3>2. PICK j \in 1 .. Len(open) : Innermost(open, j)
      BY <1>1, <3>1, SomeInnermost
    <3> QED
      BY <2>2, <2>3, <3>2
  <2> QED
    BY <2>1, <2>2, <2>3
<1>2. CheckWalkInv => [Promote =>
        (report' = "promote" <=>
           \E j \in 1 .. Len(open) : Innermost(open, j) /\ open[j].realm = "STACK")]_vars
  BY <1>1
<1> QED
  BY <1>2, CheckWalkSafe, PTL DEF PromoteInStack

\* A return is reported exactly when it does not fit the innermost function
\* and no nested function has been checked before it.
THEOREM CheckWalkReturn == Spec => ReturnBlamed
<1> DEFINE Blamed(value) ==
      \E j \in 1 .. Len(open) :
        /\ Innermost(open, j)
        /\ ~open[j].cut
        /\ value \notin {NoType, Unresolved, open[j].ret}
        /\ open[j].ret # Unresolved
<1>1. ASSUME CheckWalkInv, NEW value \in Values, Return(value)
      PROVE  report' = "mismatch" <=> Blamed(value)
  <2>1. report' = "mismatch" <=> Mismatch(value)
    BY <1>1 DEF Return
  <2>2. \A j \in 1 .. Len(open) : Innermost(open, j) =>
          expected_ret = IF open[j].cut THEN NoType ELSE open[j].ret
    BY <1>1 DEF CheckWalkInv, ExpectedRet
  <2>3. ASSUME Mismatch(value)
        PROVE  Blamed(value)
    <3>1. expected_ret # NoType /\ expected_ret # Unresolved /\ expected_ret # value
          /\ value # NoType /\ value # Unresolved
      BY <2>3 DEF Mismatch
    <3>2. PICK i \in 1 .. Len(open) : IsFunc(open[i])
      BY <1>1, <3>1 DEF CheckWalkInv, ExpectedRet
    <3>3. PICK j \in 1 .. Len(open) : Innermost(open, j)
      BY <1>1, <3>2, SomeInnermost
    <3>4. expected_ret = open[j].ret /\ ~open[j].cut
      BY <2>2, <3>1, <3>3
    <3> QED
      BY <3>1, <3>3, <3>4
  <2>4. ASSUME NEW j \in 1 .. Len(open), Innermost(open, j), ~open[j].cut,
               value \notin {NoType, Unresolved, open[j].ret}, open[j].ret # Unresolved
        PROVE  Mismatch(value)
    <3>1. open[j] \in Frame
      BY <1>1 DEF CheckWalkInv, TypeOK
    <3>2. open[j].ret \in TypeOrNot
      BY <3>1 DEF Frame
    <3>3. open[j].ret # NoType
      BY <3>2, CheckWalkAssumption DEF TypeOrNot, Unresolved, NoType
    <3>4. expected_ret = open[j].ret
      BY <2>2, <2>4
    <3> QED
      BY <2>4, <3>3, <3>4 DEF Mismatch
  <2> QED
    BY <2>1, <2>3, <2>4
<1>2. CheckWalkInv => [\A value \in Values : Return(value) =>
        (report' = "mismatch" <=> Blamed(value))]_vars
  BY <1>1
<1> QED
  BY <1>2, CheckWalkSafe, PTL DEF ReturnBlamed
=============================================================================
