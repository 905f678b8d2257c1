----------------------------- MODULE LexerProof -----------------------------
(***************************************************************************)
(* For every text and every set of keywords: tokens are as long as they    *)
(* can be, only blanks and comments lie between them, their positions are  *)
(* right, and the lexer leaves the text in one way only.                   *)
(***************************************************************************)
EXTENDS Lexer, FiniteSetTheorems, SequenceTheorems, WellFoundedInduction, TLAPS

----------------------------------------------------------------------------
(* Numbers.                                                                *)

\* A set of numbers that is not empty has a least member; a bounded one, a greatest.
LEMMA Least ==
  ASSUME NEW T \in SUBSET Nat, T # {}
  PROVE  \E k \in T : \A j \in T : k <= j
<1> DEFINE R == {ss \in Nat \X Nat : ss[1] < ss[2]}
<1>1. IsWellFoundedOn(R, Nat)
  BY NatLessThanWellFounded DEF OpToRel
<1>2. ASSUME NEW k \in Nat, NEW j \in Nat, <<j, k>> \notin R
      PROVE  k <= j
  <2>1. <<j, k>> \in Nat \X Nat /\ <<j, k>>[1] = j /\ <<j, k>>[2] = k
    OBVIOUS
  <2> QED
    BY <1>2, <2>1
<1> HIDE DEF R
<1>3. \E k \in T : \A j \in T : <<j, k>> \notin R
  BY <1>1, WFMin
<1> QED
  BY <1>2, <1>3

LEMMA Greatest ==
  ASSUME NEW n \in Nat, NEW T \in SUBSET (1 .. n), T # {}
  PROVE  \E k \in T : \A j \in T : j <= k
<1> DEFINE U == {i \in Nat : \E k \in T : i = n - k}
<1>1. \A k \in T : k \in 1 .. n /\ n - k \in Nat /\ n - k \in U
  OBVIOUS
<1>2. U # {}
  BY <1>1
<1>3. \E u \in U : \A y \in U : u <= y
  <2> HIDE DEF U
  <2> QED
    BY <1>2, Least DEF U
<1>4. PICK k \in T : \A y \in U : n - k <= y
  BY <1>3
<1>5. \A j \in T : n - k <= n - j
  BY <1>1, <1>4
<1> QED
  BY <1>1, <1>5

----------------------------------------------------------------------------
(* Numbers and finite sets of them                                         *)

LEMMA MinIs ==
  ASSUME NEW S \in SUBSET Nat, S # {}
  PROVE  Min(S) \in S /\ \A k \in S : Min(S) <= k
BY Least DEF Min

LEMMA MaxIs ==
  ASSUME NEW n \in Nat, NEW S \in SUBSET (0 .. n), S # {}
  PROVE  Max(S) \in S /\ \A k \in S : k <= Max(S)
<1>1. \E m \in S : \A k \in S : k <= m
  <2>1. CASE S \subseteq {0}
    <3>1. 0 \in S /\ \A k \in S : k = 0
      BY <2>1
    <3> QED
      BY <3>1
  <2>2. CASE ~(S \subseteq {0})
    <3> DEFINE T == S \cap (1 .. n)
    <3>1. T # {} /\ T \in SUBSET (1 .. n)
      BY <2>2
    <3>2. PICK m \in T : \A k \in T : k <= m
      <4> HIDE DEF T
      <4> QED
        BY <3>1, Greatest
    <3>3. ASSUME NEW k \in S
          PROVE  k <= m
      <4>1. k = 0 \/ k \in T
        OBVIOUS
      <4> QED
        BY <3>2, <4>1
    <3> QED
      BY <3>2, <3>3
  <2> QED
    BY <2>1, <2>2
<1>2. PICK m \in S : \A k \in S : k <= m
  BY <1>1
<1>3. m >= m /\ \A k \in S : m >= k
  BY <1>2
<1> QED
  BY <1>3 DEF Max

\* A function that follows next from place to place up to where it stays there
\* exists: what skip and closing are defined by.
LEMMA FollowExists ==
  ASSUME NEW n \in Nat, NEW next \in [Nat -> Nat],
         \A k \in Nat : next[k] = k \/ (k < n /\ k < next[k])
  PROVE  \E f \in [Nat -> Nat] : \A k \in Nat : f[k] = IF next[k] = k THEN k ELSE f[next[k]]
<1> DEFINE From(m, f) == \A k \in Nat : k >= m => f[k] = IF next[k] = k THEN k ELSE f[next[k]]
           S == {m \in Nat : \E f \in [Nat -> Nat] : From(m, f)}
<1>1. n \in S
  <2>1. [k \in Nat |-> k] \in [Nat -> Nat] /\ From(n, [k \in Nat |-> k])
    OBVIOUS
  <2> QED
    BY <2>1
<1>2. PICK m \in S : \A k \in S : m <= k
  <2>1. S \in SUBSET Nat /\ S # {}
    BY <1>1
  <2> HIDE DEF S
  <2> QED
    BY <2>1, Least
<1>3. PICK f \in [Nat -> Nat] : From(m, f)
  BY <1>2
<1>4. CASE m = 0
  BY <1>3, <1>4
<1>5. CASE m # 0
  <2> DEFINE p == m - 1
             g == [f EXCEPT ![p] = IF next[p] = p THEN p ELSE f[next[p]]]
  <2>1. p \in Nat /\ p < m /\ \A k \in Nat : k >= p => k = p \/ k >= m
    BY <1>2, <1>5
  <2>2. g \in [Nat -> Nat]
    BY <2>1
  <2>3. ASSUME NEW k \in Nat, k >= p
        PROVE  g[k] = IF next[k] = k THEN k ELSE g[next[k]]
    <3>1. next[k] = k \/ next[k] > p
      BY <2>1, <2>3
    <3>2. next[k] > p => g[next[k]] = f[next[k]]
      BY <2>1, <2>3
    <3>3. CASE k = p
      BY <2>1, <3>1, <3>2, <3>3
    <3>4. CASE k # p
      <4>1. k >= m /\ g[k] = f[k]
        BY <2>1, <2>3, <3>4
      <4> QED
        BY <1>3, <3>1, <3>2, <4>1
    <3> QED
      BY <3>3, <3>4
  <2>4. p \in S
    BY <2>1, <2>2, <2>3
  <2>5. m <= p
    <3> HIDE DEF S, p
    <3> QED
      BY <1>2, <2>4
  <2> QED
    BY <2>1, <2>5
<1> QED
  BY <1>4, <1>5

----------------------------------------------------------------------------
(* Texts                                                                   *)

Chars == UNION {a.chars : a \in Alphabets}
TextOK == text \in Seq(Chars)

LEMMA NoNUL == NUL \notin Chars
BY LexerAssumption DEF Chars

LEMMA AtIs ==
  ASSUME TextOK
  PROVE  /\ Len(text) \in Nat /\ End = Len(text) + 1
         /\ \A i \in Nat \ {0} : At(i) = NUL <=> i >= End
         /\ \A i \in 1 .. Len(text) : At(i) = text[i] /\ i < End /\ At(i) # NUL /\ At(i) \in Chars
<1>1. Len(text) \in Nat /\ End = Len(text) + 1
  BY DEF TextOK, End
<1>2. \A i \in 1 .. Len(text) : text[i] \in Chars /\ text[i] # NUL
  BY NoNUL DEF TextOK
<1>3. \A i \in 1 .. Len(text) : At(i) = text[i] /\ i < End
  BY <1>1 DEF At
<1>4. \A i \in Nat \ {0} : i >= End => At(i) = NUL
  BY <1>1 DEF At
<1>5. \A i \in Nat \ {0} : i >= End \/ i \in 1 .. Len(text)
  BY <1>1
<1> QED
  BY <1>1, <1>2, <1>3, <1>4, <1>5

LEMMA RunEndIs ==
  ASSUME TextOK, NEW i \in 1 .. End, NEW chars, NUL \notin chars
  PROVE  /\ RunEnd(i, chars) \in i .. End
         /\ At(RunEnd(i, chars)) \notin chars
         /\ \A k \in i .. RunEnd(i, chars) - 1 : At(k) \in chars
<1>1. End \in Nat /\ At(End) = NUL
  BY AtIs
<1> DEFINE S == {j \in i .. End : At(j) \notin chars}
<1>2. S \in SUBSET Nat /\ End \in S
  BY <1>1
<1>3. PICK j \in S : \A k \in S : j <= k
  <2> HIDE DEF S
  <2> QED
    BY <1>2, Least
<1>4. \A k \in i .. j - 1 : k \in i .. End /\ ~(j <= k)
  BY <1>1, <1>3
<1>5. \A k \in i .. j - 1 : At(k) \in chars
  BY <1>3, <1>4
<1> QED
  BY <1>3, <1>5 DEF RunEnd

----------------------------------------------------------------------------
(* What is skipped                                                         *)

\* One round of skip_whitespace_and_comments.
Leap(k) ==
  IF At(k) \in Blanks THEN k + 1
  ELSE IF ThreeDashes(k) THEN CommentEnd(k + 3)
  ELSE IF IsDash(k) /\ IsDash(k + 1) THEN LineEnd(k + 2)
  ELSE k

LEMMA LeapThreeDashes ==
  ASSUME TextOK, NEW k \in Nat, ThreeDashes(k)
  PROVE  /\ CommentEnd(k + 3) \in k + 3 .. End
         /\ IsComment(k, CommentEnd(k + 3))
<1>1. \A i \in Nat \ {0} : At(i) = "-" => i < End
  BY AtIs DEF NUL
<1>2. End \in Nat /\ k + 3 <= End
  BY AtIs, <1>1 DEF ThreeDashes, IsDash
<1> DEFINE ends == {j \in k + 3 .. End : ThreeDashes(j)}
<1>3. CASE ends = {}
  <2>1. CommentEnd(k + 3) = End
    BY <1>3 DEF CommentEnd
  <2>2. IsComment(k, End)
    BY <1>3 DEF IsComment, ThreeDashes
  <2> QED
    BY <1>2, <2>1, <2>2
<1>4. CASE ends # {}
  <2> DEFINE e == Min(ends)
  <2>1. e \in ends /\ \A j \in ends : e <= j
    <3>1. ends \in SUBSET Nat
      BY <1>2
    <3> HIDE DEF ends
    <3> QED
      BY <1>4, <3>1, MinIs
  <2>2. CommentEnd(k + 3) = e + 3
    BY <1>4 DEF CommentEnd
  <2> HIDE DEF e
  <2>3. e \in k + 3 .. End /\ ThreeDashes(e)
    BY <2>1
  <2>4. e + 3 <= End
    BY <1>1, <1>2, <2>3 DEF ThreeDashes, IsDash
  <2>5. \A j \in k + 3 .. e - 1 : ~ThreeDashes(j)
    BY <1>2, <2>1, <2>3
  <2>6. IsComment(k, e + 3)
    <3>1. e + 3 - 3 = e /\ e + 3 - 4 = e - 1 /\ e + 3 >= k + 6
      BY <2>3
    <3> QED
      BY <2>3, <2>5, <3>1 DEF IsComment, ThreeDashes
  <2> QED
    BY <1>2, <2>2, <2>3, <2>4, <2>6
<1> QED
  BY <1>3, <1>4

LEMMA LeapTwoDashes ==
  ASSUME TextOK, NEW k \in Nat, IsDash(k), IsDash(k + 1), ~IsDash(k + 2)
  PROVE  /\ LineEnd(k + 2) \in k + 2 .. End
         /\ IsComment(k, LineEnd(k + 2))
<1>1. \A i \in Nat \ {0} : At(i) = "-" => i < End
  BY AtIs DEF NUL
<1>2. End \in Nat /\ k + 2 <= End /\ At(End) = NUL
  BY AtIs, <1>1 DEF IsDash
<1> DEFINE ends == {j \in k + 2 .. End : At(j) \in {Newline, NUL}}
           e == Min(ends)
<1>3. ends \in SUBSET Nat /\ End \in ends
  BY <1>2
<1>4. e \in ends /\ \A j \in ends : e <= j
  <2> HIDE DEF ends
  <2> QED
    BY <1>3, MinIs
<1>5. LineEnd(k + 2) = e
  BY DEF LineEnd
<1> HIDE DEF e
<1>6. e \in k + 2 .. End /\ At(e) \in {Newline, NUL}
  BY <1>4
<1>7. \A j \in k + 2 .. e - 1 : At(j) # Newline
  BY <1>2, <1>4, <1>6
<1>8. \A j \in k .. e - 1 : j = k \/ j = k + 1 \/ j \in k + 2 .. e - 1
  BY <1>6
<1>9. Newlines(k, e) = {}
  BY <1>7, <1>8 DEF Newlines, IsDash, Newline
<1> QED
  BY <1>5, <1>6, <1>9 DEF IsComment

LEMMA LeapIs ==
  ASSUME TextOK, NEW k \in Nat
  PROVE  \/ Leap(k) = k
         \/ /\ k < End /\ Leap(k) \in k + 1 .. End
            /\ \/ At(k) \in Blanks /\ Leap(k) = k + 1
               \/ Leap(k) >= k + 2 /\ IsComment(k, Leap(k))
<1>1. End \in Nat /\ \A i \in Nat \ {0} : At(i) = NUL <=> i >= End
  BY AtIs
<1>2. CASE At(k) \in Blanks
  <2>1. At(k) # NUL
    BY <1>2 DEF Blanks, NUL, Newline
  <2>2. k < End
    <3>1. End >= 1
      BY AtIs
    <3> QED
      BY <1>1, <2>1, <3>1
  <2> QED
    BY <1>1, <1>2, <2>2 DEF Leap
<1>3. CASE At(k) \notin Blanks /\ ThreeDashes(k)
  BY <1>1, <1>3, LeapThreeDashes DEF Leap
<1>4. CASE At(k) \notin Blanks /\ ~ThreeDashes(k) /\ IsDash(k) /\ IsDash(k + 1)
  BY <1>1, <1>4, LeapTwoDashes DEF Leap, ThreeDashes
<1> QED
  BY <1>2, <1>3, <1>4 DEF Leap

LEMMA SkipFollows ==
  ASSUME TextOK
  PROVE  \E f : /\ \A k \in Nat : f[k] = IF Leap(k) = k THEN k ELSE f[Leap(k)]
                /\ \A i \in Nat : Skip(i) = f[i]
<1> DEFINE next == [k \in Nat |-> Leap(k)]
           Round(f, k) ==
             IF At(k) \in Blanks THEN f[k + 1]
             ELSE IF ThreeDashes(k) THEN f[CommentEnd(k + 3)]
             ELSE IF IsDash(k) /\ IsDash(k + 1) THEN f[LineEnd(k + 2)]
             ELSE k
           skip == CHOOSE f : f = [k \in Nat |-> Round(f, k)]
<1>1. End \in Nat
  BY AtIs
<1>2. \A k \in Nat : Leap(k) \in Nat /\ (Leap(k) = k \/ (k < End /\ k < Leap(k)))
  BY <1>1, LeapIs
<1>3. /\ next \in [Nat -> Nat]
      /\ \A k \in Nat : next[k] = k \/ (k < End /\ k < next[k])
  BY <1>2
<1>4. PICK f \in [Nat -> Nat] : \A k \in Nat : f[k] = IF next[k] = k THEN k ELSE f[next[k]]
  <2> HIDE DEF next
  <2> QED
    BY <1>1, <1>3, FollowExists
<1>5. \A k \in Nat : f[k] = IF Leap(k) = k THEN k ELSE f[Leap(k)]
  BY <1>4
<1> HIDE DEF next
<1>6. ASSUME NEW g, NEW k \in Nat
      PROVE  Round(g, k) = IF Leap(k) = k THEN k ELSE g[Leap(k)]
  <2>1. CASE At(k) \in Blanks
    BY <2>1 DEF Leap
  <2>2. CASE At(k) \notin Blanks /\ ThreeDashes(k)
    <3>1. CommentEnd(k + 3) \in k + 3 .. End
      BY <2>2, LeapThreeDashes
    <3> QED
      BY <1>1, <2>2, <3>1 DEF Leap
  <2>3. CASE At(k) \notin Blanks /\ ~ThreeDashes(k) /\ IsDash(k) /\ IsDash(k + 1)
    <3>1. LineEnd(k + 2) \in k + 2 .. End
      BY <2>3, LeapTwoDashes DEF ThreeDashes
    <3> QED
      BY <1>1, <2>3, <3>1 DEF Leap
  <2>4. CASE At(k) \notin Blanks /\ ~ThreeDashes(k) /\ ~(IsDash(k) /\ IsDash(k + 1))
    BY <2>4 DEF Leap
  <2> QED
    BY <2>1, <2>2, <2>3, <2>4
<1>7. \A i \in Nat : Skip(i) = skip[i]
  BY DEF Skip
<1> HIDE DEF Round
<1>8. f = [k \in Nat |-> Round(f, k)]
  BY <1>5, <1>6
<1>9. skip = [k \in Nat |-> Round(skip, k)]
  BY <1>8
<1> HIDE DEF skip
<1>10. ASSUME NEW k \in Nat
       PROVE  skip[k] = Round(skip, k)
  BY <1>9, Zenon
<1>11. \A k \in Nat : skip[k] = IF Leap(k) = k THEN k ELSE skip[Leap(k)]
  BY <1>6, <1>10
<1> QED
  BY <1>7, <1>11

LEMMA GapExtends ==
  ASSUME TextOK, NEW i \in 1 .. End, NEW k \in 1 .. End, NEW j \in 1 .. End,
         i < k, Gap(k, j), k <= j,
         (At(i) \in Blanks /\ k = i + 1) \/ (k >= i + 2 /\ IsComment(i, k))
  PROVE  Gap(i, j)
<1>1. End \in Nat
  BY AtIs
<1>2. PICK cuts \in SUBSET (k .. j) :
        /\ {k, j} \subseteq cuts
        /\ \A c \in cuts \ {j} :
             \/ At(c) \in Blanks /\ c + 1 \in cuts
             \/ \E e \in cuts : e >= c + 2 /\ IsComment(c, e)
  BY DEF Gap
<1> DEFINE more == cuts \cup {i}
<1>3. more \in SUBSET (i .. j) /\ {i, j} \subseteq more
  BY <1>1, <1>2
<1>4. ASSUME NEW c \in more \ {j}
      PROVE  \/ At(c) \in Blanks /\ c + 1 \in more
             \/ \E e \in more : e >= c + 2 /\ IsComment(c, e)
  <2>1. CASE c = i
    BY <1>2, <2>1
  <2>2. CASE c # i
    <3>1. c \in cuts \ {j}
      BY <2>2
    <3> QED
      BY <1>2, <3>1
  <2> QED
    BY <2>1, <2>2
<1> QED
  BY <1>3, <1>4 DEF Gap

LEMMA SkipIs ==
  ASSUME TextOK, NEW i \in 1 .. End
  PROVE  Skip(i) \in i .. End /\ Gap(i, Skip(i))
<1>1. End \in Nat
  BY AtIs
<1>2. PICK f : /\ \A k \in Nat : f[k] = IF Leap(k) = k THEN k ELSE f[Leap(k)]
               /\ \A k \in Nat : Skip(k) = f[k]
  BY SkipFollows
<1> DEFINE Good(k) == f[k] \in k .. End /\ Gap(k, f[k])
           Bad == {k \in 1 .. End : ~Good(k)}
<1>3. SUFFICES ASSUME Bad # {} PROVE FALSE
  BY <1>2
<1>4. PICK k \in Bad : \A j \in Bad : j <= k
  <2>1. Bad \in SUBSET (1 .. End)
    OBVIOUS
  <2> HIDE DEF Bad
  <2> QED
    BY <1>1, <1>3, <2>1, Greatest
<1>5. k \in 1 .. End /\ ~Good(k) /\ \A j \in k + 1 .. End : Good(j)
  <2>1. \A j \in k + 1 .. End : j \in 1 .. End /\ ~(j <= k)
    BY <1>1
  <2> QED
    BY <1>4, <2>1
<1>6. CASE Leap(k) = k
  <2>1. f[k] = k
    BY <1>2, <1>5, <1>6
  <2>2. {k} \in SUBSET (k .. k) /\ {k, k} \subseteq {k} /\ {k} \ {k} = {}
    BY <1>5
  <2>3. Gap(k, k)
    BY <2>2 DEF Gap
  <2> QED
    BY <1>1, <1>5, <2>1, <2>3
<1>7. CASE Leap(k) # k
  <2> DEFINE j == Leap(k)
  <2>1. /\ j \in k + 1 .. End
        /\ (At(k) \in Blanks /\ j = k + 1) \/ (j >= k + 2 /\ IsComment(k, j))
    BY <1>5, <1>7, LeapIs
  <2>2. f[k] = f[j]
    BY <1>2, <1>5, <1>7
  <2> HIDE DEF j
  <2>3. f[j] \in j .. End /\ Gap(j, f[j])
    BY <1>5, <2>1
  <2>4. Gap(k, f[j])
    BY <1>1, <1>5, <2>1, <2>3, GapExtends
  <2> QED
    BY <1>1, <1>5, <2>1, <2>2, <2>3, <2>4
<1> QED
  BY <1>6, <1>7

----------------------------------------------------------------------------
(* Strings and characters                                                  *)

\* One round of the loop of string_lit.
Bite(k) ==
  IF k > End \/ At(k) \in {Quote, NUL} THEN k
  ELSE IF At(k) = Backslash THEN k + 2 ELSE k + 1

LEMMA BiteIs ==
  ASSUME TextOK, NEW k \in 1 .. End + 1
  PROVE  \/ Bite(k) = k /\ (k > End \/ At(k) \in {Quote, NUL})
         \/ k < End /\ Bite(k) = k + 1
         \/ k < End /\ Bite(k) = k + 2 /\ At(k) = Backslash
BY AtIs DEF Bite

LEMMA ClosingFollows ==
  ASSUME TextOK
  PROVE  \E f : /\ \A k \in 1 .. End + 1 : f[k] = IF Bite(k) = k THEN k ELSE f[Bite(k)]
                /\ \A i \in 1 .. End + 1 : Closing(i) = f[i]
<1> DEFINE next == [k \in Nat |-> IF k \in 1 .. End + 1 THEN Bite(k) ELSE k]
           Round(f, k) ==
             IF k > End \/ At(k) \in {Quote, NUL} THEN k
             ELSE IF At(k) = Backslash THEN f[k + 2] ELSE f[k + 1]
           closing == CHOOSE f : f = [k \in 1 .. End + 1 |-> Round(f, k)]
<1>1. End \in Nat
  BY AtIs
<1>2. /\ next \in [Nat -> Nat]
      /\ \A k \in Nat : next[k] = k \/ (k < End /\ k < next[k])
  BY <1>1, BiteIs
<1>3. PICK f \in [Nat -> Nat] : \A k \in Nat : f[k] = IF next[k] = k THEN k ELSE f[next[k]]
  <2> HIDE DEF next
  <2> QED
    BY <1>1, <1>2, FollowExists
<1>4. \A k \in 1 .. End + 1 :
        /\ Bite(k) \in 1 .. End + 1
        /\ f[k] = IF Bite(k) = k THEN k ELSE f[Bite(k)]
  BY <1>1, <1>3, BiteIs
<1> HIDE DEF next
<1>5. ASSUME NEW g, NEW k \in 1 .. End + 1
      PROVE  Round(g, k) = IF Bite(k) = k THEN k ELSE g[Bite(k)]
  BY <1>1 DEF Bite
<1>6. \A i \in 1 .. End + 1 : Closing(i) = closing[i]
  BY DEF Closing
<1> HIDE DEF Round
<1>7. \E h : h = [k \in 1 .. End + 1 |-> Round(h, k)]
  <2> DEFINE h == [k \in 1 .. End + 1 |-> f[k]]
  <2>1. \A k \in 1 .. End + 1 : h[k] = f[k] /\ h[Bite(k)] = f[Bite(k)]
    BY <1>4
  <2>2. \A k \in 1 .. End + 1 : Round(h, k) = f[k]
    <3> HIDE DEF h
    <3> QED
      BY <1>4, <1>5, <2>1
  <2>3. h = [k \in 1 .. End + 1 |-> Round(h, k)]
    BY <2>2
  <2> QED
    BY <2>3
<1>8. closing = [k \in 1 .. End + 1 |-> Round(closing, k)]
  BY <1>7
<1> HIDE DEF closing
<1>9. ASSUME NEW k \in 1 .. End + 1
      PROVE  closing[k] = Round(closing, k)
  BY <1>8, Zenon
<1>10. \A k \in 1 .. End + 1 : closing[k] = IF Bite(k) = k THEN k ELSE closing[Bite(k)]
  BY <1>5, <1>9
<1> QED
  BY <1>6, <1>10

\* A string ends at a quote or at the NUL, unless it steps over the NUL with the
\* backslash that the text ends in.
LEMMA ClosingIs ==
  ASSUME TextOK, NEW i \in 1 .. End
  PROVE  \/ Closing(i) \in i .. End /\ At(Closing(i)) \in {Quote, NUL}
         \/ Closing(i) > End /\ Len(text) > 0 /\ At(Len(text)) = Backslash
<1>1. End \in Nat /\ End = Len(text) + 1
  BY AtIs
<1>2. PICK f : /\ \A k \in 1 .. End + 1 : f[k] = IF Bite(k) = k THEN k ELSE f[Bite(k)]
               /\ \A k \in 1 .. End + 1 : Closing(k) = f[k]
  BY ClosingFollows
<1> DEFINE Good(k) == \/ f[k] \in k .. End /\ At(f[k]) \in {Quote, NUL}
                      \/ f[k] > End /\ Len(text) > 0 /\ At(Len(text)) = Backslash
           Bad == {k \in 1 .. End : ~Good(k)}
<1>3. SUFFICES ASSUME Bad # {} PROVE FALSE
  BY <1>1, <1>2
<1>4. PICK k \in Bad : \A j \in Bad : j <= k
  <2>1. Bad \in SUBSET (1 .. End)
    OBVIOUS
  <2> HIDE DEF Bad
  <2> QED
    BY <1>1, <1>3, <2>1, Greatest
<1>5. k \in 1 .. End /\ ~Good(k) /\ \A j \in k + 1 .. End : Good(j)
  <2>1. \A j \in k + 1 .. End : j \in 1 .. End /\ ~(j <= k)
    BY <1>1
  <2> QED
    BY <1>4, <2>1
<1>6. k \in 1 .. End + 1
  BY <1>1, <1>5
<1>7. CASE Bite(k) = k
  BY <1>1, <1>2, <1>5, <1>6, <1>7, BiteIs
<1>8. CASE Bite(k) \in k + 1 .. End
  <2>1. f[k] = f[Bite(k)] /\ Good(Bite(k))
    BY <1>1, <1>2, <1>5, <1>6, <1>8
  <2> QED
    BY <1>1, <1>5, <1>8, <2>1
<1>9. CASE Bite(k) = End + 1
  <2>1. At(k) = Backslash /\ k = Len(text)
    BY <1>1, <1>5, <1>6, <1>9, BiteIs
  <2>2. f[End + 1] = End + 1 /\ f[k] = f[End + 1]
    BY <1>1, <1>2, <1>5, <1>6, <1>9, BiteIs
  <2> QED
    BY <1>1, <1>5, <2>1, <2>2
<1> QED
  BY <1>1, <1>5, <1>6, <1>7, <1>8, <1>9, BiteIs

LEMMA DecodedIs ==
  ASSUME TextOK, NEW i \in 1 .. End
  PROVE  /\ Decoded(i) \in Nat /\ Decoded(i) > i
         /\ Decoded(i) > End => i = End \/ At(Len(text)) = Backslash
<1>1. End \in Nat /\ End = Len(text) + 1 /\ \A k \in Nat \ {0} : At(k) = NUL <=> k >= End
  BY AtIs
<1>2. CASE At(i) # Backslash
  BY <1>1, <1>2 DEF Decoded
<1>3. CASE At(i) = Backslash
  <2>1. i \in 1 .. Len(text)
    BY <1>1, <1>3 DEF Backslash, NUL
  <2>2. CASE At(i + 1) # "u"
    BY <1>1, <1>3, <2>1, <2>2 DEF Decoded
  <2>3. CASE At(i + 1) = "u"
    <3>1. i + 2 \in 1 .. End
      BY <1>1, <2>1, <2>3 DEF NUL
    <3>2. RunEnd(i + 2, HexDigits) \in i + 2 .. End
      BY <3>1, RunEndIs DEF HexDigits, Digits, NUL
    <3> DEFINE r == RunEnd(i + 2, HexDigits)
    <3> HIDE DEF r
    <3>3. {i + 6, r} \in SUBSET Nat /\ {i + 6, r} # {}
      BY <1>1, <2>1, <3>2 DEF r
    <3>4. Min({i + 6, r}) \in {i + 6, r} /\ Min({i + 6, r}) <= r
      BY <3>3, MinIs
    <3>5. Decoded(i) = Min({i + 6, r})
      BY <1>3, <2>3 DEF Decoded, r
    <3> QED
      BY <1>1, <2>1, <3>2, <3>4, <3>5 DEF r
  <2> QED
    BY <2>2, <2>3
<1> QED
  BY <1>2, <1>3

----------------------------------------------------------------------------
(* What the words of the lexical grammar are, at a place of the text       *)

LEMMA LexemeIs ==
  ASSUME TextOK, NEW i \in 1 .. End, NEW j \in i .. End
  PROVE  /\ Lexeme(i, j) \in Seq(Chars) /\ Len(Lexeme(i, j)) = j - i
         /\ \A k \in 1 .. j - i : Lexeme(i, j)[k] = At(i + k - 1)
<1>1. End \in Nat /\ End = Len(text) + 1 /\ \A k \in 1 .. Len(text) : At(k) = text[k]
  BY AtIs
<1>2. text \in Seq(Chars) /\ Len(text) \in Nat
  BY AtIs DEF TextOK
<1>3. /\ SubSeq(text, i, j - 1) \in Seq(Chars)
      /\ Len(SubSeq(text, i, j - 1)) = j - i
      /\ \A k \in 1 .. j - i : SubSeq(text, i, j - 1)[k] = text[i + k - 1]
  BY <1>1, <1>2
<1>4. \A k \in 1 .. j - i : i + k - 1 \in 1 .. Len(text)
  BY <1>1, <1>2
<1> QED
  BY <1>1, <1>3, <1>4 DEF Lexeme

LEMMA LexemeChars ==
  ASSUME TextOK, NEW i \in 1 .. End, NEW j \in i .. End, NEW C
  PROVE  /\ ToSet(Lexeme(i, j)) \subseteq C <=> \A k \in i .. j - 1 : At(k) \in C
         /\ Lexeme(i, j) # <<>> <=> i < j
<1>1. End \in Nat
  BY AtIs
<1> DEFINE s == Lexeme(i, j)
<1>2. /\ s \in Seq(Chars) /\ Len(s) = j - i
      /\ \A k \in 1 .. j - i : s[k] = At(i + k - 1)
  BY LexemeIs
<1> HIDE DEF s
<1>3. ToSet(s) = {s[k] : k \in 1 .. j - i}
  <2>1. DOMAIN s = 1 .. j - i
    BY <1>2
  <2> QED
    BY <2>1 DEF ToSet
<1>4. ASSUME \A k \in i .. j - 1 : At(k) \in C
      PROVE  ToSet(s) \subseteq C
  <2>1. \A k \in 1 .. j - i : i + k - 1 \in i .. j - 1
    BY <1>1
  <2> QED
    BY <1>2, <1>3, <1>4, <2>1
<1>5. ASSUME ToSet(s) \subseteq C, NEW k \in i .. j - 1
      PROVE  At(k) \in C
  <2> DEFINE m == k - i + 1
  <2>1. m \in 1 .. j - i /\ i + m - 1 = k
    BY <1>1
  <2> QED
    BY <1>2, <1>3, <1>5, <2>1
<1>6. s # <<>> <=> i < j
  BY <1>1, <1>2, EmptySeq
<1> QED
  BY <1>4, <1>5, <1>6 DEF s

\* A part of a lexeme is the lexeme of its place.
LEMMA PartIs ==
  ASSUME TextOK, NEW i \in 1 .. End, NEW j \in i .. End,
         NEW p \in i .. j, NEW q \in p .. j
  PROVE  SubSeq(Lexeme(i, j), p - i + 1, q - i) = Lexeme(p, q)
<1>1. End \in Nat /\ p \in 1 .. End /\ q \in p .. End
  BY AtIs
<1> DEFINE s == Lexeme(i, j)
           t == SubSeq(s, p - i + 1, q - i)
           u == Lexeme(p, q)
<1>2. /\ s \in Seq(Chars) /\ Len(s) = j - i
      /\ \A k \in 1 .. j - i : s[k] = At(i + k - 1)
  BY LexemeIs
<1>3. /\ u \in Seq(Chars) /\ Len(u) = q - p
      /\ \A k \in 1 .. q - p : u[k] = At(p + k - 1)
  BY <1>1, LexemeIs
<1> HIDE DEF s, u
<1>4. /\ t \in Seq(Chars) /\ Len(t) = q - p
      /\ \A k \in 1 .. q - p : t[k] = s[p - i + k]
  BY <1>1, <1>2
<1>5. \A k \in 1 .. q - p : p - i + k \in 1 .. j - i /\ i + (p - i + k) - 1 = p + k - 1
  BY <1>1
<1>6. \A k \in 1 .. q - p : t[k] = u[k]
  BY <1>2, <1>3, <1>4, <1>5
<1> HIDE DEF t
<1>7. t = u
  BY <1>3, <1>4, <1>6, SeqEqual
<1> QED
  BY <1>7 DEF s, t, u

WordAt(i, j) == i < j /\ At(i) \in Letters /\ \A k \in i .. j - 1 : At(k) \in WordChars
IntAt(i, j) ==
  \/ i < j /\ \A k \in i .. j - 1 : At(k) \in Digits
  \/ i + 2 < j /\ At(i) = "0" /\ At(i + 1) = "x" /\ \A k \in i + 2 .. j - 1 : At(k) \in HexDigits
OperatorAt(i, j) ==
  \/ j = i + 1 /\ At(i) \in Singles
  \/ j = i + 2 /\ <<At(i), At(i + 1)>> \in Pairs
  \/ j = i + 3 /\ At(i) = "." /\ At(i + 1) = "." /\ At(i + 2) = "="

LEMMA WordIs ==
  ASSUME TextOK, NEW i \in 1 .. End, NEW j \in i .. End
  PROVE  IsWord(Lexeme(i, j)) <=> WordAt(i, j)
<1>1. End \in Nat
  BY AtIs
<1>2. i < j => Lexeme(i, j)[1] = At(i)
  <2>1. i < j => 1 \in 1 .. j - i /\ i + 1 - 1 = i
    BY <1>1
  <2>2. \A k \in 1 .. j - i : Lexeme(i, j)[k] = At(i + k - 1)
    BY LexemeIs
  <2> QED
    BY <2>1, <2>2
<1> QED
  BY <1>2, LexemeChars DEF IsWord, WordAt

LEMMA IntIs ==
  ASSUME TextOK, NEW i \in 1 .. End, NEW j \in i .. End
  PROVE  IsInt(Lexeme(i, j)) <=> IntAt(i, j)
<1>1. End \in Nat
  BY AtIs
<1> DEFINE s == Lexeme(i, j)
<1>2. Len(s) = j - i /\ \A k \in 1 .. j - i : s[k] = At(i + k - 1)
  BY LexemeIs
<1>3. InClass(s, Digits) <=> i < j /\ \A k \in i .. j - 1 : At(k) \in Digits
  BY LexemeChars DEF InClass
<1>4. CASE i + 2 < j
  <2>1. s[1] = At(i) /\ s[2] = At(i + 1) /\ Len(s) > 2
    BY <1>1, <1>2, <1>4
  <2>2. i + 2 \in i .. j /\ j \in i + 2 .. j /\ (i + 2) - i + 1 = 3 
        /\ i + 2 \in 1 .. End /\ j \in i + 2 .. End
    BY <1>1, <1>4
  <2>3. SubSeq(s, 3, Len(s)) = Lexeme(i + 2, j)
    BY <1>2, <2>2, PartIs
  <2>4. InClass(Lexeme(i + 2, j), HexDigits) <=> \A k \in i + 2 .. j - 1 : At(k) \in HexDigits
    BY <1>4, <2>2, LexemeChars DEF InClass
  <2> QED
    BY <1>3, <1>4, <2>1, <2>3, <2>4 DEF IsInt, IntAt
<1>5. CASE ~(i + 2 < j)
  <2>1. ~(Len(s) > 2)
    BY <1>1, <1>2, <1>5
  <2> QED
    BY <1>3, <1>5, <2>1 DEF IsInt, IntAt
<1> QED
  BY <1>4, <1>5

LEMMA InClassAt ==
  ASSUME TextOK, NEW i \in 1 .. End, NEW j \in i .. End, NEW C,
         NEW p \in i .. j, NEW q \in p .. j
  PROVE  /\ ToSet(SubSeq(Lexeme(i, j), p - i + 1, q - i)) \subseteq C <=>
              \A k \in p .. q - 1 : At(k) \in C
         /\ InClass(SubSeq(Lexeme(i, j), p - i + 1, q - i), C) <=>
              p < q /\ \A k \in p .. q - 1 : At(k) \in C
<1>1. p \in 1 .. End /\ q \in p .. End
  BY AtIs
<1>2. SubSeq(Lexeme(i, j), p - i + 1, q - i) = Lexeme(p, q)
  BY PartIs
<1>3. /\ ToSet(Lexeme(p, q)) \subseteq C <=> \A k \in p .. q - 1 : At(k) \in C
      /\ Lexeme(p, q) # <<>> <=> p < q
  BY <1>1, LexemeChars
<1> QED
  BY <1>2, <1>3, Zenon DEF InClass

\* The places of the dot and of what follows the fraction.
RealAtPlaces(i, j, d, e) ==
  /\ i < d /\ d + 1 < e
  /\ At(d) = "."
  /\ \A k \in i .. d - 1 : At(k) \in Digits
  /\ \A k \in d + 1 .. e - 1 : At(k) \in Digits
  /\ e < j => /\ At(e) = "e"
              /\ \/ \A k \in e + 1 .. j - 1 : At(k) \in Digits
                 \/ /\ e + 1 < j /\ At(e + 1) \in {"+", "-"}
                    /\ \A k \in e + 2 .. j - 1 : At(k) \in Digits
RealAt(i, j) == \E d \in i .. j - 1, e \in i + 1 .. j : RealAtPlaces(i, j, d, e)

IsRealPlaces(s, p, e) ==
  /\ p < e
  /\ s[p] = "."
  /\ InClass(SubSeq(s, 1, p - 1), Digits)
  /\ InClass(SubSeq(s, p + 1, e - 1), Digits)
  /\ e <= Len(s) => /\ s[e] = "e"
                    /\ \/ ToSet(SubSeq(s, e + 1, Len(s))) \subseteq Digits
                       \/ /\ e < Len(s) /\ s[e + 1] \in {"+", "-"}
                          /\ ToSet(SubSeq(s, e + 2, Len(s))) \subseteq Digits

LEMMA RealPlaces ==
  ASSUME TextOK, NEW i \in 1 .. End, NEW j \in i .. End,
         NEW d \in i .. j - 1, NEW e \in i + 1 .. j
  PROVE  IsRealPlaces(Lexeme(i, j), d - i + 1, e - i + 1) <=> RealAtPlaces(i, j, d, e)
<1>1. End \in Nat /\ i \in Nat /\ j \in Nat /\ d \in Nat /\ e \in Nat
  BY AtIs
<1> DEFINE s == Lexeme(i, j)
<1>2. Len(s) = j - i /\ \A k \in 1 .. j - i : s[k] = At(i + k - 1)
  BY LexemeIs
<1>3. s[d - i + 1] = At(d) /\ (e < j => s[e - i + 1] = At(e)) /\ (e + 1 < j => s[(e - i + 1) + 1] = At(e + 1))
  BY <1>1, <1>2
<1>4. /\ d - i + 1 < e - i + 1 <=> d < e
      /\ e - i + 1 <= Len(s) <=> e < j
      /\ e - i + 1 < Len(s) <=> e + 1 < j
  BY <1>1, <1>2
<1>5. InClass(SubSeq(s, 1, (d - i + 1) - 1), Digits) <=> i < d /\ \A k \in i .. d - 1 : At(k) \in Digits
  <2>1. i \in i .. j /\ d \in i .. j /\ i - i + 1 = 1 /\ (d - i + 1) - 1 = d - i
    BY <1>1
  <2> QED
    BY <2>1, InClassAt
<1>6. ASSUME d < e
      PROVE  InClass(SubSeq(s, (d - i + 1) + 1, (e - i + 1) - 1), Digits) <=>
               d + 1 < e /\ \A k \in d + 1 .. e - 1 : At(k) \in Digits
  <2>1. /\ d + 1 \in i .. j /\ e \in d + 1 .. j
        /\ (d + 1) - i + 1 = (d - i + 1) + 1 /\ (e - i + 1) - 1 = e - i
    BY <1>1, <1>6
  <2> QED
    BY <2>1, InClassAt
<1>7. ASSUME e < j
      PROVE  ToSet(SubSeq(s, (e - i + 1) + 1, Len(s))) \subseteq Digits <=>
               \A k \in e + 1 .. j - 1 : At(k) \in Digits
  <2>1. e + 1 \in i .. j /\ j \in e + 1 .. j /\ (e + 1) - i + 1 = (e - i + 1) + 1
    BY <1>1, <1>7
  <2> QED
    BY <1>2, <2>1, InClassAt
<1>8. ASSUME e + 1 < j
      PROVE  ToSet(SubSeq(s, (e - i + 1) + 2, Len(s))) \subseteq Digits <=>
               \A k \in e + 2 .. j - 1 : At(k) \in Digits
  <2>1. e + 2 \in i .. j /\ j \in e + 2 .. j /\ (e + 2) - i + 1 = (e - i + 1) + 2
    BY <1>1, <1>8
  <2> QED
    BY <1>2, <2>1, InClassAt
<1> HIDE DEF s
<1>9. CASE ~(d < e)
  BY <1>1, <1>4, <1>9 DEF IsRealPlaces, RealAtPlaces, s
<1>10. CASE d < e /\ e < j
  BY <1>3, <1>4, <1>5, <1>6, <1>7, <1>8, <1>10, Zenon DEF IsRealPlaces, RealAtPlaces, s
<1>11. CASE d < e /\ ~(e < j)
  BY <1>3, <1>4, <1>5, <1>6, <1>11, Zenon DEF IsRealPlaces, RealAtPlaces, s
<1> QED
  BY <1>9, <1>10, <1>11

LEMMA RealIs ==
  ASSUME TextOK, NEW i \in 1 .. End, NEW j \in i .. End
  PROVE  IsReal(Lexeme(i, j)) <=> RealAt(i, j)
<1>1. End \in Nat /\ i \in Nat /\ j \in Nat
  BY AtIs
<1> DEFINE s == Lexeme(i, j)
<1>2. Len(s) = j - i /\ DOMAIN s = 1 .. j - i
  <2>1. s \in Seq(Chars) /\ Len(s) = j - i
    BY LexemeIs
  <2> HIDE DEF s
  <2> QED
    BY <2>1
<1>3. IsReal(s) <=> \E p \in 1 .. j - i, e \in 2 .. (j - i) + 1 : IsRealPlaces(s, p, e)
  BY <1>2 DEF IsReal, IsRealPlaces
<1>4. ASSUME NEW p \in 1 .. j - i, NEW e \in 2 .. (j - i) + 1, IsRealPlaces(s, p, e)
      PROVE  RealAt(i, j)
  <2> DEFINE d == i + p - 1
             f == i + e - 1
  <2>1. d \in i .. j - 1 /\ f \in i + 1 .. j /\ d - i + 1 = p /\ f - i + 1 = e
    BY <1>1
  <2> HIDE DEF d, f
  <2>2. RealAtPlaces(i, j, d, f)
    BY <1>4, <2>1, RealPlaces
  <2> QED
    BY <2>1, <2>2 DEF RealAt
<1>5. ASSUME NEW d \in i .. j - 1, NEW e \in i + 1 .. j, RealAtPlaces(i, j, d, e)
      PROVE  IsReal(s)
  <2>1. d - i + 1 \in 1 .. j - i /\ e - i + 1 \in 2 .. (j - i) + 1
    BY <1>1
  <2>2. IsRealPlaces(s, d - i + 1, e - i + 1)
    BY <1>5, RealPlaces
  <2> QED
    BY <1>3, <2>1, <2>2
<1> QED
  BY <1>3, <1>4, <1>5 DEF RealAt

LEMMA OperatorIs ==
  ASSUME TextOK, NEW i \in 1 .. End, NEW j \in i .. End
  PROVE  IsOperator(Lexeme(i, j)) <=> OperatorAt(i, j)
<1>1. End \in Nat /\ i \in Nat /\ j \in Nat
  BY AtIs
<1> DEFINE s == Lexeme(i, j)
<1>2. /\ s \in Seq(Chars) /\ Len(s) = j - i
      /\ \A k \in 1 .. j - i : s[k] = At(i + k - 1)
  BY LexemeIs
<1> HIDE DEF s
<1>3. CASE j = i
  <2>1. Len(s) = 0
    BY <1>1, <1>2, <1>3
  <2> QED
    BY <1>1, <1>3, <2>1 DEF IsOperator, OperatorAt, Pairs, s
<1>4. CASE j = i + 1
  <2>1. s = <<At(i)>>
    BY <1>1, <1>2, <1>4
  <2> QED
    BY <1>1, <1>4, <2>1 DEF IsOperator, OperatorAt, Pairs, s
<1>5. CASE j = i + 2
  <2>1. s = <<At(i), At(i + 1)>>
    BY <1>1, <1>2, <1>5
  <2> QED
    BY <1>1, <1>5, <2>1 DEF IsOperator, OperatorAt, Pairs, s
<1>6. CASE j = i + 3
  <2>1. s = <<At(i), At(i + 1), At(i + 2)>>
    BY <1>1, <1>2, <1>6
  <2> QED
    BY <1>1, <1>6, <2>1 DEF IsOperator, OperatorAt, Pairs, s
<1>7. CASE j > i + 3
  <2>1. Len(s) > 3
    BY <1>1, <1>2, <1>7
  <2>2. ASSUME NEW c, NEW d
        PROVE  s # <<c>> /\ s # <<c, d>> /\ s # <<c, c, d>>
    <3>1. Len(<<c>>) = 1 /\ Len(<<c, d>>) = 2 /\ Len(<<c, c, d>>) = 3
      OBVIOUS
    <3>2. Len(s) # 1 /\ Len(s) # 2 /\ Len(s) # 3
      BY <1>1, <1>2, <2>1
    <3> QED
      BY <3>1, <3>2, Zenon
  <2>3. s \notin {<<c>> : c \in Singles}
    BY <2>2, Zenon
  <2>4. ~IsOperator(s)
    BY <2>2, <2>3, Zenon DEF IsOperator, Pairs
  <2>5. ~OperatorAt(i, j)
    BY <1>1, <1>7 DEF OperatorAt
  <2> QED
    BY <2>4, <2>5 DEF s
<1> QED
  BY <1>1, <1>3, <1>4, <1>5, <1>6, <1>7

----------------------------------------------------------------------------
(* Where numbers end                                                       *)

\* The number at i ends at j, is of that kind, and nothing longer is a number.
NumberToken(i, j, real) ==
  /\ j \in i + 1 .. End
  /\ IF real THEN RealAt(i, j) ELSE IntAt(i, j)
  /\ \A m \in j + 1 .. End : ~IntAt(i, m) /\ ~RealAt(i, m)

LEMMA DigitsNoNUL == NUL \notin Digits /\ NUL \notin HexDigits /\ "." \notin HexDigits
                     /\ "x" \notin HexDigits /\ "." \notin Digits /\ "x" \notin Digits
                     /\ "e" \notin Digits /\ "+" \notin Digits /\ "-" \notin Digits
                     /\ Digits \subseteq HexDigits
BY DEF NUL, Digits, HexDigits

LEMMA HexNumber ==
  ASSUME TextOK, NEW i \in 1 .. End, At(i) = "0", At(i + 1) = "x"
  PROVE  NumberToken(i, NumberEnd(i), FALSE)
<1>1. End \in Nat /\ i \in Nat /\ \A k \in Nat \ {0} : At(k) = NUL <=> k >= End
  BY AtIs
<1>2. i + 2 \in 1 .. End /\ "0" \in Digits
  BY <1>1 DEF NUL, Digits
<1>3. \A m \in i .. End : ~RealAt(i, m)
  <2> SUFFICES ASSUME NEW m \in i .. End, NEW d \in i .. m - 1, NEW e \in i + 1 .. m,
                      RealAtPlaces(i, m, d, e)
               PROVE  FALSE
    BY DEF RealAt
  <2>1. d = i + 1 \/ i + 1 \in i .. d - 1
    BY <1>1 DEF RealAtPlaces
  <2> QED
    BY <2>1, DigitsNoNUL DEF RealAtPlaces
<1>4. \A m \in i + 2 .. End : ~\A k \in i .. m - 1 : At(k) \in Digits
  <2>1. \A m \in i + 2 .. End : i + 1 \in i .. m - 1
    BY <1>1
  <2> QED
    BY <2>1, DigitsNoNUL
<1>5. CASE At(i + 2) \in HexDigits
  <2> DEFINE j == RunEnd(i + 2, HexDigits)
  <2>1. NumberEnd(i) = j
    BY <1>5 DEF NumberEnd
  <2>2. /\ j \in i + 2 .. End /\ At(j) \notin HexDigits
        /\ \A k \in i + 2 .. j - 1 : At(k) \in HexDigits
    BY <1>2, RunEndIs, DigitsNoNUL
  <2> HIDE DEF j
  <2>3. j # i + 2
    BY <1>5, <2>2
  <2>4. j \in i + 1 .. End /\ i + 2 < j
    BY <1>1, <2>2, <2>3
  <2>5. IntAt(i, j)
    BY <2>2, <2>4 DEF IntAt
  <2>6. ASSUME NEW m \in j + 1 .. End
        PROVE  ~IntAt(i, m) /\ ~RealAt(i, m)
    <3>1. m \in i + 2 .. End /\ j \in i + 2 .. m - 1
      BY <1>1, <2>4
    <3> QED
      BY <1>1, <1>3, <1>4, <2>2, <3>1 DEF IntAt
  <2> QED
    BY <2>1, <2>4, <2>5, <2>6 DEF NumberToken
<1>6. CASE At(i + 2) \notin HexDigits
  <2>1. NumberEnd(i) = i + 1
    BY <1>6 DEF NumberEnd
  <2>2. i + 1 \in i + 1 .. End
    BY <1>1, <1>2
  <2>3. IntAt(i, i + 1)
    <3>1. \A k \in i .. (i + 1) - 1 : k = i
      BY <1>1
    <3> QED
      BY <1>1, <1>2, <3>1 DEF IntAt
  <2>4. ASSUME NEW m \in (i + 1) + 1 .. End
        PROVE  ~IntAt(i, m) /\ ~RealAt(i, m)
    <3>1. m \in i + 2 .. End /\ (i + 2 < m => i + 2 \in i + 2 .. m - 1)
      BY <1>1
    <3> QED
      BY <1>1, <1>3, <1>4, <1>6, <3>1 DEF IntAt
  <2> QED
    BY <2>1, <2>2, <2>3, <2>4 DEF NumberToken
<1> QED
  BY <1>5, <1>6

\* The digits that a number begins with, if it is not hexadecimal.
LEMMA FirstDigits ==
  ASSUME TextOK, NEW i \in 1 .. End, At(i) \in Digits
  PROVE  /\ End \in Nat /\ RunEnd(i, Digits) \in i + 1 .. End
         /\ At(RunEnd(i, Digits)) \notin Digits
         /\ \A k \in i .. RunEnd(i, Digits) - 1 : At(k) \in Digits
<1>1. End \in Nat
  BY AtIs
<1>2. /\ RunEnd(i, Digits) \in i .. End
      /\ At(RunEnd(i, Digits)) \notin Digits
      /\ \A k \in i .. RunEnd(i, Digits) - 1 : At(k) \in Digits
  BY RunEndIs, DigitsNoNUL
<1>3. RunEnd(i, Digits) # i
  BY <1>2
<1> QED
  BY <1>1, <1>2, <1>3

\* A longer word that begins like them is no integer, and if it is a real number
\* then its dot stands behind them.
LEMMA BehindDigits ==
  ASSUME TextOK, NEW i \in 1 .. End, NEW d \in i + 1 .. End, NEW m \in d + 1 .. End,
         ~(At(i) = "0" /\ At(i + 1) = "x"), At(d) \notin Digits,
         \A k \in i .. d - 1 : At(k) \in Digits
  PROVE  /\ ~IntAt(i, m)
         /\ \A p \in i .. m - 1, e \in i + 1 .. m : RealAtPlaces(i, m, p, e) => p = d
<1>1. End \in Nat /\ i \in Nat /\ d \in Nat /\ m \in Nat
  BY AtIs
<1>2. d \in i .. m - 1
  BY <1>1
<1>3. ~IntAt(i, m)
  BY <1>2 DEF IntAt
<1>4. ASSUME NEW p \in i .. m - 1, NEW e \in i + 1 .. m, RealAtPlaces(i, m, p, e)
      PROVE  p = d
  <2>1. p \in i .. d - 1 \/ p = d \/ d \in i .. p - 1
    BY <1>1
  <2> QED
    BY <1>4, <2>1, DigitsNoNUL DEF RealAtPlaces
<1> QED
  BY <1>3, <1>4

LEMMA DecimalNumber ==
  ASSUME TextOK, NEW i \in 1 .. End, At(i) \in Digits,
         ~(At(i) = "0" /\ At(i + 1) = "x"), ~IsFloat(i)
  PROVE  NumberToken(i, NumberEnd(i), FALSE)
<1> DEFINE d == RunEnd(i, Digits)
<1>1. /\ End \in Nat /\ d \in i + 1 .. End /\ At(d) \notin Digits
      /\ \A k \in i .. d - 1 : At(k) \in Digits
  BY FirstDigits
<1>2. NumberEnd(i) = d /\ ~(At(d) = "." /\ At(d + 1) \in Digits)
  BY DEF NumberEnd, IsFloat
<1> HIDE DEF d
<1>3. IntAt(i, d)
  BY <1>1 DEF IntAt
<1>4. ASSUME NEW m \in d + 1 .. End
      PROVE  ~IntAt(i, m) /\ ~RealAt(i, m)
  <2>1. ~IntAt(i, m)
    BY <1>1, BehindDigits
  <2>2. ASSUME NEW p \in i .. m - 1, NEW e \in i + 1 .. m, RealAtPlaces(i, m, p, e)
        PROVE  FALSE
    <3>1. p = d
      BY <1>1, <2>2, BehindDigits
    <3>2. d + 1 \in d + 1 .. e - 1
      BY <1>1, <2>2, <3>1 DEF RealAtPlaces
    <3> QED
      BY <1>2, <2>2, <3>1, <3>2 DEF RealAtPlaces
  <2> QED
    BY <2>1, <2>2 DEF RealAt
<1> QED
  BY <1>1, <1>2, <1>3, <1>4 DEF NumberToken

LEMMA FloatNumber ==
  ASSUME TextOK, NEW i \in 1 .. End, At(i) \in Digits, IsFloat(i)
  PROVE  NumberToken(i, NumberEnd(i), TRUE)
<1> DEFINE d == RunEnd(i, Digits)
           f == RunEnd(d + 1, Digits)
           sign == At(f + 1) \in {"+", "-"}
           x == f + (IF sign THEN 2 ELSE 1)
           g == RunEnd(x, Digits)
<1>1. /\ End \in Nat /\ d \in i + 1 .. End /\ At(d) \notin Digits
      /\ \A k \in i .. d - 1 : At(k) \in Digits
  BY FirstDigits
<1>2. ~(At(i) = "0" /\ At(i + 1) = "x") /\ At(d) = "." /\ At(d + 1) \in Digits
  BY DEF IsFloat
<1>3. NumberEnd(i) = IF At(f) = "e" THEN g ELSE f
  BY <1>2 DEF NumberEnd
<1> HIDE DEF d
<1>4. \A k \in Nat \ {0} : At(k) = NUL <=> k >= End
  BY AtIs
<1>5. d + 1 \in 1 .. End
  BY <1>1, <1>2, <1>4, DigitsNoNUL
<1>6. /\ f \in d + 2 .. End /\ At(f) \notin Digits
      /\ \A k \in d + 1 .. f - 1 : At(k) \in Digits
  BY <1>1, <1>2, <1>5, FirstDigits
<1> HIDE DEF f
<1>7. ASSUME NEW m \in f + 1 .. End, NEW p \in i .. m - 1, NEW e \in i + 1 .. m,
             RealAtPlaces(i, m, p, e)
      PROVE  p = d /\ e = f /\ At(f) = "e"
  <2>1. p = d
    BY <1>1, <1>2, <1>6, <1>7, BehindDigits
  <2>2. e \in d + 2 .. f - 1 \/ e = f \/ f \in d + 1 .. e - 1
    BY <1>1, <1>6, <1>7, <2>1 DEF RealAtPlaces
  <2>3. ~(f \in d + 1 .. e - 1)
    BY <1>6, <1>7, <2>1 DEF RealAtPlaces
  <2>4. ~(e \in d + 2 .. f - 1)
    <3> SUFFICES ASSUME e \in d + 2 .. f - 1 PROVE FALSE
      OBVIOUS
    <3>1. e \in d + 1 .. f - 1 /\ e < m
      BY <1>1, <1>6
    <3> QED
      BY <1>6, <1>7, <3>1, DigitsNoNUL DEF RealAtPlaces
  <2>5. e = f /\ e < m
    BY <1>1, <1>6, <2>2, <2>3, <2>4
  <2> QED
    BY <1>7, <2>1, <2>5 DEF RealAtPlaces
<1>8. \A m \in f + 1 .. End : ~IntAt(i, m)
  <2>1. \A m \in f + 1 .. End : m \in d + 1 .. End
    BY <1>1, <1>6
  <2> QED
    BY <1>1, <1>2, <2>1, BehindDigits
<1>9. i < d /\ d + 1 < f /\ d \in i .. f - 1 /\ f \in i + 1 .. f
  BY <1>1, <1>6
<1>10. CASE At(f) # "e"
  <2>1. RealAtPlaces(i, f, d, f)
    BY <1>1, <1>2, <1>6, <1>9 DEF RealAtPlaces
  <2> QED
    BY <1>1, <1>3, <1>6, <1>7, <1>8, <1>9, <1>10, <2>1 DEF NumberToken, RealAt
<1>11. CASE At(f) = "e"
  <2>1. x \in f + 1 .. End
    <3>1. f < End
      BY <1>1, <1>4, <1>6, <1>11 DEF NUL
    <3>2. sign => f + 1 < End
      BY <1>1, <1>4, <1>6 DEF NUL
    <3> QED
      BY <1>1, <1>6, <3>1, <3>2
  <2>2. x = f + 1 \/ (sign /\ x = f + 2)
    OBVIOUS
  <2>3. sign => x = f + 2
    OBVIOUS
  <2> HIDE DEF x
  <2>4. x \in 1 .. End
    BY <1>1, <1>6, <2>1
  <2>5. /\ g \in x .. End /\ At(g) \notin Digits
        /\ \A k \in x .. g - 1 : At(k) \in Digits
    BY <2>4, RunEndIs, DigitsNoNUL
  <2> HIDE DEF g
  <2>6. NumberEnd(i) = g
    BY <1>3, <1>11
  <2>7. g \in i + 1 .. End /\ d \in i .. g - 1 /\ f \in i + 1 .. g /\ f < g
    BY <1>1, <1>6, <2>1, <2>5
  <2>8. RealAtPlaces(i, g, d, f)
    <3>1. CASE x = f + 1
      BY <1>2, <1>1, <1>6, <1>9, <1>11, <2>5, <3>1 DEF RealAtPlaces
    <3>2. CASE sign /\ x = f + 2
      <4>1. f + 1 < g
        BY <1>1, <1>6, <2>5, <3>2
      <4> QED
        BY <1>2, <1>1, <1>6, <1>9, <1>11, <2>5, <3>2, <4>1 DEF RealAtPlaces
    <3> QED
      BY <2>2, <3>1, <3>2
  <2>9. ASSUME NEW m \in g + 1 .. End, NEW p \in i .. m - 1, NEW e \in i + 1 .. m,
               RealAtPlaces(i, m, p, e)
        PROVE  FALSE
    <3>1. m \in f + 1 .. End /\ f < m
      BY <1>1, <1>6, <2>7
    <3>2. e = f
      BY <1>7, <2>9, <3>1
    <3>3. g \in f + 1 .. m - 1 /\ (x = f + 2 => g \in f + 2 .. m - 1)
      BY <1>1, <1>6, <2>1, <2>5
    <3>4. ~\A k \in f + 1 .. m - 1 : At(k) \in Digits
      BY <2>5, <3>3
    <3>5. sign /\ \A k \in f + 2 .. m - 1 : At(k) \in Digits
      BY <2>9, <3>1, <3>2, <3>4 DEF RealAtPlaces
    <3> QED
      BY <2>3, <2>5, <3>3, <3>5
  <2>10. \A m \in g + 1 .. End : m \in f + 1 .. End
    BY <1>1, <1>6, <2>7
  <2> QED
    BY <1>8, <2>6, <2>7, <2>8, <2>9, <2>10 DEF NumberToken, RealAt
<1> QED
  BY <1>10, <1>11

LEMMA NumberIs ==
  ASSUME TextOK, NEW i \in 1 .. End, At(i) \in Digits
  PROVE  NumberToken(i, NumberEnd(i), IsFloat(i))
<1>1. CASE At(i) = "0" /\ At(i + 1) = "x"
  <2>1. IsFloat(i) = FALSE
    BY <1>1 DEF IsFloat
  <2> QED
    BY <1>1, <2>1, HexNumber
<1>2. CASE ~(At(i) = "0" /\ At(i + 1) = "x") /\ ~IsFloat(i)
  <2>1. IsFloat(i) = FALSE
    BY <1>2 DEF IsFloat
  <2> QED
    BY <1>2, <2>1, DecimalNumber
<1>3. CASE IsFloat(i)
  <2>1. IsFloat(i) = TRUE
    BY <1>3 DEF IsFloat
  <2> QED
    BY <1>3, <2>1, FloatNumber
<1> QED
  BY <1>1, <1>2, <1>3

----------------------------------------------------------------------------
(* The other tokens, and the kinds of lexemes                              *)

LEMMA WordToken ==
  ASSUME TextOK, NEW i \in 1 .. End, At(i) \in Letters
  PROVE  LET j == RunEnd(i, WordChars) IN
         j \in i + 1 .. End /\ WordAt(i, j) /\ \A m \in j + 1 .. End : ~WordAt(i, m)
<1> DEFINE j == RunEnd(i, WordChars)
<1>1. End \in Nat
  BY AtIs
<1>2. /\ j \in i .. End /\ At(j) \notin WordChars
      /\ \A k \in i .. j - 1 : At(k) \in WordChars
  BY RunEndIs DEF NUL, WordChars, Letters, Digits
<1> HIDE DEF j
<1>3. j # i
  BY <1>2 DEF WordChars
<1>4. j \in i + 1 .. End /\ WordAt(i, j)
  BY <1>1, <1>2, <1>3 DEF WordAt
<1>5. \A m \in j + 1 .. End : j \in i .. m - 1
  BY <1>1, <1>2
<1> QED
  BY <1>2, <1>4, <1>5 DEF WordAt, j

LEMMA OperatorToken ==
  ASSUME TextOK, NEW i \in 1 .. End, At(i) \in Singles
  PROVE  /\ OperatorEnd(i) \in i + 1 .. End
         /\ OperatorAt(i, OperatorEnd(i))
         /\ \A m \in OperatorEnd(i) + 1 .. End : ~OperatorAt(i, m)
<1>1. End \in Nat /\ \A k \in Nat \ {0} : At(k) = NUL <=> k >= End
  BY AtIs
<1>2. i < End
  <2>1. NUL \notin Singles
    BY DEF Singles, NUL
  <2> QED
    BY <1>1, <2>1
<1>3. CASE <<At(i), At(i + 1)>> \notin Pairs
  <2>1. OperatorEnd(i) = i + 1
    BY <1>3 DEF OperatorEnd
  <2>2. ~(At(i) = "." /\ At(i + 1) = ".")
    BY <1>3 DEF Pairs
  <2> QED
    BY <1>1, <1>2, <1>3, <2>1, <2>2 DEF OperatorAt
<1>4. CASE <<At(i), At(i + 1)>> \in Pairs /\ At(i) = "." /\ At(i + 2) = "="
  <2>1. OperatorEnd(i) = i + 3
    BY <1>4 DEF OperatorEnd
  <2>2. At(i + 1) = "."
    BY <1>4 DEF Pairs
  <2>3. i + 2 < End
    BY <1>1, <1>4 DEF NUL
  <2> QED
    BY <1>1, <1>2, <1>4, <2>1, <2>2, <2>3 DEF OperatorAt
<1>5. CASE <<At(i), At(i + 1)>> \in Pairs /\ ~(At(i) = "." /\ At(i + 2) = "=")
  <2>1. OperatorEnd(i) = i + 2
    BY <1>5 DEF OperatorEnd
  <2>2. At(i + 1) # NUL
    BY <1>5 DEF Pairs, NUL
  <2>3. i + 1 < End
    BY <1>1, <2>2
  <2> QED
    BY <1>1, <1>2, <1>5, <2>1, <2>3 DEF OperatorAt
<1> QED
  BY <1>3, <1>4, <1>5

\* No word of the grammar is of two kinds.
LEMMA KindsApart ==
  ASSUME TextOK, NEW i \in 1 .. End, NEW j \in i .. End
  PROVE  /\ WordAt(i, j) => At(i) \in Letters
         /\ IntAt(i, j) => At(i) \in Digits
         /\ RealAt(i, j) => At(i) \in Digits
         /\ OperatorAt(i, j) => At(i) \in Singles
         /\ ~(IntAt(i, j) /\ RealAt(i, j))
         /\ At(i) \in Letters => At(i) \notin Digits /\ At(i) \notin Singles
         /\ At(i) \in Digits => At(i) \notin Singles
<1>1. End \in Nat /\ i \in Nat /\ j \in Nat
  BY AtIs
<1>2. WordAt(i, j) => At(i) \in Letters
  BY DEF WordAt
<1>3. IntAt(i, j) => At(i) \in Digits
  <2>1. i < j => i \in i .. j - 1
    BY <1>1
  <2>2. "0" \in Digits
    BY DEF Digits
  <2> QED
    BY <2>1, <2>2 DEF IntAt
<1>4. ASSUME NEW d \in i .. j - 1, NEW e \in i + 1 .. j, RealAtPlaces(i, j, d, e)
      PROVE  At(i) \in Digits /\ ~IntAt(i, j)
  <2>1. i \in i .. d - 1 /\ d \in i .. j - 1 /\ (d = i + 1 \/ i + 1 \in i .. d - 1)
    BY <1>1, <1>4 DEF RealAtPlaces
  <2> QED
    BY <1>4, <2>1, DigitsNoNUL DEF RealAtPlaces, IntAt
<1>5. OperatorAt(i, j) => At(i) \in Singles
  <2>1. \A c, d : <<c, d>> \in Pairs => c \in Singles
    BY DEF Pairs, Singles
  <2>2. "." \in Singles
    BY DEF Singles
  <2> QED
    BY <2>1, <2>2 DEF OperatorAt
<1>6. \A c \in Letters : c \notin Digits /\ c \notin Singles
  BY DEF Letters, Digits, Singles
<1>7. \A c \in Digits : c \notin Singles
  BY DEF Digits, Singles
<1> QED
  BY <1>2, <1>3, <1>4, <1>5, <1>6, <1>7 DEF RealAt

LEMMA KindsAre ==
  ASSUME TextOK, NEW i \in 1 .. End, NEW j \in i .. End
  PROVE  LET s == Lexeme(i, j) IN
         /\ s \in Keywords => WordAt(i, j) /\ Kinds(s) = {"keyword"}
         /\ WordAt(i, j) /\ s \notin Keywords => Kinds(s) = {"IDENTIFIER"}
         /\ IntAt(i, j) => Kinds(s) = {"INT_LITERAL"}
         /\ RealAt(i, j) => Kinds(s) = {"FLOAT_LITERAL"}
         /\ OperatorAt(i, j) => Kinds(s) = {"operator"}
         /\ ~WordAt(i, j) /\ ~IntAt(i, j) /\ ~RealAt(i, j) /\ ~OperatorAt(i, j) => Kinds(s) = {}
<1> DEFINE s == Lexeme(i, j)
<1>1. s \in Keywords => IsWord(s)
  <2>1. ASSUME NEW word \in Seq(WordChars)
        PROVE  ToSet(word) \subseteq WordChars
    BY DEF ToSet
  <2> QED
    BY <2>1, LexerAssumption DEF IsWord
<1>2. /\ IsWord(s) <=> WordAt(i, j)
      /\ IsInt(s) <=> IntAt(i, j)
      /\ IsReal(s) <=> RealAt(i, j)
      /\ IsOperator(s) <=> OperatorAt(i, j)
  BY WordIs, IntIs, RealIs, OperatorIs
<1>3. /\ WordAt(i, j) => ~IntAt(i, j) /\ ~RealAt(i, j) /\ ~OperatorAt(i, j)
      /\ IntAt(i, j) => ~RealAt(i, j) /\ ~OperatorAt(i, j)
      /\ RealAt(i, j) => ~OperatorAt(i, j)
  BY KindsApart
<1> HIDE DEF s
<1>4. CASE s \in Keywords
  <2>1. Kinds(s) = {"keyword"}
    BY <1>1, <1>2, <1>3, <1>4 DEF Kinds
  <2> QED
    BY <1>1, <1>2, <1>3, <1>4, <2>1 DEF s
<1>5. CASE s \notin Keywords
  <2>1. WordAt(i, j) => Kinds(s) = {"IDENTIFIER"}
    BY <1>2, <1>3, <1>5 DEF Kinds
  <2>2. IntAt(i, j) => Kinds(s) = {"INT_LITERAL"}
    BY <1>2, <1>3, <1>5 DEF Kinds
  <2>3. RealAt(i, j) => Kinds(s) = {"FLOAT_LITERAL"}
    BY <1>2, <1>3, <1>5 DEF Kinds
  <2>4. OperatorAt(i, j) => Kinds(s) = {"operator"}
    BY <1>2, <1>3, <1>5 DEF Kinds
  <2>5. ~WordAt(i, j) /\ ~IntAt(i, j) /\ ~RealAt(i, j) /\ ~OperatorAt(i, j) => Kinds(s) = {}
    BY <1>2, <1>5 DEF Kinds
  <2> QED
    BY <1>5, <2>1, <2>2, <2>3, <2>4, <2>5 DEF s
<1> QED
  BY <1>4, <1>5

----------------------------------------------------------------------------
(* Lines and columns                                                       *)

\* The newlines of a stretch of the text.
LEMMA NewlinesFinite ==
  ASSUME NEW i \in Nat, NEW j \in Nat
  PROVE  /\ Newlines(i, j) \in SUBSET (i .. j - 1)
         /\ IsFiniteSet(Newlines(i, j)) /\ Cardinality(Newlines(i, j)) \in Nat
<1>1. Newlines(i, j) \in SUBSET (i .. j - 1)
  BY DEF Newlines
<1>2. IsFiniteSet(i .. j - 1)
  BY FS_Interval
<1> QED
  BY <1>1, <1>2, FS_Subset, FS_CardinalityType

LEMMA NewlinesSplit ==
  ASSUME NEW i \in Nat, NEW j \in Nat, NEW k \in Nat, i <= j, j <= k
  PROVE  /\ Newlines(i, k) = Newlines(i, j) \cup Newlines(j, k)
         /\ Cardinality(Newlines(i, k)) = Cardinality(Newlines(i, j)) + Cardinality(Newlines(j, k))
<1>1. \A n \in i .. k - 1 : n \in i .. j - 1 \/ n \in j .. k - 1
  OBVIOUS
<1>2. \A n : (n \in i .. j - 1 => n \in i .. k - 1 /\ n \notin j .. k - 1) /\ (n \in j .. k - 1 => n \in i .. k - 1)
  OBVIOUS
<1>3. Newlines(i, k) = Newlines(i, j) \cup Newlines(j, k)
  BY <1>1, <1>2 DEF Newlines
<1>4. Newlines(i, j) \cap Newlines(j, k) = {}
  BY <1>2 DEF Newlines
<1>5. /\ Cardinality(Newlines(i, j) \cup Newlines(j, k)) =
           Cardinality(Newlines(i, j)) + Cardinality(Newlines(j, k))
             - Cardinality(Newlines(i, j) \cap Newlines(j, k))
      /\ Cardinality(Newlines(i, j)) \in Nat /\ Cardinality(Newlines(j, k)) \in Nat
  BY NewlinesFinite, FS_Union
<1> QED
  BY <1>3, <1>4, <1>5, FS_EmptySet

\* The column of a place: how far it is behind the newline before it.
LEMMA LineStartIs ==
  ASSUME NEW i \in Nat \ {0}
  PROVE  /\ LineStart(i) \in 0 .. i - 1
         /\ \A k \in Newlines(1, i) : k <= LineStart(i)
         /\ LineStart(i) = 0 \/ LineStart(i) \in Newlines(1, i)
<1> DEFINE S == {0} \cup {k \in 1 .. i - 1 : At(k) = Newline}
<1>1. S \in SUBSET (0 .. i - 1) /\ 0 \in S /\ Newlines(1, i) = S \ {0} /\ i - 1 \in Nat
  BY DEF Newlines
<1>2. LineStart(i) = Max(S)
  BY DEF LineStart
<1> HIDE DEF S
<1>3. Max(S) \in S /\ \A k \in S : k <= Max(S)
  BY <1>1, MaxIs
<1> QED
  BY <1>1, <1>2, <1>3

LEMMA LineStartMoves ==
  ASSUME NEW i \in Nat \ {0}, NEW j \in Nat, i <= j
  PROVE  /\ Newlines(i, j) = {} => LineStart(j) = LineStart(i)
         /\ Newlines(i, j) # {} => LineStart(j) = Max(Newlines(i, j)) /\ LineStart(j) >= i
<1>1. /\ LineStart(i) \in 0 .. i - 1 /\ LineStart(j) \in 0 .. j - 1
      /\ \A k \in Newlines(1, i) : k <= LineStart(i)
      /\ \A k \in Newlines(1, j) : k <= LineStart(j)
      /\ LineStart(i) = 0 \/ LineStart(i) \in Newlines(1, i)
      /\ LineStart(j) = 0 \/ LineStart(j) \in Newlines(1, j)
  BY LineStartIs
<1>2. Newlines(1, j) = Newlines(1, i) \cup Newlines(i, j)
  BY NewlinesSplit
<1>3. Newlines(i, j) = {} => LineStart(j) = LineStart(i)
  <2>1. Newlines(i, j) = {} => LineStart(j) <= LineStart(i) /\ LineStart(i) <= LineStart(j)
    BY <1>1, <1>2
  <2> QED
    BY <1>1, <2>1
<1>4. ASSUME Newlines(i, j) # {}
      PROVE  LineStart(j) = Max(Newlines(i, j)) /\ LineStart(j) >= i
  <2>1. Newlines(i, j) \in SUBSET (i .. j - 1) /\ Newlines(i, j) \in SUBSET (0 .. j - 1) /\ j - 1 \in Nat
    BY NewlinesFinite
  <2>2. /\ Max(Newlines(i, j)) \in Newlines(i, j)
        /\ \A k \in Newlines(i, j) : k <= Max(Newlines(i, j))
    BY <1>4, <2>1, MaxIs
  <2>3. LineStart(j) \in Newlines(i, j)
    <3>1. Max(Newlines(i, j)) <= LineStart(j) /\ Max(Newlines(i, j)) \in i .. j - 1
      BY <1>1, <1>2, <2>1, <2>2
    <3>2. \A k \in Newlines(1, i) : k < i
      BY NewlinesFinite
    <3> QED
      BY <1>1, <1>2, <3>1, <3>2
  <2>4. LineStart(j) <= Max(Newlines(i, j)) /\ Max(Newlines(i, j)) <= LineStart(j)
    BY <1>1, <1>2, <2>2, <2>3
  <2> QED
    BY <1>1, <2>1, <2>2, <2>3, <2>4
<1> QED
  BY <1>3, <1>4

\* The newlines of a stretch that lie behind a quote.
Doubtful(i, j) == {k \in Newlines(i, j) : \E q \in 1 .. k - 1 : At(q) = Quote}

LEMMA DoubtfulFinite ==
  ASSUME NEW i \in Nat, NEW j \in Nat, i <= j
  PROVE  /\ IsFiniteSet(Doubtful(i, j))
         /\ Cardinality(Doubtful(i, j)) \in Nat
         /\ Cardinality(Doubtful(i, j)) <= Cardinality(Newlines(i, j))
         /\ Cardinality(Newlines(i, j)) <= j - i
<1>1. Doubtful(i, j) \in SUBSET Newlines(i, j)
  BY DEF Doubtful
<1>2. Newlines(i, j) \in SUBSET (i .. j - 1) /\ IsFiniteSet(Newlines(i, j))
  BY NewlinesFinite
<1>3. IsFiniteSet(i .. j - 1) /\ Cardinality(i .. j - 1) = j - i
  <2>1. i \in Int /\ j - 1 \in Int
    OBVIOUS
  <2>2. /\ IsFiniteSet(i .. j - 1)
        /\ Cardinality(i .. j - 1) = IF i > j - 1 THEN 0 ELSE (j - 1) - i + 1
    BY <2>1, FS_Interval
  <2> QED
    BY <2>2
<1> QED
  BY <1>1, <1>2, <1>3, FS_Subset, FS_CardinalityType

LEMMA DoubtfulGrows ==
  ASSUME NEW c \in Nat \ {0}, NEW i \in Nat, NEW j \in Nat, c <= i, i <= j
  PROVE  Cardinality(Doubtful(1, c)) + Cardinality(Doubtful(i, j)) <= Cardinality(Doubtful(1, j))
<1> DEFINE A == Doubtful(1, c)
           B == Doubtful(i, j)
           D == Doubtful(1, j)
<1>1. IsFiniteSet(A) /\ IsFiniteSet(B) /\ IsFiniteSet(D)
  BY DoubtfulFinite
<1>2. A \cap B = {}
  BY DEF Doubtful, Newlines
<1>3. A \cup B \in SUBSET D
  BY DEF Doubtful, Newlines
<1> HIDE DEF A, B, D
<1>4. Cardinality(A \cup B) = Cardinality(A) + Cardinality(B) - Cardinality(A \cap B)
  BY <1>1, FS_Union
<1>5. Cardinality(A \cup B) <= Cardinality(D)
  BY <1>1, <1>3, FS_Subset
<1>6. Cardinality(A \cap B) = 0
  BY <1>2, FS_EmptySet
<1> QED
  BY <1>1, <1>4, <1>5, <1>6, FS_CardinalityType DEF A, B, D

----------------------------------------------------------------------------
(* The invariant.  To those that the runs check it adds where the columns  *)
(* of a line begin and what a text is made of.                             *)

LexerInv ==
  /\ TextOK
  /\ TypeOK
  /\ column = current - LineStart(current)
  /\ Located
  /\ LongestMatch
  /\ GapsBlank
  /\ LostAtEnd

LEMMA InitInv == Init => LexerInv
<1> SUFFICES ASSUME Init PROVE LexerInv
  OBVIOUS
<1> USE DEF Init
<1>1. PICK a \in Alphabets : \E n \in 0 .. a.length : text \in [1 .. n -> a.chars]
  OBVIOUS
<1>2. PICK n \in 0 .. a.length : text \in [1 .. n -> a.chars]
  BY <1>1
<1>3. TextOK
  <2>1. n \in Nat /\ a.chars \subseteq Chars
    BY LexerAssumption DEF Chars
  <2> QED
    BY <1>2, <2>1 DEF TextOK
<1>4. Len(text) \in Nat /\ End = Len(text) + 1
  BY <1>3, AtIs
<1>5. LineStart(1) = 0
  BY LineStartIs
<1>6. TypeOK
  <2>1. token.start = 1 /\ token.length = 0
    OBVIOUS
  <2>2. lost \in BOOLEAN
    OBVIOUS
  <2> QED
    BY <1>4, <2>1, <2>2 DEF TypeOK
<1>7. Located
  <2>1. {k \in 1 .. current - 1 : At(k) = Newline} = {}
    OBVIOUS
  <2>2. InDoubt = {}
    BY DEF InDoubt
  <2>3. TrueLine = 1 /\ Cardinality(InDoubt) = 0
    BY <2>1, <2>2, FS_EmptySet DEF TrueLine
  <2>4. token.start = 1 /\ token.column = 1
    OBVIOUS
  <2> QED
    BY <1>5, <2>3, <2>4 DEF Located
<1>8. LongestMatch
  BY DEF LongestMatch
<1>9. GapsBlank
  <2>1. {1} \in SUBSET (1 .. 1) /\ {1, 1} \subseteq {1} /\ {1} \ {1} = {}
    OBVIOUS
  <2> QED
    BY <2>1 DEF GapsBlank, Gap
<1> QED
  BY <1>3, <1>5, <1>6, <1>7, <1>8, <1>9 DEF LexerInv, LostAtEnd

\* What each token is like, whatever its kind: it is made of what follows the gap, and
\* the newlines that are counted twice are behind a quote.
LEMMA TokenStep ==
  ASSUME LexerInv, NEW kind, NEW i \in current .. End, NEW j \in i .. End,
         NEW more \in 0 .. Cardinality(Doubtful(i, j)),
         Gap(current, i), TokenCounting(kind, i, j, more)
  PROVE  /\ TextOK' /\ TypeOK' /\ (column = current - LineStart(current))'
         /\ Located' /\ GapsBlank' /\ LostAtEnd'
<1> USE DEF TokenCounting
<1>1. /\ TextOK /\ Len(text) \in Nat /\ End = Len(text) + 1
      /\ current \in 1 .. End /\ i \in Nat \ {0} /\ j \in Nat \ {0} /\ current \in Nat \ {0}
      /\ column = current - LineStart(current)
  BY AtIs DEF LexerInv, TypeOK
<1>2. /\ TextOK' /\ End' = End /\ current' = j /\ from' = current /\ Len(text') = Len(text)
      /\ token'.start = i /\ token'.length = j - i /\ token'.column = column' - (j - i)
  BY <1>1 DEF TextOK, End
<1>3. /\ LineStart(current)' = LineStart(j) /\ LineStart(token.start)' = LineStart(i)
      /\ LineStart(j) \in 0 .. j - 1 /\ LineStart(i) \in 0 .. i - 1
  <2>1. LineStart(current)' = LineStart(j)
    BY DEF LineStart, At, End
  <2>2. LineStart(token.start)' = LineStart(i)
    BY <1>2 DEF LineStart, At, End
  <2> QED
    BY <1>1, <2>1, <2>2, LineStartIs
<1>4. column' = j - LineStart(j)
  <2>1. LineStart(current) \in 0 .. current - 1
    BY <1>1, LineStartIs
  <2>2. /\ Newlines(current, j) = {} => LineStart(j) = LineStart(current)
        /\ Newlines(current, j) # {} => LineStart(j) = Max(Newlines(current, j))
    BY <1>1, LineStartMoves
  <2> QED
    BY <1>1, <2>1, <2>2 DEF ColumnAt
<1> DEFINE count == Cardinality(Newlines(current, j))
           before == Cardinality(Newlines(1, current))
           all == Cardinality(Newlines(1, j))
           doubt == Cardinality(Doubtful(1, current))
           doubtful == Cardinality(Doubtful(1, j))
<1>5. line \in 1 + before .. 1 + before + doubt
  <2>1. TrueLine = 1 + before
    BY DEF TrueLine, Newlines
  <2>2. InDoubt = Doubtful(1, current)
    BY DEF InDoubt, Doubtful, Newlines
  <2> QED
    BY <2>1, <2>2 DEF LexerInv, Located
<1>6. TrueLine' = 1 + all
  BY DEF TrueLine, Newlines, At, End
<1>7. InDoubt' = Doubtful(1, j)
  <2>1. InDoubt' = {k \in 1 .. j - 1 : At(k) = Newline /\ \E q \in 1 .. k - 1 : At(q) = Quote}
    BY DEF InDoubt, At, End
  <2> QED
    BY <2>1 DEF Doubtful, Newlines
<1>8. line' = line + count + more
  BY DEF LineAt
<1>9. /\ all = before + count /\ before \in Nat /\ count \in Nat /\ all \in Nat
      /\ all <= j - 1 /\ doubtful \in Nat /\ doubtful <= all /\ doubt \in Nat
      /\ more \in Nat /\ doubt + more <= doubtful
  <2>1. all = before + count
    BY <1>1, NewlinesSplit
  <2>2. before \in Nat /\ count \in Nat /\ all \in Nat
    BY <1>1, NewlinesFinite
  <2>3. /\ doubt \in Nat /\ doubtful \in Nat /\ doubtful <= all /\ all <= j - 1
        /\ Cardinality(Doubtful(i, j)) \in Nat
    BY <1>1, DoubtfulFinite
  <2>4. doubt + Cardinality(Doubtful(i, j)) <= doubtful
    BY <1>1, DoubtfulGrows
  <2> QED
    BY <2>1, <2>2, <2>3, <2>4
<1> HIDE DEF count, before, all, doubt, doubtful
<1>10. line' \in 1 + all .. 1 + all + doubtful
  BY <1>5, <1>8, <1>9
<1>11. TypeOK'
  <2>1. line' \in 1 .. 2 * Len(text) + 1
    BY <1>1, <1>9, <1>10
  <2>2. column' \in 1 .. End
    BY <1>1, <1>3, <1>4, SMTT(60)
  <2>3. token'.start \in from' .. End /\ token'.start + token'.length = current' /\ current' \in 1 .. End
    BY <1>1, <1>2
  <2> QED
    BY <1>2, <2>1, <2>2, <2>3 DEF TypeOK
<1>12. Located'
  <2>1. line' \in TrueLine' .. TrueLine' + Cardinality(InDoubt')
    BY <1>6, <1>7, <1>10 DEF doubtful
  <2>2. LineStart(i) = LineStart(j) => token'.column = token'.start - LineStart(i)
    BY <1>1, <1>2, <1>3, <1>4, SMTT(60)
  <2> QED
    BY <1>3, <2>1, <2>2 DEF Located
<1>13. GapsBlank'
  <2>1. Gap(from, token.start)' = Gap(current, i)
    BY <1>2, SMT DEF Gap, IsComment, IsDash, ThreeDashes, Newlines, At, End
  <2> QED
    BY <2>1 DEF GapsBlank
<1> QED
  BY <1>2, <1>3, <1>4, <1>11, <1>12, <1>13 DEF LostAtEnd

LongestFor(kind, i, j) ==
  kind \in {"keyword", "IDENTIFIER", "INT_LITERAL", "FLOAT_LITERAL", "operator"} =>
    /\ kind \in Kinds(Lexeme(i, j))
    /\ \A m \in j + 1 .. End : Kinds(Lexeme(i, m)) = {}

LEMMA TokenInv ==
  ASSUME LexerInv, NEW kind, NEW i \in current .. End, NEW j \in i .. End,
         NEW more \in 0 .. Cardinality(Doubtful(i, j)),
         Gap(current, i), TokenCounting(kind, i, j, more), LongestFor(kind, i, j)
  PROVE  LexerInv'
<1>1. /\ TextOK' /\ TypeOK' /\ (column = current - LineStart(current))'
      /\ Located' /\ GapsBlank' /\ LostAtEnd'
  BY TokenStep
<1>2. LongestMatch'
  <2>1. text' = text /\ current' = j /\ token'.start = i /\ token'.kind = kind
    BY DEF TokenCounting
  <2>2. \A m : Lexeme(token.start, m)' = Lexeme(i, m)
    BY <2>1 DEF Lexeme
  <2>3. Lexeme(token.start, current)' = Lexeme(i, j) /\ End' = End
    BY <2>1 DEF Lexeme, End
  <2> QED
    BY <2>1, <2>2, <2>3 DEF LongestMatch, LongestFor
<1> QED
  BY <1>1, <1>2 DEF LexerInv

\* Where the next token begins; a token that counts no newline twice.
LEMMA StartIs ==
  ASSUME LexerInv, NEW i, i = Skip(current)
  PROVE  /\ TextOK /\ current \in Nat \ {0} /\ End \in Nat /\ End = Len(text) + 1
         /\ i \in current .. End /\ i \in 1 .. End /\ i \in Nat \ {0} /\ Gap(current, i)
         /\ At(i) # NUL => i < End
<1>1. TextOK /\ current \in 1 .. End
  BY DEF LexerInv, TypeOK
<1>2. End \in Nat /\ End = Len(text) + 1 /\ \A k \in Nat \ {0} : At(k) = NUL <=> k >= End
  BY <1>1, AtIs
<1>3. Skip(current) \in current .. End /\ Gap(current, Skip(current))
  BY <1>1, SkipIs
<1> QED
  BY <1>1, <1>2, <1>3

LEMMA PlainInv ==
  ASSUME LexerInv, NEW kind, NEW i, i = Skip(current), NEW j \in i .. End,
         Token(kind, i, j), LongestFor(kind, i, j)
  PROVE  LexerInv'
<1>1. i \in current .. End /\ i \in Nat /\ j \in Nat /\ i <= j /\ Gap(current, i)
  BY StartIs
<1>2. 0 \in 0 .. Cardinality(Doubtful(i, j))
  BY <1>1, DoubtfulFinite
<1>3. TokenCounting(kind, i, j, 0)
  BY DEF Token
<1> QED
  BY <1>1, <1>2, <1>3, TokenInv

LEMMA LoseInv ==
  ASSUME LexerInv, Lose, Len(text) > 0, At(Len(text)) \in {Backslash, Apostrophe}
  PROVE  LexerInv'
<1> USE DEF Lose
<1>1. TextOK
  BY DEF LexerInv
<1>2. Len(text) \in 1 .. Len(text)
  BY <1>1, AtIs
<1>3. Last(text) \in {Backslash, Apostrophe}
  BY <1>1, <1>2, AtIs DEF Last
<1>4. LostAtEnd'
  BY <1>3 DEF LostAtEnd
<1>5. TypeOK'
  BY DEF LexerInv, TypeOK, End
<1>6. (column = current - LineStart(current))' /\ TextOK'
  BY DEF LexerInv, LineStart, At, End, TextOK
<1>7. Located'
  <2>1. TrueLine' = TrueLine
    BY DEF TrueLine, At, End
  <2>2. InDoubt' = InDoubt
    BY DEF InDoubt, At, End
  <2>3. LineStart(current)' = LineStart(current) /\ LineStart(token.start)' = LineStart(token.start)
    BY DEF LineStart, At, End
  <2> QED
    BY <2>1, <2>2, <2>3 DEF LexerInv, Located
<1>8. LongestMatch'
  BY DEF LexerInv, LongestMatch, Lexeme, End
<1>9. GapsBlank'
  BY SMT DEF LexerInv, GapsBlank, Gap, IsComment, IsDash, ThreeDashes, Newlines, At, End
<1> QED
  BY <1>4, <1>5, <1>6, <1>7, <1>8, <1>9 DEF LexerInv

----------------------------------------------------------------------------
(* The steps.                                                              *)

LEMMA EndOfTextInv ==
  ASSUME LexerInv, NEW i, i = Skip(current), EndOfText(i)
  PROVE  LexerInv'
<1>1. i \in i .. End
  BY StartIs
<1>2. LongestFor("EOF", i, i)
  BY DEF LongestFor
<1> QED
  BY <1>1, <1>2, PlainInv DEF EndOfText

LEMMA WordInv ==
  ASSUME LexerInv, NEW i, i = Skip(current), Word(i)
  PROVE  LexerInv'
<1> DEFINE j == RunEnd(i, WordChars)
           kind == IF Lexeme(i, j) \in Keywords THEN "keyword" ELSE "IDENTIFIER"
<1>1. TextOK /\ i \in 1 .. End /\ At(i) \in Letters /\ Token(kind, i, j)
  BY StartIs DEF Word
<1>2. j \in i + 1 .. End /\ WordAt(i, j) /\ \A m \in j + 1 .. End : ~WordAt(i, m)
  BY <1>1, WordToken
<1>3. j \in i .. End /\ End \in Nat /\ i \in Nat
  BY <1>1, <1>2, StartIs
<1>4. kind \in Kinds(Lexeme(i, j))
  BY <1>1, <1>2, <1>3, KindsAre
<1> HIDE DEF j, kind
<1>5. ASSUME NEW m \in j + 1 .. End
      PROVE  Kinds(Lexeme(i, m)) = {}
  <2>1. m \in i .. End
    BY <1>3
  <2>2. ~WordAt(i, m) /\ ~IntAt(i, m) /\ ~RealAt(i, m) /\ ~OperatorAt(i, m)
    BY <1>1, <1>2, <2>1, KindsApart
  <2> QED
    BY <1>1, <2>1, <2>2, KindsAre
<1>6. LongestFor(kind, i, j)
  BY <1>4, <1>5 DEF LongestFor
<1> QED
  BY <1>1, <1>3, <1>6, PlainInv

LEMMA NumberInv ==
  ASSUME LexerInv, NEW i, i = Skip(current), Number(i)
  PROVE  LexerInv'
<1> DEFINE j == NumberEnd(i)
           kind == IF IsFloat(i) THEN "FLOAT_LITERAL" ELSE "INT_LITERAL"
<1>1. TextOK /\ i \in 1 .. End /\ At(i) \in Digits /\ Token(kind, i, j)
  BY StartIs DEF Number
<1>2. NumberToken(i, j, IsFloat(i))
  BY <1>1, NumberIs
<1>3. j \in i .. End /\ End \in Nat /\ i \in Nat
  BY <1>1, <1>2, StartIs DEF NumberToken
<1>4. kind \in Kinds(Lexeme(i, j))
  <2>1. CASE IsFloat(i)
    BY <1>1, <1>2, <1>3, <2>1, KindsAre DEF NumberToken
  <2>2. CASE ~IsFloat(i)
    BY <1>1, <1>2, <1>3, <2>2, KindsAre DEF NumberToken
  <2> QED
    BY <2>1, <2>2
<1> HIDE DEF j, kind
<1>5. ASSUME NEW m \in j + 1 .. End
      PROVE  Kinds(Lexeme(i, m)) = {}
  <2>1. m \in i .. End
    BY <1>3
  <2>2. ~IntAt(i, m) /\ ~RealAt(i, m)
    BY <1>2 DEF NumberToken
  <2>3. ~WordAt(i, m) /\ ~OperatorAt(i, m)
    BY <1>1, <2>1, KindsApart
  <2> QED
    BY <1>1, <2>1, <2>2, <2>3, KindsAre
<1>6. LongestFor(kind, i, j)
  BY <1>4, <1>5 DEF LongestFor
<1> QED
  BY <1>1, <1>3, <1>6, PlainInv

LEMMA OperatorInv ==
  ASSUME LexerInv, NEW i, i = Skip(current), Operator(i)
  PROVE  LexerInv'
<1> DEFINE j == OperatorEnd(i)
<1>1. TextOK /\ i \in 1 .. End /\ At(i) \in Singles /\ Token("operator", i, j)
  BY StartIs DEF Operator
<1>2. j \in i + 1 .. End /\ OperatorAt(i, j) /\ \A m \in j + 1 .. End : ~OperatorAt(i, m)
  BY <1>1, OperatorToken
<1>3. j \in i .. End /\ End \in Nat /\ i \in Nat
  BY <1>1, <1>2, StartIs
<1>4. "operator" \in Kinds(Lexeme(i, j))
  BY <1>1, <1>2, <1>3, KindsAre
<1> HIDE DEF j
<1>5. ASSUME NEW m \in j + 1 .. End
      PROVE  Kinds(Lexeme(i, m)) = {}
  <2>1. m \in i .. End
    BY <1>3
  <2>2. ~WordAt(i, m) /\ ~IntAt(i, m) /\ ~RealAt(i, m) /\ ~OperatorAt(i, m)
    BY <1>1, <1>2, <2>1, KindsApart
  <2> QED
    BY <1>1, <2>1, <2>2, KindsAre
<1>6. LongestFor("operator", i, j)
  BY <1>4, <1>5 DEF LongestFor
<1> QED
  BY <1>1, <1>3, <1>6, PlainInv

LEMMA InvalidInv ==
  ASSUME LexerInv, NEW i, i = Skip(current), Invalid(i)
  PROVE  LexerInv'
<1>1. i + 1 \in i .. End
  BY StartIs DEF Invalid
<1>2. LongestFor("INVALID", i, i + 1)
  BY DEF LongestFor
<1> QED
  BY <1>1, <1>2, PlainInv DEF Invalid

\* What string_lit counts twice is behind the quote that begins the string.
LEMMA TwiceIs ==
  ASSUME NEW i \in Nat \ {0}, NEW j \in Nat, NEW m \in Nat, i <= j, j <= m, At(i) = Quote
  PROVE  CountedTwice(i + 1, j) \in 0 .. Cardinality(Doubtful(i, m))
<1> DEFINE T == {k \in i + 1 .. j - 1 : At(k) = Newline /\ ~Escaped(i + 1, k)}
<1>1. T \in SUBSET Doubtful(i, m)
  BY DEF Doubtful, Newlines
<1>2. CountedTwice(i + 1, j) = Cardinality(T)
  BY DEF CountedTwice
<1> HIDE DEF T
<1>3. IsFiniteSet(Doubtful(i, m)) /\ Cardinality(Doubtful(i, m)) \in Nat
  BY DoubtfulFinite
<1> QED
  BY <1>1, <1>2, <1>3, FS_Subset, FS_CardinalityType

LEMMA StringInv ==
  ASSUME LexerInv, NEW i, i = Skip(current), String(i)
  PROVE  LexerInv'
<1> DEFINE j == Closing(i + 1)
           twice == CountedTwice(i + 1, j)
<1>1. /\ TextOK /\ End \in Nat /\ i \in current .. End /\ i \in Nat \ {0} /\ Gap(current, i)
      /\ At(i) = Quote /\ i + 1 \in 1 .. End
  <2>1. At(i) = Quote /\ Quote # NUL
    BY DEF String, Quote, NUL
  <2>2. /\ TextOK /\ End \in Nat /\ i \in current .. End /\ i \in Nat \ {0} /\ Gap(current, i)
        /\ i < End
    BY <2>1, StartIs
  <2> QED
    BY <2>1, <2>2
<1>2. \/ j \in i + 1 .. End /\ At(j) \in {Quote, NUL}
      \/ j > End /\ Len(text) > 0 /\ At(Len(text)) = Backslash
  BY <1>1, ClosingIs
<1>3. IF j > End THEN Lose
      ELSE IF At(j) = NUL THEN TokenCounting("INVALID", i, j, twice)
      ELSE TokenCounting("STRING_LITERAL", i, j + 1, twice)
  BY DEF String
<1>4. \A m : LongestFor("INVALID", i, m) /\ LongestFor("STRING_LITERAL", i, m)
  BY DEF LongestFor
<1> HIDE DEF j
<1>5. CASE j > End
  BY <1>1, <1>2, <1>3, <1>5, LoseInv
<1>6. CASE ~(j > End) /\ At(j) = NUL
  <2>1. j \in i .. End /\ j \in Nat /\ i <= j
    BY <1>1, <1>2, <1>6
  <2>2. twice \in 0 .. Cardinality(Doubtful(i, j))
    BY <1>1, <2>1, TwiceIs
  <2> QED
    BY <1>1, <1>3, <1>4, <1>6, <2>1, <2>2, TokenInv
<1>7. CASE ~(j > End) /\ At(j) # NUL
  <2>1. j \in Nat \ {0} /\ i <= j /\ j \in i .. End
    BY <1>1, <1>2, <1>7
  <2>2. j + 1 \in i .. End /\ j + 1 \in Nat
    BY <1>1, <1>7, <2>1, AtIs
  <2>3. twice \in 0 .. Cardinality(Doubtful(i, j + 1))
    BY <1>1, <2>1, <2>2, TwiceIs
  <2> QED
    BY <1>1, <1>3, <1>4, <1>7, <2>2, <2>3, TokenInv
<1> QED
  BY <1>5, <1>6, <1>7

LEMMA CharacterInv ==
  ASSUME LexerInv, NEW i, i = Skip(current), Character(i)
  PROVE  LexerInv'
<1> DEFINE j == Decoded(i + 1)
<1>1. /\ TextOK /\ End \in Nat /\ End = Len(text) + 1 /\ i \in Nat \ {0}
      /\ At(i) = Apostrophe /\ i + 1 \in 1 .. End
  BY StartIs DEF Character, Apostrophe, NUL
<1>2. j \in Nat /\ j > i + 1 /\ (j > End => i + 1 = End \/ At(Len(text)) = Backslash)
  BY <1>1, DecodedIs
<1>3. IF j > End THEN Lose
      ELSE IF At(j) = Apostrophe THEN Token("CHAR_LITERAL", i, j + 1)
      ELSE Token("INVALID", i, j)
  BY DEF Character
<1>4. \A m : LongestFor("INVALID", i, m) /\ LongestFor("CHAR_LITERAL", i, m)
  BY DEF LongestFor
<1> HIDE DEF j
<1>5. CASE j > End
  <2>1. Len(text) > 0 /\ At(Len(text)) \in {Backslash, Apostrophe}
    BY <1>1, <1>2, <1>5
  <2> QED
    BY <1>3, <1>5, <2>1, LoseInv
<1>6. CASE ~(j > End) /\ At(j) = Apostrophe
  <2>1. j + 1 \in i .. End
    BY <1>1, <1>2, <1>6, AtIs DEF Apostrophe, NUL
  <2> QED
    BY <1>3, <1>4, <1>6, <2>1, PlainInv
<1>7. CASE ~(j > End) /\ At(j) # Apostrophe
  <2>1. j \in i .. End
    BY <1>1, <1>2, <1>7
  <2> QED
    BY <1>3, <1>4, <1>7, <2>1, PlainInv
<1> QED
  BY <1>5, <1>6, <1>7

LEMMA StutterInv ==
  ASSUME LexerInv, UNCHANGED vars
  PROVE  LexerInv'
<1> USE DEF vars
<1>1. TypeOK' /\ TextOK' /\ LostAtEnd'
  BY DEF LexerInv, TypeOK, End, TextOK, LostAtEnd
<1>2. (column = current - LineStart(current))'
  BY DEF LexerInv, LineStart, At, End
<1>3. Located'
  <2>1. TrueLine' = TrueLine
    BY DEF TrueLine, At, End
  <2>2. InDoubt' = InDoubt
    BY DEF InDoubt, At, End
  <2>3. LineStart(current)' = LineStart(current) /\ LineStart(token.start)' = LineStart(token.start)
    BY DEF LineStart, At, End
  <2> QED
    BY <2>1, <2>2, <2>3 DEF LexerInv, Located
<1>4. LongestMatch'
  BY DEF LexerInv, LongestMatch, Lexeme, End
<1>5. GapsBlank'
  BY SMT DEF LexerInv, GapsBlank, Gap, IsComment, IsDash, ThreeDashes, Newlines, At, End
<1> QED
  BY <1>1, <1>2, <1>3, <1>4, <1>5 DEF LexerInv

LEMMA NextInv == LexerInv /\ [Next]_vars => LexerInv'
<1> SUFFICES ASSUME LexerInv, [Next]_vars PROVE LexerInv'
  OBVIOUS
<1>1. CASE Next
  <2>1. PICK start \in {Skip(current)} :
          \/ EndOfText(start) \/ Word(start) \/ Number(start) \/ String(start)
          \/ Character(start) \/ Operator(start) \/ Invalid(start)
    BY <1>1 DEF Next
  <2> QED
    BY <2>1, EndOfTextInv, WordInv, NumberInv, StringInv, CharacterInv, OperatorInv, InvalidInv
<1>2. CASE UNCHANGED vars
  BY <1>2, StutterInv
<1> QED
  BY <1>1, <1>2

----------------------------------------------------------------------------
(* The theorems.                                                           *)

\* However long the text and whatever its characters, the state of the lexer stays
\* within the text, and its lines, columns, tokens and gaps are what the properties of
\* Lexer say they are.
THEOREM LexerSafe == Spec => []LexerInv
<1> QED
  BY InitInv, NextInv, PTL DEF Spec

\* No token ends behind the NUL, lines are at most twice as many as the characters of
\* the text, and a token lies between the one before it and the next character.
THEOREM LexerTypeOK == Spec => []TypeOK
<1>1. LexerInv => TypeOK
  BY DEF LexerInv
<1> QED
  BY <1>1, LexerSafe, PTL

\* lexer_next_token takes the longest word, number or operator that there is, of the
\* kind that the lexical grammar gives it: 1..0 is 1 .. 0, and 1.0e is a number.
THEOREM LexerLongest == Spec => []LongestMatch
<1>1. LexerInv => LongestMatch
  BY DEF LexerInv
<1> QED
  BY <1>1, LexerSafe, PTL

\* skip_whitespace_and_comments skips blanks and whole comments and nothing else: no
\* character of the text is lost between two tokens.
THEOREM LexerGaps == Spec => []GapsBlank
<1>1. LexerInv => GapsBlank
  BY DEF LexerInv
<1> QED
  BY <1>1, LexerSafe, PTL

\* advance, string_lit and make_token keep the column of a token exact, and its line
\* wrong by no more than the newlines that are behind a quote.
THEOREM LexerLocated == Spec => []Located
<1>1. LexerInv => Located
  BY DEF LexerInv
<1> QED
  BY <1>1, LexerSafe, PTL

\* Nothing but a backslash or an apostrophe as the last character of a text makes
\* string_lit or char_literal read behind its NUL.
THEOREM LexerEnd == Spec => []LostAtEnd
<1>1. LexerInv => LostAtEnd
  BY DEF LexerInv
<1> QED
  BY <1>1, LexerSafe, PTL
=============================================================================
