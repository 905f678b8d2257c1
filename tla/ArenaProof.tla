----------------------------- MODULE ArenaProof -----------------------------
(***************************************************************************)
(* Proofs about the arena, for any block size, request sizes, alignments,  *)
(* memory limit and nesting of snapshots.  ArenaInv is inductive; the      *)
(* safety properties of Arena are parts of it.                             *)
(***************************************************************************)
EXTENDS Arena, SequenceTheorems, TLAPS

----------------------------------------------------------------------------
(* Lemmas about the helpers                                                *)

\* Rounding up moves by less than the alignment, and never down.
LEMMA AlignUpBounds ==
  ASSUME NEW n \in Nat, NEW align \in Nat \ {0}
  PROVE  /\ align_up(n, align) \in Nat
         /\ n <= align_up(n, align)
         /\ align_up(n, align) < n + align
<1>1. (n + align - 1) % align \in 0 .. align - 1
  OBVIOUS
<1>2. QED
  BY <1>1 DEF align_up

\* The position of the i-th block is i.
LEMMA PosOfBlock ==
  ASSUME ChainOK, NEW i \in 1 .. Len(chain)
  PROVE  Pos(chain, chain[i]) = i
BY DEF ChainOK, Pos

\* The next pointers order the blocks of the chain strictly and totally.
LEMMA ChainOrder ==
  ASSUME TypeOK, ChainOK
  PROVE  /\ \A b : InChain(chain, b) => b \in BlockId
         /\ \A b, c : InChain(chain, b) /\ c \in After(chain, b) => InChain(chain, c)
         /\ \A b : InChain(chain, b) => b \notin After(chain, b)
         /\ \A b, c : InChain(chain, b) /\ InChain(chain, c) /\ c \in After(chain, b) => b \notin After(chain, c)
         /\ \A b, c : /\ InChain(chain, b) /\ InChain(chain, c)
                      /\ b # c /\ c \notin After(chain, b)
                      => b \in After(chain, c)
         /\ \A b, c, d : /\ InChain(chain, b) /\ InChain(chain, c) /\ InChain(chain, d)
                         /\ c \in After(chain, b) /\ d \in After(chain, c)
                         => d \in After(chain, b)
<1>1. Len(chain) \in Nat /\ \A i \in 1 .. Len(chain) : chain[i] \in BlockId
  BY DEF TypeOK
<1>2. \A i \in 1 .. Len(chain) : Pos(chain, chain[i]) = i
  BY PosOfBlock
<1>3. \A i, j \in 1 .. Len(chain) : chain[j] \in After(chain, chain[i]) <=> i < j
  <2> TAKE i, j \in 1 .. Len(chain)
  <2>1. After(chain, chain[i]) = {chain[k] : k \in i + 1 .. Len(chain)}
    BY <1>2 DEF After
  <2>2. ASSUME i < j PROVE chain[j] \in After(chain, chain[i])
    BY <2>1, <2>2, <1>1
  <2>3. ASSUME chain[j] \in After(chain, chain[i]) PROVE i < j
    <3>1. PICK k \in i + 1 .. Len(chain) : chain[k] = chain[j]
      BY <2>1, <2>3
    <3>2. k = j
      BY <3>1, <1>1 DEF ChainOK
    <3> QED BY <3>2, <1>1
  <2> QED BY <2>2, <2>3
<1>4. \A b : InChain(chain, b) => \E i \in 1 .. Len(chain) : chain[i] = b
  BY DEF InChain
<1>5. \A b, c : InChain(chain, b) /\ c \in After(chain, b) => InChain(chain, c)
  <2> SUFFICES ASSUME NEW b, NEW c, InChain(chain, b), c \in After(chain, b)
               PROVE  InChain(chain, c)
    OBVIOUS
  <2>1. PICK i \in 1 .. Len(chain) : chain[i] = b
    BY <1>4
  <2>2. c \in {chain[k] : k \in i + 1 .. Len(chain)}
    BY <2>1, <1>2 DEF After
  <2> QED BY <2>2, <1>1 DEF InChain
<1>6. QED
  BY <1>1, <1>3, <1>4, <1>5

\* t is c, of length n, with f put in behind position p.
Spliced(t, n, c, p, f) ==
  /\ \A i \in 1 .. p : t[i] = c[i]
  /\ t[p + 1] = f
  /\ \A i \in p + 1 .. n : t[i + 1] = c[i]

\* The elements of s at positions m to n, and whether its first n are distinct.
Elements(s, m, n) == {s[k] : k \in m .. n}
Distinct(s, n) == \A i, j \in 1 .. n : s[i] = s[j] => i = j

\* Inserting an element behind position p of a sequence splices it in.
LEMMA InsertBehind ==
  ASSUME NEW S, NEW s \in Seq(S), NEW e \in S, NEW p \in 1 .. Len(s)
  PROVE  LET t == InsertAt(s, p + 1, e) IN
         /\ t \in Seq(S)
         /\ Len(t) = Len(s) + 1
         /\ Spliced(t, Len(s), s, p, e)
<1> DEFINE front == SubSeq(s, 1, p)
           back == SubSeq(s, p + 1, Len(s))
           head == front \o <<e>>
<1>1. Len(s) \in Nat /\ p \in Nat /\ p <= Len(s)
  OBVIOUS
<1>2. front \in Seq(S) /\ Len(front) = p /\ \A i \in 1 .. p : front[i] = s[i]
  BY <1>1
<1>3. /\ back \in Seq(S) /\ Len(back) = Len(s) - p
      /\ \A i \in p + 1 .. Len(s) : back[i - p] = s[i]
  BY <1>1
<1> HIDE DEF front, back
<1>4. /\ head \in Seq(S) /\ Len(head) = p + 1 /\ head[p + 1] = e
      /\ \A i \in 1 .. p : head[i] = s[i]
  BY <1>1, <1>2
<1> HIDE DEF head
<1>5. /\ head \o back \in Seq(S)
      /\ Len(head \o back) = Len(head) + Len(back)
      /\ \A i \in 1 .. Len(head) + Len(back) : (head \o back)[i] =
                     IF i <= Len(head) THEN head[i] ELSE back[i - Len(head)]
  BY <1>3, <1>4, ConcatProperties, Zenon
<1>6. Len(head \o back) = Len(s) + 1
  BY <1>1, <1>3, <1>4, <1>5
<1>7. \A i \in 1 .. p + 1 : (head \o back)[i] = head[i]
  BY <1>1, <1>3, <1>4, <1>5
<1>8. \A i \in p + 1 .. Len(s) : (head \o back)[i + 1] = s[i]
  <2> TAKE i \in p + 1 .. Len(s)
  <2>1. i + 1 \in 1 .. Len(head) + Len(back) /\ ~(i + 1 <= Len(head))
    BY <1>1, <1>3, <1>4
  <2>2. (i + 1) - Len(head) = i - p
    BY <1>1, <1>4
  <2> QED BY <2>1, <2>2, <1>3, <1>5
<1>9. \A i \in 1 .. p : (head \o back)[i] = s[i]
  BY <1>1, <1>4, <1>7
<1>10. (head \o back)[p + 1] = e
  BY <1>1, <1>4, <1>7
<1>11. QED
  <2>1. (p + 1) - 1 = p
    BY <1>1
  <2>2. InsertAt(s, p + 1, e) = head \o back
    BY <2>1, Zenon DEF InsertAt, head, front, back
  <2> QED BY <2>2, <1>5, <1>6, <1>8, <1>9, <1>10 DEF Spliced


\* Where each position of a spliced sequence comes from, and went to.
LEMMA SpliceIndex ==
  ASSUME NEW n \in Nat, NEW p \in 1 .. n, NEW c, NEW t, NEW f,
         Spliced(t, n, c, p, f)
  PROVE  /\ \A i \in 1 .. n + 1 : \/ i \in 1 .. p /\ t[i] = c[i]
                                  \/ i = p + 1 /\ t[i] = f
                                  \/ i \in p + 2 .. n + 1 /\ t[i] = c[i - 1]
         /\ \A i \in 1 .. n : \/ i \in 1 .. p /\ c[i] = t[i]
                              \/ i \in p + 1 .. n /\ c[i] = t[i + 1]
<1> USE DEF Spliced
<1>1. ASSUME NEW i \in 1 .. n + 1
      PROVE  \/ i \in 1 .. p /\ t[i] = c[i]
             \/ i = p + 1 /\ t[i] = f
             \/ i \in p + 2 .. n + 1 /\ t[i] = c[i - 1]
  <2>1. CASE i \in p + 2 .. n + 1
    <3>1. i - 1 \in p + 1 .. n /\ (i - 1) + 1 = i
      BY <2>1
    <3>2. t[(i - 1) + 1] = c[i - 1]
      BY <3>1
    <3> QED BY <3>1, <3>2, <2>1
  <2> QED BY <2>1
<1> QED BY <1>1

\* What is found behind a position of a spliced sequence.
LEMMA SpliceSets ==
  ASSUME NEW n \in Nat, NEW p \in 1 .. n, NEW c, NEW t, NEW f,
         Spliced(t, n, c, p, f)
  PROVE  /\ \A i \in p .. n : Elements(t, i + 2, n + 1) = Elements(c, i + 1, n)
         /\ \A i \in 0 .. p : Elements(t, i + 1, n + 1) = Elements(c, i + 1, n) \cup {f}
<1>1. /\ \A i \in 1 .. n + 1 : \/ i \in 1 .. p /\ t[i] = c[i]
                               \/ i = p + 1 /\ t[i] = f
                               \/ i \in p + 2 .. n + 1 /\ t[i] = c[i - 1]
      /\ \A i \in 1 .. n : \/ i \in 1 .. p /\ c[i] = t[i]
                           \/ i \in p + 1 .. n /\ c[i] = t[i + 1]
  BY SpliceIndex
<1> USE DEF Spliced, Elements
<1>2. ASSUME NEW i \in 0 .. p
      PROVE  Elements(t, i + 1, n + 1) = Elements(c, i + 1, n) \cup {f}
  <2>1. ASSUME NEW k \in i + 1 .. n + 1
        PROVE  t[k] = f \/ \E m \in i + 1 .. n : c[m] = t[k]
    <3>1. k \in 1 .. n + 1
      OBVIOUS
    <3>2. CASE k \in 1 .. p
      <4>1. k \in i + 1 .. n /\ t[k] = c[k]
        BY <3>2
      <4> QED BY <4>1
    <3>3. CASE k \in p + 2 .. n + 1
      <4>1. k - 1 \in i + 1 .. n /\ t[k] = c[k - 1]
        BY <1>1, <3>1, <3>3
      <4> QED BY <4>1
    <3> QED BY <3>1, <3>2, <3>3, <1>1
  <2>2. ASSUME NEW k \in i + 1 .. n
        PROVE  \E m \in i + 1 .. n + 1 : t[m] = c[k]
    <3>1. CASE k \in 1 .. p
      <4>1. k \in i + 1 .. n + 1 /\ t[k] = c[k]
        BY <3>1
      <4> QED BY <4>1
    <3>2. CASE k \in p + 1 .. n
      <4>1. k + 1 \in i + 1 .. n + 1 /\ t[k + 1] = c[k]
        BY <3>2
      <4> QED BY <4>1
    <3> QED BY <3>1, <3>2
  <2>3. p + 1 \in i + 1 .. n + 1 /\ t[p + 1] = f
    OBVIOUS
  <2>4. Elements(t, i + 1, n + 1) \subseteq Elements(c, i + 1, n) \cup {f}
    BY <2>1
  <2>5. Elements(c, i + 1, n) \subseteq Elements(t, i + 1, n + 1)
    BY <2>2
  <2>6. f \in Elements(t, i + 1, n + 1)
    BY <2>3
  <2> QED BY <2>4, <2>5, <2>6
<1>3. ASSUME NEW i \in p .. n
      PROVE  Elements(t, i + 2, n + 1) = Elements(c, i + 1, n)
  <2>1. ASSUME NEW k \in i + 2 .. n + 1
        PROVE  \E m \in i + 1 .. n : c[m] = t[k]
    <3>1. k - 1 \in i + 1 .. n /\ t[k] = c[k - 1]
      BY <1>1
    <3> QED BY <3>1
  <2>2. ASSUME NEW k \in i + 1 .. n
        PROVE  \E m \in i + 2 .. n + 1 : t[m] = c[k]
    <3>1. k + 1 \in i + 2 .. n + 1 /\ t[k + 1] = c[k]
      OBVIOUS
    <3> QED BY <3>1
  <2> QED BY <2>1, <2>2
<1> QED BY <1>2, <1>3

\* Splicing a new element into a sequence without repetition adds none.
LEMMA SpliceInjective ==
  ASSUME NEW n \in Nat, NEW p \in 1 .. n, NEW c, NEW t, NEW f,
         Spliced(t, n, c, p, f),
         Distinct(c, n),
         f \notin Elements(c, 1, n)
  PROVE  Distinct(t, n + 1)
<1>1. /\ \A i \in 1 .. n + 1 : \/ i \in 1 .. p /\ t[i] = c[i]
                               \/ i = p + 1 /\ t[i] = f
                               \/ i \in p + 2 .. n + 1 /\ t[i] = c[i - 1]
      /\ \A i \in 1 .. n : \/ i \in 1 .. p /\ c[i] = t[i]
                           \/ i \in p + 1 .. n /\ c[i] = t[i + 1]
  BY SpliceIndex
<1>2. SUFFICES ASSUME NEW i \in 1 .. n + 1, NEW j \in 1 .. n + 1, t[i] = t[j]
               PROVE  i = j
  BY DEF Distinct
<1>3. CASE i = p + 1 \/ j = p + 1
  BY <1>1, <1>2, <1>3 DEF Elements
<1>4. CASE i # p + 1 /\ j # p + 1
  <2> DEFINE oi == IF i <= p THEN i ELSE i - 1
             oj == IF j <= p THEN j ELSE j - 1
  <2>1. oi \in 1 .. n /\ t[i] = c[oi] 
    BY <1>1, <1>4
  <2>2. oj \in 1 .. n /\ t[j] = c[oj] 
    BY <1>1, <1>4
  <2>3. oi = oj 
    BY <2>1, <2>2, <1>2 DEF Distinct
  <2> QED BY <2>3, <1>4
<1> QED BY <1>3, <1>4

\* Splicing a fresh block in behind current puts it between the blocks up to
\* current and the blocks that were behind it, and moves nothing else.
LEMMA Splice ==
  ASSUME TypeOK, ChainOK, current # NoBlock,
         NEW fresh \in BlockId, ~InChain(chain, fresh),
         chain' = InsertAt(chain, Pos(chain, current) + 1, fresh)
  PROVE  /\ chain' \in Seq(BlockId)
         /\ chain' # <<>> /\ chain'[1] = chain[1]
         /\ \A i, j \in 1 .. Len(chain') : chain'[i] = chain'[j] => i = j
         /\ \A b : InChain(chain', b) <=> (b = fresh \/ InChain(chain, b))
         /\ After(chain', fresh) = After(chain, current)
         /\ \A b : InChain(chain, b) /\ b \notin After(chain, current) =>
                     After(chain', b) = After(chain, b) \cup {fresh}
         /\ \A b : b \in After(chain, current) =>
                     After(chain', b) = After(chain, b)
<1> DEFINE n == Len(chain)
           p == Pos(chain, current)
<1>1. chain \in Seq(BlockId) /\ n \in Nat
  BY DEF TypeOK
<1>2. p \in 1 .. n /\ chain[p] = current
  <2>1. PICK i \in 1 .. n : chain[i] = current
    BY DEF ChainOK, InChain
  <2> QED BY <2>1, PosOfBlock
<1>3. /\ chain' \in Seq(BlockId)
      /\ Len(chain') = n + 1
      /\ Spliced(chain', n, chain, p, fresh)
  BY <1>1, <1>2, InsertBehind
<1>4. Distinct(chain', n + 1)
  <2>1. fresh \notin Elements(chain, 1, n)
    BY DEF InChain, Elements
  <2>2. Distinct(chain, n)
    BY DEF ChainOK, Distinct
  <2> HIDE DEF n, p
  <2> QED BY <2>1, <2>2, <1>1, <1>2, <1>3, SpliceInjective
<1>5. /\ \A i \in p .. n : Elements(chain', i + 2, n + 1) = Elements(chain, i + 1, n)
      /\ \A i \in 0 .. p : Elements(chain', i + 1, n + 1)
                           = Elements(chain, i + 1, n) \cup {fresh}
  <2> HIDE DEF n, p
  <2> QED BY <1>1, <1>2, <1>3, SpliceSets
<1>6. \A i \in 1 .. n : After(chain, chain[i]) = Elements(chain, i + 1, n)
  BY PosOfBlock DEF After, Elements
<1>7. ASSUME NEW i \in 1 .. n + 1, NEW b, b = chain'[i]
      PROVE  After(chain', b) = Elements(chain', i + 1, n + 1)
  <2>1. Pos(chain', b) = i
    BY <1>3, <1>4, <1>7 DEF Pos, Distinct
  <2> QED BY <2>1, <1>3 DEF After, Elements
<1>8. \A b : InChain(chain', b) <=> (b = fresh \/ InChain(chain, b))
  <2>1. \A b : InChain(chain', b) <=> b \in Elements(chain', 1, n + 1)
    BY <1>3 DEF InChain, Elements
  <2>2. \A b : InChain(chain, b) <=> b \in Elements(chain, 1, n)
    BY DEF InChain, Elements
  <2>3. Elements(chain', 1, n + 1) = Elements(chain, 1, n) \cup {fresh}
    <3>1. 0 \in 0 .. p /\ 0 + 1 = 1
      BY <1>1, <1>2
    <3> QED BY <3>1, <1>5
  <2> QED BY <2>1, <2>2, <2>3
<1>9. After(chain', fresh) = After(chain, current)
  <2>1. p + 1 \in 1 .. n + 1 /\ chain'[p + 1] = fresh /\ (p + 1) + 1 = p + 2
    BY <1>1, <1>2, <1>3 DEF Spliced
  <2>2. After(chain', fresh) = Elements(chain', p + 2, n + 1)
    BY <2>1, <1>7
  <2>3. After(chain, chain[p]) = Elements(chain, p + 1, n)
    BY <1>2, <1>6
  <2> QED BY <2>1, <2>2, <2>3, <1>2, <1>5
<1>10. \A b : InChain(chain, b) /\ b \notin After(chain, current) => After(chain', b) = After(chain, b) \cup {fresh}
  <2> SUFFICES ASSUME NEW b, InChain(chain, b), b \notin After(chain, current)
               PROVE  After(chain', b) = After(chain, b) \cup {fresh}
    OBVIOUS
  <2>1. PICK i \in 1 .. n : chain[i] = b
    BY DEF InChain
  <2>2. i \in 1 .. p
    <3>1. After(chain, current) = Elements(chain, p + 1, n)
      BY <1>2, <1>6
    <3> QED BY <3>1, <2>1, <1>1, <1>2 DEF Elements
  <2>3. i \in 1 .. n + 1 /\ chain'[i] = b
    <3>1. chain'[i] = chain[i]
      BY <2>2, <1>3 DEF Spliced
    <3> QED BY <3>1, <2>1, <1>1
  <2>4. After(chain', b) = Elements(chain', i + 1, n + 1)
    BY <2>3, <1>7
  <2>5. After(chain, b) = Elements(chain, i + 1, n)
    BY <2>1, <1>6
  <2>6. i \in 0 .. p
    BY <2>2, <1>1, <1>2
  <2> QED BY <2>4, <2>5, <2>6, <1>5
<1>11. chain' # <<>> /\ chain'[1] = chain[1]
  BY <1>1, <1>2, <1>3 DEF Spliced
<1>12. ASSUME NEW b, b \in After(chain, current)
       PROVE  After(chain', b) = After(chain, b)
  <2>1. After(chain, current) = Elements(chain, p + 1, n)
    BY <1>2, <1>6
  <2>2. PICK i \in p + 1 .. n : chain[i] = b
    BY <2>1, <1>12 DEF Elements
  <2>3. /\ i \in 1 .. n /\ i \in p .. n /\ i + 1 \in 1 .. n + 1
        /\ chain'[i + 1] = b /\ (i + 1) + 1 = i + 2
    BY <2>2, <1>1, <1>2, <1>3 DEF Spliced
  <2>4. After(chain', b) = Elements(chain', i + 2, n + 1)
    BY <2>3, <1>7
  <2>5. After(chain, b) = Elements(chain, i + 1, n)
    BY <2>2, <2>3, <1>6
  <2> QED BY <2>3, <2>4, <2>5, <1>5
<1> QED
  BY <1>3, <1>4, <1>8, <1>9, <1>10, <1>11, <1>12 DEF Distinct
----------------------------------------------------------------------------
(* Every operation preserves the invariant                                 *)

\* Constants are natural numbers.
LEMMA Naturals1 ==
  /\ Data \in Nat /\ Data > 0
  /\ \A n \in Nat : NewEnd(n) \in Nat /\ Data + n <= NewEnd(n)
  /\ Aligns \subseteq Nat \ {0}
BY ArenaAssumption DEF Data, NewEnd

\* What the live pointers and the snapshots are made of.
LEMMA LiveTypes ==
  ASSUME TypeOK, NEW i \in 1 .. Len(live)
  PROVE  live[i].block \in BlockId /\ live[i].lo \in Nat /\ live[i].hi \in Nat
<1>1. live[i] \in Allocation
  BY ElementOfSeq DEF TypeOK
<1> QED BY <1>1 DEF Allocation

LEMMA SnapTypes ==
  ASSUME TypeOK, NEW k \in 1 .. Len(snaps)
  PROVE  snaps[k].block \in BlockId /\ snaps[k].ptr \in Nat /\ snaps[k].mark \in Nat
<1>1. snaps[k] \in Snapshot
  BY ElementOfSeq DEF TypeOK
<1> QED BY <1>1 DEF Snapshot

\* An allocation appends one pointer to the live ones.
LEMMA Handed ==
  ASSUME TypeOK, NEW b \in BlockId, NEW lo \in Nat, NEW size \in Nat,
         NEW align \in Aligns, Hand(b, lo, size, align)
  PROVE  /\ live' \in Seq(Allocation)
         /\ replay' \in Seq(Allocation)
         /\ Len(live) \in Nat /\ Len(live') = Len(live) + 1
         /\ \A i \in 1 .. Len(live) : live'[i] = live[i]
         /\ live'[Len(live) + 1].block = b
         /\ live'[Len(live) + 1].lo = lo
         /\ live'[Len(live) + 1].hi = lo + size
         /\ live'[Len(live) + 1].align = align
<1> DEFINE rec == [block |-> b, lo |-> lo, hi |-> lo + size, align |-> align]
<1>1. rec \in Allocation
  BY DEF Allocation
<1>2. live \in Seq(Allocation) /\ replay \in Seq(Allocation)
  BY DEF TypeOK
<1>3. live' = Append(live, rec)
  BY DEF Hand
<1>4. replay' = <<>> \/ (replay # <<>> /\ replay' = Tail(replay))
  BY DEF Hand
<1>5. rec.block = b /\ rec.lo = lo /\ rec.hi = lo + size /\ rec.align = align
  OBVIOUS
<1> HIDE DEF rec
<1>6. replay' \in Seq(Allocation)
  BY <1>2, <1>4, HeadTailProperties, EmptySeq
<1> QED BY <1>1, <1>2, <1>3, <1>5, <1>6

\* What is live is not behind the current block.
LEMMA LiveNotBehind ==
  ASSUME ArenaInv, NEW i \in 1 .. Len(live)
  PROVE  current # NoBlock /\ live[i].block \notin After(chain, current)
<1>1. /\ live[i].block \in BlockId /\ live[i].lo \in Nat /\ live[i].hi \in Nat
      /\ ptr \in [BlockId -> Nat] /\ Data \in Nat
  BY LiveTypes, Naturals1 DEF ArenaInv, TypeOK
<1>2. /\ InChain(chain, live[i].block) /\ Data <= live[i].lo /\ live[i].lo < live[i].hi
      /\ live[i].hi <= ptr[live[i].block]
  BY DEF ArenaInv, LiveInBounds
<1>3. chain # <<>>
  BY <1>2 DEF InChain
<1>4. current # NoBlock
  BY <1>3, ChainOrder DEF ArenaInv, ChainOK, NoBlock, BlockId
<1>5. ptr[live[i].block] # Data
  <2>1. ptr[live[i].block] \in Nat
    BY <1>1
  <2> QED BY <1>1, <1>2, <2>1
<1> QED BY <1>4, <1>5 DEF ArenaInv, TailRewound

LEMMA InitInv == Init => ArenaInv
<1> SUFFICES ASSUME Init PROVE ArenaInv
  OBVIOUS
<1> USE DEF Init
<1>1. 1 \in BlockId
  BY ArenaAssumption DEF BlockId
<1>2. BLOCK_SIZE \in Nat
  BY ArenaAssumption
<1>3. live = <<>> /\ snaps = <<>> /\ replay = <<>> /\ crashed = FALSE
  OBVIOUS
<1>4. CASE chain = <<1>> /\ current = 1
  <2>1. /\ ptr = [b \in BlockId |-> IF b = 1 THEN Data ELSE 0]
        /\ end = [b \in BlockId |-> IF b = 1 THEN NewEnd(BLOCK_SIZE) ELSE 0]
    BY <1>4
  <2>2. TypeOK
    <3>1. chain \in Seq(BlockId)
      BY <1>1, <1>4
    <3>2. NewEnd(BLOCK_SIZE) \in Nat
      BY <1>2, Naturals1
    <3>3. ptr \in [BlockId -> Nat] /\ end \in [BlockId -> Nat]
      BY <2>1, <3>2, Naturals1
    <3>4. /\ live \in Seq(Allocation) /\ snaps \in Seq(Snapshot)
          /\ replay \in Seq(Allocation)
      BY <1>3, EmptySeq
    <3> QED BY <1>1, <1>3, <1>4, <3>1, <3>3, <3>4 DEF TypeOK
  <2>3. \A b : InChain(chain, b) <=> b = 1
    BY <1>4 DEF InChain
  <2>4. ChainOK
    <3>1. Data <= NewEnd(BLOCK_SIZE)
      BY <1>2, Naturals1
    <3>2. Len(chain) = 1 /\ chain # <<>>
      BY <1>4
    <3>3. InChain(chain, current)
      BY <1>4, <2>3
    <3>4. \A b \in BlockId : InChain(chain, b) => Data <= ptr[b] /\ ptr[b] <= end[b]
      BY <2>1, <2>3, <3>1, Naturals1
    <3> QED BY <3>2, <3>3, <3>4 DEF ChainOK
  <2>5. After(chain, 1) = {}
    <3>1. Len(chain) = 1 /\ chain[1] = 1
      BY <1>4
    <3>2. Pos(chain, 1) = 1
      BY <2>4, <3>1, PosOfBlock
    <3> QED BY <3>1, <3>2 DEF After
  <2> QED BY <1>3, <1>4, <2>2, <2>4, <2>5
          DEF ArenaInv, TailRewound, LiveInBounds, LiveDisjoint, SnapsCover, SnapsNested
<1>5. CASE chain = <<>> /\ current = NoBlock
  <2>1. ptr = [b \in BlockId |-> 0] /\ end = [b \in BlockId |-> 0]
    BY <1>5
  <2>2. TypeOK
    <3>1. ptr \in [BlockId -> Nat] /\ end \in [BlockId -> Nat]
      BY <2>1
    <3>2. /\ live \in Seq(Allocation) /\ snaps \in Seq(Snapshot)
          /\ replay \in Seq(Allocation) /\ chain \in Seq(BlockId)
      BY <1>3, <1>5, EmptySeq
    <3> QED BY <1>3, <1>5, <3>1, <3>2 DEF TypeOK
  <2>3. ChainOK
    BY <1>5 DEF ChainOK, InChain
  <2> QED BY <1>3, <1>5, <2>2, <2>3
          DEF ArenaInv, TailRewound, LiveInBounds, LiveDisjoint, SnapsCover, SnapsNested
<1> QED BY <1>4, <1>5 DEF NoBlock

LEMMA DestroyInv == ArenaInv /\ arena_destroy => ArenaInv'
<1> SUFFICES ASSUME ArenaInv, arena_destroy PROVE ArenaInv'
  OBVIOUS
<1>1. /\ chain' = <<>> /\ current' = NoBlock
      /\ live' = <<>> /\ snaps' = <<>> /\ replay' = <<>>
      /\ ptr' = [b \in BlockId |-> 0] /\ end' = [b \in BlockId |-> 0]
      /\ crashed' = crashed
  BY DEF arena_destroy
<1>2. TypeOK'
  BY <1>1 DEF ArenaInv, TypeOK
<1>3. ChainOK'
  BY <1>1 DEF ChainOK, InChain
<1> QED BY <1>1, <1>2, <1>3
        DEF ArenaInv, TailRewound, LiveInBounds, LiveDisjoint, SnapsCover, SnapsNested

LEMMA ResetInv == ArenaInv /\ arena_reset => ArenaInv'
<1> SUFFICES ASSUME ArenaInv, arena_reset PROVE ArenaInv'
  OBVIOUS
<1>1. /\ UNCHANGED <<chain, end, crashed>>
      /\ ptr' = [b \in BlockId |-> IF InChain(chain, b) THEN Data ELSE ptr[b]]
      /\ current' = IF chain = <<>> THEN NoBlock ELSE chain[1]
      /\ live' = <<>> /\ snaps' = <<>> /\ replay' = live
  BY DEF arena_reset, First
<1>2. TypeOK
  BY DEF ArenaInv
<1>3. chain # <<>> => 1 \in 1 .. Len(chain) /\ chain[1] \in BlockId
  BY <1>2 DEF TypeOK
<1>4. TypeOK'
  <2>1. ptr' \in [BlockId -> Nat]
    BY <1>1, <1>2, Naturals1 DEF TypeOK
  <2>2. snaps' \in Seq(Snapshot) /\ live' \in Seq(Allocation)
    BY <1>1, EmptySeq
  <2> QED BY <1>1, <1>2, <1>3, <2>1, <2>2 DEF TypeOK
<1>5. /\ \A b : InChain(chain', b) = InChain(chain, b)
      /\ After(chain', current') = After(chain, current')
  BY <1>1
<1>6. ChainOK'
  <2>1. chain # <<>> => InChain(chain', current')
    BY <1>1, <1>3, <1>5 DEF InChain
  <2>2. \A b \in BlockId : InChain(chain, b) => Data <= end[b]
    BY <1>2, Naturals1 DEF ArenaInv, ChainOK, TypeOK
  <2>3. \A b \in BlockId : InChain(chain', b) => Data <= ptr'[b] /\ ptr'[b] <= end'[b]
    <3> TAKE b \in BlockId
    <3> HAVE InChain(chain', b)
    <3>1. InChain(chain, b) /\ ptr'[b] = Data /\ end'[b] = end[b]
      BY <1>1, <1>5
    <3> QED BY <3>1, <2>2, Naturals1
  <2> QED BY <1>1, <1>5, <2>1, <2>3 DEF ArenaInv, ChainOK
<1>7. TailRewound'
  <2> SUFFICES ASSUME current' # NoBlock, NEW b \in After(chain', current')
               PROVE  ptr'[b] = Data
    BY DEF TailRewound
  <2>1. chain # <<>> /\ current' = chain[1]
    BY <1>1
  <2>2. InChain(chain, chain[1]) /\ b \in After(chain, chain[1])
    BY <2>1, <1>3, <1>5 DEF InChain
  <2>3. InChain(chain, b) /\ b \in BlockId
    BY <1>2, <2>2, ChainOrder DEF ArenaInv
  <2> QED BY <2>3, <1>1
<1> QED BY <1>1, <1>4, <1>6, <1>7
        DEF ArenaInv, LiveInBounds, LiveDisjoint, SnapsCover, SnapsNested

LEMMA AllocInChainInv ==
  ASSUME ArenaInv, NEW size \in Nat \ {0}, NEW align \in Aligns,
         AllocInChain(size, align), UNCHANGED crashed
  PROVE  ArenaInv'
<1>1. PICK b \in From(chain, current) :
        /\ Fits(b, size, align)
        /\ current' = b
        /\ ptr' = [ptr EXCEPT ![b] = Bumped(b, size, align)]
        /\ Hand(b, align_up(ptr[b], align), size, align)
  BY DEF AllocInChain
<1>2. UNCHANGED <<chain, end, crashed, snaps>> /\ current # NoBlock
  BY DEF AllocInChain
<1>3. TypeOK /\ ChainOK
  BY DEF ArenaInv
<1>4. ptr \in [BlockId -> Nat] /\ end \in [BlockId -> Nat]
  BY <1>3 DEF TypeOK
<1>5. InChain(chain, current)
  BY <1>2, <1>3 DEF ChainOK
<1>6. InChain(chain, b) /\ b \in BlockId /\ (b = current \/ b \in After(chain, current))
  BY <1>1, <1>3, <1>5, ChainOrder DEF From
<1> DEFINE lo == align_up(ptr[b], align)
<1>7. /\ lo \in Nat /\ Data <= ptr[b] /\ ptr[b] <= lo /\ lo + size <= end[b]
      /\ ptr[b] \in Nat
  <2>1. align \in Nat \ {0} /\ ptr[b] \in Nat
    BY <1>4, <1>6, Naturals1
  <2> QED BY <1>1, <1>3, <1>6, <2>1, AlignUpBounds DEF Fits, ChainOK
<1>8. ptr' = [ptr EXCEPT ![b] = lo + size] /\ Hand(b, lo, size, align)
  BY <1>1 DEF Bumped
<1> HIDE DEF lo
<1>9. /\ \A c : InChain(chain', c) = InChain(chain, c)
      /\ \A c : After(chain', c) = After(chain, c)
      /\ InChain(chain', current') /\ After(chain', current') = After(chain, b)
  BY <1>1, <1>2, <1>6
<1>10. /\ live' \in Seq(Allocation) /\ replay' \in Seq(Allocation)
       /\ Len(live) \in Nat /\ Len(live') = Len(live) + 1
       /\ \A i \in 1 .. Len(live) : live'[i] = live[i]
       /\ live'[Len(live) + 1].block = b
       /\ live'[Len(live) + 1].lo = lo
       /\ live'[Len(live) + 1].hi = lo + size
  BY <1>3, <1>6, <1>7, <1>8, Handed
<1>11. /\ ptr' \in [BlockId -> Nat]
       /\ ptr'[b] = lo + size
       /\ \A c \in BlockId : c # b => ptr'[c] = ptr[c]
       /\ \A c \in BlockId : ptr[c] <= ptr'[c]
  BY <1>4, <1>6, <1>7, <1>8
<1>12. TypeOK'
  BY <1>1, <1>2, <1>3, <1>6, <1>10, <1>11 DEF TypeOK
<1>13. ChainOK'
  <2>1. \A c \in BlockId : InChain(chain, c) => Data <= ptr'[c] /\ ptr'[c] <= end[c]
    <3> TAKE c \in BlockId
    <3> HAVE InChain(chain, c)
    <3>1. Data <= ptr[c] /\ ptr[c] <= end[c]
      BY <1>3 DEF ChainOK
    <3>2. CASE c = b
      BY <3>2, <1>4, <1>6, <1>7, <1>11, Naturals1
    <3>3. CASE c # b
      BY <3>1, <3>3, <1>11
    <3> QED BY <3>2, <3>3
  <2> QED BY <1>2, <1>3, <1>5, <1>9, <2>1 DEF ChainOK
<1>14. TailRewound'
  <2>1. \A c \in After(chain, b) : c \in BlockId /\ c # b /\ c \in After(chain, current)
    BY <1>3, <1>5, <1>6, ChainOrder
  <2> QED BY <1>2, <1>9, <1>11, <2>1 DEF ArenaInv, TailRewound
<1>15. LiveInBounds'
  <2> SUFFICES ASSUME NEW i \in 1 .. Len(live) + 1
               PROVE  /\ InChain(chain, live'[i].block)
                      /\ Data <= live'[i].lo
                      /\ live'[i].lo < live'[i].hi
                      /\ live'[i].hi <= ptr'[live'[i].block]
                      /\ ptr'[live'[i].block] <= end[live'[i].block]
    BY <1>2, <1>9, <1>10 DEF LiveInBounds
  <2>1. CASE i = Len(live) + 1
    BY <2>1, <1>4, <1>6, <1>7, <1>10, <1>11, Naturals1, SMTT(30)
  <2>2. CASE i \in 1 .. Len(live)
    <3>1. /\ live'[i] = live[i] /\ live[i].block \in BlockId
          /\ live[i].hi \in Nat
      BY <2>2, <1>3, <1>10, LiveTypes
    <3>2. /\ InChain(chain, live[i].block) /\ Data <= live[i].lo
          /\ live[i].lo < live[i].hi /\ live[i].hi <= ptr[live[i].block]
      BY <2>2 DEF ArenaInv, LiveInBounds
    <3>3. ptr'[live[i].block] <= end[live[i].block]
      BY <1>2, <1>9, <1>13, <3>1, <3>2 DEF ChainOK
    <3>4. live[i].hi <= ptr'[live[i].block]
      BY <1>4, <1>11, <3>1, <3>2
    <3> QED BY <3>1, <3>2, <3>3, <3>4
  <2> QED BY <2>1, <2>2, <1>10
<1>16. LiveDisjoint'
  <2> SUFFICES ASSUME NEW i \in 1 .. Len(live) + 1, NEW j \in 1 .. Len(live) + 1,
                      i < j, live'[i].block = live'[j].block
               PROVE  live'[i].hi <= live'[j].lo
    BY <1>10 DEF LiveDisjoint
  <2>1. i \in 1 .. Len(live) /\ live'[i] = live[i]
    BY <1>10
  <2>2. CASE j \in 1 .. Len(live)
    <3>1. live'[j] = live[j]
      BY <2>2, <1>10
    <3> QED BY <2>1, <2>2, <3>1 DEF ArenaInv, LiveDisjoint
  <2>3. CASE j = Len(live) + 1
    <3>1. live[i].hi <= ptr[b] /\ live[i].hi \in Nat
      <4>1. live[i].block = b
        BY <2>1, <2>3, <1>10
      <4> QED BY <4>1, <2>1, <1>3, LiveTypes DEF ArenaInv, LiveInBounds
    <3> QED BY <2>1, <2>3, <3>1, <1>7, <1>10
  <2> QED BY <2>2, <2>3, <1>10
<1>17. SnapsCover'
  <2> SUFFICES ASSUME NEW k \in 1 .. Len(snaps)
               PROVE  /\ InChain(chain, snaps[k].block)
                      /\ snaps[k].block \notin After(chain, b)
                      /\ Data <= snaps[k].ptr
                      /\ snaps[k].ptr <= ptr'[snaps[k].block]
                      /\ snaps[k].mark <= Len(live) + 1
                      /\ \A i \in 1 .. snaps[k].mark :
                           /\ live'[i].block \notin After(chain, snaps[k].block)
                           /\ live'[i].block = snaps[k].block
                                => live'[i].hi <= snaps[k].ptr
    BY <1>2, <1>9, <1>10 DEF SnapsCover
  <2>1. /\ InChain(chain, snaps[k].block)
        /\ snaps[k].block \notin After(chain, current)
        /\ Data <= snaps[k].ptr
        /\ snaps[k].ptr <= ptr[snaps[k].block]
        /\ snaps[k].mark <= Len(live)
        /\ \A i \in 1 .. snaps[k].mark :
             /\ live[i].block \notin After(chain, snaps[k].block)
             /\ live[i].block = snaps[k].block => live[i].hi <= snaps[k].ptr
    BY DEF ArenaInv, SnapsCover
  <2>2. snaps[k].block \in BlockId /\ snaps[k].ptr \in Nat /\ snaps[k].mark \in Nat
    BY <1>3, SnapTypes
  <2>3. snaps[k].block \notin After(chain, b)
    BY <2>1, <1>3, <1>5, <1>6, ChainOrder
  <2>4. snaps[k].ptr <= ptr'[snaps[k].block]
    BY <2>1, <2>2, <1>4, <1>11
  <2>5. \A i \in 1 .. snaps[k].mark : live'[i] = live[i]
    BY <2>1, <2>2, <1>10
  <2>6. snaps[k].mark <= Len(live) + 1
    BY <2>1, <2>2, <1>10
  <2> QED BY <2>1, <2>3, <2>4, <2>5, <2>6
<1>18. SnapsNested'
  BY <1>2, <1>9 DEF ArenaInv, SnapsNested
<1> QED BY <1>12, <1>13, <1>14, <1>15, <1>16, <1>17, <1>18 DEF ArenaInv

LEMMA AllocFreshInv ==
  ASSUME ArenaInv, NEW size \in Nat \ {0}, NEW align \in Aligns,
         AllocFresh(size, align), UNCHANGED crashed
  PROVE  ArenaInv'
<1>1. PICK fresh \in Unused :
        /\ chain' = InsertAt(chain, Pos(chain, current) + 1, fresh)
        /\ current' = fresh
        /\ end' = [end EXCEPT ![fresh] = NewEnd(size + align)]
        /\ ptr' = [ptr EXCEPT ![fresh] = align_up(Data, align) + size]
        /\ Hand(fresh, align_up(Data, align), size, align)
  BY DEF AllocFresh
<1>2. UNCHANGED <<crashed, snaps>> /\ current # NoBlock
  BY DEF AllocFresh
<1>3. TypeOK /\ ChainOK
  BY DEF ArenaInv
<1>4. /\ ptr \in [BlockId -> Nat] /\ end \in [BlockId -> Nat]
      /\ fresh \in BlockId /\ ~InChain(chain, fresh)
  BY <1>1, <1>3 DEF TypeOK, Unused
<1>5. InChain(chain, current)
  BY <1>2, <1>3 DEF ChainOK
<1> DEFINE lo == align_up(Data, align)
           top == NewEnd(size + align)
<1>6. lo \in Nat /\ Data <= lo /\ top \in Nat /\ lo + size <= top
  <2>1. align \in Nat \ {0} /\ size + align \in Nat /\ Data \in Nat
    BY Naturals1
  <2>2. lo \in Nat /\ Data <= lo /\ lo < Data + align
    BY <2>1, AlignUpBounds
  <2>3. top \in Nat /\ Data + (size + align) <= top
    BY <2>1, Naturals1
  <2> HIDE DEF lo, top
  <2> QED BY <2>1, <2>2, <2>3
<1>7. /\ ptr' = [ptr EXCEPT ![fresh] = lo + size]
      /\ end' = [end EXCEPT ![fresh] = top]
      /\ Hand(fresh, lo, size, align)
  BY <1>1
<1> HIDE DEF lo, top
<1>8. /\ chain' \in Seq(BlockId)
      /\ chain' # <<>>
      /\ \A i, j \in 1 .. Len(chain') : chain'[i] = chain'[j] => i = j
      /\ \A b : InChain(chain', b) <=> (b = fresh \/ InChain(chain, b))
      /\ After(chain', fresh) = After(chain, current)
      /\ \A b : InChain(chain, b) /\ b \notin After(chain, current) => After(chain', b) = After(chain, b) \cup {fresh}
  BY <1>1, <1>2, <1>3, <1>4, Splice
<1>9. InChain(chain', current') /\ After(chain', current') = After(chain, current)
  BY <1>1, <1>8
<1>10. /\ live' \in Seq(Allocation) /\ replay' \in Seq(Allocation)
       /\ Len(live) \in Nat /\ Len(live') = Len(live) + 1
       /\ \A i \in 1 .. Len(live) : live'[i] = live[i]
       /\ live'[Len(live) + 1].block = fresh
       /\ live'[Len(live) + 1].lo = lo
       /\ live'[Len(live) + 1].hi = lo + size
  BY <1>3, <1>4, <1>6, <1>7, Handed
<1>11. /\ ptr' \in [BlockId -> Nat] /\ end' \in [BlockId -> Nat]
       /\ ptr'[fresh] = lo + size /\ end'[fresh] = top
       /\ \A c \in BlockId : c # fresh => ptr'[c] = ptr[c] /\ end'[c] = end[c]
  BY <1>4, <1>6, <1>7
<1>12. \A c : InChain(chain, c) => c # fresh /\ c \in BlockId /\ ptr'[c] = ptr[c] /\ end'[c] = end[c]
  BY <1>3, <1>4, <1>11, ChainOrder
<1>13. \A i \in 1 .. Len(live) : live'[i] = live[i] /\ InChain(chain, live[i].block)
  BY <1>10 DEF ArenaInv, LiveInBounds
<1>14. TypeOK'
  BY <1>1, <1>2, <1>3, <1>4, <1>8, <1>10, <1>11 DEF TypeOK
<1>15. ChainOK'
  <2>1. ASSUME NEW c \in BlockId, InChain(chain', c)
        PROVE  Data <= ptr'[c] /\ ptr'[c] <= end'[c]
    <3>1. CASE c = fresh
      BY <3>1, <1>6, <1>11, Naturals1
    <3>2. CASE InChain(chain, c)
      BY <3>2, <1>3, <1>12 DEF ChainOK
    <3> QED BY <2>1, <3>1, <3>2, <1>8
  <2> QED BY <2>1, <1>8, <1>9 DEF ChainOK
<1>16. TailRewound'
  <2>1. \A c \in After(chain, current) : InChain(chain, c) /\ ptr[c] = Data
    BY <1>2, <1>3, <1>5, ChainOrder DEF ArenaInv, TailRewound
  <2> QED BY <2>1, <1>9, <1>12 DEF TailRewound
<1>17. LiveInBounds'
  <2> SUFFICES ASSUME NEW i \in 1 .. Len(live) + 1, NEW b, b = live'[i].block
               PROVE  /\ InChain(chain', b)
                      /\ Data <= live'[i].lo
                      /\ live'[i].lo < live'[i].hi
                      /\ live'[i].hi <= ptr'[b]
                      /\ ptr'[b] <= end'[b]
    BY <1>10 DEF LiveInBounds
  <2>1. CASE i = Len(live) + 1
    BY <2>1, <1>6, <1>8, <1>10, <1>11, Naturals1
  <2>2. CASE i \in 1 .. Len(live)
    <3>1. live'[i] = live[i] /\ InChain(chain, b)
      BY <2>2, <1>13
    <3>2. /\ Data <= live[i].lo /\ live[i].lo < live[i].hi
          /\ live[i].hi <= ptr[b] /\ ptr[b] <= end[b]
      BY <2>2, <3>1 DEF ArenaInv, LiveInBounds
    <3> QED BY <3>1, <3>2, <1>8, <1>12
  <2> QED BY <2>1, <2>2, <1>10
<1>18. LiveDisjoint'
  <2> SUFFICES ASSUME NEW i \in 1 .. Len(live) + 1, NEW j \in 1 .. Len(live) + 1,
                      i < j, live'[i].block = live'[j].block
               PROVE  live'[i].hi <= live'[j].lo
    BY <1>10 DEF LiveDisjoint
  <2>1. i \in 1 .. Len(live) /\ live'[i] = live[i]
    BY <1>10
  <2>2. CASE j \in 1 .. Len(live)
    <3>1. live'[j] = live[j]
      BY <2>2, <1>10
    <3> QED BY <2>1, <2>2, <3>1 DEF ArenaInv, LiveDisjoint
  <2>3. CASE j = Len(live) + 1
    BY <2>1, <2>3, <1>4, <1>10, <1>13
  <2>4. j \in 1 .. Len(live) \/ j = Len(live) + 1
    BY <1>10
  <2> QED BY <2>2, <2>3, <2>4
<1>19. SnapsCover'
  <2> SUFFICES ASSUME NEW k \in 1 .. Len(snaps), NEW b, b = snaps[k].block
               PROVE  /\ InChain(chain', b)
                      /\ b \notin After(chain, current)
                      /\ Data <= snaps[k].ptr
                      /\ snaps[k].ptr <= ptr'[b]
                      /\ snaps[k].mark <= Len(live) + 1
                      /\ \A i \in 1 .. snaps[k].mark :
                           /\ live'[i].block \notin After(chain', b)
                           /\ live'[i].block = b => live'[i].hi <= snaps[k].ptr
    BY <1>2, <1>9, <1>10 DEF SnapsCover
  <2>1. /\ InChain(chain, b)
        /\ b \notin After(chain, current)
        /\ Data <= snaps[k].ptr
        /\ snaps[k].ptr <= ptr[b]
        /\ snaps[k].mark <= Len(live)
        /\ \A i \in 1 .. snaps[k].mark :
             /\ live[i].block \notin After(chain, b)
             /\ live[i].block = b => live[i].hi <= snaps[k].ptr
    BY DEF ArenaInv, SnapsCover
  <2>2. snaps[k].mark \in Nat
    BY <1>3, SnapTypes
  <2>3. InChain(chain', b) /\ snaps[k].ptr <= ptr'[b] /\ After(chain', b) = After(chain, b) \cup {fresh}
    BY <2>1, <1>8, <1>12
  <2>4. \A i \in 1 .. snaps[k].mark : /\ live'[i] = live[i]
                                      /\ live[i].block # fresh
    BY <2>1, <2>2, <1>4, <1>10, <1>13
  <2>5. snaps[k].mark <= Len(live) + 1
    BY <2>1, <2>2, <1>10
  <2> QED BY <2>1, <2>3, <2>4, <2>5
<1>20. SnapsNested'
  <2> SUFFICES ASSUME NEW j \in 1 .. Len(snaps), NEW k \in 1 .. Len(snaps), j < k,
                      NEW b, b = snaps[k].block
               PROVE  /\ snaps[j].block \notin After(chain', b)
                      /\ snaps[j].block = b => snaps[j].ptr <= snaps[k].ptr
                      /\ snaps[j].mark <= snaps[k].mark
    BY <1>2 DEF SnapsNested
  <2>1. InChain(chain, snaps[j].block) /\ InChain(chain, b) /\ b \notin After(chain, current)
    BY DEF ArenaInv, SnapsCover
  <2>2. After(chain', b) = After(chain, b) \cup {fresh} /\ snaps[j].block # fresh
    BY <2>1, <1>4, <1>8
  <2> QED BY <2>2 DEF ArenaInv, SnapsNested
<1> QED BY <1>14, <1>15, <1>16, <1>17, <1>18, <1>19, <1>20 DEF ArenaInv

LEMMA SnapshotInv == ArenaInv /\ arena_snapshot => ArenaInv'
<1> SUFFICES ASSUME ArenaInv, arena_snapshot PROVE ArenaInv'
  OBVIOUS
<1>1. UNCHANGED <<chain, current, ptr, end, live, replay>>
  BY DEF arena_snapshot
<1>2. TypeOK /\ ChainOK
  BY DEF ArenaInv
<1>3. /\ \A b : InChain(chain', b) = InChain(chain, b)
      /\ \A b : After(chain', b) = After(chain, b)
      /\ InChain(chain', current') = InChain(chain, current)
      /\ After(chain', current') = After(chain, current)
  BY <1>1
<1>4. ChainOK' /\ TailRewound' /\ LiveInBounds' /\ LiveDisjoint'
  BY <1>1, <1>3
     DEF ArenaInv, ChainOK, TailRewound, LiveInBounds, LiveDisjoint
<1>5. CASE current = NoBlock
  <2>1. snaps' = snaps /\ crashed' = TRUE
    BY <1>5 DEF arena_snapshot
  <2>2. TypeOK'
    BY <2>1, <1>1, <1>2 DEF TypeOK
  <2>3. SnapsCover' /\ SnapsNested'
    BY <2>1, <1>1 DEF ArenaInv, SnapsCover, SnapsNested
  <2> QED BY <2>2, <2>3, <1>4 DEF ArenaInv
<1>6. CASE current # NoBlock
  <2> DEFINE snap == [block |-> current, ptr |-> ptr[current], mark |-> Len(live)]
             m == Len(snaps)
  <2>1. snaps' = Append(snaps, snap) /\ crashed' = crashed
    BY <1>6 DEF arena_snapshot
  <2>2. /\ InChain(chain, current) /\ current \in BlockId /\ ptr[current] \in Nat
        /\ Len(live) \in Nat /\ Data <= ptr[current]
    BY <1>2, <1>6, ChainOrder DEF ChainOK, TypeOK, NoBlock
  <2>3. /\ snap \in Snapshot /\ snap.block = current
        /\ snap.ptr = ptr[current] /\ snap.mark = Len(live)
    BY <2>2 DEF Snapshot
  <2> HIDE DEF snap
  <2>4. /\ snaps' \in Seq(Snapshot) /\ m \in Nat /\ Len(snaps') = m + 1
        /\ \A k \in 1 .. m : snaps'[k] = snaps[k]
        /\ snaps'[m + 1] = snap
    BY <2>1, <2>3, <1>2, AppendProperties DEF TypeOK
  <2> HIDE DEF m
  <2>5. TypeOK'
    BY <2>1, <2>4, <1>1, <1>2 DEF TypeOK
  <2>6. \A k \in 1 .. m : /\ InChain(chain, snaps[k].block)
                          /\ snaps[k].block \notin After(chain, current)
                          /\ snaps[k].ptr <= ptr[snaps[k].block]
                          /\ snaps[k].mark <= Len(live)
    BY DEF ArenaInv, SnapsCover, m
  <2>7. \A i \in 1 .. Len(live) : /\ live[i].block \notin After(chain, current)
                                  /\ live[i].hi <= ptr[live[i].block]
    BY LiveNotBehind DEF ArenaInv, LiveInBounds
  <2>8. SnapsCover'
    <3> SUFFICES ASSUME NEW k \in 1 .. m + 1, NEW b, b = snaps'[k].block
                 PROVE  /\ InChain(chain, b)
                        /\ b \notin After(chain, current)
                        /\ Data <= snaps'[k].ptr
                        /\ snaps'[k].ptr <= ptr[b]
                        /\ snaps'[k].mark <= Len(live)
                        /\ \A i \in 1 .. snaps'[k].mark :
                             /\ live[i].block \notin After(chain, b)
                             /\ live[i].block = b => live[i].hi <= snaps'[k].ptr
      BY <2>4, <1>1 DEF SnapsCover
    <3>1. CASE k \in 1 .. m
      BY <3>1, <2>4 DEF ArenaInv, SnapsCover, m
    <3>2. CASE k = m + 1
      <4>1. current \notin After(chain, current)
        BY <2>2, <1>2, ChainOrder
      <4> QED BY <3>2, <4>1, <2>2, <2>3, <2>4, <2>7
    <3> QED BY <3>1, <3>2, <2>4
  <2>9. SnapsNested'
    <3> SUFFICES ASSUME NEW j \in 1 .. m + 1, NEW k \in 1 .. m + 1, j < k,
                        NEW b, b = snaps'[k].block
                 PROVE  /\ snaps'[j].block \notin After(chain, b)
                        /\ snaps'[j].block = b => snaps'[j].ptr <= snaps'[k].ptr
                        /\ snaps'[j].mark <= snaps'[k].mark
      BY <2>4, <1>1 DEF SnapsNested
    <3>1. j \in 1 .. m /\ snaps'[j] = snaps[j]
      BY <2>4
    <3>2. CASE k \in 1 .. m
      BY <3>1, <3>2, <2>4 DEF ArenaInv, SnapsNested, m
    <3>3. CASE k = m + 1
      BY <3>1, <3>3, <2>3, <2>4, <2>6
    <3> QED BY <3>2, <3>3, <2>4
  <2> QED BY <2>5, <2>8, <2>9, <1>4 DEF ArenaInv
<1> QED BY <1>5, <1>6

LEMMA RestoreInv ==
  ASSUME ArenaInv, NEW k \in 1 .. Len(snaps), arena_restore(k)
  PROVE  ArenaInv'
<1> DEFINE b == snaps[k].block
           mark == snaps[k].mark
           top == snaps[k].ptr
<1>1. /\ UNCHANGED <<chain, end, crashed>>
      /\ ptr' = [c \in BlockId |-> IF c = b THEN top
                                   ELSE IF c \in After(chain, b) THEN Data ELSE ptr[c]]
      /\ current' = b
      /\ live' = SubSeq(live, 1, mark)
      /\ snaps' = SubSeq(snaps, 1, k)
      /\ replay' = SubSeq(live, mark + 1, Len(live))
  BY DEF arena_restore, RewoundTo
<1>2. TypeOK /\ ChainOK
  BY DEF ArenaInv
<1>3. b \in BlockId /\ top \in Nat /\ mark \in Nat
  BY <1>2, SnapTypes
<1>4. /\ InChain(chain, b) /\ b \notin After(chain, current)
      /\ Data <= top /\ top <= ptr[b] /\ mark <= Len(live)
      /\ \A i \in 1 .. mark : /\ live[i].block \notin After(chain, b)
                              /\ live[i].block = b => live[i].hi <= top
  BY DEF ArenaInv, SnapsCover
<1>5. \A j \in 1 .. k : /\ snaps[j].block \notin After(chain, b)
                        /\ snaps[j].block = b => snaps[j].ptr <= top
                        /\ snaps[j].mark <= mark
  <2>1. b \notin After(chain, b)
    BY <1>2, <1>4, ChainOrder
  <2> TAKE j \in 1 .. k
  <2>2. CASE j = k
    BY <2>1, <2>2, <1>3
  <2>3. CASE j < k
    BY <2>3 DEF ArenaInv, SnapsNested
  <2> QED BY <2>2, <2>3
<1>6. Len(live) \in Nat /\ Len(snaps) \in Nat /\ live \in Seq(Allocation) /\ snaps \in Seq(Snapshot)
  BY <1>2 DEF TypeOK
<1> HIDE DEF b, mark, top
<1>7. /\ live' \in Seq(Allocation) /\ Len(live') = mark
      /\ \A i \in 1 .. mark : live'[i] = live[i]
  BY <1>1, <1>3, <1>4, <1>6
<1>8. replay' \in Seq(Allocation)
  BY <1>1, <1>3, <1>6
<1>9. /\ snaps' \in Seq(Snapshot) /\ Len(snaps') = k
      /\ \A j \in 1 .. k : snaps'[j] = snaps[j]
  BY <1>1, <1>6
<1>10. /\ ptr' \in [BlockId -> Nat] /\ ptr'[b] = top
       /\ \A c \in BlockId : c \in After(chain, b) /\ c # b => ptr'[c] = Data
       /\ \A c \in BlockId : c \notin After(chain, b) /\ c # b => ptr'[c] = ptr[c]
  BY <1>1, <1>2, <1>3, Naturals1 DEF TypeOK
<1>11. \A c : InChain(chain, c) => c \in BlockId
  BY <1>2, ChainOrder
<1>12. TypeOK'
  BY <1>1, <1>2, <1>3, <1>7, <1>8, <1>9, <1>10 DEF TypeOK
<1>13. ChainOK'
  <2>1. ASSUME NEW c \in BlockId, InChain(chain, c)
        PROVE  Data <= ptr'[c] /\ ptr'[c] <= end[c]
    <3>1. Data <= ptr[c] /\ ptr[c] <= end[c] /\ ptr[c] \in Nat /\ end[c] \in Nat
      BY <2>1, <1>2 DEF ChainOK, TypeOK
    <3>2. CASE c = b
      BY <3>1, <3>2, <1>3, <1>4, <1>10
    <3>3. CASE c # b
      BY <3>1, <3>3, <1>10, Naturals1
    <3> QED BY <3>2, <3>3
  <2>2. chain # <<>>
    BY <1>4 DEF InChain
  <2> QED BY <2>1, <2>2, <1>1, <1>2, <1>4 DEF ChainOK
<1>14. TailRewound'
  <2>1. \A c \in After(chain, b) : c \in BlockId /\ c # b
    BY <1>2, <1>4, <1>11, ChainOrder
  <2> QED BY <2>1, <1>1, <1>10 DEF TailRewound
<1>15. LiveInBounds'
  <2> SUFFICES ASSUME NEW i \in 1 .. mark
               PROVE  /\ InChain(chain, live[i].block)
                      /\ Data <= live[i].lo
                      /\ live[i].lo < live[i].hi
                      /\ live[i].hi <= ptr'[live[i].block]
                      /\ ptr'[live[i].block] <= end[live[i].block]
    BY <1>1, <1>7 DEF LiveInBounds
  <2>1. i \in 1 .. Len(live)
    BY <1>3, <1>4, <1>6
  <2>2. /\ InChain(chain, live[i].block)
        /\ Data <= live[i].lo
        /\ live[i].lo < live[i].hi
        /\ live[i].hi <= ptr[live[i].block]
    BY <2>1 DEF ArenaInv, LiveInBounds
  <2>3. live[i].block \in BlockId
    BY <2>2, <1>11
  <2>4. live[i].hi <= ptr'[live[i].block]
    BY <2>2, <2>3, <1>4, <1>10
  <2>5. ptr'[live[i].block] <= end[live[i].block]
    BY <2>2, <2>3, <1>1, <1>13 DEF ChainOK
  <2> QED BY <2>2, <2>4, <2>5
<1>16. LiveDisjoint'
  BY <1>3, <1>4, <1>6, <1>7, SMTT(30) DEF ArenaInv, LiveDisjoint
<1>17. SnapsCover'
  <2> SUFFICES ASSUME NEW j \in 1 .. k, NEW c, c = snaps[j].block
               PROVE  /\ InChain(chain, c)
                      /\ c \notin After(chain, b)
                      /\ Data <= snaps[j].ptr
                      /\ snaps[j].ptr <= ptr'[c]
                      /\ snaps[j].mark <= mark
                      /\ \A i \in 1 .. snaps[j].mark :
                           /\ live'[i].block \notin After(chain, c)
                           /\ live'[i].block = c => live'[i].hi <= snaps[j].ptr
    <3>1. /\ \A c : InChain(chain', c) = InChain(chain, c)
          /\ \A c : After(chain', c) = After(chain, c)
          /\ After(chain', current') = After(chain, b)
      BY <1>1
    <3> QED BY <3>1, <1>7, <1>9 DEF SnapsCover
  <2>1. j \in 1 .. Len(snaps)
    BY <1>6
  <2>2. /\ InChain(chain, c)
        /\ Data <= snaps[j].ptr
        /\ snaps[j].ptr <= ptr[c]
        /\ \A i \in 1 .. snaps[j].mark :
             /\ live[i].block \notin After(chain, c)
             /\ live[i].block = c => live[i].hi <= snaps[j].ptr
    BY <2>1 DEF ArenaInv, SnapsCover
  <2>3. c \in BlockId /\ snaps[j].mark \in Nat
    BY <2>1, <1>2, SnapTypes
  <2>4. snaps[j].ptr <= ptr'[c]
    BY <2>2, <2>3, <1>5, <1>10
  <2>5. \A i \in 1 .. snaps[j].mark : live'[i] = live[i]
    BY <2>3, <1>3, <1>5, <1>7
  <2>6. c \notin After(chain, b) /\ snaps[j].mark <= mark
    BY <1>5
  <2>7. \A i \in 1 .. snaps[j].mark : /\ live'[i].block \notin After(chain, c)
                                      /\ live'[i].block = c => live'[i].hi <= snaps[j].ptr
    BY <2>2, <2>5
  <2> QED BY <2>2, <2>4, <2>6, <2>7
<1>18. SnapsNested'
  <2> SUFFICES ASSUME NEW i \in 1 .. k, NEW j \in 1 .. k, i < j, NEW c, c = snaps[j].block
               PROVE  /\ snaps[i].block \notin After(chain, c)
                      /\ snaps[i].block = c => snaps[i].ptr <= snaps[j].ptr
                      /\ snaps[i].mark <= snaps[j].mark
    <3>1. \A d : After(chain', d) = After(chain, d)
      BY <1>1
    <3> QED BY <3>1, <1>9 DEF SnapsNested
  <2>1. i \in 1 .. Len(snaps) /\ j \in 1 .. Len(snaps)
    BY <1>6
  <2> QED BY <2>1 DEF ArenaInv, SnapsNested
<1> QED BY <1>12, <1>13, <1>14, <1>15, <1>16, <1>17, <1>18 DEF ArenaInv

\* A step that leaves the arena alone, dereferencing NULL included.
LEMMA IdleInv ==
  ASSUME ArenaInv, UNCHANGED <<chain, current, ptr, end, live, snaps, replay>>,
         crashed' \in BOOLEAN
  PROVE  ArenaInv'
BY DEF ArenaInv, TypeOK, ChainOK, TailRewound, LiveInBounds, LiveDisjoint,
       SnapsCover, SnapsNested

\* Both ways of allocating, and their failures.
LEMMA AllocInv ==
  ASSUME ArenaInv, NEW size \in Nat, NEW align \in Aligns,
         \/ arena_alloc_aligned(size, align)
         \/ align = ARENA_ALIGN /\ arena_strdup(size)
  PROVE  ArenaInv'
<1> DEFINE n == AtLeastOne(size)
<1>1. n \in Nat \ {0}
  BY DEF AtLeastOne
<1> HIDE DEF n
<1>2. CASE AllocInChain(n, align) \/ AllocFresh(n, align)
  <2>1. UNCHANGED crashed
    BY <1>2 DEF AllocInChain, AllocFresh
  <2> QED BY <2>1, <1>1, <1>2, AllocInChainInv, AllocFreshInv
<1>3. CASE AllocThroughNull(n, align)
  BY <1>3, IdleInv DEF AllocThroughNull
<1>4. CASE AllocFails(n, align) /\ crashed' \in {crashed, TRUE}
  <2>1. crashed' \in BOOLEAN
    BY <1>4 DEF ArenaInv, TypeOK
  <2> QED BY <2>1, <1>4, IdleInv DEF AllocFails
<1> QED BY <1>2, <1>3, <1>4 DEF arena_alloc_aligned, arena_strdup, n

\* ArenaInv is inductive.
LEMMA NextInv == ArenaInv /\ [Next]_vars => ArenaInv'
<1> SUFFICES ASSUME ArenaInv, [Next]_vars PROVE ArenaInv'
  OBVIOUS
<1>1. CASE arena_destroy
  BY <1>1, DestroyInv
<1>2. CASE arena_reset
  BY <1>2, ResetInv
<1>3. ASSUME NEW size \in Sizes, NEW align \in Aligns, arena_alloc_aligned(size, align)
      PROVE  ArenaInv'
  BY <1>3, AllocInv, ArenaAssumption
<1>4. ASSUME NEW size \in Sizes, arena_strdup(size + 1)
      PROVE  ArenaInv'
  BY <1>4, AllocInv, ArenaAssumption
<1>5. CASE arena_snapshot
  BY <1>5, SnapshotInv
<1>6. ASSUME NEW k \in 1 .. Len(snaps), arena_restore(k)
      PROVE  ArenaInv'
  BY <1>6, RestoreInv
<1>7. CASE UNCHANGED vars
  BY <1>7, IdleInv DEF vars, ArenaInv, TypeOK
<1> QED BY <1>1, <1>2, <1>3, <1>4, <1>5, <1>6, <1>7 DEF Next

----------------------------------------------------------------------------
(* First fit is a function of where the arena stands                       *)

\* The cursor of block b in an arena that stands at top in block at: what is
\* behind at is empty.
Cursor(at, top, b) == IF b = at THEN top ELSE Data

\* First fit, in an arena that stands at top in block at, serves a.
Placed(ch, en, at, top, a) ==
  /\ InChain(ch, at)
  /\ a.block \in From(ch, at)
  /\ a.lo = align_up(Cursor(at, top, a.block), a.align)
  /\ a.hi <= en[a.block]
  /\ \A c \in From(ch, at) : a.block \in After(ch, c) =>
       en[c] < align_up(Cursor(at, top, c), a.align) + (a.hi - a.lo)

\* Where an arena that stood at top in block at stands before the i-th of the
\* allocations of s.
BlockBefore(at, s, i) == IF i = 1 THEN at ELSE s[i - 1].block
TopBefore(top, s, i) == IF i = 1 THEN top ELSE s[i - 1].hi

\* First fit, in an arena that stands at top in block at, serves the
\* allocations of s one after the other.
Run(ch, en, at, top, s) ==
  \A i \in 1 .. Len(s) :
    Placed(ch, en, BlockBefore(at, s, i), TopBefore(top, s, i), s[i])

\* The live pointers are a run from the start of the arena to where it
\* stands, every snapshot notes a place on that run, and what the latest
\* rewind took back is a run on from there.
ReplayInv ==
  /\ current = BlockBefore(First, live, Len(live) + 1)
  /\ current # NoBlock => ptr[current] = TopBefore(Data, live, Len(live) + 1)
  /\ \A k \in 1 .. Len(snaps) :
       /\ snaps[k].block = BlockBefore(First, live, snaps[k].mark + 1)
       /\ snaps[k].ptr = TopBefore(Data, live, snaps[k].mark + 1)
  /\ Run(chain, end, First, Data, live)
  /\ Run(chain, end, current, ptr[current], replay)

\* Requests alike are served alike from the same place: of two blocks that
\* fit, the later one would not be the first.
LEMMA FirstFit ==
  ASSUME TypeOK, ChainOK, NEW at, NEW top, NEW a \in Allocation, NEW b \in Allocation,
         Placed(chain, end, at, top, a), Placed(chain, end, at, top, b),
         a.hi - a.lo = b.hi - b.lo, a.align = b.align
  PROVE  a = b
<1>1. /\ a.block \in BlockId /\ a.lo \in Nat /\ a.hi \in Nat
      /\ b.block \in BlockId /\ b.lo \in Nat /\ b.hi \in Nat
      /\ \A c \in BlockId : end[c] \in Nat
  BY DEF Allocation, TypeOK
<1>2. InChain(chain, a.block) /\ InChain(chain, b.block)
  BY ChainOrder DEF Placed, From
<1>3. b.block \notin After(chain, a.block)
  <2>1. b.block \in After(chain, a.block) => end[a.block] < a.lo + (b.hi - b.lo)
    BY DEF Placed
  <2>2. a.hi <= end[a.block]
    BY DEF Placed
  <2> QED BY <2>1, <2>2, <1>1
<1>4. a.block \notin After(chain, b.block)
  <2>1. a.block \in After(chain, b.block) => end[b.block] < b.lo + (a.hi - a.lo)
    BY DEF Placed
  <2>2. b.hi <= end[b.block]
    BY DEF Placed
  <2> QED BY <2>1, <2>2, <1>1
<1>5. a.block = b.block
  BY <1>2, <1>3, <1>4, ChainOrder
<1>6. a.lo = b.lo
  BY <1>5 DEF Placed
<1>7. a.hi = b.hi
  BY <1>1, <1>6
<1> QED BY <1>5, <1>6, <1>7 DEF Allocation

\* A run goes on with an allocation served from where it ends.
LEMMA RunAppend ==
  ASSUME NEW ch, NEW en, NEW at, NEW top, NEW S, NEW s \in Seq(S), NEW t \in Seq(S),
         Len(t) = Len(s) + 1, \A i \in 1 .. Len(s) : t[i] = s[i],
         Run(ch, en, at, top, s),
         Placed(ch, en, BlockBefore(at, s, Len(s) + 1), TopBefore(top, s, Len(s) + 1),
                t[Len(t)])
  PROVE  Run(ch, en, at, top, t)
<1>1. Len(s) \in Nat
  OBVIOUS
<1>2. \A i \in 1 .. Len(s) + 1 : /\ BlockBefore(at, t, i) = BlockBefore(at, s, i)
                                 /\ TopBefore(top, t, i) = TopBefore(top, s, i)
  <2> TAKE i \in 1 .. Len(s) + 1
  <2>1. i # 1 => t[i - 1] = s[i - 1]
    BY <1>1
  <2> QED BY <2>1 DEF BlockBefore, TopBefore
<1>3. ASSUME NEW i \in 1 .. Len(t)
      PROVE  Placed(ch, en, BlockBefore(at, t, i), TopBefore(top, t, i), t[i])
  <2>1. i \in 1 .. Len(s) + 1
    OBVIOUS
  <2>2. CASE i \in 1 .. Len(s)
    BY <2>1, <2>2, <1>2 DEF Run
  <2>3. CASE i = Len(s) + 1
    BY <2>1, <2>3, <1>2
  <2> QED BY <2>1, <2>2, <2>3, <1>1
<1> QED BY <1>3 DEF Run

\* A run can be cut: its first m allocations are a run, and so is what comes
\* behind them, from where they end.
LEMMA RunSplit ==
  ASSUME NEW ch, NEW en, NEW at, NEW top, NEW S, NEW s \in Seq(S), NEW m \in 0 .. Len(s),
         Run(ch, en, at, top, s)
  PROVE  /\ Run(ch, en, at, top, SubSeq(s, 1, m))
         /\ Run(ch, en, BlockBefore(at, s, m + 1), TopBefore(top, s, m + 1),
                SubSeq(s, m + 1, Len(s)))
<1> DEFINE front == SubSeq(s, 1, m)
           back == SubSeq(s, m + 1, Len(s))
<1>1. Len(s) \in Nat /\ m \in Nat
  OBVIOUS
<1>2. Len(front) = m /\ \A i \in 1 .. m : front[i] = s[i]
  BY <1>1
<1>3. Len(back) = Len(s) - m /\ \A i \in 1 .. Len(s) - m : back[i] = s[m + i]
  BY <1>1
<1> HIDE DEF front, back
<1>4. ASSUME NEW i \in 1 .. m
      PROVE  Placed(ch, en, BlockBefore(at, front, i), TopBefore(top, front, i), front[i])
  <2>1. i \in 1 .. Len(s) /\ front[i] = s[i] /\ (i # 1 => front[i - 1] = s[i - 1])
    BY <1>1, <1>2
  <2>2. Placed(ch, en, BlockBefore(at, s, i), TopBefore(top, s, i), s[i])
    BY <2>1 DEF Run
  <2> QED BY <2>1, <2>2 DEF BlockBefore, TopBefore
<1>5. ASSUME NEW i \in 1 .. Len(s) - m
      PROVE  Placed(ch, en, BlockBefore(BlockBefore(at, s, m + 1), back, i),
                    TopBefore(TopBefore(top, s, m + 1), back, i), back[i])
  <2>1. m + i \in 1 .. Len(s) /\ back[i] = s[m + i]
    BY <1>1, <1>3
  <2>2. Placed(ch, en, BlockBefore(at, s, m + i), TopBefore(top, s, m + i), s[m + i])
    BY <2>1 DEF Run
  <2>3. CASE i = 1
    BY <2>1, <2>2, <2>3 DEF BlockBefore, TopBefore
  <2>4. CASE i # 1
    <3>1. i - 1 \in 1 .. Len(s) - m /\ m + (i - 1) = (m + i) - 1 /\ m + i # 1
      BY <1>1, <2>4
    <3>2. back[i - 1] = s[(m + i) - 1]
      BY <3>1, <1>3
    <3> QED BY <2>1, <2>2, <2>4, <3>1, <3>2 DEF BlockBefore, TopBefore
  <2> QED BY <2>3, <2>4
<1>6. Run(ch, en, at, top, front)
  BY <1>2, <1>4 DEF Run
<1>7. Run(ch, en, BlockBefore(at, s, m + 1), TopBefore(top, s, m + 1), back)
  BY <1>3, <1>5 DEF Run
<1> QED BY <1>6, <1>7 DEF front, back

----------------------------------------------------------------------------
(* Every operation keeps to the run                                        *)

\* No allocation at all is a run, wherever the arena stands.
LEMMA EmptyRun ==
  ASSUME NEW ch, NEW en, NEW at, NEW top
  PROVE  Run(ch, en, at, top, <<>>)
BY DEF Run

\* The first block of the chain is behind no other.
LEMMA FirstBlock ==
  ASSUME TypeOK, ChainOK, chain # <<>>
  PROVE  /\ InChain(chain, First) /\ First \in BlockId /\ First = chain[1]
         /\ \A b : InChain(chain, b) => First \notin After(chain, b)
<1>1. 1 \in 1 .. Len(chain) /\ Len(chain) \in Nat /\ First = chain[1]
  BY DEF TypeOK, First
<1>2. InChain(chain, First)
  BY <1>1 DEF InChain
<1>3. ASSUME NEW b, InChain(chain, b), First \in After(chain, b)
      PROVE  FALSE
  <2>1. PICK i \in 1 .. Len(chain) : chain[i] = b
    BY <1>3 DEF InChain
  <2>2. PICK k \in i + 1 .. Len(chain) : chain[k] = First
    BY <2>1, <1>3, PosOfBlock DEF After
  <2>3. k = 1
    BY <2>2, <1>1 DEF ChainOK
  <2> QED BY <2>2, <2>3
<1> QED BY <1>1, <1>2, <1>3, ChainOrder

\* Before any of the live allocations, and after the last, the arena stood in
\* a block of the chain that is not behind the current one.
LEMMA StoodBefore ==
  ASSUME ArenaInv, chain # <<>>, NEW i \in 1 .. Len(live) + 1
  PROVE  LET at == BlockBefore(First, live, i) IN
         InChain(chain, at) /\ at \notin After(chain, current)
<1>1. TypeOK /\ ChainOK /\ Len(live) \in Nat
  BY DEF ArenaInv, TypeOK
<1>2. CASE i = 1
  <2>1. InChain(chain, current)
    BY <1>1 DEF ChainOK
  <2> QED BY <1>1, <1>2, <2>1, FirstBlock DEF BlockBefore
<1>3. CASE i # 1
  <2>1. i - 1 \in 1 .. Len(live)
    BY <1>1, <1>3
  <2> QED BY <1>3, <2>1, LiveNotBehind DEF BlockBefore, ArenaInv, LiveInBounds
<1> QED BY <1>2, <1>3

\* An allocation served by first fit that repeats the request next in line
\* repeats its answer, and what is still to be repeated goes on from there.
LEMMA Repeated ==
  ASSUME TypeOK, ChainOK, NEW b \in BlockId, NEW lo \in Nat, NEW size \in Nat,
         NEW align \in Aligns, Hand(b, lo, size, align),
         Placed(chain, end, current, ptr[current], live'[Len(live) + 1]),
         Run(chain, end, current, ptr[current], replay)
  PROVE  /\ Run(chain, end, b, lo + size, replay')
         /\ (/\ replay # <<>>
             /\ Head(replay).hi - Head(replay).lo = size
             /\ Head(replay).align = align)
              => live'[Len(live) + 1] = Head(replay)
<1> DEFINE new == live'[Len(live) + 1]
           repeats == /\ replay # <<>>
                      /\ Head(replay).hi - Head(replay).lo = size
                      /\ Head(replay).align = align
<1>1. /\ new \in Allocation /\ new.block = b /\ new.lo = lo
      /\ new.hi = lo + size /\ new.align = align
  <2>1. /\ live' \in Seq(Allocation) /\ Len(live') = Len(live) + 1 /\ Len(live) \in Nat
    BY Handed
  <2>2. new \in Allocation
    BY <2>1, ElementOfSeq
  <2> QED BY <2>2, Handed
<1>2. replay' = IF repeats THEN Tail(replay) ELSE <<>>
  BY DEF Hand
<1>3. replay \in Seq(Allocation) /\ Len(replay) \in Nat
  BY DEF TypeOK
<1>4. CASE ~repeats
  BY <1>2, <1>4, EmptyRun
<1>5. CASE repeats
  <2>1. 1 \in 1 .. Len(replay) /\ 1 \in 0 .. Len(replay) /\ Head(replay) = replay[1]
    BY <1>3, <1>5
  <2>2. Placed(chain, end, current, ptr[current], replay[1])
    BY <2>1 DEF Run, BlockBefore, TopBefore
  <2>3. replay[1] \in Allocation
    BY <1>3, <2>1, ElementOfSeq
  <2>4. new.hi - new.lo = size
    BY <1>1
  <2>5. new = replay[1]
    <3> HIDE DEF new
    <3>1. Placed(chain, end, current, ptr[current], new)
      BY DEF new
    <3> QED BY <1>1, <1>5, <2>1, <2>2, <2>3, <2>4, <3>1, FirstFit
  <2>6. Tail(replay) = SubSeq(replay, 2, Len(replay))
    BY <1>3, <1>5
  <2>7. Run(chain, end, replay[1].block, replay[1].hi, SubSeq(replay, 2, Len(replay)))
    <3>1. Run(chain, end, BlockBefore(current, replay, 1 + 1),
              TopBefore(ptr[current], replay, 1 + 1),
              SubSeq(replay, 1 + 1, Len(replay)))
      BY <1>3, <2>1, RunSplit
    <3> QED BY <3>1 DEF BlockBefore, TopBefore
  <2> QED BY <1>1, <1>2, <1>5, <2>1, <2>5, <2>6, <2>7
<1> HIDE DEF new, repeats
<1> QED BY <1>4, <1>5 DEF new, repeats

\* An allocation from the chain is the first fit from where the arena stands.
LEMMA InChainPlaced ==
  ASSUME ArenaInv, NEW size \in Nat \ {0}, NEW align \in Aligns,
         AllocInChain(size, align)
  PROVE  \E b \in BlockId, lo \in Nat :
           /\ current' = b /\ ptr'[b] = lo + size
           /\ Hand(b, lo, size, align)
           /\ Placed(chain, end, current, ptr[current], live'[Len(live) + 1])
<1>1. PICK b \in From(chain, current) :
        /\ Fits(b, size, align)
        /\ \A c \in From(chain, current) :
             Fits(c, size, align) => Pos(chain, b) <= Pos(chain, c)
        /\ current' = b
        /\ ptr' = [ptr EXCEPT ![b] = Bumped(b, size, align)]
        /\ Hand(b, align_up(ptr[b], align), size, align)
  BY DEF AllocInChain
<1>2. TypeOK /\ ChainOK /\ current # NoBlock
  BY DEF ArenaInv, AllocInChain
<1>3. InChain(chain, current)
  BY <1>2 DEF ChainOK
<1>4. \A c \in From(chain, current) : InChain(chain, c) /\ c \in BlockId
  BY <1>2, <1>3, ChainOrder DEF From
<1>5. ptr \in [BlockId -> Nat] /\ end \in [BlockId -> Nat] /\ align \in Nat \ {0}
  BY <1>2, Naturals1 DEF TypeOK
<1>6. \A c \in From(chain, current) : ptr[c] = Cursor(current, ptr[current], c)
  BY <1>2 DEF ArenaInv, TailRewound, From, Cursor
<1> DEFINE lo == align_up(ptr[b], align)
           new == live'[Len(live) + 1]
<1>7. lo \in Nat
  BY <1>1, <1>4, <1>5, AlignUpBounds
<1>8. new.block = b /\ new.lo = lo /\ new.hi = lo + size /\ new.align = align
  BY <1>1, <1>2, <1>4, <1>7, Handed
<1>9. ptr'[b] = lo + size
  BY <1>1, <1>4, <1>5 DEF Bumped
<1>10. new.hi <= end[b] /\ new.hi - new.lo = size
  BY <1>1, <1>7, <1>8 DEF Fits
<1>11. ASSUME NEW c \in From(chain, current), b \in After(chain, c)
       PROVE  end[c] < align_up(Cursor(current, ptr[current], c), align) + size
  <2>1. PICK i \in 1 .. Len(chain) : chain[i] = c
    BY <1>4 DEF InChain
  <2>2. Pos(chain, c) = i
    BY <1>2, <2>1, PosOfBlock
  <2>3. PICK k \in i + 1 .. Len(chain) : chain[k] = b
    BY <1>11, <2>2 DEF After
  <2>4. k \in 1 .. Len(chain) /\ Pos(chain, b) = k
    <3>1. k \in 1 .. Len(chain)
      BY <2>3
    <3> QED BY <1>2, <2>3, <3>1, PosOfBlock
  <2>5. ~Fits(c, size, align)
    BY <1>1, <2>2, <2>3, <2>4
  <2>6. align_up(ptr[c], align) \in Nat /\ end[c] \in Nat
    BY <1>4, <1>5, AlignUpBounds
  <2> HIDE DEF lo, new
  <2> QED BY <1>6, <2>5, <2>6 DEF Fits
<1>12. Placed(chain, end, current, ptr[current], new)
  <2>1. lo = align_up(Cursor(current, ptr[current], b), align)
    BY <1>6
  <2> HIDE DEF lo, new
  <2> QED BY <1>1, <1>3, <1>8, <1>10, <1>11, <2>1 DEF Placed
<1> QED BY <1>1, <1>4, <1>7, <1>9, <1>12

\* The live run, once something is appended to it.
LEMMA LiveGrows ==
  ASSUME ArenaInv, ReplayInv, NEW n, n = Len(live) + 1,
         Len(live') = n, \A i \in 1 .. Len(live) : live'[i] = live[i],
         First' = First, snaps' = snaps
  PROVE  /\ \A i \in 1 .. n : /\ BlockBefore(First, live', i) = BlockBefore(First, live, i)
                              /\ TopBefore(Data, live', i) = TopBefore(Data, live, i)
         /\ \A k \in 1 .. Len(snaps') :
              /\ snaps'[k].block = BlockBefore(First', live', snaps'[k].mark + 1)
              /\ snaps'[k].ptr = TopBefore(Data, live', snaps'[k].mark + 1)
<1>1. TypeOK /\ Len(live) \in Nat
  BY DEF ArenaInv, TypeOK
<1>2. \A i \in 1 .. n : i # 1 => live'[i - 1] = live[i - 1]
  BY <1>1
<1>3. \A i \in 1 .. n : /\ BlockBefore(First, live', i) = BlockBefore(First, live, i)
                        /\ TopBefore(Data, live', i) = TopBefore(Data, live, i)
  BY <1>2 DEF BlockBefore, TopBefore
<1>4. ASSUME NEW k \in 1 .. Len(snaps)
      PROVE  /\ snaps[k].block = BlockBefore(First, live', snaps[k].mark + 1)
             /\ snaps[k].ptr = TopBefore(Data, live', snaps[k].mark + 1)
  <2>1. snaps[k].mark \in Nat /\ snaps[k].mark <= Len(live)
    BY <1>1, SnapTypes DEF ArenaInv, SnapsCover
  <2>2. snaps[k].mark + 1 \in 1 .. n
    BY <1>1, <2>1
  <2> QED BY <1>3, <2>2 DEF ReplayInv
<1> QED BY <1>3, <1>4

\* An allocation from the chain goes on with the live run, and with the
\* replay when it repeats the request next in line, which it then answers
\* alike (arena_alloc_aligned's first loop).
LEMMA AllocInChainReplay ==
  ASSUME ArenaInv, ReplayInv, NEW size \in Nat \ {0}, NEW align \in Aligns,
         AllocInChain(size, align)
  PROVE  /\ ReplayInv'
         /\ Len(live') = Len(live) + 1 /\ chain' = chain
         /\ live'[Len(live')].hi - live'[Len(live')].lo = size
         /\ live'[Len(live')].align = align
         /\ (/\ replay # <<>>
             /\ Head(replay).hi - Head(replay).lo = size
             /\ Head(replay).align = align)
              => live'[Len(live')] = Head(replay)
<1>1. PICK b \in BlockId, lo \in Nat :
        /\ current' = b /\ ptr'[b] = lo + size
        /\ Hand(b, lo, size, align)
        /\ Placed(chain, end, current, ptr[current], live'[Len(live) + 1])
  BY InChainPlaced
<1>2. UNCHANGED <<chain, end, snaps>> /\ current # NoBlock
  BY DEF AllocInChain
<1>3. TypeOK /\ ChainOK /\ live \in Seq(Allocation) /\ Len(live) \in Nat
  BY DEF ArenaInv, TypeOK
<1>4. /\ live' \in Seq(Allocation) /\ Len(live') = Len(live) + 1
      /\ \A i \in 1 .. Len(live) : live'[i] = live[i]
      /\ live'[Len(live) + 1].block = b /\ live'[Len(live) + 1].lo = lo
      /\ live'[Len(live) + 1].hi = lo + size /\ live'[Len(live) + 1].align = align
  BY <1>1, <1>3, Handed
<1>5. First' = First /\ snaps' = snaps
  BY <1>2 DEF First
<1>6. \A k \in 1 .. Len(snaps') :
        /\ snaps'[k].block = BlockBefore(First', live', snaps'[k].mark + 1)
        /\ snaps'[k].ptr = TopBefore(Data, live', snaps'[k].mark + 1)
  BY <1>4, <1>5, LiveGrows
<1>7. Run(chain, end, First, Data, live')
  <2>1. /\ current = BlockBefore(First, live, Len(live) + 1)
        /\ ptr[current] = TopBefore(Data, live, Len(live) + 1)
        /\ Run(chain, end, First, Data, live)
    BY <1>2 DEF ReplayInv
  <2> QED BY <1>1, <1>3, <1>4, <2>1, RunAppend
<1>8. /\ Run(chain, end, b, lo + size, replay')
      /\ (/\ replay # <<>>
          /\ Head(replay).hi - Head(replay).lo = size
          /\ Head(replay).align = align)
           => live'[Len(live) + 1] = Head(replay)
  <2>1. Run(chain, end, current, ptr[current], replay)
    BY DEF ReplayInv
  <2> QED BY <1>1, <1>3, <2>1, Repeated
<1>9. /\ b = BlockBefore(First, live', Len(live') + 1)
      /\ lo + size = TopBefore(Data, live', Len(live') + 1)
  BY <1>3, <1>4 DEF BlockBefore, TopBefore
<1>10. ReplayInv'
  BY <1>1, <1>2, <1>5, <1>6, <1>7, <1>8, <1>9 DEF ReplayInv
<1>11. live'[Len(live')].hi - live'[Len(live')].lo = size
  BY <1>1, <1>4
<1> QED BY <1>2, <1>4, <1>8, <1>10, <1>11

\* A fresh block goes on with the live run, for none of the blocks it is
\* spliced behind has room; and the request repeats none that the latest
\* rewind took back, for that one had room (arena_alloc_aligned's splice).
LEMMA AllocFreshReplay ==
  ASSUME ArenaInv, ReplayInv, NEW size \in Nat \ {0}, NEW align \in Aligns,
         AllocFresh(size, align)
  PROVE  /\ ReplayInv'
         /\ Len(live') = Len(live) + 1
         /\ live'[Len(live')].hi - live'[Len(live')].lo = size
         /\ live'[Len(live')].align = align
         /\ ~(/\ replay # <<>>
              /\ Head(replay).hi - Head(replay).lo = size
              /\ Head(replay).align = align)
<1>1. PICK fresh \in Unused :
        /\ chain' = InsertAt(chain, Pos(chain, current) + 1, fresh)
        /\ current' = fresh
        /\ end' = [end EXCEPT ![fresh] = NewEnd(size + align)]
        /\ ptr' = [ptr EXCEPT ![fresh] = align_up(Data, align) + size]
        /\ Hand(fresh, align_up(Data, align), size, align)
  BY DEF AllocFresh
<1>2. /\ snaps' = snaps /\ current # NoBlock /\ Len(live) \in Nat
      /\ \A c \in From(chain, current) : ~Fits(c, size, align)
  BY DEF AllocFresh, NoRoom, ArenaInv, TypeOK
<1>3. TypeOK /\ ChainOK
  BY DEF ArenaInv
<1>4. /\ ptr \in [BlockId -> Nat] /\ end \in [BlockId -> Nat]
      /\ fresh \in BlockId /\ ~InChain(chain, fresh)
      /\ InChain(chain, current) /\ align \in Nat \ {0}
  BY <1>1, <1>2, <1>3, Naturals1 DEF TypeOK, Unused, ChainOK
<1>5. \A c \in From(chain, current) : InChain(chain, c) /\ c \in BlockId
  BY <1>3, <1>4, ChainOrder DEF From
<1>6. /\ chain' # <<>> /\ chain'[1] = chain[1]
      /\ \A b : InChain(chain', b) <=> (b = fresh \/ InChain(chain, b))
      /\ After(chain', fresh) = After(chain, current)
      /\ \A b : InChain(chain, b) /\ b \notin After(chain, current) =>
                  After(chain', b) = After(chain, b) \cup {fresh}
      /\ \A b : b \in After(chain, current) => After(chain', b) = After(chain, b)
  BY <1>1, <1>2, <1>3, <1>4, Splice
<1>7. chain # <<>> /\ First' = First
  BY <1>4, <1>6 DEF InChain, First
<1> DEFINE lo == align_up(Data, align)
           new == live'[Len(live) + 1]
<1>8. /\ lo \in Nat /\ lo + size <= NewEnd(size + align)
      /\ NewEnd(size + align) \in Nat
  <2>1. lo \in Nat /\ lo < Data + align /\ Data \in Nat
    BY <1>4, AlignUpBounds, Naturals1
  <2>2. size + align \in Nat
    BY <1>4
  <2>3. NewEnd(size + align) \in Nat /\ Data + (size + align) <= NewEnd(size + align)
    BY <2>2, Naturals1
  <2> HIDE DEF lo
  <2> QED BY <1>4, <2>1, <2>3
<1>9. /\ live' \in Seq(Allocation) /\ Len(live') = Len(live) + 1
      /\ \A i \in 1 .. Len(live) : live'[i] = live[i]
      /\ new.block = fresh /\ new.lo = lo /\ new.hi = lo + size /\ new.align = align
  BY <1>1, <1>3, <1>4, <1>8, Handed
<1>10. /\ end'[fresh] = NewEnd(size + align) /\ ptr'[fresh] = lo + size
       /\ \A c : InChain(chain, c) => end'[c] = end[c]
  BY <1>1, <1>3, <1>4, ChainOrder
<1> HIDE DEF lo, new
<1>11. \A c \in From(chain, current) : ptr[c] = Cursor(current, ptr[current], c)
  BY <1>2 DEF ArenaInv, TailRewound, From, Cursor
<1>12. \A c \in From(chain, current) :
         end[c] < align_up(Cursor(current, ptr[current], c), align) + size
  <2> TAKE c \in From(chain, current)
  <2>1. ~Fits(c, size, align)
    BY <1>2
  <2>2. align_up(ptr[c], align) \in Nat /\ end[c] \in Nat
    BY <1>4, <1>5, AlignUpBounds
  <2> QED BY <1>11, <2>1, <2>2 DEF Fits
<1>13. fresh \notin After(chain, current) /\ current \notin After(chain, current)
  BY <1>3, <1>4, ChainOrder
<1>14. Placed(chain', end', current, ptr[current], new)
  <2>1. From(chain', current) = From(chain, current) \cup {fresh}
    BY <1>4, <1>6, <1>13 DEF From
  <2>2. new.lo = align_up(Cursor(current, ptr[current], fresh), new.align)
    BY <1>4, <1>9 DEF Cursor, lo
  <2>3. new.hi <= end'[fresh] /\ new.hi - new.lo = size
    BY <1>8, <1>9, <1>10
  <2>4. ASSUME NEW c \in From(chain', current), fresh \in After(chain', c)
        PROVE  end'[c] < align_up(Cursor(current, ptr[current], c), align) + size
    <3>1. c # fresh
      BY <1>6, <1>13, <2>4
    <3> QED BY <1>5, <1>10, <1>12, <2>1, <3>1
  <2>5. InChain(chain', current)
    BY <1>4, <1>6
  <2> QED BY <1>9, <2>1, <2>2, <2>3, <2>4, <2>5 DEF Placed
<1>15. Run(chain', end', First, Data, live)
  <2> SUFFICES ASSUME NEW i \in 1 .. Len(live), NEW at, at = BlockBefore(First, live, i),
                      NEW top, top = TopBefore(Data, live, i), NEW a, a = live[i]
               PROVE  Placed(chain', end', at, top, a)
    BY DEF Run
  <2>1. InChain(chain, at) /\ at \notin After(chain, current)
    BY <1>2, <1>7, StoodBefore
  <2>2. Placed(chain, end, at, top, a)
    BY DEF ReplayInv, Run
  <2>3. InChain(chain, a.block) /\ a.block \notin After(chain, current) /\ a.block # fresh
    BY <1>4, LiveNotBehind DEF ArenaInv, LiveInBounds
  <2>4. From(chain', at) = From(chain, at) \cup {fresh}
    BY <1>6, <2>1 DEF From
  <2>5. \A c \in From(chain, at) : InChain(chain, c)
    BY <1>3, <2>1, ChainOrder DEF From
  <2>6. ASSUME NEW c \in From(chain', at), a.block \in After(chain', c)
        PROVE  c \in From(chain, at) /\ a.block \in After(chain, c)
    <3>1. c # fresh
      BY <1>6, <2>3, <2>6
    <3>2. c \in From(chain, at) /\ InChain(chain, c)
      BY <2>4, <2>5, <3>1
    <3>3. a.block \in After(chain, c)
      BY <1>6, <2>3, <2>6, <3>2
    <3> QED BY <3>2, <3>3
  <2>7. InChain(chain', at) /\ a.block \in From(chain', at) /\ a.hi <= end'[a.block]
    BY <1>6, <1>10, <2>1, <2>2, <2>3, <2>4 DEF Placed
  <2>8. \A c \in From(chain', at) : a.block \in After(chain', c) =>
          end'[c] < align_up(Cursor(at, top, c), a.align) + (a.hi - a.lo)
    BY <1>10, <2>2, <2>5, <2>6 DEF Placed
  <2>9. a.lo = align_up(Cursor(at, top, a.block), a.align)
    BY <2>2 DEF Placed
  <2> QED BY <2>7, <2>8, <2>9 DEF Placed
<1>16. Run(chain', end', First, Data, live')
  <2>1. /\ current = BlockBefore(First, live, Len(live) + 1)
        /\ ptr[current] = TopBefore(Data, live, Len(live) + 1)
    BY <1>2 DEF ReplayInv
  <2>2. live \in Seq(Allocation) /\ live'[Len(live')] = new
    BY <1>3, <1>9 DEF TypeOK, new
  <2> QED BY <1>9, <1>14, <1>15, <2>1, <2>2, RunAppend
<1>17. ~(/\ replay # <<>>
         /\ Head(replay).hi - Head(replay).lo = size
         /\ Head(replay).align = align)
  <2> SUFFICES ASSUME replay # <<>>, NEW r, r = Head(replay), r.hi - r.lo = size,
                      r.align = align
               PROVE  FALSE
    OBVIOUS
  <2>1. replay \in Seq(Allocation)
    BY <1>3 DEF TypeOK
  <2>2. 1 \in 1 .. Len(replay) /\ r = replay[1] /\ r \in Allocation
    BY <2>1
  <2>3. Placed(chain, end, current, ptr[current], r)
    BY <2>2 DEF ReplayInv, Run, BlockBefore, TopBefore
  <2>4. /\ r.block \in From(chain, current) /\ r.hi <= end[r.block]
        /\ r.lo = align_up(Cursor(current, ptr[current], r.block), align)
    BY <2>3 DEF Placed
  <2>5. end[r.block] < r.lo + size
    BY <1>12, <2>4
  <2>6. r.lo \in Nat /\ r.hi \in Nat /\ end[r.block] \in Nat
    BY <1>4, <1>5, <2>2, <2>4 DEF Allocation
  <2> QED BY <2>4, <2>5, <2>6
<1>18. Run(chain', end', current', ptr'[current'], replay')
  <2>1. replay' = <<>>
    BY <1>1, <1>17 DEF Hand
  <2> QED BY <2>1, EmptyRun
<1>19. /\ fresh = BlockBefore(First, live', Len(live') + 1)
       /\ lo + size = TopBefore(Data, live', Len(live') + 1)
  BY <1>2, <1>9 DEF BlockBefore, TopBefore, new
<1>20. \A k \in 1 .. Len(snaps') :
         /\ snaps'[k].block = BlockBefore(First', live', snaps'[k].mark + 1)
         /\ snaps'[k].ptr = TopBefore(Data, live', snaps'[k].mark + 1)
  BY <1>2, <1>7, <1>9, LiveGrows
<1>21. ReplayInv'
  BY <1>1, <1>7, <1>10, <1>16, <1>18, <1>19, <1>20 DEF ReplayInv
<1>22. live'[Len(live')].hi - live'[Len(live')].lo = size
  BY <1>8, <1>9 DEF new
<1> QED BY <1>9, <1>17, <1>21, <1>22 DEF new

\* An arena that owns nothing live stands at its start.
LEMMA InitReplay == Init => ReplayInv
<1> SUFFICES ASSUME Init PROVE ReplayInv
  OBVIOUS
<1>1. live = <<>> /\ snaps = <<>> /\ replay = <<>>
  BY DEF Init
<1>2. current = First
  BY DEF Init, First
<1>3. current # NoBlock => ptr[current] = Data
  <2>1. 1 \in BlockId
    BY ArenaAssumption DEF BlockId
  <2> QED BY <2>1 DEF Init
<1> QED BY <1>1, <1>2, <1>3 DEF ReplayInv, Run, BlockBefore, TopBefore

LEMMA DestroyReplay == arena_destroy => ReplayInv'
<1> SUFFICES ASSUME arena_destroy PROVE ReplayInv'
  OBVIOUS
<1>1. live' = <<>> /\ snaps' = <<>> /\ replay' = <<>> /\ current' = NoBlock /\ chain' = <<>>
  BY DEF arena_destroy
<1>2. First' = NoBlock
  BY <1>1 DEF First
<1> QED BY <1>1, <1>2 DEF ReplayInv, Run, BlockBefore, TopBefore

\* A reset takes the whole live run back, and stands where it started.
LEMMA ResetReplay == ArenaInv /\ ReplayInv /\ arena_reset => ReplayInv'
<1> SUFFICES ASSUME ArenaInv, ReplayInv, arena_reset PROVE ReplayInv'
  OBVIOUS
<1>1. /\ chain' = chain /\ end' = end
      /\ ptr' = [b \in BlockId |-> IF InChain(chain, b) THEN Data ELSE ptr[b]]
      /\ current' = First
      /\ live' = <<>> /\ snaps' = <<>> /\ replay' = live
  BY DEF arena_reset
<1>2. First' = First /\ TypeOK /\ ChainOK
  BY <1>1 DEF First, ArenaInv
<1>3. chain # <<>> => ptr'[First] = Data
  BY <1>1, <1>2, FirstBlock
<1>4. chain = <<>> => current' = NoBlock /\ live = <<>>
  <2>1. chain = <<>> => \A b : ~InChain(chain, b)
    BY DEF InChain
  <2>2. chain = <<>> => 1 \notin 1 .. Len(live)
    BY <2>1 DEF ArenaInv, LiveInBounds
  <2>3. live \in Seq(Allocation)
    BY <1>2 DEF TypeOK
  <2> QED BY <1>1, <2>2, <2>3 DEF First
<1>5. Run(chain, end, First, Data, live)
  BY DEF ReplayInv
<1>6. Run(chain, end, current', ptr'[current'], replay')
  BY <1>1, <1>3, <1>4, <1>5, EmptyRun
<1>7. current' # NoBlock => ptr'[current'] = Data
  BY <1>1, <1>3, <1>4
<1> QED BY <1>1, <1>2, <1>6, <1>7, EmptyRun DEF ReplayInv, BlockBefore, TopBefore

\* A snapshot notes where the live run ends.
LEMMA SnapshotReplay == ArenaInv /\ ReplayInv /\ arena_snapshot => ReplayInv'
<1> SUFFICES ASSUME ArenaInv, ReplayInv, arena_snapshot PROVE ReplayInv'
  OBVIOUS
<1>1. UNCHANGED <<chain, current, ptr, end, live, replay>> /\ First' = First
  BY DEF arena_snapshot, First
<1>2. TypeOK
  BY DEF ArenaInv
<1>3. \A k \in 1 .. Len(snaps') :
        /\ snaps'[k].block = BlockBefore(First, live, snaps'[k].mark + 1)
        /\ snaps'[k].ptr = TopBefore(Data, live, snaps'[k].mark + 1)
  <2>1. CASE current = NoBlock
    BY <2>1 DEF ReplayInv, arena_snapshot
  <2>2. CASE current # NoBlock
    <3> DEFINE snap == [block |-> current, ptr |-> ptr[current], mark |-> Len(live)]
    <3>1. snaps' = Append(snaps, snap) /\ snaps \in Seq(Snapshot)
      BY <1>2, <2>2 DEF arena_snapshot, TypeOK
    <3>2. /\ snap.block = BlockBefore(First, live, snap.mark + 1)
          /\ snap.ptr = TopBefore(Data, live, snap.mark + 1)
      BY <2>2 DEF ReplayInv
    <3>3. snap \in Snapshot
      <4>1. current \in BlockId /\ ptr[current] \in Nat /\ Len(live) \in Nat
        BY <1>2, <2>2 DEF TypeOK, NoBlock
      <4> QED BY <4>1 DEF Snapshot
    <3> HIDE DEF snap
    <3>4. /\ Len(snaps) \in Nat /\ Len(snaps') = Len(snaps) + 1
          /\ \A k \in 1 .. Len(snaps) : snaps'[k] = snaps[k]
          /\ snaps'[Len(snaps) + 1] = snap
      BY <3>1, <3>3, AppendProperties
    <3> TAKE k \in 1 .. Len(snaps')
    <3>5. k \in 1 .. Len(snaps) \/ k = Len(snaps) + 1
      BY <3>4
    <3>6. CASE k \in 1 .. Len(snaps)
      BY <3>4, <3>6 DEF ReplayInv
    <3>7. CASE k = Len(snaps) + 1
      BY <3>2, <3>4, <3>7
    <3> QED BY <3>5, <3>6, <3>7
  <2> QED BY <2>1, <2>2
<1> QED BY <1>1, <1>3 DEF ReplayInv

\* A restore takes back what was allocated after the snapshot, and stands
\* where that part of the live run started.
LEMMA RestoreReplay ==
  ASSUME ArenaInv, ReplayInv, NEW k \in 1 .. Len(snaps), arena_restore(k)
  PROVE  ReplayInv'
<1> DEFINE b == snaps[k].block
           mark == snaps[k].mark
           top == snaps[k].ptr
<1>1. /\ chain' = chain /\ end' = end /\ First' = First
      /\ ptr' = [c \in BlockId |-> IF c = b THEN top
                                   ELSE IF c \in After(chain, b) THEN Data ELSE ptr[c]]
      /\ current' = b
      /\ live' = SubSeq(live, 1, mark)
      /\ snaps' = SubSeq(snaps, 1, k)
      /\ replay' = SubSeq(live, mark + 1, Len(live))
  BY DEF arena_restore, RewoundTo, First
<1>2. /\ TypeOK /\ live \in Seq(Allocation) /\ Len(live) \in Nat
      /\ snaps \in Seq(Snapshot) /\ Len(snaps) \in Nat
  BY DEF ArenaInv, TypeOK
<1>3. b \in BlockId /\ mark \in Nat /\ mark <= Len(live)
  BY <1>2, SnapTypes DEF ArenaInv, SnapsCover
<1>4. \A j \in 1 .. k : snaps[j].mark \in Nat /\ snaps[j].mark <= mark
  <2> TAKE j \in 1 .. k
  <2>1. j \in 1 .. Len(snaps)
    BY <1>2
  <2>2. snaps[j].mark \in Nat
    BY <1>2, <2>1, SnapTypes
  <2>3. j < k => snaps[j].mark <= mark
    BY <2>1 DEF ArenaInv, SnapsNested
  <2>4. j = k => snaps[j].mark <= mark
    BY <2>2
  <2> QED BY <2>2, <2>3, <2>4
<1>5. b = BlockBefore(First, live, mark + 1) /\ top = TopBefore(Data, live, mark + 1)
  BY DEF ReplayInv
<1> HIDE DEF b, mark, top
<1>6. ptr'[b] = top
  BY <1>1, <1>3
<1>7. mark \in 0 .. Len(live)
  BY <1>2, <1>3
<1>8. Run(chain, end, First, Data, live') /\ Run(chain, end, b, top, replay')
  <2>1. Run(chain, end, First, Data, live)
    BY DEF ReplayInv
  <2> QED BY <1>1, <1>2, <1>5, <1>7, <2>1, RunSplit
<1>9. Len(live') = mark /\ \A i \in 1 .. mark : live'[i] = live[i]
  BY <1>1, <1>2, <1>3
<1>10. ASSUME NEW m \in 0 .. mark
       PROVE  /\ BlockBefore(First, live', m + 1) = BlockBefore(First, live, m + 1)
              /\ TopBefore(Data, live', m + 1) = TopBefore(Data, live, m + 1)
  <2>1. m + 1 # 1 => live'[(m + 1) - 1] = live[(m + 1) - 1]
    BY <1>3, <1>9
  <2> QED BY <2>1 DEF BlockBefore, TopBefore
<1>11. Len(snaps') = k /\ \A j \in 1 .. k : snaps'[j] = snaps[j] /\ j \in 1 .. Len(snaps)
  BY <1>1, <1>2
<1>12. \A j \in 1 .. Len(snaps') :
         /\ snaps'[j].block = BlockBefore(First, live', snaps'[j].mark + 1)
         /\ snaps'[j].ptr = TopBefore(Data, live', snaps'[j].mark + 1)
  <2> TAKE j \in 1 .. Len(snaps')
  <2>1. snaps[j].mark \in 0 .. mark /\ j \in 1 .. Len(snaps) /\ snaps'[j] = snaps[j]
    BY <1>3, <1>4, <1>11
  <2>2. /\ snaps[j].block = BlockBefore(First, live, snaps[j].mark + 1)
        /\ snaps[j].ptr = TopBefore(Data, live, snaps[j].mark + 1)
    BY <2>1 DEF ReplayInv
  <2> QED BY <1>10, <2>1, <2>2
<1>13. /\ b = BlockBefore(First, live', Len(live') + 1)
       /\ top = TopBefore(Data, live', Len(live') + 1)
  <2>1. mark \in 0 .. mark
    BY <1>3
  <2> QED BY <1>5, <1>9, <1>10, <2>1
<1> QED BY <1>1, <1>6, <1>8, <1>12, <1>13 DEF ReplayInv

LEMMA IdleReplay ==
  ReplayInv /\ UNCHANGED <<chain, current, ptr, end, live, snaps, replay>> => ReplayInv'
BY DEF ReplayInv, First

\* The step of ReplayStable: what an allocation that repeats a request taken
\* back by the latest rewind answers.
RepeatsAnswer ==
  (/\ Len(live') = Len(live) + 1
   /\ replay # <<>>
   /\ live'[Len(live')].hi - live'[Len(live')].lo = Head(replay).hi - Head(replay).lo
   /\ live'[Len(live')].align = Head(replay).align)
  => (live'[Len(live')] = Head(replay) /\ chain' = chain)

\* Both ways of allocating, and their failures.
LEMMA AllocReplay ==
  ASSUME ArenaInv, ReplayInv, NEW size \in Nat, NEW align \in Aligns,
         \/ arena_alloc_aligned(size, align)
         \/ align = ARENA_ALIGN /\ arena_strdup(size)
  PROVE  ReplayInv' /\ RepeatsAnswer
<1> DEFINE n == AtLeastOne(size)
<1>1. n \in Nat \ {0} /\ Len(live) \in Nat
  BY DEF AtLeastOne, ArenaInv, TypeOK
<1> HIDE DEF n
<1>2. CASE AllocInChain(n, align)
  BY <1>1, <1>2, AllocInChainReplay DEF RepeatsAnswer
<1>3. CASE AllocFresh(n, align)
  BY <1>1, <1>3, AllocFreshReplay DEF RepeatsAnswer
<1>4. CASE AllocThroughNull(n, align) \/ AllocFails(n, align)
  <2>1. UNCHANGED <<chain, current, ptr, end, live, snaps, replay>>
    BY <1>4 DEF AllocThroughNull, AllocFails
  <2> QED BY <1>1, <2>1, IdleReplay DEF RepeatsAnswer
<1> QED BY <1>2, <1>3, <1>4 DEF arena_alloc_aligned, arena_strdup, n

\* Together with ArenaInv, ReplayInv is inductive, and no step but an
\* allocation makes the live run longer.
LEMMA NextReplay ==
  ASSUME ArenaInv, ReplayInv, [Next]_vars
  PROVE  ReplayInv' /\ RepeatsAnswer
<1>1. Len(live) \in Nat /\ live \in Seq(Allocation) /\ snaps \in Seq(Snapshot)
  BY DEF ArenaInv, TypeOK
<1>2. CASE arena_destroy
  <2>1. live' = <<>>
    BY <1>2 DEF arena_destroy
  <2> QED BY <1>1, <1>2, <2>1, DestroyReplay DEF RepeatsAnswer
<1>3. CASE arena_reset
  <2>1. live' = <<>>
    BY <1>3 DEF arena_reset
  <2> QED BY <1>1, <1>3, <2>1, ResetReplay DEF RepeatsAnswer
<1>4. ASSUME NEW size \in Sizes, NEW align \in Aligns, arena_alloc_aligned(size, align)
      PROVE  ReplayInv' /\ RepeatsAnswer
  BY <1>4, AllocReplay, ArenaAssumption
<1>5. ASSUME NEW size \in Sizes, arena_strdup(size + 1)
      PROVE  ReplayInv' /\ RepeatsAnswer
  BY <1>5, AllocReplay, ArenaAssumption
<1>6. CASE arena_snapshot
  <2>1. live' = live
    BY <1>6 DEF arena_snapshot
  <2> QED BY <1>1, <1>6, <2>1, SnapshotReplay DEF RepeatsAnswer
<1>7. ASSUME NEW k \in 1 .. Len(snaps), arena_restore(k)
      PROVE  ReplayInv' /\ RepeatsAnswer
  <2>1. live' = SubSeq(live, 1, snaps[k].mark)
    BY <1>7 DEF arena_restore
  <2>2. snaps[k].mark \in Nat /\ snaps[k].mark <= Len(live)
    BY SnapTypes DEF ArenaInv, SnapsCover
  <2>3. Len(live') # Len(live) + 1
    BY <1>1, <2>1, <2>2
  <2> QED BY <1>7, <2>3, RestoreReplay DEF RepeatsAnswer
<1>8. CASE UNCHANGED vars
  BY <1>1, <1>8, IdleReplay DEF vars, RepeatsAnswer
<1> QED BY <1>2, <1>3, <1>4, <1>5, <1>6, <1>7, <1>8 DEF Next

----------------------------------------------------------------------------
(* What holds of every arena                                               *)

\* The inductive invariant holds in every state the arena can be in.
THEOREM ArenaSafe == Spec => []ArenaInv
<1>1. Init => ArenaInv
  BY InitInv
<1>2. ArenaInv /\ [Next]_vars => ArenaInv'
  BY NextInv
<1> QED BY <1>1, <1>2, PTL DEF Spec

\* Every variable keeps its type, whatever is allocated and rewound
\* (arena.c as a whole).
THEOREM ArenaTypeOK == Spec => []TypeOK
<1>1. ArenaInv => TypeOK
  BY DEF ArenaInv
<1> QED BY <1>1, ArenaSafe, PTL

\* No two pointers still owned by the caller overlap (arena_alloc_aligned,
\* arena_reset, arena_restore).
THEOREM ArenaDisjoint == Spec => []LiveDisjoint
<1>1. ArenaInv => LiveDisjoint
  BY DEF ArenaInv
<1> QED BY <1>1, ArenaSafe, PTL

\* Every pointer still owned by the caller lies inside its block, below the
\* block's cursor (arena_alloc_aligned).
THEOREM ArenaInBounds == Spec => []LiveInBounds
<1>1. ArenaInv => LiveInBounds
  BY DEF ArenaInv
<1> QED BY <1>1, ArenaSafe, PTL

\* Every block behind the current one is empty (arena_alloc_aligned's splice,
\* arena_reset, arena_restore).
THEOREM ArenaTailRewound == Spec => []TailRewound
<1>1. ArenaInv => TailRewound
  BY DEF ArenaInv
<1> QED BY <1>1, ArenaSafe, PTL

\* Rewinding to any snapshot that may still be restored keeps everything
\* allocated before it (arena_snapshot, arena_restore).
THEOREM ArenaSnapsCover == Spec => []SnapsCover
<1>1. ArenaInv => SnapsCover
  BY DEF ArenaInv
<1> QED BY <1>1, ArenaSafe, PTL

\* Making the same requests again after a rewind gives the same addresses and
\* asks malloc for nothing (arena_reset, arena_restore, arena_alloc_aligned).
THEOREM ArenaReplay == Spec => ReplayStable
<1>1. Init => ArenaInv /\ ReplayInv
  BY InitInv, InitReplay
<1>2. ArenaInv /\ ReplayInv /\ [Next]_vars => ArenaInv' /\ ReplayInv'
  BY NextInv, NextReplay
<1>3. ArenaInv /\ ReplayInv /\ [Next]_vars => [RepeatsAnswer]_vars
  BY NextReplay
<1>4. ReplayStable <=> [][RepeatsAnswer]_vars
  BY DEF ReplayStable, RepeatsAnswer
<1> QED BY <1>1, <1>2, <1>3, <1>4, PTL DEF Spec
=============================================================================
