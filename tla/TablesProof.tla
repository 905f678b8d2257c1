---------------------------- MODULE TablesProof ----------------------------
(***************************************************************************)
(* Proofs about the two hash tables, for any hash functions and            *)
(* capacities.                                                             *)
(*                                                                         *)
(* The string table: StrTabInv is inductive; with it the table implements  *)
(* Interner, and every search runs in an array with an empty slot.         *)
(*                                                                         *)
(* The symbol table: its type, that no name has two entries in a scope,    *)
(* and that it implements the stack of dictionaries of module Scopes.      *)
(***************************************************************************)
EXTENDS StrTab, SymbolTable, FiniteSetTheorems, SequenceTheorems, WellFoundedInduction, TLAPS

----------------------------------------------------------------------------
(* The string table                                                        *)

----------------------------------------------------------------------------
(* Lemmas about the slots                                                  *)

\* A home is a slot.
LEMMA HomeIsSlot ==
  ASSUME NEW s \in Str, NEW cap \in Nat \ {0}
  PROVE  Home(s, cap) \in Slots(cap)
BY StrTabAssumption DEF Home, Slots

\* The next slot is a slot, and to get there passes what was passed already
\* and the slot left.
LEMMA SuccPasses ==
  ASSUME NEW cap \in Nat \ {0}, NEW h \in Slots(cap), NEW k \in Slots(cap)
  PROVE  /\ Succ(k, cap) \in Slots(cap)
         /\ \A x \in Slots(cap) : Passed(h, Succ(k, cap), x) => Passed(h, k, x) \/ x = k
BY DEF Slots, Succ, Passed

\* Nothing is passed on the way from a slot to itself.
LEMMA PassedNone ==
  ASSUME NEW cap \in Nat \ {0}, NEW h \in Slots(cap), NEW x \in Slots(cap)
  PROVE  ~Passed(h, h, x)
BY DEF Slots, Passed

\* Of two slots, one is passed on the way to the other.
LEMMA PassedTotal ==
  ASSUME NEW cap \in Nat \ {0},
         NEW h \in Slots(cap), NEW j \in Slots(cap), NEW k \in Slots(cap), j # k
  PROVE  Passed(h, j, k) \/ Passed(h, k, j)
BY DEF Slots, Passed

\* Reachable, with the strings its entries point to as a parameter.
ReachableIn(table, cap, text) ==
  \A j, k \in Slots(cap) :
    table[j] # NULL /\ Passed(Home(text[table[j]], cap), j, k) => table[k] # NULL

LEMMA ReachableText ==
  ASSUME NEW table, NEW cap
  PROVE  Reachable(table, cap) <=> ReachableIn(table, cap, copies)
BY DEF Reachable, ReachableIn, Text

\* Entering p in an empty slot to which every slot from p's home is occupied
\* keeps every entry reachable.
LEMMA EnterReachable ==
  ASSUME NEW cap, NEW P, NEW table \in [Slots(cap) -> P], NEW x \in Slots(cap),
         NEW p \in P, p # NULL, NEW old, NEW new,
         ReachableIn(table, cap, old),
         \A j \in Slots(cap) : table[j] # NULL => new[table[j]] = old[table[j]],
         \A k \in Slots(cap) : Passed(Home(new[p], cap), x, k) => table[k] # NULL
  PROVE  ReachableIn([table EXCEPT ![x] = p], cap, new)
<1> DEFINE t == [table EXCEPT ![x] = p]
<1>1. t[x] = p /\ \A j \in Slots(cap) : j # x => t[j] = table[j]
  OBVIOUS
<1> HIDE DEF t
<1>2. ASSUME NEW j \in Slots(cap), NEW k \in Slots(cap),
             t[j] # NULL, Passed(Home(new[t[j]], cap), j, k)
      PROVE  t[k] # NULL
  <2>1. CASE j = x
    BY <1>1, <1>2, <2>1
  <2>2. CASE j # x
    <3>1. table[j] = t[j] /\ new[t[j]] = old[table[j]]
      BY <1>1, <1>2, <2>2
    <3>2. table[k] # NULL
      BY <3>1, <1>2 DEF ReachableIn
    <3> QED BY <3>2, <1>1
  <2> QED BY <2>1, <2>2
<1> QED BY <1>2 DEF ReachableIn, t

\* A table that holds each of n numbers at most once and has more than n slots
\* has an empty one.
LEMMA EmptySlot ==
  ASSUME NEW n \in Nat, NEW cap \in Nat, n < cap,
         NEW table \in [Slots(cap) -> 1 .. n \cup {NULL}],
         \A j, k \in Slots(cap) : table[j] = table[k] /\ table[j] # NULL => j = k
  PROVE  \E k \in Slots(cap) : table[k] = NULL
<1>1. SUFFICES ASSUME \A k \in Slots(cap) : table[k] # NULL PROVE FALSE
  OBVIOUS
<1>2. table \in [Slots(cap) -> 1 .. n]
  BY <1>1
<1>3. IsFiniteSet(Slots(cap)) /\ Cardinality(Slots(cap)) = cap
  BY FS_Interval DEF Slots
<1>4. IsFiniteSet(1 .. n) /\ Cardinality(1 .. n) = n
  BY FS_Interval
<1>5. \E j, k \in Slots(cap) : j # k /\ table[j] = table[k]
  BY <1>2, <1>3, <1>4, FS_PigeonHole
<1> QED BY <1>1, <1>5

----------------------------------------------------------------------------
(* Every step preserves the invariant                                      *)

\* Every search runs in an array with an empty slot.
LEMMA InvRoomLeft == StrTabInv => RoomLeft
<1> SUFFICES ASSUME StrTabInv PROVE RoomLeft
  OBVIOUS
<1>1. Len(copies) \in Nat /\ capacity \in Nat \ {0} /\ capacity * 2 \in Nat
      /\ count = Len(copies) /\ count <= capacity
  BY DEF StrTabInv, TypeOK, Complete, Load
<1>2. ASSUME pc = "probe" PROVE \E k \in Slots(capacity) : buckets[k] = NULL
  <2>1. count < capacity
    BY <1>2 DEF StrTabInv, Load
  <2>2. buckets \in [Slots(capacity) -> 1 .. Len(copies) \cup {NULL}]
    BY DEF StrTabInv, TypeOK, Copies
  <2>3. \A j, k \in Slots(capacity) : buckets[j] = buckets[k] /\ buckets[j] # NULL => j = k
    BY DEF StrTabInv, Complete
  <2> QED BY <1>1, <2>1, <2>2, <2>3, EmptySlot
<1>3. ASSUME pc = "place" PROVE \E k \in Slots(capacity * 2) : fresh[k] = NULL
  <2>1. Len(copies) < capacity * 2
    BY <1>1
  <2>2. fresh \in [Slots(capacity * 2) -> 1 .. Len(copies) \cup {NULL}]
    BY <1>3 DEF StrTabInv, TypeOK, Copies, Growing
  <2>3. \A j, k \in Slots(capacity * 2) : fresh[j] = fresh[k] /\ fresh[j] # NULL => j = k
    BY <1>3 DEF StrTabInv, CarriedOver, Growing
  <2> QED BY <1>1, <2>1, <2>2, <2>3, EmptySlot
<1> QED BY <1>2, <1>3 DEF RoomLeft

LEMMA InitInv == Init => StrTabInv
<1> SUFFICES ASSUME Init PROVE StrTabInv
  OBVIOUS
<1> USE DEF Init
<1>1. /\ capacity \in Nat \ {0} /\ copies = <<>> /\ Len(copies) = 0 /\ count = 0
      /\ pc \in {"idle", "crashed"} /\ buckets = [k \in Slots(capacity) |-> NULL]
      /\ given = [s \in Str |-> NULL] /\ str = NoStr
  BY StrTabAssumption DEF EmptyTable
<1>2. \A k \in Slots(capacity) : buckets[k] = NULL
  BY <1>1
<1>3. TypeOK
  BY <1>1, EmptySeq DEF TypeOK, Growing, Copies
<1>4. AllReachable /\ CarriedOver /\ ProbeSoFar
  BY <1>1, <1>2 DEF AllReachable, Reachable, CarriedOver, ProbeSoFar, Growing
<1>5. StoredOnce /\ Complete /\ Load /\ GivenRight
  BY <1>1, <1>2 DEF StoredOnce, Complete, Load, GivenRight, Copies
<1> QED BY <1>3, <1>4, <1>5 DEF StrTabInv

LEMMA CallInv ==
  ASSUME StrTabInv, NEW s \in Str, strtab_intern(s)
  PROVE  StrTabInv'
<1>1. UNCHANGED <<buckets, capacity, count, copies, fresh, i, given>>
      /\ str' = s /\ pc = "idle"
  BY DEF strtab_intern
<1>2. TypeOK
  BY DEF StrTabInv
<1>3. \/ pc' = "grow"
      \/ pc' = "probe" /\ slot' = Home(s, capacity) /\ ~Overfull
  BY DEF strtab_intern
<1>4. Home(s, capacity) \in Slots(capacity)
  BY <1>2, HomeIsSlot DEF TypeOK
<1>5. TypeOK'
  BY <1>1, <1>2, <1>3, <1>4 DEF TypeOK, Growing, Copies
<1>6. AllReachable' /\ CarriedOver'
  BY <1>1, <1>3 DEF StrTabInv, AllReachable, Reachable, Text, CarriedOver, Growing
<1>7. StoredOnce' /\ Complete' /\ GivenRight'
  BY <1>1 DEF StrTabInv, StoredOnce, Complete, GivenRight, Copies
<1>8. Load'
  BY <1>1, <1>2, <1>3 DEF StrTabInv, Load, Overfull, TypeOK
<1>9. ProbeSoFar'
  <2>1. \A k \in Slots(capacity) : ~Passed(Home(s, capacity), Home(s, capacity), k)
    BY <1>2, <1>4, PassedNone DEF TypeOK
  <2> QED BY <2>1, <1>1, <1>3 DEF ProbeSoFar
<1> QED BY <1>5, <1>6, <1>7, <1>8, <1>9 DEF StrTabInv

LEMMA GrowAllocInv == StrTabInv /\ GrowAlloc => StrTabInv'
<1> SUFFICES ASSUME StrTabInv, GrowAlloc PROVE StrTabInv'
  OBVIOUS
<1>1. /\ UNCHANGED <<buckets, capacity, count, copies, str, slot, given>>
      /\ pc = "grow" /\ pc' = "walk" /\ i' = 0
      /\ fresh' = [k \in Slots(capacity * 2) |-> NULL]
  BY DEF GrowAlloc, EmptyTable
<1>2. TypeOK
  BY DEF StrTabInv
<1>3. \A k \in Slots(capacity * 2) : fresh'[k] = NULL
  BY <1>1
<1>4. TypeOK'
  BY <1>1, <1>2 DEF TypeOK, Growing, Copies
<1>5. AllReachable' /\ CarriedOver' /\ ProbeSoFar'
  BY <1>1, <1>3
     DEF StrTabInv, AllReachable, Reachable, Text, CarriedOver, ProbeSoFar, Growing
<1>6. StoredOnce' /\ Complete' /\ GivenRight' /\ Load'
  BY <1>1 DEF StrTabInv, StoredOnce, Complete, GivenRight, Load, Copies
<1> QED BY <1>4, <1>5, <1>6 DEF StrTabInv

LEMMA WalkInv == StrTabInv /\ Walk => StrTabInv'
<1> SUFFICES ASSUME StrTabInv, Walk PROVE StrTabInv'
  OBVIOUS
<1>1. /\ UNCHANGED <<buckets, capacity, count, copies, str, fresh, given>>
      /\ pc = "walk" /\ i < capacity
  BY DEF Walk, WalkEnd
<1>2. TypeOK
  BY DEF StrTabInv
<1>3. i \in Slots(capacity) /\ capacity \in Nat \ {0} /\ capacity * 2 \in Nat \ {0}
  BY <1>1, <1>2 DEF TypeOK, Growing, Slots
<1>4. StoredOnce' /\ Complete' /\ GivenRight' /\ Load'
  BY <1>1, <1>2 DEF StrTabInv, StoredOnce, Complete, GivenRight, Load, Copies, Walk
<1>5. CASE buckets[i] = NULL /\ i' = i + 1 /\ UNCHANGED <<pc, slot>>
  <2>1. TypeOK'
    BY <1>1, <1>2, <1>3, <1>5 DEF TypeOK, Growing, Copies, Slots
  <2>2. AllReachable' /\ ProbeSoFar'
    BY <1>1, <1>5 DEF StrTabInv, AllReachable, Reachable, Text, ProbeSoFar, Growing
  <2>3. CarriedOver'
    <3>1. \A k \in 0 .. (i + 1) - 1 : k \in 0 .. i - 1 \/ k = i
      BY <1>3 DEF Slots
    <3>2. \A k \in 0 .. i - 1 : k \in 0 .. (i + 1) - 1
      BY <1>3 DEF Slots
    <3> QED BY <3>1, <3>2, <1>1, <1>5 DEF StrTabInv, CarriedOver, Growing
  <2> QED BY <2>1, <2>2, <2>3, <1>4 DEF StrTabInv
<1>6. CASE /\ buckets[i] # NULL /\ pc' = "place" /\ i' = i
           /\ slot' = Home(Text(buckets[i]), capacity * 2)
  <2>1. Text(buckets[i]) \in Str
    BY <1>2, <1>3, <1>6, ElementOfSeq DEF TypeOK, Text, Copies
  <2> DEFINE h == Home(Text(buckets[i]), capacity * 2)
  <2>2. h \in Slots(capacity * 2)
    BY <1>3, <2>1, HomeIsSlot
  <2>3. \A k \in Slots(capacity * 2) : ~Passed(h, h, k)
    BY <1>3, <2>2, PassedNone
  <2>4. TypeOK'
    BY <1>1, <1>2, <1>6, <2>2 DEF TypeOK, Growing, Copies
  <2>5. AllReachable' /\ CarriedOver'
    BY <1>1, <1>6 DEF StrTabInv, AllReachable, Reachable, Text, CarriedOver, Growing
  <2>6. ProbeSoFar'
    BY <1>1, <1>6, <2>3 DEF ProbeSoFar, Text
  <2> QED BY <2>4, <2>5, <2>6, <1>4 DEF StrTabInv
<1> QED BY <1>5, <1>6 DEF Walk, RehashHome

LEMMA PlaceInv == StrTabInv /\ Place => StrTabInv'
<1> SUFFICES ASSUME StrTabInv, Place PROVE StrTabInv'
  OBVIOUS
<1>1. /\ UNCHANGED <<buckets, capacity, count, copies, str, given>>
      /\ pc = "place"
  BY DEF Place
<1>2. TypeOK
  BY DEF StrTabInv
<1> DEFINE cap == capacity * 2
           text == Text(buckets[i])
           h == Home(text, cap)
<1>3. /\ i \in Slots(capacity) /\ capacity \in Nat \ {0} /\ cap \in Nat \ {0}
      /\ slot \in Slots(cap) /\ buckets[i] # NULL /\ buckets[i] \in Copies
      /\ fresh \in [Slots(cap) -> Copies \cup {NULL}]
  BY <1>1, <1>2 DEF TypeOK, Growing, Slots
<1>4. h \in Slots(cap)
  <2>1. text \in Str
    BY <1>2, <1>3, ElementOfSeq DEF TypeOK, Text, Copies
  <2> QED BY <2>1, <1>3, HomeIsSlot
<1>5. \A k \in Slots(cap) : Passed(h, slot, k) => fresh[k] # NULL
  BY <1>1 DEF StrTabInv, ProbeSoFar
<1>6. StoredOnce' /\ Complete' /\ GivenRight'
  BY <1>1 DEF StrTabInv, StoredOnce, Complete, GivenRight, Copies
<1>7. Load'
  BY <1>1 DEF StrTabInv, Load, Place
<1>8. CASE fresh[slot] # NULL /\ slot' = Succ(slot, cap) /\ UNCHANGED <<pc, fresh, i>>
  <2>1. /\ Succ(slot, cap) \in Slots(cap)
        /\ \A x \in Slots(cap) : Passed(h, Succ(slot, cap), x) => Passed(h, slot, x) \/ x = slot
    BY <1>3, <1>4, SuccPasses
  <2>2. TypeOK'
    BY <1>1, <1>2, <1>8, <2>1 DEF TypeOK, Growing, Copies
  <2>3. AllReachable' /\ CarriedOver'
    BY <1>1, <1>8 DEF StrTabInv, AllReachable, Reachable, Text, CarriedOver, Growing
  <2>4. ProbeSoFar'
    <3>1. \A k \in Slots(cap) : Passed(h, Succ(slot, cap), k) => fresh[k] # NULL
      BY <2>1, <1>5, <1>8
    <3> QED BY <3>1, <1>1, <1>8 DEF ProbeSoFar, Text
  <2> QED BY <2>2, <2>3, <2>4, <1>6, <1>7 DEF StrTabInv
<1>9. CASE /\ fresh[slot] = NULL /\ fresh' = [fresh EXCEPT ![slot] = buckets[i]]
           /\ i' = i + 1 /\ pc' = "walk" /\ slot' = slot
  <2>1. /\ fresh' \in [Slots(cap) -> Copies \cup {NULL}]
        /\ fresh'[slot] = buckets[i]
        /\ \A k \in Slots(cap) : k # slot => fresh'[k] = fresh[k]
    BY <1>3, <1>9
  <2>2. TypeOK'
    BY <1>1, <1>2, <1>3, <1>9, <2>1 DEF TypeOK, Growing, Copies, Slots
  <2>3. AllReachable'
    <3>1. Reachable(buckets, capacity) /\ Reachable(fresh, cap)
      BY <1>1 DEF StrTabInv, AllReachable, Growing
    <3>2. ReachableIn(fresh', cap, copies)
      <4>1. ReachableIn(fresh, cap, copies)
        BY <3>1, ReachableText
      <4>2. \A k \in Slots(cap) : Passed(Home(copies[buckets[i]], cap), slot, k) => fresh[k] # NULL
        BY <1>5 DEF Text
      <4> HIDE DEF cap
      <4> QED BY <4>1, <4>2, <1>3, <1>9, EnterReachable
    <3> QED BY <3>1, <3>2, <1>1, <1>9 DEF AllReachable, Reachable, ReachableIn, Text, Growing
  <2>4. CarriedOver'
    <3>1. /\ \A k \in 0 .. i - 1 : buckets[k] # NULL => \E j \in Slots(cap) : fresh[j] = buckets[k]
          /\ \A j \in Slots(cap) : fresh[j] # NULL => \E k \in 0 .. i - 1 : buckets[k] = fresh[j]
          /\ \A j, k \in Slots(cap) : fresh[j] = fresh[k] /\ fresh[j] # NULL => j = k
      BY <1>1 DEF StrTabInv, CarriedOver, Growing
    <3>2. \A k : k \in 0 .. (i + 1) - 1 <=> k \in 0 .. i - 1 \/ k = i
      BY <1>3 DEF Slots
    <3>3. \A k \in 0 .. i - 1 : k \in Slots(capacity) /\ k # i
      BY <1>3 DEF Slots
    <3>4. \A k \in 0 .. i - 1 : buckets[k] # NULL => buckets[k] # buckets[i]
      BY <3>3, <1>3 DEF StrTabInv, Complete
    <3>5. \A j \in Slots(cap) : fresh[j] # buckets[i]
      BY <3>1, <3>4, <1>3
    <3>6. \A k \in 0 .. (i + 1) - 1 : buckets[k] # NULL => \E j \in Slots(cap) : fresh'[j] = buckets[k]
      BY <3>1, <3>2, <2>1, <1>3, <1>9
    <3>7. \A j \in Slots(cap) : fresh'[j] # NULL => \E k \in 0 .. (i + 1) - 1 : buckets[k] = fresh'[j]
      BY <3>1, <3>2, <2>1
    <3>8. \A j, k \in Slots(cap) : fresh'[j] = fresh'[k] /\ fresh'[j] # NULL => j = k
      BY <3>1, <3>5, <2>1
    <3> QED BY <3>6, <3>7, <3>8, <1>1, <1>9 DEF CarriedOver, Growing
  <2>5. ProbeSoFar'
    BY <1>9 DEF ProbeSoFar
  <2> QED BY <2>2, <2>3, <2>4, <2>5, <1>6, <1>7 DEF StrTabInv
<1> QED BY <1>8, <1>9 DEF Place, Taken

LEMMA GrowDoneInv == StrTabInv /\ GrowDone => StrTabInv'
<1> SUFFICES ASSUME StrTabInv, GrowDone PROVE StrTabInv'
  OBVIOUS
<1> DEFINE cap == capacity * 2
<1>1. /\ UNCHANGED <<count, copies, str, i, given>>
      /\ pc = "walk" /\ i = capacity /\ pc' = "probe"
      /\ buckets' = fresh /\ capacity' = cap /\ slot' = Home(str, cap)
  BY DEF GrowDone, WalkEnd, Start
<1>2. TypeOK
  BY DEF StrTabInv
<1>3. /\ capacity \in Nat \ {0} /\ cap \in Nat \ {0} /\ str \in Str
      /\ fresh \in [Slots(cap) -> Copies \cup {NULL}]
      /\ buckets \in [Slots(capacity) -> Copies \cup {NULL}]
  BY <1>1, <1>2 DEF TypeOK, Growing
<1>4. Home(str, cap) \in Slots(cap)
  BY <1>3, HomeIsSlot
<1>5. /\ \A k \in 0 .. i - 1 : buckets[k] # NULL => \E j \in Slots(cap) : fresh[j] = buckets[k]
      /\ \A j, k \in Slots(cap) : fresh[j] = fresh[k] /\ fresh[j] # NULL => j = k
  BY <1>1 DEF StrTabInv, CarriedOver, Growing
<1>6. 0 .. i - 1 = Slots(capacity)
  BY <1>1 DEF Slots
<1>7. Reachable(fresh, cap)
  BY <1>1 DEF StrTabInv, AllReachable, Growing
<1>8. count <= capacity /\ capacity < cap
  BY <1>3 DEF StrTabInv, Load
<1> HIDE DEF cap
<1>9. TypeOK'
  BY <1>1, <1>2, <1>3, <1>4 DEF TypeOK, Growing, Copies
<1>10. AllReachable' /\ CarriedOver'
  BY <1>1, <1>7 DEF AllReachable, Reachable, Text, CarriedOver, Growing
<1>11. StoredOnce' /\ GivenRight'
  BY <1>1 DEF StrTabInv, StoredOnce, GivenRight, Copies
<1>12. Complete'
  <2>1. count = Len(copies) /\ \A p \in Copies : \E j \in Slots(capacity) : buckets[j] = p
    BY DEF StrTabInv, Complete
  <2>2. \A p \in Copies : p # NULL
    BY DEF Copies, NULL
  <2>3. \A p \in Copies : \E j \in Slots(cap) : fresh[j] = p
    BY <2>1, <2>2, <1>5, <1>6
  <2> QED BY <2>1, <2>3, <1>1, <1>5 DEF Complete, Copies
<1>13. Load'
  BY <1>1, <1>3, <1>8, <1>2 DEF Load, TypeOK
<1>14. ProbeSoFar'
  <2>1. \A k \in Slots(cap) : ~Passed(Home(str, cap), Home(str, cap), k)
    BY <1>3, <1>4, PassedNone
  <2> QED BY <2>1, <1>1 DEF ProbeSoFar
<1> QED BY <1>9, <1>10, <1>11, <1>12, <1>13, <1>14 DEF StrTabInv

LEMMA ProbeInv == StrTabInv /\ Probe => StrTabInv'
<1> SUFFICES ASSUME StrTabInv, Probe PROVE StrTabInv'
  OBVIOUS
<1>1. /\ UNCHANGED <<buckets, capacity, count, copies, fresh, i>>
      /\ pc = "probe" /\ buckets[slot] # NULL
  BY DEF Probe
<1>2. TypeOK
  BY DEF StrTabInv
<1>3. /\ capacity \in Nat \ {0} /\ str \in Str /\ slot \in Slots(capacity)
      /\ buckets[slot] \in Copies
  BY <1>1, <1>2 DEF TypeOK
<1>4. StoredOnce' /\ Complete'
  BY <1>1 DEF StrTabInv, StoredOnce, Complete, Copies
<1>5. CASE /\ Text(buckets[slot]) = str
           /\ Return(buckets[slot])
           /\ slot' = slot
  <2>1. pc' = "idle" /\ str' = NoStr /\ given' = [given EXCEPT ![str] = buckets[slot]]
    BY <1>5 DEF Return
  <2>2. TypeOK'
    BY <1>1, <1>2, <1>3, <2>1 DEF TypeOK, Growing, Copies
  <2>3. AllReachable' /\ CarriedOver' /\ ProbeSoFar' /\ Load'
    BY <1>1, <2>1 DEF StrTabInv, AllReachable, Reachable, Text, CarriedOver,
                      ProbeSoFar, Load, Growing
  <2>4. GivenRight'
    BY <1>1, <1>2, <1>5, <2>1 DEF StrTabInv, GivenRight, Text, TypeOK
  <2> QED BY <2>2, <2>3, <2>4, <1>4 DEF StrTabInv
<1>6. CASE /\ Text(buckets[slot]) # str
           /\ slot' = Succ(slot, capacity)
           /\ UNCHANGED <<pc, str, given>>
  <2> DEFINE h == Home(str, capacity)
  <2>1. /\ Succ(slot, capacity) \in Slots(capacity)
        /\ \A x \in Slots(capacity) :
             Passed(h, Succ(slot, capacity), x) => Passed(h, slot, x) \/ x = slot
    BY <1>3, HomeIsSlot, SuccPasses
  <2>2. TypeOK'
    BY <1>1, <1>2, <1>6, <2>1 DEF TypeOK, Growing, Copies
  <2>3. AllReachable' /\ CarriedOver' /\ Load' /\ GivenRight'
    BY <1>1, <1>6 DEF StrTabInv, AllReachable, Reachable, Text, CarriedOver,
                      Load, GivenRight, Growing
  <2>4. ProbeSoFar'
    <3>1. \A k \in Slots(capacity) : Passed(h, Succ(slot, capacity), k) =>
            buckets[k] # NULL /\ Text(buckets[k]) # str
      BY <2>1, <1>1, <1>6 DEF StrTabInv, ProbeSoFar
    <3> QED BY <3>1, <1>1, <1>6 DEF ProbeSoFar, Text
  <2> QED BY <2>2, <2>3, <2>4, <1>4 DEF StrTabInv
<1> QED BY <1>5, <1>6 DEF Probe, Matches

\* A probe that ends at an empty slot proves that the string is not stored.
LEMMA NotStored ==
  ASSUME StrTabInv, pc = "probe", buckets[slot] = NULL
  PROVE  \A p \in Copies : copies[p] # str
<1>1. SUFFICES ASSUME NEW p \in Copies, copies[p] = str PROVE FALSE
  OBVIOUS
<1>2. /\ capacity \in Nat \ {0} /\ str \in Str /\ slot \in Slots(capacity)
      /\ p # NULL
  BY DEF StrTabInv, TypeOK, Copies, NULL
<1> DEFINE h == Home(str, capacity)
<1>3. h \in Slots(capacity)
  BY <1>2, HomeIsSlot
<1>4. PICK j \in Slots(capacity) : buckets[j] = p
  BY DEF StrTabInv, Complete
<1>5. ~Passed(h, slot, j)
  BY <1>1, <1>4 DEF StrTabInv, ProbeSoFar, Text
<1>6. ~Passed(h, j, slot)
  BY <1>1, <1>2, <1>4 DEF StrTabInv, AllReachable, Reachable, Text
<1> QED BY <1>2, <1>3, <1>4, <1>5, <1>6, PassedTotal

LEMMA InsertInv == StrTabInv /\ Insert => StrTabInv'
<1> SUFFICES ASSUME StrTabInv, Insert PROVE StrTabInv'
  OBVIOUS
<1> DEFINE n == Len(copies)
<1>1. /\ UNCHANGED <<capacity, slot, fresh, i>>
      /\ pc = "probe" /\ pc' = "idle" /\ buckets[slot] = NULL /\ str' = NoStr
      /\ copies' = Append(copies, str)
      /\ buckets' = [buckets EXCEPT ![slot] = n + 1]
      /\ given' = [given EXCEPT ![str] = n + 1]
      /\ count' = count + 1
  BY DEF Insert, Return
<1>2. TypeOK
  BY DEF StrTabInv
<1>3. /\ capacity \in Nat \ {0} /\ str \in Str /\ slot \in Slots(capacity)
      /\ n \in Nat /\ copies \in Seq(Str) /\ count = n
      /\ buckets \in [Slots(capacity) -> 1 .. n \cup {NULL}]
      /\ given \in [Str -> 1 .. n \cup {NULL}]
  BY <1>1, <1>2 DEF TypeOK, Copies, StrTabInv, Complete
<1>4. /\ copies' \in Seq(Str) /\ Len(copies') = n + 1
      /\ \A p \in 1 .. n : copies'[p] = copies[p]
      /\ copies'[n + 1] = str
  BY <1>1, <1>3, AppendProperties
<1>5. \A p \in 1 .. n : copies[p] # str
  BY <1>1, NotStored DEF Copies
<1> HIDE DEF n
<1>6. /\ buckets' \in [Slots(capacity) -> 1 .. n + 1 \cup {NULL}]
      /\ buckets'[slot] = n + 1
      /\ \A k \in Slots(capacity) : k # slot => buckets'[k] = buckets[k]
      /\ given' \in [Str -> 1 .. n + 1 \cup {NULL}]
      /\ given'[str] = n + 1
      /\ \A s \in Str : s # str => given'[s] = given[s]
  BY <1>1, <1>3
<1>7. TypeOK'
  BY <1>1, <1>2, <1>3, <1>4, <1>6 DEF TypeOK, Growing, Copies
<1>8. AllReachable'
  <2>1. ReachableIn(buckets, capacity, copies)
    BY ReachableText DEF StrTabInv, AllReachable
  <2>2. \A j \in Slots(capacity) : buckets[j] # NULL => copies'[buckets[j]] = copies[buckets[j]]
    BY <1>3, <1>4
  <2>3. \A k \in Slots(capacity) : Passed(Home(copies'[n + 1], capacity), slot, k) => buckets[k] # NULL
    BY <1>1, <1>4 DEF StrTabInv, ProbeSoFar
  <2> DEFINE P == 1 .. n + 1 \cup {NULL}
  <2>4. n + 1 \in P /\ n + 1 # NULL
    BY <1>3 DEF NULL
  <2>5. buckets \in [Slots(capacity) -> P] /\ slot \in Slots(capacity)
    BY <1>3
  <2> HIDE DEF P
  <2>6. ReachableIn([buckets EXCEPT ![slot] = n + 1], capacity, copies')
    BY <2>1, <2>2, <2>3, <2>4, <2>5, EnterReachable
  <2>7. ReachableIn(buckets', capacity, copies')
    BY <2>6, <1>1
  <2> QED BY <2>7, <1>1 DEF AllReachable, Reachable, ReachableIn, Text, Growing
<1>9. StoredOnce'
  <2> SUFFICES ASSUME NEW p \in 1 .. n + 1, NEW q \in 1 .. n + 1, copies'[p] = copies'[q]
               PROVE  p = q
    BY <1>4 DEF StoredOnce, Copies
  <2>1. StoredOnce /\ Copies = 1 .. n
    BY DEF StrTabInv, Copies, n
  <2>2. CASE p \in 1 .. n /\ q \in 1 .. n
    BY <2>1, <2>2, <1>4 DEF StoredOnce
  <2>3. CASE p = n + 1 \/ q = n + 1
    BY <2>3, <1>3, <1>4, <1>5
  <2> QED BY <2>2, <2>3, <1>3
<1>10. Complete'
  <2>1. /\ \A p \in 1 .. n : \E j \in Slots(capacity) : buckets[j] = p
        /\ \A j, k \in Slots(capacity) : buckets[j] = buckets[k] /\ buckets[j] # NULL => j = k
    BY DEF StrTabInv, Complete, Copies, n
  <2>2. \A p \in 1 .. n + 1 : \E j \in Slots(capacity) : buckets'[j] = p
    <3> TAKE p \in 1 .. n + 1
    <3>1. CASE p = n + 1
      BY <3>1, <1>3, <1>6
    <3>2. CASE p \in 1 .. n
      <4>1. PICK j \in Slots(capacity) : buckets[j] = p
        BY <2>1, <3>2
      <4>2. j # slot
        BY <4>1, <3>2, <1>1 DEF NULL
      <4> QED BY <4>1, <4>2, <1>6
    <3> QED BY <3>1, <3>2, <1>3
  <2>3. \A j \in Slots(capacity) : buckets[j] # n + 1
    BY <1>3 DEF NULL
  <2>4. \A j, k \in Slots(capacity) : buckets'[j] = buckets'[k] /\ buckets'[j] # NULL => j = k
    BY <2>1, <2>3, <1>6
  <2> QED BY <2>2, <2>4, <1>1, <1>3, <1>4 DEF Complete, Copies
<1>11. Load'
  BY <1>1, <1>3 DEF StrTabInv, Load
<1>12. CarriedOver' /\ ProbeSoFar'
  BY <1>1 DEF CarriedOver, ProbeSoFar, Growing
<1>13. GivenRight'
  <2> SUFFICES ASSUME NEW s \in Str, given'[s] # NULL PROVE copies'[given'[s]] = s
    BY DEF GivenRight
  <2>1. CASE s = str
    BY <2>1, <1>4, <1>6
  <2>2. CASE s # str
    <3>1. given'[s] = given[s] /\ given[s] \in 1 .. n /\ copies[given[s]] = s
      BY <2>2, <1>3, <1>6 DEF StrTabInv, GivenRight
    <3> QED BY <3>1, <1>4
  <2> QED BY <2>1, <2>2
<1> QED BY <1>7, <1>8, <1>9, <1>10, <1>11, <1>12, <1>13 DEF StrTabInv

LEMMA RunOutInv == StrTabInv /\ RunOut => StrTabInv'
<1> SUFFICES ASSUME StrTabInv, RunOut PROVE StrTabInv'
  OBVIOUS
<1>1. /\ UNCHANGED <<buckets, capacity, count, copies, str, slot, fresh, i, given>>
      /\ pc' = "crashed" /\ pc \in {"grow", "probe"}
  BY DEF RunOut
<1>2. TypeOK'
  BY <1>1 DEF StrTabInv, TypeOK, Growing, Copies
<1> QED BY <1>1, <1>2
        DEF StrTabInv, AllReachable, Reachable, Text, StoredOnce, Complete, CarriedOver,
            ProbeSoFar, Load, GivenRight, Growing, Copies

\* StrTabInv is inductive.
LEMMA NextInv == StrTabInv /\ [Next]_vars => StrTabInv'
<1> SUFFICES ASSUME StrTabInv, [Next]_vars PROVE StrTabInv'
  OBVIOUS
<1>1. CASE Step
  BY <1>1, GrowAllocInv, WalkInv, PlaceInv, GrowDoneInv, ProbeInv, InsertInv, RunOutInv
     DEF Step
<1>2. ASSUME NEW s \in Str, strtab_intern(s) PROVE StrTabInv'
  BY <1>2, CallInv
<1>3. CASE UNCHANGED vars
  BY <1>3 DEF vars, StrTabInv, TypeOK, AllReachable, Reachable, Text, StoredOnce, Complete,
              CarriedOver, ProbeSoFar, Load, GivenRight, Growing, Copies
<1> QED BY <1>1, <1>2, <1>3 DEF Next

----------------------------------------------------------------------------
(* What holds of every string table                                        *)

\* The inductive invariant holds in every state of the table.
THEOREM StrTabSafe == Spec => []StrTabInv
<1>1. Init => StrTabInv
  BY InitInv
<1>2. StrTabInv /\ [Next]_vars => StrTabInv'
  BY NextInv
<1> QED BY <1>1, <1>2, PTL DEF Spec

\* Every variable keeps its type and every slot looked at is one of the array
\* searched (strtab_intern, strtab_grow).
THEOREM StrTabTypeOK == Spec => []TypeOK
<1>1. StrTabInv => TypeOK
  BY DEF StrTabInv
<1> QED BY <1>1, StrTabSafe, PTL

\* No entry is ever lost to the probe, however the hashes collide
\* (strtab_intern, strtab_grow).
THEOREM StrTabReachable == Spec => []AllReachable
<1>1. StrTabInv => AllReachable
  BY DEF StrTabInv
<1> QED BY <1>1, StrTabSafe, PTL

\* No string is copied into the arena twice (strtab.h, the header comment).
THEOREM StrTabStoredOnce == Spec => []StoredOnce
<1>1. StrTabInv => StoredOnce
  BY DEF StrTabInv
<1> QED BY <1>1, StrTabSafe, PTL

\* The buckets hold every copy once, and count is right (strtab_intern,
\* strtab_grow).
THEOREM StrTabComplete == Spec => []Complete
<1>1. StrTabInv => Complete
  BY DEF StrTabInv
<1> QED BY <1>1, StrTabSafe, PTL

\* Neither search can run out of empty slots: the load factor test comes in
\* time, for every initial capacity (strtab_intern).
THEOREM StrTabRoomLeft == Spec => []RoomLeft
BY InvRoomLeft, StrTabSafe, PTL

\* A step of the table is a step of the interner, or none.
LEMMA StepSimulates == StrTabInv /\ [Next]_vars => [Promise!Next]_Promise!vars
<1> SUFFICES ASSUME StrTabInv, [Next]_vars PROVE [Promise!Next]_Promise!vars
  OBVIOUS
<1>1. TypeOK
  BY DEF StrTabInv
<1>2. ASSUME NEW s \in Str, strtab_intern(s) PROVE Promise!Call(s)
  BY <1>1, <1>2 DEF strtab_intern, Promise!Call, TypeOK
<1>3. ASSUME UNCHANGED <<str, given>>, pc # "crashed", pc' # "crashed"
      PROVE  UNCHANGED Promise!vars
  BY <1>3 DEF Promise!vars
<1>4. CASE GrowAlloc \/ Walk \/ Place \/ GrowDone
  BY <1>3, <1>4 DEF GrowAlloc, Walk, Place, GrowDone
<1>5. CASE Probe
  <2>1. pc = "probe" /\ str \in Str /\ slot \in Slots(capacity)
        /\ buckets[slot] \in Nat \ {NULL} /\ buckets[slot] \in Copies
    BY <1>1, <1>5 DEF Probe, TypeOK, Copies
  <2>2. CASE Text(buckets[slot]) = str /\ Return(buckets[slot])
    <3>1. str' = NoStr /\ pc' = "idle" /\ given' = [given EXCEPT ![str] = buckets[slot]]
      BY <2>2 DEF Return
    <3>2. given \in [Str -> Copies \cup {NULL}]
      BY <1>1 DEF TypeOK
    <3>3. CASE given[str] # NULL
      <4>1. given[str] \in Copies /\ copies[given[str]] = str
        BY <3>2, <3>3, <2>1 DEF StrTabInv, GivenRight
      <4>2. given[str] = buckets[slot]
        BY <4>1, <2>1, <2>2 DEF StrTabInv, StoredOnce, Text
      <4>3. given' = given
        BY <4>2, <3>1, <3>2
      <4> QED BY <4>3, <3>1, <3>3, <2>1, StrTabAssumption
              DEF Promise!Next, Promise!Return, Promise!NULL, NULL
    <3>4. CASE given[str] = NULL
      <4>1. ASSUME NEW s \in Str PROVE given[s] # buckets[slot]
        <5>1. CASE s = str
          BY <5>1, <3>4, <2>1
        <5>2. CASE s # str
          <6>1. given[s] # NULL => copies[given[s]] = s
            BY DEF StrTabInv, GivenRight
          <6> QED BY <6>1, <5>2, <2>1, <2>2 DEF Text
        <5> QED BY <5>1, <5>2
      <4> QED BY <4>1, <3>1, <3>2, <3>4, <2>1, StrTabAssumption
              DEF Promise!Next, Promise!Return, Promise!Taken, Promise!NULL, NULL, Copies
    <3> QED BY <3>3, <3>4
  <2>3. CASE UNCHANGED <<pc, str, given>>
    BY <2>3, <2>1, <1>3
  <2> QED BY <2>2, <2>3, <1>5 DEF Probe, Matches
<1>6. CASE Insert
  <2> DEFINE n == Len(copies)
  <2>1. /\ pc = "probe" /\ pc' = "idle" /\ str' = NoStr /\ str \in Str
        /\ given' = [given EXCEPT ![str] = n + 1] /\ buckets[slot] = NULL
    BY <1>1, <1>6 DEF Insert, Return, TypeOK
  <2>2. n \in Nat /\ given \in [Str -> 1 .. n \cup {NULL}]
    BY <1>1 DEF TypeOK, Copies
  <2>3. \A s \in Str : given[s] # n + 1
    BY <2>2 DEF NULL
  <2>4. given[str] = NULL
    <3>1. \A p \in Copies : copies[p] # str
      BY <2>1, NotStored
    <3> QED BY <3>1, <2>1, <2>2 DEF StrTabInv, GivenRight, Copies
  <2> HIDE DEF n
  <2> QED BY <2>1, <2>2, <2>3, <2>4, StrTabAssumption
          DEF Promise!Next, Promise!Return, Promise!Taken, Promise!NULL, NULL
<1>7. CASE RunOut
  BY <1>7 DEF RunOut, Promise!Next, Promise!RunOut
<1>8. CASE UNCHANGED vars
  BY <1>8 DEF vars, Promise!vars
<1> QED BY <1>2, <1>4, <1>5, <1>6, <1>7, <1>8 DEF Next, Step, Promise!Next

\* "Two calls with equal content return the SAME pointer", stable for the
\* lifetime of the arena, and different strings different ones: the table
\* implements the interner (strtab.h, strtab_intern).
THEOREM StrTabImplements == Spec => ImplementsInterner
<1>1. Init => Promise!Init
  BY DEF Init, Promise!Init, NULL, Promise!NULL
<1>2. StrTabInv /\ [Next]_vars => [Promise!Next]_Promise!vars
  BY StepSimulates
<1> QED BY <1>1, <1>2, StrTabSafe, PTL DEF Spec, ImplementsInterner, Promise!Spec

----------------------------------------------------------------------------
(* The symbol table                                                        *)

----------------------------------------------------------------------------
(* Numbers.                                                                *)

\* A set of numbers that is not empty has a least member; a bounded one, a greatest.
LEMMA Least ==
  ASSUME NEW T \in SUBSET Nat, T # {}
  PROVE  \E k \in T : \A j \in T : k <= j
<1> DEFINE R == {ss \in Nat \X Nat : ss[1] < ss[2]}
<1>1. IsWellFoundedOn(R, Nat)
  BY NatLessThanWellFounded DEF OpToRel
<1>2. ASSUME NEW k \in Nat, NEW j \in Nat, <<j, k>> \notin R
      PROVE  k <= j
  <2>1. <<j, k>> \in Nat \X Nat /\ <<j, k>>[1] = j /\ <<j, k>>[2] = k
    OBVIOUS
  <2> QED
    BY <1>2, <2>1
<1> HIDE DEF R
<1>3. \E k \in T : \A j \in T : <<j, k>> \notin R
  BY <1>1, WFMin
<1> QED
  BY <1>2, <1>3

LEMMA Greatest ==
  ASSUME NEW n \in Nat, NEW T \in SUBSET (1 .. n), T # {}
  PROVE  \E k \in T : \A j \in T : j <= k
<1> DEFINE U == {p \in Nat : \E k \in T : p = n - k}
<1>1. \A k \in T : k \in 1 .. n /\ n - k \in Nat /\ n - k \in U
  OBVIOUS
<1>2. U # {}
  BY <1>1
<1>3. \E u \in U : \A y \in U : u <= y
  <2> HIDE DEF U
  <2> QED
    BY <1>2, Least DEF U
<1>4. PICK k \in T : \A y \in U : n - k <= y
  BY <1>3
<1>5. \A j \in T : n - k <= n - j
  BY <1>1, <1>4
<1> QED
  BY <1>1, <1>5

----------------------------------------------------------------------------
(* One scope                                                               *)

\* EntriesUnique of one scope.
Placed(scope) ==
  \A k \in Buckets : \A p \in 1 .. Len(scope.buckets[k]) :
    /\ BucketOf(scope.buckets[k][p].name) = k
    /\ \A j \in 1 .. Len(scope.buckets[k]) :
         scope.buckets[k][p].name = scope.buckets[k][j].name => p = j
Counted(scope) ==
  IsFiniteSet(Entries(scope)) /\ scope.count = Cardinality(Entries(scope))
Tidy(scope) == scope \in Scope /\ Placed(scope) /\ Counted(scope)

\* A name's bucket is one of the buckets.
LEMMA BucketIs == \A name \in Names : BucketOf(name) \in Buckets
BY SymbolTableAssumption DEF BucketOf, Buckets

\* A chain is a sequence of entries.
LEMMA ChainType ==
  ASSUME NEW scope \in Scope, NEW k \in Buckets
  PROVE  /\ scope.buckets[k] \in Seq(ScopeEntry)
         /\ Len(scope.buckets[k]) \in Nat
         /\ DOMAIN scope.buckets[k] = 1 .. Len(scope.buckets[k])
         /\ \A p \in 1 .. Len(scope.buckets[k]) : scope.buckets[k][p] \in ScopeEntry
<1>1. scope.buckets \in [Buckets -> Seq(ScopeEntry)]
  BY DEF Scope
<1>2. scope.buckets[k] \in Seq(ScopeEntry)
  BY <1>1
<1> QED
  BY <1>2

\* What the walk down a chain finds, in a tidy scope: the one entry there is.
LEMMA FoundThere ==
  ASSUME NEW scope \in Scope, Placed(scope), NEW name \in Names,
         NEW p \in 1 .. Len(scope.buckets[BucketOf(name)]),
         scope.buckets[BucketOf(name)][p].name = name
  PROVE  Found(scope, name) = scope.buckets[BucketOf(name)][p].symbol
<1>1. BucketOf(name) \in Buckets
  BY BucketIs
<1>2. DOMAIN scope.buckets[BucketOf(name)] = 1 .. Len(scope.buckets[BucketOf(name)])
  BY <1>1, ChainType
<1>3. SameNamed(scope, name) = {p}
  <2>1. p \in SameNamed(scope, name)
    BY <1>2 DEF SameNamed
  <2>2. ASSUME NEW j \in SameNamed(scope, name)
        PROVE  j = p
    <3>1. j \in 1 .. Len(scope.buckets[BucketOf(name)]) /\ scope.buckets[BucketOf(name)][j].name = name
      BY <1>2 DEF SameNamed
    <3> QED
      BY <1>1, <3>1 DEF Placed
  <2> QED
    BY <2>1, <2>2
<1>4. FirstMatch(scope, name) = p
  BY <1>3 DEF FirstMatch
<1> QED
  BY <1>3, <1>4 DEF Found

LEMMA FoundNot ==
  ASSUME NEW scope \in Scope, NEW name \in Names,
         \A p \in 1 .. Len(scope.buckets[BucketOf(name)]) :
           scope.buckets[BucketOf(name)][p].name # name
  PROVE  SameNamed(scope, name) = {} /\ Found(scope, name) = NoSymbol
<1>1. DOMAIN scope.buckets[BucketOf(name)] = 1 .. Len(scope.buckets[BucketOf(name)])
  BY BucketIs, ChainType
<1>2. SameNamed(scope, name) = {}
  BY <1>1 DEF SameNamed
<1> QED
  BY <1>2 DEF Found

\* A name is found or it is not, and what is found is a symbol.
LEMMA FoundType ==
  ASSUME NEW scope \in Scope, Placed(scope), NEW name \in Names
  PROVE  /\ Found(scope, name) \in Symbols \cup {NoSymbol}
         /\ Found(scope, name) = NoSymbol <=> SameNamed(scope, name) = {}
<1>1. BucketOf(name) \in Buckets
  BY BucketIs
<1>2. CASE \A p \in 1 .. Len(scope.buckets[BucketOf(name)]) :
             scope.buckets[BucketOf(name)][p].name # name
  BY <1>2, FoundNot
<1>3. CASE \E p \in 1 .. Len(scope.buckets[BucketOf(name)]) :
             scope.buckets[BucketOf(name)][p].name = name
  <2>1. PICK p \in 1 .. Len(scope.buckets[BucketOf(name)]) :
          scope.buckets[BucketOf(name)][p].name = name
    BY <1>3
  <2>2. Found(scope, name) = scope.buckets[BucketOf(name)][p].symbol
    BY <2>1, FoundThere
  <2>3. scope.buckets[BucketOf(name)][p] \in ScopeEntry
    BY <1>1, ChainType
  <2>4. Found(scope, name) \in Symbols
    BY <2>2, <2>3 DEF ScopeEntry
  <2>5. p \in SameNamed(scope, name)
    BY <1>1, <2>1, ChainType DEF SameNamed
  <2> QED
    BY <2>4, <2>5, SymbolTableAssumption
<1> QED
  BY <1>2, <1>3

\* A new scope is tidy and finds nothing.
LEMMA NewScope ==
  /\ Tidy(scope_new)
  /\ \A name \in Names : Found(scope_new, name) = NoSymbol
<1>1. /\ scope_new.buckets = [k \in Buckets |-> <<>>]
      /\ scope_new.count = 0
      /\ \A k \in Buckets : scope_new.buckets[k] = <<>> /\ Len(scope_new.buckets[k]) = 0
  BY DEF scope_new
<1>2. scope_new \in Scope
  <2>1. [k \in Buckets |-> <<>>] \in [Buckets -> Seq(ScopeEntry)]
    OBVIOUS
  <2> QED
    BY <2>1 DEF Scope, scope_new
<1>3. Placed(scope_new)
  BY <1>1 DEF Placed
<1>4. Counted(scope_new)
  <2>1. \A k \in Buckets : {<<k, p>> : p \in 1 .. Len(scope_new.buckets[k])} = {}
    BY <1>1
  <2>2. Entries(scope_new) = {}
    BY <2>1 DEF Entries
  <2> QED
    BY <1>1, <2>2, FS_EmptySet DEF Counted
<1>5. ASSUME NEW name \in Names
      PROVE  Found(scope_new, name) = NoSymbol
  BY <1>1, <1>2, BucketIs, FoundNot
<1> QED
  BY <1>2, <1>3, <1>4, <1>5 DEF Tidy

\* A new entry in front of its chain: the chain, the others, the count.
LEMMA ChainsAfter ==
  ASSUME NEW scope \in Scope, NEW name \in Names, NEW symbol \in Symbols,
         NEW new, new = WithEntry(scope, name, symbol)
  PROVE  /\ new \in Scope
         /\ new.count = scope.count + 1
         /\ Len(new.buckets[BucketOf(name)]) = Len(scope.buckets[BucketOf(name)]) + 1
         /\ new.buckets[BucketOf(name)][1].name = name
         /\ new.buckets[BucketOf(name)][1].symbol = symbol
         /\ \A p \in 1 .. Len(scope.buckets[BucketOf(name)]) :
              new.buckets[BucketOf(name)][p + 1] = scope.buckets[BucketOf(name)][p]
         /\ \A k \in Buckets \ {BucketOf(name)} : new.buckets[k] = scope.buckets[k]
<1> DEFINE h == BucketOf(name)
           old == scope.buckets[h]
           entry == [name |-> name, symbol |-> symbol]
<1>1. h \in Buckets
  BY BucketIs
<1>2. old \in Seq(ScopeEntry) /\ entry \in ScopeEntry /\ Len(old) \in Nat
  BY <1>1, ChainType DEF ScopeEntry
<1>3. <<entry>> \o old \in Seq(ScopeEntry)
  BY <1>2
<1>4. /\ Len(<<entry>> \o old) = Len(old) + 1
      /\ (<<entry>> \o old)[1] = entry
      /\ \A p \in 1 .. Len(old) : (<<entry>> \o old)[p + 1] = old[p]
  BY <1>2
<1>5. scope.buckets \in [Buckets -> Seq(ScopeEntry)] /\ scope.count \in Nat
  BY DEF Scope
<1>6. /\ new.buckets = [scope.buckets EXCEPT ![h] = <<entry>> \o old]
      /\ new.count = scope.count + 1
      /\ new = [buckets |-> new.buckets, count |-> new.count]
  BY DEF WithEntry
<1>7. new.buckets[h] = <<entry>> \o old
  BY <1>1, <1>5, <1>6
<1>8. \A k \in Buckets \ {h} : new.buckets[k] = scope.buckets[k]
  BY <1>5, <1>6
<1>9. new \in Scope
  <2>1. new.buckets \in [Buckets -> Seq(ScopeEntry)]
    BY <1>3, <1>5, <1>6
  <2>2. new.count \in Nat
    BY <1>5, <1>6
  <2> QED
    BY <1>6, <2>1, <2>2 DEF Scope
<1> QED
  BY <1>4, <1>6, <1>7, <1>8, <1>9

\* A name the scope does not have gets an entry: the scope stays tidy, finds
\* the name and finds all others as before.
LEMMA AddEntry ==
  ASSUME NEW scope, Tidy(scope), NEW name \in Names, NEW symbol \in Symbols,
         SameNamed(scope, name) = {},
         NEW new, new = WithEntry(scope, name, symbol)
  PROVE  /\ Tidy(new)
         /\ Found(new, name) = symbol
         /\ \A other \in Names \ {name} : Found(new, other) = Found(scope, other)
<1> DEFINE h == BucketOf(name)
           n == Len(scope.buckets[h])
<1>1. scope \in Scope /\ Placed(scope) /\ Counted(scope) /\ h \in Buckets
  BY BucketIs DEF Tidy
<1>2. n \in Nat /\ DOMAIN scope.buckets[h] = 1 .. n
  BY <1>1, ChainType
<1>3. /\ new \in Scope
      /\ new.count = scope.count + 1
      /\ Len(new.buckets[h]) = n + 1
      /\ new.buckets[h][1].name = name
      /\ new.buckets[h][1].symbol = symbol
      /\ \A p \in 1 .. n : new.buckets[h][p + 1] = scope.buckets[h][p]
      /\ \A k \in Buckets \ {h} : new.buckets[k] = scope.buckets[k]
  BY <1>1, ChainsAfter
<1>4. \A p \in 1 .. n : scope.buckets[h][p].name # name
  BY <1>2 DEF SameNamed
<1>5. \A p \in 2 .. n + 1 : p - 1 \in 1 .. n /\ new.buckets[h][p] = scope.buckets[h][p - 1]
  <2> TAKE p \in 2 .. n + 1
  <2>1. p - 1 \in 1 .. n /\ p - 1 + 1 = p
    BY <1>2
  <2> QED
    BY <1>3, <2>1
<1> HIDE DEF h, n
<1>6. Placed(new)
  <2>1. ASSUME NEW k \in Buckets, NEW p \in 1 .. Len(new.buckets[k])
        PROVE  /\ BucketOf(new.buckets[k][p].name) = k
               /\ \A j \in 1 .. Len(new.buckets[k]) :
                    new.buckets[k][p].name = new.buckets[k][j].name => p = j
    <3>1. CASE k # h
      <4>1. new.buckets[k] = scope.buckets[k]
        BY <1>3, <3>1
      <4> QED
        BY <1>1, <2>1, <4>1 DEF Placed
    <3>2. CASE k = h
      <4>1. \A j \in 1 .. n + 1 : j = 1 \/ j \in 2 .. n + 1
        BY <1>2
      <4>2. p \in 1 .. n + 1
        BY <1>3, <2>1, <3>2
      <4>3. \A j \in 2 .. n + 1 :
              /\ BucketOf(new.buckets[h][j].name) = h
              /\ new.buckets[h][j].name # name
        BY <1>1, <1>4, <1>5, SMTT(30) DEF Placed, n
      <4>4. \A j, l \in 2 .. n + 1 :
              new.buckets[h][j].name = new.buckets[h][l].name => j = l
        <5> TAKE j, l \in 2 .. n + 1
        <5>1. HAVE new.buckets[h][j].name = new.buckets[h][l].name
        <5>2. scope.buckets[h][j - 1].name = scope.buckets[h][l - 1].name
          BY <1>5, <5>1
        <5>3. j - 1 = l - 1
          BY <1>1, <1>5, <5>2 DEF Placed, n
        <5> QED
          BY <1>2, <5>3
      <4>5. BucketOf(new.buckets[h][1].name) = h
        BY <1>3 DEF h
      <4> QED
        BY <1>3, <3>2, <4>1, <4>2, <4>3, <4>4, <4>5
    <3> QED
      BY <3>1, <3>2
  <2> QED
    BY <2>1 DEF Placed
<1>7. Counted(new)
  <2>1. Entries(new) = Entries(scope) \cup {<<h, n + 1>>}
    <3>1. ASSUME NEW k \in Buckets
          PROVE  {<<k, p>> : p \in 1 .. Len(new.buckets[k])} =
                 {<<k, p>> : p \in 1 .. Len(scope.buckets[k])} \cup
                   (IF k = h THEN {<<h, n + 1>>} ELSE {})
      <4>1. CASE k # h
        BY <1>3, <4>1
      <4>2. CASE k = h
        <5>1. 1 .. n + 1 = (1 .. n) \cup {n + 1}
          BY <1>2
        <5>2. Len(new.buckets[k]) = n + 1 /\ Len(scope.buckets[k]) = n
          BY <1>3, <4>2 DEF n
        <5> QED
          BY <4>2, <5>1, <5>2
      <4> QED
        BY <4>1, <4>2
    <3> QED
      BY <1>1, <3>1 DEF Entries
  <2>2. <<h, n + 1>> \notin Entries(scope)
    <3>1. ASSUME NEW k \in Buckets, <<h, n + 1>> \in {<<k, p>> : p \in 1 .. Len(scope.buckets[k])}
          PROVE  FALSE
      <4>1. PICK p \in 1 .. Len(scope.buckets[k]) : <<h, n + 1>> = <<k, p>>
        BY <3>1
      <4>2. k = h /\ p = n + 1
        BY <4>1
      <4>3. n + 1 \in 1 .. n
        BY <4>1, <4>2 DEF n
      <4> QED
        BY <1>2, <4>3
    <3> QED
      BY <3>1 DEF Entries
  <2>3. IsFiniteSet(Entries(scope)) /\ scope.count = Cardinality(Entries(scope))
    BY <1>1 DEF Counted
  <2>4. IsFiniteSet(Entries(new)) /\ Cardinality(Entries(new)) = Cardinality(Entries(scope)) + 1
    <3> DEFINE E == Entries(scope)
               x == <<h, n + 1>>
    <3>1. IsFiniteSet(E) /\ x \notin E /\ Entries(new) = E \cup {x}
      BY <2>1, <2>2, <2>3
    <3> HIDE DEF E, x
    <3>2. IsFiniteSet(E \cup {x}) /\ Cardinality(E \cup {x}) = Cardinality(E) + 1
      BY <3>1, FS_AddElement
    <3> QED
      BY <3>1, <3>2 DEF E
  <2> QED
    BY <1>3, <2>3, <2>4 DEF Counted
<1>8. Found(new, name) = symbol
  <2>1. 1 \in 1 .. Len(new.buckets[BucketOf(name)])
    BY <1>2, <1>3 DEF h
  <2>2. new.buckets[BucketOf(name)][1].name = name /\ new.buckets[BucketOf(name)][1].symbol = symbol
    BY <1>3 DEF h
  <2> QED
    BY <1>3, <1>6, <2>1, <2>2, FoundThere
<1>9. ASSUME NEW other \in Names \ {name}
      PROVE  Found(new, other) = Found(scope, other)
  <2>1. CASE BucketOf(other) # h
    <3>1. new.buckets[BucketOf(other)] = scope.buckets[BucketOf(other)]
      BY <1>3, <2>1, BucketIs
    <3> QED
      BY <3>1 DEF Found, FirstMatch, SameNamed
  <2>2. CASE BucketOf(other) = h /\ \E p \in 1 .. n : scope.buckets[h][p].name = other
    <3>1. PICK p \in 1 .. n : scope.buckets[h][p].name = other
      BY <2>2
    <3>2. Found(scope, other) = scope.buckets[h][p].symbol
      BY <1>1, <2>2, <3>1, FoundThere DEF n
    <3>3. p + 1 \in 1 .. Len(new.buckets[h]) /\ new.buckets[h][p + 1] = scope.buckets[h][p]
      BY <1>2, <1>3
    <3>4. Found(new, other) = new.buckets[h][p + 1].symbol
      BY <1>3, <1>6, <2>2, <3>1, <3>3, FoundThere, SMTT(30)
    <3> QED
      BY <3>2, <3>3, <3>4
  <2>3. CASE BucketOf(other) = h /\ \A p \in 1 .. n : scope.buckets[h][p].name # other
    <3>1. Found(scope, other) = NoSymbol
      BY <1>1, <2>3, FoundNot DEF n
    <3>2. \A p \in 1 .. n + 1 : new.buckets[h][p].name # other
      <4>1. \A p \in 1 .. n + 1 : p = 1 \/ p \in 2 .. n + 1
        BY <1>2
      <4> QED
        BY <1>3, <1>5, <2>3, <4>1, ZenonT(30)
    <3>3. Found(new, other) = NoSymbol
      BY <1>3, <2>3, <3>2, FoundNot
    <3> QED
      BY <3>1, <3>3
  <2> QED
    BY <2>1, <2>2, <2>3
<1> QED
  BY <1>3, <1>6, <1>7, <1>8, <1>9 DEF Tidy

----------------------------------------------------------------------------
(* The invariant                                                           *)

\* What every step preserves.
SymbolTableInv ==
  /\ scopes \in Seq(Scope)
  /\ Len(scopes) > 0
  /\ answer \in Symbols \cup {NoSymbol} \cup BOOLEAN
  /\ \A m \in 1 .. Len(scopes) : Tidy(scopes[m])

\* The chain of scopes, of any stack of them.
ChainOf(sc) == [m \in 1 .. Len(sc) |-> [name \in Names |-> Found(sc[m], name)]]

LEMMA ChainIs == Chain = ChainOf(scopes)
BY DEF Chain, ChainOf

LEMMA StackType ==
  ASSUME SymbolTableInv
  PROVE  /\ Len(scopes) \in Nat /\ Len(scopes) \in 1 .. Len(scopes)
         /\ current = scopes[Len(scopes)]
         /\ Tidy(current) /\ current \in Scope /\ Placed(current)
         /\ \A m \in 1 .. Len(scopes) : scopes[m] \in Scope /\ Placed(scopes[m])
<1>1. Len(scopes) \in Nat /\ Len(scopes) \in 1 .. Len(scopes)
  BY DEF SymbolTableInv
<1>2. current = scopes[Len(scopes)]
  BY DEF current
<1>3. \A m \in 1 .. Len(scopes) : Tidy(scopes[m])
  BY DEF SymbolTableInv
<1> QED
  BY <1>1, <1>2, <1>3 DEF Tidy

\* The initial stack, in both views.
LEMMA TableInitInv ==
  ASSUME symbol_table_init
  PROVE  SymbolTableInv /\ Abstract!Init
<1>1. /\ scopes = <<scope_new>> /\ answer = NoSymbol /\ Len(scopes) = 1
      /\ scopes[1] = scope_new
  BY DEF symbol_table_init
<1>2. scope_new \in Scope /\ Tidy(scope_new)
  BY NewScope DEF Tidy
<1>3. SymbolTableInv
  BY <1>1, <1>2 DEF SymbolTableInv
<1>4. Chain = <<[name \in Names |-> NoSymbol]>>
  <2>1. [name \in Names |-> Found(scopes[1], name)] = [name \in Names |-> NoSymbol]
    BY <1>1, NewScope
  <2>2. Chain = [m \in 1 .. 1 |-> [name \in Names |-> NoSymbol]]
    BY <1>1, <2>1 DEF Chain
  <2> QED
    BY <2>2
<1> QED
  BY <1>1, <1>3, <1>4 DEF Abstract!Init, Abstract!EmptyScope

\* A push, in both views.
LEMMA PushStep ==
  ASSUME SymbolTableInv, symbol_table_push
  PROVE  SymbolTableInv' /\ Abstract!symbol_table_push
<1>1. /\ scopes' = Append(scopes, scope_new) /\ answer' = NoSymbol
      /\ scopes \in Seq(Scope)
      /\ scope_new \in Scope /\ Tidy(scope_new)
  BY NewScope DEF symbol_table_push, SymbolTableInv, Tidy
<1> DEFINE n == Len(scopes)
<1>2. /\ n \in Nat /\ scopes' \in Seq(Scope) /\ Len(scopes') = n + 1
      /\ scopes'[n + 1] = scope_new
      /\ \A m \in 1 .. n : scopes'[m] = scopes[m]
  BY <1>1
<1> HIDE DEF n
<1>3. \A m \in 1 .. n + 1 : m \in 1 .. n \/ m = n + 1
  BY <1>2
<1>4. SymbolTableInv'
  <2>1. \A m \in 1 .. n : Tidy(scopes[m])
    BY DEF SymbolTableInv, n
  <2>2. \A m \in 1 .. n + 1 : Tidy(scopes'[m])
    BY <1>1, <1>2, <1>3, <2>1
  <2>3. Len(scopes') > 0
    BY <1>2
  <2> QED
    BY <1>1, <1>2, <2>2, <2>3 DEF SymbolTableInv
<1>5. Chain' = Append(Chain, [name \in Names |-> NoSymbol])
  <2>1. Len(Chain) = n /\ Chain = [m \in 1 .. n |-> Chain[m]]
    BY <1>2 DEF Chain, n
  <2>2. \A m \in 1 .. n : Chain'[m] = Chain[m]
    BY <1>2, <1>3 DEF Chain, n
  <2>3. [name \in Names |-> Found(scopes'[n + 1], name)] = [name \in Names |-> NoSymbol]
    BY <1>2, NewScope
  <2>4. Chain' = [m \in 1 .. n + 1 |-> IF m = n + 1 THEN [name \in Names |-> NoSymbol]
                                       ELSE Chain[m]]
    <3>1. Chain' = [m \in 1 .. n + 1 |-> [name \in Names |-> Found(scopes'[m], name)]]
      BY <1>2 DEF Chain
    <3>2. ASSUME NEW m \in 1 .. n + 1, m # n + 1
          PROVE  [name \in Names |-> Found(scopes'[m], name)] = Chain[m]
      <4>1. m \in 1 .. n /\ scopes'[m] = scopes[m]
        BY <1>2, <1>3, <3>2
      <4> QED
        BY <4>1 DEF Chain, n
    <3> QED
      BY <2>3, <3>1, <3>2
  <2>5. Append(Chain, [name \in Names |-> NoSymbol]) =
          [m \in 1 .. n + 1 |-> IF m = n + 1 THEN [name \in Names |-> NoSymbol] ELSE Chain[m]]
    BY <1>2, <2>1
  <2> QED
    BY <2>4, <2>5
<1> QED
  BY <1>1, <1>4, <1>5 DEF Abstract!symbol_table_push, Abstract!Push, Abstract!EmptyScope

\* A pop, in both views.
LEMMA PopStep ==
  ASSUME SymbolTableInv, symbol_table_pop
  PROVE  SymbolTableInv' /\ Abstract!symbol_table_pop
<1> DEFINE n == Len(scopes)
<1>1. /\ scopes' = IF n > 1 THEN SubSeq(scopes, 1, n - 1) ELSE scopes
      /\ answer' = NoSymbol
      /\ scopes \in Seq(Scope) /\ n \in Nat /\ n > 0
      /\ \A m \in 1 .. n : Tidy(scopes[m])
  BY DEF symbol_table_pop, HasParent, SymbolTableInv
<1>2. Len(Chain) = n /\ \A m \in 1 .. n : Chain[m] = [name \in Names |-> Found(scopes[m], name)]
  BY <1>1 DEF Chain
<1> HIDE DEF n
<1>3. CASE n > 1
  <2>1. scopes' = SubSeq(scopes, 1, n - 1)
    BY <1>1, <1>3
  <2>2. SubSeq(scopes, 1, n - 1) = [m \in 1 .. n - 1 |-> scopes[m]]
    BY <1>1, <1>3 DEF n
  <2>3. /\ Len(scopes') = n - 1 /\ scopes' \in Seq(Scope)
        /\ \A m \in 1 .. n - 1 : scopes'[m] = scopes[m] /\ m \in 1 .. n
    <3>1. \A m \in 1 .. n - 1 : scopes[m] \in Scope /\ m \in 1 .. n
      BY <1>1, <1>3 DEF n
    <3> QED
      BY <1>1, <1>3, <2>1, <2>2, <3>1
  <2>4. SymbolTableInv'
    <3>1. \A m \in 1 .. Len(scopes') : Tidy(scopes'[m])
      BY <1>1, <2>3
    <3>2. Len(scopes') > 0
      BY <1>1, <1>3, <2>3
    <3> QED
      BY <1>1, <2>3, <3>1, <3>2 DEF SymbolTableInv
  <2>5. Chain' = SubSeq(Chain, 1, n - 1)
    <3>1. SubSeq(Chain, 1, n - 1) = [m \in 1 .. n - 1 |-> Chain[m]]
      <4>1. Chain = [m \in 1 .. n |-> Chain[m]]
        BY <1>2 DEF Chain, n
      <4> QED
        BY <1>1, <1>3, <4>1
    <3>2. Chain' = [m \in 1 .. n - 1 |-> [name \in Names |-> Found(scopes'[m], name)]]
      BY <2>3 DEF Chain
    <3>3. \A m \in 1 .. n - 1 :
            [name \in Names |-> Found(scopes'[m], name)] = Chain[m]
      BY <1>2, <2>3
    <3> QED
      BY <3>1, <3>2, <3>3
  <2> QED
    BY <1>1, <1>2, <1>3, <2>4, <2>5 DEF Abstract!symbol_table_pop, Abstract!Pop
<1>4. CASE ~(n > 1)
  <2>1. scopes' = scopes
    BY <1>1, <1>4
  <2>2. SymbolTableInv'
    BY <1>1, <2>1 DEF SymbolTableInv
  <2>3. Chain' = Chain
    BY <2>1 DEF Chain
  <2> QED
    BY <1>1, <1>2, <1>4, <2>2, <2>3 DEF Abstract!symbol_table_pop, Abstract!Pop
<1> QED
  BY <1>3, <1>4

\* A definition, in both views.
LEMMA DefineStep ==
  ASSUME SymbolTableInv, NEW name \in Names, NEW symbol \in Symbols,
         symbol_table_define(name, symbol)
  PROVE  SymbolTableInv' /\ Abstract!symbol_table_define(name, symbol)
<1> DEFINE n == Len(scopes)
<1>1. /\ scopes \in Seq(Scope) /\ n \in Nat /\ n > 0 /\ n \in 1 .. n
      /\ \A m \in 1 .. n : Tidy(scopes[m])
      /\ current = scopes[n] /\ Tidy(current) /\ current \in Scope /\ Placed(current)
  BY StackType DEF SymbolTableInv
<1>2. /\ answer' = (SameNamed(current, name) = {})
      /\ scopes' = IF SameNamed(current, name) = {}
                   THEN [scopes EXCEPT ![n] = WithEntry(current, name, symbol)]
                   ELSE scopes
      /\ answer' \in BOOLEAN
  BY DEF symbol_table_define, NotYet
<1>3. Len(Chain) = n /\ \A m \in 1 .. n : Chain[m] = [x \in Names |-> Found(scopes[m], x)]
  BY <1>1 DEF Chain
<1>4. Abstract!LookupLocal(Chain, name) = Found(current, name)
  <2>1. Chain[n] = [x \in Names |-> Found(scopes[n], x)]
    BY <1>1, <1>3
  <2>2. Chain[n][name] = Found(current, name)
    BY <1>1, <2>1
  <2>3. Len(Chain) = n
    BY <1>3
  <2> HIDE DEF n
  <2> QED
    BY <2>2, <2>3 DEF Abstract!LookupLocal
<1>5. Abstract!LookupLocal(Chain, name) = NoSymbol <=> SameNamed(current, name) = {}
  BY <1>1, <1>4, FoundType
<1> HIDE DEF n
<1>6. CASE SameNamed(current, name) = {}
  <2> DEFINE new == WithEntry(current, name, symbol)
  <2>1. /\ Tidy(new) /\ new \in Scope
        /\ Found(new, name) = symbol
        /\ \A other \in Names \ {name} : Found(new, other) = Found(current, other)
    <3>1. /\ Tidy(new)
          /\ Found(new, name) = symbol
          /\ \A other \in Names \ {name} : Found(new, other) = Found(current, other)
      BY <1>1, <1>6, AddEntry
    <3> QED
      BY <3>1 DEF Tidy
  <2>2. scopes' = [scopes EXCEPT ![n] = new]
    BY <1>2, <1>6
  <2> HIDE DEF new
  <2>3. /\ scopes' \in Seq(Scope) /\ Len(scopes') = n
        /\ scopes'[n] = new
        /\ \A m \in 1 .. n : m # n => scopes'[m] = scopes[m]
    BY <1>1, <2>1, <2>2 DEF n
  <2>4. SymbolTableInv'
    <3>1. \A m \in 1 .. Len(scopes') : Tidy(scopes'[m])
      BY <1>1, <2>1, <2>3
    <3>2. answer' \in Symbols \cup {NoSymbol} \cup BOOLEAN
      BY <1>2
    <3>3. Len(scopes') > 0
      BY <1>1, <2>3
    <3> QED
      BY <2>3, <3>1, <3>2, <3>3 DEF SymbolTableInv
  <2>5. [x \in Names |-> Found(new, x)] = [Chain[n] EXCEPT ![name] = symbol]
    <3>1. Chain[n] = [x \in Names |-> Found(current, x)]
      BY <1>1, <1>3
    <3> QED
      BY <2>1, <3>1
  <2>6. Chain' = [Chain EXCEPT ![n] = [Chain[n] EXCEPT ![name] = symbol]]
    <3>1. Chain' = [m \in 1 .. n |-> [x \in Names |-> Found(scopes'[m], x)]]
      BY <2>3 DEF Chain
    <3>2. Chain = [m \in 1 .. n |-> Chain[m]]
      BY DEF Chain, n
    <3>3. \A m \in 1 .. n : [x \in Names |-> Found(scopes'[m], x)] =
            IF m = n THEN [Chain[n] EXCEPT ![name] = symbol] ELSE Chain[m]
      BY <1>3, <2>3, <2>5
    <3>4. [Chain EXCEPT ![n] = [Chain[n] EXCEPT ![name] = symbol]] =
            [m \in 1 .. n |-> IF m = n THEN [Chain[n] EXCEPT ![name] = symbol] ELSE Chain[m]]
      BY <3>2
    <3> QED
      BY <3>1, <3>3, <3>4
  <2>7. Chain' = Abstract!Define(Chain, name, symbol)
    BY <1>3, <1>5, <1>6, <2>6 DEF Abstract!Define
  <2>8. answer' = (Abstract!LookupLocal(Chain, name) = NoSymbol)
    BY <1>2, <1>5
  <2> QED
    BY <2>4, <2>7, <2>8 DEF Abstract!symbol_table_define
<1>7. CASE SameNamed(current, name) # {}
  <2>1. scopes' = scopes
    BY <1>2, <1>7
  <2>2. SymbolTableInv'
    BY <1>1, <1>2, <2>1 DEF SymbolTableInv, n
  <2>3. Chain' = Chain
    BY <2>1 DEF Chain
  <2>4. Chain' = Abstract!Define(Chain, name, symbol)
    BY <1>5, <1>7, <2>3 DEF Abstract!Define
  <2>5. answer' = (Abstract!LookupLocal(Chain, name) = NoSymbol)
    BY <1>2, <1>5
  <2> QED
    BY <2>2, <2>4, <2>5 DEF Abstract!symbol_table_define
<1> QED
  BY <1>6, <1>7

\* A lookup, in both views: the walk outwards ends where the innermost
\* dictionary that has the name is.
LEMMA LookupStep ==
  ASSUME SymbolTableInv, NEW name \in Names, symbol_table_lookup(name)
  PROVE  SymbolTableInv' /\ Abstract!symbol_table_lookup(name)
<1> DEFINE n == Len(scopes)
           D == Abstract!Defining(Chain, name)
<1>1. /\ n \in Nat
      /\ \A m \in 1 .. n : scopes[m] \in Scope /\ Placed(scopes[m])
  BY StackType
<1>2. Len(Chain) = n /\ \A m \in 1 .. n : Chain[m][name] = Found(scopes[m], name)
  BY <1>1 DEF Chain
<1>3. /\ scopes' = scopes
      /\ answer' = IF Outwards(name) = 0 THEN NoSymbol
                   ELSE Found(scopes[Outwards(name)], name)
  BY DEF symbol_table_lookup
<1>4. D = {m \in 1 .. n : Found(scopes[m], name) # NoSymbol}
  BY <1>2 DEF Abstract!Defining
<1> HIDE DEF n, D
<1>5. answer' = Abstract!Lookup(Chain, name) /\ answer' \in Symbols \cup {NoSymbol}
  <2>1. CASE \A k \in 1 .. n : Found(scopes[k], name) = NoSymbol
    <3>1. Outwards(name) = 0
      BY <2>1 DEF Outwards, n
    <3>2. D = {}
      BY <1>4, <2>1
    <3> QED
      BY <1>3, <3>1, <3>2 DEF Abstract!Lookup, D
  <2>2. CASE \E k \in 1 .. n : Found(scopes[k], name) # NoSymbol
    <3>1. D \in SUBSET (1 .. n) /\ D # {}
      BY <1>4, <2>2
    <3>2. PICK k \in D : \A j \in D : j <= k
      BY <1>1, <3>1, Greatest
    <3>3. /\ k \in 1 .. n /\ Found(scopes[k], name) # NoSymbol
          /\ \A j \in k + 1 .. n : Found(scopes[j], name) = NoSymbol
      <4>1. k \in 1 .. n /\ Found(scopes[k], name) # NoSymbol
        BY <1>4
      <4>2. ASSUME NEW j \in k + 1 .. n, Found(scopes[j], name) # NoSymbol
            PROVE  FALSE
        <5>1. j \in 1 .. n /\ j > k
          BY <1>1, <4>1
        <5>2. j \in D
          BY <1>4, <4>2, <5>1
        <5>3. j <= k
          BY <3>2, <5>2
        <5> QED
          BY <1>1, <4>1, <5>1, <5>3
      <4> QED
        BY <4>1, <4>2
    <3>4. \A l \in 1 .. n :
            (/\ Found(scopes[l], name) # NoSymbol
             /\ \A j \in l + 1 .. n : Found(scopes[j], name) = NoSymbol) => l = k
      <4> TAKE l \in 1 .. n
      <4> HAVE /\ Found(scopes[l], name) # NoSymbol
               /\ \A j \in l + 1 .. n : Found(scopes[j], name) = NoSymbol
      <4>1. l \in D /\ l <= k
        BY <1>4, <3>2
      <4>2. ~(l < k)
        BY <1>1, <3>3
      <4> QED
        BY <1>1, <3>3, <4>1, <4>2
    <3>5. Outwards(name) = k
      BY <2>2, <3>3, <3>4 DEF Outwards, n
    <3>6. Abstract!Innermost(Chain, name) = k
      <4>1. \A l \in D : (\A j \in D : j <= l) => l = k
        <5> TAKE l \in D
        <5> HAVE \A j \in D : j <= l
        <5>1. k <= l /\ l <= k /\ l \in 1 .. n
          BY <1>4, <3>2
        <5> QED
          BY <1>1, <3>3, <5>1
      <4>2. Abstract!Innermost(Chain, name) = CHOOSE l \in D : \A j \in D : j <= l
        BY DEF Abstract!Innermost, D
      <4> QED
        BY <3>2, <4>1, <4>2
    <3>7. Abstract!Lookup(Chain, name) = Chain[k][name]
      BY <3>1, <3>6 DEF Abstract!Lookup, D
    <3>8. answer' = Found(scopes[k], name)
      BY <1>1, <1>3, <3>3, <3>5
    <3>9. Found(scopes[k], name) \in Symbols \cup {NoSymbol}
      BY <1>1, <3>3, FoundType
    <3> QED
      BY <1>2, <3>3, <3>7, <3>8, <3>9
  <2> QED
    BY <2>1, <2>2
<1>6. SymbolTableInv'
  BY <1>3, <1>5 DEF SymbolTableInv
<1> QED
  BY <1>3, <1>5, <1>6 DEF Abstract!symbol_table_lookup, Chain

LEMMA LookupLocalStep ==
  ASSUME SymbolTableInv, NEW name \in Names, symbol_table_lookup_local(name)
  PROVE  SymbolTableInv' /\ Abstract!symbol_table_lookup_local(name)
<1>1. scopes' = scopes /\ answer' = Found(current, name)
  BY DEF symbol_table_lookup_local
<1>2. Len(Chain) = Len(scopes) /\ Chain[Len(scopes)][name] = Found(current, name)
  BY StackType DEF Chain
<1>3. Found(current, name) \in Symbols \cup {NoSymbol}
  BY StackType, FoundType
<1>4. SymbolTableInv'
  BY <1>1, <1>3 DEF SymbolTableInv
<1>5. answer' = Abstract!LookupLocal(Chain, name)
  BY <1>1, <1>2 DEF Abstract!LookupLocal
<1> QED
  BY <1>1, <1>4, <1>5 DEF Abstract!symbol_table_lookup_local, Chain

\* Every step, in both views.
LEMMA NextStep ==
  ASSUME SymbolTableInv, [TableNext]_table_vars
  PROVE  SymbolTableInv' /\ [Abstract!Next]_(Abstract!vars)
<1>1. CASE symbol_table_push
  BY <1>1, PushStep DEF Abstract!Next
<1>2. CASE symbol_table_pop
  BY <1>2, PopStep DEF Abstract!Next
<1>3. ASSUME NEW name \in Names, NEW symbol \in Symbols, symbol_table_define(name, symbol)
      PROVE  SymbolTableInv' /\ [Abstract!Next]_(Abstract!vars)
  BY <1>3, DefineStep DEF Abstract!Next
<1>4. ASSUME NEW name \in Names, symbol_table_lookup(name)
      PROVE  SymbolTableInv' /\ [Abstract!Next]_(Abstract!vars)
  BY <1>4, LookupStep DEF Abstract!Next
<1>5. ASSUME NEW name \in Names, symbol_table_lookup_local(name)
      PROVE  SymbolTableInv' /\ [Abstract!Next]_(Abstract!vars)
  BY <1>5, LookupLocalStep DEF Abstract!Next
<1>6. CASE UNCHANGED table_vars
  BY <1>6 DEF table_vars, SymbolTableInv, Abstract!vars, Chain
<1> QED
  BY <1>1, <1>2, <1>3, <1>4, <1>5, <1>6 DEF TableNext

----------------------------------------------------------------------------
(* Theorems                                                                *)

\* The invariant holds of every use of the table.
THEOREM SymbolTableSafe == TableSpec => []SymbolTableInv
<1>1. symbol_table_init => SymbolTableInv
  BY TableInitInv
<1>2. SymbolTableInv /\ [TableNext]_table_vars => SymbolTableInv'
  BY NextStep
<1> QED
  BY <1>1, <1>2, PTL DEF TableSpec

\* The table is always of its type, and there is always a current scope.
THEOREM SymbolTableTypeOK == TableSpec => []TableTypeOK
<1>1. SymbolTableInv => TableTypeOK
  BY DEF SymbolTableInv, TableTypeOK
<1> QED
  BY <1>1, SymbolTableSafe, PTL

\* No name has two entries in a scope, and each entry is where lookups walk.
THEOREM SymbolTableUnique == TableSpec => []EntriesUnique
<1>1. ASSUME SymbolTableInv
      PROVE  EntriesUnique
  <2>1. \A m \in 1 .. Len(scopes) : Placed(scopes[m]) /\ Counted(scopes[m])
    BY <1>1 DEF SymbolTableInv, Tidy
  <2> QED
    BY <2>1 DEF EntriesUnique, Placed, Counted
<1> QED
  BY <1>1, SymbolTableSafe, PTL

\* The hash tables implement the stack of dictionaries.
THEOREM SymbolTableImplements == TableSpec => ImplementsScopes
<1>1. symbol_table_init => Abstract!Init
  BY TableInitInv
<1>2. SymbolTableInv /\ [TableNext]_table_vars => [Abstract!Next]_(Abstract!vars)
  BY NextStep
<1> QED
  BY <1>1, <1>2, SymbolTableSafe, PTL DEF TableSpec, ImplementsScopes, Abstract!Spec
=============================================================================
