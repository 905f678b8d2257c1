------------------------------- MODULE StrTab -------------------------------
(***************************************************************************)
(* The string table (src/utils/strtab.c): interning by open addressing     *)
(* with linear probing, in a bucket array that doubles at three quarters   *)
(* full.  One action is one turn of one of the three loops: the probe, the *)
(* walk over the old buckets, and the search for a place in the new ones.  *)
(*                                                                         *)
(* Strings are compared by length and bytes, so a string stands for both.  *)
(* The arena hands out memory it never takes back while a table is in use  *)
(* (module Arena), so the copies are numbered in the order they were made, *)
(* and a pointer is such a number.  The masks (cap - 1) are remainders:    *)
(* capacities are powers of two.                                           *)
(***************************************************************************)
EXTENDS Naturals, Sequences, FiniteSets

CONSTANTS
  Str,                  \* the byte strings
  NoStr,                \* no call in progress
  Hash,                 \* fnv1a of each string
  STRTAB_INIT_BUCKETS

NULL == 0

ASSUME StrTabAssumption ==
  /\ NoStr \notin Str
  /\ Hash \in [Str -> Nat]
  /\ STRTAB_INIT_BUCKETS \in Nat \ {0}

VARIABLES
  buckets,   \* st->buckets: per slot, the ptr of the entry
  capacity,  \* st->capacity
  count,     \* st->count
  copies,    \* the strings copied into the arena, in order
  pc,        \* where the call is
  str,       \* the argument of strtab_intern, NoStr between calls
  slot,      \* slot
  fresh,     \* new_buckets
  i,         \* the index of strtab_grow's walk
  given      \* the pointer returned for each string, NULL for none yet

vars == <<buckets, capacity, count, copies, pc, str, slot, fresh, i, given>>

----------------------------------------------------------------------------
(* Helpers                                                                 *)

Slots(cap) == 0 .. cap - 1
EmptyTable(cap) == [k \in Slots(cap) |-> NULL]

\* hash & (cap - 1)
Home(s, cap) == Hash[s] % cap

\* (slot + 1) & (cap - 1)
Succ(k, cap) == IF k + 1 = cap THEN 0 ELSE k + 1

\* count / capacity >= 3/4
OverfullNever == FALSE                    \* a mutant: the table never grows
Overfull == count * 4 >= capacity * 3

\* Where an old entry starts looking for its place in the new buckets.
RehashHome(s, cap) == Home(s, cap)

\* The string an entry points to.
Text(p) == copies[p]

\* The entry has the length and the bytes of the argument.
MatchesHash(p) == Hash[Text(p)] = Hash[str]   \* a mutant: trusts the hash
Matches(p) == Text(p) = str

\* How far the walk over the old buckets goes, and whether it finds a place
\* in the new ones taken.
WalkEnd == capacity
Taken(k) == fresh[k] # NULL

\* Where the probe starts after the table has grown.
StartStale == Home(str, capacity)   \* a mutant: hashed before growing
Start == Home(str, capacity * 2)

----------------------------------------------------------------------------

\* strtab_init, which clears the buckets unchecked: if the arena has none for them
\* the program ends there.
Init ==
  /\ capacity = STRTAB_INIT_BUCKETS
  /\ buckets = EmptyTable(STRTAB_INIT_BUCKETS)
  /\ count = 0
  /\ copies = <<>>
  /\ pc \in {"idle", "crashed"}
  /\ str = NoStr
  /\ slot = 0
  /\ fresh = <<>>
  /\ i = 0
  /\ given = [s \in Str |-> NULL]

\* strtab_intern is called, and grows the table first when it has to.
strtab_intern(s) ==
  /\ pc = "idle"
  /\ str' = s
  /\ IF Overfull
     THEN /\ pc' = "grow"
          /\ UNCHANGED slot
     ELSE /\ pc' = "probe"
          /\ slot' = Home(s, capacity)
  /\ UNCHANGED <<buckets, capacity, count, copies, fresh, i, given>>

\* strtab_grow: the new bucket array, twice as large and all empty.
GrowAlloc ==
  /\ pc = "grow"
  /\ pc' = "walk"
  /\ fresh' = EmptyTable(capacity * 2)
  /\ i' = 0
  /\ UNCHANGED <<buckets, capacity, count, copies, str, slot, given>>

\* One turn of the walk over the old buckets: an empty one is skipped.
Walk ==
  /\ pc = "walk"
  /\ i < WalkEnd
  /\ IF buckets[i] = NULL
     THEN /\ i' = i + 1
          /\ UNCHANGED <<pc, slot>>
     ELSE /\ slot' = RehashHome(Text(buckets[i]), capacity * 2)
          /\ pc' = "place"
          /\ UNCHANGED i
  /\ UNCHANGED <<buckets, capacity, count, copies, str, fresh, given>>

\* One turn of the search for a place for the entry at i.
Place ==
  /\ pc = "place"
  /\ IF Taken(slot)
     THEN /\ slot' = Succ(slot, capacity * 2)
          /\ UNCHANGED <<pc, fresh, i>>
     ELSE /\ fresh' = [fresh EXCEPT ![slot] = buckets[i]]
          /\ i' = i + 1
          /\ pc' = "walk"
          /\ UNCHANGED slot
  /\ UNCHANGED <<buckets, capacity, count, copies, str, given>>

\* The walk is over: the new buckets take over, and the call starts probing.
GrowDone ==
  /\ pc = "walk"
  /\ i = WalkEnd
  /\ buckets' = fresh
  /\ capacity' = capacity * 2
  /\ fresh' = <<>>
  /\ pc' = "probe"
  /\ slot' = Start
  /\ UNCHANGED <<count, copies, str, i, given>>

Return(p) ==
  /\ pc' = "idle"
  /\ given' = [given EXCEPT ![str] = p]
  /\ str' = NoStr

\* One turn of the probe: return the entry found, or look further.
Probe ==
  /\ pc = "probe"
  /\ buckets[slot] # NULL
  /\ IF Matches(buckets[slot])
     THEN /\ Return(buckets[slot])
          /\ UNCHANGED slot
     ELSE /\ slot' = Succ(slot, capacity)
          /\ UNCHANGED <<pc, str, given>>
  /\ UNCHANGED <<buckets, capacity, count, copies, fresh, i>>

\* An empty slot ends the probe: the string is copied and entered there.
Insert ==
  /\ pc = "probe"
  /\ buckets[slot] = NULL
  /\ copies' = Append(copies, str)
  /\ buckets' = [buckets EXCEPT ![slot] = Len(copies) + 1]
  /\ count' = count + 1
  /\ Return(Len(copies) + 1)
  /\ UNCHANGED <<capacity, slot, fresh, i>>

\* The arena returns NULL for the new buckets, or for the copy: both are
\* written to unchecked.
RunOut ==
  /\ \/ pc = "grow"
     \/ pc = "probe" /\ buckets[slot] = NULL
  /\ pc' = "crashed"
  /\ UNCHANGED <<buckets, capacity, count, copies, str, slot, fresh, i, given>>

Step == GrowAlloc \/ Walk \/ Place \/ GrowDone \/ Probe \/ Insert \/ RunOut
Next == Step \/ \E s \in Str : strtab_intern(s)

Spec == Init /\ [][Next]_vars

\* The compiler has one thread: a call runs until it returns.
FairSpec == Spec /\ WF_vars(Step)

----------------------------------------------------------------------------
(* Properties                                                              *)

Growing == pc \in {"walk", "place"}
Copies == 1 .. Len(copies)

\* Every variable has its type; the bucket arrays have their capacities, and
\* the slot looked at is one of the array probed.
TypeOK ==
  /\ capacity \in Nat \ {0}
  /\ copies \in Seq(Str)
  /\ buckets \in [Slots(capacity) -> Copies \cup {NULL}]
  /\ count \in Nat
  /\ pc \in {"idle", "grow", "walk", "place", "probe", "crashed"}
  /\ str \in Str \cup {NoStr}
  /\ pc = "idle" => str = NoStr
  /\ pc \notin {"idle", "crashed"} => str \in Str
  /\ given \in [Str -> Copies \cup {NULL}]
  /\ pc = "probe" => slot \in Slots(capacity)
  /\ Growing => /\ fresh \in [Slots(capacity * 2) -> Copies \cup {NULL}]
                /\ i \in 0 .. capacity
  /\ pc = "place" => /\ slot \in Slots(capacity * 2)
                     /\ i < capacity
                     /\ buckets[i] # NULL

\* Slot k is passed on the way from slot h to slot j, around the end if need be.
Passed(h, j, k) == IF h <= j THEN h <= k /\ k < j ELSE h <= k \/ k < j

\* No probe for an entry of the table stops short of it: every slot from the
\* entry's home to the entry is occupied.
Reachable(table, cap) ==
  \A j, k \in Slots(cap) :
    table[j] # NULL /\ Passed(Home(Text(table[j]), cap), j, k) => table[k] # NULL

\* Entries stay reachable, through collisions, wrap-around and rehashing
\* (the probe loops of strtab_intern and strtab_grow).
AllReachable ==
  /\ Reachable(buckets, capacity)
  /\ Growing => Reachable(fresh, capacity * 2)

\* "Every unique string is stored exactly once in the arena" (strtab.h).
StoredOnce == \A p, q \in Copies : copies[p] = copies[q] => p = q

\* The table holds every copy, each in one slot, and counts them.
Complete ==
  /\ count = Len(copies)
  /\ \A p \in Copies : \E j \in Slots(capacity) : buckets[j] = p
  /\ \A j, k \in Slots(capacity) :
       buckets[j] = buckets[k] /\ buckets[j] # NULL => j = k

\* The new buckets hold the entries the walk has passed, each in one slot.
CarriedOver ==
  Growing =>
    /\ \A k \in 0 .. i - 1 : buckets[k] # NULL =>
         \E j \in Slots(capacity * 2) : fresh[j] = buckets[k]
    /\ \A j \in Slots(capacity * 2) : fresh[j] # NULL =>
         \E k \in 0 .. i - 1 : buckets[k] = fresh[j]
    /\ \A j, k \in Slots(capacity * 2) :
         fresh[j] = fresh[k] /\ fresh[j] # NULL => j = k

\* Neither search can circle for ever: the array it runs in has an empty slot
\* (the load factor test of strtab_intern).
RoomLeft ==
  /\ pc = "probe" => \E k \in Slots(capacity) : buckets[k] = NULL
  /\ pc = "place" => \E k \in Slots(capacity * 2) : fresh[k] = NULL

\* What a search has passed is occupied, and is not what it looks for.
ProbeSoFar ==
  /\ pc = "probe" =>
       \A k \in Slots(capacity) : Passed(Home(str, capacity), slot, k) =>
         buckets[k] # NULL /\ Text(buckets[k]) # str
  /\ pc = "place" =>
       \A k \in Slots(capacity * 2) :
         Passed(Home(Text(buckets[i]), capacity * 2), slot, k) => fresh[k] # NULL

\* The table is less than three quarters full when a probe starts, and was at
\* most full when it grew.
Load ==
  /\ count <= capacity
  /\ pc = "probe" => count < capacity

\* A pointer that was returned is a copy of its string.
GivenRight == \A s \in Str : given[s] # NULL => copies[given[s]] = s

\* What every step preserves: the invariant the proofs go by.
StrTabInv ==
  /\ TypeOK
  /\ AllReachable
  /\ StoredOnce
  /\ Complete
  /\ CarriedOver
  /\ ProbeSoFar
  /\ Load
  /\ GivenRight

\* "Two calls with equal content return the SAME pointer", one no other string
\* has, for the lifetime of the arena (strtab.h): the table is an interner.
Promise == INSTANCE Interner
             WITH call <- str, pointer <- given, dead <- pc = "crashed",
                  Address <- Nat \ {NULL}
ImplementsInterner == Promise!Spec

\* Every call returns, unless memory runs out.
InternReturns == pc # "idle" ~> pc \in {"idle", "crashed"}
=============================================================================
