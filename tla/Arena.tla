------------------------------- MODULE Arena -------------------------------
(***************************************************************************)
(* The bump allocator every phase of the compiler allocates from           *)
(* (src/utils/arena.c).  An arena is a chain of blocks; allocation bumps a *)
(* cursor in the current block, walks forward when it does not fit and     *)
(* splices a fresh block in behind the current one when nothing fits.      *)
(* Nothing is freed one by one: an arena is rewound, to its start          *)
(* (arena_reset) or to a snapshot (arena_restore), or destroyed.           *)
(*                                                                         *)
(* A block is a model identifier, an address inside it is an offset from   *)
(* the block header, which malloc returns suitably aligned, so offsets and *)
(* addresses are aligned alike.  The history variables live, snaps and     *)
(* replay are the caller's knowledge: the pointers it still owns, the      *)
(* snapshots it may still restore, and the allocations the last rewind     *)
(* took back.                                                              *)
(***************************************************************************)
EXTENDS Naturals, SequencesExt

CONSTANTS
  BLOCK_SIZE,    \* ARENA_BLOCK_SIZE
  HEADER_SIZE,   \* sizeof(ArenaBlock): where data[] starts
  ARENA_ALIGN,   \* the alignment of arena_alloc
  Sizes,         \* the sizes a caller asks for
  Aligns,        \* the alignments a caller asks for
  MaxBlocks,     \* blocks malloc can provide
  MaxSnaps       \* snapshots a caller nests (bounds the model only)

ASSUME ArenaAssumption ==
  /\ BLOCK_SIZE \in Nat \ {0}
  /\ HEADER_SIZE \in Nat \ {0}
  /\ Sizes \subseteq Nat
  /\ Aligns \subseteq Nat \ {0}
  /\ ARENA_ALIGN \in Aligns
  /\ MaxBlocks \in Nat \ {0}
  /\ MaxSnaps \in Nat

VARIABLES
  chain,    \* the blocks from a->first on, in the order of the next pointers
  current,  \* a->current, NoBlock for NULL
  ptr,      \* per block, the bump cursor
  end,      \* per block, one past its last usable byte
  crashed,  \* a NULL pointer was dereferenced
  live,     \* allocations that no rewind has taken back, oldest first
  snaps,    \* snapshots that may still be restored, oldest first
  replay    \* allocations the latest rewind took back and not yet repeated

vars == <<chain, current, ptr, end, crashed, live, snaps, replay>>

BlockId == 1 .. MaxBlocks
NoBlock == 0

Allocation == [block : BlockId, lo : Nat, hi : Nat, align : Aligns]
\* mark is the caller's: how many allocations were live when it was taken.
Snapshot == [block : BlockId, ptr : Nat, mark : Nat]

----------------------------------------------------------------------------
(* Helpers                                                                 *)

\* (n + align - 1) & ~(align - 1): masking takes the remainder off.
align_up(n, align) == (n + align - 1) - ((n + align - 1) % align)

Data == HEADER_SIZE

\* Where block_new(min_size) puts the end of a block.
NewEnd(min_size) ==
  HEADER_SIZE + (IF min_size > BLOCK_SIZE THEN min_size ELSE BLOCK_SIZE)

\* The blocks of a chain, and the position of one in it.
InChain(ch, b) == \E i \in 1 .. Len(ch) : ch[i] = b
Pos(ch, b) == CHOOSE i \in 1 .. Len(ch) : ch[i] = b

\* The blocks from b->next on, and the same with b.
After(ch, b) == {ch[i] : i \in Pos(ch, b) + 1 .. Len(ch)}
From(ch, b) == {b} \cup After(ch, b)

FitsUnpadded(b, size, align) == ptr[b] + size <= end[b]   \* a mutant
Fits(b, size, align) == align_up(ptr[b], align) + size <= end[b]

\* The cursor of a block after an allocation from it.
Bumped(b, size, align) == align_up(ptr[b], align) + size

\* a->first
FirstStays == current   \* a mutant: a reset that forgets to go back
First == IF chain = <<>> THEN NoBlock ELSE chain[1]

\* The cursors once arena_restore has walked from the snapshot's block on.
RewoundTo(snap) ==
  [b \in BlockId |-> IF b = snap.block THEN snap.ptr
                     ELSE IF b \in After(chain, snap.block) THEN Data
                     ELSE ptr[b]]

\* What malloc can hand out, if anything: any block outside the chain.  Block
\* names carry no meaning, so the least one stands for all of them.
Unused ==
  {b \in BlockId : /\ ~InChain(chain, b)
                   /\ \A c \in BlockId : ~InChain(chain, c) => b <= c}

\* The caller notes the pointer it was given, and whether this repeats what
\* the last rewind took back.
Hand(b, lo, size, align) ==
  /\ live' = Append(live, [block |-> b, lo |-> lo, hi |-> lo + size, align |-> align])
  /\ replay' = IF /\ replay # <<>>
                  /\ Head(replay).hi - Head(replay).lo = size
                  /\ Head(replay).align = align
               THEN Tail(replay)
               ELSE <<>>

----------------------------------------------------------------------------
(* Lifecycle                                                               *)

\* arena_init: the first block, or no block at all when malloc fails.
Init ==
  /\ \/ /\ chain = <<1>>
        /\ current = 1
        /\ ptr = [b \in BlockId |-> IF b = 1 THEN Data ELSE 0]
        /\ end = [b \in BlockId |-> IF b = 1 THEN NewEnd(BLOCK_SIZE) ELSE 0]
     \/ /\ chain = <<>>
        /\ current = NoBlock
        /\ ptr = [b \in BlockId |-> 0]
        /\ end = [b \in BlockId |-> 0]
  /\ crashed = FALSE
  /\ live = <<>>
  /\ snaps = <<>>
  /\ replay = <<>>

arena_destroy ==
  /\ ~crashed
  /\ chain' = <<>>
  /\ current' = NoBlock
  /\ live' = <<>>
  /\ snaps' = <<>>
  /\ replay' = <<>>
  /\ ptr' = [b \in BlockId |-> 0]
  /\ end' = [b \in BlockId |-> 0]
  /\ UNCHANGED crashed

arena_reset ==
  /\ ~crashed
  /\ ptr' = [b \in BlockId |-> IF InChain(chain, b) THEN Data ELSE ptr[b]]
  /\ current' = First
  /\ live' = <<>>
  /\ snaps' = <<>>
  /\ replay' = live
  /\ UNCHANGED <<chain, end, crashed>>

----------------------------------------------------------------------------
(* Allocation                                                              *)

\* A block from current on has room: the first such is taken.
AllocInChain(size, align) ==
  /\ current # NoBlock
  /\ \E b \in From(chain, current) :
       /\ Fits(b, size, align)
       /\ \A c \in From(chain, current) :
            Fits(c, size, align) => Pos(chain, b) <= Pos(chain, c)
       /\ current' = b
       /\ ptr' = [ptr EXCEPT ![b] = Bumped(b, size, align)]
       /\ Hand(b, align_up(ptr[b], align), size, align)
  /\ UNCHANGED <<chain, end, crashed, snaps>>

NoRoom(size, align) ==
  current # NoBlock => \A b \in From(chain, current) : ~Fits(b, size, align)

\* No block has room: a fresh one is spliced in right behind current.
AllocFresh(size, align) ==
  /\ current # NoBlock
  /\ NoRoom(size, align)
  /\ \E fresh \in Unused :
       /\ chain' = InsertAt(chain, Pos(chain, current) + 1, fresh)
       /\ current' = fresh
       /\ end' = [end EXCEPT ![fresh] = NewEnd(size + align)]
       /\ ptr' = [ptr EXCEPT ![fresh] = align_up(Data, align) + size]
       /\ Hand(fresh, align_up(Data, align), size, align)
  /\ UNCHANGED <<crashed, snaps>>

\* An arena without blocks: the fresh block is linked through a NULL current.
AllocThroughNull(size, align) ==
  /\ current = NoBlock
  /\ Unused # {}
  /\ crashed' = TRUE
  /\ UNCHANGED <<chain, current, ptr, end, live, snaps, replay>>

\* malloc may fail, and does when there is no memory left: NULL is returned.
AllocFails(size, align) ==
  /\ NoRoom(size, align)
  /\ UNCHANGED <<chain, current, ptr, end, live, snaps, replay>>

AtLeastOne(size) == IF size = 0 THEN 1 ELSE size

arena_alloc_aligned(size, align) ==
  /\ ~crashed
  /\ \/ AllocInChain(AtLeastOne(size), align)
     \/ AllocFresh(AtLeastOne(size), align)
     \/ AllocThroughNull(AtLeastOne(size), align)
     \/ /\ AllocFails(AtLeastOne(size), align)
        /\ UNCHANGED crashed

\* arena_strdup and arena_strndup copy size - 1 bytes and a terminator to
\* whatever arena_alloc returned, NULL included.
arena_strdup(size) ==
  /\ ~crashed
  /\ \/ AllocInChain(AtLeastOne(size), ARENA_ALIGN)
     \/ AllocFresh(AtLeastOne(size), ARENA_ALIGN)
     \/ AllocThroughNull(AtLeastOne(size), ARENA_ALIGN)
     \/ /\ AllocFails(AtLeastOne(size), ARENA_ALIGN)
        /\ crashed' = TRUE

----------------------------------------------------------------------------
(* Snapshot / restore                                                      *)

arena_snapshot ==
  /\ ~crashed
  /\ IF current = NoBlock
     THEN /\ crashed' = TRUE
          /\ UNCHANGED snaps
     ELSE /\ Len(snaps) < MaxSnaps
          /\ snaps' = Append(snaps, [block |-> current, ptr |-> ptr[current],
                                     mark |-> Len(live)])
          /\ UNCHANGED crashed
  /\ UNCHANGED <<chain, current, ptr, end, live, replay>>

\* The caller rewinds to its k-th snapshot, giving up the younger ones.
arena_restore(k) ==
  LET snap == snaps[k] IN
  /\ ~crashed
  /\ ptr' = RewoundTo(snap)
  /\ current' = snap.block
  /\ live' = SubSeq(live, 1, snap.mark)
  /\ snaps' = SubSeq(snaps, 1, k)
  /\ replay' = SubSeq(live, snap.mark + 1, Len(live))
  /\ UNCHANGED <<chain, end, crashed>>

Next ==
  \/ arena_destroy
  \/ arena_reset
  \/ \E size \in Sizes, align \in Aligns : arena_alloc_aligned(size, align)
  \/ \E size \in Sizes : arena_strdup(size + 1)
  \/ arena_snapshot
  \/ \E k \in 1 .. Len(snaps) : arena_restore(k)

Spec == Init /\ [][Next]_vars

----------------------------------------------------------------------------
(* Properties                                                              *)

\* Every variable has its type.
TypeOK ==
  /\ chain \in Seq(BlockId)
  /\ current \in BlockId \cup {NoBlock}
  /\ ptr \in [BlockId -> Nat]
  /\ end \in [BlockId -> Nat]
  /\ crashed \in BOOLEAN
  /\ live \in Seq(Allocation)
  /\ snaps \in Seq(Snapshot)
  /\ replay \in Seq(Allocation)

\* Two pointers the caller still owns never name the same byte, whatever mix
\* of allocations, skipped blocks, splices and rewinds produced them
\* (arena_alloc_aligned, arena_reset, arena_restore).
LiveDisjoint ==
  \A i, j \in 1 .. Len(live) :
    i < j /\ live[i].block = live[j].block => live[i].hi <= live[j].lo

\* A pointer the caller still owns lies inside the data of a block of the
\* chain, below that block's cursor (arena_alloc_aligned's bound check).
LiveInBounds ==
  \A i \in 1 .. Len(live) :
    /\ InChain(chain, live[i].block)
    /\ Data <= live[i].lo
    /\ live[i].lo < live[i].hi
    /\ live[i].hi <= ptr[live[i].block]
    /\ ptr[live[i].block] <= end[live[i].block]

\* The blocks behind current are unused: the memory a rewind gave back, and
\* the tail a splice kept, are found again by the next walk.
TailRewound ==
  current # NoBlock => \A b \in After(chain, current) : ptr[b] = Data

\* The chain has no block twice, current is in it unless there is none, and
\* every cursor is between the start and the end of its block.
ChainOK ==
  /\ \A i, j \in 1 .. Len(chain) : chain[i] = chain[j] => i = j
  /\ IF chain = <<>> THEN current = NoBlock ELSE InChain(chain, current)
  /\ \A b \in BlockId : InChain(chain, b) => Data <= ptr[b] /\ ptr[b] <= end[b]

\* A snapshot that may still be restored covers every allocation made before
\* it and lies at or below the state of the arena, so that rewinding to it
\* cuts into nothing the caller still owns (arena_restore).
SnapsCover ==
  \A k \in 1 .. Len(snaps) :
    /\ InChain(chain, snaps[k].block)
    /\ snaps[k].block \notin After(chain, current)
    /\ Data <= snaps[k].ptr
    /\ snaps[k].ptr <= ptr[snaps[k].block]
    /\ snaps[k].mark <= Len(live)
    /\ \A i \in 1 .. snaps[k].mark :
         /\ live[i].block \notin After(chain, snaps[k].block)
         /\ live[i].block = snaps[k].block => live[i].hi <= snaps[k].ptr

\* Snapshots nest: an older one is nowhere ahead of a younger one.
SnapsNested ==
  \A j, k \in 1 .. Len(snaps) : j < k =>
    /\ snaps[j].block \notin After(chain, snaps[k].block)
    /\ snaps[j].block = snaps[k].block => snaps[j].ptr <= snaps[k].ptr
    /\ snaps[j].mark <= snaps[k].mark

\* What every operation preserves: the invariant the proofs go by.
ArenaInv ==
  /\ TypeOK
  /\ ChainOK
  /\ TailRewound
  /\ LiveInBounds
  /\ LiveDisjoint
  /\ SnapsCover
  /\ SnapsNested

\* "rewind, no leak": making the same requests again after a rewind gives the
\* same addresses and asks malloc for nothing (arena.h, the snapshot comment).
ReplayStable ==
  [][ (/\ Len(live') = Len(live) + 1
       /\ replay # <<>>
       /\ live'[Len(live')].hi - live'[Len(live')].lo = Head(replay).hi - Head(replay).lo
       /\ live'[Len(live')].align = Head(replay).align)
      => (live'[Len(live')] = Head(replay) /\ chain' = chain) ]_vars
============================================================================
