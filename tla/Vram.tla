-------------------------------- MODULE Vram --------------------------------
(***************************************************************************)
(* The tile allocator of vram.c, called in any order by a program that     *)
(* frees late, twice or out of range.                                      *)
(***************************************************************************)
EXTENDS VramRegion

CONSTANTS
  Sizes,       \* block sizes the program asks for
  Garbage      \* what the heap block of `vram' may hold before it is set

ASSUME SizesAssumption ==
  /\ Sizes \subseteq 1 .. USED_MASK - 1
  /\ Garbage \subseteq u16

VARIABLES
  region,  \* [vram : [Words -> u16], free : Words]
  held,    \* [at |-> tile index, len |-> tiles] of the blocks in use
  refused  \* the size of the request just refused, or 0

vars == <<region, held, refused>>

-----------------------------------------------------------------------------
(* The program's calls *)

Init ==
  /\ \E g \in Garbage : region = Created(g)
  /\ held = {} /\ refused = 0

VRAM_alloc(size) ==
  /\ AllocIndex(region, size) # NoTiles
  /\ region' = AllocRegion(region, size)
  /\ held' = held \cup {[at |-> AllocIndex(region, size), len |-> size]}
  /\ refused' = 0

VRAM_allocFails(size) ==
  /\ AllocIndex(region, size) = NoTiles
  /\ region' = AllocRegion(region, size)
  /\ refused' = size
  /\ UNCHANGED held

VRAM_free(b) ==
  /\ b \in held
  /\ region' = Freed(region, b.at)
  /\ held' = held \ {b}
  /\ refused' = 0

\* A late or repeated VRAM_free: of an index outside the region, or of one
\* that is not the start of a block in use.
VRAM_freeAgain(index) ==
  /\ \A b \in held : b.at # index
  /\ region' = Freed(region, index)
  /\ refused' = 0
  /\ UNCHANGED held

VRAM_clearRegion ==
  /\ region' = Cleared(region.vram)
  /\ held' = {} /\ refused' = 0

\* VRAM_releaseRegion, then VRAM_createRegion, as SPR_defragVRAM does.
VRAM_recreateRegion ==
  /\ \E g \in Garbage : region' = Created(g)
  /\ held' = {} /\ refused' = 0

Next ==
  \/ \E s \in Sizes : VRAM_alloc(s)
  \/ \E s \in Sizes : VRAM_allocFails(s)
  \/ \E b \in held : VRAM_free(b)
  \/ \E i \in 0 .. EndIndex + 1 : VRAM_freeAgain(i)
  \/ VRAM_clearRegion
  \/ VRAM_recreateRegion

Spec == Init /\ [][Next]_vars

-----------------------------------------------------------------------------
(* Properties *)

\* Types of the variables.
TypeOK ==
  /\ region.vram \in [Words -> u16] /\ region.free \in Words
  /\ \A b \in held : b.at \in StartIndex .. EndIndex /\ b.len \in Sizes
  /\ refused \in Sizes \cup {0}

\* The walk over the blocks ends at the end mark and meets as used blocks
\* exactly those the program holds, with the sizes it asked for: neither the
\* merges of pack, nor the words left in the middle of blocks, nor a release
\* repeated after the tiles were merged away, take a block from its owner or
\* keep one that was given back.
ChainIsHeld == ChainHolds(region.vram, held)

\* The word VRAM_alloc reads at `free' is the header of a free block, the end
\* mark, or a header that a failed allocation cleared; it is never the header
\* of a used block, whose top bit would pass for a huge size, nor a word in the
\* middle of one.
FreeIsFree ==
  region.vram[region.free] = 0 \/ region.free \in FreeHeaders(region.vram)

\* VRAM_getLargestFreeBlock is what its log message after a failed allocation
\* says, the largest block that could be had: the failure has merged every run.
LargestIsExactOnFailure ==
  refused # 0 =>
    VRAM_getLargestFreeBlock(region.vram)
      = Max({0} \cup {RunTiles(r) : r \in Runs(region.vram)})

\* VRAM_getFree and VRAM_getAllocated count every tile once, and the program's
\* as its own.
CountsAgree ==
  /\ VRAM_getAllocated(region.vram) = MapThenSumSet(LAMBDA b : b.len, held)
  /\ VRAM_getFree(region.vram) = Size - VRAM_getAllocated(region.vram)

\* The sizes kept in the region are those of the blocks in use, and what the
\* allocator reads of it, at `free' or for its log, is never out of date.
RegionIsSound ==
  TypeOK /\ ChainIsHeld /\ CountsAgree /\ FreeIsFree /\ LargestIsExactOnFailure

\* The region is an allocator as the program expects one: blocks in use never
\* overlap, and VRAM_alloc refuses a size only when no gap between the blocks
\* in use is large enough, wherever `free' is and whatever is not merged yet.
A == INSTANCE Arena WITH First <- StartIndex, Last <- EndIndex, Lengths <- Sizes
ImplementsArena == A!Spec
=============================================================================
