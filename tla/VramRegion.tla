----------------------------- MODULE VramRegion -----------------------------
(***************************************************************************)
(* A region of vram.c as a value, and the functions of vram.c on it.  A    *)
(* region is a row of tiles of video memory, described by `vram', one 16   *)
(* bit word per tile and one more for the end mark: the word of the first  *)
(* tile of a block holds the block's size, with the top bit set while it   *)
(* is used; the other words are never meant to be read.  `free' is the     *)
(* word the next allocation tries first.  Adjacent free blocks are merged  *)
(* only when that first try fails.                                         *)
(***************************************************************************)
EXTENDS Integers, FiniteSets, FiniteSetsExt

CONSTANTS
  StartIndex,  \* tile index of the region's first tile
  Size         \* number of tiles

USED_MASK == 32768
u16 == 0 .. 2 * USED_MASK - 1

ASSUME RegionAssumption ==
  /\ StartIndex \in Nat /\ Size \in Nat \ {0}
  /\ StartIndex + Size < USED_MASK

NoTiles == -1
Words == 0 .. Size
EndIndex == StartIndex + Size - 1

-----------------------------------------------------------------------------
(* Reading the chain *)

Used(v, b) == v[b] >= USED_MASK
Tiles(v, b) == v[b] % USED_MASK

\* The words met when walking from b, the one that ends the walk included.
Chain(v, b) ==
  LET walk[c \in Words] ==
        IF v[c] = 0 \/ c + Tiles(v, c) \notin c + 1 .. Size
        THEN {c} ELSE {c} \cup walk[c + Tiles(v, c)]
  IN walk[b]

Headers(v) == {b \in Chain(v, 0) : v[b] # 0}
FreeHeaders(v) == {b \in Headers(v) : ~Used(v, b)}

\* Maximal rows of adjacent free blocks.
Runs(v) ==
  LET inner == {b + v[b] : b \in FreeHeaders(v)}
  IN {[start |-> b, end |-> Min({c \in Chain(v, 0) \ FreeHeaders(v) : c > b})] :
        b \in FreeHeaders(v) \ inner}
RunTiles(r) == r.end - r.start

VRAM_getFree(v) == MapThenSumSet(LAMBDA b : v[b], FreeHeaders(v))
VRAM_getAllocated(v) ==
  MapThenSumSet(LAMBDA b : Tiles(v, b), {b \in Headers(v) : Used(v, b)})
VRAM_getLargestFreeBlock(v) == Max({0} \cup {v[b] : b \in FreeHeaders(v)})

-----------------------------------------------------------------------------
(* The operations, as functions of the region *)

\* VRAM_createRegion and VRAM_clearRegion: only the first and the last word
\* are written.
Cleared(v) == [vram |-> [v EXCEPT ![0] = Size, ![Size] = 0], free |-> 0]
Created(g) == Cleared([w \in Words |-> g])

\* pack(nsize): the runs are merged in order, up to the first large enough.
PackFits(v, nsize) == {r \in Runs(v) : RunTiles(r) >= nsize}
PackResult(v, nsize) ==
  IF PackFits(v, nsize) = {} THEN NoTiles
  ELSE Min({r.start : r \in PackFits(v, nsize)})

PackKeepsHeaders(v, nsize) ==
  [w \in Words |->
     IF \E r \in Runs(v) : r.start = w
     THEN RunTiles(CHOOSE r \in Runs(v) : r.start = w) ELSE v[w]]

Pack(v, nsize) ==
  LET p == PackResult(v, nsize)
      merged == {r \in Runs(v) : p = NoTiles \/ r.start <= p}
  IN [w \in Words |->
        IF w \in FreeHeaders(v) /\ \E r \in merged : w \in r.start .. r.end - 1
        THEN LET r == CHOOSE q \in merged : w \in q.start .. q.end - 1
             IN IF w = r.start THEN RunTiles(r) ELSE 0
        ELSE v[w]]

\* Taking size tiles at the start of the free block p.  The next allocation
\* tries what is left of the block, or else the next word that is not the
\* header of a used block, which may be the end mark.
Take(v, p, size) ==
  LET rest == p + size
  IN [vram |-> [w \in Words |->
                  IF w = p THEN size + USED_MASK
                  ELSE IF w = rest /\ v[p] > size THEN v[p] - size ELSE v[w]],
      free |-> IF v[p] > size THEN rest
               ELSE Min({b \in Chain(v, rest) : ~Used(v, b)})]

\* VRAM_alloc(size): where the block is found, and the region afterwards.  A
\* failed allocation leaves `free' where it was, even if pack cleared the
\* header there.
AllocPacksNot(r, size) == IF size > r.vram[r.free] THEN NoTiles ELSE r.free

AllocAt(r, size) ==
  IF size > r.vram[r.free] THEN PackResult(r.vram, size) ELSE r.free

AllocRegion(r, size) ==
  LET v == IF size > r.vram[r.free] THEN Pack(r.vram, size) ELSE r.vram
  IN IF AllocAt(r, size) = NoTiles THEN [r EXCEPT !.vram = v]
     ELSE Take(v, AllocAt(r, size), size)

\* The index VRAM_alloc returns, -1 when it failed.
AllocIndex(r, size) ==
  IF AllocAt(r, size) = NoTiles THEN NoTiles ELSE AllocAt(r, size) + StartIndex

\* VRAM_free(index): the used bit of whatever word the index selects.
Freed(r, index) ==
  IF index - StartIndex >= 0 /\ index <= EndIndex
  THEN [r EXCEPT !.vram[index - StartIndex] = @ % USED_MASK] ELSE r

\* The walk over the blocks ends at the end mark and meets as used blocks
\* exactly the given ones.
ChainHolds(v, blocks) ==
  /\ Size \in Chain(v, 0) /\ v[Size] = 0
  /\ {[at |-> b + StartIndex, len |-> Tiles(v, b)] :
        b \in {h \in Headers(v) : Used(v, h)}} = blocks
=============================================================================
