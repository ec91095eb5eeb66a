------------------------------ MODULE SpriteEng ------------------------------
(***************************************************************************)
(* The resources of the sprite engine (sprite_eng.c): sprite objects from  *)
(* a pool, tiles from a VRAM region, and the count of hardware sprites     *)
(* that the active sprites may need.  One call takes and gives back all    *)
(* three, and can fail at each.                                            *)
(*                                                                         *)
(* The engine is a record, and each function of the source is an operator  *)
(* from one such record to the next, so that the calls that are made of    *)
(* others (SPR_addSpriteExSafe) are compositions.  The order of the active *)
(* sprites is a sequence here; SpriteList has the pointers.                *)
(***************************************************************************)
EXTENDS VramRegion, Sequences, SequencesExt

CONSTANTS
  MaxSprite,   \* capacity of the pool
  Definitions, \* the sprite definitions, by number
  HwLimit,     \* VDP_getScreenWidth() >> 2
  Manual       \* tile indexes, outside the region, that the program manages

\* What the engine reads of a definition, its number: 256 times the tiles and
\* once the hardware sprites that its largest frame needs (the number of a
\* frame's is an s8).
maxNumTile(d) == d \div 256
maxNumSprite(d) == d % 256

\* The counter of hardware sprites has 15 bits (MAX_SPRITE is 80).
ASSUME EngineAssumption ==
  /\ MaxSprite \in Nat \ {0} /\ MaxSprite <= 128 /\ HwLimit \in Nat
  /\ \A d \in Definitions : d \in Nat /\ maxNumTile(d) > 0
  /\ \A i \in Manual, d \in Definitions :
       i \in Nat /\ (i > EndIndex \/ i + maxNumTile(d) <= StartIndex)

Slots == 1 .. MaxSprite
None == 0
\* TILE_INDEX_MASK applied to the -1 of a failed allocation
BadIndex == 2047
CHECK_VDP_SPRITE == 32768

VARIABLES
  eng,     \* stack: free sprite objects, the next one last
           \* list: active sprites, first displayed first
           \* spr: the objects themselves
           \* usedVDPSprite: 16 bits, the top one enables the check
           \* region: the VRAM region
           \* right: sprites whose place in VRAM holds their own tiles
  given,   \* sprites the program was given and has not released
  harmed   \* has a call failed half-way since the last reset?

engineVars == <<eng, given, harmed>>

NoSprite == [alloc |-> FALSE, auto |-> FALSE, def |-> None, at |-> 0, upload |-> FALSE]

SPR_getUsedVDPSprite(e) == e.usedVDPSprite % CHECK_VDP_SPRITE
Checked(e) == e.usedVDPSprite >= CHECK_VDP_SPRITE
Counted(e, n) == [e EXCEPT !.usedVDPSprite = (@ + n) % (2 * CHECK_VDP_SPRITE)]

\* Sprite s now has definition d, and its tiles at ind: what VRAM holds there is
\* not its picture, and is to be sent again.
Placed(e, s, d, ind) ==
  IF e.spr[s].def = d /\ e.spr[s].at = ind THEN e
  ELSE [e EXCEPT !.spr[s] = [@ EXCEPT !.def = d, !.at = ind, !.upload = TRUE],
                 !.right = @ \ {s}]

\* The tiles held by the sprites the program has.
SpriteBlocks(e) ==
  {[at |-> e.spr[s].at, len |-> maxNumTile(e.spr[s].def)] :
     s \in {t \in given : e.spr[t].auto}}

-----------------------------------------------------------------------------
(* The functions of sprite_eng.c *)

\* POOL_reset with clear, VRAM_clearRegion, and no active sprite.
ResetEngine(e) ==
  [e EXCEPT !.stack = [i \in Slots |-> i], !.list = <<>>,
            !.spr = [s \in Slots |-> NoSprite],
            !.usedVDPSprite = IF Checked(e) THEN CHECK_VDP_SPRITE ELSE 0,
            !.region = Cleared(@.vram), !.right = {}]

\* allocateSprite(head), when the pool is not empty.
Allocated(e, head) ==
  LET s == Last(e.stack)
  IN [e EXCEPT !.stack = Front(@),
               !.list = IF head THEN <<s>> \o @ ELSE Append(@, s)]

\* releaseSprite: only what is marked as allocated is released.  The fields of
\* the object are left as they are in the code; SPR_addSpriteEx sets them all,
\* so that here they are forgotten.
releaseSpriteUnchecked(e, s) ==
  Counted([e EXCEPT !.stack = Append(@, s), !.list = RemoveFirst(@, s),
                    !.spr[s] = NoSprite, !.right = @ \ {s}],
          -(IF e.spr[s].alloc THEN maxNumSprite(e.spr[s].def) ELSE 0))

releaseSprite(e, s) ==
  IF ~e.spr[s].alloc THEN e
  ELSE Counted([e EXCEPT !.stack = Append(@, s),
                         !.list = RemoveFirst(@, s),
                         !.spr[s] = NoSprite, !.right = @ \ {s}],
               -maxNumSprite(e.spr[s].def))

\* The state that SPR_addSpriteEx gives a new object before it asks for tiles.
NewSprite(d, auto, at) ==
  [alloc |-> TRUE, auto |-> auto, def |-> d, at |-> at, upload |-> TRUE]

\* SPR_addSpriteEx.  The refusal by the hardware sprite check releases an
\* object that is not marked as allocated yet, that is, does not release it.
AddRefusedByCheck(e, d) ==
  e.stack # <<>> /\ Checked(e) /\ SPR_getUsedVDPSprite(Counted(e, maxNumSprite(d))) >= HwLimit

AddEx(e, d, auto, at, head) ==
  IF e.stack = <<>> THEN [eng |-> e, sprite |-> None]
  ELSE LET s == Last(e.stack)
           e1 == Allocated(e, head)
           e2 == [Counted(e1, maxNumSprite(d)) EXCEPT !.spr[s] = NewSprite(d, auto, at)]
           ind == AllocIndex(e2.region, maxNumTile(d))
           e3 == [e2 EXCEPT !.region = AllocRegion(@, maxNumTile(d))]
       IN IF AddRefusedByCheck(e, d) THEN [eng |-> releaseSprite(e1, s), sprite |-> None]
          ELSE IF ~auto THEN [eng |-> e2, sprite |-> s]
          ELSE IF ind = NoTiles THEN [eng |-> releaseSprite(e3, s), sprite |-> None]
          ELSE [eng |-> Placed(e3, s, d, ind), sprite |-> s]

\* SPR_defragVRAM: a new region, in which every listed sprite that has the
\* flag is given tiles again, in display order.
DefragOneSkipsUpload(e, s) ==
  LET n == maxNumTile(e.spr[s].def)
      ind == AllocIndex(e.region, n)
  IN IF ~e.spr[s].auto THEN e
     ELSE [Placed(e, s, e.spr[s].def, ind) EXCEPT
             !.region = AllocRegion(e.region, n), !.spr[s].upload = e.spr[s].upload]

DefragOne(e, s) ==
  LET n == maxNumTile(e.spr[s].def)
      ind == IF AllocIndex(e.region, n) = NoTiles THEN BadIndex
             ELSE AllocIndex(e.region, n)
  IN IF ~e.spr[s].auto THEN e
     ELSE Placed([e EXCEPT !.region = AllocRegion(@, n)], s, e.spr[s].def, ind)

Defragged(e) ==
  LET step[i \in 0 .. Len(e.list)] ==
        IF i = 0 THEN [e EXCEPT !.region = Created(0)] ELSE DefragOne(step[i - 1], e.list[i])
  IN step[Len(e.list)]

\* SPR_addSpriteExSafe: a second try after defragmentation.
AddExNoDefrag(e, d, auto, at, head) ==
  LET r == AddEx(e, d, auto, at, head)
  IN IF r.sprite # None THEN r ELSE AddEx(r.eng, d, auto, at, head)

AddExSafe(e, d, auto, at, head) ==
  LET r == AddEx(e, d, auto, at, head)
  IN IF r.sprite # None THEN r ELSE AddEx(Defragged(r.eng), d, auto, at, head)

\* SPR_releaseSprite: the object, then its tiles.
SpriteReleasedKeepsTiles(e, s) == releaseSprite(e, s)

SpriteReleased(e, s) ==
  LET e1 == releaseSprite(e, s)
  IN IF e.spr[s].alloc /\ e.spr[s].auto
     THEN [e1 EXCEPT !.region = Freed(@, e.spr[s].at)] ELSE e1

\* SPR_setDefinition: [eng, ok].  The counter is restored when the check
\* refuses; nothing is restored when no tiles are found, and the old ones are
\* already free.
DefinitionReallocates(e, s, d) ==
  e.spr[s].auto /\ maxNumTile(e.spr[s].def) # maxNumTile(d)

DefinitionSet(e, s, d) ==
  LET e1 == Counted(e, maxNumSprite(d) - maxNumSprite(e.spr[s].def))
      freed == Freed(e.region, e.spr[s].at)
      ind == AllocIndex(freed, maxNumTile(d))
      e2 == [e1 EXCEPT !.region = AllocRegion(freed, maxNumTile(d))]
  IN IF e.spr[s].def = d THEN [eng |-> e, ok |-> TRUE]
     ELSE IF Checked(e1) /\ SPR_getUsedVDPSprite(e1) >= HwLimit THEN [eng |-> e, ok |-> FALSE]
     ELSE IF ~DefinitionReallocates(e, s, d)
     THEN [eng |-> Placed(e1, s, d, e.spr[s].at), ok |-> TRUE]
     ELSE IF ind = NoTiles THEN [eng |-> e2, ok |-> FALSE]
     ELSE [eng |-> Placed(e2, s, d, ind), ok |-> TRUE]

\* SPR_setVRAMTileIndex(value), value = -1 for automatic: [eng, ok].  The flag
\* is set before the tiles are there, and stays set without them.
Moved(e, s, auto, ind) ==
  Placed([e EXCEPT !.spr[s].auto = auto], s, e.spr[s].def, ind)

TileIndexSet(e, s, value) ==
  LET n == maxNumTile(e.spr[s].def)
      ind == AllocIndex(e.region, n)
      e1 == [e EXCEPT !.region = AllocRegion(@, n)]
  IN IF value # -1
     THEN [eng |-> Moved(IF e.spr[s].auto
                         THEN [e EXCEPT !.region = Freed(@, e.spr[s].at)] ELSE e,
                         s, FALSE, value),
           ok |-> TRUE]
     ELSE IF e.spr[s].auto THEN [eng |-> e, ok |-> TRUE]
     ELSE IF ind = NoTiles THEN [eng |-> [e1 EXCEPT !.spr[s].auto = TRUE], ok |-> FALSE]
     ELSE [eng |-> Moved(e1, s, TRUE, ind), ok |-> TRUE]

\* SPR_update and the DMA flush of the next vertical blank: every active
\* sprite that needs it has its tiles sent to VRAM, in display order.
Cells(e, s) == e.spr[s].at .. e.spr[s].at + maxNumTile(e.spr[s].def) - 1
UploadOne(e, s) ==
  IF ~e.spr[s].alloc \/ ~e.spr[s].upload THEN e
  ELSE [e EXCEPT !.spr[s].upload = FALSE,
                 !.right = {s} \cup {t \in @ : Cells(e, t) \cap Cells(e, s) = {}}]
Uploaded(e) ==
  LET step[i \in 0 .. Len(e.list)] ==
        IF i = 0 THEN e ELSE UploadOne(step[i - 1], e.list[i])
  IN step[Len(e.list)]

-----------------------------------------------------------------------------
(* The program's calls *)

EngineInit ==
  /\ eng = [stack |-> [i \in Slots |-> i], list |-> <<>>,
            spr |-> [s \in Slots |-> NoSprite], usedVDPSprite |-> 0,
            region |-> Created(0), right |-> {}]
  /\ given = {} /\ harmed = FALSE

Adds(r, d) ==
  /\ eng' = r.eng
  /\ given' = given \cup ({r.sprite} \ {None})
  /\ harmed' = (harmed \/ AddRefusedByCheck(eng, d))

SPR_addSpriteEx(d, at, head) ==
  Adds(AddEx(eng, d, at = -1, at, head), d)

SPR_addSpriteExSafe(d, at, head) ==
  Adds(AddExSafe(eng, d, at = -1, at, head), d)

\* Also a second release of the same sprite, which does nothing as long as its
\* object is not in use again.
SPR_releaseSprite(s) ==
  /\ eng' = SpriteReleased(eng, s)
  /\ given' = given \ {s}
  /\ UNCHANGED harmed

SPR_setDefinition(s, d) ==
  /\ s \in given
  /\ LET r == DefinitionSet(eng, s, d)
     IN /\ eng' = r.eng
        /\ harmed' = (harmed \/ (~r.ok /\ r.eng # eng))
  /\ UNCHANGED given

SPR_setVRAMTileIndex(s, value) ==
  /\ s \in given
  /\ LET r == TileIndexSet(eng, s, value)
     IN eng' = r.eng /\ harmed' = (harmed \/ ~r.ok)
  /\ UNCHANGED given

SPR_defragVRAM ==
  /\ eng' = Defragged(eng)
  /\ UNCHANGED <<given, harmed>>

SPR_setVDPSpriteChecking(on) ==
  /\ eng' = [eng EXCEPT !.usedVDPSprite = SPR_getUsedVDPSprite(eng) + IF on THEN CHECK_VDP_SPRITE ELSE 0]
  /\ UNCHANGED <<given, harmed>>

SPR_reset ==
  /\ eng' = ResetEngine(eng)
  /\ given' = {} /\ harmed' = FALSE

SPR_update ==
  /\ eng' = Uploaded(eng)
  /\ UNCHANGED <<given, harmed>>

\* The calls of a program that resets the engine once a call has failed
\* half-way.
Calls ==
  \/ \E d \in Definitions, at \in Manual \cup {-1}, head \in BOOLEAN :
       SPR_addSpriteEx(d, at, head) \/ SPR_addSpriteExSafe(d, at, head)
  \/ \E s \in Slots : SPR_releaseSprite(s)
  \/ \E s \in given, d \in Definitions : SPR_setDefinition(s, d)
  \/ \E s \in given, i \in Manual \cup {-1} : SPR_setVRAMTileIndex(s, i)
  \/ SPR_defragVRAM
  \/ \E on \in BOOLEAN : SPR_setVDPSpriteChecking(on)
  \/ SPR_update

EngineNext == (~harmed /\ Calls) \/ SPR_reset

EngineSpec == EngineInit /\ [][EngineNext]_engineVars

-----------------------------------------------------------------------------
(* Properties *)

\* Types of the variables; the counter of hardware sprites never borrows from
\* the bit beside it that enables the check.
EngineTypeOK ==
  /\ eng.stack \in Seq(Slots) /\ eng.list \in Seq(Slots)
  /\ eng.usedVDPSprite \in u16 /\ SPR_getUsedVDPSprite(eng) <= MaxSprite * 255
  /\ eng.right \subseteq Slots
  /\ \A s \in Slots : /\ eng.spr[s].alloc \in BOOLEAN /\ eng.spr[s].auto \in BOOLEAN
                       /\ eng.spr[s].def \in Definitions \cup {None}
  /\ given \subseteq Slots /\ harmed \in BOOLEAN

\* The sprites on the list are the ones the program has, each once, and the
\* other objects are in the pool: an addition that fails for want of tiles,
\* or succeeds only at the second try, leaves nothing behind.
ListedAreGiven ==
  /\ IsInjective(eng.list) /\ IsInjective(eng.stack)
  /\ ToSet(eng.stack) = Slots \ ToSet(eng.list)
  /\ ToSet(eng.list) = given

ListedUnlessHarmed == ~harmed => ListedAreGiven

\* usedVDPSprite, which decides whether an addition is refused, is the number
\* of hardware sprites of the definitions in use.
UsedIsSum ==
  ~harmed => SPR_getUsedVDPSprite(eng)
               = MapThenSumSet(LAMBDA s : maxNumSprite(eng.spr[s].def), given)

\* What a call takes of objects and hardware sprites, it or the release gives
\* back: nothing is kept by a sprite the program does not have.
ResourcesBalance == EngineTypeOK /\ ListedUnlessHarmed /\ UsedIsSum

\* Every used block of the VRAM region belongs to exactly one sprite of the
\* program, with the size of its definition, whatever the order of additions,
\* releases, changes of definition, moves to manual tiles and back, and
\* defragmentations: in particular the "can't fail here" of SPR_defragVRAM.
TilesAreOwned == ~harmed => ChainHolds(eng.region.vram, SpriteBlocks(eng))

\* No two sprites ever share tiles of the region.
TilesAreDisjoint ==
  ~harmed => \A s, t \in {u \in given : eng.spr[u].auto} :
               s # t => Cells(eng, s) \cap Cells(eng, t) = {}

\* Every tile taken from the region has one owner, a sprite of the program.
TilesHaveOneOwner == TilesAreOwned /\ TilesAreDisjoint

\* SPR_addSpriteExSafe's comment, "VRAM is now defragmented, so allocation
\* should pass this time": it fails only without object, without hardware
\* sprites, or without enough free tiles in all.
SafeAddFits ==
  ~harmed => \A d \in Definitions, head \in BOOLEAN :
    AddExSafe(eng, d, TRUE, -1, head).sprite = None =>
      \/ eng.stack = <<>>
      \/ AddRefusedByCheck(eng, d)
      \/ VRAM_getFree(eng.region.vram) < maxNumTile(d)

\* A sprite whose tiles in VRAM are not its own is one that the next
\* SPR_update sends again: no defragmentation, change of definition or upload
\* of another sprite leaves it with a wrong picture.
WrongPictureIsResent ==
  ~harmed => \A s \in {u \in given : eng.spr[u].auto} : s \in eng.right \/ eng.spr[s].upload
=============================================================================
