# A verification project for SGDK2-CPP

SGDK is the run-time library of Mega Drive / Genesis games: C and 68000
assembly that owns the machine from reset on, hands out memory, drives the
video and sound chips and gives a program tasks, sprites, sound, save files and
network. This directory holds TLA+ modules that model its core, the TLC
configurations that check them on small instances, and TLAPS proofs.

* [The system](#the-system)
* [Modules](#modules)
* [Runs](#runs)
* [Bounds](#bounds-and-why-they-are-enough)
* [Fairness](#fairness)
* [Proofs](#proofs)
* [Disagreements found](#disagreements-between-code-and-documentation)
* [What is not modelled](#what-is-not-modelled)
* [Plan](#plan)

## The system

One 68000 runs everything. There are three sources of interleaving: the
interrupts (vertical, horizontal, external) against the main program, the two
tasks of `task.s`, and the Z80, which shares a bus and a few bytes of memory.
Work is batched per frame: during a frame the program queues changes, and
`SYS_doVBlankProcess` applies them when the vertical blank begins.

| component | state it keeps | operations | meets | what makes it correct |
|---|---|---|---|---|
| object pools (`pool.c`, `object.c`) | a bank, a stack of pointers split at `free`, an index before each object | create, reset, destroy, allocate, release, find, `OBJ_updateAll` | heap; update methods call back into it | no object lost or handed out twice; the allocated half can be walked while methods create and release |
| DMA queue (`dma.c`) | entries, index of the first one over capacity, byte count, temporary buffer used as a stack, two strategies | queue, copy and queue, allocate and queue, flush, clear, settings | heap (its arrays), `VBlankProcess` of `sys.c` | what a call promised is what the flush does; buffers are not reused under a queued transfer |
| heap (`memory.c`) | headers in the memory itself, `free`, `needPack` | alloc, allocAt, free, pack, queries | everything that allocates | the chain covers the heap; data are never overwritten; fails only when full |
| tasks and masking (`task.s`, `_VINT` in `boot/sega.s`, `SYS_disableInts` in `sys.c`) | `task_pc`, `task_lock`, saved registers, nesting count and saved level | yield, pend, post, stop, set; disable, enable | vertical interrupt, trap 0, interrupt callbacks | a pend ends by post or exactly at its timeout; critical sections are quiet and end |
| flash save manager (`saveman.c`, `flash.c`) | two flash sectors written as a log, `cur_sect`, `last_addr`, `blob_addr` | init, save, load, delete, clear, deinit | chip, power | calls are atomic and durable; only erased words are programmed |
| system core (`sys.c`) | `VBlankProcess`, callbacks, `intTrace` | VBlank process, interrupt set-up, reset | all per-frame tasks | no task bit lost; each task runs once per frame |
| VRAM allocator (`vram.c`) | regions with in-band sizes, `free` | create, alloc, free, pack | sprite engine | as the heap |
| hardware sprite list (`vdp_spr.c`) | 80 linked entries, free list | alloc, release, refresh links, update | sprite engine, DMA queue | chains disjoint, ends reached |
| sprite engine (`sprite_eng.c`) | depth-sorted list, objects from a pool, tiles from a region, a count of hardware sprites, per-sprite flags, timers, visibility | add, release, set*, defragment, update | pool, VRAM, DMA queue, frame callbacks | every resource owned once; list sorted and whole under callbacks; what is shown has its tiles |
| palettes (`pal.c`) | fade counter, accumulators and steps, current palette | fades, wait, interrupt | VBlank tasks, DMA queue | a fade ends on its target |
| scrolling (`vdp_bg.c`) | scroll values and update bits for the next blank | set, process | VBlank tasks | the last value set is shown; no request lost |
| Z80 control and sound (`z80_ctrl.c`, `snd/`) | bus ownership, loaded driver, command bytes | request, release, load, play, stop | Z80 | bus returned; no command lost |
| timers, joypads, bitmap, map, mapper | counters, port states, buffers, cached banks | per-frame updates | VBlank tasks | wrap and window arithmetic |
| MegaWiFi (`ext/mw`) | send and receive state machines, one command buffer, enabled channels | send, receive, commands with timeouts | tasks, UART, WiFi module | frames whole and in order after loss and timeouts; an answer belongs to its command |
| link cable (`ext/link_cable.c`) | port state | send, receive | another console | transfers complete on both sides |
| maths, strings, tables, host tools | none or generated | pure | | |

The hard behaviours: interrupts between instructions (`TSK_superPost` is three
of them); state read before a callback and used after it (`OBJ_updateAll`,
`SYS_doVBlankProcessEx`); in-band headers that a long sequence of calls may
corrupt (heap, VRAM, pools); promises given while queueing and honoured later
(DMA); a power cut between any two words (save manager); bytes lost, and
timeouts at any byte (MegaWiFi); 16 bit counters. The list with lines is `hazards` in `PROJECT.json`.

## Modules

Definitions keep the names of the functions they model; `map` in
`PROJECT.json` gives the lines. A name that ends in a description of a mistake
(`POOL_releaseStackNoSwap`, `BlobOpsHeaderFirst`) stands before the definition it
varies: it is a plausible bug, used to show that a property would notice it.

**Pool** models `pool.c` and `object.c`. `allocStack`, `free` and `index` are the
stack, the split and the word stored before each object; `internalState` and
`update` are the object fields that the library uses. `held` is what the program
was given and has not returned. Every operation is one action, but
`OBJ_updateAll` is a loop over callbacks: `OBJ_updateAll` reads its bounds,
`UpdateNext` is one turn, `CallbackReturns` the end of a method, and between them
the method may create and release. `due` is the set of objects that the pass
still owes an update. `POOL_createFails` is `POOL_create` by the part that `MEM_alloc`
refuses, with what was obtained before it and what that path frees.

**DmaQueue** models the queueing half of `dma.c`. An entry carries the number of
the call that made it, its place in the temporary buffer, and whether it is half
of a transfer split at a 128 KB bank. `accepted` holds the calls that returned
TRUE, `changed` that strategy or capacity were changed with transfers in the
queue. `DMA_queueDmaFast` is a function from queue to result because
`DMA_queueDma` goes through it twice. Sizes are kept modulo `WordModulus`.
The register encoding of an entry and the transfer itself are left out.
`DMA_copyAndQueueDma` also stands for `DMA_allocateAndQueueDma`, which differs by
who fills the region.

**Heap** models `memory.c` on the words of the heap: a header is a word like any
other, so a header read from user data or written over it shows. The program
fills blocks it holds with a word that looks like a used block. `Runs` are the
rows of adjacent free blocks that the three merging loops share.

**Task** models `task.s`, the context switch of `_VINT` and trap 0, and the
masking of `sys.c`. `running`, `superAt` and `userAt` are program counters at the
grain at which an interrupt can come: `TSK_userYield` and `TSK_superPend` test
`task_pc`, and `UserYield`, which masks the interrupts and jumps to it, is a step of
its own, as are the three instructions of `TSK_superPost` and the trap's handler
(`Trap0`, `Trap0Switches`). `task_pc` is reduced to null or not; a jump to a null one
is `userAt = "lost"`, after which nothing is said of the CPU. `stopped` tells whether
`TSK_stop` met the user task waiting (`"idle"`), with the CPU (`"live"`), or between
that test and the masking (`"late"`).
`wait`, `frames`, `posted`, `leftover`, `stopped` and `lastPend` are history: what the
pending call asked for, and how the last one ended.

**SaveMan** models `saveman.c` over `flash.c`. A call becomes the sequence `todo`
of the words it programs and the sectors it erases, one step each, and
`PowerCut` may come between any two. What a call reads it reads at its start:
calls run one at a time and the operations of one never change what it still has
to read. RAM (`ram`) changes at the return and is lost at a cut. A flash word is
a record of what was programmed; `Takes` says which words can take a new value
without setting bits, and a word that cannot makes `data_poll` wait for ever
(`hung`). Programming a word and erasing a sector are atomic: what a chip holds
after power fails inside one is a matter of the chip. `flash_program` cannot
fail in this code, so the error branches behind it are dead and left out; the
only error it can report comes from a 32 bit address cut to 16 bits
(`EraseErrSectors`).

**SlotStore** is what the save manager promises: one file per slot, a call that
takes effect at one point, a return only after it, interruptions that lose
nothing. `SaveMan` implements it with `store` mapped to what `sm_init` would find
in the flash at that moment.

**VramRegion** models the functions of `vram.c` on the words of a region, as `Heap`
does: a stale size inside a block is there to be read. They are functions of the
region, so that both modules that extend it can use them. **Vram** is a program
that calls them in any order, late and twice too. **Arena** is the allocator that
the program believes in: disjoint blocks, and a refusal only when no gap is large
enough; `Vram` implements it.

**SpriteEng** is the sprite engine as an owner of resources: objects of a pool,
tiles of a `VramRegion`, the count of hardware sprites with its flag bit. The
engine is a record, each C function an operator on it, and a call such as
`SPR_addSpriteExSafe` the composition of others. `harmed` marks that a call has
failed half-way (see below): the properties are about programs that reset the
engine then. `right` says whose place in VRAM holds its own picture. A definition
is a number, with its tiles and its hardware sprites as the high and the low part.

**SpriteList** has the pointers: `next` and `prev`, with `firstSprite` and
`lastSprite` as those of NULL, and the walk of `SPR_update` with the callback of a
frame change as a point where the program adds, releases and sorts, several times
if it likes. `there` and `walked` are the sprites that the pass owes a visit and those
it made. `stray` says that a callback that had released its own sprite took it
back or released the one behind it: then the pass goes on from a `next` that the
list no longer has. `retaken` are the sprites so taken back, until they have a frame.

**SpriteAnim** is one sprite: animation, timer, the NEED flags, the tiles in VRAM
and the entry in the sprite table, with updates put off for want of DMA
capacity and the callback between the two halves of `updateFrame`.

**VBlank** composes `SYS_doVBlankProcessEx`, scrolling and fading. The process has
four steps in the main program (copy of the bits and DMA flush, scroll, fade,
store back), between which the interrupt may come; called from the interrupt it
is one step that may come between any two steps of the main program. Of a
palette, one colour component of each range is kept, with its accumulator in 16
bits. That a task bit is set in `VBlankProcess` with `|=` is taken as one instruction,
which the source alone does not settle: a build that loads the volatile word,
changes it and stores it could lose a bit that the interrupt sets between.

**Wifi** models `lsd.c` byte by byte and the calls of `megawifi.c` that sleep on it.
The user task runs `lsd_process` only while the supervisor sleeps; callbacks wake
it by the two instructions of `TSK_superPost`, between which an interrupt may
come. The timeout may come at any byte. The WiFi module and the line are
external. Of the commands, the one that opens a channel and the one that closes
it are kept, since they change what `lsd.c` accepts; the others only fill the
buffer differently. A command is its code and a number (a byte, so it comes round
after 256 calls) that the answer repeats.

**MCSpriteAnim** gives SpriteAnim its animations: the numbers of frames, loop
frames and timers are functions, which a configuration cannot write.

**PoolProofs**, **HeapProofs**, **SpriteAnimProofs**, **SpriteListProofs**,
**WifiProofs** and **SaveManProofs** each extend the module they are named after and
hold its theorems. **VramProofs** extends the two modules above VramRegion, `Vram` and
`SpriteEng` (whose specification is therefore called `EngineSpec`), since the proofs
about the second rest on those about regions. **InterruptProofs** extends the three modules of what the
vertical interrupt drives, `VBlank`, `Task` and `DmaQueue`, and holds theirs; for its
sake the specifications of the last two have names of their own (`TaskSpec`,
`DmaSpec`).

## Runs

| run | cfg | result | what it shows |
|---|---|---|---|
| `pool` | `MCPool` | holds, 27 853 states | with coherent releases and update methods that release only what the pass has updated: no object is lost or handed out twice, `POOL_find` and the walk agree with what is held, a pass updates exactly what it began with, and ends |
| `dma_queue` | `MCDmaQueue` | holds, 537 508 states | in a frame whose settings stand and whose counter has not wrapped, an accepted call is performed by the flush, a refused one only as the frame's first transfer or as half of a bank split, and a flush stays within the capacity; buffer words stay their owner's; limits respected at every resize; with auto flush the queue drains |
| `heap` | `MCHeap` | holds, 14 588 states | the chain is exactly the held blocks and free space, sizes add up, user data untouched, `free` never in user data, failure only when no run is large enough |
| `vram` | `MCVram` | holds, 90 274 states | the sizes are exactly the blocks in use whatever was merged, released twice or left over; the largest block reported after a failure is exact; refinement of Arena |
| `task` | `MCTask` | holds, 37 746 states | exact timeouts, wake-ups explained, yields of one frame, masking nests, a task stopped while it waits is not given the CPU and a switch jumps to a cleared `task_pc` only after a stop between its test and the masking, the supervisor resumes unless that happened |
| `vblank` | `MCVBlank` | holds, 78 000 states | no task bit lost by the store back, the VDP shows the last scroll values, fades end exactly on target, a synchronous fade returns with its colours on the screen, everything pending is done |
| `sprites` | `MCSpriteEng` | holds, 19 432 states | objects, tiles and hardware sprites are owned exactly once, the safe addition fails only when nothing could help, a sprite with a wrong picture is sent again |
| `sprite_list` | `MCSpriteList` | holds, 519 973 states | the list is whole and sorted and the pass stays in the table; unless `stray`, the pass meets only live sprites and visits those that stayed once and in order; it never reads a missing frame except of a sprite `retaken`; it ends if no callback makes two calls |
| `sprite_anim` | `MCSpriteAnim` | holds, 24 912 states | the picture shown is in VRAM or on its way, is the frame chosen last, visibility is right, "animation done" is true only on the last frame, a looping animation goes on |
| `save_man` | `MCSaveMan` | holds, 24 452 states | atomic and durable calls (refinement of SlotStore), RAM and flash agree, only erased words are programmed, no error returned |
| `save_recovery` | `MCSaveRecovery` | violated | see below |
| `wifi` | `MCWifi` | holds, 280 987 states | no write past a buffer, the wire carries the frame given, an answer belongs to its command, data arrive in order, a send that succeeded has arrived, the receiver finds the next frame after any loss, a clean command returns |

Several of the properties are conjunctions of named parts, which can be read and
checked one by one:

| property | parts |
|---|---|
| `AllocationIsSound`, `IterationIsSound` (Pool) | `TypeOK`, `NoDoubleAllocation`, `NothingLost`; `IterationSeesHeld`, `FindAgrees` |
| `RefusedAreLeftOut`, `BuffersAreSafe` (DmaQueue) | `RefusedSlipOnlyAs`, `FlushFitsFrame`; `DmaTypeOK`, `SourcesDisjoint` |
| `HeapIsSound`, `DataIsSafe` (Heap) | `TypeOK`, `ChainIsHeld`, `IntegrityHolds`; `DataIntact`, `FreeIsNotData` |
| `PendsEndRight`, `MaskingNests` (Task) | `TimeoutIsExact`, `WokenByPost`, `YieldLastsOneFrame`; `TaskTypeOK`, `CriticalIsQuiet`, `IntsComeBack` |
| `LogIsSound` (SaveMan) | `TypeOK`, `NeverHangs`, `AppendsToErased`, `NoErrors` |
| `RegionIsSound` (Vram) | `TypeOK`, `ChainIsHeld`, `CountsAgree`, `FreeIsFree`, `LargestIsExactOnFailure` |
| `ResourcesBalance`, `TilesHaveOneOwner` (SpriteEng) | `EngineTypeOK`, `ListedUnlessHarmed`, `UsedIsSum`; `TilesAreOwned`, `TilesAreDisjoint` |
| `ListStaysSorted`, `PassIsSound` (SpriteList) | `TypeOK`, `ListIsSound`, `SortedByDepth`; `CursorIsLive`, `PassVisitsAll`, `SatFits` |
| `DisplayIsRight` (SpriteAnim) | `TypeOK`, `PictureIsFrame`, `ShownIsChosen`, `DoneIsLast` |
| `ScrollIsKept`, `FadesComplete` (VBlank) | `TypeOK`, `ScrollIsPending`, `ShownIsSet`; `FadeLands`, `SyncIsComplete` |
| `FramesAreWhole`, `DeliveryIsRight` (Wifi) | `TypeOK`, `StaysInBuffer`, `WireIsGiven`; `ReceivedIsSent`, `SuccessMeansSent` |

The configurations of the passing runs describe a program that keeps to the
conditions under which the component works; each condition is a constant, and a
violated run (or a line below) shows what happens without it:
`ReleaseModes`, `CallbackReleases` (Pool), `SplitsInterior` (Heap), `Lens`,
`CutsInCross`, `InitAfterClear`, `EraseErrSectors` (SaveMan), `CallbackScrolls`,
`WaitsForQueue`, `NumFrames` (VBlank), `CallbackSorts` (SpriteList).
Where the condition is a matter of the moment, a history variable of the module
says so and the property names it as an exception: `changed` (DmaQueue), `harmed`
(SpriteEng), `odd` (SpriteAnim), `stray`, `retaken` and `calls` (SpriteList), `stopped`
when it is `"late"` (Task), `clobbered`, `torn`, `clean` and `refused` (Wifi).
Each exception is reached in its run.

## Bounds, and why they are enough

* Pool: four objects. A release moves two entries (its own and the one at
  `free`); four leave room for objects on both sides of `free`, of the cursor and
  of the released one. The proofs cover every size.
* DmaQueue: at most three calls a frame, queues of two and three entries, a
  buffer of two words, lengths of one and two, a finite and the unlimited
  capacity, banks that do and do not split: overflow of the queue, of the buffer
  and of the capacity each happen first in some behaviour. `WordModulus` is 8, so
  that the counter wraps with the third transfer.
* Heap: nine words and blocks of two and three words: up to four blocks, so
  merges of two and three neighbours, exact fits and remainders occur. Sizes of 1
  and 4 exercise the rounding, 0 the early return. A word is wide enough for a
  header of the whole heap (`HeapSizes`), as 16 bits are for the 64 KB of the
  machine.
* Task: waits of one to three frames with a lock of width 8, two levels of
  nesting. The proofs cover all of them.
* SaveMan: two slots and sectors of 18 words, two full blobs each; every second
  or third save changes sector. A file has three words, and one of the two values
  begins with an erased-looking word, so that recoveries find dirty zones of
  different lengths. A larger instance (20 words,
  two lengths) was searched to 500 000 states, not to its end, without an error.
  The proofs cover all sizes, up to the `MaxSlots` that `sm_init` takes and the
  `MaxSaveLen` whose blob `flash_copy` can report.
* Vram: six tiles and blocks of one to three: up to six blocks, merges of
  several neighbours, exact fits, a `free` on the end mark and on a cleared header.
  `Garbage` is what the heap block holds before: zero, and a word that looks like
  a used block.
* SpriteEng: two objects, three tiles, definitions of one tile and of two (257 is one
  tile and one hardware sprite, 513 and 514 are two tiles with one and two), tiles
  managed by the program, a hardware limit that additions reach: each of the three
  resources runs out first in some behaviour, two sprites of one tile can leave a
  gap on either side, and a definition can change with and without new tiles. The
  proofs cover all pools of at most 128 objects (`MAX_SPRITE` is 80; the bound keeps
  the sum of hardware sprites, of which a definition has at most 255, out of the
  flag bit) and all regions and definitions.
* SpriteList: three sprites and three depths, so that a sprite has neighbours of
  equal, smaller and greater depth; a table that a sprite of two hardware sprites
  overruns. A callback makes up to two list changes: it can release its own
  sprite and take it back, release it and the one behind it, or release one and
  add it again behind the pointer, so every exception is reached. Two changes are
  also what `UpdateReturns` depends on: with one, a pass always ends, with two it
  need not, and the property excepts callbacks that make them. The proofs cover any
  number.
* SpriteAnim: an animation of one frame and one of two, and three calls between
  any updates; timers are short, so all their values occur.
* VBlank: one plane with two values (planes are handled alike and apart), two
  ranges, fades over the whole range of levels in three frames, which does not
  divide it. With a level in the middle too there are 430 008 states and no
  error.
* Wifi: three calls, one of which may time out, one byte lost, one data frame
  that is longer than the receive buffer and contains both the framing byte and
  a byte that looks like an answer, sends of two chunks. A timeout, then a call
  that meets its leftovers, then one that meets theirs, is what three calls are
  for.

## Fairness

* Pool: `UpdateNext`, `CallbackReturns` and `UpdateEnds` are weakly fair: the loop
  is ordinary code, and update methods return.
* DmaQueue: `VBlankDmaTask` is weakly fair: the vertical blank comes every frame
  and the program calls `SYS_doVBlankProcess` in its main loop.
* Task: `VInt` and `VIntReturns` are weakly fair: the display raises the interrupt
  each frame, and the handler returns. `UserYield` and `Trap0Switches` are strongly
  fair: they are a few instructions, and interrupts a frame apart cannot come
  before them for ever. Nothing else is assumed of either task: while the user task
  runs, its own level (4) lets the interrupt (6) in, whatever the supervisor task
  masked before.
* SaveMan, Vram, SpriteEng: safety only.
* SpriteList: `Update` (the loop of `SPR_update` and the return of callbacks) is
  weakly fair. SpriteAnim: the program calls `SPR_update` again and again, and the
  DMA queue, which every blank empties, has room at some of the calls.
* VBlank: the main program goes on; `SYS_doVBlankProcess` is strongly fair, since a
  main loop calls it every frame whatever else it does between; the interrupt's
  process is weakly fair.
* Wifi: the user task polls while the supervisor sleeps, a post goes on to its
  end, the module answers. Nothing is assumed of timeouts.

## Proofs

All proofs are for arbitrary constants.

`PoolProofs`, under `Disciplined` (releases maintain coherency; update methods
release only objects already updated in the pass, their own included). `TypeOK`
and the properties are not inductive; `IInv` adds

* `Inverse`: `index` and `allocStack` are inverse to each other;
* `HeldAbove`: an object is held exactly when its index is at or above `free`;
* `PassBounds`: during a pass `free` is never above the cursor, the cursor and
  the count add up to the size, and the objects still due are those from the
  cursor on;
* `HeldReady` and `Lifetime`: initialised objects, all parts or none.

`ReleaseSwaps` is the central lemma: a coherent release exchanges the released
object with the one at `free`, which keeps `Inverse` and moves exactly one object
below `free`. It needs `ReleaseInside` (a held object exists, so `free` is inside
the stack). The theorems are `PoolInvariant`, `PoolTypes`, `PoolAllocation`
(`AllocationIsSound`), `PoolIteration` (`IterationIsSound`) and `PoolUpdates` (a pass
updates its objects exactly once: `UpdatesExactlyTheDue`, and the action
properties `UpdatesActiveOnce` and `PassMissesNothing`, which only the proof covers).

`InterruptProofs`, of `Task`, unconditional. `TInv` adds to the types that the CPU is with the
user task exactly while the supervisor is blocked, that during a pend the lock
is the frames left (or 0 after a post), and that the nesting count equals the
calls with the right level saved. `WInv` says which traps can still come and what
locks can be left. `StopInv` is for `StoppedNeverRuns`: a task stopped while it waited
has no `task_pc` and the supervisor is in no call (`StoppedWaits`), and a switch whose
`task_pc` is gone met a late stop (`SwitchHasTask`). Theorems: `TaskTypes`, `TaskTimeouts`, `TaskMasking`
(`MaskingNests`), `TaskWakeups` (`PendsEndRight`), `TaskStops` (`StoppedNeverRuns`).

`InterruptProofs`, of `DmaQueue`, unconditional: every queue and buffer size, capacity, length and
counter width. `IInv` has a part that always holds (`BufferInv`: where the regions
of the temporary buffer lie, and that an accepted call has an entry) and one for
the frames in which no setting has changed: `Counted` (the counter is the real
total until it wraps; the limit index stands just before the first transfer that
went over, and what is before it fits), `RefusedStand` and `AcceptedStand` (which
entries the flush will not reach). Without `Counted` the position of the limit
says nothing about what an earlier call was told. Theorems: `DmaInvariant`,
`DmaBuffers` (`BuffersAreSafe`), `DmaAccepted` (`AcceptedArePerformed`), `DmaRefused`
(`RefusedAreLeftOut`).

`SpriteAnimProofs`, unconditional: every sprite definition and any number of
calls. `IInv` is `Sound` (the properties of a sprite with each exception they name,
excused while a frame update is pending) and `Serving` (during the callback of an
update the flag is still set and the frame is the chosen one, or the callback
chose another). Theorems: `AnimInvariant`, `AnimDisplay` (`DisplayIsRight`),
`AnimVisibility` (`VisibilityIsRight`).

`InterruptProofs`, of `VBlank`. `VBlankScroll` (`ScrollIsKept`) assumes `CallbackScrolls = FALSE`: the
only way to lose a bit is that an interrupt callback sets it between the copy of
`VBlankProcess` and the store. `ScrollInv` says that until the main program's
process has served the scroll, its copy has the bit of every pending update, and
that after it nothing is pending. `VBlankFades` (`FadesComplete`) assumes
`WaitsForQueue = TRUE` and fades of at most 128 frames; without either it fails (see
the disagreements). `FadeInv` is `Aims` (the accumulator plus the steps left is within
one level of the goal, and only the current range has colours on their way) and
`Driven` (who takes the fade to its end: the task bit, also in the copy, or the
loop of a synchronous fade). `DivsBounds` bounds the truncating division, which is
where 128 comes from.

`VramProofs`, unconditional, and `HeapProofs`, under `Careful` (`MEM_allocAt` is not
asked for the inside of free space that a used block follows; no size wraps when
rounded). Both allocators keep their headers in the memory that they manage, and
the model walks them with a recursive function. `IInv` says of the set `Chain(.., 0)`
of headers that it is a `Row`: from the first word to the end mark, each header's
size leads to the next, nothing between. To this `Vram` adds that the used blocks of
the row are those held, that `free` is not on or in one, and that after a failure
no two free blocks are adjacent; `Heap` adds `Described` (each block as large as was
asked, every word written inside one) and `Startable` (from where the search may
begin). The argument:

* the walk: `ReachUnfolds` and `ChainUnfolds` show that the recursive function
  satisfies its own equation, `RowChain` and `RowIsChain` that a set which is a row
  is the chain. Each is an induction made by hand, from the least element of a
  set of counterexamples (`NatMin`, from `WFMin`);
* merging: `RunFacts`, `RunCovers`, `RunsApart` describe the rows of adjacent free
  blocks, `PackRow` and `MergedRow` show that writing one header over a run leaves
  a row;
* taking and giving back: `TakeRow`, `FreedRow`, `CutRow`, `SplitKeeps`;
* sizes: `SumCounts` shows that the blocks of a row add up to the region, so that
  what the queries report is exact.

Theorems: `VramRegion` (`RegionIsSound`), `VramImplementsArena` (the refinement:
initial states map to initial states of `Arena`, each step to a step or a
stutter, a failed allocation only to a refusal that `Arena` allows), `HeapChain`
(`HeapIsSound`), `HeapData` (`DataIsSafe`), `HeapFull` (`FailsOnlyWhenFull`).

`VramProofs`, of `SpriteEng`, unconditional. The lemmas about `vram.c` are stated for
any region as `Sound(r, blocks)`, the region whose used blocks are the given ones;
what the sprite engine adds is `Kept(e, G, L)`: the engine of a program that has the
sprites `G`, with `L` on the list. It says that the blocks of the region are those of
`G`, disjoint, that the counter is the number of hardware sprites of `G`, that list
and stack hold `L` and the rest, each once, and that a sprite has its picture in VRAM
or will send it. `EngineInv` is `Kept(eng, given, given)` as long as nothing was harmed,
and the types always. `L` is larger than `G` inside and after a call that the hardware
sprite check refuses (the object left on the list), which is why it is a parameter
of its own: the second try of `SPR_addSpriteExSafe` starts there. Each function of
the source keeps `Kept`, also in compositions (`AddKeeps`, `SafeKeeps`, `ReleaseKeeps`,
`DefinitionKeeps`, `TileIndexKeeps`, `UploadKeeps`). Two arguments are not about one
call:

* `DefragKeeps`: after `i` turns of the loop the region is sound for the sprites
  already served and has no gap (`Compact`: `free` is behind the last block), and the
  tiles of the others are still to be given, so that the allocation of the next one
  cannot fail: together they fitted the region before (`OwnCellsBound`);
* `SafeFits`: the first try fails without changing anything but the order of the
  free blocks, the free tiles are the region less what the sprites own
  (`FreeIsRest`, from `RowCounts`), and in a region without gap that is one block.

Theorems: `EngineBalances` (`ResourcesBalance`), `EngineOwnsTiles` (`TilesHaveOneOwner`),
`EngineSafeAdd` (`SafeAddFits`), `EngineResends` (`WrongPictureIsResent`).

`SpriteListProofs`. `SpriteListSorted` (`ListStaysSorted`) is unconditional: whatever
callbacks add, release or sort, for every number of sprites and all depths. The
invariant `Holds(e, L)` says with the list as a sequence `L` what the pointers should
be: `next` and `prev` lead through `L` in both directions with NULL at its ends, `L` and
the pool's stack share out the sprites, and the depths ascend. `HoldsFollow` shows
that the walk along the pointers yields `L`; `UnlinkedRemoves`, `LinkedAfterInserts`
and `SortSorts` what unlinking, insertion and `sortSprite` do to `L`, the last for a
list with one sprite out of place.

`SpriteListFrames` (`NoFrameIsPending`) is unconditional too. Its invariant `FInv` adds
that the sprite whose callback runs has a frame unless it was retaken, so that the
flag which the end of `updateFrame` clears is missed by nobody else.

`SpriteListPass` (`PassIsSound`) assumes that no callback sorts (`CallbackSorts = FALSE`;
sorting makes the pass skip or repeat sprites), and nothing of how many calls they
make. `PInv` has `Seen` (what has been visited is the first part of the list, in order)
and `Stands` (where the pointer is in `L`, also when the sprite's own callback has
released it: then its old `next` is still the sprite that followed). Both hold until
the pass has gone `stray`, which is exactly when that `next` stops being in the list or
the object is put in it elsewhere; the bound of the table holds always.
`StrayedFacts`, `AddingFacts` and `ReleasingFacts` say what the calls of a callback do to
the pass; `PassAdds` and `PassReleases`, the two long cases, that `Stands` survives them.

`WifiProofs`, unconditional: every buffer size, every length up to the 12 bits of a
frame, any number of calls, of bytes lost and of timeouts. `TypeInv` is the types and
`StaysInBuffer`. The others are about what is on the line:

* `WireInv`: what has been sent of a frame is a beginning of it, and the buffer still
  holds the data that the frame was given.
* `SendInv` (for `SuccessMeansSent`): a clean send has its chunk on the way with all
  those before it arrived, or this one arrived too and the wake-up still to come.
* `LinkInv` and `MetaInv` (for `ReceivedIsSent`): until a byte is lost, the receiver is
  in step with the line, and the buffer holds the data from the offset at which it
  was opened.
* `TrackInv` (for `AnswerIsOwn`): until a byte is lost or a frame refused, the line is a
  row of frames, answers and data, with the receiver inside the first; no more
  answers are on it than were asked for, and each carries the number of the
  command that waits.

Theorems: `FramesAreWholeHolds`, `DeliveryIsRightHolds`, `AnswerIsOwnHolds`,
`TakesNextFrameHolds`, named after the properties. The attempt to prove `AnswerIsOwn`
for any number of calls corrected it: see the refused frame below.

`SaveManProofs`, under `Careful`: `CutsInCross = FALSE`, `InitAfterClear = TRUE`,
`EraseErrSectors = {}` and no length that is a multiple of four. Each of the four
excludes one disagreement listed below; `ImplementsSlotStore` also needs even
lengths (`EvenLens`), since an odd one loses its last byte. All else is arbitrary:
sizes, number of slots, values, calls, and power cuts, those during `sm_init`
included.

* `LogAt`: the blobs of a sector stand one after the other from the beginning of
  its data up to an end; `Clean` and `Dirty` are what may follow, nothing or a blob
  that is not done. `Sound` (one of them holds in the sector that would be probed)
  is what a power cut may leave. `WalkIsLog` shows that the recursive walk of
  `slot_pos_update` meets exactly the blobs of the log: its function is shown to
  exist by the least set closed under the walk, so no induction over data is
  needed. `BlobAddrsAre` then gives the blob of each slot.
* `RamOK`: between calls the RAM has the sector, the end and the blobs of the log,
  and the other sector is erased.
* A call under way is not followed point by point. `Run(f, ops, g, R)` says that the
  chip can do the operations `ops` one by one, from flash `f` to `g`, each by a step
  of the relation `R`; `Safe(c)` are the steps after which the flash is sound and has
  the files as before or as call `c` wants them. `SaveInv` says that the operations
  left of the call under way are such a run, at whose end `RamOK` holds with the
  RAM of `result` and the call has taken effect. Then a flash operation only takes
  the first step of a run off (`RunHead`), and what is left to prove is one run for
  each call, from its start: `AppendRun`, `DeleteRun`, `ClearRun`, `InitRun` (the
  recovery) and `CrossRun` (the move to the other sector: an invariant of the copying
  loop, `CopyInv`, then the magic number, after whose second word the new sector or
  still the old one is probed, according to which is the first).

Theorems: `SaveInvariant`, `LoadsStoredHolds` (`LoadsStored`), `LogIsSoundHolds`
(`LogIsSound`) and `SaveManImplementsSlotStore` (`ImplementsSlotStore`), in which a
step of the flash that changes the files is the `Commit` of SlotStore.

Only model-checked: every liveness property, and with them `TasksAreDone`, since
fairness and ENABLED are outside the prover's reach.

## Disagreements between code and documentation

With a run:

* `save_recovery`: `erase_check` counts one word too many, so a cut just before
  the header of a save whose length is a multiple of four makes `last_addr` 0, and
  the next save programs the start of the ROM.

Met while modelling, without a run of their own. Where a constant is named, the
module with that value shows it:

* DMA: when the frame's first transfer alone exceeds the capacity, the limit
  index becomes 0, which the flush reads as "not reached": the call returned
  FALSE and the transfer is performed (`RefusedSlipOnlyAs` names it).
* `MEM_allocAt` strictly inside free space that a used block follows writes the
  whole run's size at the wanted block; the chain jumps past the used block and
  `MEM_checkIntegrity` fails (`SplitsInterior = TRUE`, `IntegrityHolds`).
* A vertical interrupt between the clear and the trap of `TSK_superPost(TRUE)`
  leaves a trap that ends the next `TSK_superPend` (the exception of `WokenByPost`).
* `TSK_PEND_FOREVER` is counted down; `tst` clears the carry that the following
  `bcs` tests.
* A cut while blobs are copied to the new sector leaves it dirty;
  `savedata_probe` erases it only if it has part of a magic number
  (`CutsInCross = TRUE`, `NeverHangs`).
* `sm_clear` leaves `last_addr` and `blob_addr`; the next save is lost at the next
  restart (`InitAfterClear = FALSE`, `ImplementsSlotStore`).
* Mixing `POOL_release(.., FALSE)` and `POOL_release(.., TRUE)`: the stale index of
  the first misleads the second, and an object is handed out twice (`Pool` with
  `ReleaseModes = {TRUE, FALSE}`). `pool.h` names iteration as the only loss.
* `OBJ_updateAll` with methods that release objects not updated yet: an object is
  updated after its release and another one twice or not at all
  (`CallbackReleases = "any"`).
* `OBJ_create` does not clear the object, although `object.h` says so.
* `TSK_stop` from the user task or from a callback that interrupted it is undone
  by the next context switch, which stores `task_pc`.
* `TSK_stop` from an interrupt's callback between the test of `task_pc` in
  `TSK_userYield` or `TSK_superPend` (`task.s:93`, `104`) and the masking of the
  interrupts (`task.s:111`): line 129 pushes the cleared `task_pc`, and the CPU goes
  to address 0 in user mode (the exception `stopped = "late"` of `StoppedNeverRuns`).
* `DMA_queueDma` leaves the first half of a bank-split transfer queued when the
  second is refused; `DMA_initEx` with capacity 0 means 0 while
  `DMA_setMaxTransferSize(0)` means unlimited; `queueTransferSize` wraps at 64 KB;
  changing strategy or capacity between queueing and flush breaks promises
  already given (`changed`).
* `MEM_allocAt` returns a pointer two bytes after the address asked for;
  `MEM_alloc` of more than 65 532 bytes wraps to a tiny block.
* `saveman.h` speaks of "arbitrary data lengths", but `flash_copy` returns its length
  as a signed 16 bit number, so a blob of 32 768 bytes or more is saved, cannot be
  moved to the other sector, and every save that needs the move fails; `sm_load`
  returns a negative number for it (excluded by `MaxSaveLen`).
* `sm_save` of an odd length loses its last byte (`Lens = {3}`). With sectors
  smaller than 64 KB, an erase that succeeded is reported as `SM_STAT_HW_ERR`
  (`EraseErrSectors = {0, 1}`). `sm_load` accepts `slot = num_slots`. `sm_delete`
  does not disable interrupts, although `saveman.h` says that all calls but
  `sm_load` do.
* Sprites: an addition refused by the hardware sprite check leaves its object in
  the list, because `releaseSprite` skips objects not yet marked allocated.
  `SPR_setDefinition` that finds no tiles returns FALSE with the old tiles already
  freed and the count changed; `SPR_setVRAMTileIndex(-1)` that finds none leaves the
  automatic flag set. `sprite_eng.h` says that sprites are not visible by default,
  the code shows them.
* A frame callback that releases its sprite and adds one gets the same object
  back, whose request for a first frame the end of `updateFrame` then clears
  (the exception `retaken` of `NoFrameIsPending`), and the pass goes on from where the
  object now stands. One that releases its sprite and then the one behind it leaves
  the pass on a released sprite, since `releaseSprite` does not change the `next` of
  the first (`stray`, the exception of `PassIsSound`). One that releases a sprite and
  adds it again behind the pointer, each time, keeps `SPR_update` going (the
  exception of `UpdateReturns`). A depth set in a callback makes the pass
  skip or repeat sprites (`CallbackSorts = TRUE`, `PassVisitsAll`). A frame chosen in
  the callback is forgotten and leaves the timer at 0, so the animation stops.
  `loadTiles` does not notice that the DMA queue refused it.
* A scroll set by the interrupt callback while the main program is inside the
  process is lost until the next one (`CallbackScrolls = TRUE`, `ScrollIsPending`).
  A fade started right after another ended sends the first colours of the new
  one to the range of the old (`WaitsForQueue = FALSE`, `FadeLands`). Fades of more
  than 128 frames may end off their target (`NumFrames = {200}`); `fadeEndPal`,
  saved for this, is never used.
* MegaWiFi: `mw_command` sends from and receives into the same buffer, so network
  data that arrive before the command has left overwrite it on the wire. After a
  timeout in the middle of a frame, the rest of it goes to the next call's buffer
  at the old position. `mw_send_sync` does not look at what `lsd_send` returns and
  counts a refused chunk as sent at the next post. The answer of a command that
  timed out is taken for that of the next. Errors of a frame are ignored by
  `cmd_recv_cb`, so that only the timeout ends the call. `cmd_data_cb` is never
  set: data received during a command are dropped. `lsd_send` of length 0 sends one
  byte of data. A frame refused because its channel is not enabled leaves the
  receiver waiting for STX in the middle of that frame; a data byte 0x7E then starts
  a frame of its own, and a later command, sent with nothing lost, may take what
  follows for its answer (`refused`, the exception of `AnswerIsOwn`).

## What is not modelled

`components` in `PROJECT.json` lists every part with its reason. In short: the
register writes of the VDP, the sound chips and battery RAM are pure I/O; the Z80
drivers are cycle-timed mixers; tables are generated; host tools, the compiler
tool chain and its headers are other programs kept in the repository. In the
modelled parts: immediate DMA transfers, `memset` and `memcpy`, the stack guard of
`MEM_checkIntegrity`, horizontal and external interrupts, the CFI query of
`flash_init`, calls rejected for bad parameters, attribute bits of sprites and
which of a sprite's hardware sprites are on the screen, and the commands of
`megawifi.c` that differ only in their payload.

Hazards that no property covers, besides those `hazards` notes as such:
`MEM_alloc` failing in `DMA_initEx` after the old queue was freed (`dma.c:80`; the
model takes the heap's answer as success), `SYS_enableInts` without its
`SYS_disableInts` (`sys.c:853`; calls are balanced in the model), the fields a
recycled object keeps (`object.c:45`), and odd lengths in `flash_program`
(`flash.c:169`; the runs save even ones).

## Plan

In this order, each with its properties and, where the argument is inductive,
its proof module:

1. `Z80Bus` and `SoundCommands`: nested bus requests, driver loading, command
   bytes shared with the Z80.
2. `Bitmap` (the double buffer flipped by the interrupt), `Map` (window updates),
   `Timers`, `LinkCable`, `Mapper`, joypad callbacks, the chains of `vdp_spr.c`.
3. The lemmas that `VramProofs`, `HeapProofs` and `SpriteListProofs` have in common
   (least elements, rows of headers, sums) moved to a module of their own.
4. `Heap` under `DmaQueue` and `Pool`: what happens when a reallocation fails after
   the old block was given back.
