------------------------------ MODULE SpriteList ------------------------------
(***************************************************************************)
(* The list of active sprites of sprite_eng.c and the pass of SPR_update   *)
(* over it.  The list is doubly linked and sorted by depth; SPR_update     *)
(* walks it with a plain pointer while the frame change callbacks of the   *)
(* program release, add and reorder sprites under it.                      *)
(*                                                                         *)
(* The pointers are those of the source, with firstSprite and lastSprite   *)
(* as the next and the previous sprite of NULL: the source's `if (prev)    *)
(* prev->next = next; else firstSprite = next' is then one assignment.     *)
(* What a sprite needs of VRAM is in SpriteEng, its animation in           *)
(* SpriteAnim; here a frame change may come at any time.                   *)
(***************************************************************************)
EXTENDS Integers, Sequences, FiniteSets, SequencesExt

CONSTANTS
  MaxSprite,      \* capacity of the pool
  MinDepth, MaxDepth,
  SatMax,         \* SAT_MAX_SIZE
  MaxNumSprite,   \* hardware sprites of a frame, at most
  CallbackCalls,  \* calls that change the list in one callback, at most
  CallbackSorts   \* may callbacks call SPR_setDepth?

ASSUME ListAssumption ==
  /\ MaxSprite \in Nat \ {0} /\ SatMax \in Nat /\ MaxNumSprite \in Nat \ {0}
  /\ MinDepth \in Int /\ MaxDepth \in Int /\ MinDepth <= MaxDepth
  /\ CallbackCalls \in Nat /\ CallbackSorts \in BOOLEAN

Slots == 1 .. MaxSprite
NULL == 0
Pointers == Slots \cup {NULL}

VARIABLES
  eng,  \* next, prev: the list
        \* depth, alloc, frame (is it set?), need (NEED_FRAME_UPDATE): the sprites
        \* stack: the objects of the pool, the next one last
  upd   \* pc: "idle", "visit" or "callback"; cur: the sprite pointer;
        \* satInd: vdpSpriteInd - 1; calls: made by this callback
        \* there: the sprites active since the pass began (history)
        \* walked: those of them that the pass visited, in order (history)
        \* stray: did a callback of this pass that had released its own
        \* sprite take it back or release the one behind it? (history)
        \* retaken: the sprites that were taken back so, until they have a
        \* frame (history)

vars == <<eng, upd>>

-----------------------------------------------------------------------------
(* The list *)

\* The sprites from p on, following the pointers f.
Follow(f, p) ==
  LET at[n \in 0 .. MaxSprite] ==
        LET from(q) == IF q = NULL THEN NULL ELSE f[q]
        IN IF n = 0 THEN p ELSE from(at[n - 1])
  IN [i \in 1 .. Cardinality({n \in 0 .. MaxSprite : at[n] # NULL}) |-> at[i - 1]]

Listed(e) == Follow(e.next, e.next[NULL])

\* Removing s from the list, in releaseSprite and in moveAfter.
UnlinkedOneSided(e, s) ==
  [e EXCEPT !.prev[e.next[s]] = e.prev[s],
            !.next[NULL] = IF e.prev[s] = NULL THEN e.next[s] ELSE @]

Unlinked(e, s) ==
  [e EXCEPT !.next[e.prev[s]] = e.next[s], !.prev[e.next[s]] = e.prev[s]]

\* Inserting s behind pos, in allocateSprite and in moveAfter.
LinkedAfter(e, pos, s) ==
  LET n == e.next[pos]
  IN [e EXCEPT !.next = [@ EXCEPT ![s] = n, ![pos] = s],
               !.prev = [@ EXCEPT ![s] = pos, ![n] = s]]

moveAfter(e, pos, s) == LinkedAfter(Unlinked(e, s), pos, s)

\* The first sprite of path that stops a search.
FirstThat(path, Stops(_)) ==
  LET stops == {i \in DOMAIN path : Stops(path[i])}
  IN IF stops = {} THEN NULL ELSE path[Min(stops)]

Forward(e, p, sdepth) ==
  FirstThat(Follow(e.next, p), LAMBDA q : e.depth[q] >= sdepth)
Backward(e, p, sdepth) ==
  FirstThat(Follow(e.prev, p), LAMBDA q : e.depth[q] <= sdepth)

sortSprite(e, s) ==
  LET f == Forward(e, e.next[s], e.depth[s])
      b == Backward(e, e.prev[s], e.depth[s])
  IN IF f # e.next[s] THEN moveAfter(e, e.prev[f], s)
     ELSE IF b # e.prev[s] THEN moveAfter(e, b, s) ELSE e

\* SPR_addSpriteEx as far as the list goes: allocateSprite, the fields, and
\* SPR_setAnimAndFrame, which asks for a frame update.
AddedNoFrame(e, head) ==
  LET s == Last(e.stack)
  IN [LinkedAfter(e, IF head THEN NULL ELSE e.prev[NULL], s) EXCEPT
        !.stack = Front(@), !.alloc[s] = TRUE, !.frame[s] = FALSE, !.need[s] = FALSE,
        !.depth[s] = IF head THEN MinDepth ELSE MaxDepth]

Added(e, head) ==
  LET s == Last(e.stack)
  IN [LinkedAfter(e, IF head THEN NULL ELSE e.prev[NULL], s) EXCEPT
        !.stack = Front(@), !.alloc[s] = TRUE, !.frame[s] = FALSE, !.need[s] = TRUE,
        !.depth[s] = IF head THEN MinDepth ELSE MaxDepth]

\* releaseSprite leaves the object's fields and its own pointers as they are.
\* The depth, which nothing reads before SPR_addSpriteEx sets it again, is
\* forgotten here.
releaseSprite(e, s) ==
  IF ~e.alloc[s] THEN e
  ELSE [Unlinked(e, s) EXCEPT !.stack = Append(@, s), !.alloc[s] = FALSE,
                              !.depth[s] = MinDepth]

DepthSet(e, s, value) ==
  IF e.depth[s] = value THEN e ELSE sortSprite([e EXCEPT !.depth[s] = value], s)

ResetEngine ==
  [next |-> [p \in Pointers |-> NULL], prev |-> [p \in Pointers |-> NULL],
   depth |-> [s \in Slots |-> MinDepth], alloc |-> [s \in Slots |-> FALSE],
   frame |-> [s \in Slots |-> FALSE], need |-> [s \in Slots |-> FALSE],
   stack |-> [i \in Slots |-> i]]

-----------------------------------------------------------------------------
(* The program's calls, from the main loop and from callbacks *)

Idle == [pc |-> "idle", cur |-> NULL, satInd |-> 0, calls |-> 0,
         there |-> {}, walked |-> <<>>, stray |-> FALSE,
         retaken |-> {}]

Init == eng = ResetEngine /\ upd = Idle

\* One call of the program that changes the list.
MayCall == upd.pc = "idle" \/ (upd.pc = "callback" /\ upd.calls < CallbackCalls)
Called(u) == IF u.pc = "callback" THEN [u EXCEPT !.calls = @ + 1] ELSE u

\* The pointer stands on a sprite that its callback has released.
CurReleased == upd.pc = "callback" /\ ~eng.alloc[upd.cur]

\* The pass has lost its way: nothing more is recorded of it.
Strayed(u) == [u EXCEPT !.stray = TRUE, !.there = {}, !.walked = <<>>]

SPR_addSprite(head) ==
  /\ MayCall /\ eng.stack # <<>>
  /\ eng' = Added(eng, head)
  /\ upd' = IF CurReleased /\ Last(eng.stack) = upd.cur
            THEN [Strayed(Called(upd)) EXCEPT !.retaken = @ \cup {upd.cur}]
            ELSE Called(upd)

SPR_releaseSprite(s) ==
  /\ MayCall /\ eng.alloc[s]
  /\ eng' = releaseSprite(eng, s)
  /\ LET u == [Called(upd) EXCEPT !.there = @ \ {s}, !.retaken = @ \ {s}]
     IN upd' = IF CurReleased /\ eng.next[upd.cur] = s THEN Strayed(u) ELSE u

SPR_setDepth(s, value) ==
  /\ MayCall /\ eng.alloc[s]
  /\ upd.pc = "callback" => CallbackSorts
  /\ eng' = DepthSet(eng, s, value)
  /\ upd' = Called(upd)

SPR_reset ==
  /\ upd.pc = "idle"
  /\ eng' = ResetEngine
  /\ upd' = Idle

-----------------------------------------------------------------------------
(* SPR_update, sprite by sprite *)

SPR_update ==
  /\ upd.pc = "idle"
  /\ upd' = [Idle EXCEPT !.pc = "visit", !.cur = eng.next[NULL],
                        !.there = ToSet(Listed(eng)), !.retaken = upd.retaken]
  /\ UNCHANGED eng

\* Hardware sprites that a visible sprite writes to the table.
Written(e, u, shown, n) ==
  IF shown /\ e.alloc[u.cur] /\ u.satInd + 1 <= SatMax THEN n ELSE 0

\* A second visit of a sprite is the last one recorded.
Walked(u) ==
  IF u.cur \in u.there /\ IsInjective(u.walked) THEN Append(u.walked, u.cur) ELSE u.walked

\* The end of a visit: the table entries, and the next pointer, as it is now.
AdvancedStopsAtReleased(e, u, shown, n) ==
  [u EXCEPT !.pc = "visit", !.cur = IF e.alloc[@] THEN e.next[@] ELSE NULL, !.calls = 0,
            !.walked = Walked(u), !.satInd = @ + Written(e, u, shown, n)]

AdvancedRound(e, u, shown, n) ==
  [u EXCEPT !.pc = "visit", !.cur = IF e.next[@] = NULL THEN e.next[NULL] ELSE e.next[@],
            !.calls = 0, !.walked = Walked(u), !.satInd = @ + Written(e, u, shown, n)]

Advanced(e, u, shown, n) ==
  [u EXCEPT !.pc = "visit", !.cur = e.next[@], !.calls = 0,
            !.walked = Walked(u), !.satInd = @ + Written(e, u, shown, n)]

\* updateFrame sets the frame and calls onFrameChange, with the status stored.
FrameSet(e, s) == [e EXCEPT !.frame[s] = TRUE, !.need[s] = TRUE]

\* The timer of the sprite may have elapsed (SPR_nextFrame); the update of a
\* frame may be delayed for want of DMA capacity.
Visit ==
  /\ upd.pc = "visit" /\ upd.cur # NULL
  /\ \E elapsed, delayed, shown \in BOOLEAN, n \in 1 .. MaxNumSprite :
       IF ~eng.need[upd.cur] /\ ~elapsed
       THEN upd' = Advanced(eng, upd, shown, n) /\ UNCHANGED eng
       ELSE /\ eng' = FrameSet(eng, upd.cur)
            /\ LET u == [upd EXCEPT !.retaken = @ \ {upd.cur}]
               IN upd' = IF delayed THEN Advanced(eng', u, shown, n)
                         ELSE [u EXCEPT !.pc = "callback"]

\* The rest of updateFrame, on the status as the callback left it.
CallbackReturns ==
  /\ upd.pc = "callback"
  /\ eng' = [eng EXCEPT !.need[upd.cur] = FALSE]
  /\ \E shown \in BOOLEAN, n \in 1 .. MaxNumSprite : upd' = Advanced(eng', upd, shown, n)

UpdateEnds ==
  /\ upd.pc = "visit" /\ upd.cur = NULL
  /\ upd' = [Idle EXCEPT !.retaken = upd.retaken]
  /\ UNCHANGED eng

Update == Visit \/ CallbackReturns \/ UpdateEnds

Next ==
  \/ \E head \in BOOLEAN : SPR_addSprite(head)
  \/ \E s \in Slots : SPR_releaseSprite(s)
  \/ \E s \in Slots, value \in MinDepth .. MaxDepth : SPR_setDepth(s, value)
  \/ SPR_reset
  \/ SPR_update
  \/ Update

\* The callbacks return: they are the program's, and their calls are bounded.
Spec == Init /\ [][Next]_vars /\ WF_vars(Update)

-----------------------------------------------------------------------------
(* Properties *)

\* Types of the variables.
TypeOK ==
  /\ eng.next \in [Pointers -> Pointers] /\ eng.prev \in [Pointers -> Pointers]
  /\ eng.depth \in [Slots -> MinDepth .. MaxDepth]
  /\ eng.alloc \in [Slots -> BOOLEAN] /\ eng.frame \in [Slots -> BOOLEAN]
  /\ eng.need \in [Slots -> BOOLEAN] /\ eng.stack \in Seq(Slots)
  /\ upd.pc \in {"idle", "visit", "callback"} /\ upd.cur \in Pointers
  /\ upd.calls \in 0 .. CallbackCalls /\ upd.satInd \in Nat
  /\ upd.walked \in Seq(Slots) /\ upd.there \subseteq Slots
  /\ upd.stray \in BOOLEAN /\ upd.retaken \subseteq Slots

\* The list from its first sprite is the one from its last sprite backwards,
\* and holds every sprite that is in use, once, and nothing else.
ListIsSound ==
  /\ Listed(eng) = Reverse(Follow(eng.prev, eng.prev[NULL]))
  /\ ToSet(Listed(eng)) = {s \in Slots : eng.alloc[s]}
  /\ ToSet(eng.stack) = {s \in Slots : ~eng.alloc[s]}
  /\ Len(Listed(eng)) + Len(eng.stack) = MaxSprite

\* A sprite is displayed in front of those of greater depth at any time, also
\* those added at either end, which are not sorted in (SPR_setDepth's "need to
\* be done immediately to get consistent sort").
SortedByDepth ==
  \A i, j \in DOMAIN Listed(eng) :
    i < j => eng.depth[Listed(eng)[i]] <= eng.depth[Listed(eng)[j]]

\* The list is whole and in order between any two calls, in callbacks too.
ListStaysSorted == TypeOK /\ ListIsSound /\ SortedByDepth

\* The pointer of the pass never stands on a sprite that was released before
\* its visit, although the pass goes on from sprites that their own callback
\* released, and callbacks release the sprites ahead.
CursorIsLive == upd.pc = "visit" /\ upd.cur # NULL => eng.alloc[upd.cur]

\* At the end of a pass every sprite that was active throughout was visited
\* once, and in the order of the list, whatever the callbacks added or released.
PassVisitsAll ==
  upd.pc = "visit" /\ upd.cur = NULL =>
    LET w == upd.walked
        list == Listed(eng)
        there == upd.there
    IN /\ there \subseteq ToSet(w)
       /\ \A k, l \in DOMAIN w :
            k < l /\ w[k] \in there /\ w[l] \in there =>
              \E i, j \in DOMAIN list : i < j /\ list[i] = w[k] /\ list[j] = w[l]

\* The pass stays inside vdpSpriteCache, which has room for one sprite more
\* than the table of the hardware.
SatFits == upd.satInd < SatMax + MaxNumSprite

\* A pass of SPR_update reads only sprites in use, misses none, and writes only
\* inside the table, whatever its callbacks add and release.  Except for the
\* table, that ends with a callback that released its own sprite and then took
\* it back or released the one behind it: the pass goes on from the `next' of
\* the object it stands on.
PassIsSound == SatFits /\ (~upd.stray => CursorIsLive /\ PassVisitsAll)

\* A sprite in use that has no frame yet is waiting for one: SPR_update, which
\* reads the frame of every visible sprite, never meets a NULL frame.  Except
\* for a sprite that its own callback released and added again: the rest of
\* updateFrame clears the flag of the new one.
NoFrameIsPending ==
  \A s \in Slots \ upd.retaken : eng.alloc[s] /\ ~eng.frame[s] => eng.need[s]

\* SPR_update returns although callbacks add sprites behind the pointer, when
\* no callback makes two calls: one that releases a sprite and adds it again
\* behind the pointer can keep the pass going.
UpdateReturns == (upd.pc # "idle") ~> (upd.pc = "idle" \/ upd.calls > 1)
=============================================================================
