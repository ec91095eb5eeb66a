------------------------------ MODULE SpriteAnim ------------------------------
(***************************************************************************)
(* The life of one active sprite of sprite_eng.c: its animation and timer, *)
(* the flags NEED_FRAME_UPDATE, NEED_VISIBILITY_UPDATE, NEED_TILES_UPLOAD  *)
(* and STATE_ANIMATION_DONE by which the calls of the program ask the next *)
(* SPR_update for work, the tiles it has in VRAM, and what SPR_update puts *)
(* into the sprite table.  The update of a frame is put off while the DMA  *)
(* queue has no capacity for its tiles, and calls a callback of the        *)
(* program half-way.                                                       *)
(***************************************************************************)
EXTENDS Integers

CONSTANTS
  NumAnimation,  \* animations of the definition
  numFrame,      \* [Animations -> bytes], frames of each
  loopFrame,     \* the frame from which each starts again
  frameTimer,    \* [Frames -> bytes], updates that each frame lasts
  MaxCalls       \* calls the program makes, at most

MaxByte == 255

\* The byte at the address of NULL->timer: the second of the vector table, whose
\* first long is the top of the stack, 0xE1000000 in md.ld.
NullTimer == 0
Off == -1
NULL == <<0, 0>>

Animations == 1 .. NumAnimation
Frames == {f \in Animations \X (1 .. MaxByte) : f[2] <= numFrame[f[1]]}

\* The SpriteDefinition, as the resource compiler makes it.
ASSUME AnimAssumption ==
  /\ NumAnimation \in Nat \ {0} /\ MaxCalls \in Nat
  /\ numFrame \in [Animations -> 1 .. MaxByte]
  /\ loopFrame \in [Animations -> 1 .. MaxByte]
  /\ \A a \in Animations : loopFrame[a] <= numFrame[a]
  /\ frameTimer \in [Frames -> 0 .. MaxByte]

\* The fields of a sprite: see `spr'.
Sprite ==
  [anim : Animations, ind : 1 .. MaxByte, frame : Frames \cup {NULL}, timer : Off .. MaxByte,
   need : BOOLEAN, needVis : BOOLEAN, upload : BOOLEAN, done : BOOLEAN, loop : BOOLEAN,
   autoUp : BOOLEAN, delay : BOOLEAN, autoVis : BOOLEAN, vis : BOOLEAN]

VARIABLES
  spr,   \* anim, ind: animInd and frameInd; frame; timer
         \* need, needVis, upload, done: the bits of the status
         \* loop, autoUp, delay, autoVis: the settings, as bits of the status
         \* vis: is visibility not 0?
  vram,  \* the frame whose tiles are in VRAM at the sprite's place
  table, \* the frame that the sprite table shows, NULL for none
  onScreen,  \* is the sprite's position on the screen?
  pc,    \* "idle", or who waits for the callback: "update" or "isVisible"
  calls, \* calls made
  odd    \* what the program or a full queue did to this sprite's picture:
         \* "manual": auto upload was off, "dropped": DMA_queueDma failed,
         \* "callback": the callback changed the frame

vars == <<spr, vram, table, onScreen, pc, calls, odd>>

-----------------------------------------------------------------------------
(* Functions of the sprite *)

\* SPR_setAnimAndFrame, and with one of the two unchanged SPR_setAnim and
\* SPR_setFrame.
FrameChosenKeepsTimer(s, a, f) ==
  IF s.anim = a /\ s.ind = f THEN s
  ELSE [s EXCEPT !.anim = a, !.ind = f, !.need = TRUE]

FrameChosen(s, a, f) ==
  IF s.anim = a /\ s.ind = f THEN s
  ELSE [s EXCEPT !.anim = a, !.ind = f, !.timer = IF @ > 0 THEN 0 ELSE @, !.need = TRUE]

NextFrame(s) ==
  IF s.ind < numFrame[s.anim] THEN FrameChosen(s, s.anim, s.ind + 1)
  ELSE IF ~s.loop THEN s
  ELSE FrameChosen([s EXCEPT !.done = TRUE], s.anim, loopFrame[s.anim])

\* The timer at the start of a visit.
Ticked(s) ==
  IF s.timer <= 0 THEN s
  ELSE IF s.timer = 1 THEN NextFrame(s) ELSE [s EXCEPT !.timer = @ - 1]

Delayed(s, full) == s.autoUp /\ s.delay /\ full

\* updateFrame up to the callback, and from there on.
DelayedFrame(s) == [s EXCEPT !.frame = IF @ = NULL THEN <<s.anim, s.ind>> ELSE @]

FrameBegun(s) ==
  LET f == <<s.anim, s.ind>>
  IN [s EXCEPT !.frame = f, !.timer = IF @ = Off THEN Off ELSE frameTimer[f]]

FrameEndedUploadsNot(s) ==
  [s EXCEPT !.needVis = @ \/ s.autoVis, !.need = FALSE, !.done = FALSE]

FrameEnded(s) ==
  [s EXCEPT !.upload = @ \/ s.autoUp, !.needVis = @ \/ s.autoVis,
            !.need = FALSE, !.done = FALSE]

\* updateVisibility, by what it computes.
VisibilityUpdated(s) ==
  IF s.needVis THEN [s EXCEPT !.vis = onScreen, !.needVis = FALSE] ELSE s

SPR_isAnimationDone(s) ==
  s.done \/ (s.ind = numFrame[s.anim] /\ s.timer \in {1, Off})

-----------------------------------------------------------------------------
(* SPR_update and SPR_isVisible *)

\* The rest of SPR_update: visibility, tiles, table.  The result of the call
\* of DMA_queueDma in loadTiles is not looked at.
Finish(s, fits) ==
  LET v == VisibilityUpdated(s)
      loads == v.vis /\ v.upload
  IN /\ spr' = [v EXCEPT !.upload = @ /\ ~loads]
     /\ vram' = IF loads /\ fits THEN v.frame ELSE vram
     /\ table' = IF v.vis THEN v.frame ELSE NULL
     /\ odd' = IF ~loads THEN odd
               ELSE (odd \ ({"dropped"} \cup (IF v.autoUp THEN {"manual"} ELSE {})))
                      \cup (IF fits THEN {} ELSE {"dropped"})

SPR_update(full, fits) ==
  LET s == Ticked(spr)
  IN /\ pc = "idle"
     /\ IF s.need /\ ~Delayed(s, full)
        THEN /\ spr' = FrameBegun(s)
             /\ pc' = "update"
             /\ UNCHANGED <<vram, table, odd>>
        ELSE Finish(IF s.need THEN DelayedFrame(s) ELSE s, fits) /\ UNCHANGED pc
     /\ UNCHANGED <<onScreen, calls>>

\* SPR_isVisible(sprite, TRUE) does the pending frame update itself.
SPR_isVisible(full) ==
  /\ pc = "idle" /\ spr.needVis /\ calls < MaxCalls
  /\ calls' = calls + 1
  /\ IF spr.need /\ ~Delayed(spr, full)
     THEN spr' = FrameBegun(spr) /\ pc' = "isVisible"
     ELSE /\ spr' = VisibilityUpdated(IF spr.need THEN DelayedFrame(spr) ELSE spr)
          /\ UNCHANGED pc
  /\ UNCHANGED <<vram, table, onScreen, odd>>

\* The frame change callback may choose another frame: the request is then
\* cleared with the one being served.
CallbackSetsFrame(f) ==
  /\ pc # "idle" /\ calls < MaxCalls
  /\ spr' = FrameChosen(spr, f[1], f[2])
  /\ odd' = odd \cup (IF spr' = spr THEN {} ELSE {"callback"})
  /\ calls' = calls + 1
  /\ UNCHANGED <<vram, table, onScreen, pc>>

CallbackReturns(fits) ==
  /\ pc # "idle"
  /\ LET s == FrameEnded(spr)
     IN IF pc = "update" THEN Finish(s, fits)
        ELSE spr' = VisibilityUpdated(s) /\ UNCHANGED <<vram, table, odd>>
  /\ pc' = "idle"
  /\ UNCHANGED <<onScreen, calls>>

-----------------------------------------------------------------------------
(* The program's calls *)

\* A sprite just added by SPR_addSpriteEx, with or without auto visibility.
Init ==
  /\ \E auto \in BOOLEAN :
       spr = [anim |-> 1, ind |-> 1, frame |-> NULL, timer |-> 0, need |-> TRUE,
              needVis |-> FALSE, upload |-> FALSE, done |-> FALSE, loop |-> TRUE,
              autoUp |-> TRUE, delay |-> TRUE, autoVis |-> auto, vis |-> ~auto]
  /\ vram = NULL /\ table = NULL /\ onScreen \in BOOLEAN
  /\ pc = "idle" /\ calls = 0 /\ odd = {}

Call(s) ==
  /\ pc = "idle" /\ calls < MaxCalls
  /\ spr' = s /\ calls' = calls + 1
  /\ UNCHANGED <<table, pc>>

\* A new frame asked for by the program makes up for one that a callback lost.
SPR_setAnimAndFrame(f) ==
  /\ Call(FrameChosen(spr, f[1], f[2]))
  /\ odd' = IF spr' = spr THEN odd ELSE odd \ {"callback"}
  /\ UNCHANGED <<vram, onScreen>>

SPR_nextFrame ==
  /\ Call(NextFrame(spr))
  /\ odd' = IF spr'.need THEN odd \ {"callback"} ELSE odd
  /\ UNCHANGED <<vram, onScreen>>

SPR_setAutoAnimation(value) ==
  /\ Call([spr EXCEPT !.timer =
             IF ~value THEN Off
             ELSE IF @ # Off THEN @
             ELSE IF spr.frame = NULL THEN NullTimer ELSE frameTimer[spr.frame]])
  /\ UNCHANGED <<vram, onScreen, odd>>

SPR_setAnimationLoop(value) ==
  /\ Call([spr EXCEPT !.loop = value])
  /\ UNCHANGED <<vram, onScreen, odd>>

SPR_setAutoTileUpload(value) ==
  /\ Call([spr EXCEPT !.autoUp = value])
  /\ odd' = odd \cup (IF value THEN {} ELSE {"manual"})
  /\ UNCHANGED <<vram, onScreen>>

SPR_setDelayedFrameUpdate(value) ==
  /\ Call([spr EXCEPT !.delay = value])
  /\ UNCHANGED <<vram, onScreen, odd>>

\* SPR_setDefinition, with a definition like the old one.
SPR_setDefinition ==
  /\ Call(FrameChosen([spr EXCEPT !.frame = NULL, !.anim = 0, !.ind = 0], 1, 1))
  /\ odd' = odd \ {"callback"}
  /\ UNCHANGED <<vram, onScreen>>

\* SPR_setVRAMTileIndex or SPR_defragVRAM: another place in VRAM.
TilesMove ==
  /\ Call([spr EXCEPT !.upload = @ \/ spr.autoUp])
  /\ vram' = NULL
  /\ UNCHANGED <<onScreen, odd>>

VisibilitySetNoUpdate(s, value) ==
  IF value = "AUTO" THEN [s EXCEPT !.autoVis = TRUE]
  ELSE [s EXCEPT !.autoVis = FALSE, !.needVis = @ /\ ~s.autoVis, !.vis = value = "VISIBLE"]

VisibilitySet(s, value) ==
  IF value = "AUTO" THEN [s EXCEPT !.needVis = @ \/ ~s.autoVis, !.autoVis = TRUE]
  ELSE [s EXCEPT !.autoVis = FALSE, !.needVis = @ /\ ~s.autoVis, !.vis = value = "VISIBLE"]

SPR_setVisibility(value) ==
  /\ Call(VisibilitySet(spr, value))
  /\ UNCHANGED <<vram, onScreen, odd>>

SPR_setPosition ==
  /\ Call([spr EXCEPT !.needVis = @ \/ spr.autoVis])
  /\ onScreen' = ~onScreen
  /\ UNCHANGED <<vram, odd>>

Calls ==
  \/ \E f \in Frames : SPR_setAnimAndFrame(f)
  \/ SPR_nextFrame
  \/ \E value \in BOOLEAN : SPR_setAutoAnimation(value) \/ SPR_setAnimationLoop(value)
                            \/ SPR_setAutoTileUpload(value) \/ SPR_setDelayedFrameUpdate(value)
  \/ SPR_setDefinition
  \/ TilesMove
  \/ \E value \in {"VISIBLE", "HIDDEN", "AUTO"} : SPR_setVisibility(value)
  \/ SPR_setPosition

Next ==
  \/ \E full, fits \in BOOLEAN : SPR_update(full, fits)
  \/ \E fits \in BOOLEAN : CallbackReturns(fits)
  \/ \E full \in BOOLEAN : SPR_isVisible(full)
  \/ \E f \in Frames : CallbackSetsFrame(f)
  \/ Calls

\* The program updates its sprites again and again, the callback returns, and
\* the DMA queue, emptied at every vertical blank, has room at some update.
Spec == /\ Init /\ [][Next]_vars
        /\ WF_vars(SPR_update(FALSE, TRUE))
        /\ WF_vars(CallbackReturns(TRUE))

-----------------------------------------------------------------------------
(* Properties *)

\* Types of the variables.
TypeOK ==
  /\ spr \in Sprite /\ spr.ind <= numFrame[spr.anim]
  /\ vram \in Frames \cup {NULL} /\ table \in Frames \cup {NULL}
  /\ onScreen \in BOOLEAN /\ pc \in {"idle", "update", "isVisible"}
  /\ calls \in 0 .. MaxCalls /\ odd \subseteq {"manual", "dropped", "callback"}

\* What the sprite table shows has its tiles in VRAM, or the sprite is still
\* waiting for DMA capacity, or will be sent at the next update, however
\* updates are put off and the sprite is hidden, moved or given new tiles
\* meanwhile.  The exceptions are the program's own uploads and an upload that
\* the DMA queue refused, which nothing repeats.
PictureIsFrame ==
  pc = "idle" /\ table = spr.frame /\ table # NULL /\ vram # table =>
    spr.need \/ spr.upload \/ odd \cap {"manual", "dropped"} # {}

\* The frame that is on display is the one last chosen once no update is
\* pending, except that a frame chosen in the callback is forgotten.
ShownIsChosen ==
  pc = "idle" /\ ~spr.need /\ "callback" \notin odd => spr.frame = <<spr.anim, spr.ind>>

\* SPR_isAnimationDone says so only on the last frame of the animation, unless
\* a new frame is already chosen and waiting: STATE_ANIMATION_DONE never
\* survives the update of a frame.
DoneIsLast ==
  pc = "idle" /\ SPR_isAnimationDone(spr) /\ ~spr.need => spr.ind = numFrame[spr.anim]

\* What is displayed, what was chosen and what SPR_isAnimationDone reports go
\* together, with no more exceptions than those named.
DisplayIsRight == TypeOK /\ PictureIsFrame /\ ShownIsChosen /\ DoneIsLast

\* Auto visibility that is not to be computed again is right, unless the first
\* frame is still waiting; no call leaves a sprite hidden on the screen.
VisibilityIsRight ==
  pc = "idle" /\ spr.autoVis /\ ~spr.needVis /\ ~spr.need => spr.vis = onScreen

\* An animation that runs by itself and loops goes on for ever: no order of
\* calls, put-off updates and timers leaves the sprite on one frame.
Runs ==
  /\ spr.timer # Off /\ spr.loop /\ numFrame[spr.anim] > 1
  /\ "callback" \notin odd /\ calls = MaxCalls
AnimationAdvances ==
  \A f \in Frames : (Runs /\ spr.frame = f) ~> (spr.frame # f \/ ~Runs)
=============================================================================
