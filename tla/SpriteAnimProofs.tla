-------------------------- MODULE SpriteAnimProofs --------------------------
(***************************************************************************)
(* Proofs about SpriteAnim for every sprite definition and every number of *)
(* calls: what is displayed has its tiles, is the frame that was chosen    *)
(* last and is visible where it should be, with no more exceptions than    *)
(* the properties name.                                                    *)
(***************************************************************************)
EXTENDS SpriteAnim, TLAPS

\* A sprite s whose tiles in VRAM are those of v, to whose picture o happened
\* and which is on the screen if scr says so.  Each conjunct excuses a sprite whose frame update is pending.
Sound(s, v, o, scr) ==
  /\ s \in Sprite /\ s.ind <= numFrame[s.anim]
  /\ ~s.autoUp => "manual" \in o
  /\ s.frame # NULL /\ v # s.frame /\ ~s.need /\ ~s.upload => "manual" \in o \/ "dropped" \in o
  /\ ~s.need /\ "callback" \notin o => s.frame = <<s.anim, s.ind>>
  /\ s.done /\ ~s.need => s.ind = numFrame[s.anim]
  /\ s.autoVis /\ ~s.needVis /\ ~s.need => s.vis = scr

\* The sprite while the callback of its frame update runs.
Serving(s, o) == s.need /\ (s.frame = <<s.anim, s.ind>> \/ "callback" \in o)

IInv ==
  /\ Sound(spr, vram, odd, onScreen)
  /\ pc # "idle" => Serving(spr, odd)
  /\ vram \in Frames \cup {NULL} /\ table \in Frames \cup {NULL}
  /\ onScreen \in BOOLEAN /\ pc \in {"idle", "update", "isVisible"}
  /\ calls \in 0 .. MaxCalls /\ odd \subseteq {"manual", "dropped", "callback"}

-----------------------------------------------------------------------------
\* A frame of the definition, by its two indexes.
LEMMA FrameOf ==
  ASSUME NEW a \in Animations, NEW i \in 1 .. MaxByte, i <= numFrame[a]
  PROVE  <<a, i>> \in Frames
BY DEF Frames

\* SPR_setAnimAndFrame: the sprite as it was, or an update is pending.
LEMMA ChosenIsSound ==
  ASSUME NEW s \in Sprite, NEW v, NEW o, NEW scr, NEW p, p = o \/ p = o \ {"callback"},
         ~s.autoUp => "manual" \in o,
         NEW a \in Animations, NEW i \in 1 .. MaxByte, i <= numFrame[a],
         ~(s.anim = a /\ s.ind = i)
  PROVE  /\ Sound(FrameChosen(s, a, i), v, p, scr)
         /\ FrameChosen(s, a, i).need /\ FrameChosen(s, a, i).autoUp = s.autoUp
         /\ FrameChosen(s, a, i).frame = s.frame
<1> DEFINE t == IF s.timer > 0 THEN 0 ELSE s.timer
           c == FrameChosen(s, a, i)
<1>1. c = [s EXCEPT !.anim = a, !.ind = i, !.timer = t, !.need = TRUE]
  BY DEF FrameChosen
<1>2. t \in Off .. MaxByte
  BY DEF Sprite, Off, MaxByte
<1> HIDE DEF t, c
<1>3. c \in Sprite /\ c.anim = a /\ c.ind = i /\ c.need = TRUE /\ c.autoUp = s.autoUp
      /\ c.frame = s.frame
  BY <1>1, <1>2 DEF Sprite
<1> QED
  BY <1>3 DEF c, Sound

\* Two frame numbers of an animation.
LEMMA ByteOrder ==
  \A i, n \in 1 .. MaxByte :
    /\ i < n => i + 1 \in 1 .. MaxByte /\ i + 1 <= n /\ i # i + 1
    /\ i <= n /\ ~(i < n) => i = n
BY DEF MaxByte

\* SPR_nextFrame; a frame it chooses makes up for one the callback lost.
LEMMA NextIsSound ==
  ASSUME NEW s, NEW v, NEW o, NEW scr, Sound(s, v, o, scr)
  PROVE  /\ Sound(NextFrame(s), v, o, scr)
         /\ NextFrame(s).need => Sound(NextFrame(s), v, o \ {"callback"}, scr)
<1>1. /\ s \in Sprite /\ s.anim \in Animations /\ s.ind \in 1 .. MaxByte
      /\ s.ind <= numFrame[s.anim] /\ numFrame[s.anim] \in 1 .. MaxByte
      /\ loopFrame[s.anim] \in 1 .. MaxByte /\ loopFrame[s.anim] <= numFrame[s.anim]
      /\ ~s.autoUp => "manual" \in o
  BY AnimAssumption DEF Sound, Sprite
<1>2. CASE s.ind < numFrame[s.anim]
  <2>1. s.ind + 1 \in 1 .. MaxByte /\ s.ind + 1 <= numFrame[s.anim] /\ s.ind # s.ind + 1
    BY <1>1, <1>2, ByteOrder
  <2>2. NextFrame(s) = FrameChosen(s, s.anim, s.ind + 1)
    BY <1>2 DEF NextFrame
  <2> QED
    BY <1>1, <2>1, <2>2, ChosenIsSound
<1>3. CASE ~(s.ind < numFrame[s.anim]) /\ ~s.loop
  <2>1. NextFrame(s) = s
    BY <1>3 DEF NextFrame
  <2>2. s.need => Sound(s, v, o \ {"callback"}, scr)
    BY DEF Sound
  <2> QED
    BY <2>1, <2>2
<1>4. CASE ~(s.ind < numFrame[s.anim]) /\ s.loop
  <2> DEFINE d == [s EXCEPT !.done = TRUE]
  <2>1. NextFrame(s) = FrameChosen(d, s.anim, loopFrame[s.anim])
    BY <1>4 DEF NextFrame
  <2>2. /\ d \in Sprite /\ d.anim = s.anim /\ d.ind = s.ind /\ d.frame = s.frame
        /\ d.autoUp = s.autoUp /\ d.need = s.need /\ d.upload = s.upload
        /\ d.autoVis = s.autoVis /\ d.needVis = s.needVis /\ d.vis = s.vis
    BY <1>1 DEF Sprite
  <2> HIDE DEF d
  <2>3. s.ind = numFrame[s.anim]
    BY <1>1, <1>4, ByteOrder
  <2>4. CASE loopFrame[s.anim] = s.ind
    <3>1. NextFrame(s) = d
      BY <2>1, <2>2, <2>4 DEF FrameChosen
    <3>2. Sound(d, v, o, scr)
      BY <1>1, <2>2, <2>3 DEF Sound
    <3>3. d.need => Sound(d, v, o \ {"callback"}, scr)
      BY <1>1, <2>2, <2>3 DEF Sound
    <3> QED
      BY <3>1, <3>2, <3>3
  <2>5. CASE loopFrame[s.anim] # s.ind
    BY <1>1, <2>1, <2>2, <2>5, ChosenIsSound
  <2> QED
    BY <2>4, <2>5
<1> QED
  BY <1>2, <1>3, <1>4

\* The tick of the timer.
LEMMA TickedIsSound ==
  ASSUME NEW s, NEW v, NEW o, NEW scr, Sound(s, v, o, scr)
  PROVE  Sound(Ticked(s), v, o, scr)
<1>1. s \in Sprite /\ s.timer \in Off .. MaxByte
  BY DEF Sound, Sprite
<1>2. CASE s.timer <= 0
  BY <1>2 DEF Ticked
<1>3. CASE ~(s.timer <= 0) /\ s.timer = 1
  BY <1>3, NextIsSound DEF Ticked
<1>4. CASE ~(s.timer <= 0) /\ s.timer # 1
  <2> DEFINE t == s.timer - 1
             d == [s EXCEPT !.timer = t]
  <2>1. Ticked(s) = d
    BY <1>4 DEF Ticked
  <2>2. t \in Off .. MaxByte
    BY <1>1, <1>4 DEF Off, MaxByte
  <2> HIDE DEF t
  <2>3. /\ d \in Sprite /\ d.anim = s.anim /\ d.ind = s.ind /\ d.frame = s.frame
        /\ d.autoUp = s.autoUp /\ d.need = s.need /\ d.upload = s.upload /\ d.done = s.done
        /\ d.autoVis = s.autoVis /\ d.needVis = s.needVis /\ d.vis = s.vis
    BY <1>1, <2>2 DEF Sprite
  <2> HIDE DEF d
  <2> QED
    BY <2>1, <2>3 DEF Sound
<1> QED
  BY <1>2, <1>3, <1>4

\* updateFrame, up to its callback.
LEMMA BegunIsSound ==
  ASSUME NEW s, NEW v, NEW o, NEW scr, Sound(s, v, o, scr), s.need
  PROVE  Sound(FrameBegun(s), v, o, scr) /\ Serving(FrameBegun(s), o)
<1> DEFINE f == <<s.anim, s.ind>>
           t == IF s.timer = Off THEN Off ELSE frameTimer[f]
           d == [s EXCEPT !.frame = f, !.timer = t]
<1>1. s \in Sprite /\ f \in Frames
  BY FrameOf DEF Sound, Sprite
<1>2. t \in Off .. MaxByte
  BY <1>1, AnimAssumption DEF Off, MaxByte
<1>3. FrameBegun(s) = d
  BY DEF FrameBegun
<1> HIDE DEF t
<1>4. /\ d \in Sprite /\ d.anim = s.anim /\ d.ind = s.ind /\ d.frame = f
      /\ d.autoUp = s.autoUp /\ d.need = s.need
  BY <1>1, <1>2 DEF Sprite
<1> HIDE DEF d
<1> QED
  BY <1>3, <1>4 DEF Sound, Serving

\* updateFrame when it is put off.
LEMMA DelayedIsSound ==
  ASSUME NEW s, NEW v, NEW o, NEW scr, Sound(s, v, o, scr), s.need
  PROVE  Sound(DelayedFrame(s), v, o, scr)
<1> DEFINE f == IF s.frame = NULL THEN <<s.anim, s.ind>> ELSE s.frame
           d == [s EXCEPT !.frame = f]
<1>1. s \in Sprite /\ f \in Frames \cup {NULL}
  BY FrameOf DEF Sound, Sprite
<1>2. DelayedFrame(s) = d
  BY DEF DelayedFrame
<1> HIDE DEF f
<1>3. /\ d \in Sprite /\ d.anim = s.anim /\ d.ind = s.ind /\ d.autoUp = s.autoUp /\ d.need = s.need
  BY <1>1 DEF Sprite
<1> HIDE DEF d
<1> QED
  BY <1>2, <1>3 DEF Sound

\* updateFrame, from its callback on.
LEMMA EndedIsSound ==
  ASSUME NEW s, NEW v, NEW o, NEW scr, Sound(s, v, o, scr), Serving(s, o)
  PROVE  Sound(FrameEnded(s), v, o, scr)
<1> DEFINE d == FrameEnded(s)
<1>1. s \in Sprite /\ s.upload \in BOOLEAN /\ s.autoUp \in BOOLEAN /\ s.needVis \in BOOLEAN
      /\ s.autoVis \in BOOLEAN
  BY DEF Sound, Sprite
<1>2. /\ d \in Sprite /\ d.anim = s.anim /\ d.ind = s.ind /\ d.frame = s.frame
      /\ d.autoUp = s.autoUp /\ d.need = FALSE /\ d.done = FALSE /\ d.autoVis = s.autoVis
      /\ d.upload = (s.upload \/ s.autoUp) /\ d.needVis = (s.needVis \/ s.autoVis)
  BY <1>1 DEF Sprite, FrameEnded
<1> HIDE DEF d
<1>3. d.autoUp \/ d.upload \/ "manual" \in o
  BY <1>2 DEF Sound
<1>4. ~d.upload => "manual" \in o
  BY <1>1, <1>2 DEF Sound
<1>5. d.autoVis => d.needVis
  BY <1>1, <1>2
<1>6. Sound(d, v, o, scr)
  BY <1>2, <1>4, <1>5 DEF Sound, Serving
<1> QED
  BY <1>6 DEF d

\* updateVisibility.
LEMMA VisibilityIsSound ==
  ASSUME NEW s, NEW v, NEW o, onScreen \in BOOLEAN, Sound(s, v, o, onScreen)
  PROVE  Sound(VisibilityUpdated(s), v, o, onScreen)
<1> DEFINE d == [s EXCEPT !.vis = onScreen, !.needVis = FALSE]
<1>1. CASE ~s.needVis
  BY <1>1 DEF VisibilityUpdated
<1>2. CASE s.needVis
  <2>1. VisibilityUpdated(s) = d
    BY <1>2 DEF VisibilityUpdated
  <2>2. /\ d \in Sprite /\ d.anim = s.anim /\ d.ind = s.ind /\ d.frame = s.frame
        /\ d.autoUp = s.autoUp /\ d.need = s.need /\ d.upload = s.upload /\ d.done = s.done
        /\ d.vis = onScreen
    BY DEF Sound, Sprite
  <2> HIDE DEF d
  <2> QED
    BY <2>1, <2>2 DEF Sound
<1> QED
  BY <1>1, <1>2

\* The rest of SPR_update: tiles are loaded, and then they are the frame's, or
\* the DMA queue dropped them.
LEMMA FinishIsSound ==
  ASSUME NEW s, NEW fits \in BOOLEAN, Sound(s, vram, odd, onScreen), onScreen \in BOOLEAN,
         vram \in Frames \cup {NULL}, table \in Frames \cup {NULL},
         odd \subseteq {"manual", "dropped", "callback"}, Finish(s, fits)
  PROVE  /\ Sound(spr', vram', odd', onScreen)
         /\ vram' \in Frames \cup {NULL} /\ table' \in Frames \cup {NULL}
         /\ odd' \subseteq {"manual", "dropped", "callback"}
<1> DEFINE v == VisibilityUpdated(s)
           loads == v.vis /\ v.upload
           u == v.upload /\ ~loads
           d == [v EXCEPT !.upload = u]
           gone == {"dropped"} \cup (IF v.autoUp THEN {"manual"} ELSE {})
           new == IF fits THEN {} ELSE {"dropped"}
<1>1. Sound(v, vram, odd, onScreen)
  BY VisibilityIsSound
<1>2. /\ spr' = d /\ vram' = (IF loads /\ fits THEN v.frame ELSE vram)
      /\ table' = (IF v.vis THEN v.frame ELSE NULL)
      /\ odd' = (IF ~loads THEN odd ELSE (odd \ gone) \cup new)
  BY DEF Finish
<1>3. /\ v \in Sprite /\ v.frame \in Frames \cup {NULL} /\ v.vis \in BOOLEAN
      /\ v.upload \in BOOLEAN /\ v.autoUp \in BOOLEAN
  BY <1>1 DEF Sound, Sprite
<1> HIDE DEF v
<1>4. u \in BOOLEAN
  BY <1>3
<1> HIDE DEF u
<1>5. /\ d \in Sprite /\ d.anim = v.anim /\ d.ind = v.ind /\ d.frame = v.frame
      /\ d.autoUp = v.autoUp /\ d.need = v.need /\ d.upload = u /\ d.done = v.done
      /\ d.autoVis = v.autoVis /\ d.needVis = v.needVis /\ d.vis = v.vis
  BY <1>3, <1>4 DEF Sprite
<1> HIDE DEF d
<1>6. CASE ~loads
  <2>1. u = v.upload
    BY <1>3, <1>6 DEF u
  <2>2. Sound(d, vram, odd, onScreen)
    BY <1>1, <1>5, <2>1 DEF Sound
  <2> QED
    BY <1>2, <1>3, <1>6, <2>2
<1>7. CASE loads
  <2>1. /\ "dropped" \in odd' <=> ~fits
        /\ ~v.autoUp /\ "manual" \in odd => "manual" \in odd'
        /\ "callback" \in odd' <=> "callback" \in odd
    BY <1>2, <1>7
  <2>2. fits => vram' = v.frame
    BY <1>2, <1>7
  <2>3. Sound(d, vram', odd', onScreen)
    BY <1>1, <1>5, <2>1, <2>2 DEF Sound
  <2>4. odd' \subseteq {"manual", "dropped", "callback"}
    BY <1>2, <1>7
  <2> QED
    BY <1>2, <1>3, <2>3, <2>4
<1> QED
  BY <1>6, <1>7

-----------------------------------------------------------------------------
\* A call of the program keeps the invariant when it leaves the sprite sound.
LEMMA CallIsSound ==
  ASSUME IInv, NEW s, Call(s), Sound(s, vram', odd', onScreen'),
         vram' \in Frames \cup {NULL}, onScreen' \in BOOLEAN,
         odd' \subseteq {"manual", "dropped", "callback"}
  PROVE  IInv'
<1>1. calls' \in 0 .. MaxCalls
  BY AnimAssumption DEF IInv, Call
<1>2. pc' = "idle" /\ table' = table /\ spr' = s
  BY DEF Call
<1> QED
  BY <1>1, <1>2 DEF IInv

\* The calls that choose a frame.
LEMMA ChoosingKeeps ==
  ASSUME IInv,
         (\E f \in Frames : SPR_setAnimAndFrame(f)) \/ SPR_nextFrame \/ SPR_setDefinition
  PROVE  IInv'
<1>1. /\ Sound(spr, vram, odd, onScreen) /\ spr \in Sprite
      /\ vram \in Frames \cup {NULL} /\ onScreen \in BOOLEAN
      /\ odd \subseteq {"manual", "dropped", "callback"}
      /\ odd \ {"callback"} \subseteq {"manual", "dropped", "callback"}
      /\ ~spr.autoUp => "manual" \in odd
  BY DEF IInv, Sound
<1>2. ASSUME NEW f \in Frames, SPR_setAnimAndFrame(f) PROVE IInv'
  <2>1. /\ Call(FrameChosen(spr, f[1], f[2])) /\ spr' = FrameChosen(spr, f[1], f[2])
        /\ odd' = IF spr' = spr THEN odd ELSE odd \ {"callback"}
        /\ vram' = vram /\ onScreen' = onScreen
    BY <1>2 DEF SPR_setAnimAndFrame, Call
  <2>2. f[1] \in Animations /\ f[2] \in 1 .. MaxByte /\ f[2] <= numFrame[f[1]]
    BY DEF Frames
  <2>3. CASE spr.anim = f[1] /\ spr.ind = f[2]
    <3>1. FrameChosen(spr, f[1], f[2]) = spr
      BY <2>3 DEF FrameChosen
    <3> QED
      BY <1>1, <2>1, <3>1, CallIsSound
  <2>4. CASE ~(spr.anim = f[1] /\ spr.ind = f[2])
    <3>1. Sound(FrameChosen(spr, f[1], f[2]), vram, odd', onScreen)
      <4>1. odd' = odd \/ odd' = odd \ {"callback"}
        BY <2>1
      <4> QED
        BY <1>1, <2>2, <2>4, <4>1, ChosenIsSound
    <3> QED
      BY <1>1, <2>1, <3>1, CallIsSound
  <2> QED
    BY <2>3, <2>4
<1>3. CASE SPR_nextFrame
  <2>1. /\ Call(NextFrame(spr)) /\ spr' = NextFrame(spr)
        /\ odd' = IF NextFrame(spr).need THEN odd \ {"callback"} ELSE odd
        /\ vram' = vram /\ onScreen' = onScreen
    BY <1>3 DEF SPR_nextFrame, Call
  <2>2. Sound(NextFrame(spr), vram, odd', onScreen)
    BY <1>1, <2>1, NextIsSound
  <2> QED
    BY <1>1, <2>1, <2>2, CallIsSound
<1>4. CASE SPR_setDefinition
  <2> DEFINE d == [spr EXCEPT !.frame = NULL, !.anim = 0, !.ind = 0]
             c == FrameChosen(d, 1, 1)
  <2>1. /\ Call(c) /\ odd' = odd \ {"callback"} /\ vram' = vram /\ onScreen' = onScreen
    BY <1>4 DEF SPR_setDefinition
  <2>2. d.anim = 0 /\ d.timer = spr.timer
    BY <1>1 DEF Sprite
  <2> DEFINE t == IF d.timer > 0 THEN 0 ELSE d.timer
  <2>3. c = [d EXCEPT !.anim = 1, !.ind = 1, !.timer = t, !.need = TRUE]
    BY <2>2 DEF FrameChosen
  <2>4. t \in Off .. MaxByte
    BY <1>1, <2>2 DEF Sprite, Off, MaxByte
  <2>5. 1 \in Animations /\ 1 \in 1 .. MaxByte /\ 1 <= numFrame[1]
    <3>1. 1 \in Animations /\ 1 \in 1 .. MaxByte
      BY AnimAssumption DEF Animations, MaxByte
    <3>2. numFrame[1] \in 1 .. MaxByte
      BY <3>1, AnimAssumption
    <3> QED
      BY <3>1, <3>2 DEF MaxByte
  <2> HIDE DEF t, c
  <2>6. c \in Sprite /\ c.anim = 1 /\ c.ind = 1 /\ c.need = TRUE /\ c.autoUp = spr.autoUp
    BY <1>1, <2>3, <2>4, <2>5 DEF Sprite
  <2>7. Sound(c, vram, odd \ {"callback"}, onScreen)
    BY <1>1, <2>5, <2>6 DEF Sound
  <2> QED
    BY <1>1, <2>1, <2>7, CallIsSound
<1> QED
  BY <1>2, <1>3, <1>4

\* The calls that change a setting, the place of the tiles or the position.
LEMMA SettingKeeps ==
  ASSUME IInv,
         \/ \E value \in BOOLEAN :
              \/ SPR_setAutoAnimation(value) \/ SPR_setAnimationLoop(value)
              \/ SPR_setAutoTileUpload(value) \/ SPR_setDelayedFrameUpdate(value)
         \/ TilesMove
         \/ \E value \in {"VISIBLE", "HIDDEN", "AUTO"} : SPR_setVisibility(value)
         \/ SPR_setPosition
  PROVE  IInv'
<1>1. /\ Sound(spr, vram, odd, onScreen) /\ spr \in Sprite
      /\ vram \in Frames \cup {NULL} /\ onScreen \in BOOLEAN
      /\ odd \subseteq {"manual", "dropped", "callback"}
  BY DEF IInv, Sound
<1>2. ASSUME NEW value \in BOOLEAN, SPR_setAutoAnimation(value) PROVE IInv'
  <2> DEFINE t == IF ~value THEN Off ELSE IF spr.timer # Off THEN spr.timer
                  ELSE IF spr.frame = NULL THEN NullTimer ELSE frameTimer[spr.frame]
             d == [spr EXCEPT !.timer = t]
  <2>1. t \in Off .. MaxByte
    BY <1>1, AnimAssumption DEF Sprite, Off, MaxByte, NullTimer
  <2>2. Call(d) /\ vram' = vram /\ onScreen' = onScreen /\ odd' = odd
    BY <1>2 DEF SPR_setAutoAnimation
  <2> HIDE DEF t
  <2>3. /\ d \in Sprite /\ d.anim = spr.anim /\ d.ind = spr.ind /\ d.frame = spr.frame
        /\ d.autoUp = spr.autoUp /\ d.need = spr.need /\ d.upload = spr.upload
        /\ d.done = spr.done
        /\ d.autoVis = spr.autoVis /\ d.needVis = spr.needVis /\ d.vis = spr.vis
    BY <1>1, <2>1 DEF Sprite
  <2> HIDE DEF d
  <2>4. Sound(d, vram, odd, onScreen)
    BY <1>1, <2>3 DEF Sound
  <2> QED
    BY <1>1, <2>2, <2>4, CallIsSound
<1>3. ASSUME NEW value \in BOOLEAN, SPR_setAnimationLoop(value) PROVE IInv'
  <2> DEFINE d == [spr EXCEPT !.loop = value]
  <2>1. Call(d) /\ vram' = vram /\ onScreen' = onScreen /\ odd' = odd
    BY <1>3 DEF SPR_setAnimationLoop
  <2>2. /\ d \in Sprite /\ d.anim = spr.anim /\ d.ind = spr.ind /\ d.frame = spr.frame
        /\ d.autoUp = spr.autoUp /\ d.need = spr.need /\ d.upload = spr.upload
        /\ d.done = spr.done
        /\ d.autoVis = spr.autoVis /\ d.needVis = spr.needVis /\ d.vis = spr.vis
    BY <1>1 DEF Sprite
  <2> HIDE DEF d
  <2>3. Sound(d, vram, odd, onScreen)
    BY <1>1, <2>2 DEF Sound
  <2> QED
    BY <1>1, <2>1, <2>3, CallIsSound
<1>4. ASSUME NEW value \in BOOLEAN, SPR_setAutoTileUpload(value) PROVE IInv'
  <2> DEFINE d == [spr EXCEPT !.autoUp = value]
  <2>1. /\ Call(d) /\ vram' = vram /\ onScreen' = onScreen
        /\ odd' = odd \cup (IF value THEN {} ELSE {"manual"})
    BY <1>4 DEF SPR_setAutoTileUpload
  <2>2. /\ d \in Sprite /\ d.anim = spr.anim /\ d.ind = spr.ind /\ d.frame = spr.frame
        /\ d.autoUp = value /\ d.need = spr.need /\ d.upload = spr.upload
        /\ d.done = spr.done
        /\ d.autoVis = spr.autoVis /\ d.needVis = spr.needVis /\ d.vis = spr.vis
    BY <1>1 DEF Sprite
  <2> HIDE DEF d
  <2>3. /\ odd \subseteq odd' /\ ("callback" \in odd' <=> "callback" \in odd)
        /\ ~value => "manual" \in odd'
        /\ odd' \subseteq {"manual", "dropped", "callback"}
    BY <1>1, <2>1
  <2>4. Sound(d, vram, odd', onScreen)
    BY <1>1, <2>2, <2>3 DEF Sound
  <2> QED
    BY <1>1, <2>1, <2>3, <2>4, CallIsSound
<1>5. ASSUME NEW value \in BOOLEAN, SPR_setDelayedFrameUpdate(value) PROVE IInv'
  <2> DEFINE d == [spr EXCEPT !.delay = value]
  <2>1. Call(d) /\ vram' = vram /\ onScreen' = onScreen /\ odd' = odd
    BY <1>5 DEF SPR_setDelayedFrameUpdate
  <2>2. /\ d \in Sprite /\ d.anim = spr.anim /\ d.ind = spr.ind /\ d.frame = spr.frame
        /\ d.autoUp = spr.autoUp /\ d.need = spr.need /\ d.upload = spr.upload
        /\ d.done = spr.done
        /\ d.autoVis = spr.autoVis /\ d.needVis = spr.needVis /\ d.vis = spr.vis
    BY <1>1 DEF Sprite
  <2> HIDE DEF d
  <2>3. Sound(d, vram, odd, onScreen)
    BY <1>1, <2>2 DEF Sound
  <2> QED
    BY <1>1, <2>1, <2>3, CallIsSound
<1>6. CASE TilesMove
  <2> DEFINE u == spr.upload \/ spr.autoUp
             d == [spr EXCEPT !.upload = u]
  <2>1. Call(d) /\ vram' = NULL /\ onScreen' = onScreen /\ odd' = odd
    BY <1>6 DEF TilesMove
  <2>2. /\ d \in Sprite /\ d.anim = spr.anim /\ d.ind = spr.ind /\ d.frame = spr.frame
        /\ d.autoUp = spr.autoUp /\ d.need = spr.need /\ d.upload = u
        /\ d.done = spr.done
        /\ d.autoVis = spr.autoVis /\ d.needVis = spr.needVis /\ d.vis = spr.vis
    BY <1>1 DEF Sprite
  <2> HIDE DEF d
  <2>3. ~d.upload => "manual" \in odd
    BY <1>1, <2>2 DEF Sound
  <2>4. Sound(d, NULL, odd, onScreen)
    BY <1>1, <2>2, <2>3 DEF Sound
  <2> QED
    BY <1>1, <2>1, <2>4, CallIsSound
<1>7. ASSUME NEW value \in {"VISIBLE", "HIDDEN", "AUTO"}, SPR_setVisibility(value) PROVE IInv'
  <2> DEFINE auto == value = "AUTO"
             need == IF auto THEN spr.needVis \/ ~spr.autoVis ELSE spr.needVis /\ ~spr.autoVis
             vis == IF auto THEN spr.vis ELSE value = "VISIBLE"
             d == VisibilitySet(spr, value)
  <2>1. Call(d) /\ vram' = vram /\ onScreen' = onScreen /\ odd' = odd
    BY <1>7 DEF SPR_setVisibility
  <2>2. /\ d \in Sprite /\ d.anim = spr.anim /\ d.ind = spr.ind /\ d.frame = spr.frame
        /\ d.autoUp = spr.autoUp /\ d.need = spr.need /\ d.upload = spr.upload
        /\ d.done = spr.done
        /\ d.autoVis = auto /\ d.needVis = need /\ d.vis = vis
    BY <1>1 DEF Sprite, VisibilitySet
  <2> HIDE DEF d
  <2>3. d.autoVis /\ ~d.needVis => spr.autoVis /\ ~spr.needVis /\ d.vis = spr.vis
    BY <2>2
  <2>4. Sound(d, vram, odd, onScreen)
    BY <1>1, <2>2, <2>3 DEF Sound
  <2> QED
    BY <1>1, <2>1, <2>4, CallIsSound
<1>8. CASE SPR_setPosition
  <2> DEFINE n == spr.needVis \/ spr.autoVis
             d == [spr EXCEPT !.needVis = n]
  <2>1. Call(d) /\ vram' = vram /\ onScreen' = ~onScreen /\ odd' = odd
    BY <1>8 DEF SPR_setPosition
  <2>2. /\ d \in Sprite /\ d.anim = spr.anim /\ d.ind = spr.ind /\ d.frame = spr.frame
        /\ d.autoUp = spr.autoUp /\ d.need = spr.need /\ d.upload = spr.upload
        /\ d.done = spr.done /\ d.autoVis = spr.autoVis /\ d.needVis = n
    BY <1>1 DEF Sprite
  <2> HIDE DEF d
  <2>3. ~(d.autoVis /\ ~d.needVis)
    BY <2>2
  <2>4. Sound(d, vram, odd, onScreen')
    BY <1>1, <2>2, <2>3 DEF Sound
  <2> QED
    BY <1>1, <2>1, <2>4, CallIsSound
<1> QED
  BY <1>2, <1>3, <1>4, <1>5, <1>6, <1>7, <1>8

\* The sprite just added: its first frame update is pending.
LEMMA InitIsSound == Init => IInv
<1> SUFFICES ASSUME Init PROVE IInv
  OBVIOUS
<1>1. PICK auto \in BOOLEAN :
        spr = [anim |-> 1, ind |-> 1, frame |-> NULL, timer |-> 0, need |-> TRUE,
               needVis |-> FALSE, upload |-> FALSE, done |-> FALSE, loop |-> TRUE,
               autoUp |-> TRUE, delay |-> TRUE, autoVis |-> auto, vis |-> ~auto]
  BY DEF Init
<1>2. 1 \in Animations /\ 1 \in 1 .. MaxByte /\ 0 \in Off .. MaxByte
  BY AnimAssumption DEF Animations, MaxByte, Off
<1>3. numFrame[1] \in 1 .. MaxByte
  BY <1>2, AnimAssumption
<1>4. 1 <= numFrame[1]
  BY <1>3 DEF MaxByte
<1>5. spr \in Sprite /\ spr.anim = 1 /\ spr.ind = 1 /\ spr.need = TRUE /\ spr.autoUp = TRUE
  BY <1>1, <1>2 DEF Sprite
<1>6. Sound(spr, vram, odd, onScreen)
  BY <1>4, <1>5 DEF Sound
<1> QED
  BY <1>6, AnimAssumption DEF Init, IInv

\* SPR_update and SPR_isVisible, which serve a pending frame update or put it
\* off.
LEMMA UpdateKeeps ==
  ASSUME IInv, NEW full \in BOOLEAN, NEW fits \in BOOLEAN,
         SPR_update(full, fits) \/ SPR_isVisible(full)
  PROVE  IInv'
<1>1. /\ Sound(spr, vram, odd, onScreen) /\ vram \in Frames \cup {NULL}
      /\ table \in Frames \cup {NULL} /\ onScreen \in BOOLEAN
      /\ odd \subseteq {"manual", "dropped", "callback"} /\ calls \in 0 .. MaxCalls
  BY DEF IInv
<1>2. CASE SPR_update(full, fits)
  <2> DEFINE s == Ticked(spr)
  <2>1. Sound(s, vram, odd, onScreen)
    BY <1>1, TickedIsSound
  <2>2. pc = "idle" /\ onScreen' = onScreen /\ calls' = calls
    BY <1>2 DEF SPR_update
  <2>3. CASE s.need /\ ~Delayed(s, full)
    <3>1. spr' = FrameBegun(s) /\ pc' = "update" /\ UNCHANGED <<vram, table, odd>>
      BY <1>2, <2>3 DEF SPR_update
    <3>2. Sound(FrameBegun(s), vram, odd, onScreen) /\ Serving(FrameBegun(s), odd)
      BY <2>1, <2>3, BegunIsSound
    <3> QED
      BY <1>1, <2>2, <3>1, <3>2 DEF IInv
  <2>4. CASE ~(s.need /\ ~Delayed(s, full))
    <3> DEFINE r == IF s.need THEN DelayedFrame(s) ELSE s
    <3>1. Finish(r, fits) /\ pc' = pc
      BY <1>2, <2>4 DEF SPR_update
    <3>2. Sound(r, vram, odd, onScreen)
      BY <2>1, DelayedIsSound
    <3> HIDE DEF r
    <3>3. /\ Sound(spr', vram', odd', onScreen)
          /\ vram' \in Frames \cup {NULL} /\ table' \in Frames \cup {NULL}
          /\ odd' \subseteq {"manual", "dropped", "callback"}
      BY <1>1, <3>1, <3>2, FinishIsSound
    <3> QED
      BY <1>1, <2>2, <3>1, <3>3 DEF IInv
  <2> QED
    BY <2>3, <2>4
<1>3. CASE SPR_isVisible(full)
  <2>1. /\ pc = "idle" /\ calls' \in 0 .. MaxCalls
        /\ UNCHANGED <<vram, table, onScreen, odd>>
    BY <1>1, <1>3, AnimAssumption DEF SPR_isVisible
  <2>2. CASE spr.need /\ ~Delayed(spr, full)
    <3>1. spr' = FrameBegun(spr) /\ pc' = "isVisible"
      BY <1>3, <2>2 DEF SPR_isVisible
    <3>2. Sound(FrameBegun(spr), vram, odd, onScreen) /\ Serving(FrameBegun(spr), odd)
      BY <1>1, <2>2, BegunIsSound
    <3> QED
      BY <1>1, <2>1, <3>1, <3>2 DEF IInv
  <2>3. CASE ~(spr.need /\ ~Delayed(spr, full))
    <3> DEFINE r == IF spr.need THEN DelayedFrame(spr) ELSE spr
    <3>1. spr' = VisibilityUpdated(r) /\ pc' = pc
      BY <1>3, <2>3 DEF SPR_isVisible
    <3>2. Sound(r, vram, odd, onScreen)
      BY <1>1, DelayedIsSound
    <3> HIDE DEF r
    <3>3. Sound(spr', vram, odd, onScreen)
      BY <1>1, <3>1, <3>2, VisibilityIsSound
    <3> QED
      BY <1>1, <2>1, <3>1, <3>3 DEF IInv
  <2> QED
    BY <2>2, <2>3
<1> QED
  BY <1>2, <1>3

\* The frame change callback: it may choose another frame, and returns.
LEMMA CallbackKeeps ==
  ASSUME IInv,
         (\E f \in Frames : CallbackSetsFrame(f)) \/ \E fits \in BOOLEAN : CallbackReturns(fits)
  PROVE  IInv'
<1>1. /\ Sound(spr, vram, odd, onScreen) /\ vram \in Frames \cup {NULL} /\ spr \in Sprite
      /\ table \in Frames \cup {NULL} /\ onScreen \in BOOLEAN
      /\ odd \subseteq {"manual", "dropped", "callback"} /\ calls \in 0 .. MaxCalls
      /\ pc \in {"idle", "update", "isVisible"}
      /\ ~spr.autoUp => "manual" \in odd
  BY DEF IInv, Sound
<1>2. pc # "idle" /\ Serving(spr, odd)
  BY DEF IInv, CallbackSetsFrame, CallbackReturns
<1>3. ASSUME NEW f \in Frames, CallbackSetsFrame(f) PROVE IInv'
  <2>1. /\ spr' = FrameChosen(spr, f[1], f[2]) /\ calls' \in 0 .. MaxCalls
        /\ odd' = odd \cup (IF spr' = spr THEN {} ELSE {"callback"})
        /\ UNCHANGED <<vram, table, onScreen, pc>>
    BY <1>1, <1>3, AnimAssumption DEF CallbackSetsFrame
  <2>2. f[1] \in Animations /\ f[2] \in 1 .. MaxByte /\ f[2] <= numFrame[f[1]]
    BY DEF Frames
  <2>3. CASE spr' = spr
    <3>1. odd' = odd
      BY <2>1, <2>3
    <3> QED
      BY <1>1, <1>2, <2>1, <2>3, <3>1 DEF IInv
  <2>4. CASE spr' # spr
    <3>1. ~(spr.anim = f[1] /\ spr.ind = f[2])
      BY <2>1, <2>4 DEF FrameChosen
    <3>2. /\ "callback" \in odd' /\ ("manual" \in odd => "manual" \in odd')
          /\ odd' \subseteq {"manual", "dropped", "callback"}
      BY <1>1, <2>1, <2>4
    <3>3. Sound(spr', vram, odd', onScreen) /\ spr'.need
      BY <1>1, <2>1, <2>2, <3>1, <3>2, ChosenIsSound
    <3>4. Serving(spr', odd')
      BY <3>2, <3>3 DEF Serving
    <3> QED
      BY <1>1, <2>1, <3>2, <3>3, <3>4 DEF IInv
  <2> QED
    BY <2>3, <2>4
<1>4. ASSUME NEW fits \in BOOLEAN, CallbackReturns(fits) PROVE IInv'
  <2> DEFINE s == FrameEnded(spr)
  <2>1. Sound(s, vram, odd, onScreen)
    BY <1>1, <1>2, EndedIsSound
  <2>2. pc' = "idle" /\ onScreen' = onScreen /\ calls' = calls
    BY <1>4 DEF CallbackReturns
  <2>3. CASE pc = "update"
    <3>1. Finish(s, fits)
      BY <1>4, <2>3 DEF CallbackReturns
    <3> HIDE DEF s
    <3>2. /\ Sound(spr', vram', odd', onScreen)
          /\ vram' \in Frames \cup {NULL} /\ table' \in Frames \cup {NULL}
          /\ odd' \subseteq {"manual", "dropped", "callback"}
      BY <1>1, <2>1, <3>1, FinishIsSound
    <3> QED
      BY <1>1, <2>2, <3>2 DEF IInv
  <2>4. CASE pc # "update"
    <3>1. spr' = VisibilityUpdated(s) /\ UNCHANGED <<vram, table, odd>>
      BY <1>4, <2>4 DEF CallbackReturns
    <3> HIDE DEF s
    <3>2. Sound(spr', vram, odd, onScreen)
      BY <1>1, <2>1, <3>1, VisibilityIsSound
    <3> QED
      BY <1>1, <2>2, <3>1, <3>2 DEF IInv
  <2> QED
    BY <2>3, <2>4
<1> QED
  BY <1>3, <1>4

-----------------------------------------------------------------------------
\* The inductive invariant holds of every reachable state.
THEOREM AnimInvariant == Spec => []IInv
<1>1. Init => IInv
  BY InitIsSound
<1>2. IInv /\ [Next]_vars => IInv'
  <2> SUFFICES ASSUME IInv, [Next]_vars PROVE IInv'
    OBVIOUS
  <2>1. CASE UNCHANGED vars
    BY <2>1 DEF IInv, vars
  <2>2. ASSUME NEW full \in BOOLEAN, NEW fits \in BOOLEAN, SPR_update(full, fits) PROVE IInv'
    BY <2>2, UpdateKeeps
  <2>3. ASSUME NEW full \in BOOLEAN, SPR_isVisible(full) PROVE IInv'
    BY <2>3, UpdateKeeps
  <2>4. CASE Calls
    BY <2>4, ChoosingKeeps, SettingKeeps DEF Calls
  <2> QED
    BY <2>1, <2>2, <2>3, <2>4, CallbackKeeps DEF Next
<1> QED
  BY <1>1, <1>2, PTL DEF Spec

\* Whatever updates are put off for want of DMA capacity and whatever the
\* callback does, what SPR_update displays has its tiles, is the frame chosen
\* last, and SPR_isAnimationDone says so on the last frame.
THEOREM AnimDisplay == Spec => []DisplayIsRight
<1>1. IInv => TypeOK
  BY DEF IInv, Sound, TypeOK
<1>2. IInv => PictureIsFrame
  <2> SUFFICES ASSUME IInv, spr.frame # NULL, vram # spr.frame, ~spr.need, ~spr.upload
               PROVE  odd \cap {"manual", "dropped"} # {}
    BY DEF PictureIsFrame
  <2>1. "manual" \in odd \/ "dropped" \in odd
    BY DEF IInv, Sound
  <2> QED
    BY <2>1
<1>3. IInv => ShownIsChosen /\ DoneIsLast
  BY DEF IInv, Sound, ShownIsChosen, DoneIsLast, SPR_isAnimationDone
<1> QED
  BY <1>1, <1>2, <1>3, AnimInvariant, PTL DEF DisplayIsRight

\* No order of calls leaves a sprite with automatic visibility hidden on the
\* screen or shown off it once no update is pending.
THEOREM AnimVisibility == Spec => []VisibilityIsRight
<1>1. IInv => VisibilityIsRight
  BY DEF IInv, Sound, VisibilityIsRight
<1> QED
  BY <1>1, AnimInvariant, PTL
=============================================================================
