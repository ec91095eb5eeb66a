-------------------------- MODULE InterruptProofs --------------------------
(***************************************************************************)
(* Proofs about the three parts that the vertical interrupt drives, for    *)
(* every value of their constants.                                         *)
(*                                                                         *)
(* VBlank: no scroll value set for the blank is lost when no callback sets *)
(* one during the process, and every fade of at most 128 frames ends on    *)
(* its target when the program lets the last colours be sent first.        *)
(*                                                                         *)
(* Task: the lock of the user task counts what is left of its wait, and    *)
(* the nesting of the interrupt mask what the supervisor task asked for.   *)
(*                                                                         *)
(* DmaQueue: what the queue accepts is performed, what it refuses is left  *)
(* out but for the two known traces, and the temporary buffer is never     *)
(* overrun nor a source in it overwritten.                                 *)
(***************************************************************************)
EXTENDS VBlank, Task, DmaQueue, TLAPS

-----------------------------------------------------------------------------
(***************************************************************************)
(* The vertical blank process (VBlank)                                     *)
(***************************************************************************)

\* The accumulator of a fade stays in range to its last step.
FadeFits(s) ==
  /\ s.counter > 0 => s.range \in Ranges
  /\ s.acc + s.counter * s.step \in Fixed

TypeInv ==
  /\ TypeOK /\ FadeFits(st)
  /\ mpc \in {"update", "task"} => arg \in Planes
  /\ last \in {"none", "async", "sync"}

InProcess == mpc \in {"scroll", "fade", "store"}

\* The main program's process has the task bit of every pending update in its
\* copy until it serves them.
ScrollInv ==
  /\ ScrollIsPending /\ ShownIsSet
  /\ mpc = "scroll" => (st.update # {} => "scroll" \in vbp)
  /\ mpc \in {"fade", "store"} => st.update = {}

\* The last step of the fade shows level g.
Heads(s, g) ==
  /\ s.counter > 0 => s.acc + s.counter * s.step >= g * 256
                      /\ s.acc + s.counter * s.step <= g * 256 + 255
  /\ s.counter = 0 => s.pal = g

\* Only the current range has colours on the way, and heads for its goal; the
\* other ranges have theirs.
Aims ==
  /\ st.queue \subseteq {st.range}
  /\ \A r \in Ranges : goal[r] # NoGoal /\ r # st.range => st.cram[r] = goal[r]
  /\ st.range \in Ranges /\ goal[st.range] # NoGoal =>
       /\ Heads(st, goal[st.range])
       /\ st.counter = 0 /\ st.queue = {} => st.cram[st.range] = goal[st.range]

\* Who brings a fade to its end: the task bit, or the loop of a synchronous
\* fade, which no process touches.
Driven ==
  /\ last = "none" => \A r \in Ranges : goal[r] = NoGoal
  /\ last = "async" /\ st.counter > 0 /\ goal[st.range] # NoGoal
       => "fade" \in st.bits /\ (InProcess => "fade" \in vbp)
  /\ last = "sync" =>
       /\ st.range \in Ranges /\ goal[st.range] # NoGoal
       /\ "fade" \notin st.bits /\ (InProcess => "fade" \notin vbp)
       /\ st.counter > 0 <=> ret = "step"
       /\ mpc # "flush" => st.queue = {}
  /\ ret = "step" => last = "sync" /\ mpc \in {"flush", "scroll", "fade", "store", "step"}
  /\ mpc = "step" => ret = "step"

FadeInv == Aims /\ Driven

-----------------------------------------------------------------------------
(* Arithmetic *)

\* A multiple is further from zero than its factor, on the same side.
LEMMA Multiples ==
  \A c \in Nat \ {0}, x \in Int :
    /\ c * x \in Int /\ (c - 1) * x = c * x - x
    /\ x >= 0 => x <= c * x
    /\ x <= 0 => c * x <= x
OBVIOUS

\* DIVS: n steps of the quotient stay on this side of a, by less than n.
LEMMA DivsBounds ==
  ASSUME NEW a \in Int, NEW n \in Nat \ {0}
  PROVE  /\ divs(a, n) \in Int /\ n * divs(a, n) \in Int
         /\ a >= 0 => n * divs(a, n) >= 0 /\ n * divs(a, n) <= a /\ n * divs(a, n) > a - n
         /\ a <= 0 => n * divs(a, n) <= 0 /\ n * divs(a, n) >= a /\ n * divs(a, n) < a + n
BY DEF divs

\* The level that an accumulator shows.
LEMMA LevelShown ==
  /\ \A a \in Nat : Level(a) \in Component
  /\ \A g \in 0 .. 7, a \in Int : a >= g * 256 /\ a <= g * 256 + 255 => Level(a) = g
BY DEF Level, Component

\* One of c steps from acc by x: it stays within the bounds of both ends.
LEMMA OneStep ==
  ASSUME NEW acc \in Fixed, NEW x \in Int, NEW c \in Nat, c > 0, acc + c * x \in Fixed
  PROVE  /\ acc + x \in Fixed /\ (acc + x) % 65536 = acc + x
         /\ ((acc + x) % 65536) + (c - 1) * x = acc + c * x
<1>1. /\ c * x \in Int /\ (c - 1) * x = c * x - x
      /\ x >= 0 => x <= c * x
      /\ x <= 0 => c * x <= x
  BY Multiples
<1> DEFINE m == c * x
<1> HIDE DEF m
<1>2. acc + m \in Fixed /\ m \in Int /\ (x >= 0 => x <= m) /\ (x <= 0 => m <= x)
  BY <1>1 DEF m
<1>3. acc + x \in Fixed
  BY <1>2 DEF Fixed
<1> DEFINE z == acc + x
<1>4. z % 65536 = z
  <2>1. z \in Int /\ z >= 0 /\ z < 65536
    BY <1>3 DEF Fixed
  <2> HIDE DEF z
  <2> QED
    BY <2>1
<1>5. acc + x + (m - x) = acc + m /\ (c - 1) * x = m - x
  BY <1>1, <1>2 DEF Fixed, m
<1> QED
  BY <1>3, <1>4, <1>5 DEF m, z

-----------------------------------------------------------------------------
(* What the steps do, field by field *)

\* What a step of the process that is not about scrolling leaves alone.
SameScroll(s, t) == t.hscroll = s.hscroll /\ t.update = s.update /\ t.shown = s.shown

\* What a step that is not about fading leaves alone.
SameFade(s, t) ==
  /\ t.counter = s.counter /\ t.range = s.range /\ t.acc = s.acc /\ t.step = s.step
  /\ t.pal = s.pal

\* PAL_doFadeStep brings the accumulator one step on, exactly.
LEMMA SteppedFields ==
  ASSUME NEW s \in Shared, FadeFits(s)
  PROVE  LET t == FadeStepped(s)
         IN /\ t \in Shared /\ FadeFits(t)
            /\ SameScroll(s, t) /\ t.bits = s.bits /\ t.cram = s.cram /\ t.range = s.range
            /\ s.counter = 0 => t = s
            /\ s.counter > 0 =>
                 /\ t.counter = s.counter - 1 /\ t.step = s.step
                 /\ t.acc = s.acc + s.step /\ t.pal = Level(t.acc)
                 /\ t.acc + t.counter * t.step = s.acc + s.counter * s.step
                 /\ t.queue = s.queue \cup {s.range}
<1> DEFINE a == (s.acc + s.step) % 65536
           t == FadeStepped(s)
<1>1. s.counter \in Nat /\ s.acc \in Fixed /\ s.step \in Int /\ s.queue \subseteq Ranges
  BY DEF Shared
<1>2. CASE s.counter = 0
  BY <1>1, <1>2 DEF FadeStepped, SameScroll
<1>3. CASE s.counter > 0
  <2>1. s.acc + s.counter * s.step \in Fixed /\ s.range \in Ranges
    BY <1>3 DEF FadeFits
  <2>2. /\ s.acc + s.step \in Fixed /\ a = s.acc + s.step
        /\ a + (s.counter - 1) * s.step = s.acc + s.counter * s.step
    BY <1>1, <1>3, <2>1, OneStep
  <2> HIDE DEF a
  <2>5. t = [s EXCEPT !.acc = a, !.pal = Level(a), !.queue = s.queue \cup {s.range},
                      !.counter = s.counter - 1]
    BY <1>1, <1>3 DEF FadeStepped, a
  <2>6. /\ Level(a) \in Component /\ a \in Fixed /\ s.counter - 1 \in Nat
        /\ s.queue \cup {s.range} \in SUBSET Ranges
    <3>1. a \in Fixed /\ a \in Nat
      BY <2>2 DEF Fixed
    <3>2. s.counter - 1 \in Nat
      BY <1>1, <1>3
    <3>3. s.queue \cup {s.range} \in SUBSET Ranges
      BY <1>1, <2>1
    <3> QED
      BY <3>1, <3>2, <3>3, LevelShown
  <2> HIDE DEF t
  <2>7. /\ t \in Shared /\ t.acc = a /\ t.pal = Level(a) /\ t.queue = s.queue \cup {s.range}
        /\ t.counter = s.counter - 1 /\ t.step = s.step /\ t.range = s.range
        /\ t.hscroll = s.hscroll /\ t.update = s.update /\ t.shown = s.shown
        /\ t.bits = s.bits /\ t.cram = s.cram
    BY <2>5, <2>6 DEF Shared
  <2>8. t.acc + t.counter * t.step = s.acc + s.counter * s.step
    BY <2>2, <2>7
  <2>9. FadeFits(t)
    BY <2>1, <2>7, <2>8 DEF FadeFits
  <2> QED
    BY <1>3, <2>2, <2>7, <2>8, <2>9 DEF t, SameScroll
<1> QED
  BY <1>1, <1>2, <1>3

\* PAL_initFade heads for the destination; with at most 128 frames it reaches
\* the level itself.
LEMMA InitedFields ==
  ASSUME NEW s \in Shared, NEW r \in Ranges, NEW src \in Levels, NEW dst \in Levels,
         NEW n \in NumFrames
  PROVE  LET t == FadeInited(s, r, src, dst, n)
         IN /\ t \in Shared /\ FadeFits(t)
            /\ SameScroll(s, t) /\ t.bits = s.bits /\ t.cram = s.cram
            /\ t.range = r /\ t.counter = n /\ n > 0 /\ t.queue = s.queue \cup {r}
            /\ n <= 128 => Heads(t, dst)
<1> DEFINE t == FadeInited(s, r, src, dst, n)
           d == dst * 256 - src * 256
           q == divs(d, n)
           a == src * 256 + 127
<1>1. src \in 0 .. 7 /\ dst \in 0 .. 7 /\ n \in Nat \ {0}
  BY VBlankAssumption
<1>2. d \in Int /\ a \in Fixed /\ src \in Component
  BY <1>1 DEF Fixed, Component
<1>3. /\ q \in Int /\ n * q \in Int
      /\ d >= 0 => n * q >= 0 /\ n * q <= d /\ n * q > d - n
      /\ d <= 0 => n * q <= 0 /\ n * q >= d /\ n * q < d + n
  BY <1>1, <1>2, DivsBounds
<1>4. /\ a + n * q \in Fixed
      /\ n <= 128 => a + n * q >= dst * 256 /\ a + n * q <= dst * 256 + 255
  <2> HIDE DEF q
  <2> QED
    BY <1>1, <1>3 DEF Fixed
<1>5. t = [s EXCEPT !.range = r, !.counter = n, !.pal = src, !.acc = a, !.step = q,
                    !.queue = s.queue \cup {r}]
  BY DEF FadeInited, PALETTEFADE_ROUND_VAL
<1> HIDE DEF q, a, t
<1>6. /\ t \in Shared /\ t.acc = a /\ t.queue = s.queue \cup {r}
      /\ t.counter = n /\ t.step = q /\ t.range = r
      /\ t.hscroll = s.hscroll /\ t.update = s.update /\ t.shown = s.shown
      /\ t.bits = s.bits /\ t.cram = s.cram
  BY <1>1, <1>2, <1>3, <1>5 DEF Shared
<1>7. FadeFits(t) /\ (n <= 128 => Heads(t, dst))
  BY <1>1, <1>4, <1>6 DEF FadeFits, Heads
<1> QED
  BY <1>1, <1>6, <1>7 DEF t, SameScroll

\* The copy of the bits and the flush of the DMA queue.
LEMMA FlushFields ==
  ASSUME NEW s \in Shared, FadeFits(s)
  PROVE  LET p == DoFlush(s)
         IN /\ p.st \in Shared /\ FadeFits(p.st) /\ p.vbp = s.bits /\ p.vbp \subseteq Bits
            /\ SameScroll(s, p.st) /\ SameFade(s, p.st) /\ p.st.bits = s.bits
            /\ p.st.queue = {}
            /\ \A r \in Ranges : p.st.cram[r] = IF r \in s.queue THEN s.pal ELSE s.cram[r]
<1> DEFINE c == [r \in Ranges |-> IF r \in s.queue THEN s.pal ELSE s.cram[r]]
           p == DoFlush(s)
<1>1. s.cram \in [Ranges -> Component] /\ s.pal \in Component /\ s.bits \subseteq Bits
  BY DEF Shared
<1>2. c \in [Ranges -> Component] /\ {} \in SUBSET Ranges
  BY <1>1
<1>3. p = [st |-> [s EXCEPT !.cram = c, !.queue = {}], vbp |-> s.bits]
  BY DEF DoFlush
<1>4. p.st = [s EXCEPT !.cram = c, !.queue = {}] /\ p.vbp = s.bits
  BY <1>3
<1> HIDE DEF p
<1>5. \A r \in Ranges : c[r] = IF r \in s.queue THEN s.pal ELSE s.cram[r]
  OBVIOUS
<1> HIDE DEF c
<1>6. /\ p.st \in Shared /\ p.st.cram = c /\ p.st.queue = {}
      /\ p.st.hscroll = s.hscroll /\ p.st.update = s.update /\ p.st.shown = s.shown
      /\ p.st.counter = s.counter /\ p.st.range = s.range /\ p.st.acc = s.acc
      /\ p.st.step = s.step /\ p.st.pal = s.pal /\ p.st.bits = s.bits
  BY <1>2, <1>4 DEF Shared
<1>7. FadeFits(p.st)
  BY <1>6 DEF FadeFits
<1> QED
  BY <1>1, <1>4, <1>5, <1>6, <1>7 DEF p, SameScroll, SameFade

\* VDP_doVBlankScrollProcess.
LEMMA ScrollFields ==
  ASSUME NEW p, p.st \in Shared, p.vbp \subseteq Bits, FadeFits(p.st)
  PROVE  LET t == DoScroll(p)
         IN /\ t.st \in Shared /\ FadeFits(t.st) /\ t.vbp \subseteq Bits
            /\ "scroll" \notin p.vbp => t = p
            /\ "scroll" \in p.vbp =>
                 /\ t.st.update = {} /\ t.st.hscroll = p.st.hscroll
                 /\ \A q \in Planes : t.st.shown[q] = IF q \in p.st.update THEN p.st.hscroll[q]
                                                      ELSE p.st.shown[q]
            /\ SameFade(p.st, t.st) /\ t.st.bits = p.st.bits
            /\ t.st.queue = p.st.queue /\ t.st.cram = p.st.cram
            /\ "fade" \in t.vbp <=> "fade" \in p.vbp
<1>1. CASE "scroll" \notin p.vbp
  BY <1>1 DEF DoScroll, SameFade
<1>2. CASE "scroll" \in p.vbp
  <2> DEFINE s == p.st
             h == [q \in Planes |-> IF q \in s.update THEN s.hscroll[q] ELSE s.shown[q]]
             t == DoScroll(p)
  <2>1. s.hscroll \in [Planes -> Values] /\ s.shown \in [Planes -> Values]
    BY DEF Shared
  <2>2. h \in [Planes -> Values] /\ {} \in SUBSET Planes
    BY <2>1
  <2>3. t = [st |-> [s EXCEPT !.shown = h, !.update = {}], vbp |-> p.vbp \ {"scroll"}]
    BY <1>2 DEF DoScroll
  <2>4. t.st = [s EXCEPT !.shown = h, !.update = {}] /\ t.vbp = p.vbp \ {"scroll"}
    BY <2>3
  <2> HIDE DEF t
  <2>5. \A q \in Planes : h[q] = IF q \in s.update THEN s.hscroll[q] ELSE s.shown[q]
    OBVIOUS
  <2> HIDE DEF h
  <2>6. /\ t.st \in Shared /\ t.st.shown = h /\ t.st.update = {}
        /\ t.st.hscroll = s.hscroll
        /\ t.st.counter = s.counter /\ t.st.range = s.range /\ t.st.acc = s.acc
        /\ t.st.step = s.step /\ t.st.pal = s.pal /\ t.st.bits = s.bits
        /\ t.st.queue = s.queue /\ t.st.cram = s.cram
    BY <2>2, <2>4 DEF Shared
  <2>7. FadeFits(t.st)
    BY <2>6 DEF FadeFits
  <2>8. t.vbp \subseteq Bits /\ ("fade" \in t.vbp <=> "fade" \in p.vbp)
    BY <2>4
  <2> QED
    BY <1>2, <2>5, <2>6, <2>7, <2>8 DEF t, SameFade
<1> QED
  BY <1>1, <1>2

\* The fade of the process, and its bit in the copy.
FadeDone(p, t) ==
  /\ t.st \in Shared /\ FadeFits(t.st) /\ t.vbp \subseteq Bits
  /\ SameScroll(p.st, t.st) /\ t.st.bits = p.st.bits
  /\ t.st.cram = p.st.cram /\ t.st.range = p.st.range
  /\ "fade" \notin p.vbp => t = p
  /\ "fade" \in p.vbp => /\ t.st = FadeStepped(p.st)
                         /\ "fade" \in t.vbp <=> t.st.counter > 0

LEMMA FadeFields ==
  ASSUME NEW p, p.st \in Shared, p.vbp \subseteq Bits, FadeFits(p.st)
  PROVE  FadeDone(p, DoFade(p))
<1> DEFINE t == DoFade(p)
<1>1. CASE "fade" \notin p.vbp
  BY <1>1 DEF DoFade, SameScroll, FadeDone
<1>2. CASE "fade" \in p.vbp
  <2>1. t = [st |-> FadeStepped(p.st),
             vbp |-> IF FadeGoesOn(p.st) THEN p.vbp ELSE p.vbp \ {"fade"}]
    BY <1>2 DEF DoFade
  <2>2. /\ t.st = FadeStepped(p.st)
        /\ t.vbp = IF FadeGoesOn(p.st) THEN p.vbp ELSE p.vbp \ {"fade"}
    BY <2>1
  <2>3. FadeGoesOn(p.st) <=> t.st.counter > 0
    BY <2>2 DEF FadeGoesOn
  <2> HIDE DEF t
  <2>4. /\ t.st \in Shared /\ FadeFits(t.st) /\ SameScroll(p.st, t.st)
        /\ t.st.bits = p.st.bits /\ t.st.cram = p.st.cram /\ t.st.range = p.st.range
    BY <2>2, SteppedFields
  <2> QED
    BY <1>2, <2>2, <2>3, <2>4 DEF t, FadeDone
<1> QED
  BY <1>1, <1>2

\* The copy is stored back.
LEMMA StoreFields ==
  ASSUME NEW p, p.st \in Shared, p.vbp \subseteq Bits, FadeFits(p.st)
  PROVE  LET t == DoStore(p)
         IN /\ t.st \in Shared /\ FadeFits(t.st) /\ t.vbp = {}
            /\ SameScroll(p.st, t.st) /\ SameFade(p.st, t.st) /\ t.st.bits = p.vbp
            /\ t.st.queue = p.st.queue /\ t.st.cram = p.st.cram
<1> DEFINE t == DoStore(p)
<1>1. t.st = [p.st EXCEPT !.bits = p.vbp] /\ t.vbp = {}
  BY DEF DoStore
<1> HIDE DEF t
<1>2. /\ t.st \in Shared /\ t.st.bits = p.vbp
      /\ t.st.hscroll = p.st.hscroll /\ t.st.update = p.st.update /\ t.st.shown = p.st.shown
      /\ t.st.counter = p.st.counter /\ t.st.range = p.st.range /\ t.st.acc = p.st.acc
      /\ t.st.step = p.st.step /\ t.st.pal = p.st.pal
      /\ t.st.queue = p.st.queue /\ t.st.cram = p.st.cram
  BY <1>1 DEF Shared
<1>3. FadeFits(t.st)
  BY <1>2 DEF FadeFits
<1> QED
  BY <1>1, <1>2, <1>3 DEF t, SameScroll, SameFade

-----------------------------------------------------------------------------
(* Types *)

LEMMA InitTypes == Init => TypeInv
<1> SUFFICES ASSUME Init PROVE TypeInv
  OBVIOUS
<1> PICK v \in Values, l \in Levels :
       st = [bits |-> {}, hscroll |-> [p \in Planes |-> v], update |-> {},
             shown |-> [p \in Planes |-> v],
             counter |-> 0, range |-> NoRange, acc |-> 0, step |-> 0, pal |-> 0,
             queue |-> {}, cram |-> [r \in Ranges |-> l]]
  BY DEF Init
<1>1. 0 \in Fixed /\ 0 \in Component /\ l \in Component
  BY VBlankAssumption DEF Fixed, Component
<1>2. st \in Shared
  BY <1>1 DEF Shared
<1>3. FadeFits(st)
  BY <1>1 DEF FadeFits
<1> QED
  BY <1>2, <1>3 DEF Init, TypeInv, TypeOK

\* What an action that neither fades nor flushes leaves alone.
Quiet(s, t) == SameFade(s, t) /\ t.queue = s.queue /\ t.cram = s.cram /\ t.shown = s.shown

\* The fade of an action that leaves it alone still fits.
LEMMA FitsStill ==
  ASSUME NEW s, NEW t, FadeFits(s), SameFade(s, t)
  PROVE  FadeFits(t)
BY DEF FadeFits, SameFade

LEMMA SetScrollEffect ==
  ASSUME TypeInv, NEW p \in Planes, NEW v \in Values, VDP_setScrollVSync(p, v)
  PROVE  /\ TypeInv' /\ Quiet(st, st') /\ st'.update = st.update /\ st'.bits = st.bits
         /\ st'.hscroll = [st.hscroll EXCEPT ![p] = v]
<1> DEFINE h == [st.hscroll EXCEPT ![p] = v]
<1>1. st \in Shared /\ FadeFits(st)
  BY DEF TypeInv, TypeOK
<1>2. h \in [Planes -> Values] /\ st.update \in SUBSET Planes /\ st.bits \in SUBSET Bits
  BY <1>1 DEF Shared
<1>3. st' = [st EXCEPT !.hscroll = h]
  BY DEF VDP_setScrollVSync
<1> HIDE DEF h
<1>4. st' = [st EXCEPT !.hscroll = h, !.update = st.update, !.bits = st.bits]
  BY <1>1, <1>3 DEF Shared
<1>5. /\ st' \in Shared /\ Quiet(st, st')
      /\ st'.hscroll = h /\ st'.update = st.update /\ st'.bits = st.bits
  BY <1>1, <1>2, <1>4 DEF Shared, Quiet, SameFade
<1>6. FadeFits(st)'
  BY <1>1, <1>5, FitsStill DEF Quiet
<1> QED
  BY <1>5, <1>6 DEF h, TypeInv, TypeOK, VDP_setScrollVSync

LEMMA VIntScrollEffect ==
  ASSUME TypeInv, NEW p \in Planes, NEW v \in Values, VIntScroll(p, v)
  PROVE  /\ TypeInv' /\ Quiet(st, st') /\ st'.update = st.update \cup {p}
         /\ st'.bits = st.bits \cup {"scroll"} /\ st'.hscroll = [st.hscroll EXCEPT ![p] = v]
<1> DEFINE h == [st.hscroll EXCEPT ![p] = v]
           u == st.update \cup {p}
           b == st.bits \cup {"scroll"}
<1>1. st \in Shared /\ FadeFits(st)
  BY DEF TypeInv, TypeOK
<1>2. h \in [Planes -> Values] /\ u \in SUBSET Planes /\ b \in SUBSET Bits
  BY <1>1 DEF Shared, Bits
<1>3. st' = [st EXCEPT !.hscroll = h, !.update = u, !.bits = b]
  BY DEF VIntScroll
<1> HIDE DEF h, u, b
<1>4. /\ st' \in Shared /\ Quiet(st, st')
      /\ st'.hscroll = h /\ st'.update = u /\ st'.bits = b
  BY <1>1, <1>2, <1>3 DEF Shared, Quiet, SameFade
<1>5. FadeFits(st)'
  BY <1>1, <1>4, FitsStill DEF Quiet
<1> QED
  BY <1>4, <1>5 DEF h, u, b, TypeInv, TypeOK, VIntScroll

LEMMA UpdateBitEffect ==
  ASSUME TypeInv, ScrollUpdateBit
  PROVE  /\ TypeInv' /\ Quiet(st, st') /\ st'.update = st.update \cup {arg}
         /\ st'.bits = st.bits /\ st'.hscroll = st.hscroll
<1> DEFINE u == st.update \cup {arg}
<1>1. st \in Shared /\ FadeFits(st) /\ arg \in Planes
  BY DEF TypeInv, TypeOK, ScrollUpdateBit
<1>2. u \in SUBSET Planes /\ st.hscroll \in [Planes -> Values] /\ st.bits \in SUBSET Bits
  BY <1>1 DEF Shared
<1>3. st' = [st EXCEPT !.update = u]
  BY DEF ScrollUpdateBit
<1> HIDE DEF u
<1>4. st' = [st EXCEPT !.hscroll = st.hscroll, !.update = u, !.bits = st.bits]
  BY <1>1, <1>3 DEF Shared
<1>5. /\ st' \in Shared /\ Quiet(st, st')
      /\ st'.hscroll = st.hscroll /\ st'.update = u /\ st'.bits = st.bits
  BY <1>1, <1>2, <1>4 DEF Shared, Quiet, SameFade
<1>6. FadeFits(st)'
  BY <1>1, <1>5, FitsStill DEF Quiet
<1> QED
  BY <1>5, <1>6 DEF u, TypeInv, TypeOK, ScrollUpdateBit

\* The two actions that only change a task bit.
LEMMA BitsEffect ==
  ASSUME TypeInv, NEW b \in SUBSET Bits, st' = [st EXCEPT !.bits = b]
  PROVE  /\ st' \in Shared /\ FadeFits(st)' /\ Quiet(st, st') /\ SameScroll(st, st')
         /\ st'.bits = b
<1>1. st \in Shared /\ FadeFits(st)
  BY DEF TypeInv, TypeOK
<1>2. st.update \in SUBSET Planes /\ st.hscroll \in [Planes -> Values]
  BY <1>1 DEF Shared
<1>3. st' = [st EXCEPT !.hscroll = st.hscroll, !.update = st.update, !.bits = b]
  BY <1>1 DEF Shared
<1>4. /\ st' \in Shared /\ Quiet(st, st')
      /\ st'.hscroll = st.hscroll /\ st'.update = st.update /\ st'.bits = b
  BY <1>1, <1>2, <1>3 DEF Shared, Quiet, SameFade
<1>5. FadeFits(st)'
  BY <1>1, <1>4, FitsStill DEF Quiet
<1> QED
  BY <1>4, <1>5 DEF Quiet, SameScroll

LEMMA TaskBitEffect ==
  ASSUME TypeInv, ScrollTaskBit
  PROVE  /\ TypeInv' /\ Quiet(st, st') /\ SameScroll(st, st')
         /\ st'.bits = st.bits \cup {"scroll"}
<1>1. st.bits \cup {"scroll"} \in SUBSET Bits
  BY DEF TypeInv, TypeOK, Shared, Bits
<1>2. st' = [st EXCEPT !.bits = st.bits \cup {"scroll"}]
  BY DEF ScrollTaskBit
<1>3. /\ st' \in Shared /\ FadeFits(st)' /\ Quiet(st, st') /\ SameScroll(st, st')
      /\ st'.bits = st.bits \cup {"scroll"}
  BY <1>1, <1>2, BitsEffect
<1> QED
  BY <1>3 DEF TypeInv, TypeOK, ScrollTaskBit

LEMMA InterruptEffect ==
  ASSUME TypeInv, PAL_interruptFade
  PROVE  /\ TypeInv' /\ Quiet(st, st') /\ SameScroll(st, st')
         /\ st'.bits = st.bits \ {"fade"}
         /\ st.range \in Ranges => goal'[st.range] = NoGoal
         /\ \A r \in Ranges : r # st.range => goal'[r] = goal[r]
<1>1. st.bits \ {"fade"} \in SUBSET Bits
  BY DEF TypeInv, TypeOK, Shared, Bits
<1>2. st' = [st EXCEPT !.bits = st.bits \ {"fade"}]
  BY DEF PAL_interruptFade
<1>3. /\ st' \in Shared /\ FadeFits(st)' /\ Quiet(st, st') /\ SameScroll(st, st')
      /\ st'.bits = st.bits \ {"fade"}
  BY <1>1, <1>2, BitsEffect
<1>4. goal \in [Ranges -> Levels \cup {NoGoal}] /\ goal' = [goal EXCEPT ![st.range] = NoGoal]
  BY DEF TypeInv, TypeOK, PAL_interruptFade
<1>5. /\ goal' \in [Ranges -> Levels \cup {NoGoal}]
      /\ st.range \in Ranges => goal'[st.range] = NoGoal
      /\ \A r \in Ranges : r # st.range => goal'[r] = goal[r]
  BY <1>4
<1> QED
  BY <1>3, <1>5 DEF TypeInv, TypeOK, PAL_interruptFade

\* Either way to start a fade, up to the task bit.
LEMMA FadeEffect ==
  ASSUME TypeInv, NEW r \in Ranges, NEW src \in Levels, NEW dst \in Levels,
         NEW n \in NumFrames, PAL_fadeAsync(r, src, dst, n) \/ PAL_fadeSync(r, src, dst, n)
  PROVE  /\ TypeInv' /\ SameScroll(st, st') /\ st'.cram = st.cram
         /\ st'.range = r /\ st'.counter > 0 /\ st'.queue = st.queue \cup {r}
         /\ n <= 128 => Heads(st', dst)
         /\ goal'[r] = dst /\ \A q \in Ranges \ {r} : goal'[q] = goal[q]
         /\ PAL_fadeAsync(r, src, dst, n) => st'.bits = st.bits \cup {"fade"}
         /\ PAL_fadeSync(r, src, dst, n) => st'.bits = st.bits
<1> DEFINE t == FadeInited(st, r, src, dst, n)
<1>1. st \in Shared /\ FadeFits(st) /\ goal \in [Ranges -> Levels \cup {NoGoal}]
  BY DEF TypeInv, TypeOK
<1>2. /\ t \in Shared /\ FadeFits(t)
      /\ SameScroll(st, t) /\ t.bits = st.bits /\ t.cram = st.cram
      /\ t.range = r /\ t.counter = n /\ n > 0 /\ t.queue = st.queue \cup {r}
      /\ n <= 128 => Heads(t, dst)
  BY <1>1, InitedFields
<1>3. goal' = [goal EXCEPT ![r] = dst]
  BY DEF PAL_fadeAsync, PAL_fadeSync
<1>4. /\ goal' \in [Ranges -> Levels \cup {NoGoal}] /\ goal'[r] = dst
      /\ \A q \in Ranges \ {r} : goal'[q] = goal[q]
  BY <1>1, <1>3
<1>5. CASE PAL_fadeSync(r, src, dst, n)
  <2>1. st' = t
    BY <1>5 DEF PAL_fadeSync
  <2> HIDE DEF t
  <2>2. mpc = "run" /\ ~PAL_fadeAsync(r, src, dst, n)
    BY <1>5 DEF PAL_fadeSync, PAL_fadeAsync, MayFade
  <2>3. TypeInv'
    BY <1>2, <1>4, <1>5, <2>1 DEF TypeInv, TypeOK, PAL_fadeSync
  <2> QED
    BY <1>2, <1>4, <2>1, <2>2, <2>3
<1>6. CASE PAL_fadeAsync(r, src, dst, n)
  <2>1. st' = [t EXCEPT !.bits = t.bits \cup {"fade"}]
    BY <1>6 DEF PAL_fadeAsync
  <2> HIDE DEF t
  <2>2. t.bits \cup {"fade"} \in SUBSET Bits
    BY <1>2 DEF Shared, Bits
  <2>3. /\ st' \in Shared /\ st'.bits = t.bits \cup {"fade"}
        /\ st'.hscroll = t.hscroll /\ st'.update = t.update /\ st'.shown = t.shown
        /\ st'.counter = t.counter /\ st'.range = t.range /\ st'.acc = t.acc
        /\ st'.step = t.step /\ st'.pal = t.pal /\ st'.queue = t.queue /\ st'.cram = t.cram
    BY <1>2, <2>1, <2>2 DEF Shared
  <2>4. SameFade(t, st') /\ SameScroll(st, st')
    BY <1>2, <2>3 DEF SameFade, SameScroll
  <2>5. FadeFits(st)' /\ (n <= 128 => Heads(st', dst))
    BY <1>2, <2>4, FitsStill DEF Heads, SameFade
  <2>6. mpc = "run" /\ ~PAL_fadeSync(r, src, dst, n)
    BY <1>6 DEF PAL_fadeSync, PAL_fadeAsync, MayFade
  <2>7. TypeInv'
    BY <1>4, <1>6, <2>3, <2>5 DEF TypeInv, TypeOK, PAL_fadeAsync, MayFade
  <2> QED
    BY <1>2, <1>4, <2>3, <2>4, <2>5, <2>6, <2>7
<1> QED
  BY <1>5, <1>6

LEMMA SyncEffect ==
  ASSUME TypeInv, SyncStep
  PROVE  /\ TypeInv' /\ SameScroll(st, st') /\ st'.bits = st.bits /\ st'.cram = st.cram
         /\ st' = FadeStepped(st) /\ ret' = IF st'.counter > 0 THEN "step" ELSE "run"
<1>1. st \in Shared /\ FadeFits(st) /\ st' = FadeStepped(st)
  BY DEF TypeInv, TypeOK, SyncStep
<1>2. /\ st' \in Shared /\ FadeFits(st') /\ SameScroll(st, st')
      /\ st'.bits = st.bits /\ st'.cram = st.cram
  BY <1>1, SteppedFields
<1>3. ret' = IF st'.counter > 0 THEN "step" ELSE "run"
  BY <1>1 DEF SyncStep, FadeGoesOn
<1> QED
  BY <1>1, <1>2, <1>3 DEF TypeInv, TypeOK, SyncStep

\* The four steps of the process in the main program.
LEMMA FlushEffect ==
  ASSUME TypeInv, ProcessStep("flush", "scroll", DoFlush(st))
  PROVE  /\ TypeInv' /\ SameScroll(st, st') /\ SameFade(st, st') /\ st'.bits = st.bits
         /\ vbp' = st.bits /\ st'.queue = {}
         /\ \A r \in Ranges : st'.cram[r] = IF r \in st.queue THEN st.pal ELSE st.cram[r]
<1>1. st \in Shared /\ FadeFits(st)
  BY DEF TypeInv, TypeOK
<1> DEFINE p == DoFlush(st)
<1>2. st' = p.st /\ vbp' = p.vbp
  BY DEF ProcessStep
<1>3. /\ p.st \in Shared /\ FadeFits(p.st) /\ p.vbp = st.bits /\ p.vbp \subseteq Bits
      /\ SameScroll(st, p.st) /\ SameFade(st, p.st) /\ p.st.bits = st.bits
      /\ p.st.queue = {}
      /\ \A r \in Ranges : p.st.cram[r] = IF r \in st.queue THEN st.pal ELSE st.cram[r]
  BY <1>1, FlushFields
<1> HIDE DEF p
<1> QED
  BY <1>2, <1>3 DEF TypeInv, TypeOK, ProcessStep

LEMMA ScrollEffect ==
  ASSUME TypeInv, ProcessStep("scroll", "fade", DoScroll([st |-> st, vbp |-> vbp]))
  PROVE  /\ TypeInv' /\ SameFade(st, st') /\ st'.bits = st.bits
         /\ st'.queue = st.queue /\ st'.cram = st.cram
         /\ "fade" \in vbp' <=> "fade" \in vbp
         /\ "scroll" \notin vbp => SameScroll(st, st')
         /\ "scroll" \in vbp =>
              /\ st'.update = {} /\ st'.hscroll = st.hscroll
              /\ \A q \in Planes : st'.shown[q] = IF q \in st.update THEN st.hscroll[q]
                                                  ELSE st.shown[q]
<1> DEFINE p == [st |-> st, vbp |-> vbp]
           t == DoScroll(p)
<1>1. p.st = st /\ p.vbp = vbp /\ st' = t.st /\ vbp' = t.vbp
  BY DEF ProcessStep
<1> HIDE DEF p
<1>2. st \in Shared /\ vbp \subseteq Bits /\ FadeFits(st)
  BY DEF TypeInv, TypeOK
<1>3. /\ t.st \in Shared /\ FadeFits(t.st) /\ t.vbp \subseteq Bits
      /\ "scroll" \notin vbp => t = p
      /\ "scroll" \in vbp =>
           /\ t.st.update = {} /\ t.st.hscroll = st.hscroll
           /\ \A q \in Planes : t.st.shown[q] = IF q \in st.update THEN st.hscroll[q]
                                                ELSE st.shown[q]
      /\ SameFade(st, t.st) /\ t.st.bits = st.bits
      /\ t.st.queue = st.queue /\ t.st.cram = st.cram
      /\ "fade" \in t.vbp <=> "fade" \in vbp
  BY <1>1, <1>2, ScrollFields
<1> HIDE DEF t
<1>4. TypeInv'
  BY <1>1, <1>3 DEF TypeInv, TypeOK, ProcessStep
<1> QED
  BY <1>1, <1>3, <1>4 DEF SameScroll

LEMMA FadeStepEffect ==
  ASSUME TypeInv, ProcessStep("fade", "store", DoFade([st |-> st, vbp |-> vbp]))
  PROVE  /\ TypeInv' /\ SameScroll(st, st') /\ st'.bits = st.bits
         /\ st'.cram = st.cram /\ st'.range = st.range
         /\ "fade" \notin vbp => st' = st /\ vbp' = vbp
         /\ "fade" \in vbp => /\ st' = FadeStepped(st)
                              /\ "fade" \in vbp' <=> st'.counter > 0
<1> DEFINE p == [st |-> st, vbp |-> vbp]
           t == DoFade(p)
<1>1. p.st = st /\ p.vbp = vbp /\ st' = t.st /\ vbp' = t.vbp
  BY DEF ProcessStep
<1> HIDE DEF p
<1>2. st \in Shared /\ vbp \subseteq Bits /\ FadeFits(st)
  BY DEF TypeInv, TypeOK
<1>3. /\ t.st \in Shared /\ FadeFits(t.st) /\ t.vbp \subseteq Bits
      /\ SameScroll(st, t.st) /\ t.st.bits = st.bits
      /\ t.st.cram = st.cram /\ t.st.range = st.range
      /\ "fade" \notin vbp => t = p
      /\ "fade" \in vbp => /\ t.st = FadeStepped(st)
                           /\ "fade" \in t.vbp <=> t.st.counter > 0
  <2>1. p.st \in Shared /\ p.vbp \subseteq Bits /\ FadeFits(p.st)
    BY <1>1, <1>2
  <2>2. FadeDone(p, t)
    BY <2>1, FadeFields
  <2> QED
    BY <1>1, <2>2 DEF FadeDone
<1> HIDE DEF t
<1>4. TypeInv'
  BY <1>1, <1>3 DEF TypeInv, TypeOK, ProcessStep
<1> QED
  BY <1>1, <1>3, <1>4

LEMMA StoreEffect ==
  ASSUME TypeInv, ProcessStep("store", ret, DoStore([st |-> st, vbp |-> vbp]))
  PROVE  /\ TypeInv' /\ SameScroll(st, st') /\ SameFade(st, st') /\ st'.bits = vbp
         /\ st'.queue = st.queue /\ st'.cram = st.cram /\ vbp' = {}
<1> DEFINE p == [st |-> st, vbp |-> vbp]
           t == DoStore(p)
<1>1. p.st = st /\ p.vbp = vbp /\ st' = t.st /\ vbp' = t.vbp
  BY DEF ProcessStep
<1> HIDE DEF p
<1>2. st \in Shared /\ vbp \subseteq Bits /\ FadeFits(st)
  BY DEF TypeInv, TypeOK
<1>3. /\ t.st \in Shared /\ FadeFits(t.st) /\ t.vbp = {}
      /\ SameScroll(st, t.st) /\ SameFade(st, t.st) /\ t.st.bits = vbp
      /\ t.st.queue = st.queue /\ t.st.cram = st.cram
  BY <1>1, <1>2, StoreFields
<1> HIDE DEF t
<1>4. TypeInv'
  BY <1>1, <1>3 DEF TypeInv, TypeOK, ProcessStep
<1> QED
  BY <1>1, <1>3, <1>4

\* The whole process in the interrupt.
LEMMA VIntEffect ==
  ASSUME TypeInv, VIntProcess
  PROVE  /\ TypeInv' /\ st'.hscroll = st.hscroll /\ st'.range = st.range
         /\ "scroll" \notin st.bits => SameScroll(st, st')
         /\ "scroll" \in st.bits =>
              /\ st'.update = {}
              /\ \A q \in Planes : st'.shown[q] = IF q \in st.update THEN st.hscroll[q]
                                                  ELSE st.shown[q]
         /\ \A r \in Ranges : st'.cram[r] = IF r \in st.queue THEN st.pal ELSE st.cram[r]
         /\ "fade" \notin st.bits =>
              SameFade(st, st') /\ st'.queue = {} /\ "fade" \notin st'.bits
         /\ "fade" \in st.bits =>
              \E s \in Shared : /\ SameFade(st, s) /\ s.queue = {} /\ FadeFits(s)
                                /\ SameFade(FadeStepped(s), st')
                                /\ st'.queue = FadeStepped(s).queue
                                /\ "fade" \in st'.bits <=> st'.counter > 0
<1> DEFINE p == DoFlush(st)
           q == DoScroll(p)
           t == DoFade(q)
           w == DoStore(t)
<1>0. st \in Shared /\ FadeFits(st) /\ st' = w.st
  BY DEF TypeInv, TypeOK, VIntProcess
<1>1. /\ p.st \in Shared /\ FadeFits(p.st) /\ p.vbp = st.bits /\ p.vbp \subseteq Bits
      /\ SameScroll(st, p.st) /\ SameFade(st, p.st) /\ p.st.bits = st.bits
      /\ p.st.queue = {}
      /\ \A r \in Ranges : p.st.cram[r] = IF r \in st.queue THEN st.pal ELSE st.cram[r]
  BY <1>0, FlushFields
<1> HIDE DEF p
<1>2. /\ q.st \in Shared /\ FadeFits(q.st) /\ q.vbp \subseteq Bits
      /\ "scroll" \notin p.vbp => q = p
      /\ "scroll" \in p.vbp =>
           /\ q.st.update = {} /\ q.st.hscroll = p.st.hscroll
           /\ \A x \in Planes : q.st.shown[x] = IF x \in p.st.update THEN p.st.hscroll[x]
                                                ELSE p.st.shown[x]
      /\ SameFade(p.st, q.st) /\ q.st.queue = p.st.queue /\ q.st.cram = p.st.cram
      /\ "fade" \in q.vbp <=> "fade" \in p.vbp
  BY <1>1, ScrollFields
<1> HIDE DEF q
<1>3. /\ t.st \in Shared /\ FadeFits(t.st) /\ t.vbp \subseteq Bits
      /\ SameScroll(q.st, t.st) /\ t.st.cram = q.st.cram /\ t.st.range = q.st.range
      /\ "fade" \notin q.vbp => t = q
      /\ "fade" \in q.vbp => /\ t.st = FadeStepped(q.st)
                             /\ "fade" \in t.vbp <=> t.st.counter > 0
  <2>1. FadeDone(q, t)
    BY <1>2, FadeFields
  <2> QED
    BY <2>1 DEF FadeDone
<1> HIDE DEF t
<1>4. /\ w.st \in Shared /\ FadeFits(w.st)
      /\ SameScroll(t.st, w.st) /\ SameFade(t.st, w.st) /\ w.st.bits = t.vbp
      /\ w.st.queue = t.st.queue /\ w.st.cram = t.st.cram
  BY <1>3, StoreFields
<1> HIDE DEF w
<1>5. TypeInv'
  BY <1>0, <1>4 DEF TypeInv, TypeOK, VIntProcess
<1>6. st'.hscroll = st.hscroll /\ st'.range = st.range
  BY <1>0, <1>1, <1>2, <1>3, <1>4 DEF SameScroll, SameFade
<1>7. "scroll" \notin st.bits => SameScroll(st, st')
  BY <1>0, <1>1, <1>2, <1>3, <1>4 DEF SameScroll
<1>8. "scroll" \in st.bits =>
        /\ st'.update = {}
        /\ \A x \in Planes : st'.shown[x] = IF x \in st.update THEN st.hscroll[x]
                                            ELSE st.shown[x]
  BY <1>0, <1>1, <1>2, <1>3, <1>4 DEF SameScroll
<1>9. \A r \in Ranges : st'.cram[r] = IF r \in st.queue THEN st.pal ELSE st.cram[r]
  BY <1>0, <1>1, <1>2, <1>3, <1>4
<1>10. "fade" \notin st.bits => SameFade(st, st') /\ st'.queue = {} /\ "fade" \notin st'.bits
  BY <1>0, <1>1, <1>2, <1>3, <1>4 DEF SameFade
<1>11. "fade" \in st.bits =>
         /\ SameFade(st, q.st) /\ q.st.queue = {}
         /\ SameFade(FadeStepped(q.st), st') /\ st'.queue = FadeStepped(q.st).queue
         /\ "fade" \in st'.bits <=> st'.counter > 0
  BY <1>0, <1>1, <1>2, <1>3, <1>4 DEF SameFade
<1> QED
  BY <1>2, <1>5, <1>6, <1>7, <1>8, <1>9, <1>10, <1>11

LEMMA TypeStep == TypeInv /\ [Next]_vars => TypeInv'
<1> SUFFICES ASSUME TypeInv, [Next]_vars PROVE TypeInv'
  OBVIOUS
<1>1. ASSUME NEW p \in Planes, NEW v \in Values, VDP_setScrollVSync(p, v) PROVE TypeInv'
  BY <1>1, SetScrollEffect
<1>2. ASSUME NEW p \in Planes, NEW v \in Values, VIntScroll(p, v) PROVE TypeInv'
  BY <1>2, VIntScrollEffect
<1>3. CASE ScrollUpdateBit
  BY <1>3, UpdateBitEffect
<1>4. CASE ScrollTaskBit
  BY <1>4, TaskBitEffect
<1>5. ASSUME NEW r \in Ranges, NEW src \in Levels, NEW dst \in Levels, NEW n \in NumFrames,
             PAL_fadeAsync(r, src, dst, n) \/ PAL_fadeSync(r, src, dst, n)
      PROVE  TypeInv'
  BY <1>5, FadeEffect
<1>6. CASE SyncStep
  BY <1>6, SyncEffect
<1>7. CASE PAL_interruptFade
  BY <1>7, InterruptEffect
<1>8. CASE SYS_doVBlankProcess
  BY <1>8 DEF SYS_doVBlankProcess, TypeInv, TypeOK
<1>9. CASE Process
  BY <1>9, FlushEffect, ScrollEffect, FadeStepEffect, StoreEffect DEF Process
<1>10. CASE VIntProcess
  BY <1>10, VIntEffect
<1>11. CASE UNCHANGED vars
  BY <1>11 DEF vars, TypeInv, TypeOK
<1> QED
  BY <1>1, <1>2, <1>3, <1>4, <1>5, <1>6, <1>7, <1>8, <1>9, <1>10, <1>11 DEF Next

-----------------------------------------------------------------------------
(* Scroll values *)

LEMMA InitScroll == Init => ScrollInv
BY DEF Init, ScrollInv, ScrollIsPending, ShownIsSet

\* Actions that leave the scroll state alone, the main program not in the
\* process before or after.
LEMMA ScrollUntouched ==
  ASSUME ScrollInv, SameScroll(st, st'), "scroll" \in st.bits => "scroll" \in st'.bits,
         mpc \notin {"update", "task"}, ~InProcess', arg' = arg
  PROVE  ScrollInv'
BY DEF ScrollInv, ScrollIsPending, ShownIsSet, SameScroll, InProcess

LEMMA ScrollStep ==
  ASSUME CallbackScrolls = FALSE, TypeInv, ScrollInv, [Next]_vars
  PROVE  ScrollInv'
<1>0. st.hscroll \in [Planes -> Values] /\ st.update \subseteq Planes
  BY DEF TypeInv, TypeOK, Shared
<1>1. ASSUME NEW p \in Planes, NEW v \in Values, VDP_setScrollVSync(p, v) PROVE ScrollInv'
  <2>1. /\ Quiet(st, st') /\ st'.update = st.update /\ st'.bits = st.bits
        /\ st'.hscroll = [st.hscroll EXCEPT ![p] = v]
    BY <1>1, SetScrollEffect
  <2>2. mpc = "run" /\ mpc' = "update" /\ arg' = p
    BY <1>1 DEF VDP_setScrollVSync
  <2> QED
    BY <1>0, <2>1, <2>2 DEF Quiet, ScrollInv, ScrollIsPending, ShownIsSet
<1>2. ASSUME NEW p \in Planes, NEW v \in Values, VIntScroll(p, v) PROVE ScrollInv'
  <2>1. /\ Quiet(st, st') /\ st'.update = st.update \cup {p}
        /\ st'.bits = st.bits \cup {"scroll"} /\ st'.hscroll = [st.hscroll EXCEPT ![p] = v]
    BY <1>2, VIntScrollEffect
  <2>2. mpc' = mpc /\ arg' = arg /\ mpc \notin {"scroll", "fade", "store"}
    BY <1>2 DEF VIntScroll
  <2> QED
    BY <1>0, <2>1, <2>2 DEF Quiet, ScrollInv, ScrollIsPending, ShownIsSet
<1>3. CASE ScrollUpdateBit
  <2>1. /\ Quiet(st, st') /\ st'.update = st.update \cup {arg}
        /\ st'.bits = st.bits /\ st'.hscroll = st.hscroll
    BY <1>3, UpdateBitEffect
  <2>2. mpc = "update" /\ mpc' = "task"
    BY <1>3 DEF ScrollUpdateBit
  <2> QED
    BY <2>1, <2>2 DEF Quiet, ScrollInv, ScrollIsPending, ShownIsSet
<1>4. CASE ScrollTaskBit
  <2>1. Quiet(st, st') /\ SameScroll(st, st') /\ st'.bits = st.bits \cup {"scroll"}
    BY <1>4, TaskBitEffect
  <2>2. mpc = "task" /\ mpc' = "run"
    BY <1>4 DEF ScrollTaskBit
  <2> QED
    BY <2>1, <2>2 DEF SameScroll, ScrollInv, ScrollIsPending, ShownIsSet
<1>5. ASSUME NEW r \in Ranges, NEW src \in Levels, NEW dst \in Levels, NEW n \in NumFrames,
             PAL_fadeAsync(r, src, dst, n) \/ PAL_fadeSync(r, src, dst, n)
      PROVE  ScrollInv'
  <2>1. /\ SameScroll(st, st')
        /\ PAL_fadeAsync(r, src, dst, n) => st'.bits = st.bits \cup {"fade"}
        /\ PAL_fadeSync(r, src, dst, n) => st'.bits = st.bits
    BY <1>5, FadeEffect
  <2>2. mpc = "run" /\ mpc' \in {"run", "flush"} /\ arg' = arg
    BY <1>5 DEF PAL_fadeAsync, PAL_fadeSync, MayFade
  <2> QED
    BY <1>5, <2>1, <2>2, ScrollUntouched DEF InProcess
<1>6. CASE SyncStep
  <2>1. SameScroll(st, st') /\ st'.bits = st.bits
    BY <1>6, SyncEffect
  <2>2. mpc = "step" /\ mpc' = "flush" /\ arg' = arg
    BY <1>6 DEF SyncStep
  <2> QED
    BY <2>1, <2>2, ScrollUntouched DEF InProcess
<1>7. CASE PAL_interruptFade
  <2>1. SameScroll(st, st') /\ st'.bits = st.bits \ {"fade"}
    BY <1>7, InterruptEffect
  <2>2. mpc = "run" /\ mpc' = "run" /\ arg' = arg
    BY <1>7 DEF PAL_interruptFade
  <2> QED
    BY <2>1, <2>2, ScrollUntouched DEF InProcess
<1>8. CASE SYS_doVBlankProcess
  <2>1. st' = st /\ mpc = "run" /\ mpc' = "flush" /\ arg' = arg
    BY <1>8 DEF SYS_doVBlankProcess
  <2> QED
    BY <2>1, ScrollUntouched DEF InProcess, SameScroll
<1>9. CASE Process
  <2>1. CASE ProcessStep("flush", "scroll", DoFlush(st))
    <3>1. SameScroll(st, st') /\ st'.bits = st.bits /\ vbp' = st.bits
      BY <2>1, FlushEffect
    <3>2. mpc = "flush" /\ mpc' = "scroll"
      BY <2>1 DEF ProcessStep
    <3> QED
      BY <3>1, <3>2 DEF SameScroll, ScrollInv, ScrollIsPending, ShownIsSet
  <2>2. CASE ProcessStep("scroll", "fade", DoScroll([st |-> st, vbp |-> vbp]))
    <3>1. /\ "scroll" \notin vbp => SameScroll(st, st')
          /\ "scroll" \in vbp =>
               /\ st'.update = {} /\ st'.hscroll = st.hscroll
               /\ \A q \in Planes : st'.shown[q] = IF q \in st.update THEN st.hscroll[q]
                                                   ELSE st.shown[q]
      BY <2>2, ScrollEffect
    <3>2. mpc = "scroll" /\ mpc' = "fade"
      BY <2>2 DEF ProcessStep
    <3> QED
      BY <3>1, <3>2 DEF SameScroll, ScrollInv, ScrollIsPending, ShownIsSet
  <2>3. CASE ProcessStep("fade", "store", DoFade([st |-> st, vbp |-> vbp]))
    <3>1. SameScroll(st, st') /\ st'.bits = st.bits
      BY <2>3, FadeStepEffect
    <3>2. mpc = "fade" /\ mpc' = "store"
      BY <2>3 DEF ProcessStep
    <3> QED
      BY <3>1, <3>2 DEF SameScroll, ScrollInv, ScrollIsPending, ShownIsSet
  <2>4. CASE ProcessStep("store", ret, DoStore([st |-> st, vbp |-> vbp]))
    <3>1. SameScroll(st, st')
      BY <2>4, StoreEffect
    <3>2. mpc = "store" /\ mpc' \in {"run", "step"}
      BY <2>4 DEF ProcessStep, TypeInv, TypeOK
    <3> QED
      BY <3>1, <3>2 DEF SameScroll, ScrollInv, ScrollIsPending, ShownIsSet
  <2> QED
    BY <1>9, <2>1, <2>2, <2>3, <2>4 DEF Process
<1>10. CASE VIntProcess
  <2>1. /\ st'.hscroll = st.hscroll
        /\ "scroll" \notin st.bits => SameScroll(st, st')
        /\ "scroll" \in st.bits =>
             /\ st'.update = {}
             /\ \A q \in Planes : st'.shown[q] = IF q \in st.update THEN st.hscroll[q]
                                                 ELSE st.shown[q]
    BY <1>10, VIntEffect
  <2>2. mpc' = mpc /\ arg' = arg /\ vbp' = vbp
    BY <1>10 DEF VIntProcess
  <2> QED
    BY <2>1, <2>2 DEF SameScroll, ScrollInv, ScrollIsPending, ShownIsSet
<1>11. CASE UNCHANGED vars
  BY <1>11 DEF vars, ScrollInv, ScrollIsPending, ShownIsSet
<1> QED
  BY <1>1, <1>2, <1>3, <1>4, <1>5, <1>6, <1>7, <1>8, <1>9, <1>10, <1>11 DEF Next

\* No scroll value set by VDP_set*ScrollVSync is lost on its way to the VDP,
\* whoever calls SYS_doVBlankProcess and wherever the interrupt falls, when the
\* interrupt's callback sets none between the copy of VBlankProcess and its
\* store: for every set of planes and values.
THEOREM VBlankScroll ==
  ASSUME CallbackScrolls = FALSE
  PROVE  Spec => []ScrollIsKept
<1>1. Init => TypeInv /\ ScrollInv
  BY InitTypes, InitScroll
<1>2. TypeInv /\ ScrollInv /\ [Next]_vars => (TypeInv /\ ScrollInv)'
  BY TypeStep, ScrollStep
<1>3. TypeInv /\ ScrollInv => ScrollIsKept
  BY DEF TypeInv, ScrollInv, ScrollIsKept
<1> QED
  BY <1>1, <1>2, <1>3, PTL DEF Spec

-----------------------------------------------------------------------------
(* Fades *)

LEMMA InitFade == Init => FadeInv
BY DEF Init, FadeInv, Aims, Driven, InProcess, Heads

\* A step of the fade still heads for the same level.
LEMMA HeadsOn ==
  ASSUME NEW s \in Shared, FadeFits(s), NEW g \in Component, Heads(s, g)
  PROVE  Heads(FadeStepped(s), g)
<1> DEFINE t == FadeStepped(s)
<1>1. /\ s.counter = 0 => t = s
      /\ s.counter > 0 =>
           /\ t.counter = s.counter - 1 /\ t.step = s.step
           /\ t.acc = s.acc + s.step /\ t.pal = Level(t.acc)
           /\ t.acc + t.counter * t.step = s.acc + s.counter * s.step
  BY SteppedFields
<1>2. /\ s.counter \in Nat /\ t \in Shared /\ t.counter \in Nat /\ t.acc \in Int
      /\ t.step \in Int
  <2>1. t \in Shared
    BY SteppedFields
  <2> HIDE DEF t
  <2>2. s.counter \in Nat /\ t.counter \in Nat /\ t.acc \in Fixed /\ t.step \in Int
    BY <2>1 DEF Shared
  <2>3. \A a \in Fixed : a \in Int
    BY DEF Fixed
  <2> QED
    BY <2>1, <2>2, <2>3
<1> HIDE DEF t
<1>3. CASE s.counter = 0
  BY <1>1, <1>3 DEF t
<1>4. CASE s.counter > 0
  <2> DEFINE e == s.acc + s.counter * s.step
  <2>1. e >= g * 256 /\ e <= g * 256 + 255
    BY <1>4 DEF Heads
  <2>2. t.acc + t.counter * t.step = e /\ t.pal = Level(t.acc)
    BY <1>1, <1>4
  <2> HIDE DEF e
  <2>3. t.counter = 0 => t.acc = e
    <3>1. 0 * t.step = 0
      BY <1>2
    <3> QED
      BY <1>2, <2>2, <3>1
  <2>4. t.counter = 0 => t.pal = g
    BY <1>2, <2>1, <2>2, <2>3, LevelShown DEF Component
  <2>5. t.counter > 0 => t.acc + t.counter * t.step >= g * 256
                         /\ t.acc + t.counter * t.step <= g * 256 + 255
    BY <2>1, <2>2
  <2> QED
    BY <2>4, <2>5 DEF Heads, t
<1> QED
  BY <1>2, <1>3, <1>4 DEF t

LEMMA HeadsSame ==
  ASSUME NEW s, NEW t, NEW g, SameFade(s, t)
  PROVE  Heads(s, g) <=> Heads(t, g)
BY DEF Heads, SameFade

\* Actions that leave fade, queue, colours and goals alone.
LEMMA AimsSame ==
  ASSUME Aims, SameFade(st, st'), st'.queue = st.queue, st'.cram = st.cram, goal' = goal
  PROVE  Aims'
<1>1. st'.range = st.range /\ st'.counter = st.counter
  BY DEF SameFade
<1>2. Heads(st, goal[st.range]) <=> Heads(st', goal[st.range])
  BY HeadsSame
<1> QED
  BY <1>1, <1>2 DEF Aims

\* The flush of the queue sends the colours that the fade shows now.
LEMMA AimsFlush ==
  ASSUME Aims, SameFade(st, st'), st'.queue = {}, goal' = goal,
         \A r \in Ranges : st'.cram[r] = IF r \in st.queue THEN st.pal ELSE st.cram[r]
  PROVE  Aims'
<1>1. st'.range = st.range /\ st'.counter = st.counter
  BY DEF SameFade
<1>2. Heads(st, goal[st.range]) <=> Heads(st', goal[st.range])
  BY HeadsSame
<1>3. \A r \in Ranges : goal[r] # NoGoal /\ r # st.range => st'.cram[r] = goal[r]
  BY DEF Aims
<1>4. ASSUME st.range \in Ranges, goal[st.range] # NoGoal
      PROVE  st.counter = 0 => st'.cram[st.range] = goal[st.range]
  BY <1>4 DEF Aims, Heads
<1> QED
  BY <1>1, <1>2, <1>3, <1>4 DEF Aims

\* A step of the fade with nothing else on the way.
LEMMA AimsStep ==
  ASSUME TypeInv, Aims, NEW s \in Shared, FadeFits(s), SameFade(st, s),
         s.queue \subseteq {st.range}, st.counter = 0 => s.queue = {} \/ s.queue = st.queue,
         SameFade(FadeStepped(s), st'), st'.queue = FadeStepped(s).queue, goal' = goal,
         \/ st'.cram = st.cram /\ s.queue = st.queue
         \/ /\ s.queue = {}
            /\ \A r \in Ranges : st'.cram[r] = IF r \in st.queue THEN st.pal ELSE st.cram[r]
  PROVE  Aims'
<1> DEFINE t == FadeStepped(s)
<1>1. /\ s.counter = 0 => t = s
      /\ s.counter > 0 => t.queue = s.queue \cup {s.range}
  BY SteppedFields
<1>2. t.range = s.range /\ s.counter \in Nat /\ s.range = st.range /\ s.counter = st.counter
  BY SteppedFields DEF Shared, SameFade
<1>3. st'.range = t.range /\ st'.counter = t.counter /\ st'.queue = t.queue
  BY DEF SameFade
<1>4. /\ \A r \in Ranges : goal[r] \in Component \cup {NoGoal}
      /\ s.counter = 0 => t = s
      /\ s.counter > 0 => t.queue = s.queue \cup {s.range}
  <2>1. goal \in [Ranges -> Levels \cup {NoGoal}] /\ Levels \subseteq Component
    BY VBlankAssumption DEF TypeInv, TypeOK, Component
  <2> QED
    BY <1>1, <2>1
<1>5. ASSUME st.range \in Ranges, goal[st.range] # NoGoal
      PROVE  Heads(st', goal[st.range])
  <2>1. goal[st.range] \in Component /\ Heads(s, goal[st.range])
    BY <1>4, <1>5, HeadsSame DEF Aims
  <2>2. Heads(t, goal[st.range])
    BY <2>1, HeadsOn
  <2> HIDE DEF t
  <2> QED
    BY <2>2, HeadsSame DEF t
<1> HIDE DEF t
<1>6. st'.queue \subseteq {st'.range}
  BY <1>2, <1>3, <1>4
<1>7. \A r \in Ranges : goal[r] # NoGoal /\ r # st.range => st'.cram[r] = goal[r]
  BY DEF Aims
<1>8. ASSUME st.range \in Ranges, goal[st.range] # NoGoal, st'.counter = 0, st'.queue = {}
      PROVE  st'.cram[st.range] = goal[st.range]
  <2>1. ~(s.counter > 0)
    BY <1>3, <1>4, <1>8
  <2>2. s.counter = 0
    BY <1>2, <2>1
  <2>3. s.queue = {}
    BY <1>3, <1>4, <1>8, <2>2
  <2>4. st.counter = 0
    BY <1>2, <2>2
  <2> QED
    BY <1>8, <2>3, <2>4 DEF Aims, Heads
<1> QED
  BY <1>2, <1>3, <1>5, <1>6, <1>7, <1>8 DEF Aims

LEMMA AimsNext ==
  ASSUME WaitsForQueue = TRUE, \A n \in NumFrames : n <= 128,
         TypeInv, FadeInv, [Next]_vars
  PROVE  Aims'
<1>0. /\ Aims /\ Driven /\ st \in Shared /\ FadeFits(st) /\ st.counter \in Nat
      /\ goal \in [Ranges -> Levels \cup {NoGoal}]
      /\ SameFade(st, st) /\ st.queue \subseteq {st.range}
  BY DEF FadeInv, TypeInv, TypeOK, Shared, SameFade, Aims
<1>1. ASSUME NEW p \in Planes, NEW v \in Values, VDP_setScrollVSync(p, v) PROVE Aims'
  BY <1>0, <1>1, SetScrollEffect, AimsSame DEF Quiet, VDP_setScrollVSync
<1>2. ASSUME NEW p \in Planes, NEW v \in Values, VIntScroll(p, v) PROVE Aims'
  BY <1>0, <1>2, VIntScrollEffect, AimsSame DEF Quiet, VIntScroll
<1>3. CASE ScrollUpdateBit
  BY <1>0, <1>3, UpdateBitEffect, AimsSame DEF Quiet, ScrollUpdateBit
<1>4. CASE ScrollTaskBit
  BY <1>0, <1>4, TaskBitEffect, AimsSame DEF Quiet, ScrollTaskBit
<1>5. ASSUME NEW r \in Ranges, NEW src \in Levels, NEW dst \in Levels, NEW n \in NumFrames,
             PAL_fadeAsync(r, src, dst, n) \/ PAL_fadeSync(r, src, dst, n)
      PROVE  Aims'
  <2>1. /\ st'.cram = st.cram /\ st'.range = r /\ st'.counter > 0
        /\ st'.queue = st.queue \cup {r} /\ Heads(st', dst)
        /\ goal'[r] = dst /\ \A q \in Ranges \ {r} : goal'[q] = goal[q]
    BY <1>5, FadeEffect
  <2>2. mpc = "run" /\ "fade" \notin st.bits /\ st.queue = {}
    BY <1>5 DEF PAL_fadeAsync, PAL_fadeSync, MayFade
  <2>3. st.range \in Ranges /\ goal[st.range] # NoGoal => st.counter = 0
    <3>1. ret # "step" /\ last \in {"none", "async", "sync"}
      BY <1>0, <2>2 DEF Driven, TypeInv
    <3>2. st.range \in Ranges /\ goal[st.range] # NoGoal => ~(st.counter > 0)
      BY <1>0, <2>2, <3>1 DEF Driven
    <3> QED
      BY <1>0, <3>2
  <2>4. \A q \in Ranges \ {r} : goal'[q] # NoGoal => st'.cram[q] = goal'[q]
    BY <1>0, <2>1, <2>2, <2>3 DEF Aims
  <2>5. ~(st'.counter = 0)
    BY <2>1
  <2> QED
    BY <2>1, <2>2, <2>4, <2>5 DEF Aims
<1>6. CASE SyncStep
  <2>1. st'.cram = st.cram /\ st' = FadeStepped(st) /\ goal' = goal
    BY <1>6, SyncEffect DEF SyncStep
  <2>2. SameFade(FadeStepped(st), st') /\ st'.queue = FadeStepped(st).queue
    BY <2>1 DEF SameFade
  <2> QED
    BY <1>0, <2>1, <2>2, AimsStep
<1>7. CASE PAL_interruptFade
  <2>1. /\ Quiet(st, st') /\ SameFade(st, st')
        /\ st.range \in Ranges => goal'[st.range] = NoGoal
        /\ \A r \in Ranges : r # st.range => goal'[r] = goal[r]
    BY <1>7, InterruptEffect DEF Quiet
  <2>2. st'.range = st.range /\ st'.queue = st.queue /\ st'.cram = st.cram
    BY <2>1 DEF Quiet, SameFade
  <2> QED
    BY <1>0, <2>1, <2>2 DEF Aims
<1>8. CASE SYS_doVBlankProcess
  BY <1>0, <1>8, AimsSame DEF SYS_doVBlankProcess
<1>9. CASE Process
  <2>1. CASE ProcessStep("flush", "scroll", DoFlush(st))
    BY <1>0, <2>1, FlushEffect, AimsFlush DEF ProcessStep
  <2>2. CASE ProcessStep("scroll", "fade", DoScroll([st |-> st, vbp |-> vbp]))
    <3>1. SameFade(st, st') /\ st'.queue = st.queue /\ st'.cram = st.cram /\ goal' = goal
      BY <2>2, ScrollEffect DEF ProcessStep
    <3> QED
      BY <1>0, <3>1, AimsSame
  <2>3. CASE ProcessStep("fade", "store", DoFade([st |-> st, vbp |-> vbp]))
    <3>1. /\ st'.cram = st.cram /\ goal' = goal
          /\ "fade" \notin vbp => st' = st
          /\ "fade" \in vbp => st' = FadeStepped(st)
      BY <2>3, FadeStepEffect DEF ProcessStep
    <3>2. CASE "fade" \notin vbp
      BY <1>0, <3>1, <3>2, AimsSame
    <3>3. CASE "fade" \in vbp
      <4>1. SameFade(FadeStepped(st), st') /\ st'.queue = FadeStepped(st).queue
        BY <3>1, <3>3 DEF SameFade
      <4> QED
        BY <1>0, <3>1, <4>1, AimsStep
    <3> QED
      BY <3>2, <3>3
  <2>4. CASE ProcessStep("store", ret, DoStore([st |-> st, vbp |-> vbp]))
    <3>1. SameFade(st, st') /\ st'.queue = st.queue /\ st'.cram = st.cram /\ goal' = goal
      BY <2>4, StoreEffect DEF ProcessStep
    <3> QED
      BY <1>0, <3>1, AimsSame
  <2> QED
    BY <1>9, <2>1, <2>2, <2>3, <2>4 DEF Process
<1>10. CASE VIntProcess
  <2>1. /\ \A r \in Ranges : st'.cram[r] = IF r \in st.queue THEN st.pal ELSE st.cram[r]
        /\ "fade" \notin st.bits => SameFade(st, st') /\ st'.queue = {}
        /\ "fade" \in st.bits =>
             \E s \in Shared : /\ SameFade(st, s) /\ s.queue = {} /\ FadeFits(s)
                               /\ SameFade(FadeStepped(s), st')
                               /\ st'.queue = FadeStepped(s).queue
    BY <1>10, VIntEffect
  <2>2. goal' = goal
    BY <1>10 DEF VIntProcess
  <2>3. CASE "fade" \notin st.bits
    BY <1>0, <2>1, <2>2, <2>3, AimsFlush
  <2>4. CASE "fade" \in st.bits
    <3> PICK s \in Shared : /\ SameFade(st, s) /\ s.queue = {} /\ FadeFits(s)
                            /\ SameFade(FadeStepped(s), st')
                            /\ st'.queue = FadeStepped(s).queue
      BY <2>1, <2>4
    <3>1. s.queue \subseteq {st.range}
      OBVIOUS
    <3> QED
      BY <1>0, <2>1, <2>2, <3>1, AimsStep
  <2> QED
    BY <2>3, <2>4
<1>11. CASE UNCHANGED vars
  BY <1>0, <1>11, AimsSame DEF vars
<1> QED
  BY <1>1, <1>2, <1>3, <1>4, <1>5, <1>6, <1>7, <1>8, <1>9, <1>10, <1>11 DEF Next

\* Actions outside the process that leave the fade and its drivers alone.
LEMMA DrivenSame ==
  ASSUME Driven, SameFade(st, st'), st'.queue = st.queue,
         "fade" \in st'.bits <=> "fade" \in st.bits,
         InProcess' => InProcess /\ vbp' = vbp,
         goal' = goal, last' = last, ret' = ret,
         ret = "step" => mpc' = mpc, mpc' = "step" => mpc = "step",
         mpc = "flush" => mpc' = "flush"
  PROVE  Driven'
<1>1. st'.range = st.range /\ st'.counter = st.counter
  BY DEF SameFade
<1> QED
  BY <1>1 DEF Driven

LEMMA DrivenNext ==
  ASSUME WaitsForQueue = TRUE, TypeInv, FadeInv, [Next]_vars
  PROVE  Driven'
<1>0. /\ Aims /\ Driven /\ st \in Shared /\ FadeFits(st) /\ st.counter \in Nat
      /\ goal \in [Ranges -> Levels \cup {NoGoal}] /\ ret \in {"run", "step"}
      /\ NoGoal \notin Levels /\ SameFade(st, st) /\ last \in {"none", "async", "sync"}
  BY VBlankAssumption DEF FadeInv, TypeInv, TypeOK, Shared, SameFade, Aims, NoGoal
<1>1. ASSUME NEW p \in Planes, NEW v \in Values, VDP_setScrollVSync(p, v) PROVE Driven'
  <2>1. SameFade(st, st') /\ st'.queue = st.queue /\ st'.bits = st.bits
    BY <1>1, SetScrollEffect DEF Quiet
  <2>2. /\ mpc = "run" /\ mpc' = "update" /\ vbp' = vbp /\ goal' = goal /\ last' = last
        /\ ret' = ret /\ ret # "step"
    BY <1>0, <1>1 DEF VDP_setScrollVSync, Driven
  <2> QED
    BY <1>0, <2>1, <2>2, DrivenSame DEF InProcess
<1>2. ASSUME NEW p \in Planes, NEW v \in Values, VIntScroll(p, v) PROVE Driven'
  <2>1. SameFade(st, st') /\ st'.queue = st.queue /\ st'.bits = st.bits \cup {"scroll"}
    BY <1>2, VIntScrollEffect DEF Quiet
  <2>2. mpc' = mpc /\ vbp' = vbp /\ goal' = goal /\ last' = last /\ ret' = ret
    BY <1>2 DEF VIntScroll
  <2> QED
    BY <1>0, <2>1, <2>2, DrivenSame DEF InProcess
<1>3. CASE ScrollUpdateBit
  <2>1. SameFade(st, st') /\ st'.queue = st.queue /\ st'.bits = st.bits
    BY <1>3, UpdateBitEffect DEF Quiet
  <2>2. /\ mpc = "update" /\ mpc' = "task" /\ vbp' = vbp /\ goal' = goal /\ last' = last
        /\ ret' = ret /\ ret # "step"
    BY <1>0, <1>3 DEF ScrollUpdateBit, Driven
  <2> QED
    BY <1>0, <2>1, <2>2, DrivenSame DEF InProcess
<1>4. CASE ScrollTaskBit
  <2>1. SameFade(st, st') /\ st'.queue = st.queue /\ st'.bits = st.bits \cup {"scroll"}
    BY <1>4, TaskBitEffect DEF Quiet
  <2>2. /\ mpc = "task" /\ mpc' = "run" /\ vbp' = vbp /\ goal' = goal /\ last' = last
        /\ ret' = ret /\ ret # "step"
    BY <1>0, <1>4 DEF ScrollTaskBit, Driven
  <2> QED
    BY <1>0, <2>1, <2>2, DrivenSame DEF InProcess
<1>5. ASSUME NEW r \in Ranges, NEW src \in Levels, NEW dst \in Levels, NEW n \in NumFrames,
             PAL_fadeAsync(r, src, dst, n) \/ PAL_fadeSync(r, src, dst, n)
      PROVE  Driven'
  <2>1. /\ st'.range = r /\ st'.counter > 0 /\ goal'[r] = dst /\ goal'[r] # NoGoal
        /\ PAL_fadeAsync(r, src, dst, n) => st'.bits = st.bits \cup {"fade"}
        /\ PAL_fadeSync(r, src, dst, n) => st'.bits = st.bits
    BY <1>0, <1>5, FadeEffect
  <2>2. mpc = "run" /\ "fade" \notin st.bits /\ ret = "run"
    BY <1>0, <1>5 DEF PAL_fadeAsync, PAL_fadeSync, MayFade, Driven
  <2>3. CASE PAL_fadeAsync(r, src, dst, n)
    <3>1. last' = "async" /\ mpc' = "run" /\ ret' = "run"
      BY <2>2, <2>3 DEF PAL_fadeAsync
    <3> QED
      BY <2>1, <2>3, <3>1 DEF Driven, InProcess
  <2>4. CASE PAL_fadeSync(r, src, dst, n)
    <3>1. last' = "sync" /\ mpc' = "flush" /\ ret' = "step"
      BY <2>4 DEF PAL_fadeSync
    <3> QED
      BY <2>1, <2>2, <2>4, <3>1 DEF Driven, InProcess
  <2> QED
    BY <1>5, <2>3, <2>4
<1>6. CASE SyncStep
  <2>1. /\ st' = FadeStepped(st) /\ st'.bits = st.bits
        /\ ret' = IF st'.counter > 0 THEN "step" ELSE "run"
    BY <1>6, SyncEffect
  <2>2. st'.range = st.range
    BY <1>0, <2>1, SteppedFields
  <2>3. mpc = "step" /\ mpc' = "flush" /\ goal' = goal /\ last' = last
    BY <1>6 DEF SyncStep
  <2>4. last = "sync"
    BY <1>0, <2>3 DEF Driven
  <2> QED
    BY <1>0, <2>1, <2>2, <2>3, <2>4 DEF Driven, InProcess
<1>7. CASE PAL_interruptFade
  <2>1. /\ SameFade(st, st') /\ st'.bits = st.bits \ {"fade"}
        /\ st.range \in Ranges => goal'[st.range] = NoGoal
        /\ \A r \in Ranges : r # st.range => goal'[r] = goal[r]
    BY <1>7, InterruptEffect DEF Quiet
  <2>2. st'.range = st.range /\ st'.counter = st.counter
    BY <2>1 DEF SameFade
  <2>3. mpc = "run" /\ mpc' = "run" /\ "fade" \in st.bits /\ ret' = ret /\ last' = last
    BY <1>7 DEF PAL_interruptFade
  <2>4. last # "sync" /\ ret # "step"
    BY <1>0, <2>3 DEF Driven
  <2>5. st.counter > 0 => st.range \in Ranges
    BY <1>0 DEF FadeFits
  <2> QED
    BY <1>0, <2>1, <2>2, <2>3, <2>4, <2>5 DEF Driven, InProcess
<1>8. CASE SYS_doVBlankProcess
  <2>1. /\ mpc = "run" /\ mpc' = "flush" /\ ret' = "run" /\ ret = "run"
        /\ st' = st /\ goal' = goal /\ last' = last
    BY <1>0, <1>8 DEF SYS_doVBlankProcess, Driven
  <2> QED
    BY <1>0, <2>1 DEF Driven, InProcess
<1>9. CASE Process
  <2>1. CASE ProcessStep("flush", "scroll", DoFlush(st))
    <3>1. SameFade(st, st') /\ st'.bits = st.bits /\ vbp' = st.bits /\ st'.queue = {}
      BY <2>1, FlushEffect
    <3>2. /\ mpc = "flush" /\ mpc' = "scroll" /\ ret' = ret /\ goal' = goal /\ last' = last
          /\ st'.range = st.range /\ st'.counter = st.counter
      BY <2>1, <3>1 DEF ProcessStep, SameFade
    <3> QED
      BY <1>0, <3>1, <3>2 DEF Driven, InProcess
  <2>2. CASE ProcessStep("scroll", "fade", DoScroll([st |-> st, vbp |-> vbp]))
    <3>1. /\ SameFade(st, st') /\ st'.bits = st.bits /\ st'.queue = st.queue
          /\ "fade" \in vbp' <=> "fade" \in vbp
      BY <2>2, ScrollEffect
    <3>2. /\ mpc = "scroll" /\ mpc' = "fade" /\ ret' = ret /\ goal' = goal /\ last' = last
          /\ st'.range = st.range /\ st'.counter = st.counter
      BY <2>2, <3>1 DEF ProcessStep, SameFade
    <3> QED
      BY <1>0, <3>1, <3>2 DEF Driven, InProcess
  <2>3. CASE ProcessStep("fade", "store", DoFade([st |-> st, vbp |-> vbp]))
    <3>1. /\ st'.bits = st.bits /\ st'.range = st.range
          /\ "fade" \notin vbp => st' = st /\ vbp' = vbp
          /\ "fade" \in vbp => st' = FadeStepped(st) /\ ("fade" \in vbp' <=> st'.counter > 0)
      BY <2>3, FadeStepEffect
    <3>2. /\ mpc = "fade" /\ mpc' = "store" /\ ret' = ret /\ goal' = goal /\ last' = last
      BY <2>3 DEF ProcessStep
    <3>3. CASE "fade" \notin vbp
      BY <1>0, <3>1, <3>2, <3>3 DEF Driven, InProcess
    <3>4. CASE "fade" \in vbp
      <4>1. st'.counter > 0 => st.counter > 0
        BY <1>0, <3>1, <3>4, SteppedFields
      <4>2. last # "sync"
        BY <1>0, <3>2, <3>4 DEF Driven, InProcess
      <4> QED
        BY <1>0, <3>1, <3>2, <3>4, <4>1, <4>2 DEF Driven, InProcess
    <3> QED
      BY <3>3, <3>4
  <2>4. CASE ProcessStep("store", ret, DoStore([st |-> st, vbp |-> vbp]))
    <3>1. SameFade(st, st') /\ st'.bits = vbp /\ st'.queue = st.queue
      BY <2>4, StoreEffect
    <3>2. /\ mpc = "store" /\ mpc' = ret /\ ret' = ret /\ goal' = goal /\ last' = last
          /\ st'.range = st.range /\ st'.counter = st.counter
      BY <2>4, <3>1 DEF ProcessStep, SameFade
    <3> QED
      BY <1>0, <3>1, <3>2 DEF Driven, InProcess
  <2> QED
    BY <1>9, <2>1, <2>2, <2>3, <2>4 DEF Process
<1>10. CASE VIntProcess
  <2>1. /\ st'.range = st.range
        /\ "fade" \notin st.bits =>
             SameFade(st, st') /\ st'.queue = {} /\ "fade" \notin st'.bits
        /\ "fade" \in st.bits =>
             \E s \in Shared : /\ SameFade(st, s) /\ s.queue = {} /\ FadeFits(s)
                               /\ SameFade(FadeStepped(s), st')
                               /\ st'.queue = FadeStepped(s).queue
                               /\ "fade" \in st'.bits <=> st'.counter > 0
    BY <1>10, VIntEffect
  <2>2. mpc' = mpc /\ ret' = ret /\ vbp' = vbp /\ goal' = goal /\ last' = last
    BY <1>10 DEF VIntProcess
  <2>3. CASE "fade" \notin st.bits
    <3>1. st'.counter = st.counter
      BY <2>1, <2>3 DEF SameFade
    <3> QED
      BY <1>0, <2>1, <2>2, <2>3, <3>1 DEF Driven, InProcess
  <2>4. CASE "fade" \in st.bits
    <3> PICK s \in Shared : /\ SameFade(st, s) /\ FadeFits(s)
                            /\ SameFade(FadeStepped(s), st')
                            /\ "fade" \in st'.bits <=> st'.counter > 0
      BY <2>1, <2>4
    <3>1. /\ s.counter = 0 => FadeStepped(s) = s
          /\ s.counter > 0 => FadeStepped(s).counter = s.counter - 1
      BY SteppedFields
    <3>2. s.counter = st.counter /\ st'.counter = FadeStepped(s).counter
      BY DEF SameFade
    <3>3. st'.counter > 0 => st.counter > 0
      BY <1>0, <3>1, <3>2
    <3>4. last # "sync"
      BY <1>0, <2>4 DEF Driven
    <3> QED
      BY <1>0, <2>1, <2>2, <2>4, <3>3, <3>4 DEF Driven, InProcess
  <2> QED
    BY <2>3, <2>4
<1>11. CASE UNCHANGED vars
  BY <1>0, <1>11 DEF vars, Driven, InProcess
<1> QED
  BY <1>1, <1>2, <1>3, <1>4, <1>5, <1>6, <1>7, <1>8, <1>9, <1>10, <1>11 DEF Next

LEMMA FadesEnd == TypeInv /\ FadeInv => FadesComplete
<1> SUFFICES ASSUME TypeInv, FadeInv PROVE FadesComplete
  OBVIOUS
<1>1. Aims /\ Driven /\ st.counter \in Nat /\ st.queue \subseteq {st.range}
  BY DEF TypeInv, TypeOK, FadeInv, Aims, Shared
<1>2. FadeLands
  <2> SUFFICES ASSUME NEW r \in Ranges, goal[r] # NoGoal, r \notin st.queue,
                      ~(r = st.range /\ st.counter > 0)
               PROVE  st.cram[r] = goal[r]
    BY DEF FadeLands
  <2>1. CASE r # st.range
    BY <1>1, <2>1 DEF Aims
  <2>2. CASE r = st.range
    <3>1. st.counter = 0 /\ st.queue = {}
      BY <1>1, <2>2
    <3> QED
      BY <1>1, <2>2, <3>1 DEF Aims
  <2> QED
    BY <2>1, <2>2
<1>3. SyncIsComplete
  <2> SUFFICES ASSUME mpc = "run", last = "sync"
               PROVE  st.queue = {} /\ st.cram[st.range] = goal[st.range]
    BY DEF SyncIsComplete
  <2>1. /\ st.range \in Ranges /\ goal[st.range] # NoGoal /\ ret # "step"
        /\ ~(st.counter > 0) /\ st.queue = {}
    BY <1>1 DEF Driven
  <2>2. st.counter = 0
    BY <1>1, <2>1
  <2> QED
    BY <1>1, <2>1, <2>2 DEF Aims
<1> QED
  BY <1>2, <1>3 DEF FadesComplete

\* Every fade of at most 128 frames that is not interrupted ends with its range
\* on the destination palette, and PAL_fade without async returns with those
\* colours on the screen, for every number of ranges, every palette and every
\* such length: the division of PAL_initFade and the accumulated steps never
\* show in the end, whoever ran the process.  The program lets the last colours
\* of a fade be sent before it starts another.
THEOREM VBlankFades ==
  ASSUME WaitsForQueue = TRUE, \A n \in NumFrames : n <= 128
  PROVE  Spec => []FadesComplete
<1>1. Init => TypeInv /\ FadeInv
  BY InitTypes, InitFade
<1>2. TypeInv /\ FadeInv /\ [Next]_vars => (TypeInv /\ FadeInv)'
  <2>1. TypeInv /\ FadeInv /\ [Next]_vars => Aims'
    BY AimsNext
  <2>2. TypeInv /\ FadeInv /\ [Next]_vars => Driven'
    BY DrivenNext
  <2> QED
    BY <2>1, <2>2, TypeStep DEF FadeInv
<1> QED
  BY <1>1, <1>2, FadesEnd, PTL DEF Spec

-----------------------------------------------------------------------------
(***************************************************************************)
(* The task switch and the interrupt mask (Task)                           *)
(***************************************************************************)

\* The user task has the CPU only while the supervisor task is blocked, and
\* only then is it in the trap's handler or lost.
BlockedWhileUserRuns ==
  /\ running = "user" => superAt # "run"
  /\ userAt \in {"trapped", "lost"} => running = "user"

\* While TSK_superPend is pending, the lock is what is left of the wait, or 0
\* once the user task has posted.
PendCounts ==
  superAt = "pend" =>
    /\ wait \in Waits /\ frames < wait
    /\ IF posted THEN task_lock = 0 ELSE task_lock = wait - frames

\* The nesting counter counts the supervisor task's calls, and the saved level
\* is the one that was in force outside them.
MaskCounts ==
  /\ disableIntStack = calls
  /\ IF calls = 0 THEN mask = 3 ELSE mask = 7 /\ intLevelSave = 3

TInv ==
  /\ TaskTypeOK
  /\ BlockedWhileUserRuns
  /\ PendCounts
  /\ MaskCounts
  /\ TimeoutIsExact

\* The start-up state.
LEMMA InitTInv == TaskInit => TInv
<1> SUFFICES ASSUME TaskInit PROVE TInv
  OBVIOUS
<1>1. /\ immediate \in BOOLEAN /\ task_pc \in BOOLEAN /\ intTrace \in BOOLEAN
      /\ posted \in BOOLEAN /\ leftover \in BOOLEAN
  BY Zenon DEF TaskInit
<1>2. lastPend \in [ret : {0, 1}, wait : Waits \cup {0}, frames : 0 .. Forever,
                posted : BOOLEAN, leftover : BOOLEAN]
  BY TaskAssumption DEF TaskInit, NoReturn, Forever
<1>3. TaskTypeOK
  BY <1>1, <1>2, TaskAssumption DEF TaskInit, TaskTypeOK, Forever
<1> QED
  BY <1>3 DEF TaskInit, TInv, BlockedWhileUserRuns, PendCounts, MaskCounts, TimeoutIsExact, NoReturn

\* What SYS_disableInts and SYS_enableInts do to the mask.
LEMMA CriticalKeepsTInv ==
  ASSUME TInv, EnterCritical \/ LeaveCritical
  PROVE  TInv'
<1>1. TaskTypeOK'
  BY TaskAssumption
     DEF TInv, TaskTypeOK, MaskCounts, EnterCritical, LeaveCritical, SYS_disableInts,
         SYS_enableInts, SuperRuns, taskVars, history
<1>2. MaskCounts'
  BY TaskAssumption
     DEF TInv, TaskTypeOK, MaskCounts, EnterCritical, LeaveCritical, SYS_disableInts,
         SYS_enableInts, SuperRuns
<1>3. BlockedWhileUserRuns' /\ PendCounts' /\ TimeoutIsExact'
  BY DEF TInv, BlockedWhileUserRuns, PendCounts, TimeoutIsExact, EnterCritical,
         LeaveCritical, taskVars, history
<1> QED
  BY <1>1, <1>2, <1>3 DEF TInv

\* One frame of the interrupt handler: the wait is counted down by one, and the
\* supervisor task is resumed when it reaches 0 or was posted.
LEMMA VIntKeepsTInv ==
  ASSUME TInv, VInt
  PROVE  TInv'
<1> USE TaskAssumption DEF Forever
<1>0. /\ TaskTypeOK /\ BlockedWhileUserRuns /\ PendCounts /\ MaskCounts /\ TimeoutIsExact
      /\ intTrace' = TRUE
      /\ frames' = IF UserMode /\ superAt = "pend" THEN frames + 1 ELSE frames
      /\ UNCHANGED <<userAt, immediate, maskVars, wait, posted, leftover, stopped>>
  BY DEF TInv, VInt
<1>1. MaskCounts'
  BY <1>0 DEF MaskCounts, maskVars
<1>2. frames' \in 0 .. Forever
  BY <1>0 DEF TaskTypeOK, PendCounts
<1>a. UserMode => running = "user" /\ userAt \notin {"trapped", "lost"}
  BY DEF VInt, VIntTaken, UserMode
<1>3. CASE ~UserMode
  <2>1. UNCHANGED <<running, superAt, task_pc, task_lock, lastPend, frames>>
    BY <1>0, <1>3 DEF VInt
  <2>2. TaskTypeOK'
    BY <1>0, <1>2, <2>1 DEF TaskTypeOK, maskVars
  <2> QED
    BY <1>0, <1>1, <2>1, <2>2 DEF TInv, BlockedWhileUserRuns, PendCounts, TimeoutIsExact
<1>4. CASE UserMode /\ SwitchesAtZero
  <2>1. Resume(0) /\ UNCHANGED task_lock /\ task_lock = 0
    BY <1>0, <1>4 DEF VInt, SwitchesAtZero, SwitchesOnTimeout
  <2>2. /\ running' = "super" /\ superAt' = "run" /\ task_pc' = TRUE
        /\ lastPend' = IF superAt = "pend"
                   THEN [ret |-> 0, wait |-> wait, frames |-> frames', posted |-> posted,
                         leftover |-> leftover]
                   ELSE lastPend
    BY <2>1 DEF Resume
  <2>3. TaskTypeOK'
    BY <1>0, <1>2, <2>1, <2>2 DEF TaskTypeOK, maskVars
  <2>4. TimeoutIsExact'
    BY <1>0, <2>2 DEF TimeoutIsExact
  <2> QED
    BY <1>0, <1>1, <1>a, <1>4, <2>2, <2>3, <2>4 DEF TInv, BlockedWhileUserRuns, PendCounts
<1>5. CASE UserMode /\ SwitchesOnTimeout
  <2>1. Resume(1) /\ task_lock' = LockAfter /\ task_lock # 0 /\ LockAfter = 0
    BY <1>0, <1>5 DEF VInt, SwitchesAtZero, SwitchesOnTimeout
  <2>2. /\ running' = "super" /\ superAt' = "run" /\ task_pc' = TRUE
        /\ lastPend' = IF superAt = "pend"
                   THEN [ret |-> 1, wait |-> wait, frames |-> frames', posted |-> posted,
                         leftover |-> leftover]
                   ELSE lastPend
    BY <2>1 DEF Resume
  <2>3. task_lock = 1
    BY <1>0, <2>1 DEF LockAfter, TaskTypeOK
  <2>4. TaskTypeOK'
    BY <1>0, <1>2, <2>1, <2>2 DEF TaskTypeOK, maskVars
  <2>5. superAt = "pend" => ~posted /\ frames' = wait
    BY <1>0, <1>5, <2>3 DEF PendCounts, TaskTypeOK
  <2>6. TimeoutIsExact'
    BY <1>0, <2>2, <2>5 DEF TimeoutIsExact
  <2> QED
    BY <1>0, <1>1, <1>a, <1>5, <2>2, <2>4, <2>6 DEF TInv, BlockedWhileUserRuns, PendCounts
<1>6. CASE UserMode /\ ~SwitchesAtZero /\ ~SwitchesOnTimeout
  <2>1. /\ task_lock' = LockAfter /\ UNCHANGED <<running, superAt, task_pc, lastPend>>
        /\ task_lock # 0 /\ LockAfter # 0
    BY <1>0, <1>6 DEF VInt, SwitchesAtZero, SwitchesOnTimeout
  <2>2. LockAfter = task_lock - 1 /\ LockAfter \in 0 .. Forever
    BY <1>0, <2>1 DEF LockAfter, TaskTypeOK
  <2>3. TaskTypeOK'
    BY <1>0, <1>2, <2>1, <2>2 DEF TaskTypeOK, maskVars
  <2>4. PendCounts'
    BY <1>0, <1>6, <2>1, <2>2 DEF PendCounts, TaskTypeOK
  <2> QED
    BY <1>0, <1>1, <2>1, <2>3, <2>4 DEF TInv, BlockedWhileUserRuns, TimeoutIsExact
<1> QED
  BY <1>3, <1>4, <1>5, <1>6

\* Every step keeps the invariant.
LEMMA NextTInv == TInv /\ [TaskNext]_schedulerVars => TInv'
<1> SUFFICES ASSUME TInv, [TaskNext]_schedulerVars PROVE TInv'
  OBVIOUS
<1> USE TaskAssumption DEF Forever
<1>0. TaskTypeOK /\ BlockedWhileUserRuns /\ PendCounts /\ MaskCounts /\ TimeoutIsExact
  BY DEF TInv
<1>1. ASSUME TSK_userSet PROVE TInv'
  <2>1. task_pc' \in BOOLEAN
    BY <1>1, Zenon DEF TSK_userSet
  <2> QED
    BY <1>0, <1>1, <2>1 DEF TInv, TaskTypeOK, BlockedWhileUserRuns, PendCounts, MaskCounts,
                    TimeoutIsExact, TSK_userSet, maskVars
<1>2. ASSUME NEW c \in StopCallers, TSK_stop(c) PROVE TInv'
  <2>1. task_pc' \in BOOLEAN
    BY <1>2, Zenon DEF TSK_stop
  <2> QED
    BY <1>0, <1>2, <2>1 DEF TInv, TaskTypeOK, BlockedWhileUserRuns, PendCounts, MaskCounts,
                    TimeoutIsExact, TSK_stop, maskVars
<1>3. ASSUME TSK_userYield PROVE TInv'
  BY <1>0, <1>3 DEF TInv, TaskTypeOK, BlockedWhileUserRuns, PendCounts, MaskCounts,
                    TimeoutIsExact, TSK_userYield, maskVars, history
<1>13. ASSUME UserYield PROVE TInv'
  BY <1>0, <1>13 DEF TInv, TaskTypeOK, BlockedWhileUserRuns, PendCounts, MaskCounts,
                     TimeoutIsExact, UserYield, Switching, maskVars, history
<1>4. ASSUME NEW w \in Waits, TSK_superPend(w) PROVE TInv'
  <2>1. w \in 1 .. Forever
    OBVIOUS
  <2>0. posted' \in BOOLEAN /\ leftover' \in BOOLEAN
    BY <1>4, Zenon DEF TSK_superPend
  <2>2. TaskTypeOK'
    BY <1>0, <1>4, <2>0, <2>1 DEF TaskTypeOK, TSK_superPend, maskVars
  <2>3. PendCounts'
    BY <1>4, <2>1 DEF PendCounts, TSK_superPend
  <2> QED
    BY <1>0, <1>4, <2>2, <2>3 DEF TInv, BlockedWhileUserRuns, MaskCounts,
                    TimeoutIsExact, TSK_superPend, maskVars
<1>5. ASSUME EnterCritical \/ LeaveCritical PROVE TInv'
  BY <1>5, CriticalKeepsTInv
<1>6. ASSUME NEW imm \in ImmediatePosts, TSK_superPost(imm) PROVE TInv'
  BY <1>0, <1>6 DEF TInv, TaskTypeOK, BlockedWhileUserRuns, PendCounts, MaskCounts,
                    TimeoutIsExact, TSK_superPost, maskVars, history
<1>7. ASSUME PostClears PROVE TInv'
  BY <1>0, <1>7 DEF TInv, TaskTypeOK, BlockedWhileUserRuns, PendCounts, MaskCounts,
                    TimeoutIsExact, PostClears, maskVars
<1>14. ASSUME Trap0 PROVE TInv'
  BY <1>0, <1>14 DEF TInv, TaskTypeOK, BlockedWhileUserRuns, PendCounts, MaskCounts,
                     TimeoutIsExact, Trap0, UserRuns, maskVars, history
<1>8. ASSUME Trap0Switches PROVE TInv'
  <2>1. /\ running' = "super" /\ superAt' = "run" /\ task_pc' = TRUE /\ userAt' = "run"
        /\ lastPend' = IF superAt = "pend"
                   THEN [ret |-> 0, wait |-> wait, frames |-> frames, posted |-> posted,
                         leftover |-> leftover]
                   ELSE lastPend
        /\ UNCHANGED <<immediate, task_lock, intTrace, maskVars, wait, frames, posted, leftover, stopped>>
    BY <1>8 DEF Trap0Switches, Resume
  <2>2. TaskTypeOK'
    BY <1>0, <2>1 DEF TaskTypeOK, maskVars
  <2>3. TimeoutIsExact'
    BY <1>0, <2>1 DEF TimeoutIsExact
  <2> QED
    BY <1>0, <2>1, <2>2, <2>3 DEF TInv, BlockedWhileUserRuns, PendCounts, MaskCounts, maskVars
<1>9. ASSUME VInt PROVE TInv'
  BY <1>9, VIntKeepsTInv
<1>10. ASSUME CallbackDisablesInts \/ CallbackEnablesInts PROVE TInv'
  <2>1. UNCHANGED schedulerVars
    BY <1>10 DEF CallbackDisablesInts, CallbackEnablesInts, CallbackRuns, SYS_disableInts,
                 SYS_enableInts, schedulerVars, maskVars
  <2> QED
    BY <1>0, <2>1 DEF TInv, TaskTypeOK, BlockedWhileUserRuns, PendCounts, MaskCounts,
                      TimeoutIsExact, schedulerVars, taskVars, maskVars, history
<1>11. ASSUME VIntReturns PROVE TInv'
  <2>1. intTrace' \in BOOLEAN
    BY <1>11, Zenon DEF VIntReturns
  <2> QED
    BY <1>0, <1>11, <2>1 DEF TInv, TaskTypeOK, BlockedWhileUserRuns, PendCounts, MaskCounts,
                     TimeoutIsExact, VIntReturns, taskVars, maskVars, history
<1>12. CASE UNCHANGED schedulerVars \/ Lost
  BY <1>0, <1>12 DEF TInv, TaskTypeOK, BlockedWhileUserRuns, PendCounts, MaskCounts,
                     TimeoutIsExact, Lost, schedulerVars, taskVars, maskVars, history
<1> QED
  BY <1>1, <1>2, <1>3, <1>4, <1>5, <1>6, <1>7, <1>8, <1>9, <1>10, <1>11, <1>12, <1>13, <1>14
     DEF TaskNext

\* The invariant holds throughout.
THEOREM TaskInvariant == TaskSpec => []TInv
  BY InitTInv, NextTInv, PTL DEF TaskSpec

\* The variables keep their types; in particular the nesting counter of
\* SYS_disableInts never goes below 0 while calls are balanced.
THEOREM TaskTypes == TaskSpec => []TaskTypeOK
<1>1. TInv => TaskTypeOK
  BY DEF TInv
<1> QED
  BY <1>1, TaskInvariant, PTL

\* A timeout of TSK_superPend comes after exactly the frames asked for, whatever
\* immediate posts, stops and nested critical sections come in between.
THEOREM TaskTimeouts == TaskSpec => []TimeoutIsExact
<1>1. TInv => TimeoutIsExact
  BY DEF TInv
<1> QED
  BY <1>1, TaskInvariant, PTL

\* SYS_disableInts and SYS_enableInts nest: inside, no interrupt is taken by the
\* supervisor task; outside, interrupts are enabled.
THEOREM TaskMasking == TaskSpec => []MaskingNests
<1>1. TInv => MaskingNests
  <2> SUFFICES ASSUME TInv PROVE MaskingNests
    OBVIOUS
  <2>1. MaskCounts /\ TaskTypeOK
    BY DEF TInv
  <2>2. calls # 0 => mask = 7
    BY <2>1 DEF MaskCounts
  <2>3. CriticalIsQuiet
    <3> SUFFICES ASSUME calls > 0, running = "super" PROVE ~VIntTaken
      BY DEF CriticalIsQuiet
    <3>1. mask = 7
      BY <2>1, <2>2 DEF TaskTypeOK
    <3> QED
      BY <3>1 DEF VIntTaken
  <2>4. IntsComeBack
    BY <2>1 DEF IntsComeBack, MaskCounts
  <2> QED
    BY <2>1, <2>3, <2>4 DEF MaskingNests
<1> QED
  BY <1>1, TaskInvariant, PTL

-----------------------------------------------------------------------------
(* How TSK_superPend ends *)

\* A trap on its way ends the blocked call it meets.  It meets a TSK_superPend
\* that has not been posted only when it was on its way before the call.
TrapIsKnown ==
  superAt = "pend" /\ userAt \in {"trap", "trapped"} => posted \/ leftover

\* _VINT leaves the lock at 0 when it resumes the supervisor task: outside
\* TSK_superPend a lock is what a leftover trap did not clear.
LockIsKnown == superAt # "pend" => task_lock = 0 \/ EndedByLeftover

WInv == TrapIsKnown /\ LockIsKnown /\ WokenByPost

\* The start-up state.
LEMMA InitWInv == TaskInit => WInv
  BY DEF TaskInit, WInv, TrapIsKnown, LockIsKnown, WokenByPost, NoReturn

\* Every step keeps WInv.
LEMMA NextWInv ==
  ASSUME TInv, WInv, [TaskNext]_schedulerVars
  PROVE  WInv'
<1> USE TaskAssumption DEF Forever
<1>0. /\ TaskTypeOK /\ PendCounts /\ BlockedWhileUserRuns
      /\ TrapIsKnown /\ LockIsKnown /\ WokenByPost
  BY DEF TInv, WInv
<1>a. ASSUME UNCHANGED <<superAt, task_lock, lastPend, userAt, posted, leftover>> PROVE WInv'
  BY <1>0, <1>a DEF WInv, TrapIsKnown, LockIsKnown, WokenByPost, EndedByLeftover
<1>1. ASSUME TSK_userSet PROVE WInv'
  BY <1>0, <1>1 DEF TSK_userSet, WInv, TrapIsKnown, LockIsKnown, WokenByPost, EndedByLeftover
<1>2. ASSUME NEW c \in StopCallers, TSK_stop(c) PROVE WInv'
  BY <1>a, <1>2 DEF TSK_stop
<1>12. ASSUME UserYield PROVE WInv'
  BY <1>0, <1>12 DEF UserYield, WInv, TrapIsKnown, LockIsKnown, WokenByPost, EndedByLeftover,
                     history
<1>13. ASSUME Trap0 PROVE WInv'
  BY <1>0, <1>13 DEF Trap0, WInv, TrapIsKnown, LockIsKnown, WokenByPost, EndedByLeftover, history
<1>3. ASSUME TSK_userYield PROVE WInv'
  <2>1. superAt # "pend"
    BY <1>3 DEF TSK_userYield, SuperRuns
  <2> QED
    BY <1>0, <1>3, <2>1 DEF TSK_userYield, WInv, TrapIsKnown, LockIsKnown, WokenByPost,
                            EndedByLeftover, history
<1>4. ASSUME NEW w \in Waits, TSK_superPend(w) PROVE WInv'
  <2>1. userAt # "trapped"
    BY <1>0, <1>4 DEF TSK_superPend, SuperRuns, BlockedWhileUserRuns
  <2> QED
    BY <1>0, <1>4, <2>1 DEF TSK_superPend, WInv, TrapIsKnown, LockIsKnown, WokenByPost,
                            EndedByLeftover
<1>5. ASSUME EnterCritical \/ LeaveCritical PROVE WInv'
  BY <1>a, <1>5 DEF EnterCritical, LeaveCritical, taskVars, history
<1>6. ASSUME NEW imm \in ImmediatePosts, TSK_superPost(imm) PROVE WInv'
  BY <1>0, <1>6 DEF TSK_superPost, WInv, TrapIsKnown, LockIsKnown, WokenByPost,
                    EndedByLeftover, history
<1>7. ASSUME PostClears PROVE WInv'
  BY <1>0, <1>7 DEF PostClears, WInv, TrapIsKnown, LockIsKnown, WokenByPost, EndedByLeftover
<1>8. ASSUME Trap0Switches PROVE WInv'
  <2>1. /\ superAt' = "run" /\ userAt' = "run" /\ UNCHANGED <<task_lock, posted, leftover>>
        /\ userAt = "trapped"
        /\ lastPend' = IF superAt = "pend"
                   THEN [ret |-> 0, wait |-> wait, frames |-> frames, posted |-> posted,
                         leftover |-> leftover]
                   ELSE lastPend
    BY <1>8 DEF Trap0Switches, Resume
  <2>2. CASE superAt = "pend"
    <3>1. lastPend'.ret = 0 /\ lastPend'.posted = posted /\ lastPend'.leftover = leftover
      BY <2>1, <2>2
    <3>2. WokenByPost'
      BY <1>0, <2>1, <2>2, <3>1 DEF TrapIsKnown, WokenByPost, EndedByLeftover
    <3>3. LockIsKnown'
      <4>1. posted => task_lock = 0
        BY <1>0, <2>2 DEF PendCounts
      <4> QED
        BY <1>0, <2>1, <2>2, <3>1, <4>1 DEF TrapIsKnown, LockIsKnown, EndedByLeftover
    <3> QED
      BY <2>1, <3>2, <3>3 DEF WInv, TrapIsKnown
  <2>3. CASE superAt # "pend"
    BY <1>0, <2>1, <2>3 DEF WInv, TrapIsKnown, LockIsKnown, WokenByPost, EndedByLeftover
  <2> QED
    BY <2>2, <2>3
<1>9. ASSUME VInt PROVE WInv'
  <2>0. UNCHANGED <<userAt, wait, posted, leftover>>
    BY <1>9 DEF VInt
  <2>1. CASE ~UserMode
    BY <1>a, <1>9, <2>0, <2>1 DEF VInt
  <2>2. CASE UserMode /\ SwitchesAtZero
    <3>1. Resume(0) /\ UNCHANGED task_lock /\ task_lock = 0
      BY <1>9, <2>2 DEF VInt, SwitchesAtZero, SwitchesOnTimeout
    <3>2. superAt = "pend" => posted
      BY <1>0, <3>1 DEF PendCounts, TaskTypeOK
    <3> QED
      BY <1>0, <2>0, <3>1, <3>2 DEF Resume, WInv, TrapIsKnown, LockIsKnown, WokenByPost,
                                    EndedByLeftover
  <2>3. CASE UserMode /\ SwitchesOnTimeout
    <3>1. Resume(1) /\ task_lock' = 0
      BY <1>0, <1>9, <2>3 DEF VInt, SwitchesAtZero, SwitchesOnTimeout
    <3> QED
      BY <1>0, <2>0, <3>1 DEF Resume, WInv, TrapIsKnown, LockIsKnown, WokenByPost,
                              EndedByLeftover
  <2>4. CASE UserMode /\ ~SwitchesAtZero /\ ~SwitchesOnTimeout
    <3>1. UNCHANGED <<superAt, lastPend>> /\ task_lock # 0
      BY <1>9, <2>4 DEF VInt, SwitchesAtZero, SwitchesOnTimeout
    <3> QED
      BY <1>0, <2>0, <3>1 DEF WInv, TrapIsKnown, LockIsKnown, WokenByPost, EndedByLeftover
  <2> QED
    BY <2>1, <2>2, <2>3, <2>4
<1>10. ASSUME CallbackDisablesInts \/ CallbackEnablesInts \/ VIntReturns PROVE WInv'
  BY <1>a, <1>10 DEF CallbackDisablesInts, CallbackEnablesInts, VIntReturns, taskVars, history
<1>11. CASE UNCHANGED schedulerVars \/ Lost
  BY <1>a, <1>11 DEF Lost, schedulerVars, taskVars, history
<1> QED
  BY <1>1, <1>2, <1>3, <1>4, <1>5, <1>6, <1>7, <1>8, <1>9, <1>10, <1>11, <1>12, <1>13
     DEF TaskNext

\* TSK_superPend returns 1 exactly at its timeout, and 0 only after a post or
\* through a trap that was on its way before the call; only such a trap leaves
\* a lock for a later yield.
THEOREM TaskWakeups == TaskSpec => []PendsEndRight
<1>1. TInv /\ WInv /\ [TaskNext]_schedulerVars => WInv'
  BY NextWInv
<1>2. TimeoutIsExact /\ WInv => PendsEndRight
  BY DEF WInv, LockIsKnown, YieldLastsOneFrame, PendsEndRight
<1> QED
  BY <1>1, <1>2, InitWInv, TaskInvariant, TaskTimeouts, PTL DEF TaskSpec

-----------------------------------------------------------------------------
(* TSK_stop *)

\* A user task that was stopped while it waited has no task_pc and still waits.
StoppedWaits == stopped = "idle" => task_pc = FALSE /\ running = "super" /\ superAt = "run"

\* A switch on its way has tested task_pc: it is gone only when a callback
\* stopped the task since.
SwitchHasTask == Switching /\ task_pc = FALSE => stopped = "late"

StopInv == StoppedWaits /\ SwitchHasTask

\* Every step keeps StopInv.
LEMMA NextStopped ==
  ASSUME TInv, StopInv, [TaskNext]_schedulerVars
  PROVE  StopInv'
<1> USE DEF StopInv, StoppedWaits, SwitchHasTask, Switching
<1>0. TaskTypeOK
  BY DEF TInv
<1>1. ASSUME NEW c \in StopCallers, TSK_stop(c) PROVE StopInv'
  BY <1>0, <1>1 DEF TSK_stop, TaskTypeOK
<1>2. ASSUME VInt PROVE StopInv'
  <2>1. CASE ~UserMode
    BY <1>2, <2>1 DEF VInt
  <2>2. CASE UserMode
    BY <1>2, <2>2 DEF VInt, UserMode, Resume
  <2> QED
    BY <2>1, <2>2
<1>3. ASSUME UserRuns, UNCHANGED <<running, task_pc, stopped>> PROVE StopInv'
  BY <1>3 DEF UserRuns
<1>4. ASSUME TSK_userSet PROVE StopInv'
  BY <1>4 DEF TSK_userSet
<1>5. ASSUME TSK_userYield PROVE StopInv'
  BY <1>5 DEF TSK_userYield, history
<1>6. ASSUME NEW w \in Waits, TSK_superPend(w) PROVE StopInv'
  BY <1>6 DEF TSK_superPend
<1>7. ASSUME UserYield PROVE StopInv'
  BY <1>7 DEF UserYield, history
<1>8. ASSUME \/ EnterCritical \/ LeaveCritical \/ CallbackDisablesInts
             \/ CallbackEnablesInts \/ VIntReturns \/ Lost \/ UNCHANGED schedulerVars
      PROVE  StopInv'
  BY <1>8 DEF EnterCritical, LeaveCritical, CallbackDisablesInts, CallbackEnablesInts,
              VIntReturns, Lost, schedulerVars, taskVars, history
<1>9. ASSUME NEW imm \in ImmediatePosts, TSK_superPost(imm) PROVE StopInv'
  BY <1>3, <1>9 DEF TSK_superPost, history
<1>10. ASSUME PostClears \/ Trap0 PROVE StopInv'
  BY <1>3, <1>10 DEF PostClears, Trap0, history
<1>11. ASSUME Trap0Switches PROVE StopInv'
  BY <1>11 DEF Trap0Switches, UserRuns, Resume
<1> QED
  BY <1>1, <1>2, <1>4, <1>5, <1>6, <1>7, <1>8, <1>9, <1>10, <1>11 DEF TaskNext

\* The CPU goes to the user task only through the switch of TSK_userYield, where
\* no stopped task arrives unless it was stopped on the way.
LEMMA StoppedNotResumed ==
  ASSUME TInv, StopInv, [TaskNext]_schedulerVars
  PROVE  [running = "super" /\ running' = "user"
            => stopped # "idle" /\ (userAt' = "lost" => stopped = "late")]_schedulerVars
<1> SUFFICES ASSUME TaskNext, running = "super", running' = "user"
             PROVE  stopped # "idle" /\ (userAt' = "lost" => stopped = "late")
  OBVIOUS
<1>1. UserYield
  BY DEF TaskNext, TSK_userSet, TSK_stop, TSK_userYield, TSK_superPend, EnterCritical,
         LeaveCritical, TSK_superPost, PostClears, Trap0, Trap0Switches, Resume, VInt, UserMode,
         CallbackDisablesInts, CallbackEnablesInts, VIntReturns, Lost, UserRuns, taskVars,
         schedulerVars
<1>2. userAt # "lost" /\ task_pc \in BOOLEAN
  BY DEF TInv, BlockedWhileUserRuns, TaskTypeOK
<1> QED
  BY <1>1, <1>2 DEF UserYield, Switching, StopInv, StoppedWaits, SwitchHasTask

\* A user task that TSK_stop met waiting is not given the CPU before TSK_userSet,
\* whoever called it, and the switch jumps to a task_pc that was cleared only when
\* a callback cleared it between the test and the masking of the interrupts.
THEOREM TaskStops == TaskSpec => StoppedNeverRuns
<1>1. TaskInit => StopInv
  BY DEF TaskInit, StopInv, StoppedWaits, SwitchHasTask, Switching
<1>2. TInv /\ StopInv /\ [TaskNext]_schedulerVars => StopInv'
  BY NextStopped
<1>3. TInv /\ StopInv /\ [TaskNext]_schedulerVars
        => [running = "super" /\ running' = "user"
              => stopped # "idle" /\ (userAt' = "lost" => stopped = "late")]_schedulerVars
  BY StoppedNotResumed
<1> QED
  BY <1>1, <1>2, <1>3, TaskInvariant, PTL DEF TaskSpec, StoppedNeverRuns

-----------------------------------------------------------------------------
(***************************************************************************)
(* The DMA queue (DmaQueue)                                                *)
(***************************************************************************)

\* The types of the queue proper, as a value.
QueueTypes(q) ==
  /\ q.queue \in Seq(Entry) /\ Len(q.queue) <= queueSize
  /\ q.limit \in 0 .. Len(q.queue)
  /\ q.size \in 0 .. WordModulus - 1

Total(q) == TotalCost(q.queue, Len(q.queue))

\* The counter is the real total until it wraps; the limit, once marked, stands
\* before a transfer that went over, and the transfers before it fit.
Counted(q) ==
  /\ Total(q) < WordModulus => q.size = Total(q)
  /\ q.limit # 0 =>
       /\ q.limit < Len(q.queue)
       /\ Total(q) < WordModulus => Total(q) > maxTransferPerFrame
       /\ TotalCost(q.queue, q.limit) < WordModulus
            => TotalCost(q.queue, q.limit) <= maxTransferPerFrame \/ q.limit = 1
  /\ q.limit = 0 /\ Total(q) < WordModulus
       => Total(q) <= maxTransferPerFrame \/ Len(q.queue) <= 1

\* Entry i is one that the flush will not reach.
Beyond(q, i) == ignore /\ q.limit # 0 /\ i > q.limit

\* Every call the queue remembers has been made, and left an entry if it was
\* accepted.
Recorded ==
  /\ \A i \in 1 .. Len(queue) : queue[i].op <= ops
  /\ \A o \in accepted : \E i \in 1 .. Len(queue) : queue[i].op = o

\* Where the entries of refused and of accepted calls stand.
RefusedStand ==
  \A i \in 1 .. Len(queue) :
    queue[i].op \in accepted \/ i = 1 \/ queue[i].half \/ Beyond(Q, i)
AcceptedStand ==
  Total(Q) < WordModulus =>
    \A i \in 1 .. Len(queue) : queue[i].op \in accepted => ~Beyond(Q, i)

\* The program's regions of the temporary buffer lie below its top, apart from
\* each other.
TempRegions ==
  /\ userTemp \subseteq [at : Nat, len : Nat \ {0}]
  /\ \A t \in userTemp : t.at + t.len <= nextDataBuffer
  /\ \A t, u \in userTemp : t = u \/ t.at + t.len <= u.at \/ u.at + u.len <= t.at

\* A transfer from the temporary buffer reads something, at a place in it.
Sources == \A i \in 1 .. Len(queue) : queue[i].at = NoTemp \/ (queue[i].at >= 0 /\ queue[i].len > 0)

BufferInv == DmaTypeOK /\ Recorded /\ TempRegions /\ Sources /\ SourcesDisjoint
IInv ==
  /\ BufferInv
  /\ changed => queue # <<>>
  /\ ~changed => Counted(Q) /\ RefusedStand /\ AcceptedStand

-----------------------------------------------------------------------------
\* The counter's arithmetic: it keeps its width, and below it adds exactly.
LEMMA Wraps ==
  \A a \in Nat, m \in Nat \ {0} : a % m \in 0 .. m - 1 /\ (a < m => a % m = a)
OBVIOUS

\* Totals are natural numbers.
LEMMA TotalTypes ==
  ASSUME NEW s \in Seq(Entry), NEW n \in 0 .. Len(s)
  PROVE  TotalCost(s, n) \in Nat
<1>1. CASE n = 0
  BY <1>1 DEF TotalCost
<1>2. CASE n # 0
  <2>1. n \in 1 .. Len(s)
    BY <1>2
  <2>2. s[n] \in Entry
    BY <2>1
  <2> QED
    BY <1>2, <2>2 DEF TotalCost, Entry
<1> QED
  BY <1>1, <1>2

\* The fields of an entry put in its place.
LEMMA PlacedTypes ==
  ASSUME NEW q, q.queue \in Seq(Entry), NEW e \in Entry
  PROVE  /\ Placed(q, e) \in Entry
         /\ Placed(q, e).sum = TotalCost(q.queue, Len(q.queue)) + e.cost
         /\ Placed(q, e).op = e.op /\ Placed(q, e).half = e.half
         /\ Placed(q, e).at = e.at /\ Placed(q, e).len = e.len
<1>1. TotalCost(q.queue, Len(q.queue)) \in Nat
  BY TotalTypes
<1>2. /\ e = [op |-> e.op, at |-> e.at, len |-> e.len, cost |-> e.cost, half |-> e.half,
              sum |-> e.sum]
      /\ e.op \in 1 .. MaxOps /\ e.at \in Int /\ e.len \in Nat /\ e.cost \in Nat
      /\ e.half \in BOOLEAN
  BY DEF Entry
<1>3. Placed(q, e) = [op |-> e.op, at |-> e.at, len |-> e.len, cost |-> e.cost,
                      half |-> e.half, sum |-> TotalCost(q.queue, Len(q.queue)) + e.cost]
  BY <1>2 DEF Placed
<1> HIDE DEF Placed
<1>4. TotalCost(q.queue, Len(q.queue)) + e.cost \in Nat
  BY <1>1, <1>2
<1> QED
  BY <1>2, <1>3, <1>4 DEF Entry

\* The two results of DMA_queueDmaFast: nothing is queued, or the entry is, at
\* the end, and the call is refused exactly when it goes over an enforced limit.
LEMMA FastCases ==
  ASSUME DmaTypeOK, NEW q, QueueTypes(q), NEW e \in Entry
  PROVE  LET r == DMA_queueDmaFast(q, e)
             n == Len(q.queue)
             size == (q.size + e.cost) % WordModulus
         IN /\ QueueTypes(r.q)
            /\ \/ r.ok = FALSE /\ r.q = q
               \/ /\ r.ok = ~(size > maxTransferPerFrame /\ ignore)
                  /\ Len(r.q.queue) = n + 1
                  /\ \A i \in 1 .. n : r.q.queue[i] = q.queue[i]
                  /\ r.q.queue[n + 1] = Placed(q, e)
                  /\ r.q.size = size
                  /\ r.q.limit = LimitAfter(q, size > maxTransferPerFrame)
<1> DEFINE n == Len(q.queue)
           size == (q.size + e.cost) % WordModulus
           over == size > maxTransferPerFrame
           r == DMA_queueDmaFast(q, e)
           s == Append(q.queue, Placed(q, e))
<1>0. /\ q.queue \in Seq(Entry) /\ n \in Nat /\ n <= queueSize /\ queueSize \in Nat
      /\ q.limit \in 0 .. n /\ q.size \in Nat /\ e.cost \in Nat
      /\ WordModulus \in Nat \ {0}
  BY DmaSizes DEF QueueTypes, DmaTypeOK, Entry
<1>1. CASE n >= queueSize
  BY <1>1 DEF DMA_queueDmaFast
<1>2. CASE ~(n >= queueSize)
  <2>1. r = [ok |-> ~(over /\ ignore),
             q |-> [queue |-> s, limit |-> LimitAfter(q, over), size |-> size]]
    BY <1>2 DEF DMA_queueDmaFast
  <2>2. q.size + e.cost \in Nat
    BY <1>0
  <2>3. Placed(q, e) \in Entry
    BY <1>0, PlacedTypes
  <2>4. /\ s \in Seq(Entry) /\ Len(s) = n + 1
        /\ \A i \in 1 .. n : s[i] = q.queue[i]
        /\ s[n + 1] = Placed(q, e)
    BY <1>0, <2>3
  <2>5. size \in 0 .. WordModulus - 1
    BY <1>0, <2>2, Wraps
  <2>6. LimitAfter(q, over) \in 0 .. n + 1
    BY <1>0 DEF LimitAfter
  <2> HIDE DEF size, s, r
  <2>7. /\ r.ok = ~(over /\ ignore) /\ r.q.queue = s
        /\ r.q.limit = LimitAfter(q, over) /\ r.q.size = size
    BY <2>1
  <2>8. QueueTypes(r.q)
    BY <1>0, <1>2, <2>4, <2>5, <2>6, <2>7 DEF QueueTypes
  <2> QED
    BY <2>4, <2>7, <2>8 DEF r, size
<1> QED
  BY <1>1, <1>2

\* The counting survives a call of DMA_queueDmaFast, and a call that an enforced
\* limit lets through leaves the limit unmarked.
LEMMA FastCounts ==
  ASSUME DmaTypeOK, NEW q, QueueTypes(q), Counted(q), NEW e \in Entry
  PROVE  LET r == DMA_queueDmaFast(q, e)
         IN /\ Counted(r.q)
            /\ r.ok /\ ignore /\ Total(r.q) < WordModulus => r.q.limit = 0
            /\ r.q # q /\ ~r.ok /\ q.queue # <<>> => Beyond(r.q, Len(r.q.queue))
            /\ q.limit # 0 => r.q.limit = q.limit
<1> DEFINE n == Len(q.queue)
           size == (q.size + e.cost) % WordModulus
           over == size > maxTransferPerFrame
           r == DMA_queueDmaFast(q, e)
<1>0. /\ q.queue \in Seq(Entry) /\ n \in Nat /\ q.limit \in 0 .. n
      /\ q.size \in Nat /\ e.cost \in Nat /\ WordModulus \in Nat \ {0}
      /\ maxTransferPerFrame \in Nat /\ ignore \in BOOLEAN
  BY DmaSizes DEF QueueTypes, DmaTypeOK, Entry
<1>1. CASE r.q = q /\ r.ok = FALSE
  BY <1>1
<1>2. CASE ~(r.q = q /\ r.ok = FALSE)
  <2>1. /\ r.ok = ~(over /\ ignore)
        /\ Len(r.q.queue) = n + 1
        /\ \A i \in 1 .. n : r.q.queue[i] = q.queue[i]
        /\ r.q.queue[n + 1] = Placed(q, e)
        /\ r.q.size = size
        /\ r.q.limit = LimitAfter(q, over)
    BY <1>2, FastCases
  <2>2. Total(q) \in Nat
    BY <1>0, TotalTypes DEF Total
  <2>3. Total(r.q) = Total(q) + e.cost
    BY <1>0, <2>1, PlacedTypes DEF Total, TotalCost
  <2>4. size \in Nat /\ (Total(r.q) < WordModulus => Total(q) < WordModulus /\ size = Total(r.q))
    <3>1. q.size + e.cost \in Nat
      BY <1>0
    <3>2. size \in 0 .. WordModulus - 1 /\ (q.size + e.cost < WordModulus => size = q.size + e.cost)
      BY <1>0, <3>1, Wraps
    <3>3. Total(q) < WordModulus => q.size = Total(q)
      BY DEF Counted
    <3> HIDE DEF size, r
    <3> QED
      BY <1>0, <2>2, <2>3, <3>2, <3>3
  <2>5. \A i \in 0 .. n : TotalCost(r.q.queue, i) = TotalCost(q.queue, i)
    BY <1>0, <2>1 DEF TotalCost
  <2> HIDE DEF size, r
  <2>6. CASE q.limit # 0
    <3>1. r.q.limit = q.limit
      BY <2>1, <2>6 DEF LimitAfter
    <3>2. Total(q) < WordModulus => Total(q) > maxTransferPerFrame
      BY <2>6 DEF Counted
    <3>3. Total(r.q) < WordModulus => Total(r.q) > maxTransferPerFrame /\ over
      BY <1>0, <2>2, <2>3, <2>4, <3>2
    <3>4. Counted(r.q)
      BY <1>0, <2>1, <2>4, <2>5, <2>6, <3>1, <3>3 DEF Counted
    <3>5. r.ok /\ ignore /\ Total(r.q) < WordModulus => FALSE
      BY <2>1, <3>3
    <3>6. ~r.ok => Beyond(r.q, Len(r.q.queue))
      <4>1. ~r.ok => ignore
        BY <2>1
      <4> QED
        BY <1>0, <2>1, <2>6, <3>1, <4>1 DEF Beyond
    <3> QED
      BY <3>1, <3>4, <3>5, <3>6 DEF r
  <2>7. CASE q.limit = 0 /\ ~over
    <3>1. r.q.limit = 0
      BY <2>1, <2>7 DEF LimitAfter
    <3>2. Counted(r.q)
      BY <1>0, <2>1, <2>3, <2>2, <2>4, <2>7, <3>1 DEF Counted
    <3> QED
      BY <2>1, <2>7, <3>1, <3>2 DEF r
  <2>8. CASE q.limit = 0 /\ over
    <3>1. r.q.limit = n
      BY <2>1, <2>8 DEF LimitAfter
    <3>2. n = 0 <=> q.queue = <<>>
      BY <1>0
    <3>3. TotalCost(r.q.queue, n) = Total(q)
      BY <1>0, <2>5 DEF Total
    <3>4. Counted(r.q)
      BY <1>0, <2>1, <2>2, <2>3, <2>4, <2>8, <3>1, <3>3 DEF Counted
    <3>5. r.ok /\ ignore => FALSE
      BY <2>1, <2>8
    <3>6. ~r.ok /\ q.queue # <<>> => Beyond(r.q, Len(r.q.queue))
      <4>1. ~r.ok => ignore
        BY <2>1
      <4> QED
        BY <1>0, <2>1, <3>1, <3>2, <4>1 DEF Beyond
    <3> QED
      BY <2>8, <3>4, <3>5, <3>6 DEF r
  <2> QED
    BY <2>6, <2>7, <2>8
<1> QED
  BY <1>1, <1>2, FastCases

-----------------------------------------------------------------------------
\* r is q with entries of call o added, and the limit at most marked after q's.
Grown(q, r, o) ==
  /\ Len(r.queue) >= Len(q.queue)
  /\ \A i \in 1 .. Len(q.queue) : r.queue[i] = q.queue[i]
  /\ \A i \in Len(q.queue) + 1 .. Len(r.queue) : r.queue[i].op = o
  /\ r.limit = q.limit \/ (q.limit = 0 /\ r.limit >= Len(q.queue))
  /\ Total(r) >= Total(q)

\* The numbers of a queue.
LEMMA QueueNumbers ==
  ASSUME NEW q, QueueTypes(q)
  PROVE  /\ q.queue \in Seq(Entry) /\ Len(q.queue) \in Nat
         /\ q.limit \in 0 .. Len(q.queue) /\ Total(q) \in Nat
<1>1. q.queue \in Seq(Entry) /\ q.limit \in 0 .. Len(q.queue)
  BY DEF QueueTypes
<1>2. Len(q.queue) \in Nat /\ Len(q.queue) \in 0 .. Len(q.queue)
  BY <1>1
<1> QED
  BY <1>1, <1>2, TotalTypes DEF Total

\* One call of DMA_queueDmaFast adds one entry, or none and then it fails.
LEMMA FastGrows ==
  ASSUME DmaTypeOK, NEW q, QueueTypes(q), NEW e \in Entry
  PROVE  LET r == DMA_queueDmaFast(q, e)
         IN /\ QueueTypes(r.q) /\ r.ok \in BOOLEAN
            /\ Grown(q, r.q, e.op)
            /\ r.ok => Len(r.q.queue) = Len(q.queue) + 1
            /\ Len(r.q.queue) <= Len(q.queue) + 1
            /\ Len(r.q.queue) = Len(q.queue) => r.q = q
            /\ \A i \in Len(q.queue) + 1 .. Len(r.q.queue) :
                 r.q.queue[i].at = e.at /\ r.q.queue[i].len = e.len /\ r.q.queue[i].half = e.half
<1> DEFINE n == Len(q.queue)
           over == (q.size + e.cost) % WordModulus > maxTransferPerFrame
           r == DMA_queueDmaFast(q, e)
<1>0. /\ q.queue \in Seq(Entry) /\ n \in Nat /\ q.limit \in 0 .. n
      /\ e.cost \in Nat /\ ignore \in BOOLEAN /\ Total(q) \in Nat
  BY QueueNumbers DEF DmaTypeOK, Entry
<1>1. CASE r.q = q /\ r.ok = FALSE
  <2>1. Grown(q, q, e.op) /\ QueueTypes(q)
    BY <1>0 DEF Grown
  <2>2. \A i \in n + 1 .. n : FALSE
    BY <1>0
  <2> QED
    BY <1>0, <1>1, <2>1, <2>2, n <= n + 1
<1>2. CASE ~(r.q = q /\ r.ok = FALSE)
  <2>1. /\ QueueTypes(r.q)
        /\ r.ok = ~(over /\ ignore)
        /\ Len(r.q.queue) = n + 1
        /\ \A i \in 1 .. n : r.q.queue[i] = q.queue[i]
        /\ r.q.queue[n + 1] = Placed(q, e)
        /\ r.q.limit = LimitAfter(q, over)
    BY <1>2, FastCases
  <2>2. \A i \in n + 1 .. Len(r.q.queue) : i = n + 1
    BY <1>0, <2>1
  <2>3. Total(r.q) = Total(q) + e.cost
    BY <1>0, <2>1, PlacedTypes DEF Total, TotalCost
  <2>4. r.q.limit = q.limit \/ (q.limit = 0 /\ r.q.limit >= n)
    BY <1>0, <2>1 DEF LimitAfter
  <2>5. \A i \in n + 1 .. Len(r.q.queue) :
          /\ r.q.queue[i].op = e.op /\ r.q.queue[i].at = e.at
          /\ r.q.queue[i].len = e.len /\ r.q.queue[i].half = e.half
    BY <1>0, <2>1, <2>2, PlacedTypes
  <2>6. r.ok \in BOOLEAN
    BY <2>1
  <2> HIDE DEF r
  <2>7. Grown(q, r.q, e.op)
    BY <1>0, <2>1, <2>3, <2>4, <2>5 DEF Grown
  <2> QED
    BY <1>0, <2>1, <2>5, <2>6, <2>7 DEF r
<1> QED
  BY <1>1, <1>2, FastCases

\* What FastGrows says of the result r, with the entry's call and place named.
OneMore(q, r, o, at, half) ==
  /\ QueueTypes(r.q) /\ r.ok \in BOOLEAN /\ Grown(q, r.q, o)
  /\ r.ok => Len(r.q.queue) = Len(q.queue) + 1
  /\ Len(r.q.queue) <= Len(q.queue) + 1
  /\ Len(r.q.queue) = Len(q.queue) => r.q = q
  /\ \A i \in Len(q.queue) + 1 .. Len(r.q.queue) :
       r.q.queue[i].at = at /\ r.q.queue[i].half = half

\* DMA_queueDmaFast puts at most one entry in the queue, the one it is given.
LEMMA FastOneMore ==
  ASSUME DmaTypeOK, NEW q, QueueTypes(q), NEW e \in Entry
  PROVE  OneMore(q, DMA_queueDmaFast(q, e), e.op, e.at, e.half)
BY FastGrows DEF OneMore

\* Two additions of one call are one.
LEMMA GrownTwice ==
  ASSUME NEW q, NEW r, NEW s, NEW o, QueueTypes(q), QueueTypes(r), QueueTypes(s),
         Grown(q, r, o), Grown(r, s, o)
  PROVE  Grown(q, s, o)
<1>1. /\ Len(q.queue) \in Nat /\ Len(r.queue) \in Nat /\ Len(s.queue) \in Nat
      /\ q.limit \in Int /\ r.limit \in Int /\ s.limit \in Int
      /\ Total(q) \in Nat /\ Total(r) \in Nat /\ Total(s) \in Nat
  BY QueueNumbers
<1>2. \A i \in 1 .. Len(q.queue) : s.queue[i] = q.queue[i]
  BY <1>1 DEF Grown
<1>3. \A i \in Len(q.queue) + 1 .. Len(s.queue) : s.queue[i].op = o
  <2> SUFFICES ASSUME NEW i \in Len(q.queue) + 1 .. Len(s.queue) PROVE s.queue[i].op = o
    OBVIOUS
  <2>1. CASE i <= Len(r.queue)
    <3>1. i \in 1 .. Len(r.queue) /\ i \in Len(q.queue) + 1 .. Len(r.queue)
      BY <1>1, <2>1
    <3> QED
      BY <3>1 DEF Grown
  <2>2. CASE ~(i <= Len(r.queue))
    BY <1>1, <2>2 DEF Grown
  <2> QED
    BY <2>1, <2>2
<1>4. /\ Len(s.queue) >= Len(q.queue) /\ Total(s) >= Total(q)
      /\ s.limit = q.limit \/ (q.limit = 0 /\ s.limit >= Len(q.queue))
  BY <1>1 DEF Grown
<1> QED
  BY <1>2, <1>3, <1>4 DEF Grown

-----------------------------------------------------------------------------
\* Any queueing call: r is what it makes of the queue, ok what it reports.  It
\* keeps the records and what is known of the accepted and refused entries.
LEMMA CallKeepsRecords ==
  ASSUME DmaTypeOK, Recorded, ops < MaxOps,
         NEW r, QueueTypes(r), Grown(Q, r, ops + 1), SetQ(r),
         NEW ok \in BOOLEAN, Reports(ok), ok => Len(r.queue) > Len(queue),
         UNCHANGED settings
  PROVE  /\ ops' \in 0 .. MaxOps /\ accepted' \subseteq 1 .. ops'
         /\ queue' \in Seq(Entry) /\ Len(queue') <= queueSize'
         /\ queueIndexLimit' \in 0 .. Len(queue')
         /\ queueTransferSize' \in 0 .. WordModulus - 1
         /\ Recorded'
<1>1. /\ queue' = r.queue /\ queueIndexLimit' = r.limit /\ queueTransferSize' = r.size
      /\ Q.queue = queue /\ ops' = ops + 1 /\ queueSize' = queueSize
      /\ accepted' = IF ok THEN accepted \cup {ops + 1} ELSE accepted
  BY DEF SetQ, Q, Reports, settings
<1>2. ops \in Nat /\ MaxOps \in Nat /\ accepted \subseteq 1 .. ops /\ queue \in Seq(Entry)
  BY DmaSizes DEF DmaTypeOK
<1>3. ops' \in 0 .. MaxOps /\ accepted' \subseteq 1 .. ops'
  BY <1>1, <1>2, DmaSizes
<1>4. Len(queue) \in Nat /\ Len(r.queue) \in Nat
  BY <1>2, QueueNumbers
<1>5. \A i \in 1 .. Len(queue') : queue'[i].op <= ops'
  <2> SUFFICES ASSUME NEW i \in 1 .. Len(r.queue) PROVE r.queue[i].op <= ops + 1
    BY <1>1
  <2>1. CASE i <= Len(queue)
    <3>1. i \in 1 .. Len(queue)
      BY <1>4, <2>1
    <3>2. queue[i].op <= ops /\ r.queue[i] = queue[i] /\ queue[i] \in Entry
      BY <1>1, <1>2, <3>1 DEF Recorded, Grown
    <3>3. queue[i].op \in Nat
      BY <3>2 DEF Entry
    <3> QED
      BY <1>2, <3>2, <3>3
  <2>2. CASE ~(i <= Len(queue))
    BY <1>1, <1>2, <1>4, <2>2 DEF Grown
  <2> QED
    BY <2>1, <2>2
<1>6. \A o \in accepted' : \E i \in 1 .. Len(queue') : queue'[i].op = o
  <2> SUFFICES ASSUME NEW o \in accepted' PROVE \E i \in 1 .. Len(r.queue) : r.queue[i].op = o
    BY <1>1
  <2>1. CASE o \in accepted
    <3>1. PICK i \in 1 .. Len(queue) : queue[i].op = o
      BY <2>1 DEF Recorded
    <3>2. r.queue[i] = queue[i] /\ i \in 1 .. Len(r.queue)
      BY <1>1, <1>4, <3>1 DEF Grown
    <3> QED
      BY <3>1, <3>2
  <2>2. CASE o \notin accepted
    <3>1. ok /\ o = ops + 1
      BY <1>1, <2>2
    <3>2. Len(queue) + 1 \in 1 .. Len(r.queue) /\ Len(queue) + 1 \in Len(queue) + 1 .. Len(r.queue)
      BY <1>4, <3>1
    <3>3. r.queue[Len(queue) + 1].op = ops + 1
      BY <1>1, <3>2 DEF Grown
    <3> QED
      BY <3>1, <3>2, <3>3
  <2> QED
    BY <2>1, <2>2
<1> QED
  BY <1>1, <1>3, <1>5, <1>6 DEF Recorded, QueueTypes

\* The same call: what is known of where the accepted and the refused stand.
LEMMA CallKeepsStanding ==
  ASSUME DmaTypeOK, Recorded, RefusedStand, AcceptedStand,
         NEW r, QueueTypes(r), Grown(Q, r, ops + 1), SetQ(r), Counted(r),
         NEW ok \in BOOLEAN, Reports(ok),
         ok /\ ignore /\ Total(r) < WordModulus => r.limit = 0,
         ~ok => \A i \in Len(queue) + 1 .. Len(r.queue) :
                  i = 1 \/ r.queue[i].half \/ Beyond(r, i),
         UNCHANGED settings
  PROVE  (Counted(Q) /\ RefusedStand /\ AcceptedStand)'
<1>1. /\ queue' = r.queue /\ queueIndexLimit' = r.limit /\ queueTransferSize' = r.size
      /\ Q.queue = queue /\ Q.limit = queueIndexLimit
      /\ Q'.queue = r.queue /\ Q'.limit = r.limit /\ Q'.size = r.size
      /\ ignore' = ignore /\ maxTransferPerFrame' = maxTransferPerFrame
      /\ accepted' = IF ok THEN accepted \cup {ops + 1} ELSE accepted
  BY DEF SetQ, Q, Reports, settings
<1>2. /\ ops \in Nat /\ accepted \subseteq 1 .. ops
      /\ queue \in Seq(Entry) /\ queueIndexLimit \in 0 .. Len(queue)
  BY DmaSizes DEF DmaTypeOK
<1>3. /\ Len(queue) \in Nat /\ Len(r.queue) \in Nat /\ r.limit \in 0 .. Len(r.queue)
      /\ Total(r) \in Nat
  BY <1>2, QueueNumbers
<1>4. Counted(Q)'
  BY <1>1 DEF Counted, Total
<1>5. \A i \in 1 .. Len(r.queue) :
        (i <= Len(queue) /\ i \in 1 .. Len(queue) /\ r.queue[i] = queue[i])
        \/ (i \in Len(queue) + 1 .. Len(r.queue) /\ r.queue[i].op = ops + 1)
  BY <1>1, <1>3 DEF Grown
<1>6. \A i : Beyond(Q, i) => Beyond(r, i)
  BY <1>1, <1>2, <1>3 DEF Beyond, Grown
<1>7. ASSUME NEW i \in 1 .. Len(queue), Beyond(r, i) PROVE Beyond(Q, i)
  BY <1>1, <1>2, <1>3, <1>7 DEF Beyond, Grown
<1>8. \A i : Beyond(Q, i)' <=> Beyond(r, i)
  BY <1>1 DEF Beyond
<1>9. RefusedStand'
  <2> SUFFICES ASSUME NEW i \in 1 .. Len(r.queue)
               PROVE  r.queue[i].op \in accepted' \/ i = 1 \/ r.queue[i].half \/ Beyond(r, i)
    BY <1>1, <1>8 DEF RefusedStand
  <2>1. CASE i \in 1 .. Len(queue) /\ r.queue[i] = queue[i]
    BY <1>1, <1>6, <2>1 DEF RefusedStand
  <2>2. CASE i \in Len(queue) + 1 .. Len(r.queue) /\ r.queue[i].op = ops + 1
    BY <1>1, <2>2
  <2> QED
    BY <1>5, <2>1, <2>2
<1>10. AcceptedStand'
  <2> SUFFICES ASSUME Total(r) < WordModulus, NEW i \in 1 .. Len(r.queue),
                      r.queue[i].op \in accepted', Beyond(r, i)
               PROVE  FALSE
    BY <1>1, <1>8 DEF AcceptedStand, Total
  <2>1. ~ok
    BY DEF Beyond
  <2>2. r.queue[i].op # ops + 1
    BY <1>1, <1>2, <2>1
  <2>3. i \in 1 .. Len(queue) /\ r.queue[i] = queue[i] /\ queue[i].op \in accepted
    BY <1>1, <1>5, <2>1, <2>2
  <2>4. QueueTypes(Q)
    BY DEF DmaTypeOK, Q, QueueTypes
  <2>5. Total(Q) \in Nat
    BY <2>4, QueueNumbers
  <2>6. Total(Q) < WordModulus
    BY <1>3, <2>5, DmaSizes DEF Grown
  <2> QED
    BY <1>7, <2>3, <2>6 DEF AcceptedStand
<1> QED
  BY <1>4, <1>9, <1>10

\* The same call: a source it takes in the temporary buffer lies above all the
\* regions that are in use.
LEMMA CallKeepsSources ==
  ASSUME DmaTypeOK, Recorded, TempRegions, Sources, SourcesDisjoint,
         NEW r, QueueTypes(r), Grown(Q, r, ops + 1), SetQ(r),
         NEW ok \in BOOLEAN, Reports(ok),
         userTemp' = userTemp, nextDataBuffer' \in Nat, nextDataBuffer' >= nextDataBuffer,
         \A i \in Len(queue) + 1 .. Len(r.queue) :
           \/ r.queue[i].at = NoTemp
           \/ /\ i = Len(queue) + 1 /\ Len(r.queue) = Len(queue) + 1
              /\ r.queue[i].at = nextDataBuffer /\ r.queue[i].len > 0
              /\ ok => nextDataBuffer' = nextDataBuffer + r.queue[i].len
  PROVE  (TempRegions /\ Sources /\ SourcesDisjoint)'
<1>1. /\ queue' = r.queue /\ Q.queue = queue
      /\ accepted' = IF ok THEN accepted \cup {ops + 1} ELSE accepted
  BY DEF SetQ, Q, Reports
<1>2. /\ ops \in Nat /\ accepted \subseteq 1 .. ops
      /\ queue \in Seq(Entry) /\ nextDataBuffer \in Nat
  BY DmaSizes DEF DmaTypeOK
<1>3. Len(queue) \in Nat /\ Len(r.queue) \in Nat /\ r.queue \in Seq(Entry)
  BY <1>2, QueueNumbers
<1>4. \A i \in 1 .. Len(r.queue) :
        \/ /\ i \in 1 .. Len(queue) /\ i <= Len(queue) /\ r.queue[i] = queue[i]
           /\ queue[i].op <= ops
        \/ i \in Len(queue) + 1 .. Len(r.queue) /\ r.queue[i].op = ops + 1
  BY <1>1, <1>3 DEF Grown, Recorded
<1>5. TempRegions'
  <2>1. \A t \in userTemp : t.at \in Nat /\ t.len \in Nat
    BY DEF TempRegions
  <2>2. \A t \in userTemp : t.at + t.len <= nextDataBuffer'
    BY <1>2, <2>1 DEF TempRegions
  <2> QED
    BY <2>2 DEF TempRegions
<1>6. Sources'
  BY <1>1, <1>2, <1>4 DEF Sources
<1>7. ASSUME NEW i \in 1 .. Len(r.queue), r.queue[i].op \in accepted', r.queue[i].at # NoTemp
      PROVE  /\ r.queue[i].at \in Int /\ r.queue[i].len \in Nat
             /\ \/ /\ i \in 1 .. Len(queue) /\ r.queue[i] = queue[i] /\ queue[i].op \in accepted
                   /\ i <= Len(queue)
                \/ /\ i = Len(queue) + 1 /\ Len(r.queue) = Len(queue) + 1
                   /\ r.queue[i].at = nextDataBuffer
                   /\ nextDataBuffer' = nextDataBuffer + r.queue[i].len
  <2>1. r.queue[i] \in Entry
    BY <1>3
  <2>2. r.queue[i].at \in Int /\ r.queue[i].len \in Nat /\ r.queue[i].op \in Nat
    BY <2>1 DEF Entry
  <2>3. CASE i \in 1 .. Len(queue) /\ i <= Len(queue) /\ r.queue[i] = queue[i] /\ queue[i].op <= ops
    BY <1>1, <1>2, <1>7, <2>2, <2>3
  <2>4. CASE i \in Len(queue) + 1 .. Len(r.queue) /\ r.queue[i].op = ops + 1
    <3>1. ok
      BY <1>1, <1>2, <1>7, <2>4
    <3> QED
      BY <1>7, <2>2, <2>4, <3>1
  <2> QED
    BY <1>4, <2>3, <2>4
<1>8. SourcesDisjoint'
  <2> SUFFICES ASSUME NEW i \in 1 .. Len(r.queue), r.queue[i].op \in accepted',
                      r.queue[i].at # NoTemp
               PROVE  /\ r.queue[i].at + r.queue[i].len <= nextDataBuffer'
                      /\ \A j \in 1 .. Len(r.queue) :
                           r.queue[j].op \in accepted' /\ r.queue[j].at # NoTemp /\ i < j
                             => r.queue[i].at + r.queue[i].len <= r.queue[j].at
                      /\ \A t \in userTemp : \/ r.queue[i].at + r.queue[i].len <= t.at
                                              \/ t.at + t.len <= r.queue[i].at
    BY <1>1 DEF SourcesDisjoint
  <2>1. CASE i \in 1 .. Len(queue) /\ r.queue[i] = queue[i] /\ queue[i].op \in accepted
             /\ i <= Len(queue)
    <3>1. queue[i].at + queue[i].len <= nextDataBuffer
      BY <2>1 DEF SourcesDisjoint
    <3>2. \A t \in userTemp : queue[i].at + queue[i].len <= t.at \/ t.at + t.len <= queue[i].at
      BY <2>1 DEF SourcesDisjoint
    <3>3. \A j \in 1 .. Len(queue) :
            queue[j].op \in accepted /\ queue[j].at # NoTemp /\ i < j
              => queue[i].at + queue[i].len <= queue[j].at
      BY <2>1 DEF SourcesDisjoint
    <3>4. ASSUME NEW j \in 1 .. Len(r.queue), r.queue[j].op \in accepted',
                 r.queue[j].at # NoTemp, i < j
          PROVE  queue[i].at + queue[i].len <= r.queue[j].at
      BY <1>7, <2>1, <3>1, <3>3, <3>4
    <3>5. queue[i].at \in Int /\ queue[i].len \in Nat
      BY <1>7, <2>1
    <3> QED
      BY <1>2, <2>1, <3>1, <3>2, <3>4, <3>5
  <2>2. CASE /\ i = Len(queue) + 1 /\ Len(r.queue) = Len(queue) + 1
             /\ r.queue[i].at = nextDataBuffer
             /\ nextDataBuffer' = nextDataBuffer + r.queue[i].len
    <3>1. \A j \in 1 .. Len(r.queue) : ~(i < j)
      BY <1>3, <2>2
    <3>2. \A t \in userTemp : t.at + t.len <= r.queue[i].at
      BY <2>2 DEF TempRegions
    <3> QED
      BY <2>2, <3>1, <3>2
  <2> QED
    BY <1>7, <2>1, <2>2
<1> QED
  BY <1>5, <1>6, <1>8

-----------------------------------------------------------------------------
\* An empty queue with an empty buffer is in order.
LEMMA ClearedIsInOrder ==
  ASSUME queueSize' \in QueueSizes, dataBufferSize' \in BufferSizes,
         maxTransferPerFrame' \in 0 .. WordModulus - 1,
         ignore' \in BOOLEAN, autoFlush' \in BOOLEAN, processDma' \in BOOLEAN,
         DMA_clearQueue
  PROVE  IInv'
<1>1. /\ queue' = <<>> /\ queueIndexLimit' = 0 /\ queueTransferSize' = 0
      /\ nextDataBuffer' = 0 /\ userTemp' = {} /\ ops' = 0 /\ accepted' = {}
      /\ changed' = FALSE
  BY DEF DMA_clearQueue
<1>2. /\ queueSize' \in Nat /\ dataBufferSize' \in Nat /\ WordModulus \in Nat \ {0}
      /\ MaxOps \in Nat
  BY DmaSizes
<1>3. <<>> \in Seq(Entry) /\ Len(<<>>) = 0
  OBVIOUS
<1>4. DmaTypeOK'
  BY <1>1, <1>2, <1>3 DEF DmaTypeOK
<1>5. (Recorded /\ TempRegions /\ Sources /\ SourcesDisjoint /\ RefusedStand /\ AcceptedStand)'
  BY <1>1, <1>3 DEF Recorded, TempRegions, Sources, SourcesDisjoint, RefusedStand, AcceptedStand
<1>6. Counted(Q)'
  BY <1>1, <1>2, <1>3 DEF Counted, Total, TotalCost, Q
<1> QED
  BY <1>1, <1>4, <1>5, <1>6 DEF IInv, BufferInv

\* The program starts with the queue in order.
LEMMA InitInOrder == DmaInit => IInv
<1> SUFFICES ASSUME DmaInit PROVE IInv
  OBVIOUS
<1>1. /\ queue = <<>> /\ queueIndexLimit = 0 /\ queueTransferSize = 0
      /\ nextDataBuffer = 0 /\ userTemp = {} /\ ops = 0 /\ accepted = {}
      /\ queueSize \in Nat /\ dataBufferSize \in Nat /\ WordModulus \in Nat \ {0}
      /\ maxTransferPerFrame \in 0 .. WordModulus - 1 /\ MaxOps \in Nat
  BY DmaSizes DEF DmaInit, Cleared
<1>2. <<>> \in Seq(Entry) /\ Len(<<>>) = 0
  OBVIOUS
<1>3. DmaTypeOK
  <2>1. ignore \in BOOLEAN /\ autoFlush \in BOOLEAN /\ processDma \in BOOLEAN
    BY DEF DmaInit
  <2> QED
    BY <1>1, <1>2, <2>1 DEF DmaInit, DmaTypeOK
<1>4. Recorded /\ TempRegions /\ Sources /\ SourcesDisjoint /\ RefusedStand /\ AcceptedStand
  BY <1>1, <1>2 DEF Recorded, TempRegions, Sources, SourcesDisjoint, RefusedStand, AcceptedStand
<1>5. Counted(Q)
  BY <1>1, <1>2 DEF Counted, Total, TotalCost, Q
<1> QED
  BY <1>3, <1>4, <1>5 DEF IInv, BufferInv, DmaInit, Cleared

\* A change of strategy or capacity: harmless on an empty queue, and otherwise
\* the frame is no longer steady.
LEMMA ChangesInOrder ==
  ASSUME IInv, Changes, maxTransferPerFrame' \in 0 .. WordModulus - 1, ignore' \in BOOLEAN
  PROVE  IInv'
<1>1. /\ changed' = (queue # <<>>)
      /\ UNCHANGED <<queueSize, autoFlush, processDma, dataBufferSize, nextDataBuffer, queue,
                     queueIndexLimit, queueTransferSize, userTemp, ops, accepted>>
  BY DEF Changes
<1>2. BufferInv'
  BY <1>1 DEF IInv, BufferInv, DmaTypeOK, Recorded, TempRegions, Sources, SourcesDisjoint
<1>3. CASE queue # <<>>
  BY <1>1, <1>2, <1>3 DEF IInv
<1>4. CASE queue = <<>>
  <2>1. Len(queue) = 0 /\ queueIndexLimit = 0
    BY <1>4 DEF IInv, BufferInv, DmaTypeOK
  <2>2. ~changed /\ queueTransferSize = 0
    BY <1>4, <2>1, DmaSizes DEF IInv, Counted, Total, TotalCost, Q
  <2>3. (RefusedStand /\ AcceptedStand)'
    BY <1>1, <2>1 DEF RefusedStand, AcceptedStand
  <2>4. Counted(Q)'
    BY <1>1, <2>1, <2>2, DmaSizes DEF Counted, Total, TotalCost, Q
  <2> QED
    BY <1>1, <1>2, <1>4, <2>3, <2>4 DEF IInv
<1> QED
  BY <1>3, <1>4

\* DMA_queueDma: one transfer, or the two halves of one that crosses a bank.
LEMMA QueueDmaInOrder ==
  ASSUME IInv, NEW loc \in Locations, NEW len \in Lens, NEW bank \in BankLimits,
         DMA_queueDma(loc, len, bank)
  PROVE  IInv'
<1> DEFINE tail == DMA_queueDmaFast(Q, HalfEntry(loc, len - bank))
           head == DMA_queueDmaFast(tail.q, HalfEntry(loc, bank))
           whole == DMA_queueDmaFast(Q, NewEntry(loc, NoTemp, len, FALSE))
           result == IF len <= bank THEN whole ELSE IF tail.ok THEN head ELSE tail
<1>1. /\ ops < MaxOps /\ SetQ(result.q) /\ Reports(result.ok)
      /\ UNCHANGED <<settings, nextDataBuffer, userTemp>>
  BY DEF DMA_queueDma
<1>2. /\ DmaTypeOK /\ Recorded /\ TempRegions /\ Sources /\ SourcesDisjoint
      /\ len \in Nat /\ bank \in Nat /\ ops \in Nat /\ MaxOps \in Nat
  BY DmaSizes DEF IInv, BufferInv, DmaTypeOK
<1>3. QueueTypes(Q) /\ Q.queue = queue /\ Q.limit = queueIndexLimit
  BY <1>2 DEF DmaTypeOK, QueueTypes, Q
<1>4. \A l \in Nat : /\ NewEntry(loc, NoTemp, l, FALSE) \in Entry
                     /\ NewEntry(loc, NoTemp, l, FALSE).op = ops + 1
                     /\ NewEntry(loc, NoTemp, l, FALSE).at = NoTemp
                     /\ HalfEntry(loc, l) \in Entry
                     /\ HalfEntry(loc, l).op = ops + 1
                     /\ HalfEntry(loc, l).at = NoTemp
                     /\ HalfEntry(loc, l).half = TRUE
  <2> SUFFICES ASSUME NEW l \in Nat
               PROVE  /\ NewEntry(loc, NoTemp, l, FALSE) \in Entry
                      /\ NewEntry(loc, NoTemp, l, FALSE).op = ops + 1
                      /\ NewEntry(loc, NoTemp, l, FALSE).at = NoTemp
                      /\ HalfEntry(loc, l) \in Entry
                      /\ HalfEntry(loc, l).op = ops + 1
                      /\ HalfEntry(loc, l).at = NoTemp
                      /\ HalfEntry(loc, l).half = TRUE
    OBVIOUS
  <2>1. ops + 1 \in 1 .. MaxOps /\ Cost(loc, l) \in Nat /\ NoTemp \in Int
    BY <1>1, <1>2 DEF Cost, NoTemp
  <2>2. HalfEntry(loc, l) = [op |-> ops + 1, at |-> NoTemp, len |-> l, cost |-> Cost(loc, l),
                             half |-> TRUE, sum |-> 0]
    BY DEF HalfEntry, NewEntry
  <2>3. NewEntry(loc, NoTemp, l, FALSE) \in Entry /\ HalfEntry(loc, l) \in Entry
    BY <2>1, <2>2 DEF NewEntry, Entry
  <2> QED
    BY <2>2, <2>3 DEF NewEntry
<1> DEFINE Good(r, ok) ==
      /\ QueueTypes(r) /\ Grown(Q, r, ops + 1) /\ ok \in BOOLEAN
      /\ ok => Len(r.queue) > Len(queue)
      /\ \A i \in Len(queue) + 1 .. Len(r.queue) : r.queue[i].at = NoTemp
      /\ ~changed =>
           /\ Counted(r)
           /\ ok /\ ignore /\ Total(r) < WordModulus => r.limit = 0
           /\ ~ok => \A i \in Len(queue) + 1 .. Len(r.queue) :
                        i = 1 \/ r.queue[i].half \/ Beyond(r, i)
<1>5. Len(queue) \in Nat
  BY <1>3, QueueNumbers
<1>6. Good(whole.q, whole.ok)
  <2> DEFINE e == NewEntry(loc, NoTemp, len, FALSE)
  <2>0. e \in Entry /\ e.op = ops + 1 /\ e.at = NoTemp /\ whole = DMA_queueDmaFast(Q, e)
    BY <1>2, <1>4
  <2> HIDE DEF e, whole
  <2>1. /\ QueueTypes(whole.q) /\ whole.ok \in BOOLEAN /\ Grown(Q, whole.q, ops + 1)
        /\ whole.ok => Len(whole.q.queue) = Len(queue) + 1
        /\ Len(whole.q.queue) <= Len(queue) + 1
        /\ \A i \in Len(queue) + 1 .. Len(whole.q.queue) : whole.q.queue[i].at = NoTemp
        /\ Len(whole.q.queue) = Len(queue) => whole.q = Q
    <3>1. OneMore(Q, whole, ops + 1, NoTemp, e.half)
      BY <1>2, <1>3, <2>0, FastOneMore
    <3> QED
      BY <1>3, <3>1 DEF OneMore
  <2>2. ASSUME ~changed
        PROVE  /\ Counted(whole.q)
               /\ whole.ok /\ ignore /\ Total(whole.q) < WordModulus => whole.q.limit = 0
               /\ whole.q # Q /\ ~whole.ok /\ queue # <<>>
                    => Beyond(whole.q, Len(whole.q.queue))
    BY <1>2, <1>3, <2>0, <2>2, FastCounts DEF IInv
  <2>3. ASSUME ~changed, ~whole.ok, NEW i \in Len(queue) + 1 .. Len(whole.q.queue)
        PROVE  i = 1 \/ Beyond(whole.q, i)
    <3>1. i = Len(queue) + 1 /\ i = Len(whole.q.queue) /\ Len(whole.q.queue) # Len(queue)
      BY <1>5, <2>1, QueueNumbers
    <3>2. whole.q # Q
      BY <1>3, <3>1
    <3>3. queue = <<>> => Len(queue) = 0
      OBVIOUS
    <3> QED
      BY <2>2, <2>3, <3>1, <3>2, <3>3
  <2> QED
    BY <1>5, <2>1, <2>2, <2>3
<1>7. ASSUME ~(len <= bank)
      PROVE  IF tail.ok THEN Good(head.q, head.ok) ELSE Good(tail.q, tail.ok)
  <2> DEFINE e == HalfEntry(loc, len - bank)
             f == HalfEntry(loc, bank)
  <2>0. len - bank \in Nat
    BY <1>2, <1>7
  <2>1. /\ e \in Entry /\ e.op = ops + 1 /\ e.at = NoTemp /\ e.half = TRUE
        /\ f \in Entry /\ f.op = ops + 1 /\ f.at = NoTemp /\ f.half = TRUE
        /\ tail = DMA_queueDmaFast(Q, e) /\ head = DMA_queueDmaFast(tail.q, f)
    BY <1>2, <1>4, <2>0
  <2> HIDE DEF e, f, tail, head
  <2>2. /\ QueueTypes(tail.q) /\ tail.ok \in BOOLEAN /\ Grown(Q, tail.q, ops + 1)
        /\ tail.ok => Len(tail.q.queue) = Len(queue) + 1
        /\ \A i \in Len(queue) + 1 .. Len(tail.q.queue) :
              tail.q.queue[i].at = NoTemp /\ tail.q.queue[i].half = TRUE
        /\ ~changed => /\ Counted(tail.q)
                       /\ tail.ok /\ ignore /\ Total(tail.q) < WordModulus => tail.q.limit = 0
    <3>1. ~changed => Counted(Q)
      BY DEF IInv
    <3>2. /\ QueueTypes(tail.q) /\ tail.ok \in BOOLEAN /\ Grown(Q, tail.q, ops + 1)
          /\ tail.ok => Len(tail.q.queue) = Len(queue) + 1
          /\ \A i \in Len(queue) + 1 .. Len(tail.q.queue) :
                tail.q.queue[i].at = NoTemp /\ tail.q.queue[i].half = TRUE
      <4>1. OneMore(Q, tail, ops + 1, NoTemp, TRUE)
        BY <1>2, <1>3, <2>1, FastOneMore
      <4> QED
        BY <1>3, <4>1 DEF OneMore
    <3>3. ~changed => /\ Counted(tail.q)
                      /\ tail.ok /\ ignore /\ Total(tail.q) < WordModulus => tail.q.limit = 0
      BY <1>2, <1>3, <2>1, <3>1, FastCounts
    <3> QED
      BY <3>2, <3>3
  <2>3. CASE ~tail.ok
    BY <1>5, <2>2, <2>3
  <2>4. CASE tail.ok
    <3>1. /\ QueueTypes(head.q) /\ head.ok \in BOOLEAN /\ Grown(tail.q, head.q, ops + 1)
          /\ \A i \in Len(tail.q.queue) + 1 .. Len(head.q.queue) :
                head.q.queue[i].at = NoTemp /\ head.q.queue[i].half = TRUE
          /\ ~changed => /\ Counted(head.q)
                         /\ head.ok /\ ignore /\ Total(head.q) < WordModulus => head.q.limit = 0
      <4>1. /\ QueueTypes(head.q) /\ head.ok \in BOOLEAN /\ Grown(tail.q, head.q, ops + 1)
            /\ \A i \in Len(tail.q.queue) + 1 .. Len(head.q.queue) :
                  head.q.queue[i].at = NoTemp /\ head.q.queue[i].half = TRUE
        <5>1. OneMore(tail.q, head, ops + 1, NoTemp, TRUE)
          BY <1>2, <2>1, <2>2, FastOneMore
        <5> QED
          BY <5>1 DEF OneMore
      <4>2. ~changed => /\ Counted(head.q)
                        /\ head.ok /\ ignore /\ Total(head.q) < WordModulus => head.q.limit = 0
        BY <1>2, <2>1, <2>2, FastCounts
      <4> QED
        BY <4>1, <4>2
    <3>2. Grown(Q, head.q, ops + 1)
      BY <1>3, <2>2, <3>1, GrownTwice
    <3>3. Len(head.q.queue) \in Nat /\ Len(tail.q.queue) \in Nat
          /\ Len(head.q.queue) >= Len(tail.q.queue)
      BY <2>2, <3>1, QueueNumbers DEF Grown
    <3>4. ASSUME NEW i \in Len(queue) + 1 .. Len(head.q.queue)
          PROVE  head.q.queue[i].at = NoTemp /\ head.q.queue[i].half = TRUE
      <4>1. CASE i <= Len(tail.q.queue)
        <5>1. i \in Len(queue) + 1 .. Len(tail.q.queue) /\ i \in 1 .. Len(tail.q.queue)
          BY <1>5, <3>3, <4>1
        <5> QED
          BY <2>2, <3>1, <5>1 DEF Grown
      <4>2. CASE ~(i <= Len(tail.q.queue))
        BY <1>5, <3>1, <3>3, <4>2
      <4> QED
        BY <4>1, <4>2
    <3> QED
      <4>1. Len(head.q.queue) > Len(queue)
        BY <1>5, <2>2, <2>4, <3>3
      <4>2. \A i \in Len(queue) + 1 .. Len(head.q.queue) : head.q.queue[i].half
        BY <3>4
      <4>3. Good(head.q, head.ok)
        BY <3>1, <3>2, <3>4, <4>1, <4>2
      <4> QED
        BY <2>4, <4>3
  <2> QED
    BY <2>3, <2>4
<1>8. Good(result.q, result.ok)
  BY <1>6, <1>7
<1> HIDE DEF result
<1>9. /\ QueueTypes(result.q) /\ Grown(Q, result.q, ops + 1) /\ result.ok \in BOOLEAN
      /\ result.ok => Len(result.q.queue) > Len(queue)
      /\ \A i \in Len(queue) + 1 .. Len(result.q.queue) : result.q.queue[i].at = NoTemp
  BY <1>8
<1>10. Recorded' /\ DmaTypeOK'
  <2>1. /\ ops' \in 0 .. MaxOps /\ accepted' \subseteq 1 .. ops'
        /\ queue' \in Seq(Entry) /\ Len(queue') <= queueSize'
        /\ queueIndexLimit' \in 0 .. Len(queue')
        /\ queueTransferSize' \in 0 .. WordModulus - 1
        /\ Recorded'
    BY <1>1, <1>2, <1>9, CallKeepsRecords
  <2> QED
    BY <1>1, <1>2, <2>1 DEF DmaTypeOK, settings
<1>11. (TempRegions /\ Sources /\ SourcesDisjoint)'
  <2>1. nextDataBuffer' \in Nat /\ nextDataBuffer' >= nextDataBuffer /\ userTemp' = userTemp
    BY <1>1, <1>2 DEF DmaTypeOK
  <2> QED
    BY <1>1, <1>2, <1>9, <2>1, CallKeepsSources
<1>12. changed' = changed
  BY <1>1 DEF Reports
<1>13. queue # <<>> => queue' # <<>>
  <2>1. Len(queue') >= Len(queue)
    BY <1>1, <1>3, <1>9 DEF Grown, SetQ
  <2> QED
    BY <1>2, <2>1 DEF DmaTypeOK
<1>14. ASSUME ~changed PROVE (Counted(Q) /\ RefusedStand /\ AcceptedStand)'
  BY <1>1, <1>2, <1>8, <1>14, CallKeepsStanding DEF IInv
<1> QED
  BY <1>10, <1>11, <1>12, <1>13, <1>14 DEF IInv, BufferInv

\* DMA_copyAndQueueDma and DMA_allocateAndQueueDma: the source is the top of
\* the temporary buffer.
LEMMA CopyAndQueueInOrder ==
  ASSUME IInv, NEW loc \in Locations, NEW len \in Lens, DMA_copyAndQueueDma(loc, len)
  PROVE  IInv'
<1>1. /\ DmaTypeOK /\ Recorded /\ TempRegions /\ Sources /\ SourcesDisjoint
      /\ len \in Nat \ {0} /\ ops \in Nat /\ MaxOps \in Nat
      /\ nextDataBuffer \in Nat /\ dataBufferSize \in Nat
  BY DmaSizes DEF IInv, BufferInv, DmaTypeOK
<1>2. QueueTypes(Q) /\ Q.queue = queue /\ Q.limit = queueIndexLimit
  BY <1>1 DEF DmaTypeOK, QueueTypes, Q
<1>3. Len(queue) \in Nat /\ Grown(Q, Q, ops + 1)
  BY <1>2, QueueNumbers DEF Grown
<1> DEFINE e == NewEntry(loc, nextDataBuffer, len, FALSE)
           fast == DMA_queueDmaFast(Q, e)
           r == IF FitsTemp(len) THEN fast ELSE [ok |-> FALSE, q |-> Q]
<1>4. /\ ops < MaxOps /\ SetQ(r.q) /\ Reports(r.ok)
      /\ nextDataBuffer' = IF r.ok THEN nextDataBuffer + len ELSE nextDataBuffer
      /\ UNCHANGED <<settings, userTemp>>
  <2>1. CASE FitsTemp(len)
    BY <2>1 DEF DMA_copyAndQueueDma
  <2>2. CASE ~FitsTemp(len)
    BY <2>2 DEF DMA_copyAndQueueDma, SetQ, Q
  <2> QED
    BY <2>1, <2>2
<1>5. /\ e \in Entry /\ e.op = ops + 1 /\ e.at = nextDataBuffer /\ e.len = len
  <2>1. ops + 1 \in 1 .. MaxOps /\ Cost(loc, len) \in Nat
    BY <1>1, <1>4 DEF Cost
  <2> QED
    BY <1>1, <2>1 DEF NewEntry, Entry
<1> HIDE DEF e
<1>6. /\ OneMore(Q, r, ops + 1, nextDataBuffer, e.half)
      /\ \A i \in Len(queue) + 1 .. Len(r.q.queue) : r.q.queue[i].len = len
      /\ r.ok => FitsTemp(len)
  <2>1. CASE FitsTemp(len)
    <3>1. OneMore(Q, fast, ops + 1, nextDataBuffer, e.half)
      BY <1>1, <1>2, <1>5, FastOneMore
    <3>2. \A i \in Len(queue) + 1 .. Len(fast.q.queue) : fast.q.queue[i].len = len
      BY <1>1, <1>2, <1>5, FastGrows
    <3> QED
      BY <2>1, <3>1, <3>2
  <2>2. CASE ~FitsTemp(len)
    <3>1. \A i \in Len(queue) + 1 .. Len(queue) : FALSE
      BY <1>3
    <3>2. r.ok = FALSE /\ r.q = Q
      BY <2>2
    <3> HIDE DEF r
    <3>3. Len(queue) <= Len(queue) + 1
      BY <1>3
    <3>4. OneMore(Q, r, ops + 1, nextDataBuffer, e.half)
      BY <1>2, <1>3, <3>1, <3>2, <3>3 DEF OneMore
    <3> QED
      BY <1>2, <3>1, <3>2, <3>4
  <2> QED
    BY <2>1, <2>2
<1>7. ASSUME ~changed
      PROVE  /\ Counted(r.q)
             /\ r.ok /\ ignore /\ Total(r.q) < WordModulus => r.q.limit = 0
             /\ r.q # Q /\ ~r.ok /\ queue # <<>> => Beyond(r.q, Len(r.q.queue))
  <2>1. Counted(Q)
    BY <1>7 DEF IInv
  <2>2. CASE FitsTemp(len)
    <3>1. r = fast
      BY <2>2
    <3> QED
      BY <1>1, <1>2, <1>5, <2>1, <3>1, FastCounts
  <2>3. CASE ~FitsTemp(len)
    BY <2>1, <2>3
  <2> QED
    BY <2>2, <2>3
<1> HIDE DEF r, fast
<1>8. /\ QueueTypes(r.q) /\ r.ok \in BOOLEAN /\ Grown(Q, r.q, ops + 1)
      /\ r.ok => Len(r.q.queue) > Len(queue)
      /\ Len(r.q.queue) <= Len(queue) + 1
      /\ Len(r.q.queue) = Len(queue) => r.q = Q
      /\ \A i \in Len(queue) + 1 .. Len(r.q.queue) : r.q.queue[i].at = nextDataBuffer
  BY <1>2, <1>3, <1>6 DEF OneMore
<1>9. \A i \in Len(queue) + 1 .. Len(r.q.queue) :
        i = Len(queue) + 1 /\ Len(r.q.queue) = Len(queue) + 1
  BY <1>3, <1>8, QueueNumbers
<1>10. /\ nextDataBuffer' \in 0 .. dataBufferSize /\ nextDataBuffer' >= nextDataBuffer
       /\ r.ok => nextDataBuffer' = nextDataBuffer + len
  BY <1>1, <1>4, <1>6 DEF FitsTemp, DmaTypeOK
<1>11. Recorded' /\ DmaTypeOK'
  <2>1. /\ ops' \in 0 .. MaxOps /\ accepted' \subseteq 1 .. ops'
        /\ queue' \in Seq(Entry) /\ Len(queue') <= queueSize'
        /\ queueIndexLimit' \in 0 .. Len(queue')
        /\ queueTransferSize' \in 0 .. WordModulus - 1
        /\ Recorded'
    BY <1>1, <1>4, <1>8, CallKeepsRecords
  <2> QED
    BY <1>1, <1>4, <1>10, <2>1 DEF DmaTypeOK, settings
<1>12. (TempRegions /\ Sources /\ SourcesDisjoint)'
  <2>1. \A i \in Len(queue) + 1 .. Len(r.q.queue) :
           /\ i = Len(queue) + 1 /\ Len(r.q.queue) = Len(queue) + 1
           /\ r.q.queue[i].at = nextDataBuffer /\ r.q.queue[i].len > 0
           /\ r.ok => nextDataBuffer' = nextDataBuffer + r.q.queue[i].len
    BY <1>1, <1>6, <1>8, <1>9, <1>10
  <2>2. nextDataBuffer' \in Nat /\ userTemp' = userTemp
    BY <1>1, <1>4, <1>10
  <2> QED
    BY <1>1, <1>4, <1>8, <1>10, <2>1, <2>2, CallKeepsSources
<1>13. changed' = changed
  BY <1>4 DEF Reports
<1>14. queue # <<>> => queue' # <<>>
  <2>1. Len(queue') >= Len(queue)
    BY <1>2, <1>4, <1>8 DEF Grown, SetQ
  <2> QED
    BY <1>1, <2>1 DEF DmaTypeOK
<1>15. ASSUME ~changed PROVE (Counted(Q) /\ RefusedStand /\ AcceptedStand)'
  <2>1. ASSUME ~r.ok, NEW i \in Len(queue) + 1 .. Len(r.q.queue)
        PROVE  i = 1 \/ Beyond(r.q, i)
    <3>1. r.q # Q /\ i = Len(r.q.queue) /\ i = Len(queue) + 1
      BY <1>2, <1>3, <1>9
    <3>2. queue = <<>> => Len(queue) = 0
      OBVIOUS
    <3> QED
      BY <1>7, <1>15, <2>1, <3>1, <3>2
  <2>2. RefusedStand /\ AcceptedStand
    BY <1>15 DEF IInv
  <2>3. UNCHANGED settings
    BY <1>4
  <2> QED
    BY <1>1, <1>4, <1>7, <1>8, <1>15, <2>1, <2>2, <2>3, CallKeepsStanding
<1> QED
  BY <1>11, <1>12, <1>13, <1>14, <1>15 DEF IInv, BufferInv

\* Neither DMA_allocateTemp nor DMA_releaseTemp touches the queue.
LEMMA TempLeavesQueue ==
  ASSUME IInv,
         UNCHANGED <<settings, queue, queueIndexLimit, queueTransferSize, ops, accepted, changed>>,
         nextDataBuffer' \in 0 .. dataBufferSize, TempRegions', SourcesDisjoint'
  PROVE  IInv'
<1>1. DmaTypeOK' /\ Recorded' /\ Sources'
  BY DEF IInv, BufferInv, DmaTypeOK, Recorded, Sources, settings
<1>2. Q' = Q
  BY DEF Q
<1>3. ~changed => (Counted(Q) /\ RefusedStand /\ AcceptedStand)'
  BY <1>2 DEF IInv, Counted, RefusedStand, AcceptedStand, Beyond, settings
<1> QED
  BY <1>1, <1>3 DEF IInv, BufferInv

\* The program takes the top of the buffer.
LEMMA AllocateTempInOrder ==
  ASSUME IInv, NEW len \in Lens, DMA_allocateTemp(len)
  PROVE  IInv'
<1> DEFINE t == [at |-> nextDataBuffer, len |-> len]
<1>1. /\ nextDataBuffer \in Nat /\ dataBufferSize \in Nat /\ len \in Nat \ {0}
      /\ nextDataBuffer' = nextDataBuffer + len /\ userTemp' = userTemp \cup {t}
      /\ nextDataBuffer + len <= dataBufferSize
  BY DmaSizes DEF IInv, BufferInv, DmaTypeOK, DMA_allocateTemp, FitsTemp
<1>2. /\ \A u \in userTemp : /\ u \in [at : Nat, len : Nat \ {0}] /\ u.at \in Nat /\ u.len \in Nat
                              /\ u.at + u.len <= nextDataBuffer
      /\ \A u, v \in userTemp : u = v \/ u.at + u.len <= v.at \/ v.at + v.len <= u.at
  BY DEF IInv, BufferInv, TempRegions
<1>3. t \in [at : Nat, len : Nat \ {0}] /\ t.at = nextDataBuffer /\ t.len = len
  BY <1>1
<1> HIDE DEF t
<1>4. TempRegions'
  <2>1. \A u \in userTemp' : u \in [at : Nat, len : Nat \ {0}] /\ u.at + u.len <= nextDataBuffer'
    BY <1>1, <1>2, <1>3
  <2>2. \A u, v \in userTemp' : u = v \/ u.at + u.len <= v.at \/ v.at + v.len <= u.at
    BY <1>1, <1>2, <1>3
  <2> QED
    BY <2>1, <2>2 DEF TempRegions
<1>5. SourcesDisjoint'
  <2>1. queue' = queue /\ accepted' = accepted /\ queue \in Seq(Entry)
    BY DEF DMA_allocateTemp, IInv, BufferInv, DmaTypeOK
  <2>2. ASSUME NEW i \in 1 .. Len(queue), queue[i].op \in accepted, queue[i].at # NoTemp
        PROVE  /\ queue[i].at + queue[i].len <= nextDataBuffer'
               /\ \A j \in 1 .. Len(queue) :
                     queue[j].op \in accepted /\ queue[j].at # NoTemp /\ i < j
                       => queue[i].at + queue[i].len <= queue[j].at
               /\ \A u \in userTemp' : \/ queue[i].at + queue[i].len <= u.at
                                        \/ u.at + u.len <= queue[i].at
    <3>1. queue[i] \in Entry
      BY <2>1
    <3>2. queue[i].at \in Int /\ queue[i].len \in Nat
      BY <3>1 DEF Entry
    <3>3. /\ queue[i].at + queue[i].len <= nextDataBuffer
          /\ \A j \in 1 .. Len(queue) :
                queue[j].op \in accepted /\ queue[j].at # NoTemp /\ i < j
                  => queue[i].at + queue[i].len <= queue[j].at
          /\ \A u \in userTemp : \/ queue[i].at + queue[i].len <= u.at
                                  \/ u.at + u.len <= queue[i].at
      BY <2>2 DEF IInv, BufferInv, SourcesDisjoint
    <3> QED
      BY <1>1, <1>3, <3>2, <3>3
  <2> QED
    BY <2>1, <2>2 DEF SourcesDisjoint
<1>6. nextDataBuffer' \in 0 .. dataBufferSize
  BY <1>1
<1> QED
  BY <1>4, <1>5, <1>6, TempLeavesQueue DEF DMA_allocateTemp

\* The program gives back the region at the top; everything else in use ends
\* where that region began.
LEMMA ReleaseTempInOrder ==
  ASSUME IInv, NEW t \in userTemp, DMA_releaseTemp(t)
  PROVE  IInv'
<1>1. /\ nextDataBuffer \in Nat /\ nextDataBuffer <= dataBufferSize /\ dataBufferSize \in Nat
      /\ t.at + t.len = nextDataBuffer /\ nextDataBuffer' = nextDataBuffer - t.len
      /\ userTemp' = userTemp \ {t}
  BY DmaSizes DEF IInv, BufferInv, DmaTypeOK, DMA_releaseTemp
<1>2. /\ \A u \in userTemp : /\ u \in [at : Nat, len : Nat \ {0}] /\ u.at \in Nat
                              /\ u.len \in Nat \ {0} /\ u.at + u.len <= nextDataBuffer
      /\ \A u, v \in userTemp : u = v \/ u.at + u.len <= v.at \/ v.at + v.len <= u.at
  BY DEF IInv, BufferInv, TempRegions
<1>3. t.at \in Nat /\ t.len \in Nat \ {0} /\ nextDataBuffer' = t.at
  BY <1>1, <1>2
<1>4. TempRegions'
  <2>1. \A u \in userTemp' : u \in [at : Nat, len : Nat \ {0}] /\ u.at + u.len <= nextDataBuffer'
    <3> SUFFICES ASSUME NEW u \in userTemp, u # t PROVE u.at + u.len <= t.at
      BY <1>1, <1>2, <1>3
    <3>1. u.at + u.len <= t.at \/ t.at + t.len <= u.at
      BY <1>2
    <3>2. u.at \in Nat /\ u.len \in Nat \ {0} /\ u.at + u.len <= nextDataBuffer
      BY <1>2
    <3> QED
      BY <1>1, <1>3, <3>1, <3>2
  <2>2. \A u, v \in userTemp' : u = v \/ u.at + u.len <= v.at \/ v.at + v.len <= u.at
    BY <1>1, <1>2
  <2> QED
    BY <2>1, <2>2 DEF TempRegions
<1>5. SourcesDisjoint'
  <2>1. queue' = queue /\ accepted' = accepted /\ queue \in Seq(Entry)
    BY DEF DMA_releaseTemp, IInv, BufferInv, DmaTypeOK
  <2>2. ASSUME NEW i \in 1 .. Len(queue), queue[i].op \in accepted, queue[i].at # NoTemp
        PROVE  /\ queue[i].at + queue[i].len <= nextDataBuffer'
               /\ \A j \in 1 .. Len(queue) :
                     queue[j].op \in accepted /\ queue[j].at # NoTemp /\ i < j
                       => queue[i].at + queue[i].len <= queue[j].at
               /\ \A u \in userTemp : \/ queue[i].at + queue[i].len <= u.at
                                       \/ u.at + u.len <= queue[i].at
    <3>1. queue[i] \in Entry
      BY <2>1
    <3>2. queue[i].at \in Int /\ queue[i].len \in Nat /\ queue[i].len > 0
      BY <2>2, <3>1 DEF Entry, IInv, BufferInv, Sources
    <3>3. /\ queue[i].at + queue[i].len <= nextDataBuffer
          /\ \A j \in 1 .. Len(queue) :
                queue[j].op \in accepted /\ queue[j].at # NoTemp /\ i < j
                  => queue[i].at + queue[i].len <= queue[j].at
          /\ \A u \in userTemp : \/ queue[i].at + queue[i].len <= u.at
                                  \/ u.at + u.len <= queue[i].at
      BY <2>2 DEF IInv, BufferInv, SourcesDisjoint
    <3>4. queue[i].at + queue[i].len <= t.at \/ t.at + t.len <= queue[i].at
      BY <3>3
    <3>5. queue[i].at + queue[i].len <= t.at
      BY <1>1, <1>3, <3>2, <3>3, <3>4
    <3> QED
      BY <1>3, <3>3, <3>5
  <2> QED
    BY <1>1, <2>1, <2>2 DEF SourcesDisjoint
<1>6. nextDataBuffer' \in 0 .. dataBufferSize
  BY <1>1, <1>3
<1> QED
  BY <1>4, <1>5, <1>6, TempLeavesQueue DEF DMA_releaseTemp

-----------------------------------------------------------------------------
\* Every operation keeps the queue and the buffer in order.
LEMMA NextInOrder == IInv /\ [DmaNext]_dmaVars => IInv'
<1> SUFFICES ASSUME IInv, [DmaNext]_dmaVars PROVE IInv'
  OBVIOUS
<1>0. DmaTypeOK
  BY DEF IInv, BufferInv
<1>1. ASSUME NEW s \in QueueSizes, NEW c \in InitCapacities, NEW b \in BufferSizes,
             DMA_initEx(s, c, b)
      PROVE  IInv'
  <2>1. /\ queueSize' \in QueueSizes /\ dataBufferSize' \in BufferSizes
        /\ maxTransferPerFrame' \in 0 .. WordModulus - 1
        /\ ignore' \in BOOLEAN /\ autoFlush' \in BOOLEAN /\ processDma' \in BOOLEAN
        /\ DMA_clearQueue
    BY <1>1, DmaSizes DEF DMA_initEx
  <2> QED
    BY <2>1, ClearedIsInOrder
<1>2. ASSUME NEW v \in BOOLEAN, DMA_setAutoFlush(v) PROVE IInv'
  <2>1. autoFlush' \in BOOLEAN /\ processDma' \in BOOLEAN
    BY <1>2 DEF DMA_setAutoFlush
  <2>2. UNCHANGED <<queueSize, maxTransferPerFrame, ignore, dataBufferSize, nextDataBuffer,
                    queue, queueIndexLimit, queueTransferSize, userTemp, ops, accepted, changed>>
    BY <1>2 DEF DMA_setAutoFlush, content
  <2>3. DmaTypeOK'
    BY <1>0, <2>1, <2>2 DEF DmaTypeOK
  <2>4. (Recorded /\ TempRegions /\ Sources /\ SourcesDisjoint)'
    BY <2>2 DEF IInv, BufferInv, Recorded, TempRegions, Sources, SourcesDisjoint
  <2>5. ~changed => (Counted(Q) /\ RefusedStand /\ AcceptedStand)'
    BY <2>2 DEF IInv, Counted, RefusedStand, AcceptedStand, Beyond, Q
  <2> QED
    BY <2>2, <2>3, <2>4, <2>5 DEF IInv, BufferInv
<1>3. ASSUME NEW v \in QueueSizes, DMA_setMaxQueueSize(v) PROVE IInv'
  BY <1>0, <1>3, ClearedIsInOrder DEF DMA_setMaxQueueSize, DmaTypeOK
<1>4. ASSUME NEW v \in BufferSizes, DMA_setBufferSize(v) PROVE IInv'
  BY <1>0, <1>4, ClearedIsInOrder DEF DMA_setBufferSize, DmaTypeOK
<1>5. ASSUME NEW v \in Capacities, DMA_setMaxTransferSize(v) PROVE IInv'
  <2>1. maxTransferPerFrame' \in 0 .. WordModulus - 1
    BY <1>5, DmaSizes DEF DMA_setMaxTransferSize, NoLimit
  <2> QED
    BY <1>0, <1>5, <2>1, ChangesInOrder DEF DMA_setMaxTransferSize, DmaTypeOK
<1>6. ASSUME NEW v \in BOOLEAN, DMA_setIgnoreOverCapacity(v) PROVE IInv'
  BY <1>0, <1>6, ChangesInOrder DEF DMA_setIgnoreOverCapacity, DmaTypeOK
<1>7. CASE DMA_clearQueue /\ UNCHANGED settings
  BY <1>0, <1>7, ClearedIsInOrder DEF settings, DmaTypeOK
<1>8. CASE VBlankDmaTask
  BY <1>0, <1>8, ClearedIsInOrder DEF VBlankDmaTask, DMA_flushQueue, settings, DmaTypeOK
<1>9. CASE UNCHANGED dmaVars
  <2>1. DmaTypeOK'
    BY <1>0, <1>9 DEF DmaTypeOK, dmaVars, settings, content
  <2>2. (Recorded /\ TempRegions /\ Sources /\ SourcesDisjoint)'
    BY <1>9 DEF IInv, BufferInv, Recorded, TempRegions, Sources, SourcesDisjoint, dmaVars, content
  <2>3. ~changed => (Counted(Q) /\ RefusedStand /\ AcceptedStand)'
    BY <1>9 DEF IInv, Counted, RefusedStand, AcceptedStand, Beyond, Q, dmaVars, settings, content
  <2> QED
    BY <1>9, <2>1, <2>2, <2>3 DEF IInv, BufferInv, dmaVars, content
<1> QED
  BY <1>1, <1>2, <1>3, <1>4, <1>5, <1>6, <1>7, <1>8, <1>9, QueueDmaInOrder, CopyAndQueueInOrder,
     AllocateTempInOrder, ReleaseTempInOrder DEF DmaNext

\* The inductive invariant holds of every reachable state.
THEOREM DmaInvariant == DmaSpec => []IInv
BY InitInOrder, NextInOrder, PTL DEF DmaSpec

\* Neither the queue nor the temporary buffer of dma.c is ever overrun, and no
\* accepted transfer loses its source in the buffer before the flush.
THEOREM DmaBuffers == DmaSpec => []BuffersAreSafe
<1>1. IInv => BuffersAreSafe
  BY DEF IInv, BufferInv, BuffersAreSafe
<1> QED
  BY <1>1, DmaInvariant, PTL

\* What DMA_queueDma and its kin report as queued is performed by the next
\* flush of a steady frame, whatever the capacity and the strategy.
THEOREM DmaAccepted == DmaSpec => []AcceptedArePerformed
<1>1. IInv => AcceptedArePerformed
  <2> SUFFICES ASSUME IInv, Steady, NEW o \in accepted
               PROVE  /\ \E i \in 1 .. Len(queue) : queue[i].op = o
                      /\ \A i \in 1 .. Len(queue) : queue[i].op = o => i <= FlushCount
    BY DEF AcceptedArePerformed
  <2>1. Q.queue = queue /\ Q.limit = queueIndexLimit
    BY DEF Q
  <2>2. ~changed /\ Total(Q) < WordModulus
    BY <2>1 DEF Steady, Total
  <2>3. queue \in Seq(Entry) /\ queueIndexLimit \in 0 .. Len(queue)
    BY DEF IInv, BufferInv, DmaTypeOK
  <2>4. \E i \in 1 .. Len(queue) : queue[i].op = o
    BY DEF IInv, BufferInv, Recorded
  <2>5. ASSUME NEW i \in 1 .. Len(queue), queue[i].op = o PROVE i <= FlushCount
    <3>1. ~Beyond(Q, i)
      BY <2>2, <2>5 DEF IInv, AcceptedStand
    <3> QED
      BY <2>1, <2>3, <3>1 DEF Beyond, FlushCount
  <2> QED
    BY <2>4, <2>5
<1> QED
  BY <1>1, DmaInvariant, PTL

\* What they report as refused is left out of the flush, but for the two known
\* traces, and the flush keeps within the capacity or sends one transfer.
THEOREM DmaRefused == DmaSpec => []RefusedAreLeftOut
<1>1. IInv => RefusedSlipOnlyAs
  <2> SUFFICES ASSUME IInv, Steady, NEW i \in 1 .. FlushCount
               PROVE  queue[i].op \in accepted \/ i = 1 \/ queue[i].half
    BY DEF RefusedSlipOnlyAs
  <2>1. Q.limit = queueIndexLimit
    BY DEF Q
  <2>2. queue \in Seq(Entry) /\ queueIndexLimit \in 0 .. Len(queue)
    BY DEF IInv, BufferInv, DmaTypeOK
  <2>3. i \in 1 .. Len(queue) /\ ~Beyond(Q, i)
    BY <2>1, <2>2 DEF FlushCount, Beyond
  <2> QED
    BY <2>3 DEF Steady, IInv, RefusedStand
<1>2. IInv => FlushFitsFrame
  <2> SUFFICES ASSUME IInv, ignore, ~changed, TotalCost(queue, FlushCount) < WordModulus
               PROVE  TotalCost(queue, FlushCount) <= maxTransferPerFrame \/ FlushCount <= 1
    BY DEF FlushFitsFrame
  <2>1. Q.queue = queue /\ Q.limit = queueIndexLimit /\ Counted(Q)
    BY DEF Q, IInv
  <2>2. CASE queueIndexLimit # 0
    <3>1. FlushCount = queueIndexLimit
      BY <2>2 DEF FlushCount
    <3> QED
      BY <2>1, <2>2, <3>1 DEF Counted
  <2>3. CASE queueIndexLimit = 0
    <3>1. FlushCount = Len(queue)
      BY <2>3 DEF FlushCount
    <3> QED
      BY <2>1, <2>3, <3>1 DEF Counted, Total
  <2> QED
    BY <2>2, <2>3
<1> QED
  BY <1>1, <1>2, DmaInvariant, PTL DEF RefusedAreLeftOut
=============================================================================
