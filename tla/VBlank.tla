-------------------------------- MODULE VBlank --------------------------------
(***************************************************************************)
(* The tasks of the vertical blank: SYS_doVBlankProcessEx (sys.c), the     *)
(* scroll values set for the next blank (vdp_bg.c) and palette fading      *)
(* (pal.c).  What is to be done is in the bits of VBlankProcess, which the *)
(* process copies, works off and stores back; the values themselves are in *)
(* variables shared with the program.                                      *)
(*                                                                         *)
(* The process is called by the main program or, as sys.h allows, by the   *)
(* callback of the vertical interrupt.  In the first case the interrupt    *)
(* may come between any two of its steps, in the second it falls between   *)
(* any two steps of the main program, which also runs the process itself   *)
(* inside a synchronous fade and inside PAL_waitFadeCompletion.  An update *)
(* of VBlankProcess by `|=' or `&=' is one instruction.                    *)
(***************************************************************************)
EXTENDS Integers

CONSTANTS
  Callers,         \* who calls the process: {"main"}, {"vint"} or both
  Planes, Values,  \* scroll planes and values
  Ranges,          \* ranges of colours, each with one colour component
  Levels,          \* its values in the palettes of the program, of 0 .. 7
  NumFrames,       \* lengths of fades
  CallbackScrolls, \* may the interrupt callback set a scroll during the process?
  WaitsForQueue    \* does the program let the last colours of a fade be sent
                   \* before it starts another?

ASSUME VBlankAssumption ==
  /\ Callers \subseteq {"main", "vint"} /\ Levels \subseteq 0 .. 7
  /\ NumFrames \subseteq Nat \ {0}
  /\ CallbackScrolls \in BOOLEAN /\ WaitsForQueue \in BOOLEAN

PALETTEFADE_ROUND_VAL == 127
NoRange == "none"
NoGoal == -1

Bits == {"scroll", "fade"}
Component == 0 .. 7                 \* of a colour
Fixed == 0 .. 7 * 256 + 255         \* a component with eight fractional bits
\* The shared variables: see `st'.
Shared ==
  [bits : SUBSET Bits, hscroll : [Planes -> Values], update : SUBSET Planes,
   shown : [Planes -> Values], counter : Nat, range : Ranges \cup {NoRange},
   acc : Fixed, step : Int, pal : Component, queue : SUBSET Ranges,
   cram : [Ranges -> Component]]

VARIABLES
  caller,
  st,    \* bits: VBlankProcess; hscroll, update: the scroll values and their
         \* update bits; shown: what the VDP has
         \* counter, range, acc, step: the fade; pal: fadeCurrentPal
         \* queue: ranges with a DMA from fadeCurrentPal queued; cram
  mpc,   \* where the main program is
  ret,   \* where it goes on after the process
  vbp,   \* the process's copy of the bits, when main runs it
  arg,   \* the plane whose scroll is being set
  goal,  \* the level that the last fade of a range promised
  last   \* how the last fade was started

vars == <<caller, st, mpc, ret, vbp, arg, goal, last>>

-----------------------------------------------------------------------------
(* Fading *)

\* DIVS truncates towards zero.
divs(a, n) == IF a >= 0 THEN a \div n ELSE -((-a) \div n)
Level(acc) == (acc \div 256) % 8

\* PAL_initFade: start colours queued for the next blank.
FadeInitedNoRound(s, r, src, dst, n) ==
  [s EXCEPT !.range = r, !.counter = n, !.pal = src, !.acc = src * 256,
            !.step = divs(dst * 256 - src * 256, n), !.queue = @ \cup {r}]

FadeInited(s, r, src, dst, n) ==
  [s EXCEPT !.range = r, !.counter = n, !.pal = src,
            !.acc = src * 256 + PALETTEFADE_ROUND_VAL,
            !.step = divs(dst * 256 - src * 256, n),
            !.queue = @ \cup {r}]

\* PAL_doFadeStep; it returns whether the counter is still above 0.
FadeStepped(s) ==
  IF s.counter <= 0 THEN s
  ELSE LET a == (s.acc + s.step) % 65536
       IN [s EXCEPT !.acc = a, !.pal = Level(a), !.queue = @ \cup {s.range}, !.counter = @ - 1]
FadeGoesOn(s) == FadeStepped(s).counter > 0

-----------------------------------------------------------------------------
(* The process, in steps from [st, vbp] to [st, vbp] *)

\* The copy of the bits and the flush of the DMA queue, which reads the
\* colours only now.
DoFlush(s) ==
  [st |-> [s EXCEPT !.cram = [r \in Ranges |-> IF r \in s.queue THEN s.pal ELSE @[r]],
                    !.queue = {}],
   vbp |-> s.bits]

\* VDP_doVBlankScrollProcess, which always leaves nothing to do.
DoScrollClearsAlways(p) ==
  [st |-> [p.st EXCEPT !.shown = [q \in Planes |->
                         IF q \in p.st.update /\ "scroll" \in p.vbp
                         THEN p.st.hscroll[q] ELSE @[q]],
                       !.update = {}],
   vbp |-> p.vbp \ {"scroll"}]

DoScroll(p) ==
  IF "scroll" \notin p.vbp THEN p
  ELSE [st |-> [p.st EXCEPT !.shown = [q \in Planes |->
                              IF q \in p.st.update THEN p.st.hscroll[q] ELSE @[q]],
                            !.update = {}],
        vbp |-> p.vbp \ {"scroll"}]

DoFadeKeepsBit(p) ==
  IF "fade" \notin p.vbp THEN p ELSE [st |-> FadeStepped(p.st), vbp |-> p.vbp]

DoFade(p) ==
  IF "fade" \notin p.vbp THEN p
  ELSE [st |-> FadeStepped(p.st),
        vbp |-> IF FadeGoesOn(p.st) THEN p.vbp ELSE p.vbp \ {"fade"}]

DoStore(p) == [st |-> [p.st EXCEPT !.bits = p.vbp], vbp |-> {}]

-----------------------------------------------------------------------------
Init ==
  /\ caller \in Callers
  /\ \E v \in Values, l \in Levels :
       st = [bits |-> {}, hscroll |-> [p \in Planes |-> v], update |-> {},
             shown |-> [p \in Planes |-> v],
             counter |-> 0, range |-> NoRange, acc |-> 0, step |-> 0, pal |-> 0,
             queue |-> {}, cram |-> [r \in Ranges |-> l]]
  /\ mpc = "run" /\ ret = "run" /\ vbp = {} /\ arg = NoRange
  /\ goal = [r \in Ranges |-> NoGoal] /\ last = "none"

(* The main program *)

\* VDP_setHorizontalScrollVSync and VDP_setVerticalScrollVSync: the value, the
\* update bit, the task bit.
VDP_setScrollVSync(p, v) ==
  /\ mpc = "run"
  /\ st' = [st EXCEPT !.hscroll[p] = v]
  /\ arg' = p /\ mpc' = "update"
  /\ UNCHANGED <<caller, ret, vbp, goal, last>>

ScrollUpdateBit ==
  /\ mpc = "update"
  /\ st' = [st EXCEPT !.update = @ \cup {arg}]
  /\ mpc' = "task"
  /\ UNCHANGED <<caller, ret, vbp, arg, goal, last>>

ScrollTaskBit ==
  /\ mpc = "task"
  /\ st' = [st EXCEPT !.bits = @ \cup {"scroll"}]
  /\ mpc' = "run" /\ arg' = NoRange
  /\ UNCHANGED <<caller, ret, vbp, goal, last>>

\* PAL_fade by a program that waits for the fade before: the initialisation,
\* then the task bit or the loop of a synchronous fade.  No process can touch
\* the fade's variables between the two, as its task bit is clear.
MayFade == mpc = "run" /\ "fade" \notin st.bits /\ (WaitsForQueue => st.queue = {})

PAL_fadeAsync(r, src, dst, n) ==
  /\ MayFade
  /\ st' = [FadeInited(st, r, src, dst, n) EXCEPT !.bits = @ \cup {"fade"}]
  /\ goal' = [goal EXCEPT ![r] = dst] /\ last' = "async"
  /\ UNCHANGED <<caller, mpc, ret, vbp, arg>>

PAL_fadeSync(r, src, dst, n) ==
  /\ MayFade
  /\ st' = FadeInited(st, r, src, dst, n)
  /\ goal' = [goal EXCEPT ![r] = dst] /\ last' = "sync"
  /\ mpc' = "flush" /\ ret' = "step"
  /\ UNCHANGED <<caller, vbp, arg>>

SyncStep ==
  /\ mpc = "step"
  /\ st' = FadeStepped(st)
  /\ mpc' = "flush" /\ ret' = (IF FadeGoesOn(st) THEN "step" ELSE "run")
  /\ UNCHANGED <<caller, vbp, arg, goal, last>>

PAL_interruptFade ==
  /\ mpc = "run" /\ "fade" \in st.bits
  /\ st' = [st EXCEPT !.bits = @ \ {"fade"}]
  /\ goal' = [goal EXCEPT ![st.range] = NoGoal]
  /\ UNCHANGED <<caller, mpc, ret, vbp, arg, last>>

\* The main loop's own process, or PAL_waitFadeCompletion.
SYS_doVBlankProcess ==
  /\ mpc = "run" /\ (caller = "main" \/ "fade" \in st.bits)
  /\ mpc' = "flush" /\ ret' = "run"
  /\ UNCHANGED <<caller, st, vbp, arg, goal, last>>

ProcessStep(at, next, p) ==
  /\ mpc = at /\ mpc' = next
  /\ st' = p.st /\ vbp' = p.vbp
  /\ UNCHANGED <<caller, ret, arg, goal, last>>

Process ==
  \/ ProcessStep("flush", "scroll", DoFlush(st))
  \/ ProcessStep("scroll", "fade", DoScroll([st |-> st, vbp |-> vbp]))
  \/ ProcessStep("fade", "store", DoFade([st |-> st, vbp |-> vbp]))
  \/ ProcessStep("store", ret, DoStore([st |-> st, vbp |-> vbp]))

-----------------------------------------------------------------------------
(* The vertical interrupt *)

\* The callback runs the process.  When the blank is already over it returns
\* at once, and the process is missed for this frame.
VIntProcess ==
  /\ caller = "vint"
  /\ st' = DoStore(DoFade(DoScroll(DoFlush(st)))).st
  /\ UNCHANGED <<caller, mpc, ret, vbp, arg, goal, last>>

\* The callback sets a scroll value.
VIntScroll(p, v) ==
  /\ caller = "main"
  /\ mpc \in {"scroll", "fade", "store"} => CallbackScrolls
  /\ st' = [st EXCEPT !.hscroll[p] = v, !.update = @ \cup {p}, !.bits = @ \cup {"scroll"}]
  /\ UNCHANGED <<caller, mpc, ret, vbp, arg, goal, last>>

Next ==
  \/ \E p \in Planes, v \in Values : VDP_setScrollVSync(p, v) \/ VIntScroll(p, v)
  \/ ScrollUpdateBit \/ ScrollTaskBit
  \/ \E r \in Ranges, src, dst \in Levels, n \in NumFrames :
       PAL_fadeAsync(r, src, dst, n) \/ PAL_fadeSync(r, src, dst, n)
  \/ SyncStep
  \/ PAL_interruptFade
  \/ SYS_doVBlankProcess
  \/ Process
  \/ VIntProcess

\* The main program goes on, and calls the process again and again when that
\* is its part; otherwise the interrupt does.
Spec == /\ Init /\ [][Next]_vars
        /\ WF_vars(Process \/ SyncStep \/ ScrollUpdateBit \/ ScrollTaskBit)
        /\ SF_vars(SYS_doVBlankProcess) /\ WF_vars(VIntProcess)

-----------------------------------------------------------------------------
(* Properties *)

\* Types of the variables.
TypeOK ==
  /\ st \in Shared /\ vbp \subseteq Bits
  /\ mpc \in {"run", "update", "task", "flush", "scroll", "fade", "store", "step"}
  /\ ret \in {"run", "step"} /\ goal \in [Ranges -> Levels \cup {NoGoal}]

\* A scroll value waiting for the blank has its task bit set: the process never
\* stores back a copy of VBlankProcess without the bit of an update that came
\* after it, and a process that falls between the update bit and the task bit
\* loses nothing.
ScrollIsPending == st.update # {} /\ mpc # "task" => "scroll" \in st.bits

\* The VDP has the value last set for every plane without a pending update.
ShownIsSet ==
  \A p \in Planes : p \notin st.update /\ ~(mpc = "update" /\ arg = p)
                      => st.shown[p] = st.hscroll[p]

\* No scroll value that was set is lost on its way to the VDP.
ScrollIsKept == TypeOK /\ ScrollIsPending /\ ShownIsSet

\* When a fade is over and its last colours are sent, its range has the colours
\* of the destination palette, exactly, whatever faded before and after it and
\* whoever ran the process meanwhile: the accumulated rounding never shows.
FadeLands ==
  \A r \in Ranges :
    goal[r] # NoGoal /\ r \notin st.queue /\ ~(r = st.range /\ st.counter > 0)
      => st.cram[r] = goal[r]

\* PAL_fade without async returns with the final colours on the screen.
SyncIsComplete ==
  mpc = "run" /\ last = "sync" => st.queue = {} /\ st.cram[st.range] = goal[st.range]

\* A fade, waited for or not, ends on its target.
FadesComplete == FadeLands /\ SyncIsComplete

\* Everything waiting for the blank is done eventually: scroll updates, and
\* asynchronous fades, so that PAL_waitFadeCompletion returns; also when the
\* main program's process stores back a fade bit that the interrupt's process
\* had just cleared.  A synchronous fade returns.
TasksAreDone ==
  /\ ("scroll" \in st.bits) ~> ("scroll" \notin st.bits)
  /\ ("fade" \in st.bits) ~> ("fade" \notin st.bits)
  /\ (mpc = "step") ~> (mpc = "run")
=============================================================================
