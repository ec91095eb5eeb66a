-------------------------------- MODULE Task --------------------------------
(***************************************************************************)
(* The two-task scheduler of task.s, the context switch of the vertical    *)
(* interrupt handler (_VINT in boot/sega.s), and the interrupt masking of  *)
(* sys.c that the supervisor task uses around it.                          *)
(*                                                                         *)
(* The supervisor task (the game) gives the CPU to the user task with      *)
(* TSK_userYield or TSK_superPend and gets it back at a vertical interrupt *)
(* or when the user task executes trap #0.  The calls are split where an   *)
(* interrupt may come between two instructions that matter: the test of    *)
(* task_pc and the switch in TSK_userYield and TSK_superPend; the test of  *)
(* task_pc, the clear of task_lock and the trap in TSK_superPost; the trap *)
(* and the store of task_pc by its handler.                                *)
(***************************************************************************)
EXTENDS Integers

CONSTANTS
  Waits,          \* frame counts given to TSK_superPend
  LockModulus,    \* 2^16: the width of task_lock
  ImmediatePosts, \* the `immediate' values the user task passes
  StopCallers,    \* who calls TSK_stop: "super", "user", "callback"
  MaxNesting      \* bound on nested SYS_disableInts calls

\* TSK_PEND_FOREVER is -1.
Forever == LockModulus - 1

ASSUME TaskAssumption ==
  /\ LockModulus \in Nat /\ LockModulus > 1
  /\ Waits \subseteq 1 .. Forever
  /\ ImmediatePosts \subseteq BOOLEAN
  /\ StopCallers \subseteq {"super", "user", "callback"}
  /\ MaxNesting \in Nat

VARIABLES
  running,         \* "super" or "user": the S bit of the running task
  superAt,         \* "run", or the call it is in: "yield", "pend"; while it
                   \* still has the CPU the call has tested task_pc and not
                   \* yet masked the interrupts
  userAt,          \* where the user task is: "run"; in TSK_superPost before
                   \* the clear ("clear") or the trap ("trap"); in the trap's
                   \* handler before it stores task_pc ("trapped"); or at
                   \* address 0 ("lost")
  immediate,       \* the parameter of that TSK_superPost
  task_pc,         \* is task_pc non-null?
  task_lock,
  intTrace,        \* in the vertical interrupt handler?
  mask,            \* the supervisor task's interrupt level: 3 or 7
  intLevelSave,
  disableIntStack,
  calls,           \* SYS_disableInts calls of the supervisor task not yet
                   \* followed by their SYS_enableInts (history)
  wait,            \* what the pending TSK_superPend was given (history)
  frames,          \* vertical interrupts the user task has met since (history)
  posted,          \* did TSK_superPost clear the lock since? (history)
  leftover,        \* was the trap of an earlier post still to come when it
                   \* was called? (history)
  stopped,         \* TSK_stop was called, and no TSK_userSet since: "no";
                   \* "idle" when the user task waited, "live" when it had
                   \* the CPU, "late" when it was about to get it (history)
  lastPend         \* the last return of TSK_superPend (history)

taskVars == <<running, superAt, userAt, immediate, task_pc, task_lock>>
maskVars == <<mask, intLevelSave, disableIntStack, calls>>
history == <<wait, frames, posted, leftover, stopped, lastPend>>
schedulerVars == <<taskVars, intTrace, maskVars, history>>

NoReturn == [ret |-> 0, wait |-> 0, frames |-> 0, posted |-> TRUE, leftover |-> FALSE]

\* SYS_init: TSK_init, then interrupts enabled at level 3.
TaskInit ==
  /\ running = "super" /\ superAt = "run" /\ userAt = "run" /\ immediate = FALSE
  /\ task_pc = FALSE /\ task_lock = 0
  /\ intTrace = FALSE
  /\ mask = 3 /\ intLevelSave = 0 /\ disableIntStack = 0 /\ calls = 0
  /\ wait = 0 /\ frames = 0 /\ posted = FALSE /\ leftover = FALSE /\ stopped = "no"
  /\ lastPend = NoReturn

SuperRuns == running = "super" /\ superAt = "run" /\ ~intTrace
Switching == running = "super" /\ superAt # "run"
UserRuns == running = "user" /\ ~intTrace
CallbackRuns == intTrace

-----------------------------------------------------------------------------
(* The supervisor task's calls *)

\* The function given starts from its first instruction.
TSK_userSet ==
  /\ SuperRuns
  /\ task_pc' = TRUE /\ userAt' = "run" /\ stopped' = "no"
  /\ UNCHANGED <<running, superAt, immediate, task_lock, intTrace, maskVars,
                 wait, frames, posted, leftover, lastPend>>

TSK_stop(caller) ==
  /\ caller \in StopCallers
  /\ \/ caller = "super" /\ SuperRuns
     \/ caller = "user" /\ UserRuns /\ userAt = "run"
     \/ caller = "callback" /\ CallbackRuns
  /\ task_pc' = FALSE
  /\ stopped' = IF running = "user" THEN "live" ELSE IF Switching THEN "late" ELSE "idle"
  /\ UNCHANGED <<running, superAt, userAt, immediate, task_lock, intTrace, maskVars,
                 wait, frames, posted, leftover, lastPend>>

TSK_userYieldUnchecked ==
  /\ SuperRuns
  /\ superAt' = "yield"
  /\ UNCHANGED <<running, userAt, immediate, task_pc, task_lock, intTrace, maskVars, history>>

\* The test of task_pc.  Without a user task the call returns at once, nothing
\* changed.
TSK_userYield ==
  /\ SuperRuns /\ task_pc
  /\ superAt' = "yield"
  /\ UNCHANGED <<running, userAt, immediate, task_pc, task_lock, intTrace, maskVars, history>>

TSK_superPendKeepsLock(w) ==
  /\ SuperRuns /\ task_pc
  /\ superAt' = "pend"
  /\ wait' = w /\ frames' = 0 /\ posted' = FALSE /\ leftover' = (userAt = "trap")
  /\ UNCHANGED <<running, userAt, immediate, task_pc, task_lock, intTrace, maskVars, stopped, lastPend>>

\* The test of task_pc and the store of the lock, which no interrupt reads
\* before the switch.
TSK_superPend(w) ==
  /\ SuperRuns /\ task_pc
  /\ task_lock' = w
  /\ superAt' = "pend"
  /\ wait' = w /\ frames' = 0 /\ posted' = FALSE /\ leftover' = (userAt = "trap")
  /\ UNCHANGED <<running, userAt, immediate, task_pc, intTrace, maskVars, stopped, lastPend>>

\* userYield: from the masking of the interrupts to the rte, which jumps to the
\* task_pc of now: 0 when an interrupt's callback stopped the task meanwhile.
\* What the CPU makes of the vector table as code is not modelled.
UserYield ==
  /\ Switching /\ ~intTrace
  /\ running' = "user"
  /\ userAt' = IF task_pc THEN userAt ELSE "lost"
  /\ UNCHANGED <<superAt, immediate, task_pc, task_lock, intTrace, maskVars, history>>

\* Ignored in an interrupt; nested calls count.
SYS_disableInts ==
  IF intTrace
  THEN UNCHANGED <<disableIntStack, intLevelSave, mask>>
  ELSE /\ disableIntStack' = disableIntStack + 1
       /\ IF disableIntStack = 0 THEN intLevelSave' = mask /\ mask' = 7
          ELSE UNCHANGED <<intLevelSave, mask>>

SYS_enableIntsOuter ==
  IF intTrace
  THEN UNCHANGED <<disableIntStack, intLevelSave, mask>>
  ELSE /\ disableIntStack' = disableIntStack - 1
       /\ mask' = intLevelSave
       /\ UNCHANGED intLevelSave

SYS_enableInts ==
  IF intTrace
  THEN UNCHANGED <<disableIntStack, intLevelSave, mask>>
  ELSE /\ disableIntStack' = disableIntStack - 1
       /\ mask' = IF disableIntStack - 1 = 0 THEN intLevelSave ELSE mask
       /\ UNCHANGED intLevelSave

\* The supervisor task brackets a critical section.
EnterCritical ==
  /\ SuperRuns /\ calls < MaxNesting
  /\ SYS_disableInts /\ calls' = calls + 1
  /\ UNCHANGED <<taskVars, intTrace, history>>

LeaveCritical ==
  /\ SuperRuns /\ calls > 0
  /\ SYS_enableInts /\ calls' = calls - 1
  /\ UNCHANGED <<taskVars, intTrace, history>>

-----------------------------------------------------------------------------
(* The user task *)

\* The supervisor task goes on after its call, which returns `ret'.
Resume(ret) ==
  /\ running' = "super" /\ superAt' = "run"
  /\ task_pc' = TRUE
  /\ lastPend' = IF superAt = "pend"
                 THEN [ret |-> ret, wait |-> wait, frames |-> frames', posted |-> posted,
                       leftover |-> leftover]
                 ELSE lastPend

\* tst.l task_pc; beq
TSK_superPost(imm) ==
  /\ UserRuns /\ userAt = "run" /\ task_pc
  /\ userAt' = "clear" /\ immediate' = imm
  /\ UNCHANGED <<running, superAt, task_pc, task_lock, intTrace, maskVars, history>>

\* clr task_lock; tst.b
PostClears ==
  /\ UserRuns /\ userAt = "clear"
  /\ task_lock' = 0 /\ posted' = TRUE
  /\ userAt' = IF immediate THEN "trap" ELSE "run"
  /\ UNCHANGED <<running, superAt, immediate, task_pc, intTrace, maskVars,
                 wait, frames, leftover, stopped, lastPend>>

\* trap #0: supervisor mode from here on.
Trap0 ==
  /\ UserRuns /\ userAt = "trap"
  /\ userAt' = "trapped"
  /\ UNCHANGED <<running, superAt, immediate, task_pc, task_lock, intTrace, maskVars, history>>

\* _trap_0 stores task_pc, whatever TSK_stop did to it, and returns to the
\* supervisor task.
Trap0Switches ==
  /\ UserRuns /\ userAt = "trapped"
  /\ userAt' = "run"
  /\ frames' = frames
  /\ Resume(0)
  /\ UNCHANGED <<immediate, task_lock, intTrace, maskVars, wait, posted, leftover, stopped>>

-----------------------------------------------------------------------------
(* The vertical interrupt *)

\* The user task's level is 4 (task_sr), the interrupt's is 6.
VIntTaken == ~intTrace /\ userAt # "lost" /\ (running = "user" \/ mask < 6)

\* The S bit of the interrupted code is clear.
UserMode == running = "user" /\ userAt # "trapped"

\* The context switch of _VINT.  The bcs after tst.w never branches: tst clears
\* the carry, so a lock of -1 is counted down like any other.
LockAfter == (task_lock - 1) % LockModulus

SwitchesAtZeroNever == FALSE
SwitchesAtZero == task_lock = 0
SwitchesOnTimeout == task_lock # 0 /\ LockAfter = 0

VInt ==
  /\ VIntTaken
  /\ intTrace' = TRUE
  /\ frames' = IF UserMode /\ superAt = "pend" THEN frames + 1 ELSE frames
  /\ IF ~UserMode
     THEN UNCHANGED <<running, superAt, task_pc, task_lock, lastPend>>
     ELSE \/ /\ SwitchesAtZero
             /\ Resume(0)
             /\ UNCHANGED task_lock
          \/ /\ SwitchesOnTimeout
             /\ task_lock' = LockAfter
             /\ Resume(1)
          \/ /\ task_lock # 0 /\ ~SwitchesOnTimeout
             /\ task_lock' = LockAfter
             /\ UNCHANGED <<running, superAt, task_pc, lastPend>>
  /\ UNCHANGED <<userAt, immediate, maskVars, wait, posted, leftover, stopped>>

\* The callback brackets something of its own with SYS_disableInts and
\* SYS_enableInts, both ignored.
CallbackDisablesInts ==
  /\ CallbackRuns
  /\ SYS_disableInts
  /\ UNCHANGED <<taskVars, intTrace, calls, history>>

CallbackEnablesInts ==
  /\ CallbackRuns
  /\ SYS_enableInts
  /\ UNCHANGED <<taskVars, intTrace, calls, history>>

VIntReturns ==
  /\ CallbackRuns
  /\ intTrace' = FALSE
  /\ UNCHANGED <<taskVars, maskVars, history>>

\* Nothing more is said of a CPU that went to address 0.
Lost == userAt = "lost" /\ UNCHANGED schedulerVars

-----------------------------------------------------------------------------
TaskNext ==
  \/ TSK_userSet
  \/ \E c \in StopCallers : TSK_stop(c)
  \/ TSK_userYield
  \/ \E w \in Waits : TSK_superPend(w)
  \/ UserYield
  \/ EnterCritical
  \/ LeaveCritical
  \/ \E imm \in ImmediatePosts : TSK_superPost(imm)
  \/ PostClears
  \/ Trap0
  \/ Trap0Switches
  \/ VInt
  \/ CallbackDisablesInts
  \/ CallbackEnablesInts
  \/ VIntReturns
  \/ Lost

TaskSpec == TaskInit /\ [][TaskNext]_schedulerVars

\* The display raises the interrupt every frame and its handler returns.  The
\* switches are a few instructions, which interrupts a frame apart cannot put
\* off for ever.
TaskFairSpec ==
  /\ TaskSpec
  /\ WF_schedulerVars(VInt) /\ WF_schedulerVars(VIntReturns)
  /\ SF_schedulerVars(UserYield) /\ SF_schedulerVars(Trap0Switches)

-----------------------------------------------------------------------------
(* Properties *)

\* Types of the variables.
TaskTypeOK ==
  /\ running \in {"super", "user"} /\ superAt \in {"run", "yield", "pend"}
  /\ userAt \in {"run", "clear", "trap", "trapped", "lost"} /\ immediate \in BOOLEAN
  /\ task_pc \in BOOLEAN /\ task_lock \in 0 .. Forever
  /\ intTrace \in BOOLEAN
  /\ mask \in {3, 7} /\ intLevelSave \in {0, 3, 7}
  /\ disableIntStack \in 0 .. MaxNesting /\ calls \in 0 .. MaxNesting
  /\ wait \in Waits \cup {0} /\ frames \in 0 .. Forever
  /\ posted \in BOOLEAN /\ leftover \in BOOLEAN
  /\ stopped \in {"no", "idle", "live", "late"}
  /\ lastPend \in [ret : {0, 1}, wait : Waits \cup {0}, frames : 0 .. Forever,
                   posted : BOOLEAN, leftover : BOOLEAN]

\* TSK_superPend reports a timeout exactly when the number of frames it was
\* given has passed, and only if the user task did not post meanwhile.
TimeoutIsExact == lastPend.ret = 1 => lastPend.frames = lastPend.wait /\ ~lastPend.posted

\* The last TSK_superPend was ended by the trap of a post made before it.
EndedByLeftover == lastPend.ret = 0 /\ ~lastPend.posted /\ lastPend.leftover

\* TSK_superPend returns 0 without a post after the call only when the trap of
\* an earlier immediate post, cut off by an interrupt, was still to come.
WokenByPost == lastPend.ret = 0 => lastPend.posted \/ EndedByLeftover

\* TSK_userYield lends the CPU for one frame: no lock left over from an earlier
\* TSK_superPend keeps the next interrupt from resuming the supervisor task,
\* except after such a leftover trap.
YieldLastsOneFrame == superAt = "yield" => task_lock = 0 \/ EndedByLeftover

\* Every TSK_superPend and TSK_userYield ends for the reason it reports, at the
\* frame it should, however posts, timeouts and interrupts interleave.
PendsEndRight == TimeoutIsExact /\ WokenByPost /\ YieldLastsOneFrame

\* A user task that TSK_stop met waiting for the CPU is not given it until
\* TSK_userSet, and the switch never jumps to a task_pc that TSK_stop cleared,
\* except when an interrupt's callback called TSK_stop after the test of task_pc
\* in TSK_userYield or TSK_superPend and before they mask the interrupts.
StoppedNeverRuns ==
  [][running = "super" /\ running' = "user"
       => stopped # "idle" /\ (userAt' = "lost" => stopped = "late")]_schedulerVars

\* Between SYS_disableInts and the matching SYS_enableInts, nested or not and
\* whatever interrupt callbacks call, no interrupt is taken by the supervisor
\* task.
CriticalIsQuiet == calls > 0 /\ running = "super" => ~VIntTaken

\* When the last critical section is left, interrupts are enabled again.
IntsComeBack == calls = 0 => mask = 3

\* Critical sections nest: the counter stays within its bounds, inside it is
\* quiet, outside the interrupts are back.
MaskingNests == TaskTypeOK /\ CriticalIsQuiet /\ IntsComeBack

\* A supervisor task that gave the CPU away gets it back, unless that TSK_stop
\* sent the CPU to address 0.
SuperResumes == superAt # "run" ~> superAt = "run" \/ userAt = "lost"
=============================================================================
