-------------------------------- MODULE Pool --------------------------------
(***************************************************************************)
(* The fixed-size object allocator of pool.c and the object layer of       *)
(* object.c that is built on it.                                           *)
(*                                                                         *)
(* A pool owns a bank of Size objects and an allocation stack of Size      *)
(* pointers.  `free' splits the stack: the entries below it are the free   *)
(* objects, the entries from it up are meant to be the allocated ones, so  *)
(* that a program may walk over them (POOL_getFirst, OBJ_updateAll).  The  *)
(* word stored just before every object (here index[o]) is meant to be its *)
(* position in the stack.                                                  *)
(*                                                                         *)
(* An object is named by its position in the bank.  The program is the     *)
(* environment: it creates, releases and resets in any order, releases     *)
(* only objects it holds, and its update methods do the same from inside   *)
(* OBJ_updateAll.                                                          *)
(***************************************************************************)
EXTENDS Integers, FiniteSets

CONSTANTS
  Size,             \* capacity given to POOL_create
  ReleaseModes,     \* the maintainCoherency values the program passes
  CallbackReleases  \* what an update method releases: "updated" = only
                    \* objects this pass already updated (its own included),
                    \* "any" = any object

ASSUME SizeAssumption == Size \in Nat \ {0}
ASSUME ReleaseModesAssumption == ReleaseModes \subseteq BOOLEAN
ASSUME CallbackAssumption == CallbackReleases \in {"updated", "any"}

Objects == 0 .. Size - 1
Slots == 0 .. Size - 1
Parts == {"pool", "bank", "allocStack"}
Methods == {"null", "dummy", "user"}

VARIABLES
  blocks,        \* the parts of the pool that are allocated on the heap
  allocStack,    \* [Slots -> Objects]
  free,          \* pool->free - pool->allocStack
  index,         \* [Objects -> Slots], the word before each object
  internalState, \* [Objects -> BOOLEAN], bit OBJ_ALLOCATED
  update,        \* [Objects -> Methods], the update method pointer
  held,          \* objects the program was given and has not given back
  pass,          \* OBJ_updateAll: "idle", "loop" or "callback"
  objects,       \* OBJ_updateAll's cursor in the stack
  num,           \* OBJ_updateAll's count of objects left
  due            \* objects allocated when the pass began, not updated yet
                 \* and not released since (history variable)

poolVars == <<allocStack, free, index>>
objVars == <<internalState, update>>
passVars == <<pass, objects, num, due>>
vars == <<blocks, poolVars, objVars, held, passVars>>

Exists == blocks = Parts

Init ==
  /\ blocks = {}
  /\ allocStack = [i \in Slots |-> i]
  /\ free = Size
  /\ index = [o \in Objects |-> o]
  /\ internalState = [o \in Objects |-> FALSE]
  /\ update = [o \in Objects |-> "null"]
  /\ held = {}
  /\ pass = "idle" /\ objects = 0 /\ num = 0 /\ due = {}

-----------------------------------------------------------------------------
(***************************************************************************)
(* pool.c                                                                  *)
(***************************************************************************)

\* The stack half of POOL_reset: object k of the bank in slot k, all free.
ResetStack ==
  /\ allocStack' = [i \in Slots |-> i]
  /\ index' = [o \in Objects |-> o]
  /\ free' = Size

\* The bank half of POOL_reset: memset over the whole bank when asked.
ClearBank(clear) ==
  IF clear
  THEN /\ internalState' = [o \in Objects |-> FALSE]
       /\ update' = [o \in Objects |-> "null"]
  ELSE UNCHANGED objVars

\* POOL_create, with the three blocks it asks MEM_alloc for.
POOL_create ==
  /\ blocks = {}
  /\ blocks' = Parts
  /\ ResetStack /\ ClearBank(TRUE)
  /\ UNCHANGED <<held, passVars>>

\* By the part MEM_alloc refused: the blocks obtained before, and the ones that
\* path of POOL_create frees.
ObtainedBefore == [pool |-> {}, bank |-> {"pool"}, allocStack |-> {"pool", "bank"}]
FreedAfter == [pool |-> {}, bank |-> {"pool"}, allocStack |-> {"bank", "pool"}]

POOL_createFails(refused) ==
  /\ blocks = {}
  /\ blocks' = ObtainedBefore[refused] \ FreedAfter[refused]
  /\ UNCHANGED <<poolVars, objVars, held, passVars>>

\* All objects go back to the pool, whoever holds them.
POOL_reset(clear) ==
  /\ Exists /\ pass = "idle"
  /\ ResetStack /\ ClearBank(clear)
  /\ held' = {}
  /\ UNCHANGED <<blocks, passVars>>

POOL_destroy ==
  /\ Exists /\ pass = "idle"
  /\ blocks' = blocks \ {"allocStack", "bank", "pool"}
  /\ held' = {}
  /\ UNCHANGED <<poolVars, objVars, passVars>>

\* NULL is -1.
POOL_allocateResult == IF free = 0 THEN -1 ELSE allocStack[free - 1]

POOL_allocateStep ==
  /\ free' = IF free = 0 THEN 0 ELSE free - 1
  /\ UNCHANGED <<allocStack, index>>

POOL_releaseStackNoPush(o, coherent) ==
  IF coherent THEN [allocStack EXCEPT ![index[o]] = allocStack[free]] ELSE allocStack

POOL_releaseStackNoSwap(o, coherent) == [allocStack EXCEPT ![free] = o]

\* POOL_release as a value: the stack and the indexes after releasing o.
\* The entry that o overwrites takes the slot that o's index names.
POOL_releaseStack(o, coherent) ==
  LET prev == allocStack[free]
      put == [allocStack EXCEPT ![free] = o]
  IN IF coherent /\ prev # o THEN [put EXCEPT ![index[o]] = prev] ELSE put

POOL_releaseIndex(o, coherent) ==
  LET prev == allocStack[free]
  IN IF coherent /\ prev # o
     THEN [index EXCEPT ![prev] = index[o], ![o] = index[prev]]
     ELSE index

POOL_release(o, coherent) ==
  /\ allocStack' = POOL_releaseStack(o, coherent)
  /\ index' = POOL_releaseIndex(o, coherent)
  /\ free' = free + 1

POOL_getFree == free
POOL_getNumAllocatedIsFree == POOL_getFree
POOL_getNumAllocated == Size - POOL_getFree
POOL_getFirst == free

\* Position of o counted from the top of the stack, -1 when it is not among
\* the allocated entries; the scan goes up from `free'.
POOL_find(o) ==
  LET at == {i \in Slots : i >= free /\ allocStack[i] = o}
  IN IF at = {} THEN -1
     ELSE (Size - 1) - (CHOOSE i \in at : \A j \in at : i <= j)

-----------------------------------------------------------------------------
(***************************************************************************)
(* object.c.  The operations may be called at any time between two passes  *)
(* of OBJ_updateAll, and by the update method of a pass.                   *)
(***************************************************************************)
Running == Exists /\ pass \in {"idle", "callback"}

MayRelease(o) ==
  pass = "callback" /\ CallbackReleases = "updated" => o \notin due

OBJ_create ==
  /\ Running
  /\ POOL_allocateStep
  /\ LET o == POOL_allocateResult IN
       IF o = -1
       THEN UNCHANGED <<objVars, held>>
       ELSE /\ internalState' = [internalState EXCEPT ![o] = TRUE]
            /\ update' = [update EXCEPT ![o] = "dummy"]
            /\ held' = held \cup {o}
  /\ UNCHANGED <<blocks, passVars>>

OBJ_release(o, coherent) ==
  /\ Running /\ o \in held /\ MayRelease(o)
  /\ POOL_release(o, coherent)
  /\ internalState' = [internalState EXCEPT ![o] = FALSE]
  /\ held' = held \ {o}
  /\ due' = due \ {o}
  /\ UNCHANGED <<blocks, update, pass, objects, num>>

OBJ_setUpdateMethod(o, method) ==
  /\ Running /\ o \in held
  /\ method \in {"null", "user"}
  /\ update' = [update EXCEPT ![o] = IF method # "null" THEN method ELSE "dummy"]
  /\ UNCHANGED <<blocks, poolVars, internalState, held, passVars>>

\* OBJ_updateAll reads the bounds of its walk once, before the loop.  As its
\* header asks, only programs that always maintain coherency call it.
OBJ_updateAll ==
  /\ Exists /\ pass = "idle" /\ FALSE \notin ReleaseModes
  /\ pass' = "loop"
  /\ objects' = POOL_getFirst
  /\ num' = POOL_getNumAllocated
  /\ due' = held
  /\ UNCHANGED <<blocks, poolVars, objVars, held>>

\* One turn of the loop: the object under the cursor is updated.
UpdateNext ==
  /\ pass = "loop" /\ num > 0
  /\ objects' = objects + 1
  /\ num' = num - 1
  /\ due' = due \ {allocStack[objects]}
  /\ pass' = IF update[allocStack[objects]] = "user" THEN "callback" ELSE "loop"
  /\ UNCHANGED <<blocks, poolVars, objVars, held>>

CallbackReturnsRestarts ==
  /\ pass = "callback"
  /\ pass' = "loop"
  /\ objects' = POOL_getFirst
  /\ num' = POOL_getNumAllocated
  /\ UNCHANGED <<blocks, poolVars, objVars, held, due>>

CallbackReturns ==
  /\ pass = "callback"
  /\ pass' = "loop"
  /\ UNCHANGED <<blocks, poolVars, objVars, held, objects, num, due>>

UpdateEnds ==
  /\ pass = "loop" /\ num = 0
  /\ pass' = "idle"
  /\ UNCHANGED <<blocks, poolVars, objVars, held, objects, num, due>>

-----------------------------------------------------------------------------
Next ==
  \/ POOL_create
  \/ \E refused \in Parts : POOL_createFails(refused)
  \/ \E clear \in BOOLEAN : POOL_reset(clear)
  \/ POOL_destroy
  \/ OBJ_create
  \/ \E o \in Objects, coherent \in ReleaseModes : OBJ_release(o, coherent)
  \/ \E o \in Objects, method \in Methods : OBJ_setUpdateMethod(o, method)
  \/ OBJ_updateAll
  \/ UpdateNext
  \/ CallbackReturns
  \/ UpdateEnds

Spec == Init /\ [][Next]_vars

\* The loop runs on, and the update methods return.
Fairness == WF_vars(UpdateNext) /\ WF_vars(CallbackReturns) /\ WF_vars(UpdateEnds)
FairSpec == Spec /\ Fairness

-----------------------------------------------------------------------------
(***************************************************************************)
(* Properties                                                              *)
(***************************************************************************)

\* Types of the variables.
TypeOK ==
  /\ blocks \subseteq Parts
  /\ allocStack \in [Slots -> Objects]
  /\ free \in 0 .. Size
  /\ index \in [Objects -> Slots]
  /\ internalState \in [Objects -> BOOLEAN]
  /\ update \in [Objects -> Methods]
  /\ held \subseteq Objects
  /\ pass \in {"idle", "loop", "callback"}
  /\ objects \in 0 .. Size
  /\ num \in 0 .. Size
  /\ due \subseteq Objects

\* POOL_allocate never hands out an object that the program still holds: the
\* free part of the stack has no duplicates and no held object.
NoDoubleAllocation ==
  Exists =>
    /\ \A i, j \in Slots : i < j /\ j < free => allocStack[i] # allocStack[j]
    /\ \A i \in Slots : i < free => allocStack[i] \notin held

\* No object is ever lost: every object is held or waits in the free part,
\* so POOL_getFree and POOL_getNumAllocated count what the program holds.
NothingLost ==
  Exists =>
    \A o \in Objects : o \in held \/ \E i \in Slots : i < free /\ allocStack[i] = o

\* No order of POOL_allocate and POOL_release hands an object out twice, loses
\* one, or takes `free' off the stack.
AllocationIsSound == TypeOK /\ NoDoubleAllocation /\ NothingLost

\* With maintainCoherency the upper part of the stack is exactly the held
\* objects, each once: the walk from POOL_getFirst sees what is allocated.
IterationSeesHeld ==
  Exists =>
    /\ \A i \in Slots : i >= free => allocStack[i] \in held
    /\ \A i, j \in Slots : i # j => allocStack[i] # allocStack[j]

\* POOL_find answers -1 for what is not held, and for a held object the
\* position that the index stored before it names.
FindAgrees ==
  Exists =>
    \A o \in Objects :
      POOL_find(o) = IF o \in held THEN (Size - 1) - index[o] ELSE -1

\* The ways to find the allocated objects agree on them: the walk from
\* POOL_getFirst, the search of POOL_find and the stored index.
IterationIsSound == IterationSeesHeld /\ FindAgrees

\* What OBJ_updateAll still has to walk is exactly what it still has to
\* update: it updates no object twice, none that was released meanwhile or
\* created during the pass, and calls no null method.
UpdatesExactlyTheDue ==
  pass # "idle" =>
    /\ objects + num = Size
    /\ due = {allocStack[i] : i \in objects .. Size - 1}
    /\ \A i \in objects .. Size - 1 : allocStack[i] \in held /\ update[allocStack[i]] # "null"

\* object.h on OBJ_updateAll: "Iterate over all active objects from the given
\* object pool and call update method for each of them".  No update reaches
\* an object for the second time in a pass or after its release.
UpdatesActiveOnce == [][UpdateNext => allocStack[objects] \in due]_vars

\* A pass leaves no object of those it began with without its update.
PassMissesNothing == [][UpdateEnds => due = {}]_vars

\* A pass ends, whatever the update methods create and release.
PassEnds == pass # "idle" ~> pass = "idle"
=============================================================================
