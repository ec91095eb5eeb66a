----------------------------- MODULE PoolProofs -----------------------------
(***************************************************************************)
(* Proofs about Pool for every capacity: a program that always passes      *)
(* maintainCoherency = TRUE, and whose update methods release only objects *)
(* the pass already updated, never gets an object twice, never loses one,  *)
(* and has each of its objects updated exactly once by OBJ_updateAll.      *)
(***************************************************************************)
EXTENDS Pool, TLAPS

\* The two conventions of pool.h and object.h under which the stack is kept
\* coherent.
Disciplined == ReleaseModes = {TRUE} /\ CallbackReleases = "updated"

\* The words before the objects are the inverse of the stack, and cut it at
\* `free' exactly where the program's holdings begin.
Inverse ==
  /\ \A i \in Slots : index[allocStack[i]] = i
  /\ \A o \in Objects : allocStack[index[o]] = o
HeldAbove == \A o \in Objects : o \in held <=> index[o] >= free

\* The lifetime of the pool around its contents.
Lifetime ==
  /\ blocks = {} \/ Exists
  /\ ~Exists => held = {} /\ pass = "idle"

\* Every held object has been initialised by OBJ_create.
HeldReady == \A o \in held : internalState[o] /\ update[o] # "null"

\* The pass has the whole upper part of the stack, from its cursor on, still
\* to update; the stack never grows past the cursor.
PassBounds ==
  pass # "idle" =>
    /\ objects + num = Size
    /\ free <= objects
    /\ \A o \in Objects : o \in due <=> index[o] >= objects

IInv ==
  /\ TypeOK
  /\ Lifetime
  /\ Exists => Inverse /\ HeldAbove /\ HeldReady /\ PassBounds

-----------------------------------------------------------------------------
\* A held object stands at or above `free', so `free' is inside the stack and
\* POOL_release never reads past its end.
LEMMA ReleaseInside ==
  ASSUME TypeOK, Inverse, HeldAbove, NEW o \in held
  PROVE  /\ o \in Objects /\ index[o] \in Slots /\ index[o] >= free
         /\ free \in Slots /\ allocStack[free] \in Objects
         /\ index[allocStack[free]] = free
         /\ allocStack[index[o]] = o
<1>1. o \in Objects /\ index[o] \in Slots /\ index[o] >= free
  BY DEF TypeOK, HeldAbove
<1>2. free \in Slots
  BY SizeAssumption, <1>1 DEF TypeOK, Slots
<1>3. allocStack[free] \in Objects
  BY <1>2 DEF TypeOK
<1> QED
  BY <1>1, <1>2, <1>3 DEF Inverse

\* What POOL_release(o, TRUE) does to the stack and to the indexes: o and the
\* object at `free' change places.
LEMMA ReleaseSwaps ==
  ASSUME TypeOK, Inverse, HeldAbove, NEW o \in held
  PROVE  LET prev == allocStack[free]
         IN /\ POOL_releaseStack(o, TRUE) =
                 [i \in Slots |-> IF i = index[o] THEN prev
                                  ELSE IF i = free THEN o ELSE allocStack[i]]
            /\ POOL_releaseIndex(o, TRUE) =
                 [q \in Objects |-> IF q = o THEN free
                                    ELSE IF q = prev THEN index[o] ELSE index[q]]
<1>1. /\ o \in Objects /\ index[o] \in Slots /\ index[o] >= free
      /\ free \in Slots /\ allocStack[free] \in Objects
      /\ index[allocStack[free]] = free
      /\ allocStack[index[o]] = o
  BY ReleaseInside
<1>2. allocStack \in [Slots -> Objects] /\ index \in [Objects -> Slots]
  BY DEF TypeOK
<1>3. CASE allocStack[free] = o
  <2>1. index[o] = free
    BY <1>1, <1>3
  <2>2. POOL_releaseStack(o, TRUE) = [allocStack EXCEPT ![free] = o]
    BY <1>3 DEF POOL_releaseStack
  <2>3. POOL_releaseIndex(o, TRUE) = index
    BY <1>3 DEF POOL_releaseIndex
  <2>4. [allocStack EXCEPT ![free] = o] =
          [i \in Slots |-> IF i = index[o] THEN allocStack[free]
                           ELSE IF i = free THEN o ELSE allocStack[i]]
    BY <1>1, <1>2, <1>3, <2>1
  <2>5. index = [q \in Objects |-> IF q = o THEN free
                                   ELSE IF q = allocStack[free] THEN index[o] ELSE index[q]]
    BY <1>1, <1>2, <1>3, <2>1
  <2> QED
    BY <2>2, <2>3, <2>4, <2>5
<1>4. CASE allocStack[free] # o
  <2>1. index[o] # free
    BY <1>1, <1>4
  <2>2. POOL_releaseStack(o, TRUE) =
          [[allocStack EXCEPT ![free] = o] EXCEPT ![index[o]] = allocStack[free]]
    BY <1>4 DEF POOL_releaseStack
  <2>3. POOL_releaseIndex(o, TRUE) =
          [index EXCEPT ![allocStack[free]] = index[o], ![o] = index[allocStack[free]]]
    BY <1>4 DEF POOL_releaseIndex
  <2> QED
    BY <1>1, <1>2, <1>4, <2>1, <2>2, <2>3
<1> QED
  BY <1>3, <1>4

\* POOL_reset leaves a coherent stack in which every object is free.
LEMMA ResetInverse ==
  ASSUME TypeOK, ResetStack
  PROVE  /\ allocStack' \in [Slots -> Objects] /\ index' \in [Objects -> Slots]
         /\ free' \in 0 .. Size /\ Inverse'
         /\ \A o \in Objects : ~(index'[o] >= free')
<1>1. /\ allocStack' = [i \in Slots |-> i] /\ index' = [o \in Objects |-> o]
      /\ free' = Size /\ Slots = Objects
  BY DEF ResetStack, Slots, Objects
<1>2. allocStack' \in [Slots -> Objects] /\ index' \in [Objects -> Slots]
  BY <1>1
<1>3. Inverse'
  BY <1>1 DEF Inverse
<1>4. free' \in 0 .. Size /\ \A o \in Objects : ~(index'[o] >= free')
  BY SizeAssumption, <1>1 DEF Objects
<1> QED
  BY <1>2, <1>3, <1>4

\* The memset of POOL_reset keeps the objects' words in their types.
LEMMA ClearBankTypes ==
  ASSUME TypeOK, NEW clear \in BOOLEAN, ClearBank(clear)
  PROVE  /\ internalState' \in [Objects -> BOOLEAN]
         /\ update' \in [Objects -> Methods]
<1>1. CASE clear
  BY <1>1 DEF ClearBank, Methods
<1>2. CASE ~clear
  BY <1>2 DEF TypeOK, ClearBank, objVars
<1> QED
  BY <1>1, <1>2

-----------------------------------------------------------------------------
\* The pool as the program starts: not created.
LEMMA InitIInv == Init => IInv
<1> SUFFICES ASSUME Init PROVE IInv
  OBVIOUS
<1>1. TypeOK
  BY SizeAssumption DEF Init, TypeOK, Objects, Slots, Parts, Methods
<1>2. Lifetime /\ ~Exists
  BY DEF Init, Lifetime, Exists, Parts
<1> QED
  BY <1>1, <1>2 DEF IInv

\* Every operation keeps the invariant.
LEMMA NextIInv == Disciplined /\ IInv /\ [Next]_vars => IInv'
<1> SUFFICES ASSUME Disciplined, IInv, [Next]_vars PROVE IInv'
  OBVIOUS
<1> USE SizeAssumption
<1>0. TypeOK /\ Lifetime
  BY DEF IInv
<1>c. ASSUME POOL_create PROVE IInv'
  <2>1. pass = "idle" /\ held = {} /\ blocks = {}
    BY <1>0, <1>c DEF POOL_create, Lifetime, Exists, Parts
  <2>2. blocks' = Parts /\ ResetStack /\ ClearBank(TRUE) /\ UNCHANGED <<held, passVars>>
    BY <1>c DEF POOL_create
  <2>3. TypeOK'
    BY <1>0, <2>2, ResetInverse, ClearBankTypes DEF TypeOK, passVars
  <2> QED
    BY <1>0, <2>1, <2>2, <2>3, ResetInverse
       DEF IInv, Lifetime, Exists, HeldAbove, HeldReady, PassBounds, passVars
<1>f. ASSUME NEW refused \in Parts, POOL_createFails(refused) PROVE IInv'
  <2>1. pass = "idle" /\ held = {} /\ blocks = {}
    BY <1>0, <1>f DEF POOL_createFails, Lifetime, Exists, Parts
  <2>2. ObtainedBefore[refused] \ FreedAfter[refused] = {}
    BY DEF ObtainedBefore, FreedAfter, Parts
  <2>3. blocks' = {} /\ UNCHANGED <<poolVars, objVars, held, passVars>>
    BY <1>f, <2>2 DEF POOL_createFails
  <2> QED
    BY <1>0, <2>1, <2>3 DEF IInv, TypeOK, Lifetime, Exists, Parts, poolVars, objVars, passVars
<1>r. ASSUME NEW clear \in BOOLEAN, POOL_reset(clear) PROVE IInv'
  <2>1. /\ Exists /\ pass = "idle" /\ ResetStack /\ ClearBank(clear)
        /\ held' = {} /\ UNCHANGED <<blocks, passVars>>
    BY <1>r DEF POOL_reset
  <2>2. TypeOK'
    BY <1>0, <2>1, ResetInverse, ClearBankTypes DEF TypeOK, passVars
  <2> QED
    BY <1>0, <2>1, <2>2, ResetInverse
       DEF IInv, Lifetime, Exists, HeldAbove, HeldReady, PassBounds, passVars
<1>d. ASSUME POOL_destroy PROVE IInv'
  <2>1. blocks' = {} /\ held' = {} /\ pass = "idle" /\ UNCHANGED <<poolVars, objVars, passVars>>
    BY <1>d DEF POOL_destroy, Exists, Parts
  <2> QED
    BY <1>0, <2>1 DEF IInv, TypeOK, Lifetime, Exists, Parts, poolVars, objVars, passVars
<1>n. ASSUME OBJ_create PROVE IInv'
  <2>1. Exists /\ Inverse /\ HeldAbove /\ HeldReady /\ PassBounds
    BY <1>n DEF OBJ_create, Running, IInv
  <2>2. CASE free = 0
    <3>1. UNCHANGED vars
      BY <1>0, <1>n, <2>2
         DEF OBJ_create, POOL_allocateStep, POOL_allocateResult, vars, poolVars, TypeOK
    <3> QED
      BY <3>1 DEF IInv, TypeOK, Lifetime, Exists, Inverse, HeldAbove, HeldReady,
                  PassBounds, vars, poolVars, objVars, passVars
  <2>3. CASE free # 0
    <3> DEFINE o == allocStack[free - 1]
    <3>a. free - 1 \in Slots
      BY <1>0, <2>3 DEF TypeOK, Slots
    <3>b. o \in Objects
      BY <1>0, <3>a DEF TypeOK
    <3>c. o # -1
      BY <3>b DEF Objects
    <3>1. free - 1 \in Slots /\ o \in Objects /\ o # -1 /\ index[o] = free - 1
      BY <2>1, <3>a, <3>b, <3>c DEF Inverse
    <3>2. /\ free' = free - 1 /\ UNCHANGED <<allocStack, index>>
          /\ internalState' = [internalState EXCEPT ![o] = TRUE]
          /\ update' = [update EXCEPT ![o] = "dummy"]
          /\ held' = held \cup {o}
          /\ UNCHANGED <<blocks, passVars>>
      BY <1>n, <2>3, <3>1 DEF OBJ_create, POOL_allocateStep, POOL_allocateResult
    <3>3. TypeOK'
      BY <1>0, <3>1, <3>2, <2>3 DEF TypeOK, passVars, Slots, Methods
    <3>4. Lifetime' /\ Inverse'
      BY <1>0, <2>1, <3>2 DEF Lifetime, Exists, Inverse, passVars
    <3>5. HeldAbove'
      <4> SUFFICES ASSUME NEW q \in Objects PROVE q \in held' <=> index'[q] >= free'
        BY DEF HeldAbove
      <4>1. index[q] \in Slots /\ free \in 0 .. Size
        BY <1>0 DEF TypeOK
      <4>2. CASE q = o
        BY <3>1, <3>2, <4>1, <4>2 DEF Slots
      <4>3. CASE q # o
        <5>1. index[q] # free - 1
          BY <2>1, <3>1, <4>3 DEF Inverse
        <5> QED
          BY <2>1, <3>2, <4>1, <4>3, <5>1 DEF HeldAbove, Slots
      <4> QED
        BY <4>2, <4>3
    <3>6. HeldReady'
      BY <1>0, <2>1, <3>1, <3>2 DEF HeldReady, TypeOK
    <3>7. PassBounds'
      BY <1>0, <2>1, <3>1, <3>2 DEF PassBounds, TypeOK, passVars, Slots
    <3> QED
      BY <3>3, <3>4, <3>5, <3>6, <3>7 DEF IInv
  <2> QED
    BY <2>2, <2>3
<1>l. ASSUME NEW o \in Objects, NEW coherent \in ReleaseModes, OBJ_release(o, coherent)
      PROVE IInv'
  <2>0. coherent = TRUE /\ CallbackReleases = "updated"
    BY DEF Disciplined
  <2>1. Exists /\ Inverse /\ HeldAbove /\ HeldReady /\ PassBounds /\ o \in held
    BY <1>l DEF OBJ_release, Running, IInv
  <2> DEFINE prev == allocStack[free]
  <2>2. /\ index[o] \in Slots /\ index[o] >= free
        /\ free \in Slots /\ prev \in Objects
        /\ index[prev] = free
        /\ allocStack[index[o]] = o
    BY <1>0, <2>1, ReleaseInside
  <2>3. /\ allocStack' = [i \in Slots |-> IF i = index[o] THEN prev
                                          ELSE IF i = free THEN o ELSE allocStack[i]]
        /\ index' = [q \in Objects |-> IF q = o THEN free
                                       ELSE IF q = prev THEN index[o] ELSE index[q]]
        /\ free' = free + 1
    BY <1>0, <1>l, <2>0, <2>1, ReleaseSwaps DEF OBJ_release, POOL_release
  <2>4. /\ internalState' = [internalState EXCEPT ![o] = FALSE]
        /\ held' = held \ {o} /\ due' = due \ {o}
        /\ UNCHANGED <<blocks, update, pass, objects, num>>
        /\ pass \in {"idle", "callback"} /\ (pass = "callback" => o \notin due)
    BY <1>l, <2>0 DEF OBJ_release, Running, MayRelease
  <2>5. TypeOK'
    BY <1>0, <2>2, <2>3, <2>4 DEF TypeOK, Slots
  <2>6. Lifetime'
    BY <1>0, <2>1, <2>4 DEF Lifetime, Exists
  <2>7. Inverse'
    <3>1. ASSUME NEW i \in Slots PROVE index'[allocStack'[i]] = i
      <4>1. allocStack[i] \in Objects /\ index[allocStack[i]] = i
        BY <1>0, <2>1 DEF TypeOK, Inverse
      <4> QED
        BY <2>2, <2>3, <4>1
    <3>2. ASSUME NEW q \in Objects PROVE allocStack'[index'[q]] = q
      <4>1. index[q] \in Slots /\ allocStack[index[q]] = q
        BY <1>0, <2>1 DEF TypeOK, Inverse
      <4> QED
        BY <2>2, <2>3, <4>1
    <3> QED
      BY <3>1, <3>2 DEF Inverse
  <2>8. HeldAbove'
    <3> SUFFICES ASSUME NEW q \in Objects PROVE q \in held' <=> index'[q] >= free'
      BY DEF HeldAbove
    <3>1. index[q] \in Slots /\ allocStack[index[q]] = q /\ (q \in held <=> index[q] >= free)
      BY <1>0, <2>1 DEF TypeOK, Inverse, HeldAbove
    <3>2. CASE q = o
      BY <2>2, <2>3, <2>4, <3>2 DEF Slots
    <3>3. CASE q # o /\ q = prev
      <4>1. index[o] # free
        BY <2>2, <3>3
      <4> QED
        BY <2>2, <2>3, <2>4, <3>1, <3>3, <4>1 DEF Slots
    <3>4. CASE q # o /\ q # prev
      <4>1. index[q] # free
        BY <3>1, <3>4
      <4> QED
        BY <2>2, <2>3, <2>4, <3>1, <3>4, <4>1 DEF Slots
    <3> QED
      BY <3>2, <3>3, <3>4
  <2>9. HeldReady'
    BY <1>0, <2>1, <2>4 DEF HeldReady, TypeOK
  <2>10. PassBounds'
    <3> SUFFICES ASSUME pass # "idle"
                 PROVE  /\ objects + num = Size
                        /\ free' <= objects
                        /\ \A q \in Objects : q \in due' <=> index'[q] >= objects
      BY <2>4 DEF PassBounds
    <3>1. /\ objects + num = Size /\ free <= objects /\ o \notin due
          /\ \A q \in Objects : q \in due <=> index[q] >= objects
      BY <2>1, <2>4 DEF PassBounds
    <3>2. index[o] < objects /\ objects \in 0 .. Size /\ free \in 0 .. Size
      BY <1>0, <2>2, <3>1 DEF TypeOK, Slots
    <3>3. free' <= objects
      BY <2>2, <2>3, <3>2 DEF Slots
    <3>4. ASSUME NEW q \in Objects PROVE q \in due' <=> index'[q] >= objects
      <4>1. index[q] \in Slots
        BY <1>0 DEF TypeOK
      <4>2. CASE q = o
        BY <2>2, <2>3, <2>4, <3>1, <3>2, <4>2 DEF Slots
      <4>3. CASE q # o /\ q = prev
        BY <2>2, <2>3, <2>4, <3>1, <3>2, <4>3 DEF Slots
      <4>4. CASE q # o /\ q # prev
        BY <2>3, <2>4, <3>1, <4>4
      <4> QED
        BY <4>2, <4>3, <4>4
    <3> QED
      BY <3>1, <3>3, <3>4
  <2> QED
    BY <2>5, <2>6, <2>7, <2>8, <2>9, <2>10 DEF IInv
<1>m. ASSUME NEW o \in Objects, NEW method \in Methods, OBJ_setUpdateMethod(o, method)
      PROVE IInv'
  <2>1. /\ Exists /\ Inverse /\ HeldAbove /\ HeldReady /\ PassBounds
        /\ \E m \in {"user", "dummy"} : update' = [update EXCEPT ![o] = m]
        /\ UNCHANGED <<blocks, poolVars, internalState, held, passVars>>
    BY <1>m DEF OBJ_setUpdateMethod, Running, IInv
  <2>2. TypeOK' /\ HeldReady'
    BY <1>0, <2>1 DEF TypeOK, HeldReady, Methods, poolVars, passVars
  <2> QED
    BY <1>0, <2>1, <2>2
       DEF IInv, Lifetime, Exists, Inverse, HeldAbove, PassBounds, poolVars, passVars
<1>u. ASSUME OBJ_updateAll PROVE IInv'
  <2>1. /\ Exists /\ Inverse /\ HeldAbove /\ HeldReady
        /\ pass' = "loop" /\ objects' = free /\ num' = Size - free /\ due' = held
        /\ UNCHANGED <<blocks, poolVars, objVars, held>>
    BY <1>u DEF OBJ_updateAll, POOL_getFirst, POOL_getNumAllocated, POOL_getFree, IInv
  <2>2. TypeOK'
    BY <1>0, <2>1 DEF TypeOK, poolVars, objVars
  <2>3. PassBounds'
    BY <1>0, <2>1 DEF TypeOK, PassBounds, HeldAbove, poolVars
  <2> QED
    BY <1>0, <2>1, <2>2, <2>3
       DEF IInv, Lifetime, Exists, Inverse, HeldAbove, HeldReady, poolVars, objVars
<1>x. ASSUME UpdateNext PROVE IInv'
  <2>1. Exists
    BY <1>0, <1>x DEF UpdateNext, Lifetime
  <2>2. Inverse /\ HeldAbove /\ HeldReady /\ PassBounds
    BY <2>1 DEF IInv
  <2>3. /\ pass = "loop" /\ num > 0 /\ objects' = objects + 1 /\ num' = num - 1
        /\ due' = due \ {allocStack[objects]} /\ pass' \in {"loop", "callback"}
        /\ UNCHANGED <<blocks, poolVars, objVars, held>>
    BY <1>x DEF UpdateNext
  <2>4. /\ objects + num = Size /\ free <= objects
        /\ \A q \in Objects : q \in due <=> index[q] >= objects
    BY <2>2, <2>3 DEF PassBounds
  <2>5. objects \in Slots
    BY <1>0, <2>3, <2>4 DEF TypeOK, Slots
  <2>6. TypeOK'
    BY <1>0, <2>3, <2>5 DEF TypeOK, Slots, poolVars, objVars
  <2>7. ASSUME NEW q \in Objects PROVE q \in due' <=> index[q] >= objects + 1
    <3>1. index[q] \in Slots /\ (q = allocStack[objects] <=> index[q] = objects)
      BY <1>0, <2>2, <2>5 DEF TypeOK, Inverse
    <3> QED
      BY <2>3, <2>4, <2>5, <3>1 DEF Slots
  <2>8. PassBounds'
    BY <1>0, <2>3, <2>4, <2>7 DEF PassBounds, TypeOK, poolVars
  <2> QED
    BY <1>0, <2>1, <2>2, <2>3, <2>6, <2>8
       DEF IInv, Lifetime, Exists, Inverse, HeldAbove, HeldReady, poolVars, objVars
<1>b. ASSUME CallbackReturns \/ UpdateEnds PROVE IInv'
  <2>1. /\ pass # "idle" /\ pass' \in {"idle", "loop"}
        /\ UNCHANGED <<blocks, poolVars, objVars, held, objects, num, due>>
    BY <1>b DEF CallbackReturns, UpdateEnds
  <2>2. TypeOK'
    BY <1>0, <2>1 DEF TypeOK, poolVars, objVars
  <2> QED
    BY <1>0, <2>1, <2>2 DEF IInv, Lifetime, Exists, Inverse, HeldAbove, HeldReady,
                            PassBounds, poolVars, objVars
<1>s. CASE UNCHANGED vars
  BY <1>s DEF IInv, TypeOK, Lifetime, Exists, Inverse, HeldAbove, HeldReady,
              PassBounds, vars, poolVars, objVars, passVars
<1> QED
  BY <1>c, <1>f, <1>r, <1>d, <1>n, <1>l, <1>m, <1>u, <1>x, <1>b, <1>s DEF Next

\* The coherence of the stack, for every capacity and every sequence of calls.
THEOREM PoolInvariant ==
  ASSUME Disciplined
  PROVE  Spec => []IInv
<1>1. Init => IInv
  BY InitIInv
<1>2. IInv /\ [Next]_vars => IInv'
  BY NextIInv
<1> QED
  BY <1>1, <1>2, PTL DEF Spec

-----------------------------------------------------------------------------
\* TypeOK for every capacity; in particular `free' and the cursor of
\* OBJ_updateAll never leave the stack.
THEOREM PoolTypes ==
  ASSUME Disciplined
  PROVE  Spec => []TypeOK
<1>1. IInv => TypeOK
  BY DEF IInv
<1> QED
  BY <1>1, PoolInvariant, PTL

\* POOL_allocate never hands out a held object and no object is ever lost, for
\* every capacity.
THEOREM PoolAllocation ==
  ASSUME Disciplined
  PROVE  Spec => []AllocationIsSound
<1>1. ASSUME IInv PROVE NoDoubleAllocation /\ NothingLost
  <2> SUFFICES ASSUME Exists
               PROVE  /\ \A i, j \in Slots : i < j /\ j < free => allocStack[i] # allocStack[j]
                      /\ \A i \in Slots : i < free => allocStack[i] \notin held
                      /\ \A o \in Objects : o \in held
                              \/ \E i \in Slots : i < free /\ allocStack[i] = o
    BY DEF NoDoubleAllocation, NothingLost
  <2>1. TypeOK /\ Inverse /\ HeldAbove
    BY <1>1 DEF IInv
  <2>2. ASSUME NEW i \in Slots, NEW j \in Slots, i < j PROVE allocStack[i] # allocStack[j]
    BY <2>1, <2>2 DEF Inverse, Slots
  <2>3. ASSUME NEW i \in Slots, i < free PROVE allocStack[i] \notin held
    <3>1. allocStack[i] \in Objects /\ index[allocStack[i]] = i
      BY <2>1 DEF TypeOK, Inverse
    <3> QED
      BY <2>1, <2>3, <3>1 DEF HeldAbove, TypeOK, Slots
  <2>4. ASSUME NEW o \in Objects, o \notin held
        PROVE  \E i \in Slots : i < free /\ allocStack[i] = o
    <3>1. index[o] \in Slots /\ allocStack[index[o]] = o /\ ~(index[o] >= free)
      BY <2>1, <2>4 DEF TypeOK, Inverse, HeldAbove
    <3>2. index[o] < free
      BY <2>1, <3>1 DEF TypeOK, Slots
    <3> QED
      BY <3>1, <3>2
  <2> QED
    BY <2>2, <2>3, <2>4
<1>2. IInv => AllocationIsSound
  BY <1>1 DEF IInv, AllocationIsSound
<1> QED
  BY <1>2, PoolInvariant, PTL

\* A walk from POOL_getFirst sees each held object once and nothing else, and
\* POOL_find agrees with the index stored before the object.
THEOREM PoolIteration ==
  ASSUME Disciplined
  PROVE  Spec => []IterationIsSound
<1>1. ASSUME IInv PROVE IterationSeesHeld /\ FindAgrees
  <2> SUFFICES ASSUME Exists PROVE IterationSeesHeld /\ FindAgrees
    BY DEF IterationSeesHeld, FindAgrees
  <2>1. TypeOK /\ Inverse /\ HeldAbove
    BY <1>1 DEF IInv
  <2>2. ASSUME NEW i \in Slots
        PROVE  allocStack[i] \in Objects /\ index[allocStack[i]] = i
    BY <2>1 DEF TypeOK, Inverse
  <2>3. ASSUME NEW i \in Slots, i >= free PROVE allocStack[i] \in held
    BY <2>1, <2>2, <2>3 DEF HeldAbove
  <2>4. ASSUME NEW i \in Slots, NEW j \in Slots, i # j PROVE allocStack[i] # allocStack[j]
    BY <2>2, <2>4
  <2>5. ASSUME NEW o \in Objects
        PROVE  POOL_find(o) = IF o \in held THEN (Size - 1) - index[o] ELSE -1
    <3> DEFINE at == {i \in Slots : i >= free /\ allocStack[i] = o}
    <3>1. index[o] \in Slots /\ allocStack[index[o]] = o /\ (o \in held <=> index[o] >= free)
      BY <2>1 DEF TypeOK, Inverse, HeldAbove
    <3>2. at = IF o \in held THEN {index[o]} ELSE {}
      BY <2>2, <3>1
    <3>3. CASE o \in held
      <4>1. at = {index[o]}
        BY <3>2, <3>3
      <4>2. (CHOOSE i \in at : \A j \in at : i <= j) = index[o]
        BY <3>1, <4>1 DEF Slots
      <4>3. POOL_find(o) = IF at = {} THEN -1
                           ELSE (Size - 1) - (CHOOSE i \in at : \A j \in at : i <= j)
        BY Zenon DEF POOL_find
      <4> HIDE DEF at
      <4>4. at # {}
        BY <4>1
      <4> QED
        BY <3>3, <4>2, <4>3, <4>4
    <3>4. CASE o \notin held
      BY <3>2, <3>4 DEF POOL_find
    <3> QED
      BY <3>3, <3>4
  <2> QED
    BY <2>3, <2>4, <2>5 DEF IterationSeesHeld, FindAgrees
<1>2. IInv => IterationIsSound
  BY <1>1 DEF IterationIsSound
<1> QED
  BY <1>2, PoolInvariant, PTL

\* The rest of the walk of OBJ_updateAll is what is still due, always held and
\* ready to be called.
LEMMA DueIsAhead == IInv => UpdatesExactlyTheDue
<1> SUFFICES ASSUME IInv, pass # "idle"
             PROVE  /\ objects + num = Size
                    /\ due = {allocStack[i] : i \in objects .. Size - 1}
                    /\ \A i \in objects .. Size - 1 :
                          allocStack[i] \in held /\ update[allocStack[i]] # "null"
  BY DEF UpdatesExactlyTheDue
<1>1. TypeOK /\ Exists
  BY DEF IInv, Lifetime
<1>2. Inverse /\ HeldAbove /\ HeldReady /\ PassBounds
  BY <1>1 DEF IInv
<1>3. /\ objects + num = Size /\ free <= objects
      /\ \A o \in Objects : o \in due <=> index[o] >= objects
  BY <1>2 DEF PassBounds
<1>4. ASSUME NEW i \in objects .. Size - 1
      PROVE  /\ allocStack[i] \in Objects /\ index[allocStack[i]] = i
             /\ i >= objects /\ i >= free
  BY <1>1, <1>2, <1>3, SizeAssumption DEF TypeOK, Inverse, Slots
<1>5. \A i \in objects .. Size - 1 : allocStack[i] \in held /\ update[allocStack[i]] # "null"
  BY <1>2, <1>4 DEF HeldAbove, HeldReady
<1>6. ASSUME NEW o \in due PROVE o \in {allocStack[i] : i \in objects .. Size - 1}
  <2>1. o \in Objects /\ index[o] \in Slots /\ allocStack[index[o]] = o /\ index[o] >= objects
    BY <1>1, <1>2, <1>3 DEF TypeOK, Inverse
  <2>2. index[o] \in objects .. Size - 1
    BY <1>1, <2>1 DEF Slots, TypeOK
  <2> QED
    BY <2>1, <2>2
<1>7. \A i \in objects .. Size - 1 : allocStack[i] \in due
  BY <1>3, <1>4
<1> QED
  BY <1>3, <1>5, <1>6, <1>7

\* OBJ_updateAll calls the update method of every object of the pass exactly
\* once, and of no other object.
THEOREM PoolUpdates ==
  ASSUME Disciplined
  PROVE  Spec => []UpdatesExactlyTheDue /\ UpdatesActiveOnce /\ PassMissesNothing
<1>1. IInv => UpdatesExactlyTheDue
  BY DueIsAhead
<1>2. ASSUME IInv, UpdateNext PROVE allocStack[objects] \in due
  <2>1. objects + num = Size /\ due = {allocStack[i] : i \in objects .. Size - 1}
    BY <1>2, DueIsAhead DEF UpdateNext, UpdatesExactlyTheDue
  <2>2. objects \in objects .. Size - 1
    BY <1>2, <2>1 DEF IInv, TypeOK, UpdateNext
  <2> QED
    BY <2>1, <2>2
<1>3. ASSUME IInv, UpdateEnds PROVE due = {}
  <2>1. objects + num = Size /\ due = {allocStack[i] : i \in objects .. Size - 1}
    BY <1>3, DueIsAhead DEF UpdateEnds, UpdatesExactlyTheDue
  <2>2. objects = Size /\ Size \in Nat
    BY <1>3, <2>1, SizeAssumption DEF IInv, TypeOK, UpdateEnds
  <2>3. \A i \in objects .. Size - 1 : FALSE
    BY <2>2
  <2> QED
    BY <2>1, <2>3
<1>4. IInv => [UpdateNext => allocStack[objects] \in due]_vars
  BY <1>2
<1>5. IInv => [UpdateEnds => due = {}]_vars
  BY <1>3
<1> QED
  BY <1>1, <1>4, <1>5, PoolInvariant, PTL DEF UpdatesActiveOnce, PassMissesNothing
=============================================================================
