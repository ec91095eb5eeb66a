-------------------------- MODULE SpriteListProofs --------------------------
(***************************************************************************)
(* Proofs about SpriteList for every pool and every range of depths: the   *)
(* list is whole and sorted whatever is called and whenever, and a pass of *)
(* SPR_update visits every sprite that stays, once and in order, while the *)
(* frame callbacks change the list under it.                               *)
(***************************************************************************)
EXTENDS SpriteList, TLAPS, WellFoundedInduction, FiniteSetTheorems

-----------------------------------------------------------------------------
(* A list as a sequence *)

\* The element at i, NULL before the first and behind the last.
At(L, i) == IF i \in 1 .. Len(L) THEN L[i] ELSE NULL

Distinct(L) == \A i, j \in 1 .. Len(L) : L[i] = L[j] => i = j
Member(L, s) == \E i \in 1 .. Len(L) : L[i] = s

\* The pointers lead through L in both directions.
Linked(e, L) ==
  /\ \A i \in 0 .. Len(L) : e.next[At(L, i)] = At(L, i + 1)
  /\ \A i \in 1 .. Len(L) + 1 : e.prev[At(L, i)] = At(L, i - 1)

Sorted(depth, L) ==
  \A i, j \in 1 .. Len(L) : i < j => depth[L[i]] <= depth[L[j]]

\* s behind the k-th element, and L without its k-th element.
With(L, k, s) ==
  [i \in 1 .. Len(L) + 1 |-> IF i <= k THEN L[i] ELSE IF i = k + 1 THEN s ELSE L[i - 1]]
Without(L, k) == [i \in 1 .. Len(L) - 1 |-> IF i < k THEN L[i] ELSE L[i + 1]]

-----------------------------------------------------------------------------
(* The inductive invariant *)

Engines ==
  [next : [Pointers -> Pointers], prev : [Pointers -> Pointers],
   depth : [Slots -> MinDepth .. MaxDepth], alloc : [Slots -> BOOLEAN],
   frame : [Slots -> BOOLEAN], need : [Slots -> BOOLEAN], stack : Seq(Slots)]

Passes ==
  [pc : {"idle", "visit", "callback"}, cur : Pointers, satInd : Nat,
   calls : 0 .. CallbackCalls, walked : Seq(Slots), there : SUBSET Slots,
   stray : BOOLEAN, retaken : SUBSET Slots]

\* L and the stack of the pool share out the sprites, and the pointers and the
\* depths are those of L.
Holds(e, L) ==
  /\ e \in Engines /\ L \in Seq(Slots)
  /\ Distinct(L) /\ Distinct(e.stack)
  /\ \A s \in Slots : e.alloc[s] <=> Member(L, s)
  /\ \A s \in Slots : ~e.alloc[s] <=> Member(e.stack, s)
  /\ Len(L) + Len(e.stack) = MaxSprite
  /\ Linked(e, L)
  /\ Sorted(e.depth, L)

\* The list, for every program.
LInv ==
  /\ Holds(eng, Listed(eng))
  /\ upd \in Passes /\ (upd.pc = "callback" => upd.cur # NULL)

\* What a pass has visited are the first p of the list, if they were there when
\* it began, in their order.
Seen(L, p, w, there) ==
  /\ \A i \in 1 .. p : L[i] \in there => Member(w, L[i])
  /\ \A k \in 1 .. Len(w) : w[k] \in there => \E i \in 1 .. p : L[i] = w[k]
  /\ \A k, l \in 1 .. Len(w) : k < l /\ w[k] \in there /\ w[l] \in there =>
       \E i, j \in 1 .. p : i < j /\ L[i] = w[k] /\ L[j] = w[l]

\* The pointer stands behind the first p of the list; a sprite that its own
\* callback has released still points to the one that followed it.
Stands(e, u, L, p) ==
  IF u.pc = "visit" THEN u.cur = At(L, p + 1)
  ELSE IF e.alloc[u.cur] THEN p < Len(L) /\ u.cur = L[p + 1]
  ELSE e.next[u.cur] = At(L, p + 1)

\* The frames, for every program: the sprite whose callback is running has one,
\* so that the flag that is cleared then is missed by nobody.
FInv ==
  /\ \A s \in Slots \ upd.retaken : eng.alloc[s] /\ ~eng.frame[s] => eng.need[s]
  /\ upd.pc = "callback" /\ eng.alloc[upd.cur] /\ upd.cur \notin upd.retaken =>
       eng.frame[upd.cur]

\* The pass.
PInv(e, u, L) ==
  /\ u.satInd < SatMax + MaxNumSprite
  /\ \A s \in u.there : e.alloc[s] /\ u.pc # "idle"
  /\ u.pc # "idle" /\ ~u.stray =>
       /\ IsInjective(u.walked)
       /\ \E p \in 0 .. Len(L) : Seen(L, p, u.walked, u.there) /\ Stands(e, u, L, p)

IInv == LInv /\ PInv(eng, upd, Listed(eng))

-----------------------------------------------------------------------------
(* Following pointers *)

\* Least elements, from which every induction below is made.
LEMMA NatMin ==
  ASSUME NEW T, T \subseteq Nat, T # {}
  PROVE  \E x \in T : \A y \in T : x <= y
<1> DEFINE R == OpToRel(<, Nat)
<1>1. IsWellFoundedOn(R, Nat)
  BY NatLessThanWellFounded
<1>2. \E x \in T : \A y \in T : ~(<<y, x>> \in R)
  BY <1>1, WFMin
<1>3. \A x, y \in Nat : ~(<<y, x>> \in R) => x <= y
  BY DEF OpToRel
<1> QED
  BY <1>2, <1>3

\* Min of FiniteSetsExt is the least element.
LEMMA MinIsLeast ==
  ASSUME NEW T, T \subseteq Nat, T # {}
  PROVE  Min(T) \in T /\ \A y \in T : Min(T) <= y
BY NatMin DEF Min

LEMMA SlotFacts ==
  /\ MaxSprite \in Nat /\ MaxSprite # 0 /\ Slots = 1 .. MaxSprite
  /\ NULL \notin Slots /\ NULL \in Pointers
  /\ \A p : p \in Pointers <=> p \in Slots \/ p = NULL
BY ListAssumption DEF Slots, Pointers, NULL

LEMMA AtFacts ==
  ASSUME NEW L \in Seq(Slots)
  PROVE  /\ Len(L) \in Nat
         /\ \A i \in Int : At(L, i) \in Pointers
         /\ \A i \in 1 .. Len(L) : At(L, i) = L[i] /\ L[i] \in Slots /\ L[i] # NULL
         /\ At(L, 0) = NULL /\ At(L, Len(L) + 1) = NULL
<1>1. Len(L) \in Nat /\ \A i \in 1 .. Len(L) : L[i] \in Slots
  OBVIOUS
<1>2. ASSUME NEW i \in Int PROVE At(L, i) \in Pointers
  BY <1>1, SlotFacts DEF At
<1>3. ASSUME NEW i \in 1 .. Len(L) PROVE At(L, i) = L[i] /\ L[i] # NULL
  BY <1>1, SlotFacts DEF At
<1>4. At(L, 0) = NULL /\ At(L, Len(L) + 1) = NULL
  BY <1>1 DEF At
<1> QED
  BY <1>1, <1>2, <1>3, <1>4

\* A walk over pointers that lead through Q yields Q.
LEMMA FollowsAlong ==
  ASSUME NEW f \in [Pointers -> Pointers], NEW Q \in Seq(Slots), Len(Q) <= MaxSprite,
         \A i \in 1 .. Len(Q) : f[Q[i]] = At(Q, i + 1)
  PROVE  Follow(f, At(Q, 1)) = Q
<1> DEFINE from(q) == IF q = NULL THEN NULL ELSE f[q]
           Is(g) == g = [n \in 0 .. MaxSprite |-> IF n = 0 THEN At(Q, 1) ELSE from(g[n - 1])]
           at == CHOOSE g : Is(g)
           r == [n \in 0 .. MaxSprite |-> At(Q, n + 1)]
           count == Cardinality({n \in 0 .. MaxSprite : at[n] # NULL})
<1>0. /\ MaxSprite \in Nat /\ Len(Q) \in Nat
      /\ \A i \in 1 .. Len(Q) : At(Q, i) = Q[i] /\ Q[i] # NULL
      /\ \A i \in Nat : i > Len(Q) => At(Q, i) = NULL
  BY SlotFacts, AtFacts DEF At
<1>1. ASSUME NEW n \in 0 .. MaxSprite, n # 0
      PROVE  At(Q, n + 1) = from(At(Q, n))
  <2>1. CASE n \in 1 .. Len(Q)
    BY <1>0, <2>1
  <2>2. CASE n > Len(Q)
    BY <1>0, <1>1, <2>2
  <2> QED
    BY <1>0, <1>1, <2>1, <2>2
<1>2. Is(r)
  <2>1. \A n \in 0 .. MaxSprite :
          r[n] = IF n = 0 THEN At(Q, 1) ELSE from(r[n - 1])
    <3> SUFFICES ASSUME NEW n \in 0 .. MaxSprite
                 PROVE  r[n] = IF n = 0 THEN At(Q, 1) ELSE from(r[n - 1])
      OBVIOUS
    <3>1. CASE n = 0
      BY <3>1
    <3>2. CASE n # 0
      <4>1. n - 1 \in 0 .. MaxSprite /\ n - 1 + 1 = n
        BY <1>0, <3>2
      <4>2. r[n - 1] = At(Q, n) /\ r[n] = At(Q, n + 1)
        BY <4>1
      <4> QED
        BY <1>1, <3>2, <4>2
    <3> QED
      BY <3>1, <3>2
  <2> HIDE DEF from
  <2> QED
    BY <2>1
<1>3. Is(at)
  BY <1>2
<1>4. \A n \in 0 .. MaxSprite : at[n] = At(Q, n + 1)
  <2> DEFINE Bad == {n \in 0 .. MaxSprite : at[n] # At(Q, n + 1)}
  <2> SUFFICES ASSUME Bad # {} PROVE FALSE
    OBVIOUS
  <2>1. PICK n \in Bad : \A m \in Bad : n <= m
    <3>1. Bad \subseteq Nat
      BY <1>0
    <3> QED
      BY <3>1, NatMin
  <2>2. at[n] = IF n = 0 THEN At(Q, 1) ELSE from(at[n - 1])
    <3> HIDE DEF at, from
    <3> QED
      BY <1>3
  <2> HIDE DEF at
  <2>3. n # 0
    BY <2>1, <2>2
  <2>4. n - 1 \in 0 .. MaxSprite /\ n - 1 \notin Bad
    BY <1>0, <2>1, <2>3
  <2>5. at[n - 1] = At(Q, n)
    BY <2>4
  <2> QED
    BY <1>1, <2>1, <2>2, <2>3, <2>5
<1>5. count = Len(Q)
  <2>1. {n \in 0 .. MaxSprite : at[n] # NULL} = 0 .. (Len(Q) - 1)
    <3> HIDE DEF at
    <3>1. \A n \in 0 .. MaxSprite : at[n] # NULL <=> n < Len(Q)
      BY <1>0, <1>4
    <3> QED
      BY <1>0, <3>1
  <2>2. Cardinality(0 .. (Len(Q) - 1)) = Len(Q)
    <3> DEFINE m == Len(Q) - 1
    <3>1. m \in Int /\ 0 \in Int /\ m - 0 + 1 = Len(Q) /\ (0 > m => Len(Q) = 0)
      BY <1>0
    <3> HIDE DEF m
    <3>2. Cardinality(0 .. m) = IF 0 > m THEN 0 ELSE m - 0 + 1
      BY <3>1, FS_Interval
    <3> QED
      BY <3>1, <3>2 DEF m
  <2> QED
    BY <2>1, <2>2
<1>6. Follow(f, At(Q, 1)) = [i \in 1 .. count |-> at[i - 1]]
  BY DEF Follow
<1> HIDE DEF at, count
<1>7. \A i \in 1 .. Len(Q) : at[i - 1] = Q[i]
  BY <1>0, <1>4
<1>8. Follow(f, At(Q, 1)) = [i \in 1 .. Len(Q) |-> Q[i]]
  BY <1>5, <1>6, <1>7
<1> QED
  BY <1>0, <1>8

\* The rest of a list from its k-th element on, and what precedes it, backwards.
Rest(L, k) == [i \in 1 .. Len(L) - k + 1 |-> L[k + i - 1]]
Back(L, k) == [i \in 1 .. k |-> L[k - i + 1]]

LEMMA HoldsFollow ==
  ASSUME NEW e, NEW L \in Seq(Slots), e \in Engines, Linked(e, L), Len(L) <= MaxSprite
  PROVE  /\ \A k \in 1 .. Len(L) + 1 : Follow(e.next, At(L, k)) = Rest(L, k)
         /\ \A k \in 0 .. Len(L) : Follow(e.prev, At(L, k)) = Back(L, k)
<1>0. Len(L) \in Nat /\ MaxSprite \in Nat /\ e.next \in [Pointers -> Pointers]
      /\ e.prev \in [Pointers -> Pointers] /\ \A i \in 1 .. Len(L) : L[i] \in Slots
  BY SlotFacts, AtFacts DEF Engines
<1>1. ASSUME NEW k \in 1 .. Len(L) + 1 PROVE Follow(e.next, At(L, k)) = Rest(L, k)
  <2> DEFINE Q == Rest(L, k)
             n == Len(L) - k + 1
  <2>1. n \in Nat /\ n <= MaxSprite /\ \A i \in 1 .. n : k + i - 1 \in 1 .. Len(L)
    BY <1>0
  <2>2. Q \in Seq(Slots) /\ Len(Q) = n /\ \A i \in 1 .. n : Q[i] = L[k + i - 1]
    BY <1>0, <2>1 DEF Rest
  <2>3. \A i \in 1 .. n + 1 : At(Q, i) = At(L, k + i - 1)
    <3> SUFFICES ASSUME NEW i \in 1 .. n + 1 PROVE At(Q, i) = At(L, k + i - 1)
      OBVIOUS
    <3>1. CASE i \in 1 .. n
      <4> HIDE DEF Q, n
      <4>1. At(Q, i) = Q[i] /\ At(L, k + i - 1) = L[k + i - 1]
        BY <2>1, <2>2, <3>1 DEF At
      <4> QED
        BY <2>2, <3>1, <4>1
    <3>2. CASE i = n + 1
      <4>1. i \notin 1 .. n /\ k + i - 1 = Len(L) + 1
        BY <1>0, <2>1, <3>2
      <4> HIDE DEF Q, n
      <4> QED
        BY <2>2, <4>1, AtFacts DEF At
    <3> HIDE DEF n
    <3> QED
      BY <2>1, <3>1, <3>2
  <2>4. \A i \in 1 .. n : e.next[Q[i]] = At(Q, i + 1)
    <3> SUFFICES ASSUME NEW i \in 1 .. n PROVE e.next[Q[i]] = At(Q, i + 1)
      OBVIOUS
    <3>1. k + i - 1 \in 1 .. Len(L) /\ Q[i] = At(L, k + i - 1)
      BY <2>1, <2>2 DEF At
    <3>2. e.next[At(L, k + i - 1)] = At(L, k + i - 1 + 1)
      BY <1>0, <3>1 DEF Linked
    <3>3. At(Q, i + 1) = At(L, k + (i + 1) - 1) /\ k + (i + 1) - 1 = k + i - 1 + 1
      BY <2>1, <2>3
    <3> QED
      BY <3>1, <3>2, <3>3
  <2>5. At(Q, 1) = At(L, k)
    BY <2>1, <2>3
  <2> HIDE DEF Q, n
  <2> QED
    BY <1>0, <2>1, <2>2, <2>4, <2>5, FollowsAlong DEF Q
<1>2. ASSUME NEW k \in 0 .. Len(L) PROVE Follow(e.prev, At(L, k)) = Back(L, k)
  <2> DEFINE Q == Back(L, k)
  <2>1. k \in Nat /\ k <= MaxSprite /\ \A i \in 1 .. k : k - i + 1 \in 1 .. Len(L)
    BY <1>0
  <2>2. Q \in Seq(Slots) /\ Len(Q) = k /\ \A i \in 1 .. k : Q[i] = L[k - i + 1]
    BY <1>0, <2>1 DEF Back
  <2>3. \A i \in 1 .. k + 1 : At(Q, i) = At(L, k - i + 1)
    <3> HIDE DEF Q
    <3> QED
      BY <1>0, <2>1, <2>2 DEF At
  <2>4. \A i \in 1 .. k : e.prev[Q[i]] = At(Q, i + 1)
    <3> SUFFICES ASSUME NEW i \in 1 .. k PROVE e.prev[Q[i]] = At(Q, i + 1)
      OBVIOUS
    <3>1. k - i + 1 \in 1 .. Len(L) /\ Q[i] = At(L, k - i + 1)
      BY <2>1, <2>2 DEF At
    <3>2. e.prev[At(L, k - i + 1)] = At(L, (k - i + 1) - 1)
      BY <1>0, <3>1 DEF Linked
    <3>3. At(Q, i + 1) = At(L, k - (i + 1) + 1) /\ k - (i + 1) + 1 = (k - i + 1) - 1
      BY <2>1, <2>3
    <3> QED
      BY <3>1, <3>2, <3>3
  <2>5. At(Q, 1) = At(L, k)
    BY <2>1, <2>3
  <2> HIDE DEF Q
  <2> QED
    BY <1>0, <2>1, <2>2, <2>4, <2>5, FollowsAlong DEF Q
<1> QED
  BY <1>1, <1>2

\* The list of the model is the one that the pointers lead through.
LEMMA ListedIs ==
  ASSUME NEW e, NEW L, Holds(e, L)
  PROVE  Listed(e) = L /\ Len(L) \in Nat /\ Len(e.stack) \in Nat /\ Len(L) <= MaxSprite
<1>1. /\ e \in Engines /\ L \in Seq(Slots) /\ Len(L) + Len(e.stack) = MaxSprite
      /\ Linked(e, L) /\ e.stack \in Seq(Slots)
  BY DEF Holds, Engines
<1>2. Len(L) \in Nat /\ Len(e.stack) \in Nat /\ Len(L) <= MaxSprite
  BY <1>1, SlotFacts
<1>3. e.next[NULL] = At(L, 1)
  <2>1. At(L, 0) = NULL /\ 0 \in 0 .. Len(L) /\ 0 + 1 = 1
    BY <1>1, <1>2, AtFacts
  <2> QED
    BY <1>1, <2>1 DEF Linked
<1>4. Follow(e.next, At(L, 1)) = Rest(L, 1)
  BY <1>1, <1>2, HoldsFollow
<1>5. Rest(L, 1) = L
  <2>1. Rest(L, 1) = [i \in 1 .. Len(L) |-> L[i]]
    BY <1>2 DEF Rest
  <2> QED
    BY <1>1, <2>1
<1> QED
  BY <1>2, <1>3, <1>4, <1>5 DEF Listed

-----------------------------------------------------------------------------
(* Inserting and removing *)

LEMMA AtDistinct ==
  ASSUME NEW L \in Seq(Slots), Distinct(L)
  PROVE  /\ \A i, j \in 0 .. Len(L) : At(L, i) = At(L, j) => i = j
         /\ \A i, j \in 1 .. Len(L) + 1 : At(L, i) = At(L, j) => i = j
         /\ \A s \in Slots : ~Member(L, s) => \A i \in Int : At(L, i) # s
<1>0. Len(L) \in Nat /\ \A i \in 1 .. Len(L) : At(L, i) = L[i] /\ L[i] # NULL
  BY AtFacts
<1>1. \A i \in Int : i \notin 1 .. Len(L) => At(L, i) = NULL
  BY DEF At
<1>2. ASSUME NEW i \in 0 .. Len(L), NEW j \in 0 .. Len(L), At(L, i) = At(L, j) PROVE i = j
  BY <1>0, <1>1, <1>2 DEF Distinct
<1>3. ASSUME NEW i \in 1 .. Len(L) + 1, NEW j \in 1 .. Len(L) + 1, At(L, i) = At(L, j)
      PROVE  i = j
  BY <1>0, <1>1, <1>3 DEF Distinct
<1>4. ASSUME NEW s \in Slots, ~Member(L, s), NEW i \in Int PROVE At(L, i) # s
  BY <1>0, <1>1, <1>4, SlotFacts DEF Member
<1> QED
  BY <1>2, <1>3, <1>4

LEMMA WithFacts ==
  ASSUME NEW L \in Seq(Slots), NEW k \in 0 .. Len(L), NEW s \in Slots
  PROVE  /\ With(L, k, s) \in Seq(Slots) /\ Len(With(L, k, s)) = Len(L) + 1
         /\ \A i \in 1 .. Len(L) + 1 :
              With(L, k, s)[i] = IF i <= k THEN L[i] ELSE IF i = k + 1 THEN s ELSE L[i - 1]
         /\ \A i \in 0 .. Len(L) + 2 :
              At(With(L, k, s), i) =
                IF i <= k THEN At(L, i) ELSE IF i = k + 1 THEN s ELSE At(L, i - 1)
         /\ \A t : Member(With(L, k, s), t) <=> Member(L, t) \/ t = s
<1> DEFINE M == With(L, k, s)
<1>0. Len(L) \in Nat /\ k \in Nat /\ k <= Len(L) /\ \A i \in 1 .. Len(L) : L[i] \in Slots
  OBVIOUS
<1>1. \A i \in 1 .. Len(L) + 1 :
        (IF i <= k THEN L[i] ELSE IF i = k + 1 THEN s ELSE L[i - 1]) \in Slots
  BY <1>0
<1>2. M \in [1 .. Len(L) + 1 -> Slots]
  BY <1>1 DEF With
<1>3. M \in Seq(Slots) /\ Len(M) = Len(L) + 1
  BY <1>0, <1>2
<1>4. \A i \in 1 .. Len(L) + 1 :
        M[i] = IF i <= k THEN L[i] ELSE IF i = k + 1 THEN s ELSE L[i - 1]
  BY DEF With
<1> HIDE DEF M
<1>5. ASSUME NEW i \in 0 .. Len(L) + 2
      PROVE  At(M, i) = IF i <= k THEN At(L, i) ELSE IF i = k + 1 THEN s ELSE At(L, i - 1)
  <2>1. CASE i \in 1 .. Len(L) + 1
    <3>1. At(M, i) = IF i <= k THEN L[i] ELSE IF i = k + 1 THEN s ELSE L[i - 1]
      BY <1>3, <1>4, <2>1 DEF At
    <3>2. i <= k => At(L, i) = L[i]
      BY <1>0, <2>1 DEF At
    <3>3. ~(i <= k) /\ i # k + 1 => At(L, i - 1) = L[i - 1]
      BY <1>0, <2>1 DEF At
    <3> QED
      BY <3>1, <3>2, <3>3
  <2>2. CASE i = 0
    BY <1>0, <1>3, <2>2 DEF At
  <2>3. CASE i = Len(L) + 2
    BY <1>0, <1>3, <2>3 DEF At
  <2> QED
    BY <1>0, <2>1, <2>2, <2>3
<1>6. ASSUME NEW t PROVE Member(M, t) <=> Member(L, t) \/ t = s
  <2>1. ASSUME Member(M, t) PROVE Member(L, t) \/ t = s
    <3>1. PICK i \in 1 .. Len(L) + 1 : M[i] = t
      BY <1>3, <2>1 DEF Member
    <3>2. CASE i <= k
      BY <1>0, <1>4, <3>1, <3>2 DEF Member
    <3>3. CASE i = k + 1
      BY <1>0, <1>4, <3>1, <3>3
    <3>4. CASE i > k + 1
      <4>1. i - 1 \in 1 .. Len(L) /\ M[i] = L[i - 1]
        BY <1>0, <1>4, <3>4
      <4> QED
        BY <3>1, <4>1 DEF Member
    <3> QED
      BY <1>0, <3>2, <3>3, <3>4
  <2>2. ASSUME Member(L, t) PROVE Member(M, t)
    <3>1. PICK i \in 1 .. Len(L) : L[i] = t
      BY <2>2 DEF Member
    <3>2. CASE i <= k
      BY <1>0, <1>3, <1>4, <3>1, <3>2 DEF Member
    <3>3. CASE i > k
      <4>1. i + 1 \in 1 .. Len(L) + 1 /\ M[i + 1] = L[i]
        <5>1. i + 1 \in 1 .. Len(L) + 1 /\ ~(i + 1 <= k) /\ i + 1 # k + 1 /\ i + 1 - 1 = i
          BY <1>0, <3>3
        <5> QED
          BY <1>4, <5>1
      <4> QED
        BY <1>3, <3>1, <4>1 DEF Member
    <3> QED
      BY <1>0, <3>2, <3>3
  <2>3. Member(M, s)
    <3>1. k + 1 \in 1 .. Len(L) + 1 /\ M[k + 1] = s
      BY <1>0, <1>4
    <3> QED
      BY <1>3, <3>1 DEF Member
  <2> QED
    BY <2>1, <2>2, <2>3
<1> QED
  BY <1>3, <1>4, <1>5, <1>6 DEF M

LEMMA WithDistinct ==
  ASSUME NEW L \in Seq(Slots), Distinct(L), NEW k \in 0 .. Len(L), NEW s \in Slots,
         ~Member(L, s)
  PROVE  Distinct(With(L, k, s))
<1> DEFINE M == With(L, k, s)
           src(i) == IF i <= k THEN i ELSE i - 1
<1>0. Len(L) \in Nat /\ k \in Nat /\ k <= Len(L)
  OBVIOUS
<1>1. Len(M) = Len(L) + 1 /\ \A i \in 1 .. Len(L) + 1 :
        M[i] = IF i <= k THEN L[i] ELSE IF i = k + 1 THEN s ELSE L[i - 1]
  BY WithFacts
<1> HIDE DEF M
<1>2. ASSUME NEW i \in 1 .. Len(L) + 1, i # k + 1
      PROVE  src(i) \in 1 .. Len(L) /\ M[i] = L[src(i)] /\ M[i] # s
  <2>1. src(i) \in 1 .. Len(L)
    BY <1>0, <1>2
  <2>2. M[i] = L[src(i)]
    BY <1>0, <1>1, <1>2
  <2> QED
    BY <2>1, <2>2 DEF Member
<1>3. M[k + 1] = s
  BY <1>0, <1>1
<1>4. ASSUME NEW i \in 1 .. Len(L) + 1, NEW j \in 1 .. Len(L) + 1, M[i] = M[j]
      PROVE  i = j
  <2>1. CASE i # k + 1 /\ j # k + 1
    <3>1. src(i) = src(j)
      BY <1>2, <1>4, <2>1 DEF Distinct
    <3> QED
      BY <1>0, <2>1, <3>1
  <2> QED
    BY <1>2, <1>3, <1>4, <2>1, SMTT(30)
<1> QED
  BY <1>1, <1>4 DEF M, Distinct

\* LinkedAfter inserts, and leaves the rest alone.
LEMMA LinkedAfterInserts ==
  ASSUME NEW e, e \in Engines, NEW L \in Seq(Slots), Distinct(L), Linked(e, L),
         NEW k \in 0 .. Len(L), NEW s \in Slots, ~Member(L, s)
  PROVE  /\ LinkedAfter(e, At(L, k), s) \in Engines
         /\ Linked(LinkedAfter(e, At(L, k), s), With(L, k, s))
         /\ LET f == LinkedAfter(e, At(L, k), s)
            IN /\ f.depth = e.depth /\ f.alloc = e.alloc /\ f.frame = e.frame
               /\ f.need = e.need /\ f.stack = e.stack
<1> DEFINE p == At(L, k)
           n == At(L, k + 1)
           M == With(L, k, s)
           f == LinkedAfter(e, p, s)
<1>0. Len(L) \in Nat /\ k \in Nat /\ k <= Len(L) /\ p \in Pointers /\ n \in Pointers
      /\ s \in Pointers
  BY AtFacts, SlotFacts
<1>1. e.next[p] = n
  BY <1>0 DEF Linked
<1>2. f = [e EXCEPT !.next = [@ EXCEPT ![s] = n, ![p] = s],
                    !.prev = [@ EXCEPT ![s] = p, ![n] = s]]
  BY <1>1 DEF LinkedAfter
<1>3. p # s /\ n # s
  BY <1>0, AtDistinct
<1> HIDE DEF p, n, f, M
<1>4. /\ f.next = [e.next EXCEPT ![s] = n, ![p] = s]
      /\ f.prev = [e.prev EXCEPT ![s] = p, ![n] = s]
      /\ f.depth = e.depth /\ f.alloc = e.alloc /\ f.frame = e.frame
      /\ f.need = e.need /\ f.stack = e.stack
  BY <1>2 DEF Engines
<1>5. f \in Engines
  BY <1>0, <1>2 DEF Engines
<1>6. /\ \A q \in Pointers : f.next[q] = IF q = p THEN s ELSE IF q = s THEN n ELSE e.next[q]
      /\ \A q \in Pointers : f.prev[q] = IF q = n THEN s ELSE IF q = s THEN p ELSE e.prev[q]
  BY <1>0, <1>4 DEF Engines
<1>7. Len(M) = Len(L) + 1 /\ \A i \in 0 .. Len(L) + 2 :
        At(M, i) = IF i <= k THEN At(L, i) ELSE IF i = k + 1 THEN s ELSE At(L, i - 1)
  BY WithFacts DEF M
<1>8. ASSUME NEW i \in 0 .. Len(M) PROVE f.next[At(M, i)] = At(M, i + 1)
  <2>0. i \in Nat /\ i <= Len(L) + 1 /\ i \in 0 .. Len(L) + 2 /\ i + 1 \in 0 .. Len(L) + 2
    BY <1>0, <1>7
  <2>1. CASE i < k
    <3>1. At(M, i) = At(L, i) /\ At(M, i + 1) = At(L, i + 1)
      BY <1>0, <1>7, <2>0, <2>1
    <3>2. At(L, i) # p /\ At(L, i) # s /\ At(L, i) \in Pointers
      BY <1>0, <2>0, <2>1, AtDistinct, AtFacts DEF p
    <3>3. e.next[At(L, i)] = At(L, i + 1)
      BY <1>0, <2>0, <2>1 DEF Linked
    <3> QED
      BY <1>6, <3>1, <3>2, <3>3
  <2>2. CASE i = k
    <3>1. At(M, i) = p /\ At(M, i + 1) = s
      BY <1>0, <1>7, <2>0, <2>2 DEF p
    <3> QED
      BY <1>0, <1>6, <3>1
  <2>3. CASE i = k + 1
    <3>1. At(M, i) = s /\ At(M, i + 1) = n
      <4>1. ~(i <= k) /\ ~(i + 1 <= k) /\ i + 1 # k + 1 /\ i + 1 - 1 = k + 1
        BY <1>0, <2>0, <2>3
      <4> QED
        BY <1>7, <2>0, <2>3, <4>1 DEF n
    <3> QED
      BY <1>0, <1>3, <1>6, <3>1
  <2>4. CASE i > k + 1
    <3>1. At(M, i) = At(L, i - 1) /\ At(M, i + 1) = At(L, i)
      <4>1. ~(i <= k) /\ ~(i + 1 <= k) /\ i + 1 # k + 1 /\ i # k + 1 /\ i + 1 - 1 = i
        BY <1>0, <2>0, <2>4
      <4> QED
        BY <1>7, <2>0, <4>1
    <3>2. i - 1 \in 0 .. Len(L) /\ i - 1 # k /\ i - 1 + 1 = i
      BY <1>0, <2>0, <2>4
    <3>3. At(L, i - 1) # p /\ At(L, i - 1) # s /\ At(L, i - 1) \in Pointers
      BY <1>0, <3>2, AtDistinct, AtFacts DEF p
    <3>4. e.next[At(L, i - 1)] = At(L, i)
      BY <3>2 DEF Linked
    <3> QED
      BY <1>6, <3>1, <3>3, <3>4
  <2> QED
    BY <1>0, <2>0, <2>1, <2>2, <2>3, <2>4
<1>9. ASSUME NEW i \in 1 .. Len(M) + 1 PROVE f.prev[At(M, i)] = At(M, i - 1)
  <2>0. i \in Nat /\ i # 0 /\ i <= Len(L) + 2 /\ i \in 0 .. Len(L) + 2
        /\ i - 1 \in 0 .. Len(L) + 2
    BY <1>0, <1>7
  <2>1. CASE i <= k
    <3>1. At(M, i) = At(L, i) /\ At(M, i - 1) = At(L, i - 1)
      BY <1>0, <1>7, <2>0, <2>1
    <3>2. At(L, i) # n /\ At(L, i) # s /\ At(L, i) \in Pointers
      BY <1>0, <2>0, <2>1, AtDistinct, AtFacts DEF n
    <3>3. e.prev[At(L, i)] = At(L, i - 1)
      BY <1>0, <2>0, <2>1 DEF Linked
    <3> QED
      BY <1>6, <3>1, <3>2, <3>3
  <2>2. CASE i = k + 1
    <3>1. At(M, i) = s /\ At(M, i - 1) = p
      BY <1>0, <1>7, <2>0, <2>2 DEF p
    <3> QED
      BY <1>0, <1>3, <1>6, <3>1
  <2>3. CASE i = k + 2
    <3>1. At(M, i) = n /\ At(M, i - 1) = s
      <4>1. ~(i <= k) /\ ~(i - 1 <= k) /\ i # k + 1 /\ i - 1 = k + 1
        BY <1>0, <2>0, <2>3
      <4> QED
        BY <1>7, <2>0, <4>1 DEF n
    <3> QED
      BY <1>0, <1>6, <3>1
  <2>4. CASE i > k + 2
    <3>1. At(M, i) = At(L, i - 1) /\ At(M, i - 1) = At(L, i - 1 - 1)
      <4>1. ~(i <= k) /\ ~(i - 1 <= k) /\ i - 1 # k + 1 /\ i # k + 1
        BY <1>0, <2>0, <2>4
      <4> QED
        BY <1>7, <2>0, <4>1
    <3>2. i - 1 \in 1 .. Len(L) + 1 /\ i - 1 # k + 1 /\ k + 1 \in 1 .. Len(L) + 1
          /\ i - 1 \in Int
      BY <1>0, <2>0, <2>4
    <3>3. At(L, i - 1) # n /\ At(L, i - 1) # s /\ At(L, i - 1) \in Pointers
      BY <3>2, AtDistinct, AtFacts DEF n
    <3>4. e.prev[At(L, i - 1)] = At(L, i - 1 - 1)
      BY <3>2 DEF Linked
    <3> QED
      BY <1>6, <3>1, <3>3, <3>4
  <2> QED
    BY <1>0, <2>0, <2>1, <2>2, <2>3, <2>4
<1> QED
  BY <1>4, <1>5, <1>8, <1>9 DEF f, p, M, Linked

LEMMA WithoutFacts ==
  ASSUME NEW L \in Seq(Slots), Distinct(L), NEW k \in 1 .. Len(L)
  PROVE  /\ Without(L, k) \in Seq(Slots) /\ Len(Without(L, k)) = Len(L) - 1
         /\ Distinct(Without(L, k))
         /\ \A i \in 1 .. Len(L) - 1 : Without(L, k)[i] = IF i < k THEN L[i] ELSE L[i + 1]
         /\ \A i \in 0 .. Len(L) : At(Without(L, k), i) = IF i < k THEN At(L, i) ELSE At(L, i + 1)
         /\ \A t : Member(Without(L, k), t) <=> Member(L, t) /\ t # L[k]
<1> DEFINE M == Without(L, k)
           src(i) == IF i < k THEN i ELSE i + 1
<1>0. Len(L) \in Nat /\ k \in Nat /\ k <= Len(L) /\ k # 0 /\ Len(L) - 1 \in Nat
      /\ \A i \in 1 .. Len(L) : L[i] \in Slots
  OBVIOUS
<1>1. \A i \in 1 .. Len(L) - 1 : src(i) \in 1 .. Len(L) /\ src(i) # k
  BY <1>0
<1>2. M = [i \in 1 .. Len(L) - 1 |-> L[src(i)]]
  BY DEF Without
<1>3. M \in Seq(Slots) /\ Len(M) = Len(L) - 1
  <2>1. M \in [1 .. Len(L) - 1 -> Slots]
    BY <1>0, <1>1, <1>2
  <2> QED
    BY <1>0, <2>1
<1>4. \A i \in 1 .. Len(L) - 1 : M[i] = L[src(i)]
  BY <1>2
<1> HIDE DEF M
<1>5. ASSUME NEW i \in 0 .. Len(L) PROVE At(M, i) = At(L, src(i))
  <2>1. CASE i \in 1 .. Len(L) - 1
    <3>1. At(M, i) = M[i] /\ M[i] = L[src(i)]
      BY <1>3, <1>4, <2>1 DEF At
    <3>2. At(L, src(i)) = L[src(i)]
      BY <1>1, <2>1 DEF At
    <3> QED
      BY <3>1, <3>2
  <2>2. CASE i = 0
    BY <1>0, <1>3, <2>2 DEF At
  <2>3. CASE i = Len(L)
    BY <1>0, <1>3, <2>3 DEF At
  <2> QED
    BY <1>0, <2>1, <2>2, <2>3
<1>6. ASSUME NEW i \in 1 .. Len(L) - 1, NEW j \in 1 .. Len(L) - 1, M[i] = M[j] PROVE i = j
  <2>1. src(i) = src(j)
    BY <1>1, <1>4, <1>6 DEF Distinct
  <2> QED
    BY <1>0, <2>1
<1>7. ASSUME NEW t PROVE Member(M, t) <=> Member(L, t) /\ t # L[k]
  <2>1. ASSUME Member(M, t) PROVE Member(L, t) /\ t # L[k]
    <3>1. PICK i \in 1 .. Len(L) - 1 : M[i] = t
      BY <1>3, <2>1 DEF Member
    <3>2. src(i) \in 1 .. Len(L) /\ src(i) # k /\ t = L[src(i)]
      BY <1>1, <1>4, <3>1
    <3> HIDE DEF src
    <3> QED
      BY <3>2 DEF Member, Distinct
  <2>2. ASSUME Member(L, t), t # L[k] PROVE Member(M, t)
    <3>1. PICK i \in 1 .. Len(L) : L[i] = t
      BY <2>2 DEF Member
    <3>2. CASE i < k
      <4>1. i \in 1 .. Len(L) - 1 /\ src(i) = i
        BY <1>0, <3>2
      <4> QED
        BY <1>3, <1>4, <3>1, <4>1 DEF Member
    <3>3. CASE i > k
      <4>1. i - 1 \in 1 .. Len(L) - 1 /\ src(i - 1) = i
        BY <1>0, <3>3
      <4> QED
        BY <1>3, <1>4, <3>1, <4>1 DEF Member
    <3> QED
      BY <1>0, <2>2, <3>1, <3>2, <3>3
  <2> QED
    BY <2>1, <2>2
<1>8. \A i \in 1 .. Len(L) - 1 : M[i] = IF i < k THEN L[i] ELSE L[i + 1]
  BY <1>4
<1>9. \A i \in 0 .. Len(L) : At(M, i) = IF i < k THEN At(L, i) ELSE At(L, i + 1)
  BY <1>5
<1>10. Distinct(M)
  BY <1>3, <1>6 DEF Distinct
<1> QED
  BY <1>3, <1>7, <1>8, <1>9, <1>10 DEF M

\* Unlinked removes, and leaves the pointers of what it removes.
LEMMA UnlinkedRemoves ==
  ASSUME NEW e, e \in Engines, NEW L \in Seq(Slots), Distinct(L), Linked(e, L),
         NEW k \in 1 .. Len(L)
  PROVE  /\ Unlinked(e, L[k]) \in Engines
         /\ Linked(Unlinked(e, L[k]), Without(L, k))
         /\ LET f == Unlinked(e, L[k])
            IN /\ f.depth = e.depth /\ f.alloc = e.alloc /\ f.frame = e.frame
               /\ f.need = e.need /\ f.stack = e.stack
               /\ f.next[L[k]] = e.next[L[k]]
<1> DEFINE s == L[k]
           p == At(L, k - 1)
           n == At(L, k + 1)
           M == Without(L, k)
           f == Unlinked(e, s)
<1>0. /\ Len(L) \in Nat /\ k \in Nat /\ k <= Len(L) /\ k # 0 /\ p \in Pointers
      /\ n \in Pointers /\ s \in Slots /\ s \in Pointers /\ s = At(L, k)
  BY AtFacts, SlotFacts
<1>1. e.next[s] = n /\ e.prev[s] = p
  <2>1. k \in 0 .. Len(L) /\ k \in 1 .. Len(L) + 1
    BY <1>0
  <2> QED
    BY <1>0, <2>1 DEF Linked
<1>2. p # s /\ n # s
  <2>1. /\ k - 1 \in 0 .. Len(L) /\ k \in 0 .. Len(L) /\ k - 1 # k
        /\ k \in 1 .. Len(L) + 1 /\ k + 1 \in 1 .. Len(L) + 1 /\ k + 1 # k
    BY <1>0
  <2> QED
    BY <1>0, <2>1, AtDistinct
<1>3. f = [e EXCEPT !.next[p] = n, !.prev[n] = p]
  BY <1>1 DEF Unlinked
<1> HIDE DEF p, n, f, M, s
<1>4. /\ f.next = [e.next EXCEPT ![p] = n] /\ f.prev = [e.prev EXCEPT ![n] = p]
      /\ f.depth = e.depth /\ f.alloc = e.alloc /\ f.frame = e.frame
      /\ f.need = e.need /\ f.stack = e.stack
  BY <1>3 DEF Engines
<1>5. f \in Engines
  BY <1>0, <1>3 DEF Engines
<1>6. /\ \A q \in Pointers : f.next[q] = IF q = p THEN n ELSE e.next[q]
      /\ \A q \in Pointers : f.prev[q] = IF q = n THEN p ELSE e.prev[q]
  BY <1>0, <1>4 DEF Engines
<1>7. Len(M) = Len(L) - 1 /\ \A i \in 0 .. Len(L) :
        At(M, i) = IF i < k THEN At(L, i) ELSE At(L, i + 1)
  BY WithoutFacts DEF M
<1>8. ASSUME NEW i \in 0 .. Len(M) PROVE f.next[At(M, i)] = At(M, i + 1)
  <2>0. i \in Nat /\ i <= Len(L) - 1 /\ i \in 0 .. Len(L) /\ i + 1 \in 0 .. Len(L)
        /\ k - 1 \in 0 .. Len(L) /\ i \in Int
    BY <1>0, <1>7
  <2>1. CASE i < k - 1
    <3>1. At(M, i) = At(L, i) /\ At(M, i + 1) = At(L, i + 1)
      BY <1>0, <1>7, <2>0, <2>1
    <3>2. At(L, i) # p /\ At(L, i) \in Pointers
      BY <2>0, <2>1, AtDistinct, AtFacts DEF p
    <3>3. e.next[At(L, i)] = At(L, i + 1)
      BY <2>0 DEF Linked
    <3> QED
      BY <1>6, <3>1, <3>2, <3>3
  <2>2. CASE i = k - 1
    <3>1. At(M, i) = p /\ At(M, i + 1) = n
      <4>1. i < k /\ ~(i + 1 < k) /\ i + 1 + 1 = k + 1
        BY <1>0, <2>0, <2>2
      <4> QED
        BY <1>7, <2>0, <2>2, <4>1 DEF p, n
    <3> QED
      BY <1>0, <1>6, <3>1
  <2>3. CASE i >= k
    <3>1. At(M, i) = At(L, i + 1) /\ At(M, i + 1) = At(L, i + 1 + 1)
      BY <1>0, <1>7, <2>0, <2>3
    <3>2. At(L, i + 1) # p /\ At(L, i + 1) \in Pointers
      BY <1>0, <2>0, <2>3, AtDistinct, AtFacts DEF p
    <3>3. e.next[At(L, i + 1)] = At(L, i + 1 + 1)
      BY <2>0 DEF Linked
    <3> QED
      BY <1>6, <3>1, <3>2, <3>3
  <2> QED
    BY <1>0, <2>0, <2>1, <2>2, <2>3
<1>9. ASSUME NEW i \in 1 .. Len(M) + 1 PROVE f.prev[At(M, i)] = At(M, i - 1)
  <2>0. /\ i \in Nat /\ i # 0 /\ i <= Len(L) /\ i \in 0 .. Len(L) /\ i - 1 \in 0 .. Len(L)
        /\ i \in Int /\ i \in 1 .. Len(L) + 1 /\ i + 1 \in 1 .. Len(L) + 1
        /\ k + 1 \in 1 .. Len(L) + 1
    BY <1>0, <1>7
  <2>1. CASE i < k
    <3>1. At(M, i) = At(L, i) /\ At(M, i - 1) = At(L, i - 1)
      BY <1>0, <1>7, <2>0, <2>1
    <3>2. At(L, i) # n /\ At(L, i) \in Pointers
      BY <1>0, <2>0, <2>1, AtDistinct, AtFacts DEF n
    <3>3. e.prev[At(L, i)] = At(L, i - 1)
      BY <2>0 DEF Linked
    <3> QED
      BY <1>6, <3>1, <3>2, <3>3
  <2>2. CASE i = k
    <3>1. At(M, i) = n /\ At(M, i - 1) = p
      <4>1. i - 1 < k /\ ~(i < k)
        BY <1>0, <2>0, <2>2
      <4> QED
        BY <1>7, <2>0, <2>2, <4>1 DEF p, n
    <3> QED
      BY <1>0, <1>6, <3>1
  <2>3. CASE i > k
    <3>1. At(M, i) = At(L, i + 1) /\ At(M, i - 1) = At(L, i)
      <4>1. ~(i < k) /\ ~(i - 1 < k) /\ i - 1 + 1 = i
        BY <1>0, <2>0, <2>3
      <4> QED
        BY <1>7, <2>0, <4>1
    <3>2. At(L, i + 1) # n /\ At(L, i + 1) \in Pointers
      BY <1>0, <2>0, <2>3, AtDistinct, AtFacts DEF n
    <3>3. e.prev[At(L, i + 1)] = At(L, i + 1 - 1) /\ i + 1 - 1 = i
      BY <2>0 DEF Linked
    <3> QED
      BY <1>6, <3>1, <3>2, <3>3
  <2> QED
    BY <1>0, <2>0, <2>1, <2>2, <2>3
<1>10. f.next[s] = e.next[s]
  BY <1>0, <1>2, <1>6
<1> QED
  BY <1>4, <1>5, <1>8, <1>9, <1>10 DEF f, s, M, Linked

-----------------------------------------------------------------------------
(* Sorting *)

\* The searches stop at the first sprite that stops them.
LEMMA ForwardFinds ==
  ASSUME NEW e, e \in Engines, NEW p, NEW path \in Seq(Slots), Follow(e.next, p) = path,
         NEW d \in Int
  PROVE  \E q \in 1 .. Len(path) + 1 :
           /\ Forward(e, p, d) = At(path, q)
           /\ \A i \in 1 .. q - 1 : e.depth[path[i]] < d
           /\ q <= Len(path) => e.depth[path[q]] >= d
<1> DEFINE stops == {i \in 1 .. Len(path) : e.depth[path[i]] >= d}
<1>0. /\ Len(path) \in Nat /\ DOMAIN path = 1 .. Len(path)
      /\ \A i \in 1 .. Len(path) : e.depth[path[i]] \in Int
  BY ListAssumption DEF Engines
<1>1. Forward(e, p, d) = IF stops = {} THEN NULL ELSE path[Min(stops)]
  BY <1>0 DEF Forward, FirstThat
<1>2. CASE stops = {}
  <2>1. Forward(e, p, d) = At(path, Len(path) + 1)
    BY <1>1, <1>2, AtFacts
  <2>2. \A i \in 1 .. Len(path) : e.depth[path[i]] < d
    BY <1>0, <1>2
  <2> QED
    BY <1>0, <2>1, <2>2
<1>3. CASE stops # {}
  <2>1. Min(stops) \in stops /\ \A y \in stops : Min(stops) <= y
    <3>1. stops \subseteq Nat
      BY <1>0
    <3> QED
      BY <1>3, <3>1, MinIsLeast
  <2>2. PICK q \in 1 .. Len(path) : q = Min(stops)
    BY <2>1
  <2>3. Forward(e, p, d) = At(path, q)
    BY <1>1, <1>3, <2>2 DEF At
  <2>4. e.depth[path[q]] >= d
    BY <2>1, <2>2
  <2>5. \A i \in 1 .. q - 1 : e.depth[path[i]] < d
    BY <1>0, <2>1, <2>2
  <2> QED
    BY <1>0, <2>3, <2>4, <2>5
<1> QED
  BY <1>2, <1>3

LEMMA BackwardFinds ==
  ASSUME NEW e, e \in Engines, NEW p, NEW path \in Seq(Slots), Follow(e.prev, p) = path,
         NEW d \in Int
  PROVE  \E q \in 1 .. Len(path) + 1 :
           /\ Backward(e, p, d) = At(path, q)
           /\ \A i \in 1 .. q - 1 : e.depth[path[i]] > d
           /\ q <= Len(path) => e.depth[path[q]] <= d
<1> DEFINE stops == {i \in 1 .. Len(path) : e.depth[path[i]] <= d}
<1>0. /\ Len(path) \in Nat /\ DOMAIN path = 1 .. Len(path)
      /\ \A i \in 1 .. Len(path) : e.depth[path[i]] \in Int
  BY ListAssumption DEF Engines
<1>1. Backward(e, p, d) = IF stops = {} THEN NULL ELSE path[Min(stops)]
  BY <1>0 DEF Backward, FirstThat
<1>2. CASE stops = {}
  <2>1. Backward(e, p, d) = At(path, Len(path) + 1)
    BY <1>1, <1>2, AtFacts
  <2>2. \A i \in 1 .. Len(path) : e.depth[path[i]] > d
    BY <1>0, <1>2
  <2> QED
    BY <1>0, <2>1, <2>2
<1>3. CASE stops # {}
  <2>1. Min(stops) \in stops /\ \A y \in stops : Min(stops) <= y
    <3>1. stops \subseteq Nat
      BY <1>0
    <3> QED
      BY <1>3, <3>1, MinIsLeast
  <2>2. PICK q \in 1 .. Len(path) : q = Min(stops)
    BY <2>1
  <2>3. Backward(e, p, d) = At(path, q)
    BY <1>1, <1>3, <2>2 DEF At
  <2>4. e.depth[path[q]] <= d
    BY <2>1, <2>2
  <2>5. \A i \in 1 .. q - 1 : e.depth[path[i]] > d
    BY <1>0, <2>1, <2>2
  <2> QED
    BY <1>0, <2>3, <2>4, <2>5
<1> QED
  BY <1>2, <1>3

LEMMA SortedWith ==
  ASSUME NEW L \in Seq(Slots), NEW depth \in [Slots -> Int], Sorted(depth, L),
         NEW k \in 0 .. Len(L), NEW s \in Slots,
         \A i \in 1 .. k : depth[L[i]] <= depth[s],
         \A i \in k + 1 .. Len(L) : depth[s] <= depth[L[i]]
  PROVE  Sorted(depth, With(L, k, s))
<1> DEFINE M == With(L, k, s)
<1>0. /\ Len(L) \in Nat /\ k \in Nat /\ k <= Len(L) /\ depth[s] \in Int
      /\ \A i \in 1 .. Len(L) : depth[L[i]] \in Int
  OBVIOUS
<1>1. Len(M) = Len(L) + 1 /\ \A i \in 1 .. Len(L) + 1 :
        M[i] = IF i <= k THEN L[i] ELSE IF i = k + 1 THEN s ELSE L[i - 1]
  BY WithFacts
<1> HIDE DEF M
<1>2. ASSUME NEW i \in 1 .. Len(L) + 1, NEW j \in 1 .. Len(L) + 1, i < j
      PROVE  depth[M[i]] <= depth[M[j]]
  <2>1. CASE j <= k
    <3>1. M[i] = L[i] /\ M[j] = L[j] /\ i \in 1 .. Len(L) /\ j \in 1 .. Len(L)
      BY <1>0, <1>1, <1>2, <2>1
    <3> QED
      BY <1>2, <3>1 DEF Sorted
  <2>2. CASE j = k + 1
    <3>1. M[i] = L[i] /\ M[j] = s /\ i \in 1 .. k
      BY <1>0, <1>1, <1>2, <2>2
    <3> QED
      BY <3>1
  <2>3. CASE i = k + 1
    <3>1. M[i] = s /\ M[j] = L[j - 1] /\ j - 1 \in k + 1 .. Len(L)
      BY <1>0, <1>1, <1>2, <2>3
    <3> QED
      BY <3>1
  <2>4. CASE i > k + 1
    <3>1. /\ M[i] = L[i - 1] /\ M[j] = L[j - 1] /\ i - 1 \in 1 .. Len(L)
          /\ j - 1 \in 1 .. Len(L) /\ i - 1 < j - 1
      BY <1>0, <1>1, <1>2, <2>4
    <3> QED
      BY <3>1 DEF Sorted
  <2>5. CASE i <= k /\ j > k + 1
    <3>1. M[i] = L[i] /\ M[j] = L[j - 1] /\ i \in 1 .. Len(L) /\ j - 1 \in 1 .. Len(L)
          /\ i < j - 1
      BY <1>0, <1>1, <1>2, <2>5
    <3> QED
      BY <3>1 DEF Sorted
  <2> QED
    BY <1>0, <1>2, <2>1, <2>2, <2>3, <2>4, <2>5
<1> QED
  BY <1>1, <1>2 DEF M, Sorted

\* Sorted but for the k-th element.
SortedBut(depth, L, k) ==
  \A i, j \in 1 .. Len(L) : i < j /\ i # k /\ j # k => depth[L[i]] <= depth[L[j]]

LEMMA SortedWithout ==
  ASSUME NEW L \in Seq(Slots), Distinct(L), NEW k \in 1 .. Len(L), NEW depth,
         SortedBut(depth, L, k)
  PROVE  Sorted(depth, Without(L, k))
<1> DEFINE M == Without(L, k)
           src(i) == IF i < k THEN i ELSE i + 1
<1>0. Len(L) \in Nat /\ k \in Nat /\ k <= Len(L) /\ k # 0
  OBVIOUS
<1>1. Len(M) = Len(L) - 1 /\ \A i \in 1 .. Len(L) - 1 : M[i] = L[src(i)]
  BY WithoutFacts
<1> HIDE DEF M
<1>2. ASSUME NEW i \in 1 .. Len(M), NEW j \in 1 .. Len(M), i < j
      PROVE  depth[M[i]] <= depth[M[j]]
  <2>1. /\ src(i) \in 1 .. Len(L) /\ src(j) \in 1 .. Len(L) /\ src(i) < src(j)
        /\ src(i) # k /\ src(j) # k
    BY <1>0, <1>1, <1>2
  <2>2. M[i] = L[src(i)] /\ M[j] = L[src(j)]
    BY <1>1
  <2> HIDE DEF src
  <2> QED
    BY <2>1, <2>2 DEF SortedBut
<1> QED
  BY <1>2 DEF M, Sorted

\* f is e with the pointers of M, which has the elements of L.
Rearranged(e, f, L, M) ==
  /\ f \in Engines /\ M \in Seq(Slots) /\ Len(M) = Len(L) /\ Distinct(M) /\ Linked(f, M)
  /\ \A t : Member(M, t) <=> Member(L, t)
  /\ f.depth = e.depth /\ f.alloc = e.alloc /\ f.frame = e.frame
  /\ f.need = e.need /\ f.stack = e.stack

LEMMA MoveAfterMoves ==
  ASSUME NEW e, e \in Engines, NEW L \in Seq(Slots), Distinct(L), Linked(e, L),
         NEW k \in 1 .. Len(L), NEW m \in 0 .. Len(L) - 1
  PROVE  Rearranged(e, moveAfter(e, At(Without(L, k), m), L[k]), L,
                    With(Without(L, k), m, L[k]))
<1> DEFINE R == Without(L, k)
           s == L[k]
           g == Unlinked(e, s)
           M == With(R, m, s)
           f == LinkedAfter(g, At(R, m), s)
<1>1. /\ R \in Seq(Slots) /\ Len(R) = Len(L) - 1 /\ Distinct(R)
      /\ (\A t : Member(R, t) <=> Member(L, t) /\ t # s)
  BY WithoutFacts
<1>2. /\ g \in Engines /\ Linked(g, R) /\ g.depth = e.depth /\ g.alloc = e.alloc
      /\ g.frame = e.frame /\ g.need = e.need /\ g.stack = e.stack
  BY UnlinkedRemoves
<1>3. s \in Slots /\ m \in 0 .. Len(R) /\ ~Member(R, s) /\ Len(L) \in Nat /\ Member(L, s)
  <2>1. Len(L) \in Nat /\ s \in Slots /\ Member(L, s)
    BY DEF Member
  <2> HIDE DEF R, s
  <2> QED
    BY <1>1, <2>1
<1>4. moveAfter(e, At(R, m), s) = f
  BY DEF moveAfter
<1> HIDE DEF R, s, g
<1>5. M \in Seq(Slots) /\ Len(M) = Len(R) + 1 /\ \A t : Member(M, t) <=> Member(R, t) \/ t = s
  BY <1>1, <1>3, WithFacts
<1>6. Distinct(M)
  BY <1>1, <1>3, WithDistinct
<1>7. /\ f \in Engines /\ Linked(f, M) /\ f.depth = g.depth /\ f.alloc = g.alloc
      /\ f.frame = g.frame /\ f.need = g.need /\ f.stack = g.stack
  BY <1>1, <1>2, <1>3, LinkedAfterInserts
<1> HIDE DEF f, M
<1>8. Rearranged(e, f, L, M)
  BY <1>1, <1>2, <1>3, <1>5, <1>6, <1>7 DEF Rearranged
<1> QED
  BY <1>4, <1>8 DEF M, R, s

\* sortSprite puts the one sprite that may be out of order where it belongs.
LEMMA SortSorts ==
  ASSUME NEW e, e \in Engines, NEW L \in Seq(Slots), Distinct(L), Linked(e, L),
         Len(L) <= MaxSprite, NEW k \in 1 .. Len(L), SortedBut(e.depth, L, k)
  PROVE  \E M : Rearranged(e, sortSprite(e, L[k]), L, M) /\ Sorted(e.depth, M)
<1> DEFINE s == L[k]
           d == e.depth[s]
           f == Forward(e, e.next[s], d)
           b == Backward(e, e.prev[s], d)
           R == Without(L, k)
<1>0. /\ Len(L) \in Nat /\ k \in Nat /\ k <= Len(L) /\ k # 0 /\ s \in Slots /\ s = At(L, k)
      /\ \A i \in 1 .. Len(L) : L[i] \in Slots /\ e.depth[L[i]] \in Int
      /\ e.depth \in [Slots -> Int]
  BY ListAssumption, AtFacts DEF Engines
<1>n. Len(L) \in Nat /\ k \in Nat /\ k <= Len(L) /\ k # 0
  BY <1>0
<1>t. \A i \in 1 .. Len(L) : e.depth[L[i]] \in Int /\ e.depth[L[i]] <= e.depth[L[i]]
  BY <1>0
<1>1. e.next[s] = At(L, k + 1) /\ e.prev[s] = At(L, k - 1)
  <2>1. k \in 0 .. Len(L) /\ k \in 1 .. Len(L) + 1
    BY <1>n
  <2> QED
    BY <1>0, <2>1 DEF Linked
<1>2. PICK q \in k + 1 .. Len(L) + 1 :
        /\ f = At(L, q) /\ \A i \in k + 1 .. q - 1 : e.depth[L[i]] < d
        /\ q <= Len(L) => e.depth[L[q]] >= d
  <2> DEFINE path == Rest(L, k + 1)
             n == Len(L) - k
  <2>1. Follow(e.next, At(L, k + 1)) = path
    BY <1>0, HoldsFollow
  <2>2. /\ n \in Nat /\ Len(L) - (k + 1) + 1 = n
        /\ \A i \in 1 .. n : (k + 1) + i - 1 \in 1 .. Len(L) /\ (k + 1) + i - 1 = k + i
    BY <1>n
  <2>3. path = [i \in 1 .. n |-> L[k + i]]
    BY <1>0, <2>2 DEF Rest
  <2> HIDE DEF path, n
  <2>4. path \in Seq(Slots) /\ Len(path) = n /\ \A i \in 1 .. n : path[i] = L[k + i]
    BY <1>0, <2>2, <2>3
  <2>5. PICK r \in 1 .. n + 1 :
          /\ f = At(path, r) /\ \A i \in 1 .. r - 1 : e.depth[path[i]] < d
          /\ r <= n => e.depth[path[r]] >= d
    <3> DEFINE p == e.next[s]
    <3>1. d \in Int /\ f = Forward(e, p, d)
      BY <1>0
    <3>a. Follow(e.next, p) = path
      BY <1>1, <2>1
    <3>b. path \in Seq(Slots)
      BY <2>4
    <3> HIDE DEF d, f, p
    <3>c. \E r \in 1 .. Len(path) + 1 :
            /\ Forward(e, p, d) = At(path, r) /\ \A i \in 1 .. r - 1 : e.depth[path[i]] < d
            /\ r <= Len(path) => e.depth[path[r]] >= d
      BY <3>1, <3>a, <3>b, ForwardFinds
    <3>2. \E r \in 1 .. Len(path) + 1 :
            /\ f = At(path, r) /\ \A i \in 1 .. r - 1 : e.depth[path[i]] < d
            /\ r <= Len(path) => e.depth[path[r]] >= d
      BY <3>1, <3>c
    <3> QED
      BY <2>4, <3>2
  <2>6. k + r \in k + 1 .. Len(L) + 1 /\ (k + r <= Len(L) <=> r <= n)
    BY <1>n, <2>2 DEF n
  <2>7. At(path, r) = At(L, k + r)
    BY <1>0, <2>2, <2>4, <2>6 DEF At
  <2>8. \A i \in k + 1 .. k + r - 1 : e.depth[L[i]] < d
    <3> SUFFICES ASSUME NEW i \in k + 1 .. k + r - 1 PROVE e.depth[L[i]] < d
      OBVIOUS
    <3>1. i - k \in 1 .. r - 1 /\ i - k \in 1 .. n /\ k + (i - k) = i
      BY <1>n, <2>2, <2>6
    <3> QED
      BY <2>4, <2>5, <3>1
  <2>9. k + r <= Len(L) => e.depth[L[k + r]] >= d
    BY <2>4, <2>5, <2>6
  <2> HIDE DEF d
  <2> QED
    BY <2>5, <2>6, <2>7, <2>8, <2>9
<1>3. PICK c \in 0 .. k - 1 :
        /\ b = At(L, c) /\ \A i \in c + 1 .. k - 1 : e.depth[L[i]] > d
        /\ c # 0 => e.depth[L[c]] <= d
  <2> DEFINE path == Back(L, k - 1)
  <2>1. Follow(e.prev, At(L, k - 1)) = path
    BY <1>0, HoldsFollow
  <2>2. \A i \in 1 .. k - 1 : (k - 1) - i + 1 \in 1 .. Len(L) /\ (k - 1) - i + 1 = k - i
    BY <1>n
  <2>3. path = [i \in 1 .. k - 1 |-> L[k - i]]
    BY <1>0, <2>2 DEF Back
  <2> HIDE DEF path
  <2>4. path \in Seq(Slots) /\ Len(path) = k - 1 /\ \A i \in 1 .. k - 1 : path[i] = L[k - i]
    BY <1>0, <2>2, <2>3
  <2>5. PICK r \in 1 .. k :
          /\ b = At(path, r) /\ \A i \in 1 .. r - 1 : e.depth[path[i]] > d
          /\ r <= k - 1 => e.depth[path[r]] <= d
    <3> DEFINE p == e.prev[s]
    <3>1. k - 1 + 1 = k /\ d \in Int /\ b = Backward(e, p, d)
      BY <1>0
    <3>a. Follow(e.prev, p) = path
      BY <1>1, <2>1
    <3>b. path \in Seq(Slots)
      BY <2>4
    <3> HIDE DEF d, b, p
    <3>c. \E r \in 1 .. Len(path) + 1 :
            /\ Backward(e, p, d) = At(path, r) /\ \A i \in 1 .. r - 1 : e.depth[path[i]] > d
            /\ r <= Len(path) => e.depth[path[r]] <= d
      BY <3>1, <3>a, <3>b, BackwardFinds
    <3>2. \E r \in 1 .. Len(path) + 1 :
            /\ b = At(path, r) /\ \A i \in 1 .. r - 1 : e.depth[path[i]] > d
            /\ r <= Len(path) => e.depth[path[r]] <= d
      BY <3>1, <3>c
    <3> QED
      BY <2>4, <3>1, <3>2
  <2>6. k - r \in 0 .. k - 1 /\ (k - r # 0 <=> r <= k - 1)
    BY <1>n
  <2>7. At(path, r) = At(L, k - r)
    <3>1. CASE r <= k - 1
      <4>1. r \in 1 .. k - 1 /\ k - r \in 1 .. Len(L)
        BY <1>n, <2>6, <3>1
      <4> QED
        BY <2>4, <4>1 DEF At
    <3>2. CASE r = k
      <4>1. r \notin 1 .. k - 1 /\ k - r \notin 1 .. Len(L)
        BY <1>n, <3>2
      <4> QED
        BY <2>4, <4>1 DEF At
    <3> QED
      BY <1>n, <3>1, <3>2
  <2>8. \A i \in (k - r) + 1 .. k - 1 : e.depth[L[i]] > d
    <3> SUFFICES ASSUME NEW i \in (k - r) + 1 .. k - 1 PROVE e.depth[L[i]] > d
      OBVIOUS
    <3>1. k - i \in 1 .. r - 1 /\ k - i \in 1 .. k - 1 /\ k - (k - i) = i
      BY <1>n, <2>6
    <3> QED
      BY <2>4, <2>5, <3>1
  <2>9. k - r # 0 => e.depth[L[k - r]] <= d
    BY <2>4, <2>5, <2>6
  <2> HIDE DEF d
  <2> QED
    BY <2>5, <2>6, <2>7, <2>8, <2>9
<1>4. sortSprite(e, s) = IF f # e.next[s] THEN moveAfter(e, e.prev[f], s)
                         ELSE IF b # e.prev[s] THEN moveAfter(e, b, s) ELSE e
  BY DEF sortSprite
<1>5. (f = e.next[s] <=> q = k + 1) /\ (b = e.prev[s] <=> c = k - 1)
  <2>1. /\ q \in 1 .. Len(L) + 1 /\ k + 1 \in 1 .. Len(L) + 1
        /\ c \in 0 .. Len(L) /\ k - 1 \in 0 .. Len(L)
    BY <1>n
  <2> HIDE DEF f, b
  <2> QED
    BY <1>1, <1>2, <1>3, <2>1, AtDistinct
<1>6. /\ R \in Seq(Slots) /\ Len(R) = Len(L) - 1 /\ Sorted(e.depth, R)
      /\ (\A i \in 1 .. Len(L) - 1 : R[i] = IF i < k THEN L[i] ELSE L[i + 1])
      /\ \A i \in 0 .. Len(L) : At(R, i) = IF i < k THEN At(L, i) ELSE At(L, i + 1)
  BY WithoutFacts, SortedWithout
<1> HIDE DEF f, b, R, d
<1>7. ASSUME NEW m \in 0 .. Len(L) - 1,
             \A i \in 1 .. m : e.depth[R[i]] <= d,
             \A i \in m + 1 .. Len(L) - 1 : d <= e.depth[R[i]]
      PROVE  Rearranged(e, moveAfter(e, At(R, m), s), L, With(R, m, s))
             /\ Sorted(e.depth, With(R, m, s))
  <2>1. Rearranged(e, moveAfter(e, At(R, m), s), L, With(R, m, s))
    BY MoveAfterMoves DEF R
  <2>2. m \in 0 .. Len(R) /\ \A i \in m + 1 .. Len(R) : d <= e.depth[R[i]]
    BY <1>6, <1>7
  <2>3. Sorted(e.depth, With(R, m, s))
    BY <1>0, <1>6, <1>7, <2>2, SortedWith DEF d
  <2> QED
    BY <2>1, <2>3
<1>8. d \in Int
  BY <1>0 DEF d
<1>9. CASE q # k + 1
  <2> DEFINE m == q - 2
  <2>1. m \in 0 .. Len(L) - 1 /\ m >= k /\ m \in 0 .. Len(L) /\ m + 1 = q - 1
        /\ k + 1 \in 1 .. Len(L) /\ k + 1 \in k + 1 .. q - 1
    BY <1>n, <1>9
  <2>2. e.prev[f] = At(R, m)
    <3>1. e.prev[At(L, q)] = At(L, q - 1)
      <4>1. q \in 1 .. Len(L) + 1
        BY <1>n
      <4> QED
        BY <4>1 DEF Linked
    <3>2. At(R, m) = At(L, m + 1)
      BY <1>0, <1>6, <2>1
    <3> QED
      BY <1>2, <2>1, <3>1, <3>2
  <2>3. \A i \in 1 .. m : e.depth[R[i]] <= d
    <3> SUFFICES ASSUME NEW i \in 1 .. m PROVE e.depth[R[i]] <= d
      OBVIOUS
    <3>0. i \in 1 .. Len(L) - 1 /\ i \in 1 .. Len(L)
      BY <1>n, <2>1
    <3>1. CASE i < k
      <4>1. R[i] = L[i]
        BY <1>6, <3>0, <3>1
      <4>2. e.depth[L[i]] <= e.depth[L[k + 1]]
        <5>1. i < k + 1 /\ i # k /\ k + 1 # k
          BY <1>n, <3>0, <3>1
        <5> QED
          BY <2>1, <3>0, <5>1 DEF SortedBut
      <4>3. e.depth[L[k + 1]] < d
        BY <1>2, <2>1
      <4> QED
        <5>1. e.depth[L[i]] \in Int /\ e.depth[L[k + 1]] \in Int
          BY <1>0, <2>1, <3>0
        <5> QED
          BY <1>8, <4>1, <4>2, <4>3, <5>1
    <3>2. CASE i >= k
      <4>1. R[i] = L[i + 1] /\ i + 1 \in k + 1 .. q - 1 /\ i + 1 \in 1 .. Len(L)
        BY <1>0, <1>6, <2>1, <3>0, <3>2
      <4> QED
        BY <1>0, <1>2, <1>8, <4>1
    <3> QED
      BY <1>n, <3>0, <3>1, <3>2
  <2>4. \A i \in m + 1 .. Len(L) - 1 : d <= e.depth[R[i]]
    <3> SUFFICES ASSUME NEW i \in m + 1 .. Len(L) - 1 PROVE d <= e.depth[R[i]]
      OBVIOUS
    <3>1. i \in 1 .. Len(L) - 1 /\ ~(i < k) /\ q <= i + 1 /\ i + 1 <= Len(L)
          /\ q \in 1 .. Len(L) /\ i + 1 \in 1 .. Len(L) /\ q # k /\ i + 1 # k
      BY <1>n, <2>1
    <3>2. R[i] = L[i + 1]
      BY <1>6, <3>1
    <3>3. d <= e.depth[L[q]]
      BY <1>0, <1>2, <1>8, <3>1
    <3>4. e.depth[L[q]] <= e.depth[L[i + 1]]
      <4>1. CASE q = i + 1
        BY <1>t, <3>1, <4>1
      <4>2. CASE q < i + 1
        BY <3>1, <4>2 DEF SortedBut
      <4> QED
        BY <1>n, <3>1, <4>1, <4>2
    <3>5. e.depth[L[q]] \in Int /\ e.depth[L[i + 1]] \in Int
      BY <1>t, <3>1
    <3> QED
      BY <1>8, <3>2, <3>3, <3>4, <3>5
  <2> HIDE DEF m
  <2>5. sortSprite(e, s) = moveAfter(e, At(R, m), s)
    BY <1>4, <1>5, <1>9, <2>2
  <2> QED
    BY <1>7, <2>1, <2>3, <2>4, <2>5
<1>10. CASE q = k + 1 /\ c # k - 1
  <2>1. c \in 0 .. Len(L) - 1 /\ c < k /\ c \in 0 .. Len(L)
    BY <1>n
  <2>2. At(R, c) = b
    BY <1>3, <1>6, <2>1
  <2>3. \A i \in 1 .. c : e.depth[R[i]] <= d
    <3> SUFFICES ASSUME NEW i \in 1 .. c PROVE e.depth[R[i]] <= d
      OBVIOUS
    <3>1. i \in 1 .. Len(L) - 1 /\ i < k /\ i \in 1 .. Len(L) /\ c \in 1 .. Len(L) /\ c # 0
          /\ i # k /\ c # k /\ i <= c
      BY <1>n, <2>1
    <3>2. R[i] = L[i] /\ e.depth[L[c]] <= d
      BY <1>3, <1>6, <3>1
    <3>3. e.depth[L[i]] <= e.depth[L[c]]
      <4>1. CASE i = c
        BY <1>0, <3>1, <4>1
      <4>2. CASE i < c
        BY <3>1, <4>2 DEF SortedBut
      <4> QED
        BY <3>1, <4>1, <4>2
    <3>4. e.depth[L[i]] \in Int /\ e.depth[L[c]] \in Int
      BY <1>t, <3>1
    <3> QED
      BY <1>8, <3>2, <3>3, <3>4
  <2>4. \A i \in c + 1 .. Len(L) - 1 : d <= e.depth[R[i]]
    <3> SUFFICES ASSUME NEW i \in c + 1 .. Len(L) - 1 PROVE d <= e.depth[R[i]]
      OBVIOUS
    <3>0. i \in 1 .. Len(L) - 1 /\ i \in 1 .. Len(L) /\ i + 1 \in 1 .. Len(L)
      BY <1>n, <2>1
    <3>1. CASE i < k
      <4>1. R[i] = L[i] /\ i \in c + 1 .. k - 1
        BY <1>0, <1>6, <3>0, <3>1
      <4>2. e.depth[L[i]] > d /\ e.depth[L[i]] \in Int
        BY <1>0, <1>3, <3>0, <4>1
      <4> QED
        BY <1>8, <4>1, <4>2
    <3>2. CASE i >= k
      <4>1. R[i] = L[i + 1] /\ k + 1 <= i + 1 /\ k + 1 \in 1 .. Len(L) /\ i + 1 # k
            /\ k + 1 # k
        <5>1. k + 1 <= i + 1 /\ k + 1 \in 1 .. Len(L) /\ i + 1 # k /\ k + 1 # k /\ ~(i < k)
          BY <1>n, <3>0, <3>2
        <5> QED
          BY <1>6, <3>0, <5>1
      <4>2. d <= e.depth[L[k + 1]]
        BY <1>0, <1>2, <1>8, <1>10, <4>1
      <4>3. e.depth[L[k + 1]] <= e.depth[L[i + 1]]
        <5>1. CASE i = k
          BY <1>t, <4>1, <5>1
        <5>2. CASE i > k
          BY <1>n, <3>0, <4>1, <5>2 DEF SortedBut
        <5> QED
          BY <1>n, <3>0, <3>2, <5>1, <5>2
      <4>4. e.depth[L[i + 1]] \in Int /\ e.depth[L[k + 1]] \in Int
        BY <1>0, <3>0, <4>1
      <4> QED
        BY <1>8, <4>1, <4>2, <4>3, <4>4, SMTT(30)
    <3> QED
      BY <1>n, <3>0, <3>1, <3>2
  <2>5. sortSprite(e, s) = moveAfter(e, At(R, c), s)
    BY <1>4, <1>5, <1>10, <2>2
  <2> QED
    BY <1>7, <2>1, <2>3, <2>4, <2>5
<1>11. CASE q = k + 1 /\ c = k - 1
  <2>1. sortSprite(e, s) = e
    BY <1>4, <1>5, <1>11
  <2>2. Rearranged(e, e, L, L)
    BY DEF Rearranged
  <2>3. ASSUME NEW i \in 1 .. Len(L), NEW j \in 1 .. Len(L), i < j
        PROVE  e.depth[L[i]] <= e.depth[L[j]]
    <3>1. CASE i = k
      <4>1. k + 1 <= j /\ k + 1 \in 1 .. Len(L) /\ k + 1 # k /\ j # k
        BY <1>0, <2>3, <3>1
      <4>2. d <= e.depth[L[k + 1]]
        BY <1>0, <1>2, <1>8, <1>11, <4>1
      <4>3. e.depth[L[k + 1]] <= e.depth[L[j]]
        <5>1. CASE j = k + 1
          BY <1>t, <4>1, <5>1
        <5>2. CASE j > k + 1
          BY <4>1, <5>2 DEF SortedBut
        <5> QED
          BY <1>n, <4>1, <5>1, <5>2
      <4>4. e.depth[L[i]] = d /\ e.depth[L[k + 1]] \in Int /\ e.depth[L[j]] \in Int
        BY <1>t, <3>1, <4>1 DEF d
      <4> QED
        BY <1>8, <4>2, <4>3, <4>4
    <3>2. CASE j = k
      <4>1. i <= k - 1 /\ k - 1 \in 1 .. Len(L) /\ k - 1 # k /\ i # k /\ k - 1 # 0
        BY <1>n, <2>3, <3>2
      <4>2. e.depth[L[k - 1]] <= d
        BY <1>3, <1>11, <4>1
      <4>3. e.depth[L[i]] <= e.depth[L[k - 1]]
        <5>1. CASE i = k - 1
          BY <1>t, <4>1, <5>1
        <5>2. CASE i < k - 1
          BY <4>1, <5>2 DEF SortedBut
        <5> QED
          BY <1>n, <4>1, <5>1, <5>2
      <4>4. e.depth[L[j]] = d /\ e.depth[L[k - 1]] \in Int /\ e.depth[L[i]] \in Int
        BY <1>t, <3>2, <4>1 DEF d
      <4> QED
        BY <1>8, <4>2, <4>3, <4>4
    <3> QED
      BY <2>3, <3>1, <3>2 DEF SortedBut
  <2> QED
    BY <2>1, <2>2, <2>3 DEF Sorted
<1> QED
  BY <1>9, <1>10, <1>11

-----------------------------------------------------------------------------
(* The operations *)

\* What Holds says of the numbers and the places.
LEMMA HoldsFacts ==
  ASSUME NEW e, NEW L, Holds(e, L)
  PROVE  /\ e \in Engines /\ L \in Seq(Slots) /\ Distinct(L) /\ Linked(e, L)
         /\ e.stack \in Seq(Slots) /\ Distinct(e.stack)
         /\ Len(L) \in Nat /\ Len(e.stack) \in Nat /\ Len(L) + Len(e.stack) = MaxSprite
         /\ \A i \in 1 .. Len(L) : L[i] \in Slots /\ e.alloc[L[i]]
         /\ e.next[NULL] = At(L, 1) /\ e.prev[NULL] = At(L, Len(L))
<1>1. /\ e \in Engines /\ L \in Seq(Slots) /\ Distinct(L) /\ Linked(e, L)
      /\ e.stack \in Seq(Slots) /\ Distinct(e.stack) /\ Len(L) + Len(e.stack) = MaxSprite
  BY DEF Holds, Engines
<1>2. Len(L) \in Nat /\ Len(e.stack) \in Nat
  BY <1>1
<1>3. \A i \in 1 .. Len(L) : L[i] \in Slots /\ e.alloc[L[i]]
  BY <1>1 DEF Holds, Member
<1>4. e.next[NULL] = At(L, 1) /\ e.prev[NULL] = At(L, Len(L))
  <2>1. /\ At(L, 0) = NULL /\ At(L, Len(L) + 1) = NULL /\ 0 \in 0 .. Len(L) /\ 0 + 1 = 1
        /\ Len(L) + 1 \in 1 .. Len(L) + 1 /\ Len(L) + 1 - 1 = Len(L)
    BY <1>1, <1>2, AtFacts
  <2> QED
    BY <1>1, <2>1 DEF Linked
<1> QED
  BY <1>1, <1>2, <1>3, <1>4

LEMMA ResetHolds == Holds(ResetEngine, <<>>)
<1> DEFINE e == ResetEngine
           L == <<>>
<1>0. MinDepth \in MinDepth .. MaxDepth
  BY ListAssumption
<1>1. /\ e.next = [p \in Pointers |-> NULL] /\ e.prev = [p \in Pointers |-> NULL]
      /\ e.alloc = [s \in Slots |-> FALSE] /\ e.stack = [i \in Slots |-> i]
  BY DEF ResetEngine
<1>2. e.stack \in Seq(Slots) /\ Len(e.stack) = MaxSprite /\ \A i \in 1 .. MaxSprite : e.stack[i] = i
  <2>1. e.stack \in [1 .. MaxSprite -> Slots]
    BY <1>1, SlotFacts
  <2> QED
    BY <1>1, <2>1, SlotFacts
<1>3. e \in Engines
  BY <1>0, <1>2, SlotFacts DEF ResetEngine, Engines
<1>4. L \in Seq(Slots) /\ Len(L) = 0 /\ 1 .. Len(L) = {} /\ \A i : At(L, i) = NULL
  <2>1. L \in Seq(Slots) /\ Len(L) = 0
    OBVIOUS
  <2>2. 1 .. 0 = {}
    OBVIOUS
  <2> QED
    BY <2>1, <2>2 DEF At
<1> HIDE DEF e, L
<1>5. Linked(e, L)
  BY <1>1, <1>4, SlotFacts DEF Linked
<1>6. Distinct(e.stack) /\ \A s \in Slots : Member(e.stack, s)
  BY <1>2, SlotFacts DEF Distinct, Member
<1>7. Distinct(L) /\ (\A s : ~Member(L, s)) /\ Sorted(e.depth, L)
  BY <1>4 DEF Distinct, Member, Sorted
<1>8. Len(L) + Len(e.stack) = MaxSprite
  BY <1>2, <1>4, SlotFacts
<1>9. \A s \in Slots : ~e.alloc[s]
  BY <1>1
<1> QED
  BY <1>3, <1>4, <1>5, <1>6, <1>7, <1>8, <1>9 DEF Holds, e, L

\* Only the pointers, the depths, the pool and what it has given matter.
LEMMA SameHolds ==
  ASSUME NEW e, NEW L, Holds(e, L), NEW f, f \in Engines,
         f.next = e.next, f.prev = e.prev, f.depth = e.depth, f.alloc = e.alloc,
         f.stack = e.stack
  PROVE  Holds(f, L)
BY DEF Holds, Linked

LEMMA AddedHolds ==
  ASSUME NEW e, NEW L, Holds(e, L), e.stack # <<>>, NEW head \in BOOLEAN
  PROVE  LET s == Last(e.stack)
             k == IF head THEN 0 ELSE Len(L)
             f == Added(e, head)
         IN /\ s \in Slots /\ ~e.alloc[s] /\ k \in 0 .. Len(L)
            /\ Holds(f, With(L, k, s)) /\ Len(f.stack) = Len(e.stack) - 1
            /\ f.alloc = [e.alloc EXCEPT ![s] = TRUE]
            /\ f.frame = [e.frame EXCEPT ![s] = FALSE]
            /\ f.need = [e.need EXCEPT ![s] = TRUE]
<1> DEFINE S == e.stack
           s == Last(S)
           k == IF head THEN 0 ELSE Len(L)
           g == LinkedAfter(e, At(L, k), s)
           M == With(L, k, s)
           f == Added(e, head)
           d == IF head THEN MinDepth ELSE MaxDepth
<1>0. /\ e \in Engines /\ L \in Seq(Slots) /\ Distinct(L) /\ Linked(e, L)
      /\ S \in Seq(Slots) /\ Distinct(S)
      /\ Len(L) \in Nat /\ Len(S) \in Nat /\ Len(L) + Len(S) = MaxSprite
      /\ \A i \in 1 .. Len(L) : L[i] \in Slots
  BY HoldsFacts
<1>1. Len(S) # 0 /\ Len(S) \in 1 .. Len(S) /\ s = S[Len(S)] /\ s \in Slots /\ Member(S, s)
  BY <1>0 DEF Last, Member
<1>2. ~e.alloc[s] /\ ~Member(L, s)
  BY <1>1 DEF Holds
<1>3. k \in 0 .. Len(L)
  BY <1>0
<1>4. (IF head THEN NULL ELSE e.prev[NULL]) = At(L, k)
  BY <1>0, AtFacts, HoldsFacts
<1>5. /\ Front(S) \in Seq(Slots) /\ Len(Front(S)) = Len(S) - 1
      /\ \A i \in 1 .. Len(S) - 1 : Front(S)[i] = S[i]
  BY <1>0, <1>1 DEF Front
<1>6. f = [g EXCEPT !.stack = Front(@), !.alloc[s] = TRUE, !.frame[s] = FALSE,
                    !.need[s] = TRUE, !.depth[s] = d]
  BY <1>4 DEF Added
<1> HIDE DEF k, s, g, M, f, d, S
<1>7. /\ g \in Engines /\ Linked(g, M) /\ g.depth = e.depth /\ g.alloc = e.alloc
      /\ g.frame = e.frame /\ g.need = e.need /\ g.stack = S
  BY <1>0, <1>1, <1>2, <1>3, LinkedAfterInserts DEF g, M, S
<1>8. d \in MinDepth .. MaxDepth /\ \A x \in MinDepth .. MaxDepth : MinDepth <= x /\ x <= MaxDepth
  BY ListAssumption DEF d
<1>9. /\ f.next = g.next /\ f.prev = g.prev /\ f.stack = Front(S)
      /\ f.alloc = [e.alloc EXCEPT ![s] = TRUE] /\ f.frame = [e.frame EXCEPT ![s] = FALSE]
      /\ f.need = [e.need EXCEPT ![s] = TRUE] /\ f.depth = [e.depth EXCEPT ![s] = d]
  BY <1>6, <1>7 DEF Engines
<1>10. f \in Engines
  BY <1>1, <1>5, <1>6, <1>7, <1>8 DEF Engines
<1>11. /\ M \in Seq(Slots) /\ Len(M) = Len(L) + 1 /\ Distinct(M)
       /\ \A t : Member(M, t) <=> Member(L, t) \/ t = s
  <2>1. M \in Seq(Slots) /\ Len(M) = Len(L) + 1 /\ \A t : Member(M, t) <=> Member(L, t) \/ t = s
    BY <1>0, <1>1, <1>3, WithFacts DEF M
  <2>2. Distinct(M)
    BY <1>0, <1>1, <1>2, <1>3, WithDistinct DEF M
  <2> QED
    BY <2>1, <2>2
<1>12. Linked(f, M)
  BY <1>7, <1>9 DEF Linked
<1>13. \A t \in Slots : f.alloc[t] <=> Member(M, t)
  BY <1>1, <1>9, <1>11 DEF Holds, Engines
<1>14. Distinct(f.stack) /\ \A t \in Slots : ~f.alloc[t] <=> Member(f.stack, t)
  <2>1. Distinct(Front(S))
    BY <1>0, <1>5 DEF Distinct
  <2>2. \A t : Member(Front(S), t) <=> Member(S, t) /\ t # s
    <3>1. ASSUME NEW t, Member(Front(S), t) PROVE Member(S, t) /\ t # s
      <4>1. PICK i \in 1 .. Len(S) - 1 : S[i] = t
        BY <1>5, <3>1 DEF Member
      <4>2. i \in 1 .. Len(S) /\ i # Len(S)
        BY <1>0, <1>1
      <4> QED
        BY <1>0, <1>1, <4>1, <4>2 DEF Member, Distinct
    <3>2. ASSUME NEW t, Member(S, t), t # s PROVE Member(Front(S), t)
      <4>1. PICK i \in 1 .. Len(S) : S[i] = t
        BY <3>2 DEF Member
      <4>2. i \in 1 .. Len(S) - 1
        BY <1>0, <1>1, <3>2, <4>1
      <4> QED
        BY <1>5, <4>1, <4>2 DEF Member
    <3> QED
      BY <3>1, <3>2
  <2>3. \A t \in Slots : ~e.alloc[t] <=> Member(S, t)
    BY DEF Holds, S
  <2> QED
    BY <1>0, <1>1, <1>9, <2>1, <2>2, <2>3 DEF Engines
<1>15. Sorted(f.depth, M)
  <2>1. f.depth \in [Slots -> Int] /\ f.depth[s] = d /\ \A t \in Slots : t # s => f.depth[t] = e.depth[t]
    BY <1>0, <1>1, <1>8, <1>9, ListAssumption DEF Engines
  <2>2. \A i \in 1 .. Len(L) : L[i] # s /\ f.depth[L[i]] = e.depth[L[i]]
    BY <1>0, <1>2, <2>1 DEF Member
  <2>3. Sorted(f.depth, L)
    BY <2>2 DEF Sorted, Holds
  <2>4. \A i \in 1 .. Len(L) : MinDepth <= f.depth[L[i]] /\ f.depth[L[i]] <= MaxDepth
    BY <1>0, <1>8, <2>2 DEF Engines
  <2>5. \A i \in 1 .. k : f.depth[L[i]] <= f.depth[s]
    <3>1. CASE head
      <4>1. k = 0
        BY <3>1 DEF k
      <4> QED
        BY <4>1
    <3>2. CASE ~head
      BY <1>0, <2>1, <2>4, <3>2 DEF d, k
    <3> QED
      BY <3>1, <3>2
  <2>6. \A i \in k + 1 .. Len(L) : f.depth[s] <= f.depth[L[i]]
    <3>1. CASE head
      BY <1>0, <2>1, <2>4, <3>1 DEF d, k
    <3>2. CASE ~head
      <4>1. k = Len(L)
        BY <3>2 DEF k
      <4> QED
        BY <1>0, <4>1
    <3> QED
      BY <3>1, <3>2
  <2> QED
    BY <1>0, <1>1, <1>3, <2>1, <2>3, <2>5, <2>6, SortedWith DEF M
<1>16. Len(f.stack) = Len(S) - 1 /\ Len(M) + Len(f.stack) = MaxSprite
  <2>1. f.stack = Front(S) /\ Len(M) = Len(L) + 1
    BY <1>9, <1>11
  <2>2. Len(f.stack) = Len(S) - 1
    BY <1>5, <2>1
  <2>3. Len(L) \in Nat /\ Len(S) \in Nat /\ Len(L) + Len(S) = MaxSprite
    BY <1>0
  <2> QED
    BY <2>1, <2>2, <2>3
<1>17. Holds(f, M)
  BY <1>10, <1>11, <1>12, <1>13, <1>14, <1>15, <1>16 DEF Holds
<1> QED
  BY <1>1, <1>2, <1>3, <1>9, <1>16, <1>17 DEF f, M, S, s, k

LEMMA ReleasedHolds ==
  ASSUME NEW e, NEW L, Holds(e, L), NEW k \in 1 .. Len(L)
  PROVE  LET f == releaseSprite(e, L[k])
         IN /\ Holds(f, Without(L, k)) /\ Len(f.stack) = Len(e.stack) + 1
            /\ f.alloc = [e.alloc EXCEPT ![L[k]] = FALSE]
            /\ f.frame = e.frame /\ f.need = e.need
            /\ f.next[L[k]] = At(L, k + 1)
<1> DEFINE s == L[k]
           S == e.stack
           g == Unlinked(e, s)
           M == Without(L, k)
           f == releaseSprite(e, s)
<1>0. /\ e \in Engines /\ L \in Seq(Slots) /\ Distinct(L) /\ Linked(e, L)
      /\ S \in Seq(Slots) /\ Distinct(S)
      /\ Len(L) \in Nat /\ Len(S) \in Nat /\ Len(L) + Len(S) = MaxSprite
      /\ \A i \in 1 .. Len(L) : L[i] \in Slots /\ e.alloc[L[i]]
  BY HoldsFacts
<1>1. s \in Slots /\ e.alloc[s] /\ ~Member(S, s)
  BY <1>0 DEF Holds
<1>2. f = [g EXCEPT !.stack = Append(@, s), !.alloc[s] = FALSE, !.depth[s] = MinDepth]
  BY <1>1 DEF releaseSprite
<1>3. /\ g \in Engines /\ Linked(g, M) /\ g.depth = e.depth /\ g.alloc = e.alloc
      /\ g.frame = e.frame /\ g.need = e.need /\ g.stack = S /\ g.next[s] = e.next[s]
  BY <1>0, UnlinkedRemoves
<1>4. e.next[s] = At(L, k + 1)
  <2>1. k \in 0 .. Len(L) /\ At(L, k) = s
    BY <1>0 DEF At
  <2> QED
    BY <1>0, <2>1 DEF Linked
<1>5. /\ M \in Seq(Slots) /\ Len(M) = Len(L) - 1 /\ Distinct(M)
      /\ \A t : Member(M, t) <=> Member(L, t) /\ t # s
  BY <1>0, WithoutFacts
<1>6. Sorted(e.depth, M)
  <2>1. SortedBut(e.depth, L, k)
    BY DEF Holds, Sorted, SortedBut
  <2> QED
    BY <1>0, <2>1, SortedWithout
<1> HIDE DEF s, g, M, f, S
<1>7. /\ f.next = g.next /\ f.prev = g.prev /\ f.stack = Append(S, s)
      /\ f.alloc = [e.alloc EXCEPT ![s] = FALSE] /\ f.frame = e.frame
      /\ f.need = e.need /\ f.depth = [e.depth EXCEPT ![s] = MinDepth]
  BY <1>2, <1>3 DEF Engines
<1>8. f \in Engines
  <2>1. MinDepth \in MinDepth .. MaxDepth
    BY ListAssumption
  <2>2. Append(S, s) \in Seq(Slots)
    BY <1>0, <1>1
  <2> QED
    BY <1>1, <1>2, <1>3, <2>1, <2>2 DEF Engines
<1>9. Linked(f, M)
  BY <1>3, <1>7 DEF Linked
<1>10. \A t \in Slots : f.alloc[t] <=> Member(M, t)
  <2>1. \A t \in Slots : e.alloc[t] <=> Member(L, t)
    BY DEF Holds
  <2>2. \A t \in Slots : f.alloc[t] <=> e.alloc[t] /\ t # s
    BY <1>0, <1>1, <1>7 DEF Engines
  <2> QED
    BY <1>5, <2>1, <2>2
<1>11. /\ Len(f.stack) = Len(S) + 1 /\ f.stack[Len(S) + 1] = s
       /\ \A i \in 1 .. Len(S) : f.stack[i] = S[i]
  BY <1>0, <1>1, <1>7
<1>12. Distinct(f.stack)
  <2> SUFFICES ASSUME NEW i \in 1 .. Len(S) + 1, NEW j \in 1 .. Len(S) + 1,
                      f.stack[i] = f.stack[j]
               PROVE  i = j
    BY <1>11 DEF Distinct
  <2>1. \A n \in 1 .. Len(S) : f.stack[n] # s
    BY <1>1, <1>11 DEF Member
  <2>2. \A n \in 1 .. Len(S) + 1 : n # Len(S) + 1 => n \in 1 .. Len(S)
    BY <1>0
  <2>3. CASE i = Len(S) + 1
    BY <1>11, <2>1, <2>2, <2>3
  <2>4. CASE j = Len(S) + 1
    BY <1>11, <2>1, <2>2, <2>4
  <2>5. CASE i # Len(S) + 1 /\ j # Len(S) + 1
    BY <1>0, <1>11, <2>2, <2>5 DEF Distinct
  <2> QED
    BY <2>3, <2>4, <2>5
<1>13. \A t \in Slots : ~f.alloc[t] <=> Member(f.stack, t)
  <2>1. \A t : Member(f.stack, t) <=> Member(S, t) \/ t = s
    <3>1. ASSUME NEW t, Member(f.stack, t) PROVE Member(S, t) \/ t = s
      <4>1. PICK i \in 1 .. Len(S) + 1 : f.stack[i] = t
        BY <1>11, <3>1 DEF Member
      <4>2. i = Len(S) + 1 \/ i \in 1 .. Len(S)
        BY <1>0
      <4> QED
        BY <1>11, <4>1, <4>2 DEF Member
    <3>2. ASSUME NEW t, Member(S, t) PROVE Member(f.stack, t)
      <4>1. PICK i \in 1 .. Len(S) : S[i] = t
        BY <3>2 DEF Member
      <4>2. i \in 1 .. Len(S) + 1
        BY <1>0
      <4> QED
        BY <1>11, <4>1, <4>2 DEF Member
    <3>3. Member(f.stack, s)
      <4>1. Len(S) + 1 \in 1 .. Len(S) + 1
        BY <1>0
      <4> QED
        BY <1>11, <4>1 DEF Member
    <3> QED
      BY <3>1, <3>2, <3>3
  <2>2. \A t \in Slots : ~e.alloc[t] <=> Member(S, t)
    BY DEF Holds, S
  <2>3. \A t \in Slots : f.alloc[t] <=> e.alloc[t] /\ t # s
    BY <1>0, <1>1, <1>7 DEF Engines
  <2> QED
    BY <2>1, <2>2, <2>3
<1>14. Sorted(f.depth, M)
  <2>1. \A i \in 1 .. Len(M) : M[i] \in Slots /\ M[i] # s
    <3>1. \A i \in 1 .. Len(M) : Member(M, M[i])
      BY DEF Member
    <3> QED
      BY <1>5, <3>1
  <2>2. \A i \in 1 .. Len(M) : f.depth[M[i]] = e.depth[M[i]]
    BY <1>0, <1>7, <2>1 DEF Engines
  <2> QED
    BY <1>6, <2>2 DEF Sorted
<1>15. Len(M) + Len(f.stack) = MaxSprite
  BY <1>0, <1>5, <1>11
<1>16. Holds(f, M)
  BY <1>5, <1>8, <1>9, <1>10, <1>12, <1>13, <1>14, <1>15 DEF Holds
<1> QED
  BY <1>3, <1>4, <1>7, <1>11, <1>16 DEF f, M, s, S

\* A free sprite keeps its pointer when another is added or released.
LEMMA AddedKeeps ==
  ASSUME NEW e, NEW L, Holds(e, L), e.stack # <<>>, NEW head \in BOOLEAN,
         NEW t \in Slots, ~Member(L, t), t # Last(e.stack)
  PROVE  Added(e, head).next[t] = e.next[t]
<1> DEFINE s == Last(e.stack)
           pos == IF head THEN NULL ELSE e.prev[NULL]
           g == LinkedAfter(e, pos, s)
<1>1. e \in Engines /\ L \in Seq(Slots) /\ Distinct(L) /\ e.prev[NULL] = At(L, Len(L))
      /\ Len(L) \in Nat
  BY HoldsFacts
<1>2. t # pos /\ t \in Pointers
  BY <1>1, AtDistinct, SlotFacts
<1>3. g.next = [[e.next EXCEPT ![s] = e.next[pos]] EXCEPT ![pos] = s]
  BY <1>1 DEF LinkedAfter, Engines
<1>4. Added(e, head).next = g.next
  <2>1. Added(e, head) = [g EXCEPT !.stack = Front(@), !.alloc[s] = TRUE, !.frame[s] = FALSE,
                                   !.need[s] = TRUE,
                                   !.depth[s] = IF head THEN MinDepth ELSE MaxDepth]
    BY DEF Added
  <2>2. g = [e EXCEPT !.next = [[e.next EXCEPT ![s] = e.next[pos]] EXCEPT ![pos] = s],
                      !.prev = [[e.prev EXCEPT ![s] = pos] EXCEPT ![e.next[pos]] = s]]
    BY <1>1 DEF LinkedAfter, Engines
  <2> HIDE DEF g, s, pos
  <2> QED
    BY <1>1, <2>1, <2>2 DEF Engines
<1> HIDE DEF g, s, pos
<1> QED
  BY <1>1, <1>2, <1>3, <1>4 DEF Engines, s

LEMMA ReleasedKeeps ==
  ASSUME NEW e, NEW L, Holds(e, L), NEW s \in Slots, Member(L, s),
         NEW t \in Slots, ~Member(L, t)
  PROVE  releaseSprite(e, s).next[t] = e.next[t]
<1>1. /\ e \in Engines /\ L \in Seq(Slots) /\ Distinct(L) /\ Linked(e, L) /\ Len(L) \in Nat
      /\ e.alloc[s]
  BY HoldsFacts DEF Holds
<1>2. PICK k \in 1 .. Len(L) : L[k] = s
  BY DEF Member
<1>3. e.prev[s] = At(L, k - 1)
  <2>1. k \in 1 .. Len(L) + 1 /\ At(L, k) = s
    BY <1>1, <1>2 DEF At
  <2> QED
    BY <1>1, <2>1 DEF Linked
<1>4. t # e.prev[s] /\ t \in Pointers
  <2>1. \A i \in Int : At(L, i) # t
    BY <1>1, AtDistinct
  <2>2. k - 1 \in Int /\ t \in Pointers
    BY SlotFacts
  <2> QED
    BY <1>3, <2>1, <2>2
<1>5. releaseSprite(e, s).next = [e.next EXCEPT ![e.prev[s]] = e.next[s]]
  BY <1>1 DEF releaseSprite, Unlinked, Engines
<1> QED
  BY <1>1, <1>4, <1>5 DEF Engines

LEMMA DepthHolds ==
  ASSUME NEW e, NEW L, Holds(e, L), NEW s \in Slots, e.alloc[s],
         NEW value \in MinDepth .. MaxDepth
  PROVE  LET f == DepthSet(e, s, value)
         IN \E M : /\ Holds(f, M)
                   /\ f.alloc = e.alloc /\ f.frame = e.frame /\ f.need = e.need
<1> DEFINE g == [e EXCEPT !.depth[s] = value]
           f == DepthSet(e, s, value)
<1>0. /\ e \in Engines /\ L \in Seq(Slots) /\ Distinct(L) /\ Linked(e, L)
      /\ e.stack \in Seq(Slots) /\ Distinct(e.stack)
      /\ Len(L) \in Nat /\ Len(e.stack) \in Nat /\ Len(L) + Len(e.stack) = MaxSprite
      /\ Len(L) <= MaxSprite
  BY HoldsFacts, ListedIs
<1>1. CASE e.depth[s] = value
  <2>1. f = e
    BY <1>1 DEF DepthSet
  <2> QED
    BY <2>1
<1>2. CASE e.depth[s] # value
  <2>1. f = sortSprite(g, s)
    BY <1>2 DEF DepthSet
  <2>2. PICK k \in 1 .. Len(L) : L[k] = s
    BY DEF Holds, Member
  <2>3. /\ g \in Engines /\ g.next = e.next /\ g.prev = e.prev /\ g.alloc = e.alloc
        /\ g.frame = e.frame /\ g.need = e.need /\ g.stack = e.stack
        /\ \A t \in Slots : t # s => g.depth[t] = e.depth[t]
    BY <1>0 DEF Engines
  <2> HIDE DEF g, f
  <2>4. Linked(g, L)
    BY <1>0, <2>3 DEF Linked
  <2>5. SortedBut(g.depth, L, k)
    <3>1. \A i \in 1 .. Len(L) : i # k => g.depth[L[i]] = e.depth[L[i]]
      BY <1>0, <2>2, <2>3 DEF Distinct
    <3> QED
      BY <3>1 DEF Holds, Sorted, SortedBut
  <2>6. PICK M : Rearranged(g, f, L, M) /\ Sorted(g.depth, M)
    BY <1>0, <2>1, <2>2, <2>3, <2>4, <2>5, SortSorts
  <2>7. Holds(f, M)
    BY <1>0, <2>3, <2>6 DEF Holds, Rearranged
  <2> QED
    BY <2>3, <2>6, <2>7 DEF Rearranged, f
<1> QED
  BY <1>1, <1>2

-----------------------------------------------------------------------------
(* The list: every step *)

LEMMA CalledFacts ==
  ASSUME upd \in Passes, MayCall
  PROVE  LET v == Called(upd)
         IN /\ v \in Passes /\ v.pc = upd.pc /\ v.cur = upd.cur /\ v.satInd = upd.satInd
            /\ v.walked = upd.walked /\ v.there = upd.there
            /\ v.stray = upd.stray /\ v.retaken = upd.retaken
<1>1. CASE upd.pc = "callback"
  <2>1. upd.calls + 1 \in 0 .. CallbackCalls
    BY <1>1, ListAssumption DEF MayCall, Passes
  <2> QED
    BY <1>1, <2>1 DEF Called, Passes
<1>2. CASE upd.pc # "callback"
  BY <1>2 DEF Called
<1> QED
  BY <1>1, <1>2

LEMMA StrayedFacts ==
  ASSUME NEW u \in Passes
  PROVE  LET v == Strayed(u)
         IN /\ v \in Passes /\ v.pc = u.pc /\ v.cur = u.cur /\ v.satInd = u.satInd
            /\ v.there = {} /\ v.stray /\ v.retaken = u.retaken
<1> DEFINE v == [u EXCEPT !.stray = TRUE, !.there = {}, !.walked = <<>>]
<1>1. <<>> \in Seq(Slots)
  OBVIOUS
<1>2. /\ v \in Passes /\ v.pc = u.pc /\ v.cur = u.cur /\ v.satInd = u.satInd
      /\ v.there = {} /\ v.stray = TRUE /\ v.retaken = u.retaken
  BY <1>1 DEF Passes
<1> QED
  BY <1>2 DEF Strayed

\* What the two calls of a callback that the pass has to bear do to it.
LEMMA AddingFacts ==
  ASSUME upd \in Passes, NEW head \in BOOLEAN, SPR_addSprite(head),
         NEW s \in Slots, s = Last(eng.stack)
  PROVE  /\ upd' \in Passes /\ upd'.pc = upd.pc /\ upd'.cur = upd.cur
         /\ upd'.satInd = upd.satInd /\ upd'.there \subseteq upd.there
         /\ upd.retaken \subseteq upd'.retaken
         /\ CurReleased /\ s = upd.cur => s \in upd'.retaken
         /\ ~upd'.stray => /\ ~upd.stray /\ ~(CurReleased /\ s = upd.cur)
                            /\ upd'.walked = upd.walked /\ upd'.there = upd.there
<1> DEFINE c == Called(upd)
           d == Strayed(c)
<1>1. /\ c \in Passes /\ c.pc = upd.pc /\ c.cur = upd.cur /\ c.satInd = upd.satInd
      /\ c.walked = upd.walked /\ c.there = upd.there
      /\ c.stray = upd.stray /\ c.retaken = upd.retaken
  BY CalledFacts DEF SPR_addSprite
<1>2. /\ d \in Passes /\ d.pc = upd.pc /\ d.cur = upd.cur /\ d.satInd = upd.satInd
      /\ d.there = {} /\ d.stray /\ d.retaken = upd.retaken
  <2> HIDE DEF c
  <2> QED
    BY <1>1, StrayedFacts
<1>3. upd' = IF CurReleased /\ s = upd.cur
             THEN [d EXCEPT !.retaken = @ \cup {upd.cur}] ELSE c
  BY DEF SPR_addSprite
<1> HIDE DEF c, d
<1>4. CASE CurReleased /\ s = upd.cur
  <2>1. upd' = [d EXCEPT !.retaken = @ \cup {s}]
    BY <1>3, <1>4
  <2> QED
    BY <1>2, <1>4, <2>1 DEF Passes
<1>5. CASE ~(CurReleased /\ s = upd.cur)
  BY <1>1, <1>3, <1>5
<1> QED
  BY <1>4, <1>5

LEMMA ReleasingFacts ==
  ASSUME upd \in Passes, NEW s \in Slots, SPR_releaseSprite(s)
  PROVE  /\ upd' \in Passes /\ upd'.pc = upd.pc /\ upd'.cur = upd.cur
         /\ upd'.satInd = upd.satInd /\ upd'.there \subseteq upd.there \ {s}
         /\ upd'.retaken = upd.retaken \ {s}
         /\ ~upd'.stray => /\ ~upd.stray /\ ~(CurReleased /\ eng.next[upd.cur] = s)
                            /\ upd'.walked = upd.walked /\ upd'.there = upd.there \ {s}
<1> DEFINE c == Called(upd)
           d == [c EXCEPT !.there = @ \ {s}, !.retaken = @ \ {s}]
<1>1. /\ c \in Passes /\ c.pc = upd.pc /\ c.cur = upd.cur /\ c.satInd = upd.satInd
      /\ c.walked = upd.walked /\ c.there = upd.there
      /\ c.stray = upd.stray /\ c.retaken = upd.retaken
  BY CalledFacts DEF SPR_releaseSprite
<1>2. /\ d \in Passes /\ d.pc = upd.pc /\ d.cur = upd.cur /\ d.satInd = upd.satInd
      /\ d.walked = upd.walked /\ d.there = upd.there \ {s}
      /\ d.stray = upd.stray /\ d.retaken = upd.retaken \ {s}
  <2> HIDE DEF c
  <2> QED
    BY <1>1 DEF Passes
<1>3. upd' = IF CurReleased /\ eng.next[upd.cur] = s THEN Strayed(d) ELSE d
  BY DEF SPR_releaseSprite
<1> HIDE DEF c, d
<1>4. CASE CurReleased /\ eng.next[upd.cur] = s
  <2>1. upd' = Strayed(d)
    BY <1>3, <1>4
  <2> QED
    BY <1>2, <2>1, StrayedFacts
<1>5. CASE ~(CurReleased /\ eng.next[upd.cur] = s)
  BY <1>2, <1>3, <1>5
<1> QED
  BY <1>4, <1>5

LEMMA WrittenFits ==
  ASSUME NEW e, NEW u \in Passes, NEW shown \in BOOLEAN, NEW n \in 1 .. MaxNumSprite
  PROVE  /\ Written(e, u, shown, n) \in Nat
         /\ u.satInd < SatMax + MaxNumSprite
              => u.satInd + Written(e, u, shown, n) < SatMax + MaxNumSprite
<1>1. SatMax \in Nat /\ MaxNumSprite \in Nat /\ u.satInd \in Nat /\ n \in Nat /\ n <= MaxNumSprite
  BY ListAssumption DEF Passes
<1>2. \/ Written(e, u, shown, n) = n /\ u.satInd + 1 <= SatMax
      \/ Written(e, u, shown, n) = 0
  BY DEF Written
<1> QED
  BY <1>1, <1>2

LEMMA AdvancedFacts ==
  ASSUME NEW e, e \in Engines, NEW u \in Passes, u.cur # NULL, NEW shown \in BOOLEAN,
         NEW n \in 1 .. MaxNumSprite
  PROVE  LET v == Advanced(e, u, shown, n)
         IN /\ v \in Passes /\ v.pc = "visit" /\ v.cur = e.next[u.cur]
            /\ v.walked = Walked(u) /\ v.there = u.there
            /\ v.stray = u.stray /\ v.retaken = u.retaken
            /\ v.satInd = u.satInd + Written(e, u, shown, n)
<1>1. u.cur \in Slots /\ u.walked \in Seq(Slots) /\ e.next[u.cur] \in Pointers
  BY SlotFacts DEF Passes, Engines
<1>2. Walked(u) \in Seq(Slots)
  BY <1>1 DEF Walked
<1>3. u.satInd + Written(e, u, shown, n) \in Nat
  BY WrittenFits DEF Passes
<1>4. 0 \in 0 .. CallbackCalls
  BY ListAssumption
<1> QED
  BY <1>1, <1>2, <1>3, <1>4 DEF Advanced, Passes

LEMMA FrameSetHolds ==
  ASSUME NEW e, NEW L, Holds(e, L), NEW s \in Slots
  PROVE  /\ Holds(FrameSet(e, s), L)
         /\ FrameSet(e, s).alloc = e.alloc /\ FrameSet(e, s).stack = e.stack
         /\ FrameSet(e, s).next = e.next
         /\ FrameSet(e, s).frame = [e.frame EXCEPT ![s] = TRUE]
         /\ FrameSet(e, s).need = [e.need EXCEPT ![s] = TRUE]
<1> DEFINE f == FrameSet(e, s)
<1>1. e \in Engines
  BY DEF Holds
<1>2. /\ f \in Engines /\ f.next = e.next /\ f.prev = e.prev /\ f.depth = e.depth
      /\ f.alloc = e.alloc /\ f.stack = e.stack
      /\ f.frame = [e.frame EXCEPT ![s] = TRUE] /\ f.need = [e.need EXCEPT ![s] = TRUE]
  BY <1>1 DEF FrameSet, Engines
<1> HIDE DEF f
<1>3. Holds(f, L)
  BY <1>2, SameHolds
<1> QED
  BY <1>2, <1>3 DEF f

LEMMA ReturnHolds ==
  ASSUME NEW e, NEW L, Holds(e, L), NEW s \in Slots
  PROVE  LET f == [e EXCEPT !.need[s] = FALSE]
         IN /\ Holds(f, L)
            /\ f.alloc = e.alloc /\ f.stack = e.stack /\ f.next = e.next
            /\ f.frame = e.frame /\ f.need = [e.need EXCEPT ![s] = FALSE]
<1> DEFINE f == [e EXCEPT !.need[s] = FALSE]
<1>1. e \in Engines
  BY DEF Holds
<1>2. /\ f \in Engines /\ f.next = e.next /\ f.prev = e.prev /\ f.depth = e.depth
      /\ f.alloc = e.alloc /\ f.stack = e.stack
      /\ f.frame = e.frame /\ f.need = [e.need EXCEPT ![s] = FALSE]
  BY <1>1 DEF Engines
<1> HIDE DEF f
<1>3. Holds(f, L)
  BY <1>2, SameHolds
<1> QED
  BY <1>2, <1>3 DEF f

LEMMA IdlePasses ==
  /\ Idle \in Passes
  /\ Idle.pc = "idle" /\ Idle.satInd = 0 /\ Idle.there = {} /\ Idle.retaken = {}
<1>1. 0 \in 0 .. CallbackCalls /\ <<>> \in Seq(Slots)
  BY ListAssumption
<1> QED
  BY <1>1, SlotFacts DEF Idle, Passes

LEMMA ListInit ==
  ASSUME Init PROVE LInv
<1>1. Holds(eng, <<>>)
  BY ResetHolds DEF Init
<1>2. Listed(eng) = <<>>
  BY <1>1, ListedIs
<1>3. upd.pc = "idle"
  BY DEF Init, Idle
<1> QED
  BY <1>1, <1>2, <1>3, IdlePasses DEF Init, LInv

LEMMA ListStep ==
  ASSUME LInv, [Next]_vars PROVE LInv'
<1> DEFINE L == Listed(eng)
<1>0. Holds(eng, L) /\ upd \in Passes /\ (upd.pc = "callback" => upd.cur # NULL)
  BY DEF LInv
<1>a. eng \in Engines /\ L \in Seq(Slots) /\ \A i \in 1 .. Len(L) : L[i] \in Slots
  BY <1>0, HoldsFacts
<1>b. \A M : Holds(eng', M) => Holds(eng', Listed(eng'))
  BY ListedIs
<1> HIDE DEF L
<1>1. ASSUME NEW head \in BOOLEAN, SPR_addSprite(head) PROVE LInv'
  <2>1. Last(eng.stack) \in Slots /\ \E M : Holds(eng', M)
    BY <1>0, <1>1, AddedHolds DEF SPR_addSprite
  <2>2. upd' \in Passes /\ upd'.pc = upd.pc /\ upd'.cur = upd.cur
    BY <1>0, <1>1, <2>1, AddingFacts
  <2> QED
    BY <1>0, <1>b, <2>1, <2>2 DEF LInv
<1>2. ASSUME NEW s \in Slots, SPR_releaseSprite(s) PROVE LInv'
  <2>1. PICK k \in 1 .. Len(L) : L[k] = s
    BY <1>0, <1>2 DEF SPR_releaseSprite, Holds, Member
  <2>2. \E M : Holds(eng', M)
    BY <1>0, <1>2, <2>1, ReleasedHolds DEF SPR_releaseSprite
  <2>3. upd' \in Passes /\ upd'.pc = upd.pc /\ upd'.cur = upd.cur
    BY <1>0, <1>2, ReleasingFacts
  <2> QED
    BY <1>0, <1>b, <2>2, <2>3 DEF LInv
<1>3. ASSUME NEW s \in Slots, NEW value \in MinDepth .. MaxDepth, SPR_setDepth(s, value)
      PROVE  LInv'
  <2>1. \E M : Holds(eng', M)
    BY <1>0, <1>3, DepthHolds DEF SPR_setDepth
  <2> QED
    BY <1>0, <1>3, <1>b, <2>1, CalledFacts DEF SPR_setDepth, LInv
<1>4. ASSUME SPR_reset PROVE LInv'
  BY <1>4, <1>b, ResetHolds, IdlePasses DEF SPR_reset, LInv
<1>5. ASSUME SPR_update PROVE LInv'
  <2>1. eng' = eng /\ upd'.pc = "visit"
    BY <1>5 DEF SPR_update, Idle
  <2>2. upd' \in Passes
    <3>1. eng.next[NULL] \in Pointers /\ <<>> \in Seq(Slots) /\ 0 \in 0 .. CallbackCalls
      BY <1>a, ListAssumption, SlotFacts DEF Engines
    <3>2. ToSet(L) \subseteq Slots
      BY <1>a DEF ToSet
    <3> QED
      BY <1>0, <1>5, <3>1, <3>2 DEF SPR_update, Idle, Passes, L
  <2> QED
    BY <1>0, <1>b, <2>1, <2>2 DEF LInv
<1>6. ASSUME Visit PROVE LInv'
  <2>0. upd.pc = "visit" /\ upd.cur # NULL /\ upd.cur \in Slots
    BY <1>0, <1>6, SlotFacts DEF Visit, Passes
  <2> DEFINE u == [upd EXCEPT !.retaken = @ \ {upd.cur}]
  <2>u. u \in Passes /\ u.cur = upd.cur /\ u.pc = upd.pc
    BY <1>0 DEF Passes
  <2>1. PICK elapsed \in BOOLEAN, delayed \in BOOLEAN, shown \in BOOLEAN, n \in 1 .. MaxNumSprite :
          IF ~eng.need[upd.cur] /\ ~elapsed
          THEN upd' = Advanced(eng, upd, shown, n) /\ UNCHANGED eng
          ELSE /\ eng' = FrameSet(eng, upd.cur)
               /\ upd' = IF delayed THEN Advanced(eng', u, shown, n)
                         ELSE [u EXCEPT !.pc = "callback"]
    BY <1>6 DEF Visit
  <2> HIDE DEF u
  <2>2. Holds(eng', L) /\ eng' \in Engines
    <3>1. eng' = eng \/ eng' = FrameSet(eng, upd.cur)
      BY <2>1
    <3>2. Holds(FrameSet(eng, upd.cur), L)
      BY <1>0, <2>0, FrameSetHolds
    <3>3. Holds(eng', L)
      BY <1>0, <3>1, <3>2
    <3> QED
      BY <3>3, HoldsFacts
  <2>3. CASE upd' = Advanced(eng', upd, shown, n)
    BY <1>0, <1>b, <2>0, <2>2, <2>3, AdvancedFacts DEF LInv
  <2>4. CASE upd' = [u EXCEPT !.pc = "callback"]
    <3>1. upd' \in Passes /\ upd'.cur = upd.cur
      BY <2>4, <2>u DEF Passes
    <3> QED
      BY <1>b, <2>0, <2>2, <3>1 DEF LInv
  <2>5. CASE upd' = Advanced(eng', u, shown, n)
    BY <1>b, <2>0, <2>2, <2>5, <2>u, AdvancedFacts DEF LInv
  <2> QED
    BY <2>1, <2>3, <2>4, <2>5
<1>7. ASSUME CallbackReturns PROVE LInv'
  <2>0. upd.cur # NULL /\ upd.cur \in Slots
    BY <1>0, <1>7, SlotFacts DEF CallbackReturns, Passes
  <2>1. PICK shown \in BOOLEAN, n \in 1 .. MaxNumSprite : upd' = Advanced(eng', upd, shown, n)
    BY <1>7 DEF CallbackReturns
  <2>2. eng' = [eng EXCEPT !.need[upd.cur] = FALSE]
    BY <1>7 DEF CallbackReturns
  <2>3. Holds(eng', L) /\ eng' \in Engines
    BY <1>0, <2>0, <2>2, ReturnHolds, HoldsFacts
  <2> QED
    BY <1>0, <1>b, <2>0, <2>1, <2>3, AdvancedFacts DEF LInv
<1>8. ASSUME UpdateEnds PROVE LInv'
  <2>1. upd' = [Idle EXCEPT !.retaken = upd.retaken] /\ eng' = eng
    BY <1>8 DEF UpdateEnds
  <2>2. upd' \in Passes /\ upd'.pc = "idle"
    BY <1>0, <2>1, IdlePasses DEF Passes
  <2> QED
    BY <1>0, <1>b, <2>1, <2>2 DEF LInv
<1>9. ASSUME UNCHANGED vars PROVE LInv'
  <2>1. eng' = eng /\ upd' = upd
    BY <1>9 DEF vars
  <2> QED
    BY <1>0, <1>b, <2>1 DEF LInv
<1> QED
  BY <1>1, <1>2, <1>3, <1>4, <1>5, <1>6, <1>7, <1>8, <1>9 DEF Next, Update

LEMMA ListMeans ==
  ASSUME LInv PROVE ListStaysSorted
<1> DEFINE L == Listed(eng)
           e == eng
<1>0. Holds(e, L) /\ upd \in Passes
  BY DEF LInv
<1>1. /\ e \in Engines /\ L \in Seq(Slots) /\ Distinct(L) /\ Linked(e, L)
      /\ e.stack \in Seq(Slots) /\ Len(L) \in Nat /\ Len(L) <= MaxSprite
      /\ Len(L) + Len(e.stack) = MaxSprite /\ e.prev[NULL] = At(L, Len(L))
      /\ (\A i \in 1 .. Len(L) : L[i] \in Slots)
      /\ DOMAIN L = 1 .. Len(L) /\ DOMAIN e.stack = 1 .. Len(e.stack)
      /\ (\A i \in 1 .. Len(e.stack) : e.stack[i] \in Slots)
  BY <1>0, HoldsFacts, ListedIs
<1>2. TypeOK
  BY <1>0, <1>1 DEF TypeOK, Engines, Passes
<1> HIDE DEF L
<1>3. L = Reverse(Follow(e.prev, e.prev[NULL]))
  <2> DEFINE n == Len(L)
             Q == Back(L, n)
  <2>1. Follow(e.prev, e.prev[NULL]) = Q
    BY <1>1, HoldsFollow
  <2>2. n \in Nat /\ \A i \in 1 .. n : n - i + 1 \in 1 .. n /\ n - (n - i + 1) + 1 = i
    BY <1>1
  <2> HIDE DEF n
  <2>3. Q \in Seq(Slots) /\ Len(Q) = n /\ \A i \in 1 .. n : Q[i] = L[n - i + 1]
    BY <1>1, <2>2 DEF Back, n
  <2> HIDE DEF Q
  <2>4. \A i \in 1 .. n : Q[(n - i) + 1] = L[i]
    BY <2>2, <2>3
  <2>5. Reverse(Q) = [i \in 1 .. n |-> L[i]]
    BY <2>3, <2>4 DEF Reverse
  <2> QED
    BY <1>1, <2>1, <2>5 DEF n
<1>4. ToSet(L) = {s \in Slots : e.alloc[s]}
  <2>1. ToSet(L) = {s \in Slots : Member(L, s)}
    BY <1>1 DEF ToSet, Member
  <2> QED
    BY <1>0, <2>1 DEF Holds
<1>5. ToSet(e.stack) = {s \in Slots : ~e.alloc[s]}
  <2>1. ToSet(e.stack) = {s \in Slots : Member(e.stack, s)}
    BY <1>1 DEF ToSet, Member
  <2> QED
    BY <1>0, <2>1 DEF Holds
<1>6. ListIsSound
  BY <1>1, <1>3, <1>4, <1>5 DEF ListIsSound, L
<1>7. SortedByDepth
  BY <1>0, <1>1 DEF SortedByDepth, Holds, Sorted, L
<1> QED
  BY <1>2, <1>6, <1>7 DEF ListStaysSorted

\* The list is whole and sorted between any two calls, whatever the program and
\* its frame change callbacks add, release and sort (allocateSprite,
\* releaseSprite, moveAfter, sortSprite): both directions agree, every sprite is
\* in the list or free, depths never fall.
THEOREM SpriteListSorted == Spec => []ListStaysSorted
<1>1. Init => LInv
  BY ListInit
<1>2. LInv /\ [Next]_vars => LInv'
  BY ListStep
<1>3. LInv => ListStaysSorted
  BY ListMeans
<1> QED
  BY <1>1, <1>2, <1>3, PTL DEF Spec

-----------------------------------------------------------------------------
(* The frames: every step *)

LEMMA FrameStep ==
  ASSUME LInv, FInv, [Next]_vars PROVE FInv'
<1> DEFINE L == Listed(eng)
<1>0. /\ Holds(eng, L) /\ eng \in Engines /\ upd \in Passes
      /\ (upd.pc = "callback" => upd.cur \in Slots)
  BY HoldsFacts, SlotFacts DEF LInv, Passes
<1>f. FInv
  OBVIOUS
<1> HIDE DEF L
<1>1. ASSUME NEW head \in BOOLEAN, SPR_addSprite(head) PROVE FInv'
  <2> DEFINE s == Last(eng.stack)
  <2>1. /\ s \in Slots /\ ~eng.alloc[s]
        /\ eng'.alloc = [eng.alloc EXCEPT ![s] = TRUE]
        /\ eng'.frame = [eng.frame EXCEPT ![s] = FALSE]
        /\ eng'.need = [eng.need EXCEPT ![s] = TRUE]
    BY <1>0, <1>1, AddedHolds DEF SPR_addSprite
  <2>2. /\ upd'.pc = upd.pc /\ upd'.cur = upd.cur /\ upd.retaken \subseteq upd'.retaken
        /\ (CurReleased /\ s = upd.cur => s \in upd'.retaken)
    BY <1>0, <1>1, <2>1, AddingFacts
  <2> HIDE DEF s
  <2>3. \A t \in Slots :
          IF t = s THEN eng'.need[t]
          ELSE /\ (eng'.alloc[t] <=> eng.alloc[t]) /\ (eng'.frame[t] <=> eng.frame[t])
               /\ (eng'.need[t] <=> eng.need[t])
    BY <1>0, <2>1 DEF Engines
  <2>4. \A t \in Slots \ upd'.retaken : eng'.alloc[t] /\ ~eng'.frame[t] => eng'.need[t]
    BY <1>f, <2>2, <2>3 DEF FInv
  <2>5. ASSUME upd'.pc = "callback", eng'.alloc[upd'.cur], upd'.cur \notin upd'.retaken
        PROVE  eng'.frame[upd'.cur]
    <3>1. upd.cur # s
      BY <2>1, <2>2, <2>5 DEF CurReleased
    <3> QED
      BY <1>0, <1>f, <2>2, <2>3, <2>5, <3>1 DEF FInv
  <2> QED
    BY <2>4, <2>5 DEF FInv
<1>2. ASSUME NEW s \in Slots, SPR_releaseSprite(s) PROVE FInv'
  <2>1. PICK k \in 1 .. Len(L) : L[k] = s
    BY <1>0, <1>2 DEF SPR_releaseSprite, Holds, Member
  <2>2. /\ eng'.alloc = [eng.alloc EXCEPT ![s] = FALSE]
        /\ eng'.frame = eng.frame /\ eng'.need = eng.need
    BY <1>0, <1>2, <2>1, ReleasedHolds DEF SPR_releaseSprite
  <2>3. upd'.pc = upd.pc /\ upd'.cur = upd.cur /\ upd'.retaken = upd.retaken \ {s}
    BY <1>0, <1>2, ReleasingFacts
  <2>4. \A t \in Slots : eng'.alloc[t] <=> eng.alloc[t] /\ t # s
    BY <1>0, <2>2 DEF Engines
  <2> QED
    BY <1>0, <1>f, <2>2, <2>3, <2>4 DEF FInv
<1>3. ASSUME NEW s \in Slots, NEW value \in MinDepth .. MaxDepth, SPR_setDepth(s, value)
      PROVE  FInv'
  <2>1. eng'.alloc = eng.alloc /\ eng'.frame = eng.frame /\ eng'.need = eng.need
    BY <1>0, <1>3, DepthHolds DEF SPR_setDepth
  <2>2. upd'.pc = upd.pc /\ upd'.cur = upd.cur /\ upd'.retaken = upd.retaken
    BY <1>0, <1>3, CalledFacts DEF SPR_setDepth
  <2> QED
    BY <1>f, <2>1, <2>2 DEF FInv
<1>4. ASSUME SPR_reset PROVE FInv'
  <2>1. upd'.pc = "idle" /\ \A t \in Slots : ~eng'.alloc[t]
    BY <1>4, IdlePasses DEF SPR_reset, ResetEngine
  <2> QED
    BY <2>1 DEF FInv
<1>5. ASSUME SPR_update PROVE FInv'
  <2>1. eng' = eng /\ upd'.pc = "visit" /\ upd'.retaken = upd.retaken
    BY <1>5 DEF SPR_update, Idle
  <2> QED
    BY <1>f, <2>1 DEF FInv
<1>6. ASSUME Visit PROVE FInv'
  <2> DEFINE c == upd.cur
             u == [upd EXCEPT !.retaken = @ \ {c}]
  <2>0. c # NULL /\ c \in Slots
    BY <1>0, <1>6, SlotFacts DEF Visit, Passes
  <2>u. /\ u \in Passes /\ u.cur = c /\ u.retaken = upd.retaken \ {c}
        /\ [u EXCEPT !.pc = "callback"].pc = "callback"
        /\ [u EXCEPT !.pc = "callback"].cur = c
        /\ [u EXCEPT !.pc = "callback"].retaken = upd.retaken \ {c}
    BY <1>0 DEF Passes
  <2>1. PICK elapsed \in BOOLEAN, delayed \in BOOLEAN, shown \in BOOLEAN, n \in 1 .. MaxNumSprite :
          IF ~eng.need[c] /\ ~elapsed
          THEN upd' = Advanced(eng, upd, shown, n) /\ UNCHANGED eng
          ELSE /\ eng' = FrameSet(eng, c)
               /\ upd' = IF delayed THEN Advanced(eng', u, shown, n)
                         ELSE [u EXCEPT !.pc = "callback"]
    BY <1>6 DEF Visit
  <2> HIDE DEF u
  <2>2. CASE upd' = Advanced(eng, upd, shown, n) /\ eng' = eng
    <3>1. upd'.pc = "visit" /\ upd'.retaken = upd.retaken
      BY <1>0, <2>0, <2>2, AdvancedFacts
    <3> QED
      BY <1>f, <2>2, <3>1 DEF FInv
  <2>3. CASE eng' = FrameSet(eng, c)
    <3>1. /\ Holds(eng', L) /\ eng'.alloc = eng.alloc
          /\ eng'.frame = [eng.frame EXCEPT ![c] = TRUE]
          /\ eng'.need = [eng.need EXCEPT ![c] = TRUE]
      BY <1>0, <2>0, <2>3, FrameSetHolds
    <3>2. eng'.frame[c] /\ \A t \in Slots : t # c => (eng'.frame[t] <=> eng.frame[t])
                                                    /\ (eng'.need[t] <=> eng.need[t])
      BY <1>0, <2>0, <3>1 DEF Engines
    <3>3. \/ upd' = Advanced(eng', u, shown, n)
          \/ upd' = [u EXCEPT !.pc = "callback"]
          \/ upd' = Advanced(eng', upd, shown, n)
      BY <2>1
    <3>4. eng' \in Engines
      BY <3>1, HoldsFacts
    <3>5. /\ upd.retaken \ {c} \subseteq upd'.retaken
          /\ upd'.pc = "callback" => upd'.cur = c
      <4>1. CASE upd' = Advanced(eng', u, shown, n)
        <5>1. upd'.pc = "visit" /\ upd'.retaken = u.retaken
          BY <2>0, <2>u, <3>4, <4>1, AdvancedFacts
        <5> QED
          BY <2>u, <5>1
      <4>2. CASE upd' = Advanced(eng', upd, shown, n)
        <5>1. upd'.pc = "visit" /\ upd'.retaken = upd.retaken
          BY <1>0, <2>0, <3>4, <4>2, AdvancedFacts
        <5> QED
          BY <5>1
      <4>3. CASE upd' = [u EXCEPT !.pc = "callback"]
        BY <2>u, <4>3
      <4> QED
        BY <3>3, <4>1, <4>2, <4>3
    <3>6. \A t \in Slots \ upd'.retaken : eng'.alloc[t] /\ ~eng'.frame[t] => eng'.need[t]
      BY <1>f, <3>1, <3>2, <3>5 DEF FInv
    <3> QED
      BY <3>2, <3>5, <3>6 DEF FInv
  <2> QED
    BY <2>1, <2>2, <2>3
<1>7. ASSUME CallbackReturns PROVE FInv'
  <2>0. upd.pc = "callback" /\ upd.cur \in Slots /\ upd.cur # NULL
    BY <1>0, <1>7, SlotFacts DEF CallbackReturns
  <2>1. PICK shown \in BOOLEAN, n \in 1 .. MaxNumSprite : upd' = Advanced(eng', upd, shown, n)
    BY <1>7 DEF CallbackReturns
  <2>2. eng' = [eng EXCEPT !.need[upd.cur] = FALSE]
    BY <1>7 DEF CallbackReturns
  <2>3. /\ Holds(eng', L) /\ eng'.alloc = eng.alloc /\ eng'.frame = eng.frame
        /\ eng'.need = [eng.need EXCEPT ![upd.cur] = FALSE]
    BY <1>0, <2>0, <2>2, ReturnHolds
  <2>4. upd'.pc = "visit" /\ upd'.retaken = upd.retaken
    BY <1>0, <2>0, <2>1, <2>3, AdvancedFacts, HoldsFacts
  <2>5. \A t \in Slots : t # upd.cur => (eng'.need[t] <=> eng.need[t])
    BY <1>0, <2>0, <2>3 DEF Engines
  <2> QED
    BY <1>f, <2>0, <2>3, <2>4, <2>5 DEF FInv
<1>8. ASSUME UpdateEnds PROVE FInv'
  <2>1. upd' = [Idle EXCEPT !.retaken = upd.retaken] /\ eng' = eng
    BY <1>8 DEF UpdateEnds
  <2>2. upd'.pc = "idle" /\ upd'.retaken = upd.retaken
    BY <1>0, <2>1, IdlePasses DEF Passes
  <2> QED
    BY <1>f, <2>1, <2>2 DEF FInv
<1>9. ASSUME UNCHANGED vars PROVE FInv'
  BY <1>9, <1>f DEF vars, FInv
<1> QED
  BY <1>1, <1>2, <1>3, <1>4, <1>5, <1>6, <1>7, <1>8, <1>9 DEF Next, Update

\* SPR_update never meets a sprite in use without a frame and without a request
\* for one, whatever the program and its callbacks call: the request that
\* updateFrame clears after the callback is that of the sprite whose frame it
\* has set, unless the callback released that sprite and added it again.
THEOREM SpriteListFrames == Spec => []NoFrameIsPending
<1>1. Init => LInv /\ FInv
  <2> SUFFICES ASSUME Init PROVE FInv
    BY ListInit
  <2>1. upd.pc = "idle" /\ \A s \in Slots : ~eng.alloc[s]
    BY DEF Init, Idle, ResetEngine
  <2> QED
    BY <2>1 DEF FInv
<1>2. LInv /\ FInv /\ [Next]_vars => LInv' /\ FInv'
  BY ListStep, FrameStep
<1>3. FInv => NoFrameIsPending
  BY DEF FInv, NoFrameIsPending
<1> QED
  BY <1>1, <1>2, <1>3, PTL DEF Spec

-----------------------------------------------------------------------------
(* What a pass has seen *)

\* Seen is about the places of T2 among the first p of L, of which the function
\* `to' says where they are among the first p2 of M.
LEMMA SeenMoves ==
  ASSUME NEW L, NEW p \in Nat, NEW M, NEW p2 \in Nat, NEW w, NEW T, NEW T2,
         T2 \subseteq T, Seen(L, p, w, T),
         \A i \in 1 .. p2 : M[i] \in T2 => \E j \in 1 .. p : L[j] = M[i],
         NEW to, \A i \in 1 .. p : L[i] \in T2 => to[i] \in 1 .. p2 /\ M[to[i]] = L[i],
         \A i, j \in 1 .. p : i < j /\ L[i] \in T2 /\ L[j] \in T2 => to[i] < to[j]
  PROVE  Seen(M, p2, w, T2)
<1>1. ASSUME NEW i \in 1 .. p2, M[i] \in T2 PROVE Member(w, M[i])
  BY <1>1 DEF Seen
<1>2. ASSUME NEW k \in 1 .. Len(w), w[k] \in T2 PROVE \E i \in 1 .. p2 : M[i] = w[k]
  <2>1. PICK j \in 1 .. p : L[j] = w[k]
    BY <1>2 DEF Seen
  <2> QED
    BY <1>2, <2>1
<1>3. ASSUME NEW k \in 1 .. Len(w), NEW l \in 1 .. Len(w), k < l, w[k] \in T2, w[l] \in T2
      PROVE  \E i, j \in 1 .. p2 : i < j /\ M[i] = w[k] /\ M[j] = w[l]
  <2>1. PICK i \in 1 .. p, j \in 1 .. p : i < j /\ L[i] = w[k] /\ L[j] = w[l]
    BY <1>3 DEF Seen
  <2>2. /\ to[i] \in 1 .. p2 /\ to[j] \in 1 .. p2 /\ to[i] < to[j]
        /\ M[to[i]] = w[k] /\ M[to[j]] = w[l]
    BY <1>3, <2>1
  <2> QED
    BY <2>2
<1> QED
  BY <1>1, <1>2, <1>3 DEF Seen

\* One more sprite visited: the next of the list.
LEMMA SeenGrows ==
  ASSUME NEW L \in Seq(Slots), NEW p \in Nat, p < Len(L), NEW w \in Seq(Slots), NEW T,
         Seen(L, p, w, T)
  PROVE  Seen(L, p + 1, Append(w, L[p + 1]), T)
<1> DEFINE c == L[p + 1]
           v == Append(w, c)
           n == Len(w)
<1>0. p + 1 \in 1 .. Len(L) /\ c \in Slots /\ Len(L) \in Nat
  OBVIOUS
<1>1. n \in Nat /\ Len(v) = n + 1 /\ v[n + 1] = c /\ \A k \in 1 .. n : v[k] = w[k]
  BY <1>0
<1> HIDE DEF c, v, n
<1>2. \A k \in 1 .. n + 1 : k = n + 1 \/ k \in 1 .. n
  BY <1>1
<1>3. \A i \in 1 .. p + 1 : i = p + 1 \/ i \in 1 .. p
  OBVIOUS
<1>4. \A i \in 1 .. p : i \in 1 .. p + 1 /\ i < p + 1
  OBVIOUS
<1>5. Member(v, c) /\ \A t : Member(w, t) => Member(v, t)
  <2>1. n + 1 \in 1 .. n + 1 /\ \A k \in 1 .. n : k \in 1 .. n + 1
    BY <1>1
  <2> QED
    BY <1>1, <2>1 DEF Member, n
<1>6. ASSUME NEW i \in 1 .. p + 1, L[i] \in T PROVE Member(v, L[i])
  BY <1>3, <1>5, <1>6 DEF Seen, c
<1>7. ASSUME NEW k \in 1 .. n + 1, v[k] \in T PROVE \E i \in 1 .. p + 1 : L[i] = v[k]
  <2>1. CASE k = n + 1
    <3>1. p + 1 \in 1 .. p + 1
      OBVIOUS
    <3> QED
      BY <1>1, <2>1, <3>1 DEF c
  <2>2. CASE k \in 1 .. n
    BY <1>1, <1>4, <1>7, <2>2 DEF Seen, n
  <2> QED
    BY <1>2, <2>1, <2>2
<1>8. ASSUME NEW k \in 1 .. n + 1, NEW l \in 1 .. n + 1, k < l, v[k] \in T, v[l] \in T
      PROVE  \E i, j \in 1 .. p + 1 : i < j /\ L[i] = v[k] /\ L[j] = v[l]
  <2>0. k \in 1 .. n
    BY <1>1, <1>8
  <2>1. CASE l = n + 1
    <3>1. PICK i \in 1 .. p : L[i] = v[k]
      BY <1>1, <1>8, <2>0 DEF Seen, n
    <3>2. p + 1 \in 1 .. p + 1 /\ i \in 1 .. p + 1 /\ i < p + 1
      BY <1>4
    <3>3. L[p + 1] = v[l]
      BY <1>1, <2>1 DEF c
    <3> QED
      BY <3>1, <3>2, <3>3
  <2>2. CASE l \in 1 .. n
    <3>1. PICK i \in 1 .. p, j \in 1 .. p : i < j /\ L[i] = w[k] /\ L[j] = w[l]
      BY <1>1, <1>8, <2>0, <2>2 DEF Seen, n
    <3> QED
      BY <1>1, <1>4, <2>0, <2>2, <3>1
  <2> QED
    BY <1>2, <2>1, <2>2
<1> QED
  BY <1>1, <1>6, <1>7, <1>8, SMTT(30) DEF Seen, v, c

\* One that is not looked for is passed.
LEMMA SeenPasses ==
  ASSUME NEW L, NEW p \in Nat, NEW w, NEW T, Seen(L, p, w, T), L[p + 1] \notin T
  PROVE  Seen(L, p + 1, w, T)
<1>1. \A i \in 1 .. p + 1 : L[i] \in T => i \in 1 .. p
  OBVIOUS
<1>2. \A i \in 1 .. p : i \in 1 .. p + 1
  OBVIOUS
<1> QED
  BY <1>1, <1>2 DEF Seen

\* A sprite that was not there is inserted at either end.
LEMMA SeenWith ==
  ASSUME NEW L \in Seq(Slots), NEW p \in 0 .. Len(L), NEW w, NEW T, Seen(L, p, w, T),
         NEW s \in Slots, s \notin T
  PROVE  /\ Seen(With(L, 0, s), p + 1, w, T)
         /\ Seen(With(L, Len(L), s), p, w, T)
<1>0. Len(L) \in Nat /\ p \in Nat /\ p <= Len(L) /\ 0 \in 0 .. Len(L) /\ Len(L) \in 0 .. Len(L)
  OBVIOUS
<1>1. Seen(With(L, 0, s), p + 1, w, T)
  <2> DEFINE M == With(L, 0, s)
             to == [i \in 1 .. p |-> i + 1]
  <2>1. \A i \in 1 .. Len(L) + 1 : M[i] = IF i = 1 THEN s ELSE L[i - 1]
    <3>1. \A i \in 1 .. Len(L) + 1 :
            M[i] = IF i <= 0 THEN L[i] ELSE IF i = 0 + 1 THEN s ELSE L[i - 1]
      BY <1>0, WithFacts
    <3> HIDE DEF M
    <3> QED
      BY <1>0, <3>1
  <2> HIDE DEF M
  <2>2. \A i \in 1 .. p + 1 : M[i] \in T => \E j \in 1 .. p : L[j] = M[i]
    <3> SUFFICES ASSUME NEW i \in 1 .. p + 1, M[i] \in T PROVE \E j \in 1 .. p : L[j] = M[i]
      OBVIOUS
    <3>1. i \in 1 .. Len(L) + 1 /\ i # 1
      BY <1>0, <2>1
    <3>2. i - 1 \in 1 .. p /\ L[i - 1] = M[i]
      BY <1>0, <2>1, <3>1
    <3> QED
      BY <3>2
  <2>3. \A i \in 1 .. p : to[i] = i + 1 /\ to[i] \in 1 .. p + 1 /\ M[to[i]] = L[i]
    <3> SUFFICES ASSUME NEW i \in 1 .. p
                 PROVE  i + 1 \in 1 .. p + 1 /\ M[i + 1] = L[i]
      OBVIOUS
    <3>1. i + 1 \in 1 .. Len(L) + 1 /\ i + 1 # 1 /\ i + 1 - 1 = i /\ i + 1 \in 1 .. p + 1
      BY <1>0
    <3> QED
      BY <2>1, <3>1
  <2> HIDE DEF to
  <2>4. \A i, j \in 1 .. p : i < j => to[i] < to[j]
    BY <1>0, <2>3
  <2>5. p + 1 \in Nat
    BY <1>0
  <2> QED
    <3>1. \A i \in 1 .. p : L[i] \in T => to[i] \in 1 .. p + 1 /\ M[to[i]] = L[i]
      BY <2>3
    <3>2. \A i, j \in 1 .. p : i < j /\ L[i] \in T /\ L[j] \in T => to[i] < to[j]
      BY <2>4
    <3> DEFINE p2 == p + 1
    <3> HIDE DEF p2
    <3>3. Seen(M, p2, w, T)
      BY <1>0, <2>2, <2>5, <3>1, <3>2, SeenMoves DEF p2
    <3> QED
      BY <3>3 DEF M, p2
<1>2. Seen(With(L, Len(L), s), p, w, T)
  <2> DEFINE M == With(L, Len(L), s)
  <2>1. \A i \in 1 .. p : M[i] = L[i]
    <3>1. \A i \in 1 .. Len(L) + 1 :
            M[i] = IF i <= Len(L) THEN L[i] ELSE IF i = Len(L) + 1 THEN s ELSE L[i - 1]
      BY <1>0, WithFacts
    <3> HIDE DEF M
    <3> QED
      BY <1>0, <3>1
  <2> HIDE DEF M
  <2>2. Seen(M, p, w, T)
    BY <2>1 DEF Seen
  <2> QED
    BY <2>2 DEF M
<1> QED
  BY <1>1, <1>2

\* A sprite is removed, before the pointer or from it on.
LEMMA SeenWithout ==
  ASSUME NEW L \in Seq(Slots), Distinct(L), NEW p \in 0 .. Len(L), NEW w, NEW T,
         Seen(L, p, w, T), NEW k \in 1 .. Len(L)
  PROVE  /\ k <= p => Seen(Without(L, k), p - 1, w, T \ {L[k]})
         /\ k > p => Seen(Without(L, k), p, w, T \ {L[k]})
<1> DEFINE M == Without(L, k)
           S == T \ {L[k]}
           to == [i \in 1 .. p |-> IF i < k THEN i ELSE i - 1]
<1>0. Len(L) \in Nat /\ p \in Nat /\ p <= Len(L) /\ k \in Nat /\ k <= Len(L) /\ k # 0
  OBVIOUS
<1>1. \A i \in 1 .. Len(L) - 1 : M[i] = IF i < k THEN L[i] ELSE L[i + 1]
  BY WithoutFacts
<1> HIDE DEF M
<1>2. \A i \in 1 .. p : L[i] \in S => i # k
  OBVIOUS
<1>a. S \subseteq T
  OBVIOUS
<1> HIDE DEF S
<1>3. ASSUME k <= p PROVE Seen(M, p - 1, w, S)
  <2>1. ASSUME NEW i \in 1 .. p - 1 PROVE \E j \in 1 .. p : L[j] = M[i]
    <3>1. i \in 1 .. Len(L) - 1 /\ i \in 1 .. p /\ i + 1 \in 1 .. p
      BY <1>0
    <3>2. M[i] = L[i] \/ M[i] = L[i + 1]
      BY <1>1, <3>1
    <3> QED
      BY <3>1, <3>2
  <2>2. ASSUME NEW i \in 1 .. p, L[i] \in S PROVE to[i] \in 1 .. p - 1 /\ M[to[i]] = L[i]
    <3>0. i # k
      BY <1>2, <2>2
    <3>1. CASE i < k
      <4>1. to[i] = i /\ i \in 1 .. p - 1 /\ i \in 1 .. Len(L) - 1
        BY <1>0, <1>3, <3>1
      <4> QED
        BY <1>1, <3>1, <4>1
    <3>2. CASE i > k
      <4>1. /\ to[i] = i - 1 /\ i - 1 \in 1 .. p - 1 /\ i - 1 \in 1 .. Len(L) - 1
            /\ ~(i - 1 < k) /\ i - 1 + 1 = i
        BY <1>0, <1>3, <3>2
      <4> QED
        BY <1>1, <4>1
    <3> QED
      BY <1>0, <3>0, <3>1, <3>2
  <2>3. \A i, j \in 1 .. p : i < j /\ L[i] \in S /\ L[j] \in S => to[i] < to[j]
    BY <1>0, <1>2
  <2>4. p - 1 \in Nat
    BY <1>0, <1>3
  <2> HIDE DEF to
  <2> QED
    <3>1. \A i \in 1 .. p - 1 : M[i] \in S => \E j \in 1 .. p : L[j] = M[i]
      BY <2>1
    <3>2. \A i \in 1 .. p : L[i] \in S => to[i] \in 1 .. p - 1 /\ M[to[i]] = L[i]
      BY <2>2
    <3> DEFINE p2 == p - 1
    <3> HIDE DEF p2
    <3>3. Seen(M, p2, w, S)
      BY <1>0, <1>a, <2>3, <2>4, <3>1, <3>2, SeenMoves DEF p2
    <3> QED
      BY <3>3 DEF p2
<1>4. ASSUME k > p PROVE Seen(M, p, w, S)
  <2>1. \A i \in 1 .. p : M[i] = L[i]
    BY <1>0, <1>1, <1>4
  <2> QED
    BY <1>a, <2>1 DEF Seen
<1> QED
  BY <1>3, <1>4 DEF M, S

-----------------------------------------------------------------------------
(* The pass: every step *)

LEMMA PassAdds ==
  ASSUME LInv, PInv(eng, upd, Listed(eng)), NEW head \in BOOLEAN, SPR_addSprite(head)
  PROVE  PInv(eng', upd', Listed(eng'))
<1> DEFINE e == eng
           L == Listed(eng)
           s == Last(e.stack)
           k == IF head THEN 0 ELSE Len(L)
           f == Added(e, head)
           M == With(L, k, s)
           u == upd
           v == upd'
<1>0. Holds(e, L) /\ u \in Passes /\ (u.pc = "callback" => u.cur \in Slots)
  BY SlotFacts DEF LInv, Passes
<1>1. eng' = f /\ e.stack # <<>> /\ (u.pc = "idle" \/ u.pc = "callback")
  BY DEF SPR_addSprite, MayCall
<1>2. /\ e \in Engines /\ L \in Seq(Slots) /\ Len(L) \in Nat
      /\ \A i \in 1 .. Len(L) : L[i] \in Slots /\ e.alloc[L[i]]
  BY <1>0, HoldsFacts
<1>3. /\ s \in Slots /\ ~e.alloc[s] /\ k \in 0 .. Len(L) /\ Holds(f, M)
      /\ f.alloc = [e.alloc EXCEPT ![s] = TRUE]
  BY <1>0, <1>1, AddedHolds
<1>k. \A t \in Slots : ~Member(L, t) /\ t # s => f.next[t] = e.next[t]
  <2> HIDE DEF e, L
  <2> QED
    BY <1>0, <1>1, AddedKeeps
<1>4. Listed(f) = M
  BY <1>3, ListedIs
<1>5. /\ v.pc = u.pc /\ v.cur = u.cur /\ v.satInd = u.satInd /\ v.there \subseteq u.there
      /\ ~v.stray => /\ ~u.stray /\ ~(CurReleased /\ s = u.cur)
                     /\ v.walked = u.walked /\ v.there = u.there
  BY <1>0, <1>3, AddingFacts
<1>c. CurReleased <=> u.pc = "callback" /\ ~e.alloc[u.cur]
  BY DEF CurReleased
<1>p. PInv(e, u, L)
  OBVIOUS
<1>w. /\ Len(M) = Len(L) + 1
      /\ \A i \in 1 .. Len(L) + 1 :
           M[i] = IF i <= k THEN L[i] ELSE IF i = k + 1 THEN s ELSE L[i - 1]
      /\ \A i \in 0 .. Len(L) + 2 :
           At(M, i) = IF i <= k THEN At(L, i) ELSE IF i = k + 1 THEN s ELSE At(L, i - 1)
  <2>1. L \in Seq(Slots) /\ s \in Slots /\ k \in 0 .. Len(L)
    BY <1>2, <1>3
  <2> HIDE DEF e, L, s, k, f
  <2> QED
    BY <2>1, WithFacts
<1> HIDE DEF e, L, s, f, u, v, k, M
<1>6. \A t \in Slots : f.alloc[t] <=> e.alloc[t] \/ t = s
  BY <1>2, <1>3 DEF Engines
<1>7. s \notin u.there /\ u.there \subseteq Slots
  BY <1>0, <1>3, <1>p DEF PInv, Passes
<1>8. v.satInd < SatMax + MaxNumSprite
  BY <1>5, <1>p DEF PInv
<1>9. \A t \in v.there : f.alloc[t] /\ v.pc # "idle"
  BY <1>5, <1>6, <1>7, <1>p DEF PInv
<1>10. ASSUME v.pc # "idle", ~v.stray
       PROVE  /\ IsInjective(v.walked)
              /\ \E q \in 0 .. Len(M) : Seen(M, q, v.walked, v.there) /\ Stands(f, v, M, q)
  <2>1. u.pc = "callback" /\ v.pc = "callback" /\ u.cur \in Slots
    BY <1>0, <1>1, <1>5, <1>10
  <2>2. IsInjective(u.walked)
    BY <1>5, <1>10, <1>p DEF PInv
  <2>3. PICK p \in 0 .. Len(L) : Seen(L, p, u.walked, u.there) /\ Stands(e, u, L, p)
    BY <1>5, <1>10, <1>p DEF PInv
  <2>4. p \in Nat /\ p <= Len(L)
    BY <1>2
  <2>5. /\ head => k = 0 /\ Seen(M, p + 1, u.walked, u.there)
        /\ ~head => k = Len(L) /\ Seen(M, p, u.walked, u.there)
    BY <1>2, <1>3, <1>7, <2>3, SeenWith DEF k, M
  <2> SUFFICES \E q \in 0 .. Len(M) : Seen(M, q, u.walked, u.there) /\ Stands(f, v, M, q)
    BY <1>5, <1>10, <2>2
  <2>6. CASE e.alloc[u.cur]
    <3>1. p < Len(L) /\ u.cur = L[p + 1]
      BY <2>1, <2>3, <2>6 DEF Stands
    <3>2. f.alloc[v.cur]
      BY <1>5, <1>6, <2>1, <2>6
    <3>3. CASE head
      <4>1. p + 1 \in 0 .. Len(M) /\ p + 1 < Len(M)
        BY <1>2, <1>w, <2>4, <3>1
      <4>2. p + 1 + 1 \in 1 .. Len(L) + 1 /\ ~(p + 1 + 1 <= 0) /\ p + 1 + 1 # 0 + 1
            /\ p + 1 + 1 - 1 = p + 1
        BY <1>2, <2>4, <3>1
      <4>3. M[p + 1 + 1] = L[p + 1]
        BY <1>w, <2>5, <3>3, <4>2
      <4>4. Stands(f, v, M, p + 1)
        BY <1>5, <2>1, <3>1, <3>2, <4>1, <4>3 DEF Stands
      <4> QED
        BY <2>5, <3>3, <4>1, <4>4
    <3>4. CASE ~head
      <4>1. p \in 0 .. Len(M) /\ p < Len(M)
        BY <1>2, <1>w, <2>4, <3>1
      <4>2. p + 1 \in 1 .. Len(L) + 1 /\ p + 1 <= Len(L)
        BY <1>2, <2>4, <3>1
      <4>3. M[p + 1] = L[p + 1]
        BY <1>w, <2>5, <3>4, <4>2
      <4>4. Stands(f, v, M, p)
        BY <1>5, <2>1, <3>1, <3>2, <4>1, <4>3 DEF Stands
      <4> QED
        BY <2>5, <3>4, <4>1, <4>4
    <3> QED
      BY <3>3, <3>4
  <2>7. CASE ~e.alloc[u.cur]
    <3>1. e.next[u.cur] = At(L, p + 1)
      BY <2>1, <2>3, <2>7 DEF Stands
    <3>2. u.cur # s /\ ~f.alloc[v.cur]
      BY <1>5, <1>6, <1>10, <1>c, <2>1, <2>7
    <3>3. ~Member(L, u.cur)
      BY <1>2, <2>7 DEF Member
    <3>4. f.next[v.cur] = At(L, p + 1)
      BY <1>5, <1>k, <2>1, <3>1, <3>2, <3>3
    <3>5. \A q \in 0 .. Len(M) : At(M, q + 1) = At(L, p + 1) => Stands(f, v, M, q)
      BY <2>1, <3>2, <3>4 DEF Stands
    <3>6. CASE head
      <4>1. p + 1 \in 0 .. Len(M) /\ p + 1 + 1 \in 0 .. Len(L) + 2
            /\ ~(p + 1 + 1 <= 0) /\ p + 1 + 1 # 0 + 1 /\ p + 1 + 1 - 1 = p + 1
        BY <1>2, <1>w, <2>4
      <4>2. At(M, p + 1 + 1) = At(L, p + 1)
        BY <1>w, <2>5, <3>6, <4>1
      <4> QED
        BY <2>5, <3>5, <3>6, <4>1, <4>2
    <3>7. CASE ~head /\ p < Len(L)
      <4>1. p \in 0 .. Len(M) /\ p + 1 \in 0 .. Len(L) + 2 /\ p + 1 <= Len(L)
        BY <1>2, <1>w, <2>4, <3>7
      <4>2. At(M, p + 1) = At(L, p + 1)
        BY <1>w, <2>5, <3>7, <4>1
      <4> QED
        BY <2>5, <3>5, <3>7, <4>1, <4>2
    <3>8. CASE ~head /\ p = Len(L)
      <4>1. /\ p + 1 \in 0 .. Len(M) /\ p + 1 \in 1 .. Len(L) + 1 /\ p + 1 + 1 \in 0 .. Len(L) + 2
            /\ ~(p + 1 <= Len(L)) /\ p + 1 = Len(L) + 1 /\ ~(p + 1 + 1 <= Len(L))
            /\ p + 1 + 1 # Len(L) + 1 /\ p + 1 + 1 - 1 = p + 1
        BY <1>2, <1>w, <2>4, <3>8
      <4>2. At(M, p + 1 + 1) = At(L, p + 1) /\ M[p + 1] = s
        BY <1>w, <2>5, <3>8, <4>1
      <4>3. Seen(M, p + 1, u.walked, u.there)
        BY <1>7, <2>4, <2>5, <3>8, <4>2, SeenPasses
      <4> QED
        BY <3>5, <4>1, <4>2, <4>3
    <3> QED
      BY <1>2, <2>4, <3>6, <3>7, <3>8
  <2> QED
    BY <2>6, <2>7
<1>11. PInv(f, v, M)
  BY <1>8, <1>9, <1>10 DEF PInv
<1> QED
  BY <1>1, <1>4, <1>11 DEF f, v

LEMMA PassReleases ==
  ASSUME LInv, PInv(eng, upd, Listed(eng)), NEW s \in Slots, SPR_releaseSprite(s)
  PROVE  PInv(eng', upd', Listed(eng'))
<1> DEFINE e == eng
           L == Listed(eng)
           u == upd
           f == releaseSprite(e, s)
           v == upd'
<1>0. Holds(e, L) /\ u \in Passes /\ (u.pc = "callback" => u.cur \in Slots)
  BY SlotFacts DEF LInv, Passes
<1>1. eng' = f /\ e.alloc[s] /\ (u.pc = "idle" \/ u.pc = "callback")
  BY DEF SPR_releaseSprite, MayCall
<1>2. /\ e \in Engines /\ L \in Seq(Slots) /\ Len(L) \in Nat
      /\ Distinct(L) /\ \A i \in 1 .. Len(L) : L[i] \in Slots /\ e.alloc[L[i]]
  BY <1>0, HoldsFacts
<1>3. PICK k \in 1 .. Len(L) : L[k] = s
  BY <1>0, <1>1 DEF Holds, Member
<1> DEFINE M == Without(L, k)
<1>4. Holds(f, M) /\ f.alloc = [e.alloc EXCEPT ![s] = FALSE] /\ f.next[s] = At(L, k + 1)
  <2> DEFINE g == releaseSprite(e, L[k])
  <2>1. /\ Holds(g, M) /\ g.alloc = [e.alloc EXCEPT ![L[k]] = FALSE]
        /\ g.next[L[k]] = At(L, k + 1)
    <3> HIDE DEF e, L
    <3> QED
      BY <1>0, ReleasedHolds, SMTT(30)
  <2> HIDE DEF e, L, M
  <2> QED
    BY <1>3, <2>1
<1>k. \A t \in Slots : ~Member(L, t) => f.next[t] = e.next[t]
  <2>1. Member(L, s)
    BY <1>3 DEF Member
  <2> HIDE DEF e, L
  <2> QED
    BY <1>0, <2>1, ReleasedKeeps
<1>5. Listed(f) = M
  BY <1>4, ListedIs
<1>6. /\ v.pc = u.pc /\ v.cur = u.cur /\ v.satInd = u.satInd
      /\ v.there \subseteq u.there \ {s}
      /\ ~v.stray => /\ ~u.stray /\ ~(CurReleased /\ e.next[u.cur] = s)
                     /\ v.walked = u.walked /\ v.there = u.there \ {s}
  BY <1>0, ReleasingFacts
<1>c. CurReleased <=> u.pc = "callback" /\ ~e.alloc[u.cur]
  BY DEF CurReleased
<1>p. PInv(e, u, L)
  OBVIOUS
<1>w. /\ Len(M) = Len(L) - 1
      /\ (\A i \in 1 .. Len(L) - 1 : M[i] = IF i < k THEN L[i] ELSE L[i + 1])
      /\ \A i \in 0 .. Len(L) : At(M, i) = IF i < k THEN At(L, i) ELSE At(L, i + 1)
  BY <1>2, WithoutFacts
<1> HIDE DEF e, L, f, u, v
<1>7. \A t \in Slots : f.alloc[t] <=> e.alloc[t] /\ t # s
  BY <1>2, <1>4 DEF Engines
<1>8. v.satInd < SatMax + MaxNumSprite
  BY <1>6, <1>p DEF PInv
<1>9. \A t \in v.there : f.alloc[t] /\ v.pc # "idle"
  BY <1>0, <1>6, <1>7, <1>p DEF PInv, Passes
<1>10. ASSUME v.pc # "idle", ~v.stray
       PROVE  /\ IsInjective(v.walked)
              /\ \E q \in 0 .. Len(M) : Seen(M, q, v.walked, v.there) /\ Stands(f, v, M, q)
  <2>1. u.pc = "callback" /\ v.pc = "callback" /\ u.cur \in Slots
    BY <1>0, <1>1, <1>6, <1>10
  <2>2. IsInjective(v.walked)
    BY <1>6, <1>10, <1>p DEF PInv
  <2>3. PICK p \in 0 .. Len(L) : Seen(L, p, u.walked, u.there) /\ Stands(e, u, L, p)
    BY <1>6, <1>10, <1>p DEF PInv
  <2>4. p \in Nat /\ p <= Len(L) /\ k \in Nat /\ k # 0 /\ k <= Len(L)
    BY <1>2
  <2>5. /\ k <= p => Seen(M, p - 1, v.walked, v.there)
        /\ k > p => Seen(M, p, v.walked, v.there)
    <3>1. /\ k <= p => Seen(M, p - 1, u.walked, u.there \ {L[k]})
          /\ k > p => Seen(M, p, u.walked, u.there \ {L[k]})
      BY <1>2, <2>3, SeenWithout
    <3> HIDE DEF M
    <3> QED
      BY <1>3, <1>6, <1>10, <3>1
  <2> HIDE DEF M
  <2>6. CASE e.alloc[u.cur] /\ k = p + 1
    <3>1. u.cur = s
      BY <1>3, <2>1, <2>3, <2>6 DEF Stands
    <3>2. p \in 0 .. Len(M) /\ k > p
      BY <1>2, <1>w, <2>4, <2>6
    <3>3. ~f.alloc[v.cur]
      BY <1>6, <1>7, <3>1
    <3>4. f.next[v.cur] = At(M, p + 1)
      <4>1. p + 1 \in 0 .. Len(L) /\ ~(p + 1 < k) /\ p + 1 + 1 = k + 1
        BY <1>2, <2>4, <2>6
      <4> QED
        BY <1>4, <1>6, <1>w, <3>1, <4>1
    <3>5. Stands(f, v, M, p)
      BY <2>1, <3>3, <3>4 DEF Stands
    <3> QED
      BY <2>2, <2>5, <3>2, <3>5
  <2>7. CASE e.alloc[u.cur] /\ k # p + 1
    <3>0. p < Len(L) /\ p + 1 \in 1 .. Len(L) /\ u.cur = L[p + 1]
      BY <1>2, <2>1, <2>3, <2>4, <2>7 DEF Stands
    <3>1. f.alloc[v.cur]
      BY <1>2, <1>3, <1>6, <1>7, <2>1, <2>7, <3>0 DEF Distinct
    <3>2. CASE k <= p
      <4>1. p - 1 \in 0 .. Len(M) /\ p - 1 < Len(M) /\ p - 1 + 1 = p
        BY <1>2, <1>w, <2>4, <3>0, <3>2
      <4>2. M[p - 1 + 1] = v.cur
        <5>1. p \in 1 .. Len(L) - 1 /\ ~(p < k)
          BY <1>2, <2>4, <3>0, <3>2
        <5> QED
          BY <1>6, <1>w, <3>0, <4>1, <5>1
      <4>3. Stands(f, v, M, p - 1)
        BY <2>1, <3>1, <4>1, <4>2 DEF Stands
      <4> QED
        BY <2>2, <2>5, <3>2, <4>1, <4>3
    <3>3. CASE k > p + 1
      <4>1. p \in 0 .. Len(M) /\ p < Len(M) /\ k > p
        BY <1>2, <1>w, <2>4, <3>0, <3>3
      <4>2. M[p + 1] = v.cur
        <5>1. p + 1 \in 1 .. Len(L) - 1 /\ p + 1 < k
          BY <1>2, <2>4, <3>3
        <5> QED
          BY <1>6, <1>w, <3>0, <5>1
      <4>3. Stands(f, v, M, p)
        BY <2>1, <3>1, <4>1, <4>2 DEF Stands
      <4> QED
        BY <2>2, <2>5, <4>1, <4>3
    <3> QED
      BY <2>4, <2>7, <3>2, <3>3
  <2>8. CASE ~e.alloc[u.cur]
    <3>1. e.next[u.cur] = At(L, p + 1)
      BY <2>1, <2>3, <2>8 DEF Stands
    <3>2. e.next[u.cur] # s /\ ~f.alloc[v.cur] /\ ~Member(L, u.cur)
      <4>1. ~Member(L, u.cur)
        BY <1>2, <2>8 DEF Member
      <4> QED
        BY <1>6, <1>7, <1>10, <1>c, <2>1, <2>8, <4>1
    <3>3. k # p + 1
      BY <1>3, <3>1, <3>2 DEF At
    <3>4. f.next[v.cur] = At(L, p + 1)
      BY <1>6, <1>k, <2>1, <3>1, <3>2
    <3>5. \A q \in 0 .. Len(M) : At(M, q + 1) = At(L, p + 1) => Stands(f, v, M, q)
      BY <2>1, <3>2, <3>4 DEF Stands
    <3>6. CASE k <= p
      <4>1. p - 1 \in 0 .. Len(M) /\ p - 1 + 1 = p /\ p \in 0 .. Len(L) /\ ~(p < k)
        BY <1>2, <1>w, <2>4, <3>6
      <4>2. At(M, p - 1 + 1) = At(L, p + 1)
        BY <1>w, <4>1
      <4> QED
        BY <2>2, <2>5, <3>5, <3>6, <4>1, <4>2
    <3>7. CASE k > p + 1
      <4>1. p \in 0 .. Len(M) /\ p + 1 \in 0 .. Len(L) /\ p + 1 < k /\ k > p
        BY <1>2, <1>w, <2>4, <3>7
      <4>2. At(M, p + 1) = At(L, p + 1)
        BY <1>w, <4>1
      <4> QED
        BY <2>2, <2>5, <3>5, <4>1, <4>2
    <3> QED
      BY <2>4, <3>3, <3>6, <3>7
  <2> QED
    BY <2>6, <2>7, <2>8
<1> HIDE DEF M
<1>11. PInv(f, v, M)
  BY <1>8, <1>9, <1>10 DEF PInv
<1> QED
  BY <1>1, <1>5, <1>11 DEF f, v

\* The end of a turn, from a sprite that is still in the list: it is recorded if
\* it was there when the pass began.
LEMMA TurnEnds ==
  ASSUME NEW f, NEW L, Holds(f, L), NEW u \in Passes, NEW p \in 0 .. Len(L), p < Len(L),
         IsInjective(u.walked), Seen(L, p, u.walked, u.there), u.cur = L[p + 1],
         NEW shown \in BOOLEAN, NEW n \in 1 .. MaxNumSprite
  PROVE  LET v == Advanced(f, u, shown, n)
         IN /\ IsInjective(v.walked)
            /\ \E q \in 0 .. Len(L) : Seen(L, q, v.walked, v.there) /\ Stands(f, v, L, q)
<1> DEFINE v == Advanced(f, u, shown, n)
           w == u.walked
           T == u.there
           c == u.cur
<1>0. /\ f \in Engines /\ L \in Seq(Slots) /\ Linked(f, L) /\ Len(L) \in Nat /\ Distinct(L)
      /\ \A i \in 1 .. Len(L) : L[i] \in Slots
  BY HoldsFacts
<1>1. p \in Nat /\ p + 1 \in 1 .. Len(L) /\ c \in Slots /\ c # NULL /\ p + 1 \in 0 .. Len(L)
  BY <1>0, SlotFacts
<1>2. v.pc = "visit" /\ v.cur = f.next[c] /\ v.walked = Walked(u) /\ v.there = T
  BY <1>0, <1>1, AdvancedFacts
<1>3. w \in Seq(Slots) /\ Len(w) \in Nat /\ DOMAIN w = 1 .. Len(w)
  BY DEF Passes
<1>4. f.next[c] = At(L, p + 1 + 1)
  <2>1. At(L, p + 1) = c
    BY <1>1 DEF At
  <2> QED
    BY <1>0, <1>1, <2>1 DEF Linked
<1>w. Walked(u) = IF c \in T THEN Append(w, c) ELSE w
  BY DEF Walked
<1>i. IsInjective(w) /\ Seen(L, p, w, T) /\ c = L[p + 1]
  OBVIOUS
<1> HIDE DEF v, w, T, c
<1>5. Stands(f, v, L, p + 1)
  BY <1>2, <1>4 DEF Stands
<1>6. CASE c \in T
  <2> DEFINE x == Append(w, c)
  <2>1. v.walked = x
    BY <1>2, <1>6, <1>w
  <2>2. Seen(L, p + 1, x, T)
    BY <1>0, <1>1, <1>3, <1>i, SeenGrows
  <2>3. /\ DOMAIN x = 1 .. Len(w) + 1 /\ x[Len(w) + 1] = c
        /\ \A k \in 1 .. Len(w) : x[k] = w[k]
    BY <1>1, <1>3
  <2> HIDE DEF x
  <2>4. \A k \in 1 .. Len(w) : w[k] # c
    <3> SUFFICES ASSUME NEW k \in 1 .. Len(w), w[k] = c PROVE FALSE
      OBVIOUS
    <3>1. PICK i \in 1 .. p : L[i] = c
      BY <1>6, <1>i DEF Seen
    <3>2. i \in 1 .. Len(L) /\ i # p + 1
      BY <1>0, <1>1
    <3> QED
      BY <1>0, <1>1, <1>i, <3>1, <3>2 DEF Distinct
  <2>5. IsInjective(x)
    <3> SUFFICES ASSUME NEW i \in 1 .. Len(w) + 1, NEW j \in 1 .. Len(w) + 1, x[i] = x[j]
                 PROVE  i = j
      BY <2>3 DEF IsInjective
    <3>1. \A k \in 1 .. Len(w) + 1 : k = Len(w) + 1 \/ k \in 1 .. Len(w)
      BY <1>3
    <3>2. CASE i = Len(w) + 1
      BY <2>3, <2>4, <3>1, <3>2
    <3>3. CASE j = Len(w) + 1
      BY <2>3, <2>4, <3>1, <3>3
    <3>4. CASE i \in 1 .. Len(w) /\ j \in 1 .. Len(w)
      BY <1>3, <1>i, <2>3, <3>4 DEF IsInjective
    <3> QED
      BY <3>1, <3>2, <3>3, <3>4
  <2> QED
    BY <1>1, <1>2, <1>5, <2>1, <2>2, <2>5 DEF v
<1>7. CASE c \notin T
  <2>1. v.walked = w
    BY <1>2, <1>7, <1>w
  <2>2. Seen(L, p + 1, w, T)
    BY <1>1, <1>7, <1>i, SeenPasses
  <2> QED
    BY <1>1, <1>2, <1>5, <1>i, <2>1, <2>2 DEF v
<1> QED
  BY <1>6, <1>7

LEMMA PassVisits ==
  ASSUME LInv, PInv(eng, upd, Listed(eng)), Visit
  PROVE  PInv(eng', upd', Listed(eng'))
<1> DEFINE e == eng
           L == Listed(eng)
           c == upd.cur
           u == [upd EXCEPT !.retaken = @ \ {c}]
           f == eng'
           v == upd'
<1>0. Holds(e, L) /\ upd \in Passes
  BY DEF LInv
<1>1. upd.pc = "visit" /\ c # NULL /\ c \in Slots
  BY <1>0, SlotFacts DEF Visit, Passes
<1>2. PICK elapsed \in BOOLEAN, delayed \in BOOLEAN, shown \in BOOLEAN, n \in 1 .. MaxNumSprite :
        IF ~e.need[c] /\ ~elapsed
        THEN v = Advanced(e, upd, shown, n) /\ f = e
        ELSE /\ f = FrameSet(e, c)
             /\ v = IF delayed THEN Advanced(f, u, shown, n) ELSE [u EXCEPT !.pc = "callback"]
  BY DEF Visit
<1>u. /\ u \in Passes /\ u.pc = "visit" /\ u.cur = c /\ u.satInd = upd.satInd
      /\ u.there = upd.there /\ u.walked = upd.walked /\ u.stray = upd.stray
  BY <1>0, <1>1 DEF Passes
<1>3. \/ \E x \in {upd, u} : v = Advanced(f, x, shown, n)
      \/ v = [u EXCEPT !.pc = "callback"]
  BY <1>2
<1>4. Holds(f, L) /\ f.alloc = e.alloc
  <2>1. f = e \/ f = FrameSet(e, c)
    BY <1>2
  <2>2. Holds(FrameSet(e, c), L) /\ FrameSet(e, c).alloc = e.alloc
    BY <1>0, <1>1, FrameSetHolds
  <2> QED
    BY <1>0, <2>1, <2>2
<1>5. Listed(f) = L
  BY <1>4, ListedIs
<1>6. f \in Engines /\ L \in Seq(Slots) /\ Len(L) \in Nat
      /\ \A i \in 1 .. Len(L) : L[i] \in Slots /\ e.alloc[L[i]]
  BY <1>0, <1>4, HoldsFacts
<1>p. PInv(e, upd, L)
  OBVIOUS
<1> HIDE DEF e, L, u, f, v, c
<1>7. ASSUME ~upd.stray
      PROVE  \E p \in 0 .. Len(L) :
               /\ IsInjective(upd.walked) /\ Seen(L, p, upd.walked, upd.there)
               /\ p < Len(L) /\ c = L[p + 1]
  <2>1. IsInjective(upd.walked)
    BY <1>1, <1>7, <1>p DEF PInv
  <2>2. PICK p \in 0 .. Len(L) : Seen(L, p, upd.walked, upd.there) /\ Stands(e, upd, L, p)
    BY <1>1, <1>7, <1>p DEF PInv
  <2>3. c = At(L, p + 1)
    BY <1>1, <2>2 DEF Stands, c
  <2>4. p + 1 \in 1 .. Len(L) /\ c = L[p + 1]
    BY <1>1, <2>3 DEF At
  <2>5. p < Len(L)
    BY <1>6, <2>4
  <2> QED
    BY <2>1, <2>2, <2>4, <2>5
<1>8. ASSUME NEW x \in {upd, u}, v = Advanced(f, x, shown, n) PROVE PInv(f, v, L)
  <2>0. /\ x \in Passes /\ x.cur = c /\ x.satInd = upd.satInd
        /\ x.there = upd.there /\ x.walked = upd.walked /\ x.stray = upd.stray
    BY <1>0, <1>8, <1>u DEF c
  <2>1. /\ v.pc = "visit" /\ v.there = upd.there /\ v.stray = upd.stray
        /\ v.satInd = x.satInd + Written(f, x, shown, n)
    BY <1>1, <1>6, <1>8, <2>0, AdvancedFacts
  <2>2. v.satInd < SatMax + MaxNumSprite
    BY <1>p, <2>0, <2>1, WrittenFits DEF PInv
  <2>3. \A t \in v.there : f.alloc[t] /\ v.pc # "idle"
    BY <1>4, <1>p, <2>1 DEF PInv
  <2>4. ASSUME ~v.stray
        PROVE  /\ IsInjective(v.walked)
               /\ \E q \in 0 .. Len(L) : Seen(L, q, v.walked, v.there) /\ Stands(f, v, L, q)
    <3>1. PICK p \in 0 .. Len(L) :
            /\ IsInjective(upd.walked) /\ Seen(L, p, upd.walked, upd.there)
            /\ p < Len(L) /\ c = L[p + 1]
      BY <1>7, <2>1, <2>4
    <3> QED
      BY <1>4, <1>8, <2>0, <3>1, TurnEnds
  <2> QED
    BY <2>2, <2>3, <2>4 DEF PInv
<1>9. ASSUME v = [u EXCEPT !.pc = "callback"] PROVE PInv(f, v, L)
  <2>1. /\ v.pc = "callback" /\ v.cur = c /\ v.there = upd.there /\ v.walked = upd.walked
        /\ v.satInd = upd.satInd /\ v.stray = upd.stray
    BY <1>9, <1>u DEF Passes
  <2>2. \A t \in v.there : f.alloc[t] /\ v.pc # "idle"
    BY <1>4, <1>p, <2>1 DEF PInv
  <2>3. v.satInd < SatMax + MaxNumSprite
    BY <1>p, <2>1 DEF PInv
  <2>4. ASSUME ~v.stray
        PROVE  /\ IsInjective(v.walked)
               /\ \E q \in 0 .. Len(L) : Seen(L, q, v.walked, v.there) /\ Stands(f, v, L, q)
    <3>1. PICK p \in 0 .. Len(L) :
            /\ IsInjective(upd.walked) /\ Seen(L, p, upd.walked, upd.there)
            /\ p < Len(L) /\ c = L[p + 1]
      BY <1>7, <2>1, <2>4
    <3>2. p + 1 \in 1 .. Len(L)
      BY <1>6, <3>1
    <3>3. f.alloc[v.cur]
      BY <1>4, <1>6, <2>1, <3>1, <3>2
    <3>4. Stands(f, v, L, p)
      BY <2>1, <3>1, <3>3 DEF Stands
    <3> QED
      BY <2>1, <3>1, <3>4
  <2> QED
    BY <2>2, <2>3, <2>4 DEF PInv
<1>10. PInv(f, v, L)
  BY <1>3, <1>8, <1>9
<1> QED
  BY <1>5, <1>10 DEF f, v

LEMMA PassReturns ==
  ASSUME LInv, PInv(eng, upd, Listed(eng)), CallbackReturns
  PROVE  PInv(eng', upd', Listed(eng'))
<1> DEFINE e == eng
           L == Listed(eng)
           u == upd
           f == eng'
           v == upd'
<1>0. Holds(e, L) /\ u \in Passes
  BY DEF LInv
<1>1. u.pc = "callback" /\ u.cur # NULL /\ u.cur \in Slots
  BY <1>0, SlotFacts DEF CallbackReturns, LInv, Passes
<1>2. PICK shown \in BOOLEAN, n \in 1 .. MaxNumSprite : v = Advanced(f, u, shown, n)
  BY DEF CallbackReturns
<1>3. f = [e EXCEPT !.need[u.cur] = FALSE]
  BY DEF CallbackReturns
<1>4. Holds(f, L) /\ f.alloc = e.alloc /\ f.next = e.next
  BY <1>0, <1>1, <1>3, ReturnHolds
<1>5. Listed(f) = L
  BY <1>4, ListedIs
<1>6. f \in Engines /\ L \in Seq(Slots) /\ Len(L) \in Nat
  BY <1>0, <1>4, HoldsFacts
<1>p. PInv(e, u, L)
  OBVIOUS
<1> HIDE DEF e, L, u, f, v
<1>7. /\ v.pc = "visit" /\ v.cur = f.next[u.cur] /\ v.walked = Walked(u) /\ v.there = u.there
      /\ v.stray = u.stray /\ v.satInd = u.satInd + Written(f, u, shown, n)
  BY <1>0, <1>1, <1>2, <1>6, AdvancedFacts
<1>8. v.satInd < SatMax + MaxNumSprite
  BY <1>0, <1>7, <1>p, WrittenFits DEF PInv
<1>9. \A t \in v.there : f.alloc[t] /\ v.pc # "idle"
  BY <1>4, <1>7, <1>p DEF PInv
<1>10. ASSUME ~v.stray
       PROVE  /\ IsInjective(v.walked)
              /\ \E q \in 0 .. Len(L) : Seen(L, q, v.walked, v.there) /\ Stands(f, v, L, q)
  <2>1. IsInjective(u.walked)
    BY <1>1, <1>7, <1>10, <1>p DEF PInv
  <2>2. PICK p \in 0 .. Len(L) : Seen(L, p, u.walked, u.there) /\ Stands(e, u, L, p)
    BY <1>1, <1>7, <1>10, <1>p DEF PInv
  <2>3. CASE e.alloc[u.cur]
    <3>1. p < Len(L) /\ u.cur = L[p + 1]
      BY <1>1, <2>2, <2>3 DEF Stands
    <3> QED
      BY <1>0, <1>2, <1>4, <2>1, <2>2, <3>1, TurnEnds
  <2>4. CASE ~e.alloc[u.cur]
    <3>1. e.next[u.cur] = At(L, p + 1)
      BY <1>1, <2>2, <2>4 DEF Stands
    <3>2. u.cur \notin u.there
      BY <1>p, <2>4 DEF PInv
    <3>3. v.walked = u.walked
      BY <1>7, <3>2 DEF Walked
    <3>4. Stands(f, v, L, p)
      BY <1>4, <1>7, <3>1 DEF Stands
    <3> QED
      BY <1>7, <2>1, <2>2, <3>3, <3>4
  <2> QED
    BY <2>3, <2>4
<1>11. PInv(f, v, L)
  BY <1>8, <1>9, <1>10 DEF PInv
<1> QED
  BY <1>5, <1>11 DEF f, v

LEMMA PassBegins ==
  ASSUME LInv, SPR_update
  PROVE  PInv(eng', upd', Listed(eng'))
<1> DEFINE e == eng
           L == Listed(eng)
           v == upd'
<1>0. Holds(e, L)
  BY DEF LInv
<1>1. /\ v.pc = "visit" /\ v.cur = e.next[NULL] /\ v.satInd = 0 /\ v.walked = <<>>
      /\ v.there = ToSet(L) /\ eng' = e
  BY DEF SPR_update, Idle
<1>2. /\ L \in Seq(Slots) /\ Len(L) \in Nat /\ e.next[NULL] = At(L, 1)
      /\ DOMAIN L = 1 .. Len(L) /\ \A i \in 1 .. Len(L) : e.alloc[L[i]]
  BY <1>0, HoldsFacts
<1> HIDE DEF e, L, v
<1>3. \A t \in v.there : e.alloc[t] /\ v.pc # "idle"
  BY <1>1, <1>2 DEF ToSet
<1>4. v.satInd < SatMax + MaxNumSprite
  BY <1>1, ListAssumption
<1>5. Len(v.walked) = 0 /\ 1 .. 0 = {} /\ DOMAIN v.walked = {}
  BY <1>1
<1>6. Seen(L, 0, v.walked, v.there) /\ IsInjective(v.walked)
  BY <1>5 DEF Seen, IsInjective
<1>7. Stands(e, v, L, 0) /\ 0 \in 0 .. Len(L)
  BY <1>1, <1>2 DEF Stands
<1>8. PInv(e, v, L)
  BY <1>3, <1>4, <1>6, <1>7 DEF PInv
<1> QED
  BY <1>1, <1>8 DEF e, L, v

LEMMA PassIdle ==
  ASSUME NEW e, NEW L, NEW u, u.pc = "idle", u.there = {}, u.satInd < SatMax + MaxNumSprite
  PROVE  PInv(e, u, L)
BY DEF PInv

LEMMA PassStep ==
  ASSUME CallbackSorts = FALSE, IInv, [Next]_vars PROVE IInv'
<1>0. LInv /\ PInv(eng, upd, Listed(eng))
  BY DEF IInv
<1>a. LInv'
  BY <1>0, ListStep
<1>b. upd \in Passes /\ 0 < SatMax + MaxNumSprite
  BY <1>0, ListAssumption DEF LInv
<1> SUFFICES PInv(eng', upd', Listed(eng'))
  BY <1>a DEF IInv
<1>1. ASSUME NEW head \in BOOLEAN, SPR_addSprite(head) PROVE PInv(eng', upd', Listed(eng'))
  BY <1>0, <1>1, PassAdds
<1>2. ASSUME NEW s \in Slots, SPR_releaseSprite(s) PROVE PInv(eng', upd', Listed(eng'))
  BY <1>0, <1>2, PassReleases
<1>3. ASSUME NEW s \in Slots, NEW value \in MinDepth .. MaxDepth, SPR_setDepth(s, value)
      PROVE  PInv(eng', upd', Listed(eng'))
  <2>1. upd.pc = "idle" /\ upd' = upd
    BY <1>3 DEF SPR_setDepth, MayCall, Called
  <2>2. upd.there = {} /\ upd.satInd < SatMax + MaxNumSprite
    BY <1>0, <2>1 DEF PInv
  <2> QED
    BY <2>1, <2>2, PassIdle
<1>4. ASSUME SPR_reset PROVE PInv(eng', upd', Listed(eng'))
  BY <1>4, <1>b, IdlePasses, PassIdle DEF SPR_reset
<1>5. ASSUME SPR_update PROVE PInv(eng', upd', Listed(eng'))
  BY <1>0, <1>5, PassBegins
<1>6. ASSUME Visit PROVE PInv(eng', upd', Listed(eng'))
  BY <1>0, <1>6, PassVisits
<1>7. ASSUME CallbackReturns PROVE PInv(eng', upd', Listed(eng'))
  BY <1>0, <1>7, PassReturns
<1>8. ASSUME UpdateEnds PROVE PInv(eng', upd', Listed(eng'))
  <2>1. upd'.pc = "idle" /\ upd'.there = {} /\ upd'.satInd = 0
    BY <1>8 DEF UpdateEnds, Idle
  <2> QED
    BY <1>b, <2>1, PassIdle
<1>9. ASSUME UNCHANGED vars PROVE PInv(eng', upd', Listed(eng'))
  <2>1. eng' = eng /\ upd' = upd
    BY <1>9 DEF vars
  <2> QED
    BY <1>0, <2>1
<1> QED
  BY <1>1, <1>2, <1>3, <1>4, <1>5, <1>6, <1>7, <1>8, <1>9 DEF Next, Update

LEMMA PassInit ==
  ASSUME Init PROVE IInv
<1>1. upd.pc = "idle" /\ upd.there = {} /\ upd.satInd < SatMax + MaxNumSprite
  BY ListAssumption DEF Init, Idle
<1> QED
  BY <1>1, PassIdle, ListInit DEF IInv

LEMMA PassMeans ==
  ASSUME IInv PROVE PassIsSound
<1> DEFINE L == Listed(eng)
           w == upd.walked
           there == upd.there
<1>0. Holds(eng, L) /\ upd \in Passes /\ PInv(eng, upd, L)
  BY DEF IInv, LInv
<1>1. /\ L \in Seq(Slots) /\ Len(L) \in Nat /\ DOMAIN L = 1 .. Len(L)
      /\ \A i \in 1 .. Len(L) : L[i] \in Slots /\ eng.alloc[L[i]]
  BY <1>0, HoldsFacts
<1>2. w \in Seq(Slots) /\ DOMAIN w = 1 .. Len(w)
  BY <1>0 DEF Passes
<1> HIDE DEF L, w, there
<1>3. ASSUME upd.pc = "visit", ~upd.stray
      PROVE  \E p \in 0 .. Len(L) : Seen(L, p, w, there) /\ upd.cur = At(L, p + 1)
  BY <1>0, <1>3 DEF PInv, Stands, w, there
<1>4. ASSUME ~upd.stray PROVE CursorIsLive
  <2> SUFFICES ASSUME upd.pc = "visit", upd.cur # NULL PROVE eng.alloc[upd.cur]
    BY DEF CursorIsLive
  <2>1. PICK p \in 0 .. Len(L) : upd.cur = At(L, p + 1)
    BY <1>3, <1>4
  <2>2. p + 1 \in 1 .. Len(L) /\ upd.cur = L[p + 1]
    BY <2>1 DEF At
  <2> QED
    BY <1>1, <2>2
<1>5. ASSUME ~upd.stray PROVE PassVisitsAll
  <2> SUFFICES ASSUME upd.pc = "visit", upd.cur = NULL
               PROVE  /\ there \subseteq ToSet(w)
                      /\ \A k, l \in DOMAIN w :
                           k < l /\ w[k] \in there /\ w[l] \in there =>
                             \E i, j \in DOMAIN L : i < j /\ L[i] = w[k] /\ L[j] = w[l]
    BY DEF PassVisitsAll, L, w, there
  <2>1. PICK p \in 0 .. Len(L) : Seen(L, p, w, there) /\ upd.cur = At(L, p + 1)
    BY <1>3, <1>5
  <2>2. p = Len(L)
    <3> SUFFICES ASSUME p # Len(L) PROVE FALSE
      OBVIOUS
    <3>1. p + 1 \in 1 .. Len(L)
      BY <1>1
    <3> QED
      BY <1>1, <2>1, <3>1, AtFacts
  <2>3. there \subseteq ToSet(w)
    <3> SUFFICES ASSUME NEW s \in there PROVE s \in ToSet(w)
      OBVIOUS
    <3>1. s \in Slots /\ eng.alloc[s]
      BY <1>0 DEF PInv, Passes, there
    <3>2. PICK i \in 1 .. Len(L) : L[i] = s
      BY <1>0, <3>1 DEF Holds, Member
    <3>3. Member(w, s)
      BY <2>1, <2>2, <3>2 DEF Seen
    <3> QED
      BY <1>2, <3>3 DEF Member, ToSet
  <2> QED
    <3>1. \A k, l \in 1 .. Len(w) : k < l /\ w[k] \in there /\ w[l] \in there =>
            \E i, j \in 1 .. p : i < j /\ L[i] = w[k] /\ L[j] = w[l]
      BY <2>1 DEF Seen
    <3> QED
      BY <1>1, <1>2, <2>2, <2>3, <3>1, SMTT(30)
<1>6. SatFits
  BY <1>0 DEF SatFits, PInv
<1> QED
  BY <1>4, <1>5, <1>6 DEF PassIsSound

\* The pass of SPR_update stays inside vdpSpriteCache, and, if no callback sorts,
\* stands only on sprites in use and has visited every sprite that stayed, once
\* and in the order of the list, when it ends, whatever and however much its
\* callbacks add and release, until one that has released its own sprite takes
\* it back or releases the one behind it.
THEOREM SpriteListPass == ASSUME CallbackSorts = FALSE PROVE Spec => []PassIsSound
<1>1. Init => IInv
  BY PassInit
<1>2. IInv /\ [Next]_vars => IInv'
  BY PassStep
<1>3. IInv => PassIsSound
  BY PassMeans
<1> QED
  BY <1>1, <1>2, <1>3, PTL DEF Spec
=============================================================================
