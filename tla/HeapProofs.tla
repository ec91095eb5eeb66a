----------------------------- MODULE HeapProofs -----------------------------
(***************************************************************************)
(* Proofs about Heap for every heap and every set of sizes: the chain of   *)
(* headers is exactly the blocks the program holds, whose data the         *)
(* allocator neither writes nor reads, the sizes add up, and MEM_alloc     *)
(* fails only when no run of free blocks is large enough.                  *)
(***************************************************************************)
EXTENDS Heap, TLAPS, WellFoundedInduction, FiniteSetTheorems

\* What the theorems assume of the program: MEM_allocAt is not asked for an
\* address inside free space that a used block follows, and no size is so large
\* that the rounded one wraps.
Careful == SplitsInterior = FALSE /\ \A s \in Sizes : s + 3 < SizeModulus

Word == 0 .. SizeModulus - 1
Stops(m, c) == m[c] = 0 \/ After(m, c) \notin c + 1 .. HeapEnd

\* H is a row of headers from the first word to the end mark: the blocks they
\* describe follow each other without gap or overlap.
Row(m, H) ==
  /\ H \subseteq Words /\ 0 \in H /\ HeapEnd \in H /\ m[HeapEnd] = 0
  /\ \A h \in H \ {HeapEnd} :
       /\ m[h] # 0 /\ After(m, h) \in H /\ h < After(m, h)
       /\ \A g \in H : ~(h < g /\ g < After(m, h))
  /\ \A w \in 0 .. HeapEnd - 1 : \E h \in H \ {HeapEnd} : h <= w /\ w < After(m, h)

\* The used headers of a row are those of the blocks in use, and the words the
\* program has written lie inside these.
Described(m, H, blocks, data) ==
  /\ m \in [Words -> Word] /\ Row(m, H)
  /\ {h \in H : m[h] # 0 /\ Used(m, h)} = {b.h : b \in blocks}
  /\ \A b, c \in blocks : b.h = c.h => b = c
  /\ \A b \in blocks : b.size \in Sizes /\ b.size # 0 /\ Bytes(m, b.h) >= b.size + 2
  /\ \A w \in data : w \in Words /\ m[w] = Junk /\ \E b \in blocks : w \in Payload(b)

\* The search may start from f: not from a used block, nor from inside one.
Startable(m, H, f) ==
  /\ f \in Words
  /\ m[f] = 0 \/ f \in FreeHeaders(m)
  /\ \A h \in H : m[h] # 0 /\ Used(m, h) => ~(h <= f /\ f < After(m, h))

\* The inductive invariant.
IInv ==
  /\ Described(mem, Chain(mem, 0), held, written)
  /\ Startable(mem, Chain(mem, 0), free)
  /\ needPack \in BOOLEAN

-----------------------------------------------------------------------------
(* Numbers *)

\* Least elements, from which every induction below is made.
LEMMA NatMin ==
  ASSUME NEW T, T \subseteq Nat, T # {}
  PROVE  \E x \in T : \A y \in T : x <= y
<1> DEFINE R == OpToRel(<, Nat)
<1>1. IsWellFoundedOn(R, Nat)
  BY NatLessThanWellFounded
<1>2. \E x \in T : \A y \in T : ~(<<y, x>> \in R)
  BY <1>1, WFMin
<1>3. \A x, y \in Nat : ~(<<y, x>> \in R) => x <= y
  BY DEF OpToRel
<1> QED
  BY <1>2, <1>3

\* Min of FiniteSetsExt is the least element.
LEMMA MinIsLeast ==
  ASSUME NEW T, T \subseteq Nat, T # {}
  PROVE  Min(T) \in T /\ \A y \in T : Min(T) <= y
BY NatMin DEF Min

LEMMA WordFacts ==
  /\ HeapEnd \in Nat /\ HeapEnd > 0 /\ SizeModulus \in Nat /\ 2 * HeapEnd + 1 < SizeModulus
  /\ 0 \in Words /\ HeapEnd \in Words /\ \A x \in Words : x \in Nat /\ x <= HeapEnd
  /\ \A x \in Nat : x <= HeapEnd => x \in Words
  /\ \A x \in Nat : x < SizeModulus => x \in Word
  /\ \A x \in Word : x \in Nat /\ x < SizeModulus
<1>1. HeapEnd \in Nat /\ HeapEnd # 0 /\ SizeModulus \in Nat /\ 2 * HeapEnd + 1 < SizeModulus
  BY HeapSizes
<1> QED
  BY <1>1 DEF Words, Word

\* Every set of words has a last element.
LEMMA WordsMax ==
  ASSUME NEW T, T \subseteq Words, T # {}
  PROVE  \E x \in T : \A y \in T : y <= x
<1> DEFINE M == {HeapEnd - x : x \in T}
<1>0. HeapEnd \in Nat /\ \A x \in T : x \in Nat /\ x <= HeapEnd
  BY WordFacts
<1>1. M \subseteq Nat /\ M # {}
  BY <1>0
<1>2. PICK m \in M : \A y \in M : m <= y
  BY <1>1, NatMin
<1>3. PICK x \in T : m = HeapEnd - x
  OBVIOUS
<1>4. \A y \in T : HeapEnd - x <= HeapEnd - y
  BY <1>2, <1>3
<1> QED
  BY <1>0, <1>4

LEMMA Halves ==
  \A a \in Nat : /\ a \div 2 \in Nat /\ 2 * (a \div 2) <= a /\ a <= 2 * (a \div 2) + 1
                 /\ (a % 2 = 1 <=> a = 2 * (a \div 2) + 1)
                 /\ (~(a % 2 = 1) <=> a = 2 * (a \div 2))
OBVIOUS

LEMMA Doubles ==
  \A a \in Nat : (2 * a) \div 2 = a /\ ~((2 * a) % 2 = 1)
                 /\ (2 * a + 1) \div 2 = a /\ (2 * a + 1) % 2 = 1
OBVIOUS

\* Reading a header.
LEMMA HeaderOf ==
  ASSUME NEW m \in [Words -> Word], NEW h \in Words
  PROVE  /\ m[h] \in Nat /\ m[h] < SizeModulus /\ m[h] \div 2 \in Nat /\ After(m, h) \in Nat
         /\ Bytes(m, h) = 2 * (After(m, h) - h)
         /\ (~Used(m, h) => m[h] = 2 * (After(m, h) - h))
         /\ (Used(m, h) => m[h] = 2 * (After(m, h) - h) + 1)
<1>1. m[h] \in Word /\ h \in Nat
  BY WordFacts
<1> DEFINE k == m[h] \div 2
<1>2. m[h] \in Nat /\ m[h] < SizeModulus
  BY <1>1, WordFacts
<1>3. /\ k \in Nat
      /\ (m[h] % 2 = 1 <=> m[h] = 2 * k + 1)
      /\ (~(m[h] % 2 = 1) <=> m[h] = 2 * k)
  BY <1>2, Halves
<1>4. After(m, h) = h + k /\ Bytes(m, h) = 2 * k /\ (Used(m, h) <=> m[h] % 2 = 1)
  BY DEF After, Bytes, Used
<1> HIDE DEF k
<1>5. After(m, h) - h = k /\ After(m, h) \in Nat
  BY <1>1, <1>3, <1>4
<1> QED
  BY <1>2, <1>3, <1>4, <1>5 DEF k

-----------------------------------------------------------------------------
(* The walk *)

\* The words met from b, as the least set closed under the walk.
Reach(m, b) ==
  {c \in Words : \A S \in SUBSET Words :
     b \in S /\ (\A d \in S : ~Stops(m, d) => After(m, d) \in S) => c \in S}

LEMMA ReachUnfolds ==
  ASSUME NEW m, NEW b \in Words
  PROVE  Reach(m, b) = IF Stops(m, b) THEN {b} ELSE {b} \cup Reach(m, After(m, b))
<1> DEFINE Closed(S) == \A d \in S : ~Stops(m, d) => After(m, d) \in S
<1>0. \A c \in Words : ~Stops(m, c) => After(m, c) \in Words
  BY WordFacts DEF Stops
<1>1. CASE Stops(m, b)
  <2>1. {b} \in SUBSET Words /\ Closed({b})
    BY <1>1
  <2> QED
    BY <1>1, <2>1 DEF Reach
<1>2. CASE ~Stops(m, b)
  <2> DEFINE n == After(m, b)
             N == {b} \cup Reach(m, n)
  <2>0. n \in Words
    BY <1>0, <1>2
  <2>1. \A S \in SUBSET Words : b \in S /\ Closed(S) => n \in S
    BY <1>2
  <2> HIDE DEF n
  <2>2. N \subseteq Reach(m, b)
    BY <2>1 DEF Reach
  <2>3. N \in SUBSET Words /\ b \in N
    BY DEF Reach
  <2>4. Closed(N)
    <3> SUFFICES ASSUME NEW d \in N, ~Stops(m, d) PROVE After(m, d) \in N
      OBVIOUS
    <3>1. CASE d = b
      <4>1. n \in Reach(m, n)
        BY <2>0 DEF Reach
      <4> QED
        BY <3>1, <4>1 DEF n
    <3>2. CASE d \in Reach(m, n)
      <4>1. After(m, d) \in Words
        BY <1>0, <3>2 DEF Reach
      <4> QED
        BY <3>2, <4>1 DEF Reach
    <3> QED
      BY <3>1, <3>2
  <2>5. Reach(m, b) \subseteq N
    BY <2>3, <2>4 DEF Reach
  <2> QED
    BY <1>2, <2>2, <2>5 DEF n
<1> QED
  BY <1>1, <1>2

\* The recursive function of Chain exists, as Reach is one.
LEMMA ChainUnfolds ==
  ASSUME NEW m
  PROVE  \A b \in Words :
           Chain(m, b) = IF Stops(m, b) THEN {b} ELSE {b} \cup Chain(m, After(m, b))
<1> DEFINE Is(f) == f = [c \in Words |->
                           IF m[c] = 0 \/ After(m, c) \notin c + 1 .. HeapEnd
                           THEN {c} ELSE {c} \cup f[After(m, c)]]
           walk == CHOOSE f : Is(f)
           r == [c \in Words |-> Reach(m, c)]
<1>1. \A c \in Words : ~Stops(m, c) => After(m, c) \in Words
  BY WordFacts DEF Stops
<1>2. \A c \in Words : r[c] = IF Stops(m, c) THEN {c} ELSE {c} \cup r[After(m, c)]
  BY <1>1, ReachUnfolds
<1>3. Is(r)
  BY <1>2 DEF Stops
<1>4. Is(walk)
  BY <1>3
<1>5. \A b : Chain(m, b) = walk[b]
  BY DEF Chain
<1> HIDE DEF walk
<1> QED
  BY <1>4, <1>5 DEF Stops

\* Over a row of headers the walk meets those from where it starts.
LEMMA RowChain ==
  ASSUME NEW m, NEW H, Row(m, H)
  PROVE  \A b \in H : Chain(m, b) = {h \in H : b <= h}
<1> DEFINE Bad == {b \in H : Chain(m, b) # {h \in H : b <= h}}
<1> SUFFICES ASSUME Bad # {} PROVE FALSE
  OBVIOUS
<1>0. H \subseteq Words /\ HeapEnd \in H /\ \A h \in H : h \in Nat /\ h <= HeapEnd
  BY WordFacts DEF Row
<1>1. PICK b \in Bad : \A y \in Bad : y <= b
  <2>1. Bad \subseteq Words
    BY <1>0
  <2> QED
    BY <2>1, WordsMax
<1>2. b \in H /\ Chain(m, b) # {h \in H : b <= h}
  OBVIOUS
<1>3. Chain(m, b) = IF Stops(m, b) THEN {b} ELSE {b} \cup Chain(m, After(m, b))
  BY <1>0, <1>2, ChainUnfolds
<1>4. CASE b = HeapEnd
  <2>1. Stops(m, b)
    BY <1>4 DEF Row, Stops
  <2>2. {h \in H : b <= h} = {b}
    BY <1>0, <1>4
  <2> QED
    BY <1>2, <1>3, <2>1, <2>2
<1>5. CASE b # HeapEnd
  <2> DEFINE n == After(m, b)
  <2>1. m[b] # 0 /\ n \in H /\ b < n /\ \A g \in H : ~(b < g /\ g < n)
    BY <1>2, <1>5 DEF Row
  <2>2. ~Stops(m, b)
    BY <1>0, <1>2, <2>1 DEF Stops
  <2> HIDE DEF n
  <2>3. n \notin Bad
    BY <1>0, <1>1, <2>1
  <2>4. Chain(m, n) = {h \in H : n <= h}
    BY <2>1, <2>3
  <2>5. Chain(m, b) = {b} \cup {h \in H : n <= h}
    BY <1>3, <2>2, <2>4 DEF n
  <2>6. {b} \cup {h \in H : n <= h} = {h \in H : b <= h}
    BY <1>0, <1>2, <2>1
  <2> QED
    BY <1>2, <2>5, <2>6
<1> QED
  BY <1>4, <1>5

\* In particular it is the row.
LEMMA RowIsChain ==
  ASSUME NEW m, NEW H, Row(m, H)
  PROVE  Chain(m, 0) = H
<1>1. 0 \in H /\ \A h \in H : 0 <= h
  BY WordFacts DEF Row
<1>2. Chain(m, 0) = {h \in H : 0 <= h}
  BY <1>1, RowChain
<1> QED
  BY <1>1, <1>2

\* Two headers of a row: the block of the first ends before the second.
LEMMA RowOrder ==
  ASSUME NEW m, NEW H, Row(m, H), NEW g \in H, NEW h \in H, g < h
  PROVE  g # HeapEnd /\ After(m, g) <= h /\ After(m, g) \in H
<1>1. g \in Nat /\ h \in Nat /\ h <= HeapEnd /\ HeapEnd \in Nat
  BY WordFacts DEF Row
<1>2. g # HeapEnd
  BY <1>1
<1>3. After(m, g) \in H /\ ~(g < h /\ h < After(m, g))
  BY <1>2 DEF Row
<1>4. After(m, g) \in Nat
  <2>1. H \subseteq Words
    BY DEF Row
  <2> QED
    BY <1>3, <2>1, WordFacts
<1> QED
  BY <1>1, <1>2, <1>3, <1>4

-----------------------------------------------------------------------------
(* Runs of free blocks *)

\* The header before a header.
LEMMA Predecessor ==
  ASSUME NEW m, NEW H, Row(m, H), NEW h \in H, h # 0
  PROVE  \E g \in H \ {HeapEnd} : /\ g < h /\ After(m, g) = h
                               /\ \A c \in H : c < h => c <= g
<1>0. /\ h \in Nat /\ h <= HeapEnd /\ h - 1 \in 0 .. HeapEnd - 1
      /\ \A c \in H : c \in Nat
  BY WordFacts DEF Row
<1>1. PICK g \in H \ {HeapEnd} : g <= h - 1 /\ h - 1 < After(m, g)
  BY <1>0 DEF Row
<1>2. g \in Nat /\ After(m, g) \in H /\ \A c \in H : ~(g < c /\ c < After(m, g))
  BY <1>0 DEF Row
<1>3. After(m, g) \in Nat /\ g < h /\ After(m, g) = h
  <2> DEFINE n == After(m, g)
  <2>1. n \in Nat /\ h - 1 < n /\ ~(g < h /\ h < n)
    BY <1>0, <1>1, <1>2
  <2> HIDE DEF n
  <2>2. g < h /\ n = h
    BY <1>0, <1>1, <1>2, <2>1
  <2> QED
    BY <2>1, <2>2 DEF n
<1>4. \A c \in H : c < h => c <= g
  BY <1>0, <1>2, <1>3
<1> QED
  BY <1>3, <1>4

\* The free headers of a row.
LEMMA FreeOfRow ==
  ASSUME NEW m \in [Words -> Word], NEW H, Row(m, H)
  PROVE  /\ FreeHeaders(m) = {h \in H : m[h] # 0 /\ ~Used(m, h)}
         /\ \A h \in FreeHeaders(m) :
              h \in H \ {HeapEnd} /\ After(m, h) \in H /\ h < After(m, h)
              /\ m[h] = 2 * (After(m, h) - h)
<1>1. Chain(m, 0) = H /\ H \subseteq Words
  BY RowIsChain DEF Row
<1>2. FreeHeaders(m) = {h \in H : m[h] # 0 /\ ~Used(m, h)}
  BY <1>1 DEF FreeHeaders, Headers
<1>3. ASSUME NEW h \in FreeHeaders(m)
      PROVE  h \in H \ {HeapEnd} /\ After(m, h) \in H /\ h < After(m, h)
             /\ m[h] = 2 * (After(m, h) - h)
  <2>1. h \in H /\ m[h] # 0 /\ ~Used(m, h) /\ h \in Words
    BY <1>1, <1>2
  <2>2. h # HeapEnd
    BY <2>1 DEF Row
  <2> QED
    BY <2>1, <2>2, HeaderOf DEF Row
<1> QED
  BY <1>2, <1>3

\* What a run is.
IsRun(m, H, r) ==
  /\ r.start \in FreeHeaders(m) /\ r.end \in H \ FreeHeaders(m) /\ r.start < r.end
  /\ \A c \in H : r.start <= c /\ c < r.end => c \in FreeHeaders(m)

LEMMA RunFacts ==
  ASSUME NEW m \in [Words -> Word], NEW H, Row(m, H)
  PROVE  \A r \in Runs(m) : /\ IsRun(m, H, r) /\ r = [start |-> r.start, end |-> r.end]
                            /\ \A g \in FreeHeaders(m) : After(m, g) # r.start
<1> DEFINE F == FreeHeaders(m)
           inner == {After(m, b) : b \in F}
           Ends(b) == {c \in Chain(m, 0) \ F : c > b}
<1>1. /\ Chain(m, 0) = H /\ H \subseteq Words /\ HeapEnd \in H
      /\ \A c \in H : c \in Nat /\ c <= HeapEnd
  BY RowIsChain, WordFacts DEF Row
<1>2. /\ F = {h \in H : m[h] # 0 /\ ~Used(m, h)} /\ HeapEnd \notin F
      /\ \A h \in F : h \in H \ {HeapEnd}
  BY FreeOfRow
<1>3. Runs(m) = {[start |-> b, end |-> Min(Ends(b))] : b \in F \ inner}
  BY DEF Runs, FreeHeaders, Headers
<1> SUFFICES ASSUME NEW r \in Runs(m)
             PROVE  /\ IsRun(m, H, r) /\ r = [start |-> r.start, end |-> r.end]
                    /\ \A g \in F : After(m, g) # r.start
  OBVIOUS
<1> HIDE DEF F
<1>0. PICK b \in F \ inner : r = [start |-> b, end |-> Min(Ends(b))]
  BY <1>3
<1>4. HeapEnd \in Ends(b) /\ Ends(b) \subseteq Nat
  BY <1>1, <1>2
<1>5. Min(Ends(b)) \in Ends(b) /\ \A y \in Ends(b) : Min(Ends(b)) <= y
  BY <1>4, MinIsLeast
<1>6. r.start = b /\ r.end = Min(Ends(b)) /\ r = [start |-> r.start, end |-> r.end]
  BY <1>0
<1>7. r.end \in H \ F /\ b < r.end /\ \A c \in H \ F : c > b => r.end <= c
  BY <1>1, <1>5, <1>6
<1>8. \A c \in H : b <= c /\ c < r.end => c \in F
  BY <1>1, <1>2, <1>7
<1>9. \A g \in F : After(m, g) # b
  BY <1>2
<1>10. IsRun(m, H, r)
  BY <1>6, <1>7, <1>8 DEF IsRun, F
<1> QED
  BY <1>6, <1>9, <1>10

\* Every free block is in a run.
LEMMA RunCovers ==
  ASSUME NEW m \in [Words -> Word], NEW H, Row(m, H), NEW w \in FreeHeaders(m)
  PROVE  \E r \in Runs(m) : r.start <= w /\ w < r.end
<1> DEFINE F == FreeHeaders(m)
           inner == {After(m, b) : b \in F}
           Ends(b) == {c \in Chain(m, 0) \ F : c > b}
           T == {b \in F : b <= w /\ \A c \in H : b <= c /\ c <= w => c \in F}
<1>1. /\ Chain(m, 0) = H /\ H \subseteq Words /\ HeapEnd \in H
      /\ \A c \in H : c \in Nat /\ c <= HeapEnd
  BY RowIsChain, WordFacts DEF Row
<1>2. /\ F = {h \in H : m[h] # 0 /\ ~Used(m, h)} /\ HeapEnd \notin F
      /\ \A h \in F : h \in H \ {HeapEnd}
                      /\ After(m, h) \in H /\ h < After(m, h)
  BY FreeOfRow
<1>3. Runs(m) = {[start |-> b, end |-> Min(Ends(b))] : b \in F \ inner}
  BY DEF Runs, FreeHeaders, Headers
<1>0. w \in F
  OBVIOUS
<1> HIDE DEF F
<1>4. w \in T /\ T \subseteq Nat
  BY <1>0, <1>1, <1>2
<1>5. PICK b \in T : \A y \in T : b <= y
  BY <1>4, NatMin
<1>6. b \notin inner
  <2> SUFFICES ASSUME NEW g \in F, b = After(m, g) PROVE FALSE
    OBVIOUS
  <2>1. g < b /\ g \in H /\ g \in Nat /\ b \in Nat /\ After(m, g) = b
    BY <1>1, <1>2
  <2>2. \A c \in H : ~(g < c /\ c < b)
    BY <1>2, <2>1 DEF Row
  <2>3. g \in T
    <3>1. b <= w /\ w \in Nat /\ \A c \in H : b <= c /\ c <= w => c \in F
      BY <1>0, <1>1, <1>2
    <3>2. ASSUME NEW c \in H, g <= c, c <= w PROVE c \in F
      <4>1. c \in Nat /\ (c = g \/ b <= c)
        BY <1>1, <2>1, <2>2, <3>2
      <4> QED
        BY <3>1, <3>2, <4>1
    <3> QED
      BY <2>1, <3>1, <3>2
  <2> QED
    BY <1>5, <2>1, <2>3
<1> DEFINE r == [start |-> b, end |-> Min(Ends(b))]
<1>7. r \in Runs(m) /\ r.start = b /\ r.end = Min(Ends(b))
  BY <1>3, <1>6
<1> HIDE DEF r
<1>8. HeapEnd \in Ends(b) /\ Ends(b) \subseteq Nat
  BY <1>1, <1>2
<1>9. r.end \in Ends(b)
  BY <1>7, <1>8, MinIsLeast
<1>10. w < r.end
  BY <1>0, <1>1, <1>2, <1>9
<1> QED
  BY <1>7, <1>10

\* Two runs have a used block between them.
LEMMA RunsApart ==
  ASSUME NEW m \in [Words -> Word], NEW H, Row(m, H),
         NEW r \in Runs(m), NEW q \in Runs(m), r.start < q.start
  PROVE  r.end <= q.start
<1>1. /\ IsRun(m, H, r) /\ IsRun(m, H, q)
      /\ \A g \in FreeHeaders(m) : After(m, g) # q.start
  BY RunFacts
<1>2. /\ r.start \in H /\ r.end \in H /\ q.start \in H
      /\ \A c \in H : c \in Nat
  BY <1>1, FreeOfRow, WordFacts DEF IsRun, Row
<1>3. q.start # 0
  BY <1>2
<1>4. PICK g \in H \ {HeapEnd} : /\ g < q.start /\ After(m, g) = q.start
                              /\ \A c \in H : c < q.start => c <= g
  BY <1>2, <1>3, Predecessor
<1>5. g \notin FreeHeaders(m) /\ r.start <= g
  BY <1>1, <1>2, <1>4
<1>6. ~(g < r.end)
  BY <1>1, <1>5 DEF IsRun
<1> QED
  BY <1>2, <1>4, <1>6

LEMMA RunUnique ==
  ASSUME NEW m \in [Words -> Word], NEW H, Row(m, H),
         NEW r \in Runs(m), NEW q \in Runs(m), NEW w \in Nat,
         r.start <= w, w < r.end, q.start <= w, w < q.end
  PROVE  r = q
<1>1. /\ IsRun(m, H, r) /\ r = [start |-> r.start, end |-> r.end]
      /\ IsRun(m, H, q) /\ q = [start |-> q.start, end |-> q.end]
  BY RunFacts
<1>2. r.start \in Nat /\ r.end \in Nat /\ q.start \in Nat /\ q.end \in Nat
  BY <1>1, FreeOfRow, WordFacts DEF IsRun, Row
<1>3. r.start = q.start
  <2>1. ~(r.start < q.start)
    BY <1>2, RunsApart
  <2>2. ~(q.start < r.start)
    BY <1>2, RunsApart
  <2> QED
    BY <1>2, <2>1, <2>2
<1>4. r.end = q.end
  <2>1. r.end \in H \ FreeHeaders(m) /\ q.end \in H \ FreeHeaders(m)
        /\ r.start < r.end /\ q.start < q.end
    BY <1>1 DEF IsRun
  <2>2. ~(r.end < q.end) /\ ~(q.end < r.end)
    BY <1>1, <1>2, <1>3, <2>1 DEF IsRun
  <2> QED
    BY <1>2, <2>2
<1> QED
  BY <1>1, <1>3, <1>4

-----------------------------------------------------------------------------
(* Merging *)

\* The headers that merging the runs rs leaves: all but those inside a run.
Kept(m, H, rs) == {h \in H : ~\E r \in rs : r.start < h /\ h < r.end}

\* What merging writes.
LEMMA MergedWords ==
  ASSUME NEW m \in [Words -> Word], NEW H, Row(m, H), NEW rs, rs \subseteq Runs(m)
  PROVE  /\ \A r \in rs : /\ Merged(m, rs)[r.start] = 2 * (r.end - r.start)
                          /\ \A w \in H : r.start < w /\ w < r.end => Merged(m, rs)[w] = 0
         /\ \A w \in Words :
              ~(w \in H /\ \E r \in rs : r.start <= w /\ w < r.end)
                => Merged(m, rs)[w] = m[w]
<1> DEFINE u == Merged(m, rs)
<1>1. \A r \in rs : /\ r \in Runs(m) /\ IsRun(m, H, r) /\ r.start \in H /\ r.end \in H
                    /\ r.start < r.end
  BY RunFacts, FreeOfRow DEF IsRun
<1>2. \A c \in H : c \in Nat /\ c \in Words
  BY WordFacts DEF Row
<1>3. Chain(m, 0) = H
  BY RowIsChain
<1>4. u = [w \in Words |->
             IF w \in H /\ \E r \in rs : r.start <= w /\ w < r.end
             THEN LET r == CHOOSE q \in rs : q.start <= w /\ w < q.end
                  IN IF w = r.start THEN RunBytes(r) ELSE 0
             ELSE m[w]]
  BY <1>3 DEF Merged
<1> HIDE DEF u
<1>5. ASSUME NEW r \in rs, NEW w \in H, r.start <= w, w < r.end
      PROVE  u[w] = IF w = r.start THEN 2 * (r.end - r.start) ELSE 0
  <2>1. w \in Words /\ w \in Nat
    BY <1>2
  <2> DEFINE q == CHOOSE q \in rs : q.start <= w /\ w < q.end
  <2>2. q \in rs /\ q.start <= w /\ w < q.end
    BY <1>5
  <2>3. u[w] = IF w = q.start THEN RunBytes(q) ELSE 0
    BY <1>4, <1>5, <2>1
  <2> HIDE DEF q
  <2>4. q = r
    BY <1>1, <1>5, <2>1, <2>2, RunUnique
  <2> QED
    BY <2>3, <2>4 DEF RunBytes
<1>6. ASSUME NEW r \in rs
      PROVE  /\ u[r.start] = 2 * (r.end - r.start)
             /\ \A w \in H : r.start < w /\ w < r.end => u[w] = 0
  <2>1. r.start \in H /\ r.start <= r.start /\ r.start < r.end
    BY <1>1, <1>2
  <2>2. u[r.start] = 2 * (r.end - r.start)
    BY <1>5, <2>1
  <2>3. ASSUME NEW w \in H, r.start < w, w < r.end PROVE u[w] = 0
    <3>1. r.start <= w /\ w # r.start
      BY <1>1, <1>2, <2>3
    <3> QED
      BY <1>5, <2>3, <3>1
  <2> QED
    BY <2>2, <2>3
<1> QED
  BY <1>4, <1>6 DEF u

\* A merged row is a row, with the same used blocks.
LEMMA MergedRow ==
  ASSUME NEW m \in [Words -> Word], NEW H, Row(m, H), NEW rs, rs \subseteq Runs(m)
  PROVE  /\ Merged(m, rs) \in [Words -> Word] /\ Row(Merged(m, rs), Kept(m, H, rs))
         /\ \A w \in Words : w \notin FreeHeaders(m) => Merged(m, rs)[w] = m[w]
         /\ {h \in Kept(m, H, rs) : Merged(m, rs)[h] # 0 /\ Used(Merged(m, rs), h)}
              = {h \in H : m[h] # 0 /\ Used(m, h)}
         /\ \A h \in FreeHeaders(m) :
              Merged(m, rs)[h] = 0 \/ h \in FreeHeaders(Merged(m, rs))
         /\ \A r \in rs : /\ r.start \in FreeHeaders(Merged(m, rs))
                          /\ After(Merged(m, rs), r.start) = r.end
                          /\ Merged(m, rs)[r.start] = 2 * (r.end - r.start)
<1> DEFINE u == Merged(m, rs)
           F == FreeHeaders(m)
           G == Kept(m, H, rs)
<1>1. \A r \in rs : /\ u[r.start] = 2 * (r.end - r.start)
                    /\ \A w \in H : r.start < w /\ w < r.end => u[w] = 0
  BY MergedWords
<1>2. \A w \in Words : ~(w \in H /\ \E r \in rs : r.start <= w /\ w < r.end) => u[w] = m[w]
  BY MergedWords
<1>3. /\ \A c \in H : c \in Nat /\ c \in Words /\ c <= HeapEnd
      /\ F = {h \in H : m[h] # 0 /\ ~Used(m, h)}
      /\ \A h \in F : h \in H \ {HeapEnd}
  BY WordFacts, FreeOfRow DEF Row
<1>4. \A r \in rs : IsRun(m, H, r)
  BY RunFacts
<1>5. \A r \in rs : /\ r.start \in F /\ r.end \in H \ F /\ r.start < r.end
                    /\ r.start \in H /\ r.start \in Nat /\ r.end \in Nat /\ r.end <= HeapEnd
                    /\ \A c \in H : r.start <= c /\ c < r.end => c \in F
  BY <1>3, <1>4 DEF IsRun
<1>6. G = {h \in H : ~\E r \in rs : r.start < h /\ h < r.end}
  BY DEF Kept
<1>7. DOMAIN u = Words /\ u = [w \in Words |-> u[w]]
  BY DEF Merged
<1> HIDE DEF u, F, G
\* The words, by the case of the header.
<1>8. ASSUME NEW w \in Words
      PROVE  \/ u[w] = m[w] /\ ~(w \in H /\ \E r \in rs : r.start <= w /\ w < r.end)
             \/ \E r \in rs : w = r.start /\ w \in F /\ u[w] = 2 * (r.end - w)
             \/ u[w] = 0 /\ w \in F /\ \E r \in rs : r.start < w /\ w < r.end
  <2>1. CASE w \in H /\ \E r \in rs : r.start <= w /\ w < r.end
    <3> PICK r \in rs : r.start <= w /\ w < r.end
      BY <2>1
    <3>1. w \in F /\ (r.start = w \/ r.start < w)
      BY <1>3, <1>5, <2>1
    <3> QED
      BY <1>1, <2>1, <3>1
  <2>2. CASE ~(w \in H /\ \E r \in rs : r.start <= w /\ w < r.end)
    BY <1>2, <2>2
  <2> QED
    BY <2>1, <2>2
<1>9. \A r \in rs : /\ 2 * (r.end - r.start) \in Nat /\ r.end - r.start \in Nat
                    /\ r.end - r.start > 0 /\ 2 * (r.end - r.start) < SizeModulus
  BY <1>5, WordFacts
<1>10. u \in [Words -> Word]
  <2>1. ASSUME NEW w \in Words PROVE u[w] \in Word
    <3>1. 0 \in Word /\ m[w] \in Word
      BY WordFacts
    <3>2. \A r \in rs : 2 * (r.end - r.start) \in Word
      BY <1>9, WordFacts
    <3> QED
      BY <1>8, <2>1, <3>1, <3>2
  <2> QED
    BY <1>7, <2>1
\* A merged run is one free block.
<1>11. ASSUME NEW r \in rs
       PROVE  u[r.start] # 0 /\ ~Used(u, r.start) /\ After(u, r.start) = r.end /\ r.start \in G
  <2> DEFINE k == r.end - r.start
  <2>1. r.start \in Nat /\ r.end \in Nat /\ k \in Nat /\ k > 0 /\ u[r.start] = 2 * k
    BY <1>1, <1>5, <1>9
  <2>2. r.start + k = r.end
    BY <2>1
  <2> HIDE DEF k
  <2>3. u[r.start] # 0 /\ u[r.start] \div 2 = k /\ ~(u[r.start] % 2 = 1)
    BY <2>1, Doubles
  <2>4. ~\E q \in rs : q.start < r.start /\ r.start < q.end
    <3> SUFFICES ASSUME NEW q \in rs, q.start < r.start, r.start < q.end PROVE FALSE
      OBVIOUS
    <3>1. q.end <= r.start
      BY RunsApart
    <3> QED
      BY <1>5, <3>1
  <2> QED
    BY <1>5, <1>6, <2>2, <2>3, <2>4 DEF Used, After
\* The other headers stay.
<1>12. ASSUME NEW h \in G, \A r \in rs : h # r.start
       PROVE  u[h] = m[h] /\ h \in H /\ ~\E r \in rs : r.start <= h /\ h < r.end
  <2>1. h \in H /\ h \in Words /\ ~\E r \in rs : r.start < h /\ h < r.end
    BY <1>3, <1>6
  <2> QED
    BY <1>8, <1>12, <2>1
<1>13. 0 \in G /\ HeapEnd \in G /\ G \subseteq Words /\ u[HeapEnd] = 0
  <2>1. 0 \in H /\ HeapEnd \in H /\ m[HeapEnd] = 0
    BY DEF Row
  <2>2. HeapEnd \notin F /\ \A r \in rs : ~(r.start < 0) /\ ~(HeapEnd < r.end)
    BY <1>3, <1>5, <2>1, WordFacts
  <2>3. 0 \in G /\ HeapEnd \in G /\ \A r \in rs : HeapEnd # r.start
    BY <1>5, <1>6, <2>1, <2>2
  <2> QED
    BY <1>3, <1>6, <1>12, <2>1, <2>3
<1>14. ASSUME NEW h \in G \ {HeapEnd}
       PROVE  /\ u[h] # 0 /\ After(u, h) \in G /\ h < After(u, h)
              /\ \A g \in G : ~(h < g /\ g < After(u, h))
  <2>0. h \in H /\ h \in Nat /\ h \in Words
    BY <1>3, <1>6
  <2>1. CASE \E r \in rs : h = r.start
    <3> PICK r \in rs : h = r.start
      BY <2>1
    <3>1. u[h] # 0 /\ After(u, h) = r.end
      BY <1>11
    <3>2. r.end \in G /\ h < r.end
      <4>1. r.end \in H \ F /\ h < r.end
        BY <1>5
      <4>2. ~\E q \in rs : q.start < r.end /\ r.end < q.end
        BY <1>3, <1>5, <4>1
      <4> QED
        BY <1>6, <4>1, <4>2
    <3>3. \A g \in G : ~(h < g /\ g < r.end)
      BY <1>6
    <3> QED
      BY <3>1, <3>2, <3>3
  <2>2. CASE \A r \in rs : h # r.start
    <3>1. u[h] = m[h] /\ ~\E r \in rs : r.start <= h /\ h < r.end
      BY <1>12, <2>2
    <3>2. After(u, h) = After(m, h)
      BY <3>1 DEF After
    <3> DEFINE n == After(m, h)
    <3>3. m[h] # 0 /\ n \in H /\ h < n /\ \A g \in H : ~(h < g /\ g < n)
      BY <2>0 DEF Row
    <3> HIDE DEF n
    <3>4. n \in G
      <4> SUFFICES ASSUME NEW r \in rs, r.start < n, n < r.end PROVE FALSE
        BY <1>6, <3>3
      <4>1. r.start \in H /\ r.start \in Nat /\ r.end \in Nat /\ n \in Nat
        BY <1>3, <1>5, <3>3
      <4>2. ~(h < r.start /\ r.start < n)
        BY <3>3, <4>1
      <4>3. r.start <= h /\ h < r.end
        BY <2>0, <3>3, <4>1, <4>2
      <4> QED
        BY <3>1, <4>3
    <3> QED
      BY <1>6, <3>1, <3>2, <3>3, <3>4 DEF n
  <2> QED
    BY <2>1, <2>2
<1>15. ASSUME NEW w \in 0 .. HeapEnd - 1
       PROVE  \E h \in G \ {HeapEnd} : h <= w /\ w < After(u, h)
  <2>1. PICK h \in H \ {HeapEnd} : h <= w /\ w < After(m, h)
    BY DEF Row
  <2>0. h \in Nat /\ h \in Words /\ After(m, h) \in H /\ After(m, h) \in Nat
    BY <1>3 DEF Row
  <2>2. CASE \E r \in rs : r.start <= h /\ h < r.end
    <3> PICK r \in rs : r.start <= h /\ h < r.end
      BY <2>2
    <3>1. r.start \in G /\ After(u, r.start) = r.end /\ r.start \in Nat /\ r.end \in Nat
          /\ r.start # HeapEnd /\ r.end \in H
      BY <1>3, <1>5, <1>11
    <3>2. After(m, h) <= r.end
      BY <3>1, RowOrder
    <3>3. r.start <= w /\ w < r.end
      BY <2>0, <2>1, <3>1, <3>2
    <3> QED
      BY <3>1, <3>3
  <2>3. CASE ~\E r \in rs : r.start <= h /\ h < r.end
    <3>1. u[h] = m[h] /\ \A r \in rs : ~(r.start < h /\ h < r.end)
      BY <1>2, <1>5, <2>0, <2>3
    <3>2. h \in G /\ After(u, h) = After(m, h)
      BY <1>6, <3>1 DEF After
    <3> QED
      BY <2>1, <3>2
  <2> QED
    BY <2>2, <2>3
<1>16. Row(u, G)
  BY <1>13, <1>14, <1>15 DEF Row
<1>17. \A w \in Words : w \notin F => u[w] = m[w]
  BY <1>8
<1>18. {h \in G : u[h] # 0 /\ Used(u, h)} = {h \in H : m[h] # 0 /\ Used(m, h)}
  <2>1. ASSUME NEW h \in H, Used(m, h) PROVE h \in G /\ u[h] = m[h]
    <3>1. h \notin F /\ h \in Words
      BY <1>3, <2>1
    <3>2. \A r \in rs : ~(r.start < h /\ h < r.end)
      BY <1>3, <1>5, <3>1
    <3> QED
      BY <1>6, <1>17, <3>1, <3>2
  <2>2. ASSUME NEW h \in G, Used(u, h) PROVE h \in H /\ u[h] = m[h]
    <3>1. \A r \in rs : h # r.start
      BY <1>11, <2>2
    <3> QED
      BY <1>12, <3>1
  <2>3. \A h \in Words : u[h] = m[h] => (Used(u, h) <=> Used(m, h))
    BY DEF Used
  <2> QED
    BY <1>3, <1>6, <2>1, <2>2, <2>3
<1>19. FreeHeaders(u) = {h \in G : u[h] # 0 /\ ~Used(u, h)}
  BY <1>10, <1>16, FreeOfRow
<1>20. ASSUME NEW h \in F, u[h] # 0 PROVE h \in FreeHeaders(u)
  <2>1. h \in H /\ h \in Words /\ ~Used(m, h)
    BY <1>3
  <2>2. h \in G
    BY <1>1, <1>6, <1>20, <2>1
  <2>3. ~Used(u, h)
    <3>1. CASE \E r \in rs : h = r.start
      BY <1>11, <3>1
    <3>2. CASE \A r \in rs : h # r.start
      BY <1>12, <2>1, <2>2, <3>2 DEF Used
    <3> QED
      BY <3>1, <3>2
  <2> QED
    BY <1>19, <1>20, <2>2, <2>3
<1>21. \A r \in rs : r.start \in FreeHeaders(u)
  BY <1>11, <1>19
<1> QED
  BY <1>1, <1>10, <1>11, <1>16, <1>17, <1>18, <1>20, <1>21 DEF u, F, G

-----------------------------------------------------------------------------
(* Blocks in use *)

LEMMA SizeFacts ==
  ASSUME Careful, NEW s \in Sizes
  PROVE  /\ s \in Nat /\ AdjSize(s) \in Nat /\ AdjSize(s) > 0 /\ AdjSize(s) >= s + 2
         /\ \E k \in Nat : k > 0 /\ AdjSize(s) = 2 * k
<1> DEFINE k == (s + 3) \div 2
           a == 2 * k
<1>1. s \in Nat /\ s + 3 < SizeModulus /\ SizeModulus \in Nat
  <2>1. s \in 0 .. SizeModulus - 1 /\ SizeModulus \in Nat
    BY HeapSizes
  <2> QED
    BY <2>1 DEF Careful
<1>2. k \in Nat /\ 2 * k <= s + 3 /\ s + 3 <= 2 * k + 1
  BY <1>1, Halves
<1>3. AdjSize(s) = a % SizeModulus
  BY DEF AdjSize
<1> HIDE DEF k
<1>4. a \in Nat /\ a < SizeModulus /\ a >= s + 2 /\ k > 0
  BY <1>1, <1>2
<1> HIDE DEF a
<1>5. a % SizeModulus = a
  BY <1>1, <1>4
<1> QED
  BY <1>1, <1>2, <1>3, <1>4, <1>5 DEF a

\* The header of a block in use, and the words of its payload, which no header
\* of the row is.
LEMMA BlockFacts ==
  ASSUME Careful, NEW m, NEW H, NEW blocks, NEW data, Described(m, H, blocks, data),
         NEW b \in blocks
  PROVE  /\ b.h \in H \ {HeapEnd} /\ m[b.h] # 0 /\ Used(m, b.h) /\ b.h \in Nat
         /\ After(m, b.h) \in H /\ b.h < After(m, b.h)
         /\ \A w \in Payload(b) : /\ w \in Nat /\ w \in Words /\ w \notin H
                                  /\ b.h < w /\ w < After(m, b.h)
<1>1. /\ m \in [Words -> Word] /\ Row(m, H)
      /\ {h \in H : m[h] # 0 /\ Used(m, h)} = {c.h : c \in blocks}
      /\ b.size \in Sizes /\ Bytes(m, b.h) >= b.size + 2
  BY DEF Described
<1>2. b.h \in H /\ m[b.h] # 0 /\ Used(m, b.h)
  BY <1>1
<1>3. \A c \in H : c \in Nat /\ c \in Words /\ c <= HeapEnd
  BY <1>1, WordFacts DEF Row
<1>4. b.h # HeapEnd
  BY <1>1, <1>2 DEF Row
<1> DEFINE n == After(m, b.h)
<1>5. n \in H /\ b.h < n /\ \A g \in H : ~(b.h < g /\ g < n)
  BY <1>1, <1>2, <1>4 DEF Row
<1>6. Bytes(m, b.h) = 2 * (n - b.h)
  BY <1>1, <1>2, <1>3, HeaderOf
<1> HIDE DEF n
<1>7. b.h + (b.size + 1) \div 2 < n
  <2> DEFINE k == (b.size + 1) \div 2
             d == n - b.h
  <2>1. b.size \in Nat /\ d \in Nat /\ d + b.h = n /\ b.h \in Nat
    BY <1>1, <1>2, <1>3, <1>5, SizeFacts
  <2>2. k \in Nat /\ 2 * k <= b.size + 1
    BY <2>1, Halves
  <2>3. 2 * d >= b.size + 2
    BY <1>1, <1>6
  <2> HIDE DEF k, d
  <2>4. k < d
    BY <2>1, <2>2, <2>3
  <2>5. b.h + k < n
    BY <2>1, <2>2, <2>4
  <2> QED
    BY <2>5 DEF k
<1>8. ASSUME NEW w \in Payload(b) PROVE w \in Nat /\ b.h < w /\ w < n
  <2>1. (b.size + 1) \div 2 \in Nat
    BY <1>1, SizeFacts, Halves
  <2> DEFINE k == (b.size + 1) \div 2
  <2>2. w \in b.h + 1 .. b.h + k
    BY DEF Payload
  <2>3. b.h + k < n /\ k \in Nat /\ b.h \in Nat /\ n \in Nat
    BY <1>2, <1>3, <1>5, <1>7, <2>1
  <2> HIDE DEF k
  <2> QED
    BY <2>2, <2>3
<1>9. \A w \in Payload(b) : w \in Words /\ w \notin H
  <2> SUFFICES ASSUME NEW w \in Payload(b) PROVE w \in Words /\ w \notin H
    OBVIOUS
  <2>1. w \in Nat /\ b.h < w /\ w < n /\ n <= HeapEnd /\ n \in Nat
    BY <1>3, <1>5, <1>8
  <2> QED
    BY <1>5, <2>1, WordFacts
<1> QED
  BY <1>2, <1>3, <1>4, <1>5, <1>8, <1>9 DEF n

\* The program's data are in no header.
LEMMA DataFacts ==
  ASSUME Careful, NEW m, NEW H, NEW blocks, NEW data, Described(m, H, blocks, data),
         NEW w \in data
  PROVE  /\ w \in Words /\ w \in Nat /\ w \notin H /\ m[w] = Junk
         /\ \E b \in blocks : w \in Payload(b)
         /\ \E h \in H : Used(m, h) /\ m[h] # 0 /\ h < w /\ w < After(m, h)
<1>1. m[w] = Junk
  BY DEF Described
<1>2. PICK b \in blocks : w \in Payload(b)
  BY DEF Described
<1> QED
  BY <1>1, <1>2, BlockFacts

\* A step that leaves the used blocks and the data alone.
LEMMA StaysDescribed ==
  ASSUME Careful, NEW m, NEW H, NEW blocks, NEW data, Described(m, H, blocks, data),
         NEW u \in [Words -> Word], NEW G, Row(u, G),
         {h \in G : u[h] # 0 /\ Used(u, h)} = {h \in H : m[h] # 0 /\ Used(m, h)},
         \A h \in H : m[h] # 0 /\ Used(m, h) => u[h] = m[h],
         \A w \in data : u[w] = m[w]
  PROVE  Described(u, G, blocks, data)
<1>1. /\ {h \in H : m[h] # 0 /\ Used(m, h)} = {b.h : b \in blocks}
      /\ \A b, c \in blocks : b.h = c.h => b = c
      /\ \A b \in blocks : b.size \in Sizes /\ b.size # 0 /\ Bytes(m, b.h) >= b.size + 2
      /\ \A w \in data : w \in Words /\ m[w] = Junk /\ \E b \in blocks : w \in Payload(b)
  BY DEF Described
<1>2. {h \in G : u[h] # 0 /\ Used(u, h)} = {b.h : b \in blocks}
  BY <1>1
<1>3. ASSUME NEW b \in blocks PROVE Bytes(u, b.h) = Bytes(m, b.h)
  BY BlockFacts DEF Bytes
<1> QED
  BY <1>1, <1>2, <1>3 DEF Described

LEMMA StaysStartable ==
  ASSUME NEW m, NEW H, NEW f, Startable(m, H, f), NEW u, NEW G,
         {h \in G : u[h] # 0 /\ Used(u, h)} \subseteq {h \in H : m[h] # 0 /\ Used(m, h)},
         \A h \in G : u[h] # 0 /\ Used(u, h) => After(u, h) = After(m, h),
         u[f] = 0 \/ f \in FreeHeaders(u)
  PROVE  Startable(u, G, f)
<1>1. f \in Words /\ \A h \in H : m[h] # 0 /\ Used(m, h) => ~(h <= f /\ f < After(m, h))
  BY DEF Startable
<1>2. \A h \in G : u[h] # 0 /\ Used(u, h) => ~(h <= f /\ f < After(u, h))
  BY <1>1
<1> QED
  BY <1>1, <1>2 DEF Startable

\* The search may start from any header that is not used.
LEMMA StartableThere ==
  ASSUME NEW m \in [Words -> Word], NEW H, Row(m, H), NEW f \in H, ~Used(m, f)
  PROVE  Startable(m, H, f)
<1>1. f \in Words /\ \A c \in H : c \in Nat
  BY WordFacts DEF Row
<1>2. m[f] = 0 \/ f \in FreeHeaders(m)
  BY FreeOfRow
<1>3. ASSUME NEW h \in H, m[h] # 0, Used(m, h), h <= f, f < After(m, h) PROVE FALSE
  <2>1. h < f
    BY <1>1, <1>3
  <2>2. After(m, h) <= f /\ After(m, h) \in H
    BY <2>1, RowOrder
  <2> QED
    BY <1>1, <1>3, <2>2
<1> QED
  BY <1>1, <1>2, <1>3 DEF Startable

\* Merging runs changes nothing for the program.
LEMMA MergedKeeps ==
  ASSUME Careful, NEW m, NEW H, NEW blocks, NEW data, Described(m, H, blocks, data),
         NEW rs, rs \subseteq Runs(m)
  PROVE  /\ Described(Merged(m, rs), Kept(m, H, rs), blocks, data)
         /\ \A f : Startable(m, H, f) => Startable(Merged(m, rs), Kept(m, H, rs), f)
<1> DEFINE u == Merged(m, rs)
           G == Kept(m, H, rs)
<1>1. m \in [Words -> Word] /\ Row(m, H)
  BY DEF Described
<1>2. /\ u \in [Words -> Word] /\ Row(u, G)
      /\ \A w \in Words : w \notin FreeHeaders(m) => u[w] = m[w]
      /\ {h \in G : u[h] # 0 /\ Used(u, h)} = {h \in H : m[h] # 0 /\ Used(m, h)}
      /\ \A h \in FreeHeaders(m) : u[h] = 0 \/ h \in FreeHeaders(u)
  BY <1>1, MergedRow
<1> HIDE DEF u, G
<1>3. /\ FreeHeaders(m) = {h \in H : m[h] # 0 /\ ~Used(m, h)}
      /\ H \subseteq Words
  BY <1>1, FreeOfRow DEF Row
<1>4. \A h \in H : m[h] # 0 /\ Used(m, h) => u[h] = m[h]
  BY <1>2, <1>3
<1>5. \A w \in data : u[w] = m[w]
  BY <1>2, <1>3, DataFacts
<1>6. Described(u, G, blocks, data)
  BY <1>2, <1>4, <1>5, StaysDescribed
<1>7. ASSUME NEW f, Startable(m, H, f) PROVE Startable(u, G, f)
  <2>1. u[f] = 0 \/ f \in FreeHeaders(u)
    BY <1>2, <1>7 DEF Startable
  <2>2. \A h \in G : u[h] # 0 /\ Used(u, h) => After(u, h) = After(m, h)
    BY <1>2, <1>4 DEF After
  <2> QED
    BY <1>2, <1>7, <2>1, <2>2, StaysStartable
<1> QED
  BY <1>6, <1>7 DEF u, G

-----------------------------------------------------------------------------
(* The search *)

LEMMA SearchFinds ==
  ASSUME NEW m \in [Words -> Word], NEW H, Row(m, H), NEW f, Startable(m, H, f),
         NEW a \in Nat, a > 0, SearchFit(m, f, a) # NULL
  PROVE  SearchFit(m, f, a) \in FreeHeaders(m) /\ a <= m[SearchFit(m, f, a)]
<1>1. f \in Words /\ (m[f] = 0 \/ f \in FreeHeaders(m)) /\ m[f] \in Nat
  BY HeaderOf DEF Startable
<1>2. /\ FreeHeaders(m) = {h \in H : m[h] # 0 /\ ~Used(m, h)}
      /\ \A h \in H : h \in Nat /\ h \in Words
  BY FreeOfRow, WordFacts DEF Row
<1>3. CASE a <= m[f]
  BY <1>1, <1>3 DEF SearchFit
<1>4. CASE ~(a <= m[f])
  <2> DEFINE T == {b \in Chain(m, f) : m[b] # 0 /\ ~Used(m, b) /\ m[b] >= a}
  <2>1. T # {} /\ SearchFit(m, f, a) = Min(T)
    BY <1>4 DEF SearchFit
  <2>2. Chain(m, f) \subseteq H \/ T = {}
    <3>1. CASE m[f] = 0
      <4>1. Chain(m, f) = {f}
        BY <1>1, <3>1, ChainUnfolds DEF Stops
      <4> QED
        BY <3>1, <4>1
    <3>2. CASE f \in FreeHeaders(m)
      BY <1>2, <3>2, RowChain
    <3> QED
      BY <1>1, <3>1, <3>2
  <2>3. T \subseteq FreeHeaders(m) /\ T \subseteq Nat
    BY <1>2, <2>1, <2>2
  <2>4. Min(T) \in T
    BY <2>1, <2>3, MinIsLeast
  <2>5. \A b \in T : m[b] \in Nat /\ m[b] >= a
    BY <1>2, <2>3, HeaderOf
  <2> HIDE DEF T
  <2> QED
    BY <2>1, <2>3, <2>4, <2>5
<1> QED
  BY <1>3, <1>4

\* The first of the runs.
LEMMA FirstIsFirst ==
  ASSUME NEW m \in [Words -> Word], NEW H, Row(m, H), NEW rs, rs \subseteq Runs(m), rs # {}
  PROVE  FirstRun(rs) \in rs /\ \A q \in rs : FirstRun(rs).start <= q.start
<1> DEFINE T == {r.start : r \in rs}
<1>1. \A r \in rs : r.start \in Nat
  BY RunFacts, FreeOfRow, WordFacts DEF IsRun, Row
<1>2. T \subseteq Nat /\ T # {}
  BY <1>1
<1>3. PICK x \in T : \A y \in T : x <= y
  BY <1>2, NatMin
<1>4. PICK r \in rs : x = r.start
  OBVIOUS
<1>5. \A q \in rs : r.start <= q.start
  BY <1>3, <1>4
<1> QED
  BY <1>5 DEF FirstRun

\* What pack answers, and what it leaves.
LEMMA PackAnswers ==
  ASSUME NEW m \in [Words -> Word], NEW H, Row(m, H), NEW a \in Nat, a > 0
  PROVE  /\ PackResult(m, a) = NULL <=> PackFits(m, a) = {}
         /\ PackResult(m, a) # NULL =>
              /\ PackResult(m, a) \in FreeHeaders(PackMem(m, a))
              /\ a <= PackMem(m, a)[PackResult(m, a)]
<1> DEFINE p == PackResult(m, a)
           rs == {r \in Runs(m) : p = NULL \/ r.start <= p}
<1>1. PackMem(m, a) = Merged(m, rs)
  BY DEF PackMem
<1>2. \A r \in Runs(m) : r.start \in Nat /\ r.end \in Nat
  BY RunFacts, FreeOfRow, WordFacts DEF IsRun, Row
<1>3. CASE PackFits(m, a) = {}
  BY <1>3 DEF PackResult
<1>4. CASE PackFits(m, a) # {}
  <2> DEFINE r == FirstRun(PackFits(m, a))
  <2>1. PackFits(m, a) \subseteq Runs(m)
    BY DEF PackFits
  <2>2. r \in PackFits(m, a)
    BY <1>4, <2>1, FirstIsFirst
  <2>3. p = r.start
    BY <1>4 DEF PackResult
  <2>4. r \in Runs(m) /\ RunBytes(r) >= a
    BY <2>2 DEF PackFits
  <2> HIDE DEF r, p
  <2>5. p # NULL /\ p <= p
    BY <1>2, <2>3, <2>4 DEF NULL
  <2>6. r \in rs /\ rs \subseteq Runs(m)
    BY <2>3, <2>4, <2>5
  <2> HIDE DEF rs
  <2>7. p \in FreeHeaders(PackMem(m, a)) /\ PackMem(m, a)[p] = 2 * (r.end - r.start)
    BY <1>1, <2>3, <2>6, MergedRow DEF rs
  <2>8. a <= 2 * (r.end - r.start)
    BY <1>2, <2>4 DEF RunBytes
  <2> QED
    BY <1>4, <2>5, <2>7, <2>8 DEF p
<1> QED
  BY <1>3, <1>4

-----------------------------------------------------------------------------
(* Cutting a free block in two *)

\* The block q is cut at x; when x is its end, it is only written anew.
LEMMA CutRow ==
  ASSUME NEW m \in [Words -> Word], NEW H, Row(m, H), NEW q \in FreeHeaders(m),
         NEW x \in Nat, q < x, x <= After(m, q),
         NEW u \in [Words -> Word], \A h \in H \ {q} : u[h] = m[h],
         u[q] # 0, After(u, q) = x,
         x < After(m, q) => ~Used(u, x) /\ u[x] # 0 /\ After(u, x) = After(m, q)
  PROVE  /\ Row(u, H \cup {x})
         /\ {h \in H \cup {x} : u[h] # 0 /\ Used(u, h)} \ {q}
              = {h \in H : m[h] # 0 /\ Used(m, h)}
         /\ x < After(m, q) => x \in FreeHeaders(u) /\ x \notin H
<1> DEFINE n == After(m, q)
           K == H \cup {x}
<1>1. /\ q \in H \ {HeapEnd} /\ n \in H /\ q < n /\ m[q] # 0 /\ ~Used(m, q)
  BY FreeOfRow
<1>2. /\ \A c \in H : c \in Nat /\ c \in Words /\ c <= HeapEnd
      /\ H \subseteq Words /\ 0 \in H /\ HeapEnd \in H /\ m[HeapEnd] = 0
      /\ HeapEnd \in Nat
  BY WordFacts DEF Row
<1>3. \A g \in H : ~(q < g /\ g < n)
  BY <1>1 DEF Row
<1>4. /\ \A h \in H \ {HeapEnd} : m[h] # 0 /\ After(m, h) \in H /\ h < After(m, h)
      /\ \A h \in H \ {HeapEnd} : \A g \in H : ~(h < g /\ g < After(m, h))
      /\ \A w \in 0 .. HeapEnd - 1 : \E h \in H \ {HeapEnd} : h <= w /\ w < After(m, h)
  BY DEF Row
<1>5. x < n => ~Used(u, x) /\ u[x] # 0 /\ After(u, x) = n
  OBVIOUS
<1> HIDE DEF n
<1>6. n \in Nat /\ n <= HeapEnd /\ q \in Nat /\ x \in Words /\ x <= n /\ (x < n \/ x = n)
  <2>1. n \in Nat /\ n <= HeapEnd /\ q \in Nat /\ x <= n
    BY <1>1, <1>2 DEF n
  <2> QED
    BY <1>2, <2>1, WordFacts
<1>7. x < n => x \notin H
  BY <1>3
<1>8. \A h \in H \ {q} : u[h] = m[h] /\ After(u, h) = After(m, h) /\ (Used(u, h) <=> Used(m, h))
  BY DEF After, Used
<1>9. K \subseteq Words /\ 0 \in K /\ HeapEnd \in K /\ u[HeapEnd] = 0
  BY <1>1, <1>2, <1>6, <1>8
<1>10. ASSUME NEW h \in K \ {HeapEnd}
       PROVE  /\ u[h] # 0 /\ After(u, h) \in K /\ h < After(u, h)
              /\ \A g \in K : ~(h < g /\ g < After(u, h))
  <2>1. CASE h = q
    <3>1. \A g \in K : g \in Nat /\ ~(q < g /\ g < x)
      BY <1>2, <1>3, <1>6
    <3> QED
      BY <2>1, <3>1
  <2>2. CASE h \notin H
    <3>1. h = x /\ x < n
      BY <1>1, <1>6, <2>2
    <3>2. \A g \in K : ~(x < g /\ g < n)
      BY <1>2, <1>3, <1>6
    <3> QED
      BY <1>1, <1>5, <3>1, <3>2
  <2>3. CASE h \in H \ {q}
    <3> DEFINE l == After(m, h)
    <3>1. m[h] # 0 /\ l \in H /\ h < l /\ \A g \in H : ~(h < g /\ g < l)
      BY <1>4, <2>3
    <3>2. h \in Nat /\ l \in Nat
      BY <1>2, <2>3, <3>1
    <3>3. h < q => l <= q
      BY <1>1, <2>3, RowOrder
    <3>4. q < h => n <= h
      BY <1>1, <2>3, RowOrder DEF n
    <3>5. After(u, h) = l /\ u[h] = m[h]
      BY <1>8, <2>3
    <3> HIDE DEF l
    <3>6. ~(h < x /\ x < l)
      BY <1>6, <2>3, <3>2, <3>3, <3>4
    <3> QED
      BY <3>1, <3>5, <3>6
  <2> QED
    BY <2>1, <2>2, <2>3
<1>11. ASSUME NEW w \in 0 .. HeapEnd - 1
       PROVE  \E h \in K \ {HeapEnd} : h <= w /\ w < After(u, h)
  <2>1. PICK h \in H \ {HeapEnd} : h <= w /\ w < After(m, h)
    BY <1>4
  <2>2. CASE h # q
    BY <1>8, <2>1, <2>2
  <2>3. CASE h = q
    <3>1. q <= w /\ w < n /\ w \in Nat
      BY <2>1, <2>3, <1>2 DEF n
    <3>2. CASE w < x
      BY <1>1, <3>1, <3>2
    <3>3. CASE x <= w
      <4>1. x < n /\ x # HeapEnd
        BY <1>2, <1>6, <3>1, <3>3
      <4> QED
        BY <1>5, <3>1, <3>3, <4>1
    <3> QED
      BY <1>6, <3>1, <3>2, <3>3
  <2> QED
    BY <2>2, <2>3
<1>12. Row(u, K)
  BY <1>9, <1>10, <1>11 DEF Row
<1>13. {h \in K : u[h] # 0 /\ Used(u, h)} \ {q} = {h \in H : m[h] # 0 /\ Used(m, h)}
  <2>1. x \in H \/ ~Used(u, x)
    BY <1>1, <1>5, <1>6
  <2> QED
    BY <1>1, <1>8, <2>1
<1>14. x < n => x \in FreeHeaders(u) /\ x \notin H
  BY <1>5, <1>7, <1>12, FreeOfRow
<1> QED
  BY <1>12, <1>13, <1>14 DEF n

\* The data of the program are not in a free block.
LEMMA DataNotFree ==
  ASSUME Careful, NEW m, NEW H, NEW blocks, NEW data, Described(m, H, blocks, data),
         NEW q \in FreeHeaders(m), NEW w \in data
  PROVE  ~(q <= w /\ w < After(m, q))
<1>1. m \in [Words -> Word] /\ Row(m, H)
  BY DEF Described
<1>2. PICK h \in H : Used(m, h) /\ m[h] # 0 /\ h < w /\ w < After(m, h)
  BY DataFacts
<1>3. q \in H /\ ~Used(m, q) /\ w \in Nat /\ \A c \in H : c \in Nat
  <2>1. w \in Nat
    BY DataFacts
  <2>2. q \in H /\ ~Used(m, q)
    BY <1>1, FreeOfRow
  <2>3. \A c \in H : c \in Nat
    BY <1>1, WordFacts DEF Row
  <2> QED
    BY <2>1, <2>2, <2>3
<1>4. CASE q < h
  <2>1. After(m, q) <= h /\ After(m, q) \in H
    BY <1>1, <1>3, <1>4, RowOrder
  <2> QED
    BY <1>2, <1>3, <2>1
<1>5. CASE h < q
  <2>1. After(m, h) <= q /\ After(m, h) \in H
    BY <1>1, <1>3, <1>5, RowOrder
  <2> QED
    BY <1>2, <1>3, <2>1
<1> QED
  BY <1>2, <1>3, <1>4, <1>5

\* MEM_allocAt's split.
Split(m, q, x) == [m EXCEPT ![q] = 2 * (x - q), ![x] = 2 * (After(m, q) - x)]

LEMMA SplitKeeps ==
  ASSUME Careful, NEW m, NEW H, NEW blocks, NEW data, Described(m, H, blocks, data),
         NEW q \in FreeHeaders(m), NEW x \in Nat, q < x, x < After(m, q)
  PROVE  /\ Described(Split(m, q, x), H \cup {x}, blocks, data)
         /\ x \in FreeHeaders(Split(m, q, x))
         /\ Split(m, q, x)[x] = 2 * (After(m, q) - x)
<1> DEFINE n == After(m, q)
           u == Split(m, q, x)
           K == H \cup {x}
<1>1. m \in [Words -> Word] /\ Row(m, H)
  BY DEF Described
<1>2. q \in H /\ n \in H /\ q < n /\ ~Used(m, q) /\ \A g \in H : ~(q < g /\ g < n)
  BY <1>1, FreeOfRow DEF Row
<1>3. \A c \in H : c \in Nat /\ c \in Words /\ c <= HeapEnd
  BY <1>1, WordFacts DEF Row
<1>4. u = [m EXCEPT ![q] = 2 * (x - q), ![x] = 2 * (n - x)]
  BY DEF Split
<1> HIDE DEF u, n
<1>5. q \in Nat /\ n \in Nat /\ n <= HeapEnd /\ q \in Words /\ q # x /\ q < x /\ x < n
  BY <1>2, <1>3 DEF n
<1>6. x \in Words
  <2>1. x <= HeapEnd
    BY <1>5, WordFacts
  <2> QED
    BY <2>1, WordFacts
<1> DEFINE c == x - q
           d == n - x
<1>7. /\ c \in Nat /\ c > 0 /\ q + c = x /\ d \in Nat /\ d > 0 /\ x + d = n
      /\ 2 * c < SizeModulus /\ 2 * d < SizeModulus /\ 2 * c \in Nat /\ 2 * d \in Nat
  BY <1>5, WordFacts
<1>8. u = [m EXCEPT ![q] = 2 * c, ![x] = 2 * d]
  BY <1>4
<1> HIDE DEF c, d
<1>9. 2 * c \in Word /\ 2 * d \in Word
  BY <1>7, WordFacts
<1>10. u \in [Words -> Word]
  BY <1>1, <1>8, <1>9
<1>11. u[q] = 2 * c /\ u[x] = 2 * d /\ \A w \in Words \ {q, x} : u[w] = m[w]
  BY <1>1, <1>5, <1>6, <1>8
<1>12. /\ u[q] # 0 /\ After(u, q) = x /\ ~Used(u, q)
       /\ u[x] # 0 /\ After(u, x) = n /\ ~Used(u, x)
  <2>1. /\ (2 * c) \div 2 = c /\ ~((2 * c) % 2 = 1)
        /\ (2 * d) \div 2 = d /\ ~((2 * d) % 2 = 1)
    BY <1>7, Doubles
  <2>2. /\ u[q] \div 2 = c /\ ~(u[q] % 2 = 1) /\ u[x] \div 2 = d /\ ~(u[x] % 2 = 1)
    BY <1>11, <2>1
  <2>3. u[q] # 0 /\ u[x] # 0
    BY <1>7, <1>11
  <2> QED
    BY <1>7, <2>2, <2>3 DEF After, Used
<1>13. \A h \in H \ {q} : u[h] = m[h]
  BY <1>2, <1>3, <1>5, <1>11
<1>14. /\ Row(u, K) /\ x \in FreeHeaders(u)
       /\ {h \in K : u[h] # 0 /\ Used(u, h)} \ {q} = {h \in H : m[h] # 0 /\ Used(m, h)}
  <2>1. x <= After(m, q) /\ x < After(m, q) /\ After(m, q) = n
    BY <1>5 DEF n
  <2> QED
    BY <1>1, <1>5, <1>10, <1>12, <1>13, <2>1, CutRow
<1>15. {h \in K : u[h] # 0 /\ Used(u, h)} = {h \in H : m[h] # 0 /\ Used(m, h)}
  BY <1>12, <1>14
<1>16. \A h \in H : m[h] # 0 /\ Used(m, h) => u[h] = m[h]
  BY <1>2, <1>13
<1>17. \A w \in data : u[w] = m[w]
  <2> SUFFICES ASSUME NEW w \in data PROVE u[w] = m[w]
    OBVIOUS
  <2>1. w \in Words /\ w \in Nat /\ ~(q <= w /\ w < n)
    BY DataFacts, DataNotFree DEF n
  <2>2. w # q /\ w # x
    BY <1>5, <2>1
  <2> QED
    BY <1>11, <2>1, <2>2
<1>18. Described(u, K, blocks, data)
  BY <1>10, <1>14, <1>15, <1>16, <1>17, StaysDescribed
<1> QED
  BY <1>11, <1>14, <1>18 DEF u, n, d

-----------------------------------------------------------------------------
(* Taking a block *)

\* The block taken is a used block of the row, what is left of the free one
\* follows it, and the next search may start where TakeFree says.
LEMMA TakeKeeps ==
  ASSUME Careful, NEW m, NEW H, NEW blocks, NEW data, Described(m, H, blocks, data),
         NEW p \in FreeHeaders(m), NEW s \in Sizes, s # 0, AdjSize(s) <= m[p]
  PROVE  LET u == TakeMem(m, p, AdjSize(s))
             K == H \cup {p + AdjSize(s) \div 2}
         IN /\ Described(u, K, blocks \cup {[h |-> p, size |-> s]}, data)
            /\ Startable(u, K, TakeFree(m, p, AdjSize(s)))
<1> DEFINE a == AdjSize(s)
           rest == p + a \div 2
           left == m[p] - a
           n == After(m, p)
           K == H \cup {rest}
           u == TakeMem(m, p, a)
           f == TakeFree(m, p, a)
           B == blocks \cup {[h |-> p, size |-> s]}
<1>1. m \in [Words -> Word] /\ Row(m, H)
  BY DEF Described
<1>2. /\ p \in H /\ n \in H /\ p < n /\ m[p] = 2 * (n - p)
      /\ ~Used(m, p) /\ \A g \in H : ~(p < g /\ g < n)
  BY <1>1, FreeOfRow DEF Row
<1>3. /\ \A c \in H : c \in Nat /\ c \in Words /\ c <= HeapEnd
      /\ H \subseteq Words /\ HeapEnd \in H /\ m[HeapEnd] = 0
  BY <1>1, WordFacts DEF Row
<1>4. PICK k \in Nat : k > 0 /\ a = 2 * k
  BY SizeFacts
<1>5. a >= s + 2 /\ s \in Nat
  BY SizeFacts
<1>6. u = [w \in Words |-> IF w = p THEN a + 1
                           ELSE IF w = rest /\ left > 0 THEN left ELSE m[w]]
  BY DEF TakeMem
<1>7. f = IF left > 0 THEN rest ELSE Min({b \in Chain(m, rest) : ~Used(m, b)})
  BY DEF TakeFree
<1>8. a <= m[p]
  OBVIOUS
<1> HIDE DEF a, u, f, n
<1>9. rest = p + k
  BY <1>4
<1> HIDE DEF rest
<1> DEFINE d == n - rest
<1>10. /\ p \in Nat /\ n \in Nat /\ n <= HeapEnd /\ p \in Words
       /\ rest \in Nat /\ p < rest /\ rest <= n
       /\ d \in Nat /\ rest + d = n /\ left = 2 * d /\ (left > 0 <=> d > 0)
       /\ (d > 0 <=> rest < n) /\ (~(rest < n) => rest = n)
  <2>1. p \in Nat /\ n \in Nat /\ n <= HeapEnd /\ p \in Words
    BY <1>2, <1>3
  <2>2. 2 * k <= 2 * (n - p)
    BY <1>2, <1>4, <1>8
  <2>3. k <= n - p
    BY <2>1, <2>2
  <2>4. rest \in Nat /\ p < rest /\ rest <= n
    BY <1>4, <1>9, <2>1, <2>3
  <2>5. left = 2 * (n - p) - 2 * k
    BY <1>2, <1>4
  <2>6. left = 2 * d
    BY <1>4, <1>9, <2>1, <2>4, <2>5
  <2>7. d \in Nat /\ rest + d = n /\ (d > 0 <=> rest < n) /\ (~(rest < n) => rest = n)
    BY <2>1, <2>4
  <2> HIDE DEF left, d
  <2> QED
    BY <2>1, <2>4, <2>6, <2>7
<1> HIDE DEF left, d
<1>11. rest \in Words
  <2>1. rest <= HeapEnd
    BY <1>10, WordFacts
  <2> QED
    BY <1>10, <2>1, WordFacts
<1>12. u \in [Words -> Word]
  <2>1. 2 * k + 1 \in Word
    <3>1. k <= HeapEnd
      BY <1>4, <1>9, <1>10, WordFacts
    <3>2. 2 * k + 1 < SizeModulus /\ 2 * k + 1 \in Nat
      BY <3>1, WordFacts
    <3> QED
      BY <3>2, WordFacts
  <2>2. 2 * d \in Word
    <3>1. 2 * d < SizeModulus /\ 2 * d \in Nat
      BY <1>10, WordFacts
    <3> QED
      BY <3>1, WordFacts
  <2>3. a + 1 \in Word /\ left \in Word
    BY <1>4, <1>10, <2>1, <2>2
  <2> QED
    BY <1>1, <1>6, <2>3
<1>13. /\ u[p] = 2 * k + 1
       /\ rest < n => u[rest] = 2 * d
       /\ \A w \in Words \ {p, rest} : u[w] = m[w]
       /\ rest = n => u[rest] = m[rest]
  <2>1. u[p] = 2 * k + 1
    BY <1>4, <1>6, <1>10
  <2>2. rest # p
    BY <1>10
  <2>3. u[rest] = IF left > 0 THEN left ELSE m[rest]
    BY <1>6, <1>11, <2>2
  <2>4. rest < n => u[rest] = 2 * d
    BY <1>10, <2>3
  <2>5. rest = n => u[rest] = m[rest]
    BY <1>10, <2>3
  <2>6. \A w \in Words \ {p, rest} : u[w] = m[w]
    BY <1>6
  <2> QED
    BY <2>1, <2>4, <2>5, <2>6
<1>14. u[p] # 0 /\ After(u, p) = rest /\ Used(u, p) /\ Bytes(u, p) = 2 * k
  <2>1. (2 * k + 1) \div 2 = k /\ (2 * k + 1) % 2 = 1 /\ 2 * k + 1 # 0
    BY Doubles
  <2>2. u[p] # 0 /\ u[p] \div 2 = k /\ u[p] % 2 = 1
    BY <1>13, <2>1
  <2> QED
    BY <1>9, <2>2 DEF After, Used, Bytes
<1>15. rest < n => ~Used(u, rest) /\ u[rest] # 0 /\ After(u, rest) = n
  <2> SUFFICES ASSUME rest < n PROVE ~Used(u, rest) /\ u[rest] # 0 /\ After(u, rest) = n
    OBVIOUS
  <2>1. (2 * d) \div 2 = d /\ ~((2 * d) % 2 = 1) /\ d > 0
    BY <1>10, Doubles
  <2>2. u[rest] # 0 /\ u[rest] \div 2 = d /\ ~(u[rest] % 2 = 1)
    <3>1. u[rest] = 2 * d
      BY <1>13
    <3>2. u[rest] # 0
      BY <1>10, <2>1, <3>1
    <3> QED
      BY <2>1, <3>1, <3>2
  <2> QED
    BY <1>10, <2>2 DEF After, Used
<1>16. \A h \in H \ {p} : u[h] = m[h]
  <2> SUFFICES ASSUME NEW h \in H \ {p} PROVE u[h] = m[h]
    OBVIOUS
  <2>1. CASE h = rest
    BY <1>2, <1>10, <1>13, <2>1
  <2>2. CASE h # rest
    BY <1>3, <1>13, <2>2
  <2> QED
    BY <2>1, <2>2
<1>17. /\ Row(u, K)
       /\ {h \in K : u[h] # 0 /\ Used(u, h)} \ {p} = {h \in H : m[h] # 0 /\ Used(m, h)}
       /\ rest < n => rest \in FreeHeaders(u)
  <2>1. n = After(m, p) /\ rest <= After(m, p) /\ rest \in Nat /\ p < rest
    BY <1>10 DEF n
  <2>2. rest < After(m, p) => ~Used(u, rest) /\ u[rest] # 0 /\ After(u, rest) = After(m, p)
    BY <1>15, <2>1
  <2>3. /\ Row(u, H \cup {rest})
        /\ {h \in H \cup {rest} : u[h] # 0 /\ Used(u, h)} \ {p}
             = {h \in H : m[h] # 0 /\ Used(m, h)}
        /\ rest < After(m, p) => rest \in FreeHeaders(u) /\ rest \notin H
    BY <1>1, <1>12, <1>14, <1>16, <2>1, <2>2, CutRow
  <2> QED
    BY <2>1, <2>3
\* The blocks in use.
<1>18. \A b \in blocks : b.h \in H /\ b.h # p /\ m[b.h] # 0 /\ Used(m, b.h)
  BY <1>2, BlockFacts
<1>19. {h \in K : u[h] # 0 /\ Used(u, h)} = {b.h : b \in B}
  <2>1. {h \in H : m[h] # 0 /\ Used(m, h)} = {b.h : b \in blocks}
    BY DEF Described
  <2>2. {b.h : b \in B} = {b.h : b \in blocks} \cup {p}
    <3> DEFINE new == [h |-> p, size |-> s]
    <3>1. new.h = p /\ B = blocks \cup {new}
      OBVIOUS
    <3> HIDE DEF new, B
    <3> QED
      BY <3>1
  <2>3. p \in K /\ u[p] # 0 /\ Used(u, p)
    BY <1>2, <1>14
  <2> QED
    BY <1>17, <2>1, <2>2, <2>3
<1>20. \A b, c \in B : b.h = c.h => b = c
  <2>1. \A b, c \in blocks : b.h = c.h => b = c
    BY DEF Described
  <2> QED
    BY <1>18, <2>1
<1>21. \A b \in B : b.size \in Sizes /\ b.size # 0 /\ Bytes(u, b.h) >= b.size + 2
  <2>1. \A b \in blocks : b.size \in Sizes /\ b.size # 0 /\ Bytes(m, b.h) >= b.size + 2
    BY DEF Described
  <2>2. \A b \in blocks : Bytes(u, b.h) = Bytes(m, b.h)
    BY <1>16, <1>18 DEF Bytes
  <2>3. Bytes(u, p) >= s + 2
    BY <1>4, <1>5, <1>14
  <2> QED
    BY <2>1, <2>2, <2>3
<1>22. \A w \in data : w \in Words /\ u[w] = Junk /\ \E b \in B : w \in Payload(b)
  <2> SUFFICES ASSUME NEW w \in data
               PROVE  w \in Words /\ u[w] = Junk /\ \E b \in B : w \in Payload(b)
    OBVIOUS
  <2>1. /\ w \in Words /\ w \in Nat /\ w \notin H /\ m[w] = Junk
        /\ \E b \in blocks : w \in Payload(b)
    BY DataFacts
  <2>2. ~(p <= w /\ w < n)
    BY DataNotFree DEF n
  <2>3. w # p /\ w # rest
    BY <1>2, <1>10, <2>1, <2>2
  <2> QED
    BY <1>13, <2>1, <2>3
<1>23. Described(u, K, B, data)
  BY <1>12, <1>17, <1>19, <1>20, <1>21, <1>22 DEF Described
\* The word the next search starts from.
<1>24. f \in K /\ ~Used(u, f)
  <2>1. CASE rest < n
    BY <1>7, <1>10, <1>15, <2>1
  <2>2. CASE ~(rest < n)
    <3> DEFINE T == {b \in Chain(m, rest) : ~Used(m, b)}
    <3>1. rest = n /\ rest \in H /\ ~(left > 0)
      BY <1>2, <1>10, <2>2
    <3>2. Chain(m, rest) = {h \in H : rest <= h}
      BY <1>1, <3>1, RowChain
    <3>3. ~Used(m, HeapEnd)
      BY <1>3 DEF Used
    <3>4. T \subseteq Nat /\ HeapEnd \in T
      <4>1. HeapEnd \in Chain(m, rest)
        BY <1>3, <1>10, <3>1, <3>2
      <4>2. Chain(m, rest) \subseteq Nat
        BY <1>3, <3>2
      <4> QED
        BY <3>3, <4>1, <4>2
    <3>5. f = Min(T)
      BY <1>7, <3>1
    <3>6. f \in T
      BY <3>4, <3>5, MinIsLeast
    <3>7. f \in H /\ rest <= f /\ ~Used(m, f) /\ f \in Nat
      BY <1>3, <3>2, <3>6
    <3>8. f # p
      BY <1>10, <3>7
    <3> QED
      BY <1>16, <3>7, <3>8 DEF Used
  <2> QED
    BY <2>1, <2>2
<1>25. Startable(u, K, f)
  BY <1>12, <1>17, <1>24, StartableThere
<1> QED
  BY <1>23, <1>25 DEF u, f, a, rest

\* After MEM_pack the search starts from the first free block, or from the end.
LEMMA PackedStart ==
  ASSUME NEW m \in [Words -> Word], NEW H, Row(m, H)
  PROVE  Startable(Merged(m, Runs(m)), Kept(m, H, Runs(m)), MEM_packFree(m))
<1> DEFINE rs == Runs(m)
           G == Kept(m, H, rs)
           u == Merged(m, rs)
<1>1. u \in [Words -> Word] /\ Row(u, G)
  BY MergedRow
<1>2. CASE rs = {}
  <2>1. MEM_packFree(m) = HeapEnd
    BY <1>2 DEF MEM_packFree
  <2>2. HeapEnd \in G /\ u[HeapEnd] = 0
    BY <1>1 DEF Row
  <2>3. ~Used(u, HeapEnd)
    BY <2>2 DEF Used
  <2> QED
    BY <1>1, <2>1, <2>2, <2>3, StartableThere
<1>3. CASE rs # {}
  <2>1. MEM_packFree(m) = FirstRun(rs).start
    BY <1>3 DEF MEM_packFree
  <2>2. FirstRun(rs) \in rs
    BY <1>3, FirstIsFirst
  <2>3. FirstRun(rs).start \in FreeHeaders(u)
    BY <2>2, MergedRow
  <2>4. FirstRun(rs).start \in G /\ ~Used(u, FirstRun(rs).start)
    BY <1>1, <2>3, FreeOfRow
  <2> QED
    BY <1>1, <2>1, <2>4, StartableThere
<1> QED
  BY <1>2, <1>3

-----------------------------------------------------------------------------
(* The invariant, one lemma per call *)

LEMMA Reestablish ==
  ASSUME NEW H, Described(mem', H, held', written'), Startable(mem', H, free'),
         needPack' \in BOOLEAN
  PROVE  IInv'
<1>1. Chain(mem', 0) = H
  BY RowIsChain DEF Described
<1> QED
  BY <1>1 DEF IInv

\* The memory that MEM_alloc searches, after the pack an earlier release asked for.
LEMMA SearchedMemory ==
  ASSUME Careful, IInv
  PROVE  \E H : /\ Described(AllocMem0, H, held, written)
                /\ Startable(AllocMem0, H, AllocFree0)
<1> DEFINE H == Chain(mem, 0)
           rs == Runs(mem)
           G == Kept(mem, H, rs)
           u == Merged(mem, rs)
<1>1. Described(mem, H, held, written) /\ Startable(mem, H, free)
  BY DEF IInv
<1>2. CASE needPack
  <2>1. AllocMem0 = u /\ AllocFree0 = MEM_packFree(mem)
    BY <1>2 DEF AllocMem0, AllocFree0, MEM_packMem
  <2>2. Described(u, G, held, written)
    BY <1>1, MergedKeeps
  <2>3. mem \in [Words -> Word] /\ Row(mem, H)
    BY <1>1 DEF Described
  <2>4. Startable(u, G, MEM_packFree(mem))
    BY <2>3, PackedStart
  <2> QED
    BY <2>1, <2>2, <2>4
<1>3. CASE ~needPack
  BY <1>1, <1>3 DEF AllocMem0, AllocFree0
<1> QED
  BY <1>2, <1>3

LEMMA TakesKeeps ==
  ASSUME Careful, NEW m, NEW H, Described(m, H, held, written), NEW p \in FreeHeaders(m),
         NEW s \in Sizes, s # 0, AdjSize(s) <= m[p], Takes(m, p, AdjSize(s), s),
         written' = written, needPack' \in BOOLEAN
  PROVE  IInv'
<1> DEFINE u == TakeMem(m, p, AdjSize(s))
           K == H \cup {p + AdjSize(s) \div 2}
           f == TakeFree(m, p, AdjSize(s))
           B == held \cup {[h |-> p, size |-> s]}
<1>1. Described(u, K, B, written) /\ Startable(u, K, f)
  BY TakeKeeps
<1>2. mem' = u /\ free' = f /\ held' = B
  BY DEF Takes
<1> HIDE DEF u, K, f, B
<1> QED
  BY <1>1, <1>2, Reestablish

LEMMA AllocKeeps ==
  ASSUME Careful, IInv, NEW s \in Sizes, MEM_alloc(s)
  PROVE  IInv'
<1> DEFINE m0 == AllocMem0
           f0 == AllocFree0
           a == AdjSize(s)
           p == AllocResult(s)
           m == IF SearchFit(m0, f0, a) # NULL THEN m0 ELSE PackMem(m0, a)
<1>1. s # 0 /\ p # NULL /\ Takes(m, p, a, s) /\ needPack' = FALSE /\ written' = written
  BY DEF MEM_alloc
<1>2. PICK H : Described(m0, H, held, written) /\ Startable(m0, H, f0)
  BY SearchedMemory
<1>3. m0 \in [Words -> Word] /\ Row(m0, H)
  BY <1>2 DEF Described
<1>4. a \in Nat /\ a > 0
  BY SizeFacts
<1>5. p = IF SearchFit(m0, f0, a) # NULL THEN SearchFit(m0, f0, a) ELSE PackResult(m0, a)
  BY DEF AllocResult
<1> HIDE DEF m0, f0, p
<1>6. \E G : Described(m, G, held, written) /\ p \in FreeHeaders(m) /\ a <= m[p]
  <2>1. CASE SearchFit(m0, f0, a) # NULL
    <3>1. m = m0 /\ p = SearchFit(m0, f0, a)
      BY <1>5, <2>1
    <3>2. SearchFit(m0, f0, a) \in FreeHeaders(m0) /\ a <= m0[SearchFit(m0, f0, a)]
      BY <1>2, <1>3, <1>4, <2>1, SearchFinds
    <3> QED
      BY <1>2, <3>1, <3>2
  <2>2. CASE ~(SearchFit(m0, f0, a) # NULL)
    <3>1. m = PackMem(m0, a) /\ p = PackResult(m0, a)
      BY <1>5, <2>2
    <3>2. p \in FreeHeaders(m) /\ a <= m[p]
      BY <1>1, <1>3, <1>4, <3>1, PackAnswers
    <3> DEFINE rs == {r \in Runs(m0) : PackResult(m0, a) = NULL \/ r.start <= PackResult(m0, a)}
    <3>3. PackMem(m0, a) = Merged(m0, rs) /\ rs \subseteq Runs(m0)
      BY DEF PackMem
    <3> HIDE DEF rs
    <3>4. Described(PackMem(m0, a), Kept(m0, H, rs), held, written)
      BY <1>2, <3>3, MergedKeeps
    <3> QED
      BY <3>1, <3>2, <3>4
  <2> QED
    BY <2>1, <2>2
<1>7. PICK G : Described(m, G, held, written) /\ p \in FreeHeaders(m) /\ a <= m[p]
  BY <1>6
<1> HIDE DEF m
<1> QED
  BY <1>1, <1>7, TakesKeeps

LEMMA AllocFailsKeeps ==
  ASSUME Careful, IInv, NEW s \in Sizes, MEM_allocFails(s)
  PROVE  IInv'
<1> DEFINE m0 == AllocMem0
           a == AdjSize(s)
           rs == {r \in Runs(m0) : PackResult(m0, a) = NULL \/ r.start <= PackResult(m0, a)}
<1>1. /\ mem' = PackMem(m0, a) /\ free' = AllocFree0 /\ needPack' = FALSE
      /\ held' = held /\ written' = written
  BY DEF MEM_allocFails
<1>2. PICK H : Described(m0, H, held, written) /\ Startable(m0, H, AllocFree0)
  BY SearchedMemory
<1>3. PackMem(m0, a) = Merged(m0, rs) /\ rs \subseteq Runs(m0)
  BY DEF PackMem
<1> HIDE DEF rs, m0
<1>4. /\ Described(Merged(m0, rs), Kept(m0, H, rs), held, written)
      /\ Startable(Merged(m0, rs), Kept(m0, H, rs), AllocFree0)
  BY <1>2, <1>3, MergedKeeps
<1>5. Described(mem', Kept(m0, H, rs), held', written')
  BY <1>1, <1>3, <1>4
<1>6. Startable(mem', Kept(m0, H, rs), free')
  BY <1>1, <1>3, <1>4
<1> QED
  BY <1>1, <1>5, <1>6, Reestablish

\* The run that holds the wanted block is among those MEM_allocAt merges.
AtRuns(m, rs, addr, a) ==
  {r \in rs : \A s \in Wanted(rs, addr, a) \cup {q \in rs : q.start > addr /\ m[q.end] # 0} :
                r.start <= s.start}

LEMMA AllocAtKeeps ==
  ASSUME Careful, IInv, NEW addr \in AtAddresses, NEW s \in Sizes, MEM_allocAt(addr, s)
  PROVE  IInv'
<1> DEFINE a == AdjSize(s)
           rs == Runs(mem)
           H == Chain(mem, 0)
<1>1. PICK r \in Wanted(rs, addr, a) :
        /\ SplitsInterior \/ r.start = addr \/ mem[r.end] = 0
        /\ Takes(AtSplit(AtMerged(mem, rs, addr, a), r, addr), addr, a, s)
  BY DEF MEM_allocAt
<1>2. s # 0 /\ needPack' = needPack /\ written' = written /\ needPack \in BOOLEAN
  BY DEF MEM_allocAt, IInv
<1>3. Described(mem, H, held, written)
  BY DEF IInv
<1>4. mem \in [Words -> Word] /\ Row(mem, H)
  BY <1>3 DEF Described
<1>5. a \in Nat /\ a > 0
  BY SizeFacts
<1>6. addr \in Nat
  <2>1. addr \in 0 .. HeapEnd - 1
    BY HeapSizes
  <2> QED
    BY <2>1, WordFacts
<1> DEFINE M == AtRuns(mem, rs, addr, a)
           u == Merged(mem, M)
           G == Kept(mem, H, M)
<1>7. AtMerged(mem, rs, addr, a) = u /\ M \subseteq rs
  BY DEF AtMerged, AtRuns
<1> HIDE DEF a, H
<1>8. \A q \in rs : q.start \in Nat /\ q.end \in Nat /\ q.end \in H \ FreeHeaders(mem)
  BY <1>4, RunFacts, FreeOfRow, WordFacts DEF IsRun, Row
<1>9. /\ r \in rs /\ r.start <= addr /\ 2 * r.end >= 2 * addr + a
      /\ r.start \in Nat /\ r.end \in Nat /\ addr < r.end
  <2>1. r \in rs /\ r.start <= addr /\ 2 * r.end >= 2 * addr + a
    BY DEF Wanted
  <2>2. r.start \in Nat /\ r.end \in Nat
    BY <1>8, <2>1
  <2> HIDE DEF rs
  <2>3. addr < r.end
    BY <1>5, <1>6, <2>1, <2>2
  <2> QED
    BY <2>1, <2>2, <2>3
<1>10. r \in M
  <2> SUFFICES ASSUME NEW q \in Wanted(rs, addr, a) \cup
                                  {c \in rs : c.start > addr /\ mem[c.end] # 0}
               PROVE  r.start <= q.start
    BY <1>9 DEF AtRuns
  <2>1. CASE q \in Wanted(rs, addr, a)
    <3>1. q \in rs /\ q.start <= addr /\ 2 * q.end >= 2 * addr + a
      BY <2>1 DEF Wanted
    <3>2. q.start \in Nat /\ q.end \in Nat
      BY <1>8, <3>1
    <3> HIDE DEF rs
    <3>3. addr < q.end
      BY <1>5, <1>6, <3>1, <3>2
    <3>4. q = r
      BY <1>4, <1>6, <1>9, <3>1, <3>3, RunUnique DEF rs
    <3> QED
      BY <1>9, <3>4
  <2>2. CASE q \in rs /\ q.start > addr
    <3>1. q.start \in Nat
      BY <1>8, <2>2
    <3> QED
      BY <1>6, <1>9, <2>2, <3>1
  <2> QED
    BY <2>1, <2>2
<1>11. Described(u, G, held, written)
  BY <1>3, <1>7, MergedKeeps
<1>12. /\ r.start \in FreeHeaders(u) /\ After(u, r.start) = r.end
       /\ u[r.start] = 2 * (r.end - r.start)
       /\ u[r.end] = mem[r.end]
  <2>1. /\ r.start \in FreeHeaders(u) /\ After(u, r.start) = r.end
        /\ u[r.start] = 2 * (r.end - r.start)
    BY <1>4, <1>7, <1>10, MergedRow
  <2>2. r.end \in Words /\ r.end \notin FreeHeaders(mem)
    BY <1>4, <1>8, <1>9 DEF Row
  <2>3. u[r.end] = mem[r.end]
    BY <1>4, <1>7, <2>2, MergedRow
  <2> QED
    BY <2>1, <2>3
<1> DEFINE t == AtSplit(u, r, addr)
<1> HIDE DEF M, u, G, rs
<1>13. \E K : /\ Described(t, K, held, written) /\ addr \in FreeHeaders(t)
              /\ t[addr] = 2 * (r.end - addr)
  <2>1. CASE r.start = addr
    <3>1. t = u
      BY <2>1 DEF AtSplit
    <3> QED
      BY <1>11, <1>12, <2>1, <3>1
  <2>2. CASE r.start # addr
    <3>1. mem[r.end] = 0
      BY <1>1, <2>2 DEF Careful
    <3>2. t = Split(u, r.start, addr)
      BY <1>12, <2>2, <3>1 DEF AtSplit, Split
    <3>3. r.start < addr /\ addr < After(u, r.start)
      BY <1>6, <1>9, <1>12, <2>2
    <3>4. /\ Described(Split(u, r.start, addr), G \cup {addr}, held, written)
          /\ addr \in FreeHeaders(Split(u, r.start, addr))
          /\ Split(u, r.start, addr)[addr] = 2 * (After(u, r.start) - addr)
      BY <1>6, <1>11, <1>12, <3>3, SplitKeeps
    <3> QED
      BY <1>12, <3>2, <3>4
  <2> QED
    BY <2>1, <2>2
<1>14. PICK K : /\ Described(t, K, held, written) /\ addr \in FreeHeaders(t)
                /\ t[addr] = 2 * (r.end - addr)
  BY <1>13
<1>15. Takes(t, addr, a, s)
  BY <1>1, <1>7
<1> HIDE DEF t
<1>16. a <= t[addr]
  BY <1>5, <1>6, <1>9, <1>14
<1> QED
  BY <1>2, <1>14, <1>15, <1>16, TakesKeeps DEF a

LEMMA AllocAtFailsKeeps ==
  ASSUME Careful, IInv, NEW addr \in AtAddresses, NEW s \in Sizes, MEM_allocAtFails(addr, s)
  PROVE  IInv'
<1> DEFINE a == AdjSize(s)
           rs == AtRuns(mem, Runs(mem), addr, a)
           H == Chain(mem, 0)
<1>1. /\ mem' = AtMerged(mem, Runs(mem), addr, a) /\ free' = free /\ needPack' = needPack
      /\ held' = held /\ written' = written
  BY DEF MEM_allocAtFails
<1>2. AtMerged(mem, Runs(mem), addr, a) = Merged(mem, rs) /\ rs \subseteq Runs(mem)
  BY DEF AtMerged, AtRuns
<1>3. Described(mem, H, held, written) /\ Startable(mem, H, free) /\ needPack \in BOOLEAN
  BY DEF IInv
<1> HIDE DEF rs, a, H
<1>4. /\ Described(Merged(mem, rs), Kept(mem, H, rs), held, written)
      /\ Startable(Merged(mem, rs), Kept(mem, H, rs), free)
  BY <1>2, <1>3, MergedKeeps
<1>5. Described(mem', Kept(mem, H, rs), held', written')
  BY <1>1, <1>2, <1>4
<1>6. Startable(mem', Kept(mem, H, rs), free')
  BY <1>1, <1>2, <1>4
<1> QED
  BY <1>1, <1>3, <1>5, <1>6, Reestablish

\* MEM_free's one write.
Unmarked(m, h) == [m EXCEPT ![h] = Bytes(m, h)]

LEMMA FreeKeeps ==
  ASSUME Careful, IInv, NEW b \in held, MEM_free(b)
  PROVE  IInv'
<1> DEFINE H == Chain(mem, 0)
           u == Unmarked(mem, b.h)
           B == held \ {b}
           D == written \ Payload(b)
<1>1. /\ mem' = u /\ needPack' = TRUE /\ held' = B /\ written' = D /\ free' = free
  BY DEF MEM_free, Unmarked
<1>2. Described(mem, H, held, written) /\ Startable(mem, H, free)
  BY DEF IInv
<1>3. mem \in [Words -> Word] /\ Row(mem, H)
  BY <1>2 DEF Described
<1>4. /\ b.h \in H \ {HeapEnd} /\ mem[b.h] # 0 /\ Used(mem, b.h) /\ b.h \in Nat
      /\ After(mem, b.h) \in H /\ b.h < After(mem, b.h)
      /\ \A w \in Payload(b) : w \notin H
  BY <1>2, BlockFacts
<1>5. \A h \in H : h \in Words /\ h \in Nat
  BY <1>3, WordFacts DEF Row
<1> DEFINE k == mem[b.h] \div 2
<1>6. /\ k \in Nat /\ k > 0 /\ 2 * k < SizeModulus /\ After(mem, b.h) = b.h + k
  <2>1. mem[b.h] \in Nat /\ mem[b.h] < SizeModulus
    BY <1>3, <1>4, <1>5, HeaderOf
  <2>2. k \in Nat /\ 2 * k <= mem[b.h]
    BY <2>1, Halves
  <2>3. After(mem, b.h) = b.h + k
    BY DEF After
  <2> HIDE DEF k
  <2> QED
    BY <1>4, <2>1, <2>2, <2>3, WordFacts
<1>7. u = [mem EXCEPT ![b.h] = 2 * k]
  BY DEF Unmarked, Bytes
<1> HIDE DEF u, k, H
<1>8. 2 * k \in Word
  BY <1>6, WordFacts
<1>9. /\ u \in [Words -> Word] /\ u[b.h] = 2 * k
      /\ \A w \in Words \ {b.h} : u[w] = mem[w]
  BY <1>3, <1>4, <1>5, <1>7, <1>8
<1>10. u[b.h] # 0 /\ ~Used(u, b.h) /\ After(u, b.h) = After(mem, b.h)
  <2>1. (2 * k) \div 2 = k /\ ~((2 * k) % 2 = 1) /\ 2 * k # 0
    BY <1>6, Doubles
  <2> QED
    BY <1>6, <1>9, <2>1 DEF Used, After
<1>11. \A h \in H \ {b.h} : u[h] = mem[h] /\ After(u, h) = After(mem, h)
                            /\ (Used(u, h) <=> Used(mem, h))
  BY <1>5, <1>9 DEF After, Used
<1>12. Row(u, H)
  <2>1. \A h \in H : After(u, h) = After(mem, h) /\ (u[h] = 0 <=> mem[h] = 0)
    BY <1>4, <1>10, <1>11
  <2> QED
    BY <1>3, <2>1 DEF Row
<1>13. {h \in H : u[h] # 0 /\ Used(u, h)} = {h \in H : mem[h] # 0 /\ Used(mem, h)} \ {b.h}
  BY <1>10, <1>11
<1>14. \A c \in B : c \in held /\ c.h # b.h
  BY <1>2 DEF Described
<1>15. {h \in H : u[h] # 0 /\ Used(u, h)} = {c.h : c \in B}
  <2>1. {h \in H : mem[h] # 0 /\ Used(mem, h)} = {c.h : c \in held}
    BY <1>2 DEF Described
  <2> QED
    BY <1>13, <1>14, <2>1
<1>16. \A c \in B : c.size \in Sizes /\ c.size # 0 /\ Bytes(u, c.h) >= c.size + 2
  <2>1. \A c \in held : c.size \in Sizes /\ c.size # 0 /\ Bytes(mem, c.h) >= c.size + 2
    BY <1>2 DEF Described
  <2>2. \A c \in B : c.h \in Words \ {b.h}
    BY <1>2, <1>5, <1>14, BlockFacts
  <2>3. \A c \in B : Bytes(u, c.h) = Bytes(mem, c.h)
    BY <1>9, <2>2 DEF Bytes
  <2> QED
    BY <1>14, <2>1, <2>3
<1>17. \A w \in D : w \in Words /\ u[w] = Junk /\ \E c \in B : w \in Payload(c)
  <2> SUFFICES ASSUME NEW w \in D
               PROVE  w \in Words /\ u[w] = Junk /\ \E c \in B : w \in Payload(c)
    OBVIOUS
  <2>1. /\ w \in Words /\ w \notin H /\ mem[w] = Junk
        /\ \E c \in held : w \in Payload(c)
    BY <1>2, DataFacts
  <2>2. w # b.h
    BY <1>4, <2>1
  <2>3. \E c \in B : w \in Payload(c)
    BY <2>1
  <2> QED
    BY <1>9, <2>1, <2>2, <2>3
<1>18. Described(u, H, B, D)
  <2>1. \A c, d \in B : c.h = d.h => c = d
    BY <1>2 DEF Described
  <2> QED
    BY <1>9, <1>12, <1>15, <1>16, <1>17, <2>1 DEF Described
<1>19. Startable(u, H, free)
  <2>1. /\ FreeHeaders(mem) = {h \in H : mem[h] # 0 /\ ~Used(mem, h)}
        /\ FreeHeaders(u) = {h \in H : u[h] # 0 /\ ~Used(u, h)}
    BY <1>3, <1>9, <1>12, FreeOfRow
  <2>2. free \in Words /\ (mem[free] = 0 \/ free \in FreeHeaders(mem))
    BY <1>2 DEF Startable
  <2>3. free # b.h
    BY <1>4, <2>1, <2>2
  <2>4. u[free] = 0 \/ free \in FreeHeaders(u)
    BY <1>9, <1>11, <2>1, <2>2, <2>3
  <2>5. \A h \in H : u[h] # 0 /\ Used(u, h) => After(u, h) = After(mem, h)
    BY <1>10, <1>11
  <2>6. {h \in H : u[h] # 0 /\ Used(u, h)} \subseteq {h \in H : mem[h] # 0 /\ Used(mem, h)}
    BY <1>13
  <2> QED
    BY <1>2, <2>4, <2>5, <2>6, StaysStartable
<1> HIDE DEF B, D
<1> QED
  BY <1>1, <1>18, <1>19, Reestablish

LEMMA PackKeeps ==
  ASSUME Careful, IInv, MEM_pack
  PROVE  IInv'
<1> DEFINE H == Chain(mem, 0)
           rs == Runs(mem)
           G == Kept(mem, H, rs)
           u == Merged(mem, rs)
<1>1. /\ mem' = u /\ free' = MEM_packFree(mem) /\ needPack' = FALSE
      /\ held' = held /\ written' = written
  BY DEF MEM_pack, MEM_packMem
<1>2. Described(mem, H, held, written)
  BY DEF IInv
<1>3. Described(u, G, held, written)
  BY <1>2, MergedKeeps
<1>4. mem \in [Words -> Word] /\ Row(mem, H) /\ u \in [Words -> Word] /\ Row(u, G)
  BY <1>2, <1>3 DEF Described
<1>5. Startable(u, G, MEM_packFree(mem))
  BY <1>4, PackedStart
<1> HIDE DEF u, G
<1> QED
  BY <1>1, <1>3, <1>5, Reestablish

\* The program's own writes.
Filled(m, b) == [w \in Words |-> IF w \in Payload(b) THEN Junk ELSE m[w]]

LEMMA WriteKeeps ==
  ASSUME Careful, IInv, NEW b \in held, WriteBlock(b)
  PROVE  IInv'
<1> DEFINE H == Chain(mem, 0)
           u == Filled(mem, b)
           D == written \cup Payload(b)
<1>1. /\ mem' = u /\ written' = D /\ free' = free /\ needPack' = needPack /\ held' = held
  BY DEF WriteBlock, Filled
<1>2. Described(mem, H, held, written) /\ Startable(mem, H, free) /\ needPack \in BOOLEAN
  BY DEF IInv
<1>3. mem \in [Words -> Word] /\ Row(mem, H)
  BY <1>2 DEF Described
<1>4. /\ b.h \in H \ {HeapEnd} /\ mem[b.h] # 0 /\ Used(mem, b.h) /\ b.h \in Nat
      /\ \A w \in Payload(b) : /\ w \in Nat /\ w \in Words /\ w \notin H
                               /\ b.h < w /\ w < After(mem, b.h)
  BY <1>2, BlockFacts
<1>5. u = [w \in Words |-> IF w \in Payload(b) THEN Junk ELSE mem[w]]
  BY DEF Filled
<1>6. Junk \in Word
  <2>1. 3 < SizeModulus
    BY WordFacts
  <2> QED
    BY <2>1, WordFacts DEF Junk
<1> HIDE DEF u, H
<1>7. /\ u \in [Words -> Word] /\ \A w \in Words \ Payload(b) : u[w] = mem[w]
      /\ \A w \in Payload(b) : u[w] = Junk
  BY <1>3, <1>4, <1>5, <1>6
<1>8. \A h \in H : h \in Words /\ u[h] = mem[h] /\ After(u, h) = After(mem, h)
                   /\ (Used(u, h) <=> Used(mem, h))
  <2>1. \A h \in H : h \in Words /\ u[h] = mem[h]
    BY <1>3, <1>4, <1>7 DEF Row
  <2> QED
    BY <2>1 DEF After, Used
<1>9. Row(u, H)
  BY <1>3, <1>8 DEF Row
<1>10. {h \in H : u[h] # 0 /\ Used(u, h)} = {h \in H : mem[h] # 0 /\ Used(mem, h)}
  BY <1>8
<1>11. Described(u, H, held, D)
  <2>1. \A w \in written : u[w] = mem[w]
    <3> SUFFICES ASSUME NEW w \in written PROVE u[w] = mem[w]
      OBVIOUS
    <3>1. w \in Words /\ mem[w] = Junk
      BY <1>2, DataFacts
    <3> QED
      BY <1>7, <3>1
  <2>2. Described(u, H, held, written)
    BY <1>2, <1>7, <1>8, <1>9, <1>10, <2>1, StaysDescribed
  <2>3. \A w \in Payload(b) : w \in Words /\ u[w] = Junk /\ \E c \in held : w \in Payload(c)
    BY <1>4, <1>7
  <2> QED
    BY <2>2, <2>3 DEF Described
<1>12. Startable(u, H, free)
  <2>1. /\ FreeHeaders(mem) = {h \in H : mem[h] # 0 /\ ~Used(mem, h)}
        /\ FreeHeaders(u) = {h \in H : u[h] # 0 /\ ~Used(u, h)}
    BY <1>3, <1>7, <1>9, FreeOfRow
  <2>2. /\ free \in Words /\ (mem[free] = 0 \/ free \in FreeHeaders(mem))
        /\ ~(b.h <= free /\ free < After(mem, b.h))
    BY <1>2, <1>4 DEF Startable
  <2>3. free \notin Payload(b)
    BY <1>4, <2>2
  <2>4. u[free] = 0 \/ free \in FreeHeaders(u)
    BY <1>7, <1>8, <2>1, <2>2, <2>3
  <2>5. \A h \in H : u[h] # 0 /\ Used(u, h) => After(u, h) = After(mem, h)
    BY <1>8
  <2>6. {h \in H : u[h] # 0 /\ Used(u, h)} \subseteq {h \in H : mem[h] # 0 /\ Used(mem, h)}
    BY <1>10
  <2> QED
    BY <1>2, <2>4, <2>5, <2>6, StaysStartable
<1> HIDE DEF D
<1> QED
  BY <1>1, <1>2, <1>11, <1>12, Reestablish

LEMMA InitInvariant ==
  Init => IInv
<1> SUFFICES ASSUME Init PROVE IInv
  OBVIOUS
<1>1. /\ mem = [w \in Words |-> IF w = 0 THEN 2 * HeapEnd ELSE 0]
      /\ free = 0 /\ needPack = FALSE /\ held = {} /\ written = {}
  BY DEF Init
<1> DEFINE H == {0, HeapEnd}
<1>2. /\ HeapEnd \in Nat /\ HeapEnd > 0 /\ 0 \in Words /\ HeapEnd \in Words
      /\ 2 * HeapEnd \in Word /\ 0 \in Word
  <2>1. HeapEnd \in Nat /\ HeapEnd > 0 /\ 0 \in Words /\ HeapEnd \in Words
    BY WordFacts
  <2>2. 2 * HeapEnd < SizeModulus /\ 2 * HeapEnd \in Nat /\ SizeModulus \in Nat
    BY <2>1, WordFacts
  <2> QED
    BY <2>1, <2>2, WordFacts
<1>3. mem \in [Words -> Word] /\ mem[0] = 2 * HeapEnd /\ mem[HeapEnd] = 0
  BY <1>1, <1>2
<1>4. After(mem, 0) = HeapEnd /\ ~Used(mem, 0) /\ ~Used(mem, HeapEnd) /\ mem[0] # 0
  <2>1. (2 * HeapEnd) \div 2 = HeapEnd /\ ~((2 * HeapEnd) % 2 = 1)
    BY <1>2, Doubles
  <2>2. mem[0] \div 2 = HeapEnd /\ ~(mem[0] % 2 = 1)
    BY <1>3, <2>1
  <2>3. ~Used(mem, HeapEnd)
    BY <1>3 DEF Used
  <2> QED
    BY <1>2, <1>3, <2>2, <2>3 DEF After, Used
<1>5. Row(mem, H)
  <2>1. \A w \in 0 .. HeapEnd - 1 : \E h \in H \ {HeapEnd} : h <= w /\ w < After(mem, h)
    BY <1>2, <1>4
  <2>2. \A g \in H : ~(0 < g /\ g < HeapEnd)
    BY <1>2
  <2>3. \A h \in H \ {HeapEnd} :
          /\ mem[h] # 0 /\ After(mem, h) \in H /\ h < After(mem, h)
          /\ \A g \in H : ~(h < g /\ g < After(mem, h))
    BY <1>2, <1>4, <2>2
  <2> QED
    BY <1>2, <1>3, <2>1, <2>3 DEF Row
<1>6. Described(mem, H, held, written)
  <2>1. {h \in H : mem[h] # 0 /\ Used(mem, h)} = {b.h : b \in held}
    BY <1>1, <1>4
  <2> QED
    BY <1>1, <1>3, <1>5, <2>1 DEF Described
<1>7. Startable(mem, H, free)
  BY <1>1, <1>3, <1>4, <1>5, StartableThere
<1>8. Chain(mem, 0) = H
  BY <1>5, RowIsChain
<1> QED
  BY <1>1, <1>6, <1>7, <1>8 DEF IInv

LEMMA NextInvariant ==
  ASSUME Careful
  PROVE  IInv /\ [Next]_vars => IInv'
<1> SUFFICES ASSUME IInv, [Next]_vars PROVE IInv'
  OBVIOUS
<1>1. ASSUME NEW s \in Sizes, MEM_alloc(s) PROVE IInv'
  BY <1>1, AllocKeeps
<1>2. ASSUME NEW s \in Sizes, MEM_allocFails(s) PROVE IInv'
  BY <1>2, AllocFailsKeeps
<1>3. ASSUME NEW a \in AtAddresses, NEW s \in Sizes, MEM_allocAt(a, s) PROVE IInv'
  BY <1>3, AllocAtKeeps
<1>4. ASSUME NEW a \in AtAddresses, NEW s \in Sizes, MEM_allocAtFails(a, s) PROVE IInv'
  BY <1>4, AllocAtFailsKeeps
<1>5. ASSUME NEW b \in held, MEM_free(b) PROVE IInv'
  BY <1>5, FreeKeeps
<1>6. CASE MEM_pack
  BY <1>6, PackKeeps
<1>7. ASSUME NEW b \in held, WriteBlock(b) PROVE IInv'
  BY <1>7, WriteKeeps
<1>8. CASE UNCHANGED vars
  BY <1>8 DEF vars, IInv
<1> QED
  BY <1>1, <1>2, <1>3, <1>4, <1>5, <1>6, <1>7, <1>8 DEF Next

-----------------------------------------------------------------------------
(* Sums *)

\* MapThenSumSet of FiniteSetsExt, for the values of a function.
SumOf(f, S) ==
  LET iter[s \in SUBSET S] ==
        IF s = {} THEN 0
        ELSE LET x == CHOOSE x \in s : TRUE IN f[x] + iter[s \ {x}]
  IN iter[S]

LEMMA SumOfWords ==
  ASSUME NEW m, NEW S
  PROVE  MapThenSumSet(LAMBDA b : m[b], S) = SumOf(m, S)
BY DEF MapThenSumSet, MapThenFoldSet, SumOf

LEMMA SumOfBytes ==
  ASSUME NEW m, NEW S
  PROVE  MapThenSumSet(LAMBDA b : Bytes(m, b), S) = SumOf([b \in S |-> Bytes(m, b)], S)
<1> DEFINE f == [b \in S |-> Bytes(m, b)]
           Is(i) == i = [s \in SUBSET S |->
                           IF s = {} THEN 0
                           ELSE Bytes(m, CHOOSE x \in s : TRUE)
                                  + i[s \ {CHOOSE x \in s : TRUE}]]
           IsToo(i) == i = [s \in SUBSET S |->
                              IF s = {} THEN 0
                              ELSE f[CHOOSE x \in s : TRUE]
                                     + i[s \ {CHOOSE x \in s : TRUE}]]
<1>1. MapThenSumSet(LAMBDA b : Bytes(m, b), S) = (CHOOSE i : Is(i))[S]
  BY DEF MapThenSumSet, MapThenFoldSet
<1>2. SumOf(f, S) = (CHOOSE i : IsToo(i))[S]
  BY DEF SumOf
<1>3. \A i : Is(i) <=> IsToo(i)
  OBVIOUS
<1> HIDE DEF Is, IsToo
<1>4. (CHOOSE i : Is(i)) = (CHOOSE i : IsToo(i))
  BY <1>3, Zenon
<1> QED
  BY <1>1, <1>2, <1>4, Zenon

\* The elements of the sets that C gives to the elements of s.
All(C, s) == UNION {C[x] : x \in s}

LEMMA AllFinite ==
  ASSUME NEW C, NEW s, IsFiniteSet(s), \A x \in s : IsFiniteSet(C[x])
  PROVE  IsFiniteSet(All(C, s))
<1> DEFINE T == {C[x] : x \in s}
           m == [x \in s |-> C[x]]
<1>1. m \in Surjection(s, T)
  BY DEF Surjection
<1>2. IsFiniteSet(T)
  BY <1>1, FS_Surjection
<1> QED
  BY <1>2, FS_UNION DEF All

\* A sum counts the elements of disjoint sets of the sizes summed.
LEMMA SumCounts ==
  ASSUME NEW S, IsFiniteSet(S), NEW f, NEW C,
         \A x \in S : f[x] \in Nat /\ IsFiniteSet(C[x]) /\ Cardinality(C[x]) = f[x],
         \A x, y \in S : x # y => C[x] \cap C[y] = {}
  PROVE  SumOf(f, S) = Cardinality(All(C, S))
<1> DEFINE pick(s) == CHOOSE x \in s : TRUE
           Is(i) == i = [s \in SUBSET S |->
                           IF s = {} THEN 0 ELSE f[pick(s)] + i[s \ {pick(s)}]]
           iter == CHOOSE i : Is(i)
           g == [s \in SUBSET S |-> Cardinality(All(C, s))]
<1>1. \A s \in SUBSET S : s # {} => pick(s) \in s /\ s \ {pick(s)} \in SUBSET S
  OBVIOUS
<1>2. SumOf(f, S) = iter[S]
  BY DEF SumOf
<1> HIDE DEF pick
<1>3. \A s \in SUBSET S : IsFiniteSet(s) /\ IsFiniteSet(All(C, s))
  <2> SUFFICES ASSUME NEW s \in SUBSET S PROVE IsFiniteSet(s) /\ IsFiniteSet(All(C, s))
    OBVIOUS
  <2>1. IsFiniteSet(s)
    BY FS_Subset
  <2> QED
    BY <2>1, AllFinite
<1>4. g[{}] = 0
  <2>1. All(C, {}) = {}
    BY DEF All
  <2> QED
    BY <2>1, FS_EmptySet
<1>5. ASSUME NEW s \in SUBSET S, s # {}
      PROVE  g[s] = f[pick(s)] + g[s \ {pick(s)}]
  <2> DEFINE x == pick(s)
             r == s \ {x}
  <2>1. x \in s /\ r \in SUBSET S /\ x \in S
    BY <1>1, <1>5
  <2>2. All(C, s) = C[x] \cup All(C, r)
    BY <2>1 DEF All
  <2>3. C[x] \cap All(C, r) = {}
    BY <2>1 DEF All
  <2> HIDE DEF r, x
  <2>4. Cardinality(C[x] \cup All(C, r))
          = Cardinality(C[x]) + Cardinality(All(C, r)) - Cardinality(C[x] \cap All(C, r))
    BY <1>3, <2>1, FS_Union
  <2>5. Cardinality(All(C, r)) \in Nat /\ Cardinality(C[x]) = f[x] /\ f[x] \in Nat
    BY <1>3, <2>1, FS_CardinalityType
  <2>6. Cardinality(C[x] \cap All(C, r)) = 0
    BY <2>3, FS_EmptySet
  <2>7. Cardinality(All(C, s)) = f[x] + Cardinality(All(C, r))
    BY <2>2, <2>4, <2>5, <2>6
  <2> QED
    BY <2>1, <2>7 DEF x, r
<1>6. Is(g)
  <2>1. DOMAIN g = SUBSET S
    OBVIOUS
  <2> HIDE DEF g
  <2> QED
    <3>1. g = [s \in SUBSET S |-> g[s]]
      BY <2>1 DEF g
    <3>2. \A s \in SUBSET S : g[s] = IF s = {} THEN 0 ELSE f[pick(s)] + g[s \ {pick(s)}]
      BY <1>4, <1>5
    <3> QED
      BY <3>1, <3>2
<1>7. Is(iter)
  BY <1>6
<1> HIDE DEF iter, g
<1>8. \A s \in SUBSET S : iter[s] = g[s]
  <2> DEFINE Bad(s) == s \in SUBSET S /\ iter[s] # g[s]
             N == {n \in Nat : \E s : Bad(s) /\ Cardinality(s) = n}
  <2> SUFFICES ASSUME NEW t, Bad(t) PROVE FALSE
    OBVIOUS
  <2>1. Cardinality(t) \in N
    BY <1>3, FS_CardinalityType
  <2>2. PICK n \in N : \A m \in N : n <= m
    BY <2>1, NatMin
  <2>3. PICK s : Bad(s) /\ Cardinality(s) = n
    OBVIOUS
  <2>4. s # {}
    BY <1>4, <1>7, <2>3
  <2> DEFINE r == s \ {pick(s)}
  <2>5. pick(s) \in s /\ r \in SUBSET S
    BY <1>1, <2>3, <2>4
  <2>6. iter[s] = f[pick(s)] + iter[r] /\ g[s] = f[pick(s)] + g[r]
    BY <1>5, <1>7, <2>3, <2>4
  <2>7. Cardinality(r) = n - 1 /\ Cardinality(r) \in Nat
    BY <1>3, <2>3, <2>5, FS_RemoveElement, FS_CardinalityType
  <2> HIDE DEF r
  <2>8. iter[r] # g[r]
    BY <2>3, <2>6
  <2>9. n - 1 \in N
    BY <2>5, <2>7, <2>8
  <2> QED
    BY <2>2, <2>9
<1> QED
  BY <1>2, <1>8 DEF g

\* MEM_getFree and MEM_getAllocated over a row of headers: the bytes of a block
\* are those from its header to the next.
LEMMA RowCounts ==
  ASSUME NEW m \in [Words -> Word], NEW H, Row(m, H)
  PROVE  MEM_getFree(m) + MEM_getAllocated(m) = 2 * HeapEnd
<1> DEFINE F == FreeHeaders(m)
           U == {h \in H : m[h] # 0 /\ Used(m, h)}
           C == [h \in H |-> 2 * h .. 2 * After(m, h) - 1]
<1>1. /\ \A c \in H : c \in Nat /\ c \in Words /\ c <= HeapEnd
      /\ H \subseteq Words /\ HeapEnd \in H /\ m[HeapEnd] = 0 /\ HeapEnd \in Nat /\ HeapEnd > 0
  BY WordFacts DEF Row
<1>2. Headers(m) = {h \in H : m[h] # 0}
  BY RowIsChain DEF Headers
<1>3. /\ F = {h \in H : m[h] # 0 /\ ~Used(m, h)}
      /\ \A h \in F : m[h] = 2 * (After(m, h) - h)
  BY FreeOfRow
<1>4. IsFiniteSet(H)
  BY <1>1, FS_BoundedSetOfNaturals
<1>5. IsFiniteSet(F) /\ IsFiniteSet(U) /\ F \subseteq H \ {HeapEnd} /\ U \subseteq H \ {HeapEnd}
  BY <1>1, <1>3, <1>4, FS_Subset
<1>6. \A h \in H \ {HeapEnd} : /\ After(m, h) \in Nat /\ h < After(m, h)
                               /\ After(m, h) <= HeapEnd
                               /\ Bytes(m, h) = 2 * (After(m, h) - h)
  <2>1. \A h \in H \ {HeapEnd} : After(m, h) \in H /\ h < After(m, h)
    BY DEF Row
  <2>2. \A h \in H : Bytes(m, h) = 2 * (After(m, h) - h)
    BY <1>1, HeaderOf
  <2> QED
    BY <1>1, <2>1, <2>2
<1>7. \A h \in H \ {HeapEnd} : /\ IsFiniteSet(C[h]) /\ Cardinality(C[h]) = Bytes(m, h)
                               /\ Bytes(m, h) \in Nat
  <2> SUFFICES ASSUME NEW h \in H \ {HeapEnd}
               PROVE  /\ IsFiniteSet(C[h]) /\ Cardinality(C[h]) = Bytes(m, h)
                      /\ Bytes(m, h) \in Nat
    OBVIOUS
  <2> DEFINE n == After(m, h)
             l == 2 * h
             e == 2 * n - 1
  <2>1. C[h] = l .. e
    OBVIOUS
  <2>2. h \in Nat /\ n \in Nat /\ h < n /\ Bytes(m, h) = 2 * (n - h)
    BY <1>1, <1>6
  <2> HIDE DEF n, C
  <2>3. /\ e \in Int /\ l \in Int /\ ~(l > e) /\ e - l + 1 = Bytes(m, h)
        /\ Bytes(m, h) \in Nat
    BY <2>2
  <2> HIDE DEF e, l
  <2>4. IsFiniteSet(l .. e) /\ Cardinality(l .. e) = IF l > e THEN 0 ELSE e - l + 1
    BY <2>3, FS_Interval
  <2> QED
    BY <2>1, <2>3, <2>4
<1>8. \A g, h \in H \ {HeapEnd} : g # h => C[g] \cap C[h] = {}
  <2>1. ASSUME NEW g \in H \ {HeapEnd}, NEW h \in H \ {HeapEnd}, g < h
        PROVE  C[g] \cap C[h] = {}
    <3> DEFINE n == After(m, g)
               k == After(m, h)
    <3>1. n <= h /\ n \in Nat /\ g \in Nat /\ h \in Nat /\ k \in Nat
      BY <1>1, <1>6, <2>1, RowOrder
    <3>2. C[g] = 2 * g .. 2 * n - 1 /\ C[h] = 2 * h .. 2 * k - 1
      OBVIOUS
    <3> HIDE DEF n, k, C
    <3> QED
      BY <3>1, <3>2
  <2> HIDE DEF C
  <2> SUFFICES ASSUME NEW g \in H \ {HeapEnd}, NEW h \in H \ {HeapEnd}, g # h
               PROVE  C[g] \cap C[h] = {}
    OBVIOUS
  <2>2. g < h \/ h < g
    BY <1>1
  <2>3. CASE g < h
    BY <2>1, <2>3
  <2>4. CASE h < g
    BY <2>1, <2>4
  <2> QED
    BY <2>2, <2>3, <2>4
<1> DEFINE E == 2 * HeapEnd - 1
<1>9. All(C, F) \cup All(C, U) = 0 .. E
  <2>1. \A h \in F \cup U : C[h] \subseteq 0 .. E
    <3>1. ASSUME NEW h \in H \ {HeapEnd} PROVE C[h] \subseteq 0 .. E
      <4> DEFINE n == After(m, h)
      <4>1. h \in Nat /\ n \in Nat /\ n <= HeapEnd /\ HeapEnd \in Nat
        BY <1>1, <1>6
      <4>2. C[h] = 2 * h .. 2 * n - 1
        OBVIOUS
      <4> HIDE DEF n, C
      <4> QED
        BY <4>1, <4>2
    <3> HIDE DEF C, F, U
    <3> QED
      BY <1>5, <3>1
  <2>2. ASSUME NEW x \in 0 .. E PROVE x \in All(C, F) \cup All(C, U)
    <3> DEFINE w == x \div 2
    <3>1. x \in Nat /\ x <= 2 * HeapEnd - 1
      BY <1>1
    <3>2. w \in Nat /\ 2 * w <= x /\ x <= 2 * w + 1
      BY <3>1, Halves
    <3> HIDE DEF w
    <3>3. w \in 0 .. HeapEnd - 1
      BY <1>1, <3>1, <3>2
    <3>4. PICK h \in H \ {HeapEnd} : h <= w /\ w < After(m, h)
      BY <3>3 DEF Row
    <3> DEFINE n == After(m, h)
    <3>5. C[h] = 2 * h .. 2 * n - 1 /\ h <= w /\ w < n /\ h \in Nat /\ n \in Nat
      BY <1>1, <1>6, <3>4
    <3> HIDE DEF n
    <3>6. h \in F \cup U
      <4>1. m[h] # 0
        BY DEF Row
      <4> QED
        BY <1>3, <4>1
    <3> HIDE DEF C, F, U, E
    <3>7. x \in C[h]
      BY <3>1, <3>2, <3>5
    <3> QED
      BY <3>6, <3>7 DEF All
  <2> HIDE DEF C, F, U, E
  <2> QED
    BY <2>1, <2>2 DEF All
<1>10. All(C, F) \cap All(C, U) = {}
  <2>1. F \cap U = {}
    BY <1>3
  <2> HIDE DEF C, F, U
  <2> QED
    BY <1>5, <1>8, <2>1 DEF All
<1>11. MEM_getFree(m) = Cardinality(All(C, F))
  <2>1. MEM_getFree(m) = SumOf(m, F)
    BY SumOfWords DEF MEM_getFree
  <2>2. \A h \in F : m[h] = Bytes(m, h)
    BY <1>3, <1>5, <1>6
  <2> HIDE DEF C, F
  <2> QED
    BY <1>5, <1>7, <1>8, <2>1, <2>2, SumCounts
<1>12. MEM_getAllocated(m) = Cardinality(All(C, U))
  <2> DEFINE f == [b \in U |-> Bytes(m, b)]
  <2>1. {b \in Headers(m) : Used(m, b)} = U
    BY <1>2
  <2>2. MEM_getAllocated(m) = SumOf(f, U)
    BY <2>1, SumOfBytes DEF MEM_getAllocated
  <2>3. \A h \in U : f[h] = Bytes(m, h)
    OBVIOUS
  <2> HIDE DEF C, U, f
  <2> QED
    BY <1>5, <1>7, <1>8, <2>2, <2>3, SumCounts
<1> HIDE DEF C, F, U
<1>13. IsFiniteSet(0 .. E) /\ Cardinality(0 .. E) = 2 * HeapEnd
  <2>1. E \in Int /\ ~(0 > E) /\ E - 0 + 1 = 2 * HeapEnd
    BY <1>1
  <2> HIDE DEF E
  <2> QED
    BY <2>1, FS_Interval
<1>14. IsFiniteSet(All(C, F)) /\ IsFiniteSet(All(C, U))
  BY <1>5, <1>7, AllFinite
<1>15. Cardinality(All(C, F) \cup All(C, U))
         = Cardinality(All(C, F)) + Cardinality(All(C, U))
             - Cardinality(All(C, F) \cap All(C, U))
  BY <1>14, FS_Union
<1>16. Cardinality(All(C, F) \cap All(C, U)) = 0
  BY <1>10, FS_EmptySet
<1>17. Cardinality(All(C, F)) \in Nat /\ Cardinality(All(C, U)) \in Nat
  BY <1>14, FS_CardinalityType
<1> HIDE DEF E
<1>18. Cardinality(All(C, F) \cup All(C, U)) = 2 * HeapEnd
  BY <1>9, <1>13
<1>19. Cardinality(All(C, F)) + Cardinality(All(C, U)) = 2 * HeapEnd
  BY <1>15, <1>16, <1>17, <1>18
<1> QED
  BY <1>11, <1>12, <1>19

-----------------------------------------------------------------------------
(* The theorems *)

\* Every bounded set of numbers that is not empty has a Max.
LEMMA MaxIsGreatest ==
  ASSUME NEW T, T \subseteq Nat, T # {}, NEW N \in Nat, \A x \in T : x <= N
  PROVE  Max(T) \in T /\ \A y \in T : Max(T) >= y
<1> DEFINE M == {N - x : x \in T}
<1>0. \A x \in T : N - x \in Nat
  OBVIOUS
<1>1. M \subseteq Nat /\ M # {}
  BY <1>0
<1>2. PICK k \in M : \A y \in M : k <= y
  BY <1>1, NatMin
<1>3. PICK x \in T : k = N - x
  OBVIOUS
<1>4. \A y \in T : x >= y
  <2> SUFFICES ASSUME NEW y \in T PROVE x >= y
    OBVIOUS
  <2>1. N - x <= N - y
    BY <1>2, <1>3
  <2> QED
    BY <2>1
<1> QED
  BY <1>4 DEF Max

\* MEM_pack does not make the largest free block any smaller: each run is one
\* block of the packed chain, which lies in a run.
LEMMA PackedRuns ==
  ASSUME NEW m \in [Words -> Word], NEW H, Row(m, H), NEW r \in Runs(m)
  PROVE  \E q \in Runs(MEM_packMem(m)) : RunBytes(r) <= RunBytes(q)
<1> DEFINE rs == Runs(m)
           G == Kept(m, H, rs)
           u == Merged(m, rs)
<1>1. MEM_packMem(m) = u
  BY DEF MEM_packMem
<1>2. u \in [Words -> Word] /\ Row(u, G) /\ r.start \in FreeHeaders(u) /\ After(u, r.start) = r.end
  BY MergedRow
<1>3. r.start \in Nat /\ r.end \in Nat
  BY RunFacts, FreeOfRow, WordFacts DEF IsRun, Row
<1> HIDE DEF u, G
<1>4. PICK q \in Runs(u) : q.start <= r.start /\ r.start < q.end
  BY <1>2, RunCovers
<1>5. q.start \in Nat /\ q.end \in Nat /\ q.end \in G
  BY <1>2, RunFacts, FreeOfRow, WordFacts DEF IsRun, Row
<1>6. r.start \in G
  BY <1>2, FreeOfRow
<1>7. r.end <= q.end
  BY <1>2, <1>4, <1>5, <1>6, RowOrder
<1>8. RunBytes(r) <= RunBytes(q)
  BY <1>3, <1>4, <1>5, <1>7 DEF RunBytes
<1> QED
  BY <1>1, <1>8

\* The chain that memory.c keeps in the heap is that of the blocks the program
\* holds, whatever the order of MEM_alloc, MEM_allocAt, MEM_free and MEM_pack:
\* no block is lost, handed out twice or cut short, and MEM_checkIntegrity's
\* sum is that of the heap.
THEOREM HeapChain ==
  ASSUME Careful
  PROVE  Spec => []HeapIsSound
<1>1. IInv => TypeOK
  <2> SUFFICES ASSUME IInv PROVE TypeOK
    OBVIOUS
  <2>1. Described(mem, Chain(mem, 0), held, written)
    BY DEF IInv
  <2>2. \A b \in held : b.h \in Words /\ b.size \in Sizes
    <3>1. \A b \in held : b.h \in Chain(mem, 0)
      BY <2>1, BlockFacts
    <3> QED
      BY <2>1, <3>1 DEF Described, Row
  <2> QED
    BY <2>1, <2>2 DEF IInv, Described, Startable, TypeOK, Word
<1>2. IInv => ChainIsHeld
  BY DEF IInv, Described, ChainIsHeld, Row, Headers
<1>3. IInv => IntegrityHolds
  BY RowCounts DEF IInv, Described, IntegrityHolds
<1>4. IInv => HeapIsSound
  BY <1>1, <1>2, <1>3 DEF HeapIsSound
<1> QED
  BY <1>4, InitInvariant, NextInvariant, PTL DEF Spec

\* No operation of memory.c writes into a block that the program holds, and the
\* search of MEM_alloc never starts from the program's data.
THEOREM HeapData ==
  ASSUME Careful
  PROVE  Spec => []DataIsSafe
<1>1. IInv => DataIsSafe
  BY DEF IInv, Described, Startable, DataIsSafe, DataIntact, FreeIsNotData
<1> QED
  BY <1>1, InitInvariant, NextInvariant, PTL DEF Spec

\* MEM_alloc returns NULL only when no run of adjacent free blocks is large
\* enough, wherever its search starts and whatever is not merged yet.
THEOREM HeapFull ==
  ASSUME Careful
  PROVE  Spec => []FailsOnlyWhenFull
<1>1. IInv => FailsOnlyWhenFull
  <2> SUFFICES ASSUME IInv, NEW s \in Sizes, AllocResult(s) = NULL
               PROVE  AdjSize(s) > MEM_getLargestFreeBlock(mem)
    BY DEF FailsOnlyWhenFull
  <2> DEFINE a == AdjSize(s)
             H == Chain(mem, 0)
             L == {0} \cup {RunBytes(r) : r \in Runs(mem)}
  <2>1. a \in Nat /\ a > 0
    BY SizeFacts
  <2>2. mem \in [Words -> Word] /\ Row(mem, H)
    BY DEF IInv, Described
  <2>3. PICK G : Described(AllocMem0, G, held, written)
    BY SearchedMemory
  <2>4. AllocMem0 \in [Words -> Word] /\ Row(AllocMem0, G)
    BY <2>3 DEF Described
  <2>5. PackFits(AllocMem0, a) = {}
    <3>1. PackResult(AllocMem0, a) = NULL
      BY DEF AllocResult
    <3> QED
      BY <2>1, <2>4, <3>1, PackAnswers
  <2>6. \A q \in Runs(AllocMem0) : RunBytes(q) < a
    <3> SUFFICES ASSUME NEW q \in Runs(AllocMem0) PROVE RunBytes(q) < a
      OBVIOUS
    <3>1. q.start \in Nat /\ q.end \in Nat
      BY <2>4, RunFacts, FreeOfRow, WordFacts DEF IsRun, Row
    <3>2. ~(RunBytes(q) >= a)
      BY <2>5 DEF PackFits
    <3> QED
      BY <2>1, <3>1, <3>2 DEF RunBytes
  <2>7. ASSUME NEW r \in Runs(mem) PROVE RunBytes(r) \in Nat /\ RunBytes(r) < a
    <3>1. r.start \in Nat /\ r.end \in Nat /\ r.start < r.end
      BY <2>2, RunFacts, FreeOfRow, WordFacts DEF IsRun, Row
    <3>2. RunBytes(r) \in Nat
      BY <3>1 DEF RunBytes
    <3>3. PICK q \in Runs(AllocMem0) : RunBytes(r) <= RunBytes(q)
      <4>1. CASE needPack
        BY <2>2, <4>1, PackedRuns DEF AllocMem0
      <4>2. CASE ~needPack
        BY <3>2, <4>2 DEF AllocMem0
      <4> QED
        BY <4>1, <4>2
    <3>4. q.start \in Nat /\ q.end \in Nat
      BY <2>4, RunFacts, FreeOfRow, WordFacts DEF IsRun, Row
    <3>5. RunBytes(q) \in Int
      BY <3>4 DEF RunBytes
    <3> QED
      BY <2>1, <2>6, <3>2, <3>3, <3>5
  <2>8. L \subseteq Nat /\ L # {} /\ \A x \in L : x < a /\ x <= a
    BY <2>1, <2>7
  <2> HIDE DEF L, a
  <2>9. Max(L) \in L
    BY <2>1, <2>8, MaxIsGreatest
  <2>10. Max(L) < a /\ Max(L) \in Nat
    BY <2>8, <2>9
  <2> QED
    BY <2>1, <2>10 DEF MEM_getLargestFreeBlock, L, a
<1> QED
  BY <1>1, InitInvariant, NextInvariant, PTL DEF Spec
=============================================================================
