----------------------------- MODULE VramProofs -----------------------------
(***************************************************************************)
(* Proofs about Vram and SpriteEng, which both rest on the regions of      *)
(* VramRegion.                                                             *)
(*                                                                         *)
(* Vram, for every region and every set of sizes: the walk over the blocks *)
(* meets exactly the blocks the program holds, the word at `free' is never *)
(* part of one, and the region implements Arena.                           *)
(*                                                                         *)
(* SpriteEng, for every pool, region, set of definitions and limit:        *)
(* objects, tiles and hardware sprites have one owner each, the safe       *)
(* addition fails only when nothing could help, and no sprite keeps        *)
(* another's picture.                                                      *)
(***************************************************************************)
EXTENDS Vram, SpriteEng, TLAPS, WellFoundedInduction, FiniteSetTheorems, SequenceTheorems

After(v, c) == c + Tiles(v, c)
Stops(v, c) == v[c] = 0 \/ c + Tiles(v, c) \notin c + 1 .. Size

\* H is a row of headers from the first word to the end mark: the blocks they
\* describe follow each other without gap or overlap.
Row(v, H) ==
  /\ H \subseteq Words /\ 0 \in H /\ Size \in H /\ v[Size] = 0
  /\ \A h \in H \ {Size} :
       /\ v[h] # 0 /\ After(v, h) \in H /\ h < After(v, h)
       /\ \A g \in H : ~(h < g /\ g < After(v, h))
  /\ \A w \in 0 .. Size - 1 : \E h \in H \ {Size} : h <= w /\ w < After(v, h)

\* The used blocks of a row of headers, as the program knows them.
Blocks(v, H) ==
  {[at |-> b + StartIndex, len |-> Tiles(v, b)] : b \in {h \in H : v[h] # 0 /\ Used(v, h)}}

\* No two free blocks are adjacent.
Apart(v) == \A h \in FreeHeaders(v) : After(v, h) \notin FreeHeaders(v)

-----------------------------------------------------------------------------
(* Numbers *)

\* Least elements, from which every induction below is made.
LEMMA NatMin ==
  ASSUME NEW T, T \subseteq Nat, T # {}
  PROVE  \E x \in T : \A y \in T : x <= y
<1> DEFINE R == OpToRel(<, Nat)
<1>1. IsWellFoundedOn(R, Nat)
  BY NatLessThanWellFounded
<1>2. \E x \in T : \A y \in T : ~(<<y, x>> \in R)
  BY <1>1, WFMin
<1>3. \A x, y \in Nat : ~(<<y, x>> \in R) => x <= y
  BY DEF OpToRel
<1> QED
  BY <1>2, <1>3

\* Min of FiniteSetsExt is the least element.
LEMMA MinIsLeast ==
  ASSUME NEW T, T \subseteq Nat, T # {}
  PROVE  Min(T) \in T /\ \A y \in T : Min(T) <= y
BY NatMin DEF Min

LEMMA WordFacts ==
  /\ Size \in Nat /\ Size > 0 /\ Size < USED_MASK /\ StartIndex \in Nat
  /\ USED_MASK \in Nat /\ StartIndex + Size < USED_MASK
  /\ 0 \in Words /\ Size \in Words /\ \A x \in Words : x \in Nat /\ x <= Size
  /\ \A x \in Nat : x <= Size => x \in Words
<1>1. Size \in Nat /\ Size # 0 /\ StartIndex \in Nat /\ StartIndex + Size < USED_MASK
  BY RegionAssumption
<1>2. USED_MASK \in Nat
  BY DEF USED_MASK
<1> QED
  BY <1>1, <1>2 DEF Words

\* Every set of words has a last element.
LEMMA WordsMax ==
  ASSUME NEW T, T \subseteq Words, T # {}
  PROVE  \E x \in T : \A y \in T : y <= x
<1> DEFINE M == {Size - x : x \in T}
<1>0. Size \in Nat /\ \A x \in T : x \in Nat /\ x <= Size
  BY WordFacts
<1>1. M \subseteq Nat /\ M # {}
  BY <1>0
<1>2. PICK m \in M : \A y \in M : m <= y
  BY <1>1, NatMin
<1>3. PICK x \in T : m = Size - x
  OBVIOUS
<1>4. \A y \in T : Size - x <= Size - y
  BY <1>2, <1>3
<1> QED
  BY <1>0, <1>4

LEMMA Modulo ==
  \A a \in Nat, m \in Nat \ {0} :
    /\ a % m \in 0 .. m - 1
    /\ a < m => a % m = a
    /\ a >= m /\ a < 2 * m => a % m = a - m
OBVIOUS

\* Reading a header.
LEMMA TilesOf ==
  ASSUME NEW v \in [Words -> u16], NEW b \in Words
  PROVE  /\ v[b] \in Nat /\ Tiles(v, b) \in Nat /\ Tiles(v, b) < USED_MASK
         /\ ~Used(v, b) => Tiles(v, b) = v[b] /\ v[b] < USED_MASK
         /\ Used(v, b) => Tiles(v, b) = v[b] - USED_MASK /\ v[b] >= USED_MASK
<1>1. v[b] \in u16 /\ USED_MASK \in Nat \ {0}
  BY DEF USED_MASK
<1>2. v[b] \in Nat /\ v[b] < 2 * USED_MASK
  BY <1>1 DEF u16
<1> QED
  BY <1>1, <1>2, Modulo DEF Tiles, Used

-----------------------------------------------------------------------------
(* The walk *)

\* The words met from b, as the least set closed under the walk.
Reach(v, b) ==
  {c \in Words : \A S \in SUBSET Words :
     b \in S /\ (\A d \in S : ~Stops(v, d) => After(v, d) \in S) => c \in S}

LEMMA ReachUnfolds ==
  ASSUME NEW v, NEW b \in Words
  PROVE  Reach(v, b) = IF Stops(v, b) THEN {b} ELSE {b} \cup Reach(v, After(v, b))
<1> DEFINE Closed(S) == \A d \in S : ~Stops(v, d) => After(v, d) \in S
<1>0. \A c \in Words : ~Stops(v, c) => After(v, c) \in Words
  BY WordFacts DEF Stops, After
<1>1. CASE Stops(v, b)
  <2>1. {b} \in SUBSET Words /\ Closed({b})
    BY <1>1
  <2> QED
    BY <1>1, <2>1 DEF Reach
<1>2. CASE ~Stops(v, b)
  <2> DEFINE n == After(v, b)
             N == {b} \cup Reach(v, n)
  <2>0. n \in Words
    BY <1>0, <1>2
  <2>1. \A S \in SUBSET Words : b \in S /\ Closed(S) => n \in S
    BY <1>2
  <2> HIDE DEF n
  <2>2. N \subseteq Reach(v, b)
    BY <2>1 DEF Reach
  <2>3. N \in SUBSET Words /\ b \in N
    BY DEF Reach
  <2>4. Closed(N)
    <3> SUFFICES ASSUME NEW d \in N, ~Stops(v, d) PROVE After(v, d) \in N
      OBVIOUS
    <3>1. CASE d = b
      <4>1. n \in Reach(v, n)
        BY <2>0 DEF Reach
      <4> QED
        BY <3>1, <4>1 DEF n
    <3>2. CASE d \in Reach(v, n)
      <4>1. After(v, d) \in Words
        BY <1>0, <3>2 DEF Reach
      <4> QED
        BY <3>2, <4>1 DEF Reach
    <3> QED
      BY <3>1, <3>2
  <2>5. Reach(v, b) \subseteq N
    BY <2>3, <2>4 DEF Reach
  <2> QED
    BY <1>2, <2>2, <2>5 DEF n
<1> QED
  BY <1>1, <1>2

\* The recursive function of Chain exists, as Reach is one.
LEMMA ChainUnfolds ==
  ASSUME NEW v
  PROVE  \A b \in Words :
           Chain(v, b) = IF Stops(v, b) THEN {b} ELSE {b} \cup Chain(v, After(v, b))
<1> DEFINE Is(f) == f = [c \in Words |->
                           IF v[c] = 0 \/ c + Tiles(v, c) \notin c + 1 .. Size
                           THEN {c} ELSE {c} \cup f[c + Tiles(v, c)]]
           walk == CHOOSE f : Is(f)
           r == [c \in Words |-> Reach(v, c)]
<1>1. \A c \in Words : ~Stops(v, c) => After(v, c) \in Words
  BY WordFacts DEF Stops, After
<1>2. \A c \in Words : r[c] = IF Stops(v, c) THEN {c} ELSE {c} \cup r[After(v, c)]
  BY <1>1, ReachUnfolds
<1>3. Is(r)
  BY <1>2 DEF Stops, After
<1>4. Is(walk)
  BY <1>3
<1>5. \A b : Chain(v, b) = walk[b]
  BY DEF Chain
<1> HIDE DEF walk
<1> QED
  BY <1>4, <1>5 DEF Stops, After

\* Over a row of headers the walk meets those from where it starts.
LEMMA RowChain ==
  ASSUME NEW v, NEW H, Row(v, H)
  PROVE  \A b \in H : Chain(v, b) = {h \in H : b <= h}
<1> DEFINE Bad == {b \in H : Chain(v, b) # {h \in H : b <= h}}
<1> SUFFICES ASSUME Bad # {} PROVE FALSE
  OBVIOUS
<1>0. H \subseteq Words /\ Size \in H /\ \A h \in H : h \in Nat /\ h <= Size
  BY WordFacts DEF Row
<1>1. PICK b \in Bad : \A y \in Bad : y <= b
  <2>1. Bad \subseteq Words
    BY <1>0
  <2> QED
    BY <2>1, WordsMax
<1>2. b \in H /\ Chain(v, b) # {h \in H : b <= h}
  OBVIOUS
<1>3. Chain(v, b) = IF Stops(v, b) THEN {b} ELSE {b} \cup Chain(v, After(v, b))
  BY <1>0, <1>2, ChainUnfolds
<1>4. CASE b = Size
  <2>1. Stops(v, b)
    BY <1>4 DEF Row, Stops
  <2>2. {h \in H : b <= h} = {b}
    BY <1>0, <1>4
  <2> QED
    BY <1>2, <1>3, <2>1, <2>2
<1>5. CASE b # Size
  <2> DEFINE n == After(v, b)
  <2>1. v[b] # 0 /\ n \in H /\ b < n /\ \A g \in H : ~(b < g /\ g < n)
    BY <1>2, <1>5 DEF Row
  <2>2. ~Stops(v, b)
    BY <1>0, <1>2, <2>1 DEF Stops, After
  <2> HIDE DEF n
  <2>3. n \notin Bad
    BY <1>0, <1>1, <2>1
  <2>4. Chain(v, n) = {h \in H : n <= h}
    BY <2>1, <2>3
  <2>5. Chain(v, b) = {b} \cup {h \in H : n <= h}
    BY <1>3, <2>2, <2>4 DEF n
  <2>6. {b} \cup {h \in H : n <= h} = {h \in H : b <= h}
    BY <1>0, <1>2, <2>1
  <2> QED
    BY <1>2, <2>5, <2>6
<1> QED
  BY <1>4, <1>5

\* In particular it is the row.
LEMMA RowIsChain ==
  ASSUME NEW v, NEW H, Row(v, H)
  PROVE  Chain(v, 0) = H
<1>1. 0 \in H /\ \A h \in H : 0 <= h
  BY WordFacts DEF Row
<1>2. Chain(v, 0) = {h \in H : 0 <= h}
  BY <1>1, RowChain
<1> QED
  BY <1>1, <1>2

\* Two headers of a row: the block of the first ends before the second.
LEMMA RowOrder ==
  ASSUME NEW v, NEW H, Row(v, H), NEW g \in H, NEW h \in H, g < h
  PROVE  g # Size /\ After(v, g) <= h /\ After(v, g) \in H
<1>1. g \in Nat /\ h \in Nat /\ h <= Size /\ Size \in Nat
  BY WordFacts DEF Row
<1>2. g # Size
  BY <1>1
<1>3. After(v, g) \in H /\ ~(g < h /\ h < After(v, g))
  BY <1>2 DEF Row
<1>4. After(v, g) \in Nat
  <2>1. H \subseteq Words
    BY DEF Row
  <2> QED
    BY <1>3, <2>1, WordFacts
<1> QED
  BY <1>1, <1>2, <1>3, <1>4

-----------------------------------------------------------------------------
(* Runs of free blocks *)

\* The free headers of a row.
LEMMA FreeOfRow ==
  ASSUME NEW v \in [Words -> u16], NEW H, Row(v, H)
  PROVE  /\ FreeHeaders(v) = {h \in H : v[h] # 0 /\ ~Used(v, h)}
         /\ \A h \in FreeHeaders(v) :
              h \in H \ {Size} /\ h + v[h] = After(v, h) /\ After(v, h) \in H
              /\ h < After(v, h)
<1>1. Chain(v, 0) = H /\ H \subseteq Words
  BY RowIsChain DEF Row
<1>2. FreeHeaders(v) = {h \in H : v[h] # 0 /\ ~Used(v, h)}
  BY <1>1 DEF FreeHeaders, Headers
<1>3. ASSUME NEW h \in FreeHeaders(v)
      PROVE  h \in H \ {Size} /\ h + v[h] = After(v, h) /\ After(v, h) \in H
             /\ h < After(v, h)
  <2>1. h \in H /\ v[h] # 0 /\ ~Used(v, h) /\ h \in Words
    BY <1>1, <1>2
  <2>2. h # Size /\ Tiles(v, h) = v[h]
    BY <2>1, TilesOf DEF Row
  <2> QED
    BY <2>1, <2>2 DEF Row, After
<1> QED
  BY <1>2, <1>3

\* The header before a header.
LEMMA Predecessor ==
  ASSUME NEW v, NEW H, Row(v, H), NEW h \in H, h # 0
  PROVE  \E g \in H \ {Size} : /\ g < h /\ After(v, g) = h
                               /\ \A c \in H : c < h => c <= g
<1>0. /\ h \in Nat /\ h <= Size /\ h - 1 \in 0 .. Size - 1
      /\ \A c \in H : c \in Nat
  BY WordFacts DEF Row
<1>1. PICK g \in H \ {Size} : g <= h - 1 /\ h - 1 < After(v, g)
  BY <1>0 DEF Row
<1>2. g \in Nat /\ After(v, g) \in H /\ \A c \in H : ~(g < c /\ c < After(v, g))
  BY <1>0 DEF Row
<1>3. After(v, g) \in Nat /\ g < h /\ After(v, g) = h
  <2> DEFINE n == After(v, g)
  <2>1. n \in Nat /\ h - 1 < n /\ ~(g < h /\ h < n)
    BY <1>0, <1>1, <1>2
  <2> HIDE DEF n
  <2>2. g < h /\ n = h
    BY <1>0, <1>1, <1>2, <2>1
  <2> QED
    BY <2>1, <2>2 DEF n
<1>4. \A c \in H : c < h => c <= g
  BY <1>0, <1>2, <1>3
<1> QED
  BY <1>3, <1>4

\* What a run is.
IsRun(v, H, r) ==
  /\ r.start \in FreeHeaders(v) /\ r.end \in H \ FreeHeaders(v) /\ r.start < r.end
  /\ \A c \in H : r.start <= c /\ c < r.end => c \in FreeHeaders(v)

LEMMA RunFacts ==
  ASSUME NEW v \in [Words -> u16], NEW H, Row(v, H)
  PROVE  \A r \in Runs(v) : /\ IsRun(v, H, r) /\ r = [start |-> r.start, end |-> r.end]
                            /\ \A g \in FreeHeaders(v) : After(v, g) # r.start
<1> DEFINE F == FreeHeaders(v)
           inner == {b + v[b] : b \in F}
           Ends(b) == {c \in Chain(v, 0) \ F : c > b}
<1>1. /\ Chain(v, 0) = H /\ H \subseteq Words /\ Size \in H
      /\ \A c \in H : c \in Nat /\ c <= Size
  BY RowIsChain, WordFacts DEF Row
<1>2. /\ F = {h \in H : v[h] # 0 /\ ~Used(v, h)} /\ Size \notin F
      /\ \A h \in F : h \in H \ {Size} /\ h + v[h] = After(v, h)
  BY FreeOfRow
<1>3. Runs(v) = {[start |-> b, end |-> Min(Ends(b))] : b \in F \ inner}
  BY DEF Runs
<1> SUFFICES ASSUME NEW r \in Runs(v)
             PROVE  /\ IsRun(v, H, r) /\ r = [start |-> r.start, end |-> r.end]
                    /\ \A g \in F : After(v, g) # r.start
  OBVIOUS
<1> HIDE DEF F
<1>0. PICK b \in F \ inner : r = [start |-> b, end |-> Min(Ends(b))]
  BY <1>3
<1>4. Size \in Ends(b) /\ Ends(b) \subseteq Nat
  BY <1>1, <1>2
<1>5. Min(Ends(b)) \in Ends(b) /\ \A y \in Ends(b) : Min(Ends(b)) <= y
  BY <1>4, MinIsLeast
<1>6. r.start = b /\ r.end = Min(Ends(b)) /\ r = [start |-> r.start, end |-> r.end]
  BY <1>0
<1>7. r.end \in H \ F /\ b < r.end /\ \A c \in H \ F : c > b => r.end <= c
  BY <1>1, <1>5, <1>6
<1>8. \A c \in H : b <= c /\ c < r.end => c \in F
  BY <1>1, <1>2, <1>7
<1>9. \A g \in F : After(v, g) # b
  BY <1>2
<1>10. IsRun(v, H, r)
  BY <1>6, <1>7, <1>8 DEF IsRun, F
<1> QED
  BY <1>6, <1>9, <1>10

\* Every free block is in a run.
LEMMA RunCovers ==
  ASSUME NEW v \in [Words -> u16], NEW H, Row(v, H), NEW w \in FreeHeaders(v)
  PROVE  \E r \in Runs(v) : r.start <= w /\ w < r.end
<1> DEFINE F == FreeHeaders(v)
           inner == {b + v[b] : b \in F}
           Ends(b) == {c \in Chain(v, 0) \ F : c > b}
           T == {b \in F : b <= w /\ \A c \in H : b <= c /\ c <= w => c \in F}
<1>1. /\ Chain(v, 0) = H /\ H \subseteq Words /\ Size \in H
      /\ \A c \in H : c \in Nat /\ c <= Size
  BY RowIsChain, WordFacts DEF Row
<1>2. /\ F = {h \in H : v[h] # 0 /\ ~Used(v, h)} /\ Size \notin F
      /\ \A h \in F : h \in H \ {Size} /\ h + v[h] = After(v, h)
                      /\ After(v, h) \in H /\ h < After(v, h)
  BY FreeOfRow
<1>3. Runs(v) = {[start |-> b, end |-> Min(Ends(b))] : b \in F \ inner}
  BY DEF Runs
<1>0. w \in F
  OBVIOUS
<1> HIDE DEF F
<1>4. w \in T /\ T \subseteq Nat
  BY <1>0, <1>1, <1>2
<1>5. PICK b \in T : \A y \in T : b <= y
  BY <1>4, NatMin
<1>6. b \notin inner
  <2> SUFFICES ASSUME NEW g \in F, b = g + v[g] PROVE FALSE
    OBVIOUS
  <2>1. g < b /\ g \in H /\ g \in Nat /\ b \in Nat /\ After(v, g) = b
    BY <1>1, <1>2
  <2>2. \A c \in H : ~(g < c /\ c < b)
    BY <1>2, <2>1 DEF Row
  <2>3. g \in T
    <3>1. b <= w /\ w \in Nat /\ \A c \in H : b <= c /\ c <= w => c \in F
      BY <1>0, <1>1, <1>2
    <3>2. ASSUME NEW c \in H, g <= c, c <= w PROVE c \in F
      <4>1. c \in Nat /\ (c = g \/ b <= c)
        BY <1>1, <2>1, <2>2, <3>2
      <4> QED
        BY <3>1, <3>2, <4>1
    <3> QED
      BY <2>1, <3>1, <3>2
  <2> QED
    BY <1>5, <2>1, <2>3
<1> DEFINE r == [start |-> b, end |-> Min(Ends(b))]
<1>7. r \in Runs(v) /\ r.start = b /\ r.end = Min(Ends(b))
  BY <1>3, <1>6
<1> HIDE DEF r
<1>8. Size \in Ends(b) /\ Ends(b) \subseteq Nat
  BY <1>1, <1>2
<1>9. r.end \in Ends(b)
  BY <1>7, <1>8, MinIsLeast
<1>10. w < r.end
  BY <1>0, <1>1, <1>2, <1>9
<1> QED
  BY <1>7, <1>10

\* Two runs have a used block between them.
LEMMA RunsApart ==
  ASSUME NEW v \in [Words -> u16], NEW H, Row(v, H),
         NEW r \in Runs(v), NEW q \in Runs(v), r.start < q.start
  PROVE  r.end <= q.start
<1>1. /\ IsRun(v, H, r) /\ IsRun(v, H, q)
      /\ \A g \in FreeHeaders(v) : After(v, g) # q.start
  BY RunFacts
<1>2. /\ r.start \in H /\ r.end \in H /\ q.start \in H
      /\ \A c \in H : c \in Nat
  BY <1>1, FreeOfRow, WordFacts DEF IsRun, Row
<1>3. q.start # 0
  BY <1>2
<1>4. PICK g \in H \ {Size} : /\ g < q.start /\ After(v, g) = q.start
                              /\ \A c \in H : c < q.start => c <= g
  BY <1>2, <1>3, Predecessor
<1>5. g \notin FreeHeaders(v) /\ r.start <= g
  BY <1>1, <1>2, <1>4
<1>6. ~(g < r.end)
  BY <1>1, <1>5 DEF IsRun
<1> QED
  BY <1>2, <1>4, <1>6

LEMMA RunUnique ==
  ASSUME NEW v \in [Words -> u16], NEW H, Row(v, H),
         NEW r \in Runs(v), NEW q \in Runs(v), NEW w \in Nat,
         r.start <= w, w < r.end, q.start <= w, w < q.end
  PROVE  r = q
<1>1. /\ IsRun(v, H, r) /\ r = [start |-> r.start, end |-> r.end]
      /\ IsRun(v, H, q) /\ q = [start |-> q.start, end |-> q.end]
  BY RunFacts
<1>2. r.start \in Nat /\ r.end \in Nat /\ q.start \in Nat /\ q.end \in Nat
  BY <1>1, FreeOfRow, WordFacts DEF IsRun, Row
<1>3. r.start = q.start
  <2>1. ~(r.start < q.start)
    BY <1>2, RunsApart
  <2>2. ~(q.start < r.start)
    BY <1>2, RunsApart
  <2> QED
    BY <1>2, <2>1, <2>2
<1>4. r.end = q.end
  <2>1. r.end \in H \ FreeHeaders(v) /\ q.end \in H \ FreeHeaders(v)
        /\ r.start < r.end /\ q.start < q.end
    BY <1>1 DEF IsRun
  <2>2. ~(r.end < q.end) /\ ~(q.end < r.end)
    BY <1>1, <1>2, <1>3, <2>1 DEF IsRun
  <2> QED
    BY <1>2, <2>2
<1> QED
  BY <1>1, <1>3, <1>4

-----------------------------------------------------------------------------
(* pack *)

\* The runs that pack merges.
Merged(v, nsize) ==
  {r \in Runs(v) : PackResult(v, nsize) = NoTiles \/ r.start <= PackResult(v, nsize)}

\* The headers it leaves: all but those inside a merged run.
Packed(v, H, nsize) ==
  {h \in H : ~(h \in FreeHeaders(v)
               /\ \E r \in Merged(v, nsize) : r.start < h /\ h < r.end)}

\* What pack writes.
LEMMA PackWords ==
  ASSUME NEW v \in [Words -> u16], NEW H, Row(v, H), NEW nsize
  PROVE  /\ \A r \in Merged(v, nsize) :
              /\ r \in Runs(v) /\ r.start \in H /\ r.end \in H
              /\ Pack(v, nsize)[r.start] = r.end - r.start
              /\ \A w \in FreeHeaders(v) : r.start < w /\ w < r.end => Pack(v, nsize)[w] = 0
         /\ \A w \in Words :
              ~(w \in FreeHeaders(v) /\ \E r \in Merged(v, nsize) : r.start <= w /\ w < r.end)
                => Pack(v, nsize)[w] = v[w]
<1> DEFINE u == Pack(v, nsize)
           M == Merged(v, nsize)
           F == FreeHeaders(v)
<1>1. \A r \in M : /\ r \in Runs(v) /\ IsRun(v, H, r) /\ r.start \in H /\ r.end \in H
                   /\ r.start \in F /\ r.start < r.end
  BY RunFacts, FreeOfRow DEF Merged, IsRun
<1>2. \A c \in H : c \in Nat /\ c \in Words
  BY WordFacts DEF Row
<1>3. F \subseteq H
  BY FreeOfRow
<1>4. u = [w \in Words |->
             IF w \in F /\ \E r \in M : w \in r.start .. r.end - 1
             THEN LET r == CHOOSE q \in M : w \in q.start .. q.end - 1
                  IN IF w = r.start THEN RunTiles(r) ELSE 0
             ELSE v[w]]
  BY DEF Pack, Merged
<1> HIDE DEF u, F
<1>5. \A w \in Nat, r \in M : w \in r.start .. r.end - 1 <=> r.start <= w /\ w < r.end
  BY <1>1, <1>2
<1>6. ASSUME NEW r \in M, NEW w \in F, r.start <= w, w < r.end
      PROVE  u[w] = IF w = r.start THEN r.end - r.start ELSE 0
  <2>1. w \in Words /\ w \in Nat /\ w \in r.start .. r.end - 1
    BY <1>2, <1>3, <1>5, <1>6
  <2> DEFINE q == CHOOSE q \in M : w \in q.start .. q.end - 1
  <2>2. q \in M /\ w \in q.start .. q.end - 1
    BY <2>1
  <2>3. u[w] = IF w = q.start THEN RunTiles(q) ELSE 0
    BY <1>4, <2>1
  <2> HIDE DEF q
  <2>4. q.start <= w /\ w < q.end /\ q \in Runs(v) /\ r \in Runs(v)
    BY <1>1, <1>5, <2>1, <2>2
  <2>5. q = r
    BY <1>6, <2>1, <2>4, RunUnique
  <2> QED
    BY <2>3, <2>5 DEF RunTiles
<1>7. ASSUME NEW w \in Words, ~(w \in F /\ \E r \in M : r.start <= w /\ w < r.end)
      PROVE  u[w] = v[w]
  <2>1. ~(w \in F /\ \E r \in M : w \in r.start .. r.end - 1)
    BY <1>2, <1>3, <1>5, <1>7
  <2> QED
    BY <1>4, <2>1
<1>8. \A r \in M : u[r.start] = r.end - r.start
  <2> SUFFICES ASSUME NEW r \in M PROVE u[r.start] = r.end - r.start
    OBVIOUS
  <2>1. r.start \in F /\ r.start <= r.start /\ r.start < r.end
    BY <1>1, <1>2
  <2> QED
    BY <1>6, <2>1
<1>9. \A r \in M : \A w \in F : r.start < w /\ w < r.end => u[w] = 0
  <2> SUFFICES ASSUME NEW r \in M, NEW w \in F, r.start < w, w < r.end PROVE u[w] = 0
    OBVIOUS
  <2>1. r.start <= w /\ w # r.start
    BY <1>1, <1>2, <1>3
  <2> QED
    BY <1>6, <2>1
<1> QED
  BY <1>1, <1>7, <1>8, <1>9 DEF u, F

LEMMA PackRow ==
  ASSUME NEW v \in [Words -> u16], NEW H, Row(v, H), NEW nsize
  PROVE  /\ Pack(v, nsize) \in [Words -> u16] /\ Row(Pack(v, nsize), Packed(v, H, nsize))
         /\ Blocks(Pack(v, nsize), Packed(v, H, nsize)) = Blocks(v, H)
         /\ \A w \in Words : v[w] = 0 => Pack(v, nsize)[w] = 0
         /\ \A h \in FreeHeaders(v) :
              \/ Pack(v, nsize)[h] = 0
              \/ h \in FreeHeaders(Pack(v, nsize))
<1> DEFINE u == Pack(v, nsize)
           M == Merged(v, nsize)
           F == FreeHeaders(v)
           G == Packed(v, H, nsize)
<1>1. \A r \in M : /\ r \in Runs(v) /\ r.start \in H /\ r.end \in H
                   /\ u[r.start] = r.end - r.start
                   /\ \A w \in F : r.start < w /\ w < r.end => u[w] = 0
  BY PackWords
<1>2. \A w \in Words : ~(w \in F /\ \E r \in M : r.start <= w /\ w < r.end) => u[w] = v[w]
  BY PackWords
<1>3. \A r \in M : IsRun(v, H, r)
  BY <1>1, RunFacts
<1>4. /\ \A c \in H : c \in Nat /\ c \in Words /\ c <= Size
      /\ F = {h \in H : v[h] # 0 /\ ~Used(v, h)}
      /\ \A h \in F : h \in H \ {Size} /\ h + v[h] = After(v, h)
  BY WordFacts, FreeOfRow DEF Row
<1>5. \A r \in M : /\ r.start \in F /\ r.end \in H \ F /\ r.start < r.end
                   /\ \A c \in H : r.start <= c /\ c < r.end => c \in F
  BY <1>3 DEF IsRun
<1>6. G = {h \in H : ~(h \in F /\ \E r \in M : r.start < h /\ h < r.end)}
  BY DEF Packed
<1>7. DOMAIN u = Words /\ u = [w \in Words |-> u[w]]
  BY DEF Pack
<1> HIDE DEF u, F, M, G
\* The words, by the case of the header.
<1>8. ASSUME NEW w \in Words
      PROVE  \/ u[w] = v[w] /\ ~(w \in F /\ \E r \in M : r.start <= w /\ w < r.end)
             \/ \E r \in M : w = r.start /\ w \in F /\ u[w] = r.end - w
             \/ u[w] = 0 /\ w \in F /\ \E r \in M : r.start < w /\ w < r.end
  <2>1. CASE w \in F /\ \E r \in M : r.start <= w /\ w < r.end
    <3> PICK r \in M : r.start <= w /\ w < r.end
      BY <2>1
    <3>1. r.start = w \/ r.start < w
      BY <1>1, <1>4, <2>1
    <3> QED
      BY <1>1, <2>1, <3>1
  <2>2. CASE ~(w \in F /\ \E r \in M : r.start <= w /\ w < r.end)
    BY <1>2, <2>2
  <2> QED
    BY <2>1, <2>2
<1>9. \A r \in M : r.end - r.start \in Nat /\ r.end - r.start > 0 /\ r.end - r.start < USED_MASK
  BY <1>1, <1>4, <1>5, WordFacts
<1>10. \A x \in Nat : x < USED_MASK => x \in u16
  BY WordFacts DEF u16
<1>11. u \in [Words -> u16]
  <2>1. ASSUME NEW w \in Words PROVE u[w] \in u16
    <3>1. 0 \in u16 /\ v[w] \in u16
      BY <1>10, WordFacts
    <3> QED
      BY <1>8, <1>9, <1>10, <2>1, <3>1
  <2> QED
    BY <1>7, <2>1
\* A merged run is one free block.
<1>12. ASSUME NEW r \in M
       PROVE  u[r.start] # 0 /\ ~Used(u, r.start) /\ After(u, r.start) = r.end /\ r.start \in G
  <2>1. r.start \in H /\ r.start \in Nat /\ r.end \in Nat /\ r.start \in Words
    BY <1>1, <1>4
  <2>2. u[r.start] = r.end - r.start /\ u[r.start] # 0 /\ u[r.start] < USED_MASK
    BY <1>1, <1>9
  <2>3. ~Used(u, r.start)
    BY <1>9, <2>2, WordFacts DEF Used
  <2>4. Tiles(u, r.start) = r.end - r.start
    BY <1>11, <2>1, <2>2, <2>3, TilesOf
  <2>5. After(u, r.start) = r.end
    BY <2>1, <2>4 DEF After
  <2>6. ~\E q \in M : q.start < r.start /\ r.start < q.end
    <3> SUFFICES ASSUME NEW q \in M, q.start < r.start, r.start < q.end PROVE FALSE
      OBVIOUS
    <3>1. q.end <= r.start
      BY <1>1, RunsApart
    <3> QED
      BY <1>1, <1>4, <3>1
  <2> QED
    BY <1>6, <2>1, <2>2, <2>3, <2>5, <2>6
\* The other headers stay.
<1>13. ASSUME NEW h \in G, \A r \in M : h # r.start
       PROVE  u[h] = v[h] /\ ~(h \in F /\ \E r \in M : r.start <= h /\ h < r.end)
  <2>1. h \in H /\ h \in Words /\ ~(h \in F /\ \E r \in M : r.start < h /\ h < r.end)
    BY <1>4, <1>6
  <2> QED
    BY <1>8, <1>13, <2>1
<1>14. 0 \in G /\ Size \in G /\ G \subseteq Words /\ u[Size] = 0
  <2>1. 0 \in H /\ Size \in H /\ v[Size] = 0
    BY DEF Row
  <2>2. Size \notin F /\ \A r \in M : ~(r.start < 0)
    BY <1>1, <1>4, <2>1
  <2>3. 0 \in G /\ Size \in G /\ \A r \in M : Size # r.start
    BY <1>5, <1>6, <2>1, <2>2
  <2> QED
    BY <1>4, <1>6, <1>13, <2>1, <2>3
<1>15. ASSUME NEW h \in G \ {Size}
       PROVE  /\ u[h] # 0 /\ After(u, h) \in G /\ h < After(u, h)
              /\ \A g \in G : ~(h < g /\ g < After(u, h))
  <2>0. h \in H /\ h \in Nat /\ h \in Words
    BY <1>4, <1>6
  <2>1. CASE \E r \in M : h = r.start
    <3> PICK r \in M : h = r.start
      BY <2>1
    <3>1. u[h] # 0 /\ After(u, h) = r.end
      BY <1>12
    <3>2. r.end \in G /\ h < r.end
      BY <1>5, <1>6
    <3>3. \A g \in G : ~(h < g /\ g < r.end)
      <4> SUFFICES ASSUME NEW g \in G, h < g, g < r.end PROVE FALSE
        OBVIOUS
      <4>1. g \in H /\ h <= g
        BY <1>4, <1>6, <2>0
      <4> QED
        BY <1>5, <1>6, <4>1
    <3> QED
      BY <3>1, <3>2, <3>3
  <2>2. CASE \A r \in M : h # r.start
    <3>1. u[h] = v[h] /\ ~(h \in F /\ \E r \in M : r.start <= h /\ h < r.end)
      BY <1>13, <2>2
    <3>2. After(u, h) = After(v, h)
      BY <3>1 DEF After, Tiles
    <3> DEFINE n == After(v, h)
    <3>3. v[h] # 0 /\ n \in H /\ h < n /\ \A g \in H : ~(h < g /\ g < n)
      BY <2>0 DEF Row
    <3> HIDE DEF n
    <3>4. n \in G
      <4> SUFFICES ASSUME n \in F, NEW r \in M, r.start < n, n < r.end PROVE FALSE
        BY <1>6, <3>3
      <4>1. r.start \in H /\ r.start \in Nat /\ r.end \in Nat /\ n \in Nat
        BY <1>1, <1>4, <3>3
      <4>2. ~(h < r.start /\ r.start < n)
        BY <3>3, <4>1
      <4>3. r.start <= h /\ h < r.end
        BY <2>0, <3>3, <4>1, <4>2
      <4> QED
        BY <1>5, <2>0, <3>1, <4>3
    <3> QED
      BY <1>6, <3>1, <3>2, <3>3, <3>4 DEF n
  <2> QED
    BY <2>1, <2>2
<1>16. ASSUME NEW w \in 0 .. Size - 1
       PROVE  \E h \in G \ {Size} : h <= w /\ w < After(u, h)
  <2>1. PICK h \in H \ {Size} : h <= w /\ w < After(v, h)
    BY DEF Row
  <2>0. h \in Nat /\ h \in Words /\ After(v, h) \in H /\ After(v, h) \in Nat
    BY <1>4 DEF Row
  <2>2. CASE h \in F /\ \E r \in M : r.start <= h /\ h < r.end
    <3> PICK r \in M : r.start <= h /\ h < r.end
      BY <2>2
    <3>1. r.start \in G /\ After(u, r.start) = r.end /\ r.start \in Nat /\ r.end \in Nat
          /\ r.start # Size /\ r.end \in H
      BY <1>1, <1>4, <1>5, <1>12
    <3>2. After(v, h) <= r.end
      BY <3>1, RowOrder
    <3>3. r.start <= w /\ w < r.end
      BY <2>0, <2>1, <3>1, <3>2
    <3> QED
      BY <3>1, <3>3
  <2>3. CASE ~(h \in F /\ \E r \in M : r.start <= h /\ h < r.end)
    <3>1. u[h] = v[h] /\ \A r \in M : ~(h \in F /\ r.start < h /\ h < r.end)
      BY <1>1, <1>2, <1>4, <2>0, <2>3
    <3>2. h \in G /\ After(u, h) = After(v, h)
      BY <1>6, <3>1 DEF After, Tiles
    <3> QED
      BY <2>1, <3>2
  <2> QED
    BY <2>2, <2>3
<1>17. Row(u, G)
  BY <1>14, <1>15, <1>16 DEF Row
<1>18. {h \in G : u[h] # 0 /\ Used(u, h)} = {h \in H : v[h] # 0 /\ Used(v, h)}
  <2>1. ASSUME NEW h \in H, Used(v, h) PROVE h \in G /\ u[h] = v[h]
    <3>1. h \notin F /\ h \in Words
      BY <1>4, <2>1
    <3> QED
      BY <1>2, <1>6, <3>1
  <2>2. ASSUME NEW h \in G, Used(u, h) PROVE h \in H /\ u[h] = v[h]
    <3>1. \A r \in M : h # r.start
      BY <1>12, <2>2
    <3> QED
      BY <1>6, <1>13, <3>1
  <2>3. \A h \in Words : u[h] = v[h] => (Used(u, h) <=> Used(v, h))
    BY DEF Used
  <2> QED
    BY <1>4, <1>6, <2>1, <2>2, <2>3
<1>19. Blocks(u, G) = Blocks(v, H)
  <2> DEFINE B == {h \in H : v[h] # 0 /\ Used(v, h)}
  <2>1. \A h \in B : Tiles(u, h) = Tiles(v, h)
    <3>1. \A h \in B : h \in Words /\ h \notin F
      BY <1>4
    <3> QED
      BY <1>2, <3>1 DEF Tiles
  <2>2. Blocks(u, G) = {[at |-> b + StartIndex, len |-> Tiles(u, b)] : b \in B}
    BY <1>18 DEF Blocks
  <2>3. Blocks(v, H) = {[at |-> b + StartIndex, len |-> Tiles(v, b)] : b \in B}
    BY DEF Blocks
  <2> HIDE DEF B
  <2> QED
    BY <2>1, <2>2, <2>3
<1>20. \A w \in Words : v[w] = 0 => u[w] = 0
  BY <1>2, <1>4
<1>21. ASSUME NEW h \in F, u[h] # 0 PROVE h \in FreeHeaders(u)
  <2>1. h \in H /\ h \in Words /\ ~Used(v, h)
    BY <1>4
  <2>2. h \in G
    BY <1>1, <1>6, <1>21, <2>1
  <2>3. ~Used(u, h)
    <3>1. CASE \E r \in M : h = r.start
      BY <1>12, <3>1
    <3>2. CASE \A r \in M : h # r.start
      BY <1>13, <2>1, <2>2, <3>2 DEF Used
    <3> QED
      BY <3>1, <3>2
  <2> QED
    BY <1>11, <1>17, <1>21, <2>2, <2>3, FreeOfRow
<1> QED
  BY <1>11, <1>17, <1>19, <1>20, <1>21 DEF u, F, G

\* What pack answers.
LEMMA PackAnswers ==
  ASSUME NEW v \in [Words -> u16], NEW H, Row(v, H), NEW nsize \in Nat
  PROVE  /\ PackResult(v, nsize) = NoTiles <=> PackFits(v, nsize) = {}
         /\ PackResult(v, nsize) # NoTiles =>
              /\ PackResult(v, nsize) \in FreeHeaders(Pack(v, nsize))
              /\ Pack(v, nsize)[PackResult(v, nsize)] >= nsize
<1> DEFINE p == PackResult(v, nsize)
           T == {r.start : r \in PackFits(v, nsize)}
<1>1. \A r \in Runs(v) : r.start \in Nat /\ r.end \in Nat /\ r.start < r.end
                         /\ r.start \in FreeHeaders(v)
  BY RunFacts, FreeOfRow, WordFacts DEF IsRun, Row
<1>2. PackFits(v, nsize) \subseteq Runs(v)
  BY DEF PackFits
<1>3. T \subseteq Nat
  BY <1>1, <1>2
<1>4. CASE PackFits(v, nsize) = {}
  BY <1>4 DEF PackResult
<1>5. CASE PackFits(v, nsize) # {}
  <2>1. p = Min(T) /\ T # {}
    BY <1>5 DEF PackResult
  <2>2. p \in T
    BY <1>3, <2>1, MinIsLeast
  <2> HIDE DEF p
  <2>3. PICK r \in PackFits(v, nsize) : p = r.start
    BY <2>2
  <2>4. r \in Runs(v) /\ RunTiles(r) >= nsize
    BY DEF PackFits
  <2>5. p \in Nat /\ p # NoTiles /\ p <= p
    BY <1>1, <2>3, <2>4 DEF NoTiles
  <2>6. r \in Merged(v, nsize)
    BY <2>3, <2>4, <2>5 DEF Merged, p
  <2>7. Pack(v, nsize)[p] = r.end - p
    BY <2>3, <2>6, PackWords
  <2>8. Pack(v, nsize)[p] >= nsize /\ Pack(v, nsize)[p] # 0
    BY <1>1, <2>3, <2>4, <2>7 DEF RunTiles
  <2>9. p \in FreeHeaders(Pack(v, nsize))
    BY <1>1, <2>3, <2>4, <2>8, PackRow
  <2> QED
    BY <1>5, <2>5, <2>8, <2>9 DEF p
<1> QED
  BY <1>4, <1>5

\* When it answers that no run is large enough it has merged them all.
LEMMA PackMergesAll ==
  ASSUME NEW v \in [Words -> u16], NEW H, Row(v, H), NEW nsize,
         PackResult(v, nsize) = NoTiles
  PROVE  \A h \in FreeHeaders(Pack(v, nsize)) :
           After(Pack(v, nsize), h) \notin FreeHeaders(Pack(v, nsize))
<1> DEFINE u == Pack(v, nsize)
           M == Merged(v, nsize)
           F == FreeHeaders(v)
           G == Packed(v, H, nsize)
<1>1. u \in [Words -> u16] /\ Row(u, G)
  BY PackRow
<1>2. M = Runs(v)
  BY DEF Merged
<1>3. FreeHeaders(u) = {h \in G : u[h] # 0 /\ ~Used(u, h)}
  BY <1>1, FreeOfRow
<1>4. F = {h \in H : v[h] # 0 /\ ~Used(v, h)} /\ \A h \in H : h \in Words /\ h \in Nat
  BY FreeOfRow, WordFacts DEF Row
<1>5. G = {h \in H : ~(h \in F /\ \E r \in M : r.start < h /\ h < r.end)}
  BY DEF Packed
<1>6. \A r \in M : IsRun(v, H, r)
  BY <1>2, RunFacts
<1>7. \A r \in M : u[r.start] = r.end - r.start
  BY PackWords
<1>8. \A w \in Words : w \notin F => u[w] = v[w]
  BY PackWords
<1> HIDE DEF u, M, F, G
<1>9. FreeHeaders(u) \subseteq F
  <2> SUFFICES ASSUME NEW h \in FreeHeaders(u), h \notin F PROVE FALSE
    OBVIOUS
  <2>1. h \in H /\ h \in Words /\ u[h] = v[h]
    BY <1>3, <1>4, <1>5, <1>8
  <2> QED
    BY <1>3, <1>4, <2>1 DEF Used
<1> SUFFICES ASSUME NEW h \in FreeHeaders(u) PROVE After(u, h) \notin F
  BY <1>9 DEF u
<1>10. h \in F /\ h \in G /\ h \in H /\ h \in Words /\ h \in Nat /\ ~Used(u, h)
  BY <1>3, <1>4, <1>5, <1>9
<1>11. PICK r \in M : r.start <= h /\ h < r.end
  BY <1>2, <1>10, RunCovers DEF F
<1>12. r.start \in F /\ r.end \in H \ F /\ r.start \in Nat /\ r.end \in Nat
  BY <1>4, <1>6 DEF IsRun, F
<1>13. ~(r.start < h)
  BY <1>5, <1>10, <1>11
<1>14. r.start = h
  BY <1>10, <1>11, <1>12, <1>13
<1>15. Tiles(u, h) = u[h]
  BY <1>1, <1>10, TilesOf
<1>16. After(u, h) = r.end
  BY <1>7, <1>12, <1>14, <1>15 DEF After
<1> QED
  BY <1>12, <1>16

-----------------------------------------------------------------------------
(* Taking, giving back and clearing *)

\* The block taken is a used block of the row, and what is left of the free
\* one follows it.
LEMMA TakeRow ==
  ASSUME NEW v \in [Words -> u16], NEW H, Row(v, H), NEW p \in FreeHeaders(v),
         NEW size \in Nat, size > 0, size <= v[p]
  PROVE  /\ Take(v, p, size) \in [vram : [Words -> u16], free : Words]
         /\ Row(Take(v, p, size).vram, H \cup {p + size})
         /\ Blocks(Take(v, p, size).vram, H \cup {p + size})
              = Blocks(v, H) \cup {[at |-> p + StartIndex, len |-> size]}
         /\ \/ Take(v, p, size).vram[Take(v, p, size).free] = 0
            \/ Take(v, p, size).free \in FreeHeaders(Take(v, p, size).vram)
<1> DEFINE rest == p + size
           n == After(v, p)
           K == H \cup {rest}
           u == [w \in Words |->
                  IF w = p THEN size + USED_MASK
                  ELSE IF w = rest /\ v[p] > size THEN v[p] - size ELSE v[w]]
           f == IF v[p] > size THEN rest ELSE Min({b \in Chain(v, rest) : ~Used(v, b)})
<1>1. Take(v, p, size) = [vram |-> u, free |-> f]
  BY DEF Take
<1>2. /\ p \in H \ {Size} /\ p + v[p] = n /\ n \in H /\ p < n
      /\ v[p] # 0 /\ ~Used(v, p)
  BY FreeOfRow
<1>3. /\ \A c \in H : c \in Nat /\ c \in Words /\ c <= Size
      /\ H \subseteq Words /\ 0 \in H /\ Size \in H /\ v[Size] = 0
      /\ Size \in Nat
  BY WordFacts DEF Row
<1>4. v[p] \in Nat /\ v[p] < USED_MASK /\ USED_MASK \in Nat
  BY <1>2, <1>3, TilesOf, WordFacts
<1>5. \A g \in H : ~(p < g /\ g < n)
  BY <1>2 DEF Row
<1>6. /\ \A h \in H \ {Size} : v[h] # 0 /\ After(v, h) \in H /\ h < After(v, h)
      /\ \A h \in H \ {Size} : \A g \in H : ~(h < g /\ g < After(v, h))
      /\ \A w \in 0 .. Size - 1 : \E h \in H \ {Size} : h <= w /\ w < After(v, h)
  BY DEF Row
<1>7. \A x \in Nat : x < 2 * USED_MASK => x \in u16
  BY <1>4 DEF u16
<1> HIDE DEF n
<1>8. /\ rest \in Nat /\ p < rest /\ rest <= n /\ n <= Size /\ n \in Nat /\ p \in Nat
      /\ rest \in Words /\ p \in Words
      /\ (v[p] > size <=> rest < n) /\ (v[p] > size => v[p] - size = n - rest)
      /\ (~(v[p] > size) => rest = n)
  <2>1. p \in Nat /\ n \in Nat /\ n <= Size /\ p \in Words
    BY <1>2, <1>3
  <2>2. /\ rest \in Nat /\ p < rest /\ rest <= n
        /\ (v[p] > size <=> rest < n) /\ (v[p] > size => v[p] - size = n - rest)
        /\ (~(v[p] > size) => rest = n)
    BY <1>2, <1>4, <2>1
  <2> HIDE DEF rest
  <2>3. rest <= Size
    BY <1>3, <2>1, <2>2
  <2> QED
    BY <2>1, <2>2, <2>3, WordFacts
<1> HIDE DEF rest
<1>9. u[p] = size + USED_MASK
  BY <1>8
<1>10. rest < n => u[rest] = n - rest /\ rest \notin H
  BY <1>5, <1>8
<1>11. \A h \in H \ {p} : u[h] = v[h]
  BY <1>3, <1>5, <1>8
<1>12. u \in [Words -> u16]
  <2>1. size + USED_MASK \in u16
    BY <1>4, <1>7
  <2>2. v[p] > size => v[p] - size \in u16
    BY <1>4, <1>7
  <2> QED
    BY <2>1, <2>2
<1> HIDE DEF u
<1>13. Used(u, p) /\ u[p] # 0 /\ Tiles(u, p) = size /\ After(u, p) = rest
  <2>1. Used(u, p) /\ u[p] # 0
    BY <1>4, <1>9 DEF Used
  <2>2. Tiles(u, p) = u[p] - USED_MASK
    BY <1>8, <1>12, <2>1, TilesOf
  <2> QED
    BY <1>4, <1>9, <2>1, <2>2 DEF After, rest
<1>14. rest < n => ~Used(u, rest) /\ u[rest] # 0 /\ After(u, rest) = n
  <2> SUFFICES ASSUME rest < n PROVE ~Used(u, rest) /\ u[rest] # 0 /\ After(u, rest) = n
    OBVIOUS
  <2>1. u[rest] = n - rest /\ n - rest <= Size /\ Size < USED_MASK
    BY <1>3, <1>8, <1>10, WordFacts
  <2>2. ~Used(u, rest) /\ u[rest] # 0
    BY <1>3, <1>4, <1>8, <2>1 DEF Used
  <2>3. Tiles(u, rest) = u[rest]
    BY <1>8, <1>12, <2>2, TilesOf
  <2> QED
    BY <1>8, <2>1, <2>2, <2>3 DEF After
<1>15. \A h \in H \ {p} : After(u, h) = After(v, h) /\ Tiles(u, h) = Tiles(v, h)
                          /\ (Used(u, h) <=> Used(v, h))
  BY <1>11 DEF After, Tiles, Used
\* The row.
<1>16. K \subseteq Words /\ 0 \in K /\ Size \in K /\ u[Size] = 0
  BY <1>2, <1>3, <1>8, <1>11
<1>17. ASSUME NEW h \in K \ {Size}
       PROVE  /\ u[h] # 0 /\ After(u, h) \in K /\ h < After(u, h)
              /\ \A g \in K : ~(h < g /\ g < After(u, h))
  <2>1. CASE h = p
    <3>1. \A g \in K : g \in Nat /\ ~(p < g /\ g < rest)
      BY <1>3, <1>5, <1>8
    <3> QED
      BY <1>8, <1>13, <2>1, <3>1
  <2>2. CASE h \notin H
    <3>1. h = rest /\ rest < n
      BY <1>2, <1>8, <2>2
    <3>2. \A g \in K : ~(rest < g /\ g < n)
      BY <1>3, <1>5, <1>8
    <3> QED
      BY <1>2, <1>14, <3>1, <3>2
  <2>3. CASE h \in H \ {p}
    <3> DEFINE m == After(v, h)
    <3>1. v[h] # 0 /\ m \in H /\ h < m /\ \A g \in H : ~(h < g /\ g < m)
      BY <1>6, <2>3
    <3>2. h \in Nat /\ m \in Nat
      BY <1>3, <2>3, <3>1
    <3>3. h < p => m <= p
      BY <1>2, <2>3, RowOrder
    <3>4. p < h => n <= h
      BY <1>2, <2>3, RowOrder DEF n
    <3>5. After(u, h) = m /\ u[h] = v[h]
      BY <1>11, <1>15, <2>3
    <3> HIDE DEF m
    <3>6. ~(h < rest /\ rest < m)
      BY <1>8, <2>3, <3>2, <3>3, <3>4
    <3> QED
      BY <3>1, <3>5, <3>6
  <2> QED
    BY <2>1, <2>2, <2>3
<1>18. ASSUME NEW w \in 0 .. Size - 1
       PROVE  \E h \in K \ {Size} : h <= w /\ w < After(u, h)
  <2>1. PICK h \in H \ {Size} : h <= w /\ w < After(v, h)
    BY <1>6
  <2>2. CASE h # p
    BY <1>15, <2>1, <2>2
  <2>3. CASE h = p
    <3>1. p <= w /\ w < n /\ w \in Nat
      BY <2>1, <2>3, <1>3 DEF n
    <3>2. CASE w < rest
      BY <1>2, <1>13, <3>1, <3>2
    <3>3. CASE rest <= w
      <4>1. rest < n /\ rest # Size
        BY <1>3, <1>8, <3>1, <3>3
      <4> QED
        BY <1>14, <3>1, <3>3, <4>1
    <3> QED
      BY <1>8, <3>1, <3>2, <3>3
  <2> QED
    BY <2>2, <2>3
<1>19. Row(u, K)
  BY <1>16, <1>17, <1>18 DEF Row
\* The blocks.
<1>20. {h \in K : u[h] # 0 /\ Used(u, h)} = {h \in H : v[h] # 0 /\ Used(v, h)} \cup {p}
  <2>1. \A h \in H \ {p} : u[h] # 0 /\ Used(u, h) <=> v[h] # 0 /\ Used(v, h)
    BY <1>11, <1>15
  <2>2. rest \in H \/ ~Used(u, rest)
    BY <1>2, <1>8, <1>14
  <2> QED
    BY <1>2, <1>13, <2>1, <2>2
<1>21. Blocks(u, K) = Blocks(v, H) \cup {[at |-> p + StartIndex, len |-> size]}
  <2> DEFINE B == {h \in H : v[h] # 0 /\ Used(v, h)}
  <2>1. p \notin B /\ B \subseteq H
    BY <1>2
  <2>2. Blocks(u, K) = {[at |-> b + StartIndex, len |-> Tiles(u, b)] : b \in B \cup {p}}
    BY <1>20 DEF Blocks
  <2>3. Blocks(v, H) = {[at |-> b + StartIndex, len |-> Tiles(v, b)] : b \in B}
    BY DEF Blocks
  <2> HIDE DEF B
  <2>4. \A b \in B : Tiles(u, b) = Tiles(v, b)
    BY <1>15, <2>1
  <2> QED
    BY <1>13, <2>2, <2>3, <2>4
\* The word tried next.
<1>22. f \in Words /\ (u[f] = 0 \/ f \in FreeHeaders(u))
  <2>0. FreeHeaders(u) = {h \in K : u[h] # 0 /\ ~Used(u, h)}
    BY <1>12, <1>19, FreeOfRow
  <2>1. CASE v[p] > size
    BY <1>8, <1>14, <2>0, <2>1
  <2>2. CASE ~(v[p] > size)
    <3> DEFINE T == {b \in Chain(v, rest) : ~Used(v, b)}
    <3>1. rest = n /\ rest \in H
      BY <1>2, <1>8, <2>2
    <3>2. Chain(v, rest) = {h \in H : rest <= h}
      BY <3>1, RowChain
    <3>3. ~Used(v, Size)
      BY <1>3, <1>4 DEF Used, USED_MASK
    <3>0. rest <= Size
      BY <1>3, <3>1
    <3>4. T \subseteq Nat /\ Size \in T
      BY <1>3, <3>2, <3>3, <3>0
    <3>5. f = Min(T)
      BY <2>2
    <3>6. f \in T
      BY <3>4, <3>5, MinIsLeast
    <3> HIDE DEF f
    <3>7. f \in H /\ f # p /\ ~Used(v, f)
      BY <1>8, <3>2, <3>6
    <3>8. f \in Words /\ f \in K /\ ~Used(u, f)
      BY <1>3, <1>15, <3>7
    <3> QED
      BY <2>0, <3>8
  <2> QED
    BY <2>1, <2>2
<1> HIDE DEF f
<1> QED
  BY <1>1, <1>12, <1>19, <1>21, <1>22 DEF rest

\* What VRAM_free writes.
Unmarked(v, i) == [v EXCEPT ![i] = @ % USED_MASK]

\* Releasing an index leaves the blocks where they are, and takes from the
\* used ones the one that starts there, if any.
LEMMA FreedRow ==
  ASSUME NEW v \in [Words -> u16], NEW H, Row(v, H), NEW i \in 0 .. Size - 1
  PROVE  /\ Unmarked(v, i) \in [Words -> u16] /\ Row(Unmarked(v, i), H)
         /\ Blocks(Unmarked(v, i), H) = {b \in Blocks(v, H) : b.at # i + StartIndex}
         /\ \A w \in Words : v[w] = 0 => Unmarked(v, i)[w] = 0
         /\ FreeHeaders(v) \subseteq FreeHeaders(Unmarked(v, i))
<1> DEFINE u == Unmarked(v, i)
<1>0. u = [v EXCEPT ![i] = @ % USED_MASK]
  BY DEF Unmarked
<1> HIDE DEF u
<1>1. i \in Words /\ i \in Nat /\ i # Size /\ StartIndex \in Nat
  BY WordFacts
<1>2. u[i] = Tiles(v, i) /\ \A w \in Words \ {i} : u[w] = v[w]
  BY <1>0, <1>1 DEF Tiles
<1>3. v[i] \in Nat /\ Tiles(v, i) \in Nat /\ Tiles(v, i) < USED_MASK /\ USED_MASK \in Nat \ {0}
  BY <1>1, TilesOf, WordFacts
<1>4. ~Used(u, i) /\ Tiles(u, i) = Tiles(v, i)
  <2>1. ~Used(u, i)
    BY <1>2, <1>3 DEF Used
  <2>2. u[i] % USED_MASK = u[i]
    BY <1>2, <1>3, Modulo
  <2> QED
    BY <1>2, <2>1, <2>2 DEF Tiles
<1>5. u \in [Words -> u16]
  <2>1. Tiles(v, i) \in u16
    BY <1>3 DEF u16
  <2>2. v[i] % USED_MASK \in u16
    BY <2>1 DEF Tiles
  <2> QED
    BY <1>0, <2>2
<1>6. \A w \in Words : v[w] = 0 => u[w] = 0
  <2>1. v[i] = 0 => u[i] = 0
    BY <1>2, <1>3, Modulo DEF Tiles
  <2> QED
    BY <1>2, <2>1
<1>7. H \subseteq Words /\ \A h \in H : h \in Nat
  BY WordFacts DEF Row
<1>8. i \in H => u[i] # 0
  <2> SUFFICES ASSUME i \in H PROVE Tiles(v, i) # 0
    BY <1>2
  <2>1. i < After(v, i)
    BY <1>1 DEF Row
  <2> QED
    BY <1>1, <2>1 DEF After
<1>9. \A h \in H \ {i} : u[h] = v[h] /\ Tiles(u, h) = Tiles(v, h) /\ (Used(u, h) <=> Used(v, h))
  BY <1>2, <1>7 DEF Tiles, Used
<1>10. i \in H => v[i] # 0
  BY <1>1 DEF Row
<1>11. Row(u, H)
  <2>1. \A h \in H : Tiles(u, h) = Tiles(v, h) /\ (u[h] = 0 <=> v[h] = 0)
    BY <1>4, <1>8, <1>9, <1>10
  <2> QED
    BY <2>1 DEF Row, After
<1>12. FreeHeaders(v) \subseteq FreeHeaders(u)
  <2>1. FreeHeaders(v) = {h \in H : v[h] # 0 /\ ~Used(v, h)}
        /\ FreeHeaders(u) = {h \in H : u[h] # 0 /\ ~Used(u, h)}
    BY <1>5, <1>11, FreeOfRow
  <2> QED
    BY <1>4, <1>8, <1>9, <2>1
<1>13. Blocks(u, H) = {b \in Blocks(v, H) : b.at # i + StartIndex}
  <2> DEFINE B == {h \in H : v[h] # 0 /\ Used(v, h)}
             C == {h \in H : u[h] # 0 /\ Used(u, h)}
             rec(h) == [at |-> h + StartIndex, len |-> Tiles(v, h)]
  <2>1. C = B \ {i}
    BY <1>4, <1>9
  <2>2. \A h \in C : Tiles(u, h) = Tiles(v, h)
    BY <1>4, <1>9
  <2>3. Blocks(u, H) = {[at |-> h + StartIndex, len |-> Tiles(u, h)] : h \in C}
    BY DEF Blocks
  <2>4. Blocks(v, H) = {rec(h) : h \in B}
    BY DEF Blocks
  <2>5. \A h \in B : rec(h).at = i + StartIndex <=> h = i
    BY <1>1, <1>7
  <2> HIDE DEF B, C, rec
  <2>6. Blocks(u, H) = {rec(h) : h \in C}
    BY <2>2, <2>3 DEF rec
  <2> QED
    BY <2>1, <2>4, <2>5, <2>6
<1> QED
  BY <1>5, <1>6, <1>11, <1>12, <1>13 DEF u

\* Of a cleared region only the first and the last word count.
LEMMA ClearedRow ==
  ASSUME NEW v \in [Words -> u16]
  PROVE  /\ Cleared(v) \in [vram : [Words -> u16], free : Words]
         /\ Row(Cleared(v).vram, {0, Size}) /\ Blocks(Cleared(v).vram, {0, Size}) = {}
         /\ Cleared(v).free \in FreeHeaders(Cleared(v).vram)
<1> DEFINE u == [v EXCEPT ![0] = Size, ![Size] = 0]
<1>0. Cleared(v) = [vram |-> u, free |-> 0]
  BY DEF Cleared
<1>1. /\ Size \in Nat /\ Size > 0 /\ Size < USED_MASK /\ USED_MASK \in Nat
      /\ 0 \in Words /\ Size \in Words
  BY WordFacts
<1>2. u[0] = Size /\ u[Size] = 0
  BY <1>1
<1>3. Size \in u16 /\ 0 \in u16
  BY <1>1 DEF u16
<1>4. u \in [Words -> u16]
  BY <1>3
<1> HIDE DEF u
<1>5. ~Used(u, 0) /\ ~Used(u, Size)
  BY <1>1, <1>2 DEF Used
<1>6. Tiles(u, 0) = Size
  BY <1>1, <1>2, <1>4, <1>5, TilesOf
<1>7. After(u, 0) = Size
  BY <1>1, <1>6 DEF After
<1>8. Row(u, {0, Size})
  <2>1. \A w \in 0 .. Size - 1 : \E h \in {0, Size} \ {Size} : h <= w /\ w < After(u, h)
    BY <1>1, <1>7
  <2>2. \A g \in {0, Size} : ~(0 < g /\ g < Size)
    BY <1>1
  <2>3. \A h \in {0, Size} \ {Size} :
          /\ u[h] # 0 /\ After(u, h) \in {0, Size} /\ h < After(u, h)
          /\ \A g \in {0, Size} : ~(h < g /\ g < After(u, h))
    BY <1>1, <1>2, <1>7, <2>2
  <2> QED
    BY <1>1, <1>2, <2>1, <2>3 DEF Row
<1>9. Blocks(u, {0, Size}) = {}
  BY <1>5 DEF Blocks
<1>10. 0 \in FreeHeaders(u)
  BY <1>1, <1>2, <1>4, <1>5, <1>8, FreeOfRow
<1> QED
  BY <1>0, <1>1, <1>4, <1>8, <1>9, <1>10

-----------------------------------------------------------------------------
(* The functions, on any region *)

\* What the row of headers H of the words v describes.
Described(v, H, blocks) ==
  v \in [Words -> u16] /\ Row(v, H) /\ Blocks(v, H) = blocks

\* A region whose used blocks are the given ones.
Sound(r, blocks) ==
  /\ r \in [vram : [Words -> u16], free : Words]
  /\ Described(r.vram, Chain(r.vram, 0), blocks)
  /\ r.vram[r.free] = 0 \/ r.free \in FreeHeaders(r.vram)

LEMMA SoundBy ==
  ASSUME NEW r \in [vram : [Words -> u16], free : Words],
         NEW H, NEW blocks, Described(r.vram, H, blocks),
         r.vram[r.free] = 0 \/ r.free \in FreeHeaders(r.vram)
  PROVE  Sound(r, blocks)
<1>1. Chain(r.vram, 0) = H
  BY RowIsChain DEF Described
<1> QED
  BY <1>1 DEF Sound

\* A block of the region, as a header.
LEMMA HeldHeader ==
  ASSUME NEW v, NEW H, NEW blocks, Described(v, H, blocks), NEW b \in blocks
  PROVE  \E h \in H \ {Size} :
           /\ v[h] # 0 /\ Used(v, h) /\ h \in Nat /\ Tiles(v, h) \in Nat
           /\ b.at = h + StartIndex /\ b.len = Tiles(v, h)
<1>1. v \in [Words -> u16] /\ Row(v, H) /\ blocks = Blocks(v, H)
  BY DEF Described
<1>2. PICK h \in {g \in H : v[g] # 0 /\ Used(v, g)} :
        b = [at |-> h + StartIndex, len |-> Tiles(v, h)]
  BY <1>1 DEF Blocks
<1>3. h \in Words /\ h # Size
  BY <1>1, <1>2 DEF Row
<1>4. h \in Nat /\ Tiles(v, h) \in Nat
  BY <1>1, <1>3, TilesOf, WordFacts
<1> QED
  BY <1>2, <1>3, <1>4

LEMMA HeaderHeld ==
  ASSUME NEW v, NEW H, NEW blocks, Described(v, H, blocks), NEW h \in H, v[h] # 0, Used(v, h)
  PROVE  [at |-> h + StartIndex, len |-> Tiles(v, h)] \in blocks
BY DEF Described, Blocks

\* Where VRAM_alloc places a block, and in which state of the words.
LEMMA AllocFinds ==
  ASSUME NEW r, NEW blocks, Sound(r, blocks), NEW s \in Nat, s > 0, AllocAt(r, s) # NoTiles
  PROVE  \E v, H : /\ Described(v, H, blocks) /\ AllocAt(r, s) \in FreeHeaders(v)
                   /\ s <= v[AllocAt(r, s)]
                   /\ AllocRegion(r, s) = Take(v, AllocAt(r, s), s)
<1> DEFINE p == AllocAt(r, s)
           u == r.vram
           H == Chain(u, 0)
<1>1. Described(u, H, blocks) /\ r.free \in Words
  BY DEF Sound
<1>2. s \in Nat /\ s > 0
  OBVIOUS
<1>3. CASE s > u[r.free]
  <2>1. p = PackResult(u, s) /\ AllocRegion(r, s) = Take(Pack(u, s), p, s)
    BY <1>3 DEF AllocAt, AllocRegion
  <2>2. Described(Pack(u, s), Packed(u, H, s), blocks)
    BY <1>1, PackRow DEF Described
  <2>3. p \in FreeHeaders(Pack(u, s)) /\ Pack(u, s)[p] >= s
    BY <1>1, <1>2, <2>1, PackAnswers DEF Described
  <2>4. Pack(u, s)[p] \in Nat
    <3>1. FreeHeaders(Pack(u, s)) \subseteq Words
      BY <2>2, FreeOfRow DEF Described, Row
    <3> QED
      BY <2>2, <2>3, <3>1, TilesOf DEF Described
  <2>5. s <= Pack(u, s)[p]
    BY <1>2, <2>3, <2>4
  <2> QED
    BY <2>1, <2>2, <2>3, <2>5
<1>4. CASE ~(s > u[r.free])
  <2>1. p = r.free /\ AllocRegion(r, s) = Take(u, p, s)
    BY <1>4 DEF AllocAt, AllocRegion
  <2>2. u[r.free] \in Nat
    BY <1>1, TilesOf DEF Described
  <2>3. s <= u[p] /\ u[p] # 0
    BY <1>2, <1>4, <2>1, <2>2
  <2>4. p \in FreeHeaders(u)
    BY <2>1, <2>3 DEF Sound
  <2> QED
    BY <1>1, <2>1, <2>3, <2>4
<1> QED
  BY <1>3, <1>4

\* The block it returns lies in the region and meets no block in use.
LEMMA FreePlace ==
  ASSUME NEW v, NEW H, NEW blocks, Described(v, H, blocks), NEW p \in FreeHeaders(v),
         NEW s \in Nat, s > 0, s <= v[p]
  PROVE  /\ p \in Nat /\ p + StartIndex \in StartIndex .. EndIndex - s + 1
         /\ p + StartIndex \in StartIndex .. EndIndex
         /\ \A b \in blocks :
              A!Cells(b) \cap (p + StartIndex .. p + StartIndex + s - 1) = {}
<1> DEFINE n == After(v, p)
<1>1. v \in [Words -> u16] /\ Row(v, H)
  BY DEF Described
<1>2. p \in H \ {Size} /\ p + v[p] = n /\ n \in H /\ p < n /\ ~Used(v, p)
  BY <1>1, FreeOfRow
<1>3. /\ \A c \in H : c \in Nat /\ c \in Words /\ c <= Size
      /\ StartIndex \in Nat /\ Size \in Nat
  BY <1>1, WordFacts DEF Row
<1>4. v[p] \in Nat
  BY <1>1, <1>2, <1>3, TilesOf
<1> HIDE DEF n
<1>5. p \in Nat /\ p + s <= n /\ n <= Size /\ n \in Nat
  BY <1>2, <1>3, <1>4
<1>6. /\ p + StartIndex \in StartIndex .. EndIndex - s + 1
      /\ p + StartIndex \in StartIndex .. EndIndex
  BY <1>3, <1>5 DEF EndIndex
<1>7. ASSUME NEW b \in blocks
      PROVE  A!Cells(b) \cap (p + StartIndex .. p + StartIndex + s - 1) = {}
  <2>1. PICK h \in H \ {Size} :
          /\ v[h] # 0 /\ Used(v, h) /\ h \in Nat /\ Tiles(v, h) \in Nat
          /\ b.at = h + StartIndex /\ b.len = Tiles(v, h)
    BY HeldHeader
  <2>2. h # p
    BY <1>2, <2>1
  <2>3. h + Tiles(v, h) <= p \/ n <= h
    <3>1. CASE h < p
      BY <1>1, <1>2, <3>1, RowOrder DEF After
    <3>2. CASE p < h
      BY <1>1, <1>2, <3>2, RowOrder DEF n
    <3> QED
      BY <1>5, <2>1, <2>2, <3>1, <3>2
  <2> DEFINE t == Tiles(v, h)
  <2>4. t \in Nat /\ (h + t <= p \/ n <= h) /\ b.at = h + StartIndex /\ b.len = t
    BY <2>1, <2>3
  <2> HIDE DEF t
  <2>5. A!Cells(b) = h + StartIndex .. h + StartIndex + t - 1
    BY <2>4 DEF A!Cells
  <2>6. \A x \in Int : ~(/\ h + StartIndex <= x /\ x <= h + StartIndex + t - 1
                         /\ p + StartIndex <= x /\ x <= p + StartIndex + s - 1)
    BY <1>3, <1>5, <2>1, <2>4
  <2> QED
    BY <1>3, <1>5, <2>1, <2>4, <2>5, <2>6
<1> QED
  BY <1>5, <1>6, <1>7

\* A gap between the blocks in use lies in one run of free blocks.
LEMMA GapInRun ==
  ASSUME NEW v, NEW H, Described(v, H, held), NEW s \in Nat, s > 0, A!Fits(s)
  PROVE  PackFits(v, s) # {}
<1>1. v \in [Words -> u16] /\ Row(v, H)
  BY DEF Described
<1>2. /\ \A c \in H : c \in Nat /\ c \in Words /\ c <= Size
      /\ StartIndex \in Nat /\ Size \in Nat
  BY <1>1, WordFacts DEF Row
<1>3. PICK a \in StartIndex .. EndIndex - s + 1 :
        \A b \in held : A!Cells(b) \cap (a .. a + s - 1) = {}
  BY DEF A!Fits
<1> DEFINE w == a - StartIndex
<1>4. w \in Nat /\ w + s <= Size /\ a = w + StartIndex /\ w \in 0 .. Size - 1
  BY <1>2 DEF EndIndex
<1> HIDE DEF w
\* A used block has no cell in the gap.
<1>5. ASSUME NEW h \in H \ {Size}, Used(v, h), NEW x \in Nat,
             h <= x, x < After(v, h), w <= x, x < w + s
      PROVE  FALSE
  <2>1. v[h] # 0 /\ h \in Nat /\ Tiles(v, h) \in Nat
    BY <1>1, <1>2, TilesOf DEF Row
  <2> DEFINE b == [at |-> h + StartIndex, len |-> Tiles(v, h)]
             t == Tiles(v, h)
  <2>2. b \in held
    BY <1>5, <2>1, HeaderHeld
  <2>3. A!Cells(b) = h + StartIndex .. h + StartIndex + t - 1
    BY DEF A!Cells
  <2>4. x < h + t /\ t \in Nat
    BY <1>5, <2>1 DEF After
  <2> HIDE DEF b, t
  <2>5. x + StartIndex \in h + StartIndex .. h + StartIndex + t - 1
    BY <1>2, <1>5, <2>1, <2>4
  <2>6. x + StartIndex \in a .. a + s - 1
    BY <1>2, <1>4, <1>5
  <2> QED
    BY <1>3, <2>2, <2>3, <2>5, <2>6
<1>6. PICK h \in H \ {Size} : h <= w /\ w < After(v, h)
  BY <1>1, <1>4 DEF Row
<1>7. ~Used(v, h)
  BY <1>4, <1>5, <1>6
<1>8. h \in FreeHeaders(v)
  <2>1. v[h] # 0
    BY <1>1 DEF Row
  <2> QED
    BY <1>1, <1>7, <2>1, FreeOfRow
<1>9. PICK r \in Runs(v) : r.start <= h /\ h < r.end
  BY <1>1, <1>8, RunCovers
<1>10. IsRun(v, H, r)
  BY <1>1, RunFacts
<1>11. /\ r.start \in Nat /\ r.end \in H \ FreeHeaders(v) /\ r.end \in Nat /\ h \in Nat
       /\ r.end <= Size
  BY <1>1, <1>2, <1>10, FreeOfRow DEF IsRun
<1>12. After(v, h) <= r.end /\ After(v, h) \in Nat
  BY <1>1, <1>2, <1>9, <1>11, RowOrder
<1>13. w < r.end /\ r.start <= w
  BY <1>4, <1>6, <1>9, <1>11, <1>12
<1>14. w + s <= r.end
  <2> SUFFICES ASSUME r.end < w + s PROVE FALSE
    BY <1>4, <1>11
  <2>1. r.end \in H \ {Size}
    BY <1>2, <1>4, <1>11
  <2>2. Used(v, r.end) /\ r.end < After(v, r.end)
    <3>1. v[r.end] # 0 /\ r.end < After(v, r.end)
      BY <1>1, <2>1 DEF Row
    <3> QED
      BY <1>1, <1>11, <2>1, <3>1, FreeOfRow
  <2>3. w <= r.end /\ r.end <= r.end
    BY <1>4, <1>11, <1>13
  <2> QED
    BY <1>5, <1>11, <2>1, <2>2, <2>3
<1>15. RunTiles(r) >= s
  BY <1>4, <1>11, <1>13, <1>14 DEF RunTiles
<1> QED
  BY <1>15 DEF PackFits

-----------------------------------------------------------------------------
(* What the functions do to a sound region *)

\* The block that VRAM_alloc returns lies in the region, meets no other, and is
\* added to the used ones.
LEMMA AllocSound ==
  ASSUME NEW r, NEW blocks, Sound(r, blocks), NEW s \in Nat, s > 0,
         AllocIndex(r, s) # NoTiles
  PROVE  LET a == AllocIndex(r, s)
         IN /\ Sound(AllocRegion(r, s), blocks \cup {[at |-> a, len |-> s]})
            /\ a \in StartIndex .. EndIndex - s + 1 /\ a \in StartIndex .. EndIndex
            /\ \A b \in blocks : A!Cells(b) \cap (a .. a + s - 1) = {}
<1> DEFINE p == AllocAt(r, s)
           t == AllocRegion(r, s)
<1>1. p # NoTiles /\ AllocIndex(r, s) = p + StartIndex
  BY DEF AllocIndex
<1>3. PICK v, H : /\ Described(v, H, blocks) /\ p \in FreeHeaders(v) /\ s <= v[p]
                  /\ t = Take(v, p, s)
  BY <1>1, AllocFinds
<1> HIDE DEF p
<1>5. /\ t \in [vram : [Words -> u16], free : Words]
      /\ Row(t.vram, H \cup {p + s})
      /\ Blocks(t.vram, H \cup {p + s}) = blocks \cup {[at |-> p + StartIndex, len |-> s]}
      /\ t.vram[t.free] = 0 \/ t.free \in FreeHeaders(t.vram)
  <2>1. v \in [Words -> u16] /\ Row(v, H) /\ Blocks(v, H) = blocks
    BY <1>3 DEF Described
  <2> DEFINE q == Take(v, p, s)
  <2>2. /\ q \in [vram : [Words -> u16], free : Words]
        /\ Row(q.vram, H \cup {p + s})
        /\ Blocks(q.vram, H \cup {p + s})
             = Blocks(v, H) \cup {[at |-> p + StartIndex, len |-> s]}
        /\ q.vram[q.free] = 0 \/ q.free \in FreeHeaders(q.vram)
    BY <1>3, <2>1, TakeRow
  <2>3. t = q
    BY <1>3
  <2> HIDE DEF t, q
  <2> QED
    BY <2>1, <2>2, <2>3
<1> HIDE DEF t
<1>6. Described(t.vram, H \cup {p + s}, blocks \cup {[at |-> p + StartIndex, len |-> s]})
  BY <1>5 DEF Described
<1>7. /\ p + StartIndex \in StartIndex .. EndIndex - s + 1
      /\ p + StartIndex \in StartIndex .. EndIndex
      /\ \A b \in blocks : A!Cells(b) \cap (p + StartIndex .. p + StartIndex + s - 1) = {}
  BY <1>3, FreePlace
<1>8. Sound(t, blocks \cup {[at |-> p + StartIndex, len |-> s]})
  BY <1>5, <1>6, SoundBy
<1> QED
  BY <1>1, <1>7, <1>8 DEF t

\* A refusal leaves the used blocks alone, has merged every run, and found none
\* large enough.
LEMMA AllocFailsSound ==
  ASSUME NEW r, NEW blocks, Sound(r, blocks), NEW s \in Nat, s > 0,
         AllocIndex(r, s) = NoTiles
  PROVE  /\ Sound(AllocRegion(r, s), blocks)
         /\ Apart(AllocRegion(r, s).vram) /\ PackFits(r.vram, s) = {}
<1> DEFINE v == r.vram
           H == Chain(v, 0)
           t == AllocRegion(r, s)
<1>1. Described(v, H, blocks) /\ r.free \in Words /\ r = [vram |-> v, free |-> r.free]
  BY DEF Sound
<1>3. AllocAt(r, s) = NoTiles
  <2> SUFFICES ASSUME AllocAt(r, s) # NoTiles PROVE FALSE
    OBVIOUS
  <2>2. AllocAt(r, s) \in Nat
    BY AllocFinds, FreePlace
  <2>3. AllocIndex(r, s) = AllocAt(r, s) + StartIndex
    BY DEF AllocIndex
  <2> QED
    BY <2>2, <2>3, WordFacts DEF NoTiles
<1>4. s > v[r.free] /\ PackResult(v, s) = NoTiles
  <2>1. r.free # NoTiles
    BY <1>1, WordFacts DEF NoTiles
  <2> QED
    BY <1>3, <2>1 DEF AllocAt
<1>5. t = [r EXCEPT !.vram = Pack(v, s)]
  BY <1>3, <1>4 DEF AllocRegion
<1>6. t.vram = Pack(v, s) /\ t.free = r.free /\ t = [vram |-> Pack(v, s), free |-> r.free]
  BY <1>1, <1>5
<1> HIDE DEF t
<1>7. Described(t.vram, Packed(v, H, s), blocks)
  BY <1>1, <1>6, PackRow DEF Described
<1>8. t \in [vram : [Words -> u16], free : Words]
  BY <1>1, <1>6, <1>7 DEF Described
<1>9. t.vram[t.free] = 0 \/ t.free \in FreeHeaders(t.vram)
  <2>1. v[r.free] = 0 \/ r.free \in FreeHeaders(v)
    BY DEF Sound
  <2>2. Pack(v, s)[r.free] = 0 \/ r.free \in FreeHeaders(Pack(v, s))
    BY <1>1, <2>1, PackRow DEF Described
  <2> QED
    BY <1>6, <2>2
<1>10. Apart(t.vram)
  BY <1>1, <1>4, <1>6, PackMergesAll DEF Described, Apart
<1>12. Sound(t, blocks)
  BY <1>7, <1>8, <1>9, SoundBy
<1>13. PackFits(v, s) = {}
  BY <1>1, <1>4, PackAnswers DEF Described
<1> QED
  BY <1>10, <1>12, <1>13 DEF t

\* The used blocks are made of tiles of the region, and none starts where
\* another does.
LEMMA SoundBlocks ==
  ASSUME NEW r, NEW blocks, Sound(r, blocks), NEW b \in blocks
  PROVE  /\ b.at \in StartIndex .. EndIndex /\ b.len \in Nat /\ b.len > 0
         /\ b.at + b.len <= EndIndex + 1
         /\ \A c \in blocks : c.at = b.at => c = b
<1> DEFINE v == r.vram
           H == Chain(v, 0)
<1>1. v \in [Words -> u16] /\ Row(v, H) /\ blocks = Blocks(v, H)
  BY DEF Sound, Described
<1>2. \A d \in blocks : \E h \in H : /\ h \in Nat /\ h # Size
                                     /\ d = [at |-> h + StartIndex, len |-> Tiles(v, h)]
  BY <1>1, WordFacts DEF Blocks, Row
<1>3. PICK h \in H : /\ h \in Nat /\ h # Size
                     /\ b = [at |-> h + StartIndex, len |-> Tiles(v, h)]
  BY <1>2
<1>4. h \in Words /\ After(v, h) \in Words /\ h < After(v, h)
  BY <1>1, <1>3 DEF Row
<1>5. Tiles(v, h) \in Nat
  BY <1>1, <1>4, TilesOf
<1>6. Tiles(v, h) > 0 /\ h + Tiles(v, h) <= Size
  BY <1>3, <1>4, <1>5, WordFacts DEF After
<1>7. ASSUME NEW c \in blocks, c.at = b.at PROVE c = b
  <2>1. PICK g \in H : /\ g \in Nat /\ g # Size
                       /\ c = [at |-> g + StartIndex, len |-> Tiles(v, g)]
    BY <1>2
  <2>2. g = h
    BY <1>3, <1>7, <2>1, WordFacts
  <2> QED
    BY <1>3, <2>1, <2>2
<1> QED
  BY <1>3, <1>5, <1>6, <1>7, WordFacts DEF EndIndex

\* VRAM_free takes from the used blocks the one that starts at the index, if any.
LEMMA FreedSound ==
  ASSUME NEW r, NEW blocks, Sound(r, blocks), NEW index \in Nat
  PROVE  Sound(Freed(r, index), {b \in blocks : b.at # index})
<1> DEFINE v == r.vram
           H == Chain(v, 0)
           i == index - StartIndex
           t == Freed(r, index)
           left == {b \in blocks : b.at # index}
<1>1. Described(v, H, blocks) /\ r.free \in Words /\ r = [vram |-> v, free |-> r.free]
  BY DEF Sound
<1>3. v[r.free] = 0 \/ r.free \in FreeHeaders(v)
  BY DEF Sound
<1>4. CASE i >= 0 /\ index <= EndIndex
  <2> DEFINE u == Unmarked(v, i)
  <2>1. i \in 0 .. Size - 1 /\ i + StartIndex = index
    BY <1>4, WordFacts DEF EndIndex
  <2>2. t = [r EXCEPT !.vram[i] = @ % USED_MASK]
    BY <1>4 DEF Freed
  <2>3. t = [vram |-> u, free |-> r.free]
    BY <1>1, <2>2 DEF Unmarked
  <2> HIDE DEF t
  <2>4. t.vram = u /\ t.free = r.free
    BY <2>3
  <2> HIDE DEF i
  <2>5. /\ u \in [Words -> u16] /\ Row(u, H)
        /\ Blocks(u, H) = {b \in Blocks(v, H) : b.at # i + StartIndex}
        /\ \A w \in Words : v[w] = 0 => u[w] = 0
        /\ FreeHeaders(v) \subseteq FreeHeaders(u)
    <3>1. v \in [Words -> u16] /\ Row(v, H)
      BY <1>1 DEF Described
    <3> QED
      BY <2>1, <3>1, FreedRow
  <2> HIDE DEF u
  <2>6. Described(t.vram, H, left)
    BY <1>1, <2>1, <2>4, <2>5 DEF Described
  <2>7. t \in [vram : [Words -> u16], free : Words]
    BY <1>1, <2>3, <2>5
  <2>8. t.vram[t.free] = 0 \/ t.free \in FreeHeaders(t.vram)
    BY <1>1, <1>3, <2>4, <2>5
  <2>9. Sound(t, left)
    BY <2>6, <2>7, <2>8, SoundBy
  <2> QED
    BY <2>9 DEF t
<1>5. CASE ~(i >= 0 /\ index <= EndIndex)
  <2>1. t = r
    BY <1>5 DEF Freed
  <2>2. index \notin StartIndex .. EndIndex
    BY <1>5, WordFacts DEF EndIndex
  <2>3. left = blocks
    BY <2>2, SoundBlocks
  <2> QED
    BY <2>1, <2>3
<1> QED
  BY <1>4, <1>5

\* A region that is created or cleared.
LEMMA ClearedSound ==
  ASSUME NEW v \in [Words -> u16]
  PROVE  Sound(Cleared(v), {})
<1>1. /\ Cleared(v) \in [vram : [Words -> u16], free : Words]
      /\ Described(Cleared(v).vram, {0, Size}, {})
      /\ Cleared(v).free \in FreeHeaders(Cleared(v).vram)
  BY ClearedRow DEF Described
<1> QED
  BY <1>1, SoundBy

LEMMA SoundChain ==
  ASSUME NEW r, NEW blocks, Sound(r, blocks)
  PROVE  ChainHolds(r.vram, blocks)
BY DEF Sound, Described, ChainHolds, Row, Blocks, Headers

-----------------------------------------------------------------------------
(* The invariant of Vram, one lemma per call *)

\* The inductive invariant.
IInv ==
  /\ Sound(region, held)
  /\ \A b \in held : b.at \in StartIndex .. EndIndex /\ b.len \in Sizes
  /\ refused \in Sizes \cup {0}
  /\ refused # 0 => Apart(region.vram)

LEMMA SizeFacts ==
  ASSUME NEW s \in Sizes
  PROVE  s \in Nat /\ s > 0 /\ s # 0
<1>1. s \in 1 .. USED_MASK - 1
  BY SizesAssumption
<1> QED
  BY <1>1, WordFacts

LEMMA AllocKeeps ==
  ASSUME IInv, NEW s \in Sizes, VRAM_alloc(s)
  PROVE  /\ IInv'
         /\ \E a \in StartIndex .. EndIndex - s + 1 :
              /\ \A b \in held : A!Cells(b) \cap (a .. a + s - 1) = {}
              /\ held' = held \cup {[at |-> a, len |-> s]}
<1> DEFINE a == AllocIndex(region, s)
<1>1. s \in Nat /\ s > 0 /\ Sound(region, held) /\ a # NoTiles
  BY SizeFacts DEF IInv, VRAM_alloc
<1>2. /\ region' = AllocRegion(region, s) /\ refused' = 0
      /\ held' = held \cup {[at |-> a, len |-> s]}
  BY DEF VRAM_alloc
<1>3. /\ Sound(AllocRegion(region, s), held \cup {[at |-> a, len |-> s]})
      /\ a \in StartIndex .. EndIndex - s + 1 /\ a \in StartIndex .. EndIndex
      /\ \A b \in held : A!Cells(b) \cap (a .. a + s - 1) = {}
  BY <1>1, AllocSound
<1> HIDE DEF a
<1>4. Sound(region', held')
  BY <1>2, <1>3
<1>5. \A b \in held' : b.at \in StartIndex .. EndIndex /\ b.len \in Sizes
  BY <1>2, <1>3 DEF IInv
<1>6. IInv'
  BY <1>2, <1>4, <1>5 DEF IInv
<1> QED
  BY <1>2, <1>3, <1>6

LEMMA AllocFailsKeeps ==
  ASSUME IInv, NEW s \in Sizes, VRAM_allocFails(s)
  PROVE  IInv' /\ ~A!Fits(s) /\ held' = held
<1>1. s \in Nat /\ s > 0 /\ Sound(region, held) /\ AllocIndex(region, s) = NoTiles
  BY SizeFacts DEF IInv, VRAM_allocFails
<1>2. region' = AllocRegion(region, s) /\ refused' = s /\ held' = held
  BY DEF VRAM_allocFails
<1>3. Sound(region', held') /\ Apart(region'.vram) /\ PackFits(region.vram, s) = {}
  BY <1>1, <1>2, AllocFailsSound
<1>4. IInv'
  BY <1>2, <1>3 DEF IInv
<1>5. ~A!Fits(s)
  BY <1>1, <1>3, GapInRun DEF Sound
<1> QED
  BY <1>2, <1>4, <1>5

\* Both kinds of release.
LEMMA FreedKeeps ==
  ASSUME IInv, NEW index \in Nat, region' = Freed(region, index), refused' = 0,
         held' = {b \in held : b.at # index}
  PROVE  IInv'
<1>1. Sound(region', held')
  BY FreedSound DEF IInv
<1> QED
  BY <1>1 DEF IInv

LEMMA FreeKeeps ==
  ASSUME IInv, NEW b \in held, VRAM_free(b)
  PROVE  IInv'
<1>1. b.at \in Nat
  BY WordFacts DEF IInv, EndIndex
<1>2. held' = {c \in held : c.at # b.at}
  BY SoundBlocks DEF VRAM_free, IInv
<1> QED
  BY <1>1, <1>2, FreedKeeps DEF VRAM_free

LEMMA FreeAgainKeeps ==
  ASSUME IInv, NEW i \in 0 .. EndIndex + 1, VRAM_freeAgain(i)
  PROVE  IInv'
<1>1. i \in Nat
  BY WordFacts DEF EndIndex
<1>2. held' = {b \in held : b.at # i}
  BY DEF VRAM_freeAgain
<1> QED
  BY <1>1, <1>2, FreedKeeps DEF VRAM_freeAgain

LEMMA ClearedKeeps ==
  ASSUME NEW v \in [Words -> u16], region' = Cleared(v), held' = {}, refused' = 0
  PROVE  IInv'
<1>1. Sound(region', held')
  BY ClearedSound
<1> QED
  BY <1>1 DEF IInv

LEMMA GarbageWords ==
  ASSUME NEW g \in Garbage
  PROVE  [w \in Words |-> g] \in [Words -> u16]
BY SizesAssumption

LEMMA InitInvariant ==
  Init => IInv
<1> SUFFICES ASSUME Init PROVE IInv
  OBVIOUS
<1>1. PICK g \in Garbage : region = Cleared([w \in Words |-> g])
  BY DEF Init, Created
<1>2. held = {} /\ refused = 0
  BY DEF Init
<1>3. Sound(region, held)
  BY <1>1, <1>2, GarbageWords, ClearedSound
<1> QED
  BY <1>2, <1>3 DEF IInv

LEMMA NextInvariant ==
  IInv /\ [Next]_vars => IInv'
<1> SUFFICES ASSUME IInv, [Next]_vars PROVE IInv'
  OBVIOUS
<1>1. ASSUME NEW s \in Sizes, VRAM_alloc(s) PROVE IInv'
  BY <1>1, AllocKeeps
<1>2. ASSUME NEW s \in Sizes, VRAM_allocFails(s) PROVE IInv'
  BY <1>2, AllocFailsKeeps
<1>3. ASSUME NEW b \in held, VRAM_free(b) PROVE IInv'
  BY <1>3, FreeKeeps
<1>4. ASSUME NEW i \in 0 .. EndIndex + 1, VRAM_freeAgain(i) PROVE IInv'
  BY <1>4, FreeAgainKeeps
<1>5. CASE VRAM_clearRegion
  <2>1. region.vram \in [Words -> u16]
    BY DEF IInv, Sound
  <2> QED
    BY <1>5, <2>1, ClearedKeeps DEF VRAM_clearRegion
<1>6. CASE VRAM_recreateRegion
  <2>1. PICK g \in Garbage : region' = Cleared([w \in Words |-> g])
    BY <1>6 DEF VRAM_recreateRegion, Created
  <2> QED
    BY <1>6, <2>1, GarbageWords, ClearedKeeps DEF VRAM_recreateRegion
<1>7. CASE UNCHANGED vars
  BY <1>7 DEF vars, IInv
<1> QED
  BY <1>1, <1>2, <1>3, <1>4, <1>5, <1>6, <1>7 DEF Next

-----------------------------------------------------------------------------
(* Sums *)

\* MapThenSumSet of FiniteSetsExt, for the values of a function.
SumOf(f, S) ==
  LET iter[s \in SUBSET S] ==
        IF s = {} THEN 0
        ELSE LET x == CHOOSE x \in s : TRUE IN f[x] + iter[s \ {x}]
  IN iter[S]

LEMMA SumOfWords ==
  ASSUME NEW v, NEW S
  PROVE  MapThenSumSet(LAMBDA b : v[b], S) = SumOf(v, S)
BY DEF MapThenSumSet, MapThenFoldSet, SumOf

LEMMA SumOfTiles ==
  ASSUME NEW v, NEW S
  PROVE  MapThenSumSet(LAMBDA b : Tiles(v, b), S) = SumOf([b \in S |-> Tiles(v, b)], S)
<1> DEFINE f == [b \in S |-> Tiles(v, b)]
           Is(i) == i = [s \in SUBSET S |->
                           IF s = {} THEN 0
                           ELSE Tiles(v, CHOOSE x \in s : TRUE)
                                  + i[s \ {CHOOSE x \in s : TRUE}]]
           IsToo(i) == i = [s \in SUBSET S |->
                              IF s = {} THEN 0
                              ELSE f[CHOOSE x \in s : TRUE]
                                     + i[s \ {CHOOSE x \in s : TRUE}]]
<1>1. MapThenSumSet(LAMBDA b : Tiles(v, b), S) = (CHOOSE i : Is(i))[S]
  BY DEF MapThenSumSet, MapThenFoldSet
<1>2. SumOf(f, S) = (CHOOSE i : IsToo(i))[S]
  BY DEF SumOf
<1>3. \A i : Is(i) <=> IsToo(i)
  OBVIOUS
<1> HIDE DEF Is, IsToo
<1>4. (CHOOSE i : Is(i)) = (CHOOSE i : IsToo(i))
  BY <1>3, Zenon
<1> QED
  BY <1>1, <1>2, <1>4, Zenon

LEMMA SumOfLengths ==
  ASSUME NEW S
  PROVE  MapThenSumSet(LAMBDA b : b.len, S) = SumOf([b \in S |-> b.len], S)
<1> DEFINE f == [b \in S |-> b.len]
           Is(i) == i = [s \in SUBSET S |->
                           IF s = {} THEN 0
                           ELSE (CHOOSE x \in s : TRUE).len
                                  + i[s \ {CHOOSE x \in s : TRUE}]]
           IsToo(i) == i = [s \in SUBSET S |->
                              IF s = {} THEN 0
                              ELSE f[CHOOSE x \in s : TRUE]
                                     + i[s \ {CHOOSE x \in s : TRUE}]]
<1>1. MapThenSumSet(LAMBDA b : b.len, S) = (CHOOSE i : Is(i))[S]
  BY DEF MapThenSumSet, MapThenFoldSet
<1>2. SumOf(f, S) = (CHOOSE i : IsToo(i))[S]
  BY DEF SumOf
<1>3. \A i : Is(i) <=> IsToo(i)
  OBVIOUS
<1> HIDE DEF Is, IsToo
<1>4. (CHOOSE i : Is(i)) = (CHOOSE i : IsToo(i))
  BY <1>3, Zenon
<1> QED
  BY <1>1, <1>2, <1>4, Zenon

\* The elements of the sets that C gives to the elements of s.
All(C, s) == UNION {C[x] : x \in s}

LEMMA AllFinite ==
  ASSUME NEW C, NEW s, IsFiniteSet(s), \A x \in s : IsFiniteSet(C[x])
  PROVE  IsFiniteSet(All(C, s))
<1> DEFINE T == {C[x] : x \in s}
           m == [x \in s |-> C[x]]
<1>1. m \in Surjection(s, T)
  BY DEF Surjection
<1>2. IsFiniteSet(T)
  BY <1>1, FS_Surjection
<1> QED
  BY <1>2, FS_UNION DEF All

\* A sum counts the elements of disjoint sets of the sizes summed.
LEMMA SumCounts ==
  ASSUME NEW S, IsFiniteSet(S), NEW f, NEW C,
         \A x \in S : f[x] \in Nat /\ IsFiniteSet(C[x]) /\ Cardinality(C[x]) = f[x],
         \A x, y \in S : x # y => C[x] \cap C[y] = {}
  PROVE  SumOf(f, S) = Cardinality(All(C, S))
<1> DEFINE pick(s) == CHOOSE x \in s : TRUE
           Is(i) == i = [s \in SUBSET S |->
                           IF s = {} THEN 0 ELSE f[pick(s)] + i[s \ {pick(s)}]]
           iter == CHOOSE i : Is(i)
           g == [s \in SUBSET S |-> Cardinality(All(C, s))]
<1>1. \A s \in SUBSET S : s # {} => pick(s) \in s /\ s \ {pick(s)} \in SUBSET S
  OBVIOUS
<1>2. SumOf(f, S) = iter[S]
  BY DEF SumOf
<1> HIDE DEF pick
<1>3. \A s \in SUBSET S : IsFiniteSet(s) /\ IsFiniteSet(All(C, s))
  <2> SUFFICES ASSUME NEW s \in SUBSET S PROVE IsFiniteSet(s) /\ IsFiniteSet(All(C, s))
    OBVIOUS
  <2>1. IsFiniteSet(s)
    BY FS_Subset
  <2> QED
    BY <2>1, AllFinite
<1>4. g[{}] = 0
  <2>1. All(C, {}) = {}
    BY DEF All
  <2> QED
    BY <2>1, FS_EmptySet
<1>5. ASSUME NEW s \in SUBSET S, s # {}
      PROVE  g[s] = f[pick(s)] + g[s \ {pick(s)}]
  <2> DEFINE x == pick(s)
             r == s \ {x}
  <2>1. x \in s /\ r \in SUBSET S /\ x \in S
    BY <1>1, <1>5
  <2>2. All(C, s) = C[x] \cup All(C, r)
    BY <2>1 DEF All
  <2>3. C[x] \cap All(C, r) = {}
    BY <2>1 DEF All
  <2> HIDE DEF r, x
  <2>4. Cardinality(C[x] \cup All(C, r))
          = Cardinality(C[x]) + Cardinality(All(C, r)) - Cardinality(C[x] \cap All(C, r))
    BY <1>3, <2>1, FS_Union
  <2>5. Cardinality(All(C, r)) \in Nat /\ Cardinality(C[x]) = f[x] /\ f[x] \in Nat
    BY <1>3, <2>1, FS_CardinalityType
  <2>6. Cardinality(C[x] \cap All(C, r)) = 0
    BY <2>3, FS_EmptySet
  <2>7. Cardinality(All(C, s)) = f[x] + Cardinality(All(C, r))
    BY <2>2, <2>4, <2>5, <2>6
  <2> QED
    BY <2>1, <2>7 DEF x, r
<1>6. Is(g)
  <2>1. DOMAIN g = SUBSET S
    OBVIOUS
  <2> HIDE DEF g
  <2> QED
    <3>1. g = [s \in SUBSET S |-> g[s]]
      BY <2>1 DEF g
    <3>2. \A s \in SUBSET S : g[s] = IF s = {} THEN 0 ELSE f[pick(s)] + g[s \ {pick(s)}]
      BY <1>4, <1>5
    <3> QED
      BY <3>1, <3>2
<1>7. Is(iter)
  BY <1>6
<1> HIDE DEF iter, g
<1>8. \A s \in SUBSET S : iter[s] = g[s]
  <2> DEFINE Bad(s) == s \in SUBSET S /\ iter[s] # g[s]
             N == {n \in Nat : \E s : Bad(s) /\ Cardinality(s) = n}
  <2> SUFFICES ASSUME NEW t, Bad(t) PROVE FALSE
    OBVIOUS
  <2>1. Cardinality(t) \in N
    BY <1>3, FS_CardinalityType
  <2>2. PICK n \in N : \A m \in N : n <= m
    BY <2>1, NatMin
  <2>3. PICK s : Bad(s) /\ Cardinality(s) = n
    OBVIOUS
  <2>4. s # {}
    BY <1>4, <1>7, <2>3
  <2> DEFINE r == s \ {pick(s)}
  <2>5. pick(s) \in s /\ r \in SUBSET S
    BY <1>1, <2>3, <2>4
  <2>6. iter[s] = f[pick(s)] + iter[r] /\ g[s] = f[pick(s)] + g[r]
    BY <1>5, <1>7, <2>3, <2>4
  <2>7. Cardinality(r) = n - 1 /\ Cardinality(r) \in Nat
    BY <1>3, <2>3, <2>5, FS_RemoveElement, FS_CardinalityType
  <2> HIDE DEF r
  <2>8. iter[r] # g[r]
    BY <2>3, <2>6
  <2>9. n - 1 \in N
    BY <2>5, <2>7, <2>8
  <2> QED
    BY <2>2, <2>9
<1> QED
  BY <1>2, <1>8 DEF g

\* VRAM_getFree and VRAM_getAllocated over a row of headers.
LEMMA RowCounts ==
  ASSUME NEW v, NEW H, NEW blocks, Described(v, H, blocks)
  PROVE  /\ VRAM_getAllocated(v) = MapThenSumSet(LAMBDA b : b.len, blocks)
         /\ VRAM_getFree(v) = Size - VRAM_getAllocated(v)
<1> DEFINE F == FreeHeaders(v)
           U == {h \in H : v[h] # 0 /\ Used(v, h)}
           C == [h \in H |-> h .. After(v, h) - 1]
           D == [b \in blocks |-> b.at - StartIndex .. b.at - StartIndex + b.len - 1]
<1>1. v \in [Words -> u16] /\ Row(v, H) /\ blocks = Blocks(v, H)
  BY DEF Described
<1>2. /\ \A c \in H : c \in Nat /\ c \in Words /\ c <= Size
      /\ H \subseteq Words /\ Size \in H /\ v[Size] = 0 /\ Size \in Nat /\ StartIndex \in Nat
  BY <1>1, WordFacts DEF Row
<1>3. Headers(v) = {h \in H : v[h] # 0}
  BY <1>1, RowIsChain DEF Headers
<1>4. F = {h \in H : v[h] # 0 /\ ~Used(v, h)}
  BY <1>1, FreeOfRow
<1>5. IsFiniteSet(H)
  BY <1>2, FS_BoundedSetOfNaturals
<1>6. IsFiniteSet(F) /\ IsFiniteSet(U) /\ F \subseteq H \ {Size} /\ U \subseteq H \ {Size}
  BY <1>2, <1>4, <1>5, FS_Subset
<1>7. \A h \in H \ {Size} : /\ Tiles(v, h) \in Nat /\ After(v, h) \in Nat
                            /\ After(v, h) = h + Tiles(v, h) /\ h < After(v, h)
                            /\ After(v, h) <= Size
  <2>1. \A h \in H \ {Size} : After(v, h) \in H /\ h < After(v, h)
    BY <1>1 DEF Row
  <2> QED
    BY <1>1, <1>2, <2>1, TilesOf DEF After
<1>8. \A h \in H \ {Size} : IsFiniteSet(C[h]) /\ Cardinality(C[h]) = Tiles(v, h)
  <2> SUFFICES ASSUME NEW h \in H \ {Size}
               PROVE  IsFiniteSet(C[h]) /\ Cardinality(C[h]) = Tiles(v, h)
    OBVIOUS
  <2> DEFINE n == After(v, h)
  <2>1. C[h] = h .. n - 1
    OBVIOUS
  <2>2. h \in Nat /\ n \in Nat /\ h < n /\ n = h + Tiles(v, h) /\ Tiles(v, h) \in Nat
    BY <1>2, <1>7
  <2> HIDE DEF n, C
  <2> DEFINE e == n - 1
  <2>3. e \in Int /\ h \in Int /\ ~(h > e) /\ e - h + 1 = Tiles(v, h)
    BY <2>2
  <2>4. C[h] = h .. e
    BY <2>1
  <2> HIDE DEF e
  <2>5. IsFiniteSet(h .. e) /\ Cardinality(h .. e) = IF h > e THEN 0 ELSE e - h + 1
    BY <2>3, FS_Interval
  <2> QED
    BY <2>3, <2>4, <2>5
<1>9. \A g, h \in H \ {Size} : g # h => C[g] \cap C[h] = {}
  <2>1. ASSUME NEW g \in H \ {Size}, NEW h \in H \ {Size}, g < h PROVE C[g] \cap C[h] = {}
    <3>1. After(v, g) <= h
      BY <1>1, <2>1, RowOrder
    <3> QED
      BY <1>2, <1>7, <3>1
  <2> HIDE DEF C
  <2> SUFFICES ASSUME NEW g \in H \ {Size}, NEW h \in H \ {Size}, g # h
               PROVE  C[g] \cap C[h] = {}
    OBVIOUS
  <2>2. g < h \/ h < g
    BY <1>2
  <2>3. CASE g < h
    BY <2>1, <2>3
  <2>4. CASE h < g
    BY <2>1, <2>4
  <2> QED
    BY <2>2, <2>3, <2>4
<1>10. All(C, F) \cup All(C, U) = 0 .. Size - 1
  <2>1. \A h \in F \cup U : C[h] \subseteq 0 .. Size - 1
    <3>1. \A h \in H \ {Size} : C[h] \subseteq 0 .. Size - 1
      BY <1>2, <1>7
    <3> HIDE DEF C, F, U
    <3> QED
      BY <1>6, <3>1
  <2>2. ASSUME NEW w \in 0 .. Size - 1 PROVE w \in All(C, F) \cup All(C, U)
    <3>1. PICK h \in H \ {Size} : h <= w /\ w < After(v, h)
      BY <1>1 DEF Row
    <3>2. w \in C[h]
      BY <1>2, <1>7, <3>1
    <3>3. h \in F \cup U
      <4>1. v[h] # 0
        BY <1>1 DEF Row
      <4> QED
        BY <1>4, <4>1
    <3> HIDE DEF C, F, U
    <3> QED
      BY <3>2, <3>3 DEF All
  <2> HIDE DEF C, F, U
  <2> QED
    BY <2>1, <2>2 DEF All
<1>11. All(C, F) \cap All(C, U) = {}
  <2>1. F \cap U = {}
    BY <1>4
  <2> HIDE DEF C, F, U
  <2> QED
    BY <1>6, <1>9, <2>1 DEF All
<1>12. VRAM_getFree(v) = Cardinality(All(C, F))
  <2>1. VRAM_getFree(v) = SumOf(v, F)
    BY SumOfWords DEF VRAM_getFree
  <2>2. \A h \in F : v[h] = Tiles(v, h)
    BY <1>1, <1>2, <1>4, TilesOf
  <2> HIDE DEF C, F
  <2> QED
    BY <1>6, <1>7, <1>8, <1>9, <2>1, <2>2, SumCounts
<1>13. VRAM_getAllocated(v) = Cardinality(All(C, U))
  <2> DEFINE f == [b \in U |-> Tiles(v, b)]
  <2>1. {b \in Headers(v) : Used(v, b)} = U
    BY <1>3
  <2>2. VRAM_getAllocated(v) = SumOf(f, U)
    BY <2>1, SumOfTiles DEF VRAM_getAllocated
  <2>3. \A h \in U : f[h] = Tiles(v, h)
    OBVIOUS
  <2> HIDE DEF C, U, f
  <2> QED
    BY <1>6, <1>7, <1>8, <1>9, <2>2, <2>3, SumCounts
\* The same cells, by the blocks.
<1> DEFINE rec(h) == [at |-> h + StartIndex, len |-> Tiles(v, h)]
<1>14. /\ blocks = {rec(h) : h \in U}
       /\ \A h \in U : rec(h) \in blocks /\ D[rec(h)] = C[h] /\ rec(h).len = Tiles(v, h)
  <2>1. blocks = {rec(h) : h \in U}
    BY <1>1 DEF Blocks
  <2> SUFFICES ASSUME NEW h \in U
               PROVE  rec(h) \in blocks /\ D[rec(h)] = C[h] /\ rec(h).len = Tiles(v, h)
    BY <2>1
  <2>2. rec(h) \in blocks /\ rec(h).at = h + StartIndex /\ rec(h).len = Tiles(v, h)
    BY <2>1
  <2>3. /\ rec(h).at - StartIndex = h /\ h \in H
        /\ rec(h).at - StartIndex + rec(h).len - 1 = After(v, h) - 1
    BY <1>2, <1>6, <1>7, <2>2
  <2> HIDE DEF rec, U
  <2> QED
    BY <2>2, <2>3
<1>15. MapThenSumSet(LAMBDA b : b.len, blocks) = Cardinality(All(D, blocks))
  <2> DEFINE f == [b \in blocks |-> b.len]
             m == [h \in U |-> rec(h)]
  <2>1. \A h \in U : f[rec(h)] = Tiles(v, h)
    <3> HIDE DEF rec, U, D, C
    <3> QED
      BY <1>14
  <2>2. IsFiniteSet(blocks)
    <3>1. m \in Surjection(U, blocks)
      BY <1>14 DEF Surjection
    <3> QED
      BY <1>6, <3>1, FS_Surjection
  <2> HIDE DEF rec, U, C, D, f
  <2>3. \A b \in blocks : f[b] \in Nat /\ IsFiniteSet(D[b]) /\ Cardinality(D[b]) = f[b]
    BY <1>6, <1>7, <1>8, <1>14, <2>1
  <2>4. \A b, c \in blocks : b # c => D[b] \cap D[c] = {}
    <3> SUFFICES ASSUME NEW b \in blocks, NEW c \in blocks, b # c PROVE D[b] \cap D[c] = {}
      OBVIOUS
    <3>1. PICK g \in U : b = rec(g)
      BY <1>14
    <3>2. PICK h \in U : c = rec(h)
      BY <1>14
    <3>3. g # h
      BY <3>1, <3>2
    <3> QED
      BY <1>6, <1>9, <1>14, <3>1, <3>2, <3>3
  <2>5. MapThenSumSet(LAMBDA b : b.len, blocks) = SumOf(f, blocks)
    BY SumOfLengths DEF f
  <2> QED
    BY <2>2, <2>3, <2>4, <2>5, SumCounts
<1> HIDE DEF C, D, F, U, rec
<1>16. All(D, blocks) = All(C, U)
  BY <1>14 DEF All
<1>17. Cardinality(All(C, F)) + Cardinality(All(C, U)) = Size
  <2>1. IsFiniteSet(0 .. Size - 1) /\ Cardinality(0 .. Size - 1) = Size
    BY <1>2, FS_Interval, WordFacts
  <2>2. IsFiniteSet(All(C, F)) /\ IsFiniteSet(All(C, U))
    BY <1>6, <1>8, AllFinite
  <2>3. Cardinality(All(C, F) \cup All(C, U))
          = Cardinality(All(C, F)) + Cardinality(All(C, U))
              - Cardinality(All(C, F) \cap All(C, U))
    BY <2>2, FS_Union
  <2>4. Cardinality(All(C, F) \cap All(C, U)) = 0
    BY <1>11, FS_EmptySet
  <2>5. Cardinality(All(C, F)) \in Nat /\ Cardinality(All(C, U)) \in Nat
    BY <2>2, FS_CardinalityType
  <2>6. Cardinality(All(C, F) \cup All(C, U)) = Size
    BY <1>10, <2>1
  <2> QED
    BY <2>3, <2>4, <2>5, <2>6
<1>18. Cardinality(All(C, F)) \in Nat /\ Cardinality(All(C, U)) \in Nat
  BY <1>6, <1>8, AllFinite, FS_CardinalityType
<1> QED
  BY <1>2, <1>12, <1>13, <1>15, <1>16, <1>17, <1>18

-----------------------------------------------------------------------------
(* The theorems *)

\* The walk over the blocks of vram.c ends at the end mark and meets as used
\* blocks exactly those the program holds; the word VRAM_alloc reads at `free'
\* is never the header of a used block nor a word inside one; and the largest
\* free block reported after a failed VRAM_alloc is exact, as are the counts
\* of VRAM_getFree and VRAM_getAllocated at any time.
THEOREM VramRegion ==
  Spec => []RegionIsSound
<1>1. IInv => TypeOK
  BY DEF IInv, Sound, TypeOK
<1>2. IInv => ChainIsHeld
  BY SoundChain DEF IInv, ChainIsHeld
<1>3. IInv => FreeIsFree
  BY DEF IInv, Sound, FreeIsFree
<1>4. IInv => LargestIsExactOnFailure
  <2> SUFFICES ASSUME IInv, refused # 0
               PROVE  VRAM_getLargestFreeBlock(region.vram)
                        = Max({0} \cup {RunTiles(r) : r \in Runs(region.vram)})
    BY DEF LargestIsExactOnFailure
  <2> DEFINE v == region.vram
             H == Chain(v, 0)
             F == FreeHeaders(v)
  <2>1. v \in [Words -> u16] /\ Row(v, H) /\ Apart(v)
    BY DEF IInv, Sound, Described
  <2>2. \A h \in F : /\ h \in H /\ h + v[h] = After(v, h) /\ After(v, h) \in H
                     /\ h < After(v, h) /\ After(v, h) \notin F
    BY <2>1, FreeOfRow DEF Apart
  <2>3. \A c \in H : c \in Nat /\ c \in Words
    BY <2>1, WordFacts DEF Row
  <2>4. \A h \in F : v[h] \in Nat
    BY <2>1, <2>2, <2>3, TilesOf
  <2> HIDE DEF F, v, H
  \* Each run is one block.
  <2>5. \A r \in Runs(v) : r.start \in F /\ RunTiles(r) = v[r.start]
    <3> SUFFICES ASSUME NEW r \in Runs(v) PROVE r.start \in F /\ RunTiles(r) = v[r.start]
      OBVIOUS
    <3>1. IsRun(v, H, r)
      BY <2>1, RunFacts
    <3>2. /\ r.start \in F /\ r.end \in H \ F /\ r.start < r.end
          /\ \A c \in H : r.start <= c /\ c < r.end => c \in F
      BY <3>1 DEF IsRun, F
    <3> DEFINE n == After(v, r.start)
    <3>3. n \in H /\ n \notin F /\ r.start < n /\ n <= r.end
      BY <2>1, <2>2, <3>2, RowOrder
    <3>4. n = r.start + v[r.start]
      BY <2>2, <3>2
    <3> HIDE DEF n
    <3>5. r.start \in Nat /\ r.end \in Nat /\ n \in Nat /\ v[r.start] \in Nat
      BY <2>2, <2>3, <2>4, <3>2, <3>3
    <3>6. n = r.end
      BY <3>2, <3>3, <3>5
    <3> QED
      BY <3>2, <3>4, <3>5, <3>6 DEF RunTiles
  <2>6. \A h \in F : \E r \in Runs(v) : r.start = h
    <3> SUFFICES ASSUME NEW h \in F PROVE \E r \in Runs(v) : r.start = h
      OBVIOUS
    <3>1. PICK r \in Runs(v) : r.start <= h /\ h < r.end
      BY <2>1, RunCovers DEF F
    <3>2. r.start \in F /\ r.end = r.start + v[r.start] /\ r.start \in Nat /\ h \in Nat
      <4>1. r.start \in F /\ r.end - r.start = v[r.start]
        BY <2>5 DEF RunTiles
      <4>2. r.end \in Nat
        BY <2>1, <2>3, RunFacts DEF IsRun
      <4> QED
        BY <2>2, <2>3, <2>4, <4>1, <4>2
    <3>3. ~(r.start < h)
      <4> SUFFICES ASSUME r.start < h PROVE FALSE
        OBVIOUS
      <4>1. After(v, r.start) <= h
        BY <2>1, <2>2, <3>2, RowOrder
      <4>2. After(v, r.start) = r.end /\ r.end \in Nat
        BY <2>2, <2>3, <3>2
      <4> QED
        BY <3>1, <3>2, <4>1, <4>2
    <3> QED
      BY <3>1, <3>2, <3>3
  <2>7. {v[b] : b \in F} = {RunTiles(r) : r \in Runs(v)}
    BY <2>5, <2>6
  <2> QED
    BY <2>7 DEF VRAM_getLargestFreeBlock, F, v
<1>5. IInv => CountsAgree
  BY RowCounts DEF CountsAgree, IInv, Sound
<1>6. IInv => RegionIsSound
  BY <1>1, <1>2, <1>3, <1>4, <1>5 DEF RegionIsSound
<1> QED
  BY <1>6, InitInvariant, NextInvariant, PTL DEF Spec

\* For every region and every set of sizes, vram.c is an allocator as Arena
\* states one: the blocks of VRAM_alloc lie in the region and never overlap,
\* and a size is refused only when no gap between the blocks in use is large
\* enough.
THEOREM VramImplementsArena ==
  Spec => ImplementsArena
<1>1. Init => A!Init
  BY DEF Init, A!Init
<1>2. IInv /\ [Next]_vars => [A!Next]_(A!vars)
  <2> SUFFICES ASSUME IInv, [Next]_vars PROVE [A!Next]_(A!vars)
    OBVIOUS
  <2>1. ASSUME NEW s \in Sizes, VRAM_alloc(s) PROVE A!Next
    <3>1. A!Grant(s)
      BY <2>1, AllocKeeps DEF A!Grant, VRAM_alloc
    <3> QED
      BY <3>1 DEF A!Next
  <2>2. ASSUME NEW s \in Sizes, VRAM_allocFails(s) PROVE A!Next
    <3>1. A!Refuse(s)
      BY <2>2, AllocFailsKeeps DEF A!Refuse, VRAM_allocFails
    <3> QED
      BY <3>1 DEF A!Next
  <2>3. ASSUME NEW b \in held, VRAM_free(b) PROVE A!Next
    BY <2>3 DEF VRAM_free, A!GiveBack, A!Next
  <2>4. ASSUME NEW i \in 0 .. EndIndex + 1, VRAM_freeAgain(i) PROVE A!Next
    BY <2>4 DEF VRAM_freeAgain, A!Ignore, A!Next
  <2>5. CASE VRAM_clearRegion \/ VRAM_recreateRegion
    BY <2>5 DEF VRAM_clearRegion, VRAM_recreateRegion, A!Clear, A!Next
  <2>6. CASE UNCHANGED vars
    BY <2>6 DEF vars, A!vars
  <2> QED
    BY <2>1, <2>2, <2>3, <2>4, <2>5, <2>6 DEF Next
<1> QED
  BY <1>1, <1>2, InitInvariant, NextInvariant, PTL DEF Spec, ImplementsArena, A!Spec

-----------------------------------------------------------------------------
(***************************************************************************)
(* The sprite engine (SpriteEng)                                           *)
(***************************************************************************)

Sprites ==
  [alloc : BOOLEAN, auto : BOOLEAN, def : Definitions \cup {None}, at : Int,
   upload : BOOLEAN]

Engines ==
  [stack : Seq(Slots), list : Seq(Slots), spr : [Slots -> Sprites],
   usedVDPSprite : u16, region : [vram : [Words -> u16], free : Words],
   right : SUBSET Slots]

\* The tiles of the sprites of G that the engine allocated, and the place of
\* one of them.
OwnedBlocks(spr, G) ==
  {[at |-> spr[s].at, len |-> maxNumTile(spr[s].def)] : s \in {t \in G : spr[t].auto}}
Place(spr, s) == spr[s].at .. spr[s].at + maxNumTile(spr[s].def) - 1

\* The most hardware sprites of one definition.
MaxNeed == 255

\* The hardware sprites that the sprites of G may need, one by one.
HwSprites(spr, G) ==
  {q \in Slots \X (1 .. MaxNeed) : q[1] \in G /\ q[2] <= maxNumSprite(spr[q[1]].def)}
Needs(spr, G) == Cardinality(HwSprites(spr, G))

\* The sprites of G are sprites, those with tiles of the region have them for
\* themselves, and have their picture there or will send it.
SpritesOf(e, G) ==
  /\ \A s \in G : /\ e.spr[s].alloc /\ e.spr[s].def \in Definitions
                  /\ ~e.spr[s].auto => e.spr[s].at \in Manual
  /\ \A s, t \in G : e.spr[s].auto /\ e.spr[t].auto /\ s # t
                       => Place(e.spr, s) \cap Place(e.spr, t) = {}
  /\ \A s \in G : e.spr[s].auto => s \in e.right \/ e.spr[s].upload

\* A sequence without repetition, and the set of what it holds.
Once(q, T) == q \in Seq(Slots) /\ IsInjective(q) /\ ToSet(q) = T

\* The engine of a program that has the sprites G.  L is what is on the list: a
\* call that the check of hardware sprites refuses leaves an object behind there.
Kept(e, G, L) ==
  /\ e \in Engines /\ G \subseteq L /\ L \subseteq Slots
  /\ SpritesOf(e, G) /\ \A s \in Slots \ G : e.spr[s] = NoSprite
  /\ Sound(e.region, OwnedBlocks(e.spr, G))
  /\ SPR_getUsedVDPSprite(e) = Needs(e.spr, G)
  /\ Once(e.list, L) /\ Once(e.stack, Slots \ L)

\* The inductive invariant.
EngineInv ==
  /\ eng \in Engines /\ SPR_getUsedVDPSprite(eng) <= MaxSprite * MaxNeed
  /\ given \subseteq Slots /\ harmed \in BOOLEAN
  /\ ~harmed => Kept(eng, given, given)

-----------------------------------------------------------------------------
(* Hardware sprites *)

LEMMA SlotFacts ==
  /\ MaxSprite \in Nat /\ MaxSprite >= 1 /\ MaxSprite <= 128 /\ HwLimit \in Nat
  /\ \A s \in Slots : s \in Nat /\ s # None
  /\ IsFiniteSet(Slots) /\ Cardinality(Slots) = MaxSprite
<1>1. MaxSprite \in Nat /\ MaxSprite >= 1 /\ MaxSprite <= 128 /\ HwLimit \in Nat
  BY EngineAssumption
<1>2. IsFiniteSet(1 .. MaxSprite) /\ Cardinality(1 .. MaxSprite) = MaxSprite
  BY <1>1, FS_Interval
<1> QED
  BY <1>1, <1>2 DEF Slots, None

LEMMA CheckFacts ==
  /\ CHECK_VDP_SPRITE \in Nat /\ CHECK_VDP_SPRITE > 0 /\ CHECK_VDP_SPRITE = USED_MASK
  /\ MaxNeed \in Nat /\ MaxNeed >= 1
  /\ MaxSprite * MaxNeed \in Nat /\ MaxSprite * MaxNeed < CHECK_VDP_SPRITE
BY SlotFacts, SMT DEF CHECK_VDP_SPRITE, USED_MASK, MaxNeed

LEMMA DefFacts ==
  ASSUME NEW d \in Definitions
  PROVE  /\ d \in Nat /\ d # None
         /\ maxNumTile(d) \in Nat /\ maxNumTile(d) > 0
         /\ maxNumSprite(d) \in Nat /\ maxNumSprite(d) <= MaxNeed
<1>1. d \in Nat /\ maxNumTile(d) > 0
  BY EngineAssumption
<1>2. d \div 256 \in Nat /\ d % 256 \in Nat /\ d % 256 <= 255
  BY <1>1
<1>3. d # None
  BY <1>1, <1>2 DEF maxNumTile, None
<1> QED
  BY <1>1, <1>2, <1>3 DEF maxNumTile, maxNumSprite, MaxNeed

LEMMA NeedsBound ==
  ASSUME NEW spr, NEW G
  PROVE  /\ IsFiniteSet(HwSprites(spr, G)) /\ Needs(spr, G) \in Nat
         /\ Needs(spr, G) <= MaxSprite * MaxNeed /\ MaxSprite * MaxNeed < CHECK_VDP_SPRITE
<1> DEFINE T == Slots \X (1 .. MaxNeed)
<1>1. IsFiniteSet(1 .. MaxNeed) /\ Cardinality(1 .. MaxNeed) = MaxNeed
  BY CheckFacts, FS_Interval
<1>2. IsFiniteSet(T) /\ Cardinality(T) = MaxSprite * MaxNeed
  BY <1>1, SlotFacts, FS_Product
<1>3. HwSprites(spr, G) \in SUBSET T
  BY DEF HwSprites
<1> HIDE DEF T
<1>4. /\ IsFiniteSet(HwSprites(spr, G))
      /\ Cardinality(HwSprites(spr, G)) <= Cardinality(T)
  BY <1>2, <1>3, FS_Subset
<1>5. Cardinality(HwSprites(spr, G)) \in Nat
  BY <1>4, FS_CardinalityType
<1>6. MaxSprite * MaxNeed < CHECK_VDP_SPRITE
  BY CheckFacts
<1> QED
  BY <1>2, <1>4, <1>5, <1>6 DEF Needs

\* One sprite needs what its definition says.
LEMMA NeedsOne ==
  ASSUME NEW spr, NEW G \in SUBSET Slots, NEW s \in Slots, s \notin G,
         spr[s].def \in Definitions
  PROVE  Needs(spr, G \cup {s}) = Needs(spr, G) + maxNumSprite(spr[s].def)
<1> DEFINE n == maxNumSprite(spr[s].def)
           One == {q \in Slots \X (1 .. MaxNeed) : q[1] = s /\ q[2] <= n}
           m == [k \in 1 .. n |-> <<s, k>>]
<1>1. n \in Nat /\ n <= MaxNeed
  BY DefFacts
<1> HIDE DEF n
<1>2. IsFiniteSet(1 .. n) /\ Cardinality(1 .. n) = n
  BY <1>1, FS_Interval
<1>3. ExistsBijection(1 .. n, One)
  <2>1. \A k \in 1 .. n : m[k] \in One /\ m[k][2] = k
    <3> SUFFICES ASSUME NEW k \in 1 .. n PROVE m[k] \in One /\ m[k][2] = k
      OBVIOUS
    <3>1. k \in 1 .. MaxNeed /\ k <= n
      BY <1>1, CheckFacts
    <3> QED
      BY <3>1
  <2>2. m \in [1 .. n -> One]
    BY <2>1
  <2>3. \A q \in One : q[2] \in 1 .. n /\ m[q[2]] = q
    <3> SUFFICES ASSUME NEW q \in One PROVE q[2] \in 1 .. n /\ m[q[2]] = q
      OBVIOUS
    <3>1. q[1] = s /\ q[2] \in 1 .. MaxNeed /\ q[2] <= n /\ q = <<q[1], q[2]>>
      OBVIOUS
    <3>2. q[2] \in 1 .. n
      BY <1>1, <3>1
    <3> QED
      BY <3>1, <3>2
  <2>4. m \in Injection(1 .. n, One)
    BY <2>1, <2>2 DEF Injection, IsInjective
  <2>5. m \in Surjection(1 .. n, One)
    BY <2>2, <2>3 DEF Surjection
  <2>6. m \in Bijection(1 .. n, One)
    BY <2>4, <2>5 DEF Bijection
  <2> QED
    BY <2>6 DEF ExistsBijection
<1>4. IsFiniteSet(One) /\ Cardinality(One) = n
  BY <1>2, <1>3, FS_Bijection
<1>5. HwSprites(spr, G \cup {s}) = HwSprites(spr, G) \cup One
  BY DEF HwSprites, n
<1>6. HwSprites(spr, G) \cap One = {}
  BY DEF HwSprites
<1> HIDE DEF One
<1>7. Cardinality(HwSprites(spr, G) \cap One) = 0
  BY <1>6, FS_EmptySet
<1>8. Cardinality(HwSprites(spr, G) \cup One)
        = Cardinality(HwSprites(spr, G)) + Cardinality(One)
            - Cardinality(HwSprites(spr, G) \cap One)
  BY <1>4, NeedsBound, FS_Union
<1>9. Cardinality(HwSprites(spr, G)) \in Nat
  BY NeedsBound DEF Needs
<1> DEFINE c == Cardinality(HwSprites(spr, G))
           i == Cardinality(HwSprites(spr, G) \cap One)
           o == Cardinality(One)
           k == Cardinality(HwSprites(spr, G) \cup One)
<1>10. k = c + n
  <2>1. k = c + o - i /\ o = n /\ i = 0 /\ c \in Nat
    BY <1>4, <1>7, <1>8, <1>9
  <2> HIDE DEF k, c, o, i
  <2> QED
    BY <1>1, <2>1
<1> QED
  BY <1>5, <1>10 DEF Needs, n

\* Only the definitions of the sprites of G matter.
LEMMA NeedsSame ==
  ASSUME NEW spr, NEW spr2, NEW G, \A s \in G : spr[s].def = spr2[s].def
  PROVE  Needs(spr, G) = Needs(spr2, G)
<1>1. HwSprites(spr, G) = HwSprites(spr2, G)
  BY DEF HwSprites
<1> QED
  BY <1>1 DEF Needs

LEMMA NeedsLess ==
  ASSUME NEW spr, NEW G \in SUBSET Slots, NEW s \in G, spr[s].def \in Definitions
  PROVE  Needs(spr, G) = Needs(spr, G \ {s}) + maxNumSprite(spr[s].def)
<1>1. G = (G \ {s}) \cup {s} /\ G \ {s} \in SUBSET Slots /\ s \in Slots
  OBVIOUS
<1>2. Needs(spr, (G \ {s}) \cup {s}) = Needs(spr, G \ {s}) + maxNumSprite(spr[s].def)
  BY <1>1, NeedsOne
<1> QED
  BY <1>1, <1>2

\* The counter of hardware sprites beside its flag.
LEMMA CountedIs ==
  ASSUME NEW e \in Engines, NEW n \in Int,
         SPR_getUsedVDPSprite(e) + n \in 0 .. CHECK_VDP_SPRITE - 1
  PROVE  /\ Counted(e, n) = [e EXCEPT !.usedVDPSprite = @ + n]
         /\ Counted(e, n) \in Engines
         /\ SPR_getUsedVDPSprite(Counted(e, n)) = SPR_getUsedVDPSprite(e) + n
         /\ Checked(Counted(e, n)) = Checked(e)
<1> DEFINE u == e.usedVDPSprite
           M == CHECK_VDP_SPRITE
<1>0. M \in Nat /\ M > 0 /\ USED_MASK = M
  BY CheckFacts
<1> HIDE DEF M
<1>1. u \in Nat /\ u < 2 * M
  BY <1>0 DEF Engines, u16
<1>2. SPR_getUsedVDPSprite(e) = IF u < M THEN u ELSE u - M
  <2>1. u % M = IF u < M THEN u ELSE u - M
    <3> HIDE DEF u
    <3>1. M \in Nat \ {0}
      BY <1>0
    <3>2. /\ u < M => u % M = u
          /\ u >= M /\ u < 2 * M => u % M = u - M
      BY <1>1, <3>1, Modulo
    <3> QED
      BY <1>0, <1>1, <3>2
  <2> QED
    BY <2>1 DEF SPR_getUsedVDPSprite, M
<1> DEFINE c == u + n
<1>9. SPR_getUsedVDPSprite(e) + n \in 0 .. M - 1
  BY DEF M
<1>3. /\ c \in Nat /\ c < 2 * M /\ (c >= M <=> u >= M)
      /\ SPR_getUsedVDPSprite(e) + n = IF u < M THEN c ELSE c - M
  BY <1>0, <1>1, <1>2, <1>9
<1> HIDE DEF c
<1>4. c % (2 * M) = c /\ c % M = IF c < M THEN c ELSE c - M
  <2>1. 2 * M \in Nat \ {0} /\ M \in Nat \ {0}
    BY <1>0
  <2>2. c \in Nat /\ c < 2 * M
    BY <1>3
  <2>3. c < M => c % M = c
    BY <2>1, <2>2, Modulo
  <2>4. c >= M => c % M = c - M
    BY <2>1, <2>2, Modulo
  <2>5. c % (2 * M) = c
    <3> DEFINE N == 2 * M
    <3>1. N \in Nat \ {0} /\ c < N
      BY <2>1, <2>2
    <3> HIDE DEF N
    <3>2. c % N = c
      BY <2>2, <3>1, Modulo
    <3> QED
      BY <3>2 DEF N
  <2> QED
    BY <1>0, <2>2, <2>3, <2>4, <2>5
<1>5. Counted(e, n) = [e EXCEPT !.usedVDPSprite = c]
  BY <1>4 DEF Counted, c, M
<1>6. c \in u16
  BY <1>0, <1>3 DEF u16
<1>7. Counted(e, n) \in Engines /\ Counted(e, n).usedVDPSprite = c
  BY <1>5, <1>6 DEF Engines
<1>8. SPR_getUsedVDPSprite(Counted(e, n)) = SPR_getUsedVDPSprite(e) + n
  <2>1. SPR_getUsedVDPSprite(Counted(e, n)) = c % M
    BY <1>7 DEF SPR_getUsedVDPSprite, M
  <2> QED
    BY <1>0, <1>1, <1>3, <1>4, <2>1
<1>10. Checked(Counted(e, n)) = Checked(e)
  BY <1>3, <1>7 DEF Checked, M
<1>11. [e EXCEPT !.usedVDPSprite = c] = [e EXCEPT !.usedVDPSprite = @ + n]
  BY DEF c
<1> QED
  BY <1>5, <1>7, <1>8, <1>10, <1>11

-----------------------------------------------------------------------------
(* Stack and list *)

LEMMA OnceFacts ==
  ASSUME NEW q, NEW T, Once(q, T)
  PROVE  /\ q \in Seq(Slots) /\ Len(q) \in Nat /\ DOMAIN q = 1 .. Len(q)
         /\ T \subseteq Slots
         /\ \A i \in 1 .. Len(q) : q[i] \in T
         /\ \A i, j \in 1 .. Len(q) : q[i] = q[j] => i = j
         /\ \A s \in T : \E i \in 1 .. Len(q) : q[i] = s
BY DEF Once, IsInjective, ToSet

LEMMA OnceBy ==
  ASSUME NEW q \in Seq(Slots), NEW T,
         \A i \in 1 .. Len(q) : q[i] \in T,
         \A i, j \in 1 .. Len(q) : q[i] = q[j] => i = j,
         \A s \in T : \E i \in 1 .. Len(q) : q[i] = s
  PROVE  Once(q, T)
BY DEF Once, IsInjective, ToSet

LEMMA AppendOnce ==
  ASSUME NEW q, NEW T, Once(q, T), NEW s \in Slots, s \notin T
  PROVE  Once(Append(q, s), T \cup {s})
<1> DEFINE a == Append(q, s)
           n == Len(q)
<1>1. /\ q \in Seq(Slots) /\ n \in Nat
      /\ \A i \in 1 .. n : q[i] \in T
      /\ \A i, j \in 1 .. n : q[i] = q[j] => i = j
      /\ \A t \in T : \E i \in 1 .. n : q[i] = t
  BY OnceFacts
<1>2. /\ a \in Seq(Slots) /\ Len(a) = n + 1 /\ a[n + 1] = s
      /\ \A i \in 1 .. n : a[i] = q[i]
  BY <1>1, AppendProperties
<1> HIDE DEF a, n
<1>3. \A i \in 1 .. n + 1 : i \in 1 .. n \/ i = n + 1
  BY <1>1
<1>4. \A i \in 1 .. n + 1 : a[i] \in T \cup {s}
  BY <1>1, <1>2, <1>3
<1>5. \A i, j \in 1 .. n + 1 : a[i] = a[j] => i = j
  BY <1>1, <1>2, <1>3
<1>6. \A t \in T \cup {s} : \E i \in 1 .. n + 1 : a[i] = t
  <2>1. n + 1 \in 1 .. n + 1 /\ \A i \in 1 .. n : i \in 1 .. n + 1
    BY <1>1
  <2> QED
    BY <1>1, <1>2, <2>1
<1>7. Once(a, T \cup {s})
  BY <1>2, <1>4, <1>5, <1>6, OnceBy
<1> QED
  BY <1>7 DEF a

LEMMA PrependOnce ==
  ASSUME NEW q, NEW T, Once(q, T), NEW s \in Slots, s \notin T
  PROVE  /\ Once(<<s>> \o q, T \cup {s})
         /\ Len(<<s>> \o q) = Len(q) + 1 /\ (<<s>> \o q)[1] = s
         /\ \A i \in 1 .. Len(q) : (<<s>> \o q)[i + 1] = q[i]
<1> DEFINE a == <<s>> \o q
           n == Len(q)
<1>1. /\ q \in Seq(Slots) /\ n \in Nat
      /\ \A i \in 1 .. n : q[i] \in T
      /\ \A i, j \in 1 .. n : q[i] = q[j] => i = j
      /\ \A t \in T : \E i \in 1 .. n : q[i] = t
  BY OnceFacts
<1>2. <<s>> \in Seq(Slots) /\ Len(<<s>>) = 1 /\ <<s>>[1] = s
  OBVIOUS
<1>3. /\ a \in Seq(Slots) /\ Len(a) = 1 + n
      /\ \A i \in 1 .. 1 + n : a[i] = IF i <= 1 THEN <<s>>[i] ELSE q[i - 1]
  BY <1>1, <1>2, ConcatProperties
<1> HIDE DEF a, n
<1>4. a[1] = s /\ \A i \in 1 .. n : a[i + 1] = q[i]
  <2>1. 1 \in 1 .. 1 + n /\ \A i \in 1 .. n : i + 1 \in 1 .. 1 + n /\ ~(i + 1 <= 1) /\ i + 1 - 1 = i
    BY <1>1
  <2> QED
    BY <1>2, <1>3, <2>1
<1>5. \A i \in 1 .. n + 1 : i = 1 \/ \E j \in 1 .. n : i = j + 1
  <2> SUFFICES ASSUME NEW i \in 1 .. n + 1, i # 1 PROVE \E j \in 1 .. n : i = j + 1
    OBVIOUS
  <2>1. i - 1 \in 1 .. n /\ i = i - 1 + 1
    BY <1>1
  <2> QED
    BY <2>1
<1>6. Len(a) = n + 1
  BY <1>1, <1>3
<1>7. \A i \in 1 .. n + 1 : a[i] \in T \cup {s}
  <2> SUFFICES ASSUME NEW i \in 1 .. n + 1 PROVE a[i] \in T \cup {s}
    OBVIOUS
  <2>1. CASE i = 1
    BY <1>4, <2>1
  <2>2. ASSUME NEW j \in 1 .. n, i = j + 1 PROVE a[i] \in T \cup {s}
    BY <1>1, <1>4, <2>2
  <2> QED
    BY <1>5, <2>1, <2>2
<1>8. \A i, j \in 1 .. n + 1 : a[i] = a[j] => i = j
  <2> SUFFICES ASSUME NEW i \in 1 .. n + 1, NEW j \in 1 .. n + 1, a[i] = a[j] PROVE i = j
    OBVIOUS
  <2>1. \A k \in 1 .. n : a[k + 1] # s
    <3> SUFFICES ASSUME NEW k \in 1 .. n PROVE a[k + 1] # s
      OBVIOUS
    <3>1. a[k + 1] = q[k]
      BY <1>4
    <3>2. q[k] \in T
      BY <1>1
    <3> QED
      BY <3>1, <3>2
  <2>2. CASE i = 1 \/ j = 1
    BY <1>4, <1>5, <2>1, <2>2
  <2>3. CASE ~(i = 1 \/ j = 1)
    <3>1. PICK k \in 1 .. n : i = k + 1
      BY <1>5, <2>3
    <3>2. PICK l \in 1 .. n : j = l + 1
      BY <1>5, <2>3
    <3>3. q[k] = q[l]
      BY <1>4, <3>1, <3>2
    <3> QED
      BY <1>1, <3>1, <3>2, <3>3
  <2> QED
    BY <2>2, <2>3
<1>9. \A t \in T \cup {s} : \E i \in 1 .. n + 1 : a[i] = t
  <2>1. 1 \in 1 .. n + 1 /\ \A i \in 1 .. n : i + 1 \in 1 .. n + 1
    BY <1>1
  <2> QED
    BY <1>1, <1>4, <2>1
<1>10. Once(a, T \cup {s})
  BY <1>3, <1>6, <1>7, <1>8, <1>9, OnceBy
<1> QED
  BY <1>4, <1>6, <1>10 DEF a, n

LEMMA FrontOnce ==
  ASSUME NEW q, NEW T, Once(q, T), q # <<>>
  PROVE  /\ Last(q) \in T /\ Once(Front(q), T \ {Last(q)})
         /\ Append(Front(q), Last(q)) = q
<1> DEFINE f == Front(q)
           n == Len(q)
           s == Last(q)
<1>1. /\ q \in Seq(Slots) /\ n \in Nat /\ n # 0 /\ T \subseteq Slots
      /\ \A i \in 1 .. n : q[i] \in T
      /\ \A i, j \in 1 .. n : q[i] = q[j] => i = j
      /\ \A t \in T : \E i \in 1 .. n : q[i] = t
  BY OnceFacts, EmptySeq
<1>2. s = q[n] /\ n \in 1 .. n
  BY <1>1 DEF Last
<1>3. /\ f \in Seq(Slots) /\ Len(f) = n - 1
      /\ \A i \in 1 .. n - 1 : f[i] = q[i]
  <2>1. f = SubSeq(q, 1, n - 1)
    BY DEF Front
  <2>2. \A i \in 1 .. n - 1 : q[i] \in Slots
    BY <1>1
  <2>3. /\ SubSeq(q, 1, n - 1) \in Seq(Slots)
        /\ Len(SubSeq(q, 1, n - 1)) = IF 1 <= n - 1 THEN n - 1 - 1 + 1 ELSE 0
        /\ \A i \in 1 .. n - 1 - 1 + 1 : SubSeq(q, 1, n - 1)[i] = q[1 + i - 1]
    BY <1>1, <2>2, SubSeqProperties
  <2> HIDE DEF f, n
  <2>4. n - 1 - 1 + 1 = n - 1 /\ \A i \in 1 .. n - 1 : 1 + i - 1 = i
    BY <1>1
  <2> QED
    BY <1>1, <2>1, <2>3, <2>4
<1> HIDE DEF f, n, s
<1>4. \A i \in 1 .. n : i \in 1 .. n - 1 \/ i = n
  BY <1>1
<1>5. \A i \in 1 .. n - 1 : i \in 1 .. n /\ i # n
  BY <1>1
<1>6. \A i \in 1 .. n - 1 : f[i] \in T \ {s}
  BY <1>1, <1>2, <1>3, <1>5
<1>7. \A i, j \in 1 .. n - 1 : f[i] = f[j] => i = j
  BY <1>1, <1>3, <1>5
<1>8. \A t \in T \ {s} : \E i \in 1 .. n - 1 : f[i] = t
  BY <1>1, <1>2, <1>3, <1>4
<1>9. Once(f, T \ {s})
  BY <1>3, <1>6, <1>7, <1>8, OnceBy
<1>10. s \in T /\ s \in Slots
  BY <1>1, <1>2
<1>11. Append(f, s) = q
  <2> DEFINE a == Append(f, s)
  <2>1. /\ a \in Seq(Slots) /\ Len(a) = n - 1 + 1 /\ a[n - 1 + 1] = s
        /\ \A i \in 1 .. n - 1 : a[i] = f[i]
    BY <1>3, <1>10, AppendProperties
  <2> HIDE DEF a
  <2>2. n - 1 + 1 = n
    BY <1>1
  <2>3. \A i \in 1 .. n : a[i] = q[i]
    BY <1>2, <1>3, <1>4, <2>1, <2>2
  <2>4. a = q
    BY <1>1, <2>1, <2>2, <2>3, SeqEqual DEF n
  <2> QED
    BY <2>4 DEF a
<1> QED
  BY <1>9, <1>10, <1>11 DEF f, s

\* Removing the one occurrence of s.
LEMMA RemoveAtP ==
  ASSUME NEW q, NEW T, Once(q, T), NEW p \in 1 .. Len(q)
  PROVE  LET r == RemoveFirst(q, q[p])
         IN /\ r \in Seq(Slots) /\ Len(r) = Len(q) - 1
            /\ \A i \in 1 .. Len(q) - 1 : r[i] = IF i < p THEN q[i] ELSE q[i + 1]
<1> DEFINE n == Len(q)
           s == q[p]
           I == {i \in 1 .. n : q[i] = s}
<1>1. /\ q \in Seq(Slots) /\ n \in Nat /\ p \in 1 .. n
      /\ \A i \in 1 .. n : q[i] \in Slots
      /\ \A i, j \in 1 .. n : q[i] = q[j] => i = j
  BY OnceFacts
<1>2. I = {p}
  BY <1>1
<1>3. Min(I) = p
  <2>1. I \subseteq Nat /\ I # {}
    BY <1>1, <1>2
  <2> QED
    BY <1>2, <2>1, MinIsLeast
<1>4. SelectInSeq(q, LAMBDA v : v = s) = p
  BY <1>2, <1>3 DEF SelectInSeq
<1>5. RemoveFirst(q, s) = SubSeq(q, 1, p - 1) \o SubSeq(q, p + 1, n)
  BY <1>1, <1>4 DEF RemoveFirst, RemoveAt
<1> DEFINE a == SubSeq(q, 1, p - 1)
           b == SubSeq(q, p + 1, n)
<1>6. a \in Seq(Slots) /\ Len(a) = p - 1 /\ \A i \in 1 .. p - 1 : a[i] = q[i]
  <2>1. \A i \in 1 .. p - 1 : q[i] \in Slots
    BY <1>1
  <2>2. /\ a \in Seq(Slots) /\ Len(a) = IF 1 <= p - 1 THEN p - 1 - 1 + 1 ELSE 0
        /\ \A i \in 1 .. p - 1 - 1 + 1 : a[i] = q[1 + i - 1]
    BY <1>1, <2>1, SubSeqProperties
  <2> HIDE DEF a, n
  <2>3. p - 1 - 1 + 1 = p - 1 /\ \A i \in 1 .. p - 1 : 1 + i - 1 = i
    BY <1>1
  <2> QED
    BY <1>1, <2>2, <2>3
<1>7. b \in Seq(Slots) /\ Len(b) = n - p /\ \A i \in 1 .. n - p : b[i] = q[p + i]
  <2>1. \A i \in p + 1 .. n : q[i] \in Slots
    BY <1>1
  <2>2. /\ b \in Seq(Slots) /\ Len(b) = IF p + 1 <= n THEN n - (p + 1) + 1 ELSE 0
        /\ \A i \in 1 .. n - (p + 1) + 1 : b[i] = q[p + 1 + i - 1]
    BY <1>1, <2>1, SubSeqProperties
  <2> HIDE DEF b, n
  <2>3. n - (p + 1) + 1 = n - p /\ \A i \in 1 .. n - p : p + 1 + i - 1 = p + i
    BY <1>1
  <2> QED
    BY <1>1, <2>2, <2>3
<1> DEFINE r == a \o b
<1>8. /\ r \in Seq(Slots) /\ Len(r) = Len(a) + Len(b)
      /\ \A i \in 1 .. Len(a) + Len(b) : r[i] = IF i <= Len(a) THEN a[i] ELSE b[i - Len(a)]
  BY <1>6, <1>7, ConcatProperties
<1> HIDE DEF a, b, r, n, s
<1>9. Len(a) + Len(b) = n - 1
  BY <1>1, <1>6, <1>7
<1>10. \A i \in 1 .. n - 1 : r[i] = IF i < p THEN q[i] ELSE q[i + 1]
  <2> SUFFICES ASSUME NEW i \in 1 .. n - 1
               PROVE  r[i] = IF i < p THEN q[i] ELSE q[i + 1]
    OBVIOUS
  <2>1. CASE i < p
    <3>1. i \in 1 .. p - 1 /\ i <= Len(a)
      BY <1>1, <1>6, <2>1
    <3> QED
      BY <1>6, <1>8, <1>9, <2>1, <3>1
  <2>2. CASE ~(i < p)
    <3> DEFINE j == i - Len(a)
    <3>1. ~(i <= Len(a)) /\ j \in 1 .. n - p /\ p + j = i + 1
      BY <1>1, <1>6, <2>2
    <3>2. r[i] = b[j]
      BY <1>8, <1>9, <3>1
    <3> HIDE DEF j
    <3>3. b[j] = q[i + 1]
      BY <1>7, <3>1
    <3> QED
      BY <2>2, <3>2, <3>3
  <2> QED
    BY <2>1, <2>2
<1>11. RemoveFirst(q, s) = r
  BY <1>5 DEF r, a, b
<1> QED
  BY <1>8, <1>9, <1>10, <1>11 DEF s, n

LEMMA RemoveOnce ==
  ASSUME NEW q, NEW T, Once(q, T), NEW s \in T
  PROVE  Once(RemoveFirst(q, s), T \ {s})
<1> DEFINE n == Len(q)
           r == RemoveFirst(q, s)
<1>1. /\ n \in Nat
      /\ \A i \in 1 .. n : q[i] \in T
      /\ \A i, j \in 1 .. n : q[i] = q[j] => i = j
      /\ \A t \in T : \E i \in 1 .. n : q[i] = t
  BY OnceFacts
<1>2. PICK p \in 1 .. n : q[p] = s
  BY <1>1
<1>3. /\ r \in Seq(Slots) /\ Len(r) = n - 1
      /\ \A i \in 1 .. n - 1 : r[i] = IF i < p THEN q[i] ELSE q[i + 1]
  BY <1>2, RemoveAtP
<1> HIDE DEF n, r
<1> DEFINE w(i) == IF i < p THEN i ELSE i + 1
<1>4. \A i \in 1 .. n - 1 : w(i) \in 1 .. n /\ w(i) # p /\ r[i] = q[w(i)]
  BY <1>1, <1>3
<1>5. \A i, j \in 1 .. n - 1 : w(i) = w(j) => i = j
  OBVIOUS
<1>6. \A k \in 1 .. n : k # p => \E i \in 1 .. n - 1 : w(i) = k
  <2> SUFFICES ASSUME NEW k \in 1 .. n, k # p PROVE \E i \in 1 .. n - 1 : w(i) = k
    OBVIOUS
  <2>1. CASE k < p
    BY <1>1, <2>1
  <2>2. CASE k > p
    <3>1. k - 1 \in 1 .. n - 1 /\ w(k - 1) = k
      BY <1>1, <2>2
    <3> QED
      BY <3>1
  <2> QED
    BY <1>1, <2>1, <2>2
<1> HIDE DEF w
<1>7. \A i \in 1 .. n - 1 : r[i] \in T \ {s}
  BY <1>1, <1>2, <1>4
<1>8. \A i, j \in 1 .. n - 1 : r[i] = r[j] => i = j
  BY <1>1, <1>4, <1>5
<1>9. \A t \in T \ {s} : \E i \in 1 .. n - 1 : r[i] = t
  BY <1>1, <1>2, <1>4, <1>6
<1> QED
  BY <1>3, <1>7, <1>8, <1>9, OnceBy DEF r

\* Removing a sprite that was just put at either end.
LEMMA RemovePut ==
  ASSUME NEW q, NEW T, Once(q, T), NEW s \in Slots, s \notin T
  PROVE  RemoveFirst(Append(q, s), s) = q /\ RemoveFirst(<<s>> \o q, s) = q
<1> DEFINE n == Len(q)
<1>0. q \in Seq(Slots) /\ n \in Nat
  BY OnceFacts
<1>1. RemoveFirst(Append(q, s), s) = q
  <2> DEFINE a == Append(q, s)
  <2>1. Once(a, T \cup {s})
    BY AppendOnce
  <2>2. Len(a) = n + 1 /\ a[n + 1] = s /\ \A i \in 1 .. n : a[i] = q[i]
    BY <1>0, AppendProperties
  <2> HIDE DEF a
  <2>3. n + 1 \in 1 .. Len(a)
    BY <1>0, <2>2
  <2> DEFINE r == RemoveFirst(a, s)
  <2>4. /\ r \in Seq(Slots) /\ Len(r) = Len(a) - 1
        /\ \A i \in 1 .. Len(a) - 1 : r[i] = IF i < n + 1 THEN a[i] ELSE a[i + 1]
    BY <2>1, <2>2, <2>3, RemoveAtP
  <2> HIDE DEF r, n
  <2>5. Len(r) = n /\ \A i \in 1 .. n : r[i] = q[i]
    BY <1>0, <2>2, <2>4
  <2>6. r = q
    BY <1>0, <2>4, <2>5, SeqEqual DEF n
  <2> QED
    BY <2>6 DEF r, a
<1>2. RemoveFirst(<<s>> \o q, s) = q
  <2> DEFINE a == <<s>> \o q
  <2>1. Once(a, T \cup {s}) /\ Len(a) = n + 1 /\ a[1] = s /\ \A i \in 1 .. n : a[i + 1] = q[i]
    BY PrependOnce
  <2> HIDE DEF a
  <2>3. 1 \in 1 .. Len(a)
    BY <1>0, <2>1
  <2> DEFINE r == RemoveFirst(a, s)
  <2>4. /\ r \in Seq(Slots) /\ Len(r) = Len(a) - 1
        /\ \A i \in 1 .. Len(a) - 1 : r[i] = IF i < 1 THEN a[i] ELSE a[i + 1]
    BY <2>1, <2>3, RemoveAtP
  <2> HIDE DEF r, n
  <2>5. Len(r) = n /\ \A i \in 1 .. n : r[i] = q[i]
    BY <1>0, <2>1, <2>4
  <2>6. r = q
    BY <1>0, <2>4, <2>5, SeqEqual DEF n
  <2> QED
    BY <2>6 DEF r, a
<1> QED
  BY <1>1, <1>2

-----------------------------------------------------------------------------
(* Records *)

LEMMA EngineFacts ==
  ASSUME NEW e \in Engines
  PROVE  /\ e.stack \in Seq(Slots) /\ e.list \in Seq(Slots) /\ e.spr \in [Slots -> Sprites]
         /\ e.usedVDPSprite \in u16 /\ e.right \in SUBSET Slots
         /\ e.region \in [vram : [Words -> u16], free : Words]
         /\ e = [stack |-> e.stack, list |-> e.list, spr |-> e.spr,
                 usedVDPSprite |-> e.usedVDPSprite, region |-> e.region, right |-> e.right]
BY DEF Engines

LEMMA SpriteFacts ==
  ASSUME NEW x \in Sprites
  PROVE  /\ x.alloc \in BOOLEAN /\ x.auto \in BOOLEAN /\ x.def \in Definitions \cup {None}
         /\ x.at \in Int /\ x.upload \in BOOLEAN
         /\ x = [alloc |-> x.alloc, auto |-> x.auto, def |-> x.def, at |-> x.at,
                 upload |-> x.upload]
BY DEF Sprites

LEMMA NoSpriteFacts ==
  /\ NoSprite \in Sprites /\ ~NoSprite.alloc /\ ~NoSprite.auto
  /\ NoSprite.def = None
BY DEF NoSprite, Sprites

\* Placed changes one sprite, and asks for its tiles to be sent again unless
\* nothing changes.
LEMMA PlacedIs ==
  ASSUME NEW e \in Engines, NEW s \in Slots, NEW d \in Definitions, NEW ind \in Int
  PROVE  LET p == Placed(e, s, d, ind)
             x == p.spr[s]
         IN /\ p \in Engines /\ p.stack = e.stack /\ p.list = e.list
            /\ p.usedVDPSprite = e.usedVDPSprite /\ p.region = e.region
            /\ p.spr = [e.spr EXCEPT ![s] = x] /\ x \in Sprites
            /\ x.alloc = e.spr[s].alloc /\ x.auto = e.spr[s].auto /\ x.def = d /\ x.at = ind
            /\ e.right \ {s} \subseteq p.right
            /\ x.upload \/ (x = e.spr[s] /\ p.right = e.right)
<1> DEFINE p == Placed(e, s, d, ind)
           y == e.spr[s]
           x == [y EXCEPT !.def = d, !.at = ind, !.upload = TRUE]
<1>1. /\ e.spr \in [Slots -> Sprites] /\ e.right \in SUBSET Slots
      /\ e = [stack |-> e.stack, list |-> e.list, spr |-> e.spr,
              usedVDPSprite |-> e.usedVDPSprite, region |-> e.region, right |-> e.right]
  BY EngineFacts
<1>2. y \in Sprites /\ y = [alloc |-> y.alloc, auto |-> y.auto, def |-> y.def, at |-> y.at,
                            upload |-> y.upload]
  BY <1>1, SpriteFacts
<1>3. CASE y.def = d /\ y.at = ind
  <2>1. p = e
    BY <1>3 DEF Placed
  <2>2. e.spr = [e.spr EXCEPT ![s] = y]
    BY <1>1
  <2> QED
    BY <1>2, <1>3, <2>1, <2>2
<1>4. CASE ~(y.def = d /\ y.at = ind)
  <2>1. p = [e EXCEPT !.spr[s] = x, !.right = @ \ {s}]
    BY <1>4 DEF Placed
  <2>2. x = [alloc |-> y.alloc, auto |-> y.auto, def |-> d, at |-> ind, upload |-> TRUE]
    <3>1. x = [y EXCEPT !.def = d, !.at = ind, !.upload = TRUE]
      OBVIOUS
    <3> HIDE DEF x, y
    <3> QED
      BY <1>2, <3>1
  <2>3. x \in Sprites
    BY <1>2, <2>2 DEF Sprites
  <2>4. p = [stack |-> e.stack, list |-> e.list, spr |-> [e.spr EXCEPT ![s] = x],
             usedVDPSprite |-> e.usedVDPSprite, region |-> e.region, right |-> e.right \ {s}]
    BY <1>1, <2>1
  <2> HIDE DEF p, x
  <2>5. [e.spr EXCEPT ![s] = x] \in [Slots -> Sprites] /\ [e.spr EXCEPT ![s] = x][s] = x
    BY <1>1, <2>3
  <2>6. p \in Engines
    BY <1>1, <2>4, <2>5, EngineFacts DEF Engines
  <2>7. p.spr[s] = x
    BY <2>4, <2>5
  <2>8. x.alloc = y.alloc /\ x.auto = y.auto /\ x.def = d /\ x.at = ind /\ x.upload
    BY <2>2
  <2>9. /\ p.stack = e.stack /\ p.list = e.list
        /\ p.usedVDPSprite = e.usedVDPSprite /\ p.region = e.region
        /\ p.spr = [e.spr EXCEPT ![s] = x] /\ e.right \ {s} \subseteq p.right
    BY <2>4
  <2> QED
    BY <2>3, <2>6, <2>7, <2>8, <2>9 DEF p
<1> QED
  BY <1>3, <1>4

\* The blocks of the sprites, when one of them changes or goes.
LEMMA BlocksAdd ==
  ASSUME NEW spr, NEW spr2, NEW G, NEW s, s \notin G, \A t \in G : spr2[t] = spr[t]
  PROVE  OwnedBlocks(spr2, G \cup {s})
           = OwnedBlocks(spr, G)
               \cup (IF spr2[s].auto
                     THEN {[at |-> spr2[s].at, len |-> maxNumTile(spr2[s].def)]} ELSE {})
BY DEF OwnedBlocks

\* Blocks and places.
LEMMA BlockPlace ==
  ASSUME NEW spr, NEW s
  PROVE  A!Cells([at |-> spr[s].at, len |-> maxNumTile(spr[s].def)]) = Place(spr, s)
BY DEF A!Cells, Place

\* A place holds its first tile, so that disjoint places start apart.
LEMMA PlaceFacts ==
  ASSUME NEW spr, NEW s, spr[s].def \in Definitions, spr[s].at \in Int
  PROVE  /\ spr[s].at \in Place(spr, s) /\ IsFiniteSet(Place(spr, s))
         /\ Cardinality(Place(spr, s)) = maxNumTile(spr[s].def)
         /\ Place(spr, s) \subseteq Int
<1> DEFINE n == maxNumTile(spr[s].def)
           a == spr[s].at
<1>1. n \in Nat /\ n > 0 /\ a \in Int
  BY DefFacts
<1>2. Place(spr, s) = a .. a + n - 1
  BY DEF Place
<1> HIDE DEF n, a
<1>3. a \in a .. a + n - 1 /\ a .. a + n - 1 \subseteq Int
  BY <1>1
<1>4. IsFiniteSet(a .. a + n - 1) /\ Cardinality(a .. a + n - 1) = n
  <2>1. a + n - 1 \in Int /\ ~(a > a + n - 1) /\ (a + n - 1) - a + 1 = n
    BY <1>1
  <2> QED
    BY <1>1, <2>1, FS_Interval
<1> QED
  BY <1>2, <1>3, <1>4 DEF a, n

-----------------------------------------------------------------------------
(* One sprite more, one less *)

\* A sprite s joins those of G.
LEMMA Put ==
  ASSUME NEW e \in Engines, NEW f \in Engines, NEW G \in SUBSET Slots,
         NEW s \in Slots, s \notin G, SpritesOf(e, G),
         NEW x, f.spr[s] = x, \A t \in G : f.spr[t] = e.spr[t],
         x.alloc, x.def \in Definitions, ~x.auto => x.at \in Manual,
         x.auto => s \in f.right \/ x.upload, e.right \ {s} \subseteq f.right,
         x.auto => \A b \in OwnedBlocks(e.spr, G) :
                     A!Cells(b) \cap (x.at .. x.at + maxNumTile(x.def) - 1) = {}
  PROVE  /\ SpritesOf(f, G \cup {s})
         /\ Needs(f.spr, G \cup {s}) = Needs(e.spr, G) + maxNumSprite(x.def)
<1>2. f.spr[s] = x /\ \A t \in G : f.spr[t] = e.spr[t]
  OBVIOUS
<1>3. \A t \in G \cup {s} : /\ f.spr[t].alloc /\ f.spr[t].def \in Definitions
                            /\ ~f.spr[t].auto => f.spr[t].at \in Manual
  BY <1>2 DEF SpritesOf
<1>4. \A t \in G \cup {s} : f.spr[t].auto => t \in f.right \/ f.spr[t].upload
  BY <1>2 DEF SpritesOf
<1>5. ASSUME NEW t \in G, e.spr[t].auto, x.auto
      PROVE  Place(f.spr, t) \cap Place(f.spr, s) = {}
  <2>1. [at |-> e.spr[t].at, len |-> maxNumTile(e.spr[t].def)] \in OwnedBlocks(e.spr, G)
    BY <1>5 DEF OwnedBlocks
  <2>2. Place(e.spr, t) \cap (x.at .. x.at + maxNumTile(x.def) - 1) = {}
    BY <1>5, <2>1, BlockPlace
  <2>3. Place(f.spr, t) = Place(e.spr, t) /\ Place(f.spr, s) = x.at .. x.at + maxNumTile(x.def) - 1
    BY <1>2 DEF Place
  <2> QED
    BY <2>2, <2>3
<1>6. ASSUME NEW t \in G, NEW u \in G, e.spr[t].auto, e.spr[u].auto, t # u
      PROVE  Place(f.spr, t) \cap Place(f.spr, u) = {}
  <2>1. Place(e.spr, t) \cap Place(e.spr, u) = {}
    BY <1>6 DEF SpritesOf
  <2> QED
    BY <1>2, <2>1 DEF Place
<1>7. \A t, u \in G \cup {s} : f.spr[t].auto /\ f.spr[u].auto /\ t # u
                                 => Place(f.spr, t) \cap Place(f.spr, u) = {}
  BY <1>2, <1>5, <1>6
<1>8. SpritesOf(f, G \cup {s})
  BY <1>3, <1>4, <1>7 DEF SpritesOf
<1> DEFINE spr2 == f.spr
           spr1 == e.spr
<1>9. spr2[s] = x /\ \A t \in G : spr2[t].def = spr1[t].def
  BY <1>2
<1> HIDE DEF spr2, spr1
<1>10. spr2[s].def \in Definitions
  BY <1>9
<1>11. Needs(spr2, G \cup {s}) = Needs(spr2, G) + maxNumSprite(spr2[s].def)
  BY <1>10, NeedsOne
<1>12. Needs(spr2, G) = Needs(spr1, G)
  BY <1>9, NeedsSame
<1> QED
  BY <1>8, <1>9, <1>11, <1>12 DEF spr1, spr2

\* One with tiles of the program, and one with tiles just allocated.
LEMMA PutManual ==
  ASSUME NEW e \in Engines, NEW f \in Engines, NEW G \in SUBSET Slots,
         NEW s \in Slots, s \notin G, SpritesOf(e, G), \A t \in G : f.spr[t] = e.spr[t],
         f.spr[s].alloc, f.spr[s].def \in Definitions, ~f.spr[s].auto, f.spr[s].at \in Manual,
         e.right \ {s} \subseteq f.right
  PROVE  /\ SpritesOf(f, G \cup {s})
         /\ Needs(f.spr, G \cup {s}) = Needs(e.spr, G) + maxNumSprite(f.spr[s].def)
         /\ OwnedBlocks(f.spr, G \cup {s}) = OwnedBlocks(e.spr, G)
<1> DEFINE x == f.spr[s]
<1>1. /\ x.auto => s \in f.right \/ x.upload
      /\ x.auto => \A b \in OwnedBlocks(e.spr, G) :
                     A!Cells(b) \cap (x.at .. x.at + maxNumTile(x.def) - 1) = {}
      /\ ~x.auto => x.at \in Manual
  OBVIOUS
<1>2. x.alloc /\ x.def \in Definitions /\ f.spr[s] = x
  OBVIOUS
<1> HIDE DEF x
<1>3. /\ SpritesOf(f, G \cup {s})
      /\ Needs(f.spr, G \cup {s}) = Needs(e.spr, G) + maxNumSprite(x.def)
  BY <1>1, <1>2, Put
<1>4. OwnedBlocks(f.spr, G \cup {s}) = OwnedBlocks(e.spr, G)
  BY DEF OwnedBlocks
<1> QED
  BY <1>3, <1>4 DEF x

LEMMA PutAuto ==
  ASSUME NEW e \in Engines, NEW f \in Engines, NEW G \in SUBSET Slots,
         NEW s \in Slots, s \notin G, SpritesOf(e, G), \A t \in G : f.spr[t] = e.spr[t],
         f.spr[s].alloc, f.spr[s].def \in Definitions, f.spr[s].auto,
         s \in f.right \/ f.spr[s].upload, e.right \ {s} \subseteq f.right,
         NEW rg, Sound(rg, OwnedBlocks(e.spr, G)),
         AllocIndex(rg, maxNumTile(f.spr[s].def)) # NoTiles,
         f.spr[s].at = AllocIndex(rg, maxNumTile(f.spr[s].def)),
         f.region = AllocRegion(rg, maxNumTile(f.spr[s].def))
  PROVE  /\ SpritesOf(f, G \cup {s})
         /\ Needs(f.spr, G \cup {s}) = Needs(e.spr, G) + maxNumSprite(f.spr[s].def)
         /\ Sound(f.region, OwnedBlocks(f.spr, G \cup {s}))
<1> DEFINE x == f.spr[s]
           n == maxNumTile(x.def)
           a == AllocIndex(rg, n)
           new == [at |-> a, len |-> n]
           old == OwnedBlocks(e.spr, G)
<1>0. n \in Nat /\ n > 0
  BY DefFacts
<1>1. Sound(rg, old) /\ a # NoTiles /\ x.at = a
  OBVIOUS
<1> HIDE DEF n, old
<1>2. /\ Sound(AllocRegion(rg, n), old \cup {new})
      /\ \A b \in old : A!Cells(b) \cap (a .. a + n - 1) = {}
  BY <1>0, <1>1, AllocSound
<1>4. /\ x.auto => s \in f.right \/ x.upload
      /\ x.auto => \A b \in OwnedBlocks(e.spr, G) :
                     A!Cells(b) \cap (x.at .. x.at + maxNumTile(x.def) - 1) = {}
      /\ ~x.auto => x.at \in Manual
  BY <1>1, <1>2 DEF n, old
<1>5. x.alloc /\ x.def \in Definitions /\ f.spr[s] = x /\ x.auto
  OBVIOUS
<1>6. f.region = AllocRegion(rg, n)
  BY DEF n
<1> HIDE DEF x
<1>7. /\ SpritesOf(f, G \cup {s})
      /\ Needs(f.spr, G \cup {s}) = Needs(e.spr, G) + maxNumSprite(x.def)
  BY <1>4, <1>5, Put
<1>8. OwnedBlocks(f.spr, G \cup {s}) = OwnedBlocks(e.spr, G) \cup {[at |-> x.at, len |-> maxNumTile(x.def)]}
  BY <1>5 DEF OwnedBlocks
<1>9. OwnedBlocks(f.spr, G \cup {s}) = old \cup {new}
  BY <1>1, <1>8 DEF old, n
<1> QED
  BY <1>2, <1>6, <1>7, <1>9 DEF x

\* Fewer sprites, the others as they were.
LEMMA Fewer ==
  ASSUME NEW e \in Engines, NEW f \in Engines, NEW G \in SUBSET Slots, SpritesOf(e, G),
         NEW H \in SUBSET G, \A t \in H : f.spr[t] = e.spr[t],
         \A t \in H : t \in e.right => t \in f.right
  PROVE  SpritesOf(f, H)
<1>1. \A t, u \in H : e.spr[t].auto /\ e.spr[u].auto /\ t # u
                        => Place(f.spr, t) \cap Place(f.spr, u) = {}
  BY DEF SpritesOf, Place
<1> QED
  BY <1>1 DEF SpritesOf

\* The blocks of the others, by where they start.
LEMMA BlocksLess ==
  ASSUME NEW e \in Engines, NEW G \in SUBSET Slots, SpritesOf(e, G),
         NEW s \in G, e.spr[s].auto
  PROVE  {b \in OwnedBlocks(e.spr, G) : b.at # e.spr[s].at} = OwnedBlocks(e.spr, G \ {s})
<1>1. e.spr \in [Slots -> Sprites]
  BY EngineFacts
<1>2. \A t \in G : t # s /\ e.spr[t].auto => e.spr[t].at # e.spr[s].at
  <2> SUFFICES ASSUME NEW t \in G, t # s, e.spr[t].auto PROVE e.spr[t].at # e.spr[s].at
    OBVIOUS
  <2>1. Place(e.spr, t) \cap Place(e.spr, s) = {}
    BY DEF SpritesOf
  <2>2. \A u \in {s, t} : e.spr[u].def \in Definitions /\ e.spr[u].at \in Int
    BY <1>1, SpriteFacts DEF SpritesOf
  <2>3. e.spr[t].at \in Place(e.spr, t) /\ e.spr[s].at \in Place(e.spr, s)
    BY <2>2, PlaceFacts
  <2> QED
    BY <2>1, <2>3
<1> QED
  BY <1>2 DEF OwnedBlocks

\* The sprite s is not one of those with tiles of the region.
LEMMA BlocksSame ==
  ASSUME NEW spr, NEW spr2, NEW G, NEW H \in SUBSET G, \A t \in H : spr2[t] = spr[t],
         \A t \in G \ H : ~spr[t].auto
  PROVE  OwnedBlocks(spr2, H) = OwnedBlocks(spr, G)
BY DEF OwnedBlocks

LEMMA KeptFacts ==
  ASSUME NEW e, NEW G, NEW L, Kept(e, G, L)
  PROVE  /\ e \in Engines /\ G \in SUBSET Slots /\ L \in SUBSET Slots /\ G \subseteq L
         /\ e.spr \in [Slots -> Sprites] /\ e.right \in SUBSET Slots
         /\ SpritesOf(e, G) /\ Sound(e.region, OwnedBlocks(e.spr, G))
         /\ SPR_getUsedVDPSprite(e) = Needs(e.spr, G) /\ Needs(e.spr, G) \in Nat
         /\ Needs(e.spr, G) <= MaxSprite * MaxNeed
         /\ Once(e.list, L) /\ Once(e.stack, Slots \ L)
         /\ \A s \in Slots \ G : e.spr[s] = NoSprite
BY EngineFacts, NeedsBound DEF Kept

-----------------------------------------------------------------------------
(* SPR_addSpriteEx *)

\* allocateSprite: the object leaves the stack for the list, and the undoing of
\* it restores both.
LEMMA AllocatedIs ==
  ASSUME NEW e, NEW G, NEW L, Kept(e, G, L), e.stack # <<>>, NEW head \in BOOLEAN
  PROVE  LET s == Last(e.stack)
             f == Allocated(e, head)
         IN /\ s \in Slots /\ s \notin L /\ s \notin G /\ e.spr[s] = NoSprite
            /\ f \in Engines /\ f.spr = e.spr /\ f.region = e.region /\ f.right = e.right
            /\ f.usedVDPSprite = e.usedVDPSprite
            /\ Once(f.list, L \cup {s}) /\ Once(f.stack, Slots \ (L \cup {s}))
            /\ RemoveFirst(f.list, s) = e.list /\ Append(f.stack, s) = e.stack
<1> DEFINE s == Last(e.stack)
           f == Allocated(e, head)
           l == IF head THEN <<s>> \o e.list ELSE Append(e.list, s)
           k == Front(e.stack)
<1>1. /\ e \in Engines /\ G \subseteq L /\ Once(e.list, L) /\ Once(e.stack, Slots \ L)
      /\ \A t \in Slots \ G : e.spr[t] = NoSprite
  BY KeptFacts
<1>2. s \in Slots \ L /\ Once(k, (Slots \ L) \ {s}) /\ Append(k, s) = e.stack
  BY <1>1, FrontOnce
<1>3. Once(l, L \cup {s}) /\ RemoveFirst(l, s) = e.list
  <2>1. Once(<<s>> \o e.list, L \cup {s}) /\ Once(Append(e.list, s), L \cup {s})
    BY <1>1, <1>2, PrependOnce, AppendOnce
  <2>2. RemoveFirst(<<s>> \o e.list, s) = e.list /\ RemoveFirst(Append(e.list, s), s) = e.list
    BY <1>1, <1>2, RemovePut
  <2> QED
    BY <2>1, <2>2
<1>4. f = [e EXCEPT !.stack = k, !.list = l]
  BY DEF Allocated
<1> HIDE DEF f, l, k, s
<1>5. f = [stack |-> k, list |-> l, spr |-> e.spr, usedVDPSprite |-> e.usedVDPSprite,
           region |-> e.region, right |-> e.right]
  <2>1. e = [stack |-> e.stack, list |-> e.list, spr |-> e.spr,
             usedVDPSprite |-> e.usedVDPSprite, region |-> e.region, right |-> e.right]
    BY <1>1, EngineFacts
  <2> QED
    BY <1>4, <2>1
<1>6. k \in Seq(Slots) /\ l \in Seq(Slots)
  BY <1>2, <1>3 DEF Once
<1>7. f \in Engines
  BY <1>1, <1>5, <1>6, EngineFacts DEF Engines
<1>8. (Slots \ L) \ {s} = Slots \ (L \cup {s})
  OBVIOUS
<1>9. s \in Slots /\ s \notin L /\ s \notin G /\ e.spr[s] = NoSprite
  BY <1>1, <1>2
<1>10. /\ f.spr = e.spr /\ f.region = e.region /\ f.right = e.right
       /\ f.usedVDPSprite = e.usedVDPSprite /\ f.list = l /\ f.stack = k
  BY <1>5
<1>11. /\ Once(f.list, L \cup {s}) /\ Once(f.stack, Slots \ (L \cup {s}))
       /\ RemoveFirst(f.list, s) = e.list /\ Append(f.stack, s) = e.stack
  BY <1>2, <1>3, <1>8, <1>10
<1> QED
  BY <1>7, <1>9, <1>10, <1>11 DEF f, s

\* The object gets its fields, and its hardware sprites are counted.
WithSprite(e, head, x) ==
  [Counted(Allocated(e, head), maxNumSprite(x.def)) EXCEPT !.spr[Last(e.stack)] = x]
WithRegion(e, rg) == [e EXCEPT !.region = rg]

LEMMA NewObject ==
  ASSUME NEW e, NEW G, NEW L, Kept(e, G, L), e.stack # <<>>, NEW head \in BOOLEAN,
         NEW x \in Sprites, x.def \in Definitions
  PROVE  LET s == Last(e.stack)
             a == Allocated(e, head)
             f == WithSprite(e, head, x)
         IN /\ f \in Engines /\ f.spr = [e.spr EXCEPT ![s] = x]
            /\ f.stack = a.stack /\ f.list = a.list
            /\ f.region = e.region /\ f.right = e.right
            /\ f.usedVDPSprite = e.usedVDPSprite + maxNumSprite(x.def)
            /\ SPR_getUsedVDPSprite(f) = Needs(e.spr, G) + maxNumSprite(x.def)
            /\ SPR_getUsedVDPSprite(f) <= MaxSprite * MaxNeed
            /\ f.spr[s] = x
<1> DEFINE s == Last(e.stack)
           a == Allocated(e, head)
           n == maxNumSprite(x.def)
           c == Counted(a, n)
           f == [c EXCEPT !.spr[s] = x]
           spr2 == [e.spr EXCEPT ![s] = x]
<1>1. /\ s \in Slots /\ s \notin G /\ a \in Engines /\ a.spr = e.spr /\ a.region = e.region
      /\ a.right = e.right /\ a.usedVDPSprite = e.usedVDPSprite
  BY AllocatedIs
<1>2. /\ e \in Engines /\ e.spr \in [Slots -> Sprites] /\ G \in SUBSET Slots
      /\ SPR_getUsedVDPSprite(e) = Needs(e.spr, G) /\ Needs(e.spr, G) \in Nat
  BY KeptFacts
<1>3. n \in Nat
  BY DefFacts
<1>4. spr2[s] = x /\ spr2 \in [Slots -> Sprites] /\ \A t \in G : spr2[t].def = e.spr[t].def
  BY <1>1, <1>2
<1> HIDE DEF spr2, n, a, s
<1>5. Needs(spr2, G \cup {s}) = Needs(e.spr, G) + n
  <2> DEFINE spr1 == e.spr
  <2>1. \A t \in G : spr2[t].def = spr1[t].def
    BY <1>4
  <2> HIDE DEF spr1
  <2>2. Needs(spr2, G) = Needs(spr1, G)
    BY <2>1, NeedsSame
  <2>3. spr2[s].def \in Definitions /\ maxNumSprite(spr2[s].def) = n
    BY <1>4 DEF n
  <2>4. Needs(spr2, G \cup {s}) = Needs(spr2, G) + maxNumSprite(spr2[s].def)
    BY <1>1, <1>2, <2>3, NeedsOne
  <2> QED
    BY <2>2, <2>3, <2>4 DEF spr1
<1>6. Needs(e.spr, G) + n <= MaxSprite * MaxNeed /\ MaxSprite * MaxNeed < CHECK_VDP_SPRITE
  BY <1>5, NeedsBound
<1>7. SPR_getUsedVDPSprite(a) = Needs(e.spr, G)
  BY <1>1, <1>2 DEF SPR_getUsedVDPSprite
<1>8. SPR_getUsedVDPSprite(a) + n \in 0 .. CHECK_VDP_SPRITE - 1
  <2>1. CHECK_VDP_SPRITE \in Nat /\ MaxSprite * MaxNeed \in Nat
    BY CheckFacts
  <2> DEFINE M == CHECK_VDP_SPRITE
             B == MaxSprite * MaxNeed
             u == Needs(e.spr, G)
  <2>2. M \in Nat /\ B \in Nat /\ u \in Nat /\ u + n <= B /\ B < M
    BY <1>2, <1>6, <2>1
  <2> HIDE DEF M, B, u
  <2>3. u + n \in 0 .. M - 1
    BY <1>3, <2>2
  <2> QED
    BY <1>7, <2>3 DEF M, u
<1>9. /\ c = [a EXCEPT !.usedVDPSprite = @ + n] /\ c \in Engines
      /\ SPR_getUsedVDPSprite(c) = SPR_getUsedVDPSprite(a) + n
  BY <1>1, <1>3, <1>8, CountedIs
<1> HIDE DEF c
<1>10. /\ c.stack = a.stack /\ c.list = a.list /\ c.spr = e.spr /\ c.region = e.region
       /\ c.right = e.right /\ c.usedVDPSprite = e.usedVDPSprite + n
  BY <1>1, <1>9, EngineFacts
<1>11. f = [stack |-> a.stack, list |-> a.list, spr |-> spr2,
            usedVDPSprite |-> c.usedVDPSprite, region |-> e.region, right |-> e.right]
  <2>1. f = [c EXCEPT !.spr = [@ EXCEPT ![s] = x]]
    OBVIOUS
  <2> HIDE DEF f
  <2>2. c = [stack |-> c.stack, list |-> c.list, spr |-> c.spr,
             usedVDPSprite |-> c.usedVDPSprite, region |-> c.region, right |-> c.right]
    BY <1>9, EngineFacts
  <2> QED
    BY <1>10, <2>1, <2>2 DEF spr2
<1> HIDE DEF f
<1>12. f \in Engines
  BY <1>1, <1>4, <1>9, <1>10, <1>11, EngineFacts DEF Engines
<1>13. SPR_getUsedVDPSprite(f) = SPR_getUsedVDPSprite(c)
  BY <1>11 DEF SPR_getUsedVDPSprite
<1>14. SPR_getUsedVDPSprite(f) = Needs(e.spr, G) + n
  BY <1>7, <1>9, <1>13
<1>15. /\ f \in Engines /\ f.spr = spr2 /\ f.stack = a.stack /\ f.list = a.list
       /\ f.region = e.region /\ f.right = e.right
       /\ f.usedVDPSprite = e.usedVDPSprite + n
       /\ SPR_getUsedVDPSprite(f) = Needs(e.spr, G) + n
       /\ SPR_getUsedVDPSprite(f) <= MaxSprite * MaxNeed
       /\ f.spr[s] = x
  BY <1>4, <1>6, <1>10, <1>11, <1>12, <1>14
<1>16. f = WithSprite(e, head, x)
  BY DEF WithSprite, f, c, n, a, s
<1> QED
  BY <1>15, <1>16 DEF n, a, s, spr2

LEMMA NewSpriteFacts ==
  ASSUME NEW d \in Definitions, NEW auto \in BOOLEAN, NEW at \in Int
  PROVE  LET x == NewSprite(d, auto, at)
         IN /\ x \in Sprites /\ x.alloc /\ x.auto = auto /\ x.def = d /\ x.at = at /\ x.upload
BY DEF NewSprite, Sprites

\* The tile index -1 asks SPR_addSpriteEx to allocate tiles.
AutoAt(at) == at = -1

LEMMA AutoFacts ==
  ASSUME NEW d \in Definitions, NEW at \in Manual \cup {-1}
  PROVE  at \in Int /\ AutoAt(at) \in BOOLEAN /\ (~AutoAt(at) => at \in Manual) /\ (AutoAt(at) <=> at = -1)
BY EngineAssumption DEF AutoAt

\* The four outcomes of SPR_addSpriteEx once there is an object.
NewEngine(e, d, at, head) == WithSprite(e, head, NewSprite(d, AutoAt(at), at))

LEMMA AddExIs ==
  ASSUME NEW e, NEW d, NEW at, NEW head, e.stack # <<>>
  PROVE  LET s == Last(e.stack)
             f == NewEngine(e, d, at, head)
             g == WithRegion(f, AllocRegion(f.region, maxNumTile(d)))
             ind == AllocIndex(f.region, maxNumTile(d))
         IN AddEx(e, d, at = -1, at, head)
              = IF AddRefusedByCheck(e, d)
                THEN [eng |-> releaseSprite(Allocated(e, head), s), sprite |-> None]
                ELSE IF at # -1 THEN [eng |-> f, sprite |-> s]
                ELSE IF ind = NoTiles THEN [eng |-> releaseSprite(g, s), sprite |-> None]
                ELSE [eng |-> Placed(g, s, d, ind), sprite |-> s]
<1>1. NewSprite(d, at = -1, at).def = d
  BY DEF NewSprite
<1> QED
  BY <1>1 DEF AddEx, NewEngine, WithSprite, WithRegion, AutoAt

LEMMA WithRegionIs ==
  ASSUME NEW e \in Engines, NEW rg \in [vram : [Words -> u16], free : Words]
  PROVE  LET g == WithRegion(e, rg)
         IN /\ g \in Engines /\ g.region = rg /\ g.spr = e.spr /\ g.right = e.right
            /\ g.stack = e.stack /\ g.list = e.list /\ g.usedVDPSprite = e.usedVDPSprite
            /\ SPR_getUsedVDPSprite(g) = SPR_getUsedVDPSprite(e)
<1> DEFINE g == WithRegion(e, rg)
<1>1. e = [stack |-> e.stack, list |-> e.list, spr |-> e.spr,
           usedVDPSprite |-> e.usedVDPSprite, region |-> e.region, right |-> e.right]
  BY EngineFacts
<1>2. g = [stack |-> e.stack, list |-> e.list, spr |-> e.spr,
           usedVDPSprite |-> e.usedVDPSprite, region |-> rg, right |-> e.right]
  BY <1>1 DEF WithRegion
<1> HIDE DEF g
<1>3. g \in Engines
  BY <1>2, EngineFacts DEF Engines
<1> QED
  BY <1>2, <1>3 DEF g, SPR_getUsedVDPSprite

LEMMA NewEngineIs ==
  ASSUME NEW e, NEW G, NEW L, Kept(e, G, L), e.stack # <<>>, NEW head \in BOOLEAN,
         NEW d \in Definitions, NEW at \in Manual \cup {-1}
  PROVE  LET s == Last(e.stack)
             a == Allocated(e, head)
             x == NewSprite(d, AutoAt(at), at)
             f == NewEngine(e, d, at, head)
         IN /\ x \in Sprites /\ x.alloc /\ x.auto = AutoAt(at) /\ x.def = d /\ x.at = at
            /\ x.upload /\ (~x.auto => x.at \in Manual)
            /\ f \in Engines /\ f.region = e.region /\ f.spr = [e.spr EXCEPT ![s] = x]
            /\ f.right = e.right /\ f.stack = a.stack /\ f.list = a.list
            /\ f.usedVDPSprite = e.usedVDPSprite + maxNumSprite(d)
            /\ SPR_getUsedVDPSprite(f) = Needs(e.spr, G) + maxNumSprite(d)
<1> DEFINE x == NewSprite(d, AutoAt(at), at)
<1>1. at \in Int /\ AutoAt(at) \in BOOLEAN /\ (~AutoAt(at) => at \in Manual)
  BY AutoFacts
<1>2. /\ x \in Sprites /\ x.alloc /\ x.auto = AutoAt(at) /\ x.def = d /\ x.at = at
      /\ x.upload
  BY <1>1, NewSpriteFacts
<1>3. x.def \in Definitions /\ NewEngine(e, d, at, head) = WithSprite(e, head, x)
  BY <1>2 DEF NewEngine
<1> HIDE DEF x
<1>4. LET f == WithSprite(e, head, x)
          a == Allocated(e, head)
      IN /\ f \in Engines /\ f.spr = [e.spr EXCEPT ![Last(e.stack)] = x]
         /\ f.stack = a.stack /\ f.list = a.list
         /\ f.region = e.region /\ f.right = e.right
         /\ f.usedVDPSprite = e.usedVDPSprite + maxNumSprite(x.def)
         /\ SPR_getUsedVDPSprite(f) = Needs(e.spr, G) + maxNumSprite(x.def)
  BY <1>2, <1>3, NewObject
<1> QED
  BY <1>1, <1>2, <1>3, <1>4 DEF x

\* The check of hardware sprites refuses: the object stays on the list.
LEMMA AddRefused ==
  ASSUME NEW e, NEW G, NEW L, Kept(e, G, L), e.stack # <<>>, NEW head \in BOOLEAN
  PROVE  LET s == Last(e.stack)
             f == releaseSprite(Allocated(e, head), s)
         IN /\ Kept(f, G, L \cup {s}) /\ f.usedVDPSprite = e.usedVDPSprite
<1> DEFINE s == Last(e.stack)
           a == Allocated(e, head)
<1>1. /\ s \in Slots /\ s \notin G /\ e.spr[s] = NoSprite
      /\ a \in Engines /\ a.spr = e.spr /\ a.region = e.region /\ a.right = e.right
      /\ a.usedVDPSprite = e.usedVDPSprite
      /\ Once(a.list, L \cup {s}) /\ Once(a.stack, Slots \ (L \cup {s}))
  BY AllocatedIs
<1>2. releaseSprite(a, s) = a
  BY <1>1, NoSpriteFacts DEF releaseSprite
<1> HIDE DEF a, s
<1>3. SpritesOf(a, G)
  <2>1. e \in Engines /\ SpritesOf(e, G) /\ G \in SUBSET G /\ G \in SUBSET Slots
    BY KeptFacts
  <2>2. \A t \in G : a.spr[t] = e.spr[t] /\ (t \in e.right => t \in a.right)
    BY <1>1
  <2> QED
    BY <1>1, <2>1, <2>2, Fewer
<1>4. SPR_getUsedVDPSprite(a) = Needs(a.spr, G)
  BY <1>1, KeptFacts DEF SPR_getUsedVDPSprite
<1>5. Kept(a, G, L \cup {s})
  BY <1>1, <1>3, <1>4, KeptFacts DEF Kept
<1> QED
  BY <1>1, <1>2, <1>5 DEF a, s

\* The program gives the tiles.
LEMMA AddManual ==
  ASSUME NEW e, NEW G, NEW L, Kept(e, G, L), e.stack # <<>>, NEW head \in BOOLEAN,
         NEW d \in Definitions, NEW at \in Manual \cup {-1}, at # -1
  PROVE  Kept(NewEngine(e, d, at, head), G \cup {Last(e.stack)}, L \cup {Last(e.stack)})
<1> DEFINE s == Last(e.stack)
           a == Allocated(e, head)
           x == NewSprite(d, AutoAt(at), at)
           f == NewEngine(e, d, at, head)
<1>1. /\ s \in Slots /\ s \notin G
      /\ Once(a.list, L \cup {s}) /\ Once(a.stack, Slots \ (L \cup {s}))
  BY AllocatedIs
<1>2. /\ e \in Engines /\ G \in SUBSET Slots /\ L \in SUBSET Slots /\ G \subseteq L
      /\ e.spr \in [Slots -> Sprites] /\ SpritesOf(e, G)
      /\ Sound(e.region, OwnedBlocks(e.spr, G))
      /\ \A t \in Slots \ G : e.spr[t] = NoSprite
  BY KeptFacts
<1>3. /\ x \in Sprites /\ x.alloc /\ x.auto = AutoAt(at) /\ x.def = d /\ x.at = at
      /\ ~x.auto => x.at \in Manual
      /\ f \in Engines /\ f.region = e.region /\ f.spr = [e.spr EXCEPT ![s] = x]
      /\ f.right = e.right /\ f.stack = a.stack /\ f.list = a.list
      /\ SPR_getUsedVDPSprite(f) = Needs(e.spr, G) + maxNumSprite(d)
  BY NewEngineIs
<1>4. ~x.auto /\ x.def \in Definitions /\ x.at \in Manual
  BY <1>3, AutoFacts
<1> HIDE DEF s, a, x, f
<1>5. f.spr[s] = x /\ \A t \in Slots : t # s => f.spr[t] = e.spr[t]
  BY <1>1, <1>2, <1>3
<1>6. \A t \in G : f.spr[t] = e.spr[t]
  BY <1>1, <1>2, <1>5
<1>7. /\ SpritesOf(f, G \cup {s})
      /\ Needs(f.spr, G \cup {s}) = Needs(e.spr, G) + maxNumSprite(f.spr[s].def)
      /\ OwnedBlocks(f.spr, G \cup {s}) = OwnedBlocks(e.spr, G)
  <2>1. e.right \ {s} \subseteq f.right
    BY <1>3
  <2>2. /\ f.spr[s].alloc /\ f.spr[s].def \in Definitions /\ ~f.spr[s].auto
        /\ f.spr[s].at \in Manual
    BY <1>3, <1>4, <1>5
  <2>3. e \in Engines /\ f \in Engines /\ G \in SUBSET Slots /\ s \in Slots /\ s \notin G /\ SpritesOf(e, G)
    BY <1>1, <1>2, <1>3
  <2> QED
    BY <1>6, <2>1, <2>2, <2>3, PutManual
<1>9. \A t \in Slots \ (G \cup {s}) : f.spr[t] = NoSprite
  BY <1>2, <1>5
<1>10. G \cup {s} \subseteq L \cup {s} /\ L \cup {s} \subseteq Slots
  BY <1>1, <1>2
<1>11. SPR_getUsedVDPSprite(f) = Needs(f.spr, G \cup {s})
  BY <1>3, <1>5, <1>7
<1>12. Kept(f, G \cup {s}, L \cup {s})
  BY <1>1, <1>2, <1>3, <1>7, <1>9, <1>10, <1>11 DEF Kept
<1> QED
  BY <1>12 DEF f, s

\* Tiles are found for the new sprite.
LEMMA AddAuto ==
  ASSUME NEW e, NEW G, NEW L, Kept(e, G, L), e.stack # <<>>, NEW head \in BOOLEAN,
         NEW d \in Definitions, AllocIndex(e.region, maxNumTile(d)) # NoTiles
  PROVE  LET s == Last(e.stack)
             f == NewEngine(e, d, -1, head)
             g == WithRegion(f, AllocRegion(f.region, maxNumTile(d)))
         IN Kept(Placed(g, s, d, AllocIndex(e.region, maxNumTile(d))), G \cup {s}, L \cup {s})
<1> DEFINE at == -1
           s == Last(e.stack)
           a == Allocated(e, head)
           x == NewSprite(d, AutoAt(at), at)
           f == NewEngine(e, d, at, head)
           m == maxNumTile(d)
           ind == AllocIndex(e.region, m)
           rg == AllocRegion(e.region, m)
           g == WithRegion(f, AllocRegion(f.region, m))
           p == Placed(g, s, d, ind)
<1>0. at \in Manual \cup {-1} /\ m \in Nat /\ m > 0 /\ ind # NoTiles
  BY DefFacts
<1>1. /\ s \in Slots /\ s \notin G
      /\ Once(a.list, L \cup {s}) /\ Once(a.stack, Slots \ (L \cup {s}))
  BY AllocatedIs
<1>2. /\ e \in Engines /\ G \in SUBSET Slots /\ L \in SUBSET Slots /\ G \subseteq L
      /\ e.spr \in [Slots -> Sprites] /\ SpritesOf(e, G)
      /\ Sound(e.region, OwnedBlocks(e.spr, G))
      /\ \A t \in Slots \ G : e.spr[t] = NoSprite
  BY KeptFacts
<1> HIDE DEF m
<1>13. ind \in Int /\ rg \in [vram : [Words -> u16], free : Words]
  <2>1. /\ Sound(rg, OwnedBlocks(e.spr, G) \cup {[at |-> ind, len |-> m]})
        /\ ind \in StartIndex .. EndIndex
    BY <1>0, <1>2, AllocSound
  <2>2. StartIndex \in Nat
    BY WordFacts
  <2> QED
    BY <2>1, <2>2 DEF Sound
<1> HIDE DEF ind, rg, at
<1>3. /\ x \in Sprites /\ x.alloc /\ x.auto = AutoAt(at) /\ x.def = d /\ x.upload
      /\ f \in Engines /\ f.region = e.region /\ f.spr = [e.spr EXCEPT ![s] = x]
      /\ f.right = e.right /\ f.stack = a.stack /\ f.list = a.list
      /\ SPR_getUsedVDPSprite(f) = Needs(e.spr, G) + maxNumSprite(d)
  BY <1>0, NewEngineIs
<1>4. x.auto
  BY <1>0, <1>3, AutoFacts DEF at
<1> HIDE DEF s, a, x, f
<1>5. g = WithRegion(f, rg)
  BY <1>3 DEF rg
<1>6. /\ g \in Engines /\ g.region = rg /\ g.spr = f.spr /\ g.right = f.right
      /\ g.stack = f.stack /\ g.list = f.list /\ g.usedVDPSprite = f.usedVDPSprite
      /\ SPR_getUsedVDPSprite(g) = SPR_getUsedVDPSprite(f)
  BY <1>3, <1>5, <1>13, WithRegionIs
<1> HIDE DEF g
<1> DEFINE y == p.spr[s]
<1>7. /\ p \in Engines /\ p.stack = g.stack /\ p.list = g.list
      /\ p.usedVDPSprite = g.usedVDPSprite /\ p.region = g.region
      /\ p.spr = [g.spr EXCEPT ![s] = y] /\ y \in Sprites
      /\ y.alloc = g.spr[s].alloc /\ y.auto = g.spr[s].auto /\ y.def = d /\ y.at = ind
      /\ g.right \ {s} \subseteq p.right
      /\ y.upload \/ (y = g.spr[s] /\ p.right = g.right)
  BY <1>1, <1>6, <1>13, PlacedIs
<1> HIDE DEF p
<1>8. g.spr[s] = x /\ \A t \in Slots : t # s => g.spr[t] = e.spr[t]
  BY <1>1, <1>2, <1>3, <1>6
<1>9. \A t \in Slots : t # s => p.spr[t] = e.spr[t]
  BY <1>7, <1>8, EngineFacts
<1>10. /\ p.spr[s].alloc /\ p.spr[s].auto /\ p.spr[s].def = d /\ p.spr[s].at = ind
       /\ p.spr[s].upload
  BY <1>3, <1>4, <1>7, <1>8
<1>11. /\ SpritesOf(p, G \cup {s})
       /\ Needs(p.spr, G \cup {s}) = Needs(e.spr, G) + maxNumSprite(p.spr[s].def)
       /\ Sound(p.region, OwnedBlocks(p.spr, G \cup {s}))
  <2>1. \A t \in G : p.spr[t] = e.spr[t]
    BY <1>1, <1>2, <1>9
  <2>2. e.right \ {s} \subseteq p.right
    BY <1>3, <1>6, <1>7
  <2>3. /\ AllocIndex(e.region, maxNumTile(p.spr[s].def)) # NoTiles
        /\ p.spr[s].at = AllocIndex(e.region, maxNumTile(p.spr[s].def))
        /\ p.region = AllocRegion(e.region, maxNumTile(p.spr[s].def))
        /\ p.spr[s].def \in Definitions
    BY <1>0, <1>6, <1>7, <1>10 DEF ind, rg, m
  <2> QED
    BY <1>1, <1>2, <1>7, <1>10, <2>1, <2>2, <2>3, PutAuto
<1>12. /\ \A t \in Slots \ (G \cup {s}) : p.spr[t] = NoSprite
       /\ G \cup {s} \subseteq L \cup {s} /\ L \cup {s} \subseteq Slots
       /\ Once(p.list, L \cup {s}) /\ Once(p.stack, Slots \ (L \cup {s}))
  BY <1>1, <1>2, <1>3, <1>6, <1>7, <1>9
<1>14. SPR_getUsedVDPSprite(p) = Needs(p.spr, G \cup {s})
  <2>1. SPR_getUsedVDPSprite(p) = SPR_getUsedVDPSprite(g)
    BY <1>7 DEF SPR_getUsedVDPSprite
  <2> QED
    BY <1>3, <1>6, <1>10, <1>11, <2>1
<1>15. Kept(p, G \cup {s}, L \cup {s})
  BY <1>7, <1>11, <1>12, <1>14 DEF Kept
<1> QED
  BY <1>15 DEF p, g, f, s, ind, m, at

\* releaseSprite of an object in use.
LEMMA ReleasedIs ==
  ASSUME NEW e \in Engines, NEW s \in Slots, e.spr[s].alloc, e.spr[s].def \in Definitions,
         SPR_getUsedVDPSprite(e) - maxNumSprite(e.spr[s].def) \in Nat,
         RemoveFirst(e.list, s) \in Seq(Slots)
  PROVE  LET f == releaseSprite(e, s)
             n == maxNumSprite(e.spr[s].def)
         IN /\ f \in Engines /\ f.stack = Append(e.stack, s) /\ f.list = RemoveFirst(e.list, s)
            /\ f.spr = [e.spr EXCEPT ![s] = NoSprite] /\ f.right = e.right \ {s}
            /\ f.region = e.region /\ f.usedVDPSprite = e.usedVDPSprite - n
            /\ SPR_getUsedVDPSprite(f) = SPR_getUsedVDPSprite(e) - n
<1> DEFINE k == Append(e.stack, s)
           l == RemoveFirst(e.list, s)
           spr2 == [e.spr EXCEPT ![s] = NoSprite]
           right2 == e.right \ {s}
           g == [e EXCEPT !.stack = k, !.list = l, !.spr = spr2, !.right = right2]
           n == maxNumSprite(e.spr[s].def)
           f == Counted(g, -n)
<1>1. f = releaseSprite(e, s)
  BY DEF releaseSprite
<1>2. e = [stack |-> e.stack, list |-> e.list, spr |-> e.spr,
           usedVDPSprite |-> e.usedVDPSprite, region |-> e.region, right |-> e.right]
  BY EngineFacts
<1>3. n \in Nat
  BY DefFacts
<1>4. k \in Seq(Slots) /\ l \in Seq(Slots) /\ spr2 \in [Slots -> Sprites] /\ right2 \in SUBSET Slots
  BY EngineFacts, NoSpriteFacts
<1>5. SPR_getUsedVDPSprite(e) - n \in Nat
  OBVIOUS
<1> HIDE DEF k, l, spr2, right2, n
<1>6. g = [stack |-> k, list |-> l, spr |-> spr2,
           usedVDPSprite |-> e.usedVDPSprite, region |-> e.region, right |-> right2]
  <2>1. g = [e EXCEPT !.stack = k, !.list = l, !.spr = spr2, !.right = right2]
    OBVIOUS
  <2> HIDE DEF g
  <2> QED
    BY <1>2, <2>1
<1> HIDE DEF g
<1>7. g \in Engines
  BY <1>4, <1>6, EngineFacts DEF Engines
<1>8. SPR_getUsedVDPSprite(g) = SPR_getUsedVDPSprite(e)
  BY <1>6 DEF SPR_getUsedVDPSprite
<1>9. SPR_getUsedVDPSprite(g) + (-n) \in 0 .. CHECK_VDP_SPRITE - 1
  <2> DEFINE u == SPR_getUsedVDPSprite(e)
             M == CHECK_VDP_SPRITE
  <2>1. M \in Nat \ {0} /\ e.usedVDPSprite \in Nat
    BY CheckFacts, EngineFacts DEF u16
  <2>2. u \in 0 .. M - 1
    BY <2>1, Modulo DEF SPR_getUsedVDPSprite
  <2>3. u - n \in Nat
    BY <1>5
  <2> HIDE DEF u, M
  <2>4. u + (-n) \in 0 .. M - 1
    BY <1>3, <2>1, <2>2, <2>3
  <2> QED
    BY <1>8, <2>4 DEF u, M
<1>10. /\ f = [g EXCEPT !.usedVDPSprite = @ + (-n)] /\ f \in Engines
       /\ SPR_getUsedVDPSprite(f) = SPR_getUsedVDPSprite(g) + (-n)
  <2>1. -n \in Int
    BY <1>3
  <2> QED
    BY <1>7, <1>9, <2>1, CountedIs
<1> HIDE DEF f
<1>11. e.usedVDPSprite \in Nat /\ SPR_getUsedVDPSprite(e) \in Int
  <2> DEFINE u == e.usedVDPSprite
             M == CHECK_VDP_SPRITE
  <2>1. u \in Nat /\ M \in Nat \ {0}
    BY CheckFacts, EngineFacts DEF u16
  <2>2. SPR_getUsedVDPSprite(e) = u % M
    BY DEF SPR_getUsedVDPSprite
  <2> HIDE DEF u, M
  <2>3. u % M \in Int
    BY <2>1, Modulo
  <2> QED
    BY <2>1, <2>2, <2>3 DEF u
<1>12. /\ f.stack = k /\ f.list = l /\ f.spr = spr2 /\ f.right = right2 /\ f.region = e.region
       /\ f.usedVDPSprite = e.usedVDPSprite - n
  BY <1>3, <1>6, <1>10, <1>11
<1>13. SPR_getUsedVDPSprite(f) = SPR_getUsedVDPSprite(e) - n
  BY <1>3, <1>8, <1>10, <1>11
<1> QED
  BY <1>1, <1>10, <1>12, <1>13 DEF k, l, spr2, right2, n

\* No tiles are found: the object, its place and its hardware sprites are
\* given back.
LEMMA AddFails ==
  ASSUME NEW e, NEW G, NEW L, Kept(e, G, L), e.stack # <<>>, NEW head \in BOOLEAN,
         NEW d \in Definitions, AllocIndex(e.region, maxNumTile(d)) = NoTiles
  PROVE  LET s == Last(e.stack)
             f == NewEngine(e, d, -1, head)
             g == WithRegion(f, AllocRegion(f.region, maxNumTile(d)))
             h == releaseSprite(g, s)
         IN /\ Kept(h, G, L) /\ h.stack = e.stack /\ h.spr = e.spr
            /\ h.usedVDPSprite = e.usedVDPSprite
<1> DEFINE at == -1
           s == Last(e.stack)
           a == Allocated(e, head)
           x == NewSprite(d, AutoAt(at), at)
           f == NewEngine(e, d, at, head)
           m == maxNumTile(d)
           rg == AllocRegion(e.region, m)
           g == WithRegion(f, AllocRegion(f.region, m))
           h == releaseSprite(g, s)
           n == maxNumSprite(d)
<1>0. at \in Manual \cup {-1} /\ m \in Nat /\ m > 0 /\ AllocIndex(e.region, m) = NoTiles /\ n \in Nat
  BY DefFacts
<1>1. /\ s \in Slots /\ s \notin G /\ e.spr[s] = NoSprite
      /\ RemoveFirst(a.list, s) = e.list /\ Append(a.stack, s) = e.stack
  BY AllocatedIs
<1>2. /\ e \in Engines /\ G \in SUBSET Slots /\ L \in SUBSET Slots /\ G \subseteq L
      /\ e.spr \in [Slots -> Sprites] /\ SpritesOf(e, G)
      /\ Sound(e.region, OwnedBlocks(e.spr, G))
      /\ \A t \in Slots \ G : e.spr[t] = NoSprite
      /\ SPR_getUsedVDPSprite(e) = Needs(e.spr, G) /\ Needs(e.spr, G) \in Nat
      /\ Once(e.list, L) /\ Once(e.stack, Slots \ L)
  BY KeptFacts
<1> HIDE DEF m, n
<1>3. Sound(rg, OwnedBlocks(e.spr, G))
  BY <1>0, <1>2, AllocFailsSound
<1>4. rg \in [vram : [Words -> u16], free : Words]
  BY <1>3 DEF Sound
<1> HIDE DEF rg, at
<1>5. /\ x.alloc /\ x.def = d
      /\ f \in Engines /\ f.region = e.region /\ f.spr = [e.spr EXCEPT ![s] = x]
      /\ f.right = e.right /\ f.stack = a.stack /\ f.list = a.list
      /\ f.usedVDPSprite = e.usedVDPSprite + n
      /\ SPR_getUsedVDPSprite(f) = Needs(e.spr, G) + n
  BY <1>0, NewEngineIs DEF n
<1> HIDE DEF s, a, x, f
<1>6. g = WithRegion(f, rg)
  BY <1>5 DEF rg
<1>7. /\ g \in Engines /\ g.region = rg /\ g.spr = f.spr /\ g.right = f.right
      /\ g.stack = f.stack /\ g.list = f.list /\ g.usedVDPSprite = f.usedVDPSprite
      /\ SPR_getUsedVDPSprite(g) = SPR_getUsedVDPSprite(f)
  BY <1>4, <1>5, <1>6, WithRegionIs
<1> HIDE DEF g
<1>8. g.spr[s] = x
  BY <1>1, <1>2, <1>5, <1>7
<1>9. /\ h \in Engines /\ h.stack = Append(g.stack, s) /\ h.list = RemoveFirst(g.list, s)
      /\ h.spr = [g.spr EXCEPT ![s] = NoSprite] /\ h.right = g.right \ {s}
      /\ h.region = g.region /\ h.usedVDPSprite = g.usedVDPSprite - n
      /\ SPR_getUsedVDPSprite(h) = SPR_getUsedVDPSprite(g) - n
  <2>1. g.spr[s].alloc /\ g.spr[s].def \in Definitions /\ maxNumSprite(g.spr[s].def) = n
    BY <1>5, <1>8 DEF n
  <2>2. SPR_getUsedVDPSprite(g) - n \in Nat
    <3> DEFINE u == Needs(e.spr, G)
    <3>1. SPR_getUsedVDPSprite(g) = u + n /\ u \in Nat
      BY <1>2, <1>5, <1>7
    <3> HIDE DEF u
    <3> QED
      BY <1>0, <3>1
  <2>3. RemoveFirst(g.list, s) \in Seq(Slots)
    BY <1>1, <1>2, <1>5, <1>7 DEF Once
  <2> QED
    BY <1>1, <1>7, <2>1, <2>2, <2>3, ReleasedIs
<1> HIDE DEF h
<1>10. h.stack = e.stack /\ h.list = e.list
  BY <1>1, <1>5, <1>7, <1>9
<1>11. h.spr = e.spr
  BY <1>1, <1>2, <1>5, <1>7, <1>9
<1>12. h.usedVDPSprite = e.usedVDPSprite
  <2>1. e.usedVDPSprite \in Nat
    BY <1>2, EngineFacts, CheckFacts DEF u16
  <2> QED
    BY <1>0, <1>5, <1>7, <1>9, <2>1
<1>13. SPR_getUsedVDPSprite(h) = Needs(h.spr, G)
  BY <1>2, <1>11, <1>12 DEF SPR_getUsedVDPSprite
<1>14. SpritesOf(h, G)
  <2>1. /\ \A t \in G : h.spr[t] = e.spr[t]
        /\ \A t \in G : t \in e.right => t \in h.right
    BY <1>1, <1>5, <1>7, <1>9, <1>11
  <2>2. G \in SUBSET G /\ G \in SUBSET Slots /\ e \in Engines /\ h \in Engines /\ SpritesOf(e, G)
    BY <1>2, <1>9
  <2> QED
    BY <2>1, <2>2, Fewer
<1>15. Kept(h, G, L)
  BY <1>2, <1>3, <1>7, <1>9, <1>10, <1>11, <1>13, <1>14 DEF Kept
<1> QED
  BY <1>10, <1>11, <1>12, <1>15 DEF h, g, f, s, m, at

\* SPR_addSpriteEx and SPR_addSpriteExSafe as the program calls them.
Added(e, d, at, head) == AddEx(e, d, at = -1, at, head)
AddedSafe(e, d, at, head) == AddExSafe(e, d, at = -1, at, head)

\* What SPR_addSpriteEx leaves of a failed addition.
AddLeaves(e, d, r) ==
  r.sprite = None
    => /\ r.eng.usedVDPSprite = e.usedVDPSprite
       /\ ~AddRefusedByCheck(e, d) => r.eng.stack = e.stack /\ r.eng.spr = e.spr
       /\ \/ e.stack = <<>>
          \/ AddRefusedByCheck(e, d)
          \/ AllocIndex(e.region, maxNumTile(d)) = NoTiles

\* SPR_addSpriteEx, whatever comes of it.
LEMMA AddKeeps ==
  ASSUME NEW e, NEW G, NEW L, Kept(e, G, L), NEW head \in BOOLEAN,
         NEW d \in Definitions, NEW at \in Manual \cup {-1}
  PROVE  LET r == Added(e, d, at, head)
             new == {r.sprite} \ {None}
         IN /\ r.sprite \in Slots \cup {None}
            /\ \E M : Kept(r.eng, G \cup new, M)
            /\ ~AddRefusedByCheck(e, d) => Kept(r.eng, G \cup new, L \cup new)
            /\ AddLeaves(e, d, r)
<1> DEFINE r == Added(e, d, at, head)
           new == {r.sprite} \ {None}
           s == Last(e.stack)
<1>1. CASE e.stack = <<>>
  <2>1. r = [eng |-> e, sprite |-> None]
    BY <1>1 DEF AddEx, Added
  <2>2. G \cup new = G /\ L \cup new = L /\ r.eng = e /\ r.sprite = None
    BY <2>1
  <2> HIDE DEF r, AddLeaves
  <2> QED
    BY <1>1, <2>2 DEF r, AddLeaves
<1>2. CASE e.stack # <<>>
  <2> DEFINE a == Allocated(e, head)
             f == NewEngine(e, d, at, head)
             m == maxNumTile(d)
             g == WithRegion(f, AllocRegion(f.region, m))
             ind == AllocIndex(f.region, m)
             e1 == releaseSprite(a, s)
             e3 == releaseSprite(g, s)
             e4 == Placed(g, s, d, ind)
  <2>1. r = IF AddRefusedByCheck(e, d) THEN [eng |-> e1, sprite |-> None]
            ELSE IF at # -1 THEN [eng |-> f, sprite |-> s]
            ELSE IF ind = NoTiles THEN [eng |-> e3, sprite |-> None]
            ELSE [eng |-> e4, sprite |-> s]
    BY <1>2, AddExIs DEF Added
  <2>2. s \in Slots /\ s # None
    BY <1>2, AllocatedIs, SlotFacts
  <2>3. f.region = e.region
    <3> DEFINE x == NewSprite(d, AutoAt(at), at)
    <3>1. /\ x \in Sprites /\ x.def = d
          /\ f \in Engines /\ f.region = e.region /\ f.spr = [e.spr EXCEPT ![s] = x]
          /\ f.right = e.right /\ f.stack = a.stack /\ f.list = a.list
          /\ SPR_getUsedVDPSprite(f) = Needs(e.spr, G) + maxNumSprite(d)
      BY <1>2, NewEngineIs
    <3> QED
      BY <3>1
  <2>4. AddRefusedByCheck(e, d) => Kept(e1, G, L \cup {s}) /\ e1.usedVDPSprite = e.usedVDPSprite
    BY <1>2, AddRefused
  <2>5. at # -1 => Kept(f, G \cup {s}, L \cup {s})
    BY <1>2, AddManual
  <2>6. at = -1 /\ ind = NoTiles
          => /\ Kept(e3, G, L) /\ e3.stack = e.stack /\ e3.spr = e.spr
             /\ e3.usedVDPSprite = e.usedVDPSprite
    <3> SUFFICES ASSUME at = -1, ind = NoTiles
                 PROVE  /\ Kept(e3, G, L) /\ e3.stack = e.stack /\ e3.spr = e.spr
                        /\ e3.usedVDPSprite = e.usedVDPSprite
      OBVIOUS
    <3>1. AllocIndex(e.region, maxNumTile(d)) = NoTiles
      BY <2>3
    <3> QED
      BY <1>2, <3>1, AddFails
  <2>7. at = -1 /\ ind # NoTiles => Kept(e4, G \cup {s}, L \cup {s})
    <3> SUFFICES ASSUME at = -1, ind # NoTiles PROVE Kept(e4, G \cup {s}, L \cup {s})
      OBVIOUS
    <3>1. AllocIndex(e.region, maxNumTile(d)) # NoTiles /\ ind = AllocIndex(e.region, m)
      BY <2>3
    <3> QED
      BY <1>2, <3>1, AddAuto
  <2>8. ind = AllocIndex(e.region, maxNumTile(d))
    BY <2>3
  <2> HIDE DEF a, f, m, g, ind, e1, e3, e4, s, r
  <2>9. CASE AddRefusedByCheck(e, d)
    <3>1. r.eng = e1 /\ r.sprite = None
      BY <2>1, <2>9
    <3>2. G \cup new = G
      BY <3>1
    <3> QED
      BY <2>4, <2>9, <3>1, <3>2 DEF r, AddLeaves
  <2>10. CASE ~AddRefusedByCheck(e, d) /\ at = -1 /\ ind = NoTiles
    <3>1. r.eng = e3 /\ r.sprite = None
      BY <2>1, <2>10
    <3>2. G \cup new = G /\ L \cup new = L
      BY <3>1
    <3> QED
      BY <2>6, <2>8, <2>10, <3>1, <3>2 DEF r, AddLeaves
  <2>11. CASE ~AddRefusedByCheck(e, d) /\ ~(at = -1 /\ ind = NoTiles)
    <3>1. r.sprite = s /\ Kept(r.eng, G \cup {s}, L \cup {s})
      BY <2>1, <2>5, <2>7, <2>11
    <3>2. new = {s} /\ r.sprite # None /\ r.sprite \in Slots
      BY <2>2, <3>1
    <3> QED
      BY <2>11, <3>1, <3>2 DEF r, AddLeaves
  <2> QED
    BY <2>9, <2>10, <2>11
<1> QED
  BY <1>1, <1>2

-----------------------------------------------------------------------------
(* SPR_defragVRAM *)

\* The loop over the list, as a function of its turns.
LEMMA DefragSteps ==
  ASSUME NEW e, Len(e.list) \in Nat
  PROVE  \E f : /\ f[0] = WithRegion(e, Created(0))
                /\ \A i \in 1 .. Len(e.list) : f[i] = DefragOne(f[i - 1], e.list[i])
                /\ Defragged(e) = f[Len(e.list)]
<1> DEFINE n == Len(e.list)
           x == [e EXCEPT !.region = Created(0)]
           D(y, i) == DefragOne(y, e.list[i])
           Is(f, k) == f = [i \in 0 .. k |-> IF i = 0 THEN x ELSE D(f[i - 1], i)]
           Bad == {k \in Nat : ~\E f : Is(f, k)}
<1>1. Defragged(e) = (CHOOSE f : Is(f, n))[n]
  BY DEF Defragged
<1> HIDE DEF x, D
<1>2. Bad = {}
  <2> SUFFICES ASSUME Bad # {} PROVE FALSE
    OBVIOUS
  <2>1. PICK k \in Bad : \A y \in Bad : k <= y
    <3>1. Bad \subseteq Nat
      OBVIOUS
    <3> QED
      BY <3>1, NatMin
  <2>2. k \in Nat /\ \A f : ~Is(f, k)
    OBVIOUS
  <2>3. CASE k = 0
    <3> DEFINE g == [i \in 0 .. k |-> x]
    <3>1. g = [i \in 0 .. k |-> IF i = 0 THEN x ELSE D(g[i - 1], i)]
      BY <2>3
    <3> QED
      BY <2>2, <3>1
  <2>4. CASE k # 0
    <3>1. k - 1 \in Nat /\ k - 1 \notin Bad
      BY <2>1, <2>2, <2>4
    <3>2. PICK f : Is(f, k - 1)
      BY <3>1
    <3> DEFINE g == [i \in 0 .. k |-> IF i = k THEN D(f[k - 1], k) ELSE f[i]]
    <3>3. \A i \in 0 .. k - 1 : f[i] = IF i = 0 THEN x ELSE D(f[i - 1], i)
      BY <3>2
    <3>4. \A i \in 0 .. k : g[i] = IF i = 0 THEN x ELSE D(g[i - 1], i)
      <4> SUFFICES ASSUME NEW i \in 0 .. k PROVE g[i] = IF i = 0 THEN x ELSE D(g[i - 1], i)
        OBVIOUS
      <4>1. CASE i = k
        <5>1. i # 0 /\ k - 1 \in 0 .. k /\ k - 1 # k
          BY <2>2, <2>4, <4>1
        <5>2. g[k] = D(f[k - 1], k) /\ g[k - 1] = f[k - 1]
          BY <4>1, <5>1
        <5> QED
          BY <4>1, <5>1, <5>2
      <4>2. CASE i # k
        <5>1. i \in 0 .. k - 1 /\ (i # 0 => i - 1 \in 0 .. k /\ i - 1 # k)
          BY <2>2, <4>2
        <5>2. g[i] = f[i] /\ (i # 0 => g[i - 1] = f[i - 1])
          BY <4>2, <5>1
        <5> QED
          BY <3>3, <5>1, <5>2
      <4> QED
        BY <4>1, <4>2
    <3>5. g = [i \in 0 .. k |-> g[i]]
      OBVIOUS
    <3> HIDE DEF g
    <3>6. Is(g, k)
      BY <3>4, <3>5
    <3> QED
      BY <2>2, <3>6
  <2> QED
    BY <2>3, <2>4
<1>3. \E f : Is(f, n)
  BY <1>2
<1> DEFINE h == CHOOSE f : Is(f, n)
<1>4. Is(h, n)
  BY <1>3
<1> HIDE DEF h
<1>5. \A i \in 0 .. n : h[i] = IF i = 0 THEN x ELSE D(h[i - 1], i)
  BY <1>4
<1>6. h[0] = WithRegion(e, Created(0))
  <2>1. 0 \in 0 .. n
    OBVIOUS
  <2> QED
    BY <1>5, <2>1 DEF x, WithRegion
<1>7. \A i \in 1 .. n : h[i] = DefragOne(h[i - 1], e.list[i])
  <2>1. \A i \in 1 .. n : i \in 0 .. n /\ i # 0
    OBVIOUS
  <2> QED
    BY <1>5, <2>1 DEF D
<1>8. Defragged(e) = h[n]
  BY <1>1 DEF h
<1> QED
  BY <1>6, <1>7, <1>8

\* A region without gap: the used blocks take the first k tiles.
Compact(r, k) == k \in Nat /\ k <= Size /\ r.free = k /\ r.vram[k] = Size - k

LEMMA CompactAlloc ==
  ASSUME NEW r, NEW blocks, Sound(r, blocks), NEW k, Compact(r, k),
         NEW n \in Nat, n > 0, k + n <= Size
  PROVE  /\ AllocIndex(r, n) = k + StartIndex /\ AllocIndex(r, n) # NoTiles
         /\ Compact(AllocRegion(r, n), k + n)
<1> DEFINE v == r.vram
<1>1. /\ Size \in Nat /\ StartIndex \in Nat /\ USED_MASK \in Nat /\ Size < USED_MASK
      /\ Size \in Words /\ USED_MASK > 0
  BY WordFacts
<1>2. k \in Nat /\ k <= Size /\ r.free = k /\ v[k] = Size - k
  BY DEF Compact
<1>3. ~(n > v[k]) /\ k # NoTiles
  BY <1>1, <1>2 DEF NoTiles
<1>4. AllocAt(r, n) = k
  BY <1>2, <1>3 DEF AllocAt
<1>5. AllocRegion(r, n) = Take(v, k, n)
  BY <1>2, <1>3, <1>4 DEF AllocRegion
<1>6. AllocIndex(r, n) = k + StartIndex /\ AllocIndex(r, n) # NoTiles
  BY <1>1, <1>2, <1>3, <1>4 DEF AllocIndex, NoTiles
<1>7. v \in [Words -> u16] /\ v[Size] = 0
  BY DEF Sound, Described, Row
<1> DEFINE rest == k + n
           u == [w \in Words |->
                  IF w = k THEN n + USED_MASK
                  ELSE IF w = rest /\ v[k] > n THEN v[k] - n ELSE v[w]]
           f == IF v[k] > n THEN rest ELSE Min({b \in Chain(v, rest) : ~Used(v, b)})
<1>8. Take(v, k, n) = [vram |-> u, free |-> f]
  BY DEF Take
<1>9. rest \in Nat /\ rest <= Size /\ rest # k /\ rest \in Words
  BY <1>1, <1>2, WordFacts
<1>10. u[rest] = IF v[k] > n THEN v[k] - n ELSE v[rest]
  BY <1>9
<1> HIDE DEF v, u
<1>11. f = rest /\ u[rest] = Size - rest
  <2>1. CASE v[k] > n
    BY <1>1, <1>2, <1>9, <1>10, <2>1
  <2>2. CASE ~(v[k] > n)
    <3>1. rest = Size
      BY <1>1, <1>2, <1>3, <2>2
    <3>2. Chain(v, Size) = {Size}
      BY <1>1, <1>7, ChainUnfolds DEF Stops
    <3>3. ~Used(v, Size)
      BY <1>1, <1>7 DEF Used
    <3>4. {b \in Chain(v, rest) : ~Used(v, b)} = {Size}
      BY <3>1, <3>2, <3>3
    <3>5. Min({Size}) = Size
      <4>1. {Size} \subseteq Nat /\ {Size} # {}
        BY <1>1
      <4>2. Min({Size}) \in {Size}
        BY <4>1, MinIsLeast
      <4> QED
        BY <4>2
    <3>6. f = Size
      BY <2>2, <3>4, <3>5
    <3> QED
      BY <1>1, <1>7, <1>10, <2>2, <3>1, <3>6
  <2> QED
    BY <2>1, <2>2
<1>12. Compact(Take(v, k, n), rest)
  BY <1>8, <1>9, <1>11 DEF Compact
<1> QED
  BY <1>5, <1>6, <1>12 DEF v

LEMMA CreatedCompact ==
  Sound(Created(0), {}) /\ Compact(Created(0), 0)
<1> DEFINE v == [w \in Words |-> 0]
<1>1. v \in [Words -> u16] /\ Created(0) = Cleared(v)
  BY CheckFacts DEF Created, u16
<1>2. Sound(Cleared(v), {})
  BY <1>1, ClearedSound
<1>3. Cleared(v) = [vram |-> [v EXCEPT ![0] = Size, ![Size] = 0], free |-> 0]
  BY DEF Cleared
<1>4. [v EXCEPT ![0] = Size, ![Size] = 0][0] = Size
  BY WordFacts
<1>5. Compact(Cleared(v), 0)
  BY <1>3, <1>4, WordFacts DEF Compact
<1> QED
  BY <1>1, <1>2, <1>5

\* All tiles of the sprites of U.
OwnCells(spr, U) == UNION {Place(spr, s) : s \in {t \in U : spr[t].auto}}

LEMMA OwnPlace ==
  ASSUME NEW e, NEW G, NEW L, Kept(e, G, L), NEW s \in G, e.spr[s].auto
  PROVE  /\ Place(e.spr, s) \subseteq StartIndex .. EndIndex /\ IsFiniteSet(Place(e.spr, s))
         /\ Cardinality(Place(e.spr, s)) = maxNumTile(e.spr[s].def)
         /\ e.spr[s].def \in Definitions /\ e.spr[s].at \in StartIndex .. EndIndex
<1> DEFINE a == e.spr[s].at
           n == maxNumTile(e.spr[s].def)
           b == [at |-> a, len |-> n]
<1>1. /\ e.spr \in [Slots -> Sprites] /\ s \in Slots /\ SpritesOf(e, G)
      /\ Sound(e.region, OwnedBlocks(e.spr, G))
  BY KeptFacts
<1>2. b \in OwnedBlocks(e.spr, G)
  BY DEF OwnedBlocks
<1>3. b.at \in StartIndex .. EndIndex /\ b.len \in Nat /\ b.at + b.len <= EndIndex + 1
  BY <1>1, <1>2, SoundBlocks
<1>4. e.spr[s].def \in Definitions /\ e.spr[s].at \in Int
  BY <1>1, SpriteFacts DEF SpritesOf
<1>5. IsFiniteSet(Place(e.spr, s)) /\ Cardinality(Place(e.spr, s)) = n
  BY <1>4, PlaceFacts
<1>6. a \in StartIndex .. EndIndex /\ n \in Nat /\ a + n <= EndIndex + 1 /\ Place(e.spr, s) = a .. a + n - 1
  BY <1>3 DEF Place
<1>7. StartIndex \in Int /\ EndIndex \in Int
  BY WordFacts DEF EndIndex
<1> HIDE DEF a, n
<1>8. a .. a + n - 1 \subseteq StartIndex .. EndIndex
  BY <1>6, <1>7
<1> QED
  BY <1>4, <1>5, <1>6, <1>8 DEF a, n

LEMMA OwnCellsBound ==
  ASSUME NEW e, NEW G, NEW L, Kept(e, G, L), NEW U \in SUBSET G
  PROVE  /\ IsFiniteSet(OwnCells(e.spr, U)) /\ Cardinality(OwnCells(e.spr, U)) \in Nat
         /\ Cardinality(OwnCells(e.spr, U)) <= Size
<1> DEFINE T == StartIndex .. EndIndex
<1>1. StartIndex \in Int /\ EndIndex \in Int /\ Size \in Nat /\ Size > 0 /\ EndIndex - StartIndex + 1 = Size
  BY WordFacts DEF EndIndex
<1>2. IsFiniteSet(T) /\ Cardinality(T) = Size
  BY <1>1, FS_Interval
<1>3. OwnCells(e.spr, U) \in SUBSET T
  <2>1. \A s \in U : e.spr[s].auto => Place(e.spr, s) \subseteq T
    BY OwnPlace
  <2> QED
    BY <2>1 DEF OwnCells
<1> HIDE DEF T
<1>4. IsFiniteSet(OwnCells(e.spr, U)) /\ Cardinality(OwnCells(e.spr, U)) <= Cardinality(T)
  BY <1>2, <1>3, FS_Subset
<1> QED
  BY <1>2, <1>4, FS_CardinalityType

LEMMA OwnCellsAdd ==
  ASSUME NEW e, NEW G, NEW L, Kept(e, G, L), NEW U \in SUBSET G, NEW s \in G, s \notin U
  PROVE  /\ ~e.spr[s].auto => OwnCells(e.spr, U \cup {s}) = OwnCells(e.spr, U)
         /\ e.spr[s].auto
              => Cardinality(OwnCells(e.spr, U \cup {s}))
                   = Cardinality(OwnCells(e.spr, U)) + maxNumTile(e.spr[s].def)
<1>1. ASSUME ~e.spr[s].auto PROVE OwnCells(e.spr, U \cup {s}) = OwnCells(e.spr, U)
  BY <1>1 DEF OwnCells
<1>2. ASSUME e.spr[s].auto
      PROVE  Cardinality(OwnCells(e.spr, U \cup {s}))
               = Cardinality(OwnCells(e.spr, U)) + maxNumTile(e.spr[s].def)
  <2> DEFINE C == OwnCells(e.spr, U)
             P == Place(e.spr, s)
             n == maxNumTile(e.spr[s].def)
  <2>1. OwnCells(e.spr, U \cup {s}) = C \cup P
    BY <1>2 DEF OwnCells
  <2>2. C \cap P = {}
    <3>1. \A t \in U : e.spr[t].auto => Place(e.spr, t) \cap P = {}
      BY <1>2, KeptFacts DEF SpritesOf
    <3> QED
      BY <3>1 DEF OwnCells
  <2>3. IsFiniteSet(C) /\ Cardinality(C) \in Nat
    BY OwnCellsBound
  <2>4. IsFiniteSet(P) /\ Cardinality(P) = n /\ n \in Nat
    BY <1>2, OwnPlace, DefFacts
  <2> HIDE DEF C, P, n
  <2>5. Cardinality(C \cup P) = Cardinality(C) + Cardinality(P) - Cardinality(C \cap P)
    BY <2>3, <2>4, FS_Union
  <2>6. Cardinality(C \cap P) = 0
    BY <2>2, FS_EmptySet
  <2>7. Cardinality(C \cup P) = Cardinality(C) + n
    BY <2>3, <2>4, <2>5, <2>6
  <2> QED
    BY <2>1, <2>7 DEF C, n
<1> QED
  BY <1>1, <1>2

\* In the middle of the loop: the sprites of U have new tiles, without gap.
Midway(e, f, U) ==
  /\ f \in Engines /\ f.stack = e.stack /\ f.list = e.list
  /\ f.usedVDPSprite = e.usedVDPSprite
  /\ \A s \in Slots \ U : f.spr[s] = e.spr[s] /\ (s \in e.right => s \in f.right)
  /\ \A s \in U : f.spr[s].def = e.spr[s].def
  /\ SpritesOf(f, U) /\ Sound(f.region, OwnedBlocks(f.spr, U))
  /\ Compact(f.region, Cardinality(OwnCells(e.spr, U)))

LEMMA DefragBegins ==
  ASSUME NEW e, NEW G, NEW L, Kept(e, G, L)
  PROVE  Midway(e, WithRegion(e, Created(0)), {})
<1> DEFINE f == WithRegion(e, Created(0))
<1>1. e \in Engines
  BY KeptFacts
<1>2. Sound(Created(0), {}) /\ Compact(Created(0), 0)
  BY CreatedCompact
<1>3. Created(0) \in [vram : [Words -> u16], free : Words]
  BY <1>2 DEF Sound
<1>4. /\ f \in Engines /\ f.region = Created(0) /\ f.spr = e.spr /\ f.right = e.right
      /\ f.stack = e.stack /\ f.list = e.list /\ f.usedVDPSprite = e.usedVDPSprite
  BY <1>1, <1>3, WithRegionIs
<1> HIDE DEF f
<1>5. OwnedBlocks(f.spr, {}) = {} /\ OwnCells(e.spr, {}) = {} /\ SpritesOf(f, {})
  BY DEF OwnedBlocks, OwnCells, SpritesOf
<1>6. Cardinality(OwnCells(e.spr, {})) = 0
  BY <1>5, FS_EmptySet
<1>7. Midway(e, f, {})
  BY <1>2, <1>4, <1>5, <1>6 DEF Midway
<1> QED
  BY <1>7 DEF f

\* A sprite with tiles of the region: there is room for it, the comment "can't
\* fail here".
LEMMA DefragsOne ==
  ASSUME NEW e, NEW G, NEW L, Kept(e, G, L), NEW U \in SUBSET G, NEW f, Midway(e, f, U),
         NEW s \in G, s \notin U, e.spr[s].auto
  PROVE  Midway(e, DefragOne(f, s), U \cup {s})
<1> DEFINE d == e.spr[s].def
           n == maxNumTile(d)
           k == Cardinality(OwnCells(e.spr, U))
           ind == AllocIndex(f.region, n)
           rg == AllocRegion(f.region, n)
           g == WithRegion(f, rg)
           p == Placed(g, s, d, ind)
           y == p.spr[s]
<1>1. /\ G \in SUBSET Slots /\ e.spr \in [Slots -> Sprites] /\ SpritesOf(e, G) /\ s \in Slots
      /\ s \in Slots \ U /\ U \in SUBSET Slots
  BY KeptFacts
<1>2. /\ f \in Engines /\ f.stack = e.stack /\ f.list = e.list
      /\ f.usedVDPSprite = e.usedVDPSprite
      /\ \A t \in Slots \ U : f.spr[t] = e.spr[t] /\ (t \in e.right => t \in f.right)
      /\ \A t \in U : f.spr[t].def = e.spr[t].def
      /\ SpritesOf(f, U) /\ Sound(f.region, OwnedBlocks(f.spr, U))
      /\ Compact(f.region, k)
  BY DEF Midway
<1>3. /\ f.spr[s] = e.spr[s] /\ e.spr[s].alloc /\ d \in Definitions
      /\ s \in e.right \/ e.spr[s].upload
      /\ s \in e.right => s \in f.right
  BY <1>1, <1>2 DEF SpritesOf
<1>4. n \in Nat /\ n > 0
  BY <1>3, DefFacts
<1>5. k + n = Cardinality(OwnCells(e.spr, U \cup {s})) /\ k + n <= Size
  <2>1. U \cup {s} \in SUBSET G
    OBVIOUS
  <2>2. Cardinality(OwnCells(e.spr, U \cup {s})) <= Size
    BY <2>1, OwnCellsBound
  <2>3. Cardinality(OwnCells(e.spr, U \cup {s})) = Cardinality(OwnCells(e.spr, U)) + n
    BY OwnCellsAdd
  <2> QED
    BY <2>2, <2>3
<1> HIDE DEF k, n
<1>6. ind # NoTiles /\ Compact(rg, k + n)
  BY <1>2, <1>4, <1>5, CompactAlloc
<1>7. ind \in Int /\ rg \in [vram : [Words -> u16], free : Words]
  <2>1. /\ Sound(rg, OwnedBlocks(f.spr, U) \cup {[at |-> ind, len |-> n]})
        /\ ind \in StartIndex .. EndIndex
    BY <1>2, <1>4, <1>6, AllocSound
  <2>2. StartIndex \in Nat
    BY WordFacts
  <2> QED
    BY <2>1, <2>2 DEF Sound
<1>8. DefragOne(f, s) = p
  BY <1>3, <1>6 DEF DefragOne, WithRegion, n
<1> HIDE DEF ind, rg, d
<1>9. /\ g \in Engines /\ g.region = rg /\ g.spr = f.spr /\ g.right = f.right
      /\ g.stack = f.stack /\ g.list = f.list /\ g.usedVDPSprite = f.usedVDPSprite
  BY <1>2, <1>7, WithRegionIs
<1> HIDE DEF g
<1>10. /\ p \in Engines /\ p.stack = g.stack /\ p.list = g.list
       /\ p.usedVDPSprite = g.usedVDPSprite /\ p.region = g.region
       /\ p.spr = [g.spr EXCEPT ![s] = y] /\ y \in Sprites
       /\ y.alloc = g.spr[s].alloc /\ y.auto = g.spr[s].auto /\ y.def = d /\ y.at = ind
       /\ g.right \ {s} \subseteq p.right
       /\ y.upload \/ (y = g.spr[s] /\ p.right = g.right)
  BY <1>1, <1>3, <1>7, <1>9, PlacedIs
<1> HIDE DEF p
<1>11. \A t \in Slots : t # s => p.spr[t] = f.spr[t]
  BY <1>9, <1>10, EngineFacts
<1>12. p.spr[s].alloc /\ p.spr[s].auto /\ p.spr[s].def = d /\ p.spr[s].at = ind
  BY <1>3, <1>9, <1>10
<1>13. s \in p.right \/ p.spr[s].upload
  BY <1>3, <1>9, <1>10
<1>14. /\ SpritesOf(p, U \cup {s}) /\ Sound(p.region, OwnedBlocks(p.spr, U \cup {s}))
  <2>1. \A t \in U : p.spr[t] = f.spr[t]
    BY <1>1, <1>11
  <2>2. f.right \ {s} \subseteq p.right
    BY <1>9, <1>10
  <2>3. /\ AllocIndex(f.region, maxNumTile(p.spr[s].def)) # NoTiles
        /\ p.spr[s].at = AllocIndex(f.region, maxNumTile(p.spr[s].def))
        /\ p.region = AllocRegion(f.region, maxNumTile(p.spr[s].def))
        /\ p.spr[s].def \in Definitions
    BY <1>3, <1>6, <1>9, <1>10, <1>12 DEF ind, rg, n
  <2>4. f \in Engines /\ p \in Engines /\ SpritesOf(f, U) /\ Sound(f.region, OwnedBlocks(f.spr, U))
    BY <1>2, <1>10
  <2> QED
    BY <1>1, <1>12, <1>13, <2>1, <2>2, <2>3, <2>4, PutAuto
<1>15. \A t \in Slots \ (U \cup {s}) : p.spr[t] = e.spr[t] /\ (t \in e.right => t \in p.right)
  BY <1>2, <1>9, <1>10, <1>11
<1>16. \A t \in U \cup {s} : p.spr[t].def = e.spr[t].def
  BY <1>1, <1>2, <1>11, <1>12 DEF d
<1>17. Compact(p.region, Cardinality(OwnCells(e.spr, U \cup {s})))
  BY <1>5, <1>6, <1>9, <1>10
<1>18. Midway(e, p, U \cup {s})
  BY <1>2, <1>9, <1>10, <1>14, <1>15, <1>16, <1>17 DEF Midway
<1> QED
  BY <1>8, <1>18

\* Every turn of the loop.
LEMMA DefragTurn ==
  ASSUME NEW e, NEW G, NEW L, Kept(e, G, L), NEW T \in SUBSET L,
         NEW f, Midway(e, f, G \cap T), NEW s \in L, s \notin T
  PROVE  Midway(e, DefragOne(f, s), G \cap (T \cup {s}))
<1> DEFINE U == G \cap T
<1>1. /\ G \in SUBSET Slots /\ L \in SUBSET Slots /\ e.spr \in [Slots -> Sprites]
      /\ SpritesOf(e, G) /\ \A t \in Slots \ G : e.spr[t] = NoSprite
  BY KeptFacts
<1>2. U \in SUBSET G /\ s \notin U /\ s \in Slots /\ U \in SUBSET Slots /\ Midway(e, f, U)
  BY <1>1
<1>3. CASE s \notin G
  <2>1. G \cap (T \cup {s}) = U
    BY <1>3
  <2>2. f.spr[s] = NoSprite
    BY <1>1, <1>2, <1>3 DEF Midway
  <2>3. DefragOne(f, s) = f
    BY <2>2, NoSpriteFacts DEF DefragOne
  <2> QED
    BY <1>2, <2>1, <2>3
<1>4. CASE s \in G /\ e.spr[s].auto
  <2>1. G \cap (T \cup {s}) = U \cup {s}
    BY <1>4
  <2> HIDE DEF U
  <2> QED
    BY <1>2, <1>4, <2>1, DefragsOne
<1>5. CASE s \in G /\ ~e.spr[s].auto
  <2>1. G \cap (T \cup {s}) = U \cup {s}
    BY <1>5
  <2> HIDE DEF U
  <2>2. /\ f \in Engines /\ f.stack = e.stack /\ f.list = e.list
        /\ f.usedVDPSprite = e.usedVDPSprite
        /\ \A t \in Slots \ U : f.spr[t] = e.spr[t] /\ (t \in e.right => t \in f.right)
        /\ \A t \in U : f.spr[t].def = e.spr[t].def
        /\ SpritesOf(f, U) /\ Sound(f.region, OwnedBlocks(f.spr, U))
        /\ Compact(f.region, Cardinality(OwnCells(e.spr, U)))
    BY <1>2 DEF Midway
  <2>3. f.spr[s] = e.spr[s]
    BY <1>2, <2>2
  <2>4. DefragOne(f, s) = f
    BY <1>5, <2>3 DEF DefragOne
  <2>5. f.spr[s].alloc /\ f.spr[s].def \in Definitions /\ ~f.spr[s].auto /\ f.spr[s].at \in Manual
    BY <1>1, <1>5, <2>3 DEF SpritesOf
  <2>6. SpritesOf(f, U \cup {s}) /\ OwnedBlocks(f.spr, U \cup {s}) = OwnedBlocks(f.spr, U)
    <3>1. f.right \ {s} \subseteq f.right /\ \A t \in U : f.spr[t] = f.spr[t]
      OBVIOUS
    <3> QED
      BY <1>2, <2>2, <2>5, <3>1, PutManual
  <2>7. OwnCells(e.spr, U \cup {s}) = OwnCells(e.spr, U)
    BY <1>5 DEF OwnCells
  <2>8. \A t \in U \cup {s} : f.spr[t].def = e.spr[t].def
    BY <2>2, <2>3
  <2>9. \A t \in Slots \ (U \cup {s}) : f.spr[t] = e.spr[t] /\ (t \in e.right => t \in f.right)
    BY <2>2
  <2>10. Midway(e, f, U \cup {s})
    BY <2>2, <2>6, <2>7, <2>8, <2>9 DEF Midway
  <2> QED
    BY <2>1, <2>4, <2>10
<1> QED
  BY <1>3, <1>4, <1>5

\* The list holds every sprite once: after the loop all have new tiles.
LEMMA DefragKeeps ==
  ASSUME NEW e, NEW G, NEW L, Kept(e, G, L)
  PROVE  LET f == Defragged(e)
         IN /\ Kept(f, G, L) /\ f.stack = e.stack /\ f.usedVDPSprite = e.usedVDPSprite
            /\ Compact(f.region, Cardinality(OwnCells(e.spr, G)))
<1> DEFINE q == e.list
           n == Len(q)
           T(i) == {q[j] : j \in 1 .. i}
           f == Defragged(e)
<1>1. /\ G \in SUBSET Slots /\ L \in SUBSET Slots /\ G \subseteq L /\ Once(q, L)
      /\ Once(e.stack, Slots \ L) /\ \A t \in Slots \ G : e.spr[t] = NoSprite
      /\ SPR_getUsedVDPSprite(e) = Needs(e.spr, G)
  BY KeptFacts
<1>2. /\ n \in Nat /\ \A i \in 1 .. n : q[i] \in L
      /\ \A i, j \in 1 .. n : q[i] = q[j] => i = j
      /\ \A s \in L : \E i \in 1 .. n : q[i] = s
  BY <1>1, OnceFacts
<1>3. PICK h : /\ h[0] = WithRegion(e, Created(0))
               /\ \A i \in 1 .. n : h[i] = DefragOne(h[i - 1], q[i])
               /\ f = h[n]
  BY <1>2, DefragSteps
<1> HIDE DEF q, n, f
<1> DEFINE Bad == {i \in 0 .. n : ~Midway(e, h[i], G \cap T(i))}
<1>4. Bad = {}
  <2> SUFFICES ASSUME Bad # {} PROVE FALSE
    OBVIOUS
  <2>1. PICK k \in Bad : \A i \in Bad : k <= i
    <3>1. Bad \subseteq Nat
      BY <1>2
    <3> QED
      BY <3>1, NatMin
  <2>2. k \in 0 .. n /\ ~Midway(e, h[k], G \cap T(k))
    OBVIOUS
  <2>3. CASE k = 0
    <3>1. G \cap T(0) = {}
      OBVIOUS
    <3>2. Midway(e, h[0], {})
      BY <1>3, DefragBegins
    <3> QED
      BY <2>2, <2>3, <3>1, <3>2
  <2>4. CASE k # 0
    <3>1. k \in 1 .. n /\ k - 1 \in 0 .. n /\ k - 1 < k
      BY <1>2, <2>2, <2>4
    <3>2. Midway(e, h[k - 1], G \cap T(k - 1))
      <4>1. k - 1 \notin Bad
        <5> HIDE DEF Bad
        <5> QED
          BY <2>1, <2>2, <3>1
      <4> QED
        BY <3>1, <4>1
    <3>3. T(k - 1) \in SUBSET L
      BY <1>2, <3>1
    <3>4. q[k] \in L /\ q[k] \notin T(k - 1)
      BY <1>2, <3>1
    <3>5. T(k) = T(k - 1) \cup {q[k]}
      <4>1. \A j : j \in 1 .. k <=> (j \in 1 .. k - 1 \/ j = k)
        BY <1>2, <3>1
      <4> QED
        BY <4>1
    <3> HIDE DEF T
    <3>6. Midway(e, DefragOne(h[k - 1], q[k]), G \cap (T(k - 1) \cup {q[k]}))
      BY <3>2, <3>3, <3>4, DefragTurn
    <3>7. h[k] = DefragOne(h[k - 1], q[k])
      BY <1>3, <3>1
    <3> QED
      BY <2>2, <3>5, <3>6, <3>7
  <2> QED
    BY <2>3, <2>4
<1>5. Midway(e, f, G)
  <2>1. n \in 0 .. n
    BY <1>2
  <2>2. G \cap T(n) = G
    BY <1>1, <1>2
  <2>3. Midway(e, h[n], G \cap T(n))
    BY <1>4, <2>1
  <2> QED
    BY <1>3, <2>2, <2>3
<1>6. /\ f \in Engines /\ f.stack = e.stack /\ f.list = e.list
      /\ f.usedVDPSprite = e.usedVDPSprite
      /\ \A t \in Slots \ G : f.spr[t] = e.spr[t]
      /\ \A t \in G : f.spr[t].def = e.spr[t].def
      /\ SpritesOf(f, G) /\ Sound(f.region, OwnedBlocks(f.spr, G))
      /\ Compact(f.region, Cardinality(OwnCells(e.spr, G)))
  BY <1>5 DEF Midway
<1>7. SPR_getUsedVDPSprite(f) = Needs(f.spr, G)
  <2> DEFINE spr1 == e.spr
             spr2 == f.spr
  <2>1. \A t \in G : spr2[t].def = spr1[t].def
    BY <1>6
  <2> HIDE DEF spr1, spr2
  <2>2. Needs(spr2, G) = Needs(spr1, G)
    BY <2>1, NeedsSame
  <2> QED
    BY <1>1, <1>6, <2>2 DEF spr1, spr2, SPR_getUsedVDPSprite
<1>8. Kept(f, G, L)
  BY <1>1, <1>6, <1>7 DEF Kept, q
<1> QED
  BY <1>6, <1>8 DEF f

-----------------------------------------------------------------------------
(* SPR_update *)

LEMMA UploadSteps ==
  ASSUME NEW e, Len(e.list) \in Nat
  PROVE  \E f : /\ f[0] = e
                /\ \A i \in 1 .. Len(e.list) : f[i] = UploadOne(f[i - 1], e.list[i])
                /\ Uploaded(e) = f[Len(e.list)]
<1> DEFINE n == Len(e.list)
           x == e
           D(y, i) == UploadOne(y, e.list[i])
           Is(f, k) == f = [i \in 0 .. k |-> IF i = 0 THEN x ELSE D(f[i - 1], i)]
           Bad == {k \in Nat : ~\E f : Is(f, k)}
<1>1. Uploaded(e) = (CHOOSE f : Is(f, n))[n]
  BY DEF Uploaded
<1> HIDE DEF x, D
<1>2. Bad = {}
  <2> SUFFICES ASSUME Bad # {} PROVE FALSE
    OBVIOUS
  <2>1. PICK k \in Bad : \A y \in Bad : k <= y
    <3>1. Bad \subseteq Nat
      OBVIOUS
    <3> QED
      BY <3>1, NatMin
  <2>2. k \in Nat /\ \A f : ~Is(f, k)
    OBVIOUS
  <2>3. CASE k = 0
    <3> DEFINE g == [i \in 0 .. k |-> x]
    <3>1. g = [i \in 0 .. k |-> IF i = 0 THEN x ELSE D(g[i - 1], i)]
      BY <2>3
    <3> QED
      BY <2>2, <3>1
  <2>4. CASE k # 0
    <3>1. k - 1 \in Nat /\ k - 1 \notin Bad
      BY <2>1, <2>2, <2>4
    <3>2. PICK f : Is(f, k - 1)
      BY <3>1
    <3> DEFINE g == [i \in 0 .. k |-> IF i = k THEN D(f[k - 1], k) ELSE f[i]]
    <3>3. \A i \in 0 .. k - 1 : f[i] = IF i = 0 THEN x ELSE D(f[i - 1], i)
      BY <3>2
    <3>4. \A i \in 0 .. k : g[i] = IF i = 0 THEN x ELSE D(g[i - 1], i)
      <4> SUFFICES ASSUME NEW i \in 0 .. k PROVE g[i] = IF i = 0 THEN x ELSE D(g[i - 1], i)
        OBVIOUS
      <4>1. CASE i = k
        <5>1. i # 0 /\ k - 1 \in 0 .. k /\ k - 1 # k
          BY <2>2, <2>4, <4>1
        <5>2. g[k] = D(f[k - 1], k) /\ g[k - 1] = f[k - 1]
          BY <4>1, <5>1
        <5> QED
          BY <4>1, <5>1, <5>2
      <4>2. CASE i # k
        <5>1. i \in 0 .. k - 1 /\ (i # 0 => i - 1 \in 0 .. k /\ i - 1 # k)
          BY <2>2, <4>2
        <5>2. g[i] = f[i] /\ (i # 0 => g[i - 1] = f[i - 1])
          BY <4>2, <5>1
        <5> QED
          BY <3>3, <5>1, <5>2
      <4> QED
        BY <4>1, <4>2
    <3>5. g = [i \in 0 .. k |-> g[i]]
      OBVIOUS
    <3> HIDE DEF g
    <3>6. Is(g, k)
      BY <3>4, <3>5
    <3> QED
      BY <2>2, <3>6
  <2> QED
    BY <2>3, <2>4
<1>3. \E f : Is(f, n)
  BY <1>2
<1> DEFINE h == CHOOSE f : Is(f, n)
<1>4. Is(h, n)
  BY <1>3
<1> HIDE DEF h
<1>5. \A i \in 0 .. n : h[i] = IF i = 0 THEN x ELSE D(h[i - 1], i)
  BY <1>4
<1>6. h[0] = e
  <2>1. 0 \in 0 .. n
    OBVIOUS
  <2> QED
    BY <1>5, <2>1 DEF x
<1>7. \A i \in 1 .. n : h[i] = UploadOne(h[i - 1], e.list[i])
  <2>1. \A i \in 1 .. n : i \in 0 .. n /\ i # 0
    OBVIOUS
  <2> QED
    BY <1>5, <2>1 DEF D
<1>8. Uploaded(e) = h[n]
  BY <1>1 DEF h
<1> QED
  BY <1>6, <1>7, <1>8

\* Sending the tiles of one sprite spoils no other with tiles of the region.
LEMMA UploadTurn ==
  ASSUME NEW e, NEW G, NEW L, Kept(e, G, L), NEW s \in L
  PROVE  Kept(UploadOne(e, s), G, L) /\ UploadOne(e, s).list = e.list
<1> DEFINE f == UploadOne(e, s)
           y == e.spr[s]
           x == [y EXCEPT !.upload = FALSE]
           right2 == {s} \cup {t \in e.right : Cells(e, t) \cap Cells(e, s) = {}}
<1>1. /\ e \in Engines /\ G \in SUBSET Slots /\ L \in SUBSET Slots /\ G \subseteq L
      /\ e.spr \in [Slots -> Sprites] /\ e.right \in SUBSET Slots
      /\ SpritesOf(e, G) /\ Sound(e.region, OwnedBlocks(e.spr, G))
      /\ SPR_getUsedVDPSprite(e) = Needs(e.spr, G)
      /\ Once(e.list, L) /\ Once(e.stack, Slots \ L)
      /\ \A t \in Slots \ G : e.spr[t] = NoSprite
  BY KeptFacts
<1>2. CASE ~y.alloc \/ ~y.upload
  BY <1>2 DEF UploadOne
<1>3. CASE y.alloc /\ y.upload
  <2>1. s \in G /\ s \in Slots
    BY <1>1, <1>3, NoSpriteFacts
  <2>2. f = [e EXCEPT !.spr = [@ EXCEPT ![s] = x], !.right = right2]
    BY <1>3 DEF UploadOne
  <2>3. y \in Sprites /\ y = [alloc |-> y.alloc, auto |-> y.auto, def |-> y.def, at |-> y.at,
                              upload |-> y.upload]
    BY <1>1, <2>1, SpriteFacts
  <2> HIDE DEF y
  <2>4. x = [alloc |-> y.alloc, auto |-> y.auto, def |-> y.def, at |-> y.at, upload |-> FALSE]
    <3>1. x = [y EXCEPT !.upload = FALSE]
      OBVIOUS
    <3> HIDE DEF x
    <3> QED
      BY <2>3, <3>1
  <2> HIDE DEF x
  <2>5. /\ x \in Sprites /\ x.alloc = y.alloc /\ x.auto = y.auto /\ x.def = y.def /\ x.at = y.at
    BY <2>3, <2>4 DEF Sprites
  <2> DEFINE spr2 == [e.spr EXCEPT ![s] = x]
  <2>6. right2 \in SUBSET Slots /\ s \in right2
    BY <1>1, <2>1
  <2>7. spr2 \in [Slots -> Sprites] /\ spr2[s] = x /\ \A t \in Slots : t # s => spr2[t] = e.spr[t]
    BY <1>1, <2>1, <2>5
  <2>15. \A t \in G : t \in e.right /\ e.spr[t].auto /\ t # s => t \in right2
    <3> SUFFICES ASSUME NEW t \in G, t \in e.right, e.spr[t].auto, t # s
                 PROVE  Cells(e, t) \cap Cells(e, s) = {}
      OBVIOUS
    <3>1. Cells(e, t) = Place(e.spr, t) /\ Cells(e, s) = Place(e.spr, s)
      BY DEF Cells, Place
    <3>2. CASE y.auto
      BY <1>1, <2>1, <3>1, <3>2 DEF SpritesOf, y
    <3>3. CASE ~y.auto
      <4> DEFINE a == y.at
                 n == maxNumTile(y.def)
      <4>1. a \in Manual /\ y.def \in Definitions
        BY <1>1, <2>1, <3>3 DEF SpritesOf, y
      <4>2. a \in Nat /\ (a > EndIndex \/ a + n <= StartIndex) /\ n \in Nat
        BY <4>1, EngineAssumption, DefFacts
      <4>3. Place(e.spr, s) = a .. a + n - 1
        BY DEF Place, y
      <4>4. Place(e.spr, t) \subseteq StartIndex .. EndIndex
        BY OwnPlace
      <4>5. StartIndex \in Int /\ EndIndex \in Int
        BY WordFacts DEF EndIndex
      <4> HIDE DEF a, n
      <4>6. (StartIndex .. EndIndex) \cap (a .. a + n - 1) = {}
        BY <4>2, <4>5
      <4> QED
        BY <3>1, <4>3, <4>4, <4>6
    <3> QED
      BY <3>2, <3>3
  <2> HIDE DEF right2, spr2
  <2>8. f = [stack |-> e.stack, list |-> e.list, spr |-> spr2,
             usedVDPSprite |-> e.usedVDPSprite, region |-> e.region, right |-> right2]
    <3>1. e = [stack |-> e.stack, list |-> e.list, spr |-> e.spr,
               usedVDPSprite |-> e.usedVDPSprite, region |-> e.region, right |-> e.right]
      BY <1>1, EngineFacts
    <3> HIDE DEF f
    <3> QED
      BY <2>2, <3>1 DEF spr2
  <2> HIDE DEF f
  <2>9. f \in Engines
    BY <1>1, <2>6, <2>7, <2>8, EngineFacts DEF Engines
  <2>10. \A t \in Slots : /\ spr2[t].alloc = e.spr[t].alloc /\ spr2[t].auto = e.spr[t].auto
                          /\ spr2[t].def = e.spr[t].def /\ spr2[t].at = e.spr[t].at
    BY <2>5, <2>7 DEF y
  <2>11. \A t \in G : Place(spr2, t) = Place(e.spr, t)
    BY <1>1, <2>10 DEF Place
  <2>12. \A t \in G : spr2[t].auto => t \in right2 \/ spr2[t].upload
    <3> SUFFICES ASSUME NEW t \in G, spr2[t].auto PROVE t \in right2 \/ spr2[t].upload
      OBVIOUS
    <3>1. CASE t = s
      BY <2>6, <3>1
    <3>2. CASE t # s
      <4>1. e.spr[t].auto /\ (t \in e.right \/ e.spr[t].upload) /\ spr2[t] = e.spr[t]
        BY <1>1, <2>7, <3>2 DEF SpritesOf
      <4> QED
        BY <2>15, <3>2, <4>1
    <3> QED
      BY <3>1, <3>2
  <2>13. SpritesOf(f, G)
    <3>1. \A t, u \in G : spr2[t].auto /\ spr2[u].auto /\ t # u
                            => Place(spr2, t) \cap Place(spr2, u) = {}
      BY <1>1, <2>10, <2>11 DEF SpritesOf
    <3>2. \A t \in G : /\ spr2[t].alloc /\ spr2[t].def \in Definitions
                       /\ ~spr2[t].auto => spr2[t].at \in Manual
      BY <1>1, <2>10 DEF SpritesOf
    <3>3. f.spr = spr2 /\ f.right = right2
      BY <2>8
    <3> QED
      BY <2>12, <3>1, <3>2, <3>3 DEF SpritesOf
  <2>14. OwnedBlocks(spr2, G) = OwnedBlocks(e.spr, G)
    BY <1>1, <2>10 DEF OwnedBlocks
  <2>16. Needs(spr2, G) = Needs(e.spr, G)
    <3> DEFINE spr1 == e.spr
    <3>1. \A t \in G : spr2[t].def = spr1[t].def
      BY <1>1, <2>10
    <3> HIDE DEF spr1
    <3>2. Needs(spr2, G) = Needs(spr1, G)
      BY <3>1, NeedsSame
    <3> QED
      BY <3>2 DEF spr1
  <2>17. \A t \in Slots \ G : spr2[t] = NoSprite
    BY <1>1, <2>1, <2>7
  <2>18. /\ f.stack = e.stack /\ f.list = e.list /\ f.spr = spr2 /\ f.region = e.region
         /\ f.usedVDPSprite = e.usedVDPSprite
    BY <2>8
  <2>19. SPR_getUsedVDPSprite(f) = Needs(f.spr, G)
    BY <1>1, <2>16, <2>18 DEF SPR_getUsedVDPSprite
  <2>20. Kept(f, G, L)
    BY <1>1, <2>9, <2>13, <2>14, <2>17, <2>18, <2>19 DEF Kept
  <2> QED
    BY <2>18, <2>20 DEF f
<1>4. y.alloc \in BOOLEAN /\ y.upload \in BOOLEAN
  BY <1>1, SpriteFacts
<1> QED
  BY <1>2, <1>3, <1>4

LEMMA UploadKeeps ==
  ASSUME NEW e, NEW G, NEW L, Kept(e, G, L)
  PROVE  Kept(Uploaded(e), G, L)
<1> DEFINE q == e.list
           n == Len(q)
<1>1. Once(q, L)
  BY KeptFacts
<1>2. n \in Nat /\ \A i \in 1 .. n : q[i] \in L
  BY <1>1, OnceFacts
<1>3. PICK h : /\ h[0] = e
               /\ \A i \in 1 .. n : h[i] = UploadOne(h[i - 1], q[i])
               /\ Uploaded(e) = h[n]
  BY <1>2, UploadSteps
<1> HIDE DEF q, n
<1> DEFINE Bad == {i \in 0 .. n : ~Kept(h[i], G, L)}
<1>4. Bad = {}
  <2> SUFFICES ASSUME Bad # {} PROVE FALSE
    OBVIOUS
  <2>1. PICK k \in Bad : \A i \in Bad : k <= i
    <3>1. Bad \subseteq Nat
      BY <1>2
    <3> QED
      BY <3>1, NatMin
  <2>2. k \in 0 .. n /\ ~Kept(h[k], G, L)
    OBVIOUS
  <2>3. CASE k = 0
    BY <1>3, <2>2, <2>3
  <2>4. CASE k # 0
    <3>1. k \in 1 .. n /\ k - 1 \in 0 .. n /\ k - 1 < k
      BY <1>2, <2>2, <2>4
    <3>2. k - 1 \notin Bad
      <4> HIDE DEF Bad
      <4> QED
        BY <2>1, <2>2, <3>1
    <3>3. Kept(h[k - 1], G, L) /\ q[k] \in L
      BY <1>2, <3>1, <3>2
    <3>4. Kept(UploadOne(h[k - 1], q[k]), G, L)
      BY <3>3, UploadTurn
    <3> QED
      BY <1>3, <2>2, <3>1, <3>4
  <2> QED
    BY <2>3, <2>4
<1>5. n \in 0 .. n
  BY <1>2
<1> QED
  BY <1>3, <1>4, <1>5

-----------------------------------------------------------------------------
(* The other calls *)

\* The region without the tiles of s.
LEMMA LessRegion ==
  ASSUME NEW e, NEW G, NEW L, Kept(e, G, L), NEW s \in G
  PROVE  /\ e.spr[s].auto => /\ Sound(Freed(e.region, e.spr[s].at), OwnedBlocks(e.spr, G \ {s}))
                             /\ Freed(e.region, e.spr[s].at)
                                  \in [vram : [Words -> u16], free : Words]
         /\ ~e.spr[s].auto => Sound(e.region, OwnedBlocks(e.spr, G \ {s}))
         /\ SpritesOf(e, G \ {s}) /\ e.spr[s].def \in Definitions /\ e.spr[s].alloc
         /\ ~e.spr[s].auto => e.spr[s].at \in Manual
         /\ Needs(e.spr, G) = Needs(e.spr, G \ {s}) + maxNumSprite(e.spr[s].def)
         /\ Needs(e.spr, G \ {s}) \in Nat
<1>1. /\ e \in Engines /\ G \in SUBSET Slots /\ SpritesOf(e, G)
      /\ Sound(e.region, OwnedBlocks(e.spr, G))
  BY KeptFacts
<1>2. ASSUME e.spr[s].auto
      PROVE  /\ Sound(Freed(e.region, e.spr[s].at), OwnedBlocks(e.spr, G \ {s}))
             /\ Freed(e.region, e.spr[s].at) \in [vram : [Words -> u16], free : Words]
  <2>1. e.spr[s].at \in Nat
    BY <1>2, OwnPlace, WordFacts
  <2>2. Sound(Freed(e.region, e.spr[s].at), {b \in OwnedBlocks(e.spr, G) : b.at # e.spr[s].at})
    BY <1>1, <2>1, FreedSound
  <2>3. {b \in OwnedBlocks(e.spr, G) : b.at # e.spr[s].at} = OwnedBlocks(e.spr, G \ {s})
    BY <1>1, <1>2, BlocksLess
  <2>4. Sound(Freed(e.region, e.spr[s].at), OwnedBlocks(e.spr, G \ {s}))
    BY <2>2, <2>3
  <2> QED
    BY <2>4 DEF Sound
<1>3. ASSUME ~e.spr[s].auto
      PROVE  Sound(e.region, OwnedBlocks(e.spr, G \ {s}))
  <2>1. OwnedBlocks(e.spr, G \ {s}) = OwnedBlocks(e.spr, G)
    BY <1>3 DEF OwnedBlocks
  <2> QED
    BY <1>1, <2>1
<1>4. SpritesOf(e, G \ {s})
  BY <1>1 DEF SpritesOf
<1>5. e.spr[s].def \in Definitions /\ e.spr[s].alloc /\ (~e.spr[s].auto => e.spr[s].at \in Manual)
  BY <1>1 DEF SpritesOf
<1>6. Needs(e.spr, G) = Needs(e.spr, G \ {s}) + maxNumSprite(e.spr[s].def)
  BY <1>1, <1>5, NeedsLess
<1>7. Needs(e.spr, G \ {s}) \in Nat
  BY NeedsBound
<1> QED
  BY <1>2, <1>3, <1>4, <1>5, <1>6, <1>7

\* SPR_releaseSprite, of a sprite in use or not.
LEMMA ReleaseKeeps ==
  ASSUME NEW e, NEW G, Kept(e, G, G), NEW s \in Slots
  PROVE  Kept(SpriteReleased(e, s), G \ {s}, G \ {s})
<1>1. /\ e \in Engines /\ G \in SUBSET Slots /\ e.spr \in [Slots -> Sprites]
      /\ SpritesOf(e, G) /\ SPR_getUsedVDPSprite(e) = Needs(e.spr, G)
      /\ Once(e.list, G) /\ Once(e.stack, Slots \ G)
      /\ \A t \in Slots \ G : e.spr[t] = NoSprite
      /\ Sound(e.region, OwnedBlocks(e.spr, G))
  BY KeptFacts
<1>2. CASE s \notin G
  <2>1. ~e.spr[s].alloc
    BY <1>1, <1>2, NoSpriteFacts
  <2>2. SpriteReleased(e, s) = e
    BY <2>1 DEF SpriteReleased, releaseSprite
  <2>3. G \ {s} = G
    BY <1>2
  <2> QED
    BY <2>2, <2>3
<1>3. CASE s \in G
  <2> DEFINE f == releaseSprite(e, s)
             n == maxNumSprite(e.spr[s].def)
             R == G \ {s}
             rg == IF e.spr[s].auto THEN Freed(e.region, e.spr[s].at) ELSE e.region
             g == WithRegion(f, rg)
  <2>1. /\ SpritesOf(e, R) /\ e.spr[s].def \in Definitions /\ e.spr[s].alloc
        /\ Needs(e.spr, G) = Needs(e.spr, R) + n /\ Needs(e.spr, R) \in Nat
    BY <1>3, LessRegion
  <2>2. Sound(rg, OwnedBlocks(e.spr, R))
    BY <1>3, LessRegion
  <2>3. n \in Nat
    BY <2>1, DefFacts
  <2>4. SPR_getUsedVDPSprite(e) - n = Needs(e.spr, R)
    <3> DEFINE c == Needs(e.spr, R)
    <3>1. c \in Nat /\ SPR_getUsedVDPSprite(e) = c + n
      BY <1>1, <2>1
    <3> HIDE DEF c
    <3>2. SPR_getUsedVDPSprite(e) - n = c
      BY <2>3, <3>1
    <3> QED
      BY <3>2 DEF c
  <2>5. Once(RemoveFirst(e.list, s), R)
    BY <1>1, <1>3, RemoveOnce
  <2>6. Once(Append(e.stack, s), (Slots \ G) \cup {s}) /\ (Slots \ G) \cup {s} = Slots \ R
    BY <1>1, <1>3, AppendOnce
  <2>7. /\ f \in Engines /\ f.stack = Append(e.stack, s) /\ f.list = RemoveFirst(e.list, s)
        /\ f.spr = [e.spr EXCEPT ![s] = NoSprite] /\ f.right = e.right \ {s}
        /\ f.region = e.region /\ f.usedVDPSprite = e.usedVDPSprite - n
        /\ SPR_getUsedVDPSprite(f) = SPR_getUsedVDPSprite(e) - n
    <3>1. RemoveFirst(e.list, s) \in Seq(Slots)
      BY <2>5 DEF Once
    <3>2. SPR_getUsedVDPSprite(e) - n \in Nat
      BY <2>1, <2>4
    <3> QED
      BY <1>1, <2>1, <3>1, <3>2, ReleasedIs
  <2>8. SpriteReleased(e, s) = g
    <3>1. CASE e.spr[s].auto
      BY <2>1, <2>7, <3>1 DEF SpriteReleased, WithRegion
    <3>2. CASE ~e.spr[s].auto
      <4>1. SpriteReleased(e, s) = f /\ rg = f.region
        BY <2>7, <3>2 DEF SpriteReleased
      <4> HIDE DEF f, rg
      <4>2. f = [f EXCEPT !.region = f.region]
        BY <2>7 DEF Engines
      <4> QED
        BY <4>1, <4>2 DEF WithRegion, f
    <3> QED
      BY <3>1, <3>2
  <2> HIDE DEF f, n, rg
  <2>9. rg \in [vram : [Words -> u16], free : Words]
    BY <2>2 DEF Sound
  <2>10. /\ g \in Engines /\ g.region = rg /\ g.spr = f.spr /\ g.right = f.right
         /\ g.stack = f.stack /\ g.list = f.list
         /\ SPR_getUsedVDPSprite(g) = SPR_getUsedVDPSprite(f)
    BY <2>7, <2>9, WithRegionIs
  <2> HIDE DEF g
  <2>11. g.spr[s] = NoSprite /\ \A t \in Slots : t # s => g.spr[t] = e.spr[t]
    BY <1>1, <2>7, <2>10
  <2>12. SpritesOf(g, R)
    <3>1. /\ \A t \in R : g.spr[t] = e.spr[t]
          /\ \A t \in R : t \in e.right => t \in g.right
      BY <1>1, <2>7, <2>10, <2>11
    <3>2. R \in SUBSET R /\ R \in SUBSET Slots /\ e \in Engines /\ g \in Engines
      BY <1>1, <2>10
    <3> QED
      BY <2>1, <3>1, <3>2, Fewer
  <2>13. OwnedBlocks(g.spr, R) = OwnedBlocks(e.spr, R)
    <3>1. \A t \in R : g.spr[t] = e.spr[t]
      BY <1>1, <2>11
    <3> HIDE DEF R
    <3> QED
      BY <3>1 DEF OwnedBlocks
  <2>14. Needs(g.spr, R) = Needs(e.spr, R)
    <3> DEFINE spr1 == e.spr
               spr2 == g.spr
    <3>1. \A t \in R : spr2[t].def = spr1[t].def
      BY <1>1, <2>11
    <3> HIDE DEF spr1, spr2, R
    <3>2. Needs(spr2, R) = Needs(spr1, R)
      BY <3>1, NeedsSame
    <3> QED
      BY <3>2 DEF spr1, spr2
  <2>15. \A t \in Slots \ R : g.spr[t] = NoSprite
    BY <1>1, <2>11
  <2>16. SPR_getUsedVDPSprite(g) = Needs(g.spr, R)
    BY <2>4, <2>7, <2>10, <2>14
  <2>17. Once(g.list, R) /\ Once(g.stack, Slots \ R)
    BY <2>5, <2>6, <2>7, <2>10
  <2>18. R \subseteq Slots
    BY <1>1
  <2> HIDE DEF R
  <2>19. Kept(g, R, R)
    BY <2>2, <2>10, <2>12, <2>13, <2>15, <2>16, <2>17, <2>18 DEF Kept
  <2> QED
    BY <2>8, <2>19 DEF R
<1> QED
  BY <1>2, <1>3

\* A sprite that changes is one that goes and one that joins.
LEMMA Replaced ==
  ASSUME NEW e, NEW G, NEW L, Kept(e, G, L), NEW s \in G,
         NEW p \in Engines, p.stack = e.stack, p.list = e.list,
         \A t \in Slots : t # s => p.spr[t] = e.spr[t],
         SpritesOf(p, (G \ {s}) \cup {s}),
         Sound(p.region, OwnedBlocks(p.spr, (G \ {s}) \cup {s})),
         SPR_getUsedVDPSprite(p) = Needs(p.spr, (G \ {s}) \cup {s})
  PROVE  Kept(p, G, L)
<1>1. (G \ {s}) \cup {s} = G
  OBVIOUS
<1>2. \A t \in Slots \ G : e.spr[t] = NoSprite
  BY KeptFacts
<1>3. \A t \in Slots \ G : p.spr[t] = NoSprite
  BY <1>2
<1> QED
  BY <1>1, <1>3, KeptFacts DEF Kept

\* The counter when s gets the definition d.
LEMMA DefinitionCounts ==
  ASSUME NEW e, NEW G, NEW L, Kept(e, G, L), NEW s \in G, NEW d \in Definitions
  PROVE  LET f == Counted(e, maxNumSprite(d) - maxNumSprite(e.spr[s].def))
         IN /\ f \in Engines /\ f.stack = e.stack /\ f.list = e.list /\ f.spr = e.spr
            /\ f.region = e.region /\ f.right = e.right
            /\ SPR_getUsedVDPSprite(f) = Needs(e.spr, G \ {s}) + maxNumSprite(d)
            /\ SPR_getUsedVDPSprite(f) <= MaxSprite * MaxNeed
<1> DEFINE n == maxNumSprite(d)
           o == maxNumSprite(e.spr[s].def)
           c == Needs(e.spr, G \ {s})
           f == Counted(e, n - o)
           R == G \ {s}
           M == CHECK_VDP_SPRITE
           B == MaxSprite * MaxNeed
           spr2 == [e.spr EXCEPT ![s] = NewSprite(d, TRUE, 0)]
<1>1. /\ e \in Engines /\ G \in SUBSET Slots /\ SPR_getUsedVDPSprite(e) = Needs(e.spr, G)
      /\ e.spr \in [Slots -> Sprites]
  BY KeptFacts
<1>2. e.spr[s].def \in Definitions /\ Needs(e.spr, G) = c + o /\ c \in Nat
  BY LessRegion
<1>3. n \in Nat /\ o \in Nat
  BY <1>2, DefFacts
<1>4. spr2[s].def = d /\ \A t \in R : spr2[t].def = e.spr[t].def
  BY <1>1 DEF NewSprite
<1>5. M \in Nat /\ B \in Nat /\ B < M
  BY CheckFacts
<1>6. c + n <= B
  <2> DEFINE spr1 == e.spr
  <2>1. \A t \in R : spr2[t].def = spr1[t].def
    BY <1>4
  <2> HIDE DEF spr1, spr2, R
  <2>2. Needs(spr2, R) = Needs(spr1, R)
    BY <2>1, NeedsSame
  <2>3. s \in Slots /\ s \notin R /\ R \in SUBSET Slots /\ spr2[s].def \in Definitions
    BY <1>1, <1>4 DEF R
  <2>4. Needs(spr2, R \cup {s}) = Needs(spr2, R) + maxNumSprite(spr2[s].def)
    BY <2>3, NeedsOne
  <2>5. Needs(spr2, R \cup {s}) <= MaxSprite * MaxNeed
    BY NeedsBound
  <2> QED
    BY <1>4, <2>2, <2>4, <2>5 DEF spr1, R
<1> HIDE DEF n, o, c, M, B
<1>7. SPR_getUsedVDPSprite(e) + (n - o) = c + n
  BY <1>1, <1>2, <1>3
<1>8. n - o \in Int /\ c + n \in 0 .. M - 1
  BY <1>2, <1>3, <1>5, <1>6
<1>9. /\ f = [e EXCEPT !.usedVDPSprite = @ + (n - o)] /\ f \in Engines
      /\ SPR_getUsedVDPSprite(f) = SPR_getUsedVDPSprite(e) + (n - o)
  BY <1>1, <1>7, <1>8, CountedIs DEF M
<1> HIDE DEF f
<1>10. /\ f.stack = e.stack /\ f.list = e.list /\ f.spr = e.spr
       /\ f.region = e.region /\ f.right = e.right
  BY <1>1, <1>9, EngineFacts
<1> QED
  BY <1>6, <1>7, <1>9, <1>10 DEF f, n, o, c, B

\* SPR_setDefinition without new tiles.
LEMMA DefinitionKeepsTiles ==
  ASSUME NEW e, NEW G, NEW L, Kept(e, G, L), NEW s \in G, NEW d \in Definitions,
         e.spr[s].def # d, ~DefinitionReallocates(e, s, d)
  PROVE  LET f == Counted(e, maxNumSprite(d) - maxNumSprite(e.spr[s].def))
         IN Kept(Placed(f, s, d, e.spr[s].at), G, L)
<1> DEFINE f == Counted(e, maxNumSprite(d) - maxNumSprite(e.spr[s].def))
           ind == e.spr[s].at
           p == Placed(f, s, d, ind)
           y == p.spr[s]
           R == G \ {s}
<1>1. /\ e \in Engines /\ G \in SUBSET Slots /\ L \in SUBSET Slots /\ s \in Slots
      /\ R \in SUBSET Slots /\ s \notin R
      /\ e.spr \in [Slots -> Sprites] /\ SpritesOf(e, G)
      /\ Sound(e.region, OwnedBlocks(e.spr, G))
  BY KeptFacts
<1>2. /\ f \in Engines /\ f.stack = e.stack /\ f.list = e.list /\ f.spr = e.spr
      /\ f.region = e.region /\ f.right = e.right
      /\ SPR_getUsedVDPSprite(f) = Needs(e.spr, R) + maxNumSprite(d)
      /\ SPR_getUsedVDPSprite(f) <= MaxSprite * MaxNeed
  BY DefinitionCounts
<1>3. ind \in Int
  BY <1>1, SpriteFacts
<1>4. /\ ~e.spr[s].auto => Sound(e.region, OwnedBlocks(e.spr, R))
      /\ SpritesOf(e, R) /\ e.spr[s].alloc /\ (~e.spr[s].auto => ind \in Manual)
      /\ e.spr[s].auto \in BOOLEAN
  BY <1>1, LessRegion, SpriteFacts
<1> HIDE DEF f, ind
<1>5. /\ p \in Engines /\ p.stack = f.stack /\ p.list = f.list
      /\ p.usedVDPSprite = f.usedVDPSprite /\ p.region = f.region
      /\ p.spr = [f.spr EXCEPT ![s] = y] /\ y \in Sprites
      /\ y.alloc = f.spr[s].alloc /\ y.auto = f.spr[s].auto /\ y.def = d /\ y.at = ind
      /\ f.right \ {s} \subseteq p.right
      /\ y.upload \/ (y = f.spr[s] /\ p.right = f.right)
  BY <1>1, <1>2, <1>3, PlacedIs
<1> HIDE DEF p
<1>6. \A t \in Slots : t # s => p.spr[t] = e.spr[t]
  BY <1>2, <1>5, EngineFacts
<1>7. /\ p.spr[s].alloc /\ p.spr[s].def = d /\ p.spr[s].at = ind /\ p.spr[s].upload
      /\ p.spr[s].auto = e.spr[s].auto
  BY <1>2, <1>4, <1>5
<1>8. \A t \in R : p.spr[t] = e.spr[t]
  BY <1>1, <1>6
<1>9. e.right \ {s} \subseteq p.right /\ p.region = e.region
  BY <1>2, <1>5
<1>10. /\ SpritesOf(p, R \cup {s})
       /\ Needs(p.spr, R \cup {s}) = Needs(e.spr, R) + maxNumSprite(p.spr[s].def)
       /\ Sound(p.region, OwnedBlocks(p.spr, R \cup {s}))
  <2>1. CASE ~e.spr[s].auto
    <3>1. /\ p.spr[s].alloc /\ p.spr[s].def \in Definitions /\ ~p.spr[s].auto
          /\ p.spr[s].at \in Manual
      BY <1>4, <1>7, <2>1
    <3>2. /\ SpritesOf(p, R \cup {s})
          /\ Needs(p.spr, R \cup {s}) = Needs(e.spr, R) + maxNumSprite(p.spr[s].def)
          /\ OwnedBlocks(p.spr, R \cup {s}) = OwnedBlocks(e.spr, R)
      <4> HIDE DEF R
      <4>1. e \in Engines /\ p \in Engines /\ SpritesOf(e, R)
        BY <1>1, <1>4, <1>5
      <4> QED
        BY <1>1, <1>8, <1>9, <3>1, <4>1, PutManual
    <3> QED
      BY <1>4, <1>9, <2>1, <3>2
  <2>2. CASE e.spr[s].auto
    <3> DEFINE x == p.spr[s]
    <3>0. x.alloc /\ x.auto /\ x.def = d /\ x.at = ind /\ x.upload /\ p.spr[s] = x
      BY <1>7, <2>2
    <3>1. maxNumTile(e.spr[s].def) = maxNumTile(d)
      BY <2>2 DEF DefinitionReallocates
    <3>2. \A b \in OwnedBlocks(e.spr, R) : A!Cells(b) \cap Place(e.spr, s) = {}
      <4> SUFFICES ASSUME NEW t \in R, e.spr[t].auto
                   PROVE  A!Cells([at |-> e.spr[t].at, len |-> maxNumTile(e.spr[t].def)])
                            \cap Place(e.spr, s) = {}
        BY DEF OwnedBlocks
      <4>1. Place(e.spr, t) \cap Place(e.spr, s) = {}
        BY <1>1, <2>2 DEF SpritesOf
      <4> QED
        BY <4>1, BlockPlace
    <3>3. Place(e.spr, s) = x.at .. x.at + maxNumTile(x.def) - 1
      BY <3>0, <3>1 DEF Place, ind
    <3> HIDE DEF x
    <3>4. /\ ~x.auto => x.at \in Manual
          /\ x.auto => s \in p.right \/ x.upload
          /\ x.auto => \A b \in OwnedBlocks(e.spr, R) :
                         A!Cells(b) \cap (x.at .. x.at + maxNumTile(x.def) - 1) = {}
          /\ x.def \in Definitions
      BY <3>0, <3>2, <3>3
    <3>5. /\ SpritesOf(p, R \cup {s})
          /\ Needs(p.spr, R \cup {s}) = Needs(e.spr, R) + maxNumSprite(x.def)
      <4> HIDE DEF R
      <4>1. e \in Engines /\ p \in Engines /\ SpritesOf(e, R)
        BY <1>1, <1>4, <1>5
      <4> QED
        BY <1>1, <1>8, <1>9, <3>0, <3>4, <4>1, Put
    <3>6. OwnedBlocks(p.spr, R \cup {s}) = OwnedBlocks(e.spr, G)
      <4>1. \A t \in G : /\ p.spr[t].auto = e.spr[t].auto
                         /\ p.spr[t].at = e.spr[t].at
                         /\ maxNumTile(p.spr[t].def) = maxNumTile(e.spr[t].def)
        BY <1>7, <1>8, <3>1 DEF ind
      <4>2. R \cup {s} = G
        OBVIOUS
      <4> HIDE DEF R
      <4> QED
        BY <4>1, <4>2 DEF OwnedBlocks
    <3> QED
      BY <1>1, <1>9, <3>0, <3>5, <3>6
  <2> QED
    BY <1>4, <2>1, <2>2
<1>11. SPR_getUsedVDPSprite(p) = Needs(p.spr, R \cup {s})
  <2>1. SPR_getUsedVDPSprite(p) = SPR_getUsedVDPSprite(f)
    BY <1>5 DEF SPR_getUsedVDPSprite
  <2> QED
    BY <1>2, <1>7, <1>10, <2>1
<1>12. Kept(p, G, L)
  BY <1>2, <1>5, <1>6, <1>10, <1>11, Replaced
<1> QED
  BY <1>12 DEF p, f, ind

\* SPR_setDefinition with new tiles: the old ones are given back first.
LEMMA DefinitionMoves ==
  ASSUME NEW e, NEW G, NEW L, Kept(e, G, L), NEW s \in G, NEW d \in Definitions,
         e.spr[s].def # d, e.spr[s].auto
  PROVE  LET f == Counted(e, maxNumSprite(d) - maxNumSprite(e.spr[s].def))
             freed == Freed(e.region, e.spr[s].at)
             ind == AllocIndex(freed, maxNumTile(d))
             g == WithRegion(f, AllocRegion(freed, maxNumTile(d)))
         IN /\ g \in Engines /\ SPR_getUsedVDPSprite(g) <= MaxSprite * MaxNeed
            /\ ind # NoTiles => Kept(Placed(g, s, d, ind), G, L)
<1> DEFINE f == Counted(e, maxNumSprite(d) - maxNumSprite(e.spr[s].def))
           freed == Freed(e.region, e.spr[s].at)
           m == maxNumTile(d)
           ind == AllocIndex(freed, m)
           rg == AllocRegion(freed, m)
           g == WithRegion(f, rg)
           p == Placed(g, s, d, ind)
           y == p.spr[s]
           R == G \ {s}
<1>1. /\ e \in Engines /\ G \in SUBSET Slots /\ L \in SUBSET Slots /\ s \in Slots
      /\ R \in SUBSET Slots /\ s \notin R
      /\ e.spr \in [Slots -> Sprites]
  BY KeptFacts
<1>2. /\ f \in Engines /\ f.stack = e.stack /\ f.list = e.list /\ f.spr = e.spr
      /\ f.region = e.region /\ f.right = e.right
      /\ SPR_getUsedVDPSprite(f) = Needs(e.spr, R) + maxNumSprite(d)
      /\ SPR_getUsedVDPSprite(f) <= MaxSprite * MaxNeed
  BY DefinitionCounts
<1>3. Sound(freed, OwnedBlocks(e.spr, R)) /\ SpritesOf(e, R) /\ e.spr[s].alloc
  BY LessRegion
<1>4. m \in Nat /\ m > 0
  BY DefFacts
<1> HIDE DEF f, freed, m
<1>5. rg \in [vram : [Words -> u16], free : Words] /\ (ind # NoTiles => ind \in Int)
  <2>1. CASE ind = NoTiles
    <3>1. Sound(rg, OwnedBlocks(e.spr, R))
      BY <1>3, <1>4, <2>1, AllocFailsSound
    <3> QED
      BY <2>1, <3>1 DEF Sound
  <2>2. CASE ind # NoTiles
    <3>1. /\ Sound(rg, OwnedBlocks(e.spr, R) \cup {[at |-> ind, len |-> m]})
          /\ ind \in StartIndex .. EndIndex
      BY <1>3, <1>4, <2>2, AllocSound
    <3>2. StartIndex \in Nat
      BY WordFacts
    <3> QED
      BY <3>1, <3>2 DEF Sound
  <2> QED
    BY <2>1, <2>2
<1> HIDE DEF rg, ind
<1>6. /\ g \in Engines /\ g.region = rg /\ g.spr = f.spr /\ g.right = f.right
      /\ g.stack = f.stack /\ g.list = f.list /\ g.usedVDPSprite = f.usedVDPSprite
      /\ SPR_getUsedVDPSprite(g) = SPR_getUsedVDPSprite(f)
  BY <1>2, <1>5, WithRegionIs
<1> HIDE DEF g
<1>7. ASSUME ind # NoTiles PROVE Kept(p, G, L)
  <2>1. /\ p \in Engines /\ p.stack = g.stack /\ p.list = g.list
        /\ p.usedVDPSprite = g.usedVDPSprite /\ p.region = g.region
        /\ p.spr = [g.spr EXCEPT ![s] = y] /\ y \in Sprites
        /\ y.alloc = g.spr[s].alloc /\ y.auto = g.spr[s].auto /\ y.def = d /\ y.at = ind
        /\ g.right \ {s} \subseteq p.right
        /\ y.upload \/ (y = g.spr[s] /\ p.right = g.right)
    BY <1>1, <1>5, <1>6, <1>7, PlacedIs
  <2> HIDE DEF p
  <2>2. \A t \in Slots : t # s => p.spr[t] = e.spr[t]
    BY <1>2, <1>6, <2>1, EngineFacts
  <2>3. /\ p.spr[s].alloc /\ p.spr[s].def = d /\ p.spr[s].at = ind /\ p.spr[s].upload
        /\ p.spr[s].auto
    BY <1>2, <1>3, <1>6, <2>1
  <2>4. \A t \in R : p.spr[t] = e.spr[t]
    BY <1>1, <2>2
  <2>5. e.right \ {s} \subseteq p.right
    BY <1>2, <1>6, <2>1
  <2>6. /\ AllocIndex(freed, maxNumTile(p.spr[s].def)) # NoTiles
        /\ p.spr[s].at = AllocIndex(freed, maxNumTile(p.spr[s].def))
        /\ p.region = AllocRegion(freed, maxNumTile(p.spr[s].def))
        /\ p.spr[s].def \in Definitions
    BY <1>6, <1>7, <2>1, <2>3 DEF ind, rg, m
  <2>7. /\ SpritesOf(p, R \cup {s})
        /\ Needs(p.spr, R \cup {s}) = Needs(e.spr, R) + maxNumSprite(p.spr[s].def)
        /\ Sound(p.region, OwnedBlocks(p.spr, R \cup {s}))
    <3> HIDE DEF R
    <3>1. e \in Engines /\ p \in Engines /\ SpritesOf(e, R) /\ Sound(freed, OwnedBlocks(e.spr, R))
      BY <1>1, <1>3, <2>1
    <3> QED
      BY <1>1, <2>3, <2>4, <2>5, <2>6, <3>1, PutAuto
  <2>8. SPR_getUsedVDPSprite(p) = Needs(p.spr, R \cup {s})
    <3>1. SPR_getUsedVDPSprite(p) = SPR_getUsedVDPSprite(g)
      BY <2>1 DEF SPR_getUsedVDPSprite
    <3> QED
      BY <1>2, <1>6, <2>3, <2>7, <3>1
  <2>9. p.stack = e.stack /\ p.list = e.list /\ p \in Engines
    BY <1>2, <1>6, <2>1
  <2> QED
    BY <2>2, <2>7, <2>8, <2>9, Replaced
<1> QED
  BY <1>2, <1>6, <1>7 DEF p, g, f, ind, rg, freed, m

\* SPR_setDefinition, whatever comes of it.
LEMMA DefinitionKeeps ==
  ASSUME NEW e, NEW G, NEW L, Kept(e, G, L), NEW s \in G, NEW d \in Definitions
  PROVE  LET r == DefinitionSet(e, s, d)
         IN /\ r.eng \in Engines /\ SPR_getUsedVDPSprite(r.eng) <= MaxSprite * MaxNeed
            /\ r.ok \/ r.eng = e => Kept(r.eng, G, L)
<1> DEFINE r == DefinitionSet(e, s, d)
           f == Counted(e, maxNumSprite(d) - maxNumSprite(e.spr[s].def))
           freed == Freed(e.region, e.spr[s].at)
           ind == AllocIndex(freed, maxNumTile(d))
           g == WithRegion(f, AllocRegion(freed, maxNumTile(d)))
           p == Placed(g, s, d, ind)
           k == Placed(f, s, d, e.spr[s].at)
           Refused == Checked(f) /\ SPR_getUsedVDPSprite(f) >= HwLimit
<1>1. r = IF e.spr[s].def = d THEN [eng |-> e, ok |-> TRUE]
          ELSE IF Refused THEN [eng |-> e, ok |-> FALSE]
          ELSE IF ~DefinitionReallocates(e, s, d) THEN [eng |-> k, ok |-> TRUE]
          ELSE IF ind = NoTiles THEN [eng |-> g, ok |-> FALSE]
          ELSE [eng |-> p, ok |-> TRUE]
  BY DEF DefinitionSet, WithRegion
<1>2. \A x : Kept(x, G, L) => x \in Engines /\ SPR_getUsedVDPSprite(x) <= MaxSprite * MaxNeed
  BY KeptFacts
<1>3. e.spr[s].def # d /\ ~DefinitionReallocates(e, s, d) => Kept(k, G, L)
  BY DefinitionKeepsTiles
<1>4. e.spr[s].def # d /\ DefinitionReallocates(e, s, d)
        => /\ g \in Engines /\ SPR_getUsedVDPSprite(g) <= MaxSprite * MaxNeed
           /\ ind # NoTiles => Kept(p, G, L)
  <2> SUFFICES ASSUME e.spr[s].def # d, DefinitionReallocates(e, s, d)
               PROVE  /\ g \in Engines /\ SPR_getUsedVDPSprite(g) <= MaxSprite * MaxNeed
                      /\ ind # NoTiles => Kept(p, G, L)
    OBVIOUS
  <2>1. e.spr[s].auto
    BY DEF DefinitionReallocates
  <2> QED
    BY <2>1, DefinitionMoves
<1> HIDE DEF f, g, p, k, ind, freed, Refused
<1>5. CASE e.spr[s].def = d \/ Refused
  <2>1. r.eng = e
    BY <1>1, <1>5
  <2> HIDE DEF r
  <2> QED
    BY <1>2, <2>1 DEF r
<1>6. CASE ~(e.spr[s].def = d \/ Refused) /\ ~DefinitionReallocates(e, s, d)
  <2>1. r.eng = k
    BY <1>1, <1>6
  <2> HIDE DEF r
  <2> QED
    BY <1>2, <1>3, <1>6, <2>1 DEF r
<1>7. CASE ~(e.spr[s].def = d \/ Refused) /\ DefinitionReallocates(e, s, d) /\ ind = NoTiles
  <2>1. r.eng = g /\ r.ok = FALSE
    BY <1>1, <1>7
  <2> HIDE DEF r
  <2> QED
    BY <1>4, <1>7, <2>1 DEF r
<1>8. CASE ~(e.spr[s].def = d \/ Refused) /\ DefinitionReallocates(e, s, d) /\ ind # NoTiles
  <2>1. r.eng = p
    BY <1>1, <1>8
  <2> HIDE DEF r
  <2> QED
    BY <1>2, <1>4, <1>8, <2>1 DEF r
<1> QED
  BY <1>5, <1>6, <1>7, <1>8

\* The flag of a sprite whose tiles the engine allocates.
WithAuto(e, s, auto) == [e EXCEPT !.spr[s].auto = auto]

LEMMA WithAutoIs ==
  ASSUME NEW e \in Engines, NEW s \in Slots, NEW auto \in BOOLEAN
  PROVE  LET g == WithAuto(e, s, auto)
         IN /\ g \in Engines /\ g.stack = e.stack /\ g.list = e.list /\ g.region = e.region
            /\ g.usedVDPSprite = e.usedVDPSprite /\ g.right = e.right
            /\ \A t \in Slots : t # s => g.spr[t] = e.spr[t]
            /\ g.spr[s].alloc = e.spr[s].alloc /\ g.spr[s].auto = auto
            /\ g.spr[s].def = e.spr[s].def /\ g.spr[s].at = e.spr[s].at
<1> DEFINE g == WithAuto(e, s, auto)
           y == e.spr[s]
           x == [y EXCEPT !.auto = auto]
           spr2 == [e.spr EXCEPT ![s] = x]
<1>1. e.spr \in [Slots -> Sprites]
  BY EngineFacts
<1>2. y \in Sprites /\ y = [alloc |-> y.alloc, auto |-> y.auto, def |-> y.def, at |-> y.at,
                            upload |-> y.upload]
  BY <1>1, SpriteFacts
<1>3. g = [e EXCEPT !.spr = spr2]
  BY DEF WithAuto
<1>4. x = [alloc |-> y.alloc, auto |-> auto, def |-> y.def, at |-> y.at, upload |-> y.upload]
  <2>1. x = [y EXCEPT !.auto = auto]
    OBVIOUS
  <2> HIDE DEF x, y
  <2> QED
    BY <1>2, <2>1
<1>5. x \in Sprites
  BY <1>2, <1>4 DEF Sprites
<1> HIDE DEF x
<1>6. spr2 \in [Slots -> Sprites] /\ spr2[s] = x /\ \A t \in Slots : t # s => spr2[t] = e.spr[t]
  BY <1>1, <1>5
<1>7. e = [stack |-> e.stack, list |-> e.list, spr |-> e.spr,
           usedVDPSprite |-> e.usedVDPSprite, region |-> e.region, right |-> e.right]
  BY EngineFacts
<1> HIDE DEF spr2, g
<1>8. g = [stack |-> e.stack, list |-> e.list, spr |-> spr2,
           usedVDPSprite |-> e.usedVDPSprite, region |-> e.region, right |-> e.right]
  BY <1>3, <1>7
<1>9. g \in Engines
  BY <1>6, <1>8, EngineFacts DEF Engines
<1>10. /\ g.stack = e.stack /\ g.list = e.list /\ g.region = e.region
       /\ g.usedVDPSprite = e.usedVDPSprite /\ g.right = e.right /\ g.spr = spr2
  BY <1>8
<1>11. x.alloc = y.alloc /\ x.auto = auto /\ x.def = y.def /\ x.at = y.at
  BY <1>4
<1> QED
  BY <1>6, <1>9, <1>10, <1>11 DEF g

LEMMA MovedIs ==
  ASSUME NEW e \in Engines, NEW s \in Slots, NEW auto \in BOOLEAN, NEW ind \in Int,
         e.spr[s].def \in Definitions
  PROVE  LET p == Moved(e, s, auto, ind)
         IN /\ p \in Engines /\ p.stack = e.stack /\ p.list = e.list /\ p.region = e.region
            /\ p.usedVDPSprite = e.usedVDPSprite /\ e.right \ {s} \subseteq p.right
            /\ \A t \in Slots : t # s => p.spr[t] = e.spr[t]
            /\ p.spr[s].alloc = e.spr[s].alloc /\ p.spr[s].auto = auto
            /\ p.spr[s].def = e.spr[s].def /\ p.spr[s].at = ind
            /\ p.spr[s].upload \/ e.spr[s].at = ind
<1> DEFINE g == WithAuto(e, s, auto)
           d == e.spr[s].def
           p == Placed(g, s, d, ind)
           y == p.spr[s]
<1>1. p = Moved(e, s, auto, ind)
  BY DEF Moved, WithAuto
<1>2. /\ g \in Engines /\ g.stack = e.stack /\ g.list = e.list /\ g.region = e.region
      /\ g.usedVDPSprite = e.usedVDPSprite /\ g.right = e.right
      /\ \A t \in Slots : t # s => g.spr[t] = e.spr[t]
      /\ g.spr[s].alloc = e.spr[s].alloc /\ g.spr[s].auto = auto
      /\ g.spr[s].def = e.spr[s].def /\ g.spr[s].at = e.spr[s].at
  BY WithAutoIs
<1> HIDE DEF g
<1>3. /\ p \in Engines /\ p.stack = g.stack /\ p.list = g.list
      /\ p.usedVDPSprite = g.usedVDPSprite /\ p.region = g.region
      /\ p.spr = [g.spr EXCEPT ![s] = y] /\ y \in Sprites
      /\ y.alloc = g.spr[s].alloc /\ y.auto = g.spr[s].auto /\ y.def = d /\ y.at = ind
      /\ g.right \ {s} \subseteq p.right
      /\ y.upload \/ (y = g.spr[s] /\ p.right = g.right)
  BY <1>2, PlacedIs
<1> HIDE DEF p
<1>4. \A t \in Slots : t # s => p.spr[t] = e.spr[t]
  BY <1>2, <1>3, EngineFacts
<1>5. p.spr[s].upload \/ e.spr[s].at = ind
  BY <1>2, <1>3
<1>6. /\ p.spr[s].alloc = e.spr[s].alloc /\ p.spr[s].auto = auto
      /\ p.spr[s].def = e.spr[s].def /\ p.spr[s].at = ind
  BY <1>2, <1>3
<1>7. /\ p \in Engines /\ p.stack = e.stack /\ p.list = e.list /\ p.region = e.region
      /\ p.usedVDPSprite = e.usedVDPSprite /\ e.right \ {s} \subseteq p.right
  BY <1>2, <1>3
<1> QED
  BY <1>1, <1>4, <1>5, <1>6, <1>7

\* SPR_setVRAMTileIndex to tiles of the program.
LEMMA MovedOut ==
  ASSUME NEW e, NEW G, NEW L, Kept(e, G, L), NEW s \in G, NEW i \in Manual,
         NEW rg, Sound(rg, OwnedBlocks(e.spr, G \ {s}))
  PROVE  Kept(Moved(WithRegion(e, rg), s, FALSE, i), G, L)
<1> DEFINE R == G \ {s}
           g == WithRegion(e, rg)
           p == Moved(g, s, FALSE, i)
<1>1. /\ e \in Engines /\ G \in SUBSET Slots /\ L \in SUBSET Slots /\ s \in Slots
      /\ R \in SUBSET Slots /\ s \notin R /\ SPR_getUsedVDPSprite(e) = Needs(e.spr, G)
  BY KeptFacts
<1>2. /\ SpritesOf(e, R) /\ e.spr[s].def \in Definitions /\ e.spr[s].alloc
      /\ Needs(e.spr, G) = Needs(e.spr, R) + maxNumSprite(e.spr[s].def)
  BY LessRegion
<1>3. i \in Int
  BY <1>2, EngineAssumption
<1>4. /\ g \in Engines /\ g.region = rg /\ g.spr = e.spr /\ g.right = e.right
      /\ g.stack = e.stack /\ g.list = e.list
      /\ SPR_getUsedVDPSprite(g) = SPR_getUsedVDPSprite(e)
  <2>1. rg \in [vram : [Words -> u16], free : Words]
    BY DEF Sound
  <2> QED
    BY <1>1, <2>1, WithRegionIs
<1> HIDE DEF g
<1>5. /\ p \in Engines /\ p.stack = g.stack /\ p.list = g.list /\ p.region = g.region
      /\ p.usedVDPSprite = g.usedVDPSprite /\ g.right \ {s} \subseteq p.right
      /\ \A t \in Slots : t # s => p.spr[t] = g.spr[t]
      /\ p.spr[s].alloc = g.spr[s].alloc /\ p.spr[s].auto = FALSE
      /\ p.spr[s].def = g.spr[s].def /\ p.spr[s].at = i
  <2> DEFINE auto == FALSE
  <2>1. g.spr[s].def \in Definitions /\ auto \in BOOLEAN /\ auto = FALSE
    BY <1>2, <1>4
  <2>2. p = Moved(g, s, auto, i)
    OBVIOUS
  <2> HIDE DEF auto, p
  <2> QED
    BY <1>1, <1>3, <1>4, <2>1, <2>2, MovedIs
<1> HIDE DEF p
<1>6. /\ p.spr[s].alloc /\ p.spr[s].def \in Definitions /\ ~p.spr[s].auto
      /\ p.spr[s].at \in Manual /\ p.spr[s].def = e.spr[s].def
  BY <1>2, <1>4, <1>5
<1>7. /\ SpritesOf(p, R \cup {s})
      /\ Needs(p.spr, R \cup {s}) = Needs(e.spr, R) + maxNumSprite(p.spr[s].def)
      /\ OwnedBlocks(p.spr, R \cup {s}) = OwnedBlocks(e.spr, R)
  <2>1. \A t \in R : p.spr[t] = e.spr[t]
    BY <1>1, <1>4, <1>5
  <2>2. e.right \ {s} \subseteq p.right
    BY <1>4, <1>5
  <2> HIDE DEF R
  <2>3. e \in Engines /\ p \in Engines /\ SpritesOf(e, R) /\ s \in Slots /\ R \in SUBSET Slots /\ s \notin R
    BY <1>1, <1>2, <1>5
  <2>4. p.spr[s].alloc /\ p.spr[s].def \in Definitions /\ ~p.spr[s].auto /\ p.spr[s].at \in Manual
    BY <1>6
  <2> QED
    BY <2>1, <2>2, <2>3, <2>4, PutManual
<1>8. SPR_getUsedVDPSprite(p) = Needs(p.spr, R \cup {s})
  <2>1. SPR_getUsedVDPSprite(p) = SPR_getUsedVDPSprite(g)
    BY <1>5 DEF SPR_getUsedVDPSprite
  <2> QED
    BY <1>1, <1>2, <1>4, <1>6, <1>7, <2>1
<1>9. Sound(p.region, OwnedBlocks(p.spr, R \cup {s}))
  BY <1>4, <1>5, <1>7
<1>10. /\ p \in Engines /\ p.stack = e.stack /\ p.list = e.list
       /\ \A t \in Slots : t # s => p.spr[t] = e.spr[t]
  BY <1>4, <1>5
<1>11. Kept(p, G, L)
  BY <1>7, <1>8, <1>9, <1>10, Replaced
<1> QED
  BY <1>11 DEF p, g

\* SPR_setVRAMTileIndex to tiles of the region.
LEMMA MovedIn ==
  ASSUME NEW e, NEW G, NEW L, Kept(e, G, L), NEW s \in G, ~e.spr[s].auto
  PROVE  LET n == maxNumTile(e.spr[s].def)
             ind == AllocIndex(e.region, n)
             g == WithRegion(e, AllocRegion(e.region, n))
         IN /\ WithAuto(g, s, TRUE) \in Engines
            /\ SPR_getUsedVDPSprite(WithAuto(g, s, TRUE)) <= MaxSprite * MaxNeed
            /\ ind # NoTiles => Kept(Moved(g, s, TRUE, ind), G, L)
<1> DEFINE R == G \ {s}
           n == maxNumTile(e.spr[s].def)
           ind == AllocIndex(e.region, n)
           rg == AllocRegion(e.region, n)
           g == WithRegion(e, rg)
           h == WithAuto(g, s, TRUE)
           p == Moved(g, s, TRUE, ind)
<1>1. /\ e \in Engines /\ G \in SUBSET Slots /\ L \in SUBSET Slots /\ s \in Slots
      /\ R \in SUBSET Slots /\ s \notin R /\ SPR_getUsedVDPSprite(e) = Needs(e.spr, G)
      /\ Needs(e.spr, G) <= MaxSprite * MaxNeed
  BY KeptFacts
<1>2. /\ SpritesOf(e, R) /\ e.spr[s].def \in Definitions /\ e.spr[s].alloc
      /\ Needs(e.spr, G) = Needs(e.spr, R) + maxNumSprite(e.spr[s].def)
      /\ Sound(e.region, OwnedBlocks(e.spr, R)) /\ e.spr[s].at \in Manual
  BY LessRegion
<1>3. n \in Nat /\ n > 0
  BY <1>2, DefFacts
<1>4. /\ rg \in [vram : [Words -> u16], free : Words]
      /\ ind # NoTiles => ind \in Int /\ e.spr[s].at # ind
  <2> HIDE DEF n
  <2>1. CASE ind = NoTiles
    <3>1. Sound(rg, OwnedBlocks(e.spr, R))
      BY <1>2, <1>3, <2>1, AllocFailsSound
    <3> QED
      BY <2>1, <3>1 DEF Sound
  <2>2. CASE ind # NoTiles
    <3>1. /\ Sound(rg, OwnedBlocks(e.spr, R) \cup {[at |-> ind, len |-> n]})
          /\ ind \in StartIndex .. EndIndex
      BY <1>2, <1>3, <2>2, AllocSound
    <3>2. StartIndex \in Nat /\ EndIndex \in Int
      BY WordFacts DEF EndIndex
    <3>3. e.spr[s].at \in Nat /\ (e.spr[s].at > EndIndex \/ e.spr[s].at + n <= StartIndex)
      BY <1>2, EngineAssumption DEF n
    <3> HIDE DEF ind
    <3>4. ind \in Int /\ e.spr[s].at # ind
      BY <1>3, <3>1, <3>2, <3>3
    <3> QED
      BY <3>1, <3>4 DEF Sound
  <2> QED
    BY <2>1, <2>2
<1> HIDE DEF rg, ind, n
<1>5. /\ g \in Engines /\ g.region = rg /\ g.spr = e.spr /\ g.right = e.right
      /\ g.stack = e.stack /\ g.list = e.list
      /\ SPR_getUsedVDPSprite(g) = SPR_getUsedVDPSprite(e)
  BY <1>1, <1>4, WithRegionIs
<1> HIDE DEF g
<1>6. h \in Engines /\ SPR_getUsedVDPSprite(h) <= MaxSprite * MaxNeed
  <2>1. h \in Engines /\ h.usedVDPSprite = g.usedVDPSprite
    <3>1. TRUE \in BOOLEAN
      OBVIOUS
    <3> QED
      BY <1>1, <1>5, <3>1, WithAutoIs
  <2>2. SPR_getUsedVDPSprite(h) = SPR_getUsedVDPSprite(g)
    BY <2>1 DEF SPR_getUsedVDPSprite
  <2> QED
    BY <1>1, <1>5, <2>1, <2>2
<1>7. ASSUME ind # NoTiles PROVE Kept(p, G, L)
  <2>1. /\ p \in Engines /\ p.stack = g.stack /\ p.list = g.list /\ p.region = g.region
        /\ p.usedVDPSprite = g.usedVDPSprite /\ g.right \ {s} \subseteq p.right
        /\ \A t \in Slots : t # s => p.spr[t] = g.spr[t]
        /\ p.spr[s].alloc = g.spr[s].alloc /\ p.spr[s].auto = TRUE
        /\ p.spr[s].def = g.spr[s].def /\ p.spr[s].at = ind
        /\ p.spr[s].upload \/ g.spr[s].at = ind
    <3>1. g.spr[s].def \in Definitions /\ TRUE \in BOOLEAN /\ ind \in Int
      BY <1>2, <1>4, <1>5, <1>7
    <3> QED
      BY <1>1, <1>5, <3>1, MovedIs
  <2> HIDE DEF p
  <2>2. /\ p.spr[s].alloc /\ p.spr[s].def \in Definitions /\ p.spr[s].auto
        /\ p.spr[s].at = ind /\ p.spr[s].def = e.spr[s].def /\ p.spr[s].upload
    BY <1>2, <1>4, <1>5, <1>7, <2>1
  <2>3. \A t \in R : p.spr[t] = e.spr[t]
    BY <1>1, <1>5, <2>1
  <2>4. e.right \ {s} \subseteq p.right
    BY <1>5, <2>1
  <2>5. /\ AllocIndex(e.region, maxNumTile(p.spr[s].def)) # NoTiles
        /\ p.spr[s].at = AllocIndex(e.region, maxNumTile(p.spr[s].def))
        /\ p.region = AllocRegion(e.region, maxNumTile(p.spr[s].def))
    BY <1>5, <1>7, <2>1, <2>2 DEF ind, rg, n
  <2>6. /\ SpritesOf(p, R \cup {s})
        /\ Needs(p.spr, R \cup {s}) = Needs(e.spr, R) + maxNumSprite(p.spr[s].def)
        /\ Sound(p.region, OwnedBlocks(p.spr, R \cup {s}))
    <3> HIDE DEF R
    <3>1. /\ e \in Engines /\ p \in Engines /\ SpritesOf(e, R) /\ s \in Slots
          /\ R \in SUBSET Slots /\ s \notin R /\ Sound(e.region, OwnedBlocks(e.spr, R))
      BY <1>1, <1>2, <2>1
    <3> QED
      BY <2>2, <2>3, <2>4, <2>5, <3>1, PutAuto
  <2>7. SPR_getUsedVDPSprite(p) = Needs(p.spr, R \cup {s})
    <3>1. SPR_getUsedVDPSprite(p) = SPR_getUsedVDPSprite(g)
      BY <2>1 DEF SPR_getUsedVDPSprite
    <3> QED
      BY <1>1, <1>2, <1>5, <2>2, <2>6, <3>1
  <2>8. /\ p \in Engines /\ p.stack = e.stack /\ p.list = e.list
        /\ \A t \in Slots : t # s => p.spr[t] = e.spr[t]
    BY <1>5, <2>1
  <2> QED
    BY <2>6, <2>7, <2>8, Replaced
<1> QED
  BY <1>6, <1>7 DEF p, h, g, ind, rg, n

LEMMA TileIndexKeeps ==
  ASSUME NEW e, NEW G, NEW L, Kept(e, G, L), NEW s \in G, NEW i \in Manual \cup {-1}
  PROVE  LET r == TileIndexSet(e, s, i)
         IN /\ r.eng \in Engines /\ SPR_getUsedVDPSprite(r.eng) <= MaxSprite * MaxNeed
            /\ r.ok => Kept(r.eng, G, L)
<1> DEFINE r == TileIndexSet(e, s, i)
           n == maxNumTile(e.spr[s].def)
           ind == AllocIndex(e.region, n)
           g == WithRegion(e, AllocRegion(e.region, n))
           freed == Freed(e.region, e.spr[s].at)
           h == WithAuto(g, s, TRUE)
           p == Moved(g, s, TRUE, ind)
           q == Moved(WithRegion(e, freed), s, FALSE, i)
           k == Moved(e, s, FALSE, i)
<1>0. e \in Engines /\ e.spr[s].auto \in BOOLEAN
  <2>1. e \in Engines /\ e.spr \in [Slots -> Sprites] /\ s \in Slots
    BY KeptFacts
  <2>2. e.spr[s] \in Sprites
    BY <2>1
  <2> QED
    BY <2>1, <2>2, SpriteFacts
<1>1. r = IF i # -1 THEN IF e.spr[s].auto THEN [eng |-> q, ok |-> TRUE]
                         ELSE [eng |-> k, ok |-> TRUE]
          ELSE IF e.spr[s].auto THEN [eng |-> e, ok |-> TRUE]
          ELSE IF ind = NoTiles THEN [eng |-> h, ok |-> FALSE]
          ELSE [eng |-> p, ok |-> TRUE]
  BY DEF TileIndexSet, WithRegion, WithAuto
<1>2. \A x : Kept(x, G, L) => x \in Engines /\ SPR_getUsedVDPSprite(x) <= MaxSprite * MaxNeed
  BY KeptFacts
<1>3. i # -1 /\ e.spr[s].auto => Kept(q, G, L)
  <2> SUFFICES ASSUME i # -1, e.spr[s].auto PROVE Kept(q, G, L)
    OBVIOUS
  <2>1. Sound(freed, OwnedBlocks(e.spr, G \ {s})) /\ i \in Manual
    BY LessRegion
  <2> HIDE DEF freed
  <2> QED
    BY <2>1, MovedOut
<1>4. i # -1 /\ ~e.spr[s].auto => Kept(k, G, L)
  <2> SUFFICES ASSUME i # -1, ~e.spr[s].auto PROVE Kept(k, G, L)
    OBVIOUS
  <2>1. Sound(e.region, OwnedBlocks(e.spr, G \ {s})) /\ i \in Manual
    BY LessRegion
  <2>2. Kept(Moved(WithRegion(e, e.region), s, FALSE, i), G, L)
    BY <2>1, MovedOut
  <2>3. WithRegion(e, e.region) = e
    BY <1>0 DEF WithRegion, Engines
  <2> QED
    BY <2>2, <2>3
<1>5. ~e.spr[s].auto
        => /\ h \in Engines /\ SPR_getUsedVDPSprite(h) <= MaxSprite * MaxNeed
           /\ ind # NoTiles => Kept(p, G, L)
  BY MovedIn
<1> HIDE DEF g, ind, h, p, q, k, freed
<1>6. CASE i # -1
  <2>1. r.eng = (IF e.spr[s].auto THEN q ELSE k)
    BY <1>1, <1>6
  <2> HIDE DEF r
  <2> QED
    BY <1>0, <1>2, <1>3, <1>4, <1>6, <2>1 DEF r
<1>7. CASE i = -1 /\ e.spr[s].auto
  <2>1. r.eng = e
    BY <1>1, <1>7
  <2> HIDE DEF r
  <2> QED
    BY <1>2, <2>1 DEF r
<1>8. CASE i = -1 /\ ~e.spr[s].auto /\ ind = NoTiles
  <2>1. r.eng = h /\ r.ok = FALSE
    BY <1>1, <1>8
  <2> HIDE DEF r
  <2> QED
    BY <1>5, <1>8, <2>1 DEF r
<1>9. CASE i = -1 /\ ~e.spr[s].auto /\ ind # NoTiles
  <2>1. r.eng = p
    BY <1>1, <1>9
  <2> HIDE DEF r
  <2> QED
    BY <1>2, <1>5, <1>9, <2>1 DEF r
<1> QED
  BY <1>0, <1>6, <1>7, <1>8, <1>9

\* SPR_setVDPSpriteChecking.
LEMMA CheckingKeeps ==
  ASSUME NEW e, NEW G, NEW L, Kept(e, G, L), NEW on \in BOOLEAN
  PROVE  Kept([e EXCEPT !.usedVDPSprite = SPR_getUsedVDPSprite(e)
                                            + IF on THEN CHECK_VDP_SPRITE ELSE 0], G, L)
<1> DEFINE M == CHECK_VDP_SPRITE
           c == SPR_getUsedVDPSprite(e)
           u == c + IF on THEN M ELSE 0
           f == [e EXCEPT !.usedVDPSprite = u]
<1>1. /\ e \in Engines /\ G \in SUBSET Slots /\ L \in SUBSET Slots /\ G \subseteq L
      /\ SpritesOf(e, G) /\ Sound(e.region, OwnedBlocks(e.spr, G))
      /\ c = Needs(e.spr, G) /\ Needs(e.spr, G) \in Nat /\ Needs(e.spr, G) <= MaxSprite * MaxNeed
      /\ Once(e.list, L) /\ Once(e.stack, Slots \ L)
      /\ \A t \in Slots \ G : e.spr[t] = NoSprite
  BY KeptFacts
<1>2. M \in Nat /\ M > 0 /\ USED_MASK = M /\ c \in Nat /\ c < M
  <2> DEFINE B == MaxSprite * MaxNeed
  <2>1. M \in Nat /\ M > 0 /\ M = USED_MASK /\ B \in Nat /\ B < M
    BY CheckFacts
  <2>2. c \in Nat /\ c <= B
    BY <1>1
  <2> HIDE DEF B, M, c
  <2> QED
    BY <2>1, <2>2
<1>3. e = [stack |-> e.stack, list |-> e.list, spr |-> e.spr,
           usedVDPSprite |-> e.usedVDPSprite, region |-> e.region, right |-> e.right]
  BY <1>1, EngineFacts
<1> HIDE DEF M, c
<1>4. u \in Nat /\ u < 2 * M /\ u \in u16 /\ u % M = c
  <2>1. u \in Nat /\ u < 2 * M /\ (u < M => u = c) /\ (u >= M => u - M = c)
    BY <1>2
  <2>2. u \in u16
    BY <1>2, <2>1 DEF u16
  <2> HIDE DEF u
  <2>3. M \in Nat \ {0}
    BY <1>2
  <2>4. u < M => u % M = u
    BY <2>1, <2>3, Modulo
  <2>5. u >= M => u % M = u - M
    BY <2>1, <2>3, Modulo
  <2> QED
    BY <1>2, <2>1, <2>2, <2>4, <2>5
<1> HIDE DEF u
<1>5. f = [stack |-> e.stack, list |-> e.list, spr |-> e.spr,
           usedVDPSprite |-> u, region |-> e.region, right |-> e.right]
  BY <1>3
<1> HIDE DEF f
<1>6. f \in Engines
  BY <1>1, <1>4, <1>5, EngineFacts DEF Engines
<1>7. /\ f.stack = e.stack /\ f.list = e.list /\ f.spr = e.spr /\ f.usedVDPSprite = u
      /\ f.region = e.region /\ f.right = e.right
  BY <1>5
<1>8. SPR_getUsedVDPSprite(f) = c
  BY <1>4, <1>7 DEF SPR_getUsedVDPSprite, M
<1>9. SpritesOf(f, G)
  <2>1. /\ \A t \in G : f.spr[t] = e.spr[t]
        /\ \A t \in G : t \in e.right => t \in f.right
        /\ G \in SUBSET G
    BY <1>7
  <2>2. e \in Engines /\ f \in Engines /\ SpritesOf(e, G) /\ G \in SUBSET Slots
    BY <1>1, <1>6
  <2> QED
    BY <2>1, <2>2, Fewer
<1>10. Kept(f, G, L)
  BY <1>1, <1>6, <1>7, <1>8, <1>9 DEF Kept
<1> QED
  BY <1>10 DEF f, u, c, M

\* The engine without sprite, after SPR_initEx and SPR_reset.
LEMMA FreshKept ==
  ASSUME NEW u \in {0, CHECK_VDP_SPRITE}, NEW rg, Sound(rg, {})
  PROVE  Kept([stack |-> [i \in Slots |-> i], list |-> <<>>, spr |-> [s \in Slots |-> NoSprite],
               usedVDPSprite |-> u, region |-> rg, right |-> {}], {}, {})
<1> DEFINE k == [i \in Slots |-> i]
           l == <<>>
           spr == [s \in Slots |-> NoSprite]
           f == [stack |-> k, list |-> l, spr |-> spr, usedVDPSprite |-> u, region |-> rg,
                 right |-> {}]
<1>1. k \in Seq(Slots) /\ Len(k) = MaxSprite /\ \A i \in 1 .. MaxSprite : k[i] = i
  <2>1. k = [i \in 1 .. MaxSprite |-> i] /\ MaxSprite \in Nat /\ \A i \in 1 .. MaxSprite : i \in Slots
    BY SlotFacts DEF Slots
  <2>2. k \in [1 .. MaxSprite -> Slots]
    BY <2>1
  <2> HIDE DEF k
  <2>3. k \in Seq(Slots)
    BY <2>1, <2>2, IsASeq
  <2> QED
    BY <2>1, <2>3, LenProperties
<1>2. Once(k, Slots)
  <2> HIDE DEF k
  <2>1. \A i \in 1 .. Len(k) : k[i] \in Slots
    BY <1>1 DEF Slots
  <2>2. \A i, j \in 1 .. Len(k) : k[i] = k[j] => i = j
    BY <1>1
  <2>3. \A s \in Slots : \E i \in 1 .. Len(k) : k[i] = s
    BY <1>1 DEF Slots
  <2> QED
    BY <1>1, <2>1, <2>2, <2>3, OnceBy
<1>3. Once(l, {})
  <2>1. <<>> \in Seq(Slots) /\ DOMAIN <<>> = {}
    OBVIOUS
  <2>2. ToSet(<<>>) = {} /\ IsInjective(<<>>)
    BY <2>1 DEF ToSet, IsInjective
  <2> QED
    BY <2>1, <2>2 DEF Once
<1>4. spr \in [Slots -> Sprites] /\ \A s \in Slots : spr[s] = NoSprite
  BY NoSpriteFacts
<1>5. rg \in [vram : [Words -> u16], free : Words]
  BY DEF Sound
<1>6. u \in u16 /\ u % CHECK_VDP_SPRITE = 0
  <2> DEFINE M == CHECK_VDP_SPRITE
  <2>1. M \in Nat \ {0} /\ M = USED_MASK /\ u \in {0, M}
    BY CheckFacts
  <2> HIDE DEF M
  <2>2. u \in u16
    BY <2>1 DEF u16
  <2>3. 0 % M = 0 /\ M % M = M - M
    BY <2>1, Modulo
  <2>4. u % M = 0
    BY <2>1, <2>3
  <2> QED
    BY <2>2, <2>4 DEF M
<1> HIDE DEF k, l, spr
<1>7. /\ f.stack = k /\ f.list = l /\ f.spr = spr /\ f.usedVDPSprite = u /\ f.region = rg
      /\ f.right = {}
  OBVIOUS
<1>8. f \in Engines
  BY <1>2, <1>3, <1>4, <1>5, <1>6 DEF Engines, Once
<1> HIDE DEF f
<1>9. SpritesOf(f, {}) /\ OwnedBlocks(f.spr, {}) = {} /\ HwSprites(f.spr, {}) = {}
  BY DEF SpritesOf, OwnedBlocks, HwSprites
<1>10. Needs(f.spr, {}) = 0
  BY <1>9, FS_EmptySet DEF Needs
<1>11. SPR_getUsedVDPSprite(f) = 0
  BY <1>6, <1>7 DEF SPR_getUsedVDPSprite
<1>12. Slots \ {} = Slots
  OBVIOUS
<1>13. Kept(f, {}, {})
  BY <1>2, <1>3, <1>4, <1>7, <1>8, <1>9, <1>10, <1>11, <1>12 DEF Kept
<1> QED
  BY <1>13 DEF f, k, l, spr

LEMMA ResetKeeps ==
  ASSUME NEW e \in Engines
  PROVE  Kept(ResetEngine(e), {}, {})
<1> DEFINE k == [i \in Slots |-> i]
           l == <<>>
           spr == [s \in Slots |-> NoSprite]
           u == IF Checked(e) THEN CHECK_VDP_SPRITE ELSE 0
           rg == Cleared(e.region.vram)
           f == ResetEngine(e)
<1>1. u \in {0, CHECK_VDP_SPRITE}
  OBVIOUS
<1>2. Sound(rg, {})
  BY EngineFacts, ClearedSound
<1>3. e = [stack |-> e.stack, list |-> e.list, spr |-> e.spr,
           usedVDPSprite |-> e.usedVDPSprite, region |-> e.region, right |-> e.right]
  BY EngineFacts
<1>4. f = [e EXCEPT !.stack = k, !.list = l, !.spr = spr, !.usedVDPSprite = u,
                    !.region = rg, !.right = {}]
  BY DEF ResetEngine
<1> HIDE DEF k, l, spr, u, rg, f
<1>5. f = [stack |-> k, list |-> l, spr |-> spr, usedVDPSprite |-> u, region |-> rg,
           right |-> {}]
  BY <1>3, <1>4
<1>6. Kept(f, {}, {})
  BY <1>1, <1>2, <1>5, FreshKept DEF k, l, spr
<1> QED
  BY <1>6 DEF f

-----------------------------------------------------------------------------
(* SPR_addSpriteExSafe *)

LEMMA RefusedSame ==
  ASSUME NEW e \in Engines, NEW f \in Engines, f.stack = e.stack,
         f.usedVDPSprite = e.usedVDPSprite, NEW d
  PROVE  AddRefusedByCheck(f, d) <=> AddRefusedByCheck(e, d)
<1> DEFINE w == (e.usedVDPSprite + maxNumSprite(d)) % (2 * CHECK_VDP_SPRITE)
<1>1. \A g \in Engines : g.usedVDPSprite = e.usedVDPSprite
        => Counted(g, maxNumSprite(d)).usedVDPSprite = w
  BY DEF Counted, Engines
<1> HIDE DEF w
<1>2. SPR_getUsedVDPSprite(Counted(f, maxNumSprite(d)))
        = SPR_getUsedVDPSprite(Counted(e, maxNumSprite(d)))
  BY <1>1 DEF SPR_getUsedVDPSprite
<1>3. Checked(f) <=> Checked(e)
  BY DEF Checked
<1> QED
  BY <1>2, <1>3 DEF AddRefusedByCheck

LEMMA SafeKeeps ==
  ASSUME NEW e, NEW G, NEW L, Kept(e, G, L), NEW head \in BOOLEAN,
         NEW d \in Definitions, NEW at \in Manual \cup {-1}
  PROVE  LET r == AddedSafe(e, d, at, head)
             new == {r.sprite} \ {None}
         IN /\ r.sprite \in Slots \cup {None}
            /\ \E M : Kept(r.eng, G \cup new, M)
            /\ ~AddRefusedByCheck(e, d) => Kept(r.eng, G \cup new, L \cup new)
<1> DEFINE a == Added(e, d, at, head)
           f == Defragged(a.eng)
           b == Added(f, d, at, head)
           r == AddedSafe(e, d, at, head)
           new == {r.sprite} \ {None}
<1>1. r = IF a.sprite # None THEN a ELSE b
  BY DEF AddExSafe, AddedSafe, Added
<1>2. /\ a.sprite \in Slots \cup {None}
      /\ \E M : Kept(a.eng, G \cup ({a.sprite} \ {None}), M)
      /\ ~AddRefusedByCheck(e, d)
           => Kept(a.eng, G \cup ({a.sprite} \ {None}), L \cup ({a.sprite} \ {None}))
      /\ AddLeaves(e, d, a)
  BY AddKeeps
<1>3. CASE a.sprite # None
  <2>1. r = a
    BY <1>1, <1>3
  <2> HIDE DEF a, r
  <2> QED
    BY <1>2, <2>1 DEF r
<1>4. CASE a.sprite = None
  <2>1. r = b
    BY <1>1, <1>4
  <2>2. G \cup ({a.sprite} \ {None}) = G /\ L \cup ({a.sprite} \ {None}) = L
    BY <1>4
  <2> HIDE DEF a
  <2>3. PICK M : Kept(a.eng, G, M)
    BY <1>2, <2>2
  <2>4. Kept(f, G, M)
    BY <2>3, DefragKeeps
  <2>5. f.stack = a.eng.stack /\ f.usedVDPSprite = a.eng.usedVDPSprite
    BY <2>3, DefragKeeps
  <2> HIDE DEF f
  <2>6. /\ b.sprite \in Slots \cup {None}
        /\ \E K : Kept(b.eng, G \cup ({b.sprite} \ {None}), K)
    BY <2>4, AddKeeps
  <2>7. ~AddRefusedByCheck(e, d)
          => Kept(b.eng, G \cup ({b.sprite} \ {None}), L \cup ({b.sprite} \ {None}))
    <3> SUFFICES ASSUME ~AddRefusedByCheck(e, d)
                 PROVE  Kept(b.eng, G \cup ({b.sprite} \ {None}), L \cup ({b.sprite} \ {None}))
      OBVIOUS
    <3>1. Kept(a.eng, G, L) /\ a.eng.stack = e.stack /\ a.eng.usedVDPSprite = e.usedVDPSprite
      BY <1>2, <1>4, <2>2 DEF AddLeaves
    <3>2. Kept(f, G, L)
      BY <3>1, DefragKeeps DEF f
    <3>3. e \in Engines /\ f \in Engines
      BY <3>2, KeptFacts
    <3>4. ~AddRefusedByCheck(f, d)
      BY <2>5, <3>1, <3>3, RefusedSame
    <3> QED
      BY <3>2, <3>4, AddKeeps
  <2> HIDE DEF b, r
  <2> QED
    BY <2>1, <2>6, <2>7 DEF r
<1> QED
  BY <1>3, <1>4

-----------------------------------------------------------------------------
(* What the counts say *)

\* The free tiles of the region are those that no sprite owns.
LEMMA FreeIsRest ==
  ASSUME NEW e, NEW G, NEW L, Kept(e, G, L)
  PROVE  VRAM_getFree(e.region.vram) = Size - Cardinality(OwnCells(e.spr, G))
<1> DEFINE v == e.region.vram
           B == OwnedBlocks(e.spr, G)
           U == {t \in G : e.spr[t].auto}
           rec(s) == [at |-> e.spr[s].at, len |-> maxNumTile(e.spr[s].def)]
           C == [b \in B |-> b.at .. b.at + b.len - 1]
           f == [b \in B |-> b.len]
<1>1. G \in SUBSET Slots /\ SpritesOf(e, G) /\ Sound(e.region, B)
  BY KeptFacts
<1>2. Described(v, Chain(v, 0), B)
  BY <1>1 DEF Sound
<1>3. /\ VRAM_getAllocated(v) = MapThenSumSet(LAMBDA b : b.len, B)
      /\ VRAM_getFree(v) = Size - VRAM_getAllocated(v)
  BY <1>2, RowCounts
<1>4. MapThenSumSet(LAMBDA b : b.len, B) = SumOf(f, B)
  BY SumOfLengths
<1>5. B = {rec(s) : s \in U}
  BY DEF OwnedBlocks
<1> HIDE DEF B
<1>6. IsFiniteSet(B)
  <2> DEFINE m == [s \in U |-> rec(s)]
  <2>1. IsFiniteSet(U)
    BY <1>1, SlotFacts, FS_Subset
  <2>2. m \in Surjection(U, B)
    BY <1>5 DEF Surjection
  <2> QED
    BY <2>1, <2>2, FS_Surjection
<1>7. \A s \in U : /\ rec(s) \in B /\ rec(s).len = maxNumTile(e.spr[s].def)
                   /\ C[rec(s)] = Place(e.spr, s)
  BY <1>5 DEF Place
<1>8. \A b \in B : \E s \in U : b = rec(s)
  BY <1>5
<1>9. \A s \in U : /\ IsFiniteSet(Place(e.spr, s)) /\ maxNumTile(e.spr[s].def) \in Nat
                   /\ Cardinality(Place(e.spr, s)) = maxNumTile(e.spr[s].def)
  BY OwnPlace, DefFacts
<1>10. \A b \in B : f[b] = b.len
  OBVIOUS
<1> HIDE DEF rec, C, f
<1>11. \A b \in B : f[b] \in Nat /\ IsFiniteSet(C[b]) /\ Cardinality(C[b]) = f[b]
  BY <1>7, <1>8, <1>9, <1>10
<1>12. \A b, c \in B : b # c => C[b] \cap C[c] = {}
  <2> SUFFICES ASSUME NEW b \in B, NEW c \in B, b # c PROVE C[b] \cap C[c] = {}
    OBVIOUS
  <2>1. PICK s \in U : b = rec(s)
    BY <1>8
  <2>2. PICK t \in U : c = rec(t)
    BY <1>8
  <2>3. s # t
    BY <2>1, <2>2
  <2>4. Place(e.spr, s) \cap Place(e.spr, t) = {}
    BY <1>1, <2>3 DEF SpritesOf
  <2> QED
    BY <1>7, <2>1, <2>2, <2>4
<1>13. SumOf(f, B) = Cardinality(All(C, B))
  BY <1>6, <1>11, <1>12, SumCounts
<1>14. All(C, B) = OwnCells(e.spr, G)
  BY <1>7, <1>8 DEF All, OwnCells
<1> QED
  BY <1>3, <1>4, <1>13, <1>14

\* The hardware sprites needed, as the sum over the sprites.
LEMMA NeedsIsSum ==
  ASSUME NEW spr, NEW G \in SUBSET Slots, \A s \in G : spr[s].def \in Definitions
  PROVE  MapThenSumSet(LAMBDA s : maxNumSprite(spr[s].def), G) = Needs(spr, G)
<1> DEFINE f == [s \in G |-> maxNumSprite(spr[s].def)]
           C == [s \in G |-> HwSprites(spr, {s})]
           Is(i) == i = [q \in SUBSET G |->
                           IF q = {} THEN 0
                           ELSE maxNumSprite(spr[CHOOSE x \in q : TRUE].def)
                                  + i[q \ {CHOOSE x \in q : TRUE}]]
           IsToo(i) == i = [q \in SUBSET G |->
                              IF q = {} THEN 0
                              ELSE f[CHOOSE x \in q : TRUE]
                                     + i[q \ {CHOOSE x \in q : TRUE}]]
<1>1. MapThenSumSet(LAMBDA s : maxNumSprite(spr[s].def), G) = (CHOOSE i : Is(i))[G]
  BY DEF MapThenSumSet, MapThenFoldSet
<1>2. SumOf(f, G) = (CHOOSE i : IsToo(i))[G]
  BY DEF SumOf
<1>3. \A i : Is(i) <=> IsToo(i)
  OBVIOUS
<1> HIDE DEF Is, IsToo
<1>4. (CHOOSE i : Is(i)) = (CHOOSE i : IsToo(i))
  BY <1>3, Zenon
<1>5. MapThenSumSet(LAMBDA s : maxNumSprite(spr[s].def), G) = SumOf(f, G)
  BY <1>1, <1>2, <1>4, Zenon
<1>6. IsFiniteSet(G)
  BY SlotFacts, FS_Subset
<1>7. Needs(spr, {}) = 0
  <2>1. HwSprites(spr, {}) = {}
    BY DEF HwSprites
  <2> QED
    BY <2>1, FS_EmptySet DEF Needs
<1>8. ASSUME NEW s \in G
      PROVE  f[s] \in Nat /\ IsFiniteSet(C[s]) /\ Cardinality(C[s]) = f[s]
  <2>1. maxNumSprite(spr[s].def) \in Nat
    BY DefFacts
  <2>2. {} \in SUBSET Slots /\ s \in Slots /\ s \notin {} /\ {} \cup {s} = {s}
    OBVIOUS
  <2>3. Needs(spr, {} \cup {s}) = Needs(spr, {}) + maxNumSprite(spr[s].def)
    BY <2>2, NeedsOne
  <2>4. Needs(spr, {s}) = maxNumSprite(spr[s].def)
    BY <1>7, <2>1, <2>2, <2>3
  <2>5. IsFiniteSet(HwSprites(spr, {s}))
    BY NeedsBound
  <2> QED
    BY <2>1, <2>4, <2>5 DEF Needs
<1>9. \A s, t \in G : s # t => C[s] \cap C[t] = {}
  BY DEF HwSprites
<1>10. All(C, G) = HwSprites(spr, G)
  BY DEF All, HwSprites
<1> HIDE DEF f, C
<1>11. SumOf(f, G) = Cardinality(All(C, G))
  BY <1>6, <1>8, <1>9, SumCounts
<1> QED
  BY <1>5, <1>10, <1>11 DEF Needs

\* SPR_addSpriteExSafe finds tiles when there are enough in all: the region it
\* tries the second time has no gap.
LEMMA SafeFits ==
  ASSUME NEW e, NEW G, NEW L, Kept(e, G, L), NEW head \in BOOLEAN, NEW d \in Definitions,
         e.stack # <<>>, ~AddRefusedByCheck(e, d),
         VRAM_getFree(e.region.vram) >= maxNumTile(d)
  PROVE  AddedSafe(e, d, -1, head).sprite # None
<1> DEFINE at == -1
<1>1. at \in Manual \cup {-1}
  OBVIOUS
<1>2. \A e1 : Added(e1, d, at, head) = AddEx(e1, d, at = -1, at, head)
  BY DEF Added
<1>3. AddedSafe(e, d, at, head) = AddExSafe(e, d, at = -1, at, head)
  BY DEF AddedSafe
<1> HIDE DEF at
<1> DEFINE a == Added(e, d, at, head)
           f == Defragged(a.eng)
           b == Added(f, d, at, head)
           r == AddedSafe(e, d, at, head)
           k == Cardinality(OwnCells(e.spr, G))
           n == maxNumTile(d)
<1>4. r = IF a.sprite # None THEN a ELSE b
  BY <1>2, <1>3 DEF AddExSafe
<1> SUFFICES r.sprite # None
  BY DEF at
<1>5. CASE a.sprite # None
  BY <1>4, <1>5
<1>6. CASE a.sprite = None
  <2>1. r = b
    BY <1>4, <1>6
  <2>2. /\ a.sprite \in Slots \cup {None}
        /\ \E M : Kept(a.eng, G \cup ({a.sprite} \ {None}), M)
        /\ ~AddRefusedByCheck(e, d)
             => Kept(a.eng, G \cup ({a.sprite} \ {None}), L \cup ({a.sprite} \ {None}))
        /\ AddLeaves(e, d, a)
    BY <1>1, AddKeeps
  <2>3. G \cup ({a.sprite} \ {None}) = G /\ L \cup ({a.sprite} \ {None}) = L
    BY <1>6
  <2> HIDE DEF a
  <2>4. /\ Kept(a.eng, G, L) /\ a.eng.stack = e.stack /\ a.eng.spr = e.spr
        /\ a.eng.usedVDPSprite = e.usedVDPSprite
    BY <1>6, <2>2, <2>3 DEF AddLeaves
  <2>5. /\ Kept(f, G, L) /\ f.stack = a.eng.stack /\ f.usedVDPSprite = a.eng.usedVDPSprite
        /\ Compact(f.region, Cardinality(OwnCells(a.eng.spr, G)))
    BY <2>4, DefragKeeps
  <2> HIDE DEF f
  <2>6. Compact(f.region, k) /\ f.stack = e.stack /\ f.usedVDPSprite = e.usedVDPSprite
    BY <2>4, <2>5
  <2>7. e \in Engines /\ f \in Engines /\ Sound(f.region, OwnedBlocks(f.spr, G))
    BY <2>5, KeptFacts
  <2>8. ~AddRefusedByCheck(f, d)
    BY <2>6, <2>7, RefusedSame
  <2>9. k \in Nat /\ n \in Nat /\ n > 0 /\ k + n <= Size
    <3>1. VRAM_getFree(e.region.vram) = Size - k
      BY FreeIsRest
    <3>2. n \in Nat /\ n > 0 /\ Size \in Nat /\ k \in Nat
      BY <2>6, DefFacts, WordFacts DEF Compact
    <3> QED
      BY <3>1, <3>2
  <2> HIDE DEF k, n
  <2>10. AllocIndex(f.region, n) # NoTiles
    BY <2>6, <2>7, <2>9, CompactAlloc
  <2>11. /\ b.sprite \in Slots \cup {None}
         /\ \E M : Kept(b.eng, G \cup ({b.sprite} \ {None}), M)
         /\ ~AddRefusedByCheck(f, d)
              => Kept(b.eng, G \cup ({b.sprite} \ {None}), L \cup ({b.sprite} \ {None}))
         /\ AddLeaves(f, d, b)
    BY <1>1, <2>5, AddKeeps
  <2>12. f.stack # <<>>
    BY <2>6
  <2> HIDE DEF b
  <2>13. b.sprite # None
    BY <2>8, <2>10, <2>11, <2>12 DEF AddLeaves, n
  <2> QED
    BY <2>1, <2>13
<1> QED
  BY <1>5, <1>6

-----------------------------------------------------------------------------
(* The invariant of SpriteEng, one lemma per call *)

LEMMA EngineInitInvariant ==
  EngineInit => EngineInv
<1> SUFFICES ASSUME EngineInit PROVE EngineInv
  OBVIOUS
<1> DEFINE f == [stack |-> [i \in Slots |-> i], list |-> <<>>,
                 spr |-> [s \in Slots |-> NoSprite], usedVDPSprite |-> 0,
                 region |-> Created(0), right |-> {}]
<1>1. eng = f /\ given = {} /\ harmed = FALSE
  BY DEF EngineInit
<1>2. 0 \in {0, CHECK_VDP_SPRITE} /\ Sound(Created(0), {})
  BY CreatedCompact
<1>3. Kept(f, {}, {})
  BY <1>2, FreshKept
<1> HIDE DEF f
<1>4. f \in Engines /\ SPR_getUsedVDPSprite(f) <= MaxSprite * MaxNeed
  BY <1>3, KeptFacts
<1> QED
  BY <1>1, <1>3, <1>4 DEF EngineInv

\* A call that ends well.
LEMMA KeptNext ==
  ASSUME Kept(eng', given', given'), harmed' \in BOOLEAN
  PROVE  EngineInv'
<1>1. /\ eng' \in Engines /\ given' \in SUBSET Slots
      /\ SPR_getUsedVDPSprite(eng') <= MaxSprite * MaxNeed
  BY KeptFacts
<1> QED
  BY <1>1 DEF EngineInv

LEMMA AddsKeepInv ==
  ASSUME EngineInv, ~harmed, NEW d \in Definitions, NEW at \in Manual \cup {-1},
         NEW head \in BOOLEAN, SPR_addSpriteEx(d, at, head) \/ SPR_addSpriteExSafe(d, at, head)
  PROVE  EngineInv'
<1>1. Kept(eng, given, given)
  BY DEF EngineInv
<1> DEFINE a == Added(eng, d, at, head)
           b == AddedSafe(eng, d, at, head)
<1>2. /\ a.sprite \in Slots \cup {None}
      /\ \E M : Kept(a.eng, given \cup ({a.sprite} \ {None}), M)
      /\ ~AddRefusedByCheck(eng, d)
           => Kept(a.eng, given \cup ({a.sprite} \ {None}), given \cup ({a.sprite} \ {None}))
      /\ AddLeaves(eng, d, a)
  BY <1>1, AddKeeps
<1>3. /\ b.sprite \in Slots \cup {None}
      /\ \E M : Kept(b.eng, given \cup ({b.sprite} \ {None}), M)
      /\ ~AddRefusedByCheck(eng, d)
           => Kept(b.eng, given \cup ({b.sprite} \ {None}), given \cup ({b.sprite} \ {None}))
  BY <1>1, SafeKeeps
<1>4. Adds(a, d) \/ Adds(b, d)
  BY DEF SPR_addSpriteEx, SPR_addSpriteExSafe, Added, AddedSafe
<1> HIDE DEF a, b
<1>5. PICK r : /\ Adds(r, d)
               /\ \E M : Kept(r.eng, given \cup ({r.sprite} \ {None}), M)
               /\ ~AddRefusedByCheck(eng, d)
                    => Kept(r.eng, given \cup ({r.sprite} \ {None}),
                            given \cup ({r.sprite} \ {None}))
  BY <1>2, <1>3, <1>4
<1>6. /\ eng' = r.eng /\ given' = given \cup ({r.sprite} \ {None})
      /\ harmed' = (harmed \/ AddRefusedByCheck(eng, d))
  BY <1>5 DEF Adds
<1>7. PICK M : Kept(eng', given', M)
  BY <1>5, <1>6
<1>8. /\ eng' \in Engines /\ given' \in SUBSET Slots
      /\ SPR_getUsedVDPSprite(eng') <= MaxSprite * MaxNeed
  BY <1>7, KeptFacts
<1>9. ~harmed' => Kept(eng', given', given')
  BY <1>5, <1>6
<1>10. harmed' \in BOOLEAN
  BY <1>6
<1> QED
  BY <1>8, <1>9, <1>10 DEF EngineInv

LEMMA ReleaseKeepsInv ==
  ASSUME EngineInv, ~harmed, NEW s \in Slots, SPR_releaseSprite(s)
  PROVE  EngineInv'
<1>1. Kept(eng, given, given) /\ harmed \in BOOLEAN
  BY DEF EngineInv
<1>2. Kept(SpriteReleased(eng, s), given \ {s}, given \ {s})
  BY <1>1, ReleaseKeeps
<1>3. Kept(eng', given', given') /\ harmed' \in BOOLEAN
  BY <1>1, <1>2 DEF SPR_releaseSprite
<1> QED
  BY <1>3, KeptNext

LEMMA DefinitionKeepsInv ==
  ASSUME EngineInv, ~harmed, NEW s \in given, NEW d \in Definitions, SPR_setDefinition(s, d)
  PROVE  EngineInv'
<1> DEFINE r == DefinitionSet(eng, s, d)
<1>1. Kept(eng, given, given) /\ harmed = FALSE /\ given \subseteq Slots
  BY DEF EngineInv
<1>2. /\ r.eng \in Engines /\ SPR_getUsedVDPSprite(r.eng) <= MaxSprite * MaxNeed
      /\ r.ok \/ r.eng = eng => Kept(r.eng, given, given)
  BY <1>1, DefinitionKeeps
<1>3. eng' = r.eng /\ given' = given /\ harmed' = (~r.ok /\ r.eng # eng)
  BY <1>1 DEF SPR_setDefinition
<1> HIDE DEF r
<1>4. ~harmed' => Kept(eng', given', given')
  BY <1>2, <1>3
<1>5. harmed' \in BOOLEAN /\ given' \subseteq Slots
  BY <1>1, <1>3
<1> QED
  BY <1>2, <1>3, <1>4, <1>5 DEF EngineInv

LEMMA TileIndexKeepsInv ==
  ASSUME EngineInv, ~harmed, NEW s \in given, NEW i \in Manual \cup {-1},
         SPR_setVRAMTileIndex(s, i)
  PROVE  EngineInv'
<1> DEFINE r == TileIndexSet(eng, s, i)
<1>1. Kept(eng, given, given) /\ harmed = FALSE /\ given \subseteq Slots
  BY DEF EngineInv
<1>2. /\ r.eng \in Engines /\ SPR_getUsedVDPSprite(r.eng) <= MaxSprite * MaxNeed
      /\ r.ok => Kept(r.eng, given, given)
  BY <1>1, TileIndexKeeps
<1>3. eng' = r.eng /\ given' = given /\ harmed' = (harmed \/ ~r.ok)
  BY DEF SPR_setVRAMTileIndex
<1> HIDE DEF r
<1>4. ~harmed' => Kept(eng', given', given')
  BY <1>1, <1>2, <1>3
<1>5. harmed' \in BOOLEAN /\ given' \subseteq Slots
  BY <1>1, <1>3
<1> QED
  BY <1>2, <1>3, <1>4, <1>5 DEF EngineInv

LEMMA EngineNextInvariant ==
  EngineInv /\ [EngineNext]_engineVars => EngineInv'
<1> SUFFICES ASSUME EngineInv, [EngineNext]_engineVars PROVE EngineInv'
  OBVIOUS
<1>1. ASSUME ~harmed, NEW d \in Definitions, NEW at \in Manual \cup {-1}, NEW head \in BOOLEAN,
             SPR_addSpriteEx(d, at, head) \/ SPR_addSpriteExSafe(d, at, head)
      PROVE  EngineInv'
  BY <1>1, AddsKeepInv
<1>2. ASSUME ~harmed, NEW s \in Slots, SPR_releaseSprite(s) PROVE EngineInv'
  BY <1>2, ReleaseKeepsInv
<1>3. ASSUME ~harmed, NEW s \in given, NEW d \in Definitions, SPR_setDefinition(s, d)
      PROVE  EngineInv'
  BY <1>3, DefinitionKeepsInv
<1>4. ASSUME ~harmed, NEW s \in given, NEW i \in Manual \cup {-1}, SPR_setVRAMTileIndex(s, i)
      PROVE  EngineInv'
  BY <1>4, TileIndexKeepsInv
<1>5. ASSUME ~harmed, SPR_defragVRAM PROVE EngineInv'
  <2>1. Kept(eng, given, given) /\ harmed \in BOOLEAN
    BY <1>5 DEF EngineInv
  <2>2. Kept(Defragged(eng), given, given)
    BY <2>1, DefragKeeps
  <2>3. Kept(eng', given', given') /\ harmed' \in BOOLEAN
    BY <1>5, <2>1, <2>2 DEF SPR_defragVRAM
  <2> QED
    BY <2>3, KeptNext
<1>6. ASSUME ~harmed, NEW on \in BOOLEAN, SPR_setVDPSpriteChecking(on) PROVE EngineInv'
  <2> DEFINE f == [eng EXCEPT !.usedVDPSprite = SPR_getUsedVDPSprite(eng)
                                                  + IF on THEN CHECK_VDP_SPRITE ELSE 0]
  <2>1. Kept(eng, given, given) /\ harmed \in BOOLEAN
    BY <1>6 DEF EngineInv
  <2>2. Kept(f, given, given)
    BY <2>1, CheckingKeeps
  <2>3. eng' = f /\ given' = given /\ harmed' = harmed
    BY <1>6 DEF SPR_setVDPSpriteChecking
  <2> HIDE DEF f
  <2>4. Kept(eng', given', given') /\ harmed' \in BOOLEAN
    BY <2>1, <2>2, <2>3
  <2> QED
    BY <2>4, KeptNext
<1>7. ASSUME ~harmed, SPR_update PROVE EngineInv'
  <2>1. Kept(eng, given, given) /\ harmed \in BOOLEAN
    BY <1>7 DEF EngineInv
  <2>2. Kept(Uploaded(eng), given, given)
    BY <2>1, UploadKeeps
  <2>3. Kept(eng', given', given') /\ harmed' \in BOOLEAN
    BY <1>7, <2>1, <2>2 DEF SPR_update
  <2> QED
    BY <2>3, KeptNext
<1>8. ASSUME SPR_reset PROVE EngineInv'
  <2>1. eng \in Engines
    BY DEF EngineInv
  <2>2. Kept(ResetEngine(eng), {}, {})
    BY <2>1, ResetKeeps
  <2>3. Kept(eng', given', given') /\ harmed' \in BOOLEAN
    BY <1>8, <2>2 DEF SPR_reset
  <2> QED
    BY <2>3, KeptNext
<1>9. CASE UNCHANGED engineVars
  BY <1>9 DEF engineVars, EngineInv
<1>10. ASSUME ~harmed, Calls PROVE EngineInv'
  BY <1>1, <1>2, <1>3, <1>4, <1>5, <1>6, <1>7, <1>10 DEF Calls
<1> QED
  BY <1>8, <1>9, <1>10 DEF EngineNext

-----------------------------------------------------------------------------
(* The theorems about SpriteEng *)

\* For every pool, region, set of definitions and limit: the sprites on the
\* list of sprite_eng.c are the ones the program has, each once, all other
\* objects are in the pool, and usedVDPSprite is the sum over the definitions
\* in use and never runs into the bit beside it, as long as no call has failed
\* half-way.
THEOREM EngineBalances ==
  EngineSpec => []ResourcesBalance
<1>1. EngineInv => EngineTypeOK
  <2> SUFFICES ASSUME EngineInv PROVE EngineTypeOK
    OBVIOUS
  <2>1. /\ eng \in Engines /\ SPR_getUsedVDPSprite(eng) <= MaxSprite * MaxNeed
        /\ given \subseteq Slots /\ harmed \in BOOLEAN
    BY DEF EngineInv
  <2>2. /\ eng.stack \in Seq(Slots) /\ eng.list \in Seq(Slots) /\ eng.usedVDPSprite \in u16
        /\ eng.right \subseteq Slots /\ eng.spr \in [Slots -> Sprites]
    BY <2>1 DEF Engines
  <2>3. \A s \in Slots : /\ eng.spr[s].alloc \in BOOLEAN /\ eng.spr[s].auto \in BOOLEAN
                         /\ eng.spr[s].def \in Definitions \cup {None}
    BY <2>2 DEF Sprites
  <2> QED
    BY <2>1, <2>2, <2>3 DEF EngineTypeOK, MaxNeed
<1>2. EngineInv => ListedUnlessHarmed
  <2> SUFFICES ASSUME EngineInv, ~harmed PROVE ListedAreGiven
    BY DEF ListedUnlessHarmed
  <2>1. Once(eng.list, given) /\ Once(eng.stack, Slots \ given)
    BY KeptFacts DEF EngineInv
  <2> QED
    BY <2>1 DEF Once, ListedAreGiven
<1>3. EngineInv => UsedIsSum
  <2> SUFFICES ASSUME EngineInv, ~harmed
               PROVE  SPR_getUsedVDPSprite(eng)
                        = MapThenSumSet(LAMBDA s : maxNumSprite(eng.spr[s].def), given)
    BY DEF UsedIsSum
  <2> DEFINE spr == eng.spr
  <2>1. /\ given \in SUBSET Slots /\ SPR_getUsedVDPSprite(eng) = Needs(spr, given)
        /\ SpritesOf(eng, given)
    BY KeptFacts DEF EngineInv
  <2>2. \A s \in given : spr[s].def \in Definitions
    BY <2>1 DEF SpritesOf
  <2>3. MapThenSumSet(LAMBDA s : maxNumSprite(spr[s].def), given) = Needs(spr, given)
    <3> HIDE DEF spr
    <3> QED
      BY <2>1, <2>2, NeedsIsSum
  <2> QED
    BY <2>1, <2>3
<1>4. EngineInv => ResourcesBalance
  BY <1>1, <1>2, <1>3 DEF ResourcesBalance
<1> QED
  BY <1>4, EngineInitInvariant, EngineNextInvariant, PTL DEF EngineSpec

\* The used blocks of the region are the tiles of the program's sprites, each
\* with the size of its definition and of one sprite only, after any sequence
\* of additions, releases, changes of definition, moves and defragmentations.
THEOREM EngineOwnsTiles ==
  EngineSpec => []TilesHaveOneOwner
<1>1. EngineInv => TilesAreOwned
  <2> SUFFICES ASSUME EngineInv, ~harmed PROVE ChainHolds(eng.region.vram, SpriteBlocks(eng))
    BY DEF TilesAreOwned
  <2>1. Sound(eng.region, OwnedBlocks(eng.spr, given))
    BY KeptFacts DEF EngineInv
  <2>2. SpriteBlocks(eng) = OwnedBlocks(eng.spr, given)
    BY DEF SpriteBlocks, OwnedBlocks
  <2> QED
    BY <2>1, <2>2, SoundChain
<1>2. EngineInv => TilesAreDisjoint
  <2> SUFFICES ASSUME EngineInv, ~harmed,
                      NEW s \in given, NEW t \in given, eng.spr[s].auto, eng.spr[t].auto, s # t
               PROVE  Cells(eng, s) \cap Cells(eng, t) = {}
    BY DEF TilesAreDisjoint
  <2>1. SpritesOf(eng, given)
    BY KeptFacts DEF EngineInv
  <2>2. Place(eng.spr, s) \cap Place(eng.spr, t) = {}
    BY <2>1 DEF SpritesOf
  <2> QED
    BY <2>2 DEF Place, Cells
<1>3. EngineInv => TilesHaveOneOwner
  BY <1>1, <1>2 DEF TilesHaveOneOwner
<1> QED
  BY <1>3, EngineInitInvariant, EngineNextInvariant, PTL DEF EngineSpec

\* The second try of SPR_addSpriteExSafe fails only without object, without
\* hardware sprites or with fewer free tiles in all than the sprite needs: the
\* "allocation should pass this time" of sprite_eng.c.
THEOREM EngineSafeAdd ==
  EngineSpec => []SafeAddFits
<1>1. EngineInv => SafeAddFits
  <2> SUFFICES ASSUME EngineInv, ~harmed, NEW d \in Definitions, NEW head \in BOOLEAN,
                      AddExSafe(eng, d, TRUE, -1, head).sprite = None,
                      eng.stack # <<>>, ~AddRefusedByCheck(eng, d)
               PROVE  VRAM_getFree(eng.region.vram) < maxNumTile(d)
    BY DEF SafeAddFits
  <2>1. Kept(eng, given, given)
    BY DEF EngineInv
  <2>2. AddedSafe(eng, d, -1, head) = AddExSafe(eng, d, TRUE, -1, head)
    <3>1. (-1 = -1) = TRUE
      OBVIOUS
    <3> QED
      BY <3>1, Zenon DEF AddedSafe
  <2>3. ~(VRAM_getFree(eng.region.vram) >= maxNumTile(d))
    BY <2>1, <2>2, SafeFits
  <2>4. VRAM_getFree(eng.region.vram) \in Int /\ maxNumTile(d) \in Int
    <3> DEFINE k == Cardinality(OwnCells(eng.spr, given))
    <3>1. VRAM_getFree(eng.region.vram) = Size - k
      BY <2>1, FreeIsRest
    <3>2. given \in SUBSET given
      OBVIOUS
    <3>3. k \in Nat
      BY <2>1, <3>2, OwnCellsBound
    <3> HIDE DEF k
    <3> QED
      BY <3>1, <3>3, DefFacts, WordFacts
  <2> QED
    BY <2>3, <2>4
<1> QED
  BY <1>1, EngineInitInvariant, EngineNextInvariant, PTL DEF EngineSpec

\* A sprite whose tiles in VRAM do not hold its picture is one that the next
\* SPR_update sends, whatever moved it there or was sent over it.
THEOREM EngineResends ==
  EngineSpec => []WrongPictureIsResent
<1>1. EngineInv => WrongPictureIsResent
  <2> SUFFICES ASSUME EngineInv, ~harmed, NEW s \in given, eng.spr[s].auto
               PROVE  s \in eng.right \/ eng.spr[s].upload
    BY DEF WrongPictureIsResent
  <2>1. SpritesOf(eng, given)
    BY KeptFacts DEF EngineInv
  <2> QED
    BY <2>1 DEF SpritesOf
<1> QED
  BY <1>1, EngineInitInvariant, EngineNextInvariant, PTL DEF EngineSpec
=============================================================================
