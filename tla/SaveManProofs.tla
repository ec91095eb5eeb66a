--------------------------- MODULE SaveManProofs ----------------------------
(***************************************************************************)
(* Proofs about SaveMan for every size of the sectors, number of slots and *)
(* set of values, for programs that keep to Careful.                       *)
(***************************************************************************)
EXTENDS SaveMan, TLAPS, WellFoundedInduction, SequenceTheorems

\* What the program and the machine must keep to (each condition is one that a
\* run or the README shows to be needed): no power cut while blobs move to a
\* sector without magic number, sm_init after sm_clear, sectors of whole 64 KB,
\* no length that fills its blob to the end.
Careful ==
  /\ ~CutsInCross /\ InitAfterClear /\ EraseErrSectors = {}
  /\ \A len \in Lens : len % 4 # 0

-----------------------------------------------------------------------------
(* What the flash holds *)

\* Words with a length have a number there.
Typed(f) == \A x \in Addresses : f[x].t = "len" => f[x].len \in Nat

\* A blob that is done.
IsBlob(f, a) ==
  /\ f[a] \in [t : {"hdr"}, slot : Slots, invalid : {0, 1}, cleared : {0, 1}]
  /\ f[a + 1].t = "len" /\ f[a + 1].len \in Nat
  /\ f[a].invalid = 1 => f[a + 1].len \in Lens

After(f, a) == a + blob_len(f[a + 1].len)

\* The blobs of sector s are at A, one after the other, from the beginning of
\* its data up to end.
LogAt(f, s, A, end) ==
  /\ A \subseteq Aligned /\ end \in Aligned /\ DataStart(s) <= end /\ end < Limit(s)
  /\ DataStart(s) \in A \cup {end}
  /\ \A a \in A : DataStart(s) <= a /\ a < end /\ IsBlob(f, a) /\ After(f, a) \in A \cup {end}
  /\ \A a \in A, c \in A \cup {end} : a < c => After(f, a) <= c

\* From end on the sector is erased.
Clean(f, s, end) == \A x \in end .. Limit(s) - 1 : f[x] = E

\* At end is the beginning of a blob that is not done; the blob that will skip
\* it can end at top.
Dirty(f, s, end, top) ==
  /\ top \in Aligned /\ end + 2 < top /\ top < Limit(s)
  /\ f[end] = E
  /\ \A x \in top - 1 .. Limit(s) - 1 : f[x] = E
  /\ \/ f[end + 1] = E
     \/ f[end + 1].t = "len" /\ f[end + 1].len \in Nat /\ After(f, end) = top

Erased(f, s) == \A x \in SectorWords(s) : f[x] = E

\* A sector from which sm_init can go on.
SectorSound(f, s) ==
  \E A, end : LogAt(f, s, A, end) /\ (Clean(f, s, end) \/ \E top : Dirty(f, s, end, top))

\* The blob of a slot among those at A.
Valid(f, a, slot) == f[a].invalid = 1 /\ f[a].slot = slot

BlobAt(f, A, slot, b) ==
  \/ b = 0 /\ \A a \in A : ~Valid(f, a, slot)
  \/ \E m \in A : /\ Valid(f, m, slot) /\ \A a \in A : Valid(f, a, slot) => a <= m
                  /\ b = IF f[m].cleared = 0 THEN 0 ELSE m

Blobs(f, A, blob) == \A slot \in Slots : BlobAt(f, A, slot, blob[slot])

-----------------------------------------------------------------------------
(* Addresses and lengths *)

\* Least elements, from which every induction below is made.
LEMMA NatMin ==
  ASSUME NEW T, T \subseteq Nat, T # {}
  PROVE  \E x \in T : \A y \in T : x <= y
<1> DEFINE R == OpToRel(<, Nat)
<1>1. IsWellFoundedOn(R, Nat)
  BY NatLessThanWellFounded
<1>2. \E x \in T : \A y \in T : ~(<<y, x>> \in R)
  BY <1>1, WFMin
<1>3. \A x, y \in Nat : ~(<<y, x>> \in R) => x <= y
  BY DEF OpToRel
<1> QED
  BY <1>2, <1>3

\* A set of numbers below a bound has a last element, and Max is it.
LEMMA MaxIsLast ==
  ASSUME NEW n \in Nat, NEW T, T \subseteq 0 .. n, T # {}
  PROVE  Max(T) \in T /\ \A y \in T : y <= Max(T)
<1> DEFINE M == {n - x : x \in T}
<1>0. \A x \in T : x \in Nat /\ x <= n /\ n - x \in Nat
  OBVIOUS
<1>1. M \subseteq Nat /\ M # {}
  BY <1>0
<1>2. PICK m \in M : \A y \in M : m <= y
  BY <1>1, NatMin
<1>3. PICK x \in T : m = n - x
  OBVIOUS
<1>4. \A y \in T : n - x <= n - y
  BY <1>2, <1>3
<1>5. \A y \in T : x >= y
  BY <1>4
<1>6. Max(T) \in T /\ \A y \in T : Max(T) >= y
  BY <1>5 DEF Max
<1> QED
  BY <1>6

\* Lengths are at most a multiple of two words, and more than the data.
LEMMA LenFacts ==
  ASSUME NEW len \in Nat
  PROVE  /\ blob_len(len) \in Nat /\ blob_len(len) >= 2 /\ blob_len(len) % 2 = 0
         /\ len \div 2 \in Nat /\ (len + 1) \div 2 \in Nat
         /\ (len + 1) \div 2 + 2 <= blob_len(len) /\ len \div 2 + 2 <= blob_len(len)
         /\ len % 4 # 0 => len \div 2 + 3 <= blob_len(len)
         /\ len % 2 = 0 => (len + 1) \div 2 = len \div 2
<1> DEFINE q == (len + 3) \div 4
<1>1. q \in Nat /\ 4 * q <= len + 3 /\ len < 4 * q + 1
  OBVIOUS
<1>2. blob_len(len) = 2 + 2 * q
  BY DEF blob_len
<1> HIDE DEF q
<1>3. blob_len(len) \in Nat /\ blob_len(len) >= 2 /\ blob_len(len) % 2 = 0
  BY <1>1, <1>2
<1>4. len \div 2 \in Nat /\ (len + 1) \div 2 \in Nat
  OBVIOUS
<1>5. (len + 1) \div 2 <= 2 * q /\ len \div 2 <= 2 * q
  BY <1>1
<1>6. len % 4 # 0 => len < 4 * q
  BY <1>1
<1>7. len % 4 # 0 => len \div 2 + 1 <= 2 * q
  BY <1>1, <1>6
<1>8. len % 2 = 0 => (len + 1) \div 2 = len \div 2
  OBVIOUS
<1> QED
  BY <1>1, <1>2, <1>3, <1>4, <1>5, <1>7, <1>8

\* A length that the program saves has a blob that fits.
LEMMA LensFacts ==
  ASSUME NEW len \in Lens
  PROVE  /\ len \in Nat /\ blob_len(len) \in Nat
         /\ 4 + NumSlots * blob_len(len) < SectorLen
<1>1. len \in 0 .. MaxSaveLen /\ 4 + NumSlots * blob_len(len) < SectorLen
  BY Zenon, SaveSizes
<1>2. MaxSaveLen \in Nat
  BY DEF MaxSaveLen
<1> QED
  BY <1>1, <1>2, LenFacts

\* The constants, in numbers.
LEMMA Sizes ==
  /\ SectorLen \in Nat /\ SectorLen % 2 = 0 /\ SectorLen > 4
  /\ NumSlots \in Nat /\ NumSlots >= 1 /\ Lens \subseteq Nat
<1>0. /\ SectorLen \in Nat /\ SectorLen % 2 = 0 /\ NumSlots \in 1 .. MaxSlots
      /\ Lens # {} /\ Lens \subseteq 0 .. MaxSaveLen
  BY Zenon, SaveSizes
<1>1. SectorLen \in Nat /\ SectorLen % 2 = 0 /\ NumSlots \in Nat /\ NumSlots >= 1 /\ Lens \subseteq Nat
  <2>1. MaxSlots \in Nat /\ MaxSaveLen \in Nat
    BY DEF MaxSlots, MaxSaveLen
  <2> QED
    BY <1>0, <2>1
<1>2. PICK len : len \in Lens
  BY <1>0
<1>3. blob_len(len) \in Nat /\ 4 + NumSlots * blob_len(len) < SectorLen
  BY <1>2, LensFacts
<1>4. NumSlots * blob_len(len) >= 0
  BY <1>1, <1>3
<1>5. SectorLen > 4
  <2> DEFINE p == NumSlots * blob_len(len)
  <2>1. p \in Int /\ p >= 0 /\ 4 + p < SectorLen
    BY <1>1, <1>3, <1>4
  <2> HIDE DEF p
  <2> QED
    BY <1>1, <2>1
<1> QED
  BY <1>1, <1>5

\* Where the sectors lie: one after the other, apart from each other.
LEMMA SectorFacts ==
  ASSUME NEW s \in Sectors
  PROVE  /\ 1 - s \in Sectors /\ 1 - (1 - s) = s /\ s \in Int
         /\ Base(s) \in Nat /\ Base(s) % 2 = 0 /\ Base(s) >= 4
         /\ Limit(s) \in Nat /\ Limit(s) = Base(s) + SectorLen /\ Limit(s) % 2 = 0
         /\ DataStart(s) = Base(s) + 4 /\ DataStart(s) \in Aligned /\ DataStart(s) < Limit(s)
         /\ SectorWords(s) = Base(s) .. Limit(s) - 1
         /\ Limit(s) <= Limit(1)
         /\ Limit(s) <= Base(1 - s) \/ Limit(1 - s) <= Base(s)
         /\ SectorWords(s) \subseteq Addresses
         /\ SectorWords(s) \cap SectorWords(1 - s) = {}
<1>1. s \in {0, 1} /\ SectorLen \in Nat /\ SectorLen % 2 = 0 /\ SectorLen > 4
  BY Sizes DEF Sectors
<1>2. /\ Base(0) = SectorLen /\ Base(1) = 2 * SectorLen
      /\ Limit(0) = 2 * SectorLen /\ Limit(1) = 3 * SectorLen
      /\ Limit(s) = Base(s) + SectorLen
  BY <1>1 DEF Base, Limit
<1>3. 1 - s \in Sectors /\ 1 - (1 - s) = s /\ s \in Int
  BY <1>1 DEF Sectors
<1>4. /\ Base(s) \in Nat /\ Base(s) % 2 = 0 /\ Base(s) >= 4
      /\ Limit(s) \in Nat /\ Limit(s) = Base(s) + SectorLen /\ Limit(s) % 2 = 0
      /\ Limit(s) <= Limit(1)
      /\ Limit(s) <= Base(1 - s) \/ Limit(1 - s) <= Base(s)
  BY <1>1, <1>2
<1>5. DataStart(s) = Base(s) + 4 /\ DataStart(s) \in Aligned /\ DataStart(s) < Limit(s)
  BY <1>1, <1>4 DEF DataStart, Aligned
<1>6. SectorWords(s) = Base(s) .. Limit(s) - 1 /\ SectorWords(1 - s) = Base(1 - s) .. Limit(1 - s) - 1
  BY DEF SectorWords
<1>7. Base(1 - s) \in Nat /\ Limit(1 - s) \in Nat
  BY <1>1, <1>2
<1>8. SectorWords(s) \subseteq Addresses /\ SectorWords(s) \cap SectorWords(1 - s) = {}
  <2> DEFINE b == Base(s)
             l == Limit(s)
             c == Base(1 - s)
             m == Limit(1 - s)
             t == Limit(1)
  <2>1. /\ b \in Nat /\ l \in Nat /\ c \in Nat /\ m \in Nat /\ t \in Nat /\ l <= t
        /\ l <= c \/ m <= b
        /\ SectorWords(s) = b .. l - 1 /\ SectorWords(1 - s) = c .. m - 1 /\ Addresses = 0 .. t - 1
    BY <1>2, <1>4, <1>6, <1>7, Sizes DEF Addresses
  <2> HIDE DEF b, l, c, m, t
  <2> QED
    BY <2>1
<1> QED
  BY <1>3, <1>4, <1>5, <1>6, <1>8

\* Aligned addresses are two words apart.
LEMMA AlignedFacts ==
  /\ \A a \in Aligned : a \in Nat /\ a % 2 = 0
  /\ \A a \in Aligned, n \in Nat : n % 2 = 0 => a + n \in Aligned
  /\ \A a, c \in Aligned : a < c => a + 2 <= c
  /\ \A a \in Nat : a % 2 = 0 => a \in Aligned
BY DEF Aligned

\* The numbers alone.
LEMMA SectorNums ==
  ASSUME NEW s \in Sectors
  PROVE  /\ Limit(s) \in Nat /\ Limit(s) \in Aligned /\ DataStart(s) \in Nat /\ DataStart(s) \in Aligned
         /\ DataStart(s) < Limit(s) /\ DataStart(s) > 4
         /\ \A x \in Nat : x < Limit(s) => x \in Addresses
<1>1. /\ Limit(s) \in Nat /\ Limit(s) % 2 = 0 /\ DataStart(s) \in Aligned /\ DataStart(s) < Limit(s)
      /\ DataStart(s) = Base(s) + 4 /\ Base(s) \in Nat /\ Base(s) >= 4 /\ Limit(s) <= Limit(1)
  BY SectorFacts
<1>2. Limit(1) \in Nat
  BY SectorFacts DEF Sectors
<1>3. Limit(s) \in Aligned
  BY <1>1, AlignedFacts
<1>4. \A x \in Nat : x < Limit(s) => x \in Addresses
  BY <1>1, <1>2 DEF Addresses
<1> QED
  BY <1>1, <1>3, <1>4, AlignedFacts

-----------------------------------------------------------------------------
(* The walk *)

Stops(f, s, a) == a >= Limit(s) \/ blob_checks(f, a)

\* The addresses met from b, as the least set closed under the walk.
Reach(f, s, b) ==
  {c \in Aligned : \A S \in SUBSET Aligned :
     b \in S /\ (\A d \in S : ~Stops(f, s, d) => After(f, d) \in S) => c \in S}

\* The walk goes on from aligned address to aligned address.
LEMMA AfterAligned ==
  ASSUME NEW f, Typed(f), NEW s \in Sectors, NEW a \in Aligned, ~Stops(f, s, a)
  PROVE  After(f, a) \in Aligned /\ f[a + 1].len \in Nat /\ a < After(f, a) /\ a < Limit(s)
<1>1. a \in Nat /\ Limit(s) \in Nat /\ Limit(s) \in Aligned
  BY AlignedFacts, SectorNums
<1>2. a < Limit(s) /\ f[a + 1].t = "len"
  BY <1>1 DEF Stops, blob_checks
<1>3. a + 1 \in Addresses
  <2>1. a + 2 <= Limit(s)
    BY <1>1, <1>2, AlignedFacts
  <2>2. a + 1 \in Nat /\ a + 1 < Limit(s)
    BY <1>1, <2>1
  <2> QED
    BY <2>2, SectorNums
<1>4. f[a + 1].len \in Nat
  BY <1>2, <1>3 DEF Typed
<1>5. blob_len(f[a + 1].len) \in Nat /\ blob_len(f[a + 1].len) >= 2 /\ blob_len(f[a + 1].len) % 2 = 0
  BY <1>4, LenFacts
<1> QED
  BY <1>1, <1>2, <1>4, <1>5, AlignedFacts DEF After

\* What is met from b is b and what is met from the next address.
LEMMA ReachUnfolds ==
  ASSUME NEW f, Typed(f), NEW s \in Sectors, NEW b \in Aligned
  PROVE  Reach(f, s, b) = IF Stops(f, s, b) THEN {b} ELSE {b} \cup Reach(f, s, After(f, b))
<1> DEFINE Closed(S) == \A d \in S : ~Stops(f, s, d) => After(f, d) \in S
<1>0. \A c \in Aligned : ~Stops(f, s, c) => After(f, c) \in Aligned
  BY AfterAligned
<1>1. CASE Stops(f, s, b)
  <2>1. {b} \in SUBSET Aligned /\ Closed({b})
    BY <1>1
  <2> QED
    BY <1>1, <2>1 DEF Reach
<1>2. CASE ~Stops(f, s, b)
  <2> DEFINE n == After(f, b)
             N == {b} \cup Reach(f, s, n)
  <2>0. n \in Aligned
    BY <1>0, <1>2
  <2>1. \A S \in SUBSET Aligned : b \in S /\ Closed(S) => n \in S
    BY <1>2
  <2> HIDE DEF n
  <2>2. N \subseteq Reach(f, s, b)
    BY <2>1 DEF Reach
  <2>3. N \in SUBSET Aligned /\ b \in N
    BY DEF Reach
  <2>4. Closed(N)
    <3> SUFFICES ASSUME NEW d \in N, ~Stops(f, s, d) PROVE After(f, d) \in N
      OBVIOUS
    <3>1. CASE d = b
      <4>1. n \in Reach(f, s, n)
        BY <2>0 DEF Reach
      <4> QED
        BY <3>1, <4>1 DEF n
    <3>2. CASE d \in Reach(f, s, n)
      <4>1. After(f, d) \in Aligned
        BY <1>0, <3>2 DEF Reach
      <4> QED
        BY <3>2, <4>1 DEF Reach
    <3> QED
      BY <3>1, <3>2
  <2>5. Reach(f, s, b) \subseteq N
    BY <2>3, <2>4 DEF Reach
  <2> QED
    BY <1>2, <2>2, <2>5 DEF n
<1> QED
  BY <1>1, <1>2

\* The recursive function of Walk exists, and is unfolded here.
LEMMA WalkUnfolds ==
  ASSUME NEW f, Typed(f), NEW s \in Sectors
  PROVE  \E from : /\ Walk(f, s) = from[DataStart(s)]
                   /\ \A a \in Aligned :
                        from[a] = IF Stops(f, s, a) THEN {} ELSE {a} \cup from[After(f, a)]
<1> DEFINE Is(g) == g = [a \in Aligned |->
                           IF a >= Limit(s) \/ blob_checks(f, a) THEN {}
                           ELSE {a} \cup g[a + blob_len(f[a + 1].len)]]
           from == CHOOSE g : Is(g)
           r == [a \in Aligned |-> {c \in Reach(f, s, a) : ~Stops(f, s, c)}]
<1>1. \A a \in Aligned : ~Stops(f, s, a) => After(f, a) \in Aligned
  BY AfterAligned
<1>2. \A a \in Aligned : r[a] = IF Stops(f, s, a) THEN {} ELSE {a} \cup r[After(f, a)]
  <2> SUFFICES ASSUME NEW a \in Aligned
               PROVE  r[a] = IF Stops(f, s, a) THEN {} ELSE {a} \cup r[After(f, a)]
    OBVIOUS
  <2>1. r[a] = {c \in Reach(f, s, a) : ~Stops(f, s, c)}
    OBVIOUS
  <2>2. CASE Stops(f, s, a)
    BY <2>1, <2>2, ReachUnfolds
  <2>3. CASE ~Stops(f, s, a)
    <3>1. r[After(f, a)] = {c \in Reach(f, s, After(f, a)) : ~Stops(f, s, c)}
      BY <1>1, <2>3
    <3>2. Reach(f, s, a) = {a} \cup Reach(f, s, After(f, a))
      BY <2>3, ReachUnfolds
    <3> QED
      BY <2>1, <2>3, <3>1, <3>2
  <2> QED
    BY <2>2, <2>3
<1>3. Is(r)
  BY <1>2 DEF Stops, After
<1>4. Is(from)
  BY <1>3
<1>5. Walk(f, s) = from[DataStart(s)]
  BY DEF Walk
<1> HIDE DEF from
<1>6. \A a \in Aligned : from[a] = IF Stops(f, s, a) THEN {} ELSE {a} \cup from[After(f, a)]
  BY <1>4 DEF Stops, After
<1> QED
  BY <1>5, <1>6

\* Over a log the walk meets its blobs and stops at its end.
LEMMA WalkIsLog ==
  ASSUME NEW f, Typed(f), NEW s \in Sectors, NEW A, NEW end, LogAt(f, s, A, end), f[end] = E
  PROVE  Walk(f, s) = A /\ WalkEnd(f, s) = end
<1>0. /\ Limit(s) \in Nat /\ end \in Aligned /\ end < Limit(s)
      /\ DataStart(s) \in A \cup {end} /\ end \in Nat /\ DataStart(s) \in Nat /\ DataStart(s) <= end
      /\ \A a \in A : a \in Aligned /\ a \in Nat /\ DataStart(s) <= a /\ a < end
  BY SectorNums, AlignedFacts DEF LogAt
<1>1. PICK from : /\ Walk(f, s) = from[DataStart(s)]
                  /\ \A a \in Aligned :
                       from[a] = IF Stops(f, s, a) THEN {} ELSE {a} \cup from[After(f, a)]
  BY WalkUnfolds
<1>2. Stops(f, s, end)
  BY DEF Stops, blob_checks, E
<1>3. ASSUME NEW a \in A PROVE ~Stops(f, s, a)
  <2>1. IsBlob(f, a) /\ ~(a >= Limit(s))
    BY <1>0 DEF LogAt
  <2> QED
    BY <2>1 DEF Stops, blob_checks, IsBlob
<1>4. \A a \in A \cup {end} : from[a] = {b \in A : a <= b}
  <2> DEFINE Bad == {a \in A \cup {end} : from[a] # {b \in A : a <= b}}
  <2> SUFFICES ASSUME Bad # {} PROVE FALSE
    OBVIOUS
  <2>1. Bad \subseteq 0 .. end
    BY <1>0
  <2>2. PICK a \in Bad : \A y \in Bad : y <= a
    BY <1>0, <2>1, MaxIsLast
  <2>3. a \in A \cup {end} /\ a \in Aligned /\ from[a] # {b \in A : a <= b}
    BY <1>0
  <2>4. CASE a = end
    <3>1. from[a] = {}
      BY <1>1, <1>2, <2>3, <2>4
    <3>2. \A b \in A : ~(end <= b)
      BY <1>0
    <3> QED
      BY <2>3, <2>4, <3>1, <3>2
  <2>5. CASE a \in A
    <3> DEFINE n == After(f, a)
    <3>1. n \in A \cup {end} /\ \A c \in A \cup {end} : a < c => n <= c
      BY <2>5 DEF LogAt
    <3>2. from[a] = {a} \cup from[n] /\ a < n /\ n \in Aligned
      BY <1>1, <1>3, <2>3, <2>5, AfterAligned
    <3> HIDE DEF n
    <3>3. n \notin Bad
      BY <1>0, <2>2, <2>3, <3>2, AlignedFacts
    <3>4. from[n] = {b \in A : n <= b}
      BY <3>1, <3>3
    <3>5. {a} \cup {b \in A : n <= b} = {b \in A : a <= b}
      <4>1. a \in Nat /\ n \in Nat /\ \A b \in A : b \in Nat
        BY <1>0, <2>5, <3>2, AlignedFacts
      <4>2. \A b \in A : a <= b <=> b = a \/ n <= b
        BY <3>1, <3>2, <4>1
      <4> QED
        BY <2>5, <4>2
    <3> QED
      BY <2>3, <3>2, <3>4, <3>5
  <2> QED
    BY <2>3, <2>4, <2>5
<1>5. Walk(f, s) = A
  <2>1. Walk(f, s) = {b \in A : DataStart(s) <= b}
    BY <1>0, <1>1, <1>4
  <2> QED
    BY <1>0, <2>1
<1>6. CASE A = {}
  BY <1>0, <1>5, <1>6 DEF WalkEnd
<1>7. CASE A # {}
  <2> DEFINE m == Max(A)
  <2>1. A \subseteq 0 .. end
    BY <1>0
  <2>2. m \in A /\ \A y \in A : y <= m
    BY <1>0, <1>7, <2>1, MaxIsLast
  <2>3. WalkEnd(f, s) = After(f, m)
    BY <1>5, <1>7 DEF WalkEnd, After
  <2> HIDE DEF m
  <2>4. m < After(f, m) /\ m \in Nat /\ After(f, m) \in Nat
    BY <1>0, <1>3, <2>2, AfterAligned, AlignedFacts
  <2>5. After(f, m) \in A \cup {end}
    BY <2>2 DEF LogAt
  <2>6. After(f, m) \notin A
    BY <2>2, <2>4
  <2> QED
    BY <1>5, <2>3, <2>5, <2>6
<1> QED
  BY <1>5, <1>6, <1>7

-----------------------------------------------------------------------------
(* Blobs and files *)

\* The order of a log, in numbers.
LEMMA LogOrder ==
  ASSUME NEW f, NEW s \in Sectors, NEW A, NEW end, LogAt(f, s, A, end)
  PROVE  /\ end \in Nat /\ end \in Aligned /\ DataStart(s) <= end /\ end < Limit(s) /\ end > 4
         /\ end \in Addresses /\ end + 1 \in Addresses /\ end + 2 <= Limit(s)
         /\ \A a \in A : /\ a \in Nat /\ a \in Aligned /\ DataStart(s) <= a /\ a < end /\ a > 4 /\ a \in Addresses
                         /\ IsBlob(f, a) /\ f[a + 1].len \in Nat
                         /\ After(f, a) \in Nat /\ a + 2 <= After(f, a) /\ After(f, a) <= end
                         /\ (f[a + 1].len + 1) \div 2 \in Nat
                         /\ a + 2 + (f[a + 1].len + 1) \div 2 <= After(f, a)
<1>1. /\ end \in Nat /\ end \in Aligned /\ DataStart(s) <= end /\ end < Limit(s) /\ end > 4
      /\ end + 2 <= Limit(s) /\ Limit(s) \in Nat
  BY SectorNums, AlignedFacts DEF LogAt
<1>2. end \in Addresses /\ end + 1 \in Addresses
  <2>1. end + 1 \in Nat /\ end + 1 < Limit(s)
    BY <1>1
  <2> QED
    BY <1>1, <2>1, SectorNums
<1>3. ASSUME NEW a \in A
      PROVE  /\ a \in Nat /\ a \in Aligned /\ DataStart(s) <= a /\ a < end /\ a > 4 /\ a \in Addresses
             /\ IsBlob(f, a) /\ f[a + 1].len \in Nat
             /\ After(f, a) \in Nat /\ a + 2 <= After(f, a) /\ After(f, a) <= end
             /\ (f[a + 1].len + 1) \div 2 \in Nat
             /\ a + 2 + (f[a + 1].len + 1) \div 2 <= After(f, a)
  <2>1. a \in Aligned /\ DataStart(s) <= a /\ a < end /\ IsBlob(f, a) /\ After(f, a) <= end
    BY DEF LogAt
  <2>2. a \in Nat /\ a > 4 /\ a < Limit(s)
    BY <1>1, <2>1, SectorNums, AlignedFacts
  <2>3. a \in Addresses
    BY <2>2, SectorNums
  <2>4. f[a + 1].len \in Nat
    BY <2>1 DEF IsBlob
  <2> DEFINE n == blob_len(f[a + 1].len)
             w == (f[a + 1].len + 1) \div 2
  <2>5. n \in Nat /\ n >= 2 /\ w \in Nat /\ w + 2 <= n /\ After(f, a) = a + n
    BY <2>4, LenFacts DEF After
  <2> HIDE DEF n, w
  <2>6. After(f, a) \in Nat /\ a + 2 <= After(f, a) /\ w \in Nat /\ a + 2 + w <= After(f, a)
    BY <2>2, <2>5
  <2> QED
    BY <2>1, <2>2, <2>3, <2>4, <2>6 DEF w
<1> QED
  BY <1>1, <1>2, <1>3

\* What BlobAddrs finds, and that nothing else is meant by Blobs.
LEMMA BlobAddrsAre ==
  ASSUME NEW f, Typed(f), NEW s \in Sectors, NEW A, NEW end, LogAt(f, s, A, end), f[end] = E
  PROVE  Blobs(f, A, BlobAddrs(f, s)) /\ DOMAIN BlobAddrs(f, s) = Slots
<1>1. Walk(f, s) = A /\ end \in Nat /\ \A a \in A : a \in Nat /\ a < end
  BY WalkIsLog, LogOrder
<1> DEFINE V(slot) == {a \in {a \in A : f[a].invalid = 1} : f[a].slot = slot}
<1>2. BlobAddrs(f, s) = [slot \in Slots |->
         IF V(slot) = {} \/ f[Max(V(slot))].cleared = 0 THEN 0 ELSE Max(V(slot))]
  BY <1>1 DEF BlobAddrs
<1>3. ASSUME NEW slot \in Slots PROVE BlobAt(f, A, slot, BlobAddrs(f, s)[slot])
  <2>1. BlobAddrs(f, s)[slot] = IF V(slot) = {} \/ f[Max(V(slot))].cleared = 0 THEN 0 ELSE Max(V(slot))
    BY <1>2
  <2>2. CASE V(slot) = {}
    BY <2>1, <2>2 DEF BlobAt, Valid
  <2>3. CASE V(slot) # {}
    <3> DEFINE m == Max(V(slot))
    <3>1. V(slot) \subseteq 0 .. end
      BY <1>1
    <3>2. m \in V(slot) /\ \A y \in V(slot) : y <= m
      BY <1>1, <2>3, <3>1, MaxIsLast
    <3> HIDE DEF m
    <3>3. m \in A /\ Valid(f, m, slot) /\ \A a \in A : Valid(f, a, slot) => a <= m
      BY <3>2 DEF Valid
    <3>4. BlobAddrs(f, s)[slot] = IF f[m].cleared = 0 THEN 0 ELSE m
      BY <2>1, <2>3 DEF m
    <3> QED
      BY <3>3, <3>4 DEF BlobAt
  <2> QED
    BY <2>2, <2>3
<1> QED
  BY <1>2, <1>3 DEF Blobs

\* A slot has one blob.
LEMMA BlobAtUnique ==
  ASSUME NEW f, NEW A, A \subseteq Nat, NEW slot, NEW b, NEW c,
         BlobAt(f, A, slot, b), BlobAt(f, A, slot, c)
  PROVE  b = c
<1>1. ASSUME NEW m \in A, NEW n \in A, Valid(f, m, slot), Valid(f, n, slot),
             \A a \in A : Valid(f, a, slot) => a <= m, \A a \in A : Valid(f, a, slot) => a <= n
      PROVE  m = n
  BY <1>1
<1> QED
  BY <1>1 DEF BlobAt

\* A blob that a slot has.
LEMMA BlobAtIs ==
  ASSUME NEW f, NEW s \in Sectors, NEW A, NEW end, LogAt(f, s, A, end), NEW slot \in Slots, NEW b,
         BlobAt(f, A, slot, b)
  PROVE  /\ b = 0 \/ (b \in A /\ Valid(f, b, slot) /\ f[b].cleared = 1 /\ f[b + 1].len \in Lens)
         /\ b \in Addresses
<1>1. 0 \in Addresses
  <2>1. 0 \in Nat /\ 0 < Limit(s)
    BY SectorNums
  <2> QED
    BY <2>1, SectorNums
<1>2. ASSUME NEW m \in A, Valid(f, m, slot), f[m].cleared # 0
      PROVE  f[m].cleared = 1 /\ f[m + 1].len \in Lens
  <2>1. IsBlob(f, m)
    BY LogOrder
  <2> QED
    BY <1>2, <2>1 DEF IsBlob, Valid
<1>3. \A m \in A : m \in Addresses
  BY LogOrder
<1>4. CASE b = 0
  BY <1>1, <1>4
<1>5. CASE b # 0
  <2>1. PICK m \in A : /\ Valid(f, m, slot)
                       /\ b = IF f[m].cleared = 0 THEN 0 ELSE m
    BY <1>5 DEF BlobAt
  <2> QED
    BY <1>2, <1>3, <1>5, <2>1
<1> QED
  BY <1>4, <1>5

\* The files as a restart finds them.
Kept(f) ==
  [slot \in Slots |-> IF ProbedSector(f) = -1 THEN NoFile
                      ELSE FileAt(f, BlobAddrs(f, ProbedSector(f))[slot])]

\* What a restart finds, as a function of the flash.
LEMMA StoredIsKept == Stored = Kept(flash)
BY DEF Stored, Kept

\* What a restart finds is read from the log.
LEMMA KeptIs ==
  ASSUME NEW f, Typed(f), NEW s \in Sectors, NEW A, NEW end, LogAt(f, s, A, end), f[end] = E,
         ProbedSector(f) = s, NEW blob, Blobs(f, A, blob)
  PROVE  /\ Kept(f) = [slot \in Slots |-> FileAt(f, blob[slot])]
         /\ \A slot \in Slots : BlobAddrs(f, s)[slot] = blob[slot]
<1>1. Blobs(f, A, BlobAddrs(f, s)) /\ A \subseteq Nat
  BY BlobAddrsAre, LogOrder
<1>2. ASSUME NEW slot \in Slots PROVE BlobAddrs(f, s)[slot] = blob[slot]
  BY <1>1, BlobAtUnique DEF Blobs
<1>3. s # -1
  BY DEF Sectors
<1> QED
  BY <1>2, <1>3 DEF Kept

\* Files do not change where the log does not.
Agree(f, g, lo, hi) == \A x \in Nat : lo <= x /\ x < hi => f[x] = g[x]

\* A file is read from the words of its blob.
LEMMA FileFrame ==
  ASSUME NEW f, NEW g, NEW a \in Nat, f[a + 1].t = "len", f[a + 1].len \in Nat,
         NEW hi \in Nat, a + 2 + (f[a + 1].len + 1) \div 2 <= hi, Agree(f, g, a + 1, hi)
  PROVE  FileAt(g, a) = FileAt(f, a)
<1> DEFINE w == (f[a + 1].len + 1) \div 2
<1>0. w \in Nat /\ a + 2 + w <= hi
  BY LenFacts
<1>1. g[a + 1] = f[a + 1]
  <2>1. a + 1 \in Nat /\ a + 1 <= a + 1 /\ a + 1 < hi
    BY <1>0
  <2> QED
    BY <2>1 DEF Agree
<1>2. \A i \in 1 .. w : g[a + 1 + i] = f[a + 1 + i]
  <2> SUFFICES ASSUME NEW i \in 1 .. w PROVE g[a + 1 + i] = f[a + 1 + i]
    OBVIOUS
  <2>1. a + 1 + i \in Nat /\ a + 1 <= a + 1 + i /\ a + 1 + i < hi
    BY <1>0
  <2> QED
    BY <2>1 DEF Agree
<1>3. CASE a = 0
  BY <1>3 DEF FileAt
<1>4. ASSUME a # 0
      PROVE  /\ FileAt(f, a) = [i \in 1 .. w |-> f[a + 1 + i]]
             /\ FileAt(g, a) = [i \in 1 .. w |-> g[a + 1 + i]]
  BY <1>1, <1>4 DEF FileAt
<1> HIDE DEF w
<1>5. [i \in 1 .. w |-> g[a + 1 + i]] = [i \in 1 .. w |-> f[a + 1 + i]]
  BY <1>2
<1> QED
  BY <1>3, <1>4, <1>5

\* A log stays where its words do.
LEMMA LogFrame ==
  ASSUME NEW f, NEW g, NEW s \in Sectors, NEW A, NEW end, LogAt(f, s, A, end),
         Agree(f, g, DataStart(s), end)
  PROVE  /\ LogAt(g, s, A, end)
         /\ \A slot, b : BlobAt(f, A, slot, b) => BlobAt(g, A, slot, b)
         /\ \A a \in A : FileAt(g, a) = FileAt(f, a)
<1>1. ASSUME NEW a \in A PROVE g[a] = f[a] /\ g[a + 1] = f[a + 1] /\ FileAt(g, a) = FileAt(f, a)
  <2>1. /\ a \in Nat /\ DataStart(s) <= a /\ a + 2 <= After(f, a) /\ After(f, a) <= end /\ end \in Nat
        /\ After(f, a) \in Nat /\ DataStart(s) \in Nat
        /\ a + 2 + (f[a + 1].len + 1) \div 2 <= After(f, a) /\ IsBlob(f, a)
    BY LogOrder, SectorNums
  <2>2. /\ a \in Nat /\ DataStart(s) <= a /\ a < end
        /\ a + 1 \in Nat /\ DataStart(s) <= a + 1 /\ a + 1 < end
    BY <2>1
  <2>3. g[a] = f[a] /\ g[a + 1] = f[a + 1]
    BY <2>2 DEF Agree
  <2>4. Agree(f, g, a + 1, After(f, a))
    BY <2>1 DEF Agree
  <2>5. f[a + 1].t = "len" /\ f[a + 1].len \in Nat
    BY <2>1 DEF IsBlob
  <2>6. FileAt(g, a) = FileAt(f, a)
    BY <2>1, <2>4, <2>5, FileFrame
  <2> QED
    BY <2>3, <2>6
<1>2. \A a \in A : (IsBlob(f, a) <=> IsBlob(g, a)) /\ After(g, a) = After(f, a)
  BY <1>1 DEF IsBlob, After
<1>3. LogAt(g, s, A, end)
  BY <1>2 DEF LogAt
<1>4. \A slot : \A a \in A : Valid(f, a, slot) <=> Valid(g, a, slot)
  BY <1>1 DEF Valid
<1>5. ASSUME NEW slot, NEW b, BlobAt(f, A, slot, b) PROVE BlobAt(g, A, slot, b)
  BY <1>1, <1>4, <1>5 DEF BlobAt
<1> QED
  BY <1>1, <1>3, <1>5

\* The blob at the end is done.
LEMMA LogAdds ==
  ASSUME NEW f, NEW s \in Sectors, NEW A, NEW end, LogAt(f, s, A, end),
         IsBlob(f, end), After(f, end) < Limit(s)
  PROVE  LogAt(f, s, A \cup {end}, After(f, end))
<1> DEFINE B == A \cup {end}
           n == After(f, end)
<1>1. end \in Nat /\ end \in Aligned /\ DataStart(s) <= end /\ end < Limit(s)
  BY LogOrder
<1>2. \A a \in A : a \in Nat /\ DataStart(s) <= a /\ a < end /\ After(f, a) <= end
  BY LogOrder
<1>3. n \in Aligned /\ n \in Nat /\ end < n
  <2>1. f[end + 1].len \in Nat
    BY DEF IsBlob
  <2>2. blob_len(f[end + 1].len) \in Nat /\ blob_len(f[end + 1].len) >= 2
        /\ blob_len(f[end + 1].len) % 2 = 0
    BY <2>1, LenFacts
  <2> QED
    BY <1>1, <2>2, AlignedFacts DEF After
<1>4. n < Limit(s)
  OBVIOUS
<1> HIDE DEF n
<1>5. B \subseteq Aligned /\ DataStart(s) \in B \cup {n} /\ DataStart(s) <= n
  <2>1. A \subseteq Aligned /\ DataStart(s) \in A \cup {end}
    BY DEF LogAt
  <2>2. DataStart(s) \in Nat
    BY SectorNums
  <2> QED
    BY <1>1, <1>3, <2>1, <2>2
<1>6. ASSUME NEW a \in B
      PROVE  DataStart(s) <= a /\ a < n /\ IsBlob(f, a) /\ After(f, a) \in B \cup {n}
  <2>1. CASE a = end
    BY <1>1, <1>3, <2>1 DEF n
  <2>2. CASE a \in A
    <3>1. IsBlob(f, a) /\ After(f, a) \in A \cup {end}
      BY <2>2 DEF LogAt
    <3> QED
      BY <1>1, <1>2, <1>3, <2>2, <3>1
  <2> QED
    BY <2>1, <2>2
<1>7. ASSUME NEW a \in B, NEW c \in B \cup {n}, a < c
      PROVE  After(f, a) <= c
  <2>1. CASE a \in A /\ c \in A
    BY <1>7, <2>1 DEF LogAt
  <2>2. CASE a \in A /\ c = end
    BY <1>2, <2>2
  <2>3. CASE a \in A /\ c = n
    <3>1. After(f, a) \in Nat /\ After(f, a) <= end
      BY <2>3, LogOrder
    <3> QED
      BY <1>1, <1>3, <2>3, <3>1
  <2>4. CASE a = end /\ c \in A
    BY <1>1, <1>2, <1>7, <2>4
  <2>5. CASE a = end /\ c = n
    BY <1>3, <2>5 DEF n
  <2> QED
    BY <1>1, <1>7, <2>1, <2>2, <2>3, <2>4, <2>5
<1> QED
  BY <1>3, <1>4, <1>5, <1>6, <1>7 DEF LogAt, n

\* What it does to the blobs of the slots.
LEMMA BlobsAdd ==
  ASSUME NEW f, NEW s \in Sectors, NEW A, NEW end, LogAt(f, s, A, end), NEW slot \in Slots, NEW b,
         BlobAt(f, A, slot, b)
  PROVE  /\ ~Valid(f, end, slot) => BlobAt(f, A \cup {end}, slot, b)
         /\ Valid(f, end, slot) /\ f[end].cleared = 1 => BlobAt(f, A \cup {end}, slot, end)
<1>1. end \in Nat /\ \A a \in A : a \in Nat /\ a < end
  BY LogOrder
<1>2. ASSUME ~Valid(f, end, slot) PROVE BlobAt(f, A \cup {end}, slot, b)
  <2>1. CASE b = 0 /\ \A a \in A : ~Valid(f, a, slot)
    BY <1>2, <2>1 DEF BlobAt
  <2>2. CASE \E m \in A : /\ Valid(f, m, slot) /\ \A a \in A : Valid(f, a, slot) => a <= m
                          /\ b = IF f[m].cleared = 0 THEN 0 ELSE m
    BY <1>2, <2>2 DEF BlobAt
  <2> QED
    BY <2>1, <2>2 DEF BlobAt
<1>3. ASSUME Valid(f, end, slot), f[end].cleared = 1 PROVE BlobAt(f, A \cup {end}, slot, end)
  <2>1. \A a \in A \cup {end} : a <= end
    BY <1>1
  <2> QED
    BY <1>3, <2>1 DEF BlobAt
<1> QED
  BY <1>2, <1>3

\* sm_delete: the header of a blob gets its cleared flag.
LEMMA LogClears ==
  ASSUME NEW f, NEW s \in Sectors, NEW A, NEW end, LogAt(f, s, A, end), NEW m \in A, NEW slot \in Slots,
         BlobAt(f, A, slot, m), NEW g,
         \A x \in Nat : x # m /\ x < end => g[x] = f[x], g[m] = [f[m] EXCEPT !.cleared = 0]
  PROVE  /\ LogAt(g, s, A, end)
         /\ BlobAt(g, A, slot, 0)
         /\ \A k \in Slots : \A b : k # slot /\ BlobAt(f, A, k, b) => BlobAt(g, A, k, b)
         /\ \A a \in A : FileAt(g, a) = FileAt(f, a)
<1>1. IsBlob(f, m) /\ m \in Nat /\ m # 0
  <2>1. IsBlob(f, m) /\ m \in Nat /\ m > 4
    BY LogOrder
  <2> QED
    BY <2>1
<1>2. /\ g[m] \in [t : {"hdr"}, slot : Slots, invalid : {0, 1}, cleared : {0, 1}]
      /\ g[m].slot = f[m].slot /\ g[m].invalid = f[m].invalid /\ g[m].cleared = 0
  BY <1>1 DEF IsBlob
<1>3. ASSUME NEW a \in A PROVE g[a + 1] = f[a + 1] /\ FileAt(g, a) = FileAt(f, a)
  <2>1. /\ a \in Nat /\ m \in Nat /\ a + 2 <= After(f, a) /\ After(f, a) \in Nat
        /\ a + 2 + (f[a + 1].len + 1) \div 2 <= After(f, a) /\ IsBlob(f, a)
        /\ After(f, a) <= end /\ end \in Nat
    BY LogOrder
  <2>2. a < m => After(f, a) <= m
    BY DEF LogAt
  <2>3. Agree(f, g, a + 1, After(f, a))
    BY <2>1, <2>2 DEF Agree
  <2>4. a + 1 \in Nat /\ a + 1 # m /\ a + 1 < end
    BY <2>1, <2>2
  <2>5. f[a + 1].t = "len" /\ f[a + 1].len \in Nat
    BY <2>1 DEF IsBlob
  <2>6. FileAt(g, a) = FileAt(f, a)
    BY <2>1, <2>3, <2>5, FileFrame
  <2> QED
    BY <2>4, <2>6
<1>4. ASSUME NEW a \in A PROVE IsBlob(g, a) /\ After(g, a) = After(f, a)
  <2>1. IsBlob(f, a) /\ a \in Nat /\ g[a + 1] = f[a + 1]
    BY <1>3, LogOrder
  <2>2. CASE a = m
    BY <1>2, <2>1, <2>2 DEF IsBlob, After
  <2>3. CASE a # m
    <3>1. g[a] = f[a]
      BY <2>1, <2>3, LogOrder
    <3> QED
      BY <2>1, <3>1 DEF IsBlob, After
  <2> QED
    BY <2>2, <2>3
<1>5. LogAt(g, s, A, end)
  BY <1>4 DEF LogAt
<1>6. ASSUME NEW k, NEW a \in A PROVE (Valid(f, a, k) <=> Valid(g, a, k)) /\ (a # m => g[a] = f[a])
  <2>1. a \in Nat /\ a < end
    BY LogOrder
  <2> QED
    BY <1>2, <2>1 DEF Valid
<1>7. Valid(f, m, slot) /\ \A a \in A : Valid(f, a, slot) => a <= m
  <2>1. PICK c \in A : /\ Valid(f, c, slot) /\ \A a \in A : Valid(f, a, slot) => a <= c
                       /\ m = IF f[c].cleared = 0 THEN 0 ELSE c
    BY <1>1 DEF BlobAt
  <2> QED
    BY <1>1, <2>1
<1>8. BlobAt(g, A, slot, 0)
  BY <1>2, <1>6, <1>7 DEF BlobAt
<1>9. ASSUME NEW k \in Slots, NEW b, k # slot, BlobAt(f, A, k, b) PROVE BlobAt(g, A, k, b)
  <2>1. ~Valid(f, m, k)
    BY <1>7, <1>9 DEF Valid
  <2>2. CASE \A a \in A : ~Valid(f, a, k)
    <3>1. b = 0
      BY <1>9, <2>2 DEF BlobAt
    <3> QED
      BY <1>6, <2>2, <3>1 DEF BlobAt
  <2>3. CASE \E c \in A : Valid(f, c, k)
    <3>1. PICK c \in A : /\ Valid(f, c, k) /\ \A a \in A : Valid(f, a, k) => a <= c
                         /\ b = IF f[c].cleared = 0 THEN 0 ELSE c
      BY <1>9, <2>3 DEF BlobAt
    <3>2. g[c] = f[c]
      BY <1>6, <2>1, <3>1
    <3> QED
      BY <1>6, <3>1, <3>2 DEF BlobAt
  <2> QED
    BY <2>2, <2>3
<1> QED
  BY <1>3, <1>5, <1>8, <1>9

-----------------------------------------------------------------------------
(* The states of the flash and of the RAM *)

\* Every length is even.
EvenLens == \A len \in Lens : len % 2 = 0

Rams == [cur : Sectors, last : 0 .. Limit(1), blob : [Slots -> Addresses]]

\* The sector in use and the addresses of its log are those in RAM.
LogIsIn(f, r) ==
  /\ Clean(f, r.cur, r.last)
  /\ \E A : LogAt(f, r.cur, A, r.last) /\ Blobs(f, A, r.blob)

RamOK(f, r) == ProbedSector(f) = r.cur /\ Erased(f, 1 - r.cur) /\ LogIsIn(f, r)

\* What a power cut may leave.
Sound(f) == ProbedSector(f) # -1 => SectorSound(f, ProbedSector(f))
Moving(f) ==
  LET s == ProbedSector(f)
  IN s # -1 /\ NoMagic(f, 1 - s) /\ \E a \in SectorWords(1 - s) : f[a] # E

\* Which sector is probed.
LEMMA ProbeFacts ==
  ASSUME NEW f
  PROVE  /\ ProbedSector(f) \in Sectors \cup {-1} /\ -1 \notin Sectors
         /\ \A s \in Sectors : ProbedSector(f) = s => HasMagic(f, s)
         /\ ProbedSector(f) = -1 => ~HasMagic(f, 0) /\ ~HasMagic(f, 1)
         /\ \A s \in Sectors : HasMagic(f, s) /\ ~HasMagic(f, 1 - s) => ProbedSector(f) = s
         /\ ~HasMagic(f, 0) /\ ~HasMagic(f, 1) => ProbedSector(f) = -1
         /\ HasMagic(f, 0) => ProbedSector(f) = 0
BY DEF ProbedSector, Sectors

\* The words of a sector header are all different.
LEMMA WordsDiffer ==
  /\ \A h : Magic(h) # E /\ SlotsWord # Magic(h)
  /\ Magic(1) # Magic(2) /\ SlotsWord # E
  /\ E.t = "erased" /\ SlotsWord.t = "slots" /\ \A h : Magic(h).t = "magic"
BY DEF Magic, E, SlotsWord

\* The words of a sector, in numbers.
LEMMA HeaderWords ==
  ASSUME NEW s \in Sectors
  PROVE  /\ Base(s) \in SectorWords(s) /\ Base(s) + 1 \in SectorWords(s) /\ Base(s) + 2 \in SectorWords(s)
         /\ Base(s) \in Nat /\ Limit(s) \in Nat /\ DataStart(s) = Base(s) + 4 /\ DataStart(s) < Limit(s)
         /\ \A x : x \in SectorWords(s) <=> x \in Nat /\ Base(s) <= x /\ x < Limit(s)
         /\ \A x \in SectorWords(s) : x \in Addresses /\ x \notin SectorWords(1 - s)
<1>1. /\ Base(s) \in Nat /\ Limit(s) \in Nat /\ DataStart(s) = Base(s) + 4 /\ DataStart(s) < Limit(s)
      /\ SectorWords(s) = Base(s) .. Limit(s) - 1
      /\ SectorWords(s) \subseteq Addresses /\ SectorWords(s) \cap SectorWords(1 - s) = {}
  BY SectorFacts
<1>2. \A x : x \in SectorWords(s) <=> x \in Nat /\ Base(s) <= x /\ x < Limit(s)
  BY <1>1
<1>3. Base(s) \in SectorWords(s) /\ Base(s) + 1 \in SectorWords(s) /\ Base(s) + 2 \in SectorWords(s)
  BY <1>1, <1>2
<1> QED
  BY <1>1, <1>2, <1>3

\* An erased sector has no part of a magic number.
LEMMA ErasedHasNoMagic ==
  ASSUME NEW f, NEW s \in Sectors, Erased(f, s)
  PROVE  ~HasMagic(f, s) /\ NoMagic(f, s)
<1>1. Base(s) \in SectorWords(s) /\ Base(s) + 1 \in SectorWords(s)
  BY HeaderWords
<1> QED
  BY <1>1, WordsDiffer DEF Erased, HasMagic, NoMagic

\* Erased and Clean words stop the walk.
LEMMA CleanStops ==
  ASSUME NEW f, NEW s \in Sectors, NEW A, NEW end, LogAt(f, s, A, end),
         Clean(f, s, end) \/ \E top : Dirty(f, s, end, top)
  PROVE  f[end] = E
<1>1. end \in Nat /\ end < Limit(s) /\ Limit(s) \in Nat
  BY LogOrder, SectorNums
<1> QED
  BY <1>1 DEF Clean, Dirty

\* With a log that ends in erased words, sm_init finds what the RAM says.
LEMMA LogGivesFiles ==
  ASSUME NEW f, Typed(f), NEW r \in Rams, LogIsIn(f, r), ProbedSector(f) = r.cur
  PROVE  /\ Sound(f)
         /\ Kept(f) = [slot \in Slots |-> FileAt(f, r.blob[slot])]
         /\ \A slot \in Slots : BlobAddrs(f, r.cur)[slot] = r.blob[slot]
<1>1. r.cur \in Sectors
  BY DEF Rams
<1>2. PICK A : LogAt(f, r.cur, A, r.last) /\ Blobs(f, A, r.blob)
  BY DEF LogIsIn
<1>3. Clean(f, r.cur, r.last)
  BY DEF LogIsIn
<1>4. f[r.last] = E
  BY <1>1, <1>2, <1>3, CleanStops
<1>5. Sound(f)
  BY <1>2, <1>3 DEF Sound, SectorSound
<1> QED
  BY <1>1, <1>2, <1>4, <1>5, KeptIs

\* The states between two calls can survive a power cut.
LEMMA RamIsSound ==
  ASSUME NEW f, Typed(f), NEW r \in Rams, RamOK(f, r)
  PROVE  /\ Sound(f) /\ ~Moving(f)
         /\ Kept(f) = [slot \in Slots |-> FileAt(f, r.blob[slot])]
<1>1. Sound(f) /\ Kept(f) = [slot \in Slots |-> FileAt(f, r.blob[slot])]
  BY LogGivesFiles DEF RamOK
<1>2. ~Moving(f)
  BY DEF RamOK, Moving, Erased
<1> QED
  BY <1>1, <1>2

\* Addresses of a log are addresses.
LEMMA LogRam ==
  ASSUME NEW f, NEW s \in Sectors, NEW A, NEW end, LogAt(f, s, A, end),
         NEW blob, Blobs(f, A, blob), blob = [slot \in Slots |-> blob[slot]]
  PROVE  [cur |-> s, last |-> end, blob |-> blob] \in Rams
<1>1. end \in 0 .. Limit(1)
  <2>0. 1 \in Sectors
    BY DEF Sectors
  <2>1. /\ end \in Nat /\ end < Limit(s) /\ Limit(s) <= Limit(1) /\ Limit(s) \in Nat
        /\ Limit(1) \in Nat
    BY <2>0, LogOrder, SectorFacts, SectorNums
  <2> QED
    BY <2>1
<1>2. \A slot \in Slots : blob[slot] \in Addresses
  BY BlobAtIs DEF Blobs
<1>3. blob \in [Slots -> Addresses]
  BY <1>2
<1> QED
  BY <1>1, <1>3 DEF Rams

-----------------------------------------------------------------------------
(* Flash operations *)

FlashWord ==
  {E, Rom, Magic(1), Magic(2), SlotsWord}
    \cup [t : {"len"}, len : Nat]
    \cup [t : {"hdr"}, slot : Nat, invalid : {0, 1}, cleared : {0, 1}]
    \cup [t : {"data"}, value : Values, i : Nat]

Flashes == [Addresses -> FlashWord]
Op == [kind : {"program"}, addr : Addresses, word : FlashWord] \cup [kind : {"erase"}, sector : Sectors]

Put(f, a, w) == [f EXCEPT ![a] = w]
Wiped(f, s) == [x \in Addresses |-> IF x \in SectorWords(s) THEN E ELSE f[x]]

\* The words that are programmed are flash words.
LEMMA WordTypes ==
  /\ E \in FlashWord /\ Rom \in FlashWord /\ Magic(1) \in FlashWord /\ Magic(2) \in FlashWord
  /\ SlotsWord \in FlashWord
  /\ \A len \in Nat : LenWord(len) \in FlashWord
  /\ \A slot \in Nat, i, c \in {0, 1} : Hdr(slot, i, c) \in FlashWord
  /\ \A v \in Values, i \in Nat : DataWord(v, i) \in FlashWord
<1>1. /\ E \in FlashWord /\ Rom \in FlashWord /\ Magic(1) \in FlashWord /\ Magic(2) \in FlashWord
      /\ SlotsWord \in FlashWord
  BY DEF FlashWord
<1>2. \A len \in Nat : LenWord(len) \in FlashWord
  BY DEF FlashWord, LenWord
<1>3. \A slot \in Nat, i, c \in {0, 1} : Hdr(slot, i, c) \in FlashWord
  BY DEF FlashWord, Hdr
<1>4. \A v \in Values, i \in Nat : DataWord(v, i) \in FlashWord
  BY <1>1 DEF FlashWord, DataWord
<1> QED
  BY <1>1, <1>2, <1>3, <1>4

\* Length words hold numbers.
LEMMA FlashTyped ==
  ASSUME NEW f \in Flashes
  PROVE  Typed(f)
<1>1. \A w \in FlashWord : w.t = "len" => w.len \in Nat
  BY DEF FlashWord, E, Rom, Magic, SlotsWord
<1> QED
  BY <1>1 DEF Flashes, Typed

\* The fields of the operations.
LEMMA OpTypes ==
  /\ \A a \in Addresses, w \in FlashWord : /\ Prog(a, w) \in Op /\ Prog(a, w).kind = "program"
                                           /\ Prog(a, w).addr = a /\ Prog(a, w).word = w
  /\ \A s \in Sectors : Erase(s) \in Op /\ Erase(s).kind = "erase" /\ Erase(s).sector = s
BY DEF Prog, Erase, Op

\* One word is programmed.
LEMMA PutIs ==
  ASSUME NEW f \in Flashes, NEW a \in Addresses, NEW w \in FlashWord
  PROVE  /\ Put(f, a, w) \in Flashes /\ Put(f, a, w)[a] = w
         /\ \A x \in Addresses : x # a => Put(f, a, w)[x] = f[x]
BY DEF Put, Flashes

\* One sector is erased.
LEMMA WipedIs ==
  ASSUME NEW f \in Flashes, NEW s \in Sectors
  PROVE  /\ Wiped(f, s) \in Flashes /\ Erased(Wiped(f, s), s)
         /\ \A x \in Addresses : x \notin SectorWords(s) => Wiped(f, s)[x] = f[x]
         /\ \A x \in SectorWords(1 - s) : Wiped(f, s)[x] = f[x]
<1>1. Wiped(f, s) \in Flashes
  BY WordTypes DEF Wiped, Flashes
<1>2. \A x \in SectorWords(s) : x \in Addresses
  BY HeaderWords
<1>3. Erased(Wiped(f, s), s)
  BY <1>2 DEF Erased, Wiped
<1>4. \A x \in Addresses : x \notin SectorWords(s) => Wiped(f, s)[x] = f[x]
  BY DEF Wiped
<1>5. \A x \in SectorWords(1 - s) : x \in Addresses /\ x \notin SectorWords(s)
  <2>1. 1 - s \in Sectors /\ 1 - (1 - s) = s
    BY SectorFacts
  <2> QED
    BY <2>1, HeaderWords
<1> QED
  BY <1>1, <1>3, <1>4, <1>5

\* One operation of the call under way.
LEMMA ProgramStep ==
  ASSUME flash \in Flashes, hung = FALSE, FlashStep, NEW a \in Addresses, NEW w \in FlashWord,
         Head(todo) = Prog(a, w), Takes(flash[a], w)
  PROVE  /\ flash' = Put(flash, a, w) /\ todo' = Tail(todo) /\ hung' = FALSE
         /\ UNCHANGED <<call, ram, result, up>>
<1>1. Prog(a, w).kind = "program" /\ Prog(a, w).addr = a /\ Prog(a, w).word = w
  BY OpTypes
<1> QED
  BY <1>1 DEF FlashStep, Put

\* The same for an erase.
LEMMA EraseStep ==
  ASSUME flash \in Flashes, hung = FALSE, FlashStep, NEW s \in Sectors, Head(todo) = Erase(s)
  PROVE  /\ flash' = Wiped(flash, s) /\ todo' = Tail(todo) /\ hung' = FALSE
         /\ UNCHANGED <<call, ram, result, up>>
<1>1. Erase(s).kind = "erase" /\ Erase(s).sector = s
  BY OpTypes
<1> QED
  BY <1>1 DEF FlashStep, Wiped

\* The sector that is probed depends on the magic numbers only.
LEMMA ProbeFrame ==
  ASSUME NEW f, NEW g,
         \A s \in Sectors : HasMagic(f, s) <=> HasMagic(g, s)
  PROVE  ProbedSector(g) = ProbedSector(f)
BY DEF ProbedSector, Sectors

-----------------------------------------------------------------------------
(* Runs of flash operations *)

\* One operation that the chip can do.
Step(f, o, g) ==
  \/ \E s \in Sectors : o = Erase(s) /\ g = Wiped(f, s)
  \/ \E a \in Addresses, w \in FlashWord : o = Prog(a, w) /\ Takes(f[a], w) /\ g = Put(f, a, w)

\* The operations lead from f to g, each one by a step of R.
Run(f, ops, g, R) ==
  /\ ops \in Seq(Op)
  /\ \E tr : /\ tr[0] = f /\ tr[Len(ops)] = g
             /\ \A i \in 1 .. Len(ops) : Step(tr[i - 1], ops[i], tr[i]) /\ <<tr[i - 1], tr[i]>> \in R

\* Nothing to do.
LEMMA RunNil ==
  ASSUME NEW f, NEW R
  PROVE  Run(f, <<>>, f, R)
<1> DEFINE tr == [i \in {0} |-> f]
<1>1. tr[0] = f /\ <<>> \in Seq(Op) /\ Len(<<>>) = 0
  OBVIOUS
<1>2. \A i \in 1 .. Len(<<>>) : FALSE
  BY <1>1
<1> HIDE DEF tr
<1> QED
  BY <1>1, <1>2 DEF Run

\* One operation.
LEMMA RunOne ==
  ASSUME NEW f, NEW o \in Op, NEW g, NEW R, Step(f, o, g), <<f, g>> \in R
  PROVE  Run(f, <<o>>, g, R)
<1> DEFINE tr == [i \in 0 .. 1 |-> IF i = 0 THEN f ELSE g]
<1>1. tr[0] = f /\ tr[1] = g
  OBVIOUS
<1>2. <<o>> \in Seq(Op) /\ Len(<<o>>) = 1 /\ <<o>>[1] = o
  OBVIOUS
<1>3. \A i \in 1 .. Len(<<o>>) : i = 1 /\ i - 1 = 0
  BY <1>2
<1> HIDE DEF tr
<1>4. \A i \in 1 .. Len(<<o>>) : Step(tr[i - 1], <<o>>[i], tr[i]) /\ <<tr[i - 1], tr[i]>> \in R
  BY <1>1, <1>2, <1>3
<1> QED
  BY <1>1, <1>2, <1>4 DEF Run

\* One sequence of operations after another.
LEMMA RunCat ==
  ASSUME NEW f, NEW P, NEW g, NEW Q, NEW h, NEW R, Run(f, P, g, R), Run(g, Q, h, R)
  PROVE  Run(f, P \o Q, h, R)
<1>1. PICK t : /\ t[0] = f /\ t[Len(P)] = g
               /\ \A i \in 1 .. Len(P) : Step(t[i - 1], P[i], t[i]) /\ <<t[i - 1], t[i]>> \in R
  BY DEF Run
<1>2. PICK u : /\ u[0] = g /\ u[Len(Q)] = h
               /\ \A i \in 1 .. Len(Q) : Step(u[i - 1], Q[i], u[i]) /\ <<u[i - 1], u[i]>> \in R
  BY DEF Run
<1>3. P \in Seq(Op) /\ Q \in Seq(Op)
  BY DEF Run
<1> DEFINE n == Len(P)
           m == Len(Q)
           v == [i \in 0 .. n + m |-> IF i <= n THEN t[i] ELSE u[i - n]]
<1>4. /\ n \in Nat /\ m \in Nat /\ P \o Q \in Seq(Op) /\ Len(P \o Q) = n + m
      /\ \A i \in 1 .. n : (P \o Q)[i] = P[i]
      /\ \A i \in n + 1 .. n + m : (P \o Q)[i] = Q[i - n]
  BY <1>3
<1>5. /\ \A i \in 0 .. n : v[i] = t[i]
      /\ \A i \in n .. n + m : v[i] = u[i - n]
  <2>1. n \in Nat /\ m \in Nat
    BY <1>4
  <2>2. t[n] = u[0]
    BY <1>1, <1>2
  <2> HIDE DEF n, m
  <2>3. \A i \in 0 .. n : i \in 0 .. n + m /\ i <= n
    BY <2>1
  <2>4. \A i \in n .. n + m : i \in 0 .. n + m /\ (i <= n => i = n /\ i - n = 0)
    BY <2>1
  <2> QED
    BY <2>2, <2>3, <2>4
<1> HIDE DEF n, m, v
<1>6. v[0] = f /\ v[Len(P \o Q)] = h
  <2>1. 0 \in 0 .. n /\ n + m \in n .. n + m /\ n + m - n = m
    BY <1>4
  <2> QED
    BY <1>1, <1>2, <1>4, <1>5, <2>1 DEF n, m
<1>7. ASSUME NEW i \in 1 .. Len(P \o Q)
      PROVE  Step(v[i - 1], (P \o Q)[i], v[i]) /\ <<v[i - 1], v[i]>> \in R
  <2>1. CASE i <= n
    <3>1. i \in 1 .. n /\ i \in 0 .. n /\ i - 1 \in 0 .. n
      BY <1>4, <2>1
    <3>2. v[i] = t[i] /\ v[i - 1] = t[i - 1] /\ (P \o Q)[i] = P[i]
      BY <1>4, <1>5, <3>1
    <3> QED
      BY <1>1, <3>1, <3>2 DEF n
  <2>2. CASE i > n
    <3> DEFINE j == i - n
    <3>1. i \in n + 1 .. n + m /\ i \in n .. n + m /\ i - 1 \in n .. n + m /\ j \in 1 .. m /\ i - 1 - n = j - 1
      BY <1>4, <2>2
    <3>2. v[i] = u[j] /\ v[i - 1] = u[j - 1] /\ (P \o Q)[i] = Q[j]
      BY <1>4, <1>5, <3>1
    <3> HIDE DEF j
    <3> QED
      BY <1>2, <3>1, <3>2 DEF m
  <2> QED
    BY <1>4, <2>1, <2>2
<1> QED
  BY <1>4, <1>6, <1>7 DEF Run

\* One operation before others.
LEMMA RunCons ==
  ASSUME NEW f, NEW ops \in Seq(Op), NEW g, NEW h, NEW R, ops # <<>>,
         Step(f, Head(ops), g), <<f, g>> \in R, Run(g, Tail(ops), h, R)
  PROVE  Run(f, ops, h, R)
<1> DEFINE o == Head(ops)
           T == Tail(ops)
           c == <<o>> \o T
<1>1. o \in Op /\ T \in Seq(Op) /\ Len(T) = Len(ops) - 1 /\ Len(ops) \in Nat /\ Len(ops) >= 1
  OBVIOUS
<1>2. o = ops[1] /\ \A i \in 1 .. Len(T) : T[i] = ops[i + 1]
  OBVIOUS
<1> HIDE DEF o, T
<1>3. c \in Seq(Op) /\ Len(c) = Len(ops) /\ c[1] = o /\ \A i \in 2 .. Len(ops) : c[i] = T[i - 1]
  BY <1>1
<1> HIDE DEF c
<1>4. \A i \in 1 .. Len(c) : c[i] = ops[i]
  <2> SUFFICES ASSUME NEW i \in 1 .. Len(ops) PROVE c[i] = ops[i]
    BY <1>3
  <2>1. CASE i = 1
    BY <1>2, <1>3, <2>1
  <2>2. CASE i # 1
    <3>1. i \in 2 .. Len(ops) /\ i - 1 \in 1 .. Len(T) /\ i - 1 + 1 = i
      BY <1>1, <2>2
    <3>2. c[i] = T[i - 1] /\ T[i - 1] = ops[i - 1 + 1]
      BY <1>2, <1>3, <3>1
    <3> QED
      BY <3>1, <3>2
  <2> QED
    BY <2>1, <2>2
<1>5. c = ops
  BY <1>3, <1>4, SeqEqual
<1>6. Run(f, <<o>>, g, R)
  BY <1>1, RunOne DEF o
<1>7. Run(f, c, h, R)
  BY <1>6, RunCat DEF c, T
<1> QED
  BY <1>5, <1>7

\* The first operation.
LEMMA RunHead ==
  ASSUME NEW f, NEW ops, NEW h, NEW R, Run(f, ops, h, R), ops # <<>>
  PROVE  /\ Head(ops) \in Op
         /\ \E g : Step(f, Head(ops), g) /\ <<f, g>> \in R /\ Run(g, Tail(ops), h, R)
<1>1. ops \in Seq(Op)
  BY DEF Run
<1>2. PICK t : /\ t[0] = f /\ t[Len(ops)] = h
               /\ \A i \in 1 .. Len(ops) : Step(t[i - 1], ops[i], t[i]) /\ <<t[i - 1], t[i]>> \in R
  BY DEF Run
<1> DEFINE n == Len(ops)
           T == Tail(ops)
           u == [i \in 0 .. n - 1 |-> t[i + 1]]
<1>3. /\ n \in Nat /\ n >= 1 /\ T \in Seq(Op) /\ Len(T) = n - 1 /\ Head(ops) = ops[1] /\ Head(ops) \in Op
      /\ \A i \in 1 .. n - 1 : T[i] = ops[i + 1]
  BY <1>1
<1>4. u[0] = t[1] /\ u[n - 1] = h
  <2>1. 0 \in 0 .. n - 1 /\ n - 1 \in 0 .. n - 1 /\ n - 1 + 1 = n /\ 0 + 1 = 1
    BY <1>3
  <2> QED
    BY <1>2, <2>1
<1>5. ASSUME NEW i \in 1 .. n - 1 PROVE Step(u[i - 1], T[i], u[i]) /\ <<u[i - 1], u[i]>> \in R
  <2>1. i \in 0 .. n - 1 /\ i - 1 \in 0 .. n - 1 /\ i - 1 + 1 = i /\ i + 1 - 1 = i /\ i + 1 \in 1 .. n
    BY <1>3
  <2>2. u[i] = t[i + 1] /\ u[i - 1] = t[i]
    BY <2>1
  <2>3. Step(t[i + 1 - 1], ops[i + 1], t[i + 1]) /\ <<t[i + 1 - 1], t[i + 1]>> \in R
    BY <1>2, <2>1
  <2> HIDE DEF u, T, n
  <2> QED
    BY <1>3, <2>1, <2>2, <2>3
<1>6. Step(f, Head(ops), t[1]) /\ <<f, t[1]>> \in R
  <2>1. 1 \in 1 .. n /\ 1 - 1 = 0
    BY <1>3
  <2> QED
    BY <1>2, <1>3, <2>1
<1> HIDE DEF u
<1>7. Run(t[1], T, h, R)
  BY <1>3, <1>4, <1>5 DEF Run
<1> QED
  BY <1>3, <1>6, <1>7

\* Programming n words in a row from address b, into erased ones.
Filled(f, b, k, w) == [x \in Addresses |-> IF b <= x /\ x < b + k THEN w[x - b + 1] ELSE f[x]]

\* The words of Filled.
LEMMA FilledIs ==
  ASSUME NEW f \in Flashes, NEW b \in Nat, NEW n \in Nat, b + n <= Limit(1),
         NEW w, \A i \in 1 .. n : w[i] \in FlashWord, NEW k \in 0 .. n
  PROVE  /\ Filled(f, b, k, w) \in Flashes
         /\ \A x \in Addresses : b <= x /\ x < b + k => Filled(f, b, k, w)[x] = w[x - b + 1]
         /\ \A x \in Addresses : ~(b <= x /\ x < b + k) => Filled(f, b, k, w)[x] = f[x]
<1>1. \A x \in Addresses : x \in Nat
  BY DEF Addresses
<1>2. \A x \in Addresses : b <= x /\ x < b + k => x - b + 1 \in 1 .. n
  BY <1>1
<1>3. \A x \in Addresses : f[x] \in FlashWord
  BY DEF Flashes
<1> QED
  BY <1>2, <1>3 DEF Filled, Flashes

\* A row of erased words takes any words, through the flashes filled up to each
\* of them.
LEMMA RunFill ==
  ASSUME NEW f \in Flashes, NEW b \in Nat, NEW n \in Nat, b + n <= Limit(1),
         NEW w, \A i \in 1 .. n : w[i] \in FlashWord,
         \A x \in Addresses : b <= x /\ x < b + n => f[x] = E,
         NEW ops, ops = [i \in 1 .. n |-> Prog(b + i - 1, w[i])],
         NEW R, \A k \in 1 .. n : <<Filled(f, b, k - 1, w), Filled(f, b, k, w)>> \in R
  PROVE  Run(f, ops, Filled(f, b, n, w), R)
<1> DEFINE tr == [k \in 0 .. n |-> Filled(f, b, k, w)]
<1>0. Limit(1) \in Nat /\ Addresses = 0 .. Limit(1) - 1
  BY SectorFacts DEF Sectors, Addresses
<1>1. \A i \in 1 .. n : b + i - 1 \in Addresses /\ b + i - 1 \in Nat
  BY <1>0
<1>2. \A i \in 1 .. n : Prog(b + i - 1, w[i]) \in Op
  BY <1>1, OpTypes
<1>3. ops \in Seq(Op) /\ Len(ops) = n
  BY <1>2
<1>4. Filled(f, b, 0, w) = f
  <2>1. f = [x \in Addresses |-> f[x]]
    BY DEF Flashes
  <2>2. \A x \in Addresses : ~(b <= x /\ x < b + 0)
    BY <1>0
  <2> QED
    BY <2>1, <2>2 DEF Filled
<1>5. tr[0] = f /\ tr[Len(ops)] = Filled(f, b, n, w)
  BY <1>3, <1>4
<1>6. ASSUME NEW i \in 1 .. n PROVE Step(Filled(f, b, i - 1, w), Prog(b + i - 1, w[i]), Filled(f, b, i, w))
  <2> DEFINE a == b + i - 1
             g == Filled(f, b, i - 1, w)
             h == Filled(f, b, i, w)
  <2>0. i \in 0 .. n /\ i - 1 \in 0 .. n /\ a \in Addresses /\ a \in Nat /\ w[i] \in FlashWord
    BY <1>1
  <2>1. /\ g \in Flashes /\ h \in Flashes
        /\ \A x \in Addresses : ~(b <= x /\ x < b + (i - 1)) => g[x] = f[x]
        /\ \A x \in Addresses : b <= x /\ x < b + i => h[x] = w[x - b + 1]
    <3>1. g \in Flashes /\ h \in Flashes
      BY <2>0, FilledIs
    <3>2. /\ \A x \in Addresses : ~(b <= x /\ x < b + (i - 1)) => g[x] = f[x]
          /\ \A x \in Addresses : b <= x /\ x < b + i => h[x] = w[x - b + 1]
      BY DEF Filled
    <3> QED
      BY <3>1, <3>2
  <2>2. g[a] = f[a] /\ f[a] = E
    <3>1. ~(b <= a /\ a < b + (i - 1)) /\ b <= a /\ a < b + n
      BY <2>0
    <3> HIDE DEF a, g, h
    <3> QED
      BY <2>0, <2>1, <3>1
  <2>3. h[a] = w[i]
    <3>1. b <= a /\ a < b + i /\ a - b + 1 = i
      BY <2>0
    <3> HIDE DEF a, g, h
    <3>2. h[a] = w[a - b + 1]
      BY <2>0, <2>1, <3>1
    <3> QED
      BY <3>1, <3>2
  <2>4. \A x \in Addresses : x # a => h[x] = g[x]
    <3> SUFFICES ASSUME NEW x \in Addresses, x # a PROVE h[x] = g[x]
      OBVIOUS
    <3>1. x \in Nat
      BY <1>0
    <3>2. (b <= x /\ x < b + i) <=> (b <= x /\ x < b + (i - 1))
      BY <3>1
    <3> QED
      BY <3>2 DEF Filled
  <2> HIDE DEF g, h, a
  <2>5. h = Put(g, a, w[i])
    BY <2>0, <2>1, <2>3, <2>4 DEF Put, Flashes
  <2>6. Takes(g[a], w[i])
    BY <2>2 DEF Takes
  <2>7. Step(g, Prog(a, w[i]), h)
    BY <2>0, <2>5, <2>6 DEF Step
  <2> QED
    BY <2>7 DEF g, h, a
<1>7. ASSUME NEW i \in 1 .. Len(ops)
      PROVE  Step(tr[i - 1], ops[i], tr[i]) /\ <<tr[i - 1], tr[i]>> \in R
  <2>1. i \in 1 .. n /\ i \in 0 .. n /\ i - 1 \in 0 .. n
    BY <1>3
  <2>2. tr[i - 1] = Filled(f, b, i - 1, w) /\ tr[i] = Filled(f, b, i, w) /\ ops[i] = Prog(b + i - 1, w[i])
    BY <2>1
  <2> HIDE DEF tr
  <2> QED
    BY <1>6, <2>1, <2>2
<1> HIDE DEF tr
<1> QED
  BY <1>3, <1>5, <1>7 DEF Run

-----------------------------------------------------------------------------
(* Writing a blob *)

Outside(f, g, lo, hi) == \A x \in Addresses : ~(lo <= x /\ x < hi) => g[x] = f[x]

\* The data and maybe the length are written at a, but not the header.
Partial(f, g, a, len) ==
  Outside(f, g, a + 1, a + 2 + len \div 2) /\ g[a + 1] \in {E, LenWord(len)}

\* The blob is written.
Blobbed(f, g, a, slot, v, len) ==
  /\ Outside(f, g, a, a + 2 + len \div 2)
  /\ g[a] = Hdr(slot, 1, 1) /\ g[a + 1] = LenWord(len)
  /\ \A i \in 1 .. len \div 2 : g[a + 1 + i] = DataWord(v, i)

\* blob_save goes through partial blobs to the whole one.
LEMMA BlobRun ==
  ASSUME NEW f \in Flashes, NEW a \in Nat, NEW slot \in Slots, NEW v \in Values, NEW len \in Nat,
         a + 2 + len \div 2 <= Limit(1),
         \A x \in Addresses : a <= x /\ x < a + 2 + len \div 2 => f[x] = E,
         NEW R,
         \A h, g \in Flashes : Partial(f, h, a, len) /\ Partial(f, g, a, len) => <<h, g>> \in R,
         \A h, g \in Flashes : Partial(f, h, a, len) /\ Blobbed(f, g, a, slot, v, len) => <<h, g>> \in R
  PROVE  \E g \in Flashes : Run(f, BlobOps(a, slot, v, len), g, R) /\ Blobbed(f, g, a, slot, v, len)
<1> DEFINE n == len \div 2
           b == a + 2
           w == [i \in 1 .. n |-> DataWord(v, i)]
           D(k) == Filled(f, b, k, w)
           ops == [i \in 1 .. n |-> Prog(a + 1 + i, DataWord(v, i))]
           L == Limit(1)
<1>0. n \in Nat /\ L \in Nat /\ Addresses = 0 .. L - 1 /\ b + n <= L /\ b \in Nat
  BY LenFacts, SectorFacts DEF Sectors, Addresses
<1>1. a \in Addresses /\ a + 1 \in Addresses /\ slot \in Nat
  <2>1. slot \in Nat
    BY Sizes DEF Slots
  <2> HIDE DEF n, L
  <2> QED
    BY <1>0, <2>1
<1>2. \A i \in 1 .. n : w[i] \in FlashWord /\ w[i] = DataWord(v, i) /\ b + i - 1 = a + 1 + i
  BY <1>0, WordTypes
<1>3. ops = [i \in 1 .. n |-> Prog(b + i - 1, w[i])]
  BY <1>2
<1>4. \A x \in Addresses : x \in Nat /\ (a <= x /\ x < a + 2 + n => f[x] = E)
  BY <1>0
<1> HIDE DEF n, w, ops, L
<1>5. ASSUME NEW k \in 0 .. n PROVE D(k) \in Flashes /\ Outside(f, D(k), b, b + n)
  <2>1. D(k) \in Flashes
    BY <1>0, <1>2, FilledIs DEF L
  <2>2. \A x \in Addresses : x \in Nat /\ (~(b <= x /\ x < b + k) => D(k)[x] = f[x])
    BY <1>4 DEF Filled
  <2> HIDE DEF D
  <2>3. \A x \in Addresses : ~(b <= x /\ x < b + n) => ~(b <= x /\ x < b + k)
    BY <1>0, <2>2
  <2> QED
    BY <2>1, <2>2, <2>3 DEF Outside
<1>6. ASSUME NEW g \in Flashes, Outside(f, g, b, b + n) PROVE Partial(f, g, a, len) /\ g[a + 1] = E /\ g[a] = E
  <2>1. ~(b <= a + 1 /\ a + 1 < b + n) /\ ~(b <= a /\ a < b + n)
    BY <1>0
  <2>2. g[a + 1] = f[a + 1] /\ g[a] = f[a]
    BY <1>1, <1>6, <2>1 DEF Outside
  <2>3. f[a + 1] = E /\ f[a] = E
    BY <1>0, <1>1, <1>4
  <2>4. Outside(f, g, a + 1, a + 2 + n)
    <3> SUFFICES ASSUME NEW x \in Addresses, ~(a + 1 <= x /\ x < a + 2 + n) PROVE g[x] = f[x]
      BY DEF Outside
    <3>1. ~(b <= x /\ x < b + n)
      BY <1>0, <1>4
    <3> QED
      BY <1>6, <3>1 DEF Outside
  <2> QED
    BY <2>2, <2>3, <2>4 DEF Partial, n
<1>7. Run(f, ops, D(n), R)
  <2>1. \A k \in 1 .. n : <<Filled(f, b, k - 1, w), Filled(f, b, k, w)>> \in R
    <3> SUFFICES ASSUME NEW k \in 1 .. n PROVE <<D(k - 1), D(k)>> \in R
      OBVIOUS
    <3>1. k \in 0 .. n /\ k - 1 \in 0 .. n
      BY <1>0
    <3>2. D(k) \in Flashes /\ D(k - 1) \in Flashes /\ Partial(f, D(k), a, len) /\ Partial(f, D(k - 1), a, len)
      <4> HIDE DEF D
      <4> QED
        BY <1>5, <1>6, <3>1
    <3> HIDE DEF D
    <3> QED
      BY <3>2
  <2>2. \A x \in Addresses : b <= x /\ x < b + n => f[x] = E
    BY <1>0, <1>4
  <2>3. \A i \in 1 .. n : w[i] \in FlashWord
    BY <1>2
  <2> QED
    BY <1>0, <1>3, <2>1, <2>2, <2>3, RunFill DEF L
<1> DEFINE d == D(n)
           d1 == Put(d, a + 1, LenWord(len))
           d2 == Put(d1, a, Hdr(slot, 1, 1))
<1>8. /\ d \in Flashes /\ Outside(f, d, b, b + n)
      /\ \A i \in 1 .. n : d[a + 1 + i] = DataWord(v, i)
  <2>1. d \in Flashes /\ Outside(f, d, b, b + n)
    BY <1>0, <1>5
  <2>2. ASSUME NEW i \in 1 .. n PROVE d[a + 1 + i] = DataWord(v, i)
    <3> DEFINE x == a + 1 + i
    <3>1. x \in Addresses /\ b <= x /\ x < b + n /\ x - b + 1 = i
      BY <1>0
    <3>2. d[x] = w[x - b + 1]
      <4> HIDE DEF x
      <4> QED
        BY <3>1 DEF Filled
    <3> HIDE DEF x, d
    <3>3. d[x] = w[i]
      BY <3>1, <3>2
    <3> QED
      BY <1>2, <3>3 DEF x
  <2> QED
    BY <2>1, <2>2
<1> HIDE DEF D, d
<1>9. LenWord(len) \in FlashWord /\ Hdr(slot, 1, 1) \in FlashWord
  BY <1>1, WordTypes
<1>10. /\ d1 \in Flashes /\ d1[a + 1] = LenWord(len)
       /\ \A x \in Addresses : x # a + 1 => d1[x] = d[x]
  BY <1>1, <1>8, <1>9, PutIs
<1> HIDE DEF d1
<1>11. /\ d2 \in Flashes /\ d2[a] = Hdr(slot, 1, 1)
       /\ \A x \in Addresses : x # a => d2[x] = d1[x]
  BY <1>1, <1>9, <1>10, PutIs
<1> HIDE DEF d2
<1>12. Partial(f, d, a, len) /\ d[a + 1] = E /\ d[a] = E
  BY <1>6, <1>8
<1>13. Partial(f, d1, a, len) /\ d1[a] = E
  <2>1. Outside(f, d1, a + 1, a + 2 + n)
    <3> SUFFICES ASSUME NEW x \in Addresses, ~(a + 1 <= x /\ x < a + 2 + n) PROVE d1[x] = f[x]
      BY DEF Outside
    <3>1. x # a + 1
      BY <1>0
    <3> QED
      BY <1>10, <1>12, <3>1 DEF Partial, Outside, n
  <2>2. a # a + 1
    OBVIOUS
  <2> QED
    BY <1>1, <1>10, <1>12, <2>1, <2>2 DEF Partial, n
<1>14. Blobbed(f, d2, a, slot, v, len)
  <2>1. Outside(f, d2, a, a + 2 + n)
    <3> SUFFICES ASSUME NEW x \in Addresses, ~(a <= x /\ x < a + 2 + n) PROVE d2[x] = f[x]
      BY DEF Outside
    <3>1. x # a /\ ~(a + 1 <= x /\ x < a + 2 + n)
      BY <1>0, <1>4
    <3> QED
      BY <1>11, <1>13, <3>1 DEF Partial, Outside, n
  <2>2. d2[a + 1] = LenWord(len)
    BY <1>1, <1>10, <1>11
  <2>3. ASSUME NEW i \in 1 .. n PROVE d2[a + 1 + i] = DataWord(v, i)
    <3> DEFINE x == a + 1 + i
    <3>1. x \in Addresses /\ x # a /\ x # a + 1
      BY <1>0
    <3>2. d[x] = DataWord(v, i)
      BY <1>8
    <3> HIDE DEF x
    <3>3. d2[x] = d[x]
      BY <1>10, <1>11, <3>1
    <3> QED
      BY <3>2, <3>3 DEF x
  <2> QED
    BY <1>11, <2>1, <2>2, <2>3 DEF Blobbed, n
<1>15. <<d, d1>> \in R /\ <<d1, d2>> \in R
  BY <1>8, <1>10, <1>11, <1>12, <1>13, <1>14
<1> DEFINE o1 == Prog(a + 1, LenWord(len))
           o2 == Prog(a, Hdr(slot, 1, 1))
<1>16. o1 \in Op /\ o2 \in Op
  BY <1>1, <1>9, OpTypes
<1>17. Step(d, o1, d1) /\ Step(d1, o2, d2)
  <2>1. Takes(d[a + 1], LenWord(len)) /\ Takes(d1[a], Hdr(slot, 1, 1))
    BY <1>12, <1>13 DEF Takes
  <2> QED
    BY <1>1, <1>9, <2>1 DEF Step, d1, d2
<1>18. BlobOps(a, slot, v, len) = ops \o <<o1, o2>>
  BY DEF BlobOps, ops, n
<1> HIDE DEF o1, o2
<1>19. Run(d, <<o1, o2>>, d2, R)
  <2>1. /\ <<o1, o2>> \in Seq(Op) /\ <<o1, o2>> # <<>>
        /\ Head(<<o1, o2>>) = o1 /\ Tail(<<o1, o2>>) = <<o2>>
    BY <1>16
  <2>2. Run(d1, <<o2>>, d2, R)
    BY <1>15, <1>16, <1>17, RunOne
  <2> QED
    BY <1>15, <1>17, <2>1, <2>2, RunCons
<1>20. Run(f, BlobOps(a, slot, v, len), d2, R)
  BY <1>7, <1>18, <1>19, RunCat DEF d
<1> QED
  BY <1>11, <1>14, <1>20

\* Blobs and files that are as before.
BlobsStay(f, g, A) == \A k, b : BlobAt(f, A, k, b) => BlobAt(g, A, k, b)
FilesStay(f, g, A) == \A a \in A : FileAt(g, a) = FileAt(f, a)

\* A log whose words stay keeps its blobs and files.
LEMMA LogStays ==
  ASSUME NEW f, NEW g, NEW s \in Sectors, NEW A, NEW end, LogAt(f, s, A, end),
         Agree(f, g, DataStart(s), end)
  PROVE  LogAt(g, s, A, end) /\ BlobsStay(f, g, A) /\ FilesStay(f, g, A)
BY LogFrame DEF BlobsStay, FilesStay

\* Slots that have the blobs have the files.
LEMMA SameFiles ==
  ASSUME NEW f, NEW g, NEW s \in Sectors, NEW A, NEW end, LogAt(f, s, A, end),
         NEW blob, Blobs(f, A, blob), FilesStay(f, g, A)
  PROVE  \A k \in Slots : FileAt(g, blob[k]) = FileAt(f, blob[k])
<1> SUFFICES ASSUME NEW k \in Slots PROVE FileAt(g, blob[k]) = FileAt(f, blob[k])
  OBVIOUS
<1>1. BlobAt(f, A, k, blob[k])
  BY DEF Blobs
<1>2. blob[k] = 0 \/ blob[k] \in A
  BY <1>1, BlobAtIs
<1>3. CASE blob[k] = 0
  BY <1>3 DEF FileAt
<1>4. CASE blob[k] \in A
  BY <1>4 DEF FilesStay
<1> QED
  BY <1>2, <1>3, <1>4

\* The files are kept where the log and the magic numbers are.
LEMMA KeptStays ==
  ASSUME NEW f, NEW g, Typed(f), Typed(g), NEW s \in Sectors, NEW A, NEW end, LogAt(f, s, A, end),
         f[end] = E, g[end] = E, ProbedSector(f) = s, ProbedSector(g) = s,
         Agree(f, g, DataStart(s), end)
  PROVE  Kept(g) = Kept(f) /\ LogAt(g, s, A, end)
<1> DEFINE blob == BlobAddrs(f, s)
<1>1. Blobs(f, A, blob)
  BY BlobAddrsAre
<1> HIDE DEF blob
<1>2. LogAt(g, s, A, end) /\ BlobsStay(f, g, A) /\ FilesStay(f, g, A)
  BY LogStays
<1>3. Blobs(g, A, blob)
  BY <1>1, <1>2 DEF Blobs, BlobsStay
<1>4. Kept(f) = [slot \in Slots |-> FileAt(f, blob[slot])]
  BY <1>1, KeptIs
<1>5. Kept(g) = [slot \in Slots |-> FileAt(g, blob[slot])]
  BY <1>2, <1>3, KeptIs
<1>6. \A k \in Slots : FileAt(g, blob[k]) = FileAt(f, blob[k])
  BY <1>1, <1>2, SameFiles
<1> QED
  BY <1>2, <1>4, <1>5, <1>6

\* The log with the new blob, up to e.
Grown(f, g, s, A, a, e, blob, slot, v, len) ==
  /\ LogAt(g, s, A \cup {a}, e) /\ Clean(g, s, e)
  /\ Blobs(g, A \cup {a}, [blob EXCEPT ![slot] = a])
  /\ \A k \in Slots : k # slot => FileAt(g, blob[k]) = FileAt(f, blob[k])
  /\ len % 2 = 0 => FileAt(g, a) = FileOf(v, len)

\* The log after blob_save.
LEMMA BlobbedLog ==
  ASSUME NEW f \in Flashes, NEW g \in Flashes, NEW s \in Sectors, NEW A, NEW a,
         LogAt(f, s, A, a), Clean(f, s, a),
         NEW blob \in [Slots -> Addresses], Blobs(f, A, blob),
         NEW slot \in Slots, NEW v \in Values, NEW len \in Lens, NEW e, e = a + blob_len(len), e < Limit(s),
         Blobbed(f, g, a, slot, v, len)
  PROVE  Grown(f, g, s, A, a, e, blob, slot, v, len)
<1> DEFINE n == len \div 2
<1>1. a \in Nat /\ a \in Aligned /\ a < Limit(s) /\ a > 4 /\ \A b \in A : b \in Nat /\ b < a
  BY LogOrder
<1>2. /\ len \in Nat /\ n \in Nat /\ blob_len(len) \in Nat /\ n + 2 <= blob_len(len)
      /\ (len % 2 = 0 => (len + 1) \div 2 = n)
  BY LensFacts, LenFacts
<1>3. Limit(s) \in Nat /\ \A x \in Nat : x < Limit(s) => x \in Addresses
  BY SectorNums
<1>4. e \in Nat /\ a < e /\ e < Limit(s) /\ a + 2 + n <= e
  BY <1>1, <1>2
<1> HIDE DEF n
<1>5. \A x \in Nat : x < Limit(s) /\ (x < a \/ x >= e) => g[x] = f[x]
  <2> SUFFICES ASSUME NEW x \in Nat, x < Limit(s), x < a \/ x >= e PROVE g[x] = f[x]
    OBVIOUS
  <2>1. ~(a <= x /\ x < a + 2 + n) /\ x \in Addresses
    BY <1>1, <1>2, <1>3, <1>4
  <2> QED
    BY <2>1 DEF Blobbed, Outside, n
<1>6. Agree(f, g, DataStart(s), a)
  <2>1. \A x \in Nat : x < a => x < Limit(s)
    BY <1>1, <1>3
  <2> QED
    BY <1>5, <2>1 DEF Agree
<1>7. LogAt(g, s, A, a) /\ BlobsStay(f, g, A) /\ FilesStay(f, g, A)
  BY <1>6, LogStays
<1>8. g[a] = Hdr(slot, 1, 1) /\ g[a + 1] = LenWord(len)
  BY DEF Blobbed
<1>9. /\ g[a + 1].t = "len" /\ g[a + 1].len = len
      /\ g[a].invalid = 1 /\ g[a].cleared = 1 /\ g[a].slot = slot
      /\ g[a] \in [t : {"hdr"}, slot : Slots, invalid : {0, 1}, cleared : {0, 1}]
  BY <1>8 DEF Hdr, LenWord
<1>10. IsBlob(g, a) /\ After(g, a) = e
  BY <1>2, <1>9 DEF IsBlob, After
<1>11. LogAt(g, s, A \cup {a}, e)
  BY <1>4, <1>7, <1>10, LogAdds
<1>12. Clean(g, s, e)
  <2> SUFFICES ASSUME NEW x \in e .. Limit(s) - 1 PROVE g[x] = E
    BY DEF Clean
  <2>1. x \in Nat /\ x < Limit(s) /\ x >= e /\ x \in a .. Limit(s) - 1
    BY <1>1, <1>3, <1>4
  <2> QED
    BY <1>5, <2>1 DEF Clean
<1>13. ASSUME NEW k \in Slots PROVE BlobAt(g, A \cup {a}, k, [blob EXCEPT ![slot] = a][k])
  <2>1. BlobAt(g, A, k, blob[k])
    BY <1>7 DEF Blobs, BlobsStay
  <2>2. CASE k = slot
    <3>1. Valid(g, a, k) /\ g[a].cleared = 1
      BY <1>9, <2>2 DEF Valid
    <3>2. BlobAt(g, A \cup {a}, k, a)
      BY <1>7, <2>1, <3>1, BlobsAdd
    <3> QED
      BY <2>2, <3>2
  <2>3. CASE k # slot
    <3>1. ~Valid(g, a, k)
      BY <1>9, <2>3 DEF Valid
    <3>2. BlobAt(g, A \cup {a}, k, blob[k])
      BY <1>7, <2>1, <3>1, BlobsAdd
    <3> QED
      BY <2>3, <3>2
  <2> QED
    BY <2>2, <2>3
<1>14. \A k \in Slots : FileAt(g, blob[k]) = FileAt(f, blob[k])
  BY <1>7, SameFiles
<1>15. ASSUME len % 2 = 0 PROVE FileAt(g, a) = FileOf(v, len)
  <2>1. (len + 1) \div 2 = n
    BY <1>2, <1>15
  <2>2. FileAt(g, a) = [i \in 1 .. n |-> g[a + 1 + i]]
    <3>1. a # 0
      BY <1>1
    <3>2. FileAt(g, a) = [i \in 1 .. (g[a + 1].len + 1) \div 2 |-> g[a + 1 + i]]
      BY Zenon, <1>9, <3>1 DEF FileAt
    <3>3. (g[a + 1].len + 1) \div 2 = n
      BY <1>9, <2>1
    <3> QED
      BY Zenon, <3>2, <3>3
  <2>3. FileOf(v, len) = [i \in 1 .. n |-> DataWord(v, i)]
    BY <2>1 DEF FileOf
  <2>4. \A i \in 1 .. n : g[a + 1 + i] = DataWord(v, i)
    BY DEF Blobbed, n
  <2> QED
    BY <2>2, <2>3, <2>4
<1> QED
  BY <1>11, <1>12, <1>13, <1>14, <1>15 DEF Grown, Blobs

-----------------------------------------------------------------------------
(* The calls and what their steps may do *)

Effect(c, K) ==
  IF c.kind = "save" THEN [K EXCEPT ![c.slot] = c.file]
  ELSE IF c.kind = "delete" THEN [K EXCEPT ![c.slot] = NoFile]
  ELSE IF c.kind = "clear" THEN [k \in Slots |-> NoFile]
  ELSE K

\* Steps that leave what a restart can go on from, with the files as before or
\* as the call wants them.
Safe(c) ==
  {p \in Flashes \X Flashes :
     /\ Sound(p[2])
     /\ EvenLens => Kept(p[2]) = Kept(p[1]) \/ Kept(p[2]) = Effect(c, Kept(p[1]))}

\* How a call leaves the flash, r being the RAM after it.
Ends(g, c, r) ==
  /\ IF c.kind = "clear" THEN ~Moving(g) ELSE RamOK(g, r)
  /\ EvenLens => Kept(g) = Effect(c, Kept(g))

\* How a step is shown to be safe.
LEMMA SafeIs ==
  ASSUME NEW c, NEW f \in Flashes, NEW g \in Flashes, Sound(g),
         EvenLens => Kept(g) = Kept(f) \/ Kept(g) = Effect(c, Kept(f))
  PROVE  <<f, g>> \in Safe(c)
<1> DEFINE p == <<f, g>>
<1>1. p \in Flashes \X Flashes /\ p[1] = f /\ p[2] = g
  OBVIOUS
<1> HIDE DEF p
<1>2. p \in Safe(c)
  BY <1>1 DEF Safe
<1> QED
  BY <1>2 DEF p

\* What a safe step gives.
LEMMA SafeHas ==
  ASSUME NEW c, NEW f, NEW g, <<f, g>> \in Safe(c)
  PROVE  /\ f \in Flashes /\ g \in Flashes /\ Sound(g)
         /\ EvenLens => Kept(g) = Kept(f) \/ Kept(g) = Effect(c, Kept(f))
<1> DEFINE p == <<f, g>>
<1>1. p[1] = f /\ p[2] = g /\ (p \in Flashes \X Flashes => f \in Flashes /\ g \in Flashes)
  OBVIOUS
<1>2. p \in Safe(c)
  OBVIOUS
<1> HIDE DEF p
<1> QED
  BY <1>1, <1>2 DEF Safe

\* The fields of the RAM.
LEMMA RamsHave ==
  ASSUME NEW r \in Rams
  PROVE  r.cur \in Sectors /\ r.blob \in [Slots -> Addresses] /\ r = [cur |-> r.cur, last |-> r.last, blob |-> r.blob]
BY DEF Rams

\* Changes among the data of a sector.
LEMMA DataFrame ==
  ASSUME NEW f \in Flashes, NEW g \in Flashes, NEW s \in Sectors, NEW lo \in Nat, NEW hi \in Nat, lo <= Limit(s),
         DataStart(s) <= lo, hi <= Limit(s), Outside(f, g, lo, hi)
  PROVE  /\ ProbedSector(g) = ProbedSector(f)
         /\ Erased(f, 1 - s) => Erased(g, 1 - s)
         /\ Agree(f, g, DataStart(s), lo)
<1>1. /\ Base(s) \in Nat /\ Limit(s) \in Nat /\ DataStart(s) = Base(s) + 4 /\ DataStart(s) < Limit(s)
      /\ Base(s) \in SectorWords(s) /\ Base(s) + 1 \in SectorWords(s)
      /\ \A x : x \in SectorWords(s) <=> x \in Nat /\ Base(s) <= x /\ x < Limit(s)
      /\ \A x \in SectorWords(s) : x \in Addresses
  BY HeaderWords
<1>2. 1 - s \in Sectors /\ 1 - (1 - s) = s
  BY SectorFacts
<1>3. /\ Base(1 - s) \in SectorWords(1 - s) /\ Base(1 - s) + 1 \in SectorWords(1 - s)
      /\ \A x \in SectorWords(1 - s) : x \in Addresses /\ x \notin SectorWords(s)
  BY <1>2, HeaderWords
<1>4. \A x \in Addresses : x \in Nat
  BY SectorFacts DEF Addresses, Sectors
<1>5. \A x \in SectorWords(1 - s) : g[x] = f[x]
  <2> SUFFICES ASSUME NEW x \in SectorWords(1 - s) PROVE g[x] = f[x]
    OBVIOUS
  <2>1. x \in Nat /\ x \in Addresses /\ x \notin SectorWords(s)
    BY <1>3, <1>4
  <2>2. ~(Base(s) <= x /\ x < Limit(s))
    BY <1>1, <2>1
  <2>3. ~(lo <= x /\ x < hi)
    BY <1>1, <2>1, <2>2
  <2> QED
    BY <2>1, <2>3 DEF Outside
<1>6. g[Base(s)] = f[Base(s)] /\ g[Base(s) + 1] = f[Base(s) + 1]
  <2>1. ~(lo <= Base(s) /\ Base(s) < hi) /\ ~(lo <= Base(s) + 1 /\ Base(s) + 1 < hi)
    BY <1>1
  <2> QED
    BY <1>1, <2>1 DEF Outside
<1>7. g[Base(1 - s)] = f[Base(1 - s)] /\ g[Base(1 - s) + 1] = f[Base(1 - s) + 1]
  BY <1>3, <1>5
<1>8. \A t \in Sectors : HasMagic(f, t) <=> HasMagic(g, t)
  <2>1. \A t \in Sectors : t = s \/ t = 1 - s
    BY DEF Sectors
  <2> QED
    BY <1>6, <1>7, <2>1 DEF HasMagic
<1>9. ProbedSector(g) = ProbedSector(f)
  BY <1>8, ProbeFrame
<1>10. Erased(f, 1 - s) => Erased(g, 1 - s)
  BY <1>5 DEF Erased
<1>11. Agree(f, g, DataStart(s), lo)
  <2> SUFFICES ASSUME NEW x \in Nat, DataStart(s) <= x, x < lo PROVE f[x] = g[x]
    BY DEF Agree
  <2>1. x \in SectorWords(s) /\ ~(lo <= x /\ x < hi)
    BY <1>1
  <2> QED
    BY <1>1, <2>1 DEF Outside
<1> QED
  BY <1>9, <1>10, <1>11

\* While the blob is written a restart skips it.
LEMMA PartialSound ==
  ASSUME NEW f \in Flashes, NEW g \in Flashes, NEW s \in Sectors, NEW A, NEW a,
         ProbedSector(f) = s, LogAt(f, s, A, a), Clean(f, s, a),
         NEW len \in Lens, len % 4 # 0, a + blob_len(len) < Limit(s),
         Partial(f, g, a, len)
  PROVE  Sound(g) /\ Kept(g) = Kept(f)
<1> DEFINE n == len \div 2
           top == a + blob_len(len)
<1>1. /\ a \in Nat /\ a \in Aligned /\ a < Limit(s) /\ a > 4 /\ DataStart(s) <= a
      /\ a \in Addresses /\ a + 1 \in Addresses
  BY LogOrder
<1>2. /\ len \in Nat /\ n \in Nat /\ blob_len(len) \in Nat /\ n + 3 <= blob_len(len) /\ blob_len(len) % 2 = 0
  BY LensFacts, LenFacts
<1>3. Limit(s) \in Nat /\ \A x \in Nat : x < Limit(s) => x \in Addresses
  BY SectorNums
<1>4. top \in Aligned
  BY <1>1, <1>2, AlignedFacts
<1>5. top \in Nat /\ a + 2 < top /\ top < Limit(s) /\ a + 2 + n <= top - 1 /\ a + 2 + n \in Nat
  BY <1>1, <1>2
<1>6. After(g, a) = a + blob_len(g[a + 1].len)
  BY DEF After
<1> HIDE DEF n, top
<1>7. Outside(f, g, a + 1, a + 2 + n)
  BY DEF Partial, n
<1>8. /\ ProbedSector(g) = s /\ Agree(f, g, DataStart(s), a + 1)
  <2>1. a + 1 \in Nat /\ a + 1 <= Limit(s) /\ a + 2 + n <= Limit(s) /\ DataStart(s) <= a + 1 /\ DataStart(s) \in Nat
    BY <1>1, <1>3, <1>5, SectorNums
  <2> QED
    BY <1>5, <1>7, <2>1, DataFrame
<1>9. Agree(f, g, DataStart(s), a)
  <2>1. \A x \in Nat : x < a => x < a + 1
    BY <1>1
  <2> QED
    BY <1>8, <2>1 DEF Agree
<1>10. f[a] = E /\ g[a] = E
  <2>1. a \in a .. Limit(s) - 1 /\ ~(a + 1 <= a /\ a < a + 2 + n)
    BY <1>1, <1>3
  <2> QED
    BY <1>1, <1>7, <2>1 DEF Clean, Outside
<1>11. Kept(g) = Kept(f) /\ LogAt(g, s, A, a)
  BY <1>8, <1>9, <1>10, FlashTyped, KeptStays
<1>12. \A x \in top - 1 .. Limit(s) - 1 : g[x] = E
  <2> SUFFICES ASSUME NEW x \in top - 1 .. Limit(s) - 1 PROVE g[x] = E
    OBVIOUS
  <2>1. x \in Nat /\ x < Limit(s) /\ x \in a .. Limit(s) - 1 /\ ~(a + 1 <= x /\ x < a + 2 + n)
    BY <1>1, <1>2, <1>3, <1>5
  <2> QED
    BY <1>3, <1>7, <2>1 DEF Clean, Outside
<1>13. Dirty(g, s, a, top)
  <2>1. CASE g[a + 1] = E
    BY <1>4, <1>5, <1>10, <1>12, <2>1 DEF Dirty
  <2>2. CASE g[a + 1] = LenWord(len)
    <3>1. g[a + 1].t = "len" /\ g[a + 1].len = len
      BY <2>2 DEF LenWord
    <3>2. After(g, a) = top
      BY <1>6, <3>1 DEF top
    <3> QED
      BY <1>2, <1>4, <1>5, <1>10, <1>12, <3>1, <3>2 DEF Dirty
  <2> QED
    BY <2>1, <2>2 DEF Partial
<1>14. Sound(g)
  BY <1>8, <1>11, <1>13 DEF Sound, SectorSound
<1> QED
  BY <1>11, <1>14

-----------------------------------------------------------------------------
(* sm_save in the sector in use *)

SaveOf(slot, v, len) == [kind |-> "save", slot |-> slot, file |-> FileOf(v, len)]

\* What RAM and flash agree on between calls.
LEMMA RamHas ==
  ASSUME NEW f, NEW r \in Rams, RamOK(f, r)
  PROVE  /\ r.cur \in Sectors /\ r.blob \in [Slots -> Addresses]
         /\ ProbedSector(f) = r.cur /\ Erased(f, 1 - r.cur) /\ Clean(f, r.cur, r.last)
         /\ \E A : LogAt(f, r.cur, A, r.last) /\ Blobs(f, A, r.blob)
BY DEF RamOK, LogIsIn, Rams

\* The RAM after a save without a move.
Appended(r, slot, len) ==
  [r EXCEPT !.last = r.last + blob_len(len), !.blob[slot] = r.last]

\* Appended, by its fields.
LEMMA AppendedIs ==
  ASSUME NEW r \in Rams, NEW slot \in Slots, NEW len \in Lens
  PROVE  Appended(r, slot, len) = [cur |-> r.cur, last |-> r.last + blob_len(len),
                                   blob |-> [r.blob EXCEPT ![slot] = r.last]]
<1>1. r = [cur |-> r.cur, last |-> r.last, blob |-> r.blob] /\ r.blob \in [Slots -> Addresses]
  BY DEF Rams
<1>2. PICK q : q = Appended(r, slot, len)
  OBVIOUS
<1>3. q.cur = r.cur /\ q.last = r.last + blob_len(len) /\ q.blob = [r.blob EXCEPT ![slot] = r.last]
  BY <1>1, <1>2 DEF Appended
<1>4. q = [cur |-> q.cur, last |-> q.last, blob |-> q.blob]
  BY <1>1, <1>2 DEF Appended
<1> QED
  BY <1>2, <1>3, <1>4

\* The new blob at the end of the log is the effect of the save.
LEMMA AppendEnds ==
  ASSUME NEW f \in Flashes, NEW r \in Rams, RamOK(f, r), NEW slot \in Slots, NEW v \in Values,
         NEW len \in Lens, r.last + blob_len(len) < Limit(r.cur),
         NEW g \in Flashes, Blobbed(f, g, r.last, slot, v, len)
  PROVE  /\ Appended(r, slot, len) \in Rams /\ RamOK(g, Appended(r, slot, len))
         /\ len % 2 = 0 => /\ Kept(g) = Effect(SaveOf(slot, v, len), Kept(f))
                           /\ Kept(g) = Effect(SaveOf(slot, v, len), Kept(g))
<1> DEFINE s == r.cur
           a == r.last
           n == len \div 2
           e == a + blob_len(len)
           q == Appended(r, slot, len)
<1>1. /\ s \in Sectors /\ r.blob \in [Slots -> Addresses]
      /\ ProbedSector(f) = s /\ Erased(f, 1 - s) /\ Clean(f, s, a)
  BY RamHas
<1>2. PICK A : LogAt(f, s, A, a) /\ Blobs(f, A, r.blob)
  BY RamHas
<1>3. q.cur = s /\ q.last = e /\ q.blob = [r.blob EXCEPT ![slot] = a]
  BY AppendedIs
<1>4. q = [cur |-> q.cur, last |-> q.last, blob |-> q.blob]
  BY AppendedIs
<1> HIDE DEF s, a, e, q
<1>5. /\ LogAt(g, s, A \cup {a}, e) /\ Clean(g, s, e)
      /\ Blobs(g, A \cup {a}, [r.blob EXCEPT ![slot] = a])
      /\ \A k \in Slots : k # slot => FileAt(g, r.blob[k]) = FileAt(f, r.blob[k])
      /\ len % 2 = 0 => FileAt(g, a) = FileOf(v, len)
  <2>1. e = a + blob_len(len) /\ e < Limit(s) /\ Blobbed(f, g, a, slot, v, len)
    BY DEF a, s, e
  <2> DEFINE blob == r.blob
  <2>2. blob \in [Slots -> Addresses] /\ Blobs(f, A, blob)
    BY <1>1, <1>2
  <2> HIDE DEF blob
  <2>3. Grown(f, g, s, A, a, e, blob, slot, v, len)
    BY <1>1, <1>2, <2>1, <2>2, BlobbedLog
  <2> QED
    BY <2>3 DEF blob, Grown
<1>6. q \in Rams
  <2>1. q.blob = [k \in Slots |-> q.blob[k]]
    BY <1>1, <1>3
  <2>2. [cur |-> s, last |-> e, blob |-> q.blob] \in Rams
    BY <1>1, <1>3, <1>5, <2>1, LogRam
  <2> QED
    BY <1>3, <1>4, <2>2
<1>7. ProbedSector(g) = s /\ Erased(g, 1 - s)
  <2>0. /\ a \in Nat /\ DataStart(s) <= a /\ a < Limit(s) /\ Limit(s) \in Nat
    BY <1>1, <1>2, LogOrder, SectorNums
  <2>1. n \in Nat /\ blob_len(len) \in Nat /\ n + 2 <= blob_len(len)
    BY LensFacts, LenFacts
  <2>2. a + 2 + n \in Nat /\ a + 2 + n <= Limit(s) /\ a <= Limit(s)
    <3>1. a + blob_len(len) < Limit(s)
      BY DEF a, s
    <3> HIDE DEF n
    <3> QED
      BY <2>0, <2>1, <3>1
  <2>3. Outside(f, g, a, a + 2 + n)
    BY DEF Blobbed, a
  <2> HIDE DEF n
  <2> QED
    BY <1>1, <2>0, <2>2, <2>3, DataFrame
<1>8. RamOK(g, q)
  BY <1>3, <1>5, <1>7 DEF RamOK, LogIsIn
<1>9. ASSUME len % 2 = 0
      PROVE  /\ Kept(g) = Effect(SaveOf(slot, v, len), Kept(f))
             /\ Kept(g) = Effect(SaveOf(slot, v, len), Kept(g))
  <2> DEFINE F(k) == FileAt(f, r.blob[k])
             G(k) == FileAt(g, q.blob[k])
             c == SaveOf(slot, v, len)
  <2>1. Kept(f) = [k \in Slots |-> F(k)] /\ Kept(g) = [k \in Slots |-> G(k)]
    BY <1>6, <1>8, FlashTyped, RamIsSound
  <2>2. G(slot) = FileOf(v, len) /\ \A k \in Slots : k # slot => G(k) = F(k)
    BY <1>1, <1>3, <1>5, <1>9
  <2>3. c.kind = "save" /\ c.slot = slot /\ c.file = FileOf(v, len)
    BY DEF SaveOf
  <2> HIDE DEF F, G, c
  <2>4. /\ [k \in Slots |-> G(k)] = Effect(c, [k \in Slots |-> F(k)])
        /\ [k \in Slots |-> G(k)] = Effect(c, [k \in Slots |-> G(k)])
    BY <2>2, <2>3 DEF Effect
  <2> QED
    BY <2>1, <2>4 DEF c
<1> QED
  BY <1>6, <1>8, <1>9 DEF q

\* sm_save without a move: safe at every word, and done at the end.
LEMMA AppendRun ==
  ASSUME NEW f \in Flashes, NEW r \in Rams, RamOK(f, r), NEW slot \in Slots, NEW v \in Values,
         NEW len \in Lens, len % 4 # 0, r.last + blob_len(len) < Limit(r.cur)
  PROVE  \E g \in Flashes : /\ Run(f, BlobOps(r.last, slot, v, len), g, Safe(SaveOf(slot, v, len)))
                            /\ Ends(g, SaveOf(slot, v, len), Appended(r, slot, len))
                            /\ Appended(r, slot, len) \in Rams
<1> DEFINE s == r.cur
           a == r.last
           n == len \div 2
           c == SaveOf(slot, v, len)
           q == Appended(r, slot, len)
<1>1. s \in Sectors /\ ProbedSector(f) = s /\ Clean(f, s, a)
  BY RamHas
<1>2. PICK A : LogAt(f, s, A, a)
  BY RamHas
<1>3. a \in Nat /\ a < Limit(s) /\ Limit(s) \in Nat /\ Limit(s) <= Limit(1) /\ Limit(1) \in Nat /\ len \in Nat
  <2> HIDE DEF s
  <2>1. 1 \in Sectors
    BY DEF Sectors
  <2> QED
    BY <1>1, <1>2, <2>1, LogOrder, SectorFacts, LensFacts
<1>4. n \in Nat /\ blob_len(len) \in Nat /\ n + 2 <= blob_len(len) /\ a + blob_len(len) < Limit(s)
  BY LensFacts, LenFacts
<1>5. c.kind = "save"
  BY DEF SaveOf
<1> HIDE DEF s, a, n, c, q
<1>6. a + 2 + n <= Limit(1) /\ \A x \in Addresses : a <= x /\ x < a + 2 + n => f[x] = E
  <2>1. \A x \in Addresses : x \in Nat
    BY <1>3 DEF Addresses
  <2>2. \A x \in Nat : a <= x /\ x < a + 2 + n => x \in a .. Limit(s) - 1
    BY <1>3, <1>4
  <2>3. a + 2 + n <= Limit(1)
    BY <1>3, <1>4
  <2> QED
    BY <1>1, <2>1, <2>2, <2>3 DEF Clean
<1>7. ASSUME NEW h \in Flashes, Partial(f, h, a, len) PROVE Sound(h) /\ Kept(h) = Kept(f)
  BY <1>1, <1>2, <1>4, <1>7, PartialSound
<1>8. ASSUME NEW h \in Flashes, NEW g \in Flashes, Partial(f, h, a, len), Partial(f, g, a, len)
      PROVE  <<h, g>> \in Safe(c)
  BY <1>7, <1>8, SafeIs
<1>9. ASSUME NEW g \in Flashes, Blobbed(f, g, a, slot, v, len)
      PROVE  /\ q \in Rams /\ RamOK(g, q)
             /\ len % 2 = 0 => Kept(g) = Effect(c, Kept(f)) /\ Kept(g) = Effect(c, Kept(g))
  BY <1>9, AppendEnds DEF a, c, q
<1>10. EvenLens => len % 2 = 0
  BY DEF EvenLens
<1>11. ASSUME NEW h \in Flashes, NEW g \in Flashes, Partial(f, h, a, len), Blobbed(f, g, a, slot, v, len)
       PROVE  <<h, g>> \in Safe(c)
  <2>1. Sound(g)
    BY <1>9, <1>11, FlashTyped, RamIsSound
  <2>2. EvenLens => Kept(g) = Effect(c, Kept(h))
    BY <1>7, <1>9, <1>10, <1>11
  <2> QED
    BY <2>1, <2>2, SafeIs
<1>12. PICK g \in Flashes : Run(f, BlobOps(a, slot, v, len), g, Safe(c)) /\ Blobbed(f, g, a, slot, v, len)
  BY <1>3, <1>6, <1>8, <1>11, BlobRun DEF n
<1>13. Ends(g, c, q) /\ q \in Rams
  BY <1>5, <1>9, <1>10, <1>12 DEF Ends
<1> QED
  BY <1>12, <1>13 DEF a, c, q

-----------------------------------------------------------------------------
(* sm_delete *)

DeleteOf(slot) == [kind |-> "delete", slot |-> slot]

\* The RAM after a delete.
Deleted(r, slot) == [r EXCEPT !.blob[slot] = 0]

\* Deleted, by its fields.
LEMMA DeletedIs ==
  ASSUME NEW r \in Rams, NEW slot \in Slots
  PROVE  Deleted(r, slot) = [cur |-> r.cur, last |-> r.last, blob |-> [r.blob EXCEPT ![slot] = 0]]
<1>1. r = [cur |-> r.cur, last |-> r.last, blob |-> r.blob] /\ r.blob \in [Slots -> Addresses]
  BY DEF Rams
<1> QED
  BY <1>1 DEF Deleted

\* Flash g is f with the flag of the blob at m.
ClearedAt(f, g, m) ==
  g[m] = [f[m] EXCEPT !.cleared = 0] /\ \A x \in Addresses : x # m => g[x] = f[x]

\* A cleared flag at the last blob of the slot is the effect of the delete.
LEMMA DeleteEnds ==
  ASSUME NEW f \in Flashes, NEW g \in Flashes, NEW r \in Rams, RamOK(f, r), NEW slot \in Slots,
         r.blob[slot] # 0, ClearedAt(f, g, r.blob[slot])
  PROVE  /\ Deleted(r, slot) \in Rams /\ RamOK(g, Deleted(r, slot))
         /\ Kept(g) = Effect(DeleteOf(slot), Kept(f)) /\ Kept(g) = Effect(DeleteOf(slot), Kept(g))
<1> DEFINE s == r.cur
           e == r.last
           m == r.blob[slot]
           q == Deleted(r, slot)
           blob == [r.blob EXCEPT ![slot] = 0]
<1>1. /\ s \in Sectors /\ r.blob \in [Slots -> Addresses]
      /\ ProbedSector(f) = s /\ Erased(f, 1 - s) /\ Clean(f, s, e)
  BY RamHas
<1>2. PICK A : LogAt(f, s, A, e) /\ Blobs(f, A, r.blob)
  BY RamHas
<1>3. q = [cur |-> s, last |-> e, blob |-> blob] /\ q.cur = s /\ q.last = e /\ q.blob = blob
  BY DeletedIs
<1>4. BlobAt(f, A, slot, m) /\ m \in A
  <2>1. BlobAt(f, A, slot, m)
    BY <1>2 DEF Blobs
  <2> HIDE DEF s, e
  <2> QED
    BY <1>1, <1>2, <2>1, BlobAtIs
<1>5. /\ Limit(s) \in Nat /\ (\A x \in Nat : x < Limit(s) => x \in Addresses)
      /\ e \in Nat /\ e < Limit(s) /\ m \in Nat /\ m < e /\ DataStart(s) <= m /\ DataStart(s) \in Nat
  <2> HIDE DEF s, e, m
  <2> QED
    BY <1>1, <1>2, <1>4, SectorNums, LogOrder
<1>6. /\ g[m] = [f[m] EXCEPT !.cleared = 0]
      /\ \A x \in Addresses : x # m => g[x] = f[x]
  BY DEF ClearedAt
<1> HIDE DEF s, e, m, q
<1>7. \A x \in Nat : x # m /\ x < Limit(s) => g[x] = f[x]
  BY <1>5, <1>6
<1>8. /\ LogAt(g, s, A, e) /\ BlobAt(g, A, slot, 0)
      /\ \A k \in Slots : \A b : k # slot /\ BlobAt(f, A, k, b) => BlobAt(g, A, k, b)
      /\ FilesStay(f, g, A)
  <2>1. \A x \in Nat : x # m /\ x < e => g[x] = f[x]
    BY <1>5, <1>7
  <2> QED
    BY <1>1, <1>2, <1>4, <1>6, <2>1, LogClears DEF FilesStay
<1>9. Clean(g, s, e)
  <2> SUFFICES ASSUME NEW x \in e .. Limit(s) - 1 PROVE g[x] = E
    BY DEF Clean
  <2>1. x \in Nat /\ x # m /\ x < Limit(s)
    BY <1>5
  <2> QED
    BY <1>1, <1>7, <2>1 DEF Clean
<1>10. Blobs(g, A, blob)
  <2> SUFFICES ASSUME NEW k \in Slots PROVE BlobAt(g, A, k, blob[k])
    BY DEF Blobs
  <2>1. CASE k = slot
    BY <1>1, <1>8, <2>1
  <2>2. CASE k # slot
    <3>1. BlobAt(f, A, k, r.blob[k]) /\ blob[k] = r.blob[k]
      BY <1>1, <1>2, <2>2 DEF Blobs
    <3> QED
      BY <1>8, <2>2, <3>1
  <2> QED
    BY <2>1, <2>2
<1>11. q \in Rams
  <2>1. blob = [k \in Slots |-> blob[k]]
    BY <1>1
  <2> HIDE DEF blob
  <2>2. [cur |-> s, last |-> e, blob |-> blob] \in Rams
    BY <1>1, <1>8, <1>10, <2>1, LogRam
  <2> QED
    BY <1>3, <2>2
<1>12. ProbedSector(g) = s /\ Erased(g, 1 - s)
  <2>1. m + 1 \in Nat /\ m + 1 <= Limit(s) /\ m <= Limit(s)
    BY <1>5
  <2>2. Outside(f, g, m, m + 1)
    <3> SUFFICES ASSUME NEW x \in Addresses, ~(m <= x /\ x < m + 1) PROVE g[x] = f[x]
      BY DEF Outside
    <3>1. x # m
      BY <1>5
    <3> QED
      BY <1>6, <3>1
  <2> QED
    BY <1>1, <1>5, <2>1, <2>2, DataFrame
<1>13. RamOK(g, q)
  BY <1>3, <1>8, <1>9, <1>10, <1>12 DEF RamOK, LogIsIn
<1>14. /\ Kept(g) = Effect(DeleteOf(slot), Kept(f)) /\ Kept(g) = Effect(DeleteOf(slot), Kept(g))
  <2> DEFINE F(k) == FileAt(f, r.blob[k])
             G(k) == FileAt(g, q.blob[k])
             c == DeleteOf(slot)
  <2>1. Kept(f) = [k \in Slots |-> F(k)] /\ Kept(g) = [k \in Slots |-> G(k)]
    BY <1>11, <1>13, FlashTyped, RamIsSound
  <2>2. \A k \in Slots : FileAt(g, r.blob[k]) = FileAt(f, r.blob[k])
    BY <1>1, <1>2, <1>8, SameFiles
  <2>3. G(slot) = NoFile /\ \A k \in Slots : k # slot => G(k) = F(k)
    <3>1. G(slot) = NoFile
      BY <1>1, <1>3 DEF FileAt
    <3>2. \A k \in Slots : k # slot => q.blob[k] = r.blob[k]
      BY <1>1, <1>3
    <3> QED
      BY <2>2, <3>1, <3>2
  <2>4. c.kind = "delete" /\ c.slot = slot
    BY DEF DeleteOf
  <2> HIDE DEF F, G, c
  <2>5. /\ [k \in Slots |-> G(k)] = Effect(c, [k \in Slots |-> F(k)])
        /\ [k \in Slots |-> G(k)] = Effect(c, [k \in Slots |-> G(k)])
    BY <2>3, <2>4 DEF Effect
  <2> QED
    BY <2>1, <2>5 DEF c
<1> QED
  BY <1>11, <1>13, <1>14 DEF q

DeleteOps(f, a) == IF a = 0 THEN <<>> ELSE <<Prog(a, [f[a] EXCEPT !.cleared = 0])>>

\* sm_delete: one word, and done.
LEMMA DeleteRun ==
  ASSUME NEW f \in Flashes, NEW r \in Rams, RamOK(f, r), NEW slot \in Slots
  PROVE  \E g \in Flashes : /\ Run(f, DeleteOps(f, r.blob[slot]), g, Safe(DeleteOf(slot)))
                            /\ Ends(g, DeleteOf(slot), Deleted(r, slot))
                            /\ Deleted(r, slot) \in Rams
<1> DEFINE a == r.blob[slot]
           c == DeleteOf(slot)
           q == Deleted(r, slot)
<1>0. c.kind = "delete" /\ c.slot = slot
  BY DEF DeleteOf
<1>1. CASE a = 0
  <2>1. r.blob \in [Slots -> Addresses] /\ r = [cur |-> r.cur, last |-> r.last, blob |-> r.blob]
    BY RamsHave
  <2>2. [r.blob EXCEPT ![slot] = 0] = r.blob
    BY <1>1, <2>1
  <2>3. q = r
    BY <2>1, <2>2, DeletedIs
  <2>4. Run(f, DeleteOps(f, a), f, Safe(c))
    BY <1>1, RunNil DEF DeleteOps
  <2>5. Kept(f) = [k \in Slots |-> FileAt(f, r.blob[k])]
    BY FlashTyped, RamIsSound
  <2>6. FileAt(f, r.blob[slot]) = NoFile
    BY <1>1 DEF FileAt
  <2> DEFINE F(k) == FileAt(f, r.blob[k])
  <2> HIDE DEF a, q, c
  <2>7. Kept(f) = Effect(c, Kept(f))
    <3>1. F(slot) = NoFile /\ Kept(f) = [k \in Slots |-> F(k)]
      BY <2>5, <2>6
    <3> HIDE DEF F
    <3> QED
      BY <1>0, <3>1 DEF Effect
  <2>8. Ends(f, c, q)
    BY <1>0, <2>3, <2>7 DEF Ends
  <2> QED
    BY <2>3, <2>4, <2>8 DEF a, c, q
<1>2. CASE a # 0
  <2> DEFINE w == [f[a] EXCEPT !.cleared = 0]
             g == Put(f, a, w)
  <2>1. PICK A : LogAt(f, r.cur, A, r.last) /\ BlobAt(f, A, slot, a)
    BY RamHas DEF Blobs
  <2>2. a \in A /\ f[a].cleared = 1 /\ a \in Addresses /\ r.cur \in Sectors
    <3>1. r.cur \in Sectors
      BY RamsHave
    <3> HIDE DEF a
    <3> QED
      BY <1>2, <2>1, <3>1, BlobAtIs
  <2>3. f[a] \in [t : {"hdr"}, slot : Slots, invalid : {0, 1}, cleared : {0, 1}]
    <3> HIDE DEF a
    <3> QED
      BY <2>1, <2>2 DEF LogAt, IsBlob
  <2>4. w.t = "hdr" /\ w.slot = f[a].slot /\ w.invalid = f[a].invalid /\ w.cleared = 0 /\ w \in FlashWord
    <3>1. \A k \in Slots : k \in Nat
      BY Sizes DEF Slots
    <3>2. w \in [t : {"hdr"}, slot : Nat, invalid : {0, 1}, cleared : {0, 1}]
      BY <2>3, <3>1
    <3>3. w \in FlashWord
      BY <3>2 DEF FlashWord
    <3> QED
      BY <2>3, <3>3
  <2> HIDE DEF w, a
  <2>5. Takes(f[a], w)
    <3>1. f[a].t = "hdr" /\ f[a].invalid \in {0, 1}
      BY <2>3
    <3>2. w.invalid <= f[a].invalid /\ w.cleared <= f[a].cleared
      BY <2>2, <2>4, <3>1
    <3> QED
      BY <2>4, <3>1, <3>2 DEF Takes
  <2>6. g \in Flashes /\ g[a] = w /\ \A x \in Addresses : x # a => g[x] = f[x]
    BY <2>2, <2>4, PutIs
  <2>7. Step(f, Prog(a, w), g) /\ Prog(a, w) \in Op
    BY <2>2, <2>4, <2>5, OpTypes DEF Step
  <2> HIDE DEF g
  <2>8. /\ q \in Rams /\ RamOK(g, q) /\ Kept(g) = Effect(c, Kept(f)) /\ Kept(g) = Effect(c, Kept(g))
    <3>1. ClearedAt(f, g, a)
      BY <2>6 DEF ClearedAt, w
    <3> QED
      BY <1>2, <2>6, <3>1, DeleteEnds DEF a
  <2> HIDE DEF q, c
  <2>9. <<f, g>> \in Safe(c)
    BY <2>6, <2>8, FlashTyped, RamIsSound, SafeIs
  <2>10. DeleteOps(f, a) = <<Prog(a, w)>>
    BY <1>2 DEF DeleteOps, w
  <2>11. Run(f, DeleteOps(f, a), g, Safe(c))
    BY <2>7, <2>9, <2>10, RunOne
  <2>12. Ends(g, c, q)
    BY <1>0, <2>8 DEF Ends
  <2> QED
    BY <2>6, <2>8, <2>11, <2>12 DEF a, c, q
<1> QED
  BY <1>1, <1>2

-----------------------------------------------------------------------------
(* sm_clear, and sm_init on a chip without save data *)

\* The sector in use is as before.
LEMMA SoundStays ==
  ASSUME NEW f \in Flashes, NEW g \in Flashes, NEW s \in Sectors, ProbedSector(f) = s,
         ProbedSector(g) = s, \A x \in SectorWords(s) : g[x] = f[x], Sound(f)
  PROVE  Sound(g) /\ Kept(g) = Kept(f)
<1>1. s # -1
  BY ProbeFacts
<1>2. PICK A, end : LogAt(f, s, A, end) /\ (Clean(f, s, end) \/ \E top : Dirty(f, s, end, top))
  BY <1>1 DEF Sound, SectorSound
<1>3. /\ end \in Nat /\ end > 4 /\ DataStart(s) <= end /\ end < Limit(s) /\ end + 2 <= Limit(s)
  BY <1>2, LogOrder
<1>4. /\ Limit(s) \in Nat /\ DataStart(s) = Base(s) + 4 /\ Base(s) \in Nat
      /\ \A x : x \in SectorWords(s) <=> x \in Nat /\ Base(s) <= x /\ x < Limit(s)
  BY HeaderWords
<1>5. \A x \in Nat : DataStart(s) <= x /\ x < Limit(s) => g[x] = f[x]
  BY <1>4
<1>6. Agree(f, g, DataStart(s), end)
  BY <1>3, <1>4, <1>5 DEF Agree
<1>7. f[end] = E
  BY <1>2, CleanStops
<1>8. g[end] = f[end] /\ g[end + 1] = f[end + 1]
  BY <1>3, <1>4, <1>5
<1>9. Kept(g) = Kept(f) /\ LogAt(g, s, A, end)
  BY <1>2, <1>6, <1>7, <1>8, FlashTyped, KeptStays
<1>10. CASE Clean(f, s, end)
  <2>1. Clean(g, s, end)
    <3> SUFFICES ASSUME NEW x \in end .. Limit(s) - 1 PROVE g[x] = E
      BY DEF Clean
    <3>1. x \in Nat /\ DataStart(s) <= x /\ x < Limit(s)
      BY <1>3, <1>4
    <3> QED
      BY <1>5, <1>10, <3>1 DEF Clean
  <2> QED
    BY <1>9, <2>1 DEF Sound, SectorSound
<1>11. CASE \E top : Dirty(f, s, end, top)
  <2>1. PICK top : Dirty(f, s, end, top)
    BY <1>11
  <2>2. top \in Nat /\ end + 2 < top /\ top < Limit(s)
    BY <2>1, AlignedFacts DEF Dirty
  <2>3. \A x \in top - 1 .. Limit(s) - 1 : g[x] = E
    <3> SUFFICES ASSUME NEW x \in top - 1 .. Limit(s) - 1 PROVE g[x] = E
      OBVIOUS
    <3>1. x \in Nat /\ DataStart(s) <= x /\ x < Limit(s)
      BY <1>3, <1>4, <2>2
    <3> QED
      BY <1>5, <2>1, <3>1 DEF Dirty
  <2>4. After(g, end) = After(f, end)
    BY <1>8 DEF After
  <2>5. Dirty(g, s, end, top)
    BY <1>8, <2>1, <2>3, <2>4 DEF Dirty
  <2> QED
    BY <1>9, <2>5 DEF Sound, SectorSound
<1> QED
  BY <1>2, <1>9, <1>10, <1>11

Empty == [k \in Slots |-> NoFile]
FreshRam == [cur |-> 0, last |-> DataStart(0), blob |-> [k \in Slots |-> 0]]

\* Without a magic number there are no files, and none to lose.
LEMMA NoSector ==
  ASSUME NEW f, ProbedSector(f) = -1
  PROVE  Sound(f) /\ Kept(f) = Empty /\ ~Moving(f)
BY DEF Sound, Kept, Empty, Moving

\* Steps to an empty flash are safe for sm_clear, and where there was nothing.
LEMMA SafeEmpty ==
  ASSUME NEW c, NEW f \in Flashes, NEW g \in Flashes, Sound(g), Kept(g) = Empty,
         c.kind = "clear" \/ Kept(f) = Empty
  PROVE  <<f, g>> \in Safe(c)
<1>1. c.kind = "clear" => Effect(c, Kept(f)) = Empty
  BY DEF Effect, Empty
<1> QED
  BY <1>1, SafeIs

\* A sector with the slots word and a complete magic number, and no blob.
LEMMA FreshIs ==
  ASSUME NEW g \in Flashes, HasMagic(g, 0), Erased(g, 1),
         \A x \in SectorWords(0) : x > Base(0) + 2 => g[x] = E
  PROVE  FreshRam \in Rams /\ RamOK(g, FreshRam) /\ Sound(g) /\ Kept(g) = Empty /\ ~Moving(g)
<1>0. 0 \in Sectors /\ 1 \in Sectors /\ 1 - 0 = 1
  BY DEF Sectors
<1>1. /\ Base(0) \in Nat /\ Limit(0) \in Nat /\ DataStart(0) = Base(0) + 4
      /\ \A x : x \in SectorWords(0) <=> x \in Nat /\ Base(0) <= x /\ x < Limit(0)
  BY <1>0, HeaderWords
<1>2. DataStart(0) \in Nat /\ DataStart(0) \in Aligned /\ DataStart(0) < Limit(0)
  BY <1>0, SectorNums
<1>3. LogAt(g, 0, {}, DataStart(0))
  BY <1>1, <1>2 DEF LogAt
<1>4. Clean(g, 0, DataStart(0))
  <2> SUFFICES ASSUME NEW x \in DataStart(0) .. Limit(0) - 1 PROVE g[x] = E
    BY DEF Clean
  <2>1. x \in SectorWords(0) /\ x > Base(0) + 2
    BY <1>1
  <2> QED
    BY <2>1
<1>5. Blobs(g, {}, [k \in Slots |-> 0])
  BY DEF Blobs, BlobAt
<1>6. FreshRam \in Rams
  <2> DEFINE b == [k \in Slots |-> 0]
  <2>1. b = [k \in Slots |-> b[k]]
    OBVIOUS
  <2>2. Blobs(g, {}, b)
    BY <1>5
  <2> HIDE DEF b
  <2>3. [cur |-> 0, last |-> DataStart(0), blob |-> b] \in Rams
    BY <1>0, <1>3, <2>1, <2>2, LogRam
  <2> QED
    BY <2>3 DEF b, FreshRam
<1>7. ProbedSector(g) = 0
  BY ProbeFacts
<1>8. FreshRam.cur = 0 /\ FreshRam.last = DataStart(0) /\ FreshRam.blob = [k \in Slots |-> 0]
  BY DEF FreshRam
<1>9. RamOK(g, FreshRam)
  BY <1>0, <1>3, <1>4, <1>5, <1>7, <1>8 DEF RamOK, LogIsIn
<1>10. /\ Sound(g) /\ ~Moving(g)
       /\ Kept(g) = [slot \in Slots |-> FileAt(g, FreshRam.blob[slot])]
  BY <1>6, <1>9, FlashTyped, RamIsSound
<1>11. \A slot \in Slots : FileAt(g, FreshRam.blob[slot]) = NoFile
  BY <1>8 DEF FileAt
<1> QED
  BY <1>6, <1>9, <1>10, <1>11 DEF Empty

\* sector_init on erased sectors.
LEMMA SectorInitRun ==
  ASSUME NEW f \in Flashes, Erased(f, 0), Erased(f, 1), NEW c
  PROVE  \E g \in Flashes :
           /\ Run(f, <<Prog(Base(0) + 2, SlotsWord), Prog(Base(0), Magic(1)),
                       Prog(Base(0) + 1, Magic(2))>>, g, Safe(c))
           /\ FreshRam \in Rams /\ RamOK(g, FreshRam) /\ Kept(g) = Empty /\ ~Moving(g)
<1> DEFINE b == Base(0)
           f3 == Put(f, b + 2, SlotsWord)
           f4 == Put(f3, b, Magic(1))
           f5 == Put(f4, b + 1, Magic(2))
<1>0. 0 \in Sectors /\ 1 \in Sectors /\ 1 - 0 = 1 /\ 1 - 1 = 0
  BY DEF Sectors
<1>1. /\ b \in Nat /\ b \in SectorWords(0) /\ b + 1 \in SectorWords(0) /\ b + 2 \in SectorWords(0)
      /\ \A x \in SectorWords(0) : x \in Addresses /\ x \in Nat
      /\ \A x \in SectorWords(1) : x \in Addresses /\ x \notin SectorWords(0)
  BY <1>0, HeaderWords
<1>2. SlotsWord \in FlashWord /\ Magic(1) \in FlashWord /\ Magic(2) \in FlashWord
  BY WordTypes
<1>3. b \in Addresses /\ b + 1 \in Addresses /\ b + 2 \in Addresses /\ b # b + 1 /\ b # b + 2 /\ b + 1 # b + 2
  BY <1>1
<1>4. f[b] = E /\ f[b + 1] = E /\ f[b + 2] = E
  BY <1>1 DEF Erased
<1> HIDE DEF b
<1>5. f3 \in Flashes /\ f3[b + 2] = SlotsWord /\ \A x \in Addresses : x # b + 2 => f3[x] = f[x]
  BY <1>2, <1>3, PutIs
<1> HIDE DEF f3
<1>6. f4 \in Flashes /\ f4[b] = Magic(1) /\ \A x \in Addresses : x # b => f4[x] = f3[x]
  BY <1>2, <1>3, <1>5, PutIs
<1> HIDE DEF f4
<1>7. f5 \in Flashes /\ f5[b + 1] = Magic(2) /\ \A x \in Addresses : x # b + 1 => f5[x] = f4[x]
  BY <1>2, <1>3, <1>6, PutIs
<1> HIDE DEF f5
<1>8. Erased(f3, 1) /\ Erased(f4, 1) /\ Erased(f5, 1)
  <2>1. \A x \in SectorWords(1) : x \in Addresses /\ x # b /\ x # b + 1 /\ x # b + 2 /\ f[x] = E
    BY <1>1 DEF Erased
  <2> QED
    BY <1>5, <1>6, <1>7, <2>1 DEF Erased
<1>9. ~HasMagic(f3, 1) /\ ~HasMagic(f4, 1) /\ ~HasMagic(f, 1) /\ ~HasMagic(f, 0)
  BY <1>0, <1>8, ErasedHasNoMagic
<1>10. f3[b] = E /\ f3[b + 1] = E /\ f4[b + 1] = E /\ f5[b] = Magic(1)
  BY <1>3, <1>4, <1>5, <1>6, <1>7
<1>11. ProbedSector(f) = -1 /\ ProbedSector(f3) = -1 /\ ProbedSector(f4) = -1
  <2>1. ~HasMagic(f3, 0) /\ ~HasMagic(f4, 0)
    BY <1>10, WordsDiffer DEF HasMagic, b
  <2> QED
    BY <1>9, <2>1, ProbeFacts
<1>12. HasMagic(f5, 0)
  BY <1>7, <1>10 DEF HasMagic, b
<1>13. \A x \in SectorWords(0) : x > b + 2 => f5[x] = E
  <2> SUFFICES ASSUME NEW x \in SectorWords(0), x > b + 2 PROVE f5[x] = E
    OBVIOUS
  <2>1. x \in Addresses /\ x # b /\ x # b + 1 /\ x # b + 2
    BY <1>1
  <2> QED
    BY <1>5, <1>6, <1>7, <2>1 DEF Erased
<1>14. FreshRam \in Rams /\ RamOK(f5, FreshRam) /\ Sound(f5) /\ Kept(f5) = Empty /\ ~Moving(f5)
  BY <1>7, <1>8, <1>12, <1>13, FreshIs DEF b
<1>15. <<f, f3>> \in Safe(c) /\ <<f3, f4>> \in Safe(c) /\ <<f4, f5>> \in Safe(c)
  BY <1>5, <1>6, <1>7, <1>11, <1>14, NoSector, SafeEmpty
<1> DEFINE o3 == Prog(b + 2, SlotsWord)
           o4 == Prog(b, Magic(1))
           o5 == Prog(b + 1, Magic(2))
<1>16. o3 \in Op /\ o4 \in Op /\ o5 \in Op
  BY <1>2, <1>3, OpTypes
<1>17. Step(f, o3, f3) /\ Step(f3, o4, f4) /\ Step(f4, o5, f5)
  <2>1. Takes(f[b + 2], SlotsWord) /\ Takes(f3[b], Magic(1)) /\ Takes(f4[b + 1], Magic(2))
    BY <1>4, <1>10 DEF Takes
  <2> QED
    BY <1>2, <1>3, <2>1 DEF Step, f3, f4, f5
<1> HIDE DEF o3, o4, o5
<1>18. Run(f, <<o3, o4, o5>>, f5, Safe(c))
  <2>1. /\ <<o3, o4, o5>> \in Seq(Op) /\ <<o3, o4, o5>> # <<>>
        /\ Head(<<o3, o4, o5>>) = o3 /\ Tail(<<o3, o4, o5>>) = <<o4, o5>>
    BY <1>16
  <2>2. /\ <<o4, o5>> \in Seq(Op) /\ <<o4, o5>> # <<>>
        /\ Head(<<o4, o5>>) = o4 /\ Tail(<<o4, o5>>) = <<o5>>
    BY <1>16
  <2>3. Run(f4, <<o5>>, f5, Safe(c))
    BY <1>15, <1>16, <1>17, RunOne
  <2>4. Run(f3, <<o4, o5>>, f5, Safe(c))
    BY <1>15, <1>17, <2>2, <2>3, RunCons
  <2> QED
    BY <1>15, <1>17, <2>1, <2>4, RunCons
<1> QED
  BY <1>7, <1>14, <1>18 DEF o3, o4, o5, b

\* sm_clear, and sm_init on a chip without magic number: safe at every step.
LEMMA ClearRun ==
  ASSUME NEW f \in Flashes, Sound(f), HasMagic(f, 1) => ProbedSector(f) = 1,
         NEW c, c.kind = "clear" \/ ProbedSector(f) = -1
  PROVE  \E g \in Flashes : /\ Run(f, ClearOps, g, Safe(c))
                            /\ FreshRam \in Rams /\ RamOK(g, FreshRam) /\ Kept(g) = Empty /\ ~Moving(g)
<1> DEFINE f1 == Wiped(f, 0)
           f2 == Wiped(f1, 1)
           t == <<Prog(Base(0) + 2, SlotsWord), Prog(Base(0), Magic(1)), Prog(Base(0) + 1, Magic(2))>>
<1>0. 0 \in Sectors /\ 1 \in Sectors /\ 1 - 0 = 1 /\ 1 - 1 = 0
  BY DEF Sectors
<1>1. /\ f1 \in Flashes /\ Erased(f1, 0)
      /\ \A x \in SectorWords(1) : f1[x] = f[x]
  BY <1>0, WipedIs
<1> HIDE DEF f1
<1>2. /\ f2 \in Flashes /\ Erased(f2, 1)
      /\ \A x \in SectorWords(0) : f2[x] = f1[x]
  BY <1>0, <1>1, WipedIs
<1> HIDE DEF f2
<1>3. Erased(f2, 0)
  BY <1>1, <1>2 DEF Erased
<1>4. ~HasMagic(f1, 0) /\ ~HasMagic(f2, 0) /\ ~HasMagic(f2, 1)
  BY <1>0, <1>1, <1>2, <1>3, ErasedHasNoMagic
<1>5. HasMagic(f1, 1) <=> HasMagic(f, 1)
  <2>1. Base(1) \in SectorWords(1) /\ Base(1) + 1 \in SectorWords(1)
    BY <1>0, HeaderWords
  <2> QED
    BY <1>1, <2>1 DEF HasMagic
<1>6. ProbedSector(f2) = -1
  BY <1>4, ProbeFacts
<1>7. Sound(f1) /\ (Kept(f1) = Kept(f) \/ Kept(f1) = Empty)
  <2>1. CASE HasMagic(f, 1)
    <3>1. ProbedSector(f) = 1 /\ ProbedSector(f1) = 1
      <4>1. ProbedSector(f) = 1 /\ HasMagic(f1, 1)
        BY <1>5, <2>1
      <4> QED
        BY <1>0, <1>4, <4>1, ProbeFacts
    <3> QED
      BY <1>0, <1>1, <3>1, SoundStays
  <2>2. CASE ~HasMagic(f, 1)
    <3>1. ProbedSector(f1) = -1
      BY <1>4, <1>5, <2>2, ProbeFacts
    <3> QED
      BY <3>1, NoSector
  <2> QED
    BY <2>1, <2>2
<1>8. ProbedSector(f) = -1 => Kept(f) = Empty /\ Kept(f1) = Empty
  <2>1. ProbedSector(f) = -1 => ~HasMagic(f, 1)
    BY ProbeFacts
  <2>2. ProbedSector(f) = -1 => ProbedSector(f1) = -1
    BY <1>4, <1>5, <2>1, ProbeFacts
  <2> QED
    BY <2>2, NoSector
<1>9. <<f, f1>> \in Safe(c)
  <2>1. CASE Kept(f1) = Kept(f)
    BY <1>1, <1>7, <2>1, SafeIs
  <2>2. CASE Kept(f1) = Empty
    BY <1>1, <1>7, <1>8, <2>2, SafeEmpty
  <2> QED
    BY <1>7, <2>1, <2>2
<1>10. <<f1, f2>> \in Safe(c)
  BY <1>1, <1>2, <1>6, <1>8, NoSector, SafeEmpty
<1>11. PICK g \in Flashes : /\ Run(f2, t, g, Safe(c))
                            /\ FreshRam \in Rams /\ RamOK(g, FreshRam) /\ Kept(g) = Empty /\ ~Moving(g)
  BY <1>2, <1>3, SectorInitRun
<1> DEFINE o1 == Erase(0)
           o2 == Erase(1)
<1>12. o1 \in Op /\ o2 \in Op
  BY <1>0, OpTypes
<1>13. Step(f, o1, f1) /\ Step(f1, o2, f2)
  BY <1>0 DEF Step, f1, f2
<1>14. t \in Seq(Op)
  BY <1>11 DEF Run
<1>15. ClearOps = <<o1, o2>> \o t
  BY DEF ClearOps
<1> HIDE DEF o1, o2, t
<1>16. Run(f, <<o1, o2>>, f2, Safe(c))
  <2>1. /\ <<o1, o2>> \in Seq(Op) /\ <<o1, o2>> # <<>>
        /\ Head(<<o1, o2>>) = o1 /\ Tail(<<o1, o2>>) = <<o2>>
    BY <1>12
  <2>2. Run(f1, <<o2>>, f2, Safe(c))
    BY <1>10, <1>12, <1>13, RunOne
  <2> QED
    BY <1>9, <1>13, <2>1, <2>2, RunCons
<1> QED
  BY <1>11, <1>15, <1>16, RunCat

-----------------------------------------------------------------------------
(* sm_init: the recovery *)

\* R makes the log end at l, over what a power cut left after end.
Recovers(f, s, end, R, l) ==
  \/ R = <<>> /\ Clean(f, s, end) /\ l = end
  \/ R = <<Prog(end, Hdr(0, 0, 1))>> /\ Dirty(f, s, end, l) /\ f[end + 1].t = "len"
  \/ \E n \in Nat : /\ R = <<Prog(end + 1, LenWord(n)), Prog(end, Hdr(0, 0, 1))>>
                    /\ Dirty(f, s, end, l) /\ f[end + 1] = E /\ end + blob_len(n) = l

\* The length that skip_write finds.
LEMMA SkipIs ==
  ASSUME NEW end \in Aligned, NEW top \in Aligned, NEW m \in Nat, end + 2 <= m, m + 2 <= top
  PROVE  /\ skip_write(end, m + 2) \in Nat
         /\ end + blob_len(skip_write(end, m + 2)) \in Aligned
         /\ end + 2 < end + blob_len(skip_write(end, m + 2))
         /\ end + blob_len(skip_write(end, m + 2)) <= top
         /\ m + 2 <= end + blob_len(skip_write(end, m + 2))
<1> DEFINE q == (m + 2 + 1) \div 2
           h == end \div 2
           u == top \div 2
<1>1. end \in Nat /\ top \in Nat /\ end % 2 = 0 /\ top % 2 = 0
  BY AlignedFacts
<1>2. h \in Nat /\ end = 2 * h /\ u \in Nat /\ top = 2 * u
  BY <1>1
<1>3. q \in Nat /\ 2 * q >= m + 2 /\ 2 * q <= m + 3
  OBVIOUS
<1>4. skip_write(end, m + 2) = 4 * q - 2 * (end + 2)
  BY DEF skip_write
<1> HIDE DEF q, h, u
<1> DEFINE k == q - h - 1
<1>5. k \in Nat /\ k >= 1 /\ q <= u
  BY <1>2, <1>3
<1>6. 4 * q - 2 * (end + 2) = 4 * k
  BY <1>2, <1>3
<1>7. end + 2 + 2 * k = 2 * q
  BY <1>2, <1>3
<1> HIDE DEF k
<1>8. skip_write(end, m + 2) = 4 * k /\ (4 * k + 3) \div 4 = k
  BY <1>4, <1>5, <1>6
<1>9. blob_len(skip_write(end, m + 2)) = 2 + 2 * k
  BY <1>8 DEF blob_len
<1>10. end + blob_len(skip_write(end, m + 2)) = 2 * q
  BY <1>1, <1>5, <1>7, <1>9
<1>11. 2 * q \in Aligned
  BY <1>3 DEF Aligned
<1>12. 2 * q <= top /\ end + 2 < 2 * q
  BY <1>1, <1>2, <1>3, <1>5
<1> QED
  BY <1>3, <1>5, <1>8, <1>10, <1>11, <1>12

\* What slot_pos_update does on a sector that is sound.
LEMMA SlotPosIs ==
  ASSUME NEW f \in Flashes, NEW s \in Sectors, NEW A, NEW end, LogAt(f, s, A, end),
         Clean(f, s, end) \/ \E top : Dirty(f, s, end, top)
  PROVE  \E R, l : /\ SlotPos(f, s) = [ops |-> R, stat |-> "SM_STAT_OK",
                                       ram |-> [cur |-> s, last |-> l, blob |-> BlobAddrs(f, s)]]
                   /\ Recovers(f, s, end, R, l)
<1> DEFINE L == Limit(s)
           dirty == {x \in end .. L - 1 : f[x] # E}
           m == Max(dirty)
           clear == erase_check(f, end, L)
           blob == BlobAddrs(f, s)
           rec == recovery(f, end, clear)
           r == IF clear = 0 THEN [ops |-> <<>>, last |-> end] ELSE rec
<1>1. /\ end \in Nat /\ end \in Aligned /\ end < L /\ L \in Nat /\ end > 4
  BY LogOrder, SectorNums
<1>2. f[end] = E
  BY CleanStops
<1>3. WalkEnd(f, s) = end
  BY <1>2, FlashTyped, WalkIsLog
<1>4. SlotPos(f, s) = [ops |-> r.ops, stat |-> "SM_STAT_OK",
                       ram |-> [cur |-> s, last |-> r.last, blob |-> blob]]
  <2>1. ~(end >= L)
    BY <1>1
  <2> HIDE DEF clear, rec, blob
  <2> QED
    BY Zenon, <1>3, <2>1 DEF SlotPos, clear, rec, blob
<1>5. clear = IF dirty = {} THEN 0 ELSE m + 2
  BY Zenon DEF erase_check
<1> HIDE DEF L, dirty, m, clear, blob
<1>6. CASE dirty = {}
  <2>1. clear = 0
    BY <1>5, <1>6
  <2>2. Clean(f, s, end)
    BY <1>6 DEF Clean, dirty, L
  <2>3. r.ops = <<>> /\ r.last = end
    BY <2>1
  <2> HIDE DEF r
  <2>4. Recovers(f, s, end, r.ops, r.last)
    BY <2>2, <2>3 DEF Recovers
  <2> QED
    BY <1>4, <2>4 DEF blob
<1>7. CASE dirty # {}
  <2>1. PICK top : Dirty(f, s, end, top)
    <3>1. ~Clean(f, s, end)
      BY <1>7 DEF Clean, dirty, L
    <3> QED
      BY <3>1
  <2>2. /\ top \in Aligned /\ end + 2 < top /\ top < L
        /\ \A x \in top - 1 .. L - 1 : f[x] = E
        /\ \/ f[end + 1] = E
           \/ f[end + 1].t = "len" /\ f[end + 1].len \in Nat /\ After(f, end) = top
    BY <2>1 DEF Dirty, L
  <2>3. top \in Nat
    BY <2>2, AlignedFacts
  <2>4. m \in dirty /\ \A y \in dirty : y <= m
    <3>1. dirty \subseteq 0 .. L /\ L \in Nat
      BY <1>1 DEF dirty
    <3> QED
      BY <1>7, <3>1, MaxIsLast DEF m
  <2>5. m \in Nat /\ m \in end .. L - 1 /\ f[m] # E
    BY <1>1, <2>4 DEF dirty
  <2>6. m # end /\ m + 2 <= top
    <3>1. m \notin top - 1 .. L - 1
      BY <2>2, <2>5
    <3> QED
      BY <1>1, <1>2, <2>3, <2>5, <3>1
  <2>7. clear = m + 2 /\ clear # 0 /\ clear \in Nat
    BY <1>5, <1>7, <2>5
  <2>8. r = rec
    BY <2>7
  <2>9. InvalidHdr(f[end]) = Hdr(0, 0, 1)
    BY <1>2 DEF InvalidHdr
  <2>10. CASE f[end + 1].t = "len" /\ f[end + 1].len \in Nat /\ After(f, end) = top
    <3>1. clear <= end + blob_len(f[end + 1].len) /\ end + blob_len(f[end + 1].len) = top
      BY <2>6, <2>7, <2>10 DEF After
    <3>2. rec = [ops |-> <<Prog(end, Hdr(0, 0, 1))>>, last |-> top]
      BY <2>9, <2>10, <3>1 DEF recovery
    <3>3. r.ops = <<Prog(end, Hdr(0, 0, 1))>> /\ r.last = top
      BY <2>8, <3>2
    <3> HIDE DEF r
    <3>4. Recovers(f, s, end, r.ops, r.last)
      BY <2>1, <2>10, <3>3 DEF Recovers
    <3> QED
      BY <1>4, <3>4 DEF blob
  <2>11. CASE f[end + 1] = E
    <3> DEFINE n == skip_write(end, clear)
               l == end + blob_len(n)
    <3>1. m # end + 1
      BY <2>5, <2>11
    <3>2. end + 2 <= m
      BY <1>1, <2>5, <2>6, <3>1
    <3>3. n \in Nat /\ l \in Aligned /\ end + 2 < l /\ l <= top /\ m + 2 <= l
      BY <1>1, <2>2, <2>5, <2>6, <2>7, <3>2, SkipIs
    <3>4. rec = [ops |-> <<Prog(end + 1, LenWord(n)), Prog(end, Hdr(0, 0, 1))>>, last |-> l]
      <4>1. f[end + 1].t # "len"
        BY <2>11 DEF E
      <4> HIDE DEF clear
      <4> QED
        BY <2>9, <4>1 DEF recovery
    <3>5. r.ops = <<Prog(end + 1, LenWord(n)), Prog(end, Hdr(0, 0, 1))>> /\ r.last = l
      <4> HIDE DEF rec, n, l
      <4> QED
        BY <2>8, <3>4
    <3> HIDE DEF r, rec, n
    <3>6. Dirty(f, s, end, l)
      <4> HIDE DEF l
      <4>1. l \in Nat
        BY <3>3, AlignedFacts
      <4>2. l < L
        BY <1>1, <2>2, <2>3, <3>3, <4>1
      <4>3. \A x \in l - 1 .. L - 1 : f[x] = E
        <5> SUFFICES ASSUME NEW x \in l - 1 .. L - 1, f[x] # E PROVE FALSE
          OBVIOUS
        <5>1. x \in end .. L - 1 /\ x \in Nat
          BY <1>1, <3>3, <4>1
        <5>2. x <= m
          BY <2>4, <5>1 DEF dirty
        <5> QED
          BY <1>1, <2>5, <3>3, <4>1, <5>1, <5>2
      <4> QED
        BY <1>2, <2>11, <3>3, <4>2, <4>3 DEF Dirty, L
    <3>7. Recovers(f, s, end, r.ops, r.last)
      BY <2>11, <3>3, <3>5, <3>6 DEF Recovers
    <3> QED
      BY <1>4, <3>7 DEF blob
  <2> QED
    BY <2>2, <2>10, <2>11
<1> QED
  BY <1>6, <1>7

InitOf == [kind |-> "init"]

\* A step that keeps the files.
LEMMA SafeSame ==
  ASSUME NEW c, NEW f \in Flashes, NEW g \in Flashes, Sound(g), Kept(g) = Kept(f)
  PROVE  <<f, g>> \in Safe(c)
BY SafeIs

\* What recovery needs is in the sector itself.
LEMMA RecoversStays ==
  ASSUME NEW f \in Flashes, NEW g \in Flashes, NEW s \in Sectors, NEW A, NEW end, LogAt(f, s, A, end),
         \A x \in SectorWords(s) : g[x] = f[x], NEW R, NEW l, Recovers(f, s, end, R, l)
  PROVE  Recovers(g, s, end, R, l)
<1>1. /\ end \in Nat /\ DataStart(s) <= end /\ end < Limit(s) /\ end + 2 <= Limit(s)
  BY LogOrder
<1>2. /\ Limit(s) \in Nat /\ DataStart(s) = Base(s) + 4 /\ Base(s) \in Nat
      /\ \A x : x \in SectorWords(s) <=> x \in Nat /\ Base(s) <= x /\ x < Limit(s)
  BY HeaderWords
<1>3. \A x \in Nat : end <= x /\ x < Limit(s) => g[x] = f[x]
  BY <1>1, <1>2
<1>4. g[end] = f[end] /\ g[end + 1] = f[end + 1]
  BY <1>1, <1>2, <1>3
<1>5. Clean(f, s, end) => Clean(g, s, end)
  <2>1. \A x \in end .. Limit(s) - 1 : x \in Nat /\ end <= x /\ x < Limit(s)
    BY <1>1, <1>2
  <2> QED
    BY <1>3, <2>1 DEF Clean
<1>6. Dirty(f, s, end, l) => Dirty(g, s, end, l)
  <2> SUFFICES ASSUME Dirty(f, s, end, l) PROVE Dirty(g, s, end, l)
    OBVIOUS
  <2>1. l \in Nat /\ end + 2 < l
    BY AlignedFacts DEF Dirty
  <2>2. \A x \in l - 1 .. Limit(s) - 1 : x \in Nat /\ end <= x /\ x < Limit(s)
    BY <1>1, <1>2, <2>1
  <2>3. \A x \in l - 1 .. Limit(s) - 1 : g[x] = E
    BY <1>3, <2>2 DEF Dirty
  <2>4. After(g, end) = After(f, end)
    BY <1>4 DEF After
  <2> QED
    BY <1>4, <2>3, <2>4 DEF Dirty
<1> QED
  BY <1>4, <1>5, <1>6 DEF Recovers

\* The mark of the blob to skip.
LEMMA MarkRun ==
  ASSUME NEW f \in Flashes, NEW s \in Sectors, ProbedSector(f) = s, Erased(f, 1 - s),
         NEW A, NEW end, LogAt(f, s, A, end), NEW l, Dirty(f, s, end, l), f[end + 1].t = "len",
         NEW b \in [Slots -> Addresses], Blobs(f, A, b), NEW c
  PROVE  \E g \in Flashes : /\ Run(f, <<Prog(end, Hdr(0, 0, 1))>>, g, Safe(c))
                            /\ RamOK(g, [cur |-> s, last |-> l, blob |-> b])
                            /\ [cur |-> s, last |-> l, blob |-> b] \in Rams
<1> DEFINE w == Hdr(0, 0, 1)
           g == Put(f, end, w)
           q == [cur |-> s, last |-> l, blob |-> b]
<1>1. /\ end \in Nat /\ DataStart(s) <= end /\ end < Limit(s) /\ end \in Addresses /\ end + 1 \in Addresses
      /\ Limit(s) \in Nat /\ DataStart(s) \in Nat /\ \A x \in Nat : x < Limit(s) => x \in Addresses
  BY LogOrder, SectorNums
<1>2. 0 \in Slots /\ 0 \in Nat
  BY Sizes DEF Slots
<1>3. w \in FlashWord /\ w.invalid = 0
      /\ w \in [t : {"hdr"}, slot : Slots, invalid : {0, 1}, cleared : {0, 1}]
  BY <1>2, WordTypes DEF Hdr
<1> HIDE DEF w
<1>4. g \in Flashes /\ g[end] = w /\ \A x \in Addresses : x # end => g[x] = f[x]
  BY <1>1, <1>3, PutIs
<1> HIDE DEF g
<1>5. /\ f[end] = E /\ f[end + 1].len \in Nat /\ After(f, end) = l /\ l \in Nat /\ end + 2 < l /\ l < Limit(s)
      /\ \A x \in l - 1 .. Limit(s) - 1 : f[x] = E
  <2>1. f[end + 1] # E
    BY DEF E
  <2>2. l \in Nat
    BY AlignedFacts DEF Dirty
  <2> QED
    BY <2>1, <2>2 DEF Dirty
<1>6. g[end + 1] = f[end + 1]
  BY <1>1, <1>4
<1>7. ProbedSector(g) = s /\ Erased(g, 1 - s) /\ Agree(f, g, DataStart(s), end)
  <2>1. end + 1 \in Nat /\ end + 1 <= Limit(s) /\ end <= Limit(s)
    BY <1>1
  <2>2. Outside(f, g, end, end + 1)
    <3> SUFFICES ASSUME NEW x \in Addresses, ~(end <= x /\ x < end + 1) PROVE g[x] = f[x]
      BY DEF Outside
    <3>1. x # end
      BY <1>1
    <3> QED
      BY <1>4, <3>1
  <2> QED
    BY <1>1, <1>4, <2>1, <2>2, DataFrame
<1>8. LogAt(g, s, A, end) /\ BlobsStay(f, g, A) /\ FilesStay(f, g, A)
  BY <1>7, LogStays
<1>9. IsBlob(g, end) /\ After(g, end) = l
  BY <1>3, <1>4, <1>5, <1>6 DEF IsBlob, After
<1>10. LogAt(g, s, A \cup {end}, l)
  BY <1>5, <1>8, <1>9, LogAdds
<1>11. Clean(g, s, l)
  <2> SUFFICES ASSUME NEW x \in l .. Limit(s) - 1 PROVE g[x] = E
    BY DEF Clean
  <2>1. x \in Nat /\ x \in Addresses /\ x # end /\ x \in l - 1 .. Limit(s) - 1
    BY <1>1, <1>5
  <2> QED
    BY <1>4, <1>5, <2>1
<1>12. Blobs(g, A \cup {end}, b)
  <2> SUFFICES ASSUME NEW k \in Slots PROVE BlobAt(g, A \cup {end}, k, b[k])
    BY DEF Blobs
  <2>1. BlobAt(g, A, k, b[k])
    BY <1>8 DEF Blobs, BlobsStay
  <2>2. ~Valid(g, end, k)
    BY <1>3, <1>4 DEF Valid
  <2> QED
    BY <1>8, <2>1, <2>2, BlobsAdd
<1>13. q \in Rams /\ q.cur = s /\ q.last = l /\ q.blob = b
  BY <1>10, <1>12, LogRam
<1> HIDE DEF q
<1>14. RamOK(g, q)
  BY <1>7, <1>10, <1>11, <1>12, <1>13 DEF RamOK, LogIsIn
<1>15. Sound(g) /\ Kept(g) = [slot \in Slots |-> FileAt(g, b[slot])]
  BY <1>4, <1>13, <1>14, FlashTyped, RamIsSound
<1>16. Kept(f) = [slot \in Slots |-> FileAt(f, b[slot])]
  BY <1>5, FlashTyped, KeptIs
<1>17. Kept(g) = Kept(f)
  <2>1. \A k \in Slots : FileAt(g, b[k]) = FileAt(f, b[k])
    BY <1>8, SameFiles
  <2> QED
    BY <1>15, <1>16, <2>1
<1>18. <<f, g>> \in Safe(c)
  BY <1>4, <1>15, <1>17, SafeSame
<1>19. Prog(end, w) \in Op /\ Step(f, Prog(end, w), g)
  <2>1. Takes(f[end], w)
    BY <1>5 DEF Takes
  <2> QED
    BY <1>1, <1>3, <2>1, OpTypes DEF Step, g
<1>20. Run(f, <<Prog(end, w)>>, g, Safe(c))
  BY <1>18, <1>19, RunOne
<1> QED
  BY <1>4, <1>13, <1>14, <1>20 DEF w, q

\* recovery() makes the log end in erased words again, safely at each of its
\* words.
LEMMA RecoverRun ==
  ASSUME NEW f \in Flashes, NEW s \in Sectors, ProbedSector(f) = s, Erased(f, 1 - s),
         NEW A, NEW end, LogAt(f, s, A, end), NEW R, NEW l, Recovers(f, s, end, R, l),
         NEW b \in [Slots -> Addresses], Blobs(f, A, b), NEW c
  PROVE  \E g \in Flashes : /\ Run(f, R, g, Safe(c))
                            /\ RamOK(g, [cur |-> s, last |-> l, blob |-> b])
                            /\ [cur |-> s, last |-> l, blob |-> b] \in Rams
<1> DEFINE q == [cur |-> s, last |-> l, blob |-> b]
           mark == Prog(end, Hdr(0, 0, 1))
<1>0. q.cur = s /\ q.last = l /\ q.blob = b
  OBVIOUS
<1>1. CASE R = <<>> /\ Clean(f, s, end) /\ l = end
  <2>1. q \in Rams
    BY <1>1, LogRam
  <2> HIDE DEF q
  <2>2. RamOK(f, q)
    BY <1>0, <1>1 DEF RamOK, LogIsIn
  <2>3. Run(f, R, f, Safe(c))
    BY <1>1, RunNil
  <2> QED
    BY <2>1, <2>2, <2>3 DEF q
<1>2. CASE R = <<mark>> /\ Dirty(f, s, end, l) /\ f[end + 1].t = "len"
  BY <1>2, MarkRun
<1>3. ASSUME NEW n \in Nat, R = <<Prog(end + 1, LenWord(n)), mark>>,
             Dirty(f, s, end, l), f[end + 1] = E, end + blob_len(n) = l
      PROVE  \E g \in Flashes : Run(f, R, g, Safe(c)) /\ RamOK(g, q) /\ q \in Rams
  <2> DEFINE w == LenWord(n)
             g == Put(f, end + 1, w)
             o == Prog(end + 1, w)
  <2>1. /\ end \in Nat /\ DataStart(s) <= end /\ end + 2 <= Limit(s) /\ end \in Addresses /\ end + 1 \in Addresses
        /\ Limit(s) \in Nat /\ DataStart(s) \in Nat /\ \A x \in Nat : x < Limit(s) => x \in Addresses
    BY LogOrder, SectorNums
  <2>2. w \in FlashWord /\ w.t = "len" /\ w.len = n
    BY WordTypes DEF LenWord
  <2> HIDE DEF w
  <2>3. g \in Flashes /\ g[end + 1] = w /\ \A x \in Addresses : x # end + 1 => g[x] = f[x]
    <3> DEFINE a == end + 1
    <3>1. a \in Addresses /\ w \in FlashWord
      BY <2>1, <2>2
    <3> HIDE DEF a
    <3>2. Put(f, a, w) \in Flashes /\ Put(f, a, w)[a] = w /\ \A x \in Addresses : x # a => Put(f, a, w)[x] = f[x]
      BY <3>1, PutIs
    <3> QED
      BY <3>2 DEF a
  <2> HIDE DEF g
  <2>4. /\ f[end] = E /\ l \in Aligned /\ l \in Nat /\ end + 2 < l /\ l < Limit(s)
        /\ \A x \in l - 1 .. Limit(s) - 1 : f[x] = E
    BY <1>3, AlignedFacts DEF Dirty
  <2>5. g[end] = E
    BY <2>1, <2>3, <2>4
  <2>6. \A x \in l - 1 .. Limit(s) - 1 : g[x] = E
    <3> SUFFICES ASSUME NEW x \in l - 1 .. Limit(s) - 1 PROVE g[x] = E
      OBVIOUS
    <3>1. x \in Nat /\ x \in Addresses /\ x # end + 1
      BY <2>1, <2>4
    <3> QED
      BY <2>3, <2>4, <3>1
  <2>7. After(g, end) = l
    BY <1>3, <2>2, <2>3 DEF After
  <2>8. Dirty(g, s, end, l) /\ g[end + 1].t = "len"
    BY <2>2, <2>3, <2>4, <2>5, <2>6, <2>7 DEF Dirty
  <2>9. ProbedSector(g) = s /\ Erased(g, 1 - s) /\ Agree(f, g, DataStart(s), end)
    <3>1. end + 1 \in Nat /\ end + 2 \in Nat /\ end + 1 <= Limit(s) /\ DataStart(s) <= end + 1
      BY <2>1
    <3>2. Outside(f, g, end + 1, end + 2)
      <4> SUFFICES ASSUME NEW x \in Addresses, ~(end + 1 <= x /\ x < end + 2) PROVE g[x] = f[x]
        BY DEF Outside
      <4>1. x # end + 1
        BY <2>1
      <4> QED
        BY <2>3, <4>1
    <3>3. ProbedSector(g) = s /\ Erased(g, 1 - s) /\ Agree(f, g, DataStart(s), end + 1)
      BY <2>1, <2>3, <3>1, <3>2, DataFrame
    <3>4. \A x \in Nat : x < end => x < end + 1
      BY <2>1
    <3> QED
      BY <3>3, <3>4 DEF Agree
  <2>10. LogAt(g, s, A, end) /\ Kept(g) = Kept(f)
    BY <2>3, <2>4, <2>5, <2>9, FlashTyped, KeptStays
  <2>11. Blobs(g, A, b)
    <3>1. BlobsStay(f, g, A)
      BY <2>9, LogStays
    <3> QED
      BY <3>1 DEF Blobs, BlobsStay
  <2>12. Sound(g)
    BY <2>8, <2>9, <2>10 DEF Sound, SectorSound
  <2>13. <<f, g>> \in Safe(c)
    BY <2>3, <2>10, <2>12, SafeSame
  <2>14. o \in Op /\ Step(f, o, g)
    <3>1. Takes(f[end + 1], w)
      BY <1>3 DEF Takes
    <3> QED
      BY <2>1, <2>2, <3>1, OpTypes DEF Step, g
  <2> HIDE DEF mark, q
  <2>15. PICK h \in Flashes : Run(g, <<mark>>, h, Safe(c)) /\ RamOK(h, q) /\ q \in Rams
    BY <2>3, <2>8, <2>9, <2>10, <2>11, MarkRun DEF mark, q
  <2>16. mark \in Op
    <3>1. <<mark>> \in Seq(Op) /\ Len(<<mark>>) = 1 /\ <<mark>>[1] = mark
      BY <2>15 DEF Run
    <3> QED
      BY <3>1
  <2> HIDE DEF o
  <2>17. /\ <<o, mark>> \in Seq(Op) /\ <<o, mark>> # <<>>
         /\ Head(<<o, mark>>) = o /\ Tail(<<o, mark>>) = <<mark>>
    BY <2>14, <2>16
  <2>18. Run(f, <<o, mark>>, h, Safe(c))
    BY <2>13, <2>14, <2>15, <2>17, RunCons
  <2>19. R = <<o, mark>>
    BY <1>3 DEF o, w
  <2> QED
    BY <2>15, <2>18, <2>19
<1> QED
  BY <1>1, <1>2, <1>3 DEF Recovers

\* sm_init.
LEMMA InitRun ==
  ASSUME NEW f \in Flashes, Sound(f), ~Moving(f), EraseErrSectors = {},
         NEW p, p = savedata_probe(f)
  PROVE  /\ p.stat = "SM_STAT_OK"
         /\ \E g \in Flashes : Run(f, p.ops, g, Safe(InitOf)) /\ Ends(g, InitOf, p.ram) /\ p.ram \in Rams
<1> DEFINE s == ProbedSector(f)
           era == ProbeErases(f, s)
           pos == SlotPos(f, s)
           c == InitOf
<1>0. c.kind = "init" /\ \A K : Effect(c, K) = K
  BY DEF InitOf, Effect
<1>1. CASE s = -1
  <2>1. p = [ops |-> ClearOps, ram |-> [NoRam EXCEPT !.last = DataStart(0)], stat |-> "SM_STAT_OK"]
    BY <1>1 DEF savedata_probe
  <2>2. [NoRam EXCEPT !.last = DataStart(0)] = FreshRam
    BY DEF NoRam, FreshRam
  <2>3. p.ops = ClearOps /\ p.ram = FreshRam /\ p.stat = "SM_STAT_OK"
    BY <2>1, <2>2
  <2>4. ~HasMagic(f, 1)
    BY <1>1, ProbeFacts
  <2>5. PICK g \in Flashes : Run(f, ClearOps, g, Safe(c)) /\ FreshRam \in Rams /\ RamOK(g, FreshRam)
    BY <1>1, <2>4, ClearRun
  <2> HIDE DEF c
  <2>6. Ends(g, c, FreshRam)
    BY <1>0, <2>5 DEF Ends
  <2> QED
    BY <2>3, <2>5, <2>6 DEF c
<1>2. CASE s # -1
  <2>1. s \in Sectors
    BY <1>2, ProbeFacts
  <2>2. p = [pos EXCEPT !.ops = era \o pos.ops]
    <3>1. ~(1 - s \in EraseErrSectors)
      OBVIOUS
    <3> QED
      BY Zenon, <1>2, <3>1 DEF savedata_probe
  <2>3. PICK A, end : LogAt(f, s, A, end) /\ (Clean(f, s, end) \/ \E top : Dirty(f, s, end, top))
    BY <1>2 DEF Sound, SectorSound
  <2> HIDE DEF s
  <2>4. PICK R, l : /\ pos = [ops |-> R, stat |-> "SM_STAT_OK",
                              ram |-> [cur |-> s, last |-> l, blob |-> BlobAddrs(f, s)]]
                    /\ Recovers(f, s, end, R, l)
    BY <2>1, <2>3, SlotPosIs
  <2> DEFINE b == BlobAddrs(f, s)
             q == [cur |-> s, last |-> l, blob |-> b]
  <2>5. p.ops = era \o R /\ p.ram = q /\ p.stat = "SM_STAT_OK"
    <3> HIDE DEF era, pos, q
    <3>1. pos = [ops |-> R, stat |-> "SM_STAT_OK", ram |-> q]
      BY <2>4 DEF q
    <3> QED
      BY <2>2, <3>1
  <2>6. f[end] = E
    BY <2>1, <2>3, CleanStops
  <2>7. Blobs(f, A, b) /\ DOMAIN b = Slots
    BY <2>1, <2>3, <2>6, FlashTyped, BlobAddrsAre
  <2>8. b \in [Slots -> Addresses]
    <3>1. b = [k \in Slots |-> b[k]]
      <4>1. b = [slot \in DOMAIN b |-> b[slot]]
        BY DEF BlobAddrs
      <4> HIDE DEF b
      <4> QED
        BY <2>7, <4>1
    <3> HIDE DEF b
    <3>2. \A k \in Slots : b[k] \in Addresses
      BY <2>1, <2>3, <2>7, BlobAtIs DEF Blobs
    <3> QED
      BY <3>1, <3>2
  <2> HIDE DEF b
  <2>9. \E g \in Flashes : /\ Run(f, era, g, Safe(c)) /\ ProbedSector(g) = s /\ Erased(g, 1 - s)
                           /\ \A x \in SectorWords(s) : g[x] = f[x]
    <3>1. 1 - s \in Sectors /\ 1 - (1 - s) = s
      BY <2>1, SectorFacts
    <3>2. CASE NoMagic(f, 1 - s)
      <4>1. era = <<>>
        BY <3>2 DEF ProbeErases
      <4>2. Erased(f, 1 - s)
        BY <1>2, <3>2 DEF Moving, Erased, s
      <4> QED
        BY <4>1, <4>2, RunNil DEF s
    <3>3. CASE ~NoMagic(f, 1 - s)
      <4> DEFINE g == Wiped(f, 1 - s)
                 o == Erase(1 - s)
      <4>1. era = <<o>>
        BY <3>3 DEF ProbeErases
      <4>2. g \in Flashes /\ Erased(g, 1 - s) /\ \A x \in SectorWords(s) : g[x] = f[x]
        BY <3>1, WipedIs
      <4>3. o \in Op /\ Step(f, o, g)
        BY <3>1, OpTypes DEF Step
      <4> HIDE DEF g, o
      <4>4. HasMagic(g, s)
        <5>1. HasMagic(f, s)
          BY <2>1, ProbeFacts DEF s
        <5>2. Base(s) \in SectorWords(s) /\ Base(s) + 1 \in SectorWords(s)
          BY <2>1, HeaderWords
        <5> QED
          BY <4>2, <5>1, <5>2 DEF HasMagic
      <4>5. ProbedSector(g) = s
        BY <2>1, <3>1, <4>2, <4>4, ErasedHasNoMagic, ProbeFacts
      <4>6. Sound(g) /\ Kept(g) = Kept(f)
        BY <2>1, <4>2, <4>5, SoundStays DEF s
      <4>7. <<f, g>> \in Safe(c)
        BY <4>2, <4>6, SafeSame
      <4> QED
        BY <4>1, <4>2, <4>3, <4>5, <4>7, RunOne
    <3> QED
      BY <3>2, <3>3
  <2>10. PICK g \in Flashes : /\ Run(f, era, g, Safe(c)) /\ ProbedSector(g) = s /\ Erased(g, 1 - s)
                              /\ \A x \in SectorWords(s) : g[x] = f[x]
    BY <2>9
  <2>11. Recovers(g, s, end, R, l)
    BY <2>1, <2>3, <2>4, <2>10, RecoversStays
  <2>12. LogAt(g, s, A, end) /\ Blobs(g, A, b)
    <3>1. /\ end \in Nat /\ end < Limit(s) /\ Limit(s) \in Nat /\ Base(s) \in Nat /\ DataStart(s) = Base(s) + 4
          /\ \A x : x \in SectorWords(s) <=> x \in Nat /\ Base(s) <= x /\ x < Limit(s)
      BY <2>1, <2>3, LogOrder, HeaderWords
    <3>2. Agree(f, g, DataStart(s), end)
      BY <2>10, <3>1 DEF Agree
    <3>3. LogAt(g, s, A, end) /\ BlobsStay(f, g, A)
      BY <2>1, <2>3, <3>2, LogStays
    <3> QED
      BY <2>7, <3>3 DEF Blobs, BlobsStay
  <2>13. PICK h \in Flashes : Run(g, R, h, Safe(c)) /\ RamOK(h, q) /\ q \in Rams
    BY <2>1, <2>8, <2>10, <2>11, <2>12, RecoverRun
  <2> HIDE DEF era, q, c
  <2>14. Run(f, era \o R, h, Safe(c))
    BY <2>10, <2>13, RunCat
  <2>15. Ends(h, c, q)
    BY <1>0, <2>13 DEF Ends
  <2> QED
    BY <2>5, <2>13, <2>14, <2>15 DEF c
<1> QED
  BY <1>1, <1>2

-----------------------------------------------------------------------------
(* sm_save with a move to the other sector *)

\* The room that every blob fits in.
Fits(M) == M \in Nat /\ 4 + NumSlots * M < SectorLen /\ \A len \in Lens : blob_len(len) <= M

\* There is such a room, by the longest length.
LEMMA LargestBlob == \E M : Fits(M)
<1>1. /\ MaxSaveLen \in Nat /\ Lens \subseteq 0 .. MaxSaveLen /\ Lens # {}
  <2>1. MaxSaveLen \in Nat
    BY DEF MaxSaveLen
  <2>2. Lens # {} /\ Lens \subseteq 0 .. MaxSaveLen
    BY Zenon, SaveSizes
  <2> QED
    BY <2>1, <2>2
<1>2. PICK l \in Lens : \A y \in Lens : y <= l
  BY <1>1, MaxIsLast
<1>3. l \in Nat /\ blob_len(l) \in Nat /\ 4 + NumSlots * blob_len(l) < SectorLen
  BY LensFacts
<1>4. ASSUME NEW len \in Lens PROVE blob_len(len) <= blob_len(l)
  <2>1. len \in Nat /\ len <= l
    BY <1>2, LensFacts
  <2>2. (len + 3) \div 4 <= (l + 3) \div 4 /\ (len + 3) \div 4 \in Nat /\ (l + 3) \div 4 \in Nat
    BY <1>3, <2>1
  <2> DEFINE x == (len + 3) \div 4
             y == (l + 3) \div 4
  <2>3. blob_len(len) = 2 + 2 * x /\ blob_len(l) = 2 + 2 * y
    BY DEF blob_len
  <2> HIDE DEF x, y
  <2> QED
    BY <2>2, <2>3 DEF x, y
<1> QED
  BY <1>3, <1>4 DEF Fits

\* The new sector ns is being written, its magic number is not complete.
Built(f, h, ns) ==
  h \in Flashes /\ Outside(f, h, Base(ns), Limit(ns)) /\ h[Base(ns) + 1] = E

\* Changes in a range within a range.
LEMMA OutsideTrans ==
  ASSUME NEW f, NEW g, NEW h, NEW lo \in Nat, NEW hi \in Nat, NEW lo2 \in Nat, NEW hi2 \in Nat,
         lo <= lo2, hi2 <= hi, Outside(f, g, lo, hi), Outside(g, h, lo2, hi2)
  PROVE  Outside(f, h, lo, hi)
<1> SUFFICES ASSUME NEW x \in Addresses, ~(lo <= x /\ x < hi) PROVE h[x] = f[x]
  BY DEF Outside
<1>1. x \in Nat
  BY SectorFacts DEF Addresses, Sectors
<1>2. ~(lo2 <= x /\ x < hi2)
  BY <1>1
<1> QED
  BY <1>2 DEF Outside

\* As long as the new sector has no magic number it does not count.
LEMMA BuildSafe ==
  ASSUME NEW f \in Flashes, NEW r \in Rams, RamOK(f, r), NEW g, Built(f, g, 1 - r.cur)
  PROVE  /\ Sound(g) /\ Kept(g) = Kept(f) /\ ProbedSector(g) = r.cur
<1> DEFINE s == r.cur
<1>1. s \in Sectors /\ ProbedSector(f) = s /\ Sound(f) /\ Typed(f)
  BY RamHas, RamIsSound, FlashTyped
<1> HIDE DEF s
<1>2. 1 - s \in Sectors /\ 1 - (1 - s) = s
  BY <1>1, SectorFacts
<1>3. \A x \in SectorWords(s) : g[x] = f[x]
  <2> SUFFICES ASSUME NEW x \in SectorWords(s) PROVE g[x] = f[x]
    OBVIOUS
  <2>1. x \in Addresses /\ x \in Nat /\ x \notin SectorWords(1 - s)
    BY <1>1, HeaderWords
  <2>2. ~(Base(1 - s) <= x /\ x < Limit(1 - s))
    BY <1>2, <2>1, HeaderWords
  <2> QED
    BY <2>1, <2>2 DEF Built, Outside, s
<1>4. HasMagic(g, s)
  <2>1. Base(s) \in SectorWords(s) /\ Base(s) + 1 \in SectorWords(s)
    BY <1>1, HeaderWords
  <2> QED
    BY <1>1, <1>3, <2>1, ProbeFacts DEF HasMagic
<1>5. ~HasMagic(g, 1 - s)
  BY WordsDiffer DEF Built, HasMagic, s
<1>6. ProbedSector(g) = s
  BY <1>1, <1>4, <1>5, ProbeFacts
<1>7. g \in Flashes
  BY DEF Built
<1> QED
  BY <1>1, <1>3, <1>6, <1>7, SoundStays DEF s

\* Steps of the build.
LEMMA BuildStep ==
  ASSUME NEW f \in Flashes, NEW r \in Rams, RamOK(f, r), NEW g, NEW h,
         Built(f, g, 1 - r.cur), Built(f, h, 1 - r.cur), NEW c
  PROVE  <<g, h>> \in Safe(c)
<1>1. g \in Flashes /\ h \in Flashes
  BY DEF Built
<1>2. Sound(h) /\ Kept(h) = Kept(f)
  BY BuildSafe
<1>3. Kept(g) = Kept(f)
  BY BuildSafe
<1> QED
  BY <1>1, <1>2, <1>3, SafeSame

\* Changes of the data keep the build.
LEMMA BuiltData ==
  ASSUME NEW f \in Flashes, NEW ns \in Sectors, NEW g, Built(f, g, ns), NEW h \in Flashes,
         NEW lo \in Nat, NEW hi \in Nat, Base(ns) + 2 <= lo, hi <= Limit(ns), Outside(g, h, lo, hi)
  PROVE  Built(f, h, ns)
<1>1. /\ Base(ns) \in Nat /\ Limit(ns) \in Nat /\ Base(ns) + 1 \in Addresses
  BY HeaderWords
<1>2. Outside(f, h, Base(ns), Limit(ns))
  <2>1. Base(ns) <= lo
    BY <1>1
  <2> QED
    BY <1>1, <2>1, OutsideTrans DEF Built
<1>3. ~(lo <= Base(ns) + 1 /\ Base(ns) + 1 < hi)
  BY <1>1
<1> QED
  BY <1>1, <1>2, <1>3 DEF Built, Outside

-----------------------------------------------------------------------------
(* sector_cross_begin *)

\* blob_copy out of flash f.
CopyOf(f, dst, src, n) == [i \in 1 .. n |-> Prog(dst + i - 1, f[src + i - 1])]

\* Flash h is g with a copy at dst of the blob that f has at src.
CopiedTo(f, g, h, dst, src, n) ==
  /\ Outside(g, h, dst, dst + n)
  /\ \A x \in Nat : x < n => h[dst + x] = f[src + x]

\* blob_copy into the erased rest of the new sector.
LEMMA CopyRun ==
  ASSUME NEW f \in Flashes, NEW r \in Rams, RamOK(f, r), NEW c, NEW g, Built(f, g, 1 - r.cur),
         NEW src \in Nat, NEW n \in Nat, src + n <= Limit(1), NEW dst \in Nat,
         DataStart(1 - r.cur) <= dst, dst + n <= Limit(1 - r.cur), Clean(g, 1 - r.cur, dst)
  PROVE  \E h \in Flashes : /\ Run(g, CopyOf(f, dst, src, n), h, Safe(c))
                            /\ Built(f, h, 1 - r.cur) /\ CopiedTo(f, g, h, dst, src, n)
<1> DEFINE ns == 1 - r.cur
           w == [i \in 1 .. n |-> f[src + i - 1]]
           D(k) == Filled(g, dst, k, w)
           ops == CopyOf(f, dst, src, n)
           L == Limit(1)
<1>1. r.cur \in Sectors /\ ns \in Sectors /\ 1 \in Sectors
  <2>1. r.cur \in Sectors
    BY RamsHave
  <2> QED
    BY <2>1, SectorFacts DEF Sectors
<1> HIDE DEF ns
<1>2. /\ Base(ns) \in Nat /\ Limit(ns) \in Nat /\ DataStart(ns) = Base(ns) + 4 /\ Limit(ns) <= L /\ L \in Nat
      /\ Addresses = 0 .. L - 1
  BY <1>1, SectorFacts DEF Addresses
<1>3. dst + n <= L /\ DataStart(ns) <= dst /\ dst + n <= Limit(ns) /\ Clean(g, ns, dst) /\ Built(f, g, ns)
  BY <1>2 DEF ns
<1>4. \A i \in 1 .. n : src + i - 1 \in Addresses
  <2> HIDE DEF L
  <2> QED
    BY <1>2 DEF L
<1>5. \A i \in 1 .. n : w[i] \in FlashWord
  BY <1>4 DEF Flashes
<1>6. \A x \in Addresses : dst <= x /\ x < dst + n => g[x] = E
  <2>1. \A x \in Addresses : x \in Nat
    BY <1>2
  <2>2. \A x \in Nat : dst <= x /\ x < dst + n => x \in dst .. Limit(ns) - 1
    BY <1>2, <1>3
  <2> QED
    BY <1>3, <2>1, <2>2 DEF Clean
<1>7. ops = [i \in 1 .. n |-> Prog(dst + i - 1, w[i])]
  BY DEF CopyOf
<1>8. g \in Flashes
  BY DEF Built
<1> HIDE DEF w, ops, L
<1>9. ASSUME NEW k \in 0 .. n PROVE D(k) \in Flashes /\ Outside(g, D(k), dst, dst + n)
  <2>1. D(k) \in Flashes
    BY <1>3, <1>5, <1>8, FilledIs DEF L
  <2>2. \A x \in Addresses : x \in Nat /\ (~(dst <= x /\ x < dst + k) => D(k)[x] = g[x])
    BY <1>2 DEF Filled
  <2> HIDE DEF D
  <2>3. \A x \in Addresses : ~(dst <= x /\ x < dst + n) => ~(dst <= x /\ x < dst + k)
    BY <2>2
  <2> QED
    BY <2>1, <2>2, <2>3 DEF Outside
<1>10. ASSUME NEW k \in 0 .. n PROVE Built(f, D(k), ns)
  <2>1. Base(ns) + 2 <= dst /\ dst + n \in Nat
    BY <1>2, <1>3
  <2>2. D(k) \in Flashes /\ Outside(g, D(k), dst, dst + n)
    BY <1>9
  <2> HIDE DEF D
  <2> QED
    BY <1>1, <1>3, <2>1, <2>2, BuiltData
<1>11. Run(g, ops, D(n), Safe(c))
  <2>1. \A k \in 1 .. n : <<Filled(g, dst, k - 1, w), Filled(g, dst, k, w)>> \in Safe(c)
    <3> SUFFICES ASSUME NEW k \in 1 .. n PROVE <<D(k - 1), D(k)>> \in Safe(c)
      OBVIOUS
    <3>1. k \in 0 .. n /\ k - 1 \in 0 .. n
      OBVIOUS
    <3>2. Built(f, D(k), ns) /\ Built(f, D(k - 1), ns)
      <4> HIDE DEF D
      <4> QED
        BY <1>10, <3>1
    <3> HIDE DEF D
    <3> QED
      BY <3>2, BuildStep DEF ns
  <2> QED
    BY <1>3, <1>5, <1>6, <1>7, <1>8, <2>1, RunFill DEF L
<1>12. \A x \in Nat : x < n => D(n)[dst + x] = f[src + x]
  <2> SUFFICES ASSUME NEW x \in Nat, x < n PROVE D(n)[dst + x] = f[src + x]
    OBVIOUS
  <2> DEFINE y == dst + x
             i == y - dst + 1
  <2>1. y \in Addresses /\ dst <= y /\ y < dst + n /\ i \in 1 .. n /\ src + i - 1 = src + x
    BY <1>2, <1>3
  <2>2. D(n)[y] = w[i]
    <3> HIDE DEF y
    <3> QED
      BY <2>1 DEF Filled
  <2>3. w[i] = f[src + x]
    <3> HIDE DEF i
    <3> QED
      BY <2>1 DEF w
  <2> HIDE DEF D, i
  <2> QED
    BY <2>2, <2>3
<1>13. n \in 0 .. n
  OBVIOUS
<1>14. D(n) \in Flashes /\ Built(f, D(n), ns) /\ CopiedTo(f, g, D(n), dst, src, n)
  BY <1>9, <1>10, <1>12, <1>13 DEF CopiedTo
<1> HIDE DEF D
<1> QED
  BY <1>11, <1>14 DEF ops, ns

\* The copy is a blob of the new log, of the same slot and with the same file.
CopyJoins(f, g, h, ns, B, dst, src, e, slot) ==
  /\ LogAt(h, ns, B, dst) /\ LogAt(h, ns, B \cup {dst}, e) /\ Clean(h, ns, e)
  /\ BlobsStay(g, h, B) /\ FilesStay(g, h, B)
  /\ Valid(h, dst, slot) /\ h[dst].cleared = 1 /\ \A k : Valid(h, dst, k) => k = slot
  /\ \A a \in B, k \in Slots : Valid(h, a, k) => Valid(g, a, k)
  /\ FileAt(h, dst) = FileAt(f, src)

\* The log of the new sector after blob_copy.
LEMMA CopiedLog ==
  ASSUME NEW f \in Flashes, NEW g \in Flashes, NEW h \in Flashes,
         NEW s \in Sectors, NEW A, NEW end, LogAt(f, s, A, end), NEW src \in A,
         NEW slot \in Slots, Valid(f, src, slot), f[src].cleared = 1,
         NEW n, n = blob_len(f[src + 1].len),
         NEW ns \in Sectors, NEW B, NEW dst, LogAt(g, ns, B, dst), Clean(g, ns, dst),
         NEW e, e = dst + n, e < Limit(ns), CopiedTo(f, g, h, dst, src, n)
  PROVE  CopyJoins(f, g, h, ns, B, dst, src, e, slot)
<1> DEFINE len == f[src + 1].len
           m == (len + 1) \div 2
<1>1. /\ src \in Nat /\ src > 4 /\ IsBlob(f, src) /\ len \in Nat /\ m \in Nat
  BY LogOrder
<1>2. n \in Nat /\ n >= 2 /\ m + 2 <= n
  BY <1>1, LenFacts
<1>3. /\ dst \in Nat /\ dst > 4 /\ DataStart(ns) <= dst /\ dst < Limit(ns) /\ Limit(ns) \in Nat
      /\ \A x \in Nat : x < Limit(ns) => x \in Addresses
      /\ \A a \in B : a \in Nat /\ DataStart(ns) <= a /\ a < dst
  BY LogOrder, SectorNums
<1>4. e \in Nat /\ dst < e
  BY <1>2, <1>3
<1>5. \A x \in Nat : x < Limit(ns) /\ (x < dst \/ x >= e) => h[x] = g[x]
  <2> SUFFICES ASSUME NEW x \in Nat, x < Limit(ns), x < dst \/ x >= e PROVE h[x] = g[x]
    OBVIOUS
  <2>1. x \in Addresses /\ ~(dst <= x /\ x < dst + n)
    BY <1>2, <1>3, <1>4
  <2> QED
    BY <2>1 DEF CopiedTo, Outside
<1>6. Agree(g, h, DataStart(ns), dst)
  BY <1>3, <1>5 DEF Agree
<1>7. LogAt(h, ns, B, dst) /\ BlobsStay(g, h, B) /\ FilesStay(g, h, B)
  BY <1>6, LogStays
<1>8. \A x \in Nat : x < n => h[dst + x] = f[src + x]
  BY DEF CopiedTo
<1>9. h[dst] = f[src] /\ h[dst + 1] = f[src + 1]
  <2>1. 0 < n /\ 1 < n /\ dst + 0 = dst /\ src + 0 = src
    BY <1>1, <1>2, <1>3
  <2> QED
    BY <1>8, <2>1
<1>10. IsBlob(h, dst) /\ After(h, dst) = e
  BY <1>1, <1>9 DEF IsBlob, After
<1>11. LogAt(h, ns, B \cup {dst}, e)
  BY <1>7, <1>10, LogAdds
<1>12. Clean(h, ns, e)
  <2> SUFFICES ASSUME NEW x \in e .. Limit(ns) - 1 PROVE h[x] = E
    BY DEF Clean
  <2>1. x \in Nat /\ x < Limit(ns) /\ x >= e /\ x \in dst .. Limit(ns) - 1
    BY <1>3, <1>4
  <2> QED
    BY <1>5, <2>1 DEF Clean
<1>13. Valid(h, dst, slot) /\ h[dst].cleared = 1 /\ \A k : Valid(h, dst, k) => k = slot
  BY <1>9 DEF Valid
<1>14. \A a \in B, k \in Slots : Valid(h, a, k) => Valid(g, a, k)
  <2>1. \A a \in B : h[a] = g[a]
    BY <1>3, <1>5
  <2> QED
    BY <2>1 DEF Valid
<1>15. FileAt(h, dst) = FileAt(f, src)
  <2>1. f[src + 1].t = "len" /\ h[dst + 1].t = "len" /\ h[dst + 1].len = len /\ src # 0 /\ dst # 0
    BY <1>1, <1>3, <1>9 DEF IsBlob
  <2>2. FileAt(f, src) = [i \in 1 .. m |-> f[src + 1 + i]]
    BY Zenon, <2>1 DEF FileAt
  <2>3. FileAt(h, dst) = [i \in 1 .. m |-> h[dst + 1 + i]]
    <3>1. FileAt(h, dst) = [i \in 1 .. (h[dst + 1].len + 1) \div 2 |-> h[dst + 1 + i]]
      BY Zenon, <2>1 DEF FileAt
    <3>2. (h[dst + 1].len + 1) \div 2 = m
      BY <2>1
    <3> QED
      BY Zenon, <3>1, <3>2
  <2> HIDE DEF m
  <2>4. ASSUME NEW i \in 1 .. m PROVE h[dst + 1 + i] = f[src + 1 + i]
    <3>1. 1 + i \in Nat /\ 1 + i < n /\ dst + (1 + i) = dst + 1 + i /\ src + (1 + i) = src + 1 + i
      BY <1>1, <1>2, <1>3
    <3>2. h[dst + (1 + i)] = f[src + (1 + i)]
      BY <1>8, <3>1
    <3> QED
      BY <3>1, <3>2
  <2> QED
    BY <2>2, <2>3, <2>4
<1> QED
  BY <1>7, <1>11, <1>12, <1>13, <1>14, <1>15 DEF CopyJoins

\* Blobs that are in the new sector before the one of slot k.
Count(slot, k) == IF k <= slot THEN k ELSE k - 1

\* The blobs of all the slots fit in one sector.
LEMMA RoomFor ==
  ASSUME NEW M, Fits(M), NEW j \in Nat, NEW ns \in Sectors, NEW a \in Nat, a <= DataStart(ns) + M * j,
         NEW n \in Nat, n <= M, j + 1 <= NumSlots
  PROVE  a + n <= DataStart(ns) + M * (j + 1) /\ a + n < Limit(ns)
<1> DEFINE u == M * j
           t == M * NumSlots
           d == M * (NumSlots - (j + 1))
<1>1. M \in Nat /\ NumSlots \in Nat /\ 4 + t < SectorLen /\ SectorLen \in Nat
  BY Sizes DEF Fits
<1>2. M * (j + 1) = u + M /\ u \in Nat
  BY <1>1
<1>3. d \in Nat /\ t \in Nat
  BY <1>1
<1>4. t = u + M + d
  BY <1>1
<1>5. /\ Limit(ns) = Base(ns) + SectorLen /\ DataStart(ns) = Base(ns) + 4 /\ Base(ns) \in Nat
  BY SectorFacts
<1> HIDE DEF u, t, d
<1>6. a <= Base(ns) + 4 + u
  BY <1>5 DEF u
<1>7. a + n <= Base(ns) + 4 + u + M
  BY <1>1, <1>2, <1>5, <1>6
<1>8. a + n < Base(ns) + SectorLen
  BY <1>1, <1>2, <1>3, <1>4, <1>5, <1>7
<1>9. DataStart(ns) + M * (j + 1) = Base(ns) + 4 + u + M
  <2> DEFINE z == M * (j + 1)
  <2>1. z = u + M
    BY <1>2
  <2> HIDE DEF z
  <2>2. DataStart(ns) + z = Base(ns) + 4 + u + M
    BY <1>1, <1>2, <1>5, <2>1
  <2> QED
    BY <2>2 DEF z
<1> QED
  BY <1>5, <1>7, <1>8, <1>9

\* Slots in their order.
LEMMA SlotOrder ==
  \A i, j \in Slots : i \in Nat /\ (i < j + 1 <=> (i < j \/ i = j))
BY Sizes DEF Slots

\* After the blobs of the slots before k.
CopiesDone(f, r, c, slot, M, k, p, g, B) ==
  /\ Built(f, g, 1 - r.cur) /\ Outside(f, g, DataStart(1 - r.cur), Limit(1 - r.cur))
  /\ Run(f, p.ops, g, Safe(c))
  /\ LogAt(g, 1 - r.cur, B, p.addr) /\ Clean(g, 1 - r.cur, p.addr)
  /\ p.addr <= DataStart(1 - r.cur) + M * Count(slot, k)
  /\ p.blob \in [Slots -> Addresses]
  /\ \A i \in Slots : i >= k => p.blob[i] = r.blob[i]
  /\ \A i \in Slots : i < k /\ i # slot => BlobAt(g, B, i, p.blob[i]) /\ FileAt(g, p.blob[i]) = FileAt(f, r.blob[i])
  /\ \A i \in Slots : ~(i < k /\ i # slot) => \A a \in B : ~Valid(g, a, i)

CopyInv(f, r, c, slot, M, k, p) == \E g, B : CopiesDone(f, r, c, slot, M, k, p, g, B)

\* The turn of slot j.
CopyNext(f, r, slot, j, p) ==
  LET src == r.blob[j]
      n == blob_len(f[src + 1].len)
  IN IF j = slot \/ src = 0 THEN p
     ELSE [addr |-> p.addr + n,
           ops  |-> p.ops \o CopyOf(f, p.addr, src, n),
           blob |-> [p.blob EXCEPT ![j] = p.addr]]

\* The turn of a slot that is empty or about to be saved.
LEMMA CopyStepSkips ==
  ASSUME NEW f \in Flashes, NEW r \in Rams, RamOK(f, r), NEW c, NEW slot \in Slots, NEW M, Fits(M),
         NEW j \in Slots, NEW p, CopyInv(f, r, c, slot, M, j, p), j = slot \/ r.blob[j] = 0
  PROVE  CopyInv(f, r, c, slot, M, j + 1, p)
<1> DEFINE ns == 1 - r.cur
<1>1. PICK g, B : CopiesDone(f, r, c, slot, M, j, p, g, B)
  BY DEF CopyInv
<1>2. j \in Nat /\ slot \in Nat /\ M \in Nat /\ \A i \in Slots : i \in Nat
  BY Sizes DEF Slots, Fits
<1>3. ns \in Sectors
  BY RamsHave, SectorFacts
<1> HIDE DEF ns
<1>4. p.addr <= DataStart(ns) + M * Count(slot, j + 1)
  <2> DEFINE a == p.addr
  <2>1. a <= DataStart(ns) + M * Count(slot, j) /\ LogAt(g, ns, B, a)
    BY <1>1 DEF CopiesDone, ns
  <2>2. a \in Nat /\ DataStart(ns) \in Nat
    BY <1>3, <2>1, LogOrder, SectorNums
  <2> HIDE DEF a
  <2>3. CASE j <= slot /\ j + 1 <= slot
    <3>1. Count(slot, j) = j /\ Count(slot, j + 1) = j + 1 /\ M * (j + 1) = M * j + M
      BY <1>2, <2>3 DEF Count
    <3>2. M * j \in Nat
      BY <1>2
    <3> QED
      BY <1>2, <2>1, <2>2, <3>1, <3>2 DEF a
  <2>4. CASE j <= slot /\ ~(j + 1 <= slot)
    <3>1. Count(slot, j) = j /\ Count(slot, j + 1) = j
      BY <1>2, <2>4 DEF Count
    <3> QED
      BY <2>1, <3>1 DEF a
  <2>5. CASE ~(j <= slot)
    <3> DEFINE i == j - 1
    <3>0. i \in Nat /\ j = i + 1
      BY <1>2, <2>5
    <3> HIDE DEF i
    <3>1. Count(slot, j) = i /\ Count(slot, j + 1) = i + 1 /\ M * (i + 1) = M * i + M
      BY <1>2, <2>5, <3>0 DEF Count
    <3>2. M * i \in Nat
      BY <1>2, <3>0
    <3> QED
      BY <1>2, <2>1, <2>2, <3>1, <3>2 DEF a
  <2> QED
    BY <2>3, <2>4, <2>5
<1>5. \A i \in Slots : i >= j + 1 => p.blob[i] = r.blob[i]
  BY <1>1, <1>2 DEF CopiesDone
<1>6. ASSUME NEW i \in Slots, i < j + 1, i # slot
      PROVE  BlobAt(g, B, i, p.blob[i]) /\ FileAt(g, p.blob[i]) = FileAt(f, r.blob[i])
  <2>1. CASE i < j
    BY <1>1, <1>6, <2>1 DEF CopiesDone
  <2>2. CASE i = j
    <3>1. p.blob[i] = 0 /\ r.blob[i] = 0
      BY <1>1, <1>2, <1>6, <2>2 DEF CopiesDone
    <3>2. \A a \in B : ~Valid(g, a, i)
      <4>1. ~(i < j)
        BY <1>2, <2>2
      <4> QED
        BY <1>1, <4>1 DEF CopiesDone
    <3> QED
      BY <3>1, <3>2 DEF BlobAt, FileAt
  <2>3. i < j \/ i = j
    BY <1>6, SlotOrder
  <2> QED
    BY <2>1, <2>2, <2>3
<1>7. \A i \in Slots : ~(i < j + 1 /\ i # slot) => \A a \in B : ~Valid(g, a, i)
  <2>1. \A i \in Slots : ~(i < j + 1 /\ i # slot) => ~(i < j /\ i # slot)
    BY SlotOrder
  <2> QED
    BY <1>1, <2>1 DEF CopiesDone
<1>8. CopiesDone(f, r, c, slot, M, j + 1, p, g, B)
  BY <1>1, <1>4, <1>5, <1>6, <1>7 DEF CopiesDone, ns
<1> QED
  BY <1>8 DEF CopyInv

\* The turn of a slot whose blob is copied.
LEMMA CopyStepCopies ==
  ASSUME NEW f \in Flashes, NEW r \in Rams, RamOK(f, r), NEW c, NEW slot \in Slots, NEW M, Fits(M),
         NEW j \in Slots, NEW p, CopyInv(f, r, c, slot, M, j, p), j # slot, r.blob[j] # 0,
         NEW q, q = CopyNext(f, r, slot, j, p)
  PROVE  CopyInv(f, r, c, slot, M, j + 1, q)
<1> DEFINE s == r.cur
           ns == 1 - r.cur
           src == r.blob[j]
           n == blob_len(f[src + 1].len)
           dst == p.addr
           e == dst + n
<1>1. PICK g, B : CopiesDone(f, r, c, slot, M, j, p, g, B)
  BY DEF CopyInv
<1>2. j \in Nat /\ slot \in Nat /\ M \in Nat /\ NumSlots \in Nat /\ \A i \in Slots : i \in Nat /\ i <= NumSlots - 1
  BY Sizes DEF Slots, Fits
<1>3. s \in Sectors /\ ns \in Sectors /\ 1 \in Sectors
  <2>1. s \in Sectors
    BY RamsHave
  <2> QED
    BY <2>1, SectorFacts DEF Sectors
<1>4. q.addr = e /\ q.ops = p.ops \o CopyOf(f, dst, src, n) /\ q.blob = [p.blob EXCEPT ![j] = dst]
  BY DEF CopyNext
<1>5. PICK A : LogAt(f, s, A, r.last) /\ BlobAt(f, A, j, src)
  BY RamHas DEF Blobs
<1>6. /\ Built(f, g, ns) /\ Outside(f, g, DataStart(ns), Limit(ns)) /\ Run(f, p.ops, g, Safe(c))
      /\ LogAt(g, ns, B, dst) /\ Clean(g, ns, dst) /\ dst <= DataStart(ns) + M * Count(slot, j)
      /\ p.blob \in [Slots -> Addresses]
      /\ \A i \in Slots : i >= j => p.blob[i] = r.blob[i]
      /\ \A i \in Slots : i < j /\ i # slot => BlobAt(g, B, i, p.blob[i]) /\ FileAt(g, p.blob[i]) = FileAt(f, r.blob[i])
      /\ \A i \in Slots : ~(i < j /\ i # slot) => \A a \in B : ~Valid(g, a, i)
  BY <1>1 DEF CopiesDone
<1> HIDE DEF s, ns, dst
<1>7. src \in A /\ Valid(f, src, j) /\ f[src].cleared = 1 /\ f[src + 1].len \in Lens
  <2>1. src # 0
    OBVIOUS
  <2> HIDE DEF src
  <2> QED
    BY <1>3, <1>5, <2>1, BlobAtIs
<1>8. n \in Nat /\ n <= M
  <2>1. blob_len(f[src + 1].len) \in Nat
    BY <1>7, LensFacts
  <2> QED
    BY <1>7, <2>1 DEF Fits
<1>9. src \in Nat /\ src + n <= Limit(1) /\ Limit(1) \in Nat
  <2>1. /\ src \in Nat /\ After(f, src) \in Nat /\ After(f, src) <= r.last /\ r.last \in Nat /\ r.last < Limit(s)
    <3> HIDE DEF src
    <3> QED
      BY <1>3, <1>5, <1>7, LogOrder
  <2>2. Limit(s) \in Nat /\ Limit(s) <= Limit(1) /\ Limit(1) \in Nat
    BY <1>3, SectorFacts
  <2>3. After(f, src) = src + n
    BY DEF After
  <2> HIDE DEF src, n
  <2> QED
    BY <2>1, <2>2, <2>3
<1> HIDE DEF src, n
<1>10. dst \in Nat /\ DataStart(ns) <= dst /\ DataStart(ns) \in Nat /\ Limit(ns) \in Nat
  BY <1>3, <1>6, LogOrder, SectorNums
<1>11. Count(slot, j) \in Nat /\ Count(slot, j) + 1 <= NumSlots /\ Count(slot, j + 1) = Count(slot, j) + 1
  <2>1. j <= NumSlots - 1 /\ slot <= NumSlots - 1
    BY <1>2
  <2>2. j < slot \/ j > slot
    BY <1>2
  <2> QED
    BY <1>2, <2>1, <2>2 DEF Count
<1>12. e <= DataStart(ns) + M * Count(slot, j + 1) /\ e < Limit(ns)
  <2> DEFINE t == Count(slot, j)
  <2>1. t \in Nat /\ t + 1 <= NumSlots /\ Count(slot, j + 1) = t + 1 /\ dst <= DataStart(ns) + M * t
    BY <1>6, <1>11
  <2> HIDE DEF t
  <2>2. e <= DataStart(ns) + M * (t + 1) /\ e < Limit(ns)
    BY <1>3, <1>8, <1>10, <2>1, RoomFor
  <2> QED
    BY <2>1, <2>2
<1>13. e \in Nat /\ e <= Limit(ns)
  BY <1>8, <1>10, <1>12
<1>14. PICK h \in Flashes : /\ Run(g, CopyOf(f, dst, src, n), h, Safe(c))
                            /\ Built(f, h, ns) /\ CopiedTo(f, g, h, dst, src, n)
  BY <1>6, <1>8, <1>9, <1>10, <1>13, CopyRun DEF ns
<1>15. CopyJoins(f, g, h, ns, B, dst, src, e, j)
  <2>1. g \in Flashes /\ n = blob_len(f[src + 1].len)
    BY <1>6 DEF Built, n
  <2> HIDE DEF e
  <2>2. e = dst + n
    BY DEF e
  <2> QED
    BY <1>3, <1>5, <1>6, <1>7, <1>12, <1>14, <2>1, <2>2, CopiedLog
<1>16. Run(f, q.ops, h, Safe(c))
  BY <1>4, <1>6, <1>14, RunCat
<1>17. Outside(f, h, DataStart(ns), Limit(ns))
  <2>1. Outside(g, h, dst, e)
    BY <1>14 DEF CopiedTo
  <2> HIDE DEF e
  <2> QED
    BY <1>6, <1>10, <1>13, <2>1, OutsideTrans
<1> HIDE DEF e
<1>18. q.blob \in [Slots -> Addresses]
  <2>1. dst \in Addresses
    BY <1>3, <1>6, LogOrder
  <2> QED
    BY <1>4, <1>6, <2>1
<1>19. \A i \in Slots : i >= j + 1 => q.blob[i] = r.blob[i]
  BY <1>2, <1>4, <1>6
<1>20. ASSUME NEW i \in Slots, i < j + 1, i # slot
       PROVE  BlobAt(h, B \cup {dst}, i, q.blob[i]) /\ FileAt(h, q.blob[i]) = FileAt(f, r.blob[i])
  <2>0. i < j \/ i = j
    BY <1>20, SlotOrder
  <2>1. CASE i = j
    <3>1. q.blob[i] = dst
      BY <1>4, <1>6, <2>1
    <3>2. \A a \in B : ~Valid(g, a, i)
      <4>1. ~(i < j)
        BY <1>2, <2>1
      <4> QED
        BY <1>6, <4>1
    <3>3. \A a \in B : ~Valid(h, a, i)
      BY <1>15, <3>2 DEF CopyJoins
    <3>4. BlobAt(h, B, i, 0)
      BY <3>3 DEF BlobAt
    <3>5. BlobAt(h, B \cup {dst}, i, dst)
      BY <1>3, <1>15, <2>1, <3>4, BlobsAdd DEF CopyJoins
    <3>6. FileAt(h, dst) = FileAt(f, r.blob[i])
      BY <1>15, <2>1 DEF CopyJoins, src
    <3> QED
      BY <3>1, <3>5, <3>6
  <2>2. CASE i < j
    <3>1. i # j
      BY <1>2, <2>2
    <3>2. q.blob[i] = p.blob[i]
      BY <1>4, <1>6, <3>1
    <3> DEFINE b == p.blob[i]
    <3>3. BlobAt(g, B, i, b) /\ FileAt(g, b) = FileAt(f, r.blob[i])
      BY <1>6, <1>20, <2>2
    <3> HIDE DEF b
    <3>4. BlobAt(h, B, i, b) /\ ~Valid(h, dst, i)
      BY <1>15, <3>1, <3>3 DEF CopyJoins, BlobsStay
    <3>5. BlobAt(h, B \cup {dst}, i, b)
      BY <1>3, <1>15, <3>4, BlobsAdd DEF CopyJoins
    <3>6. FileAt(h, b) = FileAt(g, b)
      <4>1. b = 0 \/ b \in B
        BY <1>3, <1>6, <3>3, BlobAtIs
      <4>2. CASE b = 0
        BY <4>2 DEF FileAt
      <4>3. CASE b \in B
        BY <1>15, <4>3 DEF CopyJoins, FilesStay
      <4> QED
        BY <4>1, <4>2, <4>3
    <3> QED
      BY <3>2, <3>3, <3>5, <3>6 DEF b
  <2> QED
    BY <2>0, <2>1, <2>2
<1>21. ASSUME NEW i \in Slots, ~(i < j + 1 /\ i # slot), NEW a \in B \cup {dst} PROVE ~Valid(h, a, i)
  <2>1. ~(i < j /\ i # slot) /\ i # j
    BY <1>2, <1>21, SlotOrder
  <2>2. CASE a \in B
    <3>1. ~Valid(g, a, i)
      BY <1>6, <2>1, <2>2
    <3> QED
      BY <1>15, <2>2, <3>1 DEF CopyJoins
  <2>3. CASE a = dst
    BY <1>15, <2>1, <2>3 DEF CopyJoins
  <2> QED
    BY <1>21, <2>2, <2>3
<1>22. LogAt(h, ns, B \cup {dst}, q.addr) /\ Clean(h, ns, q.addr) /\ q.addr <= DataStart(ns) + M * Count(slot, j + 1)
  BY <1>4, <1>12, <1>15 DEF CopyJoins
<1>23. CopiesDone(f, r, c, slot, M, j + 1, q, h, B \cup {dst})
  BY <1>14, <1>16, <1>17, <1>18, <1>19, <1>20, <1>21, <1>22 DEF CopiesDone, ns
<1> QED
  BY <1>23 DEF CopyInv

\* One turn of the loop keeps CopyInv.
LEMMA CopyStep ==
  ASSUME NEW f \in Flashes, NEW r \in Rams, RamOK(f, r), NEW c, NEW slot \in Slots, NEW M, Fits(M),
         NEW j \in Slots, NEW p, CopyInv(f, r, c, slot, M, j, p)
  PROVE  CopyInv(f, r, c, slot, M, j + 1, CopyNext(f, r, slot, j, p))
<1>1. CASE j = slot \/ r.blob[j] = 0
  <2>1. CopyNext(f, r, slot, j, p) = p
    BY <1>1 DEF CopyNext
  <2> QED
    BY <1>1, <2>1, CopyStepSkips
<1>2. CASE ~(j = slot \/ r.blob[j] = 0)
  BY <1>2, CopyStepCopies
<1> QED
  BY <1>1, <1>2

CopyFirst(r) == [addr |-> DataStart(1 - r.cur), ops |-> <<>>, blob |-> r.blob]

\* CopyInv holds before the loop.
LEMMA CopyStart ==
  ASSUME NEW f \in Flashes, NEW r \in Rams, RamOK(f, r), NEW c, NEW slot \in Slots, NEW M, Fits(M)
  PROVE  CopyInv(f, r, c, slot, M, 0, CopyFirst(r))
<1> DEFINE ns == 1 - r.cur
           p == CopyFirst(r)
<1>1. r.cur \in Sectors /\ ns \in Sectors /\ r.blob \in [Slots -> Addresses] /\ Erased(f, ns)
  <2>1. r.cur \in Sectors
    BY RamsHave
  <2> QED
    BY <2>1, RamHas, SectorFacts
<1>2. p.addr = DataStart(ns) /\ p.ops = <<>> /\ p.blob = r.blob
  BY DEF CopyFirst
<1> HIDE DEF ns, p
<1>3. Built(f, f, ns) /\ Outside(f, f, DataStart(ns), Limit(ns))
  <2>1. Base(ns) + 1 \in SectorWords(ns)
    BY <1>1, HeaderWords
  <2> QED
    BY <1>1, <2>1 DEF Built, Outside, Erased
<1>4. /\ DataStart(ns) \in Nat /\ DataStart(ns) \in Aligned /\ DataStart(ns) < Limit(ns) /\ Limit(ns) \in Nat
      /\ Base(ns) \in Nat /\ DataStart(ns) = Base(ns) + 4
      /\ \A x : x \in SectorWords(ns) <=> x \in Nat /\ Base(ns) <= x /\ x < Limit(ns)
  BY <1>1, SectorNums, HeaderWords
<1>5. LogAt(f, ns, {}, DataStart(ns))
  BY <1>4 DEF LogAt
<1>6. Clean(f, ns, DataStart(ns))
  <2> SUFFICES ASSUME NEW x \in DataStart(ns) .. Limit(ns) - 1 PROVE f[x] = E
    BY DEF Clean
  <2>1. x \in SectorWords(ns)
    BY <1>4
  <2> QED
    BY <1>1, <2>1 DEF Erased
<1>7. Count(slot, 0) = 0 /\ M \in Nat /\ M * 0 = 0 /\ \A i \in Slots : i \in Nat
  <2>1. slot \in Nat /\ M \in Nat /\ \A i \in Slots : i \in Nat
    BY Sizes DEF Slots, Fits
  <2> QED
    BY <2>1 DEF Count
<1>8. DataStart(ns) <= DataStart(ns) + M * Count(slot, 0)
  BY <1>4, <1>7
<1>9. Run(f, p.ops, f, Safe(c))
  BY <1>2, RunNil
<1>10. \A i \in Slots : ~(i < 0)
  BY <1>7
<1>11. CopiesDone(f, r, c, slot, M, 0, p, f, {})
  BY <1>1, <1>2, <1>3, <1>5, <1>6, <1>8, <1>9, <1>10 DEF CopiesDone, ns
<1> QED
  BY <1>11 DEF CopyInv, p

\* The recursive function of Copies, up to m.
CopyRec(f, r, slot, m, u) ==
  u[0] = CopyFirst(r) /\ \A j \in Nat : j < m => u[j + 1] = CopyNext(f, r, slot, j, u[j])

\* There is such a function, by induction on m.
LEMMA CopyRecExists ==
  ASSUME NEW f, NEW r, NEW slot, NEW n \in Nat
  PROVE  \E u : CopyRec(f, r, slot, n, u)
<1> DEFINE T == {m \in Nat : ~\E u : CopyRec(f, r, slot, m, u)}
<1>1. SUFFICES ASSUME T # {} PROVE FALSE
  OBVIOUS
<1>2. PICK m \in T : \A y \in T : m <= y
  BY <1>1, NatMin
<1>3. CASE m = 0
  <2> DEFINE u == [i \in {0} |-> CopyFirst(r)]
  <2>1. u[0] = CopyFirst(r)
    OBVIOUS
  <2> HIDE DEF u
  <2>2. CopyRec(f, r, slot, m, u)
    BY <1>3, <2>1 DEF CopyRec
  <2> QED
    BY <2>2
<1>4. CASE m # 0
  <2> DEFINE i == m - 1
  <2>1. m \in Nat /\ i \in Nat /\ i + 1 = m /\ ~(m <= i)
    BY <1>4
  <2>2. i \notin T
    BY <1>2, <2>1
  <2>3. PICK u : CopyRec(f, r, slot, i, u)
    BY <2>1, <2>2
  <2> DEFINE v == [k \in Nat |-> IF k <= i THEN u[k] ELSE CopyNext(f, r, slot, i, u[i])]
  <2> HIDE DEF i
  <2>4. v[0] = u[0] /\ v[i] = u[i] /\ v[i + 1] = CopyNext(f, r, slot, i, u[i])
    BY <2>1
  <2>5. ASSUME NEW j \in Nat, j < m PROVE v[j + 1] = CopyNext(f, r, slot, j, v[j])
    <3>1. CASE j = i
      BY <2>4, <3>1
    <3>2. CASE j # i
      <4>1. j < i /\ j + 1 <= i /\ j <= i
        BY <2>1, <2>5, <3>2
      <4>2. v[j] = u[j] /\ v[j + 1] = u[j + 1]
        BY <4>1
      <4> QED
        BY <2>3, <4>1, <4>2 DEF CopyRec
    <3> QED
      BY <3>1, <3>2
  <2> HIDE DEF v
  <2>6. CopyRec(f, r, slot, m, v)
    BY <2>3, <2>4, <2>5 DEF CopyRec
  <2> QED
    BY <2>6
<1> QED
  BY <1>3, <1>4

\* Copies is the last value of that function.
LEMMA CopiesIs ==
  ASSUME NEW slot
  PROVE  \E u : CopyRec(flash, ram, slot, NumSlots, u) /\ Copies(slot) = u[NumSlots]
<1> DEFINE Is(upTo) ==
      upTo = [k \in 0 .. NumSlots |->
        IF k = 0
        THEN [addr |-> DataStart(1 - ram.cur), ops |-> <<>>, blob |-> ram.blob]
        ELSE LET p == upTo[k - 1]
                 src == ram.blob[k - 1]
                 n == blob_len(flash[src + 1].len)
             IN IF k - 1 = slot \/ src = 0 THEN p
                ELSE [addr |-> p.addr + n,
                      ops  |-> p.ops \o CopyOps(p.addr, src, n),
                      blob |-> CopiedBlob(p.blob, k - 1, p.addr)]]
           upTo == CHOOSE g : Is(g)
<1>0. NumSlots \in Nat
  BY Sizes
<1>1. \A j, p : CopyNext(flash, ram, slot, j, p) =
        LET src == ram.blob[j]
            n == blob_len(flash[src + 1].len)
        IN IF j = slot \/ src = 0 THEN p
           ELSE [addr |-> p.addr + n,
                 ops  |-> p.ops \o CopyOps(p.addr, src, n),
                 blob |-> CopiedBlob(p.blob, j, p.addr)]
  BY DEF CopyNext, CopyOf, CopyOps, CopiedBlob
<1>2. \A g : Is(g) <=> g = [k \in 0 .. NumSlots |-> IF k = 0 THEN CopyFirst(ram)
                                                    ELSE CopyNext(flash, ram, slot, k - 1, g[k - 1])]
  <2> SUFFICES ASSUME NEW g
               PROVE  Is(g) <=> g = [k \in 0 .. NumSlots |->
                                       IF k = 0 THEN CopyFirst(ram)
                                       ELSE CopyNext(flash, ram, slot, k - 1, g[k - 1])]
    OBVIOUS
  <2> DEFINE N(k) ==
        LET p == g[k - 1]
            src == ram.blob[k - 1]
            n == blob_len(flash[src + 1].len)
        IN IF k - 1 = slot \/ src = 0 THEN p
           ELSE [addr |-> p.addr + n,
                 ops  |-> p.ops \o CopyOps(p.addr, src, n),
                 blob |-> CopiedBlob(p.blob, k - 1, p.addr)]
  <2>1. \A k : CopyNext(flash, ram, slot, k - 1, g[k - 1]) = N(k)
    BY <1>1
  <2>2. Is(g) <=> g = [k \in 0 .. NumSlots |->
          IF k = 0 THEN [addr |-> DataStart(1 - ram.cur), ops |-> <<>>, blob |-> ram.blob] ELSE N(k)]
    OBVIOUS
  <2> HIDE DEF N, Is
  <2> QED
    BY Zenon, <2>1, <2>2 DEF CopyFirst
<1>3. PICK u : CopyRec(flash, ram, slot, NumSlots, u)
  BY <1>0, CopyRecExists
<1> DEFINE w == [k \in 0 .. NumSlots |-> u[k]]
<1>4. w = [k \in 0 .. NumSlots |-> IF k = 0 THEN CopyFirst(ram)
                                   ELSE CopyNext(flash, ram, slot, k - 1, w[k - 1])]
  <2> SUFFICES ASSUME NEW k \in 0 .. NumSlots
               PROVE  u[k] = IF k = 0 THEN CopyFirst(ram) ELSE CopyNext(flash, ram, slot, k - 1, w[k - 1])
    OBVIOUS
  <2>1. CASE k = 0
    BY <1>3, <2>1 DEF CopyRec
  <2>2. CASE k # 0
    <3> DEFINE j == k - 1
    <3>1. j \in Nat /\ j < NumSlots /\ j + 1 = k /\ j \in 0 .. NumSlots
      BY <1>0, <2>2
    <3>2. w[j] = u[j]
      BY <3>1
    <3> HIDE DEF j
    <3>3. u[j + 1] = CopyNext(flash, ram, slot, j, u[j])
      BY <1>3, <3>1 DEF CopyRec
    <3> QED
      BY <2>2, <3>1, <3>2, <3>3 DEF j
  <2> QED
    BY <2>1, <2>2
<1>5. Is(w)
  BY <1>2, <1>4
<1>6. Is(upTo)
  BY <1>5
<1>7. Copies(slot) = upTo[NumSlots]
  BY DEF Copies
<1>8. upTo = [k \in 0 .. NumSlots |-> IF k = 0 THEN CopyFirst(ram)
                                      ELSE CopyNext(flash, ram, slot, k - 1, upTo[k - 1])]
  BY <1>2, <1>6
<1> HIDE DEF upTo, Is
<1>9. ASSUME NEW k \in 0 .. NumSlots
      PROVE  upTo[k] = IF k = 0 THEN CopyFirst(ram) ELSE CopyNext(flash, ram, slot, k - 1, upTo[k - 1])
  BY <1>8
<1>10. upTo[0] = CopyFirst(ram)
  BY <1>0, <1>9
<1>11. ASSUME NEW j \in Nat, j < NumSlots PROVE upTo[j + 1] = CopyNext(flash, ram, slot, j, upTo[j])
  <2>1. j + 1 \in 0 .. NumSlots /\ j + 1 # 0 /\ j + 1 - 1 = j
    BY <1>0, <1>11
  <2> QED
    BY <1>9, <2>1
<1>12. CopyRec(flash, ram, slot, NumSlots, upTo)
  BY <1>10, <1>11 DEF CopyRec
<1> QED
  BY <1>7, <1>12

\* After the loop every other slot has its file in the new sector.
LEMMA CopiesRun ==
  ASSUME flash \in Flashes, ram \in Rams, RamOK(flash, ram), NEW c, NEW slot \in Slots, NEW M, Fits(M)
  PROVE  CopyInv(flash, ram, c, slot, M, NumSlots, Copies(slot))
<1>1. PICK u : CopyRec(flash, ram, slot, NumSlots, u) /\ Copies(slot) = u[NumSlots]
  BY CopiesIs
<1> DEFINE P(k) == CopyInv(flash, ram, c, slot, M, k, u[k])
           T == {k \in Nat : k <= NumSlots /\ ~P(k)}
<1>2. NumSlots \in Nat /\ \A j \in Nat : j < NumSlots => j \in Slots
  BY Sizes DEF Slots
<1>3. P(0)
  BY <1>1, CopyStart DEF CopyRec
<1>4. ASSUME NEW j \in Nat, j < NumSlots, P(j) PROVE P(j + 1)
  <2>1. j \in Slots /\ u[j + 1] = CopyNext(flash, ram, slot, j, u[j])
    BY <1>1, <1>2, <1>4 DEF CopyRec
  <2> QED
    BY <1>4, <2>1, CopyStep
<1> HIDE DEF P
<1>5. ASSUME T # {} PROVE FALSE
  <2>1. PICK m \in T : \A y \in T : m <= y
    BY <1>5, NatMin
  <2> DEFINE i == m - 1
  <2>2. m \in Nat /\ m # 0 /\ m <= NumSlots /\ ~P(m)
    BY <1>3
  <2>3. i \in Nat /\ i < NumSlots /\ i + 1 = m /\ ~(m <= i) /\ i <= NumSlots
    BY <1>2, <2>2
  <2> HIDE DEF i
  <2>4. P(i)
    BY <2>1, <2>3
  <2> QED
    BY <1>4, <2>2, <2>3, <2>4
<1>6. P(NumSlots)
  BY <1>2, <1>5
<1> QED
  BY <1>1, <1>6 DEF P

-----------------------------------------------------------------------------
(* sector_cross *)

\* The new sector has the log of all the slots up to e, but no magic number.
Crossed(f, g, r, slot, v, len, A, e, blob) ==
  /\ Built(f, g, 1 - r.cur) /\ g[Base(1 - r.cur)] = E
  /\ LogAt(g, 1 - r.cur, A, e) /\ Clean(g, 1 - r.cur, e)
  /\ blob \in [Slots -> Addresses] /\ Blobs(g, A, blob)
  /\ \A k \in Slots : k # slot => FileAt(g, blob[k]) = FileAt(f, r.blob[k])
  /\ len % 2 = 0 => FileAt(g, blob[slot]) = FileOf(v, len)

\* The same with the magic number.
LEMMA CrossedLog ==
  ASSUME NEW f \in Flashes, NEW r \in Rams, RamOK(f, r), NEW slot \in Slots, NEW v \in Values, NEW len \in Lens,
         NEW A, NEW e, NEW blob, NEW g2, Crossed(f, g2, r, slot, v, len, A, e, blob),
         NEW q, q = [cur |-> 1 - r.cur, last |-> e, blob |-> blob],
         NEW g \in Flashes, ProbedSector(g) = 1 - r.cur,
         \A x \in SectorWords(1 - r.cur) : x >= Base(1 - r.cur) + 2 => g[x] = g2[x]
  PROVE  /\ q \in Rams /\ LogIsIn(g, q) /\ Sound(g)
         /\ len % 2 = 0 => /\ Kept(g) = Effect(SaveOf(slot, v, len), Kept(f))
                           /\ Kept(g) = Effect(SaveOf(slot, v, len), Kept(g))
<1> DEFINE ns == 1 - r.cur
<1>1. ns \in Sectors
  BY RamsHave, SectorFacts
<1>2. /\ LogAt(g2, ns, A, e) /\ Clean(g2, ns, e) /\ blob \in [Slots -> Addresses] /\ Blobs(g2, A, blob)
      /\ \A k \in Slots : k # slot => FileAt(g2, blob[k]) = FileAt(f, r.blob[k])
      /\ len % 2 = 0 => FileAt(g2, blob[slot]) = FileOf(v, len)
  BY DEF Crossed
<1>3. q.cur = ns /\ q.last = e /\ q.blob = blob
  OBVIOUS
<1>4. \A x \in SectorWords(ns) : x >= Base(ns) + 2 => g[x] = g2[x]
  OBVIOUS
<1>5. ProbedSector(g) = ns /\ q = [cur |-> ns, last |-> e, blob |-> blob]
  OBVIOUS
<1> HIDE DEF ns
<1>6. /\ Base(ns) \in Nat /\ Limit(ns) \in Nat /\ DataStart(ns) = Base(ns) + 4
      /\ \A x : x \in SectorWords(ns) <=> x \in Nat /\ Base(ns) <= x /\ x < Limit(ns)
  BY <1>1, HeaderWords
<1>7. e \in Nat /\ DataStart(ns) <= e /\ e < Limit(ns)
  BY <1>1, <1>2, LogOrder
<1>8. \A x \in Nat : DataStart(ns) <= x /\ x < Limit(ns) => g[x] = g2[x]
  <2> SUFFICES ASSUME NEW x \in Nat, DataStart(ns) <= x, x < Limit(ns) PROVE g[x] = g2[x]
    OBVIOUS
  <2>1. Base(ns) <= x /\ x >= Base(ns) + 2
    BY <1>6
  <2> QED
    BY <1>4, <1>6, <2>1
<1>9. Agree(g2, g, DataStart(ns), e)
  <2> SUFFICES ASSUME NEW x \in Nat, DataStart(ns) <= x, x < e PROVE g2[x] = g[x]
    BY DEF Agree
  <2>1. x < Limit(ns)
    BY <1>6, <1>7
  <2> QED
    BY <1>8, <2>1
<1>10. Clean(g, ns, e)
  <2> SUFFICES ASSUME NEW x \in e .. Limit(ns) - 1 PROVE g[x] = E
    BY DEF Clean
  <2>1. x \in Nat /\ DataStart(ns) <= x /\ x < Limit(ns)
    BY <1>6, <1>7
  <2> QED
    BY <1>2, <1>8, <2>1 DEF Clean
<1>11. LogAt(g, ns, A, e) /\ BlobsStay(g2, g, A) /\ FilesStay(g2, g, A)
  BY <1>1, <1>2, <1>9, LogStays
<1>12. Blobs(g, A, blob)
  BY <1>2, <1>11 DEF Blobs, BlobsStay
<1>13. LogIsIn(g, q)
  BY <1>3, <1>10, <1>11, <1>12 DEF LogIsIn
<1>14. q \in Rams
  <2>1. blob = [k \in Slots |-> blob[k]]
    BY <1>2
  <2> QED
    BY <1>1, <1>5, <1>11, <1>12, <2>1, LogRam
<1>15. \A k \in Slots : FileAt(g, blob[k]) = FileAt(g2, blob[k])
  BY <1>1, <1>2, <1>11, SameFiles
<1> DEFINE F(k) == FileAt(f, r.blob[k])
           G(k) == FileAt(g, blob[k])
           c == SaveOf(slot, v, len)
<1>16. Sound(g) /\ Kept(g) = [k \in Slots |-> G(k)]
  BY <1>3, <1>5, <1>13, <1>14, FlashTyped, LogGivesFiles
<1>17. Kept(f) = [k \in Slots |-> F(k)]
  BY FlashTyped, RamIsSound
<1>18. len % 2 = 0 => G(slot) = FileOf(v, len) /\ \A k \in Slots : k # slot => G(k) = F(k)
  BY <1>2, <1>15
<1>19. c.kind = "save" /\ c.slot = slot /\ c.file = FileOf(v, len)
  BY DEF SaveOf
<1> HIDE DEF F, G, c
<1>20. len % 2 = 0 => /\ [k \in Slots |-> G(k)] = Effect(c, [k \in Slots |-> F(k)])
                      /\ [k \in Slots |-> G(k)] = Effect(c, [k \in Slots |-> G(k)])
  BY <1>18, <1>19 DEF Effect
<1> QED
  BY <1>13, <1>14, <1>16, <1>17, <1>20 DEF c

\* The operations once all the blobs are in the new sector.
CrossEnd(r) == <<Prog(Base(1 - r.cur), Magic(1)), Prog(Base(1 - r.cur) + 1, Magic(2)), Erase(r.cur)>>

\* The magic number and the erase: whichever sector is probed in between, its
\* files are those before or after the save.
LEMMA CrossEndRun ==
  ASSUME NEW f \in Flashes, NEW r \in Rams, RamOK(f, r), NEW slot \in Slots, NEW v \in Values, NEW len \in Lens,
         NEW A, NEW e, NEW blob, NEW g2, Crossed(f, g2, r, slot, v, len, A, e, blob),
         NEW q, q = [cur |-> 1 - r.cur, last |-> e, blob |-> blob],
         NEW c, c = SaveOf(slot, v, len)
  PROVE  \E g \in Flashes : Run(g2, CrossEnd(r), g, Safe(c)) /\ Ends(g, c, q) /\ q \in Rams
<1> DEFINE s == r.cur
           ns == 1 - r.cur
           b == Base(ns)
           g3 == Put(g2, b, Magic(1))
           g4 == Put(g3, b + 1, Magic(2))
           g5 == Wiped(g4, s)
<1>0. Built(f, g2, ns) /\ g2[b] = E
  BY DEF Crossed
<1>1. s \in Sectors /\ ns \in Sectors /\ 1 - ns = s /\ ns = 1 - s /\ (s = 0 \/ ns = 0)
  <2>1. s \in Sectors /\ ns = 1 - s
    BY RamsHave
  <2> HIDE DEF s, ns
  <2> QED
    BY <2>1 DEF Sectors
<1>2. ProbedSector(f) = s /\ Erased(f, ns) /\ Sound(f) /\ HasMagic(f, s)
  <2>1. ProbedSector(f) = s /\ Erased(f, ns)
    BY RamHas
  <2>2. Sound(f)
    BY FlashTyped, RamIsSound
  <2> HIDE DEF s, ns
  <2> QED
    BY <1>1, <2>1, <2>2, ProbeFacts
<1>3. q.cur = ns /\ q.last = e /\ q.blob = blob
  OBVIOUS
<1> HIDE DEF s, ns
<1>4. /\ b \in Nat /\ b \in SectorWords(ns) /\ b + 1 \in SectorWords(ns) /\ b + 2 \in SectorWords(ns)
      /\ \A x : x \in SectorWords(ns) <=> x \in Nat /\ b <= x /\ x < Limit(ns)
      /\ \A x \in SectorWords(ns) : x \in Addresses /\ x \in Nat
      /\ \A x \in SectorWords(s) : x \in Addresses /\ x \notin SectorWords(ns)
      /\ Limit(ns) \in Nat
  BY <1>1, HeaderWords
<1>5. Base(s) \in SectorWords(s) /\ Base(s) + 1 \in SectorWords(s)
  BY <1>1, HeaderWords
<1>6. Magic(1) \in FlashWord /\ Magic(2) \in FlashWord
  BY WordTypes
<1>7. b \in Addresses /\ b + 1 \in Addresses /\ b # b + 1
  BY <1>4
<1>8. g2 \in Flashes /\ g2[b + 1] = E
  BY <1>0 DEF Built
<1>9. g3 \in Flashes /\ g3[b] = Magic(1) /\ \A x \in Addresses : x # b => g3[x] = g2[x]
  BY <1>6, <1>7, <1>8, PutIs
<1> HIDE DEF g3
<1>10. g4 \in Flashes /\ g4[b + 1] = Magic(2) /\ \A x \in Addresses : x # b + 1 => g4[x] = g3[x]
  BY <1>6, <1>7, <1>9, PutIs
<1> HIDE DEF g4
<1>11. g5 \in Flashes /\ Erased(g5, s) /\ \A x \in SectorWords(ns) : g5[x] = g4[x]
  BY <1>1, <1>10, WipedIs
<1> HIDE DEF g5
<1>12. \A x \in SectorWords(s) : g2[x] = f[x]
  <2> SUFFICES ASSUME NEW x \in SectorWords(s) PROVE g2[x] = f[x]
    OBVIOUS
  <2>1. x \in Addresses /\ x \in Nat /\ x \notin SectorWords(ns)
    BY <1>1, <1>4, HeaderWords
  <2>2. ~(b <= x /\ x < Limit(ns))
    BY <1>4, <2>1
  <2> QED
    BY <1>0, <2>1, <2>2 DEF Built, Outside
<1>13. \A x \in SectorWords(s) : g3[x] = f[x] /\ g4[x] = f[x]
  <2>1. \A x \in SectorWords(s) : x \in Addresses /\ x # b /\ x # b + 1
    BY <1>4
  <2> QED
    BY <1>9, <1>10, <1>12, <2>1
<1>14. Built(f, g3, ns)
  <2>1. g3[b + 1] = E
    BY <1>7, <1>8, <1>9
  <2>2. ASSUME NEW x \in Addresses, ~(b <= x /\ x < Limit(ns)) PROVE g3[x] = f[x]
    <3>1. b < Limit(ns) /\ b <= b
      BY <1>4
    <3>2. x # b
      BY <2>2, <3>1
    <3> QED
      BY <1>0, <1>9, <2>2, <3>2 DEF Built, Outside
  <2> QED
    BY <1>9, <2>1, <2>2 DEF Built, Outside
<1>15. HasMagic(g4, ns) /\ HasMagic(g5, ns)
  <2>1. g4[b] = Magic(1)
    BY <1>7, <1>9, <1>10
  <2> QED
    BY <1>4, <1>10, <1>11, <2>1 DEF HasMagic
<1>16. \A x \in SectorWords(ns) : x >= b + 2 => g4[x] = g2[x] /\ g5[x] = g2[x]
  <2> SUFFICES ASSUME NEW x \in SectorWords(ns), x >= b + 2 PROVE g4[x] = g2[x] /\ g5[x] = g2[x]
    OBVIOUS
  <2>1. x \in Addresses /\ x # b /\ x # b + 1
    BY <1>4
  <2> QED
    BY <1>9, <1>10, <1>11, <2>1
<1>17. ProbedSector(g5) = ns
  BY <1>1, <1>11, <1>15, ErasedHasNoMagic, ProbeFacts
<1>18. ASSUME NEW g \in {g4, g5}, ProbedSector(g) = ns
       PROVE  /\ q \in Rams /\ LogIsIn(g, q) /\ Sound(g)
              /\ len % 2 = 0 => Kept(g) = Effect(c, Kept(f)) /\ Kept(g) = Effect(c, Kept(g))
  <2>1. g \in Flashes /\ \A x \in SectorWords(ns) : x >= b + 2 => g[x] = g2[x]
    BY <1>10, <1>11, <1>16
  <2> QED
    BY <1>18, <2>1, CrossedLog DEF ns
<1>19. RamOK(g5, q)
  <2>1. LogIsIn(g5, q)
    BY <1>17, <1>18
  <2> QED
    BY <1>1, <1>3, <1>11, <1>17, <2>1 DEF RamOK
<1>20. Sound(g4) /\ (len % 2 = 0 => Kept(g4) = Kept(f) \/ Kept(g4) = Effect(c, Kept(f)))
  <2>1. CASE ns = 0
    <3>1. ProbedSector(g4) = ns
      BY <1>15, <2>1, ProbeFacts
    <3> QED
      BY <1>18, <3>1
  <2>2. CASE s = 0
    <3>1. HasMagic(g4, s)
      BY <1>2, <1>5, <1>13 DEF HasMagic
    <3>2. ProbedSector(g4) = s
      BY <2>2, <3>1, ProbeFacts
    <3> QED
      BY <1>1, <1>2, <1>10, <1>13, <3>2, SoundStays
  <2> QED
    BY <1>1, <2>1, <2>2
<1>21. EvenLens => len % 2 = 0
  BY DEF EvenLens
<1>22. Kept(g3) = Kept(f)
  BY <1>14, BuildSafe DEF ns
<1>23. <<g2, g3>> \in Safe(c)
  BY <1>0, <1>14, BuildStep DEF ns
<1>24. <<g3, g4>> \in Safe(c)
  BY <1>9, <1>10, <1>20, <1>21, <1>22, SafeIs
<1>25. <<g4, g5>> \in Safe(c)
  <2>1. Sound(g5) /\ (len % 2 = 0 => Kept(g5) = Effect(c, Kept(f)))
    BY <1>17, <1>18
  <2>2. EvenLens => Kept(g5) = Kept(g4) \/ Kept(g5) = Effect(c, Kept(g4))
    BY <1>20, <1>21, <2>1
  <2> QED
    BY <1>10, <1>11, <2>1, <2>2, SafeIs
<1>26. Ends(g5, c, q) /\ q \in Rams
  <2>1. c.kind = "save"
    BY DEF SaveOf
  <2>2. q \in Rams /\ (len % 2 = 0 => Kept(g5) = Effect(c, Kept(g5)))
    BY <1>17, <1>18
  <2> QED
    BY <1>19, <1>21, <2>1, <2>2 DEF Ends
<1> DEFINE o3 == Prog(b, Magic(1))
           o4 == Prog(b + 1, Magic(2))
           o5 == Erase(s)
<1>27. o3 \in Op /\ o4 \in Op /\ o5 \in Op
  BY <1>1, <1>6, <1>7, OpTypes
<1>28. Step(g2, o3, g3) /\ Step(g3, o4, g4) /\ Step(g4, o5, g5)
  <2>1. Takes(g2[b], Magic(1)) /\ Takes(g3[b + 1], Magic(2))
    BY <1>0, <1>14 DEF Takes, Built
  <2> QED
    BY <1>1, <1>6, <1>7, <2>1 DEF Step, g3, g4, g5
<1>29. CrossEnd(r) = <<o3, o4, o5>>
  BY DEF CrossEnd, s, ns
<1> HIDE DEF o3, o4, o5
<1>30. Run(g2, <<o3, o4, o5>>, g5, Safe(c))
  <2>1. /\ <<o3, o4, o5>> \in Seq(Op) /\ <<o3, o4, o5>> # <<>>
        /\ Head(<<o3, o4, o5>>) = o3 /\ Tail(<<o3, o4, o5>>) = <<o4, o5>>
    BY <1>27
  <2>2. /\ <<o4, o5>> \in Seq(Op) /\ <<o4, o5>> # <<>>
        /\ Head(<<o4, o5>>) = o4 /\ Tail(<<o4, o5>>) = <<o5>>
    BY <1>27
  <2>3. Run(g4, <<o5>>, g5, Safe(c))
    BY <1>25, <1>27, <1>28, RunOne
  <2>4. Run(g3, <<o4, o5>>, g5, Safe(c))
    BY <1>24, <1>28, <2>2, <2>3, RunCons
  <2> QED
    BY <1>23, <1>28, <2>1, <2>4, RunCons
<1> QED
  BY <1>11, <1>26, <1>29, <1>30

\* The operations that put the blobs of the new sector in place.
LEMMA CrossBuildRun ==
  ASSUME NEW f \in Flashes, NEW r \in Rams, RamOK(f, r), NEW slot \in Slots, NEW v \in Values, NEW len \in Lens,
         NEW c, NEW M, Fits(M), NEW p, CopyInv(f, r, c, slot, M, NumSlots, p)
  PROVE  \E g2, A : /\ Run(f, p.ops \o <<Prog(Base(1 - r.cur) + 2, SlotsWord)>>
                                    \o BlobOps(p.addr, slot, v, len), g2, Safe(c))
                    /\ Crossed(f, g2, r, slot, v, len, A, p.addr + blob_len(len), [p.blob EXCEPT ![slot] = p.addr])
<1> DEFINE ns == 1 - r.cur
           b == Base(ns)
           a == p.addr
           n == len \div 2
           e == a + blob_len(len)
<1>1. PICK g0, B : CopiesDone(f, r, c, slot, M, NumSlots, p, g0, B)
  BY DEF CopyInv
<1>2. ns \in Sectors /\ Erased(f, ns) /\ 1 \in Sectors
  BY RamsHave, RamHas, SectorFacts DEF Sectors
<1>3. /\ Built(f, g0, ns) /\ Outside(f, g0, DataStart(ns), Limit(ns)) /\ Run(f, p.ops, g0, Safe(c))
      /\ LogAt(g0, ns, B, a) /\ Clean(g0, ns, a) /\ a <= DataStart(ns) + M * Count(slot, NumSlots)
      /\ p.blob \in [Slots -> Addresses]
      /\ \A i \in Slots : i < NumSlots /\ i # slot =>
           BlobAt(g0, B, i, p.blob[i]) /\ FileAt(g0, p.blob[i]) = FileAt(f, r.blob[i])
      /\ \A i \in Slots : ~(i < NumSlots /\ i # slot) => \A x \in B : ~Valid(g0, x, i)
  BY <1>1 DEF CopiesDone
<1> HIDE DEF ns, a
<1>4. /\ b \in Nat /\ b \in SectorWords(ns) /\ b + 2 \in SectorWords(ns) /\ b + 2 \in Addresses /\ b \in Addresses
      /\ Limit(ns) \in Nat /\ DataStart(ns) = b + 4 /\ b + 4 < Limit(ns) /\ Limit(ns) <= Limit(1) /\ Limit(1) \in Nat
  BY <1>2, HeaderWords, SectorFacts
<1>5. a \in Nat /\ b + 4 <= a /\ a < Limit(ns) /\ a \in Addresses
  BY <1>2, <1>3, <1>4, LogOrder
<1>6. /\ len \in Nat /\ n \in Nat /\ blob_len(len) \in Nat /\ n + 2 <= blob_len(len) /\ blob_len(len) <= M
  BY LensFacts, LenFacts DEF Fits
<1>7. e < Limit(ns)
  <2> DEFINE j == NumSlots - 1
  <2>1. NumSlots \in Nat /\ j \in Nat /\ j + 1 <= NumSlots /\ slot \in Nat /\ ~(NumSlots <= slot)
    BY Sizes DEF Slots
  <2>2. Count(slot, NumSlots) = j
    BY <2>1 DEF Count
  <2> HIDE DEF j
  <2>3. a <= DataStart(ns) + M * j
    BY <1>3, <2>2
  <2> QED
    BY <1>2, <1>5, <1>6, <2>1, <2>3, RoomFor
<1>8. \A i \in Slots : i < NumSlots
  BY Sizes DEF Slots
<1> HIDE DEF b, n
<1> DEFINE g1 == Put(g0, b + 2, SlotsWord)
<1>9. g0 \in Flashes /\ SlotsWord \in FlashWord /\ g0[b + 2] = E /\ g0[b] = E
  <2>1. ~(DataStart(ns) <= b + 2 /\ b + 2 < Limit(ns)) /\ ~(DataStart(ns) <= b /\ b < Limit(ns))
    BY <1>4
  <2> QED
    BY <1>2, <1>3, <1>4, <2>1, WordTypes DEF Built, Outside, Erased
<1>10. g1 \in Flashes /\ g1[b + 2] = SlotsWord /\ \A x \in Addresses : x # b + 2 => g1[x] = g0[x]
  BY <1>4, <1>9, PutIs
<1>11. Step(g0, Prog(b + 2, SlotsWord), g1) /\ Prog(b + 2, SlotsWord) \in Op
  <2>1. Takes(g0[b + 2], SlotsWord)
    BY <1>9 DEF Takes
  <2> QED
    BY <1>4, <1>9, <2>1, OpTypes DEF Step
<1> HIDE DEF g1
<1>12. \A x \in Addresses : x \in Nat
  BY <1>4 DEF Addresses
<1>13. Built(f, g1, ns)
  <2>1. ASSUME NEW x \in Addresses, ~(b + 2 <= x /\ x < b + 3) PROVE g1[x] = g0[x]
    <3>1. x # b + 2
      BY <1>4, <1>12, <2>1
    <3> QED
      BY <1>10, <3>1
  <2>2. Outside(g0, g1, b + 2, b + 3)
    BY <2>1 DEF Outside
  <2>3. b + 2 \in Nat /\ b + 3 \in Nat /\ b + 2 <= b + 2 /\ b + 3 <= Limit(ns)
    BY <1>4
  <2> QED
    BY <1>2, <1>3, <1>10, <2>2, <2>3, BuiltData DEF b
<1>14. Run(f, p.ops \o <<Prog(b + 2, SlotsWord)>>, g1, Safe(c))
  <2>1. <<g0, g1>> \in Safe(c)
    BY <1>3, <1>13, BuildStep DEF ns
  <2>2. Run(g0, <<Prog(b + 2, SlotsWord)>>, g1, Safe(c))
    BY <1>11, <2>1, RunOne
  <2> QED
    BY <1>3, <2>2, RunCat
<1>15. \A x \in Nat : b + 4 <= x /\ x < Limit(ns) => x \in Addresses /\ g1[x] = g0[x]
  <2>1. \A x \in Nat : x < Limit(ns) => x \in Addresses
    BY <1>2, SectorNums
  <2>2. \A x \in Nat : b + 4 <= x => x # b + 2
    BY <1>4
  <2> QED
    BY <1>10, <2>1, <2>2
<1>16. LogAt(g1, ns, B, a) /\ BlobsStay(g0, g1, B) /\ FilesStay(g0, g1, B)
  <2>1. Agree(g0, g1, DataStart(ns), a)
    <3> SUFFICES ASSUME NEW x \in Nat, DataStart(ns) <= x, x < a PROVE g0[x] = g1[x]
      BY DEF Agree
    <3>1. b + 4 <= x /\ x < Limit(ns)
      BY <1>4, <1>5
    <3> QED
      BY <1>15, <3>1
  <2> QED
    BY <1>2, <1>3, <2>1, LogStays
<1>17. Clean(g1, ns, a)
  <2> SUFFICES ASSUME NEW x \in a .. Limit(ns) - 1 PROVE g1[x] = E
    BY DEF Clean
  <2>1. x \in Nat /\ b + 4 <= x /\ x < Limit(ns)
    BY <1>4, <1>5
  <2> QED
    BY <1>3, <1>15, <2>1 DEF Clean
<1> DEFINE blob == [p.blob EXCEPT ![slot] = 0]
<1>18. /\ blob \in [Slots -> Addresses] /\ blob[slot] = 0 /\ \A k \in Slots : k # slot => blob[k] = p.blob[k]
       /\ [blob EXCEPT ![slot] = a] = [p.blob EXCEPT ![slot] = a]
  <2>1. 0 \in Addresses
    BY <1>4, <1>5 DEF Addresses
  <2> QED
    BY <1>3, <2>1
<1> HIDE DEF blob
<1>19. Blobs(g0, B, blob)
  <2> SUFFICES ASSUME NEW k \in Slots PROVE BlobAt(g0, B, k, blob[k])
    BY DEF Blobs
  <2>1. CASE k = slot
    BY <1>3, <1>18, <2>1 DEF BlobAt
  <2>2. CASE k # slot
    BY <1>3, <1>8, <1>18, <2>2
  <2> QED
    BY <2>1, <2>2
<1>20. Blobs(g1, B, blob)
  BY <1>16, <1>19 DEF Blobs, BlobsStay
<1>21. \A k \in Slots : k # slot => FileAt(g1, blob[k]) = FileAt(f, r.blob[k])
  <2>1. \A k \in Slots : FileAt(g1, blob[k]) = FileAt(g0, blob[k])
    BY <1>2, <1>3, <1>16, <1>19, SameFiles
  <2> QED
    BY <1>3, <1>8, <1>18, <2>1
<1>22. ASSUME NEW h \in Flashes, NEW lo \in Nat, b + 2 <= lo, Outside(g1, h, lo, a + 2 + n) PROVE Built(f, h, ns)
  <2>1. a + 2 + n \in Nat /\ a + 2 + n <= Limit(ns)
    BY <1>4, <1>5, <1>6, <1>7
  <2> QED
    BY <1>2, <1>13, <1>22, <2>1, BuiltData DEF b
<1>23. \A h \in Flashes : Partial(g1, h, a, len) \/ Blobbed(g1, h, a, slot, v, len) => Built(f, h, ns)
  <2>1. a \in Nat /\ a + 1 \in Nat /\ b + 2 <= a /\ b + 2 <= a + 1
    BY <1>4, <1>5
  <2> QED
    BY <1>22, <2>1 DEF Partial, Blobbed, n
<1>24. \A h, g \in Flashes : Built(f, h, ns) /\ Built(f, g, ns) => <<h, g>> \in Safe(c)
  BY BuildStep DEF ns
<1>25. a + 2 + n <= Limit(1) /\ \A x \in Addresses : a <= x /\ x < a + 2 + n => g1[x] = E
  <2>1. \A x \in Nat : a <= x /\ x < a + 2 + n => x \in a .. Limit(ns) - 1
    BY <1>4, <1>5, <1>6, <1>7
  <2>2. a + 2 + n <= Limit(1)
    BY <1>4, <1>5, <1>6, <1>7
  <2> QED
    BY <1>12, <1>17, <2>1, <2>2 DEF Clean
<1>26. PICK g2 \in Flashes : Run(g1, BlobOps(a, slot, v, len), g2, Safe(c)) /\ Blobbed(g1, g2, a, slot, v, len)
  <2>1. /\ \A h, g \in Flashes : Partial(g1, h, a, len) /\ Partial(g1, g, a, len) => <<h, g>> \in Safe(c)
        /\ \A h, g \in Flashes : Partial(g1, h, a, len) /\ Blobbed(g1, g, a, slot, v, len) => <<h, g>> \in Safe(c)
    BY <1>23, <1>24
  <2> QED
    BY <1>5, <1>6, <1>10, <1>25, <2>1, BlobRun DEF n
<1> HIDE DEF e
<1>27. Grown(g1, g2, ns, B, a, e, blob, slot, v, len)
  <2>1. e = a + blob_len(len)
    BY DEF e
  <2> QED
    BY <1>2, <1>7, <1>10, <1>16, <1>17, <1>18, <1>20, <1>26, <2>1, BlobbedLog
<1> DEFINE nb == [p.blob EXCEPT ![slot] = a]
<1>28. nb \in [Slots -> Addresses] /\ nb[slot] = a /\ \A k \in Slots : k # slot => nb[k] = blob[k]
  BY <1>3, <1>5, <1>18
<1>29. Blobs(g2, B \cup {a}, nb) /\ LogAt(g2, ns, B \cup {a}, e) /\ Clean(g2, ns, e)
  BY <1>18, <1>27 DEF Grown
<1>30. /\ \A k \in Slots : k # slot => FileAt(g2, nb[k]) = FileAt(f, r.blob[k])
       /\ len % 2 = 0 => FileAt(g2, nb[slot]) = FileOf(v, len)
  BY <1>21, <1>27, <1>28 DEF Grown
<1> HIDE DEF nb
<1>31. Built(f, g2, ns)
  BY <1>23, <1>26
<1>32. g2[b] = E
  <2>1. ~(a <= b /\ b < a + 2 + n) /\ b # b + 2
    BY <1>4, <1>5, <1>6
  <2> QED
    BY <1>4, <1>9, <1>10, <1>26, <2>1 DEF Blobbed, Outside, n
<1>33. Crossed(f, g2, r, slot, v, len, B \cup {a}, e, nb)
  BY <1>28, <1>29, <1>30, <1>31, <1>32 DEF Crossed, ns, b
<1>34. Run(f, p.ops \o <<Prog(b + 2, SlotsWord)>> \o BlobOps(a, slot, v, len), g2, Safe(c))
  BY <1>14, <1>26, RunCat
<1> QED
  BY <1>33, <1>34 DEF nb, e, a, b, ns

\* sector_cross, when its erase reports no error.
LEMMA CrossRun ==
  ASSUME flash \in Flashes, ram \in Rams, RamOK(flash, ram), NEW slot \in Slots, NEW v \in Values, NEW len \in Lens,
         EraseErrSectors = {}
  PROVE  /\ sector_cross(slot, v, len).stat = "SM_STAT_OK"
         /\ \E g \in Flashes : /\ Run(flash, sector_cross(slot, v, len).ops, g, Safe(SaveOf(slot, v, len)))
                               /\ Ends(g, SaveOf(slot, v, len), sector_cross(slot, v, len).ram)
                               /\ sector_cross(slot, v, len).ram \in Rams
<1>1. PICK p : p = Copies(slot)
  OBVIOUS
<1>2. PICK f : f = flash
  OBVIOUS
<1>3. PICK r : r = ram
  OBVIOUS
<1> DEFINE c == SaveOf(slot, v, len)
           q == [cur |-> 1 - r.cur, last |-> p.addr + blob_len(len), blob |-> [p.blob EXCEPT ![slot] = p.addr]]
           bops == p.ops \o <<Prog(Base(1 - r.cur) + 2, SlotsWord)>> \o BlobOps(p.addr, slot, v, len)
<1>4. PICK M : Fits(M)
  BY LargestBlob
<1>5. CopyInv(f, r, c, slot, M, NumSlots, p)
  BY <1>1, <1>2, <1>3, <1>4, CopiesRun
<1>6. /\ sector_cross(slot, v, len).stat = "SM_STAT_OK"
      /\ sector_cross(slot, v, len).ram = q
      /\ sector_cross(slot, v, len).ops = bops \o CrossEnd(r)
  BY <1>1, <1>3 DEF sector_cross, CrossEnd
<1>7. f \in Flashes /\ r \in Rams /\ RamOK(f, r)
  BY <1>2, <1>3
<1>8. PICK g2, A : /\ Run(f, bops, g2, Safe(c))
                   /\ Crossed(f, g2, r, slot, v, len, A, p.addr + blob_len(len), [p.blob EXCEPT ![slot] = p.addr])
  <2> HIDE DEF c
  <2> QED
    BY <1>4, <1>5, <1>7, CrossBuildRun
<1>9. PICK g \in Flashes : Run(g2, CrossEnd(r), g, Safe(c)) /\ Ends(g, c, q) /\ q \in Rams
  BY <1>7, <1>8, CrossEndRun
<1>10. Run(f, bops \o CrossEnd(r), g, Safe(c))
  <2> HIDE DEF bops
  <2> QED
    BY <1>8, <1>9, RunCat
<1> QED
  BY <1>2, <1>6, <1>9, <1>10

-----------------------------------------------------------------------------
(* The inductive invariant *)

ClearOf == [kind |-> "clear"]

Calls ==
  {NoCall, InitOf, ClearOf} \cup {SaveOf(slot, v, len) : slot \in Slots, v \in Values, len \in Lens}
    \cup {DeleteOf(slot) : slot \in Slots}

\* The operations left end the call c with RAM r, over safe steps only.
Finishes(f, ops, c, r) == \E g \in Flashes : Run(f, ops, g, Safe(c)) /\ Ends(g, c, r)

Results == [ram : Rams, stat : {"SM_STAT_OK"}]

SaveInv ==
  /\ flash \in Flashes /\ ram \in Rams /\ result \in Results /\ call \in Calls
  /\ hung = FALSE /\ up \in BOOLEAN
  /\ Sound(flash)
  /\ call = NoCall => todo = <<>> /\ ~Moving(flash) /\ (up => RamOK(flash, ram))
  /\ call # NoCall => Finishes(flash, todo, call, result.ram)
  /\ call.kind \in {"save", "delete", "clear"} => up
  /\ call.kind = "init" => ~up

\* No operation, no change.
LEMMA RunEmpty ==
  ASSUME NEW f, NEW g, NEW R, Run(f, <<>>, g, R)
  PROVE  g = f
<1>1. Len(<<>>) = 0
  OBVIOUS
<1> QED
  BY <1>1 DEF Run

\* The kinds of the calls.
LEMMA CallKinds ==
  /\ NoCall.kind = "none" /\ InitOf.kind = "init" /\ ClearOf.kind = "clear"
  /\ \A slot, v, len : SaveOf(slot, v, len).kind = "save"
  /\ \A slot : DeleteOf(slot).kind = "delete"
BY DEF NoCall, InitOf, ClearOf, SaveOf, DeleteOf

\* Calls by their kind.
LEMMA CallIs ==
  ASSUME NEW c \in Calls
  PROVE  /\ c.kind \in {"none", "init", "clear", "save", "delete"}
         /\ c.kind = "none" <=> c = NoCall
         /\ c.kind = "init" <=> c = InitOf
         /\ c.kind = "clear" <=> c = ClearOf
         /\ c.kind = "save" => \E slot \in Slots, v \in Values, len \in Lens : c = SaveOf(slot, v, len)
         /\ c.kind = "delete" => \E slot \in Slots : c = DeleteOf(slot)
<1>1. CASE c \in {NoCall, InitOf, ClearOf}
  BY <1>1, CallKinds
<1>2. CASE \E slot \in Slots, v \in Values, len \in Lens : c = SaveOf(slot, v, len)
  BY <1>2, CallKinds
<1>3. CASE \E slot \in Slots : c = DeleteOf(slot)
  BY <1>3, CallKinds
<1> QED
  BY <1>1, <1>2, <1>3 DEF Calls

\* RAM after a reset.
LEMMA NoRamIs ==
  NoRam \in Rams /\ NoResult \in Results
<1>1. 0 \in Addresses /\ 0 \in 0 .. Limit(1) /\ 0 \in Sectors
  <2>1. 1 \in Sectors
    BY DEF Sectors
  <2>2. Limit(1) \in Nat /\ DataStart(1) \in Nat /\ DataStart(1) < Limit(1)
    BY <2>1, SectorNums
  <2> QED
    BY <2>2 DEF Addresses, Sectors
<1>2. NoRam \in Rams
  BY <1>1 DEF NoRam, Rams
<1> QED
  BY <1>2 DEF NoResult, Results

\* One operation of the call under way.
LEMMA FlashStepIs ==
  ASSUME SaveInv, FlashStep
  PROVE  /\ <<flash, flash'>> \in Safe(call) /\ Finishes(flash', todo', call, result.ram)
         /\ hung' = FALSE /\ UNCHANGED <<call, ram, result, up>> /\ call # NoCall
<1>1. /\ todo # <<>> /\ call # NoCall /\ hung = FALSE /\ flash \in Flashes
      /\ Finishes(flash, todo, call, result.ram)
  BY DEF SaveInv, FlashStep
<1>2. PICK f, ops, c, r : f = flash /\ ops = todo /\ c = call /\ r = result.ram
  OBVIOUS
<1>3. PICK g \in Flashes : Run(f, ops, g, Safe(c)) /\ Ends(g, c, r)
  BY <1>1, <1>2 DEF Finishes
<1>4. PICK h : Step(f, Head(ops), h) /\ <<f, h>> \in Safe(c) /\ Run(h, Tail(ops), g, Safe(c))
  BY <1>1, <1>2, <1>3, RunHead
<1>5. flash' = h /\ todo' = Tail(todo) /\ hung' = FALSE /\ UNCHANGED <<call, ram, result, up>>
  <2>1. CASE \E s \in Sectors : Head(ops) = Erase(s) /\ h = Wiped(f, s)
    <3>1. PICK s \in Sectors : Head(todo) = Erase(s) /\ h = Wiped(flash, s)
      BY <1>2, <2>1
    <3> QED
      BY <1>1, <3>1, EraseStep
  <2>2. CASE \E a \in Addresses, w \in FlashWord : Head(ops) = Prog(a, w) /\ Takes(f[a], w) /\ h = Put(f, a, w)
    <3>1. PICK a \in Addresses, w \in FlashWord :
            Head(todo) = Prog(a, w) /\ Takes(flash[a], w) /\ h = Put(flash, a, w)
      BY <1>2, <2>2
    <3> QED
      BY <1>1, <3>1, ProgramStep
  <2> QED
    BY <1>4, <2>1, <2>2 DEF Step
<1>6. Finishes(h, Tail(ops), c, r)
  BY <1>3, <1>4 DEF Finishes
<1> QED
  BY <1>1, <1>2, <1>4, <1>5, <1>6

\* A call begins.
LEMMA CallBegins ==
  ASSUME SaveInv, NEW c \in Calls, c # NoCall, NEW r, Begins(c, r), r.stat = "SM_STAT_OK", r.ram \in Rams,
         Finishes(flash, r.ops, c, r.ram), UNCHANGED ram, up' \in BOOLEAN,
         c.kind \in {"save", "delete", "clear"} => up', c.kind = "init" => ~up'
  PROVE  SaveInv'
<1>1. flash' = flash /\ hung' = hung /\ call' = c /\ todo' = r.ops /\ result' = [ram |-> r.ram, stat |-> r.stat]
  BY DEF Begins
<1>2. flash \in Flashes /\ ram \in Rams /\ hung = FALSE /\ Sound(flash)
  BY DEF SaveInv
<1>3. result' \in Results /\ result'.ram = r.ram
  BY <1>1 DEF Results
<1>4. Finishes(flash', todo', call', result'.ram)
  BY <1>1, <1>3
<1> QED
  BY <1>1, <1>2, <1>3, <1>4 DEF SaveInv

\* Between calls.
LEMMA IdleStays ==
  ASSUME SaveInv, call = NoCall, UNCHANGED <<flash, todo, call, result, hung>>, ram' = NoRam, up' = FALSE
  PROVE  SaveInv'
BY NoRamIs, CallKinds DEF SaveInv

\* A chip that was never used has no magic number.
LEMMA InitProbes ==
  ASSUME Init
  PROVE  ProbedSector(flash) = -1
<1>1. \A x \in Addresses : x \in Nat /\ flash[x] # Magic(1)
  <2>1. Rom # Magic(1) /\ E # Magic(1)
    BY DEF Rom, E, Magic
  <2>2. 1 \in Sectors
    BY DEF Sectors
  <2>3. Limit(1) \in Nat
    BY <2>2, SectorNums
  <2>4. \A x \in Addresses : x \in Nat
    BY <2>3 DEF Addresses
  <2> QED
    BY <2>1, <2>4 DEF Init
<1>2. 0 \in Sectors /\ 1 \in Sectors
  BY DEF Sectors
<1>3. Base(0) \in Addresses /\ Base(1) \in Addresses
  BY <1>2, HeaderWords
<1>4. ~HasMagic(flash, 0) /\ ~HasMagic(flash, 1)
  BY <1>1, <1>3 DEF HasMagic
<1> QED
  BY <1>4, ProbeFacts

\* The invariant holds at first.
LEMMA InitSaves ==
  ASSUME Init
  PROVE  SaveInv
<1>1. flash \in Flashes
  BY WordTypes DEF Init, Flashes
<1>2. ProbedSector(flash) = -1
  BY InitProbes
<1>3. Sound(flash) /\ ~Moving(flash)
  BY <1>2, NoSector
<1>4. todo = <<>> /\ call = NoCall /\ ram = NoRam /\ result = NoResult /\ up = FALSE /\ hung = FALSE
  BY DEF Init
<1>5. call \in Calls /\ call.kind = "none"
  BY <1>4, CallKinds DEF Calls
<1>6. ram \in Rams /\ result \in Results
  BY <1>4, NoRamIs
<1> QED
  BY <1>1, <1>3, <1>4, <1>5, <1>6 DEF SaveInv

\* What the states of SaveInv without a call are.
LEMMA UpIsRam ==
  ASSUME SaveInv, up, call = NoCall
  PROVE  flash \in Flashes /\ ram \in Rams /\ RamOK(flash, ram)
BY DEF SaveInv

\* sm_save starts a run that ends it.
LEMMA SaveKeeps ==
  ASSUME SaveInv, Careful, NEW slot \in Slots, NEW v \in Values, NEW len \in Lens, sm_save(slot, v, len)
  PROVE  SaveInv'
<1> DEFINE c == SaveOf(slot, v, len)
<1>1. PICK p : p = IF Crosses(len) THEN sector_cross(slot, v, len) ELSE Appends(slot, v, len)
  OBVIOUS
<1>2. up /\ Begins(c, p) /\ UNCHANGED <<ram, up>>
  BY <1>1 DEF sm_save, SaveOf
<1>3. call = NoCall
  BY <1>2 DEF Begins
<1>4. flash \in Flashes /\ ram \in Rams /\ RamOK(flash, ram)
  BY <1>2, <1>3, UpIsRam
<1>5. c \in Calls /\ c.kind = "save" /\ c # NoCall
  BY CallKinds DEF Calls
<1> HIDE DEF c
<1>6. p.stat = "SM_STAT_OK" /\ p.ram \in Rams /\ Finishes(flash, p.ops, c, p.ram)
  <2>1. CASE Crosses(len)
    <3>1. EraseErrSectors = {}
      BY DEF Careful
    <3> QED
      BY <1>1, <1>4, <2>1, <3>1, CrossRun DEF Finishes, c
  <2>2. CASE ~Crosses(len)
    <3>1. len % 4 # 0
      BY DEF Careful
    <3>2. ram.last + blob_len(len) < Limit(ram.cur)
      <4>1. ram.last \in Nat /\ ram.cur \in Sectors
        <5>1. 1 \in Sectors
          BY DEF Sectors
        <5>2. Limit(1) \in Nat
          BY <5>1, SectorNums
        <5> QED
          BY <1>4, <5>2 DEF Rams
      <4>2. Limit(ram.cur) \in Nat /\ blob_len(len) \in Nat
        BY <4>1, SectorNums, LensFacts
      <4> QED
        BY <2>2, <4>1, <4>2 DEF Crosses
    <3>3. p.ops = BlobOps(ram.last, slot, v, len) /\ p.ram = Appended(ram, slot, len) /\ p.stat = "SM_STAT_OK"
      BY <1>1, <2>2 DEF Appends, Appended
    <3>4. PICK r : r = ram
      OBVIOUS
    <3>5. PICK f : f = flash
      OBVIOUS
    <3>6. PICK g \in Flashes : /\ Run(f, BlobOps(r.last, slot, v, len), g, Safe(SaveOf(slot, v, len)))
                               /\ Ends(g, SaveOf(slot, v, len), Appended(r, slot, len))
                               /\ Appended(r, slot, len) \in Rams
      BY <1>4, <3>1, <3>2, <3>4, <3>5, AppendRun
    <3> QED
      BY <3>3, <3>4, <3>5, <3>6 DEF Finishes, c
  <2> QED
    BY <2>1, <2>2
<1> QED
  BY <1>2, <1>5, <1>6, CallBegins DEF SaveInv

\* sm_delete starts a run that ends it.
LEMMA DeleteKeeps ==
  ASSUME SaveInv, NEW slot \in Slots, sm_delete(slot)
  PROVE  SaveInv'
<1> DEFINE c == DeleteOf(slot)
<1>1. PICK p : p = [ops |-> DeleteOps(flash, ram.blob[slot]), ram |-> Deleted(ram, slot), stat |-> "SM_STAT_OK"]
  OBVIOUS
<1>2. up /\ Begins(c, p) /\ UNCHANGED <<ram, up>>
  BY <1>1 DEF sm_delete, DeleteOf, DeleteOps, Deleted
<1>3. call = NoCall
  BY <1>2 DEF Begins
<1>4. flash \in Flashes /\ ram \in Rams /\ RamOK(flash, ram)
  BY <1>2, <1>3, UpIsRam
<1>5. c \in Calls /\ c.kind = "delete" /\ c # NoCall
  BY CallKinds DEF Calls
<1>6. PICK f, r : f = flash /\ r = ram
  OBVIOUS
<1>7. PICK g \in Flashes : /\ Run(f, DeleteOps(f, r.blob[slot]), g, Safe(DeleteOf(slot)))
                           /\ Ends(g, DeleteOf(slot), Deleted(r, slot))
                           /\ Deleted(r, slot) \in Rams
  BY <1>4, <1>6, DeleteRun
<1>8. p.stat = "SM_STAT_OK" /\ p.ram = Deleted(r, slot) /\ p.ops = DeleteOps(f, r.blob[slot])
  BY <1>1, <1>6
<1>9. p.ram \in Rams /\ Finishes(flash, p.ops, c, p.ram)
  BY <1>6, <1>7, <1>8 DEF Finishes
<1> HIDE DEF c
<1> QED
  BY <1>2, <1>5, <1>8, <1>9, CallBegins DEF SaveInv

\* sm_clear starts a run that ends it.
LEMMA ClearKeeps ==
  ASSUME SaveInv, sm_clear
  PROVE  SaveInv'
<1> DEFINE c == ClearOf
<1>1. PICK p : p = [ops |-> ClearOps, ram |-> [ram EXCEPT !.cur = 0], stat |-> "SM_STAT_OK"]
  OBVIOUS
<1>2. up /\ Begins(c, p) /\ UNCHANGED <<ram, up>>
  BY <1>1 DEF sm_clear, ClearOf
<1>3. call = NoCall
  BY <1>2 DEF Begins
<1>4. flash \in Flashes /\ ram \in Rams /\ RamOK(flash, ram) /\ Sound(flash)
  BY <1>2, <1>3, UpIsRam DEF SaveInv
<1>5. c \in Calls /\ c.kind = "clear" /\ c # NoCall
  BY CallKinds DEF Calls
<1>6. PICK f : f = flash
  OBVIOUS
<1>7. HasMagic(f, 1) => ProbedSector(f) = 1
  <2>1. ram.cur \in Sectors /\ ProbedSector(f) = ram.cur /\ Erased(f, 1 - ram.cur)
    BY <1>4, <1>6, RamHas
  <2>2. CASE ram.cur = 0
    <3>1. Erased(f, 1) /\ 1 \in Sectors
      BY <2>1, <2>2 DEF Sectors
    <3> QED
      BY <3>1, ErasedHasNoMagic
  <2>3. CASE ram.cur = 1
    BY <2>1, <2>3
  <2> QED
    BY <2>1, <2>2, <2>3 DEF Sectors
<1>8. PICK g \in Flashes : Run(f, ClearOps, g, Safe(c)) /\ Kept(g) = Empty /\ ~Moving(g)
  BY <1>4, <1>5, <1>6, <1>7, ClearRun
<1>9. Ends(g, c, p.ram)
  BY <1>5, <1>8 DEF Ends, Effect, Empty
<1>10. p.stat = "SM_STAT_OK" /\ p.ram \in Rams /\ p.ops = ClearOps
  <2>1. 0 \in Sectors
    BY DEF Sectors
  <2>2. p.ram = [ram EXCEPT !.cur = 0] /\ p.stat = "SM_STAT_OK" /\ p.ops = ClearOps
    BY <1>1
  <2> QED
    BY <1>4, <2>1, <2>2 DEF Rams
<1>11. Finishes(flash, p.ops, c, p.ram)
  BY <1>6, <1>8, <1>9, <1>10 DEF Finishes
<1> HIDE DEF c
<1> QED
  BY <1>2, <1>5, <1>10, <1>11, CallBegins DEF SaveInv

\* sm_init starts a run that ends it, from whatever a power cut left.
LEMMA InitKeeps ==
  ASSUME SaveInv, Careful, sm_init
  PROVE  SaveInv'
<1> DEFINE c == InitOf
<1>1. PICK p, f : f = flash /\ p = savedata_probe(f)
  OBVIOUS
<1>2. Begins(c, p) /\ up' = FALSE /\ UNCHANGED ram
  BY <1>1 DEF sm_init, InitOf
<1>3. f \in Flashes /\ Sound(f) /\ ~Moving(f)
  BY <1>1, <1>2 DEF Begins, SaveInv
<1>4. EraseErrSectors = {}
  BY DEF Careful
<1>5. c \in Calls /\ c.kind = "init" /\ c # NoCall
  BY CallKinds DEF Calls
<1>6. /\ p.stat = "SM_STAT_OK"
      /\ \E g \in Flashes : Run(f, p.ops, g, Safe(InitOf)) /\ Ends(g, InitOf, p.ram) /\ p.ram \in Rams
  BY <1>1, <1>3, <1>4, InitRun
<1>7. p.ram \in Rams /\ Finishes(flash, p.ops, c, p.ram)
  BY <1>1, <1>6 DEF Finishes
<1> HIDE DEF c
<1> QED
  BY <1>2, <1>5, <1>6, <1>7, CallBegins

\* A call that returns has taken effect.
LEMMA ReturnKeeps ==
  ASSUME SaveInv, Careful, Returns
  PROVE  SaveInv' /\ (EvenLens => Kept(flash) = Effect(call, Kept(flash)))
<1>1. /\ call # NoCall /\ todo = <<>> /\ Finishes(flash, todo, call, result.ram)
      /\ flash \in Flashes /\ Sound(flash) /\ call \in Calls /\ hung = FALSE /\ result \in Results
  BY DEF Returns, SaveInv
<1>2. Ends(flash, call, result.ram)
  BY <1>1, RunEmpty DEF Finishes
<1>3. /\ call' = NoCall /\ ram' = result.ram /\ result' = [result EXCEPT !.ram = NoRam]
      /\ up' = (result.stat = "SM_STAT_OK" /\ ~(call.kind = "clear" /\ InitAfterClear))
      /\ flash' = flash /\ todo' = todo /\ hung' = hung
  BY DEF Returns
<1>4. ram' \in Rams /\ result' \in Results
  BY <1>1, <1>3, NoRamIs DEF Results
<1>5. up' \in BOOLEAN /\ (up' => call.kind # "clear")
  BY <1>3 DEF Careful
<1>6. up' => RamOK(flash, result.ram)
  BY <1>2, <1>5 DEF Ends
<1>7. ~Moving(flash)
  <2>1. CASE call.kind = "clear"
    BY <1>2, <2>1 DEF Ends
  <2>2. CASE call.kind # "clear"
    <3>1. RamOK(flash, result.ram) /\ result.ram \in Rams
      BY <1>1, <1>2, <2>2 DEF Ends, Results
    <3> QED
      BY <1>1, <3>1, FlashTyped, RamIsSound
  <2> QED
    BY <2>1, <2>2
<1>8. SaveInv'
  <2>1. NoCall.kind = "none" /\ NoCall \in Calls
    BY CallKinds DEF Calls
  <2>2. up' => RamOK(flash', ram')
    BY <1>3, <1>6
  <2>3. Sound(flash') /\ ~Moving(flash')
    BY <1>1, <1>3, <1>7
  <2> QED
    BY <1>1, <1>3, <1>4, <1>5, <2>1, <2>2, <2>3 DEF SaveInv
<1> QED
  BY <1>2, <1>8 DEF Ends

\* A power cut leaves what sm_init can go on from.
LEMMA PowerCutKeeps ==
  ASSUME SaveInv, Careful, PowerCut
  PROVE  SaveInv'
<1>1. ~Moving(flash)
  BY DEF PowerCut, Careful, MovingBlobs, Moving
<1>2. /\ todo' = <<>> /\ call' = NoCall /\ ram' = NoRam /\ result' = NoResult /\ up' = FALSE /\ hung' = FALSE
      /\ flash' = flash
  BY DEF PowerCut
<1>3. NoCall.kind = "none" /\ NoCall \in Calls
  BY CallKinds DEF Calls
<1>4. flash' \in Flashes /\ Sound(flash') /\ ~Moving(flash')
  BY <1>1, <1>2 DEF SaveInv
<1> QED
  BY <1>2, <1>3, <1>4, NoRamIs DEF SaveInv

\* Every step keeps the invariant.
LEMMA NextSaves ==
  ASSUME SaveInv, Careful, [Next]_vars
  PROVE  SaveInv'
<1>1. CASE sm_init
  BY <1>1, InitKeeps
<1>2. CASE sm_initFails \/ sm_deinit
  BY <1>2, IdleStays DEF sm_initFails, sm_deinit
<1>3. CASE \E slot \in Slots, v \in Values, len \in Lens : sm_save(slot, v, len)
  BY <1>3, SaveKeeps
<1>4. CASE \E slot \in Slots : sm_delete(slot)
  BY <1>4, DeleteKeeps
<1>5. CASE sm_clear
  BY <1>5, ClearKeeps
<1>6. CASE FlashStep
  <2>1. /\ <<flash, flash'>> \in Safe(call) /\ Finishes(flash', todo', call, result.ram)
        /\ hung' = FALSE /\ UNCHANGED <<call, ram, result, up>> /\ call # NoCall
    BY <1>6, FlashStepIs
  <2>2. flash' \in Flashes /\ Sound(flash')
    BY <2>1, SafeHas
  <2> QED
    BY <2>1, <2>2 DEF SaveInv
<1>7. CASE Returns
  BY <1>7, ReturnKeeps
<1>8. CASE PowerCut
  BY <1>8, PowerCutKeeps
<1>9. CASE UNCHANGED vars
  BY <1>9 DEF vars, SaveInv
<1> QED
  BY <1>1, <1>2, <1>3, <1>4, <1>5, <1>6, <1>7, <1>8, <1>9 DEF Next

-----------------------------------------------------------------------------
(* The theorems *)

\* The inductive invariant: at every moment the operations left of the call
\* under way can be done and end it well, and each of them leaves a flash that
\* sm_init can go on from.
THEOREM SaveInvariant == Careful => (Spec => []SaveInv)
<1> SUFFICES ASSUME Careful PROVE Spec => []SaveInv
  OBVIOUS
<1>1. Init => SaveInv
  BY InitSaves
<1>2. SaveInv /\ [Next]_vars => SaveInv'
  BY NextSaves
<1> QED
  BY <1>1, <1>2, PTL DEF Spec

\* sm_load returns what sm_init would find, between any two calls.
THEOREM LoadsStoredHolds == Careful => (Spec => []LoadsStored)
<1> SUFFICES ASSUME Careful PROVE Spec => []LoadsStored
  OBVIOUS
<1>1. SaveInv => LoadsStored
  <2> SUFFICES ASSUME SaveInv, Idle PROVE [slot \in Slots |-> FileAt(flash, ram.blob[slot])] = Stored
    BY DEF LoadsStored
  <2>1. flash \in Flashes /\ ram \in Rams /\ RamOK(flash, ram)
    BY UpIsRam DEF Idle
  <2>2. Kept(flash) = [slot \in Slots |-> FileAt(flash, ram.blob[slot])]
    BY <2>1, FlashTyped, RamIsSound
  <2> QED
    BY <2>2, StoredIsKept
<1>2. Spec => []SaveInv
  BY SaveInvariant
<1> QED
  BY <1>1, <1>2, PTL

\* Every word that is programmed takes its value, what a later save will program
\* is erased, and neither sm_init nor sm_save returns an error.
THEOREM LogIsSoundHolds == Careful => (Spec => []LogIsSound)
<1> SUFFICES ASSUME Careful PROVE Spec => []LogIsSound
  OBVIOUS
<1>1. SaveInv => LogIsSound
  <2> SUFFICES ASSUME SaveInv PROVE LogIsSound
    OBVIOUS
  <2>1. flash \in Flashes /\ ram \in Rams /\ result \in Results /\ hung = FALSE /\ up \in BOOLEAN
    BY DEF SaveInv
  <2>2. TypeOK
    <3>1. DOMAIN flash = Addresses
      BY <2>1 DEF Flashes
    <3>2. todo # <<>> => call # NoCall
      BY DEF SaveInv
    <3>3. ram.cur \in Sectors /\ ram.last \in 0 .. Limit(1) /\ \A s \in Slots : ram.blob[s] \in Addresses
      BY <2>1 DEF Rams
    <3>4. result.stat \in {"SM_STAT_OK", "SM_STAT_ERR", "SM_STAT_HW_ERR"}
      BY <2>1 DEF Results
    <3> QED
      BY <2>1, <3>1, <3>2, <3>3, <3>4 DEF TypeOK
  <2>3. AppendsToErased
    <3> SUFFICES ASSUME Idle
                 PROVE  /\ ram.last \in DataStart(ram.cur) .. Limit(ram.cur) - 1
                        /\ \A a \in ram.last .. Limit(ram.cur) - 1 : flash[a] = E
                        /\ \A a \in SectorWords(1 - ram.cur) : flash[a] = E
      BY DEF AppendsToErased
    <3>1. RamOK(flash, ram)
      BY UpIsRam DEF Idle
    <3>2. PICK f, r : f = flash /\ r = ram
      OBVIOUS
    <3>3. r.cur \in Sectors /\ Erased(f, 1 - r.cur) /\ Clean(f, r.cur, r.last)
      BY <2>1, <3>1, <3>2, RamHas
    <3>4. PICK A : LogAt(f, r.cur, A, r.last)
      BY <2>1, <3>1, <3>2, RamHas
    <3>5. /\ r.last \in Nat /\ DataStart(r.cur) <= r.last /\ r.last < Limit(r.cur)
          /\ DataStart(r.cur) \in Nat /\ Limit(r.cur) \in Nat
      BY <3>3, <3>4, LogOrder, SectorNums
    <3>6. r.last \in DataStart(r.cur) .. Limit(r.cur) - 1
      BY <3>5
    <3> QED
      BY <3>2, <3>3, <3>6 DEF Clean, Erased
  <2>4. NoErrors /\ NeverHangs
    BY <2>1 DEF NoErrors, NeverHangs, Results
  <2> QED
    BY <2>2, <2>3, <2>4 DEF LogIsSound
<1>2. Spec => []SaveInv
  BY SaveInvariant
<1> QED
  BY <1>1, <1>2, PTL

\* What SlotStore calls the effect of a call.
LEMMA EffectIsApply ==
  ASSUME NEW c, c.kind \in {"save", "delete", "clear"}, NEW K
  PROVE  Abstract!Apply(c, K) = Effect(c, K)
<1>1. CASE c.kind = "save"
  BY <1>1 DEF Abstract!Apply, Effect
<1>2. CASE c.kind = "delete"
  BY <1>2 DEF Abstract!Apply, Effect
<1>3. CASE c.kind = "clear"
  BY <1>3 DEF Abstract!Apply, Effect
<1> QED
  BY <1>1, <1>2, <1>3

\* The calls but sm_init are calls of SlotStore.
LEMMA SeenCall ==
  ASSUME NEW c \in Calls, c # NoCall, c # InitOf
  PROVE  c \in Abstract!Ops /\ c # Abstract!NoOp /\ c.kind \in {"save", "delete", "clear"}
<1>1. NoCall = Abstract!NoOp
  BY DEF NoCall, Abstract!NoOp
<1>2. c.kind \in {"clear", "save", "delete"}
  BY CallIs
<1>3. c \in Abstract!Ops
  <2>1. CASE c.kind = "clear"
    <3>1. c = ClearOf
      BY <2>1, CallIs
    <3> QED
      BY <3>1 DEF ClearOf, Abstract!Ops
  <2>2. CASE c.kind = "save"
    <3>1. PICK slot \in Slots, v \in Values, len \in Lens : c = SaveOf(slot, v, len)
      BY <2>2, CallIs
    <3>2. FileOf(v, len) \in Files
      BY DEF Files
    <3> QED
      BY <3>1, <3>2 DEF SaveOf, Abstract!Ops
  <2>3. CASE c.kind = "delete"
    <3>1. PICK slot \in Slots : c = DeleteOf(slot)
      BY <2>3, CallIs
    <3> QED
      BY <3>1 DEF DeleteOf, Abstract!Ops
  <2> QED
    BY <1>2, <2>1, <2>2, <2>3
<1> QED
  BY <1>1, <1>2, <1>3

\* Steps of the save manager are steps of SlotStore.
LEMMA StepIsStore ==
  ASSUME SaveInv, SaveInv', Careful, EvenLens, [Next]_vars
  PROVE  [Abstract!Next]_(Abstract!vars)
<1> DEFINE o == IF call.kind = "init" THEN NoCall ELSE call
<1>0. /\ Stored = Kept(flash) /\ Stored' = Kept(flash')
      /\ NoCall = Abstract!NoOp /\ call \in Calls /\ call' \in Calls
  BY StoredIsKept DEF Stored, Kept, NoCall, Abstract!NoOp, SaveInv
<1>1. ASSUME UNCHANGED flash, up' = FALSE, o' = NoCall PROVE Abstract!Next
  <2>1. Stored' = Stored
    BY <1>0, <1>1
  <2>2. Abstract!Interrupt
    BY <1>0, <1>1, <2>1 DEF Abstract!Interrupt
  <2> QED
    BY <2>2 DEF Abstract!Next
<1>2. ASSUME UNCHANGED <<flash, up>>, up, call = NoCall, call' # NoCall, call' # InitOf PROVE Abstract!Next
  <2>1. Stored' = Stored
    BY <1>0, <1>2
  <2>2. o = NoCall /\ o' = call' /\ call' \in Abstract!Ops
    BY <1>0, <1>2, CallIs, CallKinds, SeenCall
  <2>3. Abstract!Call
    BY <1>0, <1>2, <2>1, <2>2 DEF Abstract!Call
  <2> QED
    BY <2>3 DEF Abstract!Next
<1>3. CASE sm_init
  <2>1. call' = InitOf /\ up' = FALSE /\ flash' = flash
    BY <1>3 DEF sm_init, Begins, InitOf
  <2> QED
    BY <1>1, <2>1, CallKinds
<1>4. CASE sm_initFails \/ sm_deinit
  <2>1. call' = NoCall /\ up' = FALSE /\ flash' = flash
    BY <1>4 DEF sm_initFails, sm_deinit
  <2> QED
    BY <1>1, <2>1, CallKinds
<1>5. CASE \E slot \in Slots, v \in Values, len \in Lens : sm_save(slot, v, len)
  <2>1. PICK slot \in Slots, v \in Values, len \in Lens : sm_save(slot, v, len)
    BY <1>5
  <2>2. up /\ call = NoCall /\ call' = SaveOf(slot, v, len) /\ UNCHANGED <<flash, up>>
    BY <2>1 DEF sm_save, Begins, SaveOf
  <2> QED
    BY <1>2, <2>2, CallKinds
<1>6. CASE \E slot \in Slots : sm_delete(slot)
  <2>1. PICK slot \in Slots : sm_delete(slot)
    BY <1>6
  <2>2. up /\ call = NoCall /\ call' = DeleteOf(slot) /\ UNCHANGED <<flash, up>>
    BY <2>1 DEF sm_delete, Begins, DeleteOf
  <2> QED
    BY <1>2, <2>2, CallKinds
<1>7. CASE sm_clear
  <2>1. up /\ call = NoCall /\ call' = ClearOf /\ UNCHANGED <<flash, up>>
    BY <1>7 DEF sm_clear, Begins, ClearOf
  <2> QED
    BY <1>2, <2>1, CallKinds
<1>8. CASE FlashStep
  <2>1. <<flash, flash'>> \in Safe(call) /\ UNCHANGED <<call, up>> /\ call # NoCall
    BY <1>8, FlashStepIs
  <2>2. Kept(flash') = Kept(flash) \/ Kept(flash') = Effect(call, Kept(flash))
    BY <2>1, SafeHas
  <2>3. o' = o
    BY <2>1
  <2>4. CASE Kept(flash') = Kept(flash)
    <3>1. Stored' = Stored
      BY <1>0, <2>4
    <3> QED
      BY <2>1, <2>3, <3>1 DEF Abstract!vars
  <2>5. CASE Kept(flash') = Effect(call, Kept(flash)) /\ call = InitOf
    <3>1. Kept(flash') = Kept(flash)
      BY <2>5, CallKinds DEF Effect
    <3>2. Stored' = Stored
      BY <1>0, <3>1
    <3> QED
      BY <2>1, <2>3, <3>2 DEF Abstract!vars
  <2>6. CASE Kept(flash') = Effect(call, Kept(flash)) /\ call # InitOf
    <3>1. call # Abstract!NoOp /\ call.kind \in {"save", "delete", "clear"}
      BY <1>0, <2>1, <2>6, SeenCall
    <3>2. o = call
      BY <3>1
    <3>3. Stored' = Abstract!Apply(call, Stored)
      BY <1>0, <2>6, <3>1, EffectIsApply
    <3>4. Abstract!Commit
      BY <2>1, <2>3, <3>1, <3>2, <3>3 DEF Abstract!Commit
    <3> QED
      BY <3>4 DEF Abstract!Next
  <2> QED
    BY <2>2, <2>4, <2>5, <2>6
<1>9. CASE Returns
  <2>1. /\ Kept(flash) = Effect(call, Kept(flash)) /\ call # NoCall /\ call' = NoCall /\ flash' = flash
        /\ up' = (result.stat = "SM_STAT_OK" /\ ~(call.kind = "clear" /\ InitAfterClear))
    BY <1>9, ReturnKeeps DEF Returns
  <2>2. up' = (call.kind # "clear")
    BY <2>1 DEF Careful, SaveInv, Results
  <2>3. Stored' = Stored /\ o' = NoCall
    BY <1>0, <2>1, CallKinds
  <2>4. CASE call.kind = "clear"
    BY <1>1, <2>1, <2>2, <2>3, <2>4
  <2>5. CASE call = InitOf
    <3>1. o = NoCall /\ up' = TRUE
      BY <2>2, <2>5, CallKinds
    <3>2. Abstract!Start
      BY <1>0, <2>3, <3>1 DEF Abstract!Start
    <3> QED
      BY <3>2 DEF Abstract!Next
  <2>6. CASE call.kind # "clear" /\ call # InitOf
    <3>1. call # Abstract!NoOp /\ call.kind \in {"save", "delete", "clear"}
      BY <1>0, <2>1, <2>6, SeenCall
    <3>2. o = call /\ up' = up
      <4>1. up' = TRUE /\ up = TRUE
        BY <2>2, <2>6, <3>1 DEF SaveInv
      <4> QED
        BY <3>1, <4>1
    <3>3. Stored = Abstract!Apply(call, Stored)
      BY <1>0, <2>1, <3>1, EffectIsApply
    <3>4. Abstract!Return
      BY <1>0, <2>3, <3>1, <3>2, <3>3 DEF Abstract!Return
    <3> QED
      BY <3>4 DEF Abstract!Next
  <2> QED
    BY <2>4, <2>5, <2>6
<1>10. CASE PowerCut
  <2>1. call' = NoCall /\ up' = FALSE /\ flash' = flash
    BY <1>10 DEF PowerCut
  <2> QED
    BY <1>1, <2>1, CallKinds
<1>11. CASE UNCHANGED vars
  <2>1. Stored' = Stored /\ o' = o /\ up' = up
    BY <1>0, <1>11 DEF vars
  <2> QED
    BY <2>1 DEF Abstract!vars
<1> QED
  BY <1>3, <1>4, <1>5, <1>6, <1>7, <1>8, <1>9, <1>10, <1>11 DEF Next

\* The save manager implements SlotStore: calls take effect completely or not at
\* all, wherever the power is cut, and what they stored is never lost.
THEOREM SaveManImplementsSlotStore == Careful /\ EvenLens => (Spec => ImplementsSlotStore)
<1> SUFFICES ASSUME Careful, EvenLens PROVE Spec => ImplementsSlotStore
  OBVIOUS
<1>1. Init => Abstract!Init
  <2> SUFFICES ASSUME Init PROVE Abstract!Init
    OBVIOUS
  <2>1. call = NoCall /\ up = FALSE
    BY DEF Init
  <2>2. Stored = [k \in Slots |-> NoFile]
    <3>1. ProbedSector(flash) = -1
      BY InitProbes
    <3> QED
      BY <3>1 DEF Stored
  <2> QED
    BY <2>1, <2>2, CallKinds DEF Abstract!Init, Abstract!NoOp, NoCall
<1>2. SaveInv /\ SaveInv' /\ [Next]_vars => [Abstract!Next]_(Abstract!vars)
  BY StepIsStore
<1>3. Spec => []SaveInv
  BY SaveInvariant
<1> QED
  BY <1>1, <1>2, <1>3, PTL DEF Spec, ImplementsSlotStore, Abstract!Spec
=============================================================================
