-------------------------------- MODULE Heap --------------------------------
(***************************************************************************)
(* The heap of memory.c, word by word.  Memory is a chain of blocks that   *)
(* starts at `heap' (word 0) and ends at `heapEnd'; the first word of a    *)
(* block is its size in bytes, with bit 0 set when it is used, and a size  *)
(* of 0 ends the chain.  `free' is where the search for a block starts.    *)
(* Adjacent free blocks are merged lazily: MEM_free only marks, and        *)
(* MEM_pack, pack and MEM_allocAt merge.                                   *)
(*                                                                         *)
(* The program writes the blocks it holds (value Junk, which reads as the  *)
(* header of a used block of one word), so that a header read from user    *)
(* data, or a header written over it, shows.                               *)
(***************************************************************************)
EXTENDS Integers, FiniteSets, FiniteSetsExt

CONSTANTS
  HeapEnd,        \* heapEnd - heap, in words: the index of the end mark
  Sizes,          \* sizes the program asks for, in bytes
  AtAddresses,    \* addresses (words) the program gives to MEM_allocAt
  SplitsInterior, \* does it ask for an address strictly inside free space
                  \* that a used block follows?
  SizeModulus     \* 2^16: the width of a size

ASSUME HeapSizes ==
  /\ HeapEnd \in Nat \ {0} /\ 2 * HeapEnd + 1 < SizeModulus
  /\ Sizes \subseteq 0 .. SizeModulus - 1
  /\ AtAddresses \subseteq 0 .. HeapEnd - 1
  /\ SplitsInterior \in BOOLEAN
  /\ SizeModulus \in Nat

Words == 0 .. HeapEnd
NULL == -1
Junk == 3

VARIABLES
  mem,      \* [Words -> 0 .. SizeModulus - 1]
  free,     \* the word the search starts from
  needPack,
  held,     \* [h |-> header, size |-> bytes asked for] of the blocks in use
  written   \* words the program has written in blocks it holds

vars == <<mem, free, needPack, held, written>>

\* MEM_init
Init ==
  /\ mem = [w \in Words |-> IF w = 0 THEN 2 * HeapEnd ELSE 0]
  /\ free = 0 /\ needPack = FALSE
  /\ held = {} /\ written = {}

-----------------------------------------------------------------------------
(* Reading the chain *)

Used(m, b) == m[b] % 2 = 1
Bytes(m, b) == 2 * (m[b] \div 2)

\* b += *b >> 1
After(m, b) == b + m[b] \div 2

\* The headers met when walking from b, the one that ends the walk included.
Chain(m, b) ==
  LET walk[c \in Words] ==
        IF m[c] = 0 \/ After(m, c) \notin c + 1 .. HeapEnd
        THEN {c} ELSE {c} \cup walk[After(m, c)]
  IN walk[b]

Headers(m) == {b \in Chain(m, 0) : m[b] # 0}
FreeHeaders(m) == {b \in Headers(m) : ~Used(m, b)}

\* A run is a maximal row of adjacent free blocks, from its first header to
\* the header that ends it.
Runs(m) ==
  LET chain == Chain(m, 0)
      free0 == {b \in chain : m[b] # 0 /\ ~Used(m, b)}
      inner == {After(m, b) : b \in free0}
  IN {[start |-> b, end |-> Min({c \in chain \ free0 : c > b})] : b \in free0 \ inner}
RunBytes(r) == 2 * (r.end - r.start)
FirstRun(rs) == CHOOSE r \in rs : \A q \in rs : r.start <= q.start

MEM_getFree(m) == MapThenSumSet(LAMBDA b : m[b], FreeHeaders(m))
MEM_getAllocated(m) ==
  MapThenSumSet(LAMBDA b : Bytes(m, b), {b \in Headers(m) : Used(m, b)})
MEM_getLargestFreeBlock(m) == Max({0} \cup {RunBytes(r) : r \in Runs(m)})

-----------------------------------------------------------------------------
(* Merging *)

\* The loop of MEM_pack, pack and MEM_allocAt over the runs in rs: the first
\* header of a run takes the size of the run, the others are cleared.
Merged(m, rs) ==
  LET chain == Chain(m, 0)
  IN [w \in Words |->
        IF w \in chain /\ \E r \in rs : r.start <= w /\ w < r.end
        THEN LET r == CHOOSE q \in rs : q.start <= w /\ w < q.end
             IN IF w = r.start THEN RunBytes(r) ELSE 0
        ELSE m[w]]

MEM_packMem(m) == Merged(m, Runs(m))
MEM_packFree(m) == IF Runs(m) = {} THEN HeapEnd ELSE FirstRun(Runs(m)).start

\* pack(nsize) stops at the first run that is large enough.
PackFits(m, nsize) == {r \in Runs(m) : RunBytes(r) >= nsize}
PackResult(m, nsize) ==
  IF PackFits(m, nsize) = {} THEN NULL ELSE FirstRun(PackFits(m, nsize)).start
PackMem(m, nsize) ==
  LET p == PackResult(m, nsize)
  IN Merged(m, {r \in Runs(m) : p = NULL \/ r.start <= p})

-----------------------------------------------------------------------------
(* Allocation *)

\* A block has a header word and is word aligned; 16 bit arithmetic.
AdjSizeNoHeader(size) == (2 * ((size + 1) \div 2)) % SizeModulus
AdjSize(size) == (2 * ((size + 3) \div 2)) % SizeModulus

\* The block that MEM_alloc's search from f finds without packing.
SearchFit(m, f, adjsize) ==
  IF adjsize <= m[f] THEN f
  ELSE LET fits == {b \in Chain(m, f) : m[b] # 0 /\ ~Used(m, b) /\ m[b] >= adjsize}
       IN IF fits = {} THEN NULL ELSE Min(fits)

\* Taking adjsize bytes at the start of the free block p: what is left is a
\* free block, and the next search starts there.
TakeMemLosesRest(m, p, adjsize) == [m EXCEPT ![p] = adjsize + 1]

TakeMem(m, p, adjsize) ==
  LET rest == p + adjsize \div 2
      left == m[p] - adjsize
  IN [w \in Words |-> IF w = p THEN adjsize + 1
                      ELSE IF w = rest /\ left > 0 THEN left
                      ELSE m[w]]

TakeFree(m, p, adjsize) ==
  LET rest == p + adjsize \div 2
  IN IF m[p] - adjsize > 0 THEN rest
     ELSE Min({b \in Chain(m, rest) : ~Used(m, b)})

Takes(m, p, adjsize, size) ==
  /\ mem' = TakeMem(m, p, adjsize)
  /\ free' = TakeFree(m, p, adjsize)
  /\ held' = held \cup {[h |-> p, size |-> size]}

\* MEM_alloc(size): the pack that an earlier MEM_free asked for, the search
\* from `free', then pack(); result is the header taken, or NULL.
AllocMem0 == IF needPack THEN MEM_packMem(mem) ELSE mem
AllocFree0 == IF needPack THEN MEM_packFree(mem) ELSE free
AllocResultNoPack(size) == SearchFit(AllocMem0, AllocFree0, AdjSize(size))

AllocResult(size) ==
  LET p == SearchFit(AllocMem0, AllocFree0, AdjSize(size))
  IN IF p # NULL THEN p ELSE PackResult(AllocMem0, AdjSize(size))

MEM_alloc(size) ==
  /\ size # 0
  /\ AllocResult(size) # NULL
  /\ LET m == IF SearchFit(AllocMem0, AllocFree0, AdjSize(size)) # NULL
              THEN AllocMem0 ELSE PackMem(AllocMem0, AdjSize(size))
     IN Takes(m, AllocResult(size), AdjSize(size), size)
  /\ needPack' = FALSE
  /\ UNCHANGED written

MEM_allocFails(size) ==
  /\ size # 0
  /\ AllocResult(size) = NULL
  /\ mem' = PackMem(AllocMem0, AdjSize(size))
  /\ free' = AllocFree0
  /\ needPack' = FALSE
  /\ UNCHANGED <<held, written>>

\* MEM_allocAt(addr, size): the runs are merged in address order up to the one
\* that holds the wanted block, or the first one that a used block follows and
\* that starts after it.
Wanted(rs, addr, adjsize) ==
  {r \in rs : r.start <= addr /\ 2 * r.end >= 2 * addr + adjsize}
AtMerged(m, rs, addr, adjsize) ==
  LET stops == Wanted(rs, addr, adjsize)
                 \cup {r \in rs : r.start > addr /\ m[r.end] # 0}
  IN Merged(m, {r \in rs : \A s \in stops : r.start <= s.start})

\* The split at addr of the merged run r.  When r is found inside the loop (a
\* used block follows it), the code after the loop stores the run's whole size
\* once more, at the wanted block.
AtSplit(m, r, addr) ==
  IF r.start = addr THEN m
  ELSE [m EXCEPT ![r.start] = 2 * (addr - r.start),
                 ![addr] = IF m[r.end] = 0 THEN 2 * (r.end - addr) ELSE RunBytes(r)]

MEM_allocAt(addr, size) ==
  /\ size # 0
  /\ LET adjsize == AdjSize(size)
         rs == Runs(mem)
     IN \E r \in Wanted(rs, addr, adjsize) :
          /\ SplitsInterior \/ r.start = addr \/ mem[r.end] = 0
          /\ Takes(AtSplit(AtMerged(mem, rs, addr, adjsize), r, addr), addr, adjsize, size)
  /\ UNCHANGED <<needPack, written>>

MEM_allocAtFails(addr, size) ==
  /\ size # 0
  /\ Wanted(Runs(mem), addr, AdjSize(size)) = {}
  /\ mem' = AtMerged(mem, Runs(mem), addr, AdjSize(size))
  /\ UNCHANGED <<free, needPack, held, written>>

\* The words of a block that the program may write: from the pointer it got,
\* which is the word after the header.
Payload(b) == b.h + 1 .. b.h + (b.size + 1) \div 2

MEM_free(b) ==
  /\ b \in held
  /\ mem' = [mem EXCEPT ![b.h] = Bytes(mem, b.h)]
  /\ needPack' = TRUE
  /\ held' = held \ {b}
  /\ written' = written \ Payload(b)
  /\ UNCHANGED free

MEM_pack ==
  /\ mem' = MEM_packMem(mem) /\ free' = MEM_packFree(mem) /\ needPack' = FALSE
  /\ UNCHANGED <<held, written>>

\* The program fills a block it holds.
WriteBlock(b) ==
  /\ b \in held
  /\ mem' = [w \in Words |-> IF w \in Payload(b) THEN Junk ELSE mem[w]]
  /\ written' = written \cup Payload(b)
  /\ UNCHANGED <<free, needPack, held>>

-----------------------------------------------------------------------------
Next ==
  \/ \E s \in Sizes : MEM_alloc(s)
  \/ \E s \in Sizes : MEM_allocFails(s)
  \/ \E a \in AtAddresses, s \in Sizes : MEM_allocAt(a, s)
  \/ \E a \in AtAddresses, s \in Sizes : MEM_allocAtFails(a, s)
  \/ \E b \in held : MEM_free(b)
  \/ MEM_pack
  \/ \E b \in held : WriteBlock(b)

Spec == Init /\ [][Next]_vars

-----------------------------------------------------------------------------
(* Properties *)

\* Types of the variables.
TypeOK ==
  /\ mem \in [Words -> 0 .. SizeModulus - 1]
  /\ free \in Words /\ needPack \in BOOLEAN
  /\ \A b \in held : b.h \in Words /\ b.size \in Sizes
  /\ written \subseteq Words

\* The used blocks of the chain are exactly the ones the program holds, each
\* large enough for what was asked, and the chain ends at the end mark: no
\* block is lost, handed out twice or cut short, whatever the order of
\* allocations, releases and merges.
ChainIsHeld ==
  /\ HeapEnd \in Chain(mem, 0) /\ mem[HeapEnd] = 0
  /\ {b \in Headers(mem) : Used(mem, b)} = {b.h : b \in held}
  /\ \A b \in held : Bytes(mem, b.h) >= b.size + 2

\* MEM_checkIntegrity's test: free and allocated sizes add up to the heap.
IntegrityHolds == MEM_getFree(mem) + MEM_getAllocated(mem) = 2 * HeapEnd

\* The chain of headers, which lies between the program's data, is intact.
HeapIsSound == TypeOK /\ ChainIsHeld /\ IntegrityHolds

\* No operation of the allocator writes into a block the program holds.
DataIntact == \A w \in written : mem[w] = Junk

\* The search never starts from user data: `free' is on a free block of the
\* chain, on the end mark, or on a header that a merge cleared.
FreeIsNotData == mem[free] = 0 \/ free \in FreeHeaders(mem)

\* The allocator neither writes the program's data nor reads them as a header.
DataIsSafe == DataIntact /\ FreeIsNotData

\* MEM_alloc gives up only when no run of adjacent free blocks is large enough,
\* wherever the search starts and whatever was not merged yet.
FailsOnlyWhenFull ==
  \A s \in Sizes : AllocResult(s) = NULL => AdjSize(s) > MEM_getLargestFreeBlock(mem)
=============================================================================
