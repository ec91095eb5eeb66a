------------------------------ MODULE DmaQueue ------------------------------
(***************************************************************************)
(* The DMA queue of dma.c.  During a frame the program queues transfers to *)
(* video memory; at VBlank DMA_flushQueue performs them.  A transfer may   *)
(* first copy its source into the temporary data buffer, which is handed   *)
(* out as a stack.  A capacity (maxTransferPerFrame) marks the first       *)
(* transfer that goes over it, and one of two strategies decides whether   *)
(* the flush stops there.                                                  *)
(*                                                                         *)
(* Every queueing call is an `op', numbered from 1 in each frame, and      *)
(* `accepted' remembers the ones that reported success: what the program   *)
(* believes will reach video memory.  The register encoding of a transfer  *)
(* (address, step, destination) is abstracted: an entry keeps its op, the  *)
(* bytes it counts for and, when its source is in the temporary buffer,    *)
(* the words it occupies.                                                  *)
(***************************************************************************)
EXTENDS Integers, Sequences

CONSTANTS
  QueueSizes,     \* sizes the queue can be given (after the minimum is applied)
  BufferSizes,    \* sizes of the temporary buffer, in words
  Capacities,     \* values given to DMA_setMaxTransferSize
  InitCapacities, \* values given to DMA_initEx
  Lens,           \* lengths of transfers, in words; none is empty (the VDP
                  \* takes a length of 0 for 65536)
  BankLimits,     \* words from a source to the end of its 128 KB bank
  WordModulus,    \* 2^16: the width of the size counters
  MaxOps          \* bound on the queueing calls of one frame

ASSUME DmaSizes ==
  /\ QueueSizes \subseteq Nat /\ QueueSizes # {}
  /\ BufferSizes \subseteq Nat /\ BufferSizes # {}
  /\ WordModulus \in Nat \ {0}
  /\ Capacities \subseteq 0 .. WordModulus - 1
  /\ InitCapacities \subseteq 0 .. WordModulus - 1
  /\ Lens \subseteq Nat \ {0} /\ BankLimits \subseteq Nat \ {0}
  /\ MaxOps \in Nat

Locations == {"VRAM", "CRAM", "VSRAM"}
NoLimit == WordModulus - 1    \* -1 in a u16
NoTemp == -1                  \* a source outside the temporary buffer

\* `sum' is what the entry and those before it really count for, in a counter
\* that does not wrap (history).
Entry == [op : 1 .. MaxOps, at : Int, len : Nat, cost : Nat, half : BOOLEAN, sum : Nat]

VARIABLES
  queueSize,
  maxTransferPerFrame,
  ignore,            \* flag & DMA_OVERCAPACITY_IGNORE
  autoFlush,         \* flag & DMA_AUTOFLUSH
  processDma,        \* VBlankProcess & PROCESS_DMA_TASK
  dataBufferSize,
  nextDataBuffer,    \* nextDataBuffer - dmaDataBuffer
  queue,             \* the first queueIndex entries of dmaQueues
  queueIndexLimit,
  queueTransferSize,
  userTemp,          \* regions the program holds from DMA_allocateTemp
  ops,               \* queueing calls of this frame (history)
  accepted,          \* those that reported success (history)
  changed            \* were strategy or capacity changed with transfers
                     \* in the queue? (history)

settings == <<queueSize, maxTransferPerFrame, ignore, autoFlush, processDma,
              dataBufferSize>>
content == <<nextDataBuffer, queue, queueIndexLimit, queueTransferSize, userTemp,
             ops, accepted, changed>>
dmaVars == <<settings, content>>

Cleared ==
  /\ queue = <<>> /\ queueIndexLimit = 0 /\ queueTransferSize = 0
  /\ nextDataBuffer = 0 /\ userTemp = {}
  /\ ops = 0 /\ accepted = {} /\ changed = FALSE

\* After SYS's start-up: DMA_init, then DMA_setMaxTransferSizeToDefault.
DmaInit ==
  /\ queueSize \in QueueSizes /\ dataBufferSize \in BufferSizes
  /\ maxTransferPerFrame \in Capacities \ {0}
  /\ ignore = FALSE /\ autoFlush = TRUE /\ processDma = TRUE
  /\ Cleared

-----------------------------------------------------------------------------
(* Settings *)

\* Everything queued is lost, and so are the regions of the buffer.
DMA_clearQueue ==
  /\ queue' = <<>> /\ queueIndexLimit' = 0 /\ queueTransferSize' = 0
  /\ nextDataBuffer' = 0 /\ userTemp' = {}
  /\ ops' = 0 /\ accepted' = {} /\ changed' = FALSE

DMA_initEx(size, capacity, bufferSize) ==
  /\ queueSize' = size
  /\ maxTransferPerFrame' = capacity
  /\ autoFlush' = TRUE /\ ignore' = FALSE
  /\ processDma' = TRUE
  /\ dataBufferSize' = bufferSize
  /\ DMA_clearQueue

DMA_setAutoFlushFlagOnly(value) ==
  /\ autoFlush' = value
  /\ processDma' = (processDma /\ value)
  /\ UNCHANGED <<queueSize, maxTransferPerFrame, ignore, dataBufferSize, content>>

DMA_setAutoFlush(value) ==
  /\ autoFlush' = value
  /\ processDma' = value
  /\ UNCHANGED <<queueSize, maxTransferPerFrame, ignore, dataBufferSize, content>>

DMA_setMaxQueueSize(value) ==
  /\ queueSize' = value
  /\ UNCHANGED <<maxTransferPerFrame, ignore, autoFlush, processDma, dataBufferSize>>
  /\ DMA_clearQueue

DMA_setBufferSize(value) ==
  /\ dataBufferSize' = value
  /\ UNCHANGED <<queueSize, maxTransferPerFrame, ignore, autoFlush, processDma>>
  /\ DMA_clearQueue

\* The settings that decide what the flush does with the queue.
Changes ==
  /\ changed' = (queue # <<>>)
  /\ UNCHANGED <<queueSize, autoFlush, processDma, dataBufferSize, nextDataBuffer, queue,
                 queueIndexLimit, queueTransferSize, userTemp, ops, accepted>>

DMA_setMaxTransferSize(value) ==
  /\ maxTransferPerFrame' = IF value # 0 THEN value ELSE NoLimit
  /\ Changes
  /\ UNCHANGED ignore

DMA_setIgnoreOverCapacity(value) ==
  /\ ignore' = value
  /\ Changes
  /\ UNCHANGED maxTransferPerFrame

-----------------------------------------------------------------------------
(* Queueing *)

\* Bytes that a transfer counts for; CRAM and VSRAM count half.
Cost(location, len) == IF location = "VRAM" THEN 2 * len ELSE len

\* The queue proper, as a value that a call may go through twice.
Q == [queue |-> queue, limit |-> queueIndexLimit, size |-> queueTransferSize]

\* The limit's index is that of the transfer that went over.
LimitAfterLast(q, over) ==
  IF over /\ q.limit = 0 THEN Len(q.queue) + 1 ELSE q.limit

LimitAfter(q, over) == IF over /\ q.limit = 0 THEN Len(q.queue) ELSE q.limit

\* What the first n entries of the queue really count for.
TotalCost(entries, n) == IF n = 0 THEN 0 ELSE entries[n].sum

\* The entry in its place at the end of the queue.
Placed(q, entry) == [entry EXCEPT !.sum = TotalCost(q.queue, Len(q.queue)) + entry.cost]

DMA_queueDmaFast(q, entry) ==
  IF Len(q.queue) >= queueSize
  THEN [ok |-> FALSE, q |-> q]
  ELSE LET size == (q.size + entry.cost) % WordModulus
           over == size > maxTransferPerFrame
       IN [ok |-> ~(over /\ ignore),
           q |-> [queue |-> Append(q.queue, Placed(q, entry)),
                  limit |-> LimitAfter(q, over),
                  size  |-> size]]

SetQ(q) ==
  /\ queue' = q.queue /\ queueIndexLimit' = q.limit /\ queueTransferSize' = q.size

\* The history of a queueing call that ends with `ok'.
Reports(ok) ==
  /\ ops' = ops + 1
  /\ accepted' = IF ok THEN accepted \cup {ops + 1} ELSE accepted
  /\ UNCHANGED changed

NewEntry(location, at, len, half) ==
  [op |-> ops + 1, at |-> at, len |-> len, cost |-> Cost(location, len), half |-> half,
   sum |-> 0]
HalfEntry(location, len) == NewEntry(location, NoTemp, len, TRUE)

\* The source stays where the program has it.  A source that crosses the end
\* of its 128 KB bank is queued as two transfers, the second part first.
DMA_queueDma(location, len, bankLimitW) ==
  /\ ops < MaxOps
  /\ LET tail == DMA_queueDmaFast(Q, HalfEntry(location, len - bankLimitW))
         head == DMA_queueDmaFast(tail.q, HalfEntry(location, bankLimitW))
         whole == DMA_queueDmaFast(Q, NewEntry(location, NoTemp, len, FALSE))
         result == IF len <= bankLimitW THEN whole
                   ELSE IF tail.ok THEN head ELSE tail
     IN SetQ(result.q) /\ Reports(result.ok)
  /\ UNCHANGED <<settings, nextDataBuffer, userTemp>>

FitsTemp(len) == nextDataBuffer + len <= dataBufferSize

\* DMA_copyAndQueueDma and DMA_allocateAndQueueDma: the transfer's source is
\* a region of the temporary buffer, given back when the call fails.
DMA_copyAndQueueDmaKeepsNothing(location, len) ==
  /\ ops < MaxOps /\ FitsTemp(len)
  /\ LET r == DMA_queueDmaFast(Q, NewEntry(location, nextDataBuffer, len, FALSE))
     IN SetQ(r.q) /\ Reports(r.ok)
  /\ UNCHANGED <<settings, nextDataBuffer, userTemp>>

DMA_copyAndQueueDma(location, len) ==
  /\ ops < MaxOps
  /\ IF FitsTemp(len)
     THEN LET r == DMA_queueDmaFast(Q, NewEntry(location, nextDataBuffer, len, FALSE))
          IN /\ SetQ(r.q) /\ Reports(r.ok)
             /\ nextDataBuffer' = IF r.ok THEN nextDataBuffer + len ELSE nextDataBuffer
     ELSE /\ Reports(FALSE)
          /\ UNCHANGED <<nextDataBuffer, queue, queueIndexLimit, queueTransferSize>>
  /\ UNCHANGED <<settings, userTemp>>

\* The program takes and gives back buffer space of its own, as a stack.
DMA_allocateTemp(len) ==
  /\ FitsTemp(len)
  /\ nextDataBuffer' = nextDataBuffer + len
  /\ userTemp' = userTemp \cup {[at |-> nextDataBuffer, len |-> len]}
  /\ UNCHANGED <<settings, queue, queueIndexLimit, queueTransferSize, ops, accepted, changed>>

DMA_releaseTemp(region) ==
  /\ region \in userTemp /\ region.at + region.len = nextDataBuffer
  /\ nextDataBuffer' = nextDataBuffer - region.len
  /\ userTemp' = userTemp \ {region}
  /\ UNCHANGED <<settings, queue, queueIndexLimit, queueTransferSize, ops, accepted, changed>>

-----------------------------------------------------------------------------
(* Flushing *)

\* How many entries flushQueue processes; limit 0 means "not reached".
FlushCountIgnoresFlag == IF queueIndexLimit # 0 THEN queueIndexLimit ELSE Len(queue)

FlushCount == IF queueIndexLimit # 0 /\ ignore THEN queueIndexLimit ELSE Len(queue)

DMA_flushQueue == DMA_clearQueue /\ UNCHANGED settings

\* The DMA task of SYS_doVBlankProcess.
VBlankDmaTask == processDma /\ DMA_flushQueue

-----------------------------------------------------------------------------
DmaNext ==
  \/ \E s \in QueueSizes, c \in InitCapacities, b \in BufferSizes : DMA_initEx(s, c, b)
  \/ \E v \in BOOLEAN : DMA_setAutoFlush(v)
  \/ \E v \in QueueSizes : DMA_setMaxQueueSize(v)
  \/ \E v \in BufferSizes : DMA_setBufferSize(v)
  \/ \E v \in Capacities : DMA_setMaxTransferSize(v)
  \/ \E v \in BOOLEAN : DMA_setIgnoreOverCapacity(v)
  \/ \E loc \in Locations, l \in Lens, b \in BankLimits : DMA_queueDma(loc, l, b)
  \/ \E loc \in Locations, l \in Lens : DMA_copyAndQueueDma(loc, l)
  \/ \E l \in Lens : DMA_allocateTemp(l)
  \/ \E r \in userTemp : DMA_releaseTemp(r)
  \/ DMA_clearQueue /\ UNCHANGED settings
  \/ VBlankDmaTask

DmaSpec == DmaInit /\ [][DmaNext]_dmaVars

\* VBlank comes back every frame.
DmaFairSpec == DmaSpec /\ WF_dmaVars(VBlankDmaTask)

-----------------------------------------------------------------------------
(* Properties *)

\* Types of the variables, and the two capacities: the queue never grows past
\* queueSize and the temporary buffer never past dataBufferSize.
DmaTypeOK ==
  /\ queueSize \in QueueSizes
  /\ maxTransferPerFrame \in 0 .. WordModulus - 1
  /\ ignore \in BOOLEAN /\ autoFlush \in BOOLEAN /\ processDma \in BOOLEAN
  /\ dataBufferSize \in BufferSizes
  /\ nextDataBuffer \in 0 .. dataBufferSize
  /\ queue \in Seq(Entry) /\ Len(queue) <= queueSize
  /\ queueIndexLimit \in 0 .. Len(queue)
  /\ queueTransferSize \in 0 .. WordModulus - 1
  /\ ops \in 0 .. MaxOps
  /\ accepted \subseteq 1 .. ops

\* The settings stand since the first transfer was queued, and the 16 bits of
\* queueTransferSize have not wrapped.
Steady == ~changed /\ TotalCost(queue, Len(queue)) < WordModulus

\* A queueing call that reported success is honoured by the next flush: all
\* the transfers it queued are among those that flushQueue performs.  True of
\* every frame that is steady.
AcceptedArePerformed ==
  Steady => \A o \in accepted :
              /\ \E i \in 1 .. Len(queue) : queue[i].op = o
              /\ \A i \in 1 .. Len(queue) : queue[i].op = o => i <= FlushCount

\* A call that reported failure leaves at most one of two traces in the flush
\* of a steady frame: the first transfer, when it alone is over the capacity,
\* and one half of a transfer that crosses a bank.
RefusedSlipOnlyAs ==
  Steady => \A i \in 1 .. FlushCount : queue[i].op \in accepted \/ i = 1 \/ queue[i].half

\* When over-capacity transfers are to be ignored, a flush sends no more than
\* the capacity, or one transfer.  A counter that wraps after the limit is
\* marked does no harm: only a wrap among the transfers that are sent does.
FlushFitsFrame ==
  ignore /\ ~changed /\ TotalCost(queue, FlushCount) < WordModulus
    => TotalCost(queue, FlushCount) <= maxTransferPerFrame \/ FlushCount <= 1

\* A refused call costs the accepted ones nothing: what it leaves in the queue
\* is not sent, but for the two known traces, and the flush fits the frame.
RefusedAreLeftOut == RefusedSlipOnlyAs /\ FlushFitsFrame

\* The accepted transfers that read the temporary buffer read regions that are
\* disjoint and still reserved for them, apart from the program's own: what was
\* copied is what is sent.
SourcesDisjoint ==
  LET fromTemp == {i \in 1 .. Len(queue) : queue[i].op \in accepted /\ queue[i].at # NoTemp}
      end(i) == queue[i].at + queue[i].len
  IN \A i \in fromTemp :
       /\ end(i) <= nextDataBuffer
       /\ \A j \in fromTemp : i < j => end(i) <= queue[j].at
       /\ \A t \in userTemp : end(i) <= t.at \/ t.at + t.len <= queue[i].at

\* Neither the queue nor the temporary buffer is ever overrun, and what an
\* accepted transfer is to read there stays its own.
BuffersAreSafe == DmaTypeOK /\ SourcesDisjoint

\* With auto flush on, what is queued leaves the queue at some VBlank.
QueueDrains == queue # <<>> ~> (queue = <<>> \/ ~autoFlush)
=============================================================================
