------------------------------ MODULE SaveMan -------------------------------
(***************************************************************************)
(* The flash save manager (saveman.c) over the flash chip (flash.c).       *)
(*                                                                         *)
(* Two sectors at the end of the chip hold the save files as a log: a      *)
(* save appends a blob (a header word, a length word, the data), and when  *)
(* the sector is full the current blobs move to the other one.  Flash is   *)
(* programmed word by word and only from 1 bits to 0 bits; to get 1 bits   *)
(* back a whole sector is erased.                                          *)
(*                                                                         *)
(* Every call is turned into the sequence of flash operations it performs  *)
(* (todo), which are executed one per step: the power may be cut between   *)
(* any two of them, and the RAM of the module is then lost.  The program   *)
(* makes one call at a time, so nothing else comes in between.             *)
(*                                                                         *)
(* Addresses count words.  Words 0 .. SectorLen - 1 stand for the ROM in   *)
(* front of the sectors.  A word is a record that says what was programmed *)
(* there; E is the erased word 0xFFFF.                                     *)
(***************************************************************************)
EXTENDS Integers, Sequences, FiniteSetsExt

CONSTANTS
  SectorLen,       \* words in a sector
  NumSlots,        \* num_slots given to sm_init
  Values,          \* what the program saves
  BlankFirst,      \* the values whose first word is 0xFFFF
  Lens,            \* lengths the program saves, in bytes
  CutsInCross,     \* may the power be cut while the blobs move to the new
                   \* sector and it has no part of its magic number yet?
  InitAfterClear,  \* does the program call sm_init after sm_clear?
  EraseErrSectors  \* sectors whose end address is not a multiple of 64 KB

Slots == 0 .. NumSlots - 1
Sectors == {0, 1}

\* Blob length in words: two of header and the data, aligned to two words.
blob_len(len) == 2 + 2 * ((len + 3) \div 4)

\* 0xFF is an erased slot number.  flash_copy returns the length of the blob, in
\* bytes, as a signed 16 bit number: a longer blob could not be moved.
MaxSlots == 254
MaxSaveLen == 32760

\* saveman.h asks that all the slots fit in one sector, with some room.
ASSUME SaveSizes ==
  /\ SectorLen \in Nat /\ SectorLen % 2 = 0
  /\ NumSlots \in 1 .. MaxSlots
  /\ Lens # {} /\ Lens \subseteq 0 .. MaxSaveLen
  /\ \A len \in Lens : 4 + NumSlots * blob_len(len) < SectorLen
  /\ BlankFirst \subseteq Values
  /\ CutsInCross \in BOOLEAN /\ InitAfterClear \in BOOLEAN
  /\ EraseErrSectors \subseteq Sectors

-----------------------------------------------------------------------------
(* Flash words *)

E == [t |-> "erased"]
Rom == [t |-> "rom"]
Magic(half) == [t |-> "magic", half |-> half]
SlotsWord == [t |-> "slots", n |-> NumSlots]
LenWord(len) == [t |-> "len", len |-> len]

\* A header with the done flag; as in flash, the flags are negated: 1 is "not
\* invalid" and "not cleared".
Hdr(slot, invalid, cleared) ==
  [t |-> "hdr", slot |-> slot, invalid |-> invalid, cleared |-> cleared]

DataWord(v, i) ==
  IF i = 1 /\ v \in BlankFirst THEN E ELSE [t |-> "data", value |-> v, i |-> i]

\* The words of a file, the last one of an odd length by its first byte.
FileOf(v, len) == [i \in 1 .. (len + 1) \div 2 |-> DataWord(v, i)]
Files == {FileOf(v, len) : v \in Values, len \in Lens}
NoFile == <<[t |-> "none"]>>

Base(s) == (s + 1) * SectorLen
Limit(s) == Base(s) + SectorLen
SectorWords(s) == Base(s) .. Limit(s) - 1
Addresses == 0 .. Limit(1) - 1

\* save_data_off: the sector header, aligned.
DataStart(s) == Base(s) + 4

VARIABLES
  flash,  \* [Addresses -> words]
  todo,   \* flash operations the call under way has still to do
  call,   \* the call under way
  ram,    \* sm: the sector in use, last_addr and blob_addr
  result, \* ram and status at the end of the call under way
  up,     \* is the module initialised, without an error since?
  hung    \* data_poll waits for a value the word cannot take

vars == <<flash, todo, call, ram, result, up, hung>>

NoCall == [kind |-> "none"]
NoRam == [cur |-> 0, last |-> 0, blob |-> [s \in Slots |-> 0]]
NoResult == [ram |-> NoRam, stat |-> "SM_STAT_OK"]

\* A chip that was never used, before sm_init.
Init ==
  /\ flash = [a \in Addresses |-> IF a < SectorLen THEN Rom ELSE E]
  /\ todo = <<>> /\ call = NoCall
  /\ ram = NoRam /\ result = NoResult /\ up = FALSE /\ hung = FALSE

-----------------------------------------------------------------------------
(* Flash operations *)

Prog(a, w) == [kind |-> "program", addr |-> a, word |-> w]
Erase(s) == [kind |-> "erase", sector |-> s]

\* Programming clears bits and sets none.
Takes(old, new) ==
  \/ old = E \/ old = new
  \/ /\ old.t = "hdr" /\ new.t = "hdr"
     /\ new.slot \in {0, old.slot}
     /\ new.invalid <= old.invalid /\ new.cleared <= old.cleared

\* word_program and sect_erase, each up to the end of its data_poll.
FlashStep ==
  /\ todo # <<>> /\ ~hung
  /\ LET o == Head(todo) IN
       \/ /\ o.kind = "erase"
          /\ flash' = [a \in Addresses |-> IF a \in SectorWords(o.sector) THEN E ELSE flash[a]]
          /\ todo' = Tail(todo) /\ UNCHANGED hung
       \/ /\ o.kind = "program" /\ Takes(flash[o.addr], o.word)
          /\ flash' = [flash EXCEPT ![o.addr] = o.word]
          /\ todo' = Tail(todo) /\ UNCHANGED hung
       \/ /\ o.kind = "program" /\ ~Takes(flash[o.addr], o.word)
          /\ hung' = TRUE /\ UNCHANGED <<flash, todo>>
  /\ UNCHANGED <<call, ram, result, up>>

-----------------------------------------------------------------------------
(* Reading a sector *)

HasMagic(f, s) == f[Base(s)] = Magic(1) /\ f[Base(s) + 1] = Magic(2)
NoMagic(f, s) == f[Base(s)] = E /\ f[Base(s) + 1] = E

\* The sector that savedata_probe takes; -1 when there is none.
ProbedSector(f) == IF HasMagic(f, 0) THEN 0 ELSE IF HasMagic(f, 1) THEN 1 ELSE -1

\* The walk ends at a blob that is erased or not done.
blob_checks(f, a) == f[a].t # "hdr" \/ f[a + 1].t # "len"

\* Blobs are aligned to two words.
Aligned == {a \in Nat : a % 2 = 0}

\* The blobs that slot_pos_update walks over, and where it stops.
Walk(f, s) ==
  LET from[a \in Aligned] ==
        IF a >= Limit(s) \/ blob_checks(f, a) THEN {}
        ELSE {a} \cup from[a + blob_len(f[a + 1].len)]
  IN from[DataStart(s)]

WalkEnd(f, s) ==
  LET w == Walk(f, s)
  IN IF w = {} THEN DataStart(s) ELSE Max(w) + blob_len(f[Max(w) + 1].len)

\* The blob of each slot: the last one not invalid, unless it is cleared.
BlobAddrs(f, s) ==
  LET valid == {a \in Walk(f, s) : f[a].invalid = 1}
      blobs(slot) == {a \in valid : f[a].slot = slot}
  IN [slot \in Slots |->
        IF blobs(slot) = {} \/ f[Max(blobs(slot))].cleared = 0 THEN 0
        ELSE Max(blobs(slot))]

\* What sm_load returns for a slot: nothing, or the data after its blob's
\* header.  An erased length reads as 0xFFFF.
FileAt(f, a) ==
  IF a = 0 THEN NoFile
  ELSE IF f[a + 1].t # "len" THEN <<[t |-> "junk"]>>
  ELSE [i \in 1 .. (f[a + 1].len + 1) \div 2 |-> f[a + 1 + i]]

\* Address after the last word programmed, plus one word; 0 when all is erased.
erase_check(f, a, limit) ==
  LET dirty == {x \in a .. limit - 1 : f[x] # E}
  IN IF dirty = {} THEN 0 ELSE Max(dirty) + 2

-----------------------------------------------------------------------------
(* sm_init *)

\* invalid_mark's header keeps the cleared flag.
InvalidHdr(w) == Hdr(0, 0, IF w = E THEN 1 ELSE w.cleared)

\* The length, in bytes, that makes the blob at a end at `clean', aligned.
skip_write(a, clean) == 4 * ((clean + 1) \div 2) - 2 * (a + 2)

\* recovery(): what a power cut left at address a, up to `clear', is skipped.
recovery(f, a, clear) ==
  LET mark == Prog(a, InvalidHdr(f[a]))
      found == f[a + 1].len
      skip == skip_write(a, clear)
  IN IF f[a + 1].t = "len"
     THEN IF clear <= a + blob_len(found)
          THEN [ops |-> <<mark>>, last |-> a + blob_len(found)]
          ELSE [ops |-> <<>>, last |-> 0]
     ELSE [ops |-> <<Prog(a + 1, LenWord(skip)), mark>>, last |-> a + blob_len(skip)]

\* slot_pos_update on the sector in use.
SlotPos(f, s) ==
  LET a == WalkEnd(f, s)
      clear == erase_check(f, a, Limit(s))
      r == IF clear = 0 THEN [ops |-> <<>>, last |-> a] ELSE recovery(f, a, clear)
      sm == [cur |-> s, last |-> r.last, blob |-> BlobAddrs(f, s)]
  IN IF a >= Limit(s)
     THEN [ops |-> <<>>, ram |-> [sm EXCEPT !.last = DataStart(s)], stat |-> "SM_STAT_ERR"]
     ELSE [ops |-> r.ops, ram |-> sm, stat |-> "SM_STAT_OK"]

\* sector_init writes the number of slots first and the magic number last.
ClearOps ==
  <<Erase(0), Erase(1), Prog(Base(0) + 2, SlotsWord),
    Prog(Base(0), Magic(1)), Prog(Base(0) + 1, Magic(2))>>

\* The other sector is erased when it holds part of a magic number.
ProbeErasesNever(f, s) == <<>>
ProbeErases(f, s) == IF NoMagic(f, 1 - s) THEN <<>> ELSE <<Erase(1 - s)>>

\* savedata_probe.  safe_sect_erase keeps the low 16 bits of the end address
\* that flash_sector_erase returns, and takes them for an error.
savedata_probe(f) ==
  LET s == ProbedSector(f)
      erases == ProbeErases(f, s)
      pos == SlotPos(f, s)
  IN IF s = -1
     THEN [ops |-> ClearOps, ram |-> [NoRam EXCEPT !.last = DataStart(0)],
           stat |-> "SM_STAT_OK"]
     ELSE IF erases # <<>> /\ 1 - s \in EraseErrSectors
     THEN [ops |-> erases, ram |-> [NoRam EXCEPT !.cur = s], stat |-> "SM_STAT_HW_ERR"]
     ELSE [pos EXCEPT !.ops = erases \o pos.ops]

\* A call begins: its flash operations and its outcome follow from the state.
Begins(c, r) ==
  /\ call = NoCall
  /\ call' = c
  /\ todo' = r.ops /\ result' = [ram |-> r.ram, stat |-> r.stat]
  /\ UNCHANGED <<flash, hung>>

sm_init ==
  /\ Begins([kind |-> "init"], savedata_probe(flash))
  /\ up' = FALSE
  /\ UNCHANGED ram

\* No memory for sm, or no flash chip answers.
sm_initFails ==
  /\ call = NoCall
  /\ ram' = NoRam /\ up' = FALSE
  /\ UNCHANGED <<flash, todo, call, result, hung>>

sm_deinit ==
  /\ call = NoCall /\ up
  /\ ram' = NoRam /\ up' = FALSE
  /\ UNCHANGED <<flash, todo, call, result, hung>>

-----------------------------------------------------------------------------
(* sm_save, sm_delete, sm_clear *)

\* blob_save: the data, then the length, then the header with the done flag.
\* flash_program writes whole words: half of an odd length's last one is lost.
BlobOpsHeaderFirst(a, slot, v, len) ==
  <<Prog(a, Hdr(slot, 1, 1)), Prog(a + 1, LenWord(len))>>
    \o [i \in 1 .. len \div 2 |-> Prog(a + 1 + i, DataWord(v, i))]

BlobOps(a, slot, v, len) ==
  [i \in 1 .. len \div 2 |-> Prog(a + 1 + i, DataWord(v, i))]
    \o <<Prog(a + 1, LenWord(len)), Prog(a, Hdr(slot, 1, 1))>>

\* blob_copy of n words.
CopyOps(dst, src, n) == [i \in 1 .. n |-> Prog(dst + i - 1, flash[src + i - 1])]

CopiedBlobStays(blob, k, addr) == blob
CopiedBlob(blob, k, addr) == [blob EXCEPT ![k] = addr]

\* sector_cross_begin: the blobs of the other slots, one after the other.
Copies(slot) ==
  LET upTo[k \in 0 .. NumSlots] ==
        IF k = 0
        THEN [addr |-> DataStart(1 - ram.cur), ops |-> <<>>, blob |-> ram.blob]
        ELSE LET p == upTo[k - 1]
                 src == ram.blob[k - 1]
                 n == blob_len(flash[src + 1].len)
             IN IF k - 1 = slot \/ src = 0 THEN p
                ELSE [addr |-> p.addr + n,
                      ops  |-> p.ops \o CopyOps(p.addr, src, n),
                      blob |-> CopiedBlob(p.blob, k - 1, p.addr)]
  IN upTo[NumSlots]

\* sector_cross: the new sector counts once its magic number is complete, and
\* the old one is erased last.  sector_cross_end takes the low 16 bits of the
\* erased sector's end address for an error.
sector_cross(slot, v, len) ==
  LET ns == 1 - ram.cur
      c == Copies(slot)
      failed == ram.cur \in EraseErrSectors
  IN [ops |-> c.ops \o <<Prog(Base(ns) + 2, SlotsWord)>>
                \o BlobOps(c.addr, slot, v, len)
                \o <<Prog(Base(ns), Magic(1)), Prog(Base(ns) + 1, Magic(2)), Erase(ram.cur)>>,
      ram |-> [cur |-> IF failed THEN ram.cur ELSE ns, last |-> c.addr + blob_len(len),
               blob |-> [c.blob EXCEPT ![slot] = c.addr]],
      stat |-> IF failed THEN "SM_STAT_HW_ERR" ELSE "SM_STAT_OK"]

Appends(slot, v, len) ==
  [ops |-> BlobOps(ram.last, slot, v, len),
   ram |-> [ram EXCEPT !.last = ram.last + blob_len(len), !.blob[slot] = ram.last],
   stat |-> "SM_STAT_OK"]

Crosses(len) == ram.last + blob_len(len) >= Limit(ram.cur)

sm_save(slot, v, len) ==
  /\ up
  /\ Begins([kind |-> "save", slot |-> slot, file |-> FileOf(v, len)],
            IF Crosses(len) THEN sector_cross(slot, v, len) ELSE Appends(slot, v, len))
  /\ UNCHANGED <<ram, up>>

\* The cleared flag of the slot's blob; an empty slot is left as it is.
sm_delete(slot) ==
  /\ up
  /\ LET a == ram.blob[slot]
         clears == Prog(a, [flash[a] EXCEPT !.cleared = 0])
     IN Begins([kind |-> "delete", slot |-> slot],
               [ops |-> IF a = 0 THEN <<>> ELSE <<clears>>,
                ram |-> [ram EXCEPT !.blob[slot] = 0],
                stat |-> "SM_STAT_OK"])
  /\ UNCHANGED <<ram, up>>

\* Of the module's RAM only cur_sect is set.  A program that calls sm_init
\* next does no other call in between.
sm_clear ==
  /\ up
  /\ Begins([kind |-> "clear"],
            [ops |-> ClearOps, ram |-> [ram EXCEPT !.cur = 0], stat |-> "SM_STAT_OK"])
  /\ UNCHANGED <<ram, up>>

-----------------------------------------------------------------------------
(* Returns and power cuts *)

Returns ==
  /\ call # NoCall /\ todo = <<>> /\ ~hung
  /\ call' = NoCall
  /\ ram' = result.ram /\ result' = [result EXCEPT !.ram = NoRam]
  /\ up' = (result.stat = "SM_STAT_OK" /\ ~(call.kind = "clear" /\ InitAfterClear))
  /\ UNCHANGED <<flash, todo, hung>>

\* Blobs are in the sector not in use, which has no magic number.
MovingBlobs ==
  LET s == ProbedSector(flash)
  IN s # -1 /\ NoMagic(flash, 1 - s) /\ \E a \in SectorWords(1 - s) : flash[a] # E

PowerCut ==
  /\ CutsInCross \/ ~MovingBlobs
  /\ todo' = <<>> /\ call' = NoCall
  /\ ram' = NoRam /\ result' = NoResult /\ up' = FALSE /\ hung' = FALSE
  /\ UNCHANGED flash

Next ==
  \/ sm_init
  \/ sm_initFails
  \/ sm_deinit
  \/ \E slot \in Slots, v \in Values, len \in Lens : sm_save(slot, v, len)
  \/ \E slot \in Slots : sm_delete(slot)
  \/ sm_clear
  \/ FlashStep
  \/ Returns
  \/ PowerCut

Spec == Init /\ [][Next]_vars

-----------------------------------------------------------------------------
(* Properties *)

\* Types of the variables.
TypeOK ==
  /\ DOMAIN flash = Addresses
  /\ todo # <<>> => call # NoCall
  /\ ram.cur \in Sectors /\ ram.last \in 0 .. Limit(1)
  /\ \A s \in Slots : ram.blob[s] \in Addresses
  /\ result.stat \in {"SM_STAT_OK", "SM_STAT_ERR", "SM_STAT_HW_ERR"}
  /\ up \in BOOLEAN /\ hung \in BOOLEAN

Idle == up /\ call = NoCall

\* What a restart would find in each slot.
Stored ==
  LET s == ProbedSector(flash)
      blob == BlobAddrs(flash, s)
  IN [slot \in Slots |-> IF s = -1 THEN NoFile ELSE FileAt(flash, blob[slot])]

Abstract == INSTANCE SlotStore
              WITH store <- Stored,
                   op <- IF call.kind = "init" THEN NoCall ELSE call

\* The save manager implements SlotStore: whatever the point at which the power
\* is cut, in a save, a move to the other sector, a delete, a clear or the
\* recovery itself, a restart finds every file as the calls that returned left
\* it, and the call under way done completely or not at all.
ImplementsSlotStore == Abstract!Spec

\* Between calls sm_load returns for every slot what a restart would find: the
\* addresses in RAM and the log in flash agree.
LoadsStored == Idle => [slot \in Slots |-> FileAt(flash, ram.blob[slot])] = Stored

\* No word is programmed that cannot take its value, in the sectors or in the
\* ROM: data_poll would never end, with interrupts disabled.
NeverHangs == ~hung

\* After sm_init and after every call, all that a later save will program is
\* erased: the rest of the sector in use and the whole other sector.
AppendsToErased ==
  Idle => /\ ram.last \in DataStart(ram.cur) .. Limit(ram.cur) - 1
          /\ \A a \in ram.last .. Limit(ram.cur) - 1 : flash[a] = E
          /\ \A a \in SectorWords(1 - ram.cur) : flash[a] = E

\* Neither sm_init nor sm_save ever returns an error: no legal sequence of calls
\* and power cuts makes the log unreadable or a sector impossible to change.
NoErrors == call = NoCall => result.stat = "SM_STAT_OK"

\* The log can always be continued: every program operation succeeds, the room
\* ahead of it is erased and no call finds it broken.
LogIsSound == TypeOK /\ NeverHangs /\ AppendsToErased /\ NoErrors
=============================================================================
