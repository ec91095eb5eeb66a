----------------------------- MODULE WifiProofs -----------------------------
(***************************************************************************)
(* Proofs about Wifi for every number of calls, lost bytes and timeouts,   *)
(* and all lengths of frames and buffers.                                  *)
(***************************************************************************)
EXTENDS Wifi, FiniteSetTheorems, SequenceTheorems, TLAPS

Channels == {MW_CTRL_CH, DataCh}
Nibble == 0 .. 15
Length == 0 .. MaxLen

-----------------------------------------------------------------------------
(* Types *)

RxStats == {"IDLE", "STX", "CH_LENH", "LEN", "DATA", "PARTIAL", "ETX"}
TxStats == {"IDLE", "STX", "CH_LENH", "LEN", "DATA", "ETX"}

RxState ==
  [stat : RxStats, ch : Nibble, frame_len : Length, pos : Length, max : Length,
   buf : {"cmd", "in"}, call : Nat, off : Nat, torn : BOOLEAN]

TxState ==
  [stat : TxStats, ch : Channels, total : Length, pos : Length,
   buf : {"cmd", "data"}, base : Nat, cb : BOOLEAN]

CallState ==
  [pc : {"run", "pend"}, op : {"none", "command", "recv", "send"}, kind : Kinds,
   id : 0 .. MaxCalls, len : Length, sent : Nat, clean : BOOLEAN]

Metadata == [set : BOOLEAN, ch : Nibble, len : Length]

\* The frame being received has a buffer, and is not longer than what is left
\* of it when it is said to be.
RxFits(r) ==
  /\ r.stat # "IDLE" => r.max > 0
  /\ r.stat = "LEN" => r.frame_len <= 3840
  /\ r.stat = "DATA" => r.pos < r.frame_len
  /\ r.stat = "DATA" /\ ~r.torn => r.pos < r.max
  /\ r.stat = "PARTIAL" => r.frame_len > 0

\* The frame being sent: a command of two bytes, or a chunk of data whose end
\* calls back.  n bytes of it are out.
TxFits(t, m, n) ==
  t.stat # "IDLE" =>
    /\ t.total > 0
    /\ t.ch = MW_CTRL_CH => t.buf = "cmd" /\ t.total = 2 /\ Len(m["cmd"]) >= 2 /\ ~t.cb
    /\ t.ch = DataCh => t.buf = "data" /\ t.cb
    /\ t.stat \in {"STX", "CH_LENH", "LEN"} => t.pos = 0
    /\ t.stat = "STX" => n = 0
    /\ t.stat = "CH_LENH" => n = 1
    /\ t.stat = "LEN" => n = 2
    /\ t.stat = "DATA" => t.pos < t.total /\ n = 3 + t.pos
    /\ t.stat = "ETX" => t.pos = t.total /\ n = 3 + t.pos

RxOK == rx \in RxState /\ RxFits(rx)

TxOK ==
  /\ tx \in TxState /\ TxFits(tx, mem, Len(up))
  /\ up \in Seq(Byte) /\ given \in [ch : Channels, data : Seq(Byte)]
  /\ tx.stat # "IDLE" => given.ch = tx.ch /\ Len(given.data) = tx.total
  /\ Len(given.data) \in Length

CallOK ==
  /\ sup \in CallState /\ md \in Metadata /\ user \in {"run", "clear", "trap"}
  /\ sup.op = "send" => sup.sent < sup.len
  /\ owed \in Nat /\ owed <= sup.id
  /\ MW_CTRL_CH \in ch_enable /\ ch_enable \subseteq Channels

PeerOK ==
  /\ line \in Seq(Byte) /\ faults \in Nat
  /\ requests \in Seq(Seq(Byte)) /\ \A i \in 1 .. Len(requests) : Len(requests[i]) = 2

MemOK == mem \in [{"cmd", "in"} -> Seq(Byte)] /\ clobbered \in BOOLEAN /\ refused \in BOOLEAN

TypeInv == RxOK /\ TxOK /\ CallOK /\ PeerOK /\ MemOK

LEMMA ByteRange == \A x : x \in Byte <=> x \in Nat /\ x <= 255
<1> DEFINE m == 255
<1>1. m \in Nat /\ Byte = 0 .. m
  BY DEF Byte
<1> HIDE DEF m
<1>2. \A x : x \in Byte <=> x \in Nat /\ x <= m
  BY <1>1
<1> QED
  BY <1>2 DEF m

LEMMA NibbleRange == \A x : x \in Nibble <=> x \in Nat /\ x <= 15
BY DEF Nibble

LEMMA LengthRange == MaxLen \in Nat /\ \A x : x \in Length <=> x \in Nat /\ x <= MaxLen
<1>1. MaxLen \in Nat
  BY DEF MaxLen
<1> QED
  BY <1>1 DEF Length

\* The calls and the lengths.
LEMMA Constants ==
  /\ MaxCalls \in Nat /\ BufLen \in Nat /\ BufLen > 0
  /\ CmdLen \in Length /\ CmdLen >= 2
  /\ \A n \in DataLens : n \in Length /\ n > 0
  /\ \A n \in RecvLens : n \in Length /\ n > 0
  /\ \A n \in SendLens : n \in Length /\ n > 0
<1>1. DataLens \subseteq 1 .. MaxLen /\ RecvLens \subseteq 1 .. MaxLen /\ SendLens \subseteq 1 .. MaxLen
  BY WifiAssumption
<1>2. \A n \in 1 .. MaxLen : n \in Length /\ n > 0
  BY LengthRange
<1>3. CmdLen \in Length /\ CmdLen >= 2
  BY WifiAssumption, LengthRange
<1> QED
  BY <1>1, <1>2, <1>3, WifiAssumption

\* The bytes.
LEMMA Bytes ==
  /\ \A i \in Nat : DataByte(i) \in Byte /\ SendByte(i) \in Byte
  /\ STX_ETX \in Byte /\ MW_CMD_OK \in Byte /\ MW_CMD_ERROR \in Byte /\ Junk \in Byte
  /\ \A k \in Kinds : Codes[k] \in Byte
<1>1. \A i \in Nat : i % 256 \in Byte /\ (20 + i) % 256 \in Byte
  BY ByteRange
<1>2. \A i \in Nat : DataByte(i) \in Byte
  BY <1>1, ByteRange DEF DataByte, MW_CMD_OK, STX_ETX
<1>3. \A k \in Kinds : Codes[k] \in Byte
  BY ByteRange DEF Codes, Kinds
<1>4. 0 \in Byte /\ 1 \in Byte /\ 126 \in Byte /\ 255 \in Byte
  BY ByteRange
<1> QED
  BY <1>1, <1>2, <1>3, <1>4 DEF SendByte, STX_ETX, MW_CMD_OK, MW_CMD_ERROR, Junk

\* Bytes of a frame's header.
LEMMA HeaderBytes ==
  ASSUME NEW n \in Length, NEW c \in Channels
  PROVE  /\ n \div 256 \in Nibble /\ n % 256 \in Byte /\ c * 16 + n \div 256 \in Byte
         /\ (n \div 256) * 256 + (n % 256) = n
         /\ (c * 16 + n \div 256) \div 16 = c /\ (c * 16 + n \div 256) % 16 = n \div 256
<1>1. n \in Nat /\ n <= 4095
  BY LengthRange DEF MaxLen
<1> DEFINE h == n \div 256
<1>2. h \in Nat /\ h <= 15 /\ h * 256 + (n % 256) = n /\ n % 256 \in Nat /\ n % 256 <= 255
  <2>1. n % 256 \in Nat /\ n % 256 <= 255
    BY <1>1
  <2>2. h \in Nat /\ h <= 15
    BY <1>1
  <2>3. h * 256 + (n % 256) = n
    BY <1>1
  <2> QED
    BY <2>1, <2>2, <2>3
<1>3. c \in {0, 1}
  BY DEF Channels, MW_CTRL_CH, DataCh
<1> HIDE DEF h
<1>4. c * 16 + h \in Nat /\ c * 16 + h <= 255
  BY <1>2, <1>3
<1>5. CASE c = 0
  <2>1. h \div 16 = 0 /\ h % 16 = h /\ c * 16 + h = h
    BY <1>2, <1>5
  <2> QED
    BY <1>2, <1>4, <1>5, <2>1, ByteRange, NibbleRange DEF h
<1>6. CASE c = 1
  <2>1. (16 + h) \div 16 = 1 /\ (16 + h) % 16 = h
    BY <1>2
  <2>2. c * 16 + h = 16 + h
    BY <1>2, <1>6
  <2> QED
    BY <1>2, <1>4, <1>6, <2>1, <2>2, ByteRange, NibbleRange DEF h
<1> QED
  BY <1>3, <1>5, <1>6

\* What is read from it.
LEMMA ChannelByte ==
  ASSUME NEW b \in Byte
  PROVE  b \in Nat /\ b <= 255 /\ b \div 16 \in Nibble /\ (b % 16) * 256 \in Length /\ (b % 16) * 256 <= 3840
<1>1. b \in Nat /\ b <= 255
  BY ByteRange
<1>2. b \div 16 \in Nat /\ b \div 16 <= 15 /\ b % 16 \in Nat /\ b % 16 <= 15
  BY <1>1
<1> DEFINE m == b % 16
<1> HIDE DEF m
<1>3. m \in Nat /\ m <= 15 => m * 256 \in Nat /\ m * 256 <= 3840
  OBVIOUS
<1> QED
  BY <1>1, <1>2, <1>3, NibbleRange, LengthRange DEF m, MaxLen

-----------------------------------------------------------------------------
(* Receiving *)

LEMMA ReceivedTypes ==
  ASSUME NEW r \in RxState, RxFits(r), r.stat \in Receiving, NEW b \in Byte
  PROVE  /\ Received(r, b) \in RxState /\ RxFits(Received(r, b))
         /\ Received(r, b).buf = r.buf /\ Received(r, b).call = r.call
         /\ Received(r, b).max = r.max
<1> DEFINE q == Received(r, b)
<1>0. /\ b \in Nat /\ b <= 255 /\ b \div 16 \in Nibble /\ (b % 16) * 256 \in Length
      /\ (b % 16) * 256 <= 3840
  BY ChannelByte
<1>1. CASE r.stat = "STX"
  <2>1. q = [r EXCEPT !.stat = IF b = STX_ETX THEN "CH_LENH" ELSE @]
    BY <1>1 DEF Received
  <2> HIDE DEF q
  <2>2. q \in RxState /\ q.stat \in {"STX", "CH_LENH"} /\ q.max = r.max /\ q.buf = r.buf /\ q.call = r.call
    BY <1>1, <2>1 DEF RxState, RxStats
  <2> QED
    BY <1>1, <2>2 DEF RxFits, q
<1>2. CASE r.stat = "CH_LENH"
  <2>1. CASE b = STX_ETX
    BY <1>2, <2>1 DEF Received, ChannelReceived
  <2>2. CASE b # STX_ETX
    <3> DEFINE c == b \div 16
               l == (b % 16) * 256
               s == IF c \in ch_enable THEN "LEN" ELSE "IDLE"
    <3>0. l <= 3840 /\ s \in {"LEN", "IDLE"}
      BY <1>0
    <3>1. c \in Nibble /\ l \in Length /\ s \in RxStats
      BY <1>0 DEF RxStats
    <3>2. q = [r EXCEPT !.ch = c, !.frame_len = l, !.stat = s]
      BY <1>2, <2>2 DEF Received, ChannelReceived
    <3> HIDE DEF c, l, s, q
    <3>3. q \in RxState
      BY <3>1, <3>2 DEF RxState
    <3>4. q.stat = s /\ q.frame_len = l /\ q.max = r.max /\ q.buf = r.buf /\ q.call = r.call
      BY <3>1, <3>2 DEF RxState
    <3> QED
      BY <1>2, <3>0, <3>3, <3>4 DEF RxFits, q
  <2> QED
    BY <2>1, <2>2
<1>3. CASE r.stat = "LEN"
  <2> DEFINE l == r.frame_len + b
             s == IF l > 0 THEN "DATA" ELSE "ETX"
  <2>1. q = [r EXCEPT !.frame_len = l, !.pos = 0, !.off = 0, !.torn = FALSE, !.stat = s]
    BY <1>3 DEF Received
  <2>2. l \in Length /\ l \in Nat /\ s \in RxStats /\ (s = "DATA" => l > 0) /\ s \in {"DATA", "ETX"} /\ 0 \in Length
    BY <1>0, <1>3, LengthRange DEF RxFits, RxState, RxStats, MaxLen
  <2> HIDE DEF q, l, s
  <2>3. /\ q \in RxState /\ q.stat = s /\ q.frame_len = l /\ q.max = r.max /\ q.buf = r.buf
        /\ q.call = r.call /\ q.pos = 0
    BY <2>1, <2>2 DEF RxState
  <2> QED
    BY <1>3, <2>2, <2>3 DEF RxFits, q
<1>4. CASE r.stat = "DATA"
  <2>1. q = RecvAdded(r)
    BY <1>4 DEF Received
  <2> HIDE DEF q
  <2> DEFINE p == r.pos + 1
  <2>2. /\ r.pos \in Nat /\ r.frame_len \in Length /\ r.frame_len \in Nat /\ r.max \in Nat
        /\ r.pos < r.frame_len /\ p \in Length /\ p \in Nat
    BY <1>4, LengthRange DEF RxFits, RxState
  <2>3. CASE p >= r.frame_len
    <3>1. q = [r EXCEPT !.pos = p, !.stat = "ETX"]
      BY <2>1, <2>2, <2>3 DEF RecvAdded
    <3> HIDE DEF p
    <3>2. /\ q \in RxState /\ q.stat = "ETX" /\ q.max = r.max /\ q.buf = r.buf /\ q.call = r.call
      BY <2>2, <3>1 DEF RxState, RxStats
    <3> QED
      BY <1>4, <3>2 DEF RxFits, q
  <2>4. CASE p < r.frame_len /\ p >= r.max
    <3> DEFINE l == r.frame_len - p
    <3>1. q = [r EXCEPT !.pos = p, !.stat = "PARTIAL", !.frame_len = l]
      BY <2>1, <2>2, <2>4 DEF RecvAdded
    <3>2. l \in Length /\ l > 0
      BY <2>2, <2>4, LengthRange
    <3> HIDE DEF p, l
    <3>3. /\ q \in RxState /\ q.stat = "PARTIAL" /\ q.max = r.max /\ q.buf = r.buf /\ q.call = r.call
          /\ q.frame_len = l
      BY <2>2, <3>1, <3>2 DEF RxState, RxStats
    <3> QED
      BY <1>4, <3>2, <3>3 DEF RxFits, q
  <2>5. CASE p < r.frame_len /\ p < r.max
    <3>1. q = [r EXCEPT !.pos = p]
      BY <2>1, <2>2, <2>5 DEF RecvAdded
    <3> HIDE DEF p
    <3>3. /\ q \in RxState /\ q.stat = "DATA" /\ q.max = r.max /\ q.buf = r.buf /\ q.call = r.call
          /\ q.frame_len = r.frame_len /\ q.pos = p
      BY <1>4, <2>2, <3>1 DEF RxState, RxStats
    <3> QED
      BY <1>4, <2>2, <2>5, <3>3 DEF RxFits, q
  <2> QED
    BY <2>2, <2>3, <2>4, <2>5
<1>5. CASE r.stat = "ETX"
  <2>1. q = [r EXCEPT !.stat = "IDLE"]
    BY <1>5 DEF Received
  <2> HIDE DEF q
  <2>2. q \in RxState /\ q.stat = "IDLE" /\ q.max = r.max /\ q.buf = r.buf /\ q.call = r.call
    BY <2>1 DEF RxState, RxStats
  <2> QED
    BY <2>2 DEF RxFits, q
<1> QED
  BY <1>1, <1>2, <1>3, <1>4, <1>5 DEF Receiving

\* lsd_recv.
LEMMA RecvTypes ==
  ASSUME TypeInv, NEW buf \in {"cmd", "in"}, NEW max \in Length, max > 0, NEW n \in Nat
  PROVE  lsd_recv(buf, max, n) \in RxState /\ RxFits(lsd_recv(buf, max, n))
<1> DEFINE q == lsd_recv(buf, max, n)
           s == IF rx.stat = "IDLE" THEN "STX" ELSE IF rx.stat = "PARTIAL" THEN "DATA" ELSE rx.stat
           o == IF rx.stat = "PARTIAL" THEN rx.off + rx.pos ELSE rx.off
           t == rx.torn \/ rx.stat = "ETX" \/ (rx.stat = "DATA" /\ rx.pos > 0)
           p == IF rx.stat = "PARTIAL" THEN 0 ELSE rx.pos
<1>1. q = [rx EXCEPT !.stat = s, !.pos = p, !.off = o, !.torn = t, !.buf = buf, !.max = max, !.call = n]
  BY DEF lsd_recv, RecvPos
<1>2. rx \in RxState /\ RxFits(rx)
  BY DEF TypeInv, RxOK
<1>3. /\ rx.stat \in RxStats /\ rx.off \in Nat /\ rx.pos \in Length /\ rx.pos \in Nat
      /\ rx.torn \in BOOLEAN /\ rx.max \in Nat /\ rx.frame_len \in Nat
  BY <1>2, LengthRange DEF RxState
<1>4. p \in Length /\ o \in Nat /\ t \in BOOLEAN /\ s \in RxStats
  BY <1>3, LengthRange DEF RxStats
<1>5. /\ s = "LEN" => rx.stat = "LEN"
      /\ s = "DATA" => rx.stat \in {"DATA", "PARTIAL"}
      /\ s # "PARTIAL"
  BY <1>3 DEF RxStats
<1>6. s = "DATA" => p < rx.frame_len /\ (~t => p = 0)
  BY <1>2, <1>3, <1>5 DEF RxFits
<1> HIDE DEF q, s, o, t, p
<1>7. q \in RxState /\ q.stat = s /\ q.pos = p /\ q.torn = t /\ q.max = max /\ q.frame_len = rx.frame_len
  BY <1>1, <1>2, <1>4 DEF RxState
<1>8. RxFits(q)
  BY <1>2, <1>3, <1>5, <1>6, <1>7 DEF RxFits
<1> QED
  BY <1>7, <1>8 DEF q

-----------------------------------------------------------------------------
(* Frames and buffers *)

LEMMA Concat ==
  ASSUME NEW s \in Seq(Byte), NEW t \in Seq(Byte)
  PROVE  /\ s \o t \in Seq(Byte) /\ Len(s \o t) = Len(s) + Len(t)
         /\ \A i \in 1 .. Len(s) + Len(t) : (s \o t)[i] = IF i <= Len(s) THEN s[i] ELSE t[i - Len(s)]
OBVIOUS

LEMMA FrameShape ==
  ASSUME NEW ch \in Channels, NEW data \in Seq(Byte), Len(data) \in Length
  PROVE  LET F == Frame(ch, data) IN
         /\ F \in Seq(Byte) /\ Len(F) = Len(data) + 4
         /\ F[1] = STX_ETX /\ F[2] = ch * 16 + (Len(data) \div 256) /\ F[3] = Len(data) % 256
         /\ \A i \in 1 .. Len(data) : F[i + 3] = data[i]
         /\ F[Len(data) + 4] = STX_ETX
<1> DEFINE h == <<STX_ETX, ch * 16 + Len(data) \div 256, Len(data) % 256>>
           F == Frame(ch, data)
<1>1. h \in Seq(Byte) /\ Len(h) = 3 /\ h[1] = STX_ETX /\ h[2] = ch * 16 + (Len(data) \div 256)
      /\ h[3] = Len(data) % 256
  BY HeaderBytes, Bytes
<1>2. F = h \o data \o <<STX_ETX>>
  BY DEF Frame
<1>3. <<STX_ETX>> \in Seq(Byte) /\ Len(<<STX_ETX>>) = 1 /\ <<STX_ETX>>[1] = STX_ETX
  BY Bytes
<1> HIDE DEF h, F
<1> DEFINE g == h \o data
<1>4. /\ g \in Seq(Byte) /\ Len(g) = Len(data) + 3
      /\ \A i \in 1 .. Len(data) + 3 : g[i] = IF i <= 3 THEN h[i] ELSE data[i - 3]
  <2>1. /\ h \o data \in Seq(Byte) /\ Len(h \o data) = Len(h) + Len(data)
        /\ \A i \in 1 .. Len(h) + Len(data) :
             (h \o data)[i] = IF i <= Len(h) THEN h[i] ELSE data[i - Len(h)]
    <3>1. h \in Seq(Byte)
      BY <1>1
    <3> QED
      BY <3>1, Concat
  <2>2. Len(h) + Len(data) = Len(data) + 3 /\ Len(h) = 3
    BY <1>1
  <2> QED
    BY <2>1, <2>2
<1>5. F = g \o <<STX_ETX>>
  BY <1>2
<1> HIDE DEF g
<1>6. /\ F \in Seq(Byte) /\ Len(F) = Len(data) + 4
      /\ \A i \in 1 .. Len(data) + 4 : F[i] = IF i <= Len(data) + 3 THEN g[i] ELSE <<STX_ETX>>[i - (Len(data) + 3)]
  BY <1>3, <1>4, <1>5, Concat
<1>7. F[1] = h[1] /\ F[2] = h[2] /\ F[3] = h[3] /\ F[Len(data) + 4] = STX_ETX
  BY <1>3, <1>4, <1>6
<1>8. \A i \in 1 .. Len(data) : F[i + 3] = data[i]
  <2> TAKE i \in 1 .. Len(data)
  <2>1. i + 3 \in 1 .. Len(data) + 3 /\ i + 3 \in 1 .. Len(data) + 4 /\ ~(i + 3 <= 3) /\ i + 3 - 3 = i
    OBVIOUS
  <2>2. F[i + 3] = g[i + 3] /\ g[i + 3] = data[i + 3 - 3]
    BY <1>4, <1>6, <2>1
  <2> QED
    BY <2>1, <2>2
<1> QED
  BY <1>1, <1>6, <1>7, <1>8 DEF F

\* A chunk of the game's data.
LEMMA ChunkShape ==
  ASSUME NEW n \in Nat, NEW len \in Length, n < len
  PROVE  /\ Chunk(n, len) \in Seq(Byte) /\ Len(Chunk(n, len)) \in Length
         /\ Len(Chunk(n, len)) > 0 /\ n + Len(Chunk(n, len)) <= len
         /\ \A i \in 1 .. Len(Chunk(n, len)) : Chunk(n, len)[i] = SendByte(n + i - 1)
<1> DEFINE m == IF len - n < BufLen THEN len - n ELSE BufLen
<1>1. m \in Nat /\ m > 0 /\ n + m <= len /\ m \in Length
  BY Constants, LengthRange
<1>2. Chunk(n, len) = [i \in 1 .. m |-> SendByte(n + i - 1)]
  BY DEF Chunk
<1> HIDE DEF m
<1>3. \A i \in 1 .. m : SendByte(n + i - 1) \in Byte
  <2>1. \A i \in 1 .. m : n + i - 1 \in Nat
    BY <1>1
  <2> QED
    BY <2>1, Bytes
<1> QED
  BY <1>1, <1>2, <1>3

\* A byte stored in a buffer.
LEMMA WrittenShape ==
  ASSUME NEW s \in Seq(Byte), NEW pos \in Nat, NEW b \in Byte
  PROVE  /\ Written(s, pos, b) \in Seq(Byte)
         /\ Len(Written(s, pos, b)) >= Len(s) /\ Len(Written(s, pos, b)) > pos
         /\ Written(s, pos, b)[pos + 1] = b
         /\ \A i \in 1 .. Len(s) : i # pos + 1 => Written(s, pos, b)[i] = s[i]
<1> DEFINE m == IF pos < Len(s) THEN Len(s) ELSE pos + 1
           f == [i \in 1 .. m |-> IF i = pos + 1 THEN b ELSE IF i <= Len(s) THEN s[i] ELSE Junk]
<1>1. Written(s, pos, b) = f
  BY DEF Written
<1>2. m \in Nat /\ m >= Len(s) /\ m > pos
  OBVIOUS
<1> HIDE DEF m
<1>3. \A i \in 1 .. m : (IF i = pos + 1 THEN b ELSE IF i <= Len(s) THEN s[i] ELSE Junk) \in Byte
  BY <1>2, Bytes
<1>4. f \in Seq(Byte) /\ Len(f) = m
  BY <1>2, <1>3
<1>5. \A i \in 1 .. m : f[i] = IF i = pos + 1 THEN b ELSE IF i <= Len(s) THEN s[i] ELSE Junk
  OBVIOUS
<1> HIDE DEF f
<1> QED
  BY <1>1, <1>2, <1>4, <1>5

-----------------------------------------------------------------------------
(* Sending *)

LEMMA SentTypes ==
  ASSUME TypeInv, tx.stat # "IDLE"
  PROVE  /\ Sent \in TxState /\ TxFits(Sent, mem, Len(up) + 1)
         /\ Sent.ch = tx.ch /\ Sent.total = tx.total /\ Sent.buf = tx.buf /\ Sent.base = tx.base
         /\ Sent.cb = tx.cb
         /\ ByteOut \in Byte
<1>1. /\ tx \in TxState /\ TxFits(tx, mem, Len(up)) /\ up \in Seq(Byte)
      /\ mem["cmd"] \in Seq(Byte) /\ Len(up) \in Nat
  BY DEF TypeInv, TxOK, MemOK
<1>2. /\ tx.stat \in TxStats /\ tx.pos \in Nat /\ tx.total \in Nat /\ tx.total \in Length /\ tx.base \in Nat
      /\ tx.pos \in Length /\ tx.ch \in Channels /\ tx.ch \in {MW_CTRL_CH, DataCh}
      /\ tx.buf \in {"cmd", "data"}
  BY <1>1, LengthRange DEF TxState, Channels
<1> DEFINE q == Sent
<1>3. CASE tx.stat \in {"STX", "CH_LENH", "LEN"}
  <2> DEFINE s == CASE tx.stat = "STX" -> "CH_LENH" [] tx.stat = "CH_LENH" -> "LEN" [] OTHER -> "DATA"
  <2>1. q = [tx EXCEPT !.stat = s]
    BY <1>3 DEF Sent
  <2>2. /\ s \in TxStats /\ s # "STX" /\ s # "ETX" /\ (s = "CH_LENH" <=> tx.stat = "STX")
        /\ (s = "LEN" <=> tx.stat = "CH_LENH") /\ (s = "DATA" <=> tx.stat = "LEN")
    BY <1>3 DEF TxStats
  <2> HIDE DEF q, s
  <2>3. q \in TxState
    BY <1>1, <2>1, <2>2 DEF TxState
  <2>4. /\ q.stat = s /\ q.pos = tx.pos /\ q.total = tx.total /\ q.ch = tx.ch /\ q.buf = tx.buf
        /\ q.cb = tx.cb /\ q.base = tx.base
    BY <1>1, <2>1, <2>2 DEF TxState
  <2>5. TxFits(q, mem, Len(up) + 1)
    <3>1. /\ tx.pos = 0 /\ tx.total > 0
          /\ tx.ch = MW_CTRL_CH => tx.buf = "cmd" /\ tx.total = 2 /\ Len(mem["cmd"]) >= 2 /\ ~tx.cb
          /\ tx.ch = DataCh => tx.buf = "data" /\ tx.cb
      BY <1>1, <1>3 DEF TxFits
    <3>2. /\ tx.stat = "STX" => Len(up) = 0
          /\ tx.stat = "CH_LENH" => Len(up) = 1
          /\ tx.stat = "LEN" => Len(up) = 2
      BY <1>1 DEF TxFits
    <3>3. CASE tx.stat = "STX"
      BY <1>1, <2>2, <2>4, <3>1, <3>2, <3>3 DEF TxFits
    <3>4. CASE tx.stat = "CH_LENH"
      <4>1. q.stat = "LEN" /\ Len(up) + 1 = 2
        <5>1. s = "LEN" /\ Len(up) = 1
          BY <2>2, <3>2, <3>4
        <5> QED
          BY <2>4, <5>1
      <4> QED
        BY <2>4, <3>1, <4>1 DEF TxFits
    <3>5. CASE tx.stat = "LEN"
      <4>1. q.stat = "DATA" /\ Len(up) + 1 = 3 + q.pos /\ q.pos < q.total
        <5>1. s = "DATA" /\ Len(up) = 2 /\ tx.pos = 0 /\ tx.total > 0
          BY <2>2, <3>1, <3>2, <3>5
        <5> QED
          BY <1>2, <2>4, <5>1
      <4> QED
        BY <2>4, <3>1, <4>1 DEF TxFits
    <3> QED
      BY <1>3, <3>3, <3>4, <3>5
  <2>6. ByteOut \in Byte
    BY <1>2, <1>3, Bytes, HeaderBytes DEF ByteOut
  <2> QED
    BY <2>3, <2>4, <2>5, <2>6 DEF q
<1>4. CASE tx.stat = "DATA"
  <2> DEFINE p == tx.pos + 1
             s == IF LastByte THEN "ETX" ELSE tx.stat
  <2>1. q = [tx EXCEPT !.pos = p, !.stat = s]
    BY <1>4 DEF Sent
  <2>2. tx.pos < tx.total /\ tx.total > 0
    BY <1>1, <1>4 DEF TxFits
  <2>3. /\ p \in Length /\ s \in TxStats /\ (s = "ETX" => p = tx.total) /\ (s = "DATA" => p < tx.total)
        /\ p = tx.pos + 1 /\ s \in {"DATA", "ETX"}
    BY <1>2, <1>4, <2>2, LengthRange DEF LastByte, TxStats
  <2> HIDE DEF q, p, s
  <2>4. q \in TxState
    BY <1>1, <2>1, <2>3 DEF TxState
  <2>5. /\ q.stat = s /\ q.pos = p /\ q.total = tx.total /\ q.ch = tx.ch /\ q.buf = tx.buf
        /\ q.cb = tx.cb /\ q.base = tx.base
    BY <1>1, <2>1, <2>3 DEF TxState
  <2>6. TxFits(q, mem, Len(up) + 1)
    BY <1>1, <1>2, <1>4, <2>3, <2>5 DEF TxFits
  <2>7. ByteOut \in Byte
    <3>1. CASE tx.ch = MW_CTRL_CH
      <4>1. tx.buf = "cmd" /\ tx.total = 2 /\ Len(mem["cmd"]) >= 2
        BY <1>1, <1>4, <3>1 DEF TxFits
      <4>2. mem["cmd"][tx.pos + 1] \in Byte
        BY <1>1, <1>2, <2>2, <4>1
      <4> QED
        BY <1>4, <4>1, <4>2 DEF ByteOut
    <3>2. CASE tx.ch = DataCh
      <4>1. tx.buf = "data"
        BY <1>1, <1>4, <3>2 DEF TxFits
      <4>2. SendByte(tx.base + tx.pos) \in Byte
        BY <1>2, Bytes
      <4> QED
        BY <1>4, <4>1, <4>2 DEF ByteOut
    <3> QED
      BY <1>2, <3>1, <3>2
  <2> QED
    BY <2>4, <2>5, <2>6, <2>7 DEF q
<1>5. CASE tx.stat = "ETX"
  <2>1. q = [tx EXCEPT !.stat = "IDLE"]
    BY <1>5 DEF Sent
  <2> HIDE DEF q
  <2>2. q \in TxState
    BY <1>1, <2>1 DEF TxState, TxStats
  <2>3. /\ q.stat = "IDLE" /\ q.total = tx.total /\ q.ch = tx.ch /\ q.buf = tx.buf
        /\ q.cb = tx.cb /\ q.base = tx.base
    BY <1>1, <2>1 DEF TxState
  <2>4. ByteOut \in Byte
    BY <1>5, Bytes DEF ByteOut
  <2> QED
    BY <2>2, <2>3, <2>4 DEF q, TxFits
<1> QED
  BY <1>2, <1>3, <1>4, <1>5 DEF TxStats

\* lsd_send, where the command buffer still holds a command.
LEMMA SendTypes ==
  ASSUME TypeInv, NEW ch \in Channels, NEW buf \in {"cmd", "data"}, NEW base \in Nat,
         NEW data \in Seq(Byte), Len(data) \in Length, Len(data) > 0, NEW cb \in BOOLEAN,
         ch = MW_CTRL_CH => buf = "cmd" /\ Len(data) = 2 /\ ~cb,
         ch = DataCh => buf = "data" /\ cb,
         Len(mem'["cmd"]) >= 2 \/ (ch = DataCh /\ mem' = mem),
         lsd_send(ch, buf, base, data, cb)
  PROVE  /\ TxOK' /\ clobbered' \in BOOLEAN
         /\ owed' \in Nat /\ owed' <= owed + 1 /\ (ch = DataCh => owed' = owed)
<1>1. /\ TxOK /\ owed \in Nat /\ clobbered \in BOOLEAN /\ Len(mem["cmd"]) \in Nat
  BY DEF TypeInv, CallOK, MemOK
<1>2. MW_CTRL_CH # DataCh /\ ch \in {MW_CTRL_CH, DataCh}
  BY DEF MW_CTRL_CH, DataCh, Channels
<1>3. CASE SendAccepted(ch)
  <2>1. /\ tx' = [stat |-> "STX", ch |-> ch, total |-> Len(data), pos |-> 0,
                 buf |-> buf, base |-> base, cb |-> cb]
        /\ up' = <<>> /\ given' = [ch |-> ch, data |-> data] /\ clobbered' = FALSE
        /\ owed' = owed + (IF ch = MW_CTRL_CH THEN 1 ELSE 0)
    BY <1>3 DEF lsd_send
  <2>2. tx' \in TxState
    BY <2>1, LengthRange DEF TxState, TxStats
  <2>3. TxFits(tx', mem', Len(up'))
    BY <1>2, <2>1 DEF TxFits
  <2>4. given' \in [ch : Channels, data : Seq(Byte)] /\ up' \in Seq(Byte)
        /\ given'.ch = tx'.ch /\ given'.data = data /\ tx'.total = Len(data)
    BY <2>1
  <2>5. TxOK'
    BY <2>2, <2>3, <2>4 DEF TxOK
  <2>6. owed' \in Nat /\ owed' <= owed + 1 /\ (ch = DataCh => owed' = owed)
    <3>1. CASE ch = MW_CTRL_CH
      BY <1>1, <1>2, <2>1, <3>1
    <3>2. CASE ch # MW_CTRL_CH
      BY <1>1, <2>1, <3>2
    <3> QED
      BY <3>1, <3>2
  <2> QED
    BY <2>1, <2>5, <2>6
<1>4. CASE ~SendAccepted(ch)
  <2>1. clobbered' \in BOOLEAN /\ UNCHANGED <<tx, up, given, owed>>
    BY <1>1, <1>4 DEF lsd_send
  <2>2. TxFits(tx, mem, Len(up)) /\ (Len(mem'["cmd"]) >= 2 \/ mem' = mem)
    BY <1>1 DEF TxOK
  <2>3. TxFits(tx, mem', Len(up))
    BY <2>2 DEF TxFits
  <2>4. TxOK'
    BY <1>1, <2>1, <2>3 DEF TxOK
  <2> QED
    BY <1>1, <2>1, <2>4
<1> QED
  BY <1>3, <1>4

-----------------------------------------------------------------------------
(* The steps of the link *)

LEMMA InitTypes == Init => TypeInv
<1> SUFFICES ASSUME Init PROVE TypeInv
  OBVIOUS
<1>1. 0 \in Length /\ 0 \in Nibble /\ MaxCalls \in Nat
  BY LengthRange, NibbleRange, Constants
<1>2. RxOK
  BY <1>1 DEF Init, RxOK, RxState, RxStats, RxFits
<1>3. TxOK
  <2>1. tx \in TxState /\ tx.stat = "IDLE"
    BY <1>1 DEF Init, TxState, TxStats, Channels, MW_CTRL_CH
  <2>2. up \in Seq(Byte) /\ given \in [ch : Channels, data : Seq(Byte)] /\ Len(given.data) = 0
    BY <1>1 DEF Init, Channels, MW_CTRL_CH
  <2> QED
    BY <1>1, <2>1, <2>2 DEF TxOK, TxFits
<1>4. CallOK
  <2>1. sup \in CallState /\ sup.op = "none" /\ sup.id = 0
    BY <1>1 DEF Init, NoCall, CallState, Kinds, Codes
  <2>2. md \in Metadata
    BY <1>1 DEF Init, Metadata
  <2> QED
    BY <2>1, <2>2 DEF Init, CallOK, Channels
<1>5. PeerOK
  BY DEF Init, PeerOK
<1>6. MemOK
  <2>1. mem = [b \in {"cmd", "in"} |-> <<>>] /\ clobbered = FALSE /\ refused = FALSE
    BY DEF Init
  <2>2. <<>> \in Seq(Byte)
    OBVIOUS
  <2>3. mem \in [{"cmd", "in"} -> Seq(Byte)]
    BY <2>1, <2>2
  <2> QED
    BY <2>1, <2>3 DEF MemOK
<1> QED
  BY <1>2, <1>3, <1>4, <1>5, <1>6 DEF TypeInv

LEMMA ProcessRecvTypes ==
  ASSUME TypeInv, ProcessRecv
  PROVE  TypeInv'
<1> DEFINE b == Head(line)
<1>1. /\ rx \in RxState /\ RxFits(rx) /\ rx.stat \in Receiving /\ line \in Seq(Byte) /\ line # <<>>
      /\ rx' = Received(rx, b)
  BY DEF TypeInv, RxOK, PeerOK, ProcessRecv
<1>2. b \in Byte /\ Tail(line) \in Seq(Byte)
  BY <1>1
<1> HIDE DEF b
<1>3. rx' \in RxState /\ RxFits(rx')
  BY <1>1, <1>2, ReceivedTypes
<1>4. RxOK'
  BY <1>3 DEF RxOK
<1>5. mem \in [{"cmd", "in"} -> Seq(Byte)] /\ rx.buf \in {"cmd", "in"} /\ rx.pos \in Nat
  BY <1>1, LengthRange DEF TypeInv, MemOK, RxState
<1>6. mem' = IF rx.stat = "DATA" THEN [mem EXCEPT ![rx.buf] = Written(@, rx.pos, b)] ELSE mem
  BY DEF ProcessRecv, b
<1>7. mem' \in [{"cmd", "in"} -> Seq(Byte)] /\ Len(mem'["cmd"]) >= Len(mem["cmd"])
  <2>1. CASE rx.stat = "DATA"
    <3>1. /\ Written(mem[rx.buf], rx.pos, b) \in Seq(Byte)
          /\ Len(Written(mem[rx.buf], rx.pos, b)) >= Len(mem[rx.buf])
      BY <1>2, <1>5, WrittenShape
    <3>2. mem' = [mem EXCEPT ![rx.buf] = Written(mem[rx.buf], rx.pos, b)]
      BY <1>6, <2>1
    <3> QED
      BY <1>5, <3>1, <3>2
  <2>2. CASE rx.stat # "DATA"
    BY <1>5, <1>6, <2>2
  <2> QED
    BY <2>1, <2>2
<1>8. clobbered' \in BOOLEAN /\ refused' \in BOOLEAN
  BY DEF ProcessRecv, TypeInv, MemOK
<1>9. MemOK'
  BY <1>7, <1>8 DEF MemOK
<1>10. TxOK'
  <2>1. TxOK /\ UNCHANGED <<tx, up, given>> /\ Len(mem["cmd"]) \in Nat /\ Len(mem'["cmd"]) \in Nat
    BY <1>5, <1>7 DEF TypeInv, ProcessRecv
  <2>2. TxFits(tx, mem', Len(up))
    BY <1>7, <2>1 DEF TxOK, TxFits
  <2> QED
    BY <2>1, <2>2 DEF TxOK
<1>11. PeerOK'
  <2>1. line' = Tail(line) /\ UNCHANGED <<requests, faults>> /\ PeerOK
    BY DEF TypeInv, ProcessRecv
  <2> QED
    BY <1>2, <2>1 DEF PeerOK
<1>12. CallOK'
  <2>1. UNCHANGED <<sup, ch_enable>> /\ CallOK /\ user' \in {"run", "clear"}
    BY DEF TypeInv, ProcessRecv
  <2>2. md' \in Metadata
    <3>1. md' = md \/ md' = [set |-> TRUE, ch |-> rx.ch, len |-> rx'.pos]
      BY DEF ProcessRecv
    <3>2. rx.ch \in Nibble /\ rx'.pos \in Length
      BY <1>1, <1>3 DEF RxState
    <3>3. [set |-> TRUE, ch |-> rx.ch, len |-> rx'.pos] \in Metadata
      BY <3>2 DEF Metadata
    <3> QED
      BY <2>1, <3>1, <3>3 DEF CallOK
  <2>3. owed' \in Nat /\ owed' <= owed
    <3>1. owed \in Nat
      BY <2>1 DEF CallOK
    <3>2. owed' = owed \/ (owed > 0 /\ owed' = owed - 1)
      BY <3>1 DEF ProcessRecv
    <3> QED
      BY <3>1, <3>2
  <2>4. sup.id \in Nat
    BY <2>1, Constants DEF CallOK, CallState
  <2> QED
    BY <2>1, <2>2, <2>3, <2>4 DEF CallOK
<1> QED
  BY <1>4, <1>9, <1>10, <1>11, <1>12 DEF TypeInv

\* A whole frame's payload.
LEMMA ProcessSendTypes ==
  ASSUME TypeInv, ProcessSend
  PROVE  TypeInv'
<1>1. /\ tx.stat # "IDLE" /\ tx' = Sent /\ up' = Append(up, ByteOut)
      /\ UNCHANGED <<rx, ch_enable, mem, sup, md, line, faults, owed, given, clobbered, refused>>
      /\ user' \in {"run", "clear"}
  BY DEF ProcessSend
<1>2. up \in Seq(Byte) /\ ByteOut \in Byte /\ Sent \in TxState /\ TxFits(Sent, mem, Len(up) + 1)
      /\ Sent.ch = tx.ch /\ Sent.total = tx.total
  BY <1>1, SentTypes DEF TypeInv, TxOK
<1>3. up' \in Seq(Byte) /\ Len(up') = Len(up) + 1
  BY <1>1, <1>2
<1>4. TxOK'
  BY <1>1, <1>2, <1>3 DEF TypeInv, TxOK
<1>5. RxOK' /\ MemOK'
  BY <1>1 DEF TypeInv, RxOK, MemOK
<1>6. CallOK'
  BY <1>1 DEF TypeInv, CallOK
<1>7. PeerOK'
  <2>1. PeerOK
    BY DEF TypeInv
  <2>2. CASE UNCHANGED requests
    BY <1>1, <2>1, <2>2 DEF PeerOK
  <2>3. CASE tx'.stat = "IDLE" /\ tx.ch = MW_CTRL_CH /\ requests' = Append(requests, Payload(up'))
    <3>1. tx.stat = "ETX"
      BY <1>1, <2>3 DEF Sent, TypeInv, TxOK, TxState, TxStats
    <3>2. tx.total = 2 /\ tx.pos = tx.total /\ Len(up) = 3 + tx.pos
      BY <2>3, <3>1 DEF TypeInv, TxOK, TxFits
    <3>3. Len(up') = 6
      BY <1>3, <3>2
    <3>4. Payload(up') \in Seq(Byte) /\ Len(Payload(up')) = 2
      <4>1. \A i \in 4 .. 5 : up'[i] \in Byte
        <5>1. \A i \in 1 .. 6 : up'[i] \in Byte
          BY <1>3, <3>3, ElementOfSeq
        <5> QED
          BY <5>1
      <4>2. SubSeq(up', 4, 5) \in Seq(Byte) /\ Len(SubSeq(up', 4, 5)) = 2
        BY <4>1, SubSeqProperties
      <4> QED
        BY <3>3, <4>2 DEF Payload
    <3>5. /\ requests' \in Seq(Seq(Byte)) /\ Len(requests') = Len(requests) + 1
          /\ \A i \in 1 .. Len(requests) : requests'[i] = requests[i]
          /\ requests'[Len(requests) + 1] = Payload(up')
      BY <2>1, <2>3, <3>4 DEF PeerOK
    <3>6. \A i \in 1 .. Len(requests') : Len(requests'[i]) = 2
      <4> SUFFICES ASSUME NEW i \in 1 .. Len(requests') PROVE Len(requests'[i]) = 2
        OBVIOUS
      <4>1. requests \in Seq(Seq(Byte)) /\ \A k \in 1 .. Len(requests) : Len(requests[k]) = 2
        BY <2>1 DEF PeerOK
      <4>2. CASE i \in 1 .. Len(requests)
        BY <3>5, <4>1, <4>2
      <4>3. CASE i = Len(requests) + 1
        <5>1. requests'[i] = Payload(up')
          BY <3>5, <4>3
        <5> QED
          BY <3>4, <5>1
      <4> QED
        BY <3>5, <4>1, <4>2, <4>3
    <3> QED
      BY <1>1, <2>1, <3>5, <3>6 DEF PeerOK
  <2> QED
    BY <2>2, <2>3 DEF ProcessSend
<1> QED
  BY <1>4, <1>5, <1>6, <1>7 DEF TypeInv

-----------------------------------------------------------------------------
(* The calls *)

LEMMA CallsTypes ==
  ASSUME TypeInv, NEW op \in {"command", "recv", "send"}, NEW kind \in Kinds,
         NEW len \in Length, op = "send" => 0 < len,
         NEW clean \in BOOLEAN, Calls(op, kind, len, clean),
         owed' \in Nat, owed' <= owed + 1
  PROVE  CallOK' /\ PeerOK'
<1>1. CallOK /\ PeerOK /\ sup.id < MaxCalls /\ MaxCalls \in Nat
  BY Constants DEF TypeInv, Calls
<1>2. /\ sup' = [pc |-> "pend", op |-> op, kind |-> kind, id |-> sup.id + 1, len |-> len,
                 sent |-> 0, clean |-> clean /\ user = "run"]
      /\ md' = [set |-> FALSE, ch |-> 0, len |-> 0]
      /\ UNCHANGED <<user, ch_enable, line, requests, faults>>
  BY DEF Calls, peerVars
<1>3. sup.id \in Nat /\ sup.id + 1 \in 0 .. MaxCalls /\ owed \in Nat /\ owed <= sup.id
  BY <1>1 DEF CallOK, CallState
<1>4. sup' \in CallState
  BY <1>2, <1>3 DEF CallState
<1>5. sup'.op = op /\ sup'.len = len /\ sup'.sent = 0 /\ sup'.id = sup.id + 1
  BY <1>2
<1>6. md' \in Metadata
  BY <1>2, NibbleRange, LengthRange DEF Metadata
<1>7. sup'.op = "send" => sup'.sent < sup'.len
  BY <1>5
<1>8. owed' <= sup'.id
  BY <1>3, <1>5
<1>9. CallOK'
  BY <1>1, <1>2, <1>4, <1>6, <1>7, <1>8 DEF CallOK
<1> QED
  BY <1>1, <1>2, <1>9 DEF PeerOK

LEMMA CommandTypes ==
  ASSUME TypeInv, NEW kind \in Kinds, mw_command(kind)
  PROVE  TypeInv'
<1> DEFINE cmd == <<Codes[kind], (sup.id + 1) % 256>>
<1>1. sup.id \in Nat
  BY Constants DEF TypeInv, CallOK, CallState
<1>2. (sup.id + 1) % 256 \in Byte /\ Codes[kind] \in Byte
  BY <1>1, Bytes, ByteRange
<1>3. cmd \in Seq(Byte) /\ Len(cmd) = 2
  BY <1>2
<1>4. /\ mem' = [mem EXCEPT !["cmd"] = cmd]
      /\ lsd_send(MW_CTRL_CH, "cmd", 0, cmd, FALSE)
      /\ rx' = lsd_recv("cmd", CmdLen, sup.id + 1)
      /\ Calls("command", kind, 0, tx.stat = "IDLE" /\ owed = 0)
  BY DEF mw_command
<1> HIDE DEF cmd
<1>5. mem' \in [{"cmd", "in"} -> Seq(Byte)] /\ Len(mem'["cmd"]) = 2
  BY <1>3, <1>4 DEF TypeInv, MemOK
<1>6. Len(cmd) \in Length /\ MW_CTRL_CH \in Channels /\ MW_CTRL_CH # DataCh /\ 0 \in Length
  BY <1>3, LengthRange DEF MaxLen, Channels, MW_CTRL_CH, DataCh
<1>7. Len(mem'["cmd"]) >= 2 /\ Len(cmd) > 0
  BY <1>3, <1>5
<1>8. TxOK' /\ clobbered' \in BOOLEAN /\ owed' \in Nat /\ owed' <= owed + 1
  BY <1>3, <1>4, <1>6, <1>7, SendTypes
<1>9. RxOK'
  <2>1. CmdLen \in Length /\ CmdLen > 0 /\ sup.id + 1 \in Nat
    BY <1>1, Constants, LengthRange
  <2> QED
    BY <1>4, <2>1, RecvTypes DEF RxOK
<1>10. MemOK'
  BY <1>4, <1>5, <1>8 DEF Calls, TypeInv, MemOK
<1>11. CallOK' /\ PeerOK'
  BY <1>4, <1>6, <1>8, CallsTypes
<1> QED
  BY <1>8, <1>9, <1>10, <1>11 DEF TypeInv

LEMMA RecvSyncTypes ==
  ASSUME TypeInv, NEW len \in RecvLens, mw_recv_sync(len)
  PROVE  TypeInv'
<1>1. sup.id \in Nat /\ sup.id + 1 \in Nat /\ len \in Length /\ len > 0
  BY Constants DEF TypeInv, CallOK, CallState
<1>2. /\ Calls("recv", "open", len, TRUE)
      /\ mem' = [mem EXCEPT !["in"] = <<>>]
      /\ rx' = lsd_recv("in", len, sup.id + 1)
      /\ up' = IF tx.stat = "IDLE" THEN <<>> ELSE up
      /\ UNCHANGED <<tx, given, clobbered, owed>> /\ refused' = refused
  BY DEF mw_recv_sync, Calls
<1>3. RxOK'
  BY <1>1, <1>2, RecvTypes DEF RxOK
<1>4. mem' \in [{"cmd", "in"} -> Seq(Byte)] /\ mem'["cmd"] = mem["cmd"]
  BY <1>2 DEF TypeInv, MemOK
<1>5. MemOK'
  BY <1>2, <1>4 DEF TypeInv, MemOK
<1>6. TxOK'
  <2>1. TxFits(tx, mem', Len(up'))
    BY <1>2, <1>4 DEF TypeInv, TxOK, TxFits
  <2>2. up' \in Seq(Byte)
    BY <1>2 DEF TypeInv, TxOK
  <2> QED
    BY <1>2, <2>1, <2>2 DEF TypeInv, TxOK
<1>7. CallOK' /\ PeerOK'
  <2>1. owed' \in Nat /\ owed' <= owed + 1 /\ "open" \in Kinds
    BY <1>2 DEF TypeInv, CallOK, Kinds, Codes
  <2> QED
    BY <1>1, <1>2, <2>1, CallsTypes
<1> QED
  BY <1>3, <1>5, <1>6, <1>7 DEF TypeInv

LEMMA SendSyncTypes ==
  ASSUME TypeInv, NEW len \in SendLens, mw_send_sync(len)
  PROVE  TypeInv'
<1>1. len \in Length /\ len > 0 /\ "open" \in Kinds /\ DataCh \in Channels /\ MW_CTRL_CH # DataCh
  BY Constants DEF Kinds, Codes, Channels, MW_CTRL_CH, DataCh
<1>2. /\ Calls("send", "open", len, tx.stat = "IDLE" /\ rx.stat \notin Receiving)
      /\ lsd_send(DataCh, "data", 0, Chunk(0, len), TRUE)
      /\ UNCHANGED <<rx, mem>> /\ refused' = refused
  BY DEF mw_send_sync, Calls
<1>3. Chunk(0, len) \in Seq(Byte) /\ Len(Chunk(0, len)) \in Length /\ Len(Chunk(0, len)) > 0
  BY <1>1, ChunkShape
<1>4. TxOK' /\ clobbered' \in BOOLEAN /\ owed' \in Nat /\ owed' <= owed + 1
  BY <1>1, <1>2, <1>3, SendTypes
<1>5. RxOK' /\ MemOK'
  BY <1>2, <1>4 DEF TypeInv, RxOK, MemOK
<1>6. CallOK' /\ PeerOK'
  BY <1>1, <1>2, <1>4, CallsTypes
<1> QED
  BY <1>4, <1>5, <1>6 DEF TypeInv

\* A call that returns.
LEMMA ReturnsTypes ==
  ASSUME TypeInv, NEW res, NEW ch, NEW n, Returns(res, ch, n)
  PROVE  /\ sup' \in CallState /\ sup'.pc = "run" /\ sup'.op = sup.op /\ sup'.id = sup.id
         /\ sup'.len = sup.len /\ sup'.sent = sup.sent /\ sup'.clean = sup.clean
<1>1. sup \in CallState /\ sup' = [sup EXCEPT !.pc = "run"]
  BY DEF TypeInv, CallOK, Returns
<1> QED
  BY <1>1 DEF CallState

\* A call that goes on, from the n-th byte, cleanly or not.
LEMMA GoesOnTypes ==
  ASSUME TypeInv, NEW n \in Nat, NEW c \in BOOLEAN,
         \/ sup' = [sup EXCEPT !.sent = n, !.clean = c]
         \/ sup' = [sup EXCEPT !.clean = c] /\ n = sup.sent
  PROVE  /\ sup' \in CallState /\ sup'.pc = sup.pc /\ sup'.op = sup.op /\ sup'.id = sup.id
         /\ sup'.len = sup.len /\ sup'.sent = n /\ sup'.clean = c
<1>1. sup \in CallState
  BY DEF TypeInv, CallOK
<1>2. CASE sup' = [sup EXCEPT !.sent = n, !.clean = c]
  BY <1>1, <1>2 DEF CallState
<1>3. CASE sup' = [sup EXCEPT !.clean = c] /\ n = sup.sent
  BY <1>1, <1>3 DEF CallState
<1> QED
  BY <1>2, <1>3

LEMMA PostTypes ==
  ASSUME TypeInv, Post
  PROVE  TypeInv'
<1>1. /\ user' \in {"run", "trap"} /\ sup.pc = "pend"
      /\ UNCHANGED <<mem, md, line, requests, faults, refused>>
      /\ CommandResumes \/ RecvResumes \/ SendResumes
  BY DEF Post, peerVars
<1>2. sup \in CallState /\ sup.id \in Nat /\ sup.sent \in Nat /\ sup.len \in Length /\ sup.clean \in BOOLEAN
  BY Constants DEF TypeInv, CallOK, CallState
<1>3. PeerOK'
  BY <1>1 DEF TypeInv, PeerOK
<1>4. CASE CommandResumes
  <2>1. sup.op = "command" /\ UNCHANGED <<tx, up, given, clobbered, owed>>
    BY <1>4 DEF CommandResumes
  <2>2. TxOK' /\ MemOK'
    BY <1>1, <2>1 DEF TypeInv, TxOK, MemOK
  <2>3. /\ sup' \in CallState /\ sup'.id = sup.id /\ sup'.op = sup.op
        /\ RxOK' /\ MW_CTRL_CH \in ch_enable' /\ ch_enable' \subseteq Channels
    <3>1. CASE \E res, ch : Returns(res, ch, 0) /\ UNCHANGED rx
               /\ ch_enable' \in {ch_enable, ch_enable \cup {DataCh}, ch_enable \ {DataCh}}
      <4>1. sup' \in CallState /\ sup'.id = sup.id /\ sup'.op = sup.op
        BY <3>1, ReturnsTypes
      <4>2. RxOK'
        BY <3>1 DEF TypeInv, RxOK
      <4>3. MW_CTRL_CH \in ch_enable' /\ ch_enable' \subseteq Channels
        BY <3>1 DEF TypeInv, CallOK, Channels, MW_CTRL_CH, DataCh
      <4> QED
        BY <4>1, <4>2, <4>3
    <3>2. CASE /\ rx' = lsd_recv("cmd", CmdLen, sup.id)
               /\ sup' = [sup EXCEPT !.clean = @ /\ user' = "run"] /\ UNCHANGED ch_enable
      <4>1. (sup.clean /\ user' = "run") \in BOOLEAN /\ sup' = [sup EXCEPT !.clean = sup.clean /\ user' = "run"]
        BY <3>2
      <4>2. sup' \in CallState /\ sup'.id = sup.id /\ sup'.op = sup.op
        BY <1>2, <4>1, GoesOnTypes
      <4>3. RxOK'
        BY <1>2, <3>2, Constants, LengthRange, RecvTypes DEF RxOK
      <4> QED
        BY <3>2, <4>2, <4>3 DEF TypeInv, CallOK
    <3> QED
      BY <1>4, <3>1, <3>2 DEF CommandResumes
  <2>4. CallOK'
    BY <1>1, <2>1, <2>3 DEF TypeInv, CallOK
  <2> QED
    BY <1>3, <2>2, <2>3, <2>4 DEF TypeInv
<1>5. CASE RecvResumes
  <2>1. Returns("ok", md.ch, md.len) /\ UNCHANGED <<rx, tx, ch_enable, up, given, clobbered, owed>>
    BY <1>5 DEF RecvResumes
  <2>2. TxOK' /\ MemOK' /\ RxOK'
    BY <1>1, <2>1 DEF TypeInv, TxOK, MemOK, RxOK
  <2>3. sup' \in CallState /\ sup'.op = sup.op /\ sup'.id = sup.id /\ sup.op = "recv"
    BY <1>5, <2>1, ReturnsTypes DEF RecvResumes
  <2>4. CallOK'
    BY <1>1, <2>1, <2>3 DEF TypeInv, CallOK
  <2> QED
    BY <1>3, <2>2, <2>4 DEF TypeInv
<1>6. CASE SendResumes
  <2> DEFINE n == sup.sent + Len(Chunk(sup.sent, sup.len))
  <2>1. sup.op = "send" /\ sup.sent < sup.len /\ UNCHANGED <<rx, ch_enable>>
    BY <1>6 DEF SendResumes, TypeInv, CallOK
  <2>2. n \in Nat
    BY <1>2, <2>1, ChunkShape
  <2>3. RxOK' /\ refused' = refused /\ mem' = mem
    BY <1>1, <2>1 DEF TypeInv, RxOK
  <2>4. CASE n < sup.len
    <3>1. /\ lsd_send(DataCh, "data", n, Chunk(n, sup.len), TRUE)
          /\ sup' = [sup EXCEPT !.sent = n, !.clean = @ /\ user' = "run"]
      BY <1>6, <2>4 DEF SendResumes
    <3> HIDE DEF n
    <3>2. Chunk(n, sup.len) \in Seq(Byte) /\ Len(Chunk(n, sup.len)) \in Length /\ Len(Chunk(n, sup.len)) > 0
      BY <1>2, <2>2, <2>4, ChunkShape
    <3>3. TxOK' /\ clobbered' \in BOOLEAN /\ owed' = owed
      <4>1. DataCh \in Channels /\ DataCh # MW_CTRL_CH
        BY DEF Channels, MW_CTRL_CH, DataCh
      <4> QED
        BY <2>2, <2>3, <3>1, <3>2, <4>1, SendTypes
    <3> DEFINE c == sup.clean /\ user' = "run"
    <3>4. c \in BOOLEAN /\ sup' = [sup EXCEPT !.sent = n, !.clean = c]
      BY <3>1
    <3> HIDE DEF c
    <3>5. sup' \in CallState /\ sup'.op = sup.op /\ sup'.id = sup.id /\ sup'.sent = n /\ sup'.len = sup.len
      BY <2>2, <3>4, GoesOnTypes, Zenon
    <3>6. MemOK'
      BY <2>3, <3>3 DEF TypeInv, MemOK
    <3>7. CallOK'
      BY <1>1, <2>1, <2>4, <3>3, <3>5 DEF TypeInv, CallOK
    <3> QED
      BY <1>3, <2>3, <3>3, <3>6, <3>7 DEF TypeInv
  <2>5. CASE ~(n < sup.len)
    <3>1. Returns("ok", DataCh, 0) /\ UNCHANGED <<tx, up, given, clobbered, owed>>
      BY <1>6, <2>5 DEF SendResumes
    <3>2. /\ sup' \in CallState /\ sup'.op = sup.op /\ sup'.id = sup.id /\ sup'.sent = sup.sent
          /\ sup'.len = sup.len
      BY <3>1, ReturnsTypes
    <3>3. TxOK' /\ MemOK'
      BY <2>3, <3>1 DEF TypeInv, TxOK, MemOK
    <3>4. CallOK'
      BY <1>1, <2>1, <3>1, <3>2 DEF TypeInv, CallOK
    <3> QED
      BY <1>3, <2>3, <3>3, <3>4 DEF TypeInv
  <2> QED
    BY <2>4, <2>5
<1> QED
  BY <1>1, <1>4, <1>5, <1>6

LEMMA TimeoutTypes ==
  ASSUME TypeInv, Timeout
  PROVE  TypeInv'
<1>1. /\ Returns("timeout", 0, 0)
      /\ UNCHANGED <<rx, tx, ch_enable, mem, md, user, line, requests, faults, owed, up, given, clobbered, refused>>
  BY DEF Timeout, linkVars, peerVars
<1>2. /\ sup' \in CallState /\ sup'.op = sup.op /\ sup'.id = sup.id /\ sup'.sent = sup.sent
      /\ sup'.len = sup.len
  BY <1>1, ReturnsTypes
<1> QED
  BY <1>1, <1>2 DEF TypeInv, RxOK, TxOK, CallOK, PeerOK, MemOK

LEMMA PeerTypes ==
  ASSUME TypeInv, ModuleAnswers \/ (\E n \in DataLens : ModuleSends(n)) \/ LineLoses
  PROVE  TypeInv'
<1>1. UNCHANGED <<linkVars, taskVars, history>>
  BY DEF ModuleAnswers, ModuleSends, LineLoses
<1>2. RxOK' /\ TxOK' /\ CallOK' /\ MemOK'
  BY <1>1 DEF TypeInv, RxOK, TxOK, CallOK, MemOK, linkVars, taskVars, history
<1>3. line \in Seq(Byte) /\ requests \in Seq(Seq(Byte)) /\ faults \in Nat
      /\ \A i \in 1 .. Len(requests) : Len(requests[i]) = 2
  BY DEF TypeInv, PeerOK
<1>4. CASE ModuleAnswers
  <2>1. PICK res \in {MW_CMD_OK, MW_CMD_ERROR} :
          /\ requests # <<>>
          /\ line' = line \o Frame(MW_CTRL_CH, <<res, Head(requests)[2]>>)
          /\ requests' = Tail(requests) /\ UNCHANGED faults
    BY <1>4 DEF ModuleAnswers
  <2>2. Head(requests)[2] \in Byte /\ res \in Byte
    <3>1. Head(requests) \in Seq(Byte) /\ Len(Head(requests)) = 2
      BY <1>3, <2>1
    <3> QED
      BY <3>1, Bytes
  <2> DEFINE d == <<res, Head(requests)[2]>>
  <2>3. d \in Seq(Byte) /\ Len(d) = 2 /\ MW_CTRL_CH \in Channels
    BY <2>2 DEF Channels
  <2> HIDE DEF d
  <2>4. Frame(MW_CTRL_CH, d) \in Seq(Byte)
    <3>1. 2 \in Length
      BY LengthRange DEF MaxLen
    <3> QED
      BY <2>3, <3>1, FrameShape
  <2>5. line' \in Seq(Byte)
    BY <1>3, <2>1, <2>4 DEF d
  <2>6. requests' \in Seq(Seq(Byte)) /\ \A i \in 1 .. Len(requests') : Len(requests'[i]) = 2
    BY <1>3, <2>1
  <2>7. PeerOK'
    BY <1>3, <2>1, <2>5, <2>6 DEF PeerOK
  <2> QED
    BY <1>2, <2>7 DEF TypeInv
<1>5. CASE \E n \in DataLens : ModuleSends(n)
  <2>1. PICK n \in DataLens : ModuleSends(n)
    BY <1>5
  <2> DEFINE d == [i \in 1 .. n |-> DataByte(i - 1)]
  <2>2. n \in Nat /\ n \in Length
    BY Constants, LengthRange
  <2>3. d \in Seq(Byte) /\ Len(d) = n /\ DataCh \in Channels
    <3>1. \A i \in 1 .. n : DataByte(i - 1) \in Byte
      <4>1. \A i \in 1 .. n : i - 1 \in Nat
        BY <2>2
      <4> QED
        BY <4>1, Bytes
    <3> QED
      BY <2>2, <3>1 DEF Channels
  <2>4. line' = line \o Frame(DataCh, d) /\ UNCHANGED <<requests, faults>>
    BY <2>1 DEF ModuleSends
  <2> HIDE DEF d
  <2>5. Frame(DataCh, d) \in Seq(Byte)
    BY <2>2, <2>3, FrameShape
  <2>6. PeerOK'
    BY <1>3, <2>4, <2>5 DEF PeerOK
  <2> QED
    BY <1>2, <2>6 DEF TypeInv
<1>6. CASE LineLoses
  <2>1. line # <<>> /\ line' = Tail(line) /\ faults' = faults + 1 /\ UNCHANGED requests
    BY <1>6 DEF LineLoses
  <2>2. PeerOK'
    BY <1>3, <2>1 DEF PeerOK
  <2> QED
    BY <1>2, <2>2 DEF TypeInv
<1> QED
  BY <1>4, <1>5, <1>6

LEMMA StutterTypes ==
  ASSUME TypeInv, UNCHANGED vars
  PROVE  TypeInv'
BY DEF TypeInv, RxOK, TxOK, CallOK, PeerOK, MemOK, vars, linkVars, taskVars, peerVars, history

LEMMA TypesHold == Spec => []TypeInv
<1>1. Init => TypeInv
  BY InitTypes
<1>2. TypeInv /\ [Next]_vars => TypeInv'
  BY CommandTypes, RecvSyncTypes, SendSyncTypes, ProcessRecvTypes, ProcessSendTypes,
     PostTypes, TimeoutTypes, PeerTypes, StutterTypes DEF Next
<1> QED
  BY <1>1, <1>2, PTL DEF Spec

\* The types, and the bytes received stay in the buffer.
LEMMA TypesSuffice == TypeInv => TypeOK /\ StaysInBuffer
<1> SUFFICES ASSUME TypeInv PROVE TypeOK /\ StaysInBuffer
  OBVIOUS
<1>1. rx \in RxState /\ RxFits(rx) /\ tx \in TxState
  BY DEF TypeInv, RxOK, TxOK
<1>2. StaysInBuffer
  BY <1>1 DEF RxFits, StaysInBuffer
<1>3. /\ rx.stat \in Receiving \cup {"IDLE", "PARTIAL"} /\ rx.frame_len \in 0 .. MaxLen
      /\ tx.stat \in {"IDLE", "STX", "CH_LENH", "LEN", "DATA", "ETX"}
      /\ \A f \in {rx.pos, rx.max, tx.pos, tx.total} : f \in 0 .. MaxLen
  BY <1>1 DEF RxState, TxState, RxStats, TxStats, Length, Receiving
<1>4. \A b \in {"cmd", "in"} : \A i \in 1 .. Len(mem[b]) : mem[b][i] \in Byte
  <2> SUFFICES ASSUME NEW b \in {"cmd", "in"}, NEW i \in 1 .. Len(mem[b]) PROVE mem[b][i] \in Byte
    OBVIOUS
  <2>1. mem[b] \in Seq(Byte)
    BY DEF TypeInv, MemOK
  <2> QED
    BY <2>1
<1>5. owed \in 0 .. MaxCalls /\ sup.pc \in {"run", "pend"}
  <2>1. owed \in Nat /\ owed <= sup.id /\ sup \in CallState
    BY DEF TypeInv, CallOK
  <2>2. sup.id \in 0 .. MaxCalls /\ sup.pc \in {"run", "pend"}
    BY <2>1 DEF CallState
  <2> QED
    BY <2>1, <2>2, Constants
<1>6. MW_CTRL_CH \in ch_enable /\ ch_enable \subseteq {MW_CTRL_CH, DataCh} /\ user \in {"run", "clear", "trap"}
  BY DEF TypeInv, CallOK, Channels
<1> QED
  BY <1>2, <1>3, <1>4, <1>5, <1>6 DEF TypeOK

-----------------------------------------------------------------------------
(* What is put on the line *)

\* The i-th byte of the buffer being sent.
Source(i) == IF tx.buf = "cmd" THEN mem["cmd"][i] ELSE SendByte(tx.base + i - 1)

WireInv ==
  ~clobbered =>
    /\ Len(up) <= Len(given.data) + 4
    /\ \A i \in 1 .. Len(up) : up[i] = Frame(given.ch, given.data)[i]
    /\ tx.stat # "IDLE" => \A i \in 1 .. Len(given.data) : given.data[i] = Source(i)

\* The next byte out is the next of the frame.
LEMMA ByteOutIsNext ==
  ASSUME TypeInv, WireInv, ~clobbered, tx.stat # "IDLE"
  PROVE  /\ Len(up) + 1 <= Len(given.data) + 4
         /\ ByteOut = Frame(given.ch, given.data)[Len(up) + 1]
         /\ tx.stat = "ETX" => Len(up) + 1 = Len(given.data) + 4
<1> DEFINE d == given.data
           c == given.ch
           F == Frame(c, d)
<1>1. /\ tx \in TxState /\ TxFits(tx, mem, Len(up)) /\ d \in Seq(Byte) /\ given.ch \in Channels
      /\ given.ch = tx.ch /\ Len(d) = tx.total /\ Len(d) \in Length /\ Len(d) \in Nat
  BY DEF TypeInv, TxOK
<1>2. /\ tx.stat \in TxStats /\ tx.pos \in Nat /\ tx.total \in Nat /\ tx.base \in Nat
      /\ tx.buf \in {"cmd", "data"}
  BY <1>1, LengthRange DEF TxState
<1>3. /\ F[1] = STX_ETX /\ F[2] = c * 16 + (Len(d) \div 256) /\ F[3] = Len(d) % 256
      /\ \A i \in 1 .. Len(d) : F[i + 3] = d[i]
      /\ F[Len(d) + 4] = STX_ETX
  <2>1. d \in Seq(Byte) /\ c \in Channels /\ Len(d) \in Length
    BY <1>1
  <2> HIDE DEF c, d
  <2> QED
    BY <2>1, FrameShape
<1>4. \A i \in 1 .. Len(d) : d[i] = Source(i)
  BY DEF WireInv
<1> HIDE DEF F, d, c
<1>5. CASE tx.stat = "STX"
  <2>1. Len(up) = 0 /\ ByteOut = STX_ETX
    BY <1>1, <1>5 DEF TxFits, ByteOut
  <2> QED
    BY <1>1, <1>3, <1>5, <2>1 DEF F, d, c
<1>6. CASE tx.stat = "CH_LENH"
  <2>1. Len(up) = 1 /\ ByteOut = tx.ch * 16 + (tx.total \div 256)
    BY <1>1, <1>6 DEF TxFits, ByteOut
  <2> QED
    BY <1>1, <1>3, <1>6, <2>1 DEF F, d, c
<1>7. CASE tx.stat = "LEN"
  <2>1. Len(up) = 2 /\ ByteOut = tx.total % 256
    BY <1>1, <1>7 DEF TxFits, ByteOut
  <2> QED
    BY <1>1, <1>3, <1>7, <2>1 DEF F, d, c
<1>8. CASE tx.stat = "DATA"
  <2>1. tx.pos < tx.total /\ Len(up) = 3 + tx.pos
    BY <1>1, <1>8 DEF TxFits
  <2>2. tx.pos + 1 \in 1 .. Len(d) /\ Len(up) + 1 = (tx.pos + 1) + 3
    BY <1>1, <1>2, <2>1
  <2>3. F[Len(up) + 1] = Source(tx.pos + 1)
    BY <1>3, <1>4, <2>2
  <2>4. tx.base + (tx.pos + 1) - 1 = tx.base + tx.pos
    BY <1>2
  <2>5. ByteOut = Source(tx.pos + 1)
    BY <1>8, <2>4 DEF ByteOut, Source
  <2> QED
    BY <1>1, <1>2, <1>8, <2>2, <2>3, <2>5 DEF F, d, c
<1>9. CASE tx.stat = "ETX"
  <2>1. tx.pos = tx.total /\ Len(up) = 3 + tx.pos /\ ByteOut = STX_ETX
    BY <1>1, <1>9 DEF TxFits, ByteOut
  <2>2. Len(up) + 1 = Len(d) + 4
    BY <1>1, <1>2, <2>1
  <2> QED
    BY <1>3, <2>1, <2>2, <1>1 DEF F, d, c
<1> QED
  BY <1>2, <1>5, <1>6, <1>7, <1>8, <1>9 DEF TxStats

\* A frame that is accepted starts afresh, one that is not leaves the other be.
LEMMA SendKeepsWire ==
  ASSUME TypeInv, WireInv, NEW ch, NEW buf, NEW base \in Nat, NEW data \in Seq(Byte), NEW cb,
         lsd_send(ch, buf, base, data, cb),
         mem' = mem \/ buf = "cmd",
         \A i \in 1 .. Len(data) :
           data[i] = IF buf = "cmd" THEN mem'["cmd"][i] ELSE SendByte(base + i - 1)
  PROVE  WireInv'
<1>1. CASE SendAccepted(ch)
  <2>1. /\ tx' = [stat |-> "STX", ch |-> ch, total |-> Len(data), pos |-> 0,
                 buf |-> buf, base |-> base, cb |-> cb]
        /\ up' = <<>> /\ given' = [ch |-> ch, data |-> data]
    BY <1>1 DEF lsd_send
  <2>2. tx'.buf = buf /\ tx'.base = base /\ given'.data = data /\ Len(up') = 0
    BY <2>1
  <2> QED
    BY <2>2 DEF WireInv, Source
<1>2. CASE ~SendAccepted(ch)
  <2>1. /\ clobbered' = (clobbered \/ (tx.stat # "IDLE" /\ tx.buf = "cmd" /\ buf = "cmd"))
        /\ UNCHANGED <<tx, up, given>>
    BY <1>2 DEF lsd_send
  <2>2. CASE clobbered'
    BY <2>2 DEF WireInv
  <2>3. CASE ~clobbered' /\ tx.stat # "IDLE"
    <3>1. ~clobbered /\ (mem' = mem \/ tx.buf # "cmd")
      BY <2>1, <2>3
    <3> QED
      BY <2>1, <3>1 DEF WireInv, Source
  <2>4. CASE ~clobbered' /\ tx.stat = "IDLE"
    BY <2>1, <2>4 DEF WireInv
  <2> QED
    BY <2>2, <2>3, <2>4
<1> QED
  BY <1>1, <1>2

\* A step that leaves the frame being sent and its buffer alone.
LEMMA WireStays ==
  ASSUME WireInv, UNCHANGED <<tx, up, given>>, clobbered' = clobbered, mem'["cmd"] = mem["cmd"]
  PROVE  WireInv'
BY DEF WireInv, Source

LEMMA WireStep ==
  ASSUME TypeInv, WireInv, [Next]_vars
  PROVE  WireInv'
<1>1. CASE \E k \in Kinds : mw_command(k)
  <2>1. PICK k \in Kinds : mw_command(k)
    BY <1>1
  <2> DEFINE cmd == <<Codes[k], (sup.id + 1) % 256>>
  <2>2. mem' = [mem EXCEPT !["cmd"] = cmd] /\ lsd_send(MW_CTRL_CH, "cmd", 0, cmd, FALSE)
    BY <2>1 DEF mw_command
  <2>3. cmd \in Seq(Byte)
    <3>1. sup.id \in Nat
      BY Constants DEF TypeInv, CallOK, CallState
    <3> QED
      BY <3>1, Bytes, ByteRange
  <2> HIDE DEF cmd
  <2>4. mem'["cmd"] = cmd
    BY <2>2 DEF TypeInv, MemOK
  <2> QED
    BY <2>2, <2>3, <2>4, SendKeepsWire
<1>2. CASE \E n \in RecvLens : mw_recv_sync(n)
  <2>1. /\ mem' = [mem EXCEPT !["in"] = <<>>] /\ up' = (IF tx.stat = "IDLE" THEN <<>> ELSE up)
        /\ UNCHANGED <<tx, given, clobbered>>
    BY <1>2 DEF mw_recv_sync
  <2>2. mem'["cmd"] = mem["cmd"]
    BY <2>1 DEF TypeInv, MemOK
  <2>3. CASE tx.stat = "IDLE"
    <3>1. Len(given.data) \in Nat /\ Len(up') = 0
      BY <2>1, <2>3 DEF TypeInv, TxOK
    <3> QED
      BY <2>1, <2>3, <3>1 DEF WireInv
  <2>4. CASE tx.stat # "IDLE"
    BY <2>1, <2>2, <2>4, WireStays
  <2> QED
    BY <2>3, <2>4
<1>3. CASE \E n \in SendLens : mw_send_sync(n)
  <2>1. PICK n \in SendLens : mw_send_sync(n)
    BY <1>3
  <2>2. lsd_send(DataCh, "data", 0, Chunk(0, n), TRUE) /\ mem' = mem
    BY <2>1 DEF mw_send_sync
  <2>3. Chunk(0, n) \in Seq(Byte) /\ \A i \in 1 .. Len(Chunk(0, n)) : Chunk(0, n)[i] = SendByte(0 + i - 1)
    BY ChunkShape, Constants
  <2> QED
    BY <2>2, <2>3, SendKeepsWire
<1>4. CASE ProcessRecv
  <2>1. /\ UNCHANGED <<tx, up, given>>
        /\ clobbered' = (clobbered \/ (rx.stat = "DATA" /\ rx.buf = tx.buf /\ tx.stat # "IDLE"))
        /\ mem' = IF rx.stat = "DATA" THEN [mem EXCEPT ![rx.buf] = Written(@, rx.pos, Head(line))] ELSE mem
    BY <1>4 DEF ProcessRecv
  <2>2. CASE clobbered'
    BY <2>2 DEF WireInv
  <2>3. CASE ~clobbered'
    <3>1. ~clobbered
      BY <2>1, <2>3
    <3>2. CASE tx.stat = "IDLE"
      BY <2>1, <3>1, <3>2 DEF WireInv
    <3>3. CASE tx.stat # "IDLE" /\ tx.buf = "cmd"
      <4>1. mem'["cmd"] = mem["cmd"]
        BY <2>1, <2>3, <3>3 DEF TypeInv, MemOK, RxOK, RxState
      <4> QED
        BY <2>1, <2>3, <3>1, <3>3, <4>1 DEF WireInv, Source
    <3>4. CASE tx.stat # "IDLE" /\ tx.buf # "cmd"
      BY <2>1, <3>1, <3>4 DEF WireInv, Source
    <3> QED
      BY <3>2, <3>3, <3>4
  <2> QED
    BY <2>2, <2>3
<1>5. CASE ProcessSend
  <2>1. /\ tx.stat # "IDLE" /\ tx' = Sent /\ up' = Append(up, ByteOut)
        /\ UNCHANGED <<mem, given, clobbered>>
    BY <1>5 DEF ProcessSend
  <2>2. SUFFICES ASSUME ~clobbered
                 PROVE  /\ Len(up') <= Len(given.data) + 4
                        /\ \A i \in 1 .. Len(up') : up'[i] = Frame(given.ch, given.data)[i]
                        /\ \A i \in 1 .. Len(given.data) : given.data[i] = Source(i)'
    BY <2>1 DEF WireInv
  <2>3. up \in Seq(Byte) /\ Sent.buf = tx.buf /\ Sent.base = tx.base /\ ByteOut \in Byte
    BY <2>1, SentTypes DEF TypeInv, TxOK
  <2>4. /\ Len(up') = Len(up) + 1 /\ up'[Len(up) + 1] = ByteOut
        /\ \A i \in 1 .. Len(up) : up'[i] = up[i]
    BY <2>1, <2>3
  <2>5. Len(up) + 1 <= Len(given.data) + 4 /\ ByteOut = Frame(given.ch, given.data)[Len(up) + 1]
    BY <2>1, <2>2, ByteOutIsNext
  <2>6. \A i \in 1 .. Len(up) : up[i] = Frame(given.ch, given.data)[i]
    BY <2>2 DEF WireInv
  <2>7. \A i \in 1 .. Len(up') : up'[i] = Frame(given.ch, given.data)[i]
    <3> SUFFICES ASSUME NEW i \in 1 .. Len(up') PROVE up'[i] = Frame(given.ch, given.data)[i]
      OBVIOUS
    <3>1. i \in 1 .. Len(up) \/ i = Len(up) + 1
      BY <2>3, <2>4
    <3> QED
      BY <2>4, <2>5, <2>6, <3>1
  <2>8. \A i : Source(i)' = Source(i)
    BY <2>1, <2>3 DEF Source
  <2>9. \A i \in 1 .. Len(given.data) : given.data[i] = Source(i)
    BY <2>1, <2>2 DEF WireInv
  <2> QED
    BY <2>4, <2>5, <2>7, <2>8, <2>9
<1>6. CASE Post
  <2>1. mem' = mem /\ (CommandResumes \/ RecvResumes \/ SendResumes)
    BY <1>6 DEF Post
  <2>2. CASE UNCHANGED <<tx, up, given, clobbered>>
    BY <2>1, <2>2, WireStays
  <2>3. CASE SendResumes
    <3> DEFINE n == sup.sent + Len(Chunk(sup.sent, sup.len))
    <3>1. sup.sent \in Nat /\ sup.len \in Length /\ sup.sent < sup.len
      BY <2>3 DEF SendResumes, TypeInv, CallOK, CallState
    <3>2. n \in Nat
      BY <3>1, ChunkShape
    <3>3. CASE n < sup.len
      <4>1. lsd_send(DataCh, "data", n, Chunk(n, sup.len), TRUE)
        BY <2>3, <3>3 DEF SendResumes
      <4> HIDE DEF n
      <4>2. /\ Chunk(n, sup.len) \in Seq(Byte)
            /\ \A i \in 1 .. Len(Chunk(n, sup.len)) : Chunk(n, sup.len)[i] = SendByte(n + i - 1)
        BY <3>1, <3>2, <3>3, ChunkShape
      <4> QED
        BY <2>1, <3>2, <4>1, <4>2, SendKeepsWire
    <3>4. CASE ~(n < sup.len)
      BY <2>2, <2>3, <3>4 DEF SendResumes
    <3> QED
      BY <3>3, <3>4
  <2> QED
    BY <2>1, <2>2, <2>3 DEF CommandResumes, RecvResumes
<1>7. CASE Timeout
  BY <1>7, WireStays DEF Timeout, linkVars
<1>8. CASE ModuleAnswers \/ (\E n \in DataLens : ModuleSends(n)) \/ LineLoses
  BY <1>8, WireStays DEF ModuleAnswers, ModuleSends, LineLoses, linkVars, history
<1>9. CASE UNCHANGED vars
  BY <1>9, WireStays DEF vars, linkVars, history
<1> QED
  BY <1>1, <1>2, <1>3, <1>4, <1>5, <1>6, <1>7, <1>8, <1>9 DEF Next

LEMMA WireSuffices == TypeInv /\ WireInv => WireIsGiven
<1> SUFFICES ASSUME TypeInv, WireInv, ~clobbered
             PROVE  IsPrefix(up, Frame(given.ch, given.data))
  BY DEF WireIsGiven
<1> DEFINE F == Frame(given.ch, given.data)
           n == Len(up)
<1>1. up \in Seq(Byte) /\ given.ch \in Channels /\ given.data \in Seq(Byte) /\ Len(given.data) \in Length
  BY DEF TypeInv, TxOK
<1>2. F \in Seq(Byte) /\ Len(F) = Len(given.data) + 4
  BY <1>1, FrameShape
<1>3. n <= Len(F) /\ \A i \in 1 .. n : up[i] = F[i]
  BY <1>2 DEF WireInv
<1> HIDE DEF F
<1>4. n \in Nat /\ Len(F) \in Nat /\ (\A i \in 1 .. n : up[i] \in Byte) /\ (\A i \in 1 .. n : F[i] \in Byte)
  BY <1>1, <1>2, <1>3
<1>5. /\ SubSeq(up, 1, n) \in Seq(Byte) /\ SubSeq(F, 1, n) \in Seq(Byte)
      /\ Len(SubSeq(up, 1, n)) = n /\ Len(SubSeq(F, 1, n)) = n
      /\ \A i \in 1 .. n : SubSeq(up, 1, n)[i] = up[i]
      /\ \A i \in 1 .. n : SubSeq(F, 1, n)[i] = F[i]
  BY <1>1, <1>2, <1>3, <1>4
<1>6. SubSeq(up, 1, n) = SubSeq(F, 1, n)
  BY <1>3, <1>5, SeqEqual
<1> QED
  BY <1>3, <1>6 DEF IsPrefix, F

\* No frame is torn on its way in or out: what recv_add stores stays in the
\* buffer, and what process_send puts out is the frame given to lsd_send.
THEOREM FramesAreWholeHolds == Spec => []FramesAreWhole
<1>1. Init => WireInv
  BY DEF Init, WireInv
<1>2. TypeInv /\ WireInv /\ [Next]_vars => WireInv'
  BY WireStep
<1>3. TypeInv /\ WireInv => FramesAreWhole
  BY TypesSuffice, WireSuffices DEF FramesAreWhole
<1> QED
  BY <1>1, <1>2, <1>3, TypesHold, PTL DEF Spec

-----------------------------------------------------------------------------
(* The receiver takes the next whole frame *)

\* The states of the receiver over five bytes, each of which it waits for.
LEMMA TakesFive ==
  ASSUME NEW bytes, Len(bytes) = 5, NEW r0, NEW r1, NEW r2, NEW r3, NEW r4, NEW r5,
         r0.stat \in Receiving, r1 = Received(r0, bytes[1]),
         r1.stat \in Receiving, r2 = Received(r1, bytes[2]),
         r2.stat \in Receiving, r3 = Received(r2, bytes[3]),
         r3.stat \in Receiving, r4 = Received(r3, bytes[4]),
         r4.stat \in Receiving, r5 = Received(r4, bytes[5])
  PROVE  Takes(r0, bytes) = r5
<1> DEFINE Step(f, n) == IF n = 0 THEN r0
                         ELSE IF f[n - 1].stat \in Receiving THEN Received(f[n - 1], bytes[n])
                         ELSE [f[n - 1] EXCEPT !.pos = -1]
           Is(f) == f = [n \in 0 .. Len(bytes) |-> Step(f, n)]
           g == [n \in 0 .. 5 |-> IF n = 0 THEN r0 ELSE IF n = 1 THEN r1 ELSE IF n = 2 THEN r2
                                  ELSE IF n = 3 THEN r3 ELSE IF n = 4 THEN r4 ELSE r5]
           after == CHOOSE f : Is(f)
<1>1. g[0] = r0 /\ g[1] = r1 /\ g[2] = r2 /\ g[3] = r3 /\ g[4] = r4 /\ g[5] = r5
  OBVIOUS
<1>2. \A n \in 0 .. 5 : Step(g, n) = g[n]
  <2> SUFFICES ASSUME NEW n \in 0 .. 5 PROVE Step(g, n) = g[n]
    OBVIOUS
  <2> HIDE DEF g
  <2>1. n \in {0, 1, 2, 3, 4, 5}
    OBVIOUS
  <2>2. CASE n = 0
    BY <1>1, <2>2
  <2>3. CASE n = 1
    BY <1>1, <2>3
  <2>4. CASE n = 2
    BY <1>1, <2>4
  <2>5. CASE n = 3
    BY <1>1, <2>5
  <2>6. CASE n = 4
    BY <1>1, <2>6
  <2>7. CASE n = 5
    BY <1>1, <2>7
  <2> QED
    BY <2>1, <2>2, <2>3, <2>4, <2>5, <2>6, <2>7
<1>3. Is(g)
  <2>1. g = [n \in 0 .. 5 |-> g[n]]
    OBVIOUS
  <2> HIDE DEF g, Step
  <2>2. g = [n \in 0 .. 5 |-> Step(g, n)]
    BY <1>2, <2>1
  <2> QED
    BY <2>2
<1> HIDE DEF g
<1>4. Is(after)
  <2> HIDE DEF Is
  <2> QED
    BY <1>3
<1> HIDE DEF after
<1>5. after = [n \in 0 .. 5 |-> Step(after, n)]
  BY <1>4
<1>6. \A n \in 0 .. 5 : after[n] = Step(after, n)
  <2> HIDE DEF Step
  <2> QED
    BY <1>5
<1>7. after[0] = r0
  BY <1>6
<1>8. after[1] = r1
  BY <1>6, <1>7
<1>9. after[2] = r2
  BY <1>6, <1>8
<1>10. after[3] = r3
  BY <1>6, <1>9
<1>11. after[4] = r4
  BY <1>6, <1>10
<1>12. after[5] = r5
  BY <1>6, <1>11
<1>13. Takes(r0, bytes) = after[Len(bytes)]
  BY DEF Takes, after
<1> QED
  BY <1>12, <1>13

LEMMA TypesTakeNextFrame == TypeInv => TakesNextFrame
<1> SUFFICES ASSUME TypeInv, rx.stat \in {"STX", "CH_LENH"}, NEW ch \in ch_enable
             PROVE  LET r == Takes(rx, Frame(ch, <<STX_ETX>>))
                    IN r.stat = "IDLE" /\ r.ch = ch /\ r.pos = 1
  BY DEF TakesNextFrame
<1> DEFINE d == <<STX_ETX>>
           F == Frame(ch, d)
<1>1. /\ rx \in RxState /\ ch \in Channels /\ ch \in {0, 1} /\ d \in Seq(Byte) /\ Len(d) = 1
  BY Bytes DEF TypeInv, RxOK, CallOK, Channels, MW_CTRL_CH, DataCh
<1>2. 1 \in Length /\ 1 \div 256 = 0 /\ 1 % 256 = 1
  BY LengthRange DEF MaxLen
<1>3. d[1] = STX_ETX
  OBVIOUS
<1> HIDE DEF d
<1>4. /\ Len(F) = 5 /\ F[1] = 126 /\ F[2] = ch * 16 /\ F[3] = 1 /\ F[4] = 126 /\ F[5] = 126
  <2>1. /\ Len(F) = Len(d) + 4 /\ F[1] = STX_ETX /\ F[2] = ch * 16 + (Len(d) \div 256)
        /\ F[3] = Len(d) % 256
        /\ \A i \in 1 .. Len(d) : F[i + 3] = d[i]
        /\ F[Len(d) + 4] = STX_ETX
    <3>1. ch \in Channels /\ d \in Seq(Byte) /\ Len(d) \in Length
      BY <1>1, <1>2
    <3> QED
      BY <3>1, FrameShape
  <2>2. F[1 + 3] = d[1]
    BY <1>1, <2>1
  <2> QED
    BY <1>1, <1>2, <1>3, <2>1, <2>2 DEF STX_ETX
<1> HIDE DEF F
<1> DEFINE r1 == Received(rx, F[1])
           r2 == Received(r1, F[2])
           r3 == Received(r2, F[3])
           r4 == Received(r3, F[4])
           r5 == Received(r4, F[5])
<1>5. r1 \in RxState /\ r1.stat = "CH_LENH"
  <2>1. CASE rx.stat = "STX"
    <3>1. r1 = [rx EXCEPT !.stat = "CH_LENH"]
      BY <1>4, <2>1 DEF Received, STX_ETX
    <3> HIDE DEF r1
    <3> QED
      BY <1>1, <3>1 DEF RxState, RxStats
  <2>2. CASE rx.stat = "CH_LENH"
    BY <1>1, <1>4, <2>2 DEF Received, ChannelReceived, STX_ETX
  <2> QED
    BY <2>1, <2>2
<1> HIDE DEF r1
<1>6. r2 \in RxState /\ r2.stat = "LEN" /\ r2.ch = ch /\ r2.frame_len = 0
  <2>1. ch * 16 # STX_ETX /\ (ch * 16) \div 16 = ch /\ ((ch * 16) % 16) * 256 = 0
    BY <1>1 DEF STX_ETX
  <2>2. r2 = [r1 EXCEPT !.ch = ch, !.frame_len = 0, !.stat = "LEN"]
    <3> DEFINE b == F[2]
    <3>1. b # STX_ETX /\ b \div 16 = ch /\ (b % 16) * 256 = 0
      BY <1>4, <2>1
    <3> HIDE DEF b
    <3>2. r2 = [r1 EXCEPT !.ch = b \div 16, !.frame_len = (b % 16) * 256,
                          !.stat = IF b \div 16 \in ch_enable THEN "LEN" ELSE "IDLE"]
      BY <1>5, <3>1 DEF Received, ChannelReceived, b
    <3> QED
      BY <3>1, <3>2
  <2>3. 0 \in Length /\ ch \in Nibble
    BY <1>1, LengthRange, NibbleRange
  <2> HIDE DEF r2
  <2> QED
    BY <1>5, <2>2, <2>3 DEF RxState, RxStats
<1> HIDE DEF r2
<1>7. r3 \in RxState /\ r3.stat = "DATA" /\ r3.ch = ch /\ r3.frame_len = 1 /\ r3.pos = 0
  <2>1. r3 = [r2 EXCEPT !.frame_len = 1, !.pos = 0, !.off = 0, !.torn = FALSE, !.stat = "DATA"]
    BY <1>4, <1>6 DEF Received
  <2>2. 0 \in Length /\ 1 \in Length
    BY <1>2, LengthRange
  <2> HIDE DEF r3
  <2> QED
    BY <1>6, <2>1, <2>2 DEF RxState, RxStats
<1> HIDE DEF r3
<1>8. r4 \in RxState /\ r4.stat = "ETX" /\ r4.ch = ch /\ r4.pos = 1
  <2>1. r4 = [r3 EXCEPT !.pos = 1, !.stat = "ETX"]
    BY <1>4, <1>7 DEF Received, RecvAdded
  <2> HIDE DEF r4
  <2>2. 1 \in Length
    BY <1>2
  <2> QED
    BY <1>7, <2>1, <2>2 DEF RxState, RxStats
<1> HIDE DEF r4
<1>9. r5.stat = "IDLE" /\ r5.ch = ch /\ r5.pos = 1
  <2>1. r5 = [r4 EXCEPT !.stat = "IDLE"]
    BY <1>8 DEF Received
  <2> HIDE DEF r5
  <2> QED
    BY <1>8, <2>1 DEF RxState
<1> HIDE DEF r5
<1>10. Takes(rx, F) = r5
  BY <1>4, <1>5, <1>6, <1>7, <1>8, TakesFive DEF r1, r2, r3, r4, r5, Receiving
<1> QED
  BY <1>9, <1>10 DEF F, d

\* Whatever was lost, a receiver that waits for a frame takes the next whole
\* one as it was sent.
THEOREM TakesNextFrameHolds == Spec => []TakesNextFrame
BY TypesHold, TypesTakeNextFrame, PTL

-----------------------------------------------------------------------------
(* mw_send_sync *)

\* The first n bytes of the game's data.
SentBytes(n) == [i \in 1 .. n |-> SendByte(i - 1)]

\* A clean send, with the receiver at rest: its chunk is on its way and those
\* before it have arrived, or it has arrived too and the sleeper is to be woken.
\* With the channel disabled lsd_send has refused, and nothing will happen.
SendInv ==
  sup.pc = "pend" /\ sup.op = "send" /\ sup.clean =>
    /\ rx.stat \notin Receiving
    /\ user \in {"run", "clear"}
    /\ DataCh \notin ch_enable => user = "run" /\ tx.stat = "IDLE"
    /\ DataCh \in ch_enable =>
         /\ user = "run" => /\ tx.stat # "IDLE" /\ ~clobbered /\ tx.ch = DataCh
                            /\ given.data = Chunk(sup.sent, sup.len)
                            /\ arrived = SentBytes(sup.sent)
         /\ user = "clear" => /\ tx.stat = "IDLE"
                              /\ arrived = SentBytes(sup.sent + Len(Chunk(sup.sent, sup.len)))

\* A whole frame's payload is the data given.
LEMMA PayloadIsGiven ==
  ASSUME TypeInv, WireInv, ~clobbered, tx.stat = "ETX"
  PROVE  Payload(Append(up, ByteOut)) = given.data
<1> DEFINE d == given.data
           c == given.ch
           F == Frame(c, d)
           u == Append(up, ByteOut)
<1>1. d \in Seq(Byte) /\ c \in Channels /\ Len(d) \in Length /\ up \in Seq(Byte) /\ Len(d) \in Nat
  BY LengthRange DEF TypeInv, TxOK
<1>2. ByteOut \in Byte
  BY SentTypes
<1>3. u \in Seq(Byte) /\ Len(u) = Len(up) + 1 /\ u[Len(up) + 1] = ByteOut /\ \A i \in 1 .. Len(up) : u[i] = up[i]
  BY <1>1, <1>2
<1>4. /\ Len(up) + 1 = Len(d) + 4 /\ ByteOut = F[Len(up) + 1]
      /\ \A i \in 1 .. Len(up) : up[i] = F[i]
  BY ByteOutIsNext DEF WireInv
<1> HIDE DEF c, d, u
<1>5. \A i \in 1 .. Len(d) : F[i + 3] = d[i]
  BY <1>1, FrameShape
<1> HIDE DEF F
<1>6. \A i \in 1 .. Len(d) : u[i + 3] = d[i]
  <2> TAKE i \in 1 .. Len(d)
  <2>1. i + 3 \in 1 .. Len(up)
    BY <1>1, <1>4
  <2> QED
    BY <1>3, <1>4, <1>5, <2>1
<1>7. Len(u) - 1 = Len(d) + 3 /\ \A i \in 4 .. Len(u) - 1 : u[i] \in Byte
  BY <1>1, <1>3, <1>4
<1> DEFINE p == SubSeq(u, 4, Len(u) - 1)
<1>8. p \in Seq(Byte) /\ Len(p) = Len(d) /\ \A i \in 1 .. Len(d) : p[i] = u[i + 3]
  <2>1. /\ p \in Seq(Byte)
        /\ Len(p) = IF 4 <= Len(u) - 1 THEN (Len(u) - 1) - 4 + 1 ELSE 0
        /\ \A i \in 1 .. (Len(u) - 1) - 4 + 1 : p[i] = u[4 + i - 1]
    <3>1. Len(u) - 1 \in Int /\ 4 \in Int
      BY <1>3
    <3> QED
      BY <1>7, <3>1, SubSeqProperties
  <2> HIDE DEF p
  <2>2. (Len(u) - 1) - 4 + 1 = Len(d)
    BY <1>1, <1>7
  <2>3. Len(p) = Len(d)
    BY <1>1, <1>7, <2>1
  <2>4. \A i \in 1 .. Len(d) : p[i] = u[i + 3]
    <3> TAKE i \in 1 .. Len(d)
    <3>1. 4 + i - 1 = i + 3
      OBVIOUS
    <3> QED
      BY <2>1, <2>2, <3>1
  <2> QED
    BY <2>1, <2>3, <2>4
<1> HIDE DEF p
<1>9. p = d
  BY <1>1, <1>6, <1>8, SeqEqual
<1> QED
  BY <1>9 DEF Payload, p, u, d

\* The bytes of a chunk follow those before it.
LEMMA ChunkFollows ==
  ASSUME NEW n \in Nat, NEW len \in Length, n < len
  PROVE  SentBytes(n) \o Chunk(n, len) = SentBytes(n + Len(Chunk(n, len)))
<1> DEFINE c == Chunk(n, len)
           m == Len(c)
           s == SentBytes(n)
           t == SentBytes(n + m)
<1>1. c \in Seq(Byte) /\ m \in Nat /\ \A i \in 1 .. m : c[i] = SendByte(n + i - 1)
  BY ChunkShape
<1> HIDE DEF c
<1>2. \A k \in Nat : SentBytes(k) \in Seq(Byte) /\ Len(SentBytes(k)) = k /\ \A i \in 1 .. k : SentBytes(k)[i] = SendByte(i - 1)
  <2> TAKE k \in Nat
  <2>1. \A i \in 1 .. k : SendByte(i - 1) \in Byte
    <3>1. \A i \in 1 .. k : i - 1 \in Nat
      OBVIOUS
    <3> QED
      BY <3>1, Bytes
  <2> QED
    BY <2>1 DEF SentBytes
<1>3. s \in Seq(Byte) /\ Len(s) = n /\ \A i \in 1 .. n : s[i] = SendByte(i - 1)
  BY <1>2
<1>4. t \in Seq(Byte) /\ Len(t) = n + m /\ \A i \in 1 .. n + m : t[i] = SendByte(i - 1)
  BY <1>1, <1>2
<1> HIDE DEF s, t
<1>5. /\ s \o c \in Seq(Byte) /\ Len(s \o c) = n + m
      /\ \A i \in 1 .. n + m : (s \o c)[i] = IF i <= n THEN s[i] ELSE c[i - n]
  BY <1>1, <1>3, Concat
<1>6. \A i \in 1 .. n + m : (s \o c)[i] = t[i]
  <2> SUFFICES ASSUME NEW i \in 1 .. n + m PROVE (s \o c)[i] = t[i]
    OBVIOUS
  <2>1. CASE i <= n
    BY <1>1, <1>3, <1>4, <1>5, <2>1
  <2>2. CASE ~(i <= n)
    <3>1. i - n \in 1 .. m /\ n + (i - n) - 1 = i - 1
      BY <1>1, <2>2
    <3> QED
      BY <1>1, <1>4, <1>5, <2>2, <3>1
  <2> QED
    BY <2>1, <2>2
<1>7. s \o c = t
  BY <1>1, <1>4, <1>5, <1>6, SeqEqual
<1> QED
  BY <1>7 DEF s, t, c

\* A chunk given to lsd_send by a clean send.
LEMMA ChunkSent ==
  ASSUME DataCh \in ch_enable, tx.stat = "IDLE", NEW data,
         NEW base, lsd_send(DataCh, "data", base, data, TRUE)
  PROVE  tx'.stat # "IDLE" /\ ~clobbered' /\ tx'.ch = DataCh /\ given'.data = data
BY DEF lsd_send, SendAccepted

\* What a return records.
LEMMA ReturnsRecord ==
  ASSUME NEW res, NEW ch, NEW n, Returns(res, ch, n)
  PROVE  /\ last'.op = sup.op /\ last'.res = res /\ last'.id = sup.id /\ last'.len = sup.len
         /\ last'.ch = ch /\ last'.off = rx.off /\ last'.torn = rx.torn
         /\ last'.clean = (sup.clean /\ ~(sup.op = "command" /\ clobbered))
         /\ last'.reply = IF sup.op = "command" THEN mem["cmd"][2] ELSE 0
         /\ last'.data = SubSeq(mem["in"], 1, IF n < Len(mem["in"]) THEN n ELSE Len(mem["in"]))
BY DEF Returns

\* A call begins.
LEMMA CallsRecord ==
  ASSUME NEW op, NEW kind, NEW len, NEW clean, Calls(op, kind, len, clean)
  PROVE  /\ sup'.pc = "pend" /\ sup'.op = op /\ sup'.id = sup.id + 1 /\ sup'.len = len /\ sup'.sent = 0
         /\ sup'.clean = (clean /\ user = "run")
         /\ md'.set = FALSE /\ md'.ch = 0
         /\ arrived' = <<>> /\ last' = NoResult /\ last'.op = "none"
         /\ UNCHANGED <<user, ch_enable, line, requests, faults, refused>>
BY DEF Calls, NoResult, peerVars

LEMMA SendStep ==
  ASSUME TypeInv, WireInv, SendInv, [Next]_vars, sup'.pc = "pend", sup'.op = "send", sup'.clean
  PROVE  SendInv'
<1>0. sup \in CallState /\ sup.sent \in Nat /\ sup.len \in Length /\ DataCh # MW_CTRL_CH
  BY DEF TypeInv, CallOK, CallState, DataCh, MW_CTRL_CH
<1>1. CASE \E k \in Kinds : mw_command(k)
  <2>1. PICK k \in Kinds : Calls("command", k, 0, tx.stat = "IDLE" /\ owed = 0)
    BY <1>1 DEF mw_command
  <2>2. sup'.op = "command"
    BY <2>1, CallsRecord
  <2> QED
    BY <2>2
<1>2. CASE \E n \in RecvLens : mw_recv_sync(n)
  <2>1. PICK n \in RecvLens : Calls("recv", "open", n, TRUE)
    BY <1>2 DEF mw_recv_sync
  <2>2. sup'.op = "recv"
    BY <2>1, CallsRecord
  <2> QED
    BY <2>2
<1>3. CASE \E n \in SendLens : mw_send_sync(n)
  <2>1. PICK n \in SendLens : mw_send_sync(n)
    BY <1>3
  <2>2. /\ Calls("send", "open", n, tx.stat = "IDLE" /\ rx.stat \notin Receiving)
        /\ lsd_send(DataCh, "data", 0, Chunk(0, n), TRUE) /\ UNCHANGED rx
    BY <2>1 DEF mw_send_sync
  <2>3. /\ sup'.len = n /\ sup'.sent = 0 /\ arrived' = <<>> /\ UNCHANGED <<user, ch_enable>>
        /\ sup'.clean = ((tx.stat = "IDLE" /\ rx.stat \notin Receiving) /\ user = "run")
    BY <2>2, CallsRecord
  <2>4. tx.stat = "IDLE" /\ rx.stat \notin Receiving /\ user = "run"
    BY <2>3
  <2>5. SentBytes(0) = <<>>
    BY DEF SentBytes
  <2>6. DataCh \in ch_enable =>
          tx'.stat # "IDLE" /\ ~clobbered' /\ tx'.ch = DataCh /\ given'.data = Chunk(0, n)
    BY <2>2, <2>4, ChunkSent
  <2>7. DataCh \notin ch_enable => tx' = tx
    BY <2>2 DEF lsd_send, SendAccepted
  <2> QED
    BY <2>2, <2>3, <2>4, <2>5, <2>6, <2>7 DEF SendInv
<1>4. CASE ProcessRecv
  BY <1>4 DEF ProcessRecv, SendInv
<1>5. CASE ProcessSend
  <2>1. /\ user = "run" /\ tx.stat # "IDLE" /\ tx' = Sent /\ up' = Append(up, ByteOut)
        /\ user' = (IF tx'.stat = "IDLE" /\ tx.cb THEN "clear" ELSE "run")
        /\ IF tx'.stat = "IDLE" /\ tx.ch = DataCh
           THEN arrived' = arrived \o Payload(up') ELSE UNCHANGED arrived
        /\ UNCHANGED <<rx, ch_enable, sup, given, clobbered>>
    BY <1>5 DEF ProcessSend, UserRuns
  <2>2. /\ rx.stat \notin Receiving /\ DataCh \in ch_enable /\ ~clobbered /\ tx.ch = DataCh
        /\ given.data = Chunk(sup.sent, sup.len) /\ arrived = SentBytes(sup.sent)
    BY <2>1 DEF SendInv
  <2>3. Sent.ch = tx.ch /\ tx.cb
    BY <1>0, <2>1, <2>2, SentTypes DEF TypeInv, TxOK, TxFits
  <2>4. CASE tx'.stat # "IDLE"
    BY <2>1, <2>2, <2>3, <2>4 DEF SendInv
  <2>5. CASE tx'.stat = "IDLE"
    <3>1. tx.stat = "ETX"
      BY <2>1, <2>5 DEF Sent, TypeInv, TxOK, TxState, TxStats
    <3>2. Payload(up') = Chunk(sup.sent, sup.len)
      BY <2>1, <2>2, <3>1, PayloadIsGiven
    <3>3. sup.sent < sup.len
      BY <2>1 DEF TypeInv, CallOK
    <3>4. arrived' = SentBytes(sup.sent + Len(Chunk(sup.sent, sup.len)))
      BY <1>0, <2>1, <2>2, <2>5, <3>2, <3>3, ChunkFollows
    <3> QED
      BY <2>1, <2>2, <2>3, <2>5, <3>4 DEF SendInv
  <2> QED
    BY <2>4, <2>5
<1>6. CASE Post
  <2>1. /\ sup.pc = "pend" /\ user \in {"clear", "trap"} /\ UNCHANGED <<mem, arrived>>
        /\ CommandResumes \/ RecvResumes \/ SendResumes
    BY <1>6 DEF Post
  <2>2. CASE CommandResumes
    <3>1. sup.op = "command"
      BY <2>2 DEF CommandResumes
    <3>2. sup'.op = sup.op
      <4>1. CASE \E res, ch : Returns(res, ch, 0)
        BY <4>1, ReturnsTypes
      <4>2. CASE sup' = [sup EXCEPT !.clean = @ /\ user' = "run"]
        BY <1>0, <4>2 DEF CallState
      <4> QED
        BY <2>2, <4>1, <4>2 DEF CommandResumes
    <3> QED
      BY <3>1, <3>2
  <2>3. CASE RecvResumes
    BY <2>3, ReturnsTypes DEF RecvResumes
  <2>4. CASE SendResumes
    <3> DEFINE n == sup.sent + Len(Chunk(sup.sent, sup.len))
               c == sup.clean /\ user' = "run"
    <3>1. n < sup.len /\ sup.op = "send"
      <4>1. CASE ~(n < sup.len)
        BY <2>4, <4>1, ReturnsTypes DEF SendResumes
      <4> QED
        BY <2>4, <4>1 DEF SendResumes
    <3>2. /\ lsd_send(DataCh, "data", n, Chunk(n, sup.len), TRUE)
          /\ sup' = [sup EXCEPT !.sent = n, !.clean = c] /\ UNCHANGED <<rx, ch_enable>>
      BY <2>4, <3>1 DEF SendResumes
    <3>3. n \in Nat /\ c \in BOOLEAN
      <4>1. sup.sent < sup.len
        BY <3>1 DEF TypeInv, CallOK
      <4>2. Len(Chunk(sup.sent, sup.len)) \in Nat
        BY <1>0, <4>1, ChunkShape, LengthRange
      <4>3. sup.clean \in BOOLEAN
        BY <1>0 DEF CallState
      <4> QED
        BY <1>0, <4>2, <4>3
    <3> HIDE DEF c
    <3>4. sup'.sent = n /\ sup'.len = sup.len /\ sup'.clean = c
      BY <1>0, <3>2, <3>3 DEF CallState
    <3>5. sup.clean /\ user' = "run"
      BY <3>4 DEF c
    <3>6. /\ rx.stat \notin Receiving /\ user = "clear" /\ DataCh \in ch_enable
          /\ tx.stat = "IDLE" /\ arrived = SentBytes(n)
      BY <2>1, <3>1, <3>5 DEF SendInv
    <3> HIDE DEF n
    <3>7. tx'.stat # "IDLE" /\ ~clobbered' /\ tx'.ch = DataCh /\ given'.data = Chunk(n, sup.len)
      BY <3>2, <3>6, ChunkSent
    <3> QED
      BY <2>1, <3>2, <3>4, <3>5, <3>6, <3>7 DEF SendInv
  <2> QED
    BY <2>1, <2>2, <2>3, <2>4
<1>7. CASE Timeout
  BY <1>7, ReturnsTypes DEF Timeout
<1>8. CASE ModuleAnswers \/ (\E n \in DataLens : ModuleSends(n)) \/ LineLoses
  BY <1>8 DEF ModuleAnswers, ModuleSends, LineLoses, linkVars, history, taskVars, SendInv
<1>9. CASE UNCHANGED vars
  BY <1>9 DEF vars, linkVars, history, taskVars, SendInv
<1> QED
  BY <1>1, <1>2, <1>3, <1>4, <1>5, <1>6, <1>7, <1>8, <1>9 DEF Next

\* What is recorded of a send.
LEMMA SuccessStep ==
  ASSUME TypeInv, SendInv, SuccessMeansSent, [Next]_vars
  PROVE  SuccessMeansSent'
<1>0. sup \in CallState /\ sup.sent \in Nat /\ sup.len \in Length /\ sup.len \in Nat
  BY LengthRange DEF TypeInv, CallOK, CallState
<1>1. CASE (\E k \in Kinds : mw_command(k)) \/ (\E n \in RecvLens : mw_recv_sync(n))
           \/ (\E n \in SendLens : mw_send_sync(n))
  BY <1>1, CallsRecord DEF mw_command, mw_recv_sync, mw_send_sync, SuccessMeansSent
<1>2. CASE ProcessRecv
  BY <1>2 DEF ProcessRecv, SuccessMeansSent
<1>3. CASE ProcessSend
  BY <1>3 DEF ProcessSend, UserRuns, SuccessMeansSent
<1>4. CASE Post
  <2>1. /\ sup.pc = "pend" /\ user \in {"clear", "trap"} /\ UNCHANGED arrived
        /\ CommandResumes \/ RecvResumes \/ SendResumes
    BY <1>4 DEF Post
  <2>2. CASE CommandResumes
    <3>1. CASE \E res, ch : Returns(res, ch, 0)
      BY <2>2, <3>1, ReturnsRecord DEF CommandResumes, SuccessMeansSent
    <3>2. CASE sup' = [sup EXCEPT !.clean = @ /\ user' = "run"]
      <4>1. sup'.pc = "pend"
        BY <1>0, <2>1, <3>2 DEF CallState
      <4> QED
        BY <4>1 DEF SuccessMeansSent
    <3> QED
      BY <2>2, <3>1, <3>2 DEF CommandResumes
  <2>3. CASE RecvResumes
    BY <2>3, ReturnsRecord DEF RecvResumes, SuccessMeansSent
  <2>4. CASE SendResumes
    <3> DEFINE n == sup.sent + Len(Chunk(sup.sent, sup.len))
    <3>1. CASE n < sup.len
      <4>1. sup' = [sup EXCEPT !.sent = n, !.clean = @ /\ user' = "run"]
        BY <2>4, <3>1 DEF SendResumes
      <4>2. sup'.pc = "pend"
        BY <1>0, <2>1, <4>1 DEF CallState
      <4> QED
        BY <4>2 DEF SuccessMeansSent
    <3>2. CASE ~(n < sup.len)
      <4>1. Returns("ok", DataCh, 0) /\ sup.op = "send" /\ sup.sent < sup.len
        BY <2>4, <3>2 DEF SendResumes, TypeInv, CallOK
      <4>2. last'.op = "send" /\ last'.len = sup.len /\ (last'.clean => sup.clean)
        BY <4>1, ReturnsRecord
      <4>3. n = sup.len
        <5>1. n <= sup.len /\ Len(Chunk(sup.sent, sup.len)) \in Nat
          BY <1>0, <4>1, ChunkShape, LengthRange
        <5> QED
          BY <1>0, <3>2, <5>1
      <4>4. sup.clean => arrived = SentBytes(sup.len)
        BY <2>1, <4>1, <4>3 DEF SendInv
      <4> QED
        BY <2>1, <4>2, <4>4 DEF SuccessMeansSent, SentBytes
    <3> QED
      BY <3>1, <3>2
  <2> QED
    BY <2>1, <2>2, <2>3, <2>4
<1>5. CASE Timeout
  BY <1>5, ReturnsRecord DEF Timeout, SuccessMeansSent
<1>6. CASE ModuleAnswers \/ (\E n \in DataLens : ModuleSends(n)) \/ LineLoses
  BY <1>6 DEF ModuleAnswers, ModuleSends, LineLoses, history, taskVars, SuccessMeansSent
<1>7. CASE UNCHANGED vars
  BY <1>7 DEF vars, history, taskVars, SuccessMeansSent
<1> QED
  BY <1>1, <1>2, <1>3, <1>4, <1>5, <1>6, <1>7 DEF Next

-----------------------------------------------------------------------------
(* mw_recv_sync *)

\* From byte j of L on, m bytes of a data frame, the first of them its k-th,
\* and its end.
Rest(L, j, m, k) ==
  /\ j + m <= Len(L) /\ L[j + m] = STX_ETX
  /\ \A i \in 0 .. m - 1 : L[j + i] = DataByte(k + i)

\* From byte j of L on, a data frame without its STX.
DataFrame(L, j) ==
  \E n \in Length :
    /\ n > 0 /\ j < Len(L)
    /\ L[j] = 16 + (n \div 256) /\ L[j + 1] = n % 256 /\ Rest(L, j + 2, n, 0)

\* A framing byte is followed by a byte of channel 1 only at the start of a
\* data frame, not inside one or across two.
LineOK(L) ==
  \A j \in 1 .. Len(L) - 1 : L[j] = STX_ETX /\ L[j + 1] \div 16 = DataCh => DataFrame(L, j + 1)

\* Bytes of the frame in progress that recv_add has still to store.
Left(r) == IF r.stat = "DATA" THEN r.frame_len - r.pos ELSE r.frame_len

\* What has not been received of a data frame is next on the line.
InStep(r, L) ==
  /\ r.stat = "CH_LENH" /\ L # <<>> /\ L[1] \div 16 = DataCh => DataFrame(L, 1)
  /\ r.ch = DataCh =>
       /\ r.stat = "LEN" => \E n \in Length : /\ n > 0 /\ L # <<>> /\ r.frame_len = (n \div 256) * 256
                                               /\ L[1] = n % 256 /\ Rest(L, 2, n, 0)
       /\ r.stat \in {"DATA", "PARTIAL"} => Rest(L, 1, Left(r), r.off + r.pos)
       /\ r.stat = "ETX" => r.pos > 0 /\ L # <<>> /\ L[1] = STX_ETX

\* The buffer holds n bytes of the module's data, from the k-th on.
Holds(buf, n, k) == n <= Len(buf) /\ \A i \in 1 .. n : buf[i] = DataByte(k + i - 1)

\* What has been received of it is in the buffer.
Stored(r, m) ==
  r.ch = DataCh /\ r.buf = "in" /\ ~r.torn /\ r.stat \in {"DATA", "ETX", "PARTIAL"}
    => Holds(m["in"], r.pos, r.off)

LinkInv == faults = 0 => LineOK(line) /\ InStep(rx, line) /\ Stored(rx, mem)

\* What recv_complete has reported to mw_recv_sync is in its buffer.
MetaInv ==
  /\ ~md.set => md.ch = 0
  /\ sup.pc = "pend" /\ sup.op = "recv" =>
       /\ rx.buf = "in"
       /\ md.set => /\ user = "clear"
                    /\ faults = 0 /\ md.ch = DataCh /\ ~rx.torn
                         => md.len > 0 /\ Holds(mem["in"], md.len, rx.off)

LEMMA RestGrows ==
  ASSUME NEW L \in Seq(Byte), NEW M \in Seq(Byte), NEW j \in Nat, j > 0, NEW m \in Nat, NEW k \in Nat,
         Rest(L, j, m, k)
  PROVE  Rest(L \o M, j, m, k)
<1>1. j + m <= Len(L) /\ L[j + m] = STX_ETX /\ \A i \in 0 .. m - 1 : L[j + i] = DataByte(k + i)
  BY DEF Rest
<1>2. Len(L \o M) = Len(L) + Len(M) /\ \A i \in 1 .. Len(L) : (L \o M)[i] = L[i]
  BY Concat
<1>3. \A i \in 0 .. m - 1 : (L \o M)[j + i] = L[j + i]
  BY <1>1, <1>2
<1>4. (L \o M)[j + m] = L[j + m] /\ j + m <= Len(L \o M)
  BY <1>1, <1>2
<1>5. \A i \in 0 .. m - 1 : (L \o M)[j + i] = DataByte(k + i)
  BY <1>1, <1>3
<1> QED
  BY <1>1, <1>4, <1>5 DEF Rest

LEMMA TailShape ==
  ASSUME NEW L \in Seq(Byte), L # <<>>
  PROVE  /\ Tail(L) \in Seq(Byte) /\ Len(Tail(L)) = Len(L) - 1 /\ Head(L) = L[1] /\ L[1] \in Byte
         /\ Len(L) > 0
         /\ \A i \in 1 .. Len(L) - 1 : Tail(L)[i] = L[i + 1]
OBVIOUS

LEMMA RestShrinks ==
  ASSUME NEW L \in Seq(Byte), L # <<>>, NEW j \in Nat, j > 0, NEW m \in Nat, NEW k \in Nat,
         Rest(L, j + 1, m, k)
  PROVE  Rest(Tail(L), j, m, k)
<1>1. (j + 1) + m <= Len(L) /\ L[(j + 1) + m] = STX_ETX /\ \A i \in 0 .. m - 1 : L[(j + 1) + i] = DataByte(k + i)
  BY DEF Rest
<1>2. Len(Tail(L)) = Len(L) - 1 /\ \A i \in 1 .. Len(L) - 1 : Tail(L)[i] = L[i + 1]
  BY TailShape
<1>3. \A i \in 0 .. m - 1 : Tail(L)[j + i] = L[(j + 1) + i]
  <2> SUFFICES ASSUME NEW i \in 0 .. m - 1 PROVE Tail(L)[j + i] = L[(j + 1) + i]
    OBVIOUS
  <2>1. j + i \in 1 .. Len(L) - 1 /\ (j + i) + 1 = (j + 1) + i
    BY <1>1
  <2> QED
    BY <1>2, <2>1
<1>4. Tail(L)[j + m] = L[(j + 1) + m]
  <2>1. j + m \in 1 .. Len(L) - 1 /\ (j + m) + 1 = (j + 1) + m
    BY <1>1
  <2> QED
    BY <1>2, <2>1
<1>5. \A i \in 0 .. m - 1 : Tail(L)[j + i] = DataByte(k + i)
  BY <1>1, <1>3
<1>6. j + m <= Len(Tail(L))
  BY <1>1, <1>2
<1> QED
  BY <1>1, <1>4, <1>5, <1>6 DEF Rest

LEMMA RestStarts ==
  ASSUME NEW L \in Seq(Byte), NEW m \in Nat, m > 0, NEW k \in Nat, Rest(L, 1, m, k)
  PROVE  L # <<>> /\ L[1] = DataByte(k) /\ Rest(Tail(L), 1, m - 1, k + 1)
<1>1. 1 + m <= Len(L) /\ L[1 + m] = STX_ETX /\ \A i \in 0 .. m - 1 : L[1 + i] = DataByte(k + i)
  BY DEF Rest
<1>2. L # <<>>
  BY <1>1
<1>3. L[1 + 0] = DataByte(k + 0)
  BY <1>1
<1>4. Rest(L, 2, m - 1, k + 1)
  <2>1. \A i \in 0 .. (m - 1) - 1 : L[2 + i] = DataByte((k + 1) + i)
    <3> SUFFICES ASSUME NEW i \in 0 .. (m - 1) - 1 PROVE L[2 + i] = DataByte((k + 1) + i)
      OBVIOUS
    <3>1. i + 1 \in 0 .. m - 1 /\ 1 + (i + 1) = 2 + i /\ k + (i + 1) = (k + 1) + i
      OBVIOUS
    <3> QED
      BY <1>1, <3>1
  <2>2. 2 + (m - 1) = 1 + m
    OBVIOUS
  <2> QED
    BY <1>1, <2>1, <2>2 DEF Rest
<1>5. Rest(Tail(L), 1, m - 1, k + 1)
  <2>1. 1 + 1 = 2 /\ m - 1 \in Nat /\ k + 1 \in Nat
    OBVIOUS
  <2> QED
    BY <1>2, <1>4, <2>1, RestShrinks
<1> QED
  BY <1>2, <1>3, <1>5

LEMMA DataFrameGrows ==
  ASSUME NEW L \in Seq(Byte), NEW M \in Seq(Byte), NEW j \in Nat, j > 0, DataFrame(L, j)
  PROVE  DataFrame(L \o M, j)
<1>1. PICK n \in Length : /\ n > 0 /\ j < Len(L) /\ L[j] = 16 + (n \div 256) /\ L[j + 1] = n % 256
                          /\ Rest(L, j + 2, n, 0)
  BY DEF DataFrame
<1>2. n \in Nat /\ j + 2 \in Nat
  BY LengthRange
<1>3. Rest(L \o M, j + 2, n, 0)
  BY <1>1, <1>2, RestGrows
<1>4. Len(L \o M) = Len(L) + Len(M) /\ \A i \in 1 .. Len(L) : (L \o M)[i] = L[i]
  BY Concat
<1>5. (L \o M)[j] = L[j] /\ (L \o M)[j + 1] = L[j + 1] /\ j < Len(L \o M)
  BY <1>1, <1>4
<1> QED
  BY <1>1, <1>3, <1>5 DEF DataFrame

LEMMA DataFrameShrinks ==
  ASSUME NEW L \in Seq(Byte), L # <<>>, NEW j \in Nat, j > 0, DataFrame(L, j + 1)
  PROVE  DataFrame(Tail(L), j)
<1>1. PICK n \in Length : /\ n > 0 /\ j + 1 < Len(L) /\ L[j + 1] = 16 + (n \div 256) /\ L[(j + 1) + 1] = n % 256
                          /\ Rest(L, (j + 1) + 2, n, 0)
  BY DEF DataFrame
<1>2. n \in Nat /\ (j + 1) + 2 = (j + 2) + 1 /\ j + 2 \in Nat
  BY LengthRange
<1>3. Rest(Tail(L), j + 2, n, 0)
  BY <1>1, <1>2, RestShrinks
<1>4. Len(Tail(L)) = Len(L) - 1 /\ \A i \in 1 .. Len(L) - 1 : Tail(L)[i] = L[i + 1]
  BY TailShape
<1>5. Tail(L)[j] = L[j + 1] /\ Tail(L)[j + 1] = L[(j + 1) + 1] /\ j < Len(Tail(L))
  BY <1>1, <1>4
<1> QED
  BY <1>1, <1>3, <1>5 DEF DataFrame

LEMMA LineShrinks ==
  ASSUME NEW L \in Seq(Byte), L # <<>>, LineOK(L)
  PROVE  LineOK(Tail(L))
<1>1. Len(Tail(L)) = Len(L) - 1 /\ \A i \in 1 .. Len(L) - 1 : Tail(L)[i] = L[i + 1]
  BY TailShape
<1> SUFFICES ASSUME NEW j \in 1 .. Len(Tail(L)) - 1, Tail(L)[j] = STX_ETX, Tail(L)[j + 1] \div 16 = DataCh
             PROVE  DataFrame(Tail(L), j + 1)
  BY DEF LineOK
<1>2. /\ j + 1 \in 1 .. Len(L) - 1 /\ L[j + 1] = STX_ETX /\ L[(j + 1) + 1] \div 16 = DataCh
      /\ j + 1 \in Nat /\ j + 1 > 0
  BY <1>1
<1>3. DataFrame(L, (j + 1) + 1)
  BY <1>2 DEF LineOK
<1> QED
  BY <1>2, <1>3, DataFrameShrinks

\* A framing byte is followed by one of channel 1 only at the start.
Framed(F) == \A j \in 1 .. Len(F) - 1 : F[j] = STX_ETX /\ F[j + 1] \div 16 = DataCh
                                          => j = 1 /\ DataFrame(F, 2)

LEMMA LineGrows ==
  ASSUME NEW L \in Seq(Byte), NEW F \in Seq(Byte), LineOK(L), F # <<>>, F[1] = STX_ETX, Framed(F)
  PROVE  LineOK(L \o F)
<1>1. /\ L \o F \in Seq(Byte) /\ Len(L \o F) = Len(L) + Len(F)
      /\ \A i \in 1 .. Len(L) + Len(F) : (L \o F)[i] = IF i <= Len(L) THEN L[i] ELSE F[i - Len(L)]
  BY Concat
<1>2. Len(F) \in Nat /\ Len(F) > 0 /\ Len(L) \in Nat
  OBVIOUS
<1> SUFFICES ASSUME NEW j \in 1 .. Len(L \o F) - 1, (L \o F)[j] = STX_ETX, (L \o F)[j + 1] \div 16 = DataCh
             PROVE  DataFrame(L \o F, j + 1)
  BY DEF LineOK
<1>3. CASE j < Len(L)
  <2>1. L[j] = STX_ETX /\ L[j + 1] \div 16 = DataCh /\ j \in 1 .. Len(L) - 1
    BY <1>1, <1>2, <1>3
  <2>2. DataFrame(L, j + 1)
    BY <2>1 DEF LineOK
  <2> QED
    BY <2>2, DataFrameGrows
<1>4. CASE j = Len(L)
  <2>1. (L \o F)[j + 1] = F[1]
    BY <1>1, <1>2, <1>4
  <2> QED
    BY <2>1 DEF STX_ETX, DataCh
<1>5. CASE j > Len(L)
  <2> DEFINE i == j - Len(L)
  <2>1. i \in 1 .. Len(F) - 1 /\ F[i] = STX_ETX /\ F[i + 1] \div 16 = DataCh
    <3>1. i \in 1 .. Len(F) - 1
      BY <1>1, <1>2, <1>5
    <3>2. (L \o F)[j] = F[j - Len(L)] /\ (L \o F)[j + 1] = F[(j + 1) - Len(L)]
      BY <1>1, <1>2, <1>5
    <3>3. (j + 1) - Len(L) = i + 1
      BY <1>2
    <3> QED
      BY <3>1, <3>2, <3>3
  <2>2. i = 1 /\ DataFrame(F, 2)
    BY <2>1 DEF Framed
  <2>3. j + 1 = Len(L) + 2
    BY <1>2, <2>2
  <2>4. PICK n \in Length : /\ n > 0 /\ 2 < Len(F) /\ F[2] = 16 + (n \div 256) /\ F[2 + 1] = n % 256
                            /\ Rest(F, 2 + 2, n, 0)
    BY <2>2 DEF DataFrame
  <2>5. n \in Nat
    BY LengthRange
  <2>6. (L \o F)[j + 1] = F[2] /\ (L \o F)[(j + 1) + 1] = F[2 + 1] /\ j + 1 < Len(L \o F)
    BY <1>1, <1>2, <2>3, <2>4
  <2>7. Rest(L \o F, (j + 1) + 2, n, 0)
    <3>1. 4 + n <= Len(F) /\ F[4 + n] = STX_ETX /\ \A k \in 0 .. n - 1 : F[4 + k] = DataByte(0 + k)
      BY <2>4 DEF Rest
    <3>2. (j + 1) + 2 = Len(L) + 4
      BY <1>2, <2>3
    <3>3. \A k \in 0 .. n : (L \o F)[(Len(L) + 4) + k] = F[4 + k]
      <4> SUFFICES ASSUME NEW k \in 0 .. n PROVE (L \o F)[(Len(L) + 4) + k] = F[4 + k]
        OBVIOUS
      <4>1. /\ (Len(L) + 4) + k \in 1 .. Len(L) + Len(F) /\ ~((Len(L) + 4) + k <= Len(L))
            /\ ((Len(L) + 4) + k) - Len(L) = 4 + k
        BY <1>2, <2>5, <3>1
      <4> QED
        BY <1>1, <4>1
    <3>4. (Len(L) + 4) + n <= Len(L \o F) /\ n \in 0 .. n /\ \A k \in 0 .. n - 1 : k \in 0 .. n
      BY <1>1, <1>2, <2>5, <3>1
    <3> QED
      BY <3>1, <3>2, <3>3, <3>4 DEF Rest
  <2> QED
    BY <2>4, <2>6, <2>7 DEF DataFrame
<1> QED
  BY <1>2, <1>3, <1>4, <1>5

LEMMA AnswerFramed ==
  ASSUME NEW res \in {MW_CMD_OK, MW_CMD_ERROR}, NEW b \in Byte
  PROVE  LET F == Frame(MW_CTRL_CH, <<res, b>>) IN
         /\ F \in Seq(Byte) /\ Len(F) = 6
         /\ F[1] = STX_ETX /\ F[2] = 0 /\ F[3] = 2 /\ F[4] = res /\ F[5] = b /\ F[6] = STX_ETX
         /\ Framed(F)
<1> DEFINE d == <<res, b>>
           F == Frame(MW_CTRL_CH, d)
<1>1. res \in Byte /\ MW_CTRL_CH \in Channels /\ MW_CTRL_CH = 0 /\ res \in {0, 1}
  BY Bytes DEF Channels, MW_CTRL_CH, MW_CMD_OK, MW_CMD_ERROR
<1>2. d \in Seq(Byte) /\ Len(d) = 2 /\ d[1] = res /\ d[2] = b
  BY <1>1
<1>3. 2 \in Length /\ 2 \div 256 = 0 /\ 2 % 256 = 2
  BY LengthRange DEF MaxLen
<1> HIDE DEF d
<1>4. /\ F \in Seq(Byte) /\ Len(F) = 6
      /\ F[1] = STX_ETX /\ F[2] = 0 /\ F[3] = 2 /\ F[4] = res /\ F[5] = b /\ F[6] = STX_ETX
  <2>1. /\ F \in Seq(Byte) /\ Len(F) = Len(d) + 4
        /\ F[1] = STX_ETX /\ F[2] = MW_CTRL_CH * 16 + (Len(d) \div 256) /\ F[3] = Len(d) % 256
        /\ \A i \in 1 .. Len(d) : F[i + 3] = d[i]
        /\ F[Len(d) + 4] = STX_ETX
    <3>1. Len(d) \in Length
      BY <1>2, <1>3
    <3> QED
      BY <1>1, <1>2, <3>1, FrameShape
  <2>2. F[1 + 3] = d[1] /\ F[2 + 3] = d[2]
    BY <1>2, <2>1
  <2> QED
    BY <1>1, <1>2, <1>3, <2>1, <2>2
<1> HIDE DEF F
<1>5. Framed(F)
  <2> SUFFICES ASSUME NEW j \in 1 .. 5, F[j] = STX_ETX, F[j + 1] \div 16 = DataCh PROVE FALSE
    BY <1>4 DEF Framed
  <2>1. j \in {1, 2, 3, 4, 5}
    OBVIOUS
  <2> QED
    BY <1>1, <1>4, <2>1 DEF STX_ETX, DataCh
<1> QED
  BY <1>4, <1>5 DEF F, d

\* The data of the module.
LEMMA DataShape ==
  ASSUME NEW n \in Length, n > 0
  PROVE  LET d == [i \in 1 .. n |-> DataByte(i - 1)] IN
         d \in Seq(Byte) /\ Len(d) = n /\ \A i \in 1 .. n : d[i] = DataByte(i - 1)
<1>1. n \in Nat /\ \A i \in 1 .. n : i - 1 \in Nat
  BY LengthRange
<1>2. \A i \in 1 .. n : DataByte(i - 1) \in Byte
  BY <1>1, Bytes
<1> QED
  BY <1>1, <1>2

\* After a framing byte in the data no byte looks like channel 1.
LEMMA DataBytePairs ==
  ASSUME NEW k \in Nat, DataByte(k) = STX_ETX
  PROVE  DataByte(k + 1) \div 16 # DataCh
<1>1. CASE k = 1
  BY <1>1 DEF DataByte, STX_ETX, DataCh
<1>2. CASE k # 1
  <2>1. k # 0 /\ k % 256 = 126
    BY <1>2 DEF DataByte, STX_ETX, MW_CMD_OK
  <2>2. (k + 1) % 256 = 127
    BY <2>1
  <2>3. DataByte(k + 1) = 127
    BY <2>1, <2>2 DEF DataByte
  <2> QED
    BY <2>3 DEF DataCh
<1> QED
  BY <1>1, <1>2

LEMMA DataFramed ==
  ASSUME NEW n \in Length, n > 0
  PROVE  LET F == Frame(DataCh, [i \in 1 .. n |-> DataByte(i - 1)]) IN
         /\ F \in Seq(Byte) /\ Len(F) = n + 4 /\ F[1] = STX_ETX
         /\ F[2] = 16 + (n \div 256) /\ F[3] = n % 256 /\ Rest(F, 4, n, 0)
         /\ Framed(F)
<1> DEFINE d == [i \in 1 .. n |-> DataByte(i - 1)]
           F == Frame(DataCh, d)
<1>1. d \in Seq(Byte) /\ Len(d) = n /\ (\A i \in 1 .. n : d[i] = DataByte(i - 1)) /\ n \in Nat
  BY DataShape, LengthRange
<1>2. DataCh \in Channels /\ DataCh * 16 = 16
  BY DEF Channels, DataCh
<1> HIDE DEF d
<1>3. /\ F \in Seq(Byte) /\ Len(F) = n + 4 /\ F[1] = STX_ETX
      /\ F[2] = 16 + (n \div 256) /\ F[3] = n % 256 /\ F[n + 4] = STX_ETX
      /\ \A i \in 1 .. n : F[i + 3] = d[i]
  <2>1. /\ F \in Seq(Byte) /\ Len(F) = Len(d) + 4
        /\ F[1] = STX_ETX /\ F[2] = DataCh * 16 + (Len(d) \div 256) /\ F[3] = Len(d) % 256
        /\ \A i \in 1 .. Len(d) : F[i + 3] = d[i]
        /\ F[Len(d) + 4] = STX_ETX
    BY <1>1, <1>2, FrameShape
  <2> QED
    BY <1>1, <1>2, <2>1
<1> HIDE DEF F
<1>4. \A i \in 0 .. n - 1 : F[4 + i] = DataByte(i)
  <2> SUFFICES ASSUME NEW i \in 0 .. n - 1 PROVE F[4 + i] = DataByte(i)
    OBVIOUS
  <2> DEFINE m == i + 1
  <2>1. m \in 1 .. n /\ m + 3 = 4 + i /\ m - 1 = i
    BY <1>1
  <2> HIDE DEF m
  <2>2. F[m + 3] = d[m] /\ d[m] = DataByte(m - 1)
    BY <1>1, <1>3, <2>1
  <2> QED
    BY <2>1, <2>2
<1>5. Rest(F, 4, n, 0)
  <2>1. 4 + n <= Len(F) /\ F[4 + n] = STX_ETX
    BY <1>1, <1>3
  <2>2. \A i \in 0 .. n - 1 : F[4 + i] = DataByte(0 + i)
    BY <1>1, <1>4
  <2> QED
    BY <2>1, <2>2 DEF Rest
<1>6. DataFrame(F, 2)
  <2>1. 2 < Len(F) /\ F[2 + 1] = n % 256 /\ Rest(F, 2 + 2, n, 0)
    BY <1>1, <1>3, <1>5
  <2> QED
    BY <1>3, <2>1 DEF DataFrame
<1>7. Framed(F)
  <2> SUFFICES ASSUME NEW j \in 1 .. Len(F) - 1, F[j] = STX_ETX, F[j + 1] \div 16 = DataCh
               PROVE  j = 1
    BY <1>6 DEF Framed
  <2>1. j # 2
    <3>1. n \div 256 <= 15 /\ n \div 256 \in Nat
      BY <1>2, HeaderBytes, NibbleRange
    <3> QED
      BY <1>3, <3>1 DEF STX_ETX
  <2>2. j # 3
    <3>1. F[4 + 0] = DataByte(0)
      BY <1>1, <1>4
    <3> QED
      BY <3>1 DEF DataByte, MW_CMD_OK, DataCh
  <2>3. CASE j >= 4 /\ j < n + 3
    <3>1. j - 4 \in 0 .. n - 1 /\ (j - 4) + 1 \in 0 .. n - 1 /\ 4 + (j - 4) = j /\ 4 + ((j - 4) + 1) = j + 1
          /\ j - 4 \in Nat
      BY <1>1, <2>3
    <3>2. F[j] = DataByte(j - 4) /\ F[j + 1] = DataByte((j - 4) + 1)
      BY <1>4, <3>1
    <3> QED
      BY <3>1, <3>2, DataBytePairs
  <2>4. CASE j = n + 3
    <3>1. j + 1 = n + 4
      BY <1>1, <2>4
    <3> QED
      BY <1>3, <3>1 DEF STX_ETX, DataCh
  <2> QED
    BY <1>1, <1>3, <2>1, <2>2, <2>3, <2>4
<1> QED
  BY <1>3, <1>5, <1>7 DEF F, d

\* A frame is added to the line.
LEMMA InStepGrows ==
  ASSUME NEW r \in RxState, RxFits(r), NEW L \in Seq(Byte), NEW F \in Seq(Byte), F # <<>>, F[1] = STX_ETX, InStep(r, L)
  PROVE  InStep(r, L \o F)
<1>1. /\ L \o F \in Seq(Byte) /\ Len(L \o F) = Len(L) + Len(F)
      /\ \A i \in 1 .. Len(L) + Len(F) : (L \o F)[i] = IF i <= Len(L) THEN L[i] ELSE F[i - Len(L)]
  BY Concat
<1>2. Len(F) \in Nat /\ Len(F) > 0 /\ Len(L) \in Nat /\ L \o F # <<>>
  OBVIOUS
<1>3. L # <<>> => (L \o F)[1] = L[1]
  BY <1>1, <1>2
<1>4. L = <<>> => (L \o F)[1] = STX_ETX
  BY <1>1, <1>2
<1>5. /\ r.stat \in {"DATA", "PARTIAL"} => Left(r) \in Nat /\ r.off + r.pos \in Nat
  BY LengthRange DEF RxState, RxFits, Left
<1>6. ASSUME r.stat = "CH_LENH", (L \o F)[1] \div 16 = DataCh PROVE DataFrame(L \o F, 1)
  <2>1. L # <<>>
    BY <1>4, <1>6 DEF STX_ETX, DataCh
  <2>2. DataFrame(L, 1)
    BY <1>3, <1>6, <2>1 DEF InStep
  <2> QED
    BY <2>2, DataFrameGrows
<1>7. ASSUME r.ch = DataCh, r.stat = "LEN"
      PROVE  \E n \in Length : /\ n > 0 /\ r.frame_len = (n \div 256) * 256
                               /\ (L \o F)[1] = n % 256 /\ Rest(L \o F, 2, n, 0)
  <2>1. PICK n \in Length : /\ n > 0 /\ L # <<>> /\ r.frame_len = (n \div 256) * 256
                            /\ L[1] = n % 256 /\ Rest(L, 2, n, 0)
    BY <1>7 DEF InStep
  <2>2. Rest(L \o F, 2, n, 0)
    BY <2>1, RestGrows, LengthRange
  <2> QED
    BY <1>3, <2>1, <2>2
<1>8. ASSUME r.ch = DataCh, r.stat \in {"DATA", "PARTIAL"}
      PROVE  Rest(L \o F, 1, Left(r), r.off + r.pos)
  <2>1. Rest(L, 1, Left(r), r.off + r.pos)
    BY <1>8 DEF InStep
  <2> QED
    BY <1>5, <1>8, <2>1, RestGrows
<1> QED
  BY <1>2, <1>3, <1>6, <1>7, <1>8 DEF InStep

\* What a byte does to each field.
LEMMA ReceivedFields ==
  ASSUME NEW r \in RxState, RxFits(r), r.stat \in Receiving, NEW b \in Byte
  PROVE  LET q == Received(r, b)
             p == r.pos + 1
         IN
         /\ q \in RxState /\ RxFits(q) /\ q.buf = r.buf /\ q.call = r.call /\ q.max = r.max
         /\ r.stat = "STX" =>
              /\ q.stat = (IF b = STX_ETX THEN "CH_LENH" ELSE "STX")
              /\ q.ch = r.ch /\ q.pos = r.pos
         /\ r.stat = "CH_LENH" /\ b = STX_ETX => q = r
         /\ r.stat = "CH_LENH" /\ b # STX_ETX =>
              /\ q.ch = b \div 16 /\ q.frame_len = (b % 16) * 256
              /\ q.stat = (IF b \div 16 \in ch_enable THEN "LEN" ELSE "IDLE")
         /\ r.stat = "LEN" =>
              /\ q.stat = (IF r.frame_len + b > 0 THEN "DATA" ELSE "ETX")
              /\ q.ch = r.ch /\ q.frame_len = r.frame_len + b /\ q.pos = 0 /\ q.off = 0 /\ q.torn = FALSE
         /\ r.stat = "DATA" =>
              /\ q.stat = (IF p >= r.frame_len THEN "ETX" ELSE IF p >= r.max THEN "PARTIAL" ELSE "DATA")
              /\ q.ch = r.ch /\ q.pos = p /\ q.off = r.off /\ q.torn = r.torn
              /\ q.frame_len = (IF q.stat = "PARTIAL" THEN r.frame_len - p ELSE r.frame_len)
         /\ r.stat = "ETX" => q = [r EXCEPT !.stat = "IDLE"] /\ q.stat = "IDLE" /\ q.ch = r.ch /\ q.pos = r.pos
<1> DEFINE q == Received(r, b)
<1>0. q \in RxState /\ RxFits(q) /\ q.buf = r.buf /\ q.call = r.call /\ q.max = r.max
  BY ReceivedTypes
<1>1. CASE r.stat = "STX"
  <2>1. q = [r EXCEPT !.stat = IF b = STX_ETX THEN "CH_LENH" ELSE @]
    BY <1>1 DEF Received
  <2> HIDE DEF q
  <2>2. q.stat = (IF b = STX_ETX THEN "CH_LENH" ELSE "STX") /\ q.ch = r.ch /\ q.pos = r.pos
    BY <1>1, <2>1 DEF RxState
  <2> QED
    BY <1>0, <1>1, <2>2 DEF q
<1>2. CASE r.stat = "CH_LENH" /\ b = STX_ETX
  <2>1. q = r
    BY <1>2 DEF Received, ChannelReceived
  <2> QED
    BY <1>0, <1>2, <2>1
<1>3. CASE r.stat = "CH_LENH" /\ b # STX_ETX
  <2> DEFINE c == b \div 16
             l == (b % 16) * 256
             s == IF c \in ch_enable THEN "LEN" ELSE "IDLE"
  <2>1. q = [r EXCEPT !.ch = c, !.frame_len = l, !.stat = s]
    BY <1>3 DEF Received, ChannelReceived
  <2> HIDE DEF q, c, l, s
  <2>2. q.ch = c /\ q.frame_len = l /\ q.stat = s
    BY <2>1 DEF RxState
  <2> QED
    BY <1>0, <1>3, <2>2 DEF q, c, l, s
<1>4. CASE r.stat = "LEN"
  <2> DEFINE l == r.frame_len + b
             s == IF l > 0 THEN "DATA" ELSE "ETX"
  <2>1. q = [r EXCEPT !.frame_len = l, !.pos = 0, !.off = 0, !.torn = FALSE, !.stat = s]
    BY <1>4 DEF Received
  <2> HIDE DEF q, l, s
  <2>2. q.stat = s /\ q.ch = r.ch /\ q.frame_len = l /\ q.pos = 0 /\ q.off = 0 /\ q.torn = FALSE
    BY <2>1 DEF RxState
  <2> QED
    BY <1>0, <1>4, <2>2 DEF q, l, s
<1>5. CASE r.stat = "DATA"
  <2>1. q = RecvAdded(r)
    BY <1>5 DEF Received
  <2> HIDE DEF q
  <2> DEFINE p == r.pos + 1
  <2>2. r.pos \in Nat /\ r.frame_len \in Nat /\ r.max \in Nat
    BY LengthRange DEF RxState
  <2>3. CASE p >= r.frame_len
    <3>1. q = [r EXCEPT !.pos = p, !.stat = "ETX"]
      BY <2>1, <2>2, <2>3 DEF RecvAdded
    <3> HIDE DEF p
    <3>2. /\ q.stat = "ETX" /\ q.pos = p /\ q.ch = r.ch /\ q.off = r.off /\ q.torn = r.torn
          /\ q.frame_len = r.frame_len
      BY <3>1 DEF RxState
    <3> QED
      BY <1>0, <1>5, <2>3, <3>2 DEF q, p
  <2>4. CASE ~(p >= r.frame_len) /\ p >= r.max
    <3> DEFINE l == r.frame_len - p
    <3>1. q = [r EXCEPT !.pos = p, !.stat = "PARTIAL", !.frame_len = l]
      BY <2>1, <2>2, <2>4 DEF RecvAdded
    <3> HIDE DEF p, l
    <3>2. /\ q.stat = "PARTIAL" /\ q.pos = p /\ q.ch = r.ch /\ q.off = r.off /\ q.torn = r.torn
          /\ q.frame_len = l
      BY <3>1 DEF RxState
    <3> QED
      BY <1>0, <1>5, <2>4, <3>2 DEF q, p, l
  <2>5. CASE ~(p >= r.frame_len) /\ ~(p >= r.max)
    <3>1. q = [r EXCEPT !.pos = p]
      BY <2>1, <2>2, <2>5 DEF RecvAdded
    <3> HIDE DEF p
    <3>2. /\ q.stat = "DATA" /\ q.pos = p /\ q.ch = r.ch /\ q.off = r.off /\ q.torn = r.torn
          /\ q.frame_len = r.frame_len
      BY <1>5, <3>1 DEF RxState
    <3> QED
      BY <1>0, <1>5, <2>5, <3>2 DEF q, p
  <2> QED
    BY <2>3, <2>4, <2>5
<1>6. CASE r.stat = "ETX"
  <2>1. q = [r EXCEPT !.stat = "IDLE"]
    BY <1>6 DEF Received
  <2> HIDE DEF q
  <2>2. q.stat = "IDLE" /\ q.ch = r.ch /\ q.pos = r.pos
    BY <2>1 DEF RxState
  <2> QED
    BY <1>0, <1>6, <2>1, <2>2 DEF q
<1> QED
  BY <1>1, <1>2, <1>3, <1>4, <1>5, <1>6 DEF Receiving

\* What lsd_recv does to each field.
LEMMA RecvFields ==
  ASSUME TypeInv, NEW buf \in {"cmd", "in"}, NEW max \in Length, max > 0, NEW n \in Nat
  PROVE  LET q == lsd_recv(buf, max, n) IN
         /\ q \in RxState /\ RxFits(q)
         /\ q.stat = (IF rx.stat = "IDLE" THEN "STX" ELSE IF rx.stat = "PARTIAL" THEN "DATA" ELSE rx.stat)
         /\ q.pos = (IF rx.stat = "PARTIAL" THEN 0 ELSE rx.pos)
         /\ q.off = (IF rx.stat = "PARTIAL" THEN rx.off + rx.pos ELSE rx.off)
         /\ q.torn = (rx.torn \/ rx.stat = "ETX" \/ (rx.stat = "DATA" /\ rx.pos > 0))
         /\ q.ch = rx.ch /\ q.frame_len = rx.frame_len
         /\ q.buf = buf /\ q.max = max /\ q.call = n
<1> DEFINE q == lsd_recv(buf, max, n)
           s == IF rx.stat = "IDLE" THEN "STX" ELSE IF rx.stat = "PARTIAL" THEN "DATA" ELSE rx.stat
           o == IF rx.stat = "PARTIAL" THEN rx.off + rx.pos ELSE rx.off
           t == rx.torn \/ rx.stat = "ETX" \/ (rx.stat = "DATA" /\ rx.pos > 0)
           p == IF rx.stat = "PARTIAL" THEN 0 ELSE rx.pos
<1>1. q = [rx EXCEPT !.stat = s, !.pos = p, !.off = o, !.torn = t, !.buf = buf, !.max = max, !.call = n]
  BY DEF lsd_recv, RecvPos
<1>2. rx \in RxState
  BY DEF TypeInv, RxOK
<1>3. q \in RxState /\ RxFits(q)
  BY RecvTypes
<1> HIDE DEF q, s, o, t, p
<1>4. /\ q.stat = s /\ q.pos = p /\ q.off = o /\ q.torn = t /\ q.buf = buf /\ q.max = max
      /\ q.call = n /\ q.ch = rx.ch /\ q.frame_len = rx.frame_len
  BY <1>1, <1>2 DEF RxState
<1> QED
  BY <1>3, <1>4 DEF q, s, o, t, p

\* The receiver takes a byte and stays in step.
LEMMA InStepReceives ==
  ASSUME NEW r \in RxState, RxFits(r), r.stat \in Receiving, NEW L \in Seq(Byte), L # <<>>,
         LineOK(L), InStep(r, L)
  PROVE  InStep(Received(r, L[1]), Tail(L))
<1> DEFINE b == L[1]
           q == Received(r, b)
           T == Tail(L)
<1>1. b \in Byte /\ T \in Seq(Byte) /\ Len(T) = Len(L) - 1 /\ \A i \in 1 .. Len(L) - 1 : T[i] = L[i + 1]
  BY TailShape
<1>2. b \in Nat /\ b <= 255
  BY <1>1, ByteRange
<1>3. T # <<>> => T[1] = L[2] /\ 1 \in 1 .. Len(L) - 1
  BY <1>1
<1> HIDE DEF q, b, T
<1>4. ASSUME b = STX_ETX, T # <<>>, T[1] \div 16 = DataCh PROVE DataFrame(T, 1)
  <2>1. DataFrame(L, 1 + 1)
    BY <1>3, <1>4 DEF LineOK, b
  <2> QED
    BY <2>1, DataFrameShrinks DEF T
<1>5. CASE r.stat = "STX"
  <2>1. q.stat = (IF b = STX_ETX THEN "CH_LENH" ELSE "STX")
    BY <1>1, <1>5, ReceivedFields DEF q
  <2> QED
    BY <1>4, <2>1 DEF InStep, q, T, b
<1>6. CASE r.stat = "CH_LENH" /\ b = STX_ETX
  <2>1. q.stat = "CH_LENH"
    BY <1>1, <1>6, ReceivedFields DEF q
  <2> QED
    BY <1>4, <1>6, <2>1 DEF InStep, q, T, b
<1>7. CASE r.stat = "CH_LENH" /\ b # STX_ETX
  <2>1. /\ q.ch = b \div 16 /\ q.frame_len = (b % 16) * 256
        /\ q.stat \in {"LEN", "IDLE"}
    BY <1>1, <1>7, ReceivedFields DEF q
  <2>2. ASSUME b \div 16 = DataCh
        PROVE  \E n \in Length : /\ n > 0 /\ T # <<>> /\ q.frame_len = (n \div 256) * 256
                                 /\ T[1] = n % 256 /\ Rest(T, 2, n, 0)
    <3>1. DataFrame(L, 1)
      BY <1>7, <2>2 DEF InStep, b
    <3>2. PICK n \in Length : /\ n > 0 /\ 1 < Len(L) /\ L[1] = 16 + (n \div 256) /\ L[1 + 1] = n % 256
                              /\ Rest(L, 1 + 2, n, 0)
      BY <3>1 DEF DataFrame
    <3>3. Rest(T, 2, n, 0)
      <4>1. n \in Nat /\ 1 + 2 = 2 + 1 /\ 2 \in Nat /\ 0 \in Nat
        BY LengthRange
      <4> QED
        BY <3>2, <4>1, RestShrinks DEF T
    <3>4. T # <<>>
      BY <1>1, <3>2
    <3>5. T[1] = n % 256
      BY <1>3, <3>2, <3>4
    <3>6. q.frame_len = (n \div 256) * 256
      <4>1. n \div 256 \in Nat /\ n \div 256 <= 15
        <5>1. DataCh \in Channels
          BY DEF Channels
        <5> QED
          BY <5>1, HeaderBytes, NibbleRange
      <4> DEFINE h == n \div 256
      <4> HIDE DEF h
      <4>2. h \in Nat /\ h <= 15 => (16 + h) % 16 = h
        OBVIOUS
      <4>3. b % 16 = h
        BY <3>2, <4>1, <4>2 DEF h, b
      <4> QED
        BY <2>1, <4>3 DEF h
    <3> QED
      BY <3>2, <3>3, <3>4, <3>5, <3>6
  <2> QED
    BY <2>1, <2>2 DEF InStep, q, T, b
<1>8. CASE r.stat = "LEN"
  <2>1. /\ q.stat = (IF r.frame_len + b > 0 THEN "DATA" ELSE "ETX") /\ q.ch = r.ch
        /\ q.frame_len = r.frame_len + b /\ q.pos = 0 /\ q.off = 0
    BY <1>1, <1>8, ReceivedFields DEF q
  <2>2. CASE r.ch = DataCh
    <3>1. PICK n \in Length : /\ n > 0 /\ r.frame_len = (n \div 256) * 256
                              /\ b = n % 256 /\ Rest(L, 2, n, 0)
      BY <1>8, <2>2 DEF InStep, b
    <3>2. n \in Nat /\ (n \div 256) * 256 + (n % 256) = n
      <4>1. DataCh \in Channels
        BY DEF Channels
      <4> QED
        BY <4>1, HeaderBytes, LengthRange
    <3>3. r.frame_len + b = n
      BY <3>1, <3>2
    <3>4. Rest(T, 1, n, 0)
      <4>1. 2 = 1 + 1 /\ 1 \in Nat /\ 0 \in Nat
        OBVIOUS
      <4> QED
        BY <3>1, <3>2, <4>1, RestShrinks DEF T
    <3>5. q.stat = "DATA" /\ Left(q) = n /\ q.off + q.pos = 0
      BY <2>1, <3>1, <3>2, <3>3 DEF Left
    <3> QED
      BY <3>4, <3>5 DEF InStep, q, T, b
  <2>3. CASE r.ch # DataCh
    BY <2>1, <2>3 DEF InStep, q, T, b
  <2> QED
    BY <2>2, <2>3
<1>9. CASE r.stat = "DATA"
  <2> DEFINE p == r.pos + 1
             m == r.frame_len - r.pos
             k == r.off + r.pos
  <2>1. /\ q.stat = (IF p >= r.frame_len THEN "ETX" ELSE IF p >= r.max THEN "PARTIAL" ELSE "DATA")
        /\ q.ch = r.ch /\ q.pos = p /\ q.off = r.off /\ q.torn = r.torn
        /\ q.frame_len = (IF q.stat = "PARTIAL" THEN r.frame_len - p ELSE r.frame_len)
    BY <1>1, <1>9, ReceivedFields DEF q
  <2>2. /\ r.pos \in Nat /\ r.frame_len \in Nat /\ r.off \in Nat /\ r.max \in Nat
        /\ m \in Nat /\ m > 0 /\ k \in Nat
    BY <1>9, LengthRange DEF RxState, RxFits
  <2>3. CASE r.ch = DataCh
    <3>1. Rest(L, 1, m, k)
      BY <1>9, <2>3 DEF InStep, Left
    <3>2. Rest(T, 1, m - 1, k + 1)
      <4> HIDE DEF m, k
      <4> QED
        BY <2>2, <3>1, RestStarts DEF T
    <3>3. q.off + q.pos = k + 1
      BY <2>1, <2>2
    <3>4. CASE p >= r.frame_len
      <4>1. q.stat = "ETX" /\ m = 1 /\ q.pos > 0
        BY <1>9, <2>1, <2>2, <3>4 DEF RxFits
      <4>2. 1 + 0 <= Len(T) /\ T[1 + 0] = STX_ETX
        <5>1. m - 1 = 0
          BY <4>1
        <5> QED
          BY <3>2, <5>1 DEF Rest
      <4>3. T # <<>> /\ T[1] = STX_ETX
        BY <4>2
      <4> QED
        BY <4>1, <4>3 DEF InStep, q, T, b
    <3>5. CASE ~(p >= r.frame_len)
      <4>1. q.stat \in {"DATA", "PARTIAL"} /\ Left(q) = m - 1
        BY <2>1, <2>2, <3>5 DEF Left
      <4> QED
        BY <3>2, <3>3, <4>1 DEF InStep, q, T, b
    <3> QED
      BY <3>4, <3>5
  <2>4. CASE r.ch # DataCh
    BY <2>1, <2>4 DEF InStep, q, T, b
  <2> QED
    BY <2>3, <2>4
<1>10. CASE r.stat = "ETX"
  <2>1. q.stat = "IDLE"
    BY <1>1, <1>10, ReceivedFields DEF q
  <2> QED
    BY <2>1 DEF InStep, q, T, b
<1> QED
  BY <1>5, <1>6, <1>7, <1>8, <1>9, <1>10 DEF Receiving

\* lsd_recv goes on with the frame in progress.
LEMMA InStepGoesOn ==
  ASSUME TypeInv, NEW buf \in {"cmd", "in"}, NEW max \in Length, max > 0, NEW n \in Nat, InStep(rx, line)
  PROVE  InStep(lsd_recv(buf, max, n), line)
<1> DEFINE q == lsd_recv(buf, max, n)
<1>1. rx.pos \in Nat /\ rx.frame_len \in Nat /\ rx.off \in Nat
  BY LengthRange DEF TypeInv, RxOK, RxState
<1>2. /\ q.stat = (IF rx.stat = "IDLE" THEN "STX" ELSE IF rx.stat = "PARTIAL" THEN "DATA" ELSE rx.stat)
      /\ q.pos = (IF rx.stat = "PARTIAL" THEN 0 ELSE rx.pos)
      /\ q.off = (IF rx.stat = "PARTIAL" THEN rx.off + rx.pos ELSE rx.off)
      /\ q.ch = rx.ch /\ q.frame_len = rx.frame_len
  BY RecvFields
<1> HIDE DEF q
<1>3. q.stat = "DATA" => /\ rx.stat \in {"DATA", "PARTIAL"}
                         /\ Left(q) = Left(rx) /\ q.off + q.pos = rx.off + rx.pos
  BY <1>1, <1>2 DEF Left
<1>4. q.stat # "PARTIAL"
  BY <1>2
<1>5. q.stat \in {"CH_LENH", "LEN", "ETX"} => rx.stat = q.stat /\ q.pos = rx.pos
  BY <1>2
<1> QED
  BY <1>2, <1>3, <1>4, <1>5 DEF InStep, q

\* A byte of the frame is stored after those before it.
LEMMA StoredReceives ==
  ASSUME TypeInv, rx.stat \in Receiving, line # <<>>, InStep(rx, line), Stored(rx, mem),
         NEW m \in [{"cmd", "in"} -> Seq(Byte)],
         m = IF rx.stat = "DATA" THEN [mem EXCEPT ![rx.buf] = Written(@, rx.pos, line[1])] ELSE mem
  PROVE  Stored(Received(rx, line[1]), m)
<1> DEFINE b == line[1]
           q == Received(rx, b)
<1>1. b \in Byte /\ rx \in RxState /\ RxFits(rx) /\ mem \in [{"cmd", "in"} -> Seq(Byte)]
  BY TailShape DEF TypeInv, PeerOK, RxOK, MemOK
<1>2. rx.pos \in Nat /\ rx.frame_len \in Nat /\ rx.off \in Nat
  BY <1>1, LengthRange DEF RxState
<1> HIDE DEF q, b
<1>3. SUFFICES ASSUME q.ch = DataCh, q.buf = "in", ~q.torn, q.stat \in {"DATA", "ETX", "PARTIAL"}
               PROVE  Holds(m["in"], q.pos, q.off)
  BY DEF Stored, q, b
<1>4. q.buf = rx.buf
  BY <1>1, ReceivedFields DEF q
<1>5. CASE rx.stat = "LEN"
  <2>1. q.pos = 0
    BY <1>1, <1>5, ReceivedFields DEF q
  <2>2. 0 <= Len(m["in"])
    OBVIOUS
  <2> QED
    BY <2>1, <2>2 DEF Holds
<1>6. CASE rx.stat = "DATA"
  <2>1. q.ch = rx.ch /\ q.pos = rx.pos + 1 /\ q.off = rx.off /\ q.torn = rx.torn
    BY <1>1, <1>6, ReceivedFields DEF q
  <2>2. Holds(mem["in"], rx.pos, rx.off)
    BY <1>3, <1>4, <1>6, <2>1 DEF Stored
  <2>3. b = DataByte(rx.off + rx.pos)
    <3>1. Rest(line, 1, rx.frame_len - rx.pos, rx.off + rx.pos)
      BY <1>3, <1>6, <2>1 DEF InStep, Left
    <3>2. rx.frame_len - rx.pos \in Nat /\ rx.frame_len - rx.pos > 0 /\ rx.off + rx.pos \in Nat
      BY <1>1, <1>2, <1>6 DEF RxFits
    <3>3. line \in Seq(Byte)
      BY DEF TypeInv, PeerOK
    <3> DEFINE n == rx.frame_len - rx.pos
               k == rx.off + rx.pos
    <3> HIDE DEF n, k
    <3>4. Rest(line, 1, n, k) /\ n \in Nat /\ n > 0 /\ k \in Nat
      BY <3>1, <3>2 DEF n, k
    <3>5. line[1] = DataByte(k)
      BY <3>3, <3>4, RestStarts
    <3> QED
      BY <3>5 DEF k, b
  <2> DEFINE s == mem["in"]
             w == Written(s, rx.pos, b)
  <2>4. m["in"] = w
    BY <1>1, <1>3, <1>4, <1>6 DEF b
  <2>5. s \in Seq(Byte)
    BY <1>1
  <2> HIDE DEF s
  <2>6. /\ Len(w) > rx.pos /\ w[rx.pos + 1] = b /\ w \in Seq(Byte)
        /\ \A i \in 1 .. Len(s) : i # rx.pos + 1 => w[i] = s[i]
    <3> DEFINE p == rx.pos
    <3>1. p \in Nat /\ b \in Byte
      BY <1>1, <1>2
    <3> HIDE DEF p
    <3>2. /\ Len(Written(s, p, b)) > p /\ Written(s, p, b)[p + 1] = b /\ Written(s, p, b) \in Seq(Byte)
          /\ \A i \in 1 .. Len(s) : i # p + 1 => Written(s, p, b)[i] = s[i]
      BY <2>5, <3>1, WrittenShape
    <3> QED
      BY <3>2 DEF p
  <2> HIDE DEF w
  <2>7. rx.pos <= Len(s) /\ \A i \in 1 .. rx.pos : s[i] = DataByte(rx.off + i - 1)
    BY <2>2 DEF Holds, s
  <2>8. Len(w) \in Nat /\ Len(s) \in Nat
    BY <2>5, <2>6
  <2>9. \A i \in 1 .. rx.pos + 1 : w[i] = DataByte(rx.off + i - 1)
    <3> SUFFICES ASSUME NEW i \in 1 .. rx.pos + 1 PROVE w[i] = DataByte(rx.off + i - 1)
      OBVIOUS
    <3>1. CASE i = rx.pos + 1
      <4>1. rx.off + i - 1 = rx.off + rx.pos
        BY <1>2, <3>1
      <4> QED
        BY <2>3, <2>6, <3>1, <4>1
    <3>2. CASE i # rx.pos + 1
      <4>1. i \in 1 .. rx.pos /\ i \in 1 .. Len(s)
        BY <1>2, <2>7, <2>8, <3>2
      <4> QED
        BY <2>6, <2>7, <3>2, <4>1
    <3> QED
      BY <3>1, <3>2
  <2>10. rx.pos + 1 <= Len(w)
    BY <1>2, <2>6, <2>8
  <2> QED
    BY <2>1, <2>4, <2>9, <2>10 DEF Holds
<1>7. CASE rx.stat \in {"STX", "CH_LENH", "ETX"}
  <2>1. q.stat \in {"STX", "CH_LENH", "LEN", "IDLE"}
    BY <1>1, <1>7, ReceivedFields DEF q
  <2> QED
    BY <1>3, <2>1
<1> QED
  BY <1>5, <1>6, <1>7 DEF Receiving

\* A call of lsd_recv by mw_command, and the answers to commands.
LEMMA LinkStep ==
  ASSUME TypeInv, LinkInv, [Next]_vars
  PROVE  LinkInv'
<1> SUFFICES ASSUME faults' = 0 PROVE (LineOK(line) /\ InStep(rx, line) /\ Stored(rx, mem))'
  BY DEF LinkInv
<1>0. /\ faults \in Nat /\ line \in Seq(Byte) /\ CmdLen \in Length /\ CmdLen > 0 /\ sup.id \in Nat
      /\ sup.id + 1 \in Nat /\ rx \in RxState /\ RxFits(rx)
  <2>1. CmdLen \in Length /\ CmdLen > 0
    BY Constants, LengthRange
  <2>2. sup.id \in Nat
    BY Constants DEF TypeInv, CallOK, CallState
  <2> QED
    BY <2>1, <2>2 DEF TypeInv, PeerOK, RxOK
<1>1. ASSUME faults = 0, UNCHANGED <<line, rx, mem>>
      PROVE  (LineOK(line) /\ InStep(rx, line) /\ Stored(rx, mem))'
  BY <1>1 DEF LinkInv
<1>2. ASSUME faults = 0, UNCHANGED <<line>>, NEW n \in Nat,
             rx' = lsd_recv("cmd", CmdLen, n)
      PROVE  (LineOK(line) /\ InStep(rx, line) /\ Stored(rx, mem))'
  <2>1. InStep(lsd_recv("cmd", CmdLen, n), line)
    BY <1>0, <1>2, InStepGoesOn DEF LinkInv
  <2>2. rx'.buf = "cmd"
    BY <1>0, <1>2, RecvFields
  <2> QED
    BY <1>2, <2>1, <2>2 DEF LinkInv, Stored
<1>3. CASE \E k \in Kinds : mw_command(k)
  <2>1. PICK k \in Kinds : mw_command(k)
    BY <1>3
  <2>2. rx' = lsd_recv("cmd", CmdLen, sup.id + 1) /\ UNCHANGED <<line, faults>>
    BY <2>1 DEF mw_command, Calls, peerVars
  <2> QED
    BY <1>0, <1>2, <2>2
<1>4. CASE \E n \in RecvLens : mw_recv_sync(n)
  <2>1. PICK n \in RecvLens : mw_recv_sync(n)
    BY <1>4
  <2>2. rx' = lsd_recv("in", n, sup.id + 1) /\ UNCHANGED <<line, faults>> /\ mem' = [mem EXCEPT !["in"] = <<>>]
    BY <2>1 DEF mw_recv_sync, Calls, peerVars
  <2>3. n \in Length /\ n > 0
    BY Constants
  <2>4. InStep(rx', line)
    BY <1>0, <2>2, <2>3, InStepGoesOn DEF LinkInv
  <2>5. rx'.stat \in {"DATA", "ETX", "PARTIAL"} /\ ~rx'.torn => rx'.pos = 0
    <3>1. /\ rx'.stat = (IF rx.stat = "IDLE" THEN "STX" ELSE IF rx.stat = "PARTIAL" THEN "DATA" ELSE rx.stat)
          /\ rx'.pos = (IF rx.stat = "PARTIAL" THEN 0 ELSE rx.pos)
          /\ rx'.torn = (rx.torn \/ rx.stat = "ETX" \/ (rx.stat = "DATA" /\ rx.pos > 0))
      BY <1>0, <2>2, <2>3, RecvFields
    <3>2. rx.pos \in Nat
      BY <1>0, LengthRange DEF RxState
    <3>3. ~rx'.torn => rx.stat # "ETX" /\ ~(rx.stat = "DATA" /\ rx.pos > 0)
      BY <3>1
    <3>4. CASE rx.stat = "DATA"
      BY <3>1, <3>2, <3>3, <3>4
    <3>5. CASE rx.stat # "DATA"
      BY <3>1, <3>3, <3>5
    <3> QED
      BY <3>4, <3>5
  <2>6. 0 <= Len(mem'["in"])
    BY <2>2 DEF TypeInv, MemOK
  <2>7. Stored(rx, mem)'
    BY <2>5, <2>6 DEF Stored, Holds
  <2> QED
    BY <2>2, <2>4, <2>7 DEF LinkInv
<1>5. CASE \E n \in SendLens : mw_send_sync(n)
  BY <1>1, <1>5 DEF mw_send_sync, Calls, peerVars
<1>6. CASE ProcessRecv
  <2>1. /\ rx.stat \in Receiving /\ line # <<>> /\ rx' = Received(rx, Head(line)) /\ line' = Tail(line)
        /\ mem' = (IF rx.stat = "DATA" THEN [mem EXCEPT ![rx.buf] = Written(@, rx.pos, Head(line))] ELSE mem)
        /\ faults' = faults
    BY <1>6 DEF ProcessRecv
  <2>2. Head(line) = line[1] /\ mem' \in [{"cmd", "in"} -> Seq(Byte)]
    <3>1. mem' \in [{"cmd", "in"} -> Seq(Byte)]
      BY <1>6, ProcessRecvTypes DEF TypeInv, MemOK
    <3> QED
      BY <1>0, <2>1, <3>1, TailShape
  <2>3. LineOK(line) /\ InStep(rx, line) /\ Stored(rx, mem)
    BY <2>1 DEF LinkInv
  <2>4. LineOK(line)'
    BY <1>0, <2>1, <2>3, LineShrinks
  <2>5. InStep(rx, line)'
    BY <1>0, <2>1, <2>2, <2>3, InStepReceives
  <2>6. Stored(rx', mem')
    <3> DEFINE m == mem'
    <3>1. m = (IF rx.stat = "DATA" THEN [mem EXCEPT ![rx.buf] = Written(@, rx.pos, line[1])] ELSE mem)
          /\ m \in [{"cmd", "in"} -> Seq(Byte)]
      BY <2>1, <2>2
    <3> HIDE DEF m
    <3>2. Stored(Received(rx, line[1]), m)
      BY <2>1, <2>3, <3>1, StoredReceives
    <3> QED
      BY <2>1, <2>2, <3>2 DEF m
  <2> QED
    BY <2>4, <2>5, <2>6
<1>7. CASE ProcessSend
  BY <1>1, <1>7 DEF ProcessSend
<1>8. CASE Post
  <2>1. UNCHANGED <<mem, line, faults>> /\ (CommandResumes \/ RecvResumes \/ SendResumes)
    BY <1>8 DEF Post, peerVars
  <2>2. CASE CommandResumes
    <3>1. UNCHANGED rx \/ rx' = lsd_recv("cmd", CmdLen, sup.id)
      BY <2>2 DEF CommandResumes
    <3> QED
      BY <1>0, <1>1, <1>2, <2>1, <3>1
  <2>3. CASE RecvResumes
    BY <1>1, <2>1, <2>3 DEF RecvResumes
  <2>4. CASE SendResumes
    BY <1>1, <2>1, <2>4 DEF SendResumes
  <2> QED
    BY <2>1, <2>2, <2>3, <2>4
<1>9. CASE Timeout
  BY <1>1, <1>9 DEF Timeout, linkVars, peerVars
<1>10. ASSUME NEW F \in Seq(Byte), F # <<>>, F[1] = STX_ETX, Framed(F), line' = line \o F,
              UNCHANGED <<rx, mem, faults>>
       PROVE  (LineOK(line) /\ InStep(rx, line) /\ Stored(rx, mem))'
  <2>1. LineOK(line) /\ InStep(rx, line) /\ Stored(rx, mem)
    BY <1>10 DEF LinkInv
  <2>2. LineOK(line \o F) /\ InStep(rx, line \o F)
    BY <1>0, <1>10, <2>1, LineGrows, InStepGrows
  <2> QED
    BY <1>10, <2>1, <2>2
<1>11. CASE ModuleAnswers
  <2> DEFINE req == Head(requests)
  <2>1. /\ requests # <<>> /\ UNCHANGED <<rx, mem, faults>>
        /\ \E res \in {MW_CMD_OK, MW_CMD_ERROR} : line' = line \o Frame(MW_CTRL_CH, <<res, req[2]>>)
    BY <1>11 DEF ModuleAnswers, linkVars
  <2>2. req[2] \in Byte
    <3>1. /\ requests \in Seq(Seq(Byte)) /\ \A i \in 1 .. Len(requests) : Len(requests[i]) = 2
      BY DEF TypeInv, PeerOK
    <3>2. req = requests[1] /\ 1 \in 1 .. Len(requests) /\ requests[1] \in Seq(Byte)
      BY <2>1, <3>1
    <3>3. req \in Seq(Byte) /\ Len(req) = 2
      BY <3>1, <3>2
    <3> HIDE DEF req
    <3> QED
      BY <3>3
  <2> HIDE DEF req
  <2>3. PICK res \in {MW_CMD_OK, MW_CMD_ERROR} : line' = line \o Frame(MW_CTRL_CH, <<res, req[2]>>)
    BY <2>1
  <2> DEFINE F == Frame(MW_CTRL_CH, <<res, req[2]>>)
  <2>4. F \in Seq(Byte) /\ Len(F) = 6 /\ F[1] = STX_ETX /\ Framed(F)
    BY <2>2, AnswerFramed
  <2> HIDE DEF F
  <2>5. F # <<>>
    BY <2>4
  <2> QED
    BY <1>10, <2>1, <2>3, <2>4, <2>5 DEF F
<1>12. CASE \E n \in DataLens : ModuleSends(n)
  <2>1. PICK n \in DataLens : ModuleSends(n)
    BY <1>12
  <2> DEFINE F == Frame(DataCh, [i \in 1 .. n |-> DataByte(i - 1)])
  <2>2. line' = line \o F /\ UNCHANGED <<rx, mem, faults>>
    BY <2>1 DEF ModuleSends, linkVars
  <2>3. n \in Length /\ n > 0 /\ n \in Nat
    BY Constants, LengthRange
  <2>4. F \in Seq(Byte) /\ Len(F) = n + 4 /\ F[1] = STX_ETX /\ Framed(F)
    BY <2>3, DataFramed
  <2> HIDE DEF F
  <2>5. F # <<>>
    BY <2>3, <2>4
  <2> QED
    BY <1>10, <2>2, <2>4, <2>5
<1>13. CASE LineLoses
  BY <1>0, <1>13 DEF LineLoses
<1>14. CASE UNCHANGED vars
  BY <1>1, <1>14 DEF vars, linkVars, peerVars
<1> QED
  BY <1>3, <1>4, <1>5, <1>6, <1>7, <1>8, <1>9, <1>11, <1>12, <1>13, <1>14 DEF Next

\* What recv_complete reports to mw_recv_sync.
LEMMA MetaStep ==
  ASSUME TypeInv, LinkInv, LinkInv', MetaInv, [Next]_vars
  PROVE  MetaInv'
<1>0. /\ sup \in CallState /\ faults \in Nat /\ rx \in RxState /\ RxFits(rx)
      /\ line \in Seq(Byte) /\ sup.id \in Nat
  BY Constants DEF TypeInv, PeerOK, CallOK, CallState, RxOK
<1>1. ASSUME UNCHANGED <<md, sup, rx, user, mem>>, faults' = faults PROVE MetaInv'
  BY <1>1 DEF MetaInv
<1>2. ASSUME UNCHANGED md, ~(sup'.pc = "pend" /\ sup'.op = "recv") PROVE MetaInv'
  BY <1>2 DEF MetaInv
<1>3. CASE \E k \in Kinds : mw_command(k)
  <2>1. PICK k \in Kinds : Calls("command", k, 0, tx.stat = "IDLE" /\ owed = 0)
    BY <1>3 DEF mw_command
  <2>2. sup'.op = "command" /\ md'.set = FALSE /\ md'.ch = 0
    BY <2>1, CallsRecord
  <2> QED
    BY <2>2 DEF MetaInv
<1>4. CASE \E n \in RecvLens : mw_recv_sync(n)
  <2>1. PICK n \in RecvLens : Calls("recv", "open", n, TRUE) /\ rx' = lsd_recv("in", n, sup.id + 1)
    BY <1>4 DEF mw_recv_sync
  <2>2. md'.set = FALSE /\ md'.ch = 0
    BY <2>1, CallsRecord
  <2>3. rx'.buf = "in"
    <3>1. n \in Length /\ n > 0 /\ sup.id + 1 \in Nat
      BY <1>0, Constants
    <3> QED
      BY <2>1, <3>1, RecvFields
  <2> QED
    BY <2>2, <2>3 DEF MetaInv
<1>5. CASE \E n \in SendLens : mw_send_sync(n)
  <2>1. PICK n \in SendLens : Calls("send", "open", n, tx.stat = "IDLE" /\ rx.stat \notin Receiving)
    BY <1>5 DEF mw_send_sync
  <2>2. sup'.op = "send" /\ md'.set = FALSE /\ md'.ch = 0
    BY <2>1, CallsRecord
  <2> QED
    BY <2>2 DEF MetaInv
<1>6. CASE ProcessRecv
  <2> DEFINE b == Head(line)
  <2>1. /\ user = "run" /\ rx.stat \in Receiving /\ line # <<>> /\ rx' = Received(rx, b)
        /\ mem' = (IF rx.stat = "DATA" THEN [mem EXCEPT ![rx.buf] = Written(@, rx.pos, b)] ELSE mem)
        /\ md' = (IF Completes(b) /\ rx.call = sup.id
                  THEN [set |-> TRUE, ch |-> rx.ch, len |-> rx'.pos] ELSE md)
        /\ user' = (IF Completes(b) THEN "clear" ELSE "run")
        /\ UNCHANGED <<sup, faults>>
    BY <1>6 DEF ProcessRecv, UserRuns
  <2>2. b \in Byte /\ b = line[1]
    BY <1>0, <2>1, TailShape
  <2>3. rx'.buf = rx.buf
    <3> HIDE DEF b
    <3> QED
      BY <1>0, <2>1, <2>2, ReceivedFields
  <2>4. CASE ~(Completes(b) /\ rx.call = sup.id)
    <3>1. md' = md
      BY <2>1, <2>4
    <3>2. sup.pc = "pend" /\ sup.op = "recv" => ~md.set
      BY <2>1 DEF MetaInv
    <3> QED
      BY <2>1, <2>3, <3>1, <3>2 DEF MetaInv
  <2>5. CASE Completes(b) /\ rx.call = sup.id
    <3>1. md' = [set |-> TRUE, ch |-> rx.ch, len |-> rx'.pos] /\ user' = "clear"
      BY <2>1, <2>5
    <3>2. md'.set = TRUE /\ md'.ch = rx.ch /\ md'.len = rx'.pos
      BY <3>1
    <3>3. ASSUME sup.pc = "pend", sup.op = "recv", faults = 0, rx.ch = DataCh, ~rx'.torn
          PROVE  rx'.pos > 0 /\ Holds(mem'["in"], rx'.pos, rx'.off)
      <4>1. rx.buf = "in" /\ InStep(rx, line) /\ Stored(rx, mem) /\ Stored(rx', mem')
        BY <2>1, <3>3 DEF MetaInv, LinkInv
      <4>2. CASE rx.stat = "ETX"
        <5>1. rx' = [rx EXCEPT !.stat = "IDLE"] /\ mem' = mem
          BY <1>0, <2>1, <2>2, <4>2, ReceivedFields
        <5>2. rx'.pos = rx.pos /\ rx'.off = rx.off /\ rx'.torn = rx.torn
          BY <1>0, <5>1 DEF RxState
        <5>3. Holds(mem["in"], rx.pos, rx.off)
          BY <3>3, <4>1, <4>2, <5>2 DEF Stored
        <5>4. rx.pos > 0
          BY <3>3, <4>1, <4>2 DEF InStep
        <5> QED
          BY <5>1, <5>2, <5>3, <5>4
      <4>3. CASE rx.stat # "ETX"
        <5>1. rx.stat = "DATA" /\ rx'.stat = "PARTIAL"
          BY <2>1, <2>5, <4>3 DEF Completes
        <5>2. rx'.ch = rx.ch /\ rx'.pos = rx.pos + 1
          <6> HIDE DEF b
          <6> QED
            BY <1>0, <2>1, <2>2, <5>1, ReceivedFields
        <5>3. rx.pos \in Nat
          BY <1>0, LengthRange DEF RxState
        <5>4. Holds(mem'["in"], rx'.pos, rx'.off)
          BY <2>3, <3>3, <4>1, <5>1, <5>2 DEF Stored
        <5> QED
          BY <5>2, <5>3, <5>4
      <4> QED
        BY <4>2, <4>3
    <3>4. sup.pc = "pend" /\ sup.op = "recv" => rx.buf = "in"
      BY DEF MetaInv
    <3> QED
      BY <2>1, <2>3, <3>1, <3>2, <3>3, <3>4 DEF MetaInv
  <2> QED
    BY <2>4, <2>5
<1>7. CASE ProcessSend
  <2>1. user = "run" /\ UNCHANGED <<md, sup, rx, mem, faults>>
    BY <1>7 DEF ProcessSend, UserRuns
  <2> QED
    BY <2>1 DEF MetaInv
<1>8. CASE Post
  <2>1. UNCHANGED <<md, mem, faults>> /\ (CommandResumes \/ RecvResumes \/ SendResumes)
    BY <1>8 DEF Post, peerVars
  <2>2. CASE CommandResumes
    <3>1. sup.op = "command"
      BY <2>2 DEF CommandResumes
    <3>2. sup'.op = sup.op
      <4>1. CASE \E res, ch : Returns(res, ch, 0)
        BY <4>1, ReturnsTypes
      <4>2. CASE sup' = [sup EXCEPT !.clean = @ /\ user' = "run"]
        BY <1>0, <4>2 DEF CallState
      <4> QED
        BY <2>2, <4>1, <4>2 DEF CommandResumes
    <3> QED
      BY <1>2, <2>1, <3>1, <3>2
  <2>3. CASE RecvResumes
    <3>1. sup'.pc = "run"
      BY <2>3, ReturnsTypes DEF RecvResumes
    <3> QED
      BY <1>2, <2>1, <3>1
  <2>4. CASE SendResumes
    <3>1. sup.op = "send"
      BY <2>4 DEF SendResumes
    <3>2. sup'.op = sup.op
      <4> DEFINE n == sup.sent + Len(Chunk(sup.sent, sup.len))
                 c == sup.clean /\ user' = "run"
      <4>1. CASE Returns("ok", DataCh, 0)
        BY <4>1, ReturnsTypes
      <4>2. CASE sup' = [sup EXCEPT !.sent = n, !.clean = c]
        <5> HIDE DEF n, c
        <5> QED
          BY <1>0, <4>2 DEF CallState
      <4> QED
        BY <2>4, <4>1, <4>2 DEF SendResumes
    <3> QED
      BY <1>2, <2>1, <3>1, <3>2
  <2> QED
    BY <2>1, <2>2, <2>3, <2>4
<1>9. CASE Timeout
  <2>1. sup'.pc = "run" /\ UNCHANGED md
    BY <1>9, ReturnsTypes DEF Timeout
  <2> QED
    BY <1>2, <2>1
<1>10. CASE ModuleAnswers
  BY <1>1, <1>10 DEF ModuleAnswers, linkVars, taskVars
<1>11. CASE \E n \in DataLens : ModuleSends(n)
  BY <1>1, <1>11 DEF ModuleSends, linkVars, taskVars
<1>12. CASE LineLoses
  <2>1. faults' = faults + 1 /\ UNCHANGED <<md, sup, rx, user, mem>>
    BY <1>12 DEF LineLoses, linkVars, taskVars
  <2>2. faults' # 0
    BY <1>0, <2>1
  <2> QED
    BY <2>1, <2>2 DEF MetaInv
<1>13. CASE UNCHANGED vars
  BY <1>1, <1>13 DEF vars, linkVars, peerVars, taskVars
<1> QED
  BY <1>3, <1>4, <1>5, <1>6, <1>7, <1>8, <1>9, <1>10, <1>11, <1>12, <1>13 DEF Next

\* What is recorded of a receive.
LEMMA ReceivedStep ==
  ASSUME TypeInv, MetaInv, ReceivedIsSent, [Next]_vars
  PROVE  ReceivedIsSent'
<1>0. sup \in CallState /\ faults \in Nat /\ md \in Metadata /\ mem["in"] \in Seq(Byte)
  BY DEF TypeInv, PeerOK, CallOK, MemOK
<1>1. ASSUME UNCHANGED <<last, faults>> PROVE ReceivedIsSent'
  BY <1>1 DEF ReceivedIsSent
<1>2. ASSUME NEW op, NEW kind, NEW len, NEW clean, Calls(op, kind, len, clean) PROVE ReceivedIsSent'
  <2>1. last'.op = "none"
    BY <1>2, CallsRecord
  <2> QED
    BY <2>1 DEF ReceivedIsSent
<1>3. ASSUME NEW res, NEW ch, NEW n, Returns(res, ch, n), sup.op # "recv" \/ res = "timeout" PROVE ReceivedIsSent'
  <2>1. last'.op = sup.op /\ last'.res = res
    BY <1>3, ReturnsRecord
  <2> QED
    BY <1>3, <2>1 DEF ReceivedIsSent
<1>4. CASE \E k \in Kinds : mw_command(k)
  BY <1>2, <1>4 DEF mw_command
<1>5. CASE \E n \in RecvLens : mw_recv_sync(n)
  BY <1>2, <1>5 DEF mw_recv_sync
<1>6. CASE \E n \in SendLens : mw_send_sync(n)
  BY <1>2, <1>6 DEF mw_send_sync
<1>7. CASE ProcessRecv
  BY <1>1, <1>7 DEF ProcessRecv
<1>8. CASE ProcessSend
  BY <1>1, <1>8 DEF ProcessSend
<1>9. CASE Post
  <2>1. /\ sup.pc = "pend" /\ UNCHANGED <<md, mem, faults>>
        /\ CommandResumes \/ RecvResumes \/ SendResumes
    BY <1>9 DEF Post, peerVars
  <2>2. CASE CommandResumes
    <3>1. sup.op = "command" /\ (UNCHANGED last \/ \E res, ch : Returns(res, ch, 0))
      BY <2>2 DEF CommandResumes
    <3> QED
      BY <1>1, <1>3, <2>1, <3>1
  <2>3. CASE RecvResumes
    <3>1. sup.op = "recv" /\ Returns("ok", md.ch, md.len) /\ UNCHANGED rx
      BY <2>3 DEF RecvResumes
    <3> DEFINE B == mem["in"]
               D == SubSeq(B, 1, IF md.len < Len(B) THEN md.len ELSE Len(B))
    <3>2. /\ last'.ch = md.ch /\ last'.off = rx.off /\ last'.torn = rx.torn /\ last'.data = D
      BY <3>1, ReturnsRecord
    <3> HIDE DEF D
    <3>3. ASSUME faults = 0, md.ch = DataCh, ~rx.torn
          PROVE  D # <<>> /\ \A i \in 1 .. Len(D) : D[i] = DataByte(rx.off + i - 1)
      <4>1. md.set
        BY <3>3 DEF MetaInv, DataCh
      <4>2. md.len > 0 /\ Holds(B, md.len, rx.off)
        BY <2>1, <3>1, <3>3, <4>1 DEF MetaInv
      <4>3. md.len \in Nat /\ md.len <= Len(B) /\ Len(B) \in Nat
        BY <1>0, <4>2, LengthRange DEF Holds, Metadata
      <4> DEFINE n == md.len
      <4> HIDE DEF B
      <4>4. D = SubSeq(B, 1, n)
        BY <4>3 DEF D
      <4>5. B \in Seq(Byte) /\ n \in Nat /\ n <= Len(B) /\ \A i \in 1 .. n : B[i] = DataByte(rx.off + i - 1)
        BY <1>0, <4>2, <4>3 DEF Holds, B
      <4> HIDE DEF n
      <4>6. Len(SubSeq(B, 1, n)) = n /\ \A i \in 1 .. n : SubSeq(B, 1, n)[i] = B[i]
        BY <4>5
      <4>7. Len(D) = n /\ \A i \in 1 .. n : D[i] = DataByte(rx.off + i - 1)
        BY <4>4, <4>5, <4>6
      <4>8. D # <<>>
        BY <4>2, <4>7 DEF n
      <4> QED
        BY <4>7, <4>8
    <3> QED
      BY <2>1, <3>2, <3>3 DEF ReceivedIsSent
  <2>4. CASE SendResumes
    <3>1. sup.op = "send" /\ (UNCHANGED last \/ Returns("ok", DataCh, 0))
      BY <2>4 DEF SendResumes
    <3> QED
      BY <1>1, <1>3, <2>1, <3>1
  <2> QED
    BY <2>1, <2>2, <2>3, <2>4
<1>10. CASE Timeout
  BY <1>3, <1>10 DEF Timeout
<1>11. CASE ModuleAnswers
  BY <1>1, <1>11 DEF ModuleAnswers, history
<1>12. CASE \E n \in DataLens : ModuleSends(n)
  BY <1>1, <1>12 DEF ModuleSends, history
<1>13. CASE LineLoses
  <2>1. faults' = faults + 1
    BY <1>13 DEF LineLoses
  <2>2. faults' # 0
    BY <1>0, <2>1
  <2> QED
    BY <2>2 DEF ReceivedIsSent
<1>14. CASE UNCHANGED vars
  BY <1>1, <1>14 DEF vars, history, peerVars
<1> QED
  BY <1>4, <1>5, <1>6, <1>7, <1>8, <1>9, <1>10, <1>11, <1>12, <1>13, <1>14 DEF Next

LEMMA InitDelivery == Init => SendInv /\ LinkInv /\ MetaInv /\ ReceivedIsSent /\ SuccessMeansSent
<1> SUFFICES ASSUME Init PROVE SendInv /\ LinkInv /\ MetaInv /\ ReceivedIsSent /\ SuccessMeansSent
  OBVIOUS
<1>1. rx.stat = "IDLE" /\ rx.ch = 0 /\ line = <<>> /\ sup.pc = "run" /\ last.op = "none" /\ md.set = FALSE /\ md.ch = 0
  BY DEF Init, NoCall, NoResult
<1>2. LineOK(line) /\ InStep(rx, line) /\ Stored(rx, mem)
  BY <1>1 DEF LineOK, InStep, Stored, DataCh
<1> QED
  BY <1>1, <1>2 DEF SendInv, LinkInv, MetaInv, ReceivedIsSent, SuccessMeansSent

\* mw_recv_sync returns bytes the module sent, in their order, and when
\* mw_send_sync succeeds the module has all the bytes it was given.
THEOREM DeliveryIsRightHolds == Spec => []DeliveryIsRight
<1> DEFINE Inv == SendInv /\ LinkInv /\ MetaInv /\ ReceivedIsSent /\ SuccessMeansSent
<1>1. Init => WireInv
  BY DEF Init, WireInv
<1>2. TypeInv /\ WireInv /\ [Next]_vars => WireInv'
  BY WireStep
<1>3. Init => Inv
  BY InitDelivery
<1>4. TypeInv /\ WireInv /\ Inv /\ [Next]_vars => Inv'
  <2> SUFFICES ASSUME TypeInv, WireInv, Inv, [Next]_vars PROVE Inv'
    OBVIOUS
  <2>1. SendInv'
    <3>1. CASE sup'.pc = "pend" /\ sup'.op = "send" /\ sup'.clean
      BY <3>1, SendStep
    <3>2. CASE ~(sup'.pc = "pend" /\ sup'.op = "send" /\ sup'.clean)
      BY <3>2 DEF SendInv
    <3> QED
      BY <3>1, <3>2
  <2>2. LinkInv'
    BY LinkStep
  <2>3. MetaInv'
    BY <2>2, MetaStep
  <2> QED
    BY <2>1, <2>2, <2>3, ReceivedStep, SuccessStep
<1>5. Inv => DeliveryIsRight
  BY DEF DeliveryIsRight
<1> HIDE DEF Inv
<1> QED
  BY <1>1, <1>2, <1>3, <1>4, <1>5, TypesHold, PTL DEF Spec
-----------------------------------------------------------------------------
(* mw_command *)

\* An answer without its STX, and a data frame of n bytes without its.
AnswerAt(L, i) == L[i] = 0 /\ L[i + 1] = 2 /\ L[i + 4] = STX_ETX

DataAt(L, i, n) == L[i] = 16 + (n \div 256) /\ L[i + 1] = n % 256 /\ L[i + n + 2] = STX_ETX

\* The line holds whole frames from its byte F on: C and D are the places of
\* the answers and of the data frames, counted in bytes from the beginning,
\* of which the receiver has taken base, and next says where each of them ends.
Frames(L, base, C, D, next, F) ==
  LET S == C \cup D
      End == base + Len(L) + 1
  IN
  /\ base \in Nat /\ C \subseteq Nat /\ D \subseteq Nat /\ IsFiniteSet(C) /\ next \in [Nat -> Nat]
  /\ F \in S \cup {End} /\ base < F /\ F <= End
  /\ \A s \in S : F <= s /\ s < next[s] /\ s < End /\ next[s] \in S \cup {End} /\ next[s] <= End
  /\ \A s, t \in S : s < t => next[s] <= t
  /\ \A s \in S : L[s - base] = STX_ETX
  /\ \A s \in C : next[s] = s + 6 /\ AnswerAt(L, s + 1 - base)
  /\ \A s \in D : \E n \in Length : n > 0 /\ next[s] = s + (n + 4) /\ DataAt(L, s + 1 - base, n)

\* The receiver has taken some bytes of a frame of which the next k are left.
Current(r, L, k) ==
  /\ r.stat \in {"IDLE", "STX"} => k = 0
  /\ r.stat = "CH_LENH" => \/ k = 5 /\ AnswerAt(L, 1)
                           \/ \E n \in Length : n > 0 /\ k = n + 3 /\ DataAt(L, 1, n)
  /\ r.stat \in {"LEN", "DATA", "PARTIAL", "ETX"} => r.ch \in Channels
  /\ r.stat = "LEN" =>
       /\ r.ch = MW_CTRL_CH => k = 4 /\ r.frame_len = 0 /\ L[1] = 2 /\ L[4] = STX_ETX
       /\ r.ch = DataCh => \E n \in Length : /\ n > 0 /\ k = n + 2 /\ r.frame_len = (n \div 256) * 256
                                             /\ L[1] = n % 256 /\ L[n + 2] = STX_ETX
  /\ r.stat \in {"DATA", "PARTIAL"} => k = Left(r) + 1 /\ L[k] = STX_ETX
  /\ r.stat = "ETX" => k = 1 /\ L[1] = STX_ETX

\* It is an answer.
InAnswer(r, L) ==
  \/ r.stat = "CH_LENH" /\ L[1] = 0
  \/ r.stat \in {"LEN", "DATA", "PARTIAL", "ETX"} /\ r.ch = MW_CTRL_CH

One(b) == IF b THEN 1 ELSE 0

\* Answers the module has still to give, and those on the line.
Pending(C) ==
  Cardinality(C) + Len(requests) + One(tx.stat # "IDLE" /\ tx.ch = MW_CTRL_CH) + One(InAnswer(rx, line))

\* A clean command, not overwritten, that waits.
Asked == sup.pc = "pend" /\ sup.op = "command" /\ sup.clean /\ ~clobbered

\* The answer the receiver is in is the one to command my.
RxOwn(r, L, m, my) ==
  /\ r.stat = "CH_LENH" /\ L[1] = 0 => L[4] = my
  /\ r.stat \in {"LEN", "DATA", "PARTIAL", "ETX"} /\ r.ch = MW_CTRL_CH =>
       /\ r.stat = "LEN" => L[3] = my
       /\ r.stat = "DATA" => /\ r.frame_len = 2
                             /\ r.pos = 0 => L[2] = my
                             /\ r.pos = 1 => L[1] = my
       /\ r.stat = "ETX" => m["cmd"][2] = my
       /\ r.stat # "PARTIAL"

\* All that is under way are the command and its answer.
OwnState(my) ==
  /\ rx.call = sup.id /\ rx.buf = "cmd" /\ rx.max = CmdLen
  /\ tx.stat # "IDLE" => tx.ch = MW_CTRL_CH /\ given.data[2] = my
  /\ \A i \in 1 .. Len(requests) : requests[i][2] = my
  /\ RxOwn(rx, line, mem, my)
  /\ user # "trap"
  /\ user = "clear" => md.set /\ (md.ch = MW_CTRL_CH => mem["cmd"][2] = my)

Track(base, C, D, next, F) ==
  /\ Frames(line, base, C, D, next, F)
  /\ Current(rx, line, F - base - 1)
  /\ Pending(C) <= owed
  /\ Asked => OwnState(sup.id % 256) /\ \A s \in C : line[s + 4 - base] = sup.id % 256

TrackInv == faults = 0 /\ ~refused => \E base, C, D, next, F : Track(base, C, D, next, F)

-----------------------------------------------------------------------------
(* The line *)

\* The receiver takes a byte inside a frame.
LEMMA FramesPass ==
  ASSUME NEW L \in Seq(Byte), L # <<>>, NEW base, NEW C, NEW D, NEW next, NEW F,
         Frames(L, base, C, D, next, F), F > base + 1
  PROVE  /\ Frames(Tail(L), base + 1, C, D, next, F)
         /\ \A s \in C : Tail(L)[s + 4 - (base + 1)] = L[s + 4 - base]
<1> DEFINE T == Tail(L)
           S == C \cup D
           End == base + Len(L) + 1
<1>1. /\ base \in Nat /\ C \subseteq Nat /\ D \subseteq Nat /\ IsFiniteSet(C) /\ next \in [Nat -> Nat]
      /\ F \in S \cup {End} /\ base < F /\ F <= End
      /\ \A s \in S : F <= s /\ s < next[s] /\ s < End /\ next[s] \in S \cup {End} /\ next[s] <= End
      /\ \A s, t \in S : s < t => next[s] <= t
      /\ \A s \in S : L[s - base] = STX_ETX
      /\ \A s \in C : next[s] = s + 6 /\ AnswerAt(L, s + 1 - base)
      /\ \A s \in D : \E n \in Length : n > 0 /\ next[s] = s + (n + 4) /\ DataAt(L, s + 1 - base, n)
  BY DEF Frames
<1>2. Len(T) = Len(L) - 1 /\ \A i \in 1 .. Len(L) - 1 : T[i] = L[i + 1]
  BY TailShape
<1>3. Len(L) \in Nat
  OBVIOUS
<1> HIDE DEF T, S, End
<1>4. /\ End = (base + 1) + Len(T) + 1 /\ base \in Nat /\ base + 1 \in Nat /\ F \in Nat /\ End \in Nat
  BY <1>1, <1>2, <1>3 DEF End, S
<1>5. \A x \in Nat : x > base + 1 /\ x < End => T[x - (base + 1)] = L[x - base]
  <2> SUFFICES ASSUME NEW x \in Nat, x > base + 1, x < End PROVE T[x - (base + 1)] = L[x - base]
    OBVIOUS
  <2>1. x - (base + 1) \in 1 .. Len(L) - 1 /\ (x - (base + 1)) + 1 = x - base
    BY <1>1, <1>3 DEF End
  <2> QED
    BY <1>2, <2>1
<1>6. \A s \in S : s \in Nat /\ s > base + 1 /\ s < End /\ next[s] \in Nat /\ next[s] <= End
  <2> SUFFICES ASSUME NEW s \in S
               PROVE  s \in Nat /\ s > base + 1 /\ s < End /\ next[s] \in Nat /\ next[s] <= End
    OBVIOUS
  <2>1. s \in Nat
    BY <1>1 DEF S
  <2>2. next[s] \in Nat
    BY <1>1, <2>1
  <2>3. F <= s /\ s < End /\ next[s] <= End
    BY <1>1
  <2> QED
    BY <1>4, <2>1, <2>2, <2>3
<1>7. \A s \in S : T[s - (base + 1)] = STX_ETX
  BY <1>1, <1>5, <1>6
<1>8. \A s \in C : AnswerAt(T, s + 1 - (base + 1)) /\ T[s + 4 - (base + 1)] = L[s + 4 - base]
  <2> SUFFICES ASSUME NEW s \in C PROVE AnswerAt(T, s + 1 - (base + 1)) /\ T[s + 4 - (base + 1)] = L[s + 4 - base]
    OBVIOUS
  <2>1. s \in Nat /\ s > base + 1 /\ s + 6 <= End
    BY <1>1, <1>6 DEF S
  <2>2. \A d \in 1 .. 5 : T[s + d - (base + 1)] = L[s + d - base]
    <3> TAKE d \in 1 .. 5
    <3>1. s + d \in Nat /\ s + d > base + 1 /\ s + d < End
      <4>1. d \in Nat /\ d > 0 /\ d < 6
        OBVIOUS
      <4> QED
        BY <1>4, <2>1, <4>1
    <3>2. PICK x \in Nat : x = s + d
      BY <3>1
    <3>3. T[x - (base + 1)] = L[x - base]
      BY <1>5, <3>1, <3>2
    <3>4. s + d - (base + 1) = x - (base + 1) /\ s + d - base = x - base
      <4>1. d \in Nat /\ s \in Nat
        BY <2>1
      <4> QED
        BY <1>4, <3>2, <4>1
    <3> QED
      BY <3>3, <3>4
  <2>3. L[s + 1 - base] = 0 /\ L[(s + 1 - base) + 1] = 2 /\ L[(s + 1 - base) + 4] = STX_ETX
    BY <1>1 DEF AnswerAt
  <2>4. /\ (s + 1 - base) + 1 = s + 2 - base /\ (s + 1 - base) + 4 = s + 5 - base
        /\ (s + 1 - (base + 1)) + 1 = s + 2 - (base + 1) /\ (s + 1 - (base + 1)) + 4 = s + 5 - (base + 1)
    BY <1>1, <2>1
  <2> QED
    BY <2>2, <2>3, <2>4 DEF AnswerAt
<1>9. \A s \in D : \E n \in Length : n > 0 /\ next[s] = s + (n + 4) /\ DataAt(T, s + 1 - (base + 1), n)
  <2> SUFFICES ASSUME NEW s \in D
               PROVE  \E n \in Length : n > 0 /\ next[s] = s + (n + 4) /\ DataAt(T, s + 1 - (base + 1), n)
    OBVIOUS
  <2>1. PICK n \in Length : n > 0 /\ next[s] = s + (n + 4) /\ DataAt(L, s + 1 - base, n)
    BY <1>1
  <2>2. s \in Nat /\ s > base + 1 /\ s + (n + 4) <= End /\ n \in Nat
    BY <1>6, <2>1, LengthRange DEF S
  <2>3. \A d \in 1 .. n + 3 : T[s + d - (base + 1)] = L[s + d - base]
    <3> TAKE d \in 1 .. n + 3
    <3>1. s + d \in Nat /\ s + d > base + 1 /\ s + d < End
      <4>1. d \in Nat /\ d > 0 /\ d < n + 4
        BY <2>2
      <4> QED
        BY <1>1, <1>4, <2>2, <4>1
    <3>2. PICK x \in Nat : x = s + d
      BY <3>1
    <3>3. T[x - (base + 1)] = L[x - base]
      BY <1>5, <3>1, <3>2
    <3>4. s + d - (base + 1) = x - (base + 1) /\ s + d - base = x - base
      <4>1. d \in Nat /\ s \in Nat
        BY <2>2
      <4> QED
        BY <1>4, <3>2, <4>1
    <3> QED
      BY <3>3, <3>4
  <2>4. L[s + 1 - base] = 16 + (n \div 256) /\ L[(s + 1 - base) + 1] = n % 256 /\ L[(s + 1 - base) + n + 2] = STX_ETX
    BY <2>1 DEF DataAt
  <2>5. /\ (s + 1 - base) + 1 = s + 2 - base /\ (s + 1 - base) + n + 2 = s + (n + 3) - base
        /\ (s + 1 - (base + 1)) + 1 = s + 2 - (base + 1) /\ (s + 1 - (base + 1)) + n + 2 = s + (n + 3) - (base + 1)
    BY <1>1, <2>2
  <2>6. 1 \in 1 .. n + 3 /\ 2 \in 1 .. n + 3 /\ n + 3 \in 1 .. n + 3
    BY <2>1, <2>2
  <2> QED
    BY <2>1, <2>3, <2>4, <2>5, <2>6 DEF DataAt
<1>10. Frames(T, base + 1, C, D, next, F)
  BY <1>1, <1>4, <1>6, <1>7, <1>8, <1>9 DEF Frames, S
<1> QED
  BY <1>8, <1>10 DEF T

\* The next frame becomes the current one.
NextFrame(L, base, C, D, next, F) ==
  /\ F \in C \cup D /\ L[1] = STX_ETX
  /\ F \in C => next[F] = F + 6 /\ AnswerAt(L, 2) /\ 6 <= Len(L)
  /\ F \in D => \E n \in Length : n > 0 /\ next[F] = F + (n + 4) /\ DataAt(L, 2, n) /\ n + 4 <= Len(L)
  /\ F \in Nat /\ next[F] \in Nat /\ next[F] > F
  /\ Frames(L, base, C \ {F}, D \ {F}, next, next[F])

LEMMA FramesSkip ==
  ASSUME NEW L \in Seq(Byte), L # <<>>, NEW base, NEW C, NEW D, NEW next, NEW F,
         Frames(L, base, C, D, next, F), F = base + 1
  PROVE  NextFrame(L, base, C, D, next, F)
<1> DEFINE S == C \cup D
           End == base + Len(L) + 1
           N == next[F]
           Q == (C \ {F}) \cup (D \ {F})
<1>1. /\ base \in Nat /\ C \subseteq Nat /\ D \subseteq Nat /\ IsFiniteSet(C) /\ next \in [Nat -> Nat]
      /\ F \in S \cup {End} /\ base < F /\ F <= End
      /\ \A s \in S : F <= s /\ s < next[s] /\ s < End /\ next[s] \in S \cup {End} /\ next[s] <= End
      /\ \A s, t \in S : s < t => next[s] <= t
      /\ \A s \in S : L[s - base] = STX_ETX
      /\ \A s \in C : next[s] = s + 6 /\ AnswerAt(L, s + 1 - base)
      /\ \A s \in D : \E n \in Length : n > 0 /\ next[s] = s + (n + 4) /\ DataAt(L, s + 1 - base, n)
  BY DEF Frames
<1>2. Len(L) \in Nat /\ Len(L) > 0
  OBVIOUS
<1>3. F # End /\ End \in Nat /\ F \in Nat /\ End = F + Len(L)
  <2>1. base \in Nat
    BY <1>1
  <2> QED
    BY <1>2, <2>1
<1>4. Q = S \ {F} /\ Q \subseteq S
  OBVIOUS
<1> HIDE DEF S, End
<1>5. F \in S
  BY <1>1, <1>3
<1>6. F < N /\ N \in S \cup {End} /\ N <= End
  BY <1>1, <1>5
<1>7. N \in Nat /\ base < N
  BY <1>1, <1>3, <1>6
<1> HIDE DEF N, Q
<1>8. N \in Q \cup {End}
  BY <1>3, <1>4, <1>6, <1>7
<1>9. \A s \in Q : N <= s /\ next[s] \in Q \cup {End}
  <2> SUFFICES ASSUME NEW s \in Q PROVE N <= s /\ next[s] \in Q \cup {End}
    OBVIOUS
  <2>1. s \in S /\ s # F /\ s \in Nat /\ F <= s
    BY <1>1, <1>4 DEF S
  <2>2. F < s
    BY <1>3, <2>1
  <2>3. N <= s
    BY <1>1, <1>5, <2>1, <2>2 DEF N
  <2>4. s < next[s] /\ next[s] \in S \cup {End} /\ next[s] \in Nat
    BY <1>1, <2>1
  <2>5. next[s] # F
    BY <1>3, <2>1, <2>2, <2>4
  <2> QED
    BY <1>4, <2>3, <2>4, <2>5
<1>10. IsFiniteSet(C \ {F})
  BY <1>1, FS_RemoveElement
<1>11. Frames(L, base, C \ {F}, D \ {F}, next, N)
  <2>1. \A s \in Q : N <= s /\ s < next[s] /\ s < End /\ next[s] \in Q \cup {End} /\ next[s] <= End
    BY <1>1, <1>4, <1>9
  <2>2. \A s, t \in Q : s < t => next[s] <= t
    BY <1>1, <1>4
  <2>3. \A s \in Q : L[s - base] = STX_ETX
    BY <1>1, <1>4
  <2>4. \A s \in C \ {F} : next[s] = s + 6 /\ AnswerAt(L, s + 1 - base)
    BY <1>1
  <2>5. \A s \in D \ {F} : \E n \in Length : n > 0 /\ next[s] = s + (n + 4) /\ DataAt(L, s + 1 - base, n)
    BY <1>1
  <2>6. C \ {F} \subseteq Nat /\ D \ {F} \subseteq Nat /\ base \in Nat /\ next \in [Nat -> Nat]
    BY <1>1
  <2> QED
    BY <1>6, <1>7, <1>8, <1>10, <2>1, <2>2, <2>3, <2>4, <2>5, <2>6 DEF Frames, Q, End
<1>12. F - base = 1 /\ F + 1 - base = 2
  BY <1>1
<1>13. L[1] = STX_ETX
  BY <1>1, <1>5, <1>12
<1>14. F \in C => N = F + 6 /\ AnswerAt(L, 2) /\ 6 <= Len(L)
  <2> SUFFICES ASSUME F \in C PROVE N = F + 6 /\ AnswerAt(L, 2) /\ 6 <= Len(L)
    OBVIOUS
  <2>1. N = F + 6 /\ AnswerAt(L, F + 1 - base)
    BY <1>1 DEF N
  <2> QED
    BY <1>2, <1>3, <1>6, <1>12, <2>1
<1>15. F \in D => \E n \in Length : n > 0 /\ N = F + (n + 4) /\ DataAt(L, 2, n) /\ n + 4 <= Len(L)
  <2> SUFFICES ASSUME F \in D
               PROVE  \E n \in Length : n > 0 /\ N = F + (n + 4) /\ DataAt(L, 2, n) /\ n + 4 <= Len(L)
    OBVIOUS
  <2>1. PICK n \in Length : n > 0 /\ N = F + (n + 4) /\ DataAt(L, F + 1 - base, n)
    BY <1>1 DEF N
  <2>2. n + 4 <= Len(L)
    BY <1>2, <1>3, <1>6, <2>1, LengthRange
  <2> QED
    BY <1>12, <2>1, <2>2
<1> QED
  BY <1>3, <1>5, <1>6, <1>7, <1>11, <1>13, <1>14, <1>15 DEF N, S, NextFrame

\* A frame is added to the line: an answer, or data.
LEMMA FramesGrow ==
  ASSUME NEW L \in Seq(Byte), NEW G \in Seq(Byte), NEW base, NEW C, NEW D, NEW next, NEW F,
         Frames(L, base, C, D, next, F), G[1] = STX_ETX, Len(G) > 0,
         NEW A, NEW B,
         \/ A = {base + Len(L) + 1} /\ B = {} /\ Len(G) = 6 /\ AnswerAt(G, 2)
         \/ /\ A = {} /\ B = {base + Len(L) + 1}
            /\ \E n \in Length : n > 0 /\ Len(G) = n + 4 /\ DataAt(G, 2, n)
  PROVE  \E nx : /\ Frames(L \o G, base, C \cup A, D \cup B, nx, F)
                 /\ \A s \in C : s + 4 - base \in 1 .. Len(L)
<1> DEFINE M == L \o G
           S == C \cup D
           End == base + Len(L) + 1
           To == End + Len(G)
           nx == [next EXCEPT ![End] = To]
           CC == C \cup A
           DD == D \cup B
           Q == CC \cup DD
<1>1. /\ base \in Nat /\ C \subseteq Nat /\ D \subseteq Nat /\ IsFiniteSet(C) /\ next \in [Nat -> Nat]
      /\ F \in S \cup {End} /\ base < F /\ F <= End
      /\ \A s \in S : F <= s /\ s < next[s] /\ s < End /\ next[s] \in S \cup {End} /\ next[s] <= End
      /\ \A s, t \in S : s < t => next[s] <= t
      /\ \A s \in S : L[s - base] = STX_ETX
      /\ \A s \in C : next[s] = s + 6 /\ AnswerAt(L, s + 1 - base)
      /\ \A s \in D : \E n \in Length : n > 0 /\ next[s] = s + (n + 4) /\ DataAt(L, s + 1 - base, n)
  BY DEF Frames
<1>2. /\ M \in Seq(Byte) /\ Len(M) = Len(L) + Len(G)
      /\ \A i \in 1 .. Len(L) + Len(G) : M[i] = IF i <= Len(L) THEN L[i] ELSE G[i - Len(L)]
  BY Concat
<1>3. Len(L) \in Nat /\ Len(G) \in Nat /\ Len(G) > 0
  OBVIOUS
<1>4. /\ End \in Nat /\ To \in Nat /\ To > End /\ To = base + Len(M) + 1 /\ base \in Nat /\ F \in Nat
  <2>1. base \in Nat /\ C \cup D \subseteq Nat /\ F \in S \cup {End}
    BY <1>1
  <2>2. End \in Nat /\ To \in Nat /\ To > End /\ To = base + Len(M) + 1
    BY <1>2, <1>3, <2>1
  <2>3. F \in Nat
    BY <2>1, <2>2
  <2> QED
    BY <2>1, <2>2, <2>3
<1>5. Q = S \cup {End} /\ A \subseteq {End} /\ B \subseteq {End}
  OBVIOUS
<1>6. \A i \in 1 .. Len(L) : M[i] = L[i]
  BY <1>2, <1>3
<1>7. \A i \in 1 .. Len(G) : M[Len(L) + i] = G[i]
  <2> TAKE i \in 1 .. Len(G)
  <2>1. Len(L) + i \in 1 .. Len(L) + Len(G) /\ ~(Len(L) + i <= Len(L)) /\ (Len(L) + i) - Len(L) = i
    BY <1>3
  <2> QED
    BY <1>2, <2>1
<1> HIDE DEF M, S, To, nx, Q, CC, DD
<1>8. \A s \in S : s \in Nat /\ s # End
  <2> SUFFICES ASSUME NEW s \in S PROVE s \in Nat /\ s # End
    OBVIOUS
  <2>1. s \in Nat
    BY <1>1 DEF S
  <2>2. s < End
    BY <1>1
  <2> QED
    BY <1>4, <2>1, <2>2
<1>9. nx \in [Nat -> Nat] /\ nx[End] = To /\ \A s \in Nat : s # End => nx[s] = next[s]
  BY <1>1, <1>4 DEF nx
<1> HIDE DEF End
<1>10. \A s \in S : nx[s] = next[s]
  BY <1>8, <1>9
<1>11. \A s \in Q : F <= s /\ s < nx[s] /\ s < To /\ nx[s] \in Q \cup {To} /\ nx[s] <= To
  <2> SUFFICES ASSUME NEW s \in Q
               PROVE  F <= s /\ s < nx[s] /\ s < To /\ nx[s] \in Q \cup {To} /\ nx[s] <= To
    OBVIOUS
  <2>1. CASE s = End
    BY <1>1, <1>4, <1>9, <2>1
  <2>2. CASE s # End
    <3>1. s \in S /\ s \in Nat /\ nx[s] = next[s] /\ next[s] \in Nat
      BY <1>1, <1>5, <1>8, <1>10, <2>2
    <3>2. F <= s /\ s < next[s] /\ s < End /\ next[s] \in S \cup {End} /\ next[s] <= End
      BY <1>1, <3>1
    <3> QED
      BY <1>4, <1>5, <3>1, <3>2
  <2> QED
    BY <2>1, <2>2
<1>12. \A s, t \in Q : s < t => nx[s] <= t
  <2> SUFFICES ASSUME NEW s \in Q, NEW t \in Q, s < t PROVE nx[s] <= t
    OBVIOUS
  <2>1. s # End
    <3>1. CASE t = End
      BY <1>4, <3>1
    <3>2. CASE t # End
      <4>1. t \in S
        BY <1>5, <3>2
      <4>2. t \in Nat /\ t < End
        BY <1>1, <1>8, <4>1
      <4> QED
        BY <1>4, <4>2
    <3> QED
      BY <3>1, <3>2
  <2>2. s \in S /\ nx[s] = next[s]
    BY <1>5, <1>10, <2>1
  <2>3. CASE t = End
    <3>1. next[s] <= End
      BY <1>1, <2>2
    <3> QED
      BY <2>2, <2>3, <3>1
  <2>4. CASE t # End
    <3>1. t \in S
      BY <1>5, <2>4
    <3>2. next[s] <= t
      BY <1>1, <2>2, <3>1
    <3> QED
      BY <2>2, <3>2
  <2> QED
    BY <2>3, <2>4
<1>13. \A s \in Q : M[s - base] = STX_ETX
  <2> SUFFICES ASSUME NEW s \in Q PROVE M[s - base] = STX_ETX
    OBVIOUS
  <2>1. CASE s = End
    <3>1. End - base = Len(L) + 1 /\ 1 \in 1 .. Len(G)
      BY <1>1, <1>3 DEF End
    <3> QED
      BY <1>7, <2>1, <3>1
  <2>2. CASE s # End
    <3>1. s \in S /\ s \in Nat /\ base < s /\ s < End
      BY <1>1, <1>4, <1>5, <1>8, <2>2
    <3>2. s - base \in 1 .. Len(L)
      BY <1>1, <1>3, <3>1 DEF End
    <3> QED
      BY <1>1, <1>6, <3>1, <3>2
  <2> QED
    BY <2>1, <2>2
<1>14. \A s \in C : /\ nx[s] = s + 6 /\ AnswerAt(M, s + 1 - base) /\ s + 4 - base \in 1 .. Len(L)
  <2> SUFFICES ASSUME NEW s \in C
               PROVE  nx[s] = s + 6 /\ AnswerAt(M, s + 1 - base) /\ s + 4 - base \in 1 .. Len(L)
    OBVIOUS
  <2>1. s \in S /\ s \in Nat /\ next[s] = s + 6 /\ AnswerAt(L, s + 1 - base) /\ nx[s] = next[s]
    BY <1>1, <1>8, <1>10 DEF S
  <2>2. s + 6 <= End /\ base < s
    BY <1>1, <1>4, <2>1
  <2>3. /\ s + 1 - base \in 1 .. Len(L) /\ (s + 1 - base) + 1 \in 1 .. Len(L) /\ (s + 1 - base) + 4 \in 1 .. Len(L)
        /\ s + 4 - base \in 1 .. Len(L)
    BY <1>3, <1>4, <2>1, <2>2 DEF End
  <2> QED
    BY <1>6, <2>1, <2>3 DEF AnswerAt
<1>15. \A s \in D : \E n \in Length : n > 0 /\ nx[s] = s + (n + 4) /\ DataAt(M, s + 1 - base, n)
  <2> SUFFICES ASSUME NEW s \in D
               PROVE  \E n \in Length : n > 0 /\ nx[s] = s + (n + 4) /\ DataAt(M, s + 1 - base, n)
    OBVIOUS
  <2>1. PICK n \in Length : n > 0 /\ next[s] = s + (n + 4) /\ DataAt(L, s + 1 - base, n)
    BY <1>1
  <2>2. s \in S /\ s \in Nat /\ nx[s] = next[s] /\ n \in Nat
    BY <1>8, <1>10, LengthRange DEF S
  <2>3. s + (n + 4) <= End /\ base < s
    BY <1>1, <1>4, <2>1, <2>2
  <2>4. /\ s + 1 - base \in 1 .. Len(L) /\ (s + 1 - base) + 1 \in 1 .. Len(L)
        /\ (s + 1 - base) + n + 2 \in 1 .. Len(L)
    BY <1>3, <1>4, <2>2, <2>3 DEF End
  <2> DEFINE i == s + 1 - base
  <2> HIDE DEF i
  <2>5. /\ i \in 1 .. Len(L) /\ i + 1 \in 1 .. Len(L) /\ i + n + 2 \in 1 .. Len(L)
        /\ L[i] = 16 + (n \div 256) /\ L[i + 1] = n % 256 /\ L[i + n + 2] = STX_ETX
    BY <2>1, <2>4 DEF DataAt, i
  <2>6. M[i] = L[i] /\ M[i + 1] = L[i + 1] /\ M[i + n + 2] = L[i + n + 2]
    BY <1>6, <2>5
  <2>7. DataAt(M, i, n)
    BY <2>5, <2>6 DEF DataAt
  <2> QED
    BY <2>1, <2>2, <2>7 DEF i
<1>16. End + 1 - base = Len(L) + 2
  BY <1>1, <1>3 DEF End
<1>17. \A s \in A : nx[s] = s + 6 /\ AnswerAt(M, s + 1 - base)
  <2> SUFFICES ASSUME A = {End}, Len(G) = 6, AnswerAt(G, 2) PROVE nx[End] = End + 6 /\ AnswerAt(M, End + 1 - base)
    BY DEF End
  <2>1. nx[End] = End + 6
    BY <1>9 DEF To
  <2>2. /\ G[2] = 0 /\ G[2 + 1] = 2 /\ G[2 + 4] = STX_ETX
    BY DEF AnswerAt
  <2>3. M[Len(L) + 2] = G[2] /\ M[Len(L) + 3] = G[3] /\ M[Len(L) + 6] = G[6]
    BY <1>7
  <2>4. (Len(L) + 2) + 1 = Len(L) + 3 /\ (Len(L) + 2) + 4 = Len(L) + 6
    BY <1>3
  <2> QED
    BY <1>16, <2>1, <2>2, <2>3, <2>4 DEF AnswerAt
<1>18. \A s \in B : \E n \in Length : n > 0 /\ nx[s] = s + (n + 4) /\ DataAt(M, s + 1 - base, n)
  <2> SUFFICES ASSUME B = {End}, NEW n \in Length, n > 0, Len(G) = n + 4, DataAt(G, 2, n)
               PROVE  nx[End] = End + (n + 4) /\ DataAt(M, End + 1 - base, n)
    BY DEF End
  <2>1. nx[End] = End + (n + 4) /\ n \in Nat
    BY <1>9, LengthRange DEF To
  <2>2. /\ G[2] = 16 + (n \div 256) /\ G[2 + 1] = n % 256 /\ G[2 + n + 2] = STX_ETX
    BY DEF DataAt
  <2>3. M[Len(L) + 2] = G[2] /\ M[Len(L) + 3] = G[3] /\ M[Len(L) + (n + 4)] = G[n + 4]
    <3>1. 2 \in 1 .. Len(G) /\ 3 \in 1 .. Len(G) /\ n + 4 \in 1 .. Len(G)
      BY <2>1
    <3> QED
      BY <1>7, <3>1
  <2>4. (Len(L) + 2) + 1 = Len(L) + 3 /\ (Len(L) + 2) + n + 2 = Len(L) + (n + 4) /\ 2 + n + 2 = n + 4
    BY <1>3, <2>1
  <2> DEFINE i == Len(L) + 2
  <2> HIDE DEF i
  <2>5. M[i] = G[2] /\ M[i + 1] = G[3] /\ M[i + n + 2] = G[n + 4]
    BY <2>3, <2>4 DEF i
  <2>6. G[3] = n % 256 /\ G[n + 4] = STX_ETX
    BY <2>2, <2>4
  <2>7. DataAt(M, i, n)
    BY <2>2, <2>5, <2>6 DEF DataAt
  <2> QED
    BY <1>16, <2>1, <2>7 DEF i
<1>19. IsFiniteSet(CC)
  <2>1. A = {} \/ A = {End}
    BY DEF End
  <2>2. IsFiniteSet(C) /\ C \cup {} = C
    BY <1>1
  <2>3. IsFiniteSet(C \cup {End})
    BY <2>2, FS_AddElement
  <2> QED
    BY <2>1, <2>2, <2>3 DEF CC
<1>20. Frames(M, base, CC, DD, nx, F)
  <2>1. CC \subseteq Nat /\ DD \subseteq Nat
    BY <1>1, <1>4, <1>5 DEF CC, DD
  <2>2. F \in Q \cup {To} /\ F <= To /\ base < F
    <3>1. F \in S \cup {End} /\ F <= End /\ base < F
      BY <1>1
    <3> QED
      BY <1>4, <1>5, <3>1
  <2>3. \A s \in CC : nx[s] = s + 6 /\ AnswerAt(M, s + 1 - base)
    BY <1>14, <1>17 DEF CC
  <2>4. \A s \in DD : \E n \in Length : n > 0 /\ nx[s] = s + (n + 4) /\ DataAt(M, s + 1 - base, n)
    BY <1>15, <1>18 DEF DD
  <2> DEFINE E == base + Len(M) + 1
  <2>5. E = To
    BY <1>4
  <2> HIDE DEF E
  <2>6. /\ F \in Q \cup {E} /\ F <= E
        /\ \A s \in Q : F <= s /\ s < nx[s] /\ s < E /\ nx[s] \in Q \cup {E} /\ nx[s] <= E
    BY <1>11, <2>2, <2>5
  <2>7. base \in Nat /\ nx \in [Nat -> Nat]
    BY <1>4, <1>9
  <2> QED
    BY <1>12, <1>13, <1>19, <2>1, <2>2, <2>3, <2>4, <2>6, <2>7 DEF Frames, Q, E
<1> QED
  BY <1>14, <1>20 DEF M, CC, DD

-----------------------------------------------------------------------------
(* The receiver and the line *)

\* What is left of a frame is at least what the receiver still looks at.
LEMMA CurrentBounds ==
  ASSUME NEW r \in RxState, RxFits(r), NEW L, NEW k \in Nat, Current(r, L, k)
  PROVE  /\ r.stat = "CH_LENH" => k >= 4 /\ (L[1] = 0 => k = 5)
         /\ r.stat = "LEN" => k >= 3 /\ (r.ch = MW_CTRL_CH => k = 4)
         /\ r.stat \in {"DATA", "PARTIAL"} => k >= 2 /\ Left(r) \in Nat /\ Left(r) > 0
         /\ r.stat = "ETX" => k = 1
<1>1. r.frame_len \in Nat /\ r.pos \in Nat
  BY LengthRange DEF RxState
<1>2. CASE r.stat = "CH_LENH"
  <2>1. CASE k = 5 /\ AnswerAt(L, 1)
    BY <1>2, <2>1
  <2>2. CASE \E n \in Length : n > 0 /\ k = n + 3 /\ DataAt(L, 1, n)
    <3>1. PICK n \in Length : n > 0 /\ k = n + 3 /\ L[1] = 16 + (n \div 256)
      BY <2>2 DEF DataAt
    <3>2. n \in Nat /\ n \div 256 \in Nat
      <4>1. n \in Nat
        BY LengthRange
      <4> QED
        BY <4>1
    <3> QED
      BY <1>2, <3>1, <3>2
  <2> QED
    BY <1>2, <2>1, <2>2 DEF Current
<1>3. CASE r.stat = "LEN"
  <2>1. r.ch \in {MW_CTRL_CH, DataCh}
    BY <1>3 DEF Current, Channels
  <2>2. CASE r.ch = MW_CTRL_CH
    BY <1>3, <2>2 DEF Current
  <2>3. CASE r.ch = DataCh
    <3>1. PICK n \in Length : n > 0 /\ k = n + 2
      BY <1>3, <2>3 DEF Current
    <3>2. n \in Nat
      BY LengthRange
    <3> QED
      BY <1>3, <2>3, <3>1, <3>2 DEF MW_CTRL_CH, DataCh
  <2> QED
    BY <2>1, <2>2, <2>3
<1>4. CASE r.stat \in {"DATA", "PARTIAL"}
  <2>1. k = Left(r) + 1
    BY <1>4 DEF Current
  <2>2. Left(r) \in Nat /\ Left(r) > 0
    BY <1>1, <1>4 DEF Left, RxFits
  <2> QED
    BY <1>4, <2>1, <2>2
<1>5. CASE r.stat = "ETX"
  BY <1>5 DEF Current
<1> QED
  BY <1>2, <1>3, <1>4, <1>5

\* Only those bytes matter.
LEMMA CurrentSame ==
  ASSUME NEW r \in RxState, RxFits(r), NEW L, NEW M, NEW k \in Nat, Current(r, L, k),
         \A i \in 1 .. k : M[i] = L[i]
  PROVE  /\ Current(r, M, k) /\ (InAnswer(r, M) <=> InAnswer(r, L))
         /\ \A m, my : RxOwn(r, L, m, my) => RxOwn(r, M, m, my)
<1>1. CASE r.stat = "CH_LENH"
  <2>1. k >= 4 /\ (L[1] = 0 => k = 5)
    BY <1>1, CurrentBounds
  <2>2. M[1] = L[1] /\ M[2] = L[2] /\ M[4] = L[4] /\ (k = 5 => M[5] = L[5])
    BY <2>1
  <2>3. k = 5 /\ AnswerAt(L, 1) => AnswerAt(M, 1)
    BY <2>2 DEF AnswerAt
  <2>4. ASSUME NEW n \in Length, n > 0, k = n + 3, DataAt(L, 1, n) PROVE DataAt(M, 1, n)
    <3>1. n \in Nat
      BY LengthRange
    <3>2. 1 + n + 2 = k /\ k \in 1 .. k
      BY <2>4, <3>1
    <3>3. M[1 + n + 2] = L[1 + n + 2]
      BY <3>2
    <3> QED
      BY <2>2, <2>4, <3>3 DEF DataAt
  <2>5. Current(r, M, k)
    BY <1>1, <2>3, <2>4 DEF Current
  <2> QED
    BY <1>1, <2>2, <2>5 DEF InAnswer, RxOwn
<1>2. CASE r.stat = "LEN"
  <2>1. k >= 3 /\ (r.ch = MW_CTRL_CH => k = 4)
    BY <1>2, CurrentBounds
  <2>2. M[1] = L[1] /\ M[3] = L[3] /\ (r.ch = MW_CTRL_CH => M[4] = L[4])
    BY <2>1
  <2>3. ASSUME NEW n \in Length, k = n + 2 PROVE M[n + 2] = L[n + 2]
    <3>1. n + 2 \in 1 .. k
      BY <2>3, LengthRange
    <3> QED
      BY <3>1
  <2>4. Current(r, M, k)
    BY <1>2, <2>2, <2>3 DEF Current
  <2> QED
    BY <1>2, <2>2, <2>4 DEF InAnswer, RxOwn
<1>3. CASE r.stat \in {"DATA", "PARTIAL"}
  <2>1. k >= 2 /\ k = Left(r) + 1
    BY <1>3, CurrentBounds DEF Current
  <2>2. M[k] = L[k] /\ M[1] = L[1] /\ M[2] = L[2]
    BY <2>1
  <2>3. Current(r, M, k)
    BY <1>3, <2>2 DEF Current
  <2> QED
    BY <1>3, <2>2, <2>3 DEF InAnswer, RxOwn
<1>4. CASE r.stat \in {"IDLE", "STX", "ETX"}
  <2>1. r.stat = "ETX" => k = 1
    BY <1>4, CurrentBounds
  <2> QED
    BY <1>4, <2>1 DEF Current, InAnswer, RxOwn
<1> QED
  BY <1>1, <1>2, <1>3, <1>4 DEF RxState, RxStats

\* The receiver takes a byte inside a frame, and does not refuse the frame.
LEMMA CurrentReceives ==
  ASSUME NEW r \in RxState, RxFits(r), r.stat \in Receiving \ {"STX"}, NEW L \in Seq(Byte),
         NEW k \in Nat, Current(r, L, k), k <= Len(L),
         Received(r, L[1]).stat = "IDLE" => r.stat = "ETX"
  PROVE  /\ Current(Received(r, L[1]), Tail(L), k - 1)
         /\ InAnswer(Received(r, L[1]), Tail(L)) <=> InAnswer(r, L) /\ r.stat # "ETX"
<1> DEFINE b == L[1]
           q == Received(r, b)
           T == Tail(L)
<1>1. k > 0 /\ L # <<>> /\ Len(L) \in Nat
  <2>1. k > 0
    BY CurrentBounds DEF Receiving
  <2> QED
    BY <2>1
<1>2. b \in Byte /\ \A i \in 1 .. Len(L) - 1 : T[i] = L[i + 1]
  BY <1>1, TailShape
<1>3. b \in Nat /\ b <= 255
  BY <1>2, ByteRange
<1>4. \A i \in 1 .. k - 1 : T[i] = L[i + 1]
  BY <1>1, <1>2
<1>5. MW_CTRL_CH # DataCh /\ MW_CTRL_CH = 0 /\ DataCh = 1 /\ STX_ETX = 126 /\ Channels = {MW_CTRL_CH, DataCh}
  BY DEF MW_CTRL_CH, DataCh, STX_ETX, Channels
<1> HIDE DEF q, b, T
<1>6. CASE r.stat = "CH_LENH"
  <2>1. CASE k = 5 /\ AnswerAt(L, 1)
    <3>1. b = 0 /\ L[2] = 2 /\ L[5] = STX_ETX
      BY <2>1 DEF AnswerAt, b
    <3>0. b # STX_ETX
      BY <1>5, <3>1
    <3>2. q.ch = b \div 16 /\ q.frame_len = (b % 16) * 256 /\ q.stat \in {"LEN", "IDLE"}
      BY <1>2, <1>6, <3>0, ReceivedFields DEF q
    <3>3. b \div 16 = 0 /\ (b % 16) * 256 = 0
      BY <3>1
    <3>4. q.stat = "LEN" /\ q.ch = MW_CTRL_CH /\ q.frame_len = 0
      BY <1>5, <1>6, <3>2, <3>3 DEF q, b
    <3>5. T[1] = 2 /\ T[4] = STX_ETX /\ k - 1 = 4
      BY <1>4, <2>1, <3>1
    <3>6. Current(q, T, k - 1)
      BY <1>5, <3>4, <3>5 DEF Current
    <3> QED
      BY <1>6, <3>1, <3>4, <3>6 DEF InAnswer, q, b, T
  <2>2. CASE \E n \in Length : n > 0 /\ k = n + 3 /\ DataAt(L, 1, n)
    <3>1. PICK n \in Length : /\ n > 0 /\ k = n + 3 /\ b = 16 + (n \div 256) /\ L[2] = n % 256
                              /\ L[1 + n + 2] = STX_ETX
      BY <2>2 DEF DataAt, b
    <3>2. n \in Nat /\ n \div 256 \in Nat /\ n \div 256 <= 15
      <4>1. DataCh \in Channels
        BY <1>5
      <4> QED
        BY <4>1, HeaderBytes, LengthRange, NibbleRange
    <3> DEFINE h == n \div 256
    <3>3. h \in Nat /\ h <= 15 /\ b = 16 + h
      BY <3>1, <3>2
    <3> HIDE DEF h
    <3>4. b # STX_ETX /\ b # 0 /\ b \div 16 = 1 /\ b % 16 = h
      BY <1>5, <3>3
    <3>5. q.ch = b \div 16 /\ q.frame_len = (b % 16) * 256 /\ q.stat \in {"LEN", "IDLE"}
      BY <1>2, <1>6, <3>4, ReceivedFields DEF q
    <3>6. q.stat = "LEN" /\ q.ch = DataCh /\ q.frame_len = (n \div 256) * 256
      BY <1>5, <1>6, <3>4, <3>5 DEF q, b, h
    <3>7. T[1] = n % 256 /\ T[n + 2] = STX_ETX /\ k - 1 = n + 2
      <4>1. 1 \in 1 .. k - 1 /\ n + 2 \in 1 .. k - 1 /\ (n + 2) + 1 = 1 + n + 2 /\ k - 1 = n + 2
        BY <3>1, <3>2
      <4>2. T[1] = L[1 + 1] /\ T[n + 2] = L[(n + 2) + 1]
        BY <1>4, <4>1
      <4> QED
        BY <3>1, <4>1, <4>2
    <3>8. Current(q, T, k - 1)
      BY <1>5, <3>1, <3>6, <3>7 DEF Current
    <3> QED
      BY <1>5, <1>6, <3>4, <3>6, <3>8 DEF InAnswer, q, b, T
  <2> QED
    BY <1>6, <2>1, <2>2 DEF Current
<1>7. CASE r.stat = "LEN"
  <2>1. /\ q.stat = (IF r.frame_len + b > 0 THEN "DATA" ELSE "ETX")
        /\ q.ch = r.ch /\ q.frame_len = r.frame_len + b /\ q.pos = 0
    BY <1>2, <1>7, ReceivedFields DEF q
  <2>2. r.ch \in Channels
    BY <1>7 DEF Current
  <2>3. CASE r.ch = MW_CTRL_CH
    <3>1. k = 4 /\ r.frame_len = 0 /\ b = 2 /\ L[4] = STX_ETX
      BY <1>7, <2>3 DEF Current, b
    <3>2. q.stat = "DATA" /\ q.frame_len = 2 /\ Left(q) = 2
      BY <2>1, <3>1 DEF Left
    <3>3. T[3] = STX_ETX /\ k - 1 = 3
      BY <1>4, <3>1
    <3>4. Current(q, T, k - 1)
      BY <2>1, <2>2, <3>2, <3>3 DEF Current
    <3> QED
      BY <1>7, <2>1, <2>3, <3>2, <3>4 DEF InAnswer, q, b, T
  <2>4. CASE r.ch = DataCh
    <3>1. PICK n \in Length : /\ n > 0 /\ k = n + 2 /\ r.frame_len = (n \div 256) * 256
                              /\ b = n % 256 /\ L[n + 2] = STX_ETX
      BY <1>7, <2>4 DEF Current, b
    <3>2. n \in Nat /\ (n \div 256) * 256 + (n % 256) = n
      <4>1. DataCh \in Channels
        BY <1>5
      <4> QED
        BY <4>1, HeaderBytes, LengthRange
    <3>3. q.stat = "DATA" /\ Left(q) = n
      BY <2>1, <3>1, <3>2 DEF Left
    <3>4. T[k - 1] = STX_ETX /\ k - 1 = n + 1
      <4>1. n + 1 \in 1 .. k - 1 /\ (n + 1) + 1 = n + 2 /\ k - 1 = n + 1
        BY <3>1, <3>2
      <4> QED
        BY <1>4, <3>1, <4>1
    <3>5. Current(q, T, k - 1)
      BY <2>1, <2>2, <3>3, <3>4 DEF Current
    <3> QED
      BY <1>5, <1>7, <2>1, <2>4, <3>3, <3>5 DEF InAnswer, q, b, T
  <2> QED
    BY <1>5, <2>2, <2>3, <2>4
<1>8. CASE r.stat = "DATA"
  <2> DEFINE p == r.pos + 1
  <2>1. /\ q.stat = (IF p >= r.frame_len THEN "ETX" ELSE IF p >= r.max THEN "PARTIAL" ELSE "DATA")
        /\ q.ch = r.ch /\ q.pos = p
        /\ q.frame_len = (IF q.stat = "PARTIAL" THEN r.frame_len - p ELSE r.frame_len)
    BY <1>2, <1>8, ReceivedFields DEF q
  <2>2. r.pos \in Nat /\ r.frame_len \in Nat /\ r.pos < r.frame_len /\ r.max \in Nat
    BY <1>8, LengthRange DEF RxState, RxFits
  <2>3. k = (r.frame_len - r.pos) + 1 /\ L[k] = STX_ETX /\ r.ch \in Channels
    BY <1>8 DEF Current, Left
  <2>4. k - 1 \in 1 .. k - 1 /\ (k - 1) + 1 = k
    BY <2>2, <2>3
  <2>5. T[k - 1] = STX_ETX
    BY <1>4, <2>3, <2>4
  <2>6. CASE p >= r.frame_len
    <3>1. q.stat = "ETX" /\ k - 1 = 1
      BY <2>1, <2>2, <2>3, <2>6
    <3>2. Current(q, T, k - 1)
      BY <2>1, <2>3, <2>5, <3>1 DEF Current
    <3> QED
      BY <1>8, <2>1, <3>1, <3>2 DEF InAnswer, q, b, T
  <2>7. CASE ~(p >= r.frame_len)
    <3>1. q.stat \in {"DATA", "PARTIAL"} /\ k - 1 = Left(q) + 1
      BY <2>1, <2>2, <2>3, <2>7 DEF Left
    <3>2. Current(q, T, k - 1)
      BY <2>1, <2>3, <2>5, <3>1 DEF Current
    <3> QED
      BY <1>8, <2>1, <3>1, <3>2 DEF InAnswer, q, b, T
  <2> QED
    BY <2>6, <2>7
<1>9. CASE r.stat = "ETX"
  <2>1. q.stat = "IDLE"
    BY <1>2, <1>9, ReceivedFields DEF q
  <2>2. k - 1 = 0
    BY <1>9 DEF Current
  <2> QED
    BY <1>9, <2>1, <2>2 DEF InAnswer, Current, q, b, T
<1> QED
  BY <1>6, <1>7, <1>8, <1>9 DEF Receiving

\* And the answer is the one to command my as before.
LEMMA OwnReceives ==
  ASSUME NEW r \in RxState, RxFits(r), r.stat \in Receiving \ {"STX"}, NEW L \in Seq(Byte),
         NEW k \in Nat, Current(r, L, k), k <= Len(L),
         Received(r, L[1]).stat = "IDLE" => r.stat = "ETX",
         r.buf = "cmd", r.max >= 2, NEW m \in [{"cmd", "in"} -> Seq(Byte)], NEW my, RxOwn(r, L, m, my),
         NEW m2, m2 = IF r.stat = "DATA" THEN [m EXCEPT ![r.buf] = Written(@, r.pos, L[1])] ELSE m
  PROVE  RxOwn(Received(r, L[1]), Tail(L), m2, my)
<1> DEFINE b == L[1]
           q == Received(r, b)
           T == Tail(L)
<1>1. k > 0 /\ L # <<>> /\ Len(L) \in Nat
  <2>1. k > 0
    BY CurrentBounds DEF Receiving
  <2> QED
    BY <2>1
<1>2. b \in Byte /\ \A i \in 1 .. Len(L) - 1 : T[i] = L[i + 1]
  BY <1>1, TailShape
<1>3. /\ Current(q, T, k - 1) /\ (InAnswer(q, T) <=> InAnswer(r, L) /\ r.stat # "ETX") /\ q \in RxState /\ RxFits(q)
      /\ k - 1 \in Nat
  <2>1. Current(q, T, k - 1) /\ (InAnswer(q, T) <=> InAnswer(r, L) /\ r.stat # "ETX")
    BY CurrentReceives
  <2>2. q \in RxState /\ RxFits(q)
    BY <1>2, ReceivedTypes
  <2> QED
    BY <1>1, <2>1, <2>2
<1>4. \A i \in 1 .. k - 1 : T[i] = L[i + 1]
  BY <1>1, <1>2
<1>5. MW_CTRL_CH # DataCh /\ MW_CTRL_CH = 0 /\ STX_ETX = 126
  BY DEF MW_CTRL_CH, DataCh, STX_ETX
<1> HIDE DEF q, b, T
<1>6. CASE ~InAnswer(q, T)
  BY <1>6 DEF InAnswer, RxOwn, q, b, T
<1>7. CASE InAnswer(q, T) /\ r.stat = "CH_LENH"
  <2>1. b = 0 /\ k = 5 /\ L[4] = my
    BY <1>3, <1>7, CurrentBounds DEF InAnswer, RxOwn, b
  <2>2. b # STX_ETX
    BY <1>5, <2>1
  <2>3. q.stat \in {"LEN", "IDLE"}
    BY <1>2, <1>7, <2>2, ReceivedFields DEF q
  <2>4. T[3] = my
    BY <1>4, <2>1
  <2> QED
    BY <2>3, <2>4 DEF RxOwn, q, b, T
<1>8. CASE InAnswer(q, T) /\ r.stat = "LEN"
  <2>1. r.ch = MW_CTRL_CH
    BY <1>3, <1>8 DEF InAnswer
  <2>2. k = 4 /\ r.frame_len = 0 /\ b = 2 /\ L[3] = my
    BY <1>8, <2>1 DEF Current, RxOwn, b
  <2>3. /\ q.stat = (IF r.frame_len + b > 0 THEN "DATA" ELSE "ETX")
        /\ q.frame_len = r.frame_len + b /\ q.pos = 0
    BY <1>2, <1>8, ReceivedFields DEF q
  <2>4. T[2] = my
    BY <1>4, <2>2
  <2>5. q.stat = "DATA" /\ q.frame_len = 2
    BY <2>2, <2>3
  <2> QED
    BY <2>3, <2>4, <2>5 DEF RxOwn, q, b, T
<1>9. CASE InAnswer(q, T) /\ r.stat = "DATA"
  <2> DEFINE p == r.pos + 1
  <2>1. /\ q.stat = (IF p >= r.frame_len THEN "ETX" ELSE IF p >= r.max THEN "PARTIAL" ELSE "DATA")
        /\ q.ch = r.ch /\ q.pos = p
        /\ q.frame_len = (IF q.stat = "PARTIAL" THEN r.frame_len - p ELSE r.frame_len)
    BY <1>2, <1>9, ReceivedFields DEF q
  <2>2. r.ch = MW_CTRL_CH
    BY <1>3, <1>9 DEF InAnswer
  <2>3. r.frame_len = 2 /\ (r.pos = 0 => L[2] = my) /\ (r.pos = 1 => b = my)
    BY <1>9, <2>2 DEF RxOwn, b
  <2>4. r.pos \in Nat /\ r.pos < 2 /\ r.max \in Nat
    BY <1>9, <2>3, LengthRange DEF RxState, RxFits
  <2>5. k = (2 - r.pos) + 1
    BY <1>9, <2>3 DEF Current, Left
  <2>6. CASE r.pos = 0
    <3>1. q.stat = "DATA" /\ q.frame_len = 2 /\ q.pos = 1
      BY <2>1, <2>3, <2>4, <2>6
    <3>2. T[1] = my
      BY <1>4, <2>3, <2>5, <2>6
    <3> QED
      BY <3>1, <3>2 DEF RxOwn, q, b, T
  <2>7. CASE r.pos = 1
    <3>1. q.stat = "ETX"
      BY <2>1, <2>3, <2>7
    <3>2. m2["cmd"][2] = b
      <4>1. m2["cmd"] = Written(m["cmd"], 1, b)
        BY <1>9, <2>7 DEF b
      <4>2. Written(m["cmd"], 1, b)[1 + 1] = b
        <5>1. m["cmd"] \in Seq(Byte) /\ 1 \in Nat
          OBVIOUS
        <5> QED
          BY <1>2, <5>1, WrittenShape
      <4> QED
        BY <4>1, <4>2
    <3> QED
      BY <2>3, <2>7, <3>1, <3>2 DEF RxOwn, q, b, T
  <2> QED
    BY <2>4, <2>6, <2>7
<1> QED
  BY <1>3, <1>6, <1>7, <1>8, <1>9 DEF Receiving

\* The receiver takes the STX of a frame.
LEMMA CurrentStarts ==
  ASSUME NEW r \in RxState, RxFits(r), r.stat = "STX", NEW L \in Seq(Byte), L # <<>>, L[1] = STX_ETX,
         NEW k,
         NEW answers \in BOOLEAN,
         \/ answers /\ k = 5 /\ AnswerAt(L, 2) /\ 6 <= Len(L)
         \/ ~answers /\ \E n \in Length : n > 0 /\ k = n + 3 /\ DataAt(L, 2, n) /\ n + 4 <= Len(L)
  PROVE  /\ Current(Received(r, L[1]), Tail(L), k)
         /\ InAnswer(Received(r, L[1]), Tail(L)) <=> answers
         /\ \A m, my : (answers => L[5] = my) => RxOwn(Received(r, L[1]), Tail(L), m, my)
<1> DEFINE q == Received(r, L[1])
           T == Tail(L)
<1>1. Len(L) \in Nat /\ L[1] \in Byte /\ \A i \in 1 .. Len(L) - 1 : T[i] = L[i + 1]
  BY TailShape
<1>2. q.stat = "CH_LENH"
  <2>1. r.stat \in Receiving
    BY DEF Receiving
  <2> QED
    BY <1>1, <2>1, ReceivedFields
<1> HIDE DEF q, T
<1>3. CASE answers /\ k = 5 /\ AnswerAt(L, 2) /\ 6 <= Len(L)
  <2>1. L[2] = 0 /\ L[3] = 2 /\ L[6] = STX_ETX
    BY <1>3 DEF AnswerAt
  <2>2. T[1] = L[2] /\ T[2] = L[3] /\ T[4] = L[5] /\ T[5] = L[6]
    BY <1>1, <1>3
  <2>3. AnswerAt(T, 1)
    BY <2>1, <2>2 DEF AnswerAt
  <2> QED
    BY <1>2, <1>3, <2>1, <2>2, <2>3 DEF Current, InAnswer, RxOwn, q, T
<1>4. CASE ~answers /\ \E n \in Length : n > 0 /\ k = n + 3 /\ DataAt(L, 2, n) /\ n + 4 <= Len(L)
  <2>1. PICK n \in Length : n > 0 /\ k = n + 3 /\ DataAt(L, 2, n) /\ n + 4 <= Len(L)
    BY <1>4
  <2>2. n \in Nat /\ n \div 256 \in Nat
    <3>1. n \in Nat
      BY LengthRange
    <3> QED
      BY <3>1
  <2>3. L[2] = 16 + (n \div 256) /\ L[3] = n % 256 /\ L[n + 4] = STX_ETX
    <3>1. L[2] = 16 + (n \div 256) /\ L[2 + 1] = n % 256 /\ L[2 + n + 2] = STX_ETX
      BY <2>1 DEF DataAt
    <3>2. 2 + n + 2 = n + 4
      BY <2>2
    <3> QED
      BY <3>1, <3>2
  <2>4. T[1] = L[2] /\ T[2] = L[3] /\ T[1 + n + 2] = L[n + 4]
    <3>1. 1 \in 1 .. Len(L) - 1 /\ 2 \in 1 .. Len(L) - 1 /\ n + 3 \in 1 .. Len(L) - 1
          /\ 1 + n + 2 = n + 3 /\ (n + 3) + 1 = n + 4
      BY <1>1, <2>1, <2>2
    <3>2. T[n + 3] = L[(n + 3) + 1]
      BY <1>1, <3>1
    <3> QED
      BY <1>1, <3>1, <3>2
  <2>5. DataAt(T, 1, n)
    BY <2>3, <2>4 DEF DataAt
  <2>6. L[2] # 0
    BY <2>2, <2>3
  <2> QED
    BY <1>2, <1>4, <2>1, <2>4, <2>5, <2>6 DEF Current, InAnswer, RxOwn, q, T
<1> QED
  BY <1>3, <1>4

\* lsd_recv goes on with the frame in progress.
LEMMA CurrentGoesOn ==
  ASSUME TypeInv, NEW buf \in {"cmd", "in"}, NEW max \in Length, max > 0, NEW n \in Nat,
         NEW L, NEW k, Current(rx, L, k)
  PROVE  LET q == lsd_recv(buf, max, n) IN
         /\ Current(q, L, k) /\ (InAnswer(q, L) <=> InAnswer(rx, L))
         /\ \A m, my : RxOwn(rx, L, m, my) => RxOwn(q, L, m, my)
<1> DEFINE q == lsd_recv(buf, max, n)
<1>1. rx.pos \in Nat /\ rx.frame_len \in Nat
  BY LengthRange DEF TypeInv, RxOK, RxState
<1>2. /\ q.stat = (IF rx.stat = "IDLE" THEN "STX" ELSE IF rx.stat = "PARTIAL" THEN "DATA" ELSE rx.stat)
      /\ q.pos = (IF rx.stat = "PARTIAL" THEN 0 ELSE rx.pos)
      /\ q.ch = rx.ch /\ q.frame_len = rx.frame_len
  BY RecvFields
<1> HIDE DEF q
<1>3. CASE rx.stat = "PARTIAL"
  <2>1. q.stat = "DATA" /\ q.pos = 0 /\ Left(q) = Left(rx)
    BY <1>1, <1>2, <1>3 DEF Left
  <2> QED
    BY <1>2, <1>3, <2>1 DEF Current, InAnswer, RxOwn, q
<1>4. CASE rx.stat = "IDLE"
  <2>1. q.stat = "STX"
    BY <1>2, <1>4
  <2> QED
    BY <1>4, <2>1 DEF Current, InAnswer, RxOwn, q
<1>5. CASE rx.stat \notin {"PARTIAL", "IDLE"}
  <2>1. q.stat = rx.stat /\ q.pos = rx.pos /\ Left(q) = Left(rx)
    BY <1>2, <1>5 DEF Left
  <2> QED
    BY <1>2, <1>5, <2>1 DEF Current, InAnswer, RxOwn, q
<1> QED
  BY <1>3, <1>4, <1>5

-----------------------------------------------------------------------------
(* The answer is the command's own *)

LEMMA TrackBounds ==
  ASSUME TypeInv, NEW base, NEW C, NEW D, NEW next, NEW F, Track(base, C, D, next, F)
  PROVE  /\ base \in Nat /\ F \in Nat /\ F - base - 1 \in Nat /\ F - base - 1 <= Len(line)
         /\ IsFiniteSet(C) /\ Cardinality(C) \in Nat /\ Len(requests) \in Nat /\ owed \in Nat
         /\ rx \in RxState /\ RxFits(rx) /\ line \in Seq(Byte) /\ Len(line) \in Nat
<1>1. line \in Seq(Byte) /\ Len(line) \in Nat /\ Len(requests) \in Nat /\ owed \in Nat
  BY DEF TypeInv, PeerOK, CallOK
<1>2. /\ base \in Nat /\ C \subseteq Nat /\ D \subseteq Nat /\ IsFiniteSet(C)
      /\ F \in (C \cup D) \cup {base + Len(line) + 1} /\ base < F /\ F <= base + Len(line) + 1
  BY DEF Track, Frames
<1>3. F \in Nat
  BY <1>1, <1>2
<1>4. F - base - 1 \in Nat /\ F - base - 1 <= Len(line)
  BY <1>1, <1>2, <1>3
<1>5. Cardinality(C) \in Nat
  BY <1>2, FS_CardinalityType
<1> QED
  BY <1>1, <1>2, <1>3, <1>4, <1>5 DEF TypeInv, RxOK

\* The line and what is pending are as before, or one more or less is owed too.
LEMMA TrackStays ==
  ASSUME TypeInv, NEW base, NEW C, NEW D, NEW next, NEW F, Track(base, C, D, next, F),
         UNCHANGED line, NEW r, rx' = r, Current(r, line, F - base - 1), InAnswer(r, line) <=> InAnswer(rx, line),
         Len(requests') + One(tx'.stat # "IDLE" /\ tx'.ch = MW_CTRL_CH) - owed'
           <= Len(requests) + One(tx.stat # "IDLE" /\ tx.ch = MW_CTRL_CH) - owed,
         Len(requests') \in Nat, owed' \in Nat,
         Asked' => OwnState(sup.id % 256)' /\ \A s \in C : line[s + 4 - base] = (sup'.id) % 256
  PROVE  Track(base, C, D, next, F)'
<1>1. Cardinality(C) \in Nat /\ Len(requests) \in Nat /\ owed \in Nat
  BY TrackBounds
<1> DEFINE a == One(tx.stat # "IDLE" /\ tx.ch = MW_CTRL_CH)
           b == One(tx'.stat # "IDLE" /\ tx'.ch = MW_CTRL_CH)
           c == One(InAnswer(rx, line))
<1>2. a \in Nat /\ b \in Nat /\ c \in Nat
  BY DEF One
<1>3. One(InAnswer(rx', line')) = c
  BY DEF One
<1>4. Cardinality(C) + Len(requests) + a + c <= owed
  BY DEF Track, Pending
<1>5. Len(requests') + b - owed' <= Len(requests) + a - owed
  OBVIOUS
<1> HIDE DEF a, b, c
<1>6. Cardinality(C) + Len(requests') + b + c <= owed'
  BY <1>1, <1>2, <1>4, <1>5
<1>7. Pending(C)' <= owed'
  BY <1>3, <1>6 DEF Pending, b
<1>8. Frames(line, base, C, D, next, F)' /\ Current(rx', line', F - base - 1)
  BY DEF Track
<1> QED
  BY <1>7, <1>8 DEF Track

LEMMA TrackCommand ==
  ASSUME TypeInv, NEW kind \in Kinds, mw_command(kind),
         NEW base, NEW C, NEW D, NEW next, NEW F, Track(base, C, D, next, F)
  PROVE  Track(base, C, D, next, F)'
<1> DEFINE id == sup.id + 1
           cmd == <<Codes[kind], id % 256>>
           q == lsd_recv("cmd", CmdLen, id)
<1>1. /\ Calls("command", kind, 0, tx.stat = "IDLE" /\ owed = 0)
      /\ mem' = [mem EXCEPT !["cmd"] = cmd]
      /\ lsd_send(MW_CTRL_CH, "cmd", 0, cmd, FALSE)
      /\ rx' = q
  BY DEF mw_command
<1>2. /\ sup'.id = id /\ sup'.clean = ((tx.stat = "IDLE" /\ owed = 0) /\ user = "run")
      /\ UNCHANGED <<user, line, requests>>
  BY <1>1, CallsRecord
<1>3. id \in Nat /\ CmdLen \in Length /\ CmdLen > 0 /\ MW_CTRL_CH \in ch_enable
  BY Constants, LengthRange DEF TypeInv, CallOK, CallState
<1>4. /\ Cardinality(C) \in Nat /\ IsFiniteSet(C) /\ Len(requests) \in Nat /\ owed \in Nat
  BY TrackBounds
<1>5. /\ Current(q, line, F - base - 1) /\ (InAnswer(q, line) <=> InAnswer(rx, line))
      /\ q.buf = "cmd" /\ q.max = CmdLen /\ q.call = id
  BY <1>3, CurrentGoesOn, RecvFields DEF Track
<1>6. CASE tx.stat = "IDLE"
  <2>1. tx'.stat = "STX" /\ tx'.ch = MW_CTRL_CH /\ given'.data = cmd /\ owed' = owed + 1
    BY <1>1, <1>3, <1>6 DEF lsd_send, SendAccepted
  <2>2. One(tx'.stat # "IDLE" /\ tx'.ch = MW_CTRL_CH) = 1 /\ One(tx.stat # "IDLE" /\ tx.ch = MW_CTRL_CH) = 0
    BY <1>6, <2>1 DEF One
  <2>3. /\ Len(requests') + One(tx'.stat # "IDLE" /\ tx'.ch = MW_CTRL_CH) - owed'
             <= Len(requests) + One(tx.stat # "IDLE" /\ tx.ch = MW_CTRL_CH) - owed
        /\ Len(requests') \in Nat /\ owed' \in Nat
    BY <1>2, <1>4, <2>1, <2>2
  <2>4. ASSUME Asked' PROVE OwnState(sup.id % 256)' /\ \A s \in C : line[s + 4 - base] = (sup'.id) % 256
    <3>1. owed = 0 /\ user = "run"
      BY <1>2, <2>4 DEF Asked
    <3>2. Cardinality(C) = 0 /\ Len(requests) = 0 /\ ~InAnswer(rx, line)
      <4> DEFINE c == One(InAnswer(rx, line))
      <4>1. c \in Nat
        BY DEF One
      <4>2. Cardinality(C) + Len(requests) + 0 + c <= 0
        BY <2>2, <3>1 DEF Track, Pending
      <4>3. Cardinality(C) = 0 /\ Len(requests) = 0 /\ c = 0
        <5> HIDE DEF c
        <5> QED
          BY <1>4, <4>1, <4>2
      <4> QED
        BY <4>3 DEF One
    <3>3. C = {}
      BY <1>4, <3>2, FS_EmptySet
    <3>4. RxOwn(q, line, mem', id % 256)
      BY <1>5, <3>2 DEF InAnswer, RxOwn
    <3>5. cmd[2] = id % 256
      OBVIOUS
    <3> HIDE DEF id, cmd, q
    <3> QED
      BY <1>1, <1>2, <1>5, <2>1, <3>1, <3>2, <3>3, <3>4, <3>5 DEF OwnState
  <2> HIDE DEF q
  <2> QED
    BY <1>1, <1>2, <1>5, <2>3, <2>4, TrackStays
<1>7. CASE tx.stat # "IDLE"
  <2>1. tx' = tx /\ owed' = owed /\ ~sup'.clean
    BY <1>1, <1>2, <1>7 DEF lsd_send, SendAccepted
  <2>2. /\ Len(requests') + One(tx'.stat # "IDLE" /\ tx'.ch = MW_CTRL_CH) - owed'
             <= Len(requests) + One(tx.stat # "IDLE" /\ tx.ch = MW_CTRL_CH) - owed
        /\ Len(requests') \in Nat /\ owed' \in Nat
    <3> DEFINE a == One(tx.stat # "IDLE" /\ tx.ch = MW_CTRL_CH)
    <3>1. One(tx'.stat # "IDLE" /\ tx'.ch = MW_CTRL_CH) = a /\ a \in Nat
      BY <2>1 DEF One
    <3> HIDE DEF a
    <3>2. Len(requests) + a - owed <= Len(requests) + a - owed
      BY <1>4, <3>1
    <3> QED
      BY <1>2, <1>4, <2>1, <3>1, <3>2 DEF a
  <2>3. ~Asked'
    BY <2>1 DEF Asked
  <2> HIDE DEF q
  <2> QED
    BY <1>1, <1>2, <1>5, <2>2, <2>3, TrackStays
<1> QED
  BY <1>6, <1>7

\* The other calls, and what follows a post.
LEMMA TrackData ==
  ASSUME TypeInv, NEW base, NEW C, NEW D, NEW next, NEW F, Track(base, C, D, next, F),
         UNCHANGED <<line, requests>>, ~Asked', owed' = owed, 
         \/ UNCHANGED rx
         \/ \E buf \in {"cmd", "in"}, max \in Length, n \in Nat : max > 0 /\ rx' = lsd_recv(buf, max, n),
         UNCHANGED tx \/ (tx.stat = "IDLE" /\ tx'.ch = DataCh)
  PROVE  Track(base, C, D, next, F)'
<1>1. Current(rx', line, F - base - 1) /\ (InAnswer(rx', line) <=> InAnswer(rx, line))
  <2>1. CASE UNCHANGED rx
    BY <2>1 DEF Track
  <2>2. ASSUME NEW buf \in {"cmd", "in"}, NEW max \in Length, NEW n \in Nat, max > 0, rx' = lsd_recv(buf, max, n)
        PROVE  Current(rx', line, F - base - 1) /\ (InAnswer(rx', line) <=> InAnswer(rx, line))
    BY <2>2, CurrentGoesOn DEF Track
  <2> QED
    BY <2>1, <2>2
<1>2. Len(requests) \in Nat /\ owed \in Nat
  BY TrackBounds
<1> DEFINE a == One(tx.stat # "IDLE" /\ tx.ch = MW_CTRL_CH)
           b == One(tx'.stat # "IDLE" /\ tx'.ch = MW_CTRL_CH)
<1>3. a = b /\ a \in Nat
  BY DEF One, DataCh, MW_CTRL_CH
<1> HIDE DEF a, b
<1>4. Len(requests') + b - owed' <= Len(requests) + a - owed
  BY <1>2, <1>3
<1> QED
  BY <1>1, <1>2, <1>4, TrackStays DEF a, b

LEMMA TrackReceive ==
  ASSUME TypeInv, ProcessRecv, ~refused', NEW base, NEW C, NEW D, NEW next, NEW F, Track(base, C, D, next, F)
  PROVE  \E C2, D2, F2 : Track(base + 1, C2, D2, next, F2)'
<1> DEFINE b == line[1]
           k == F - base - 1
           q == Received(rx, b)
           T == Tail(line)
           my == sup.id % 256
<1>1. /\ base \in Nat /\ F \in Nat /\ k \in Nat /\ k <= Len(line)
      /\ IsFiniteSet(C) /\ Cardinality(C) \in Nat /\ Len(requests) \in Nat /\ owed \in Nat
      /\ rx \in RxState /\ RxFits(rx) /\ line \in Seq(Byte) /\ Len(line) \in Nat
  BY TrackBounds
<1>2. /\ user = "run" /\ rx.stat \in Receiving /\ line # <<>> /\ Head(line) = b
      /\ UNCHANGED <<sup, tx, requests, given>>
  BY <1>1, TailShape DEF ProcessRecv, UserRuns
<1>3. /\ rx' = q /\ line' = T
      /\ mem' = (IF rx.stat = "DATA" THEN [mem EXCEPT ![rx.buf] = Written(@, rx.pos, b)] ELSE mem)
      /\ clobbered' = (clobbered \/ (rx.stat = "DATA" /\ rx.buf = tx.buf /\ tx.stat # "IDLE"))
      /\ md' = (IF Completes(b) /\ rx.call = sup.id
                THEN [set |-> TRUE, ch |-> rx.ch, len |-> q.pos] ELSE md)
      /\ user' = (IF Completes(b) THEN "clear" ELSE "run")
      /\ owed' = owed - (IF rx.stat = "ETX" /\ rx.ch = MW_CTRL_CH /\ owed > 0 THEN 1 ELSE 0)
      /\ refused' = (refused \/ Fails(b))
  BY <1>2 DEF ProcessRecv
<1>4. Current(rx, line, k) /\ Frames(line, base, C, D, next, F) /\ b \in Byte
  BY <1>1, <1>2, TailShape DEF Track
<1>5. q.stat = "IDLE" => rx.stat = "ETX" /\ b = STX_ETX
  BY <1>3 DEF Fails, Completes
<1>6. q.buf = rx.buf /\ q.max = rx.max /\ q.call = rx.call
  BY <1>2, <1>4, <1>1, ReceivedTypes
<1>7. Asked' => Asked /\ OwnState(my) /\ \A s \in C : line[s + 4 - base] = my
  <2>1. Asked' => Asked
    BY <1>2, <1>3 DEF Asked
  <2> QED
    BY <2>1 DEF Track
<1> DEFINE a == One(tx.stat # "IDLE" /\ tx.ch = MW_CTRL_CH)
           c == One(InAnswer(rx, line))
           d == One(InAnswer(q, T))
<1>8. a \in Nat /\ c \in {0, 1} /\ d \in {0, 1} /\ Cardinality(C) + Len(requests) + a + c <= owed
  BY DEF One, Track, Pending
<1> HIDE DEF q, b, T
<1>9. ASSUME Asked', RxOwn(q, T, mem', my)
      PROVE  OwnState(sup.id % 256)'
  <2>1. OwnState(my)
    BY <1>7, <1>9
  <2>2. rx.call = sup.id /\ rx.buf = "cmd" /\ rx.max = CmdLen /\ RxOwn(rx, line, mem, my)
    BY <2>1 DEF OwnState
  <2>3. ASSUME Completes(b) PROVE md'.set /\ (md'.ch = MW_CTRL_CH => mem'["cmd"][2] = my)
    <3>1. md' = [set |-> TRUE, ch |-> rx.ch, len |-> q.pos]
      BY <1>3, <2>2, <2>3
    <3>2. md'.set /\ md'.ch = rx.ch
      BY <3>1
    <3>3. ASSUME rx.ch = MW_CTRL_CH PROVE mem'["cmd"][2] = my
      <4>1. CASE rx.stat = "ETX"
        BY <1>3, <2>2, <3>3, <4>1 DEF RxOwn
      <4>2. CASE rx.stat # "ETX"
        <5>1. rx.stat = "DATA" /\ q.stat = "PARTIAL"
          BY <2>3, <4>2 DEF Completes, q
        <5>2. q.ch = rx.ch
          BY <1>1, <1>2, <1>4, <5>1, ReceivedFields DEF q
        <5> QED
          BY <1>9, <3>3, <5>1, <5>2 DEF RxOwn
      <4> QED
        BY <4>1, <4>2
    <3> QED
      BY <3>2, <3>3
  <2>4. /\ tx'.stat # "IDLE" => tx'.ch = MW_CTRL_CH /\ given'.data[2] = my
        /\ \A i \in 1 .. Len(requests') : requests'[i][2] = my
    BY <1>2, <2>1 DEF OwnState
  <2>5. user' # "trap" /\ (user' = "clear" => Completes(b))
    BY <1>3
  <2> HIDE DEF my
  <2>6. (sup'.id) % 256 = my
    BY <1>2 DEF my
  <2> QED
    BY <1>2, <1>3, <1>6, <1>9, <2>2, <2>3, <2>4, <2>5, <2>6 DEF OwnState
<1>10. CASE rx.stat = "STX"
  <2>1. k = 0 /\ F = base + 1
    BY <1>1, <1>4, <1>10 DEF Current
  <2> DEFINE N == next[F]
             C2 == C \ {F}
             D2 == D \ {F}
             inC == F \in C
  <2>2. /\ F \in C \cup D /\ b = STX_ETX
        /\ F \in C => N = F + 6 /\ AnswerAt(line, 2) /\ 6 <= Len(line)
        /\ F \in D => \E n \in Length : n > 0 /\ N = F + (n + 4) /\ DataAt(line, 2, n) /\ n + 4 <= Len(line)
        /\ N \in Nat /\ N > F
        /\ Frames(line, base, C2, D2, next, N)
    <3>1. line \in Seq(Byte) /\ line # <<>> /\ Frames(line, base, C, D, next, F) /\ F = base + 1
      BY <1>1, <1>2, <1>4, <2>1
    <3>2. /\ F \in C \cup D /\ line[1] = STX_ETX
          /\ F \in C => next[F] = F + 6 /\ AnswerAt(line, 2) /\ 6 <= Len(line)
          /\ F \in D => \E n \in Length : n > 0 /\ next[F] = F + (n + 4) /\ DataAt(line, 2, n) /\ n + 4 <= Len(line)
          /\ F \in Nat /\ next[F] \in Nat /\ next[F] > F
          /\ Frames(line, base, C \ {F}, D \ {F}, next, next[F])
      <4>1. NextFrame(line, base, C, D, next, F)
        BY <3>1, FramesSkip
      <4> QED
        BY <4>1 DEF NextFrame
    <3> QED
      BY <3>2 DEF b
  <2> HIDE DEF C2, D2
  <2>3. /\ Frames(T, base + 1, C2, D2, next, N)
        /\ \A s \in C2 : T[s + 4 - (base + 1)] = line[s + 4 - base]
    <3> HIDE DEF N
    <3>1. N > base + 1
      BY <2>1, <2>2
    <3> QED
      BY <1>1, <1>2, <2>2, <3>1, FramesPass DEF T
  <2> DEFINE kk == N - (base + 1) - 1
  <2>4. /\ Current(q, T, kk) /\ (InAnswer(q, T) <=> inC)
        /\ (inC => line[5] = my) => RxOwn(q, T, mem', my)
    <3>1. \/ inC /\ kk = 5 /\ AnswerAt(line, 2) /\ 6 <= Len(line)
          \/ ~inC /\ \E n \in Length : n > 0 /\ kk = n + 3 /\ DataAt(line, 2, n) /\ n + 4 <= Len(line)
      <4>1. CASE inC
        <5>1. kk = 5
          BY <1>1, <2>1, <2>2, <4>1
        <5> QED
          BY <2>2, <4>1, <5>1
      <4>2. CASE ~inC
        <5>1. PICK n \in Length : n > 0 /\ N = F + (n + 4) /\ DataAt(line, 2, n) /\ n + 4 <= Len(line)
          BY <2>2, <4>2
        <5>2. kk = n + 3
          BY <1>1, <2>1, <5>1, LengthRange
        <5> QED
          BY <4>2, <5>1, <5>2
      <4> QED
        BY <4>1, <4>2
    <3>2. inC \in BOOLEAN
      OBVIOUS
    <3> HIDE DEF kk, inC, my
    <3>3. /\ Current(Received(rx, line[1]), Tail(line), kk)
          /\ InAnswer(Received(rx, line[1]), Tail(line)) <=> inC
          /\ \A m, y : (inC => line[5] = y) => RxOwn(Received(rx, line[1]), Tail(line), m, y)
      <4>1. line[1] = STX_ETX
        BY <2>2 DEF b
      <4> QED
        BY <1>1, <1>2, <1>10, <3>1, <3>2, <4>1, CurrentStarts
    <3> QED
      BY <3>3 DEF q, T, b
  <2>5. Cardinality(C2) = (IF inC THEN Cardinality(C) - 1 ELSE Cardinality(C))
    BY <1>1, FS_RemoveElement DEF C2
  <2>6. Pending(C2)' <= owed'
    <3>1. c = 0 /\ d = (IF inC THEN 1 ELSE 0)
      BY <1>10, <2>4 DEF One, InAnswer
    <3>2. owed' = owed
      BY <1>1, <1>3, <1>10
    <3>3. Pending(C2)' = Cardinality(C2) + Len(requests) + a + d
      BY <1>2, <1>3 DEF Pending
    <3> HIDE DEF a, c, d, inC
    <3> QED
      BY <1>1, <1>8, <2>5, <3>1, <3>2, <3>3
  <2>7. ASSUME Asked' PROVE OwnState(sup.id % 256)' /\ \A s \in C2 : T[s + 4 - (base + 1)] = (sup'.id) % 256
    <3>1. \A s \in C : line[s + 4 - base] = my
      BY <1>7, <2>7
    <3>2. inC => line[5] = my
      <4>1. F + 4 - base = 5
        BY <1>1, <2>1
      <4> QED
        BY <3>1, <4>1
    <3>3. \A s \in C2 : s \in C
      BY DEF C2
    <3> HIDE DEF my
    <3>4. (sup'.id) % 256 = my
      BY <1>2 DEF my
    <3> QED
      BY <1>9, <2>3, <2>4, <2>7, <3>1, <3>2, <3>3, <3>4
  <2>8. Track(base + 1, C2, D2, next, N)'
    <3> HIDE DEF N
    <3> QED
      BY <1>3, <2>3, <2>4, <2>6, <2>7 DEF Track
  <2> QED
    BY <2>8
<1>11. CASE rx.stat # "STX"
  <2>1. rx.stat \in Receiving \ {"STX"}
    BY <1>2, <1>11
  <2>2. k > 0 /\ F > base + 1
    <3>1. k > 0
      <4> HIDE DEF k
      <4> QED
        BY <1>1, <1>4, <2>1, CurrentBounds DEF Receiving
    <3> QED
      BY <1>1, <3>1
  <2>3. /\ Frames(T, base + 1, C, D, next, F)
        /\ \A s \in C : T[s + 4 - (base + 1)] = line[s + 4 - base]
    BY <1>1, <1>2, <1>4, <2>2, FramesPass DEF T
  <2>4. F - (base + 1) - 1 = k - 1
    BY <1>1
  <2> HIDE DEF k
  <2>5. Current(q, T, k - 1) /\ (InAnswer(q, T) <=> InAnswer(rx, line) /\ rx.stat # "ETX")
    BY <1>1, <1>4, <1>5, <2>1, CurrentReceives DEF q, T, b
  <2>6. Pending(C)' <= owed'
    <3>1. Pending(C)' = Cardinality(C) + Len(requests) + a + d
      BY <1>2, <1>3 DEF Pending
    <3>2. CASE rx.stat = "ETX"
      <4>1. d = 0
        BY <2>5, <3>2 DEF One
      <4>2. c = (IF rx.ch = MW_CTRL_CH THEN 1 ELSE 0)
        BY <3>2 DEF One, InAnswer
      <4> HIDE DEF a, c, d
      <4> QED
        BY <1>1, <1>3, <1>8, <3>1, <3>2, <4>1, <4>2
    <3>3. CASE rx.stat # "ETX"
      <4>1. d = c
        BY <2>5, <3>3 DEF One
      <4>2. owed' = owed
        BY <1>1, <1>3, <3>3
      <4> HIDE DEF a, c, d
      <4> QED
        BY <1>8, <3>1, <4>1, <4>2
    <3> QED
      BY <3>2, <3>3
  <2>7. ASSUME Asked' PROVE OwnState(sup.id % 256)' /\ \A s \in C : T[s + 4 - (base + 1)] = (sup'.id) % 256
    <3>1. OwnState(my) /\ \A s \in C : line[s + 4 - base] = my
      BY <1>7, <2>7
    <3>2. rx.buf = "cmd" /\ rx.max >= 2 /\ RxOwn(rx, line, mem, my)
      BY <3>1, Constants DEF OwnState
    <3>3. mem \in [{"cmd", "in"} -> Seq(Byte)]
      BY DEF TypeInv, MemOK
    <3> HIDE DEF my
    <3>4. RxOwn(q, T, mem', my)
      BY <1>1, <1>3, <1>4, <1>5, <2>1, <3>2, <3>3, OwnReceives DEF q, T, b
    <3>5. (sup'.id) % 256 = my
      BY <1>2 DEF my
    <3> QED
      BY <1>9, <2>3, <2>7, <3>1, <3>4, <3>5
  <2>8. Track(base + 1, C, D, next, F)'
    BY <1>3, <2>3, <2>4, <2>5, <2>6, <2>7 DEF Track
  <2> QED
    BY <2>8
<1> QED
  BY <1>10, <1>11

\* The sender puts out a byte, the last of a command perhaps.
LEMMA TrackSend ==
  ASSUME TypeInv, WireInv, ProcessSend, NEW base, NEW C, NEW D, NEW next, NEW F, Track(base, C, D, next, F)
  PROVE  Track(base, C, D, next, F)'
<1> DEFINE my == sup.id % 256
<1>1. /\ tx.stat # "IDLE" /\ tx' = Sent /\ up' = Append(up, ByteOut)
      /\ user' = (IF tx'.stat = "IDLE" /\ tx.cb THEN "clear" ELSE "run")
      /\ UNCHANGED <<rx, mem, sup, md, line, owed, given, clobbered>>
      /\ IF tx'.stat = "IDLE" /\ tx.ch = MW_CTRL_CH
         THEN requests' = Append(requests, Payload(up')) ELSE UNCHANGED requests
  BY DEF ProcessSend
<1>2. /\ tx'.ch = tx.ch /\ (tx'.stat = "IDLE" => tx.stat = "ETX") /\ tx.ch \in Channels
      /\ (tx.ch = MW_CTRL_CH => ~tx.cb)
  <2>1. tx'.ch = tx.ch /\ tx.ch \in Channels /\ (tx.ch = MW_CTRL_CH => ~tx.cb)
    BY <1>1, SentTypes DEF TypeInv, TxOK, TxState, TxFits
  <2>2. tx'.stat = "IDLE" => tx.stat = "ETX"
    BY <1>1 DEF Sent, TypeInv, TxOK, TxState, TxStats
  <2> QED
    BY <2>1, <2>2
<1>3. Current(rx, line, F - base - 1)
  BY DEF Track
<1>4. Len(requests) \in Nat /\ owed \in Nat /\ requests \in Seq(Seq(Byte))
  BY TrackBounds DEF TypeInv, PeerOK
<1>5. Asked' => Asked /\ OwnState(my) /\ \A s \in C : line[s + 4 - base] = my
  BY <1>1 DEF Asked, Track
<1>6. (sup'.id) % 256 = my
  BY <1>1
<1> HIDE DEF my
<1>7. CASE tx.ch = MW_CTRL_CH /\ tx'.stat = "IDLE"
  <2>1. requests' = Append(requests, Payload(up'))
    BY <1>1, <1>7
  <2>2. Len(requests') = Len(requests) + 1
    BY <1>4, <2>1
  <2>3. One(tx'.stat # "IDLE" /\ tx'.ch = MW_CTRL_CH) = 0 /\ One(tx.stat # "IDLE" /\ tx.ch = MW_CTRL_CH) = 1
    BY <1>1, <1>7 DEF One
  <2>4. /\ Len(requests') + One(tx'.stat # "IDLE" /\ tx'.ch = MW_CTRL_CH) - owed'
             <= Len(requests) + One(tx.stat # "IDLE" /\ tx.ch = MW_CTRL_CH) - owed
        /\ Len(requests') \in Nat /\ owed' \in Nat
    BY <1>1, <1>4, <2>2, <2>3
  <2>5. ASSUME Asked' PROVE OwnState(sup.id % 256)' /\ \A s \in C : line[s + 4 - base] = (sup'.id) % 256
    <3>1. OwnState(my) /\ ~clobbered /\ \A s \in C : line[s + 4 - base] = my
      BY <1>5, <2>5 DEF Asked
    <3>2. Payload(up') = given.data
      BY <1>1, <1>2, <1>7, <3>1, PayloadIsGiven
    <3>3. given.data[2] = my
      BY <1>1, <1>7, <3>1 DEF OwnState
    <3>4. \A i \in 1 .. Len(requests') : requests'[i][2] = my
      <4> SUFFICES ASSUME NEW i \in 1 .. Len(requests') PROVE requests'[i][2] = my
        OBVIOUS
      <4>1. CASE i = Len(requests) + 1
        <5>1. requests'[i] = Payload(up')
          BY <1>4, <2>1, <4>1
        <5> QED
          BY <3>2, <3>3, <5>1
      <4>2. CASE i # Len(requests) + 1
        <5>1. i \in 1 .. Len(requests)
          BY <1>4, <2>2, <4>2
        <5>2. requests'[i] = requests[i]
          BY <1>4, <2>1, <5>1
        <5> QED
          BY <3>1, <5>1, <5>2 DEF OwnState
      <4> QED
        BY <4>1, <4>2
    <3>5. user' = "run"
      BY <1>1, <1>2, <1>7
    <3> QED
      BY <1>1, <1>6, <1>7, <3>1, <3>4, <3>5 DEF OwnState
  <2> QED
    BY <1>1, <1>3, <2>4, <2>5, TrackStays
<1>8. CASE tx.ch = MW_CTRL_CH /\ tx'.stat # "IDLE"
  <2>1. requests' = requests
    BY <1>1, <1>8
  <2>2. One(tx'.stat # "IDLE" /\ tx'.ch = MW_CTRL_CH) = 1 /\ One(tx.stat # "IDLE" /\ tx.ch = MW_CTRL_CH) = 1
    BY <1>1, <1>2, <1>8 DEF One
  <2>3. /\ Len(requests') + One(tx'.stat # "IDLE" /\ tx'.ch = MW_CTRL_CH) - owed'
             <= Len(requests) + One(tx.stat # "IDLE" /\ tx.ch = MW_CTRL_CH) - owed
        /\ Len(requests') \in Nat /\ owed' \in Nat
    BY <1>1, <1>4, <2>1, <2>2
  <2>4. ASSUME Asked' PROVE OwnState(sup.id % 256)' /\ \A s \in C : line[s + 4 - base] = (sup'.id) % 256
    <3>1. OwnState(my) /\ \A s \in C : line[s + 4 - base] = my
      BY <1>5, <2>4
    <3>2. user' = "run"
      BY <1>1, <1>2, <1>8
    <3> QED
      BY <1>1, <1>2, <1>6, <1>8, <2>1, <3>1, <3>2 DEF OwnState
  <2> QED
    BY <1>1, <1>3, <2>3, <2>4, TrackStays
<1>9. CASE tx.ch = DataCh
  <2>1. requests' = requests
    BY <1>1, <1>9 DEF MW_CTRL_CH, DataCh
  <2>2. One(tx'.stat # "IDLE" /\ tx'.ch = MW_CTRL_CH) = 0 /\ One(tx.stat # "IDLE" /\ tx.ch = MW_CTRL_CH) = 0
    BY <1>2, <1>9 DEF One, MW_CTRL_CH, DataCh
  <2>3. /\ Len(requests') + One(tx'.stat # "IDLE" /\ tx'.ch = MW_CTRL_CH) - owed'
             <= Len(requests) + One(tx.stat # "IDLE" /\ tx.ch = MW_CTRL_CH) - owed
        /\ Len(requests') \in Nat /\ owed' \in Nat
    BY <1>1, <1>4, <2>1, <2>2
  <2>4. ~Asked'
    BY <1>1, <1>5, <1>9 DEF OwnState, MW_CTRL_CH, DataCh
  <2> QED
    BY <1>1, <1>3, <2>3, <2>4, TrackStays
<1> QED
  BY <1>2, <1>7, <1>8, <1>9 DEF Channels

\* The sleeper is woken, and mw_command may have to wait again.
LEMMA TrackPost ==
  ASSUME TypeInv, Post, NEW base, NEW C, NEW D, NEW next, NEW F, Track(base, C, D, next, F)
  PROVE  Track(base, C, D, next, F)'
<1>1. /\ user' \in {"run", "trap"} /\ UNCHANGED <<mem, line, requests>>
      /\ CommandResumes \/ RecvResumes \/ SendResumes
  BY DEF Post, peerVars
<1>2. Len(requests) \in Nat /\ owed \in Nat /\ sup.id \in Nat /\ CmdLen \in Length /\ CmdLen > 0
      /\ sup.clean \in BOOLEAN /\ sup.sent \in Nat
  BY Constants, LengthRange, TrackBounds DEF TypeInv, CallOK, CallState
<1>3. ASSUME NEW res, NEW ch, NEW n, Returns(res, ch, n), UNCHANGED <<rx, tx, owed>>
      PROVE  Track(base, C, D, next, F)'
  <2>1. ~Asked'
    BY <1>3, ReturnsTypes DEF Asked
  <2> QED
    BY <1>1, <1>3, <2>1, TrackData
<1>4. CASE CommandResumes
  <2>1. PICK ch \in IF md.set THEN {md.ch} ELSE {MW_CTRL_CH, DataCh} :
          IF ch = MW_CTRL_CH
          THEN LET ok == mem["cmd"][1] = MW_CMD_OK
               IN Returns(IF ok THEN "ok" ELSE "err", ch, 0) /\ UNCHANGED rx
          ELSE /\ rx' = lsd_recv("cmd", CmdLen, sup.id)
               /\ sup' = [sup EXCEPT !.clean = @ /\ user' = "run"]
    BY <1>4 DEF CommandResumes
  <2>2. UNCHANGED <<tx, given, clobbered, owed>>
    BY <1>4 DEF CommandResumes
  <2>3. CASE ch = MW_CTRL_CH
    BY <1>3, <2>1, <2>2, <2>3
  <2>4. CASE ch # MW_CTRL_CH
    <3> DEFINE q == lsd_recv("cmd", CmdLen, sup.id)
               c == sup.clean /\ user' = "run"
    <3>1. rx' = q /\ sup' = [sup EXCEPT !.clean = c]
      BY <2>1, <2>4
    <3>2. /\ Current(q, line, F - base - 1) /\ (InAnswer(q, line) <=> InAnswer(rx, line))
          /\ \A m, my : RxOwn(rx, line, m, my) => RxOwn(q, line, m, my)
          /\ q.buf = "cmd" /\ q.max = CmdLen /\ q.call = sup.id
      BY <1>2, CurrentGoesOn, RecvFields DEF Track
    <3>3. c \in BOOLEAN
      OBVIOUS
    <3> HIDE DEF q
    <3>4. sup'.pc = sup.pc /\ sup'.op = sup.op /\ sup'.id = sup.id /\ sup'.clean = c
      <4> HIDE DEF c
      <4> QED
        BY <1>2, <3>1, <3>3, GoesOnTypes
    <3>5. /\ Len(requests') + One(tx'.stat # "IDLE" /\ tx'.ch = MW_CTRL_CH) - owed'
               <= Len(requests) + One(tx.stat # "IDLE" /\ tx.ch = MW_CTRL_CH) - owed
          /\ Len(requests') \in Nat /\ owed' \in Nat
      <4> DEFINE a == One(tx.stat # "IDLE" /\ tx.ch = MW_CTRL_CH)
      <4>1. One(tx'.stat # "IDLE" /\ tx'.ch = MW_CTRL_CH) = a /\ a \in Nat
        BY <2>2 DEF One
      <4> HIDE DEF a
      <4>2. Len(requests) + a - owed <= Len(requests) + a - owed
        BY <1>2, <4>1
      <4> QED
        BY <1>1, <1>2, <2>2, <4>1, <4>2 DEF a
    <3>6. ASSUME Asked' PROVE OwnState(sup.id % 256)' /\ \A s \in C : line[s + 4 - base] = (sup'.id) % 256
      <4> DEFINE my == sup.id % 256
      <4>1. Asked /\ user' = "run"
        BY <2>2, <3>4, <3>6 DEF Asked
      <4>2. OwnState(my) /\ \A s \in C : line[s + 4 - base] = my
        BY <4>1 DEF Track
      <4>3. (sup'.id) % 256 = my
        BY <3>4
      <4> HIDE DEF my
      <4>4. RxOwn(q, line, mem, my)
        BY <3>2, <4>2 DEF OwnState
      <4> QED
        BY <1>1, <2>2, <3>1, <3>2, <3>4, <4>1, <4>2, <4>3, <4>4 DEF OwnState
    <3> QED
      BY <1>1, <3>1, <3>2, <3>5, <3>6, TrackStays
  <2> QED
    BY <2>3, <2>4
<1>5. CASE RecvResumes
  BY <1>3, <1>5 DEF RecvResumes
<1>6. CASE SendResumes
  <2> DEFINE n == sup.sent + Len(Chunk(sup.sent, sup.len))
  <2>1. CASE n < sup.len
    <3>1. /\ lsd_send(DataCh, "data", n, Chunk(n, sup.len), TRUE) /\ UNCHANGED rx
          /\ sup' = [sup EXCEPT !.sent = n, !.clean = @ /\ user' = "run"] /\ sup.op = "send"
      BY <1>6, <2>1 DEF SendResumes
    <3>2. ~Asked'
      <4>1. sup'.op = "send"
        BY <3>1 DEF TypeInv, CallOK, CallState
      <4> QED
        BY <4>1 DEF Asked
    <3>3. owed' = owed /\ (UNCHANGED tx \/ (tx.stat = "IDLE" /\ tx'.ch = DataCh))
      BY <1>2, <3>1 DEF lsd_send, SendAccepted, DataCh, MW_CTRL_CH
    <3> QED
      BY <1>1, <3>1, <3>2, <3>3, TrackData
  <2>2. CASE ~(n < sup.len)
    BY <1>3, <1>6, <2>2 DEF SendResumes
  <2> QED
    BY <2>1, <2>2
<1> QED
  BY <1>1, <1>4, <1>5, <1>6

\* The other calls of the game, and the end of a wait.
LEMMA TrackOthers ==
  ASSUME TypeInv, NEW base, NEW C, NEW D, NEW next, NEW F, Track(base, C, D, next, F),
         \/ \E n \in RecvLens : mw_recv_sync(n)
         \/ \E n \in SendLens : mw_send_sync(n)
         \/ Timeout
  PROVE  Track(base, C, D, next, F)'
<1>1. owed \in Nat /\ sup.id + 1 \in Nat
  BY Constants, TrackBounds DEF TypeInv, CallOK, CallState
<1>2. CASE \E n \in RecvLens : mw_recv_sync(n)
  <2>1. PICK n \in RecvLens : mw_recv_sync(n)
    BY <1>2
  <2>2. Calls("recv", "open", n, TRUE) /\ rx' = lsd_recv("in", n, sup.id + 1) /\ UNCHANGED <<tx, owed>>
    BY <2>1 DEF mw_recv_sync
  <2>3. UNCHANGED <<line, requests>> /\ ~Asked'
    <3>1. sup'.op = "recv" /\ UNCHANGED <<line, requests>>
      BY <2>2, CallsRecord
    <3> QED
      BY <3>1 DEF Asked
  <2>4. n \in Length /\ n > 0 /\ "in" \in {"cmd", "in"}
    BY Constants
  <2> QED
    BY <1>1, <2>2, <2>3, <2>4, TrackData
<1>3. CASE \E n \in SendLens : mw_send_sync(n)
  <2>1. PICK n \in SendLens : mw_send_sync(n)
    BY <1>3
  <2>2. /\ Calls("send", "open", n, tx.stat = "IDLE" /\ rx.stat \notin Receiving)
        /\ lsd_send(DataCh, "data", 0, Chunk(0, n), TRUE) /\ UNCHANGED rx
    BY <2>1 DEF mw_send_sync
  <2>3. UNCHANGED <<line, requests>> /\ ~Asked'
    <3>1. sup'.op = "send" /\ UNCHANGED <<line, requests>>
      BY <2>2, CallsRecord
    <3> QED
      BY <3>1 DEF Asked
  <2>4. owed' = owed /\ (UNCHANGED tx \/ (tx.stat = "IDLE" /\ tx'.ch = DataCh))
    BY <1>1, <2>2 DEF lsd_send, SendAccepted, DataCh, MW_CTRL_CH
  <2> QED
    BY <2>2, <2>3, <2>4, TrackData
<1>4. CASE Timeout
  <2>1. Returns("timeout", 0, 0) /\ UNCHANGED <<rx, tx, owed, line, requests>>
    BY <1>4 DEF Timeout, linkVars, peerVars
  <2>2. ~Asked'
    BY <2>1, ReturnsTypes DEF Asked
  <2> QED
    BY <2>1, <2>2, TrackData
<1> QED
  BY <1>2, <1>3, <1>4
\* The module puts an answer or data on the line.
LEMMA TrackModule ==
  ASSUME TypeInv, ModuleAnswers \/ (\E n \in DataLens : ModuleSends(n)),
         NEW base, NEW C, NEW D, NEW next, NEW F, Track(base, C, D, next, F)
  PROVE  \E C2, D2, nx : Track(base, C2, D2, nx, F)'
<1> DEFINE k == F - base - 1
           my == sup.id % 256
<1>0. PICK E : E = base + Len(line) + 1
  OBVIOUS
<1>1. /\ base \in Nat /\ F \in Nat /\ k \in Nat /\ k <= Len(line)
      /\ IsFiniteSet(C) /\ Cardinality(C) \in Nat /\ Len(requests) \in Nat /\ owed \in Nat
      /\ rx \in RxState /\ RxFits(rx) /\ line \in Seq(Byte) /\ Len(line) \in Nat
  BY TrackBounds
<1>2. /\ Current(rx, line, k) /\ Frames(line, base, C, D, next, F)
      /\ Asked => OwnState(my) /\ \A s \in C : line[s + 4 - base] = my
      /\ Pending(C) <= owed
  BY DEF Track
<1>3. \A s \in C \cup D : s < E
  BY <1>0, <1>2 DEF Frames
<1>4. UNCHANGED <<rx, tx, sup, user, md, mem, owed, given, clobbered>>
  BY DEF ModuleAnswers, ModuleSends, linkVars, taskVars, history
<1> DEFINE a == One(tx.stat # "IDLE" /\ tx.ch = MW_CTRL_CH)
           c == One(InAnswer(rx, line))
<1>5. a \in Nat /\ c \in Nat /\ Cardinality(C) + Len(requests) + a + c <= owed
  BY <1>2 DEF One, Pending
<1> HIDE DEF k
<1> DEFINE Fits(C2) == /\ Cardinality(C2) + Len(requests') <= Cardinality(C) + Len(requests)
                       /\ Cardinality(C2) \in Nat /\ Len(requests') \in Nat
           Own(C2) == Asked => /\ \A i \in 1 .. Len(requests') : requests'[i][2] = my
                               /\ \A s \in C2 : line'[s + 4 - base] = my
<1>6. ASSUME NEW G \in Seq(Byte), line' = line \o G
      PROVE  /\ Current(rx, line', k) /\ (InAnswer(rx, line') <=> InAnswer(rx, line))
             /\ RxOwn(rx, line, mem, my) => RxOwn(rx, line', mem, my)
  <2>1. \A i \in 1 .. k : line'[i] = line[i]
    <3>1. \A i \in 1 .. Len(line) + Len(G) : line'[i] = IF i <= Len(line) THEN line[i] ELSE G[i - Len(line)]
      BY <1>1, <1>6, Concat
    <3>2. Len(G) \in Nat
      BY <1>6
    <3>3. \A i \in 1 .. k : i \in 1 .. Len(line) + Len(G) /\ i <= Len(line)
      BY <1>1, <3>2
    <3> QED
      BY <3>1, <3>3
  <2> HIDE DEF my
  <2> QED
    BY <1>1, <1>2, <2>1, CurrentSame
<1>7. ASSUME NEW C2, NEW D2, NEW nx, Frames(line', base, C2, D2, nx, F),
             NEW G \in Seq(Byte), line' = line \o G, Fits(C2), Own(C2)
      PROVE  Track(base, C2, D2, nx, F)'
  <2>1. Current(rx, line', k) /\ (InAnswer(rx, line') <=> InAnswer(rx, line))
    BY <1>6, <1>7
  <2>2. Pending(C2)' = Cardinality(C2) + Len(requests') + a + c
    <3>1. One(InAnswer(rx, line')) = c
      BY <2>1 DEF One
    <3> HIDE DEF c
    <3> QED
      BY <1>4, <3>1 DEF Pending
  <2>3. Pending(C2)' <= owed'
    <3> HIDE DEF a, c
    <3> QED
      BY <1>1, <1>4, <1>5, <1>7, <2>2
  <2>4. ASSUME Asked' PROVE OwnState(sup.id % 256)' /\ \A s \in C2 : line'[s + 4 - base] = (sup'.id) % 256
    <3>1. Asked
      BY <1>4, <2>4 DEF Asked
    <3>2. OwnState(my)
      BY <1>2, <3>1
    <3>3. (sup'.id) % 256 = my
      BY <1>4
    <3>4. RxOwn(rx, line', mem, my)
      BY <1>6, <1>7, <3>2 DEF OwnState
    <3> HIDE DEF my
    <3> QED
      BY <1>4, <1>7, <3>1, <3>2, <3>3, <3>4 DEF OwnState
  <2> HIDE DEF my
  <2> QED
    BY <1>4, <1>7, <2>1, <2>3, <2>4 DEF Track, k
<1> HIDE DEF Fits, Own
<1>8. CASE ModuleAnswers
  <2> DEFINE req == Head(requests)
  <2>1. PICK res \in {MW_CMD_OK, MW_CMD_ERROR} : line' = line \o Frame(MW_CTRL_CH, <<res, req[2]>>)
    BY <1>8 DEF ModuleAnswers
  <2>2. requests # <<>> /\ requests' = Tail(requests)
    BY <1>8 DEF ModuleAnswers
  <2>3. /\ requests \in Seq(Seq(Byte)) /\ Len(requests) > 0 /\ req = requests[1]
        /\ Len(requests') = Len(requests) - 1
        /\ \A i \in 1 .. Len(requests) - 1 : requests'[i] = requests[i + 1]
    BY <2>2 DEF TypeInv, PeerOK
  <2>4. req[2] \in Byte
    <3>1. req \in Seq(Byte) /\ Len(req) = 2
      BY <2>3 DEF TypeInv, PeerOK
    <3> QED
      BY <3>1
  <2> DEFINE b == req[2]
             G == Frame(MW_CTRL_CH, <<res, b>>)
  <2> HIDE DEF req
  <2>5. /\ G \in Seq(Byte) /\ Len(G) = 6 /\ G[1] = STX_ETX /\ AnswerAt(G, 2) /\ G[5] = b
    BY <2>4, AnswerFramed DEF AnswerAt
  <2>6. line' = line \o G
    BY <2>1
  <2> HIDE DEF G, b
  <2>7. PICK nx : /\ Frames(line', base, C \cup {E}, D \cup {}, nx, F)
                  /\ \A s \in C : s + 4 - base \in 1 .. Len(line)
    <3>1. Len(G) > 0
      BY <2>5
    <3> QED
      BY <1>0, <1>1, <1>2, <2>5, <2>6, <3>1, FramesGrow
  <2>8. Cardinality(C \cup {E}) = Cardinality(C) + 1
    <3>1. E \notin C
      <4>1. E \in Nat
        BY <1>0, <1>1
      <4> QED
        BY <1>3, <4>1
    <3> QED
      BY <1>1, <3>1, FS_AddElement
  <2>9. ASSUME Asked
        PROVE  /\ \A i \in 1 .. Len(requests') : requests'[i][2] = my
               /\ \A s \in C \cup {E} : line'[s + 4 - base] = my
    <3>1. /\ \A i \in 1 .. Len(requests) : requests[i][2] = my
          /\ \A s \in C : line[s + 4 - base] = my
      BY <1>2, <2>9 DEF OwnState
    <3>2. b = my
      BY <2>3, <3>1 DEF b, req
    <3> HIDE DEF my
    <3>3. \A i \in 1 .. Len(requests') : requests'[i][2] = my
      <4> SUFFICES ASSUME NEW i \in 1 .. Len(requests') PROVE requests'[i][2] = my
        OBVIOUS
      <4>1. i \in 1 .. Len(requests) - 1 /\ i + 1 \in 1 .. Len(requests)
        BY <1>1, <2>3
      <4> QED
        BY <2>3, <3>1, <4>1
    <3>4. \A i \in 1 .. Len(line) + Len(G) : line'[i] = IF i <= Len(line) THEN line[i] ELSE G[i - Len(line)]
      BY <1>1, <2>5, <2>6, Concat
    <3>5. \A s \in C : line'[s + 4 - base] = my
      <4> SUFFICES ASSUME NEW s \in C PROVE line'[s + 4 - base] = my
        OBVIOUS
      <4>1. PICK x : x = s + 4 - base
        OBVIOUS
      <4>2. x \in 1 .. Len(line) /\ line[x] = my
        BY <2>7, <3>1, <4>1
      <4>3. x \in 1 .. Len(line) + Len(G) /\ x <= Len(line)
        BY <1>1, <2>5, <4>2
      <4> QED
        BY <3>4, <4>1, <4>2, <4>3
    <3>6. line'[E + 4 - base] = my
      <4>1. E + 4 - base = Len(line) + 5
        BY <1>0, <1>1
      <4>2. Len(line) + 5 \in 1 .. Len(line) + Len(G) /\ ~(Len(line) + 5 <= Len(line))
            /\ Len(line) + 5 - Len(line) = 5
        BY <1>1, <2>5
      <4> QED
        BY <2>5, <3>2, <3>4, <4>1, <4>2
    <3> QED
      BY <3>3, <3>5, <3>6
  <2>10. Cardinality(C \cup {E}) + Len(requests') <= Cardinality(C) + Len(requests)
         /\ Cardinality(C \cup {E}) \in Nat /\ Len(requests') \in Nat
    BY <1>1, <2>3, <2>8
  <2>11. Fits(C \cup {E}) /\ Own(C \cup {E})
    BY <2>9, <2>10 DEF Fits, Own
  <2>12. Track(base, C \cup {E}, D \cup {}, nx, F)'
    BY <1>7, <2>5, <2>6, <2>7, <2>11
  <2> QED
    BY <2>12
<1>9. CASE \E n \in DataLens : ModuleSends(n)
  <2>1. PICK n \in DataLens : ModuleSends(n)
    BY <1>9
  <2>2. n \in Length /\ n > 0
    BY Constants
  <2> DEFINE G == Frame(DataCh, [i \in 1 .. n |-> DataByte(i - 1)])
  <2>3. line' = line \o G /\ requests' = requests
    BY <2>1 DEF ModuleSends
  <2>4. /\ G \in Seq(Byte) /\ Len(G) = n + 4 /\ G[1] = STX_ETX
        /\ G[2] = 16 + (n \div 256) /\ G[3] = n % 256 /\ Rest(G, 4, n, 0)
    BY <2>2, DataFramed
  <2> HIDE DEF G
  <2>5. n \in Nat
    BY <2>2, LengthRange
  <2>6. DataAt(G, 2, n) /\ Len(G) > 0
    <3>1. G[4 + n] = STX_ETX
      BY <2>4 DEF Rest
    <3>2. 2 + n + 2 = 4 + n /\ n + 4 > 0
      BY <2>2, <2>5
    <3> QED
      BY <2>4, <3>1, <3>2 DEF DataAt
  <2>7. PICK nx : /\ Frames(line', base, C \cup {}, D \cup {E}, nx, F)
                  /\ \A s \in C : s + 4 - base \in 1 .. Len(line)
    BY <1>0, <1>1, <1>2, <2>2, <2>3, <2>4, <2>6, FramesGrow
  <2>8. C \cup {} = C
    OBVIOUS
  <2>9. ASSUME Asked
        PROVE  /\ \A i \in 1 .. Len(requests') : requests'[i][2] = my
               /\ \A s \in C : line'[s + 4 - base] = my
    <3>1. /\ \A i \in 1 .. Len(requests) : requests[i][2] = my
          /\ \A s \in C : line[s + 4 - base] = my
      BY <1>2, <2>9 DEF OwnState
    <3> HIDE DEF my
    <3>4. \A i \in 1 .. Len(line) + Len(G) : line'[i] = IF i <= Len(line) THEN line[i] ELSE G[i - Len(line)]
      BY <1>1, <2>3, <2>4, Concat
    <3>5. \A s \in C : line'[s + 4 - base] = my
      <4> SUFFICES ASSUME NEW s \in C PROVE line'[s + 4 - base] = my
        OBVIOUS
      <4>1. PICK x : x = s + 4 - base
        OBVIOUS
      <4>2. x \in 1 .. Len(line) /\ line[x] = my
        BY <2>7, <3>1, <4>1
      <4>3. x \in 1 .. Len(line) + Len(G) /\ x <= Len(line)
        BY <1>1, <2>4, <2>5, <4>2
      <4> QED
        BY <3>4, <4>1, <4>2, <4>3
    <3> QED
      BY <2>3, <3>1, <3>5
  <2>10. Cardinality(C) + Len(requests') <= Cardinality(C) + Len(requests) /\ Len(requests') \in Nat
    BY <1>1, <2>3
  <2>11. Track(base, C, D \cup {E}, nx, F)'
    <3>1. Frames(line', base, C, D \cup {E}, nx, F)
      BY <2>7, <2>8
    <3>2. Fits(C) /\ Own(C)
      BY <1>1, <2>9, <2>10 DEF Fits, Own
    <3> QED
      BY <1>7, <2>3, <2>4, <3>1, <3>2
  <2> QED
    BY <2>11
<1> QED
  BY <1>8, <1>9

LEMMA InitTrack == Init => TrackInv
<1> SUFFICES ASSUME Init PROVE TrackInv
  OBVIOUS
<1> DEFINE next == [x \in Nat |-> x]
<1>1. line = <<>> /\ requests = <<>> /\ owed = 0 /\ rx.stat = "IDLE" /\ tx.stat = "IDLE" /\ sup.pc = "run"
  BY DEF Init, NoCall
<1>2. IsFiniteSet({}) /\ Cardinality({}) = 0
  BY FS_EmptySet
<1>3. next \in [Nat -> Nat] /\ Len(line) = 0 /\ Len(requests) = 0
  BY <1>1
<1> HIDE DEF next
<1>4. Frames(line, 0, {}, {}, next, 1)
  BY <1>2, <1>3 DEF Frames
<1>5. Current(rx, line, 1 - 0 - 1)
  <2>1. 1 - 0 - 1 = 0
    OBVIOUS
  <2> QED
    BY <1>1, <2>1 DEF Current
<1>6. Pending({}) <= owed
  BY <1>1, <1>2, <1>3 DEF Pending, One, InAnswer
<1>7. ~Asked
  BY <1>1 DEF Asked
<1>8. Track(0, {}, {}, next, 1)
  BY <1>4, <1>5, <1>6, <1>7 DEF Track
<1> QED
  BY <1>8 DEF TrackInv

LEMMA TrackStep ==
  ASSUME TypeInv, WireInv, TrackInv, [Next]_vars
  PROVE  TrackInv'
<1> SUFFICES ASSUME faults' = 0, ~refused'
             PROVE  \E base, C, D, next, F : Track(base, C, D, next, F)'
  BY DEF TrackInv
<1>1. faults = 0 /\ ~refused /\ ~LineLoses
  <2>1. faults \in Nat /\ MemOK
    BY DEF TypeInv, PeerOK
  <2>2. ~LineLoses
    BY <2>1 DEF LineLoses
  <2>3. CASE UNCHANGED vars
    BY <2>2, <2>3 DEF vars, peerVars, history
  <2>4. CASE \/ \E k \in Kinds : mw_command(k)
             \/ \E n \in RecvLens : mw_recv_sync(n)
             \/ \E n \in SendLens : mw_send_sync(n)
    BY <2>2, <2>4, CallsRecord DEF mw_command, mw_recv_sync, mw_send_sync
  <2>5. CASE ProcessRecv
    <3>1. refused \in BOOLEAN
      BY <2>1 DEF MemOK
    <3> QED
      BY <2>2, <2>5, <3>1 DEF ProcessRecv
  <2>6. CASE ProcessSend \/ Post
    BY <2>2, <2>6 DEF ProcessSend, Post, peerVars
  <2>7. CASE Timeout \/ ModuleAnswers
    BY <2>2, <2>7 DEF Timeout, ModuleAnswers, peerVars, history
  <2>8. CASE \E n \in DataLens : ModuleSends(n)
    BY <2>2, <2>8 DEF ModuleSends, history
  <2>9. \/ \E k \in Kinds : mw_command(k)
        \/ \E n \in RecvLens : mw_recv_sync(n)
        \/ \E n \in SendLens : mw_send_sync(n)
        \/ ProcessRecv \/ ProcessSend \/ Post \/ Timeout \/ ModuleAnswers
        \/ \E n \in DataLens : ModuleSends(n)
        \/ UNCHANGED vars
    BY <2>2 DEF Next
  <2> QED
    BY <2>3, <2>4, <2>5, <2>6, <2>7, <2>8, <2>9
<1>2. PICK base, C, D, next, F : Track(base, C, D, next, F)
  BY <1>1 DEF TrackInv
<1>3. CASE \E k \in Kinds : mw_command(k)
  BY <1>2, <1>3, TrackCommand
<1>4. CASE \/ \E n \in RecvLens : mw_recv_sync(n)
           \/ \E n \in SendLens : mw_send_sync(n)
           \/ Timeout
  BY <1>2, <1>4, TrackOthers
<1>5. CASE ProcessRecv
  BY <1>2, <1>5, TrackReceive
<1>6. CASE ProcessSend
  BY <1>2, <1>6, TrackSend
<1>7. CASE Post
  BY <1>2, <1>7, TrackPost
<1>8. CASE ModuleAnswers \/ (\E n \in DataLens : ModuleSends(n))
  BY <1>2, <1>8, TrackModule
<1>9. CASE UNCHANGED vars
  <2>1. Track(base, C, D, next, F)'
    BY <1>2, <1>9 DEF vars, linkVars, taskVars, peerVars, history, Track, Pending, Asked, OwnState
  <2> QED
    BY <2>1
<1> QED
  BY <1>1, <1>3, <1>4, <1>5, <1>6, <1>7, <1>8, <1>9 DEF Next

LEMMA AnswerIsOwnStep ==
  ASSUME TypeInv, TrackInv, AnswerIsOwn, [Next]_vars
  PROVE  AnswerIsOwn'
<1>1. ASSUME UNCHANGED <<last, refused>>, faults' = 0 => faults = 0 PROVE AnswerIsOwn'
  BY <1>1 DEF AnswerIsOwn
<1>2. ASSUME NEW op, NEW kind, NEW len, NEW clean, Calls(op, kind, len, clean) PROVE AnswerIsOwn'
  BY <1>2, CallsRecord DEF AnswerIsOwn
<1>3. ASSUME NEW res, NEW ch, NEW n, Returns(res, ch, n), sup.op # "command" \/ res = "timeout"
      PROVE  AnswerIsOwn'
  BY <1>3, ReturnsRecord DEF AnswerIsOwn
<1>4. CASE \/ \E k \in Kinds : mw_command(k)
           \/ \E n \in RecvLens : mw_recv_sync(n)
           \/ \E n \in SendLens : mw_send_sync(n)
  BY <1>2, <1>4 DEF mw_command, mw_recv_sync, mw_send_sync
<1>5. CASE ProcessRecv
  BY <1>1, <1>5 DEF ProcessRecv, AnswerIsOwn
<1>6. CASE ProcessSend
  BY <1>1, <1>6 DEF ProcessSend
<1>7. CASE Timeout
  BY <1>3, <1>7 DEF Timeout
<1>8. CASE ModuleAnswers \/ (\E n \in DataLens : ModuleSends(n)) \/ LineLoses
  <2>1. UNCHANGED <<last, refused>> /\ (faults' = faults \/ faults' = faults + 1)
    BY <1>8 DEF ModuleAnswers, ModuleSends, LineLoses, history
  <2>2. faults \in Nat
    BY DEF TypeInv, PeerOK
  <2> QED
    BY <1>1, <2>1, <2>2
<1>9. CASE UNCHANGED vars
  BY <1>1, <1>9 DEF vars, peerVars, history
<1>10. CASE Post
  <2>1. sup.pc = "pend" /\ user \in {"clear", "trap"} /\ UNCHANGED <<faults, refused>>
    BY <1>10 DEF Post, peerVars
  <2>2. CASE RecvResumes
    BY <1>3, <2>2 DEF RecvResumes
  <2>3. CASE SendResumes
    BY <1>1, <1>3, <2>1, <2>3 DEF SendResumes
  <2>4. CASE CommandResumes
    <3>1. sup.op = "command"
      BY <2>4 DEF CommandResumes
    <3>2. PICK ch \in IF md.set THEN {md.ch} ELSE {MW_CTRL_CH, DataCh} :
            IF ch = MW_CTRL_CH
            THEN LET ok == mem["cmd"][1] = MW_CMD_OK
                 IN Returns(IF ok THEN "ok" ELSE "err", ch, 0)
            ELSE UNCHANGED last
      BY <2>4 DEF CommandResumes
    <3>3. CASE ch # MW_CTRL_CH
      BY <1>1, <2>1, <3>2, <3>3
    <3>4. CASE ch = MW_CTRL_CH
      <4>1. PICK res : Returns(res, ch, 0)
        BY <3>2, <3>4
      <4>2. last'.id = sup.id /\ last'.clean = (sup.clean /\ ~clobbered) /\ last'.reply = mem["cmd"][2]
        BY <3>1, <4>1, ReturnsRecord
      <4>3. ASSUME last'.clean, faults' = 0, ~refused' PROVE last'.reply = (last'.id) % 256
        <5>1. Asked /\ faults = 0 /\ ~refused
          BY <2>1, <3>1, <4>2, <4>3 DEF Asked
        <5>2. OwnState(sup.id % 256)
          BY <5>1 DEF TrackInv, Track
        <5>3. user = "clear" /\ md.set
          BY <2>1, <5>2 DEF OwnState
        <5>4. md.ch = MW_CTRL_CH
          BY <3>2, <3>4, <5>3
        <5> QED
          BY <4>2, <5>2, <5>3, <5>4 DEF OwnState
      <4> QED
        BY <4>3 DEF AnswerIsOwn
    <3> QED
      BY <3>3, <3>4
  <2> QED
    BY <1>10, <2>2, <2>3, <2>4 DEF Post
<1> QED
  BY <1>4, <1>5, <1>6, <1>7, <1>8, <1>9, <1>10 DEF Next

\* A clean command's answer is its own: with no byte lost and no frame
\* refused, the receiver keeps in step with the frames on the line, all that
\* was under way was over when the command began, and so the only answer that
\* mw_command can take is the one to it.
THEOREM AnswerIsOwnHolds == Spec => []AnswerIsOwn
<1>1. Init => WireInv /\ TrackInv /\ AnswerIsOwn
  <2>1. Init => WireInv /\ AnswerIsOwn
    BY DEF Init, NoResult, WireInv, AnswerIsOwn
  <2> QED
    BY <2>1, InitTrack
<1>2. TypeInv /\ WireInv /\ TrackInv /\ AnswerIsOwn /\ [Next]_vars => (WireInv /\ TrackInv /\ AnswerIsOwn)'
  BY WireStep, TrackStep, AnswerIsOwnStep
<1> QED
  BY <1>1, <1>2, TypesHold, PTL DEF Spec
=============================================================================
