-------------------------------- MODULE Wifi --------------------------------
(***************************************************************************)
(* The MegaWiFi driver: the framed serial link of lsd.c and the calls of   *)
(* megawifi.c that wait on it.  A call of the game (the supervisor task)   *)
(* starts a transfer and sleeps in TSK_superPend; only then does the user  *)
(* task run lsd_process, which takes and gives the bytes of the UART one   *)
(* by one and whose callbacks wake the sleeper with TSK_superPost.  The    *)
(* sleeper may also be woken by its timeout, at any byte.                  *)
(*                                                                         *)
(* The WiFi module at the other end of the line is external: it answers    *)
(* the commands it is sent and sends data on a channel it has opened.  The *)
(* line may lose bytes (there is no handshaking, lsd.c:9).                 *)
(***************************************************************************)
EXTENDS Integers, Sequences, SequencesExt

CONSTANTS
  MaxCalls,   \* bound on the calls of the game
  DataLens,   \* lengths of the data frames of the WiFi module
  MaxData,    \* bound on their number
  RecvLens,   \* buffer lengths given to mw_recv_sync
  SendLens,   \* lengths given to mw_send_sync
  BufLen,     \* d.buf_len, the chunk length of mw_send_sync
  CmdLen,     \* sizeof(mw_cmd)
  MaxFaults,  \* bound on the bytes lost
  MaxTimeouts \* bound on the calls that time out

Byte == 0 .. 255
MaxLen == 4095   \* the lengths of frames have 12 bits

ASSUME WifiAssumption ==
  /\ {MaxCalls, MaxData, MaxFaults, MaxTimeouts} \subseteq Nat
  /\ BufLen \in Nat \ {0} /\ CmdLen \in 2 .. MaxLen
  /\ \A s \in {DataLens, RecvLens, SendLens} : s \subseteq 1 .. MaxLen

STX_ETX == 126
MW_CTRL_CH == 0
DataCh == 1

\* Command codes, and the two answers.
MW_CMD_OK == 0
MW_CMD_ERROR == 1
Codes == [open |-> 2, close |-> 3]
Kinds == DOMAIN Codes

Junk == 255

VARIABLES
  rx, tx,        \* struct lsd_data
  ch_enable,
  mem,           \* the command buffer d.cmd and the game's receive buffer
  sup,           \* the game's call in progress
  md,            \* its struct recv_metadata
  user,          \* the user task: in lsd_process ("run"), or in
                 \* TSK_superPost before the clear or before the trap
  line,          \* bytes on their way to the console
  up,            \* the bytes put out for the frame being sent
  requests,      \* commands the WiFi module has still to answer
  open,          \* has it opened the data channel?
  sent,          \* data frames it has sent
  faults,        \* bytes lost so far
  timeouts,      \* calls that timed out so far
  owed,          \* commands accepted whose answer was not received (history)
  given,         \* channel and payload of the last accepted lsd_send (history)
  arrived,       \* data the module got since the call began (history)
  clobbered,     \* the buffer being sent was written to (history)
  refused,       \* recv_error was called (history)
  last           \* the last call, once it has returned (history)

linkVars == <<rx, tx, ch_enable, mem>>
taskVars == <<sup, md, user, timeouts>>
peerVars == <<line, requests, open, sent, faults>>
history == <<owed, up, given, arrived, clobbered, refused, last>>
vars == <<linkVars, taskVars, peerVars, history>>

-----------------------------------------------------------------------------
\* STX : CH-LENH : LENL : DATA : ETX
Frame(ch, data) ==
  <<STX_ETX, ch * 16 + Len(data) \div 256, Len(data) % 256>> \o data \o <<STX_ETX>>

\* The data of the WiFi module, which may look like an answer and in which the
\* framing byte may occur, and the game's.
DataByte(i) == CASE i = 0 -> MW_CMD_OK [] i = 1 -> STX_ETX [] OTHER -> i % 256
SendByte(i) == (20 + i) % 256

Receiving == {"STX", "CH_LENH", "LEN", "DATA", "ETX"}

NoCall == [pc |-> "run", op |-> "none", kind |-> "open", id |-> 0, len |-> 0,
           sent |-> 0, clean |-> TRUE]
NoResult == [op |-> "none", res |-> "ok", id |-> 0, reply |-> 0, ch |-> 0, len |-> 0,
             off |-> 0, data |-> <<>>, torn |-> FALSE, clean |-> TRUE]

\* mw_init
Init ==
  /\ rx = [stat |-> "IDLE", ch |-> 0, frame_len |-> 0, pos |-> 0, max |-> 0,
           buf |-> "cmd", call |-> 0, off |-> 0, torn |-> FALSE]
  /\ tx = [stat |-> "IDLE", ch |-> 0, total |-> 0, pos |-> 0, buf |-> "cmd",
           base |-> 0, cb |-> FALSE]
  /\ ch_enable = {MW_CTRL_CH}
  /\ mem = [b \in {"cmd", "in"} |-> <<>>]
  /\ sup = NoCall /\ md = [set |-> FALSE, ch |-> 0, len |-> 0] /\ user = "run"
  /\ line = <<>> /\ requests = <<>> /\ open = FALSE /\ sent = 0 /\ faults = 0 /\ timeouts = 0
  /\ owed = 0 /\ up = <<>> /\ given = [ch |-> 0, data |-> <<>>] /\ arrived = <<>>
  /\ clobbered = FALSE /\ refused = FALSE /\ last = NoResult

-----------------------------------------------------------------------------
\* lsd_send refuses while a frame is being sent, and on a disabled channel.
SendAccepted(ch) == tx.stat = "IDLE" /\ ch \in ch_enable

\* lsd_send.  None of its callers looks at what it returns.
lsd_send(ch, buf, base, data, cb) ==
  IF SendAccepted(ch)
  THEN /\ tx' = [stat |-> "STX", ch |-> ch, total |-> Len(data), pos |-> 0,
                 buf |-> buf, base |-> base, cb |-> cb]
       /\ up' = <<>> /\ given' = [ch |-> ch, data |-> data] /\ clobbered' = FALSE
       /\ owed' = owed + (IF ch = MW_CTRL_CH THEN 1 ELSE 0)
  ELSE /\ clobbered' = (clobbered \/ (tx.stat # "IDLE" /\ tx.buf = "cmd" /\ buf = "cmd"))
       /\ UNCHANGED <<tx, up, given, owed>>

\* lsd_recv, by call n: the rest of a partly received frame goes to the start
\* of the new buffer, and a frame in progress goes on in it where it was.
RecvPosKept == rx.pos

RecvPos == IF rx.stat = "PARTIAL" THEN 0 ELSE rx.pos

lsd_recv(buf, max, n) ==
  [rx EXCEPT !.stat = IF @ = "IDLE" THEN "STX" ELSE IF @ = "PARTIAL" THEN "DATA" ELSE @,
             !.pos = RecvPos,
             !.off = IF rx.stat = "PARTIAL" THEN @ + rx.pos ELSE @,
             !.torn = @ \/ rx.stat = "ETX" \/ (rx.stat = "DATA" /\ rx.pos > 0),
             !.buf = buf, !.max = max, !.call = n]

-----------------------------------------------------------------------------
\* recv_add: the frame is full, or the buffer is.
RecvAddedNoPartial(r) ==
  [r EXCEPT !.pos = @ + 1, !.stat = IF r.pos + 1 >= r.frame_len THEN "ETX" ELSE @]

RecvAdded(r) ==
  LET p == r.pos + 1
  IN CASE p >= r.frame_len -> [r EXCEPT !.pos = p, !.stat = "ETX"]
       [] p < r.frame_len /\ p >= r.max ->
            [r EXCEPT !.pos = p, !.stat = "PARTIAL", !.frame_len = @ - p]
       [] OTHER -> [r EXCEPT !.pos = p]

\* A framing byte in place of the channel is the real STX: the one before it
\* was the ETX of a frame that was not received.
ChannelReceivedPlain(r, b) ==
  [r EXCEPT !.ch = b \div 16, !.frame_len = (b % 16) * 256,
            !.stat = IF b \div 16 \in ch_enable THEN "LEN" ELSE "IDLE"]

ChannelReceived(r, b) ==
  IF b = STX_ETX THEN r
  ELSE [r EXCEPT !.ch = b \div 16, !.frame_len = (b % 16) * 256,
                 !.stat = IF b \div 16 \in ch_enable THEN "LEN" ELSE "IDLE"]

\* process_recv: the receive state after byte b.
Received(r, b) ==
  CASE r.stat = "STX" -> [r EXCEPT !.stat = IF b = STX_ETX THEN "CH_LENH" ELSE @]
    [] r.stat = "CH_LENH" -> ChannelReceived(r, b)
    [] r.stat = "LEN" ->
         [r EXCEPT !.frame_len = @ + b, !.pos = 0, !.off = 0, !.torn = FALSE,
                   !.stat = IF r.frame_len + b > 0 THEN "DATA" ELSE "ETX"]
    [] r.stat = "DATA" -> RecvAdded(r)
    [] r.stat = "ETX" -> [r EXCEPT !.stat = "IDLE"]

\* Does that byte end in recv_complete?  In recv_error?
Completes(b) == \/ rx.stat = "ETX" /\ b = STX_ETX
                \/ rx.stat = "DATA" /\ Received(rx, b).stat = "PARTIAL"

Fails(b) == Received(rx, b).stat = "IDLE" /\ ~Completes(b)

\* buf[pos] = b, in a buffer of which s has been written.
Written(s, pos, b) == [i \in 1 .. (IF pos < Len(s) THEN Len(s) ELSE pos + 1) |->
                         IF i = pos + 1 THEN b ELSE IF i <= Len(s) THEN s[i] ELSE Junk]

UserRuns == sup.pc = "pend" /\ user = "run"

\* The receiving half of lsd_process, for one byte, with cmd_recv_cb, which
\* ignores errors.  The metadata of a call that has returned are lost.
ProcessRecv ==
  /\ UserRuns /\ rx.stat \in Receiving /\ line # <<>>
  /\ LET b == Head(line)
         stores == rx.stat = "DATA"
     IN /\ rx' = Received(rx, b)
        /\ mem' = IF stores THEN [mem EXCEPT ![rx.buf] = Written(@, rx.pos, b)] ELSE mem
        /\ clobbered' = (clobbered \/ (stores /\ rx.buf = tx.buf /\ tx.stat # "IDLE"))
        /\ md' = IF Completes(b) /\ rx.call = sup.id
                 THEN [set |-> TRUE, ch |-> rx.ch, len |-> rx'.pos] ELSE md
        /\ user' = IF Completes(b) THEN "clear" ELSE "run"
        /\ owed' = owed - (IF rx.stat = "ETX" /\ rx.ch = MW_CTRL_CH /\ owed > 0 THEN 1 ELSE 0)
        /\ refused' = (refused \/ Fails(b))
  /\ line' = Tail(line)
  /\ UNCHANGED <<tx, ch_enable, sup, timeouts, requests, open, sent, faults, up, given, arrived, last>>

\* process_send: the byte of each state, and the state after it.
ByteOut == CASE tx.stat \in {"STX", "ETX"} -> STX_ETX
             [] tx.stat = "CH_LENH" -> tx.ch * 16 + tx.total \div 256
             [] tx.stat = "LEN" -> tx.total % 256
             [] tx.stat = "DATA" -> IF tx.buf = "cmd" THEN mem["cmd"][tx.pos + 1]
                                    ELSE SendByte(tx.base + tx.pos)

LastByte == tx.pos + 1 >= tx.total

Sent == CASE tx.stat = "STX" -> [tx EXCEPT !.stat = "CH_LENH"]
          [] tx.stat = "CH_LENH" -> [tx EXCEPT !.stat = "LEN"]
          [] tx.stat = "LEN" -> [tx EXCEPT !.stat = "DATA"]
          [] tx.stat = "DATA" ->
               [tx EXCEPT !.pos = @ + 1, !.stat = IF LastByte THEN "ETX" ELSE @]
          [] tx.stat = "ETX" -> [tx EXCEPT !.stat = "IDLE"]

\* What the WiFi module makes of the bytes of a whole frame.
Payload(bytes) == SubSeq(bytes, 4, Len(bytes) - 1)

\* The sending half of lsd_process, for one byte, with send_complete and
\* cmd_send_cb.
ProcessSend ==
  /\ UserRuns /\ tx.stat # "IDLE"
  /\ tx' = Sent
  /\ up' = Append(up, ByteOut)
  /\ user' = IF tx'.stat = "IDLE" /\ tx.cb THEN "clear" ELSE "run"
  /\ IF tx'.stat = "IDLE" /\ tx.ch = MW_CTRL_CH
     THEN requests' = Append(requests, Payload(up')) ELSE UNCHANGED requests
  /\ IF tx'.stat = "IDLE" /\ tx.ch = DataCh
     THEN arrived' = arrived \o Payload(up') ELSE UNCHANGED arrived
  /\ UNCHANGED <<rx, ch_enable, mem, sup, md, timeouts, line, open, sent, faults,
                 owed, given, clobbered, refused, last>>

-----------------------------------------------------------------------------
\* A call begins: sup.id numbers it, its metadata are not initialised.
Calls(op, kind, len, clean) ==
  /\ sup.pc = "run" /\ sup.id < MaxCalls
  /\ sup' = [pc |-> "pend", op |-> op, kind |-> kind, id |-> sup.id + 1, len |-> len,
             sent |-> 0, clean |-> clean /\ user = "run"]
  /\ md' = [set |-> FALSE, ch |-> 0, len |-> 0]
  /\ arrived' = <<>> /\ last' = NoResult
  /\ UNCHANGED <<user, ch_enable, timeouts, peerVars, refused>>

\* The functions that fill d.cmd, call mw_command, and look at its result.
mw_command(kind) ==
  LET cmd == <<Codes[kind], (sup.id + 1) % 256>>
  IN /\ Calls("command", kind, 0, tx.stat = "IDLE" /\ owed = 0)
     /\ mem' = [mem EXCEPT !["cmd"] = cmd]
     /\ lsd_send(MW_CTRL_CH, "cmd", 0, cmd, FALSE)
     /\ rx' = lsd_recv("cmd", CmdLen, sup.id + 1)

mw_recv_sync(len) ==
  /\ Calls("recv", "open", len, TRUE)
  /\ mem' = [mem EXCEPT !["in"] = <<>>]
  /\ rx' = lsd_recv("in", len, sup.id + 1)
  /\ up' = IF tx.stat = "IDLE" THEN <<>> ELSE up
  /\ UNCHANGED <<tx, given, clobbered, owed>>

\* A chunk of mw_send_sync, from byte n of len.
Chunk(n, len) == [i \in 1 .. (IF len - n < BufLen THEN len - n ELSE BufLen) |-> SendByte(n + i - 1)]

mw_send_sync(len) ==
  /\ Calls("send", "open", len, tx.stat = "IDLE" /\ rx.stat \notin Receiving)
  /\ lsd_send(DataCh, "data", 0, Chunk(0, len), TRUE)
  /\ UNCHANGED <<rx, mem>>

Returns(res, ch, n) ==
  /\ sup' = [sup EXCEPT !.pc = "run"]
  /\ last' = [op |-> sup.op, res |-> res, id |-> sup.id,
              reply |-> IF sup.op = "command" THEN mem["cmd"][2] ELSE 0,
              ch |-> ch, len |-> sup.len, off |-> rx.off, torn |-> rx.torn,
              data |-> SubSeq(mem["in"], 1, IF n < Len(mem["in"]) THEN n ELSE Len(mem["in"])),
              clean |-> sup.clean /\ ~(sup.op = "command" /\ clobbered)]

\* mw_command after TSK_superPend, and its callers: a data channel is enabled
\* once the module has opened it and disabled once it has closed it.  Data
\* received instead of the answer are dropped, as cmd_data_cb is never set.
\* Metadata no callback has written may hold any channel.
CommandResumesAnyChannel ==
  /\ sup.op = "command"
  /\ Returns(IF mem["cmd"][1] = MW_CMD_OK THEN "ok" ELSE "err", md.ch, 0)
  /\ ch_enable' = ch_enable \cup {DataCh}
  /\ UNCHANGED <<rx, tx, up, given, clobbered, owed>>

CommandResumesUnarmed ==
  /\ sup.op = "command"
  /\ md.set
  /\ IF md.ch = MW_CTRL_CH
     THEN /\ Returns(IF mem["cmd"][1] = MW_CMD_OK THEN "ok" ELSE "err", md.ch, 0)
          /\ ch_enable' = ch_enable \cup {DataCh}
     ELSE UNCHANGED <<sup, ch_enable, last>>
  /\ UNCHANGED <<rx, tx, up, given, clobbered, owed>>

CommandResumes ==
  /\ sup.op = "command"
  /\ \E ch \in IF md.set THEN {md.ch} ELSE {MW_CTRL_CH, DataCh} :
       IF ch = MW_CTRL_CH
       THEN LET ok == mem["cmd"][1] = MW_CMD_OK
            IN /\ Returns(IF ok THEN "ok" ELSE "err", ch, 0)
               /\ ch_enable' = CASE ok /\ sup.kind = "open" -> ch_enable \cup {DataCh}
                                 [] ok /\ sup.kind = "close" -> ch_enable \ {DataCh}
                                 [] OTHER -> ch_enable
               /\ UNCHANGED rx
       ELSE /\ rx' = lsd_recv("cmd", CmdLen, sup.id)
            /\ sup' = [sup EXCEPT !.clean = @ /\ user' = "run"]
            /\ UNCHANGED <<ch_enable, last>>
  /\ UNCHANGED <<tx, up, given, clobbered, owed>>

RecvResumes ==
  /\ sup.op = "recv" /\ Returns("ok", md.ch, md.len)
  /\ UNCHANGED <<rx, tx, ch_enable, up, given, clobbered, owed>>

\* mw_send_sync after TSK_superPend: the chunk counts as sent.
SendResumes ==
  LET n == sup.sent + Len(Chunk(sup.sent, sup.len))
  IN /\ sup.op = "send"
     /\ IF n < sup.len
        THEN /\ lsd_send(DataCh, "data", n, Chunk(n, sup.len), TRUE)
             /\ sup' = [sup EXCEPT !.sent = n, !.clean = @ /\ user' = "run"]
             /\ UNCHANGED last
        ELSE Returns("ok", DataCh, 0) /\ UNCHANGED <<tx, up, given, clobbered, owed>>
     /\ UNCHANGED <<rx, ch_enable>>

\* TSK_superPost(TRUE).  An interrupt between its two instructions resumes the
\* sleeper and leaves the trap for the next time the user task runs.
Post ==
  /\ sup.pc = "pend" /\ user \in {"clear", "trap"}
  /\ user' \in IF user = "clear" THEN {"run", "trap"} ELSE {"run"}
  /\ CommandResumes \/ RecvResumes \/ SendResumes
  /\ UNCHANGED <<mem, md, timeouts, peerVars, arrived, refused>>

\* The sleep ends before a callback has cleared the lock.
Timeout ==
  /\ sup.pc = "pend" /\ user # "trap" /\ timeouts < MaxTimeouts
  /\ timeouts' = timeouts + 1
  /\ Returns("timeout", 0, 0)
  /\ UNCHANGED <<linkVars, md, user, peerVars, owed, up, given, arrived, clobbered, refused>>

-----------------------------------------------------------------------------
\* The WiFi module.  It answers the command it knows, or refuses.
ModuleAnswers ==
  /\ requests # <<>>
  /\ LET req == Head(requests)
         known == \E k \in Kinds : Codes[k] = req[1]
     IN \E res \in IF known THEN {MW_CMD_OK, MW_CMD_ERROR} ELSE {MW_CMD_ERROR} :
          /\ line' = line \o Frame(MW_CTRL_CH, <<res, req[2]>>)
          /\ open' = IF res = MW_CMD_ERROR THEN open
                     ELSE req[1] = Codes["open"] \/ (open /\ req[1] # Codes["close"])
  /\ requests' = Tail(requests)
  /\ UNCHANGED <<linkVars, taskVars, sent, faults, history>>

ModuleSends(n) ==
  /\ open /\ sent < MaxData
  /\ line' = line \o Frame(DataCh, [i \in 1 .. n |-> DataByte(i - 1)])
  /\ sent' = sent + 1
  /\ UNCHANGED <<linkVars, taskVars, requests, open, faults, history>>

\* The UART loses the next byte.
LineLoses ==
  /\ faults < MaxFaults
  /\ line # <<>> /\ line' = Tail(line)
  /\ faults' = faults + 1
  /\ UNCHANGED <<linkVars, taskVars, requests, open, sent, history>>

Next ==
  \/ \E k \in Kinds : mw_command(k)
  \/ \E n \in RecvLens : mw_recv_sync(n)
  \/ \E n \in SendLens : mw_send_sync(n)
  \/ ProcessRecv
  \/ ProcessSend
  \/ Post
  \/ Timeout
  \/ ModuleAnswers
  \/ \E n \in DataLens : ModuleSends(n)
  \/ LineLoses

Spec == Init /\ [][Next]_vars

\* The user task polls as long as the game sleeps, and the module answers.  A
\* timeout is never needed.
FairSpec ==
  Spec /\ WF_vars(ProcessRecv) /\ WF_vars(ProcessSend) /\ WF_vars(Post) /\ WF_vars(ModuleAnswers)

-----------------------------------------------------------------------------
\* The states of both machines, the buffers' bytes and the enabled channels.
TypeOK ==
  /\ rx.stat \in Receiving \cup {"IDLE", "PARTIAL"} /\ rx.frame_len \in 0 .. MaxLen
  /\ tx.stat \in {"IDLE", "STX", "CH_LENH", "LEN", "DATA", "ETX"}
  /\ \A f \in {rx.pos, rx.max, tx.pos, tx.total} : f \in 0 .. MaxLen
  /\ \A b \in {"cmd", "in"} : \A i \in 1 .. Len(mem[b]) : mem[b][i] \in Byte
  /\ MW_CTRL_CH \in ch_enable /\ ch_enable \subseteq {MW_CTRL_CH, DataCh}
  /\ sup.pc \in {"run", "pend"} /\ user \in {"run", "clear", "trap"}
  /\ owed \in 0 .. MaxCalls

\* recv_add never writes past the buffer lsd_recv was given, whatever is lost
\* on the line, unless lsd_recv was called in the middle of a frame.
StaysInBuffer == rx.stat = "DATA" /\ ~rx.torn => rx.pos < rx.max

\* What is put on the line for a frame is that frame, byte for byte, unless
\* the buffer being sent was written to meanwhile, by a frame received into it
\* or by the next command.
WireIsGiven == clobbered \/ IsPrefix(up, Frame(given.ch, given.data))

\* No frame is torn on its way in or out.
FramesAreWhole == TypeOK /\ StaysInBuffer /\ WireIsGiven

\* A command that succeeds was answered itself: with nothing lost, no earlier
\* command or post under way and the command not overwritten, mw_command never
\* takes data or another command's answer for its own.  A frame that the
\* receiver has refused, because its channel was not enabled, leaves it out of
\* step with the line for good: it may take a framing byte in the data for the
\* start of a frame, and what follows for an answer.
AnswerIsOwn ==
  last.op = "command" /\ last.res = "ok" /\ last.clean /\ faults = 0 /\ ~refused
    => last.reply = last.id % 256

\* mw_recv_sync returns bytes that the module sent, in the order it sent them,
\* where a long frame is given out buffer by buffer: unless lsd_recv was called
\* in the middle of the frame.
ReceivedIsSent ==
  /\ last.op = "recv" /\ last.res = "ok" /\ last.clean /\ faults = 0
  /\ last.ch = DataCh /\ ~last.torn
  => /\ last.data # <<>>
     /\ \A i \in 1 .. Len(last.data) : last.data[i] = DataByte(last.off + i - 1)

\* When mw_send_sync succeeds the module has got all the bytes in order, if no
\* earlier send, receive or post was still under way when it was called, and no
\* interrupt cut one of its own posts in two.
SuccessMeansSent ==
  last.op = "send" /\ last.res = "ok" /\ last.clean /\ sup.pc = "run"
    => arrived = [i \in 1 .. last.len |-> SendByte(i - 1)]

\* What a successful receive or send reports is what went over the line.
DeliveryIsRight == ReceivedIsSent /\ SuccessMeansSent

\* The state after a row of bytes, with -1 for pos if some were not wanted.
Takes(r, bytes) ==
  LET after[n \in 0 .. Len(bytes)] ==
        IF n = 0 THEN r
        ELSE IF after[n - 1].stat \in Receiving THEN Received(after[n - 1], bytes[n])
        ELSE [after[n - 1] EXCEPT !.pos = -1]
  IN after[Len(bytes)]

\* Whatever was lost, a receiver that waits for STX, or that took the ETX of a
\* frame it missed for it, takes the next whole frame as it was sent.
TakesNextFrame ==
  rx.stat \in {"STX", "CH_LENH"} =>
    \A ch \in ch_enable :
      LET r == Takes(rx, Frame(ch, <<STX_ETX>>))
      IN r.stat = "IDLE" /\ r.ch = ch /\ r.pos = 1

\* A command that starts with nothing under way returns without its timeout,
\* unless bytes are lost, the command is overwritten, or a frame was refused:
\* cmd_recv_cb ignores errors and nobody calls lsd_recv again.
CommandReturns ==
  (sup.pc = "pend" /\ sup.op = "command" /\ sup.clean)
    ~> (sup.pc = "run" \/ faults > 0 \/ clobbered \/ refused)
=============================================================================
