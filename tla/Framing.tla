------------------------------ MODULE Framing ------------------------------
(***************************************************************************)
(* How each program of the repository finds frames in a stream of bytes:   *)
(* preamble hunting, TYPE dispatch, timed reads of the fields, and what a  *)
(* failed frame does to those that follow.  The programs are the four      *)
(* Pi 4 receivers (dash, flash, ask, og), the sender Pico on its UART, and *)
(* the two readers of text lines (bridge, speed).                          *)
(*                                                                         *)
(* The line brings one byte at a time; a byte arrives as sent, is lost or  *)
(* is misread, noise comes between bytes, a frame breaks off.  A byte is   *)
(* one of the four preamble bytes, a TYPE, the end of a line or "data".    *)
(* CRC and HMAC are ideal: they hold for a frame whose bytes from TYPE on  *)
(* are those sent, one after the other (aligned).  Lengths are constants.  *)
(***************************************************************************)
EXTENDS Integers, Sequences

CONSTANTS
    LenSize, CrcSize,     \* 2 and 2 bytes
    IdSize, MaxId,        \* key id as sent, longest KEY_ID accepted
    Hs2Size,              \* SST_HS2_PAYLOAD_SIZE
    NonceSize, TagSize, MaxMsg,
    HsSize,               \* SST_HS1_PAYLOAD_SIZE, SST_HS3_PAYLOAD_SIZE
    KeySize, MacSize,     \* of a KEY frame, after the id
    Tap,                  \* bytes the debug tap reads after an unknown TYPE
    Fifo,                 \* bytes of the Pico's UART FIFO
    TextBuf,              \* characters a text reader holds
    Misread,              \* what a length that was not received as sent may be
    MaxFaults             \* bound: bytes lost, misread or added, and broken frames

MinMsg == NonceSize + TagSize
ShortestFrame == 4 + 1 + LenSize + IdSize + CrcSize

\* The code: 8 bytes of id, 2 of CRC, 28 of nonce and tag, handshakes of 72 and
\* 80, a key frame of 56, ids up to 64, messages up to 8192, a tap of 15.
ASSUME FramingAssumption ==
    /\ {LenSize, CrcSize, IdSize, Hs2Size, NonceSize, TagSize, HsSize, KeySize, MacSize,
        Tap, Fifo, TextBuf} \subseteq Nat \ {0}
    /\ {MaxId, MaxMsg, MaxFaults} \subseteq Nat /\ Misread \subseteq Nat
    /\ IdSize <= MaxId /\ {MaxId, MinMsg, Hs2Size, HsSize, IdSize + KeySize + MacSize} \subseteq 0 .. MaxMsg
    /\ IdSize <= Hs2Size /\ IdSize <= MinMsg /\ TextBuf > 1
    /\ IdSize + CrcSize <= HsSize /\ CrcSize <= KeySize + MacSize
    /\ Tap + 1 < ShortestFrame
    /\ Fifo < 4 + 1 + LenSize + HsSize /\ Fifo < 4 + 1 + LenSize + IdSize + KeySize + MacSize

VARIABLES
    program,
    uart,       \* uart_state: bytes of the preamble matched
    type,       \* the branch under way, or "none"
    length,     \* the length in force, or Unread
    todo,       \* sizes of the reads still to do, the one under way first
    got,        \* bytes it has; in a text reader, buf_idx
    missed,     \* a read of this frame timed out
    swallow,    \* bytes that tap or flush may still take
    frame,      \* on the line: type and length
    next,       \* its next byte, 0 when the line is idle
    faults,
    lost,       \* bytes the line lost since the read under way got its true length
    aligned, sure, whole, begun, heir, delivered  \* history, see below

rx == <<uart, type, length, todo, got, missed, swallow, aligned, sure, delivered>>
vars == <<program, rx, frame, next, faults, lost, whole, begun, heir>>

Preamble == <<"P1", "P2", "P3", "P4">>
Unread == -1

Receivers == {"dash", "flash", "ask", "og"}
TextReaders == {"bridge", "speed"}
Programs == Receivers \cup TextReaders \cup {"sender"}

-----------------------------------------------------------------------------
(* Branches of the TYPE dispatch: the lengths they accept, the reads that   *)
(* follow, whether these go on after one that timed out, whether a CRC or   *)
(* HMAC guards the frame, and the state of the hunt after a good frame.     *)

Lengths == 0 .. MaxMsg

Branch(accepts, reads) ==
    [accepts |-> accepts, reads |-> reads,
     readOn |-> FALSE, guarded |-> TRUE, after |-> 0]

\* A read of nothing is done at once.
OrNone(n) == IF n = 0 THEN <<>> ELSE <<n>>

KeyId == Branch(0 .. MaxId, [n \in Lengths |-> OrNone(n) \o <<CrcSize>>])
Hs2 == Branch({Hs2Size}, [n \in Lengths |-> <<Hs2Size, CrcSize>>])

\* nonce, ciphertext, tag and CRC are read before any result is looked at.
Enc == [Branch(MinMsg .. MaxMsg,
               [n \in Lengths |-> <<NonceSize>> \o OrNone(n - MinMsg) \o <<TagSize, CrcSize>>])
          EXCEPT !.readOn = TRUE]

DashKeyId == KeyId
DashHs2 == Hs2
DashEnc == Enc
FlashKeyId == KeyId
FlashHs2 == Hs2
FlashEnc == Enc

\* ask_receiver.c leaves uart_state as it is after a KEY_ID frame.
AskKeyId == [KeyId EXCEPT !.after = 4]
AskHs2 == Hs2
AskEnc == Enc
OgKeyId == KeyId
OgEnc == Enc

SenderHs1 == Branch({HsSize}, [n \in Lengths |-> <<HsSize>>])
SenderHs3 == Branch({HsSize}, [n \in Lengths |-> <<HsSize>>])

\* The length is read and not used; nothing guards the key.
SenderKey == [Branch(Lengths, [n \in Lengths |-> <<IdSize, KeySize, MacSize>>]) EXCEPT !.guarded = FALSE]

Branches ==
    [dash   |-> [KEY_ID |-> DashKeyId, HS2 |-> DashHs2, ENC |-> DashEnc],
     flash  |-> [KEY_ID |-> FlashKeyId, HS2 |-> FlashHs2, ENC |-> FlashEnc],
     ask    |-> [KEY_ID |-> AskKeyId, HS2 |-> AskHs2, ENC |-> AskEnc],
     og     |-> [KEY_ID |-> OgKeyId, ENC |-> OgEnc],
     sender |-> [HS1 |-> SenderHs1, HS3 |-> SenderHs3, KEY |-> SenderKey]]

This == Branches[program][type]
Reading == type /= "none"

-----------------------------------------------------------------------------
(* The line *)

Payloads(t) == CASE t = "KEY_ID" -> {IdSize}
                 [] t = "HS2" -> {Hs2Size}
                 [] t = "ENC" -> MinMsg .. MaxMsg
                 [] t \in {"HS1", "HS3"} -> {HsSize}
                 [] t = "KEY" -> {IdSize + KeySize + MacSize}
                 [] t = "TEXT" -> 1 .. TextBuf - 1

\* What is sent to a program; og knows no HS2 and gets it all the same.
Traffic == CASE program \in Receivers -> {"KEY_ID", "HS2", "ENC"}
             [] program = "sender" -> {"HS1", "HS3", "KEY"}
             [] OTHER -> {"TEXT"}

Frames == {[type |-> t, length |-> n] : t \in Traffic, n \in UNION {Payloads(t) : t \in Traffic}}

Size(f) == CASE f.type = "TEXT" -> 4 + f.length + 1
             [] f.type \in {"KEY_ID", "HS2", "ENC"} -> 4 + 1 + LenSize + f.length + CrcSize
             [] OTHER -> 4 + 1 + LenSize + f.length

\* Payload bytes may look like P1 or a TYPE, but no payload holds a preamble.
Bytes(f, i) == CASE i <= 4 -> {Preamble[i]}
                 [] f.type = "TEXT" /\ i > 4 -> {IF i = Size(f) THEN "NL" ELSE "data"}
                 [] f.type /= "TEXT" /\ i = 5 -> {f.type}
                 [] OTHER -> {"data", "P1"} \cup Traffic

AnyByte == {"P1", "P2", "P3", "P4", "NL", "data"} \cup Traffic

-----------------------------------------------------------------------------
(* A byte reaches the program.  "intact" says that it is the frame's next.  *)

\* A bug the code avoids: a byte that breaks a preamble never begins another.
HuntDrops(v, restarts) ==
    uart' = IF v = Preamble[uart + 1] THEN uart + 1 ELSE 0

Hunt(v, restarts) ==
    uart' = CASE v = Preamble[uart + 1] -> uart + 1
              [] v /= Preamble[uart + 1] /\ v = "P1" /\ restarts -> 1
              [] OTHER -> 0

DashHunt(v) == program = "dash" /\ Hunt(v, TRUE)
FlashHunt(v) == program = "flash" /\ Hunt(v, FALSE)
AskHunt(v) == program = "ask" /\ Hunt(v, FALSE)
OgHunt(v) == program = "og" /\ Hunt(v, FALSE)
SenderHunt(v) == program = "sender" /\ Hunt(v, TRUE)
BridgeHunt(v) == program = "bridge" /\ Hunt(v, FALSE)
SpeedHunt(v) == program = "speed" /\ Hunt(v, FALSE)

HuntByte(v, intact) ==
    /\ uart < 4
    /\ \/ DashHunt(v) \/ FlashHunt(v) \/ AskHunt(v) \/ OgHunt(v) \/ SenderHunt(v)
       \/ BridgeHunt(v) \/ SpeedHunt(v)
    /\ aligned' = (intact /\ next = 4)
    /\ UNCHANGED <<type, length, todo, got, missed, swallow, sure, delivered>>

\* A bug the code avoids: the tap reads as much as the longest frame has.
DashUnknownLong(v) ==
    program = "dash" /\ uart' = 0 /\ swallow' = Tap + ShortestFrame

\* The debug tap takes what comes next.
DashUnknown(v) ==
    program = "dash" /\ uart' = 0 /\ swallow' = Tap

\* No branch for other bytes: the next one is tried as a TYPE, too.
FlashUnknown(v) == program = "flash" /\ UNCHANGED <<uart, swallow>>
AskUnknown(v) == program = "ask" /\ UNCHANGED <<uart, swallow>>
OgUnknown(v) == program = "og" /\ UNCHANGED <<uart, swallow>>

SenderUnknown(v) == program = "sender" /\ uart' = 0 /\ UNCHANGED swallow

TypeByte(v, intact) ==
    /\ uart = 4 /\ ~Reading /\ program \notin TextReaders
    /\ \/ /\ v \in DOMAIN Branches[program]
          /\ type' = v
          /\ todo' = <<LenSize>>
          /\ aligned' = (intact /\ next = 5)
          /\ UNCHANGED <<uart, swallow>>
       \/ /\ v \notin DOMAIN Branches[program]
          /\ DashUnknown(v) \/ FlashUnknown(v) \/ AskUnknown(v) \/ OgUnknown(v) \/ SenderUnknown(v)
          /\ UNCHANGED <<type, todo, aligned>>
    /\ UNCHANGED <<length, got, missed, sure, delivered>>

\* A bug the code avoids: the next frame counts on from this one's bytes.
StopReadingHalfway(state) ==
    /\ uart' = state
    /\ type' = "none" /\ length' = Unread /\ todo' = <<>> /\ missed' = FALSE
    /\ aligned' = FALSE /\ sure' = FALSE
    /\ UNCHANGED got

StopReading(state) ==
    /\ uart' = state
    /\ type' = "none" /\ length' = Unread /\ todo' = <<>> /\ got' = 0 /\ missed' = FALSE
    /\ aligned' = FALSE /\ sure' = FALSE

\* A length the branch does not take.  After one in HS1 the Pico empties its FIFO.
RefuseLength ==
    /\ StopReading(0)
    /\ swallow' = IF program = "sender" /\ type = "HS1" THEN Fifo ELSE 0
    /\ UNCHANGED delivered

LengthRead(n, true) ==
    \/ n \notin This.accepts /\ RefuseLength
    \/ /\ n \in This.accepts
       /\ length' = n
       /\ todo' = This.reads[n]
       /\ got' = 0
       /\ aligned' = true /\ sure' = true
       /\ UNCHANGED <<uart, type, missed, swallow, delivered>>

\* The last byte is in: the frame is dropped, or handled.
FrameRead(true) ==
    /\ StopReading(IF (true \/ ~This.guarded) /\ ~missed THEN This.after ELSE 0)
    /\ delivered' = (delivered \/ (true /\ ~missed))
    /\ UNCHANGED swallow

FieldByte(intact) ==
    /\ Reading
    /\ LET true == aligned /\ intact IN
         \/ /\ got + 1 < Head(todo)
            /\ got' = got + 1
            /\ aligned' = true
            /\ UNCHANGED <<uart, type, length, todo, missed, swallow, sure, delivered>>
         \/ /\ got + 1 = Head(todo) /\ length = Unread
            /\ \E n \in IF true THEN {frame.length} ELSE Misread : LengthRead(n, true)
         \/ /\ got + 1 = Head(todo) /\ length /= Unread /\ Len(todo) > 1
            /\ todo' = Tail(todo)
            /\ got' = 0
            /\ aligned' = true
            /\ UNCHANGED <<uart, type, length, missed, swallow, sure, delivered>>
         \/ got + 1 = Head(todo) /\ length /= Unread /\ Len(todo) = 1 /\ FrameRead(true)

\* A line of text ends with its NL, or when the buffer is full.
TextByte(v, intact) ==
    /\ uart = 4
    /\ IF v = "NL" \/ got = TextBuf - 1
         THEN /\ uart' = 0 /\ got' = 0 /\ aligned' = FALSE
              /\ delivered' = (delivered \/ (v = "NL" /\ aligned /\ intact))
         ELSE /\ got' = got + 1
              /\ aligned' = (aligned /\ intact)
              /\ UNCHANGED <<uart, delivered>>
    /\ UNCHANGED <<type, length, todo, missed, swallow, sure>>

BridgeText(v, intact) == program = "bridge" /\ TextByte(v, intact)
SpeedText(v, intact) == program = "speed" /\ TextByte(v, intact)

SwallowByte ==
    /\ swallow > 0
    /\ swallow' = swallow - 1
    /\ UNCHANGED <<uart, type, length, todo, got, missed, aligned, sure, delivered>>

\* The flush is over as soon as the FIFO is found empty.
FlushEnds ==
    /\ program = "sender" /\ swallow > 0
    /\ swallow' = 0
    /\ UNCHANGED <<program, uart, type, length, todo, got, missed, aligned, sure, delivered, frame,
                   next, faults, lost, whole, begun, heir>>

Receive(v, intact) ==
    \/ SwallowByte
    \/ /\ swallow = 0
       /\ \/ HuntByte(v, intact) \/ TypeByte(v, intact) \/ FieldByte(intact)
          \/ BridgeText(v, intact) \/ SpeedText(v, intact)

-----------------------------------------------------------------------------
(* What happens on the line *)

\* How a program stands when a frame begins: outside of any read; in one
\* whose length is true, of which the line lost less than the shortest frame,
\* or that tap or FIFO bounds; or in any other.
Standing ==
    CASE Reading -> IF sure /\ lost < ShortestFrame THEN "late" ELSE "astray"
      [] ~Reading /\ swallow > 0 -> "late"
      [] ~Reading /\ swallow = 0 /\ uart = 4 ->
           IF program \in {"dash", "sender"} \cup TextReaders THEN "late" ELSE "ready"
      [] OTHER -> IF uart = 0 \/ program \in {"dash", "sender"} THEN "ready" ELSE "late"

Begin ==
    /\ next = 0
    /\ \E f \in Frames : f.length \in Payloads(f.type) /\ frame' = f
    /\ next' = 1
    /\ begun' = Standing
    /\ heir' = (whole /\ begun /= "astray")
    /\ whole' = TRUE
    /\ delivered' = FALSE
    /\ aligned' = FALSE
    /\ UNCHANGED <<program, uart, type, length, todo, got, missed, swallow, sure, faults, lost>>

Advance == next' = IF next = Size(frame) THEN 0 ELSE next + 1

\* What was lost counts for the read under way only.
CountLost == lost' = IF sure' THEN lost ELSE 0

Arrive ==
    /\ next > 0
    /\ \E v \in Bytes(frame, next) : Receive(v, TRUE)
    /\ Advance /\ CountLost
    /\ UNCHANGED <<program, frame, faults, whole, begun, heir>>

Fault == faults < MaxFaults /\ faults' = faults + 1 /\ whole' = FALSE

Lose ==
    /\ next > 0 /\ Fault
    /\ aligned' = FALSE
    /\ Advance
    /\ lost' = IF sure THEN lost + 1 ELSE 0
    /\ UNCHANGED <<program, uart, type, length, todo, got, missed, swallow, sure, delivered, frame,
                   begun, heir>>

Garble ==
    /\ next > 0 /\ Fault
    /\ \E v \in AnyByte : Receive(v, FALSE)
    /\ Advance /\ CountLost
    /\ UNCHANGED <<program, frame, begun, heir>>

Noise ==
    /\ Fault
    /\ \E v \in AnyByte : Receive(v, FALSE)
    /\ CountLost
    /\ UNCHANGED <<program, frame, next, begun, heir>>

\* The sending program restarts in the middle of a frame.
BreakOff ==
    /\ next > 0 /\ Fault
    /\ next' = 0
    /\ aligned' = FALSE /\ sure' = FALSE /\ CountLost
    /\ UNCHANGED <<program, uart, type, length, todo, got, missed, swallow, delivered, frame, begun,
                   heir>>

\* A bug the code avoids: a read that timed out is tried again.
ReadExpiresAgain ==
    /\ Reading
    /\ got' = 0
    /\ UNCHANGED <<uart, type, length, todo, missed, swallow, aligned, sure, delivered>>

\* read_exact_timeout gives up.  The body of an ENC frame is read on; what
\* other branches flush on a quiet line is nothing.
ReadExpires ==
    /\ Reading
    /\ \/ /\ This.readOn /\ length /= Unread /\ Len(todo) > 1
          /\ missed' = TRUE
          /\ todo' = Tail(todo)
          /\ got' = 0
          /\ UNCHANGED <<uart, type, length, aligned, sure>>
       \/ /\ ~This.readOn \/ length = Unread \/ Len(todo) = 1
          /\ StopReading(0)
    /\ UNCHANGED <<swallow, delivered>>

TapExpires ==
    /\ swallow > 0
    /\ swallow' = 0
    /\ UNCHANGED <<uart, type, length, todo, got, missed, aligned, sure, delivered>>

\* The line is quiet for the time of one read.
Quiet ==
    /\ next = 0
    /\ ReadExpires \/ TapExpires
    /\ CountLost
    /\ UNCHANGED <<program, frame, next, faults, whole, begun, heir>>

-----------------------------------------------------------------------------
Init ==
    /\ program \in Programs
    /\ uart = 0 /\ type = "none" /\ length = Unread /\ todo = <<>> /\ got = 0
    /\ missed = FALSE /\ swallow = 0
    /\ frame = CHOOSE f \in Frames : f.length \in Payloads(f.type)
    /\ next = 0 /\ faults = 0 /\ lost = 0
    /\ aligned = FALSE /\ sure = FALSE
    /\ whole = FALSE /\ begun = "ready" /\ heir = FALSE /\ delivered = FALSE

Next == Begin \/ Arrive \/ Lose \/ Garble \/ Noise \/ BreakOff \/ Quiet \/ FlushEnds

\* Bytes of a frame under way come, and reads have deadlines.
Spec == Init /\ [][Next]_vars /\ WF_vars(Arrive) /\ WF_vars(Quiet)

-----------------------------------------------------------------------------
(* Properties *)

\* Types; a read under way lacks a byte, and only one that has its length
\* goes beyond it.
TypeOK ==
    /\ program \in Programs
    /\ uart \in 0 .. 4
    /\ Reading => uart = 4 /\ type \in DOMAIN Branches[program]
    /\ length \in Lengths \cup {Unread}
    /\ Reading <=> todo /= <<>>
    /\ Reading => got < Head(todo)
    /\ Reading /\ length = Unread => todo = <<LenSize>>
    /\ ~Reading => length = Unread /\ ~missed
    /\ got \in Nat /\ (~Reading => got < TextBuf)
    /\ swallow \in 0 .. Tap + Fifo
    /\ frame.length \in Payloads(frame.type) /\ next \in 0 .. Size(frame)
    /\ faults \in 0 .. MaxFaults /\ lost \in 0 .. faults
    /\ {missed, aligned, sure, whole, heir, delivered} \subseteq BOOLEAN
    /\ begun \in {"ready", "late", "astray"}

\* A frame that arrives as sent, and begins while the program is outside of
\* any read, is handled: nothing that came before it, be it half a preamble
\* (dash, sender) or a TYPE that was none (flash, ask, og), costs it.
IntactFrameArrives ==
    next = 0 /\ whole /\ begun = "ready" /\ (program = "og" => frame.type /= "HS2")
        => delivered

\* One bad frame costs at most the frame after it: of two that arrive as
\* sent, the second is handled, whatever read, tap, flush or line of text the
\* first one ran into, unless that had a false length or the line lost as many
\* bytes of it as the shortest frame has.  This is what read_exact's exact
\* sizes, the tap's limit and the restart of the hunt come to; flash, ask and
\* og, which try any byte as a TYPE, do not promise it.
SecondFrameArrives ==
    next = 0 /\ whole /\ heir /\ program \in {"dash", "sender"} \cup TextReaders => delivered

\* No read waits for ever for bytes that do not come.
ReadsEnd == Reading ~> ~Reading
=============================================================================
