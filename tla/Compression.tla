---------------------------- MODULE Compression ----------------------------
(***************************************************************************)
(* A message typed at the Pico, from the compression in the sender's loop  *)
(* to the output file of the receiver: main of lifi_session_sender.c       *)
(* around the heatshrink encoder, main of dash_receiver.c or of            *)
(* ask_receiver.c around the heatshrink decoder.  All are single-threaded; *)
(* a step is one iteration of a poll loop, one call of sink or finish, or  *)
(* a decision of main.                                                     *)
(*                                                                         *)
(* Sizes are constants: the programs use windows of 8 bits, lookahead of 4 *)
(* bits and bytes of 8 bits.  The compressed stream is a sequence of bits; *)
(* bits that do not fill a byte yet are current_byte and bit_index.        *)
(***************************************************************************)
EXTENDS Integers, Sequences, SequencesExt

CONSTANTS
    WindowBits,     \* window_sz2
    LookaheadBits,  \* lookahead_sz2
    ByteBits,       \* 8
    Letters,        \* the bytes the user types, printable, so none is 0
    MaxLen,         \* bound: the longest message
    CompressOver,   \* messages longer than this are compressed
    CompCap,        \* bytes of compressed_buf
    InBuf,          \* bytes of the decoder's input buffer in dash_receiver.c
    AskBuf,         \* and in ask_receiver.c
    OutCap          \* bytes of the receiver's buffer "decompressed"

\* 1 << i, of what fits a byte.
Bit[i \in 0 .. ByteBits] == IF i = 0 THEN 1 ELSE 2 * Bit[i - 1]

ASSUME CompressionAssumption ==
    /\ {WindowBits, LookaheadBits, ByteBits, MaxLen, CompressOver, CompCap,
        InBuf, AskBuf, OutCap} \subseteq Nat \ {0}
    /\ LookaheadBits < WindowBits /\ WindowBits <= ByteBits
    /\ 1 + WindowBits + LookaheadBits >= ByteBits
    /\ Letters \subseteq 1 .. Bit[ByteBits] - 1
    /\ MaxLen < CompCap /\ MaxLen < OutCap

Window == Bit[WindowBits]
Lookahead == Bit[LookaheadBits]

VARIABLES
    message,     \* message_buffer as typed
    receiver,    \* the program that listens
    pc,          \* where the program that has the message is
    hse,         \* state of the encoder
    buffer,      \* its buffer: a window of backlog, then the input
    inputSize, msi, matchLength, matchPos, finishing, index,
    bits,        \* what the encoder pushed, then what the light carries
    compressed,  \* the message goes out as MSG_TYPE_FILE
    fed, read,   \* bytes sunk into the decoder, bits it consumed
    hsd,         \* state of the decoder
    window,      \* its ring of output
    outputIndex, outputCount,
    decoded      \* what the receiver shows or writes

encoder == <<hse, buffer, inputSize, msi, matchLength, matchPos, finishing,
             index, bits>>
decoder == <<hsd, fed, read, window, outputIndex, outputCount, decoded>>
vars == <<message, receiver, pc, compressed, encoder, decoder>>

-----------------------------------------------------------------------------
(* Bits *)

\* The n lowest bits of v, highest first.
ToBits(v, n) == [i \in 1 .. n |-> (v \div Bit[n - i]) % 2]

\* The number that n bits of a stream after the first k make.
FromBits(stream, k, n) ==
    LET accumulator[i \in 0 .. n] ==
          IF i = 0 THEN 0 ELSE 2 * accumulator[i - 1] + stream[k + i]
    IN  accumulator[n]

\* Whole bytes the encoder has put into compressed_buf.
CompSize == Len(bits) \div ByteBits

CanTakeByte == CompSize < CompCap

-----------------------------------------------------------------------------
(* The encoder *)

InputOffset == Window

\* sink takes what fits and says so in its last argument.
Sinkable(size) == Min({Window - inputSize, size})

Sunk(cp) == [i \in DOMAIN buffer |->
               IF i - InputOffset - inputSize \in 0 .. cp - 1
                 THEN message[i - InputOffset - inputSize + 1]
                 ELSE buffer[i]]

\* For every byte, where the same byte stood last.
Reindexed ==
    [i \in 0 .. InputOffset + inputSize - 1 |->
        Max({-1} \cup {j \in 0 .. i - 1 : buffer[j] = buffer[i]})]

\* A bug the code avoids: at the end of the message, the lookahead is still kept back.
ExhaustedEarly == msi > inputSize - Lookahead

Exhausted == msi > inputSize - (IF finishing THEN 1 ELSE Lookahead)

\* A bug the code avoids: a match may run past the end of the input.
MaxPossibleUnbounded == Lookahead

MaxPossible == Min({Lookahead, inputSize - msi})

\* Where the byte at the scan position stood before: the index from there on.
Chain ==
    LET from[p \in {-1} \cup DOMAIN index] == IF p = -1 THEN {} ELSE {p} \cup from[index[p]]
    IN  from[index[InputOffset + msi]]

\* How far the bytes at p and at the scan position agree.  That the first
\* ones do is the index's word.
Agreeing(p) ==
    Max({l \in 1 .. MaxPossible :
            \A i \in 1 .. l - 1 : buffer[p + i] = buffer[InputOffset + msi + i]})

Candidates == {p \in Chain : p >= InputOffset + msi - Window}
LongestMatch == Max({0} \cup {Agreeing(p) : p \in Candidates})
MatchFound == LongestMatch > (1 + WindowBits + LookaheadBits) \div ByteBits
NearestLongest == Max({p \in Candidates : Agreeing(p) = LongestMatch})

\* save_backlog: what was scanned becomes the backlog.
SavedBacklog ==
    LET rem == Window - msi IN
    [i \in DOMAIN buffer |-> IF i < Window + rem THEN buffer[i + msi] ELSE buffer[i]]

Polling == pc \in {"poll", "flush"}

Push(v, n) == bits' = bits \o ToBits(v, n)

Fill ==
    /\ Polling /\ hse = "FILLED"
    /\ index' = Reindexed
    /\ hse' = "SEARCH"
    /\ UNCHANGED <<message, receiver, pc, buffer, inputSize, msi, matchLength, matchPos, finishing,
                   bits, compressed, decoder>>

SearchEnds ==
    /\ Polling /\ hse = "SEARCH" /\ Exhausted
    /\ hse' = IF finishing THEN "FLUSH_BITS" ELSE "SAVE_BACKLOG"
    /\ UNCHANGED <<message, receiver, pc, buffer, inputSize, msi, matchLength, matchPos, finishing,
                   index, bits, compressed, decoder>>

Search ==
    /\ Polling /\ hse = "SEARCH" /\ ~Exhausted
    /\ IF MatchFound
         THEN /\ matchLength' = LongestMatch
              /\ matchPos' = InputOffset + msi - NearestLongest
              /\ msi' = msi
         ELSE /\ matchLength' = 0
              /\ matchPos' = matchPos
              /\ msi' = msi + 1
    /\ hse' = "YIELD_TAG_BIT"
    /\ UNCHANGED <<message, receiver, pc, buffer, inputSize, finishing, index, bits, compressed,
                   decoder>>

YieldTagBit ==
    /\ Polling /\ hse = "YIELD_TAG_BIT" /\ CanTakeByte
    /\ \/ matchLength = 0 /\ Push(1, 1) /\ hse' = "YIELD_LITERAL"
       \/ matchLength > 0 /\ Push(0, 1) /\ hse' = "YIELD_BR_INDEX"
    /\ UNCHANGED <<message, receiver, pc, buffer, inputSize, msi, matchLength, matchPos, finishing,
                   index, compressed, decoder>>

YieldLiteral ==
    /\ Polling /\ hse = "YIELD_LITERAL" /\ CanTakeByte
    /\ Push(buffer[InputOffset + msi - 1], ByteBits)
    /\ hse' = "SEARCH"
    /\ UNCHANGED <<message, receiver, pc, buffer, inputSize, msi, matchLength, matchPos, finishing,
                   index, compressed, decoder>>

YieldBackrefIndex ==
    /\ Polling /\ hse = "YIELD_BR_INDEX" /\ CanTakeByte
    /\ Push(matchPos - 1, WindowBits)
    /\ hse' = "YIELD_BR_LENGTH"
    /\ UNCHANGED <<message, receiver, pc, buffer, inputSize, msi, matchLength, matchPos, finishing,
                   index, compressed, decoder>>

YieldBackrefLength ==
    /\ Polling /\ hse = "YIELD_BR_LENGTH" /\ CanTakeByte
    /\ Push(matchLength - 1, LookaheadBits)
    /\ msi' = msi + matchLength
    /\ matchLength' = 0
    /\ hse' = "SEARCH"
    /\ UNCHANGED <<message, receiver, pc, buffer, inputSize, matchPos, finishing, index, compressed,
                   decoder>>

SaveBacklog ==
    /\ Polling /\ hse = "SAVE_BACKLOG"
    /\ buffer' = SavedBacklog
    /\ inputSize' = inputSize - msi
    /\ msi' = 0
    /\ hse' = "NOT_FULL"
    /\ UNCHANGED <<message, receiver, pc, matchLength, matchPos, finishing, index, bits, compressed,
                   decoder>>

\* The last bits go out as a byte, filled up with zeros.
FlushBits ==
    /\ Polling /\ hse = "FLUSH_BITS"
    /\ Len(bits) % ByteBits = 0 \/ CanTakeByte
    /\ bits' = bits \o ToBits(0, (ByteBits - (Len(bits) % ByteBits)) % ByteBits)
    /\ hse' = "DONE"
    /\ UNCHANGED <<message, receiver, pc, buffer, inputSize, msi, matchLength, matchPos, finishing,
                   index, compressed, decoder>>

-----------------------------------------------------------------------------
(* The sender's loop *)

\* One call of sink; how much it took is not looked at.
SinkMessage ==
    /\ pc = "typed" /\ Len(message) > CompressOver
    /\ LET cp == Sinkable(Len(message)) IN
         /\ buffer' = Sunk(cp)
         /\ inputSize' = inputSize + cp
         /\ hse' = IF cp = Window - inputSize THEN "FILLED" ELSE hse
    /\ pc' = "poll"
    /\ UNCHANGED <<message, receiver, msi, matchLength, matchPos, finishing, index, bits, compressed,
                   decoder>>

\* The first poll loop ends when the encoder wants input, or has filled the buffer.
PollEnds ==
    /\ pc = "poll"
    /\ hse = "NOT_FULL" \/ ~CanTakeByte
    /\ pc' = "flush"
    /\ finishing' = TRUE
    /\ hse' = IF hse = "NOT_FULL" THEN "FILLED" ELSE hse
    /\ UNCHANGED <<message, receiver, buffer, inputSize, msi, matchLength, matchPos, index, bits,
                   compressed, decoder>>

Blocked ==
    /\ ~CanTakeByte
    /\ \/ hse \in {"YIELD_TAG_BIT", "YIELD_LITERAL", "YIELD_BR_INDEX", "YIELD_BR_LENGTH"}
       \/ hse = "FLUSH_BITS" /\ Len(bits) % ByteBits /= 0

\* A bug the code avoids: the compressed bytes are sent whatever their number.
UseWhatThereIs == TRUE

UseCompressed == CompSize < Len(message)

\* After the one poll that follows finish: the shorter of the two is sent.
ChooseBody ==
    /\ pc = "flush"
    /\ hse = "DONE" \/ Blocked
    /\ compressed' = UseCompressed
    /\ pc' = "sent"
    /\ UNCHANGED <<message, receiver, encoder, decoder>>

SendShort ==
    /\ pc = "typed" /\ Len(message) <= CompressOver
    /\ pc' = "sent"
    /\ UNCHANGED <<message, receiver, compressed, encoder, decoder>>

-----------------------------------------------------------------------------
(* The receiver *)

ShowMessage ==
    /\ pc = "sent" /\ ~compressed
    /\ decoded' = message
    /\ pc' = "done"
    /\ UNCHANGED <<message, receiver, compressed, encoder, hsd, fed, read, window, outputIndex,
                   outputCount>>

InputBuffer == IF receiver = "ask" THEN AskBuf ELSE InBuf

\* A bug the code avoids: a part of a buffer is never taken.
SinkTakesBlocks(size) == (size \div InputBuffer) * InputBuffer

\* sink takes a buffer's worth: the poll before it has emptied the input buffer.
SinkTakes(size) == Min({InputBuffer, size})

SinkBytes ==
    /\ \/ pc = "sent" /\ compressed
       \/ pc = "sink" /\ fed < CompSize
    /\ fed' = fed + SinkTakes(CompSize - fed)
    /\ pc' = "expand"
    /\ UNCHANGED <<message, receiver, compressed, encoder, hsd, read, window, outputIndex,
                   outputCount, decoded>>

\* get_bits gives n bits or, when there are fewer, none.
HasBits(n) == fed * ByteBits - read >= n
Take(n) == HasBits(n) /\ read' = read + n

Expanding == pc = "expand"

TagBit ==
    /\ Expanding /\ hsd = "TAG_BIT" /\ Take(1)
    /\ \/ FromBits(bits, read, 1) = 1 /\ hsd' = "YIELD_LITERAL"
       \/ FromBits(bits, read, 1) = 0 /\ hsd' = "BACKREF_INDEX_LSB"
    /\ UNCHANGED <<message, receiver, pc, compressed, encoder, fed, window, outputIndex, outputCount,
                   decoded>>

\* Output goes to the caller and into the ring; head_index is its number.
HeadIndex == Len(decoded)
Emit(c) ==
    /\ decoded' = Append(decoded, c)
    /\ window' = [window EXCEPT ![HeadIndex % Window] = c]

EmitLiteral ==
    /\ Expanding /\ hsd = "YIELD_LITERAL" /\ Len(decoded) < OutCap /\ Take(ByteBits)
    /\ Emit(FromBits(bits, read, ByteBits))
    /\ hsd' = "TAG_BIT"
    /\ UNCHANGED <<message, receiver, pc, compressed, encoder, fed, outputIndex, outputCount>>

BackrefIndex ==
    /\ Expanding /\ hsd = "BACKREF_INDEX_LSB" /\ Take(WindowBits)
    /\ outputIndex' = FromBits(bits, read, WindowBits) + 1
    /\ hsd' = "BACKREF_COUNT_LSB"
    /\ UNCHANGED <<message, receiver, pc, compressed, encoder, fed, window, outputCount, decoded>>

BackrefCount ==
    /\ Expanding /\ hsd = "BACKREF_COUNT_LSB" /\ Take(LookaheadBits)
    /\ outputCount' = FromBits(bits, read, LookaheadBits) + 1
    /\ hsd' = "YIELD_BACKREF"
    /\ UNCHANGED <<message, receiver, pc, compressed, encoder, fed, window, outputIndex, decoded>>

\* A bug the code avoids: the distance is taken as it was sent, one short.
ReferencedOneShort == window[(HeadIndex - outputIndex + 1) % Window]

\* A byte of the ring, which may be one that this very reference wrote.
Referenced == window[(HeadIndex - outputIndex) % Window]

\* One byte of the loop in st_yield_backref.
EmitBackref ==
    /\ Expanding /\ hsd = "YIELD_BACKREF" /\ Len(decoded) < OutCap
    /\ Emit(Referenced)
    /\ outputCount' = outputCount - 1
    /\ hsd' = IF outputCount = 1 THEN "TAG_BIT" ELSE hsd
    /\ UNCHANGED <<message, receiver, pc, compressed, encoder, fed, read, outputIndex>>

Needs == CASE hsd = "TAG_BIT" -> 1
           [] hsd = "YIELD_LITERAL" -> ByteBits
           [] hsd = "BACKREF_INDEX_LSB" -> WindowBits
           [] hsd = "BACKREF_COUNT_LSB" -> LookaheadBits
           [] OTHER -> 0

\* The poll loop of the receiver ends when the decoder can take no step.
\* dash_receiver.c then sinks the next piece; ask_receiver.c sinks once.
ExpandEnds ==
    /\ Expanding
    /\ ~HasBits(Needs)
    /\ pc' = IF receiver = "dash" /\ fed < CompSize THEN "sink" ELSE "done"
    /\ UNCHANGED <<message, receiver, compressed, encoder, decoder>>

-----------------------------------------------------------------------------
Init ==
    /\ message \in SeqOf(Letters, MaxLen) \ {<<>>}
    /\ receiver \in {"dash", "ask"}
    /\ pc = "typed"
    /\ hse = "NOT_FULL"
    /\ buffer = [i \in 0 .. 2 * Window - 1 |-> 0]
    /\ inputSize = 0 /\ msi = 0 /\ matchLength = 0 /\ matchPos = 0
    /\ finishing = FALSE /\ index = <<>> /\ bits = <<>>
    /\ compressed = FALSE
    /\ hsd = "TAG_BIT"
    /\ fed = 0 /\ read = 0
    /\ window = [i \in 0 .. Window - 1 |-> 0]
    /\ outputIndex = 0 /\ outputCount = 0
    /\ decoded = <<>>

Encode == \/ Fill \/ SearchEnds \/ Search \/ YieldTagBit \/ YieldLiteral
          \/ YieldBackrefIndex \/ YieldBackrefLength \/ SaveBacklog \/ FlushBits
Decode == TagBit \/ EmitLiteral \/ BackrefIndex \/ BackrefCount \/ EmitBackref

Next == \/ SinkMessage \/ Encode \/ PollEnds \/ ChooseBody \/ SendShort
        \/ ShowMessage \/ SinkBytes \/ Decode \/ ExpandEnds

Spec == Init /\ [][Next]_vars /\ WF_vars(Next)

-----------------------------------------------------------------------------
(* Properties *)

\* Types; the scan never passes the input, and references stay in the window.
TypeOK ==
    /\ message \in Seq(Letters) /\ receiver \in {"dash", "ask"}
    /\ pc \in {"typed", "poll", "flush", "sent", "sink", "expand", "done"}
    /\ hse \in {"NOT_FULL", "FILLED", "SEARCH", "YIELD_TAG_BIT", "YIELD_LITERAL",
                "YIELD_BR_INDEX", "YIELD_BR_LENGTH", "SAVE_BACKLOG", "FLUSH_BITS", "DONE"}
    /\ inputSize \in 0 .. Window /\ msi \in 0 .. inputSize
    /\ matchLength \in 0 .. Lookahead /\ matchPos \in 0 .. Window
    /\ finishing \in BOOLEAN /\ compressed \in BOOLEAN
    /\ bits \in Seq({0, 1})
    /\ hsd \in {"TAG_BIT", "YIELD_LITERAL", "BACKREF_INDEX_LSB", "BACKREF_COUNT_LSB",
                "YIELD_BACKREF"}
    /\ fed \in 0 .. CompSize /\ read \in 0 .. Len(bits)
    /\ outputIndex \in 0 .. Window /\ outputCount \in 0 .. Lookahead

\* No wrong byte is ever written: whatever the sender's encoder makes of a
\* message, and in whatever pieces the decoder gets it, the output is a
\* beginning of the message.  (Index, backlog, ring and bit cursors agree.)
NeverWrongByte == IsPrefix(decoded, message)

\* Nothing the encoder took is lost: a message that fits the window arrives
\* whole, the lookahead it keeps back and its last bits included.  With
\* ask_receiver.c, if the compressed bytes fit its decoder's buffer, too.
WindowfulArrives ==
    pc = "done" /\ (receiver = "ask" /\ compressed => CompSize <= AskBuf)
        => Len(decoded) >= Min({Len(message), Window})

\* A full compressed_buf ends the poll loops early; a stream cut in this way is
\* never sent in the message's place.
CompressedIsComplete == compressed => hse = "DONE"

\* Both programs get through every message: no poll loop spins.
Completes == <>(pc = "done")

\* "Sink the whole payload to encoder" (lifi_session_sender.c, above the call):
\* the receiver that reads to the end gets the whole message.
WholeMessageArrives == pc = "done" /\ receiver = "dash" => decoded = message
=============================================================================
