--------------------------- MODULE FramingProofs ---------------------------
(***************************************************************************)
(* Proofs about Framing, for all sizes of fields, tap, FIFO and text buffer *)
(* and for any number of faults: types, that an intact frame that begins    *)
(* outside of any read is handled, and that one bad frame costs at most the *)
(* frame after it.                                                          *)
(*                                                                          *)
(* The argument.  Say that a byte is "good" when it is the next one of the  *)
(* frame on the line.  A read that began with the frame (aligned) always    *)
(* lacks exactly the bytes the frame still has (AlignedInv).  One whose     *)
(* length is true (sure) lacks at most those and the ones the line lost     *)
(* since (SureInv), so that a whole frame longer than what was lost ends    *)
(* it; tap and FIFO are shorter than a frame as well.                       *)
(* Hence a frame that begins while the program is ready is followed byte by *)
(* byte (OnTrack), and one that begins late leaves it ready (Outlived).     *)
(***************************************************************************)
EXTENDS Framing, SequenceTheorems, TLAPS

-----------------------------------------------------------------------------
(* Reads to come: one to four, each of a byte or more. *)

At(s, i) == IF i <= Len(s) THEN s[i] ELSE 0
Total(s) == At(s, 1) + At(s, 2) + At(s, 3) + At(s, 4)
Plan(s) == s \in Seq(Nat \ {0}) /\ Len(s) \in 1 .. 4

LEMMA Sizes ==
    /\ LenSize \in Nat /\ LenSize > 0 /\ CrcSize \in Nat /\ CrcSize > 0
    /\ IdSize \in Nat /\ IdSize > 0 /\ Hs2Size \in Nat /\ Hs2Size > 0
    /\ NonceSize \in Nat /\ NonceSize > 0 /\ TagSize \in Nat /\ TagSize > 0
    /\ HsSize \in Nat /\ HsSize > 0 /\ KeySize \in Nat /\ KeySize > 0
    /\ MacSize \in Nat /\ MacSize > 0 /\ Tap \in Nat /\ Tap > 0
    /\ Fifo \in Nat /\ Fifo > 0 /\ TextBuf \in Nat /\ TextBuf > 1
    /\ MaxId \in Nat /\ MaxMsg \in Nat /\ MaxFaults \in Nat
BY FramingAssumption

LEMMA Relations ==
    /\ IdSize <= MaxId /\ MaxId <= MaxMsg /\ MinMsg <= MaxMsg /\ Hs2Size <= MaxMsg
    /\ HsSize <= MaxMsg /\ IdSize + KeySize + MacSize <= MaxMsg
    /\ IdSize <= Hs2Size /\ IdSize <= MinMsg
    /\ IdSize + CrcSize <= HsSize /\ CrcSize <= KeySize + MacSize
    /\ Tap + 1 < ShortestFrame
    /\ Fifo < 4 + 1 + LenSize + HsSize /\ Fifo < 4 + 1 + LenSize + IdSize + KeySize + MacSize
    /\ MinMsg \in Nat /\ MinMsg > 0 /\ ShortestFrame \in Nat
<1>1. MinMsg \in Nat /\ MinMsg > 0 /\ ShortestFrame \in Nat
  BY Sizes DEF MinMsg, ShortestFrame
<1> QED
  BY FramingAssumption, Sizes, <1>1

LEMMA OneRead ==
    ASSUME NEW n \in Nat \ {0}
    PROVE  Plan(<<n>>) /\ Total(<<n>>) = n
BY DEF Plan, Total, At

LEMMA TwoReads ==
    ASSUME NEW m \in Nat \ {0}, NEW n \in Nat \ {0}
    PROVE  Plan(<<m, n>>) /\ Total(<<m, n>>) = m + n
BY DEF Plan, Total, At

LEMMA ThreeReads ==
    ASSUME NEW k \in Nat \ {0}, NEW m \in Nat \ {0}, NEW n \in Nat \ {0}
    PROVE  Plan(<<k, m, n>>) /\ Total(<<k, m, n>>) = k + m + n
BY DEF Plan, Total, At

LEMMA FourReads ==
    ASSUME NEW k \in Nat \ {0}, NEW l \in Nat \ {0}, NEW m \in Nat \ {0}, NEW n \in Nat \ {0}
    PROVE  Plan(<<k, l, m, n>>) /\ Total(<<k, l, m, n>>) = k + l + m + n
BY DEF Plan, Total, At

LEMMA Elements ==
    ASSUME NEW s, Plan(s)
    PROVE  /\ Len(s) \in 1 .. 4 /\ s /= <<>>
           /\ \A i \in 1 .. Len(s) : s[i] \in Nat \ {0}
           /\ Head(s) = s[1] /\ Tail(s) \in Seq(Nat \ {0}) /\ Len(Tail(s)) = Len(s) - 1
           /\ \A i \in 1 .. Len(s) - 1 : Tail(s)[i] = s[i + 1]
<1>1. s \in Seq(Nat \ {0}) /\ Len(s) \in 1 .. 4
  BY DEF Plan
<1>2. ASSUME s = <<>> PROVE FALSE
  <2>1. Len(s) = 0
    BY <1>2
  <2> QED
    BY <1>1, <2>1
<1> QED
  BY <1>1, <1>2, ElementOfSeq, HeadTailProperties

LEMMA FirstOnly ==
    ASSUME NEW s, Plan(s)
    PROVE  /\ Head(s) \in Nat \ {0} /\ s /= <<>>
           /\ Total(s) \in Nat
           /\ Len(s) = 1 => Total(s) = Head(s)
           /\ Len(s) > 1 => Total(s) > Head(s)
           /\ Len(s) = 1 \/ Len(s) > 1
<1>1. PICK n \in 1 .. 4 : Len(s) = n
  BY Elements
<1>2. \A i \in 1 .. n : s[i] \in Nat \ {0}
  BY <1>1, Elements
<1>3. Head(s) = s[1] /\ s /= <<>>
  BY Elements
<1>4. n = 1 \/ n = 2 \/ n = 3 \/ n = 4
  OBVIOUS
<1> QED
  BY <1>1, <1>2, <1>3, <1>4 DEF Total, At

LEMMA WithoutFirst ==
    ASSUME NEW s, Plan(s), Len(s) > 1
    PROVE  Plan(Tail(s)) /\ Total(Tail(s)) = Total(s) - Head(s)
<1>1. PICK n \in 2 .. 4 : Len(s) = n
  BY Elements
<1> DEFINE t == Tail(s)
<1>2. /\ \A i \in 1 .. n : s[i] \in Nat \ {0}
      /\ \A i \in 1 .. n - 1 : t[i] = s[i + 1]
      /\ Len(t) = n - 1 /\ t \in Seq(Nat \ {0}) /\ Head(s) = s[1]
  BY <1>1, Elements
<1>3. n = 2 \/ n = 3 \/ n = 4
  OBVIOUS
<1>4. Plan(t)
  BY <1>2 DEF Plan
<1> HIDE DEF t
<1>5. Total(t) = Total(s) - s[1]
  BY <1>1, <1>2, <1>3 DEF Total, At
<1> QED
  BY <1>2, <1>4, <1>5 DEF t

LEMMA Joined ==
    ASSUME NEW s \in Seq(Nat \ {0}), NEW t \in Seq(Nat \ {0}),
           NEW m \in 0 .. 4, NEW n \in 0 .. 4, Len(s) = m, Len(t) = n, m + n \in 1 .. 4
    PROVE  Plan(s \o t) /\ Len(s \o t) = m + n /\ Total(s \o t) = Total(s) + Total(t)
<1> DEFINE u == s \o t
<1>2. /\ u \in Seq(Nat \ {0}) /\ Len(u) = m + n
      /\ \A i \in 1 .. m + n : u[i] = IF i <= m THEN s[i] ELSE t[i - m]
  BY ConcatProperties
<1>3. /\ \A i \in 1 .. m : s[i] \in Nat
      /\ \A i \in 1 .. n : t[i] \in Nat
  BY ElementOfSeq
<1> HIDE DEF u
<1>4. Plan(u)
  BY <1>2 DEF Plan
<1>5. Total(u) = Total(s) + Total(t)
  <2>0. CASE m = 0
    BY <1>2, <1>3, <2>0 DEF Total, At
  <2>1. CASE m = 1
    BY <1>2, <1>3, <2>1 DEF Total, At
  <2>2. CASE m = 2
    BY <1>2, <1>3, <2>2 DEF Total, At
  <2>3. CASE m = 3
    BY <1>2, <1>3, <2>3 DEF Total, At
  <2>4. CASE m = 4
    BY <1>2, <1>3, <2>4 DEF Total, At
  <2> QED
    BY <2>0, <2>1, <2>2, <2>3, <2>4
<1> QED
  BY <1>2, <1>4, <1>5 DEF u

LEMMA NoneOrOne ==
    ASSUME NEW n \in Nat
    PROVE  /\ OrNone(n) \in Seq(Nat \ {0}) /\ Len(OrNone(n)) \in 0 .. 1
           /\ Total(OrNone(n)) = n
<1>1. CASE n = 0
  BY <1>1 DEF OrNone, Total, At
<1>2. CASE n /= 0
  BY <1>2 DEF OrNone, Total, At
<1> QED
  BY <1>1, <1>2

LEMMA IdReads ==
    ASSUME NEW n \in Lengths
    PROVE  LET s == OrNone(n) \o <<CrcSize>> IN Plan(s) /\ Total(s) = n + CrcSize
<1>1. n \in Nat
  BY DEF Lengths
<1>2. Plan(<<CrcSize>>) /\ Total(<<CrcSize>>) = CrcSize /\ Len(<<CrcSize>>) = 1
      /\ <<CrcSize>> \in Seq(Nat \ {0})
  BY OneRead, Sizes DEF Plan
<1>3. PICK m \in 0 .. 1 : Len(OrNone(n)) = m
  BY <1>1, NoneOrOne
<1>4. OrNone(n) \in Seq(Nat \ {0}) /\ Total(OrNone(n)) = n
  BY <1>1, NoneOrOne
<1>5. m \in 0 .. 4 /\ 1 \in 0 .. 4 /\ m + 1 \in 1 .. 4
  OBVIOUS
<1> QED
  BY <1>2, <1>3, <1>4, <1>5, Joined

LEMMA EncReads ==
    ASSUME NEW n \in MinMsg .. MaxMsg
    PROVE  LET s == <<NonceSize>> \o OrNone(n - MinMsg) \o <<TagSize, CrcSize>>
           IN Plan(s) /\ Total(s) = n + CrcSize
<1> DEFINE k == n - MinMsg
           o == OrNone(k)
           s == <<NonceSize>>
           t == <<TagSize, CrcSize>>
           r == s \o o
<1>1. n \in Nat /\ MinMsg = NonceSize + TagSize /\ k \in Nat
  BY Sizes, Relations DEF MinMsg
<1>2. Plan(s) /\ Total(s) = NonceSize /\ Len(s) = 1 /\ s \in Seq(Nat \ {0})
  BY OneRead, Sizes DEF Plan
<1>3. Plan(t) /\ Total(t) = TagSize + CrcSize /\ Len(t) = 2 /\ t \in Seq(Nat \ {0})
  BY TwoReads, Sizes DEF Plan
<1>4. o \in Seq(Nat \ {0}) /\ Total(o) = k /\ Len(o) \in 0 .. 1
  BY <1>1, NoneOrOne
<1> HIDE DEF o, s, t
<1>5. PICK m \in 0 .. 1 : Len(o) = m
  BY <1>4
<1>6. 1 \in 0 .. 4 /\ 2 \in 0 .. 4 /\ m \in 0 .. 4 /\ 1 + m \in 1 .. 4 /\ 1 + m \in 0 .. 4
      /\ (1 + m) + 2 \in 1 .. 4
  OBVIOUS
<1>7. Plan(r) /\ Total(r) = Total(s) + Total(o) /\ Len(r) = 1 + m
  BY <1>2, <1>4, <1>5, <1>6, Joined
<1>8. r \in Seq(Nat \ {0})
  BY <1>7 DEF Plan
<1> HIDE DEF r
<1>9. Plan(r \o t) /\ Total(r \o t) = Total(r) + Total(t)
  BY <1>3, <1>6, <1>7, <1>8, Joined
<1>10. NonceSize + k + (TagSize + CrcSize) = n + CrcSize
  BY <1>1, Sizes
<1>11. Total(r \o t) = n + CrcSize
  BY <1>2, <1>3, <1>4, <1>7, <1>9, <1>10
<1> QED
  BY <1>9, <1>11 DEF r, s, o, t

-----------------------------------------------------------------------------
(* The branches: a length that is accepted gives a plan of reads; that of a *)
(* frame as sent is accepted, and its reads take the whole rest of it.      *)

Framed == Receivers \cup {"sender"}

Body(t, n) == n + (IF t \in {"KEY_ID", "HS2", "ENC"} THEN CrcSize ELSE 0)

SoundBranch(p, t, b) ==
    /\ b.accepts \subseteq Lengths
    /\ {b.readOn, b.guarded} \subseteq BOOLEAN /\ b.after \in {0, 4}
    /\ p \in {"dash", "sender"} => b.after = 0
    /\ \A n \in b.accepts : Plan(b.reads[n])
    /\ \A n \in Payloads(t) : n \in b.accepts /\ Total(b.reads[n]) = Body(t, n)

LEMMA KeyIdSound ==
    ASSUME NEW p \in Framed
    PROVE  /\ SoundBranch(p, "KEY_ID", KeyId)
           /\ p \notin {"dash", "sender"} => SoundBranch(p, "KEY_ID", AskKeyId)
<1> DEFINE r == [n \in Lengths |-> OrNone(n) \o <<CrcSize>>]
<1>1. /\ KeyId.accepts = 0 .. MaxId /\ KeyId.reads = r /\ KeyId.readOn = FALSE
      /\ KeyId.guarded = TRUE /\ KeyId.after = 0
      /\ AskKeyId.accepts = 0 .. MaxId /\ AskKeyId.reads = r /\ AskKeyId.readOn = FALSE
      /\ AskKeyId.guarded = TRUE /\ AskKeyId.after = 4
  BY DEF KeyId, AskKeyId, Branch
<1>2. \A n \in 0 .. MaxId : n \in Lengths /\ r[n] = OrNone(n) \o <<CrcSize>>
  BY Sizes, Relations DEF Lengths
<1>3. \A n \in 0 .. MaxId : Plan(r[n]) /\ Total(r[n]) = n + CrcSize
  BY <1>2, IdReads
<1>4. Payloads("KEY_ID") = {IdSize} /\ IdSize \in 0 .. MaxId
  BY Sizes, Relations DEF Payloads
<1>5. \A n : Body("KEY_ID", n) = n + CrcSize
  BY DEF Body
<1> QED
  BY <1>1, <1>2, <1>3, <1>4, <1>5 DEF SoundBranch

LEMMA Hs2Sound ==
    ASSUME NEW p \in Framed
    PROVE  SoundBranch(p, "HS2", Hs2)
<1> DEFINE r == [n \in Lengths |-> <<Hs2Size, CrcSize>>]
<1>1. /\ Hs2.accepts = {Hs2Size} /\ Hs2.reads = r /\ Hs2.readOn = FALSE
      /\ Hs2.guarded = TRUE /\ Hs2.after = 0
  BY DEF Hs2, Branch
<1>2. Hs2Size \in Lengths /\ r[Hs2Size] = <<Hs2Size, CrcSize>>
  BY Sizes, Relations DEF Lengths
<1>3. Plan(r[Hs2Size]) /\ Total(r[Hs2Size]) = Hs2Size + CrcSize
  BY <1>2, TwoReads, Sizes
<1>4. Payloads("HS2") = {Hs2Size}
  BY DEF Payloads
<1>5. \A n : Body("HS2", n) = n + CrcSize
  BY DEF Body
<1> QED
  BY <1>1, <1>2, <1>3, <1>4, <1>5 DEF SoundBranch

LEMMA EncSound ==
    ASSUME NEW p \in Framed
    PROVE  SoundBranch(p, "ENC", Enc)
<1> DEFINE r == [n \in Lengths |-> <<NonceSize>> \o OrNone(n - MinMsg) \o <<TagSize, CrcSize>>]
<1>1. /\ Enc.accepts = MinMsg .. MaxMsg /\ Enc.reads = r /\ Enc.readOn = TRUE
      /\ Enc.guarded = TRUE /\ Enc.after = 0
  BY DEF Enc, Branch
<1>2. \A n \in MinMsg .. MaxMsg : n \in Lengths
  BY Sizes, Relations DEF Lengths
<1>3. \A n \in MinMsg .. MaxMsg : Plan(r[n]) /\ Total(r[n]) = n + CrcSize
  <2>1. \A n \in MinMsg .. MaxMsg : r[n] = <<NonceSize>> \o OrNone(n - MinMsg) \o <<TagSize, CrcSize>>
    BY <1>2
  <2> HIDE DEF r
  <2> QED
    BY <2>1, EncReads
<1>4. Payloads("ENC") = MinMsg .. MaxMsg
  BY DEF Payloads
<1>5. \A n : Body("ENC", n) = n + CrcSize
  BY DEF Body
<1> QED
  BY <1>1, <1>2, <1>3, <1>4, <1>5 DEF SoundBranch

LEMMA SenderSound ==
    /\ SoundBranch("sender", "HS1", SenderHs1) /\ SoundBranch("sender", "HS3", SenderHs3)
    /\ SoundBranch("sender", "KEY", SenderKey)
<1>1. ASSUME NEW t \in {"HS1", "HS3"}, NEW b \in {SenderHs1, SenderHs3}
      PROVE  SoundBranch("sender", t, b)
  <2> DEFINE r == [n \in Lengths |-> <<HsSize>>]
  <2>1. /\ b.accepts = {HsSize} /\ b.reads = r /\ b.readOn = FALSE
        /\ b.guarded = TRUE /\ b.after = 0
    BY <1>1 DEF SenderHs1, SenderHs3, Branch
  <2>2. HsSize \in Lengths /\ r[HsSize] = <<HsSize>>
    BY Sizes, Relations DEF Lengths
  <2>3. Plan(r[HsSize]) /\ Total(r[HsSize]) = HsSize
    BY <2>2, OneRead, Sizes
  <2>4. Payloads(t) = {HsSize}
    BY DEF Payloads
  <2>5. Body(t, HsSize) = HsSize
    BY Sizes DEF Body
  <2> QED
    BY <2>1, <2>2, <2>3, <2>4, <2>5 DEF SoundBranch
<1>2. SoundBranch("sender", "KEY", SenderKey)
  <2> DEFINE r == [n \in Lengths |-> <<IdSize, KeySize, MacSize>>]
  <2>1. /\ SenderKey.accepts = Lengths /\ SenderKey.reads = r /\ SenderKey.readOn = FALSE
        /\ SenderKey.guarded = FALSE /\ SenderKey.after = 0
    BY DEF SenderKey, Branch
  <2>2. \A n \in Lengths : r[n] = <<IdSize, KeySize, MacSize>>
    OBVIOUS
  <2>3. \A n \in Lengths : Plan(r[n]) /\ Total(r[n]) = IdSize + KeySize + MacSize
    BY <2>2, ThreeReads, Sizes
  <2>4. Payloads("KEY") = {IdSize + KeySize + MacSize} /\ IdSize + KeySize + MacSize \in Lengths
    BY Sizes, Relations DEF Payloads, Lengths
  <2>5. Body("KEY", IdSize + KeySize + MacSize) = IdSize + KeySize + MacSize
    BY Sizes DEF Body
  <2> QED
    BY <2>1, <2>2, <2>3, <2>4, <2>5 DEF SoundBranch
<1> QED
  BY <1>1, <1>2

ReceiverTypes(p) == IF p = "og" THEN {"KEY_ID", "ENC"} ELSE {"KEY_ID", "HS2", "ENC"}
TypesOf(p) == IF p = "sender" THEN {"HS1", "HS3", "KEY"} ELSE ReceiverTypes(p)

LEMMA BranchesSound ==
    ASSUME NEW p \in Framed
    PROVE  /\ DOMAIN Branches[p] = TypesOf(p)
           /\ \A t \in TypesOf(p) : SoundBranch(p, t, Branches[p][t])
<1>1. CASE p = "dash"
  <2>1. Branches[p] = [KEY_ID |-> KeyId, HS2 |-> Hs2, ENC |-> Enc]
    BY <1>1 DEF Branches, DashKeyId, DashHs2, DashEnc
  <2>2. TypesOf(p) = {"KEY_ID", "HS2", "ENC"}
    BY <1>1 DEF TypesOf, ReceiverTypes
  <2> QED
    BY <2>1, <2>2, KeyIdSound, Hs2Sound, EncSound
<1>2. CASE p = "flash"
  <2>1. Branches[p] = [KEY_ID |-> KeyId, HS2 |-> Hs2, ENC |-> Enc]
    BY <1>2 DEF Branches, FlashKeyId, FlashHs2, FlashEnc
  <2>2. TypesOf(p) = {"KEY_ID", "HS2", "ENC"}
    BY <1>2 DEF TypesOf, ReceiverTypes
  <2> QED
    BY <2>1, <2>2, KeyIdSound, Hs2Sound, EncSound
<1>3. CASE p = "ask"
  <2>1. Branches[p] = [KEY_ID |-> AskKeyId, HS2 |-> Hs2, ENC |-> Enc]
    BY <1>3 DEF Branches, AskHs2, AskEnc
  <2>2. TypesOf(p) = {"KEY_ID", "HS2", "ENC"} /\ p \notin {"dash", "sender"}
    BY <1>3 DEF TypesOf, ReceiverTypes
  <2> QED
    BY <2>1, <2>2, KeyIdSound, Hs2Sound, EncSound
<1>4. CASE p = "og"
  <2>1. Branches[p] = [KEY_ID |-> KeyId, ENC |-> Enc]
    BY <1>4 DEF Branches, OgKeyId, OgEnc
  <2>2. TypesOf(p) = {"KEY_ID", "ENC"}
    BY <1>4 DEF TypesOf, ReceiverTypes
  <2> QED
    BY <2>1, <2>2, KeyIdSound, EncSound
<1>5. CASE p = "sender"
  <2>1. Branches[p] = [HS1 |-> SenderHs1, HS3 |-> SenderHs3, KEY |-> SenderKey]
    BY <1>5 DEF Branches
  <2>2. TypesOf(p) = {"HS1", "HS3", "KEY"}
    BY <1>5 DEF TypesOf
  <2> QED
    BY <1>5, <2>1, <2>2, SenderSound
<1> QED
  BY <1>1, <1>2, <1>3, <1>4, <1>5 DEF Framed, Receivers

-----------------------------------------------------------------------------
(* What can be on the line, and how long it is. *)

Text == program \in TextReaders

LEMMA FrameFacts ==
    ASSUME program \in Programs, NEW f, f.type \in Traffic, f.length \in Payloads(f.type)
    PROVE  /\ Text => /\ f.type = "TEXT" /\ f.length \in 1 .. TextBuf - 1
                      /\ Size(f) = 5 + f.length
           /\ ~Text => /\ program \in Framed
                       /\ f.type \in {"KEY_ID", "HS2", "ENC", "HS1", "HS3", "KEY"}
                       /\ f.length \in Lengths /\ Body(f.type, f.length) \in Nat
                       /\ Size(f) = 5 + LenSize + Body(f.type, f.length)
                       /\ Size(f) >= ShortestFrame /\ Size(f) > 5 + LenSize
                       /\ program \in {"dash", "sender"} => f.type \in TypesOf(program)
                       /\ (program = "og" /\ f.type = "HS2") \/ f.type \in TypesOf(program)
           /\ program = "sender" => Size(f) > Fifo
           /\ Size(f) \in Nat /\ Size(f) > 5
<1>1. CASE Text
  <2>1. Traffic = {"TEXT"} /\ program # "sender"
    BY <1>1 DEF Traffic, Text, TextReaders, Receivers
  <2>2. f.length \in 1 .. TextBuf - 1
    BY <2>1 DEF Payloads
  <2>3. Size(f) = 5 + f.length
    BY <2>1, <2>2, Sizes DEF Size
  <2> QED
    BY <1>1, <2>1, <2>2, <2>3, Sizes
<1>2. CASE program \in Receivers
  <2>1. Traffic = {"KEY_ID", "HS2", "ENC"} /\ ~Text /\ program # "sender" /\ program \in Framed
    BY <1>2 DEF Traffic, Text, TextReaders, Receivers, Framed
  <2>2. f.length \in Lengths /\ f.length >= IdSize
    <3>1. f.type = "KEY_ID" => f.length = IdSize
      BY DEF Payloads
    <3>2. f.type = "HS2" => f.length = Hs2Size
      BY DEF Payloads
    <3>3. f.type = "ENC" => f.length \in MinMsg .. MaxMsg
      BY DEF Payloads
    <3> QED
      BY <2>1, <3>1, <3>2, <3>3, Sizes, Relations DEF Lengths
  <2>3. Body(f.type, f.length) = f.length + CrcSize
    BY <2>1 DEF Body
  <2>4. Size(f) = 5 + LenSize + (f.length + CrcSize)
    BY <2>1, <2>2, Sizes DEF Size, Lengths
  <2>5. /\ Size(f) >= ShortestFrame /\ Size(f) \in Nat /\ Size(f) > 5 + LenSize
        /\ Size(f) > 5 /\ f.length + CrcSize \in Nat
    BY <2>2, <2>4, Sizes DEF ShortestFrame, Lengths
  <2>6. /\ (program = "og" /\ f.type = "HS2") \/ f.type \in TypesOf(program)
        /\ program \in {"dash", "sender"} => f.type \in TypesOf(program)
    BY <1>2, <2>1 DEF TypesOf, ReceiverTypes
  <2> QED
    BY <2>1, <2>2, <2>3, <2>4, <2>5, <2>6
<1>3. CASE program = "sender"
  <2>1. Traffic = {"HS1", "HS3", "KEY"} /\ ~Text /\ program \in Framed
    BY <1>3 DEF Traffic, Text, TextReaders, Receivers, Framed
  <2>2. f.length \in Lengths /\ f.length >= IdSize + CrcSize
        /\ f.length \in {HsSize, IdSize + KeySize + MacSize}
    <3>1. f.type \in {"HS1", "HS3"} => f.length = HsSize
      BY DEF Payloads
    <3>2. f.type = "KEY" => f.length = IdSize + KeySize + MacSize
      BY DEF Payloads
    <3> QED
      BY <2>1, <3>1, <3>2, Sizes, Relations DEF Lengths
  <2>3. Body(f.type, f.length) = f.length
    BY <2>1, <2>2 DEF Body, Lengths
  <2>4. Size(f) = 5 + LenSize + f.length
    BY <2>1, <2>2, Sizes DEF Size, Lengths
  <2>5. /\ Size(f) >= ShortestFrame /\ Size(f) \in Nat /\ Size(f) > 5 + LenSize
        /\ Size(f) > 5 /\ f.length \in Nat /\ Size(f) > Fifo
    BY <2>2, <2>4, Sizes, Relations DEF ShortestFrame, Lengths
  <2>6. f.type \in TypesOf(program)
    BY <1>3, <2>1 DEF TypesOf
  <2> QED
    BY <2>1, <2>2, <2>3, <2>4, <2>5, <2>6
<1> QED
  BY <1>1, <1>2, <1>3 DEF Programs, Text

-----------------------------------------------------------------------------
(* The reader, whatever the line does. *)

\* What is swallowed of the bytes after an unknown TYPE or a false length.
Bound == IF program = "dash" THEN Tap ELSE IF program = "sender" THEN Fifo ELSE 0

ReaderInv ==
    /\ program \in Programs
    /\ uart \in 0 .. 4
    /\ Reading => /\ program \in Framed /\ uart = 4 /\ type \in TypesOf(program)
                  /\ Plan(todo) /\ got \in Nat /\ got < Head(todo)
                  /\ length = Unread => todo = <<LenSize>>
    /\ ~Reading => todo = <<>> /\ length = Unread /\ ~missed /\ got \in 0 .. TextBuf - 1
    /\ ~Reading /\ (~Text \/ uart < 4) => got = 0
    /\ length \in Lengths \cup {Unread}
    /\ swallow \in 0 .. Bound
    /\ swallow > 0 => ~Reading /\ uart = 0
    /\ missed \in BOOLEAN /\ aligned \in BOOLEAN /\ sure \in BOOLEAN /\ delivered \in BOOLEAN

LineInv ==
    /\ frame.type \in Traffic /\ frame.length \in Payloads(frame.type)
    /\ next \in 0 .. Size(frame) /\ faults \in 0 .. MaxFaults /\ lost \in 0 .. faults
    /\ whole \in BOOLEAN /\ heir \in BOOLEAN /\ begun \in {"ready", "late", "astray"}

LEMMA Dispatch ==
    ASSUME ReaderInv, Reading
    PROVE  /\ SoundBranch(program, type, This) /\ program \in Framed /\ ~Text
           /\ type \in TypesOf(program) /\ type # "none"
<1>1. program \in Framed /\ type \in TypesOf(program) /\ type # "none"
  BY DEF ReaderInv, Reading
<1>2. ~Text
  BY <1>1 DEF Text, TextReaders, Framed, Receivers
<1> QED
  BY <1>1, <1>2, BranchesSound DEF This

LEMMA TypesAreTypes ==
    ASSUME NEW p
    PROVE  TypesOf(p) \subseteq {"KEY_ID", "HS2", "ENC", "HS1", "HS3", "KEY"}
BY DEF TypesOf, ReceiverTypes

\* A byte that no read takes.
LEMMA HuntStep ==
    ASSUME ReaderInv, UNCHANGED program, NEW v, NEW intact \in BOOLEAN,
           swallow = 0, HuntByte(v, intact)
    PROVE  /\ ReaderInv' /\ ~Reading /\ ~Reading' /\ uart < 4 /\ UNCHANGED <<swallow, got, delivered, sure>>
           /\ aligned' = (intact /\ next = 4)
           /\ v = Preamble[uart + 1] => uart' = uart + 1
           /\ v # Preamble[uart + 1] =>
                uart' = IF v = "P1" /\ program \in {"dash", "sender"} THEN 1 ELSE 0
<1>1. /\ uart < 4 /\ uart \in 0 .. 3
      /\ UNCHANGED <<type, length, todo, got, missed, swallow, sure, delivered>>
      /\ aligned' = (intact /\ next = 4)
  BY DEF HuntByte, ReaderInv
<1>2. ~Reading /\ ~Reading' /\ got = 0
  BY <1>1 DEF ReaderInv, Reading
<1>3. /\ v = Preamble[uart + 1] => uart' = uart + 1
      /\ v # Preamble[uart + 1] =>
           uart' = IF v = "P1" /\ program \in {"dash", "sender"} THEN 1 ELSE 0
  BY DEF HuntByte, DashHunt, FlashHunt, AskHunt, OgHunt, SenderHunt, BridgeHunt, SpeedHunt, Hunt
<1>4. uart' \in 0 .. 4
  BY <1>1, <1>3
<1> QED
  BY <1>1, <1>2, <1>3, <1>4, Sizes DEF ReaderInv, Bound, Text, Reading

\* The byte after a preamble.
LEMMA TypeStep ==
    ASSUME ReaderInv, UNCHANGED program, NEW v, NEW intact \in BOOLEAN,
           swallow = 0, TypeByte(v, intact)
    PROVE  /\ ReaderInv' /\ uart = 4 /\ ~Reading /\ ~Text /\ UNCHANGED <<got, delivered, sure>>
           /\ v \in TypesOf(program) =>
                /\ Reading' /\ type' = v /\ length' = Unread /\ got' = 0 /\ ~missed'
                /\ swallow' = 0 /\ aligned' = (intact /\ next = 5)
           /\ v \notin TypesOf(program) =>
                /\ ~Reading' /\ aligned' = aligned
                /\ program = "dash" => uart' = 0 /\ swallow' = Tap
                /\ program = "sender" => uart' = 0 /\ swallow' = 0
                /\ program \in {"flash", "ask", "og"} => uart' = 4 /\ swallow' = 0
<1>1. /\ uart = 4 /\ ~Reading /\ program \notin TextReaders
      /\ UNCHANGED <<length, got, missed, sure, delivered>>
  BY DEF TypeByte
<1>2. program \in Framed /\ ~Text /\ got = 0 /\ length = Unread /\ ~missed /\ todo = <<>>
  BY <1>1 DEF ReaderInv, Programs, Framed, Text
<1>3. DOMAIN Branches[program] = TypesOf(program)
  BY <1>2, BranchesSound
<1>4. CASE v \in TypesOf(program)
  <2>1. /\ type' = v /\ todo' = <<LenSize>> /\ aligned' = (intact /\ next = 5)
        /\ UNCHANGED <<uart, swallow>>
    BY <1>3, <1>4 DEF TypeByte
  <2>2. Reading'
    BY <2>1, <1>4, TypesAreTypes DEF Reading
  <2>3. Plan(todo') /\ Head(todo') = LenSize
    BY <2>1, OneRead, Sizes
  <2>4. ReaderInv'
    BY <1>1, <1>2, <1>4, <2>1, <2>2, <2>3, Sizes DEF ReaderInv, Bound, Text
  <2> QED
    BY <1>1, <1>2, <1>4, <2>1, <2>2, <2>4
<1>5. CASE v \notin TypesOf(program)
  <2>1. /\ UNCHANGED <<type, todo, aligned>>
        /\ DashUnknown(v) \/ FlashUnknown(v) \/ AskUnknown(v) \/ OgUnknown(v) \/ SenderUnknown(v)
    BY <1>3, <1>5 DEF TypeByte
  <2>2. ~Reading'
    BY <2>1, <1>1 DEF Reading
  <2>3. /\ program = "dash" => uart' = 0 /\ swallow' = Tap
        /\ program = "sender" => uart' = 0 /\ swallow' = 0
        /\ program \in {"flash", "ask", "og"} => uart' = 4 /\ swallow' = 0
    BY <2>1, <1>1 DEF DashUnknown, FlashUnknown, AskUnknown, OgUnknown, SenderUnknown
  <2>4. program = "dash" \/ program = "sender" \/ program \in {"flash", "ask", "og"}
    BY <1>2 DEF Framed, Receivers
  <2>5. ReaderInv'
    BY <1>1, <1>2, <2>1, <2>2, <2>3, <2>4, Sizes DEF ReaderInv, Bound, Text
  <2> QED
    BY <1>1, <1>2, <1>5, <2>1, <2>2, <2>3, <2>5
<1> QED
  BY <1>4, <1>5

\* A read, or a frame, is over.
LEMMA StopStep ==
    ASSUME ReaderInv, UNCHANGED program, (swallow \in 0 .. Bound)', delivered' \in BOOLEAN,
           Reading, NEW state \in {0, 4}, swallow' = 0 \/ state = 0, StopReading(state)
    PROVE  ReaderInv' /\ ~Reading' /\ uart' = state /\ ~aligned' /\ ~sure'
<1>1. /\ uart' = state /\ type' = "none" /\ length' = Unread /\ todo' = <<>> /\ got' = 0
      /\ missed' = FALSE /\ aligned' = FALSE /\ sure' = FALSE
  BY DEF StopReading
<1>2. ~Reading'
  BY <1>1 DEF Reading
<1>3. uart' \in 0 .. 4 /\ got' \in 0 .. TextBuf - 1
  BY <1>1, Sizes
<1>4. program' \in Programs /\ length' \in Lengths \cup {Unread}
  BY <1>1 DEF ReaderInv
<1>5. missed' \in BOOLEAN /\ aligned' \in BOOLEAN /\ sure' \in BOOLEAN /\ ~missed'
      /\ ~aligned' /\ ~sure'
  BY <1>1, Zenon
<1>6. swallow' > 0 => uart' = 0
  BY <1>1
<1> QED
  BY <1>1, <1>2, <1>3, <1>4, <1>5, <1>6, Zenon DEF ReaderInv

\* Bytes that the reads under way still lack.
Missing == Total(todo) - got

\* A byte that a read takes.
LEMMA FieldStep ==
    ASSUME ReaderInv, LineInv, UNCHANGED program, NEW intact \in BOOLEAN, FieldByte(intact)
    PROVE  /\ ReaderInv' /\ Reading /\ Missing \in Nat /\ Missing > 0 /\ swallow = 0 /\ ~Text
           /\ \/ /\ Reading' /\ UNCHANGED <<uart, type, length, missed, swallow, sure, delivered>>
                 /\ aligned' = (aligned /\ intact)
                 /\ length = Unread => got' = got + 1 /\ got' < LenSize
                 /\ length # Unread => Missing' = Missing - 1 /\ Missing > 1
              \/ /\ length = Unread /\ got = LenSize - 1 /\ Reading'
                 /\ \/ aligned /\ intact /\ aligned' /\ sure' /\ length' = frame.length
                    \/ ~(aligned /\ intact) /\ ~aligned' /\ ~sure'
                 /\ UNCHANGED <<uart, type, missed, swallow, delivered>>
                 /\ length' \in This.accepts /\ Missing' = Total(This.reads[length'])
              \/ /\ length = Unread /\ got = LenSize - 1 /\ ~Reading' /\ uart' = 0
                 /\ ~aligned' /\ ~sure' /\ delivered' = delivered
                 /\ aligned /\ intact => frame.length \notin This.accepts
                 /\ program = "dash" => swallow' = 0
              \/ /\ length # Unread /\ Missing = 1 /\ ~Reading' /\ ~aligned' /\ ~sure'
                 /\ program \in {"dash", "sender"} => uart' = 0
                 /\ delivered' = (delivered \/ (aligned /\ intact /\ ~missed))
                 /\ swallow' = 0
<1> DEFINE true == aligned /\ intact
<1>0. /\ Reading /\ swallow = 0 /\ Plan(todo) /\ got \in Nat /\ got < Head(todo)
      /\ program \in Framed /\ uart = 4 /\ type \in TypesOf(program)
      /\ length = Unread => todo = <<LenSize>>
      /\ ~Text /\ SoundBranch(program, type, This) /\ type # "none"
  BY Dispatch DEF FieldByte, ReaderInv, Bound
<1>1. Missing \in Nat /\ Missing > 0 /\ Head(todo) \in Nat /\ Total(todo) \in Nat
  <2>1. /\ Head(todo) \in Nat \ {0} /\ Total(todo) \in Nat
        /\ Len(todo) = 1 => Total(todo) = Head(todo)
        /\ Len(todo) = 1 \/ Total(todo) > Head(todo)
    BY <1>0, FirstOnly
  <2> QED
    BY <1>0, <2>1 DEF Missing
<1>2. length = Unread => Head(todo) = LenSize
  BY <1>0
<1>3. CASE /\ got + 1 < Head(todo) /\ got' = got + 1 /\ aligned' = true
           /\ UNCHANGED <<uart, type, length, todo, missed, swallow, sure, delivered>>
  <2>1. Reading' /\ Missing' = Missing - 1
    BY <1>0, <1>1, <1>3 DEF Reading, Missing
  <2>2. Missing > 1
    <3>1. Total(todo) >= Head(todo)
      BY <1>0, FirstOnly
    <3> QED
      BY <1>0, <1>1, <1>3, <3>1 DEF Missing
  <2>3. ReaderInv'
    BY <1>0, <1>1, <1>3, <2>1 DEF ReaderInv, Bound, Text
  <2> QED
    BY <1>0, <1>1, <1>2, <1>3, <2>1, <2>2, <2>3
<1>4. CASE /\ got + 1 = Head(todo) /\ length = Unread
           /\ \E n \in IF true THEN {frame.length} ELSE Misread : LengthRead(n, true)
  <2>1. PICK n \in IF true THEN {frame.length} ELSE Misread : LengthRead(n, true)
    BY <1>4
  <2>2. got = LenSize - 1 /\ (true => n = frame.length)
    BY <1>0, <1>2, <1>4, <2>1, Sizes
  <2>3. CASE n \in This.accepts
    <3>1. /\ length' = n /\ todo' = This.reads[n] /\ got' = 0
          /\ aligned' = true /\ sure' = true
          /\ UNCHANGED <<uart, type, missed, swallow, delivered>>
      BY <2>1, <2>3 DEF LengthRead
    <3>2. n \in Lengths /\ Plan(This.reads[n]) /\ n # Unread
      BY <1>0, <2>3, Sizes DEF SoundBranch, Lengths, Unread
    <3>3. Head(todo') \in Nat \ {0} /\ Total(todo') \in Nat
      BY <3>1, <3>2, FirstOnly
    <3>4. Reading' /\ Missing' = Total(This.reads[length'])
      BY <1>0, <3>1, <3>3 DEF Reading, Missing
    <3>5. ReaderInv'
      BY <1>0, <3>1, <3>2, <3>3, <3>4 DEF ReaderInv, Bound, Text
    <3> QED
      BY <1>0, <1>1, <1>4, <2>2, <2>3, <3>1, <3>4, <3>5
  <2>4. CASE n \notin This.accepts
    <3>1. /\ StopReading(0) /\ UNCHANGED delivered
          /\ swallow' = IF program = "sender" /\ type = "HS1" THEN Fifo ELSE 0
      BY <2>1, <2>4 DEF LengthRead, RefuseLength
    <3>2. ~Reading' /\ uart' = 0 /\ ~aligned' /\ ~sure' /\ (swallow \in 0 .. Bound)'
      BY <3>1, Sizes DEF StopReading, Reading, Bound
    <3>3. ReaderInv'
      BY <1>0, <3>1, <3>2, StopStep DEF ReaderInv
    <3> QED
      BY <1>0, <1>1, <1>4, <2>2, <2>4, <3>1, <3>2, <3>3
  <2> QED
    BY <2>3, <2>4
<1>5. CASE /\ got + 1 = Head(todo) /\ length # Unread /\ Len(todo) > 1
           /\ todo' = Tail(todo) /\ got' = 0 /\ aligned' = true
           /\ UNCHANGED <<uart, type, length, missed, swallow, sure, delivered>>
  <2>1. Plan(todo') /\ Total(todo') = Total(todo) - Head(todo)
    BY <1>0, <1>5, WithoutFirst
  <2>2. Head(todo') \in Nat \ {0} /\ Total(todo') \in Nat
        /\ Total(todo) > Head(todo)
    BY <1>0, <1>5, <2>1, FirstOnly
  <2>3. Reading' /\ Missing' = Missing - 1 /\ Missing > 1
    BY <1>0, <1>1, <1>5, <2>1, <2>2 DEF Reading, Missing
  <2>4. ReaderInv'
    BY <1>0, <1>5, <2>1, <2>2, <2>3 DEF ReaderInv, Bound, Text
  <2> QED
    BY <1>0, <1>1, <1>5, <2>3, <2>4
<1>6. CASE got + 1 = Head(todo) /\ length # Unread /\ Len(todo) = 1 /\ FrameRead(true)
  <2> DEFINE state == IF (true \/ ~This.guarded) /\ ~missed THEN This.after ELSE 0
  <2>1. /\ StopReading(state) /\ UNCHANGED swallow
        /\ delivered' = (delivered \/ (true /\ ~missed))
    BY <1>6 DEF FrameRead
  <2>2. state \in {0, 4} /\ (program \in {"dash", "sender"} => state = 0)
    BY <1>0 DEF SoundBranch
  <2>3. uart' = state /\ ~Reading' /\ ~aligned' /\ ~sure' /\ (swallow \in 0 .. Bound)'
    BY <1>0, <2>1, Sizes DEF StopReading, Reading, Bound
  <2>4. Missing = 1
    BY <1>0, <1>1, <1>6, FirstOnly DEF Missing
  <2>5. delivered' \in BOOLEAN
    BY <2>1
  <2>6. ReaderInv'
    BY <1>0, <2>1, <2>2, <2>3, <2>5, StopStep
  <2> QED
    BY <1>0, <1>1, <1>6, <2>1, <2>2, <2>3, <2>4, <2>6
<1> QED
  BY <1>3, <1>4, <1>5, <1>6 DEF FieldByte

LEMMA TextStep ==
    ASSUME ReaderInv, UNCHANGED program, NEW v, NEW intact \in BOOLEAN, swallow = 0,
           BridgeText(v, intact) \/ SpeedText(v, intact)
    PROVE  /\ ReaderInv' /\ Text /\ ~Reading /\ ~Reading' /\ uart = 4 /\ swallow' = 0
           /\ v = "NL" \/ got = TextBuf - 1 =>
                 /\ uart' = 0 /\ ~aligned'
                 /\ delivered' = (delivered \/ (v = "NL" /\ aligned /\ intact))
           /\ v # "NL" /\ got # TextBuf - 1 =>
                 /\ uart' = 4 /\ got' = got + 1 /\ aligned' = (aligned /\ intact)
                 /\ delivered' = delivered
<1>1. Text /\ TextByte(v, intact)
  BY DEF BridgeText, SpeedText, Text, TextReaders
<1>2. ~Reading /\ uart = 4 /\ UNCHANGED <<type, length, todo, missed, swallow, sure>>
  BY <1>1 DEF TextByte, ReaderInv, Text, Framed, Receivers, TextReaders
<1>3. ~Reading'
  BY <1>2 DEF Reading
<1>4. CASE v = "NL" \/ got = TextBuf - 1
  <2>1. /\ uart' = 0 /\ got' = 0 /\ aligned' = FALSE
        /\ delivered' = (delivered \/ (v = "NL" /\ aligned /\ intact))
    BY <1>1, <1>4 DEF TextByte
  <2>2. delivered' \in BOOLEAN /\ aligned' \in BOOLEAN
    BY <2>1
  <2>3. ReaderInv'
    BY <1>2, <1>3, <2>1, <2>2, Sizes DEF ReaderInv, Bound, Text
  <2> QED
    BY <1>1, <1>2, <1>3, <1>4, <2>1, <2>3
<1>5. CASE v # "NL" /\ got # TextBuf - 1
  <2>1. /\ got' = got + 1 /\ aligned' = (aligned /\ intact) /\ UNCHANGED <<uart, delivered>>
    BY <1>1, <1>5 DEF TextByte
  <2>2. aligned' \in BOOLEAN
    BY <2>1
  <2>3. got' \in 0 .. TextBuf - 1
    BY <1>2, <1>5, <2>1, Sizes DEF ReaderInv
  <2>4. ReaderInv'
    BY <1>1, <1>2, <1>3, <2>1, <2>2, <2>3, Sizes DEF ReaderInv, Bound, Text
  <2> QED
    BY <1>1, <1>2, <1>3, <1>5, <2>1, <2>4
<1> QED
  BY <1>4, <1>5

LEMMA SwallowStep ==
    ASSUME ReaderInv, UNCHANGED program, SwallowByte
    PROVE  /\ ReaderInv' /\ swallow > 0 /\ swallow' = swallow - 1 /\ swallow \in Nat
           /\ ~Reading /\ ~Reading' /\ uart = 0 /\ UNCHANGED <<uart, sure, delivered, aligned>>
<1>1. /\ swallow > 0 /\ swallow' = swallow - 1
      /\ UNCHANGED <<uart, type, length, todo, got, missed, aligned, sure, delivered>>
  BY DEF SwallowByte
<1>2. ~Reading /\ uart = 0 /\ swallow \in Nat /\ ~Reading'
  BY <1>1, Sizes DEF ReaderInv, Reading, Bound
<1>3. (swallow \in 0 .. Bound)'
  BY <1>1, <1>2, Sizes DEF ReaderInv, Bound
<1> QED
  BY <1>1, <1>2, <1>3 DEF ReaderInv, Text

\* The byte stream stops for the time of a read.
LEMMA ExpireStep ==
    ASSUME ReaderInv, UNCHANGED program, ReadExpires
    PROVE  /\ ReaderInv' /\ Reading
           /\ \/ /\ Reading' /\ UNCHANGED <<uart, type, length, swallow, aligned, sure, delivered>>
                 /\ length # Unread /\ Missing \in Nat /\ Missing' \in Nat /\ Missing' <= Missing
              \/ ~Reading' /\ uart' = 0 /\ ~aligned' /\ ~sure' /\ UNCHANGED <<swallow, delivered>>
<1>1. /\ Reading /\ UNCHANGED <<swallow, delivered>> /\ Plan(todo) /\ got \in Nat
      /\ got < Head(todo) /\ type # "none" /\ swallow = 0
  BY Dispatch, Sizes DEF ReadExpires, ReaderInv, Bound
<1>2. CASE /\ length # Unread /\ Len(todo) > 1 /\ missed' = TRUE
           /\ todo' = Tail(todo) /\ got' = 0 /\ UNCHANGED <<uart, type, length, aligned, sure>>
  <2>1. /\ Plan(todo') /\ Total(todo') = Total(todo) - Head(todo)
    BY <1>1, <1>2, WithoutFirst
  <2>2. /\ Head(todo) \in Nat \ {0} /\ Total(todo) \in Nat /\ Total(todo) > Head(todo)
        /\ Head(todo') \in Nat \ {0} /\ Total(todo') \in Nat /\ todo' # <<>>
    BY <1>1, <1>2, <2>1, FirstOnly
  <2>3. Reading' /\ Missing \in Nat /\ Missing' \in Nat /\ Missing' <= Missing
    BY <1>1, <1>2, <2>1, <2>2 DEF Reading, Missing
  <2>4. ReaderInv'
    BY <1>1, <1>2, <2>1, <2>2, <2>3 DEF ReaderInv, Bound, Text
  <2> QED
    BY <1>1, <1>2, <2>3, <2>4
<1>3. CASE StopReading(0)
  <2>1. (swallow \in 0 .. Bound)' /\ delivered' \in BOOLEAN
    BY <1>1 DEF ReaderInv, Bound
  <2> QED
    BY <1>1, <1>3, <2>1, StopStep
<1> QED
  BY <1>2, <1>3 DEF ReadExpires

LEMMA TapStep ==
    ASSUME ReaderInv, UNCHANGED program, swallow > 0, swallow' = 0,
           UNCHANGED <<uart, type, length, todo, got, missed, aligned, sure, delivered>>
    PROVE  ReaderInv' /\ ~Reading /\ ~Reading' /\ uart = 0
<1>1. ~Reading /\ uart = 0 /\ ~Reading'
  BY DEF ReaderInv, Reading
<1> QED
  BY <1>1, Sizes DEF ReaderInv, Bound, Text

-----------------------------------------------------------------------------
(* Reader and line. *)

\* Bytes that the frame on the line still has.
Left == IF next = 0 THEN 0 ELSE Size(frame) + 1 - next

\* An aligned read lacks exactly what is left of the frame.
AlignedInv ==
    aligned /\ Reading =>
        /\ ~missed /\ type = frame.type /\ next > 0
        /\ length = Unread => next = 6 + got
        /\ length # Unread => length = frame.length /\ Missing = Left

\* A read with a true length lacks at most what is left and what was lost.
SureInv == sure => Reading /\ length # Unread /\ Missing <= lost + Left

Recovering == program \in {"dash", "sender"} \cup TextReaders
Known == program = "og" => frame.type # "HS2"

\* The frame is followed byte by byte.
OnTrack ==
    /\ next = 0 => delivered /\ (Recovering => ~Reading /\ swallow = 0 /\ uart = 0)
    /\ next > 0 => swallow = 0
    /\ Text => /\ next = 1 => uart = 0
               /\ next \in 2 .. 5 => uart = next - 1
               /\ next > 5 => uart = 4
               /\ next > 4 => aligned /\ got = next - 5
    /\ ~Text => /\ next \in 1 .. 5 => ~Reading
                /\ next = 1 => \/ uart = 0
                               \/ uart < 4 /\ program \in {"dash", "sender"}
                               \/ uart = 4 /\ program \in {"flash", "ask", "og"}
                /\ next \in 2 .. 5 => uart = next - 1 \/ (uart = 4 /\ program \in {"flash", "ask", "og"})
                /\ next > 5 => Reading /\ aligned

ReadyInv == whole /\ begun = "ready" /\ Known => OnTrack

\* What was under way when the frame began ends before the frame does, and
\* the hunt that comes after it meets no whole preamble.
Outlived ==
    /\ ~Text => /\ Reading => aligned \/ (sure /\ next > 0 /\ Missing + next <= Size(frame))
                /\ swallow > 0 => next > 0 /\ swallow + next <= Size(frame)
                /\ ~Reading /\ swallow = 0 /\ next # 1 =>
                      IF next \in 2 .. 5 THEN uart = 0 \/ uart = next - 1 ELSE uart = 0 \/ uart = 1
    /\ Text => /\ next = 0 => uart = 0
               /\ next = 1 => uart # 0
               /\ next > 1 => uart = 0 \/ uart = 4

LateInv == whole /\ begun = "late" /\ Recovering => Outlived

\* A whole frame leaves the program ready for the one that comes after it.
HeirInv == heir /\ Recovering => begun = "ready"

\* The inductive invariant.
FramingInv == ReaderInv /\ LineInv /\ AlignedInv /\ SureInv /\ ReadyInv /\ LateInv /\ HeirInv

-----------------------------------------------------------------------------
\* What a byte does to the line: it is the frame's next, it takes its place, or
\* it comes in between.
LineStep(intact) ==
    /\ UNCHANGED <<program, frame, begun, heir>>
    /\ \/ next > 0 /\ Advance /\ intact /\ UNCHANGED <<faults, whole>>
       \/ next > 0 /\ Advance /\ ~intact /\ Fault
       \/ next' = next /\ ~intact /\ Fault
    /\ CountLost \/ (~intact /\ lost' = IF sure THEN lost + 1 ELSE 0)

LEMMA LineMoves ==
    ASSUME ReaderInv, LineInv, NEW intact \in BOOLEAN, LineStep(intact)
    PROVE  /\ LineInv' /\ Left \in Nat /\ Left' \in Nat /\ lost \in Nat /\ lost' \in Nat
           /\ intact => /\ next > 0 /\ Left' = Left - 1 /\ whole' = whole
                        /\ next' = IF next = Size(frame) THEN 0 ELSE next + 1
           /\ ~intact => ~whole'
           /\ Left' >= Left - 1
<1>1. Size(frame) \in Nat /\ Size(frame) > 5 /\ next \in 0 .. Size(frame)
      /\ faults \in 0 .. MaxFaults /\ lost \in 0 .. faults
  BY FrameFacts DEF LineInv, ReaderInv
<1>2. Left \in Nat
  BY <1>1 DEF Left
<1>3. UNCHANGED <<program, frame, begun, heir>>
  BY DEF LineStep
<1>4. ASSUME next > 0, Advance
      PROVE  next' \in 0 .. Size(frame) /\ Left' = Left - 1 /\ Left > 0
             /\ next' = IF next = Size(frame) THEN 0 ELSE next + 1
  <2>1. next' = IF next = Size(frame) THEN 0 ELSE next + 1
    BY <1>4 DEF Advance
  <2>2. Left = Size(frame) + 1 - next
    BY <1>4, <1>1 DEF Left
  <2>3. CASE next = Size(frame)
    BY <1>1, <1>3, <2>1, <2>2, <2>3 DEF Left
  <2>4. CASE next # Size(frame)
    <3>1. next' = next + 1 /\ next' # 0
      BY <1>1, <2>1, <2>4
    <3>2. Left' = Size(frame) + 1 - next'
      BY <3>1, <1>3 DEF Left
    <3> QED
      BY <1>1, <1>4, <2>1, <2>2, <2>4, <3>1, <3>2
  <2> QED
    BY <2>3, <2>4
<1>5. Fault => faults' = faults + 1 /\ faults' \in 0 .. MaxFaults /\ whole' = FALSE
  BY <1>1, Sizes DEF Fault
<1>6. next' = next => Left' = Left
  BY <1>3 DEF Left
<1>7. Traffic' = Traffic
  BY <1>3 DEF Traffic
<1>11. \/ lost' = 0 \/ lost' = lost
       \/ ~intact /\ lost' = lost + 1
  BY DEF LineStep, CountLost
<1>12. ASSUME Fault PROVE lost' \in 0 .. faults'
  BY <1>1, <1>5, <1>11, <1>12
<1>8. CASE next > 0 /\ Advance /\ intact /\ UNCHANGED <<faults, whole>>
  <2>1. LineInv'
    BY <1>1, <1>3, <1>4, <1>7, <1>8, <1>11 DEF LineInv
  <2> QED
    BY <1>1, <1>2, <1>4, <1>8, <1>11, <2>1
<1>9. CASE next > 0 /\ Advance /\ ~intact /\ Fault
  <2>1. LineInv'
    BY <1>3, <1>4, <1>5, <1>7, <1>9, <1>12 DEF LineInv
  <2> QED
    BY <1>1, <1>2, <1>4, <1>5, <1>9, <1>11, <2>1
<1>10. CASE next' = next /\ ~intact /\ Fault
  <2>1. LineInv'
    BY <1>1, <1>3, <1>5, <1>7, <1>10, <1>12 DEF LineInv
  <2> QED
    BY <1>1, <1>2, <1>5, <1>6, <1>10, <1>11, <2>1
<1> QED
  BY <1>8, <1>9, <1>10 DEF LineStep

LEMMA ReceiveKeepsReader ==
    ASSUME ReaderInv, LineInv, UNCHANGED program, NEW v, NEW intact \in BOOLEAN, Receive(v, intact)
    PROVE  ReaderInv'
BY SwallowStep, HuntStep, TypeStep, FieldStep, TextStep DEF Receive

\* The frame on the line, once its length is in.
LEMMA LengthIsSent ==
    ASSUME ReaderInv, LineInv, Reading, type = frame.type
    PROVE  /\ frame.length \in This.accepts
           /\ Total(This.reads[frame.length]) = Size(frame) - 5 - LenSize
           /\ Size(frame) \in Nat /\ Size(frame) > 5 + LenSize
<1>1. SoundBranch(program, type, This) /\ ~Text
  BY Dispatch
<1>2. /\ frame.length \in This.accepts
      /\ Total(This.reads[frame.length]) = Body(frame.type, frame.length)
  BY <1>1 DEF SoundBranch, LineInv
<1>3. /\ Size(frame) = 5 + LenSize + Body(frame.type, frame.length) /\ Size(frame) \in Nat
      /\ Size(frame) > 5 + LenSize /\ Body(frame.type, frame.length) \in Nat
  BY <1>1, FrameFacts DEF LineInv, ReaderInv
<1> QED
  BY <1>2, <1>3, Sizes

LEMMA BytesSent ==
    ASSUME ReaderInv, LineInv, next > 0, NEW v \in Bytes(frame, next)
    PROVE  /\ next <= 4 => v = Preamble[next]
           /\ Text /\ next > 4 => v = IF next = Size(frame) THEN "NL" ELSE "data"
           /\ ~Text /\ next = 5 => v = frame.type
           /\ ~Text /\ next > 4 => v \notin {"P2", "P3", "P4"}
<1>1. /\ Text => frame.type = "TEXT"
      /\ ~Text => frame.type \in {"KEY_ID", "HS2", "ENC", "HS1", "HS3", "KEY"}
      /\ next \in Nat
  BY FrameFacts DEF LineInv, ReaderInv
<1>2. ~Text => Traffic \subseteq {"KEY_ID", "HS2", "ENC", "HS1", "HS3", "KEY"}
  BY DEF Traffic, Text, ReaderInv, Programs
<1>3. next <= 4 => v = Preamble[next]
  BY <1>1 DEF Bytes
<1>4. Text /\ next > 4 => v = IF next = Size(frame) THEN "NL" ELSE "data"
  BY <1>1 DEF Bytes
<1>5. ~Text /\ next = 5 => v = frame.type
  BY <1>1 DEF Bytes
<1>6. ~Text /\ next > 5 => v \in {"data", "P1"} \cup Traffic
  BY <1>1 DEF Bytes
<1> QED
  BY <1>1, <1>2, <1>3, <1>4, <1>5, <1>6

-----------------------------------------------------------------------------
(* Each part of the invariant survives a byte. *)

Intact(v, intact) == intact => next > 0 /\ v \in Bytes(frame, next)

LEMMA ByteKeepsAligned ==
    ASSUME ReaderInv, LineInv, AlignedInv, NEW v, NEW intact \in BOOLEAN, Intact(v, intact),
           Receive(v, intact), LineStep(intact)
    PROVE  AlignedInv'
<1>1. UNCHANGED <<program, frame>>
  BY DEF LineStep
<1> SUFFICES ASSUME aligned', Reading'
             PROVE  /\ ~missed' /\ type' = frame.type /\ next' > 0
                    /\ length' = Unread => next' = 6 + got'
                    /\ length' # Unread => length' = frame.length /\ Missing' = Left'
  BY <1>1 DEF AlignedInv
<1>2. /\ LineInv' /\ Left \in Nat /\ Left' \in Nat
      /\ intact => /\ next > 0 /\ Left' = Left - 1
                   /\ next' = IF next = Size(frame) THEN 0 ELSE next + 1
  BY LineMoves
<1>3. Size(frame) \in Nat /\ Size(frame) > 5 /\ next \in 0 .. Size(frame)
      /\ (~Text => Size(frame) > 5 + LenSize)
  BY FrameFacts DEF LineInv, ReaderInv
<1>4. CASE SwallowByte
  BY <1>1, <1>4, SwallowStep
<1>5. CASE swallow = 0 /\ HuntByte(v, intact)
  BY <1>1, <1>5, HuntStep
<1>6. CASE swallow = 0 /\ TypeByte(v, intact)
  <2>1. /\ ~Text /\ v \in TypesOf(program) /\ type' = v /\ length' = Unread /\ got' = 0 /\ ~missed'
        /\ intact /\ next = 5
    BY <1>1, <1>6, TypeStep
  <2>2. v = frame.type
    BY <2>1, BytesSent DEF Intact
  <2> QED
    BY <1>2, <1>3, <2>1, <2>2, Sizes
<1>7. CASE FieldByte(intact)
  <2>0. Reading /\ Missing \in Nat /\ ~Text /\ got \in Nat
    BY <1>1, <1>7, FieldStep DEF ReaderInv
  <2>1. CASE /\ UNCHANGED <<uart, type, length, missed>> /\ aligned' = (aligned /\ intact)
             /\ length = Unread => got' = got + 1 /\ got' < LenSize
             /\ length # Unread => Missing' = Missing - 1 /\ Missing > 1
    <3>1. /\ aligned /\ intact /\ ~missed /\ type = frame.type
          /\ length = Unread => next = 6 + got
          /\ length # Unread => length = frame.length /\ Missing = Left
      BY <2>0, <2>1 DEF AlignedInv
    <3>2. CASE length = Unread
      BY <1>2, <1>3, <2>0, <2>1, <3>1, <3>2, Sizes
    <3>3. CASE length # Unread
      <4>1. Left' = Left - 1 /\ Left > 1
        BY <1>2, <2>1, <3>1, <3>3
      <4>2. next' > 0
        BY <1>1, <1>2, <1>3, <4>1, <3>1 DEF Left
      <4> QED
        BY <2>1, <3>1, <3>3, <4>1, <4>2
    <3> QED
      BY <3>2, <3>3
  <2>2. CASE /\ length = Unread /\ got = LenSize - 1
             /\ aligned /\ intact /\ length' = frame.length
             /\ UNCHANGED <<uart, type, missed>> /\ Missing' = Total(This.reads[length'])
    <3>1. ~missed /\ type = frame.type /\ next = 5 + LenSize
      BY <2>0, <2>2, Sizes DEF AlignedInv
    <3>2. Missing' = Size(frame) - 5 - LenSize
      BY <2>0, <2>2, <3>1, LengthIsSent
    <3>3. next' = 6 + LenSize
      BY <1>2, <1>3, <2>0, <2>2, <3>1, Sizes
    <3>4. Left' = Size(frame) + 1 - next'
      BY <1>1, <3>3, Sizes DEF Left
    <3>5. length' # Unread
      BY Sizes, <2>0, <2>2, FrameFacts DEF LineInv, ReaderInv, Lengths, Unread
    <3> QED
      BY <1>3, <2>2, <3>1, <3>2, <3>3, <3>4, <3>5, Sizes
  <2> QED
    BY <1>1, <1>7, <2>1, <2>2, FieldStep
<1>8. CASE swallow = 0 /\ (BridgeText(v, intact) \/ SpeedText(v, intact))
  BY <1>1, <1>8, TextStep
<1> QED
  BY <1>4, <1>5, <1>6, <1>7, <1>8 DEF Receive

LEMMA StillEnough ==
    ASSUME NEW m \in Nat, NEW a \in Nat, NEW b \in Nat, NEW c \in Nat, NEW d \in Nat,
           c + d >= a + b - 1, m <= a + b
    PROVE  m - 1 <= c + d
OBVIOUS

LEMMA MovedOn ==
    ASSUME NEW a \in Nat, NEW b \in Nat, NEW c \in Nat, NEW d \in Nat, d >= b - 1
    PROVE  /\ c = a => c + d >= a + b - 1
           /\ c = a + 1 => c + d >= a + b
OBVIOUS

LEMMA AtMostStill ==
    ASSUME NEW m \in Int, NEW a \in Nat, NEW b \in Nat, NEW c \in Nat, NEW d \in Nat,
           c + d >= a + b, m <= a + b
    PROVE  m <= c + d
OBVIOUS

LEMMA AtMostAlso ==
    ASSUME NEW n \in Nat, NEW m \in Nat, NEW a \in Nat, n <= m, m <= a + 0
    PROVE  n <= a /\ n <= a + 0
OBVIOUS

LEMMA ByteKeepsSure ==
    ASSUME ReaderInv, LineInv, AlignedInv, SureInv, NEW v, NEW intact \in BOOLEAN,
           Intact(v, intact), Receive(v, intact), LineStep(intact), CountLost
    PROVE  SureInv'
<1>1. UNCHANGED <<program, frame>>
  BY DEF LineStep
<1> SUFFICES ASSUME sure'
             PROVE  Reading' /\ length' # Unread /\ Missing' <= lost' + Left'
  BY DEF SureInv
<1>2. /\ Left \in Nat /\ Left' \in Nat /\ lost \in Nat /\ lost' \in Nat
      /\ lost' + Left' >= lost + Left - 1
      /\ AlignedInv'
  <2>1. /\ Left \in Nat /\ Left' \in Nat /\ lost \in Nat /\ lost' \in Nat /\ Left' >= Left - 1
        /\ AlignedInv'
    BY LineMoves, ByteKeepsAligned
  <2>2. lost' = lost
    BY DEF CountLost
  <2>3. lost' + Left' >= lost + Left - 1
    BY <2>1, <2>2, MovedOn
  <2> QED
    BY <2>1, <2>3
<1>3. CASE ~FieldByte(intact)
  <2>1. sure' = sure /\ ~Reading
    BY <1>1, <1>3, SwallowStep, HuntStep, TypeStep, TextStep DEF Receive, TextByte, BridgeText, SpeedText
  <2> QED
    BY <2>1 DEF SureInv
<1>4. CASE FieldByte(intact)
  <2>1. CASE /\ Reading' /\ UNCHANGED <<uart, type, length, missed, swallow, sure, delivered>>
             /\ length # Unread => Missing' = Missing - 1 /\ Missing > 1
    <3>1. Missing \in Nat
      BY <1>1, <1>4, FieldStep
    <3>2. sure /\ length # Unread /\ Missing <= lost + Left /\ length' = length
      BY <2>1 DEF SureInv
    <3>3. Missing' = Missing - 1 /\ Reading' /\ length' # Unread
      BY <2>1, <3>2
    <3>4. Missing - 1 <= lost' + Left'
      BY <1>2, <3>1, <3>2, StillEnough
    <3> QED
      BY <3>3, <3>4
  <2>2. CASE aligned' /\ Reading' /\ length' \in This.accepts
    <3>1. length' # Unread
      <4>1. Reading
        BY <1>4 DEF FieldByte
      <4>2. This.accepts \subseteq Lengths
        BY <4>1, Dispatch DEF SoundBranch
      <4> QED
        BY <2>2, <4>2, Sizes DEF Lengths, Unread
    <3>2. Missing' = Left'
      BY <1>2, <2>2, <3>1 DEF AlignedInv
    <3> QED
      BY <1>2, <2>2, <3>1, <3>2
  <2> QED
    BY <1>1, <1>4, <2>1, <2>2, FieldStep
<1> QED
  BY <1>3, <1>4

\* A frame that goes well: its next byte takes it further.
LEMMA ByteKeepsReady ==
    ASSUME ReaderInv, LineInv, AlignedInv, ReadyInv, NEW v, NEW intact \in BOOLEAN,
           Intact(v, intact), Receive(v, intact), LineStep(intact)
    PROVE  ReadyInv'
<1>1. UNCHANGED <<program, frame, begun, heir>>
  BY DEF LineStep
<1> SUFFICES ASSUME whole', begun' = "ready", Known'
             PROVE  OnTrack'
  BY DEF ReadyInv
<1>2. /\ LineInv' /\ ReaderInv' /\ Left \in Nat /\ intact /\ next > 0 /\ whole
      /\ next' = IF next = Size(frame) THEN 0 ELSE next + 1
  BY <1>1, LineMoves, ReceiveKeepsReader
<1>3. /\ Size(frame) \in Nat /\ Size(frame) > 5 /\ next \in 1 .. Size(frame)
      /\ (~Text => Size(frame) > 5 + LenSize)
      /\ Text => Size(frame) = 5 + frame.length /\ frame.length \in 1 .. TextBuf - 1
  BY <1>2, FrameFacts DEF LineInv, ReaderInv
<1>4. OnTrack /\ Known
  BY <1>1, <1>2 DEF ReadyInv, Known
<1>5. swallow = 0 /\ Text' = Text /\ (Recovering' <=> Recovering)
  BY <1>1, <1>2, <1>4 DEF OnTrack, Text, Recovering
<1>6. v \in Bytes(frame, next)
  BY <1>2 DEF Intact
<1>7. CASE HuntByte(v, intact)
  <2>1. /\ ~Reading /\ ~Reading' /\ uart < 4 /\ swallow' = 0 /\ got' = got
        /\ aligned' = (next = 4)
        /\ v = Preamble[uart + 1] => uart' = uart + 1
        /\ v # Preamble[uart + 1] =>
             uart' = IF v = "P1" /\ program \in {"dash", "sender"} THEN 1 ELSE 0
    BY <1>1, <1>2, <1>5, <1>7, HuntStep
  <2>2. next \in 1 .. 4 /\ (next > 1 => uart = next - 1)
    BY <1>3, <1>4, <2>1 DEF OnTrack
  <2>3. v = Preamble[next]
    BY <1>2, <1>6, <2>2, BytesSent
  <2>4. uart' = next
    <3>1. CASE next = 1
      <4>1. v = "P1"
        BY <2>3, <3>1 DEF Preamble
      <4>2. uart = 0 => v = Preamble[uart + 1]
        BY <4>1 DEF Preamble
      <4>3. uart \in 1 .. 3 => v # Preamble[uart + 1]
        BY <4>1 DEF Preamble
      <4>4. uart = 0 \/ (uart \in 1 .. 3 /\ program \in {"dash", "sender"})
        <5>1. uart \in 0 .. 4 /\ uart < 4
          BY <2>1 DEF ReaderInv
        <5>2. uart = 0 \/ program \in {"dash", "sender"}
          BY <1>4, <3>1, <5>1 DEF OnTrack
        <5> QED
          BY <5>1, <5>2
      <4> QED
        BY <2>1, <3>1, <4>1, <4>2, <4>3, <4>4
    <3>2. CASE next > 1
      BY <2>1, <2>2, <2>3, <3>2
    <3> QED
      BY <2>2, <3>1, <3>2
  <2>5. next' = next + 1 /\ next' \in 2 .. 5
    BY <1>2, <1>3, <2>2
  <2>8. next = 4 => aligned'
    BY <2>1, Zenon
  <2>9. got' = 0
    BY <2>1 DEF ReaderInv
  <2>6. next' > 4 => aligned' /\ got' = next' - 5
    BY <2>2, <2>5, <2>8, <2>9
  <2>7. next' \in 2 .. 5 /\ uart' = next' - 1 /\ next' # 0 /\ next' # 1 /\ ~(next' > 5) /\ next' > 0
    BY <2>2, <2>4, <2>5
  <2> QED
    BY <1>5, <2>1, <2>6, <2>7 DEF OnTrack
<1>8. CASE TypeByte(v, intact)
  <2>1. ~Text /\ uart = 4 /\ ~Reading /\ got' = got
    BY <1>1, <1>5, <1>8, TypeStep
  <2>2. next \in 1 .. 5 /\ (next < 5 => program \in {"flash", "ask", "og"})
    BY <1>3, <1>4, <2>1 DEF OnTrack
  <2>3. next' = next + 1
    BY <1>2, <1>3, <2>2
  <2>4. CASE next < 5
    <3>1. v \notin TypesOf(program)
      <4>1. v = Preamble[next] /\ next \in 1 .. 4
        BY <1>2, <1>6, <2>2, <2>4, BytesSent
      <4>2. v \in {"P1", "P2", "P3", "P4"}
        BY <4>1 DEF Preamble
      <4> QED
        BY <4>2, TypesAreTypes
    <3>2. ~Reading' /\ uart' = 4 /\ swallow' = 0
      BY <1>1, <1>5, <1>8, <2>2, <2>4, <3>1, TypeStep
    <3> QED
      BY <1>1, <1>5, <2>1, <2>2, <2>3, <2>4, <3>2 DEF OnTrack
  <2>5. CASE next = 5
    <3>1. v = frame.type
      BY <1>2, <1>6, <2>1, <2>5, BytesSent
    <3>2. v \in TypesOf(program)
      BY <1>4, <2>1, <3>1, FrameFacts DEF LineInv, ReaderInv, Known
    <3>3. Reading' /\ aligned' /\ swallow' = 0
      BY <1>1, <1>2, <1>5, <1>8, <2>5, <3>2, TypeStep
    <3> QED
      BY <1>1, <1>5, <2>1, <2>3, <2>5, <3>3 DEF OnTrack
  <2> QED
    BY <2>2, <2>4, <2>5
<1>9. CASE FieldByte(intact)
  <2>1. ~Text /\ Reading /\ Missing \in Nat /\ got \in Nat
    BY <1>1, <1>9, FieldStep DEF ReaderInv
  <2>2. next > 5 /\ aligned
    BY <1>3, <1>4, <2>1 DEF OnTrack
  <2>3. ~missed /\ type = frame.type /\ (length = Unread => next = 6 + got)
        /\ (length # Unread => Missing = Left)
    BY <2>1, <2>2 DEF AlignedInv
  <2>4. Left = Size(frame) + 1 - next
    BY <1>2 DEF Left
  <2>5. frame.length \in This.accepts
    BY <2>1, <2>3, LengthIsSent
  <2>6. CASE Reading' /\ aligned' /\ swallow' = 0 /\ next # Size(frame)
    <3>1. next' > 5
      BY <1>2, <1>3, <2>2, <2>6
    <3> QED
      BY <1>1, <1>3, <1>5, <2>1, <2>6, <3>1 DEF OnTrack
  <2>7. CASE ~Reading' /\ delivered' /\ swallow' = 0 /\ next = Size(frame)
             /\ (program \in {"dash", "sender"} => uart' = 0)
    <3>1. next' = 0
      BY <1>2, <2>7
    <3> QED
      BY <1>1, <1>5, <2>1, <2>7, <3>1 DEF OnTrack, Recovering, Text
  <2>8. length = Unread => next # Size(frame)
    BY <1>3, <2>1, <2>3, Sizes DEF ReaderInv
  <2>9. CASE /\ Reading' /\ aligned' = (aligned /\ intact) /\ swallow' = swallow
             /\ length # Unread => Missing > 1
    <3>1. length # Unread => next # Size(frame)
      BY <1>3, <2>3, <2>4, <2>9
    <3> QED
      BY <1>2, <1>5, <2>2, <2>6, <2>8, <2>9, <3>1
  <2>10. CASE /\ length = Unread /\ Reading' /\ swallow' = swallow
              /\ (aligned /\ intact /\ aligned') \/ ~(aligned /\ intact)
    BY <1>2, <1>5, <2>2, <2>6, <2>8, <2>10
  <2>11. CASE aligned /\ intact => frame.length \notin This.accepts
    BY <1>2, <2>2, <2>5, <2>11
  <2>12. CASE /\ length # Unread /\ Missing = 1 /\ ~Reading' /\ swallow' = 0
              /\ program \in {"dash", "sender"} => uart' = 0
              /\ delivered' = (delivered \/ (aligned /\ intact /\ ~missed))
    <3>1. next = Size(frame)
      BY <1>3, <2>3, <2>4, <2>12
    <3>2. delivered'
      BY <1>2, <2>2, <2>3, <2>12, Zenon
    <3> QED
      BY <2>7, <2>12, <3>1, <3>2
  <2> QED
    BY <1>1, <1>9, <2>9, <2>10, <2>11, <2>12, FieldStep
<1>10. CASE BridgeText(v, intact) \/ SpeedText(v, intact)
  <2>1. /\ Text /\ ~Reading /\ ~Reading' /\ uart = 4 /\ swallow' = 0
        /\ v = "NL" \/ got = TextBuf - 1 =>
              uart' = 0 /\ delivered' = (delivered \/ (v = "NL" /\ aligned /\ intact))
        /\ v # "NL" /\ got # TextBuf - 1 =>
              uart' = 4 /\ got' = got + 1 /\ aligned' = (aligned /\ intact)
    BY <1>1, <1>5, <1>10, TextStep
  <2>2. next \in 5 .. Size(frame) /\ aligned
    BY <1>3, <1>4, <2>1 DEF OnTrack
  <2>3. got = next - 5
    BY <1>3, <1>4, <2>1, <2>2 DEF OnTrack, ReaderInv
  <2>4. v = IF next = Size(frame) THEN "NL" ELSE "data"
    BY <1>2, <1>6, <2>1, <2>2, BytesSent
  <2>5. CASE next = Size(frame)
    <3>1. next' = 0 /\ uart' = 0 /\ delivered'
      BY <1>2, <2>1, <2>2, <2>4, <2>5
    <3> QED
      BY <1>5, <2>1, <3>1 DEF OnTrack
  <2>6. CASE next # Size(frame)
    <3>1. got # TextBuf - 1 /\ next' = next + 1
      BY <1>2, <1>3, <2>1, <2>2, <2>3, <2>6, Sizes
    <3>2. v # "NL" /\ uart' = 4 /\ got' = got + 1 /\ aligned' = (aligned /\ intact)
      BY <2>1, <2>4, <2>6, <3>1
    <3>4. aligned'
      BY <1>2, <2>2, <3>2, Zenon
    <3>5. got' = next' - 5 /\ next' > 5
      BY <2>2, <2>3, <3>1, <3>2
    <3>3. next' # 0 /\ next' # 1 /\ ~(next' \in 2 .. 5)
      BY <2>2, <3>1
    <3> QED
      BY <1>5, <2>1, <3>2, <3>3, <3>4, <3>5 DEF OnTrack
  <2> QED
    BY <2>5, <2>6
<1> QED
  BY <1>5, <1>7, <1>8, <1>9, <1>10, SwallowStep DEF Receive, SwallowByte

\* A frame that ran into a read, the tap, the flush or a line of text: it gets
\* through these before it ends, and does not begin another read by chance.
LEMMA ByteKeepsLate ==
    ASSUME ReaderInv, LineInv, AlignedInv, SureInv, LateInv, NEW v, NEW intact \in BOOLEAN,
           Intact(v, intact), Receive(v, intact), LineStep(intact)
    PROVE  LateInv'
<1>1. UNCHANGED <<program, frame, begun, heir>>
  BY DEF LineStep
<1> SUFFICES ASSUME whole', begun' = "late", Recovering'
             PROVE  Outlived'
  BY DEF LateInv
<1>2. /\ LineInv' /\ ReaderInv' /\ Left \in Nat /\ intact /\ next > 0 /\ whole
      /\ next' = IF next = Size(frame) THEN 0 ELSE next + 1
  BY <1>1, LineMoves, ReceiveKeepsReader
<1>3. /\ Size(frame) \in Nat /\ Size(frame) > 5 /\ next \in 1 .. Size(frame)
      /\ ~Text => Size(frame) >= ShortestFrame /\ frame.type \in TypesOf(program)
                  /\ program \in {"dash", "sender"}
      /\ Text => program \notin {"dash", "sender"}
  BY <1>1, <1>2, FrameFacts DEF LineInv, ReaderInv, Recovering, Text, TextReaders
<1>4. Outlived /\ Recovering /\ Text' = Text
  BY <1>1, <1>2 DEF LateInv, Recovering, Text
<1>5. v \in Bytes(frame, next)
  BY <1>2 DEF Intact
<1>6. /\ next <= 4 => v = Preamble[next]
      /\ Text /\ next > 4 => v = IF next = Size(frame) THEN "NL" ELSE "data"
      /\ ~Text /\ next = 5 => v = frame.type
      /\ ~Text /\ next > 4 => v \notin {"P2", "P3", "P4"}
  BY <1>2, <1>5, BytesSent
<1>7. /\ next = 1 => v = "P1" /\ next' = 2
      /\ next > 1 => next' # 1 /\ next' # 2
  BY <1>2, <1>3, <1>6 DEF Preamble
<1>8. CASE SwallowByte
  <2>1. /\ swallow > 0 /\ swallow' = swallow - 1 /\ swallow \in Nat /\ ~Reading' /\ uart' = 0
    BY <1>1, <1>8, SwallowStep
  <2>2. ~Text
    <3>1. Text => Bound = 0
      BY <1>3 DEF Bound
    <3> QED
      BY <2>1, <3>1 DEF ReaderInv
  <2>3. swallow + next <= Size(frame)
    BY <1>4, <2>1, <2>2 DEF Outlived
  <2>4. next' = next + 1
    BY <1>2, <1>3, <2>1, <2>3
  <2>5. swallow' + next' <= Size(frame)' /\ next' > 0
    BY <1>1, <1>3, <2>1, <2>3, <2>4
  <2> QED
    BY <1>4, <2>1, <2>2, <2>5 DEF Outlived
<1>9. CASE swallow = 0 /\ HuntByte(v, intact)
  <2>1. /\ ~Reading /\ ~Reading' /\ uart < 4 /\ swallow' = 0 /\ uart \in 0 .. 4
        /\ v = Preamble[uart + 1] => uart' = uart + 1
        /\ v # Preamble[uart + 1] =>
             uart' = IF v = "P1" /\ program \in {"dash", "sender"} THEN 1 ELSE 0
    BY <1>1, <1>2, <1>9, HuntStep DEF ReaderInv
  <2>2. uart = 0 \/ uart = 1 \/ uart = 2 \/ uart = 3
    BY <2>1
  <2>3. CASE Text
    <3>1. uart' = 0
      <4>1. CASE next = 1
        <5>1. uart # 0 /\ v = "P1"
          BY <1>4, <1>7, <2>3, <4>1 DEF Outlived
        <5>2. v # Preamble[uart + 1]
          BY <2>2, <5>1 DEF Preamble
        <5> QED
          BY <1>3, <2>1, <2>3, <5>2
      <4>2. CASE next > 1
        <5>1. uart = 0
          BY <1>4, <2>1, <2>3, <4>2 DEF Outlived
        <5>2. v # "P1"
          BY <1>3, <1>6, <2>3, <4>2 DEF Preamble
        <5>3. v # Preamble[uart + 1]
          BY <5>1, <5>2 DEF Preamble
        <5> QED
          BY <2>1, <5>2, <5>3
      <4> QED
        BY <1>3, <4>1, <4>2
    <3> QED
      BY <1>4, <1>7, <1>3, <2>3, <3>1 DEF Outlived
  <2>4. CASE ~Text
    <3>1. CASE next = 1
      <4>1. uart' = 1 /\ next' = 2
        BY <1>3, <1>7, <2>1, <2>2, <2>4, <3>1 DEF Preamble
      <4> QED
        BY <1>4, <2>1, <2>4, <4>1 DEF Outlived
    <3>2. CASE next \in 2 .. 4
      <4>1. uart = 0 \/ uart = next - 1
        BY <1>4, <1>9, <2>1, <2>4, <3>2 DEF Outlived
      <4>2. v = Preamble[next] /\ v # "P1"
        BY <1>6, <3>2 DEF Preamble
      <4>3. uart = 0 => uart' = 0
        BY <2>1, <4>2 DEF Preamble
      <4>4. uart = next - 1 => uart' = next
        BY <2>1, <4>2
      <4>5. next' = next + 1 /\ next' \in 2 .. 5
        BY <1>2, <1>3, <3>2
      <4>6. uart' = 0 \/ uart' = next' - 1
        BY <3>2, <4>1, <4>3, <4>4, <4>5
      <4> QED
        BY <1>4, <2>1, <2>4, <4>5, <4>6 DEF Outlived
    <3>3. CASE next > 4
      <4>1. uart' = 0 \/ (uart' = 1 /\ next > 5)
        <5>1. v \notin {"P2", "P3", "P4"}
          BY <1>6, <2>4, <3>3
        <5>2. uart = 0 \/ v # Preamble[uart + 1]
          BY <2>2, <5>1 DEF Preamble
        <5>3. CASE next = 5
          <6>1. v # "P1"
            BY <1>3, <1>6, <2>4, <5>3, TypesAreTypes
          <6> QED
            BY <2>1, <2>2, <5>2, <6>1 DEF Preamble
        <5>4. CASE next > 5
          BY <2>1, <5>2, <5>4
        <5> QED
          BY <1>3, <3>3, <5>3, <5>4
      <4>2. next' \notin 2 .. 5 /\ next' # 1 
        BY <1>2, <1>3, <3>3
      <4> QED
        BY <1>4, <2>1, <2>4, <4>1, <4>2 DEF Outlived
    <3> QED
      BY <1>3, <3>1, <3>2, <3>3
  <2> QED
    BY <2>3, <2>4
<1>10. CASE swallow = 0 /\ TypeByte(v, intact)
  <2>1. ~Text /\ uart = 4 /\ ~Reading
    BY <1>1, <1>10, TypeStep
  <2>2. next = 1 \/ next = 5
    BY <1>3, <1>4, <1>10, <2>1 DEF Outlived
  <2>3. CASE next = 1
    <3>1. v \notin TypesOf(program)
      BY <1>7, <2>3, TypesAreTypes
    <3>2. ~Reading' /\ uart' = 0 /\ next' = 2
          /\ (swallow' = 0 \/ (program = "dash" /\ swallow' = Tap))
      BY <1>1, <1>3, <1>7, <1>10, <2>1, <2>3, <3>1, TypeStep
    <3>3. Tap + 2 <= Size(frame)
      BY <1>3, <2>1, Sizes, Relations
    <3>4. swallow' > 0 => next' > 0 /\ swallow' + next' <= Size(frame)'
      BY <1>1, <3>2, <3>3, Sizes
    <3> QED
      BY <1>4, <2>1, <3>2, <3>4 DEF Outlived
  <2>4. CASE next = 5
    <3>1. v \in TypesOf(program)
      BY <1>3, <1>6, <2>1, <2>4
    <3>2. Reading' /\ aligned' /\ swallow' = 0
      BY <1>1, <1>2, <1>10, <2>4, <3>1, TypeStep
    <3> QED
      BY <1>4, <2>1, <3>2 DEF Outlived
  <2> QED
    BY <2>2, <2>3, <2>4
<1>11. CASE FieldByte(intact)
  <2>1. ~Text /\ Reading /\ Missing \in Nat /\ got \in Nat /\ swallow = 0
    BY <1>1, <1>11, FieldStep DEF ReaderInv
  <2>2. aligned \/ (sure /\ length # Unread /\ Missing + next <= Size(frame))
    BY <1>4, <2>1 DEF Outlived, SureInv
  <2>3. aligned => frame.length \in This.accepts
    BY <2>1, LengthIsSent DEF AlignedInv
  <2>4. CASE Reading' /\ aligned' /\ swallow' = 0
    BY <1>4, <2>1, <2>4 DEF Outlived
  <2>5. CASE /\ Reading' /\ sure' = sure /\ aligned' = (aligned /\ intact) /\ swallow' = swallow
             /\ length # Unread => Missing' = Missing - 1 /\ Missing > 1
    <3>1. CASE aligned
      <4>1. aligned'
        BY <1>2, <2>5, <3>1, Zenon
      <4> QED
        BY <2>1, <2>4, <2>5, <4>1
    <3>2. CASE ~aligned
      <4>1. sure' /\ Missing' = Missing - 1 /\ Missing > 1 /\ Missing + next <= Size(frame)
        BY <2>2, <2>5, <3>2
      <4>2. next' = next + 1
        BY <1>2, <1>3, <2>1, <4>1
      <4>3. Missing' + next' <= Size(frame)' /\ next' > 0
        BY <1>1, <1>3, <2>1, <4>1, <4>2
      <4> QED
        BY <1>4, <2>1, <2>5, <4>1, <4>3 DEF Outlived
    <3> QED
      BY <3>1, <3>2
  <2>6. CASE /\ length = Unread /\ Reading' /\ swallow' = swallow
             /\ (aligned /\ intact /\ aligned') \/ ~(aligned /\ intact)
    BY <1>2, <2>1, <2>2, <2>4, <2>6
  <2>7. CASE length = Unread /\ (aligned /\ intact => frame.length \notin This.accepts)
    BY <1>2, <2>2, <2>3, <2>7
  <2>8. CASE /\ ~Reading' /\ swallow' = 0
             /\ program \in {"dash", "sender"} => uart' = 0
    BY <1>3, <1>4, <2>1, <2>8 DEF Outlived
  <2> QED
    BY <1>1, <1>11, <2>5, <2>6, <2>7, <2>8, FieldStep
<1>12. CASE swallow = 0 /\ (BridgeText(v, intact) \/ SpeedText(v, intact))
  <2>1. /\ Text /\ uart = 4
        /\ v = "NL" \/ got = TextBuf - 1 => uart' = 0
        /\ v # "NL" /\ got # TextBuf - 1 => uart' = 4
    BY <1>1, <1>12, TextStep
  <2>2. uart' = 0 \/ (uart' = 4 /\ next # Size(frame))
    BY <1>3, <1>6, <2>1
  <2>3. next' = 0 => next = Size(frame)
    BY <1>2, <1>3
  <2>4. next' # 1
    BY <1>2, <1>3, <1>7
  <2> QED
    BY <1>4, <2>1, <2>2, <2>3, <2>4 DEF Outlived
<1> QED
  BY <1>8, <1>9, <1>10, <1>11, <1>12 DEF Receive

-----------------------------------------------------------------------------
(* The whole invariant holds at the start and survives each action. *)

LEMMA InitFraming == Init => FramingInv
<1> SUFFICES ASSUME Init PROVE FramingInv
  OBVIOUS
<1>1. /\ program \in Programs /\ uart = 0 /\ type = "none" /\ length = Unread /\ todo = <<>>
      /\ got = 0 /\ ~missed /\ swallow = 0 /\ next = 0 /\ faults = 0 /\ lost = 0
      /\ ~aligned /\ ~sure /\ ~whole /\ begun = "ready" /\ ~heir /\ ~delivered
      /\ frame = CHOOSE f \in Frames : f.length \in Payloads(f.type)
  BY DEF Init
<1>0. /\ missed \in BOOLEAN /\ aligned \in BOOLEAN /\ sure \in BOOLEAN /\ delivered \in BOOLEAN
      /\ whole \in BOOLEAN /\ heir \in BOOLEAN
  BY Zenon DEF Init
<1>2. ~Reading
  BY <1>1 DEF Reading
<1>3. \E f \in Frames : f.length \in Payloads(f.type)
  <2>1. PICK t \in Traffic : TRUE
    BY DEF Traffic
  <2>2. t \in {"TEXT", "KEY_ID", "HS2", "ENC", "HS1", "HS3", "KEY"}
    BY <2>1 DEF Traffic
  <2>3. \E n : n \in Payloads(t)
    <3>1. CASE t = "KEY_ID"
      BY <3>1 DEF Payloads
    <3>2. CASE t = "HS2"
      BY <3>2 DEF Payloads
    <3>3. CASE t = "ENC"
      <4>1. Payloads(t) = MinMsg .. MaxMsg
        BY <3>3 DEF Payloads
      <4>2. MinMsg \in MinMsg .. MaxMsg
        BY Sizes, Relations
      <4> QED
        BY <4>1, <4>2
    <3>4. CASE t \in {"HS1", "HS3"}
      BY <3>4 DEF Payloads
    <3>5. CASE t = "KEY"
      BY <3>5 DEF Payloads
    <3>6. CASE t = "TEXT"
      <4>1. Payloads(t) = 1 .. TextBuf - 1
        BY <3>6 DEF Payloads
      <4>2. 1 \in 1 .. TextBuf - 1
        BY Sizes
      <4> QED
        BY <4>1, <4>2
    <3> QED
      BY <2>2, <3>1, <3>2, <3>3, <3>4, <3>5, <3>6
  <2>4. PICK n : n \in Payloads(t)
    BY <2>3
  <2>5. [type |-> t, length |-> n] \in Frames
    BY <2>1, <2>4 DEF Frames
  <2> QED
    BY <2>4, <2>5
<1>4. frame \in Frames /\ frame.length \in Payloads(frame.type)
  <2>1. frame \in Frames
    BY <1>1, <1>3
  <2> QED
    BY <1>1, <1>3
<1>5. frame.type \in Traffic
  BY <1>4 DEF Frames
<1>6. Size(frame) \in Nat
  BY <1>1, <1>4, <1>5, FrameFacts
<1>7. LineInv
  BY <1>0, <1>1, <1>4, <1>5, <1>6, Sizes DEF LineInv
<1>8. swallow \in 0 .. Bound
  BY <1>1, Sizes DEF Bound
<1>9. ReaderInv
  BY <1>0, <1>1, <1>2, <1>8, Sizes DEF ReaderInv
<1>10. LateInv /\ ReadyInv /\ HeirInv
  BY <1>1 DEF LateInv, ReadyInv, HeirInv
<1> QED
  BY <1>1, <1>2, <1>7, <1>9, <1>10 DEF FramingInv, AlignedInv, SureInv

\* A new frame: what went before is either over or at most what is left of it.
LEMMA BeginKeeps ==
    ASSUME FramingInv, Begin
    PROVE  FramingInv'
<1>0. ReaderInv /\ LineInv /\ AlignedInv /\ SureInv /\ ReadyInv /\ LateInv
  BY DEF FramingInv
<1>1. /\ next = 0 /\ next' = 1 /\ begun' = Standing
      /\ heir' = (whole /\ begun # "astray") /\ whole' = TRUE /\ delivered' = FALSE /\ aligned' = FALSE
      /\ UNCHANGED <<program, uart, type, length, todo, got, missed, swallow, sure, faults, lost>>
  BY DEF Begin
<1>2. /\ whole' \in BOOLEAN /\ heir' \in BOOLEAN /\ delivered' \in BOOLEAN /\ aligned' \in BOOLEAN
      /\ ~aligned' /\ ~delivered' /\ (heir' => whole /\ begun # "astray")
  BY <1>1, Zenon
<1>3. frame'.type \in Traffic /\ frame'.length \in Payloads(frame'.type) /\ Traffic' = Traffic
  BY <1>1 DEF Begin, Frames, Traffic
<1>4. /\ Size(frame') \in Nat /\ Size(frame') > 5
      /\ ~Text => Size(frame') >= ShortestFrame
      /\ program = "sender" => Size(frame') > Fifo
  BY <1>0, <1>3, FrameFacts DEF ReaderInv
<1>5. (Reading' <=> Reading) /\ (Text' <=> Text) /\ (Recovering' <=> Recovering) /\ Missing' = Missing
  BY <1>1 DEF Reading, Text, Recovering, Missing
<1>6. Left = 0 /\ Left' \in Nat /\ lost \in Nat /\ lost' = lost
  BY <1>0, <1>1, <1>4, Sizes DEF Left, LineInv
<1>7. Text => ~Reading /\ swallow = 0 /\ program \notin {"dash", "sender"}
  BY <1>0, Dispatch DEF ReaderInv, Bound, Text, TextReaders
<1>8. Recovering => Text \/ program \in {"dash", "sender"}
  BY DEF Recovering, Text
<1>9. /\ Standing \in {"ready", "late", "astray"}
      /\ Standing = "ready" =>
           /\ ~Reading /\ swallow = 0
           /\ \/ uart = 0
              \/ uart # 4 /\ program \in {"dash", "sender"}
              \/ uart = 4 /\ program \notin {"dash", "sender"} \cup TextReaders
      /\ Standing = "late" =>
           \/ Reading /\ sure /\ lost < ShortestFrame
           \/ ~Reading /\ swallow > 0
           \/ ~Reading /\ swallow = 0 /\ uart # 0
      /\ ~Reading /\ swallow = 0 /\ uart = 0 => Standing = "ready"
      /\ ~Reading /\ swallow = 0 /\ uart = 1 /\ program \in {"dash", "sender"} => Standing = "ready"
  <2>1. swallow > 0 \/ swallow = 0
    BY <1>0, Sizes DEF ReaderInv, Bound
  <2>2. CASE Reading
    BY <2>2 DEF Standing
  <2>3. CASE ~Reading /\ swallow > 0
    BY <2>3 DEF Standing
  <2>4. CASE ~Reading /\ swallow = 0 /\ uart = 4
    BY <2>4 DEF Standing
  <2>5. CASE ~Reading /\ swallow = 0 /\ uart # 4
    BY <2>5 DEF Standing
  <2> QED
    BY <2>1, <2>2, <2>3, <2>4, <2>5
<1>10. ReaderInv'
  BY <1>0, <1>1, <1>2, <1>5 DEF ReaderInv, Bound
<1>11. LineInv'
  BY <1>0, <1>1, <1>2, <1>3, <1>4, <1>9 DEF LineInv
<1>12. AlignedInv'
  BY <1>2 DEF AlignedInv
<1>13. SureInv'
  <2>1. ASSUME sure PROVE Reading /\ length # Unread /\ Missing <= lost
    BY <1>0, <1>6, <2>1 DEF SureInv
  <2>2. ASSUME sure PROVE Missing \in Int
    <3>1. Plan(todo) /\ got \in Nat
      BY <1>0, <2>1, <2>2 DEF ReaderInv
    <3> QED
      BY <3>1, FirstOnly DEF Missing
  <2>3. ASSUME sure PROVE Missing <= lost + Left'
    BY <1>6, <2>1, <2>2, <2>3
  <2> QED
    BY <1>1, <1>5, <1>6, <2>1, <2>3 DEF SureInv
<1>14. ReadyInv'
  <2> SUFFICES ASSUME Standing = "ready" PROVE OnTrack'
    BY <1>1 DEF ReadyInv
  <2>1. uart \in 0 .. 4 /\ (~Text => program \in Framed)
    BY <1>0 DEF ReaderInv, Programs, Framed, Text
  <2>2. Text => uart = 0
    BY <1>7, <1>9 DEF Text
  <2>3. ~Text => \/ uart = 0
                 \/ uart < 4 /\ program \in {"dash", "sender"}
                 \/ uart = 4 /\ program \in {"flash", "ask", "og"}
    BY <1>9, <2>1 DEF Framed, Receivers
  <2> QED
    BY <1>1, <1>5, <1>9, <2>2, <2>3 DEF OnTrack
<1>15. LateInv'
  <2> SUFFICES ASSUME Standing = "late", Recovering PROVE Outlived'
    BY <1>1, <1>5 DEF LateInv
  <2>1. CASE Text
    BY <1>1, <1>5, <1>7, <1>9, <2>1 DEF Outlived
  <2>2. CASE ~Text /\ Reading
    <3>1. sure /\ swallow = 0 /\ Missing <= lost /\ lost < ShortestFrame
      BY <1>0, <1>6, <1>9, <2>2, Sizes DEF SureInv, ReaderInv, Bound
    <3>2. Missing \in Int
      BY <1>0, <2>2, FirstOnly DEF ReaderInv, Missing
    <3>3. Missing + 1 <= Size(frame')
      BY <1>4, <1>6, <2>2, <3>1, <3>2, Sizes, Relations
    <3> QED
      BY <1>1, <1>5, <2>2, <3>1, <3>3 DEF Outlived
  <2>3. CASE ~Text /\ ~Reading
    <3>1. swallow \in Nat /\ (program = "dash" => swallow <= Tap)
          /\ (program = "sender" => swallow <= Fifo)
      BY <1>0, Sizes DEF ReaderInv, Bound
    <3>2. swallow + 1 <= Size(frame')
      BY <1>4, <1>8, <2>3, <3>1, Sizes, Relations
    <3> QED
      BY <1>1, <1>5, <2>3, <3>2 DEF Outlived
  <2> QED
    BY <2>1, <2>2, <2>3
<1>16. HeirInv'
  <2> SUFFICES ASSUME whole, begun # "astray", Recovering PROVE Standing = "ready"
    BY <1>1, <1>2, <1>5 DEF HeirInv
  <2>1. CASE begun = "ready"
    <3>1. OnTrack
      BY <1>0, <2>1 DEF ReadyInv, Known, Recovering, TextReaders
    <3> QED
      BY <1>1, <1>9, <3>1 DEF OnTrack
  <2>2. CASE begun = "late"
    <3>1. Outlived
      BY <1>0, <2>2 DEF LateInv
    <3>2. ~(aligned /\ Reading)
      BY <1>0, <1>1, <1>6 DEF AlignedInv
    <3>3. CASE Text
      BY <1>1, <1>7, <1>9, <3>1, <3>3 DEF Outlived
    <3>4. CASE ~Text
      <4>1. ~Reading /\ ~(swallow > 0)
        BY <1>1, <3>1, <3>2, <3>4 DEF Outlived
      <4>2. swallow = 0
        BY <1>0, <4>1, Sizes DEF ReaderInv, Bound
      <4>3. uart = 0 \/ uart = 1
        BY <1>1, <3>1, <3>4, <4>1, <4>2 DEF Outlived
      <4> QED
        BY <1>8, <1>9, <3>4, <4>1, <4>2, <4>3
    <3> QED
      BY <3>3, <3>4
  <2> QED
    BY <1>0, <2>1, <2>2 DEF LineInv
<1> QED
  BY <1>10, <1>11, <1>12, <1>13, <1>14, <1>15, <1>16 DEF FramingInv

LEMMA ByteKeeps ==
    ASSUME FramingInv, NEW v, NEW intact \in BOOLEAN, Intact(v, intact), Receive(v, intact),
           LineStep(intact), CountLost
    PROVE  FramingInv'
<1>1. UNCHANGED <<program, begun, heir>>
  BY DEF LineStep
<1>2. ReaderInv' /\ LineInv'
  BY <1>1, ReceiveKeepsReader, LineMoves DEF FramingInv
<1>3. AlignedInv' /\ SureInv' /\ ReadyInv' /\ LateInv'
  BY ByteKeepsAligned, ByteKeepsSure, ByteKeepsReady, ByteKeepsLate DEF FramingInv
<1>4. HeirInv'
  BY <1>1 DEF FramingInv, HeirInv, Recovering
<1> QED
  BY <1>2, <1>3, <1>4 DEF FramingInv

LEMMA LoseKeeps ==
    ASSUME FramingInv, Lose
    PROVE  FramingInv'
<1>0. ReaderInv /\ LineInv /\ SureInv /\ HeirInv
  BY DEF FramingInv
<1>1. /\ ~aligned' /\ aligned' \in BOOLEAN
      /\ UNCHANGED <<program, uart, type, length, todo, got, missed, swallow, sure, delivered, begun, heir>>
  BY Zenon DEF Lose
<1>2. LineStep(FALSE)
  BY Zenon DEF Lose, LineStep
<1>3. /\ LineInv' /\ Left \in Nat /\ Left' \in Nat /\ lost \in Nat /\ lost' \in Nat
      /\ ~whole' /\ Left' >= Left - 1
  BY <1>0, <1>2, LineMoves
<1>4. (Reading' <=> Reading) /\ Missing' = Missing
  BY <1>1 DEF Reading, Missing
<1>5. ReaderInv'
  BY <1>0, <1>1, <1>4 DEF ReaderInv, Bound, Text
<1>6. SureInv'
  <2> SUFFICES ASSUME sure PROVE Reading /\ length # Unread /\ Missing <= lost' + Left'
    BY <1>1, <1>4 DEF SureInv
  <2>1. Reading /\ length # Unread /\ Missing <= lost + Left
    BY <1>0 DEF SureInv
  <2>2. Plan(todo) /\ got \in Nat
    BY <1>0, <2>1 DEF ReaderInv
  <2>3. Missing \in Int
    BY <2>2, FirstOnly DEF Missing
  <2>4. lost' = lost + 1
    BY DEF Lose
  <2>5. lost' + Left' >= lost + Left
    BY <1>3, <2>4, MovedOn
  <2> QED
    BY <1>3, <2>1, <2>3, <2>5, AtMostStill
<1> QED
  BY <1>0, <1>1, <1>3, <1>5, <1>6
  DEF FramingInv, AlignedInv, ReadyInv, LateInv, HeirInv, Recovering

LEMMA BreakOffKeeps ==
    ASSUME FramingInv, BreakOff
    PROVE  FramingInv'
<1>0. ReaderInv /\ LineInv /\ HeirInv
  BY DEF FramingInv
<1>1. /\ ~aligned' /\ aligned' \in BOOLEAN /\ ~sure' /\ sure' \in BOOLEAN
      /\ ~whole' /\ whole' \in BOOLEAN
      /\ UNCHANGED <<program, uart, type, length, todo, got, missed, swallow, delivered, frame, begun, heir>>
  BY Zenon DEF BreakOff, Fault
<1>2. next' = 0 /\ faults < MaxFaults /\ faults' = faults + 1 /\ lost' = 0
  BY <1>1 DEF BreakOff, Fault, CountLost
<1>3. Size(frame) \in Nat
  BY <1>0, FrameFacts DEF ReaderInv, LineInv
<1>4. LineInv'
  BY <1>0, <1>1, <1>2, <1>3, Sizes DEF LineInv, Traffic
<1>5. Reading' <=> Reading
  BY <1>1 DEF Reading
<1>6. ReaderInv'
  BY <1>0, <1>1, <1>5 DEF ReaderInv, Bound, Text
<1> QED
  BY <1>0, <1>1, <1>4, <1>6
  DEF FramingInv, AlignedInv, SureInv, ReadyInv, LateInv, HeirInv, Recovering

LEMMA QuietKeeps ==
    ASSUME FramingInv, Quiet
    PROVE  FramingInv'
<1>0. ReaderInv /\ LineInv /\ AlignedInv /\ SureInv /\ ReadyInv /\ LateInv /\ HeirInv
  BY DEF FramingInv
<1>1. /\ next = 0 /\ UNCHANGED <<program, frame, next, faults, whole, begun, heir>>
      /\ ReadExpires \/ TapExpires
      /\ lost' = IF sure' THEN lost ELSE 0
  BY DEF Quiet, CountLost
<1>2. ~(aligned /\ Reading)
  BY <1>0, <1>1 DEF AlignedInv
<1>3. Text' = Text /\ Traffic' = Traffic /\ (Recovering' <=> Recovering) /\ Left = 0 /\ Left' = 0
      /\ (Known' <=> Known)
  BY <1>1 DEF Text, Traffic, Recovering, Left, Known
<1>4. LineInv'
  BY <1>0, <1>1, <1>3, Sizes DEF LineInv
<1>5. lost \in Nat
  BY <1>0, Sizes DEF LineInv
<1>6. /\ ReaderInv' /\ delivered' = delivered /\ AlignedInv' /\ SureInv'
      /\ Reading \/ swallow > 0
  <2>1. CASE ReadExpires
    <3>1. /\ ReaderInv' /\ Reading /\ delivered' = delivered
          /\ \/ /\ Reading' /\ aligned' = aligned /\ sure' = sure /\ length' = length
                /\ length # Unread /\ Missing \in Nat /\ Missing' \in Nat /\ Missing' <= Missing
             \/ ~Reading' /\ ~sure'
      BY <1>0, <1>1, <2>1, ExpireStep
    <3>2. AlignedInv'
      BY <1>2, <3>1 DEF AlignedInv
    <3>3. SureInv'
      <4> SUFFICES ASSUME sure' PROVE Reading' /\ length' # Unread /\ Missing' <= lost' + Left'
        BY DEF SureInv
      <4>1. /\ sure /\ Reading' /\ length' # Unread
            /\ Missing \in Nat /\ Missing' \in Nat /\ Missing' <= Missing
        BY <3>1
      <4>2. Missing <= lost + Left /\ lost' = lost
        BY <1>0, <1>1, <4>1 DEF SureInv
      <4>3. Missing' <= lost
        BY <1>3, <1>5, <4>1, <4>2, AtMostAlso
      <4> QED
        BY <1>3, <1>5, <4>1, <4>2, <4>3
    <3> QED
      BY <3>1, <3>2, <3>3
  <2>2. CASE TapExpires
    <3>1. /\ swallow > 0 /\ swallow' = 0
          /\ UNCHANGED <<uart, type, length, todo, got, missed, aligned, sure, delivered>>
      BY <2>2 DEF TapExpires
    <3>2. ReaderInv' /\ ~Reading /\ ~Reading'
      BY <1>0, <1>1, <3>1, TapStep
    <3> QED
      BY <1>0, <3>1, <3>2 DEF AlignedInv, SureInv
  <2> QED
    BY <1>1, <2>1, <2>2
<1>7. Text => ~Reading /\ swallow = 0
  BY <1>0, Dispatch DEF ReaderInv, Bound, Text, TextReaders
<1>8. ReadyInv'
  <2> SUFFICES ASSUME OnTrack PROVE OnTrack'
    BY <1>0, <1>1, <1>3 DEF ReadyInv
  <2>1. ~Recovering /\ delivered
    BY <1>1, <1>6 DEF OnTrack
  <2>2. ~Text
    BY <2>1 DEF Recovering, Text
  <2> QED
    BY <1>1, <1>3, <1>6, <2>1, <2>2 DEF OnTrack
<1>9. ~Outlived
  BY <1>1, <1>2, <1>6, <1>7 DEF Outlived
<1>10. LateInv' /\ HeirInv'
  BY <1>0, <1>1, <1>3, <1>9 DEF LateInv, HeirInv
<1> QED
  BY <1>4, <1>6, <1>8, <1>10 DEF FramingInv

LEMMA FlushEndsKeeps ==
    ASSUME FramingInv, FlushEnds
    PROVE  FramingInv'
<1>0. ReaderInv /\ LineInv /\ SureInv /\ ReadyInv /\ LateInv /\ HeirInv
  BY DEF FramingInv
<1>1. /\ program = "sender" /\ swallow > 0 /\ swallow' = 0
      /\ UNCHANGED <<program, uart, type, length, todo, got, missed, aligned, sure, delivered>>
      /\ UNCHANGED <<frame, next, faults, lost, whole, begun, heir>>
  BY DEF FlushEnds
<1>2. ReaderInv' /\ ~Reading /\ ~Reading' /\ uart = 0
  BY <1>0, <1>1, TapStep
<1>3. Recovering /\ ~Text /\ ~Text'
  BY <1>1 DEF Recovering, Text, TextReaders
<1>4. LineInv'
  BY <1>0, <1>1 DEF LineInv, Traffic
<1>5. ~OnTrack
  <2>1. next = 0 \/ next > 0
    BY <1>0, FrameFacts DEF LineInv, ReaderInv
  <2> QED
    BY <1>1, <1>3, <2>1 DEF OnTrack
<1>6. Outlived'
  BY <1>1, <1>2, <1>3 DEF Outlived
<1> QED
  BY <1>0, <1>1, <1>2, <1>4, <1>5, <1>6
  DEF FramingInv, AlignedInv, SureInv, ReadyInv, LateInv, HeirInv, Known, Recovering

LEMMA StutterKeeps ==
    ASSUME FramingInv, UNCHANGED vars
    PROVE  FramingInv'
<1>0. ReaderInv /\ LineInv /\ AlignedInv /\ SureInv /\ ReadyInv /\ LateInv /\ HeirInv
  BY DEF FramingInv
<1>1. /\ UNCHANGED <<uart, type, length, todo, got, missed, swallow, aligned, sure, delivered>>
      /\ UNCHANGED <<program, frame, next, faults, lost, whole, begun, heir>>
  BY DEF vars, rx
<1>2. ReaderInv'
  BY <1>0, <1>1 DEF ReaderInv, Reading, Bound, Text
<1>3. LineInv'
  BY <1>0, <1>1 DEF LineInv, Traffic
<1>4. (Reading' <=> Reading) /\ Missing' = Missing /\ Left' = Left /\ (Text' <=> Text)
      /\ (Recovering' <=> Recovering) /\ (Known' <=> Known)
  BY <1>1 DEF Reading, Missing, Left, Text, Recovering, Known
<1>5. AlignedInv' /\ SureInv' /\ HeirInv'
  BY <1>0, <1>1, <1>4 DEF AlignedInv, SureInv, HeirInv
<1>6. ReadyInv'
  BY <1>0, <1>1, <1>4 DEF ReadyInv, OnTrack
<1>7. LateInv'
  BY <1>0, <1>1, <1>4 DEF LateInv, Outlived
<1> QED
  BY <1>2, <1>3, <1>5, <1>6, <1>7 DEF FramingInv

-----------------------------------------------------------------------------
\* The invariant on which the theorems below rest holds of every program and
\* of every line: uart_state, the read under way (read_exact_timeout,
\* read_exact), tap and flush never stand against the bytes on the line in
\* any other way.
THEOREM FramingInvariant == Spec => []FramingInv
<1>1. Init => FramingInv
  BY InitFraming
<1>2. FramingInv /\ [Next]_vars => FramingInv'
  <2> SUFFICES ASSUME FramingInv, [Next]_vars PROVE FramingInv'
    OBVIOUS
  <2>1. CASE Begin
    BY <2>1, BeginKeeps
  <2>2. CASE Arrive
    <3>1. PICK v \in Bytes(frame, next) : Receive(v, TRUE)
      BY <2>2 DEF Arrive
    <3>2. LineStep(TRUE) /\ Intact(v, TRUE) /\ CountLost
      BY <2>2 DEF Arrive, LineStep, Intact
    <3> QED
      BY <3>1, <3>2, ByteKeeps
  <2>3. CASE Lose
    BY <2>3, LoseKeeps
  <2>4. CASE Garble
    <3>1. PICK v \in AnyByte : Receive(v, FALSE)
      BY <2>4 DEF Garble
    <3>2. LineStep(FALSE) /\ Intact(v, FALSE) /\ CountLost
      BY <2>4 DEF Garble, LineStep, Intact
    <3> QED
      BY <3>1, <3>2, ByteKeeps
  <2>5. CASE Noise
    <3>1. PICK v \in AnyByte : Receive(v, FALSE)
      BY <2>5 DEF Noise
    <3>2. LineStep(FALSE) /\ Intact(v, FALSE) /\ CountLost
      BY <2>5 DEF Noise, LineStep, Intact
    <3> QED
      BY <3>1, <3>2, ByteKeeps
  <2>6. CASE BreakOff
    BY <2>6, BreakOffKeeps
  <2>7. CASE Quiet
    BY <2>7, QuietKeeps
  <2>8. CASE FlushEnds
    BY <2>8, FlushEndsKeeps
  <2>9. CASE UNCHANGED vars
    BY <2>9, StutterKeeps
  <2> QED
    BY <2>1, <2>2, <2>3, <2>4, <2>5, <2>6, <2>7, <2>8, <2>9 DEF Next
<1> QED
  BY <1>1, <1>2, PTL DEF Spec

\* Every variable has its type; uart_state stays within the preamble, a read
\* under way lacks a byte, a text reader never writes beyond its buffer.
THEOREM FramingTypeCorrect == Spec => []TypeOK
<1>1. FramingInv => TypeOK
  <2> SUFFICES ASSUME FramingInv PROVE TypeOK
    OBVIOUS
  <2>0. ReaderInv /\ LineInv
    BY DEF FramingInv
  <2>1. Reading => uart = 4 /\ type \in DOMAIN Branches[program]
    BY <2>0, BranchesSound DEF ReaderInv
  <2>2. Reading <=> todo # <<>>
    BY <2>0, Elements DEF ReaderInv
  <2>3. got \in Nat /\ (~Reading => got < TextBuf)
    BY <2>0, Sizes DEF ReaderInv
  <2>4. swallow \in 0 .. Tap + Fifo
    BY <2>0, Sizes DEF ReaderInv, Bound
  <2>5. {missed, aligned, sure, whole, heir, delivered} \subseteq BOOLEAN
    BY <2>0 DEF ReaderInv, LineInv
  <2> QED
    BY <2>0, <2>1, <2>2, <2>3, <2>4, <2>5 DEF TypeOK, ReaderInv, LineInv
<1> QED
  BY <1>1, FramingInvariant, PTL

\* A frame that arrives as sent, and begins while its reader is outside of any
\* read, is handled, whatever came before: for all seven programs, except the
\* HS2 frames that og has no branch for.
THEOREM IntactFramesArrive == Spec => []IntactFrameArrives
<1>1. FramingInv => IntactFrameArrives
  BY DEF FramingInv, ReadyInv, Known, OnTrack, IntactFrameArrives
<1> QED
  BY <1>1, FramingInvariant, PTL

\* Of two frames that arrive as sent the second is handled by dash_receiver,
\* the sender and the text readers, whatever read, tap, flush or line of text
\* the first one ran into, unless a read had a length that was not sent.
THEOREM SecondFramesArrive == Spec => []SecondFrameArrives
<1>1. FramingInv => SecondFrameArrives
  BY DEF FramingInv, ReadyInv, HeirInv, Recovering, Known, OnTrack, SecondFrameArrives, TextReaders
<1> QED
  BY <1>1, FramingInvariant, PTL

=============================================================================
