--------------------------- MODULE KeysAndAskProofs --------------------------
(***************************************************************************)
(* For every set of keys, every size of the fields and every bound: the    *)
(* types of KeysAndAsk; that the Pico never holds parts of two session     *)
(* keys, however the writes of the two programs fall among each other; and *)
(* that the handshake on this wire implements MutualAuth.                  *)
(***************************************************************************)
EXTENDS KeysAndAsk, WellFoundedInduction, TLAPS

(* Frames and chunks that the wire may hold: keys are whole, and what a    *)
(* handshake frame says did happen.                                        *)
KeyFrames == [type : {"KEY"}, key : Key, en : {None}, pn : {None}]

SoundFrame ==
  KeyFrames \cup
  {f \in [type : {"HS1", "HS3"}, key : Key \cup {None}, en : 1 .. challenges, pn : 0 .. replies] :
     f.type = "HS3" => f.pn # 0 /\ <<f.en, f.pn>> \in rDone}

KeyParts == {"hdr", "id", "cipher", "mac"}

SoundChunk ==
  {c \in [of : SoundFrame, part : KeyParts \cup {"body"}, size : Nat \ {0}, fresh : BOOLEAN] :
     c.of.type = "KEY" => c.part # "body"}

AskerChunk(type) == {c \in SoundChunk : c.of.type = type}

SoundLight ==
  [type : {"ID"}, id : Field] \cup
  {f \in [type : {"HS2"}, key : Field, mac : Field, en : 1 .. challenges \cup {Junk},
          pn : 1 .. replies] : <<f.en, f.pn>> \in answered}

WireInv ==
  /\ uart \in Seq(SoundChunk)
  /\ light \in Seq(SoundLight)

(* The manager has yet to write the end of one frame.                      *)

EndsOf(k) ==
  {KeyFrame(k), Tail(KeyFrame(k)), Tail(Tail(KeyFrame(k))), Tail(Tail(Tail(KeyFrame(k))))}

ManagerInv ==
  /\ mKey \in Key \cup {None}
  /\ mWrites = <<>> \/ \E k \in Key : mWrites \in EndsOf(k)

AskerInv ==
  /\ aKey \in Key \cup {None} /\ aList \subseteq Key
  /\ challenges \in Nat
  /\ state \in {"IDLE", "HS2"} /\ entityNonce \in 0 .. challenges
  /\ aWrites \in Seq(AskerChunk("HS1")) \cup Seq(AskerChunk("HS3"))
  /\ entityNonce # 0 => state = "HS2" \/ WritingHS1

PicoInv ==
  /\ pico \in [id : Field, key : Field, mac : Field]
  /\ reading \in {"none", "KEY", "HS1", "HS3"}
  /\ fields \in Seq(Field) /\ Len(fields) < 3
  /\ lacking \in 0 .. HdrSize
  /\ replies \in Nat /\ savedNonce \in 0 .. replies
  /\ overrun \in BOOLEAN

HandshakeInv == WireInv /\ ManagerInv /\ AskerInv /\ PicoInv

(***************************************************************************)
(* The order of the manager's chunks on a wire u.                          *)
(***************************************************************************)
OfKey(c) == c.of.type = "KEY"

(* Before position j there is no chunk of the manager's.                   *)
First(u, j) == \A i \in 1 .. j - 1 : ~OfKey(u[i])

Before == [id |-> "hdr", cipher |-> "id", mac |-> "cipher"]

(* The last such chunk before position j is at i, and is the part of the   *)
(* same frame that comes before c.  Only the first chunk may be cut.       *)
FollowsAt(u, i, j, c) ==
  /\ OfKey(u[i]) /\ \A h \in i + 1 .. j - 1 : ~OfKey(u[h])
  /\ u[i].of = c.of /\ u[i].part = Before[c.part]
  /\ i # 1 /\ u[i].part = "cipher" => u[i].size >= CipherSize

InOrder(u, j, c) ==
  c.part = "hdr" \/ First(u, j) \/ \E i \in 1 .. j - 1 : FollowsAt(u, i, j, c)

Ordered(u) == \A j \in 1 .. Len(u) : OfKey(u[j]) => InOrder(u, j, u[j])

(* What is on the wire, and what the manager puts there next.              *)
Wire == IF mWrites = <<>> THEN uart ELSE Append(uart, Head(mWrites))

(* Of the manager's, the first chunk to be read is of a kind.              *)
FirstIn(u, kind) == \A j \in 1 .. Len(u) : OfKey(u[j]) /\ First(u, j) => u[j] \in kind

ManagerChunk == [of : KeyFrames, part : KeyParts, size : Nat \ {0}, fresh : BOOLEAN]

AfterId(k) ==
  {c \in ManagerChunk : \/ c.part = "hdr"
                        \/ c.part = "id" /\ ~c.fresh
                        \/ c.part = "cipher" /\ c.of.key = k}

AfterCipher(k) ==
  {c \in ManagerChunk : c.part = "hdr" \/ ~c.fresh \/ (c.part = "mac" /\ c.of.key = k)}

(* The next bytes are no MAC key but that of k.                            *)
NoOtherMac(u, k) ==
  u # <<>> /\ OfKey(u[1]) /\ u[1].part = "mac" /\ u[1].fresh => u[1].of.key = k

(* What the Pico has of a frame decides what it can read next.             *)
FieldsInv ==
  /\ reading # "KEY" \/ lacking # 0 => fields = <<>>
  /\ Len(fields) = 1 /\ fields[1] # Junk => FirstIn(Wire, AfterId(fields[1]))
  /\ Len(fields) = 2 /\ fields[2] # Junk =>
       FirstIn(Wire, AfterCipher(fields[2])) /\ fields[1] \in {fields[2], Junk}
  /\ Len(fields) = 2 /\ fields[2] = Junk /\ fields[1] # Junk => NoOtherMac(Wire, fields[1])

StreamInv == ~overrun => Ordered(Wire) /\ FieldsInv /\ PartsOfOneKey

IInv == HandshakeInv /\ StreamInv

(* A step of the abstract handshake, or none.                              *)
MAStep == [MA!Next]_(MA!vars)

-----------------------------------------------------------------------------
(* Induction over numbers, for sets                                        *)

LEMMA LeastNat ==
  ASSUME NEW S \in SUBSET Nat, S # {}
  PROVE  \E m \in S : \A n \in S : m <= n
<1> DEFINE R == {p \in Nat \X Nat : p[1] < p[2]}
<1>1. IsWellFoundedOn(R, Nat)
  BY NatLessThanWellFounded DEF OpToRel
<1>2. PICK m \in S : \A n \in S : <<n, m>> \notin R
  BY <1>1, WFMin
<1>3. \A n \in S : ~(n < m)
  BY <1>2
<1> QED
  BY <1>3

LEMMA SetInduction ==
  ASSUME NEW S \in SUBSET Nat, 0 \in S, \A n \in S : n + 1 \in S
  PROVE  Nat \subseteq S
<1> SUFFICES ASSUME Nat \ S # {} PROVE FALSE
  OBVIOUS
<1>1. PICK m \in Nat \ S : \A n \in Nat \ S : m <= n
  BY LeastNat
<1>2. m - 1 \in S
  BY <1>1
<1> QED
  BY <1>1, <1>2

-----------------------------------------------------------------------------
(* Bytes of the wire                                                       *)

(* u sums the sizes of the first m chunks.                                 *)
SumsTo(u, m) ==
  /\ u \in [0 .. m -> Nat] /\ u[0] = 0
  /\ \A i \in 1 .. m : u[i] = u[i - 1] + uart[i].size

(* Upto is the sum it says it is.                                          *)
LEMMA UptoSum ==
  ASSUME uart \in Seq(SoundChunk)
  PROVE  /\ Upto[0] = 0 /\ \A i \in 0 .. Len(uart) : Upto[i] \in Nat
         /\ \A i \in 1 .. Len(uart) : Upto[i] = Upto[i - 1] + uart[i].size
<1> DEFINE L == Len(uart)
           S == {m \in Nat : m <= L => \E u : SumsTo(u, m)}
<1>0. L \in Nat /\ \A i \in 1 .. L : uart[i].size \in Nat
  BY DEF SoundChunk
<1>1. 0 \in S
  <2>1. SumsTo([i \in 0 .. 0 |-> 0], 0)
    BY DEF SumsTo
  <2> QED
    BY <2>1
<1>2. ASSUME NEW m \in S PROVE m + 1 \in S
  <2>1. SUFFICES ASSUME m + 1 <= L PROVE \E u : SumsTo(u, m + 1)
    OBVIOUS
  <2>2. PICK u : SumsTo(u, m)
    BY <1>0, <2>1
  <2> DEFINE w == [i \in 0 .. m + 1 |-> IF i = m + 1 THEN u[m] + uart[i].size ELSE u[i]]
  <2>3. SumsTo(w, m + 1)
    <3>1. m \in Nat /\ uart[m + 1].size \in Nat /\ u[m] \in Nat
      BY <1>0, <2>1, <2>2 DEF SumsTo
    <3>2. w \in [0 .. m + 1 -> Nat] /\ w[0] = 0
      BY <2>2, <3>1 DEF SumsTo
    <3>3. ASSUME NEW i \in 1 .. m + 1 PROVE w[i] = w[i - 1] + uart[i].size
      <4>1. CASE i = m + 1
        BY <3>1, <4>1
      <4>2. CASE i # m + 1
        BY <2>2, <3>1, <4>2 DEF SumsTo
      <4> QED
        BY <4>1, <4>2
    <3> QED
      BY <3>2, <3>3 DEF SumsTo
  <2> QED
    BY <2>3
<1>3. L \in S
  <2>1. S \in SUBSET Nat
    OBVIOUS
  <2> HIDE DEF S
  <2> QED
    BY <1>0, <1>1, <1>2, <2>1, SetInduction
<1>4. PICK u : SumsTo(u, L)
  BY <1>0, <1>3
<1>5. u = [i \in 0 .. L |-> IF i = 0 THEN 0 ELSE u[i - 1] + uart[i].size]
  BY <1>0, <1>4 DEF SumsTo
<1>6. Upto = [i \in 0 .. L |-> IF i = 0 THEN 0 ELSE Upto[i - 1] + uart[i].size]
  BY <1>5 DEF Upto
<1>7. /\ Upto[0] = 0 /\ \A i \in 1 .. L : Upto[i] = Upto[i - 1] + uart[i].size
  BY <1>0, <1>6
<1> DEFINE T == {m \in Nat : m <= L => Upto[m] \in Nat}
<1>8. Nat \subseteq T
  <2>1. ASSUME NEW m \in T PROVE m + 1 \in T
    <3>1. m + 1 <= L => Upto[m + 1] = Upto[m] + uart[m + 1].size
      BY <1>0, <1>7
    <3> QED
      BY <1>0, <3>1
  <2>2. 0 \in T /\ T \in SUBSET Nat
    BY <1>7
  <2> HIDE DEF T
  <2> QED
    BY <2>1, <2>2, SetInduction
<1> QED
  BY <1>0, <1>7, <1>8

(* Every chunk has a byte, so that the sum grows with every one.           *)
LEMMA UptoGrows ==
  ASSUME uart \in Seq(SoundChunk), NEW j \in 0 .. Len(uart), NEW i \in j .. Len(uart)
  PROVE  Upto[j] + (i - j) <= Upto[i]
<1> DEFINE T == {d \in Nat : j + d <= Len(uart) => Upto[j] + d <= Upto[j + d]}
<1>0. /\ Len(uart) \in Nat /\ \A k \in 0 .. Len(uart) : Upto[k] \in Nat
      /\ \A k \in 1 .. Len(uart) : uart[k].size \in Nat \ {0} /\ Upto[k] = Upto[k - 1] + uart[k].size
  BY UptoSum DEF SoundChunk
<1>1. 0 \in T /\ T \in SUBSET Nat
  BY <1>0
<1>2. ASSUME NEW d \in T PROVE d + 1 \in T
  <2>0. j \in Nat /\ d \in Nat /\ (j + d) + 1 = j + (d + 1) /\ ((j + d) + 1) - 1 = j + d
    OBVIOUS
  <2>1. SUFFICES ASSUME j + (d + 1) <= Len(uart) PROVE Upto[j] + (d + 1) <= Upto[j + (d + 1)]
    BY <2>0
  <2>2. j + (d + 1) \in 1 .. Len(uart) /\ j + d \in 0 .. Len(uart)
    BY <1>0, <2>0, <2>1
  <2>3. Upto[j + (d + 1)] = Upto[j + d] + uart[j + (d + 1)].size
    BY <1>0, <2>0, <2>2
  <2>4. Upto[j] + d <= Upto[j + d]
    BY <1>0, <2>2
  <2>5. /\ d \in Nat /\ Upto[j] \in Nat /\ Upto[j + d] \in Nat
        /\ uart[j + (d + 1)].size \in Nat \ {0}
    BY <1>0, <2>0, <2>2
  <2> DEFINE a == Upto[j]
             b == Upto[j + d]
             c == Upto[j + (d + 1)]
             s == uart[j + (d + 1)].size
  <2> HIDE DEF a, b, c, s
  <2>6. /\ a \in Nat /\ b \in Nat /\ s \in Nat \ {0}
        /\ c = b + s /\ a + d <= b
    BY <2>3, <2>4, <2>5 DEF a, b, c, s
  <2>7. a + (d + 1) <= c
    BY <2>5, <2>6
  <2> QED
    BY <2>7 DEF a, c
<1>3. i - j \in T
  <2>1. i - j \in Nat
    BY <1>0
  <2> HIDE DEF T
  <2> QED
    BY <1>1, <1>2, <2>1, SetInduction
<1> QED
  BY <1>0, <1>3

(* The chunk in which byte n lies.                                         *)
LEMMA Crossing ==
  ASSUME uart \in Seq(SoundChunk), NEW n \in Nat, n < Unread
  PROVE  \E i \in DOMAIN uart : Upto[i - 1] <= n /\ n < Upto[i]
<1> DEFINE S == {i \in 0 .. Len(uart) : n < Upto[i]}
<1>0. /\ Len(uart) \in Nat /\ DOMAIN uart = 1 .. Len(uart)
      /\ Upto[0] = 0 /\ \A i \in 0 .. Len(uart) : Upto[i] \in Nat
  BY UptoSum
<1>1. PICK i \in S : \A k \in S : i <= k
  <2>1. Len(uart) \in S /\ S \in SUBSET Nat
    BY <1>0 DEF Unread
  <2> HIDE DEF S
  <2> QED
    BY <2>1, LeastNat
<1>2. i # 0 /\ i - 1 \notin S
  BY <1>0, <1>1
<1> QED
  BY <1>0, <1>1, <1>2

(* A chunk of which the first bytes were taken.                            *)
Cut(c, n) == [c EXCEPT !.size = n, !.fresh = FALSE]

LEMMA CutChunk ==
  ASSUME NEW c \in SoundChunk, NEW n \in Nat \ {0}
  PROVE  /\ Cut(c, n) \in SoundChunk /\ Cut(c, n).of = c.of /\ Cut(c, n).part = c.part
         /\ Cut(c, n).size = n /\ Cut(c, n).fresh = FALSE
<1> DEFINE d == Cut(c, n)
           C == [of : SoundFrame, part : KeyParts \cup {"body"}, size : Nat \ {0}, fresh : BOOLEAN]
<1>1. c \in C /\ (c.of.type = "KEY" => c.part # "body")
  BY DEF SoundChunk
<1>2. d \in C /\ d.of = c.of /\ d.part = c.part /\ d.size = n /\ d.fresh = FALSE
  BY <1>1 DEF Cut
<1> HIDE DEF d
<1>3. d \in SoundChunk
  BY <1>1, <1>2 DEF SoundChunk
<1> QED
  BY <1>2, <1>3 DEF d

(* n bytes are taken off the wire: chunk i is the first to stay, whole or  *)
(* without its first bytes.                                                *)
CutAt(i, n) ==
  /\ i \in 1 .. Len(uart) /\ Upto[i - 1] <= n /\ n < Upto[i]
  /\ Len(uart') = Len(uart) - i + 1
  /\ uart'[1] = IF Upto[i - 1] = n THEN uart[i] ELSE Cut(uart[i], Upto[i] - n)
  /\ \A j \in 2 .. Len(uart') : uart'[j] = uart[j + i - 1]

LEMMA TakenOff ==
  ASSUME uart \in Seq(SoundChunk), NEW n \in Nat \ {0}, n <= Unread, uart' = Without(n)
  PROVE  /\ uart' \in Seq(SoundChunk) /\ uart # <<>>
         /\ (uart' = <<>> /\ n = Unread) \/ \E i \in DOMAIN uart : CutAt(i, n)
<1>0. /\ Len(uart) \in Nat /\ DOMAIN uart = 1 .. Len(uart)
      /\ Upto[0] = 0 /\ \A i \in 0 .. Len(uart) : Upto[i] \in Nat
  BY UptoSum
<1>1. uart # <<>>
  BY <1>0 DEF Unread
<1>2. CASE n = Unread
  BY <1>1, <1>2 DEF Without
<1>3. CASE n # Unread
  <2>1. n < Unread
    BY <1>0, <1>3 DEF Unread
  <2> DEFINE i == CHOOSE j \in DOMAIN uart : Upto[j - 1] <= n /\ n < Upto[j]
             rest == IF Upto[i - 1] = n THEN uart[i] ELSE Cut(uart[i], Upto[i] - n)
  <2>2. i \in DOMAIN uart /\ Upto[i - 1] <= n /\ n < Upto[i]
    BY <2>1, Crossing
  <2>3. uart' = <<rest>> \o SubSeq(uart, i + 1, Len(uart))
    BY <1>3 DEF Without, Cut
  <2> HIDE DEF i
  <2>4. uart[i] \in SoundChunk /\ Upto[i] \in Nat
    BY <1>0, <2>2
  <2>5. rest \in SoundChunk
    <3>1. Upto[i] - n \in Nat \ {0}
      BY <2>2, <2>4
    <3>2. Cut(uart[i], Upto[i] - n) \in SoundChunk
      BY <2>4, <3>1, CutChunk
    <3> QED
      BY <2>4, <3>2
  <2>6. /\ SubSeq(uart, i + 1, Len(uart)) \in Seq(SoundChunk)
        /\ Len(SubSeq(uart, i + 1, Len(uart))) = Len(uart) - i
        /\ \A j \in 1 .. Len(uart) - i : SubSeq(uart, i + 1, Len(uart))[j] = uart[i + j]
    BY <1>0, <2>2
  <2> HIDE DEF rest
  <2>7. /\ uart' \in Seq(SoundChunk) /\ Len(uart') = Len(uart) - i + 1
        /\ uart'[1] = rest
        /\ \A j \in 2 .. Len(uart') : uart'[j] = SubSeq(uart, i + 1, Len(uart))[j - 1]
    BY <1>0, <2>2, <2>3, <2>5, <2>6
  <2>8. ASSUME NEW j \in 2 .. Len(uart') PROVE uart'[j] = uart[j + i - 1]
    <3>0. Len(uart') = Len(uart) - i + 1 /\ i \in 1 .. Len(uart) /\ Len(uart) \in Nat
      BY <1>0, <2>2, <2>7
    <3>1. j - 1 \in 1 .. Len(uart) - i /\ i + (j - 1) = j + i - 1
      BY <3>0
    <3> QED
      BY <2>6, <2>7, <3>1
  <2>9. CutAt(i, n)
    BY <1>0, <2>2, <2>7, <2>8 DEF CutAt, rest
  <2> QED
    BY <1>1, <2>2, <2>7, <2>9
<1> QED
  BY <1>2, <1>3

-----------------------------------------------------------------------------
(* Frames and chunks                                                       *)

LEMMA SeqGrows ==
  ASSUME NEW S, NEW T, S \subseteq T, NEW w \in Seq(S)
  PROVE  w \in Seq(T)
  OBVIOUS

LEMMA SeqElements ==
  ASSUME NEW S, NEW w \in Seq(S)
  PROVE  \A m \in 1 .. Len(w) : w[m] \in S
  OBVIOUS

(* Challenges, nonces and accepted pairs only grow: what is on the way     *)
(* stays sound.                                                            *)
LEMMA StaysSound ==
  ASSUME challenges \in Nat, replies \in Nat, challenges' \in Nat, replies' \in Nat,
         challenges <= challenges', replies <= replies',
         rDone \subseteq rDone', answered \subseteq answered'
  PROVE  /\ SoundFrame \subseteq SoundFrame' /\ SoundChunk \subseteq SoundChunk'
         /\ SoundLight \subseteq SoundLight'
         /\ \A t : AskerChunk(t) \subseteq AskerChunk(t)'
<1>1. SoundFrame \subseteq SoundFrame'
  BY DEF SoundFrame, KeyFrames
<1>2. SoundChunk \subseteq SoundChunk'
  BY <1>1 DEF SoundChunk
<1>3. SoundLight \subseteq SoundLight'
  BY DEF SoundLight
<1> QED
  BY <1>1, <1>2, <1>3 DEF AskerChunk

(* The chunks of a KEY frame follow each other in their order.             *)
LEMMA EndsOfFrame ==
  ASSUME NEW k \in Key, NEW w \in EndsOf(k)
  PROVE  /\ w # <<>> /\ Head(w) \in SoundChunk /\ Head(w) \in ManagerChunk
         /\ Head(w).fresh /\ OfKey(Head(w))
         /\ Head(w).part = "cipher" => Head(w).size >= CipherSize
         /\ \/ Tail(w) = <<>>
            \/ /\ Tail(w) \in EndsOf(k) /\ Head(Tail(w)).part # "hdr"
               /\ Head(Tail(w)).of = Head(w).of
               /\ Before[Head(Tail(w)).part] = Head(w).part
<1> DEFINE f == [type |-> "KEY", key |-> k, en |-> None, pn |-> None]
           a == Chunk(f, "hdr", HdrSize)
           b == Chunk(f, "id", IdSize)
           c == Chunk(f, "cipher", SentCipher)
           d == Chunk(f, "mac", MacSize)
<1>1. f \in KeyFrames
  BY DEF KeyFrames
<1>2. {HdrSize, IdSize, SentCipher, MacSize} \subseteq Nat \ {0} /\ SentCipher >= CipherSize
  BY SplitAssumption
<1>3. /\ {a, b, c, d} \subseteq ManagerChunk
      /\ a.of = f /\ b.of = f /\ c.of = f /\ d.of = f
      /\ a.fresh /\ b.fresh /\ c.fresh /\ d.fresh
      /\ a.part = "hdr" /\ b.part = "id" /\ c.part = "cipher" /\ d.part = "mac"
      /\ c.size = SentCipher
  BY <1>1, <1>2 DEF Chunk, ManagerChunk, KeyParts
<1>4. ManagerChunk \subseteq SoundChunk /\ f.type = "KEY"
  BY DEF ManagerChunk, SoundChunk, SoundFrame, KeyParts
<1>5. KeyFrame(k) = <<a, b, c, d>>
  BY DEF KeyFrame
<1> HIDE DEF a, b, c, d, f
<1>6. EndsOf(k) = {<<a, b, c, d>>, <<b, c, d>>, <<c, d>>, <<d>>}
  <2>1. Tail(<<a, b, c, d>>) = <<b, c, d>> /\ Tail(<<b, c, d>>) = <<c, d>> /\ Tail(<<c, d>>) = <<d>>
    OBVIOUS
  <2> QED
    BY <1>5, <2>1 DEF EndsOf
<1>7. /\ Before["id"] = "hdr" /\ Before["cipher"] = "id" /\ Before["mac"] = "cipher"
  BY DEF Before
<1>8. CASE w = <<a, b, c, d>>
  <2>1. w # <<>> /\ Head(w) = a /\ Tail(w) = <<b, c, d>> /\ Head(Tail(w)) = b
    BY <1>8
  <2> QED
    BY <1>2, <1>3, <1>4, <1>6, <1>7, <2>1 DEF OfKey
<1>9. CASE w = <<b, c, d>>
  <2>1. w # <<>> /\ Head(w) = b /\ Tail(w) = <<c, d>> /\ Head(Tail(w)) = c
    BY <1>9
  <2> QED
    BY <1>2, <1>3, <1>4, <1>6, <1>7, <2>1 DEF OfKey
<1>10. CASE w = <<c, d>>
  <2>1. w # <<>> /\ Head(w) = c /\ Tail(w) = <<d>> /\ Head(Tail(w)) = d
    BY <1>10
  <2> QED
    BY <1>2, <1>3, <1>4, <1>6, <1>7, <2>1 DEF OfKey
<1>11. CASE w = <<d>>
  <2>1. w # <<>> /\ Head(w) = d /\ Tail(w) = <<>>
    BY <1>11
  <2> QED
    BY <1>2, <1>3, <1>4, <1>6, <1>7, <2>1 DEF OfKey
<1> QED
  BY <1>6, <1>8, <1>9, <1>10, <1>11

LEMMA FrameBegins ==
  ASSUME NEW k \in Key
  PROVE  KeyFrame(k) \in EndsOf(k) /\ Head(KeyFrame(k)).part = "hdr"
  BY DEF EndsOf, KeyFrame, Chunk

(* The chunks of the asker's frames, after a step that drew or accepted    *)
(* what they say.                                                          *)
LEMMA AskerFrames ==
  ASSUME NEW k \in Key \cup {None}, NEW en \in 1 .. challenges',
         challenges' \in Nat, replies' \in Nat
  PROVE  /\ HS1(k, en) \in Seq(AskerChunk("HS1")') /\ HS1(k, en) # <<>>
         /\ Head(HS1(k, en)).of.type = "HS1"
         /\ \A pn \in 1 .. replies' : <<en, pn>> \in rDone' =>
               HS3(k, en, pn) \in Seq(AskerChunk("HS3")') /\ Head(HS3(k, en, pn)).of.type = "HS3"
<1>0. {HdrSize, Hs1Size, Hs3Size} \subseteq Nat \ {0}
  BY SplitAssumption
<1>1. ASSUME NEW type \in {"HS1", "HS3"}, NEW size \in {Hs1Size, Hs3Size}, NEW pn,
             [type |-> type, key |-> k, en |-> en, pn |-> pn] \in SoundFrame'
      PROVE  /\ Handshake(type, size, k, en, pn) \in Seq(AskerChunk(type)')
             /\ Handshake(type, size, k, en, pn) # <<>>
             /\ Head(Handshake(type, size, k, en, pn)).of.type = type
  <2> DEFINE f == [type |-> type, key |-> k, en |-> en, pn |-> pn]
             a == Chunk(f, "hdr", HdrSize)
             b == Chunk(f, "body", size)
  <2>1. a \in SoundChunk' /\ b \in SoundChunk' /\ a.of = f /\ b.of = f
    BY <1>0, <1>1 DEF Chunk, SoundChunk, KeyParts
  <2>2. f.type = type
    OBVIOUS
  <2>3. Handshake(type, size, k, en, pn) = <<a, b>>
    BY DEF Handshake
  <2> HIDE DEF a, b, f
  <2>4. a \in AskerChunk(type)' /\ b \in AskerChunk(type)'
    BY <2>1, <2>2 DEF AskerChunk
  <2> QED
    BY <2>1, <2>2, <2>3, <2>4
<1>2. [type |-> "HS1", key |-> k, en |-> en, pn |-> None] \in SoundFrame'
  BY DEF SoundFrame, None
<1>3. ASSUME NEW pn \in 1 .. replies', <<en, pn>> \in rDone'
      PROVE  [type |-> "HS3", key |-> k, en |-> en, pn |-> pn] \in SoundFrame'
  BY <1>3 DEF SoundFrame, None
<1> QED
  BY <1>1, <1>2, <1>3 DEF HS1, HS3

-----------------------------------------------------------------------------
(* Steps that the abstract handshake does not see                          *)

LEMMA SameSound ==
  ASSUME UNCHANGED <<challenges, replies, rDone, answered>>
  PROVE  /\ SoundFrame' = SoundFrame /\ SoundChunk' = SoundChunk /\ SoundLight' = SoundLight
         /\ \A t : AskerChunk(t)' = AskerChunk(t)
  BY DEF SoundFrame, SoundChunk, SoundLight, AskerChunk

LEMMA SameHandshake ==
  ASSUME UNCHANGED <<asker, savedNonce, replies, answered, rDone, pDone>>
  PROVE  MAStep
  BY DEF MAStep, MA!vars, asker, WritingHS1

LEMMA SameAsker ==
  ASSUME AskerInv, UNCHANGED <<asker, replies, answered, rDone>>
  PROVE  AskerInv'
<1>1. UNCHANGED <<challenges, replies, rDone, answered>>
  BY DEF asker
<1>2. AskerChunk("HS1")' = AskerChunk("HS1") /\ AskerChunk("HS3")' = AskerChunk("HS3")
  BY <1>1, SameSound
<1> QED
  BY <1>2 DEF AskerInv, asker, WritingHS1

LEMMA SamePico ==
  ASSUME PicoInv, UNCHANGED <<picoVars, overrun>>
  PROVE  PicoInv'
  BY DEF PicoInv, picoVars

(* A piece of a chunk, or nothing, got out.                                *)
LEMMA TornWire ==
  ASSUME uart \in Seq(SoundChunk), NEW c \in SoundChunk, uart' \in Torn(c)
  PROVE  /\ uart' \in Seq(SoundChunk)
         /\ \/ uart' = uart
            \/ \E d \in SoundChunk : /\ d.of = c.of /\ d.part = c.part /\ d.fresh = c.fresh
                                     /\ uart' = Append(uart, d)
<1>1. CASE uart' = uart
  BY <1>1
<1>2. ASSUME NEW n \in Pieces, uart' = Append(uart, [c EXCEPT !.size = n])
      PROVE  /\ uart' \in Seq(SoundChunk)
             /\ \E d \in SoundChunk : /\ d.of = c.of /\ d.part = c.part /\ d.fresh = c.fresh
                                     /\ uart' = Append(uart, d)
  <2> DEFINE d == [c EXCEPT !.size = n]
             C == [of : SoundFrame, part : KeyParts \cup {"body"}, size : Nat \ {0}, fresh : BOOLEAN]
  <2>1. c \in C /\ (c.of.type = "KEY" => c.part # "body") /\ n \in Nat \ {0}
    BY SplitAssumption DEF SoundChunk
  <2>2. d \in C /\ d.of = c.of /\ d.part = c.part /\ d.fresh = c.fresh
    BY <2>1
  <2>3. d \in SoundChunk
    BY <2>1, <2>2 DEF SoundChunk
  <2>4. uart' = Append(uart, d)
    BY <1>2
  <2> HIDE DEF d
  <2> QED
    BY <2>2, <2>3, <2>4
<1> QED
  BY <1>1, <1>2 DEF Torn

LEMMA ManagerStep ==
  ASSUME HandshakeInv, Rotate \/ SendKey \/ ForceFetch \/ ManagerStarts \/ ManagerWrites
  PROVE  HandshakeInv' /\ MAStep
<1>1. UNCHANGED <<asker, picoVars, light, history>>
  BY DEF Rotate, SendKey, ForceFetch, ManagerStarts, ManagerKey, ManagerWrites
<1>2. MAStep
  BY <1>1, SameHandshake DEF picoVars, history
<1>3. AskerInv' /\ PicoInv'
  BY <1>1, SameAsker, SamePico DEF HandshakeInv, picoVars, history
<1>4. SoundChunk' = SoundChunk /\ SoundLight' = SoundLight
  BY <1>1, SameSound DEF asker, picoVars, history
<1>5. light' \in Seq(SoundLight')
  BY <1>1, <1>4 DEF HandshakeInv, WireInv
<1>6. CASE Rotate \/ SendKey \/ ForceFetch \/ ManagerStarts
  <2>1. uart' \in Seq(SoundChunk')
    BY <1>4, <1>6 DEF Rotate, SendKey, ForceFetch, ManagerStarts, ManagerKey, HandshakeInv, WireInv
  <2>2. ManagerInv'
    <3>1. mKey \in Key \cup {None} /\ (mWrites = <<>> \/ \E k \in Key : mWrites \in EndsOf(k))
      BY DEF HandshakeInv, ManagerInv
    <3>2. mKey' \in Key \cup {None}
      BY <1>6, <3>1 DEF Rotate, SendKey, ForceFetch, ManagerStarts, Start
    <3>3. mWrites' = mWrites \/ mWrites' = <<>> \/ \E k \in Key : mWrites' = KeyFrame(k)
      BY <1>6, <3>1, <3>2 DEF Rotate, SendKey, ForceFetch, ManagerStarts, Start
    <3> QED
      BY <3>1, <3>2, <3>3, FrameBegins DEF ManagerInv
  <2> QED
    BY <1>2, <1>3, <1>5, <2>1, <2>2 DEF HandshakeInv, WireInv
<1>7. CASE ManagerWrites
  <2>1. PICK k \in Key : mWrites \in EndsOf(k)
    BY <1>7 DEF ManagerWrites, HandshakeInv, ManagerInv
  <2>2. Head(mWrites) \in SoundChunk /\ (Tail(mWrites) = <<>> \/ Tail(mWrites) \in EndsOf(k))
    BY <2>1, EndsOfFrame
  <2>3. uart \in Seq(SoundChunk)
    BY DEF HandshakeInv, WireInv
  <2>4. mWrites' = <<>> \/ mWrites' = Tail(mWrites)
    BY <1>7 DEF ManagerWrites
  <2>5. uart' = Append(uart, Head(mWrites)) \/ uart' \in Torn(Head(mWrites))
    BY <1>7 DEF ManagerWrites
  <2>6. uart' \in Seq(SoundChunk')
    BY <1>4, <2>2, <2>3, <2>5, TornWire
  <2>7. ManagerInv'
    BY <1>7, <2>2, <2>4 DEF ManagerInv, HandshakeInv, ManagerWrites
  <2> QED
    BY <1>2, <1>3, <1>5, <2>6, <2>7 DEF HandshakeInv, WireInv
<1> QED
  BY <1>6, <1>7

-----------------------------------------------------------------------------
(* Steps of the asker                                                      *)

LEMMA TakeSound ==
  ASSUME NEW S, NEW w \in Seq(S), w # <<>>
  PROVE  Head(w) \in S /\ Tail(w) \in Seq(S)
  OBVIOUS

LEMMA PutSound ==
  ASSUME NEW S, NEW w \in Seq(S), NEW c \in S
  PROVE  Append(w, c) \in Seq(S)
  OBVIOUS

LEMMA LookupTyped ==
  ASSUME AskerInv, NEW id, Lookup(id)
  PROVE  aKey' \in Key /\ aList' \subseteq Key
  BY DEF Lookup, AskerInv, Known

(* A challenge is drawn, or not.                                           *)
LEMMA AskStep ==
  ASSUME HandshakeInv, HearKeyId \/ TypeKeyId
  PROVE  HandshakeInv' /\ MAStep
<1>0. /\ challenges \in Nat /\ replies \in Nat /\ entityNonce \in 0 .. challenges
      /\ state \in {"IDLE", "HS2"} /\ AskerInv
  BY DEF HandshakeInv, AskerInv, PicoInv
<1>1. UNCHANGED <<manager, uart, picoVars, history>>
  BY DEF HearKeyId, TypeKeyId
<1>2. light' = light \/ (light # <<>> /\ light' = Tail(light))
  BY DEF HearKeyId, TypeKeyId
<1>3. \/ UNCHANGED asker
      \/ aKey' \in Key /\ aList' \subseteq Key /\ StartHandshake(aKey')
  BY <1>0, LookupTyped DEF HearKeyId, TypeKeyId
<1>4. PicoInv' /\ ManagerInv'
  BY <1>1, SamePico DEF HandshakeInv, history, ManagerInv, manager
<1>5. CASE UNCHANGED <<state, entityNonce, aWrites, challenges>>
  <2>1. UNCHANGED <<challenges, replies, rDone, answered>>
    BY <1>1, <1>5 DEF picoVars, history
  <2>2. SoundChunk' = SoundChunk /\ SoundLight' = SoundLight /\ \A t : AskerChunk(t)' = AskerChunk(t)
    BY <2>1, SameSound
  <2>3. WireInv'
    BY <1>1, <1>2, <2>2, TakeSound DEF HandshakeInv, WireInv
  <2>4. aKey' \in Key \cup {None} /\ aList' \subseteq Key
    BY <1>0, <1>3 DEF asker, AskerInv
  <2>5. AskerInv'
    <3>1. AskerChunk("HS1")' = AskerChunk("HS1") /\ AskerChunk("HS3")' = AskerChunk("HS3")
      BY <2>2
    <3> QED
      BY <1>0, <1>5, <2>4, <3>1 DEF AskerInv, WritingHS1
  <2>6. MAStep
    BY <1>1, <1>5 DEF MAStep, MA!vars, picoVars, history, WritingHS1
  <2> QED
    BY <1>4, <2>3, <2>5, <2>6 DEF HandshakeInv
<1>6. ASSUME aKey' \in Key, aList' \subseteq Key,
             challenges' = challenges + 1, entityNonce' = challenges',
             aWrites' = HS1(aKey', challenges'), UNCHANGED state
      PROVE  HandshakeInv' /\ MAStep
  <2>1. UNCHANGED <<replies, savedNonce, rDone, answered, pDone>>
    BY <1>1 DEF picoVars, history
  <2>2. SoundChunk \subseteq SoundChunk' /\ SoundLight \subseteq SoundLight'
    BY <1>0, <1>6, <2>1, StaysSound
  <2>3. uart \in Seq(SoundChunk') /\ light \in Seq(SoundLight')
    BY <2>2, SeqGrows DEF HandshakeInv, WireInv
  <2>4. WireInv'
    BY <1>1, <1>2, <2>3, TakeSound DEF WireInv
  <2>5. /\ aWrites' \in Seq(AskerChunk("HS1")') /\ aWrites' # <<>>
        /\ Head(aWrites').of.type = "HS1"
    <3>1. aKey' \in Key \cup {None} /\ challenges' \in 1 .. challenges' /\ challenges' \in Nat
          /\ replies' \in Nat
      BY <1>0, <1>6, <2>1
    <3> QED
      BY <1>6, <3>1, AskerFrames
  <2>6. AskerInv'
    BY <1>0, <1>6, <2>5 DEF AskerInv, WritingHS1
  <2>7. MAStep
    <3>1. (IF state = "HS2" \/ WritingHS1 THEN entityNonce ELSE 0)' = challenges + 1
      BY <1>6, <2>5 DEF WritingHS1
    <3> QED
      BY <1>6, <2>1, <3>1 DEF MAStep, MA!Next, MA!Ask
  <2> QED
    BY <1>4, <2>4, <2>6, <2>7 DEF HandshakeInv
<1>7. CASE UNCHANGED asker
  BY <1>5, <1>7 DEF asker
<1> QED
  BY <1>3, <1>5, <1>6, <1>7 DEF StartHandshake

(* A challenge is open as long as it is not zeroed.                        *)
LEMMA OpenIsNonce ==
  ASSUME AskerInv
  PROVE  (IF state = "HS2" \/ WritingHS1 THEN entityNonce ELSE 0) = entityNonce
  BY DEF AskerInv

LEMMA AskerWritesStep ==
  ASSUME HandshakeInv, AskerWrites
  PROVE  HandshakeInv' /\ MAStep
<1>0. /\ aWrites # <<>> /\ AskerInv /\ uart \in Seq(SoundChunk)
      /\ aWrites \in Seq(AskerChunk("HS1")) \cup Seq(AskerChunk("HS3"))
  BY DEF AskerWrites, Looping, HandshakeInv, AskerInv, WireInv
<1>1. UNCHANGED <<manager, aKey, aList, challenges, picoVars, light, history>>
  BY DEF AskerWrites
<1>2. PicoInv' /\ ManagerInv'
  BY <1>1, SamePico DEF HandshakeInv, history, ManagerInv, manager
<1>3. UNCHANGED <<challenges, replies, rDone, answered>>
  BY <1>1 DEF picoVars, history
<1>4. /\ SoundChunk' = SoundChunk /\ SoundLight' = SoundLight
      /\ AskerChunk("HS1")' = AskerChunk("HS1") /\ AskerChunk("HS3")' = AskerChunk("HS3")
  BY <1>3, SameSound
<1>5. light' \in Seq(SoundLight')
  BY <1>1, <1>4 DEF HandshakeInv, WireInv
<1>6. /\ Head(aWrites) \in SoundChunk
      /\ \/ WritingHS1 /\ aWrites \in Seq(AskerChunk("HS1"))
         \/ ~WritingHS1 /\ aWrites \in Seq(AskerChunk("HS3"))
  BY <1>0 DEF AskerChunk, WritingHS1
<1>7. /\ Tail(aWrites) \in Seq(AskerChunk("HS1")) \cup Seq(AskerChunk("HS3"))
      /\ WritingHS1 /\ Tail(aWrites) # <<>> => Head(Tail(aWrites)).of.type = "HS1"
  <2>1. CASE WritingHS1 /\ aWrites \in Seq(AskerChunk("HS1"))
    <3>1. Tail(aWrites) \in Seq(AskerChunk("HS1"))
      BY <1>0, <2>1, TakeSound
    <3>2. Tail(aWrites) # <<>> => Head(Tail(aWrites)) \in AskerChunk("HS1")
      BY <3>1, TakeSound
    <3> QED
      BY <3>1, <3>2 DEF AskerChunk
  <2>2. CASE ~WritingHS1 /\ aWrites \in Seq(AskerChunk("HS3"))
    BY <1>0, <2>2, TakeSound
  <2> QED
    BY <1>6, <2>1, <2>2
<1>8. uart' \in Seq(SoundChunk')
  <2>1. uart' = Append(uart, Head(aWrites)) \/ uart' \in Torn(Head(aWrites))
    BY DEF AskerWrites
  <2> QED
    BY <1>0, <1>4, <1>6, <2>1, TornWire
<1>9. AskerInv'
  <2>1. CASE /\ aWrites' = Tail(aWrites)
             /\ state' = IF WritingHS1 /\ aWrites' = <<>> THEN "HS2" ELSE state
             /\ entityNonce' = entityNonce
    <3>1. entityNonce' # 0 => state' = "HS2" \/ WritingHS1'
      BY <1>0, <1>7, <2>1 DEF AskerInv, WritingHS1
    <3> QED
      BY <1>0, <1>1, <1>4, <1>7, <2>1, <3>1 DEF AskerInv
  <2>2. CASE /\ aWrites' = IF WritingHS1 THEN <<>> ELSE Tail(aWrites)
             /\ entityNonce' = IF WritingHS1 THEN NoNonce ELSE entityNonce
             /\ state' = state
    <3>1. entityNonce' # 0 => state' = "HS2"
      BY <1>0, <2>2 DEF AskerInv, NoNonce
    <3>2. aWrites' \in Seq(AskerChunk("HS1")) \cup Seq(AskerChunk("HS3"))
      BY <1>7, <2>2
    <3> QED
      BY <1>0, <1>1, <1>4, <2>2, <3>1, <3>2 DEF AskerInv, NoNonce
  <2> QED
    BY <2>1, <2>2 DEF AskerWrites
<1>10. MAStep
  <2>1. entityNonce' \in {0, entityNonce}
    BY DEF AskerWrites, NoNonce
  <2>2. (IF state = "HS2" \/ WritingHS1 THEN entityNonce ELSE 0) = entityNonce
    BY <1>0, OpenIsNonce
  <2>3. (IF state = "HS2" \/ WritingHS1 THEN entityNonce ELSE 0)' = entityNonce'
    BY <1>9 DEF AskerInv
  <2> QED
    BY <1>1, <2>1, <2>2, <2>3 DEF MAStep, MA!Next, MA!GiveUp, MA!vars, picoVars, history
<1> QED
  BY <1>2, <1>5, <1>8, <1>9, <1>10 DEF HandshakeInv, WireInv

(* The wait ends, or was never one.                                        *)
LEMMA AskerStopsStep ==
  ASSUME HandshakeInv, Timeout \/ AskerStarts
  PROVE  HandshakeInv' /\ MAStep
<1>1. /\ UNCHANGED <<challenges, manager, uart, picoVars, light, history>>
      /\ state' = "IDLE" /\ entityNonce' = 0
      /\ aKey' \in {aKey, None} /\ aList' \in {aList, {}} /\ aWrites' \in {aWrites, <<>>}
  BY DEF Timeout, AskerStarts
<1>2. UNCHANGED <<challenges, replies, rDone, answered>>
  BY <1>1 DEF picoVars, history
<1>3. /\ SoundChunk' = SoundChunk /\ SoundLight' = SoundLight
      /\ AskerChunk("HS1")' = AskerChunk("HS1") /\ AskerChunk("HS3")' = AskerChunk("HS3")
  BY <1>2, SameSound
<1>4. PicoInv' /\ ManagerInv' /\ WireInv'
  BY <1>1, <1>3, SamePico DEF HandshakeInv, history, ManagerInv, manager, WireInv
<1>5. AskerInv'
  <2>1. /\ aKey \in Key \cup {None} /\ aList \subseteq Key /\ challenges \in Nat
        /\ aWrites \in Seq(AskerChunk("HS1")) \cup Seq(AskerChunk("HS3"))
    BY DEF HandshakeInv, AskerInv
  <2>2. aWrites' \in Seq(AskerChunk("HS1")) \cup Seq(AskerChunk("HS3"))
    <3>1. <<>> \in Seq(AskerChunk("HS1"))
      OBVIOUS
    <3>2. aWrites' = aWrites \/ aWrites' = <<>>
      BY <1>1
    <3> QED
      BY <2>1, <3>1, <3>2
  <2>3. aKey' \in Key \cup {None} /\ aList' \subseteq Key
    BY <1>1, <2>1
  <2> QED
    BY <1>1, <1>3, <2>1, <2>2, <2>3 DEF AskerInv
<1>6. MAStep
  BY <1>1 DEF MAStep, MA!Next, MA!GiveUp, picoVars, history
<1> QED
  BY <1>4, <1>5, <1>6 DEF HandshakeInv

LEMMA HearHS2Step ==
  ASSUME HandshakeInv, HearHS2
  PROVE  HandshakeInv' /\ MAStep
<1> DEFINE frame == Head(light)
<1>0. /\ AskerInv /\ challenges \in Nat /\ replies \in Nat
      /\ light # <<>> /\ light \in Seq(SoundLight) /\ aWrites = <<>>
      /\ frame \in SoundLight /\ frame.type = "HS2" /\ light' = Tail(light)
  BY DEF HearHS2, Looping, HandshakeInv, AskerInv, PicoInv, WireInv
<1>1. UNCHANGED <<manager, uart, picoVars, answered, pDone, overrun, aKey, aList, challenges>>
  BY DEF HearHS2, asker
<1>2. PicoInv' /\ ManagerInv'
  BY <1>1, SamePico DEF HandshakeInv, ManagerInv, manager
<1>3. UNCHANGED <<replies, savedNonce>>
  BY <1>1 DEF picoVars
<1>4. CASE UNCHANGED <<aWrites, rDone>> /\ state' \in {state, "IDLE"}
           /\ (entityNonce' = 0 \/ UNCHANGED <<state, entityNonce>>)
  <2>1. UNCHANGED <<challenges, replies, rDone, answered>>
    BY <1>1, <1>3, <1>4
  <2>2. /\ SoundChunk' = SoundChunk /\ SoundLight' = SoundLight
        /\ AskerChunk("HS1")' = AskerChunk("HS1") /\ AskerChunk("HS3")' = AskerChunk("HS3")
    BY <2>1, SameSound
  <2>3. WireInv'
    BY <1>0, <1>1, <2>2, TakeSound DEF HandshakeInv, WireInv
  <2>4. AskerInv'
    BY <1>0, <1>1, <1>4, <2>2 DEF AskerInv, WritingHS1
  <2>5. MAStep
    <3>1. (IF state = "HS2" \/ WritingHS1 THEN entityNonce ELSE 0) = entityNonce
      BY <1>0, OpenIsNonce
    <3>2. (IF state = "HS2" \/ WritingHS1 THEN entityNonce ELSE 0)' = entityNonce'
      BY <2>4 DEF AskerInv
    <3> QED
      BY <1>1, <1>3, <1>4, <3>1, <3>2 DEF MAStep, MA!Next, MA!GiveUp, MA!vars
  <2> QED
    BY <1>2, <2>3, <2>4, <2>5 DEF HandshakeInv
<1>5. ASSUME state = "HS2", state' = "IDLE", entityNonce' = 0, ChecksHS2(frame),
             aWrites' = HS3(aKey, frame.en, frame.pn),
             rDone' = rDone \cup {<<frame.en, frame.pn>>}
      PROVE  HandshakeInv' /\ MAStep
  <2>1. /\ frame.en \in 1 .. challenges \cup {Junk} /\ frame.pn \in 1 .. replies
        /\ <<frame.en, frame.pn>> \in answered
    BY <1>0 DEF SoundLight
  <2>2. frame.en = entityNonce /\ frame.en \in 1 .. challenges
    BY <1>0, <1>5, <2>1 DEF ChecksHS2, AskerInv, Junk
  <2>3. SoundChunk \subseteq SoundChunk' /\ SoundLight \subseteq SoundLight'
    BY <1>0, <1>1, <1>3, <1>5, StaysSound
  <2>4. WireInv'
    BY <1>0, <1>1, <2>3, SeqGrows, TakeSound DEF HandshakeInv, WireInv
  <2>5. /\ aWrites' \in Seq(AskerChunk("HS3")') /\ Head(aWrites').of.type = "HS3"
    <3>1. /\ aKey \in Key \cup {None} /\ frame.en \in 1 .. challenges' /\ challenges' \in Nat
          /\ replies' \in Nat /\ frame.pn \in 1 .. replies' /\ <<frame.en, frame.pn>> \in rDone'
      BY <1>0, <1>1, <1>3, <1>5, <2>1, <2>2 DEF AskerInv
    <3> HIDE DEF frame
    <3> QED
      BY <1>5, <3>1, AskerFrames
  <2>6. AskerInv'
    BY <1>0, <1>1, <1>5, <2>5 DEF AskerInv
  <2>7. MAStep
    <3>1. (IF state = "HS2" \/ WritingHS1 THEN entityNonce ELSE 0) = frame.en
      BY <1>5, <2>2
    <3>2. (IF state = "HS2" \/ WritingHS1 THEN entityNonce ELSE 0)' = 0
      BY <1>5
    <3> HIDE DEF frame
    <3>3. MA!ReceiverAccepts(frame.pn)
      BY <1>0, <1>1, <1>3, <1>5, <2>1, <2>2, <3>1, <3>2 DEF MA!ReceiverAccepts
    <3> QED
      BY <2>1, <3>3 DEF MAStep, MA!Next
  <2> QED
    BY <1>2, <2>4, <2>6, <2>7 DEF HandshakeInv
<1>6. CASE state # "HS2" /\ UNCHANGED <<asker, rDone>>
  BY <1>4, <1>6 DEF asker
<1>7. CASE state = "HS2"
  BY <1>4, <1>5, <1>7 DEF HearHS2
<1> QED
  BY <1>6, <1>7 DEF HearHS2
-----------------------------------------------------------------------------
(* Steps of the Pico                                                       *)

LEMMA ReadsTyped ==
  /\ reading = "KEY" => Len(Reads) = 3
  /\ reading # "KEY" => Len(Reads) = 1
  /\ \A i \in 1 .. Len(Reads) : Reads[i][2] \in Nat \ {0}
<1>1. {IdSize, CipherSize, MacSize, Hs1Size, Hs3Size} \subseteq Nat \ {0}
  BY SplitAssumption
<1>2. CASE reading = "KEY"
  BY <1>1, <1>2 DEF Reads
<1>3. CASE reading # "KEY"
  <2>1. Len(Reads) = 1 /\ Reads[1][2] = (IF reading = "HS1" THEN Hs1Size ELSE Hs3Size)
    BY <1>3 DEF Reads
  <2> QED
    BY <1>1, <1>3, <2>1
<1> QED
  BY <1>2, <1>3

LEMMA NothingLacks == 0 \in 0 .. HdrSize
  BY SplitAssumption

(* What is not junk was read whole from a frame of the type under way.     *)
LEMMA TakenTyped ==
  ASSUME uart \in Seq(SoundChunk), uart # <<>>, NEW part, NEW n
  PROVE  /\ Taken(part, n).key \in Field
         /\ \/ /\ Taken(part, n) = Head(uart).of /\ Head(uart).of \in SoundFrame
               /\ Head(uart).of.type = reading /\ Whole(Head(uart), part, n)
            \/ Taken(part, n).key = Junk /\ Taken(part, n).en = Junk /\ Taken(part, n).pn = Junk
<1>1. Head(uart) \in SoundChunk
  BY TakeSound
<1>2. Head(uart).of \in SoundFrame
  BY <1>1 DEF SoundChunk
<1>3. Head(uart).of.key \in Field
  BY <1>2 DEF SoundFrame, KeyFrames, Field
<1>4. CASE Whole(Head(uart), part, n) /\ Head(uart).of.type = reading
  BY <1>2, <1>3, <1>4 DEF Taken
<1>5. CASE ~(Whole(Head(uart), part, n) /\ Head(uart).of.type = reading)
  BY <1>5 DEF Taken, Field
<1> QED
  BY <1>4, <1>5

LEMMA TakeFieldWire ==
  ASSUME HandshakeInv, NEW i \in 1 .. Len(Reads), TakeField(Reads[i])
  PROVE  uart # <<>> /\ uart' \in Seq(SoundChunk) /\ UNCHANGED <<manager, asker>>
<1>1. Reads[i][2] \in Nat \ {0}
  BY ReadsTyped
<1> QED
  BY <1>1, TakenOff DEF TakeField, HandshakeInv, WireInv, others

(* What a broken header lacks is made up from what comes.                  *)
LEMMA HeaderWire ==
  ASSUME HandshakeInv, TryType \/ ReadLen
  PROVE  /\ uart' \in Seq(SoundChunk)
         /\ uart' = <<>> \/ \E n \in Nat \ {0} : n <= Unread /\ uart' = Without(n)
<1>1. uart \in Seq(SoundChunk) /\ lacking \in Nat /\ HdrSize \in Nat
  BY SplitAssumption DEF HandshakeInv, WireInv, PicoInv
<1>2. ASSUME NEW n \in Nat \ {0}, n <= Unread, uart' = Without(n)
      PROVE  uart' \in Seq(SoundChunk)
  BY <1>1, <1>2, TakenOff
<1>3. CASE TryType
  <2>1. uart' = Without(1) /\ uart # <<>>
    BY <1>3 DEF TryType
  <2>2. 1 <= Unread
    <3>1. Len(uart) \in Nat \ {0} /\ Upto[0] = 0 /\ \A i \in 0 .. Len(uart) : Upto[i] \in Nat
      BY <1>1, <2>1, UptoSum
    <3>2. 0 \in 0 .. Len(uart) /\ Len(uart) \in 0 .. Len(uart)
      BY <3>1
    <3>3. Upto[0] + (Len(uart) - 0) <= Upto[Len(uart)]
      BY <1>1, <3>2, UptoGrows
    <3> QED
      BY <3>1, <3>2, <3>3 DEF Unread
  <2> QED
    BY <1>2, <2>1, <2>2
<1>4. CASE ReadLen
  <2>1. lacking \in Nat \ {0} /\ lacking <= Unread
    <3>1. lacking # 0 /\ Unread >= lacking
      BY <1>4 DEF ReadLen
    <3>2. Unread \in Nat
      BY <1>1, UptoSum DEF Unread
    <3> QED
      BY <1>1, <3>1, <3>2
  <2>2. uart' = <<>> \/ uart' = Without(lacking)
    BY <1>4 DEF ReadLen
  <2>3. <<>> \in Seq(SoundChunk)
    OBVIOUS
  <2> QED
    BY <1>2, <2>1, <2>2, <2>3
<1> QED
  BY <1>3, <1>4

(* Reads, which the abstract handshake does not see, and the channels.     *)
LEMMA PicoReadsStep ==
  ASSUME HandshakeInv,
         Hunt \/ TryType \/ ReadLen \/ ReadAside \/ InstallKey \/ ReadExpires \/ SendId \/ Overflow \/ LoseLight
  PROVE  HandshakeInv' /\ MAStep
<1>0. uart \in Seq(SoundChunk) /\ light \in Seq(SoundLight) /\ AskerInv /\ PicoInv
  BY DEF HandshakeInv, WireInv
<1>1. UNCHANGED <<manager, asker, savedNonce, replies, answered, rDone, pDone>>
  BY DEF Hunt, TryType, ReadLen, ReadAside, InstallKey, ReadExpires, SendId, Overflow, LoseLight, LastRead,
         TakeField, others, picoVars, history
<1>2. MAStep
  BY <1>1, SameHandshake
<1>3. AskerInv'
  BY <1>0, <1>1, SameAsker
<1>4. SoundChunk' = SoundChunk /\ SoundLight' = SoundLight
  BY <1>1, SameSound DEF asker
<1>5. ManagerInv'
  BY <1>1 DEF HandshakeInv, ManagerInv, manager
<1>6. ASSUME uart' \in Seq(SoundChunk), light' \in Seq(SoundLight), PicoInv'
      PROVE  HandshakeInv'
  BY <1>3, <1>4, <1>5, <1>6 DEF HandshakeInv, WireInv
<1>7. CASE Hunt
  <2>1. uart # <<>> /\ uart' = Tail(uart) /\ UNCHANGED <<light, overrun, pico, fields, savedNonce, replies>>
    BY <1>7 DEF Hunt, history
  <2>2. Head(uart) \in SoundChunk /\ uart' \in Seq(SoundChunk)
    BY <1>0, <2>1, TakeSound
  <2>3. reading' = "none" \/ reading' = Head(uart).of.type
    BY <1>7 DEF Hunt
  <2>4. Head(uart).of.type \in {"KEY", "HS1", "HS3"}
    BY <2>2 DEF SoundChunk, SoundFrame, KeyFrames
  <2>5. lacking' \in 0 .. HdrSize
    <3> DEFINE h == Header(Head(uart))
    <3>1. HdrSize \in Nat /\ PreSize \in Nat
      BY SplitAssumption
    <3>2. lacking' = IF h \in PreSize .. HdrSize - 1 THEN HdrSize - h ELSE 0
      BY <1>7 DEF Hunt
    <3> HIDE DEF h
    <3> QED
      BY <3>1, <3>2
  <2>6. PicoInv'
    BY <1>0, <2>1, <2>3, <2>4, <2>5 DEF PicoInv
  <2> QED
    BY <1>0, <1>2, <1>6, <2>1, <2>2, <2>6
<1>14. CASE TryType \/ ReadLen
  <2>1. /\ UNCHANGED <<light, overrun, pico, fields, savedNonce, replies>>
        /\ reading' \in {reading, "none", "KEY", "HS1", "HS3"}
        /\ lacking' \in {0, HdrSize - PreSize - 1}
    BY <1>14 DEF TryType, ReadLen, history
  <2>2. lacking' \in 0 .. HdrSize
    BY <2>1, SplitAssumption
  <2>3. PicoInv'
    BY <1>0, <2>1, <2>2 DEF PicoInv
  <2> QED
    BY <1>0, <1>2, <1>6, <1>14, <2>1, <2>3, HeaderWire
<1>8. CASE ReadAside
  <2> DEFINE i == Len(fields) + 1
             c == Taken(Reads[i][1], Reads[i][2]).key
  <2>1. i \in 1 .. Len(Reads) /\ i < 3 /\ fields \in Seq(Field)
    <3>1. fields \in Seq(Field) /\ Len(fields) \in Nat /\ i < Len(Reads)
      BY <1>0, <1>8 DEF ReadAside, PicoInv
    <3>2. PICK m \in {1, 3} : Len(Reads) = m
      BY ReadsTyped
    <3>3. i < m
      BY <3>1, <3>2, Zenon
    <3>4. i \in 1 .. m /\ i < 3
      BY <3>1, <3>3
    <3> QED
      BY <3>1, <3>2, <3>4, Zenon
  <2>2. TakeField(Reads[i]) /\ fields' = Append(fields, c) /\ UNCHANGED <<light, overrun, pico, reading, lacking, savedNonce, replies>>
    BY <1>8 DEF ReadAside, PutAside, history
  <2>3. uart # <<>> /\ uart' \in Seq(SoundChunk)
    BY <2>1, <2>2, TakeFieldWire
  <2>4. c \in Field
    BY <1>0, <2>3, TakenTyped
  <2> HIDE DEF c
  <2>5. fields' \in Seq(Field) /\ Len(fields') < 3
    BY <2>1, <2>2, <2>4
  <2>6. PicoInv'
    BY <1>0, <2>2, <2>5 DEF PicoInv
  <2> QED
    BY <1>0, <1>2, <1>6, <2>2, <2>3, <2>6
<1>9. CASE InstallKey
  <2>1. /\ reading = "KEY" /\ Len(fields) + 1 = Len(Reads) /\ TakeField(Reads[Len(Reads)])
        /\ EndFrame /\ pico' \in {pico, [id |-> fields[1], key |-> fields[2], mac |-> Body.key]}
        /\ UNCHANGED <<light, overrun, savedNonce, replies>>
    BY <1>9 DEF InstallKey, LastRead, history
  <2>2. Len(fields) = 2 /\ Len(Reads) \in 1 .. Len(Reads) /\ fields \in Seq(Field)
    <3>1. fields \in Seq(Field) /\ Len(fields) \in Nat
      BY <1>0 DEF PicoInv
    <3>2. Len(Reads) = 3
      BY <2>1, ReadsTyped
    <3>3. PICK n \in Nat : Len(fields) = n
      BY <3>1
    <3>4. n + 1 = 3
      BY <2>1, <3>2, <3>3, Zenon
    <3>5. n = 2 /\ 3 \in 1 .. 3
      BY <3>4
    <3> QED
      BY <3>1, <3>2, <3>3, <3>5, Zenon
  <2>3. uart # <<>> /\ uart' \in Seq(SoundChunk)
    BY <2>1, <2>2, TakeFieldWire
  <2>4. Body.key \in Field /\ fields[1] \in Field /\ fields[2] \in Field
    <3>1. Body.key \in Field
      BY <1>0, <2>3, TakenTyped DEF Body
    <3>2. 1 \in 1 .. Len(fields) /\ 2 \in 1 .. Len(fields)
      BY <2>2
    <3>3. \A m \in 1 .. Len(fields) : fields[m] \in Field
      BY <2>2, SeqElements
    <3> QED
      BY <3>1, <3>2, <3>3, Zenon
  <2>5. pico' \in [id : Field, key : Field, mac : Field]
    BY <1>0, <2>1, <2>4 DEF PicoInv
  <2>6. PicoInv'
    BY <1>0, <2>1, <2>5, NothingLacks DEF PicoInv, EndFrame
  <2> QED
    BY <1>0, <1>2, <1>6, <2>1, <2>3, <2>6
<1>10. CASE ReadExpires
  <2>1. uart' = <<>> /\ light' = light
    BY <1>10 DEF ReadExpires
  <2>2. PicoInv'
    BY <1>0, <1>10, NothingLacks DEF PicoInv, ReadExpires, GivesUp, EndFrame, history
  <2>3. uart' \in Seq(SoundChunk)
    BY <2>1
  <2> QED
    BY <1>0, <1>2, <1>6, <2>1, <2>2, <2>3
<1>11. CASE SendId
  <2>1. /\ light' = Append(light, [type |-> "ID", id |-> pico.id])
        /\ UNCHANGED <<uart, picoVars, overrun>>
    BY <1>11 DEF SendId, history
  <2>2. [type |-> "ID", id |-> pico.id] \in SoundLight
    BY <1>0 DEF PicoInv, SoundLight
  <2> QED
    BY <1>0, <1>2, <1>6, <2>1, <2>2, PutSound, SamePico
<1>12. CASE Overflow
  <2>1. /\ UNCHANGED <<light, picoVars>> /\ overrun' = TRUE
        /\ \E i \in 0 .. Len(uart) - 1 : uart' = SubSeq(uart, 1, i)
    BY <1>12 DEF Overflow
  <2>2. uart' \in Seq(SoundChunk)
    BY <1>0, <2>1
  <2>3. PicoInv'
    BY <1>0, <2>1 DEF PicoInv, picoVars
  <2> QED
    BY <1>0, <1>2, <1>6, <2>1, <2>2, <2>3
<1>13. CASE LoseLight
  <2>1. light # <<>> /\ light' = Tail(light) /\ UNCHANGED <<uart, picoVars, overrun>>
    BY <1>13 DEF LoseLight, history
  <2> QED
    BY <1>0, <1>2, <1>6, <2>1, TakeSound, SamePico
<1> QED
  BY <1>7, <1>8, <1>9, <1>10, <1>11, <1>12, <1>13, <1>14

LEMMA RebootStep ==
  ASSUME HandshakeInv, Reboot
  PROVE  HandshakeInv' /\ MAStep
<1>1. /\ UNCHANGED <<manager, asker, replies, light, answered, rDone, pDone, overrun>>
      /\ savedNonce' = 0 /\ uart' = <<>> /\ EndFrame
  BY DEF Reboot, history
<1>2. SoundChunk' = SoundChunk /\ SoundLight' = SoundLight
  BY <1>1, SameSound DEF asker
<1>3. AskerInv' /\ ManagerInv' /\ WireInv'
  BY <1>1, <1>2, SameAsker DEF HandshakeInv, ManagerInv, manager, WireInv
<1>4. pico' \in [id : Field, key : Field, mac : Field]
  <2>1. pico \in [id : Field, key : Field, mac : Field] /\ None \in Field /\ Key \subseteq Field
    BY DEF HandshakeInv, PicoInv, Field
  <2>2. CASE pico' = [pico EXCEPT !.mac = None]
    BY <2>1, <2>2
  <2>3. ASSUME NEW k \in Key \cup {None}, pico' = Pair(k)
        PROVE  pico' \in [id : Field, key : Field, mac : Field]
    <3>1. k \in Field
      BY <2>1, <2>3
    <3> QED
      BY <2>1, <2>3, <3>1 DEF Pair
  <2> QED
    BY <2>2, <2>3 DEF Reboot
<1>5. PicoInv'
  BY <1>1, <1>4, NothingLacks DEF HandshakeInv, PicoInv, EndFrame
<1>6. MAStep
  BY <1>1 DEF MAStep, MA!Next, MA!Forget, asker, WritingHS1
<1> QED
  BY <1>3, <1>5, <1>6 DEF HandshakeInv

(* HS1 is answered, or has no effect.                                      *)
LEMMA AnswerStep ==
  ASSUME HandshakeInv, AnswerHS1
  PROVE  HandshakeInv' /\ MAStep
<1>0. /\ uart \in Seq(SoundChunk) /\ light \in Seq(SoundLight) /\ AskerInv /\ PicoInv
      /\ challenges \in Nat /\ replies \in Nat
  BY DEF HandshakeInv, WireInv, AskerInv, PicoInv
<1>1. /\ reading = "HS1" /\ TakeField(Reads[Len(Reads)]) /\ EndFrame
      /\ UNCHANGED <<pico, rDone, pDone, overrun>>
  BY DEF AnswerHS1, LastRead
<1>2. uart # <<>> /\ uart' \in Seq(SoundChunk) /\ UNCHANGED <<manager, asker>>
  <2>1. Len(Reads) \in 1 .. Len(Reads)
    BY <1>1, ReadsTyped
  <2> QED
    BY <1>1, <2>1, TakeFieldWire
<1>3. CASE UNCHANGED <<savedNonce, replies, light, answered>>
  <2>1. SoundChunk' = SoundChunk /\ SoundLight' = SoundLight
    BY <1>1, <1>2, <1>3, SameSound DEF asker
  <2>2. AskerInv' /\ ManagerInv' /\ WireInv'
    BY <1>0, <1>1, <1>2, <1>3, <2>1, SameAsker DEF HandshakeInv, ManagerInv, manager, WireInv
  <2>3. PicoInv'
    BY <1>0, <1>1, <1>3, NothingLacks DEF PicoInv, EndFrame
  <2>4. MAStep
    BY <1>1, <1>2, <1>3, SameHandshake
  <2> QED
    BY <2>2, <2>3, <2>4 DEF HandshakeInv
<1> DEFINE en == Decrypted(Body)
<1>4. ASSUME replies' = replies + 1, savedNonce' = replies',
             light' = Append(light, HS2(en, replies')),
             answered' = answered \cup {<<en, replies'>>}
      PROVE  HandshakeInv' /\ MAStep
  <2>1. en \in 1 .. challenges \cup {Junk}
    <3>1. \/ Body \in SoundFrame /\ Body.type = "HS1"
          \/ Body.en = Junk
      BY <1>0, <1>1, <1>2, TakenTyped DEF Body
    <3>2. Body.en \in 1 .. challenges \cup {Junk}
      BY <3>1 DEF SoundFrame, KeyFrames
    <3> QED
      BY <3>2 DEF Decrypted
  <2> HIDE DEF en
  <2>2. UNCHANGED challenges
    BY <1>2 DEF asker
  <2>3. /\ SoundChunk \subseteq SoundChunk' /\ SoundLight \subseteq SoundLight'
        /\ AskerChunk("HS1") \subseteq AskerChunk("HS1")'
        /\ AskerChunk("HS3") \subseteq AskerChunk("HS3")'
    BY <1>0, <1>1, <1>4, <2>2, StaysSound
  <2>4. HS2(en, replies') \in SoundLight'
    BY <1>0, <1>1, <1>4, <2>1, <2>2 DEF HS2, SoundLight, PicoInv
  <2>5. WireInv'
    <3>1. uart' \in Seq(SoundChunk') /\ light \in Seq(SoundLight')
      BY <1>0, <1>2, <2>3, SeqGrows
    <3> QED
      BY <1>4, <2>4, <3>1, PutSound DEF WireInv
  <2>6. AskerInv'
    <3>1. aWrites' \in Seq(AskerChunk("HS1")') \cup Seq(AskerChunk("HS3")')
      BY <1>0, <1>2, <2>3, SeqGrows DEF AskerInv, asker
    <3> QED
      BY <1>0, <1>2, <3>1 DEF AskerInv, asker, WritingHS1
  <2>7. PicoInv' /\ ManagerInv'
    BY <1>0, <1>1, <1>2, <1>4, NothingLacks DEF PicoInv, EndFrame, HandshakeInv, ManagerInv, manager
  <2>8. MAStep
    <3>1. MA!Answer(en)
      BY <1>1, <1>2, <1>4 DEF MA!Answer, asker, WritingHS1
    <3> QED
      BY <2>1, <3>1 DEF MAStep, MA!Next
  <2> QED
    BY <2>5, <2>6, <2>7, <2>8 DEF HandshakeInv
<1> QED
  BY <1>3, <1>4 DEF AnswerHS1

(* HS3 that passes the check is one the receiver sent.                     *)
LEMMA AcceptStep ==
  ASSUME HandshakeInv, AcceptHS3
  PROVE  HandshakeInv' /\ MAStep
<1>0. uart \in Seq(SoundChunk) /\ AskerInv /\ PicoInv
  BY DEF HandshakeInv, WireInv
<1>1. /\ reading = "HS3" /\ TakeField(Reads[Len(Reads)]) /\ EndFrame /\ savedNonce' = 0
      /\ pDone' = (IF ChecksHS3(Body) THEN pDone \cup {<<Body.en, Body.pn>>} ELSE pDone)
      /\ UNCHANGED <<pico, replies, light, answered, rDone, overrun>>
  BY DEF AcceptHS3, LastRead
<1>2. uart # <<>> /\ uart' \in Seq(SoundChunk) /\ UNCHANGED <<manager, asker>>
  <2>1. Len(Reads) \in 1 .. Len(Reads)
    BY <1>1, ReadsTyped
  <2> QED
    BY <1>1, <2>1, TakeFieldWire
<1>3. SoundChunk' = SoundChunk /\ SoundLight' = SoundLight
  BY <1>1, <1>2, SameSound DEF asker
<1>4. AskerInv' /\ ManagerInv' /\ WireInv'
  BY <1>0, <1>1, <1>2, <1>3, SameAsker DEF HandshakeInv, ManagerInv, manager, WireInv
<1>5. PicoInv'
  BY <1>0, <1>1, NothingLacks DEF PicoInv, EndFrame
<1>6. MAStep
  <2>1. CASE ~ChecksHS3(Body)
    BY <1>1, <1>2, <2>1 DEF MAStep, MA!Next, MA!Forget, asker, WritingHS1
  <2>2. CASE ChecksHS3(Body)
    <3>1. Body.pn = savedNonce /\ savedNonce \in Nat
      BY <1>0, <2>2 DEF ChecksHS3, PicoInv
    <3>2. Body \in SoundFrame /\ Body.type = "HS3"
      BY <1>0, <1>1, <1>2, <3>1, TakenTyped DEF Body, Junk
    <3>3. Body.pn # 0 /\ <<Body.en, Body.pn>> \in rDone /\ Body.en \in 1 .. challenges
      BY <3>2 DEF SoundFrame, KeyFrames
    <3>4. MA!PicoAccepts(Body.en)
      BY <1>1, <1>2, <2>2, <3>1, <3>3 DEF MA!PicoAccepts, asker, WritingHS1
    <3> QED
      BY <3>3, <3>4 DEF MAStep, MA!Next
  <2> QED
    BY <2>1, <2>2
<1> QED
  BY <1>4, <1>5, <1>6 DEF HandshakeInv

LEMMA HandshakeInit == Init => HandshakeInv /\ MA!Init
<1> SUFFICES ASSUME Init PROVE HandshakeInv /\ MA!Init
  OBVIOUS
<1>1. WireInv
  BY DEF Init, WireInv
<1>2. ManagerInv
  BY FrameBegins DEF Init, Start, ManagerInv
<1>3. AskerInv
  BY DEF Init, AskerInv
<1>4. PicoInv
  <2>1. None \in Field /\ Key \subseteq Field
    BY DEF Field
  <2>2. pico \in [id : Field, key : Field, mac : Field]
    BY <2>1 DEF Init, Pair
  <2>3. fields \in Seq(Field) /\ Len(fields) < 3
    BY DEF Init
  <2>4. savedNonce \in 0 .. replies /\ replies \in Nat
    BY DEF Init
  <2>5. overrun \in BOOLEAN /\ reading \in {"none", "KEY", "HS1", "HS3"} /\ lacking \in 0 .. HdrSize
    BY NothingLacks DEF Init
  <2> QED
    BY <2>2, <2>3, <2>4, <2>5 DEF PicoInv
<1>5. MA!Init
  BY DEF Init, MA!Init, WritingHS1
<1> QED
  BY <1>1, <1>2, <1>3, <1>4, <1>5 DEF HandshakeInv

LEMMA HandshakeStep ==
  ASSUME HandshakeInv, [Next]_vars
  PROVE  HandshakeInv' /\ MAStep
<1>1. CASE UNCHANGED vars
  <2>1. UNCHANGED <<manager, asker, uart, picoVars, light, history>>
    BY <1>1 DEF vars
  <2>2. SoundChunk' = SoundChunk /\ SoundLight' = SoundLight
    BY <2>1, SameSound DEF asker, picoVars, history
  <2>3. HandshakeInv'
    BY <2>1, <2>2, SameAsker, SamePico
       DEF HandshakeInv, WireInv, ManagerInv, manager, picoVars, history
  <2> QED
    BY <2>1, <2>3, SameHandshake DEF picoVars, history
<1>2. CASE Operator
  BY <1>2, ManagerStep, AskStep, AskerStopsStep, PicoReadsStep, RebootStep DEF Operator
<1>3. CASE ManagerWrites
  BY <1>3, ManagerStep
<1>4. CASE AskerLoop
  BY <1>4, AskerWritesStep, AskStep, HearHS2Step, AskerStopsStep DEF AskerLoop
<1>5. CASE PicoLoop
  BY <1>5, PicoReadsStep, AnswerStep, AcceptStep DEF PicoLoop
<1>6. CASE Overflow \/ LoseLight
  BY <1>6, PicoReadsStep
<1> QED
  BY <1>1, <1>2, <1>3, <1>4, <1>5, <1>6 DEF Next

(* Types, and that every frame on the wire or half-written by the asker    *)
(* says what did happen: its challenge was drawn, its nonce answered, its  *)
(* pair accepted (ask_receiver.c, 669-756).                                *)
THEOREM HandshakeInvariant == Spec => []HandshakeInv
<1>1. Init => HandshakeInv
  BY HandshakeInit
<1>2. HandshakeInv /\ [Next]_vars => HandshakeInv'
  BY HandshakeStep
<1> QED
  BY <1>1, <1>2, PTL DEF Spec
-----------------------------------------------------------------------------
(* The order of the manager's chunks                                       *)

LEMMA OfManager == \A c \in SoundChunk : OfKey(c) => c \in ManagerChunk
<1> SUFFICES ASSUME NEW c \in SoundChunk, OfKey(c) PROVE c \in ManagerChunk
  OBVIOUS
<1>1. c \in [of : SoundFrame, part : KeyParts \cup {"body"}, size : Nat \ {0}, fresh : BOOLEAN]
      /\ c.part # "body"
  BY DEF SoundChunk, OfKey
<1>2. c.of \in KeyFrames
  BY <1>1 DEF SoundFrame, OfKey
<1> QED
  BY <1>1, <1>2 DEF ManagerChunk

LEMMA OfManagerNext == (\A c \in SoundChunk : OfKey(c) => c \in ManagerChunk)'
  BY OfManager, PTL

LEMMA AppendAt ==
  ASSUME NEW C, NEW u \in Seq(C), NEW c \in C
  PROVE  /\ Append(u, c) \in Seq(C) /\ Len(u) \in Nat /\ Len(Append(u, c)) = Len(u) + 1
         /\ \A i \in 1 .. Len(u) : Append(u, c)[i] = u[i]
         /\ Append(u, c)[Len(u) + 1] = c
  OBVIOUS

LEMMA SameBefore ==
  ASSUME NEW C, NEW u \in Seq(C), NEW c \in C, NEW j \in 1 .. Len(u) + 1, NEW d
  PROVE  /\ First(Append(u, c), j) <=> First(u, j)
         /\ InOrder(Append(u, c), j, d) <=> InOrder(u, j, d)
<1> DEFINE v == Append(u, c)
<1>1. Len(u) \in Nat /\ \A i \in 1 .. Len(u) : v[i] = u[i]
  BY AppendAt
<1> HIDE DEF v
<1>2. \A i \in 1 .. j - 1 : v[i] = u[i] /\ \A h \in i + 1 .. j - 1 : v[h] = u[h]
  BY <1>1
<1>3. First(v, j) <=> First(u, j)
  BY <1>2 DEF First
<1>4. \A i \in 1 .. j - 1 : FollowsAt(v, i, j, d) <=> FollowsAt(u, i, j, d)
  BY <1>2 DEF FollowsAt
<1> QED
  BY <1>3, <1>4 DEF InOrder, v

LEMMA AppendOrdered ==
  ASSUME NEW C, NEW u \in Seq(C), NEW c \in C
  PROVE  Ordered(Append(u, c)) <=> Ordered(u) /\ (OfKey(c) => InOrder(u, Len(u) + 1, c))
<1> DEFINE v == Append(u, c)
<1>1. /\ Len(u) \in Nat /\ Len(v) = Len(u) + 1 /\ v[Len(u) + 1] = c
      /\ \A j \in 1 .. Len(u) : v[j] = u[j]
  BY AppendAt
<1>2. \A j \in 1 .. Len(u) + 1 : InOrder(v, j, v[j]) <=> InOrder(u, j, v[j])
  BY SameBefore
<1> HIDE DEF v
<1>3. \A j \in 1 .. Len(v) : j \in 1 .. Len(u) \/ j = Len(u) + 1
  BY <1>1
<1>4. 1 .. Len(u) \subseteq 1 .. Len(v) /\ Len(u) + 1 \in 1 .. Len(v)
      /\ 1 .. Len(u) \subseteq 1 .. Len(u) + 1 /\ Len(u) + 1 \in 1 .. Len(u) + 1
  BY <1>1
<1>5. ASSUME Ordered(v) PROVE Ordered(u) /\ (OfKey(c) => InOrder(u, Len(u) + 1, c))
  BY <1>1, <1>2, <1>4, <1>5 DEF Ordered
<1>6. ASSUME Ordered(u), OfKey(c) => InOrder(u, Len(u) + 1, c) PROVE Ordered(v)
  BY <1>1, <1>2, <1>3, <1>4, <1>6 DEF Ordered
<1> QED
  BY <1>5, <1>6 DEF v

(* The part of a frame that follows the last chunk.                        *)
LEMMA NextInOrder ==
  ASSUME NEW C, NEW u \in Seq(C), NEW c \in C, NEW d, OfKey(c), d.of = c.of, Before[d.part] = c.part,
         c.part = "cipher" => c.size >= CipherSize
  PROVE  InOrder(Append(u, c), Len(u) + 2, d)
<1> DEFINE v == Append(u, c)
           n == Len(u) + 1
<1>1. n \in Nat \ {0} /\ v[n] = c /\ Len(u) + 2 = n + 1
  BY AppendAt
<1> HIDE DEF v, n
<1>2. n \in 1 .. (n + 1) - 1 /\ n + 1 .. (n + 1) - 1 = {}
  BY <1>1
<1>3. FollowsAt(v, n, n + 1, d)
  BY <1>1, <1>2 DEF FollowsAt
<1>4. InOrder(v, n + 1, d)
  BY <1>2, <1>3 DEF InOrder
<1> QED
  BY <1>1, <1>4 DEF v

(* A chunk of the asker's does not come between.                           *)
LEMMA AcrossInOrder ==
  ASSUME NEW C, NEW u \in Seq(C), NEW c \in C, ~OfKey(c), NEW d
  PROVE  /\ First(Append(u, c), Len(u) + 2) <=> First(u, Len(u) + 1)
         /\ InOrder(u, Len(u) + 1, d) => InOrder(Append(u, c), Len(u) + 2, d)
<1> DEFINE v == Append(u, c)
           n == Len(u)
<1>1. n \in Nat /\ v[n + 1] = c /\ \A i \in 1 .. n : v[i] = u[i]
  BY AppendAt
<1> HIDE DEF v, n
<1>2. (n + 1) - 1 = n /\ (n + 2) - 1 = n + 1
  BY <1>1
<1>3. \A i \in 1 .. n + 1 : i \in 1 .. n \/ i = n + 1
  BY <1>1
<1>4. 1 .. n \subseteq 1 .. n + 1
  BY <1>1
<1>5. First(v, n + 2) <=> First(u, n + 1)
  BY <1>1, <1>2, <1>3, <1>4 DEF First
<1>6. ASSUME NEW i \in 1 .. n, FollowsAt(u, i, n + 1, d) PROVE FollowsAt(v, i, n + 2, d)
  <2>1. v[i] = u[i]
    BY <1>1
  <2>2. ASSUME NEW h \in i + 1 .. n + 1 PROVE ~OfKey(v[h])
    <3>1. CASE h = n + 1
      BY <1>1, <3>1
    <3>2. CASE h # n + 1
      <4>1. h \in i + 1 .. n /\ h \in 1 .. n
        BY <1>1, <3>2
      <4> QED
        BY <1>1, <1>2, <1>6, <4>1 DEF FollowsAt
    <3> QED
      BY <3>1, <3>2
  <2> QED
    BY <1>2, <1>6, <2>1, <2>2 DEF FollowsAt
<1>7. InOrder(u, n + 1, d) => InOrder(v, n + 2, d)
  BY <1>2, <1>4, <1>5, <1>6 DEF InOrder
<1> QED
  BY <1>5, <1>7 DEF v, n

SameKind(c, d) == c.of = d.of /\ c.part = d.part /\ c.fresh = d.fresh

LEMMA KindInOrder ==
  ASSUME NEW u, NEW j, NEW c, NEW d, SameKind(c, d), InOrder(u, j, c)
  PROVE  InOrder(u, j, d) /\ (OfKey(c) <=> OfKey(d))
  BY DEF SameKind, InOrder, FollowsAt, OfKey

(* v is w without its first chunks; the first that stays may be cut.       *)
Suffix(w, v, i) ==
  /\ i \in 1 .. Len(w) + 1 /\ Len(v) = Len(w) - i + 1
  /\ \A j \in 2 .. Len(v) : v[j] = w[j + i - 1]
  /\ v # <<>> => \/ v[1] = w[i]
                 \/ v[1].of = w[i].of /\ v[1].part = w[i].part /\ v[1].fresh = FALSE

LEMMA SuffixIndex ==
  ASSUME NEW C, NEW w \in Seq(C), NEW v \in Seq(C), NEW i, Suffix(w, v, i), NEW j \in 1 .. Len(v)
  PROVE  /\ Len(w) \in Nat /\ Len(v) \in Nat /\ i \in Nat /\ i >= 1
         /\ j + i - 1 \in 1 .. Len(w) /\ j + i - 1 >= i
         /\ v[j].of = w[j + i - 1].of /\ v[j].part = w[j + i - 1].part
         /\ j # 1 => v[j] = w[j + i - 1]
<1>1. /\ Len(w) \in Nat /\ Len(v) \in Nat /\ i \in 1 .. Len(w) + 1 /\ Len(v) = Len(w) - i + 1
  BY DEF Suffix
<1>2. j + i - 1 \in 1 .. Len(w) /\ j + i - 1 >= i /\ i >= 1 /\ i \in Nat
  BY <1>1
<1>3. CASE j = 1
  <2>1. v # <<>> /\ j + i - 1 = i
    BY <1>1, <1>3
  <2> QED
    BY <1>1, <1>2, <1>3, <2>1 DEF Suffix
<1>4. CASE j # 1
  <2>1. j \in 2 .. Len(v)
    BY <1>1, <1>4
  <2> QED
    BY <1>1, <1>2, <2>1 DEF Suffix
<1> QED
  BY <1>3, <1>4

LEMMA SuffixOrdered ==
  ASSUME NEW C, NEW w \in Seq(C), NEW v \in Seq(C), NEW i, Suffix(w, v, i), Ordered(w)
  PROVE  Ordered(v)
<1> SUFFICES ASSUME NEW j \in 1 .. Len(v), OfKey(v[j]) PROVE InOrder(v, j, v[j])
  BY DEF Ordered
<1> DEFINE m == j + i - 1
<1>1. /\ Len(w) \in Nat /\ Len(v) \in Nat /\ i \in Nat /\ i >= 1 /\ m \in 1 .. Len(w)
      /\ v[j].of = w[m].of /\ v[j].part = w[m].part
  BY SuffixIndex
<1>2. ASSUME NEW h \in 1 .. j - 1
      PROVE  /\ v[h].of = w[h + i - 1].of /\ v[h].part = w[h + i - 1].part
             /\ h # 1 => v[h] = w[h + i - 1]
  <2>1. h \in 1 .. Len(v)
    BY <1>1
  <2> QED
    BY <2>1, SuffixIndex
<1>3. InOrder(w, m, w[m])
  BY <1>1 DEF Ordered, OfKey
<1>4. CASE w[m].part = "hdr"
  BY <1>1, <1>4 DEF InOrder
<1>5. ASSUME NEW f \in Nat, f < i, \A h \in f + 1 .. m - 1 : ~OfKey(w[h]) PROVE First(v, j)
  <2>1. \A h \in 1 .. j - 1 : h + i - 1 \in f + 1 .. m - 1
    BY <1>1, <1>5
  <2> QED
    BY <1>2, <1>5, <2>1 DEF First, OfKey
<1>6. CASE First(w, m)
  <2>1. 0 \in Nat /\ 0 < i /\ 0 + 1 = 1
    BY <1>1
  <2>2. First(v, j)
    BY <1>5, <1>6, <2>1 DEF First
  <2> QED
    BY <2>2 DEF InOrder
<1>7. ASSUME NEW f \in 1 .. m - 1, FollowsAt(w, f, m, w[m]) PROVE InOrder(v, j, v[j])
  <2>1. CASE f < i
    <3>1. First(v, j)
      BY <1>1, <1>5, <1>7, <2>1 DEF FollowsAt
    <3> QED
      BY <3>1 DEF InOrder
  <2>2. CASE f >= i
    <3> DEFINE g == f - i + 1
    <3>1. g \in 1 .. j - 1 /\ g + i - 1 = f /\ (g # 1 => f # 1)
      <4>1. j \in Nat /\ i \in Nat /\ i >= 1 /\ f \in Nat /\ f >= 1 /\ f <= (j + i - 1) - 1
        BY <1>1
      <4>2. g \in Nat /\ g >= 1 /\ g <= j - 1 /\ g + i - 1 = f
        BY <2>2, <4>1
      <4>3. g # 1 => f # 1
        BY <2>2, <4>1
      <4> HIDE DEF g
      <4> QED
        BY <4>1, <4>2, <4>3
    <3>2. v[g].of = w[f].of /\ v[g].part = w[f].part /\ (g # 1 => v[g] = w[f])
      <4> HIDE DEF g
      <4> QED
        BY <1>2, <3>1
    <3>3. ASSUME NEW h \in g + 1 .. j - 1 PROVE ~OfKey(v[h])
      <4>1. h \in 1 .. j - 1 /\ h + i - 1 \in f + 1 .. m - 1
        BY <1>1, <2>2
      <4> HIDE DEF g, m
      <4>2. ~OfKey(w[h + i - 1])
        BY <1>7, <4>1 DEF FollowsAt
      <4> QED
        BY <1>2, <4>1, <4>2 DEF OfKey
    <3> HIDE DEF g, m
    <3>4. FollowsAt(v, g, j, v[j])
      BY <1>1, <1>7, <3>1, <3>2, <3>3 DEF FollowsAt, OfKey
    <3> QED
      BY <3>1, <3>4 DEF InOrder
  <2> QED
    BY <1>1, <2>1, <2>2
<1> QED
  BY <1>3, <1>4, <1>6, <1>7 DEF InOrder
(* Of the manager's, the chunk that v begins with begins w too, or a frame. *)
Begins(w, v) ==
  \A j \in 1 .. Len(v) : OfKey(v[j]) /\ First(v, j) =>
    \/ v[j].part = "hdr"
    \/ \E i \in 1 .. Len(w) : i <= j /\ OfKey(w[i]) /\ First(w, i) /\ SameKind(w[i], v[j])

LEMMA BeginsSelf ==
  ASSUME NEW C, NEW w \in Seq(C)
  PROVE  Begins(w, w)
<1>1. \A j \in 1 .. Len(w) : j <= j /\ SameKind(w[j], w[j])
  BY DEF SameKind
<1> QED
  BY <1>1 DEF Begins

LEMMA BeginsPrefix ==
  ASSUME NEW C, NEW u \in Seq(C), NEW h \in C
  PROVE  Begins(Append(u, h), u)
<1> DEFINE w == Append(u, h)
<1>1. /\ Len(u) \in Nat /\ 1 .. Len(u) \subseteq 1 .. Len(w)
      /\ \A j \in 1 .. Len(u) : w[j] = u[j] /\ j \in 1 .. Len(u) + 1 /\ j <= j
  BY AppendAt
<1>2. \A j \in 1 .. Len(u) : First(w, j) <=> First(u, j)
  BY <1>1, SameBefore
<1> HIDE DEF w
<1>3. \A j \in 1 .. Len(u) : SameKind(w[j], u[j])
  BY <1>1 DEF SameKind
<1>4. Begins(w, u)
  BY <1>1, <1>2, <1>3 DEF Begins
<1> QED
  BY <1>4 DEF w

LEMMA BeginsMore ==
  ASSUME NEW C, NEW w, NEW u \in Seq(C), NEW c \in C, Begins(w, u),
         OfKey(c) /\ First(u, Len(u) + 1) =>
           \/ c.part = "hdr"
           \/ \E i \in 1 .. Len(w) : i <= Len(u) + 1 /\ OfKey(w[i]) /\ First(w, i) /\ SameKind(w[i], c)
  PROVE  Begins(w, Append(u, c))
<1> DEFINE v == Append(u, c)
<1>1. /\ Len(u) \in Nat /\ Len(v) = Len(u) + 1 /\ v[Len(u) + 1] = c
      /\ \A j \in 1 .. Len(u) : v[j] = u[j]
  BY AppendAt
<1>2. \A j \in 1 .. Len(u) + 1 : First(v, j) <=> First(u, j)
  BY SameBefore
<1> HIDE DEF v
<1>3. ASSUME NEW j \in 1 .. Len(v), OfKey(v[j]), First(v, j)
      PROVE  \/ v[j].part = "hdr"
             \/ \E i \in 1 .. Len(w) : i <= j /\ OfKey(w[i]) /\ First(w, i) /\ SameKind(w[i], v[j])
  <2>1. CASE j = Len(u) + 1
    BY <1>1, <1>2, <1>3, <2>1
  <2>2. CASE j # Len(u) + 1
    <3>1. j \in 1 .. Len(u) /\ j \in 1 .. Len(u) + 1
      BY <1>1, <2>2
    <3> QED
      BY <1>1, <1>2, <1>3, <3>1 DEF Begins
  <2> QED
    BY <2>1, <2>2
<1> QED
  BY <1>3 DEF Begins, v

(* What the Pico has of a frame still fits a wire that begins the same.    *)
LEMMA FieldsKept ==
  ASSUME NEW C, \A c \in C : OfKey(c) => c \in ManagerChunk,
         Wire \in Seq(C), Wire' \in Seq(C), Begins(Wire, Wire'),
         UNCHANGED <<reading, fields, lacking>>, FieldsInv
  PROVE  FieldsInv'
<1>1. \A j \in 1 .. Len(Wire') : OfKey(Wire'[j]) => Wire'[j] \in ManagerChunk
  <2> DEFINE v == Wire'
  <2>1. v \in Seq(C)
    OBVIOUS
  <2> HIDE DEF v
  <2>2. \A j \in 1 .. Len(v) : v[j] \in C
    BY <2>1
  <2> QED
    BY <2>2 DEF v
<1>2. ASSUME NEW kind, FirstIn(Wire, kind), {c \in ManagerChunk : c.part = "hdr"} \subseteq kind,
             \A c \in kind : \A d \in ManagerChunk : SameKind(c, d) => d \in kind
      PROVE  FirstIn(Wire', kind)
  <2> SUFFICES ASSUME NEW j \in 1 .. Len(Wire'), OfKey(Wire'[j]), First(Wire', j)
               PROVE  Wire'[j] \in kind
    BY DEF FirstIn
  <2>1. Wire'[j] \in ManagerChunk
    BY <1>1
  <2>2. CASE Wire'[j].part = "hdr"
    BY <1>2, <2>1, <2>2
  <2>3. ASSUME NEW i \in 1 .. Len(Wire), OfKey(Wire[i]), First(Wire, i), SameKind(Wire[i], Wire'[j])
        PROVE  Wire'[j] \in kind
    BY <1>2, <2>1, <2>3 DEF FirstIn
  <2> QED
    BY <2>2, <2>3 DEF Begins
<1>3. ASSUME NEW k, FirstIn(Wire, AfterId(k)) PROVE FirstIn(Wire', AfterId(k))
  <2>1. {c \in ManagerChunk : c.part = "hdr"} \subseteq AfterId(k)
    BY DEF AfterId
  <2>2. \A c \in AfterId(k) : \A d \in ManagerChunk : SameKind(c, d) => d \in AfterId(k)
    BY DEF AfterId, SameKind
  <2> QED
    BY <1>2, <1>3, <2>1, <2>2
<1>4. ASSUME NEW k, FirstIn(Wire, AfterCipher(k)) PROVE FirstIn(Wire', AfterCipher(k))
  <2>1. {c \in ManagerChunk : c.part = "hdr"} \subseteq AfterCipher(k)
    BY DEF AfterCipher
  <2>2. \A c \in AfterCipher(k) : \A d \in ManagerChunk : SameKind(c, d) => d \in AfterCipher(k)
    BY DEF AfterCipher, SameKind
  <2> QED
    BY <1>2, <1>4, <2>1, <2>2
<1>5. ASSUME NEW k, NoOtherMac(Wire, k) PROVE NoOtherMac(Wire', k)
  <2> SUFFICES ASSUME Wire' # <<>>, OfKey(Wire'[1]), Wire'[1].part = "mac", Wire'[1].fresh
               PROVE  Wire'[1].of.key = k
    BY DEF NoOtherMac
  <2>1. 1 \in 1 .. Len(Wire')
    <3> DEFINE v == Wire'
    <3>1. v \in Seq(C) /\ v # <<>>
      OBVIOUS
    <3> HIDE DEF v
    <3>2. 1 \in 1 .. Len(v)
      BY <3>1
    <3> QED
      BY <3>2 DEF v
  <2>2. First(Wire', 1)
    BY DEF First
  <2>3. PICK i \in 1 .. Len(Wire) : i <= 1 /\ OfKey(Wire[i]) /\ SameKind(Wire[i], Wire'[1])
    BY <2>1, <2>2 DEF Begins
  <2>4. i = 1 /\ Wire # <<>>
    <3> DEFINE u == Wire
    <3>1. u \in Seq(C) /\ i \in 1 .. Len(u) /\ i <= 1
      BY <2>3
    <3> HIDE DEF u
    <3>2. i = 1 /\ u # <<>>
      BY <3>1
    <3> QED
      BY <3>2 DEF u
  <2> QED
    BY <1>5, <2>3, <2>4 DEF NoOtherMac, SameKind
<1> HIDE DEF Wire
<1> QED
  BY <1>3, <1>4, <1>5 DEF FieldsInv

LEMMA StreamKept ==
  ASSUME NEW C, \A c \in C : OfKey(c) => c \in ManagerChunk,
         Wire \in Seq(C), Wire' \in Seq(C), StreamInv,
         Ordered(Wire) => Ordered(Wire') /\ Begins(Wire, Wire'),
         UNCHANGED <<reading, fields, lacking, pico, overrun>>
  PROVE  StreamInv'
<1> SUFFICES ASSUME ~overrun PROVE (Ordered(Wire) /\ FieldsInv /\ PartsOfOneKey)'
  BY DEF StreamInv
<1>1. Ordered(Wire) /\ FieldsInv /\ PartsOfOneKey
  BY DEF StreamInv
<1>2. Ordered(Wire') /\ Begins(Wire, Wire')
  BY <1>1
<1>3. FieldsInv'
  BY <1>1, <1>2, FieldsKept
<1> QED
  BY <1>1, <1>2, <1>3 DEF PartsOfOneKey
(* What the manager has left begins with a chunk of its own.               *)
LEMMA ManagerHead ==
  ASSUME HandshakeInv, mWrites # <<>>
  PROVE  /\ Head(mWrites) \in SoundChunk /\ OfKey(Head(mWrites)) /\ Wire = Append(uart, Head(mWrites))
         /\ Head(mWrites).part = "cipher" => Head(mWrites).size >= CipherSize
         /\ \/ Tail(mWrites) = <<>>
            \/ /\ Tail(mWrites) # <<>> /\ Head(Tail(mWrites)) \in SoundChunk
               /\ Head(Tail(mWrites)).of = Head(mWrites).of
               /\ Before[Head(Tail(mWrites)).part] = Head(mWrites).part
<1>1. PICK k \in Key : mWrites \in EndsOf(k)
  BY DEF HandshakeInv, ManagerInv
<1> QED
  BY <1>1, EndsOfFrame DEF Wire

LEMMA WireSound ==
  ASSUME HandshakeInv
  PROVE  /\ uart \in Seq(SoundChunk) /\ Wire \in Seq(SoundChunk)
         /\ Begins(Wire, Wire) /\ Begins(Wire, uart)
         /\ Ordered(Wire) => Ordered(uart)
<1>1. uart \in Seq(SoundChunk)
  BY DEF HandshakeInv, WireInv
<1>2. CASE mWrites = <<>>
  BY <1>1, <1>2, BeginsSelf DEF Wire
<1>3. CASE mWrites # <<>>
  <2>1. Head(mWrites) \in SoundChunk /\ Wire = Append(uart, Head(mWrites))
    BY <1>3, ManagerHead
  <2>2. Wire \in Seq(SoundChunk)
    BY <1>1, <2>1, AppendAt
  <2> QED
    BY <1>1, <2>1, <2>2, BeginsSelf, BeginsPrefix, AppendOrdered
<1> QED
  BY <1>2, <1>3

LEMMA WireSoundNext == (HandshakeInv => Wire \in Seq(SoundChunk))'
<1>1. HandshakeInv => Wire \in Seq(SoundChunk)
  BY WireSound
<1> QED
  BY <1>1, PTL

LEMMA ManagerKeepsOrder ==
  ASSUME HandshakeInv, Ordered(Wire),
         Rotate \/ SendKey \/ ForceFetch \/ ManagerStarts \/ ManagerWrites
  PROVE  Ordered(Wire') /\ Begins(Wire, Wire')
<1>0. /\ uart \in Seq(SoundChunk) /\ Wire \in Seq(SoundChunk)
      /\ Begins(Wire, Wire) /\ Begins(Wire, uart) /\ Ordered(uart)
  BY WireSound
<1>1. CASE Wire' = Wire \/ Wire' = uart
  BY <1>0, <1>1
<1>2. CASE Rotate \/ SendKey \/ ForceFetch \/ ManagerStarts
  <2>1. uart' = uart
    BY <1>2 DEF Rotate, SendKey, ForceFetch, ManagerStarts, ManagerKey
  <2>2. mWrites' = mWrites \/ mWrites' = <<>> \/ \E k \in Key : mWrites' = KeyFrame(k)
    <3>1. mKey \in Key \cup {None}
      BY DEF HandshakeInv, ManagerInv
    <3> QED
      BY <1>2, <3>1 DEF Rotate, SendKey, ForceFetch, ManagerStarts, Start
  <2>3. CASE mWrites' = mWrites
    BY <1>1, <2>1, <2>3 DEF Wire
  <2>4. CASE mWrites' = <<>>
    BY <1>1, <2>1, <2>4 DEF Wire
  <2>5. ASSUME NEW k \in Key, mWrites' = KeyFrame(k)
        PROVE  Ordered(Wire') /\ Begins(Wire, Wire')
    <3> DEFINE c == Head(KeyFrame(k))
    <3>1. /\ KeyFrame(k) # <<>> /\ c \in SoundChunk /\ c.part = "hdr"
      BY FrameBegins, EndsOfFrame
    <3>2. Wire' = Append(uart, c)
      BY <2>1, <2>5, <3>1 DEF Wire
    <3> HIDE DEF c
    <3>3. InOrder(uart, Len(uart) + 1, c)
      BY <3>1 DEF InOrder
    <3> QED
      BY <1>0, <3>1, <3>2, <3>3, AppendOrdered, BeginsMore
  <2> QED
    BY <2>2, <2>3, <2>4, <2>5
<1>3. CASE ManagerWrites
  <2> DEFINE h == Head(mWrites)
             next == Head(Tail(mWrites))
  <2>1. /\ mWrites # <<>>
        /\ \/ uart' = Append(uart, h) /\ mWrites' = Tail(mWrites)
           \/ uart' \in Torn(h) /\ mWrites' = <<>>
    BY <1>3 DEF ManagerWrites
  <2>2. /\ h \in SoundChunk /\ OfKey(h) /\ Wire = Append(uart, h)
        /\ h.part = "cipher" => h.size >= CipherSize
        /\ \/ Tail(mWrites) = <<>>
           \/ /\ Tail(mWrites) # <<>> /\ next \in SoundChunk
              /\ next.of = h.of /\ Before[next.part] = h.part
    BY <2>1, ManagerHead
  <2> HIDE DEF h, next
  <2>3. InOrder(uart, Len(uart) + 1, h)
    BY <1>0, <2>2, AppendOrdered
  <2>4. CASE uart' = Append(uart, h) /\ mWrites' = Tail(mWrites) /\ Tail(mWrites) = <<>>
    BY <1>1, <2>2, <2>4 DEF Wire
  <2>5. CASE uart' = Append(uart, h) /\ mWrites' = Tail(mWrites) /\ Tail(mWrites) # <<>>
    <3>1. Wire' = Append(Wire, next)
      BY <2>2, <2>5 DEF Wire, next
    <3>2. /\ Len(uart) \in Nat /\ Len(Wire) = Len(uart) + 1 /\ Wire[Len(uart) + 1] = h
          /\ Len(Wire) + 1 = Len(uart) + 2
      BY <1>0, <2>2, AppendAt
    <3>3. InOrder(Wire, Len(Wire) + 1, next)
      BY <1>0, <2>2, <2>5, <3>2, NextInOrder
    <3>4. ~First(Wire, Len(Wire) + 1)
      <4>1. Len(uart) + 1 \in 1 .. (Len(Wire) + 1) - 1
        BY <3>2
      <4> QED
        BY <2>2, <3>2, <4>1 DEF First
    <3> QED
      BY <1>0, <2>2, <2>5, <3>1, <3>3, <3>4, AppendOrdered, BeginsMore
  <2>6. CASE uart' \in Torn(h) /\ mWrites' = <<>>
    <3>1. CASE uart' = uart
      BY <1>1, <2>6, <3>1 DEF Wire
    <3>2. ASSUME NEW d \in SoundChunk, SameKind(h, d), uart' = Append(uart, d)
          PROVE  Ordered(Wire') /\ Begins(Wire, Wire')
      <4>1. Wire' = Append(uart, d)
        BY <2>6, <3>2 DEF Wire
      <4>2. InOrder(uart, Len(uart) + 1, d)
        BY <2>3, <3>2, KindInOrder
      <4>3. /\ Len(uart) + 1 \in 1 .. Len(Wire) /\ Wire[Len(uart) + 1] = h
            /\ Len(uart) + 1 \in 1 .. Len(uart) + 1 /\ Len(uart) + 1 <= Len(uart) + 1
        BY <1>0, <2>2, AppendAt
      <4>4. First(uart, Len(uart) + 1) => First(Wire, Len(uart) + 1)
        BY <1>0, <2>2, <4>3, SameBefore
      <4>5. Begins(Wire, Append(uart, d))
        BY <1>0, <2>2, <3>2, <4>3, <4>4, BeginsMore
      <4> QED
        BY <1>0, <3>2, <4>1, <4>2, <4>5, AppendOrdered
    <3>3. \A d : d.of = h.of /\ d.part = h.part /\ d.fresh = h.fresh => SameKind(h, d)
      BY DEF SameKind
    <3> QED
      BY <1>0, <2>2, <2>6, <3>1, <3>2, <3>3, TornWire
  <2> QED
    BY <2>1, <2>2, <2>4, <2>5, <2>6
<1> QED
  BY <1>2, <1>3

LEMMA AskerKeepsOrder ==
  ASSUME HandshakeInv, Ordered(Wire), AskerWrites
  PROVE  Ordered(Wire') /\ Begins(Wire, Wire')
<1>0. /\ uart \in Seq(SoundChunk) /\ Wire \in Seq(SoundChunk)
      /\ Begins(Wire, Wire) /\ Begins(Wire, uart) /\ Ordered(uart)
  BY WireSound
<1>1. mWrites' = mWrites
  BY DEF AskerWrites, manager
<1>2. Head(aWrites) \in SoundChunk /\ ~OfKey(Head(aWrites))
  <2>1. aWrites # <<>> /\ aWrites \in Seq(AskerChunk("HS1")) \cup Seq(AskerChunk("HS3"))
    BY DEF AskerWrites, Looping, HandshakeInv, AskerInv
  <2>2. Head(aWrites) \in AskerChunk("HS1") \cup AskerChunk("HS3")
    BY <2>1
  <2> QED
    BY <2>2 DEF AskerChunk, OfKey
<1>3. uart' = uart \/ \E c \in SoundChunk : ~OfKey(c) /\ uart' = Append(uart, c)
  <2>1. uart' = Append(uart, Head(aWrites)) \/ uart' \in Torn(Head(aWrites))
    BY DEF AskerWrites
  <2>2. CASE uart' \in Torn(Head(aWrites))
    <3>1. \/ uart' = uart
          \/ \E d \in SoundChunk : d.of = Head(aWrites).of /\ uart' = Append(uart, d)
      BY <1>0, <1>2, <2>2, TornWire
    <3> QED
      BY <1>2, <3>1 DEF OfKey
  <2> QED
    BY <1>2, <2>1, <2>2
<1>4. CASE uart' = uart
  BY <1>0, <1>1, <1>4 DEF Wire
<1>5. ASSUME NEW c \in SoundChunk, ~OfKey(c), uart' = Append(uart, c)
      PROVE  Ordered(Wire') /\ Begins(Wire, Wire')
  <2>1. /\ Append(uart, c) \in Seq(SoundChunk) /\ Len(uart) \in Nat
        /\ Len(Append(uart, c)) + 1 = Len(uart) + 2
    BY <1>0, AppendAt
  <2>2. Ordered(Append(uart, c)) /\ Begins(Wire, Append(uart, c))
    BY <1>0, <1>5, AppendOrdered, BeginsMore
  <2>3. CASE mWrites = <<>>
    BY <1>1, <1>5, <2>2, <2>3 DEF Wire
  <2>4. CASE mWrites # <<>>
    <3> DEFINE h == Head(mWrites)
    <3>1. h \in SoundChunk /\ Wire = Append(uart, h) /\ Wire' = Append(Append(uart, c), h)
      BY <1>1, <1>5, <2>4, ManagerHead DEF Wire
    <3> HIDE DEF h
    <3>2. OfKey(h) => InOrder(Append(uart, c), Len(Append(uart, c)) + 1, h)
      BY <1>0, <1>5, <2>1, <3>1, AppendOrdered, AcrossInOrder
    <3>3. /\ Len(uart) + 1 \in 1 .. Len(Wire) /\ Wire[Len(uart) + 1] = h
          /\ Len(uart) + 1 <= Len(Append(uart, c)) + 1 /\ Len(uart) + 1 \in 1 .. Len(uart) + 1
      BY <1>0, <2>1, <3>1, AppendAt
    <3>4. First(Append(uart, c), Len(Append(uart, c)) + 1) => First(Wire, Len(uart) + 1)
      BY <1>0, <1>5, <2>1, <3>1, <3>3, AcrossInOrder, SameBefore
    <3>5. SameKind(h, h)
      BY DEF SameKind
    <3>6. Begins(Wire, Append(Append(uart, c), h))
      BY <2>1, <2>2, <3>1, <3>3, <3>4, <3>5, BeginsMore
    <3> QED
      BY <2>1, <2>2, <3>1, <3>2, <3>6, AppendOrdered
  <2> QED
    BY <2>3, <2>4
<1> QED
  BY <1>3, <1>4, <1>5

(* Steps at which the Pico reads nothing and loses nothing.                *)
LEMMA WritesKeepStream ==
  ASSUME HandshakeInv, HandshakeInv', StreamInv,
         \/ Rotate \/ SendKey \/ ForceFetch \/ ManagerStarts \/ ManagerWrites
         \/ AskerLoop \/ TypeKeyId \/ AskerStarts \/ SendId \/ LoseLight
         \/ UNCHANGED vars
  PROVE  StreamInv'
<1>1. UNCHANGED <<reading, fields, lacking, pico, overrun>>
  BY DEF Rotate, SendKey, ForceFetch, ManagerStarts, ManagerKey, ManagerWrites, AskerLoop, AskerWrites,
         HearKeyId, HearHS2, Timeout, TypeKeyId, AskerStarts, SendId, LoseLight, vars, picoVars, history
<1> DEFINE C == SoundChunk \cup SoundChunk'
<1>2. \A c \in C : OfKey(c) => c \in ManagerChunk
  BY OfManager, OfManagerNext
<1>3. Wire \in Seq(C)
  BY WireSound, SeqGrows
<1>4. Wire' \in Seq(C)
  <2>1. Wire' \in Seq(SoundChunk')
    BY WireSoundNext
  <2> QED
    BY <2>1, SeqGrows
<1>5. ASSUME Ordered(Wire) PROVE Ordered(Wire') /\ Begins(Wire, Wire')
  <2>1. CASE Rotate \/ SendKey \/ ForceFetch \/ ManagerStarts \/ ManagerWrites
    BY <1>5, <2>1, ManagerKeepsOrder
  <2>2. CASE AskerWrites
    BY <1>5, <2>2, AskerKeepsOrder
  <2>3. CASE UNCHANGED <<uart, mWrites>>
    BY <1>5, <2>3, WireSound DEF Wire
  <2>4. CASE HearKeyId \/ HearHS2 \/ Timeout \/ TypeKeyId \/ AskerStarts \/ SendId \/ LoseLight \/ UNCHANGED vars
    BY <2>3, <2>4 DEF HearKeyId, HearHS2, Timeout, TypeKeyId, AskerStarts, SendId, LoseLight, vars, manager
  <2> QED
    BY <2>1, <2>2, <2>4 DEF AskerLoop
<1> HIDE DEF C
<1> QED
  BY <1>1, <1>2, <1>3, <1>4, <1>5, StreamKept
-----------------------------------------------------------------------------
(* Reads                                                                   *)

(* n bytes taken end with chunk i - 1, or cut chunk i.                     *)
Takes(i, n) ==
  /\ i \in 1 .. Len(uart) + 1 /\ Suffix(uart, uart', i) /\ Upto[i - 1] <= n
  /\ uart' = <<>> => i = Len(uart) + 1 /\ Upto[i - 1] = n
  /\ uart' # <<>> /\ uart'[1].fresh => Upto[i - 1] = n
  /\ i = 1 => uart' # <<>> /\ ~uart'[1].fresh

LEMMA TakenSuffix ==
  ASSUME uart \in Seq(SoundChunk), NEW n \in Nat \ {0}, n <= Unread, uart' = Without(n)
  PROVE  \E i \in 1 .. Len(uart) + 1 : Takes(i, n)
<1>0. /\ Len(uart) \in Nat /\ DOMAIN uart = 1 .. Len(uart) /\ uart # <<>> /\ Len(uart) # 0
      /\ Upto[0] = 0 /\ \A i \in 0 .. Len(uart) : Upto[i] \in Nat
  BY UptoSum, TakenOff
<1>1. CASE uart' = <<>> /\ n = Unread
  <2> DEFINE i == Len(uart) + 1
  <2>1. i \in 1 .. Len(uart) + 1 /\ i - 1 = Len(uart) /\ i # 1 /\ Len(uart) - i + 1 = 0
    BY <1>0
  <2>2. Len(uart') = 0 /\ 2 .. Len(uart') = {}
    BY <1>1
  <2>3. Suffix(uart, uart', i)
    BY <1>1, <2>1, <2>2 DEF Suffix
  <2>4. Takes(i, n)
    BY <1>0, <1>1, <2>1, <2>3 DEF Takes, Unread
  <2> QED
    BY <2>1, <2>4
<1>2. ASSUME NEW i \in DOMAIN uart, CutAt(i, n) PROVE Takes(i, n) /\ i \in 1 .. Len(uart) + 1
  <2>1. i \in 1 .. Len(uart) /\ i \in 1 .. Len(uart) + 1 /\ i # Len(uart) + 1 /\ i - 1 \in 0 .. Len(uart)
        /\ Upto[i] \in Nat
    BY <1>0
  <2>2. uart' \in Seq(SoundChunk) /\ Len(uart') = Len(uart) - i + 1
    BY <1>2, TakenOff DEF CutAt
  <2>3. uart' # <<>>
    <3>1. Len(uart) - i + 1 # 0
      BY <1>0, <2>1
    <3> QED
      BY <2>2, <3>1
  <2>4. CASE Upto[i - 1] = n
    <3>1. uart'[1] = uart[i]
      BY <1>2, <2>4 DEF CutAt
    <3>2. i # 1
      BY <1>0, <2>4
    <3>3. Suffix(uart, uart', i)
      BY <1>2, <2>1, <2>2, <3>1 DEF Suffix, CutAt
    <3> QED
      BY <1>0, <2>1, <2>3, <2>4, <3>2, <3>3 DEF Takes
  <2>5. CASE Upto[i - 1] # n
    <3> DEFINE m == Upto[i] - n
    <3>1. uart'[1] = Cut(uart[i], m)
      BY <1>2, <2>5 DEF CutAt
    <3>2. m \in Nat \ {0} /\ uart[i] \in SoundChunk
      BY <1>0, <1>2, <2>1 DEF CutAt
    <3> HIDE DEF m
    <3>3. uart'[1].of = uart[i].of /\ uart'[1].part = uart[i].part /\ uart'[1].fresh = FALSE
      <4>1. /\ Cut(uart[i], m).of = uart[i].of /\ Cut(uart[i], m).part = uart[i].part
            /\ Cut(uart[i], m).fresh = FALSE
        BY <3>2, CutChunk
      <4> QED
        BY <3>1, <4>1
    <3>4. Suffix(uart, uart', i)
      BY <1>2, <2>1, <2>2, <3>3 DEF Suffix, CutAt
    <3>5. Upto[i - 1] <= n
      BY <1>2 DEF CutAt
    <3> QED
      BY <2>1, <2>3, <3>3, <3>4, <3>5 DEF Takes
  <2> QED
    BY <2>1, <2>4, <2>5
<1>3. (uart' = <<>> /\ n = Unread) \/ \E i \in DOMAIN uart : CutAt(i, n)
  BY TakenOff
<1> QED
  BY <1>1, <1>2, <1>3

LEMMA WireSuffix ==
  ASSUME HandshakeInv, uart' \in Seq(SoundChunk), mWrites' = mWrites, NEW i, Suffix(uart, uart', i)
  PROVE  /\ Wire' \in Seq(SoundChunk) /\ Suffix(Wire, Wire', i)
         /\ uart' # <<>> => Wire' # <<>> /\ Wire'[1] = uart'[1]
         /\ uart # <<>> => Wire # <<>> /\ Wire[1] = uart[1]
<1>1. uart \in Seq(SoundChunk)
  BY DEF HandshakeInv, WireInv
<1>2. CASE mWrites = <<>>
  BY <1>1, <1>2 DEF Wire
<1>3. CASE mWrites # <<>>
  <2> DEFINE h == Head(mWrites)
             w == Append(uart, h)
             v == Append(uart', h)
  <2>1. h \in SoundChunk /\ Wire = w /\ Wire' = v
    BY <1>3, ManagerHead DEF Wire
  <2> HIDE DEF h
  <2>2. /\ w \in Seq(SoundChunk) /\ Len(uart) \in Nat /\ Len(w) = Len(uart) + 1
        /\ \A j \in 1 .. Len(uart) : w[j] = uart[j]
        /\ w[Len(uart) + 1] = h /\ w # <<>>
    BY <1>1, <2>1, AppendAt
  <2>3. /\ v \in Seq(SoundChunk) /\ Len(uart') \in Nat /\ Len(v) = Len(uart') + 1
        /\ \A j \in 1 .. Len(uart') : v[j] = uart'[j]
        /\ v[Len(uart') + 1] = h /\ v # <<>>
    BY <2>1, AppendAt
  <2>4. i \in 1 .. Len(uart) + 1 /\ Len(uart') = Len(uart) - i + 1
    BY DEF Suffix
  <2>5. uart # <<>> => 1 \in 1 .. Len(uart)
    BY <1>1
  <2>6. uart' # <<>> => 1 \in 1 .. Len(uart')
    OBVIOUS
  <2>7. uart' = <<>> => i = Len(uart) + 1 /\ Len(uart') = 0
    BY <2>2, <2>4
  <2> HIDE DEF w, v
  <2>8. i \in 1 .. Len(w) + 1 /\ Len(v) = Len(w) - i + 1
    BY <2>2, <2>3, <2>4
  <2>9. ASSUME NEW j \in 2 .. Len(v) PROVE v[j] = w[j + i - 1]
    <3>1. CASE j = Len(uart') + 1
      <4>1. j + i - 1 = Len(uart) + 1
        BY <2>2, <2>3, <2>4, <3>1
      <4> QED
        BY <2>2, <2>3, <3>1, <4>1
    <3>2. CASE j # Len(uart') + 1
      <4>1. j \in 1 .. Len(uart') /\ j \in 2 .. Len(uart')
        <5>1. PICK n \in Nat : Len(uart') = n
          BY <2>3
        <5>2. j \in 2 .. n + 1 /\ j # n + 1
          BY <2>3, <3>2, <5>1, Zenon
        <5>3. j \in 1 .. n /\ j \in 2 .. n
          BY <5>2
        <5> QED
          BY <5>1, <5>3, Zenon
      <4>2. j + i - 1 \in 1 .. Len(uart)
        BY <2>2, <2>4, <4>1
      <4>3. uart'[j] = uart[j + i - 1]
        BY <4>1 DEF Suffix
      <4> QED
        BY <2>2, <2>3, <4>1, <4>2, <4>3
    <3> QED
      BY <3>1, <3>2
  <2>10. v[1] = w[i] \/ (v[1].of = w[i].of /\ v[1].part = w[i].part /\ v[1].fresh = FALSE)
    <3>1. CASE uart' = <<>>
      <4>1. Len(uart') + 1 = 1
        BY <2>7, <3>1
      <4> QED
        BY <2>2, <2>3, <2>7, <3>1, <4>1
    <3>2. CASE uart' # <<>>
      <4>1. v[1] = uart'[1]
        BY <2>3, <2>6, <3>2
      <4>2. i \in 1 .. Len(uart)
        BY <2>2, <2>3, <2>4, <2>6, <3>2
      <4> QED
        BY <2>2, <3>2, <4>1, <4>2 DEF Suffix
    <3> QED
      BY <3>1, <3>2
  <2>11. Suffix(w, v, i)
    BY <2>8, <2>9, <2>10 DEF Suffix
  <2> QED
    BY <2>1, <2>2, <2>3, <2>5, <2>6, <2>11
<1> QED
  BY <1>2, <1>3

(* What follows a whole part that was taken off.                           *)
LEMMA AfterPart ==
  ASSUME NEW C, NEW w \in Seq(C), NEW v \in Seq(C), NEW i \in {1, 2}, Suffix(w, v, i), Ordered(w),
         w # <<>>, OfKey(w[1]), i = 1 => ~v[1].fresh,
         NEW j \in 1 .. Len(v), OfKey(v[j]), First(v, j)
  PROVE  \/ v[j].part = "hdr"
         \/ v[j].part = w[1].part /\ ~v[j].fresh
         \/ Before[v[j].part] = w[1].part /\ v[j].of = w[1].of
<1>1. /\ Len(w) \in Nat /\ Len(v) \in Nat /\ j + i - 1 \in 1 .. Len(w)
      /\ v[j].of = w[j + i - 1].of /\ v[j].part = w[j + i - 1].part
  BY SuffixIndex
<1>0. ASSUME NEW h \in 1 .. Len(v) PROVE v[h].of = w[h + i - 1].of
  BY SuffixIndex
<1>2. CASE i = 1
  <2>1. 1 \in 1 .. Len(v) /\ 1 + i - 1 = 1
    BY <1>1, <1>2
  <2>2. v[1].of = w[1].of /\ v[1].part = w[1].part
    <3> HIDE DEF Suffix
    <3>1. /\ v[1].of = w[1 + i - 1].of /\ v[1].part = w[1 + i - 1].part
      BY <2>1, SuffixIndex
    <3> QED
      BY <2>1, <3>1
  <2>3. j = 1
    <3>1. j # 1 => 1 \in 1 .. j - 1
      BY <1>1
    <3> QED
      BY <2>2, <3>1 DEF First, OfKey
  <2> QED
    BY <1>2, <2>2, <2>3
<1>3. CASE i = 2
  <2>1. j + i - 1 = j + 1 /\ (j + 1) - 1 = j /\ 1 \in 1 .. j
    BY <1>1, <1>3
  <2>2. InOrder(w, j + 1, w[j + 1])
    BY <1>1, <2>1 DEF Ordered, OfKey
  <2>3. ~First(w, j + 1)
    BY <2>1 DEF First
  <2>4. ASSUME NEW f \in 1 .. j, FollowsAt(w, f, j + 1, w[j + 1])
        PROVE  Before[v[j].part] = w[1].part /\ v[j].of = w[1].of
    <3>1. CASE f = 1
      BY <1>1, <2>1, <2>4, <3>1 DEF FollowsAt
    <3>2. CASE f # 1
      <4> DEFINE g == f - 1
      <4>1. g \in 1 .. j - 1 /\ g \in 1 .. Len(v) /\ g + i - 1 = f
        BY <1>1, <1>3, <3>2
      <4> HIDE DEF g
      <4>2. v[g].of = w[g + i - 1].of
        BY <1>0, <4>1
      <4> QED
        BY <2>4, <4>1, <4>2 DEF FollowsAt, First, OfKey
    <3> QED
      BY <3>1, <3>2
  <2> QED
    BY <1>1, <2>1, <2>2, <2>3, <2>4 DEF InOrder
<1> QED
  BY <1>2, <1>3
LEMMA WireAt ==
  ASSUME HandshakeInv, NEW j \in 1 .. Len(uart)
  PROVE  Wire[j] = uart[j] /\ j \in 1 .. Len(Wire)
<1>1. uart \in Seq(SoundChunk)
  BY DEF HandshakeInv, WireInv
<1>2. CASE mWrites = <<>>
  BY <1>2 DEF Wire
<1>3. CASE mWrites # <<>>
  <2> DEFINE h == Head(mWrites)
  <2>1. h \in SoundChunk /\ Wire = Append(uart, h)
    BY <1>3, ManagerHead
  <2> HIDE DEF h
  <2>2. /\ Len(uart) \in Nat /\ Len(Append(uart, h)) = Len(uart) + 1
        /\ \A i \in 1 .. Len(uart) : Append(uart, h)[i] = uart[i]
    BY <1>1, <2>1, AppendAt
  <2> QED
    BY <2>1, <2>2
<1> QED
  BY <1>2, <1>3

(* A whole part is taken off with its bytes, and nothing after it.         *)
LEMMA WholeTakesOne ==
  ASSUME uart \in Seq(SoundChunk), uart # <<>>, NEW part, NEW n \in Nat \ {0},
         Whole(Head(uart), part, n), NEW i, Takes(i, n)
  PROVE  i \in {1, 2}
<1>1. /\ Len(uart) \in Nat /\ Len(uart) >= 1 /\ 1 \in 1 .. Len(uart) /\ Head(uart) = uart[1]
  OBVIOUS
<1>2. /\ Upto[0] = 0 /\ Upto[1] = Upto[1 - 1] + uart[1].size
      /\ \A k \in 0 .. Len(uart) : Upto[k] \in Nat
  BY <1>1, UptoSum
<1>3. uart[1].size \in Nat /\ uart[1].size >= n
  BY <1>1 DEF Whole, SoundChunk
<1>4. Upto[1] >= n
  BY <1>2, <1>3
<1>5. i \in 1 .. Len(uart) + 1 /\ Upto[i - 1] <= n
  BY DEF Takes
<1>6. SUFFICES ASSUME i >= 3 PROVE FALSE
  BY <1>1, <1>5
<1>7. i - 1 \in 1 .. Len(uart) /\ 1 \in 0 .. Len(uart) /\ i - 1 \in 0 .. Len(uart) /\ (i - 1) - 1 \in Nat \ {0}
  BY <1>1, <1>5, <1>6
<1>8. Upto[1] + ((i - 1) - 1) <= Upto[i - 1]
  BY <1>7, UptoGrows
<1>9. Upto[1] \in Nat /\ Upto[i - 1] \in Nat
  BY <1>2, <1>7
<1> QED
  BY <1>4, <1>5, <1>7, <1>8, <1>9

(* n bytes are read from the wire, by TakeField.                           *)
ReadsBytes(n) == n \in Nat \ {0} /\ n <= Unread /\ uart' = Without(n) /\ mWrites' = mWrites

LEMMA ReadSplits ==
  ASSUME HandshakeInv, Ordered(Wire), NEW n, ReadsBytes(n)
  PROVE  /\ uart # <<>> /\ Wire # <<>> /\ Wire[1] = Head(uart) /\ Wire' \in Seq(SoundChunk)
         /\ Ordered(Wire')
         /\ \E i \in 1 .. Len(uart) + 1 :
              /\ Takes(i, n) /\ Suffix(Wire, Wire', i)
              /\ i = 1 => ~Wire'[1].fresh
              /\ Wire' # <<>> /\ Wire'[1].fresh => Upto[i - 1] = n
<1>1. /\ uart \in Seq(SoundChunk) /\ Wire \in Seq(SoundChunk) /\ n \in Nat \ {0} /\ n <= Unread
      /\ uart' = Without(n) /\ mWrites' = mWrites
  BY WireSound DEF ReadsBytes
<1>2. uart' \in Seq(SoundChunk) /\ uart # <<>>
  BY <1>1, TakenOff
<1>3. PICK i \in 1 .. Len(uart) + 1 : Takes(i, n)
  BY <1>1, TakenSuffix
<1>4. Suffix(uart, uart', i)
  BY <1>3 DEF Takes
<1>5. /\ Wire' \in Seq(SoundChunk) /\ Suffix(Wire, Wire', i)
      /\ uart' # <<>> => Wire' # <<>> /\ Wire'[1] = uart'[1]
      /\ Wire # <<>> /\ Wire[1] = uart[1]
  BY <1>1, <1>2, <1>4, WireSuffix
<1>6. Ordered(Wire')
  BY <1>1, <1>5, SuffixOrdered
<1>7. i = 1 => ~Wire'[1].fresh
  BY <1>3, <1>5 DEF Takes
<1>8. Wire' # <<>> /\ Wire'[1].fresh => Upto[i - 1] = n
  BY <1>3, <1>5 DEF Takes
<1>9. Head(uart) = uart[1]
  BY <1>1, <1>2
<1> QED
  BY <1>2, <1>3, <1>5, <1>6, <1>7, <1>8, <1>9

(* After a whole part of a KEY frame there come the rest of that part, the *)
(* next part of the same frame, or a new frame.                            *)
LEMMA AfterWhole ==
  ASSUME HandshakeInv, Ordered(Wire), NEW n, ReadsBytes(n), NEW part,
         Whole(Head(uart), part, n), OfKey(Head(uart)),
         NEW j \in 1 .. Len(Wire'), OfKey(Wire'[j]), First(Wire', j)
  PROVE  /\ Wire'[j] \in ManagerChunk
         /\ \/ Wire'[j].part = "hdr"
            \/ Wire'[j].part = part /\ ~Wire'[j].fresh
            \/ Before[Wire'[j].part] = part /\ Wire'[j].of = Head(uart).of
<1>1. /\ uart # <<>> /\ Wire # <<>> /\ Wire[1] = Head(uart) /\ Wire' \in Seq(SoundChunk)
  BY ReadSplits
<1>2. PICK i \in 1 .. Len(uart) + 1 :
        Takes(i, n) /\ Suffix(Wire, Wire', i) /\ (i = 1 => ~Wire'[1].fresh)
  BY ReadSplits
<1>3. uart \in Seq(SoundChunk) /\ Wire \in Seq(SoundChunk) /\ n \in Nat \ {0}
  BY WireSound DEF ReadsBytes
<1>4. i \in {1, 2}
  BY <1>1, <1>2, <1>3, WholeTakesOne
<1>5. Wire'[j] \in ManagerChunk
  <2> DEFINE v == Wire'
  <2>1. v \in Seq(SoundChunk) /\ j \in 1 .. Len(v)
    BY <1>1
  <2> HIDE DEF v
  <2>2. v[j] \in SoundChunk
    BY <2>1
  <2> QED
    BY <2>2, OfManager DEF v
<1>6. Head(uart).part = part
  BY DEF Whole
<1> HIDE DEF Wire
<1>7. \/ Wire'[j].part = "hdr"
      \/ Wire'[j].part = Wire[1].part /\ ~Wire'[j].fresh
      \/ Before[Wire'[j].part] = Wire[1].part /\ Wire'[j].of = Wire[1].of
  BY <1>1, <1>2, <1>3, <1>4, AfterPart
<1> QED
  BY <1>1, <1>5, <1>6, <1>7

(* As many bytes as a cipher key has cannot hold another frame's.          *)
LEMMA JunkCipher ==
  ASSUME HandshakeInv, Ordered(Wire), ReadsBytes(CipherSize), NEW k, FirstIn(Wire, AfterId(k))
  PROVE  NoOtherMac(Wire', k)
<1> SUFFICES ASSUME Wire' # <<>>, OfKey(Wire'[1]), Wire'[1].part = "mac", Wire'[1].fresh
             PROVE  Wire'[1].of.key = k
  BY DEF NoOtherMac
<1>1. Wire' \in Seq(SoundChunk) /\ Wire # <<>>
  BY ReadSplits
<1>2. PICK i \in 1 .. Len(uart) + 1 : Suffix(Wire, Wire', i) /\ Upto[i - 1] = CipherSize
  BY ReadSplits
<1>3. uart \in Seq(SoundChunk) /\ Wire \in Seq(SoundChunk) /\ CipherSize \in Nat
  BY WireSound DEF ReadsBytes
<1>4. i \in 1 .. Len(Wire) /\ Wire'[1].of = Wire[i].of /\ Wire'[1].part = Wire[i].part
  <2> DEFINE v == Wire'
             w == Wire
  <2>1. v \in Seq(SoundChunk) /\ w \in Seq(SoundChunk) /\ v # <<>> /\ Suffix(w, v, i)
    BY <1>1, <1>2, <1>3
  <2> HIDE DEF v, w
  <2>2. 1 \in 1 .. Len(v) /\ 1 + i - 1 = i
    BY <2>1, <1>2, <1>3
  <2>3. 1 + i - 1 \in 1 .. Len(w) /\ v[1].of = w[1 + i - 1].of /\ v[1].part = w[1 + i - 1].part
    BY <2>1, <2>2, SuffixIndex
  <2> QED
    BY <2>2, <2>3 DEF v, w
<1> HIDE DEF Wire
<1>5. OfKey(Wire[i]) /\ Wire[i].part = "mac" /\ InOrder(Wire, i, Wire[i])
  BY <1>4 DEF Ordered, OfKey
<1>6. ~First(Wire, i)
  BY <1>4, <1>5 DEF FirstIn, AfterId
<1>7. PICK f \in 1 .. i - 1 : FollowsAt(Wire, f, i, Wire[i])
  BY <1>5, <1>6 DEF InOrder
<1>8. OfKey(Wire[f]) /\ Wire[f].of = Wire[i].of /\ Wire[f].part = "cipher"
      /\ (f # 1 => Wire[f].size >= CipherSize)
  BY <1>5, <1>7 DEF FollowsAt, Before
<1>9. CASE f = 1
  <2>1. First(Wire, 1) /\ 1 \in 1 .. Len(Wire)
    BY <1>3, <1>4, <1>7, <1>9 DEF First
  <2>2. Wire[1] \in AfterId(k)
    BY <1>8, <1>9, <2>1 DEF FirstIn
  <2> QED
    BY <1>4, <1>8, <1>9, <2>2 DEF AfterId
<1>10. CASE f # 1
  <2>1. /\ Len(uart) \in Nat /\ f \in 1 .. Len(uart) /\ f - 1 \in 0 .. Len(uart) /\ f \in 0 .. Len(uart)
        /\ i - 1 \in f .. Len(uart) /\ i - 1 \in 0 .. Len(uart) /\ f - 1 \in Nat \ {0}
        /\ 0 \in 0 .. Len(uart) /\ f - 1 \in 0 .. Len(uart)
    BY <1>2, <1>3, <1>7, <1>10
  <2>2. uart[f].size >= CipherSize /\ uart[f].size \in Nat
    BY <1>3, <1>8, <1>10, <2>1, WireAt DEF SoundChunk
  <2>3. /\ Upto[0] = 0 /\ Upto[f] = Upto[f - 1] + uart[f].size
        /\ Upto[f] \in Nat /\ Upto[f - 1] \in Nat /\ Upto[i - 1] \in Nat
    BY <1>3, <2>1, UptoSum
  <2>4. Upto[0] + ((f - 1) - 0) <= Upto[f - 1]
    BY <1>3, <2>1, UptoGrows
  <2>5. Upto[f] + ((i - 1) - f) <= Upto[i - 1]
    BY <1>3, <2>1, UptoGrows
  <2>6. (i - 1) - f \in Nat
    BY <2>1
  <2> QED
    BY <1>2, <1>3, <2>1, <2>2, <2>3, <2>4, <2>5, <2>6
<1> QED
  BY <1>9, <1>10
(* A frame that ends, or begins, leaves nothing of it.                     *)
LEMMA NoFields ==
  ASSUME fields' = <<>>
  PROVE  FieldsInv'
  BY DEF FieldsInv

LEMMA ShortOrdered == Ordered(<<>>) /\ \A h : Ordered(<<h>>)
  BY DEF Ordered, InOrder, First

LEMMA HuntKeepsStream ==
  ASSUME HandshakeInv, StreamInv, Hunt
  PROVE  StreamInv'
<1> SUFFICES ASSUME ~overrun PROVE (Ordered(Wire) /\ FieldsInv /\ PartsOfOneKey)'
  BY DEF StreamInv, Hunt, history
<1>1. Ordered(Wire) /\ FieldsInv /\ PartsOfOneKey
  BY DEF StreamInv
<1>2. /\ uart # <<>> /\ uart \in Seq(SoundChunk) /\ uart' = Tail(uart) /\ mWrites' = mWrites
      /\ UNCHANGED <<fields, pico>> /\ reading = "none"
  BY DEF Hunt, Idle, HandshakeInv, WireInv, others, manager
<1>3. Suffix(uart, uart', 2)
  <2>1. /\ Len(uart) \in Nat /\ Len(uart) >= 1 /\ Len(uart') = Len(uart) - 1
        /\ \A j \in 1 .. Len(uart') : uart'[j] = uart[j + 1]
    BY <1>2
  <2>2. 2 \in 1 .. Len(uart) + 1 /\ Len(uart') = Len(uart) - 2 + 1 /\ Len(uart') \in Nat
    BY <2>1
  <2>3. \A j \in 2 .. Len(uart') : j \in 1 .. Len(uart') /\ j + 2 - 1 = j + 1
    BY <2>2
  <2>4. uart' # <<>> => 1 \in 1 .. Len(uart') /\ 1 + 1 = 2
    <3>1. uart' \in Seq(SoundChunk)
      BY <1>2
    <3> QED
      BY <3>1
  <2> QED
    BY <2>1, <2>2, <2>3, <2>4 DEF Suffix
<1>4. uart' \in Seq(SoundChunk)
  BY <1>2
<1>5. Wire \in Seq(SoundChunk) /\ Wire' \in Seq(SoundChunk) /\ Suffix(Wire, Wire', 2)
  BY <1>2, <1>3, <1>4, WireSound, WireSuffix
<1>6. Ordered(Wire')
  BY <1>1, <1>5, SuffixOrdered
<1>7. fields' = <<>>
  BY <1>1, <1>2 DEF FieldsInv
<1> QED
  BY <1>1, <1>2, <1>6, <1>7, NoFields DEF PartsOfOneKey

(* The wire is emptied: only the manager's next chunk is left.             *)
LEMMA DropKeepsStream ==
  ASSUME HandshakeInv, StreamInv, ReadExpires \/ Reboot
  PROVE  StreamInv'
<1>1. uart' = <<>> /\ fields' = <<>> /\ overrun' = overrun
  BY DEF ReadExpires, Reboot, GivesUp, EndFrame, history
<1>2. Ordered(Wire')
  <2>1. Wire' = <<>> \/ \E h : Wire' = <<h>>
    BY <1>1 DEF Wire
  <2> QED
    BY <2>1, ShortOrdered
<1>3. PartsOfOneKey => PartsOfOneKey'
  <2>1. pico' = pico \/ pico' = [pico EXCEPT !.mac = None] \/ \E k : pico' = Pair(k)
    BY DEF ReadExpires, Reboot
  <2>2. CASE pico' = [pico EXCEPT !.mac = None]
    <3>1. pico'.id = pico.id /\ pico'.key = pico.key /\ pico'.mac = None
      BY <2>2 DEF HandshakeInv, PicoInv
    <3> QED
      BY <1>1, <3>1 DEF PartsOfOneKey
  <2>3. ASSUME NEW k, pico' = Pair(k) PROVE PartsOfOneKey'
    BY <2>3 DEF PartsOfOneKey, Pair
  <2> QED
    BY <1>1, <2>1, <2>2, <2>3 DEF PartsOfOneKey
<1> QED
  BY <1>1, <1>2, <1>3, NoFields DEF StreamInv

LEMMA BodyKeepsStream ==
  ASSUME HandshakeInv, StreamInv, AnswerHS1 \/ AcceptHS3
  PROVE  StreamInv'
<1>1. /\ reading \in {"HS1", "HS3"} /\ TakeField(Reads[Len(Reads)]) /\ fields' = <<>>
      /\ UNCHANGED <<pico, overrun>>
  BY DEF AnswerHS1, AcceptHS3, LastRead, EndFrame
<1>2. ReadsBytes(Reads[Len(Reads)][2])
  <2>1. Len(Reads) = 1 /\ Reads[1][2] \in Nat \ {0}
    BY <1>1, ReadsTyped
  <2> QED
    BY <1>1, <2>1 DEF ReadsBytes, TakeField, others, manager
<1>3. Ordered(Wire) => Ordered(Wire')
  BY <1>2, ReadSplits
<1> QED
  BY <1>1, <1>3, NoFields DEF StreamInv, PartsOfOneKey

LEMMA HeaderKeepsStream ==
  ASSUME HandshakeInv, StreamInv, TryType \/ ReadLen
  PROVE  StreamInv'
<1> SUFFICES ASSUME ~overrun PROVE (Ordered(Wire) /\ FieldsInv /\ PartsOfOneKey)'
  BY DEF StreamInv, TryType, ReadLen, history
<1>1. Ordered(Wire) /\ FieldsInv /\ PartsOfOneKey
  BY DEF StreamInv
<1>2. lacking # 0 /\ mWrites' = mWrites /\ UNCHANGED <<fields, pico>>
  BY DEF TryType, ReadLen, others, manager
<1>3. Ordered(Wire')
  <2>1. CASE uart' = <<>>
    <3>1. Wire' = <<>> \/ \E h : Wire' = <<h>>
      BY <2>1 DEF Wire
    <3> QED
      BY <3>1, ShortOrdered
  <2>2. ASSUME NEW n \in Nat \ {0}, n <= Unread, uart' = Without(n) PROVE Ordered(Wire')
    <3>1. ReadsBytes(n)
      BY <1>2, <2>2 DEF ReadsBytes
    <3> QED
      BY <1>1, <3>1, ReadSplits
  <2> QED
    BY <2>1, <2>2, HeaderWire
<1>4. fields' = <<>>
  BY <1>1, <1>2 DEF FieldsInv
<1> QED
  BY <1>1, <1>2, <1>3, <1>4, NoFields DEF PartsOfOneKey

(* What was read whole of a KEY frame.                                     *)
LEMMA TakenOfKey ==
  ASSUME HandshakeInv, uart # <<>>, reading = "KEY", NEW part, NEW n, Taken(part, n).key # Junk
  PROVE  /\ Whole(Head(uart), part, n) /\ OfKey(Head(uart))
         /\ Head(uart).of.key = Taken(part, n).key
<1>1. uart \in Seq(SoundChunk)
  BY DEF HandshakeInv, WireInv
<1> QED
  BY <1>1, TakenTyped DEF OfKey

LEMMA ReadAsideKeepsStream ==
  ASSUME HandshakeInv, StreamInv, ReadAside
  PROVE  StreamInv'
<1> SUFFICES ASSUME ~overrun PROVE (Ordered(Wire) /\ FieldsInv /\ PartsOfOneKey)'
  BY DEF StreamInv, ReadAside, history
<1>1. Ordered(Wire) /\ FieldsInv /\ PartsOfOneKey
  BY DEF StreamInv
<1>2. /\ fields \in Seq(Field) /\ Len(fields) \in Nat /\ reading \in {"KEY", "HS1", "HS3"}
      /\ Len(fields) + 1 < Len(Reads) /\ lacking = 0 /\ UNCHANGED <<reading, lacking, pico>>
  BY DEF HandshakeInv, PicoInv, ReadAside, Idle, PutAside
<1>3. reading = "KEY" /\ (Len(fields) = 0 \/ Len(fields) = 1)
  <2>1. CASE reading = "KEY"
    <3>1. PICK n \in Nat : Len(fields) = n
      BY <1>2
    <3>2. n + 1 < 3
      BY <1>2, <2>1, <3>1, ReadsTyped, Zenon
    <3>3. n = 0 \/ n = 1
      BY <3>2
    <3> QED
      BY <2>1, <3>1, <3>3, Zenon
  <2>2. CASE reading # "KEY"
    <3>1. PICK n \in Nat : Len(fields) = n
      BY <1>2
    <3>2. n + 1 < 1
      BY <1>2, <2>2, <3>1, ReadsTyped, Zenon
    <3> QED
      BY <3>2
  <2> QED
    BY <2>1, <2>2
<1>4. ASSUME NEW part, NEW n, Reads[Len(fields) + 1] = <<part, n>>,
             n \in Nat \ {0}
      PROVE  /\ ReadsBytes(n) /\ fields' = Append(fields, Taken(part, n).key)
             /\ Ordered(Wire') /\ uart # <<>>
  <2>1. TakeField(<<part, n>>) /\ fields' = Append(fields, Taken(part, n).key)
    BY <1>4 DEF ReadAside
  <2>2. ReadsBytes(n)
    BY <1>4, <2>1 DEF ReadsBytes, TakeField, others, manager
  <2> QED
    BY <1>1, <2>1, <2>2, ReadSplits
<1>5. {IdSize, CipherSize} \subseteq Nat \ {0}
  BY SplitAssumption
<1>6. PartsOfOneKey'
  BY <1>1, <1>2 DEF PartsOfOneKey
<1>7. CASE Len(fields) = 0
  <2> DEFINE c == Taken("id", IdSize).key
  <2>1. Reads[Len(fields) + 1] = <<"id", IdSize>>
    BY <1>3, <1>7 DEF Reads
  <2>2. ReadsBytes(IdSize) /\ fields' = Append(fields, c) /\ Ordered(Wire') /\ uart # <<>>
    BY <1>4, <1>5, <2>1
  <2>3. ASSUME c # Junk PROVE FirstIn(Wire', AfterId(c))
    <3>1. /\ Whole(Head(uart), "id", IdSize) /\ OfKey(Head(uart)) /\ Head(uart).of.key = c
      BY <1>3, <2>2, <2>3, TakenOfKey
    <3> HIDE DEF c
    <3> SUFFICES ASSUME NEW j \in 1 .. Len(Wire'), OfKey(Wire'[j]), First(Wire', j)
                 PROVE  Wire'[j] \in AfterId(c)
      BY DEF FirstIn
    <3>2. /\ Wire'[j] \in ManagerChunk
          /\ \/ Wire'[j].part = "hdr"
             \/ Wire'[j].part = "id" /\ ~Wire'[j].fresh
             \/ Before[Wire'[j].part] = "id" /\ Wire'[j].of = Head(uart).of
      BY <1>1, <2>2, <3>1, AfterWhole
    <3>3. Wire'[j].part \in KeyParts
      BY <3>2 DEF ManagerChunk
    <3>4. \A p \in KeyParts : Before[p] = "id" => p = "cipher" \/ p = "hdr"
      BY DEF Before, KeyParts
    <3> QED
      BY <3>1, <3>2, <3>3, <3>4 DEF AfterId
  <2> HIDE DEF c
  <2>4. Len(fields') = 1 /\ fields'[1] = c
    BY <1>2, <1>7, <2>2
  <2>5. FieldsInv'
    BY <1>2, <1>3, <2>3, <2>4 DEF FieldsInv
  <2> QED
    BY <1>6, <2>2, <2>5
<1>8. CASE Len(fields) = 1
  <2> DEFINE c == Taken("cipher", CipherSize).key
             k == fields[1]
  <2>1. Reads[Len(fields) + 1] = <<"cipher", CipherSize>>
    BY <1>3, <1>8 DEF Reads
  <2>2. ReadsBytes(CipherSize) /\ fields' = Append(fields, c) /\ Ordered(Wire') /\ uart # <<>>
    BY <1>4, <1>5, <2>1
  <2>3. k # Junk => FirstIn(Wire, AfterId(k))
    BY <1>1, <1>8 DEF FieldsInv
  <2>4. ASSUME c # Junk PROVE FirstIn(Wire', AfterCipher(c)) /\ k \in {c, Junk}
    <3>1. /\ Whole(Head(uart), "cipher", CipherSize) /\ OfKey(Head(uart)) /\ Head(uart).of.key = c
      BY <1>3, <2>2, <2>4, TakenOfKey
    <3> HIDE DEF c, k
    <3>2. FirstIn(Wire', AfterCipher(c))
      <4> SUFFICES ASSUME NEW j \in 1 .. Len(Wire'), OfKey(Wire'[j]), First(Wire', j)
                   PROVE  Wire'[j] \in AfterCipher(c)
        BY DEF FirstIn
      <4>1. /\ Wire'[j] \in ManagerChunk
            /\ \/ Wire'[j].part = "hdr"
               \/ Wire'[j].part = "cipher" /\ ~Wire'[j].fresh
               \/ Before[Wire'[j].part] = "cipher" /\ Wire'[j].of = Head(uart).of
        BY <1>1, <2>2, <3>1, AfterWhole
      <4>2. Wire'[j].part \in KeyParts
        BY <4>1 DEF ManagerChunk
      <4>3. \A p \in KeyParts : Before[p] = "cipher" => p = "mac" \/ p = "hdr"
        BY DEF Before, KeyParts
      <4> QED
        BY <3>1, <4>1, <4>2, <4>3 DEF AfterCipher
    <3>3. k \in {c, Junk}
      <4>1. SUFFICES ASSUME k # Junk PROVE k = c
        OBVIOUS
      <4>2. Wire[1] = Head(uart) /\ 1 \in 1 .. Len(Wire)
        <5>1. uart \in Seq(SoundChunk) /\ uart # <<>>
          BY <2>2, WireSound
        <5>2. 1 \in 1 .. Len(uart) /\ uart[1] = Head(uart)
          BY <5>1
        <5> QED
          BY <5>2, WireAt
      <4>3. First(Wire, 1)
        BY DEF First
      <4>4. Head(uart) \in AfterId(k)
        BY <2>3, <3>1, <4>1, <4>2, <4>3 DEF FirstIn
      <4> QED
        BY <3>1, <4>4 DEF AfterId, Whole
    <3> QED
      BY <3>2, <3>3
  <2>5. ASSUME k # Junk PROVE NoOtherMac(Wire', k)
    BY <1>1, <2>2, <2>3, <2>5, JunkCipher
  <2>6. Len(fields') = 2 /\ fields'[1] = k /\ fields'[2] = c
    <3>1. c \in Field
      BY <2>2, WireSound, TakenTyped
    <3> HIDE DEF c
    <3>2. /\ Len(Append(fields, c)) = Len(fields) + 1 /\ Append(fields, c)[Len(fields) + 1] = c
          /\ \A i \in 1 .. Len(fields) : Append(fields, c)[i] = fields[i]
      BY <1>2, <3>1, AppendAt
    <3>3. Len(fields) + 1 = 2 /\ 1 \in 1 .. Len(fields)
      BY <1>8
    <3> QED
      BY <1>8, <2>2, <3>2, <3>3, Zenon
  <2> HIDE DEF c, k
  <2>7. FieldsInv'
    BY <1>2, <1>3, <2>4, <2>5, <2>6 DEF FieldsInv
  <2> QED
    BY <1>6, <2>2, <2>7
<1> QED
  BY <1>2, <1>3, <1>7, <1>8

(* The MAC key is of the key whose id or cipher key was read.              *)
LEMMA InstallKeepsStream ==
  ASSUME HandshakeInv, StreamInv, InstallKey
  PROVE  StreamInv'
<1> SUFFICES ASSUME ~overrun PROVE (Ordered(Wire) /\ FieldsInv /\ PartsOfOneKey)'
  BY DEF StreamInv, InstallKey, history
<1>1. Ordered(Wire) /\ FieldsInv /\ PartsOfOneKey
  BY DEF StreamInv
<1>2. /\ reading = "KEY" /\ Len(fields) + 1 = Len(Reads) /\ TakeField(Reads[Len(Reads)])
      /\ fields' = <<>> /\ fields \in Seq(Field) /\ Len(fields) \in Nat
      /\ pico' \in {pico, [id |-> fields[1], key |-> fields[2], mac |-> Body.key]}
  BY DEF InstallKey, LastRead, EndFrame, HandshakeInv, PicoInv
<1>3. Len(Reads) = 3 /\ Reads[3] = <<"mac", MacSize>> /\ MacSize \in Nat \ {0}
  BY <1>2, SplitAssumption DEF Reads
<1>4. Len(fields) = 2
  <2>1. PICK n \in Nat : Len(fields) = n
    BY <1>2
  <2>2. n + 1 = 3
    BY <1>2, <1>3, <2>1, Zenon
  <2>3. n = 2
    BY <2>2
  <2> QED
    BY <2>1, <2>3, Zenon
<1>5. ReadsBytes(MacSize) /\ Body = Taken("mac", MacSize)
  BY <1>2, <1>3 DEF ReadsBytes, TakeField, Body, others, manager
<1>6. Ordered(Wire') /\ uart # <<>> /\ Wire # <<>> /\ Wire[1] = Head(uart)
  BY <1>1, <1>5, ReadSplits
<1> DEFINE a == fields[1]
           b == fields[2]
           m == Body.key
<1>7. /\ b # Junk => FirstIn(Wire, AfterCipher(b)) /\ a \in {b, Junk}
      /\ b = Junk /\ a # Junk => NoOtherMac(Wire, a)
  BY <1>1, <1>4 DEF FieldsInv
<1>8. m # Junk => /\ OfKey(Head(uart)) /\ Head(uart).part = "mac" /\ Head(uart).fresh
                  /\ Head(uart).of.key = m
  BY <1>2, <1>5, <1>6, TakenOfKey DEF Whole
<1>9. First(Wire, 1) /\ 1 \in 1 .. Len(Wire)
  <2>1. uart \in Seq(SoundChunk)
    BY WireSound
  <2>2. 1 \in 1 .. Len(uart)
    BY <1>6, <2>1
  <2> QED
    BY <2>2, WireAt DEF First
<1> HIDE DEF a, b, m
<1>10. b # Junk /\ m # Junk => m = b
  BY <1>6, <1>7, <1>8, <1>9 DEF FirstIn, AfterCipher
<1>11. b = Junk /\ a # Junk /\ m # Junk => m = a
  BY <1>6, <1>7, <1>8 DEF NoOtherMac
<1>12. \A x, y \in {a, b, m} \ {None, Junk} : x = y
  BY <1>7, <1>10, <1>11
<1>13. PartsOfOneKey'
  <2>1. CASE pico' = pico
    BY <1>1, <2>1 DEF PartsOfOneKey
  <2>2. CASE pico' = [id |-> a, key |-> b, mac |-> m]
    BY <1>12, <2>2 DEF PartsOfOneKey
  <2> QED
    BY <1>2, <2>1, <2>2 DEF a, b, m
<1> QED
  BY <1>2, <1>6, <1>13, NoFields

LEMMA StreamInit == Init => StreamInv
<1> SUFFICES ASSUME Init PROVE StreamInv
  OBVIOUS
<1>1. uart = <<>> /\ fields = <<>>
  BY DEF Init
<1>2. Ordered(Wire)
  <2>1. Wire = <<>> \/ \E h : Wire = <<h>>
    BY <1>1 DEF Wire
  <2> QED
    BY <2>1, ShortOrdered
<1>3. FieldsInv
  BY <1>1 DEF FieldsInv
<1>4. PartsOfOneKey
  BY DEF Init, PartsOfOneKey, Pair
<1> QED
  BY <1>2, <1>3, <1>4 DEF StreamInv

LEMMA StreamStep ==
  ASSUME IInv, HandshakeInv', [Next]_vars
  PROVE  StreamInv'
<1>1. CASE \/ Rotate \/ SendKey \/ ForceFetch \/ ManagerStarts \/ ManagerWrites
           \/ AskerLoop \/ TypeKeyId \/ AskerStarts \/ SendId \/ LoseLight
           \/ UNCHANGED vars
  BY <1>1, WritesKeepStream DEF IInv
<1>2. CASE Hunt
  BY <1>2, HuntKeepsStream DEF IInv
<1>8. CASE TryType \/ ReadLen
  BY <1>8, HeaderKeepsStream DEF IInv
<1>3. CASE ReadAside
  BY <1>3, ReadAsideKeepsStream DEF IInv
<1>4. CASE InstallKey
  BY <1>4, InstallKeepsStream DEF IInv
<1>5. CASE ReadExpires \/ Reboot
  BY <1>5, DropKeepsStream DEF IInv
<1>6. CASE AnswerHS1 \/ AcceptHS3
  BY <1>6, BodyKeepsStream DEF IInv
<1>7. CASE Overflow
  BY <1>7 DEF Overflow, StreamInv
<1> QED
  BY <1>1, <1>2, <1>3, <1>4, <1>5, <1>6, <1>7, <1>8 DEF Next, Operator, PicoLoop

-----------------------------------------------------------------------------
(* The theorems                                                            *)

(* Chunks of the two programs lie on the UART in an order that lets the    *)
(* Pico read no field of a second key after one of the first.              *)
THEOREM SplitInvariant == Spec => []IInv
<1>1. Init => IInv
  BY HandshakeInit, StreamInit DEF IInv
<1>2. IInv /\ [Next]_vars => IInv'
  BY HandshakeStep, StreamStep DEF IInv
<1> QED
  BY <1>1, <1>2, PTL DEF Spec

(* Types; and no challenge outlives its wait, whichever write failed or    *)
(* request came in the middle (ask_receiver.c, 669-685).                   *)
THEOREM SplitTypeCorrect == Spec => []TypeOK
<1>1. IInv => TypeOK
  BY DEF IInv, HandshakeInv, ManagerInv, AskerInv, PicoInv, TypeOK
<1> QED
  BY <1>1, SplitInvariant, PTL

(* For all sizes of the fields, with writes that fall among each other,    *)
(* fail half-way or stop: the id, cipher key and MAC key that the Pico     *)
(* installs are of one session key, unless its FIFO was once too small     *)
(* (lifi_session_sender.c, 421-468).                                       *)
THEOREM PicoHoldsOneKey == Spec => []PartsOfOneKey
<1>1. IInv => PartsOfOneKey
  BY DEF IInv, StreamInv, PartsOfOneKey
<1> QED
  BY <1>1, SplitInvariant, PTL

(* What ask_receiver.c and the Pico do is a behaviour of MutualAuth.       *)
THEOREM SplitImplements == Spec => ImplementsMutualAuth
<1>1. Init => MA!Init
  BY HandshakeInit
<1>2. HandshakeInv /\ [Next]_vars => [MA!Next]_(MA!vars)
  BY HandshakeStep DEF MAStep
<1> QED
  BY <1>1, <1>2, HandshakeInvariant, PTL DEF Spec, ImplementsMutualAuth, MA!Spec

(* The abstract handshake with its theorem, under the same mapping.        *)
MAP == INSTANCE MutualAuthProofs WITH
         asked <- challenges,
         open <- IF state = "HS2" \/ WritingHS1 THEN entityNonce ELSE 0,
         held <- savedNonce

(* Injective agreement on the wire that two programs share: whatever one   *)
(* side accepts, the other did, and nothing is accepted twice.             *)
THEOREM SplitAgrees == Spec => []MAP!Agreement
<1>1. Init => MAP!Init
  BY HandshakeInit DEF MA!Init, MAP!Init
<1>2. HandshakeInv /\ [Next]_vars => [MAP!Next]_(MAP!vars)
  BY HandshakeStep
     DEF MAStep, MA!Next, MA!Ask, MA!GiveUp, MA!Answer, MA!ReceiverAccepts, MA!PicoAccepts,
         MA!Forget, MA!vars, MAP!Next, MAP!Ask, MAP!GiveUp, MAP!Answer,
         MAP!ReceiverAccepts, MAP!PicoAccepts, MAP!Forget, MAP!vars
<1>3. MAP!Spec => []MAP!Agreement
  BY MAP!HandshakeAgrees
<1> QED
  BY <1>1, <1>2, <1>3, HandshakeInvariant, PTL DEF Spec, MAP!Spec
=============================================================================
