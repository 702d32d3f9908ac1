----------------------------- MODULE KeysAndAsk -----------------------------
(***************************************************************************)
(* The work of dash_receiver split over two programs of one Pi 4: the key  *)
(* manager keys_receiver.c, which gives session keys to the Pico, and the  *)
(* asker ask_receiver.c, which hears the Pico's key id over light, asks    *)
(* Auth for that key and runs the SST handshake.  Both write to the one    *)
(* UART of /dev/serial0, and nothing keeps their writes apart: a frame is  *)
(* several calls of write_all, each of which the kernel takes as a whole,  *)
(* takes in part or refuses (the port is non-blocking).                    *)
(*                                                                         *)
(* The UART is a sequence of chunks, one per call of write_all, and the    *)
(* Pico takes bytes off it by number, so that a frame another one broke    *)
(* into is read as the Pico would read it.  What it reads across chunks is *)
(* Junk.  Light carries whole frames or loses them.                        *)
(***************************************************************************)
EXTENDS Integers, Sequences

CONSTANTS
  Key,        \* ids of the session keys of Auth, which stand for the keys
  IdLimit,    \* 2^32: the local search looks at ids modulo this
  PreSize,    \* bytes of a preamble, with which a header begins
  HdrSize, IdSize, CipherSize, MacSize, Hs1Size, Hs3Size,
  SentCipher, \* bytes of cipher_key that keys_receiver.c writes
  Pieces,     \* numbers of bytes that get out of a write that fails half-way
  MaxNonce,   \* bound: challenges drawn, and Pico nonces drawn
  MaxLight,   \* bound: frames on the light channel
  MaxEvents   \* bound: key presses, restarts, failed writes, overruns, losses

ASSUME SplitAssumption ==
  /\ Key \subseteq Nat \ {0}
  /\ {IdLimit, HdrSize, IdSize, CipherSize, MacSize, Hs1Size, Hs3Size} \subseteq Nat \ {0}
  /\ SentCipher \in Nat /\ SentCipher >= CipherSize
  /\ PreSize \in Nat \ {0} /\ PreSize < HdrSize
  /\ Pieces \subseteq Nat \ {0}
  /\ {MaxNonce, MaxLight, MaxEvents} \subseteq Nat

VARIABLES
  mKey,                 \* the manager's s_key; any key may be in its list
  mWrites,              \* chunks it has yet to write
  aKey, aList,          \* the asker's s_key, and the keys in its key_list
  state, entityNonce,   \* receiver_state_t, sst_entity_nonce
  aWrites,              \* chunks it has yet to write
  uart,                 \* chunks written and not yet read
  pico,                 \* session_key_id, session_key, session_mac_key
  reading, fields,      \* the Pico's frame under way, and what it has of it
  lacking,              \* bytes that its header lacks: of LEN, or TYPE and LEN
  savedNonce,           \* saved_pico_nonce, 0 when zeroed
  light,                \* frames from the Pico to the asker
  challenges, replies,  \* challenges and Pico nonces drawn
  events,
  answered, rDone, pDone, \* history: see MutualAuth
  overrun               \* history: the Pico's FIFO was once too small

manager == <<mKey, mWrites>>
asker   == <<aKey, aList, state, entityNonce, aWrites, challenges>>
picoVars == <<pico, reading, fields, lacking, savedNonce, replies>>
history == <<answered, rDone, pDone, overrun>>
vars == <<manager, asker, uart, picoVars, light, events, history>>

None == 0
Junk == -1

Event == events < MaxEvents /\ events' = events + 1

-----------------------------------------------------------------------------
(* Chunks                                                                  *)

Chunk(frame, part, size) == [of |-> frame, part |-> part, size |-> size, fresh |-> TRUE]

KeyFrame(k) ==
  LET frame == [type |-> "KEY", key |-> k, en |-> None, pn |-> None]
  IN  <<Chunk(frame, "hdr", HdrSize), Chunk(frame, "id", IdSize),
        Chunk(frame, "cipher", SentCipher), Chunk(frame, "mac", MacSize)>>

Handshake(type, size, k, en, pn) ==
  LET frame == [type |-> type, key |-> k, en |-> en, pn |-> pn]
  IN  <<Chunk(frame, "hdr", HdrSize), Chunk(frame, "body", size)>>

HS1(k, en) == Handshake("HS1", Hs1Size, k, en, None)
HS3(k, en, pn) == Handshake("HS3", Hs3Size, k, en, pn)

(* A write that fails leaves nothing or a piece on the wire.               *)
Torn(chunk) ==
  {uart} \cup {Append(uart, [chunk EXCEPT !.size = n]) : n \in {m \in Pieces : m < chunk.size}}

-----------------------------------------------------------------------------
(* The key manager.  While it writes it does nothing else.                 *)

ManagerKey ==
  /\ Event /\ mWrites = <<>>
  /\ UNCHANGED <<asker, uart, picoVars, light, history>>

(* 'n': another key of the list, which the Pico is not told.              *)
Rotate ==
  /\ ManagerKey
  /\ mKey # None /\ mKey' \in Key
  /\ UNCHANGED mWrites

(* '1'                                                                     *)
SendKey ==
  /\ ManagerKey
  /\ mKey # None
  /\ mWrites' = KeyFrame(mKey)
  /\ UNCHANGED mKey

(* 'f': the first key of a new list, sent at once unless the port is       *)
(* closed.  When Auth does not answer, nothing changes.                    *)
ForceFetch ==
  /\ ManagerKey
  /\ mKey' \in Key
  /\ mWrites' \in {<<>>, KeyFrame(mKey')}

(* The start of main: the first key of a fetched list, which goes out at   *)
(* once, or no key.                                                        *)
Start(key, writes) ==
  /\ key \in Key \cup {None}
  /\ writes \in {<<>>} \cup IF key = None THEN {} ELSE {KeyFrame(key)}

(* Stopped, half-way through a frame perhaps, and started again.           *)
ManagerStarts ==
  /\ Event
  /\ Start(mKey', mWrites')
  /\ UNCHANGED <<asker, uart, picoVars, light, history>>

(* A frame of which one part failed is abandoned.                          *)
ManagerWrites ==
  /\ mWrites # <<>>
  /\ \/ /\ uart' = Append(uart, Head(mWrites))
        /\ mWrites' = Tail(mWrites)
        /\ UNCHANGED events
     \/ /\ Event
        /\ uart' \in Torn(Head(mWrites))
        /\ mWrites' = <<>>
  /\ UNCHANGED <<mKey, asker, picoVars, light, history>>

-----------------------------------------------------------------------------
(* The asker                                                               *)

Looping == aWrites = <<>>

(* find_session_key, which is given an unsigned int.                       *)
SameLow(a, b) == a % IdLimit = b % IdLimit
Known(id) == {k \in aList : SameLow(k, id)}

(* get_session_key_by_ID_fixed: a key of the list, or one that Auth gives  *)
(* and the list takes; or Auth refuses.                                    *)
Lookup(id) ==
  /\ id \in Key
  /\ \/ aKey' \in Known(id) /\ UNCHANGED aList
     \/ /\ Known(id) = {}
        /\ aKey' = id
        /\ aList' = aList \cup {id}

(* parse_handshake_1 draws the challenge, also while another is awaited;   *)
(* it may fail, or the port be closed.                                     *)
StartHandshake(k) ==
  \/ UNCHANGED <<state, entityNonce, aWrites, challenges>>
  \/ /\ challenges < MaxNonce
     /\ challenges' = challenges + 1
     /\ entityNonce' = challenges'
     /\ aWrites' = HS1(k, challenges')
     /\ UNCHANGED state

(* A KEY_ID frame.                                                         *)
HearKeyId ==
  /\ Looping
  /\ light # <<>> /\ Head(light).type = "ID"
  /\ light' = Tail(light)
  /\ \/ UNCHANGED asker
     \/ Lookup(Head(light).id) /\ StartHandshake(aKey')
  /\ UNCHANGED <<manager, uart, picoVars, events, history>>

(* 'k': an id typed in.                                                    *)
TypeKeyId ==
  /\ Event /\ Looping
  /\ \E id \in Key : Lookup(id)
  /\ StartHandshake(aKey')
  /\ UNCHANGED <<manager, uart, picoVars, light, history>>

(* A bug the code avoids: the challenge stays when its HS1 did not get out. *)
KeepsNonce == entityNonce

NoNonce == 0

WritingHS1 == aWrites # <<>> /\ Head(aWrites).of.type = "HS1"

(* Both parts of HS1 must get out, and only then is HS2 awaited; of HS3    *)
(* the second is tried when the first failed, too.                         *)
AskerWrites ==
  /\ ~Looping
  /\ \/ /\ uart' = Append(uart, Head(aWrites))
        /\ aWrites' = Tail(aWrites)
        /\ state' = IF WritingHS1 /\ aWrites' = <<>> THEN "HS2" ELSE state
        /\ UNCHANGED <<entityNonce, events>>
     \/ /\ Event
        /\ uart' \in Torn(Head(aWrites))
        /\ aWrites' = IF WritingHS1 THEN <<>> ELSE Tail(aWrites)
        /\ entityNonce' = IF WritingHS1 THEN NoNonce ELSE entityNonce
        /\ UNCHANGED state
  /\ UNCHANGED <<manager, aKey, aList, challenges, picoVars, light, history>>

(* A bug the check avoids: an answer to an earlier challenge will do.      *)
AnyAnswer(frame) == frame.mac = aKey /\ frame.key = aKey

(* What the C library checks: the tag, the key and the challenge.          *)
ChecksHS2(frame) == frame.mac = aKey /\ frame.key = aKey /\ frame.en = entityNonce

HearHS2 ==
  /\ Looping
  /\ light # <<>> /\ Head(light).type = "HS2"
  /\ light' = Tail(light)
  /\ \/ state # "HS2" /\ UNCHANGED <<asker, rDone>>
     \/ LET frame == Head(light)
        IN  /\ state = "HS2"
            /\ state' = "IDLE" /\ entityNonce' = 0
            /\ IF ChecksHS2(frame)
                 THEN /\ aWrites' = HS3(aKey, frame.en, frame.pn)
                      /\ rDone' = rDone \cup {<<frame.en, frame.pn>>}
                 ELSE UNCHANGED <<aWrites, rDone>>
            /\ UNCHANGED <<aKey, aList, challenges>>
  /\ UNCHANGED <<manager, uart, picoVars, events, answered, pDone, overrun>>

Timeout ==
  /\ Looping /\ state = "HS2"
  /\ state' = "IDLE" /\ entityNonce' = 0
  /\ UNCHANGED <<manager, aKey, aList, aWrites, challenges, uart, picoVars, light, events, history>>

(* Stopped, half-way through a frame perhaps, and started again with no    *)
(* keys.                                                                   *)
AskerStarts ==
  /\ Event
  /\ aKey' = None /\ aList' = {} /\ aWrites' = <<>>
  /\ state' = "IDLE" /\ entityNonce' = 0
  /\ UNCHANGED <<challenges, manager, uart, picoVars, light, history>>

-----------------------------------------------------------------------------
(* The Pico                                                                *)

others == <<manager, asker, events>>

Idle == reading = "none"

(* Bytes of the first chunks of the wire.                                  *)
Upto[i \in 0 .. Len(uart)] == IF i = 0 THEN 0 ELSE Upto[i - 1] + uart[i].size

Unread == Upto[Len(uart)]

(* The wire without its first n bytes; a chunk cut in two is not fresh.    *)
Without(n) ==
  IF n = Unread THEN <<>>
  ELSE LET i == CHOOSE j \in DOMAIN uart : Upto[j - 1] <= n /\ n < Upto[j]
           rest == IF Upto[i - 1] = n THEN uart[i]
                   ELSE [uart[i] EXCEPT !.size = Upto[i] - n, !.fresh = FALSE]
       IN  <<rest>> \o SubSeq(uart, i + 1, Len(uart))

Whole(chunk, part, size) == chunk.part = part /\ chunk.fresh /\ chunk.size >= size

(* What a chunk has of a preamble and what follows it.                     *)
Header(chunk) == IF chunk.part = "hdr" /\ chunk.fresh THEN chunk.size ELSE 0

(* Between frames every byte is tried for a preamble, and begins one anew  *)
(* when it broke another; the TYPE tells what is read.                     *)
Hunt ==
  /\ Idle /\ lacking = 0 /\ uart # <<>>
  /\ uart' = Tail(uart)
  /\ reading' = IF Header(Head(uart)) > PreSize THEN Head(uart).of.type ELSE "none"
  /\ lacking' = IF Header(Head(uart)) \in PreSize .. HdrSize - 1
                  THEN HdrSize - Header(Head(uart)) ELSE 0
  /\ UNCHANGED <<pico, fields, savedNonce, replies, light, others, history>>

(* A header that broke off is continued with whatever comes. Its next byte *)
(* may pass for a TYPE or a LEN, unless it begins a preamble.              *)
MayPass == Header(Head(uart)) = 0

TryType ==
  /\ Idle /\ lacking # 0 /\ uart # <<>>
  /\ uart' = Without(1)
  /\ \/ lacking' = 0 /\ UNCHANGED reading
     \/ /\ MayPass
        /\ lacking' = HdrSize - PreSize - 1
        /\ reading' \in {"KEY", "HS1", "HS3"}
  /\ UNCHANGED <<pico, fields, savedNonce, replies, light, others, history>>

(* LEN is checked in a handshake frame, and a wrong one ends it; for HS1   *)
(* the FIFO is flushed, too.                                               *)
ReadLen ==
  /\ ~Idle /\ lacking # 0
  /\ Unread >= lacking
  /\ lacking' = 0
  /\ \/ /\ reading = "KEY" \/ MayPass
        /\ uart' = Without(lacking)
        /\ UNCHANGED reading
     \/ /\ reading # "KEY"
        /\ uart' = IF reading = "HS1" THEN <<>> ELSE Without(lacking)
        /\ reading' = "none"
  /\ UNCHANGED <<pico, fields, savedNonce, replies, light, others, history>>

(* The reads that follow the header, each until it has its number of bytes.*)
Reads ==
  IF reading = "KEY" THEN <<<<"id", IdSize>>, <<"cipher", CipherSize>>, <<"mac", MacSize>>>>
  ELSE <<<<"body", IF reading = "HS1" THEN Hs1Size ELSE Hs3Size>>>>

(* What the n bytes at the head of the wire are to the Pico.               *)
Taken(part, n) ==
  IF Whole(Head(uart), part, n) /\ Head(uart).of.type = reading
    THEN Head(uart).of
    ELSE [type |-> reading, key |-> Junk, en |-> Junk, pn |-> Junk]

TakeField(field) ==
  /\ Unread >= field[2]
  /\ uart' = Without(field[2])
  /\ UNCHANGED others

EndFrame == reading' = "none" /\ fields' = <<>> /\ lacking' = 0

(* A bug the handler avoids: what is read is in use at once.               *)
PutToUse ==
  LET part == IF fields = <<>> THEN "id" ELSE "key"
  IN  pico' = [pico EXCEPT ![part] = fields'[Len(fields')]]

PutAside == UNCHANGED pico

(* The id and the cipher key of a KEY frame are put aside.                 *)
ReadAside ==
  /\ ~Idle /\ lacking = 0 /\ Len(fields) + 1 < Len(Reads)
  /\ LET field == Reads[Len(fields) + 1]
     IN  TakeField(field) /\ fields' = Append(fields, Taken(field[1], field[2]).key)
  /\ PutAside
  /\ UNCHANGED <<reading, lacking, savedNonce, replies, light, history>>

LastRead(type) ==
  /\ reading = type /\ lacking = 0
  /\ Len(fields) + 1 = Len(Reads)
  /\ TakeField(Reads[Len(Reads)])
  /\ EndFrame

Body == Taken(Reads[Len(Reads)][1], Reads[Len(Reads)][2])

(* The whole key is installed, or, when flash fails, nothing of it.        *)
InstallKey ==
  /\ LastRead("KEY")
  /\ pico' \in {pico, [id |-> fields[1], key |-> fields[2], mac |-> Body.key]}
  /\ UNCHANGED <<savedNonce, replies, light, history>>

(* A bug the reads avoid: they have no deadline.                           *)
WaitsOn == UNCHANGED <<reading, fields, lacking>>

GivesUp == EndFrame

(* A read that runs out of bytes drops what it had of the frame.           *)
ReadExpires ==
  /\ ~Idle
  /\ Unread < IF lacking # 0 THEN lacking ELSE Reads[Len(fields) + 1][2]
  /\ uart' = <<>>
  /\ GivesUp
  /\ UNCHANGED <<pico, savedNonce, replies, light, others, history>>

ChecksHS1(frame) == frame.key = pico.id /\ frame.key = pico.mac

(* Under another key, bytes whose padding passes by chance.                *)
Decrypted(frame) == IF frame.key = pico.key THEN frame.en ELSE Junk

HS2(en, pn) == [type |-> "HS2", key |-> pico.key, mac |-> pico.mac, en |-> en, pn |-> pn]

(* HS1 that fails a check, or whose decryption is refused, has no effect.  *)
AnswerHS1 ==
  /\ LastRead("HS1")
  /\ \/ UNCHANGED <<savedNonce, replies, light, answered>>
     \/ /\ ChecksHS1(Body)
        /\ Len(light) < MaxLight /\ replies < MaxNonce
        /\ replies' = replies + 1 /\ savedNonce' = replies'
        /\ light' = Append(light, HS2(Decrypted(Body), replies'))
        /\ answered' = answered \cup {<<Decrypted(Body), replies'>>}
  /\ UNCHANGED <<pico, rDone, pDone, overrun>>

ChecksHS3(frame) ==
  frame.key = pico.mac /\ frame.key = pico.key /\ frame.pn = savedNonce

AcceptHS3 ==
  /\ LastRead("HS3")
  /\ pDone' = IF ChecksHS3(Body) THEN pDone \cup {<<Body.en, Body.pn>>} ELSE pDone
  /\ savedNonce' = 0
  /\ UNCHANGED <<pico, replies, light, answered, rDone, overrun>>

(* CMD: send_id                                                            *)
SendId ==
  /\ Event /\ Idle
  /\ Len(light) < MaxLight
  /\ light' = Append(light, [type |-> "ID", id |-> pico.id])
  /\ UNCHANGED <<manager, asker, uart, picoVars, history>>

Pair(k) == [id |-> k, key |-> k, mac |-> None]

(* Power loss: a pair from flash, this one's or the other slot's.          *)
Reboot ==
  /\ Event
  /\ pico' \in {[pico EXCEPT !.mac = None]} \cup {Pair(k) : k \in Key \cup {None}}
  /\ savedNonce' = 0
  /\ EndFrame
  /\ uart' = <<>>
  /\ UNCHANGED <<manager, asker, replies, light, history>>

(* While the Pico does something else its FIFO keeps the first bytes only. *)
Overflow ==
  /\ Event /\ Idle
  /\ \E i \in 0 .. Len(uart) - 1 : uart' = SubSeq(uart, 1, i)
  /\ overrun' = TRUE
  /\ UNCHANGED <<manager, asker, picoVars, light, answered, rDone, pDone>>

LoseLight ==
  /\ Event
  /\ light # <<>> /\ light' = Tail(light)
  /\ UNCHANGED <<manager, asker, uart, picoVars, history>>

-----------------------------------------------------------------------------
(* The Pico is blank or was given a whole key before, by another program.  *)
Init ==
  /\ Start(mKey, mWrites)
  /\ aKey = None /\ aList = {} /\ aWrites = <<>>
  /\ state = "IDLE" /\ entityNonce = 0
  /\ pico \in {Pair(None)} \cup {[id |-> k, key |-> k, mac |-> k] : k \in Key}
  /\ reading = "none" /\ fields = <<>> /\ lacking = 0 /\ savedNonce = 0
  /\ uart = <<>> /\ light = <<>>
  /\ challenges = 0 /\ replies = 0 /\ events = 0
  /\ answered = {} /\ rDone = {} /\ pDone = {} /\ overrun = FALSE

Operator ==
  Rotate \/ SendKey \/ ForceFetch \/ ManagerStarts
    \/ TypeKeyId \/ AskerStarts \/ SendId \/ Reboot

AskerLoop == AskerWrites \/ HearKeyId \/ HearHS2 \/ Timeout

PicoLoop ==
  Hunt \/ TryType \/ ReadLen \/ ReadAside \/ InstallKey \/ ReadExpires \/ AnswerHS1 \/ AcceptHS3

Next ==
  \/ Operator \/ ManagerWrites \/ AskerLoop \/ PicoLoop
  \/ Overflow \/ LoseLight

(* The three loops run for ever and their deadlines pass; nothing is       *)
(* assumed of operators, of power or of the light.                         *)
Spec ==
  /\ Init /\ [][Next]_vars
  /\ WF_vars(ManagerWrites) /\ WF_vars(AskerLoop) /\ WF_vars(PicoLoop)
-----------------------------------------------------------------------------
(* Properties                                                              *)

Field == Key \cup {None, Junk}

(* Types; and no challenge outlives its wait, whichever write failed or    *)
(* request came in the middle (ask_receiver.c, 669-685).                   *)
TypeOK ==
  /\ {mKey, aKey} \subseteq Key \cup {None}
  /\ aList \subseteq Key
  /\ state \in {"IDLE", "HS2"} /\ entityNonce \in 0 .. challenges
  /\ pico \in [id : Field, key : Field, mac : Field]
  /\ reading \in {"none", "KEY", "HS1", "HS3"}
  /\ fields \in Seq(Field) /\ Len(fields) < 3
  /\ lacking \in 0 .. HdrSize
  /\ savedNonce \in 0 .. replies
  /\ entityNonce # 0 => state = "HS2" \/ WritingHS1

(* However the two programs' writes fall among each other, fail half-way   *)
(* or stop, the Pico never holds parts of two session keys: what it takes  *)
(* for id, cipher key and MAC key is of one key, or of none, as long as    *)
(* its FIFO held what came (lifi_session_sender.c, 421-468).               *)
PartsOfOneKey ==
  ~overrun => \A a, b \in {pico.id, pico.key, pico.mac} \ {None, Junk} : a = b

(* The handshake survives a wire whose frames another program broke into:  *)
(* see LiFiLink.                                                           *)
MA == INSTANCE MutualAuth WITH
        asked <- challenges,
        open <- IF state = "HS2" \/ WritingHS1 THEN entityNonce ELSE 0,
        held <- savedNonce

ImplementsMutualAuth == MA!Spec

(* After the last key press everything written is read, every read ends    *)
(* and nobody waits, also where a read began on bytes that never came.     *)
Quiet ==
  /\ mWrites = <<>> /\ aWrites = <<>>
  /\ uart = <<>> /\ light = <<>>
  /\ Idle /\ state = "IDLE"

FallsQuiet == <>[]Quiet

(* keys_receiver.c, line 416: "[KEY_ID:8][CIPHER_KEY:16][MAC_KEY:32]". A   *)
(* KEY frame that nothing disturbed gives the Pico the MAC key.            *)
PicoTakesSentKey == events = 0 => pico.mac # Junk
=============================================================================
