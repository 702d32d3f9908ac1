--------------------------- MODULE LiFiLinkProofs ---------------------------
(***************************************************************************)
(* For every set of keys and every bound: the types of LiFiLink, that no   *)
(* zeroed session key is installed, and that the handshake over lossy      *)
(* wires implements MutualAuth and so authenticates both sides.            *)
(***************************************************************************)
EXTENDS LiFiLink, TLAPS

Triples == [id : Key, key : Key, mac : Key]

(* The receiver: it has a whole key or none, and what an ACK would install *)
(* is there.                                                               *)
ReceiverInv ==
  /\ sKey \in Triples \cup {NoBundle}
  /\ keyList \in Seq(Key)
  /\ keyIdx \in Nat \ {0}
  /\ state \in {"IDLE", "YES", "ACK", "HS2"}
  /\ entityNonce \in 0 .. challenges
  /\ pendingKey \in Key \cup {None}
  /\ state = "ACK" => pendingKey # None

PicoInv ==
  /\ pico \in [id : Key \cup {None}, key : Key \cup {None}, mac : Key \cup {None}]
  /\ savedNonce \in 0 .. replies
  /\ led \in BOOLEAN

Counters == challenges \in 0 .. MaxNonce /\ replies \in 0 .. MaxNonce

(* What a frame under way says did happen: the challenge of an HS1 was     *)
(* drawn, an HS2 was an answer, an HS3 echoes what the receiver accepted.  *)
SoundUart ==
  {f \in Frame :
     /\ f.type = "HS1" => f.en \in 1 .. challenges
     /\ f.type = "HS3" => f.en \in 1 .. challenges /\ <<f.en, f.pn>> \in rDone}

SoundLight ==
  {f \in Frame :
     f.type = "HS2" => f.pn \in 1 .. replies /\ <<f.en, f.pn>> \in answered}

WireInv == uart \in Seq(SoundUart) /\ light \in Seq(SoundLight)

LinkInv == ReceiverInv /\ PicoInv /\ Counters /\ WireInv

(* A step of the abstract handshake, or none.                              *)
MAStep == [MA!Next]_(MA!vars)

-----------------------------------------------------------------------------
(* Sequences, lists and frames                                             *)

LEMMA TakeSound ==
  ASSUME NEW S, NEW w \in Seq(S), w # <<>>
  PROVE  Head(w) \in S /\ Tail(w) \in Seq(S)
  OBVIOUS

LEMMA PutSound ==
  ASSUME NEW S, NEW w \in Seq(S), NEW frame \in S
  PROVE  Append(w, frame) \in Seq(S)
  OBVIOUS

LEMMA SeqGrows ==
  ASSUME NEW S, NEW T, S \subseteq T, NEW w \in Seq(S)
  PROVE  w \in Seq(T)
  OBVIOUS

(* Challenges, nonces and accepted pairs only grow: old frames stay sound. *)
LEMMA WiresStaySound ==
  ASSUME LinkInv, challenges' \in Nat, replies' \in Nat,
         challenges <= challenges', replies <= replies',
         rDone \subseteq rDone', answered \subseteq answered'
  PROVE  uart \in Seq(SoundUart') /\ light \in Seq(SoundLight')
<1>1. challenges \in Nat /\ replies \in Nat
  BY LinkAssumption DEF LinkInv, Counters
<1>2. SoundUart \subseteq SoundUart' /\ SoundLight \subseteq SoundLight'
  BY <1>1 DEF SoundUart, SoundLight
<1> QED
  BY <1>2, SeqGrows DEF LinkInv, WireInv

LEMMA FetchedLists ==
  ASSUME NEW l \in Fetched
  PROVE  l \in Seq(Key) /\ l[1] \in Key
<1>1. CASE \E k \in Key : l = <<k>>
  BY <1>1
<1>2. CASE l \in Key \X Key
  <2>1. PICK a \in Key, b \in Key : l = <<a, b>>
    BY <1>2
  <2> QED
    BY <2>1
<1> QED
  BY <1>1, <1>2 DEF Fetched

LEMMA Bundles ==
  /\ \A k \in Key : Bundle(k) \in Triples
  /\ \A b \in Triples : KeyFrame(b) \in SoundUart'
  /\ \A b \in Triples : b.key # None /\ b # NoBundle
  BY LinkAssumption DEF Bundle, NoBundle, Triples, KeyFrame, SoundUart, Frame

LEMMA ListGrows ==
  ASSUME keyList \in Seq(Key), NEW k \in Key
  PROVE  ListWith(k) \in Seq(Key)
  BY DEF ListWith

(* A KEY frame leaves, or none.                                            *)
LEMMA KeyFramePut ==
  ASSUME uart \in Seq(SoundUart'), NEW b \in Triples,
         uart' = uart \/ uart' = Append(uart, KeyFrame(b))
  PROVE  uart' \in Seq(SoundUart')
  BY Bundles

(* The invariant gives the types and the keys it strengthens.              *)
LEMMA InvImplies == LinkInv => TypeOK /\ NeverZeroKey
<1> SUFFICES ASSUME LinkInv PROVE TypeOK /\ NeverZeroKey
  OBVIOUS
<1>1. uart \in Seq(Frame) /\ light \in Seq(Frame)
  BY SeqGrows DEF LinkInv, WireInv, SoundUart, SoundLight
<1>2. sKey \in [id : Key, key : Key \cup {None}, mac : Key] \cup {NoBundle}
  BY DEF LinkInv, ReceiverInv, Triples
<1>3. NeverZeroKey
  BY Bundles DEF LinkInv, ReceiverInv, NeverZeroKey, keyValid
<1> QED
  BY <1>1, <1>2, <1>3 DEF LinkInv, ReceiverInv, PicoInv, Counters, TypeOK
-----------------------------------------------------------------------------
(* Steps of the receiver that change keys, waits and at most a KEY frame:  *)
(* to MutualAuth they are a challenge given up, or nothing.                *)

LEMMA GivesUp ==
  ASSUME LinkInv, ReceiverInv', uart' \in Seq(SoundUart'), light' \in Seq(SoundLight'),
         UNCHANGED <<pico, savedNonce, led, challenges, replies, history>>,
         (state' = "HS2" => state = "HS2" /\ entityNonce' = entityNonce)
  PROVE  LinkInv' /\ MAStep
<1>1. LinkInv'
  BY DEF LinkInv, PicoInv, Counters, WireInv
<1>2. (IF state' = "HS2" THEN entityNonce' ELSE 0) \in {0, IF state = "HS2" THEN entityNonce ELSE 0}
  OBVIOUS
<1>3. MAStep
  BY <1>2 DEF MAStep, MA!Next, MA!GiveUp, MA!vars, history
<1> QED
  BY <1>1, <1>3

LEMMA OldFrames ==
  ASSUME LinkInv, UNCHANGED <<challenges, replies, history>>
  PROVE  uart \in Seq(SoundUart') /\ light \in Seq(SoundLight')
<1>1. challenges \in Nat /\ replies \in Nat
  BY LinkAssumption DEF LinkInv, Counters
<1> QED
  BY <1>1, WiresStaySound DEF history

LEMMA KeyPressStep ==
  ASSUME LinkInv, SendKey \/ Rotate \/ ForceFetch \/ AdoptPushed \/ Restart
  PROVE  LinkInv' /\ MAStep
<1> USE DEF receiverKeys, handshake, picoVars, wires
<1>1. uart \in Seq(SoundUart') /\ light \in Seq(SoundLight')
  BY OldFrames DEF SendKey, Rotate, ForceFetch, AdoptPushed, Restart
<1>2. CASE SendKey
  <2>1. sKey \in Triples /\ UNCHANGED <<receiverKeys, handshake, challenges>>
    BY <1>2 DEF SendKey, keyValid, LinkInv, ReceiverInv
  <2>2. uart' \in Seq(SoundUart')
    BY <1>1, <1>2, <2>1, KeyFramePut DEF SendKey, TryPut, Put
  <2> QED
    BY <1>1, <1>2, <2>1, <2>2, GivesUp DEF SendKey, LinkInv, ReceiverInv
<1>3. CASE Rotate
  <2>1. keyIdx' \in 1 .. Len(keyList)
    BY <1>3 DEF Rotate, LinkInv, ReceiverInv
  <2>2. sKey' \in Triples
    BY <1>3, <2>1, Bundles DEF Rotate, LinkInv, ReceiverInv
  <2>3. ReceiverInv'
    BY <1>3, <2>1, <2>2 DEF Rotate, LinkInv, ReceiverInv
  <2> QED
    BY <1>1, <1>3, <2>3, GivesUp DEF Rotate
<1>4. CASE ForceFetch
  <2>1. keyList' \in Seq(Key) /\ sKey' \in Triples
    BY <1>4, FetchedLists, Bundles DEF ForceFetch
  <2>2. ReceiverInv'
    BY <1>4, <2>1 DEF ForceFetch, LinkInv, ReceiverInv
  <2>3. uart' \in Seq(SoundUart')
    BY <1>1, <1>4, <2>1, KeyFramePut DEF ForceFetch, TryPut, Put
  <2> QED
    BY <1>1, <1>4, <2>2, <2>3, GivesUp DEF ForceFetch
<1>5. CASE AdoptPushed
  <2>1. sKey' \in Triples /\ keyList' \in Seq(Key)
    BY <1>5, ListGrows, Bundles, LinkAssumption DEF AdoptPushed, Triples, LinkInv, ReceiverInv
  <2>2. ReceiverInv'
    BY <1>5, <2>1 DEF AdoptPushed, LinkInv, ReceiverInv
  <2>3. uart' \in Seq(SoundUart')
    BY <1>1, <1>5, <2>1, KeyFramePut DEF AdoptPushed, TryPut, Put
  <2> QED
    BY <1>1, <1>5, <2>2, <2>3, GivesUp DEF AdoptPushed
<1>6. CASE Restart
  <2>1. CASE keyList' = <<>> /\ sKey' = NoBundle /\ UNCHANGED uart
    <3>1. ReceiverInv'
      BY <1>6, <2>1, LinkAssumption DEF Restart, LinkInv, ReceiverInv, Counters
    <3> QED
      BY <1>1, <1>6, <2>1, <3>1, GivesUp DEF Restart
  <2>2. CASE /\ keyList' \in Fetched
             /\ sKey' = Bundle(keyList'[1])
             /\ TryPut(uart, KeyFrame(sKey'))
    <3>1. keyList' \in Seq(Key) /\ sKey' \in Triples
      BY <2>2, FetchedLists, Bundles
    <3>2. ReceiverInv'
      BY <1>6, <3>1, LinkAssumption DEF Restart, LinkInv, ReceiverInv, Counters
    <3>3. uart' \in Seq(SoundUart')
      BY <1>1, <2>2, <3>1, KeyFramePut DEF TryPut, Put
    <3> QED
      BY <1>1, <1>6, <3>2, <3>3, GivesUp DEF Restart
  <2> QED
    BY <1>6, <2>1, <2>2 DEF Restart
<1> QED
  BY <1>2, <1>3, <1>4, <1>5, <1>6

LEMMA DropStep ==
  ASSUME LinkInv, IgnoreHS2 \/ RecvUnreadable \/ Timeout \/ Lose
  PROVE  LinkInv' /\ MAStep
<1> USE DEF receiverKeys, handshake, picoVars, wires, receiverVars
<1>1. /\ UNCHANGED <<sKey, keyList, keyIdx, picoVars, challenges, replies, history>>
      /\ ReceiverInv'
      /\ state' = "HS2" => state = "HS2" /\ entityNonce' = entityNonce
  <2>1. CASE Timeout
    BY <2>1, LinkAssumption DEF Timeout, LinkInv, ReceiverInv, Counters
  <2>2. CASE IgnoreHS2 \/ RecvUnreadable \/ Lose
    BY <2>2 DEF IgnoreHS2, RecvUnreadable, Lose, LinkInv, ReceiverInv
  <2> QED
    BY <2>1, <2>2
<1>2. uart \in Seq(SoundUart') /\ light \in Seq(SoundLight')
  BY <1>1, OldFrames
<1>3. /\ uart' = uart \/ (uart # <<>> /\ uart' = Tail(uart))
      /\ light' = light \/ (light # <<>> /\ light' = Tail(light))
  BY DEF IgnoreHS2, RecvUnreadable, Timeout, Lose, Take
<1>4. uart' \in Seq(SoundUart') /\ light' \in Seq(SoundLight')
  BY <1>2, <1>3, TakeSound
<1> QED
  BY <1>1, <1>4, GivesUp

(* An encrypted command is handled under a whole key.                      *)
LEMMA CommandTaken ==
  ASSUME LinkInv, NEW cmd, RecvCommand(cmd)
  PROVE  /\ sKey \in Triples
         /\ light # <<>> /\ light' = Tail(light)
         /\ UNCHANGED <<pico, savedNonce, led, replies, history>>
  BY DEF RecvCommand, Readable, keyValid, Take, picoVars, LinkInv, ReceiverInv

LEMMA CommandStep ==
  ASSUME LinkInv, RecvForce \/ RecvNewKey \/ RecvAck
  PROVE  LinkInv' /\ MAStep
<1> USE DEF receiverKeys
<1>1. /\ sKey \in Triples /\ light # <<>> /\ light' = Tail(light)
      /\ UNCHANGED <<pico, savedNonce, led, challenges, replies, history>>
  BY CommandTaken DEF RecvForce, RecvNewKey, RecvAck
<1>2. uart \in Seq(SoundUart') /\ light' \in Seq(SoundLight')
  BY <1>1, OldFrames, TakeSound
<1>3. CASE RecvForce
  <2>1. UNCHANGED <<sKey, keyIdx, entityNonce>>
    BY <1>3 DEF RecvForce
  <2>2. CASE keyList' = <<>> /\ UNCHANGED <<pendingKey, state, uart>>
    <3>1. ReceiverInv'
      BY <1>1, <2>1, <2>2 DEF LinkInv, ReceiverInv
    <3> QED
      BY <1>1, <1>2, <2>1, <2>2, <3>1, GivesUp
  <2>3. CASE /\ keyList' \in Fetched
             /\ pendingKey' = keyList'[1]
             /\ TryPut(uart, KeyFrame(PendingBundle))
             /\ state' = "ACK"
    <3>1. keyList' \in Seq(Key) /\ pendingKey' \in Key
      BY <2>3, FetchedLists
    <3>2. PendingBundle \in Triples
      BY <3>1, Bundles DEF PendingBundle
    <3>3. ReceiverInv'
      BY <1>1, <2>1, <2>3, <3>1, LinkAssumption DEF LinkInv, ReceiverInv
    <3>4. uart' \in Seq(SoundUart')
      BY <1>2, <2>3, <3>2, KeyFramePut DEF TryPut, Put
    <3> QED
      BY <1>1, <1>2, <2>3, <3>3, <3>4, GivesUp
  <2> QED
    BY <1>3, <2>2, <2>3 DEF RecvForce
<1>4. CASE RecvNewKey
  <2>1. ReceiverInv'
    BY <1>1, <1>4 DEF RecvNewKey, LinkInv, ReceiverInv
  <2> QED
    BY <1>1, <1>2, <1>4, <2>1, GivesUp DEF RecvNewKey
<1>5. CASE RecvAck
  <2>1. /\ UNCHANGED <<keyList, keyIdx, entityNonce, uart>>
        /\ state' \in {state, "IDLE"}
    BY <1>5 DEF RecvAck, AckHandled
  <2>2. CASE state = "ACK"
    <3>1. pendingKey \in Key /\ keyList \in Seq(Key)
      BY <2>2 DEF LinkInv, ReceiverInv
    <3>2. /\ sKey' = [sKey EXCEPT !.key = pendingKey,
                                  !.id = IF keyList # <<>> THEN keyList[1] ELSE sKey.id]
          /\ pendingKey' = None /\ state' = "IDLE"
      BY <1>5, <2>2 DEF RecvAck, AckHandled
    <3>3. sKey' \in Triples
      <4>1. keyList # <<>> => keyList[1] \in Key
        BY <3>1
      <4>2. (IF keyList # <<>> THEN keyList[1] ELSE sKey.id) \in Key
        BY <1>1, <4>1 DEF Triples
      <4> QED
        BY <1>1, <3>1, <3>2, <4>2 DEF Triples
    <3>4. ReceiverInv'
      BY <1>1, <2>1, <3>2, <3>3 DEF LinkInv, ReceiverInv
    <3> QED
      BY <1>1, <1>2, <2>1, <3>2, <3>4, GivesUp
  <2>3. CASE state # "ACK"
    <3>1. UNCHANGED <<sKey, pendingKey, state>>
      BY <1>5, <2>3 DEF RecvAck
    <3>2. ReceiverInv'
      BY <1>1, <2>1, <3>1 DEF LinkInv, ReceiverInv
    <3> QED
      BY <1>1, <1>2, <2>1, <3>1, <3>2, GivesUp
  <2> QED
    BY <2>2, <2>3
<1> QED
  BY <1>3, <1>4, <1>5

-----------------------------------------------------------------------------
(* Steps that draw a challenge                                             *)

(* What StartHandshake does: nothing, or a challenge that is sent and      *)
(* waited for, or one that stays behind.                                   *)
LEMMA StartStep ==
  ASSUME LinkInv, NEW b, b \in Triples, StartHandshake(b),
         sKey' \in Triples, keyList' \in Seq(Key),
         light' = light \/ (light # <<>> /\ light' = Tail(light)),
         UNCHANGED <<keyIdx, pendingKey, pico, savedNonce, led, replies, history>>
  PROVE  LinkInv' /\ MAStep
<1>0. /\ challenges \in Nat /\ replies \in Nat /\ MaxNonce \in Nat
      /\ entityNonce \in 0 .. challenges
  BY LinkAssumption DEF LinkInv, Counters, ReceiverInv
<1>1. CASE UNCHANGED <<challenges, handshake, uart>>
  <2>1. ReceiverInv'
    BY <1>1 DEF LinkInv, ReceiverInv, handshake
  <2>2. uart \in Seq(SoundUart') /\ light' \in Seq(SoundLight')
    BY <1>1, OldFrames, TakeSound
  <2> QED
    BY <1>1, <2>1, <2>2, GivesUp DEF handshake
<1>2. ASSUME /\ challenges < MaxNonce
             /\ challenges' = challenges + 1
             /\ \/ /\ Put(uart, HS1(b, challenges'))
                   /\ entityNonce' = challenges'
                   /\ state' = "HS2"
                \/ /\ entityNonce' = 0
                   /\ UNCHANGED <<uart, state>>
      PROVE  LinkInv' /\ MAStep
  <2>0. uart \in Seq(SoundUart') /\ light \in Seq(SoundLight')
    BY <1>0, <1>2, WiresStaySound DEF history
  <2>1. light' \in Seq(SoundLight')
    BY <2>0, TakeSound
  <2>2. HS1(b, challenges') \in SoundUart'
    BY <1>0, <1>2 DEF HS1, SoundUart, Frame, Triples
  <2>3. uart' \in Seq(SoundUart')
    <3>1. uart' = uart \/ uart' = Append(uart, HS1(b, challenges'))
      BY <1>2 DEF Put
    <3> QED
      BY <2>0, <2>2, <3>1, PutSound
  <2>4. Counters'
    BY <1>0, <1>2 DEF LinkInv, Counters
  <2>5. ReceiverInv'
    BY <1>0, <1>2 DEF LinkInv, ReceiverInv
  <2>6. PicoInv'
    BY DEF LinkInv, PicoInv
  <2>7. (IF state' = "HS2" THEN entityNonce' ELSE 0) \in {0, challenges + 1}
    BY <1>2
  <2>8. MA!Ask
    BY <1>2, <2>7 DEF MA!Ask, history
  <2> QED
    BY <2>1, <2>3, <2>4, <2>5, <2>6, <2>8 DEF LinkInv, WireInv, MAStep, MA!Next
<1> QED
  BY <1>1, <1>2 DEF StartHandshake

LEMMA AskStep ==
  ASSUME LinkInv, PressHandshake \/ RecvKeyId \/ RecvVerify
  PROVE  LinkInv' /\ MAStep
<1> USE DEF receiverKeys, picoVars
<1>1. CASE PressHandshake
  <2>1. sKey \in Triples /\ keyList \in Seq(Key)
    BY <1>1 DEF PressHandshake, keyValid, LinkInv, ReceiverInv
  <2> QED
    BY <1>1, <2>1, StartStep DEF PressHandshake
<1>2. CASE RecvVerify
  <2>1. /\ sKey \in Triples /\ keyList \in Seq(Key)
        /\ light # <<>> /\ light' = Tail(light)
        /\ UNCHANGED <<pico, savedNonce, led, replies, history>>
    BY <1>2, CommandTaken DEF RecvVerify, LinkInv, ReceiverInv
  <2>2. StartHandshake(sKey) \/ UNCHANGED <<handshake, uart, challenges>>
    BY <1>2 DEF RecvVerify
  <2>3. StartHandshake(sKey)
    BY <2>2 DEF StartHandshake
  <2> QED
    BY <1>2, <2>1, <2>3, StartStep DEF RecvVerify
<1>3. CASE RecvKeyId
  <2>1. /\ light # <<>> /\ light' = Tail(light)
        /\ UNCHANGED <<pico, savedNonce, led, replies, history>>
    BY <1>3 DEF RecvKeyId, Take
  <2>2. CASE UNCHANGED <<receiverKeys, handshake, uart, challenges>>
    <3>1. ReceiverInv'
      BY <2>2 DEF LinkInv, ReceiverInv, handshake
    <3>2. uart \in Seq(SoundUart') /\ light' \in Seq(SoundLight')
      BY <2>1, <2>2, OldFrames, TakeSound
    <3> QED
      BY <2>1, <2>2, <3>1, <3>2, GivesUp DEF handshake
  <2>3. CASE ~UNCHANGED <<receiverKeys, handshake, uart, challenges>>
    <3>1. PICK id \in Key :
            /\ sKey' = Bundle(id)
            /\ keyList' = ListWith(id)
            /\ UNCHANGED <<keyIdx, pendingKey>>
      BY <1>3, <2>3 DEF RecvKeyId
    <3>2. StartHandshake(sKey')
      BY <1>3, <2>3 DEF RecvKeyId, StartHandshake
    <3>3. sKey' \in Triples /\ keyList' \in Seq(Key)
      BY <3>1, ListGrows, Bundles DEF LinkInv, ReceiverInv
    <3> QED
      BY <2>1, <3>1, <3>2, <3>3, StartStep
  <2> QED
    BY <2>2, <2>3
<1> QED
  BY <1>1, <1>2, <1>3

-----------------------------------------------------------------------------
(* The answer, its acceptance, and the acceptance of its echo              *)

LEMMA AcceptStep ==
  ASSUME LinkInv, RecvHS2
  PROVE  LinkInv' /\ MAStep
<1> USE DEF receiverKeys, picoVars
<1> DEFINE frame == Head(light)
<1>1. /\ light # <<>> /\ frame.type = "HS2" /\ light' = Tail(light)
      /\ state = "HS2" /\ entityNonce' = 0 /\ state' = "IDLE"
      /\ UNCHANGED <<sKey, keyList, keyIdx, pendingKey, pico, savedNonce, led,
                     challenges, replies, answered, pDone>>
  BY DEF RecvHS2, Take
<1>2. /\ challenges \in Nat /\ replies \in Nat
      /\ entityNonce \in 0 .. challenges /\ Junk \notin Nat
  BY LinkAssumption DEF LinkInv, Counters, ReceiverInv
<1>3. frame \in SoundLight
  BY <1>1, TakeSound DEF LinkInv, WireInv
<1>4. /\ frame \in [type : {"HS2"}, key : Key \cup {None}, mac : Key,
                    en : 1 .. MaxNonce \cup {Junk}, pn : 1 .. MaxNonce]
      /\ frame.pn \in 1 .. replies /\ <<frame.en, frame.pn>> \in answered
  BY <1>1, <1>3 DEF SoundLight, Frame
<1>5. ReceiverInv'
  BY <1>1, <1>2 DEF LinkInv, ReceiverInv
<1>6. CASE ~ChecksHS2(frame)
  <2>1. UNCHANGED <<uart, rDone>>
    BY <1>6 DEF RecvHS2
  <2>2. uart \in Seq(SoundUart') /\ light' \in Seq(SoundLight')
    BY <1>1, <2>1, OldFrames, TakeSound DEF history
  <2> QED
    BY <1>1, <1>5, <2>1, <2>2, GivesUp DEF history
<1>7. CASE ChecksHS2(frame)
  <2>1. /\ uart' = uart \/ uart' = Append(uart, HS3(sKey, frame))
        /\ rDone' = rDone \cup {<<frame.en, frame.pn>>}
    BY <1>7 DEF RecvHS2, TryPut, Put
  <2>2. /\ frame.en = entityNonce /\ entityNonce \in 1 .. challenges
        /\ entityNonce \in 1 .. MaxNonce /\ frame.key = sKey.key /\ frame.mac = sKey.mac
    BY <1>2, <1>4, <1>7 DEF ChecksHS2
  <2>3. uart \in Seq(SoundUart') /\ light \in Seq(SoundLight')
    BY <1>1, <1>2, <2>1, WiresStaySound
  <2>4. sKey \in Triples
    BY <1>4, <2>2, LinkAssumption DEF LinkInv, ReceiverInv, NoBundle
  <2>5. HS3(sKey, frame) \in SoundUart'
    BY <1>1, <1>4, <2>1, <2>2, <2>4 DEF HS3, SoundUart, Frame, Triples
  <2>6. uart' \in Seq(SoundUart') /\ light' \in Seq(SoundLight')
    BY <1>1, <2>1, <2>3, <2>5, PutSound, TakeSound
  <2>7. MA!ReceiverAccepts(frame.pn)
    BY <1>1, <1>2, <1>4, <2>1, <2>2 DEF MA!ReceiverAccepts
  <2>8. MAStep
    BY <1>4, <2>7 DEF MAStep, MA!Next
  <2> QED
    BY <1>1, <1>5, <2>6, <2>8 DEF LinkInv, PicoInv, Counters, WireInv
<1> QED
  BY <1>6, <1>7

(* Steps of the Pico that at most forget the nonce waited for.             *)
LEMMA Forgets ==
  ASSUME LinkInv, PicoInv', uart' \in Seq(SoundUart'), light' \in Seq(SoundLight'),
         UNCHANGED <<receiverVars, replies, history>>, savedNonce' \in {0, savedNonce}
  PROVE  LinkInv' /\ MAStep
<1> USE DEF receiverVars, receiverKeys, handshake
<1>1. LinkInv'
  BY DEF LinkInv, ReceiverInv, Counters, WireInv
<1>2. MAStep
  BY DEF MAStep, MA!Next, MA!Forget, MA!vars, history
<1> QED
  BY <1>1, <1>2

LEMMA PicoQuietStep ==
  ASSUME LinkInv, RecvKey \/ SayCommand \/ SendId \/ Console \/ Reboot
  PROVE  LinkInv' /\ MAStep
<1> USE DEF picoVars, wires
<1>1. UNCHANGED <<receiverVars, replies, history>>
  BY DEF RecvKey, SayCommand, SendId, Console, Reboot
<1>2. uart \in Seq(SoundUart') /\ light \in Seq(SoundLight')
  BY <1>1, OldFrames DEF receiverVars
<1>3. replies \in Nat
  BY LinkAssumption DEF LinkInv, Counters
<1>4. CASE RecvKey
  <2>1. /\ uart # <<>> /\ uart' = Tail(uart) /\ Head(uart).type = "KEY"
        /\ pico' = Head(uart).bundle /\ UNCHANGED <<savedNonce, led, light>>
    BY <1>4 DEF RecvKey, Take
  <2>2. Head(uart) \in Frame /\ uart' \in Seq(SoundUart')
    BY <1>2, <2>1, TakeSound DEF LinkInv, WireInv, SoundUart
  <2>3. pico' \in Triples
    BY <2>1, <2>2 DEF Frame, Triples
  <2>4. PicoInv'
    BY <1>1, <2>1, <2>3 DEF LinkInv, PicoInv, Triples
  <2> QED
    BY <1>1, <1>2, <2>1, <2>2, <2>4, Forgets
<1>5. CASE SayCommand
  <2>1. PICK cmd \in Command :
          light' = Append(light, [type |-> "ENC", key |-> pico.key, cmd |-> cmd])
    BY <1>5 DEF SayCommand, Put
  <2>2. pico.key \in Key
    BY <1>5 DEF SayCommand, LinkInv, PicoInv
  <2>3. [type |-> "ENC", key |-> pico.key, cmd |-> cmd] \in SoundLight'
    BY <2>2 DEF SoundLight, Frame
  <2>4. light' \in Seq(SoundLight')
    BY <1>2, <2>1, <2>3, PutSound
  <2> QED
    BY <1>1, <1>2, <1>5, <2>4, Forgets DEF SayCommand, LinkInv, PicoInv
<1>6. CASE SendId
  <2>1. light' = Append(light, [type |-> "ID", id |-> pico.id])
    BY <1>6 DEF SendId, Put
  <2>2. [type |-> "ID", id |-> pico.id] \in SoundLight'
    BY DEF SoundLight, Frame, LinkInv, PicoInv
  <2>3. light' \in Seq(SoundLight')
    BY <1>2, <2>1, <2>2, PutSound
  <2> QED
    BY <1>1, <1>2, <1>6, <2>3, Forgets DEF SendId, LinkInv, PicoInv
<1>7. CASE Console
  <2>1. PicoInv'
    BY <1>1, <1>7 DEF Console, LinkInv, PicoInv
  <2> QED
    BY <1>1, <1>2, <1>7, <2>1, Forgets DEF Console
<1>8. CASE Reboot
  <2>1. PICK k \in Key \cup {None}, id \in Key \cup {None} :
          pico' = [id |-> id, key |-> k, mac |-> None]
    BY <1>8 DEF Reboot
  <2>2. savedNonce' = 0 /\ led' = FALSE /\ replies' = replies
    BY <1>8 DEF Reboot
  <2>3. PicoInv'
    <3>1. pico' \in [id : Key \cup {None}, key : Key \cup {None}, mac : Key \cup {None}]
      BY <2>1
    <3>2. savedNonce' \in 0 .. replies'
      BY <1>3, <2>2
    <3>3. led' \in BOOLEAN
      BY <2>2
    <3> QED
      BY <3>1, <3>2, <3>3 DEF PicoInv
  <2> QED
    BY <1>1, <1>2, <1>8, <2>3, Forgets DEF Reboot
<1> QED
  BY <1>4, <1>5, <1>6, <1>7, <1>8

LEMMA AnswerStep ==
  ASSUME LinkInv, RecvHS1
  PROVE  LinkInv' /\ MAStep
<1> DEFINE frame == Head(uart)
<1>1. /\ uart # <<>> /\ frame.type = "HS1" /\ uart' = Tail(uart)
      /\ UNCHANGED <<receiverVars, pico, led, rDone, pDone>>
  BY DEF RecvHS1, Take
<1>2. challenges \in Nat /\ replies \in Nat /\ MaxNonce \in Nat
  BY LinkAssumption DEF LinkInv, Counters
<1>3. frame \in SoundUart
  BY <1>1, TakeSound DEF LinkInv, WireInv
<1>4. /\ frame \in [type : {"HS1"}, id : Key, key : Key, mac : Key, en : 1 .. MaxNonce]
      /\ frame.en \in 1 .. challenges
  BY <1>1, <1>3 DEF SoundUart, Frame
<1>5. CASE UNCHANGED <<light, replies, savedNonce, answered>>
  <2>1. uart' \in Seq(SoundUart') /\ light \in Seq(SoundLight')
    BY <1>1, <1>5, OldFrames, TakeSound DEF history, receiverVars
  <2> QED
    BY <1>1, <1>5, <2>1, Forgets DEF LinkInv, PicoInv, history
<1>6. CASE ~UNCHANGED <<light, replies, savedNonce, answered>>
  <2>1. PICK en \in Decrypted(frame) :
          /\ en # None
          /\ replies < MaxNonce
          /\ replies' = replies + 1
          /\ light' = Append(light, HS2(en, replies'))
          /\ savedNonce' = replies'
          /\ answered' = answered \cup {<<en, replies'>>}
    BY <1>6 DEF RecvHS1, Put
  <2>2. en \in 1 .. challenges \cup {Junk} /\ en \in 1 .. MaxNonce \cup {Junk}
    BY <1>4, <2>1 DEF Decrypted
  <2>3. pico.mac \in Key
    BY <1>4, <1>6 DEF RecvHS1, ChecksHS1
  <2>4. HS2(en, replies') \in SoundLight'
    BY <1>2, <2>1, <2>2, <2>3 DEF HS2, SoundLight, Frame, LinkInv, PicoInv
  <2>5. uart \in Seq(SoundUart') /\ light \in Seq(SoundLight')
    BY <1>1, <1>2, <2>1, WiresStaySound DEF receiverVars
  <2>6. uart' \in Seq(SoundUart') /\ light' \in Seq(SoundLight')
    BY <1>1, <2>1, <2>4, <2>5, PutSound, TakeSound
  <2>7. Counters' /\ PicoInv' /\ ReceiverInv'
    BY <1>1, <1>2, <2>1
       DEF receiverVars, receiverKeys, handshake, LinkInv, Counters, PicoInv, ReceiverInv
  <2>8. MA!Answer(en)
    BY <1>1, <2>1 DEF MA!Answer, receiverVars, handshake
  <2> QED
    BY <2>2, <2>6, <2>7, <2>8 DEF LinkInv, WireInv, MAStep, MA!Next
<1> QED
  BY <1>5, <1>6

LEMMA EchoStep ==
  ASSUME LinkInv, RecvHS3
  PROVE  LinkInv' /\ MAStep
<1> DEFINE frame == Head(uart)
<1>1. /\ uart # <<>> /\ frame.type = "HS3" /\ uart' = Tail(uart)
      /\ savedNonce' = 0 /\ led' = (led \/ ChecksHS3(frame))
      /\ UNCHANGED <<receiverVars, pico, light, replies, answered, rDone>>
  BY DEF RecvHS3, Take
<1>2. frame \in SoundUart
  BY <1>1, TakeSound DEF LinkInv, WireInv
<1>3. /\ frame \in [type : {"HS3"}, key : Key, mac : Key, en : 1 .. MaxNonce, pn : 1 .. MaxNonce]
      /\ frame.en \in 1 .. challenges /\ <<frame.en, frame.pn>> \in rDone
  BY <1>1, <1>2 DEF SoundUart, Frame
<1>4. replies \in Nat /\ challenges \in Nat
  BY LinkAssumption DEF LinkInv, Counters
<1>5. PicoInv'
  BY <1>1, <1>4 DEF LinkInv, PicoInv
<1>6. uart \in Seq(SoundUart') /\ light \in Seq(SoundLight')
  BY <1>1, <1>4, WiresStaySound DEF receiverVars
<1>7. uart' \in Seq(SoundUart') /\ light' \in Seq(SoundLight')
  BY <1>1, <1>6, TakeSound
<1>8. CASE ~ChecksHS3(frame)
  <2>1. UNCHANGED pDone
    BY <1>8 DEF RecvHS3
  <2> QED
    BY <1>1, <1>5, <1>7, <2>1, Forgets DEF history
<1>9. CASE ChecksHS3(frame)
  <2>1. pDone' = pDone \cup {<<frame.en, frame.pn>>}
    BY <1>9 DEF RecvHS3
  <2>2. frame.pn = savedNonce /\ savedNonce # 0
    BY <1>3, <1>9, LinkAssumption DEF ChecksHS3
  <2>3. MA!PicoAccepts(frame.en)
    BY <1>1, <1>3, <2>1, <2>2 DEF MA!PicoAccepts, receiverVars, handshake
  <2>4. MAStep
    BY <1>3, <2>3 DEF MAStep, MA!Next
  <2> QED
    BY <1>1, <1>5, <1>7, <2>4
       DEF LinkInv, ReceiverInv, Counters, WireInv, receiverVars, receiverKeys, handshake
<1> QED
  BY <1>8, <1>9

-----------------------------------------------------------------------------
(* Theorems                                                                *)

LEMMA InitLink == Init => LinkInv /\ MA!Init
<1> SUFFICES ASSUME Init PROVE LinkInv /\ MA!Init
  OBVIOUS
<1>1. Counters
  BY LinkAssumption DEF Init, Counters
<1>2. PicoInv
  <2>1. PICK k \in Key \cup {None} : pico = [id |-> k, key |-> k, mac |-> None]
    BY DEF Init
  <2>2. savedNonce = 0 /\ led = FALSE /\ replies = 0
    BY DEF Init
  <2>3. pico \in [id : Key \cup {None}, key : Key \cup {None}, mac : Key \cup {None}]
    BY <2>1
  <2>4. savedNonce \in 0 .. replies
    BY <2>2
  <2>5. led \in BOOLEAN
    BY <2>2
  <2> QED
    BY <2>3, <2>4, <2>5 DEF PicoInv
<1>3. CASE sKey = NoBundle /\ keyList = <<>> /\ uart = <<>>
  BY <1>1, <1>2, <1>3 DEF Init, LinkInv, ReceiverInv, WireInv, MA!Init
<1>4. CASE \E k \in Key : /\ sKey = Bundle(k) /\ keyList = <<k>>
                          /\ uart \in {<<>>, <<KeyFrame(sKey)>>}
  <2>1. sKey \in Triples /\ keyList \in Seq(Key)
    BY <1>4, Bundles
  <2>2. KeyFrame(sKey) \in SoundUart
    BY <2>1 DEF KeyFrame, SoundUart, Frame, Triples
  <2>3. uart \in Seq(SoundUart) /\ light \in Seq(SoundLight)
    <3>1. uart = <<>> \/ uart = <<KeyFrame(sKey)>>
      BY <1>4
    <3>2. light = <<>>
      BY DEF Init
    <3>3. <<>> \in Seq(SoundUart) /\ <<>> \in Seq(SoundLight)
      OBVIOUS
    <3>4. <<KeyFrame(sKey)>> \in Seq(SoundUart)
      BY <2>2
    <3> QED
      BY <3>1, <3>2, <3>3, <3>4
  <2>4. ReceiverInv
    BY <2>1 DEF Init, ReceiverInv
  <2> QED
    BY <1>1, <1>2, <2>3, <2>4 DEF Init, LinkInv, WireInv, MA!Init
<1> QED
  BY <1>3, <1>4 DEF Init

LEMMA LinkStep ==
  ASSUME LinkInv, [Next]_vars
  PROVE  LinkInv' /\ MAStep
<1>1. CASE UNCHANGED vars
  <2>1. UNCHANGED <<receiverVars, picoVars, wires, replies, history>>
    BY <1>1 DEF vars, receiverVars
  <2>2. uart \in Seq(SoundUart') /\ light \in Seq(SoundLight')
    BY <2>1, OldFrames DEF receiverVars
  <2> QED
    BY <2>1, <2>2, Forgets DEF picoVars, wires, LinkInv, PicoInv
<1>2. CASE Next
  BY <1>2, KeyPressStep, DropStep, CommandStep, AskStep, AcceptStep, PicoQuietStep,
     AnswerStep, EchoStep
     DEF Next, Operator, ReceiverLoop, PicoLoop
<1> QED
  BY <1>1, <1>2

(* The inductive invariant of the link: keys are whole and every frame     *)
(* under way says what did happen.                                         *)
THEOREM LinkInvariant == Spec => []LinkInv
<1>1. Init => LinkInv
  BY InitLink
<1>2. LinkInv /\ [Next]_vars => LinkInv'
  BY LinkStep
<1> QED
  BY <1>1, <1>2, PTL DEF Spec

(* Types of keys, states, frames and nonces, for every bound.              *)
THEOREM TypeCorrect == Spec => []TypeOK
<1>1. LinkInv => TypeOK
  BY InvImplies
<1> QED
  BY <1>1, LinkInvariant, PTL

(* No interleaving of commands, presses and deadlines makes an ACK install *)
(* a wiped key.                                                            *)
THEOREM NeverInstallsZeroKey == Spec => []NeverZeroKey
<1>1. LinkInv => NeverZeroKey
  BY InvImplies
<1> QED
  BY <1>1, LinkInvariant, PTL

(* The link, with key changes, lost frames, abandoned waits and reboots,   *)
(* implements the abstract handshake.                                      *)
THEOREM LinkImplements == Spec => ImplementsMutualAuth
<1>1. Init => MA!Init
  BY InitLink
<1>2. LinkInv /\ [Next]_vars => [MA!Next]_(MA!vars)
  BY LinkStep DEF MAStep
<1> QED
  BY <1>1, <1>2, LinkInvariant, PTL DEF Spec, ImplementsMutualAuth, MA!Spec

(* The abstract handshake with its theorem, under the same mapping.        *)
MAP == INSTANCE MutualAuthProofs WITH
         asked <- challenges,
         open <- IF state = "HS2" THEN entityNonce ELSE 0,
         held <- savedNonce

(* Injective agreement over the lossy link: whatever one side accepts, the *)
(* other side did, and no challenge or nonce is accepted twice.            *)
THEOREM LinkAgrees == Spec => []MAP!Agreement
<1>1. Init => MAP!Init
  BY InitLink DEF MA!Init, MAP!Init
<1>2. LinkInv /\ [Next]_vars => [MAP!Next]_(MAP!vars)
  BY LinkStep
     DEF MAStep, MA!Next, MA!Ask, MA!GiveUp, MA!Answer, MA!ReceiverAccepts, MA!PicoAccepts,
         MA!Forget, MA!vars, MAP!Next, MAP!Ask, MAP!GiveUp, MAP!Answer,
         MAP!ReceiverAccepts, MAP!PicoAccepts, MAP!Forget, MAP!vars
<1>3. MAP!Spec => []MAP!Agreement
  BY MAP!HandshakeAgrees
<1> QED
  BY <1>1, <1>2, <1>3, LinkInvariant, PTL DEF Spec, MAP!Spec
=============================================================================
