------------------------- MODULE PicoKeyStoreProofs -------------------------
(***************************************************************************)
(* For every set of keys, counter width and bound: the types of            *)
(* PicoKeyStore, the uniqueness of its nonces, and that the id and the key *)
(* in RAM always came together, across power losses between any two flash  *)
(* operations.                                                             *)
(***************************************************************************)
EXTENDS PicoKeyStore, TLAPS

(* The uint32_t counter either wraps to 0 or grows by one.                 *)
LEMMA CounterStep ==
  ASSUME msgCounter \in 0 .. CounterLimit - 1
  PROVE  /\ NextCounter \in 0 .. CounterLimit - 1
         /\ ~CounterWraps => NextCounter = msgCounter + 1
  BY NonceAssumption DEF NextCounter, CounterWraps

(* What a handler queues is well typed.                                    *)
LEMMA WriteTyped ==
  ASSUME NEW s \in Slot, NEW t \in Slot, NEW pair \in Pair
  PROVE  WriteKey(s, pair) \o StoreLastUsed(t) \in Seq(Op)
<1>1. WriteKey(s, pair) \in Seq(Op)
  BY DEF WriteKey, Erase, Program, Op, SlotOp
<1>2. StoreLastUsed(t) \in Seq(Op)
  BY DEF StoreLastUsed, Erase, Program, Op, IndexOp, IndexPage
<1> QED
  BY <1>1, <1>2

LEMMA EraseTyped ==
  ASSUME NEW s \in Slot
  PROVE  <<Erase(s)>> \in Seq(Op)
  BY DEF Erase, Op, SlotOp

LEMMA StoreTyped ==
  ASSUME NEW t \in Slot
  PROVE  StoreLastUsed(t) \in Seq(Op)
  BY DEF StoreLastUsed, Erase, Program, Op, IndexOp, IndexPage

(* Every pair a handler is given is well typed, and was given together.    *)
LEMMA GivenPairs ==
  /\ \A k \in Key : AuthPair(k) \in Pair /\ GivenTogether(AuthPair(k).id, AuthPair(k).key)
  /\ \A k \in Key \cup {None} :
       ManualPair(k) \in Pair /\ GivenTogether(ManualPair(k).id, ManualPair(k).key)
  /\ \A p \in Heard : p \in Pair /\ GivenTogether(p.id, p.key)
  BY DEF AuthPair, ManualPair, GarbledPair, Heard, Pair, KeyId, CipherKey, GivenTogether

-----------------------------------------------------------------------------
(* Types                                                                   *)

LEMMA BeginTyped ==
  ASSUME TypeOK, currentSlot' \in Slot,
         NEW ops \in Seq(Op), NEW effect \in Outcome, Begin(ops, effect)
  PROVE  TypeOK'
  BY DEF TypeOK, Begin, ram, nonce

LEMMA EffectsTyped ==
  /\ Unaffected \in Outcome /\ KeyChanged \in Outcome
  /\ \A k \in Key : Installed(k) \in Outcome
  BY DEF Unaffected, KeyChanged, Installed, Outcome

LEMMA StoreInCurrentSlotTyped ==
  ASSUME TypeOK, NEW pair \in Pair, NEW effect \in Outcome,
         StoreInCurrentSlot(pair, effect)
  PROVE  TypeOK'
<1>1. currentSlot \in Slot /\ currentSlot' = currentSlot
  BY DEF TypeOK, StoreInCurrentSlot
<1>2. WriteKey(currentSlot, pair) \o StoreLastUsed(currentSlot) \in Seq(Op)
  BY <1>1, WriteTyped
<1> QED
  BY <1>1, <1>2, BeginTyped DEF StoreInCurrentSlot

LEMMA UseSlotTyped ==
  ASSUME TypeOK, NEW s \in Slot, UseSlot(s)
  PROVE  TypeOK'
<1>1. currentSlot' \in Slot
  BY DEF UseSlot
<1>2. StoreLastUsed(s) \in Seq(Op)
  BY StoreTyped
<1> QED
  BY <1>1, <1>2, BeginTyped, EffectsTyped DEF UseSlot

LEMMA BootTyped ==
  ASSUME TypeOK, Boot
  PROVE  TypeOK'
<1>1. BootBlock \in Pair \cup {None}
  BY DEF TypeOK, BootBlock, Slot
<1>2. BootBlock # None => BootBlock.key \in CipherKey \cup {None} /\ BootBlock.id \in KeyId
  BY <1>1 DEF Pair
<1> QED
  BY <1>2, NonceAssumption, EffectsTyped DEF TypeOK, Boot, NonceInit, Slot

(* Whatever the running handler queued and wherever the power fails, flash *)
(* pages, RAM and the queue stay well formed, and the counter in its width.*)
THEOREM TypeCorrect == Spec => []TypeOK
<1>1. Init => TypeOK
  BY NonceAssumption, EffectsTyped DEF Init, TypeOK, Sector, Slot
<1>2. TypeOK /\ [Next]_vars => TypeOK'
  <2> SUFFICES ASSUME TypeOK, [Next]_vars PROVE TypeOK'
    OBVIOUS
  <2>1. CASE Command
    <3>1. ASSUME NEW s \in Slot, ClearSlot(s) PROVE TypeOK'
      <4>1. <<Erase(s)>> \in Seq(Op)
        BY EraseTyped
      <4>2. (IF s = currentSlot THEN KeyChanged ELSE Unaffected) \in Outcome
        BY EffectsTyped
      <4> QED
        BY <3>1, <4>1, <4>2, BeginTyped DEF ClearSlot, TypeOK
    <3>2. ASSUME NEW s \in Slot, UseSlot(s) PROVE TypeOK'
      BY <3>2, UseSlotTyped
    <3>3. CASE ClearAllSlots
      <4>1. <<Erase("A"), Erase("B")>> \in Seq(Op)
        BY DEF Erase, Op, SlotOp, Slot
      <4> QED
        BY <3>3, <4>1, BeginTyped, EffectsTyped DEF ClearAllSlots, TypeOK
    <3>4. CASE SwitchSlot
      BY <3>4, UseSlotTyped DEF SwitchSlot, Other, Slot, TypeOK
    <3>5. ASSUME NEW pair \in Heard, NewKeyForced(pair) \/ NewKey(pair) PROVE TypeOK'
      BY <3>5, GivenPairs, EffectsTyped, StoreInCurrentSlotTyped DEF NewKeyForced, NewKey
    <3>6. ASSUME NEW k \in Key \cup {None}, ManualKey(k) PROVE TypeOK'
      BY <3>6, GivenPairs, EffectsTyped, StoreInCurrentSlotTyped DEF ManualKey
    <3>7. CASE RebootCommand
      BY <3>7, BootTyped DEF RebootCommand
    <3> QED
      BY <2>1, <3>1, <3>2, <3>3, <3>4, <3>5, <3>6, <3>7 DEF Command
  <2>2. ASSUME NEW k \in Key, KeyFrame(k) PROVE TypeOK'
    BY <2>2, GivenPairs, EffectsTyped, StoreInCurrentSlotTyped DEF KeyFrame
  <2>3. CASE FlashStep
    <3> DEFINE op == Head(flashOps)
    <3>1. op \in Op /\ Tail(flashOps) \in Seq(Op)
      BY <2>3 DEF FlashStep, TypeOK
    <3>2. /\ op.sector \in Sector
          /\ op.sector \in Slot => op.page \in Pair \cup {None}
          /\ op.sector = "Index" => op.page \in IndexPage \cup {None}
      BY <3>1 DEF Op, SlotOp, IndexOp, Sector, Slot
    <3> QED
      BY <2>3, <3>1, <3>2 DEF FlashStep, TypeOK, ram, nonce, Sector, Slot
  <2>4. CASE Finish
    <3>1. KeyIn(currentSlot) \in CipherKey \cup {None}
      BY DEF TypeOK, KeyIn, Valid, Pair
    <3>2. sessionKeyId' \in KeyId \cup {None}
      BY <2>4 DEF Finish, ReloadId, Valid, TypeOK, Pair
    <3>3. outcome.mac \in Key \cup {None}
      BY DEF TypeOK, Outcome
    <3>4. bootSalt' \in Nat /\ msgCounter' \in 0 .. CounterLimit - 1
      BY <2>4, NonceAssumption DEF Finish, NonceInit, TypeOK
    <3>5. /\ sessionKey' \in CipherKey \cup {None} /\ keyram' \in CipherKey \cup {None}
          /\ sessionMacKey' \in Key \cup {None}
      BY <2>4, <3>1, <3>3 DEF Finish, AdoptCurrentSlot, TypeOK
    <3>6. outcome' \in Outcome /\ bootKey' \in BOOLEAN
      BY <2>4, EffectsTyped DEF Finish
    <3>7. UNCHANGED <<flash, currentSlot, flashOps, sent>>
      BY <2>4 DEF Finish
    <3> QED
      BY <3>2, <3>4, <3>5, <3>6, <3>7 DEF TypeOK
  <2>5. CASE Transmit
    <3>1. Nonce(sessionKey) \in [key : CipherKey, salt : Nat, ctr : Nat]
      BY <2>5 DEF Transmit, TypeOK, Nonce
    <3> QED
      BY <2>5, <3>1, CounterStep DEF Transmit, NonceAdvance, TypeOK, ram
  <2>6. CASE CounterExhausted \/ PowerLoss
    BY <2>6, BootTyped DEF CounterExhausted, PowerLoss
  <2>7. CASE BoundReached \/ UNCHANGED vars
    BY <2>7 DEF BoundReached, vars, ram, nonce, TypeOK
  <2> QED
    BY <2>1, <2>2, <2>3, <2>4, <2>5, <2>6, <2>7 DEF Next
<1> QED
  BY <1>1, <1>2, PTL DEF Spec

-----------------------------------------------------------------------------
(* Nonces                                                                  *)

(* Every nonce used lies before the next one: an older salt, or the same   *)
(* salt and a smaller counter. NoNonceReuse alone is not inductive: it     *)
(* says nothing of the nonces to come.                                     *)
NoncesBehind ==
  \A n \in sent : n.salt < bootSalt \/ (n.salt = bootSalt /\ n.ctr < msgCounter)

LEMMA NewSaltAhead ==
  ASSUME TypeOK, NoncesBehind, NonceInit, sent' = sent
  PROVE  NoncesBehind'
<1> SUFFICES ASSUME NEW n \in sent PROVE n.salt < bootSalt'
  BY DEF NoncesBehind
<1>1. n.salt \in Nat /\ bootSalt \in Nat /\ bootSalt' = bootSalt + 1
  BY DEF TypeOK, NonceInit
<1>2. n.salt <= bootSalt
  BY <1>1 DEF NoncesBehind
<1> QED
  BY <1>1, <1>2

LEMMA TransmitAhead ==
  ASSUME TypeOK, NoncesBehind, Transmit
  PROVE  NoncesBehind'
<1>1. bootSalt' = bootSalt /\ msgCounter' = msgCounter + 1
  BY CounterStep DEF Transmit, NonceAdvance, TypeOK
<1>2. bootSalt \in Nat /\ msgCounter \in Nat
  BY NonceAssumption DEF TypeOK
<1> SUFFICES ASSUME NEW n \in sent'
             PROVE  n.salt < bootSalt' \/ (n.salt = bootSalt' /\ n.ctr < msgCounter')
  BY DEF NoncesBehind
<1>3. CASE n = Nonce(sessionKey)
  BY <1>1, <1>2, <1>3 DEF Nonce
<1>4. CASE n \in sent
  <2>1. n.salt \in Nat /\ n.ctr \in Nat
    BY <1>4 DEF TypeOK
  <2> QED
    BY <1>1, <1>2, <1>4, <2>1 DEF NoncesBehind
<1> QED
  BY <1>3, <1>4 DEF Transmit

(* No (key, salt, counter) encrypts two messages: over counter wraps, key  *)
(* changes back and forth, and reboots. Rests on salts that never repeat.  *)
THEOREM NoncesAreFresh == Spec => NoNonceReuse
<1>1. Init => NoncesBehind
  BY DEF Init, NoncesBehind
<1>2. TypeOK /\ NoncesBehind /\ [Next]_vars => NoncesBehind'
  <2> SUFFICES ASSUME TypeOK, NoncesBehind, [Next]_vars PROVE NoncesBehind'
    OBVIOUS
  <2>1. CASE Transmit
    BY <2>1, TransmitAhead
  <2>2. CASE UNCHANGED <<sent, bootSalt, msgCounter>>
    BY <2>2 DEF NoncesBehind
  <2>3. CASE NonceInit /\ sent' = sent
    BY <2>3, NewSaltAhead
  <2>4. Command \/ (\E k \in Key : KeyFrame(k)) =>
          UNCHANGED <<sent, bootSalt, msgCounter>> \/ (NonceInit /\ sent' = sent)
    BY DEF Command, ClearSlot, UseSlot, ClearAllSlots, SwitchSlot, NewKeyForced, NewKey,
           ManualKey, KeyFrame, StoreInCurrentSlot, Begin, nonce, RebootCommand, Boot
  <2>5. FlashStep \/ Finish \/ CounterExhausted \/ PowerLoss \/ BoundReached =>
          UNCHANGED <<sent, bootSalt, msgCounter>> \/ (NonceInit /\ sent' = sent)
    BY DEF FlashStep, Finish, CounterExhausted, PowerLoss, BoundReached, Boot, vars, nonce
  <2> QED
    BY <2>1, <2>2, <2>3, <2>4, <2>5 DEF Next, vars, nonce
<1>3. TypeOK /\ NoncesBehind => (Transmit => Nonce(sessionKey) \notin sent)
  BY NonceAssumption DEF NoncesBehind, Nonce, TypeOK
<1> QED
  BY <1>1, <1>2, <1>3, TypeCorrect, PTL DEF Spec, NoNonceReuse

-----------------------------------------------------------------------------
(* The key in RAM                                                          *)

(* A page of a slot, in flash or still to be written, is a pair that was   *)
(* given together.                                                         *)
FlashTogether ==
  \A s \in Slot : Valid(s) => GivenTogether(flash[s].id, flash[s].key)

QueueTogether ==
  \A i \in DOMAIN flashOps :
    flashOps[i].sector \in Slot /\ flashOps[i].page # None =>
      GivenTogether(flashOps[i].page.id, flashOps[i].page.key)

(* A handler that leaves RAM alone only erases the other slot.             *)
QuietQueue ==
  ~outcome.changed =>
    \A i \in DOMAIN flashOps :
      flashOps[i].page = None /\ flashOps[i].sector # currentSlot

(* ActiveKeyBacked and BootFindsValidSlot, also while such a handler runs. *)
Backed ==
  ~outcome.changed /\ ~bootKey => sessionKey = KeyIn(currentSlot) /\ keyram = sessionKey

KeylessBoot ==
  ~outcome.changed /\ bootKey /\ sessionKeyId = None => \A s \in Slot : ~Valid(s)

StoreInv ==
  FlashTogether /\ QueueTogether /\ QuietQueue /\ Backed /\ KeylessBoot /\ PairCoherence

LEMMA BeginKeepsStore ==
  ASSUME StoreInv, NEW ops, NEW effect, Begin(ops, effect),
         QueueTogether', QuietQueue', effect.changed \/ UNCHANGED currentSlot
  PROVE  StoreInv'
<1>1. UNCHANGED <<flash, sessionKey, sessionKeyId, keyram, bootKey>>
      /\ ~outcome.changed /\ outcome' = effect
  BY DEF Begin, ram, Idle, Unaffected
<1>2. FlashTogether' /\ PairCoherence'
  BY <1>1 DEF StoreInv, FlashTogether, PairCoherence, Valid
<1>3. Backed' /\ KeylessBoot'
  BY <1>1 DEF StoreInv, Backed, KeylessBoot, KeyIn, Valid
<1> QED
  BY <1>2, <1>3 DEF StoreInv

LEMMA StoreInCurrentSlotKeepsStore ==
  ASSUME StoreInv, NEW pair \in Pair, GivenTogether(pair.id, pair.key),
         NEW effect, effect.changed, StoreInCurrentSlot(pair, effect)
  PROVE  StoreInv'
<1> DEFINE ops == WriteKey(currentSlot, pair) \o StoreLastUsed(currentSlot)
<1>1. Begin(ops, effect)
  BY DEF StoreInCurrentSlot
<1>2. flashOps' = ops /\ outcome' = effect
  BY <1>1 DEF Begin
<1>3. \A i \in DOMAIN ops :
        ops[i].sector \in Slot /\ ops[i].page # None => ops[i].page = pair
  BY DEF WriteKey, StoreLastUsed, Erase, Program, Slot
<1>4. QueueTogether'
  BY <1>2, <1>3 DEF QueueTogether
<1>5. QuietQueue'
  BY <1>2 DEF QuietQueue
<1> QED
  BY <1>1, <1>4, <1>5, BeginKeepsStore

LEMMA UseSlotKeepsStore ==
  ASSUME StoreInv, NEW s \in Slot, UseSlot(s)
  PROVE  StoreInv'
<1>1. flashOps' = <<Erase("Index"), Program("Index", [slot |-> s])>> /\ outcome' = KeyChanged
  BY DEF UseSlot, Begin, StoreLastUsed
<1>2. QueueTogether'
  BY <1>1 DEF QueueTogether, Erase, Program, Slot
<1>3. QuietQueue'
  BY <1>1 DEF QuietQueue, KeyChanged
<1> QED
  BY <1>2, <1>3, BeginKeepsStore DEF UseSlot, KeyChanged

LEMMA BootKeepsStore ==
  ASSUME TypeOK, StoreInv, Boot
  PROVE  StoreInv'
<1>1. flash' = flash /\ flashOps' = <<>> /\ bootKey' = TRUE
  BY DEF Boot
<1>2. FlashTogether' /\ QueueTogether' /\ QuietQueue' /\ Backed'
  BY <1>1 DEF StoreInv, FlashTogether, QueueTogether, QuietQueue, Backed, Valid
<1>3. BootBlock # None =>
        BootBlock \in Pair /\ GivenTogether(BootBlock.id, BootBlock.key)
  BY DEF BootBlock, StoreInv, FlashTogether, Valid, TypeOK, Slot
<1>4. PairCoherence'
  BY <1>3 DEF Boot, PairCoherence
<1>5. BootBlock # None => BootBlock.id # None
  BY <1>3, KeyAssumption DEF Pair, KeyId
<1>6. KeylessBoot'
  BY <1>1, <1>5 DEF Boot, KeylessBoot, BootBlock, Valid, Slot
<1> QED
  BY <1>2, <1>4, <1>6 DEF StoreInv

LEMMA FlashStepKeepsStore ==
  ASSUME TypeOK, StoreInv, FlashStep
  PROVE  StoreInv'
<1> DEFINE op == Head(flashOps)
<1>1. /\ flashOps \in Seq(Op) /\ flashOps # <<>>
      /\ op = flashOps[1] /\ 1 \in DOMAIN flashOps
      /\ flash' = [flash EXCEPT ![op.sector] = op.page]
      /\ flashOps' = Tail(flashOps)
      /\ UNCHANGED <<currentSlot, sessionKey, sessionKeyId, keyram, outcome, bootKey>>
  BY DEF FlashStep, TypeOK, ram
<1>2. \A i \in DOMAIN flashOps' : i + 1 \in DOMAIN flashOps /\ flashOps'[i] = flashOps[i + 1]
  BY <1>1
<1>3. QueueTogether' /\ QuietQueue'
  BY <1>1, <1>2 DEF StoreInv, QueueTogether, QuietQueue
<1>4. \A s \in Slot : flash'[s] = IF s = op.sector THEN op.page ELSE flash[s]
  BY <1>1 DEF TypeOK, Sector
<1>5. FlashTogether'
  BY <1>1, <1>4 DEF StoreInv, FlashTogether, QueueTogether, Valid
<1>6. ~outcome.changed => op.page = None /\ op.sector # currentSlot
  BY <1>1 DEF StoreInv, QuietQueue
<1>7. Backed'
  BY <1>1, <1>4, <1>6 DEF StoreInv, Backed, KeyIn, Valid, TypeOK
<1>8. KeylessBoot'
  BY <1>1, <1>4, <1>6 DEF StoreInv, KeylessBoot, Valid
<1>9. PairCoherence'
  BY <1>1 DEF StoreInv, PairCoherence
<1> QED
  BY <1>3, <1>5, <1>7, <1>8, <1>9 DEF StoreInv

LEMMA FinishKeepsStore ==
  ASSUME TypeOK, StoreInv, Finish
  PROVE  StoreInv'
<1>1. /\ UNCHANGED <<flash, currentSlot>> /\ flashOps' = <<>> /\ bootKey' = FALSE
      /\ sessionKey' = KeyIn(currentSlot) /\ keyram' = KeyIn(currentSlot)
  BY DEF Finish, AdoptCurrentSlot
<1>2. FlashTogether' /\ QueueTogether' /\ QuietQueue' /\ KeylessBoot'
  BY <1>1 DEF StoreInv, FlashTogether, QueueTogether, QuietQueue, KeylessBoot, Valid
<1>3. Backed'
  BY <1>1 DEF Backed, KeyIn, Valid
<1>4. PairCoherence'
  BY <1>1 DEF Finish, ReloadId, PairCoherence, KeyIn, StoreInv, FlashTogether, Valid, TypeOK
<1> QED
  BY <1>2, <1>3, <1>4 DEF StoreInv

LEMMA CommandKeepsStore ==
  ASSUME TypeOK, StoreInv, Command
  PROVE  StoreInv'
<1>1. ASSUME NEW s \in Slot, ClearSlot(s) PROVE StoreInv'
  <2>1. /\ flashOps' = <<Erase(s)>> /\ UNCHANGED currentSlot
        /\ outcome' = IF s = currentSlot THEN KeyChanged ELSE Unaffected
    BY <1>1 DEF ClearSlot, Begin
  <2>2. QueueTogether' /\ QuietQueue'
    BY <2>1 DEF QueueTogether, QuietQueue, Erase, KeyChanged
  <2> QED
    BY <1>1, <2>1, <2>2, BeginKeepsStore DEF ClearSlot
<1>2. CASE ClearAllSlots
  <2>1. /\ flashOps' = <<Erase("A"), Erase("B")>> /\ UNCHANGED currentSlot
        /\ outcome' = KeyChanged
    BY <1>2 DEF ClearAllSlots, Begin
  <2>2. QueueTogether' /\ QuietQueue'
    BY <2>1 DEF QueueTogether, QuietQueue, Erase, KeyChanged
  <2> QED
    BY <1>2, <2>1, <2>2, BeginKeepsStore DEF ClearAllSlots
<1>3. CASE SwitchSlot
  BY <1>3, UseSlotKeepsStore DEF SwitchSlot, Other, Slot
<1>4. ASSUME NEW pair \in Heard, NewKeyForced(pair) \/ NewKey(pair) PROVE StoreInv'
  BY <1>4, GivenPairs, StoreInCurrentSlotKeepsStore DEF NewKeyForced, NewKey, KeyChanged
<1>5. ASSUME NEW k \in Key \cup {None}, ManualKey(k) PROVE StoreInv'
  BY <1>5, GivenPairs, StoreInCurrentSlotKeepsStore DEF ManualKey, KeyChanged
<1>6. CASE RebootCommand
  BY <1>6, BootKeepsStore DEF RebootCommand
<1> QED
  BY <1>1, <1>2, <1>3, <1>4, <1>5, <1>6, UseSlotKeepsStore DEF Command

(* StoreInv is inductive, relative to the types.                           *)
THEOREM StoreInvariant == Spec => []StoreInv
<1>1. Init => StoreInv
  BY DEF Init, StoreInv, FlashTogether, QueueTogether, QuietQueue, Backed, KeylessBoot,
         PairCoherence, Valid, Slot, Sector
<1>2. TypeOK /\ StoreInv /\ [Next]_vars => StoreInv'
  <2> SUFFICES ASSUME TypeOK, StoreInv, [Next]_vars PROVE StoreInv'
    OBVIOUS
  <2>1. ASSUME NEW k \in Key, KeyFrame(k) PROVE StoreInv'
    BY <2>1, GivenPairs, StoreInCurrentSlotKeepsStore DEF KeyFrame, Installed
  <2>2. CASE CounterExhausted \/ PowerLoss
    BY <2>2, BootKeepsStore DEF CounterExhausted, PowerLoss
  <2>3. CASE Transmit \/ BoundReached \/ UNCHANGED vars
    BY <2>3 DEF Transmit, BoundReached, vars, ram, StoreInv, FlashTogether, QueueTogether,
                QuietQueue, Backed, KeylessBoot, PairCoherence, Valid, KeyIn
  <2> QED
    BY <2>1, <2>2, <2>3, CommandKeepsStore, FlashStepKeepsStore, FinishKeepsStore DEF Next
<1> QED
  BY <1>1, <1>2, TypeCorrect, PTL DEF Spec

(* The id the Pico announces and the key it encrypts with came together.   *)
THEOREM PairsCoherent == Spec => []PairCoherence
<1>1. StoreInv => PairCoherence
  BY DEF StoreInv
<1> QED
  BY <1>1, StoreInvariant, PTL

(* After any handler, RAM and keyram hold what the current slot holds.     *)
THEOREM ActiveKeysBacked == Spec => []ActiveKeyBacked
<1>1. StoreInv => ActiveKeyBacked
  BY DEF StoreInv, Backed, ActiveKeyBacked, Idle, Unaffected
<1> QED
  BY <1>1, StoreInvariant, PTL

(* A keyless boot means that neither slot is valid.                        *)
THEOREM BootsFindValidSlot == Spec => []BootFindsValidSlot
<1>1. StoreInv => BootFindsValidSlot
  BY DEF StoreInv, KeylessBoot, BootFindsValidSlot, Idle, Unaffected
<1> QED
  BY <1>1, StoreInvariant, PTL
=============================================================================
