---------------------------- MODULE PicoKeyStore ----------------------------
(***************************************************************************)
(* The sender Pico's session-key store: two flash slots and an index page, *)
(* the RAM copy the firmware encrypts with, the console commands, the KEY  *)
(* frame that provisions it over UART, power loss and boot.                *)
(*                                                                         *)
(* The firmware is one loop: a handler runs to its end before the next     *)
(* input is read. Only power loss interrupts it, and it can fall between   *)
(* any two flash operations, so a handler queues its erase and program     *)
(* operations in flashOps and its RAM effect is applied by Finish.         *)
(***************************************************************************)
EXTENDS PicoNonce, Sequences

CONSTANTS
  Key,       \* session keys of Auth; a key stands for its id, cipher and MAC key
  ManualId,  \* the fixed id AA BB .. 01 that "CMD: key <hex>" stores
  Garbled,   \* id and key parsed 5 bytes early, out of a 4-byte-preamble frame
  None       \* zeroed bytes; a flash page that validate_flash_block refuses

ASSUME KeyAssumption ==
  /\ Garbled \notin Key
  /\ ManualId \notin Key \cup {Garbled}
  /\ None \notin Key \cup {ManualId, Garbled}

VARIABLES
  flash,         \* sector -> page
  currentSlot,   \* current_slot of main
  sessionKey,    \* session_key of main
  sessionKeyId,  \* session_key_id of main
  sessionMacKey, \* session_mac_key of main
  keyram,        \* g_session_key of pico_handler.c, None when zero or not valid
  flashOps,      \* flash operations the running handler still has to do
  outcome,       \* what the running handler does to RAM when they are done
  bootKey,       \* history: no handler changed the key since boot
  sent           \* history: the nonces used, with their key

ram   == <<sessionKey, sessionKeyId, sessionMacKey, keyram>>
nonce == <<bootSalt, msgCounter>>
vars  == <<flash, currentSlot, ram, flashOps, outcome, bootKey, sent, nonce>>

Slot   == {"A", "B"}
Sector == Slot \cup {"Index"}

KeyId     == Key \cup {ManualId, Garbled}
CipherKey == Key \cup {Garbled}
Pair      == [id : KeyId, key : CipherKey \cup {None}]
IndexPage == [slot : Slot]

AuthPair(k)   == [id |-> k, key |-> k]
ManualPair(k) == [id |-> ManualId, key |-> k]
GarbledPair   == [id |-> Garbled, key |-> Garbled]

Other(s) == IF s = "A" THEN "B" ELSE "A"
Valid(s) == flash[s] # None
KeyIn(s) == IF Valid(s) THEN flash[s].key ELSE None

-----------------------------------------------------------------------------
(* Flash operations                                                        *)

Erase(sector)         == [sector |-> sector, page |-> None]
Program(sector, page) == [sector |-> sector, page |-> page]

(* write_key_to_slot: the sector is erased, then one page is programmed.   *)
WriteKey(s, pair) == <<Erase(s), Program(s, pair)>>

(* store_last_used_slot, on the index sector.                              *)
StoreLastUsed(s) == <<Erase("Index"), Program("Index", [slot |-> s])>>

(* Outcomes: nothing, or the key changed and, for a KEY frame, its MAC key *)
Unaffected   == [changed |-> FALSE, mac |-> None]
KeyChanged   == [changed |-> TRUE, mac |-> None]
Installed(k) == [changed |-> TRUE, mac |-> k]

Idle == flashOps = <<>> /\ outcome = Unaffected

(* A handler starts: it owns the loop until Finish.                        *)
Begin(ops, effect) ==
  /\ Idle
  /\ flashOps' = ops
  /\ outcome' = effect
  /\ UNCHANGED <<flash, ram, bootKey, sent, nonce>>

FlashStep ==
  /\ flashOps # <<>>
  /\ flash' = [flash EXCEPT ![Head(flashOps).sector] = Head(flashOps).page]
  /\ flashOps' = Tail(flashOps)
  /\ UNCHANGED <<currentSlot, ram, outcome, bootKey, sent, nonce>>

(* A bug main avoids: the id is not read again after the key changed.      *)
KeepOldId == UNCHANGED sessionKeyId

(* main, after handle_commands returned true: the pair is read again from  *)
(* the current slot; an invalid slot leaves the old id where it was.       *)
ReloadId ==
  sessionKeyId' = IF Valid(currentSlot) THEN flash[currentSlot].id ELSE sessionKeyId

(* A bug the handlers avoid: an empty slot leaves the old key in RAM.      *)
AdoptOnlyValidSlot ==
  /\ sessionKey' = IF Valid(currentSlot) THEN flash[currentSlot].key ELSE sessionKey
  /\ keyram' = sessionKey'

(* The handlers' end: RAM key and keyram follow the current slot, zeroed   *)
(* when it holds no key.                                                   *)
AdoptCurrentSlot ==
  /\ sessionKey' = KeyIn(currentSlot)
  /\ keyram' = KeyIn(currentSlot)

(* The handler's last operation is done: RAM, the nonce and the MAC key.   *)
Finish ==
  /\ flashOps = <<>>
  /\ outcome.changed
  /\ AdoptCurrentSlot
  /\ ReloadId
  /\ sessionMacKey' = IF outcome.mac = None THEN sessionMacKey ELSE outcome.mac
  /\ NonceInit
  /\ outcome' = Unaffected
  /\ bootKey' = FALSE
  /\ UNCHANGED <<flash, currentSlot, flashOps, sent>>

-----------------------------------------------------------------------------
(* Console commands (handle_commands)                                      *)

(* clear slot A / B: a key change only if it is the current slot.          *)
ClearSlot(s) ==
  /\ Begin(<<Erase(s)>>, IF s = currentSlot THEN KeyChanged ELSE Unaffected)
  /\ UNCHANGED currentSlot

ClearAllSlots ==
  /\ Begin(<<Erase("A"), Erase("B")>>, KeyChanged)
  /\ UNCHANGED currentSlot

(* use slot A / B does nothing when already there; switch slot toggles.    *)
UseSlot(s) ==
  /\ s # currentSlot
  /\ currentSlot' = s
  /\ Begin(StoreLastUsed(s), KeyChanged)

SwitchSlot == UseSlot(Other(currentSlot))

StoreInCurrentSlot(pair, effect) ==
  /\ Begin(WriteKey(currentSlot, pair) \o StoreLastUsed(currentSlot), effect)
  /\ UNCHANGED currentSlot

(* What receive_new_key_with_timeout can return: a bare AB CD id key feed, *)
(* or the bytes after AB CD of a frame that starts AB CD EF 12 type len.   *)
Heard == {AuthPair(k) : k \in Key} \cup {GarbledPair}

NewKeyForced(pair) == StoreInCurrentSlot(pair, KeyChanged)

NewKey(pair) ==
  /\ ~Valid(currentSlot)
  /\ StoreInCurrentSlot(pair, KeyChanged)

(* Any digits will do: a key of zeros makes a valid page, too.             *)
ManualKey(k) == StoreInCurrentSlot(ManualPair(k), KeyChanged)

(* The KEY frame handler of the UART loop; a frame that times out or is    *)
(* cut short only flushes the receive buffer.                              *)
KeyFrame(k) == StoreInCurrentSlot(AuthPair(k), Installed(k))

-----------------------------------------------------------------------------
(* Sending, power loss and boot                                            *)

(* An encrypted message: refused while the session key is zeroed.          *)
Transmit ==
  /\ Idle
  /\ sessionKey # None
  /\ NonceAdvance
  /\ sent' = sent \cup {Nonce(sessionKey)}
  /\ UNCHANGED <<flash, currentSlot, ram, flashOps, outcome, bootKey>>

(* Bugs the boot code avoids: a fallback that stops at the first slot.     *)
BootBlockSlotBOnly == flash["B"]

(* load_session_key: slot B if it is valid, else slot A.                   *)
BootBlock == IF Valid("B") THEN flash["B"] ELSE flash["A"]

(* From reset to the loop: RAM is lost, the MAC key is stored nowhere.     *)
Boot ==
  /\ currentSlot' = "A"
  /\ sessionKey' = IF BootBlock = None THEN None ELSE BootBlock.key
  /\ sessionKeyId' = IF BootBlock = None THEN None ELSE BootBlock.id
  /\ sessionMacKey' = None
  /\ keyram' = None
  /\ flashOps' = <<>>
  /\ outcome' = Unaffected
  /\ bootKey' = TRUE
  /\ NonceInit
  /\ UNCHANGED <<flash, sent>>

(* Power loss, or the watchdog, between any two flash operations.          *)
PowerLoss == Boot

RebootCommand == Idle /\ Boot

(* pico_nonce_generate at the end of the counter: reboot, nothing is sent. *)
CounterExhausted ==
  /\ Idle
  /\ sessionKey # None
  /\ CounterWraps
  /\ Boot

(* The bound on salts is reached: the behaviour ends there.                *)
BoundReached == bootSalt = MaxSalts /\ UNCHANGED vars

Init ==
  /\ flash = [s \in Sector |-> None]
  /\ currentSlot = "A"
  /\ sessionKey = None
  /\ sessionKeyId = None
  /\ sessionMacKey = None
  /\ keyram = None
  /\ flashOps = <<>>
  /\ outcome = Unaffected
  /\ bootKey = TRUE
  /\ sent = {}
  /\ bootSalt = 0
  /\ msgCounter = 0

Command ==
  \/ \E s \in Slot : ClearSlot(s) \/ UseSlot(s)
  \/ ClearAllSlots
  \/ SwitchSlot
  \/ \E pair \in Heard : NewKeyForced(pair) \/ NewKey(pair)
  \/ \E k \in Key \cup {None} : ManualKey(k)
  \/ RebootCommand

Next ==
  \/ Command
  \/ \E k \in Key : KeyFrame(k)
  \/ FlashStep
  \/ Finish
  \/ Transmit
  \/ CounterExhausted
  \/ PowerLoss
  \/ BoundReached

Spec == Init /\ [][Next]_vars
-----------------------------------------------------------------------------
(* Properties                                                              *)

SlotOp  == [sector : Slot, page : Pair \cup {None}]
IndexOp == [sector : {"Index"}, page : IndexPage \cup {None}]
Op      == SlotOp \cup IndexOp
Outcome == [changed : BOOLEAN, mac : Key \cup {None}]

TypeOK ==
  /\ flash \in [Sector -> Pair \cup IndexPage \cup {None}]
  /\ \A s \in Slot : flash[s] \in Pair \cup {None}
  /\ flash["Index"] \in IndexPage \cup {None}
  /\ currentSlot \in Slot
  /\ sessionKey \in CipherKey \cup {None}
  /\ sessionKeyId \in KeyId \cup {None}
  /\ sessionMacKey \in Key \cup {None}
  /\ keyram \in CipherKey \cup {None}
  /\ flashOps \in Seq(Op)
  /\ outcome \in Outcome
  /\ bootKey \in BOOLEAN
  /\ sent \subseteq [key : CipherKey, salt : Nat, ctr : Nat]
  /\ bootSalt \in Nat
  /\ msgCounter \in 0 .. CounterLimit - 1

(* A pair the device was given in one piece.                               *)
GivenTogether(id, key) == id \in {key, ManualId}

(* The key the Pico encrypts with and the id it announces and matches in   *)
(* HS1 came together: no sequence of clears, switches, provisioning and    *)
(* power losses mixes the id of one key with another key, though a clear   *)
(* leaves the id of the erased key behind (main, lines 586-593).           *)
PairCoherence ==
  sessionKey # None => GivenTogether(sessionKeyId, sessionKey)

(* Once a handler has changed the key since boot, the key in RAM, and its  *)
(* copy in keyram, are the current slot's: what the device sends with is   *)
(* what it would find in flash, or nothing if the slot was cleared.        *)
ActiveKeyBacked ==
  Idle /\ ~bootKey => sessionKey = KeyIn(currentSlot) /\ keyram = sessionKey

(* A device that boots without a pair has none in either slot, whatever    *)
(* flash operation the power loss interrupted (load_session_key falls back *)
(* to the other slot).  A pair with a zeroed key counts as one.            *)
BootFindsValidSlot ==
  Idle /\ bootKey /\ sessionKeyId = None => \A s \in Slot : ~Valid(s)

(* No message is sent under a (key, salt, counter) that was used before,   *)
(* across counter wrap, key changes back and forth, and reboots            *)
(* (pico_nonce_generate, pico_nonce_on_key_change).                        *)
NoNonceReuse == [][Transmit => Nonce(sessionKey) \notin sent]_vars
=============================================================================
