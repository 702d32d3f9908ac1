------------------------------ MODULE LiFiLink ------------------------------
(***************************************************************************)
(* One receiver (dash_receiver.c's main loop) and one sender Pico          *)
(* (lifi_session_sender.c's main loop) over a UART and a light channel:    *)
(* key provisioning, the key-update dialogue and the SST handshake, with   *)
(* operators, reboots, timeouts and lost frames in any order.              *)
(*                                                                         *)
(* Both programs are one loop, so a handler is one action. A frame is one  *)
(* message: a frame cut short, hit by a CRC error or swallowed by a flush  *)
(* of the receive buffer is a lost frame. A session key of Auth stands for *)
(* its id, its cipher key and its MAC key.                                 *)
(***************************************************************************)
EXTENDS Naturals, Sequences

CONSTANTS
  Key,        \* session keys Auth has issued
  None,       \* zeroed bytes, or the id of a key typed in at the console
  Junk,       \* the challenge a decryption under the wrong key may yield
  Pushed,     \* [id, key, mac] that a /force_key request may bring
  MaxNonce,   \* bound: challenges drawn, and Pico nonces drawn
  MaxFrames,  \* bound: frames on each wire
  MaxEvents   \* bound: operator, network and reboot events

ASSUME LinkAssumption ==
  /\ None \notin Key
  /\ Junk \notin Nat
  /\ Pushed \subseteq [id : Key, key : Key, mac : Key]
  /\ MaxNonce \in Nat /\ MaxFrames \in Nat /\ MaxEvents \in Nat

VARIABLES
  sKey,         \* s_key of the receiver: [id, key, mac]
  keyList,      \* key_list
  keyIdx,       \* current_key_idx, from 1
  state,        \* receiver_state_t
  entityNonce,  \* sst_entity_nonce, 0 when zeroed
  pendingKey,   \* pending_key
  pico,         \* session_key_id, session_key, session_mac_key: [id, key, mac]
  savedNonce,   \* saved_pico_nonce, 0 when zeroed
  led,          \* gpio 25
  uart,         \* frames from the receiver to the Pico
  light,        \* frames from the Pico to the receiver
  challenges,   \* challenges drawn
  replies,      \* Pico nonces drawn
  events,       \* events so far
  answered, rDone, pDone  \* history: see MutualAuth

receiverKeys == <<sKey, keyList, keyIdx, pendingKey>>
handshake    == <<state, entityNonce>>
picoVars     == <<pico, savedNonce, led>>
wires        == <<uart, light>>
history      == <<answered, rDone, pDone>>
vars == <<receiverKeys, handshake, picoVars, wires, challenges, replies, events, history>>

Bundle(k) == [id |-> k, key |-> k, mac |-> k]
NoBundle  == [id |-> None, key |-> None, mac |-> None]
keyValid  == sKey # NoBundle

(* What one request to Auth can return.                                    *)
Fetched == {<<k>> : k \in Key} \cup {l \in Key \X Key : l[1] # l[2]}

Event == events < MaxEvents /\ events' = events + 1

Put(wire, frame) == Len(wire) < MaxFrames /\ wire' = Append(wire, frame)
Take(wire, type) == wire # <<>> /\ Head(wire).type = type /\ wire' = Tail(wire)

(* write_all either puts the frame on the wire or fails.                   *)
TryPut(wire, frame) == Put(wire, frame) \/ UNCHANGED wire

-----------------------------------------------------------------------------
(* Receiver: keys                                                          *)

KeyFrame(bundle) == [type |-> "KEY", bundle |-> bundle]

(* '1': the session key goes to the Pico.                                  *)
SendKey ==
  /\ Event
  /\ keyValid
  /\ Put(uart, KeyFrame(sKey))
  /\ UNCHANGED <<receiverKeys, handshake, picoVars, light, challenges, replies, history>>

(* 'n': the next key of the local list.                                    *)
Rotate ==
  /\ Event
  /\ Len(keyList) > 1
  /\ keyIdx' = (keyIdx % Len(keyList)) + 1
  /\ sKey' = Bundle(keyList[keyIdx'])
  /\ UNCHANGED <<keyList, pendingKey, handshake, picoVars, wires, challenges, replies, history>>

(* 'f': adopt the head of a fresh list from Auth, then tell the Pico; the  *)
(* key is kept even when the serial port is closed or the write fails.     *)
ForceFetch ==
  /\ Event
  /\ keyList' \in Fetched
  /\ sKey' = Bundle(keyList'[1])
  /\ TryPut(uart, KeyFrame(sKey'))
  /\ UNCHANGED <<keyIdx, pendingKey, handshake, picoVars, light, challenges, replies, history>>

(* get_session_key_by_ID puts the key it got from Auth on the list.        *)
ListWith(k) ==
  IF \E i \in DOMAIN keyList : keyList[i] = k THEN keyList ELSE Append(keyList, k)

(* A remote force request: the dashboard pushes an id, a cipher key and a  *)
(* MAC key, which overlapping handlers may have mixed, or names a key that *)
(* the list or Auth has.                                                   *)
AdoptPushed ==
  /\ Event
  /\ \/ /\ sKey' \in Pushed
        /\ UNCHANGED keyList
     \/ \E k \in Key : sKey' = Bundle(k) /\ keyList' = ListWith(k)
  /\ TryPut(uart, KeyFrame(sKey'))
  /\ UNCHANGED <<keyIdx, pendingKey, handshake, picoVars, light, challenges, replies, history>>

-----------------------------------------------------------------------------
(* Receiver: handshake                                                     *)

HS1(bundle, n) ==
  [type |-> "HS1", id |-> bundle.id, key |-> bundle.key, mac |-> bundle.mac, en |-> n]

(* parse_handshake_1 may fail; if not it draws the challenge, and only a   *)
(* full write starts to wait.                                              *)
StartHandshake(bundle) ==
  \/ UNCHANGED <<challenges, handshake, uart>>
  \/ /\ challenges < MaxNonce
     /\ challenges' = challenges + 1
     /\ \/ /\ Put(uart, HS1(bundle, challenges'))
           /\ entityNonce' = challenges'
           /\ state' = "HS2"
        \/ /\ entityNonce' = 0
           /\ UNCHANGED <<uart, state>>

(* '2', in any state: a wait under way is abandoned.                       *)
PressHandshake ==
  /\ Event
  /\ keyValid
  /\ StartHandshake(sKey)
  /\ UNCHANGED <<receiverKeys, picoVars, light, replies, history>>

(* A KEY_ID frame: adopt that key if the list or Auth has it, and start a  *)
(* handshake unless something is awaited.                                  *)
RecvKeyId ==
  /\ Take(light, "ID")
  /\ \/ UNCHANGED <<receiverKeys, handshake, uart, challenges>>
     \/ LET id == Head(light).id
        IN  /\ id \in Key
            /\ sKey' = Bundle(id)
            /\ keyList' = ListWith(id)
            /\ IF state = "IDLE" THEN StartHandshake(sKey')
                                 ELSE UNCHANGED <<handshake, uart, challenges>>
            /\ UNCHANGED <<keyIdx, pendingKey>>
  /\ UNCHANGED <<picoVars, replies, events, history>>

(* What the C library checks: the tag, the key and the challenge.          *)
ChecksHS2(frame) ==
  frame.mac = sKey.mac /\ frame.key = sKey.key /\ frame.en = entityNonce

HS3(bundle, frame) ==
  [type |-> "HS3", key |-> bundle.key, mac |-> bundle.mac, en |-> frame.en, pn |-> frame.pn]

(* An HS2 that answers: HS3 leaves if the write succeeds, and either way   *)
(* the receiver holds the Pico for verified.                               *)
RecvHS2 ==
  LET frame == Head(light)
  IN  /\ Take(light, "HS2")
      /\ state = "HS2"
      /\ IF ChecksHS2(frame)
           THEN /\ TryPut(uart, HS3(sKey, frame))
                /\ rDone' = rDone \cup {<<frame.en, frame.pn>>}
           ELSE UNCHANGED <<uart, rDone>>
      /\ entityNonce' = 0
      /\ state' = "IDLE"
      /\ UNCHANGED <<receiverKeys, picoVars, challenges, replies, events, answered, pDone>>

(* An HS2 nobody waits for.                                                *)
IgnoreHS2 ==
  /\ Take(light, "HS2")
  /\ state # "HS2"
  /\ UNCHANGED <<receiverKeys, handshake, picoVars, uart, challenges, replies, events, history>>

(* A bug the loop avoids: no deadline for the confirmation.                *)
WaitsForPico == state \in {"ACK", "HS2"}

Waiting == state # "IDLE"

(* The state's deadline passed.                                            *)
Timeout ==
  /\ Waiting
  /\ pendingKey' = IF state = "ACK" THEN None ELSE pendingKey
  /\ entityNonce' = IF state = "HS2" THEN 0 ELSE entityNonce
  /\ state' = "IDLE"
  /\ UNCHANGED <<sKey, keyList, keyIdx, picoVars, wires, challenges, replies, events, history>>

(* The receiver starts again: a key of a new list, pushed to the Pico; or  *)
(* without a list and a key when Auth does not answer.                     *)
Restart ==
  /\ Event
  /\ \/ /\ keyList' \in Fetched
        /\ sKey' = Bundle(keyList'[1])
        /\ TryPut(uart, KeyFrame(sKey'))
     \/ /\ keyList' = <<>>
        /\ sKey' = NoBundle
        /\ UNCHANGED uart
  /\ keyIdx' = 1
  /\ pendingKey' = None
  /\ state' = "IDLE"
  /\ entityNonce' = 0
  /\ UNCHANGED <<picoVars, light, challenges, replies, history>>

-----------------------------------------------------------------------------
(* Receiver: encrypted commands of the Pico. A frame that does not decrypt *)
(* under s_key is counted and dropped.                                     *)

Command == {"new key -f", "new key", "ACK", "verify key"}

Readable(frame) == keyValid /\ frame.key = sKey.key

RecvUnreadable ==
  /\ Take(light, "ENC")
  /\ ~Readable(Head(light))
  /\ UNCHANGED <<receiverKeys, handshake, picoVars, uart, challenges, replies, events, history>>

RecvCommand(cmd) ==
  /\ Take(light, "ENC")
  /\ Readable(Head(light))
  /\ Head(light).cmd = cmd
  /\ UNCHANGED <<picoVars, replies, events, history>>

(* A bug the handler avoids: the frame is built before the key is fetched. *)
StaleBundle == Bundle(pendingKey)

PendingBundle == Bundle(pendingKey')

(* "new key -f": the old list is freed first; the head of the new one goes *)
(* to the Pico and is pending until the ACK. Any wait under way is lost.   *)
RecvForce ==
  /\ RecvCommand("new key -f")
  /\ \/ /\ keyList' = <<>>
        /\ UNCHANGED <<pendingKey, state, uart>>
     \/ /\ keyList' \in Fetched
        /\ pendingKey' = keyList'[1]
        /\ TryPut(uart, KeyFrame(PendingBundle))
        /\ state' = "ACK"
  /\ UNCHANGED <<sKey, keyIdx, entityNonce, challenges>>

(* "new key": ignored within the cooldown, else waits for a "yes" that no  *)
(* handler reads.                                                          *)
RecvNewKey ==
  /\ RecvCommand("new key")
  /\ state' \in {state, "YES"}
  /\ UNCHANGED <<receiverKeys, entityNonce, uart, challenges>>

(* A bug the handler avoids: still waiting, with the pending key wiped.    *)
KeepWaiting == pendingKey' = None /\ UNCHANGED state

AckHandled == pendingKey' = None /\ state' = "IDLE"

(* "ACK": the pending key becomes the cipher key, its id is read off the   *)
(* list, the MAC key stays.                                                *)
RecvAck ==
  /\ RecvCommand("ACK")
  /\ IF state = "ACK"
       THEN /\ sKey' = [sKey EXCEPT !.key = pendingKey,
                                    !.id = IF keyList # <<>> THEN keyList[1] ELSE sKey.id]
            /\ AckHandled
       ELSE UNCHANGED <<sKey, pendingKey, state>>
  /\ UNCHANGED <<keyList, keyIdx, entityNonce, uart, challenges>>

(* "verify key": a handshake, unless something is awaited.                 *)
RecvVerify ==
  /\ RecvCommand("verify key")
  /\ IF state = "IDLE" THEN StartHandshake(sKey)
                       ELSE UNCHANGED <<handshake, uart, challenges>>
  /\ UNCHANGED receiverKeys

-----------------------------------------------------------------------------
(* Sender Pico                                                             *)

receiverVars == <<receiverKeys, handshake, challenges>>

(* A KEY frame: id, key and MAC key all change, the LED and a nonce waited *)
(* for do not.                                                             *)
RecvKey ==
  /\ Take(uart, "KEY")
  /\ pico' = Head(uart).bundle
  /\ UNCHANGED <<receiverVars, savedNonce, led, light, replies, events, history>>

HS2(en, pn) == [type |-> "HS2", key |-> pico.key, mac |-> pico.mac, en |-> en, pn |-> pn]

ChecksHS1(frame) == frame.id = pico.id /\ frame.mac = pico.mac

(* What decryption yields: the challenge under the right key; under any    *)
(* other, bytes whose padding passes by chance; None where the padding is  *)
(* refused or the library fails.                                           *)
Decrypted(frame) == {None, IF frame.key = pico.key THEN frame.en ELSE Junk}

(* HS1: a new nonce replaces the one an earlier HS2 carried.               *)
RecvHS1 ==
  LET frame == Head(uart)
  IN  /\ Take(uart, "HS1")
      /\ IF ChecksHS1(frame)
           THEN \E en \in Decrypted(frame) :
                  IF en = None
                    THEN UNCHANGED <<light, replies, savedNonce, answered>>
                    ELSE /\ replies < MaxNonce
                         /\ replies' = replies + 1
                         /\ Put(light, HS2(en, replies'))
                         /\ savedNonce' = replies'
                         /\ answered' = answered \cup {<<en, replies'>>}
           ELSE UNCHANGED <<light, replies, savedNonce, answered>>
      /\ UNCHANGED <<receiverVars, pico, led, events, rDone, pDone>>

(* A bug the handler avoids: any echo of a nonce will do.                  *)
TagChecksHS3(frame) == frame.mac = pico.mac /\ frame.key = pico.key

ChecksHS3(frame) ==
  frame.mac = pico.mac /\ frame.key = pico.key /\ frame.pn = savedNonce

(* HS3, accepted or not, ends the wait for the echo.                       *)
RecvHS3 ==
  LET frame == Head(uart)
  IN  /\ Take(uart, "HS3")
      /\ led' = (led \/ ChecksHS3(frame))
      /\ pDone' = IF ChecksHS3(frame) THEN pDone \cup {<<frame.en, frame.pn>>} ELSE pDone
      /\ savedNonce' = 0
      /\ UNCHANGED <<receiverVars, pico, light, replies, events, answered, rDone>>

(* The operator types a message that the receiver takes for a command.     *)
SayCommand ==
  /\ Event
  /\ pico.key # None
  /\ \E cmd \in Command : Put(light, [type |-> "ENC", key |-> pico.key, cmd |-> cmd])
  /\ UNCHANGED <<receiverVars, picoVars, uart, replies, history>>

(* CMD: send_id                                                            *)
SendId ==
  /\ Event
  /\ Put(light, [type |-> "ID", id |-> pico.id])
  /\ UNCHANGED <<receiverVars, picoVars, uart, replies, history>>

(* The console changes the key: see PicoKeyStore. The MAC key stays.       *)
Console ==
  /\ Event
  /\ \/ \E k \in Key \cup {None}, id \in Key \cup {None} :
          /\ id \in {k, None}
          /\ pico' = [pico EXCEPT !.id = id, !.key = k]
     \/ pico' = [pico EXCEPT !.key = None]
  /\ UNCHANGED <<receiverVars, savedNonce, led, wires, replies, history>>

(* Power loss and boot: a pair from flash, no MAC key, LED off.            *)
Reboot ==
  /\ Event
  /\ \E k \in Key \cup {None}, id \in Key \cup {None} :
       /\ id \in {k, None}
       /\ pico' = [id |-> id, key |-> k, mac |-> None]
  /\ savedNonce' = 0
  /\ led' = FALSE
  /\ UNCHANGED <<receiverVars, wires, replies, history>>

-----------------------------------------------------------------------------
(* A frame cut short, broken, or flushed with what precedes it.            *)
Lose ==
  /\ \/ uart # <<>> /\ uart' = Tail(uart) /\ UNCHANGED light
     \/ light # <<>> /\ light' = Tail(light) /\ UNCHANGED uart
  /\ UNCHANGED <<receiverVars, picoVars, replies, events, history>>

(* The receiver starts with a fetched key, pushed at once, or with none;   *)
(* the Pico starts blank or with a pair from flash.                        *)
Init ==
  /\ \/ sKey = NoBundle /\ keyList = <<>> /\ uart = <<>>
     \/ \E k \in Key : /\ sKey = Bundle(k) /\ keyList = <<k>>
                       /\ uart \in {<<>>, <<KeyFrame(sKey)>>}
  /\ \E k \in Key \cup {None} : pico = [id |-> k, key |-> k, mac |-> None]
  /\ keyIdx = 1 /\ pendingKey = None
  /\ state = "IDLE" /\ entityNonce = 0
  /\ savedNonce = 0 /\ led = FALSE /\ light = <<>>
  /\ challenges = 0 /\ replies = 0 /\ events = 0
  /\ answered = {} /\ rDone = {} /\ pDone = {}

Operator ==
  \/ SendKey \/ Rotate \/ ForceFetch \/ AdoptPushed \/ PressHandshake \/ Restart
  \/ SayCommand \/ SendId \/ Console \/ Reboot

ReceiverLoop ==
  \/ RecvKeyId \/ RecvHS2 \/ IgnoreHS2 \/ RecvUnreadable
  \/ RecvForce \/ RecvNewKey \/ RecvAck \/ RecvVerify

PicoLoop == RecvKey \/ RecvHS1 \/ RecvHS3

Next == Operator \/ ReceiverLoop \/ Timeout \/ PicoLoop \/ Lose

(* Both loops poll for ever, so a frame at hand is handled and a deadline  *)
(* is noticed; nothing is assumed of operators, of power or of the wires.  *)
Spec ==
  /\ Init /\ [][Next]_vars
  /\ WF_vars(ReceiverLoop) /\ WF_vars(PicoLoop) /\ WF_vars(Timeout)
-----------------------------------------------------------------------------
(* Properties                                                              *)

Frame ==
  [type : {"KEY"}, bundle : [id : Key, key : Key, mac : Key]]
    \cup [type : {"HS1"}, id : Key, key : Key, mac : Key, en : 1 .. MaxNonce]
    \cup [type : {"HS2"}, key : Key \cup {None}, mac : Key,
          en : 1 .. MaxNonce \cup {Junk}, pn : 1 .. MaxNonce]
    \cup [type : {"HS3"}, key : Key, mac : Key, en : 1 .. MaxNonce, pn : 1 .. MaxNonce]
    \cup [type : {"ENC"}, key : Key, cmd : Command]
    \cup [type : {"ID"}, id : Key \cup {None}]

TypeOK ==
  /\ sKey \in [id : Key, key : Key \cup {None}, mac : Key] \cup {NoBundle}
  /\ keyList \in Seq(Key)
  /\ keyIdx \in Nat \ {0}
  /\ state \in {"IDLE", "YES", "ACK", "HS2"}
  /\ entityNonce \in 0 .. challenges
  /\ pendingKey \in Key \cup {None}
  /\ pico \in [id : Key \cup {None}, key : Key \cup {None}, mac : Key \cup {None}]
  /\ savedNonce \in 0 .. replies
  /\ led \in BOOLEAN
  /\ uart \in Seq(Frame)
  /\ light \in Seq(Frame)
  /\ {challenges, replies} \subseteq 0 .. MaxNonce

(* A valid receiver never installs a zeroed session key: whatever commands,*)
(* key presses and deadlines fall between a forced update and its ACK, the *)
(* key the ACK finalizes has not been wiped (dash_receiver.c, 2257-2328).  *)
NeverZeroKey == keyValid => sKey.key # None

(* The handshake as run over lossy wires, by two programs that change keys *)
(* in the middle of it, abandon waits and reboot, is the abstract one: the *)
(* receiver accepts an answer to its newest challenge, the Pico accepts    *)
(* the echo of its newest nonce after the receiver accepted it, and no     *)
(* pair is accepted twice.                                                 *)
MA == INSTANCE MutualAuth WITH
        asked <- challenges,
        open <- IF state = "HS2" THEN entityNonce ELSE 0,
        held <- savedNonce

ImplementsMutualAuth == MA!Spec

(* Without new input the link falls quiet: every frame is handled, every   *)
(* wait ends, and no exchange of frames feeds itself, whatever was under   *)
(* way when the input stopped.                                             *)
Quiet == state = "IDLE" /\ uart = <<>> /\ light = <<>>

FallsQuiet == <>[]Quiet
=============================================================================
