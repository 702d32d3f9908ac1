------------------------- MODULE DashReceiverProofs -------------------------
(***************************************************************************)
(* dash_receiver's replay window, status queue and threads, for every size *)
(* of the rings, every set of keys, nonces and rates, and every number of  *)
(* inputs.                                                                 *)
(*                                                                         *)
(* The replay window holds the last nonces in order, so a replay within    *)
(* Cap frames is blocked and a fresh nonce never is.  The status queue is  *)
(* its backlog, no wake-up is lost and messages are posted in the order of *)
(* their offer.  The id that the control server names is that of the       *)
(* reporter's MAC key, and a /force_key request is acted on as a whole.    *)
(*                                                                         *)
(* The three are about one program and share no state.                     *)
(***************************************************************************)
EXTENDS DashThreads, ReplayWindow, StatusQueue, TLAPS

(* Both step through their slots with a remainder, which wraps at the last.*)
LEMMA NextSlot ==
  ASSUME NEW n \in Nat \ {0}, NEW s \in 0 .. n - 1
  PROVE  (s + 1) % n = IF s = n - 1 THEN 0 ELSE s + 1
  OBVIOUS

-----------------------------------------------------------------------------
(* The replay window                                                       *)


LEMMA WindowTypeStep ==
  ASSUME WindowTypeOK, NEW n \in Nonce, Receive(n)
  PROVE  /\ WindowTypeOK'
         /\ buf' = [buf EXCEPT ![idx] = n]
         /\ idx' = IF idx = Cap - 1 THEN 0 ELSE idx + 1
         /\ Len(added') = Len(added) + 1
         /\ added' = Append(added, n)
<1>1. idx \in WindowSlots /\ Cap \in Nat \ {0}
  BY WindowAssumption DEF WindowTypeOK
<1>2. idx' = IF idx = Cap - 1 THEN 0 ELSE idx + 1
  BY <1>1, NextSlot DEF Receive, Add, NextIdx, WindowSlots
<1>3. idx' \in WindowSlots
  BY <1>1, <1>2 DEF WindowSlots
<1> QED
  BY <1>2, <1>3 DEF WindowTypeOK, Receive, Add

(* A position the ring still shows: among those that entered, or none.     *)
LEMMA WrittenByBound ==
  ASSUME WindowTypeOK, NEW s \in WindowSlots
  PROVE  WrittenBy(s) \in Int /\ WrittenBy(s) <= Len(added)
  BY WindowAssumption DEF WindowTypeOK, WrittenBy, WindowSlots

(* Adding a nonce moves no other slot to another position.                 *)
LEMMA WrittenByStep ==
  ASSUME WindowTypeOK, NEW n \in Nonce, Receive(n), NEW s \in WindowSlots
  PROVE  WrittenBy(s)' = IF s = idx THEN Len(added) + 1 ELSE WrittenBy(s)
<1>1. /\ Len(added) \in Nat /\ Cap \in Nat \ {0}
      /\ idx \in 0 .. Cap - 1 /\ s \in 0 .. Cap - 1
  BY WindowAssumption DEF WindowTypeOK, WindowSlots
<1>2. /\ idx' = IF idx = Cap - 1 THEN 0 ELSE idx + 1
      /\ Len(added') = Len(added) + 1
  BY WindowTypeStep
<1> QED
  BY <1>1, <1>2 DEF WrittenBy

(* Indices stay in the ring, which never holds anything but nonces.        *)
THEOREM WindowTypeCorrect == WindowSpec => []WindowTypeOK
<1>1. WindowInit => WindowTypeOK
  BY WindowAssumption DEF WindowInit, WindowTypeOK, ZeroedRing, WindowSlots
<1>2. WindowTypeOK /\ [WindowNext]_windowVars => WindowTypeOK'
  <2> SUFFICES ASSUME WindowTypeOK, [WindowNext]_windowVars PROVE WindowTypeOK'
    OBVIOUS
  <2>1. ASSUME NEW n \in Nonce, Receive(n) PROVE WindowTypeOK'
    BY <2>1, WindowTypeStep
  <2>2. CASE UNCHANGED windowVars
    BY <2>2 DEF WindowTypeOK, windowVars
  <2> QED
    BY <2>1, <2>2 DEF WindowNext, Block
<1> QED
  BY <1>1, <1>2, PTL DEF WindowSpec

(* The ring is the end of what entered it: every overwritten nonce was the *)
(* oldest one.                                                             *)
THEOREM RingHoldsRecent == WindowSpec => []RingIsRecent
<1>1. WindowInit => RingIsRecent
  BY WindowAssumption DEF WindowInit, RingIsRecent, WrittenBy, ZeroedRing, WindowSlots
<1>2. WindowTypeOK /\ RingIsRecent /\ [WindowNext]_windowVars => RingIsRecent'
  <2> SUFFICES ASSUME WindowTypeOK, RingIsRecent, [WindowNext]_windowVars PROVE RingIsRecent'
    OBVIOUS
  <2>1. ASSUME NEW n \in Nonce, Receive(n) PROVE RingIsRecent'
    <3> SUFFICES ASSUME NEW s \in WindowSlots
                 PROVE  buf'[s] = IF WrittenBy(s)' > 0 THEN added'[WrittenBy(s)'] ELSE Zero
      BY DEF RingIsRecent, WindowSlots
    <3>1. Len(added) \in Nat /\ added' = Append(added, n) /\ added \in Seq(Nonce)
      BY <2>1, WindowTypeStep DEF WindowTypeOK
    <3>2. buf'[s] = IF s = idx THEN n ELSE buf[s]
      BY <2>1, WindowTypeStep DEF WindowTypeOK
    <3>3. WrittenBy(s)' = IF s = idx THEN Len(added) + 1 ELSE WrittenBy(s)
      BY <2>1, WrittenByStep
    <3>4. CASE s = idx
      BY <3>1, <3>2, <3>3, <3>4
    <3>5. CASE s # idx
      <4>1. WrittenBy(s)' = WrittenBy(s) /\ buf'[s] = buf[s]
        BY <3>2, <3>3, <3>5
      <4>2. buf[s] = IF WrittenBy(s) > 0 THEN added[WrittenBy(s)] ELSE Zero
        BY DEF RingIsRecent
      <4>3. WrittenBy(s) > 0 => added'[WrittenBy(s)] = added[WrittenBy(s)]
        BY <3>1, WrittenByBound
      <4> QED
        BY <4>1, <4>2, <4>3
    <3> QED
      BY <3>4, <3>5
  <2>2. CASE UNCHANGED windowVars
    BY <2>2 DEF RingIsRecent, WrittenBy, windowVars
  <2> QED
    BY <2>1, <2>2 DEF WindowNext, Block
<1> QED
  BY <1>1, <1>2, WindowTypeCorrect, PTL DEF WindowSpec

-----------------------------------------------------------------------------
(* Every one of the last Cap nonces is in some slot.                       *)
LEMMA RecentIsSeen ==
  ASSUME WindowTypeOK, RingIsRecent, NEW i \in DOMAIN added, Len(added) + 1 - i <= Cap
  PROVE  Seen(added[i])
<1>1. /\ Len(added) \in Nat /\ Cap \in Nat \ {0}
      /\ idx \in 0 .. Cap - 1 /\ i \in 1 .. Len(added)
  BY WindowAssumption DEF WindowTypeOK, WindowSlots
<1> DEFINE back == Len(added) + 1 - i
           slot == IF back <= idx THEN idx - back ELSE idx - back + Cap
<1>2. slot \in 0 .. Cap - 1
  BY <1>1
<1>3. WrittenBy(slot) = i
  BY <1>1 DEF WrittenBy
<1>4. buf[slot] = added[i]
  BY <1>1, <1>2, <1>3 DEF RingIsRecent, WindowSlots
<1> QED
  BY <1>2, <1>4 DEF Seen, WindowSlots

(* A nonce is let through a second time only after Cap others.             *)
THEOREM ReplaysBlocked == WindowSpec => []ReplayDistance
<1>1. WindowInit => ReplayDistance
  BY DEF WindowInit, ReplayDistance
<1>2. WindowTypeOK /\ RingIsRecent /\ ReplayDistance /\ [WindowNext]_windowVars => ReplayDistance'
  <2> SUFFICES ASSUME WindowTypeOK, RingIsRecent, ReplayDistance, [WindowNext]_windowVars
               PROVE  ReplayDistance'
    OBVIOUS
  <2>1. ASSUME NEW n \in Nonce, Receive(n) PROVE ReplayDistance'
    <3> SUFFICES ASSUME NEW i \in DOMAIN added', NEW j \in DOMAIN added',
                        i < j, added'[i] = added'[j]
                 PROVE  j - i > Cap
      BY DEF ReplayDistance
    <3>1. added \in Seq(Nonce) /\ added' = Append(added, n) /\ Cap \in Nat
      BY <2>1, WindowAssumption DEF WindowTypeOK, Receive
    <3>2. i \in DOMAIN added /\ added'[i] = added[i]
      BY <3>1
    <3>3. CASE j \in DOMAIN added
      BY <3>1, <3>2, <3>3 DEF ReplayDistance
    <3>4. CASE j = Len(added) + 1
      <4>1. added[i] = n
        BY <3>1, <3>2, <3>4
      <4>2. ~(Len(added) + 1 - i <= Cap)
        BY <2>1, <3>2, <4>1, RecentIsSeen DEF Receive
      <4> QED
        BY <3>1, <3>2, <3>4, <4>2
    <3> QED
      BY <3>1, <3>3, <3>4
  <2>2. CASE UNCHANGED windowVars
    BY <2>2 DEF ReplayDistance, windowVars
  <2> QED
    BY <2>1, <2>2 DEF WindowNext, Block
<1> QED
  BY <1>1, <1>2, WindowTypeCorrect, RingHoldsRecent, PTL DEF WindowSpec

(* What the window blocks did come before, but for the zero nonce.         *)
THEOREM FreshNoncesPass == WindowSpec => []FreshPasses
<1>1. WindowTypeOK /\ RingIsRecent => FreshPasses
  <2> SUFFICES ASSUME WindowTypeOK, RingIsRecent, NEW n \in Nonce \ {Zero}, Seen(n)
               PROVE  \E i \in DOMAIN added : added[i] = n
    BY DEF FreshPasses
  <2>1. PICK s \in WindowSlots : buf[s] = n
    BY DEF Seen
  <2>2. WrittenBy(s) > 0 /\ added[WrittenBy(s)] = n
    BY <2>1 DEF RingIsRecent
  <2>3. WrittenBy(s) \in DOMAIN added
    BY <2>2, WrittenByBound DEF WindowTypeOK
  <2> QED
    BY <2>2, <2>3
<1> QED
  BY <1>1, WindowTypeCorrect, RingHoldsRecent, PTL

-----------------------------------------------------------------------------
(* The status queue                                                        *)


(* What waits, is being posted, and was posted, is one increasing sequence.*)
BacklogOrdered ==
  /\ \A i \in DOMAIN backlog : backlog[i] <= offered
  /\ \A i, j \in DOMAIN backlog : i < j => backlog[i] < backlog[j]

MessageOrdered ==
  pc = "post" =>
    /\ message \in 1 .. offered
    /\ \A i \in DOMAIN backlog : message < backlog[i]
    /\ \A i \in DOMAIN delivered : delivered[i] < message

DeliveredOrdered ==
  /\ \A i \in DOMAIN delivered : delivered[i] <= offered
  /\ \A i \in DOMAIN delivered : \A j \in DOMAIN backlog : delivered[i] < backlog[j]
  /\ InOrder

QueueInv ==
  /\ QueueTypeOK /\ RingIsBacklog /\ NoLostWakeup
  /\ BacklogOrdered /\ MessageOrdered /\ DeliveredOrdered

LEMMA Sizes ==
  ASSUME QueueTypeOK
  PROVE  /\ Size \in Nat \ {0} /\ MaxOffered \in Nat
         /\ head \in 0 .. Size - 1 /\ tail \in 0 .. Size - 1 /\ count \in 0 .. Size
         /\ offered \in 0 .. MaxOffered
  BY QueueAssumption DEF QueueTypeOK, Slots

-----------------------------------------------------------------------------
LEMMA OfferStep == ASSUME QueueInv, Offer, HasRoom PROVE QueueInv'
<1>1. /\ offered' = offered + 1 /\ offered < MaxOffered
      /\ queue' = [queue EXCEPT ![tail] = offered + 1]
      /\ tail' = (tail + 1) % Size
      /\ count' = count + 1 /\ count < Size
      /\ pc' = CondSignal
      /\ backlog' = Append(backlog, offered + 1)
      /\ UNCHANGED <<head, message, delivered>>
  BY DEF Offer, HasRoom
<1>2. /\ Size \in Nat \ {0} /\ MaxOffered \in Nat
      /\ head \in 0 .. Size - 1 /\ tail \in 0 .. Size - 1 /\ count \in 0 .. Size
      /\ offered \in 0 .. MaxOffered
  BY Sizes DEF QueueInv
<1>3. tail' = IF tail = Size - 1 THEN 0 ELSE tail + 1
  BY <1>1, <1>2, NextSlot
<1>4. offered + 1 \in Message /\ backlog \in Seq(Message) /\ delivered \in Seq(Message)
  BY <1>1, <1>2 DEF QueueInv, QueueTypeOK, Message
<1>5. pc' \in {"check", "post"} /\ (pc' = "post" <=> pc = "post")
  BY <1>1 DEF CondSignal, QueueInv, QueueTypeOK
<1>6. QueueTypeOK'
  BY <1>1, <1>2, <1>3, <1>4, <1>5 DEF QueueInv, QueueTypeOK, Slots
<1>7. RingIsBacklog'
  <2>1. count = Len(backlog) /\ tail = SlotAt(count)
    BY <1>1 DEF QueueInv, RingIsBacklog
  <2>2. count' = Len(backlog')
    BY <1>1, <1>4, <2>1
  <2>3. tail' = IF count' = Size THEN head' ELSE SlotAt(count)'
    <3>1. tail = IF head + count < Size THEN head + count ELSE head + count - Size
      BY <2>1 DEF SlotAt
    <3>2. SlotAt(count)' = IF head + count + 1 < Size THEN head + count + 1
                                                    ELSE head + count + 1 - Size
      BY <1>1, <1>2 DEF SlotAt
    <3> QED
      BY <1>1, <1>2, <1>3, <3>1, <3>2
  <2>4. ASSUME NEW d \in 0 .. count' - 1 PROVE queue'[SlotAt(d)'] = backlog'[d + 1]
    <3>1. SlotAt(d)' = SlotAt(d) /\ SlotAt(d) \in Slots /\ d \in 0 .. count
      BY <1>1, <1>2 DEF SlotAt, Slots
    <3>2. CASE d = count
      BY <1>1, <1>4, <2>1, <3>1, <3>2 DEF QueueInv, QueueTypeOK
    <3>3. CASE d # count
      <4>1. d \in 0 .. count - 1 /\ SlotAt(d) # tail
        BY <1>1, <1>2, <2>1, <3>1, <3>3 DEF SlotAt
      <4>2. queue[SlotAt(d)] = backlog[d + 1]
        BY <4>1 DEF QueueInv, RingIsBacklog
      <4>3. backlog'[d + 1] = backlog[d + 1]
        BY <1>1, <1>2, <1>4, <2>1, <4>1
      <4> QED
        BY <1>1, <3>1, <4>1, <4>2, <4>3 DEF QueueInv, QueueTypeOK
    <3> QED
      BY <3>2, <3>3
  <2> QED
    BY <2>2, <2>3, <2>4 DEF RingIsBacklog
<1>8. NoLostWakeup'
  BY <1>5 DEF NoLostWakeup
<1>9. \A i \in DOMAIN backlog' :
        \/ i \in DOMAIN backlog /\ backlog'[i] = backlog[i]
        \/ i = Len(backlog) + 1 /\ backlog'[i] = offered + 1
  BY <1>1, <1>4
<1>10. BacklogOrdered'
  <2>1. \A i \in DOMAIN backlog : backlog[i] <= offered /\ backlog[i] \in Nat
    BY <1>2, <1>4 DEF QueueInv, BacklogOrdered, Message
  <2>2. \A i \in DOMAIN backlog' : backlog'[i] <= offered'
    BY <1>1, <1>2, <1>9, <2>1
  <2>3. ASSUME NEW i \in DOMAIN backlog', NEW j \in DOMAIN backlog', i < j
        PROVE  backlog'[i] < backlog'[j]
    <3>1. i \in DOMAIN backlog /\ backlog'[i] = backlog[i]
      BY <1>1, <1>4, <1>9, <2>3
    <3>2. CASE j \in DOMAIN backlog
      BY <1>9, <1>4, <2>3, <3>1, <3>2 DEF QueueInv, BacklogOrdered
    <3>3. CASE j = Len(backlog) + 1
      BY <1>2, <1>4, <1>9, <2>1, <3>1, <3>3
    <3> QED
      BY <1>9, <3>2, <3>3
  <2> QED
    BY <2>2, <2>3 DEF BacklogOrdered
<1>11. MessageOrdered'
  BY <1>1, <1>2, <1>4, <1>5, <1>9 DEF QueueInv, MessageOrdered
<1>12. DeliveredOrdered'
  <2>1. \A i \in DOMAIN delivered : delivered[i] <= offered /\ delivered[i] \in Nat
    BY <1>2, <1>4 DEF QueueInv, DeliveredOrdered, Message
  <2>2. \A i \in DOMAIN delivered' : delivered'[i] <= offered'
    BY <1>1, <1>2, <2>1
  <2>3. \A i \in DOMAIN delivered' : \A j \in DOMAIN backlog' : delivered'[i] < backlog'[j]
    BY <1>1, <1>2, <1>9, <2>1 DEF QueueInv, DeliveredOrdered
  <2>4. InOrder'
    BY <1>1 DEF QueueInv, DeliveredOrdered, InOrder
  <2> QED
    BY <2>2, <2>3, <2>4 DEF DeliveredOrdered
<1> QED
  BY <1>6, <1>7, <1>8, <1>10, <1>11, <1>12 DEF QueueInv

(* A message dropped at a full ring only uses up its number.               *)
LEMMA DropStep == ASSUME QueueInv, Offer, ~HasRoom PROVE QueueInv'
<1>1. /\ offered' = offered + 1 /\ offered < MaxOffered
      /\ UNCHANGED <<queue, head, tail, count, pc, message, backlog, delivered>>
  BY DEF Offer
<1>2. offered \in Nat /\ MaxOffered \in Nat /\ backlog \in Seq(Nat) /\ delivered \in Seq(Nat)
  BY Sizes DEF QueueInv, QueueTypeOK, Message
<1>3. QueueTypeOK' /\ RingIsBacklog' /\ NoLostWakeup'
  BY <1>1, <1>2 DEF QueueInv, QueueTypeOK, RingIsBacklog, NoLostWakeup, SlotAt, Slots
<1>4. BacklogOrdered' /\ MessageOrdered' /\ DeliveredOrdered'
  BY <1>1, <1>2 DEF QueueInv, BacklogOrdered, MessageOrdered, DeliveredOrdered, InOrder
<1> QED
  BY <1>3, <1>4 DEF QueueInv

LEMMA TakeStep == ASSUME QueueInv, TakeMessage PROVE QueueInv'
<1>1. /\ pc = "check" /\ pc' = "post" /\ count > 0 /\ count' = count - 1
      /\ message' = queue[head] /\ head' = (head + 1) % Size
      /\ backlog' = Tail(backlog)
      /\ UNCHANGED <<queue, tail, offered, delivered>>
  BY DEF TakeMessage, OldestMessage, NextHead
<1>2. /\ Size \in Nat \ {0} /\ MaxOffered \in Nat
      /\ head \in 0 .. Size - 1 /\ tail \in 0 .. Size - 1 /\ count \in 0 .. Size
      /\ offered \in 0 .. MaxOffered
  BY Sizes DEF QueueInv
<1>3. head' = IF head = Size - 1 THEN 0 ELSE head + 1
  BY <1>1, <1>2, NextSlot
<1>4. backlog \in Seq(Message) /\ delivered \in Seq(Message) /\ count = Len(backlog)
  BY DEF QueueInv, QueueTypeOK, RingIsBacklog
<1>5. backlog' \in Seq(Message) /\ Len(backlog') = count'
  BY <1>1, <1>2, <1>4
<1>6. \A i \in DOMAIN backlog' : i + 1 \in DOMAIN backlog /\ backlog'[i] = backlog[i + 1]
  BY <1>1, <1>2, <1>4, <1>5
<1>7. 1 \in DOMAIN backlog /\ message' = backlog[1]
  <2>1. SlotAt(0) = head /\ 0 \in 0 .. count - 1
    BY <1>1, <1>2 DEF SlotAt
  <2>2. queue[SlotAt(0)] = backlog[0 + 1]
    BY <2>1 DEF QueueInv, RingIsBacklog
  <2> QED
    BY <1>1, <1>2, <1>4, <2>1, <2>2
<1>8. message' \in Message
  BY <1>4, <1>7
<1>9. QueueTypeOK'
  BY <1>1, <1>2, <1>3, <1>5, <1>8 DEF QueueInv, QueueTypeOK, Slots
<1>10. RingIsBacklog'
  <2>1. tail' = IF count' = Size THEN head' ELSE SlotAt(count)'
    <3>1. tail = IF count = Size THEN head ELSE SlotAt(count)
      BY DEF QueueInv, RingIsBacklog
    <3>2. SlotAt(count)' = IF head' + count - 1 < Size THEN head' + count - 1
                                                     ELSE head' + count - 1 - Size
      BY <1>1, <1>2, <1>3 DEF SlotAt
    <3> QED
      BY <1>1, <1>2, <1>3, <3>1, <3>2 DEF SlotAt
  <2>2. ASSUME NEW d \in 0 .. count' - 1 PROVE queue'[SlotAt(d)'] = backlog'[d + 1]
    <3>1. SlotAt(d)' = SlotAt(d + 1) /\ d + 1 \in 0 .. count - 1
      BY <1>1, <1>2, <1>3 DEF SlotAt
    <3>2. queue[SlotAt(d + 1)] = backlog[d + 1 + 1]
      BY <3>1 DEF QueueInv, RingIsBacklog
    <3>3. d + 1 \in DOMAIN backlog'
      BY <1>1, <1>2, <1>5
    <3> QED
      BY <1>1, <1>6, <3>1, <3>2, <3>3
  <2> QED
    BY <1>5, <2>1, <2>2 DEF RingIsBacklog
<1>11. BacklogOrdered'
  BY <1>1, <1>2, <1>4, <1>6 DEF QueueInv, BacklogOrdered
<1>12. MessageOrdered'
  <2>1. message' \in 1 .. offered'
    BY <1>1, <1>2, <1>7, <1>8 DEF QueueInv, BacklogOrdered, Message
  <2>2. \A i \in DOMAIN backlog' : message' < backlog'[i]
    BY <1>4, <1>6, <1>7 DEF QueueInv, BacklogOrdered
  <2>3. \A i \in DOMAIN delivered' : delivered'[i] < message'
    BY <1>1, <1>7 DEF QueueInv, DeliveredOrdered
  <2> QED
    BY <2>1, <2>2, <2>3 DEF MessageOrdered
<1>13. DeliveredOrdered'
  BY <1>1, <1>6 DEF QueueInv, DeliveredOrdered, InOrder
<1>14. NoLostWakeup'
  BY <1>1 DEF NoLostWakeup
<1> QED
  BY <1>9, <1>10, <1>11, <1>12, <1>13, <1>14 DEF QueueInv

LEMMA PostStep == ASSUME QueueInv, Post PROVE QueueInv'
<1>1. /\ pc = "post" /\ pc' = "check" /\ delivered' = Append(delivered, message)
      /\ UNCHANGED <<queue, head, tail, count, message, offered, backlog>>
  BY DEF Post
<1>2. /\ message \in 1 .. offered /\ offered \in Nat
      /\ message \in Message /\ delivered \in Seq(Message) /\ backlog \in Seq(Message)
  BY <1>1, Sizes DEF QueueInv, MessageOrdered, QueueTypeOK, Message
<1>3. QueueTypeOK' /\ RingIsBacklog' /\ NoLostWakeup'
  BY <1>1, <1>2 DEF QueueInv, QueueTypeOK, RingIsBacklog, NoLostWakeup, SlotAt, Slots
<1>4. BacklogOrdered' /\ MessageOrdered'
  BY <1>1 DEF QueueInv, BacklogOrdered, MessageOrdered
<1>5. \A i \in DOMAIN delivered' :
        \/ i \in DOMAIN delivered /\ delivered'[i] = delivered[i]
        \/ i = Len(delivered) + 1 /\ delivered'[i] = message
  BY <1>1, <1>2
<1>6. DeliveredOrdered'
  BY <1>1, <1>2, <1>5 DEF QueueInv, DeliveredOrdered, MessageOrdered, InOrder, Message
<1> QED
  BY <1>3, <1>4, <1>6 DEF QueueInv

(* Falling asleep and waking move only the program counter.                *)
LEMMA WaitStep ==
  ASSUME QueueInv, CondWait \/ WakeUnasked \/ UNCHANGED queueVars
  PROVE  QueueInv'
<1>1. /\ UNCHANGED <<queue, head, tail, count, message, offered, backlog, delivered>>
      /\ \/ pc' = pc
         \/ pc' \in {"check", "asleep"} /\ (pc' = "asleep" => count = 0)
  BY DEF CondWait, WakeUnasked, queueVars
<1>2. QueueTypeOK' /\ RingIsBacklog' /\ NoLostWakeup'
  BY <1>1 DEF QueueInv, QueueTypeOK, RingIsBacklog, NoLostWakeup, SlotAt, Slots
<1>3. BacklogOrdered' /\ MessageOrdered' /\ DeliveredOrdered'
  BY <1>1 DEF QueueInv, BacklogOrdered, MessageOrdered, DeliveredOrdered, InOrder
<1> QED
  BY <1>2, <1>3 DEF QueueInv

-----------------------------------------------------------------------------
(* The strengthening of the queue's invariants that its steps preserve.    *)
THEOREM QueueInvariant == QueueSpec => []QueueInv
<1>1. QueueInit => QueueInv
  BY QueueAssumption
     DEF QueueInit, QueueInv, QueueTypeOK, RingIsBacklog, NoLostWakeup, SlotAt, Slots,
         BacklogOrdered, MessageOrdered, DeliveredOrdered, InOrder
<1>2. QueueInv /\ [QueueNext]_queueVars => QueueInv'
  BY OfferStep, DropStep, TakeStep, PostStep, WaitStep DEF QueueNext, StatusReporter
<1> QED
  BY <1>1, <1>2, PTL DEF QueueSpec

(* Every index stays in the ring, and only offered messages move.          *)
THEOREM QueueTypeCorrect == QueueSpec => []QueueTypeOK
<1>1. QueueInv => QueueTypeOK
  BY DEF QueueInv
<1> QED
  BY <1>1, QueueInvariant, PTL

(* No accepted message is overwritten, and the three indices agree.        *)
THEOREM RingHoldsBacklog == QueueSpec => []RingIsBacklog
<1>1. QueueInv => RingIsBacklog
  BY DEF QueueInv
<1> QED
  BY <1>1, QueueInvariant, PTL

(* The reporter never sleeps on a message.                                 *)
THEOREM NoWakeupLost == QueueSpec => []NoLostWakeup
<1>1. QueueInv => NoLostWakeup
  BY DEF QueueInv
<1> QED
  BY <1>1, QueueInvariant, PTL

(* Messages are posted in the order of their offers, none twice.           *)
THEOREM PostsInOrder == QueueSpec => []InOrder
<1>1. QueueInv => InOrder
  BY DEF QueueInv, DeliveredOrdered
<1> QED
  BY <1>1, QueueInvariant, PTL

-----------------------------------------------------------------------------
(* The threads                                                             *)

(* What main is about to install came together, and so does a key that     *)
(* waits in the mailbox with its material.                                 *)
KeysTogether ==
  /\ installing => sKey \in Together
  /\ force.hasMaterial => [id |-> force.target, mac |-> force.mac] \in pushed

(* The mailbox holds the newest request and nothing of an older one that   *)
(* its flags give a meaning to.                                            *)
MailboxIsNewest ==
  force.requested =>
    /\ asked \in Bodies
    /\ force.hasTarget = (asked.target # None)
    /\ force.hasMaterial = HasMaterial(asked)
    /\ asked.target # None => force.target = asked.target
    /\ HasMaterial(asked) => asked.target # None /\ force.mac = asked.mac

(* Every frame took an input.                                              *)
FramesBounded == frames <= inputs

ThreadsInv ==
  TypeOK /\ FramesBounded /\ KeysTogether /\ MailboxIsNewest /\ IdNamesMac

LEMMA BodiesTyped ==
  \A body \in Bodies :
    /\ body.target \in KeyOrNone /\ body.mac \in KeyOrNone /\ HasMaterial(body) \in BOOLEAN
    /\ HasMaterial(body) => body.target \in Key /\ body.target # None /\ body.mac \in Key
<1> SUFFICES ASSUME NEW body \in Bodies
             PROVE  /\ body.target \in KeyOrNone /\ body.mac \in KeyOrNone
                    /\ HasMaterial(body) \in BOOLEAN
                    /\ HasMaterial(body) =>
                         body.target \in Key /\ body.target # None /\ body.mac \in Key
  OBVIOUS
<1>1. CASE body = Blind
  BY <1>1 DEF Blind, KeyOrNone, HasMaterial
<1>2. CASE body \in [target : Key, mac : Key \cup {None}]
  <2>1. body.target \in Key /\ body.mac \in KeyOrNone
    BY <1>2 DEF KeyOrNone
  <2> QED
    BY <2>1, ThreadsAssumption DEF KeyOrNone, HasMaterial
<1> QED
  BY <1>1, <1>2 DEF Bodies

LEMMA Bundles ==
  \A k \in KeyOrNone :
    Bundle(k) \in [id : KeyOrNone, mac : KeyOrNone] /\ Bundle(k) \in Together
  BY DEF Bundle, KeyOrNone, Together

(* What came together once stays so.                                       *)
LEMMA TogetherGrows ==
  ASSUME pushed \subseteq pushed'
  PROVE  Together \subseteq Together'
  BY DEF Together

LEMMA Numbers ==
  ASSUME TypeOK
  PROVE  MaxInputs \in Nat /\ inputs \in 0 .. MaxInputs /\ frames \in 0 .. MaxInputs
  BY ThreadsAssumption DEF TypeOK

-----------------------------------------------------------------------------
(* Main loop                                                               *)

(* A step that touches no mailbox and no reporter variable but the keys.   *)
LEMMA KeysStep ==
  ASSUME ThreadsInv, inputs' \in {inputs, inputs + 1}, inputs' \in 0 .. MaxInputs,
         UNCHANGED <<reporter, mailboxes, baud, copied>>,
         sKey' \in [id : KeyOrNone, mac : KeyOrNone],
         installing' \in BOOLEAN, repMac' \in KeyOrNone, currentId' \in KeyOrNone,
         installing' => sKey' \in Together,
         IdNamesMac'
  PROVE  ThreadsInv'
<1> USE DEF reporter, mailboxes
<1>1. FramesBounded'
  BY Numbers DEF ThreadsInv, FramesBounded
<1>2. KeysTogether' /\ MailboxIsNewest'
  BY TogetherGrows DEF ThreadsInv, KeysTogether, MailboxIsNewest
<1>3. TypeOK'
  BY DEF ThreadsInv, TypeOK, Event
<1> QED
  BY <1>1, <1>2, <1>3 DEF ThreadsInv

LEMMA AdoptStep ==
  ASSUME ThreadsInv, Install \/ AdoptLocally \/ Rotate \/ FinalizeUpdate
  PROVE  ThreadsInv'
<1> USE DEF keys
<1>1. UNCHANGED <<reporter, mailboxes, baud, copied>>
  BY DEF Install, AdoptLocally, Rotate, FinalizeUpdate
<1>2. inputs' \in {inputs, inputs + 1} /\ inputs' \in 0 .. MaxInputs
  BY Numbers DEF ThreadsInv, Install, AdoptLocally, Rotate, FinalizeUpdate, Input
<1>3. /\ sKey \in [id : KeyOrNone, mac : KeyOrNone] /\ installing \in BOOLEAN
      /\ repMac \in KeyOrNone /\ currentId \in KeyOrNone
  BY DEF ThreadsInv, TypeOK
<1>4. CASE Install
  <2>1. /\ installing /\ sKey' = sKey /\ installing' = FALSE
        /\ repMac' = sKey.mac /\ currentId' = sKey.id
    BY <1>4 DEF Install, NewId
  <2>2. sKey = [id |-> sKey.id, mac |-> sKey.mac] /\ pushed' = pushed
    BY <1>1, <1>3 DEF mailboxes
  <2>3. sKey \in Together'
    BY <2>1, <2>2, TogetherGrows DEF ThreadsInv, KeysTogether
  <2>4. IdNamesMac'
    BY <2>1, <2>2, <2>3 DEF IdNamesMac
  <2> QED
    BY <1>1, <1>2, <1>3, <2>1, <2>4, KeysStep
<1>5. CASE AdoptLocally
  <2>1. PICK k \in KeyOrNone : sKey' = Bundle(k)
    BY <1>5 DEF AdoptLocally, Adopt, KeyOrNone
  <2>2. installing' = TRUE /\ UNCHANGED <<repMac, currentId>>
    BY <1>5 DEF AdoptLocally, Adopt
  <2>3. IdNamesMac'
    BY <2>2 DEF IdNamesMac, Unlocked
  <2> QED
    BY <1>1, <1>2, <1>3, <2>1, <2>2, <2>3, Bundles, KeysStep
<1>6. CASE Rotate \/ FinalizeUpdate
  <2>1. ~installing /\ UNCHANGED <<installing, repMac, currentId>>
    BY <1>6 DEF Rotate, FinalizeUpdate, Unlocked
  <2>2. sKey' \in [id : KeyOrNone, mac : KeyOrNone]
    BY <1>3, <1>6, Bundles DEF Rotate, FinalizeUpdate, KeyOrNone
  <2>3. IdNamesMac'
    BY <1>1, <2>1 DEF ThreadsInv, IdNamesMac, Unlocked, Together, mailboxes
  <2> QED
    BY <1>1, <1>2, <1>3, <2>1, <2>2, <2>3, KeysStep
<1> QED
  BY <1>4, <1>5, <1>6

LEMMA DrainForceStep ==
  ASSUME ThreadsInv, DrainForce
  PROVE  /\ ThreadsInv'
         /\ asked.target # None =>
              IF HasMaterial(asked)
                THEN sKey' = [id |-> asked.target, mac |-> asked.mac]
                ELSE sKey' \in {sKey, Bundle(asked.target)}
<1>1. /\ ~installing /\ force.requested /\ asked' = None
      /\ force' = [force EXCEPT !.requested = FALSE]
      /\ UNCHANGED <<reporter, pushed, baudWanted, baud, copied, inputs>>
  BY DEF DrainForce, Unlocked, Cleared
<1>2. /\ asked \in Bodies
      /\ force.hasTarget = (asked.target # None)
      /\ force.hasMaterial = HasMaterial(asked)
      /\ asked.target # None => force.target = asked.target
      /\ HasMaterial(asked) => asked.target # None /\ force.mac = asked.mac
      /\ force.hasMaterial => [id |-> force.target, mac |-> force.mac] \in Together
  BY <1>1 DEF ThreadsInv, MailboxIsNewest, KeysTogether, Together
<1>3. /\ force \in [requested : BOOLEAN, hasTarget : BOOLEAN, hasMaterial : BOOLEAN,
                    target : KeyOrNone, mac : KeyOrNone]
      /\ sKey \in [id : KeyOrNone, mac : KeyOrNone]
  BY DEF ThreadsInv, TypeOK
<1>4. \/ UNCHANGED keys /\ ~HasMaterial(asked)
      \/ /\ installing' = TRUE /\ UNCHANGED <<repMac, currentId>>
         /\ sKey' \in [id : KeyOrNone, mac : KeyOrNone] /\ sKey' \in Together
         /\ asked.target # None =>
              IF HasMaterial(asked)
                THEN sKey' = [id |-> asked.target, mac |-> asked.mac]
                ELSE sKey' = Bundle(asked.target)
  <2>1. CASE force.hasMaterial
    <3>1. Adopt([id |-> force.target, mac |-> force.mac])
      BY <2>1 DEF DrainForce
    <3> QED
      BY <1>2, <1>3, <2>1, <3>1 DEF Adopt
  <2>2. CASE ~force.hasMaterial /\ ~UNCHANGED keys
    <3>1. PICK k \in IF force.hasTarget THEN {force.target} ELSE Key : Adopt(Bundle(k))
      BY <2>2 DEF DrainForce
    <3>2. k \in KeyOrNone /\ (asked.target # None => k = asked.target)
      BY <1>2, <1>3, <3>1 DEF KeyOrNone
    <3> QED
      BY <1>2, <2>2, <3>1, <3>2, Bundles DEF Adopt
  <2> QED
    BY <1>2, <2>1, <2>2
<1>5. asked.target # None =>
        IF HasMaterial(asked)
          THEN sKey' = [id |-> asked.target, mac |-> asked.mac]
          ELSE sKey' \in {sKey, Bundle(asked.target)}
  BY <1>4 DEF keys
<1>6. /\ sKey' \in [id : KeyOrNone, mac : KeyOrNone] /\ installing' \in BOOLEAN
      /\ installing' => sKey' \in Together'
      /\ UNCHANGED <<repMac, currentId>>
      /\ IdNamesMac'
  <2>1. CASE UNCHANGED keys
    <3>1. ~installing' /\ UNCHANGED <<sKey, installing, repMac, currentId, pushed>>
      BY <1>1, <2>1 DEF keys
    <3>2. IdNamesMac'
      BY <3>1 DEF ThreadsInv, IdNamesMac, Unlocked, Together
    <3>3. installing' \in BOOLEAN
      BY <3>1 DEF ThreadsInv, TypeOK
    <3> QED
      BY <1>3, <3>1, <3>2, <3>3
  <2>2. CASE ~UNCHANGED keys
    <3>1. IdNamesMac' /\ installing' \in BOOLEAN
      BY <1>4, <2>2 DEF IdNamesMac, Unlocked
    <3>2. sKey' \in Together'
      BY <1>1, <1>4, <2>2, TogetherGrows
    <3> QED
      BY <1>4, <2>2, <3>1, <3>2
  <2> QED
    BY <2>1, <2>2
<1>7. KeysTogether' /\ MailboxIsNewest'
  BY <1>1, <1>3, <1>6 DEF ThreadsInv, KeysTogether, MailboxIsNewest
<1>8. force' \in [requested : BOOLEAN, hasTarget : BOOLEAN, hasMaterial : BOOLEAN,
                  target : KeyOrNone, mac : KeyOrNone]
  BY <1>1, <1>3
<1>9. TypeOK' /\ FramesBounded'
  BY <1>1, <1>6, <1>8 DEF ThreadsInv, TypeOK, FramesBounded, Event, reporter
<1> QED
  BY <1>5, <1>6, <1>7, <1>9 DEF ThreadsInv

LEMMA DecryptStep ==
  ASSUME ThreadsInv, Decrypt
  PROVE  ThreadsInv'
<1>1. /\ frames' = frames + 1 /\ inputs' = inputs + 1 /\ inputs < MaxInputs
      /\ event' = [id |-> sKey.id, frame |-> frames']
      /\ pending' = TRUE
      /\ reporterPc' \in {reporterPc, "check"}
      /\ UNCHANGED <<keys, taken, posted, mailboxes, baud, copied>>
  BY DEF Decrypt, Input, Signal
<1>2. /\ MaxInputs \in Nat /\ inputs \in 0 .. MaxInputs /\ frames \in 0 .. MaxInputs
      /\ frames <= inputs
  BY Numbers DEF ThreadsInv, FramesBounded
<1>3. /\ frames' \in 0 .. MaxInputs /\ inputs' \in 0 .. MaxInputs /\ frames' <= inputs'
      /\ frames' \in 0 .. frames' /\ (0 .. frames) \subseteq (0 .. frames')
  BY <1>1, <1>2
<1>4. sKey.id \in KeyOrNone
  BY DEF ThreadsInv, TypeOK
<1>5. event' \in Event' /\ taken' \in Event'
  BY <1>1, <1>3, <1>4 DEF ThreadsInv, TypeOK, Event
<1>6. posted' \in [frame : 0 .. frames', mac : KeyOrNone \cup {Torn}]
  BY <1>1, <1>3 DEF ThreadsInv, TypeOK
<1>7. pending' \in BOOLEAN /\ reporterPc' \in {"check", "asleep", "post"}
  BY <1>1 DEF ThreadsInv, TypeOK
<1>8. TypeOK'
  BY <1>1, <1>3, <1>5, <1>6, <1>7 DEF ThreadsInv, TypeOK, keys, mailboxes
<1>9. KeysTogether' /\ MailboxIsNewest' /\ IdNamesMac' /\ FramesBounded'
  BY <1>1, <1>3
     DEF ThreadsInv, KeysTogether, MailboxIsNewest, IdNamesMac, Unlocked, FramesBounded,
         Together, keys, mailboxes
<1> QED
  BY <1>8, <1>9 DEF ThreadsInv

-----------------------------------------------------------------------------
(* The other threads                                                       *)

LEMMA ReporterStep ==
  ASSUME ThreadsInv, Reporter
  PROVE  ThreadsInv'
<1>1. /\ UNCHANGED <<keys, event, frames, mailboxes, baud, copied, inputs>>
      /\ reporterPc' \in {"check", "asleep", "post"}
      /\ taken' \in {taken, event}
  BY DEF Reporter, Sleep, TakeEvent, PostEvent
<1>2. pending' \in BOOLEAN
  BY DEF Reporter, Sleep, TakeEvent, PostEvent, ThreadsInv, TypeOK
<1>3. posted' \in [frame : 0 .. frames, mac : KeyOrNone \cup {Torn}]
  <2>1. SigningMac \subseteq KeyOrNone \cup {Torn}
    BY DEF SigningMac, ThreadsInv, TypeOK
  <2>2. taken.frame \in 0 .. frames
    BY DEF ThreadsInv, TypeOK, Event
  <2> QED
    BY <2>1, <2>2 DEF Reporter, Sleep, TakeEvent, PostEvent, ThreadsInv, TypeOK
<1>4. TypeOK'
  BY <1>1, <1>2, <1>3 DEF ThreadsInv, TypeOK, Event, keys, mailboxes
<1> QED
  BY <1>1, <1>4
     DEF ThreadsInv, KeysTogether, MailboxIsNewest, IdNamesMac, Unlocked, FramesBounded,
         Together, keys, mailboxes

LEMMA ForceRequestStep ==
  ASSUME ThreadsInv, ForceRequest
  PROVE  ThreadsInv'
<1>1. PICK body \in Bodies :
        /\ force' = Mailed(body) /\ asked' = body
        /\ pushed' = IF HasMaterial(body)
                       THEN pushed \cup {[id |-> body.target, mac |-> body.mac]}
                       ELSE pushed
  BY DEF ForceRequest
<1>2. /\ inputs' = inputs + 1 /\ inputs < MaxInputs
      /\ UNCHANGED <<keys, reporter, baudWanted, baud, copied>>
  BY DEF ForceRequest, Input
<1>3. /\ body.target \in KeyOrNone /\ body.mac \in KeyOrNone /\ HasMaterial(body) \in BOOLEAN
      /\ HasMaterial(body) => body.target \in Key /\ body.target # None /\ body.mac \in Key
  BY BodiesTyped
<1>4. /\ force'.requested = TRUE
      /\ force'.hasTarget = (body.target # None)
      /\ force'.hasMaterial = HasMaterial(body)
      /\ body.target # None => force'.target = body.target
      /\ HasMaterial(body) => force'.mac = body.mac
  BY <1>1 DEF Mailed, TargetBytes, MacBytes
<1>5. force' \in [requested : BOOLEAN, hasTarget : BOOLEAN, hasMaterial : BOOLEAN,
                  target : KeyOrNone, mac : KeyOrNone]
  <2>1. TargetBytes(body) \in KeyOrNone /\ MacBytes(body) \in KeyOrNone
    BY <1>3 DEF TargetBytes, MacBytes, ThreadsInv, TypeOK
  <2>2. (body.target # None) \in BOOLEAN /\ TRUE \in BOOLEAN
    OBVIOUS
  <2> QED
    BY <1>1, <1>3, <2>1, <2>2 DEF Mailed
<1>6. inputs' \in 0 .. MaxInputs /\ FramesBounded'
  BY <1>2, Numbers DEF ThreadsInv, FramesBounded, reporter
<1>7. TypeOK'
  <2>1. pushed' \subseteq [id : Key, mac : Key] /\ asked' \in Bodies
    BY <1>1, <1>3 DEF ThreadsInv, TypeOK
  <2> QED
    BY <1>2, <1>5, <1>6, <2>1 DEF ThreadsInv, TypeOK, Event, keys, reporter
<1>8. Together \subseteq Together'
  BY <1>1, TogetherGrows
<1>9. KeysTogether'
  BY <1>1, <1>2, <1>3, <1>4, <1>8 DEF ThreadsInv, KeysTogether, keys
<1>10. MailboxIsNewest'
  BY <1>1, <1>3, <1>4 DEF MailboxIsNewest
<1>11. IdNamesMac'
  BY <1>2, <1>8 DEF ThreadsInv, IdNamesMac, Unlocked, keys
<1> QED
  BY <1>6, <1>7, <1>9, <1>10, <1>11 DEF ThreadsInv

(* The rate, and the key copied for an answer, meet no other variable.     *)
LEMMA ServerStep ==
  ASSUME ThreadsInv,
         DrainBaud \/ BaudRequest \/ StatusRequest \/ ChallengeRequest \/ ChallengeAnswer
           \/ UNCHANGED vars
  PROVE  ThreadsInv'
<1>1. UNCHANGED <<keys, reporter, force, asked, pushed>>
  BY DEF DrainBaud, BaudRequest, StatusRequest, ChallengeRequest, ChallengeAnswer, vars,
         mailboxes
<1>2. inputs' \in {inputs, inputs + 1} /\ inputs' \in 0 .. MaxInputs
  BY Numbers
     DEF ThreadsInv, DrainBaud, BaudRequest, StatusRequest, ChallengeRequest,
         ChallengeAnswer, vars, Input
<1>3. baudWanted' \in Baud \cup {None} /\ baud' \in Baud \cup {None}
  BY DEF ThreadsInv, TypeOK, DrainBaud, BaudRequest, StatusRequest, ChallengeRequest,
         ChallengeAnswer, vars, mailboxes, BaudIsSane
<1>4. copied' \in KeyOrNone
  BY DEF ThreadsInv, TypeOK, DrainBaud, BaudRequest, StatusRequest, ChallengeRequest,
         ChallengeAnswer, vars, KeyOrNone
<1>5. TypeOK'
  BY <1>1, <1>2, <1>3, <1>4 DEF ThreadsInv, TypeOK, Event, keys, reporter
<1>6. FramesBounded'
  BY <1>1, <1>2, Numbers DEF ThreadsInv, FramesBounded, reporter
<1> QED
  BY <1>1, <1>5, <1>6
     DEF ThreadsInv, KeysTogether, MailboxIsNewest, IdNamesMac, Unlocked, Together, keys

-----------------------------------------------------------------------------
(* Theorems                                                                *)

LEMMA InitThreads == Init => ThreadsInv
<1> SUFFICES ASSUME Init PROVE ThreadsInv
  OBVIOUS
<1>1. /\ installing = (sKey.id # None) /\ repMac = None /\ currentId = None
      /\ event = [id |-> None, frame |-> 0] /\ pending = FALSE /\ frames = 0
      /\ reporterPc = "check" /\ taken = event
      /\ posted = [frame |-> 0, mac |-> None]
      /\ force = [requested |-> FALSE, hasTarget |-> FALSE, hasMaterial |-> FALSE,
                  target |-> None, mac |-> None]
      /\ asked = None /\ pushed = {} /\ baudWanted = None /\ baud = None /\ copied = None /\ inputs = 0
  BY DEF Init
<1>2. sKey \in [id : KeyOrNone, mac : KeyOrNone] /\ sKey \in Together
  BY Bundles DEF Init, KeyOrNone
<1>3. /\ installing \in BOOLEAN /\ pending \in BOOLEAN
  BY <1>1
<1>4. /\ event \in Event /\ taken \in Event
      /\ posted \in [frame : 0 .. frames, mac : KeyOrNone \cup {Torn}]
  BY <1>1 DEF Event, KeyOrNone
<1>5. force \in [requested : BOOLEAN, hasTarget : BOOLEAN, hasMaterial : BOOLEAN,
                 target : KeyOrNone, mac : KeyOrNone]
  BY <1>1 DEF KeyOrNone
<1>6. inputs \in 0 .. MaxInputs /\ frames \in 0 .. MaxInputs
  BY <1>1, ThreadsAssumption
<1>7. TypeOK
  BY <1>1, <1>2, <1>3, <1>4, <1>5, <1>6 DEF TypeOK, KeyOrNone
<1>8. FramesBounded /\ KeysTogether /\ MailboxIsNewest /\ IdNamesMac
  <2>1. [id |-> None, mac |-> None] \in Together
    BY DEF Together, Bundle
  <2> QED
    BY <1>1, <1>2, <2>1 DEF FramesBounded, KeysTogether, MailboxIsNewest, IdNamesMac
<1> QED
  BY <1>7, <1>8 DEF ThreadsInv

(* The inductive invariant of what the threads share.                      *)
THEOREM ThreadsInvariant == Spec => []ThreadsInv
<1>1. Init => ThreadsInv
  BY InitThreads
<1>2. ThreadsInv /\ [Next]_vars => ThreadsInv'
  BY AdoptStep, DrainForceStep, DecryptStep, ReporterStep, ForceRequestStep, ServerStep
     DEF Next, MainLoop, Drain, Server
<1> QED
  BY <1>1, <1>2, PTL DEF Spec

(* Types of keys, mailboxes and events.                                    *)
THEOREM TypeCorrect == Spec => []TypeOK
<1>1. ThreadsInv => TypeOK
  BY DEF ThreadsInv
<1> QED
  BY <1>1, ThreadsInvariant, PTL

(* The id the control server names is that of the reporter's MAC key.      *)
THEOREM IdsNameMacs == Spec => []IdNamesMac
<1>1. ThreadsInv => IdNamesMac
  BY DEF ThreadsInv
<1> QED
  BY <1>1, ThreadsInvariant, PTL

(* Main acts on the newest /force_key request as a whole.                  *)
THEOREM ForceIsWhole == Spec => ForceActsOnNewest
<1>1. ThreadsInv /\ [Next]_vars =>
        [DrainForce /\ asked.target # None =>
           IF HasMaterial(asked)
             THEN sKey' = [id |-> asked.target, mac |-> asked.mac]
             ELSE sKey' \in {sKey, Bundle(asked.target)}]_vars
  BY DrainForceStep
<1> QED
  BY <1>1, ThreadsInvariant, PTL DEF Spec, ForceActsOnNewest
=============================================================================
