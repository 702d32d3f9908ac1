---------------------------- MODULE ReplayWindow ----------------------------
(***************************************************************************)
(* The receiver's replay window (receiver/src/replay_window.c) under its   *)
(* only caller, the encrypted-frame handler of dash_receiver.c: a ring of  *)
(* the last nonces, zeroed at start, consulted before and written ahead of *)
(* the decryption. Frames reach it with any nonce, again and out of order. *)
(* No name is one of DashThreads: the proofs about dash_receiver extend    *)
(* both.                                                                   *)
(***************************************************************************)
EXTENDS Integers, Sequences

CONSTANTS
  Cap,      \* NONCE_HISTORY_SIZE: 64 in the code
  Nonce,    \* nonces a frame may carry
  Zero,     \* the nonce of twelve zero bytes
  MaxAdded  \* bound: frames that enter the window

ASSUME WindowAssumption == Cap \in Nat \ {0} /\ Zero \in Nonce /\ MaxAdded \in Nat

VARIABLES
  buf,   \* replay_window_t.buf, slots 0 .. Cap - 1
  idx,   \* replay_window_t.idx
  added  \* history: the nonces that entered the window, oldest first

windowVars == <<buf, idx, added>>

WindowSlots == 0 .. Cap - 1

(* A bug the code avoids: only the slots before idx are searched.          *)
SeenBeforeIdx(n) == \E i \in 0 .. idx - 1 : buf[i] = n

(* replay_window_seen                                                      *)
Seen(n) == \E i \in WindowSlots : buf[i] = n

(* Bugs the code avoids: a ring shorter than its search, and no ring.      *)
NextIdxShort == IF Cap = 1 THEN 0 ELSE (idx + 1) % (Cap - 1)

NextIdxUnwrapped == idx + 1

NextIdx == (idx + 1) % Cap

(* replay_window_add                                                       *)
Add(n) ==
  /\ buf' = [buf EXCEPT ![idx] = n]
  /\ idx' = NextIdx

(* An encrypted frame whose CRC holds. Its nonce is spent whether or not   *)
(* there is a key yet and the frame then decrypts.                         *)
Receive(n) ==
  /\ ~Seen(n)
  /\ Len(added) < MaxAdded
  /\ Add(n)
  /\ added' = Append(added, n)

Block(n) == Seen(n) /\ UNCHANGED windowVars

(* A bug the code avoids: the window is a local variable, left as found.   *)
RingAsFound == [i \in WindowSlots |-> CHOOSE n \in Nonce : n # Zero]

(* replay_window_init                                                      *)
ZeroedRing == [i \in WindowSlots |-> Zero]

WindowInit == buf = ZeroedRing /\ idx = 0 /\ added = <<>>

WindowNext == \E n \in Nonce : Receive(n) \/ Block(n)

WindowSpec == WindowInit /\ [][WindowNext]_windowVars

-----------------------------------------------------------------------------
(* Properties                                                              *)

WindowTypeOK ==
  /\ buf \in [WindowSlots -> Nonce]
  /\ idx \in WindowSlots
  /\ added \in Seq(Nonce)

(* Slot s was last written by the frame at this position of added, or by   *)
(* none yet when that is not positive.                                     *)
WrittenBy(s) == IF s < idx THEN Len(added) + s + 1 - idx
                           ELSE Len(added) + s + 1 - idx - Cap

(* The ring is the end of what entered it, in order from idx, and zero     *)
(* where nothing was written yet: it overwrites the oldest nonce first.    *)
RingIsRecent ==
  \A s \in WindowSlots :
    buf[s] = IF WrittenBy(s) > 0 THEN added[WrittenBy(s)] ELSE Zero

(* Two frames with one nonce are both let through only if Cap others came  *)
(* between them: whatever is repeated, delayed or reordered, and whether   *)
(* or not the frames decrypted, a replay within the window is blocked.     *)
ReplayDistance ==
  \A i, j \in DOMAIN added : i < j /\ added[i] = added[j] => j - i > Cap

(* A nonce that never came is not blocked, except the all-zero nonce while *)
(* slots are unused: the sender's fresh frames get through at any fill.    *)
FreshPasses ==
  \A n \in Nonce \ {Zero} : Seen(n) => \E i \in DOMAIN added : added[i] = n
=============================================================================
