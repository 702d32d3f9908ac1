----------------------------- MODULE MutualAuth -----------------------------
(***************************************************************************)
(* What the three-way SST handshake promises, with no wires and no keys.   *)
(* The receiver asks with numbered challenges, at most one open at a time; *)
(* the Pico answers any challenge with a fresh nonce and holds the last    *)
(* one; the receiver accepts an answer to the challenge it has open, and   *)
(* the Pico accepts only what the receiver accepted before.                *)
(***************************************************************************)
EXTENDS Naturals

CONSTANT Junk  \* what decryption under a wrong key may yield as a challenge

VARIABLES
  asked,     \* challenges drawn so far: 1 .. asked
  open,      \* the challenge the receiver waits on, 0 for none
  replies,   \* Pico nonces drawn so far: 1 .. replies
  held,      \* the nonce the Pico wants echoed, 0 for none
  answered,  \* <<challenge, nonce>> pairs the Pico sent
  rDone,     \* pairs the receiver accepted: the Pico is authenticated
  pDone      \* pairs the Pico accepted: the receiver is authenticated

vars == <<asked, open, replies, held, answered, rDone, pDone>>

Init ==
  /\ asked = 0 /\ open = 0 /\ replies = 0 /\ held = 0
  /\ answered = {} /\ rDone = {} /\ pDone = {}

(* A new challenge replaces the open one; it may never leave the receiver. *)
Ask ==
  /\ asked' = asked + 1
  /\ open' \in {0, asked + 1}
  /\ UNCHANGED <<replies, held, answered, rDone, pDone>>

GiveUp ==
  /\ open' = 0
  /\ UNCHANGED <<asked, replies, held, answered, rDone, pDone>>

Answer(challenge) ==
  /\ replies' = replies + 1
  /\ held' = replies + 1
  /\ answered' = answered \cup {<<challenge, replies + 1>>}
  /\ UNCHANGED <<asked, open, rDone, pDone>>

ReceiverAccepts(n) ==
  /\ open # 0
  /\ <<open, n>> \in answered
  /\ rDone' = rDone \cup {<<open, n>>}
  /\ open' = 0
  /\ UNCHANGED <<asked, replies, held, answered, pDone>>

PicoAccepts(challenge) ==
  /\ held # 0
  /\ <<challenge, held>> \in rDone
  /\ pDone' = pDone \cup {<<challenge, held>>}
  /\ held' = 0
  /\ UNCHANGED <<asked, open, replies, answered, rDone>>

Forget ==
  /\ held' = 0
  /\ UNCHANGED <<asked, open, replies, answered, rDone, pDone>>

Next ==
  \/ Ask
  \/ GiveUp
  \/ \E challenge \in 1 .. asked \cup {Junk} : Answer(challenge)
  \/ \E n \in 1 .. replies : ReceiverAccepts(n)
  \/ \E challenge \in 1 .. asked : PicoAccepts(challenge)
  \/ Forget

Spec == Init /\ [][Next]_vars

-----------------------------------------------------------------------------
(* Each side accepts only what the other did before, and no challenge or   *)
(* nonce is accepted in two handshakes: injective agreement.               *)
Chain == pDone \subseteq rDone /\ rDone \subseteq answered

Injective(pairs) ==
  \A a, b \in pairs : a[1] = b[1] \/ a[2] = b[2] => a = b

Agreement == Chain /\ Injective(rDone)
=============================================================================
