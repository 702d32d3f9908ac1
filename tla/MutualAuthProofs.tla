-------------------------- MODULE MutualAuthProofs --------------------------
(***************************************************************************)
(* The abstract handshake keeps its promise: injective agreement, for any  *)
(* number of handshakes.                                                   *)
(***************************************************************************)
EXTENDS MutualAuth, TLAPS

Types ==
  /\ asked \in Nat /\ replies \in Nat
  /\ open \in 0 .. asked /\ held \in 0 .. replies

(* Each nonce answered one challenge.                                      *)
AnswersDiffer ==
  /\ answered \subseteq (1 .. asked \cup {Junk}) \X (1 .. replies)
  /\ \A a, b \in answered : a[2] = b[2] => a = b

(* No accepted pair is of the open challenge, nor of one yet to be drawn.  *)
OpenIsFresh == \A a \in rDone : a[1] \in 1 .. asked /\ a[1] # open

Inv == Types /\ AnswersDiffer /\ OpenIsFresh /\ Agreement

LEMMA AskStep == ASSUME Inv, Ask PROVE Inv'
<1>1. asked \in Nat /\ asked' = asked + 1 /\ open' \in {0, asked + 1}
  BY DEF Inv, Types, Ask
<1>2. UNCHANGED <<replies, held, answered, rDone, pDone>>
  BY DEF Ask
<1>3. Types' /\ AnswersDiffer'
  BY <1>1, <1>2 DEF Inv, Types, AnswersDiffer
<1>4. OpenIsFresh'
  BY <1>1, <1>2 DEF Inv, OpenIsFresh
<1>5. Agreement'
  BY <1>2 DEF Inv, Agreement, Chain, Injective
<1> QED
  BY <1>3, <1>4, <1>5 DEF Inv

LEMMA AnswerStep ==
  ASSUME Inv, NEW challenge \in 1 .. asked \cup {Junk}, Answer(challenge)
  PROVE  Inv'
<1>1. /\ replies \in Nat /\ replies' = replies + 1 /\ held' = replies + 1
      /\ answered' = answered \cup {<<challenge, replies + 1>>}
      /\ UNCHANGED <<asked, open, rDone, pDone>>
  BY DEF Inv, Types, Answer
<1>2. Types'
  BY <1>1 DEF Inv, Types
<1>3. AnswersDiffer'
  <2>1. answered' \subseteq (1 .. asked' \cup {Junk}) \X (1 .. replies')
    BY <1>1 DEF Inv, AnswersDiffer
  <2>2. ASSUME NEW a \in answered', NEW b \in answered', a[2] = b[2] PROVE a = b
    <3>1. \A c \in answered : c[2] # replies + 1
      BY <1>1 DEF Inv, AnswersDiffer
    <3> QED
      BY <1>1, <2>2, <3>1 DEF Inv, AnswersDiffer
  <2> QED
    BY <2>1, <2>2 DEF AnswersDiffer
<1>4. OpenIsFresh' /\ Agreement'
  BY <1>1 DEF Inv, OpenIsFresh, Agreement, Chain, Injective
<1> QED
  BY <1>2, <1>3, <1>4 DEF Inv

LEMMA ReceiverStep ==
  ASSUME Inv, NEW n \in 1 .. replies, ReceiverAccepts(n)
  PROVE  Inv'
<1>1. /\ open # 0 /\ <<open, n>> \in answered /\ open' = 0
      /\ rDone' = rDone \cup {<<open, n>>}
      /\ UNCHANGED <<asked, replies, held, answered, pDone>>
  BY DEF ReceiverAccepts
<1>2. Types' /\ AnswersDiffer'
  BY <1>1 DEF Inv, Types, AnswersDiffer
<1>3. OpenIsFresh'
  BY <1>1 DEF Inv, Types, OpenIsFresh
<1>4. Chain'
  BY <1>1 DEF Inv, Agreement, Chain
<1>5. \A a \in rDone : a[1] # open /\ a[2] # n
  BY <1>1 DEF Inv, OpenIsFresh, AnswersDiffer, Agreement, Chain
<1>6. Injective(rDone)'
  BY <1>1, <1>5 DEF Inv, Agreement, Injective
<1> QED
  BY <1>2, <1>3, <1>4, <1>6 DEF Inv, Agreement

(* The other steps move nothing that was accepted by the receiver.         *)
LEMMA QuietStep ==
  ASSUME Inv, GiveUp \/ Forget \/ (\E c \in 1 .. asked : PicoAccepts(c)) \/ UNCHANGED vars
  PROVE  Inv'
<1>1. /\ UNCHANGED <<asked, replies, answered, rDone>>
      /\ open' \in {0, open} /\ held' \in {0, held} /\ pDone' \subseteq rDone
  BY DEF GiveUp, Forget, PicoAccepts, vars, Inv, Agreement, Chain
<1>2. Types' /\ AnswersDiffer' /\ OpenIsFresh'
  BY <1>1 DEF Inv, Types, AnswersDiffer, OpenIsFresh
<1>3. Agreement'
  BY <1>1 DEF Inv, Agreement, Chain, Injective
<1> QED
  BY <1>2, <1>3 DEF Inv

(* Each side accepts only what the other did, once, in every behaviour of  *)
(* the abstract handshake, which LiFiLink is checked to implement.         *)
THEOREM HandshakeAgrees == Spec => []Agreement
<1>1. Init => Inv
  BY DEF Init, Inv, Types, AnswersDiffer, OpenIsFresh, Agreement, Chain, Injective
<1>2. Inv /\ [Next]_vars => Inv'
  BY AskStep, AnswerStep, ReceiverStep, QuietStep DEF Next
<1>3. Inv => Agreement
  BY DEF Inv
<1> QED
  BY <1>1, <1>2, <1>3, PTL DEF Spec
=============================================================================
