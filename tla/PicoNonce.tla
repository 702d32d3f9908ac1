------------------------------ MODULE PicoNonce ------------------------------
(***************************************************************************)
(* The GCM nonce generator of the sender Pico (src/pico_handler.c): a      *)
(* random 64-bit salt drawn at boot and at every key change, followed by a *)
(* 32-bit message counter.                                                 *)
(*                                                                         *)
(* bootSalt is the ordinal of the CTR-DRBG draw that produced              *)
(* g_boot_salt: two draws are taken to differ (a 64-bit random collision   *)
(* is outside the model), so a fresh salt is the next ordinal.             *)
(***************************************************************************)
EXTENDS Naturals

CONSTANTS
  CounterLimit,  \* 2^32 in the code: g_msg_counter is a uint32_t
  MaxSalts       \* bound: salt draws in one behaviour

ASSUME NonceAssumption ==
  /\ CounterLimit \in Nat \ {0}
  /\ MaxSalts \in Nat \ {0}

VARIABLES bootSalt, msgCounter

(* A bug the code avoids: the counter starts again under the old salt.     *)
NonceInitWithoutSalt ==
  /\ bootSalt < MaxSalts
  /\ msgCounter' = 0
  /\ UNCHANGED bootSalt

(* pico_nonce_init, also called by pico_nonce_on_key_change.               *)
NonceInit ==
  /\ bootSalt < MaxSalts
  /\ bootSalt' = bootSalt + 1
  /\ msgCounter' = 0

(* A bug uint32_t avoids: the counter goes past its width.                 *)
WideCounter == msgCounter + 1

(* g_msg_counter++ modulo its width, before the wrap test.                 *)
NextCounter == (msgCounter + 1) % CounterLimit

(* pico_nonce_generate reboots instead of returning when this holds.       *)
CounterWraps == NextCounter = 0

(* pico_nonce_generate: the nonce it returns, and the counter it leaves.   *)
Nonce(key) == [key |-> key, salt |-> bootSalt, ctr |-> msgCounter]

NonceAdvance ==
  /\ ~CounterWraps
  /\ msgCounter' = NextCounter
  /\ UNCHANGED bootSalt
=============================================================================
