---------------------------- MODULE DashThreads -----------------------------
(***************************************************************************)
(* What the main loop, the frame reporter and the control server of        *)
(* dash_receiver.c share: the reporter's key and one-event mailbox         *)
(* (g_rep_mutex, g_rep_cond), and the force-key and baud mailboxes through *)
(* which the dashboard makes the main loop act. The status thread has a    *)
(* module of its own, StatusQueue.                                         *)
(*                                                                         *)
(* A critical section is one action, except the one that installs a key:   *)
(* the reporter reads the MAC key without the mutex and can run inside it. *)
(***************************************************************************)
EXTENDS Naturals

CONSTANTS
  Key,       \* session keys; a key stands for its id and its MAC key
  None,      \* no key, no request
  Torn,      \* what a read during the memcpy of a MAC key may return
  Baud,      \* rates that baud_is_sane accepts
  Insane,    \* a rate it refuses
  MaxInputs  \* bound: keys pressed, frames decrypted, requests received

ASSUME ThreadsAssumption ==
  /\ MaxInputs \in Nat
  /\ None \notin Key \cup Baud /\ Insane \notin Baud \cup {None} /\ Torn \notin Key

VARIABLES
  sKey,        \* s_key of main: [id, mac]
  installing,  \* main is inside the critical section that installs s_key
  repMac,      \* g_rep_mac_key, None until g_rep_key_valid
  currentId,   \* g_current_key_id_hex
  event,       \* g_rep_event: key id and number of the frame
  pending,     \* g_rep_pending
  frames,      \* frames decrypted
  reporterPc,  \* reporter_thread: "check", "asleep" or "post"
  taken,       \* its copy of the event
  posted,      \* history: the last report: [frame, mac]
  force,       \* the force-key mailbox
  asked,       \* history: the newest /force_key body not acted on
  pushed,      \* history: ids with MAC keys that /force_key bodies brought
  baudWanted,  \* the baud mailbox, None when empty
  baud,        \* g_current_baud
  copied,      \* challenge_handle between its critical sections: a MAC key
  inputs       \* inputs so far

mailboxes == <<force, asked, pushed, baudWanted>>
reporter  == <<event, pending, reporterPc, taken, posted, frames>>
keys      == <<sKey, installing, repMac, currentId>>
vars == <<keys, reporter, mailboxes, baud, copied, inputs>>

(* A bug the code avoids: any rate is let through.                         *)
AnyBaud(rate) == TRUE

BaudIsSane(rate) == rate \in Baud

Bundle(k) == [id |-> k, mac |-> k]

Input == inputs < MaxInputs /\ inputs' = inputs + 1

(* g_rep_mutex is free, and main is between two handlers.                  *)
Unlocked == ~installing

-----------------------------------------------------------------------------
(* Main loop                                                               *)

(* The key changes, then the mutex is taken and the reporter's copy with   *)
(* its id is replaced: case 'f' in its three forms, and a KEY_ID frame.    *)
Adopt(bundle) ==
  /\ sKey' = bundle
  /\ installing' = TRUE
  /\ UNCHANGED <<repMac, currentId>>

(* A bug the code avoids: the id stays that of the last decrypted frame.   *)
EventId == event.id

NewId == sKey.id

Install ==
  /\ installing
  /\ repMac' = sKey.mac
  /\ currentId' = NewId
  /\ installing' = FALSE
  /\ UNCHANGED <<sKey, reporter, mailboxes, baud, copied, inputs>>

(* 'f', or a KEY_ID frame with a key the list or Auth has.                 *)
AdoptLocally ==
  /\ Input
  /\ Unlocked
  /\ \E k \in Key : Adopt(Bundle(k))
  /\ UNCHANGED <<reporter, mailboxes, baud, copied>>

(* 'n': s_key alone changes; a list to rotate in came with a first key.    *)
Rotate ==
  /\ Input
  /\ Unlocked
  /\ sKey.id # None
  /\ \E k \in Key \ {sKey.id} : sKey' = Bundle(k)
  /\ UNCHANGED <<installing, repMac, currentId, reporter, mailboxes, baud, copied>>

(* "ACK": s_key takes the id of the pending key and keeps its MAC key.      *)
FinalizeUpdate ==
  /\ Input
  /\ Unlocked
  /\ sKey.id # None
  /\ \E k \in Key \ {sKey.id} : sKey' = [sKey EXCEPT !.id = k]
  /\ UNCHANGED <<installing, repMac, currentId, reporter, mailboxes, baud, copied>>

(* A bug the code avoids: the event is there and nobody is told.           *)
NoSignal == reporterPc

(* pthread_cond_signal                                                     *)
Signal == IF reporterPc = "asleep" THEN "check" ELSE reporterPc

(* reporter_signal, for a frame that decrypted under s_key: an event that  *)
(* nobody took yet is overwritten.                                         *)
Decrypt ==
  /\ Input
  /\ Unlocked
  /\ sKey.id # None
  /\ frames' = frames + 1
  /\ event' = [id |-> sKey.id, frame |-> frames']
  /\ pending' = TRUE
  /\ reporterPc' = Signal
  /\ UNCHANGED <<keys, taken, posted, mailboxes, baud, copied>>

(* Bugs the code avoids: a request that is never cleared, or not replaced  *)
(* as a whole.                                                             *)
Uncleared == force

Cleared == [force EXCEPT !.requested = FALSE]

(* An iteration without a key press first serves the force-key mailbox:    *)
(* material is adopted, a target is fetched by id or not found, a blind    *)
(* request fetches any key or fails.                                       *)
DrainForce ==
  /\ Unlocked
  /\ force.requested
  /\ force' = Cleared
  /\ asked' = None
  /\ \/ /\ force.hasMaterial
        /\ Adopt([id |-> force.target, mac |-> force.mac])
     \/ /\ ~force.hasMaterial
        /\ \/ UNCHANGED keys
           \/ \E k \in IF force.hasTarget THEN {force.target} ELSE Key : Adopt(Bundle(k))
  /\ UNCHANGED <<reporter, pushed, baudWanted, baud, copied, inputs>>

(* The baud mailbox waits while a force request is there.                  *)
DrainBaud ==
  /\ Unlocked
  /\ ~force.requested
  /\ baudWanted # None
  /\ baud' = IF BaudIsSane(baudWanted) THEN baudWanted ELSE baud
  /\ baudWanted' = None
  /\ UNCHANGED <<keys, reporter, force, asked, pushed, copied, inputs>>

-----------------------------------------------------------------------------
(* Reporter thread                                                         *)

Sleep ==
  /\ reporterPc = "check" /\ Unlocked
  /\ ~pending
  /\ reporterPc' = "asleep"
  /\ UNCHANGED <<keys, event, pending, taken, posted, frames, mailboxes, baud, copied, inputs>>

TakeEvent ==
  /\ reporterPc = "check" /\ Unlocked
  /\ pending
  /\ taken' = event
  /\ pending' = FALSE
  /\ reporterPc' = "post"
  /\ UNCHANGED <<keys, event, posted, frames, mailboxes, baud, copied, inputs>>

(* The key the unlocked signature may use.                                 *)
SigningMac == IF installing THEN {repMac, sKey.mac, Torn} ELSE {repMac}

(* reporter_thread after the mutex: nothing is posted without a key.       *)
PostEvent ==
  /\ reporterPc = "post"
  /\ reporterPc' = "check"
  /\ \E mac \in SigningMac :
       posted' = IF repMac = None THEN posted ELSE [frame |-> taken.frame, mac |-> mac]
  /\ UNCHANGED <<keys, event, pending, taken, frames, mailboxes, baud, copied, inputs>>

-----------------------------------------------------------------------------
(* Control server: one request at a time                                   *)

Serving == copied # None

Blind == [target |-> None, mac |-> None]

(* The bodies of /force_key: a blind fetch, a key id, an id with key       *)
(* material, which overlapping handlers of the dashboard may have mixed.   *)
Bodies == {Blind} \cup [target : Key, mac : Key \cup {None}]

HasMaterial(body) == body.mac # None

(* The bytes of what the body has are replaced, the others stay.           *)
TargetBytes(body) == IF body.target = None THEN force.target ELSE body.target

MacBytes(body) == IF HasMaterial(body) THEN body.mac ELSE force.mac

(* A bug the code avoids: flags that are only ever set.                    *)
MailedOverOld(body) ==
  [requested |-> TRUE,
   hasTarget |-> force.hasTarget \/ body.target # None,
   hasMaterial |-> force.hasMaterial \/ HasMaterial(body),
   target |-> TargetBytes(body),
   mac |-> MacBytes(body)]

(* handle_force_key_request                                                *)
Mailed(body) ==
  [requested |-> TRUE,
   hasTarget |-> body.target # None,
   hasMaterial |-> HasMaterial(body),
   target |-> TargetBytes(body),
   mac |-> MacBytes(body)]

ForceRequest ==
  /\ Input
  /\ ~Serving
  /\ \E body \in Bodies :
       /\ force' = Mailed(body) /\ asked' = body
       /\ pushed' = IF HasMaterial(body)
                      THEN pushed \cup {[id |-> body.target, mac |-> body.mac]}
                      ELSE pushed
  /\ UNCHANGED <<keys, reporter, baudWanted, baud, copied>>

(* handle_set_baud_request; an insane rate is answered 400.                *)
BaudRequest ==
  /\ Input
  /\ ~Serving
  /\ \E rate \in Baud \cup {Insane} :
       baudWanted' = IF BaudIsSane(rate) THEN rate ELSE baudWanted
  /\ UNCHANGED <<keys, reporter, force, asked, pushed, baud, copied>>

(* handle_status_request reads the id under the mutex and changes nothing. *)
StatusRequest ==
  /\ Input
  /\ ~Serving /\ Unlocked
  /\ UNCHANGED <<keys, reporter, mailboxes, baud, copied>>

(* challenge_handle, first critical section: the MAC key is copied; with   *)
(* no key the answer is 503.                                               *)
ChallengeRequest ==
  /\ Input
  /\ ~Serving /\ Unlocked
  /\ copied' = repMac
  /\ UNCHANGED <<keys, reporter, mailboxes, baud>>

(* Second critical section: the id that goes with the answer.              *)
ChallengeAnswer ==
  /\ Serving /\ Unlocked
  /\ copied' = None
  /\ UNCHANGED <<keys, reporter, mailboxes, baud, inputs>>

-----------------------------------------------------------------------------
(* The threads run before main has seeded the reporter with the first key. *)
Init ==
  /\ sKey \in {Bundle(k) : k \in Key \cup {None}}
  /\ installing = (sKey.id # None)
  /\ repMac = None /\ currentId = None
  /\ event = [id |-> None, frame |-> 0]
  /\ pending = FALSE
  /\ frames = 0
  /\ reporterPc = "check"
  /\ taken = event
  /\ posted = [frame |-> 0, mac |-> None]
  /\ force = [requested |-> FALSE, hasTarget |-> FALSE, hasMaterial |-> FALSE,
              target |-> None, mac |-> None]
  /\ asked = None /\ pushed = {}
  /\ baudWanted = None
  /\ baud = None
  /\ copied = None
  /\ inputs = 0

MainLoop == AdoptLocally \/ Rotate \/ FinalizeUpdate \/ Decrypt
Drain    == DrainForce \/ DrainBaud
Reporter == Sleep \/ TakeEvent \/ PostEvent
Server   == ForceRequest \/ BaudRequest \/ StatusRequest \/ ChallengeRequest

Next == MainLoop \/ Install \/ Drain \/ Reporter \/ Server \/ ChallengeAnswer

(* The threads are scheduled, and the main loop has iterations without a   *)
(* key press: it polls getch and the user stops typing.                    *)
Spec ==
  /\ Init /\ [][Next]_vars
  /\ WF_vars(Install) /\ WF_vars(Drain) /\ WF_vars(Reporter) /\ WF_vars(ChallengeAnswer)

-----------------------------------------------------------------------------
(* Properties                                                              *)

KeyOrNone == Key \cup {None}
Event == [id : KeyOrNone, frame : 0 .. frames]

TypeOK ==
  /\ sKey \in [id : KeyOrNone, mac : KeyOrNone]
  /\ installing \in BOOLEAN
  /\ repMac \in KeyOrNone /\ currentId \in KeyOrNone
  /\ event \in Event /\ taken \in Event
  /\ pending \in BOOLEAN
  /\ frames \in 0 .. MaxInputs
  /\ reporterPc \in {"check", "asleep", "post"}
  /\ posted \in [frame : 0 .. frames, mac : KeyOrNone \cup {Torn}]
  /\ force \in [requested : BOOLEAN, hasTarget : BOOLEAN, hasMaterial : BOOLEAN,
                target : KeyOrNone, mac : KeyOrNone]
  /\ asked \in Bodies \cup {None} /\ pushed \subseteq [id : Key, mac : Key]
  /\ baudWanted \in Baud \cup {None} /\ baud \in Baud \cup {None}
  /\ copied \in KeyOrNone
  /\ inputs \in 0 .. MaxInputs

(* dash_receiver.c, lines 407-411: g_current_key_id_hex is the id of       *)
(* whatever key g_rep_mac_key holds, whenever the mutex is free. The       *)
(* control channel may not name one key and authenticate with another: its *)
(* id and its MAC key are those of one key, or came in one /force_key body.*)
Together == {Bundle(k) : k \in Key \cup {None}} \cup pushed

IdNamesMac == Unlocked => [id |-> currentId, mac |-> repMac] \in Together

(* The main loop acts on the newest /force_key request as a whole: a       *)
(* request between two others, with or without key material, never leaves  *)
(* a flag or bytes behind that the next one is served with.                *)
ForceActsOnNewest ==
  [][DrainForce /\ asked.target # None =>
       IF HasMaterial(asked)
         THEN sKey' = [id |-> asked.target, mac |-> asked.mac]
         ELSE sKey' \in {sKey, Bundle(asked.target)}]_vars

(* What the dashboard asks for is done once, though one main-loop          *)
(* iteration serves at most one mailbox and a force request goes first.    *)
RequestsServed ==
  /\ force.requested ~> ~force.requested
  /\ baudWanted # None ~> baudWanted = None

(* Frames decrypted while the reporter is busy are merged into one report, *)
(* but the last one always gets out: no wake-up is lost and a new event    *)
(* is never marked as taken with the old one.                              *)
LastFrameReported ==
  \A n \in 1 .. MaxInputs : frames = n ~> posted.frame >= n
=============================================================================
