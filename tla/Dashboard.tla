----------------------------- MODULE Dashboard ------------------------------
(***************************************************************************)
(* The key handling of the dashboard: app.py, whose handlers run each in a *)
(* thread of its own and share module globals without a lock, the program  *)
(* pico_provisioner that a handler starts, and the Pi4 as far as the       *)
(* dashboard can tell: dash_receiver with its control port.  What happens  *)
(* inside dash_receiver is the subject of DashThreads.                     *)
(*                                                                         *)
(* A step of a handler ends where another thread can make a difference: at *)
(* a wait for the network, the program or the file, and between the reads  *)
(* and writes of globals that belong together.  Signatures of requests to  *)
(* the Pi4 are left out: dash_receiver does not look at them.              *)
(***************************************************************************)
EXTENDS Naturals

CONSTANTS
  MaxThreads, \* bound: handlers at work at once
  MaxKeys,   \* bound: session keys that Auth issues
  MaxInputs, \* bound: requests, frames, choices of the user and changes of the Pi4
  Retries,   \* status polls after a sync request: 5
  Window     \* ticks of silence that a proof survives: LIVENESS_WINDOW_S

ASSUME DashboardAssumption ==
  /\ MaxThreads \in Nat \ {0} /\ MaxKeys \in Nat \ {0} /\ MaxInputs \in Nat
  /\ Retries \in Nat \ {0} /\ Window \in Nat

(* Keys are numbered as Auth issues them.  A key stands for its id, its    *)
(* cipher key and its MAC key.                                             *)
Key == 1 .. MaxKeys
None == 0
MaybeKey == Key \cup {None}
Material == [id : MaybeKey, cipher : MaybeKey, mac : MaybeKey]
Thread == 1 .. MaxThreads
Whole(k) == [id |-> k, cipher |-> k, mac |-> k]

VARIABLES
  issued,     \* keys that Auth has issued
  file,       \* session_key.json, None when missing or just truncated
  loadedId,   \* _loaded_key_id; _loaded_cipher_key is set next to it
  macKey,     \* _mac_key
  verified,   \* _mac_key_verified
  provenId,   \* _mac_key_id
  age,        \* ticks since _last_valid_frame_time, up to Window + 1
  shownId,    \* _pi4_loaded_key_id
  wifiPeer,   \* RX2_PORT names the Pi4 and not a serial device
  feedOn,     \* rx_source is "wifi" or "both"
  job,        \* what each handler does
  monitor,    \* pi4_health_monitor: where it is, and the answer it holds
  pico,       \* the key in the Pico's slot
  up,         \* the Pi4 answers on its control port
  pi4,        \* the key material dash_receiver uses
  force,      \* its force-key mailbox
  event,      \* key of the frame that its reporter has yet to post
  optical,    \* history: keys under which a frame was decrypted
  claim,      \* history: what the last undisturbed key operation reported
  inputs      \* inputs so far

proof == <<verified, provenId, age>>
view == <<shownId, wifiPeer, feedOn>>
globals == <<file, loadedId, macKey, proof, view>>
devices == <<pico, up, pi4, force, event, optical>>
book == <<issued, claim, inputs>>
vars == <<globals, job, monitor, devices, book>>

Input == inputs < MaxInputs /\ inputs' = inputs + 1

Idle == [kind |-> "none", at |-> "idle", key |-> None, mac |-> None,
         signs |-> FALSE, tries |-> 0, alone |-> FALSE]

(* The mailbox when nothing was requested.                                 *)
NoForce == Whole(None)

NoClaim == [key |-> None, by |-> "none"]

(* A new handler takes the first free place: they are interchangeable.      *)
Free(t) == job[t] = Idle /\ \A s \in 1 .. t - 1 : job[s] # Idle

At(t, kind, at) == job[t].kind = kind /\ job[t].at = at

(* The handler moves on, or returns.                                       *)
Goto(t, at) == job' = [job EXCEPT ![t].at = at]
GotoWith(t, at, k) == job' = [job EXCEPT ![t].at = at, ![t].key = k]
Return(t) == job' = [job EXCEPT ![t] = Idle]

(* Something else touches keys: no operation in progress is alone.         *)
Disturbed(jobs) == [t \in Thread |-> [jobs[t] EXCEPT !.alone = FALSE]]

ChangesKeys(t) == job[t].kind \in {"provision", "reload", "challenge"}

Quiet == force = NoForce /\ \A t \in Thread : ~ChangesKeys(t)

StartKeyJob(t, kind, at, signs) ==
  /\ Free(t)
  /\ job' = [Disturbed(job) EXCEPT
               ![t] = [Idle EXCEPT !.kind = kind, !.at = at, !.signs = signs,
                                   !.alone = Quiet]]
  /\ claim' = NoClaim

(* An operation that was alone from its start reports.                     *)
Claim(t, by) == IF job[t].alone THEN [key |-> macKey, by |-> by] ELSE claim

(* The dashboard starts with the key of an earlier session or without one; *)
(* the Pico has that key, the Pi4 has it or none yet.                      *)
Init ==
  /\ file \in {None, 1} /\ issued = file
  /\ loadedId = file /\ macKey = file
  /\ pico = file
  /\ pi4 \in {Whole(None), Whole(file)} /\ up = TRUE
  /\ force = NoForce /\ event = None /\ optical = {}
  /\ verified = FALSE /\ provenId = None /\ age = Window + 1
  /\ shownId = None /\ wifiPeer = FALSE /\ feedOn = FALSE
  /\ job = [t \in Thread |-> Idle]
  /\ monitor = [at |-> "poll", id |-> None]
  /\ claim = NoClaim /\ inputs = 0

-----------------------------------------------------------------------------
(* provision_new_key and the program it runs                               *)

ProvisionStart(t) ==
  /\ Input
  /\ StartKeyJob(t, "provision", "fetch", macKey # None)
  /\ UNCHANGED <<globals, monitor, devices, issued>>

Fetch(t) ==
  /\ At(t, "provision", "fetch")
  /\ issued < MaxKeys
  /\ issued' = issued + 1
  /\ GotoWith(t, "open", issued')
  /\ UNCHANGED <<globals, monitor, devices, claim, inputs>>

(* fopen "w" empties the file; the text reaches it with fclose.  When the  *)
(* file cannot be opened, a warning is all.                                *)
OpenFile(t) ==
  /\ At(t, "provision", "open")
  /\ \/ file' = None /\ Goto(t, "write")
     \/ file' = file /\ Goto(t, "push")
  /\ UNCHANGED <<loadedId, macKey, proof, view, monitor, devices, book>>

WriteFile(t) ==
  /\ At(t, "provision", "write")
  /\ file' = job[t].key
  /\ Goto(t, "push")
  /\ UNCHANGED <<loadedId, macKey, proof, view, monitor, devices, book>>

(* The push to the Pico is best effort: it is skipped, it gets lost, or    *)
(* the Pico takes the key.                                                 *)
PushToPico(t) ==
  /\ At(t, "provision", "push")
  /\ pico' \in {pico, job[t].key}
  /\ Goto(t, "load")
  /\ UNCHANGED <<globals, monitor, up, pi4, force, event, optical, book>>

(* Auth refuses, or 15 s pass and the program is killed where it stands.   *)
ProvisionerFails(t) ==
  /\ job[t].kind = "provision"
  /\ job[t].at \in {"fetch", "open", "write", "push"}
  /\ Return(t)
  /\ UNCHANGED <<globals, monitor, devices, book>>

-----------------------------------------------------------------------------
(* _load_mac_key and the assignments that follow it                        *)

ReloadStart(t) ==
  /\ Input
  /\ StartKeyJob(t, "reload", "load", FALSE)
  /\ UNCHANGED <<globals, monitor, devices, issued>>

Load(t) ==
  /\ job[t].at = "load"
  /\ loadedId' = file
  /\ GotoWith(t, "assign", file)
  /\ UNCHANGED <<file, macKey, proof, view, monitor, devices, book>>

AssignMacKey(t) ==
  /\ job[t].at = "assign"
  /\ macKey' = job[t].key
  /\ Goto(t, "unprove")
  /\ UNCHANGED <<file, loadedId, proof, view, monitor, devices, book>>

(* _set_mac_key_verified(False).  A reload ends here; a provisioning tells *)
(* the Pi4, and evaluates the id to tell it first.                         *)
Unprove(t) ==
  /\ job[t].at = "unprove"
  /\ verified' = FALSE /\ provenId' = None
  /\ IF job[t].kind = "reload" THEN Return(t) ELSE GotoWith(t, "body", loadedId)
  /\ claim' = Claim(t, "load")
  /\ UNCHANGED <<file, loadedId, macKey, age, view, monitor, devices, issued, inputs>>

-----------------------------------------------------------------------------
(* _force_pi4_key_refresh                                                  *)

Body(t) == [id |-> job[t].key, cipher |-> loadedId, mac |-> macKey]

CanForce(t) == job[t].signs /\ None \notin {job[t].key, macKey, loadedId}

(* The Pi4 queues the body in its mailbox, over what was there, and says   *)
(* 202.                                                                    *)
ForceAccepted(t) ==
  /\ job[t].at = "body"
  /\ CanForce(t)
  /\ up
  /\ force' = Body(t)
  /\ \/ /\ job[t].kind = "provision"
        /\ claim' = Claim(t, "push")
        /\ Return(t)
     \/ /\ job[t].kind = "challenge"
        /\ claim' = claim
        /\ Goto(t, "poll")
  /\ UNCHANGED <<globals, monitor, pico, up, pi4, event, optical, issued, inputs>>

(* The request could not be made or got lost, or its reply did after the   *)
(* body was queued: the handler cannot tell, says so and returns.          *)
ForceFails(t) ==
  /\ job[t].at = "body"
  /\ \/ force' = force
     \/ CanForce(t) /\ up /\ force' = Body(t)
  /\ Return(t)
  /\ UNCHANGED <<globals, monitor, pico, up, pi4, event, optical, book>>

-----------------------------------------------------------------------------
(* challenge_pi4                                                           *)

(* What a query of /status brings back.                                    *)
Status == IF up /\ macKey # None THEN pi4.id ELSE None

ChallengeStart(t) ==
  /\ Input
  /\ macKey # None /\ loadedId # None
  /\ StartKeyJob(t, "challenge", "query", TRUE)
  /\ UNCHANGED <<globals, monitor, devices, issued>>

ChallengeStatus(t) ==
  /\ \/ At(t, "challenge", "query") /\ GotoWith(t, "decide", Status)
     \/ At(t, "challenge", "poll") /\ GotoWith(t, "again", Status)
  /\ UNCHANGED <<globals, monitor, devices, book>>

(* The same id: no sync is needed.  Otherwise push our key.                *)
ChallengeDecide(t) ==
  /\ At(t, "challenge", "decide")
  /\ IF job[t].key = loadedId
       THEN Goto(t, "send")
       ELSE job' = [job EXCEPT ![t].at = "body", ![t].key = loadedId,
                               ![t].signs = macKey # None]
  /\ UNCHANGED <<globals, monitor, devices, book>>

(* A bug the code avoids: the poll goes on until the Pi4 converges.        *)
PollsForever(t) == TRUE

PollsAgain(t) == job[t].tries + 1 < Retries

ChallengeAgain(t) ==
  /\ At(t, "challenge", "again")
  /\ \/ /\ job[t].key = loadedId
        /\ shownId' = loadedId
        /\ Goto(t, "send")
     \/ /\ job[t].key # loadedId
        /\ shownId' = shownId
        /\ IF PollsAgain(t)
             THEN job' = [job EXCEPT ![t].at = "poll", ![t].tries = @ + 1]
             ELSE Return(t)
  /\ UNCHANGED <<file, loadedId, macKey, proof, wifiPeer, feedOn, monitor, devices, book>>

(* The Pi4 answers a fresh nonce with the HMAC under its MAC key.  Without *)
(* a key it answers 503, and an error ends the handler.                    *)
ChallengeSend(t) ==
  /\ At(t, "challenge", "send")
  /\ IF up /\ pi4.mac # None /\ macKey # None
       THEN job' = [job EXCEPT ![t].at = "compare", ![t].key = pi4.id, ![t].mac = pi4.mac]
       ELSE Return(t)
  /\ UNCHANGED <<globals, monitor, devices, book>>

(* A bug the code avoids: the id the Pi4 sends is compared, not the HMAC.  *)
AnswersWithId(t) == job[t].key = loadedId

AnswerHolds(t) == job[t].mac = macKey

ChallengeCompare(t) ==
  /\ At(t, "challenge", "compare")
  /\ IF AnswerHolds(t)
       THEN /\ shownId' = job[t].key
            /\ claim' = Claim(t, "challenge")
       ELSE UNCHANGED <<shownId, claim>>
  /\ Return(t)
  /\ UNCHANGED <<file, loadedId, macKey, proof, wifiPeer, feedOn, monitor, devices, issued, inputs>>

-----------------------------------------------------------------------------
(* /pi4_frame and /pi4_status                                              *)

(* The reporter of the Pi4 signs with the MAC key it has when it posts.    *)
FrameArrives(t) ==
  /\ Free(t)
  /\ event # None /\ up /\ pi4.mac # None
  /\ event' = None
  /\ job' = [job EXCEPT ![t] = [Idle EXCEPT !.kind = "frame", !.at = "check",
                                            !.key = event, !.mac = pi4.mac]]
  /\ UNCHANGED <<globals, monitor, pico, up, pi4, force, optical, book>>

FrameCheck(t) ==
  /\ At(t, "frame", "check")
  /\ IF macKey \in {None, job[t].mac} THEN Goto(t, "key") ELSE Return(t)
  /\ UNCHANGED <<globals, monitor, devices, book>>

(* The second "if _mac_key" and the time of the frame ...                  *)
FrameTime(t) ==
  /\ At(t, "frame", "key")
  /\ IF macKey # None
       THEN age' = 0 /\ Goto(t, "prove")
       ELSE age' = age /\ Goto(t, "feed")
  /\ UNCHANGED <<file, loadedId, macKey, verified, provenId, view, monitor, devices, book>>

(* ... and _set_mac_key_verified(True, id).                                *)
FrameProve(t) ==
  /\ At(t, "frame", "prove")
  /\ verified' = TRUE /\ provenId' = job[t].key
  /\ Goto(t, "feed")
  /\ UNCHANGED <<file, loadedId, macKey, age, view, monitor, devices, book>>

(* rx_source is assigned in this function and not declared global, so that *)
(* reading it raises: the handler ends here, whatever the source.          *)
FrameFeed(t) ==
  /\ At(t, "frame", "feed")
  /\ Return(t)
  /\ UNCHANGED <<globals, monitor, devices, book>>

SetRxSource ==
  /\ Input
  /\ feedOn' = ~feedOn
  /\ UNCHANGED <<file, loadedId, macKey, proof, shownId, wifiPeer, job, monitor, devices, issued, claim>>

(* The Pi4 tells which key it has; a signature that fails is only logged.  *)
StatusArrives ==
  /\ Input
  /\ up /\ pi4.id # None
  /\ shownId' = pi4.id
  /\ UNCHANGED <<file, loadedId, macKey, proof, wifiPeer, feedOn, job, monitor, devices, issued, claim>>

-----------------------------------------------------------------------------
(* pi4_health_monitor, the choice of a port, and time                      *)

(* Bugs the code avoids: what is shown stays; a proof decays only when the *)
(* Pi4 is out of reach.                                                    *)
AnswerOnce == IF shownId = None THEN monitor.id ELSE shownId
StaleOutOfReach == verified /\ age > Window /\ ~up

Answer == monitor.id
Stale == verified /\ age > Window

MonitorGoto(at, k) == monitor' = [at |-> at, id |-> k]

MonitorPoll ==
  /\ monitor.at = "poll" /\ wifiPeer
  /\ IF up THEN MonitorGoto("show", Status) ELSE MonitorGoto("age", None)
  /\ UNCHANGED <<globals, job, devices, book>>

MonitorShow ==
  /\ monitor.at = "show"
  /\ shownId' = Answer
  /\ MonitorGoto("age", None)
  /\ UNCHANGED <<file, loadedId, macKey, proof, wifiPeer, feedOn, job, devices, book>>

MonitorAge ==
  /\ monitor.at = "age"
  /\ MonitorGoto(IF Stale THEN "decay" ELSE "poll", None)
  /\ UNCHANGED <<globals, job, devices, book>>

MonitorDecay ==
  /\ monitor.at = "decay"
  /\ verified' = FALSE /\ provenId' = None
  /\ MonitorGoto("poll", None)
  /\ UNCHANGED <<file, loadedId, macKey, age, view, job, devices, book>>

(* With the WiFi peer the status is queried right away.                    *)
ConnectRx2 ==
  /\ wifiPeer' = ~wifiPeer
  /\ shownId' = IF wifiPeer' /\ up THEN Status ELSE shownId
  /\ UNCHANGED <<file, loadedId, macKey, proof, feedOn, job, monitor, devices, book>>

Tick ==
  /\ age <= Window
  /\ age' = age + 1
  /\ UNCHANGED <<file, loadedId, macKey, verified, provenId, view, job, monitor, devices, book>>

-----------------------------------------------------------------------------
(* The Pi4                                                                 *)

(* It comes within reach with what it had, or restarted with nothing.      *)
Reach ==
  /\ Input
  /\ up' = ~up
  /\ \/ UNCHANGED <<job, pi4, force, event, claim>>
     \/ /\ up'
        /\ pi4' = Whole(None) /\ force' = NoForce /\ event' = None
        /\ job' = Disturbed(job) /\ claim' = NoClaim
  /\ UNCHANGED <<globals, monitor, pico, optical, issued>>

AdoptForced ==
  /\ force # NoForce
  /\ pi4' = force
  /\ force' = NoForce
  /\ UNCHANGED <<globals, job, monitor, pico, up, event, optical, book>>

(* 'f' or 'n' at the Pi4, or a KEY_ID frame of a key it can get.           *)
AdoptOther ==
  /\ Input
  /\ \/ issued < MaxKeys /\ issued' = issued + 1 /\ pi4' = Whole(issued')
     \/ pico # None /\ pi4' = Whole(pico) /\ issued' = issued
  /\ job' = Disturbed(job)
  /\ claim' = NoClaim
  /\ UNCHANGED <<globals, monitor, pico, up, force, event, optical>>

(* The Pico sends a message; the Pi4 decrypts it if it has the cipher key. *)
LightFrame ==
  /\ Input
  /\ pico # None /\ pi4.cipher = pico
  /\ event' = pi4.id
  /\ optical' = optical \cup {pico}
  /\ UNCHANGED <<globals, job, monitor, pico, up, pi4, force, issued, claim>>

-----------------------------------------------------------------------------
Handler(t) ==
  \/ Fetch(t) \/ OpenFile(t) \/ WriteFile(t) \/ PushToPico(t) \/ ProvisionerFails(t)
  \/ Load(t) \/ AssignMacKey(t) \/ Unprove(t)
  \/ ForceAccepted(t) \/ ForceFails(t)
  \/ ChallengeStatus(t) \/ ChallengeDecide(t) \/ ChallengeAgain(t)
  \/ ChallengeSend(t) \/ ChallengeCompare(t)
  \/ FrameCheck(t) \/ FrameTime(t) \/ FrameProve(t) \/ FrameFeed(t)

Start(t) == ProvisionStart(t) \/ ReloadStart(t) \/ ChallengeStart(t) \/ FrameArrives(t)

Monitor == MonitorPoll \/ MonitorShow \/ MonitorAge \/ MonitorDecay

Next ==
  \/ \E t \in Thread : Start(t) \/ Handler(t)
  \/ Monitor \/ Tick \/ ConnectRx2 \/ SetRxSource \/ StatusArrives
  \/ Reach \/ AdoptForced \/ AdoptOther \/ LightFrame

(* Threads are scheduled, the monitor loops, and time passes.              *)
Spec ==
  /\ Init /\ [][Next]_vars
  /\ \A t \in Thread : WF_vars(Handler(t))
  /\ WF_vars(Monitor) /\ WF_vars(Tick)

-----------------------------------------------------------------------------
(* Properties                                                              *)

(* Every global holds a value its readers expect, and a sync polls at most *)
(* as often as it says (challenge_pi4).                                    *)
TypeOK ==
  /\ issued \in MaybeKey
  /\ {file, loadedId, macKey, provenId, shownId, pico, event} \subseteq MaybeKey
  /\ verified \in BOOLEAN /\ age \in 0 .. Window + 1
  /\ {wifiPeer, feedOn} \subseteq BOOLEAN
  /\ up \in BOOLEAN /\ {pi4, force} \subseteq Material /\ optical \subseteq Key
  /\ \A t \in Thread :
        /\ job[t].key \in MaybeKey /\ job[t].mac \in MaybeKey
        /\ job[t].tries \in 0 .. Retries - 1
  /\ monitor.id \in MaybeKey
  /\ claim.key \in MaybeKey

(* A provisioning or reload that no other key operation disturbed leaves   *)
(* the dashboard on one key; when the push was accepted, the Pi4 has the   *)
(* whole key as soon as its mailbox is drained; and a challenge that       *)
(* verified leaves the Pi4 on the id and the MAC key of the dashboard.     *)
(* What overlapping operations, timeouts, lost requests and restarts left  *)
(* behind before does not matter.                                          *)
AgreedAsReported ==
  /\ claim.by \in {"load", "push"} => {macKey, loadedId} = {claim.key}
  /\ claim.by = "push" =>
        IF force = NoForce THEN pi4 = Whole(claim.key) ELSE force = Whole(claim.key)
  /\ claim.by = "challenge" /\ force = NoForce => pi4.mac = macKey /\ pi4.id = loadedId

(* "Continuous-authentication decay": with the WiFi peer as RX2 port and   *)
(* no more frames, the proof does not last.                                *)
ProofDecays ==
  <>[](wifiPeer /\ \A t \in Thread : job[t].kind # "frame") => <>[]~verified

(* The status poll "self-corrects": what the dashboard shows as the key of *)
(* the Pi4 becomes, and stays, the key it has.                             *)
ShownIdSettles ==
  \A k \in Key :
    <>[](/\ wifiPeer /\ up /\ macKey # None /\ pi4.id = k
         /\ \A t \in Thread : job[t] = Idle)
      => <>[](shownId = k)

(* "it only flips True once the Pico has actually proven, optically, that  *)
(* it's transmitting with this key" (app.py:29): the flag is up only for a *)
(* key under which the Pi4 decrypted a frame.  Handlers between the swap   *)
(* of the key and the reset of the flag are let off.                       *)
VerifiedKeyWasProven ==
  verified /\ (\A t \in Thread : job[t].at # "unprove") => macKey \in optical
=============================================================================
