-------------------------- MODULE DashboardProofs ---------------------------
(***************************************************************************)
(* For any number of threads, keys, inputs and polls: every global has its *)
(* type, and what an undisturbed key operation of the dashboard reported   *)
(* is so.                                                                  *)
(*                                                                         *)
(* The invariant follows the one operation that is alone: how far it got   *)
(* says what the globals and the mailbox of the Pi4 hold (Progress), and   *)
(* no other handler is in a place where it could change them (Undisturbed).*)
(* What was reported holds until the next operation begins (ClaimHolds).   *)
(***************************************************************************)
EXTENDS Dashboard, TLAPS

Jobs ==
  [kind : {"none", "provision", "reload", "challenge", "frame"},
   at : {"idle", "fetch", "open", "write", "push", "load", "assign", "unprove", "body", "query",
         "decide", "send", "poll", "again", "compare", "check", "key", "prove", "feed"},
   key : MaybeKey, mac : MaybeKey, signs : BOOLEAN, tries : 0 .. Retries - 1, alone : BOOLEAN]

Places(kind) ==
  CASE kind = "none" -> {"idle"}
    [] kind = "provision" -> {"fetch", "open", "write", "push", "load", "assign", "unprove", "body"}
    [] kind = "reload" -> {"load", "assign", "unprove"}
    [] kind = "challenge" -> {"query", "decide", "body", "poll", "again", "send", "compare"}
    [] kind = "frame" -> {"check", "key", "prove", "feed"}

JobsOK ==
  /\ job \in [Thread -> Jobs]
  /\ \A t \in Thread : job[t].at \in Places(job[t].kind)

GlobalsOK ==
  /\ issued \in MaybeKey /\ file \in MaybeKey /\ loadedId \in MaybeKey /\ macKey \in MaybeKey
  /\ provenId \in MaybeKey /\ shownId \in MaybeKey
  /\ verified \in BOOLEAN /\ age \in 0 .. Window + 1
  /\ wifiPeer \in BOOLEAN /\ feedOn \in BOOLEAN /\ monitor.id \in MaybeKey
  /\ claim \in [key : MaybeKey, by : {"none", "load", "push", "challenge"}]

DevicesOK ==
  /\ pico \in MaybeKey /\ event \in MaybeKey /\ up \in BOOLEAN
  /\ pi4 \in Material /\ force \in Material /\ optical \subseteq Key

(* A handler that is alone is the only one that touches keys; once it has  *)
(* reported, it has only a push left to do.                                *)
Undisturbed ==
  /\ \A t \in Thread :
       job[t].alone => ChangesKeys(t) /\ \A s \in Thread : ChangesKeys(s) => s = t
  /\ claim.by # "none" =>
       \A t \in Thread :
         ChangesKeys(t) => job[t].alone /\ At(t, "provision", "body") /\ claim.by = "load"

(* What the push of this moment brings to the Pi4.                         *)
Pushed == [id |-> loadedId, cipher |-> loadedId, mac |-> macKey]

Progress(t) ==
  /\ job[t].at \in {"fetch", "open", "write", "push", "load", "assign", "unprove", "query", "decide",
                    "body"} => force = NoForce
  /\ job[t].at \in {"assign", "unprove", "body"} => loadedId = job[t].key
  /\ job[t].at = "unprove" => macKey = job[t].key
  /\ At(t, "provision", "body") => macKey = loadedId
  /\ job[t].kind = "challenge" => loadedId # None /\ macKey # None
  /\ job[t].at = "decide" /\ job[t].key = loadedId => pi4.id = loadedId
  /\ job[t].at \in {"poll", "again"} =>
       IF force = NoForce THEN pi4 = Pushed ELSE force = Pushed
  /\ job[t].at \in {"send", "compare"} =>
       IF force = NoForce THEN pi4.id = loadedId ELSE force = Pushed
  /\ job[t].at = "compare" /\ force = NoForce => pi4 = Pushed \/ pi4.mac = job[t].mac

ClaimHolds ==
  /\ claim.by \in {"load", "push"} => macKey = claim.key /\ loadedId = claim.key
  /\ claim.by = "push" =>
       IF force = NoForce THEN pi4 = Whole(claim.key) ELSE force = Whole(claim.key)
  /\ claim.by = "challenge" =>
       IF force = NoForce THEN pi4.mac = macKey /\ pi4.id = loadedId
                          ELSE force.mac = macKey /\ force.id = loadedId

DashboardInv ==
  /\ JobsOK /\ GlobalsOK /\ DevicesOK /\ Undisturbed /\ ClaimHolds
  /\ \A t \in Thread : job[t].alone => Progress(t)

core == <<loadedId, macKey, pi4, force, claim>>

-----------------------------------------------------------------------------
LEMMA Constants ==
  /\ MaxThreads \in Nat /\ MaxKeys \in Nat /\ MaxKeys > 0 /\ Retries \in Nat /\ Retries > 0
  /\ Window \in Nat /\ None \in MaybeKey /\ 1 \in Key /\ Key \subseteq MaybeKey
  /\ None \notin Key /\ \A k \in MaybeKey : Whole(k) \in Material
BY DashboardAssumption DEF MaybeKey, Key, None, Whole, Material

LEMMA IdleJob ==
  /\ Idle \in Jobs /\ Idle.at \in Places(Idle.kind) /\ ~Idle.alone /\ Idle.kind = "none"
  /\ Idle.at = "idle"
BY Constants DEF Idle, Jobs, Places

(* A handler is where the code of its kind can be.                         *)
LEMMA Whereabouts ==
  ASSUME JobsOK, NEW t \in Thread
  PROVE  /\ job[t] \in Jobs
         /\ job[t].kind \in {"none", "provision", "reload", "challenge", "frame"}
         /\ job[t].kind = "none" => job[t].at = "idle"
         /\ job[t].kind = "provision" =>
              job[t].at \in {"fetch", "open", "write", "push", "load", "assign", "unprove", "body"}
         /\ job[t].kind = "reload" => job[t].at \in {"load", "assign", "unprove"}
         /\ job[t].kind = "challenge" =>
              job[t].at \in {"query", "decide", "body", "poll", "again", "send", "compare"}
         /\ job[t].kind = "frame" => job[t].at \in {"check", "key", "prove", "feed"}
<1>1. job[t] \in Jobs /\ job[t].at \in Places(job[t].kind)
  BY DEF JobsOK
<1> QED
  BY <1>1 DEF Jobs, Places

LEMMA GotoStep ==
  ASSUME JobsOK, NEW t \in Thread, NEW at, NEW k \in MaybeKey,
         at \in Places(job[t].kind) /\ job[t].kind # "none",
         \/ Goto(t, at) /\ k = job[t].key
         \/ GotoWith(t, at, k)
  PROVE  /\ JobsOK'
         /\ \A s \in Thread \ {t} : job'[s] = job[s]
         /\ job'[t].at = at /\ job'[t].key = k /\ job'[t].kind = job[t].kind
         /\ job'[t].mac = job[t].mac /\ job'[t].signs = job[t].signs
         /\ job'[t].tries = job[t].tries /\ job'[t].alone = job[t].alone
<1>1. job \in [Thread -> Jobs] /\ job[t] \in Jobs
  BY DEF JobsOK
<1>2. job' = [job EXCEPT ![t] = [job[t] EXCEPT !.at = at, !.key = k]]
  BY <1>1 DEF Goto, GotoWith, Jobs
<1>3. at \in {"idle", "fetch", "open", "write", "push", "load", "assign", "unprove", "body", "query",
         "decide", "send", "poll", "again", "compare", "check", "key", "prove", "feed"}
  BY <1>1 DEF Places, Jobs
<1>4. [job[t] EXCEPT !.at = at, !.key = k] \in Jobs
  BY <1>1, <1>3 DEF Jobs
<1> QED
  BY <1>1, <1>2, <1>4 DEF JobsOK, Jobs

LEMMA ReturnStep ==
  ASSUME JobsOK, NEW t \in Thread, Return(t)
  PROVE  /\ JobsOK'
         /\ \A s \in Thread \ {t} : job'[s] = job[s]
         /\ job'[t] = Idle /\ ~job'[t].alone /\ ~ChangesKeys(t)'
<1>1. job \in [Thread -> Jobs] /\ job' = [job EXCEPT ![t] = Idle]
  BY DEF JobsOK, Return
<1> QED
  BY <1>1, IdleJob DEF JobsOK, ChangesKeys

-----------------------------------------------------------------------------
(* Which parts of the invariant a step can disturb.                        *)

(* No handler moves, and no key does.                                      *)
LEMMA NoHandlerMoves ==
  ASSUME DashboardInv, UNCHANGED <<job, core>>, GlobalsOK', DevicesOK'
  PROVE  DashboardInv'
<1>1. JobsOK' /\ Undisturbed' /\ ClaimHolds'
  BY DEF DashboardInv, core, JobsOK, Undisturbed, ClaimHolds, ChangesKeys, At
<1>2. \A t \in Thread : job'[t].alone => Progress(t)'
  BY DEF DashboardInv, core, Progress, Pushed, At
<1> QED
  BY <1>1, <1>2 DEF DashboardInv

(* A handler moves that touches no key.                                    *)
LEMMA FrameStep ==
  ASSUME DashboardInv, UNCHANGED core, JobsOK', GlobalsOK', DevicesOK', NEW t \in Thread,
         \A s \in Thread \ {t} : job'[s] = job[s],
         ~ChangesKeys(t)', ~job'[t].alone
  PROVE  DashboardInv'
<1>1. \A s \in Thread : s = t \/ (job'[s] = job[s] /\ (ChangesKeys(s)' <=> ChangesKeys(s)))
  BY DEF ChangesKeys
<1>2. Undisturbed'
  BY <1>1 DEF DashboardInv, core, Undisturbed, At
<1>3. ClaimHolds'
  BY DEF DashboardInv, core, ClaimHolds
<1>4. \A s \in Thread : job'[s].alone => Progress(s)'
  BY <1>1 DEF DashboardInv, core, Progress, Pushed, At
<1> QED
  BY <1>2, <1>3, <1>4 DEF DashboardInv

(* A handler moves that touches keys: all others stand still.              *)
LEMMA KeyStep ==
  ASSUME DashboardInv, JobsOK', GlobalsOK', DevicesOK', ClaimHolds', NEW t \in Thread,
         ChangesKeys(t), \A s \in Thread \ {t} : job'[s] = job[s],
         job'[t].alone => job[t].alone /\ ChangesKeys(t)' /\ Progress(t)',
         claim' = claim \/ job[t].alone,
         claim'.by # "none" /\ ChangesKeys(t)' =>
           job'[t].alone /\ At(t, "provision", "body")' /\ claim'.by = "load"
  PROVE  DashboardInv'
<1>1. \A s \in Thread : s = t \/ (job'[s] = job[s] /\ (ChangesKeys(s)' <=> ChangesKeys(s)))
  BY DEF ChangesKeys
<1>2. \A s \in Thread \ {t} : ~job[s].alone
  BY DEF DashboardInv, Undisturbed
<1>3. \A s \in Thread : job'[s].alone => s = t
  BY <1>1, <1>2
<1>4. claim'.by # "none" => job[t].alone
  BY DEF DashboardInv, Undisturbed
<1>5. job[t].alone => \A s \in Thread : ChangesKeys(s) => s = t
  BY DEF DashboardInv, Undisturbed
<1>6. Undisturbed'
  BY <1>1, <1>3, <1>4, <1>5 DEF Undisturbed
<1>7. \A s \in Thread : job'[s].alone => Progress(s)'
  BY <1>3
<1> QED
  BY <1>6, <1>7 DEF DashboardInv

(* Nothing is alone any more.                                              *)
LEMMA DisturbingStep ==
  ASSUME JobsOK', GlobalsOK', DevicesOK', claim' = NoClaim, \A t \in Thread : ~job'[t].alone
  PROVE  DashboardInv'
BY DEF DashboardInv, Undisturbed, ClaimHolds, NoClaim

LEMMA DisturbedJobs ==
  ASSUME JobsOK
  PROVE  /\ Disturbed(job) \in [Thread -> Jobs]
         /\ \A t \in Thread : /\ ~Disturbed(job)[t].alone
                              /\ Disturbed(job)[t].kind = job[t].kind
                              /\ Disturbed(job)[t].at = job[t].at
                              /\ Disturbed(job)[t].at \in Places(Disturbed(job)[t].kind)
BY DEF JobsOK, Disturbed, Jobs

LEMMA StartStep ==
  ASSUME DashboardInv, NEW t \in Thread, NEW kind, NEW at, NEW signs \in BOOLEAN,
         kind \in {"provision", "reload", "challenge"}, at \in {"fetch", "load", "query"},
         at \in Places(kind), StartKeyJob(t, kind, at, signs),
         kind = "challenge" => macKey # None /\ loadedId # None,
         UNCHANGED <<loadedId, macKey, pi4, force>>, GlobalsOK', DevicesOK'
  PROVE  DashboardInv'
<1> DEFINE new == [Idle EXCEPT !.kind = kind, !.at = at, !.signs = signs, !.alone = Quiet]
<1>1. /\ job' = [Disturbed(job) EXCEPT ![t] = new] /\ claim' = NoClaim /\ job[t] = Idle
  BY DEF StartKeyJob, Free
<1>2. /\ Disturbed(job) \in [Thread -> Jobs]
      /\ \A s \in Thread : /\ ~Disturbed(job)[s].alone
                           /\ Disturbed(job)[s].kind = job[s].kind
                           /\ Disturbed(job)[s].at = job[s].at
                           /\ Disturbed(job)[s].at \in Places(Disturbed(job)[s].kind)
  BY DisturbedJobs DEF DashboardInv
<1>3. Quiet \in BOOLEAN
  BY DEF Quiet
<1>4. Idle \in Jobs
  BY IdleJob
<1>5. new \in Jobs /\ new.kind = kind /\ new.at = at /\ new.alone = Quiet
  BY <1>3, <1>4 DEF Jobs
<1> HIDE DEF new
<1>6. /\ job' \in [Thread -> Jobs] /\ job'[t] = new
      /\ \A s \in Thread \ {t} : job'[s] = Disturbed(job)[s]
  BY <1>1, <1>2, <1>5
<1>7. JobsOK'
  BY <1>2, <1>5, <1>6 DEF JobsOK
<1>8. ASSUME Quiet
      PROVE  /\ force = NoForce /\ \A s \in Thread \ {t} : ~ChangesKeys(s)'
             /\ ChangesKeys(t)'
  BY <1>2, <1>5, <1>6, <1>8 DEF Quiet, ChangesKeys
<1>9. \A s \in Thread : job'[s].alone => s = t /\ Quiet
  BY <1>2, <1>5, <1>6
<1>10. Undisturbed'
  BY <1>1, <1>8, <1>9 DEF Undisturbed, NoClaim
<1>11. ClaimHolds'
  BY <1>1 DEF ClaimHolds, NoClaim
<1>12. Quiet => Progress(t)'
  BY <1>5, <1>6, <1>8 DEF Progress, At
<1> QED
  BY <1>7, <1>9, <1>10, <1>11, <1>12 DEF DashboardInv

LEMMA StartKeeps ==
  ASSUME DashboardInv, NEW t \in Thread, Start(t)
  PROVE  DashboardInv'
<1>0. JobsOK /\ GlobalsOK /\ DevicesOK
  BY DEF DashboardInv
<1>1. CASE ProvisionStart(t)
  <2>1. /\ StartKeyJob(t, "provision", "fetch", macKey # None) /\ claim' = NoClaim
        /\ UNCHANGED <<globals, monitor, devices, issued>>
    BY <1>1 DEF ProvisionStart, StartKeyJob
  <2>2. GlobalsOK' /\ DevicesOK' /\ UNCHANGED <<loadedId, macKey, pi4, force>>
    BY <1>0, <2>1, Constants DEF GlobalsOK, DevicesOK, globals, devices, proof, view, NoClaim
  <2> QED
    BY <2>1, <2>2, StartStep DEF Places
<1>2. CASE ReloadStart(t)
  <2>1. /\ StartKeyJob(t, "reload", "load", FALSE) /\ claim' = NoClaim
        /\ UNCHANGED <<globals, monitor, devices, issued>>
    BY <1>2 DEF ReloadStart, StartKeyJob
  <2>2. GlobalsOK' /\ DevicesOK' /\ UNCHANGED <<loadedId, macKey, pi4, force>>
    BY <1>0, <2>1, Constants DEF GlobalsOK, DevicesOK, globals, devices, proof, view, NoClaim
  <2> QED
    BY <2>1, <2>2, StartStep DEF Places
<1>3. CASE ChallengeStart(t)
  <2>1. /\ StartKeyJob(t, "challenge", "query", TRUE) /\ claim' = NoClaim
        /\ macKey # None /\ loadedId # None
        /\ UNCHANGED <<globals, monitor, devices, issued>>
    BY <1>3 DEF ChallengeStart, StartKeyJob
  <2>2. GlobalsOK' /\ DevicesOK' /\ UNCHANGED <<loadedId, macKey, pi4, force>>
    BY <1>0, <2>1, Constants DEF GlobalsOK, DevicesOK, globals, devices, proof, view, NoClaim
  <2> QED
    BY <2>1, <2>2, StartStep DEF Places
<1>4. CASE FrameArrives(t)
  <2> DEFINE new == [Idle EXCEPT !.kind = "frame", !.at = "check", !.key = event, !.mac = pi4.mac]
  <2>1. /\ job' = [job EXCEPT ![t] = new] /\ event' = None
        /\ UNCHANGED <<globals, monitor, pico, up, pi4, force, optical, book>>
    BY <1>4 DEF FrameArrives
  <2>2. Idle \in Jobs /\ ~Idle.alone
    BY IdleJob
  <2>3. event \in MaybeKey /\ pi4.mac \in MaybeKey
    BY <1>0 DEF DevicesOK, Material
  <2>4. new \in Jobs /\ new.kind = "frame" /\ new.at = "check" /\ ~new.alone
    BY <2>2, <2>3 DEF Jobs
  <2> HIDE DEF new
  <2>5. job'[t] = new /\ \A s \in Thread \ {t} : job'[s] = job[s]
    BY <1>0, <2>1 DEF JobsOK
  <2>6. JobsOK'
    BY <1>0, <2>1, <2>4, <2>5 DEF JobsOK, Places
  <2>7. GlobalsOK' /\ DevicesOK' /\ UNCHANGED core
    BY <1>0, <2>1, Constants
    DEF GlobalsOK, DevicesOK, globals, proof, view, book, core
  <2> QED
    BY <2>4, <2>5, <2>6, <2>7, FrameStep DEF ChangesKeys
<1> QED
  BY <1>1, <1>2, <1>3, <1>4 DEF Start

-----------------------------------------------------------------------------
(* The handlers, step by step. *)

(* A key operation that ends without a word.                               *)
LEMMA ReturnKeeps ==
  ASSUME DashboardInv, NEW t \in Thread, ChangesKeys(t), Return(t), UNCHANGED core,
         GlobalsOK', DevicesOK'
  PROVE  DashboardInv'
<1>1. /\ JobsOK' /\ ~job'[t].alone /\ ~ChangesKeys(t)' /\ \A s \in Thread \ {t} : job'[s] = job[s]
  BY ReturnStep DEF DashboardInv
<1>2. ClaimHolds' /\ claim' = claim
  BY DEF DashboardInv, ClaimHolds, core
<1> QED
  BY <1>1, <1>2, KeyStep

(* One that goes on and has no claim to make.                              *)
LEMMA MoveKeeps ==
  ASSUME DashboardInv, NEW t \in Thread, ChangesKeys(t), UNCHANGED core, GlobalsOK', DevicesOK',
         JobsOK', \A s \in Thread \ {t} : job'[s] = job[s],
         ~At(t, "provision", "body"),
         job'[t].alone = job[t].alone, job'[t].kind = job[t].kind,
         job[t].alone => Progress(t)'
  PROVE  DashboardInv'
<1>1. ClaimHolds' /\ claim' = claim
  BY DEF DashboardInv, ClaimHolds, core
<1>2. claim'.by = "none"
  BY <1>1 DEF DashboardInv, Undisturbed, GlobalsOK
<1>3. ChangesKeys(t)'
  BY DEF ChangesKeys
<1> QED
  BY <1>1, <1>2, <1>3, KeyStep

LEMMA ProvisionKeeps ==
  ASSUME DashboardInv, NEW t \in Thread,
         Fetch(t) \/ OpenFile(t) \/ WriteFile(t) \/ PushToPico(t) \/ ProvisionerFails(t)
  PROVE  DashboardInv'
<1>0. /\ JobsOK /\ GlobalsOK /\ DevicesOK /\ (job[t].alone => Progress(t))
      /\ job[t] \in Jobs /\ job[t].key \in MaybeKey
  BY DEF DashboardInv, JobsOK, Jobs
<1>1. job[t].kind = "provision" /\ ChangesKeys(t)
  BY DEF Fetch, OpenFile, WriteFile, PushToPico, ProvisionerFails, At, ChangesKeys
<1>2. ~At(t, "provision", "body") \/ ProvisionerFails(t)
  BY DEF Fetch, OpenFile, WriteFile, PushToPico, At
<1>3. UNCHANGED core /\ GlobalsOK' /\ DevicesOK'
  <2>1. CASE Fetch(t)
    <3>1. issued' \in MaybeKey
      BY <1>0, <2>1, Constants DEF Fetch, GlobalsOK, MaybeKey, Key, None
    <3>2. UNCHANGED <<globals, monitor, devices, claim, inputs>>
      BY <2>1 DEF Fetch
    <3> QED
      BY <1>0, <3>1, <3>2 DEF globals, proof, view, devices, core, GlobalsOK, DevicesOK
  <2>2. CASE OpenFile(t) \/ WriteFile(t)
    <3>1. /\ file' \in MaybeKey
          /\ UNCHANGED <<loadedId, macKey, proof, view, monitor, devices, book>>
      BY <1>0, <2>2, Constants DEF OpenFile, WriteFile, GlobalsOK
    <3> QED
      BY <1>0, <3>1 DEF proof, view, devices, book, core, GlobalsOK, DevicesOK
  <2>3. CASE PushToPico(t)
    <3>1. /\ pico' \in MaybeKey
          /\ UNCHANGED <<globals, monitor, up, pi4, force, event, optical, book>>
      BY <1>0, <2>3 DEF PushToPico, DevicesOK
    <3> QED
      BY <1>0, <3>1 DEF globals, proof, view, book, core, GlobalsOK, DevicesOK
  <2>4. CASE ProvisionerFails(t)
    <3>1. UNCHANGED <<globals, monitor, devices, book>>
      BY <2>4 DEF ProvisionerFails
    <3> QED
      BY <1>0, <3>1 DEF globals, proof, view, devices, book, core, GlobalsOK, DevicesOK
  <2> QED
    BY <2>1, <2>2, <2>3, <2>4
<1>4. CASE ProvisionerFails(t)
  BY <1>1, <1>3, <1>4, ReturnKeeps DEF ProvisionerFails
<1>5. CASE Fetch(t) \/ OpenFile(t) \/ WriteFile(t) \/ PushToPico(t)
  <2>1. /\ job[t].at \in {"fetch", "open", "write", "push"}
        /\ \E at \in {"open", "write", "push", "load"}, k \in MaybeKey :
             (Goto(t, at) /\ k = job[t].key) \/ GotoWith(t, at, k)
    BY <1>0, <1>3, <1>5 DEF Fetch, OpenFile, WriteFile, PushToPico, At, GlobalsOK
  <2>2. PICK at \in {"open", "write", "push", "load"}, k \in MaybeKey :
          (Goto(t, at) /\ k = job[t].key) \/ GotoWith(t, at, k)
    BY <2>1
  <2>3. /\ JobsOK' /\ \A s \in Thread \ {t} : job'[s] = job[s]
        /\ job'[t].at = at /\ job'[t].kind = job[t].kind /\ job'[t].alone = job[t].alone
    BY <1>0, <1>1, <2>2, GotoStep DEF Places
  <2>4. job[t].alone => Progress(t)'
    BY <1>0, <1>1, <1>3, <2>1, <2>3 DEF Progress, core, At
  <2> QED
    BY <1>1, <1>3, <2>1, <2>3, <2>4, MoveKeeps DEF At
<1> QED
  BY <1>4, <1>5

LEMMA LoadKeeps ==
  ASSUME DashboardInv, NEW t \in Thread, Load(t) \/ AssignMacKey(t) \/ Unprove(t)
  PROVE  DashboardInv'
<1>0. /\ JobsOK /\ GlobalsOK /\ DevicesOK /\ (job[t].alone => Progress(t))
      /\ job[t] \in Jobs /\ job[t].key \in MaybeKey /\ job[t].alone \in BOOLEAN
  BY DEF DashboardInv, JobsOK, Jobs
<1>1. job[t].kind \in {"provision", "reload"} /\ ChangesKeys(t)
  BY <1>0, Whereabouts DEF Load, AssignMacKey, Unprove, ChangesKeys
<1>2. job[t].at \in {"load", "assign", "unprove"}
  BY DEF Load, AssignMacKey, Unprove
<1>3. claim = [key |-> claim.key, by |-> "none"]
  BY <1>0, <1>1, <1>2 DEF DashboardInv, Undisturbed, GlobalsOK, At
<1>4. CASE Load(t)
  <2>1. /\ job[t].at = "load" /\ loadedId' = file /\ GotoWith(t, "assign", file)
        /\ UNCHANGED <<file, macKey, proof, view, monitor, devices, book>>
    BY <1>4 DEF Load
  <2>2. GlobalsOK' /\ DevicesOK'
    BY <1>0, <2>1 DEF proof, view, devices, book, GlobalsOK, DevicesOK
  <2>3. /\ JobsOK' /\ \A s \in Thread \ {t} : job'[s] = job[s]
        /\ job'[t].at = "assign" /\ job'[t].key = file
        /\ job'[t].kind = job[t].kind /\ job'[t].alone = job[t].alone
    BY <1>0, <1>1, <2>1, GotoStep DEF Places, GlobalsOK
  <2>4. claim' = claim /\ claim'.by = "none" /\ ClaimHolds'
    BY <1>3, <2>1 DEF book, ClaimHolds
  <2>5. job[t].alone => Progress(t)'
    BY <1>0, <1>1, <2>1, <2>3 DEF Progress, At, devices
  <2>6. ChangesKeys(t)'
    BY <1>1, <2>3 DEF ChangesKeys
  <2> QED
    BY <1>1, <2>2, <2>3, <2>4, <2>5, <2>6, KeyStep
<1>5. CASE AssignMacKey(t)
  <2>1. /\ job[t].at = "assign" /\ macKey' = job[t].key /\ Goto(t, "unprove")
        /\ UNCHANGED <<file, loadedId, proof, view, monitor, devices, book>>
    BY <1>5 DEF AssignMacKey
  <2>2. GlobalsOK' /\ DevicesOK'
    BY <1>0, <2>1 DEF proof, view, devices, book, GlobalsOK, DevicesOK
  <2>3. /\ JobsOK' /\ \A s \in Thread \ {t} : job'[s] = job[s]
        /\ job'[t].at = "unprove" /\ job'[t].key = job[t].key
        /\ job'[t].kind = job[t].kind /\ job'[t].alone = job[t].alone
    BY <1>0, <1>1, <2>1, GotoStep DEF Places
  <2>4. claim' = claim /\ claim'.by = "none" /\ ClaimHolds'
    BY <1>3, <2>1 DEF book, ClaimHolds
  <2>5. job[t].alone => Progress(t)'
    BY <1>0, <1>1, <2>1, <2>3 DEF Progress, At, devices
  <2>6. ChangesKeys(t)'
    BY <1>1, <2>3 DEF ChangesKeys
  <2> QED
    BY <1>1, <2>2, <2>3, <2>4, <2>5, <2>6, KeyStep
<1>6. CASE Unprove(t)
  <2>1. /\ job[t].at = "unprove" /\ verified' = FALSE /\ provenId' = None
        /\ IF job[t].kind = "reload" THEN Return(t) ELSE GotoWith(t, "body", loadedId)
        /\ claim' = Claim(t, "load")
        /\ UNCHANGED <<file, loadedId, macKey, age, view, monitor, devices, issued, inputs>>
    BY <1>6 DEF Unprove
  <2>2. claim' = IF job[t].alone THEN [key |-> macKey, by |-> "load"] ELSE claim
    BY <2>1 DEF Claim
  <2>3. claim' \in [key : MaybeKey, by : {"none", "load", "push", "challenge"}]
    BY <1>0, <2>2 DEF GlobalsOK
  <2>4. GlobalsOK' /\ DevicesOK'
    BY <1>0, <2>1, <2>3, Constants DEF view, devices, GlobalsOK, DevicesOK
  <2>5. ASSUME job[t].alone PROVE loadedId = macKey /\ force = NoForce
    BY <1>0, <2>1, <2>5 DEF Progress
  <2>6. /\ claim'.by \in {"none", "load"}
        /\ claim'.by = "load" <=> job[t].alone
        /\ claim'.by = "load" => claim'.key = macKey
    BY <1>3, <2>2
  <2>7. ClaimHolds'
    BY <2>1, <2>5, <2>6 DEF ClaimHolds, devices
  <2>8. CASE job[t].kind = "reload"
    <3>1. JobsOK' /\ ~job'[t].alone /\ ~ChangesKeys(t)' /\ \A s \in Thread \ {t} : job'[s] = job[s]
      BY <1>0, <2>1, <2>8, ReturnStep
    <3> QED
      BY <1>1, <2>2, <2>4, <2>7, <3>1, KeyStep
  <2>9. CASE job[t].kind = "provision"
    <3>1. /\ JobsOK' /\ \A s \in Thread \ {t} : job'[s] = job[s]
          /\ job'[t].at = "body" /\ job'[t].key = loadedId
          /\ job'[t].kind = job[t].kind /\ job'[t].alone = job[t].alone
      BY <1>0, <1>1, <2>1, <2>9, GotoStep DEF Places, GlobalsOK
    <3>2. job[t].alone => Progress(t)'
      BY <1>0, <2>1, <2>5, <2>9, <3>1 DEF Progress, At, devices
    <3>3. ChangesKeys(t)' /\ At(t, "provision", "body")'
      BY <2>9, <3>1 DEF ChangesKeys, At
    <3> QED
      BY <1>1, <2>2, <2>4, <2>6, <2>7, <3>1, <3>2, <3>3, KeyStep
  <2> QED
    BY <1>1, <2>8, <2>9
<1> QED
  BY <1>4, <1>5, <1>6

LEMMA ForceKeeps ==
  ASSUME DashboardInv, NEW t \in Thread, ForceAccepted(t)
  PROVE  DashboardInv'
<1>0. /\ JobsOK /\ GlobalsOK /\ DevicesOK /\ (job[t].alone => Progress(t))
      /\ job[t] \in Jobs /\ job[t].key \in MaybeKey /\ job[t].alone \in BOOLEAN
  BY DEF DashboardInv, JobsOK, Jobs
<1>1. /\ job[t].at = "body" /\ force' = Body(t) /\ job[t].kind \in {"provision", "challenge"}
      /\ macKey # None
      /\ UNCHANGED <<globals, monitor, pico, up, pi4, event, optical, issued, inputs>>
  BY DEF ForceAccepted, CanForce
<1>2. ChangesKeys(t)
  BY <1>1 DEF ChangesKeys
<1>3. force' # NoForce /\ force' \in Material
  BY <1>0, <1>1 DEF Body, Material, NoForce, Whole, GlobalsOK
<1>4. DevicesOK' /\ UNCHANGED <<loadedId, macKey, pi4>>
  BY <1>0, <1>1, <1>3 DEF DevicesOK, globals
<1>5. ASSUME job[t].alone PROVE force' = Pushed
  BY <1>0, <1>1, <1>5 DEF Progress, Body, Pushed
<1>6. ~job[t].alone \/ job[t].kind = "challenge" => claim.by = "none"
  BY <1>0, <1>2 DEF DashboardInv, Undisturbed, GlobalsOK, At
<1>7. CASE job[t].kind = "provision"
  <2>1. claim' = Claim(t, "push") /\ Return(t)
    BY <1>7 DEF ForceAccepted
  <2>2. JobsOK' /\ ~job'[t].alone /\ ~ChangesKeys(t)' /\ \A s \in Thread \ {t} : job'[s] = job[s]
    BY <1>0, <2>1, ReturnStep
  <2>3. CASE job[t].alone
    <3>1. claim' = [key |-> macKey, by |-> "push"] /\ macKey = loadedId
      BY <1>0, <1>1, <1>7, <2>1, <2>3 DEF Claim, Progress, At
    <3>2. force' = Whole(macKey)
      BY <1>5, <2>3, <3>1 DEF Pushed, Whole
    <3>3. GlobalsOK'
      BY <1>0, <1>1, <3>1 DEF GlobalsOK, globals, proof, view
    <3>4. ClaimHolds'
      BY <1>3, <1>4, <3>1, <3>2 DEF ClaimHolds, Whole
    <3> QED
      BY <1>2, <1>4, <2>2, <2>3, <3>3, <3>4, KeyStep
  <2>4. CASE ~job[t].alone
    <3>1. claim' = claim /\ claim.by = "none"
      BY <1>6, <2>1, <2>4 DEF Claim
    <3>2. GlobalsOK'
      BY <1>0, <1>1, <3>1 DEF GlobalsOK, globals, proof, view
    <3>3. ClaimHolds'
      BY <3>1 DEF ClaimHolds
    <3> QED
      BY <1>2, <1>4, <2>2, <3>1, <3>2, <3>3, KeyStep
  <2> QED
    BY <2>3, <2>4
<1>8. CASE job[t].kind = "challenge"
  <2>1. claim' = claim /\ Goto(t, "poll") /\ claim.by = "none"
    BY <1>6, <1>8 DEF ForceAccepted
  <2>2. /\ JobsOK' /\ \A s \in Thread \ {t} : job'[s] = job[s]
        /\ job'[t].at = "poll" /\ job'[t].kind = job[t].kind /\ job'[t].alone = job[t].alone
    BY <1>0, <1>8, <2>1, GotoStep DEF Places
  <2>3. GlobalsOK' /\ ClaimHolds'
    BY <1>0, <1>1, <2>1 DEF GlobalsOK, globals, proof, view, ClaimHolds
  <2>4. ASSUME job[t].alone PROVE Progress(t)'
    <3>1. force' = Pushed' /\ loadedId # None
      BY <1>0, <1>4, <1>5, <1>8, <2>4 DEF Pushed, Progress
    <3> QED
      BY <1>1, <1>3, <1>4, <1>8, <2>2, <3>1 DEF Progress, At, NoForce, Whole
  <2> QED
    BY <1>2, <1>4, <1>8, <2>1, <2>2, <2>3, <2>4, KeyStep DEF ChangesKeys
<1> QED
  BY <1>1, <1>7, <1>8

(* A queued body of which the handler does not learn makes no report.      *)
LEMMA ForceFailsKeeps ==
  ASSUME DashboardInv, NEW t \in Thread, ForceFails(t)
  PROVE  DashboardInv'
<1>1. /\ job[t].at = "body" /\ Return(t)
      /\ UNCHANGED <<globals, monitor, pico, up, pi4, event, optical, book>>
      /\ JobsOK /\ GlobalsOK /\ DevicesOK /\ ClaimHolds
  BY DEF ForceFails, DashboardInv
<1>2. ChangesKeys(t)
  BY <1>1, Whereabouts DEF ChangesKeys
<1>3. /\ JobsOK' /\ ~job'[t].alone /\ ~ChangesKeys(t)'
      /\ \A s \in Thread \ {t} : job'[s] = job[s]
  BY <1>1, ReturnStep
<1>4. force' \in Material
  BY <1>1 DEF ForceFails, Body, Material, GlobalsOK, DevicesOK, JobsOK, Jobs
<1>5. GlobalsOK' /\ DevicesOK'
  BY <1>1, <1>4 DEF globals, proof, view, book, GlobalsOK, DevicesOK
<1>6. claim' = claim /\ claim.by \in {"none", "load"}
  BY <1>1, <1>2 DEF book, DashboardInv, Undisturbed, GlobalsOK
<1>7. ClaimHolds'
  BY <1>1, <1>6 DEF ClaimHolds, globals
<1> QED
  BY <1>2, <1>3, <1>5, <1>6, <1>7, KeyStep

(* A challenge that asks, decides, polls and sends.                        *)
LEMMA AskKeeps ==
  ASSUME DashboardInv, NEW t \in Thread,
         ChallengeStatus(t) \/ ChallengeDecide(t) \/ ChallengeAgain(t) \/ ChallengeSend(t)
  PROVE  DashboardInv'
<1>0. /\ JobsOK /\ GlobalsOK /\ DevicesOK /\ (job[t].alone => Progress(t))
      /\ job \in [Thread -> Jobs] /\ job[t] \in Jobs
      /\ job[t].key \in MaybeKey /\ job[t].alone \in BOOLEAN /\ job[t].tries \in 0 .. Retries - 1
  BY DEF DashboardInv, JobsOK, Jobs
<1>1. job[t].kind = "challenge" /\ job[t].at # "body" /\ ChangesKeys(t)
  BY DEF ChallengeStatus, ChallengeDecide, ChallengeAgain, ChallengeSend, At, ChangesKeys
<1>2. UNCHANGED core /\ GlobalsOK' /\ DevicesOK'
  <2>1. /\ shownId' \in MaybeKey
        /\ UNCHANGED <<file, loadedId, macKey, proof, wifiPeer, feedOn, monitor, devices, book>>
    BY <1>0 DEF ChallengeStatus, ChallengeDecide, ChallengeAgain, ChallengeSend, globals, view,
       GlobalsOK
  <2> QED
    BY <1>0, <2>1 DEF proof, devices, book, core, GlobalsOK, DevicesOK
<1>3. ASSUME NEW j \in Jobs, j.kind = "challenge", j.at \in Places("challenge"),
             job' = [job EXCEPT ![t] = j], j.alone = job[t].alone,
             job[t].alone => Progress(t)'
      PROVE  DashboardInv'
  <2>1. JobsOK' /\ job'[t] = j /\ \A s \in Thread \ {t} : job'[s] = job[s]
    BY <1>0, <1>3 DEF JobsOK
  <2> QED
    BY <1>1, <1>2, <1>3, <2>1, MoveKeeps DEF At
<1>4. CASE Return(t)
  BY <1>1, <1>2, <1>4, ReturnKeeps
<1>5. CASE ChallengeStatus(t)
  <2>1. Status \in MaybeKey /\ (Status # None => Status = pi4.id)
    BY <1>0, Constants DEF Status, DevicesOK, Material
  <2>2. CASE At(t, "challenge", "query") /\ GotoWith(t, "decide", Status)
    <3> DEFINE j == [job[t] EXCEPT !.at = "decide", !.key = Status]
    <3>1. /\ j \in Jobs /\ j.kind = "challenge" /\ j.at = "decide" /\ j.key = Status
          /\ j.alone = job[t].alone /\ job' = [job EXCEPT ![t] = j] /\ job'[t] = j
      BY <1>0, <1>1, <2>1, <2>2 DEF Jobs, GotoWith
    <3> HIDE DEF j
    <3>2. job[t].alone => Progress(t)'
      BY <1>0, <1>1, <1>2, <2>1, <2>2, <3>1 DEF Progress, core, At
    <3> QED
      BY <1>3, <3>1, <3>2 DEF Places
  <2>3. CASE At(t, "challenge", "poll") /\ GotoWith(t, "again", Status)
    <3> DEFINE j == [job[t] EXCEPT !.at = "again", !.key = Status]
    <3>1. /\ j \in Jobs /\ j.kind = "challenge" /\ j.at = "again"
          /\ j.alone = job[t].alone /\ job' = [job EXCEPT ![t] = j] /\ job'[t] = j
      BY <1>0, <1>1, <2>1, <2>3 DEF Jobs, GotoWith
    <3> HIDE DEF j
    <3>2. job[t].alone => Progress(t)'
      BY <1>0, <1>1, <1>2, <2>3, <3>1 DEF Progress, core, At, Pushed
    <3> QED
      BY <1>3, <3>1, <3>2 DEF Places
  <2> QED
    BY <1>5, <2>2, <2>3 DEF ChallengeStatus
<1>6. CASE ChallengeDecide(t)
  <2>1. job[t].at = "decide"
    BY <1>6 DEF ChallengeDecide, At
  <2>2. CASE job[t].key = loadedId
    <3> DEFINE j == [job[t] EXCEPT !.at = "send"]
    <3>1. /\ j \in Jobs /\ j.kind = "challenge" /\ j.at = "send"
          /\ j.alone = job[t].alone /\ job' = [job EXCEPT ![t] = j] /\ job'[t] = j
      BY <1>0, <1>1, <1>6, <2>2 DEF Jobs, ChallengeDecide, Goto
    <3> HIDE DEF j
    <3>2. job[t].alone => Progress(t)'
      BY <1>0, <1>1, <1>2, <2>1, <2>2, <3>1 DEF Progress, core, At
    <3> QED
      BY <1>3, <3>1, <3>2 DEF Places
  <2>3. CASE job[t].key # loadedId
    <3> DEFINE j == [job[t] EXCEPT !.at = "body", !.key = loadedId, !.signs = (macKey # None)]
    <3>1. /\ j \in Jobs /\ j.kind = "challenge" /\ j.at = "body" /\ j.key = loadedId
          /\ j.alone = job[t].alone /\ job' = [job EXCEPT ![t] = j] /\ job'[t] = j
      BY <1>0, <1>1, <1>6, <2>3 DEF Jobs, ChallengeDecide, GlobalsOK
    <3> HIDE DEF j
    <3>2. job[t].alone => Progress(t)'
      BY <1>0, <1>1, <1>2, <2>1, <3>1 DEF Progress, core, At
    <3> QED
      BY <1>3, <3>1, <3>2 DEF Places
  <2> QED
    BY <2>2, <2>3
<1>7. CASE ChallengeAgain(t)
  <2>1. job[t].at = "again"
    BY <1>7 DEF ChallengeAgain, At
  <2>2. CASE job[t].key = loadedId
    <3> DEFINE j == [job[t] EXCEPT !.at = "send"]
    <3>1. /\ j \in Jobs /\ j.kind = "challenge" /\ j.at = "send"
          /\ j.alone = job[t].alone /\ job' = [job EXCEPT ![t] = j] /\ job'[t] = j
      BY <1>0, <1>1, <1>7, <2>2 DEF Jobs, ChallengeAgain, Goto
    <3> HIDE DEF j
    <3>2. job[t].alone => Progress(t)'
      BY <1>0, <1>1, <1>2, <2>1, <3>1 DEF Progress, core, At, Pushed
    <3> QED
      BY <1>3, <3>1, <3>2 DEF Places
  <2>3. CASE job[t].key # loadedId /\ PollsAgain(t)
    <3> DEFINE j == [job[t] EXCEPT !.at = "poll", !.tries = job[t].tries + 1]
    <3>0. job[t].tries + 1 \in 0 .. Retries - 1
      BY <1>0, <2>3, Constants DEF PollsAgain
    <3>1. /\ j \in Jobs /\ j.kind = "challenge" /\ j.at = "poll"
          /\ j.alone = job[t].alone /\ job' = [job EXCEPT ![t] = j] /\ job'[t] = j
      BY <1>0, <1>1, <1>7, <2>3, <3>0 DEF Jobs, ChallengeAgain
    <3> HIDE DEF j
    <3>2. job[t].alone => Progress(t)'
      BY <1>0, <1>1, <1>2, <2>1, <3>1 DEF Progress, core, At, Pushed
    <3> QED
      BY <1>3, <3>1, <3>2 DEF Places
  <2> QED
    BY <1>4, <1>7, <2>2, <2>3 DEF ChallengeAgain
<1>8. CASE ChallengeSend(t)
  <2>1. job[t].at = "send"
    BY <1>8 DEF ChallengeSend, At
  <2>2. CASE up /\ pi4.mac # None /\ macKey # None
    <3> DEFINE j == [job[t] EXCEPT !.at = "compare", !.key = pi4.id, !.mac = pi4.mac]
    <3>0. pi4.id \in MaybeKey /\ pi4.mac \in MaybeKey
      BY <1>0 DEF DevicesOK, Material
    <3>1. /\ j \in Jobs /\ j.kind = "challenge" /\ j.at = "compare" /\ j.mac = pi4.mac
          /\ j.alone = job[t].alone /\ job' = [job EXCEPT ![t] = j] /\ job'[t] = j
      BY <1>0, <1>1, <1>8, <2>2, <3>0 DEF Jobs, ChallengeSend
    <3> HIDE DEF j
    <3>2. job[t].alone => Progress(t)'
      BY <1>0, <1>1, <1>2, <2>1, <3>1 DEF Progress, core, At, Pushed
    <3> QED
      BY <1>3, <3>1, <3>2 DEF Places
  <2> QED
    BY <1>4, <1>8, <2>2 DEF ChallengeSend
<1> QED
  BY <1>5, <1>6, <1>7, <1>8

LEMMA CompareKeeps ==
  ASSUME DashboardInv, NEW t \in Thread, ChallengeCompare(t)
  PROVE  DashboardInv'
<1>0. /\ JobsOK /\ GlobalsOK /\ DevicesOK /\ (job[t].alone => Progress(t))
      /\ job[t] \in Jobs /\ job[t].key \in MaybeKey
  BY DEF DashboardInv, JobsOK, Jobs
<1>1. /\ At(t, "challenge", "compare") /\ ChangesKeys(t) /\ Return(t)
      /\ UNCHANGED <<file, loadedId, macKey, proof, wifiPeer, feedOn, monitor, devices, issued, inputs>>
  BY DEF ChallengeCompare, At, ChangesKeys
<1>2. /\ shownId' \in MaybeKey
      /\ \/ claim' = claim
         \/ job[t].alone /\ job[t].mac = macKey /\ claim' = [key |-> macKey, by |-> "challenge"]
  BY <1>0 DEF ChallengeCompare, GlobalsOK, Claim, AnswerHolds
<1>3. GlobalsOK' /\ DevicesOK'
  BY <1>0, <1>1, <1>2 DEF GlobalsOK, DevicesOK, proof, devices
<1>4. ClaimHolds'
  <2>1. CASE claim' = claim
    BY <1>1, <2>1 DEF DashboardInv, ClaimHolds, devices
  <2>2. CASE job[t].alone /\ job[t].mac = macKey /\ claim' = [key |-> macKey, by |-> "challenge"]
    <3>1. IF force = NoForce THEN pi4.mac = macKey /\ pi4.id = loadedId
                             ELSE force.mac = macKey /\ force.id = loadedId
      BY <1>0, <1>1, <2>2 DEF Progress, Pushed, At
    <3> QED
      BY <1>1, <2>2, <3>1 DEF ClaimHolds, devices
  <2> QED
    BY <1>2, <2>1, <2>2
<1>5. JobsOK' /\ ~job'[t].alone /\ ~ChangesKeys(t)' /\ \A s \in Thread \ {t} : job'[s] = job[s]
  BY <1>0, <1>1, ReturnStep
<1>6. claim' = claim \/ job[t].alone
  BY <1>2
<1> QED
  BY <1>1, <1>3, <1>4, <1>5, <1>6, KeyStep

(* A frame's handler changes what is proven, and no key.                   *)
LEMMA FrameKeeps ==
  ASSUME DashboardInv, NEW t \in Thread,
         FrameCheck(t) \/ FrameTime(t) \/ FrameProve(t) \/ FrameFeed(t)
  PROVE  DashboardInv'
<1>0. /\ JobsOK /\ GlobalsOK /\ DevicesOK /\ job[t] \in Jobs /\ job[t].key \in MaybeKey
  BY DEF DashboardInv, JobsOK, Jobs
<1>1. job[t].kind = "frame" /\ ~ChangesKeys(t) /\ ~job[t].alone
  BY DEF FrameCheck, FrameTime, FrameProve, FrameFeed, At, ChangesKeys, DashboardInv, Undisturbed
<1>2. UNCHANGED core /\ GlobalsOK' /\ DevicesOK'
  <2>1. CASE FrameCheck(t) \/ FrameFeed(t)
    <3>1. UNCHANGED <<globals, monitor, devices, book>>
      BY <2>1 DEF FrameCheck, FrameFeed
    <3> QED
      BY <1>0, <3>1 DEF globals, proof, view, devices, book, core, GlobalsOK, DevicesOK
  <2>2. CASE FrameTime(t)
    <3>1. /\ age' = 0 \/ age' = age
          /\ UNCHANGED <<file, loadedId, macKey, verified, provenId, view, monitor, devices, book>>
      BY <2>2 DEF FrameTime
    <3>2. age' \in 0 .. Window + 1
      BY <1>0, <3>1, Constants DEF GlobalsOK
    <3> QED
      BY <1>0, <3>1, <3>2 DEF view, devices, book, core, GlobalsOK, DevicesOK
  <2>3. CASE FrameProve(t)
    <3>1. /\ verified' = TRUE /\ provenId' \in MaybeKey
          /\ UNCHANGED <<file, loadedId, macKey, age, view, monitor, devices, book>>
      BY <1>0, <2>3 DEF FrameProve
    <3>2. verified' \in BOOLEAN
      BY <3>1
    <3> QED
      BY <1>0, <3>1, <3>2 DEF view, devices, book, core, GlobalsOK, DevicesOK
  <2> QED
    BY <2>1, <2>2, <2>3
<1>3. Return(t) \/ \E at \in {"key", "prove", "feed"} : Goto(t, at)
  BY DEF FrameCheck, FrameTime, FrameProve, FrameFeed
<1>4. /\ JobsOK' /\ ~job'[t].alone /\ ~ChangesKeys(t)'
      /\ \A s \in Thread \ {t} : job'[s] = job[s]
  <2>1. CASE Return(t)
    BY <1>0, <2>1, ReturnStep
  <2>2. ASSUME NEW at \in {"key", "prove", "feed"}, Goto(t, at)
        PROVE  /\ JobsOK' /\ ~job'[t].alone /\ ~ChangesKeys(t)'
               /\ \A s \in Thread \ {t} : job'[s] = job[s]
    BY <1>0, <1>1, <2>2, GotoStep DEF Places, ChangesKeys
  <2> QED
    BY <1>3, <2>1, <2>2
<1> QED
  BY <1>2, <1>4, FrameStep

-----------------------------------------------------------------------------
(* The monitor, the user, time and the Pi4.                                *)

LEMMA HandlerKeeps ==
  ASSUME DashboardInv, NEW t \in Thread, Handler(t)
  PROVE  DashboardInv'
BY ProvisionKeeps, LoadKeeps, ForceKeeps, ForceFailsKeeps, AskKeeps, CompareKeeps, FrameKeeps
DEF Handler

LEMMA StatusIsKey ==
  ASSUME DevicesOK
  PROVE  Status \in MaybeKey
BY Constants DEF Status, DevicesOK, Material

LEMMA MonitorKeeps ==
  ASSUME DashboardInv, Monitor
  PROVE  DashboardInv'
<1>0. GlobalsOK /\ DevicesOK
  BY DEF DashboardInv
<1>1. CASE MonitorPoll \/ MonitorAge
  <2>1. monitor'.id \in MaybeKey /\ UNCHANGED <<globals, job, devices, book>>
    BY <1>0, <1>1, StatusIsKey, Constants DEF MonitorPoll, MonitorAge, MonitorGoto
  <2>2. UNCHANGED <<job, core>> /\ GlobalsOK' /\ DevicesOK'
    BY <1>0, <2>1 DEF globals, proof, view, devices, book, core, GlobalsOK, DevicesOK
  <2> QED
    BY <2>2, NoHandlerMoves
<1>2. CASE MonitorShow
  <2>1. /\ shownId' \in MaybeKey /\ monitor'.id \in MaybeKey
        /\ UNCHANGED <<file, loadedId, macKey, proof, wifiPeer, feedOn, job, devices, book>>
    BY <1>0, <1>2, Constants DEF MonitorShow, MonitorGoto, Answer, GlobalsOK
  <2>2. UNCHANGED <<job, core>> /\ GlobalsOK' /\ DevicesOK'
    BY <1>0, <2>1 DEF proof, devices, book, core, GlobalsOK, DevicesOK
  <2> QED
    BY <2>2, NoHandlerMoves
<1>3. CASE MonitorDecay
  <2>1. /\ verified' = FALSE /\ provenId' = None /\ monitor'.id \in MaybeKey
        /\ UNCHANGED <<file, loadedId, macKey, age, view, job, devices, book>>
    BY <1>3, Constants DEF MonitorDecay, MonitorGoto
  <2>2. verified' \in BOOLEAN /\ provenId' \in MaybeKey
    BY <2>1, Constants
  <2>3. UNCHANGED <<job, core>> /\ GlobalsOK' /\ DevicesOK'
    BY <1>0, <2>1, <2>2 DEF view, devices, book, core, GlobalsOK, DevicesOK
  <2> QED
    BY <2>3, NoHandlerMoves
<1> QED
  BY <1>1, <1>2, <1>3 DEF Monitor

(* Nothing here touches a handler or a key.                                *)
LEMMA ViewKeeps ==
  ASSUME DashboardInv, SetRxSource \/ StatusArrives \/ ConnectRx2 \/ Tick \/ LightFrame
  PROVE  DashboardInv'
<1>0. GlobalsOK /\ DevicesOK
  BY DEF DashboardInv
<1>1. CASE SetRxSource
  <2>1. /\ feedOn' = ~feedOn
        /\ UNCHANGED <<file, loadedId, macKey, proof, shownId, wifiPeer, job, monitor, devices, issued, claim>>
    BY <1>1 DEF SetRxSource
  <2>2. feedOn' \in BOOLEAN
    BY <2>1
  <2>3. UNCHANGED <<job, core>> /\ GlobalsOK' /\ DevicesOK'
    BY <1>0, <2>1, <2>2 DEF proof, devices, core, GlobalsOK, DevicesOK
  <2> QED
    BY <2>3, NoHandlerMoves
<1>2. CASE StatusArrives
  <2>1. /\ shownId' \in MaybeKey
        /\ UNCHANGED <<file, loadedId, macKey, proof, wifiPeer, feedOn, job, monitor, devices, issued, claim>>
    BY <1>0, <1>2 DEF StatusArrives, DevicesOK, Material
  <2>2. UNCHANGED <<job, core>> /\ GlobalsOK' /\ DevicesOK'
    BY <1>0, <2>1 DEF proof, devices, core, GlobalsOK, DevicesOK
  <2> QED
    BY <2>2, NoHandlerMoves
<1>3. CASE ConnectRx2
  <2>1. /\ wifiPeer' = ~wifiPeer
        /\ UNCHANGED <<file, loadedId, macKey, proof, feedOn, job, monitor, devices, book>>
    BY <1>3 DEF ConnectRx2
  <2>2. shownId' \in MaybeKey
    BY <1>0, <1>3, StatusIsKey DEF ConnectRx2, GlobalsOK
  <2>3. wifiPeer' \in BOOLEAN
    BY <2>1
  <2>4. UNCHANGED <<job, core>> /\ GlobalsOK' /\ DevicesOK'
    BY <1>0, <2>1, <2>2, <2>3 DEF proof, devices, book, core, GlobalsOK, DevicesOK
  <2> QED
    BY <2>4, NoHandlerMoves
<1>4. CASE Tick
  <2>1. /\ age <= Window /\ age' = age + 1
        /\ UNCHANGED <<file, loadedId, macKey, verified, provenId, view, job, monitor, devices, book>>
    BY <1>4 DEF Tick
  <2>2. age' \in 0 .. Window + 1
    BY <1>0, <2>1, Constants DEF GlobalsOK
  <2>3. UNCHANGED <<job, core>> /\ GlobalsOK' /\ DevicesOK'
    BY <1>0, <2>1, <2>2 DEF view, devices, book, core, GlobalsOK, DevicesOK
  <2> QED
    BY <2>3, NoHandlerMoves
<1>5. CASE LightFrame
  <2>1. /\ pico # None /\ event' = pi4.id /\ optical' = optical \cup {pico}
        /\ UNCHANGED <<globals, job, monitor, pico, up, pi4, force, issued, claim>>
    BY <1>5 DEF LightFrame
  <2>2. event' \in MaybeKey /\ optical' \subseteq Key
    BY <1>0, <2>1 DEF DevicesOK, Material, MaybeKey
  <2>3. UNCHANGED <<job, core>> /\ GlobalsOK' /\ DevicesOK'
    BY <1>0, <2>1, <2>2 DEF globals, proof, view, core, GlobalsOK, DevicesOK
  <2> QED
    BY <2>3, NoHandlerMoves
<1> QED
  BY <1>1, <1>2, <1>3, <1>4, <1>5

(* A restart and a key from elsewhere disturb every operation.             *)
LEMMA DisturbingKeeps ==
  ASSUME DashboardInv, job' = Disturbed(job), claim' = NoClaim, GlobalsOK', DevicesOK'
  PROVE  DashboardInv'
<1>1. /\ Disturbed(job) \in [Thread -> Jobs]
      /\ \A t \in Thread : /\ ~Disturbed(job)[t].alone
                           /\ Disturbed(job)[t].at \in Places(Disturbed(job)[t].kind)
  BY DisturbedJobs DEF DashboardInv
<1>2. JobsOK' /\ \A t \in Thread : ~job'[t].alone
  BY <1>1 DEF JobsOK
<1> QED
  BY <1>2, DisturbingStep

LEMMA ReachKeeps ==
  ASSUME DashboardInv, Reach
  PROVE  DashboardInv'
<1>0. GlobalsOK /\ DevicesOK /\ NoClaim \in [key : MaybeKey, by : {"none", "load", "push", "challenge"}]
  BY Constants DEF DashboardInv, NoClaim
<1>1. up' = ~up /\ UNCHANGED <<globals, monitor, pico, optical, issued>>
  BY DEF Reach
<1>2. up' \in BOOLEAN
  BY <1>1
<1>3. CASE UNCHANGED <<job, pi4, force, event, claim>>
  <2>1. UNCHANGED <<job, core>> /\ GlobalsOK' /\ DevicesOK'
    BY <1>0, <1>1, <1>2, <1>3 DEF globals, proof, view, core, GlobalsOK, DevicesOK
  <2> QED
    BY <2>1, NoHandlerMoves
<1>4. CASE /\ pi4' = Whole(None) /\ force' = NoForce /\ event' = None
           /\ job' = Disturbed(job) /\ claim' = NoClaim
  <2>1. pi4' \in Material /\ force' \in Material /\ event' \in MaybeKey
    BY <1>4, Constants DEF NoForce
  <2>2. GlobalsOK' /\ DevicesOK'
    BY <1>0, <1>1, <1>2, <1>4, <2>1 DEF globals, proof, view, GlobalsOK, DevicesOK
  <2> QED
    BY <1>4, <2>2, DisturbingKeeps
<1> QED
  BY <1>3, <1>4 DEF Reach

LEMMA AdoptOtherKeeps ==
  ASSUME DashboardInv, AdoptOther
  PROVE  DashboardInv'
<1>0. GlobalsOK /\ DevicesOK /\ NoClaim \in [key : MaybeKey, by : {"none", "load", "push", "challenge"}]
  BY Constants DEF DashboardInv, NoClaim
<1>1. /\ job' = Disturbed(job) /\ claim' = NoClaim
      /\ UNCHANGED <<globals, monitor, pico, up, force, event, optical>>
  BY DEF AdoptOther
<1>2. issued' \in MaybeKey /\ pi4' \in Material
  <2>1. CASE issued < MaxKeys /\ issued' = issued + 1 /\ pi4' = Whole(issued')
    <3>1. issued' \in MaybeKey
      BY <1>0, <2>1, Constants DEF GlobalsOK, MaybeKey, Key, None
    <3> QED
      BY <2>1, <3>1, Constants
  <2>2. CASE pico # None /\ pi4' = Whole(pico) /\ issued' = issued
    BY <1>0, <2>2, Constants DEF GlobalsOK, DevicesOK
  <2> QED
    BY <2>1, <2>2 DEF AdoptOther
<1>3. GlobalsOK' /\ DevicesOK'
  BY <1>0, <1>1, <1>2 DEF globals, proof, view, GlobalsOK, DevicesOK
<1> QED
  BY <1>1, <1>3, DisturbingKeeps

(* The mailbox is drained: what was promised of it is now true of the Pi4. *)
LEMMA AdoptForcedKeeps ==
  ASSUME DashboardInv, AdoptForced
  PROVE  DashboardInv'
<1>0. JobsOK /\ GlobalsOK /\ DevicesOK /\ Undisturbed /\ ClaimHolds
  BY DEF DashboardInv
<1>1. /\ force # NoForce /\ pi4' = force /\ force' = NoForce
      /\ UNCHANGED <<globals, job, monitor, pico, up, event, optical, book>>
  BY DEF AdoptForced
<1>2. pi4' \in Material /\ force' \in Material
  BY <1>0, <1>1, Constants DEF DevicesOK, NoForce
<1>3. JobsOK' /\ GlobalsOK' /\ DevicesOK' /\ Undisturbed'
  BY <1>0, <1>1, <1>2
  DEF globals, proof, view, book, JobsOK, GlobalsOK, DevicesOK, Undisturbed, ChangesKeys, At
<1>4. ClaimHolds'
  BY <1>0, <1>1 DEF ClaimHolds, globals, book
<1>5. ASSUME NEW t \in Thread, job'[t].alone
      PROVE  Progress(t)'
  <2>1. Progress(t) /\ job'[t] = job[t] /\ UNCHANGED <<loadedId, macKey>> /\ Pushed' = Pushed
    BY <1>1, <1>5 DEF DashboardInv, globals, Pushed
  <2>2. job[t].at \notin {"fetch", "open", "write", "push", "load", "assign", "unprove", "query",
                          "decide", "body"}
    BY <1>1, <2>1 DEF Progress
  <2>3. Pushed.id = loadedId
    BY DEF Pushed
  <2> QED
    BY <1>1, <2>1, <2>2, <2>3 DEF Progress, At
<1> QED
  BY <1>3, <1>4, <1>5 DEF DashboardInv

-----------------------------------------------------------------------------
LEMMA InitDashboard ==
  ASSUME Init
  PROVE  DashboardInv
<1>1. file \in MaybeKey /\ issued = file
  BY Constants DEF Init
<1>2. JobsOK /\ \A t \in Thread : ~job[t].alone /\ ~ChangesKeys(t)
  BY IdleJob DEF Init, JobsOK, ChangesKeys
<1>3. GlobalsOK
  <2>1. verified \in BOOLEAN /\ wifiPeer \in BOOLEAN /\ feedOn \in BOOLEAN
    BY DEF Init
  <2>2. age \in 0 .. Window + 1
    BY Constants DEF Init
  <2>3. claim \in [key : MaybeKey, by : {"none", "load", "push", "challenge"}] /\ monitor.id \in MaybeKey
    BY Constants DEF Init, NoClaim
  <2> QED
    BY <1>1, <2>1, <2>2, <2>3, Constants DEF Init, GlobalsOK
<1>4. DevicesOK
  <2>1. pi4 \in Material /\ force \in Material
    BY <1>1, Constants DEF Init, NoForce
  <2>2. up \in BOOLEAN /\ optical \subseteq Key
    BY DEF Init
  <2> QED
    BY <1>1, <2>1, <2>2, Constants DEF Init, DevicesOK
<1>5. claim = NoClaim
  BY DEF Init
<1> QED
  BY <1>2, <1>3, <1>4, <1>5 DEF DashboardInv, Undisturbed, ClaimHolds, NoClaim

LEMMA StutterKeeps ==
  ASSUME DashboardInv, UNCHANGED vars
  PROVE  DashboardInv'
<1>1. UNCHANGED <<job, core>> /\ GlobalsOK' /\ DevicesOK'
  BY DEF DashboardInv, vars, globals, proof, view, devices, book, core, GlobalsOK, DevicesOK
<1> QED
  BY <1>1, NoHandlerMoves

(* An operation that is alone finds the globals and the mailbox as it left *)
(* them, and what it reported stays so until the next operation begins,    *)
(* whatever the frames, the monitor, the user and the Pi4 do meanwhile.    *)
THEOREM DashboardInvariant == Spec => []DashboardInv
<1>1. Init => DashboardInv
  BY InitDashboard
<1>2. DashboardInv /\ [Next]_vars => DashboardInv'
  BY StartKeeps, HandlerKeeps, MonitorKeeps, ViewKeeps, ReachKeeps, AdoptOtherKeeps,
     AdoptForcedKeeps, StutterKeeps
  DEF Next
<1> QED
  BY <1>1, <1>2, PTL DEF Spec

(* Every global of app.py and every part of a handler's state has its      *)
(* type, and a sync polls at most as often as it says.                     *)
THEOREM DashboardTypeCorrect == Spec => []TypeOK
<1>1. DashboardInv => TypeOK
  <2> SUFFICES ASSUME DashboardInv PROVE TypeOK
    OBVIOUS
  <2>1. GlobalsOK /\ DevicesOK /\ JobsOK
    BY DEF DashboardInv
  <2>2. \A t \in Thread : /\ job[t].key \in MaybeKey /\ job[t].mac \in MaybeKey
                          /\ job[t].tries \in 0 .. Retries - 1
    BY <2>1 DEF JobsOK, Jobs
  <2>3. {wifiPeer, feedOn} \subseteq BOOLEAN
    BY <2>1 DEF GlobalsOK
  <2>4. {pi4, force} \subseteq Material
    BY <2>1 DEF DevicesOK
  <2>5. {file, loadedId, macKey, provenId, shownId, pico, event} \subseteq MaybeKey
    BY <2>1 DEF GlobalsOK, DevicesOK
  <2>6. claim.key \in MaybeKey
    BY <2>1 DEF GlobalsOK
  <2> QED
    BY <2>1, <2>2, <2>3, <2>4, <2>5, <2>6 DEF TypeOK, GlobalsOK, DevicesOK
<1> QED
  BY <1>1, DashboardInvariant, PTL

(* What an undisturbed provisioning, reload or challenge reports is so:    *)
(* the dashboard is on one key, the Pi4 gets all of it, and a challenge    *)
(* that verified was answered under the key and the id of the dashboard.   *)
THEOREM ReportsAgree == Spec => []AgreedAsReported
<1>1. DashboardInv => AgreedAsReported
  BY DEF DashboardInv, ClaimHolds, AgreedAsReported
<1> QED
  BY <1>1, DashboardInvariant, PTL
=============================================================================
