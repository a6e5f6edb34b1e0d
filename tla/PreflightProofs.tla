-------------------------- MODULE PreflightProofs --------------------------
(***************************************************************************)
(* Safety of pulls, checks and one-shot containers for any number of tasks *)
(* and mirrors, and any lists of mirrors.                                  *)
(***************************************************************************)
EXTENDS Preflight, TLAPS

(* The start is within the strengthening.                                   *)
LEMMA InitHolds == ASSUME Init PROVE Inductive
<1> USE PreflightAssumption DEF Init
<1>1. TypeOK BY DEF TypeOK, Places, Arches
<1>2. PlaceInv /\ CrossInv /\ ProbeInv /\ SoundInv
      BY DEF PlaceInv, CrossInv, ProbeInv, SoundInv, PullPlaces
<1>3. PassMeansDevice /\ SomebodyRemoves BY DEF PassMeansDevice, SomebodyRemoves
<1> QED BY <1>1, <1>2, <1>3 DEF Inductive

-----------------------------------------------------------------------------
(* Types.                                                                   *)

(* A pull goes on.                                                          *)
LEMMA PullTypes == ASSUME Inductive, NEW p \in Tasks, Pulling(p) PROVE TypeOK'
<1>0. TypeOK /\ PlaceInv BY DEF Inductive
<1> USE PreflightAssumption DEF Goto, At, PullSame, ShotSame, PullStep, Finish, GoOn, Stay, Fails, Removed, CheckStep, ProbeStep,
        ProbeFails, Found, Worse, ShotStep, NobodysShot, Takes, docker
<1> USE DEF TypeOK, Places, Arches, PlaceInv
<1>1. CASE LookFirst(p) BY <1>0, <1>1 DEF LookFirst
<1>2. CASE PullFromHub(p) BY <1>0, <1>2 DEF PullFromHub
<1>3. CASE NextMirror(p) BY <1>0, <1>3 DEF NextMirror
<1>4. CASE Pull(p) BY <1>0, <1>4 DEF Pull
<1>5. CASE Inspect(p) BY <1>0, <1>5 DEF Inspect
<1>6. CASE Discard(p) BY <1>0, <1>6 DEF Discard
<1>7. CASE Retag(p) BY <1>0, <1>7 DEF Retag
<1>8. CASE Untag(p) BY <1>0, <1>8 DEF Untag
<1>9. CASE DropPull(p) BY <1>0, <1>9 DEF DropPull
<1> QED BY <1>1, <1>2, <1>3, <1>4, <1>5, <1>6, <1>7, <1>8, <1>9 DEF Pulling

(* A check goes on.                                                         *)
LEMMA CheckTypes == ASSUME Inductive, NEW p \in Tasks, Checking(p) PROVE TypeOK'
<1>0. TypeOK /\ PlaceInv BY DEF Inductive
<1> USE PreflightAssumption DEF Goto, At, PullSame, ShotSame, PullStep, Finish, GoOn, Stay, Fails, Removed, CheckStep, ProbeStep,
        ProbeFails, Found, Worse, ShotStep, NobodysShot, Takes, docker
<1> USE DEF TypeOK, Places, Arches, PlaceInv
<1>1. CASE Ping(p) BY <1>0, <1>1 DEF Ping
<1>2. CASE CheckPresent(p) BY <1>0, <1>2 DEF CheckPresent
<1>3. CASE CheckArch(p) BY <1>0, <1>3 DEF CheckArch
<1>4. CASE ClearProbe(p) BY <1>0, <1>4 DEF ClearProbe
<1>5. CASE MakeProbe(p) BY <1>0, <1>5 DEF MakeProbe
<1>6. CASE StartProbe(p) BY <1>0, <1>6 DEF StartProbe
<1>7. CASE WaitProbe(p) BY <1>0, <1>7 DEF WaitProbe
<1>8. CASE RemoveProbe(p) BY <1>0, <1>8 DEF RemoveProbe
<1>9. CASE DropCheck(p) BY <1>0, <1>9 DEF DropCheck
<1> QED BY <1>1, <1>2, <1>3, <1>4, <1>5, <1>6, <1>7, <1>8, <1>9 DEF Checking

(* A one-shot container.                                                    *)
LEMMA CaptureTypes == ASSUME Inductive, NEW p \in Tasks, Capturing(p) PROVE TypeOK'
<1>0. TypeOK /\ PlaceInv BY DEF Inductive
<1> USE PreflightAssumption DEF Goto, At, PullSame, ShotSame, PullStep, Finish, GoOn, Stay, Fails, Removed, CheckStep, ProbeStep,
        ProbeFails, Found, Worse, ShotStep, NobodysShot, Takes, docker
<1> USE DEF TypeOK, Places, Arches, PlaceInv
<1>1. CASE CreateShot(p)
  <2>1. shot' \in [Tasks -> BOOLEAN] BY <1>0, <1>1 DEF CreateShot
  <2>2. lost' \in [Tasks -> BOOLEAN] BY <1>0, <1>1 DEF CreateShot
  <2>3. /\ pc' \in [Tasks -> Places]
        /\ UNCHANGED <<guard, device, tag, temp, probe, answer, sound, todo, at, waited, crossed>>
        BY <1>0, <1>1 DEF CreateShot
  <2> QED BY <1>0, <2>1, <2>2, <2>3
<1>2. CASE ExecShot(p) BY <1>0, <1>2 DEF ExecShot
<1>3. CASE CleanupShot(p) BY <1>0, <1>3 DEF CleanupShot
<1> QED BY <1>1, <1>2, <1>3 DEF Capturing

(* Requests begin, are dropped, and guards remove.                          *)
LEMMA OtherTypes ==
    ASSUME Inductive, NEW p \in Tasks,
           StartPull(p) \/ StartCheck(p) \/ StartCapture(p) \/ Cancel(p) \/ DropRemoves(p)
    PROVE  TypeOK'
<1>0. TypeOK BY DEF Inductive
<1> USE PreflightAssumption DEF Goto, At, PullSame, ShotSame, PullStep, Finish, GoOn, Stay, Fails, Removed, CheckStep, ProbeStep,
        ProbeFails, Found, Worse, ShotStep, NobodysShot, Takes, docker
<1> USE DEF TypeOK, Places, Arches
<1>1. CASE StartPull(p) BY <1>0, <1>1 DEF StartPull
<1>2. CASE StartCheck(p) BY <1>0, <1>2 DEF StartCheck
<1>3. CASE StartCapture(p) BY <1>0, <1>3 DEF StartCapture
<1>4. CASE Cancel(p) BY <1>0, <1>4 DEF Cancel
<1>5. CASE DropRemoves(p) BY <1>0, <1>5 DEF DropRemoves
<1> QED BY <1>1, <1>2, <1>3, <1>4, <1>5

-----------------------------------------------------------------------------
(* What each kind of step is to the rest.                                   *)

(* A pull: places of pulls, an answer that is no verdict, nothing else.     *)
PullEffect(p) ==
    /\ UNCHANGED <<device, probe, shot, guard, lost>>
    /\ pc[p] \in PullPlaces
    /\ \/ /\ \E place \in PullPlaces : pc' = [pc EXCEPT ![p] = place]
          /\ UNCHANGED answer
       \/ /\ pc' = [pc EXCEPT ![p] = "idle"]
          /\ \E a \in {"done", "error", "none"} : answer' = [answer EXCEPT ![p] = a]

LEMMA PullEffects == ASSUME Inductive, NEW p \in Tasks, Pulling(p) PROVE PullEffect(p)
<1>0. TypeOK /\ PlaceInv BY DEF Inductive
<1> USE DEF Goto, At, PullSame, ShotSame, PullStep, Finish, GoOn, Stay, Fails, Removed, CheckStep, ProbeStep,
        ProbeFails, Found, Worse, ShotStep, NobodysShot, Takes, docker
<1> USE DEF TypeOK, PlaceInv, PullPlaces, PullEffect
<1>1. CASE LookFirst(p) BY <1>0, <1>1 DEF LookFirst
<1>2. CASE PullFromHub(p) BY <1>0, <1>2 DEF PullFromHub
<1>3. CASE NextMirror(p) BY <1>0, <1>3 DEF NextMirror
<1>4. CASE Pull(p) BY <1>0, <1>4 DEF Pull
<1>5. CASE Inspect(p) BY <1>0, <1>5 DEF Inspect
<1>6. CASE Discard(p) BY <1>0, <1>6 DEF Discard
<1>7. CASE Retag(p) BY <1>0, <1>7 DEF Retag
<1>8. CASE Untag(p) BY <1>0, <1>8 DEF Untag
<1>9. CASE DropPull(p) BY <1>0, <1>9 DEF DropPull
<1> QED BY <1>1, <1>2, <1>3, <1>4, <1>5, <1>6, <1>7, <1>8, <1>9 DEF Pulling

(* A check: the probe container and its verdict.                            *)
CheckEffect(p) ==
    /\ UNCHANGED <<tag, temp, shot, todo, at, waited, crossed, guard, lost, sound>>
    /\ pc[p] \in {"ping", "present", "arch", "clear", "make", "start", "wait", "remove"}
    /\ \E place \in {"idle", "present", "arch", "clear", "make", "start", "wait", "remove"} :
          pc' = [pc EXCEPT ![p] = place]
    /\ answer' = answer \/ \E a \in {"pass", "bad", "none"} : answer' = [answer EXCEPT ![p] = a]

LEMMA CheckEffects == ASSUME Inductive, NEW p \in Tasks, Checking(p) PROVE CheckEffect(p)
<1>0. TypeOK /\ PlaceInv BY DEF Inductive
<1> USE DEF Goto, At, PullSame, ShotSame, PullStep, Finish, GoOn, Stay, Fails, Removed, CheckStep, ProbeStep,
        ProbeFails, Found, Worse, ShotStep, NobodysShot, Takes, docker
<1> USE DEF TypeOK, CheckEffect
<1>1. CASE Ping(p) BY <1>0, <1>1 DEF Ping
<1>2. CASE CheckPresent(p) BY <1>0, <1>2 DEF CheckPresent
<1>3. CASE CheckArch(p) BY <1>0, <1>3 DEF CheckArch
<1>4. CASE ClearProbe(p) BY <1>0, <1>4 DEF ClearProbe
<1>5. CASE MakeProbe(p) BY <1>0, <1>5 DEF MakeProbe
<1>6. CASE StartProbe(p) BY <1>0, <1>6 DEF StartProbe
<1>7. CASE WaitProbe(p) BY <1>0, <1>7 DEF WaitProbe
<1>8. CASE RemoveProbe(p) BY <1>0, <1>8 DEF RemoveProbe
<1>9. CASE DropCheck(p) BY <1>0, <1>9 DEF DropCheck
<1> QED BY <1>1, <1>2, <1>3, <1>4, <1>5, <1>6, <1>7, <1>8, <1>9 DEF Checking

(* A one-shot container, its request and its guard.                         *)
ShotEffect(p) ==
    /\ UNCHANGED <<device, tag, temp, probe, answer, sound, todo, at, waited, crossed>>
    /\ \/ pc' = pc
       \/ /\ pc[p] \in {"create", "exec", "cleanup"}
          /\ \E place \in {"idle", "exec", "cleanup"} : pc' = [pc EXCEPT ![p] = place]

LEMMA ShotEffects ==
    ASSUME NEW p \in Tasks, Capturing(p) \/ Cancel(p) \/ DropRemoves(p)
    PROVE  ShotEffect(p)
<1> USE DEF Goto, At, PullSame, ShotSame, PullStep, Finish, GoOn, Stay, Fails, Removed, CheckStep, ProbeStep,
        ProbeFails, Found, Worse, ShotStep, NobodysShot, Takes, docker
<1> USE DEF ShotEffect
<1>1. CASE CreateShot(p) BY <1>1 DEF CreateShot
<1>2. CASE ExecShot(p) BY <1>2 DEF ExecShot
<1>3. CASE CleanupShot(p) BY <1>3 DEF CleanupShot
<1>4. CASE Cancel(p) BY <1>4 DEF Cancel
<1>5. CASE DropRemoves(p) BY <1>5 DEF DropRemoves
<1> QED BY <1>1, <1>2, <1>3, <1>4, <1>5 DEF Capturing

(* A new request, of whatever kind.                                         *)
TakeEffect(p) ==
    /\ UNCHANGED <<device, tag, temp, probe, at, crossed, guard>>
    /\ pc[p] = "idle" /\ ~guard[p]
    /\ answer' = [answer EXCEPT ![p] = "none"]
    /\ shot' = [shot EXCEPT ![p] = FALSE] /\ lost' = [lost EXCEPT ![p] = FALSE]
    /\ \/ /\ \E place \in {"next", "look", "boot"} : pc' = [pc EXCEPT ![p] = place]
          /\ \E list \in MirrorLists : /\ todo' = [todo EXCEPT ![p] = list]
                                       /\ sound' = [sound EXCEPT ![p] = list]
          /\ waited' \in {waited, waited \cup {p}}
       \/ /\ \E place \in {"ping", "create"} : pc' = [pc EXCEPT ![p] = place]
          /\ sound' = [sound EXCEPT ![p] = {}] /\ UNCHANGED <<todo, waited>>

LEMMA TakeEffects ==
    ASSUME NEW p \in Tasks, StartPull(p) \/ StartCheck(p) \/ StartCapture(p)
    PROVE  TakeEffect(p)
BY DEF StartPull, StartCheck, StartCapture, Takes, TakeEffect, Goto, At

-----------------------------------------------------------------------------
(* The strengthening, part by part.                                         *)

(* The steps, by what they are about.                                       *)
LEMMA Kinds ==
    ASSUME Next
    PROVE  Die \/ \E p \in Tasks : \/ Pulling(p) \/ Checking(p)
                                   \/ Capturing(p) \/ Cancel(p) \/ DropRemoves(p)
                                   \/ StartPull(p) \/ StartCheck(p) \/ StartCapture(p)
BY DEF Next, Step

(* PlaceInv: whoever is at a mirror has one.                                *)
LEMMA PullPlace == ASSUME Inductive, NEW p \in Tasks, Pulling(p) PROVE PlaceInv'
<1>0. TypeOK /\ PlaceInv BY DEF Inductive
<1> USE PreflightAssumption DEF Goto, At, PullSame, ShotSame, PullStep, Finish, GoOn, Stay, Fails, Removed, CheckStep, ProbeStep,
        ProbeFails, Found, Worse, ShotStep, NobodysShot, Takes, docker
<1> USE DEF TypeOK, PlaceInv, PullPlaces
<1>1. CASE LookFirst(p) BY <1>0, <1>1 DEF LookFirst
<1>2. CASE PullFromHub(p) BY <1>0, <1>2 DEF PullFromHub
<1>3. CASE NextMirror(p) BY <1>0, <1>3 DEF NextMirror
<1>4. CASE Pull(p) BY <1>0, <1>4 DEF Pull
<1>5. CASE Inspect(p) BY <1>0, <1>5 DEF Inspect
<1>6. CASE Discard(p) BY <1>0, <1>6 DEF Discard
<1>7. CASE Retag(p) BY <1>0, <1>7 DEF Retag
<1>8. CASE Untag(p) BY <1>0, <1>8 DEF Untag
<1>9. CASE DropPull(p) BY <1>0, <1>9 DEF DropPull
<1> QED BY <1>1, <1>2, <1>3, <1>4, <1>5, <1>6, <1>7, <1>8, <1>9 DEF Pulling

(* PlaceInv: whoever is at a mirror has one.                                *)
LEMMA CheckPlace == ASSUME Inductive, NEW p \in Tasks, Checking(p) PROVE PlaceInv'
<1>0. TypeOK /\ PlaceInv BY DEF Inductive
<1> USE PreflightAssumption DEF Goto, At, PullSame, ShotSame, PullStep, Finish, GoOn, Stay, Fails, Removed, CheckStep, ProbeStep,
        ProbeFails, Found, Worse, ShotStep, NobodysShot, Takes, docker
<1> USE DEF TypeOK, PlaceInv, PullPlaces
<1>1. CASE Ping(p) BY <1>0, <1>1 DEF Ping
<1>2. CASE CheckPresent(p) BY <1>0, <1>2 DEF CheckPresent
<1>3. CASE CheckArch(p) BY <1>0, <1>3 DEF CheckArch
<1>4. CASE ClearProbe(p) BY <1>0, <1>4 DEF ClearProbe
<1>5. CASE MakeProbe(p) BY <1>0, <1>5 DEF MakeProbe
<1>6. CASE StartProbe(p) BY <1>0, <1>6 DEF StartProbe
<1>7. CASE WaitProbe(p) BY <1>0, <1>7 DEF WaitProbe
<1>8. CASE RemoveProbe(p) BY <1>0, <1>8 DEF RemoveProbe
<1>9. CASE DropCheck(p) BY <1>0, <1>9 DEF DropCheck
<1> QED BY <1>1, <1>2, <1>3, <1>4, <1>5, <1>6, <1>7, <1>8, <1>9 DEF Checking

(* PlaceInv: whoever is at a mirror has one.                                *)
LEMMA ShotPlace ==
    ASSUME Inductive, NEW p \in Tasks, Capturing(p) \/ Cancel(p) \/ DropRemoves(p)
    PROVE  PlaceInv'
<1>1. TypeOK /\ PlaceInv BY DEF Inductive
<1>2. ShotEffect(p) BY ShotEffects
<1> QED BY <1>1, <1>2, PreflightAssumption DEF ShotEffect, TypeOK, PlaceInv, PullPlaces

(* PlaceInv: an idle task is at no mirror.                                  *)
LEMMA TakePlace ==
    ASSUME Inductive, NEW p \in Tasks, StartPull(p) \/ StartCheck(p) \/ StartCapture(p)
    PROVE  PlaceInv'
<1>1. TypeOK /\ PlaceInv BY DEF Inductive
<1>2. TakeEffect(p) BY TakeEffects
<1> QED BY <1>1, <1>2, PreflightAssumption DEF TakeEffect, TypeOK, PlaceInv, PullPlaces

(* CrossInv: a pull of the other architecture counts whom it crosses.       *)
LEMMA PullCross == ASSUME Inductive, NEW p \in Tasks, Pulling(p) PROVE CrossInv'
<1>0. TypeOK /\ PlaceInv /\ CrossInv BY DEF Inductive
<1> USE PreflightAssumption DEF Goto, At, PullSame, ShotSame, PullStep, Finish, GoOn, Stay, Fails, Removed, CheckStep, ProbeStep,
        ProbeFails, Found, Worse, ShotStep, NobodysShot, Takes, docker
<1> USE DEF TypeOK, CrossInv, PlaceInv
<1>1. CASE LookFirst(p) BY <1>0, <1>1 DEF LookFirst
<1>2. CASE PullFromHub(p) BY <1>0, <1>2 DEF PullFromHub
<1>3. CASE NextMirror(p) BY <1>0, <1>3 DEF NextMirror
<1>4. CASE Pull(p) BY <1>0, <1>4 DEF Pull
<1>5. CASE Inspect(p) BY <1>0, <1>5 DEF Inspect
<1>6. CASE Discard(p) BY <1>0, <1>6 DEF Discard
<1>7. CASE Retag(p) BY <1>0, <1>7 DEF Retag
<1>8. CASE Untag(p) BY <1>0, <1>8 DEF Untag
<1>9. CASE DropPull(p) BY <1>0, <1>9 DEF DropPull
<1> QED BY <1>1, <1>2, <1>3, <1>4, <1>5, <1>6, <1>7, <1>8, <1>9 DEF Pulling

(* CrossInv: nothing it speaks of changes.                                  *)
LEMMA CheckCross ==
    ASSUME Inductive, NEW p \in Tasks, Checking(p)
    PROVE  CrossInv'
<1>1. TypeOK /\ CrossInv BY DEF Inductive
<1>2. CheckEffect(p) BY CheckEffects
<1> QED BY <1>1, <1>2, PreflightAssumption DEF CheckEffect, TypeOK, CrossInv

(* CrossInv: nothing it speaks of changes.                                  *)
LEMMA ShotCross ==
    ASSUME Inductive, NEW p \in Tasks, Capturing(p) \/ Cancel(p) \/ DropRemoves(p)
    PROVE  CrossInv'
<1>1. TypeOK /\ CrossInv BY DEF Inductive
<1>2. ShotEffect(p) BY ShotEffects
<1> QED BY <1>1, <1>2, PreflightAssumption DEF ShotEffect, TypeOK, CrossInv

(* CrossInv: the task was idle.                                             *)
LEMMA TakeCross ==
    ASSUME Inductive, NEW p \in Tasks, StartPull(p) \/ StartCheck(p) \/ StartCapture(p)
    PROVE  CrossInv'
<1>1. TypeOK /\ CrossInv BY DEF Inductive
<1>2. TakeEffect(p) BY TakeEffects
<1> QED BY <1>1, <1>2, PreflightAssumption DEF TakeEffect, TypeOK, CrossInv

(* ProbeInv and PassMeansDevice: no verdict, and the probe stays.           *)
LEMMA PullProbe ==
    ASSUME Inductive, NEW p \in Tasks, Pulling(p)
    PROVE  (ProbeInv /\ PassMeansDevice)'
<1>1. TypeOK /\ ProbeInv /\ PassMeansDevice BY DEF Inductive
<1>2. PullEffect(p) BY PullEffects
<1> QED BY <1>1, <1>2, PreflightAssumption DEF PullEffect, TypeOK, ProbeInv, PassMeansDevice, PullPlaces

(* ProbeInv and PassMeansDevice: a verdict passes by way of the probe only. *)
LEMMA CheckProbe == ASSUME Inductive, NEW p \in Tasks, Checking(p) PROVE (ProbeInv /\ PassMeansDevice)'
<1>0. TypeOK /\ PlaceInv /\ ProbeInv /\ PassMeansDevice BY DEF Inductive
<1> USE PreflightAssumption DEF Goto, At, PullSame, ShotSame, PullStep, Finish, GoOn, Stay, Fails, Removed, CheckStep, ProbeStep,
        ProbeFails, Found, Worse, ShotStep, NobodysShot, Takes, docker
<1> USE DEF TypeOK, ProbeInv, PassMeansDevice, PlaceInv
<1>1. CASE Ping(p) BY <1>0, <1>1 DEF Ping
<1>2. CASE CheckPresent(p) BY <1>0, <1>2 DEF CheckPresent
<1>3. CASE CheckArch(p) BY <1>0, <1>3 DEF CheckArch
<1>4. CASE ClearProbe(p) BY <1>0, <1>4 DEF ClearProbe
<1>5. CASE MakeProbe(p) BY <1>0, <1>5 DEF MakeProbe
<1>6. CASE StartProbe(p) BY <1>0, <1>6 DEF StartProbe
<1>7. CASE WaitProbe(p) BY <1>0, <1>7 DEF WaitProbe
<1>8. CASE RemoveProbe(p) BY <1>0, <1>8 DEF RemoveProbe
<1>9. CASE DropCheck(p) BY <1>0, <1>9 DEF DropCheck
<1> QED BY <1>1, <1>2, <1>3, <1>4, <1>5, <1>6, <1>7, <1>8, <1>9 DEF Checking

(* ProbeInv and PassMeansDevice: no verdict, and the probe stays.           *)
LEMMA ShotProbe ==
    ASSUME Inductive, NEW p \in Tasks, Capturing(p) \/ Cancel(p) \/ DropRemoves(p)
    PROVE  (ProbeInv /\ PassMeansDevice)'
<1>1. TypeOK /\ PlaceInv /\ ProbeInv /\ PassMeansDevice BY DEF Inductive
<1>2. ShotEffect(p) BY ShotEffects
<1> QED BY <1>1, <1>2, PreflightAssumption DEF ShotEffect, TypeOK, ProbeInv, PassMeansDevice, PlaceInv

(* ProbeInv and PassMeansDevice: a new request has no verdict.              *)
LEMMA TakeProbe ==
    ASSUME Inductive, NEW p \in Tasks, StartPull(p) \/ StartCheck(p) \/ StartCapture(p)
    PROVE  (ProbeInv /\ PassMeansDevice)'
<1>1. TypeOK /\ ProbeInv /\ PassMeansDevice BY DEF Inductive
<1>2. TakeEffect(p) BY TakeEffects
<1> QED BY <1>1, <1>2, PreflightAssumption DEF TakeEffect, TypeOK, ProbeInv, PassMeansDevice

(* SoundInv: a mirror passed over has failed, or its image was taken.       *)
LEMMA PullSound == ASSUME Inductive, NEW p \in Tasks, Pulling(p) PROVE SoundInv'
<1>0. TypeOK /\ PlaceInv /\ SoundInv BY DEF Inductive
<1> USE PreflightAssumption DEF Goto, At, PullSame, ShotSame, PullStep, Finish, GoOn, Stay, Fails, Removed, CheckStep, ProbeStep,
        ProbeFails, Found, Worse, ShotStep, NobodysShot, Takes, docker
<1> USE DEF TypeOK, SoundInv, PlaceInv, PullPlaces, Arches
<1>1. CASE LookFirst(p) BY <1>0, <1>1 DEF LookFirst
<1>2. CASE PullFromHub(p) BY <1>0, <1>2 DEF PullFromHub
<1>3. CASE NextMirror(p) BY <1>0, <1>3 DEF NextMirror
<1>4. CASE Pull(p) BY <1>0, <1>4 DEF Pull
<1>5. CASE Inspect(p) BY <1>0, <1>5 DEF Inspect
<1>6. CASE Discard(p) BY <1>0, <1>6 DEF Discard
<1>7. CASE Retag(p) BY <1>0, <1>7 DEF Retag
<1>8. CASE Untag(p) BY <1>0, <1>8 DEF Untag
<1>9. CASE DropPull(p) BY <1>0, <1>9 DEF DropPull
<1> QED BY <1>1, <1>2, <1>3, <1>4, <1>5, <1>6, <1>7, <1>8, <1>9 DEF Pulling

(* SoundInv: neither mirrors nor images change.                             *)
LEMMA CheckSound ==
    ASSUME Inductive, NEW p \in Tasks, Checking(p)
    PROVE  SoundInv'
<1>1. TypeOK /\ SoundInv BY DEF Inductive
<1>2. CheckEffect(p) BY CheckEffects
<1> QED BY <1>1, <1>2, PreflightAssumption DEF CheckEffect, TypeOK, SoundInv, PullPlaces

(* SoundInv: neither mirrors nor images change.                             *)
LEMMA ShotSound ==
    ASSUME Inductive, NEW p \in Tasks, Capturing(p) \/ Cancel(p) \/ DropRemoves(p)
    PROVE  SoundInv'
<1>1. TypeOK /\ SoundInv BY DEF Inductive
<1>2. ShotEffect(p) BY ShotEffects
<1> QED BY <1>1, <1>2, PreflightAssumption DEF ShotEffect, TypeOK, SoundInv, PullPlaces

(* SoundInv: a new pull has all its mirrors before it.                      *)
LEMMA TakeSound ==
    ASSUME Inductive, NEW p \in Tasks, StartPull(p) \/ StartCheck(p) \/ StartCapture(p)
    PROVE  SoundInv'
<1>1. TypeOK /\ PlaceInv /\ SoundInv BY DEF Inductive
<1>2. TakeEffect(p) BY TakeEffects
<1> QED BY <1>1, <1>2, PreflightAssumption DEF TakeEffect, TypeOK, SoundInv, PlaceInv, PullPlaces

(* SomebodyRemoves: the container and its guard stay.                       *)
LEMMA PullShot ==
    ASSUME Inductive, NEW p \in Tasks, Pulling(p)
    PROVE  SomebodyRemoves'
<1>1. TypeOK /\ SomebodyRemoves BY DEF Inductive
<1>2. PullEffect(p) BY PullEffects
<1> QED BY <1>1, <1>2, PreflightAssumption DEF PullEffect, TypeOK, SomebodyRemoves, PullPlaces

(* SomebodyRemoves: the container and its guard stay.                       *)
LEMMA CheckShot ==
    ASSUME Inductive, NEW p \in Tasks, Checking(p)
    PROVE  SomebodyRemoves'
<1>1. TypeOK /\ SomebodyRemoves BY DEF Inductive
<1>2. CheckEffect(p) BY CheckEffects
<1> QED BY <1>1, <1>2, PreflightAssumption DEF CheckEffect, TypeOK, SomebodyRemoves

(* SomebodyRemoves: the container of a new request is not there yet.        *)
LEMMA TakeShot ==
    ASSUME Inductive, NEW p \in Tasks, StartPull(p) \/ StartCheck(p) \/ StartCapture(p)
    PROVE  SomebodyRemoves'
<1>1. TypeOK /\ SomebodyRemoves BY DEF Inductive
<1>2. TakeEffect(p) BY TakeEffects
<1> QED BY <1>1, <1>2, PreflightAssumption DEF TakeEffect, TypeOK, SomebodyRemoves

(* SomebodyRemoves: whoever lets go of the container leaves a guard.        *)
LEMMA ShotShot ==
    ASSUME Inductive, NEW p \in Tasks, Capturing(p) \/ Cancel(p) \/ DropRemoves(p)
    PROVE  SomebodyRemoves'
<1>0. TypeOK /\ SomebodyRemoves BY DEF Inductive
<1> USE DEF Goto, At, PullSame, ShotSame, PullStep, Finish, GoOn, Stay, Fails, Removed, CheckStep, ProbeStep,
        ProbeFails, Found, Worse, ShotStep, NobodysShot, Takes, docker
<1> USE DEF TypeOK, SomebodyRemoves
<1>1. CASE CreateShot(p) BY <1>0, <1>1 DEF CreateShot
<1>2. CASE ExecShot(p) BY <1>0, <1>2 DEF ExecShot
<1>3. CASE CleanupShot(p) BY <1>0, <1>3 DEF CleanupShot
<1>4. CASE Cancel(p) BY <1>0, <1>4 DEF Cancel
<1>5. CASE DropRemoves(p) BY <1>0, <1>5 DEF DropRemoves
<1> QED BY <1>1, <1>2, <1>3, <1>4, <1>5 DEF Capturing

(* The application ends.                                                    *)
LEMMA DeathKeeps == ASSUME Inductive, Die PROVE Inductive'
<1> USE DEF Die, docker
<1>1. TypeOK' BY DEF Inductive, TypeOK, Places
<1>2. PlaceInv' /\ CrossInv' /\ SoundInv' BY DEF Inductive, PlaceInv, CrossInv, SoundInv, PullPlaces
<1>3. (ProbeInv /\ PassMeansDevice)' BY DEF Inductive, ProbeInv, PassMeansDevice
<1>4. SomebodyRemoves' BY DEF Inductive, SomebodyRemoves, TypeOK
<1> QED BY <1>1, <1>2, <1>3, <1>4 DEF Inductive

(* The strengthening is kept by every step.                                 *)
LEMMA StepKeeps == ASSUME Inductive, [Next]_vars PROVE Inductive'
<1>1. ASSUME NEW p \in Tasks, Pulling(p) PROVE Inductive'
      BY <1>1, PullTypes, PullPlace, PullCross, PullProbe, PullSound, PullShot DEF Inductive
<1>2. ASSUME NEW p \in Tasks, Checking(p) PROVE Inductive'
      BY <1>2, CheckTypes, CheckPlace, CheckCross, CheckProbe, CheckSound, CheckShot DEF Inductive
<1>3. ASSUME NEW p \in Tasks, Capturing(p) \/ Cancel(p) \/ DropRemoves(p) PROVE Inductive'
      BY <1>3, CaptureTypes, OtherTypes, ShotPlace, ShotCross, ShotProbe, ShotSound, ShotShot
         DEF Inductive
<1>4. ASSUME NEW p \in Tasks, StartPull(p) \/ StartCheck(p) \/ StartCapture(p) PROVE Inductive'
      BY <1>4, OtherTypes, TakePlace, TakeCross, TakeProbe, TakeSound, TakeShot DEF Inductive
<1>5. CASE UNCHANGED vars
  <2>1. TypeOK' /\ PlaceInv' /\ CrossInv'
        BY <1>5 DEF Inductive, TypeOK, PlaceInv, CrossInv, vars, docker, history
  <2>2. ProbeInv' /\ SoundInv' /\ PassMeansDevice' /\ SomebodyRemoves'
        BY <1>5 DEF Inductive, ProbeInv, SoundInv, PassMeansDevice, SomebodyRemoves,
                    vars, docker, history
  <2> QED BY <2>1, <2>2 DEF Inductive
<1> QED BY <1>1, <1>2, <1>3, <1>4, <1>5, DeathKeeps, Kinds

-----------------------------------------------------------------------------
(* The theorems.                                                            *)

(* The strengthening holds always: places, what waits to be tagged, what a  *)
(* started probe and a failed mirror stand for.                             *)
THEOREM InductiveInvariant == Spec => []Inductive
<1> QED BY InitHolds, StepKeeps, PTL DEF Spec

(* Every variable keeps its type.                                           *)
THEOREM TypeCorrect == Spec => []TypeOK
<1>1. Inductive => TypeOK BY DEF Inductive
<1> QED BY <1>1, InductiveInvariant, PTL

(* A foreign image gets the tag only when two pulls from one mirror cross.  *)
THEOREM ArchitectureIsChecked == Spec => ForeignOnlyByCrossing
<1>1. ASSUME Inductive, [Next]_vars
      PROVE  [tag' = "other" /\ tag # "other" => crossed # {}]_vars
  <2>1. ASSUME NEW p \in Tasks, Pulling(p), tag' = "other", tag # "other" PROVE crossed # {}
    <3>1. At(p, "tag") /\ temp[at[p]] = "other"
          BY <2>1 DEF Pulling, LookFirst, PullFromHub, NextMirror, Pull, Inspect, Discard, Retag,
                      Untag, DropPull
    <3> QED BY <1>1, <3>1 DEF Inductive, CrossInv, At
  <2>2. ASSUME NEW p \in Tasks, Checking(p) PROVE tag' = tag
        BY <1>1, <2>2, CheckEffects DEF CheckEffect
  <2>3. ASSUME NEW p \in Tasks, Capturing(p) \/ Cancel(p) \/ DropRemoves(p) PROVE tag' = tag
        BY <2>3, ShotEffects DEF ShotEffect
  <2>4. ASSUME NEW p \in Tasks, StartPull(p) \/ StartCheck(p) \/ StartCapture(p)
        PROVE tag' = tag
        BY <2>4, TakeEffects DEF TakeEffect
  <2>5. Die => tag' = tag BY DEF Die, docker
  <2> QED BY <1>1, <2>1, <2>2, <2>3, <2>4, <2>5, Kinds
<1>2. Inductive /\ [Next]_vars => [tag' = "other" /\ tag # "other" => crossed # {}]_vars
      BY <1>1
<1> QED BY <1>2, InductiveInvariant, PTL DEF Spec, ForeignOnlyByCrossing

(* A pull that reports failure has a cause at every mirror, or another one  *)
(* has succeeded.                                                           *)
THEOREM FailuresHaveCauses == Spec => []FailureHasCause
<1>1. Inductive => FailureHasCause BY DEF Inductive, SoundInv, FailureHasCause
<1> QED BY <1>1, InductiveInvariant, PTL

(* A check passes only in a VM that has the device.                         *)
THEOREM VerdictsAreEarned == Spec => []PassMeansDevice
<1>1. Inductive => PassMeansDevice BY DEF Inductive
<1> QED BY <1>1, InductiveInvariant, PTL

(* A one-shot container always has somebody who is going to remove it.      *)
THEOREM ShotsAreRemoved == Spec => []SomebodyRemoves
<1>1. Inductive => SomebodyRemoves BY DEF Inductive
<1> QED BY <1>1, InductiveInvariant, PTL

=============================================================================
