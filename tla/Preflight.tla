----------------------------- MODULE Preflight -----------------------------
(***************************************************************************)
(* What the application does to images and one-shot containers, several    *)
(* requests at a time: pulling an image by way of mirrors, the check whose *)
(* probe container has a fixed name, and the one-shot containers of the    *)
(* channel probes with their clean-up.                                     *)
(*                                                                         *)
(* Source: core/src/docker.rs (pull_retag_with_progress, run_tun_probe,    *)
(* run_oneshot_capture, OneshotCleanup), core/src/preflight.rs             *)
(* (run_checks, start_pull), core/src/manager.rs (ensure_image_mirrored),  *)
(* core/src/infra.rs (ensure_mihomo_image_with_progress), core/src/api.rs  *)
(* (preflight_check, preflight_fix), core/src/store.rs (enabled_mirrors).  *)
(*                                                                         *)
(* All pulls are of one image.  Mirrors are tried in any order: their      *)
(* priorities are the user's.  Left out: progress and logs of a pull, the  *)
(* version lists, the checks that only read (network, disk, version,       *)
(* mihomo).  A task that is idle serves the next request, whose container   *)
(* is another one: what an earlier request has lost is not followed.        *)
(***************************************************************************)
EXTENDS Naturals

CONSTANTS
    Tasks,      \* requests and background tasks
    Mirrors,    \* hosts of mirrors
    MirrorLists,\* those a pull is given: the enabled ones; if there is none, or the
                \* table cannot be read, DEFAULT_MIRRORS
    NoMirror

ASSUME PreflightAssumption ==
    MirrorLists \subseteq (SUBSET Mirrors) \ {{}} /\ NoMirror \notin Mirrors

VARIABLES
    (* dockerd *)
    device,     \* the VM has /dev/net/tun
    tag,        \* architecture of the image under its own tag
    temp,       \* and under each mirror's tag
    probe,      \* the container vpncore-tun-probe
    shot,       \* the one-shot container of the task's request exists
    (* the application *)
    pc,         \* where each task is
    todo,       \* mirrors it has not tried yet
    at,         \* the mirror it tries
    waited,     \* the tasks whose pull a handler waits for
    answer,     \* the outcome of the pull, or the verdict of the check so far
    guard,      \* a removal Drop has spawned for the task's container
    (* history *)
    sound,      \* mirrors that have failed nobody since the pull of the task began
    crossed,    \* what the task has inspected is not what it is about to tag
    lost        \* its container has nobody left to remove it

docker  == <<device, tag, temp, probe, shot>>
history == <<sound, crossed, lost>>
vars    == <<docker, pc, todo, at, waited, answer, guard, history>>

Places    ==
    {"idle", "look", "boot", "hub", "next", "pulling", "inspect", "mismatch", "tag", "untag",
     "ping", "present", "arch", "clear", "make", "start", "wait", "remove",
     "create", "exec", "cleanup"}
Arches    == {"none", "host", "other"}

TypeOK ==
    /\ device \in BOOLEAN /\ tag \in Arches /\ temp \in [Mirrors -> Arches]
    /\ probe \in {"none", "created", "started"} /\ shot \in [Tasks -> BOOLEAN]
    /\ pc \in [Tasks -> Places]
    /\ todo \in [Tasks -> SUBSET Mirrors] /\ at \in [Tasks -> Mirrors \cup {NoMirror}]
    /\ answer \in [Tasks -> {"none", "pass", "bad", "done", "error"}]
    /\ waited \subseteq Tasks /\ guard \in [Tasks -> BOOLEAN] /\ sound \in [Tasks -> SUBSET Mirrors]
    /\ crossed \subseteq Tasks /\ lost \in [Tasks -> BOOLEAN]

Init ==
    /\ device \in BOOLEAN /\ tag \in {"none", "other"}
    /\ temp = [m \in Mirrors |-> "none"]
    /\ probe = "none" /\ shot = [p \in Tasks |-> FALSE]
    /\ pc = [p \in Tasks |-> "idle"]
    /\ todo = [p \in Tasks |-> {}] /\ at = [p \in Tasks |-> NoMirror]
    /\ answer = [p \in Tasks |-> "none"] /\ guard = [p \in Tasks |-> FALSE]
    /\ waited = {} /\ sound = [p \in Tasks |-> {}] /\ crossed = {} /\ lost = [p \in Tasks |-> FALSE]

-----------------------------------------------------------------------------
Goto(p, place) == pc' = [pc EXCEPT ![p] = place]
At(p, place) == pc[p] = place

(* The task takes the next request.                                         *)
Takes(p, place) ==
    /\ At(p, "idle") /\ ~guard[p] /\ (shot[p] => lost[p])
    /\ Goto(p, place) /\ answer' = [answer EXCEPT ![p] = "none"]
    /\ shot' = [shot EXCEPT ![p] = FALSE] /\ lost' = [lost EXCEPT ![p] = FALSE]
    /\ UNCHANGED <<device, tag, temp, probe, at, crossed, guard>>

PullSame   == UNCHANGED <<todo, at, waited, crossed>>
ShotSame   == UNCHANGED <<guard, lost>>

-----------------------------------------------------------------------------
(* Pulling: start_pull, ensure_image_mirrored, ensure_mihomo_image.         *)

PullStep(p) == UNCHANGED <<device, probe, shot>> /\ ShotSame

(* The fix of the user pulls whatever is there, in the background; the      *)
(* creation of a channel and the boot look first.                           *)
StartPull(p) ==
    \E place \in {"next", "look", "boot"}, list \in MirrorLists :
        /\ Takes(p, place)
        /\ todo' = [todo EXCEPT ![p] = list] /\ sound' = [sound EXCEPT ![p] = list]
        /\ waited' = IF place = "look" THEN waited \cup {p} ELSE waited

Finish(p, outcome) ==
    /\ Goto(p, "idle") /\ answer' = [answer EXCEPT ![p] = outcome]
    /\ todo' = [todo EXCEPT ![p] = {}] /\ at' = [at EXCEPT ![p] = NoMirror]
    /\ crossed' = crossed \ {p} /\ waited' = waited \ {p}

(* An image that is there, of whatever architecture, is good enough; one    *)
(* that cannot be inspected counts as missing.                              *)
LookFirst(p) ==
    /\ pc[p] \in {"look", "boot"}
    /\ \/ tag # "none" /\ Finish(p, "done") /\ sound' = [sound EXCEPT ![p] = {}]
       \/ /\ Goto(p, IF At(p, "boot") THEN "hub" ELSE "next")
          /\ PullSame /\ UNCHANGED <<answer, sound>>
    /\ UNCHANGED <<tag, temp>> /\ PullStep(p)

(* ensure_image: by its own name, and the daemon picks its architecture.    *)
PullFromHub(p) ==
    /\ At(p, "hub")
    /\ \/ /\ tag' = "host" /\ Finish(p, "done") /\ sound' = [sound EXCEPT ![p] = {}]
       \/ Goto(p, "next") /\ PullSame /\ UNCHANGED <<tag, answer, sound>>
    /\ UNCHANGED temp /\ PullStep(p)

(* The mirror fails the task, and every pull that is on its way has a       *)
(* reason to call it bad.                                                   *)
Fails(m) == sound' = [q \in Tasks |-> sound[q] \ (IF pc[q] = "idle" THEN {} ELSE {m})]

(* mirror_reachable: one that does not answer is skipped.                   *)
NextMirror(p) ==
    /\ At(p, "next")
    /\ \/ todo[p] = {} /\ Finish(p, "error") /\ UNCHANGED sound
       \/ \E m \in todo[p] :
            /\ todo' = [todo EXCEPT ![p] = @ \ {m}]
            /\ UNCHANGED <<answer, waited, crossed>>
            /\ \/ Goto(p, "pulling") /\ at' = [at EXCEPT ![p] = m] /\ UNCHANGED sound
               \/ Fails(m) /\ UNCHANGED <<pc, at>>
    /\ UNCHANGED <<tag, temp>> /\ PullStep(p)

(* The mirror's turn is over.                                               *)
GoOn(p) ==
    /\ Goto(p, "next") /\ at' = [at EXCEPT ![p] = NoMirror] /\ crossed' = crossed \ {p}
    /\ UNCHANGED <<todo, waited, answer>>

Stay == UNCHANGED <<todo, at, waited, answer, crossed>>

(* create_image: what the mirror has, under the mirror's tag, whatever was  *)
(* there; or an error in the stream.                                        *)
Pull(p) ==
    LET m == at[p] IN
    /\ At(p, "pulling")
    /\ \/ \E a \in {"host", "other"} :
            /\ temp' = [temp EXCEPT ![m] = a]
            /\ IF a = "host" THEN UNCHANGED sound ELSE Fails(m)
            /\ crossed' = IF a = "host" THEN {q \in crossed : at[q] # m}
                          ELSE crossed \cup {q \in Tasks : pc[q] = "tag" /\ at[q] = m}
            /\ Goto(p, "inspect") /\ UNCHANGED <<todo, at, waited, answer>>
       \/ GoOn(p) /\ Fails(m) /\ UNCHANGED temp
    /\ UNCHANGED tag /\ PullStep(p)

(* What is left under a mirror's tag once it has been force-removed, with   *)
(* or without success.                                                      *)
Removed(m) == {temp, [temp EXCEPT ![m] = "none"]}

(* Fault: what the mirror was asked for is what it has sent.                *)
InspectTrusting(p) ==
    LET m == at[p] IN
    /\ At(p, "inspect")
    /\ \/ temp[m] # "none" /\ Goto(p, "tag") /\ Stay /\ UNCHANGED <<temp, sound>>
       \/ GoOn(p) /\ temp' \in Removed(m) /\ (temp[m] = "none" \/ Fails(m))
    /\ UNCHANGED tag /\ PullStep(p)

(* By its tag: what is there now.  With an error, or no architecture, it is *)
(* removed; if nothing is there, another pull took it.                      *)
Inspect(p) ==
    LET m == at[p] IN
    /\ At(p, "inspect")
    /\ \/ temp[m] = "host"  /\ Goto(p, "tag") /\ Stay /\ UNCHANGED <<temp, sound>>
       \/ temp[m] = "other" /\ Goto(p, "mismatch") /\ Stay /\ UNCHANGED <<temp, sound>>
       \/ /\ GoOn(p) /\ temp' \in Removed(m)
          /\ IF temp[m] = "none" THEN UNCHANGED sound ELSE Fails(m)
    /\ UNCHANGED tag /\ PullStep(p)

(* ArchMismatch, or its error when the tag cannot be removed.               *)
Discard(p) ==
    /\ At(p, "mismatch")
    /\ temp' \in Removed(at[p]) /\ GoOn(p) /\ Fails(at[p])
    /\ UNCHANGED tag /\ PullStep(p)

(* Fault: the mirror's tag is removed before the image has its own.         *)
RetagAfterUntag(p) ==
    /\ At(p, "tag")
    /\ temp' = [temp EXCEPT ![at[p]] = "none"] /\ GoOn(p)
    /\ UNCHANGED <<tag, sound>> /\ PullStep(p)

(* tag_image, again by the mirror's tag; it fails if that is gone.          *)
Retag(p) ==
    LET m == at[p] IN
    /\ At(p, "tag")
    /\ \/ temp[m] # "none" /\ tag' = temp[m] /\ Goto(p, "untag") /\ Stay /\ UNCHANGED sound
       \/ temp[m] = "none" /\ GoOn(p) /\ UNCHANGED <<tag, sound>>
       \/ GoOn(p) /\ Fails(m) /\ UNCHANGED tag
    /\ UNCHANGED temp /\ PullStep(p)

(* The mirror's tag goes; if not, that is no failure.                       *)
Untag(p) ==
    /\ At(p, "untag")
    /\ temp' \in Removed(at[p])
    /\ Finish(p, "done") /\ sound' = [sound EXCEPT ![p] = {}]
    /\ UNCHANGED tag /\ PullStep(p)

(* The client of the handler that waits for the pull goes away; a tag the   *)
(* pull has made stays.                                                     *)
DropPull(p) ==
    /\ p \in waited /\ Finish(p, "none") /\ sound' = [sound EXCEPT ![p] = {}]
    /\ UNCHANGED <<tag, temp>> /\ PullStep(p)

-----------------------------------------------------------------------------
(* The check of a channel type: run_checks.                                 *)

(* The worst so far; a warning and a failure are both "bad" here.           *)
Worse(a, b) == IF "bad" \in {a, b} THEN "bad" ELSE "pass"

Found(p, verdict) == answer' = [answer EXCEPT ![p] = Worse(answer[p], verdict)]

StartCheck(p) ==
    /\ Takes(p, "ping") /\ sound' = [sound EXCEPT ![p] = {}] /\ UNCHANGED <<todo, waited>>

CheckStep(p) == UNCHANGED sound /\ PullSame /\ ShotSame

(* Without a daemon everything else is skipped.                             *)
Ping(p) ==
    /\ At(p, "ping")
    /\ \/ Goto(p, "present") /\ Found(p, "pass")
       \/ Goto(p, "idle") /\ Found(p, "bad")
    /\ UNCHANGED docker /\ CheckStep(p)

(* check_image_present; whether it passed decides on the probe below.       *)
CheckPresent(p) ==
    /\ At(p, "present")
    /\ Goto(p, "arch")
    /\ Found(p, IF tag = "none" THEN "bad" ELSE "pass") \/ Found(p, "bad")
    /\ UNCHANGED docker /\ CheckStep(p)

(* check_image_arch_match looks again; the probe is skipped unless the      *)
(* image was there at the first look.                                       *)
CheckArch(p) ==
    /\ At(p, "arch")
    /\ \/ Found(p, IF tag = "other" THEN "bad" ELSE "pass")
       \/ Found(p, "bad")
    /\ Goto(p, IF answer[p] = "pass" THEN "clear" ELSE "idle")
    /\ UNCHANGED docker /\ CheckStep(p)

ProbeStep(p) == UNCHANGED <<device, tag, temp, shot>> /\ CheckStep(p)

(* run_tun_probe: whatever has the name is removed, an error does not count.*)
ClearProbe(p) ==
    /\ At(p, "clear") /\ Goto(p, "make")
    /\ probe' \in {probe, "none"}
    /\ UNCHANGED answer /\ ProbeStep(p)

(* An error ends the check with a warning, and leaves what is there.        *)
ProbeFails(p) == Goto(p, "idle") /\ Found(p, "bad") /\ UNCHANGED probe

MakeProbe(p) ==
    /\ At(p, "make")
    /\ \/ /\ probe = "none" /\ tag # "none"
          /\ probe' = "created" /\ Goto(p, "start") /\ UNCHANGED answer
       \/ ProbeFails(p)
    /\ ProbeStep(p)

(* Fault: an error of the start is not looked at.                           *)
StartProbeUnchecked(p) ==
    /\ At(p, "start")
    /\ probe' = IF probe # "none" /\ device THEN "started" ELSE probe
    /\ Goto(p, "wait") /\ UNCHANGED answer
    /\ ProbeStep(p)

(* By name: whoever's container it is, started already or not.  The daemon  *)
(* starts no container with a device the VM does not have.                  *)
StartProbe(p) ==
    /\ At(p, "start")
    /\ \/ /\ probe # "none" /\ device
          /\ probe' = "started" /\ Goto(p, "wait") /\ UNCHANGED answer
       \/ ProbeFails(p)
    /\ ProbeStep(p)

(* The exit status, or an error of the wait, which is taken for 0 - of a    *)
(* container somebody has removed, too.                                     *)
WaitProbe(p) ==
    /\ At(p, "wait") /\ Goto(p, "remove")
    /\ Found(p, "pass") \/ Found(p, "bad")
    /\ UNCHANGED probe /\ ProbeStep(p)

RemoveProbe(p) ==
    /\ At(p, "remove") /\ Goto(p, "idle")
    /\ probe' \in {probe, "none"}
    /\ UNCHANGED answer /\ ProbeStep(p)

(* The client of the check goes away, and the probe container stays.        *)
DropCheck(p) ==
    /\ pc[p] \in {"ping", "present", "arch", "clear", "make", "start", "wait", "remove"}
    /\ Goto(p, "idle") /\ answer' = [answer EXCEPT ![p] = "none"]
    /\ UNCHANGED docker /\ CheckStep(p)

-----------------------------------------------------------------------------
(* One-shot containers: run_oneshot_capture.                                *)

ShotStep(p) == UNCHANGED <<device, tag, temp, probe, answer, sound>> /\ PullSame

(* The name is new each time.                                               *)
StartCapture(p) ==
    /\ Takes(p, "create") /\ sound' = [sound EXCEPT ![p] = {}] /\ UNCHANGED <<todo, waited>>

(* Docker may have made the container, whose id nobody gets.                *)
NobodysShot(p) ==
    \E made \in BOOLEAN : shot' = [shot EXCEPT ![p] = made] /\ lost' = [lost EXCEPT ![p] = made]

(* An error can come after the fact.                                        *)
CreateShot(p) ==
    /\ At(p, "create")
    /\ \/ shot' = [shot EXCEPT ![p] = TRUE] /\ Goto(p, "exec") /\ UNCHANGED lost
       \/ NobodysShot(p) /\ Goto(p, "idle")
    /\ UNCHANGED guard /\ ShotStep(p)

(* Started, waited for and read, within ten seconds, or not.                *)
ExecShot(p) ==
    /\ At(p, "exec") /\ Goto(p, "cleanup")
    /\ UNCHANGED <<shot, guard, lost>> /\ ShotStep(p)

(* Removed within two seconds; else the guard still has the id when it is   *)
(* dropped, and the request that timed out may get through all the same.    *)
CleanupShot(p) ==
    /\ At(p, "cleanup") /\ Goto(p, "idle")
    /\ \/ shot' = [shot EXCEPT ![p] = FALSE] /\ UNCHANGED guard
       \/ shot' \in {shot, [shot EXCEPT ![p] = FALSE]} /\ guard' = [guard EXCEPT ![p] = TRUE]
    /\ UNCHANGED lost /\ ShotStep(p)

(* Fault: the guard does nothing when it is dropped.                        *)
CancelUnguarded(p) ==
    /\ pc[p] \in {"exec", "cleanup"}
    /\ Goto(p, "idle")
    /\ UNCHANGED <<shot, guard, lost>> /\ ShotStep(p)

(* The client goes away and the request is dropped, and with it the guard,  *)
(* if there is one already.                                                 *)
Cancel(p) ==
    /\ \/ /\ pc[p] \in {"exec", "cleanup"}
          /\ guard' = [guard EXCEPT ![p] = TRUE] /\ UNCHANGED <<shot, lost>>
       \/ /\ pc[p] = "create"
          /\ NobodysShot(p) /\ UNCHANGED guard
    /\ Goto(p, "idle")
    /\ ShotStep(p)

(* What Drop has spawned tries once.                                        *)
DropRemoves(p) ==
    /\ guard[p] /\ guard' = [guard EXCEPT ![p] = FALSE]
    /\ \/ shot' = [shot EXCEPT ![p] = FALSE] /\ UNCHANGED lost
       \/ lost' = [lost EXCEPT ![p] = shot[p]] /\ UNCHANGED shot
    /\ UNCHANGED pc /\ ShotStep(p)

-----------------------------------------------------------------------------
(* The application ends; what docker has stays.                             *)
Die ==
    /\ pc' = [p \in Tasks |-> "idle"] /\ todo' = [p \in Tasks |-> {}]
    /\ at' = [p \in Tasks |-> NoMirror] /\ waited' = {} /\ answer' = [p \in Tasks |-> "none"]
    /\ guard' = [p \in Tasks |-> FALSE] /\ lost' = shot
    /\ sound' = [p \in Tasks |-> {}] /\ crossed' = {}
    /\ UNCHANGED docker

Pulling(p) ==
    \/ LookFirst(p) \/ PullFromHub(p) \/ NextMirror(p) \/ Pull(p) \/ Inspect(p)
    \/ Discard(p) \/ Retag(p) \/ Untag(p) \/ DropPull(p)

Checking(p) ==
    \/ Ping(p) \/ CheckPresent(p) \/ CheckArch(p) \/ ClearProbe(p) \/ MakeProbe(p)
    \/ StartProbe(p) \/ WaitProbe(p) \/ RemoveProbe(p) \/ DropCheck(p)

Capturing(p) == CreateShot(p) \/ ExecShot(p) \/ CleanupShot(p)

Step(p) == Pulling(p) \/ Checking(p) \/ Capturing(p)

Next ==
    \/ \E p \in Tasks : \/ StartPull(p) \/ StartCheck(p) \/ StartCapture(p)
                        \/ Step(p) \/ Cancel(p) \/ DropRemoves(p)
    \/ Die

Spec == Init /\ [][Next]_vars

-----------------------------------------------------------------------------
(* Properties.                                                              *)

(* An image of a foreign architecture gets the image's tag only when two    *)
(* pulls from one mirror cross: tag_image goes by the name inspect_image    *)
(* went by, and what has the name can have changed in between.              *)
ForeignOnlyByCrossing == [][tag' = "other" /\ tag # "other" => crossed # {}]_vars

(* A pull that reports that every mirror has failed is right about each     *)
(* one, or another pull of the image has succeeded: it took the mirror's    *)
(* tag away (start_pull, ensure_image_mirrored, pull_retag).                *)
FailureHasCause ==
    \A p \in Tasks : answer[p] = "error" => sound[p] = {} \/ tag # "none"

(* A check that passes has seen the daemon start a container with the       *)
(* device, be it another check's: run_tun_probe ignores errors of removal   *)
(* and wait, and the name of its container is no check's own.               *)
PassMeansDevice ==
    \A p \in Tasks : pc[p] = "idle" /\ answer[p] = "pass" => device

(* Whatever becomes of its request, a one-shot container has somebody who   *)
(* is going to remove it: the request or what its guard has spawned; unless *)
(* docker refused twice, the application ended, or the request was dropped  *)
(* while docker created the container (OneshotCleanup).                     *)
SomebodyRemoves ==
    \A p \in Tasks : shot[p] => pc[p] \in {"exec", "cleanup"} \/ guard[p] \/ lost[p]

-----------------------------------------------------------------------------
(* The strengthening the properties rest on.                                *)

PullPlaces == {"look", "boot", "hub", "next", "pulling", "inspect", "mismatch", "tag", "untag"}

(* The mirror whose turn it is, and what the task has to say so far.        *)
PlaceInv ==
    \A p \in Tasks :
        /\ IF pc[p] \in {"pulling", "inspect", "mismatch", "tag", "untag"}
             THEN at[p] \in Mirrors ELSE at[p] = NoMirror
        /\ pc[p] \in {"create", "exec", "cleanup"} => answer[p] = "none"
        /\ pc[p] = "arch" => answer[p] \in {"pass", "bad"}
        /\ p \in waited => pc[p] \in PullPlaces

(* What waits to be tagged is of the right architecture, or has changed.    *)
CrossInv == \A p \in Tasks : pc[p] = "tag" /\ p \notin crossed => temp[at[p]] # "other"

(* A probe that was started stands for the device.                          *)
ProbeInv ==
    /\ probe = "started" => device
    /\ \A p \in Tasks : pc[p] \in {"wait", "remove"} => device

(* Every mirror tried without success has failed - somebody: what is gone   *)
(* from under a mirror's tag was removed by a pull that failed, which it    *)
(* has in common with this one, or by one that succeeded.                   *)
SoundInv ==
    \/ tag # "none"
    \/ \A p \in Tasks :
          /\ pc[p] # "untag"
          /\ pc[p] \in PullPlaces
               => sound[p] \subseteq todo[p] \cup {at[p]}
          /\ pc[p] \in {"inspect", "tag"} /\ temp[at[p]] = "none" => at[p] \notin sound[p]
          /\ answer[p] = "error" => sound[p] = {}

Inductive ==
    TypeOK /\ PlaceInv /\ CrossInv /\ ProbeInv /\ SoundInv /\ PassMeansDevice /\ SomebodyRemoves

=============================================================================
