------------------------------ MODULE Startup ------------------------------
(***************************************************************************)
(* The boot sequence of the desktop shell: runtime parameters, VM, docker, *)
(* store and master key, mihomo, server; with its retries, and with an     *)
(* application that ends and is opened again at any point of it.           *)
(*                                                                         *)
(* Source: app/src/main.rs (boot, start_boot, boot_retry, main),           *)
(* core/src/app.rs (bootstrap, serve), core/src/infra.rs (ensure_params),  *)
(* core/src/store.rs (init, master_key), core/src/vm.rs (start, stop,      *)
(* wait_docker_ready, Rosetta), dist/index.html (the retry button).        *)
(*                                                                         *)
(* Left out: progress and its forwarding, logs, PATH and resource          *)
(* directories.  A set of host ports with its secret is a number, newly    *)
(* drawn ones are new numbers; ui_port is one more such number.  A failing *)
(* command, a full disk, an engine that falls silent and a port somebody   *)
(* else holds are faults, MaxFaults of them; the application ends at most  *)
(* MaxDeaths times.                                                        *)
(***************************************************************************)
EXTENDS Naturals, FiniteSets

CONSTANTS
    Boots,      \* the tasks start_boot can spawn
    Legacy,     \* rows of the old domains table
    NewRule,    \* a rule the user adds
    MaxFaults,  \* bound on faults
    MaxDeaths,  \* bound on the ends of the application
    MaxDrawn    \* bound on the numbers drawn

ASSUME StartupAssumption ==
    /\ NewRule \notin Legacy
    /\ MaxFaults \in Nat /\ MaxDeaths \in Nat /\ MaxDrawn \in Nat \ {0, 1}

VARIABLES
    (* what outlives the application *)
    infra,      \* infra.json: absent, torn or whole; base: ports and secret; ui: ui_port, 0: missing
    key,        \* master.key: 0: absent, 1: empty, otherwise a key
    secrets,    \* the keys the stored secrets are encrypted with
    legacy,     \* the old domains table
    rules,      \* the rules table
    rosetta,    \* Rosetta 2 is installed
    vm,         \* the VM runs
    engine,     \* dockerd answers
    image,      \* the mihomo image is there
    box,        \* the container mihomo, and the ports and secret it was made with
    (* the application *)
    running,    \* BootState.running
    pc,         \* where each boot is
    flag,       \* its local rosetta_enabled
    env,        \* the environment ensure_params sets
    served,     \* the server and the watchdog run
    page,       \* what the window shows
    (* history and bounds *)
    ports,      \* the UI ports the application has ever served at
    gone,       \* rules the user has deleted
    emptied,    \* the user has deleted the last rule
    drawn, faults, deaths

disk    == <<infra, key, secrets, legacy, rules>>
machine == <<rosetta, vm, engine, image, box>>
process == <<running, pc, flag, env, served, page>>
history == <<ports, gone, emptied>>
bounds  == <<drawn, faults, deaths>>
vars    == <<disk, machine, process, history, bounds>>

Places ==
    {"idle", "runtime", "writing", "vm", "prompt", "installing", "status", "starting",
     "docker", "stopping", "restarting", "waiting", "store", "key", "keywrite",
     "bind", "bundled", "image", "service", "serve", "navigate", "failing",
     "freeing"}

(* The places at which a boot holds the bound listener.                     *)
Holding == {"bundled", "image", "service", "serve"}

NoBox  == [state |-> "none", base |-> 0]
NoEnv  == [base |-> 0, ui |-> 0]
Absent == [state |-> "absent", base |-> 0, ui |-> 0]
Torn   == [state |-> "torn", base |-> 0, ui |-> 0]
Whole(base, ui) == [state |-> "whole", base |-> base, ui |-> ui]

Alive   == page # "none"
Held    == \E b \in Boots : pc[b] \in Holding
Numbers == 0..MaxDrawn
Rules   == Legacy \cup {NewRule}

TypeOK ==
    /\ infra \in [state: {"absent", "torn", "whole"}, base: Numbers, ui: Numbers]
    /\ key \in Numbers /\ secrets \subseteq Numbers
    /\ legacy \subseteq Legacy /\ rules \subseteq Rules
    /\ rosetta \in BOOLEAN /\ vm \in BOOLEAN /\ engine \in BOOLEAN /\ image \in BOOLEAN
    /\ box \in [state: {"none", "created", "running"}, base: Numbers]
    /\ running \in BOOLEAN /\ pc \in [Boots -> Places] /\ flag \in [Boots -> BOOLEAN]
    /\ env \in [base: Numbers, ui: Numbers]
    /\ served \in BOOLEAN /\ page \in {"none", "loading", "failed", "ui"}
    /\ ports \subseteq Numbers /\ gone \subseteq Rules /\ emptied \in BOOLEAN
    /\ drawn \in Numbers /\ faults \in 0..MaxFaults /\ deaths \in 0..MaxDeaths

(* A first installation, or an update of a version that wrote no ui_port    *)
(* and kept its rules in domains.  The application is not open.             *)
Init ==
    /\ \/ /\ infra = Absent /\ key = 0 /\ secrets = {} /\ legacy = {}
          /\ box = NoBox /\ vm = FALSE /\ image = FALSE /\ drawn = 1
       \/ /\ infra = Whole(2, 0) /\ key = 2 /\ secrets = {2} /\ legacy = Legacy
          /\ box = [state |-> "running", base |-> 2]
          /\ vm \in BOOLEAN /\ image = TRUE /\ drawn = 2
    /\ rules = {} /\ rosetta \in BOOLEAN /\ engine = vm
    /\ running = FALSE /\ pc = [b \in Boots |-> "idle"]
    /\ flag = [b \in Boots |-> FALSE] /\ env = NoEnv
    /\ served = FALSE /\ page = "none"
    /\ ports = {} /\ gone = {} /\ emptied = FALSE
    /\ faults = 0 /\ deaths = 0

-----------------------------------------------------------------------------
Fault == faults < MaxFaults /\ faults' = faults + 1
NoFault == UNCHANGED faults

Goto(b, place) == pc' = [pc EXCEPT ![b] = place]

(* boot returns BootFailure; what it owned is dropped, the listener, too.   *)
Fail(b) == Goto(b, "failing")

(* A step that ends well, and changes nothing of the process but the place. *)
Proceed(b, place) == Goto(b, place) /\ UNCHANGED <<running, flag, env, served, page>>
GiveUp(b)         == Fail(b) /\ UNCHANGED <<running, flag, env, served, page>>

-----------------------------------------------------------------------------
(* Starting a boot.                                                         *)

(* Fault: the flag is set, but nobody looks at it.                          *)
SpawnAnyway(b) ==
    /\ pc[b] = "idle"
    /\ running' = TRUE
    /\ pc' = [pc EXCEPT ![b] = "runtime"]
    /\ flag' = [flag EXCEPT ![b] = FALSE]

(* start_boot: the flag is looked at and set under its lock.                *)
Spawn(b) ==
    /\ ~running /\ pc[b] = "idle"
    /\ running' = TRUE
    /\ pc' = [pc EXCEPT ![b] = "runtime"]
    /\ flag' = [flag EXCEPT ![b] = FALSE]

(* The application is opened: the window shows the loading page.            *)
Launch(b) ==
    /\ ~Alive
    /\ Spawn(b)
    /\ page' = "loading" /\ env' = NoEnv /\ served' = FALSE
    /\ UNCHANGED <<disk, machine, history, bounds>>

(* boot_retry, from the button of the failure panel; while a boot runs the  *)
(* command is refused, and the button stays.                                *)
Retry(b) ==
    /\ page = "failed"
    /\ Spawn(b)
    /\ page' = "loading"
    /\ UNCHANGED <<disk, machine, env, served, history, bounds>>

(* The task tells the page first and frees the flag after.                  *)
ReportFailure(b) ==
    /\ pc[b] = "failing"
    /\ Goto(b, "freeing") /\ page' = "failed"
    /\ UNCHANGED <<disk, machine, running, flag, env, served, history, bounds>>

(* Fault: a boot that failed does not free the flag.                        *)
FreeFlagOnSuccess(b) ==
    /\ pc[b] = "freeing"
    /\ Goto(b, "idle") /\ running' = (page = "failed")
    /\ UNCHANGED <<disk, machine, flag, env, served, page, history, bounds>>

FreeFlag(b) ==
    /\ pc[b] = "freeing"
    /\ Goto(b, "idle") /\ running' = FALSE
    /\ UNCHANGED <<disk, machine, flag, env, served, page, history, bounds>>

-----------------------------------------------------------------------------
(* Runtime: ensure_params.                                                  *)

IfUnset(old, new) == IF old = 0 THEN new ELSE old

SetEnv(base, ui) == env' = [base |-> IfUnset(env.base, base), ui |-> IfUnset(env.ui, ui)]

(* The file is complete: only read.                                         *)
Complete == infra.state = "whole" /\ infra.ui # 0

ReadParams(b) ==
    /\ pc[b] = "runtime" /\ Complete
    /\ SetEnv(infra.base, infra.ui)
    /\ Goto(b, "vm")
    /\ UNCHANGED <<disk, machine, running, flag, served, page, history, bounds>>

(* A torn file is no JSON, now and at every retry.                          *)
ParseFails(b) ==
    /\ pc[b] = "runtime" /\ infra.state = "torn"
    /\ GiveUp(b)
    /\ UNCHANGED <<disk, machine, history, bounds>>

ParamsUnreadable(b) ==
    /\ pc[b] = "runtime" /\ Fault /\ GiveUp(b)
    /\ UNCHANGED <<disk, machine, history, drawn, deaths>>

(* Fault: a ui_port that is filled in does not make the file dirty.         *)
OpenParamsIfAbsent(b) ==
    /\ pc[b] = "runtime" /\ infra.state # "torn" /\ ~Complete
    /\ drawn < MaxDrawn /\ drawn' = drawn + 1
    /\ IF infra = Absent
         THEN infra' = [state |-> "torn", ui |-> drawn', base |-> drawn']
              /\ Proceed(b, "writing")
         ELSE /\ SetEnv(infra.base, drawn') /\ Goto(b, "vm")
              /\ UNCHANGED <<infra, running, flag, served, page>>
    /\ UNCHANGED <<key, secrets, legacy, rules, machine, history, faults, deaths>>

(* Missing numbers are drawn, all of them or ui_port only, and write_0600   *)
(* truncates the file; what it is about to write is in infra already, where *)
(* nobody else can see it.                                                  *)
OpenParams(b) ==
    /\ pc[b] = "runtime" /\ infra.state # "torn" /\ ~Complete
    /\ drawn < MaxDrawn /\ drawn' = drawn + 1
    /\ infra' = [state |-> "torn", ui |-> drawn',
                 base |-> IF infra.state = "whole" THEN infra.base ELSE drawn']
    /\ Proceed(b, "writing")
    /\ UNCHANGED <<key, secrets, legacy, rules, machine, history, faults, deaths>>

(* The write is synced; the environment is set only after it.               *)
WriteParams(b) ==
    /\ pc[b] = "writing"
    /\ infra' = Whole(infra.base, infra.ui)
    /\ SetEnv(infra.base, infra.ui)
    /\ Goto(b, "vm")
    /\ UNCHANGED <<key, secrets, legacy, rules, machine, running, flag, served,
                   page, history, bounds>>

WriteParamsFails(b) ==
    /\ pc[b] = "writing" /\ Fault
    /\ infra' = Torn /\ GiveUp(b)
    /\ UNCHANGED <<key, secrets, legacy, rules, machine, history, drawn, deaths>>

-----------------------------------------------------------------------------
(* Vm: Rosetta, then the VM.                                                *)

VmUnchanged == UNCHANGED <<disk, history, drawn, deaths>>

(* rosetta_available; without it the user is asked, at every boot again.    *)
CheckRosetta(b) ==
    /\ pc[b] = "vm"
    /\ Goto(b, IF rosetta THEN "status" ELSE "prompt")
    /\ flag' = [flag EXCEPT ![b] = rosetta]
    /\ NoFault
    /\ UNCHANGED <<machine, running, env, served, page>> /\ VmUnchanged

(* The dialog: install, skip, or it cannot be shown.                        *)
Prompt(b) ==
    /\ pc[b] = "prompt"
    /\ \/ Proceed(b, "installing") /\ NoFault
       \/ Proceed(b, "status") /\ NoFault
       \/ GiveUp(b) /\ Fault
    /\ UNCHANGED machine /\ VmUnchanged

(* install_rosetta: installed, cancelled, or failed - also when it has      *)
(* ended well and Rosetta still does not run.                               *)
InstallRosetta(b) ==
    /\ pc[b] = "installing"
    /\ \/ /\ rosetta' = TRUE /\ flag' = [flag EXCEPT ![b] = TRUE] /\ NoFault
          /\ Goto(b, "status") /\ UNCHANGED <<running, env, served, page>>
       \/ Proceed(b, "status") /\ NoFault /\ UNCHANGED rosetta
       \/ GiveUp(b) /\ Fault /\ UNCHANGED rosetta
    /\ UNCHANGED <<vm, engine, image, box>> /\ VmUnchanged

(* colima status: an error counts as stopped.                               *)
VmStatus(b) ==
    /\ pc[b] = "status"
    /\ \/ Proceed(b, IF vm THEN "docker" ELSE "starting") /\ NoFault
       \/ vm /\ Proceed(b, "starting") /\ Fault
    /\ UNCHANGED machine /\ VmUnchanged

(* start_args: --vz-rosetta, which fails hard without Rosetta.              *)
StartArgs(b) == flag[b]

(* start_with_progress; what colima had done when it fails is anyone's      *)
(* guess, and that the engine answers is not part of the bargain.           *)
StartVm(b, from, to) ==
    /\ pc[b] = from
    /\ \/ /\ StartArgs(b) => rosetta
          /\ vm' = TRUE
          /\ Proceed(b, to)
          /\ \/ engine' = TRUE /\ NoFault
             \/ UNCHANGED engine /\ Fault
       \/ GiveUp(b) /\ Fault /\ vm' \in {vm, TRUE} /\ engine' \in {engine, vm'}
       \/ /\ StartArgs(b) /\ ~rosetta
          /\ GiveUp(b) /\ NoFault /\ UNCHANGED <<vm, engine>>
    /\ UNCHANGED <<rosetta, image, box>> /\ VmUnchanged

-----------------------------------------------------------------------------
(* Docker: the engine, the store, the listener.                             *)

(* wait_docker_ready for 40 s; an engine that stays silent has the VM       *)
(* restarted, once.                                                         *)
WaitDocker(b) ==
    /\ pc[b] = "docker"
    /\ \/ engine /\ Proceed(b, "store") /\ NoFault
       \/ ~engine /\ Proceed(b, "stopping") /\ NoFault
       \/ engine /\ Proceed(b, "stopping") /\ Fault
    /\ UNCHANGED machine /\ VmUnchanged

StopVm(b) ==
    /\ pc[b] = "stopping"
    /\ \/ vm' = FALSE /\ engine' = FALSE /\ Proceed(b, "restarting") /\ NoFault
       \/ GiveUp(b) /\ Fault /\ UNCHANGED <<vm, engine>>
    /\ UNCHANGED <<rosetta, image, box>> /\ VmUnchanged

(* wait_docker_ready for 180 s.                                             *)
WaitAgain(b) ==
    /\ pc[b] = "waiting"
    /\ IF engine THEN Proceed(b, "store") ELSE GiveUp(b)
    /\ UNCHANGED <<machine, faults>> /\ VmUnchanged

(* Fault: the legacy rows are copied at every boot.                         *)
InitStoreAlways(b) ==
    /\ pc[b] = "store"
    /\ rules' = rules \cup legacy /\ Proceed(b, "key") /\ NoFault
    /\ UNCHANGED <<infra, key, secrets, legacy, machine, history, drawn, deaths>>

(* store::init: the legacy rows are copied whenever there is no rule.       *)
InitStore(b) ==
    /\ pc[b] = "store"
    /\ \/ /\ rules' = IF rules = {} THEN legacy ELSE rules
          /\ Proceed(b, "key") /\ NoFault
       \/ GiveUp(b) /\ Fault /\ UNCHANGED rules
    /\ UNCHANGED <<infra, key, secrets, legacy, machine, history, drawn, deaths>>

(* Fault: a key file is created anew at every boot.                         *)
OpenKeyAlways(b) ==
    /\ pc[b] = "key"
    /\ key' = 1 /\ Proceed(b, "keywrite")
    /\ UNCHANGED <<infra, secrets, legacy, rules, machine, history, bounds>>

(* master_key: only a file that is absent is created; an empty one is read, *)
(* and bootstrap does not look at what was read.                            *)
OpenKey(b) ==
    /\ pc[b] = "key"
    /\ IF key = 0 THEN key' = 1 /\ Proceed(b, "keywrite")
                  ELSE UNCHANGED key /\ Proceed(b, "bind")
    /\ UNCHANGED <<infra, secrets, legacy, rules, machine, history, bounds>>

WriteKey(b) ==
    /\ pc[b] = "keywrite"
    /\ \/ /\ drawn < MaxDrawn /\ drawn' = drawn + 1
          /\ key' = drawn' /\ Proceed(b, "bind") /\ NoFault
       \/ GiveUp(b) /\ Fault /\ UNCHANGED <<key, drawn>>
    /\ UNCHANGED <<infra, secrets, legacy, rules, machine, history, deaths>>

(* Connecting is optional to bootstrap and necessary to boot: without an    *)
(* engine the listener is bound and dropped again.  The port can be held by *)
(* another program, or by the server an earlier boot has left behind.       *)
Bind(b) ==
    /\ pc[b] = "bind"
    /\ \/ /\ ~served /\ ~Held /\ engine
          /\ Proceed(b, "bundled") /\ NoFault
       \/ (served \/ Held \/ ~engine) /\ GiveUp(b) /\ NoFault
       \/ GiveUp(b) /\ Fault
    /\ UNCHANGED machine /\ VmUnchanged

-----------------------------------------------------------------------------
(* Bundled, Mihomo, Service.                                                *)

(* An image that cannot be loaded is a warning.                             *)
LoadBundled(b) ==
    /\ pc[b] = "bundled"
    /\ Proceed(b, "image")
    /\ UNCHANGED <<disk, machine, history, bounds>>

(* ensure_mihomo_image_with_progress: there already, or pulled.             *)
EnsureImage(b) ==
    /\ pc[b] = "image"
    /\ \/ image' = TRUE /\ (image \/ engine) /\ Proceed(b, "service") /\ NoFault
       \/ ~image /\ ~engine /\ GiveUp(b) /\ NoFault /\ UNCHANGED image
       \/ GiveUp(b) /\ Fault /\ UNCHANGED image
    /\ UNCHANGED <<rosetta, vm, engine, box>> /\ VmUnchanged

(* ensure_mihomo: a container that runs is left alone, any other is         *)
(* replaced; one that has been started and whose control API stays silent   *)
(* is an error.  The rebuild that follows warns, and holds nothing up.      *)
EnsureService(b) ==
    /\ pc[b] = "service"
    /\ \/ /\ engine
          /\ box' = IF box.state = "running" THEN box
                    ELSE [state |-> "running", base |-> env.base]
          /\ Proceed(b, "serve") /\ NoFault
       \/ ~engine /\ GiveUp(b) /\ NoFault /\ UNCHANGED box
       \/ /\ GiveUp(b) /\ Fault
          /\ \/ UNCHANGED box
             \/ box.state # "running" /\ box' = NoBox
             \/ /\ box.state # "running"
                /\ \E state \in {"created", "running"} :
                     box' = [state |-> state, base |-> env.base]
    /\ UNCHANGED <<rosetta, vm, engine, image>> /\ VmUnchanged

(* app::serve is spawned: server and watchdog, until the application ends.  *)
Serve(b) ==
    /\ pc[b] = "serve"
    /\ served' = TRUE /\ ports' = ports \cup {env.ui}
    /\ Goto(b, "navigate")
    /\ UNCHANGED <<disk, machine, running, flag, env, page, gone, emptied, bounds>>

Navigate(b) ==
    /\ pc[b] = "navigate"
    /\ \/ page' = "ui" /\ Goto(b, "freeing") /\ NoFault
       \/ Fail(b) /\ Fault /\ UNCHANGED page
    /\ UNCHANGED <<machine, running, flag, env, served>> /\ VmUnchanged

-----------------------------------------------------------------------------
(* The user in the UI.                                                      *)

(* A channel with a secret is added: master_key is read, or made, again,    *)
(* and an empty one refuses to encrypt.                                     *)
AddSecret ==
    /\ page = "ui" /\ key > 1
    /\ secrets' = secrets \cup {key}
    /\ UNCHANGED <<infra, key, legacy, rules, machine, process, history, bounds>>

DeleteRule(r) ==
    /\ page = "ui" /\ r \in rules
    /\ rules' = rules \ {r}
    /\ gone' = gone \cup {r} /\ emptied' = (emptied \/ rules' = {})
    /\ UNCHANGED <<infra, key, secrets, legacy, machine, process, ports, bounds>>

AddRule ==
    /\ page = "ui" /\ rules' = rules \cup {NewRule} /\ gone' = gone \ {NewRule}
    /\ UNCHANGED <<infra, key, secrets, legacy, machine, process, ports, emptied, bounds>>

-----------------------------------------------------------------------------
(* What else happens.                                                       *)

(* The application is quit, or crashes.  A colima it was waiting for goes   *)
(* on without it: kill_on_drop needs somebody to drop.                      *)
Die ==
    /\ Alive /\ deaths < MaxDeaths /\ deaths' = deaths + 1
    /\ running' = FALSE /\ pc' = [b \in Boots |-> "idle"]
    /\ flag' = [b \in Boots |-> FALSE] /\ env' = NoEnv
    /\ served' = FALSE /\ page' = "none"
    /\ infra' = IF infra.state = "torn" THEN Torn ELSE infra
    /\ \/ UNCHANGED <<vm, engine>>
       \/ /\ \E b \in Boots : pc[b] \in {"starting", "restarting"}
          /\ vm' = TRUE /\ engine' = TRUE
    /\ UNCHANGED <<key, secrets, legacy, rules, rosetta, image, box, history,
                   drawn, faults>>

VmStops == /\ vm /\ Fault /\ vm' = FALSE /\ engine' = FALSE
           /\ UNCHANGED <<rosetta, image, box, process>> /\ VmUnchanged

EngineSilent == /\ engine /\ Fault /\ engine' = FALSE
                /\ UNCHANGED <<rosetta, vm, image, box, process>> /\ VmUnchanged

-----------------------------------------------------------------------------
Boot(b) ==
    \/ ReadParams(b) \/ ParseFails(b) \/ ParamsUnreadable(b) \/ OpenParams(b)
    \/ WriteParams(b) \/ WriteParamsFails(b)
    \/ CheckRosetta(b) \/ Prompt(b) \/ InstallRosetta(b) \/ VmStatus(b)
    \/ StartVm(b, "starting", "docker")
    \/ WaitDocker(b) \/ StopVm(b) \/ StartVm(b, "restarting", "waiting") \/ WaitAgain(b)
    \/ InitStore(b) \/ OpenKey(b) \/ WriteKey(b) \/ Bind(b)
    \/ LoadBundled(b) \/ EnsureImage(b) \/ EnsureService(b) \/ Serve(b) \/ Navigate(b)
    \/ ReportFailure(b) \/ FreeFlag(b)

User == AddSecret \/ AddRule \/ \E r \in Rules : DeleteRule(r)

Next ==
    \/ \E b \in Boots : Boot(b) \/ Launch(b) \/ Retry(b)
    \/ User \/ Die \/ VmStops \/ EngineSilent

Spec == Init /\ [][Next]_vars

(* A boot goes on: every wait in it has a timeout, or waits for a command   *)
(* or a dialog that ends.  The user opens the application again and goes on *)
(* clicking the button.                                                     *)
FairSpec ==
    /\ Spec
    /\ \A b \in Boots : WF_vars(Boot(b))
    /\ WF_vars(\E b \in Boots : Launch(b)) /\ WF_vars(\E b \in Boots : Retry(b))

-----------------------------------------------------------------------------
(* Properties.                                                              *)

(* However boots are retried, one goes on at a time, and once the server    *)
(* runs no other boot gets past the listener: one watchdog, one server, one *)
(* hand that creates VM and container (start_boot's flag, bootstrap's bind).*)
OneBoot ==
    /\ Cardinality({b \in Boots : pc[b] # "idle"}) <= 1
    /\ served => ~Held

(* The ports and the secret last: the application is only ever served at    *)
(* one UI port (the PAC URL depends on it), and a running container has the *)
(* ports and the secret the application uses, after deaths and failures at  *)
(* any point of a boot (ensure_params, ensure_mihomo).                      *)
ParamsStick ==
    /\ Cardinality(ports) <= 1
    /\ served /\ box.state = "running" => box.base = env.base

(* What was encrypted can be decrypted: no boot replaces a key, half        *)
(* written or whole, that something stored depends on (master_key).         *)
SecretsReadable == secrets \subseteq {key}

(* A deleted rule comes back only if the user has once deleted the last     *)
(* one: init migrates whenever it finds no rule, not once.                  *)
DeletedRulesStay == rules \cap gone # {} => emptied

(* infra.json was torn, and is never replaced; or the window did not follow *)
(* the server, whose port no retry gets again.                              *)
DeadEnd == infra.state = "torn" \/ (served /\ page # "ui")

(* With faults and deaths coming to an end, and a user who goes on, the UI  *)
(* appears - or one of the two dead ends no retry leads out of.             *)
BootSettles == <>[](page = "ui" \/ DeadEnd)

-----------------------------------------------------------------------------
(* The strengthening the safety properties rest on.                         *)

(* The flag covers every place of the one boot that goes on.                *)
BootInv ==
    /\ \A a, b \in Boots : pc[a] # "idle" /\ pc[b] # "idle" => a = b
    /\ \A b \in Boots : pc[b] # "idle" => running
    /\ served => \A b \in Boots : pc[b] \notin Holding

(* Whatever is in use - environment, container, served port - is what the   *)
(* file says, and a file that is being replaced is not in use.              *)
Early == {"idle", "runtime", "writing", "failing", "freeing"}
ParamsInv ==
    /\ env # NoEnv => Complete /\ env = [base |-> infra.base, ui |-> infra.ui]
    /\ \A b \in Boots : pc[b] \notin Early => env # NoEnv
    /\ served => env # NoEnv
    /\ ports \subseteq {infra.ui} /\ (ports # {} => Complete)
    /\ infra.state = "whole" => infra.base # 0
    /\ infra.state = "absent" => infra = Absent /\ box.state # "running"
    /\ \A b \in Boots : pc[b] = "writing" =>
          infra.state = "torn" /\ infra.base # 0 /\ infra.ui # 0
    /\ box.state = "running" => infra = Torn \/ box.base = infra.base

(* No key is written over one that a secret depends on.                     *)
KeyInv ==
    /\ secrets \subseteq {key} /\ (key \in {0, 1} => secrets = {})
    /\ \A b \in Boots : pc[b] = "keywrite" => key = 1

(* Until the last rule is deleted, an empty table is one that never had any.*)
RuleInv == ~emptied => rules \cap gone = {} /\ (rules = {} => gone = {})

Inductive == TypeOK /\ BootInv /\ ParamsInv /\ KeyInv /\ RuleInv

=============================================================================
