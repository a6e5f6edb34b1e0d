------------------------------ MODULE TunEntry ------------------------------
(***************************************************************************)
(* The app's side of the TUN entry (desktop/core: entry.rs): a flag file   *)
(* says whether the user wants it, the rules in the database say which     *)
(* routes, and the root helper (module TunHelper) is told both over a unix *)
(* socket.                                                                 *)
(*                                                                         *)
(* Enable, disable, install and uninstall are HTTP handlers and may be     *)
(* dropped at an await; every rebuild of the configuration spawns a        *)
(* tun_sync nobody waits for.  Nothing orders these tasks.  The helper     *)
(* serves one connection at a time in the order of the connects; a request *)
(* whose sender has given up or died is served all the same.  The flag     *)
(* file is truncated and written by two system calls, and an install or    *)
(* uninstall script whose handler has given up still runs once the         *)
(* password is typed.                                                      *)
(*                                                                         *)
(* The route set of the rules is named by the version of the database it   *)
(* was read at.  TunHelper shows that engine and routes follow the         *)
(* helper's "desired"; it is all of the helper that is kept here.          *)
(***************************************************************************)
EXTENDS Naturals, Sequences

CONSTANTS
    Tasks,   \* slots for tasks in flight at a time
    NoTask,  \* the sender of a request nobody waits for
    NoRules, \* the empty route set of a database that cannot be read
    MaxVer,  \* bound on the number of rule changes
    MaxQueue \* bound on the connections waiting for the helper

ASSUME NoTaskAssumption  == NoTask \notin Tasks
ASSUME BoundsAssumption  == MaxVer \in Nat /\ MaxQueue \in Nat \ {0}
ASSUME NoRulesAssumption == NoRules \notin 0..MaxVer

VARIABLES
    core,     \* the app's process is alive
    ver,      \* version of the rules in the database
    flag,     \* tun-entry.json: truncated (or absent), garbled, off, on
    task,     \* the tasks in flight
    helper,   \* absent, down, up
    ours,     \* the helper accepts this user
    desired,  \* what the helper was told, on its disk too
    queue,    \* connections the helper has not served yet
    late,     \* scripts that may still run without their handler
    (* history *)
    astray,   \* something can have set flag and helper apart
    stale,    \* something can have kept the newest rules from the helper
    phase     \* busy; calm: only rules change, one rebuild at a time;
              \* healed: one such rebuild has begun

vars == <<core, ver, flag, task, helper, ours, desired, queue, late,
          astray, stale, phase>>

-----------------------------------------------------------------------------
RouteSets == 0..MaxVer \cup {NoRules}
Jobs      == {"none", "sync", "enable", "disable", "install", "uninstall"}
Places    == {"idle", "rebuild", "flag", "rules", "connect", "wait",
              "open", "write", "script"}
Task      == [job: Jobs, at: Places, routes: RouteSets, saw: BOOLEAN]
Request   == [from: Tasks \cup {NoTask}, job: {"sync", "enable", "disable"},
              routes: RouteSets, saw: BOOLEAN]
Desired   == [running: BOOLEAN, routes: RouteSets]

NoJob   == [job |-> "none", at |-> "idle", routes |-> NoRules, saw |-> FALSE]
Default == [running |-> FALSE, routes |-> NoRules]

TypeOK ==
    /\ core \in BOOLEAN /\ ours \in BOOLEAN
    /\ ver \in 0..MaxVer
    /\ flag \in {"empty", "garbled", "off", "on"}
    /\ task \in [Tasks -> Task]
    /\ helper \in {"absent", "down", "up"}
    /\ desired \in Desired
    /\ queue \in Seq(Request)
    /\ late \in SUBSET {"install", "uninstall"}
    /\ astray \in BOOLEAN /\ stale \in BOOLEAN
    /\ phase \in {"busy", "calm", "healed"}

(* No helper yet, or one another user of the machine has installed and may  *)
(* be using.                                                                *)
Init ==
    /\ core = TRUE /\ ver = 0 /\ flag = "empty"
    /\ task = [p \in Tasks |-> NoJob]
    /\ \/ helper = "absent" /\ desired = Default /\ astray = FALSE
       \/ /\ helper = "up"
          /\ desired \in {Default, [running |-> TRUE, routes |-> NoRules]}
          /\ astray = TRUE
    /\ ours = FALSE /\ queue = <<>> /\ late = {}
    /\ stale = TRUE /\ phase = "busy"

-----------------------------------------------------------------------------
(* Building blocks.                                                         *)

TunEnabled == flag = "on"
Calm       == phase # "busy"

Idle(p)      == task[p] = NoJob
At(p, place) == core /\ task[p].at = place
Goto(p, place) == task' = [task EXCEPT ![p].at = place]
Leave(p)     == task' = [task EXCEPT ![p] = NoJob]
Start(p, job, place) ==
    /\ core /\ Idle(p)
    /\ task' = [task EXCEPT ![p] = [NoJob EXCEPT !.job = job, !.at = place]]

Blame      == astray' = TRUE /\ stale' = TRUE
NoBlame    == UNCHANGED <<astray, stale>>

(* What the helper can have been told before.                               *)
Earlier == [running : BOOLEAN, routes : 0..ver \cup {NoRules}]

(* What is lost when a job ends early: a stop, or a route set.              *)
BlameJob(job) == /\ astray' = (astray \/ job = "disable")
                 /\ stale'  = (stale \/ job = "sync")

(* Nobody reads the answer to the request of p any more.                    *)
Orphan(p) == queue' = [i \in DOMAIN queue |->
                         IF queue[i].from = p
                           THEN [queue[i] EXCEPT !.from = NoTask] ELSE queue[i]]

Rest == queue = <<>> /\ late = {} /\ \A p \in Tasks : Idle(p)

-----------------------------------------------------------------------------
(* tun_sync, spawned at the end of every rebuild.                           *)

(* A rule handler commits and runs rebuild.                                 *)
RulesChange(p) ==
    /\ Start(p, "sync", "rebuild")
    /\ ver < MaxVer /\ ver' = ver + 1
    /\ \/ phase = "busy" /\ UNCHANGED phase
       \/ Calm /\ Rest /\ phase' = "healed"
    /\ UNCHANGED <<core, flag, helper, ours, desired, queue, late, astray, stale>>

(* Fault: a rebuild ends without a reconciliation.                          *)
RebuiltAlone(p) ==
    /\ At(p, "rebuild")
    /\ Leave(p)
    /\ UNCHANGED <<core, ver, flag, helper, ours, desired, queue, late, astray,
                   stale, phase>>

Rebuilt(p) ==
    /\ At(p, "rebuild")
    /\ Goto(p, "flag")
    /\ UNCHANGED <<core, ver, flag, helper, ours, desired, queue, late, astray,
                   stale, phase>>

(* Fault: the reconciliation does not ask whether the entry is enabled.     *)
SyncNeverAsks(p) ==
    /\ At(p, "flag") /\ task[p].job = "sync"
    /\ task' = [task EXCEPT ![p].at = "rules", ![p].saw = TunEnabled]
    /\ NoBlame
    /\ UNCHANGED <<core, ver, flag, helper, ours, desired, queue, late, phase>>

(* tun_sync does nothing unless the flag says on.  An enable under way has  *)
(* perhaps read the rules already and not yet set it, or is rewriting it.   *)
SyncLooks(p) ==
    /\ At(p, "flag")
    /\ IF TunEnabled
         THEN /\ task' = [task EXCEPT ![p].at = "rules", ![p].saw = TRUE]
              /\ NoBlame
         ELSE /\ Leave(p)
              /\ stale' = (stale \/ \E q \in Tasks : task[q].job = "enable")
              /\ UNCHANGED astray
    /\ UNCHANGED <<core, ver, flag, helper, ours, desired, queue, late, phase>>

(* The rules are read: all_rules, route_sets.                               *)
ReadRules(p) ==
    /\ At(p, "rules")
    /\ task' = [task EXCEPT ![p].routes = ver, ![p].at = "connect"]
    /\ UNCHANGED <<core, ver, flag, helper, ours, desired, queue, late, astray,
                   stale, phase>>

(* The database cannot be read: a sync gives up, an enable goes on with     *)
(* the empty set.                                                           *)
RulesUnread(p) ==
    /\ At(p, "rules") /\ ~Calm
    /\ IF task[p].job = "sync"
         THEN Leave(p)
         ELSE task' = [task EXCEPT ![p].routes = NoRules, ![p].at = "connect"]
    /\ stale' = TRUE
    /\ UNCHANGED <<core, astray, ver, flag, helper, ours, desired, queue, late, phase>>

-----------------------------------------------------------------------------
(* helper_call: connect, send one line, wait for one line.                  *)

Send(p) ==
    /\ At(p, "connect") /\ helper = "up" /\ Len(queue) < MaxQueue
    /\ queue' = Append(queue, [from |-> p, job |-> task[p].job,
                               routes |-> task[p].routes, saw |-> task[p].saw])
    /\ Goto(p, "wait")
    /\ UNCHANGED <<core, ver, flag, helper, ours, desired, late, astray, stale, phase>>

(* The helper cannot be reached: enable answers with an error, disable with *)
(* a warning, a sync only logs it.                                          *)
Unreachable(p) ==
    /\ At(p, "connect") /\ helper # "up"
    /\ Leave(p) /\ BlameJob(task[p].job)
    /\ UNCHANGED <<core, ver, flag, helper, ours, desired, queue, late, phase>>

(* Eight seconds without an answer, or the client of the handler is gone:   *)
(* the request stays with the helper.                                       *)
GiveUp(p) ==
    /\ At(p, "wait") /\ ~Calm
    /\ Leave(p) /\ Orphan(p)
    /\ UNCHANGED <<core, ver, flag, helper, ours, desired, late, astray, stale, phase>>

(* A client goes away before its handler has come to send: a rebuild ends   *)
(* without its tun_sync, a disable without its stop.                        *)
ClientGone(p) ==
    /\ \/ At(p, "rebuild")
       \/ At(p, "connect") /\ task[p].job # "sync"
    /\ ~Calm
    /\ Leave(p) /\ BlameJob(task[p].job)
    /\ UNCHANGED <<core, ver, flag, helper, ours, desired, queue, late, phase>>

-----------------------------------------------------------------------------
(* The helper.                                                              *)

(* Fault: a request that finds the engine running leaves its routes alone.  *)
ObeyOnce(r) ==
    desired' = IF r.job = "disable" THEN [desired EXCEPT !.running = FALSE]
               ELSE IF desired.running THEN desired
               ELSE [running |-> TRUE, routes |-> r.routes]

Obey(r) ==
    desired' = IF r.job = "disable" THEN [desired EXCEPT !.running = FALSE]
               ELSE [running |-> TRUE, routes |-> r.routes]

(* History: can flag and helper, or rules and routes, be apart after it?    *)
(* An ensure that saw the flag on is served after it went off; an enable is *)
(* served and its handler never hears of it; a stop crosses an enable; the  *)
(* empty set of an unreadable database or an older set comes last.          *)
Judge(r, heard) ==
    IF r.job = "disable"
      THEN astray' = TunEnabled /\ UNCHANGED stale
      ELSE /\ astray' = (\/ astray
                         \/ r.saw /\ ~TunEnabled
                         \/ r.job = "enable" /\ ~heard)
           /\ stale' = (/\ r.routes # ver
                        /\ \/ stale
                           \/ NoRules \in {r.routes, desired.routes}
                           \/ r.routes < desired.routes)

(* The next connection is served.  A refusal is an answer like any other    *)
(* to the app.  The answer can get lost: the helper dies over it.           *)
Serve ==
    /\ helper = "up" /\ queue # <<>>
    /\ queue' = Tail(queue)
    /\ \E answered \in IF Calm THEN {TRUE} ELSE BOOLEAN :
         LET r == Head(queue)
             p == r.from
             heard == answered /\ p # NoTask
         IN  /\ task' = IF p = NoTask THEN task
                        ELSE IF heard /\ r.job = "enable"
                          THEN [task EXCEPT ![p].at = "open"]
                        ELSE [task EXCEPT ![p] = NoJob]
             /\ IF ours THEN Obey(r) /\ Judge(r, heard)
                        ELSE UNCHANGED desired /\ Blame
    /\ UNCHANGED <<core, ver, flag, helper, ours, late, phase>>

(* The socket goes: whoever waits for an answer gets an error.              *)
Disconnect(tasks) ==
    LET lost(job) == \E i \in DOMAIN queue : queue[i].job = job
    IN  /\ queue' = <<>>
        /\ task' = [p \in Tasks |-> IF tasks[p].at = "wait" THEN NoJob ELSE tasks[p]]
        /\ astray' = (astray \/ lost("disable"))
        /\ stale'  = (stale \/ lost("sync"))

HelperDies ==
    /\ helper = "up" /\ ~Calm
    /\ helper' = "down"
    /\ Disconnect(task)
    /\ UNCHANGED <<core, ver, flag, ours, desired, late, phase>>

(* launchd starts the helper again, and it goes on from state.json.  Saving *)
(* ignores every error: the file may have what an earlier request said, or  *)
(* nothing that can be read, which counts as the default.                   *)
HelperRestarts ==
    /\ helper = "down"
    /\ helper' = "up"
    /\ \/ UNCHANGED desired /\ NoBlame
       \/ desired' \in Earlier /\ Blame
    /\ UNCHANGED <<core, ver, flag, task, ours, queue, late, phase>>

-----------------------------------------------------------------------------
(* Enable and disable: tun_apply.                                           *)

Enable(p) ==
    /\ ~Calm /\ Start(p, "enable", "rules")
    /\ UNCHANGED <<core, ver, flag, helper, ours, desired, queue, late, astray, stale,
                   phase>>

(* fs::write opens the file and truncates it ...                            *)
Truncate == flag' = "empty"

(* ... and writes from its first byte: what another writer has put there    *)
(* since shows behind it when it is longer, and "enabled":false is.         *)
WriteOver(text) ==
    flag' = IF text = "on" /\ flag \in {"off", "garbled"} THEN "garbled" ELSE text

Disable(p) ==
    /\ ~Calm /\ Start(p, "disable", "write")
    /\ Truncate
    /\ UNCHANGED <<core, ver, helper, ours, desired, queue, late, astray, stale, phase>>

OpenFlag(p) ==
    /\ At(p, "open")
    /\ Truncate /\ Goto(p, "write")
    /\ UNCHANGED <<core, ver, helper, ours, desired, queue, late, astray, stale, phase>>

(* Only a disable goes on: it has still to send its stop.                   *)
WriteFlag(p) ==
    /\ At(p, "write")
    /\ WriteOver(IF task[p].job = "enable" THEN "on" ELSE "off")
    /\ IF task[p].job = "disable" THEN Goto(p, "connect") ELSE Leave(p)
    /\ astray' = IF flag' = "on" THEN ~desired.running
                ELSE astray \/ (desired.running /\ task[p].job # "disable")
    /\ UNCHANGED <<core, ver, helper, ours, desired, queue, late, stale, phase>>

(* The file cannot be opened or written: enable and disable answer with an  *)
(* error there and then, uninstall ignores it.                              *)
WriteFails(p) ==
    /\ At(p, "open") \/ At(p, "write")
    /\ ~Calm
    /\ Leave(p)
    /\ astray' = TRUE
    /\ UNCHANGED <<core, ver, flag, helper, ours, desired, queue, late, stale, phase>>

-----------------------------------------------------------------------------
(* Install and uninstall: a script run with the user's password.            *)

Install(p) ==
    /\ ~Calm /\ Start(p, "install", "script")
    /\ UNCHANGED <<core, ver, flag, helper, ours, desired, queue, late, astray, stale,
                   phase>>

Uninstall(p) ==
    /\ ~Calm /\ Start(p, "uninstall", "script")
    /\ UNCHANGED <<core, ver, flag, helper, ours, desired, queue, late, astray, stale,
                   phase>>

(* install_script: stop the helper, replace it, write the uid of the data   *)
(* directory's owner, start it: launchd does, a little later, or, when that *)
(* step fails, at the machine's next start.  state.json stays.              *)
InstallScript ==
    /\ helper' = "down" /\ ours' = TRUE
    /\ UNCHANGED desired

(* uninstall_script: helper, engine and state.json are gone.                *)
UninstallScript ==
    /\ helper' = "absent" /\ UNCHANGED ours
    /\ desired' = Default

(* The script ends within the three minutes its handler waits; a failing    *)
(* last step is answered with an error.  Uninstall goes on to the flag.     *)
ScriptRuns(p) ==
    /\ At(p, "script") /\ ~Calm
    /\ \/ /\ task[p].job = "install" /\ InstallScript
          /\ Disconnect([task EXCEPT ![p] = NoJob])
       \/ /\ task[p].job = "uninstall" /\ UninstallScript
          /\ Disconnect([task EXCEPT ![p].at = "open"])
    /\ UNCHANGED <<core, ver, flag, late, phase>>

(* The user cancels, or the script fails before it has changed anything.    *)
ScriptFails(p) ==
    /\ At(p, "script") /\ ~Calm
    /\ Leave(p)
    /\ UNCHANGED <<core, ver, flag, helper, ours, desired, queue, late, astray, stale,
                   phase>>

(* Three minutes are over, or the client is gone: the dialog stays.         *)
ScriptLeft(p) ==
    /\ At(p, "script") /\ ~Calm
    /\ Leave(p)
    /\ late' = late \cup {task[p].job}
    /\ UNCHANGED <<core, ver, flag, helper, ours, desired, queue, astray, stale, phase>>

(* A script without a handler: nobody clears the flag after it.             *)
LateScript ==
    \E job \in late :
        /\ late' = late \ {job}
        /\ queue' = <<>>
        /\ \/ /\ job = "install" /\ InstallScript
           \/ /\ job = "uninstall" /\ UninstallScript
        /\ task' = [p \in Tasks |-> IF task[p].at = "wait" THEN NoJob ELSE task[p]]
        /\ Blame
        /\ UNCHANGED <<core, ver, flag, phase>>

LateScriptCancelled ==
    \E job \in late :
        /\ late' = late \ {job}
        /\ UNCHANGED <<core, ver, flag, task, helper, ours, desired, queue, astray,
                       stale, phase>>

-----------------------------------------------------------------------------
(* The process ends with its tasks; requests and scripts stay.  The next    *)
(* one reconciles when its boot has run the first rebuild.                  *)

CoreDies ==
    /\ core /\ ~Calm
    /\ core' = FALSE
    /\ task' = [p \in Tasks |-> NoJob]
    /\ queue' = [i \in DOMAIN queue |-> [queue[i] EXCEPT !.from = NoTask]]
    /\ late' = late \cup {task[p].job : p \in {q \in Tasks : task[q].at = "script"}}
    /\ IF \A p \in Tasks : Idle(p) THEN NoBlame ELSE Blame
    /\ UNCHANGED <<ver, flag, helper, ours, desired, phase>>

CoreStarts(p) ==
    /\ ~core /\ core' = TRUE
    /\ task' = [task EXCEPT ![p] = [NoJob EXCEPT !.job = "sync", !.at = "flag"]]
    /\ UNCHANGED <<ver, flag, helper, ours, desired, queue, late, astray, stale, phase>>

(* History: nothing but quiet rule changes from here on.                    *)
CalmDown ==
    /\ phase = "busy" /\ phase' = "calm"
    /\ Rest /\ core /\ helper = "up" /\ ours
    /\ UNCHANGED <<core, ver, flag, task, helper, ours, desired, queue, late, astray,
                   stale>>

-----------------------------------------------------------------------------
Handler(p) ==
    \/ RulesChange(p) \/ Enable(p) \/ Disable(p) \/ Install(p) \/ Uninstall(p)

Progress(p) ==
    \/ Rebuilt(p) \/ SyncLooks(p) \/ ReadRules(p) \/ RulesUnread(p)
    \/ Send(p) \/ Unreachable(p) \/ OpenFlag(p) \/ WriteFlag(p) \/ WriteFails(p)

Disturbance(p) ==
    \/ GiveUp(p) \/ ClientGone(p)
    \/ ScriptRuns(p) \/ ScriptFails(p) \/ ScriptLeft(p)

Next ==
    \/ \E p \in Tasks : Handler(p) \/ Progress(p) \/ Disturbance(p) \/ CoreStarts(p)
    \/ Serve \/ HelperDies \/ HelperRestarts
    \/ LateScript \/ LateScriptCancelled
    \/ CoreDies \/ CalmDown

Spec == Init /\ [][Next]_vars

-----------------------------------------------------------------------------
(* Once everything has come to rest, the flag says whether the engine runs, *)
(* unless one of the causes on record happened: a stop that was not         *)
(* delivered, a flag that was not written, a request that was given up, an  *)
(* ensure that saw the flag on and was served after it went off, an enable  *)
(* and a disable that crossed, a refusal, a script without its handler, a   *)
(* helper that came back with what it was told earlier.                     *)
FlagTellsTruth ==
    Rest => (TunEnabled <=> desired.running) \/ astray

(* At rest with the entry enabled the helper has the routes of the newest   *)
(* rules, unless a reconciliation was lost, went without the rules, was     *)
(* skipped while an enable was under way, or was overtaken by a newer one,  *)
(* or the helper came back with what it was told earlier.                   *)
RoutesFollowRules ==
    Rest /\ TunEnabled /\ desired.running =>
        desired.routes = ver \/ stale

(* Whatever went wrong before, one undisturbed rebuild brings engine and    *)
(* routes in line while the entry is enabled (entry.rs: tun_sync).          *)
RebuildHeals ==
    phase = "healed" /\ Rest /\ TunEnabled =>
        desired = [running |-> TRUE, routes |-> ver]

-----------------------------------------------------------------------------
(* The strengthening the properties rest on.                                *)

(* What each job does at each place.                                        *)
Sound(t) ==
    /\ t.at = "idle" => t = NoJob
    /\ t.at \in {"rebuild", "flag"} => t.job = "sync"
    /\ t.at = "rules" => t.job \in {"sync", "enable"}
    /\ t.at \in {"connect", "wait"} => t.job \in {"sync", "enable", "disable"}
    /\ t.at = "open" => t.job \in {"enable", "uninstall"}
    /\ t.at = "write" => t.job \in {"enable", "disable", "uninstall"}
    /\ t.at = "script" => t.job \in {"install", "uninstall"}
    /\ t.job = "sync" /\ t.at \in {"rules", "connect"} => t.saw

TasksInv == /\ ~core => \A p \in Tasks : Idle(p)
            /\ \A p \in Tasks : Sound(task[p])

(* Whose requests the helper has: of each waiting task one.                 *)
QueueInv ==
    \A i \in DOMAIN queue :
        /\ queue[i].job = "sync" => queue[i].saw
        /\ queue[i].from # NoTask =>
              task[queue[i].from].at = "wait" /\ task[queue[i].from].job = queue[i].job
        /\ \A j \in DOMAIN queue :
              queue[i].from # NoTask /\ queue[i].from = queue[j].from => i = j

(* Nobody has rules that are not there yet.                                 *)
RoutesInv ==
    /\ \A p \in Tasks : task[p].routes \in 0..ver \cup {NoRules}
    /\ \A i \in DOMAIN queue : queue[i].routes \in 0..ver \cup {NoRules}

(* The helper is told what the flag says, or somebody is about to tell it,  *)
(* or to change the flag.                                                   *)
AstrayInv ==
    \/ astray
    \/ /\ TunEnabled /\ ~desired.running => \E p \in Tasks : task[p].at = "open"
       /\ ~TunEnabled /\ desired.running =>
             \/ \E p \in Tasks :
                  \/ task[p].at \in {"open", "write"}
                  \/ task[p].at = "connect" /\ task[p].job = "disable"
             \/ \E i \in DOMAIN queue : queue[i].job = "disable"

(* A reconciliation is under way that will bring the newest rules.          *)
Pending ==
    \/ \E p \in Tasks :
          /\ task[p].job = "sync"
          /\ \/ task[p].at \in {"rebuild", "flag", "rules"}
             \/ task[p].at = "connect" /\ task[p].routes = ver
    \/ \E i \in DOMAIN queue : queue[i].job = "sync" /\ queue[i].routes = ver

(* Routes with which a request does no harm: they are the newest, or the    *)
(* newest will follow, or it counts as stale to serve it.                   *)
Overtaken(routes) == NoRules \in {routes, desired.routes} \/ routes < desired.routes
Harmless(routes)  == routes = ver \/ Pending \/ Overtaken(routes)

(* The flag is on, or an enable that has its answer is about to set it.     *)
Wanted == TunEnabled \/ \E p \in Tasks : task[p].job = "enable" /\ task[p].at \in {"open", "write"}

(* Once the entry is wanted, the helper has the newest routes or will have  *)
(* them, and no request in flight takes them away; and the enable that is   *)
(* to make it wanted brings them.                                           *)
InForce  == Wanted /\ desired.running => desired.routes = ver \/ Pending
InFlight ==
    Wanted =>
      /\ \A p \in Tasks : task[p].at = "connect" /\ task[p].job # "disable"
                           => Harmless(task[p].routes)
      /\ \A i \in DOMAIN queue : queue[i].job # "disable" => Harmless(queue[i].routes)
Enabling ==
    /\ \A p \in Tasks : task[p].at = "connect" /\ task[p].job = "enable"
                         => Harmless(task[p].routes)
    /\ \A i \in DOMAIN queue : queue[i].job = "enable" /\ queue[i].from # NoTask
                              => Harmless(queue[i].routes)
StaleInv == stale \/ (InForce /\ InFlight /\ Enabling)

(* In the calm a lone sync takes the newest rules to a helper that listens. *)
CalmInv ==
    Calm =>
      /\ core /\ ours /\ helper = "up" /\ late = {}
      /\ \A p, q \in Tasks : ~Idle(p) /\ ~Idle(q) => p = q
      /\ \A p \in Tasks : ~Idle(p) =>
            /\ task[p].job = "sync" /\ task[p].at \in {"rebuild", "flag", "rules", "connect", "wait"}
            /\ task[p].at \in {"connect", "wait"} => task[p].routes = ver
            /\ task[p].at = "wait" => queue # <<>>
      /\ \A i \in DOMAIN queue :
            queue[i].from # NoTask /\ queue[i].job = "sync" /\ queue[i].routes = ver

Inductive ==
    TypeOK /\ TasksInv /\ QueueInv /\ RoutesInv /\ AstrayInv /\ StaleInv /\ CalmInv /\ RebuildHeals

=============================================================================
