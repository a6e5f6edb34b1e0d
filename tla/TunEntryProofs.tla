--------------------------- MODULE TunEntryProofs ---------------------------
(***************************************************************************)
(* Safety of the app's side of the TUN entry for any number of tasks, any  *)
(* length of the helper's queue and any number of rule changes.            *)
(***************************************************************************)
EXTENDS TunEntry, SequenceTheorems, TLAPS

(* The places of NoJob.                                                     *)
LEMMA NoJobType == NoJob \in Task /\ Sound(NoJob) /\ NoJob.routes = NoRules
BY DEF NoJob, Task, Jobs, Places, RouteSets, Sound

(* What is in the queue.                                                    *)
LEMMA QueueType ==
    ASSUME TypeOK
    PROVE  \A i \in DOMAIN queue :
             /\ queue[i] \in Request /\ queue[i].from \in Tasks \cup {NoTask}
             /\ queue[i].job \in {"sync", "enable", "disable"}
<1>1. \A i \in DOMAIN queue : queue[i] \in Request BY DEF TypeOK
<1> QED BY <1>1 DEF Request

(* An update of a task that stays one.                                      *)
LEMMA TaskUpdate ==
    ASSUME NEW p \in Tasks, NEW t \in Task, task \in [Tasks -> Task], task' = [task EXCEPT ![p] = t]
    PROVE  /\ task' \in [Tasks -> Task] /\ task'[p] = t
           /\ \A q \in Tasks : q # p => task'[q] = task[q]
OBVIOUS

-----------------------------------------------------------------------------
(* What the larger steps come to.                                           *)

(* The task p goes to a place.                                              *)
Moves(p, place) ==
    /\ task' \in [Tasks -> Task]
    /\ task'[p].job = task[p].job /\ task'[p].at = place
    /\ \A q \in Tasks : q # p => task'[q] = task[q]

(* The task p is over.                                                      *)
Ends(p) ==
    /\ task' \in [Tasks -> Task] /\ task'[p] = NoJob
    /\ \A q \in Tasks : q # p => task'[q] = task[q]

LEMMA Ending == ASSUME TypeOK, NEW p \in Tasks, Leave(p) PROVE Ends(p)
BY NoJobType DEF TypeOK, Leave, Ends

LEMMA Moving ==
    ASSUME TypeOK, NEW p \in Tasks, NEW place \in Places, Goto(p, place)
    PROVE  Moves(p, place) /\ task'[p].routes = task[p].routes /\ task'[p].saw = task[p].saw
<1>1. task[p] \in Task BY DEF TypeOK
<1>2. [task[p] EXCEPT !.at = place] \in Task BY <1>1 DEF Task
<1>3. task' = [task EXCEPT ![p] = [task[p] EXCEPT !.at = place]] BY DEF Goto
<1> QED BY <1>1, <1>2, <1>3 DEF Moves, Task, TypeOK

(* A task that is idle is nowhere.                                          *)
LEMMA IdlePlace == \A p \in Tasks : Idle(p) => task[p].at = "idle"
BY DEF Idle, NoJob

(* A handler begins.                                                        *)
LEMMA Starting ==
    ASSUME TypeOK, NEW p \in Tasks, NEW job \in Jobs, NEW place \in Places, Start(p, job, place)
    PROVE  /\ core /\ task[p] = NoJob /\ task' \in [Tasks -> Task]
           /\ task'[p].job = job /\ task'[p].at = place /\ task'[p].routes = NoRules
           /\ \A q \in Tasks : q # p => task'[q] = task[q]
<1>1. [NoJob EXCEPT !.job = job, !.at = place] \in Task BY NoJobType DEF Task
<1>2. /\ [NoJob EXCEPT !.job = job, !.at = place].job = job
      /\ [NoJob EXCEPT !.job = job, !.at = place].at = place
      /\ [NoJob EXCEPT !.job = job, !.at = place].routes = NoRules BY DEF NoJob
<1> QED BY <1>1, <1>2, TaskUpdate DEF Start, Idle, TypeOK

(* A request is sent.                                                       *)
LEMMA SendEffect ==
    ASSUME TypeOK, TasksInv, NEW p \in Tasks, Send(p)
    PROVE  /\ core /\ task[p].at = "connect" /\ helper = "up" /\ Moves(p, "wait")
           /\ task'[p].routes = task[p].routes
           /\ UNCHANGED <<core, ver, flag, helper, ours, desired, late, astray, stale, phase>>
           /\ queue' \in Seq(Request)
           /\ \A i \in DOMAIN queue : i \in DOMAIN queue' /\ queue'[i] = queue[i]
           /\ \E n \in DOMAIN queue' :
                /\ queue'[n].from = p /\ queue'[n].job = task[p].job
                /\ queue'[n].routes = task[p].routes
                /\ \A i \in DOMAIN queue' : i = n \/ (i \in DOMAIN queue /\ queue'[i] = queue[i])
<1>1. /\ core /\ task[p].at = "connect" /\ helper = "up"
      /\ UNCHANGED <<core, ver, flag, helper, ours, desired, late, astray, stale, phase>>
      BY DEF Send, At
<1>2. "wait" \in Places /\ Goto(p, "wait") BY DEF Places, Send
<1>3. Moves(p, "wait") /\ task'[p].routes = task[p].routes BY <1>2, Moving
<1> DEFINE r == [from |-> p, job |-> task[p].job, routes |-> task[p].routes, saw |-> task[p].saw]
<1>4. r \in Request
  <2>1. task[p] \in Task /\ Sound(task[p]) BY DEF TypeOK, TasksInv
  <2>2. task[p].job \in {"sync", "enable", "disable"} BY <1>1, <2>1 DEF Sound
  <2> QED BY <2>1, <2>2 DEF Task, Request
<1>5. r.from = p /\ r.job = task[p].job /\ r.routes = task[p].routes OBVIOUS
<1>6. queue \in Seq(Request) /\ queue' = Append(queue, r) BY DEF TypeOK, Send
<1> HIDE DEF r
<1>7. /\ queue' \in Seq(Request) /\ Len(queue) + 1 \in DOMAIN queue' /\ queue'[Len(queue) + 1] = r
      /\ \A i \in DOMAIN queue : i \in DOMAIN queue' /\ queue'[i] = queue[i]
      /\ \A i \in DOMAIN queue' :
           i = Len(queue) + 1 \/ (i \in DOMAIN queue /\ queue'[i] = queue[i])
      BY <1>4, <1>6
<1> QED BY <1>1, <1>3, <1>5, <1>7

(* A sync looks at the flag.                                                *)
LEMMA SyncEffect ==
    ASSUME TypeOK, NEW p \in Tasks, SyncLooks(p)
    PROVE  /\ core /\ task[p].at = "flag"
           /\ UNCHANGED <<core, ver, flag, helper, ours, desired, queue, late, phase, astray>>
           /\ \/ /\ TunEnabled /\ Moves(p, "rules") /\ task'[p].saw = TRUE
                 /\ task'[p].routes = task[p].routes /\ stale' = stale
              \/ /\ ~TunEnabled /\ Ends(p)
                 /\ stale' = (stale \/ \E q \in Tasks : task[q].job = "enable")
<1>1. task[p] \in Task BY DEF TypeOK
<1>2. CASE TunEnabled
  <2>1. [task[p] EXCEPT !.at = "rules", !.saw = TRUE] \in Task BY <1>1 DEF Task, Places
  <2>2. task' = [task EXCEPT ![p] = [task[p] EXCEPT !.at = "rules", !.saw = TRUE]]
        BY <1>2 DEF SyncLooks
  <2>3. Moves(p, "rules") /\ task'[p].saw = TRUE /\ task'[p].routes = task[p].routes
        BY <1>1, <2>1, <2>2 DEF TypeOK, Moves, Task
  <2> QED BY <1>2, <2>3 DEF SyncLooks, At, NoBlame
<1>3. CASE ~TunEnabled BY <1>3, Ending DEF SyncLooks, At
<1> QED BY <1>2, <1>3

(* The rules are read, or cannot be.                                        *)
LEMMA ReadEffect ==
    ASSUME TypeOK, NEW p \in Tasks, ReadRules(p)
    PROVE  /\ core /\ task[p].at = "rules" /\ Moves(p, "connect")
           /\ task'[p].routes = ver /\ task'[p].saw = task[p].saw
           /\ UNCHANGED <<core, ver, flag, helper, ours, desired, queue, late, astray, stale, phase>>
<1>1. task[p] \in Task /\ ver \in RouteSets BY DEF TypeOK, RouteSets
<1>2. [task[p] EXCEPT !.routes = ver, !.at = "connect"] \in Task BY <1>1 DEF Task, Places
<1>3. task' = [task EXCEPT ![p] = [task[p] EXCEPT !.routes = ver, !.at = "connect"]]
      BY DEF ReadRules
<1> QED BY <1>1, <1>2, <1>3 DEF ReadRules, At, Moves, TypeOK, Task

LEMMA UnreadEffect ==
    ASSUME TypeOK, NEW p \in Tasks, RulesUnread(p)
    PROVE  /\ core /\ ~Calm /\ task[p].at = "rules" /\ stale' = TRUE
           /\ \/ Ends(p)
              \/ /\ task[p].job # "sync" /\ Moves(p, "connect") /\ task'[p].routes = NoRules
           /\ UNCHANGED <<core, astray, ver, flag, helper, ours, desired, queue, late, phase>>
<1>1. task[p] \in Task /\ NoRules \in RouteSets BY DEF TypeOK, RouteSets
<1>2. [task[p] EXCEPT !.routes = NoRules, !.at = "connect"] \in Task BY <1>1 DEF Task, Places
<1>3. CASE task[p].job = "sync" BY <1>3, Ending DEF RulesUnread, At
<1>4. CASE task[p].job # "sync"
  <2>1. task' = [task EXCEPT ![p] = [task[p] EXCEPT !.routes = NoRules, !.at = "connect"]]
        BY <1>4 DEF RulesUnread
  <2> QED BY <1>1, <1>2, <1>4, <2>1 DEF RulesUnread, At, Moves, TypeOK, Task
<1> QED BY <1>3, <1>4

(* The flag is written.                                                     *)
LEMMA WriteEffect ==
    ASSUME TypeOK, NEW p \in Tasks, WriteFlag(p)
    PROVE  /\ core /\ task[p].at = "write"
           /\ UNCHANGED <<core, ver, helper, ours, desired, queue, late, stale, phase>>
           /\ \/ task[p].job = "disable" /\ Moves(p, "connect") /\ task'[p].routes = task[p].routes
              \/ task[p].job # "disable" /\ Ends(p)
           /\ flag' = "on" => task[p].job = "enable" /\ astray' = ~desired.running
           /\ flag' # "on" => astray' = (astray \/ (desired.running /\ task[p].job # "disable"))
           /\ flag' \in {"garbled", "off", "on"} /\ astray' \in BOOLEAN
<1>1. /\ flag' = "on" => task[p].job = "enable" /\ astray' = ~desired.running
      /\ flag' # "on" => astray' = (astray \/ (desired.running /\ task[p].job # "disable"))
      BY DEF WriteFlag, WriteOver
<1>2. flag' \in {"garbled", "off", "on"} BY DEF WriteFlag, WriteOver
<1>3. astray' \in BOOLEAN BY <1>1, <1>2 DEF TypeOK, Desired
<1>4. CASE task[p].job = "disable"
  <2>1. Goto(p, "connect") /\ "connect" \in Places BY <1>4 DEF WriteFlag, Places
  <2>2. Moves(p, "connect") /\ task'[p].routes = task[p].routes BY <2>1, Moving
  <2> QED BY <1>1, <1>2, <1>3, <1>4, <2>2 DEF WriteFlag, At
<1>5. CASE task[p].job # "disable"
  <2>1. Ends(p) BY <1>5, Ending DEF WriteFlag
  <2> QED BY <1>1, <1>2, <1>3, <1>5, <2>1 DEF WriteFlag, At
<1> QED BY <1>4, <1>5

(* The answer to a request is of interest to nobody.                        *)
LEMMA OrphanQueue ==
    ASSUME NEW p \in Tasks, TypeOK, Orphan(p)
    PROVE  /\ queue' \in Seq(Request) /\ DOMAIN queue' = DOMAIN queue
           /\ \A i \in DOMAIN queue :
                /\ queue'[i].job = queue[i].job /\ queue'[i].routes = queue[i].routes
                /\ queue'[i].saw = queue[i].saw /\ queue'[i].from # p
                /\ queue'[i].from \in {queue[i].from, NoTask}
                /\ queue[i].from # p => queue'[i] = queue[i]
<1>1. queue \in [1..Len(queue) -> Request] /\ Len(queue) \in Nat BY DEF TypeOK
<1>2. \A i \in 1..Len(queue) : [queue[i] EXCEPT !.from = NoTask] \in Request
      BY <1>1 DEF Request
<1>3. queue' \in [1..Len(queue) -> Request] BY <1>1, <1>2 DEF Orphan
<1>4. queue' \in Seq(Request) BY <1>1, <1>3
<1> QED BY <1>1, <1>3, <1>4, NoTaskAssumption DEF Orphan, Request

(* The application ends: nobody waits for any answer.                       *)
LEMMA CutQueue ==
    ASSUME TypeOK, CoreDies
    PROVE  /\ queue' \in Seq(Request) /\ DOMAIN queue' = DOMAIN queue
           /\ \A i \in DOMAIN queue :
                /\ queue'[i].job = queue[i].job /\ queue'[i].routes = queue[i].routes
                /\ queue'[i].saw = queue[i].saw /\ queue'[i].from = NoTask
<1>1. queue \in [1..Len(queue) -> Request] /\ Len(queue) \in Nat BY DEF TypeOK
<1>2. \A i \in 1..Len(queue) : [queue[i] EXCEPT !.from = NoTask] \in Request
      BY <1>1 DEF Request
<1>3. queue' \in [1..Len(queue) -> Request] BY <1>1, <1>2 DEF CoreDies
<1>4. queue' \in Seq(Request) BY <1>1, <1>3
<1> QED BY <1>1, <1>3, <1>4 DEF CoreDies, Request

(* The socket goes.                                                         *)
LEMMA DisconnectEffect ==
    ASSUME TypeOK, NEW tasks \in [Tasks -> Task], Disconnect(tasks)
    PROVE  /\ queue' \in Seq(Request) /\ DOMAIN queue' = {} /\ queue' = <<>>
           /\ task' \in [Tasks -> Task]
           /\ \A q \in Tasks : task'[q] = tasks[q] \/ (tasks[q].at = "wait" /\ task'[q] = NoJob)
           /\ astray' = (astray \/ \E i \in DOMAIN queue : queue[i].job = "disable")
           /\ stale' = (stale \/ \E i \in DOMAIN queue : queue[i].job = "sync")
           /\ astray' \in BOOLEAN /\ stale' \in BOOLEAN
<1>1. task' \in [Tasks -> Task] BY NoJobType DEF Disconnect
<1>2. queue' \in Seq(Request) /\ DOMAIN queue' = {} /\ queue' = <<>> BY DEF Disconnect
<1>3. /\ astray' = (astray \/ \E i \in DOMAIN queue : queue[i].job = "disable")
      /\ stale' = (stale \/ \E i \in DOMAIN queue : queue[i].job = "sync")
      BY DEF Disconnect
<1>4. astray' \in BOOLEAN /\ stale' \in BOOLEAN BY DEF Disconnect, TypeOK
<1> QED BY <1>1, <1>2, <1>3, <1>4 DEF Disconnect

(* A script runs to its end while its handler waits.                        *)
LEMMA ScriptEffect ==
    ASSUME TypeOK, NEW p \in Tasks, ScriptRuns(p)
    PROVE  /\ core /\ ~Calm /\ task[p].at = "script"
           /\ UNCHANGED <<core, ver, flag, late, phase>>
           /\ helper' \in {"absent", "up", "down"} /\ ours' \in BOOLEAN
           /\ queue' \in Seq(Request) /\ DOMAIN queue' = {}
           /\ task' \in [Tasks -> Task]
           /\ \A q \in Tasks \ {p} : \/ task'[q] = task[q]
                                     \/ task[q].at = "wait" /\ task'[q] = NoJob
           /\ \/ task'[p] = NoJob /\ desired' = desired
              \/ /\ task[p].job = "uninstall" /\ task'[p].job = "uninstall" /\ task'[p].at = "open"
                 /\ task'[p].routes = task[p].routes
                 /\ desired' = Default
           /\ astray' = (astray \/ \E i \in DOMAIN queue : queue[i].job = "disable")
           /\ stale' = (stale \/ \E i \in DOMAIN queue : queue[i].job = "sync")
           /\ astray' \in BOOLEAN /\ stale' \in BOOLEAN
<1>1. CASE task[p].job = "install" /\ InstallScript /\ Disconnect([task EXCEPT ![p] = NoJob])
  <2> DEFINE tasks == [task EXCEPT ![p] = NoJob]
  <2>1. /\ tasks \in [Tasks -> Task] /\ tasks[p] = NoJob
        /\ \A q \in Tasks \ {p} : tasks[q] = task[q] BY NoJobType DEF TypeOK
  <2>2. Disconnect(tasks) BY <1>1
  <2> HIDE DEF tasks
  <2>3. /\ \A q \in Tasks \ {p} : task'[q] = task[q] \/ (task[q].at = "wait" /\ task'[q] = NoJob)
        /\ task'[p] = NoJob
        BY <2>1, <2>2, DisconnectEffect
  <2> QED BY <1>1, <2>1, <2>2, <2>3, DisconnectEffect DEF ScriptRuns, At, InstallScript
<1>2. CASE task[p].job = "uninstall" /\ UninstallScript /\ Disconnect([task EXCEPT ![p].at = "open"])
  <2> DEFINE tasks == [task EXCEPT ![p].at = "open"]
  <2>0. task[p] \in Task BY DEF TypeOK
  <2>4. [task[p] EXCEPT !.at = "open"] \in Task BY <2>0 DEF Task, Places
  <2>1. /\ tasks \in [Tasks -> Task] /\ tasks[p] = [task[p] EXCEPT !.at = "open"]
        /\ \A q \in Tasks \ {p} : tasks[q] = task[q] BY <2>4 DEF TypeOK
  <2>5. tasks[p].at = "open" /\ tasks[p].job = "uninstall" /\ tasks[p].routes = task[p].routes
        BY <1>2, <2>0, <2>1 DEF Task
  <2>2. Disconnect(tasks) BY <1>2
  <2> HIDE DEF tasks
  <2>3. /\ \A q \in Tasks \ {p} : task'[q] = task[q] \/ (task[q].at = "wait" /\ task'[q] = NoJob)
        /\ task'[p].job = "uninstall" /\ task'[p].at = "open" /\ task'[p].routes = task[p].routes
    <3>1. \A q \in Tasks : task'[q] = tasks[q] \/ (tasks[q].at = "wait" /\ task'[q] = NoJob)
          BY <2>1, <2>2, DisconnectEffect
    <3>2. task'[p] = tasks[p] BY <2>5, <3>1
    <3> QED BY <2>1, <2>5, <3>1, <3>2
  <2>6. ours' \in BOOLEAN BY <1>2 DEF UninstallScript, TypeOK
  <2>7. desired' = Default /\ helper' = "absent" BY <1>2 DEF UninstallScript
  <2>8. /\ queue' \in Seq(Request) /\ DOMAIN queue' = {} /\ task' \in [Tasks -> Task]
        /\ astray' = (astray \/ \E i \in DOMAIN queue : queue[i].job = "disable")
        /\ stale' = (stale \/ \E i \in DOMAIN queue : queue[i].job = "sync")
        /\ astray' \in BOOLEAN /\ stale' \in BOOLEAN
        BY <2>1, <2>2, DisconnectEffect
  <2>9. core /\ ~Calm /\ task[p].at = "script" /\ UNCHANGED <<core, ver, flag, late, phase>>
        BY DEF ScriptRuns, At
  <2> QED BY <1>2, <2>3, <2>6, <2>7, <2>8, <2>9
<1> QED BY <1>1, <1>2 DEF ScriptRuns

(* The helper serves a request.                                             *)
ServeEffect(r) ==
    /\ 1 \in DOMAIN queue /\ r = queue[1] /\ r \in Request /\ helper = "up"
    /\ queue' \in Seq(Request)
    /\ \A i \in DOMAIN queue' : i \in Nat /\ i + 1 \in DOMAIN queue /\ queue'[i] = queue[i + 1]
    /\ \A i \in DOMAIN queue : i # 1 => i - 1 \in DOMAIN queue' /\ queue'[i - 1] = queue[i]
    /\ UNCHANGED <<core, ver, flag, helper, ours, late, phase>>
    /\ task' \in [Tasks -> Task]
    /\ \A q \in Tasks : q # r.from => task'[q] = task[q]
    /\ r.from \in Tasks => \/ task'[r.from] = NoJob
                           \/ /\ r.job = "enable" /\ task'[r.from].at = "open"
                              /\ task'[r.from].job = task[r.from].job
                              /\ task'[r.from].routes = task[r.from].routes
    /\ desired' \in Desired /\ astray' \in BOOLEAN /\ stale' \in BOOLEAN
    /\ \/ ~ours /\ desired' = desired /\ astray' = TRUE /\ stale' = TRUE
       \/ /\ ours /\ r.job = "disable" /\ desired'.running = FALSE
          /\ desired'.routes = desired.routes /\ astray' = TunEnabled /\ stale' = stale
       \/ /\ ours /\ r.job # "disable"
          /\ desired'.running = TRUE /\ desired'.routes = r.routes
          /\ \/ astray'
             \/ /\ ~astray /\ ~(r.saw /\ ~TunEnabled)
                /\ r.job = "enable" => r.from \in Tasks /\ task'[r.from].at = "open"
          /\ \/ stale'
             \/ r.routes = ver
             \/ /\ ~stale /\ NoRules \notin {r.routes, desired.routes}
                /\ ~(r.routes < desired.routes)

LEMMA Serving == ASSUME TypeOK, Serve PROVE ServeEffect(queue[1])
<1> DEFINE r == queue[1]
           p == r.from
<1>1. /\ queue \in Seq(Request) /\ queue # <<>> /\ queue' = Tail(queue) /\ Head(queue) = r
      BY DEF TypeOK, Serve
<1>2. /\ 1 \in DOMAIN queue /\ r \in Request /\ queue' \in Seq(Request)
      /\ \A i \in DOMAIN queue' : i \in Nat /\ i + 1 \in DOMAIN queue /\ queue'[i] = queue[i + 1]
      /\ \A i \in DOMAIN queue : i # 1 => i - 1 \in DOMAIN queue' /\ queue'[i - 1] = queue[i]
      BY <1>1
<1>3. PICK answered \in BOOLEAN :
        /\ task' = IF p = NoTask THEN task
                   ELSE IF answered /\ p # NoTask /\ r.job = "enable"
                     THEN [task EXCEPT ![p].at = "open"] ELSE [task EXCEPT ![p] = NoJob]
        /\ IF ours THEN Obey(r) /\ Judge(r, answered /\ p # NoTask)
                   ELSE UNCHANGED desired /\ Blame
      BY <1>1 DEF Serve
<1>4. p \in Tasks \cup {NoTask} /\ r.job \in {"sync", "enable", "disable"} /\ r.routes \in RouteSets
      BY <1>2 DEF Request
<1> HIDE DEF r
<1>5. /\ task' \in [Tasks -> Task]
      /\ \A q \in Tasks : q # p => task'[q] = task[q]
      /\ p \in Tasks => \/ task'[p] = NoJob
                        \/ /\ r.job = "enable" /\ task'[p].at = "open"
                           /\ task'[p].job = task[p].job /\ task'[p].routes = task[p].routes
      /\ answered /\ p # NoTask /\ r.job = "enable" => p \in Tasks /\ task'[p].at = "open"
  <2>1. CASE p = NoTask BY <1>3, <2>1, NoTaskAssumption DEF TypeOK
  <2>2. CASE p # NoTask /\ answered /\ r.job = "enable"
    <3>1. p \in Tasks /\ task[p] \in Task BY <1>4, <2>2 DEF TypeOK
    <3>2. [task[p] EXCEPT !.at = "open"] \in Task BY <3>1 DEF Task, Places
    <3>3. task' = [task EXCEPT ![p] = [task[p] EXCEPT !.at = "open"]] BY <1>3, <2>2
    <3> QED BY <2>2, <3>1, <3>2, <3>3 DEF Task, TypeOK
  <2>3. CASE p # NoTask /\ ~(answered /\ r.job = "enable")
    <3>1. task' = [task EXCEPT ![p] = NoJob] BY <1>3, <2>3
    <3> QED BY <1>4, <2>3, <3>1, NoJobType DEF TypeOK
  <2> QED BY <2>1, <2>2, <2>3
<1>6. CASE ~ours BY <1>2, <1>3, <1>5, <1>6 DEF r, ServeEffect, Serve, Blame, TypeOK
<1>7. CASE ours /\ r.job = "disable"
  <2>1. Obey(r) /\ Judge(r, answered /\ p # NoTask) BY <1>3, <1>7
  <2>2. /\ desired' = [desired EXCEPT !.running = FALSE] /\ astray' = TunEnabled /\ stale' = stale
        BY <1>7, <2>1 DEF Obey, Judge
  <2>3. desired' \in Desired /\ desired'.running = FALSE /\ desired'.routes = desired.routes
        BY <2>2 DEF TypeOK, Desired
  <2>4. astray' \in BOOLEAN /\ stale' \in BOOLEAN BY <2>2 DEF TypeOK, TunEnabled
  <2> QED BY <1>2, <1>5, <1>7, <2>2, <2>3, <2>4 DEF r, ServeEffect, Serve
<1>8. CASE ours /\ r.job # "disable"
  <2>1. Obey(r) /\ Judge(r, answered /\ p # NoTask) BY <1>3, <1>8
  <2>2. /\ desired' = [running |-> TRUE, routes |-> r.routes]
        /\ astray' = (\/ astray \/ (r.saw /\ ~TunEnabled)
                      \/ (r.job = "enable" /\ ~(answered /\ p # NoTask)))
        /\ stale' = (/\ r.routes # ver
                     /\ \/ stale \/ NoRules \in {r.routes, desired.routes}
                        \/ r.routes < desired.routes)
        BY <1>8, <2>1 DEF Obey, Judge
  <2>3. desired' \in Desired /\ desired'.running = TRUE /\ desired'.routes = r.routes
        BY <1>4, <2>2 DEF Desired
  <2>4. astray' \in BOOLEAN BY <2>2 DEF TypeOK
  <2>5. stale' \in BOOLEAN BY <2>2 DEF TypeOK
  <2>6. \/ astray'
        \/ /\ ~astray /\ ~(r.saw /\ ~TunEnabled)
           /\ r.job = "enable" => p \in Tasks /\ task'[p].at = "open"
        BY <1>5, <2>2
  <2> QED BY <1>2, <1>5, <1>8, <2>2, <2>3, <2>4, <2>5, <2>6 DEF r, ServeEffect, Serve
<1> QED BY <1>4, <1>6, <1>7, <1>8

-----------------------------------------------------------------------------
(* The strengthening, part by part, over each step.                         *)

(* The steps of a task, and the others.                                     *)
TaskStep(p) == Handler(p) \/ Progress(p) \/ Disturbance(p) \/ CoreStarts(p)
OtherStep   == \/ Serve \/ HelperDies \/ HelperRestarts \/ LateScript
               \/ LateScriptCancelled \/ CoreDies \/ CalmDown

(* TasksInv: each job at its places.                                         *)
LEMMA TasksTask ==
    ASSUME Inductive, NEW p \in Tasks, TaskStep(p)
    PROVE  TasksInv'
<1>0. TypeOK /\ TasksInv /\ QueueInv BY DEF Inductive
<1>1. CASE SyncLooks(p)
  <2>1. /\ Ends(p) \/ (Moves(p, "rules") /\ task'[p].saw = TRUE)
        /\ core /\ UNCHANGED core /\ task[p].at = "flag" BY <1>0, <1>1, SyncEffect
  <2>2. Sound(task'[p]) BY <1>0, <2>1, NoJobType DEF Ends, Moves, TasksInv, Sound
  <2> QED BY <1>0, <2>1, <2>2 DEF Ends, Moves, TasksInv
<1>2. CASE RulesUnread(p)
  <2>1. /\ Ends(p) \/ (task[p].job # "sync" /\ Moves(p, "connect"))
        /\ core /\ UNCHANGED core /\ task[p].at = "rules" BY <1>0, <1>2, UnreadEffect
  <2>2. Sound(task'[p]) BY <1>0, <2>1, NoJobType DEF Ends, Moves, TasksInv, Sound
  <2> QED BY <1>0, <2>1, <2>2 DEF Ends, Moves, TasksInv
<1>3. CASE WriteFlag(p)
  <2>1. /\ Ends(p) \/ (task[p].job = "disable" /\ Moves(p, "connect"))
        /\ core /\ UNCHANGED core BY <1>0, <1>3, WriteEffect
  <2>2. Sound(task'[p]) BY <1>0, <2>1, NoJobType DEF Ends, Moves, TasksInv, Sound
  <2> QED BY <1>0, <2>1, <2>2 DEF Ends, Moves, TasksInv
<1>4. CASE ScriptRuns(p)
  <2>1. /\ core /\ UNCHANGED core
        /\ \A q \in Tasks \ {p} : task'[q] = task[q] \/ task'[q] = NoJob
        /\ task'[p] = NoJob \/ (task'[p].job = "uninstall" /\ task'[p].at = "open")
        BY <1>0, <1>4, ScriptEffect
  <2>2. Sound(task'[p]) BY <2>1, NoJobType DEF Sound
  <2> QED BY <1>0, <2>1, <2>2, NoJobType DEF TasksInv
<1> USE NoTaskAssumption, BoundsAssumption, NoRulesAssumption
<1> USE DEF Goto, Leave, Start, At, Idle, NoJob, TunEnabled, Calm, Blame, NoBlame,
        BlameJob, Truncate, WriteOver, Orphan, Disconnect, TypeOK, Task, TasksInv, Sound
<1>5. CASE RulesChange(p) BY <1>0, <1>5 DEF RulesChange
<1>6. CASE Rebuilt(p) BY <1>0, <1>6 DEF Rebuilt
<1>7. CASE ReadRules(p) BY <1>0, <1>7 DEF ReadRules
<1>8. CASE Send(p) BY <1>0, <1>8 DEF Send
<1>9. CASE Unreachable(p) BY <1>0, <1>9 DEF Unreachable
<1>10. CASE GiveUp(p) BY <1>0, <1>10 DEF GiveUp
<1>11. CASE ClientGone(p) BY <1>0, <1>11 DEF ClientGone
<1>12. CASE Enable(p) BY <1>0, <1>12 DEF Enable
<1>13. CASE Disable(p) BY <1>0, <1>13 DEF Disable
<1>14. CASE OpenFlag(p) BY <1>0, <1>14 DEF OpenFlag
<1>15. CASE WriteFails(p) BY <1>0, <1>15 DEF WriteFails
<1>16. CASE Install(p) BY <1>0, <1>16 DEF Install
<1>17. CASE Uninstall(p) BY <1>0, <1>17 DEF Uninstall
<1>18. CASE ScriptFails(p) BY <1>0, <1>18 DEF ScriptFails
<1>19. CASE ScriptLeft(p) BY <1>0, <1>19 DEF ScriptLeft
<1>20. CASE CoreStarts(p) BY <1>0, <1>20 DEF CoreStarts
<1> HIDE DEF Goto, Leave, Start, At, Idle, NoJob, TunEnabled, Calm, Blame, NoBlame,
        BlameJob, Truncate, WriteOver, Orphan, Disconnect, TypeOK, Task, TasksInv, Sound
<1> QED
    BY <1>1, <1>2, <1>3, <1>4, <1>5, <1>6, <1>7, <1>8, <1>9, <1>10, <1>11, <1>12, <1>13,
       <1>14, <1>15, <1>16, <1>17, <1>18, <1>19, <1>20
    DEF TaskStep, Handler, Progress, Disturbance

(* TasksInv: each job at its places.                                         *)
LEMMA TasksOther ==
    ASSUME Inductive, OtherStep
    PROVE  TasksInv'
<1>0. TypeOK /\ TasksInv /\ QueueInv BY DEF Inductive
<1>1. CASE Serve
  <2>1. ServeEffect(queue[1]) BY <1>0, <1>1, Serving
  <2>2. /\ UNCHANGED core
        /\ \A q \in Tasks : \/ task'[q] = task[q]
                            \/ task'[q] = NoJob
                            \/ task[q].at = "wait" /\ task'[q].at = "open" /\ task'[q].job = "enable"
    <3>1. /\ UNCHANGED core /\ 1 \in DOMAIN queue
          /\ \A q \in Tasks : q # queue[1].from => task'[q] = task[q]
          /\ queue[1].from \in Tasks =>
                \/ task'[queue[1].from] = NoJob
                \/ /\ queue[1].job = "enable" /\ task'[queue[1].from].at = "open"
                   /\ task'[queue[1].from].job = task[queue[1].from].job
          BY <2>1 DEF ServeEffect
    <3>2. queue[1].from \in Tasks =>
            task[queue[1].from].at = "wait" /\ task[queue[1].from].job = queue[1].job
          BY <1>0, <3>1, NoTaskAssumption DEF QueueInv
    <3>3. \A q \in Tasks : q = queue[1].from =>
            \/ task'[q] = NoJob
            \/ task[q].at = "wait" /\ task'[q].at = "open" /\ task'[q].job = "enable"
          BY <3>1, <3>2
    <3> QED BY <3>1, <3>3
  <2>3. \A q \in Tasks : task'[q].at = "open" /\ task'[q].job = "enable" => Sound(task'[q])
        BY DEF Sound
  <2>4. ~core => \A q \in Tasks : task[q] = NoJob BY <1>0 DEF TasksInv, Idle
  <2>6. NoJob.at = "idle" BY DEF NoJob
  <2>5. ~core' => \A q \in Tasks : task'[q] = NoJob BY <2>2, <2>4, <2>6
  <2> QED BY <1>0, <2>2, <2>3, <2>5, NoJobType DEF TasksInv, Idle
<1>2. CASE LateScript
  <2>1. UNCHANGED core /\ \A q \in Tasks : task'[q] = task[q] \/ task'[q] = NoJob
        BY <1>0, <1>2 DEF LateScript, TypeOK
  <2> QED BY <1>0, <2>1, NoJobType DEF TasksInv, Idle
<1> USE NoTaskAssumption, BoundsAssumption, NoRulesAssumption
<1> USE DEF Goto, Leave, Start, At, Idle, NoJob, TunEnabled, Calm, Blame, NoBlame,
        BlameJob, Truncate, WriteOver, Orphan, Disconnect, TypeOK, Task, TasksInv, Sound
<1>3. CASE HelperDies BY <1>0, <1>3 DEF HelperDies
<1>4. CASE HelperRestarts BY <1>0, <1>4 DEF HelperRestarts
<1>5. CASE LateScriptCancelled BY <1>0, <1>5 DEF LateScriptCancelled
<1>6. CASE CoreDies BY <1>0, <1>6 DEF CoreDies
<1>7. CASE CalmDown BY <1>0, <1>7 DEF CalmDown
<1> HIDE DEF Goto, Leave, Start, At, Idle, NoJob, TunEnabled, Calm, Blame, NoBlame,
        BlameJob, Truncate, WriteOver, Orphan, Disconnect, TypeOK, Task, TasksInv, Sound
<1> QED
    BY <1>1, <1>2, <1>3, <1>4, <1>5, <1>6, <1>7
    DEF OtherStep

(* QueueInv: the request in the queue is that of a waiting task, or nobody's. *)
LEMMA QueueTask ==
    ASSUME Inductive, NEW p \in Tasks, TaskStep(p)
    PROVE  QueueInv'
<1>0. TypeOK /\ TasksInv /\ QueueInv BY DEF Inductive
<1>1. CASE SyncLooks(p)
  <2>1. /\ UNCHANGED queue /\ task[p].at = "flag"
        /\ \A q \in Tasks : q # p => task'[q] = task[q]
        BY <1>0, <1>1, SyncEffect DEF Ends, Moves
  <2>2. \A i \in DOMAIN queue : queue[i].from \in Tasks \cup {NoTask} BY <1>0, QueueType
  <2> QED BY <1>0, <2>1, <2>2 DEF QueueInv
<1>2. CASE RulesUnread(p)
  <2>1. /\ UNCHANGED queue /\ task[p].at = "rules"
        /\ \A q \in Tasks : q # p => task'[q] = task[q]
        BY <1>0, <1>2, UnreadEffect DEF Ends, Moves
  <2>2. \A i \in DOMAIN queue : queue[i].from \in Tasks \cup {NoTask} BY <1>0, QueueType
  <2> QED BY <1>0, <2>1, <2>2 DEF QueueInv
<1>3. CASE WriteFlag(p)
  <2>1. /\ UNCHANGED queue /\ task[p].at = "write"
        /\ \A q \in Tasks : q # p => task'[q] = task[q]
        BY <1>0, <1>3, WriteEffect DEF Ends, Moves
  <2>2. \A i \in DOMAIN queue : queue[i].from \in Tasks \cup {NoTask} BY <1>0, QueueType
  <2> QED BY <1>0, <2>1, <2>2 DEF QueueInv
<1>4. CASE ScriptRuns(p)
  <2>1. DOMAIN queue' = {} BY <1>0, <1>4, ScriptEffect
  <2> QED BY <2>1 DEF QueueInv
<1> USE NoTaskAssumption, BoundsAssumption, NoRulesAssumption
<1> USE DEF Goto, Leave, Start, At, Idle, NoJob, TunEnabled, Calm, Blame, NoBlame,
        BlameJob, Truncate, WriteOver, Orphan, Disconnect, TypeOK, Task, Request,
        TasksInv, Sound, QueueInv
<1>5. CASE RulesChange(p) BY <1>0, <1>5 DEF RulesChange
<1>6. CASE Rebuilt(p) BY <1>0, <1>6 DEF Rebuilt
<1>7. CASE ReadRules(p) BY <1>0, <1>7 DEF ReadRules
<1>8. CASE Send(p) BY <1>0, <1>8 DEF Send
<1>9. CASE Unreachable(p) BY <1>0, <1>9 DEF Unreachable
<1>10. CASE GiveUp(p) BY <1>0, <1>10 DEF GiveUp
<1>11. CASE ClientGone(p) BY <1>0, <1>11 DEF ClientGone
<1>12. CASE Enable(p) BY <1>0, <1>12 DEF Enable
<1>13. CASE Disable(p) BY <1>0, <1>13 DEF Disable
<1>14. CASE OpenFlag(p) BY <1>0, <1>14 DEF OpenFlag
<1>15. CASE WriteFails(p) BY <1>0, <1>15 DEF WriteFails
<1>16. CASE Install(p) BY <1>0, <1>16 DEF Install
<1>17. CASE Uninstall(p) BY <1>0, <1>17 DEF Uninstall
<1>18. CASE ScriptFails(p) BY <1>0, <1>18 DEF ScriptFails
<1>19. CASE ScriptLeft(p) BY <1>0, <1>19 DEF ScriptLeft
<1>20. CASE CoreStarts(p) BY <1>0, <1>20 DEF CoreStarts
<1> HIDE DEF Goto, Leave, Start, At, Idle, NoJob, TunEnabled, Calm, Blame, NoBlame,
        BlameJob, Truncate, WriteOver, Orphan, Disconnect, TypeOK, Task, Request,
        TasksInv, Sound, QueueInv
<1> QED
    BY <1>1, <1>2, <1>3, <1>4, <1>5, <1>6, <1>7, <1>8, <1>9, <1>10, <1>11, <1>12, <1>13,
       <1>14, <1>15, <1>16, <1>17, <1>18, <1>19, <1>20
    DEF TaskStep, Handler, Progress, Disturbance

(* QueueInv: the request in the queue is that of a waiting task, or nobody's. *)
LEMMA QueueOther ==
    ASSUME Inductive, OtherStep
    PROVE  QueueInv'
<1>0. TypeOK /\ TasksInv /\ QueueInv BY DEF Inductive
<1>1. CASE CoreDies
  <2>1. \A i \in DOMAIN queue' : queue'[i].from = NoTask /\ (queue'[i].job = "sync" => queue'[i].saw)
        BY <1>0, <1>1, CutQueue DEF QueueInv
  <2> QED BY <2>1 DEF QueueInv
<1> USE NoTaskAssumption, BoundsAssumption, NoRulesAssumption
<1> USE DEF Goto, Leave, Start, At, Idle, NoJob, TunEnabled, Calm, Blame, NoBlame,
        BlameJob, Truncate, WriteOver, Orphan, Disconnect, TypeOK, Task, Request,
        TasksInv, Sound, QueueInv
<1>2. CASE Serve BY <1>0, <1>2 DEF Serve
<1>3. CASE HelperDies BY <1>0, <1>3 DEF HelperDies
<1>4. CASE HelperRestarts BY <1>0, <1>4 DEF HelperRestarts
<1>5. CASE LateScript BY <1>0, <1>5 DEF LateScript
<1>6. CASE LateScriptCancelled BY <1>0, <1>6 DEF LateScriptCancelled
<1>7. CASE CalmDown BY <1>0, <1>7 DEF CalmDown
<1> HIDE DEF Goto, Leave, Start, At, Idle, NoJob, TunEnabled, Calm, Blame, NoBlame,
        BlameJob, Truncate, WriteOver, Orphan, Disconnect, TypeOK, Task, Request,
        TasksInv, Sound, QueueInv
<1> QED
    BY <1>1, <1>2, <1>3, <1>4, <1>5, <1>6, <1>7
    DEF OtherStep

(* RoutesInv: rules are read when they are there.                           *)
LEMMA RoutesTask ==
    ASSUME Inductive, NEW p \in Tasks, TaskStep(p)
    PROVE  RoutesInv'
<1>0. TypeOK /\ RoutesInv BY DEF Inductive
<1>1. CASE SyncLooks(p)
  <2>1. UNCHANGED <<queue, ver>> BY <1>0, <1>1, SyncEffect
  <2>2. \A q \in Tasks : task'[q].routes \in {task[q].routes, NoRules}
        BY <1>0, <1>1, SyncEffect, NoJobType DEF Ends, Moves
  <2> QED BY <1>0, <2>1, <2>2 DEF RoutesInv
<1>2. CASE RulesUnread(p)
  <2>1. UNCHANGED <<queue, ver>> BY <1>0, <1>2, UnreadEffect
  <2>2. \A q \in Tasks : task'[q].routes \in {task[q].routes, NoRules}
        BY <1>0, <1>2, UnreadEffect, NoJobType DEF Ends, Moves
  <2> QED BY <1>0, <2>1, <2>2 DEF RoutesInv
<1>3. CASE ScriptRuns(p)
  <2>1. DOMAIN queue' = {} /\ UNCHANGED ver BY <1>0, <1>3, ScriptEffect
  <2>2. \A q \in Tasks : task'[q].routes \in {task[q].routes, NoRules}
        BY <1>0, <1>3, ScriptEffect, NoJobType
  <2> QED BY <1>0, <2>1, <2>2 DEF RoutesInv
<1> USE NoTaskAssumption, BoundsAssumption, NoRulesAssumption
<1> USE DEF Goto, Leave, Start, At, Idle, NoJob, TunEnabled, Calm, Blame, NoBlame,
        BlameJob, Truncate, WriteOver, Orphan, Disconnect, TypeOK, Task, Request,
        RoutesInv
<1>4. CASE RulesChange(p) BY <1>0, <1>4 DEF RulesChange
<1>5. CASE Rebuilt(p) BY <1>0, <1>5 DEF Rebuilt
<1>6. CASE ReadRules(p) BY <1>0, <1>6 DEF ReadRules
<1>7. CASE Send(p) BY <1>0, <1>7 DEF Send
<1>8. CASE Unreachable(p) BY <1>0, <1>8 DEF Unreachable
<1>9. CASE GiveUp(p) BY <1>0, <1>9 DEF GiveUp
<1>10. CASE ClientGone(p) BY <1>0, <1>10 DEF ClientGone
<1>11. CASE Enable(p) BY <1>0, <1>11 DEF Enable
<1>12. CASE Disable(p) BY <1>0, <1>12 DEF Disable
<1>13. CASE OpenFlag(p) BY <1>0, <1>13 DEF OpenFlag
<1>14. CASE WriteFlag(p) BY <1>0, <1>14 DEF WriteFlag
<1>15. CASE WriteFails(p) BY <1>0, <1>15 DEF WriteFails
<1>16. CASE Install(p) BY <1>0, <1>16 DEF Install
<1>17. CASE Uninstall(p) BY <1>0, <1>17 DEF Uninstall
<1>18. CASE ScriptFails(p) BY <1>0, <1>18 DEF ScriptFails
<1>19. CASE ScriptLeft(p) BY <1>0, <1>19 DEF ScriptLeft
<1>20. CASE CoreStarts(p) BY <1>0, <1>20 DEF CoreStarts
<1> HIDE DEF Goto, Leave, Start, At, Idle, NoJob, TunEnabled, Calm, Blame, NoBlame,
        BlameJob, Truncate, WriteOver, Orphan, Disconnect, TypeOK, Task, Request,
        RoutesInv
<1> QED
    BY <1>1, <1>2, <1>3, <1>4, <1>5, <1>6, <1>7, <1>8, <1>9, <1>10, <1>11, <1>12, <1>13,
       <1>14, <1>15, <1>16, <1>17, <1>18, <1>19, <1>20
    DEF TaskStep, Handler, Progress, Disturbance

(* RoutesInv: rules are read when they are there.                           *)
LEMMA RoutesOther ==
    ASSUME Inductive, OtherStep
    PROVE  RoutesInv'
<1>0. TypeOK /\ RoutesInv BY DEF Inductive
<1>1. CASE CoreDies
  <2>1. UNCHANGED ver /\ \A q \in Tasks : task'[q].routes = NoRules BY <1>0, <1>1 DEF CoreDies, NoJob
  <2>2. \A i \in DOMAIN queue' : i \in DOMAIN queue /\ queue'[i].routes = queue[i].routes
        BY <1>0, <1>1, CutQueue
  <2> QED BY <1>0, <2>1, <2>2 DEF RoutesInv
<1> USE NoTaskAssumption, BoundsAssumption, NoRulesAssumption
<1> USE DEF Goto, Leave, Start, At, Idle, NoJob, TunEnabled, Calm, Blame, NoBlame,
        BlameJob, Truncate, WriteOver, Orphan, Disconnect, TypeOK, Task, Request,
        RoutesInv
<1>2. CASE Serve BY <1>0, <1>2 DEF Serve
<1>3. CASE HelperDies BY <1>0, <1>3 DEF HelperDies
<1>4. CASE HelperRestarts BY <1>0, <1>4 DEF HelperRestarts
<1>5. CASE LateScript BY <1>0, <1>5 DEF LateScript
<1>6. CASE LateScriptCancelled BY <1>0, <1>6 DEF LateScriptCancelled
<1>7. CASE CalmDown BY <1>0, <1>7 DEF CalmDown
<1> HIDE DEF Goto, Leave, Start, At, Idle, NoJob, TunEnabled, Calm, Blame, NoBlame,
        BlameJob, Truncate, WriteOver, Orphan, Disconnect, TypeOK, Task, Request,
        RoutesInv
<1> QED
    BY <1>1, <1>2, <1>3, <1>4, <1>5, <1>6, <1>7
    DEF OtherStep

(* TypeOK.                                                                   *)
LEMMA TypesTask ==
    ASSUME Inductive, NEW p \in Tasks, TaskStep(p)
    PROVE  TypeOK'
<1>0. TypeOK /\ TasksInv BY DEF Inductive
<1>1. CASE RulesChange(p)
  <2>1. Start(p, "sync", "rebuild") /\ "sync" \in Jobs /\ "rebuild" \in Places
        BY <1>1 DEF RulesChange, Jobs, Places
  <2>2. task' \in [Tasks -> Task] BY <1>0, <2>1, Starting
  <2>3. ver' \in 0..MaxVer BY <1>0, <1>1, BoundsAssumption DEF RulesChange, TypeOK
  <2> QED BY <1>0, <1>1, <2>2, <2>3 DEF RulesChange, TypeOK
<1>2. CASE SyncLooks(p)
  <2> QED BY <1>0, <1>2, SyncEffect DEF Ends, Moves, TypeOK
<1>3. CASE ReadRules(p)
  <2> QED BY <1>0, <1>3, ReadEffect DEF Moves, TypeOK
<1>4. CASE RulesUnread(p)
  <2> QED BY <1>0, <1>4, UnreadEffect DEF Ends, Moves, TypeOK
<1>5. CASE Send(p)
  <2>1. /\ task' \in [Tasks -> Task] /\ queue' \in Seq(Request)
        /\ UNCHANGED <<core, ver, flag, helper, ours, desired, late, astray, stale, phase>>
        BY <1>0, <1>5, SendEffect DEF Moves
  <2> QED BY <1>0, <2>1 DEF TypeOK
<1>6. CASE GiveUp(p)
  <2>1. queue' \in Seq(Request) BY <1>0, <1>6, OrphanQueue DEF GiveUp
  <2>2. task' \in [Tasks -> Task] BY <1>0, <1>6, Ending DEF GiveUp, Ends
  <2> QED BY <1>0, <1>6, <2>1, <2>2 DEF GiveUp, TypeOK
<1>7. CASE OpenFlag(p)
  <2>1. Goto(p, "write") /\ "write" \in Places BY <1>7 DEF OpenFlag, Places
  <2>2. task' \in [Tasks -> Task] BY <1>0, <2>1, Moving DEF Moves
  <2> QED BY <1>0, <1>7, <2>2 DEF OpenFlag, Truncate, TypeOK
<1>8. CASE WriteFlag(p)
  <2> QED BY <1>0, <1>8, WriteEffect DEF Ends, Moves, TypeOK
<1>9. CASE ScriptRuns(p)
  <2>1. Default \in Desired BY DEF Default, Desired, RouteSets
  <2> QED BY <1>0, <1>9, <2>1, ScriptEffect DEF TypeOK
<1>10. CASE ScriptLeft(p)
  <2>1. task[p].job \in {"install", "uninstall"} BY <1>0, <1>10 DEF ScriptLeft, At, TasksInv, Sound
  <2>2. task' \in [Tasks -> Task] BY <1>0, <1>10, Ending DEF ScriptLeft, Ends
  <2> QED BY <1>0, <1>10, <2>1, <2>2 DEF ScriptLeft, TypeOK
<1>11. CASE CoreStarts(p)
  <2>1. [NoJob EXCEPT !.job = "sync", !.at = "flag"] \in Task
        BY NoJobType DEF Task, Jobs, Places
  <2>2. task' \in [Tasks -> Task] BY <1>0, <1>11, <2>1 DEF CoreStarts, TypeOK
  <2> QED BY <1>0, <1>11, <2>2 DEF CoreStarts, TypeOK
<1> USE NoTaskAssumption, BoundsAssumption, NoRulesAssumption
<1> USE DEF Goto, Leave, Start, At, Idle, NoJob, TunEnabled, Calm, Blame, NoBlame,
        BlameJob, Truncate, WriteOver, Orphan, Judge, Obey, Disconnect, InstallScript,
        UninstallScript, TypeOK, Task, Request, Desired, Default, Jobs, Places,
        RouteSets
<1>12. CASE Rebuilt(p) BY <1>0, <1>12 DEF Rebuilt
<1>13. CASE Unreachable(p) BY <1>0, <1>13 DEF Unreachable
<1>14. CASE ClientGone(p) BY <1>0, <1>14 DEF ClientGone
<1>15. CASE Enable(p) BY <1>0, <1>15 DEF Enable
<1>16. CASE Disable(p) BY <1>0, <1>16 DEF Disable
<1>17. CASE WriteFails(p) BY <1>0, <1>17 DEF WriteFails
<1>18. CASE Install(p) BY <1>0, <1>18 DEF Install
<1>19. CASE Uninstall(p) BY <1>0, <1>19 DEF Uninstall
<1>20. CASE ScriptFails(p) BY <1>0, <1>20 DEF ScriptFails
<1> HIDE DEF Goto, Leave, Start, At, Idle, NoJob, TunEnabled, Calm, Blame, NoBlame,
        BlameJob, Truncate, WriteOver, Orphan, Judge, Obey, Disconnect, InstallScript,
        UninstallScript, TypeOK, Task, Request, Desired, Default, Jobs, Places,
        RouteSets
<1> QED
    BY <1>1, <1>2, <1>3, <1>4, <1>5, <1>6, <1>7, <1>8, <1>9, <1>10, <1>11, <1>12, <1>13,
       <1>14, <1>15, <1>16, <1>17, <1>18, <1>19, <1>20
    DEF TaskStep, Handler, Progress, Disturbance

(* What the helper was told before is something it can be told.             *)
LEMMA EarlierType == ASSUME TypeOK PROVE Earlier \subseteq Desired
<1>1. ver \in 0..MaxVer /\ MaxVer \in Nat BY BoundsAssumption DEF TypeOK
<1>2. 0..ver \subseteq 0..MaxVer BY <1>1
<1> QED BY <1>2 DEF Earlier, Desired, RouteSets

(* TypeOK.                                                                   *)
LEMMA TypesOther ==
    ASSUME Inductive, OtherStep
    PROVE  TypeOK'
<1>0. TypeOK /\ TasksInv BY DEF Inductive
<1>1. CASE Serve
  <2> QED BY <1>0, <1>1, Serving DEF ServeEffect, TypeOK
<1>2. CASE HelperDies
  <2> QED BY <1>0, <1>2, DisconnectEffect DEF HelperDies, TypeOK
<1>3. CASE LateScript
  <2>1. Default \in Desired BY DEF Default, Desired, RouteSets
  <2>2. task' \in [Tasks -> Task] BY <1>0, <1>3, NoJobType DEF LateScript, TypeOK
  <2>3. helper' \in {"absent", "down", "up"} /\ ours' \in BOOLEAN /\ desired' \in Desired
        BY <1>0, <1>3, <2>1 DEF LateScript, InstallScript, UninstallScript, TypeOK
  <2>4. /\ queue' \in Seq(Request) /\ late' \in SUBSET {"install", "uninstall"}
        /\ astray' \in BOOLEAN /\ stale' \in BOOLEAN /\ UNCHANGED <<core, ver, flag, phase>>
        BY <1>0, <1>3 DEF LateScript, Blame, TypeOK
  <2> QED BY <1>0, <2>2, <2>3, <2>4 DEF TypeOK
<1>4. CASE CoreDies
  <2>1. queue' \in Seq(Request) BY <1>0, <1>4, CutQueue
  <2>2. task' \in [Tasks -> Task] BY <1>0, <1>4, NoJobType DEF CoreDies, TypeOK
  <2>3. late' \in SUBSET {"install", "uninstall"} BY <1>0, <1>4 DEF CoreDies, TasksInv, Sound, TypeOK
  <2>4. astray' \in BOOLEAN /\ stale' \in BOOLEAN BY <1>0, <1>4 DEF CoreDies, Blame, NoBlame, TypeOK
  <2> QED BY <1>0, <1>4, <2>1, <2>2, <2>3, <2>4 DEF CoreDies, TypeOK
<1> USE NoTaskAssumption, BoundsAssumption, NoRulesAssumption
<1> USE DEF Goto, Leave, Start, At, Idle, NoJob, TunEnabled, Calm, Blame, NoBlame,
        BlameJob, Truncate, WriteOver, Orphan, Judge, Obey, Disconnect, InstallScript,
        UninstallScript, TypeOK, Task, Request, Desired, Default, Jobs, Places,
        RouteSets
<1>5. CASE LateScriptCancelled BY <1>0, <1>5 DEF LateScriptCancelled
<1>6. CASE CalmDown BY <1>0, <1>6 DEF CalmDown
<1> HIDE DEF Goto, Leave, Start, At, Idle, NoJob, TunEnabled, Calm, Blame, NoBlame,
        BlameJob, Truncate, WriteOver, Orphan, Judge, Obey, Disconnect, InstallScript,
        UninstallScript, TypeOK, Task, Request, Desired, Default, Jobs, Places,
        RouteSets
<1>7. CASE HelperRestarts
  <2>1. desired' \in Desired BY <1>0, <1>7, EarlierType DEF HelperRestarts, TypeOK
  <2>2. astray' \in BOOLEAN /\ stale' \in BOOLEAN
        BY <1>0, <1>7 DEF HelperRestarts, Blame, NoBlame, TypeOK
  <2> QED BY <1>0, <1>7, <2>1, <2>2 DEF HelperRestarts, TypeOK
<1> QED
    BY <1>1, <1>2, <1>3, <1>4, <1>5, <1>6, <1>7
    DEF OtherStep

(* AstrayInv: flag and helper.                                              *)
LEMMA AstrayTask ==
    ASSUME Inductive, NEW p \in Tasks, TaskStep(p)
    PROVE  AstrayInv'
<1>0. TypeOK /\ TasksInv /\ QueueInv /\ AstrayInv BY DEF Inductive
<1>1. CASE SyncLooks(p)
  <2>1. /\ UNCHANGED <<flag, desired, queue, astray>> /\ task[p].at = "flag"
        /\ \A q \in Tasks : q # p => task'[q] = task[q] BY <1>0, <1>1, SyncEffect DEF Ends, Moves
  <2> QED BY <1>0, <2>1 DEF AstrayInv, TunEnabled
<1>2. CASE Send(p)
  <2>1. /\ UNCHANGED <<flag, desired, astray>> /\ task[p].at = "connect"
        /\ \A q \in Tasks : q # p => task'[q] = task[q]
        /\ \A i \in DOMAIN queue : i \in DOMAIN queue' /\ queue'[i] = queue[i]
        /\ \E n \in DOMAIN queue' : queue'[n].job = task[p].job
        BY <1>0, <1>2, SendEffect DEF Moves
  <2> QED BY <1>0, <2>1 DEF AstrayInv, TunEnabled
<1>3. CASE WriteFlag(p)
  <2>1. CASE flag' = "on" BY <1>0, <1>3, <2>1, WriteEffect DEF AstrayInv, TunEnabled, TypeOK, Desired
  <2>2. CASE flag' # "on" /\ task[p].job = "disable"
    <3>1. task'[p].at = "connect" /\ task'[p].job = "disable"
          BY <1>0, <1>3, <2>2, WriteEffect DEF Moves
    <3> QED BY <2>2, <3>1 DEF AstrayInv, TunEnabled
  <2>3. CASE flag' # "on" /\ task[p].job # "disable"
    <3>1. desired' = desired /\ (astray' \/ ~desired.running)
          BY <1>0, <1>3, <2>3, WriteEffect
    <3> QED BY <2>3, <3>1 DEF AstrayInv, TunEnabled
  <2> QED BY <2>1, <2>2, <2>3
<1>4. CASE ScriptRuns(p)
  <2>1. /\ UNCHANGED flag /\ task[p].at = "script"
        /\ \A q \in Tasks \ {p} : task'[q] = task[q] \/ task[q].at = "wait"
        /\ astray' = (astray \/ \E i \in DOMAIN queue : queue[i].job = "disable")
        BY <1>0, <1>4, ScriptEffect
  <2>2. CASE desired' = desired BY <1>0, <2>1, <2>2 DEF AstrayInv, TunEnabled
  <2>3. CASE desired' # desired
    <3>1. desired' = Default /\ task'[p].at = "open" BY <1>0, <1>4, <2>3, ScriptEffect
    <3> QED BY <3>1 DEF AstrayInv, TunEnabled, Default
  <2> QED BY <2>2, <2>3
<1>5. CASE CoreStarts(p)
  <2>1. \A q \in Tasks : task[q].at = "idle" BY <1>0, <1>5, IdlePlace DEF CoreStarts, TasksInv
  <2>2. UNCHANGED <<astray, flag, desired, queue>> BY <1>5 DEF CoreStarts
  <2> QED BY <1>0, <2>1, <2>2 DEF AstrayInv, TunEnabled
<1> USE NoTaskAssumption, BoundsAssumption, NoRulesAssumption
<1> USE DEF Goto, Leave, Start, At, Idle, NoJob, TunEnabled, Calm, Blame, NoBlame,
        BlameJob, Truncate, WriteOver, Orphan, Judge, Obey, Disconnect, InstallScript,
        UninstallScript, TypeOK, Task, Request, Desired, Default, AstrayInv
<1>6. CASE RulesChange(p) BY <1>0, <1>6 DEF RulesChange
<1>7. CASE Rebuilt(p) BY <1>0, <1>7 DEF Rebuilt
<1>8. CASE ReadRules(p) BY <1>0, <1>8 DEF ReadRules
<1>9. CASE RulesUnread(p) BY <1>0, <1>9 DEF RulesUnread
<1>10. CASE Unreachable(p) BY <1>0, <1>10 DEF Unreachable
<1>11. CASE GiveUp(p) BY <1>0, <1>11 DEF GiveUp
<1>12. CASE ClientGone(p) BY <1>0, <1>12 DEF ClientGone
<1>13. CASE Enable(p) BY <1>0, <1>13 DEF Enable
<1>14. CASE Disable(p) BY <1>0, <1>14 DEF Disable
<1>15. CASE OpenFlag(p) BY <1>0, <1>15 DEF OpenFlag
<1>16. CASE WriteFails(p) BY <1>0, <1>16 DEF WriteFails
<1>17. CASE Install(p) BY <1>0, <1>17 DEF Install
<1>18. CASE Uninstall(p) BY <1>0, <1>18 DEF Uninstall
<1>19. CASE ScriptFails(p) BY <1>0, <1>19 DEF ScriptFails
<1>20. CASE ScriptLeft(p) BY <1>0, <1>20 DEF ScriptLeft
<1> HIDE DEF Goto, Leave, Start, At, Idle, NoJob, TunEnabled, Calm, Blame, NoBlame,
        BlameJob, Truncate, WriteOver, Orphan, Judge, Obey, Disconnect, InstallScript,
        UninstallScript, TypeOK, Task, Request, Desired, Default, AstrayInv
<1> QED
    BY <1>1, <1>2, <1>3, <1>4, <1>5, <1>6, <1>7, <1>8, <1>9, <1>10, <1>11, <1>12, <1>13,
       <1>14, <1>15, <1>16, <1>17, <1>18, <1>19, <1>20
    DEF TaskStep, Handler, Progress, Disturbance

(* AstrayInv: flag and helper.                                              *)
LEMMA AstrayOther ==
    ASSUME Inductive, OtherStep
    PROVE  AstrayInv'
<1>0. TypeOK /\ TasksInv /\ QueueInv /\ AstrayInv BY DEF Inductive
<1>1. CASE Serve
  <2> DEFINE r == queue[1]
  <2>1. ServeEffect(r) BY <1>0, <1>1, Serving
  <2>2. r.job = "sync" => r.saw BY <1>0, <2>1 DEF ServeEffect, QueueInv
  <2>3. r.job \in {"sync", "enable", "disable"} BY <1>0, <2>1, QueueType DEF ServeEffect
  <2> HIDE DEF r
  <2>4. CASE ~ours BY <2>1, <2>4 DEF ServeEffect, AstrayInv
  <2>5. CASE ours /\ r.job = "disable" BY <2>1, <2>5 DEF ServeEffect, AstrayInv, TunEnabled
  <2>6. CASE ours /\ r.job # "disable"
    <3>1. /\ desired'.running = TRUE /\ UNCHANGED flag
          /\ \/ astray'
             \/ /\ ~(r.saw /\ ~TunEnabled)
                /\ r.job = "enable" => r.from \in Tasks /\ task'[r.from].at = "open"
          BY <2>1, <2>6 DEF ServeEffect
    <3> QED BY <2>2, <2>3, <2>6, <3>1 DEF AstrayInv, TunEnabled
  <2> QED BY <2>4, <2>5, <2>6
<1>2. CASE CoreDies
  <2>1. CASE \A p \in Tasks : Idle(p)
    <3>1. UNCHANGED <<astray, flag, desired>> BY <1>2, <2>1 DEF CoreDies, NoBlame
    <3>2. \A p \in Tasks : task[p].at = "idle" BY <2>1, IdlePlace
    <3> QED BY <1>0, <1>2, <3>1, <3>2, CutQueue DEF AstrayInv, TunEnabled
  <2>2. CASE ~(\A p \in Tasks : Idle(p)) BY <1>2, <2>2 DEF CoreDies, Blame, AstrayInv
  <2> QED BY <2>1, <2>2
<1> USE NoTaskAssumption, BoundsAssumption, NoRulesAssumption
<1> USE DEF Goto, Leave, Start, At, Idle, NoJob, TunEnabled, Calm, Blame, NoBlame,
        BlameJob, Truncate, WriteOver, Orphan, Judge, Obey, Disconnect, InstallScript,
        UninstallScript, TypeOK, Task, Request, Desired, Default, AstrayInv
<1>3. CASE HelperDies BY <1>0, <1>3 DEF HelperDies
<1>4. CASE HelperRestarts BY <1>0, <1>4 DEF HelperRestarts
<1>5. CASE LateScript BY <1>0, <1>5 DEF LateScript
<1>6. CASE LateScriptCancelled BY <1>0, <1>6 DEF LateScriptCancelled
<1>7. CASE CalmDown BY <1>0, <1>7 DEF CalmDown
<1> HIDE DEF Goto, Leave, Start, At, Idle, NoJob, TunEnabled, Calm, Blame, NoBlame,
        BlameJob, Truncate, WriteOver, Orphan, Judge, Obey, Disconnect, InstallScript,
        UninstallScript, TypeOK, Task, Request, Desired, Default, AstrayInv
<1> QED
    BY <1>1, <1>2, <1>3, <1>4, <1>5, <1>6, <1>7
    DEF OtherStep

(* CalmInv: a lone sync.                                                    *)
LEMMA CalmTask ==
    ASSUME Inductive, NEW p \in Tasks, TaskStep(p)
    PROVE  CalmInv'
<1>0. TypeOK /\ TasksInv /\ QueueInv /\ CalmInv BY DEF Inductive
<1>1. CASE RulesChange(p)
  <2>1. CASE phase = "busy" BY <1>0, <1>1, <2>1 DEF RulesChange, CalmInv, Calm
  <2>2. CASE phase # "busy"
    <3>1. Calm /\ Rest /\ UNCHANGED <<core, ours, helper, late, queue>>
          BY <1>0, <1>1, <2>2 DEF RulesChange, Calm
    <3>2. Start(p, "sync", "rebuild") /\ "sync" \in Jobs /\ "rebuild" \in Places
          BY <1>1 DEF RulesChange, Jobs, Places
    <3>3. /\ task'[p].job = "sync" /\ task'[p].at = "rebuild"
          /\ \A q \in Tasks : q # p => task'[q] = task[q]
          BY <1>0, <3>2, Starting
    <3>4. /\ \A q \in Tasks : q # p => Idle(q)'
          /\ \A i \in DOMAIN queue' : FALSE
          BY <3>1, <3>3 DEF Rest, Idle
    <3> QED BY <1>0, <3>1, <3>3, <3>4 DEF CalmInv, Calm
  <2> QED BY <2>1, <2>2
<1>2. CASE Rebuilt(p)
  <2>1. Goto(p, "flag") /\ "flag" \in Places /\ task[p].at = "rebuild"
        /\ UNCHANGED <<core, ours, helper, late, queue, ver, phase>> BY <1>2 DEF Rebuilt, At, Places
  <2>2. Moves(p, "flag") BY <1>0, <2>1, Moving
  <2>3. ~Idle(p) BY <2>1 DEF Idle, NoJob
  <2>4. \A q \in Tasks : q # p => task'[q] = task[q] BY <2>2 DEF Moves
  <2>5. task'[p].job = task[p].job /\ task'[p].at = "flag" BY <2>2 DEF Moves
  <2> QED BY <1>0, <2>1, <2>3, <2>4, <2>5 DEF CalmInv, Calm, Idle
<1>3. CASE SyncLooks(p)
  <2>1. /\ UNCHANGED <<core, ours, helper, late, queue, ver, phase>> /\ task[p].at = "flag"
        /\ \A q \in Tasks : q # p => task'[q] = task[q]
        /\ task'[p] = NoJob \/ (task'[p].job = task[p].job /\ task'[p].at = "rules")
        BY <1>0, <1>3, SyncEffect DEF Ends, Moves
  <2>2. ~Idle(p) BY <2>1 DEF Idle, NoJob
  <2> QED BY <1>0, <2>1, <2>2 DEF CalmInv, Calm, Idle
<1>4. CASE ReadRules(p)
  <2>1. /\ UNCHANGED <<core, ours, helper, late, queue, ver, phase>> /\ task[p].at = "rules"
        /\ \A q \in Tasks : q # p => task'[q] = task[q]
        /\ task'[p].job = task[p].job /\ task'[p].at = "connect" /\ task'[p].routes = ver
        BY <1>0, <1>4, ReadEffect DEF Moves
  <2>2. ~Idle(p) BY <2>1 DEF Idle, NoJob
  <2> QED BY <1>0, <2>1, <2>2 DEF CalmInv, Calm, Idle
<1>5. CASE Send(p)
  <2>1. /\ UNCHANGED <<core, ours, helper, late, ver, phase>> /\ task[p].at = "connect"
        /\ \A q \in Tasks : q # p => task'[q] = task[q]
        /\ task'[p].job = task[p].job /\ task'[p].at = "wait" /\ task'[p].routes = task[p].routes
        BY <1>0, <1>5, SendEffect DEF Moves
  <2>2. ~Idle(p) BY <2>1 DEF Idle, NoJob
  <2>3. PICK n \in DOMAIN queue' :
          /\ queue'[n].from = p /\ queue'[n].job = task[p].job /\ queue'[n].routes = task[p].routes
          /\ \A i \in DOMAIN queue' : i = n \/ (i \in DOMAIN queue /\ queue'[i] = queue[i])
        BY <1>0, <1>5, SendEffect
  <2>4. queue' # <<>> BY <2>3
  <2>5. SUFFICES ASSUME Calm PROVE CalmInv' BY <2>1 DEF CalmInv, Calm
  <2>6. task[p].job = "sync" /\ task[p].routes = ver /\ \A q \in Tasks : q # p => Idle(q)
        BY <1>0, <2>1, <2>2, <2>5 DEF CalmInv
  <2>7. \A i \in DOMAIN queue' :
          queue'[i].from # NoTask /\ queue'[i].job = "sync" /\ queue'[i].routes = ver'
        BY <1>0, <2>1, <2>3, <2>5, <2>6, NoTaskAssumption DEF CalmInv
  <2>8. \A q \in Tasks : q # p => Idle(q)' BY <2>1, <2>6 DEF Idle
  <2> QED BY <1>0, <2>1, <2>4, <2>5, <2>6, <2>7, <2>8 DEF CalmInv
<1>6. CASE OpenFlag(p)
  <2>1. task[p].at = "open" /\ UNCHANGED phase BY <1>6 DEF OpenFlag, At
  <2>2. ~Idle(p) BY <2>1, IdlePlace
  <2> QED BY <1>0, <2>1, <2>2 DEF CalmInv, Calm
<1>7. CASE WriteFlag(p)
  <2>1. task[p].at = "write" /\ UNCHANGED phase BY <1>7 DEF WriteFlag, At
  <2>2. ~Idle(p) BY <2>1, IdlePlace
  <2> QED BY <1>0, <2>1, <2>2 DEF CalmInv, Calm
<1>8. CASE WriteFails(p)
  <2>1. task[p].at \in {"open", "write"} /\ UNCHANGED phase BY <1>8 DEF WriteFails, At
  <2>2. ~Idle(p) BY <2>1, IdlePlace
  <2> QED BY <1>0, <2>1, <2>2 DEF CalmInv, Calm
<1> USE NoTaskAssumption, BoundsAssumption, NoRulesAssumption
<1> USE DEF Goto, Leave, Start, At, Idle, NoJob, TunEnabled, Calm, Blame, NoBlame,
        BlameJob, Truncate, WriteOver, Rest, Orphan, Judge, Obey, Disconnect,
        InstallScript, UninstallScript, TypeOK, Task, Request, Desired, Default, CalmInv
<1>9. CASE RulesUnread(p) BY <1>0, <1>9 DEF RulesUnread
<1>10. CASE Unreachable(p) BY <1>0, <1>10 DEF Unreachable
<1>11. CASE GiveUp(p) BY <1>0, <1>11 DEF GiveUp
<1>12. CASE ClientGone(p) BY <1>0, <1>12 DEF ClientGone
<1>13. CASE Enable(p) BY <1>0, <1>13 DEF Enable
<1>14. CASE Disable(p) BY <1>0, <1>14 DEF Disable
<1>15. CASE Install(p) BY <1>0, <1>15 DEF Install
<1>16. CASE Uninstall(p) BY <1>0, <1>16 DEF Uninstall
<1>17. CASE ScriptRuns(p) BY <1>0, <1>17 DEF ScriptRuns
<1>18. CASE ScriptFails(p) BY <1>0, <1>18 DEF ScriptFails
<1>19. CASE ScriptLeft(p) BY <1>0, <1>19 DEF ScriptLeft
<1>20. CASE CoreStarts(p) BY <1>0, <1>20 DEF CoreStarts
<1> HIDE DEF Goto, Leave, Start, At, Idle, NoJob, TunEnabled, Calm, Blame, NoBlame,
        BlameJob, Truncate, WriteOver, Rest, Orphan, Judge, Obey, Disconnect,
        InstallScript, UninstallScript, TypeOK, Task, Request, Desired, Default, CalmInv
<1> QED
    BY <1>1, <1>2, <1>3, <1>4, <1>5, <1>6, <1>7, <1>8, <1>9, <1>10, <1>11, <1>12, <1>13,
       <1>14, <1>15, <1>16, <1>17, <1>18, <1>19, <1>20
    DEF TaskStep, Handler, Progress, Disturbance

(* CalmInv: a lone sync.                                                    *)
LEMMA CalmOther ==
    ASSUME Inductive, OtherStep
    PROVE  CalmInv'
<1>0. TypeOK /\ TasksInv /\ QueueInv /\ CalmInv BY DEF Inductive
<1>1. CASE Serve
  <2>0. SUFFICES ASSUME Calm PROVE CalmInv' BY <1>0, <1>1 DEF CalmInv, Calm, Serve
  <2> DEFINE r == queue[1]
  <2>1. ServeEffect(r) BY <1>0, <1>1, Serving
  <2>2. r.from # NoTask /\ r.job = "sync" /\ 1 \in DOMAIN queue
        BY <1>0, <2>0, <2>1 DEF ServeEffect, CalmInv
  <2>3. r.from \in Tasks /\ task[r.from].at = "wait" BY <1>0, <2>2, QueueType DEF QueueInv
  <2>4. /\ \A i \in DOMAIN queue' : i + 1 \in DOMAIN queue /\ queue'[i] = queue[i + 1]
        /\ \A q \in Tasks : q # r.from => task'[q] = task[q]
        /\ task'[r.from] = NoJob
        /\ UNCHANGED <<core, ver, helper, ours, late, phase>>
        BY <2>1, <2>2, <2>3 DEF ServeEffect
  <2> HIDE DEF r
  <2>8. ~Idle(r.from) BY <2>3, IdlePlace
  <2>5. \A q \in Tasks : q # r.from => Idle(q) BY <1>0, <2>0, <2>3, <2>8 DEF CalmInv
  <2>6. \A q \in Tasks : Idle(q)' BY <2>4, <2>5 DEF Idle
  <2>7. \A i \in DOMAIN queue' :
          queue'[i].from # NoTask /\ queue'[i].job = "sync" /\ queue'[i].routes = ver'
        BY <1>0, <2>0, <2>4 DEF CalmInv
  <2> QED BY <1>0, <2>0, <2>4, <2>6, <2>7 DEF CalmInv
<1> USE NoTaskAssumption, BoundsAssumption, NoRulesAssumption
<1> USE DEF Goto, Leave, Start, At, Idle, NoJob, TunEnabled, Calm, Blame, NoBlame,
        BlameJob, Truncate, WriteOver, Rest, Orphan, Judge, Obey, Disconnect,
        InstallScript, UninstallScript, TypeOK, Task, Request, Desired, Default, CalmInv
<1>2. CASE HelperDies BY <1>0, <1>2 DEF HelperDies
<1>3. CASE HelperRestarts BY <1>0, <1>3 DEF HelperRestarts
<1>4. CASE LateScript BY <1>0, <1>4 DEF LateScript
<1>5. CASE LateScriptCancelled BY <1>0, <1>5 DEF LateScriptCancelled
<1>6. CASE CoreDies BY <1>0, <1>6 DEF CoreDies
<1>7. CASE CalmDown BY <1>0, <1>7 DEF CalmDown
<1> HIDE DEF Goto, Leave, Start, At, Idle, NoJob, TunEnabled, Calm, Blame, NoBlame,
        BlameJob, Truncate, WriteOver, Rest, Orphan, Judge, Obey, Disconnect,
        InstallScript, UninstallScript, TypeOK, Task, Request, Desired, Default, CalmInv
<1> QED
    BY <1>1, <1>2, <1>3, <1>4, <1>5, <1>6, <1>7
    DEF OtherStep

(* RebuildHeals.                                                            *)
LEMMA HealsTask ==
    ASSUME Inductive, NEW p \in Tasks, TaskStep(p)
    PROVE  RebuildHeals'
<1>0. TypeOK /\ TasksInv /\ QueueInv /\ CalmInv /\ RebuildHeals BY DEF Inductive
<1>1. CASE RulesChange(p)
  <2>1. Start(p, "sync", "rebuild") /\ "sync" \in Jobs /\ "rebuild" \in Places
        BY <1>1 DEF RulesChange, Jobs, Places
  <2>2. task'[p].at = "rebuild" BY <1>0, <2>1, Starting
  <2> QED BY <2>2 DEF RebuildHeals, Rest, Idle, NoJob
<1> USE NoTaskAssumption, BoundsAssumption, NoRulesAssumption
<1> USE DEF Goto, Leave, Start, At, Idle, NoJob, TunEnabled, Calm, Blame, NoBlame,
        BlameJob, Truncate, WriteOver, Rest, Orphan, Judge, Obey, Disconnect,
        InstallScript, UninstallScript, TypeOK, Task, Request, Desired, Default,
        CalmInv, RebuildHeals
<1>2. CASE Rebuilt(p) BY <1>0, <1>2 DEF Rebuilt
<1>3. CASE SyncLooks(p) BY <1>0, <1>3 DEF SyncLooks
<1>4. CASE ReadRules(p) BY <1>0, <1>4 DEF ReadRules
<1>5. CASE RulesUnread(p) BY <1>0, <1>5 DEF RulesUnread
<1>6. CASE Send(p) BY <1>0, <1>6 DEF Send
<1>7. CASE Unreachable(p) BY <1>0, <1>7 DEF Unreachable
<1>8. CASE GiveUp(p) BY <1>0, <1>8 DEF GiveUp
<1>9. CASE ClientGone(p) BY <1>0, <1>9 DEF ClientGone
<1>10. CASE Enable(p) BY <1>0, <1>10 DEF Enable
<1>11. CASE Disable(p) BY <1>0, <1>11 DEF Disable
<1>12. CASE OpenFlag(p) BY <1>0, <1>12 DEF OpenFlag
<1>13. CASE WriteFlag(p) BY <1>0, <1>13 DEF WriteFlag
<1>14. CASE WriteFails(p) BY <1>0, <1>14 DEF WriteFails
<1>15. CASE Install(p) BY <1>0, <1>15 DEF Install
<1>16. CASE Uninstall(p) BY <1>0, <1>16 DEF Uninstall
<1>17. CASE ScriptRuns(p) BY <1>0, <1>17 DEF ScriptRuns
<1>18. CASE ScriptFails(p) BY <1>0, <1>18 DEF ScriptFails
<1>19. CASE ScriptLeft(p) BY <1>0, <1>19 DEF ScriptLeft
<1>20. CASE CoreStarts(p) BY <1>0, <1>20 DEF CoreStarts
<1> HIDE DEF Goto, Leave, Start, At, Idle, NoJob, TunEnabled, Calm, Blame, NoBlame,
        BlameJob, Truncate, WriteOver, Rest, Orphan, Judge, Obey, Disconnect,
        InstallScript, UninstallScript, TypeOK, Task, Request, Desired, Default,
        CalmInv, RebuildHeals
<1> QED
    BY <1>1, <1>2, <1>3, <1>4, <1>5, <1>6, <1>7, <1>8, <1>9, <1>10, <1>11, <1>12, <1>13,
       <1>14, <1>15, <1>16, <1>17, <1>18, <1>19, <1>20
    DEF TaskStep, Handler, Progress, Disturbance

(* RebuildHeals.                                                            *)
LEMMA HealsOther ==
    ASSUME Inductive, OtherStep
    PROVE  RebuildHeals'
<1>0. TypeOK /\ TasksInv /\ QueueInv /\ CalmInv /\ RebuildHeals BY DEF Inductive
<1>1. CASE Serve
  <2>0. CASE ~Calm BY <1>1, <2>0 DEF Serve, Calm, RebuildHeals
  <2>1. CASE Calm
    <3> DEFINE r == queue[1]
    <3>1. ServeEffect(r) BY <1>0, <1>1, Serving
    <3>2. r.job = "sync" /\ r.routes = ver /\ ours
          BY <1>0, <2>1, <3>1 DEF ServeEffect, CalmInv
    <3> HIDE DEF r
    <3>3. desired' \in Desired /\ desired'.running = TRUE /\ desired'.routes = ver'
          BY <3>1, <3>2 DEF ServeEffect
    <3> QED BY <3>3 DEF RebuildHeals, Desired
  <2> QED BY <2>0, <2>1
<1> USE NoTaskAssumption, BoundsAssumption, NoRulesAssumption
<1> USE DEF Goto, Leave, Start, At, Idle, NoJob, TunEnabled, Calm, Blame, NoBlame,
        BlameJob, Truncate, WriteOver, Rest, Orphan, Judge, Obey, Disconnect,
        InstallScript, UninstallScript, TypeOK, Task, Request, Desired, Default,
        CalmInv, RebuildHeals
<1>2. CASE HelperDies BY <1>0, <1>2 DEF HelperDies
<1>3. CASE HelperRestarts BY <1>0, <1>3 DEF HelperRestarts
<1>4. CASE LateScript BY <1>0, <1>4 DEF LateScript
<1>5. CASE LateScriptCancelled BY <1>0, <1>5 DEF LateScriptCancelled
<1>6. CASE CoreDies BY <1>0, <1>6 DEF CoreDies
<1>7. CASE CalmDown BY <1>0, <1>7 DEF CalmDown
<1> HIDE DEF Goto, Leave, Start, At, Idle, NoJob, TunEnabled, Calm, Blame, NoBlame,
        BlameJob, Truncate, WriteOver, Rest, Orphan, Judge, Obey, Disconnect,
        InstallScript, UninstallScript, TypeOK, Task, Request, Desired, Default,
        CalmInv, RebuildHeals
<1> QED
    BY <1>1, <1>2, <1>3, <1>4, <1>5, <1>6, <1>7
    DEF OtherStep

-----------------------------------------------------------------------------
(* StaleInv.                                                                *)

(* A reconciliation under way makes up for everything.                      *)
LEMMA PendingSuffices == Pending => StaleInv
BY DEF StaleInv, InForce, InFlight, Enabling, Harmless

(* What a request or a task about to send one was before the step.          *)
FromQueue(r) ==
    \E i \in DOMAIN queue :
        /\ queue[i].job = r.job /\ queue[i].routes = r.routes
        /\ r.from # NoTask => queue[i].from # NoTask
FromTask(t) ==
    \E q \in Tasks : task[q].at = "connect" /\ task[q].job = t.job /\ task[q].routes = t.routes

(* A step that tells the helper nothing, wants nothing new and gives up no  *)
(* reconciliation.                                                          *)
LEMMA Persists ==
    ASSUME StaleInv, UNCHANGED <<stale, ver, desired>>, Wanted' => Wanted, Pending => Pending',
           \A i \in DOMAIN queue' :
               queue'[i].job # "disable" => FromQueue(queue'[i]) \/ FromTask(queue'[i]),
           \A q \in Tasks :
               task'[q].at = "connect" /\ task'[q].job # "disable" =>
                   task'[q].routes = ver \/ FromTask(task'[q])
    PROVE  StaleInv'
<1>1. CASE stale \/ Pending' BY <1>1 DEF StaleInv, InForce, InFlight, Enabling, Harmless
<1>2. CASE ~stale /\ ~Pending'
  <2>1. InForce' BY <1>2 DEF StaleInv, InForce
  <2>2. Wanted => /\ \A i \in DOMAIN queue' : queue'[i].job # "disable" =>
                        queue'[i].routes = ver \/ Overtaken(queue'[i].routes)
                  /\ \A q \in Tasks : task'[q].at = "connect" /\ task'[q].job # "disable" =>
                        task'[q].routes = ver \/ Overtaken(task'[q].routes)
        BY <1>2 DEF StaleInv, InFlight, Harmless, FromQueue, FromTask
  <2>3. InFlight' BY <2>2 DEF InFlight, Harmless, Overtaken
  <2>4. /\ \A i \in DOMAIN queue' : queue'[i].job = "enable" /\ queue'[i].from # NoTask =>
              queue'[i].routes = ver \/ Overtaken(queue'[i].routes)
        /\ \A q \in Tasks : task'[q].at = "connect" /\ task'[q].job = "enable" =>
              task'[q].routes = ver \/ Overtaken(task'[q].routes)
        BY <1>2 DEF StaleInv, Enabling, Harmless, FromQueue, FromTask
  <2>5. Enabling' BY <2>4 DEF Enabling, Harmless, Overtaken
  <2> QED BY <2>1, <2>3, <2>5 DEF StaleInv
<1> QED BY <1>1, <1>2

(* StaleInv speaks of these.                                                *)
LEMMA Unmoved == ASSUME StaleInv, UNCHANGED <<ver, desired, flag, task, queue, stale>> PROVE StaleInv'
<1>1. Pending' = Pending BY DEF Pending
<1>2. Wanted' = Wanted BY DEF Wanted, TunEnabled
<1> QED BY <1>1, <1>2 DEF StaleInv, InForce, InFlight, Enabling, Harmless, Overtaken

(* A step of one task that is not to send next and gives up no              *)
(* reconciliation.                                                          *)
LEMMA Quiet ==
    ASSUME StaleInv, NEW p \in Tasks, \A q \in Tasks : q # p => task'[q] = task[q],
           UNCHANGED <<stale, ver, desired, queue>>, flag' \in {flag, "empty"},
           task[p].job = "sync" /\ task[p].at \in {"rebuild", "flag", "rules", "connect"} =>
               task'[p].job = "sync" /\ task'[p].at \in {"rebuild", "flag", "rules"},
           task'[p].at # "connect",
           task'[p].job = "enable" /\ task'[p].at \in {"open", "write"} =>
               task[p].job = "enable" /\ task[p].at \in {"open", "write"}
    PROVE  StaleInv'
<1>1. Pending => Pending' BY DEF Pending
<1>2. Wanted' => Wanted BY DEF Wanted, TunEnabled
<1>3. \A i \in DOMAIN queue' : FromQueue(queue'[i]) BY DEF FromQueue
<1>4. \A q \in Tasks : task'[q].at = "connect" => FromTask(task'[q]) BY DEF FromTask
<1> QED BY <1>1, <1>2, <1>3, <1>4, Persists

(* The helper gets the newest rules, or a request that is not overtaken.    *)
LEMMA StaleServed ==
    ASSUME TypeOK, QueueInv, RoutesInv, RoutesInv', StaleInv, NEW r, ServeEffect(r), r.job # "disable"
    PROVE  StaleInv'
<1>0. /\ 1 \in DOMAIN queue /\ r = queue[1] /\ UNCHANGED <<ver, flag>> /\ ver \in Nat
      /\ \A q \in Tasks : q # r.from => task'[q] = task[q]
      /\ \A i \in DOMAIN queue' : i + 1 \in DOMAIN queue /\ queue'[i] = queue[i + 1]
      /\ \A i \in DOMAIN queue : i # 1 => i - 1 \in DOMAIN queue' /\ queue'[i - 1] = queue[i]
      /\ r.job \in {"sync", "enable", "disable"} /\ r.from \in Tasks \cup {NoTask}
      BY BoundsAssumption DEF ServeEffect, TypeOK, Request
<1>1. CASE stale' BY <1>1 DEF StaleInv
<1>2. CASE r.routes = ver /\ ours
  <2>1. desired'.routes = ver' BY <1>0, <1>2 DEF ServeEffect
  <2>2. /\ \A q \in Tasks : Harmless(task[q].routes)'
        /\ \A i \in DOMAIN queue' : Harmless(queue[i].routes)'
        BY <1>0, <2>1 DEF RoutesInv, Harmless, Overtaken
  <2> QED BY <2>1, <2>2 DEF StaleInv, InForce, InFlight, Enabling
<1>3. CASE ~stale' /\ ours /\ r.routes # ver
  <2>1. /\ ~stale /\ NoRules \notin {r.routes, desired.routes} /\ ~(r.routes < desired.routes)
        /\ desired'.routes = r.routes
        BY <1>3 DEF ServeEffect
  <2>2. r.routes \in Nat /\ desired.routes \in Nat /\ desired.routes <= r.routes
    <3>1. r.routes \in 0..ver BY <1>0, <2>1 DEF RoutesInv
    <3>2. desired.routes \in 0..MaxVer BY <2>1 DEF TypeOK, Desired, RouteSets
    <3> QED BY <1>0, <2>1, <3>1, <3>2, BoundsAssumption
  <2>3. r.from \in Tasks => /\ task[r.from].at = "wait" /\ task[r.from].job = r.job
                            /\ task'[r.from] = NoJob \/ (r.job = "enable" /\ task'[r.from].at = "open")
        BY <1>0, NoTaskAssumption DEF QueueInv, ServeEffect
  <2>4. Pending => Pending'
    <3>1. CASE \E i \in DOMAIN queue : queue[i].job = "sync" /\ queue[i].routes = ver
          BY <1>0, <1>3, <3>1 DEF Pending
    <3>2. ASSUME NEW q \in Tasks, task[q].job = "sync",
                 \/ task[q].at \in {"rebuild", "flag", "rules"}
                 \/ task[q].at = "connect" /\ task[q].routes = ver
          PROVE  Pending'
      <4>1. task'[q] = task[q] BY <1>0, <2>3, <3>2
      <4> QED BY <1>0, <3>2, <4>1 DEF Pending
    <3> QED BY <3>1, <3>2 DEF Pending
  <2>5. CASE Pending BY <2>4, <2>5 DEF StaleInv, InForce, InFlight, Enabling, Harmless
  <2>6. CASE ~Pending
    <3>1. ~Harmless(r.routes) BY <1>3, <2>1, <2>6 DEF Harmless, Overtaken
    <3>2. ~Wanted BY <1>0, <2>1, <3>1 DEF StaleInv, InFlight
    <3>3. ~(r.job = "enable" /\ r.from # NoTask) BY <1>0, <2>1, <3>1 DEF StaleInv, Enabling
    <3>4. \A q \in Tasks : task'[q] = task[q] \/ task'[q] = NoJob
          BY <1>0, <2>3, <3>3, NoTaskAssumption
    <3>5. ~Wanted' BY <1>0, <3>2, <3>4 DEF Wanted, TunEnabled, NoJob
    <3>6. ASSUME NEW x \in 0..ver \cup {NoRules}, Harmless(x)
          PROVE  x = ver' \/ NoRules \in {x, desired'.routes} \/ x < desired'.routes
      <4>1. x = ver \/ x = NoRules \/ (x \in Nat /\ x < desired.routes)
            BY <1>0, <2>1, <2>6, <3>6 DEF Harmless, Overtaken
      <4> QED BY <1>0, <2>1, <2>2, <4>1
    <3>7. Enabling'
      <4>1. ASSUME NEW q \in Tasks, task'[q].at = "connect", task'[q].job = "enable"
            PROVE  Harmless(task[q].routes)'
        <5>1. task'[q] = task[q] BY <3>4, <4>1 DEF NoJob
        <5>2. Harmless(task[q].routes) /\ task[q].routes \in 0..ver \cup {NoRules}
              BY <2>1, <4>1, <5>1 DEF StaleInv, Enabling, RoutesInv
        <5> QED BY <3>6, <5>1, <5>2 DEF Harmless, Overtaken
      <4>2. ASSUME NEW i \in DOMAIN queue', queue'[i].job = "enable", queue'[i].from # NoTask
            PROVE  Harmless(queue[i].routes)'
        <5>1. i + 1 \in DOMAIN queue /\ queue'[i] = queue[i + 1] BY <1>0
        <5>2. Harmless(queue[i + 1].routes) /\ queue[i + 1].routes \in 0..ver \cup {NoRules}
              BY <2>1, <4>2, <5>1 DEF StaleInv, Enabling, RoutesInv
        <5> QED BY <3>6, <5>1, <5>2 DEF Harmless, Overtaken
      <4> QED BY <4>1, <4>2 DEF Enabling
    <3> QED BY <3>5, <3>7 DEF StaleInv, InForce, InFlight
  <2> QED BY <2>5, <2>6
<1>4. CASE ~ours BY <1>4 DEF ServeEffect, StaleInv
<1> QED BY <1>1, <1>2, <1>3, <1>4

(* StaleInv: rules and helper.                                               *)
LEMMA StaleTask ==
    ASSUME Inductive, NEW p \in Tasks, TaskStep(p)
    PROVE  StaleInv'
<1>0. TypeOK /\ TasksInv /\ QueueInv /\ RoutesInv /\ StaleInv BY DEF Inductive
<1>1. CASE RulesChange(p)
  <2>1. Start(p, "sync", "rebuild") /\ "sync" \in Jobs /\ "rebuild" \in Places
        BY <1>1 DEF RulesChange, Jobs, Places
  <2>2. task'[p].job = "sync" /\ task'[p].at = "rebuild" BY <1>0, <2>1, Starting
  <2>3. Pending' BY <2>2 DEF Pending
  <2> QED BY <2>3 DEF StaleInv, InForce, InFlight, Enabling, Harmless
<1>2. CASE Rebuilt(p)
  <2>1. /\ task[p].at = "rebuild" /\ Goto(p, "flag") /\ "flag" \in Places
        /\ UNCHANGED <<stale, ver, desired, queue>> /\ flag' \in {flag, "empty"}
        BY <1>2 DEF Rebuilt, At, Places, Truncate
  <2>2. Moves(p, "flag") BY <1>0, <2>1, Moving
  <2>3. /\ task'[p].job = task[p].job /\ task'[p].at = "flag"
        /\ \A q \in Tasks : q # p => task'[q] = task[q]
        BY <2>2 DEF Moves
  <2> QED BY <1>0, <2>1, <2>3, Quiet
<1>3. CASE SyncLooks(p)
  <2>0. Sound(task[p]) BY <1>0 DEF TasksInv
  <2>1. task[p].job = "sync" BY <1>0, <1>3, <2>0, SyncEffect DEF Sound
  <2>2. CASE TunEnabled
    <3>1. task'[p].job = "sync" /\ task'[p].at = "rules"
          BY <1>0, <1>3, <2>1, <2>2, SyncEffect DEF Moves
    <3>2. Pending' BY <3>1 DEF Pending
    <3> QED BY <3>2 DEF StaleInv, InForce, InFlight, Enabling, Harmless
  <2>3. CASE ~TunEnabled
    <3>1. /\ stale' = (stale \/ \E q \in Tasks : task[q].job = "enable")
          /\ \A q \in Tasks : task'[q] = task[q] \/ task'[q] = NoJob
          /\ UNCHANGED <<flag, queue>>
          BY <1>0, <1>3, <2>3, SyncEffect DEF Ends
    <3>2. SUFFICES ASSUME ~stale' PROVE StaleInv' BY DEF StaleInv
    <3>7. \A q \in Tasks : task[q].job # "enable" BY <3>1, <3>2
    <3>8. NoJob.job # "enable" BY DEF NoJob
    <3>3. \A q \in Tasks : task'[q].job # "enable" BY <3>1, <3>7, <3>8
    <3>4. ~Wanted' BY <2>3, <3>1, <3>3 DEF Wanted, TunEnabled
    <3>5. \A i \in DOMAIN queue : queue[i].job = "enable" => queue[i].from = NoTask
          BY <1>0, <3>7, QueueType DEF QueueInv
    <3>6. \A i \in DOMAIN queue' : queue'[i].job = "enable" => queue'[i].from = NoTask
          BY <3>1, <3>5
    <3> QED BY <3>3, <3>4, <3>6 DEF StaleInv, InForce, InFlight, Enabling
  <2> QED BY <2>2, <2>3
<1>4. CASE ReadRules(p)
  <2>0. Sound(task[p]) BY <1>0 DEF TasksInv
  <2>1. /\ task[p].at = "rules" /\ task[p].job \in {"sync", "enable"} /\ task'[p].at = "connect"
        /\ task'[p].job = task[p].job /\ task'[p].routes = ver
        /\ \A q \in Tasks : q # p => task'[q] = task[q]
        /\ UNCHANGED <<ver, flag, desired, queue, stale>>
        BY <1>0, <1>4, <2>0, ReadEffect DEF Moves, Sound
  <2>2. Pending => Pending' BY <2>1 DEF Pending
  <2>3. Wanted' => Wanted BY <2>1 DEF Wanted, TunEnabled
  <2>4. \A i \in DOMAIN queue' : FromQueue(queue'[i]) BY <2>1 DEF FromQueue
  <2>5. \A q \in Tasks : task'[q].at = "connect" =>
          task'[q].routes = ver \/ FromTask(task'[q]) BY <2>1 DEF FromTask
  <2> QED BY <1>0, <2>1, <2>2, <2>3, <2>4, <2>5, Persists
<1>5. CASE Send(p)
  <2>1. /\ task[p].at = "connect" /\ task'[p].at = "wait" /\ task'[p].job = task[p].job
        /\ \A q \in Tasks : q # p => task'[q] = task[q]
        /\ UNCHANGED <<ver, flag, desired, stale>>
        /\ \A i \in DOMAIN queue : i \in DOMAIN queue' /\ queue'[i] = queue[i]
        BY <1>0, <1>5, SendEffect DEF Moves
  <2>2. PICK n \in DOMAIN queue' :
          /\ queue'[n].from = p /\ queue'[n].job = task[p].job /\ queue'[n].routes = task[p].routes
          /\ \A i \in DOMAIN queue' : i = n \/ (i \in DOMAIN queue /\ queue'[i] = queue[i])
        BY <1>0, <1>5, SendEffect
  <2>3. Pending => Pending' BY <2>1, <2>2 DEF Pending
  <2>4. Wanted' => Wanted BY <2>1 DEF Wanted, TunEnabled
  <2>5. \A i \in DOMAIN queue' : FromQueue(queue'[i]) \/ FromTask(queue'[i])
        BY <2>1, <2>2 DEF FromQueue, FromTask
  <2>6. \A q \in Tasks : task'[q].at = "connect" => FromTask(task'[q]) BY <2>1 DEF FromTask
  <2> QED BY <1>0, <2>1, <2>3, <2>4, <2>5, <2>6, Persists
<1>6. CASE Unreachable(p)
  <2>1. /\ Leave(p) /\ BlameJob(task[p].job) /\ UNCHANGED <<ver, desired, queue, flag>>
        BY <1>6 DEF Unreachable, At
  <2>2. task'[p] = NoJob /\ \A q \in Tasks : q # p => task'[q] = task[q]
        BY <1>0, <2>1, Ending DEF Ends
  <2>3. NoJob.at = "idle" BY DEF NoJob
  <2>4. CASE task[p].job = "sync" BY <2>1, <2>4 DEF BlameJob, StaleInv
  <2>5. CASE task[p].job # "sync"
    <3>1. UNCHANGED stale BY <1>0, <2>1, <2>5 DEF BlameJob, TypeOK
    <3> QED BY <1>0, <2>1, <2>2, <2>3, <2>5, <3>1, Quiet
  <2> QED BY <2>4, <2>5
<1>7. CASE GiveUp(p)
  <2>1. /\ task[p].at = "wait" /\ Leave(p) /\ Orphan(p) /\ UNCHANGED <<stale, ver, desired, flag>>
        BY <1>7 DEF GiveUp, At
  <2>2. task'[p] = NoJob /\ \A q \in Tasks : q # p => task'[q] = task[q]
        BY <1>0, <2>1, Ending DEF Ends
  <2>3. NoJob.at = "idle" BY DEF NoJob
  <2>4. /\ DOMAIN queue' = DOMAIN queue
        /\ \A i \in DOMAIN queue : /\ queue'[i].job = queue[i].job
                                   /\ queue'[i].routes = queue[i].routes
                                   /\ queue'[i].from \in {queue[i].from, NoTask}
        BY <1>0, <2>1, OrphanQueue
  <2>5. Pending => Pending' BY <2>1, <2>2, <2>4 DEF Pending
  <2>6. Wanted' => Wanted BY <2>1, <2>2, <2>3 DEF Wanted, TunEnabled
  <2>7. \A i \in DOMAIN queue' : FromQueue(queue'[i]) BY <2>4 DEF FromQueue
  <2>8. \A q \in Tasks : task'[q].at = "connect" => FromTask(task'[q])
        BY <2>2, <2>3 DEF FromTask
  <2> QED BY <1>0, <2>1, <2>5, <2>6, <2>7, <2>8, Persists
<1>8. CASE ClientGone(p)
  <2>1. /\ Leave(p) /\ BlameJob(task[p].job) /\ UNCHANGED <<ver, desired, queue, flag>>
        BY <1>8 DEF ClientGone, At
  <2>2. task'[p] = NoJob /\ \A q \in Tasks : q # p => task'[q] = task[q]
        BY <1>0, <2>1, Ending DEF Ends
  <2>3. NoJob.at = "idle" BY DEF NoJob
  <2>4. CASE task[p].job = "sync" BY <2>1, <2>4 DEF BlameJob, StaleInv
  <2>5. CASE task[p].job # "sync"
    <3>1. UNCHANGED stale BY <1>0, <2>1, <2>5 DEF BlameJob, TypeOK
    <3> QED BY <1>0, <2>1, <2>2, <2>3, <2>5, <3>1, Quiet
  <2> QED BY <2>4, <2>5
<1>9. CASE Enable(p)
  <2>1. /\ Start(p, "enable", "rules") /\ "enable" \in Jobs /\ "rules" \in Places
        /\ UNCHANGED <<stale, ver, desired, queue>> /\ flag' \in {flag, "empty"}
        BY <1>9 DEF Enable, Jobs, Places, Truncate
  <2>2. /\ task[p] = NoJob /\ task'[p].job = "enable" /\ task'[p].at = "rules"
        /\ \A q \in Tasks : q # p => task'[q] = task[q]
        BY <1>0, <2>1, Starting
  <2>3. NoJob.at = "idle" BY DEF NoJob
  <2> QED BY <1>0, <2>1, <2>2, <2>3, Quiet
<1>10. CASE Disable(p)
  <2>1. /\ Start(p, "disable", "write") /\ "disable" \in Jobs /\ "write" \in Places
        /\ UNCHANGED <<stale, ver, desired, queue>> /\ flag' \in {flag, "empty"}
        BY <1>10 DEF Disable, Jobs, Places, Truncate
  <2>2. /\ task[p] = NoJob /\ task'[p].job = "disable" /\ task'[p].at = "write"
        /\ \A q \in Tasks : q # p => task'[q] = task[q]
        BY <1>0, <2>1, Starting
  <2>3. NoJob.at = "idle" BY DEF NoJob
  <2> QED BY <1>0, <2>1, <2>2, <2>3, Quiet
<1>11. CASE OpenFlag(p)
  <2>1. /\ task[p].at = "open" /\ Goto(p, "write") /\ "write" \in Places
        /\ UNCHANGED <<stale, ver, desired, queue>> /\ flag' \in {flag, "empty"}
        BY <1>11 DEF OpenFlag, At, Places, Truncate
  <2>2. Moves(p, "write") BY <1>0, <2>1, Moving
  <2>3. /\ task'[p].job = task[p].job /\ task'[p].at = "write"
        /\ \A q \in Tasks : q # p => task'[q] = task[q]
        BY <2>2 DEF Moves
  <2> QED BY <1>0, <2>1, <2>3, Quiet
<1>12. CASE WriteFlag(p)
  <2>1. /\ task[p].at = "write" /\ UNCHANGED <<ver, desired, queue, stale>>
        /\ flag' = "on" => task[p].job = "enable"
        /\ \A q \in Tasks : q # p => task'[q] = task[q]
        /\ task'[p] = NoJob \/ (task'[p].at = "connect" /\ task'[p].job = "disable")
        BY <1>0, <1>12, WriteEffect DEF Ends, Moves
  <2>2. Pending => Pending' BY <2>1 DEF Pending
  <2>3. Wanted' => Wanted BY <2>1 DEF Wanted, TunEnabled, NoJob
  <2>4. \A i \in DOMAIN queue' : FromQueue(queue'[i]) BY <2>1 DEF FromQueue
  <2>5. \A q \in Tasks : task'[q].at = "connect" /\ task'[q].job # "disable" =>
          FromTask(task'[q]) BY <2>1 DEF FromTask, NoJob
  <2> QED BY <1>0, <2>1, <2>2, <2>3, <2>4, <2>5, Persists
<1>13. CASE WriteFails(p)
  <2>1. /\ task[p].at \in {"open", "write"} /\ Leave(p)
        /\ UNCHANGED <<stale, ver, desired, queue, flag>>
        BY <1>13 DEF WriteFails, At
  <2>2. task'[p] = NoJob /\ \A q \in Tasks : q # p => task'[q] = task[q]
        BY <1>0, <2>1, Ending DEF Ends
  <2>3. NoJob.at = "idle" BY DEF NoJob
  <2> QED BY <1>0, <2>1, <2>2, <2>3, Quiet
<1>14. CASE Install(p)
  <2>1. /\ Start(p, "install", "script") /\ "install" \in Jobs /\ "script" \in Places
        /\ UNCHANGED <<stale, ver, desired, queue>> /\ flag' \in {flag, "empty"}
        BY <1>14 DEF Install, Jobs, Places, Truncate
  <2>2. /\ task[p] = NoJob /\ task'[p].job = "install" /\ task'[p].at = "script"
        /\ \A q \in Tasks : q # p => task'[q] = task[q]
        BY <1>0, <2>1, Starting
  <2>3. NoJob.at = "idle" BY DEF NoJob
  <2> QED BY <1>0, <2>1, <2>2, <2>3, Quiet
<1>15. CASE Uninstall(p)
  <2>1. /\ Start(p, "uninstall", "script") /\ "uninstall" \in Jobs /\ "script" \in Places
        /\ UNCHANGED <<stale, ver, desired, queue>> /\ flag' \in {flag, "empty"}
        BY <1>15 DEF Uninstall, Jobs, Places, Truncate
  <2>2. /\ task[p] = NoJob /\ task'[p].job = "uninstall" /\ task'[p].at = "script"
        /\ \A q \in Tasks : q # p => task'[q] = task[q]
        BY <1>0, <2>1, Starting
  <2>3. NoJob.at = "idle" BY DEF NoJob
  <2> QED BY <1>0, <2>1, <2>2, <2>3, Quiet
<1>16. CASE ScriptRuns(p)
  <2>0. Sound(task[p]) BY <1>0 DEF TasksInv
  <2>1. /\ UNCHANGED <<ver, flag>> /\ DOMAIN queue' = {} /\ task[p].at = "script"
        /\ \A q \in Tasks \ {p} : \/ task'[q] = task[q]
                                  \/ task[q].at = "wait" /\ task'[q] = NoJob
        /\ task'[p] = NoJob \/ (task'[p].at = "open" /\ task'[p].job = "uninstall")
        /\ stale' = (stale \/ \E i \in DOMAIN queue : queue[i].job = "sync")
        /\ desired' = desired \/ desired' = Default
        BY <1>0, <1>16, ScriptEffect
  <2>2. SUFFICES ASSUME ~stale' PROVE StaleInv' BY DEF StaleInv
  <2>3. Pending => Pending' BY <2>1, <2>2 DEF Pending
  <2>4. Wanted' => Wanted BY <2>1 DEF Wanted, TunEnabled, NoJob
  <2>5. CASE desired' = desired
    <3>1. \A q \in Tasks : task'[q].at = "connect" => FromTask(task'[q])
          BY <2>1 DEF FromTask, NoJob
    <3>2. UNCHANGED stale BY <1>0, <2>1, <2>2 DEF TypeOK
    <3> QED BY <1>0, <2>1, <2>3, <2>4, <2>5, <3>1, <3>2, Persists
  <2>6. CASE desired' = Default
        BY <2>1, <2>6 DEF StaleInv, InForce, InFlight, Enabling, Harmless, Overtaken, Default
  <2> QED BY <2>1, <2>5, <2>6
<1>17. CASE ScriptFails(p)
  <2>1. /\ task[p].at = "script" /\ Leave(p)
        /\ UNCHANGED <<stale, ver, desired, queue, flag>>
        BY <1>17 DEF ScriptFails, At
  <2>2. task'[p] = NoJob /\ \A q \in Tasks : q # p => task'[q] = task[q]
        BY <1>0, <2>1, Ending DEF Ends
  <2>3. NoJob.at = "idle" BY DEF NoJob
  <2> QED BY <1>0, <2>1, <2>2, <2>3, Quiet
<1>18. CASE ScriptLeft(p)
  <2>1. /\ task[p].at = "script" /\ Leave(p)
        /\ UNCHANGED <<stale, ver, desired, queue, flag>>
        BY <1>18 DEF ScriptLeft, At
  <2>2. task'[p] = NoJob /\ \A q \in Tasks : q # p => task'[q] = task[q]
        BY <1>0, <2>1, Ending DEF Ends
  <2>3. NoJob.at = "idle" BY DEF NoJob
  <2> QED BY <1>0, <2>1, <2>2, <2>3, Quiet
<1>19. CASE CoreStarts(p)
  <2>1. task' = [task EXCEPT ![p] = [NoJob EXCEPT !.job = "sync", !.at = "flag"]]
        BY <1>19 DEF CoreStarts
  <2>2. [NoJob EXCEPT !.job = "sync", !.at = "flag"].job = "sync" BY DEF NoJob
  <2>3. [NoJob EXCEPT !.job = "sync", !.at = "flag"].at = "flag" BY DEF NoJob
  <2>4. task'[p].job = "sync" /\ task'[p].at = "flag" BY <1>0, <2>1, <2>2, <2>3 DEF TypeOK
  <2>5. Pending' BY <2>4 DEF Pending
  <2> QED BY <2>5 DEF StaleInv, InForce, InFlight, Enabling, Harmless
<1> USE NoTaskAssumption, BoundsAssumption, NoRulesAssumption
<1> USE DEF Goto, Leave, Start, At, Idle, NoJob, TunEnabled, Calm, Blame, NoBlame,
        BlameJob, Truncate, WriteOver, Orphan, Judge, Obey, Disconnect, InstallScript,
        UninstallScript, TypeOK, Task, Request, Desired, Default, Sound, TasksInv,
        QueueInv, RoutesInv, StaleInv, InForce, InFlight, Enabling, Harmless, Pending,
        Overtaken, Wanted
<1>20. CASE RulesUnread(p) BY <1>0, <1>20 DEF RulesUnread
<1> HIDE DEF Goto, Leave, Start, At, Idle, NoJob, TunEnabled, Calm, Blame, NoBlame,
        BlameJob, Truncate, WriteOver, Orphan, Judge, Obey, Disconnect, InstallScript,
        UninstallScript, TypeOK, Task, Request, Desired, Default, Sound, TasksInv,
        QueueInv, RoutesInv, StaleInv, InForce, InFlight, Enabling, Harmless, Pending,
        Overtaken, Wanted
<1> QED
    BY <1>1, <1>2, <1>3, <1>4, <1>5, <1>6, <1>7, <1>8, <1>9, <1>10, <1>11, <1>12, <1>13,
       <1>14, <1>15, <1>16, <1>17, <1>18, <1>19, <1>20
    DEF TaskStep, Handler, Progress, Disturbance

(* StaleInv: rules and helper.                                               *)
LEMMA StaleOther ==
    ASSUME Inductive, OtherStep
    PROVE  StaleInv'
<1>0. TypeOK /\ TasksInv /\ QueueInv /\ RoutesInv /\ StaleInv BY DEF Inductive
<1>1. CASE Serve
  <2> DEFINE r == queue[1]
  <2>1. ServeEffect(r) BY <1>0, <1>1, Serving
  <2>2. r.from \in Tasks => task[r.from].at = "wait"
        BY <1>0, <2>1, NoTaskAssumption DEF ServeEffect, QueueInv
  <2>3. RoutesInv' BY <1>1, RoutesOther DEF OtherStep
  <2> HIDE DEF r
  <2>4. CASE r.job # "disable" BY <1>0, <2>1, <2>3, <2>4, StaleServed
  <2>5. CASE r.job = "disable" /\ ours
    <3>1. /\ UNCHANGED <<ver, flag, stale>> /\ r = queue[1]
          /\ desired'.running = FALSE /\ desired'.routes = desired.routes
          /\ \A q \in Tasks : task'[q] = task[q] \/ (task[q].at = "wait" /\ task'[q] = NoJob)
          /\ \A i \in DOMAIN queue' : i + 1 \in DOMAIN queue /\ queue'[i] = queue[i + 1]
          /\ \A i \in DOMAIN queue : i # 1 => i - 1 \in DOMAIN queue' /\ queue'[i - 1] = queue[i]
          BY <2>1, <2>2, <2>5 DEF ServeEffect
    <3>2. Pending => Pending' BY <2>5, <3>1 DEF Pending
    <3>3. Wanted' => Wanted BY <3>1 DEF Wanted, TunEnabled, NoJob
    <3>4. SUFFICES ASSUME ~stale, ~Pending' PROVE StaleInv'
          BY <3>1 DEF StaleInv, InForce, InFlight, Enabling, Harmless
    <3>5. InForce' BY <3>1 DEF InForce
    <3>6. InFlight'
      <4>1. SUFFICES ASSUME Wanted PROVE InFlight' BY <3>3 DEF InFlight
      <4>2. /\ \A q \in Tasks : task'[q].at = "connect" /\ task'[q].job # "disable" =>
                  Harmless(task'[q].routes)
            /\ \A i \in DOMAIN queue' : queue'[i].job # "disable" => Harmless(queue'[i].routes)
            BY <1>0, <3>1, <3>4, <4>1 DEF StaleInv, InFlight, NoJob
      <4> QED BY <3>1, <3>2, <3>4, <4>2 DEF InFlight, Harmless, Overtaken
    <3>7. Enabling'
      <4>2. /\ \A q \in Tasks : task'[q].at = "connect" /\ task'[q].job = "enable" =>
                  Harmless(task'[q].routes)
            /\ \A i \in DOMAIN queue' : queue'[i].job = "enable" /\ queue'[i].from # NoTask =>
                  Harmless(queue'[i].routes)
            BY <1>0, <3>1, <3>4 DEF StaleInv, Enabling, NoJob
      <4> QED BY <3>1, <3>2, <3>4, <4>2 DEF Enabling, Harmless, Overtaken
    <3> QED BY <3>5, <3>6, <3>7 DEF StaleInv
  <2>6. CASE ~ours BY <2>1, <2>6 DEF ServeEffect, StaleInv
  <2> QED BY <2>4, <2>5, <2>6
<1>2. CASE HelperDies
  <2>1. UNCHANGED <<ver, desired, flag>> BY <1>2 DEF HelperDies
  <2>2. /\ DOMAIN queue' = {}
        /\ \A q \in Tasks : task'[q] = task[q] \/ (task[q].at = "wait" /\ task'[q] = NoJob)
        /\ stale' = (stale \/ \E i \in DOMAIN queue : queue[i].job = "sync")
        BY <1>0, <1>2, DisconnectEffect DEF HelperDies, TypeOK
  <2>3. NoJob.at = "idle" BY DEF NoJob
  <2>4. SUFFICES ASSUME ~stale' PROVE StaleInv' BY DEF StaleInv
  <2>5. UNCHANGED stale BY <1>0, <2>2, <2>4 DEF TypeOK
  <2>6. Pending => Pending' BY <2>1, <2>2, <2>4 DEF Pending
  <2>7. Wanted' => Wanted BY <2>1, <2>2, <2>3 DEF Wanted, TunEnabled
  <2>8. \A q \in Tasks : task'[q].at = "connect" => FromTask(task'[q])
        BY <2>2, <2>3 DEF FromTask
  <2> QED BY <1>0, <2>1, <2>2, <2>5, <2>6, <2>7, <2>8, Persists
<1>3. CASE HelperRestarts
  <2>1. CASE UNCHANGED <<desired, stale>>
    <3>1. UNCHANGED <<ver, desired, flag, task, queue, stale>> BY <1>3, <2>1 DEF HelperRestarts
    <3> QED BY <1>0, <3>1, Unmoved
  <2>2. CASE stale' BY <2>2 DEF StaleInv
  <2> QED BY <1>3, <2>1, <2>2 DEF HelperRestarts, Blame, NoBlame
<1>4. CASE LateScript
  <2> QED BY <1>4 DEF LateScript, Blame, StaleInv
<1>5. CASE LateScriptCancelled
  <2>1. UNCHANGED <<ver, desired, flag, task, queue, stale>> BY <1>5 DEF LateScriptCancelled
  <2> QED BY <1>0, <2>1, Unmoved
<1>6. CASE CoreDies
  <2>1. CASE \A p \in Tasks : Idle(p)
    <3>1. UNCHANGED <<stale, flag, desired, ver>> BY <1>6, <2>1 DEF CoreDies, NoBlame
    <3>2. \A p \in Tasks : task'[p] = NoJob BY <1>6 DEF CoreDies
    <3>3. \A p \in Tasks : task[p].at = "idle" BY <2>1, IdlePlace
    <3>4. /\ DOMAIN queue' = DOMAIN queue
          /\ \A i \in DOMAIN queue : /\ queue'[i].job = queue[i].job
                                     /\ queue'[i].routes = queue[i].routes
                                     /\ queue'[i].from = NoTask
          BY <1>0, <1>6, CutQueue
    <3>5. Pending => Pending' BY <3>1, <3>3, <3>4 DEF Pending
    <3>6. Wanted' => Wanted BY <3>1, <3>2 DEF Wanted, TunEnabled, NoJob
    <3>7. \A i \in DOMAIN queue' : FromQueue(queue'[i]) BY <3>4 DEF FromQueue
    <3>8. \A q \in Tasks : task'[q].at # "connect" BY <3>2 DEF NoJob
    <3> QED BY <1>0, <3>1, <3>5, <3>6, <3>7, <3>8, Persists
  <2>2. CASE ~(\A p \in Tasks : Idle(p)) BY <1>6, <2>2 DEF CoreDies, Blame, StaleInv
  <2> QED BY <2>1, <2>2
<1>7. CASE CalmDown
  <2>1. UNCHANGED <<ver, desired, flag, task, queue, stale>> BY <1>7 DEF CalmDown
  <2> QED BY <1>0, <2>1, Unmoved
<1> QED
    BY <1>1, <1>2, <1>3, <1>4, <1>5, <1>6, <1>7
    DEF OtherStep

-----------------------------------------------------------------------------
LEMMA InitHolds == Init => Inductive
<1> SUFFICES ASSUME Init PROVE Inductive OBVIOUS
<1>1. \A p \in Tasks : task[p] = NoJob BY DEF Init
<1>2. TypeOK
  <2>1. /\ task \in [Tasks -> Task] /\ queue \in Seq(Request)
        BY NoJobType DEF Init
  <2>2. ver \in 0..MaxVer BY BoundsAssumption DEF Init
  <2>5. Default \in Desired /\ [running |-> TRUE, routes |-> NoRules] \in Desired
        BY DEF Default, Desired, RouteSets
  <2>3. desired \in Desired BY <2>5 DEF Init
  <2>4. helper \in {"absent", "down", "up"} /\ astray \in BOOLEAN BY DEF Init
  <2> QED BY <2>1, <2>2, <2>3, <2>4 DEF Init, TypeOK
<1>3. TasksInv /\ QueueInv /\ RoutesInv BY <1>1, NoJobType DEF Init, TasksInv, QueueInv, RoutesInv
<1>4. AstrayInv /\ StaleInv /\ CalmInv /\ RebuildHeals
      BY DEF Init, AstrayInv, StaleInv, CalmInv, Calm, RebuildHeals, TunEnabled, Default
<1> QED BY <1>2, <1>3, <1>4 DEF Inductive

LEMMA StepKeeps == Inductive /\ [Next]_vars => Inductive'
<1> SUFFICES ASSUME Inductive, [Next]_vars PROVE Inductive' OBVIOUS
<1>1. CASE \E p \in Tasks : TaskStep(p)
  <2>1. PICK p \in Tasks : TaskStep(p) BY <1>1
  <2> QED BY <2>1, TypesTask, TasksTask, QueueTask, RoutesTask, AstrayTask, StaleTask, CalmTask,
             HealsTask DEF Inductive
<1>2. CASE OtherStep
      BY <1>2, TypesOther, TasksOther, QueueOther, RoutesOther, AstrayOther, StaleOther, CalmOther,
         HealsOther DEF Inductive
<1>3. CASE UNCHANGED vars
  <2>1. StaleInv' BY <1>3, Unmoved DEF vars, Inductive
  <2>2. TypeOK' BY <1>3 DEF vars, Inductive, TypeOK
  <2>3. TasksInv' /\ QueueInv' /\ RoutesInv'
        BY <1>3 DEF vars, Inductive, TasksInv, QueueInv, RoutesInv, Idle
  <2>4. AstrayInv' /\ CalmInv' /\ RebuildHeals'
        BY <1>3 DEF vars, Inductive, AstrayInv, CalmInv, Calm, RebuildHeals, Rest, Idle, TunEnabled
  <2> QED BY <2>1, <2>2, <2>3, <2>4 DEF Inductive
<1> QED BY <1>1, <1>2, <1>3 DEF Next, TaskStep, OtherStep

-----------------------------------------------------------------------------
(* The theorems.                                                            *)

(* The strengthening: what each task does where it is, whose requests the   *)
(* helper has, who is about to bring flag, helper and rules together.       *)
THEOREM InductiveInvariant == Spec => []Inductive
BY InitHolds, StepKeeps, PTL DEF Spec

(* Every variable keeps its type, whatever the number of tasks and of       *)
(* requests the helper has still to serve (entry.rs: tun_apply, tun_sync).  *)
THEOREM TypeCorrect == Spec => []TypeOK
<1>1. Inductive => TypeOK BY DEF Inductive
<1> QED BY <1>1, InductiveInvariant, PTL

(* At rest the flag tells what the helper was told, unless something on     *)
(* record kept the two apart (entry.rs: tun_apply).                         *)
THEOREM FlagIsTrue == Spec => []FlagTellsTruth
<1>1. Inductive => FlagTellsTruth
  <2> SUFFICES ASSUME Inductive, Rest PROVE (TunEnabled <=> desired.running) \/ astray
      BY DEF FlagTellsTruth
  <2>1. /\ queue = <<>> /\ \A p \in Tasks : task[p].at = "idle" BY IdlePlace DEF Rest
  <2>2. AstrayInv /\ desired.running \in BOOLEAN BY DEF Inductive, TypeOK, Desired
  <2> QED BY <2>1, <2>2 DEF AstrayInv, TunEnabled
<1> QED BY <1>1, InductiveInvariant, PTL

(* At rest an enabled entry has the routes of the newest rules, unless      *)
(* something on record kept them back (entry.rs: tun_sync).                 *)
THEOREM RoutesAreNewest == Spec => []RoutesFollowRules
<1>1. Inductive => RoutesFollowRules
  <2> SUFFICES ASSUME Inductive, Rest, TunEnabled, desired.running, ~stale
               PROVE  desired.routes = ver BY DEF RoutesFollowRules
  <2>1. /\ queue = <<>> /\ \A p \in Tasks : task[p].at = "idle" BY IdlePlace DEF Rest
  <2>2. InForce BY DEF Inductive, StaleInv
  <2> QED BY <2>1, <2>2 DEF InForce, Wanted, Pending
<1> QED BY <1>1, InductiveInvariant, PTL

(* One undisturbed rebuild brings the helper in line, whatever has happened *)
(* before (entry.rs: tun_sync).                                             *)
THEOREM RebuildsHeal == Spec => []RebuildHeals
<1>1. Inductive => RebuildHeals BY DEF Inductive
<1> QED BY <1>1, InductiveInvariant, PTL

====
