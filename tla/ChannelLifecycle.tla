-------------------------- MODULE ChannelLifecycle --------------------------
(***************************************************************************)
(* The life of a channel: its row in the database and its container        *)
(* vpn-{id} (desktop/core: the channel handlers of api.rs, provisioning in *)
(* manager.rs and docker.rs, the containers screen).                       *)
(*                                                                         *)
(* Every HTTP request is a task.  Nothing keeps two requests for the same  *)
(* channel apart: a handler reads the row once, waits for Docker, often    *)
(* for seconds, and then writes its outcome to whatever the row has become *)
(* by then.  Docker knows containers by name, so a request acts on         *)
(* whatever container has that name by then.  Any call to Docker can fail  *)
(* before or after it had its effect, any write to the database can fail,  *)
(* and a task can be dropped between any two steps: the client left, or    *)
(* the process died, which drops all tasks one after the other.            *)
(*                                                                         *)
(* The settings of a channel are a version number, 0 where there are none. *)
(* It counts what its kind of container is given: hagb the image's         *)
(* version, oss the server and the login; byo is given none.  Of the other *)
(* settings only the row knows.  The rebuild that ends most handlers is in *)
(* RuleReload.                                                             *)
(***************************************************************************)
EXTENDS Naturals, FiniteSets

CONSTANTS
    Channels,   \* channel ids, drawn at random by create and import
    Clients,    \* HTTP request tasks that can be in flight at a time
    NoChannel,  \* a task that works on no channel
    MaxBox,     \* bound on the number of containers made
    MaxSet      \* bound on the number of versions of the settings

ASSUME NoChannelAssumption == NoChannel \notin Channels
ASSUME BoundsAssumption == MaxBox \in Nat /\ MaxSet \in Nat \ {0}

VARIABLES
    (* database *)
    listed,  \* channels with a row in table channels
    born,    \* ids drawn so far: a random id does not come up twice
    row,     \* that row, Blank for the others
    (* Docker *)
    box,     \* the container vpn-{id} of each channel
    made,    \* containers made so far
    edits,   \* versions of settings so far
    (* tasks *)
    op,      \* the handler a task runs
    chan,    \* the channel it works on
    pc,      \* where it is
    seen,    \* the row as it has read it
    (* history *)
    alone,   \* nothing else has been at the task's channel since it began
    accord,  \* what can be said of row and container, see below
    raced    \* a deletion has overlapped with another change

database  == <<listed, born, row>>
docker    == <<box, made>>
locals    == <<op, chan, pc, seen>>
history   == <<alone, accord, raced>>
vars      == <<database, docker, edits, locals, history>>

-----------------------------------------------------------------------------
Kinds    == {"hagb", "oss", "byo"}
Statuses == {"creating", "running", "logged_in", "stopped", "error"}
Up       == {"running", "logged_in"}

Row == [kind: Kinds, status: Statuses, box: 0..MaxBox, set: 0..MaxSet]

Blank == [kind |-> "byo", status |-> "stopped", box |-> 0, set |-> 0]

(* A container, the settings it was given and whether a probe ever got      *)
(* through it.  One that ends by itself is started again by Docker          *)
(* (unless-stopped) and stays "running" here: what a handler does with it   *)
(* may fail at any time.                                                    *)
Box == [id: 0..MaxBox, state: {"none", "made", "running", "stopped"},
        set: 0..MaxSet, reached: BOOLEAN]

NoBox == [id |-> 0, state |-> "none", set |-> 0, reached |-> FALSE]

(* Docker keeps the container running.                                      *)
Kept(c) == box[c].state = "running"

Provisioning == {"image", "clear", "make", "boot", "port", "inject", "record"}
Labels == Provisioning \cup
    {"idle", "edit", "starting", "started", "stopping", "stopped",
     "removing", "unlist", "probing", "proved", "unproved",
     "cleaning"}

Ops      == {"none", "create", "update", "start", "stop", "delete", "status", "clean"}
Changing == Ops \ {"none", "status"}

(* accord: row and container agree since a request that nothing disturbed   *)
(* has succeeded; or requests have overlapped since; or one has failed.     *)
TypeOK ==
    /\ listed \in SUBSET Channels /\ born \in SUBSET Channels
    /\ row \in [Channels -> Row] /\ box \in [Channels -> Box]
    /\ made \in 0..MaxBox /\ edits \in 1..MaxSet
    /\ op \in [Clients -> Ops]
    /\ chan \in [Clients -> Channels \cup {NoChannel}]
    /\ \A p \in Clients : chan[p] = NoChannel <=> op[p] = "none"
    /\ pc \in [Clients -> Labels]
    /\ \A p \in Clients : pc[p] = "idle" <=> op[p] = "none"
    /\ seen \in [Clients -> Row]
    /\ alone \in [Clients -> BOOLEAN]
    /\ accord \in [Channels -> {"agree", "overlap", "fault"}]
    /\ raced \in SUBSET Channels

Init ==
    /\ listed = {} /\ born = {}
    /\ row = [c \in Channels |-> Blank] /\ box = [c \in Channels |-> NoBox]
    /\ made = 0 /\ edits = 1
    /\ op = [p \in Clients |-> "none"] /\ chan = [p \in Clients |-> NoChannel]
    /\ pc = [p \in Clients |-> "idle"] /\ seen = [p \in Clients |-> Blank]
    /\ alone = [p \in Clients |-> TRUE]
    /\ accord = [c \in Channels |-> "fault"]
    /\ raced = {}

-----------------------------------------------------------------------------
(* Building blocks.                                                         *)

(* The tasks at a channel.                                                  *)
At(c)       == {p \in Clients : chan[p] = c}
ChangesAt(c) == {p \in At(c) : op[p] \in Changing}

(* A task starts on channel c, having read row r.  Any number of status     *)
(* requests may overlap; anything else that overlaps is noted.              *)
Begin(p, c, o, label, r) ==
    LET clash == IF o = "status" THEN ChangesAt(c) # {} ELSE At(c) # {}
    IN  /\ op[p] = "none"
        /\ op'   = [op EXCEPT ![p] = o]
        /\ chan' = [chan EXCEPT ![p] = c]
        /\ pc'   = [pc EXCEPT ![p] = label]
        /\ seen' = [seen EXCEPT ![p] = r]
        /\ alone' = [q \in Clients |->
                        IF q = p THEN ~clash ELSE alone[q] /\ ~(clash /\ q \in At(c))]
        /\ accord' = IF clash /\ accord[c] = "agree"
                       THEN [accord EXCEPT ![c] = "overlap"] ELSE accord
        /\ raced' = IF \/ o = "delete" /\ ChangesAt(c) # {}
                       \/ o \in Changing /\ \E q \in At(c) : op[q] = "delete"
                      THEN raced \cup {c} ELSE raced

(* A task ends: reply sent, or dropped.                                     *)
Leave(p) == /\ op'    = [op EXCEPT ![p] = "none"]
            /\ chan'  = [chan EXCEPT ![p] = NoChannel]
            /\ pc'    = [pc EXCEPT ![p] = "idle"]
            /\ seen'  = [seen EXCEPT ![p] = Blank]
            /\ alone' = [alone EXCEPT ![p] = TRUE]
            /\ UNCHANGED raced

Succeed(p) == /\ Leave(p)
              /\ accord' = IF alone[p] THEN [accord EXCEPT ![chan[p]] = "agree"]
                           ELSE accord

Fail(p) == /\ Leave(p)
           /\ accord' = [accord EXCEPT ![chan[p]] = "fault"]

Goto(p, label) == /\ pc' = [pc EXCEPT ![p] = label]
                  /\ UNCHANGED <<op, chan, history>>

(* UPDATE ... WHERE id: without a row nothing happens.                      *)
UpdateRow(c, r) == row' = IF c \in listed THEN [row EXCEPT ![c] = r] ELSE row

(* What the Docker call a task waits for does when it succeeds.  A hagb     *)
(* container is made with its settings (the version), an oss container      *)
(* without: they are injected later.                                        *)
NewBox(p) == [id |-> made + 1, state |-> "made",
              set |-> IF seen[p].kind = "oss" THEN 0 ELSE seen[p].set,
              reached |-> FALSE]

Effect(p) ==
    LET b == box[chan[p]]
    IN  CASE pc[p] \in {"clear", "removing", "cleaning"} -> NoBox
          [] pc[p] = "make" /\ b.state = "none" /\ made < MaxBox -> NewBox(p)
          [] pc[p] \in {"boot", "starting"} /\ b.state # "none" ->
                [b EXCEPT !.state = "running"]
          [] pc[p] = "inject" /\ b.state = "running" -> [b EXCEPT !.set = seen[p].set]
          [] pc[p] = "stopping" /\ b.state = "running" -> [b EXCEPT !.state = "stopped"]
          [] OTHER -> b

Docker(p, b) == /\ box' = [box EXCEPT ![chan[p]] = b]
                /\ made' = IF b.id > made THEN b.id ELSE made

-----------------------------------------------------------------------------
(* How the handlers begin: the row must be there, but for create.           *)

FirstSettings(kind) == IF kind = "byo" THEN 0 ELSE 1

CreateChannel(p, c, kind) ==
    LET r == [kind |-> kind, status |-> "creating", box |-> 0,
              set |-> FirstSettings(kind)]
    IN  /\ c \notin born
        /\ listed' = listed \cup {c} /\ born' = born \cup {c}
        /\ row' = [row EXCEPT ![c] = r]
        /\ Begin(p, c, "create", "image", [r EXCEPT !.status = "stopped"])
        /\ UNCHANGED <<docker, edits>>

(* config_import: a row, no container.                                      *)
ImportChannel(c, kind) ==
    /\ c \notin born
    /\ listed' = listed \cup {c} /\ born' = born \cup {c}
    /\ row' = [row EXCEPT ![c] = [kind |-> kind, status |-> "stopped",
                                  box |-> 0, set |-> FirstSettings(kind)]]
    /\ accord' = [accord EXCEPT ![c] = "agree"]
    /\ UNCHANGED <<docker, edits, locals, alone, raced>>

BeginOn(p, c, o, label, r) ==
    /\ c \in listed
    /\ Begin(p, c, o, label, r)
    /\ UNCHANGED <<database, docker, edits>>

(* 404: nothing happens.                                                    *)
NotFound(p, c) == op[p] = "none" /\ c \notin listed /\ UNCHANGED vars

(* What a handler uses of the row it has read: stop and delete only look    *)
(* whether it is there, status uses the status, provisioning does not.      *)
BeginUpdate(p, c) ==
    BeginOn(p, c, "update", "edit", [row[c] EXCEPT !.status = "stopped"])
BeginStop(p, c)   == BeginOn(p, c, "stop", "stopping", Blank)
BeginDelete(p, c) == BeginOn(p, c, "delete", "removing", Blank)
BeginStatus(p, c) ==
    BeginOn(p, c, "status", "probing", [Blank EXCEPT !.status = row[c].status])

(* start: a byo container is started in place, the others are made anew.    *)
BeginStart(p, c) ==
    IF row[c].kind = "byo" THEN BeginOn(p, c, "start", "starting", Blank)
    ELSE BeginOn(p, c, "start", "image",
                 [row[c] EXCEPT !.status = "stopped", !.box = 0])

(* A container whose channel is not in the list is a leftover.              *)
IsOrphan(c, ids) == c \notin ids

(* The containers screen deletes leftovers only.  A list that cannot be     *)
(* read is taken for an empty one, so that every container is a leftover.   *)
BeginClean(p, c, unread) ==
    /\ box[c].state # "none"
    /\ IsOrphan(c, IF unread THEN {} ELSE listed)
    /\ Begin(p, c, "clean", "cleaning", Blank)
    /\ UNCHANGED <<database, docker, edits>>

-----------------------------------------------------------------------------
(* Provisioning: image, old container away, new one made and started, then  *)
(* its port is read or its credentials are injected.                        *)

(* What an update changes: something its container is given, another of     *)
(* server, username, password and version, or none of them.                 *)
Fields == {"given", "others", "none"}

WriteSettings(p, given) ==
    /\ given => edits < MaxSet /\ row[chan[p]].kind # "byo"
    /\ edits' = IF given THEN edits + 1 ELSE edits
    /\ UpdateRow(chan[p], [row[chan[p]] EXCEPT !.set = IF given THEN edits + 1 ELSE @])

(* Fault: the settings read before the change are provisioned.              *)
EditStale(p, fields) ==
    /\ pc[p] = "edit"
    /\ WriteSettings(p, fields = "given")
    /\ IF seen[p].box = 0 \/ fields = "none"
         THEN Leave(p) /\ UNCHANGED accord
         ELSE Goto(p, "image") /\ seen' = [seen EXCEPT ![p].box = 0]
    /\ UNCHANGED <<listed, born, docker>>

(* update: commit, read the row again, and provision anew if the row, as    *)
(* read before, had a container, whether or not that is given what changed. *)
Edit(p, fields) ==
    /\ pc[p] = "edit"
    /\ WriteSettings(p, fields = "given")
    /\ IF seen[p].box = 0 \/ fields = "none"
         THEN Leave(p) /\ UNCHANGED accord
         ELSE /\ chan[p] \in listed
              /\ seen' = [seen EXCEPT ![p].set = row'[chan[p]].set, ![p].box = 0]
              /\ Goto(p, "image")
    /\ UNCHANGED <<listed, born, docker>>

(* Columns and config_json are written one after the other; the channel may *)
(* be gone when the row is read again.                                      *)
EditFails(p) ==
    /\ pc[p] = "edit"
    /\ \E given \in BOOLEAN : WriteSettings(p, given)
    /\ Fail(p)
    /\ UNCHANGED <<listed, born, docker>>

HaveImage(p) ==
    /\ pc[p] = "image"
    /\ Goto(p, "clear")
    /\ UNCHANGED <<database, docker, edits, seen>>

(* A container that cannot be removed is found out when its name is taken.  *)
ClearOld(p) ==
    /\ pc[p] = "clear"
    /\ \E b \in {Effect(p), box[chan[p]]} : Docker(p, b)
    /\ Goto(p, "make")
    /\ UNCHANGED <<database, edits, seen>>

MakeBox(p) ==
    /\ pc[p] = "make" /\ box[chan[p]].state = "none" /\ made < MaxBox
    /\ Docker(p, Effect(p))
    /\ seen' = [seen EXCEPT ![p].box = made + 1]
    /\ Goto(p, "boot")
    /\ UNCHANGED <<database, edits>>

(* The credentials of an oss channel are read when its container runs.      *)
BootBox(p) ==
    /\ pc[p] = "boot" /\ box[chan[p]].state # "none"
    /\ Docker(p, Effect(p))
    /\ IF seen[p].kind = "oss"
         THEN /\ seen' = [seen EXCEPT ![p].set = row[chan[p]].set]
              /\ Goto(p, "inject")
         ELSE Goto(p, "port") /\ UNCHANGED seen
    /\ UNCHANGED <<database, edits>>

ReadPort(p) ==
    /\ pc[p] = "port" /\ box[chan[p]].state = "running"
    /\ Goto(p, "record")
    /\ UNCHANGED <<database, docker, edits, seen>>

Inject(p) ==
    /\ pc[p] = "inject" /\ box[chan[p]].state = "running"
    /\ Docker(p, Effect(p))
    /\ Goto(p, "record")
    /\ UNCHANGED <<database, edits, seen>>

(* Fault: a channel that was logged in is taken to be so still.             *)
RecordKeepingLogin(p) ==
    /\ pc[p] = "record"
    /\ UpdateRow(chan[p], [row[chan[p]] EXCEPT !.box = seen[p].box,
                           !.status = IF @ = "logged_in" THEN @ ELSE "running"])
    /\ Succeed(p)
    /\ UNCHANGED <<listed, born, docker, edits>>

(* set_container.                                                           *)
Record(p) ==
    /\ pc[p] = "record"
    /\ UpdateRow(chan[p], [row[chan[p]] EXCEPT !.box = seen[p].box,
                                               !.status = "running"])
    /\ Succeed(p)
    /\ UNCHANGED <<listed, born, docker, edits>>

-----------------------------------------------------------------------------
(* stop, start in place, delete, and what the containers screen removes.    *)

StopBox(p) ==
    /\ pc[p] = "stopping"
    /\ Docker(p, Effect(p))
    /\ Goto(p, "stopped")
    /\ UNCHANGED <<database, edits, seen>>

StartBox(p) ==
    /\ pc[p] = "starting" /\ box[chan[p]].state # "none"
    /\ Docker(p, Effect(p))
    /\ Goto(p, "started")
    /\ UNCHANGED <<database, edits, seen>>

(* set_status after Docker's answer.                                        *)
WriteStatus(p) ==
    /\ pc[p] \in {"started", "stopped"}
    /\ UpdateRow(chan[p], [row[chan[p]] EXCEPT !.status =
                              IF pc[p] = "started" THEN "running" ELSE "stopped"])
    /\ Succeed(p)
    /\ UNCHANGED <<listed, born, docker, edits>>

(* Fault: the row goes although the container could not be removed.         *)
RemoveBoxOrNot(p) ==
    /\ pc[p] = "removing"
    /\ \E b \in {Effect(p), box[chan[p]]} : Docker(p, b)
    /\ Goto(p, "unlist")
    /\ UNCHANGED <<database, edits, seen>>

RemoveBox(p) ==
    /\ pc[p] = "removing"
    /\ Docker(p, Effect(p))
    /\ Goto(p, "unlist")
    /\ UNCHANGED <<database, edits, seen>>

Unlist(p) ==
    /\ pc[p] = "unlist"
    /\ listed' = listed \ {chan[p]}
    /\ row' = [row EXCEPT ![chan[p]] = Blank]
    /\ Succeed(p)
    /\ UNCHANGED <<born, docker, edits>>

CleanBox(p) ==
    /\ pc[p] = "cleaning"
    /\ Docker(p, Effect(p))
    /\ Fail(p)
    /\ UNCHANGED <<database, edits>>

-----------------------------------------------------------------------------
(* status: probe through the container, then write what follows from the    *)
(* result and from the status read before the probe.                        *)

Probe(p, ok) ==
    /\ pc[p] = "probing"
    /\ ok => box[chan[p]].state = "running"
    /\ box' = [box EXCEPT ![chan[p]].reached = @ \/ ok]
    /\ Goto(p, IF ok THEN "proved" ELSE "unproved")
    /\ UNCHANGED <<database, made, edits, seen>>

(* Fault: a channel that does not answer is taken to be stopped.            *)
VerdictStopped(p) ==
    IF pc[p] = "proved" THEN "logged_in" ELSE "stopped"

Verdict(p) ==
    IF pc[p] = "proved" THEN "logged_in"
    ELSE IF seen[p].status = "logged_in" THEN "running" ELSE seen[p].status

WriteVerdict(p) ==
    /\ pc[p] \in {"proved", "unproved"}
    /\ UpdateRow(chan[p], [row[chan[p]] EXCEPT !.status = Verdict(p)])
    /\ Leave(p) /\ UNCHANGED accord
    /\ UNCHANGED <<listed, born, docker, edits>>

-----------------------------------------------------------------------------
(* What goes wrong.                                                         *)

(* A call to Docker fails, before or after it had its effect, or the image, *)
(* the port or the credentials cannot be had.  create and update say so in  *)
(* the row, start and the others leave it alone.                            *)
DockerFails(p) ==
    /\ pc[p] \in {"image", "make", "boot", "port", "inject", "starting",
                  "stopping", "removing", "cleaning"}
    /\ \E b \in {Effect(p), box[chan[p]]} : Docker(p, b)
    /\ \/ /\ op[p] \in {"create", "update"}
          /\ UpdateRow(chan[p], [row[chan[p]] EXCEPT !.status = "error"])
       \/ UNCHANGED row
    /\ Fail(p)
    /\ UNCHANGED <<listed, born, edits>>

(* The last write to the database fails: create, update and status do not   *)
(* even notice.                                                             *)
WriteFails(p) ==
    /\ pc[p] \in {"record", "started", "stopped", "unlist", "proved", "unproved"}
    /\ IF op[p] = "status" THEN Leave(p) /\ UNCHANGED accord ELSE Fail(p)
    /\ UNCHANGED <<database, docker, edits>>

(* The task is dropped; what it waited for may still have come about.       *)
Drop(p) ==
    /\ op[p] # "none"
    /\ \E b \in {Effect(p), box[chan[p]]} : Docker(p, b)
    /\ IF op[p] = "status" THEN Leave(p) /\ UNCHANGED accord ELSE Fail(p)
    /\ UNCHANGED <<database, edits>>

-----------------------------------------------------------------------------
Request(p, c) ==
    \/ \E kind \in Kinds : CreateChannel(p, c, kind)
    \/ NotFound(p, c)
    \/ BeginUpdate(p, c) \/ BeginStart(p, c) \/ BeginStop(p, c)
    \/ BeginDelete(p, c) \/ BeginStatus(p, c)
    \/ \E unread \in BOOLEAN : BeginClean(p, c, unread)

Step(p) ==
    \/ (\E fields \in Fields : Edit(p, fields)) \/ EditFails(p)
    \/ HaveImage(p) \/ ClearOld(p) \/ MakeBox(p) \/ BootBox(p)
    \/ ReadPort(p) \/ Inject(p) \/ Record(p)
    \/ StopBox(p) \/ StartBox(p) \/ WriteStatus(p)
    \/ RemoveBox(p) \/ Unlist(p) \/ CleanBox(p)
    \/ \E ok \in BOOLEAN : Probe(p, ok)
    \/ WriteVerdict(p)
    \/ DockerFails(p) \/ WriteFails(p) \/ Drop(p)

Next ==
    \/ \E p \in Clients : Step(p) \/ \E c \in Channels : Request(p, c)
    \/ \E c \in Channels, kind \in Kinds : ImportChannel(c, kind)

Spec == Init /\ [][Next]_vars

-----------------------------------------------------------------------------
(* Properties.                                                              *)

Quiet(c) == ChangesAt(c) = {}

(* After a request that nothing disturbed has succeeded, the row says that  *)
(* the channel is up exactly if Docker keeps its container running,         *)
(* whatever went wrong before and however many status requests overlap      *)
(* (create, update, start, stop, status).                                   *)
StatusHonest ==
    \A c \in listed : accord[c] = "agree" /\ Quiet(c) =>
        /\ row[c].status \in Up <=> Kept(c)
        /\ row[c].status # "creating"

(* logged_in is about this container, not about one before it: only a probe *)
(* through it can have said so (status, set_container).                     *)
LoginIsFresh ==
    \A c \in listed :
        accord[c] = "agree" /\ Quiet(c) /\ row[c].status = "logged_in" =>
            box[c].reached

(* A channel that is up runs in the container on record, which has been     *)
(* given the newest of what its kind is given (update, provision): the      *)
(* version for hagb, server and login for oss, nothing for byo.             *)
SettingsInForce ==
    \A c \in listed :
        /\ accord[c] = "agree" /\ Quiet(c)
        /\ row[c].status \in Up /\ row[c].kind # "byo"
        => box[c].set = row[c].set /\ box[c].id = row[c].box

(* A container without a channel can only be left behind when something     *)
(* changed the channel while it was being deleted: no failure, no dropped   *)
(* request, no crash suffices (delete: container first, then the row).      *)
LeftoverOnlyByRace ==
    \A c \in born \ listed : box[c].state # "none" => c \in raced

-----------------------------------------------------------------------------
(* What the proof of the fourth needs besides.                              *)

Providers == {"create", "update", "start"}

(* Where a task is belongs to what it does, and it works on a channel that  *)
(* has been created.                                                        *)
TaskInv ==
    \A p \in Clients :
        /\ op[p] # "none" => chan[p] \in born
        /\ pc[p] \in Provisioning => op[p] \in Providers
        /\ pc[p] = "edit" => op[p] = "update"
        /\ pc[p] \in {"removing", "unlist"} => op[p] = "delete"

(* Only created channels have rows and containers.                          *)
BornInv == listed \subseteq born /\ \A c \in Channels \ born : box[c].state = "none"

(* A deletion shares its channel with another change, or has deleted the    *)
(* row under one that provisions, or finds a container when it deletes the  *)
(* row, only where requests have raced.                                     *)
RaceInv ==
    /\ \A p, q \in Clients :
          p # q /\ chan[p] = chan[q] /\ op[p] = "delete" /\ op[q] \in Changing =>
              chan[p] \in raced
    /\ \A p \in Clients : op[p] \in Providers /\ chan[p] \notin listed => chan[p] \in raced
    /\ \A p \in Clients :
          pc[p] = "unlist" /\ box[chan[p]].state # "none" => chan[p] \in raced

(* Inductive: holds initially, and every step of the code keeps it.         *)
Inductive == TypeOK /\ TaskInv /\ BornInv /\ RaceInv /\ LeftoverOnlyByRace

-----------------------------------------------------------------------------
(* What the proofs of the first three need besides.                         *)

Probing == {"probing", "proved", "unproved"}

(* A status request is where a status request can be, and a container has   *)
(* an id.                                                                   *)
ShapeInv ==
    /\ \A p \in Clients : op[p] = "status" <=> pc[p] \in Probing
    /\ \A c \in Channels : box[c].state # "none" => box[c].id # 0

(* A task that nothing has disturbed shares its channel with no change, and *)
(* no change with it; where row and container agree no task was disturbed.  *)
AloneInv ==
    \A p \in Clients : op[p] # "none" =>
        /\ alone[p] => \A q \in At(chan[p]) \ {p} : op[p] = "status" /\ op[q] = "status"
        /\ accord[chan[p]] = "agree" => alone[p]

(* A container is started in place only for a byo channel.                  *)
InPlaceInv ==
    \A p \in Clients : pc[p] \in {"starting", "started"} /\ chan[p] \in listed =>
        row[chan[p]].kind = "byo"

(* What an undisturbed change knows of row and container, by where it is.   *)
Knows(p) ==
    LET r == row[chan[p]]
        b == box[chan[p]]
        s == seen[p]
    IN  /\ pc[p] = "edit" => s.box = r.box
        /\ pc[p] \in {"image", "clear", "make", "inject"} => s.set = r.set
        /\ pc[p] = "boot" /\ s.kind # "oss" => b.set = r.set
        /\ pc[p] \in {"port", "record"} => b.set = r.set
        /\ pc[p] \in {"boot", "port", "inject", "record"} => b.id = s.box
        /\ pc[p] \in {"record", "started"} => Kept(chan[p])
        /\ pc[p] = "stopped" => ~Kept(chan[p])
KnowsInv ==
    \A p \in Clients :
        op[p] \in Changing /\ alone[p] /\ chan[p] \in listed => Knows(p)

(* What a status request knows that has read a row in accord.               *)
Probed(p) ==
    /\ seen[p].status \in Up <=> Kept(chan[p])
    /\ seen[p].status # "creating"
    /\ pc[p] = "proved" => Kept(chan[p]) /\ box[chan[p]].reached
ProbedInv ==
    \A p \in Clients :
        op[p] = "status" /\ chan[p] \in listed /\ accord[chan[p]] = "agree" => Probed(p)

(* Row and container of c agree: the three properties, said of one channel. *)
InAccord(c) ==
    /\ row[c].status \in Up <=> Kept(c)
    /\ row[c].status # "creating"
    /\ row[c].status = "logged_in" => box[c].reached
    /\ row[c].status \in Up /\ row[c].kind # "byo" =>
          box[c].set = row[c].set /\ box[c].id = row[c].box

(* They do so until the first change gets past its edit.                    *)
Settled(c) == \A p \in ChangesAt(c) : pc[p] = "edit"
AccordInv ==
    \A c \in listed : accord[c] = "agree" /\ Settled(c) => InAccord(c)

Accordance ==
    /\ ShapeInv /\ AloneInv /\ InPlaceInv /\ KnowsInv /\ ProbedInv /\ AccordInv

=============================================================================
