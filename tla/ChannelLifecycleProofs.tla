----------------------- MODULE ChannelLifecycleProofs -----------------------
(***************************************************************************)
(* Safety of the channel's life for any number of channels, requests,      *)
(* containers and settings: types, what is left behind or removed when     *)
(* channels are deleted, and what row and container say of each other.     *)
(***************************************************************************)
EXTENDS ChannelLifecycle, TLAPS

-----------------------------------------------------------------------------
(* Values.                                                                  *)

LEMMA Values ==
    /\ Blank \in Row /\ NoBox \in Box
    /\ NoBox.state = "none" /\ NoBox.id = 0
    /\ "idle" \in Labels /\ "none" \in Ops
<1> USE BoundsAssumption
<1>1. Blank \in Row BY DEF Blank, Row, Kinds, Statuses
<1>2. NoBox \in Box BY DEF NoBox, Box
<1> QED BY <1>1, <1>2 DEF NoBox, Labels, Provisioning, Ops

(* A row with some columns overwritten is a row.                            *)
LEMMA RowWith ==
    ASSUME NEW r \in Row, NEW s \in Statuses, NEW b \in 0..MaxBox, NEW v \in 0..MaxSet
    PROVE  /\ [r EXCEPT !.status = s] \in Row
           /\ [r EXCEPT !.box = b] \in Row
           /\ [r EXCEPT !.set = v] \in Row
           /\ [r EXCEPT !.box = b, !.status = s] \in Row
           /\ [r EXCEPT !.status = s, !.box = b] \in Row
           /\ [r EXCEPT !.set = v, !.box = b] \in Row
<1>1. [r EXCEPT !.status = s] \in Row /\ [r EXCEPT !.box = b] \in Row BY DEF Row
<1>2. [r EXCEPT !.set = v] \in Row BY DEF Row
<1>3. [r EXCEPT !.box = b, !.status = s] \in Row BY DEF Row
<1>4. [r EXCEPT !.status = s, !.box = b] \in Row BY DEF Row
<1>5. [r EXCEPT !.set = v, !.box = b] \in Row BY DEF Row
<1> QED BY <1>1, <1>2, <1>3, <1>4, <1>5

(* A task that is somewhere works on a channel.                             *)
LEMMA Working ==
    ASSUME TypeOK, NEW p \in Clients, pc[p] # "idle"
    PROVE  chan[p] \in Channels /\ op[p] # "none" /\ op[p] \in Ops
BY DEF TypeOK

(* A new container has the types of a container.                            *)
LEMMA NewBoxType ==
    ASSUME TypeOK, NEW p \in Clients, made < MaxBox
    PROVE  NewBox(p) \in Box
<1>1. seen[p].set \in 0..MaxSet BY DEF TypeOK, Row
<1>2. made + 1 \in 0..MaxBox BY BoundsAssumption DEF TypeOK
<1>3. (IF seen[p].kind = "oss" THEN 0 ELSE seen[p].set) \in 0..MaxSet
      BY <1>1, BoundsAssumption
<1> QED BY <1>2, <1>3 DEF NewBox, Box

(* What Docker can have done: no container comes into being but where one   *)
(* is made.                                                                 *)
LEMMA EffectType ==
    ASSUME TypeOK, NEW p \in Clients, pc[p] # "idle"
    PROVE  /\ Effect(p) \in Box
           /\ Effect(p).state # "none" =>
                 box[chan[p]].state # "none" \/ pc[p] = "make"
<1> DEFINE b == box[chan[p]]
<1>1. chan[p] \in Channels /\ b \in Box BY Working DEF TypeOK
<1>2. CASE pc[p] \in {"clear", "removing", "cleaning"}
      BY <1>2, Values DEF Effect
<1>3. CASE pc[p] = "make" /\ b.state = "none" /\ made < MaxBox
      BY <1>3, NewBoxType DEF Effect
<1>4. CASE pc[p] \in {"boot", "starting"} /\ b.state # "none"
  <2>1. Effect(p) = [b EXCEPT !.state = "running"] BY <1>4 DEF Effect
  <2> QED BY <1>1, <1>4, <2>1 DEF Box
<1>5. CASE pc[p] = "inject" /\ b.state = "running"
  <2>1. Effect(p) = [b EXCEPT !.set = seen[p].set] BY <1>5 DEF Effect
  <2>2. seen[p].set \in 0..MaxSet BY DEF TypeOK, Row
  <2> QED BY <1>1, <1>5, <2>1, <2>2 DEF Box
<1>6. CASE pc[p] = "stopping" /\ b.state = "running"
  <2>1. Effect(p) = [b EXCEPT !.state = "stopped"] BY <1>6 DEF Effect
  <2> QED BY <1>1, <1>6, <2>1 DEF Box
<1>7. CASE /\ ~(pc[p] \in {"clear", "removing", "cleaning"})
           /\ ~(pc[p] = "make" /\ b.state = "none" /\ made < MaxBox)
           /\ ~(pc[p] \in {"boot", "starting"} /\ b.state # "none")
           /\ ~(pc[p] = "inject" /\ b.state = "running")
           /\ ~(pc[p] = "stopping" /\ b.state = "running")
  <2>1. Effect(p) = b BY <1>7 DEF Effect
  <2> QED BY <1>1, <2>1
<1> QED BY <1>2, <1>3, <1>4, <1>5, <1>6, <1>7

-----------------------------------------------------------------------------
(* Types: the parts of a step.                                              *)

DatabaseTypes == /\ listed \in SUBSET Channels /\ born \in SUBSET Channels
                 /\ row \in [Channels -> Row]
DockerTypes   == /\ box \in [Channels -> Box] /\ made \in 0..MaxBox
TaskTypes ==
    /\ op \in [Clients -> Ops]
    /\ chan \in [Clients -> Channels \cup {NoChannel}]
    /\ \A p \in Clients : chan[p] = NoChannel <=> op[p] = "none"
    /\ pc \in [Clients -> Labels]
    /\ \A p \in Clients : pc[p] = "idle" <=> op[p] = "none"
HistoryTypes ==
    /\ alone \in [Clients -> BOOLEAN]
    /\ accord \in [Channels -> {"agree", "overlap", "fault"}]
    /\ raced \in SUBSET Channels
SeenTypes == seen \in [Clients -> Row]

LEMMA Parts == TypeOK <=> /\ DatabaseTypes /\ DockerTypes /\ edits \in 1..MaxSet
                          /\ TaskTypes /\ HistoryTypes /\ SeenTypes
BY DEF TypeOK, DatabaseTypes, DockerTypes, TaskTypes, HistoryTypes, SeenTypes

LEMMA LeaveTypes ==
    ASSUME TypeOK, NEW p \in Clients, Leave(p)
    PROVE  /\ TaskTypes' /\ SeenTypes' /\ raced' \in SUBSET Channels
           /\ alone' \in [Clients -> BOOLEAN]
<1>1. SeenTypes' BY Values DEF TypeOK, Leave, SeenTypes
<1>2. op' \in [Clients -> Ops] /\ pc' \in [Clients -> Labels]
      BY Values DEF TypeOK, Leave
<1>3. chan' \in [Clients -> Channels \cup {NoChannel}] BY DEF TypeOK, Leave
<1>4. \A q \in Clients : /\ chan'[q] = NoChannel <=> op'[q] = "none"
                         /\ pc'[q] = "idle" <=> op'[q] = "none"
      BY DEF TypeOK, Leave
<1> QED BY <1>1, <1>2, <1>3, <1>4 DEF TypeOK, Leave, TaskTypes

LEMMA SucceedTypes ==
    ASSUME TypeOK, NEW p \in Clients, pc[p] # "idle", Succeed(p)
    PROVE  TaskTypes' /\ SeenTypes' /\ HistoryTypes'
<1>1. accord' \in [Channels -> {"agree", "overlap", "fault"}]
      BY DEF TypeOK, Succeed
<1> QED BY <1>1, LeaveTypes DEF Succeed, HistoryTypes

LEMMA FailTypes ==
    ASSUME TypeOK, NEW p \in Clients, pc[p] # "idle", Fail(p)
    PROVE  TaskTypes' /\ SeenTypes' /\ HistoryTypes'
<1>1. accord' \in [Channels -> {"agree", "overlap", "fault"}]
      BY DEF TypeOK, Fail
<1> QED BY <1>1, LeaveTypes DEF Fail, HistoryTypes

LEMMA SilentTypes ==
    ASSUME TypeOK, NEW p \in Clients, Leave(p), UNCHANGED accord
    PROVE  TaskTypes' /\ SeenTypes' /\ HistoryTypes'
BY LeaveTypes DEF TypeOK, HistoryTypes

LEMMA GotoTypes ==
    ASSUME TypeOK, NEW p \in Clients, pc[p] # "idle",
           NEW l \in Labels \ {"idle"}, Goto(p, l)
    PROVE  TaskTypes' /\ HistoryTypes'
BY DEF TypeOK, Goto, TaskTypes, HistoryTypes, history

LEMMA DockerTypesKept ==
    ASSUME TypeOK, NEW p \in Clients, pc[p] # "idle", NEW b \in Box, Docker(p, b)
    PROVE  DockerTypes'
<1>1. b.id \in 0..MaxBox BY DEF Box
<1> QED BY <1>1, Working DEF TypeOK, Docker, DockerTypes

LEMMA RowTypesKept ==
    ASSUME TypeOK, NEW c \in Channels, NEW r \in Row, UpdateRow(c, r),
           UNCHANGED <<listed, born>>
    PROVE  DatabaseTypes'
BY DEF TypeOK, UpdateRow, DatabaseTypes

LEMMA BeginTypes ==
    ASSUME TypeOK, NEW p \in Clients, NEW c \in Channels, NEW o \in Ops \ {"none"},
           NEW l \in Labels \ {"idle"}, NEW r \in Row, Begin(p, c, o, l, r)
    PROVE  TaskTypes' /\ SeenTypes' /\ HistoryTypes'
<1>1. SeenTypes' BY DEF TypeOK, Begin, SeenTypes
<1>2. /\ op' \in [Clients -> Ops] /\ pc' \in [Clients -> Labels]
      /\ chan' \in [Clients -> Channels \cup {NoChannel}]
      BY DEF TypeOK, Begin
<1>3. \A q \in Clients : /\ chan'[q] = NoChannel <=> op'[q] = "none"
                         /\ pc'[q] = "idle" <=> op'[q] = "none"
      BY NoChannelAssumption DEF TypeOK, Begin
<1>4. raced' \in SUBSET Channels BY DEF TypeOK, Begin
<1>5. accord' \in [Channels -> {"agree", "overlap", "fault"}] BY DEF TypeOK, Begin
<1>6. alone' \in [Clients -> BOOLEAN]
  <2> DEFINE clash == IF o = "status" THEN ChangesAt(c) # {} ELSE At(c) # {}
  <2>1. clash \in BOOLEAN OBVIOUS
  <2>2. alone' = [q \in Clients |->
                     IF q = p THEN ~clash ELSE alone[q] /\ ~(clash /\ q \in At(c))]
        BY DEF Begin
  <2> HIDE DEF clash
  <2> QED BY <2>1, <2>2 DEF TypeOK
<1> QED BY <1>1, <1>2, <1>3, <1>4, <1>5, <1>6 DEF TaskTypes, HistoryTypes

-----------------------------------------------------------------------------
(* Types: every step.                                                       *)

LEMMA InitTypes == ASSUME Init PROVE TypeOK
<1> USE BoundsAssumption
<1>1. DatabaseTypes BY Values DEF Init, DatabaseTypes
<1>2. DockerTypes BY Values DEF Init, DockerTypes
<1>3. TaskTypes BY Values DEF Init, TaskTypes
<1>4. HistoryTypes BY DEF Init, HistoryTypes
<1>5. SeenTypes /\ edits \in 1..MaxSet BY Values DEF Init, SeenTypes
<1> QED BY <1>1, <1>2, <1>3, <1>4, <1>5, Parts

(* The rows the handlers remember.                                          *)
LEMMA ReadRows ==
    ASSUME TypeOK, NEW c \in Channels
    PROVE  /\ row[c] \in Row /\ [row[c] EXCEPT !.status = "stopped"] \in Row
           /\ [row[c] EXCEPT !.status = "stopped", !.box = 0] \in Row
           /\ [Blank EXCEPT !.status = row[c].status] \in Row
<1>1. row[c] \in Row /\ row[c].status \in Statuses BY DEF TypeOK, Row
<1>2. "stopped" \in Statuses /\ 0 \in 0..MaxBox /\ 0 \in 0..MaxSet
      BY BoundsAssumption DEF Statuses
<1>3. [row[c] EXCEPT !.status = "stopped"] \in Row BY <1>1, <1>2, RowWith, Zenon
<1>4. [row[c] EXCEPT !.status = "stopped", !.box = 0] \in Row
      BY <1>1, <1>2, RowWith, Zenon
<1>5. [Blank EXCEPT !.status = row[c].status] \in Row
      BY <1>1, <1>2, RowWith, Values, Zenon
<1> QED BY <1>1, <1>3, <1>4, <1>5

LEMMA RequestTypes ==
    ASSUME TypeOK, NEW p \in Clients, NEW c \in Channels, Request(p, c)
    PROVE  TypeOK'
<1> USE DEF database, docker
<1>1. ASSUME NEW kind \in Kinds, CreateChannel(p, c, kind) PROVE TypeOK'
  <2> DEFINE r == [kind |-> kind, status |-> "creating", box |-> 0, set |-> FirstSettings(kind)]
  <2>1. r \in Row /\ [r EXCEPT !.status = "stopped"] \in Row
        BY BoundsAssumption DEF Row, Statuses, FirstSettings
  <2>2. TaskTypes' /\ SeenTypes' /\ HistoryTypes'
        BY <1>1, <2>1, BeginTypes DEF CreateChannel, Ops, Labels, Provisioning
  <2>3. DatabaseTypes' BY <1>1, <2>1 DEF CreateChannel, TypeOK, DatabaseTypes
  <2>4. DockerTypes' /\ edits' \in 1..MaxSet
        BY <1>1 DEF CreateChannel, TypeOK, DockerTypes
  <2> QED BY <2>2, <2>3, <2>4, Parts DEF TypeOK, DatabaseTypes, DockerTypes, TaskTypes,
                                         HistoryTypes, SeenTypes
<1>2. CASE NotFound(p, c)
      BY <1>2 DEF NotFound, vars, locals, history, TypeOK
<1>3. ASSUME NEW o \in Ops \ {"none"}, NEW l \in Labels \ {"idle"}, NEW r \in Row,
             Begin(p, c, o, l, r), UNCHANGED <<database, docker, edits>>
      PROVE  TypeOK'
  <2>1. TaskTypes' /\ SeenTypes' /\ HistoryTypes' BY <1>3, BeginTypes
  <2>2. DatabaseTypes' /\ DockerTypes' /\ edits' \in 1..MaxSet
        BY <1>3 DEF TypeOK, DatabaseTypes, DockerTypes
  <2> QED BY <2>1, <2>2 DEF TypeOK, DatabaseTypes, DockerTypes, TaskTypes,
                            HistoryTypes, SeenTypes
<1>4. /\ row[c] \in Row /\ [row[c] EXCEPT !.status = "stopped"] \in Row
      /\ [row[c] EXCEPT !.status = "stopped", !.box = 0] \in Row
      /\ [Blank EXCEPT !.status = row[c].status] \in Row
      BY ReadRows, Zenon
<1>5. CASE BeginUpdate(p, c)
      BY <1>3, <1>4, <1>5 DEF BeginUpdate, BeginOn, Ops, Labels
<1>6. CASE BeginStart(p, c)
      BY <1>3, <1>4, <1>6, Values DEF BeginStart, BeginOn, Ops, Labels, Provisioning
<1>7. CASE BeginStop(p, c)
      BY <1>3, <1>7, Values DEF BeginStop, BeginOn, Ops, Labels
<1>8. CASE BeginDelete(p, c)
      BY <1>3, <1>8, Values DEF BeginDelete, BeginOn, Ops, Labels
<1>9. CASE BeginStatus(p, c)
      BY <1>3, <1>4, <1>9 DEF BeginStatus, BeginOn, Ops, Labels
<1>10. ASSUME NEW unread \in BOOLEAN, BeginClean(p, c, unread) PROVE TypeOK'
      BY <1>3, <1>10, Values DEF BeginClean, Ops, Labels
<1> QED BY <1>1, <1>2, <1>5, <1>6, <1>7, <1>8, <1>9, <1>10 DEF Request

LEMMA ImportTypes ==
    ASSUME TypeOK, NEW c \in Channels, NEW kind \in Kinds, ImportChannel(c, kind)
    PROVE  TypeOK'
<1> DEFINE r == [kind |-> kind, status |-> "stopped", box |-> 0, set |-> FirstSettings(kind)]
<1>1. r \in Row BY BoundsAssumption DEF Row, Statuses, FirstSettings
<1> QED BY <1>1 DEF ImportChannel, TypeOK, docker, locals

(* The rows the handlers write.                                             *)
LEMMA Written ==
    ASSUME TypeOK, NEW p \in Clients, pc[p] # "idle"
    PROVE  LET r == row[chan[p]]
           IN  /\ \A s \in Statuses : [r EXCEPT !.status = s] \in Row
               /\ \A s \in Statuses :
                     [r EXCEPT !.box = seen[p].box, !.status = s] \in Row
               /\ edits < MaxSet => [r EXCEPT !.set = edits + 1] \in Row
               /\ r.set \in 0..MaxSet /\ seen[p].status \in Statuses
<1>1. chan[p] \in Channels BY Working
<1>2. row[chan[p]] \in Row /\ seen[p] \in Row BY <1>1 DEF TypeOK
<1>3. /\ row[chan[p]].set \in 0..MaxSet
      /\ seen[p].status \in Statuses /\ seen[p].box \in 0..MaxBox
      BY <1>2 DEF Row
<1>4. edits < MaxSet => edits + 1 \in 0..MaxSet BY BoundsAssumption DEF TypeOK
<1> QED BY <1>2, <1>3, <1>4, RowWith

(* A step of a task that leaves the settings' versions alone.               *)
LEMMA Together ==
    ASSUME DatabaseTypes', DockerTypes', TaskTypes', SeenTypes', HistoryTypes',
           edits' \in 1..MaxSet
    PROVE  TypeOK'
BY DEF TypeOK, DatabaseTypes, DockerTypes, TaskTypes, HistoryTypes, SeenTypes

(* update: what is written into the row.                                    *)
LEMMA SettingsWritten ==
    ASSUME TypeOK, NEW p \in Clients, pc[p] # "idle", NEW given \in BOOLEAN,
           WriteSettings(p, given)
    PROVE  /\ edits' \in 1..MaxSet
           /\ \E v \in 0..MaxSet :
                 /\ ~given => v = row[chan[p]].set
                 /\ UpdateRow(chan[p], [row[chan[p]] EXCEPT !.set = v])
                 /\ [row[chan[p]] EXCEPT !.set = v] \in Row
<1> DEFINE r == row[chan[p]]
           v == IF given THEN edits + 1 ELSE r.set
<1>1. chan[p] \in Channels /\ r \in Row BY Working DEF TypeOK
<1>2. r.set \in 0..MaxSet /\ r.status \in Statuses BY <1>1 DEF Row
<1>3. edits \in 1..MaxSet /\ MaxSet \in Nat /\ (given => edits < MaxSet)
      BY BoundsAssumption DEF TypeOK, WriteSettings
<1>4. v \in 0..MaxSet BY <1>2, <1>3
<1>5. edits' \in 1..MaxSet BY <1>3 DEF WriteSettings
<1>6. UpdateRow(chan[p], [r EXCEPT !.set = v]) BY DEF WriteSettings
<1>7. [r EXCEPT !.set = v] \in Row
  <2>1. 0 \in 0..MaxBox BY BoundsAssumption
  <2> HIDE DEF v, r
  <2> QED BY <1>1, <1>2, <1>4, <2>1, RowWith
<1> QED BY <1>4, <1>5, <1>6, <1>7

LEMMA StepTypes ==
    ASSUME TypeOK, NEW p \in Clients, Step(p)
    PROVE  TypeOK'
<1> USE DEF database, docker
<1> DEFINE c == chan[p]
<1>0. pc[p] # "idle"
      BY DEF TypeOK, Step, Edit, EditFails, HaveImage, ClearOld, MakeBox, BootBox,
             ReadPort, Inject, Record, StopBox, StartBox, WriteStatus, RemoveBox, Unlist,
             CleanBox, Probe, WriteVerdict, DockerFails, WriteFails, Drop
<1>1. c \in Channels /\ box[c] \in Box /\ Effect(p) \in Box
      BY <1>0, Working, EffectType DEF TypeOK
<1>2. DatabaseTypes /\ DockerTypes /\ edits \in 1..MaxSet /\ SeenTypes BY Parts
<1>3. ASSUME UNCHANGED <<listed, born, row>> PROVE DatabaseTypes'
      BY <1>2, <1>3 DEF DatabaseTypes
<1>4. ASSUME UNCHANGED <<box, made>> PROVE DockerTypes'
      BY <1>2, <1>4 DEF DockerTypes
<1>5. ASSUME UNCHANGED seen PROVE SeenTypes'
      BY <1>2, <1>5 DEF SeenTypes
<1>6. ASSUME NEW fields \in Fields, Edit(p, fields) PROVE TypeOK'
  <2> DEFINE given == fields = "given"
  <2>1. given \in BOOLEAN /\ WriteSettings(p, given) BY <1>6 DEF Edit
  <2> HIDE DEF given
  <2>2. PICK v \in 0..MaxSet :
           /\ UpdateRow(chan[p], [row[chan[p]] EXCEPT !.set = v])
           /\ [row[chan[p]] EXCEPT !.set = v] \in Row
        BY <1>0, <2>1, SettingsWritten
  <2>3. DatabaseTypes'
        BY <1>1, <1>6, <2>2, RowTypesKept DEF Edit
  <2>4. DockerTypes' BY <1>4, <1>6 DEF Edit
  <2>5. edits' \in 1..MaxSet BY <1>0, <2>1, SettingsWritten
  <2>6. CASE seen[p].box = 0 \/ fields = "none"
    <3>1. Leave(p) /\ UNCHANGED accord BY <1>6, <2>6 DEF Edit
    <3>2. TaskTypes' /\ SeenTypes' /\ HistoryTypes' BY <3>1, SilentTypes
    <3> QED BY <2>3, <2>4, <2>5, <3>2, Together
  <2>7. CASE ~(seen[p].box = 0 \/ fields = "none")
    <3>1. Goto(p, "image") /\ seen' = [seen EXCEPT ![p].set = row'[c].set, ![p].box = 0]
          BY <1>6, <2>7 DEF Edit
    <3>2. TaskTypes' /\ HistoryTypes'
          BY <1>0, <3>1, GotoTypes DEF Labels, Provisioning
    <3>3. row'[c].set \in 0..MaxSet BY <1>1, <2>3 DEF DatabaseTypes, Row
    <3>4. [seen[p] EXCEPT !.set = row'[c].set, !.box = 0] \in Row
      <4>1. seen[p] \in Row /\ seen[p].status \in Statuses /\ 0 \in 0..MaxBox
            BY <1>2, BoundsAssumption DEF SeenTypes, Row
      <4> QED BY <3>3, <4>1, RowWith
    <3>5. SeenTypes' BY <1>2, <3>1, <3>4 DEF SeenTypes
    <3> QED BY <2>3, <2>4, <2>5, <3>2, <3>5, Together
  <2> QED BY <2>6, <2>7
<1>7. CASE EditFails(p)
  <2>1. PICK given \in BOOLEAN : WriteSettings(p, given) BY <1>7 DEF EditFails
  <2>2. PICK v \in 0..MaxSet :
           /\ UpdateRow(chan[p], [row[chan[p]] EXCEPT !.set = v])
           /\ [row[chan[p]] EXCEPT !.set = v] \in Row
        BY <1>0, <2>1, SettingsWritten
  <2>3. DatabaseTypes' BY <1>1, <1>7, <2>2, RowTypesKept DEF EditFails
  <2>4. DockerTypes' BY <1>4, <1>7 DEF EditFails
  <2>5. edits' \in 1..MaxSet BY <1>0, <2>1, SettingsWritten
  <2> QED BY <1>0, <1>7, <2>3, <2>4, <2>5, FailTypes, Together DEF EditFails
<1>8. CASE HaveImage(p)
      BY <1>0, <1>2, <1>3, <1>4, <1>5, <1>8, GotoTypes, Together
         DEF HaveImage, Labels, Provisioning
<1>9. CASE ClearOld(p)
      BY <1>0, <1>1, <1>2, <1>3, <1>5, <1>9, GotoTypes, DockerTypesKept, Together
         DEF ClearOld, Labels, Provisioning
<1>10. CASE MakeBox(p)
  <2>1. [seen[p] EXCEPT !.box = made + 1] \in Row
        BY <1>2, <1>10, BoundsAssumption DEF MakeBox, SeenTypes, Row, DockerTypes
  <2>2. SeenTypes' BY <1>2, <1>10, <2>1 DEF MakeBox, SeenTypes
  <2> QED BY <1>0, <1>1, <1>2, <1>3, <1>10, <2>2, GotoTypes, DockerTypesKept, Together
             DEF MakeBox, Labels, Provisioning
<1>11. CASE BootBox(p)
  <2>1. [seen[p] EXCEPT !.set = row[c].set] \in Row
        BY <1>0, <1>2, Written DEF SeenTypes, Row
  <2>2. SeenTypes' BY <1>2, <1>5, <1>11, <2>1 DEF BootBox, SeenTypes
  <2> QED BY <1>0, <1>1, <1>2, <1>3, <1>11, <2>2, GotoTypes, DockerTypesKept, Together
             DEF BootBox, Labels, Provisioning
<1>12. CASE ReadPort(p)
      BY <1>0, <1>2, <1>3, <1>4, <1>5, <1>12, GotoTypes, Together
         DEF ReadPort, Labels, Provisioning
<1>13. CASE Inject(p)
      BY <1>0, <1>1, <1>2, <1>3, <1>5, <1>13, GotoTypes, DockerTypesKept, Together
         DEF Inject, Labels, Provisioning
<1>14. CASE Record(p)
  <2>1. DatabaseTypes'
        BY <1>0, <1>1, <1>14, Written, RowTypesKept DEF Record, Statuses
  <2> QED BY <1>0, <1>2, <1>4, <1>14, <2>1, SucceedTypes, Together DEF Record
<1>15. CASE StopBox(p)
      BY <1>0, <1>1, <1>2, <1>3, <1>5, <1>15, GotoTypes, DockerTypesKept, Together
         DEF StopBox, Labels
<1>16. CASE StartBox(p)
      BY <1>0, <1>1, <1>2, <1>3, <1>5, <1>16, GotoTypes, DockerTypesKept, Together
         DEF StartBox, Labels
<1>17. CASE WriteStatus(p)
  <2>1. DatabaseTypes'
        BY <1>0, <1>1, <1>17, Written, RowTypesKept DEF WriteStatus, Statuses
  <2> QED BY <1>0, <1>2, <1>4, <1>17, <2>1, SucceedTypes, Together DEF WriteStatus
<1>18. CASE RemoveBox(p)
      BY <1>0, <1>1, <1>2, <1>3, <1>5, <1>18, GotoTypes, DockerTypesKept, Together
         DEF RemoveBox, Labels
<1>19. CASE Unlist(p)
  <2>1. DatabaseTypes' BY <1>1, <1>2, <1>19, Values DEF Unlist, DatabaseTypes
  <2> QED BY <1>0, <1>2, <1>4, <1>19, <2>1, SucceedTypes, Together DEF Unlist
<1>20. CASE CleanBox(p)
      BY <1>0, <1>1, <1>2, <1>3, <1>20, FailTypes, DockerTypesKept, Together DEF CleanBox
<1>21. ASSUME NEW ok \in BOOLEAN, Probe(p, ok) PROVE TypeOK'
  <2>1. [box[c] EXCEPT !.reached = @ \/ ok] \in Box BY <1>1 DEF Box
  <2>2. DockerTypes' BY <1>1, <1>2, <1>21, <2>1 DEF Probe, DockerTypes
  <2> QED BY <1>0, <1>2, <1>3, <1>5, <1>21, <2>2, GotoTypes, Together DEF Probe, Labels
<1>22. CASE WriteVerdict(p)
  <2>1. Verdict(p) \in Statuses BY <1>0, Written DEF Verdict, Statuses
  <2>2. DatabaseTypes' BY <1>0, <1>1, <1>22, <2>1, Written, RowTypesKept DEF WriteVerdict
  <2> QED BY <1>2, <1>4, <1>22, <2>2, SilentTypes, Together DEF WriteVerdict
<1>23. CASE DockerFails(p)
  <2>1. DatabaseTypes'
        BY <1>0, <1>1, <1>3, <1>23, Written, RowTypesKept DEF DockerFails, Statuses
  <2>2. DockerTypes' BY <1>0, <1>1, <1>23, DockerTypesKept DEF DockerFails
  <2> QED BY <1>0, <1>2, <1>23, <2>1, <2>2, FailTypes, Together DEF DockerFails
<1>24. CASE WriteFails(p)
      BY <1>0, <1>2, <1>3, <1>4, <1>24, FailTypes, SilentTypes, Together DEF WriteFails
<1>25. CASE Drop(p)
  <2>1. DockerTypes' BY <1>0, <1>1, <1>25, DockerTypesKept DEF Drop
  <2> QED BY <1>0, <1>2, <1>3, <1>25, <2>1, FailTypes, SilentTypes, Together DEF Drop
<1> QED BY <1>6, <1>7, <1>8, <1>9, <1>10, <1>11, <1>12, <1>13, <1>14, <1>15, <1>16, <1>17,
           <1>18, <1>19, <1>20, <1>21, <1>22, <1>23, <1>24, <1>25 DEF Step

(* Every variable keeps its type, whatever interleaves, fails or is dropped *)
(* (all handlers).                                                          *)
THEOREM TypeCorrect == Spec => []TypeOK
<1>1. Init => TypeOK BY InitTypes
<1>2. TypeOK /\ [Next]_vars => TypeOK'
  <2> SUFFICES ASSUME TypeOK, [Next]_vars PROVE TypeOK'
    OBVIOUS
  <2>1. CASE UNCHANGED vars
        BY <2>1 DEF vars, database, docker, locals, history, TypeOK
  <2>2. CASE Next BY <2>2, StepTypes, RequestTypes, ImportTypes DEF Next
  <2> QED BY <2>1, <2>2
<1> QED BY <1>1, <1>2, PTL DEF Spec

-----------------------------------------------------------------------------
(* Deletion.                                                                *)

(* A step of task p lets no container appear but where it makes one.        *)
NoNewBox(p) ==
    \A c \in Channels :
        box'[c].state # "none" =>
            box[c].state # "none" \/ (c = chan[p] /\ pc[p] = "make")

LEMMA DockerMakesNone ==
    ASSUME TypeOK, NEW p \in Clients, pc[p] # "idle",
           NEW b \in {Effect(p), box[chan[p]], NoBox}, Docker(p, b)
    PROVE  NoNewBox(p)
<1>1. b.state # "none" => box[chan[p]].state # "none" \/ pc[p] = "make"
      BY EffectType, Values
<1>2. \A c \in Channels : box'[c] = IF c = chan[p] THEN b ELSE box[c]
      BY DEF TypeOK, Docker
<1> QED BY <1>1, <1>2 DEF NoNewBox

(* A task that makes a container where none was provisions a channel that   *)
(* has been created; the channel has a row, or a deletion has raced.        *)
LEMMA MakersRace ==
    ASSUME Inductive, NEW p \in Clients, NoNewBox(p)
    PROVE  /\ \A c \in Channels \ born : box'[c].state = "none"
           /\ \A c \in born \ listed : box'[c].state # "none" => c \in raced
           /\ \A q \in Clients :
                 pc[q] = "unlist" /\ box'[chan[q]].state # "none" => chan[q] \in raced
<1> USE DEF Inductive
<1>1. pc[p] = "make" => op[p] \in Providers /\ chan[p] \in born
      BY DEF TaskInv, Provisioning, Providers
<1>2. \A c \in Channels \ born : box'[c].state = "none"
      BY <1>1 DEF NoNewBox, BornInv
<1>3. \A c \in born \ listed : box'[c].state # "none" => c \in raced
      BY <1>1 DEF NoNewBox, TypeOK, RaceInv, LeftoverOnlyByRace
<1>4. ASSUME NEW q \in Clients, pc[q] = "unlist", box'[chan[q]].state # "none"
      PROVE  chan[q] \in raced
  <2>1. chan[q] \in Channels BY <1>4, Working
  <2>2. CASE box[chan[q]].state # "none" BY <1>4, <2>2 DEF RaceInv
  <2>3. CASE chan[q] = chan[p] /\ pc[p] = "make"
    <3>1. q # p /\ op[q] = "delete" BY <1>4, <2>3 DEF TaskInv
    <3>2. op[p] \in Changing BY <1>1, <2>3 DEF Providers, Changing, Ops
    <3> QED BY <2>3, <3>1, <3>2 DEF RaceInv
  <2> QED BY <1>4, <2>1, <2>2, <2>3 DEF NoNewBox
<1> QED BY <1>2, <1>3, <1>4

(* A task goes on.                                                          *)
LEMMA GotoKeeps ==
    ASSUME Inductive, TypeOK', NEW p \in Clients, pc[p] # "idle",
           NEW l \in Labels \ {"idle", "edit", "removing"}, Goto(p, l),
           UNCHANGED <<listed, born>>, NoNewBox(p),
           l \in Provisioning => op[p] \in Providers,
           l = "unlist" => op[p] = "delete" /\ box'[chan[p]].state = "none"
    PROVE  Inductive'
<1> USE DEF Inductive
<1>1. UNCHANGED <<listed, born, op, chan, raced>> BY DEF Goto, history
<1>2. \A q \in Clients : pc'[q] = IF q = p THEN l ELSE pc[q] BY DEF Goto, TypeOK
<1>3. TaskInv' BY <1>1, <1>2 DEF TaskInv, Provisioning
<1>4. BornInv' BY <1>1, MakersRace DEF BornInv
<1>5. RaceInv'
  <2>1. \A q \in Clients :
            pc'[q] = "unlist" /\ box'[chan[q]].state # "none" => chan[q] \in raced
        BY <1>2, MakersRace
  <2> QED BY <1>1, <2>1 DEF RaceInv
<1>6. LeftoverOnlyByRace' BY <1>1, MakersRace DEF LeftoverOnlyByRace
<1> QED BY <1>3, <1>4, <1>5, <1>6

(* A task ends, its channel's row stays.                                    *)
LEMMA LeaveKeeps ==
    ASSUME Inductive, TypeOK', NEW p \in Clients, pc[p] # "idle", Leave(p),
           UNCHANGED <<listed, born>>, NoNewBox(p)
    PROVE  Inductive'
<1> USE DEF Inductive
<1>1. raced' = raced BY DEF Leave
<1>2. \A q \in Clients :
          IF q = p THEN op'[q] = "none" /\ chan'[q] = NoChannel /\ pc'[q] = "idle"
          ELSE op'[q] = op[q] /\ chan'[q] = chan[q] /\ pc'[q] = pc[q]
      BY DEF Leave, TypeOK
<1>3. TaskInv' BY <1>2 DEF TaskInv, Provisioning
<1>4. BornInv' BY MakersRace DEF BornInv
<1>5. RaceInv'
  <2>1. \A q \in Clients :
            pc'[q] = "unlist" /\ box'[chan'[q]].state # "none" => chan'[q] \in raced
        BY <1>2, MakersRace
  <2>2. \A q \in Clients : op'[q] \in Providers /\ chan'[q] \notin listed => chan'[q] \in raced
        BY <1>2 DEF RaceInv, Providers
  <2>3. \A q, r \in Clients :
            q # r /\ chan'[q] = chan'[r] /\ op'[q] = "delete" /\ op'[r] \in Changing =>
                chan'[q] \in raced
        BY <1>2 DEF RaceInv, Changing
  <2> QED BY <1>1, <2>1, <2>2, <2>3 DEF RaceInv
<1>6. LeftoverOnlyByRace' BY <1>1, MakersRace DEF LeftoverOnlyByRace
<1> QED BY <1>3, <1>4, <1>5, <1>6

(* A task begins on a channel that has been created.                        *)
LEMMA BeginKeeps ==
    ASSUME Inductive, TypeOK', NEW p \in Clients, NEW c \in Channels,
           NEW o \in Ops \ {"none"}, NEW l \in Labels \ {"idle", "unlist"}, NEW r,
           Begin(p, c, o, l, r), UNCHANGED box,
           c \in born', listed \subseteq listed', listed' \subseteq listed \cup {c},
           born' = born \cup {c}, c \in listed' \/ (listed' = listed /\ c \in born),
           o \in Providers => c \in listed',
           l \in Provisioning => o \in Providers,
           l = "edit" => o = "update",
           l = "removing" => o = "delete"
    PROVE  Inductive'
<1> USE DEF Inductive
<1>1. \A q \in Clients :
          IF q = p THEN op'[q] = o /\ chan'[q] = c /\ pc'[q] = l
          ELSE op'[q] = op[q] /\ chan'[q] = chan[q] /\ pc'[q] = pc[q]
      BY DEF Begin, TypeOK
<1>2. /\ raced \subseteq raced'
      /\ o = "delete" /\ ChangesAt(c) # {} => c \in raced'
      /\ o \in Changing /\ (\E q \in At(c) : op[q] = "delete") => c \in raced'
      BY DEF Begin
<1>3. op[p] = "none" BY DEF Begin
<1>4. TaskInv' BY <1>1 DEF TaskInv, Provisioning
<1>5. BornInv' BY DEF BornInv
<1>6. RaceInv'
  <2>1. ASSUME NEW q \in Clients, NEW s \in Clients, q # s, chan'[q] = chan'[s],
               op'[q] = "delete", op'[s] \in Changing
        PROVE  chan'[q] \in raced'
    <3>1. CASE q = p
      <4>1. s \in ChangesAt(c) BY <1>1, <2>1, <3>1 DEF ChangesAt, At
      <4> QED BY <1>1, <1>2, <2>1, <3>1, <4>1
    <3>2. CASE s = p
      <4>1. q \in At(c) /\ op[q] = "delete" BY <1>1, <2>1, <3>2 DEF At
      <4> QED BY <1>1, <1>2, <2>1, <3>2, <4>1
    <3>3. CASE q # p /\ s # p BY <1>1, <1>2, <2>1, <3>3 DEF RaceInv
    <3> QED BY <3>1, <3>2, <3>3
  <2>2. \A q \in Clients :
            op'[q] \in Providers /\ chan'[q] \notin listed' => chan'[q] \in raced'
        BY <1>1, <1>2 DEF RaceInv
  <2>3. \A q \in Clients :
            pc'[q] = "unlist" /\ box[chan'[q]].state # "none" => chan'[q] \in raced'
        BY <1>1, <1>2 DEF RaceInv
  <2> QED BY <2>1, <2>2, <2>3 DEF RaceInv
<1>7. LeftoverOnlyByRace' BY <1>2 DEF LeftoverOnlyByRace
<1> QED BY <1>4, <1>5, <1>6, <1>7

LEMMA RequestKeeps ==
    ASSUME Inductive, TypeOK', NEW p \in Clients, NEW c \in Channels, Request(p, c)
    PROVE  Inductive'
<1> USE DEF database, docker
<1>1. listed \subseteq born /\ (box[c].state # "none" => c \in born)
      BY DEF Inductive, BornInv
<1>2. ASSUME NEW kind \in Kinds, CreateChannel(p, c, kind) PROVE Inductive'
  <2>1. /\ c \notin born /\ listed' = listed \cup {c} /\ born' = born \cup {c}
        /\ UNCHANGED box
        BY <1>2 DEF CreateChannel
  <2>2. PICK r : Begin(p, c, "create", "image", r) BY <1>2 DEF CreateChannel
  <2> QED BY <2>1, <2>2, BeginKeeps DEF Ops, Labels, Provisioning, Providers
<1>3. CASE NotFound(p, c)
      BY <1>3 DEF NotFound, vars, locals, history, Inductive, TaskInv, BornInv, RaceInv,
                  LeftoverOnlyByRace, At, ChangesAt
<1>4. ASSUME NEW o \in Ops \ {"none"}, NEW l \in Labels \ {"idle", "unlist"}, NEW r,
             BeginOn(p, c, o, l, r),
             l \in Provisioning => o \in Providers, l = "edit" => o = "update",
             l = "removing" => o = "delete"
      PROVE  Inductive'
  <2>1. c \in listed /\ Begin(p, c, o, l, r) /\ UNCHANGED <<listed, born, box>>
        BY <1>4 DEF BeginOn
  <2>2. c \in born /\ born \cup {c} = born BY <1>1, <2>1
  <2> QED BY <1>4, <2>1, <2>2, BeginKeeps
<1>5. CASE BeginUpdate(p, c)
      BY <1>4, <1>5 DEF BeginUpdate, Ops, Labels, Provisioning, Providers
<1>6. CASE BeginStart(p, c)
      BY <1>4, <1>6 DEF BeginStart, Ops, Labels, Provisioning, Providers
<1>7. CASE BeginStop(p, c)
      BY <1>4, <1>7 DEF BeginStop, Ops, Labels, Provisioning
<1>8. CASE BeginDelete(p, c)
      BY <1>4, <1>8 DEF BeginDelete, Ops, Labels, Provisioning
<1>9. CASE BeginStatus(p, c)
      BY <1>4, <1>9 DEF BeginStatus, Ops, Labels, Provisioning
<1>10. ASSUME NEW unread \in BOOLEAN, BeginClean(p, c, unread) PROVE Inductive'
  <2>1. UNCHANGED <<listed, born, box>> /\ c \in born /\ born \cup {c} = born
        BY <1>1, <1>10 DEF BeginClean
  <2>2. Begin(p, c, "clean", "cleaning", Blank) BY <1>10 DEF BeginClean
  <2> QED BY <1>1, <2>1, <2>2, BeginKeeps DEF Ops, Labels, Provisioning, Providers
<1> QED BY <1>2, <1>3, <1>5, <1>6, <1>7, <1>8, <1>9, <1>10 DEF Request

LEMMA ImportKeeps ==
    ASSUME Inductive, TypeOK', NEW c \in Channels, NEW kind \in Kinds,
           ImportChannel(c, kind)
    PROVE  Inductive'
<1> USE DEF Inductive
<1>1. /\ c \notin born /\ listed' = listed \cup {c} /\ born' = born \cup {c}
      /\ UNCHANGED <<box, op, chan, pc, raced>>
      BY DEF ImportChannel, docker, locals
<1>2. TaskInv' BY <1>1 DEF TaskInv
<1>3. BornInv' BY <1>1 DEF BornInv
<1>4. RaceInv' BY <1>1 DEF RaceInv
<1>5. LeftoverOnlyByRace' BY <1>1 DEF LeftoverOnlyByRace
<1> QED BY <1>2, <1>3, <1>4, <1>5

LEMMA UnlistKeeps ==
    ASSUME Inductive, TypeOK', NEW p \in Clients, Unlist(p)
    PROVE  Inductive'
<1> USE DEF Inductive
<1>1. /\ pc[p] = "unlist" /\ op[p] = "delete" /\ chan[p] \in Channels
      /\ listed' = listed \ {chan[p]} /\ UNCHANGED <<born, box, raced>>
      BY Working DEF Unlist, docker, Succeed, Leave, TaskInv
<1>2. \A q \in Clients :
          IF q = p THEN op'[q] = "none" /\ chan'[q] = NoChannel /\ pc'[q] = "idle"
          ELSE op'[q] = op[q] /\ chan'[q] = chan[q] /\ pc'[q] = pc[q]
      BY DEF Unlist, Succeed, Leave, TypeOK
<1>3. TaskInv' BY <1>1, <1>2 DEF TaskInv, Provisioning
<1>4. BornInv' BY <1>1 DEF BornInv
<1>5. RaceInv'
  <2>1. ASSUME NEW q \in Clients, op'[q] \in Providers, chan'[q] \notin listed'
        PROVE  chan'[q] \in raced'
    <3>1. q # p /\ op[q] \in Providers /\ chan'[q] = chan[q]
          BY <1>2, <2>1 DEF Providers
    <3>2. CASE chan[q] = chan[p]
      <4>1. op[q] \in Changing BY <3>1 DEF Providers, Changing, Ops
      <4> QED BY <1>1, <3>1, <3>2, <4>1 DEF RaceInv
    <3>3. CASE chan[q] # chan[p] BY <1>1, <2>1, <3>1, <3>3 DEF RaceInv
    <3> QED BY <3>2, <3>3
  <2>2. \A q, r \in Clients :
            q # r /\ chan'[q] = chan'[r] /\ op'[q] = "delete" /\ op'[r] \in Changing =>
                chan'[q] \in raced
        BY <1>2 DEF RaceInv, Changing
  <2>3. \A q \in Clients :
            pc'[q] = "unlist" /\ box[chan'[q]].state # "none" => chan'[q] \in raced
        BY <1>2 DEF RaceInv
  <2> QED BY <1>1, <2>1, <2>2, <2>3 DEF RaceInv
<1>6. LeftoverOnlyByRace'
  <2>1. box[chan[p]].state # "none" => chan[p] \in raced BY <1>1 DEF RaceInv
  <2> QED BY <1>1, <2>1 DEF LeftoverOnlyByRace
<1> QED BY <1>3, <1>4, <1>5, <1>6

LEMMA StepKeeps ==
    ASSUME Inductive, TypeOK', NEW p \in Clients, Step(p)
    PROVE  Inductive'
<1> USE DEF database, docker
<1>0. pc[p] # "idle" /\ TypeOK
      BY DEF Inductive, TypeOK, Step, Edit, EditFails, HaveImage, ClearOld, MakeBox,
             BootBox, ReadPort, Inject, Record, StopBox, StartBox, WriteStatus, RemoveBox,
             Unlist, CleanBox, Probe, WriteVerdict, DockerFails, WriteFails, Drop
<1>1. pc[p] \in Provisioning \cup {"edit"} => op[p] \in Providers
      BY DEF Inductive, TaskInv, Providers
<1>2. UNCHANGED box => NoNewBox(p) BY DEF NoNewBox
<1>3. \A b \in {Effect(p), box[chan[p]], NoBox} : Docker(p, b) => NoNewBox(p)
      BY <1>0, DockerMakesNone
<1>4. ASSUME NEW fields \in Fields, Edit(p, fields) PROVE Inductive'
  <2>1. UNCHANGED <<listed, born>> /\ NoNewBox(p) BY <1>2, <1>4 DEF Edit
  <2>2. CASE seen[p].box = 0 \/ fields = "none"
        BY <1>0, <1>4, <2>1, <2>2, LeaveKeeps DEF Edit
  <2>3. CASE ~(seen[p].box = 0 \/ fields = "none")
        BY <1>0, <1>1, <1>4, <2>1, <2>3, GotoKeeps DEF Edit, Labels, Provisioning
  <2> QED BY <2>2, <2>3
<1>5. CASE EditFails(p) BY <1>0, <1>2, <1>5, LeaveKeeps DEF EditFails, Fail
<1>6. CASE HaveImage(p)
      BY <1>0, <1>1, <1>2, <1>6, GotoKeeps DEF HaveImage, Labels, Provisioning
<1>7. CASE ClearOld(p)
      BY <1>0, <1>1, <1>3, <1>7, GotoKeeps DEF ClearOld, Labels, Provisioning
<1>8. CASE MakeBox(p)
      BY <1>0, <1>1, <1>3, <1>8, GotoKeeps DEF MakeBox, Labels, Provisioning
<1>9. CASE BootBox(p)
      BY <1>0, <1>1, <1>3, <1>9, GotoKeeps DEF BootBox, Labels, Provisioning
<1>10. CASE ReadPort(p)
      BY <1>0, <1>1, <1>2, <1>10, GotoKeeps DEF ReadPort, Labels, Provisioning
<1>11. CASE Inject(p)
      BY <1>0, <1>1, <1>3, <1>11, GotoKeeps DEF Inject, Labels, Provisioning
<1>12. CASE Record(p) BY <1>0, <1>2, <1>12, LeaveKeeps DEF Record, Succeed
<1>13. CASE StopBox(p) BY <1>0, <1>3, <1>13, GotoKeeps DEF StopBox, Labels, Provisioning
<1>14. CASE StartBox(p) BY <1>0, <1>3, <1>14, GotoKeeps DEF StartBox, Labels, Provisioning
<1>15. CASE WriteStatus(p) BY <1>0, <1>2, <1>15, LeaveKeeps DEF WriteStatus, Succeed
<1>16. CASE RemoveBox(p)
  <2>1. op[p] = "delete" BY <1>16 DEF RemoveBox, Inductive, TaskInv
  <2>2. Effect(p) = NoBox BY <1>16 DEF RemoveBox, Effect
  <2>3. box'[chan[p]].state = "none"
        BY <1>0, <1>16, <2>2, Working, Values DEF RemoveBox, Docker, TypeOK
  <2> QED BY <1>0, <1>3, <1>16, <2>1, <2>3, GotoKeeps DEF RemoveBox, Labels, Provisioning
<1>17. CASE Unlist(p) BY <1>17, UnlistKeeps
<1>18. CASE CleanBox(p) BY <1>0, <1>3, <1>18, LeaveKeeps DEF CleanBox, Fail
<1>19. ASSUME NEW ok \in BOOLEAN, Probe(p, ok) PROVE Inductive'
  <2>1. \A c \in Channels : box'[c].state = box[c].state
        BY <1>0, <1>19 DEF Probe, TypeOK, Box
  <2>2. NoNewBox(p) BY <2>1 DEF NoNewBox
  <2> QED BY <1>0, <1>19, <2>2, GotoKeeps DEF Probe, Labels, Provisioning
<1>20. CASE WriteVerdict(p) BY <1>0, <1>2, <1>20, LeaveKeeps DEF WriteVerdict
<1>21. CASE DockerFails(p) BY <1>0, <1>3, <1>21, LeaveKeeps DEF DockerFails, Fail
<1>22. CASE WriteFails(p) BY <1>0, <1>2, <1>22, LeaveKeeps DEF WriteFails, Fail
<1>23. CASE Drop(p) BY <1>0, <1>3, <1>23, LeaveKeeps DEF Drop, Fail
<1> QED BY <1>4, <1>5, <1>6, <1>7, <1>8, <1>9, <1>10, <1>11, <1>12, <1>13, <1>14, <1>15,
           <1>16, <1>17, <1>18, <1>19, <1>20, <1>21, <1>22, <1>23 DEF Step

-----------------------------------------------------------------------------
(* Tasks, containers and deletions belong together in every reachable state *)
(* (all handlers).                                                          *)
THEOREM InductiveInvariant == Spec => []Inductive
<1>1. Init => Inductive
  <2> SUFFICES ASSUME Init PROVE Inductive
    OBVIOUS
  <2>1. TypeOK BY InitTypes
  <2>2. TaskInv /\ RaceInv
        BY DEF Init, TaskInv, RaceInv, Provisioning, Providers
  <2>3. BornInv /\ LeftoverOnlyByRace
        BY Values DEF Init, BornInv, LeftoverOnlyByRace
  <2> QED BY <2>1, <2>2, <2>3 DEF Inductive
<1>2. Inductive /\ TypeOK' /\ [Next]_vars => Inductive'
  <2> SUFFICES ASSUME Inductive, TypeOK', [Next]_vars PROVE Inductive'
    OBVIOUS
  <2>1. CASE UNCHANGED vars
        BY <2>1 DEF vars, database, docker, locals, history, Inductive, TaskInv, BornInv,
                    RaceInv, LeftoverOnlyByRace
  <2>2. CASE Next BY <2>2, StepKeeps, RequestKeeps, ImportKeeps DEF Next
  <2> QED BY <2>1, <2>2
<1> QED BY <1>1, <1>2, TypeCorrect, PTL DEF Spec

(* A container without a channel is left behind only where a deletion and   *)
(* another change of the same channel raced, for any number of channels,    *)
(* requests, failures and dropped tasks (delete and the provisioning        *)
(* handlers).                                                               *)
THEOREM LeftoversComeFromRaces == Spec => []LeftoverOnlyByRace
<1>1. Inductive => LeftoverOnlyByRace BY DEF Inductive
<1> QED BY <1>1, InductiveInvariant, PTL

-----------------------------------------------------------------------------
(* Row and container in accord.                                             *)

(* What a step of a task leaves alone: the other channels and tasks.        *)
Elsewhere(p) ==
    /\ listed' \subseteq listed /\ \A c \in listed : c # chan[p] => c \in listed'
    /\ \A c \in Channels : c # chan[p] =>
          row'[c] = row[c] /\ box'[c] = box[c] /\ accord'[c] = accord[c]
    /\ \A q \in Clients : q # p =>
          /\ op'[q] = op[q] /\ chan'[q] = chan[q] /\ pc'[q] = pc[q]
          /\ seen'[q] = seen[q] /\ alone'[q] = alone[q]

LEMMA UpdateElsewhere ==
    ASSUME TypeOK, NEW p \in Clients, pc[p] # "idle", NEW r, UpdateRow(chan[p], r)
    PROVE  /\ \A c \in Channels : c # chan[p] => row'[c] = row[c]
           /\ row'[chan[p]] = IF chan[p] \in listed THEN r ELSE row[chan[p]]
BY Working DEF UpdateRow, TypeOK

LEMMA DockerElsewhere ==
    ASSUME TypeOK, NEW p \in Clients, pc[p] # "idle", NEW b, Docker(p, b)
    PROVE  /\ \A c \in Channels : c # chan[p] => box'[c] = box[c]
           /\ box'[chan[p]] = b
BY Working DEF Docker, TypeOK

LEMMA LeaveElsewhere ==
    ASSUME TypeOK, NEW p \in Clients, Leave(p)
    PROVE  \A q \in Clients :
              IF q = p THEN op'[q] = "none" /\ chan'[q] = NoChannel /\ pc'[q] = "idle"
              ELSE /\ op'[q] = op[q] /\ chan'[q] = chan[q] /\ pc'[q] = pc[q]
                   /\ seen'[q] = seen[q] /\ alone'[q] = alone[q]
BY DEF Leave, TypeOK

LEMMA GotoElsewhere ==
    ASSUME TypeOK, NEW p \in Clients, NEW l, Goto(p, l)
    PROVE  /\ \A q \in Clients : pc'[q] = IF q = p THEN l ELSE pc[q]
           /\ UNCHANGED <<op, chan, alone, accord>>
BY DEF Goto, TypeOK, history

(* The status of accord after a task's end.                                 *)
LEMMA SucceedElsewhere ==
    ASSUME TypeOK, NEW p \in Clients, pc[p] # "idle", Succeed(p)
    PROVE  /\ Leave(p) /\ \A c \in Channels : c # chan[p] => accord'[c] = accord[c]
           /\ accord'[chan[p]] = "agree" => accord[chan[p]] = "agree" \/ alone[p]
BY Working DEF Succeed, TypeOK

LEMMA FailElsewhere ==
    ASSUME TypeOK, NEW p \in Clients, pc[p] # "idle", Fail(p)
    PROVE  /\ Leave(p) /\ \A c \in Channels : c # chan[p] => accord'[c] = accord[c]
           /\ accord'[chan[p]] = "fault"
BY Working DEF Fail, TypeOK

(* Whoever changes an undisturbed channel does so alone, and a status       *)
(* request meets none that does.                                            *)
LEMMA NoCompany ==
    ASSUME TypeOK, AloneInv, NEW p \in Clients, NEW q \in Clients, p # q,
           op[p] # "none", op[q] # "none", chan[p] = chan[q], op[p] # "status"
    PROVE  ~alone[p] /\ ~alone[q] /\ accord[chan[p]] # "agree"
BY DEF AloneInv, At, TypeOK

(* A change goes on or ends.                                                *)
LEMMA ChangeStep ==
    ASSUME TypeOK, TypeOK', Accordance, NEW p \in Clients, op[p] \in Changing,
           Elsewhere(p),
           \/ op'[p] = "none"
           \/ /\ op'[p] = op[p] /\ chan'[p] = chan[p] /\ alone'[p] = alone[p]
              /\ accord'[chan[p]] = accord[chan[p]] /\ pc'[p] \notin Probing \cup {"edit"},
           accord'[chan[p]] = "agree" => accord[chan[p]] = "agree" \/ alone[p],
           box'[chan[p]].state # "none" => box'[chan[p]].id # 0,
           chan[p] \in listed' => row'[chan[p]].kind = row[chan[p]].kind,
           pc'[p] \in {"starting", "started"} => pc[p] \in {"starting", "started"},
           op'[p] # "none" /\ alone[p] /\ chan[p] \in listed' => Knows(p)',
           \A c \in listed' :
              c = chan[p] /\ op'[p] = "none" /\ accord'[c] = "agree" /\ alone[p] => InAccord(c)'
    PROVE  Accordance'
<1> USE DEF Accordance
<1> DEFINE c == chan[p]
<1>1. c \in Channels /\ op[p] # "none" /\ op[p] # "status"
      BY DEF TypeOK, Changing
<1>2. op'[p] = "none" => chan'[p] = NoChannel /\ pc'[p] = "idle"
      BY DEF TypeOK
<1>3. accord'[c] = "agree" => alone[p] BY <1>1 DEF AloneInv
<1>4. \A q \in Clients : q # p /\ op[q] # "none" /\ chan[q] = c =>
          ~alone[q] /\ ~alone[p] /\ accord'[c] # "agree"
      BY <1>1, <1>3, NoCompany
<1>5. ShapeInv'
  <2>1. \A q \in Clients : (op[q] = "status" <=> pc[q] \in Probing)'
        BY <1>1, <1>2 DEF Elsewhere, ShapeInv, Probing
  <2>2. \A d \in Channels : (box[d].state # "none" => box[d].id # 0)'
        BY DEF Elsewhere, ShapeInv
  <2> QED BY <2>1, <2>2 DEF ShapeInv
<1>6. AloneInv'
  <2>1. ASSUME NEW q \in Clients, op'[q] # "none", accord'[chan'[q]] = "agree"
        PROVE  alone'[q]
    <3>1. CASE q = p BY <1>3, <2>1, <3>1
    <3>2. CASE q # p
      <4>1. chan'[q] = chan[q] /\ op[q] # "none" /\ chan[q] \in Channels
            BY <2>1, <3>2 DEF Elsewhere, TypeOK
      <4>2. chan[q] # c BY <1>4, <2>1, <3>2, <4>1
      <4> QED BY <2>1, <3>2, <4>1, <4>2 DEF Elsewhere, AloneInv
    <3> QED BY <3>1, <3>2
  <2>2. ASSUME NEW q \in Clients, NEW r \in Clients, q # r, op'[q] # "none", alone'[q],
               chan'[q] = chan'[r]
        PROVE  op'[q] = "status" /\ op'[r] = "status"
    <3>1. op'[r] # "none" BY <2>2 DEF TypeOK
    <3>2. /\ op'[q] = op[q] /\ chan'[q] = chan[q] /\ alone'[q] = alone[q]
          /\ op'[r] = op[r] /\ chan'[r] = chan[r] /\ op[q] # "none"
          BY <2>2, <3>1 DEF Elsewhere
    <3>3. alone[q] /\ r \in At(chan[q]) \ {q} BY <2>2, <3>2 DEF At
    <3> QED BY <3>2, <3>3 DEF AloneInv
  <2> QED BY <2>1, <2>2 DEF AloneInv, At
<1>7. InPlaceInv'
  <2> SUFFICES ASSUME NEW q \in Clients, pc'[q] \in {"starting", "started"},
                      chan'[q] \in listed'
               PROVE  row'[chan'[q]].kind = "byo"
      BY DEF InPlaceInv
  <2>1. pc[q] \in {"starting", "started"} /\ chan'[q] = chan[q] /\ chan[q] \in listed
        BY <1>2 DEF Elsewhere
  <2>2. row[chan[q]].kind = "byo" /\ chan[q] \in Channels
        BY <2>1, Working DEF InPlaceInv
  <2> QED BY <2>1, <2>2 DEF Elsewhere
<1>8. KnowsInv'
  <2> SUFFICES ASSUME NEW q \in Clients, op'[q] \in Changing, alone'[q],
                      chan'[q] \in listed'
               PROVE  Knows(q)'
      BY DEF KnowsInv
  <2>1. op'[q] # "none" BY DEF Changing
  <2>2. CASE q = p BY <2>1, <2>2
  <2>3. CASE q # p
    <3>1. /\ op[q] = op'[q] /\ chan[q] = chan'[q] /\ pc[q] = pc'[q] /\ seen[q] = seen'[q]
          /\ alone[q] /\ chan[q] \in listed /\ chan[q] \in Channels
          BY <2>1, <2>3 DEF Elsewhere, TypeOK
    <3>2. chan[q] # c BY <1>4, <2>1, <2>3, <3>1
    <3>3. row'[chan[q]] = row[chan[q]] /\ box'[chan[q]] = box[chan[q]]
          BY <3>1, <3>2 DEF Elsewhere
    <3>4. Knows(q) BY <3>1 DEF KnowsInv
    <3> QED BY <3>1, <3>3, <3>4 DEF Knows, Kept
  <2> QED BY <2>2, <2>3
<1>9. ProbedInv'
  <2> SUFFICES ASSUME NEW q \in Clients, op'[q] = "status", chan'[q] \in listed',
                      accord'[chan'[q]] = "agree"
               PROVE  Probed(q)'
      BY DEF ProbedInv
  <2>1. q # p BY <1>1
  <2>2. /\ op[q] = "status" /\ chan[q] = chan'[q] /\ pc[q] = pc'[q]
        /\ seen[q] = seen'[q] /\ chan[q] \in listed /\ chan[q] \in Channels
        BY <2>1 DEF Elsewhere, TypeOK
  <2>3. chan[q] # c BY <1>4, <2>1, <2>2
  <2>4. box'[chan[q]] = box[chan[q]] /\ accord[chan[q]] = "agree"
        BY <2>2, <2>3 DEF Elsewhere
  <2>5. Probed(q) BY <2>2, <2>4 DEF ProbedInv
  <2> QED BY <2>2, <2>4, <2>5 DEF Probed, Kept
<1>10. AccordInv'
  <2> SUFFICES ASSUME NEW d \in listed', accord'[d] = "agree", Settled(d)'
               PROVE  InAccord(d)'
      BY DEF AccordInv
  <2>1. d \in listed /\ d \in Channels BY DEF Elsewhere, TypeOK
  <2>2. CASE d = c
    <3>1. CASE op'[p] = "none" 
          BY <1>3, <2>2, <3>1
    <3>2. CASE op'[p] # "none"
      <4>1. p \in ChangesAt(c)' BY <3>2 DEF ChangesAt, At
      <4> QED BY <2>2, <3>2, <4>1 DEF Settled
    <3> QED BY <3>1, <3>2
  <2>3. CASE d # c
    <3>1. row'[d] = row[d] /\ box'[d] = box[d] /\ accord[d] = "agree"
          BY <2>1, <2>3 DEF Elsewhere
    <3>2. \A q \in ChangesAt(d) : q \in ChangesAt(d)' /\ pc[q] = pc'[q]
          BY <2>3 DEF Elsewhere, ChangesAt, At
    <3>3. Settled(d) BY <3>2 DEF Settled
    <3>4. InAccord(d) BY <2>1, <3>1, <3>3 DEF AccordInv
    <3> QED BY <3>1, <3>4 DEF InAccord, Kept
  <2> QED BY <2>2, <2>3
<1> QED BY <1>5, <1>6, <1>7, <1>8, <1>9, <1>10

(* A status request goes on or ends.                                        *)
LEMMA StatusStep ==
    ASSUME TypeOK, TypeOK', Accordance, NEW p \in Clients, op[p] = "status",
           Elsewhere(p), listed' = listed, accord' = accord,
           \/ op'[p] = "none"
           \/ /\ op'[p] = op[p] /\ chan'[p] = chan[p] /\ alone'[p] = alone[p]
              /\ pc'[p] \in Probing,
           \A c \in Channels : c = chan[p] =>
              /\ row'[c].kind = row[c].kind /\ row'[c].box = row[c].box
              /\ row'[c].set = row[c].set
              /\ box'[c].state = box[c].state /\ box'[c].id = box[c].id
              /\ box'[c].set = box[c].set /\ (box[c].reached => box'[c].reached),
           op'[p] # "none" /\ chan[p] \in listed /\ accord[chan[p]] = "agree" => Probed(p)',
           \A c \in listed : c = chan[p] /\ accord[c] = "agree" /\ InAccord(c) => InAccord(c)'
    PROVE  Accordance'
<1> USE DEF Accordance
<1> DEFINE c == chan[p]
<1>1. c \in Channels /\ op[p] # "none" BY DEF TypeOK
<1>2. op'[p] = "none" => chan'[p] = NoChannel /\ pc'[p] = "idle"
      BY DEF TypeOK
<1>3. \A d \in Channels :
          /\ row'[d].kind = row[d].kind /\ row'[d].box = row[d].box
          /\ row'[d].set = row[d].set
          /\ box'[d].state = box[d].state /\ box'[d].id = box[d].id
          /\ box'[d].set = box[d].set /\ (box[d].reached => box'[d].reached)
      BY DEF Elsewhere
<1>4. \A q \in Clients : op[q] # "none" /\ op[q] # "status" /\ chan[q] = c =>
          ~alone[q] /\ accord[c] # "agree"
      BY <1>1, NoCompany
<1>5. ShapeInv'
  <2>1. \A q \in Clients : (op[q] = "status" <=> pc[q] \in Probing)'
        BY <1>1, <1>2 DEF Elsewhere, ShapeInv, Probing
  <2>2. \A d \in Channels : (box[d].state # "none" => box[d].id # 0)'
        BY <1>3 DEF ShapeInv
  <2> QED BY <2>1, <2>2 DEF ShapeInv
<1>6. AloneInv'
  <2>1. ASSUME NEW q \in Clients, op'[q] # "none"
        PROVE  /\ op[q] = op'[q] /\ chan'[q] = chan[q] /\ alone[q] = alone'[q]
               /\ chan[q] \in Channels
        BY <2>1 DEF Elsewhere, TypeOK
  <2>2. ASSUME NEW q \in Clients, op'[q] # "none", accord'[chan'[q]] = "agree"
        PROVE  alone'[q]
        BY <2>1, <2>2 DEF AloneInv
  <2>3. ASSUME NEW q \in Clients, NEW r \in Clients, q # r, op'[q] # "none", alone'[q],
               chan'[q] = chan'[r]
        PROVE  op'[q] = "status" /\ op'[r] = "status"
    <3>1. op'[r] # "none" BY <2>3 DEF TypeOK
    <3>2. op[q] = op'[q] /\ op[r] = op'[r] /\ alone[q] /\ r \in At(chan[q]) \ {q}
          BY <2>1, <2>3, <3>1 DEF At
    <3> QED BY <2>3, <3>2 DEF AloneInv
  <2> QED BY <2>2, <2>3 DEF AloneInv, At
<1>7. InPlaceInv'
  <2> SUFFICES ASSUME NEW q \in Clients, pc'[q] \in {"starting", "started"},
                      chan'[q] \in listed'
               PROVE  row'[chan'[q]].kind = "byo"
      BY DEF InPlaceInv
  <2>1. pc[q] \in {"starting", "started"} /\ chan'[q] = chan[q] /\ chan[q] \in listed
        BY <1>2 DEF Elsewhere, Probing
  <2>2. row[chan[q]].kind = "byo" /\ chan[q] \in Channels
        BY <2>1, Working DEF InPlaceInv
  <2> QED BY <1>3, <2>1, <2>2
<1>8. KnowsInv'
  <2> SUFFICES ASSUME NEW q \in Clients, op'[q] \in Changing, alone'[q],
                      chan'[q] \in listed'
               PROVE  Knows(q)'
      BY DEF KnowsInv
  <2>1. op'[q] # "none" /\ q # p BY DEF Changing
  <2>2. /\ op[q] = op'[q] /\ chan[q] = chan'[q] /\ pc[q] = pc'[q] /\ seen[q] = seen'[q]
        /\ alone[q] /\ chan[q] \in listed /\ chan[q] \in Channels
        BY <2>1 DEF Elsewhere, TypeOK
  <2>3. Knows(q) BY <2>2 DEF KnowsInv
  <2> QED BY <1>3, <2>2, <2>3 DEF Knows, Kept
<1>9. ProbedInv'
  <2> SUFFICES ASSUME NEW q \in Clients, op'[q] = "status", chan'[q] \in listed',
                      accord'[chan'[q]] = "agree"
               PROVE  Probed(q)'
      BY DEF ProbedInv
  <2>1. CASE q = p BY <2>1
  <2>2. CASE q # p
    <3>1. /\ op[q] = "status" /\ chan[q] = chan'[q] /\ pc[q] = pc'[q]
          /\ seen[q] = seen'[q] /\ chan[q] \in listed /\ chan[q] \in Channels
          BY <2>2 DEF Elsewhere, TypeOK
    <3>2. Probed(q) BY <3>1 DEF ProbedInv
    <3> QED BY <1>3, <3>1, <3>2 DEF Probed, Kept
  <2> QED BY <2>1, <2>2
<1>10. AccordInv'
  <2> SUFFICES ASSUME NEW d \in listed, accord[d] = "agree", Settled(d)'
               PROVE  InAccord(d)'
      BY DEF AccordInv
  <2>1. d \in Channels BY DEF TypeOK
  <2>2. \A q \in ChangesAt(d) : q \in ChangesAt(d)' /\ pc[q] = pc'[q]
        BY DEF Elsewhere, ChangesAt, At, Changing
  <2>3. InAccord(d) BY <2>2 DEF Settled, AccordInv
  <2>4. CASE d = c BY <2>3, <2>4
  <2>5. CASE d # c
    <3>1. row'[d] = row[d] /\ box'[d] = box[d] BY <2>1, <2>5 DEF Elsewhere
    <3> QED BY <2>3, <3>1 DEF InAccord, Kept
  <2> QED BY <2>4, <2>5
<1> QED BY <1>5, <1>6, <1>7, <1>8, <1>9, <1>10

(* A task begins.                                                           *)
LEMMA BeginStep ==
    ASSUME TypeOK, TypeOK', Accordance, NEW p \in Clients, NEW c \in Channels,
           NEW o \in Ops \ {"none"}, NEW l \in Labels \ {"idle"}, NEW r \in Row,
           Begin(p, c, o, l, r), UNCHANGED box,
           o = "status" <=> l \in Probing, l \notin {"proved", "started"},
           listed' \subseteq listed \cup {c}, listed \subseteq listed',
           \A d \in Channels : d # c => row'[d] = row[d],
           c \in listed' =>
              \/ c \in listed /\ row'[c] = row[c]
              \/ At(c) = {} /\ l # "edit",
           c \in listed' =>
              /\ l = "starting" => row'[c].kind = "byo"
              /\ l = "edit" => r.box = row'[c].box
              /\ l \in Provisioning => l = "image" /\ r.set = row'[c].set
              /\ l # "stopped"
              /\ o = "status" =>
                    c \in listed /\ row'[c] = row[c] /\ r.status = row[c].status
    PROVE  Accordance'
<1> USE DEF Accordance
<1> DEFINE clash == IF o = "status" THEN ChangesAt(c) # {} ELSE At(c) # {}
<1>0. clash \in BOOLEAN OBVIOUS
<1>1. \A q \in Clients :
          IF q = p THEN op'[q] = o /\ chan'[q] = c /\ pc'[q] = l /\ seen'[q] = r
          ELSE op'[q] = op[q] /\ chan'[q] = chan[q] /\ pc'[q] = pc[q] /\ seen'[q] = seen[q]
      BY DEF Begin, TypeOK
<1>2. \A q \in Clients :
          alone'[q] = IF q = p THEN ~clash ELSE alone[q] /\ ~(clash /\ q \in At(c))
      BY DEF Begin
<1>3. /\ \A d \in Channels : d # c => accord'[d] = accord[d]
      /\ accord'[c] = "agree" => accord[c] = "agree" /\ ~clash
      BY DEF Begin, TypeOK
<1> HIDE DEF clash
<1>4. op[p] = "none" BY DEF Begin
<1>5. ShapeInv' BY <1>1 DEF ShapeInv
<1>6. AloneInv'
  <2>1. ASSUME NEW q \in Clients, op'[q] # "none", accord'[chan'[q]] = "agree"
        PROVE  alone'[q]
    <3>1. CASE q = p BY <1>1, <1>2, <1>3, <2>1, <3>1
    <3>2. CASE q # p
      <4>1. chan'[q] = chan[q] /\ op[q] # "none" /\ chan[q] \in Channels
            BY <1>1, <2>1, <3>2 DEF TypeOK
      <4>2. accord[chan[q]] = "agree" BY <1>3, <2>1, <4>1
      <4>3. alone[q] BY <4>1, <4>2 DEF AloneInv
      <4>4. ~(clash /\ q \in At(c)) BY <1>3, <2>1, <4>1 DEF At
      <4> QED BY <1>2, <3>2, <4>3, <4>4
    <3> QED BY <3>1, <3>2
  <2>2. ASSUME NEW q \in Clients, NEW s \in Clients, q # s, op'[q] # "none", alone'[q],
               chan'[q] = chan'[s]
        PROVE  op'[q] = "status" /\ op'[s] = "status"
    <3>1. op'[s] # "none" BY <2>2 DEF TypeOK
    <3>2. CASE q = p
      <4>1. s \in At(c) /\ op[s] # "none" /\ op'[s] = op[s] /\ op[s] \in Ops
            BY <1>1, <2>2, <3>1, <3>2 DEF At, TypeOK
      <4>2. ~clash BY <1>2, <2>2, <3>2
      <4> QED BY <1>1, <3>2, <4>1, <4>2 DEF clash, ChangesAt, Changing
    <3>3. CASE s = p
      <4>1. q \in At(c) /\ op[q] # "none" /\ op'[q] = op[q] /\ op[q] \in Ops
            BY <1>1, <2>2, <3>1, <3>3 DEF At, TypeOK
      <4>2. ~clash BY <1>2, <2>2, <3>3, <4>1
      <4> QED BY <1>1, <3>3, <4>1, <4>2 DEF clash, ChangesAt, Changing
    <3>4. CASE q # p /\ s # p
      <4>1. /\ op[q] = op'[q] /\ op[s] = op'[s] /\ alone[q] /\ s \in At(chan[q]) \ {q}
            /\ op[q] # "none"
            BY <1>1, <1>2, <2>2, <3>4 DEF At
      <4> QED BY <4>1 DEF AloneInv
    <3> QED BY <3>2, <3>3, <3>4
  <2> QED BY <2>1, <2>2 DEF AloneInv, At
<1>7. InPlaceInv'
  <2> SUFFICES ASSUME NEW q \in Clients, pc'[q] \in {"starting", "started"},
                      chan'[q] \in listed'
               PROVE  row'[chan'[q]].kind = "byo"
      BY DEF InPlaceInv
  <2>1. CASE q = p BY <1>1, <2>1
  <2>2. CASE q # p
    <3>1. pc[q] \in {"starting", "started"} /\ chan'[q] = chan[q] /\ chan[q] \in Channels
          BY <1>1, <2>2, Working
    <3>2. chan[q] \in listed /\ row'[chan[q]] = row[chan[q]]
          BY <3>1 DEF At
    <3> QED BY <3>1, <3>2 DEF InPlaceInv
  <2> QED BY <2>1, <2>2
<1>8. KnowsInv'
  <2> SUFFICES ASSUME NEW q \in Clients, op'[q] \in Changing, alone'[q],
                      chan'[q] \in listed'
               PROVE  Knows(q)'
      BY DEF KnowsInv
  <2>1. CASE q = p
    <3>1. o # "status" /\ l \notin Probing BY <1>1, <2>1 DEF Changing
    <3> QED BY <1>1, <2>1, <3>1 DEF Knows, Kept, Provisioning, Probing
  <2>2. CASE q # p
    <3>1. /\ op[q] = op'[q] /\ chan[q] = chan'[q] /\ pc[q] = pc'[q] /\ seen[q] = seen'[q]
          /\ alone[q] /\ chan[q] \in Channels
          BY <1>1, <1>2, <2>2 DEF TypeOK, Changing
    <3>2. chan[q] \in listed /\ row'[chan[q]] = row[chan[q]]
          BY <3>1 DEF At
    <3>3. Knows(q) BY <3>1, <3>2 DEF KnowsInv
    <3> QED BY <3>1, <3>2, <3>3 DEF Knows, Kept
  <2> QED BY <2>1, <2>2
<1>9. ProbedInv'
  <2> SUFFICES ASSUME NEW q \in Clients, op'[q] = "status", chan'[q] \in listed',
                      accord'[chan'[q]] = "agree"
               PROVE  Probed(q)'
      BY DEF ProbedInv
  <2>1. CASE q = p
    <3>1. /\ o = "status" /\ c \in listed /\ accord[c] = "agree" /\ ~clash
          /\ seen'[p].status = row[c].status /\ pc'[p] # "proved" /\ chan'[p] = c
          BY <1>1, <1>3, <2>1
    <3>2. InAccord(c) BY <3>1 DEF clash, Settled, AccordInv
    <3> QED BY <2>1, <3>1, <3>2 DEF InAccord, Probed, Kept
  <2>2. CASE q # p
    <3>1. /\ op[q] = "status" /\ chan[q] = chan'[q] /\ pc[q] = pc'[q]
          /\ seen[q] = seen'[q] /\ chan[q] \in Channels
          BY <1>1, <2>2 DEF TypeOK
    <3>2. chan[q] \in listed /\ accord[chan[q]] = "agree"
          BY <1>3, <3>1 DEF At
    <3>3. Probed(q) BY <3>1, <3>2 DEF ProbedInv
    <3> QED BY <3>1, <3>2, <3>3 DEF Probed, Kept
  <2> QED BY <2>1, <2>2
<1>10. AccordInv'
  <2> SUFFICES ASSUME NEW d \in listed', accord'[d] = "agree", Settled(d)'
               PROVE  InAccord(d)'
      BY DEF AccordInv
  <2>1. d \in Channels BY DEF TypeOK
  <2>2. \A q \in ChangesAt(d) : q \in ChangesAt(d)' /\ pc[q] = pc'[q]
        BY <1>1, <1>4 DEF ChangesAt, At, Changing
  <2>3. Settled(d) BY <2>2 DEF Settled
  <2>4. accord[d] = "agree" BY <1>3, <2>1
  <2>5. CASE d \in listed /\ row'[d] = row[d]
    <3>1. InAccord(d) BY <2>3, <2>4, <2>5 DEF AccordInv
    <3> QED BY <2>5, <3>1 DEF InAccord, Kept
  <2>6. CASE d = c /\ At(c) = {} /\ l # "edit"
    <3>1. o = "status" => c \in listed /\ row'[c] = row[c] BY <2>6
    <3>2. CASE o # "status"
      <4>1. p \in ChangesAt(c)' /\ pc'[p] # "edit"
            BY <1>1, <2>6, <3>2 DEF ChangesAt, At, Changing
      <4> QED BY <2>6, <4>1 DEF Settled
    <3> QED BY <2>5, <2>6, <3>1, <3>2
  <2> QED BY <2>1, <2>5, <2>6
<1> QED BY <1>5, <1>6, <1>7, <1>8, <1>9, <1>10

(* A change goes on at the next label.                                      *)
LEMMA GotoAccords ==
    ASSUME TypeOK, TypeOK', Accordance, NEW p \in Clients, pc[p] # "idle",
           op[p] # "status", NEW l \in Labels \ (Probing \cup {"idle", "edit"}), Goto(p, l),
           UNCHANGED listed, NEW b, Docker(p, b) \/ (UNCHANGED box /\ b = box[chan[p]]),
           \A c \in Channels : c # chan[p] => row'[c] = row[c],
           row'[chan[p]].kind = row[chan[p]].kind,
           \A q \in Clients : q # p => seen'[q] = seen[q],
           b.state # "none" => b.id # 0,
           l \in {"starting", "started"} => pc[p] = "starting",
           alone[p] /\ chan[p] \in listed => Knows(p)'
    PROVE  Accordance'
<1>1. op[p] \in Changing BY Working DEF Changing
<1>2. /\ \A c \in Channels : c # chan[p] => box'[c] = box[c]
      /\ box'[chan[p]] = b
      BY DockerElsewhere
<1>3. /\ \A q \in Clients : pc'[q] = IF q = p THEN l ELSE pc[q]
      /\ UNCHANGED <<op, chan, alone, accord>>
      BY GotoElsewhere
<1>4. Elsewhere(p) BY <1>2, <1>3 DEF Elsewhere
<1>5. op'[p] # "none" BY <1>1, <1>3 DEF Changing
<1> QED BY <1>1, <1>2, <1>3, <1>4, <1>5, ChangeStep

(* A change fails.                                                          *)
LEMMA FailAccords ==
    ASSUME TypeOK, TypeOK', Accordance, NEW p \in Clients, pc[p] # "idle",
           op[p] # "status", Fail(p), UNCHANGED listed,
           NEW b, Docker(p, b) \/ (UNCHANGED box /\ b = box[chan[p]]),
           b.state # "none" => b.id # 0,
           UpdateRow(chan[p], row'[chan[p]]) \/ UNCHANGED row,
           row'[chan[p]].kind = row[chan[p]].kind
    PROVE  Accordance'
<1>1. op[p] \in Changing BY Working DEF Changing
<1>2. /\ \A c \in Channels : c # chan[p] => box'[c] = box[c]
      /\ box'[chan[p]] = b
      BY DockerElsewhere
<1>3. \A c \in Channels : c # chan[p] => row'[c] = row[c]
      BY UpdateElsewhere
<1>4. /\ Leave(p) /\ accord'[chan[p]] = "fault"
      /\ \A c \in Channels : c # chan[p] => accord'[c] = accord[c]
      BY FailElsewhere
<1>5. op'[p] = "none" /\ pc'[p] = "idle" /\ Elsewhere(p)
      BY <1>2, <1>3, <1>4, LeaveElsewhere DEF Elsewhere
<1> QED BY <1>1, <1>2, <1>4, <1>5, ChangeStep

(* A change succeeds.                                                       *)
LEMMA SucceedAccords ==
    ASSUME TypeOK, TypeOK', Accordance, NEW p \in Clients, pc[p] # "idle",
           op[p] # "status", Succeed(p), UNCHANGED box,
           listed' = listed \/ listed' = listed \ {chan[p]},
           \A c \in Channels : c # chan[p] => row'[c] = row[c],
           chan[p] \in listed' => row'[chan[p]].kind = row[chan[p]].kind,
           \A c \in listed' : c = chan[p] /\ alone[p] => InAccord(c)'
    PROVE  Accordance'
<1>1. op[p] \in Changing /\ chan[p] \in Channels BY Working DEF Changing
<1>2. box[chan[p]].state # "none" => box[chan[p]].id # 0
      BY <1>1 DEF Accordance, ShapeInv
<1>3. /\ Leave(p) /\ accord'[chan[p]] = "agree" => accord[chan[p]] = "agree" \/ alone[p]
      /\ \A c \in Channels : c # chan[p] => accord'[c] = accord[c]
      BY SucceedElsewhere
<1>4. Leave(p) BY DEF Succeed
<1>5. op'[p] = "none" /\ pc'[p] = "idle" /\ Elsewhere(p)
      BY <1>3, <1>4, LeaveElsewhere DEF Elsewhere
<1>6. accord'[chan[p]] = "agree" => accord[chan[p]] = "agree" \/ alone[p]
      BY SucceedElsewhere
<1> QED BY <1>1, <1>2, <1>5, <1>6, ChangeStep

(* A status request is dropped or could not write: nothing has changed.     *)
LEMMA StatusLeaves ==
    ASSUME TypeOK, TypeOK', Accordance, NEW p \in Clients, pc[p] # "idle",
           op[p] = "status", Leave(p), UNCHANGED <<listed, row, box, accord>>
    PROVE  Accordance'
<1>1. op'[p] = "none" /\ Elsewhere(p) BY LeaveElsewhere DEF Elsewhere
<1>2. \A c \in listed : InAccord(c) => InAccord(c)' BY DEF InAccord, Kept
<1> QED BY <1>1, <1>2, StatusStep

LEMMA RequestAccords ==
    ASSUME TypeOK, TypeOK', TaskInv, Accordance, NEW p \in Clients, NEW c \in Channels,
           Request(p, c)
    PROVE  Accordance'
<1> USE DEF database, docker
<1>1. ASSUME NEW kind \in Kinds, CreateChannel(p, c, kind) PROVE Accordance'
  <2> DEFINE r == [kind |-> kind, status |-> "creating", box |-> 0, set |-> FirstSettings(kind)]
             s == [r EXCEPT !.status = "stopped"]
  <2>1. /\ c \notin born /\ listed' = listed \cup {c} /\ UNCHANGED box
        /\ row' = [row EXCEPT ![c] = r] /\ Begin(p, c, "create", "image", s)
        BY <1>1 DEF CreateChannel
  <2>2. row'[c] = r /\ \A d \in Channels : d # c => row'[d] = row[d]
        BY <2>1 DEF TypeOK
  <2>3. At(c) = {} BY <2>1, NoChannelAssumption DEF At, TaskInv, TypeOK
  <2>4. r \in Row /\ s \in Row BY BoundsAssumption DEF Row, Statuses, FirstSettings
  <2>5. s.set = r.set OBVIOUS
  <2> HIDE DEF r, s
  <2>6. "create" \in Ops \ {"none"} /\ "image" \in Labels \ {"idle"}
        BY DEF Ops, Labels, Provisioning
  <2> QED BY <2>1, <2>2, <2>3, <2>4, <2>5, <2>6, BeginStep DEF Probing
<1>2. CASE NotFound(p, c)
  <2>1. UNCHANGED vars BY <1>2 DEF NotFound
  <2> QED BY <2>1 DEF vars, locals, history, Accordance, ShapeInv, AloneInv, InPlaceInv,
                      KnowsInv, Knows, ProbedInv, Probed, AccordInv, Settled, InAccord,
                      Kept, At, ChangesAt
<1>3. ASSUME NEW o \in Ops \ {"none"}, NEW l \in Labels \ {"idle"}, NEW r \in Row,
             Begin(p, c, o, l, r), UNCHANGED <<database, docker, edits>>,
             o = "status" <=> l \in Probing,
             l \notin {"proved", "started", "stopped"} \cup (Provisioning \ {"image"}),
             c \in listed =>
                /\ l = "starting" => row[c].kind = "byo"
                /\ l = "edit" => r.box = row[c].box
                /\ l = "image" => r.set = row[c].set
                /\ o = "status" => r.status = row[c].status,
             o = "status" => c \in listed
      PROVE  Accordance'
      BY <1>3, BeginStep
<1>4. row[c] \in Row BY DEF TypeOK
<1>5. CASE BeginUpdate(p, c)
  <2> DEFINE r == [row[c] EXCEPT !.status = "stopped"]
  <2>1. r \in Row BY ReadRows, Zenon
  <2>3. r.box = row[c].box BY <1>4 DEF Row
  <2>2. Begin(p, c, "update", "edit", r) /\ UNCHANGED <<database, docker, edits>>
        BY <1>5 DEF BeginUpdate, BeginOn
  <2> HIDE DEF r
  <2> QED BY <1>3, <2>1, <2>2, <2>3 DEF Ops, Labels, Provisioning, Probing
<1>6. CASE BeginStart(p, c)
  <2>1. CASE row[c].kind = "byo"
    <3>1. Begin(p, c, "start", "starting", Blank) /\ UNCHANGED <<database, docker, edits>>
          BY <1>6, <2>1 DEF BeginStart, BeginOn
    <3> QED BY <1>3, <2>1, <3>1, Values DEF Ops, Labels, Provisioning, Probing
  <2>2. CASE row[c].kind # "byo"
    <3> DEFINE r == [row[c] EXCEPT !.status = "stopped", !.box = 0]
    <3>1. Begin(p, c, "start", "image", r) /\ UNCHANGED <<database, docker, edits>>
          BY <1>6, <2>2 DEF BeginStart, BeginOn
    <3>2. r \in Row BY ReadRows, Zenon
    <3>3. r.set = row[c].set BY <1>4 DEF Row
    <3> HIDE DEF r
    <3> QED BY <1>3, <3>1, <3>2, <3>3 DEF Ops, Labels, Provisioning, Probing
  <2> QED BY <2>1, <2>2
<1>7. CASE BeginStop(p, c)
  <2>1. Begin(p, c, "stop", "stopping", Blank) /\ UNCHANGED <<database, docker, edits>>
        BY <1>7 DEF BeginStop, BeginOn
  <2> QED BY <1>3, <2>1, Values DEF Ops, Labels, Provisioning, Probing
<1>8. CASE BeginDelete(p, c)
  <2>1. Begin(p, c, "delete", "removing", Blank) /\ UNCHANGED <<database, docker, edits>>
        BY <1>8 DEF BeginDelete, BeginOn
  <2> QED BY <1>3, <2>1, Values DEF Ops, Labels, Provisioning, Probing
<1>9. CASE BeginStatus(p, c)
  <2> DEFINE r == [Blank EXCEPT !.status = row[c].status]
  <2>1. r \in Row BY ReadRows, Zenon
  <2>3. r.status = row[c].status BY DEF Blank
  <2>2. /\ c \in listed /\ Begin(p, c, "status", "probing", r)
        /\ UNCHANGED <<database, docker, edits>>
        BY <1>9 DEF BeginStatus, BeginOn
  <2> HIDE DEF r
  <2> QED BY <1>3, <2>1, <2>2, <2>3 DEF Ops, Labels, Provisioning, Probing
<1>10. ASSUME NEW unread \in BOOLEAN, BeginClean(p, c, unread) PROVE Accordance'
  <2>1. Begin(p, c, "clean", "cleaning", Blank) /\ UNCHANGED <<database, docker, edits>>
        BY <1>10 DEF BeginClean
  <2> QED BY <1>3, <2>1, Values DEF Ops, Labels, Provisioning, Probing
<1> QED BY <1>1, <1>2, <1>5, <1>6, <1>7, <1>8, <1>9, <1>10 DEF Request

LEMMA ImportAccords ==
    ASSUME TypeOK, TypeOK', TaskInv, BornInv, Accordance, NEW c \in Channels,
           NEW kind \in Kinds, ImportChannel(c, kind)
    PROVE  Accordance'
<1> USE DEF Accordance
<1> DEFINE r == [kind |-> kind, status |-> "stopped", box |-> 0, set |-> FirstSettings(kind)]
<1>1. /\ c \notin born /\ listed' = listed \cup {c} /\ row' = [row EXCEPT ![c] = r]
      /\ accord' = [accord EXCEPT ![c] = "agree"]
      /\ UNCHANGED <<box, op, chan, pc, seen, alone>>
      BY DEF ImportChannel, docker, locals
<1>2. /\ row'[c] = r /\ \A d \in Channels : d # c => row'[d] = row[d] /\ accord'[d] = accord[d]
      BY <1>1 DEF TypeOK
<1>3. \A q \in Clients : op[q] # "none" => chan[q] # c /\ chan[q] \in Channels
      BY <1>1 DEF TaskInv, TypeOK
<1>4. ShapeInv' BY <1>1 DEF ShapeInv
<1>5. AloneInv' BY <1>1, <1>2, <1>3 DEF AloneInv, At
<1>6. InPlaceInv'
  <2>1. \A q \in Clients : pc[q] \in {"starting", "started"} => op[q] # "none"
        BY Working
  <2> QED BY <1>1, <1>2, <1>3, <2>1 DEF InPlaceInv
<1>7. KnowsInv'
  <2> SUFFICES ASSUME NEW q \in Clients, op[q] \in Changing, alone[q],
                      chan[q] \in listed'
               PROVE  Knows(q)'
      BY <1>1 DEF KnowsInv
  <2>1. chan[q] \in listed /\ row'[chan[q]] = row[chan[q]]
        BY <1>1, <1>2, <1>3 DEF Changing
  <2>2. Knows(q) BY <2>1 DEF KnowsInv
  <2> QED BY <1>1, <2>1, <2>2 DEF Knows, Kept
<1>8. ProbedInv'
  <2> SUFFICES ASSUME NEW q \in Clients, op[q] = "status", chan[q] \in listed',
                      accord'[chan[q]] = "agree"
               PROVE  Probed(q)'
      BY <1>1 DEF ProbedInv
  <2>1. chan[q] \in listed /\ accord[chan[q]] = "agree" BY <1>1, <1>2, <1>3
  <2>2. Probed(q) BY <2>1 DEF ProbedInv
  <2> QED BY <1>1, <2>2 DEF Probed, Kept
<1>9. AccordInv'
  <2> SUFFICES ASSUME NEW d \in listed', accord'[d] = "agree", Settled(d)'
               PROVE  InAccord(d)'
      BY DEF AccordInv
  <2>1. d \in Channels BY DEF TypeOK
  <2>2. CASE d = c
    <3>1. box[c].state = "none" BY <1>1 DEF BornInv
    <3> QED BY <1>1, <1>2, <2>2, <3>1 DEF InAccord, Kept, Up
  <2>3. CASE d # c
    <3>1. d \in listed /\ row'[d] = row[d] /\ accord[d] = "agree"
          BY <1>1, <1>2, <2>1, <2>3
    <3>2. Settled(d) BY <1>1 DEF Settled, ChangesAt, At
    <3>3. InAccord(d) BY <3>1, <3>2 DEF AccordInv
    <3> QED BY <1>1, <3>1, <3>3 DEF InAccord, Kept
  <2> QED BY <2>2, <2>3
<1> QED BY <1>4, <1>5, <1>6, <1>7, <1>8, <1>9

(* A container that Docker has worked on has an id if it had one.           *)
LEMMA EffectId ==
    ASSUME TypeOK, ShapeInv, NEW p \in Clients, pc[p] # "idle"
    PROVE  \A b \in {Effect(p), box[chan[p]]} : b.state # "none" => b.id # 0
<1> DEFINE b == box[chan[p]]
<1>1. chan[p] \in Channels /\ b \in Box BY Working DEF TypeOK
<1>2. b.state # "none" => b.id # 0 BY <1>1 DEF ShapeInv
<1>3. Effect(p).state # "none" => Effect(p).id # 0
  <2>1. CASE pc[p] \in {"clear", "removing", "cleaning"}
        BY <2>1, Values DEF Effect
  <2>2. CASE pc[p] = "make" /\ b.state = "none" /\ made < MaxBox
    <3>1. Effect(p).id = made + 1 BY <2>2 DEF Effect, NewBox
    <3> QED BY <3>1, BoundsAssumption DEF TypeOK
  <2>3. CASE pc[p] \in {"boot", "starting"} /\ b.state # "none"
    <3>1. Effect(p) = [b EXCEPT !.state = "running"] BY <2>3 DEF Effect
    <3> QED BY <1>1, <1>2, <2>3, <3>1 DEF Box
  <2>4. CASE pc[p] = "inject" /\ b.state = "running"
    <3>1. Effect(p) = [b EXCEPT !.set = seen[p].set] BY <2>4 DEF Effect
    <3> QED BY <1>1, <1>2, <2>4, <3>1 DEF Box
  <2>5. CASE pc[p] = "stopping" /\ b.state = "running"
    <3>1. Effect(p) = [b EXCEPT !.state = "stopped"] BY <2>5 DEF Effect
    <3> QED BY <1>1, <1>2, <2>5, <3>1 DEF Box
  <2>6. CASE /\ ~(pc[p] \in {"clear", "removing", "cleaning"})
             /\ ~(pc[p] = "make" /\ b.state = "none" /\ made < MaxBox)
             /\ ~(pc[p] \in {"boot", "starting"} /\ b.state # "none")
             /\ ~(pc[p] = "inject" /\ b.state = "running")
             /\ ~(pc[p] = "stopping" /\ b.state = "running")
    <3>1. Effect(p) = b BY <2>6 DEF Effect
    <3> QED BY <1>2, <3>1
  <2> QED BY <2>1, <2>2, <2>3, <2>4, <2>5, <2>6
<1> QED BY <1>2, <1>3

(* Overwriting other columns keeps a row's kind.                            *)
LEMMA SameKind ==
    ASSUME NEW r \in Row, NEW s, NEW b, NEW v
    PROVE  /\ [r EXCEPT !.status = s].kind = r.kind
           /\ [r EXCEPT !.set = v].kind = r.kind
           /\ [r EXCEPT !.box = b, !.status = s].kind = r.kind
           /\ [r EXCEPT !.status = s].box = r.box
           /\ [r EXCEPT !.status = s].set = r.set
           /\ [r EXCEPT !.status = s].status = s
           /\ [r EXCEPT !.box = b, !.status = s].box = b
           /\ [r EXCEPT !.box = b, !.status = s].set = r.set
           /\ [r EXCEPT !.box = b, !.status = s].status = s
           /\ [r EXCEPT !.set = v].set = v
           /\ [r EXCEPT !.set = v].box = r.box
           /\ [r EXCEPT !.set = v].status = r.status
BY DEF Row

(* update: the settings are written; what was not up before runs nothing    *)
(* that is out of date.                                                     *)
LEMMA EditAccords ==
    ASSUME TypeOK, TypeOK', TaskInv, Accordance, NEW p \in Clients,
           NEW fields \in Fields, Edit(p, fields)
    PROVE  Accordance'
<1> DEFINE c == chan[p]
           given == fields = "given"
<1>1. pc[p] = "edit" /\ pc[p] # "idle" /\ op[p] = "update" /\ op[p] # "status"
      BY DEF Edit, TaskInv
<1>2. c \in Channels /\ row[c] \in Row BY <1>1, Working DEF TypeOK
<1>3. PICK v \in 0..MaxSet :
         /\ ~given => v = row[c].set
         /\ UpdateRow(c, [row[c] EXCEPT !.set = v])
  <2>1. given \in BOOLEAN /\ WriteSettings(p, given) BY DEF Edit
  <2> HIDE DEF given
  <2> QED BY <1>1, <2>1, SettingsWritten
<1> DEFINE r == [row[c] EXCEPT !.set = v]
<1>4. /\ \A d \in Channels : d # c => row'[d] = row[d]
      /\ row'[c] = IF c \in listed THEN r ELSE row[c]
      BY <1>1, <1>3, UpdateElsewhere
<1>5. UNCHANGED <<listed, box>> BY DEF Edit, docker
<1>6. r.kind = row[c].kind /\ r.set = v /\ r.box = row[c].box /\ r.status = row[c].status
      BY <1>2, SameKind
<1>7. box[c].state # "none" => box[c].id # 0 BY <1>2 DEF Accordance, ShapeInv
<1>8. CASE seen[p].box = 0 \/ fields = "none"
  <2>1. Leave(p) /\ UNCHANGED accord BY <1>8 DEF Edit
  <2>2. op'[p] = "none" /\ pc'[p] = "idle" /\ Elsewhere(p)
        BY <1>4, <1>5, <2>1, LeaveElsewhere DEF Elsewhere
  <2>3. ASSUME NEW d \in listed', d = c, accord'[d] = "agree", alone[p] PROVE InAccord(d)'
    <3>1. \A q \in ChangesAt(c) : q = p
          BY <1>1, <2>3, NoCompany DEF Accordance, ChangesAt, At, Changing
    <3>2. InAccord(c) BY <1>1, <1>5, <2>1, <2>3, <3>1 DEF Accordance, AccordInv, Settled
    <3>3. row'[d] = r /\ box'[d] = box[c] BY <1>4, <1>5, <2>3
    <3>4. CASE seen[p].box = 0
      <4>1. Knows(p) BY <1>1, <1>5, <2>3 DEF Accordance, KnowsInv, Changing, Ops
      <4>2. row[c].box = 0 BY <1>1, <3>4, <4>1 DEF Knows
      <4>3. ~(row[c].status \in Up /\ row[c].kind # "byo")
            BY <1>7, <3>2, <4>2 DEF InAccord, Kept
      <4> QED BY <1>6, <2>3, <3>2, <3>3, <4>3 DEF InAccord, Kept
    <3>5. CASE fields = "none"
      <4>1. r.set = row[c].set BY <1>3, <1>6, <3>5
      <4> QED BY <1>6, <2>3, <3>2, <3>3, <4>1 DEF InAccord, Kept
    <3> QED BY <1>8, <3>4, <3>5
  <2>4. op[p] \in Changing BY <1>1 DEF Changing, Ops
  <2> HIDE DEF r
  <2> QED BY <1>1, <1>4, <1>5, <1>6, <1>7, <2>1, <2>2, <2>3, <2>4, ChangeStep DEF Probing
<1>9. CASE ~(seen[p].box = 0 \/ fields = "none")
  <2>1. /\ Goto(p, "image") /\ c \in listed
        /\ seen' = [seen EXCEPT ![p].set = row'[c].set, ![p].box = 0]
        BY <1>9 DEF Edit
  <2>2. \A q \in Clients : q # p => seen'[q] = seen[q] BY <2>1 DEF TypeOK
  <2>3. seen'[p].set = row'[c].set BY <2>1 DEF TypeOK, Row
  <2>4. pc'[p] = "image" /\ chan'[p] = c BY <2>1, GotoElsewhere
  <2>5. Knows(p)' BY <1>4, <1>6, <2>1, <2>3, <2>4 DEF Knows
  <2> HIDE DEF r
  <2>6. "image" \in Labels \ (Probing \cup {"idle", "edit"})
        BY DEF Labels, Provisioning, Probing
  <2>7. row'[c].kind = row[c].kind BY <1>4, <1>6
  <2> QED BY <1>1, <1>4, <1>5, <1>7, <2>1, <2>2, <2>5, <2>6, <2>7, GotoAccords
<1> QED BY <1>8, <1>9

(* Any step of a task.                                                      *)
LEMMA StepAccords ==
    ASSUME TypeOK, TypeOK', TaskInv, Accordance, NEW p \in Clients, Step(p)
    PROVE  Accordance'
<1> USE DEF database, docker
<1> DEFINE c == chan[p]
           r == row[c]
           b == box[c]
<1>0. pc[p] # "idle"
      BY DEF TypeOK, Step, Edit, EditFails, HaveImage, ClearOld, MakeBox, BootBox,
             ReadPort, Inject, Record, StopBox, StartBox, WriteStatus, RemoveBox, Unlist,
             CleanBox, Probe, WriteVerdict, DockerFails, WriteFails, Drop
<1>1. c \in Channels /\ r \in Row /\ b \in Box /\ seen[p] \in Row
      BY <1>0, Working DEF TypeOK
<1>2. pc[p] \notin Probing => op[p] # "status" /\ op[p] \in Changing
      BY <1>0, Working DEF Accordance, ShapeInv, Changing
<1>3. \A x \in {Effect(p), b} : x.state # "none" => x.id # 0
      BY <1>0, EffectId DEF Accordance
<1>4. op[p] \in Changing /\ alone[p] /\ c \in listed => Knows(p)
      BY DEF Accordance, KnowsInv
<1>5. ASSUME UNCHANGED row
      PROVE  /\ row'[c] = r /\ row'[c].kind = r.kind
             /\ \A d \in Channels : d # c => row'[d] = row[d]
      BY <1>5
<1>6. ASSUME NEW s, UpdateRow(c, [r EXCEPT !.status = s])
      PROVE  /\ row'[c].kind = r.kind /\ row'[c].box = r.box /\ row'[c].set = r.set
             /\ c \in listed => row'[c].status = s
             /\ \A d \in Channels : d # c => row'[d] = row[d]
             /\ UpdateRow(c, row'[c])
  <2>1. /\ \A d \in Channels : d # c => row'[d] = row[d]
        /\ row'[c] = IF c \in listed THEN [r EXCEPT !.status = s] ELSE r
        BY <1>0, <1>6, UpdateElsewhere
  <2>2. UpdateRow(c, row'[c]) BY <1>6, <2>1 DEF UpdateRow
  <2> QED BY <1>1, <2>1, <2>2, SameKind
<1>6a. ASSUME NEW v, UpdateRow(c, [r EXCEPT !.set = v])
      PROVE  row'[c].kind = r.kind /\ UpdateRow(c, row'[c])
  <2>1. row'[c] = IF c \in listed THEN [r EXCEPT !.set = v] ELSE r
        BY <1>0, <1>6a, UpdateElsewhere
  <2>2. UpdateRow(c, row'[c]) BY <1>6a, <2>1 DEF UpdateRow
  <2> QED BY <1>1, <2>1, <2>2, SameKind
<1>7. UNCHANGED seen => \A q \in Clients : q # p => seen'[q] = seen[q]
      OBVIOUS
<1> HIDE DEF c, r, b
<1>8. ASSUME NEW fields \in Fields, Edit(p, fields) PROVE Accordance'
      BY <1>8, EditAccords
<1>9. CASE EditFails(p)
  <2>1. pc[p] \notin Probing /\ Fail(p) /\ UNCHANGED <<listed, box>>
        BY <1>9 DEF EditFails, Probing
  <2>2. (UpdateRow(c, row'[c]) \/ UNCHANGED row) /\ row'[c].kind = r.kind
    <3>1. PICK given \in BOOLEAN : WriteSettings(p, given) BY <1>9 DEF EditFails
    <3>2. PICK v : UpdateRow(c, [r EXCEPT !.set = v])
          BY <1>0, <3>1, SettingsWritten DEF c, r
    <3> QED BY <1>6a, <3>2
  <2> QED BY <1>0, <1>2, <1>3, <2>1, <2>2, FailAccords DEF b, c, r
<1>10. CASE HaveImage(p)
  <2>1. pc[p] = "image" /\ Goto(p, "clear") /\ UNCHANGED <<listed, row, box, seen>>
        BY <1>10 DEF HaveImage
  <2>2. pc'[p] = "clear" /\ UNCHANGED chan BY <2>1, GotoElsewhere
  <2>3. Knows(p) => Knows(p)' BY <2>1, <2>2 DEF Knows, Kept
  <2>4. op[p] # "status" /\ op[p] \in Changing BY <1>2, <2>1 DEF Probing
  <2>5. "clear" \in Labels \ (Probing \cup {"idle", "edit"})
        BY DEF Labels, Provisioning, Probing
  <2> QED BY <1>0, <1>3, <1>4, <1>5, <1>7, <2>1, <2>3, <2>4, <2>5, GotoAccords
             DEF b, c, r
<1>11. CASE ClearOld(p)
  <2>1. pc[p] = "clear" /\ Goto(p, "make") /\ UNCHANGED <<listed, row, seen>>
        BY <1>11 DEF ClearOld
  <2>2. PICK x \in {Effect(p), b} : Docker(p, x) BY <1>11 DEF ClearOld, b, c
  <2>3. pc'[p] = "make" /\ UNCHANGED chan BY <2>1, GotoElsewhere
  <2>4. Knows(p) => Knows(p)' BY <2>1, <2>3 DEF Knows
  <2>5. op[p] # "status" /\ op[p] \in Changing BY <1>2, <2>1 DEF Probing
  <2>6. "make" \in Labels \ (Probing \cup {"idle", "edit"})
        BY DEF Labels, Provisioning, Probing
  <2> QED BY <1>0, <1>3, <1>4, <1>5, <1>7, <2>1, <2>2, <2>4, <2>5, <2>6, GotoAccords
             DEF c, r
<1>12. CASE MakeBox(p)
  <2>1. /\ pc[p] = "make" /\ Goto(p, "boot") /\ UNCHANGED <<listed, row>>
        /\ Docker(p, Effect(p)) /\ seen' = [seen EXCEPT ![p].box = made + 1]
        /\ Effect(p) = NewBox(p)
        BY <1>12 DEF MakeBox, Effect
  <2>2. pc'[p] = "boot" /\ UNCHANGED chan BY <2>1, GotoElsewhere
  <2>3. /\ \A q \in Clients : q # p => seen'[q] = seen[q]
        /\ seen'[p].box = made + 1 /\ seen'[p].kind = seen[p].kind
        BY <1>1, <2>1 DEF TypeOK, Row
  <2>4. /\ box'[c].id = made + 1
        /\ box'[c].set = IF seen[p].kind = "oss" THEN 0 ELSE seen[p].set
        BY <1>0, <2>1, DockerElsewhere DEF NewBox, c
  <2>5. Knows(p) => Knows(p)' BY <2>1, <2>2, <2>3, <2>4 DEF Knows, c
  <2>6. op[p] # "status" /\ op[p] \in Changing BY <1>2, <2>1 DEF Probing
  <2>7. "boot" \in Labels \ (Probing \cup {"idle", "edit"})
        BY DEF Labels, Provisioning, Probing
  <2> QED BY <1>0, <1>3, <1>4, <1>5, <2>1, <2>3, <2>5, <2>6, <2>7, GotoAccords
             DEF c, r
<1>13. CASE BootBox(p)
  <2>1. /\ pc[p] = "boot" /\ UNCHANGED <<listed, row>> /\ Docker(p, Effect(p))
        /\ Effect(p) = [b EXCEPT !.state = "running"]
        BY <1>13 DEF BootBox, Effect, b, c
  <2>2. box'[c].id = b.id /\ box'[c].set = b.set
        BY <1>0, <1>1, <2>1, DockerElsewhere DEF c, Box
  <2>3. op[p] # "status" /\ op[p] \in Changing BY <1>2, <2>1 DEF Probing
  <2>4. "inject" \in Labels \ (Probing \cup {"idle", "edit"})
        BY DEF Labels, Provisioning, Probing
  <2>5. "port" \in Labels \ (Probing \cup {"idle", "edit"})
        BY DEF Labels, Provisioning, Probing
  <2>6. CASE seen[p].kind = "oss"
    <3>1. Goto(p, "inject") /\ seen' = [seen EXCEPT ![p].set = row[c].set]
          BY <1>13, <2>6 DEF BootBox, c
    <3>2. pc'[p] = "inject" /\ UNCHANGED chan BY <3>1, GotoElsewhere
    <3>3. /\ \A q \in Clients : q # p => seen'[q] = seen[q]
          /\ seen'[p].box = seen[p].box /\ seen'[p].set = r.set
          BY <1>1, <3>1 DEF TypeOK, Row, r
    <3>4. Knows(p) => Knows(p)' BY <2>1, <2>2, <3>2, <3>3 DEF Knows, b, c, r
    <3> QED BY <1>0, <1>3, <1>4, <1>5, <2>1, <2>3, <2>4, <3>1, <3>3, <3>4, GotoAccords
               DEF c, r
  <2>7. CASE seen[p].kind # "oss"
    <3>1. Goto(p, "port") /\ UNCHANGED seen BY <1>13, <2>7 DEF BootBox
    <3>2. pc'[p] = "port" /\ UNCHANGED chan BY <3>1, GotoElsewhere
    <3>3. Knows(p) => Knows(p)' BY <2>1, <2>2, <2>7, <3>1, <3>2 DEF Knows, b, c
    <3> QED BY <1>0, <1>3, <1>4, <1>5, <1>7, <2>1, <2>3, <2>5, <3>1, <3>3, GotoAccords
               DEF c, r
  <2> QED BY <2>6, <2>7
<1>14. CASE ReadPort(p)
  <2>1. /\ pc[p] = "port" /\ Goto(p, "record") /\ UNCHANGED <<listed, row, box, seen>>
        /\ Kept(c)
        BY <1>14 DEF ReadPort, Kept, c
  <2>2. pc'[p] = "record" /\ UNCHANGED chan BY <2>1, GotoElsewhere
  <2>3. Knows(p) => Knows(p)' BY <2>1, <2>2 DEF Knows, Kept, c
  <2>4. op[p] # "status" /\ op[p] \in Changing BY <1>2, <2>1 DEF Probing
  <2>5. "record" \in Labels \ (Probing \cup {"idle", "edit"})
        BY DEF Labels, Provisioning, Probing
  <2> QED BY <1>0, <1>3, <1>4, <1>5, <1>7, <2>1, <2>3, <2>4, <2>5, GotoAccords
             DEF b, c, r
<1>15. CASE Inject(p)
  <2>1. /\ pc[p] = "inject" /\ Goto(p, "record") /\ UNCHANGED <<listed, row, seen>>
        /\ Docker(p, Effect(p)) /\ Effect(p) = [b EXCEPT !.set = seen[p].set]
        /\ b.state = "running"
        BY <1>15 DEF Inject, Effect, b, c
  <2>2. pc'[p] = "record" /\ UNCHANGED chan BY <2>1, GotoElsewhere
  <2>3. box'[c].id = b.id /\ box'[c].set = seen[p].set /\ box'[c].state = "running"
        BY <1>0, <1>1, <2>1, DockerElsewhere DEF c, Box
  <2>4. Knows(p) => Knows(p)' BY <2>1, <2>2, <2>3 DEF Knows, Kept, b, c
  <2>5. op[p] # "status" /\ op[p] \in Changing BY <1>2, <2>1 DEF Probing
  <2>6. "record" \in Labels \ (Probing \cup {"idle", "edit"})
        BY DEF Labels, Provisioning, Probing
  <2> QED BY <1>0, <1>3, <1>4, <1>5, <1>7, <2>1, <2>4, <2>5, <2>6, GotoAccords
             DEF c, r
<1>16. CASE StopBox(p)
  <2>1. /\ pc[p] = "stopping" /\ Goto(p, "stopped") /\ UNCHANGED <<listed, row, seen>>
        /\ Docker(p, Effect(p))
        BY <1>16 DEF StopBox
  <2>2. pc'[p] = "stopped" /\ UNCHANGED chan BY <2>1, GotoElsewhere
  <2>3. Effect(p).state # "running" BY <1>1, <2>1 DEF Effect, Box, b, c
  <2>4. Knows(p)'
    <3>1. box'[c].state # "running" BY <1>0, <2>1, <2>3, DockerElsewhere DEF c
    <3> QED BY <2>2, <3>1 DEF Knows, Kept, c
  <2>5. op[p] # "status" BY <1>2, <2>1 DEF Probing
  <2>6. "stopped" \in Labels \ (Probing \cup {"idle", "edit"})
        BY DEF Labels, Provisioning, Probing
  <2> QED BY <1>0, <1>3, <1>5, <1>7, <2>1, <2>4, <2>5, <2>6, GotoAccords DEF c, r
<1>17. CASE StartBox(p)
  <2>1. /\ pc[p] = "starting" /\ Goto(p, "started") /\ UNCHANGED <<listed, row, seen>>
        /\ Docker(p, Effect(p)) /\ Effect(p) = [b EXCEPT !.state = "running"]
        BY <1>17 DEF StartBox, Effect, b, c
  <2>2. pc'[p] = "started" /\ UNCHANGED chan BY <2>1, GotoElsewhere
  <2>3. Knows(p)'
    <3>1. box'[c].state = "running" BY <1>0, <1>1, <2>1, DockerElsewhere DEF Box, c
    <3> QED BY <2>2, <3>1 DEF Knows, Kept, c
  <2>4. op[p] # "status" BY <1>2, <2>1 DEF Probing
  <2>5. "started" \in Labels \ (Probing \cup {"idle", "edit"})
        BY DEF Labels, Provisioning, Probing
  <2> QED BY <1>0, <1>3, <1>5, <1>7, <2>1, <2>3, <2>4, <2>5, GotoAccords DEF c, r
<1>18. CASE RemoveBox(p)
  <2>1. /\ pc[p] = "removing" /\ Goto(p, "unlist") /\ UNCHANGED <<listed, row, seen>>
        /\ Docker(p, Effect(p))
        BY <1>18 DEF RemoveBox
  <2>2. pc'[p] = "unlist" BY <2>1, GotoElsewhere
  <2>3. Knows(p)' BY <2>2 DEF Knows
  <2>4. op[p] # "status" BY <1>2, <2>1 DEF Probing
  <2>5. "unlist" \in Labels \ (Probing \cup {"idle", "edit"})
        BY DEF Labels, Provisioning, Probing
  <2> QED BY <1>0, <1>3, <1>5, <1>7, <2>1, <2>3, <2>4, <2>5, GotoAccords DEF c, r
<1>19. CASE Record(p)
  <2> DEFINE u == [r EXCEPT !.box = seen[p].box, !.status = "running"]
  <2>1. /\ pc[p] = "record" /\ Succeed(p) /\ UNCHANGED <<listed, box>>
        /\ UpdateRow(c, u)
        BY <1>19 DEF Record, c, r
  <2>2. /\ u.kind = r.kind /\ u.box = seen[p].box /\ u.set = r.set
        /\ u.status = "running"
        BY <1>1, SameKind
  <2> HIDE DEF u
  <2>3. /\ \A d \in Channels : d # c => row'[d] = row[d]
        /\ row'[c] = IF c \in listed THEN u ELSE r
        BY <1>0, <2>1, UpdateElsewhere DEF c, r
  <2>4. op[p] # "status" /\ op[p] \in Changing BY <1>2, <2>1 DEF Probing
  <2>5. ASSUME NEW d \in listed', d = c, alone[p] PROVE InAccord(d)'
    <3>1. Knows(p) /\ row'[d] = u /\ box'[d] = b BY <1>4, <2>1, <2>3, <2>4, <2>5 DEF b
    <3>2. b.state = "running" /\ b.id = seen[p].box /\ b.set = r.set
          BY <2>1, <3>1 DEF Knows, Kept, b, c, r
    <3> QED BY <2>2, <3>1, <3>2 DEF InAccord, Kept, Up
  <2> QED BY <1>0, <2>1, <2>2, <2>3, <2>4, <2>5, SucceedAccords DEF c, r
<1>20. CASE WriteStatus(p)
  <2> DEFINE s == IF pc[p] = "started" THEN "running" ELSE "stopped"
  <2>1. /\ pc[p] \in {"started", "stopped"} /\ Succeed(p) /\ UNCHANGED <<listed, box>>
        /\ UpdateRow(c, [r EXCEPT !.status = s])
        BY <1>20 DEF WriteStatus, c, r
  <2>2. /\ row'[c].kind = r.kind /\ c \in listed => row'[c].status = s
        /\ \A d \in Channels : d # c => row'[d] = row[d]
        BY <1>6, <2>1
  <2>3. row'[c].kind = r.kind BY <1>6, <2>1
  <2>4. op[p] # "status" /\ op[p] \in Changing BY <1>2, <2>1 DEF Probing
  <2>5. ASSUME NEW d \in listed', d = c, alone[p] PROVE InAccord(d)'
    <3>1. Knows(p) /\ row'[d].status = s /\ box'[d] = b /\ row'[d].kind = r.kind
          BY <1>4, <2>1, <2>2, <2>3, <2>4, <2>5 DEF b
    <3>2. CASE pc[p] = "started"
      <4>1. b.state = "running" BY <3>1, <3>2 DEF Knows, Kept, b, c
      <4>2. r.kind = "byo" BY <2>1, <2>5, <3>2 DEF Accordance, InPlaceInv, c, r
      <4> QED BY <3>1, <3>2, <4>1, <4>2 DEF InAccord, Kept, Up
    <3>3. CASE pc[p] = "stopped"
      <4>1. b.state # "running" BY <3>1, <3>3 DEF Knows, Kept, b, c
      <4> QED BY <3>1, <3>3, <4>1 DEF InAccord, Kept, Up
    <3> QED BY <2>1, <3>2, <3>3
  <2> QED BY <1>0, <2>1, <2>2, <2>3, <2>4, <2>5, SucceedAccords DEF c, r
<1>21. CASE Unlist(p)
  <2>1. /\ pc[p] = "unlist" /\ Succeed(p) /\ UNCHANGED box /\ listed' = listed \ {c}
        /\ row' = [row EXCEPT ![c] = Blank]
        BY <1>21 DEF Unlist, c
  <2>2. \A d \in Channels : d # c => row'[d] = row[d] BY <2>1 DEF TypeOK
  <2>3. op[p] # "status" BY <1>2, <2>1 DEF Probing
  <2> QED BY <1>0, <2>1, <2>2, <2>3, SucceedAccords DEF c
<1>22. CASE CleanBox(p)
  <2>1. /\ pc[p] = "cleaning" /\ Fail(p) /\ UNCHANGED <<listed, row>>
        /\ Docker(p, Effect(p))
        BY <1>22 DEF CleanBox
  <2>2. op[p] # "status" BY <1>2, <2>1 DEF Probing
  <2> QED BY <1>0, <1>3, <2>1, <2>2, FailAccords
<1>23. ASSUME NEW ok \in BOOLEAN, Probe(p, ok) PROVE Accordance'
  <2> DEFINE l == IF ok THEN "proved" ELSE "unproved"
  <2>1. /\ pc[p] = "probing" /\ Goto(p, l) /\ UNCHANGED <<listed, row, seen>>
        /\ ok => b.state = "running"
        /\ box' = [box EXCEPT ![c].reached = @ \/ ok]
        BY <1>23 DEF Probe, b, c
  <2>2. /\ \A q \in Clients : pc'[q] = IF q = p THEN l ELSE pc[q]
        /\ UNCHANGED <<op, chan, alone, accord>>
        BY <2>1, GotoElsewhere
  <2>3. /\ \A d \in Channels : d # c => box'[d] = box[d]
        /\ box'[c].state = b.state /\ box'[c].id = b.id /\ box'[c].set = b.set
        /\ (b.reached => box'[c].reached) /\ (ok => box'[c].reached)
        BY <1>1, <2>1 DEF TypeOK, Box, b
  <2>4. op[p] = "status" BY <2>1 DEF Accordance, ShapeInv, Probing
  <2>5. Elsewhere(p) BY <2>1, <2>2, <2>3 DEF Elsewhere, c
  <2>6. c \in listed /\ accord[c] = "agree" => Probed(p)'
    <3> SUFFICES ASSUME c \in listed, accord[c] = "agree" PROVE Probed(p)'
      OBVIOUS
    <3>1. Probed(p) BY <2>4 DEF Accordance, ProbedInv, c
    <3> QED BY <2>1, <2>2, <2>3, <3>1 DEF Probed, Kept, b, c
  <2>7. \A d \in listed : d = c /\ InAccord(d) => InAccord(d)'
        BY <2>1, <2>3 DEF InAccord, Kept, b
  <2>8. pc'[p] \in Probing BY <2>2 DEF Probing
  <2> QED BY <2>1, <2>2, <2>3, <2>4, <2>5, <2>6, <2>7, <2>8, StatusStep DEF b, c
<1>24. CASE WriteVerdict(p)
  <2>1. /\ pc[p] \in {"proved", "unproved"} /\ Leave(p) /\ UNCHANGED <<listed, box, accord>>
        /\ UpdateRow(c, [r EXCEPT !.status = Verdict(p)])
        BY <1>24 DEF WriteVerdict, c, r
  <2>2. /\ row'[c].kind = r.kind /\ row'[c].box = r.box /\ row'[c].set = r.set
        /\ c \in listed => row'[c].status = Verdict(p)
        BY <1>6, <2>1
  <2>3. \A d \in Channels : d # c => row'[d] = row[d] BY <1>6, <2>1
  <2>4. op[p] = "status" BY <2>1 DEF Accordance, ShapeInv, Probing
  <2>5. op'[p] = "none" /\ Elsewhere(p)
        BY <2>1, <2>3, LeaveElsewhere DEF Elsewhere, c
  <2>6. ASSUME NEW d \in listed, d = c, accord[d] = "agree", InAccord(d)
        PROVE  InAccord(d)'
    <3>1. Probed(p) BY <2>4, <2>6 DEF Accordance, ProbedInv, c
    <3>2. /\ row'[d].status = Verdict(p) /\ row'[d].kind = row[d].kind
          /\ row'[d].set = row[d].set /\ row'[d].box = row[d].box /\ box'[d] = box[d]
          BY <2>1, <2>2, <2>6 DEF r
    <3>3. Verdict(p) \in Up <=> seen[p].status \in Up \/ pc[p] = "proved"
          BY DEF Verdict, Up
    <3>4. /\ Verdict(p) # "creating"
          /\ Verdict(p) = "logged_in" => pc[p] = "proved"
          BY <3>1 DEF Verdict, Probed
    <3> QED BY <2>6, <3>1, <3>2, <3>3, <3>4 DEF InAccord, Probed, Kept, c
  <2> QED BY <1>0, <2>1, <2>2, <2>3, <2>4, <2>5, <2>6, StatusStep DEF c, r
<1>25. CASE DockerFails(p)
  <2>1. /\ pc[p] \notin Probing /\ Fail(p) /\ UNCHANGED listed
        /\ UpdateRow(c, [r EXCEPT !.status = "error"]) \/ UNCHANGED row
        BY <1>25 DEF DockerFails, Probing, c, r
  <2>2. PICK x \in {Effect(p), b} : Docker(p, x) BY <1>25 DEF DockerFails, b, c
  <2>3. (UpdateRow(c, row'[c]) \/ UNCHANGED row) /\ row'[c].kind = r.kind
        BY <1>5, <1>6, <2>1
  <2> QED BY <1>0, <1>2, <1>3, <2>1, <2>2, <2>3, FailAccords DEF c, r
<1>26. CASE WriteFails(p)
  <2>1. UNCHANGED <<listed, row, box>> BY <1>26 DEF WriteFails
  <2>2. CASE op[p] = "status"
        BY <1>0, <1>26, <2>1, <2>2, StatusLeaves DEF WriteFails
  <2>3. CASE op[p] # "status"
    <3>1. Fail(p) BY <1>26, <2>3 DEF WriteFails
    <3> QED BY <1>0, <1>3, <2>1, <2>3, <3>1, FailAccords DEF b, c
  <2> QED BY <2>2, <2>3
<1>27. CASE Drop(p)
  <2>1. UNCHANGED <<listed, row>> BY <1>27 DEF Drop
  <2>2. PICK x \in {Effect(p), b} : Docker(p, x) BY <1>27 DEF Drop, b, c
  <2>3. CASE op[p] = "status"
    <3>1. Effect(p) = b
          BY <2>3 DEF Accordance, ShapeInv, Probing, Effect, b, c
    <3>2. Leave(p) /\ UNCHANGED accord BY <1>27, <2>3 DEF Drop
    <3>3. UNCHANGED box BY <2>2, <3>1 DEF Docker, TypeOK, b, c
    <3> QED BY <1>0, <2>1, <2>3, <3>2, <3>3, StatusLeaves
  <2>4. CASE op[p] # "status"
    <3>1. Fail(p) BY <1>27, <2>4 DEF Drop
    <3> QED BY <1>0, <1>3, <2>1, <2>2, <2>4, <3>1, FailAccords
  <2> QED BY <2>3, <2>4
<1> QED BY <1>8, <1>9, <1>10, <1>11, <1>12, <1>13, <1>14, <1>15, <1>16, <1>17, <1>18, <1>19,
           <1>20, <1>21, <1>22, <1>23, <1>24, <1>25, <1>26, <1>27 DEF Step

-----------------------------------------------------------------------------
(* What undisturbed requests know of row and container, and what row and    *)
(* container say of each other, is so in every reachable state (all         *)
(* handlers).                                                               *)
THEOREM AccordInvariant == Spec => []Accordance
<1>1. Init => Accordance
  <2> SUFFICES ASSUME Init PROVE Accordance
    OBVIOUS
  <2>1. ShapeInv BY Values DEF Init, ShapeInv, Probing
  <2>2. AloneInv /\ InPlaceInv /\ KnowsInv /\ ProbedInv /\ AccordInv
        BY DEF Init, AloneInv, InPlaceInv, KnowsInv, ProbedInv, AccordInv, Changing
  <2> QED BY <2>1, <2>2 DEF Accordance
<1>2. Inductive /\ TypeOK' /\ Accordance /\ [Next]_vars => Accordance'
  <2> SUFFICES ASSUME TypeOK, TaskInv, BornInv, TypeOK', Accordance, [Next]_vars
               PROVE  Accordance'
      BY DEF Inductive
  <2>1. CASE UNCHANGED vars
        BY <2>1 DEF vars, database, docker, locals, history, Accordance, ShapeInv,
                    AloneInv, InPlaceInv, KnowsInv, Knows, ProbedInv, Probed, AccordInv,
                    Settled, InAccord, Kept, At, ChangesAt
  <2>2. CASE Next BY <2>2, StepAccords, RequestAccords, ImportAccords DEF Next
  <2> QED BY <2>1, <2>2
<1> QED BY <1>1, <1>2, TypeCorrect, InductiveInvariant, PTL DEF Spec

LEMMA AgreedChannels ==
    ASSUME Accordance
    PROVE  \A c \in listed : accord[c] = "agree" /\ Quiet(c) => InAccord(c)
BY DEF Accordance, AccordInv, Settled, Quiet

(* After a request that nothing disturbed the row's status is what Docker   *)
(* does, for any number of channels, requests, failures and dropped tasks,  *)
(* and however many status requests overlap (create, update, start, stop,   *)
(* status).                                                                 *)
THEOREM StatusIsHonest == Spec => []StatusHonest
<1>1. Accordance => StatusHonest BY AgreedChannels DEF StatusHonest, InAccord
<1> QED BY <1>1, AccordInvariant, PTL

(* A channel is said to be logged in only if a probe got through the very   *)
(* container it has (status, set_container).                                *)
THEOREM LoginsAreFresh == Spec => []LoginIsFresh
<1>1. Accordance => LoginIsFresh BY AgreedChannels DEF LoginIsFresh, InAccord
<1> QED BY <1>1, AccordInvariant, PTL

(* A channel that is up runs the container on record with the newest        *)
(* settings (update, provision).                                            *)
THEOREM SettingsAreInForce == Spec => []SettingsInForce
<1>1. Accordance => SettingsInForce BY AgreedChannels DEF SettingsInForce, InAccord
<1> QED BY <1>1, AccordInvariant, PTL

=============================================================================
