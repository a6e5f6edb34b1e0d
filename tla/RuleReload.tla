----------------------------- MODULE RuleReload -----------------------------
(***************************************************************************)
(* Hot reload of the split-routing rules (desktop/core: manager::rebuild,  *)
(* the handlers of api.rs that end in it, infra::ensure_mihomo).           *)
(*                                                                         *)
(* The SQLite database is the truth.  A configuration is derived from it   *)
(* and travels through three copies: the working copy on the host, the     *)
(* file in the mihomo container, and what the running mihomo has loaded.   *)
(* Handlers run concurrently, one task per HTTP request; each commits its  *)
(* change and then runs rebuild, which a mutex serialises.  Any step can   *)
(* fail, the client can go away (the task is dropped at its await), the    *)
(* process and mihomo can die.                                             *)
(*                                                                         *)
(* A configuration is abstracted to the set of channels that got a proxy   *)
(* entry, the set of enabled rules, and whether the keys rebuild does not  *)
(* manage (dns, listeners, controller secret) are in it.  The order of the *)
(* rules inside one configuration is not modelled here.                    *)
(***************************************************************************)
EXTENDS Naturals, FiniteSets

CONSTANTS
    Channels,  \* channel ids, drawn at random by create and import
    Patterns,  \* normalised (kind, pattern) pairs
    Clients,   \* HTTP request tasks that can be in flight at a time
    Boot,      \* the boot task of the desktop shell
    Free,      \* the rebuild lock when nobody holds it
    NoChannel, \* a task that works on no channel
    MaxVer     \* bound on the number of database commits

Procs == Clients \cup {Boot}

ASSUME ProcsAssumption == Boot \notin Clients /\ Free \notin Procs
ASSUME NoChannelAssumption == NoChannel \notin Channels
ASSUME MaxVerAssumption == MaxVer \in Nat

VARIABLES
    (* database *)
    channels,   \* rows of table channels
    born,       \* ids drawn so far: a random id does not come up twice
    rules,      \* rows of table rules
    ver,        \* number of commits so far (history)
    (* the three copies of the generated configuration *)
    hostCfg, ctrCfg, liveCfg,
    up,         \* mihomo runs and serves its control API
    late,       \* a reload the core gave up on may still be carried out
    (* tasks *)
    pc,         \* where each task is
    chan,       \* the channel a task works on
    todo,       \* patterns add_rules has still to insert
    strict,     \* the handler turns a failed reload into an error reply
    need,       \* version of the task's own last commit (history)
    lock,       \* REBUILD_LOCK: its holder, or Free
    snap,       \* what the lock's holder has read from the database
    serving,    \* axum accepts requests
    (* history *)
    acked,      \* newest commit a success reply claims to be in force
    confirmed,  \* newest version a 2xx rebuild was built from
    excuse,     \* something failed since the database was last confirmed
    lost        \* boot gave mihomo the bare template, its working copy
                \* unreadable, and no rebuild has been confirmed since

dbVars   == <<channels, born, rules, ver>>
cfgVars  == <<hostCfg, ctrCfg, liveCfg>>
mihomo   == <<up, late>>
taskVars == <<pc, chan, todo, strict, need, serving>>
lockVars == <<lock, snap>>
history  == <<acked, confirmed, excuse, lost>>
vars     == <<dbVars, cfgVars, mihomo, taskVars, lockVars, history>>

-----------------------------------------------------------------------------
(* A row of table rules.  "at" stands for the AUTOINCREMENT id: the commit  *)
(* that inserted the row.                                                   *)
Rule   == [at: 0..MaxVer, ch: Channels, pat: Patterns, on: BOOLEAN]

(* base: the file is missing, is empty, lacks the unmanaged keys, has them. *)
Config == [chans: SUBSET Channels, rules: SUBSET (Patterns \X Channels),
           ver: 0..MaxVer, base: {"absent", "empty", "bare", "full"}]

NoFile    == [chans |-> {}, rules |-> {}, ver |-> 0, base |-> "absent"]
Truncated == [chans |-> {}, rules |-> {}, ver |-> 0, base |-> "empty"]
Template  == [chans |-> {}, rules |-> {}, ver |-> 0, base |-> "full"]

(* The rule lines build_mihomo_config emits: the enabled rows.              *)
Emitted(rs) == {<<r.pat, r.ch>> : r \in {x \in rs : x.on}}

(* mihomo refuses an empty file, and a rule whose proxy does not exist.     *)
Loads(cfg) == /\ cfg.base \notin {"absent", "empty"}
              /\ \A line \in cfg.rules : line[2] \in cfg.chans

(* The address and the secret of its control API are among the keys a       *)
(* starting mihomo takes from the file.                                     *)
Serves(cfg) == Loads(cfg) /\ cfg.base = "full"

Newer(a, b) == IF a < b THEN b ELSE a

Critical == {"channels", "rules", "write", "deliver", "reload"}
Awaiting == {"provision", "removing", "want", "deliver", "reload"}
PcValues == Critical \cup {"idle", "ensure", "plan", "insert",
                           "provision", "removing", "want"}

TypeOK ==
    /\ channels \in SUBSET Channels /\ born \in SUBSET Channels
    /\ rules \in SUBSET Rule
    /\ ver \in 0..MaxVer
    /\ hostCfg \in Config /\ ctrCfg \in Config /\ liveCfg \in Config
    /\ up \in BOOLEAN /\ late \in BOOLEAN
    /\ pc \in [Procs -> PcValues]
    /\ chan \in [Procs -> Channels \cup {NoChannel}]
    /\ \A p \in Procs : pc[p] \in {"plan", "insert", "removing"} =>
                           chan[p] \in Channels
    /\ todo \in [Procs -> SUBSET Patterns]
    /\ strict \in [Procs -> BOOLEAN]
    /\ need \in [Procs -> 0..MaxVer]
    /\ lock \in Procs \cup {Free}
    /\ snap \in Config
    /\ serving \in BOOLEAN
    /\ acked \in 0..MaxVer /\ confirmed \in 0..MaxVer
    /\ excuse \in BOOLEAN /\ lost \in BOOLEAN

(* A fresh installation: empty database, no configuration, no mihomo.       *)
Init ==
    /\ channels = {} /\ born = {} /\ rules = {} /\ ver = 0
    /\ hostCfg = NoFile /\ ctrCfg = NoFile /\ liveCfg = NoFile
    /\ up = FALSE /\ late = FALSE
    /\ pc = [p \in Procs |-> IF p = Boot THEN "ensure" ELSE "idle"]
    /\ chan = [p \in Procs |-> NoChannel]
    /\ todo = [p \in Procs |-> {}]
    /\ strict = [p \in Procs |-> FALSE]
    /\ need = [p \in Procs |-> 0]
    /\ lock = Free /\ snap = NoFile
    /\ serving = FALSE
    /\ acked = 0 /\ confirmed = 0 /\ excuse = FALSE /\ lost = FALSE

-----------------------------------------------------------------------------
(* Building blocks of the handlers.                                         *)

Idle(p) == /\ p \in Clients /\ pc[p] = "idle" /\ serving

(* A task moves on; the rest of its locals stays.                           *)
Goto(p, label) == pc' = [pc EXCEPT ![p] = label]

(* One database commit on behalf of task p.                                 *)
Commit(p) == /\ ver < MaxVer
             /\ ver' = ver + 1
             /\ need' = [need EXCEPT ![p] = ver + 1]

(* A task ends: reply sent, or dropped.                                     *)
Leave(p) == /\ pc'     = [pc EXCEPT ![p] = "idle"]
            /\ chan'   = [chan EXCEPT ![p] = NoChannel]
            /\ todo'   = [todo EXCEPT ![p] = {}]
            /\ strict' = [strict EXCEPT ![p] = FALSE]
            /\ need'   = [need EXCEPT ![p] = 0]

(* The rows one commit inserts.                                             *)
NewRules(c, P, on) == {[at |-> ver + 1, ch |-> c, pat |-> q, on |-> on] : q \in P}

(* An early error reply: whatever the task committed stays committed and no *)
(* rebuild follows.                                                         *)
FailEarly(p) == /\ Leave(p)
                /\ excuse' = TRUE
                /\ UNCHANGED <<serving, dbVars, cfgVars, mihomo, lockVars,
                               acked, confirmed, lost>>

-----------------------------------------------------------------------------
(* Rule handlers: reject when the channel is unknown, commit, rebuild, and  *)
(* report the outcome of the reload.                                        *)

(* add_rules: the channel exists ...                                        *)
BeginAddRules(p, c, P) ==
    /\ Idle(p) /\ c \in channels
    /\ Goto(p, "plan")
    /\ chan' = [chan EXCEPT ![p] = c]
    /\ todo' = [todo EXCEPT ![p] = P]
    /\ strict' = [strict EXCEPT ![p] = TRUE]
    /\ UNCHANGED <<need, serving, dbVars, cfgVars, mihomo, lockVars, history>>

(* ... drop what the channel already has (plan_rules over list_rules) ...   *)
PlanRules(p) ==
    LET existing == {r.pat : r \in {x \in rules : x.ch = chan[p]}}
        planned  == todo[p] \ existing
    IN  /\ pc[p] = "plan"
        /\ todo' = [todo EXCEPT ![p] = planned]
        /\ Goto(p, IF planned = {} THEN "want" ELSE "insert")
        /\ UNCHANGED <<chan, strict, need, serving, dbVars, cfgVars, mihomo,
                       lockVars, history>>

(* ... insert one by one, each INSERT a commit of its own, without looking  *)
(* at the channel again ...                                                 *)
InsertRule(p, q) ==
    /\ pc[p] = "insert" /\ q \in todo[p]
    /\ Commit(p)
    /\ rules' = rules \cup NewRules(chan[p], {q}, TRUE)
    /\ todo' = [todo EXCEPT ![p] = @ \ {q}]
    /\ Goto(p, IF todo[p] = {q} THEN "want" ELSE "insert")
    /\ UNCHANGED <<chan, strict, serving, channels, born, cfgVars, mihomo,
                   lockVars, history>>

(* ... and an INSERT that fails ends the request there and then.            *)
InsertFails(p) == pc[p] = "insert" /\ FailEarly(p)

(* Fault: the handler answers without a rebuild.                            *)
ChangeRulesOnly(p, newRules) ==
    /\ Idle(p)
    /\ ver < MaxVer /\ ver' = ver + 1
    /\ rules' = newRules
    /\ UNCHANGED <<taskVars, channels, born, cfgVars, mihomo, lockVars, history>>

(* del_rule, patch_rule and patch_rules change existing rows in one commit. *)
ChangeRules(p, newRules) ==
    /\ Idle(p)
    /\ Commit(p)
    /\ rules' = newRules
    /\ strict' = [strict EXCEPT ![p] = TRUE]
    /\ Goto(p, "want")
    /\ UNCHANGED <<chan, todo, serving, channels, born, cfgVars, mihomo,
                   lockVars, history>>

Switched(rs, S, on) == (rs \ S) \cup {[r EXCEPT !.on = on] : r \in S}

DelRule(p, r) == r.ch \in channels /\ ChangeRules(p, rules \ {r})

PatchRule(p, r, on) == r.ch \in channels /\ ChangeRules(p, Switched(rules, {r}, on))

(* The batch form names rows only by id: it does not look at the channel.   *)
PatchRules(p, S, on) == S # {} /\ ChangeRules(p, Switched(rules, S, on))

-----------------------------------------------------------------------------
(* Channel handlers: they also end in rebuild, but only log its outcome.    *)

(* create: the row is committed before the container is provisioned.        *)
CreateChannel(p, c) ==
    /\ Idle(p) /\ c \notin born
    /\ Commit(p)
    /\ channels' = channels \cup {c} /\ born' = born \cup {c}
    /\ Goto(p, "provision")
    /\ UNCHANGED <<chan, todo, strict, serving, rules, cfgVars, mihomo,
                   lockVars, history>>

(* start, and update when a credential changed: provision an existing one.  *)
Reprovision(p, c) ==
    /\ Idle(p) /\ c \in channels
    /\ Goto(p, "provision")
    /\ UNCHANGED <<chan, todo, strict, need, serving, dbVars, cfgVars, mihomo,
                   lockVars, history>>

Provisioned(p) ==
    /\ pc[p] = "provision"
    /\ Goto(p, "want")
    /\ UNCHANGED <<chan, todo, strict, need, serving, dbVars, cfgVars, mihomo,
                   lockVars, history>>

ProvisionFails(p) == pc[p] = "provision" /\ FailEarly(p)

(* delete: the container goes first, the rows follow in one transaction.    *)
BeginDelete(p, c) ==
    /\ Idle(p) /\ c \in channels
    /\ Goto(p, "removing")
    /\ chan' = [chan EXCEPT ![p] = c]
    /\ UNCHANGED <<todo, strict, need, serving, dbVars, cfgVars, mihomo,
                   lockVars, history>>

CascadeDelete(p) ==
    /\ pc[p] = "removing"
    /\ Commit(p)
    /\ channels' = channels \ {chan[p]}
    /\ rules' = {r \in rules : r.ch # chan[p]}
    /\ Goto(p, "want")
    /\ UNCHANGED <<chan, todo, strict, serving, born, cfgVars, mihomo,
                   lockVars, history>>

RemoveFails(p) == pc[p] = "removing" /\ FailEarly(p)

(* config_import: channels with their rules in a single transaction.        *)
ImportConfig(p, c, On, Off) ==
    /\ Idle(p) /\ c \notin born /\ On \cap Off = {}
    /\ Commit(p)
    /\ channels' = channels \cup {c} /\ born' = born \cup {c}
    /\ rules' = rules \cup NewRules(c, On, TRUE) \cup NewRules(c, Off, FALSE)
    /\ Goto(p, "want")
    /\ UNCHANGED <<chan, todo, strict, serving, cfgVars, mihomo, lockVars,
                   history>>

-----------------------------------------------------------------------------
(* rebuild, the holder of the lock running it to the end.                   *)

(* Fault: the lock is not released on the way out.                          *)
ReturnHoldingLock(p, ok) ==
    /\ Leave(p)
    /\ serving' = (serving \/ p = Boot)
    /\ excuse' = ~ok
    /\ UNCHANGED <<lockVars, acked, confirmed, lost>>

(* The task's rebuild returned: 2xx or an error string.  The lock is        *)
(* released, the handler replies.  Boot opens the HTTP server either way.   *)
Return(p, ok) ==
    /\ lock' = Free /\ snap' = NoFile
    /\ Leave(p)
    /\ serving' = (serving \/ p = Boot)
    /\ acked'     = IF ok /\ strict[p] THEN Newer(acked, need[p]) ELSE acked
    /\ confirmed' = IF ok THEN Newer(confirmed, snap.ver) ELSE confirmed
    /\ excuse'    = IF ok THEN excuse /\ snap.ver # ver ELSE TRUE
    /\ lost'      = (lost /\ ~ok)

(* Fault: rebuild without the lock.                                         *)
AcquireAnyway(p) ==
    /\ pc[p] = "want"
    /\ lock' = p
    /\ Goto(p, "channels")
    /\ UNCHANGED <<chan, todo, strict, need, serving, snap, dbVars, cfgVars,
                   mihomo, history>>

Acquire(p) ==
    /\ pc[p] = "want" /\ lock = Free
    /\ lock' = p
    /\ Goto(p, "channels")
    /\ UNCHANGED <<chan, todo, strict, need, serving, snap, dbVars, cfgVars,
                   mihomo, history>>

(* Two queries, two connections: a commit can fall between them.            *)
ReadChannels(p) ==
    /\ pc[p] = "channels"
    /\ snap' = [snap EXCEPT !.chans = channels, !.ver = ver]
    /\ Goto(p, "rules")
    /\ UNCHANGED <<chan, todo, strict, need, serving, lock, dbVars, cfgVars,
                   mihomo, history>>

ReadRules(p) ==
    /\ pc[p] = "rules"
    /\ snap' = [snap EXCEPT !.rules = Emitted(rules)]
    /\ Goto(p, "write")
    /\ UNCHANGED <<chan, todo, strict, need, serving, lock, dbVars, cfgVars,
                   mihomo, history>>

(* Fault: a working copy that cannot be read counts as an empty one.        *)
WriteHostUnread(p) ==
    /\ pc[p] = "write"
    /\ \E base \in {hostCfg.base, "bare"} : hostCfg' = [snap EXCEPT !.base = base]
    /\ snap' = hostCfg'
    /\ Goto(p, "deliver")
    /\ UNCHANGED <<chan, todo, strict, need, serving, lock, dbVars, ctrCfg,
                   liveCfg, mihomo, history>>

(* Read the working copy, merge, replace it atomically.  A missing file is  *)
(* an empty base, and so is an empty one.                                   *)
MergedBase == IF hostCfg.base \in {"absent", "empty"} THEN "bare" ELSE hostCfg.base

WriteHost(p) ==
    /\ pc[p] = "write"
    /\ hostCfg' = [snap EXCEPT !.base = MergedBase]
    /\ snap' = hostCfg'
    /\ Goto(p, "deliver")
    /\ UNCHANGED <<chan, todo, strict, need, serving, lock, dbVars, ctrCfg,
                   liveCfg, mihomo, history>>

(* A failed query, an unreadable or unparsable base, a failed write: rebuild *)
(* returns with every copy as it was.                                       *)
RebuildFails(p) ==
    /\ pc[p] \in {"channels", "rules", "write"}
    /\ Return(p, FALSE)
    /\ UNCHANGED <<dbVars, cfgVars, mihomo>>

(* put_file into the container ...                                          *)
Deliver(p) ==
    /\ pc[p] = "deliver"
    /\ ctrCfg' = snap
    /\ Goto(p, "reload")
    /\ UNCHANGED <<chan, todo, strict, need, serving, lockVars, dbVars, hostCfg,
                   liveCfg, mihomo, history>>

(* Fault: a failed put_file is logged, and the reload goes ahead.           *)
DeliverFailsUnnoticed(p) ==
    /\ pc[p] = "deliver"
    /\ ctrCfg' \in {ctrCfg, snap}
    /\ Goto(p, "reload")
    /\ UNCHANGED <<chan, todo, strict, need, serving, lockVars, dbVars, hostCfg,
                   liveCfg, mihomo, history>>

(* ... whose failure ends the rebuild; the file may have arrived or not.    *)
DeliverFails(p) ==
    /\ pc[p] = "deliver"
    /\ ctrCfg' \in {ctrCfg, snap}
    /\ Return(p, FALSE)
    /\ UNCHANGED <<dbVars, hostCfg, liveCfg, mihomo>>

(* mihomo reads its file again and switches over, or refuses it whole.      *)
MihomoReads == liveCfg' = IF Loads(ctrCfg) THEN ctrCfg ELSE liveCfg

(* PUT /configs answered: 2xx exactly when the configuration was taken.     *)
Reload(p) ==
    /\ pc[p] = "reload" /\ up
    /\ MihomoReads
    /\ Return(p, Loads(ctrCfg))
    /\ UNCHANGED <<dbVars, hostCfg, ctrCfg, mihomo>>

(* Fault: a reload nobody answered passes for a success.                    *)
ReloadFailsAsSuccess(p) ==
    /\ pc[p] = "reload"
    /\ late' \in {late, up}
    /\ Return(p, TRUE)
    /\ UNCHANGED <<dbVars, cfgVars, up>>

(* No answer: mihomo is down, or the ten seconds passed.  In the second     *)
(* case the reload may still happen, later, or never.                       *)
ReloadFails(p) ==
    /\ pc[p] = "reload"
    /\ late' \in {late, up}
    /\ Return(p, FALSE)
    /\ UNCHANGED <<dbVars, cfgVars, up>>

(* The client went away: the handler's future is dropped at its await, the  *)
(* lock with it.  A transfer under way may or may not have completed.       *)
Abandon(p) ==
    /\ p \in Clients /\ pc[p] \in Awaiting
    /\ Leave(p)
    /\ lock' = IF lock = p THEN Free ELSE lock
    /\ snap' = IF lock = p THEN NoFile ELSE snap
    /\ ctrCfg' \in IF pc[p] = "deliver" THEN {ctrCfg, snap} ELSE {ctrCfg}
    /\ late' \in IF pc[p] = "reload" THEN {late, up} ELSE {late}
    /\ excuse' = TRUE
    /\ UNCHANGED <<serving, dbVars, hostCfg, liveCfg, up, acked, confirmed, lost>>

-----------------------------------------------------------------------------
(* The process, mihomo, and boot.                                           *)

(* The core dies and is started again: tasks and lock are gone, files,      *)
(* database, container and mihomo are not.                                  *)
InFlight(label) == \E p \in Procs : pc[p] = label

Crash ==
    /\ pc' = [p \in Procs |-> IF p = Boot THEN "ensure" ELSE "idle"]
    /\ chan' = [p \in Procs |-> NoChannel]
    /\ todo' = [p \in Procs |-> {}]
    /\ strict' = [p \in Procs |-> FALSE]
    /\ need' = [p \in Procs |-> 0]
    /\ lock' = Free /\ snap' = NoFile
    /\ serving' = FALSE
    /\ ctrCfg' \in IF InFlight("deliver") THEN {ctrCfg, snap} ELSE {ctrCfg}
    /\ late' \in IF InFlight("reload") THEN {late, up} ELSE {late}
    /\ excuse' = TRUE
    /\ UNCHANGED <<dbVars, hostCfg, liveCfg, up, acked, confirmed, lost>>

(* ensure_mihomo leaves a running container alone.  A container in its      *)
(* restart loop counts as running although nothing serves.                  *)
EnsureSkips ==
    /\ pc[Boot] = "ensure"
    /\ up \/ ctrCfg.base # "absent"
    /\ Goto(Boot, "want")
    /\ UNCHANGED <<chan, todo, strict, need, serving, lockVars, dbVars, cfgVars,
                   mihomo, history>>

(* Fault: the template overwrites what has accumulated.                     *)
SeededAlways == Template

(* Otherwise: seed the working copy if it is missing, ...                   *)
Seeded == IF hostCfg.base = "absent" THEN Template ELSE hostCfg

(* ... take it, or the bare template when it cannot be read, create the     *)
(* container anew, deliver, start, wait for the control API.                *)
EnsureMihomo ==
    /\ pc[Boot] = "ensure" /\ ~up
    /\ \E delivered \in {Seeded, Template} :
          /\ Serves(delivered)
          /\ hostCfg' = Seeded /\ ctrCfg' = delivered /\ liveCfg' = delivered
          /\ lost' = (delivered # Seeded)
    /\ up' = TRUE /\ late' = FALSE
    /\ Goto(Boot, "want")
    /\ UNCHANGED <<chan, todo, strict, need, serving, lockVars, dbVars,
                   acked, confirmed, excuse>>

(* It fails part-way, or mihomo does not come up; the user retries boot.    *)
(* Seeding truncates the file before it writes it: interrupted, it leaves   *)
(* an empty one.  Once the container has the template, that is what mihomo  *)
(* starts with, if it starts.                                               *)
EnsureFails ==
    /\ pc[Boot] = "ensure" /\ ~up
    /\ \/ /\ hostCfg' \in {hostCfg, Seeded}
             \cup {cfg \in {Truncated} : hostCfg.base = "absent"}
          /\ UNCHANGED <<ctrCfg, liveCfg, lost>>
       \/ /\ hostCfg' = Seeded /\ ctrCfg' = Seeded
          /\ UNCHANGED <<liveCfg, lost>>
       \/ /\ Seeded # Template
          /\ hostCfg' = Seeded /\ ctrCfg' = Template /\ liveCfg' = Template
          /\ lost' = TRUE
    /\ UNCHANGED <<mihomo, taskVars, lockVars, dbVars, acked, confirmed, excuse>>

(* mihomo stops (crash, docker restart by the watchdog, VM going down) ...  *)
MihomoDown ==
    /\ up
    /\ up' = FALSE /\ late' = FALSE
    /\ UNCHANGED <<cfgVars, taskVars, lockVars, dbVars, history>>

(* ... and comes back by its restart policy, if its file lets it.           *)
MihomoUp ==
    /\ ~up /\ Loads(ctrCfg)
    /\ up' = Serves(ctrCfg)
    /\ liveCfg' = ctrCfg
    /\ UNCHANGED <<hostCfg, ctrCfg, late, taskVars, lockVars, dbVars, history>>

(* A reload nobody waits for any more is carried out after all.             *)
LateReload ==
    /\ late /\ up
    /\ MihomoReads
    /\ late' = FALSE
    /\ UNCHANGED <<hostCfg, ctrCfg, up, taskVars, lockVars, dbVars, history>>

-----------------------------------------------------------------------------
(* What task p does by itself once started.                                 *)
Step(p) ==
    \/ PlanRules(p) \/ InsertFails(p)
    \/ \E q \in Patterns : InsertRule(p, q)
    \/ Provisioned(p) \/ ProvisionFails(p)
    \/ CascadeDelete(p) \/ RemoveFails(p)
    \/ Acquire(p) \/ ReadChannels(p) \/ ReadRules(p) \/ WriteHost(p)
    \/ RebuildFails(p)
    \/ Deliver(p) \/ DeliverFails(p) \/ Reload(p) \/ ReloadFails(p)

Request(p) ==
    \/ \E c \in Channels :
          \/ \E P \in SUBSET Patterns : BeginAddRules(p, c, P)
          \/ CreateChannel(p, c)
          \/ Reprovision(p, c)
          \/ BeginDelete(p, c)
          \/ \E On, Off \in SUBSET Patterns : ImportConfig(p, c, On, Off)
    \/ \E r \in rules : DelRule(p, r) \/ \E on \in BOOLEAN : PatchRule(p, r, on)
    \/ \E S \in SUBSET rules, on \in BOOLEAN : PatchRules(p, S, on)

Next ==
    \/ \E p \in Procs : Step(p)
    \/ \E p \in Clients : Request(p) \/ Abandon(p)
    \/ Crash \/ EnsureSkips \/ EnsureMihomo \/ EnsureFails
    \/ MihomoDown \/ MihomoUp \/ LateReload

Spec == Init /\ [][Next]_vars

(* The runtime keeps polling every task, each await has a time limit, and   *)
(* tokio's mutex hands the lock over in the order it was asked for.         *)
Fairness == \A p \in Procs : WF_vars(Step(p)) /\ SF_vars(Acquire(p))

FairSpec == Spec /\ Fairness

-----------------------------------------------------------------------------
(* Properties.                                                              *)

(* A rule handler that answers success has its own commit in force, and     *)
(* nothing afterwards takes it out again - not a concurrent rebuild that    *)
(* read earlier, not a restart of mihomo or of the core - but a boot that   *)
(* could not read the working copy, until the next confirmed rebuild        *)
(* (add_rules, reload_ok, ensure_mihomo).                                   *)
AckedIsLive == lost \/ acked <= liveCfg.ver

(* When the last commit was covered by a rebuild that returned 2xx, mihomo  *)
(* routes exactly what the database says, torn reads notwithstanding, with  *)
(* the same exception.                                                      *)
ConfirmedMatchesDb ==
    confirmed = ver /\ ~lost => /\ liveCfg.chans = channels
                                /\ liveCfg.rules = Emitted(rules)

(* Once every request has been answered, a configuration in force that lags *)
(* the database has a reason: some step failed, or a client left, since it  *)
(* was last up to date.  No handler forgets to rebuild, no rebuild is       *)
(* swallowed by one that read before its commit, and no template stays in   *)
(* force behind a boot that went well.                                      *)
NoSilentDrift ==
    /\ serving /\ \A p \in Procs : pc[p] = "idle"
    /\ ~excuse
    => confirmed = ver /\ ~lost

(* Once the working copy has the keys rebuild does not manage (dns,         *)
(* listeners, secret), no interleaving, failure or restart takes them out   *)
(* of it, and no copy without them is delivered or loaded (base handling of *)
(* rebuild and ensure_mihomo).  One that a seeding has left empty never     *)
(* comes by them.                                                           *)
KeysStay == [][hostCfg.base = "full" =>
                 /\ hostCfg'.base = "full"
                 /\ "bare" \notin {ctrCfg'.base, liveCfg'.base}]_vars

(* No step takes a copy of the configuration back to an older state of the  *)
(* database (REBUILD_LOCK around the whole of rebuild), but boot's delivery *)
(* of the template; the working copy never goes back.                       *)
FallsBack  == /\ pc[Boot] = "ensure" /\ lost'
              /\ ctrCfg' = Template /\ liveCfg' = Template
NoRollback == [][/\ hostCfg.ver <= hostCfg'.ver
                 /\ FallsBack \/ (/\ ctrCfg.ver <= ctrCfg'.ver
                                  /\ liveCfg.ver <= liveCfg'.ver)]_vars

(* Every request comes to its end: the lock is never lost (rebuild's guard  *)
(* is dropped on every path).                                               *)
RequestsFinish == \A p \in Clients : pc[p] # "idle" ~> pc[p] = "idle"

(* del_channel's comment: "cascade by hand (no FK): channels + domains +    *)
(* rules" - with the channel go all of its rules.  add_rules, which looked  *)
(* the channel up before, inserts afterwards all the same.                  *)
NoOrphanRules == \A r \in rules : r.ch \in channels

-----------------------------------------------------------------------------
(* Why they hold: the parts of an inductive invariant.                      *)

(* Exactly the holder of the lock is inside rebuild, and boot is over       *)
(* before the first request.                                                *)
LockInv ==
    /\ \A p \in Procs : pc[p] \in Critical <=> lock = p
    /\ serving => pc[Boot] = "idle"
    /\ pc[Boot] # "idle" => \A p \in Clients : pc[p] = "idle"

(* What the holder has read covers its own commit and the working copy, and *)
(* is what it has written and delivered.                                    *)
SnapInv ==
    \A p \in Procs :
        /\ need[p] <= ver
        /\ pc[p] \in {"rules", "write", "deliver", "reload"} =>
              need[p] <= snap.ver /\ hostCfg.ver <= snap.ver /\ snap.ver <= ver
        /\ pc[p] \in {"deliver", "reload"} => snap = hostCfg
        /\ pc[p] = "reload" => snap = ctrCfg

(* No copy runs ahead of where it comes from: mihomo, its file, the working *)
(* copy, the database.                                                      *)
Pipeline == /\ liveCfg.ver <= ctrCfg.ver
            /\ ctrCfg.ver <= hostCfg.ver
            /\ hostCfg.ver <= ver

(* A copy that carries the newest version has the database's content.       *)
Exact(cfg) == cfg.ver = ver => /\ cfg.chans = channels
                               /\ cfg.rules = Emitted(rules)

ExactInv ==
    /\ ver = 0 => channels = {} /\ rules = {}
    /\ Exact(hostCfg) /\ Exact(ctrCfg) /\ Exact(liveCfg)
    /\ \A p \in Procs :
          /\ pc[p] \in {"rules", "write"} /\ snap.ver = ver =>
                snap.chans = channels
          /\ pc[p] = "write" /\ snap.ver = ver => snap.rules = Emitted(rules)

(* What has been claimed is in the working copy, and in force unless lost.  *)
ReplyInv ==
    /\ acked <= hostCfg.ver /\ confirmed <= hostCfg.ver
    /\ lost \/ (acked <= liveCfg.ver /\ confirmed <= liveCfg.ver)

(* The working copy is made before anything is derived from it, and lacks   *)
(* the keys as soon as anything else does.                                  *)
BaseInv ==
    /\ hostCfg.base \in {"absent", "empty"} => hostCfg \in {NoFile, Truncated}
    /\ "bare" \in {ctrCfg.base, liveCfg.base} => hostCfg.base = "bare"
    /\ up \/ ctrCfg.base # "absent" \/ pc[Boot] # "ensure" => hostCfg.base # "absent"

(* A lag without an excuse is somebody's unfinished business.               *)
DriftInv ==
    /\ ~excuse /\ confirmed # ver => \E p \in Procs : pc[p] # "idle" /\ need[p] = ver
    /\ lost => excuse \/ pc[Boot] # "idle"

Inductive ==
    /\ TypeOK /\ LockInv /\ SnapInv /\ Pipeline /\ ExactInv
    /\ ReplyInv /\ BaseInv /\ DriftInv

-----------------------------------------------------------------------------
(* What clients may rely on, see ConfigPublish.                             *)
Publish == INSTANCE ConfigPublish WITH db <- ver, live <- liveCfg.ver, lost <- lost

(* The whole machinery publishes database states in order, and only         *)
(* acknowledges what it has published.                                      *)
ImplementsPublish == Publish!Spec

=============================================================================
