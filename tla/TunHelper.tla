------------------------------ MODULE TunHelper ------------------------------
(***************************************************************************)
(* The privileged helper of the TUN entry (desktop/helper): a root daemon  *)
(* that supervises a second mihomo (the TUN engine) and keeps the kernel's *)
(* routes in line with what the app asked for over a unix socket.          *)
(*                                                                         *)
(* Two threads share one mutex.  The socket thread handles one request at  *)
(* a time under the mutex.  The reconciler wakes every two seconds, takes  *)
(* a snapshot under the mutex and then either starts the engine, stops it, *)
(* or compares routes; it calls /sbin/route without the mutex and commits  *)
(* the outcome under it again, so requests fall between its steps.         *)
(*                                                                         *)
(* The kernel holds one route per destination.  Two CIDR texts can name    *)
(* the same destination (10.0.0.1/8 and 10.0.0.0/8), which is what Dest    *)
(* is for.  Other programs add and remove routes, and may hit ours.  When  *)
(* the engine ends its utun device goes, and the routes on it with it.     *)
(***************************************************************************)
EXTENDS Naturals

CONSTANTS
    Cidrs,        \* CIDR texts the app may ask for (v4 and v6 alike)
    Dests,        \* destinations of the kernel's table
    Dest,         \* the destination a CIDR text names
    ForeignDests, \* destinations other programs add or remove routes for
    Configs,      \* engine configurations (one per proxy port)
    NoConfig      \* the empty configuration text

ASSUME DestAssumption == Dest \in [Cidrs -> Dests] /\ ForeignDests \subseteq Dests
ASSUME NoConfigAssumption == NoConfig \notin Configs

VARIABLES
    (* Inner, behind the mutex *)
    desired,    \* what the app asked for
    owned,      \* texts whose route we added ourselves
    shadowed,   \* texts whose route was there before
    (* disk *)
    saved,      \* state.json
    (* the engine and the kernel *)
    engine,     \* the child process: none, starting, up (its utun exists)
    engineCfg,  \* the configuration the engine was started with
    table,      \* per destination: no route, ours (on the utun), foreign
    (* locals of the reconciler *)
    rpc,        \* where it is; down when the helper is not running
    want,       \* snapshot of the desired texts
    add, del,   \* routes still to add and to delete in this batch
    gone,       \* all deletions of this batch
    newOwned, newShadow, oldShadow,
    (* history *)
    calm,       \* from here on nothing disturbs the helper any more
    died,       \* the engine has ended since the tick's liveness check
    lost,       \* destinations whose deletion failed
    taken,      \* destinations on record whose route another program has
                \* removed or replaced
    stale,      \* texts in shadowed whose destination has lost its route
    saveBad,    \* state.json is not what the last answered request said
    writeBad    \* the engine's configuration file could not be written

memory   == <<desired, owned, shadowed>>
kernel   == <<engine, engineCfg, table>>
batch    == <<want, add, del, gone, newOwned, newShadow, oldShadow>>
disk     == <<saved, saveBad>>
traces   == <<lost, taken, stale>>
vars     == <<memory, disk, kernel, rpc, batch, calm, died, traces, writeBad>>

-----------------------------------------------------------------------------
Desired == [running: BOOLEAN, config: Configs \cup {NoConfig},
            cidrs: SUBSET Cidrs]
Default == [running |-> FALSE, config |-> NoConfig, cidrs |-> {}]

TypeOK ==
    /\ desired \in Desired /\ saved \in Desired
    /\ owned \in SUBSET Cidrs /\ shadowed \in SUBSET Cidrs
    /\ engine \in {"none", "starting", "up"}
    /\ engineCfg \in Configs \cup {NoConfig}
    /\ table \in [Dests -> {"none", "ours", "foreign"}]
    /\ rpc \in {"down", "sleep", "spawn", "halt", "diff", "routes"}
    /\ want \in SUBSET Cidrs /\ add \in SUBSET Cidrs /\ del \in SUBSET Cidrs
    /\ gone \in SUBSET Cidrs /\ newOwned \in SUBSET Cidrs
    /\ newShadow \in SUBSET Cidrs /\ oldShadow \in SUBSET Cidrs
    /\ calm \in BOOLEAN /\ died \in BOOLEAN
    /\ lost \in SUBSET Dests /\ taken \in SUBSET Dests /\ stale \in SUBSET Cidrs
    /\ saveBad \in BOOLEAN /\ writeBad \in BOOLEAN

(* The helper just installed and about to be started by launchd.            *)
Init ==
    /\ desired = Default /\ saved = Default
    /\ owned = {} /\ shadowed = {}
    /\ engine = "none" /\ engineCfg = NoConfig
    /\ table \in [Dests -> {"none", "foreign"}]
    /\ \A d \in Dests \ ForeignDests : table[d] = "none"
    /\ rpc = "down"
    /\ want = {} /\ add = {} /\ del = {} /\ gone = {}
    /\ newOwned = {} /\ newShadow = {} /\ oldShadow = {}
    /\ calm = FALSE /\ died = FALSE /\ lost = {} /\ taken = {} /\ stale = {}
    /\ saveBad = FALSE /\ writeBad = FALSE

-----------------------------------------------------------------------------
(* Building blocks.                                                         *)

Running == rpc # "down"

(* The utun goes with the engine, and the kernel drops the routes on it.    *)
EngineEnds ==
    /\ engine' = "none" /\ engineCfg' = NoConfig
    /\ table' = [d \in Dests |-> IF table[d] = "ours" THEN "none" ELSE table[d]]
    /\ died' = TRUE /\ lost' = {} /\ taken' = {} /\ stale' = {}

EngineStays == UNCHANGED <<kernel, died, traces>>

ForgetRoutes == owned' = {} /\ shadowed' = {}

(* The destination has no route any more: who counted on one has none.      *)
Vacated(d) == stale \cup {c \in shadowed \cup newShadow : Dest[c] = d}

(* Fault: the state is written before it is updated.                        *)
SaveStateTooSoon(d) == saved' = desired /\ saveBad' = FALSE

(* save_state truncates and rewrites the file, and ignores every error.     *)
SaveState(d) ==
    \/ saved' = d /\ saveBad' = FALSE
    \/ ~calm /\ saved' \in {saved, Default} /\ saveBad' = TRUE

-----------------------------------------------------------------------------
(* Requests, each handled whole under the mutex.                            *)

EnsureRequest(config, cidrs) ==
    [running |-> TRUE, config |-> config, cidrs |-> cidrs]

StopRequest == [desired EXCEPT !.running = FALSE]

(* Fault: a changed configuration does not replace the running engine.      *)
EnsureKeepingEngine(config, cidrs) ==
    /\ Running /\ ~calm
    /\ desired' = EnsureRequest(config, cidrs)
    /\ SaveState(desired')
    /\ EngineStays
    /\ UNCHANGED <<owned, shadowed, rpc, batch, calm, writeBad>>

(* ensure: a changed configuration kills the engine, the reconciler starts  *)
(* it again; changed routes are left to the reconciler.                     *)
Ensure(config, cidrs) ==
    /\ Running /\ ~calm
    /\ desired' = EnsureRequest(config, cidrs)
    /\ SaveState(desired')
    /\ IF config # desired.config
         THEN EngineEnds /\ ForgetRoutes
         ELSE EngineStays /\ UNCHANGED <<owned, shadowed>>
    /\ UNCHANGED <<rpc, batch, calm, writeBad>>

Stop ==
    /\ Running /\ ~calm
    /\ desired' = StopRequest
    /\ SaveState(desired')
    /\ EngineEnds /\ ForgetRoutes
    /\ UNCHANGED <<rpc, batch, calm, writeBad>>

-----------------------------------------------------------------------------
(* The reconciler.                                                          *)

(* First lock: look at the engine, take what is wanted.                     *)
Tick ==
    /\ rpc = "sleep"
    /\ want' = IF desired.running THEN desired.cidrs ELSE {}
    /\ rpc' = IF ~desired.running THEN "halt"
              ELSE IF engine = "none" THEN "spawn" ELSE "diff"
    /\ died' = FALSE
    /\ UNCHANGED <<memory, disk, kernel, add, del, gone, newOwned, newShadow,
                   oldShadow, calm, traces, writeBad>>

(* Fault: the routes of the engine before are taken for this one's.         *)
SpawnKeepingRoutes ==
    /\ rpc = "spawn"
    /\ engine' = "starting" /\ engineCfg' = desired.config
    /\ rpc' = "sleep" /\ want' = {}
    /\ UNCHANGED <<memory, disk, table, add, del, gone, newOwned, newShadow,
                   oldShadow, calm, died, traces, writeBad>>

(* The engine should run and does not: write its configuration, start it,   *)
(* forget all routes.  Whether it should run is not looked at again, and    *)
(* neither a failed write nor a failed start is reported.                   *)
Spawn ==
    /\ rpc = "spawn"
    /\ \/ engineCfg' = desired.config /\ writeBad' = FALSE
       \/ ~calm /\ engineCfg' \in Configs \cup {NoConfig} /\ writeBad' = TRUE
    /\ engine' = "starting"
    /\ ForgetRoutes
    /\ rpc' = "sleep" /\ want' = {}
    /\ UNCHANGED <<desired, disk, table, add, del, gone, newOwned, newShadow,
                   oldShadow, calm, died, traces>>

SpawnFails ==
    /\ rpc = "spawn" /\ ~calm
    /\ ForgetRoutes
    /\ rpc' = "sleep" /\ want' = {}
    /\ UNCHANGED <<desired, disk, kernel, add, del, gone, newOwned, newShadow,
                   oldShadow, calm, died, traces, writeBad>>

(* It should not run: stop it if it does.                                   *)
Halt ==
    /\ rpc = "halt"
    /\ EngineEnds /\ ForgetRoutes
    /\ rpc' = "sleep"
    /\ UNCHANGED <<desired, disk, batch, calm, writeBad>>

(* Fault: shadowed routes are tried again and stay on the list.             *)
DiffRetryingShadowed ==
    /\ rpc = "diff"
    /\ add' = want \ owned
    /\ del' = owned \ want /\ gone' = owned \ want
    /\ oldShadow' = shadowed \ want
    /\ rpc' = "routes"
    /\ UNCHANGED <<memory, disk, kernel, want, newOwned, newShadow, calm, died,
                   traces, writeBad>>

(* It runs: compare with the routes we have, under a second lock.           *)
Diff ==
    /\ rpc = "diff"
    /\ add' = want \ (owned \cup shadowed)
    /\ del' = owned \ want /\ gone' = owned \ want
    /\ oldShadow' = shadowed \ want
    /\ rpc' = "routes"
    /\ UNCHANGED <<memory, disk, kernel, want, newOwned, newShadow, calm, died,
                   traces, writeBad>>

(* Fault: exit status 0 counts as added, "File exists" or not.              *)
ClassifyByExit(c) ==
    IF engine = "up" THEN "Added"
    ELSE IF table[Dest[c]] # "none" THEN "Exists" ELSE "Failed"

(* Fault: any failure counts as a route that was there before.              *)
ClassifyFailedAsExists(c) ==
    IF table[Dest[c]] = "none" /\ engine = "up" THEN "Added" ELSE "Exists"

(* route add, classified by its error text before its exit status.  It      *)
(* fails as long as the utun is not there.                                  *)
Classify(c) ==
    IF table[Dest[c]] # "none" THEN "Exists"
    ELSE IF engine = "up" THEN "Added" ELSE "Failed"

RouteAdd(c) ==
    /\ rpc = "routes" /\ c \in add
    /\ \E result \in {Classify(c)} \cup (IF calm THEN {} ELSE {"Failed"}) :
         /\ newOwned'  = IF result = "Added" THEN newOwned \cup {c} ELSE newOwned
         /\ newShadow' = IF result = "Exists" THEN newShadow \cup {c} ELSE newShadow
         /\ table' = IF result = "Added" /\ table[Dest[c]] = "none"
                       THEN [table EXCEPT ![Dest[c]] = "ours"] ELSE table
    /\ add' = add \ {c}
    /\ UNCHANGED <<memory, disk, engine, engineCfg, rpc, want, del, gone,
                   oldShadow, calm, died, traces, writeBad>>

(* route delete names only the destination: whatever route is there goes.   *)
RouteDelete(c) ==
    /\ rpc = "routes" /\ add = {} /\ c \in del
    /\ table' = [table EXCEPT ![Dest[c]] = "none"]
    /\ stale' = Vacated(Dest[c])
    /\ del' = del \ {c}
    /\ UNCHANGED <<memory, disk, engine, engineCfg, rpc, want, add, gone,
                   newOwned, newShadow, oldShadow, calm, died, lost, taken, writeBad>>

(* A deletion that fails is logged and taken for done.                      *)
RouteDeleteFails(c) ==
    /\ rpc = "routes" /\ add = {} /\ c \in del /\ ~calm
    /\ lost' = lost \cup {Dest[c]}
    /\ del' = del \ {c}
    /\ UNCHANGED <<memory, disk, kernel, rpc, want, add, gone, newOwned,
                   newShadow, oldShadow, calm, died, taken, stale, writeBad>>

(* What happened to a route matters as long as it is on record.             *)
KeepTraces == /\ taken' = {d \in taken : \E c \in owned' : Dest[c] = d}
              /\ stale' = stale \cap shadowed'

(* Fault: what was added is not recorded.                                   *)
CommitDroppingAdds ==
    /\ rpc = "routes" /\ add = {} /\ del = {}
    /\ owned' = owned \ gone
    /\ shadowed' = (shadowed \cup newShadow) \ oldShadow
    /\ rpc' = "sleep"
    /\ want' = {} /\ gone' = {} /\ newOwned' = {} /\ newShadow' = {}
    /\ oldShadow' = {}
    /\ KeepTraces
    /\ UNCHANGED <<desired, disk, kernel, add, del, calm, died, lost, writeBad>>

(* Third lock: record the outcome, on top of what owned has become.         *)
Commit ==
    /\ rpc = "routes" /\ add = {} /\ del = {}
    /\ owned' = (owned \cup newOwned) \ gone
    /\ shadowed' = (shadowed \cup newShadow) \ oldShadow
    /\ rpc' = "sleep"
    /\ want' = {} /\ gone' = {} /\ newOwned' = {} /\ newShadow' = {}
    /\ oldShadow' = {}
    /\ KeepTraces
    /\ UNCHANGED <<desired, disk, kernel, add, del, calm, died, lost, writeBad>>

-----------------------------------------------------------------------------
(* Start and death of the helper; the engine outlives it.                   *)

HelperStarts ==
    /\ rpc = "down"
    /\ EngineEnds /\ ForgetRoutes
    /\ desired' = saved
    /\ rpc' = "sleep"
    /\ UNCHANGED <<disk, batch, calm, writeBad>>

ForgetBatch == /\ want' = {} /\ add' = {} /\ del' = {} /\ gone' = {}
               /\ newOwned' = {} /\ newShadow' = {} /\ oldShadow' = {}

HelperDies ==
    /\ Running /\ ~calm
    /\ rpc' = "down" /\ ForgetBatch
    /\ UNCHANGED <<memory, disk, kernel, calm, died, traces, writeBad>>

(* It dies inside save_state, before the request is answered.               *)
HelperDiesSaving(d) ==
    /\ Running /\ ~calm
    /\ saved' \in {d, Default} /\ saveBad' = TRUE
    /\ rpc' = "down" /\ ForgetBatch
    /\ UNCHANGED <<memory, kernel, calm, died, traces, writeBad>>

(* The world around it.                                                     *)
EngineReady ==
    /\ engine = "starting" /\ engineCfg # NoConfig
    /\ engine' = "up"
    /\ UNCHANGED <<memory, disk, engineCfg, table, rpc, batch, calm, died, traces,
                   writeBad>>

EngineDies ==
    /\ engine # "none" /\ ~calm
    /\ EngineEnds
    /\ UNCHANGED <<memory, disk, rpc, batch, calm, writeBad>>

(* What another program does to a destination may hit our route, which the  *)
(* helper does not look at again while it is on record.                     *)
Robbed(d) == IF table[d] = "ours" THEN taken \cup {d} ELSE taken

ForeignAdds(d) ==
    /\ ~calm /\ table[d] # "foreign"
    /\ table' = [table EXCEPT ![d] = "foreign"]
    /\ taken' = Robbed(d)
    /\ UNCHANGED <<memory, disk, engine, engineCfg, rpc, batch, calm, died,
                   lost, stale, writeBad>>

ForeignRemoves(d) ==
    /\ ~calm /\ table[d] # "none"
    /\ table' = [table EXCEPT ![d] = "none"]
    /\ taken' = Robbed(d) /\ stale' = Vacated(d)
    /\ UNCHANGED <<memory, disk, engine, engineCfg, rpc, batch, calm, died,
                   lost, writeBad>>

(* Requests, faults and other programs' changes come to an end.             *)
Settle == /\ ~calm /\ calm' = TRUE
          /\ UNCHANGED <<memory, disk, kernel, rpc, batch, died, traces, writeBad>>

-----------------------------------------------------------------------------
Reconcile ==
    \/ Tick \/ Spawn \/ SpawnFails \/ Halt \/ Diff \/ Commit
    \/ \E c \in Cidrs : RouteAdd(c) \/ RouteDelete(c) \/ RouteDeleteFails(c)

Next ==
    \/ Reconcile
    \/ \E config \in Configs, cidrs \in SUBSET Cidrs :
          Ensure(config, cidrs) \/ HelperDiesSaving(EnsureRequest(config, cidrs))
    \/ Stop \/ HelperDiesSaving(StopRequest)
    \/ HelperStarts \/ HelperDies
    \/ EngineReady \/ EngineDies
    \/ \E d \in ForeignDests : ForeignAdds(d) \/ ForeignRemoves(d)
    \/ Settle

Spec == Init /\ [][Next]_vars

(* The reconciler's loop never ends, launchd restarts the helper            *)
(* (KeepAlive), an engine with a configuration brings its utun up.          *)
Fairness == WF_vars(Reconcile) /\ WF_vars(HelperStarts) /\ WF_vars(EngineReady)

FairSpec == Spec /\ Fairness

-----------------------------------------------------------------------------
(* Properties.                                                              *)

(* The engine runs the configuration of the newest request, whatever        *)
(* requests and ticks interleave (config_changed in ensure, ② of reconcile).*)
EngineRunsDesired ==
    Running /\ engine # "none" /\ ~writeBad => engineCfg = desired.config

(* Between two ticks every route on record is in the kernel, on our utun:   *)
(* no route of an engine that has ended stays on record (② and ③ of         *)
(* reconcile, the clearing in ensure and stop), and deleting one text takes *)
(* no other's route.  Excepted is a route another program has taken.        *)
OwnedIsReal ==
    rpc = "sleep" /\ engine # "none" =>
        \A c \in owned : table[Dest[c]] = "ours" \/ Dest[c] \in taken

(* Between two ticks every route on our utun is on record, so that it can   *)
(* be taken back, unless deleting it has failed before.                     *)
NothingLeaks ==
    rpc = "sleep" => \A d \in Dests :
        table[d] = "ours" => d \in lost \/ \E c \in owned : Dest[c] = d

(* No text is on record both as ours and as somebody else's: what is in     *)
(* shadowed is never deleted (to_add of reconcile, the order of its commit). *)
OneOwner == owned \cap shadowed = {}

(* As long as the engine has not ended since the tick looked at it, the     *)
(* batch deletes no route of another program (route_del for owned only),    *)
(* unless that program has put it in the place of ours.                     *)
ForeignKept ==
    [][\A d \in Dests :
          table[d] = "foreign" /\ table'[d] = "none" /\ del' # del =>
              died \/ d \in taken]_vars


(* A restarted helper goes on with what the last answered request asked     *)
(* for, unless saving it went wrong.                                        *)
RestartResumes ==
    [][rpc = "down" /\ rpc' = "sleep" => saveBad \/ desired' = desired]_vars

(* A wanted text has its route, added by us, or there before us.  Neither   *)
(* is looked at again: excepted are routes that others have taken from us,  *)
(* and those of others that have gone (shadowed, main.rs:62: not taken      *)
(* over, not deleted, not tried again).                                     *)
Converged ==
    IF desired.running
      THEN /\ engine = "up"
           /\ \A c \in desired.cidrs :
                 \/ c \in owned /\ (table[Dest[c]] = "ours" \/ Dest[c] \in taken)
                 \/ c \in shadowed /\ (table[Dest[c]] # "none" \/ c \in stale)
           /\ \A d \in Dests \ lost :
                 table[d] = "ours" => \E c \in desired.cidrs : Dest[c] = d
      ELSE engine = "none"

(* Once nothing disturbs it any more, the helper brings engine and routes   *)
(* to what was asked for, and keeps them there (the 2 s reconciler).        *)
Settles == <>[](calm => Converged \/ writeBad)

-----------------------------------------------------------------------------
(* Why the safety properties hold: the parts of an inductive invariant.     *)

(* Only the reconciler starts the engine, and no engine means no utun; a    *)
(* batch has its engine until that ends.                                    *)
EngineInv ==
    /\ rpc = "spawn" => engine = "none"
    /\ engine = "none" => \A d \in Dests : table[d] # "ours"
    /\ rpc \in {"diff", "routes"} => (died <=> engine = "none")

(* The batch: deletions wait for the additions; what is being added is not  *)
(* on record yet; what is being deleted is not wanted.                      *)
BatchInv ==
    /\ rpc # "routes" => /\ add = {} /\ del = {} /\ gone = {} /\ oldShadow = {}
                         /\ newOwned = {} /\ newShadow = {}
    /\ add \cup newOwned \subseteq want
    /\ del \subseteq gone /\ gone \cap want = {}
    /\ add # {} => del = gone
    /\ add \cap (owned \cup shadowed \cup newOwned \cup newShadow) = {}
    /\ (owned \cup newOwned) \cap (shadowed \cup newShadow) = {}
    /\ rpc = "routes" /\ ~died => del \subseteq owned

(* The routes we have at any moment, the batch's changes included.          *)
Held == (owned \cup newOwned) \ (gone \ del)

(* Books and kernel agree, text by text, as long as there is an engine and  *)
(* nobody else has been at the routes.                                      *)
BooksInv ==
    Running /\ engine # "none" =>
        /\ \A c \in Held : table[Dest[c]] = "ours" \/ Dest[c] \in taken
        /\ \A c, e \in owned \cup newOwned :
              Dest[c] = Dest[e] => c = e \/ Dest[c] \in taken
        /\ \A d \in Dests :
              table[d] = "ours" => d \in lost \/ \E c \in Held : Dest[c] = d

(* state.json is what the helper works by, unless saving it went wrong.     *)
SaveInv == ~saveBad => saved = desired

Inductive == /\ TypeOK /\ EngineRunsDesired /\ EngineInv
             /\ BatchInv /\ BooksInv /\ SaveInv

=============================================================================
