-------------------------- MODULE TunHelperProofs --------------------------
(***************************************************************************)
(* Safety of the TUN helper for any set of CIDR texts, destinations and    *)
(* engine configurations, also when several texts name one destination.    *)
(* The parts of Inductive are shown one after the other, each preserved by *)
(* every step given the parts before it.                                   *)
(***************************************************************************)
EXTENDS TunHelper, TLAPS

-----------------------------------------------------------------------------
(* A step is a request, a step of the reconciler, or the world's.           *)
RequestStep ==
    \/ \E config \in Configs, cidrs \in SUBSET Cidrs : Ensure(config, cidrs)
    \/ Stop

HelperEnds ==
    \/ HelperDies \/ HelperDiesSaving(StopRequest)
    \/ \E config \in Configs, cidrs \in SUBSET Cidrs :
          HelperDiesSaving(EnsureRequest(config, cidrs))

WorldStep ==
    \/ EngineReady \/ EngineDies \/ Settle
    \/ \E d \in ForeignDests : ForeignAdds(d) \/ ForeignRemoves(d)

LEMMA NextCases == ASSUME [Next]_vars
                   PROVE  \/ RequestStep \/ Reconcile \/ HelperStarts \/ HelperEnds
                          \/ WorldStep \/ UNCHANGED vars
BY DEF Next, RequestStep, HelperEnds, WorldStep

-----------------------------------------------------------------------------
(* Types.                                                                   *)

LEMMA RequestTypes ==
    ASSUME TypeOK
    PROVE  /\ Default \in Desired /\ StopRequest \in Desired
           /\ \A config \in Configs, cidrs \in SUBSET Cidrs :
                 EnsureRequest(config, cidrs) \in Desired
BY DEF TypeOK, Default, StopRequest, EnsureRequest, Desired

LEMMA SaveType == ASSUME TypeOK, NEW d \in Desired, SaveState(d)
                  PROVE  saved' \in Desired /\ saveBad' \in BOOLEAN
BY RequestTypes DEF TypeOK, SaveState

LEMMA EngineEndsType == ASSUME TypeOK, EngineEnds
                        PROVE  /\ engine' = "none" /\ engineCfg' = NoConfig
                               /\ table' \in [Dests -> {"none", "ours", "foreign"}]
                               /\ \A d \in Dests : table'[d] # "ours"
                               /\ died' = TRUE
                               /\ lost' = {} /\ taken' = {} /\ stale' = {}
BY DEF TypeOK, EngineEnds

LEMMA TypeStep == ASSUME TypeOK, [Next]_vars PROVE TypeOK'
<1> USE DEF memory, disk, kernel, batch, traces
<1>1. CASE RequestStep
  <2>1. ASSUME NEW config \in Configs, NEW cidrs \in SUBSET Cidrs, Ensure(config, cidrs)
        PROVE  TypeOK'
    <3>1. desired' \in Desired BY <2>1, RequestTypes DEF Ensure
    <3>2. saved' \in Desired /\ saveBad' \in BOOLEAN BY <2>1, <3>1, SaveType DEF Ensure
    <3>3. CASE config # desired.config
          BY <2>1, <3>1, <3>2, <3>3, EngineEndsType DEF Ensure, ForgetRoutes, TypeOK
    <3>4. CASE config = desired.config
          BY <2>1, <3>1, <3>2, <3>4 DEF Ensure, EngineStays, TypeOK
    <3> QED BY <3>3, <3>4
  <2>2. CASE Stop
    <3>1. desired' \in Desired BY <2>2, RequestTypes DEF Stop
    <3>2. saved' \in Desired /\ saveBad' \in BOOLEAN BY <2>2, <3>1, SaveType DEF Stop
    <3> QED BY <2>2, <3>1, <3>2, EngineEndsType DEF Stop, ForgetRoutes, TypeOK
  <2> QED BY <1>1, <2>1, <2>2 DEF RequestStep
<1>2. CASE Reconcile
  <2>1. CASE Tick BY <2>1 DEF Tick, TypeOK, Desired
  <2>2. CASE Spawn BY <2>2 DEF Spawn, ForgetRoutes, TypeOK, Desired
  <2>3. CASE SpawnFails BY <2>3 DEF SpawnFails, ForgetRoutes, TypeOK
  <2>4. CASE Halt BY <2>4, EngineEndsType DEF Halt, ForgetRoutes, TypeOK
  <2>5. CASE Diff BY <2>5 DEF Diff, TypeOK
  <2>6. ASSUME NEW c \in Cidrs, RouteAdd(c) PROVE TypeOK'
        BY <2>6 DEF RouteAdd, TypeOK
  <2>7. ASSUME NEW c \in Cidrs, RouteDelete(c) PROVE TypeOK'
        BY <2>7 DEF RouteDelete, Vacated, TypeOK
  <2>8. ASSUME NEW c \in Cidrs, RouteDeleteFails(c) PROVE TypeOK'
    <3>1. Dest[c] \in Dests BY DestAssumption
    <3> QED BY <2>8, <3>1 DEF RouteDeleteFails, TypeOK
  <2>9. CASE Commit BY <2>9 DEF Commit, KeepTraces, TypeOK
  <2> QED BY <1>2, <2>1, <2>2, <2>3, <2>4, <2>5, <2>6, <2>7, <2>8, <2>9 DEF Reconcile
<1>3. CASE HelperStarts
      BY <1>3, EngineEndsType DEF HelperStarts, ForgetRoutes, TypeOK
<1>4. CASE HelperEnds
  <2>1. CASE HelperDies BY <2>1 DEF HelperDies, ForgetBatch, TypeOK
  <2>2. ASSUME NEW d \in Desired, HelperDiesSaving(d) PROVE TypeOK'
        BY <2>2, RequestTypes DEF HelperDiesSaving, ForgetBatch, TypeOK
  <2> QED BY <1>4, <2>1, <2>2, RequestTypes DEF HelperEnds
<1>5. CASE WorldStep
  <2>1. CASE EngineReady BY <2>1 DEF EngineReady, TypeOK
  <2>2. CASE EngineDies BY <2>2, EngineEndsType DEF EngineDies, TypeOK
  <2>3. CASE Settle BY <2>3 DEF Settle, TypeOK
  <2>4. ASSUME NEW d \in ForeignDests, ForeignAdds(d) \/ ForeignRemoves(d)
        PROVE  TypeOK'
    <3>1. d \in Dests BY DestAssumption
    <3> QED BY <2>4, <3>1 DEF ForeignAdds, ForeignRemoves, Robbed, Vacated, TypeOK
  <2> QED BY <1>5, <2>1, <2>2, <2>3, <2>4 DEF WorldStep
<1>6. CASE UNCHANGED vars BY <1>6 DEF vars, TypeOK
<1> QED BY <1>1, <1>2, <1>3, <1>4, <1>5, <1>6, NextCases

-----------------------------------------------------------------------------
(* The engine.                                                              *)

LEMMA EngineStep == ASSUME TypeOK, EngineRunsDesired, EngineInv, [Next]_vars
                    PROVE  EngineRunsDesired' /\ EngineInv'
<1> USE DEF EngineRunsDesired, EngineInv, Running, memory, disk, kernel, batch, traces
<1>1. CASE RequestStep
  <2>1. ASSUME NEW config \in Configs, NEW cidrs \in SUBSET Cidrs, Ensure(config, cidrs)
        PROVE  EngineRunsDesired' /\ EngineInv'
    <3>1. CASE config # desired.config
          BY <2>1, <3>1, EngineEndsType DEF Ensure
    <3>2. CASE config = desired.config
          BY <2>1, <3>2 DEF Ensure, EngineStays, EnsureRequest
    <3> QED BY <3>1, <3>2
  <2>2. CASE Stop BY <2>2, EngineEndsType DEF Stop
  <2> QED BY <1>1, <2>1, <2>2 DEF RequestStep
<1>2. CASE Reconcile
  <2>1. CASE Tick BY <2>1 DEF Tick
  <2>2. CASE Spawn BY <2>2 DEF Spawn
  <2>3. CASE SpawnFails BY <2>3 DEF SpawnFails
  <2>4. CASE Halt BY <2>4, EngineEndsType DEF Halt
  <2>5. CASE Diff BY <2>5 DEF Diff
  <2>6. ASSUME NEW c \in Cidrs, RouteAdd(c) PROVE EngineRunsDesired' /\ EngineInv'
    <3>1. table' = table \/ engine = "up"
      <4>1. CASE table[Dest[c]] # "none" BY <2>6, <4>1 DEF RouteAdd
      <4>2. CASE table[Dest[c]] = "none" /\ engine # "up"
            BY <2>6, <4>2 DEF RouteAdd, Classify
      <4> QED BY <4>1, <4>2
    <3> QED BY <2>6, <3>1 DEF RouteAdd
  <2>7. ASSUME NEW c \in Cidrs, RouteDelete(c) PROVE EngineRunsDesired' /\ EngineInv'
        BY <2>7 DEF RouteDelete, TypeOK
  <2>8. ASSUME NEW c \in Cidrs, RouteDeleteFails(c) PROVE EngineRunsDesired' /\ EngineInv'
        BY <2>8 DEF RouteDeleteFails
  <2>9. CASE Commit BY <2>9 DEF Commit
  <2> QED BY <1>2, <2>1, <2>2, <2>3, <2>4, <2>5, <2>6, <2>7, <2>8, <2>9 DEF Reconcile
<1>3. CASE HelperStarts BY <1>3, EngineEndsType DEF HelperStarts
<1>4. CASE HelperEnds BY <1>4 DEF HelperEnds, HelperDies, HelperDiesSaving
<1>5. CASE WorldStep
  <2>1. CASE EngineReady BY <2>1 DEF EngineReady
  <2>2. CASE EngineDies BY <2>2, EngineEndsType DEF EngineDies
  <2>3. CASE Settle BY <2>3 DEF Settle
  <2>4. ASSUME NEW d \in ForeignDests, ForeignAdds(d) \/ ForeignRemoves(d)
        PROVE  EngineRunsDesired' /\ EngineInv'
        BY <2>4 DEF ForeignAdds, ForeignRemoves, TypeOK
  <2> QED BY <1>5, <2>1, <2>2, <2>3, <2>4 DEF WorldStep
<1>6. CASE UNCHANGED vars BY <1>6 DEF vars
<1> QED BY <1>1, <1>2, <1>3, <1>4, <1>5, <1>6, NextCases

-----------------------------------------------------------------------------
(* The batch.                                                               *)

LEMMA BatchStep == ASSUME TypeOK, BatchInv, [Next]_vars PROVE BatchInv'
<1> USE DEF TypeOK, BatchInv, Running, ForgetRoutes, ForgetBatch, memory, disk, kernel, batch
<1>1. CASE RequestStep
  <2>1. ASSUME NEW config \in Configs, NEW cidrs \in SUBSET Cidrs, Ensure(config, cidrs)
        PROVE  BatchInv'
    <3>1. CASE config # desired.config
          BY <2>1, <3>1 DEF Ensure, EngineEnds
    <3>2. CASE config = desired.config
          BY <2>1, <3>2 DEF Ensure, EngineStays
    <3> QED BY <3>1, <3>2
  <2>2. CASE Stop BY <2>2 DEF Stop, EngineEnds
  <2> QED BY <1>1, <2>1, <2>2 DEF RequestStep
<1>2. CASE Reconcile
  <2>1. CASE Tick BY <2>1 DEF Tick
  <2>2. CASE Spawn BY <2>2 DEF Spawn
  <2>3. CASE SpawnFails BY <2>3 DEF SpawnFails
  <2>4. CASE Halt BY <2>4 DEF Halt, EngineEnds
  <2>5. CASE Diff BY <2>5 DEF Diff
  <2>6. ASSUME NEW c \in Cidrs, RouteAdd(c) PROVE BatchInv'
    <3>1. add' = add \ {c} /\ c \in add BY <2>6 DEF RouteAdd
    <3>2. \/ newOwned' = newOwned \cup {c} /\ newShadow' = newShadow
          \/ newOwned' = newOwned /\ newShadow' = newShadow \cup {c}
          \/ newOwned' = newOwned /\ newShadow' = newShadow
          BY <2>6 DEF RouteAdd, Classify
    <3> QED BY <2>6, <3>1, <3>2 DEF RouteAdd
  <2>7. ASSUME NEW c \in Cidrs, RouteDelete(c) PROVE BatchInv'
        BY <2>7 DEF RouteDelete
  <2>8. ASSUME NEW c \in Cidrs, RouteDeleteFails(c) PROVE BatchInv'
        BY <2>8 DEF RouteDeleteFails
  <2>9. CASE Commit BY <2>9 DEF Commit
  <2> QED BY <1>2, <2>1, <2>2, <2>3, <2>4, <2>5, <2>6, <2>7, <2>8, <2>9 DEF Reconcile
<1>3. CASE HelperStarts BY <1>3 DEF HelperStarts, EngineEnds
<1>4. CASE HelperEnds BY <1>4 DEF HelperEnds, HelperDies, HelperDiesSaving
<1>5. CASE WorldStep
  <2>1. CASE EngineReady BY <2>1 DEF EngineReady
  <2>2. CASE EngineDies BY <2>2 DEF EngineDies, EngineEnds
  <2>3. CASE Settle BY <2>3 DEF Settle
  <2>4. ASSUME NEW d \in ForeignDests, ForeignAdds(d) \/ ForeignRemoves(d)
        PROVE  BatchInv'
        BY <2>4 DEF ForeignAdds, ForeignRemoves
  <2> QED BY <1>5, <2>1, <2>2, <2>3, <2>4 DEF WorldStep
<1>6. CASE UNCHANGED vars BY <1>6 DEF vars
<1> QED BY <1>1, <1>2, <1>3, <1>4, <1>5, <1>6, NextCases

-----------------------------------------------------------------------------
(* The books.                                                               *)

(* Nothing to show while there is no helper or no engine.                   *)
LEMMA BooksIdle == ASSUME rpc' = "down" \/ engine' = "none" PROVE BooksInv'
BY DEF BooksInv, Running

(* Nothing to show when the books do not change, and our routes at most as  *)
(* far as others take them.                                                 *)
LEMMA BooksFrame ==
    ASSUME TypeOK, BooksInv, Running, engine' # "none" => engine # "none",
           UNCHANGED <<owned, newOwned, gone, del>>,
           lost \subseteq lost', taken \subseteq taken',
           \A d \in Dests : /\ table'[d] = "ours" => table[d] = "ours"
                            /\ table[d] = "ours" => table'[d] = "ours" \/ d \in taken'
    PROVE  BooksInv'
<1>1. Held' = Held /\ Held \subseteq Cidrs /\ owned \cup newOwned \subseteq Cidrs
      BY DEF Held, TypeOK
<1>2. \A c \in Cidrs : Dest[c] \in Dests BY DestAssumption
<1>3. CASE engine' = "none" BY <1>3 DEF BooksInv
<1>4. CASE engine' # "none"
  <2>1. /\ \A c \in Held : table[Dest[c]] = "ours" \/ Dest[c] \in taken
        /\ \A c, e \in owned \cup newOwned : Dest[c] = Dest[e] => c = e \/ Dest[c] \in taken
        /\ \A d \in Dests : table[d] = "ours" => d \in lost \/ \E c \in Held : Dest[c] = d
        BY <1>4 DEF BooksInv
  <2>2. \A c \in Held' : table'[Dest[c]] = "ours" \/ Dest[c] \in taken'
        BY <1>1, <1>2, <2>1
  <2>3. \A c, e \in owned' \cup newOwned' : Dest[c] = Dest[e] => c = e \/ Dest[c] \in taken'
        BY <2>1
  <2>4. ASSUME NEW d \in Dests, table'[d] = "ours"
        PROVE  d \in lost' \/ \E c \in Held' : Dest[c] = d
    <3>1. table[d] = "ours" BY <2>4
    <3>2. d \in lost \/ \E c \in Held : Dest[c] = d BY <2>1, <3>1
    <3> QED BY <1>1, <3>2
  <2> QED BY <2>2, <2>3, <2>4 DEF BooksInv
<1> QED BY <1>3, <1>4

(* The reconciler's steps that touch routes or books.                       *)
LEMMA BatchBooks ==
    ASSUME TypeOK, EngineInv, BatchInv, BooksInv, engine # "none",
           \/ Diff \/ Commit
           \/ \E c \in Cidrs : RouteAdd(c) \/ RouteDelete(c) \/ RouteDeleteFails(c)
    PROVE  BooksInv'
<1> USE DEF memory, disk, kernel, traces
<1>0. /\ \A c \in Cidrs : Dest[c] \in Dests
      /\ owned \cup newOwned \subseteq Cidrs /\ Held \subseteq owned \cup newOwned
      BY DestAssumption DEF TypeOK, Held
<1>1. CASE Diff
  <2>1. UNCHANGED <<owned, newOwned, table, lost, taken>> BY <1>1 DEF Diff
  <2>2. Held' = Held BY <1>1, <2>1 DEF Diff, BatchInv, Held
  <2> QED BY <1>1, <2>1, <2>2 DEF Diff, BooksInv, Running
<1>2. CASE Commit
  <2>1. UNCHANGED <<table, lost>> BY <1>2 DEF Commit
  <2>2. Held' = Held /\ owned' = Held BY <1>2 DEF Commit, Held
  <2>3. newOwned' = {} BY <1>2 DEF Commit
  <2>4. \A c \in Held : Dest[c] \in taken => Dest[c] \in taken'
        BY <1>2, <2>2 DEF Commit, KeepTraces
  <2> QED BY <1>0, <1>2, <2>1, <2>2, <2>3, <2>4 DEF Commit, BooksInv, Running
<1>3. ASSUME NEW c \in Cidrs, RouteAdd(c) PROVE BooksInv'
  <2>0. UNCHANGED <<owned, lost, taken>> BY <1>3 DEF RouteAdd
  <2>1. CASE table' = table /\ newOwned' = newOwned
        BY <2>1, <1>3, BooksFrame DEF RouteAdd, Running
  <2>2. CASE table[Dest[c]] = "none" /\ newOwned' = newOwned \cup {c}
             /\ table' = [table EXCEPT ![Dest[c]] = "ours"]
    <3>1. gone \ del = {} /\ gone' \ del' = {}
          BY <1>3 DEF RouteAdd, BatchInv
    <3>2. Held = owned \cup newOwned /\ Held' = Held \cup {c}
          BY <1>3, <2>2, <3>1 DEF RouteAdd, Held
    <3>3. /\ \A e \in Held : table[Dest[e]] = "ours" \/ Dest[e] \in taken
          /\ \A e, f \in Held : Dest[e] = Dest[f] => e = f \/ Dest[e] \in taken
          /\ \A d \in Dests :
                table[d] = "ours" => d \in lost \/ \E e \in Held : Dest[e] = d
          BY <1>3, <3>2 DEF RouteAdd, BooksInv, Running
    <3>4. \A e \in Held : Dest[e] = Dest[c] => Dest[e] \in taken BY <2>2, <3>3
    <3>5. \A e \in Held' : table'[Dest[e]] = "ours" \/ Dest[e] \in taken'
          BY <1>0, <2>0, <2>2, <3>2, <3>3 DEF TypeOK
    <3>6. \A e, f \in owned' \cup newOwned' : Dest[e] = Dest[f] => e = f \/ Dest[e] \in taken'
          BY <2>0, <2>2, <3>2, <3>3, <3>4
    <3>7. ASSUME NEW d \in Dests, table'[d] = "ours"
          PROVE  d \in lost' \/ \E e \in Held' : Dest[e] = d
          BY <2>0, <2>2, <3>2, <3>3, <3>7 DEF TypeOK
    <3> QED BY <3>5, <3>6, <3>7 DEF BooksInv
  <2>3. CASE table[Dest[c]] # "none" BY <1>3, <2>1, <2>3 DEF RouteAdd, Classify
  <2>4. CASE table[Dest[c]] = "none"
        BY <1>3, <2>1, <2>2, <2>4 DEF RouteAdd, Classify
  <2> QED BY <2>3, <2>4
<1>4. ASSUME NEW c \in Cidrs, RouteDelete(c) PROVE BooksInv'
  <2>1. c \in owned /\ c \in Held
        BY <1>4 DEF RouteDelete, EngineInv, BatchInv, Held
  <2>2. Held' = Held \ {c} /\ UNCHANGED <<owned, newOwned, lost, taken>>
        BY <1>4 DEF RouteDelete, BatchInv, Held
  <2>3. /\ \A e \in Held : table[Dest[e]] = "ours" \/ Dest[e] \in taken
        /\ \A e, f \in owned \cup newOwned : Dest[e] = Dest[f] => e = f \/ Dest[e] \in taken
        /\ \A d \in Dests :
              table[d] = "ours" => d \in lost \/ \E e \in Held : Dest[e] = d
        BY <1>4 DEF RouteDelete, BooksInv, Running
  <2>4. \A e \in Held' : Dest[e] = Dest[c] => Dest[e] \in taken
        BY <1>0, <2>1, <2>2, <2>3
  <2>5. \A e \in Held' : table'[Dest[e]] = "ours" \/ Dest[e] \in taken'
        BY <1>0, <1>4, <2>2, <2>3, <2>4 DEF RouteDelete, TypeOK
  <2>6. ASSUME NEW d \in Dests, table'[d] = "ours"
        PROVE  d \in lost' \/ \E e \in Held' : Dest[e] = d
        BY <1>0, <1>4, <2>2, <2>3, <2>6 DEF RouteDelete, TypeOK
  <2> QED BY <2>2, <2>3, <2>5, <2>6 DEF BooksInv
<1>5. ASSUME NEW c \in Cidrs, RouteDeleteFails(c) PROVE BooksInv'
  <2>1. Held' = Held \ {c} BY <1>5 DEF RouteDeleteFails, BatchInv, Held
  <2> QED BY <1>5, <2>1 DEF RouteDeleteFails, BooksInv, Running
<1> QED BY <1>1, <1>2, <1>3, <1>4, <1>5

LEMMA BooksStep == ASSUME TypeOK, EngineInv, BatchInv, BooksInv, [Next]_vars
                   PROVE  BooksInv'
<1> USE DEF memory, disk, kernel, batch, traces
<1>1. CASE RequestStep
  <2>1. ASSUME NEW config \in Configs, NEW cidrs \in SUBSET Cidrs, Ensure(config, cidrs)
        PROVE  BooksInv'
    <3>1. CASE config # desired.config
          BY <2>1, <3>1, BooksIdle DEF Ensure, EngineEnds
    <3>2. CASE config = desired.config
          BY <2>1, <3>2, BooksFrame DEF Ensure, EngineStays
    <3> QED BY <3>1, <3>2
  <2>2. CASE Stop BY <2>2, BooksIdle DEF Stop, EngineEnds
  <2> QED BY <1>1, <2>1, <2>2 DEF RequestStep
<1>2. CASE Reconcile
  <2>1. CASE Tick BY <2>1, BooksFrame DEF Tick, Running
  <2>2. CASE Spawn
    <3>1. \A d \in Dests : table'[d] # "ours" BY <2>2 DEF Spawn, EngineInv
    <3>2. owned' \cup newOwned' = {} BY <2>2 DEF Spawn, ForgetRoutes, BatchInv
    <3> QED BY <3>1, <3>2 DEF BooksInv, Held
  <2>3. CASE SpawnFails BY <2>3, BooksIdle DEF SpawnFails, EngineInv
  <2>4. CASE Halt BY <2>4, BooksIdle DEF Halt, EngineEnds
  <2>5. CASE engine = "none" /\ ~Spawn
    <3>1. engine' = "none"
          BY <1>2, <2>5, <2>1 DEF Reconcile, Tick, SpawnFails, Halt, EngineEnds, Diff,
                                  RouteAdd, RouteDelete, RouteDeleteFails, Commit
    <3> QED BY <3>1, BooksIdle
  <2> QED BY <1>2, <2>1, <2>2, <2>3, <2>4, <2>5, BatchBooks DEF Reconcile
<1>3. CASE HelperStarts BY <1>3, BooksIdle DEF HelperStarts, EngineEnds
<1>4. CASE HelperEnds BY <1>4, BooksIdle DEF HelperEnds, HelperDies, HelperDiesSaving
<1>5. CASE WorldStep
  <2>1. CASE EngineDies BY <2>1, BooksIdle DEF EngineDies, EngineEnds
  <2>2. CASE ~Running
        BY <1>5, <2>1, <2>2, BooksIdle
           DEF WorldStep, Running, EngineReady, Settle, ForeignAdds, ForeignRemoves
  <2>3. CASE EngineReady /\ Running BY <2>3, BooksFrame DEF EngineReady
  <2>4. CASE Settle /\ Running BY <2>4, BooksFrame DEF Settle
  <2>5. ASSUME NEW d \in ForeignDests, ForeignAdds(d) \/ ForeignRemoves(d), Running
        PROVE  BooksInv'
    <3>1. \A x \in Dests : /\ table'[x] = "ours" => table[x] = "ours"
                           /\ table[x] = "ours" => table'[x] = "ours" \/ x \in taken'
          BY <2>5 DEF ForeignAdds, ForeignRemoves, Robbed, TypeOK
    <3>2. taken \subseteq taken' BY <2>5 DEF ForeignAdds, ForeignRemoves, Robbed
    <3> QED BY <2>5, <3>1, <3>2, BooksFrame DEF ForeignAdds, ForeignRemoves
  <2> QED BY <1>5, <2>1, <2>2, <2>3, <2>4, <2>5 DEF WorldStep
<1>6. CASE UNCHANGED vars
  <2>1. CASE Running BY <1>6, <2>1, BooksFrame DEF vars
  <2>2. CASE ~Running BY <1>6, <2>2, BooksIdle DEF vars, Running
  <2> QED BY <2>1, <2>2
<1> QED BY <1>1, <1>2, <1>3, <1>4, <1>5, <1>6, NextCases

-----------------------------------------------------------------------------
(* The state file.                                                          *)

LEMMA SaveStep == ASSUME SaveInv, [Next]_vars PROVE SaveInv'
<1> USE DEF SaveInv, SaveState, disk, memory
<1>1. CASE RequestStep BY <1>1 DEF RequestStep, Ensure, Stop
<1>2. CASE Reconcile
      BY <1>2 DEF Reconcile, Tick, Spawn, SpawnFails, Halt, Diff, RouteAdd, RouteDelete,
                  RouteDeleteFails, Commit
<1>3. CASE HelperStarts BY <1>3 DEF HelperStarts
<1>4. CASE HelperEnds BY <1>4 DEF HelperEnds, HelperDies, HelperDiesSaving
<1>5. CASE WorldStep
      BY <1>5 DEF WorldStep, EngineReady, EngineDies, Settle, ForeignAdds, ForeignRemoves
<1>6. CASE UNCHANGED vars BY <1>6 DEF vars
<1> QED BY <1>1, <1>2, <1>3, <1>4, <1>5, <1>6, NextCases

-----------------------------------------------------------------------------
(* The theorems.                                                            *)

(* All parts together hold in every reachable state.                        *)
THEOREM InductiveInvariant == Spec => []Inductive
<1>1. Init => Inductive
  <2> SUFFICES ASSUME Init PROVE Inductive
    OBVIOUS
  <2>1. TypeOK
        BY RequestTypes DEF Init, TypeOK, Default, Desired
  <2>2. EngineRunsDesired /\ EngineInv BY DEF Init, EngineRunsDesired, EngineInv
  <2>3. BatchInv /\ BooksInv /\ SaveInv
        BY DEF Init, BatchInv, BooksInv, Running, SaveInv
  <2> QED BY <2>1, <2>2, <2>3 DEF Inductive
<1>2. Inductive /\ [Next]_vars => Inductive'
      BY TypeStep, EngineStep, BatchStep, BooksStep, SaveStep DEF Inductive
<1> QED BY <1>1, <1>2, PTL DEF Spec

(* Every variable keeps its type.                                           *)
THEOREM TypeCorrect == Spec => []TypeOK
<1>1. Inductive => TypeOK BY DEF Inductive
<1> QED BY <1>1, InductiveInvariant, PTL

(* The engine runs the configuration of the newest request.                 *)
THEOREM EngineIsCurrent == Spec => []EngineRunsDesired
<1>1. Inductive => EngineRunsDesired BY DEF Inductive
<1> QED BY <1>1, InductiveInvariant, PTL

(* Between two ticks every route on record is in the kernel, unless another *)
(* program has taken it.                                                    *)
THEOREM RecordsAreReal == Spec => []OwnedIsReal
<1>1. Inductive => OwnedIsReal
      BY DEF Inductive, OwnedIsReal, BatchInv, BooksInv, Held, Running
<1> QED BY <1>1, InductiveInvariant, PTL

(* Between two ticks every route of ours in the kernel is on record, or     *)
(* deleting it has failed.                                                  *)
THEOREM RoutesAreRecorded == Spec => []NothingLeaks
<1>1. Inductive => NothingLeaks
      BY DEF Inductive, NothingLeaks, EngineInv, BatchInv, BooksInv, Held, Running
<1> QED BY <1>1, InductiveInvariant, PTL

(* No text is on record both as ours and as somebody else's.                *)
THEOREM OneOwnerEach == Spec => []OneOwner
<1>1. Inductive => OneOwner BY DEF Inductive, OneOwner, BatchInv
<1> QED BY <1>1, InductiveInvariant, PTL

(* While its engine lives, a batch deletes no route of another program,     *)
(* unless that program has put it in the place of ours.                     *)
THEOREM OthersAreSpared == Spec => ForeignKept
<1>1. ASSUME Inductive, Next, NEW d \in Dests, table[d] = "foreign", table'[d] = "none",
             del' # del
      PROVE  died \/ d \in taken
  <2> USE DEF memory, kernel, batch
  <2>1. ASSUME NEW c \in Cidrs, RouteDelete(c), ~died, d \notin taken PROVE FALSE
    <3>1. engine # "none" /\ Running /\ c \in Held
          BY <1>1, <2>1 DEF Inductive, TypeOK, EngineInv, BatchInv, RouteDelete, Running, Held
    <3>2. table[Dest[c]] = "ours" \/ Dest[c] \in taken
          BY <1>1, <3>1 DEF Inductive, BooksInv
    <3>3. Dest[c] # d BY <2>1, <3>2, <1>1
    <3> QED BY <2>1, <3>3, <1>1 DEF RouteDelete, Inductive, TypeOK
  <2>2. CASE Reconcile
    <3>1. CASE Tick \/ Spawn \/ SpawnFails \/ Halt \/ Commit
          BY <1>1, <3>1 DEF Tick, Spawn, SpawnFails, Halt, Commit, Inductive, BatchInv
    <3>2. CASE Diff BY <1>1, <3>2 DEF Diff
    <3>3. ASSUME NEW c \in Cidrs, RouteAdd(c) \/ RouteDeleteFails(c) PROVE FALSE
          BY <1>1, <3>3 DEF RouteAdd, RouteDeleteFails
    <3> QED BY <2>1, <2>2, <3>1, <3>2, <3>3 DEF Reconcile
  <2>3. CASE RequestStep BY <1>1, <2>3 DEF RequestStep, Ensure, Stop
  <2>4. CASE HelperStarts BY <1>1, <2>4 DEF HelperStarts
  <2>5. CASE HelperEnds BY <1>1, <2>5 DEF HelperEnds, HelperDies, HelperDiesSaving
  <2>6. CASE WorldStep
        BY <1>1, <2>6 DEF WorldStep, EngineReady, EngineDies, Settle, ForeignAdds,
                          ForeignRemoves
  <2> QED BY <1>1, <2>2, <2>3, <2>4, <2>5, <2>6, NextCases DEF vars
<1>2. Inductive /\ [Next]_vars =>
         [\A d \in Dests :
             table[d] = "foreign" /\ table'[d] = "none" /\ del' # del =>
                 died \/ d \in taken]_vars
      BY <1>1
<1> QED BY <1>2, InductiveInvariant, PTL DEF Spec, ForeignKept

(* A restarted helper goes on where it was, unless saving went wrong.       *)
THEOREM RestartsResume == Spec => RestartResumes
<1>1. ASSUME Inductive, Next, rpc = "down", rpc' = "sleep"
      PROVE  saveBad \/ desired' = desired
  <2>1. HelperStarts
        BY <1>1, NextCases
           DEF RequestStep, Ensure, Stop, Reconcile, Tick, Spawn, SpawnFails, Halt, Diff,
               RouteAdd, RouteDelete, RouteDeleteFails, Commit, HelperEnds, HelperDies,
               HelperDiesSaving, WorldStep, EngineReady, EngineDies, Settle, ForeignAdds,
               ForeignRemoves, vars, Running
  <2> QED BY <1>1, <2>1 DEF HelperStarts, Inductive, SaveInv
<1>2. Inductive /\ [Next]_vars =>
         [rpc = "down" /\ rpc' = "sleep" => saveBad \/ desired' = desired]_vars
      BY <1>1
<1> QED BY <1>2, InductiveInvariant, PTL DEF Spec, RestartResumes

=============================================================================
