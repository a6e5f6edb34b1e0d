-------------------------- MODULE RuleReloadProofs --------------------------
(***************************************************************************)
(* Safety of hot reload for any number of requests, channels, patterns and *)
(* commits: the parts of Inductive one after the other, each by a step     *)
(* from the earlier ones, then what follows from them.                     *)
(***************************************************************************)
EXTENDS RuleReload, TLAPS

-----------------------------------------------------------------------------
(* Types.                                                                   *)

(* Every rule line names a pattern and a channel of the model.              *)
LEMMA EmittedType == ASSUME NEW rs \in SUBSET Rule
                     PROVE  Emitted(rs) \in SUBSET (Patterns \X Channels)
BY DEF Emitted, Rule

(* Enabling or disabling rows leaves rows.                                  *)
LEMMA SwitchedType == ASSUME NEW rs \in SUBSET Rule, NEW S \in SUBSET rs, NEW on \in BOOLEAN
                      PROVE  Switched(rs, S, on) \in SUBSET Rule
BY DEF Switched, Rule

(* The rows a commit inserts are rows, as long as the bound admits it.      *)
LEMMA NewRulesType == ASSUME ver \in 0..MaxVer, ver < MaxVer, NEW c \in Channels,
                             NEW P \in SUBSET Patterns, NEW on \in BOOLEAN
                      PROVE  NewRules(c, P, on) \in SUBSET Rule
BY MaxVerAssumption DEF NewRules, Rule

LEMMA ConstantTypes == {NoFile, Truncated, Template} \subseteq Config
BY MaxVerAssumption DEF NoFile, Truncated, Template, Config

(* A finished rebuild keeps the types.                                      *)
LEMMA ReturnType == ASSUME TypeOK, NEW p \in Procs, NEW ok \in BOOLEAN, Return(p, ok)
                    PROVE  /\ lock' \in Procs \cup {Free} /\ snap' \in Config
                           /\ pc' \in [Procs -> PcValues] /\ pc'[p] = "idle"
                           /\ \A o \in Procs \ {p} : pc'[o] = pc[o] /\ chan'[o] = chan[o]
                           /\ chan' \in [Procs -> Channels \cup {NoChannel}]
                           /\ todo' \in [Procs -> SUBSET Patterns]
                           /\ strict' \in [Procs -> BOOLEAN]
                           /\ need' \in [Procs -> 0..MaxVer]
                           /\ serving' \in BOOLEAN /\ excuse' \in BOOLEAN
                           /\ lost' \in BOOLEAN
                           /\ acked' \in 0..MaxVer /\ confirmed' \in 0..MaxVer
<1>1. snap.ver \in 0..MaxVer BY DEF TypeOK, Config
<1>2. acked' \in 0..MaxVer /\ confirmed' \in 0..MaxVer
      BY <1>1 DEF TypeOK, Return, Newer
<1>3. lock' \in Procs \cup {Free} /\ snap' \in Config /\ excuse' \in BOOLEAN
      BY ConstantTypes DEF TypeOK, Return
<1>4. serving' \in BOOLEAN /\ lost' \in BOOLEAN BY DEF TypeOK, Return
<1>5. /\ pc' \in [Procs -> PcValues] /\ pc'[p] = "idle"
      /\ \A o \in Procs \ {p} : pc'[o] = pc[o] /\ chan'[o] = chan[o]
      BY DEF TypeOK, Return, Leave, PcValues
<1>6. need' \in [Procs -> 0..MaxVer]
      BY MaxVerAssumption DEF TypeOK, Return, Leave
<1>7. /\ chan' \in [Procs -> Channels \cup {NoChannel}]
      /\ todo' \in [Procs -> SUBSET Patterns] /\ strict' \in [Procs -> BOOLEAN]
      BY DEF TypeOK, Return, Leave
<1> QED BY <1>2, <1>3, <1>4, <1>5, <1>6, <1>7

LEMMA InitType == Init => TypeOK
<1> SUFFICES ASSUME Init PROVE TypeOK
  OBVIOUS
<1>1. hostCfg \in Config /\ ctrCfg \in Config /\ liveCfg \in Config /\ snap \in Config
      BY ConstantTypes DEF Init
<1>2. pc \in [Procs -> PcValues] /\ \A p \in Procs : pc[p] \in {"ensure", "idle"}
      BY DEF Init, PcValues
<1>3. chan \in [Procs -> Channels \cup {NoChannel}] /\ todo \in [Procs -> SUBSET Patterns]
      BY DEF Init
<1>4. need \in [Procs -> 0..MaxVer] /\ ver \in 0..MaxVer
      BY MaxVerAssumption DEF Init
<1>5. acked \in 0..MaxVer /\ confirmed \in 0..MaxVer
      BY MaxVerAssumption DEF Init
<1>6. strict \in [Procs -> BOOLEAN] /\ lock \in Procs \cup {Free}
      BY DEF Init
<1> QED BY <1>1, <1>2, <1>3, <1>4, <1>5, <1>6 DEF Init, TypeOK

LEMMA StepType == ASSUME TypeOK, NEW p \in Procs, Step(p)
                  PROVE  TypeOK'
<1> USE MaxVerAssumption DEF TypeOK, Goto, dbVars, cfgVars, mihomo, taskVars, lockVars,
                             history, PcValues, Critical
<1>1. CASE PlanRules(p) BY <1>1 DEF PlanRules
<1>2. CASE InsertFails(p) BY <1>2 DEF InsertFails, FailEarly, Leave
<1>3. ASSUME NEW q \in Patterns, InsertRule(p, q) PROVE TypeOK'
  <2>1. chan[p] \in Channels /\ ver < MaxVer BY <1>3 DEF InsertRule, Commit
  <2>2. NewRules(chan[p], {q}, TRUE) \in SUBSET Rule BY <2>1, NewRulesType
  <2>3. ver' \in 0..MaxVer /\ need' \in [Procs -> 0..MaxVer]
        BY <1>3 DEF InsertRule, Commit
  <2>4. rules' \in SUBSET Rule /\ todo' \in [Procs -> SUBSET Patterns]
        BY <1>3, <2>2 DEF InsertRule
  <2>5. /\ pc' \in [Procs -> PcValues]
        /\ \A o \in Procs \ {p} : pc'[o] = pc[o]
        BY <1>3 DEF InsertRule
  <2> QED BY <1>3, <2>1, <2>3, <2>4, <2>5 DEF InsertRule
<1>4. CASE Provisioned(p) BY <1>4 DEF Provisioned
<1>5. CASE ProvisionFails(p) BY <1>5 DEF ProvisionFails, FailEarly, Leave
<1>6. CASE CascadeDelete(p) BY <1>6 DEF CascadeDelete, Commit
<1>7. CASE RemoveFails(p) BY <1>7 DEF RemoveFails, FailEarly, Leave
<1>8. CASE Acquire(p) BY <1>8 DEF Acquire
<1>9. CASE ReadChannels(p)
  <2>1. snap' \in Config BY <1>9 DEF ReadChannels, Config
  <2> QED BY <1>9, <2>1 DEF ReadChannels
<1>10. CASE ReadRules(p)
  <2>1. snap' \in Config BY <1>10, EmittedType DEF ReadRules, Config
  <2> QED BY <1>10, <2>1 DEF ReadRules
<1>11. CASE WriteHost(p)
  <2>1. snap' \in Config BY <1>11 DEF WriteHost, MergedBase, Config
  <2> QED BY <1>11, <2>1 DEF WriteHost
<1>12. CASE RebuildFails(p) BY <1>12, ReturnType DEF RebuildFails
<1>13. CASE Deliver(p) BY <1>13 DEF Deliver
<1>14. CASE DeliverFails(p) BY <1>14, ReturnType DEF DeliverFails
<1>15. CASE Reload(p)
  <2>1. Loads(ctrCfg) \in BOOLEAN BY DEF Loads
  <2> QED BY <1>15, <2>1, ReturnType DEF Reload, MihomoReads
<1>16. CASE ReloadFails(p) BY <1>16, ReturnType DEF ReloadFails
<1> QED BY <1>1, <1>2, <1>3, <1>4, <1>5, <1>6, <1>7, <1>8, <1>9, <1>10, <1>11, <1>12,
           <1>13, <1>14, <1>15, <1>16 DEF Step

LEMMA RequestType == ASSUME TypeOK, NEW p \in Clients, Request(p) \/ Abandon(p)
                     PROVE  TypeOK'
<1> USE MaxVerAssumption DEF TypeOK, Goto, dbVars, cfgVars, mihomo, taskVars, lockVars,
                             history, PcValues, Critical
<1>0. p \in Procs BY DEF Procs
<1>1. ASSUME NEW c \in Channels, NEW P \in SUBSET Patterns, BeginAddRules(p, c, P)
      PROVE  TypeOK'
      BY <1>0, <1>1 DEF BeginAddRules
<1>2. ASSUME NEW c \in Channels, CreateChannel(p, c) PROVE TypeOK'
      BY <1>0, <1>2 DEF CreateChannel, Commit
<1>3. ASSUME NEW c \in Channels, Reprovision(p, c) PROVE TypeOK'
      BY <1>0, <1>3 DEF Reprovision
<1>4. ASSUME NEW c \in Channels, BeginDelete(p, c) PROVE TypeOK'
      BY <1>0, <1>4 DEF BeginDelete
<1>5. ASSUME NEW c \in Channels, NEW On \in SUBSET Patterns, NEW Off \in SUBSET Patterns,
             ImportConfig(p, c, On, Off)
      PROVE  TypeOK'
  <2>1. ver < MaxVer BY <1>5 DEF ImportConfig, Commit
  <2>2. rules' \in SUBSET Rule BY <1>5, <2>1, NewRulesType DEF ImportConfig
  <2>3. ver' \in 0..MaxVer /\ need' \in [Procs -> 0..MaxVer]
        BY <1>0, <1>5 DEF ImportConfig, Commit
  <2>4. /\ pc' \in [Procs -> PcValues] /\ pc'[p] = "want"
        /\ \A o \in Procs \ {p} : pc'[o] = pc[o]
        BY <1>0, <1>5 DEF ImportConfig
  <2> QED BY <1>0, <1>5, <2>2, <2>3, <2>4 DEF ImportConfig
<1>6. ASSUME NEW newRules \in SUBSET Rule, ChangeRules(p, newRules) PROVE TypeOK'
      BY <1>0, <1>6 DEF ChangeRules, Commit
<1>7. ASSUME NEW r \in rules, DelRule(p, r) PROVE TypeOK'
      BY <1>6, <1>7 DEF DelRule
<1>8. ASSUME NEW r \in rules, NEW on \in BOOLEAN, PatchRule(p, r, on) PROVE TypeOK'
      BY <1>6, <1>8, SwitchedType DEF PatchRule
<1>9. ASSUME NEW S \in SUBSET rules, NEW on \in BOOLEAN, PatchRules(p, S, on)
      PROVE  TypeOK'
      BY <1>6, <1>9, SwitchedType DEF PatchRules
<1>10. CASE Abandon(p)
       BY <1>0, <1>10, ConstantTypes DEF Abandon, Leave
<1> QED BY <1>1, <1>2, <1>3, <1>4, <1>5, <1>7, <1>8, <1>9, <1>10 DEF Request

LEMMA OutsideType == ASSUME TypeOK,
                            \/ Crash \/ EnsureSkips \/ EnsureMihomo \/ EnsureFails
                            \/ MihomoDown \/ MihomoUp \/ LateReload
                     PROVE  TypeOK'
<1> USE MaxVerAssumption, ConstantTypes
    DEF TypeOK, Goto, dbVars, cfgVars, mihomo, taskVars, lockVars, history, PcValues,
        Critical
<1>0. Boot \in Procs BY DEF Procs
<1>1. CASE Crash
  <2>1. /\ pc' \in [Procs -> PcValues]
        /\ \A p \in Procs : pc'[p] \in {"ensure", "idle"}
        BY <1>1 DEF Crash
  <2>2. /\ chan' \in [Procs -> Channels \cup {NoChannel}]
        /\ todo' \in [Procs -> SUBSET Patterns] /\ strict' \in [Procs -> BOOLEAN]
        BY <1>1 DEF Crash
  <2>3. need' \in [Procs -> 0..MaxVer] BY <1>1 DEF Crash
  <2> QED BY <1>1, <2>1, <2>2, <2>3 DEF Crash
<1>2. CASE EnsureSkips BY <1>0, <1>2 DEF EnsureSkips
<1>3. CASE EnsureMihomo BY <1>0, <1>3 DEF EnsureMihomo, Seeded
<1>4. CASE EnsureFails BY <1>4 DEF EnsureFails, Seeded
<1>5. CASE MihomoDown BY <1>5 DEF MihomoDown
<1>6. CASE MihomoUp
  <2>1. Serves(ctrCfg) \in BOOLEAN BY DEF Serves
  <2> QED BY <1>6, <2>1 DEF MihomoUp
<1>7. CASE LateReload BY <1>7 DEF LateReload, MihomoReads
<1> QED BY <1>1, <1>2, <1>3, <1>4, <1>5, <1>6, <1>7

LEMMA TypeStep == TypeOK /\ [Next]_vars => TypeOK'
<1>1. TypeOK /\ UNCHANGED vars => TypeOK'
      BY DEF TypeOK, vars, dbVars, cfgVars, mihomo, taskVars, lockVars, history
<1> QED BY <1>1, StepType, RequestType, OutsideType DEF Next

(* Every variable keeps its type, and a task that is about to change rows   *)
(* for a channel has been given one.                                        *)
THEOREM TypeCorrect == Spec => []TypeOK
BY InitType, TypeStep, PTL DEF Spec

-----------------------------------------------------------------------------
(* Steps outside rebuild: the task stays outside, the configurations and    *)
(* the lock are not touched, and at most one commit is made, which the task *)
(* remembers.                                                               *)
HandlerStep(p) ==
    /\ pc[p] \notin Critical /\ pc[p] # "ensure"
    /\ pc[p] = "idle" => p \in Clients /\ serving
    /\ UNCHANGED <<serving, cfgVars, mihomo, lockVars, acked, confirmed, lost>>
    /\ pc' = [pc EXCEPT ![p] = pc'[p]] /\ pc'[p] \notin Critical
    /\ \/ /\ pc'[p] # "idle" /\ UNCHANGED <<need, excuse>>
          /\ UNCHANGED <<channels, rules, ver>>
       \/ /\ pc'[p] # "idle" /\ UNCHANGED excuse
          /\ ver' = ver + 1 /\ need' = [need EXCEPT ![p] = ver + 1]
       \/ /\ need' = [need EXCEPT ![p] = 0] /\ excuse' = TRUE
          /\ UNCHANGED <<channels, rules, ver>>

LEMMA TaskHandlerStep ==
    ASSUME TypeOK, NEW p \in Procs,
           \/ PlanRules(p) \/ InsertFails(p)
           \/ \E q \in Patterns : InsertRule(p, q)
           \/ Provisioned(p) \/ ProvisionFails(p)
           \/ CascadeDelete(p) \/ RemoveFails(p)
    PROVE  HandlerStep(p)
<1> USE DEF TypeOK, HandlerStep, Goto, dbVars, cfgVars, mihomo, lockVars, history, Critical
<1>1. CASE PlanRules(p) BY <1>1 DEF PlanRules
<1>2. CASE InsertFails(p) BY <1>2 DEF InsertFails, FailEarly, Leave
<1>3. ASSUME NEW q \in Patterns, InsertRule(p, q) PROVE HandlerStep(p)
      BY <1>3 DEF InsertRule, Commit
<1>4. CASE Provisioned(p) BY <1>4 DEF Provisioned
<1>5. CASE ProvisionFails(p) BY <1>5 DEF ProvisionFails, FailEarly, Leave
<1>6. CASE CascadeDelete(p) BY <1>6 DEF CascadeDelete, Commit
<1>7. CASE RemoveFails(p) BY <1>7 DEF RemoveFails, FailEarly, Leave
<1> QED BY <1>1, <1>2, <1>3, <1>4, <1>5, <1>6, <1>7

LEMMA RequestHandlerStep == ASSUME TypeOK, NEW p \in Clients, Request(p)
                            PROVE  HandlerStep(p)
<1> USE DEF TypeOK, HandlerStep, Idle, Goto, dbVars, cfgVars, mihomo, lockVars, history,
            Procs, Critical
<1>1. ASSUME NEW c \in Channels, NEW P \in SUBSET Patterns, BeginAddRules(p, c, P)
      PROVE  HandlerStep(p)
      BY <1>1 DEF BeginAddRules
<1>2. ASSUME NEW c \in Channels, CreateChannel(p, c) PROVE HandlerStep(p)
      BY <1>2 DEF CreateChannel, Commit
<1>3. ASSUME NEW c \in Channels, Reprovision(p, c) PROVE HandlerStep(p)
      BY <1>3 DEF Reprovision
<1>4. ASSUME NEW c \in Channels, BeginDelete(p, c) PROVE HandlerStep(p)
      BY <1>4 DEF BeginDelete
<1>5. ASSUME NEW c \in Channels, NEW On \in SUBSET Patterns, NEW Off \in SUBSET Patterns,
             ImportConfig(p, c, On, Off)
      PROVE  HandlerStep(p)
      BY <1>5 DEF ImportConfig, Commit
<1>6. ASSUME NEW newRules, ChangeRules(p, newRules) PROVE HandlerStep(p)
      BY <1>6 DEF ChangeRules, Commit
<1>7. ASSUME NEW r \in rules, DelRule(p, r) PROVE HandlerStep(p)
      BY <1>6, <1>7 DEF DelRule
<1>8. ASSUME NEW r \in rules, NEW on \in BOOLEAN, PatchRule(p, r, on) PROVE HandlerStep(p)
      BY <1>6, <1>8 DEF PatchRule
<1>9. ASSUME NEW S \in SUBSET rules, NEW on \in BOOLEAN, PatchRules(p, S, on)
      PROVE  HandlerStep(p)
      BY <1>6, <1>9 DEF PatchRules
<1> QED BY <1>1, <1>2, <1>3, <1>4, <1>5, <1>7, <1>8, <1>9 DEF Request

(* The steps of rebuild, which only the holder of the lock takes.           *)
RebuildStep(p) ==
    \/ Acquire(p) \/ ReadChannels(p) \/ ReadRules(p) \/ WriteHost(p)
    \/ RebuildFails(p)
    \/ Deliver(p) \/ DeliverFails(p) \/ Reload(p) \/ ReloadFails(p)

(* What happens to the process and to mihomo.                               *)
OutsideStep ==
    \/ Crash \/ EnsureSkips \/ EnsureMihomo \/ EnsureFails
    \/ MihomoDown \/ MihomoUp \/ LateReload

LEMMA NextCases == TypeOK /\ [Next]_vars => \/ \E p \in Procs : HandlerStep(p) \/ RebuildStep(p)
                                            \/ \E p \in Clients : Abandon(p)
                                            \/ OutsideStep
                                            \/ UNCHANGED vars
<1> SUFFICES ASSUME TypeOK, [Next]_vars
             PROVE  \/ \E p \in Procs : HandlerStep(p) \/ RebuildStep(p)
                    \/ \E p \in Clients : Abandon(p)
                    \/ OutsideStep
                    \/ UNCHANGED vars
  OBVIOUS
<1>1. ASSUME NEW p \in Procs, Step(p) PROVE HandlerStep(p) \/ RebuildStep(p)
      BY <1>1, TaskHandlerStep DEF Step, RebuildStep
<1>2. ASSUME NEW p \in Clients, Request(p) PROVE \E o \in Procs : HandlerStep(o)
      BY <1>2, RequestHandlerStep DEF Procs
<1> QED BY <1>1, <1>2 DEF Next, OutsideStep

(* How a rebuild ends, as far as control is concerned.                      *)
LEMMA ReturnControl == ASSUME TypeOK, NEW p \in Procs, NEW ok, Return(p, ok)
                       PROVE  /\ lock' = Free
                              /\ pc' = [pc EXCEPT ![p] = "idle"]
                              /\ need' = [need EXCEPT ![p] = 0]
                              /\ serving' = (serving \/ p = Boot)
BY DEF Return, Leave

-----------------------------------------------------------------------------
(* The lock.                                                                *)

LEMMA InitLock == Init => LockInv
BY ProcsAssumption DEF Init, LockInv, Procs, Critical

LEMMA LockStep == ASSUME TypeOK, LockInv, [Next]_vars
                  PROVE  LockInv'
<1> USE ProcsAssumption DEF TypeOK, LockInv, Procs, Critical, lockVars
<1>1. ASSUME NEW p \in Procs, HandlerStep(p) PROVE LockInv'
      BY <1>1 DEF HandlerStep
<1>2. ASSUME NEW p \in Procs, RebuildStep(p) PROVE LockInv'
  <2>1. CASE Acquire(p) BY <2>1 DEF Acquire, Goto
  <2>2. CASE ReadChannels(p) BY <2>2 DEF ReadChannels, Goto
  <2>3. CASE ReadRules(p) BY <2>3 DEF ReadRules, Goto
  <2>4. CASE WriteHost(p) BY <2>4 DEF WriteHost, Goto
  <2>5. CASE Deliver(p) BY <2>5 DEF Deliver, Goto
  <2>6. ASSUME NEW ok, Return(p, ok), pc[p] \in Critical PROVE LockInv'
        BY <2>6, ReturnControl
  <2> QED BY <1>2, <2>1, <2>2, <2>3, <2>4, <2>5, <2>6
          DEF RebuildStep, RebuildFails, DeliverFails, Reload, ReloadFails
<1>3. ASSUME NEW p \in Clients, Abandon(p) PROVE LockInv'
      BY <1>3 DEF Abandon, Leave
<1>4. CASE OutsideStep
  <2>1. CASE Crash BY <2>1 DEF Crash
  <2>2. CASE EnsureSkips BY <2>2 DEF EnsureSkips, Goto
  <2>3. CASE EnsureMihomo BY <2>3 DEF EnsureMihomo, Goto
  <2>4. CASE EnsureFails BY <2>4 DEF EnsureFails, taskVars
  <2>5. CASE MihomoDown BY <2>5 DEF MihomoDown, taskVars
  <2>6. CASE MihomoUp BY <2>6 DEF MihomoUp, taskVars
  <2>7. CASE LateReload BY <2>7 DEF LateReload, taskVars
  <2> QED BY <1>4, <2>1, <2>2, <2>3, <2>4, <2>5, <2>6, <2>7 DEF OutsideStep
<1>5. CASE UNCHANGED vars BY <1>5 DEF vars, taskVars
<1> QED BY <1>1, <1>2, <1>3, <1>4, <1>5, NextCases

-----------------------------------------------------------------------------
(* What the holder of the lock has read, and the order of the copies.       *)

LEMMA InitSnap == Init => SnapInv /\ Pipeline
BY DEF Init, SnapInv, Pipeline, NoFile

LEMMA Versions == ASSUME TypeOK
                  PROVE  /\ ver \in Nat /\ snap.ver \in Nat /\ hostCfg.ver \in Nat
                         /\ ctrCfg.ver \in Nat /\ liveCfg.ver \in Nat
                         /\ \A p \in Procs : need[p] \in Nat
BY MaxVerAssumption DEF TypeOK, Config

(* Nobody is inside rebuild while boot has not got that far.                *)
LEMMA EnsureAlone == ASSUME LockInv, pc[Boot] = "ensure"
                     PROVE  \A p \in Procs : pc[p] \notin Critical
BY DEF LockInv, Procs, Critical

LEMMA SeededVer == ASSUME TypeOK, BaseInv
                   PROVE  Seeded.ver = hostCfg.ver /\ Seeded \in Config
BY ConstantTypes DEF TypeOK, BaseInv, Seeded, Template, NoFile, Truncated

LEMMA SnapStep == ASSUME TypeOK, LockInv, SnapInv, Pipeline, BaseInv, [Next]_vars, TypeOK'
                  PROVE  SnapInv'
<1> USE Versions DEF SnapInv, Critical
<1>1. ASSUME NEW p \in Procs, HandlerStep(p) PROVE SnapInv'
      BY <1>1 DEF HandlerStep, TypeOK, cfgVars, lockVars
<1>2. ASSUME NEW p \in Procs, RebuildStep(p) PROVE SnapInv'
  <2> USE DEF TypeOK, LockInv, Goto, dbVars, cfgVars, lockVars
  <2>1. CASE Acquire(p) BY <2>1 DEF Acquire
  <2>2. CASE ReadChannels(p)
    <3>1. snap'.ver = ver BY <2>2 DEF ReadChannels, Config
    <3> QED BY <2>2, <3>1 DEF ReadChannels, Pipeline
  <2>3. CASE ReadRules(p)
    <3>1. snap'.ver = snap.ver BY <2>3 DEF ReadRules, Config
    <3> QED BY <2>3, <3>1 DEF ReadRules
  <2>4. CASE WriteHost(p)
    <3>1. hostCfg'.ver = snap.ver /\ snap' = hostCfg' BY <2>4 DEF WriteHost, Config
    <3> QED BY <2>4, <3>1 DEF WriteHost
  <2>5. CASE Deliver(p) BY <2>5 DEF Deliver
  <2>6. ASSUME NEW ok, Return(p, ok), pc[p] \in Critical, UNCHANGED <<dbVars, hostCfg>>
        PROVE  SnapInv'
        BY <2>6, ReturnControl
  <2> QED BY <1>2, <2>1, <2>2, <2>3, <2>4, <2>5, <2>6
          DEF RebuildStep, RebuildFails, DeliverFails, Reload, ReloadFails
<1>3. ASSUME NEW p \in Clients, Abandon(p) PROVE SnapInv'
      BY <1>3 DEF Abandon, Leave, TypeOK, LockInv, Procs, dbVars, cfgVars
<1>4. CASE OutsideStep
  <2>1. CASE Crash BY <2>1 DEF Crash, dbVars
  <2>2. CASE EnsureSkips \/ EnsureMihomo \/ EnsureFails
        BY <2>2, EnsureAlone
           DEF EnsureSkips, EnsureMihomo, EnsureFails, TypeOK, Goto, dbVars, taskVars
  <2>3. CASE MihomoDown BY <2>3 DEF MihomoDown, taskVars, dbVars, cfgVars, lockVars
  <2>4. CASE MihomoUp BY <2>4 DEF MihomoUp, taskVars, dbVars, lockVars
  <2>5. CASE LateReload BY <2>5 DEF LateReload, taskVars, dbVars, lockVars
  <2> QED BY <1>4, <2>1, <2>2, <2>3, <2>4, <2>5 DEF OutsideStep
<1>5. CASE UNCHANGED vars
      BY <1>5 DEF vars, taskVars, dbVars, cfgVars, lockVars
<1> QED BY <1>1, <1>2, <1>3, <1>4, <1>5, NextCases

(* No step takes a copy back, but boot when it falls back on the template;  *)
(* and the copies stay in order.                                            *)
Forward == /\ hostCfg.ver <= hostCfg'.ver
           /\ FallsBack \/ (/\ ctrCfg.ver <= ctrCfg'.ver
                            /\ liveCfg.ver <= liveCfg'.ver)

LEMMA PipelineStep == ASSUME TypeOK, LockInv, SnapInv, Pipeline, BaseInv, [Next]_vars
                      PROVE  Pipeline' /\ Forward
<1> USE Versions DEF Pipeline, Forward
<1>1. ASSUME NEW p \in Procs, HandlerStep(p) PROVE Pipeline' /\ Forward
      BY <1>1 DEF HandlerStep, cfgVars
<1>2. ASSUME NEW p \in Procs, RebuildStep(p) PROVE Pipeline' /\ Forward
  <2> USE DEF dbVars, cfgVars
  <2>1. ASSUME UNCHANGED <<dbVars, cfgVars>> PROVE Pipeline' /\ Forward
        BY <2>1
  <2>2. CASE Acquire(p) BY <2>1, <2>2 DEF Acquire
  <2>3. CASE ReadChannels(p) BY <2>1, <2>3 DEF ReadChannels
  <2>4. CASE ReadRules(p) BY <2>1, <2>4 DEF ReadRules
  <2>5. CASE WriteHost(p)
    <3>1. hostCfg'.ver = snap.ver BY <2>5 DEF WriteHost, TypeOK, Config
    <3>2. hostCfg.ver <= snap.ver /\ snap.ver <= ver BY <2>5 DEF WriteHost, SnapInv
    <3> QED BY <2>5, <3>1, <3>2 DEF WriteHost
  <2>6. CASE RebuildFails(p) BY <2>1, <2>6 DEF RebuildFails
  <2>7. ASSUME pc[p] = "deliver" PROVE snap.ver = hostCfg.ver
        BY <2>7 DEF SnapInv
  <2>8. CASE Deliver(p) BY <2>7, <2>8 DEF Deliver
  <2>9. CASE DeliverFails(p) BY <2>7, <2>9 DEF DeliverFails
  <2>10. CASE Reload(p) BY <2>10 DEF Reload, MihomoReads
  <2>11. CASE ReloadFails(p) BY <2>1, <2>11 DEF ReloadFails
  <2> QED BY <1>2, <2>2, <2>3, <2>4, <2>5, <2>6, <2>8, <2>9, <2>10, <2>11 DEF RebuildStep
<1>3. ASSUME NEW p \in Clients, Abandon(p) PROVE Pipeline' /\ Forward
      BY <1>3 DEF Abandon, SnapInv, Procs, dbVars
<1>4. CASE OutsideStep
  <2> USE DEF dbVars, cfgVars
  <2>1. CASE Crash BY <2>1 DEF Crash, InFlight, SnapInv
  <2>2. CASE EnsureSkips BY <2>2 DEF EnsureSkips
  <2>6. Template.ver = 0 /\ Seeded.ver = hostCfg.ver BY SeededVer DEF Template
  <2>7. CASE EnsureMihomo
    <3>1. PICK delivered \in {Seeded, Template} :
             /\ hostCfg' = Seeded /\ ctrCfg' = delivered /\ liveCfg' = delivered
             /\ lost' = (delivered # Seeded)
          BY <2>7 DEF EnsureMihomo
    <3>2. CASE delivered = Seeded BY <2>6, <2>7, <3>1, <3>2 DEF EnsureMihomo
    <3>3. CASE delivered # Seeded
      <4>1. delivered = Template /\ lost' BY <3>1, <3>3
      <4> QED BY <2>6, <2>7, <3>1, <4>1 DEF EnsureMihomo, FallsBack
    <3> QED BY <3>2, <3>3
  <2>8. CASE EnsureFails
    <3>1. Truncated.ver = 0 BY DEF Truncated
    <3>2. hostCfg.base = "absent" => hostCfg.ver = 0 BY DEF BaseInv, NoFile, Truncated
    <3>3. CASE /\ hostCfg' \in {hostCfg, Seeded} \cup {cfg \in {Truncated} : hostCfg.base = "absent"}
               /\ UNCHANGED <<ctrCfg, liveCfg>>
          BY <2>6, <2>8, <3>1, <3>2, <3>3 DEF EnsureFails
    <3>4. CASE hostCfg' = Seeded /\ ctrCfg' = Seeded /\ UNCHANGED liveCfg
          BY <2>6, <2>8, <3>4 DEF EnsureFails
    <3>5. CASE hostCfg' = Seeded /\ ctrCfg' = Template /\ liveCfg' = Template /\ lost'
          BY <2>6, <2>8, <3>5 DEF EnsureFails, FallsBack
    <3> QED BY <2>8, <3>3, <3>4, <3>5 DEF EnsureFails
  <2>3. CASE MihomoDown \/ MihomoUp BY <2>3 DEF MihomoDown, MihomoUp
  <2>4. CASE LateReload BY <2>4 DEF LateReload, MihomoReads
  <2> QED BY <1>4, <2>1, <2>2, <2>3, <2>4, <2>7, <2>8 DEF OutsideStep
<1>5. CASE UNCHANGED vars
      BY <1>5 DEF vars, dbVars, cfgVars
<1> QED BY <1>1, <1>2, <1>3, <1>4, <1>5, NextCases

-----------------------------------------------------------------------------
(* A copy with the newest version number has the newest content.            *)

LEMMA InitExact == Init => ExactInv
BY DEF Init, ExactInv, Exact, Emitted, NoFile

LEMMA ExactStep ==
    ASSUME TypeOK, LockInv, SnapInv, Pipeline, ExactInv, BaseInv, [Next]_vars, TypeOK'
    PROVE  ExactInv'
<1> USE Versions DEF ExactInv, Exact
<1>1. ASSUME NEW p \in Procs, HandlerStep(p) PROVE ExactInv'
  <2>1. \A o \in Procs : pc'[o] \in {"rules", "write"} => pc'[o] = pc[o]
        BY <1>1 DEF HandlerStep, TypeOK, Critical
  <2>2. CASE UNCHANGED <<channels, rules, ver>>
        BY <1>1, <2>1, <2>2 DEF HandlerStep, cfgVars, lockVars
  <2>3. CASE ver' = ver + 1
        BY <1>1, <2>1, <2>3 DEF HandlerStep, Pipeline, SnapInv, cfgVars, lockVars
  <2> QED BY <1>1, <2>2, <2>3 DEF HandlerStep
<1>2. ASSUME NEW p \in Procs, RebuildStep(p) PROVE ExactInv'
  <2> USE DEF TypeOK, LockInv, Goto, Critical, dbVars, cfgVars, lockVars
  <2>1. CASE Acquire(p) BY <2>1 DEF Acquire
  <2>2. CASE ReadChannels(p)
    <3>1. snap'.chans = channels BY <2>2 DEF ReadChannels, Config
    <3> QED BY <2>2, <3>1 DEF ReadChannels
  <2>3. CASE ReadRules(p)
    <3>1. snap'.ver = snap.ver /\ snap'.chans = snap.chans /\ snap'.rules = Emitted(rules)
          BY <2>3 DEF ReadRules, Config
    <3> QED BY <2>3, <3>1 DEF ReadRules
  <2>4. CASE WriteHost(p)
    <3>1. /\ hostCfg'.ver = snap.ver /\ hostCfg'.chans = snap.chans
          /\ hostCfg'.rules = snap.rules
          BY <2>4 DEF WriteHost, Config
    <3> QED BY <2>4, <3>1 DEF WriteHost
  <2>5. ASSUME UNCHANGED <<dbVars, hostCfg>>, ctrCfg' \in {ctrCfg, hostCfg},
               liveCfg' \in {liveCfg, ctrCfg},
               \A o \in Procs : pc'[o] \notin {"rules", "write"}
        PROVE  ExactInv'
        BY <2>5
  <2>6. CASE Deliver(p) BY <2>5, <2>6 DEF Deliver, SnapInv
  <2>7. ASSUME NEW ok, Return(p, ok), pc[p] \in Critical
        PROVE  \A o \in Procs : pc'[o] \notin {"rules", "write"}
        BY <2>7, ReturnControl
  <2>8. CASE RebuildFails(p) BY <2>5, <2>7, <2>8 DEF RebuildFails
  <2>9. CASE DeliverFails(p) BY <2>5, <2>7, <2>9 DEF DeliverFails, SnapInv
  <2>10. CASE Reload(p) BY <2>5, <2>7, <2>10 DEF Reload, MihomoReads
  <2>11. CASE ReloadFails(p) BY <2>5, <2>7, <2>11 DEF ReloadFails
  <2> QED BY <1>2, <2>1, <2>2, <2>3, <2>4, <2>6, <2>8, <2>9, <2>10, <2>11 DEF RebuildStep
<1>3. ASSUME NEW p \in Clients, Abandon(p) PROVE ExactInv'
  <2>1. p \in Procs BY DEF Procs
  <2>2. ctrCfg' \in {ctrCfg, hostCfg} BY <1>3, <2>1 DEF Abandon, SnapInv
  <2>3. pc' = [pc EXCEPT ![p] = "idle"] BY <1>3 DEF Abandon, Leave
  <2>4. \A o \in Procs : pc'[o] \in {"rules", "write"} => pc'[o] = pc[o] /\ snap' = snap
        BY <1>3, <2>1, <2>3 DEF Abandon, TypeOK, LockInv, Critical
  <2> QED BY <1>3, <2>2, <2>4 DEF Abandon, dbVars
<1>4. CASE OutsideStep
  <2> USE DEF dbVars, cfgVars
  <2>1. CASE Crash
    <3>1. ctrCfg' \in {ctrCfg, hostCfg} BY <2>1 DEF Crash, InFlight, SnapInv
    <3> QED BY <2>1, <3>1 DEF Crash
  <2>2. CASE EnsureSkips \/ EnsureMihomo \/ EnsureFails
    <3>1. Exact(Template) /\ Exact(Truncated) /\ Exact(Seeded)
          BY DEF Seeded, NoFile, Truncated, Template, Emitted
    <3>2. \A o \in Procs : pc'[o] \notin {"rules", "write"}
          BY <2>2, EnsureAlone
             DEF EnsureSkips, EnsureMihomo, EnsureFails, Goto, TypeOK, taskVars, Critical
    <3>3. UNCHANGED dbVars BY <2>2 DEF EnsureSkips, EnsureMihomo, EnsureFails
    <3>4. /\ hostCfg' \in {hostCfg, Seeded, Truncated}
          /\ ctrCfg' \in {ctrCfg, Seeded, Template}
          /\ liveCfg' \in {liveCfg, Seeded, Template}
          BY <2>2 DEF EnsureSkips, EnsureMihomo, EnsureFails
    <3> QED BY <3>1, <3>2, <3>3, <3>4
  <2>3. CASE MihomoDown BY <2>3 DEF MihomoDown, taskVars, lockVars
  <2>4. CASE MihomoUp BY <2>4 DEF MihomoUp, taskVars, lockVars
  <2>5. CASE LateReload BY <2>5 DEF LateReload, MihomoReads, taskVars, lockVars
  <2> QED BY <1>4, <2>1, <2>2, <2>3, <2>4, <2>5 DEF OutsideStep
<1>5. CASE UNCHANGED vars
      BY <1>5 DEF vars, dbVars, cfgVars, taskVars, lockVars
<1> QED BY <1>1, <1>2, <1>3, <1>4, <1>5, NextCases

-----------------------------------------------------------------------------
(* What has been claimed is in force.                                       *)

LEMMA InitReply == Init => ReplyInv
BY DEF Init, ReplyInv, NoFile

(* A failed rebuild claims nothing, a successful one what it had read.      *)
LEMMA ReturnReply == ASSUME TypeOK, NEW p \in Procs, NEW ok \in BOOLEAN, Return(p, ok)
                     PROVE  IF ok THEN /\ acked' \in {acked, need[p]}
                                       /\ confirmed' \in {confirmed, snap.ver}
                                  ELSE UNCHANGED <<acked, confirmed, lost>>
BY DEF Return, Newer, TypeOK

LEMMA ReplyStep ==
    ASSUME TypeOK, LockInv, SnapInv, Pipeline, BaseInv, ReplyInv, [Next]_vars
    PROVE  ReplyInv'
<1>1. Forward BY PipelineStep
<1>2. acked \in Nat /\ confirmed \in Nat /\ liveCfg'.ver \in Nat /\ hostCfg'.ver \in Nat
  <2>1. TypeOK' BY TypeStep
  <2> QED BY <2>1, MaxVerAssumption DEF TypeOK, Config
<1> USE <1>1, <1>2, Versions DEF Forward, ReplyInv
<1>3. ASSUME UNCHANGED <<acked, confirmed, lost>>, ~FallsBack PROVE ReplyInv'
      BY <1>3
<1>9. ASSUME UNCHANGED <<acked, confirmed>>, lost' PROVE ReplyInv'
      BY <1>9
<1>10. ASSUME pc[Boot] # "ensure" PROVE ~FallsBack
       BY <1>10 DEF FallsBack
<1>11. ASSUME UNCHANGED <<acked, confirmed, lost>> PROVE ReplyInv'
       BY <1>3, <1>9, <1>11 DEF FallsBack
<1>4. ASSUME NEW p \in Procs, HandlerStep(p) PROVE ReplyInv'
      BY <1>11, <1>4 DEF HandlerStep
<1>5. ASSUME NEW p \in Procs, RebuildStep(p) PROVE ReplyInv'
  <2>1. CASE Acquire(p) BY <1>11, <2>1 DEF Acquire, history
  <2>2. CASE ReadChannels(p) BY <1>11, <2>2 DEF ReadChannels, history
  <2>3. CASE ReadRules(p) BY <1>11, <2>3 DEF ReadRules, history
  <2>4. CASE WriteHost(p) BY <1>11, <2>4 DEF WriteHost, history
  <2>5. CASE Deliver(p) BY <1>11, <2>5 DEF Deliver, history
  <2>6. ASSUME Return(p, FALSE) PROVE ReplyInv'
        BY <1>11, <2>6, ReturnReply
  <2>7. CASE Reload(p)
    <3>1. Loads(ctrCfg) \in BOOLEAN BY DEF Loads
    <3>2. IF Loads(ctrCfg) THEN /\ acked' \in {acked, need[p]}
                                /\ confirmed' \in {confirmed, snap.ver}
                           ELSE UNCHANGED <<acked, confirmed, lost>>
          BY <2>7, <3>1, ReturnReply DEF Reload
    <3>3. CASE ~Loads(ctrCfg) BY <1>11, <3>2, <3>3
    <3>4. CASE Loads(ctrCfg)
      <4>1. /\ snap = ctrCfg /\ snap = hostCfg /\ need[p] <= snap.ver
            BY <2>7 DEF Reload, SnapInv
      <4>2. liveCfg' = ctrCfg /\ hostCfg' = hostCfg BY <2>7, <3>4 DEF Reload, MihomoReads
      <4>3. acked <= hostCfg.ver /\ confirmed <= hostCfg.ver OBVIOUS
      <4>4. acked' <= liveCfg'.ver /\ acked' <= hostCfg'.ver BY <3>2, <3>4, <4>1, <4>2, <4>3
      <4>5. confirmed' <= liveCfg'.ver /\ confirmed' <= hostCfg'.ver
            BY <3>2, <3>4, <4>1, <4>2, <4>3
      <4> QED BY <4>4, <4>5
    <3> QED BY <3>3, <3>4
  <2> QED BY <1>5, <2>1, <2>2, <2>3, <2>4, <2>5, <2>6, <2>7
          DEF RebuildStep, RebuildFails, DeliverFails, ReloadFails
<1>6. ASSUME NEW p \in Clients, Abandon(p) PROVE ReplyInv'
      BY <1>11, <1>6 DEF Abandon
<1>7. CASE OutsideStep
  <2>1. CASE EnsureMihomo
    <3>1. CASE lost' BY <1>9, <2>1, <3>1 DEF EnsureMihomo
    <3>2. CASE ~lost'
      <4>1. liveCfg' = Seeded /\ hostCfg' = Seeded BY <2>1, <3>2 DEF EnsureMihomo
      <4>2. UNCHANGED <<acked, confirmed>> BY <2>1 DEF EnsureMihomo
      <4> QED BY <4>1, <4>2
    <3> QED BY <3>1, <3>2
  <2>2. CASE EnsureFails BY <1>9, <1>11, <2>2 DEF EnsureFails
  <2> QED BY <1>7, <1>11, <2>1, <2>2
          DEF OutsideStep, Crash, EnsureSkips, MihomoDown, MihomoUp, LateReload, history
<1>8. CASE UNCHANGED vars BY <1>11, <1>8 DEF vars, history
<1> QED BY <1>4, <1>5, <1>6, <1>7, <1>8, NextCases

-----------------------------------------------------------------------------
(* The keys rebuild does not manage.                                        *)

LEMMA InitBase == Init => BaseInv
BY DEF Init, BaseInv, NoFile, Procs

LEMMA BaseStep == ASSUME TypeOK, LockInv, SnapInv, BaseInv, [Next]_vars
                  PROVE  BaseInv'
<1> USE DEF BaseInv, cfgVars, mihomo
<1>0. Boot \in Procs BY DEF Procs
<1>1. ASSUME UNCHANGED <<cfgVars, up>>, pc'[Boot] = "ensure" \/ pc[Boot] # "ensure"
      PROVE  BaseInv'
      BY <1>1
<1>2. ASSUME NEW p \in Procs, pc[p] \in Critical PROVE pc[Boot] # "ensure"
      BY <1>2, EnsureAlone
<1>3. ASSUME NEW p \in Procs, HandlerStep(p) PROVE BaseInv'
      BY <1>0, <1>1, <1>3 DEF HandlerStep, TypeOK
<1>4. ASSUME NEW p \in Procs, RebuildStep(p) PROVE BaseInv'
  <2> USE <1>0 DEF TypeOK, Goto, Critical
  <2>1. CASE Acquire(p) BY <1>1, <2>1 DEF Acquire
  <2>2. CASE ReadChannels(p) BY <1>1, <2>2 DEF ReadChannels
  <2>3. CASE ReadRules(p) BY <1>1, <2>3 DEF ReadRules
  <2>4. CASE WriteHost(p)
    <3>1. hostCfg'.base = MergedBase BY <2>4 DEF WriteHost, Config
    <3>2. hostCfg'.base \in {"bare", "full"} /\ (hostCfg.base = "bare" => hostCfg'.base = "bare")
          BY <3>1 DEF MergedBase, Config
    <3> QED BY <2>4, <3>2 DEF WriteHost
  <2>5. ASSUME pc[p] \in Critical, UNCHANGED <<hostCfg, up>>,
               ctrCfg' \in {ctrCfg, hostCfg}, liveCfg' \in {liveCfg, ctrCfg}
        PROVE  BaseInv'
        BY <1>2, <2>5
  <2>6. CASE RebuildFails(p) BY <2>5, <2>6 DEF RebuildFails
  <2>7. CASE Deliver(p) BY <2>5, <2>7 DEF Deliver, SnapInv
  <2>8. CASE DeliverFails(p) BY <2>5, <2>8 DEF DeliverFails, SnapInv
  <2>9. CASE Reload(p) BY <2>5, <2>9 DEF Reload, MihomoReads
  <2>10. CASE ReloadFails(p) BY <2>5, <2>10 DEF ReloadFails
  <2> QED BY <1>4, <2>1, <2>2, <2>3, <2>4, <2>6, <2>7, <2>8, <2>9, <2>10 DEF RebuildStep
<1>5. ASSUME NEW p \in Clients, Abandon(p) PROVE BaseInv'
  <2>1. p \in Procs /\ pc[Boot] # "ensure"
        BY <1>5 DEF Procs, Abandon, Awaiting, LockInv
  <2>2. ctrCfg' \in {ctrCfg, hostCfg} BY <1>5, <2>1 DEF Abandon, SnapInv
  <2> QED BY <1>5, <2>1, <2>2 DEF Abandon
<1>6. CASE OutsideStep
  <2>1. CASE Crash
    <3>1. /\ pc'[Boot] = "ensure"
          /\ ctrCfg' = ctrCfg \/ (ctrCfg' = hostCfg /\ pc[Boot] # "ensure")
          BY <1>0, <1>2, <2>1 DEF Crash, InFlight, SnapInv, Critical
    <3> QED BY <2>1, <3>1 DEF Crash
  <2>2. CASE EnsureSkips BY <2>2 DEF EnsureSkips
  <2>3. /\ Seeded.base # "absent" /\ Template.base = "full"
        /\ Seeded.base = "bare" => hostCfg.base = "bare"
        /\ Seeded.base = "empty" => Seeded = Truncated
        /\ hostCfg.base = "bare" => Seeded = hostCfg
        BY DEF Seeded, Template, TypeOK, Config, NoFile, Truncated
  <2>4. CASE EnsureMihomo BY <2>3, <2>4 DEF EnsureMihomo
  <2>5. CASE EnsureFails
    <3>1. Truncated.base = "empty" BY DEF Truncated
    <3>2. CASE /\ hostCfg' \in {hostCfg, Seeded} \cup {cfg \in {Truncated} : hostCfg.base = "absent"}
               /\ UNCHANGED <<ctrCfg, liveCfg>>
          BY <2>3, <2>5, <3>1, <3>2 DEF EnsureFails, taskVars
    <3>3. CASE hostCfg' = Seeded /\ ctrCfg' = Seeded /\ UNCHANGED liveCfg
          BY <2>3, <2>5, <3>3 DEF EnsureFails, taskVars
    <3>4. CASE hostCfg' = Seeded /\ ctrCfg' = Template /\ liveCfg' = Template
          BY <2>3, <2>5, <3>4 DEF EnsureFails, taskVars
    <3> QED BY <2>5, <3>2, <3>3, <3>4 DEF EnsureFails
  <2>6. CASE MihomoDown BY <2>6 DEF MihomoDown, taskVars
  <2>7. CASE MihomoUp BY <2>7 DEF MihomoUp, Loads, taskVars
  <2>8. CASE LateReload BY <2>8 DEF LateReload, MihomoReads, taskVars
  <2> QED BY <1>6, <2>1, <2>2, <2>4, <2>5, <2>6, <2>7, <2>8 DEF OutsideStep
<1>7. CASE UNCHANGED vars BY <1>1, <1>7 DEF vars, taskVars
<1> QED BY <1>3, <1>4, <1>5, <1>6, <1>7, NextCases

-----------------------------------------------------------------------------
(* A lag is somebody's unfinished business.                                 *)

LEMMA InitDrift == Init => DriftInv
BY DEF Init, DriftInv

(* A task that moves on without ending takes no claim with it.              *)
LEMMA BusyStep == ASSUME TypeOK, DriftInv, NEW p \in Procs, NEW label, label # "idle",
                         pc' = [pc EXCEPT ![p] = label],
                         UNCHANGED <<ver, need, excuse, confirmed>>,
                         UNCHANGED lost \/ p = Boot
                  PROVE  DriftInv'
<1>1. Boot \in Procs BY DEF Procs
<1> QED BY <1>1 DEF DriftInv, TypeOK

LEMMA DriftStep ==
    ASSUME TypeOK, LockInv, SnapInv, Pipeline, ReplyInv, DriftInv, [Next]_vars
    PROVE  DriftInv'
<1>0. Boot \in Procs BY DEF Procs
<1>1. ASSUME excuse' = TRUE PROVE DriftInv'
      BY <1>1 DEF DriftInv
<1>2. ASSUME UNCHANGED <<ver, need, excuse, confirmed, pc>>,
             UNCHANGED lost \/ pc[Boot] # "idle"
      PROVE  DriftInv'
      BY <1>2 DEF DriftInv
<1>3. ASSUME NEW p \in Procs, HandlerStep(p) PROVE DriftInv'
  <2>1. CASE ver' = ver + 1 /\ need' = [need EXCEPT ![p] = ver + 1] /\ pc'[p] # "idle"
    <3>1. need'[p] = ver' BY <2>1 DEF TypeOK
    <3>2. lost' => excuse' \/ pc'[Boot] # "idle"
          BY <1>0, <1>3, <2>1 DEF HandlerStep, DriftInv, TypeOK
    <3> QED BY <2>1, <3>1, <3>2 DEF DriftInv
  <2>2. CASE pc'[p] # "idle" /\ UNCHANGED <<need, excuse, ver>>
        BY <1>3, <2>2, BusyStep DEF HandlerStep
  <2>3. CASE excuse' = TRUE BY <1>1, <2>3
  <2> QED BY <1>3, <2>1, <2>2, <2>3 DEF HandlerStep
<1>4. ASSUME NEW p \in Procs, RebuildStep(p) PROVE DriftInv'
  <2> USE BusyStep DEF Goto, dbVars, history
  <2>1. CASE Acquire(p) BY <2>1 DEF Acquire
  <2>2. CASE ReadChannels(p) BY <2>2 DEF ReadChannels
  <2>3. CASE ReadRules(p) BY <2>3 DEF ReadRules
  <2>4. CASE WriteHost(p) BY <2>4 DEF WriteHost
  <2>5. CASE Deliver(p) BY <2>5 DEF Deliver
  <2>6. ASSUME Return(p, FALSE) PROVE DriftInv'
        BY <1>1, <2>6 DEF Return
  <2>7. CASE Reload(p)
    <3>1. CASE ~Loads(ctrCfg)
          BY <1>1, <2>7, <3>1 DEF Reload, Return
    <3>2. CASE Loads(ctrCfg)
      <4>1. need[p] <= snap.ver /\ snap.ver <= ver BY <2>7 DEF Reload, SnapInv
      <4>2. /\ confirmed' = Newer(confirmed, snap.ver)
            /\ excuse' = (excuse /\ snap.ver # ver)
            /\ pc' = [pc EXCEPT ![p] = "idle"] /\ need' = [need EXCEPT ![p] = 0]
            /\ ver' = ver /\ ~lost'
            BY <2>7, <3>2 DEF Reload, Return, Leave
      <4>3. confirmed <= ver /\ confirmed \in Nat
            BY Versions, MaxVerAssumption DEF ReplyInv, Pipeline, TypeOK
      <4>4. snap.ver = ver => confirmed' = ver
            BY <4>2, <4>3, Versions DEF Newer
      <4>5. confirmed = ver => confirmed' = ver
            BY <4>1, <4>2, <4>3, Versions DEF Newer
      <4>6. ASSUME ~excuse', confirmed' # ver' PROVE \E o \in Procs : pc'[o] # "idle" /\ need'[o] = ver'
        <5>1. ~excuse /\ confirmed # ver /\ snap.ver # ver
              BY <4>2, <4>4, <4>5, <4>6 DEF TypeOK
        <5>2. PICK o \in Procs : pc[o] # "idle" /\ need[o] = ver
              BY <5>1 DEF DriftInv
        <5>3. o # p BY <4>1, <5>1, <5>2, Versions
        <5> QED BY <4>2, <5>2, <5>3 DEF TypeOK
      <4> QED BY <4>2, <4>6 DEF DriftInv
    <3> QED BY <3>1, <3>2
  <2> QED BY <1>4, <2>1, <2>2, <2>3, <2>4, <2>5, <2>6, <2>7
          DEF RebuildStep, RebuildFails, DeliverFails, ReloadFails
<1>5. ASSUME NEW p \in Clients, Abandon(p) PROVE DriftInv'
      BY <1>1, <1>5 DEF Abandon
<1>6. CASE OutsideStep
  <2> USE DEF dbVars, taskVars, history
  <2>0. Boot \in Procs BY DEF Procs
  <2>1. CASE Crash BY <1>1, <2>1 DEF Crash
  <2>2. CASE EnsureSkips BY <2>0, <2>2, BusyStep DEF EnsureSkips, Goto
  <2>3. CASE EnsureMihomo BY <2>0, <2>3, BusyStep DEF EnsureMihomo, Goto
  <2>4. CASE EnsureFails \/ MihomoDown \/ MihomoUp \/ LateReload
        BY <1>0, <1>2, <2>4 DEF EnsureFails, MihomoDown, MihomoUp, LateReload
  <2> QED BY <1>6, <2>1, <2>2, <2>3, <2>4 DEF OutsideStep
<1>7. CASE UNCHANGED vars BY <1>2, <1>7 DEF vars, dbVars, taskVars, history
<1> QED BY <1>3, <1>4, <1>5, <1>6, <1>7, NextCases

-----------------------------------------------------------------------------
(* What follows.                                                            *)

(* The inductive invariant: whoever is inside rebuild holds the lock and    *)
(* what it has read covers its commit, the copies are in order, a copy with *)
(* the newest number is exact, replies and lags are accounted for.          *)
THEOREM InductiveInvariant == Spec => []Inductive
<1>1. Init => Inductive
      BY InitType, InitLock, InitSnap, InitExact, InitReply, InitBase, InitDrift
         DEF Inductive
<1>2. Inductive /\ [Next]_vars => Inductive'
      BY TypeStep, LockStep, SnapStep, PipelineStep, ExactStep, ReplyStep, BaseStep,
         DriftStep
         DEF Inductive
<1> QED BY <1>1, <1>2, PTL DEF Spec

(* A rule handler that answered success has its commit in force for good,   *)
(* but for a boot that could not read the working copy.                     *)
THEOREM AcknowledgedIsLive == Spec => []AckedIsLive
<1>1. Inductive => AckedIsLive BY DEF Inductive, ReplyInv, AckedIsLive
<1> QED BY <1>1, InductiveInvariant, PTL

(* A 2xx rebuild that covered the last commit leaves mihomo routing exactly *)
(* what the database says, with the same exception.                         *)
THEOREM ConfirmedIsExact == Spec => []ConfirmedMatchesDb
<1>1. Inductive => ConfirmedMatchesDb
      BY Versions, MaxVerAssumption
         DEF Inductive, ReplyInv, Pipeline, ExactInv, Exact, ConfirmedMatchesDb, TypeOK
<1> QED BY <1>1, InductiveInvariant, PTL

(* When all requests are answered, a lag behind the database has a failure  *)
(* or a departed client as its reason.                                      *)
THEOREM LagsAreExcused == Spec => []NoSilentDrift
<1>1. Inductive => NoSilentDrift BY DEF Inductive, DriftInv, NoSilentDrift, Procs
<1> QED BY <1>1, InductiveInvariant, PTL

(* A step leaves the working copy its keys, and delivers and loads nothing  *)
(* without them while it has them.                                          *)
LEMMA KeysStep ==
    ASSUME TypeOK, BaseInv, SnapInv, BaseInv', [Next]_vars, hostCfg.base = "full"
    PROVE  hostCfg'.base = "full" /\ "bare" \notin {ctrCfg'.base, liveCfg'.base}
<1>1. ASSUME hostCfg' = hostCfg PROVE hostCfg'.base = "full"
      BY <1>1
<1> USE DEF cfgVars
<1>2. ASSUME NEW p \in Procs, HandlerStep(p) PROVE hostCfg'.base = "full"
      BY <1>1, <1>2 DEF HandlerStep
<1>3. ASSUME NEW p \in Procs, RebuildStep(p) PROVE hostCfg'.base = "full"
  <2>1. CASE WriteHost(p) BY <2>1 DEF WriteHost, MergedBase, TypeOK, Config
  <2> QED BY <1>1, <1>3, <2>1
          DEF RebuildStep, Acquire, ReadChannels, ReadRules, RebuildFails, Deliver,
              DeliverFails, Reload, ReloadFails
<1>4. ASSUME NEW p \in Clients, Abandon(p) PROVE hostCfg'.base = "full"
      BY <1>1, <1>4 DEF Abandon
<1>5. ASSUME OutsideStep PROVE hostCfg'.base = "full"
  <2>1. Seeded = hostCfg BY DEF Seeded
  <2> QED BY <1>1, <1>5, <2>1
          DEF OutsideStep, Crash, EnsureSkips, EnsureMihomo, EnsureFails, MihomoDown,
              MihomoUp, LateReload
<1>6. ASSUME UNCHANGED vars PROVE hostCfg'.base = "full"
      BY <1>1, <1>6 DEF vars
<1>7. hostCfg'.base = "full" BY <1>2, <1>3, <1>4, <1>5, <1>6, NextCases
<1> QED BY <1>7 DEF BaseInv

(* Once the working copy has dns, listeners and the controller secret, it   *)
(* keeps them, and so do the copies made from it.                           *)
THEOREM KeysAreKept == Spec => KeysStay
<1>1. Inductive /\ Inductive' /\ [Next]_vars =>
          [hostCfg.base = "full" =>
              /\ hostCfg'.base = "full"
              /\ "bare" \notin {ctrCfg'.base, liveCfg'.base}]_vars
      BY KeysStep DEF Inductive
<1> QED BY <1>1, InductiveInvariant, PTL DEF Spec, KeysStay

(* No step takes a copy of the configuration back, but boot's delivery of   *)
(* the template.                                                            *)
THEOREM NothingRollsBack == Spec => NoRollback
<1>1. Inductive /\ [Next]_vars =>
          [/\ hostCfg.ver <= hostCfg'.ver
           /\ FallsBack \/ (/\ ctrCfg.ver <= ctrCfg'.ver
                            /\ liveCfg.ver <= liveCfg'.ver)]_vars
      BY PipelineStep DEF Inductive, Forward
<1> QED BY <1>1, InductiveInvariant, PTL DEF Spec, NoRollback

(* A step commits, or leaves the replies alone, or replies when nothing is  *)
(* lost, or falls back on the template.                                     *)
Committed  == ver' = ver + 1 /\ UNCHANGED <<liveCfg, acked, lost>>
Unanswered == UNCHANGED <<ver, acked, lost>>
Answered   == ver' = ver /\ acked <= acked' /\ lost' = FALSE
Fallen     == UNCHANGED <<ver, acked>> /\ FallsBack

LEMMA VersionStep == ASSUME TypeOK, [Next]_vars
                     PROVE  Committed \/ Unanswered \/ Answered \/ Fallen
<1> USE DEF dbVars, cfgVars, history, Committed, Unanswered, Answered, Fallen
<1>0. acked \in Nat /\ lost \in BOOLEAN BY MaxVerAssumption DEF TypeOK
<1>1. ASSUME NEW p \in Procs, HandlerStep(p) PROVE Committed \/ Unanswered
      BY <1>1 DEF HandlerStep
<1>2. ASSUME NEW p \in Procs, RebuildStep(p) PROVE Unanswered \/ Answered
  <2>1. ASSUME NEW ok \in BOOLEAN, Return(p, ok), UNCHANGED ver PROVE Unanswered \/ Answered
    <3>1. /\ acked' = IF ok /\ strict[p] THEN Newer(acked, need[p]) ELSE acked
          /\ lost' = (lost /\ ~ok)
          BY <2>1 DEF Return
    <3>2. CASE ok
      <4>1. lost' = FALSE BY <3>1, <3>2
      <4>2. acked <= acked' BY <1>0, <3>1, Versions DEF Newer
      <4> QED BY <2>1, <4>1, <4>2
    <3>3. CASE ~ok
      <4>1. lost' = lost BY <1>0, <3>1, <3>3
      <4> QED BY <2>1, <3>1, <3>3, <4>1
    <3> QED BY <3>2, <3>3
  <2>2. CASE Acquire(p) \/ ReadChannels(p) \/ ReadRules(p) \/ WriteHost(p) \/ Deliver(p)
        BY <2>2 DEF Acquire, ReadChannels, ReadRules, WriteHost, Deliver
  <2>3. CASE RebuildFails(p) BY <2>1, <2>3 DEF RebuildFails
  <2>4. CASE DeliverFails(p) BY <2>1, <2>4 DEF DeliverFails
  <2>5. CASE Reload(p)
    <3>1. Loads(ctrCfg) \in BOOLEAN BY DEF Loads
    <3> QED BY <2>1, <2>5, <3>1 DEF Reload
  <2>6. CASE ReloadFails(p) BY <2>1, <2>6 DEF ReloadFails
  <2> QED BY <1>2, <2>2, <2>3, <2>4, <2>5, <2>6 DEF RebuildStep
<1>3. ASSUME NEW p \in Clients, Abandon(p) PROVE Unanswered
      BY <1>3 DEF Abandon
<1>4. CASE OutsideStep
  <2>1. CASE EnsureMihomo
    <3>1. PICK delivered \in {Seeded, Template} :
             /\ ctrCfg' = delivered /\ liveCfg' = delivered
             /\ lost' = (delivered # Seeded)
          BY <2>1 DEF EnsureMihomo
    <3>2. CASE delivered = Seeded
      <4>1. lost' = FALSE BY <3>1, <3>2
      <4> QED BY <1>0, <2>1, <4>1 DEF EnsureMihomo
    <3>3. CASE delivered # Seeded
      <4>1. delivered = Template /\ lost' BY <3>1, <3>3
      <4> QED BY <2>1, <3>1, <4>1 DEF EnsureMihomo, FallsBack
    <3> QED BY <3>2, <3>3
  <2>2. CASE EnsureFails BY <2>2 DEF EnsureFails, FallsBack
  <2> QED BY <1>4, <2>1, <2>2
          DEF OutsideStep, Crash, EnsureSkips, MihomoDown, MihomoUp, LateReload
<1>5. CASE UNCHANGED vars BY <1>5 DEF vars
<1> QED BY <1>1, <1>2, <1>3, <1>4, <1>5, NextCases

(* The machinery implements ConfigPublish: database states are published in *)
(* commit order, only what is published is acknowledged, and what is lost   *)
(* is lost whole and known to be.                                           *)
THEOREM Refinement == Spec => ImplementsPublish
<1>1. Init => Publish!Init BY DEF Init, Publish!Init, NoFile
<1>2. Inductive /\ Inductive' /\ [Next]_vars => [Publish!Next]_(Publish!vars)
  <2> SUFFICES ASSUME Inductive, Inductive', [Next]_vars
               PROVE  [Publish!Next]_(Publish!vars)
    OBVIOUS
  <2> USE DEF Publish!Next
  <2>1. CASE Committed BY <2>1 DEF Committed, Publish!Commit
  <2>2. CASE UNCHANGED <<ver, acked>> /\ FallsBack
    <3>1. Template.ver = 0 BY DEF Template
    <3> QED BY <2>2, <3>1 DEF FallsBack, Publish!Lose
  <2>3. CASE (Unanswered \/ Answered) /\ ~FallsBack
    <3>1. liveCfg.ver <= liveCfg'.ver BY <2>3, PipelineStep DEF Inductive, Forward
    <3>2. /\ ver' \in Nat /\ hostCfg'.ver \in Nat /\ ctrCfg'.ver \in Nat
          /\ liveCfg'.ver \in Nat /\ liveCfg.ver \in Nat
          /\ acked \in Nat /\ acked' \in Nat
          BY MaxVerAssumption DEF Inductive, TypeOK, Config
    <3>3. liveCfg'.ver <= ver' /\ ver' = ver
          BY <2>3, <3>2 DEF Inductive, Pipeline, Unanswered, Answered
    <3>4. CASE Unanswered BY <3>1, <3>2, <3>3, <3>4 DEF Unanswered, Publish!Advance
    <3>5. CASE Answered
      <4>1. acked' <= liveCfg'.ver BY <3>5 DEF Inductive, ReplyInv, Answered
      <4> QED BY <3>1, <3>2, <3>3, <3>5, <4>1 DEF Answered, Publish!Advance
    <3> QED BY <2>3, <3>4, <3>5
  <2>4. Answered => ~FallsBack BY DEF Answered, FallsBack
  <2> QED BY <2>1, <2>2, <2>3, <2>4, VersionStep DEF Inductive, Unanswered, Fallen
<1> QED BY <1>1, <1>2, InductiveInvariant, PTL DEF Spec, ImplementsPublish, Publish!Spec

=============================================================================
