--------------------------- MODULE StartupProofs ---------------------------
(***************************************************************************)
(* Safety of the boot for any number of boots, faults and deaths, and any  *)
(* contents of the old table.                                              *)
(***************************************************************************)
EXTENDS Startup, FiniteSetTheorems, TLAPS

(* TypeOK in two halves: truth values, and everything else.                 *)
Truths ==
    /\ rosetta \in BOOLEAN /\ vm \in BOOLEAN /\ engine \in BOOLEAN /\ image \in BOOLEAN
    /\ running \in BOOLEAN /\ served \in BOOLEAN /\ emptied \in BOOLEAN

Threads == pc \in [Boots -> Places] /\ flag \in [Boots -> BOOLEAN]

Contents ==
    /\ infra \in [state: {"absent", "torn", "whole"}, base: Numbers, ui: Numbers]
    /\ key \in Numbers /\ secrets \subseteq Numbers
    /\ legacy \subseteq Legacy /\ rules \subseteq Rules
    /\ box \in [state: {"none", "created", "running"}, base: Numbers]
    /\ env \in [base: Numbers, ui: Numbers]
    /\ page \in {"none", "loading", "failed", "ui"}
    /\ ports \subseteq Numbers /\ gone \subseteq Rules
    /\ drawn \in Numbers /\ faults \in 0..MaxFaults /\ deaths \in 0..MaxDeaths

(* The two halves and the threads are TypeOK, now and after a step.         *)
LEMMA Halves == TypeOK <=> Truths /\ Threads /\ Contents
BY DEF TypeOK, Truths, Threads, Contents

LEMMA HalvesNext == Truths' /\ Threads' /\ Contents' => TypeOK'
BY DEF TypeOK, Truths, Threads, Contents

(* Both kinds of installation start within the strengthening.              *)
LEMMA InitHolds == ASSUME Init PROVE Inductive
<1> USE StartupAssumption DEF Init, Absent, NoBox, NoEnv, Whole
<1>1. Truths BY DEF Truths
<1>2. Threads BY DEF Threads, Places
<1>3. Contents BY DEF Contents, Numbers, Rules
<1>4. BootInv /\ KeyInv /\ RuleInv BY DEF BootInv, KeyInv, RuleInv
<1>5. ParamsInv BY DEF ParamsInv, Complete, Early
<1> QED BY <1>1, <1>2, <1>3, <1>4, <1>5, Halves DEF Inductive

-----------------------------------------------------------------------------
(* A boot goes on.                                                          *)

(* colima start, whatever comes of it, is no more than this to the rest.    *)
VmStarts(b) ==
    /\ pc[b] \in {"starting", "restarting"}
    /\ \E place \in {"docker", "waiting", "failing"} : pc' = [pc EXCEPT ![b] = place]
    /\ vm' \in BOOLEAN /\ engine' \in BOOLEAN /\ faults' \in 0..MaxFaults
    /\ UNCHANGED <<running, flag, env, served, page, rosetta, image, box>>
    /\ UNCHANGED <<disk, history, drawn, deaths>>

LEMMA StartVmEffect ==
    ASSUME Inductive, NEW b \in Boots,
           StartVm(b, "starting", "docker") \/ StartVm(b, "restarting", "waiting")
    PROVE  VmStarts(b)
<1> USE DEF StartVm, Goto, Proceed, GiveUp, Fail, Fault, NoFault, VmUnchanged
<1>1. vm \in BOOLEAN /\ engine \in BOOLEAN /\ faults \in 0..MaxFaults
      BY DEF Inductive, TypeOK
<1>2. vm' \in BOOLEAN BY <1>1
<1>3. engine' \in BOOLEAN BY <1>1, <1>2
<1>4. faults' \in 0..MaxFaults
  <2>1. faults' = faults \/ (faults < MaxFaults /\ faults' = faults + 1) OBVIOUS
  <2> HIDE DEF StartVm
  <2> QED BY <1>1, <2>1, StartupAssumption
<1>5. /\ pc[b] \in {"starting", "restarting"}
      /\ \E place \in {"docker", "waiting", "failing"} : pc' = [pc EXCEPT ![b] = place]
      OBVIOUS
<1>6. /\ UNCHANGED <<running, flag, env, served, page, rosetta, image, box>>
      /\ UNCHANGED <<disk, history, drawn, deaths>>
      OBVIOUS
<1> QED BY <1>2, <1>3, <1>4, <1>5, <1>6 DEF VmStarts

(* Each part of the strengthening, over every step of a boot: truth values. *)
LEMMA BootTruths == ASSUME Inductive, NEW b \in Boots, Boot(b) PROVE Truths'
<1>0. Truths BY Halves DEF Inductive
<1> USE DEF Goto, Proceed, GiveUp, Fail, Fault, NoFault, VmUnchanged, Truths, disk, machine, process, history, bounds
<1>1. CASE ReadParams(b) BY <1>0, <1>1 DEF ReadParams
<1>2. CASE ParseFails(b) BY <1>0, <1>2 DEF ParseFails
<1>3. CASE ParamsUnreadable(b) BY <1>0, <1>3 DEF ParamsUnreadable
<1>4. CASE OpenParams(b) BY <1>0, <1>4 DEF OpenParams
<1>5. CASE WriteParams(b) BY <1>0, <1>5 DEF WriteParams
<1>6. CASE WriteParamsFails(b) BY <1>0, <1>6 DEF WriteParamsFails
<1>7. CASE CheckRosetta(b) BY <1>0, <1>7 DEF CheckRosetta
<1>8. CASE Prompt(b) BY <1>0, <1>8 DEF Prompt
<1>9. CASE InstallRosetta(b) BY <1>0, <1>9 DEF InstallRosetta
<1>10. CASE VmStatus(b) BY <1>0, <1>10 DEF VmStatus
<1>11. CASE StartVm(b, "starting", "docker") \/ StartVm(b, "restarting", "waiting")
       BY <1>0, <1>11, StartVmEffect DEF VmStarts, disk, history
<1>12. CASE WaitDocker(b) BY <1>0, <1>12 DEF WaitDocker
<1>13. CASE StopVm(b) BY <1>0, <1>13 DEF StopVm
<1>14. CASE WaitAgain(b) BY <1>0, <1>14 DEF WaitAgain
<1>15. CASE InitStore(b) BY <1>0, <1>15 DEF InitStore
<1>16. CASE OpenKey(b) BY <1>0, <1>16 DEF OpenKey
<1>17. CASE WriteKey(b) BY <1>0, <1>17 DEF WriteKey
<1>18. CASE Bind(b) BY <1>0, <1>18 DEF Bind
<1>19. CASE LoadBundled(b) BY <1>0, <1>19 DEF LoadBundled
<1>20. CASE EnsureImage(b) BY <1>0, <1>20 DEF EnsureImage
<1>21. CASE EnsureService(b) BY <1>0, <1>21 DEF EnsureService
<1>22. CASE Serve(b) BY <1>0, <1>22 DEF Serve
<1>23. CASE Navigate(b) BY <1>0, <1>23 DEF Navigate
<1>24. CASE ReportFailure(b) BY <1>0, <1>24 DEF ReportFailure
<1>25. CASE FreeFlag(b) BY <1>0, <1>25 DEF FreeFlag
<1> QED
    BY <1>1, <1>2, <1>3, <1>4, <1>5, <1>6, <1>7, <1>8, <1>9, <1>10,
       <1>11, <1>12, <1>13, <1>14, <1>15, <1>16, <1>17, <1>18,
       <1>19, <1>20, <1>21, <1>22, <1>23, <1>24, <1>25 DEF Boot

(* The places, and the local flags.                                         *)
LEMMA BootThreads == ASSUME Inductive, NEW b \in Boots, Boot(b) PROVE Threads'
<1>0. Threads /\ rosetta \in BOOLEAN BY Halves DEF Inductive, Truths
<1> USE DEF Goto, Proceed, GiveUp, Fail, Fault, NoFault, VmUnchanged, Threads, Places
<1>1. CASE ReadParams(b) BY <1>0, <1>1 DEF ReadParams
<1>2. CASE ParseFails(b) BY <1>0, <1>2 DEF ParseFails
<1>3. CASE ParamsUnreadable(b) BY <1>0, <1>3 DEF ParamsUnreadable
<1>4. CASE OpenParams(b) BY <1>0, <1>4 DEF OpenParams
<1>5. CASE WriteParams(b) BY <1>0, <1>5 DEF WriteParams
<1>6. CASE WriteParamsFails(b) BY <1>0, <1>6 DEF WriteParamsFails
<1>7. CASE CheckRosetta(b) BY <1>0, <1>7 DEF CheckRosetta
<1>8. CASE Prompt(b) BY <1>0, <1>8 DEF Prompt
<1>9. CASE InstallRosetta(b) BY <1>0, <1>9 DEF InstallRosetta
<1>10. CASE VmStatus(b) BY <1>0, <1>10 DEF VmStatus
<1>11. CASE StartVm(b, "starting", "docker") \/ StartVm(b, "restarting", "waiting")
       BY <1>0, <1>11, StartVmEffect DEF VmStarts, disk, history
<1>12. CASE WaitDocker(b) BY <1>0, <1>12 DEF WaitDocker
<1>13. CASE StopVm(b) BY <1>0, <1>13 DEF StopVm
<1>14. CASE WaitAgain(b) BY <1>0, <1>14 DEF WaitAgain
<1>15. CASE InitStore(b) BY <1>0, <1>15 DEF InitStore
<1>16. CASE OpenKey(b) BY <1>0, <1>16 DEF OpenKey
<1>17. CASE WriteKey(b) BY <1>0, <1>17 DEF WriteKey
<1>18. CASE Bind(b) BY <1>0, <1>18 DEF Bind
<1>19. CASE LoadBundled(b) BY <1>0, <1>19 DEF LoadBundled
<1>20. CASE EnsureImage(b) BY <1>0, <1>20 DEF EnsureImage
<1>21. CASE EnsureService(b) BY <1>0, <1>21 DEF EnsureService
<1>22. CASE Serve(b) BY <1>0, <1>22 DEF Serve
<1>23. CASE Navigate(b) BY <1>0, <1>23 DEF Navigate
<1>24. CASE ReportFailure(b) BY <1>0, <1>24 DEF ReportFailure
<1>25. CASE FreeFlag(b) BY <1>0, <1>25 DEF FreeFlag
<1> QED
    BY <1>1, <1>2, <1>3, <1>4, <1>5, <1>6, <1>7, <1>8, <1>9, <1>10,
       <1>11, <1>12, <1>13, <1>14, <1>15, <1>16, <1>17, <1>18,
       <1>19, <1>20, <1>21, <1>22, <1>23, <1>24, <1>25 DEF Boot

(* Files, tables, container, environment and the bounded counters.          *)
LEMMA BootContents == ASSUME Inductive, NEW b \in Boots, Boot(b) PROVE Contents'
<1>0. Contents BY Halves DEF Inductive
<1> USE StartupAssumption
<1> USE DEF Goto, Proceed, GiveUp, Fail, Fault, NoFault, VmUnchanged, Contents, Numbers, Rules,
        SetEnv, IfUnset, Whole, Torn, NoBox, disk, machine, process, history, bounds
<1>1. CASE ReadParams(b) BY <1>0, <1>1 DEF ReadParams
<1>2. CASE ParseFails(b) BY <1>0, <1>2 DEF ParseFails
<1>3. CASE ParamsUnreadable(b) BY <1>0, <1>3 DEF ParamsUnreadable
<1>4. CASE OpenParams(b) BY <1>0, <1>4 DEF OpenParams
<1>5. CASE WriteParams(b) BY <1>0, <1>5 DEF WriteParams
<1>6. CASE WriteParamsFails(b) BY <1>0, <1>6 DEF WriteParamsFails
<1>7. CASE CheckRosetta(b) BY <1>0, <1>7 DEF CheckRosetta
<1>8. CASE Prompt(b) BY <1>0, <1>8 DEF Prompt
<1>9. CASE InstallRosetta(b) BY <1>0, <1>9 DEF InstallRosetta
<1>10. CASE VmStatus(b) BY <1>0, <1>10 DEF VmStatus
<1>11. CASE StartVm(b, "starting", "docker") \/ StartVm(b, "restarting", "waiting")
       BY <1>0, <1>11, StartVmEffect DEF VmStarts, disk, history
<1>12. CASE WaitDocker(b) BY <1>0, <1>12 DEF WaitDocker
<1>13. CASE StopVm(b) BY <1>0, <1>13 DEF StopVm
<1>14. CASE WaitAgain(b) BY <1>0, <1>14 DEF WaitAgain
<1>15. CASE InitStore(b) BY <1>0, <1>15 DEF InitStore
<1>16. CASE OpenKey(b) BY <1>0, <1>16 DEF OpenKey
<1>17. CASE WriteKey(b) BY <1>0, <1>17 DEF WriteKey
<1>18. CASE Bind(b) BY <1>0, <1>18 DEF Bind
<1>19. CASE LoadBundled(b) BY <1>0, <1>19 DEF LoadBundled
<1>20. CASE EnsureImage(b) BY <1>0, <1>20 DEF EnsureImage
<1>21. CASE EnsureService(b) BY <1>0, <1>21 DEF EnsureService
<1>22. CASE Serve(b) BY <1>0, <1>22 DEF Serve
<1>23. CASE Navigate(b) BY <1>0, <1>23 DEF Navigate
<1>24. CASE ReportFailure(b) BY <1>0, <1>24 DEF ReportFailure
<1>25. CASE FreeFlag(b) BY <1>0, <1>25 DEF FreeFlag
<1> QED
    BY <1>1, <1>2, <1>3, <1>4, <1>5, <1>6, <1>7, <1>8, <1>9, <1>10,
       <1>11, <1>12, <1>13, <1>14, <1>15, <1>16, <1>17, <1>18,
       <1>19, <1>20, <1>21, <1>22, <1>23, <1>24, <1>25 DEF Boot

(* The flag covers the boot that goes on, and Bind refuses a second server. *)
LEMMA BootBootInv == ASSUME Inductive, NEW b \in Boots, Boot(b) PROVE BootInv'
<1>0. BootInv /\ pc \in [Boots -> Places] BY DEF Inductive, TypeOK
<1> USE DEF Goto, Proceed, GiveUp, Fail, Fault, NoFault, VmUnchanged, BootInv, Holding, Held, disk, machine, process, history, bounds
<1>1. CASE ReadParams(b) BY <1>0, <1>1 DEF ReadParams
<1>2. CASE ParseFails(b) BY <1>0, <1>2 DEF ParseFails
<1>3. CASE ParamsUnreadable(b) BY <1>0, <1>3 DEF ParamsUnreadable
<1>4. CASE OpenParams(b) BY <1>0, <1>4 DEF OpenParams
<1>5. CASE WriteParams(b) BY <1>0, <1>5 DEF WriteParams
<1>6. CASE WriteParamsFails(b) BY <1>0, <1>6 DEF WriteParamsFails
<1>7. CASE CheckRosetta(b) BY <1>0, <1>7 DEF CheckRosetta
<1>8. CASE Prompt(b) BY <1>0, <1>8 DEF Prompt
<1>9. CASE InstallRosetta(b) BY <1>0, <1>9 DEF InstallRosetta
<1>10. CASE VmStatus(b) BY <1>0, <1>10 DEF VmStatus
<1>11. CASE StartVm(b, "starting", "docker") \/ StartVm(b, "restarting", "waiting")
       BY <1>0, <1>11, StartVmEffect DEF VmStarts, disk, history
<1>12. CASE WaitDocker(b) BY <1>0, <1>12 DEF WaitDocker
<1>13. CASE StopVm(b) BY <1>0, <1>13 DEF StopVm
<1>14. CASE WaitAgain(b) BY <1>0, <1>14 DEF WaitAgain
<1>15. CASE InitStore(b) BY <1>0, <1>15 DEF InitStore
<1>16. CASE OpenKey(b) BY <1>0, <1>16 DEF OpenKey
<1>17. CASE WriteKey(b) BY <1>0, <1>17 DEF WriteKey
<1>18. CASE Bind(b) BY <1>0, <1>18 DEF Bind
<1>19. CASE LoadBundled(b) BY <1>0, <1>19 DEF LoadBundled
<1>20. CASE EnsureImage(b) BY <1>0, <1>20 DEF EnsureImage
<1>21. CASE EnsureService(b) BY <1>0, <1>21 DEF EnsureService
<1>22. CASE Serve(b) BY <1>0, <1>22 DEF Serve
<1>23. CASE Navigate(b) BY <1>0, <1>23 DEF Navigate
<1>24. CASE ReportFailure(b) BY <1>0, <1>24 DEF ReportFailure
<1>25. CASE FreeFlag(b) BY <1>0, <1>25 DEF FreeFlag
<1> QED
    BY <1>1, <1>2, <1>3, <1>4, <1>5, <1>6, <1>7, <1>8, <1>9, <1>10,
       <1>11, <1>12, <1>13, <1>14, <1>15, <1>16, <1>17, <1>18,
       <1>19, <1>20, <1>21, <1>22, <1>23, <1>24, <1>25 DEF Boot

(* Only OpenParams replaces the file, and only while nothing uses it.       *)
LEMMA BootParamsInv == ASSUME Inductive, NEW b \in Boots, Boot(b) PROVE ParamsInv'
<1>0. /\ ParamsInv /\ BootInv /\ pc \in [Boots -> Places]
      /\ infra \in [state: {"absent", "torn", "whole"}, base: Numbers, ui: Numbers]
      /\ drawn \in Numbers /\ env \in [base: Numbers, ui: Numbers]
      BY DEF Inductive, TypeOK
<1> USE DEF Goto, Proceed, GiveUp, Fail, Fault, NoFault, VmUnchanged, BootInv, ParamsInv, Early, Complete, SetEnv, IfUnset,
        Whole, Torn, Absent, NoEnv, NoBox, Numbers, disk, machine, process, history, bounds
<1>1. CASE ReadParams(b) BY <1>0, <1>1 DEF ReadParams
<1>2. CASE ParseFails(b) BY <1>0, <1>2 DEF ParseFails
<1>3. CASE ParamsUnreadable(b) BY <1>0, <1>3 DEF ParamsUnreadable
<1>4. CASE OpenParams(b) BY <1>0, <1>4 DEF OpenParams
<1>5. CASE WriteParams(b) BY <1>0, <1>5 DEF WriteParams
<1>6. CASE WriteParamsFails(b) BY <1>0, <1>6 DEF WriteParamsFails
<1>7. CASE CheckRosetta(b) BY <1>0, <1>7 DEF CheckRosetta
<1>8. CASE Prompt(b) BY <1>0, <1>8 DEF Prompt
<1>9. CASE InstallRosetta(b) BY <1>0, <1>9 DEF InstallRosetta
<1>10. CASE VmStatus(b) BY <1>0, <1>10 DEF VmStatus
<1>11. CASE StartVm(b, "starting", "docker") \/ StartVm(b, "restarting", "waiting")
  <2>1. PICK place \in {"docker", "waiting", "failing"} : pc' = [pc EXCEPT ![b] = place]
        BY <1>11, StartVmEffect DEF VmStarts
  <2>2. UNCHANGED <<infra, env, box, served, ports>> /\ pc[b] \notin Early
        BY <1>11, StartVmEffect DEF VmStarts
  <2> QED BY <1>0, <2>1, <2>2
<1>12. CASE WaitDocker(b) BY <1>0, <1>12 DEF WaitDocker
<1>13. CASE StopVm(b) BY <1>0, <1>13 DEF StopVm
<1>14. CASE WaitAgain(b) BY <1>0, <1>14 DEF WaitAgain
<1>15. CASE InitStore(b) BY <1>0, <1>15 DEF InitStore
<1>16. CASE OpenKey(b) BY <1>0, <1>16 DEF OpenKey
<1>17. CASE WriteKey(b) BY <1>0, <1>17 DEF WriteKey
<1>18. CASE Bind(b) BY <1>0, <1>18 DEF Bind
<1>19. CASE LoadBundled(b) BY <1>0, <1>19 DEF LoadBundled
<1>20. CASE EnsureImage(b) BY <1>0, <1>20 DEF EnsureImage
<1>21. CASE EnsureService(b) BY <1>0, <1>21 DEF EnsureService
<1>22. CASE Serve(b)
  <2>1. env # NoEnv /\ Complete /\ env.ui = infra.ui BY <1>0, <1>22 DEF Serve
  <2>2. /\ ports' = ports \cup {env.ui} /\ UNCHANGED <<infra, env, box>>
        /\ pc' = [pc EXCEPT ![b] = "navigate"]
        BY <1>0, <1>22 DEF Serve
  <2>3. ports' \subseteq {infra'.ui} /\ Complete' BY <1>0, <2>1, <2>2
  <2> QED BY <1>0, <2>1, <2>2, <2>3
<1>23. CASE Navigate(b) BY <1>0, <1>23 DEF Navigate
<1>24. CASE ReportFailure(b) BY <1>0, <1>24 DEF ReportFailure
<1>25. CASE FreeFlag(b) BY <1>0, <1>25 DEF FreeFlag
<1> QED
    BY <1>1, <1>2, <1>3, <1>4, <1>5, <1>6, <1>7, <1>8, <1>9, <1>10,
       <1>11, <1>12, <1>13, <1>14, <1>15, <1>16, <1>17, <1>18,
       <1>19, <1>20, <1>21, <1>22, <1>23, <1>24, <1>25 DEF Boot

(* keywrite is reached from an absent key, and stays with one boot.         *)
LEMMA BootKeyInv == ASSUME Inductive, NEW b \in Boots, Boot(b) PROVE KeyInv'
<1>0. KeyInv /\ BootInv /\ pc \in [Boots -> Places] /\ drawn \in Numbers
      BY DEF Inductive, TypeOK
<1> USE DEF Goto, Proceed, GiveUp, Fail, Fault, NoFault, VmUnchanged, KeyInv, BootInv, Numbers, disk, machine, process, history, bounds
<1>1. CASE ReadParams(b) BY <1>0, <1>1 DEF ReadParams
<1>2. CASE ParseFails(b) BY <1>0, <1>2 DEF ParseFails
<1>3. CASE ParamsUnreadable(b) BY <1>0, <1>3 DEF ParamsUnreadable
<1>4. CASE OpenParams(b) BY <1>0, <1>4 DEF OpenParams
<1>5. CASE WriteParams(b) BY <1>0, <1>5 DEF WriteParams
<1>6. CASE WriteParamsFails(b) BY <1>0, <1>6 DEF WriteParamsFails
<1>7. CASE CheckRosetta(b) BY <1>0, <1>7 DEF CheckRosetta
<1>8. CASE Prompt(b) BY <1>0, <1>8 DEF Prompt
<1>9. CASE InstallRosetta(b) BY <1>0, <1>9 DEF InstallRosetta
<1>10. CASE VmStatus(b) BY <1>0, <1>10 DEF VmStatus
<1>11. CASE StartVm(b, "starting", "docker") \/ StartVm(b, "restarting", "waiting")
       BY <1>0, <1>11, StartVmEffect DEF VmStarts, disk, history
<1>12. CASE WaitDocker(b) BY <1>0, <1>12 DEF WaitDocker
<1>13. CASE StopVm(b) BY <1>0, <1>13 DEF StopVm
<1>14. CASE WaitAgain(b) BY <1>0, <1>14 DEF WaitAgain
<1>15. CASE InitStore(b) BY <1>0, <1>15 DEF InitStore
<1>16. CASE OpenKey(b) BY <1>0, <1>16 DEF OpenKey
<1>17. CASE WriteKey(b) BY <1>0, <1>17 DEF WriteKey
<1>18. CASE Bind(b) BY <1>0, <1>18 DEF Bind
<1>19. CASE LoadBundled(b) BY <1>0, <1>19 DEF LoadBundled
<1>20. CASE EnsureImage(b) BY <1>0, <1>20 DEF EnsureImage
<1>21. CASE EnsureService(b) BY <1>0, <1>21 DEF EnsureService
<1>22. CASE Serve(b) BY <1>0, <1>22 DEF Serve
<1>23. CASE Navigate(b) BY <1>0, <1>23 DEF Navigate
<1>24. CASE ReportFailure(b) BY <1>0, <1>24 DEF ReportFailure
<1>25. CASE FreeFlag(b) BY <1>0, <1>25 DEF FreeFlag
<1> QED
    BY <1>1, <1>2, <1>3, <1>4, <1>5, <1>6, <1>7, <1>8, <1>9, <1>10,
       <1>11, <1>12, <1>13, <1>14, <1>15, <1>16, <1>17, <1>18,
       <1>19, <1>20, <1>21, <1>22, <1>23, <1>24, <1>25 DEF Boot

(* InitStore copies into a table without rules only.                        *)
LEMMA BootRuleInv == ASSUME Inductive, NEW b \in Boots, Boot(b) PROVE RuleInv'
<1>0. RuleInv BY DEF Inductive
<1> USE DEF Goto, Proceed, GiveUp, Fail, Fault, NoFault, VmUnchanged, RuleInv, disk, machine, process, history, bounds
<1>1. CASE ReadParams(b) BY <1>0, <1>1 DEF ReadParams
<1>2. CASE ParseFails(b) BY <1>0, <1>2 DEF ParseFails
<1>3. CASE ParamsUnreadable(b) BY <1>0, <1>3 DEF ParamsUnreadable
<1>4. CASE OpenParams(b) BY <1>0, <1>4 DEF OpenParams
<1>5. CASE WriteParams(b) BY <1>0, <1>5 DEF WriteParams
<1>6. CASE WriteParamsFails(b) BY <1>0, <1>6 DEF WriteParamsFails
<1>7. CASE CheckRosetta(b) BY <1>0, <1>7 DEF CheckRosetta
<1>8. CASE Prompt(b) BY <1>0, <1>8 DEF Prompt
<1>9. CASE InstallRosetta(b) BY <1>0, <1>9 DEF InstallRosetta
<1>10. CASE VmStatus(b) BY <1>0, <1>10 DEF VmStatus
<1>11. CASE StartVm(b, "starting", "docker") \/ StartVm(b, "restarting", "waiting")
       BY <1>0, <1>11, StartVmEffect DEF VmStarts, disk, history
<1>12. CASE WaitDocker(b) BY <1>0, <1>12 DEF WaitDocker
<1>13. CASE StopVm(b) BY <1>0, <1>13 DEF StopVm
<1>14. CASE WaitAgain(b) BY <1>0, <1>14 DEF WaitAgain
<1>15. CASE InitStore(b) BY <1>0, <1>15 DEF InitStore
<1>16. CASE OpenKey(b) BY <1>0, <1>16 DEF OpenKey
<1>17. CASE WriteKey(b) BY <1>0, <1>17 DEF WriteKey
<1>18. CASE Bind(b) BY <1>0, <1>18 DEF Bind
<1>19. CASE LoadBundled(b) BY <1>0, <1>19 DEF LoadBundled
<1>20. CASE EnsureImage(b) BY <1>0, <1>20 DEF EnsureImage
<1>21. CASE EnsureService(b) BY <1>0, <1>21 DEF EnsureService
<1>22. CASE Serve(b) BY <1>0, <1>22 DEF Serve
<1>23. CASE Navigate(b) BY <1>0, <1>23 DEF Navigate
<1>24. CASE ReportFailure(b) BY <1>0, <1>24 DEF ReportFailure
<1>25. CASE FreeFlag(b) BY <1>0, <1>25 DEF FreeFlag
<1> QED
    BY <1>1, <1>2, <1>3, <1>4, <1>5, <1>6, <1>7, <1>8, <1>9, <1>10,
       <1>11, <1>12, <1>13, <1>14, <1>15, <1>16, <1>17, <1>18,
       <1>19, <1>20, <1>21, <1>22, <1>23, <1>24, <1>25 DEF Boot

-----------------------------------------------------------------------------
(* Everything else.                                                         *)

(* Launch and Retry: the flag was free, so that every boot was idle.        *)
LEMMA SpawnKeeps ==
    ASSUME Inductive, NEW b \in Boots, Launch(b) \/ Retry(b)
    PROVE  Inductive'
<1> USE DEF Launch, Retry, Spawn, Alive, disk, machine, history, bounds
<1>1. Truths' BY Halves DEF Inductive, Truths
<1>2. Threads' BY Halves DEF Inductive, Threads, Places
<1>3. Contents' BY Halves, StartupAssumption DEF Inductive, Contents, Numbers, NoEnv
<1>4. BootInv' /\ KeyInv' /\ RuleInv'
      BY DEF Inductive, TypeOK, BootInv, KeyInv, RuleInv, Holding
<1>5. ParamsInv' BY DEF Inductive, TypeOK, BootInv, ParamsInv, Early, Complete, NoEnv
<1> QED BY <1>1, <1>2, <1>3, <1>4, <1>5, HalvesNext DEF Inductive

(* The user in the UI: rules and secrets.                                   *)
LEMMA UserKeeps == ASSUME Inductive, User PROVE Inductive'
<1> USE DEF process, machine, bounds, history
<1>1. CASE AddSecret
  <2>1. /\ secrets' = secrets \cup {key} /\ key > 1
        /\ UNCHANGED <<infra, key, legacy, rules, machine, process, history, bounds>>
        BY <1>1 DEF AddSecret
  <2>2. TypeOK' BY <2>1 DEF Inductive, TypeOK
  <2>3. BootInv' /\ ParamsInv' /\ RuleInv'
        BY <2>1 DEF Inductive, BootInv, ParamsInv, RuleInv, Complete
  <2>4. KeyInv' BY <2>1 DEF Inductive, TypeOK, KeyInv, Numbers
  <2> QED BY <2>2, <2>3, <2>4 DEF Inductive
<1>2. ASSUME NEW r \in Rules, DeleteRule(r) PROVE Inductive'
  <2>1. /\ r \in rules /\ rules' = rules \ {r} /\ gone' = gone \cup {r}
        /\ emptied' = (emptied \/ rules' = {})
        /\ UNCHANGED <<infra, key, secrets, legacy, machine, process, ports, bounds>>
        BY <1>2 DEF DeleteRule
  <2>2. emptied' \in BOOLEAN BY <2>1 DEF Inductive, TypeOK
  <2>3. TypeOK' BY <2>1, <2>2 DEF Inductive, TypeOK
  <2>4. BootInv' /\ ParamsInv' /\ KeyInv'
        BY <2>1 DEF Inductive, BootInv, ParamsInv, KeyInv, Complete
  <2>5. RuleInv' BY <2>1 DEF Inductive, RuleInv
  <2> QED BY <2>3, <2>4, <2>5 DEF Inductive
<1>3. CASE AddRule
  <2>1. /\ rules' = rules \cup {NewRule} /\ gone' = gone \ {NewRule}
        /\ UNCHANGED <<infra, key, secrets, legacy, machine, process, ports, emptied, bounds>>
        BY <1>3 DEF AddRule
  <2>2. TypeOK' BY <2>1 DEF Inductive, TypeOK, Rules
  <2>3. BootInv' /\ ParamsInv' /\ KeyInv'
        BY <2>1 DEF Inductive, BootInv, ParamsInv, KeyInv, Complete
  <2>4. RuleInv' BY <2>1 DEF Inductive, RuleInv
  <2> QED BY <2>2, <2>3, <2>4 DEF Inductive
<1> QED BY <1>1, <1>2, <1>3 DEF User

(* The application ends: the environment goes, and the file is whole or torn.*)
LEMMA DeathKeeps == ASSUME Inductive, Die PROVE Inductive'
<1> USE DEF Die, Torn, NoEnv, history
<1>1. Truths' BY Halves DEF Inductive, Truths
<1>2. Threads' BY DEF Threads, Places
<1>3. Contents' BY Halves, StartupAssumption DEF Inductive, Contents, Numbers
<1>4. BootInv' /\ KeyInv' /\ RuleInv'
      BY DEF Inductive, BootInv, KeyInv, RuleInv, Holding
<1>5. ParamsInv' BY DEF Inductive, TypeOK, ParamsInv, Early, Complete, Absent
<1> QED BY <1>1, <1>2, <1>3, <1>4, <1>5, HalvesNext DEF Inductive

(* VM and engine are of no concern to the strengthening.                    *)
LEMMA MachineKeeps == ASSUME Inductive, VmStops \/ EngineSilent PROVE Inductive'
<1> USE DEF VmStops, EngineSilent, Fault, VmUnchanged
<1>0. faults' \in 0..MaxFaults BY StartupAssumption DEF Inductive, TypeOK
<1>1. /\ vm' \in BOOLEAN /\ engine' \in BOOLEAN
      /\ UNCHANGED <<rosetta, image, box, process, disk, history, drawn, deaths>>
      BY DEF Inductive, TypeOK
<1> HIDE DEF VmStops, EngineSilent
<1>2. TypeOK' BY <1>0, <1>1 DEF Inductive, TypeOK, process, disk, history
<1>3. BootInv' /\ ParamsInv' /\ KeyInv' /\ RuleInv'
      BY <1>1 DEF Inductive, BootInv, ParamsInv, KeyInv, RuleInv, Complete,
                  process, disk, history
<1> QED BY <1>2, <1>3 DEF Inductive

(* The strengthening is kept by every step.                                 *)
LEMMA StepKeeps == ASSUME Inductive, [Next]_vars PROVE Inductive'
<1>1. ASSUME NEW b \in Boots, Boot(b) PROVE Inductive'
  <2>1. TypeOK' BY <1>1, BootTruths, BootThreads, BootContents, HalvesNext
  <2> QED BY <1>1, <2>1, BootBootInv, BootParamsInv, BootKeyInv, BootRuleInv DEF Inductive
<1>2. CASE UNCHANGED vars
  <2>1. TypeOK' BY <1>2 DEF Inductive, TypeOK, vars, disk, machine, process, history, bounds
  <2>2. BootInv' /\ ParamsInv' /\ KeyInv' /\ RuleInv'
        BY <1>2 DEF Inductive, BootInv, ParamsInv, KeyInv, RuleInv, Complete,
                    vars, disk, machine, process, history, bounds
  <2> QED BY <2>1, <2>2 DEF Inductive
<1> QED BY <1>1, <1>2, SpawnKeeps, UserKeeps, DeathKeeps, MachineKeeps DEF Next

-----------------------------------------------------------------------------
(* The theorems.                                                            *)

(* The strengthening holds always: one boot behind the flag, everything in  *)
(* use as the file says, no key over one that is needed.                    *)
THEOREM InductiveInvariant == Spec => []Inductive
<1> QED BY InitHolds, StepKeeps, PTL DEF Spec

(* Every variable of the boot keeps its type.                               *)
THEOREM TypeCorrect == Spec => []TypeOK
<1>1. Inductive => TypeOK BY DEF Inductive
<1> QED BY <1>1, InductiveInvariant, PTL

(* One boot goes on at a time, and none gets past the listener of a server. *)
THEOREM BootsAreSingle == Spec => []OneBoot
<1>1. ASSUME Inductive PROVE OneBoot
  <2> DEFINE awake == {b \in Boots : pc[b] # "idle"}
  <2>1. Cardinality(awake) <= 1
    <3>1. CASE awake = {} BY <3>1, FS_EmptySet
    <3>2. CASE awake # {}
      <4>1. PICK b \in awake : TRUE BY <3>2
      <4>2. awake = {b} BY <1>1, <4>1 DEF Inductive, BootInv
      <4> QED BY <4>2, FS_Singleton
    <3> QED BY <3>1, <3>2
  <2>2. served => ~Held BY <1>1 DEF Inductive, BootInv, Held
  <2> QED BY <2>1, <2>2 DEF OneBoot
<1> QED BY <1>1, InductiveInvariant, PTL

(* One UI port for ever, and a running container with the parameters in use.*)
THEOREM ParametersStick == Spec => []ParamsStick
<1>1. ASSUME Inductive PROVE ParamsStick
  <2>1. Cardinality(ports) <= 1
    <3>1. CASE ports = {} BY <3>1, FS_EmptySet
    <3>2. CASE ports # {}
      <4>1. ports = {infra.ui} BY <1>1, <3>2 DEF Inductive, ParamsInv
      <4>2. Cardinality({infra.ui}) = 1 BY FS_Singleton
      <4> QED BY <4>1, <4>2
    <3> QED BY <3>1, <3>2
  <2>2. served /\ box.state = "running" => box.base = env.base
        BY <1>1 DEF Inductive, ParamsInv, Complete, Torn
  <2> QED BY <2>1, <2>2 DEF ParamsStick
<1> QED BY <1>1, InductiveInvariant, PTL

(* No boot replaces a key that a stored secret depends on.                  *)
THEOREM KeyIsKept == Spec => []SecretsReadable
<1>1. Inductive => SecretsReadable BY DEF Inductive, KeyInv, SecretsReadable
<1> QED BY <1>1, InductiveInvariant, PTL

(* Deleted rules come back only after the last one was deleted.             *)
THEOREM MigrationIsBounded == Spec => []DeletedRulesStay
<1>1. Inductive => DeletedRulesStay BY DEF Inductive, RuleInv, DeletedRulesStay
<1> QED BY <1>1, InductiveInvariant, PTL

=============================================================================
