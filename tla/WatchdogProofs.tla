--------------------------- MODULE WatchdogProofs ---------------------------
(***************************************************************************)
(* Safety of the watchdog's ladder for any streak, cooldown, window, bound *)
(* on restarts and delay, under any behaviour of the world and of the      *)
(* manual repair.                                                          *)
(***************************************************************************)
EXTENDS Watchdog, FiniteSetTheorems, TLAPS

(* What Least returns.                                                      *)
LEMMA LeastBound ==
    ASSUME NEW a \in Nat, NEW b \in Nat
    PROVE  Least(a, b) \in 0..b /\ Least(a, b) <= a /\ (a <= b => Least(a, b) = a)
BY DEF Least

(* Least of the same bound twice, and of a smaller and a larger.            *)
LEMMA LeastAgain ==
    ASSUME NEW a \in Nat, NEW c \in Nat
    PROVE  Least(Least(a, c) + 0, c) = Least(a, c)
BY DEF Least

LEMMA LeastMonotone ==
    ASSUME NEW a \in Nat, NEW b \in Nat, NEW c \in Nat, a <= b
    PROVE  Least(a, c) \in Nat /\ Least(b, c) \in Nat /\ Least(a, c) <= Least(b, c)
BY DEF Least

(* An age that is set back, or kept, is not more than it was and some.      *)
LEMMA LeastShorter ==
    ASSUME NEW s \in Nat, NEW t \in {0, s}, NEW l \in Nat, NEW n \in Nat, NEW c \in Nat
    PROVE  /\ Least(t + n, c) <= Least(s + (l + n), c)
           /\ Least(t + n, c) \in Nat /\ Least(s + (l + n), c) \in Nat
<1>1. t + n \in Nat /\ s + (l + n) \in Nat /\ t + n <= s + (l + n) OBVIOUS
<1> QED BY <1>1, LeastMonotone

(* Time passing only lets restarts drop out of the window.                  *)
LEMMA AgedBound ==
    ASSUME NEW n \in Nat, heals \in SUBSET (0..(Window - 1))
    PROVE  /\ Aged(n) \in SUBSET (0..(Window - 1))
           /\ Cardinality(Aged(n)) <= Cardinality(heals)
<1> DEFINE f == [a \in Aged(n) |-> a - n]
<1>1. IsFiniteSet(heals)
  <2>1. IsFiniteSet(0..(Window - 1)) BY FS_Interval, LadderAssumption
  <2> QED BY <2>1, FS_Subset
<1>2. f \in Injection(Aged(n), heals)
  <2>1. \A a \in Aged(n) : a \in Int /\ f[a] \in heals /\ f[a] = a - n BY DEF Aged
  <2>2. \A a, b \in Aged(n) : f[a] = f[b] => a = b BY <2>1
  <2>3. f \in [Aged(n) -> heals] BY <2>1
  <2> QED BY <2>2, <2>3 DEF Injection, IsInjective
<1>3. Cardinality(Aged(n)) <= Cardinality(heals) BY <1>1, <1>2, FS_Injection
<1> QED BY <1>3 DEF Aged

(* One more restart is one more at most.                                    *)
LEMMA RestartBound ==
    ASSUME TypeOK, Cardinality(heals) < FlapCount
    PROVE  /\ heals \cup {0} \in SUBSET (0..(Window - 1))
           /\ Cardinality(heals \cup {0}) <= FlapCount
<1>1. IsFiniteSet(heals)
  <2>1. IsFiniteSet(0..(Window - 1)) BY FS_Interval, LadderAssumption
  <2> QED BY <2>1, FS_Subset DEF TypeOK
<1>2. Cardinality(heals) \in Nat BY <1>1, FS_CardinalityType
<1>3. Cardinality(heals \cup {0}) <= Cardinality(heals) + 1
      BY <1>1, <1>2, FS_AddElement
<1>4. Cardinality(heals \cup {0}) \in Nat
      BY <1>1, FS_AddElement, FS_CardinalityType
<1>5. heals \cup {0} \in SUBSET (0..(Window - 1)) BY LadderAssumption DEF TypeOK
<1> QED BY <1>2, <1>3, <1>4, <1>5, LadderAssumption

LEMMA InitTypes == ASSUME Init PROVE TypeOK
<1> USE LadderAssumption
<1>1. Cardinality(heals) = 0 /\ heals \in SUBSET (0..(Window - 1))
      BY FS_EmptySet DEF Init
<1>2. Cardinality(heals) <= FlapCount BY <1>1
<1>3. snap \in Snapshot BY DEF Init, Snapshot, Health, Dead
<1>4. /\ fail_streak \in 0..Streak /\ sinceHeal \in 0..Cooldown /\ backlog \in 0..MaxBusy
      /\ late \in 0..MaxBusy /\ lag \in 0..MaxBusy
      /\ restarted \in 0..Cooldown /\ tries \in 0..2
      BY DEF Init
<1>5. /\ vm \in BOOLEAN /\ mux \in BOOLEAN /\ fwd \in BOOLEAN /\ held \in BOOLEAN
      /\ ctr \in BOOLEAN /\ tunnel \in BOOLEAN /\ dtun \in BOOLEAN
      /\ tunneled \in BOOLEAN /\ gave_up \in BOOLEAN /\ docker \in BOOLEAN
      /\ calm \in BOOLEAN
      BY DEF Init
<1>6. /\ handle \in {"none", "native", "tunnel"} /\ pc \in {"wait", "probe", "act"}
      /\ action \in {"None", "Restart", "Tunnel"}
      /\ repair \in {"idle", "poll", "tunnel", "last"}
      BY DEF Init
<1> QED BY <1>1, <1>2, <1>3, <1>4, <1>5, <1>6 DEF TypeOK

-----------------------------------------------------------------------------
(* The ladder.                                                              *)

LadderTypes ==
    /\ fail_streak \in 0..Streak /\ sinceHeal \in 0..Cooldown
    /\ heals \in SUBSET (0..(Window - 1)) /\ Cardinality(heals) <= FlapCount
    /\ tunneled \in BOOLEAN /\ gave_up \in BOOLEAN
    /\ action \in {"None", "Restart", "Tunnel"}

(* What a decision may do to the ladder, whatever the verdict.              *)
LEMMA DecideEffect ==
    ASSUME Inductive, NEW health \in Health, Decide(health)
    PROVE  /\ LadderTypes'
           /\ health = "Healthy" => ~tunneled' /\ action' = "None"
           /\ health # "Healthy" =>
                 /\ tunneled' = (tunneled \/ action' = "Tunnel")
                 /\ action' = "Tunnel" => ~tunneled
           /\ gave_up' => tunneled'
           /\ action' = "Restart" => sinceHeal = Cooldown
           /\ sinceHeal' \in {0, sinceHeal}
           /\ action' = "Restart" => sinceHeal' = 0
<1> USE LadderAssumption
<1>1. Failing \in 0..Streak
      BY LeastBound DEF Inductive, TypeOK, Failing
<1>2. CASE health = "Healthy"
  <2>1. DecideHealthy BY <1>2 DEF Decide
  <2>2. Cardinality(heals') = 0 /\ heals' \in SUBSET (0..(Window - 1))
        BY <2>1, FS_EmptySet DEF DecideHealthy
  <2>3. fail_streak' \in 0..Streak /\ sinceHeal' \in 0..Cooldown /\ action' = "None"
        BY <2>1 DEF DecideHealthy, Ladder, Inductive, TypeOK
  <2>4. gave_up' \in BOOLEAN /\ tunneled' \in BOOLEAN BY <2>1 DEF DecideHealthy
  <2>5. LadderTypes' BY <2>2, <2>3, <2>4 DEF LadderTypes
  <2> QED BY <1>2, <2>1, <2>5 DEF DecideHealthy, Ladder
<1>3. ASSUME NEW cooling, DecideWait(cooling), health # "Healthy"
      PROVE  /\ LadderTypes' /\ action' = "None"
             /\ UNCHANGED <<sinceHeal, heals, tunneled, gave_up>>
      BY <1>1, <1>3 DEF DecideWait, Ladder, Keep, LadderTypes, Inductive, TypeOK
<1>4. ASSUME DecideRestart
      PROVE  /\ LadderTypes' /\ action' = "Restart" /\ sinceHeal' = 0
             /\ UNCHANGED <<tunneled, gave_up>>
      BY <1>1, <1>4, RestartBound DEF DecideRestart, Ladder, LadderTypes, Inductive, TypeOK
<1>5. ASSUME DecideTunnel
      PROVE  /\ LadderTypes' /\ action' = "Tunnel" /\ sinceHeal' = 0
             /\ ~tunneled /\ tunneled' /\ UNCHANGED gave_up
      BY <1>1, <1>5 DEF DecideTunnel, Ladder, LadderTypes, Inductive, TypeOK
<1>6. ASSUME DecideGiveUp
      PROVE  /\ LadderTypes' /\ action' = "None" /\ tunneled
             /\ UNCHANGED <<tunneled, sinceHeal>>
      BY <1>1, <1>6 DEF DecideGiveUp, Ladder, LadderTypes, Inductive, TypeOK
<1>7. CASE health = "ForwardDead"
  <2>1. DecideForwardDead BY <1>7 DEF Decide
  <2>2. CASE DecideWait(Cooling)
        BY <1>3, <1>7, <2>2 DEF Inductive, LadderInv, TypeOK
  <2>3. CASE ~Cooling /\ DecideRestart
        BY <1>4, <1>7, <2>3 DEF Inductive, LadderInv, TypeOK, Cooling
  <2>4. CASE DecideTunnel BY <1>5, <1>7, <2>4 DEF Inductive, LadderInv
  <2>5. CASE DecideGiveUp BY <1>6, <1>7, <2>5 DEF Inductive, LadderInv
  <2> QED BY <2>1, <2>2, <2>3, <2>4, <2>5 DEF DecideForwardDead
<1>8. CASE health = "TransportDead"
  <2>1. DecideTransportDead BY <1>8 DEF Decide
  <2>2. CASE DecideWait(tunneled /\ Cooling)
        BY <1>3, <1>8, <2>2 DEF Inductive, LadderInv, TypeOK
  <2>3. CASE DecideTunnel BY <1>5, <1>8, <2>3 DEF Inductive, LadderInv
  <2>4. CASE DecideGiveUp BY <1>6, <1>8, <2>4 DEF Inductive, LadderInv
  <2> QED BY <2>1, <2>2, <2>3, <2>4 DEF DecideTransportDead
<1>9. CASE health = "TransportDegraded"
  <2>1. DecideDegraded BY <1>9 DEF Decide
  <2>2. LadderTypes'
    <3>1. fail_streak' \in 0..Streak /\ action' = "None"
          BY <2>1 DEF DecideDegraded, Ladder
    <3>2. gave_up' \in BOOLEAN BY <2>1 DEF DecideDegraded
    <3>3. UNCHANGED <<sinceHeal, heals, tunneled>> BY <2>1 DEF DecideDegraded
    <3> QED BY <3>1, <3>2, <3>3 DEF LadderTypes, Inductive, TypeOK
  <2> QED BY <1>9, <2>1, <2>2 DEF DecideDegraded, Ladder, Inductive, TypeOK
<1>10. CASE health \in {"ContainerDown", "VmDown"}
  <2>1. DecideDown BY <1>10 DEF Decide
  <2> QED BY <1>10, <2>1 DEF DecideDown, Ladder, Keep, LadderTypes, Inductive, TypeOK,
                             LadderInv
<1> QED BY <1>2, <1>7, <1>8, <1>9, <1>10 DEF Health, Dead

(* What another reading of the clock does to it.                            *)
LEMMA StampEffect ==
    ASSUME Inductive, NEW n \in Nat, Stamp(n)
    PROVE  /\ heals' \in SUBSET (0..(Window - 1)) /\ Cardinality(heals') <= FlapCount
           /\ sinceHeal' \in 0..Cooldown /\ sinceHeal' = Least(sinceHeal + n, Cooldown)
<1> USE LadderAssumption
<1>1. /\ Aged(n) \in SUBSET (0..(Window - 1))
      /\ Cardinality(Aged(n)) <= Cardinality(heals)
      BY AgedBound DEF Inductive, TypeOK
<1>2. Cardinality(heals) \in Nat /\ Cardinality(Aged(n)) \in Nat
  <2>1. IsFiniteSet(0..(Window - 1)) BY FS_Interval
  <2>2. IsFiniteSet(heals) /\ IsFiniteSet(Aged(n))
        BY <1>1, <2>1, FS_Subset DEF Inductive, TypeOK
  <2> QED BY <2>2, FS_CardinalityType
<1>3. Cardinality(heals') <= FlapCount
      BY <1>1, <1>2 DEF Stamp, Inductive, TypeOK
<1>4. sinceHeal' \in 0..Cooldown
      BY DEF Stamp, Inductive, TypeOK, Least
<1> QED BY <1>1, <1>3, <1>4 DEF Stamp

(* Time passing adds as much to the real age of a restart as to the age of  *)
(* the clock's reading.                                                     *)
LEMMA OlderEffect ==
    ASSUME Inductive, NEW n \in Nat, Older(n)
    PROVE  /\ restarted' \in 0..Cooldown /\ lag' \in 0..MaxBusy
           /\ Least(sinceHeal + (late + n), Cooldown) <= restarted' + lag'
<1> USE LadderAssumption
<1> DEFINE s == sinceHeal + late
<1>1. /\ s \in Nat /\ sinceHeal + (late + n) = s + n
      /\ restarted \in 0..Cooldown /\ lag \in 0..MaxBusy
      /\ Least(s, Cooldown) <= restarted + lag
      BY DEF Inductive, TypeOK, LadderInv
<1> HIDE DEF s
<1>2. restarted' = Least(restarted + n, Cooldown) /\ restarted' \in 0..Cooldown
      BY <1>1 DEF Older, Least
<1>3. lag' = (IF restarted' < Cooldown THEN lag ELSE 0) /\ lag' \in 0..MaxBusy
      BY <1>1 DEF Older
<1>4. CASE restarted' < Cooldown
  <2>1. restarted' = restarted + n /\ lag' = lag BY <1>1, <1>2, <1>3, <1>4 DEF Least
  <2>2. Least(s + n, Cooldown) <= Least(s, Cooldown) + n /\ Least(s, Cooldown) \in Nat
        /\ Least(s + n, Cooldown) \in Nat
        BY <1>1 DEF Least
  <2> QED BY <1>1, <1>2, <1>3, <2>1, <2>2
<1>5. CASE ~(restarted' < Cooldown)
  <2>1. Least(s + n, Cooldown) \in 0..Cooldown BY <1>1 DEF Least
  <2> QED BY <1>1, <1>2, <1>3, <1>5, <2>1
<1> QED BY <1>4, <1>5

-----------------------------------------------------------------------------
(* The steps.                                                               *)

LEMMA TickPreserves == ASSUME Inductive, Tick PROVE Inductive'
<1> USE LadderAssumption
<1> DEFINE n == IF backlog > 0 THEN 0 ELSE 1
<1>1. n \in Nat /\ Stamp(late + n) /\ late' = 0 /\ Older(n)
      BY DEF Tick, TickTime
<1>2. late + n \in Nat BY <1>1 DEF Inductive, TypeOK
<1>3. /\ heals' \in SUBSET (0..(Window - 1)) /\ Cardinality(heals') <= FlapCount
      /\ sinceHeal' \in 0..Cooldown /\ sinceHeal' = Least(sinceHeal + (late + n), Cooldown)
      BY <1>1, <1>2, StampEffect
<1>4. /\ restarted' \in 0..Cooldown /\ lag' \in 0..MaxBusy
      /\ Least(sinceHeal + (late + n), Cooldown) <= restarted' + lag'
      BY <1>1, OlderEffect
<1>5. docker' \in BOOLEAN BY DEF Tick, Inductive, TypeOK, Pings
<1>6. handle' \in {"none", "native", "tunnel"} BY DEF Tick, Inductive, TypeOK
<1>7. backlog' \in 0..MaxBusy /\ late' \in 0..MaxBusy /\ late' <= backlog'
      BY <1>1 DEF Tick, TickTime, Inductive, TypeOK
<1>8. TypeOK' BY <1>3, <1>4, <1>5, <1>6, <1>7 DEF Tick, Inductive, TypeOK, world
<1>9. Least(sinceHeal' + late', Cooldown) <= restarted' + lag'
  <2> HIDE DEF n
  <2>1. sinceHeal + (late + n) \in Nat BY <1>2 DEF Inductive, TypeOK
  <2> QED BY <1>1, <1>3, <1>4, <2>1, LeastAgain
<1>10. LadderInv' BY <1>7, <1>9 DEF Tick, Inductive, LadderInv
<1> QED BY <1>8, <1>10 DEF Inductive

LEMMA VerdictType == ASSUME TypeOK PROVE Verdict \in Health
BY DEF TypeOK, Verdict, HealthSeen, Health, Dead

LEMMA ProbePreserves == ASSUME Inductive, Probe PROVE Inductive'
<1> USE LadderAssumption
<1>1. Verdict \in Health BY VerdictType DEF Inductive
<1> DEFINE v == Verdict
<1> HIDE DEF v
<1>2. v \in Health /\ Decide(v) BY <1>1 DEF Probe, v
<1>3. /\ LadderTypes'
      /\ v = "Healthy" => ~tunneled' /\ action' = "None"
      /\ v # "Healthy" => /\ tunneled' = (tunneled \/ action' = "Tunnel")
                          /\ action' = "Tunnel" => ~tunneled
      /\ gave_up' => tunneled'
      /\ sinceHeal' \in {0, sinceHeal}
      /\ action' = "Restart" => sinceHeal' = 0
      BY <1>2, DecideEffect
<1>4. snap' \in Snapshot /\ snap'.gave_up = gave_up'
  <2>1. snap' = [health |-> v, reachable |-> v \in {"Healthy", "TransportDegraded"},
                 healing |-> v \in Dead /\ ~gave_up', gave_up |-> gave_up',
                 tunnel_fallback |-> snap.tunnel_fallback]
        BY DEF Probe, v
  <2>2. gave_up' \in BOOLEAN BY <1>3 DEF LadderTypes
  <2>3. snap.tunnel_fallback \in BOOLEAN BY DEF Inductive, TypeOK, Snapshot
  <2> QED BY <1>2, <2>1, <2>2, <2>3 DEF Snapshot
<1>5. /\ restarted' \in 0..Cooldown /\ lag' \in 0..MaxBusy
      /\ backlog' \in 0..MaxBusy /\ late' \in 0..MaxBusy /\ late' <= backlog'
      /\ Least(sinceHeal' + late', Cooldown) <= restarted' + lag'
  <2>1. PICK slow \in Busy :
           /\ backlog' = backlog + slow /\ late' = slow
           /\ IF action' = "Restart" THEN restarted' = 0 /\ lag' = slow
              ELSE Older(slow)
        BY DEF Probe
  <2>2. /\ slow \in Nat /\ backlog' \in 0..MaxBusy /\ late' \in 0..MaxBusy
        /\ late' <= backlog'
        BY <2>1 DEF Busy, Inductive, TypeOK
  <2>3. CASE action' = "Restart"
        BY <1>3, <2>1, <2>2, <2>3 DEF Least
  <2>4. CASE action' # "Restart"
    <3>1. /\ restarted' \in 0..Cooldown /\ lag' \in 0..MaxBusy
          /\ Least(sinceHeal + (late + slow), Cooldown) <= restarted' + lag'
          BY <2>1, <2>2, <2>4, OlderEffect
    <3>2. sinceHeal \in Nat /\ late \in Nat /\ Cooldown \in Nat
          BY DEF Inductive, TypeOK
    <3>3. /\ Least(sinceHeal' + slow, Cooldown) <= Least(sinceHeal + (late + slow), Cooldown)
          /\ Least(sinceHeal' + slow, Cooldown) \in Nat
          /\ Least(sinceHeal + (late + slow), Cooldown) \in Nat
      BY <1>3, <2>2, <3>2, LeastShorter
    <3> QED BY <2>1, <2>2, <3>1, <3>3
  <2> QED BY <2>3, <2>4
<1>6. tries' = IF tunneled' THEN 1 ELSE 0
  <2>1. tries' = IF v = "Healthy" THEN 0
                 ELSE IF action' = "Tunnel" THEN Least(tries + 1, 2) ELSE tries
        BY DEF Probe, v
  <2>2. CASE v = "Healthy" BY <1>3, <2>1, <2>2
  <2>3. CASE v # "Healthy" /\ action' = "Tunnel"
    <3>1. ~tunneled /\ tunneled' = (tunneled \/ action' = "Tunnel")
          BY <1>3, <2>3
    <3>2. tries = 0 BY <3>1 DEF Inductive, LadderInv
    <3>3. tries' = 1 BY <2>1, <2>3, <3>2 DEF Least
    <3>4. tunneled' BY <2>3, <3>1
    <3> QED BY <3>3, <3>4
  <2>4. CASE v # "Healthy" /\ action' # "Tunnel"
    <3>1. tries' = tries /\ tunneled' = tunneled BY <1>3, <2>1, <2>4 DEF Inductive, TypeOK
    <3> QED BY <3>1 DEF Inductive, LadderInv
  <2> QED BY <2>2, <2>3, <2>4
<1>7. tries' \in 0..2 BY <1>6
<1>8. TypeOK'
      BY <1>3, <1>4, <1>5, <1>7 DEF Probe, Inductive, TypeOK, LadderTypes, world
<1>9. LadderInv' BY <1>3, <1>4, <1>5, <1>6 DEF LadderInv
<1> QED BY <1>8, <1>9 DEF Inductive

-----------------------------------------------------------------------------
WorldTypes ==
    /\ vm \in BOOLEAN /\ mux \in BOOLEAN /\ fwd \in BOOLEAN /\ held \in BOOLEAN
    /\ ctr \in BOOLEAN /\ tunnel \in BOOLEAN /\ dtun \in BOOLEAN
    /\ handle \in {"none", "native", "tunnel"}

LEMMA RestartTypes ==
    ASSUME TypeOK, NEW done, RestartContainer(done), UNCHANGED handle
    PROVE  WorldTypes'
BY DEF TypeOK, RestartContainer, WorldTypes, world

LEMMA HealTypes == ASSUME TypeOK, HealTransport PROVE WorldTypes'
BY DEF TypeOK, HealTransport, TunnelPort, Reachable, WorldTypes

LEMMA ActPreserves == ASSUME Inductive, Act PROVE Inductive'
<1> USE LadderAssumption
<1>1. PICK busy \in Busy :
         backlog' = backlog + busy /\ late' = late + busy /\ Older(busy)
      BY DEF Act
<1>2. /\ busy \in Nat /\ backlog' \in 0..MaxBusy /\ late' \in 0..MaxBusy
      /\ late' <= backlog'
      BY <1>1 DEF Busy, Inductive, TypeOK, LadderInv
<1>3. /\ UNCHANGED ladder /\ restarted' \in 0..Cooldown /\ lag' \in 0..MaxBusy
      /\ Least(sinceHeal' + late', Cooldown) <= restarted' + lag'
  <2>1. /\ restarted' \in 0..Cooldown /\ lag' \in 0..MaxBusy
        /\ Least(sinceHeal + (late + busy), Cooldown) <= restarted' + lag'
        BY <1>1, <1>2, OlderEffect
  <2>2. UNCHANGED ladder BY DEF Act
  <2> QED BY <1>1, <2>1, <2>2 DEF ladder
<1>4. WorldTypes' /\ snap' \in Snapshot /\ snap'.gave_up = snap.gave_up
  <2>1. CASE action = "Restart"
        BY <2>1, RestartTypes DEF Act, Inductive, TypeOK
  <2>2. CASE action = "Tunnel"
    <3>1. /\ HealTransport
          /\ snap' = [snap EXCEPT !.tunnel_fallback = @ \/ fwd \/ tunnel']
          BY <2>2 DEF Act
    <3>2. WorldTypes' BY <3>1, HealTypes DEF Inductive
    <3>3. (snap.tunnel_fallback \/ fwd \/ tunnel') \in BOOLEAN
          BY <3>2 DEF WorldTypes, Inductive, TypeOK, Snapshot
    <3> QED BY <3>1, <3>2, <3>3 DEF Inductive, TypeOK, Snapshot
  <2>3. CASE action = "None"
        BY <2>3 DEF Act, Inductive, TypeOK, WorldTypes, world
  <2> QED BY <2>1, <2>2, <2>3 DEF Inductive, TypeOK
<1>5. TypeOK' BY <1>2, <1>3, <1>4 DEF Act, ladder, Inductive, TypeOK, WorldTypes
<1>6. LadderInv' BY <1>2, <1>3, <1>4 DEF Act, ladder, Inductive, LadderInv
<1> QED BY <1>5, <1>6 DEF Inductive

(* The manual repair touches the world and the snapshot, not the ladder.    *)
Repairs ==
    \/ RepairRestart \/ RepairDone \/ RepairWaitedEnough \/ RepairTunnel
    \/ RepairAbandoned

LEMMA RepairPreserves == ASSUME Inductive, Repairs PROVE Inductive'
<1>1. /\ UNCHANGED <<ladder, loop, history, calm>>
      /\ repair' \in {"idle", "poll", "tunnel", "last"}
  <2>1. CASE RepairRestart BY <2>1 DEF RepairRestart
  <2>2. CASE RepairTunnel BY <2>2 DEF RepairTunnel
  <2>3. CASE RepairDone \/ RepairWaitedEnough \/ RepairAbandoned
        BY <2>3 DEF RepairDone, RepairWaitedEnough, RepairAbandoned
  <2> QED BY <2>1, <2>2, <2>3 DEF Repairs
<1>2. WorldTypes'
  <2>1. CASE RepairRestart
    <3>1. UNCHANGED handle /\ \E done \in Restarts : RestartContainer(done)
          BY <2>1 DEF RepairRestart
    <3> QED BY <3>1, RestartTypes DEF Inductive
  <2>2. CASE RepairTunnel BY <2>2, HealTypes DEF RepairTunnel, Inductive
  <2>3. CASE RepairDone \/ RepairWaitedEnough \/ RepairAbandoned
        BY <2>3 DEF RepairDone, RepairWaitedEnough, RepairAbandoned, Inductive, TypeOK,
                    WorldTypes, world
  <2> QED BY <2>1, <2>2, <2>3 DEF Repairs
<1>3. snap' \in Snapshot /\ (snap'.gave_up => snap.gave_up)
  <2>1. CASE RepairDone
        BY <2>1 DEF RepairDone, Inductive, TypeOK, Snapshot, Health, Dead
  <2>2. CASE UNCHANGED snap BY <2>2 DEF Inductive, TypeOK
  <2> QED BY <2>1, <2>2 DEF Repairs, RepairRestart, RepairWaitedEnough, RepairTunnel,
                            RepairAbandoned
<1>4. TypeOK'
      BY <1>1, <1>2, <1>3 DEF Inductive, TypeOK, WorldTypes, ladder, loop, history
<1>5. LadderInv' BY <1>1, <1>3 DEF Inductive, LadderInv, ladder, loop, history
<1> QED BY <1>4, <1>5 DEF Inductive

(* The world by itself.                                                     *)
LEMMA WorldPreserves == ASSUME Inductive, Disturbance \/ Settle PROVE Inductive'
<1>1. /\ UNCHANGED <<handle, ladder, loop, repair, snap, history>>
      /\ calm' \in BOOLEAN
      BY DEF Disturbance, Settle, Inductive, TypeOK
<1>2. WorldTypes'
  <2>1. CASE Settle BY <2>1 DEF Settle, Inductive, TypeOK, WorldTypes, world
  <2>2. CASE Disturbance
        BY <1>1, <2>2 DEF Disturbance, VmStops, VmStarts, MuxDies, MuxReturns, ForwardLost,
                     ContainerStops, ContainerStarts, TunnelDies, Inductive, TypeOK,
                     WorldTypes
  <2> QED BY <2>1, <2>2
<1>3. TypeOK' BY <1>1, <1>2 DEF Inductive, TypeOK, WorldTypes, ladder, loop, history
<1>4. LadderInv' BY <1>1 DEF Inductive, LadderInv, ladder, loop, history
<1> QED BY <1>3, <1>4 DEF Inductive

-----------------------------------------------------------------------------
(* The strengthening is an invariant.                                       *)
THEOREM InductiveInvariant == Spec => []Inductive
<1>1. Init => Inductive
  <2> SUFFICES ASSUME Init PROVE LadderInv BY InitTypes DEF Inductive
  <2> QED BY LadderAssumption DEF Init, LadderInv, Least
<1>2. Inductive /\ [Next]_vars => Inductive'
  <2> SUFFICES ASSUME Inductive, [Next]_vars PROVE Inductive'
      OBVIOUS
  <2>1. CASE Loop BY <2>1, TickPreserves, ProbePreserves, ActPreserves DEF Loop
  <2>2. CASE Repairs BY <2>2, RepairPreserves
  <2>3. CASE Disturbance \/ Settle BY <2>3, WorldPreserves
  <2>4. CASE UNCHANGED vars
    <3>1. TypeOK' BY <2>4 DEF vars, world, ladder, loop, history, Inductive, TypeOK
    <3>2. LadderInv' BY <2>4 DEF vars, ladder, loop, history, Inductive, LadderInv
    <3> QED BY <3>1, <3>2 DEF Inductive
  <2> QED BY <2>1, <2>2, <2>3, <2>4 DEF Next, Repairs
<1> QED BY <1>1, <1>2, PTL DEF Spec

(* Types, and at most FlapCount restarts within the window.                 *)
THEOREM TypeCorrect == Spec => []TypeOK
<1>1. Inductive => TypeOK BY DEF Inductive
<1> QED BY <1>1, InductiveInvariant, PTL

(* The tunnel is tried once between two healthy verdicts, and giving up is  *)
(* shown only after it was.                                                 *)
THEOREM TunnelTriedOnce == Spec => []TunnelOnce
<1>1. Inductive => TunnelOnce BY DEF Inductive, LadderInv, TunnelOnce
<1> QED BY <1>1, InductiveInvariant, PTL

(* The clock readings of two automatic restarts are a cooldown apart: a     *)
(* restart is closer to the one before only by how late that one was.       *)
THEOREM RestartsKeepDistance == Spec => RestartsSpaced
<1>1. ASSUME Inductive, Next, action # "Restart", action' = "Restart"
      PROVE  restarted + lag >= Cooldown
  <2>1. CASE Probe
    <3>1. Verdict \in Health /\ Decide(Verdict)
          BY <1>1, <2>1, VerdictType DEF Probe, Inductive
    <3>2. sinceHeal = Cooldown BY <1>1, <3>1, DecideEffect
    <3> QED BY <1>1, <3>2, LadderAssumption DEF Inductive, LadderInv, TypeOK, Least
  <2>2. CASE ~Probe
        BY <1>1, <2>2 DEF Next, Loop, Tick, Act, RepairRestart, RepairDone,
                          RepairWaitedEnough, RepairTunnel, RepairAbandoned, Disturbance,
                          Settle, loop
  <2> QED BY <2>1, <2>2
<1>2. Inductive /\ [Next]_vars =>
         [action # "Restart" /\ action' = "Restart" => restarted + lag >= Cooldown]_vars
      BY <1>1
<1> QED BY <1>2, InductiveInvariant, PTL DEF Spec, RestartsSpaced

=============================================================================
