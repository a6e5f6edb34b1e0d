------------------------------- MODULE Watchdog -------------------------------
(***************************************************************************)
(* The health watchdog of the proxy port (desktop/core: health.rs) and the *)
(* manual repair it shares its means with (routes.rs: heal_proxy).         *)
(*                                                                         *)
(* The proxy port reaches the host through lima's SSH connection to the VM *)
(* (mux), as does docker's socket.  The forwarding can be lost silently.   *)
(* Every tick the watchdog probes, decides and acts on a ladder of two     *)
(* rungs: restart the mihomo container, which makes lima forward the port  *)
(* again, then set up an SSH tunnel of its own.  If both have failed it    *)
(* gives up and says so in the snapshot the UI shows.                      *)
(*                                                                         *)
(* Time is counted in ticks and kept as ages, so that it needs no bound.   *)
(* The watchdog reads its clock (now_ms) before it probes and decides by   *)
(* that reading, however long the probe took: its ages are as of then, and *)
(* time has gone on by late since.  A slow probe or repair makes the ticks *)
(* it missed come at once (tokio's interval bursts).                       *)
(***************************************************************************)
EXTENDS Naturals, FiniteSets

CONSTANTS
    Streak,     \* FAIL_STREAK_BEFORE_HEAL
    Cooldown,   \* HEAL_COOLDOWN_MS, in ticks
    Window,     \* FLAP_WINDOW_MS, in ticks
    FlapCount,  \* FLAP_GIVEUP_COUNT
    MaxBusy     \* bound on the ticks a probe and a repair can take

ASSUME LadderAssumption ==
    /\ Streak \in Nat \ {0} /\ Cooldown \in Nat \ {0} /\ FlapCount \in Nat \ {0}
    /\ Window \in Nat \ {0} /\ FlapCount * Cooldown < Window
    /\ MaxBusy \in Nat

VARIABLES
    (* the world *)
    vm,         \* the VM runs and its sshd answers
    mux,        \* lima's SSH connection: docker's socket and forwarding
    fwd,        \* lima forwards the proxy port
    held,       \* lima forwards another of the ports our tunnel asks for
    ctr,        \* the mihomo container runs
    tunnel,     \* our SSH tunnel holds the proxy port
    dtun,       \* our SSH tunnel for docker's socket
    handle,     \* AppState.docker: none, or over which socket
    (* Watchdog *)
    fail_streak, sinceHeal, heals, tunneled, gave_up,
    (* the loop *)
    pc,         \* wait, probe, act
    docker,     \* the probe has found docker
    action,     \* what decide returned
    backlog,    \* ticks missed, to come at once
    late,       \* time since now_ms was read
    (* the manual repair *)
    repair,     \* idle, poll, tunnel, last (the second poll)
    snap,       \* HealthSnapshot
    (* history *)
    restarted,  \* real age of the last automatic restart, up to Cooldown
    lag,        \* how late that was, what its probe took; 0 at Cooldown
    tries,      \* tunnels tried since the last healthy verdict, up to 2
    calm        \* from here on the world does not change by itself

world    == <<vm, mux, fwd, held, ctr, tunnel, dtun>>
ladder   == <<fail_streak, sinceHeal, heals, tunneled, gave_up>>
loop     == <<pc, docker, action, backlog, late>>
history  == <<restarted, lag, tries>>
vars     == <<world, handle, ladder, loop, repair, snap, history, calm>>

-----------------------------------------------------------------------------
Dead    == {"ForwardDead", "TransportDead"}
Health  == Dead \cup {"Healthy", "ContainerDown", "TransportDegraded", "VmDown"}
Snapshot == [health: Health, reachable: BOOLEAN, healing: BOOLEAN,
             gave_up: BOOLEAN, tunnel_fallback: BOOLEAN]

Least(a, b) == IF a < b THEN a ELSE b

TypeOK ==
    /\ vm \in BOOLEAN /\ mux \in BOOLEAN /\ fwd \in BOOLEAN /\ held \in BOOLEAN
    /\ ctr \in BOOLEAN /\ tunnel \in BOOLEAN /\ dtun \in BOOLEAN
    /\ handle \in {"none", "native", "tunnel"}
    /\ fail_streak \in 0..Streak /\ sinceHeal \in 0..Cooldown
    /\ heals \in SUBSET (0..(Window - 1)) /\ Cardinality(heals) <= FlapCount
    /\ tunneled \in BOOLEAN /\ gave_up \in BOOLEAN
    /\ pc \in {"wait", "probe", "act"} /\ docker \in BOOLEAN
    /\ action \in {"None", "Restart", "Tunnel"}
    /\ backlog \in 0..MaxBusy /\ late \in 0..MaxBusy /\ lag \in 0..MaxBusy
    /\ repair \in {"idle", "poll", "tunnel", "last"}
    /\ snap \in Snapshot
    /\ restarted \in 0..Cooldown /\ tries \in 0..2 /\ calm \in BOOLEAN

(* Boot has brought everything up; no action is taken yet.                  *)
Init ==
    /\ vm = TRUE /\ mux = TRUE /\ fwd = TRUE /\ held = TRUE /\ ctr = TRUE
    /\ tunnel = FALSE /\ dtun = FALSE
    /\ handle \in {"none", "native"}
    /\ fail_streak = 0 /\ sinceHeal = Cooldown /\ heals = {}
    /\ tunneled = FALSE /\ gave_up = FALSE
    /\ pc = "wait" /\ docker = FALSE /\ action = "None" /\ backlog = 0
    /\ late = 0 /\ lag = 0
    /\ repair = "idle"
    /\ snap = [health |-> "Healthy", reachable |-> TRUE, healing |-> FALSE,
               gave_up |-> FALSE, tunnel_fallback |-> FALSE]
    /\ restarted = Cooldown /\ tries = 0 /\ calm = FALSE

-----------------------------------------------------------------------------
(* What the host sees of the world.                                         *)

(* A tunnel keeps accepting connections as long as its process lives.       *)
Reachable == fwd \/ tunnel

Pings == \/ handle = "native" /\ mux
         \/ handle = "tunnel" /\ dtun /\ vm

-----------------------------------------------------------------------------
(* decide: the ladder.  Each rung says what becomes of the ladder's state.  *)

Keep == UNCHANGED <<sinceHeal, heals, tunneled, gave_up>>

Ladder(streak, act) == fail_streak' = streak /\ action' = act

Failing == Least(fail_streak + 1, Streak)

Cooling == sinceHeal < Cooldown

DecideHealthy ==
    /\ Ladder(0, "None")
    /\ gave_up' = FALSE /\ tunneled' = FALSE /\ heals' = {}
    /\ UNCHANGED sinceHeal

(* Given up, not confirmed yet, or still cooling down.                      *)
DecideWait(cooling) ==
    /\ gave_up \/ Failing < Streak \/ cooling
    /\ Ladder(Failing, "None") /\ Keep

DecideRestart ==
    /\ Cardinality(heals) < FlapCount
    /\ Ladder(Failing, "Restart")
    /\ heals' = heals \cup {0} /\ sinceHeal' = 0
    /\ UNCHANGED <<tunneled, gave_up>>

DecideTunnel ==
    /\ ~tunneled
    /\ Ladder(Failing, "Tunnel")
    /\ tunneled' = TRUE /\ sinceHeal' = 0
    /\ UNCHANGED <<heals, gave_up>>

DecideGiveUp ==
    /\ tunneled
    /\ Ladder(Failing, "None")
    /\ gave_up' = TRUE
    /\ UNCHANGED <<sinceHeal, heals, tunneled>>

(* Fault: the first rung does not wait for the cooldown.                    *)
DecideForwardDeadHot ==
    \/ DecideWait(FALSE)
    \/ /\ ~gave_up /\ Failing = Streak
       /\ \/ DecideRestart
          \/ Cardinality(heals) >= FlapCount /\ (DecideTunnel \/ DecideGiveUp)

DecideForwardDead ==
    \/ DecideWait(Cooling)
    \/ /\ ~gave_up /\ Failing = Streak /\ ~Cooling
       /\ \/ DecideRestart
          \/ Cardinality(heals) >= FlapCount /\ (DecideTunnel \/ DecideGiveUp)

(* The cooldown is for restarts: a first tunnel does not wait for it.       *)
DecideTransportDead ==
    \/ DecideWait(tunneled /\ Cooling)
    \/ /\ ~gave_up /\ Failing = Streak
       /\ DecideTunnel \/ (~Cooling /\ DecideGiveUp)

(* Fault: each spell of degradation gives the tunnel another try.           *)
DecideDegradedResetting ==
    /\ Ladder(0, "None")
    /\ gave_up' = FALSE /\ tunneled' = FALSE
    /\ UNCHANGED <<sinceHeal, heals>>

(* Fault: only a healthy verdict takes the giving up back.                  *)
DecideDegradedAccusing ==
    /\ Ladder(0, "None")
    /\ UNCHANGED <<sinceHeal, heals, tunneled, gave_up>>

DecideDegraded ==
    /\ Ladder(0, "None")
    /\ gave_up' = FALSE
    /\ UNCHANGED <<sinceHeal, heals, tunneled>>

(* Container or VM down: nothing is done, and nothing is reset.             *)
DecideDown == Ladder(fail_streak, "None") /\ Keep

Decide(health) ==
    CASE health = "Healthy"           -> DecideHealthy
      [] health = "ForwardDead"       -> DecideForwardDead
      [] health = "TransportDead"     -> DecideTransportDead
      [] health = "TransportDegraded" -> DecideDegraded
      [] OTHER                        -> DecideDown

-----------------------------------------------------------------------------
(* The loop.                                                                *)

(* The clock is read n after it was last: the watchdog's ages grow, and     *)
(* restarts older than the window do not count.                             *)
Aged(n) == {a \in 0..(Window - 1) : a >= n /\ a - n \in heals}

Stamp(n) == heals' = Aged(n) /\ sinceHeal' = Least(sinceHeal + n, Cooldown)

(* What a wait of the loop may take, and what it does to the real age.      *)
Busy == 0..(IF calm THEN 0 ELSE MaxBusy - backlog)

Older(n) == /\ restarted' = Least(restarted + n, Cooldown)
            /\ lag' = IF restarted' < Cooldown THEN lag ELSE 0

(* A tick, at once if one was missed.                                       *)
TickTime ==
    LET n == IF backlog > 0 THEN 0 ELSE 1
    IN  /\ backlog' = IF backlog > 0 THEN backlog - 1 ELSE 0
        /\ Stamp(late + n) /\ late' = 0
        /\ Older(n)

(* Fault: a lost docker is asked for over the present handle only.          *)
TickSameHandle ==
    /\ pc = "wait" /\ pc' = "probe"
    /\ TickTime
    /\ docker' = Pings
    /\ UNCHANGED <<world, handle, fail_streak, tunneled, gave_up, action, repair,
                   snap, tries, calm>>

(* A tick; the probe asks docker, over the present handle, else over the    *)
(* native socket.                                                           *)
Tick ==
    /\ pc = "wait" /\ pc' = "probe"
    /\ TickTime
    /\ docker' = (Pings \/ mux)
    /\ handle' = IF ~Pings /\ mux THEN "native" ELSE handle
    /\ UNCHANGED <<world, fail_streak, tunneled, gave_up, action, repair, snap,
                   tries, calm>>

HealthSeen(answered) ==
    IF answered
      THEN IF ~ctr \/ ~Pings THEN "ContainerDown"
           ELSE IF Reachable THEN "Healthy" ELSE "ForwardDead"
      ELSE IF ~vm THEN "VmDown"
           ELSE IF Reachable THEN "TransportDegraded" ELSE "TransportDead"

(* The verdict of this tick, and what a tick would say just now.            *)
Verdict == HealthSeen(docker)

(* The rest of the probe, which may take its time, the decision as of the   *)
(* clock read before it, and the snapshot.                                  *)
Probe ==
    /\ pc = "probe" /\ pc' = "act"
    /\ Decide(Verdict)
    /\ snap' = [health |-> Verdict,
                reachable |-> Verdict \in {"Healthy", "TransportDegraded"},
                healing |-> Verdict \in Dead /\ ~gave_up', gave_up |-> gave_up',
                tunnel_fallback |-> snap.tunnel_fallback]
    /\ \E slow \in Busy :
          /\ backlog' = backlog + slow /\ late' = slow
          /\ IF action' = "Restart" THEN restarted' = 0 /\ lag' = slow
             ELSE Older(slow)
    /\ tries' = IF Verdict = "Healthy" THEN 0
                ELSE IF action' = "Tunnel" THEN Least(tries + 1, 2) ELSE tries
    /\ UNCHANGED <<world, handle, docker, repair, calm>>

(* docker restart, if docker answers and nothing else goes wrong: the       *)
(* container comes up again and lima, if it notices, forwards its port.     *)
Restarts == {Pings} \cup (IF calm THEN {} ELSE {FALSE})

RestartContainer(done) ==
    IF done
      THEN /\ ctr' = TRUE
           /\ fwd' \in {fwd, fwd \/ (mux /\ ~tunnel)}
           /\ UNCHANGED <<vm, mux, held, tunnel, dtun>>
      ELSE UNCHANGED world

(* spawn_port_tunnel: fails when the VM does not answer or any of its ports *)
(* is taken.                                                                *)
TunnelPort ==
    \/ vm /\ ~Reachable /\ ~held /\ tunnel' = TRUE
    \/ (~vm \/ Reachable \/ held \/ ~calm) /\ UNCHANGED tunnel

(* heal_transport: the port first; if that is reachable now, by whatever    *)
(* way, docker's socket too, and the handle moves over to the tunnel.       *)
HealTransport ==
    /\ TunnelPort
    /\ \/ vm /\ (fwd \/ tunnel') /\ dtun' = TRUE /\ handle' = "tunnel"
       \/ (~vm \/ ~(fwd \/ tunnel') \/ ~calm) /\ UNCHANGED <<dtun, handle>>
    /\ UNCHANGED <<vm, mux, fwd, held, ctr>>

(* Act on the decision, however the world looks by now.                     *)
Act ==
    /\ pc = "act" /\ pc' = "wait"
    /\ CASE action = "Restart" -> /\ \E done \in Restarts : RestartContainer(done)
                                  /\ UNCHANGED <<handle, snap>>
         [] action = "Tunnel"  -> /\ HealTransport
                                  /\ snap' = [snap EXCEPT !.tunnel_fallback = @ \/ fwd \/ tunnel']
         [] OTHER              -> UNCHANGED <<world, handle, snap>>
    /\ action' = "None" /\ docker' = FALSE
    /\ \E busy \in Busy :
          backlog' = backlog + busy /\ late' = late + busy /\ Older(busy)
    /\ UNCHANGED <<ladder, repair, tries, calm>>

-----------------------------------------------------------------------------
(* heal_proxy: the same ladder at once, on the user's demand.  One such      *)
(* request at a time is modelled.                                           *)

RepairRestart ==
    /\ repair = "idle" /\ ~calm
    /\ \E done \in Restarts :
          RestartContainer(done) /\ repair' = IF done THEN "poll" ELSE "tunnel"
    /\ UNCHANGED <<handle, ladder, loop, snap, history, calm>>

(* It shows success at once, without waiting for the watchdog.              *)
RepairDone ==
    /\ repair \in {"poll", "last"} /\ Reachable
    /\ repair' = "idle"
    /\ snap' = [health |-> "Healthy", reachable |-> TRUE, healing |-> FALSE,
                gave_up |-> FALSE,
                tunnel_fallback |-> snap.tunnel_fallback \/ repair = "last"]
    /\ UNCHANGED <<world, handle, ladder, loop, history, calm>>

(* Out of patience: on to the tunnel after the restart, else it is over.    *)
RepairWaitedEnough ==
    /\ repair \in {"poll", "last"} /\ ~Reachable
    /\ repair' = IF repair = "poll" THEN "tunnel" ELSE "idle"
    /\ UNCHANGED <<world, handle, ladder, loop, snap, history, calm>>

RepairTunnel ==
    /\ repair = "tunnel"
    /\ HealTransport
    /\ repair' = IF fwd \/ tunnel' THEN "last" ELSE "idle"
    /\ UNCHANGED <<ladder, loop, snap, history, calm>>

(* The client leaves: the handler is dropped at an await.                   *)
RepairAbandoned ==
    /\ repair # "idle" /\ repair' = "idle"
    /\ UNCHANGED <<world, handle, ladder, loop, snap, history, calm>>

-----------------------------------------------------------------------------
(* The world by itself, until it settles.                                   *)

VmStops == /\ vm /\ vm' = FALSE /\ mux' = FALSE /\ fwd' = FALSE /\ held' = FALSE
           /\ ctr' = FALSE /\ UNCHANGED <<tunnel, dtun>>
VmStarts == /\ ~vm /\ vm' = TRUE /\ mux' = TRUE
            /\ UNCHANGED <<fwd, held, ctr, tunnel, dtun>>

(* The connection is lost and comes back without the forwardings it had.    *)
MuxDies == /\ mux /\ mux' = FALSE /\ fwd' = FALSE /\ held' = FALSE
           /\ UNCHANGED <<vm, ctr, tunnel, dtun>>
MuxReturns == /\ vm /\ ~mux /\ mux' = TRUE /\ held' \in BOOLEAN
              /\ UNCHANGED <<vm, fwd, ctr, tunnel, dtun>>
ForwardLost == /\ fwd /\ fwd' = FALSE
               /\ UNCHANGED <<vm, mux, held, ctr, tunnel, dtun>>

ContainerStops == /\ ctr /\ ctr' = FALSE /\ fwd' = FALSE
                  /\ UNCHANGED <<vm, mux, held, tunnel, dtun>>
ContainerStarts == /\ vm /\ ~ctr /\ ctr' = TRUE /\ fwd' \in {fwd, mux /\ ~tunnel}
                   /\ UNCHANGED <<vm, mux, held, tunnel, dtun>>

TunnelDies == \/ tunnel /\ tunnel' = FALSE /\ UNCHANGED <<vm, mux, fwd, held, ctr, dtun>>
              \/ dtun /\ dtun' = FALSE /\ UNCHANGED <<vm, mux, fwd, held, ctr, tunnel>>

Disturbance ==
    /\ ~calm
    /\ \/ VmStops \/ VmStarts \/ MuxDies \/ MuxReturns \/ ForwardLost
       \/ ContainerStops \/ ContainerStarts \/ TunnelDies
    /\ UNCHANGED <<handle, ladder, loop, repair, snap, history, calm>>

(* A tunnel into a dead VM ends by itself (ServerAlive) before it settles.  *)
Settle == /\ ~calm /\ (vm \/ ~(tunnel \/ dtun))
          /\ calm' = TRUE
          /\ UNCHANGED <<world, handle, ladder, loop, repair, snap, history>>

-----------------------------------------------------------------------------
Loop == Tick \/ Probe \/ Act

Next ==
    \/ Loop
    \/ RepairRestart \/ RepairDone \/ RepairWaitedEnough \/ RepairTunnel
    \/ RepairAbandoned
    \/ Disturbance \/ Settle

Spec == Init /\ [][Next]_vars

(* The loop is spawned once and never ends; every await in it has a limit.  *)
FairSpec == Spec /\ WF_vars(Loop)

-----------------------------------------------------------------------------
(* Properties.                                                              *)

(* The second rung is tried at most once between two healthy verdicts, and  *)
(* giving up is not shown before it was tried (tunneled, gave_up).          *)
TunnelOnce == tries <= 1 /\ (gave_up \/ snap.gave_up => tries = 1)

(* The clock readings that led to two automatic restarts are never closer   *)
(* than the cooldown, whatever the verdicts and tunnels between them, also  *)
(* when missed ticks come at once: a restart comes closer to the one before *)
(* than the cooldown only by what the probe before that one took (last_heal *)
(* is the time of the tick, not of the restart).  HEAL_COOLDOWN_MS promises *)
(* the whole cooldown, which the code does not keep.                        *)
RestartsSpaced ==
    [][action # "Restart" /\ action' = "Restart" => restarted + lag >= Cooldown]_vars

(* Once the world has settled, the port is reachable, or container or VM    *)
(* are down, or the watchdog has given up; it has not given up on a port    *)
(* that is reachable, by whatever way; and the UI is shown what is the      *)
(* case, whatever the manual repair has written into the snapshot.          *)
Resolved ==
    LET health == HealthSeen(Pings)
    IN  /\ health \in Dead => gave_up
        /\ gave_up => health \notin {"Healthy", "TransportDegraded"}
        /\ snap.health = health /\ snap.gave_up = gave_up
Resolves == <>[](calm => Resolved)

(* Once the VM's connection is back for good, docker is reached again       *)
(* without a restart of the app (the native reconnect in check).            *)
DockerReturns == <>[](calm /\ mux => Pings)

-----------------------------------------------------------------------------
(* Why the safety properties hold: tries counts what tunneled remembers, no *)
(* one is told of a giving up before that, and the last restart is no more  *)
(* recent than the last repair of any kind, but for its own lateness.       *)
LadderInv ==
    /\ tries = IF tunneled THEN 1 ELSE 0
    /\ gave_up \/ snap.gave_up => tunneled
    /\ Least(sinceHeal + late, Cooldown) <= restarted + lag
    /\ late <= backlog

Inductive == TypeOK /\ LadderInv

=============================================================================
