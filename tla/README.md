# Verification of the VPN channel manager

TLA+ models, TLC runs and TLAPS proofs for the desktop application: the Rust
core (`src/desktop/core`), its shell (`src/desktop/app`) and the privileged
helper (`src/desktop/helper`).

## The system

The application runs VPN clients in containers of a small VM and routes traffic
into them. A *channel* is one VPN client (container `vpn-<id>` with a SOCKS
port). A *rule* sends a domain or CIDR to a channel. One mihomo instance in the
VM (the *split router*) applies the rules; its port is forwarded to the host.
Traffic enters through the user's Clash, the system proxy, or a *TUN entry*: a
second mihomo on the host, started by a root helper.

| Component | State | Operations | Interacts with |
|---|---|---|---|
| Store (`store.rs`) | SQLite: channels, rules, mirrors; `master.key` | one statement or transaction per call, a connection each; init at every boot | all handlers |
| API handlers (`api.rs`) | none of their own | one tokio task per request; commit, then rebuild | store, docker, rebuild |
| Rebuild (`manager.rs`) | working copy of mihomo's configuration | read, merge, write, deliver, reload, under one mutex | store, docker, mihomo |
| mihomo infrastructure (`infra.rs`) | container, file in its volume, running configuration | ensure, restart policy | docker, boot |
| Boot (`app/main.rs`, `app.rs`, `vm.rs`) | single-flight flag, `infra.json`, environment | parameters, Rosetta, VM, docker, store, images, ensure, rebuild, serve | all |
| Watchdog (`health.rs`), manual repair (`routes.rs`) | ladder state, snapshot, docker handle | probe, decide, restart, tunnel | docker, ssh, UI |
| TUN entry (`entry.rs`) | flag file | apply, sync, install | helper's socket, store |
| TUN helper (`helper/main.rs`) | desired state (memory, `state.json`), engine, route records | ensure, stop, status, reconcile | kernel routes, engine |
| Channel lifecycle (`api.rs`, `manager.rs`, `docker.rs`) | container per channel, status column | create, start, stop, delete, status probe, upload | docker, store |
| Rule planning and order (`webutil.rs`, `manager.rs`) | none | normalise, deduplicate, sort; provider, snippet, PAC, routes | handlers, rebuild, the browser, Clash |
| Images and preflight (`preflight.rs`, `docker.rs`) | tags and one-shot containers in docker, progress table | pull through mirrors, checks, probes | docker, mirrors |

What is hard here: handlers run concurrently and await between reading and
writing; a client that leaves drops its handler at an await; a configuration
lives in four places (database, working copy, container, running mihomo) and any
transfer can fail or finish late; processes die and are restarted from files;
routes of the kernel are shared with other programs; a repair acts on what a
probe saw some time ago.

What makes each component correct:

* rebuild: what was acknowledged is in force and stays in force; a configuration
  never goes back; a lag has a cause; unmanaged keys that are there survive;
  requests end.
* helper: the engine runs what was asked for last; records and kernel agree;
  routes of others are spared; everything settles after the last disturbance.
* watchdog: repairs are spaced, bounded and not repeated for ever; the verdict
  shown is the truth in the end; a connection that is back is used again.
* TUN entry: disabled means disabled, the newest rules win.
* lifecycle: row, container and status agree once requests are answered.
* rules: the configuration's first match is the most specific rule; everything
  that leads traffic to the entry means the same destinations; a backup keeps it.
* boot: one at a time; what was once drawn (ports, secret, key) stays; it ends in
  the UI.
* images: the host's architecture under the image's name; nothing left behind;
  a verdict has a cause.

## Modules

| Module | Models | Kind |
|---|---|---|
| `RuleReload` | rebuild, every handler that ends in it, boot's ensure and rebuild, mihomo | detailed specification |
| `ConfigPublish` | what a client may rely on: database states go live in order | abstract specification |
| `RuleReloadProofs` | its theorems | proofs |
| `TunHelper` | the helper daemon, the engine, the kernel's table, other programs | detailed specification |
| `TunHelperProofs` | its theorems | proofs |
| `Watchdog` | probe, ladder, loop, manual repair, the world around them | detailed specification |
| `WatchdogProofs` | its theorems | proofs |
| `ChannelLifecycle` | row and container of each channel, every handler that changes them, the containers screen | detailed specification |
| `ChannelLifecycleProofs` | its theorems | proofs |
| `TunEntry` | flag file, apply, sync, install, uninstall, and the helper's socket between them and `TunHelper`'s `desired` | detailed specification |
| `TunEntryProofs` | its theorems | proofs |
| `Routing` | normalisation, planning, storage, order and outputs of rules, mihomo's choice, backups | operators and their reference |
| `RoutingProofs` | its theorems | proofs |
| `Startup` | the boot from `infra.json` to the window, retries, deaths in between | detailed specification |
| `StartupProofs` | its theorems | proofs |
| `Preflight` | pulls through mirrors, the check with its probe container, one-shot containers | detailed specification |
| `PreflightProofs` | its theorems | proofs |
| `MC*` | instances for TLC | |

Definitions whose comment begins with "Fault:" are not part of any
specification. Each is a plausible bug in the definition that follows it, and
serves to see that a property notices it.

### RuleReload

State: the tables (`channels`, `rules`), the three copies of the configuration
(`hostCfg`, `ctrCfg`, `liveCfg`), whether mihomo runs (`up`) and may still carry
out a reload nobody waits for (`late`), per task a program counter and locals,
and the holder of `REBUILD_LOCK`. A task's labels are its awaits: `plan`/`insert`
(add_rules between its queries), `provision`, `removing`, `want` (waiting for the
lock), `channels`/`rules`/`write`/`deliver`/`reload` (inside rebuild).

History variables, which nothing in the code stores: `ver` (number of commits),
`need` (a task's own commit), `acked`, `confirmed`, `excuse`, `lost`.

A configuration is abstracted to its set of proxies, its set of enabled rules,
the commit its channels were read at, and whether it has the keys rebuild does
not manage: `base` is full, bare (none of them), empty (a file that was truncated
and not written) or absent. The order of rules in it is `Routing`'s.

Two things go wrong when the core makes the working copy or starts mihomo from
it, and both are in the model. Seeding truncates before it writes (infra.rs:140),
so that an interruption leaves an empty file; it exists, is not seeded again,
parses as null, and the next rebuild makes a bare configuration of it. And a
working copy that exists but cannot be read is replaced by the bare template for
that start of mihomo (infra.rs:311), whatever it contains: `EnsureMihomo` and
`EnsureFails` deliver either. `lost` is true from then until the next confirmed
rebuild, and the properties about what is in force except it by name.

Assumptions and simplifications:

* a put_file whose caller has gone arrives at once or never (the docker engine
  has the whole archive or it does not);
* the docker handle is present: without one the rule handlers answer 503 before
  they touch anything, and create, update and import rebuild without delivery;
* an import brings one channel; a real one brings several in one transaction;
* the start of a byo channel changes no rule and does not rebuild; left out;
* the channel lookup of del_rule, patch_rule and patch_rules and their commit are
  one step: the statement itself checks the row again (`changed == 1`);
* add_rules' last query can fail after a good reload; the reply is then an error
  for a change that is in force, which no property calls wrong;
* the template is written in one `write`, so that an interrupted seeding leaves
  nothing of it or all; `exists()` tells the truth about the working copy;
* mihomo refuses an empty file, and takes the address and secret of its control
  API from the file only when it starts;
* docker calls and pulls have a limit per request, not for a whole stream: that
  provisioning ends (`Provisioned`) assumes that a stream of output does.

### TunHelper

State: the mutex-protected record (`desired`, `owned`, `shadowed`), `state.json`
(`saved`), the engine and the kernel's table, and the locals of the reconciler
thread, which calls `/sbin/route` without the mutex. Each request is one step,
since the socket thread handles it under the mutex; the reconciler is one step
per lock or route command. `Dest` maps a CIDR text to the destination the kernel
sees, and two texts may share one.

Other programs add and remove routes for `ForeignDests`, and may remove or replace
ours. The helper never looks at the kernel's table: a route on record counts as
there, and a text in `shadowed` as served, until the engine ends or the text is
withdrawn. So a wanted destination can stay without a route for good, which
`Converged` excepts by name (`taken`, `stale`).

History: `calm` (no disturbance from here on), `died` (the engine ended since the
pass looked at it), `lost` (deletions that failed), `taken` (destinations on
record whose route others have removed or replaced), `stale` (texts in `shadowed`
whose destination has no route any more), `saveBad`, `writeBad`.

Assumption: `kill_strays` leaves no engine behind (pkill is not waited for).
Peer authentication is left out.

### Watchdog

The world is a handful of Booleans: VM, lima's SSH connection (`mux`), the
forwarding of the proxy port (`fwd`) and of another port (`held`), the
container, and the two tunnels. Ages in ticks replace time stamps, so that runs
need no bound on time. The loop reads its clock before it probes, and the probe and
the repair take up to `MaxBusy` ticks: the ladder's ages are as of that reading
(`Stamp`), `late` is what has passed since, and `backlog` counts the ticks that
were missed and come at once. `restarted` is the real age of the last automatic
restart, `lag` how late it was. `pc` splits one pass of the loop into ping, rest of the probe
with the decision, and action; the world moves in between. Manual repair is a
second process, one request at a time, that may be dropped at any await.

The port counts as reachable while a tunnel's process lives, as the comment on
`tunnel_fallback` says.

### ChannelLifecycle

State: table `channels` (`listed`, `row`), the container `vpn-<id>` of each
channel (`box`), and per request what it does (`op`), to which channel, where it
is (`pc`), and what it has read of the row (`seen`). A label is a call to Docker
that is being waited for, or the write to the database that follows it;
provisioning is `image`, `clear`, `make`, `boot`, then `port` or `inject`, then
`record`. No lock exists, so requests for one channel interleave at every label.
Settings are a version number that counts what a container of the channel's kind is
given (the version for hagb, adapters.rs:85-108; server, username and password for oss,
manager.rs:401-460; nothing for byo); an update may also change others of the four,
which provisions anew and gives the container nothing, or none of them (`Fields`). A
probe is a choice of outcome, which can only be
good if the container runs at that moment.

`DockerFails`, `WriteFails` and `Drop` stand for every error exit and for a
client that has gone. A call that fails or is dropped may have had its effect.
A crash of the core drops all tasks, one after the other.

History: `alone` (nothing else has been at the channel since the task began),
`accord` (row and container agree since an undisturbed success; requests have
overlapped since; one has failed since), `raced` (a deletion overlapped with
another change), and `reached` of a container (a probe got through it). The
properties say what holds once an undisturbed request has succeeded, whatever
happened before it, so that they are about recovery as much as about success.

Assumptions and simplifications:

* a dropped call to Docker takes effect at once or never;
* a container that ends by itself is started again by Docker (unless-stopped)
  and counts as running; for an oss channel its client is then gone, which only
  the next probe can tell;
* the random id of a channel does not come up twice;
* each oss protocol is taken to use server, username and password (openvpn and
  wireguard read most of theirs from the file, which update does not change);
* the rebuild after provisioning and deletion is in `RuleReload`.

### TunEntry

The flag file has four contents, because `fs::write` truncates and writes in two
system calls and enable and disable may do so at the same time: empty, off, on,
and garbled, which counts as off. The route set is named by the version of the
rules it was computed from. A task in flight is a slot with its job, its place
and what it has read. The helper's socket is a queue: a request whose sender has
given up after eight seconds, has been dropped, or has died is served all the
same. The install and uninstall scripts outlive their handlers (three minutes)
in `late`. Composition with `TunHelper`: what is kept of it is `desired`, which
`TunHelper` shows engine and routes follow (`Settles`, `EngineRunsDesired`).
The helper ignores every error of saving `state.json`: after a restart it may go
on from what an earlier request said, or from nothing. Which earlier request is
not remembered here: `Earlier` has every record it can have been told so far,
which is more than the helper can come back with, and the properties hold for all
of them.

History: `astray` and `stale` become true when one of the causes named at
`FlagTellsTruth` and `RoutesFollowRules` happens, and false when an undisturbed
task sets things right; `phase` is for `RebuildHeals`.

### Routing

Pure code, so the state is only what decides what is put out: channels with
their names, the rows in the order of their ids, the old table `domains`, and a
backup. A text is not a string but what the code tells apart in it: address with
mask and zone, host name behind so many wildcard labels, junk. `Route` is
mihomo's first match, and `Provider`, `PacText`, `RouteSets` say what the other
outputs send to the entry. The reference definitions, `Strongest` and `Binding`,
do not mention the order the code makes.

A database may be one that an earlier version left (`Legacy`): it holds patterns
as they were typed, an address without a mask, a domain behind wildcards, or
something no output can use (`Malformed`). `NormalizeStored` reads these when they
are put out, and every output goes through it but one: `RouteSets` takes what
reads as a network as it is stored, so that a bare address, which mihomo binds as
a /32, gets no kernel route. `Restart` is the next start's `init`, which copies
`domains` again whenever there is no rule.

A host name is its labels from the right. `Dotted` is the text of a v4 address
as such a name and `Group` what is left of a v6 address in the domain branch,
where it is cut at the first colon (webutil.rs:69). They matter because a user may
force the kind of an address, and because the PAC script compares the text of an
address with the domains. `Unicode` has the labels outside ASCII, which are stored
as they are and never match what a browser hands to the script.

Loops, sorts and selections are written without recursion, so that they can be
reasoned about: `InOrder(S, before)` puts at place k the member of `S` that has
k - 1 others before it. The stable sort of the networks is the order of `Ahead`,
which the proofs show to be linear.

Assumptions:

* a host name has at least one label (`valid_domain` refuses an empty one), and a
  name that reads as a v4 address is one;
* a browser hands the script a v6 address without dots and a name as punycode;
  mihomo and Clash compare a domain outside ASCII with the name it stands for;
* the rules of an old database each belong to a channel that exists; rules without
  one are `RuleReload`'s (`reload_orphan`);
* the kind stored with a pattern fits it, or the pattern counts as malformed.

### Startup

One program counter per task `start_boot` can spawn; two tasks, of which the
second can only run if the single flight fails or after the first. `infra.json`
may be absent, torn (truncated and not yet written) or whole; a set of ports and
secret is a number, and new ones are new numbers. `master.key` may be absent,
empty, or a key. The two initial states are a first installation, and an update
of a version whose `infra.json` had no `ui_port` and whose rules were in the
table `domains`. `Die` ends the application at any step.

Assumption: what a `write_all` that returned has written survives (there is no
loss of power in the model; `master.key` is not synced).

### Preflight

All pulls are of one image, through mirrors that send the host's architecture,
another one, or an error. The pull of the user (`start_pull`) runs by itself; the
one in front of a provisioning is dropped with its handler; the boot's tries
Docker Hub first. The check and the one-shot containers are dropped at any await.
Temporary tags, the image's own tag and the probe's fixed name are shared; the
name of a one-shot container is not.

History: `sound` (mirrors that have failed nobody since the task's pull began),
`crossed` (between inspection and tag another pull has put something foreign
under the mirror's tag), `lost` (a container nobody is left to remove).

## Runs

| Run | Question | Bounds |
|---|---|---|
| `reload_safety` | do acknowledged changes stay in force, whatever fails; is `ConfigPublish` implemented | 2 clients and boot, 1 channel, 1 pattern, 3 commits (2 without the unmanaged keys, `Followed`) |
| `reload_live` | does every request end | 2 clients, 1 commit |
| `reload_orphan` | does a rule go with its channel (violated) | 1 channel |
| `tun_safety` | do engine, records and kernel agree at every pass | 2 texts, 2 destinations, 2 configurations |
| `tun_settles` | does the helper converge, with two texts for one destination | 2 texts, 1 destination, 1 configuration, fairness |
| `tun_foreign` | is a foreign route never deleted (violated) | 2 texts, 2 destinations |
| `watch` | are repairs spaced and bounded; does the ladder end and show the truth | cooldown 2, window 5, streak 2, 2 restarts, 1 tick late, fairness |
| `lifecycle_safety` | do row and container agree after an undisturbed request; what is left behind | 1 channel, 2 requests at a time, 2 containers, 2 versions of settings |
| `tunentry` | do flag, engine, rules and routes agree at rest, or why not | 2 tasks at a time, 2 rule changes, 1 request waiting |
| `routing` | does the narrowest rule win; do all outputs agree; does a backup keep it | 2 channels, 3 rules, 1-bit addresses of both families, 2 host names, texts of every form, an empty database and four that earlier versions left |
| `startup` | does the boot end in the UI with what it once drew | 2 tasks, 3 faults, 2 deaths, 5 numbers |
| `preflight` | what can a pull, a check, a one-shot container leave behind or get wrong | 2 tasks, 2 mirrors |

Why the bounds are enough. Reload: the hazards need a rebuild that reads before
and one that reads after a commit, and a third version for something to fall back
to; three commits, two clients and boot give all of that, and a second client is
enough because the lock admits one rebuild at a time. An installation whose working copy has lost the
unmanaged keys behaves like one that has them but for its restarts, so it is not
followed beyond the second commit (`Followed`). Helper: two texts make one
route to add while another is deleted, two destinations one that is ours and one
that is not; two configurations make a changed one. In `tun_settles` the texts share their
destination, which is the harder case: one is shadowed by the other, and each
pass that serves one disturbs the other, while texts of different destinations
share the pass only. Watchdog: the
cooldown of two ticks and the window of five keep the code's order (streak <=
cooldown < window, two restarts fit into the window), the ladder has both rungs
and an end, and one tick late makes two verdicts fall on one instant; larger
constants are the theorems' part. One commit is enough for `reload_live`: what can keep a
request waiting is the lock, which requests without a commit contend for too.
Lifecycle: channels share nothing but the bound on containers, so one is enough;
a stale login needs a second container, stale settings a second version, and
every race here is between two requests. A third container and request only
repeat the second: provisioning never looks at the container it replaces.
TUN entry: every race is between two tasks; the helper serves in the order of the
connects, so that a longer queue only delays; one rule change makes a route set
old, a second one makes it two versions old. Routing: one bit has networks of
length 0 and 1 in both families, equal, nested and disjoint; three rules make one
between two others, and two channels someone to take it from; the old databases
have a bare address, malformed rows and a domain outside ASCII, and the text of one
address ends in a host name. Startup: each dead
end needs one fault or one death, the second death comes after the first has been
recovered from, and five numbers are the old ones with a new `ui_port` and key, or
new ones with one spare. Preflight: a mirror that works while another fails, and
two tasks for all that is shared; `Die` and drops reset a task, so that longer
histories repeat.

What violated runs show (disagreements of code and comment):

* `reload_orphan`: add_rules can insert after a delete has cascaded; the orphan
  then makes mihomo refuse every later configuration.
* `tun_foreign`: an engine that ends inside a pass frees a destination that
  another program may take before the pass deletes it. `ForeignKept`, with the
  engine alive and the route not put in the place of ours, is proved.

Other behaviour the models have because the code has it, and which the passing
properties name as exceptions or dead ends:

* A seeding that is interrupted leaves an empty working copy, and the next rebuild
  delivers a configuration without dns, listeners and secret (infra.rs:140, 306;
  manager.rs:30), though manager.rs:138 says of the base that no failed read may
  wash them away. What holds is that a working copy that has them keeps them
  (`KeysStay`).
* A boot that cannot read the working copy starts mihomo with the bare template,
  behind every acknowledged change (infra.rs:311), where infra.rs:309 promises the
  template "or what has accumulated" (`lost` in `AckedIsLive`, `FallsBack` in
  `NoRollback`, `Lose` of `ConfigPublish`).
* A destination that was found to have another program's route is not tried again
  while it is wanted, though that route may go (helper main.rs:274). `10.0.0.1/8`
  and `10.0.0.0/8` are two texts for one destination (entry.rs:374); when the one
  that owns the route is withdrawn, the other's traffic has no route (`stale` in
  `Converged`).
* The cooldown is counted from the clock's reading before the probe
  (health.rs:345, 163), so after a slow probe the next restart comes as much too
  early (`lag` in `RestartsSpaced`).
* A list of channels that cannot be read counts as empty (containers.rs:182), so
  removing a container from the screen can take that of a registered channel,
  which containers.rs:29 and 174 say it never does (`BeginClean`). No property
  forbids it.
* The routes of the TUN entry parse the stored text (entry.rs:383), though
  webutil.rs:115 calls `normalize_stored_rule` the sole contract of all outputs: an
  address that an old table has without a mask is bound in mihomo and never sent
  there (`len` in `EntriesAgree`).
* `init` copies the old `domains` whenever there is no rule (`Migrated`), though
  store.rs:7 calls it a one-time migration: rules return after the user deleted
  the last one (`emptied` in `DeletedRulesStay`).
* The container of a hagb channel (EasyConnect, aTrust) gets version, MAC and VNC
  password only (adapters.rs:85-108); server, username and password never reach
  it, and an update of them provisions anew for nothing (`SettingsInForce` speaks of
  what a container is given).
* `infra.json` is truncated before it is written; torn, it fails every later boot
  and nothing replaces it. A boot that fails after the server was spawned leaves
  the port to it, and no retry gets past the listener (`DeadEnd`).
* An empty `master.key`, created and not written, is read as it is; boot goes on,
  and adding a secret fails from then on (`AddSecret` is never enabled).
* Two pulls from one mirror at a time can give the image a foreign architecture
  (`crossed`), or let one report that every mirror failed while the other has
  succeeded (`FailureHasCause`).
* A one-shot container whose request is dropped while docker creates it stays
  (`NobodysShot`).
* status writes back the status it read before its probe (api.rs:449); the next
  undisturbed request sets it right (`StatusHonest`).
* Verdicts that find VM or container down do not end a streak of dead ones
  (health.rs:97 against 201).
* A PAC script sends a v4 address whose text ends in a domain rule (`0.1` for
  10.0.0.1), which mihomo then does not bind, and never a domain outside ASCII or
  a v6 address (`EntriesAgree`); a domain entered with three wildcard labels keeps
  one and binds nothing (`Plain`).

## Fairness

* `RuleReload`: weak fairness of each task's steps (tokio polls every task and
  each await has a time limit), strong fairness of taking the lock (tokio's mutex
  is first come, first served). No fairness for mihomo, crashes or clients.
* `TunHelper`: the reconciler's loop never ends, launchd restarts the helper
  (KeepAlive in the plist), an engine with a configuration brings its device up.
* `Startup`: each boot goes on, since every wait in it has a timeout or is for a
  command or a dialog that ends; the user opens the application again and goes on
  clicking retry. Nothing is assumed of the VM, and faults come to an end by their
  bound, as `BootSettles` speaks of the time after them.
* `Watchdog`: the loop is spawned once and never ends; every await in it has a
  limit. Nothing is assumed of the manual repair or of the world, except that
  the convergence properties speak of the time after the world has settled.

## Proofs

For every value of the constants, under the assumptions named in the modules
(`ProcsAssumption`, `NoChannelAssumption`, `MaxVerAssumption`,
`DestAssumption`, `NoConfigAssumption`, `LadderAssumption`, `BoundsAssumption`,
`StartupAssumption`, `PreflightAssumption`, `NoTaskAssumption`,
`NoRulesAssumption`, `ChannelsAssumption`, `HostsAssumption`,
`EntriesAssumption`, `TextAssumption`, `LegacyAssumption`):

* `RuleReloadProofs`: type correctness; `AckedIsLive`, `ConfirmedMatchesDb`,
  `NoSilentDrift`, `KeysStay`, `NoRollback`; and that `RuleReload`
  implements `ConfigPublish` (a fall back on the template is its `Lose`). The inductive invariant says that exactly the
  holder of the lock is inside rebuild (`LockInv`), that what it has read covers
  its own commit and the working copy (`SnapInv`), that no copy is ahead of its
  source (`Pipeline`), and that a copy of the newest version is exact
  (`ExactInv`). `ExactInv` is why two queries without a common snapshot do no
  harm: a commit between them makes the version read with the first one old.
* `TunHelperProofs`: type correctness and all safety properties of the helper,
  aliases included. The records alone are not inductive, because a pass holds
  part of the truth in its locals: `Held` is what we have at any moment, the
  pass's changes included, and `BooksInv` relates that to the kernel, `taken`
  excepted.
* `WatchdogProofs`: type correctness with the bound on restarts in the window,
  `TunnelOnce` and `RestartsSpaced`. The strengthening ties the count of tunnels
  to `tunneled`, and the real age of the last restart with its lateness to
  `sinceHeal` and `late`.
* `ChannelLifecycleProofs`: type correctness and the four properties of
  `lifecycle_safety`. For `LeftoverOnlyByRace`: a container can appear at a
  channel without a row only if a task is about to make it, and can be there when
  a deletion removes the row only if another task made it since; `RaceInv` says that both mean a race,
  `TaskInv` and `BornInv` that no container exists before its channel. For
  `StatusHonest`, `LoginIsFresh` and `SettingsInForce` the invariant is
  `Accordance`. The properties speak of channels at rest, and a request earns its
  result label by label: `Knows` says what a change that nothing has disturbed
  knows of row and container at each of them (which container is its own, whose
  settings it has, whether it runs), `Probed` the same of a status request that
  has read a row in accord. `AloneInv` makes this enough: whoever writes to a
  channel disturbs everybody there, but for status requests among themselves, and
  those write only what the row and the probe agree on. `AccordInv` then says of
  one channel what the three properties say, from the success of an undisturbed
  request until the next change is past its first label.
* `StartupProofs`: type correctness and all safety properties of the boot.
  `BootInv` says that the flag covers the one boot that goes on, its last steps
  included, and that nobody is past the listener while a server runs;
  `ParamsInv` that whatever is in use (the environment, the container, a port
  once served) is what `infra.json` says, so that the file may be replaced only
  while nothing is: that is why the environment must be set after the write. A
  container that outlives a torn file is excepted there; no boot gets past such
  a file. `KeyInv` says that a key file is being written only while no secret
  depends on it, `RuleInv` that until the last rule is deleted an empty table is
  one that never had any.
* `TunEntryProofs`: type correctness and all three properties of the entry, for
  any number of tasks and any length of the helper's queue. `QueueInv` says whose
  requests the helper has; `AstrayInv` that where flag and helper differ some
  task or request is about to change one of them. `StaleInv` is needed because
  the newest routes can be in force and an older request still in the queue:
  every request under way is `Harmless`, which means it has the newest routes, or
  a reconciliation will follow that has them, or it is already overtaken, and
  serving it then counts as stale. `CalmInv` is what a lone rebuild relies on.
* `PreflightProofs`: type correctness and all four properties of pulls, checks
  and one-shot containers. `CrossInv` says that what waits to be tagged is of the
  right architecture or counted as crossed, `SoundInv` that each mirror a pull
  has passed over failed somebody or the image is there, `ProbeInv` that a probe
  that has started means a device, whoever started it; `PlaceInv` says where each
  kind of task can be.
* `RoutingProofs`: type correctness and all four properties of the rules, for
  addresses of any width and any number of rules, hosts and channels. The orders
  come first: `InOrder` lists each member once and in order wherever the order is
  linear (the number of members before one is an injection into 0..n-1, hence
  onto). From that, the first line that matches belongs to the strongest rule and
  the oldest of several (`RouteIsStrongest`), whatever the table. `SpecificWins`
  is that lemma; `EntriesAgree` follows since each output sends what some enabled
  rule binds, each with the exceptions of its own filter; `AddTakesFromWider` since a rule that is added is the youngest.
  `BackupRestores` needs an invariant of its own, `RestoreInv`: the file is the
  database it was taken from, and after the import each rule of one that is not
  malformed has a twin in the other. Twins bind alike, but the order between channels is lost, which is
  why contested destinations are excepted.

Each strengthening was first checked by TLC on the instance of its run, and
`Accordance` in simulations with two channels and three clients as well. Those of
the proved modules and the type invariants are not in the runs, except the one
of `RuleReload`: they are theorems.

Model-checked only: the liveness properties (`RequestsFinish`, `Settles`,
`Resolves`, `DockerReturns`, `BootSettles`), which are beyond the prover. Every
safety property of a passing run is a theorem.

## Not modelled, and what is left

Next, in this order:

1. `TunEntry` and `TunHelper` in one module, to show that the pair implements
   "the newest accepted request is in force" instead of sharing `desired`.
2. login and upload in `ChannelLifecycle`: each overwrites one field (noVNC port,
   name of the uploaded file) that no other step decides on.

Not modelled, since there is no behaviour over time to check: the HTTP layer with
its stateless checks, system proxy settings (single commands, nothing is read
back), diagnostics, Docker Hub search and the mihomo client (they only read), the
mirrors table's own statements, the Python twin of the core (`src/app/*.py`), the
frontend, container images, the spike, formatting of PAC, snippets and
profiles, and encryption, which is a library call.
