# Specifications of release delivery, host maintenance and monitor synchronisation

TLA+ models of the programs in this repository that pack a release and put it,
or a batch of origin keys, on an application host, that deploy to, maintain and
drain such hosts, and of the one that keeps the monitors of an Uptime Kuma
server in line with the project files: what they do when connections are lost,
processes are killed, hosts go down, deadlines pass, Docker, GitHub or Kuma
finishes late and two runs overlap.
TLC checks the models on small instances; TLAPS proves the most important
properties for every value of the constants.

All paths below are relative to `src/`. Scripts named without a directory are in
`.github/scripts/`.

## 1. Inventory

| Component | Source | State it keeps | Operations | Talks to |
|---|---|---|---|---|
| SSH release transport | `prebuilt_target_transport.py` | bytes of the frame sent, receipt bytes read, one deadline, the ssh child | `deploy`: validate, start ssh, stream, drain, parse the receipt | ssh, the target entry |
| Target stream entry | `prebuilt_target_entry.py` | position in the frame, `sdk_started`, one deadline, the receipt | `run_target_stream`: read, enter an SDK, write one receipt, return or raise | launcher, one of the SDKs |
| Image target executor | `prebuilt_target.py` | a private override directory, the target's containers and database | `execute_image_deployment`: config, pull, up, migrate, ps, inspect, clean up | Docker, registry, reader gate |
| Command reader gate | `prebuilt_target.py:430-523` | the process-wide lock, the child, the reader thread | `_SubprocessExecutor.run` | child processes |
| Static target executor | `prebuilt_static_target.py` | asset tree, temporary directory, the target's containers | `execute_static_deployment` | preparer, Docker, reader gate |
| Static asset preparer | `prebuilt_deploy.py` | a new private tree | `prepare_static_assets` | file system |
| Private origin-key transfer | `private_origin_keys.py` | sender: nonce, `sent`; receiver: snapshots, temporary files, installed keys | `transfer` and the receiver program it sends | ssh, the key directory |
| Runner drain and JIT registration | `ansible/roles/github_runner/templates/` | drain marker, slot units, registrations at GitHub | begin, extend, status, end; register, deregister | systemd, GitHub, the issuer |
| Operations runner launcher | `operations-launcher.sh.j2`, `gh-operations.service.j2` (same directory) | none that outlives a start | start one runner | GitHub |
| Guarded maintenance | `guarded_maintenance.py`, `.github/actions/maintenance/action.yml` | marker files, boot identity | detached upgrade and reboot, polling | recovery library, ssh |
| Guarded deploy | `guarded_deploy.py`, `.github/actions/deploy-app/action.yml` | containers, gated override, images | create, gate, up, migrate, retire images | recovery library, Docker |
| Kuma synchronisation | `scripts/kuma_sync.py` | session, run budget, declared names | login, retry, create, edit, prune | Kuma server |
| Static release producer | `static_release.py`, `.github/actions/publish-static-release/action.yml` | a private directory with the bundle, its record and the manifest | prepare, finalize, cleanup | the checkout, artifact store |
| Release manifests and image builds | `release_manifest.py`, `release_build.py`, `.github/actions/publish-backend-image` | none that outlives a call | validate, produce | registry, artifact store |
| Backup and restore | `.github/actions/backup`, `restore*`, `restic-*`, `.github/workflows/restore-cross-server.yml` | remote dumps, restic repositories | export, import, check | recovery library, restic |
| CI workflows and helpers | `.github/workflows/*.yml`, `routine_cli.py`, `deploy_toolchain.py` and others | none | job graphs, pure checks | - |
| Host provisioning | `ansible/roles/*` | host configuration | desired-state tasks | - |
| Network, proxy, infrastructure actions | `.github/actions/tailnet-connect`, `deploy-traefik`, `janitor`, `terraform-*` | the tools' own | single-actor shell sequences | - |

How they interact: a controller calls `deploy` (transport), which starts ssh; on
the target a launcher loads one lease (`Invocation`) and calls
`run_target_stream` (entry), which calls the image or the static executor, which
run Docker through `_SubprocessExecutor` (reader gate). One receipt travels back.
The key transfer is a separate call of the same controller over its own ssh.
The Kuma synchronisation is started by CI and has only the Kuma server as its
partner. Deployments by `deploy-app` and maintenance runs meet on the host, in
the guards of a recovery library that is not in the repository, and a
maintenance run meets its own detached adapter in marker files. A drain meets
the slots of its CI host in the drain marker, in systemd and at GitHub. The
static producer hands a bundle and a manifest over to the transport through the
artifact store.

What is hard about them, and what makes each correct:

- Transport and entry: two processes, a connection that may break at any byte,
  two deadlines and an effect that cannot be taken back. Correct when a success
  is only said of an observed effect, of a run that agrees with the request in all
  that its receipt carries, "nothing happened" only
  when nothing did and nothing still can, and there always is a verdict.
- Executors: Docker goes on when its client is killed. Correct when no tree
  vanishes under a container, when what a prepared run leaves is reported, and, with the
  exclusion the caller owes, when a success serves exactly this release and two
  migrations never overlap.
- Reader gate: a thread that may be stuck for ever shares a process-wide lock
  with later calls. Correct when there is never a second reader, the lock is
  neither lost nor opened early, calls return, and output is whole or refused.
- Key transfer: the batch is replaced key by key. Correct when a batch cut short
  installs nothing, when a mixed directory is never silent and a definite error
  is final.
- Kuma synchronisation: a call without an answer may have been carried out, or
  may be later, and is tried again. Correct when no declared monitor is pruned,
  when what could not be listed is not overwritten, when the exit status tells
  the truth about every project, and when a run over its budget gives up soon.
- Runner drain: the marker, the slots' units and GitHub's records are three
  views of one thing that no one reads at one moment. Correct when a host that
  was found idle is handed no job, when a running job survives `begin`, and when
  slots come back after the drain whatever GitHub has kept of them.
- Guarded deploy and maintenance: adapters are killed and their commands go on,
  and the host may go down at any step. Correct when commands that exclude each
  other never meet, a deployment ends on what it made itself, a reboot hits no
  deployment, and a green run has rebooted.
- Static producer: files are looked at first and copied later, the bundle lies on
  disk between the steps, and signals come at any moment. Correct when the
  bundle is the tree as it was at one moment, when what a consumer accepts is
  what was packed, and when the directory is removed or its remains reported.

`PROJECT.json` lists the hazards at their lines, also those of the components
that are not modelled.

## 2. Modules

| Module | What it is |
|---|---|
| `Delivery` | abstract: one request, its effect and its one verdict |
| `TargetStream` | transport + connection + target entry; implements `Delivery` |
| `Executor` | abstract: runs of an SDK, their effects and reports |
| `StaticTarget` | static executor + preparer + Docker; implements `Executor` |
| `StaticTargetProofs` | theorems about `StaticTarget` |
| `ImageTarget` | image executor + Docker + migration; implements `Executor` |
| `ImageTargetProofs` | theorems about `ImageTarget` |
| `ReaderGate` | the command runner, its reader thread and the shared lock |
| `ReaderGateProofs` | theorems about `ReaderGate` |
| `OriginKeys` | sender + connection + receiver; implements `Delivery` |
| `OriginKeysProofs` | theorems about `OriginKeys` |
| `KumaSync` | `kuma_sync.py multi`: the run, its calls and the Kuma server |
| `KumaSyncProofs` | theorems about `KumaSync` |
| `RunnerDrain` | the drain commands, the slots' units and GitHub's records |
| `RunnerDrainProofs` | theorems about `RunnerDrain` |
| `RecoveryGuard` | a host and the guards of the recovery library, as their callers use them |
| `GuardedDeploy` | one project's deployments by `deploy-app` and its adapter, on `RecoveryGuard` |
| `GuardedMaintenance` | the maintenance action and its detached adapter, on `RecoveryGuard` |
| `GuardedHost` | composes the two on one host, with reboots |
| `GuardedHostProofs` | theorems about `GuardedHost` |
| `StaticRelease` | the `publish-static-release` action and `static_release.py` |
| `ReleaseProofs` | theorems about the two ends of a release, `TargetStream` and `StaticRelease` |
| `MC...` | instances for TLC, each with one or more `.cfg` |

`TargetStream` calls an SDK only by the effect it has (`none`, `maybe`,
`verified`); `Executor` is the same promise for a set of runs, and the two
executor modules implement it. That is where the modules meet: a run of
`SdkActivate`, `SdkVerify`, `SdkReturn` or `SdkFail` in `TargetStream` is
`Activate`, `Observe` and `Decide` of `Executor`.

A definition whose comment begins with "Wrong variant" is the way a plausible
bug would change the definition right after it. It is used by no specification;
`PROJECT.json` pairs it with the property that catches it.

### 2.1 TargetStream

Controller positions (`ctl`): validating, starting (before `Popen`), streaming
(the loop of `_run_process`), parsing, done. Target positions (`tgt`): none,
reading (`_read_frame`), deploying (inside the SDK), receipt (built, not
written), flushing (written, final deadline check to come), exited. The frame is
counted in sections: header, manifest and, for a static release, bundle.

- `LocalRefusal` is any error before `Popen` returns (unambiguous);
  `StreamDeadline`, `StreamFault` and `SshFailed` are the errors after it, which
  all end in the handler at transport:549-562 and are ambiguous.
- `Complete` needs what transport:503-515 needs: end of output, everything sent,
  status zero. The status is zero only if `run_target_stream` returned normally
  and the connection carried that back.
- `Launch` loads any lease of `Leases`: the launcher is outside the repository,
  and its lease may be stale.
- A receipt carries a part of the lease only (`Bound`): `CommonFields` always, and
  `SuccessFields` with a success (entry:208-224, 234-274). `ReceiptVerdict` is
  `_parse_receipt` and compares exactly these. The rest of the target
  specification (control hashes, mounts, paths), `policy`, is not on the wire: the
  controller accepts a success of a run whose lease differs only there. No document
  says otherwise and no property does; `NoFalseSuccess` with `lease = Request` in
  place of `LeaseAgrees` is refuted by TLC.
- `SdkActivate` stays possible after the SDK failed or died, because Docker goes
  on with what it was asked for.
- A deadline is in `late` once it has passed. A check and the step behind it are
  one action; the clock running out between the two is the same behaviour as
  the clock running out after the step, as nobody else reads it.

### 2.2 StaticTarget and ImageTarget

`pc[r]` is the statement a run is at; the other per-run variables are the code's
locals of the same name. `trees` and `temps` are the directories on disk; `made`
and `fit` the containers; `pending[r]` the services Docker may still recreate
for `r`'s `up`. `Recreate` and `UpAbandoned` are Docker, and go on when the run
has failed or is dead. `Edit` replaces a reviewed file at any moment:
`_check_snapshots` runs only between commands, so `Recreate` may read the edited
file. `Fail` is any failing check, command, clock or deadline.

An interrupt is modelled at statement boundaries: creating a directory and
assigning the local that names it are one step. `ReaderGate` is the module that
splits such a gap.

In `ImageTarget` a run is named by its release, so two runs have different
images, except for the `Sidecars`: their pinned image may be the same in every
release, and `Inspect` does not tell their containers apart. Two runs of one
release could not be told apart by the inspection either; `ResultServes` does
not rest on it (section 4).

`Excluded(r)` is the "effect-time exclusion" the docs leave to the caller
(`docs/prebuilt-target-executor.md:9`, `docs/prebuilt-static-target.md:8`): no
other run is active when `r` begins, and Docker has nothing left to do for one
that was cut short. Runs may begin without it; the history variable `overlapped`
says that one has, and the properties that rest on the exclusion are stated for
`~overlapped`. That Docker has nothing left to do is an assumption about the
caller; it cannot be seen from the code here. Exclusion does not cover a
migration left behind by a killed `exec` client, which is why `OneMigration` is
interesting: it holds because `up --force-recreate` replaces the container it
runs in.

### 2.3 ReaderGate

One call is one `_SubprocessExecutor.run`. The statements between which the
reader, another call or an interrupt matter are separate actions: acquiring the
lock and recording it, starting the thread and recording it, and the three
operands of the condition at `prebuilt_target.py:497`. `cap` is what the reader
has found: output so far, end of output, too much output, or an exception.
`Interruptible` lets an interrupt hit the two recording gaps; every other point
of the try block may always raise.

### 2.4 OriginKeys

One transfer is one nonce: `snd` follows `transfer`, `rcv` the receiver program
(`_REMOTE_RECEIVER`). An installed key is named by the transfer that put it
there, which is what a snapshot (inode, times) tells apart. Looking at each key
of the recheck, the check of one key, its replacement and the look at the result
are separate steps. `replaced`, `stale` and `overlapped` are
history, the last of a transfer started while an earlier receiver was at work.

### 2.5 KumaSync

`stage` is the position in `sync_monitors_multi`; `call` and `attempt` are the
call that `_retry_call` is trying, `link` whether its session is logged in.

- `_login`'s own tries are one step, a connection or the end of the run: nothing
  but the connection changes in them. `Reconnect` is the one that `_retry_call`
  and the recovery after a lost session make before the next attempt.
- A failed attempt has a kind, which stands for what its message contains:
  `refused` for the substrings that make `_retry_call` give up at once, `drop`
  for those that make the project loop log in again, `other` for neither. A
  message of both kinds is left out. `Unanswered` says what has become of the call: nothing, carried out,
  or left in `late`, from which the server may take it at any later moment.
  `late` is a set: two equal calls left behind count once.
- `seen` is the dict `existing`. `List` fills it by name, and of two monitors of
  one name one is lost, as `get_monitors`'s comprehension loses it.
- A monitor's settings are abstracted to `ok`, whether they are those declared;
  its channels are kept, because `protect_unresolvable` may leave them alone.
  One name has one declaration, also when two projects declare it.
- `RetryOverBudget`, `Declare` and `PruneNext` are the three places that look at
  the run budget. `SettingRaises` is an exception out of `build_monitor_kwargs`,
  which no handler of the loop catches.

### 2.6 RunnerDrain

`unit[s]` is where the unit of slot `s` is: at the gate (the marker loop of
`jit-config.sh`, and the pause before it), listing, generating, starting the
runner, listening, working. `reg[s]` is GitHub's record of the slot's name.
`cmd`, `step` and `at` are the drain command and its place in the loop over the
slots; `marker` is none, valid or expired, which is all that anyone compares of
it. `broker` is chosen in `Init`: both renderings of the role are checked.

- One command of the kind `begin` or `status` runs at a time; `end`, `extend` and
  the clock (`Expire`) strike at any of its steps. `extend` never shortens, and
  writes a marker where there is none.
- `systemctl restart --no-block` only queues (`stopping`); `Restarted` carries
  it out, and until then the old unit goes on, but starts no new listener.
- The list and the delete of `--deregister-if-idle` are two actions (`Ask`,
  `Delete`) with the slot and GitHub at work between them. Those of step 2b are
  one: no one else makes a record of the slot's name. The pause of `RestartSec`
  is part of `Rerun`.
- With the credential on the host, status looks at the process first and at
  GitHub second; a job may start between, and GitHub may drop the record of a
  running one. `NoJobOnceQuiet` says exactly what is left: nothing more is handed
  out. In issuer mode it says that nothing runs either.
- Slots that `begin` passes by while they are registering (a 422, an unreadable
  process) are in `skipped`, and outside the property.

### 2.7 RecoveryGuard, GuardedDeploy, GuardedMaintenance, GuardedHost

`RecoveryGuard` is what the code here assumes of `stack_recovery`, which is not
in the repository: a guard is an open file, held by the adapter and by each
command that gets it through `pass_fds`; writers of one project, and maintenance
and everyone, exclude each other; admission may be refused; the reboot guard
leaves a reservation of the current boot, which only a later boot resolves.
`workflow[r]` is where the run is on the CI runner, `adapter[r]` what its adapter
on the host does next, `command[r]` what it has started. `contract` says whether
the host has the library, does not need it, or needs and misses it.

- A killed adapter (`DeployKilled`, `MaintenanceKilled`) leaves its command at
  work, with its descriptor. `CommandFails` is a command that fails with its work
  done or not. A lost connection does not stop an adapter.
- `fetch` stands for `image prune`, `build` or `login` and `pull`, which change
  nothing the properties look at. `docker-compose.yml` and `.env` are one version
  per project (`files`), named by the run that transferred them.
- Validation, the Docker probe and each observation fail as one action,
  `DeployFails`. Which images are retired is left out.
- The maintenance run and its adapter meet in `exit` and `marker` only. The 120
  seconds of the hold may end with the shutdown still to come: `RebootFails` and
  `Reboot` are both possible then.
- `Reboot` ends every process and keeps every file, on request or not.

### 2.8 StaticRelease

`step` is the step of the action, `pc` the place in `static_release.py`. A
version of an asset stands for its content and for its stat record (size, inode,
mtime): a change that keeps all of them is left out, and so is a bundle that is
changed back. A file is copied in two reads; an open descriptor keeps following
writes to its file, and keeps the old content when the file is replaced or
deleted.

- `InTry` are the places in which prepare's or main's handlers clean up, and
  `Writing` those in which `_write_bundle` removes its bundle before. `Landing`
  says where an exception leads.
- The gaps between `mkdir` and the `try`, between the return of `_private_dir`
  and the `try` of `prepare`, and between the return of `prepare` and the `try`
  of `main` are places of their own (`bare`, `marked`, `handover`).
- `cut` is a history variable: a signal came where no handler and no later step
  can know of the directory, or struck a cleanup.
- Failures of the cleanup's own calls, other than signals, are left out.

## 3. Runs

| Run | Instance | Shows |
|---|---|---|
| `target_stream` | one static request; its lease and seven that differ from it in one field | every verdict is true as far as a receipt can tell, final and given; a late target is never believed; the protocol implements `Delivery` |
| `static_target` | two runs, two services | no tree vanishes under a container; what a prepared run leaves is reported; a failed run in use has a handle; each run implements `Executor`; without overlap a result serves its own release everywhere |
| `image_target` | two runs, two services | each run implements `Executor`; without overlap migrations never overlap, and a result serves its release on its schema |
| `reader_calls` | two calls with capture, one without, no interrupt in a gap | one reader; the gate follows it; results wait for it |
| `reader_returns` | two calls, interrupts anywhere | every call returns |
| `origin_keys` | two transfers of two keys | nothing from a partial batch; no false verdict; an overtaken receiver stops; both sides end; implements `Delivery`; without overlap mixtures are never silent |
| `kuma_sync` | three projects, one of them empty; three declared monitors and one that is not | nothing declared is pruned; unlisted channels are kept; the exit status is true; over the budget the run stops soon, and it always ends |
| `kuma_duplicate` | as `kuma_sync` | *violation*: two monitors of one name |
| `runner_drain` | two slots, either broker, any commands | a quiet host is handed no job; running jobs survive `begin`; the first slot recovers |
| `guarded_host` | two deployments of one project, one maintenance run, one reboot | commands exclude each other; a deployment ends on its own containers; reboots are requested alone; green means rebooted |
| `static_release` | two assets, two changes to them, two to the bundle, two signals | the bundle is a snapshot; what is accepted was packed; nothing is left silently |
| `deploy_files` | as `guarded_host` | *violation*: containers started from other files than their gate |

The bounds. Two runs are enough for every interaction in the code, which only
ever relates a run to "another one": the tree of another run, the migration of
another run, the reader of another call, the keys of another transfer; three
calls are used where a third could meet a lock that two have confused. Two
services are the least number of which one can be missed, two keys the least of
which one can be left unreplaced. The wrong leases differ from the right one in
exactly one field, so a binding that is not compared shows. Nothing is counted
without end: the frame has three sections, a batch has N keys and a deadline
passes once. For Kuma, `Attempts` is 2 where the code has 5: the code only tells
a last attempt from one that is not. `Serials` bounds the monitors of one name to
two, which is what it takes to lose one in the listing; an `add` that finds no
free serial is not carried out. Three attempts with three serials were tried as
well, without an error. A run finds at most one monitor of each name. The three projects are one of two monitors, one of none
and one of one: an empty project is the least that passes between two looks at
the budget. For the drain, two slots are the
least with one before and one after the cursor. On the guarded host, `MaxBoots` is
2: before and after one reboot; the two deployments are of one project, with and
without a migration, since those of different projects share only the maintenance
run. In `static_release`, two changes let a file change and another be deleted,
or one change twice; two signals let one strike the cleanup after the other.
Symmetry is used only where no temporal property is checked.
`CHECK_DEADLOCK FALSE` stands in every configuration but `MCRunnerDrain.cfg`,
because the modelled calls end and nothing follows; the slots of a host go on for
ever, and there deadlock is checked.

The type invariants of the proved modules are theorems (section 4) and are not
repeated in the runs, but for `SRTypeOK`, which says that a directory that is gone
holds nothing.
So it is with `ReceiptHonest`, `NoCommandLeft`, `SuccessIsWhole` and the
`CleanupReported` of `ImageTarget`.

Fairness, and what justifies it:

- Time passes (`Expire`) and the calling thread runs.
- The controller's loop wakes at least every 0.1 s and looks at its deadline
  first (transport:498, 516): `StreamDeadline`. Nothing is assumed of the
  connection, of the target's reading or of its answer: `Answered` holds
  although the target may never be launched.
- There is no fairness for the target of `TargetStream`: a blocked read, registry
  call or write may last for ever (the docs leave their deadlines to the launcher),
  and no property claims that the target process ends. `LateNeverBelieved` is
  safety: it says what a target that is late can no longer cause.
- An executor's run never stays at a step: commands are bounded and the deadline
  fails the step. There is no fairness for Docker.
- `ReaderGate`: only the calling thread and the clock. Commands may ignore the
  signal and readers may be stuck for ever.
- `OriginKeys`: either side's own deadline ends it; every wait of both is a
  `select` bounded by it. There is none for the peer or the connection.
- `KumaSync`: the run (`WF_vars(Run)`), since every call of the client has a
  timeout and every sleep an end. There is none for the clock, so `Ends` does not
  rest on the budget, and none for the calls left in `late`.

- `RunnerDrain`: `FirstFair` is fair to the first slot only. No unit stays at a
  step (systemd has `Restart=always` without a start limit), and of the requests
  it repeats for ever one is answered (`SF` on `RemoveStale`, `Generate` and
  `Listen`); GitHub in the end drops a record whose runner is gone. Nothing is
  assumed of the other slots, the commands or the arrival of jobs.
- `StaticRelease`: the action goes on (`WF_SRvars(Advance)`); `Ends` follows and was
  checked, but is no run's property as it only restates that. `GuardedHost` has
  no fairness: its properties are safety.

### What the violations say

1. `kuma_duplicate` - an `add_monitor` that was carried out without an answer is
   tried again by `_retry_call`, with the list from before the first attempt. The
   comment in `_domain_slug` calls the name the identity key of the sync; from
   then on one copy is managed and the other is not; a prune of a doubled stale
   name deletes the copy that its listing by name kept, and the run exits 0.
2. `deploy_files` - `rsync` and the transfer of `.env` come before the guard. While
   the adapter of one run is between `create` and `up`, another run of the project
   replaces the files, and `up` starts containers from them under a gate that has
   the argv of the first run's containers (`guarded_deploy.py:147`: "compile their
   existing argv").

Other statements of docs and comments that the code does not keep are definitions
of the modules and in no configuration. Each is refuted by TLC when it is added
to the configuration named:

| Definition | Configuration | What happens |
|---|---|---|
| `OneReader` | `MCReaderGateReturns.cfg` | `Thread.start` and `reader_started = True` (`prebuilt_target.py:476-477`) are two steps; an interrupt between them releases the gate under a live reader, against `docs/prebuilt-target-executor.md:136` |
| `OverflowRefused` | `MCReaderGateCalls.cfg` | the condition at `prebuilt_target.py:497` looks at the overflow flag, the total and the thread; a reader that passes the limit in between has its truncated output returned |
| `FailedPreparationKeepsNothing` | `MCStaticTarget.cfg` | when the removal after a failed preparation fails as well, the tree stays (`prebuilt_deploy.py:367`: no created path is retained); the preparer's `asset_cleanup_failed` becomes the executor's `static_assets_invalid`, so that its caller is told neither of the tree nor of its path. `CleanupReported` leaves this tree out |
| `ProjectErrorsCaught` | `MCKumaSync.cfg` | `interval: soon` in one project raises outside the handlers of the project loop and ends the run with a traceback (`kuma_sync.py:1018`: the remaining projects are not aborted) |
| `QuietForAll` | `MCRunnerDrain.cfg` | a slot that `begin` passed by while it was registering becomes a runner in a drain that status called idle |
| `GreenProvesReboot` | `MCGuardedHost.cfg` | without the contract, an unrelated boot between the decision and the request passes for the reboot (`action.yml:253`: the checks must prove it) |
| `SkippedNeedsNone` | `MCGuardedHost.cfg` | an ssh that fails in the condition at `action.yml:184` counts as "no reboot required" |
| `InterruptLeavesNothing` | `MCStaticRelease.cfg` | a SIGTERM between `mkdir` and the `try` (`static_release.py:364-365`), or one that cuts a cleanup short, leaves the directory, and the final step has no path |

## 4. Proofs

Every theorem holds for every value of the constants that the module's `ASSUME`
allows. An invariant is proved from an inductive strengthening, named in the
table; each proof has one step per action, and a step of one run (call,
transfer) is split into what it does to its own part of the invariant (`Own...`)
and the fact that it leaves another's alone (`Other...`).

| Module | Inductive invariant | Theorems |
|---|---|---|
| `ReleaseProofs` on `TargetStream` | `StreamInv` | `TypeOK`, `NoFalseSuccess`, `DefiniteNoIsFinal`, `OnlyCleanRunsCount`, `ReceiptHonest`; the safety part of `Delivery` is implemented; `LateNeverBelieved`; a verdict is never taken back, and after a definite no nothing is done to the target |
| `ReleaseProofs` on `StaticRelease` | `SRInv` | `SRTypeOK`, `BundleIsSnapshot`, `AcceptedIsSealed`, `NothingLeft`; with a published manifest the uploaded bundle is the recorded one |
| `StaticTargetProofs` | `StaticInv`; `ExclusiveInv` | `TypeOK`, `MountsLive`, `CleanupReported`, `RecoveryHandle`, `ResultServes`; the safety part of `Executor` is implemented |
| `ImageTargetProofs` | `ImageInv`; `ExclusiveInv` | `TypeOK`, `CleanupReported`, `OneMigration`, `ResultServes`; the safety part of `Executor` is implemented |
| `ReaderGateProofs` | `ResultsInv`; `GateInv` | `TypeOK`, `ResultAfterReader`; without interrupts in a gap `GateTracksReader`, `OneReader`, `NoCommandLeft` |
| `OriginKeysProofs` | `KeysInv`; `AloneInv` | `TypeOK`, `WholeBatchFirst`, `DefiniteNoIsFinal`, `SuccessIsWhole`, `OvertakenReceiverStops`, `MixedIsAmbiguous`; every transfer implements the safety part of `Delivery`, and so `ImplementsDelivery` |
| `KumaSyncProofs` | `KumaInv`; `BudgetInv` | `TypeOK`, `PruneSafe`, `ChannelsKept`, `ReportIsTrue`, `AbortIsPrompt` |
| `RunnerDrainProofs` | `DrainInv` | `TypeOK`, `NoJobOnceQuiet`, `JobsSurvive` |
| `GuardedHostProofs` | `HostInv` | `TypeOK`, `CommandsExclusive`, `DeploysItsOwn`, `GreenMeansRebooted`, `RequestsAlone` |

Why the strengthenings are needed:

- `StreamInv`. That a success is true is said of the controller's verdict, but
  rests on the target: the verdict comes from a receipt, the receipt from a
  position, the position from what the SDK did. `ControllerInv` ties the verdict
  to the receipt on the wire and to a clean exit, `TargetInv` the receipt to the
  target's position, `EffectInv` the receipt to the lease and the effect. A definite
  no is final because it needs a target that has exited, or was never started,
  with the SDK not entered.
- `StaticInv`. A tree can be mounted only for a run that has set `activated`
  (`TreeInv`), which it does before it starts `up`; from then on the tree is not
  disposable. That is the whole reason for the order of the two statements.
- `ExclusiveInv` (both executors). Docker goes on for a run that has failed, so
  what an active run relies on, as long as no run overlapped, is said together
  with what every other run, and every migration left behind, can still do. The
  reviewed files may be replaced during `up`; what was made from them then is
  not the run's, but the check after `up` fails: while the files conform, what
  is no longer pending is the run's. Neither proof of `ResultServes` uses the
  inspection's comparison of images, because the step `UpDone` already has it.
- `GateInv`. The gate follows the reader because at most one call is on its way
  to a reader or has one, and the two local flags say truly which. The flags are
  truthful only where no interrupt separates a statement from its record, which
  is the hypothesis `~Interruptible`; without it TLC refutes it. What a result has
  waited for needs neither gate nor flags (`ResultsInv`), and holds with interrupts
  anywhere.
- `KeysInv`. An overtaken receiver stops at the last key: it has the snapshot of
  a key that another transfer replaced since, and no transfer replaces a key
  twice, so that it can never match again (`OwnerInv`, `StaleInv`). The other
  three say where each staged and each replaced key is by the cursor of the
  loop. A batch of one key is replaced in a single step, so `Delivery` lets an
  effect be there at once. The run checks the refinement for one tracked transfer
  of a batch of two; `KeysDeliver` is about every transfer and every length.
- `AloneInv`. Without overlap one receiver is alive at a time, and all it has
  replaced is still in place, so the last replacement makes the keys uniform and
  every other one leaves its own transfer as the half-done owner.
- `KumaInv`. That the prune deletes nothing that is declared needs that it is
  only reached when every project's names are in `declared` (`AllDeclared`), and
  that every delete, also one in `late`, was issued from there (`Meant`). That a
  report is true needs that every name already passed in a project that has not
  failed is declared and in line, and stays so: no write that is under way or
  left behind takes a monitor out of line, whoever meets it, because each carries
  what was wanted when it was made and neither the channels nor what is known of
  them change after the first stage.
- `BudgetInv`. `Left` counts down the attempts that may still follow, by the place
  the run is at; every attempt over the budget lowers it and nothing raises it. The
  bound depends on the number of projects: the budget is looked at before a
  monitor, not before a project, so a project that declares nothing, or whose
  listing fails with a message that is not retried, costs one listing. A constant
  bound holds for three projects and for no longer list.

- `DrainInv`. That no slot takes a job rests on two passes over the slots. After
  `begin`, each slot before its cursor is held (`Held`): what is on its way to a
  registration has a restart queued, so that it starts no listener. Status adds
  that what it has passed is calm, and a held slot that is calm stays so, because
  the gate is shut while the marker is valid. `OwedInv` carries what `begin` has
  seen of its slot up to the restart.
- `HostInv`. Exclusion is a fact about open files, so `Covered` says that whatever
  is inside or at work holds its guard, and `Guarded` that conflicting runs do not
  hold theirs together. `Own` is how far the deployment that is inside has come;
  it survives others' steps because no other writer of the project can be at work,
  and survives reboots because the adapter does not. `Asked` ties a green end to the
  boot in which the request was accepted through the reservation: the boot identity
  alone would also accept a boot before the request. `Upgrading` is what makes a
  reboot be requested alone: the run's own upgrade is over by then.

- `SRInv`. A snapshot of a tree that others write to, taken file by file, can only
  be trusted because a version that is seen again was there all the time:
  `FreshInv` says that a change gives a version nobody has seen. So an open file
  that is as it was found has not changed since the search (`FileInv`), and a file
  leaves the work list packed as it was at the end of the search (`CopyInv`),
  which is the moment of the snapshot. `SealInv` orders the ages of the bundle: the
  record is no younger than the upload, the upload no younger than the bundle that
  finalize compares with the record, so that the comparison makes all three equal.
  The manifest has no part in that; it only decides whether a consumer accepts.
  `DirInv` says who will remove a directory at each place: a handler on the spot,
  or the final step, for which it must be marked and told. `PlaceInv`, `NotYetInv`
  and `HeldInv` fix where the process can be, what it has not made yet, and where
  the directory must be there.

Model-checked only: everything with fairness (`Answered`, `Returns`,
`FirstRecovers`, the two `Ends` that are run, and the liveness part of
`Delivery!Spec` and `Executor!Spec`), which the prover does not do. Every safety invariant and every
action property of a passing run is a theorem.

## 5. What is not modelled, and why

Inside the modelled components:

- Encodings and validation of single documents (manifests, leases, receipts,
  archives, Compose output, digests, ACLs, paths): a step that succeeds or fails.
  What each is compared with is modelled where a property depends on it.
- The identity of a wrong lease is one differing field, not a choice of values.
- An interrupt between creating a directory or temporary file and recording it,
  other than in `ReaderGate` and `StaticRelease`. Such a leftover is invisible to the code and no
  property says otherwise.
- Batches of different key names: all transfers of `OriginKeys` replace the same
  keys, so what a later batch with other names leaves of an earlier one is not
  looked at.
- An empty batch of keys, which `transfer` accepts and ends without a connection.
- What the host or its users do to a tree, container or key directory behind the
  programs' back, except replacing a reviewed file, a container that changes its
  health, and other runs of the same programs.
- `KumaSync`: the single-project commands `monitors` and `notifications`, the
  parsing of project files (a file is usable or not), the reading of each
  setting, changes that others make on the server during a run, and an explicit
  `notification_name: []`, which the code takes as no entry where Kuma has a
  default channel, and as one that cannot be resolved where it has none.
- `RunnerDrain`: labels, the App token (a failed request), retired slots, and two
  drain commands at once.
- `GuardedHost`: the recovery library beyond its guards and reservation, the
  optional file secrets, which images are retired, and what `migrate` or an upgrade
  does to data.
- `StaticRelease`: what a path or name may look like, the limits, the format of the
  archive; identity and provenance checks are steps that may fail.
- The launcher and the owner of leases, ssh, Docker and the file system are
  modelled by how the programs here use them.

Whole components that are not modelled are listed in section 1 and in
`PROJECT.json`, with the reason. Release manifests and image builds validate
single documents and call subprocesses one after the other. Backup and restore are
shell steps around the recovery library, whose journal and locks, where their
hazards lie, are not in the repository. CI job graphs, provisioning roles and the
single-actor shell actions have no state of their own beyond what their tools
keep.

## 6. Plan

In this order:

1. The single-project commands of `kuma_sync.py`, on the calls of `KumaSync`.
2. `TargetStream` over `StaticTarget`: the abstract SDK replaced by the executor
   itself, to show `Delivery` end to end for overlapping requests.
3. The recovery paths that read the static executor's handle, and the backup and
   restore chain, as far as its code is in the repository.
