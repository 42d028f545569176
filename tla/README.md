# Verification of llm-manifesto

TLA+ models, model-checking runs and machine-checked proofs for the code in
`src/`. Manifesto renders deployment specs for LLM inference into Kubernetes
objects or Slurm batch scripts and drives their life cycle with `kubectl` and
`sbatch`. It has no server of its own: its state lives in the cluster, is read
with one command and changed with the next, and programs it generates (an
idle-shutdown controller, launch scripts, a routed Slurm batch script) go on
running after it has exited. What can go wrong is therefore mostly between two
commands.

## Inventory

| Component | State | Operations | Interacts with |
| --- | --- | --- | --- |
| Idle-shutdown controller, `render/idle_shutdown.py` | timer, last counter sum, list of scaled workloads (all in memory); replicas of the workloads, the Gateway, its own Deployment (in the API server) | check (list, scrape, decide), shut down (scale, delete Gateway, stop itself), roll back | Kubernetes API, vLLM `/metrics`, a concurrent `deploy` |
| Deploy workflow, `workflow.py` `deploy` and below | live workloads, routing objects, claim templates, secret | preflight, plan transitions, sync secret, execute transitions, apply, clean up obsolete objects | `kubectl`, other deployments of the same spec or of the same workload names |
| Discovery and teardown, `workflow.py` `servers`, `stop`, `delete_instance` | what a parallel listing returned | list, pick, delete top level, delete pods, verify | `kubectl`, controllers that recreate pods |
| kubectl runner, `workflow.py` `run`, `capture` | attempt counter | run once, capture with retries | every other part |
| Readiness wait, `workflow.py` `ready` | one `kubectl wait` per role, frontend poll | wait, poll until deadline | API server, serving frontend |
| End-to-end test, `e2e.py` | namespace, probe Job | create, deploy, wait, probe, delete | deploy, ready |
| Launch script, `launch.py` | crash marker file, caches | clean, mark, trap, start vLLM | container restarts |
| Layout and ports, `parallelism.py`, `dp_ports.py`, `resolve.py`, `render/lws.py` | none (pure) | derive nodes, ranks, ports, API servers | rendering, idle shutdown, routing |
| Spec, overrides, features, `spec.py`, `overrides.py`, `features.py` | none (pure) | merge, validate, default, resolve features | rendering |
| Catalog and config commands, `catalog.py`, `cli.py` `config` | the user's tree of configs beside the bundled one (files) | list, resolve, edit, export, import | every command that takes a config; the user's editor |
| Instance identity, `instance.py` | none (pure) | id, names, labels | every rendered object |
| Routing, `routing.py`, `render/routing.py` | none (pure) | endpoint picker plugins, pool, frontend | layout |
| Slurm, `slurm.py`, `slurm_routing.py` | batch script's services and discovery file | submit, list, cancel; start, watch, clean up | `sbatch`, `squeue`, processes of the allocation |
| Workload IR, `workload.py`, `dra.py`, `images.py` | none (pure) | lower a pod template to a Job, Deployment or LWS | cluster profile |
| Cluster profiles, `cluster.py`, `slurm_config.py` | none (pure) | parse, validate, paths | everything |
| Command line, the rest of `cli.py` | none | argument parsing, printing | everything |
| Presets and dashboards, `models/`, `clusters/`, `routing/`, `config/`, `monitoring/` | none (data) | read by the catalog; dashboards are applied by hand | specs, profiles |

What makes each correct, and what is hard about it:

* **Idle shutdown.** It must not take down an instance it cannot establish to
  be idle; a shutdown that fails half way must leave the instance up; it must
  release an idle instance in the end. Hard: every request may fail, take
  effect and fail, or be the last one before the controller dies; servers
  restart and requests arrive between any two scrapes; the scrapes are not a
  snapshot.
* **Deploy.** Nothing is changed before every check passed; a workload has one
  kind at a time; after a success the frontend is the one the spec asks for
  and only superseded objects went; a deploy that stopped half way is repaired
  by the next. Hard: five dependent commands with a failure possible at each,
  plans made from a state that has changed since, several deployers.
* **Teardown.** Success means nothing was left; a listing that failed is never
  read as an empty one. Hard: pods reappear while their controllers go, every
  list is a separate request.
* **kubectl runner.** Reads retry a bounded number of times and only on
  transient errors; mutations run once.
* **Readiness.** Success means every role and the frontend answered.
* **End to end.** Only a namespace this run created is deleted, and it is
  deleted whatever fails.
* **Launch script.** vLLM never starts on caches a killed process may have
  left half written.
* **Layout.** The ranks of a deployment are exactly 0 .. dp-1, the ports of a
  node do not collide, and every consumer counts the same API servers.
  Hard: four places derive the addresses of the servers from the same two
  numbers, with integer divisions that only validation makes exact.
* **Slurm.** When a service of the routed batch stops, all are stopped, then
  the discovery file is removed, and the job's status says why. Hard: signals between any two commands of the script,
  services that ignore them, a second signal during the first one's handling.
* **Routing.** The picker never picks a server that does not exist; the pool
  has the servers of every role. Hard: one list of ports for pods that differ.
* **Workload IR.** What lowering adds (labels, claims, a queue) must agree with
  what the workload brings, for three controllers and every owner of a label.
* **Cluster profiles.** Every path given to vLLM lies on a volume of its pod.
* **Catalog.** An imported config stands alone; copying a chain changes what
  no name means; no command overwrites a file unasked. Hard: three pieces of
  code turn a name into a path, and copying is several writes.

## How the modules correspond to the code

```
InstanceRelease <--implements-- IdleShutdown <--EXTENDS-- MCIdleShutdown
                                             <--EXTENDS-- IdleRedeploy <-- MCIdleRedeploy, IdleShutdownProofs
Emit --renders the manifests of--> MCDeploy --EXTENDS--> Deploy <--EXTENDS-- DeployProofs
Teardown <--EXTENDS-- MCTeardown, TeardownProofs
CrashMarker <--EXTENDS-- MCCrashMarker, CrashMarkerProofs
Layout <-- DeploymentSpec <--.
                  Lowering <--+-- Serving <-- SlurmRender <-- Render <-- MCRender, RenderProofs
                   Storage <--'
SlurmBatch <--EXTENDS-- SlurmBatchProofs
EndToEnd <--EXTENDS-- EndToEndProofs
Catalog <--EXTENDS-- MCCatalog, CatalogProofs
```

A module is parameterised by CONSTANTS with named assumptions; its `MC` module
has the small instances that the `.cfg` files pick from; its `Proofs` module
has its theorems. A definition `F_Something`, placed before `F`, is `F` with a
plausible mistake: with it in place of `F` the run finds the property it guards
violated. "Fault" always means one unit of `MaxFaults`.

### IdleShutdown: `render/idle_shutdown.py`

The script the controller's pod runs, statement by statement where a statement
talks to somebody else. `pc` is where the script stands: `Sleep`, `List`
(`ready_vllm_targets`), `Scrape` (`scrape_activity`, one server per step),
`Scale`, `Gateway`, `Stop`, `StopWait` and `Restore` (`shut_down`), `Done` and
`Gone`. `up`, `gate` and `watch` are the cluster's side: replicas of the
workloads, the Gateway, the controller's own replicas. `scaled` is a number,
because the Python list of the same name is always a prefix of `WORKLOADS`.
`age` is `time.monotonic() - last_activity` counted in polls and capped at the
timeout; `Sleep` may add more than one, as slow requests do.

A request fails in two ways: refused, or carried out with its answer lost. A
page is `full`, `garbled` (`metric_value` makes 0.0 of what does not parse) or
`silent`. Servers restart (counters from zero), flap, get requests and finish
them between any two steps; the pods of a scaled-down workload go some time
later. The controller's container may die at any step and starts again without
memory (`Crash`); once scaled to zero its pod is stopped at any step
(`Terminate`).

History variables, read by no action: `fresh`, `renewed`, `stirred`, `dim`,
`missed` and `blind` record what a check should have noticed and why its sum
was not the true one; `orphans` the objects that a fault (not the code) left
down. `InstanceRelease` is the abstract view: only `up`, `gate` and `watch`,
and the order in which they may move. `IdleShutdown` implements it with the
identity on the three variables and `Parts <- Position`.

### IdleRedeploy: `IdleShutdown` beside `deploy`

The composition of the controller with the apply step of `deploy`. `next` walks
`Manifest`, the objects in the order `render_kubernetes` yields them: the
roles, the controller, the picker, the Gateway. An object is applied with its
rendered replicas (`ApplyObject`), or fails with or without effect, and apply
goes on after a failure, as `kubectl apply` does; `Killed` ends it anywhere.
Pods that were going when their workload came back are replaced or stay. A
controller that had ended starts again once its replicas are back (`Resume`),
without memory. `clean` and `whole` are history variables: no object failed
and no shutdown was under way since the deployment began, and the last
deployment ended so. An old controller pod still terminating beside its
replacement is one process here: it survives or it has ended.

### Emit and Deploy: `render/emit.py`, `workflow.py` `deploy`

`Emit!Manifest` is the list of objects `render_kubernetes` yields, in order, as
records of the fields that `deploy` looks at. A name is the sequence of its
parts between hyphens, and `Instance.name` appends the parts of a component to
those of the instance: role `b-decode` of release `a` and role `decode` of
release `a-b` have one name, as in `instance.py:47-51`. The name of a claim
template is that of its workload and a digest, which tells instance, role and
claim. The digest that shortens a name of more than 63 characters is left out.
An instance is itself such a sequence, of user and release, taken as given: user
`a` with release `b-c` and user `a-b` with release `c` are one instance to the
code as well as here. An object without a reader in the code (`Service`,
`ServiceAccount`, `Role`, `RoleBinding`, the picker's and the controller's
`ConfigMap`) is left out, one of the two
`DestinationRule`s stands for both.

In `Deploy` a process `d` runs `Start`, `Preflight`, `LookUp` (once per
workload of the manifest: `plan_workload_transitions`), `SyncSecret`,
`Recreate` (once per planned deletion), `StartApply`, `ApplyObject` (once per
object of the manifest), `ListTemplates`, `DeleteObsolete`, `ListFrontend`,
`DeleteObsolete`, `Succeeds`. The order of the deletions of one command is left
open. `job` is the rendered manifest, `doomed` what the current plan deletes,
`failed` the exit status a running command will have. Reads and deletes can
fail with or without effect, `apply` per object, and `Killed` ends the process
anywhere. `disturbed` is a history variable: the kinds and names that other
processes changed since this one began. It is kept per object, so that
`SuccessConverges` claims for a process beside others all that it does claim for
one alone, except of the very objects that another one changed, and
`OnlyRacesHarm` says that a stale plan does harm to no others: nothing is applied
beside or over a workload that has to go first, and none is deleted that does not
have to go, unless it was changed since the process began.

### Teardown: `workflow.py` `stop`, `delete_instance`, `list_objects`, `capture`

`Fetch(t)` is the `kubectl list` of one resource type, which all run in
parallel: it answers with what is live at its own moment, is tried again, or
raises. `pc` walks `Discover`, `DeleteTop`, `ListPods`, `DeletePods`, `Verify`,
or `Report` after a failed deletion. `rc` is what the deletions returned, with
-9 for a `kubectl` killed by a signal. `keeper` is the ReplicaSet of the
deleted Deployment: it is of no type that `stop` lists, and replaces pods until
the garbage collector has reached it. `recent` is a history variable.

### CrashMarker: `launch.py` `build_launch_script`

The launch script's commands between the start of the container and vLLM
(`CheckMarker`, `Clear`, `Touch`, `Trap`, `StartVllm`), its exit handler
(`ExitClear`, `RemoveMarker`, `Exit`), and the ways a container ends. vLLM or a
hook exits by itself (`ExitsWell`, `ExitsBadly`). `Kill` is what runs no handler:
SIGKILL, out of memory, a lost node, and SIGTERM before the trap is set.
`Terminate` is SIGTERM after that: with a trap on EXIT a non-interactive bash
catches the signal, as the first process of a container too, and runs `on_exit`
at once, while vLLM, which got no signal, goes on writing. `$?` in the handler is
143 with bash 5.2 when a command runs in the foreground, 0 with versions that
keep that of the last command; the model has both. A probe that fails (the
startup probe of `render/lws.py:168`) ends a container so and starts it again in
the same pod, on the same volumes.

`setting`, chosen at the start and rigid, says whether caches are pod-local,
whether `rm` may fail, whether workers of vLLM may outlive it and whether
containers are ended with SIGTERM. `SoundButForExcused` is claimed in all of
them: what vLLM runs on is sound but for the caches in `excused`, a history
variable, which are those that `rm` missed with nobody looking and those that
were written to behind the handler; a cache that a later clearing reaches is
excused no more. `inherited`, also history, is what an earlier pod left on a
persistent volume, which the marker does not cover by design.

### Layout, DeploymentSpec, Lowering, Storage, Serving, SlurmRender, Render

`manifesto render`, from the parsed spec to what is printed. `Render` is the
state machine: a spec is accepted (`AcceptSpec`: the pydantic validators),
fitted to the profile (`FitCluster`), each role resolved (`ResolveRole`), each
workload rendered (`RenderRole`), and then the routing (`RenderRouting`) or the
batch script (`RenderBatch`); `LowerWorkload` is `render_workload`. `Reject` is
each of the checks failing. The operators live in a module per source file:

| Module | Source | What it has |
| --- | --- | --- |
| `Layout` | `parallelism.py`, `dp_ports.py`, `launch.py` | GPUs per pod, nodes per rank, ranks per node, ports, API nodes; the rank flags of each node's vLLM, and what vLLM makes of them |
| `DeploymentSpec` | `spec.py`, `features.py`, `resolve.py`, `cluster.py` | validators, defaults of topology, load balancing and accelerator, feature contracts, the plan of a role |
| `Lowering` | `workload.py`, `dra.py`, `cluster.py` | Job, Deployment and LeaderWorkerSet from one description: labels, queue, claims, selectors, refusals |
| `Storage` | `cluster.py`, `resolve.py` | paths, volumes and mounts of caches, models and logs |
| `Serving` | `render/lws.py`, `render/idle_shutdown.py`, `render/routing.py`, `routing.py` | the workload of a role, and every party that addresses its servers: probe, watcher, Service, pool, picker |
| `SlurmRender` | `slurm.py`, `slurm_routing.py` | allocation, tasks, ports and discovery file of a batch script |

A path is the mount point it lies under; a label map keeps the names that
something selects by or that more than one party sets; arguments of vLLM other
than the rank flags are left out. The properties compare what two places derive
independently: the launch flags with where the ranks have to sit, the addresses
with the ports bound, the selectors with the labels, the paths with the mounts.

### SlurmBatch: `slurm.py` `stop`, `slurm_routing.py` `render_routed`

The generated script, a command per action: `Setup`, `MakeDirectory`,
`SetTraps`, `Prepare`, then `Fork` and `Record` once per service (between the
two the pid is not yet in `MANIFESTO_PIDS`; before a proxy, `HostsUnread` is the
`$(cat ...)` of its hosts failing under `set -e` while other services run),
`Notice` (the loop that watches), and
the exit handler `Terminate`, `Grace`, `KillRest`, `Wait`, `RemoveDirectory`,
`Exit`. `Handle` is what bash does with a pending signal, between two commands:
end at once before the traps are set, run the handler after that, and end at
once inside the handler, which has cleared the EXIT trap. The services, their
sruns and Slurm itself are environment: a task exits, a service ignores TERM, a
job is cancelled in the queue or later, or killed. `own` is what a service ended with by itself; `cut` is a
history variable: how the handler was cut short.

### EndToEnd: `e2e.py`, `workflow.py` `ready`

`Lookup`, `Create`, `Deploy` (one step: `Deploy` has the rest), `StartWaits`,
`Select` and `EndWait` per role (the parallel `kubectl wait`s), `EndWaits`
(their statuses reduced with `max`), `PollFrontend`, `CreateJob`, `PollJob`,
`DeleteJob`, `Cleanup`, with `Deadline` and `Interrupt`. `owner` says who
created the namespace: another user may take the name between lookup and
creation. A fault is a request that failed with or without effect, a killed
`kubectl wait`, or an interruption.

### Catalog: `cli.py` `config`, `catalog.py`, `overrides.py`

`user` is the user's tree, a function from paths to files; the bundled tree is
a constant. `Flat` is `load_spec_data` (the chain of `extends`, merged by
`Merge`; one `Level` per call), `CopyPlan` is `_copy_model_with_parents` in the
same way, `Resolved` is `resolve_catalog_path`, `Entry` is `catalog_entries`:
the two lookups differ in the code and in the model. `Edit` opens, or copies a
chain file by file (`CopyNext`) and then opens; copies and writes are cut short
anywhere (`Interrupted`, `Torn`). `Save` and `Close` are the user's editor and
the validation after it, which keeps what it complains about. `Export` and
`Import` read and write one file. `origin` and `meant` are history variables:
how each file came about, and what it meant when it was imported.

## Runs

`tlc -config X.cfg M` in this directory repeats a run; each takes from a second
to about a minute.

| Run | Instance | What it shows |
| --- | --- | --- |
| `idle_detect` | 2 roles of 1 server, no Gateway, timeout of 2 polls, 3 requests, 2 faults | A shutdown starts only if every check since the timer was set saw quiet servers, or a page was unreadable or a counter restarted (`ShutdownNeedsEvidence`); a failure anywhere in the shutdown is rolled back (`PartialOnlyAfterFault`) |
| `idle_teardown` | 3 workloads behind a Gateway, 1 server, 4 faults | `InstanceRelease` is implemented (`ReleasesInOrder`), and the instance is released in the end or a fault left part of it down (`EventuallyReleased`) |
| `idle_redeploy` | 1 role and the picker behind a Gateway, 2 deployments, 2 faults | A deployment that met no shutdown under way restores everything (`DeploymentsRestore`); what it restored is never up and unwatched (`WholeInstancesAreWatched`), and is released again when idle (`ReleasedAgain`) |
| `deploy_converges` | 1 process, 4 deployments out of 4 manifests of one release, 2 faults | Each success leaves exactly what the manifest asks for, whatever failed before it; one kind per name; nothing deleted before its replacement, or while in use |
| `deploy_contended` | 2 processes, 3 deployments out of 2 manifests of one release and 1 of another, 1 fault; the processes are interchangeable | A success converges in all that the other process did not change; a stale plan harms only what the other one changed; releases of which none begins with another one do not touch each other |
| `teardown` | 1 workload, 1 Gateway, 2 pods, 2 stops, 3 faults, 2 objects applied again | A success was never reported over something that was there before the last look |
| `crash_marker` | 3 caches, every setting, 3 pods in turn, 3 faults | vLLM never runs on what its own pod left half written, but in caches that `rm` missed unseen or that were written to behind the handler; a restart that found the marker goes on only with the caches cleared |
| `render` | 1,500 pairs of a spec and a profile, and 300 workloads | Ranks, addresses, ports, resources, labels, claims and paths of everything that is rendered fit together; what does not is refused |
| `slurm_batch` | 1 role, its proxy, picker and Envoy, 1 signal, 1 round of grace, 2 services that exit of their own accord | Services outlive neither the script (but for the one it was signalled in starting) nor their directory; the status tells the cause; any exit ends all; a signal ends the script |
| `end_to_end` | 2 roles and the picker, with and without routing and `--keep-namespace`, 2 faults | A pass means the model answered; what is left behind is reported; another user's namespace is spared; the command ends |
| `catalog` | A bundled chain of 3 models, 1 name of the user's own, 3 commands | Imports stand alone, edit opens what resolves, copying changes no meaning, no file is overwritten unasked |

One run ends in a counterexample to what the repository says of itself:
`idle_format_failure`. The metrics of one server do not parse while the other's
do: the first counts as idle and is torn down with requests running, although
the comment in the loop says format failures never tear down.

Further counterexamples, each a configuration to run by hand (`tlc -config X.cfg M`).
Some contradict a sentence of the documentation, some are the consequence of a
design that says so; the rest of this section says which.

| Configuration | Module | Property | Counterexample |
| --- | --- | --- | --- |
| `IdleRestartMask.cfg` | `MCIdleShutdown` | `RestartsNeverHideActivity` | One server finishes a request, another restarts and its counter falls by as much: the sum is unchanged, the timer runs on |
| `IdleRollBack.cfg` | `MCIdleShutdown` | `RollBackIsComplete` | A scale-down that took effect unanswered is not in `scaled` and not restored |
| `IdleNeverReleased.cfg` | `MCIdleShutdown` | `IdleInstanceIsReleased` | The same fault leaves the fleet incomplete for ever, every check fails open, the rest is never released |
| `IdleRedeployOverlap.cfg` | `MCIdleRedeploy` | `UnwatchedMeansReleased` | A deployment applies the controller, whose replicas are still one, and the controller then scales itself down: the instance stays up and nothing will release it. The README says applying restores all resources |
| `DeploySharedName.cfg` | `MCDeploy` | `Isolated` | Two releases of a spec with `workload_name`: `plan_workload_transitions` looks up by name alone and deletes or overwrites the other release's workload |
| `DeployJoinedNames.cfg` | `MCDeploy` | `Isolated` | Role `b-decode` of release `u-a` and role `decode` of release `u-a-b` are both called `u-a-b-decode`: the deployment of the one recreates the workload of the other. README.md:1083: "Every rendered object is scoped by the release-based instance identity" |
| `DeployRenamed.cfg` | `MCDeploy` | `TemplatesInUseAreKept` | A role is renamed: nothing deletes the old workload, but the claim template its pods need is pruned |
| `DeployOptedOut.cfg` | `MCDeploy` | `OptOutStopsController` | `idle_shutdown.enabled: false` renders no controller and nothing deletes the old one: it goes on and takes the instance down |
| `DeployUnrouted.cfg` | `MCDeploy` | `PreviousFrontendRemoved` | Routing is disabled: the manifest has no routing object to go by, the old Gateway stays |
| `TeardownIdentity.cfg` | `MCTeardown` | `SuccessMeansGone` | `stop SPEC` takes `user_prefix` from `--cluster` and the environment, `deploy` from the kube context too: it looks for another identity and says "already absent" |
| `TeardownPods.cfg` | `MCTeardown` | `StoppedMeansNoPods` | The ReplicaSet replaces a pod after the last listing of pods |
| `CrashMarkerHandler.cfg` | `MCCrashMarker` | `RunsOnSoundCaches` | SIGTERM: the handler removes the marker while vLLM is writing, the container ends with a half-written artifact, and the next one of the pod runs on it |
| ... with `Settings <- RmFails` | | | `rm` fails in the exit handler, which ignores it and removes the marker |
| ... with `Settings <- Lingering` | | | A worker writes between the handler's `rm` and its end |
| `RenderPool.cfg` | `MCRender` | `PoolHasEveryServer` | The pool has the ports of the target role, and a prefill server on another port is in no pool; a comment in `render/lws.py` says the pool advertises the union of both roles' ports |
| `EndToEndTooEarly.cfg` | `EndToEnd` | `ReadyWaits` | `kubectl wait` looks before the pods of a role exist and fails at once; the README says `ready` waits for pods |

### Bounds, and why they are enough

* Faults: each is a failed or unanswered request, a crash or a restart. Two
  are needed for the interesting pairs (a PATCH fails and so does its
  rollback; a deletion fails and then the deployment that repairs it); the
  runs have one more than the longest such chain, except where a second
  process takes part.
* Workloads and servers: two workloads suffice for "one done, one not", three
  with a Gateway for a rollback that stops in the middle; two servers for
  every effect of a sum over servers.
* Deployments: three shapes of one release cover each transition (kind, queue,
  template, frontend) in both directions; the fourth deployment repairs what
  the third left. Beside the controller two suffice: one that overlaps a
  shutdown and one that repairs it.
* `Timeout` of two polls tells "idle since the last check" from "idle since
  several"; where only the deployments matter it is one.
* Layouts: up to 6 nodes, TP of 1 to 8, DP of 0 to 8: every combination of
  exact and inexact division, of ranks within a node and nodes within a rank.
  Other fields are moved away one at a time from two base specs, and storage
  profiles are all combinations of the options that pick a path.
* Services of a batch: four are one that exits, one that ignores TERM, one
  being started and one not yet; two that exit by themselves (`MaxExits`) are one
  that ends the batch and one beside it; one signal and one cancellation are two, the most
  the script tells apart; one round of grace and none are both reached.
* Catalog: a chain of three has a parent with a parent; with three commands one
  tears a copy, one imports over it and one edits what they left.
* The theorems need none of these bounds.

`Render`, `SlurmBatch` and `EndToEnd` are commands and scripts that end, and
have no step for having ended: their configurations switch off the check for
deadlocks. That they do end is a property of the last two.

### Fairness

* `idle_teardown`, `idle_redeploy` and `IdleNeverReleased.cfg`: weak fairness of
  `Check` and `ShutDown`, because the script is a loop that sleeps a bounded
  time and gives every request a timeout; of `Terminate`, `Resume`,
  `BecomeReady` and `Evict`, because kubelet and the workload controllers keep
  reconciling; of `Finish`, because a server completes what it runs; of the
  steps of an apply that was started. Nothing is assumed about clients
  (requests are bounded, so they go quiet).
* `slurm_batch`: of the script, which blocks only in `wait`; of Slurm ending a
  job whose script has ended; and of srun ending a step after a task exited
  (`--kill-on-bad-exit`, `--wait`) or after KILL. Not of a service obeying TERM.
* `end_to_end`: of the command, whose polls have deadlines and whose
  `kubectl wait`s have a timeout. Not of Kubernetes or the probe.

A fault is never fair.

## Theorems

`tlapm M.tla` checks them. They hold for every value of the constants that the
named assumptions allow.

* **`IdleShutdownProofs`** (extends `IdleRedeploy`, and with it `IdleShutdown`).
  `SafetyInv` is `TypeOK`, `Teardown` (what is down
  at each `pc`), `NoWayBack` (nothing but the end is possible once the
  controller was told to stop behind a Gateway) and `Accounted` (what is down
  and not in `scaled` is in `orphans`). None is inductive alone: a rollback
  restores `scaled`, so that `PartialOnlyAfterFault` after it needs
  `Accounted` before it, which needs `Teardown` to know how far the loop got.
  From it: `TypeCorrect`, `RollsBackAllButFaults`, `ControllerStopsLast`, and
  `Refinement`: every step of the controller is a step of `InstanceRelease` or
  leaves its variables alone.
  `ShutdownsRestOnEvidence` needs an invariant about what was scraped:
  `Evidence` says that there are two assignments of counters to servers, the one
  `previous` was summed from and the one `seen` is being summed from, that no
  counter of a server already scraped has fallen from the first to the second
  unless `blind` or `dim` says so, and that whatever happened to a scraped
  server since shows in them. Equal sums then mean equal counters, which is why
  `Decide` may compare sums at all. A sum over an arbitrary set of servers is
  stated as the cardinality of a set of units, so that the facts of
  `FiniteSetTheorems` carry it without an induction.
  The last part is about deployments beside the controller:
  `DeploymentsDoRestore` by `Cleaning`: a clean deployment meets a controller
  that rests, and what it applied is present. `RestoredStaysWatched`, behind a
  Gateway, by `Settled`: a restored instance has a controller that satisfies
  `SafetyInv`, or one that had ended when everything around it was back.
  `SafetyInv` itself does not hold while deployments interfere, which is why
  `Sound` keeps only its part that does.
* **`DeployProofs`**. `TypeCorrect` on the way: `apply` stays inside the
  manifest and plans inside what is manifested, for any number of processes.
  `ReleasesAreIsolated`, under the assumption `NamesAreScoped` (two manifested
  objects of one name belong to one instance): the invariant `Own` says that
  what a process is about to look up or delete belongs to the instance of its
  manifest, which listing by name (`LookUp`) preserves only because of the
  assumption. `DeploySharedName.cfg` and `DeployJoinedNames.cfg` are what happens
  without it. `SuccessDoesConverge`, for any processes, under
  `OneKindEach` and `FrontendsAreKnown` (what a manifest and the others of its
  instance may be named): the invariant `Converging` follows a
  process through its commands, in all that is not in `disturbed`. What stands in the way of the workloads looked
  up so far is in `doomed` (`Planned`); after the deletions nothing does, and
  what apply adds is no new obstacle (`Cleared`); what was applied is live and
  spared by pruning (`Wanted`); what is obsolete is in `doomed` or a command
  failed (`Pruned`). `OnlyRacesDoHarm` needs `Converging` for what is applied and
  `AllCondemned` for what is deleted: everything in `doomed` is in the way of a
  workload looked up, or was changed by another process. `OneKindAtATime` for one deployer, which is never
  disturbed, adds `KindsAreScoped`.
  What is deleted, and when, is about one deployer as well: `Condemned` says of
  everything in `doomed` why it is there at this point of the program (in the
  way of a workload, a template no longer declared, of another frontend), and
  with `Converging` that what replaces it is live. From both (`Deleting`):
  `FrontendsAreReplacedFirst` (if routing objects are no workloads,
  `RoutingIsNoWorkload`) and `UsedTemplatesStay` (if a template is named by
  workloads of its own instance only, `ClaimsAreLocal`, and the instance keeps
  the names of its roles, `RolesAreKept`: pruning knows the workloads that
  its manifest names). `MCDeploy` assumes `OneKindEach`, `FrontendsAreKnown`,
  `KindsAreScoped`, `RoutingIsNoWorkload` and `ClaimsAreLocal` of every manifest
  that the runs use, so TLC checks that they can hold, and `RolesAreKept` of all
  but those of `DeployRenamed.cfg`, the run that is what happens without it.
  For what is rendered little of this is left to trust.
  `RenderedManifestsAreKnown` proves `OneKindEach`, `FrontendsAreKnown` and
  `ClaimsAreLocal` of the manifests that `Emit` makes of any set of specs, with
  any roles and with names of different releases that may meet, if each spec is
  `Renderable`: its own workloads have names of their own, and none is called
  like the two Deployments that Manifesto adds to it. `KindsAreScoped` and
  `RoutingIsNoWorkload` compare releases, and follow if no workload of one
  release is called like the picker or the controller of another (`AllApart`):
  role `b-infpool-epp` of release `a` and the picker of release `a-b` are called
  alike, and so is whatever sets `workload_name: a-infpool-epp` like the picker
  of `a`, which nothing in the code prevents. `ManifestIs` says which objects a
  manifest has (`FlattenIs` is about the fold behind `FlattenSeq`, by induction
  along `NatSet`), `ObjectsAre` what each kind of object is named and labelled.
  The `Rendered...` theorems put both ends together: convergence and harm by
  races only for all specs; kinds and the order of cleanup for those that are
  `AllApart`; templates for those of one instance with the same workload names;
  isolation for those without `workload_name` of which no instance begins with
  another one and a hyphen (`NoPrefixes`). The last one rests on
  `NameTellsInstance`: of two instances that put one name together, one begins
  with the other. `MCDeploy` assumes `Renderable` of every spec that the runs
  use, `Apart` and `PrefixFree` of the two releases that share a namespace, and
  that the cases above are excluded by them. The code checks that role names are
  unique; it checks neither that two `workload_name`s differ nor any of the other
  conditions, and a release deployed with a profile of a longer Gateway class may
  shorten the Gateway's name, which here stays the same.
* **`TeardownProofs`**. `TypeCorrect`, and `SuccessIsTrue` under
  `IdentityIsKept` (every source of the identity names the deployed one): `Seen`
  says that what is live, of a type already answered and not created since was
  found, so that a report of success after all the types answered empty is
  true. `TeardownIdentity.cfg` is what happens without the assumption.
* **`CrashMarkerProofs`**. `TypeCorrect`; `SoundCaches`, in every setting,
  by the invariant that a dirty cache of this pod implies its marker or is
  excused (`Covered`), with what vLLM and the handler still write;
  `OrderlyRunsOnSoundCaches`, the documented promise as it stands: where
  containers are not ended with SIGTERM, `rm` works and no worker outlives vLLM
  (`Orderly`), nothing is ever excused; `RestartClears` by `Restarting`, which
  follows `todo` through the loop of `cleanup_compile_caches` and needs no
  assumption about `rm`.
* **`SlurmBatchProofs`**. Five invariants from one `IInv`, for any number of
  roles: `TypeCorrect`, `DirectoryOutlives`, `AtMostOneSurvives`,
  `NoLeakOfItsOwn`, `StatusIsTrue`. The invariant ties `pids` to `next` (what
  was forked and not recorded is `next`, and nothing after it was started, so that
  a proxy whose hosts cannot be read is told from one that runs), says what no longer runs at each
  command of the handler, and where a status can have come from.
* **`EndToEndProofs`**. `TypeCorrect`, `OnlyAnsweredTestsPass`,
  `NoSilentLeftovers`, `OthersUntouched`, for any roles and faults: who owns
  the namespace at each `pc`, and that a zero result was read from a Job that
  succeeded.
* **`RenderProofs`**. Every invariant of the run, for every spec, profile and
  workload that pydantic lets through (`RequestsAssumption`,
  `WorkloadsAssumption`). `RanksPlaced`: for every TP, PP and DP size and every
  number of nodes that validation accepts, the ranks fill the nodes exactly and
  each is served once. The arithmetic (what the divisions of `parallelism.py`
  give when `Placeable` holds) is in lemmas about `Layout`; the invariant is
  that defaulted roles stay well formed (`SpecIsSound`) and that every plan was
  made of a placeable one (`PlansAreSound`). `TypeCorrect`: plans follow roles,
  and what is rendered follows plans.
  `AddressedAreServed`, `PickedAreServed`, `StepsAlwaysFit` and `PortsBoundOnce`
  share the invariant `Made`: the defaults that later steps rely on are in
  place at each stage (`RolesAreServed`), every plan is `Plan` of its role
  (`PlansAreMade`), and what is rendered has passed the checks of its backend
  (`RenderedIsChecked`). What a plan implies is then a chain of lemmas: the
  ports served on a node are `backend` ports, all of them, on the nodes with an
  API and nothing elsewhere; the proxy moves them to the public ones; a Service
  or a pool selects what its labels say. `PortsBoundOnce` takes nodes of at most
  100 GPUs (`NodesAreSmall`): with more, the 101st rank's port is that of the
  supervisor (8100), and the code has no check. `StepsAlwaysFit` adds up, per
  node, tasks, proxies and router, of cardinalities of tasks on a node.
  `LoweredAlwaysFits` adds `EntriesAreMade` (what is rendered is `Entry` of a
  plan or of a workload that `CanLower`) and the lemmas about `ClaimsFit`:
  attaching a claim that is `Free` keeps names unique, uses declared and
  templates rendered. `PathsAlwaysMounted` needs no invariant.
* **`CatalogProofs`**. All that the run checks, and `TypeCorrect`, for any
  names, bundled tree, drafts and number of commands; chains of any length.
  Both recursive definitions (`Flat`, `CopyPlan`) are functions on
  `0 .. Cardinality(Paths)`, each value made from the one before. The lemmas say
  that such a function exists and satisfies its equation (`LoadIs`, `PlansAre`);
  facts about every level are inductions, stated as a set of numbers that has 0
  and with each number the next (`NatSet`, from the well-foundedness of `<`).
  `PlanIs` is the main one: the plan of a bundled model that is valid ends with
  it, has only parents that the user lacks, each once and directly before the
  model that needs it. That no file is in it twice is by `Depth`, how many files
  the meaning of a model takes, which is less for a parent. The invariant `IInv`
  ties files to their history (`Imported`, `Told`, `Copied`), says that what is
  left to copy is absent and that each parent is there or next (`Planned`), and
  what is in the editor (`Editing`). `CopiesAreNeutral` follows by comparing
  both trees, level by level, with the bundled one (`CopiesMean`): when every
  file is a copy whose parent is there, a name means what it means bundled,
  before the step and after it.

Only model-checked: `EventuallyReleased`, `ReleasedAgain`, `AnyExitEndsAll`,
`SignalEndsScript` and `AlwaysEnds`, since liveness is out of the prover's
reach.

## Where code and documentation, or two parts of the code, disagree

Met while modelling, beside the counterexamples above; the models exclude these
cases by a named assumption or operator, or do not reach them.

* On SIGTERM `trap on_exit EXIT` (`launch.py:123`) runs the handler beside a
  running vLLM and removes the marker; if `$?` is 0 there, without clearing.
  README.md:748-750 says that model pods clear their caches "after a failed
  process exit, or when the same container restarts after terminating without
  running its exit handler", and leaves out this third case
  (`CrashMarkerHandler.cfg`).
* Names join instance and component with a hyphen (`instance.py:51`), so that
  releases `a` and `a-b` can have objects of one name, as can `workload_name`
  and the picker or the controller of any release; README.md:1083 says that
  every rendered object is scoped by the instance identity
  (`DeployJoinedNames.cfg`, `DeploySharedName.cfg`).
* `backend_port_base` without `routing_proxy`: vLLM listens on the backend
  ports while pool, Service and annotation use the public ones
  (`Serving!PublicIsServed` excludes it).
* Explicit port bases are not validated: two may overlap
  (`NoPortBoundTwice` is claimed for `DefaultBases`).
* Role names that differ only in what the slug of a name drops, or equal values
  of `workload_name`, render two objects of one name (`JobsAssumption`).
* Host caches with `shared_volume`: the log root lies on a path that is not
  mounted (`LogsAreReachable`).
* `$delete` nested in a mapping that the base lacks stays a literal value
  (`overrides.py:52-63`).
* The cache variables of a pod override what the role sets (`resolve.py:158-166`).
* `export X=$(scontrol ...)` hides a failure of `scontrol`; the program that
  reads the list refuses an empty one (`slurm_routing.py:168`).
* A `create namespace` that took effect and failed leaves the namespace
  although README.md:1078 says it is deleted (`LeftoversAreReported` says that
  the status is not 0). One `kubectl wait` that was killed is masked by the
  others' zeros, since the largest status counts (`workflow.py:1492`):
  `PassedMeansAnswered` shows that the test does not pass on it.
* `config edit` skips parents the user already has, so that a model may change
  meaning when it is copied below them (`CopyingIsNeutral` is claimed while
  every file is a complete copy); a copy cut short leaves a parent that later
  edits keep; copied parents are not updated by an upgrade.
* `config edit foo.yml` opens `foo.yaml` when both exist, while other commands
  resolve `foo.yml`; an import to a name that the user has with the other
  suffix shadows it or is shadowed without `--force`; files of the working
  directory count in `resolve_catalog_path` and not in `catalog_entries`.

## What is not modelled, and what is simplified

* `preflight_workloads` and `require_hf_token` read the API server's types,
  queues and device classes: here they pass or raise. They change nothing.
* A request is carried out when it is made: one delayed at the API server past
  its client's timeout would take effect later than here.
* The two lookups of one workload (Deployment, LeaderWorkerSet) are one step.
* Within a rollout, surge pods of a Deployment are not modelled; a pod is in
  the fleet of a workload or not.
* `OneKindPerName` is claimed for one deployer. For two the code promises
  nothing: each may see the other's kind absent.
* Requests that arrive between the last scrape and the scale-down are lost by
  design; `ShutdownNeedsEvidence` says the window is one check.
* `Render`: sidecars, bootstrap, resource requests other than those a Slurm
  step is checked against, and the arguments vLLM is passed through; scorers
  and weights of the picker; expressions in values (`equations.py`), which are
  evaluated before and have no state; profiling and model sources.
* `SlurmBatch`: the unrouted script is one `srun` that replaces the shell and has
  nothing to clean up. Submitting is one `sbatch`, tried once: what a lost answer
  leaves is a job in the queue, where the model begins. `squeue` and the listing
  only read.
* `Catalog`: the cluster and routing catalogs work alike without `extends`; the
  working directory is not looked at; `validate`, `list` and `path` only read.
* The interactive picker of `stop`, `servers`, argument parsing, completion and
  printing: input and output without a state of their own.
* Presets and dashboards: data.

## Plan

Done, in this order: IdleShutdown with InstanceRelease, Deploy with Emit,
Teardown, CrashMarker, SlurmBatch, EndToEnd, Render with Layout and what is
between, Catalog, IdleRedeploy, and the proofs above: every safety property of
a passing run is a theorem. Next, most important first:

1. **Progress without liveness**: for `SlurmBatch` and `EndToEnd`, measures that
   every step but the environment's lowers, as action properties, so that what
   `AnyExitEndsAll` and `AlwaysEnds` claim rests on the prover except for the
   fairness.
2. **Teardown with Deploy**: one namespace for both, where a deployment applies
   what a teardown is listing; each is proved alone.
3. **Emit**: names of more than 63 characters, which a digest shortens, and a
   `Gateway` name that depends on the profile, as `gateway_name`
   truncates it, and what that leaves behind when the profile changes.
