# TLA+ verification of the MS2M StatefulMigration operator

The operator migrates a stateful, message-driven pod between nodes without
stopping its service: it checkpoints the pod with CRIU, restores it on another
node, and lets the restored process replay from a secondary queue the messages
that arrived meanwhile. For a StatefulSet pod it then performs an *identity
swap*, so that the final pod has the source's name and is owned by the
StatefulSet again. The correctness of that swap rests on the order of about
forty calls to a broker, the API server and node agents, made by a reconcile
loop that can fail, retry or restart between any two of them, next to a
producer and up to three consumers that never stop. The project models the whole
life of a migration, the swap at its end, and the programs that carry a
checkpoint to the target node.

File and line references are to `internal/controller/statefulmigration_controller.go`
unless they name another file.

## 1. Inventory

### 1.1 Components

| Component | State | Operations | Modelled by |
|---|---|---|---|
| Controller, phases Pending to Replaying (56-750) | `status.*` of the StatefulMigration, the shared broker client | `Reconcile`, `handlePending`, `handleCheckpointing`, `handleTransferring(ViaJob)`, `handleRestoring`, `handleReplaying`, `replayDrainCheck`, `transitionPhase`, `failMigration` | `Migration` |
| Controller, Finalizing without swap (752-910) | the same, plus the workload's owner | source deletion, affinity patch, owner reference removal, scale-up | `Migration` |
| Controller, Finalizing and identity swap (752-800, 919-2127) | `status.swapSubPhase`, `replacementPod`, `originalReplicas`, `phaseTimings`; pods; StatefulSet; Jobs | `handleFinalizing`, `handleIdentitySwap`, ten sub-phase handlers, `handleSwapFenceRollback` | `IdentitySwap` |
| Informer cache (external) | an earlier version of the StatefulMigration | serves every read of it | `Migration` (`versions`) |
| Broker client (`internal/messaging/rabbitmq.go`) | connection, channel, mutex | 12 methods of `messaging.BrokerClient` | `Messaging` |
| RabbitMQ (external) | queues, bindings, control queues | as the client uses it | `Messaging` |
| Consumer and producer (`eval/workloads/*.yaml`) | replay state, unacknowledged messages, application state | consume, control poll, queue switch | `Messaging` |
| StatefulSet controller, kubelet, Job controller (external) | replicas, pods, processes, Jobs | delete surplus pod, create missing pod, kill, start, run Job | cluster actions of `IdentitySwap`, `Migration`, `Transfer` |
| ms2m-agent (`cmd/ms2m-agent`) | temporary files, container storage | `/checkpoint`, `/registry-push`, `/local-load` | `Transfer`; `/local-load` by its answer in `IdentitySwap` |
| checkpoint-transfer (`cmd/checkpoint-transfer`) | none | build image, push or post | `Transfer` |
| Image builder, kubelet client, API types, mock, manager wiring | none of their own | I/O | see "Not modelled" |

### 1.2 Interactions

* The controller reads and patches the StatefulMigration through the API server
  and is re-run by requeue, by backoff after an error, and by watch events. All
  memory between two reconciles is in the status - except the broker client,
  which one process-wide object shares between all migrations.
* Controller and consumers talk through the control queues
  `ms2m.control.<pod name>`. The replacement has the *source's* pod name, hence
  inherits the source's control queue.
* The exchange fans every message out to all bound queues. Who gets a message is
  decided by which queues are bound when it is published, and which process
  consumes the queue afterwards.
* The StatefulSet controller reacts to `spec.replicas`, not to the migration; the
  kubelet ends and starts processes some time after the API object changed.

### 1.3 What is hard

1. **A reconcile is not atomic.** Each broker or API call may fail after any
   prefix of it took effect, and the next attempt starts from the last patched
   status, not from where the previous one stopped.
2. **The channel is process memory.** Only `handleSwapPrepare` connects. A restart,
   a channel-closing error (404 on inspect or bind) or another migration's
   `Close` leaves later handlers without a channel.
3. **Depth is not emptiness.** `GetQueueStats` sees ready messages only.
4. **Errors that are logged and skipped** (END_REPLAY, queue deletions, the whole
   rollback, the final scale-up of the cutover) next to errors that are returned.
5. **Rebinding order** under a live producer: buffer bound before primary
   unbound, primary rebound before buffer unbound.
6. **Pod names as identity**: the name must be free for the replacement and at
   no moment free for the StatefulSet controller.
7. **Reads lag, writes do not.** A handler may run on a phase that is already
   over; its merge patch is applied to the current object without a conflict.
8. **Image tags as identity**: an image is found under the name of a pod or a
   container, whoever published it and whenever; an agent finishes work whose
   client has given up.

`PROJECT.json` lists every hazard with its line and the properties about it.

### 1.4 What makes each component correct

* Broker use: new messages always have a queue that somebody will consume; a queue
  is not deleted while it is needed.
* Swap: no message published since the swap began is missing from the
  replacement's state, unless the code chose the lossy path; the drained sets
  are finite; the replacement ends on the primary queue.
* Cluster: the pod name is reserved, a serving pod always exists, the replica count
  comes back.
* Life cycle: phases in order, ends that are ends, and at every moment the source,
  the target or an image to restore from; every migration ends.
* Transfer: a finished transfer has published the migration's own, whole
  checkpoint; files do not pile up without a failure.

## 2. Modules

| Module | Contents |
|---|---|
| `Messaging` | Exchange, queues and control queues; every client method the controller calls, with a success and an error form; producer; the three consumer processes |
| `Migration` | EXTENDS `Messaging`; the migration object with its cache, pods, StatefulSet, Deployment, Job, controller; one action per external call of each handler |
| `MigrationLifecycle` | the abstract specification `Migration` implements: phases, strategy, and whether source, target and image exist; with the proof of its guarantee |
| `IdentitySwap` | EXTENDS `Messaging`; the sub-phases of the swap in the same style |
| `Transfer` | several migrations' transfers: controller, agents, transfer Jobs, registry, the nodes' stores, temporary files |
| `MCMigration`, `MCIdentitySwap`, `MCTransfer` | root modules of the TLC runs |
| `Messaging_types` | lemmas on the types of the broker, used by the next ones |
| `IdentitySwap_proofs` | types of the swap; route, identity, queue, routing, mini-replay, drain and replica invariants |
| `IdentitySwap_delivery` | messages and release of the replacement, with a reliable broker and API |
| `Migration_lag` | types, finality of Completed and the cleanup, for every lag of the cache |
| `Migration_delivery` | survival of the state and no skipped message, for every lag and any faults |
| `Migration_proofs` | `Migration` implements the life cycle, for current reads |
| `Transfer_proofs` | types, images and files of the checkpoint transfer |

Faulty variants of some actions ("a variant of ... with a bug") stand next to the
actions they replace; they are used to see that the properties can fail.

### 2.1 `Messaging`

A message is its publication number. Since the fanout publishes in increasing
order and RabbitMQ requeues at the old position, a queue is the *set* of its
messages with the least one at its head. The queues are `primary`, `replay` (the
secondary queue, which `handleSwapPrepare` reuses as the swap queue under the
same name) and `buffer` (the fence buffer). The processes are `source`, `shadow`
and `replacement`; source and replacement share the control queue `ctrl["src"]`.

Every client method has two forms. `Succeeds(E)` needs an open channel. `Fails(E)`
is a method on a closed channel, which changes nothing, or a `broker` fault, after
which the effect `E` may or may not have reached the broker and the channel is
closed. Methods made of several AMQP calls (`CreateSecondaryQueue`,
`DeleteSecondaryQueue`, `DeclareAndBindQueue`) fail after any prefix. Inspecting
or binding a queue that does not exist (404) closes the channel, as AMQP does.
Control messages are unconfirmed publishes: `SendControlMessage` may succeed and
lose the message, which counts as a broker fault.

`Deliver`, `Process`, `ReadControl` are `callback`, the acknowledgement and
`check_control_messages` of `consumer.yaml`. `on[p]` is the queue the process
consumes, `want[p]` its `replay_state`. A consumer that switches queue puts back what
it holds: pika's `basic_cancel` (`consumer.yaml` 145) rejects and requeues the
deliveries it has not dispatched, so the drain of the prefetch buffer in the next
line finds none of them. A consumer that has processed them all before it reads its
control queue is the other case. The history variable `returned` has the messages put
back into another queue than the primary one, which is deleted later.

### 2.2 `IdentitySwap`

`pc` is the next external call of the running reconcile (`idle` between two). An
action is one call with the local computation up to the next one. `Reconcile` is
`handleFinalizing` up to its first call, `Dispatch` the switch of
`handleIdentitySwap`; then

| Sub-phase | Handler | Actions |
|---|---|---|
| `""` (PrepareSwap) | `handleSwapPrepare` 978-1078 | `Prep*` |
| ReCheckpoint | `handleSwapReCheckpoint` 1080-1136 | `Ckpt*` |
| SwapTransfer | `handleSwapTransfer`, `...ViaJob` 1138-1276 | `Xfer*`, `JobEnds` |
| CreateReplacement | `handleSwapCreateReplacement` 1278-1510 | `Create*`, `ScaleUpTo` |
| MiniReplay | `handleSwapMiniReplay` 1512-1578 | `Mini*` |
| TrafficSwitch | `handleSwapTrafficSwitch` 1581-1653 | `Ts*` |
| PreFenceDrain | `handleSwapPreFenceDrain` 1655-1782 | `Pre*`, `Decisions` |
| ExchangeFence | `handleSwapExchangeFence` 1784-1850 | `Fence*` |
| ParallelDrain | `handleSwapParallelDrain` 1855-1950 | `Drain*` |
| (rollback) | `handleSwapFenceRollback` 2070-2127 | `Rb*` |
| FenceCutover | `handleSwapFenceCutover` 1952-2068 | `Cut*` |

`Broker(l, ok, next, err, onErr)` is a broker call at label `l`: `onErr = "idle"`
is an error that is returned (the reconcile is retried), `onErr = next` one that
is logged. `Patch` is a status patch whose failure is returned, `PatchIgnored` one
whose failure is not looked at. `Crash` restarts the controller: pc, in-memory
values and channel are lost. `OtherMigration` is a reconcile of another
migration that connects or closes the shared client.

Init is the moment `handleReplaying` has patched phase Finalizing: source on the
primary queue, shadow on the replay queue, both queues drained, nothing else
done. Three history variables carry no control: `swapFrom` (how many messages
were published when the swap queue was bound), `lossy` (the code took the
Cutoff path, rolled the fence back, or hit the buffer timeout) and `outlived` (the
messages the shadow's process consumed after its pod was deleted).

`DeleteSource` and `DeleteShadow` delete a pod with grace period 0: the API object is
gone, the handler goes on, and the process runs until `KubeletKill`, at any later time.

### 2.3 `Migration`

The migration object is the sequence `versions`: the last element is what the API
server holds (`server`), the first what the informer cache serves (`cached`), and
`MaxLag` bounds the distance. `Reconcile` and `Refetch` read `cached` into `m`;
`Patch` is a merge patch: it changes the named fields of `server`, not of what was
read. `PendingDetect` is the one `Update`, which conflicts when `m` is not
`server`. A watch event (`CacheSync`) puts the key into the work queue. Where a
handler ends is a label: `refetch` is `Requeue: true` inside the phase-chaining
loop, `requeue` an error or a delay, `fail` the call of `failMigration`, `idle` the
end without a requeue.

| Phase | Handler | Actions |
|---|---|---|
| `""` (`New`) | `Reconcile` 75-82 | `Accept` |
| Pending | `handlePending` 130-227 | `Pending*` |
| Checkpointing | `handleCheckpointing` 232-274 | `Ckpt*` |
| Transferring | `handleTransferring`, `...ViaJob` 280-424 | `Xfer*`, `Push`, `JobEnds` |
| Restoring | `handleRestoring` 430-617 | `Restore*`, `PodStarts`, `Sts*` |
| Replaying | `handleReplaying`, `replayDrainCheck` 628-747 | `Replay*` |
| Finalizing | `handleFinalizing` 752-910 | `Fin*` |
| any | `failMigration` 2153-2171 | `FailMigration` |

The target of a Sequential migration is process `replacement` in a pod with the
source's name (`podSrc = "starting"`, `"running"`), that of ShadowPod is process
`shadow`. Init is a migration just created: its source may be running, terminating
or missing, and a shadow pod of an earlier migration may be in the way. A
ShadowPod migration of a StatefulSet pod takes the path of
`identitySwapMode: None` here; with a swap it continues in `IdentitySwap`, whose
Init is the entry of Finalizing.

`MigrationLifecycle` knows six variables. Its steps are the arrows of the state
diagram (README.md 60-80 of the repository) with their conditions - Checkpoint
needs a source, Restore a running target, a Sequential target starts only when
the source is gone - and the few moments at which the source may stop.
`Migration` maps to it by `phase <- server.phase`, `source <- on["source"] # "off"`,
`target <- podSrc = "running" \/ podShadow = "running"` and so on.

### 2.4 `Transfer`

Per migration: the controller's view (`ctl`), the Job and how many pods it has run,
and `work`, the set of things transfer programs are doing: an upload served by an
agent (`ServeHTTP`), a push by an agent (`registryPush`), a push by the Job's pod
(`registryTransfer`). Work goes through `receive`, `build`, `store` to `ok` or
`error`, and every step may fail (`StepFails`). `client` says who waits for it: when
the controller's 60 seconds are over, the controller restarts or the Job's pod is
killed, the work of an agent goes on with `client = "gone"`. `registry` and `store`
map tags to archives, as the code names them: `<repository>/<pod>:checkpoint` and,
on each node, `localhost/checkpoint/<container>:latest`. `files` are the uploads in
the agents' storage directories. An agent serves the Service name when it is up;
`JobPod` picks any of them, as `directTransfer`'s URL (328) does. A Registry migration
takes the Job when its source node has no agent, or when the list of agents cannot be
read (`FallsBack`). An error of the Job's creation fails the migration
(`CreateJobFails`, 398); a failed read of the Job is retried (404), and a failed Job is
never looked at (422). Any migrations may be in Transferring together, two of one pod
included.

### 2.5 Abstractions and assumptions

* Reconciles are serialized (controller-runtime's default of one worker, which
  `SetupWithManager` does not change).
* In `Migration` only the migration's own object is read from a lagging cache; pods,
  StatefulSet and Job are read as they are. In `IdentitySwap` all reads are current.
* `"New"` and `"Auto"` stand for the empty phase and the empty strategy.
* `Migration` keeps the start keys of phaseTimings that a handler looks at; `targetPod`
  follows from the strategy and `statefulSetName` from the owner, and the failure
  for want of a container name (161) is left out. `expired` says that the limit of
  the timer in force - cutoff, or 30 s without progress - has passed.
* In `Migration` an agent may have pushed the image although its answer failed. A
  Deployment may start new pods anywhere; they are not modelled.
* A failed API call was not applied. A failed broker call may have been.
* A nil channel and a broken one are one value: every method returns an error on
  either.
* `queue.unbind` and `queue.delete` of something absent succeed.
* The stall timeout and the maximal time of a drain are one flag `expired`, set by
  `Tick` at any time after a timer was started. Durations, backoff, stall keys and
  the other phase timings are left out. The net rate of `handleSwapPreFenceDrain`
  is a comparison of depths; `Decisions` gives the outcomes the arithmetic allows.
* `StsScaleDown` removes the pod and its process in one step: the StatefulSet controller
  deletes with the grace period, and the pod is gone when its process has ended.
* In `Migration` the kubelet answers a successful checkpoint with the path of the
  archive. The code goes on with an empty `CheckpointID` when the answer names none (262);
  the kubelet of this API always names one. In `IdentitySwap` (1112) the same answer
  leaves the sub-phase as it is, and is a branch of `CkptCall` that counts as a fault.
* At zero replicas the StatefulSet controller leaves the ownerless replacement
  alone, as the comment before line 1482 says.
* A process restored by CRIU keeps the environment of its checkpoint, so whether
  the replacement waits for a control message or goes on with the queue of its
  image is a nondeterministic choice.
* Service label patches, pod specifications, image names and events are left out.
* The guard at 1792 against a second fence is not a branch of the model: the fence
  time is patched together with sub-phase ParallelDrain, so ExchangeFence never
  sees it set. The sub-phase name "PrepareSwap" is never assigned by the code;
  it is the empty sub-phase.
* An empty pod list for the agent of the target node is an error of the load call.

## 3. Runs

Deadlock is checked in every run (an ended migration with nothing left to do
stutters through `Done`).

| Run | Instance | Checks | States |
|---|---|---|---|
| `migration_lag` | cache up to 2 versions behind; Auto strategy, StatefulSet and Deployment, Drain and Cutoff, Job; 1 message, 1 broker fault, failed Job or restart | `TypeOK`, `CompletedCleanup`, `NothingSkipped`, `StateSurvives`, `CompletedIsFinal` | 1.4 M |
| `migration_live` | current reads; all strategies and modes, StatefulSet and Deployment, agent; 1 message, 1 broker, API or agent fault; fair | `FailedKeepsSource`, `Ends`, `ImplementsLifecycle` | 0.24 M |
| `transfer` | a Direct and a Registry migration with one container name, 2 nodes, an agent on each, 2 pods per Job, 3 faults; fair | `TypeOK`, `OwnImage`, `FilesAccounted`, `TransferEnds` | 0.25 M |
| `fence` | Exchange-Fence, 2 messages, no faults; fair | `TypeOK`, `NothingForgotten`, `DrainIsFinite`, `ReplacementReleased`, `Converges` | 0.38 M |
| `one_fault` | Exchange-Fence, 1 message, 1 broker fault, API fault, failed Job or restart, 1 call of another migration | `RouteOpen`, `ReplicasRestored`, `CompletedRouting`, `SwapQueueAlive`, `IdentityReserved`, `ServiceUp` | 0.73 M |
| `cutoff_live` | Cutoff, 1 message, fair, 1 API fault | `MiniReplayFixedSet`, `Converges` | 0.18 M |
| `v_rollback` | as `fence`, safety only | `MiniReplayFixedSet` is violated | |
| `v_cutover` | as `fence`, safety only | `ZeroStateGap` is violated | |
| `v_restart` | fair, 1 restart | `EventuallyCompleted` is violated | |
| `v_transfer` | agents on both nodes, no fault | `TargetHasImage` is violated | |
| `v_failed` | cache 1 version behind, Sequential, 1 API fault | `FailedIsFinal` is violated | |
| `v_zeroloss` | Sequential, Drain, 1 message, no fault | `NothingLost` is violated | |

**Bounds.** `MaxMsgs` is what makes queues differ. One message is enough for the
control and cluster properties. The rollback of the fence needs two (a swap queue
that drains and is not empty at the decision). Three let one message be in each of
primary, swap queue and buffer at the same time, the largest configuration
`NothingForgotten` distinguishes; the invariants of `fence` but `ReplacementReleased`
pass with three as well (4.8 M states, 3 minutes), and the theorems hold for any
number. `MaxFaults = 1` puts one fault at every place in
turn. With `MaxLag = 2` the start mark of a phase and the transition out of it can both
be unseen. In `transfer` three faults fail both pods of a Job and one more
thing. `Replicas = 1` is the operator's normal case; two is where losing the count
shows. `Prefetch = 1`: a second unacknowledged message behaves as the first.
`Loaders` says whether the node has an agent (the fast path of
`handleTransferring` and `handleSwapTransfer`), or a Job loads the image, or
either may be met from one reconcile to the next; nothing after SwapTransfer looks
at it, so the larger runs take one of them and the liveness runs both. `MaxOther =
1`: another migration's `Close` has the effect of a lost channel, which faults
cover as well. Every bound is a named constant, and the theorems of section 4 hold
for all their values but those they name as hypotheses.

**Fairness** (`FairSpec`). Weak fairness of the controller (controller-runtime
requeues after every result and every error), of `Tick` (time passes), of the
cluster actions (kubelet, StatefulSet controller and Jobs act eventually) and of
each consumer. The producer and all faults are unfair: they may stop at any time,
and end because they are bounded. `Converges` thus says: once the producer is
quiet for long enough the swap completes. In `Migration` the
controller, the cache's watch, time and the cluster are fair, but a consumer may
hang: it is fair only in mode `NoLimit`, where nothing else ends the replay. `Ends`
thus includes the cutoff and the stall detection. Nobody has to remove a leftover
shadow pod, so `Ends` excepts it. In `Transfer` the controller, the Job controller
and every program proceed, and a stopped agent is started again, as a DaemonSet's
pod is. Fault actions are never fair.

**What the passing runs show.** With a cache that lags, handlers do run twice and on
phases that are over; still a completed migration never leaves Completed, has its
replica count and its Deployment in order, and the state of the pod is at every
moment in the source, the target or an image. In Sequential no message since the
replay queue was bound is skipped (`NothingSkipped`): each is in the target's state,
in its hands, or in a queue it will consume, unless the target put it back into the
replay queue on END_REPLAY. With current reads the handlers
implement the life cycle, and every migration ends unless it waits for somebody
else's pod. Failed attempts, cut uploads and late agents never make a transfer
end with a wrong or partial image, as long as the tag is the migration's own; and a
transfer ends with two exceptions, which the controller does not notice: the Job failed,
or the agent of another node took a Direct upload (`Misplaced`), for which the target pod
waits in Restoring.

Without faults the Exchange-Fence path forgets a message published since the swap queue
was bound in two ways only: a consumer put it back into a queue it was leaving
(`returned`), or the shadow's process took it from the primary queue after its pod was
deleted (`outlived`). That ParallelDrain looks at the swap queue only, and that the
shadow pod goes with messages left on the primary queue, loses nothing by itself: the
replacement has copies, or gets the rest after the rebind. That the two ways are taken
without any fault is shown by `v_cutover` and, for the first, below. Around any
single fault, no message is published into nothing, and a migration that
completes has restored its routing and - with one replica, where the default of
`handleSwapCreateReplacement` hides a lost count - its replica count.

**The limits of the properties.** `Ends` is violated with a Job that fails (422 never
looks at it) and with one restart between 466 and 471 (`OriginalReplicas` is
recorded, so the scale-down is never done). `ImplementsLifecycle` needs current
reads (`v_failed` is one of the steps a lagging cache adds) and, with
`Adopts = TRUE`, is violated between 857 and 874: the released target can be adopted
and deleted while the set is at zero; `StateSurvives` and `NothingSkipped` are
violated there for the same reason. `FailedKeepsSource` also needs current reads or no
fault: with lag 2 and one broker fault a stale handleReplaying writes Failed over
Finalizing, and handleFinalizing, run when the cache has seen Finalizing and not yet
Failed, deletes the source of the failed migration. `CompletedCleanup` is checked without API
faults, since the four writes of Finalizing only log theirs. `OwnImage` is about
tags that no other migration uses (`Sole`). `FilesAccounted` allows one left file per
fault *and Direct migration*: an agent that stops takes down every upload it serves,
so one fault can leave several files.

`NothingForgotten` and `ReplacementReleased` are about swaps without faults. TLC finds
`NothingForgotten` violated when another migration uses the client (`MaxOther = 1`), and
with one broker, API or crash fault. `ReplacementReleased` is violated with one crash or one broker fault (a lost or
failed END_REPLAY is logged at 1585 and 2029, and the queues are deleted all the
same), and `DrainIsFinite`, with two messages, with one crash. Further,
with the constants of `v_rollback`:

* one restart violates `NothingForgotten`: before the first entry of Finalizing,
  END_REPLAY and the queue teardown fail for want of a channel and are skipped
  "gracefully" (766), and `handleSwapPrepare` connects and reuses the queue the
  shadow still consumes;
* `ZeroDuplicates` is violated without a fault: a message published after the swap
  queue was bound (989) and processed by the shadow before the re-checkpoint is in
  the image and in the swap queue, although README.md:262 promises zero duplicates;
* `DrainedStaysDrained` is violated without a fault: `GetQueueStats` counts ready messages
  (`rabbitmq.go` 251), and a depth of 0 is held to mean "fully drained" (`rabbitmq.go`
  249-250). The message the replacement holds at that moment comes back when END_REPLAY
  makes it leave the swap queue, which is deleted next; the copy in the primary queue may
  by then be in the shadow's state;
* two replicas and one restart violate `ReplicasRestored`: the count is patched (1072)
  after the scale-down (1008), and the handler then reads 0; one API fault has the
  same effect. With one replica a default hides this, and two faults are needed.

### 3.1 Disagreements between code and comments

* `v_rollback`: the rollback rebinds the swap queue and sets the MiniReplay start
  key, so MiniReplay skips the block that would unbind the queue. The comment
  at 2103 says MiniReplay will unbind it. The drain then chases live traffic, and
  messages go to both queues.
* `v_restart`: no handler after `handleSwapPrepare` connects, so a restarted
  controller retries for ever. The design document (107-112) says each sub-phase
  continues.
* `v_cutover`: the cutover deletes the shadow pod with grace period 0 (1963-1966) and
  rebinds the primary queue in the next call (1978). The shadow's process, not yet killed,
  may take a message that only the primary queue has. README.md:262 promises zero state
  gap; the comment at 1960 relies on the shadow having "fully drained primary".
* `v_transfer`: Direct mode posts to the Service name (328), behind which all agents
  are; README.md:54 says the agent on the target node.
* `v_failed`: a reconcile with the phase from before `failMigration` writes its next
  phase over Failed (2146). README.md:79 draws Failed as an end; the comment at
  901-903 shows that the same was thought of for Completed.
* `v_zeroloss`: a message that waits in the primary queue when the replay queue is
  bound, and that the source takes after the checkpoint, is in neither. README.md:9
  and 264 promise that no message is lost.

README.md:76 of the repository draws an edge from Finalizing to Failed; no code
path of Finalizing takes it. A failed swap-transfer Job is never recreated
(1263), so the handler returns an error for ever.

### 3.2 Mutants

For each property of a passing run `PROJECT.json` names a faulty variant of one
action (next to the action it replaces) under which TLC finds it violated: an
unguarded teardown, an unbind in the wrong place, a rebind whose error is not
looked at, a control message to the wrong pod, a delete before the scale-down, a
relative scale-up, a failed Job created again, a failed poll taken for an empty queue, a target not waited
for, a truncated upload accepted, a file not removed.

## 4. Proofs

Proved by TLAPS for all values of the constants - any number of messages and
replicas, any number of faults of any kind, both modes - except for the hypotheses a theorem names. The
assumptions on the constants (`MessagingAssumption`, `SwapAssumption`,
`MigrationAssumption`, `TransferAssumption`) only say that the constants have their
types, that `Prefetch` and `Replicas` are not 0, that there is some way to load an
image, and that the set of migrations on the transfer programs is finite. Where a
theorem has a hypothesis on faults or on the environment, TLC finds the property
violated without it (section 3, "The limits of the properties").

Every safety invariant and every safety action property of the passing runs is
stated by a theorem.

### 4.1 Identity swap

In `IdentitySwap_proofs`:

* **`TypeCorrect`**: `Spec => []TypeOK`. `TypeOK` is inductive. Its four parts are
  treated separately: a lemma per group of actions for each part, resting on
  lemmas about the helpers (`ClientEffect`, `EffectTypes`, `HandlerCalls`,
  `StartType`). `DepthType` (a depth lies between 0 and `MaxMsgs`)
  rests on the cardinality theorems for intervals and subsets.
* **`RouteAlwaysOpen`**: `Spec => []RouteOpen`. Not inductive alone. `RouteInv` adds
  what the handlers establish and rely on within one reconcile: the buffer is
  bound when the primary queue is about to be unbound; the primary queue is bound
  at every later label of the cutover; and in the rollback, which goes on after
  a failed rebind, the primary queue is bound *or the channel is closed*, so
  that unbinding and deleting the buffer fail as well. The last disjunct is the
  reason the careless-looking rollback is safe.
* **`IdentityAlwaysReserved`**, **`ServiceAlwaysUp`**: `[]IdentityReserved` and
  `[]ServiceUp`. `IdentityInv` adds that a late sub-phase implies a running
  replacement and that the labels between scale-down and creation imply zero
  replicas. Hence a retry that finds the source pod gone never does so at replicas
  above zero, and the shadow is deleted only in late sub-phases.
* **`SwapQueueAlwaysAlive`**: `Spec => []SwapQueueAlive`. `QueueInv` ties the labels
  to their sub-phases: the only labels that delete the replay queue are those of
  the first pass of `handleFinalizing`, whose sub-phase is empty, and of the
  switch and cutover handlers, whose sub-phase is past the replay. A restart or
  another migration cannot move the label without going through the status.
* `ControlInv`, used by the next four, says the same of all handlers: the labels of a
  handler occur only in its own sub-phase.
* **`CompletedAlwaysRouted`**: `Spec => []CompletedRouting`. `RoutedInv`: outside the
  fence the primary queue is bound; after a rebind of the rollback that failed the
  channel is closed, and MiniReplay cannot move on without reading a depth. The
  property is about swaps during which no other migration used the client: its
  `Connect` would open the channel again.
* **`MiniReplayDrainsFixedSet`**: `[]MiniReplayFixedSet`, for `SwapMode = "Cutoff"`.
  `MiniInv`: the timer of MiniReplay is started only after an unbind that worked, or
  else the channel is closed. For Exchange-Fence the property is false (`v_rollback`).
* **`DrainAlwaysFinite`**: `[]DrainIsFinite`, without API faults and restarts
  (`ApiReliable`); broker faults, failed Jobs and other migrations may happen.
  `DrainInv` follows the order of the three rebinding calls of the fence and says
  that no fence timer is left over from an earlier attempt.
* **`ReplicasAlwaysRestored`**: `[]ReplicasRestored`, when `ApiReliable`, or without
  faults, or with one replica and one fault of any kind. `ReplicasInv` charges each
  lost count and each lost scale-up to a fault; a lost count is replaced by one
  (`handleSwapCreateReplacement`), which is right for one replica.

In `IdentitySwap_delivery`, for `Calm` constants (no fault but a failed Job, no other
migration on the client), both modes, any number of messages and any prefetch:

* **`NothingEverForgotten`**: `[]NothingForgotten`. `CalmInv`: the channel is open and
  the queues exist until they are over. `ProcInv`: which process runs and which queue it
  consumes; the processes of deleted pods may run on. `LossInv`: where the code may have
  chosen the lossy path. `FreshInv`: no replacement before the swap queue is bound.
  `FeedInv`: until the swap is over a queue of the replacement is bound, and a queue is
  deleted only when it is unbound and has nothing but messages a consumer put back.
  `DeliverInv`: every message since the swap queue was bound is in that queue until the
  replacement runs, and then in the replacement's state, in its hands, in a queue only it
  and a dying shadow consume, or in `returned` or `outlived`.
* **`ReplacementAlwaysReleased`**: `[]ReplacementReleased`. `StageInv`: a timer that
  makes a handler skip START_REPLAY is not left over. `ReleaseInv`: START_REPLAY and
  END_REPLAY are in the order in which the replacement will read them, also after a
  rollback has led through MiniReplay a second time.

### 4.2 Migration

In `Migration_lag`, for every lag of the cache:

* **`TypeCorrect`**: `Spec => []TypeOK`. Most steps leave the migration object alone
  (`OtherSteps`); for the others it is enough that a patch writes a well-typed status
  (`PatchTypes`) at the end of a sequence or in place of it.
* **`CompletedStays`**: `Spec => CompletedIsFinal`. That a
  stale handler cannot overwrite Completed is not evident: nothing in the code compares
  versions. `OrderInv` says why. A handler writes the phase after the one it read, and
  it reads the oldest version, so the versions the cache has not seen are never
  more than one phase ahead of it: `Ordered` says this of all pairs of versions,
  Failed aside, and `HandlerInTime` that the handler in progress is of the phase of
  every version or of the one before. So only handleFinalizing can be running when
  some version is Completed, and it has no exit that fails. Failed, by contrast, is
  written by any handler at any time, which is what `v_failed` shows.
* **`CompletedAlwaysClean`**: `[]CompletedCleanup`, without API faults (the four writes
  of handleFinalizing, 797-879, only log theirs). On top of `OrderInv`, `CleanInv` has
  four parts: what the versions agree on (`VersionsInv`), what the handler's copy has
  of it (`CopyInv`), who has scaled the StatefulSet (`ScaleInv`), and what each label
  of handleFinalizing has already done (`EndInv`).

In `Migration_delivery`, for every lag of the cache and any faults, with a StatefulSet
controller that leaves the released target alone (`Adopts = FALSE`):

* **`StateAlwaysSurvives`**: `[]StateSurvives`. `SettledInv`: strategy and checkpoint
  are written once and before the phases that need them, so it does not matter which
  version a handler reads. `ImageInv`: an image exists at every label, phase and
  replica count that relies on it, and before that the source pod is there.
  `TargetInv`: the target runs from the poll of its status (`restore.status`) on.
* **`NothingEverSkipped`**: `[]NothingSkipped`, for any number of messages. `PodsInv`:
  which process runs and which queue it consumes. `FlowInv`: until the target runs, the
  replay queue is bound and has every message since it was created; then each is in the
  replay queue or held; once Replaying has ended, each is in the primary queue, in the
  target's hands, applied or in `returned` - and nobody else consumes.

In `MigrationLifecycle` and `Migration_proofs`:

* **`Survival`**: the life cycle keeps its `StateSurvives`; the
  invariant `Progress` adds that an image is there from Restoring on and that there
  is no target without one.
* **`LifecycleImplemented`**: `Spec => ImplementsLifecycle`, for current
  reads (`MaxLag = 0`) and `Adopts = FALSE`, both hypotheses of the theorem. `Inv` has
  five parts: the
  handler's copy agrees with the server up to what it has not written (`CopyOK`), labels
  belong to their phase (`PhaseOK`), checkpoint and image exist when the phase says so
  (`SavedOK`), what runs in which pod (`PodsOK`), and where the source may be missing
  (`SourceOK`). Every step is then shown to be one step of the life cycle or a stutter
  (`SimPatches`, `SimReads`, `SimCluster`, `Stutter`).
* **`SourceKept`** (`[]FailedKeepsSource`, same hypotheses) follows from `Inv`. For
  current reads `StateSurvives` also follows from `Survival` through the refinement
  (`StateKept`).

### 4.3 Transfer

In `Transfer_proofs`, for any finite set of migrations, any nodes, agents, Job pods and
faults:

* **`TypeCorrect`**: `Spec => []TypeOK`. Not inductive: that a Job never runs more pods
  than its backoff limit allows needs `JobInv`, which relates the state of the Job to
  the pods it has run.
* **`ImageAlwaysOwn`**: `[]OwnImage`. `OwnInv` says that work past its first
  step carries the whole archive (`WorkInv`), and of each migration whose tag is its
  own (`Sole`) that every sign of success - an agent's or pod's answer, a succeeded Job,
  a controller in Restoring - comes after the publication of its checkpoint, and that
  the tag never stands for another one (`ImageInv`).
* **`FilesAlwaysAccounted`**: `[]FilesAccounted`. `UploadInv`: the Job of a
  migration has one upload at a time. `DebtInv`: the files without an upload, plus the
  uploads whose client is gone, are at most one per fault and Direct migration. The
  counting rests on the cardinality theorems of the library.

**Only model-checked.** Liveness under fairness (`Converges`, `Ends`, `TransferEnds`,
`EventuallyCompleted`) is outside TLAPS here. `ImplementsLifecycle` and
`FailedKeepsSource` are proved for current reads, which is also what their run
checks. The properties of the `v_` runs are violated and have no theorem.

## 5. Not modelled

* The inside of the image builder and of the kubelet client: pure I/O; their outcomes
  are branches of `Build`/`StepFails` and `CkptCall`.
* Two full migrations on one broker client: each would add the state of a whole
  `Migration`; another migration is the effect of its `Connect` and `Close`.
* A lagging cache during the identity swap, and lagging reads of pods and Jobs.
* Backoff intervals (`pollingBackoff`), recorded durations, conditions and events.
* The deletion of a StatefulMigration in the middle of a migration: the code has no
  finalizer, and the owner references leave the rest to garbage collection.
* `mock.go`: test double. `deepcopy.go`, `groupversion_info.go`: generated or wiring.
* `cmd/main.go`: wiring; that one client serves all reconciles is in the model.
* `PurgeQueue`: never called.
* The consumer's reconnect loop after a broker outage.
* Evaluation scripts, manifests, Terraform, papers.

## 6. Plan

Done: `Messaging`, `IdentitySwap`, `Migration` with `MigrationLifecycle`, `Transfer`,
and theorems for the safety properties of all of them.

1. An abstract handover specification - one consumer owns the stream, ownership
   moves once - that the fault-free Exchange-Fence swap refines, up to the messages of
   `returned` and `outlived`.
2. `FailedKeepsSource` for a lagging cache without faults.
3. The lag of the cache in `IdentitySwap`, and the original checkpoint as part of its
   initial state, so that the fallback of ReCheckpoint (1105) can be judged.
