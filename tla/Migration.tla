------------------------------ MODULE Migration ------------------------------
(***************************************************************************)
(* A StatefulMigration from its creation to Completed or Failed: Reconcile *)
(* with its phase handlers, for both strategies and every kind of owner of *)
(* the source pod.  An identity swap replaces the end of Finalizing; it is *)
(* module IdentitySwap.                                                    *)
(*                                                                         *)
(* pc names the next call of the reconcile in progress.  A reconcile reads *)
(* the migration from the informer's cache, which may be behind the API    *)
(* server, and writes merge patches to the API server.  In Sequential the  *)
(* target is process "replacement", in a pod with the source's name.       *)
(***************************************************************************)
EXTENDS Messaging

CONSTANTS
  MaxLag,      \* bound: versions the cache may be behind; 0: reads are current
  Strategies,  \* values of spec.migrationStrategy; "Auto": not set, to be detected
  Owners,      \* what may own the source pod
  Modes,       \* "Drain", "Cutoff", or "NoLimit": Cutoff with replayCutoffSeconds 0
  Loaders,     \* who may publish the image: an agent on the source node, or a Job
  Replicas,    \* the StatefulSet's replica count before the migration
  Adopts       \* TRUE: the StatefulSet controller adopts an ownerless pod of its own
               \* name, and so deletes it when the set is at zero replicas

ASSUME MigrationAssumption ==
  /\ MaxLag \in Nat
  /\ Strategies \subseteq {"Auto", "ShadowPod", "Sequential"}
  /\ Owners \subseteq {"StatefulSet", "Deployment", "none"}
  /\ Modes \subseteq {"Drain", "Cutoff", "NoLimit"}
  /\ Loaders \in {{"agent"}, {"job"}, {"agent", "job"}}
  /\ Replicas \in Nat \ {0}
  /\ Adopts \in BOOLEAN

VARIABLES
  versions,   \* the migration: Head is in the cache, the last one in the API server
  queued,     \* the work queue holds the migration's key
  owner, mode,
  podSrc,     \* the pod with the source's name
  podShadow,  \* the pod with the shadow's name
  owned,      \* the target pod has the migration's ownerReference
  replicas,   \* spec.replicas of the StatefulSet
  pinned,     \* the Deployment's template is bound to the target node
  job,        \* the transfer Job
  upload,     \* the archive the Job was given
  image,      \* the checkpoint image that can be pulled
  expired,    \* the time limit of Replaying has passed
  pc,         \* next call of the reconcile in progress
  m,          \* the reconcile's copy of the migration
  depth,      \* queue depth read in this reconcile
  since,      \* history: messages published when the replay queue was bound; -1: not yet
  lossy       \* history: the cutoff ended Replaying before the queue was drained

statusVars  == <<versions, queued, m, expired>>
podVars     == <<podSrc, podShadow, owned, replicas, pinned, job, upload, image>>
specVars    == <<owner, mode>>
histVars    == <<since, lossy>>
vars == <<mqVars, statusVars, podVars, specVars, pc, depth, histVars>>

Phases == {"New", "Pending", "Checkpointing", "Transferring", "Restoring", "Replaying",
           "Finalizing", "Completed", "Failed"}
Terminal  == {"Completed", "Failed"}
StartKeys == {"Transferring", "Restoring", "Replaying", "Finalizing"}
NoDepth   == MaxMsgs + 1
Images    == [ok : BOOLEAN, state : SUBSET Msgs, want : Queues]
NoImage   == [ok |-> FALSE, state |-> {}, want |-> "primary"]

\* What the handlers read back: phase, spec.migrationStrategy, deploymentName is set,
\* checkpointID, originalReplicas, the start times and lastDepth in phaseTimings.
\* targetPod follows from the strategy, statefulSetName from the owner.
Statuses ==
  [phase : Phases, strategy : {"Auto", "ShadowPod", "Sequential"}, deploy : BOOLEAN,
   ckpt : Images, orig : 0 .. Replicas, timers : SUBSET StartKeys, last : 0 .. NoDepth]

Labels ==
  {"idle", "refetch", "requeue", "fail", "accept", "pending.get", "pending.detect",
   "pending.record", "ckpt.connect", "ckpt.queue", "ckpt.call", "ckpt.status",
   "xfer.load", "xfer.mark", "xfer.create", "xfer.status", "restore.mark",
   "restore.get", "restore.orig", "restore.scaleDown", "restore.create",
   "restore.status", "replay.unbind", "replay.start", "replay.mark", "replay.poll",
   "replay.check", "replay.status", "fin.mark", "fin.endReplay", "fin.deleteQueue",
   "fin.source", "fin.pin", "fin.release", "fin.scaleUp", "fin.close", "fin.complete"}

server == versions[Len(versions)]
cached == Head(versions)

StatusTypeOK ==
  /\ versions \in Seq(Statuses) /\ Len(versions) \in 1 .. MaxLag + 1
  /\ m \in Statuses
  /\ queued \in BOOLEAN /\ expired \in BOOLEAN
  /\ owner \in Owners /\ mode \in Modes

ClusterTypeOK ==
  /\ podSrc \in {"none", "source", "terminating", "starting", "running"}
  /\ podShadow \in {"none", "stale", "starting", "running"}
  /\ owned \in BOOLEAN /\ pinned \in BOOLEAN
  /\ replicas \in 0 .. Replicas
  /\ job \in {"none", "active", "succeeded", "failed"}
  /\ upload \in Images /\ image \in Images

ControllerTypeOK ==
  /\ pc \in Labels
  /\ depth \in 0 .. MaxMsgs
  /\ since \in -1 .. MaxMsgs
  /\ lossy \in BOOLEAN

TypeOK == MessagingTypeOK /\ StatusTypeOK /\ ClusterTypeOK /\ ControllerTypeOK

\* The migration has just been created.  Its source pod may be gone or on its way
\* out, and a shadow pod of an earlier migration may still be there.
Init ==
  /\ \E s \in Strategies :
       versions = <<[phase |-> "New", strategy |-> s, deploy |-> FALSE, ckpt |-> NoImage,
                     orig |-> 0, timers |-> {}, last |-> NoDepth]>>
  /\ m = versions[1] /\ queued = TRUE /\ expired = FALSE
  /\ owner \in Owners /\ mode \in Modes
  /\ podSrc \in {"source", "terminating", "none"}
  /\ podShadow \in {"none", "stale"}
  /\ owned = FALSE /\ replicas = Replicas /\ pinned = FALSE /\ job = "none"
  /\ upload = NoImage /\ image = NoImage
  /\ pc = "idle" /\ depth = 0 /\ since = -1 /\ lossy = FALSE
  /\ chan = "closed" /\ exists = {"primary"} /\ bound = {"primary"}
  /\ ready = [q \in Queues |-> {}] /\ published = 0
  /\ ctrl = [n \in Names |-> <<>>]
  /\ on = [p \in Procs |-> IF p = "source" /\ podSrc # "none" THEN "primary" ELSE "off"]
  /\ want = [p \in Procs |-> "primary"]
  /\ inflight = [p \in Procs |-> {}] /\ applied = [p \in Procs |-> {}]
  /\ dups = {} /\ returned = {} /\ faults = 0

-----------------------------------------------------------------------------
(***************************************************************************)
(* How a handler makes a call and where the reconcile goes from there:     *)
(* "refetch" is Requeue: true, "requeue" an error or RequeueAfter, "fail"  *)
(* failMigration, "idle" a result without a requeue.                       *)
(***************************************************************************)
\* Recording the start of Replaying, or a decrease of the depth, restarts the limit.
Restarts(s) == pc = "replay.mark" \/ (pc = "replay.check" /\ s.last < m.last)

\* The API server holds s; its answer replaces the copy in memory, and the watch
\* event puts the key in the work queue when the cache gets to it.
Save(s) ==
  /\ IF MaxLag = 0
     THEN versions' = <<s>> /\ queued' = TRUE
     ELSE /\ Len(versions) <= MaxLag
          /\ versions' = Append(versions, s) /\ UNCHANGED queued
  /\ m' = s
  /\ expired' = (expired /\ ~Restarts(s))

\* A status patch that turns the API server's status into s.  onErr = next: the
\* error is ignored.
Patch(l, s, next, onErr) ==
  /\ pc = l
  /\ \/ Save(s) /\ pc' = next /\ UNCHANGED faults
     \/ Fault("api") /\ pc' = onErr /\ UNCHANGED statusVars
  /\ UNCHANGED <<mqRest, podVars, specVars, depth, histVars>>

Mark(l, key, next) ==
  Patch(l, [server EXCEPT !.timers = @ \cup {key}], next, next)

\* transitionPhase
Transition(l, s) == Patch(l, s, "refetch", "requeue")

\* A broker call ok/err at label l, and nothing else.
Broker(l, ok, next, err, onErr) ==
  /\ pc = l
  /\ \/ ok /\ pc' = next
     \/ err /\ pc' = onErr
  /\ UNCHANGED <<trafficVars, statusVars, podVars, specVars, depth, histVars>>

\* A call to the cluster at label l: E is its effect on podVars.
Cluster(l, E, next, onErr) ==
  /\ pc = l
  /\ \/ E /\ pc' = next /\ UNCHANGED faults
     \/ Fault("api") /\ pc' = onErr /\ UNCHANGED podVars
  /\ UNCHANGED <<mqRest, statusVars, specVars, depth, histVars>>

\* A read whose answer decides the next label.
Read(l, next) ==
  /\ pc = l
  /\ \/ pc' = next /\ UNCHANGED faults
     \/ Fault("api") /\ pc' = "requeue"
  /\ UNCHANGED <<mqRest, statusVars, podVars, specVars, depth, histVars>>

\* A push to the registry by the agent.
Push(l) ==
  /\ pc = l
  /\ \/ image' = m.ckpt /\ pc' = "xfer.status" /\ UNCHANGED faults
     \/ image' \in {image, m.ckpt} /\ pc' = "fail" /\ Fault("job")
  /\ UNCHANGED <<mqRest, statusVars, podSrc, podShadow, owned, replicas, pinned, job,
                 upload, specVars, depth, histVars>>

Sequential == m.strategy = "Sequential"
Target     == IF Sequential THEN "replacement" ELSE "shadow"

-----------------------------------------------------------------------------
(***************************************************************************)
(* Reconcile.                                                              *)
(***************************************************************************)
Entry(s) ==
  CASE s.phase = "New"           -> "accept"
    [] s.phase = "Pending"       -> "pending.get"
    [] s.phase = "Checkpointing" -> "ckpt.connect"
    [] s.phase = "Transferring"  -> "xfer.load"
    [] s.phase = "Restoring"     -> IF "Restoring" \in s.timers THEN "restore.get"
                                                                ELSE "restore.mark"
    [] s.phase = "Replaying"     -> IF "Replaying" \in s.timers THEN "replay.poll"
                                    ELSE IF mode = "Drain" THEN "replay.unbind"
                                    ELSE "replay.start"
    [] s.phase = "Finalizing"    -> IF "Finalizing" \in s.timers THEN "fin.endReplay"
                                                                 ELSE "fin.mark"
    [] OTHER                     -> "idle"

Fetch(l) ==
  /\ pc = l
  /\ m' = cached
  /\ pc' = Entry(cached)
  /\ depth' = 0
  /\ UNCHANGED <<mqVars, versions, expired, podVars, specVars, histVars>>

Reconcile == queued /\ queued' = FALSE /\ Fetch("idle")
Refetch   == Fetch("refetch") /\ UNCHANGED queued

Requeue ==
  /\ pc = "requeue"
  /\ pc' = "idle" /\ queued' = TRUE
  /\ UNCHANGED <<mqVars, versions, m, expired, podVars, specVars, depth, histVars>>

FailMigration == Patch("fail", [server EXCEPT !.phase = "Failed"], "idle", "requeue")

\* Phase "New" is the empty status.phase; Requeue: true is returned, not chained.
Accept == Patch("accept", [server EXCEPT !.phase = "Pending"], "requeue", "requeue")

-----------------------------------------------------------------------------
(***************************************************************************)
(* handlePending.                                                          *)
(***************************************************************************)
PendingGet ==
  Read("pending.get",
       CASE podSrc = "none"   -> "fail"
         [] podSrc # "source" -> "requeue"
         [] OTHER             -> IF m.strategy = "Auto" THEN "pending.detect"
                                                    ELSE "pending.record")

\* r.Update conflicts when the copy in memory is not the current version.  Nothing
\* the rest of the handler writes depends on the copy it re-fetches, a read that may
\* fail after the update.
PendingDetect ==
  LET detected == IF owner = "StatefulSet" THEN "Sequential" ELSE "ShadowPod" IN
  /\ pc = "pending.detect"
  /\ \/ /\ m = server
        /\ Save([server EXCEPT !.strategy = detected])
        /\ \/ pc' = "pending.record" /\ UNCHANGED faults
           \/ pc' = "requeue" /\ Fault("api")
     \/ m # server /\ pc' = "requeue" /\ UNCHANGED <<statusVars, faults>>
     \/ Fault("api") /\ pc' = "requeue" /\ UNCHANGED statusVars
  /\ UNCHANGED <<mqRest, podVars, specVars, depth, histVars>>

\* The Deployment is found through the ReplicaSet; an error of that read is ignored.
PendingRecord ==
  \/ Transition("pending.record",
                [server EXCEPT !.phase = "Checkpointing",
                               !.deploy = @ \/ owner = "Deployment"])
  \/ /\ pc = "pending.record" /\ owner = "Deployment"
     /\ Fault("api")
     /\ Save([server EXCEPT !.phase = "Checkpointing"])
     /\ pc' = "refetch"
     /\ UNCHANGED <<mqRest, podVars, specVars, depth, histVars>>

-----------------------------------------------------------------------------
(***************************************************************************)
(* handleCheckpointing and handleTransferring.                             *)
(***************************************************************************)
CkptConnect == Broker("ckpt.connect", Connect, "ckpt.queue", ConnectErr, "fail")

CkptQueue ==
  /\ pc = "ckpt.queue"
  /\ \/ /\ CreateSecondaryQueue
        /\ pc' = "ckpt.call"
        /\ since' = IF since # -1 /\ "replay" \in bound THEN since ELSE published
     \/ CreateSecondaryQueueErr /\ pc' = "fail" /\ UNCHANGED since
  /\ UNCHANGED <<trafficVars, statusVars, podVars, specVars, depth, lossy>>

\* The kubelet writes an archive of the running process and answers with its path,
\* which is kept in memory.
CkptCall ==
  /\ pc = "ckpt.call"
  /\ \/ /\ on["source"] # "off"
        /\ m' = [m EXCEPT !.ckpt = [ok |-> TRUE, state |-> applied["source"],
                                    want |-> want["source"]]]
        /\ pc' = "ckpt.status" /\ UNCHANGED faults
     \/ on["source"] = "off" /\ pc' = "fail" /\ UNCHANGED <<m, faults>>
     \/ Fault("api") /\ pc' = "fail" /\ UNCHANGED m
  /\ UNCHANGED <<mqRest, versions, queued, expired, podVars, specVars, depth, histVars>>

CkptStatus == Transition("ckpt.status", [server EXCEPT !.phase = "Transferring",
                                                       !.ckpt = m.ckpt])

\* The agent builds and pushes the image; its answer may fail or time out after the
\* push.  Without an agent the Job decides: a failed Job is waited for like an
\* active one.
XferLoad ==
  \/ /\ "agent" \in Loaders
     /\ Push("xfer.load")
  \/ /\ "job" \in Loaders
     /\ Read("xfer.load",
             CASE job = "succeeded" -> "xfer.status"
               [] job = "none"      -> IF "Transferring" \in m.timers THEN "xfer.create"
                                                                      ELSE "xfer.mark"
               [] OTHER             -> "requeue")

XferMark == Mark("xfer.mark", "Transferring", "xfer.create")

\* The Job carries the archive path it was created with.
XferCreate ==
  Cluster("xfer.create",
          /\ job' = IF job = "none" THEN "active" ELSE job
          /\ upload' = IF job = "none" THEN m.ckpt ELSE upload
          /\ UNCHANGED <<podSrc, podShadow, owned, replicas, pinned, image>>,
          "requeue", "fail")

XferStatus == Transition("xfer.status", [server EXCEPT !.phase = "Restoring",
                                                       !.timers = @ \ {"Transferring"}])

-----------------------------------------------------------------------------
(***************************************************************************)
(* handleRestoring.                                                        *)
(***************************************************************************)
RestoreMark == Mark("restore.mark", "Restoring", "restore.get")

\* Variants of RestoreGet with a bug: a scale-down whenever the source is still there;
\* no wait for the target to run; the source's name for both strategies.
RestoreGetAgain ==
  LET pod == IF Sequential THEN podSrc ELSE podShadow IN
  Read("restore.get",
       CASE pod = "none"    -> "restore.create"
         [] pod = "running" -> "restore.status"
         [] pod \in {"source", "terminating"} /\ owner = "StatefulSet" -> "restore.orig"
         [] OTHER           -> "requeue")

RestoreGetHasty ==
  LET pod == IF Sequential THEN podSrc ELSE podShadow IN
  Read("restore.get",
       CASE pod = "none"                    -> "restore.create"
         [] pod \in {"starting", "running"} -> "restore.status"
         [] /\ Sequential /\ pod \in {"source", "terminating"}
            /\ m.orig = 0 /\ owner = "StatefulSet" /\ replicas > 0 -> "restore.orig"
         [] OTHER                           -> "requeue")

RestoreGetBySource ==
  Read("restore.get",
       CASE podSrc = "none"    -> "restore.create"
         [] podSrc = "running" -> "restore.status"
         [] /\ podSrc \in {"source", "terminating"}
            /\ m.orig = 0 /\ owner = "StatefulSet" /\ replicas > 0 -> "restore.orig"
         [] OTHER              -> "requeue")

\* Sequential: a pod with the source's name and without the migration's label is
\* the source; the first time, the StatefulSet is scaled down to remove it.
RestoreGet ==
  LET pod == IF Sequential THEN podSrc ELSE podShadow IN
  Read("restore.get",
       CASE pod = "none"    -> "restore.create"
         [] pod = "running" -> "restore.status"
         [] /\ Sequential /\ pod \in {"source", "terminating"}
            /\ m.orig = 0 /\ owner = "StatefulSet" /\ replicas > 0 -> "restore.orig"
         [] OTHER           -> "requeue")

RestoreOrig == Patch("restore.orig", [server EXCEPT !.orig = replicas],
                     "restore.scaleDown", "restore.scaleDown")

RestoreScaleDown ==
  Cluster("restore.scaleDown",
          replicas' = 0 /\ UNCHANGED <<podSrc, podShadow, owned, pinned, job, upload, image>>,
          "requeue", "fail")

\* The target pod.  For ShadowPod the source pod is looked up first, to copy it.
RestoreCreate ==
  /\ pc = "restore.create"
  /\ \/ /\ Sequential /\ podSrc = "none"
        /\ podSrc' = "starting" /\ owned' = TRUE /\ UNCHANGED podShadow
        /\ pc' = "requeue" /\ UNCHANGED faults
     \/ /\ ~Sequential /\ podSrc # "none"
        /\ podShadow' = "starting" /\ owned' = TRUE /\ UNCHANGED podSrc
        /\ pc' = "requeue" /\ UNCHANGED faults
     \/ /\ Sequential /\ podSrc # "none"
        /\ pc' = "requeue" /\ UNCHANGED <<podSrc, podShadow, owned, faults>>
     \/ /\ ~Sequential /\ podSrc = "none"
        /\ pc' = "fail" /\ UNCHANGED <<podSrc, podShadow, owned, faults>>
     \/ Fault("api") /\ pc' = "fail" /\ UNCHANGED <<podSrc, podShadow, owned>>
  /\ UNCHANGED <<mqRest, statusVars, replicas, pinned, job, upload, image, specVars, depth, histVars>>

RestoreStatus == Transition("restore.status", [server EXCEPT !.phase = "Replaying",
                                                             !.timers = @ \ {"Restoring"}])

-----------------------------------------------------------------------------
(***************************************************************************)
(* handleReplaying and replayDrainCheck.                                   *)
(***************************************************************************)
ReplayUnbind == Broker("replay.unbind", UnbindQueue("replay"), "replay.start",
                                        UnbindQueueErr("replay"), "replay.start")

ReplayStart ==
  Broker("replay.start",
         SendControlMessage(PodName(Target), StartReplay("replay")), "replay.mark",
         SendControlMessageErr(PodName(Target), StartReplay("replay")), "fail")

ReplayMark == Mark("replay.mark", "Replaying", "replay.poll")

\* A variant of ReplayPoll with a bug: a failed poll counts as an empty queue.
ReplayPollUnchecked ==
  LET d      == Depth("replay")
      cutoff == mode = "Cutoff" /\ expired /\ "Replaying" \in m.timers
  IN
  /\ pc = "replay.poll"
  /\ \/ /\ Inspect("replay")
        /\ depth' = d
        /\ pc' = IF d = 0 \/ cutoff THEN "replay.status"
                 ELSE IF mode = "Drain" THEN "replay.check" ELSE "requeue"
        /\ lossy' = (lossy \/ (d # 0 /\ cutoff))
     \/ InspectErr("replay") /\ pc' = "replay.status" /\ UNCHANGED <<depth, lossy>>
  /\ UNCHANGED <<trafficVars, statusVars, podVars, specVars, since>>

\* Depth 0 ends the phase; so does the limit of Cutoff mode, measured from a start
\* time that was recorded.
ReplayPoll ==
  LET d      == Depth("replay")
      cutoff == mode = "Cutoff" /\ expired /\ "Replaying" \in m.timers
  IN
  /\ pc = "replay.poll"
  /\ \/ /\ Inspect("replay")
        /\ depth' = d
        /\ pc' = IF d = 0 \/ cutoff THEN "replay.status"
                 ELSE IF mode = "Drain" THEN "replay.check" ELSE "requeue"
        /\ lossy' = (lossy \/ (d # 0 /\ cutoff))
     \/ InspectErr("replay") /\ pc' = "fail" /\ UNCHANGED <<depth, lossy>>
  /\ UNCHANGED <<trafficVars, statusVars, podVars, specVars, since>>

\* A variant of ReplayCheck with a bug: a stall is never detected.
ReplayCheckPatient ==
  Patch("replay.check", [server EXCEPT !.last = depth], "requeue", "requeue")

\* Drain fails when the depth has not decreased for the length of the limit.
ReplayCheck ==
  \/ /\ depth < m.last \/ ~expired
     /\ Patch("replay.check", [server EXCEPT !.last = depth], "requeue", "requeue")
  \/ /\ pc = "replay.check" /\ depth >= m.last /\ expired
     /\ pc' = "fail"
     /\ UNCHANGED <<mqVars, statusVars, podVars, specVars, depth, histVars>>

ReplayStatus ==
  Transition("replay.status", [server EXCEPT !.phase = "Finalizing",
                                             !.timers = @ \ {"Replaying"},
                                             !.last = NoDepth])

-----------------------------------------------------------------------------
(***************************************************************************)
(* handleFinalizing without an identity swap.                              *)
(***************************************************************************)
FinMark == Mark("fin.mark", "Finalizing", "fin.endReplay")

AfterPin    == IF Sequential /\ owner = "StatefulSet" /\ m.orig > 0 THEN "fin.release"
                                                                    ELSE "fin.close"
AfterSource == IF m.deploy THEN "fin.pin" ELSE AfterPin

\* A variant of FinEndReplay with a bug: the error fails the migration.
FinEndReplayStrict ==
  Broker("fin.endReplay",
         SendControlMessage(PodName(Target), EndReplay), "fin.deleteQueue",
         SendControlMessageErr(PodName(Target), EndReplay), "fail")

FinEndReplay ==
  Broker("fin.endReplay",
         SendControlMessage(PodName(Target), EndReplay), "fin.deleteQueue",
         SendControlMessageErr(PodName(Target), EndReplay), "fin.deleteQueue")

FinDeleteQueue ==
  LET next == IF Sequential THEN AfterSource ELSE "fin.source" IN
  Broker("fin.deleteQueue", DeleteSecondaryQueue, next, DeleteSecondaryQueueErr, next)

\* Delete, with the pod's grace period.  The error is logged.
FinSource ==
  Cluster("fin.source",
          /\ podSrc' = IF podSrc = "none" THEN "none" ELSE "terminating"
          /\ UNCHANGED <<podShadow, owned, replicas, pinned, job, upload, image>>,
          AfterSource, AfterSource)

FinPin ==
  Cluster("fin.pin",
          pinned' = TRUE /\ UNCHANGED <<podSrc, podShadow, owned, replicas, job, upload, image>>,
          AfterPin, AfterPin)

FinRelease ==
  Cluster("fin.release",
          owned' = FALSE /\ UNCHANGED <<podSrc, podShadow, replicas, pinned, job, upload, image>>,
          "fin.scaleUp", "fin.scaleUp")

\* A variant of FinScaleUp with a bug: it adds to the replica count.
FinScaleUpBy ==
  Cluster("fin.scaleUp",
          /\ replicas' = replicas + m.orig
          /\ UNCHANGED <<podSrc, podShadow, owned, pinned, job, upload, image>>,
          "fin.close", "fin.close")

FinScaleUp ==
  Cluster("fin.scaleUp",
          /\ replicas' = IF replicas < m.orig THEN m.orig ELSE replicas
          /\ UNCHANGED <<podSrc, podShadow, owned, pinned, job, upload, image>>,
          "fin.close", "fin.close")

\* The reads before these four patches return their error.
FinReadError ==
  /\ pc \in {"fin.source", "fin.pin", "fin.release", "fin.scaleUp"}
  /\ Fault("api")
  /\ pc' = "requeue"
  /\ UNCHANGED <<mqRest, statusVars, podVars, specVars, depth, histVars>>

FinClose ==
  /\ pc = "fin.close"
  /\ Close
  /\ pc' = "fin.complete"
  /\ UNCHANGED <<trafficVars, statusVars, podVars, specVars, depth, histVars>>

FinComplete == Patch("fin.complete", [server EXCEPT !.phase = "Completed"], "idle", "requeue")

-----------------------------------------------------------------------------
(***************************************************************************)
(* The rest of the cluster, and what may go wrong.                         *)
(***************************************************************************)
Idle == UNCHANGED <<statusVars, specVars, pc, depth, histVars>>

CacheSync ==
  /\ Len(versions) > 1
  /\ versions' = Tail(versions) /\ queued' = TRUE
  /\ UNCHANGED <<mqVars, podVars, m, expired, specVars, pc, depth, histVars>>

Tick ==
  /\ "Replaying" \in server.timers /\ ~expired
  /\ expired' = TRUE
  /\ UNCHANGED <<mqVars, podVars, versions, queued, m, specVars, pc, depth, histVars>>

JobEnds ==
  /\ job = "active"
  /\ \/ job' = "succeeded" /\ image' = upload /\ UNCHANGED faults
     \/ job' = "failed" /\ Fault("job") /\ UNCHANGED image
  /\ UNCHANGED <<mqRest, podSrc, podShadow, owned, replicas, pinned, upload>> /\ Idle

PodStarts ==
  /\ image.ok
  /\ \/ /\ podSrc = "starting" /\ podSrc' = "running"
        /\ Restore("replacement", image.state, image.want) /\ UNCHANGED podShadow
     \/ /\ podShadow = "starting" /\ podShadow' = "running"
        /\ Restore("shadow", image.state, image.want) /\ UNCHANGED podSrc
  /\ UNCHANGED <<owned, replicas, pinned, job, upload, image>> /\ Idle

PodGone ==
  /\ podSrc = "terminating" /\ podSrc' = "none"
  /\ \E p \in {"source", "replacement"} : on[p] # "off" /\ Stop(p)
  /\ UNCHANGED <<podShadow, owned, replicas, pinned, job, upload, image>> /\ Idle

StaleGone ==
  /\ podShadow = "stale" /\ podShadow' = "none"
  /\ UNCHANGED <<mqVars, podSrc, owned, replicas, pinned, job, upload, image>> /\ Idle

StsDeletes ==
  /\ owner = "StatefulSet" /\ replicas = 0
  /\ podSrc = "source" \/ (Adopts /\ podSrc = "running" /\ ~owned)
  /\ podSrc' = "terminating"
  /\ UNCHANGED <<mqVars, podShadow, owned, replicas, pinned, job, upload, image>> /\ Idle

\* A pod from the StatefulSet's template starts with an empty state.
StsCreates ==
  /\ owner = "StatefulSet" /\ replicas > 0 /\ podSrc = "none"
  /\ podSrc' = "source"
  /\ on' = [on EXCEPT !["source"] = "primary"]
  /\ want' = [want EXCEPT !["source"] = "primary"]
  /\ applied' = [applied EXCEPT !["source"] = {}]
  /\ UNCHANGED <<chan, exists, bound, ready, published, ctrl, inflight, dups, returned,
                 faults>>
  /\ UNCHANGED <<podShadow, owned, replicas, pinned, job, upload, image>> /\ Idle

\* The connection breaks, or another migration's Completed closes the shared client.
ConnectionLost ==
  /\ pc = "idle" /\ chan = "open"
  /\ Fault("broker") /\ chan' = "closed"
  /\ UNCHANGED <<topoVars, trafficVars, podVars>> /\ Idle

\* The new process lists the migrations anew.
Crash ==
  /\ Fault("crash")
  /\ pc' = "idle" /\ versions' = <<server>> /\ m' = server /\ queued' = TRUE
  /\ chan' = "closed" /\ depth' = 0
  /\ UNCHANGED <<topoVars, trafficVars, podVars, expired, specVars, histVars>>

Traffic ==
  /\ \/ Publish
     \/ \E p \in Procs : Deliver(p) \/ Process(p) \/ ReadControl(p)
  /\ UNCHANGED podVars /\ Idle

Handlers ==
  \/ Reconcile \/ Refetch \/ Requeue \/ FailMigration \/ Accept
  \/ PendingGet \/ PendingDetect \/ PendingRecord
  \/ CkptConnect \/ CkptQueue \/ CkptCall \/ CkptStatus
  \/ XferLoad \/ XferMark \/ XferCreate \/ XferStatus
  \/ RestoreMark \/ RestoreGet \/ RestoreOrig \/ RestoreScaleDown \/ RestoreCreate
  \/ RestoreStatus
  \/ ReplayUnbind \/ ReplayStart \/ ReplayMark \/ ReplayPoll \/ ReplayCheck \/ ReplayStatus
  \/ FinMark \/ FinEndReplay \/ FinDeleteQueue \/ FinSource \/ FinPin \/ FinRelease
  \/ FinScaleUp \/ FinReadError \/ FinClose \/ FinComplete

Environment ==
  \/ CacheSync \/ Tick \/ JobEnds \/ PodStarts \/ PodGone \/ StaleGone
  \/ StsDeletes \/ StsCreates

\* An ended migration with nothing left to do.
Done == pc = "idle" /\ cached.phase \in Terminal /\ UNCHANGED vars

Next == Handlers \/ Environment \/ ConnectionLost \/ Crash \/ Traffic \/ Done

Spec == Init /\ [][Next]_vars

\* The work queue, the cache and the cluster go on; the producer may stop, and nobody
\* has to remove a leftover shadow pod.  A consumer may hang: it has to go on only
\* where nothing limits the replay.
FairSpec ==
  /\ Spec
  /\ WF_vars(Handlers)
  /\ WF_vars(CacheSync) /\ WF_vars(Tick)
  /\ WF_vars(JobEnds) /\ WF_vars(PodStarts) /\ WF_vars(PodGone)
  /\ WF_vars(StsDeletes) /\ WF_vars(StsCreates)
  /\ \A p \in Procs : WF_vars(/\ mode = "NoLimit"
                              /\ Deliver(p) \/ Process(p) \/ ReadControl(p)
                              /\ UNCHANGED podVars /\ Idle)

-----------------------------------------------------------------------------
(***************************************************************************)
(* Properties.                                                             *)
(***************************************************************************)
\* The migration implements its life cycle: the phases in order (README.md 60-80),
\* and never a moment without the source, the target or an image.
Lifecycle == INSTANCE MigrationLifecycle WITH
  phase <- server.phase, kind <- server.strategy, saved <- server.ckpt.ok,
  image <- image.ok, source <- on["source"] # "off",
  target <- podSrc = "running" \/ podShadow = "running"

ImplementsLifecycle == Lifecycle!Spec

\* At every moment after the checkpoint there is the source process or an image to
\* restore it from, and from Replaying on a running target: also for handlers that
\* work from a stale cache, where the life cycle itself is not kept.
StateSurvives == Lifecycle!StateSurvives

\* handleFinalizing may run again from a stale cache after it patched Completed
\* (comment 900-903), and a handler before it may still write Failed; no step takes
\* a completed migration out of Completed.
CompletedIsFinal == [][server.phase = "Completed" => server.phase' = "Completed"]_vars

\* A failed migration stays failed (README.md:79, Reconcile 113).  A reconcile that
\* reads the phase from before failMigration carries on and overwrites Failed.
FailedIsFinal == [][server.phase = "Failed" => server.phase' = "Failed"]_vars

\* A ShadowPod migration that fails leaves the source pod running, with current reads
\* (MaxLag = 0): a stale handleReplaying may write Failed over Finalizing, and
\* handleFinalizing then delete the source of the failed migration.
FailedKeepsSource ==
  server.phase = "Failed" /\ server.strategy = "ShadowPod" /\ server.ckpt.ok
    => podSrc = "source"

\* What the target p has processed, or will: from the replay queue until Replaying has
\* ended, or as long as p consumes it, and then from the primary queue.
Reachable(p) ==
  applied[p] \cup inflight[p] \cup ready["primary"] \cup
  (IF server.phase \in {"Finalizing", "Completed"} /\ on[p] # "replay" THEN {} ELSE ready["replay"])

\* Sequential: every message published since the replay queue was bound is in the
\* target's state or on its way to it, from before there is a target up to the end of
\* the migration, unless the cutoff ended the replay or the target put it back into
\* the replay queue when END_REPLAY took it to the primary one.
NothingSkipped ==
  server.strategy = "Sequential" /\ ~lossy /\ since # -1
    => \A msg \in since + 1 .. published : msg \in Reachable("replacement") \cup returned

\* No message is lost by a completed migration (README.md:9): all that was published
\* is in the checkpoint, in the target's state or on its way to it.  What the source
\* takes from the backlog of the primary queue after its checkpoint is in neither.
NothingLost ==
  server.phase = "Completed" /\ ~lossy
    => \A msg \in 1 .. published :
         msg \in server.ckpt.state
               \cup Reachable(IF server.strategy = "Sequential" THEN "replacement" ELSE "shadow")

\* A completed migration has undone what it did to the workload, and has done what
\* its owner needs: the replica count is back and the target can be adopted, the
\* Deployment is bound to the target node, the replaced source is deleted.
CompletedCleanup ==
  server.phase = "Completed" =>
    /\ owner = "StatefulSet" => replicas = Replicas
    /\ server.strategy = "Sequential" => ~owned
    /\ server.deploy => pinned
    /\ server.strategy = "ShadowPod" /\ owner # "StatefulSet" => podSrc # "source"

\* The migration ends, even when the target's consumer hangs (the cutoff 687-703, the
\* stall detection of replayDrainCheck), unless it waits for somebody else: Sequential
\* without a StatefulSet for the deletion of the source, ShadowPod for that of a
\* leftover pod.
Ends ==
  <>[](\/ server.phase \in Terminal
       \/ server.strategy = "Sequential" /\ owner # "StatefulSet"
       \/ podShadow = "stale")
=============================================================================
