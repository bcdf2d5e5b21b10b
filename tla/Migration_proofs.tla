-------------------------- MODULE Migration_proofs --------------------------
(***************************************************************************)
(* With a cache that is current, a migration implements its life cycle.    *)
(***************************************************************************)
EXTENDS Migration_lag

USE MessagingAssumption, MigrationAssumption

(***************************************************************************)
(* The reconcile's copy of the migration is the API server's, and the      *)
(* handler it runs is that of the current phase.                           *)
(***************************************************************************)
Between == {"idle", "requeue", "refetch"}

CopyOK ==
  /\ pc \notin Between \cup {"ckpt.status", "fail"} => m = server
  /\ pc = "ckpt.status" => m.ckpt.ok

PhaseOK ==
  /\ pc = "accept" => server.phase = "New"
  /\ pc \in {"pending.get", "pending.detect", "pending.record"} => server.phase = "Pending"
  /\ pc \in {"ckpt.connect", "ckpt.queue", "ckpt.call", "ckpt.status"}
       => server.phase = "Checkpointing"
  /\ pc \in {"xfer.load", "xfer.mark", "xfer.create", "xfer.status"}
       => server.phase = "Transferring"
  /\ pc \in {"restore.mark", "restore.get", "restore.orig", "restore.scaleDown",
             "restore.create", "restore.status"} => server.phase = "Restoring"
  /\ pc \in {"replay.unbind", "replay.start", "replay.mark", "replay.poll", "replay.check",
             "replay.status"} => server.phase = "Replaying"
  /\ pc \in {"fin.mark", "fin.endReplay", "fin.deleteQueue", "fin.source", "fin.pin",
             "fin.release", "fin.scaleUp", "fin.close", "fin.complete"}
       => server.phase = "Finalizing"
  /\ pc = "fail" => server.phase \in {"Pending", "Checkpointing", "Transferring",
                                      "Restoring", "Replaying"}

\* What the phase says of the checkpoint and its image.
SavedOK ==
  /\ server.ckpt.ok => server.phase \notin {"New", "Pending", "Checkpointing"}
  /\ server.phase \notin {"New", "Pending", "Checkpointing", "Failed"} => server.ckpt.ok
  /\ server.phase \notin {"New", "Pending", "Failed"} \/ pc = "pending.record"
       \/ server.ckpt.ok => server.strategy # "Auto"
  /\ pc = "pending.detect" => server.strategy = "Auto"
  /\ job # "none" => upload.ok /\ server.ckpt.ok
  /\ job = "succeeded" \/ pc = "xfer.status" => image.ok
  /\ server.phase \in {"Restoring", "Replaying", "Finalizing", "Completed"} => image.ok

\* Which pods there are, and the processes in them.
PodsOK ==
  /\ podSrc \in {"source", "terminating"} <=> on["source"] # "off"
  /\ on["replacement"] # "off" => podSrc = "running"
  /\ podSrc \in {"starting", "running"} => server.strategy = "Sequential" /\ server.ckpt.ok
  /\ podShadow \in {"starting", "running"} => server.strategy # "Sequential" /\ server.ckpt.ok
  /\ podSrc = "starting" \/ podShadow = "starting"
       => server.phase = "Restoring" /\ pc \in Between \cup {"restore.mark", "restore.get"}
  /\ pc = "restore.create" =>
       (IF server.strategy = "Sequential" THEN podSrc ELSE podShadow) = "none"
  /\ pc = "restore.status" \/ server.phase \in {"Replaying", "Finalizing", "Completed"}
       => podSrc = "running" \/ podShadow = "running"

\* When the source is there, and who removes it.
SourceOK ==
  /\ replicas = 0 => server.strategy = "Sequential" /\ server.ckpt.ok
                     /\ server.phase # "Transferring"
  /\ pc \in {"pending.detect", "pending.record"}
       \/ server.phase \in {"Checkpointing", "Transferring"} => podSrc = "source"
  /\ server.ckpt.ok /\ server.strategy # "Sequential"
       /\ server.phase \notin {"Finalizing", "Completed"} => podSrc = "source"
  /\ server.ckpt.ok /\ server.strategy = "Sequential" /\ podSrc \in {"terminating", "none"}
       => replicas = 0 /\ server.phase \in {"Restoring", "Failed"}
  /\ pc \in {"restore.orig", "restore.scaleDown"}
       => replicas # 0 /\ server.strategy = "Sequential"
  /\ (pc = "fail" \/ server.phase = "Failed") /\ server.ckpt.ok
       => podSrc # "terminating" /\ (podSrc = "source" => replicas # 0)
  /\ pc = "fin.source" => server.strategy # "Sequential"

Inv == CopyOK /\ PhaseOK /\ SavedOK /\ PodsOK /\ SourceOK

-----------------------------------------------------------------------------
(***************************************************************************)
(* What a call of a handler does to the state the invariant is about.      *)
(***************************************************************************)
\* What a patch does to the status, the copy in memory and the label.
LEMMA PatchStep ==
  ASSUME StatusTypeOK, NEW l, NEW s \in Statuses, NEW next, NEW onErr, Patch(l, s, next, onErr)
  PROVE  /\ pc = l
         /\ \/ server' = s /\ m' = s /\ pc' = next
            \/ server' = server /\ m' = m /\ pc' = onErr
         /\ UNCHANGED <<on, podVars, owner>>
<1>1. pc = l /\ UNCHANGED <<mqRest, podVars, specVars>>
  BY DEF Patch
<1>2. CASE Save(s) /\ pc' = next
  <2>1. server' = s
    BY <1>1, <1>2, SaveTypes
  <2>2. m' = s
    BY <1>2 DEF Save
  <2> QED BY <1>1, <1>2, <2>1, <2>2 DEF mqRest, specVars
<1>3. CASE pc' = onErr /\ UNCHANGED statusVars
  BY <1>1, <1>3 DEF statusVars, mqRest, specVars, server
<1> QED BY <1>2, <1>3 DEF Patch

-----------------------------------------------------------------------------
(***************************************************************************)
(* Every step keeps the invariant.                                         *)
(***************************************************************************)
\* The patches of the status.
LEMMA InvPatches ==
  ASSUME TypeOK, Inv,
         \/ FailMigration \/ Accept \/ PendingRecord \/ CkptStatus \/ XferMark \/ XferStatus
         \/ RestoreMark \/ RestoreOrig \/ RestoreStatus \/ ReplayMark \/ ReplayCheck
         \/ ReplayStatus \/ FinMark \/ FinComplete
  PROVE  Inv'
<1>0. server \in Statuses /\ m \in Statuses /\ StatusTypeOK
  BY VersionTypes DEF TypeOK, StatusTypeOK
<1> USE DEF Inv, CopyOK, PhaseOK, SavedOK, PodsOK, SourceOK, Between
<1>1. ASSUME NEW k \in StartKeys, NEW l, NEW next, Mark(l, k, next)
      PROVE  /\ pc = l /\ pc' = next
             /\ server'.phase = server.phase /\ server'.strategy = server.strategy
             /\ server'.ckpt = server.ckpt
             /\ m = server => m' = server'
             /\ UNCHANGED <<on, podVars, owner>>
  <2> DEFINE s == [server EXCEPT !.timers = @ \cup {k}]
  <2>1. s \in Statuses
    BY Written
  <2>2. s.phase = server.phase /\ s.strategy = server.strategy /\ s.ckpt = server.ckpt
    BY <1>0 DEF Statuses
  <2>3. Patch(l, s, next, next)
    BY <1>1 DEF Mark
  <2> HIDE DEF s
  <2> QED BY <1>0, <2>1, <2>2, <2>3, PatchStep
<1>2. CASE XferMark \/ RestoreMark \/ ReplayMark \/ FinMark
  BY <1>1, <1>2 DEF XferMark, RestoreMark, ReplayMark, FinMark, StartKeys, podVars
<1>3. CASE FailMigration
  <2>1. [server EXCEPT !.phase = "Failed"] \in Statuses
    BY Written DEF Phases, StartKeys
  <2>2. /\ pc = "fail" /\ UNCHANGED <<on, podVars, owner>>
        /\ \/ server' = [server EXCEPT !.phase = "Failed"] /\ m' = server' /\ pc' = "idle"
           \/ server' = server /\ m' = m /\ pc' = "requeue"
    BY <1>0, <1>3, <2>1, PatchStep DEF FailMigration
  <2> QED BY <1>0, <2>2 DEF Statuses, podVars
<1>4. CASE Accept
  <2>1. [server EXCEPT !.phase = "Pending"] \in Statuses
    BY Written DEF Phases, StartKeys
  <2>2. /\ pc = "accept" /\ UNCHANGED <<on, podVars, owner>>
        /\ \/ server' = [server EXCEPT !.phase = "Pending"] /\ m' = server' /\ pc' = "requeue"
           \/ server' = server /\ m' = m /\ pc' = "requeue"
    BY <1>0, <1>4, <2>1, PatchStep DEF Accept
  <2> QED BY <1>0, <2>2 DEF Statuses, podVars
<1>5. CASE CkptStatus
  <2>1. [server EXCEPT !.phase = "Transferring", !.ckpt = m.ckpt] \in Statuses
    BY Written DEF Phases, StartKeys
  <2>2. /\ pc = "ckpt.status" /\ UNCHANGED <<on, podVars, owner>>
        /\ \/ server' = [server EXCEPT !.phase = "Transferring", !.ckpt = m.ckpt]
              /\ m' = server' /\ pc' = "refetch"
           \/ server' = server /\ m' = m /\ pc' = "requeue"
    BY <1>0, <1>5, <2>1, PatchStep DEF CkptStatus, Transition
  <2>3. \/ /\ server'.phase = "Transferring" /\ server'.strategy = server.strategy
           /\ server'.ckpt = m.ckpt /\ m.ckpt.ok
        \/ UNCHANGED <<server, m>>
    BY <1>0, <2>2 DEF Statuses
  <2> QED BY <1>0, <2>2, <2>3 DEF podVars
<1>6. CASE XferStatus
  <2>1. [server EXCEPT !.phase = "Restoring", !.timers = @ \ {"Transferring"}] \in Statuses
    BY Written DEF Phases, StartKeys
  <2>2. /\ pc = "xfer.status" /\ UNCHANGED <<on, podVars, owner>>
        /\ \/ server' = [server EXCEPT !.phase = "Restoring", !.timers = @ \ {"Transferring"}]
              /\ m' = server' /\ pc' = "refetch"
           \/ server' = server /\ m' = m /\ pc' = "requeue"
    BY <1>0, <1>6, <2>1, PatchStep DEF XferStatus, Transition
  <2>3. \/ /\ server'.phase = "Restoring" /\ server'.strategy = server.strategy
           /\ server'.ckpt = server.ckpt
        \/ UNCHANGED <<server, m>>
    BY <1>0, <2>2 DEF Statuses
  <2> QED BY <1>0, <2>2, <2>3 DEF podVars
<1>7. CASE RestoreOrig
  <2>1. [server EXCEPT !.orig = replicas] \in Statuses
    BY Written DEF Phases, StartKeys
  <2>2. /\ pc = "restore.orig" /\ UNCHANGED <<on, podVars, owner>>
        /\ \/ server' = [server EXCEPT !.orig = replicas]
              /\ m' = server' /\ pc' = "restore.scaleDown"
           \/ server' = server /\ m' = m /\ pc' = "restore.scaleDown"
    BY <1>0, <1>7, <2>1, PatchStep DEF RestoreOrig
  <2>3. server'.phase = server.phase /\ server'.strategy = server.strategy
        /\ server'.ckpt = server.ckpt
    BY <1>0, <2>2 DEF Statuses
  <2> QED BY <1>0, <2>2, <2>3 DEF podVars
<1>8. CASE RestoreStatus
  <2>1. [server EXCEPT !.phase = "Replaying", !.timers = @ \ {"Restoring"}] \in Statuses
    BY Written DEF Phases, StartKeys
  <2>2. /\ pc = "restore.status" /\ UNCHANGED <<on, podVars, owner>>
        /\ \/ server' = [server EXCEPT !.phase = "Replaying", !.timers = @ \ {"Restoring"}]
              /\ m' = server' /\ pc' = "refetch"
           \/ server' = server /\ m' = m /\ pc' = "requeue"
    BY <1>0, <1>8, <2>1, PatchStep DEF RestoreStatus, Transition
  <2>3. \/ /\ server'.phase = "Replaying" /\ server'.strategy = server.strategy
           /\ server'.ckpt = server.ckpt
        \/ UNCHANGED <<server, m>>
    BY <1>0, <2>2 DEF Statuses
  <2> QED BY <1>0, <2>2, <2>3 DEF podVars
<1>9. CASE ReplayStatus
  <2>1. [server EXCEPT !.phase = "Finalizing", !.timers = @ \ {"Replaying"},
               !.last = NoDepth] \in Statuses
    BY Written DEF Phases, StartKeys
  <2>2. /\ pc = "replay.status" /\ UNCHANGED <<on, podVars, owner>>
        /\ \/ server' = [server EXCEPT !.phase = "Finalizing", !.timers = @ \ {"Replaying"},
                         !.last = NoDepth]
              /\ m' = server' /\ pc' = "refetch"
           \/ server' = server /\ m' = m /\ pc' = "requeue"
    BY <1>0, <1>9, <2>1, PatchStep DEF ReplayStatus, Transition
  <2>3. \/ /\ server'.phase = "Finalizing" /\ server'.strategy = server.strategy
           /\ server'.ckpt = server.ckpt
        \/ UNCHANGED <<server, m>>
    BY <1>0, <2>2 DEF Statuses
  <2> QED BY <1>0, <2>2, <2>3 DEF podVars
<1>10. CASE FinComplete
  <2>1. [server EXCEPT !.phase = "Completed"] \in Statuses
    BY Written DEF Phases, StartKeys
  <2>2. /\ pc = "fin.complete" /\ UNCHANGED <<on, podVars, owner>>
        /\ \/ server' = [server EXCEPT !.phase = "Completed"] /\ m' = server' /\ pc' = "idle"
           \/ server' = server /\ m' = m /\ pc' = "requeue"
    BY <1>0, <1>10, <2>1, PatchStep DEF FinComplete
  <2> QED BY <1>0, <2>2 DEF Statuses, podVars
<1>11. CASE ReplayCheck
  <2>1. [server EXCEPT !.last = depth] \in Statuses
    BY Written
  <2>2. CASE Patch("replay.check", [server EXCEPT !.last = depth], "requeue", "requeue")
    <3>1. /\ pc = "replay.check" /\ pc' = "requeue" /\ UNCHANGED <<on, podVars, owner>>
          /\ server' = [server EXCEPT !.last = depth] \/ server' = server
      BY <1>0, <2>1, <2>2, PatchStep
    <3> QED BY <1>0, <3>1 DEF Statuses, podVars
  <2>3. CASE pc = "replay.check" /\ pc' = "fail" /\ UNCHANGED <<mqVars, statusVars, podVars>>
    <3>1. UNCHANGED <<server, on, podVars>>
      BY <2>3 DEF mqVars, statusVars, server
    <3> QED BY <1>0, <2>3, <3>1 DEF podVars
  <2> QED BY <1>11, <2>2, <2>3 DEF ReplayCheck
<1>12. CASE PendingRecord
  <2> DEFINE b == owner = "Deployment"
             s == [server EXCEPT !.phase = "Checkpointing", !.deploy = @ \/ b]
             t == [server EXCEPT !.phase = "Checkpointing"]
  <2>1. s \in Statuses /\ t \in Statuses
    BY Written DEF Phases
  <2>2. /\ s.phase = "Checkpointing" /\ s.strategy = server.strategy /\ s.ckpt = server.ckpt
        /\ t.phase = "Checkpointing" /\ t.strategy = server.strategy /\ t.ckpt = server.ckpt
    BY <1>0 DEF Statuses
  <2> HIDE DEF s, t
  <2>3. CASE Transition("pending.record", s)
    <3>1. /\ pc = "pending.record" /\ UNCHANGED <<on, podVars, owner>>
          /\ \/ server' = s /\ m' = server' /\ pc' = "refetch"
             \/ server' = server /\ m' = m /\ pc' = "requeue"
      BY <1>0, <2>1, <2>3, PatchStep DEF Transition
    <3> QED BY <1>0, <2>2, <3>1 DEF podVars
  <2>4. CASE /\ pc = "pending.record" /\ Save(t) /\ pc' = "refetch"
             /\ UNCHANGED <<mqRest, podVars, specVars>>
    <3>1. server' = t /\ UNCHANGED <<on, podVars, owner>>
      BY <1>0, <2>1, <2>4, SaveTypes DEF mqRest, specVars
    <3> QED BY <1>0, <2>2, <2>4, <3>1 DEF podVars
  <2> QED BY <1>12, <2>3, <2>4 DEF PendingRecord, s, t
<1> QED BY <1>2, <1>3, <1>4, <1>5, <1>6, <1>7, <1>8, <1>9, <1>10, <1>11, <1>12

\* The steps that leave the pods alone.
LEMMA InvReads ==
  ASSUME TypeOK, Inv, MaxLag = 0,
         \/ Reconcile \/ Refetch \/ Requeue \/ PendingGet \/ PendingDetect
         \/ CkptConnect \/ CkptQueue \/ CkptCall \/ RestoreGet
         \/ ReplayUnbind \/ ReplayStart \/ ReplayPoll \/ FinEndReplay \/ FinDeleteQueue
         \/ FinReadError \/ FinClose
  PROVE  Inv'
<1>0. server \in Statuses /\ m \in Statuses /\ StatusTypeOK /\ MessagingTypeOK
  BY VersionTypes DEF TypeOK, StatusTypeOK
<1> USE DEF Inv, CopyOK, PhaseOK, SavedOK, PodsOK, SourceOK, Between
<1>1. CASE Reconcile \/ Refetch
  <2>1. cached = server
    <3>1. versions \in Seq(Statuses) /\ Len(versions) = 1
      BY <1>0 DEF StatusTypeOK
    <3> QED BY <3>1 DEF cached, server
  <2>2. /\ m' = server /\ pc' = Entry(server) /\ pc \in Between
        /\ UNCHANGED <<server, on, podVars>>
    BY <1>1, <2>1 DEF Reconcile, Refetch, Fetch, server, mqVars
  <2>3. pc' \notin {"pending.detect", "pending.record", "ckpt.queue", "ckpt.call", "ckpt.status",
                    "xfer.mark", "xfer.create", "xfer.status", "restore.orig", "fail",
                    "restore.scaleDown", "restore.create", "restore.status", "fin.source"}
    BY <2>2 DEF Entry
  <2>4. PhaseOK'
    BY <1>0, <2>2 DEF Entry, Statuses, Phases
  <2>5. podSrc' = "starting" \/ podShadow' = "starting"
          => pc' \in Between \cup {"restore.mark", "restore.get"}
    BY <2>2 DEF Entry, podVars
  <2> QED BY <1>0, <2>2, <2>3, <2>4, <2>5 DEF podVars
<1>2. CASE Requeue
  <2>1. pc' = "idle" /\ pc \in Between /\ UNCHANGED <<server, m, on, podVars>>
    BY <1>2 DEF Requeue, server, mqVars
  <2> QED BY <1>0, <2>1 DEF podVars
<1>3. CASE PendingGet
  <2>1. /\ pc = "pending.get" /\ UNCHANGED <<server, m, on, podVars>>
        /\ \/ pc' = "fail" \/ pc' = "requeue"
           \/ podSrc = "source" /\ pc' = "pending.detect" /\ m.strategy = "Auto"
           \/ podSrc = "source" /\ pc' = "pending.record" /\ m.strategy # "Auto"
    BY <1>3 DEF PendingGet, Read, server, statusVars, mqRest
  <2> QED BY <1>0, <2>1 DEF podVars
<1>4. CASE PendingDetect
  <2>1. \A k \in {"ShadowPod", "Sequential"} : [server EXCEPT !.strategy = k] \in Statuses
    BY Written
  <2>2. pc = "pending.detect" /\ UNCHANGED <<on, podVars, specVars>>
    BY <1>4 DEF PendingDetect, mqRest
  <2>3. CASE UNCHANGED statusVars /\ pc' = "requeue"
    <3>1. UNCHANGED <<server, m>>
      BY <2>3 DEF statusVars, server
    <3> QED BY <1>0, <2>2, <2>3, <3>1 DEF podVars
  <2>4. ASSUME NEW k \in {"ShadowPod", "Sequential"}, Save([server EXCEPT !.strategy = k]),
               pc' \in {"pending.record", "requeue"}
        PROVE  Inv'
    <3> DEFINE s == [server EXCEPT !.strategy = k]
    <3>1. s \in Statuses /\ s.phase = server.phase /\ s.ckpt = server.ckpt /\ s.strategy = k
      BY <1>0, <2>1 DEF Statuses
    <3> HIDE DEF s
    <3>2. Save(s)
      BY <2>4 DEF s
    <3>3. server' = s /\ m' = s
      BY <1>0, <2>2, <3>1, <3>2, SaveTypes DEF Save
    <3> QED BY <1>0, <2>2, <2>4, <3>1, <3>3 DEF podVars
  <2> QED BY <1>4, <2>3, <2>4 DEF PendingDetect
<1>5. CASE \/ CkptConnect \/ CkptQueue \/ ReplayUnbind \/ ReplayStart \/ ReplayPoll
           \/ FinEndReplay \/ FinDeleteQueue \/ FinClose
  <2>1. PodName(Target) \in Names /\ StartReplay("replay") \in ControlMsgs
        /\ EndReplay \in ControlMsgs /\ "replay" \in Queues
    BY DEF PodName, Names, ControlMsgs, Queues
  <2>2. ClientStep
    BY <1>5, <2>1 DEF CkptConnect, CkptQueue, ReplayUnbind, ReplayStart, ReplayPoll,
       FinEndReplay, FinDeleteQueue, FinClose, Broker, ClientStep
  <2>3. on'["source"] = "off" <=> on["source"] = "off"
    BY <1>0, <2>2, ClientProcesses DEF SameProcesses, Procs
  <2>4. on'["replacement"] = "off" <=> on["replacement"] = "off"
    BY <1>0, <2>2, ClientProcesses DEF SameProcesses, Procs
  <2>5. UNCHANGED <<server, m, podVars>>
    BY <1>5 DEF CkptConnect, CkptQueue, ReplayUnbind, ReplayStart, ReplayPoll,
       FinEndReplay, FinDeleteQueue, FinClose, Broker, server, statusVars
  <2>6. \/ pc = "ckpt.connect" /\ pc' \in {"ckpt.queue", "fail"}
        \/ pc = "ckpt.queue" /\ pc' \in {"ckpt.call", "fail"}
        \/ pc = "replay.unbind" /\ pc' = "replay.start"
        \/ pc = "replay.start" /\ pc' \in {"replay.mark", "fail"}
        \/ pc = "replay.poll" /\ pc' \in {"replay.status", "replay.check", "requeue", "fail"}
        \/ pc = "fin.endReplay" /\ pc' = "fin.deleteQueue"
        \/ pc = "fin.deleteQueue" /\ pc' = "fin.source" /\ m.strategy # "Sequential"
        \/ pc = "fin.deleteQueue" /\ pc' \in {"fin.pin", "fin.release", "fin.close"}
        \/ pc = "fin.close" /\ pc' = "fin.complete"
    BY <1>5 DEF CkptConnect, CkptQueue, ReplayUnbind, ReplayStart, ReplayPoll,
       FinEndReplay, FinDeleteQueue, FinClose, Broker, AfterSource, AfterPin, Sequential
  <2> QED BY <1>0, <2>3, <2>4, <2>5, <2>6 DEF podVars
<1>6. CASE CkptCall
  <2> DEFINE c == [ok |-> TRUE, state |-> applied["source"], want |-> want["source"]]
  <2>1. [m EXCEPT !.ckpt = c].ckpt = c /\ c.ok = TRUE
    BY <1>0 DEF Statuses
  <2>2. /\ pc = "ckpt.call" /\ UNCHANGED <<server, on, podVars>>
        /\ \/ pc' = "ckpt.status" /\ m'.ckpt.ok
           \/ pc' = "fail"
    BY <1>6, <2>1 DEF CkptCall, server, mqRest
  <2> QED BY <1>0, <2>2 DEF podVars
<1>7. CASE RestoreGet
  <2>1. pc = "restore.get" /\ m = server /\ UNCHANGED <<server, m, on, podVars>>
    BY <1>7 DEF RestoreGet, Read, server, statusVars, mqRest
  <2> DEFINE pod == IF server.strategy = "Sequential" THEN podSrc ELSE podShadow
  <2>2. \/ pc' = "requeue"
        \/ pc' = "restore.create" /\ pod = "none"
        \/ pc' = "restore.status" /\ pod = "running"
        \/ pc' = "restore.orig" /\ replicas > 0 /\ server.strategy = "Sequential"
            /\ pod \in {"source", "terminating"}
    BY <1>7, <2>1 DEF RestoreGet, Read, Sequential
  <2>3. replicas > 0 => replicas # 0
    OBVIOUS
  <2> QED BY <1>0, <2>1, <2>2, <2>3 DEF podVars
<1>8. CASE FinReadError
  <2>1. /\ pc \in {"fin.source", "fin.pin", "fin.release", "fin.scaleUp"} /\ pc' = "requeue"
        /\ UNCHANGED <<server, m, on, podVars>>
    BY <1>8 DEF FinReadError, server, statusVars, mqRest
  <2> QED BY <1>0, <2>1 DEF podVars
<1> QED BY <1>1, <1>2, <1>3, <1>4, <1>5, <1>6, <1>7, <1>8

\* The steps that change the cluster.
LEMMA InvCluster ==
  ASSUME TypeOK, Inv, Adopts = FALSE,
         \/ XferLoad \/ XferCreate \/ RestoreScaleDown \/ RestoreCreate
         \/ FinSource \/ FinPin \/ FinRelease \/ FinScaleUp
         \/ JobEnds \/ PodStarts \/ PodGone \/ StaleGone \/ StsDeletes \/ StsCreates
  PROVE  Inv'
<1>0. server \in Statuses /\ m \in Statuses /\ MessagingTypeOK /\ ClusterTypeOK
  BY VersionTypes DEF TypeOK, StatusTypeOK
<1>1. UNCHANGED <<server, m>>
  BY DEF XferLoad, Push, Read, XferCreate, RestoreScaleDown, RestoreCreate, FinSource, FinPin,
     FinRelease, FinScaleUp, Cluster, JobEnds, PodStarts, PodGone, StaleGone, StsDeletes,
     StsCreates, Idle, server, statusVars
<1> USE DEF Inv, CopyOK, PhaseOK, SavedOK, PodsOK, SourceOK, Between
<1>2. CASE XferLoad
  <2>1. /\ pc = "xfer.load"
        /\ UNCHANGED <<on, podSrc, podShadow, owned, replicas, pinned, job, upload>>
        /\ \/ image' = m.ckpt /\ pc' = "xfer.status"
           \/ image' \in {image, m.ckpt} /\ pc' = "fail"
           \/ image' = image /\ pc' \in {"xfer.create", "xfer.mark", "requeue"}
           \/ image' = image /\ pc' = "xfer.status" /\ job = "succeeded"
    BY <1>2 DEF XferLoad, Push, Read, mqRest, podVars
  <2> QED BY <1>0, <1>1, <2>1
<1>3. CASE XferCreate
  <2>1. /\ pc = "xfer.create" /\ UNCHANGED <<on, podSrc, podShadow, owned, replicas, pinned, image>>
        /\ \/ /\ pc' = "requeue"
              /\ \/ job = "none" /\ job' = "active" /\ upload' = m.ckpt
                 \/ UNCHANGED <<job, upload>>
           \/ pc' = "fail" /\ UNCHANGED <<job, upload>>
    BY <1>3 DEF XferCreate, Cluster, mqRest, podVars
  <2> QED BY <1>0, <1>1, <2>1
<1>4. CASE RestoreScaleDown
  <2>1. /\ pc = "restore.scaleDown"
        /\ UNCHANGED <<on, podSrc, podShadow, owned, pinned, job, upload, image>>
        /\ \/ replicas' = 0 /\ pc' = "requeue"
           \/ replicas' = replicas /\ pc' = "fail"
    BY <1>4 DEF RestoreScaleDown, Cluster, mqRest, podVars
  <2> QED BY <1>0, <1>1, <2>1
<1>5. CASE RestoreCreate
  <2>1. /\ pc = "restore.create" /\ m = server
        /\ UNCHANGED <<on, replicas, pinned, job, upload, image>>
        /\ \/ /\ server.strategy = "Sequential" /\ podSrc = "none"
              /\ podSrc' = "starting" /\ podShadow' = podShadow /\ pc' = "requeue"
           \/ /\ server.strategy # "Sequential" /\ podShadow' = "starting" /\ podSrc' = podSrc
              /\ pc' = "requeue"
           \/ pc' \in {"requeue", "fail"} /\ UNCHANGED <<podSrc, podShadow>>
    BY <1>5 DEF RestoreCreate, Sequential, mqRest
  <2> QED BY <1>0, <1>1, <2>1
<1>6. CASE FinSource
  <2>1. /\ pc = "fin.source"
        /\ UNCHANGED <<on, podShadow, owned, replicas, pinned, job, upload, image>>
        /\ pc' \in {"fin.pin", "fin.release", "fin.close"}
        /\ \/ podSrc' = podSrc
           \/ podSrc # "none" /\ podSrc' = "terminating"
    BY <1>6 DEF FinSource, AfterSource, AfterPin, Cluster, mqRest, podVars
  <2> QED BY <1>0, <1>1, <2>1 DEF ClusterTypeOK
<1>7. CASE FinPin \/ FinRelease
  <2>1. /\ pc \in {"fin.pin", "fin.release"} /\ pc' \in {"fin.release", "fin.scaleUp", "fin.close"}
        /\ UNCHANGED <<on, podSrc, podShadow, replicas, job, upload, image>>
    BY <1>7 DEF FinPin, FinRelease, AfterPin, Cluster, mqRest, podVars
  <2> QED BY <1>0, <1>1, <2>1
<1>8. CASE FinScaleUp
  <2>1. m.orig \in Nat /\ replicas \in Nat
    BY <1>0 DEF Statuses, ClusterTypeOK
  <2>2. /\ pc = "fin.scaleUp" /\ pc' = "fin.close"
        /\ replicas' = replicas \/ (replicas < m.orig /\ replicas' = m.orig)
        /\ UNCHANGED <<on, podSrc, podShadow, job, upload, image>>
    BY <1>8, <2>1 DEF FinScaleUp, Cluster, mqRest, podVars
  <2>3. replicas' = 0 => replicas = 0
    BY <2>1, <2>2
  <2> QED BY <1>0, <1>1, <2>2, <2>3
<1>9. CASE JobEnds
  <2>1. /\ job = "active" /\ UNCHANGED <<pc, on, podSrc, podShadow, replicas, upload>>
        /\ \/ job' = "succeeded" /\ image' = upload
           \/ job' = "failed" /\ image' = image
    BY <1>9 DEF JobEnds, Idle, mqRest
  <2> QED BY <1>0, <1>1, <2>1
<1>10. CASE PodStarts
  <2>1. on \in [Procs -> Positions]
    BY <1>0 DEF MessagingTypeOK
  <2>2. /\ UNCHANGED <<pc, replicas, job, upload, image>> /\ on'["source"] = on["source"]
        /\ \/ /\ podSrc = "starting" /\ podSrc' = "running" /\ podShadow' = podShadow
           \/ /\ podShadow = "starting" /\ podShadow' = "running" /\ podSrc' = podSrc
              /\ on'["replacement"] = on["replacement"]
    BY <1>10, <2>1 DEF PodStarts, Restore, Idle, Procs
  <2> QED BY <1>0, <1>1, <2>2
<1>11. CASE PodGone
  <2>1. on \in [Procs -> Positions]
    BY <1>0 DEF MessagingTypeOK
  <2>2. /\ UNCHANGED <<pc, podShadow, replicas, job, upload, image>>
        /\ podSrc = "terminating" /\ podSrc' = "none"
        /\ on' = [on EXCEPT !["source"] = "off"]
    BY <1>11 DEF PodGone, Stop, Idle
  <2>3. on'["source"] = "off" /\ on'["replacement"] = on["replacement"]
    BY <2>1, <2>2 DEF Procs
  <2> QED BY <1>0, <1>1, <2>2, <2>3
<1>12. CASE StaleGone
  <2>1. /\ podShadow = "stale" /\ podShadow' = "none"
        /\ UNCHANGED <<pc, on, podSrc, replicas, job, upload, image>>
    BY <1>12 DEF StaleGone, Idle, mqVars
  <2> QED BY <1>0, <1>1, <2>1
<1>13. CASE StsDeletes
  <2>1. /\ replicas = 0 /\ podSrc = "source" /\ podSrc' = "terminating"
        /\ UNCHANGED <<pc, on, podShadow, replicas, job, upload, image>>
    BY <1>13 DEF StsDeletes, Idle, mqVars
  <2> QED BY <1>0, <1>1, <2>1 DEF Statuses, Phases
<1>14. CASE StsCreates
  <2>1. on \in [Procs -> Positions]
    BY <1>0 DEF MessagingTypeOK
  <2>2. /\ replicas > 0 /\ podSrc = "none" /\ podSrc' = "source"
        /\ on' = [on EXCEPT !["source"] = "primary"]
        /\ UNCHANGED <<pc, podShadow, replicas, job, upload, image>>
    BY <1>14 DEF StsCreates, Idle
  <2>3. on'["source"] = "primary" /\ on'["replacement"] = on["replacement"] /\ replicas # 0
    BY <2>1, <2>2 DEF Procs
  <2> QED BY <1>0, <1>1, <2>2, <2>3
<1> QED BY <1>2, <1>3, <1>4, <1>5, <1>6, <1>7, <1>8, <1>9, <1>10, <1>11, <1>12, <1>13, <1>14

\* The other steps.
LEMMA InvOthers ==
  ASSUME TypeOK, Inv, MaxLag = 0,
         CacheSync \/ Tick \/ ConnectionLost \/ Crash \/ Traffic \/ Done \/ UNCHANGED vars
  PROVE  Inv'
<1>0. server \in Statuses /\ m \in Statuses /\ StatusTypeOK /\ MessagingTypeOK
  BY VersionTypes DEF TypeOK, StatusTypeOK
<1>1. ~CacheSync
  BY <1>0 DEF StatusTypeOK, CacheSync
<1> USE DEF Inv, CopyOK, PhaseOK, SavedOK, PodsOK, SourceOK, Between
<1>2. CASE Crash
  <2>1. versions' = <<server>> /\ pc' = "idle" /\ UNCHANGED <<on, podVars>>
    BY <1>2 DEF Crash, topoVars
  <2>2. server' = server
    BY <2>1 DEF server
  <2> QED BY <1>0, <2>1, <2>2 DEF podVars
<1>3. CASE Tick \/ ConnectionLost \/ Done \/ UNCHANGED vars
  <2>1. UNCHANGED <<server, m, pc, on, podVars>>
    BY <1>3 DEF Tick, ConnectionLost, Done, Idle, statusVars, vars, mqVars, topoVars, server
  <2> QED BY <1>0, <2>1 DEF podVars
<1>4. CASE Traffic
  <2>1. UNCHANGED <<server, m, pc, podVars>>
    BY <1>4 DEF Traffic, Idle, statusVars, server
  <2>2. on'["source"] = "off" <=> on["source"] = "off"
    BY <1>0, <1>4, TrafficProcesses DEF SameProcesses, Procs
  <2>3. on'["replacement"] = "off" <=> on["replacement"] = "off"
    BY <1>0, <1>4, TrafficProcesses DEF SameProcesses, Procs
  <2> QED BY <1>0, <2>1, <2>2, <2>3 DEF podVars
<1> QED BY <1>1, <1>2, <1>3, <1>4

\* Every step keeps the invariant.
LEMMA InvNext ==
  ASSUME TypeOK, Inv, MaxLag = 0, Adopts = FALSE, [Next]_vars
  PROVE  Inv'
BY InvPatches, InvReads, InvCluster, InvOthers DEF Next, Handlers, Environment

\* The invariant holds at the start.
LEMMA InvInit == Init => Inv
<1> SUFFICES ASSUME Init PROVE Inv
  OBVIOUS
<1>1. PICK s \in Strategies :
        versions = <<[phase |-> "New", strategy |-> s, deploy |-> FALSE, ckpt |-> NoImage,
                      orig |-> 0, timers |-> {}, last |-> NoDepth]>>
  BY DEF Init
<1>2. server.phase = "New" /\ server.strategy = s /\ server.ckpt.ok = FALSE
  BY <1>1 DEF server, NoImage
<1>3. /\ on["source"] = (IF podSrc # "none" THEN "primary" ELSE "off")
      /\ on["replacement"] = "off"
  BY DEF Init, Procs
<1>4. /\ pc = "idle" /\ podSrc \in {"source", "terminating", "none"}
      /\ podShadow \in {"none", "stale"} /\ replicas # 0 /\ job = "none"
  BY DEF Init
<1> QED BY <1>2, <1>3, <1>4 DEF Inv, CopyOK, PhaseOK, SavedOK, PodsOK, SourceOK, Between

-----------------------------------------------------------------------------
(***************************************************************************)
(* Every step is a step of the life cycle, or changes nothing it shows.    *)
(***************************************************************************)
\* What the life cycle shows of the status.
SameStatus ==
  /\ server'.phase = server.phase /\ server'.strategy = server.strategy
  /\ server'.ckpt.ok = server.ckpt.ok

\* A step that changes nothing the life cycle sees is a stutter of it.
LEMMA Stutter ==
  ASSUME SameStatus, image'.ok = image.ok,
         on'["source"] = "off" <=> on["source"] = "off",
         UNCHANGED <<podSrc, podShadow>>
  PROVE  UNCHANGED Lifecycle!vars
BY DEF SameStatus, Lifecycle!vars

\* A life cycle step that only moves the phase, or records the checkpoint.
LEMMA PhaseMoves ==
  ASSUME UNCHANGED <<on, podVars>>, server'.strategy = server.strategy, SavedOK, PodsOK,
         \/ /\ server'.ckpt = server.ckpt
            /\ \/ server.phase = "New" /\ server'.phase = "Pending"
               \/ server.phase = "Pending" /\ server'.phase = "Checkpointing"
                  /\ server.strategy # "Auto"
               \/ server.phase = "Transferring" /\ server'.phase = "Restoring" /\ image.ok
               \/ server.phase = "Restoring" /\ server'.phase = "Replaying"
                  /\ (podSrc = "running" \/ podShadow = "running")
               \/ server.phase = "Replaying" /\ server'.phase = "Finalizing"
               \/ server.phase = "Finalizing" /\ server'.phase = "Completed"
               \/ /\ server.phase \in {"Pending", "Checkpointing", "Transferring",
                                       "Restoring", "Replaying"}
                  /\ server'.phase = "Failed"
         \/ /\ server.phase = "Checkpointing" /\ server'.phase = "Transferring"
            /\ server'.ckpt.ok = TRUE /\ podSrc = "source"
  PROVE  Lifecycle!Next
<1> USE DEF podVars, Lifecycle!Next, Lifecycle!Moves
<1>1. CASE server.phase = "New" /\ server'.phase = "Pending" /\ server'.ckpt = server.ckpt
  BY <1>1 DEF Lifecycle!Accept
<1>2. CASE /\ server.phase = "Pending" /\ server'.phase = "Checkpointing"
           /\ server.strategy # "Auto" /\ server'.ckpt = server.ckpt
  BY <1>2 DEF Lifecycle!Validate
<1>3. CASE /\ server.phase = "Transferring" /\ server'.phase = "Restoring" /\ image.ok
           /\ server'.ckpt = server.ckpt
  BY <1>3 DEF Lifecycle!Transfer
<1>4. CASE /\ server.phase = "Restoring" /\ server'.phase = "Replaying"
           /\ podSrc = "running" \/ podShadow = "running"
           /\ server'.ckpt = server.ckpt
  BY <1>4 DEF Lifecycle!Restore
<1>5. CASE /\ server.phase = "Replaying" /\ server'.phase = "Finalizing"
           /\ server'.ckpt = server.ckpt
  BY <1>5 DEF Lifecycle!Replay
<1>6. CASE /\ server.phase = "Finalizing" /\ server'.phase = "Completed"
           /\ server'.ckpt = server.ckpt
  BY <1>6 DEF Lifecycle!Complete
<1>7. CASE /\ server.phase \in {"Pending", "Checkpointing", "Transferring", "Restoring",
                                "Replaying"}
           /\ server'.phase = "Failed" /\ server'.ckpt = server.ckpt
  BY <1>7 DEF Lifecycle!Fail
<1>8. CASE /\ server.phase = "Checkpointing" /\ server'.phase = "Transferring"
           /\ server'.ckpt.ok = TRUE /\ podSrc = "source"
  BY <1>8 DEF Lifecycle!Checkpoint, PodsOK
<1> QED BY <1>1, <1>2, <1>3, <1>4, <1>5, <1>6, <1>7, <1>8

\* Every status patch is a step of the life cycle or a stutter.
LEMMA SimPatches ==
  ASSUME TypeOK, Inv,
         \/ FailMigration \/ Accept \/ PendingRecord \/ CkptStatus \/ XferMark \/ XferStatus
         \/ RestoreMark \/ RestoreOrig \/ RestoreStatus \/ ReplayMark \/ ReplayCheck
         \/ ReplayStatus \/ FinMark \/ FinComplete
  PROVE  [Lifecycle!Next]_(Lifecycle!vars)
<1>0. server \in Statuses /\ m \in Statuses /\ StatusTypeOK
  BY VersionTypes DEF TypeOK, StatusTypeOK
<1>1. ASSUME UNCHANGED <<on, podVars>>, SameStatus PROVE UNCHANGED Lifecycle!vars
  BY <1>1, Stutter DEF podVars
<1>2. CASE XferMark \/ RestoreMark \/ ReplayMark \/ FinMark
  <2>1. PICK k \in StartKeys : \E l, next : Mark(l, k, next)
    BY <1>2 DEF XferMark, RestoreMark, ReplayMark, FinMark, StartKeys
  <2> DEFINE s == [server EXCEPT !.timers = @ \cup {k}]
  <2>2. s \in Statuses
    BY Written
  <2>3. s.phase = server.phase /\ s.strategy = server.strategy /\ s.ckpt = server.ckpt
    BY <1>0 DEF Statuses
  <2>4. PICK l, next : Patch(l, s, next, next)
    BY <2>1 DEF Mark
  <2> HIDE DEF s
  <2>5. (server' = s \/ server' = server) /\ UNCHANGED <<on, podVars>>
    BY <1>0, <2>2, <2>4, PatchStep
  <2> QED BY <1>1, <2>3, <2>5 DEF SameStatus
<1>3. CASE FailMigration
  <2> DEFINE s == [server EXCEPT !.phase = "Failed"]
  <2>1. s \in Statuses
    BY Written DEF Phases, StartKeys
  <2>2. PICK l, next, onErr : Patch(l, s, next, onErr)
    BY <1>3 DEF FailMigration
  <2>3. /\ s.phase = "Failed" /\ s.strategy = server.strategy /\ s.ckpt = server.ckpt
        /\ server.phase \in {"Pending", "Checkpointing", "Transferring", "Restoring", "Replaying"}
    BY <1>0, <1>3 DEF FailMigration, Patch, Inv, PhaseOK, Statuses
  <2> HIDE DEF s
  <2>4. (server' = s \/ server' = server) /\ UNCHANGED <<on, podVars>>
    BY <1>0, <2>1, <2>2, PatchStep
  <2> QED BY <1>1, <2>3, <2>4, PhaseMoves DEF SameStatus, Inv
<1>4. CASE Accept
  <2> DEFINE s == [server EXCEPT !.phase = "Pending"]
  <2>1. s \in Statuses
    BY Written DEF Phases, StartKeys
  <2>2. PICK l, next, onErr : Patch(l, s, next, onErr)
    BY <1>4 DEF Accept
  <2>3. /\ s.phase = "Pending" /\ s.strategy = server.strategy /\ s.ckpt = server.ckpt
        /\ server.phase = "New"
    BY <1>0, <1>4 DEF Accept, Patch, Inv, PhaseOK, Statuses
  <2> HIDE DEF s
  <2>4. (server' = s \/ server' = server) /\ UNCHANGED <<on, podVars>>
    BY <1>0, <2>1, <2>2, PatchStep
  <2> QED BY <1>1, <2>3, <2>4, PhaseMoves DEF SameStatus, Inv
<1>5. CASE CkptStatus
  <2> DEFINE s == [server EXCEPT !.phase = "Transferring", !.ckpt = m.ckpt]
  <2>1. s \in Statuses
    BY Written DEF Phases, StartKeys
  <2>2. PICK l, next, onErr : Patch(l, s, next, onErr)
    BY <1>5 DEF CkptStatus, Transition
  <2>3. /\ s.phase = "Transferring" /\ s.strategy = server.strategy
        /\ s.ckpt.ok = TRUE /\ server.phase = "Checkpointing" /\ podSrc = "source"
    BY <1>0, <1>5 DEF CkptStatus, Patch, Transition, Inv, CopyOK, PhaseOK, SourceOK, Statuses
  <2> HIDE DEF s
  <2>4. (server' = s \/ server' = server) /\ UNCHANGED <<on, podVars>>
    BY <1>0, <2>1, <2>2, PatchStep
  <2> QED BY <1>1, <2>3, <2>4, PhaseMoves DEF SameStatus, Inv
<1>6. CASE XferStatus
  <2> DEFINE s == [server EXCEPT !.phase = "Restoring", !.timers = @ \ {"Transferring"}]
  <2>1. s \in Statuses
    BY Written DEF Phases, StartKeys
  <2>2. PICK l, next, onErr : Patch(l, s, next, onErr)
    BY <1>6 DEF XferStatus, Transition
  <2>3. /\ s.phase = "Restoring" /\ s.strategy = server.strategy /\ s.ckpt = server.ckpt
        /\ server.phase = "Transferring" /\ image.ok
    BY <1>0, <1>6 DEF XferStatus, Patch, Transition, Inv, PhaseOK, SavedOK, Statuses
  <2> HIDE DEF s
  <2>4. (server' = s \/ server' = server) /\ UNCHANGED <<on, podVars>>
    BY <1>0, <2>1, <2>2, PatchStep
  <2> QED BY <1>1, <2>3, <2>4, PhaseMoves DEF SameStatus, Inv
<1>7. CASE RestoreOrig
  <2> DEFINE s == [server EXCEPT !.orig = replicas]
  <2>1. s \in Statuses
    BY Written DEF Phases, StartKeys
  <2>2. PICK l, next, onErr : Patch(l, s, next, onErr)
    BY <1>7 DEF RestoreOrig
  <2>3. s.phase = server.phase /\ s.strategy = server.strategy /\ s.ckpt = server.ckpt
    BY <1>0, <1>7 DEF RestoreOrig, Patch, Inv, PhaseOK, Statuses
  <2> HIDE DEF s
  <2>4. (server' = s \/ server' = server) /\ UNCHANGED <<on, podVars>>
    BY <1>0, <2>1, <2>2, PatchStep
  <2> QED BY <1>1, <2>3, <2>4 DEF SameStatus
<1>8. CASE RestoreStatus
  <2> DEFINE s == [server EXCEPT !.phase = "Replaying", !.timers = @ \ {"Restoring"}]
  <2>1. s \in Statuses
    BY Written DEF Phases, StartKeys
  <2>2. PICK l, next, onErr : Patch(l, s, next, onErr)
    BY <1>8 DEF RestoreStatus, Transition
  <2>3. /\ s.phase = "Replaying" /\ s.strategy = server.strategy /\ s.ckpt = server.ckpt
        /\ server.phase = "Restoring" /\ (podSrc = "running" \/ podShadow = "running")
    BY <1>0, <1>8 DEF RestoreStatus, Patch, Transition, Inv, PhaseOK, PodsOK, Statuses
  <2> HIDE DEF s
  <2>4. (server' = s \/ server' = server) /\ UNCHANGED <<on, podVars>>
    BY <1>0, <2>1, <2>2, PatchStep
  <2> QED BY <1>1, <2>3, <2>4, PhaseMoves DEF SameStatus, Inv
<1>9. CASE ReplayStatus
  <2> DEFINE s == [server EXCEPT !.phase = "Finalizing", !.timers = @ \ {"Replaying"},
                               !.last = NoDepth]
  <2>1. s \in Statuses
    BY Written DEF Phases, StartKeys
  <2>2. PICK l, next, onErr : Patch(l, s, next, onErr)
    BY <1>9 DEF ReplayStatus, Transition
  <2>3. /\ s.phase = "Finalizing" /\ s.strategy = server.strategy /\ s.ckpt = server.ckpt
        /\ server.phase = "Replaying"
    BY <1>0, <1>9 DEF ReplayStatus, Patch, Transition, Inv, PhaseOK, Statuses
  <2> HIDE DEF s
  <2>4. (server' = s \/ server' = server) /\ UNCHANGED <<on, podVars>>
    BY <1>0, <2>1, <2>2, PatchStep
  <2> QED BY <1>1, <2>3, <2>4, PhaseMoves DEF SameStatus, Inv
<1>10. CASE FinComplete
  <2> DEFINE s == [server EXCEPT !.phase = "Completed"]
  <2>1. s \in Statuses
    BY Written DEF Phases, StartKeys
  <2>2. PICK l, next, onErr : Patch(l, s, next, onErr)
    BY <1>10 DEF FinComplete
  <2>3. /\ s.phase = "Completed" /\ s.strategy = server.strategy /\ s.ckpt = server.ckpt
        /\ server.phase = "Finalizing"
    BY <1>0, <1>10 DEF FinComplete, Patch, Inv, PhaseOK, Statuses
  <2> HIDE DEF s
  <2>4. (server' = s \/ server' = server) /\ UNCHANGED <<on, podVars>>
    BY <1>0, <2>1, <2>2, PatchStep
  <2> QED BY <1>1, <2>3, <2>4, PhaseMoves DEF SameStatus, Inv
<1>11. CASE ReplayCheck
  <2> DEFINE s == [server EXCEPT !.last = depth]
  <2>0. s \in Statuses
    BY Written
  <2>1. s.phase = server.phase /\ s.strategy = server.strategy /\ s.ckpt = server.ckpt
    BY <1>0 DEF Statuses
  <2> HIDE DEF s
  <2>2. CASE Patch("replay.check", s, "requeue", "requeue")
    BY <1>0, <1>1, <2>0, <2>1, <2>2, PatchStep DEF SameStatus
  <2>3. CASE UNCHANGED <<mqVars, statusVars, podVars>>
    BY <1>1, <2>3 DEF SameStatus, server, statusVars, mqVars
  <2> QED BY <1>11, <2>2, <2>3 DEF ReplayCheck, s
<1>12. CASE PendingRecord
  <2> DEFINE b == owner = "Deployment"
             s == [server EXCEPT !.phase = "Checkpointing", !.deploy = @ \/ b]
             t == [server EXCEPT !.phase = "Checkpointing"]
  <2>1. s \in Statuses /\ t \in Statuses
    BY Written DEF Phases
  <2>2. /\ s.phase = "Checkpointing" /\ s.strategy = server.strategy /\ s.ckpt = server.ckpt
        /\ t.phase = "Checkpointing" /\ t.strategy = server.strategy /\ t.ckpt = server.ckpt
    BY <1>0 DEF Statuses
  <2>3. pc = "pending.record" /\ server.phase = "Pending" /\ server.strategy # "Auto"
    BY <1>12 DEF PendingRecord, Transition, Patch, Inv, PhaseOK, SavedOK
  <2> HIDE DEF s, t
  <2>4. /\ server' = s \/ server' = t \/ server' = server
        /\ UNCHANGED <<on, podVars>>
    <3>1. CASE Transition("pending.record", s)
      BY <1>0, <2>1, <3>1, PatchStep DEF Transition
    <3>2. CASE Save(t) /\ UNCHANGED <<mqRest, podVars, specVars>>
      BY <1>0, <2>1, <3>2, SaveTypes DEF mqRest
    <3> QED BY <1>12, <3>1, <3>2 DEF PendingRecord, s, t
  <2> QED BY <1>1, <2>2, <2>3, <2>4, PhaseMoves DEF SameStatus, Inv
<1> QED BY <1>2, <1>3, <1>4, <1>5, <1>6, <1>7, <1>8, <1>9, <1>10, <1>11, <1>12

\* Reads and broker calls are stutters, but for the detection of the strategy.
LEMMA SimReads ==
  ASSUME TypeOK, Inv, MaxLag = 0,
         \/ Reconcile \/ Refetch \/ Requeue \/ PendingGet \/ PendingDetect
         \/ CkptConnect \/ CkptQueue \/ CkptCall \/ RestoreGet
         \/ ReplayUnbind \/ ReplayStart \/ ReplayPoll \/ FinEndReplay \/ FinDeleteQueue
         \/ FinReadError \/ FinClose
         \/ CacheSync \/ Tick \/ ConnectionLost \/ Crash \/ Traffic \/ Done \/ UNCHANGED vars
  PROVE  [Lifecycle!Next]_(Lifecycle!vars)
<1>0. server \in Statuses /\ StatusTypeOK /\ MessagingTypeOK
  BY VersionTypes DEF TypeOK
<1>1. ASSUME SameProcesses, UNCHANGED <<server, podVars>> PROVE UNCHANGED Lifecycle!vars
  <2>1. on'["source"] = "off" <=> on["source"] = "off"
    BY <1>1 DEF SameProcesses, Procs
  <2> QED BY <1>1, <2>1, Stutter DEF SameStatus, podVars
<1>2. CASE \/ CkptConnect \/ CkptQueue \/ ReplayUnbind \/ ReplayStart \/ ReplayPoll
           \/ FinEndReplay \/ FinDeleteQueue \/ FinClose
  <2>1. PodName(Target) \in Names /\ StartReplay("replay") \in ControlMsgs
        /\ EndReplay \in ControlMsgs /\ "replay" \in Queues
    BY DEF PodName, Names, ControlMsgs, Queues
  <2>2. ClientStep
    BY <1>2, <2>1 DEF CkptConnect, CkptQueue, ReplayUnbind, ReplayStart, ReplayPoll,
       FinEndReplay, FinDeleteQueue, FinClose, Broker, ClientStep
  <2>3. UNCHANGED <<server, podVars>>
    BY <1>2 DEF CkptConnect, CkptQueue, ReplayUnbind, ReplayStart, ReplayPoll,
       FinEndReplay, FinDeleteQueue, FinClose, Broker, server, statusVars
  <2> QED BY <1>0, <1>1, <2>2, <2>3, ClientProcesses
<1>3. CASE \/ Reconcile \/ Refetch \/ Requeue \/ PendingGet \/ CkptCall \/ RestoreGet
           \/ FinReadError \/ Tick \/ ConnectionLost \/ Done \/ UNCHANGED vars
  <2>1. UNCHANGED <<versions, on, podVars>>
    BY <1>3 DEF Reconcile, Refetch, Fetch, Requeue, PendingGet, CkptCall, RestoreGet, Read,
       FinReadError, Tick, ConnectionLost, Done, Idle, statusVars, vars, mqVars, mqRest, topoVars
  <2> QED BY <1>1, <2>1 DEF server, SameProcesses
<1>4. CASE CacheSync
  BY <1>0, <1>4 DEF StatusTypeOK, CacheSync
<1>5. CASE Crash
  <2>1. versions' = <<server>> /\ UNCHANGED <<on, podVars>>
    BY <1>5 DEF Crash, topoVars
  <2>2. server' = server
    BY <2>1 DEF server
  <2> QED BY <1>1, <2>1, <2>2 DEF SameProcesses
<1>6. CASE Traffic
  <2>1. UNCHANGED <<server, podVars>>
    BY <1>6 DEF Traffic, Idle, statusVars, server
  <2> QED BY <1>0, <1>1, <1>6, <2>1, TrafficProcesses
<1>7. CASE PendingDetect
  <2>1. pc = "pending.detect" /\ server.phase = "Pending" /\ UNCHANGED <<on, podVars, specVars>>
    BY <1>7 DEF PendingDetect, mqRest, Inv, PhaseOK
  <2>2. CASE UNCHANGED statusVars
    BY <1>1, <2>1, <2>2 DEF statusVars, server, SameProcesses
  <2>3. ASSUME NEW k \in {"ShadowPod", "Sequential"}, Save([server EXCEPT !.strategy = k])
        PROVE  [Lifecycle!Next]_(Lifecycle!vars)
    <3> DEFINE s == [server EXCEPT !.strategy = k]
    <3>1. s \in Statuses
      BY Written
    <3>2. s.phase = server.phase /\ s.ckpt = server.ckpt /\ s.strategy = k
      BY <1>0 DEF Statuses
    <3> HIDE DEF s
    <3>3. Save(s)
      BY <2>3 DEF s
    <3>4. server' = s
      BY <1>0, <2>1, <3>1, <3>3, SaveTypes
    <3>5. server.strategy = "Auto"
      BY <2>1 DEF Inv, SavedOK
    <3> QED BY <2>1, <3>2, <3>4, <3>5 DEF Lifecycle!Next, Lifecycle!Detect, podVars
  <2> QED BY <1>7, <2>2, <2>3 DEF PendingDetect
<1> QED BY <1>2, <1>3, <1>4, <1>5, <1>6, <1>7

\* Every change to pods, image and Job is a step of the life cycle or a stutter.
LEMMA SimCluster ==
  ASSUME TypeOK, Inv, Adopts = FALSE,
         \/ XferLoad \/ XferCreate \/ RestoreScaleDown \/ RestoreCreate
         \/ FinSource \/ FinPin \/ FinRelease \/ FinScaleUp
         \/ JobEnds \/ PodStarts \/ PodGone \/ StaleGone \/ StsDeletes \/ StsCreates
  PROVE  [Lifecycle!Next]_(Lifecycle!vars)
<1>0. server \in Statuses /\ m \in Statuses /\ MessagingTypeOK /\ ClusterTypeOK
  BY VersionTypes DEF TypeOK, StatusTypeOK
<1>1. UNCHANGED server
  BY DEF XferLoad, Push, Read, XferCreate, RestoreScaleDown, RestoreCreate, FinSource, FinPin,
     FinRelease, FinScaleUp, Cluster, JobEnds, PodStarts, PodGone, StaleGone, StsDeletes,
     StsCreates, Idle, server, statusVars
<1>2. image.ok \in BOOLEAN /\ m.ckpt.ok \in BOOLEAN /\ upload.ok \in BOOLEAN
  BY <1>0 DEF ClusterTypeOK, Images, Statuses
<1> DEFINE source == on["source"] # "off"
           target == podSrc = "running" \/ podShadow = "running"
\* The image gets published, or nothing changes.
<1>3. ASSUME \/ image'.ok = image.ok
             \/ image'.ok = TRUE /\ server.ckpt.ok /\ server.phase \in {"Transferring", "Failed"},
             UNCHANGED <<on, podSrc, podShadow>>
      PROVE  [Lifecycle!Next]_(Lifecycle!vars)
  <2>1. CASE image'.ok = image.ok
    BY <1>1, <1>3, <2>1, Stutter DEF SameStatus
  <2>2. CASE image'.ok = TRUE /\ server.ckpt.ok /\ server.phase \in {"Transferring", "Failed"}
    BY <1>1, <1>3, <2>2 DEF Lifecycle!Next, Lifecycle!Publish
  <2> QED BY <1>3, <2>1, <2>2
\* The source starts or stops.
<1>4. ASSUME image' = image, target' <=> target, source' <=> ~source,
             \/ ~server.ckpt.ok
             \/ server.strategy = "Sequential" /\ server.phase = "Restoring" /\ source
             \/ server.strategy = "ShadowPod" /\ server.phase \in {"Finalizing", "Completed"}
                /\ target
      PROVE  [Lifecycle!Next]_(Lifecycle!vars)
  BY <1>1, <1>4 DEF Lifecycle!Next, Lifecycle!SourceChanges
<1>5. ASSUME image' = image, target' <=> target, source' <=> source
      PROVE  [Lifecycle!Next]_(Lifecycle!vars)
  BY <1>1, <1>5 DEF Lifecycle!vars
<1>6. CASE XferLoad
  <2>1. /\ pc = "xfer.load" /\ UNCHANGED <<on, podSrc, podShadow>>
        /\ image' = image \/ image' = m.ckpt
    BY <1>6 DEF XferLoad, Push, Read, mqRest, podVars
  <2>2. m = server /\ server.phase = "Transferring" /\ server.ckpt.ok
    BY <2>1 DEF Inv, CopyOK, PhaseOK, SavedOK, Between
  <2> QED BY <1>2, <1>3, <2>1, <2>2
<1>7. CASE JobEnds
  <2>1. /\ job = "active" /\ UNCHANGED <<on, podSrc, podShadow>>
        /\ image' = image \/ image' = upload
    BY <1>7 DEF JobEnds, Idle, mqRest
  <2>2. /\ upload.ok /\ server.ckpt.ok
        /\ server.phase \in {"Transferring", "Failed"} \/ image.ok
    BY <1>0, <2>1 DEF Inv, SavedOK, Statuses, Phases
  <2>3. \/ image'.ok = image.ok
        \/ image'.ok = TRUE /\ server.ckpt.ok /\ server.phase \in {"Transferring", "Failed"}
    <3>1. CASE image' = image
      BY <3>1
    <3>2. CASE image' = upload
      <4>1. image'.ok = TRUE
        BY <1>2, <2>2, <3>2
      <4> QED BY <1>2, <2>2, <4>1
    <3> QED BY <2>1, <3>1, <3>2
  <2>4. UNCHANGED <<on, podSrc, podShadow>>
    BY <2>1
  <2> QED BY <1>3, <2>3, <2>4, Zenon
<1>8. CASE XferCreate \/ RestoreScaleDown \/ FinPin \/ FinRelease \/ FinScaleUp
  <2>1. UNCHANGED <<on, podSrc, podShadow, image>>
    BY <1>8 DEF XferCreate, RestoreScaleDown, FinPin, FinRelease, FinScaleUp, Cluster, mqRest,
       podVars
  <2> QED BY <1>5, <2>1
<1>9. CASE RestoreCreate
  <2>1. /\ pc = "restore.create" /\ m = server /\ UNCHANGED <<on, image>>
        /\ \/ /\ server.strategy = "Sequential"
              /\ podSrc = "none" /\ podSrc' = "starting" /\ podShadow' = podShadow
           \/ /\ server.strategy # "Sequential"
              /\ podShadow' = "starting" /\ podSrc' = podSrc
           \/ UNCHANGED <<podSrc, podShadow>>
    BY <1>9 DEF RestoreCreate, Sequential, mqRest, Inv, CopyOK, Between
  <2> QED BY <1>5, <2>1 DEF Inv, PodsOK
<1>10. CASE FinSource
  <2>1. /\ pc = "fin.source" /\ UNCHANGED <<on, podShadow, image>>
        /\ podSrc' = podSrc \/ podSrc' = "terminating"
    BY <1>10 DEF FinSource, Cluster, mqRest, podVars
  <2>2. podSrc # "running"
    BY <2>1 DEF Inv, PodsOK, SourceOK
  <2> QED BY <1>5, <2>1, <2>2
<1>11. CASE StaleGone \/ StsDeletes
  <2>1. /\ UNCHANGED <<on, image>>
        /\ \/ podShadow = "stale" /\ podShadow' = "none" /\ podSrc' = podSrc
           \/ podSrc = "source" /\ podSrc' = "terminating" /\ podShadow' = podShadow
    BY <1>11 DEF StaleGone, StsDeletes, mqVars
  <2> QED BY <1>5, <2>1
<1>12. CASE PodStarts
  <2>1. on \in [Procs -> Positions]
    BY <1>0 DEF MessagingTypeOK
  <2>2. /\ UNCHANGED image /\ image.ok /\ on'["source"] = on["source"]
        /\ \/ podSrc = "starting" /\ podSrc' = "running" /\ podShadow' = podShadow
           \/ podShadow = "starting" /\ podShadow' = "running" /\ podSrc' = podSrc
    BY <1>12, <2>1 DEF PodStarts, Restore, Procs
  <2>3. server.phase = "Restoring" /\ (server.strategy = "Sequential" => on["source"] = "off")
    BY <2>2 DEF Inv, PodsOK
  <2> QED BY <1>1, <2>2, <2>3 DEF Lifecycle!Next, Lifecycle!StartTarget
<1>13. CASE PodGone
  <2>1. on \in [Procs -> Positions]
    BY <1>0 DEF MessagingTypeOK
  <2>2. /\ UNCHANGED <<image, podShadow>> /\ podSrc = "terminating" /\ podSrc' = "none"
        /\ on' = [on EXCEPT !["source"] = "off"] /\ on["source"] # "off"
    BY <1>13 DEF PodGone, Stop, Inv, PodsOK
  <2>3. on'["source"] = "off"
    BY <2>1, <2>2 DEF Procs
  <2>4. \/ ~server.ckpt.ok
        \/ server.strategy = "Sequential" /\ server.phase = "Restoring"
        \/ server.strategy = "ShadowPod" /\ server.phase \in {"Finalizing", "Completed"} /\ target
    BY <1>0, <2>2 DEF Inv, SavedOK, PodsOK, SourceOK, Statuses
  <2> QED BY <1>4, <2>2, <2>3, <2>4
<1>14. CASE StsCreates
  <2>1. on \in [Procs -> Positions]
    BY <1>0 DEF MessagingTypeOK
  <2>2. /\ UNCHANGED <<image, podShadow>> /\ podSrc = "none" /\ podSrc' = "source"
        /\ replicas > 0 /\ on' = [on EXCEPT !["source"] = "primary"]
    BY <1>14 DEF StsCreates
  <2>3. on'["source"] = "primary" /\ replicas # 0 /\ on["source"] = "off"
    BY <2>1, <2>2 DEF Procs, Inv, PodsOK
  <2>4. \/ ~server.ckpt.ok
        \/ server.strategy = "ShadowPod" /\ server.phase \in {"Finalizing", "Completed"} /\ target
    BY <1>0, <2>2, <2>3 DEF Inv, SavedOK, PodsOK, SourceOK, Statuses
  <2> QED BY <1>4, <2>2, <2>3, <2>4
<1> QED BY <1>6, <1>7, <1>8, <1>9, <1>10, <1>11, <1>12, <1>13, <1>14

\* A migration whose controller reads the migration as it is (no lag of the cache), in a
\* cluster whose StatefulSet controller does not adopt the target, implements its life
\* cycle (README.md 60-80; Reconcile and its handlers), in spite of any number of broker,
\* API and Job failures and of controller crashes.
THEOREM LifecycleImplemented ==
  ASSUME MaxLag = 0, Adopts = FALSE
  PROVE  Spec => ImplementsLifecycle
<1>1. Init => Lifecycle!Init
  <2> SUFFICES ASSUME Init PROVE Lifecycle!Init
    OBVIOUS
  <2>1. PICK s \in Strategies :
          versions = <<[phase |-> "New", strategy |-> s, deploy |-> FALSE, ckpt |-> NoImage,
                        orig |-> 0, timers |-> {}, last |-> NoDepth]>>
    BY DEF Init
  <2>2. server.phase = "New" /\ server.strategy = s /\ server.ckpt.ok = FALSE
    BY <2>1 DEF server, NoImage
  <2>3. image.ok = FALSE /\ podSrc # "running" /\ podShadow # "running"
    BY DEF Init, NoImage
  <2> QED BY <2>2, <2>3 DEF Lifecycle!Init
<1>2. TypeOK /\ Inv /\ [Next]_vars => Inv'
  BY InvNext
<1>3. TypeOK /\ Inv /\ [Next]_vars => [Lifecycle!Next]_(Lifecycle!vars)
  BY SimPatches, SimReads, SimCluster DEF Next, Handlers, Environment
<1> QED BY <1>1, <1>2, <1>3, InvInit, TypeCorrect, PTL DEF Spec, ImplementsLifecycle, Lifecycle!Spec

\* A ShadowPod migration that fails leaves the source pod running, under the same
\* conditions: nothing before handleFinalizing touches the source.
THEOREM SourceKept ==
  ASSUME MaxLag = 0, Adopts = FALSE
  PROVE  Spec => []FailedKeepsSource
<1>1. TypeOK /\ Inv /\ [Next]_vars => Inv'
  BY InvNext
<1>2. Inv => FailedKeepsSource
  BY DEF Inv, SourceOK, FailedKeepsSource
<1> QED BY <1>1, <1>2, InvInit, TypeCorrect, PTL DEF Spec

\* With current reads StateSurvives is also a consequence of the life cycle: what an
\* implementation keeps of it needs no second proof.
THEOREM StateKept ==
  ASSUME MaxLag = 0, Adopts = FALSE
  PROVE  Spec => []StateSurvives
<1> QED BY LifecycleImplemented, Lifecycle!Survival DEF ImplementsLifecycle, StateSurvives
=============================================================================
