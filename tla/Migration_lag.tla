---------------------------- MODULE Migration_lag ----------------------------
(***************************************************************************)
(* What holds of a migration however far the cache is behind: types, that  *)
(* a completed migration stays completed, and what it leaves behind.       *)
(***************************************************************************)
EXTENDS Migration, Messaging_types

USE MessagingAssumption, MigrationAssumption

-----------------------------------------------------------------------------
(***************************************************************************)
(* The status.                                                             *)
(***************************************************************************)
LEMMA VersionTypes ==
  ASSUME StatusTypeOK
  PROVE  server \in Statuses /\ cached \in Statuses
<1>1. versions \in Seq(Statuses) /\ Len(versions) \in Nat \ {0}
  BY DEF StatusTypeOK
<1>2. versions # <<>>
  BY <1>1
<1>3. Head(versions) \in Statuses
  BY <1>1, <1>2
<1> QED BY <1>1, <1>3 DEF server, cached

\* The API server holds s after Save(s), and the versions before it stay.
LEMMA SaveTypes ==
  ASSUME StatusTypeOK, NEW s \in Statuses, Save(s), UNCHANGED specVars
  PROVE  StatusTypeOK' /\ server' = s
<1>1. CASE MaxLag = 0
  <2>1. versions' = <<s>> /\ queued' = TRUE
    BY <1>1 DEF Save
  <2>2. versions' \in Seq(Statuses) /\ Len(versions') = 1 /\ versions'[1] = s
    BY <2>1
  <2> QED BY <1>1, <2>1, <2>2 DEF Save, StatusTypeOK, server, specVars
<1>2. CASE MaxLag # 0
  <2>1. Len(versions) <= MaxLag /\ versions' = Append(versions, s) /\ queued' = queued
    BY <1>2 DEF Save
  <2>2. /\ versions' \in Seq(Statuses)
        /\ Len(versions') = Len(versions) + 1
        /\ versions'[Len(versions) + 1] = s
    BY <2>1 DEF StatusTypeOK
  <2> QED BY <2>1, <2>2 DEF Save, StatusTypeOK, server, specVars
<1> QED BY <1>1, <1>2

\* A patch to a well-typed status keeps the types, whether it succeeds or not.
LEMMA PatchTypes ==
  ASSUME StatusTypeOK, NEW l, NEW s \in Statuses, NEW next, NEW onErr, Patch(l, s, next, onErr)
  PROVE  StatusTypeOK'
<1>1. CASE Save(s)
  BY <1>1, SaveTypes DEF Patch
<1>2. CASE UNCHANGED statusVars
  BY <1>2 DEF Patch, statusVars, specVars, StatusTypeOK
<1> QED BY <1>1, <1>2 DEF Patch

\* Every status a handler writes has its type.
LEMMA Written ==
  ASSUME TypeOK
  PROVE  /\ \A p \in Phases : [server EXCEPT !.phase = p] \in Statuses
         /\ \A k \in StartKeys : [server EXCEPT !.timers = @ \cup {k}] \in Statuses
         /\ \A p \in Phases, k \in StartKeys :
              [server EXCEPT !.phase = p, !.timers = @ \ {k}] \in Statuses
         /\ \A p \in Phases, k \in StartKeys :
              [server EXCEPT !.phase = p, !.timers = @ \ {k}, !.last = NoDepth] \in Statuses
         /\ \A p \in Phases : [server EXCEPT !.phase = p, !.ckpt = m.ckpt] \in Statuses
         /\ \A p \in Phases, b \in BOOLEAN :
              [server EXCEPT !.phase = p, !.deploy = @ \/ b] \in Statuses
         /\ \A k \in {"ShadowPod", "Sequential"} : [server EXCEPT !.strategy = k] \in Statuses
         /\ [server EXCEPT !.orig = replicas] \in Statuses
         /\ [server EXCEPT !.last = depth] \in Statuses
<1>1. server \in Statuses /\ m \in Statuses
  BY VersionTypes DEF TypeOK, StatusTypeOK
<1>2. replicas \in 0 .. Replicas /\ depth \in 0 .. NoDepth /\ NoDepth \in 0 .. NoDepth
  BY DEF TypeOK, ClusterTypeOK, ControllerTypeOK, NoDepth
<1>3. /\ \A p \in Phases : [server EXCEPT !.phase = p] \in Statuses
      /\ \A k \in StartKeys : [server EXCEPT !.timers = @ \cup {k}] \in Statuses
      /\ \A p \in Phases : [server EXCEPT !.phase = p, !.ckpt = m.ckpt] \in Statuses
      /\ [server EXCEPT !.orig = replicas] \in Statuses
      /\ [server EXCEPT !.last = depth] \in Statuses
  BY <1>1, <1>2 DEF Statuses
<1>4. /\ \A p \in Phases, k \in StartKeys :
              [server EXCEPT !.phase = p, !.timers = @ \ {k}] \in Statuses
      /\ \A p \in Phases, k \in StartKeys :
              [server EXCEPT !.phase = p, !.timers = @ \ {k}, !.last = NoDepth] \in Statuses
  BY <1>1, <1>2 DEF Statuses
<1>5. /\ \A k \in {"ShadowPod", "Sequential"} : [server EXCEPT !.strategy = k] \in Statuses
      /\ \A p \in Phases, b \in BOOLEAN :
              [server EXCEPT !.phase = p, !.deploy = @ \/ b] \in Statuses
  BY <1>1 DEF Statuses
<1> QED BY <1>3, <1>4, <1>5

\* Only these steps write the status or the controller's copy of it.
StatusSteps ==
  \/ Reconcile \/ Refetch \/ Requeue \/ FailMigration \/ Accept \/ PendingDetect
  \/ PendingRecord \/ CkptCall \/ CkptStatus \/ XferMark \/ XferStatus \/ RestoreMark
  \/ RestoreOrig \/ RestoreStatus \/ ReplayMark \/ ReplayCheck \/ ReplayStatus \/ FinMark
  \/ FinComplete \/ CacheSync \/ Tick \/ Crash

\* The steps not listed in StatusSteps leave the migration object alone.
LEMMA OtherSteps ==
  ASSUME Next
  PROVE  StatusSteps \/ UNCHANGED <<statusVars, specVars>>
<1> USE DEF StatusSteps
<1>1. CASE Handlers
  <2> USE DEF Broker, Read, Cluster
  <2>1. CASE PendingGet \/ CkptConnect \/ CkptQueue \/ XferCreate \/ XferLoad
    BY <2>1 DEF PendingGet, CkptConnect, CkptQueue, XferCreate, XferLoad, Push
  <2>2. CASE RestoreGet \/ RestoreScaleDown \/ RestoreCreate
    BY <2>2 DEF RestoreGet, RestoreScaleDown, RestoreCreate
  <2>3. CASE ReplayUnbind \/ ReplayStart \/ ReplayPoll
    BY <2>3 DEF ReplayUnbind, ReplayStart, ReplayPoll
  <2>4. CASE FinEndReplay \/ FinDeleteQueue \/ FinSource \/ FinPin \/ FinRelease
    BY <2>4 DEF FinEndReplay, FinDeleteQueue, FinSource, FinPin, FinRelease
  <2>5. CASE FinScaleUp \/ FinReadError \/ FinClose
    BY <2>5 DEF FinScaleUp, FinReadError, FinClose
  <2> QED BY <1>1, <2>1, <2>2, <2>3, <2>4, <2>5 DEF Handlers
<1>2. CASE Environment
  BY <1>2 DEF Environment, JobEnds, PodStarts, PodGone, StaleGone, StsDeletes, StsCreates, Idle
<1>3. CASE ConnectionLost \/ Traffic \/ Done
  BY <1>3 DEF ConnectionLost, Traffic, Done, Idle, vars
<1> QED BY <1>1, <1>2, <1>3 DEF Next

\* Every step keeps the types of the migration object and the handler's copy.
LEMMA StatusTypes ==
  ASSUME TypeOK, Next
  PROVE  StatusTypeOK'
<1>0. StatusTypeOK /\ server \in Statuses /\ cached \in Statuses
  BY VersionTypes DEF TypeOK
<1>1. CASE FailMigration \/ Accept \/ FinComplete
  BY <1>0, <1>1, Written, PatchTypes DEF FailMigration, Accept, FinComplete, Phases
<1>2. CASE XferMark \/ RestoreMark \/ ReplayMark \/ FinMark
  BY <1>0, <1>2, Written, PatchTypes DEF XferMark, RestoreMark, ReplayMark, FinMark, Mark,
     StartKeys
<1>3. CASE XferStatus \/ RestoreStatus \/ ReplayStatus \/ CkptStatus
  BY <1>0, <1>3, Written, PatchTypes DEF XferStatus, RestoreStatus, ReplayStatus, CkptStatus,
     Transition, StartKeys, Phases
<1>4. CASE RestoreOrig
  BY <1>0, <1>4, Written, PatchTypes DEF RestoreOrig
<1>5. CASE ReplayCheck
  <2>1. CASE UNCHANGED <<statusVars, specVars>>
    BY <1>0, <2>1 DEF statusVars, specVars, StatusTypeOK
  <2> QED BY <1>0, <1>5, <2>1, Written, PatchTypes DEF ReplayCheck
<1>6. CASE PendingDetect
  <2>1. \/ UNCHANGED <<statusVars, specVars>>
        \/ \E k \in {"ShadowPod", "Sequential"} : Save([server EXCEPT !.strategy = k])
                                                  /\ UNCHANGED specVars
    BY <1>6 DEF PendingDetect
  <2> QED BY <1>0, <2>1, Written, SaveTypes DEF statusVars, specVars, StatusTypeOK
<1>7. CASE PendingRecord
  <2> DEFINE b == owner = "Deployment"
  <2>1. [server EXCEPT !.phase = "Checkpointing", !.deploy = @ \/ b] \in Statuses
    BY Written DEF Phases
  <2>2. [server EXCEPT !.phase = "Checkpointing"] \in Statuses
    BY Written DEF Phases
  <2>3. CASE Transition("pending.record",
                        [server EXCEPT !.phase = "Checkpointing", !.deploy = @ \/ b])
    BY <1>0, <2>1, <2>3, PatchTypes DEF Transition
  <2>4. CASE Save([server EXCEPT !.phase = "Checkpointing"]) /\ UNCHANGED specVars
    BY <1>0, <2>2, <2>4, SaveTypes
  <2> QED BY <1>7, <2>3, <2>4 DEF PendingRecord
<1>8. CASE CkptCall
  <2>1. applied["source"] \in SUBSET Msgs /\ want["source"] \in Queues
    BY DEF TypeOK, MessagingTypeOK, Procs
  <2>2. m' = m \/ m' = [m EXCEPT !.ckpt = [ok |-> TRUE, state |-> applied["source"],
                                          want |-> want["source"]]]
    BY <1>8 DEF CkptCall
  <2>3. [ok |-> TRUE, state |-> applied["source"], want |-> want["source"]] \in Images
    BY <2>1 DEF Images
  <2>4. m \in Statuses
    BY <1>0 DEF StatusTypeOK
  <2>5. \A c \in Images : [m EXCEPT !.ckpt = c] \in Statuses
    BY <2>4 DEF Statuses
  <2>6. m' \in Statuses
    BY <2>2, <2>3, <2>4, <2>5
  <2> QED BY <1>0, <1>8, <2>6 DEF CkptCall, StatusTypeOK, specVars
<1>9. CASE Reconcile \/ Refetch \/ Requeue \/ Tick
  BY <1>0, <1>9 DEF Reconcile, Refetch, Requeue, Tick, Fetch, StatusTypeOK, specVars
<1>10. CASE CacheSync
  <2>1. versions' = Tail(versions) /\ Len(versions) > 1 /\ versions \in Seq(Statuses)
        /\ Len(versions) \in 1 .. MaxLag + 1
    BY <1>0, <1>10 DEF CacheSync, StatusTypeOK
  <2>2. Tail(versions) \in Seq(Statuses) /\ Len(Tail(versions)) = Len(versions) - 1
    BY <2>1
  <2> QED BY <1>0, <1>10, <2>1, <2>2 DEF CacheSync, StatusTypeOK, specVars
<1>11. CASE Crash
  <2>1. versions' = <<server>>
    BY <1>11 DEF Crash
  <2>2. versions' \in Seq(Statuses) /\ Len(versions') = 1
    BY <1>0, <2>1
  <2> QED BY <1>0, <1>11, <2>2 DEF Crash, StatusTypeOK, specVars
<1>12. CASE UNCHANGED <<statusVars, specVars>>
  BY <1>0, <1>12 DEF statusVars, specVars, StatusTypeOK
<1> QED BY <1>1, <1>2, <1>3, <1>4, <1>5, <1>6, <1>7, <1>8, <1>9, <1>10, <1>11, <1>12,
           OtherSteps DEF StatusSteps

-----------------------------------------------------------------------------
(***************************************************************************)
(* The broker, the cluster and the reconcile.                              *)
(***************************************************************************)
LEMMA MessagingTypes ==
  ASSUME TypeOK, Next
  PROVE  MessagingTypeOK'
<1>0. MessagingTypeOK
  BY DEF TypeOK
<1>1. ASSUME ClientStep, UNCHANGED trafficVars PROVE MessagingTypeOK'
  BY <1>0, <1>1, ClientTypes
<1>2. CASE \/ CkptConnect \/ CkptQueue \/ ReplayUnbind \/ ReplayStart \/ ReplayPoll
           \/ FinEndReplay \/ FinDeleteQueue \/ FinClose
  <2>1. PodName(Target) \in Names /\ StartReplay("replay") \in ControlMsgs
        /\ EndReplay \in ControlMsgs /\ "replay" \in Queues
    BY DEF PodName, Names, ControlMsgs, Queues
  <2>2. UNCHANGED trafficVars
    BY <1>2 DEF CkptConnect, CkptQueue, ReplayUnbind, ReplayStart, ReplayPoll, FinEndReplay,
       FinDeleteQueue, FinClose, Broker
  <2>3. ClientStep
    BY <1>2, <2>1 DEF CkptConnect, CkptQueue, ReplayUnbind, ReplayStart, ReplayPoll,
       FinEndReplay, FinDeleteQueue, FinClose, Broker, ClientStep
  <2> QED BY <1>1, <2>2, <2>3
<1>3. ASSUME ApiStep PROVE MessagingTypeOK'
  BY <1>0, <1>3, ApiTypes
<1>4. CASE Reconcile \/ Refetch \/ Requeue \/ CacheSync \/ Tick \/ StaleGone \/ StsDeletes \/ Done
  <2>1. UNCHANGED mqVars
    BY <1>4 DEF Reconcile, Refetch, Fetch, Requeue, CacheSync, Tick, StaleGone, StsDeletes,
       Done, vars
  <2> QED BY <1>3, <2>1 DEF ApiStep, mqVars, mqRest, consumerVars
<1>5. CASE \/ FailMigration \/ Accept \/ PendingGet \/ PendingDetect \/ PendingRecord
           \/ CkptCall \/ CkptStatus \/ XferMark \/ XferCreate \/ XferStatus
  BY <1>3, <1>5 DEF FailMigration, Accept, PendingGet, PendingDetect, PendingRecord, CkptCall,
     CkptStatus, XferMark, XferCreate, XferStatus, Patch, Transition, Mark, Read, Cluster,
     ApiStep, Kinds
<1>6. CASE XferLoad \/ JobEnds
  BY <1>3, <1>6 DEF XferLoad, JobEnds, Push, Read, ApiStep, Kinds
<1>7. CASE \/ RestoreMark \/ RestoreGet \/ RestoreOrig \/ RestoreScaleDown \/ RestoreCreate
           \/ RestoreStatus \/ ReplayMark \/ ReplayStatus
  BY <1>3, <1>7 DEF RestoreMark, RestoreGet, RestoreOrig, RestoreScaleDown, RestoreCreate,
     RestoreStatus, ReplayMark, ReplayStatus, Patch, Transition, Mark, Read, Cluster,
     ApiStep, Kinds
<1>8. CASE ReplayCheck
  BY <1>3, <1>8 DEF ReplayCheck, Patch, ApiStep, Kinds, mqVars, mqRest, consumerVars
<1>9. CASE \/ FinMark \/ FinSource \/ FinPin \/ FinRelease \/ FinScaleUp \/ FinReadError
           \/ FinComplete
  BY <1>3, <1>9 DEF FinMark, FinSource, FinPin, FinRelease, FinScaleUp, FinReadError,
     FinComplete, Patch, Mark, Cluster, ApiStep, Kinds
<1>10. CASE PodStarts
  <2>1. image.state \in SUBSET Msgs /\ image.want \in Queues
    BY DEF TypeOK, ClusterTypeOK, Images
  <2> QED BY <1>0, <1>10, <2>1, TrafficTypes DEF PodStarts, Procs
<1>11. CASE PodGone \/ Traffic
  BY <1>0, <1>11, TrafficTypes DEF PodGone, Traffic, Procs
<1>12. CASE StsCreates
  BY <1>0, <1>12 DEF StsCreates, MessagingTypeOK, Positions, Queues
<1>13. CASE Crash \/ ConnectionLost
  BY <1>0, <1>13 DEF Crash, ConnectionLost, Fault, topoVars, trafficVars, consumerVars,
     MessagingTypeOK
<1> QED BY <1>2, <1>4, <1>5, <1>6, <1>7, <1>8, <1>9, <1>10, <1>11, <1>12, <1>13
        DEF Next, Handlers, Environment

\* Every step keeps the types of pods, StatefulSet, Deployment and Job.
LEMMA ClusterTypes ==
  ASSUME TypeOK, Next
  PROVE  ClusterTypeOK'
<1>0. ClusterTypeOK /\ m.ckpt \in Images /\ m.orig \in 0 .. Replicas
  BY DEF TypeOK, StatusTypeOK, Statuses
<1>1. ASSUME UNCHANGED podVars PROVE ClusterTypeOK'
  BY <1>0, <1>1 DEF podVars, ClusterTypeOK
<1>2. CASE XferLoad
  BY <1>0, <1>1, <1>2 DEF XferLoad, Push, Read, ClusterTypeOK
<1>3. CASE XferCreate
  BY <1>0, <1>1, <1>3 DEF XferCreate, Cluster, ClusterTypeOK
<1>4. CASE RestoreScaleDown \/ RestoreCreate
  <2>1. 0 \in 0 .. Replicas
    OBVIOUS
  <2> QED BY <1>0, <1>1, <1>4, <2>1 DEF RestoreScaleDown, RestoreCreate, Cluster, ClusterTypeOK
<1>5. CASE FinSource \/ FinPin \/ FinRelease \/ FinScaleUp
  BY <1>0, <1>1, <1>5 DEF FinSource, FinPin, FinRelease, FinScaleUp, Cluster, ClusterTypeOK
<1>6. CASE JobEnds \/ PodStarts \/ PodGone \/ StaleGone \/ StsDeletes \/ StsCreates
  BY <1>0, <1>6 DEF JobEnds, PodStarts, PodGone, StaleGone, StsDeletes, StsCreates, ClusterTypeOK
<1>7. CASE \/ Reconcile \/ Refetch \/ Requeue \/ FailMigration \/ Accept
           \/ PendingGet \/ PendingDetect \/ PendingRecord \/ CkptConnect \/ CkptQueue
  BY <1>1, <1>7 DEF Reconcile, Refetch, Fetch, Requeue, FailMigration, Accept, PendingGet,
     PendingDetect, PendingRecord, CkptConnect, CkptQueue, Patch, Transition, Read, Broker
<1>8. CASE \/ CkptCall \/ CkptStatus \/ XferMark \/ XferStatus \/ RestoreMark \/ RestoreGet
           \/ RestoreOrig \/ RestoreStatus
  BY <1>1, <1>8 DEF CkptCall, CkptStatus, XferMark, XferStatus, RestoreMark, RestoreGet,
     RestoreOrig, RestoreStatus, Patch, Mark, Transition, Read
<1>9. CASE \/ ReplayUnbind \/ ReplayStart \/ ReplayMark \/ ReplayPoll \/ ReplayCheck
           \/ ReplayStatus \/ FinMark \/ FinEndReplay \/ FinDeleteQueue
  BY <1>1, <1>9 DEF ReplayUnbind, ReplayStart, ReplayMark, ReplayPoll, ReplayCheck,
     ReplayStatus, FinMark, FinEndReplay, FinDeleteQueue, Broker, Patch, Mark, Transition
<1>10. CASE \/ FinReadError \/ FinClose \/ FinComplete \/ CacheSync \/ Tick \/ ConnectionLost
            \/ Crash \/ Traffic \/ Done
  BY <1>1, <1>10 DEF FinReadError, FinClose, FinComplete, Patch, CacheSync, Tick,
     ConnectionLost, Crash, Traffic, Done, vars
<1> QED BY <1>2, <1>3, <1>4, <1>5, <1>6, <1>7, <1>8, <1>9, <1>10
        DEF Next, Handlers, Environment

\* Every phase is dispatched to a label.
LEMMA EntryType == ASSUME NEW s PROVE Entry(s) \in Labels
BY DEF Entry, Labels

\* Every step keeps the types of the reconcile in progress and of the history.
LEMMA ControllerTypes ==
  ASSUME TypeOK, Next
  PROVE  ControllerTypeOK'
<1>0. ControllerTypeOK /\ 0 \in 0 .. MaxMsgs
  BY DEF TypeOK
<1>1. ASSUME pc' \in Labels, UNCHANGED <<depth, histVars>> PROVE ControllerTypeOK'
  BY <1>0, <1>1 DEF ControllerTypeOK, histVars
<1>2. CASE Reconcile \/ Refetch
  <2>1. pc' \in Labels
    BY <1>2, EntryType DEF Reconcile, Refetch, Fetch
  <2> QED BY <1>0, <1>2, <2>1 DEF Reconcile, Refetch, Fetch, ControllerTypeOK, histVars
<1>3. CASE Crash
  BY <1>0, <1>3 DEF Crash, ControllerTypeOK, histVars, Labels
<1>4. CASE CkptQueue
  <2>1. published \in 0 .. MaxMsgs
    BY DEF TypeOK, MessagingTypeOK
  <2> QED BY <1>0, <1>4, <2>1 DEF CkptQueue, ControllerTypeOK, Labels
<1>5. CASE ReplayPoll
  <2>1. Depth("replay") \in 0 .. MaxMsgs
    BY DepthType DEF TypeOK, Queues
  <2>2. pc' \in Labels
    BY <1>5 DEF ReplayPoll, Labels
  <2>3. lossy' \in BOOLEAN
    BY <1>0, <1>5, Zenon DEF ReplayPoll, ControllerTypeOK
  <2> QED BY <1>0, <1>5, <2>1, <2>2, <2>3 DEF ReplayPoll, ControllerTypeOK
<1>6. CASE \/ Requeue \/ FailMigration \/ Accept \/ PendingGet \/ PendingDetect
           \/ PendingRecord \/ CkptConnect \/ CkptCall \/ CkptStatus
  BY <1>1, <1>6 DEF Requeue, FailMigration, Accept, PendingGet, PendingDetect, PendingRecord,
     CkptConnect, CkptCall, CkptStatus, Patch, Transition, Read, Broker, Labels
<1>7. CASE \/ XferLoad \/ XferMark \/ XferCreate \/ XferStatus \/ RestoreMark
           \/ RestoreOrig \/ RestoreScaleDown \/ RestoreCreate \/ RestoreStatus
  BY <1>1, <1>7 DEF XferLoad, XferMark, XferCreate, XferStatus, RestoreMark,
     RestoreOrig, RestoreScaleDown, RestoreCreate, RestoreStatus, Patch, Transition, Mark,
     Read, Cluster, Push, Labels
<1>8. CASE RestoreGet
  BY <1>1, <1>8 DEF RestoreGet, Read, Labels
<1>9. CASE \/ ReplayUnbind \/ ReplayStart \/ ReplayMark \/ ReplayCheck \/ ReplayStatus
           \/ FinMark \/ FinEndReplay \/ FinReadError \/ FinClose \/ FinComplete
  BY <1>1, <1>9 DEF ReplayUnbind, ReplayStart, ReplayMark, ReplayCheck, ReplayStatus, FinMark,
     FinEndReplay, FinReadError, FinClose, FinComplete, Broker, Patch, Transition, Mark, Labels
<1>10. CASE FinDeleteQueue \/ FinSource \/ FinPin \/ FinRelease \/ FinScaleUp
  BY <1>1, <1>10 DEF FinDeleteQueue, FinSource, FinPin, FinRelease, FinScaleUp, AfterSource,
     AfterPin, Broker, Cluster, Labels
<1>11. CASE Environment \/ ConnectionLost \/ Traffic \/ Done
  <2>1. UNCHANGED <<pc, depth, histVars>>
    BY <1>11 DEF Environment, CacheSync, Tick, JobEnds, PodStarts, PodGone, StaleGone,
       StsDeletes, StsCreates, ConnectionLost, Traffic, Done, Idle, vars
  <2> QED BY <1>0, <1>1, <2>1 DEF ControllerTypeOK
<1> QED BY <1>2, <1>3, <1>4, <1>5, <1>6, <1>7, <1>8, <1>9, <1>10, <1>11 DEF Next, Handlers

\* The initial states are well typed.
LEMMA InitTypes == Init => TypeOK
<1> SUFFICES ASSUME Init PROVE TypeOK
  OBVIOUS
<1>0. /\ 0 \in 0 .. MaxMsgs /\ 0 \in 0 .. MaxFaults /\ 0 \in 0 .. Replicas
      /\ Replicas \in 0 .. Replicas /\ -1 \in -1 .. MaxMsgs /\ NoDepth \in 0 .. NoDepth
  BY DEF NoDepth
<1>1. MessagingTypeOK
  <2>1. ctrl \in [Names -> Seq(ControlMsgs)]
    <3>1. <<>> \in Seq(ControlMsgs)
      OBVIOUS
    <3>2. ctrl = [n \in Names |-> <<>>]
      BY DEF Init
    <3> QED BY <3>1, <3>2, Zenon
  <2>2. \A p \in Procs : on[p] \in Positions
    BY DEF Init, Positions, Queues, Procs
  <2>3. on \in [Procs -> Positions]
    BY <2>2, Zenon DEF Init
  <2> QED BY <1>0, <2>1, <2>3 DEF Init, MessagingTypeOK, Queues
<1>2. NoImage \in Images
  BY DEF NoImage, Images, Queues
<1>3. StatusTypeOK
  <2>1. PICK s \in Strategies :
          versions = <<[phase |-> "New", strategy |-> s, deploy |-> FALSE, ckpt |-> NoImage,
                        orig |-> 0, timers |-> {}, last |-> NoDepth]>>
    BY DEF Init
  <2> DEFINE v == [phase |-> "New", strategy |-> s, deploy |-> FALSE, ckpt |-> NoImage,
                   orig |-> 0, timers |-> {}, last |-> NoDepth]
  <2>2. v \in Statuses
    BY <1>0, <1>2 DEF Statuses, Phases
  <2>3. versions = <<v>>
    BY <2>1
  <2> HIDE DEF v
  <2>4. versions \in Seq(Statuses) /\ Len(versions) = 1 /\ versions[1] = v
    BY <2>2, <2>3
  <2>5. 1 \in 1 .. MaxLag + 1
    OBVIOUS
  <2>6. /\ m = versions[1] /\ queued = TRUE /\ expired = FALSE
        /\ owner \in Owners /\ mode \in Modes
    BY DEF Init
  <2> QED BY <2>2, <2>4, <2>5, <2>6 DEF StatusTypeOK
<1>4. ClusterTypeOK
  BY <1>0, <1>2 DEF Init, ClusterTypeOK
<1>5. ControllerTypeOK
  BY <1>0 DEF Init, ControllerTypeOK, Labels
<1> QED BY <1>1, <1>3, <1>4, <1>5 DEF TypeOK

\* Every state of a migration is well typed, for all values of the constants and however
\* far the cache is behind: each status a handler patches (Reconcile 74-117) stays within
\* its phases, replica counts and depths, and no more versions pile up than the lag allows.
THEOREM TypeCorrect == Spec => []TypeOK
<1>1. TypeOK /\ [Next]_vars => TypeOK'
  <2> SUFFICES ASSUME TypeOK, [Next]_vars PROVE TypeOK'
    OBVIOUS
  <2>1. CASE Next
    BY <2>1, MessagingTypes, StatusTypes, ClusterTypes, ControllerTypes DEF TypeOK
  <2>2. CASE UNCHANGED vars
    BY <2>2 DEF vars, mqVars, statusVars, podVars, specVars, histVars, TypeOK,
       MessagingTypeOK, StatusTypeOK, ClusterTypeOK, ControllerTypeOK
  <2> QED BY <2>1, <2>2
<1> QED BY <1>1, InitTypes, PTL DEF Spec

-----------------------------------------------------------------------------
(***************************************************************************)
(* However far the cache is behind, a completed migration stays completed. *)
(* Handlers run one at a time and the cache never goes back, so a handler  *)
(* that runs once more on a stale phase finds the API server at most one   *)
(* phase ahead, in the phase it is about to write.                         *)
(***************************************************************************)
Rank(p) ==
  CASE p = "New" -> 0 [] p = "Pending" -> 1 [] p = "Checkpointing" -> 2
    [] p = "Transferring" -> 3 [] p = "Restoring" -> 4 [] p = "Replaying" -> 5
    [] p = "Finalizing" -> 6 [] OTHER -> 7

Follows(p, q) == Rank(q) \in {Rank(p), Rank(p) + 1}

\* No version is ahead of an older one by more than a phase, or behind it.
Ordered ==
  \A i, j \in 1 .. Len(versions) :
    i <= j /\ versions[i].phase # "Failed" /\ versions[j].phase # "Failed"
      => Follows(versions[i].phase, versions[j].phase)

\* Every version that has not failed is of phase p or the next one.
At(p) == \A i \in 1 .. Len(versions) : versions[i].phase # "Failed" => Follows(p, versions[i].phase)

PendingLabels == {"pending.get", "pending.detect", "pending.record"}
CkptLabels    == {"ckpt.connect", "ckpt.queue", "ckpt.call", "ckpt.status"}
XferLabels    == {"xfer.load", "xfer.mark", "xfer.create", "xfer.status"}
RestoreLabels == {"restore.mark", "restore.get", "restore.orig", "restore.scaleDown",
                  "restore.create", "restore.status"}
ReplayLabels  == {"replay.unbind", "replay.start", "replay.mark", "replay.poll",
                  "replay.check", "replay.status"}
FinLabels     == {"fin.mark", "fin.endReplay", "fin.deleteQueue", "fin.source", "fin.pin",
                  "fin.release", "fin.scaleUp", "fin.close", "fin.complete"}

\* The handler in progress is at most one phase late, and nobody is about to fail a
\* migration that is completed.
HandlerInTime ==
  /\ pc = "accept" => At("New")
  /\ pc \in PendingLabels => At("Pending")
  /\ pc \in CkptLabels => At("Checkpointing")
  /\ pc \in XferLabels => At("Transferring")
  /\ pc \in RestoreLabels => At("Restoring")
  /\ pc \in ReplayLabels => At("Replaying")
  /\ pc \in FinLabels => At("Finalizing")
  /\ pc = "fail" => \A i \in 1 .. Len(versions) : versions[i].phase # "Completed"

OrderInv == Ordered /\ HandlerInTime

\* A status that may be saved now: it follows all versions that have not failed.
Fits(s) == s.phase # "Failed" => \A i \in 1 .. Len(versions) :
             versions[i].phase # "Failed" => Follows(versions[i].phase, s.phase)

\* Saving keeps the order, and leaves no version but old ones and the new one.
LEMMA SaveOrder ==
  ASSUME StatusTypeOK, Ordered, NEW s \in Statuses, Save(s), Fits(s)
  PROVE  /\ Ordered'
         /\ \A j \in 1 .. Len(versions') :
              versions'[j] = s \/ \E i \in 1 .. Len(versions) : versions'[j] = versions[i]
<1>0. versions \in Seq(Statuses) /\ Len(versions) \in Nat
  BY DEF StatusTypeOK
<1>1. CASE MaxLag = 0
  <2>1. versions' = <<s>>
    BY <1>1 DEF Save
  <2>2. Len(versions') = 1 /\ versions'[1] = s
    BY <2>1
  <2> QED BY <2>2 DEF Ordered, Follows
<1>2. CASE MaxLag # 0
  <2>1. versions' = Append(versions, s)
    BY <1>2 DEF Save
  <2>2. /\ Len(versions') = Len(versions) + 1 /\ versions'[Len(versions) + 1] = s
        /\ \A i \in 1 .. Len(versions) : versions'[i] = versions[i]
    BY <1>0, <2>1
  <2>3. ASSUME NEW i \in 1 .. Len(versions'), NEW j \in 1 .. Len(versions'), i <= j,
               versions'[i].phase # "Failed", versions'[j].phase # "Failed"
        PROVE  Follows(versions'[i].phase, versions'[j].phase)
    <3>1. CASE j \in 1 .. Len(versions)
      <4>1. i \in 1 .. Len(versions)
        BY <1>0, <2>2, <2>3, <3>1
      <4> QED BY <2>2, <2>3, <3>1, <4>1 DEF Ordered
    <3>2. CASE i \in 1 .. Len(versions) /\ j = Len(versions) + 1
      BY <2>2, <2>3, <3>2 DEF Fits
    <3>3. CASE i = Len(versions) + 1 /\ j = Len(versions) + 1
      BY <3>3 DEF Follows
    <3> QED BY <1>0, <2>2, <2>3, <3>1, <3>2, <3>3
  <2>4. \A j \in 1 .. Len(versions') :
          versions'[j] = s \/ \E i \in 1 .. Len(versions) : versions'[j] = versions[i]
    BY <1>0, <2>2
  <2> QED BY <2>3, <2>4 DEF Ordered
<1> QED BY <1>1, <1>2

\* The server's version is one of the versions.
LEMMA ServerIn ==
  ASSUME StatusTypeOK
  PROVE  /\ Len(versions) \in Nat \ {0} /\ server = versions[Len(versions)]
         /\ Len(versions) \in 1 .. Len(versions) /\ 1 \in 1 .. Len(versions)
         /\ cached = versions[1]
<1>1. versions \in Seq(Statuses) /\ Len(versions) \in Nat \ {0}
  BY DEF StatusTypeOK
<1>2. versions # <<>>
  BY <1>1
<1> QED BY <1>1, <1>2 DEF server, cached

\* A write that leaves the phase alone always fits.
LEMMA SamePhaseFits ==
  ASSUME StatusTypeOK, Ordered, NEW s, s.phase = server.phase
  PROVE  Fits(s)
<1>1. Len(versions) \in 1 .. Len(versions) /\ Len(versions) \in Nat
  BY ServerIn
<1>2. \A i \in 1 .. Len(versions) : i <= Len(versions)
  BY <1>1
<1> QED BY <1>1, <1>2 DEF Ordered, Fits, server

\* A handler in time may write the phase after its own.
LEMMA NextPhaseFits ==
  ASSUME NEW p \in Phases, NEW s, At(p), s.phase \in Phases \ {"Failed"},
         Rank(s.phase) = Rank(p) + 1
  PROVE  Fits(s)
<1>1. Rank(p) \in 0 .. 7
  BY DEF Rank
<1> QED BY <1>1 DEF At, Fits, Follows

\* What every step does, in terms of the order.
Kept == OrderInv' /\ (server.phase = "Completed" => server'.phase = "Completed")

\* Versions after a step that are versions of before, or the new one.
Among(s) == \A j \in 1 .. Len(versions') :
              versions'[j] = s \/ \E i \in 1 .. Len(versions) : versions'[j] = versions[i]

\* A handler in time is at most one phase behind the API server.
LEMMA AtServer ==
  ASSUME StatusTypeOK, NEW p, At(p)
  PROVE  server.phase # "Failed" => Follows(p, server.phase)
BY ServerIn DEF At

\* A new version in the server's phase does not make a handler late.
LEMMA AtKept ==
  ASSUME StatusTypeOK, NEW p, NEW s, At(p), Among(s), s.phase = server.phase
  PROVE  At(p)'
<1>1. ASSUME NEW j \in 1 .. Len(versions'), versions'[j].phase # "Failed"
      PROVE  Follows(p, versions'[j].phase)
  BY <1>1, AtServer DEF At, Among
<1> QED BY <1>1 DEF At

\* Nobody fails a completed migration: up to Replaying a handler knows it is not.
LEMMA NotCompleted ==
  ASSUME NEW p \in {"Pending", "Checkpointing", "Transferring", "Restoring", "Replaying"}, At(p)
  PROVE  \A i \in 1 .. Len(versions) : versions[i].phase # "Completed"
<1>1. Rank("Completed") = 7 /\ Rank(p) \in 1 .. 5
  BY DEF Rank
<1> QED BY <1>1 DEF At, Follows

\* A patch that leaves the phase alone.
LEMMA SamePhasePatch ==
  ASSUME StatusTypeOK, OrderInv, NEW s \in Statuses, s.phase = server.phase,
         Save(s) /\ UNCHANGED specVars
  PROVE  /\ Ordered' /\ Among(s) /\ server'.phase = server.phase
         /\ \A p \in Phases : At(p) => At(p)'
<1>1. Fits(s)
  BY SamePhaseFits DEF OrderInv
<1>2. Ordered' /\ Among(s)
  BY <1>1, SaveOrder DEF OrderInv, Among
<1>3. server' = s
  BY SaveTypes
<1> QED BY <1>2, <1>3, AtKept

\* A patch that writes the phase after the handler's own and ends the handler.
LEMMA NextPhasePatch ==
  ASSUME StatusTypeOK, OrderInv, NEW p \in Phases, NEW s \in Statuses, NEW l, NEW next, NEW onErr,
         Patch(l, s, next, onErr), At(p), s.phase \in Phases \ {"Failed"},
         Rank(s.phase) = Rank(p) + 1, next \in {"idle", "requeue", "refetch"},
         onErr \in {"idle", "requeue", "refetch"}
  PROVE  Kept
<1>1. pc' \in {"idle", "requeue", "refetch"}
  BY DEF Patch
<1>2. HandlerInTime'
  BY <1>1 DEF HandlerInTime, PendingLabels, CkptLabels, XferLabels, RestoreLabels,
     ReplayLabels, FinLabels
<1>3. CASE Save(s)
  <2>1. Ordered' /\ server' = s
    BY <1>3, NextPhaseFits, SaveOrder, SaveTypes DEF OrderInv, Patch
  <2>2. server.phase = "Completed" => s.phase = "Completed"
    <3>1. server.phase = "Completed" => Rank(server.phase) \in {Rank(p), Rank(p) + 1}
      BY AtServer DEF Follows
    <3>2. Rank("Completed") = 7 /\ Rank(p) \in 0 .. 7 /\ Rank(s.phase) \in 0 .. 7
      BY DEF Rank
    <3>3. Rank(s.phase) = 7 => s.phase = "Completed"
      BY DEF Rank, Phases
    <3> QED BY <3>1, <3>2, <3>3
  <2> QED BY <1>2, <2>1, <2>2 DEF Kept, OrderInv
<1>4. CASE UNCHANGED statusVars
  BY <1>2, <1>4 DEF Kept, OrderInv, Ordered, statusVars, server
<1> QED BY <1>3, <1>4 DEF Patch

\* A step of a handler that stays with its phase, ends the reconcile or goes on to fail.
Stays ==
  \/ pc' \in {"idle", "requeue", "refetch"}
  \/ pc \in PendingLabels /\ pc' \in PendingLabels \cup {"fail"}
  \/ pc \in CkptLabels /\ pc' \in CkptLabels \cup {"fail"}
  \/ pc \in XferLabels /\ pc' \in XferLabels \cup {"fail"}
  \/ pc \in RestoreLabels /\ pc' \in RestoreLabels \cup {"fail"}
  \/ pc \in ReplayLabels /\ pc' \in ReplayLabels \cup {"fail"}
  \/ pc \in FinLabels /\ pc' \in FinLabels
  \/ pc' = pc

\* A step that keeps to its handler's labels, or leaves them, leaves the handler in time.
LEMMA StaysInTime ==
  ASSUME OrderInv, Stays, \A p \in Phases : At(p) => At(p)',
         (\A i \in 1 .. Len(versions) : versions[i].phase # "Completed")
           => \A i \in 1 .. Len(versions') : versions'[i].phase # "Completed"
  PROVE  HandlerInTime'
<1> DEFINE Clear == \A i \in 1 .. Len(versions) : versions[i].phase # "Completed"
<1>1. ASSUME NEW p \in {"Pending", "Checkpointing", "Transferring", "Restoring", "Replaying"},
             At(p)
      PROVE  At(p)' /\ Clear'
  BY <1>1, NotCompleted DEF Phases
<1> HIDE DEF Clear
<1> USE DEF HandlerInTime, PendingLabels, CkptLabels, XferLabels, RestoreLabels, ReplayLabels,
            FinLabels
<1>2. CASE pc' \in {"idle", "requeue", "refetch"}
  BY <1>2
<1>3. CASE pc \in PendingLabels /\ pc' \in PendingLabels \cup {"fail"}
  BY <1>1, <1>3 DEF OrderInv, Clear
<1>4. CASE pc \in CkptLabels /\ pc' \in CkptLabels \cup {"fail"}
  BY <1>1, <1>4 DEF OrderInv, Clear
<1>5. CASE pc \in XferLabels /\ pc' \in XferLabels \cup {"fail"}
  BY <1>1, <1>5 DEF OrderInv, Clear
<1>6. CASE pc \in RestoreLabels /\ pc' \in RestoreLabels \cup {"fail"}
  BY <1>1, <1>6 DEF OrderInv, Clear
<1>7. CASE pc \in ReplayLabels /\ pc' \in ReplayLabels \cup {"fail"}
  BY <1>1, <1>7 DEF OrderInv, Clear
<1>8. CASE pc \in FinLabels /\ pc' \in FinLabels
  BY <1>8 DEF OrderInv, Phases
<1>9. CASE pc' = pc
  BY <1>9 DEF OrderInv, Phases
<1> QED BY <1>2, <1>3, <1>4, <1>5, <1>6, <1>7, <1>8, <1>9 DEF Stays

\* A step without a new version keeps the order.
LEMMA QuietStep ==
  ASSUME OrderInv, Stays, UNCHANGED versions
  PROVE  Kept
<1>1. HandlerInTime'
  BY StaysInTime DEF At
<1> QED BY <1>1 DEF Kept, OrderInv, Ordered, server

\* A patch that leaves the phase alone.
LEMMA SamePhaseStep ==
  ASSUME StatusTypeOK, OrderInv, NEW s \in Statuses, s.phase = server.phase, Stays,
         (Save(s) /\ UNCHANGED specVars) \/ UNCHANGED statusVars
  PROVE  Kept
<1>1. CASE UNCHANGED statusVars
  BY <1>1, QuietStep DEF statusVars
<1>2. CASE Save(s) /\ UNCHANGED specVars
  <2>1. /\ Ordered' /\ Among(s) /\ server'.phase = server.phase
        /\ \A p \in Phases : At(p) => At(p)'
    BY <1>2, SamePhasePatch
  <2>2. (\A i \in 1 .. Len(versions) : versions[i].phase # "Completed")
          => \A i \in 1 .. Len(versions') : versions'[i].phase # "Completed"
    BY <2>1, ServerIn DEF Among
  <2>3. HandlerInTime'
    BY <2>1, <2>2, StaysInTime
  <2> QED BY <2>1, <2>3 DEF Kept, OrderInv
<1> QED BY <1>1, <1>2

\* The patches of the status keep the order.
LEMMA OrderPatches ==
  ASSUME TypeOK, OrderInv,
         \/ Accept \/ PendingRecord \/ CkptStatus \/ XferStatus \/ RestoreStatus
         \/ ReplayStatus \/ FinComplete \/ FailMigration
  PROVE  Kept
<1>0. server \in Statuses /\ StatusTypeOK
  BY VersionTypes DEF TypeOK
<1>1. CASE Accept
  <2> DEFINE s == [server EXCEPT !.phase = "Pending"]
  <2>1. s \in Statuses
    BY Written DEF Phases, StartKeys
  <2>2. s.phase = "Pending" /\ Rank("Pending") = Rank("New") + 1
    BY <1>0 DEF Statuses, Rank
  <2>3. pc = "accept"
    BY <1>1 DEF Accept, Patch
  <2>4. At("New")
    BY <2>3 DEF OrderInv, HandlerInTime
  <2>5. PICK next \in {"idle", "requeue", "refetch"} : Patch("accept", s, next, "requeue")
    BY <1>1 DEF Accept
  <2> HIDE DEF s
  <2> QED BY <1>0, <2>1, <2>2, <2>4, <2>5, NextPhasePatch DEF Phases
<1>2. CASE CkptStatus
  <2> DEFINE s == [server EXCEPT !.phase = "Transferring", !.ckpt = m.ckpt]
  <2>1. s \in Statuses
    BY Written DEF Phases, StartKeys
  <2>2. s.phase = "Transferring" /\ Rank("Transferring") = Rank("Checkpointing") + 1
    BY <1>0 DEF Statuses, Rank
  <2>3. pc = "ckpt.status"
    BY <1>2 DEF CkptStatus, Patch, Transition
  <2>4. At("Checkpointing")
    BY <2>3 DEF OrderInv, HandlerInTime, CkptLabels
  <2>5. PICK next \in {"idle", "requeue", "refetch"} : Patch("ckpt.status", s, next, "requeue")
    BY <1>2 DEF CkptStatus, Transition
  <2> HIDE DEF s
  <2> QED BY <1>0, <2>1, <2>2, <2>4, <2>5, NextPhasePatch DEF Phases
<1>3. CASE XferStatus
  <2> DEFINE s == [server EXCEPT !.phase = "Restoring", !.timers = @ \ {"Transferring"}]
  <2>1. s \in Statuses
    BY Written DEF Phases, StartKeys
  <2>2. s.phase = "Restoring" /\ Rank("Restoring") = Rank("Transferring") + 1
    BY <1>0 DEF Statuses, Rank
  <2>3. pc = "xfer.status"
    BY <1>3 DEF XferStatus, Patch, Transition
  <2>4. At("Transferring")
    BY <2>3 DEF OrderInv, HandlerInTime, XferLabels
  <2>5. PICK next \in {"idle", "requeue", "refetch"} : Patch("xfer.status", s, next, "requeue")
    BY <1>3 DEF XferStatus, Transition
  <2> HIDE DEF s
  <2> QED BY <1>0, <2>1, <2>2, <2>4, <2>5, NextPhasePatch DEF Phases
<1>4. CASE RestoreStatus
  <2> DEFINE s == [server EXCEPT !.phase = "Replaying", !.timers = @ \ {"Restoring"}]
  <2>1. s \in Statuses
    BY Written DEF Phases, StartKeys
  <2>2. s.phase = "Replaying" /\ Rank("Replaying") = Rank("Restoring") + 1
    BY <1>0 DEF Statuses, Rank
  <2>3. pc = "restore.status"
    BY <1>4 DEF RestoreStatus, Patch, Transition
  <2>4. At("Restoring")
    BY <2>3 DEF OrderInv, HandlerInTime, RestoreLabels
  <2>5. PICK next \in {"idle", "requeue", "refetch"} : Patch("restore.status", s, next, "requeue")
    BY <1>4 DEF RestoreStatus, Transition
  <2> HIDE DEF s
  <2> QED BY <1>0, <2>1, <2>2, <2>4, <2>5, NextPhasePatch DEF Phases
<1>5. CASE ReplayStatus
  <2> DEFINE s == [server EXCEPT !.phase = "Finalizing", !.timers = @ \ {"Replaying"},
                               !.last = NoDepth]
  <2>1. s \in Statuses
    BY Written DEF Phases, StartKeys
  <2>2. s.phase = "Finalizing" /\ Rank("Finalizing") = Rank("Replaying") + 1
    BY <1>0 DEF Statuses, Rank
  <2>3. pc = "replay.status"
    BY <1>5 DEF ReplayStatus, Patch, Transition
  <2>4. At("Replaying")
    BY <2>3 DEF OrderInv, HandlerInTime, ReplayLabels
  <2>5. PICK next \in {"idle", "requeue", "refetch"} : Patch("replay.status", s, next, "requeue")
    BY <1>5 DEF ReplayStatus, Transition
  <2> HIDE DEF s
  <2> QED BY <1>0, <2>1, <2>2, <2>4, <2>5, NextPhasePatch DEF Phases
<1>6. CASE FinComplete
  <2> DEFINE s == [server EXCEPT !.phase = "Completed"]
  <2>1. s \in Statuses
    BY Written DEF Phases, StartKeys
  <2>2. s.phase = "Completed" /\ Rank("Completed") = Rank("Finalizing") + 1
    BY <1>0 DEF Statuses, Rank
  <2>3. pc = "fin.complete"
    BY <1>6 DEF FinComplete, Patch
  <2>4. At("Finalizing")
    BY <2>3 DEF OrderInv, HandlerInTime, FinLabels
  <2>5. PICK next \in {"idle", "requeue", "refetch"} : Patch("fin.complete", s, next, "requeue")
    BY <1>6 DEF FinComplete
  <2> HIDE DEF s
  <2> QED BY <1>0, <2>1, <2>2, <2>4, <2>5, NextPhasePatch DEF Phases
<1>7. CASE PendingRecord
  <2> DEFINE b == owner = "Deployment"
             s == [server EXCEPT !.phase = "Checkpointing", !.deploy = @ \/ b]
             t == [server EXCEPT !.phase = "Checkpointing"]
  <2>1. s \in Statuses /\ t \in Statuses
    BY Written DEF Phases
  <2>2. /\ s.phase = "Checkpointing" /\ t.phase = "Checkpointing"
        /\ Rank("Checkpointing") = Rank("Pending") + 1
    BY <1>0 DEF Statuses, Rank
  <2>3. pc = "pending.record"
    BY <1>7 DEF PendingRecord, Patch, Transition
  <2>4. At("Pending")
    BY <2>3 DEF OrderInv, HandlerInTime, PendingLabels
  <2> HIDE DEF s, t
  <2>5. CASE Patch("pending.record", s, "refetch", "requeue")
    BY <1>0, <2>1, <2>2, <2>4, <2>5, NextPhasePatch DEF Phases
  <2>6. CASE Save(t) /\ pc' = "refetch" /\ UNCHANGED specVars
    <3>1. Fits(t)
      BY <2>2, <2>4, NextPhaseFits DEF Phases
    <3>2. Ordered' /\ server' = t
      BY <1>0, <2>1, <2>6, <3>1, SaveOrder, SaveTypes DEF OrderInv
    <3>3. HandlerInTime'
      BY <2>6 DEF HandlerInTime, PendingLabels, CkptLabels, XferLabels, RestoreLabels,
         ReplayLabels, FinLabels
    <3>4. server.phase # "Completed"
      BY <1>0, <2>4, NotCompleted, ServerIn
    <3> QED BY <3>2, <3>3, <3>4 DEF Kept, OrderInv
  <2> QED BY <1>7, <2>5, <2>6 DEF PendingRecord, Transition, s, t
<1>8. CASE FailMigration
  <2> DEFINE s == [server EXCEPT !.phase = "Failed"]
  <2>0. s \in Statuses
    BY Written DEF Phases
  <2>1. s.phase = "Failed"
    BY <1>0 DEF Statuses
  <2> HIDE DEF s
  <2>2. pc = "fail" /\ Patch("fail", s, "idle", "requeue")
    BY <1>8 DEF FailMigration, Patch, s
  <2>3. server.phase # "Completed"
    BY <1>0, <2>2, ServerIn DEF OrderInv, HandlerInTime
  <2>4. HandlerInTime'
    BY <2>2 DEF Patch, HandlerInTime, PendingLabels, CkptLabels, XferLabels, RestoreLabels,
       ReplayLabels, FinLabels
  <2>5. CASE Save(s)
    <3>1. Ordered'
      BY <1>0, <2>0, <2>1, <2>5, SaveOrder DEF Fits, OrderInv
    <3> QED BY <2>3, <2>4, <3>1 DEF Kept, OrderInv
  <2>6. CASE UNCHANGED statusVars
    BY <2>3, <2>4, <2>6 DEF Kept, OrderInv, Ordered, statusVars
  <2> QED BY <2>2, <2>5, <2>6 DEF Patch
<1> QED BY <1>1, <1>2, <1>3, <1>4, <1>5, <1>6, <1>7, <1>8

\* A patch that leaves the phase alone keeps the order.
LEMMA OrderSamePhase ==
  ASSUME TypeOK, OrderInv,
         \/ XferMark \/ RestoreMark \/ ReplayMark \/ FinMark \/ RestoreOrig \/ ReplayCheck
         \/ PendingDetect
  PROVE  Kept
<1>0. server \in Statuses /\ StatusTypeOK
  BY VersionTypes DEF TypeOK
<1>1. CASE XferMark \/ RestoreMark \/ ReplayMark \/ FinMark
  <2>1. PICK k \in StartKeys : \E l, next : Mark(l, k, next)
    BY <1>1 DEF XferMark, RestoreMark, ReplayMark, FinMark, StartKeys
  <2> DEFINE s == [server EXCEPT !.timers = @ \cup {k}]
  <2>2. s \in Statuses
    BY Written
  <2>3. s.phase = server.phase
    BY <1>0 DEF Statuses
  <2>4. (Save(s) /\ UNCHANGED specVars) \/ UNCHANGED statusVars
    BY <2>1 DEF Mark, Patch
  <2>5. Stays
    BY <1>1 DEF XferMark, RestoreMark, ReplayMark, FinMark, Mark, Patch, Stays, XferLabels,
       RestoreLabels, ReplayLabels, FinLabels
  <2> HIDE DEF s
  <2> QED BY <1>0, <2>2, <2>3, <2>4, <2>5, SamePhaseStep
<1>2. CASE RestoreOrig
  <2> DEFINE s == [server EXCEPT !.orig = replicas]
  <2>1. s \in Statuses
    BY Written
  <2>2. s.phase = server.phase
    BY <1>0 DEF Statuses
  <2>3. (Save(s) /\ UNCHANGED specVars) \/ UNCHANGED statusVars
    BY <1>2 DEF RestoreOrig, Patch
  <2>4. Stays
    BY <1>2 DEF RestoreOrig, Patch, Stays, RestoreLabels
  <2> HIDE DEF s
  <2> QED BY <1>0, <2>1, <2>2, <2>3, <2>4, SamePhaseStep
<1>3. CASE ReplayCheck
  <2> DEFINE s == [server EXCEPT !.last = depth]
  <2>1. s \in Statuses
    BY Written
  <2>2. s.phase = server.phase
    BY <1>0 DEF Statuses
  <2>3. (Save(s) /\ UNCHANGED specVars) \/ UNCHANGED statusVars
    BY <1>3 DEF ReplayCheck, Patch
  <2>4. Stays
    BY <1>3 DEF ReplayCheck, Patch, Stays, ReplayLabels
  <2> HIDE DEF s
  <2> QED BY <1>0, <2>1, <2>2, <2>3, <2>4, SamePhaseStep
<1>4. CASE PendingDetect
  <2>1. Stays
    BY <1>4 DEF PendingDetect, Stays, PendingLabels
  <2>2. PICK k \in {"ShadowPod", "Sequential"} :
          (Save([server EXCEPT !.strategy = k]) /\ UNCHANGED specVars) \/ UNCHANGED statusVars
    BY <1>4 DEF PendingDetect
  <2> DEFINE s == [server EXCEPT !.strategy = k]
  <2>3. s \in Statuses
    BY Written
  <2>4. s.phase = server.phase
    BY <1>0 DEF Statuses
  <2> HIDE DEF s
  <2> QED BY <1>0, <2>1, <2>2, <2>3, <2>4, SamePhaseStep DEF s
<1> QED BY <1>1, <1>2, <1>3, <1>4

\* The other steps of a handler write no version.
LEMMA OrderCalls ==
  ASSUME TypeOK, OrderInv,
         \/ Requeue \/ PendingGet \/ CkptConnect \/ CkptQueue \/ CkptCall
         \/ XferLoad \/ XferCreate \/ RestoreGet \/ RestoreScaleDown \/ RestoreCreate
         \/ ReplayUnbind \/ ReplayStart \/ ReplayPoll \/ FinEndReplay \/ FinDeleteQueue
         \/ FinSource \/ FinPin \/ FinRelease \/ FinScaleUp \/ FinReadError \/ FinClose
  PROVE  Kept
<1> USE DEF Stays, PendingLabels, CkptLabels, XferLabels, RestoreLabels, ReplayLabels,
            FinLabels, statusVars, Read, Broker, Cluster
<1>1. CASE Requeue \/ PendingGet \/ CkptConnect \/ CkptQueue \/ CkptCall
  <2>1. UNCHANGED versions /\ Stays
    BY <1>1 DEF Requeue, PendingGet, CkptConnect, CkptQueue, CkptCall
  <2> QED BY <2>1, QuietStep
<1>2. CASE XferLoad \/ XferCreate \/ RestoreGet \/ RestoreScaleDown \/ RestoreCreate
  <2>1. UNCHANGED versions /\ Stays
    BY <1>2 DEF XferLoad, Push, XferCreate, RestoreGet, RestoreScaleDown, RestoreCreate
  <2> QED BY <2>1, QuietStep
<1>3. CASE ReplayUnbind \/ ReplayStart \/ ReplayPoll
  <2>1. UNCHANGED versions /\ Stays
    BY <1>3 DEF ReplayUnbind, ReplayStart, ReplayPoll
  <2> QED BY <2>1, QuietStep
<1>4. CASE \/ FinEndReplay \/ FinDeleteQueue \/ FinSource \/ FinPin \/ FinRelease \/ FinScaleUp
           \/ FinReadError \/ FinClose
  <2>1. UNCHANGED versions /\ Stays
    BY <1>4 DEF FinEndReplay, FinDeleteQueue, FinSource, FinPin, FinRelease, FinScaleUp,
       FinReadError, FinClose, AfterSource, AfterPin
  <2> QED BY <2>1, QuietStep
<1> QED BY <1>1, <1>2, <1>3, <1>4

\* A reconcile enters the handler of the version in the cache, and all other versions
\* follow that one.
LEMMA OrderFetch ==
  ASSUME TypeOK, OrderInv, Reconcile \/ Refetch
  PROVE  Kept
<1>0. server \in Statuses /\ cached \in Statuses /\ StatusTypeOK
  BY VersionTypes DEF TypeOK
<1>1. UNCHANGED versions /\ pc' = Entry(cached)
  BY DEF Reconcile, Refetch, Fetch
<1>2. PICK ph \in Phases : ph = cached.phase
  BY <1>0 DEF Statuses
<1>3. ph # "Failed" => At(ph)
  <2>1. 1 \in 1 .. Len(versions) /\ cached = versions[1]
    BY <1>0, ServerIn
  <2>2. \A i \in 1 .. Len(versions) : 1 <= i
    OBVIOUS
  <2> QED BY <1>2, <2>1, <2>2 DEF Ordered, OrderInv, At
<1>4. ph # "Failed" => At(ph)'
  BY <1>1, <1>3 DEF At
<1>5. /\ pc' = "accept" => ph = "New"
      /\ pc' \in PendingLabels => ph = "Pending"
      /\ pc' \in CkptLabels => ph = "Checkpointing"
      /\ pc' \in XferLabels => ph = "Transferring"
      /\ pc' \in RestoreLabels => ph = "Restoring"
      /\ pc' \in ReplayLabels => ph = "Replaying"
      /\ pc' \in FinLabels => ph = "Finalizing"
      /\ pc' # "fail"
  BY <1>1, <1>2 DEF Entry, Phases, PendingLabels, CkptLabels, XferLabels,
     RestoreLabels, ReplayLabels, FinLabels
<1>6. HandlerInTime'
  BY <1>4, <1>5 DEF HandlerInTime
<1> QED BY <1>1, <1>6 DEF Kept, OrderInv, Ordered, server

\* The cache catches up, or the controller restarts.
LEMMA OrderCache ==
  ASSUME TypeOK, OrderInv, CacheSync \/ Crash
  PROVE  Kept
<1>0. server \in Statuses /\ StatusTypeOK
  BY VersionTypes DEF TypeOK
<1>1. CASE CacheSync
  <2>1. /\ versions \in Seq(Statuses) /\ Len(versions) \in Nat /\ Len(versions) > 1
        /\ versions' = Tail(versions) /\ pc' = pc
    BY <1>0, <1>1 DEF CacheSync, StatusTypeOK
  <2>2. /\ Len(versions') = Len(versions) - 1
        /\ \A i \in 1 .. Len(versions') : i + 1 \in 1 .. Len(versions)
                                          /\ versions'[i] = versions[i + 1]
    BY <2>1
  <2>3. server' = server
    BY <2>1, <2>2 DEF server
  <2>4. Ordered'
    <3>1. \A i, j \in 1 .. Len(versions') : i <= j => i + 1 <= j + 1
      BY <2>2
    <3> QED BY <2>2, <3>1 DEF Ordered, OrderInv
  <2>5. \A p \in Phases : At(p) => At(p)'
    BY <2>2 DEF At
  <2>6. HandlerInTime'
    BY <2>1, <2>2, <2>5, StaysInTime DEF Stays
  <2> QED BY <2>3, <2>4, <2>6 DEF Kept, OrderInv
<1>2. CASE Crash
  <2>1. versions' = <<server>> /\ pc' = "idle"
    BY <1>2 DEF Crash
  <2>2. Len(versions') = 1 /\ versions'[1] = server /\ server' = server
    BY <2>1 DEF server
  <2>3. Ordered'
    BY <2>2 DEF Ordered, Follows
  <2>4. HandlerInTime'
    BY <2>1 DEF HandlerInTime, PendingLabels, CkptLabels, XferLabels, RestoreLabels,
       ReplayLabels, FinLabels
  <2> QED BY <2>2, <2>3, <2>4 DEF Kept, OrderInv
<1> QED BY <1>1, <1>2

\* Every step keeps the order.
LEMMA OrderNext ==
  ASSUME TypeOK, OrderInv, [Next]_vars
  PROVE  Kept
<1>1. CASE \/ Tick \/ JobEnds \/ PodStarts \/ PodGone \/ StaleGone \/ StsDeletes \/ StsCreates
           \/ ConnectionLost \/ Traffic \/ Done \/ UNCHANGED vars
  <2>1. UNCHANGED <<versions, pc>>
    BY <1>1 DEF Tick, JobEnds, PodStarts, PodGone, StaleGone, StsDeletes, StsCreates,
       ConnectionLost, Traffic, Done, Idle, statusVars, vars
  <2> QED BY <2>1, QuietStep DEF Stays
<1> QED BY <1>1, OrderPatches, OrderSamePhase, OrderCalls, OrderFetch, OrderCache
        DEF Next, Handlers, Environment

\* The order holds at the start.
LEMMA OrderInit == Init => OrderInv
<1> SUFFICES ASSUME Init PROVE OrderInv
  OBVIOUS
<1>1. PICK v : versions = <<v>>
  BY DEF Init
<1>2. Len(versions) = 1 /\ pc = "idle"
  BY <1>1 DEF Init
<1> QED BY <1>2 DEF OrderInv, Ordered, Follows, HandlerInTime, PendingLabels, CkptLabels,
           XferLabels, RestoreLabels, ReplayLabels, FinLabels

\* However stale the cache from which handleFinalizing runs once more (comment 900-903),
\* and whatever fails, no step takes a completed migration out of Completed.
THEOREM CompletedStays == Spec => CompletedIsFinal
<1>1. TypeOK /\ OrderInv /\ [Next]_vars => OrderInv'
  BY OrderNext DEF Kept
<1>2. TypeOK /\ OrderInv /\ [Next]_vars
        => [server.phase = "Completed" => server.phase' = "Completed"]_vars
  BY OrderNext DEF Kept
<1> QED BY <1>1, <1>2, OrderInit, TypeCorrect, PTL DEF Spec, CompletedIsFinal

-----------------------------------------------------------------------------
(***************************************************************************)
(* What a completed migration leaves behind, however far the cache is      *)
(* behind and whenever the controller restarts, as long as API calls do    *)
(* not fail.  Versions only grow: a strategy, a Deployment or a replica    *)
(* count, once recorded, stays.  So a handler knows of them what the API   *)
(* server knows, though its copy may be old.                               *)
(***************************************************************************)
Past == {"Checkpointing", "Transferring", "Restoring", "Replaying", "Finalizing", "Completed"}
Late == {"Replaying", "Finalizing", "Completed"}
LateLabels == ReplayLabels \cup FinLabels
PastLabels == CkptLabels \cup XferLabels \cup RestoreLabels \cup LateLabels
EndLabels  == {"fin.pin", "fin.release", "fin.scaleUp", "fin.close", "fin.complete"}

\* What version v records is still so in w.
Grown(v, w) ==
  /\ v.strategy # "Auto" => w.strategy = v.strategy
  /\ v.deploy => w.deploy
  /\ v.orig # 0 => w.orig = v.orig

\* handlePending is over for a pod of owner o: strategy and Deployment are recorded.
Known(v, o) == v.strategy # "Auto" /\ (o = "Deployment" => v.deploy)

\* handleRestoring is over: Sequential has recorded the replica count.
Counted(v, o) == v.strategy = "Sequential" => o = "StatefulSet" /\ v.orig = Replicas

\* It records only what is so.
Accurate(v, o) == (v.deploy => o = "Deployment") /\ v.orig \in {0, Replicas}

\* Version v, when the API server holds w.
VersionOK(v, w, o) ==
  /\ Accurate(v, o) /\ Grown(v, w)
  /\ v.phase \in Past => Known(v, o)
  /\ v.phase \in Late => Counted(v, o)

VersionsInv == \A i \in 1 .. Len(versions) : VersionOK(versions[i], server, owner)

CopyInv ==
  /\ Accurate(m, owner) /\ Grown(m, server)
  /\ pc = "pending.detect" => m.strategy = "Auto"
  /\ pc = "pending.record" => m.strategy # "Auto"
  /\ pc \in PastLabels => Known(m, owner)
  /\ pc \in LateLabels => Counted(m, owner)
  /\ pc = "restore.status" => Counted(server, owner)
  /\ pc = "fin.source" => m.strategy # "Sequential"

\* The StatefulSet may be at zero replicas, and the source's pod gone.
Scaled == owner = "StatefulSet" /\ server.orig = Replicas

\* Some handler has got past handlePending.
Begun == pc \in PastLabels \/ \E i \in 1 .. Len(versions) : versions[i].phase \in Past

ScaleInv ==
  /\ replicas \in {0, Replicas}
  /\ (replicas = 0 \/ pc = "restore.scaleDown") => Scaled /\ server.strategy = "Sequential"
  /\ pc = "restore.orig" => owner = "StatefulSet" /\ m.strategy = "Sequential"
                            /\ replicas = Replicas
  /\ pc \in {"pending.detect", "pending.record"} => podSrc = "source" \/ Scaled
  /\ Begun /\ server.strategy = "Sequential" => podSrc = "source" \/ Scaled

\* What handleFinalizing has done so far in this run, whatever earlier runs did.
EndInv ==
  /\ pc \in EndLabels /\ m.strategy = "ShadowPod" /\ owner # "StatefulSet"
       => podSrc # "source"
  /\ pc \in EndLabels \ {"fin.pin"} /\ m.deploy => pinned
  /\ pc \in {"fin.scaleUp", "fin.close", "fin.complete"} /\ m.strategy = "Sequential"
       => ~owned
  /\ pc \in {"fin.close", "fin.complete"} /\ owner = "StatefulSet" => replicas = Replicas

CleanInv == VersionsInv /\ CopyInv /\ ScaleInv /\ EndInv /\ CompletedCleanup

ApiAnswers == "api" \notin FaultKinds

\* A save adds one version.
LEMMA SaveAmong ==
  ASSUME StatusTypeOK, NEW s \in Statuses, Save(s)
  PROVE  Among(s)
<1>0. versions \in Seq(Statuses) /\ Len(versions) \in Nat
  BY DEF StatusTypeOK
<1>1. CASE MaxLag = 0
  <2>1. versions' = <<s>>
    BY <1>1 DEF Save
  <2>2. Len(versions') = 1 /\ versions'[1] = s
    BY <2>1
  <2> QED BY <2>2 DEF Among
<1>2. CASE MaxLag # 0
  <2>1. versions' = Append(versions, s)
    BY <1>2 DEF Save
  <2>2. /\ Len(versions') = Len(versions) + 1 /\ versions'[Len(versions) + 1] = s
        /\ \A i \in 1 .. Len(versions) : versions'[i] = versions[i]
    BY <1>0, <2>1
  <2> QED BY <1>0, <2>2 DEF Among
<1> QED BY <1>1, <1>2

\* What the handler's copy knows, the API server knows too.
LEMMA ServerKnows ==
  ASSUME CopyInv
  PROVE  /\ m.strategy # "Auto" => server.strategy = m.strategy
         /\ Known(m, owner) => Known(server, owner)
         /\ Known(m, owner) /\ Counted(m, owner) => Counted(server, owner)
         /\ Known(m, owner) /\ Accurate(server, owner) => (m.deploy <=> server.deploy)
BY DEF CopyInv, Grown, Known, Counted, Accurate

\* A write that records no less than the API server held, by a handler that has made
\* sure of what the new phase and the next label need.
Orderly(s) ==
  /\ Grown(server, s) /\ Accurate(s, owner)
  /\ s.phase \in Past \/ pc' \in PastLabels => Known(s, owner)
  /\ s.phase \in Late \/ pc' \in LateLabels => Counted(s, owner)
  /\ s.phase \in Past \/ pc' \in PastLabels
       => Begun \/ pc \in {"pending.detect", "pending.record"}
  /\ s.strategy # server.strategy => pc \in {"pending.detect", "pending.record"}
  /\ s.phase = "Completed" => server.phase = "Completed" \/ pc = "fin.complete"
  /\ pc' = "pending.record" => pc = "pending.detect" /\ s.strategy # "Auto"
  /\ pc' = "restore.scaleDown" => pc = "restore.orig" /\ s.orig = replicas
  /\ pc' \notin EndLabels \cup {"pending.detect", "restore.orig", "restore.status", "fin.source"}

LEMMA CleanSave ==
  ASSUME TypeOK, CleanInv, NEW s \in Statuses, Save(s), UNCHANGED <<specVars, podVars>>,
         Orderly(s)
  PROVE  CleanInv'
<1>0. StatusTypeOK /\ server \in Statuses /\ m \in Statuses
  BY VersionTypes DEF TypeOK, StatusTypeOK
<1>1. server' = s /\ m' = s /\ Among(s)
  BY <1>0, SaveTypes, SaveAmong DEF Save
<1>2. UNCHANGED <<owner, podSrc, owned, replicas, pinned>>
  BY DEF specVars, podVars
<1>3. Grown(server, s) /\ Accurate(s, owner)
  BY DEF Orderly
<1>4. Replicas # 0
  OBVIOUS
<1>5. Len(versions) \in 1 .. Len(versions) /\ server = versions[Len(versions)]
  BY <1>0, ServerIn
<1>6. VersionsInv'
  <2> SUFFICES ASSUME NEW j \in 1 .. Len(versions')
               PROVE  VersionOK(versions'[j], s, owner)
    BY <1>1, <1>2 DEF VersionsInv
  <2>1. CASE versions'[j] = s
    BY <1>3, <2>1 DEF Orderly, VersionOK, Grown
  <2>2. CASE \E i \in 1 .. Len(versions) : versions'[j] = versions[i]
    <3>1. PICK i \in 1 .. Len(versions) : versions'[j] = versions[i]
      BY <2>2
    <3>2. VersionOK(versions[i], server, owner)
      BY DEF CleanInv, VersionsInv
    <3>3. Grown(versions[i], s)
      BY <1>3, <3>2 DEF Grown, VersionOK
    <3> QED BY <3>1, <3>2, <3>3 DEF VersionOK
  <2> QED BY <1>1, <2>1, <2>2 DEF Among
<1>7. CopyInv'
  BY <1>1, <1>2, <1>3 DEF CopyInv, Orderly, Grown, Accurate, Known, Counted
<1>8. Scaled => Scaled'
  BY <1>1, <1>2, <1>3, <1>4 DEF Scaled, Grown
<1>9. Begun' => Begun \/ pc \in {"pending.detect", "pending.record"}
  BY <1>1 DEF Begun, Among, Orderly
<1>10. ScaleInv'
  <2>1. (replicas = 0 \/ pc' = "restore.scaleDown") => Scaled' /\ s.strategy = "Sequential"
    <3>1. CASE replicas = 0
      BY <1>3, <1>8, <3>1 DEF CleanInv, ScaleInv, Grown
    <3>2. CASE pc' = "restore.scaleDown"
      <4>1. pc = "restore.orig" /\ s.orig = replicas
        BY <3>2 DEF Orderly
      <4>2. owner = "StatefulSet" /\ m.strategy = "Sequential" /\ replicas = Replicas
        BY <4>1 DEF CleanInv, ScaleInv
      <4>3. server.strategy = "Sequential"
        BY <4>2, ServerKnows DEF CleanInv
      <4> QED BY <1>1, <1>2, <1>3, <4>1, <4>2, <4>3 DEF Scaled, Grown
    <3> QED BY <3>1, <3>2
  <2>2. pc \in {"pending.detect", "pending.record"} => podSrc = "source" \/ Scaled'
    BY <1>8 DEF CleanInv, ScaleInv
  <2>3. Begun' /\ s.strategy = "Sequential" => podSrc = "source" \/ Scaled'
    BY <1>8, <1>9, <2>2 DEF CleanInv, ScaleInv, Orderly
  <2> QED BY <1>1, <1>2, <2>1, <2>2, <2>3 DEF CleanInv, ScaleInv, Orderly
<1>11. EndInv'
  BY DEF EndInv, Orderly, EndLabels
<1>12. CompletedCleanup'
  <2> SUFFICES ASSUME s.phase = "Completed"
               PROVE  /\ owner = "StatefulSet" => replicas = Replicas
                      /\ s.strategy = "Sequential" => ~owned
                      /\ s.deploy => pinned
                      /\ s.strategy = "ShadowPod" /\ owner # "StatefulSet" => podSrc # "source"
    BY <1>1, <1>2 DEF CompletedCleanup
  <2>1. Accurate(server, owner)
    BY <1>5 DEF CleanInv, VersionsInv, VersionOK
  <2>2. CASE server.phase = "Completed"
    <3>1. Known(server, owner)
      BY <1>5, <2>2 DEF CleanInv, VersionsInv, VersionOK, Past
    <3>2. s.strategy = server.strategy /\ (s.deploy => server.deploy)
      BY <1>3, <3>1 DEF Known, Grown, Accurate
    <3> QED BY <2>2, <3>2 DEF CleanInv, CompletedCleanup
  <2>3. CASE pc = "fin.complete"
    <3>1. Known(m, owner)
      BY <2>3 DEF CleanInv, CopyInv, PastLabels, LateLabels, FinLabels
    <3>2. s.strategy = m.strategy /\ (s.deploy => m.deploy)
      BY <1>3, <3>1, ServerKnows DEF Known, Grown, Accurate, CleanInv
    <3> QED BY <2>3, <3>2 DEF CleanInv, EndInv, EndLabels
  <2> QED BY <2>2, <2>3 DEF Orderly
<1> QED BY <1>6, <1>7, <1>10, <1>11, <1>12 DEF CleanInv

\* A patch is applied when the API server answers.
LEMMA PatchSaves ==
  ASSUME ApiAnswers, NEW l, NEW s, NEW next, NEW onErr, Patch(l, s, next, onErr)
  PROVE  pc = l /\ pc' = next /\ Save(s) /\ UNCHANGED <<specVars, podVars>>
BY DEF ApiAnswers, Patch, Fault

\* The steps that neither write the status nor touch the workload.
Calm ==
  /\ UNCHANGED <<versions, owner, podSrc, owned, replicas, pinned>>
  /\ m'.strategy = m.strategy /\ m'.deploy = m.deploy /\ m'.orig = m.orig

\* Where such a step may lead, within a handler or out of it.
Inside ==
  /\ pc' \in PastLabels => pc \in PastLabels
  /\ pc' \in LateLabels => pc \in LateLabels
  /\ pc' \in {"pending.detect", "pending.record"} => podSrc = "source"
  /\ pc' = "pending.detect" => m.strategy = "Auto"
  /\ pc' = "pending.record" => m.strategy # "Auto"
  /\ pc' = "restore.orig" => owner = "StatefulSet" /\ m.strategy = "Sequential"
                             /\ replicas = Replicas
  /\ pc' = "restore.status" => Counted(server, owner)
  /\ pc' = "fin.source" => m.strategy # "Sequential"
  /\ pc' \notin {"restore.scaleDown"} \cup EndLabels

LEMMA CleanCalm ==
  ASSUME CleanInv, Calm, pc' = pc \/ Inside
  PROVE  CleanInv'
<1>0. server' = server
  BY DEF Calm, server
<1>1. VersionsInv'
  BY <1>0 DEF CleanInv, VersionsInv, Calm
<1>2. CopyInv'
  <2>1. Accurate(m, owner)' /\ Grown(m, server)'
    BY <1>0 DEF CleanInv, CopyInv, Calm, Accurate, Grown
  <2>2. (Known(m, owner) => Known(m, owner)') /\ (Counted(m, owner) => Counted(m, owner)')
        /\ (Counted(server, owner) => Counted(server, owner)')
    BY <1>0 DEF Calm, Known, Counted
  <2> QED BY <1>0, <2>1, <2>2 DEF CleanInv, CopyInv, Calm, Inside
<1>3. Scaled' = Scaled
  BY <1>0 DEF Scaled, Calm
<1>4. Begun' => Begun
  BY DEF Begun, Calm, Inside
<1>5. ScaleInv'
  BY <1>0, <1>3, <1>4 DEF CleanInv, ScaleInv, Calm, Inside
<1>6. EndInv'
  BY DEF CleanInv, EndInv, Calm, Inside, EndLabels
<1>7. CompletedCleanup'
  BY <1>0 DEF CleanInv, CompletedCleanup, Calm
<1> QED BY <1>1, <1>2, <1>5, <1>6, <1>7 DEF CleanInv

\* The calls that only lead from label to label.
LEMMA CleanCalls ==
  ASSUME TypeOK, CleanInv, ApiAnswers,
         \/ Requeue \/ PendingGet \/ CkptConnect \/ CkptQueue \/ CkptCall \/ XferLoad
         \/ XferCreate \/ RestoreGet \/ ReplayUnbind \/ ReplayStart \/ ReplayPoll
         \/ FinEndReplay \/ FinReadError
  PROVE  CleanInv'
<1> USE DEF Calm, Inside, PastLabels, LateLabels, CkptLabels, XferLabels, RestoreLabels,
            ReplayLabels, FinLabels, EndLabels, podVars, specVars, statusVars
<1>1. CASE Requeue \/ CkptConnect \/ CkptQueue
  <2>1. Calm /\ Inside
    BY <1>1 DEF Requeue, CkptConnect, CkptQueue, Broker
  <2> QED BY <2>1, CleanCalm
<1>2. CASE PendingGet
  <2>1. Calm /\ Inside
    BY <1>2 DEF PendingGet, Read
  <2> QED BY <2>1, CleanCalm
<1>3. CASE CkptCall
  <2>0. m \in Statuses
    BY DEF TypeOK, StatusTypeOK
  <2>1. Calm
    BY <1>3, <2>0 DEF CkptCall, Statuses
  <2>2. Inside
    BY <1>3 DEF CkptCall
  <2> QED BY <2>1, <2>2, CleanCalm
<1>4. CASE XferLoad
  <2>1. Calm /\ Inside
    BY <1>4 DEF XferLoad, Push, Read
  <2> QED BY <2>1, CleanCalm
<1>5. CASE XferCreate
  <2>1. Calm /\ Inside
    BY <1>5 DEF XferCreate, Cluster
  <2> QED BY <2>1, CleanCalm
<1>6. CASE RestoreGet
  <2>0. pc = "restore.get" /\ Known(m, owner) /\ Begun
    BY <1>6 DEF RestoreGet, Read, CleanInv, CopyInv, Begun
  <2>1. Calm
    BY <1>6 DEF RestoreGet, Read
  <2>2. pc' = "restore.orig" => owner = "StatefulSet" /\ m.strategy = "Sequential"
                                /\ replicas = Replicas
    BY <1>6 DEF RestoreGet, Read, Sequential, CleanInv, ScaleInv
  <2>3. pc' = "restore.status" => Counted(server, owner)
    <3>1. pc' = "restore.status" /\ m.strategy = "Sequential" => podSrc = "running"
      BY <1>6 DEF RestoreGet, Read, Sequential
    <3>2. server.strategy = m.strategy
      BY <2>0, ServerKnows DEF CleanInv, Known
    <3> QED BY <2>0, <3>1, <3>2 DEF CleanInv, ScaleInv, Scaled, Counted
  <2>4. pc' \in {"restore.create", "restore.status", "restore.orig", "requeue"}
    BY <1>6 DEF RestoreGet, Read
  <2> QED BY <2>0, <2>1, <2>2, <2>3, <2>4, CleanCalm
<1>7. CASE ReplayUnbind \/ ReplayStart \/ ReplayPoll
  <2>1. Calm /\ Inside
    BY <1>7 DEF ReplayUnbind, ReplayStart, ReplayPoll, Broker
  <2> QED BY <2>1, CleanCalm
<1>8. CASE FinEndReplay
  <2>1. Calm /\ Inside
    BY <1>8 DEF FinEndReplay, Broker
  <2> QED BY <2>1, CleanCalm
<1>9. CASE FinReadError
  BY <1>9 DEF FinReadError, Fault, ApiAnswers
<1> QED BY <1>1, <1>2, <1>3, <1>4, <1>5, <1>6, <1>7, <1>8, <1>9

\* The patches of the status.
LEMMA CleanPatches ==
  ASSUME TypeOK, CleanInv, ApiAnswers,
         \/ Accept \/ FailMigration \/ PendingDetect \/ PendingRecord \/ CkptStatus
         \/ XferMark \/ XferStatus \/ RestoreMark \/ RestoreOrig \/ RestoreStatus
         \/ ReplayMark \/ ReplayCheck \/ ReplayStatus \/ FinMark \/ FinComplete
  PROVE  CleanInv'
<1>0. StatusTypeOK /\ server \in Statuses /\ m \in Statuses
  BY VersionTypes DEF TypeOK, StatusTypeOK
<1>1. Len(versions) \in 1 .. Len(versions) /\ server = versions[Len(versions)]
  BY <1>0, ServerIn
<1>2. VersionOK(server, server, owner)
  BY <1>1 DEF CleanInv, VersionsInv
<1>3. server.phase \in Past => Begun
  BY <1>1 DEF Begun
<1>4. /\ pc \in PastLabels => Known(server, owner) /\ Begun
      /\ pc \in LateLabels => Counted(server, owner)
  BY ServerKnows DEF CleanInv, CopyInv, Begun, PastLabels
<1> DEFINE Same(s) == s.strategy = server.strategy /\ s.deploy = server.deploy
                      /\ s.orig = server.orig
<1>5. ASSUME NEW s, Same(s)
      PROVE  /\ Grown(server, s) /\ Accurate(s, owner)
             /\ Known(server, owner) => Known(s, owner)
             /\ Counted(server, owner) => Counted(s, owner)
  BY <1>2, <1>5 DEF VersionOK, Grown, Accurate, Known, Counted
<1> USE DEF PastLabels, LateLabels, CkptLabels, XferLabels, RestoreLabels, ReplayLabels,
            FinLabels, EndLabels, Past, Late
<1>6. ASSUME NEW s \in Statuses, Same(s), Save(s), UNCHANGED <<specVars, podVars>>,
             \/ s.phase \in {"Pending", "Failed"} /\ pc' \in {"requeue", "idle"}
             \/ s.phase = server.phase /\ pc \in PastLabels
                /\ (pc' \in {"requeue", "xfer.create", "restore.get"} \/ pc \in LateLabels)
             \/ /\ s.phase \in {"Transferring", "Restoring"}
                /\ pc \in PastLabels /\ pc' = "refetch"
             \/ /\ s.phase \in {"Replaying", "Finalizing"} /\ Counted(server, owner)
                /\ pc \in PastLabels /\ pc' = "refetch"
             \/ s.phase = "Completed" /\ pc = "fin.complete" /\ pc' = "idle",
             pc' \in {"requeue", "idle", "refetch", "xfer.create", "restore.get",
                      "replay.poll", "fin.endReplay"}
      PROVE  CleanInv'
  <2>1. /\ s.phase \in Past \/ pc' \in PastLabels => Known(s, owner) /\ Begun
        /\ s.phase \in Late \/ pc' \in LateLabels => Counted(s, owner)
    BY <1>2, <1>3, <1>4, <1>5, <1>6 DEF VersionOK
  <2>2. Orderly(s)
    BY <1>5, <1>6, <2>1 DEF Orderly
  <2> QED BY <1>6, <2>2, CleanSave
<1>7. CASE Accept \/ FailMigration
  <2>1. PICK p \in {"Pending", "Failed"} : \E l : \E next \in {"requeue", "idle"} :
          Patch(l, [server EXCEPT !.phase = p], next, "requeue")
    BY <1>7 DEF Accept, FailMigration
  <2> DEFINE s == [server EXCEPT !.phase = p]
  <2>0. s \in Statuses
    BY Written DEF Phases
  <2>2. Same(s) /\ s.phase = p
    BY <1>0 DEF Statuses
  <2>3. Save(s) /\ UNCHANGED <<specVars, podVars>> /\ pc' \in {"requeue", "idle"}
    BY <2>1, PatchSaves
  <2> HIDE DEF s
  <2> QED BY <1>6, <2>0, <2>2, <2>3
<1>8. CASE PendingDetect
  <2>1. CASE Save([server EXCEPT !.strategy = IF owner = "StatefulSet" THEN "Sequential"
                                                                   ELSE "ShadowPod"])
             /\ m = server /\ pc' = "pending.record"
    <3> DEFINE k == IF owner = "StatefulSet" THEN "Sequential" ELSE "ShadowPod"
               s == [server EXCEPT !.strategy = k]
    <3>0. s \in Statuses
      BY Written
    <3>1. s.phase = server.phase /\ s.strategy = k /\ k # "Auto"
          /\ s.deploy = server.deploy /\ s.orig = server.orig
      BY <1>0 DEF Statuses
    <3>2. pc = "pending.detect" /\ server.strategy = "Auto"
      BY <1>8, <2>1 DEF PendingDetect, CleanInv, CopyInv
    <3>3. UNCHANGED <<specVars, podVars>>
      BY <1>8 DEF PendingDetect
    <3>4. server.phase \notin Past
      BY <1>2, <3>2 DEF VersionOK, Known
    <3> HIDE DEF k, s
    <3>5. Orderly(s)
      BY <1>2, <2>1, <3>1, <3>2, <3>4 DEF Orderly, Grown, Accurate, VersionOK
    <3>6. Save(s)
      BY <2>1 DEF s, k
    <3> QED BY <3>0, <3>3, <3>5, <3>6, CleanSave
  <2>2. CASE pc' = "requeue" /\ UNCHANGED statusVars
    <3>1. Calm /\ Inside
      BY <1>8, <2>2 DEF PendingDetect, Calm, Inside, statusVars, podVars, specVars
    <3> QED BY <3>1, CleanCalm
  <2> QED BY <1>8, <2>1, <2>2 DEF PendingDetect, Fault, ApiAnswers
<1>9. CASE PendingRecord
  <2> DEFINE b == owner = "Deployment"
             s == [server EXCEPT !.phase = "Checkpointing", !.deploy = @ \/ b]
  <2>1. s \in Statuses
    BY Written DEF Phases
  <2>2. /\ s.phase = "Checkpointing" /\ s.strategy = server.strategy
        /\ s.deploy = (server.deploy \/ b) /\ s.orig = server.orig
    BY <1>0 DEF Statuses
  <2>3. Patch("pending.record", s, "refetch", "requeue")
    BY <1>9 DEF PendingRecord, Transition, Fault, ApiAnswers
  <2> HIDE DEF s
  <2>4. pc = "pending.record" /\ pc' = "refetch" /\ Save(s) /\ UNCHANGED <<specVars, podVars>>
    BY <2>3, PatchSaves
  <2>5. server.strategy # "Auto"
    BY <2>4, ServerKnows DEF CleanInv, CopyInv
  <2>6. Orderly(s)
    BY <1>2, <2>2, <2>4, <2>5 DEF Orderly, Grown, Accurate, Known, VersionOK
  <2> QED BY <2>1, <2>4, <2>6, CleanSave
<1>10. CASE CkptStatus
  <2> DEFINE s == [server EXCEPT !.phase = "Transferring", !.ckpt = m.ckpt]
  <2>0. s \in Statuses
    BY Written DEF Phases
  <2>1. Same(s) /\ s.phase = "Transferring"
    BY <1>0 DEF Statuses
  <2>2. Patch("ckpt.status", s, "refetch", "requeue")
    BY <1>10 DEF CkptStatus, Transition
  <2> HIDE DEF s
  <2> QED BY <1>6, <2>0, <2>1, <2>2, PatchSaves
<1>11. CASE XferStatus
  <2> DEFINE s == [server EXCEPT !.phase = "Restoring", !.timers = @ \ {"Transferring"}]
  <2>0. s \in Statuses
    BY Written DEF Phases, StartKeys
  <2>1. Same(s) /\ s.phase = "Restoring"
    BY <1>0 DEF Statuses
  <2>2. Patch("xfer.status", s, "refetch", "requeue")
    BY <1>11 DEF XferStatus, Transition
  <2> HIDE DEF s
  <2> QED BY <1>6, <2>0, <2>1, <2>2, PatchSaves
<1>12. CASE RestoreStatus
  <2> DEFINE s == [server EXCEPT !.phase = "Replaying", !.timers = @ \ {"Restoring"}]
  <2>0. s \in Statuses
    BY Written DEF Phases, StartKeys
  <2>1. Same(s) /\ s.phase = "Replaying"
    BY <1>0 DEF Statuses
  <2>2. Patch("restore.status", s, "refetch", "requeue")
    BY <1>12 DEF RestoreStatus, Transition
  <2>3. pc = "restore.status" => Counted(server, owner)
    BY DEF CleanInv, CopyInv
  <2> HIDE DEF s
  <2> QED BY <1>6, <2>0, <2>1, <2>2, <2>3, PatchSaves
<1>13. CASE ReplayStatus
  <2> DEFINE s == [server EXCEPT !.phase = "Finalizing", !.timers = @ \ {"Replaying"},
                                 !.last = NoDepth]
  <2>0. s \in Statuses
    BY Written DEF Phases, StartKeys
  <2>1. Same(s) /\ s.phase = "Finalizing"
    BY <1>0 DEF Statuses
  <2>2. Patch("replay.status", s, "refetch", "requeue")
    BY <1>13 DEF ReplayStatus, Transition
  <2> HIDE DEF s
  <2> QED BY <1>4, <1>6, <2>0, <2>1, <2>2, PatchSaves
<1>14. CASE FinComplete
  <2> DEFINE s == [server EXCEPT !.phase = "Completed"]
  <2>0. s \in Statuses
    BY Written DEF Phases
  <2>1. Same(s) /\ s.phase = "Completed"
    BY <1>0 DEF Statuses
  <2>2. Patch("fin.complete", s, "idle", "requeue")
    BY <1>14 DEF FinComplete
  <2> HIDE DEF s
  <2> QED BY <1>6, <2>0, <2>1, <2>2, PatchSaves
<1>15. CASE XferMark \/ RestoreMark \/ ReplayMark \/ FinMark
  <2>1. PICK k \in StartKeys, l \in {"xfer.mark", "restore.mark", "replay.mark", "fin.mark"} :
          \E next \in {"xfer.create", "restore.get", "replay.poll", "fin.endReplay"} :
            /\ Mark(l, k, next)
            /\ next \in {"xfer.create", "restore.get"} \/ l \in LateLabels
    BY <1>15 DEF XferMark, RestoreMark, ReplayMark, FinMark, StartKeys
  <2> DEFINE s == [server EXCEPT !.timers = @ \cup {k}]
  <2>0. s \in Statuses
    BY Written
  <2>2. Same(s) /\ s.phase = server.phase
    BY <1>0 DEF Statuses
  <2>3. /\ Save(s) /\ UNCHANGED <<specVars, podVars>> /\ pc = l
        /\ pc' \in {"xfer.create", "restore.get", "replay.poll", "fin.endReplay"}
        /\ pc' \in {"xfer.create", "restore.get"} \/ pc \in LateLabels
    BY <2>1, PatchSaves DEF Mark
  <2> HIDE DEF s
  <2> QED BY <1>6, <2>0, <2>2, <2>3
<1>16. CASE ReplayCheck
  <2>1. CASE Patch("replay.check", [server EXCEPT !.last = depth], "requeue", "requeue")
    <3> DEFINE s == [server EXCEPT !.last = depth]
    <3>0. s \in Statuses
      BY Written
    <3>1. Same(s) /\ s.phase = server.phase
      BY <1>0 DEF Statuses
    <3>2. Patch("replay.check", s, "requeue", "requeue")
      BY <2>1
    <3> HIDE DEF s
    <3> QED BY <1>6, <3>0, <3>1, <3>2, PatchSaves
  <2>2. CASE pc' = "fail" /\ UNCHANGED <<statusVars, podVars, specVars>>
    <3>1. Calm /\ Inside
      BY <2>2 DEF Calm, Inside, statusVars, podVars, specVars
    <3> QED BY <3>1, CleanCalm
  <2> QED BY <1>16, <2>1, <2>2 DEF ReplayCheck
<1>17. CASE RestoreOrig
  <2> DEFINE s == [server EXCEPT !.orig = replicas]
  <2>0. s \in Statuses
    BY Written
  <2>1. s.phase = server.phase /\ s.strategy = server.strategy
        /\ s.deploy = server.deploy /\ s.orig = replicas
    BY <1>0 DEF Statuses
  <2>2. Patch("restore.orig", s, "restore.scaleDown", "restore.scaleDown")
    BY <1>17 DEF RestoreOrig
  <2> HIDE DEF s
  <2>3. pc = "restore.orig" /\ pc' = "restore.scaleDown" /\ Save(s)
        /\ UNCHANGED <<specVars, podVars>>
    BY <2>2, PatchSaves
  <2>4. owner = "StatefulSet" /\ replicas = Replicas
    BY <2>3 DEF CleanInv, ScaleInv
  <2>5. Grown(server, s) /\ Accurate(s, owner) /\ Known(s, owner) /\ Counted(s, owner)
    BY <1>2, <1>4, <2>1, <2>3, <2>4 DEF Grown, Accurate, Known, Counted, VersionOK
  <2>6. Orderly(s)
    BY <1>4, <2>1, <2>3, <2>5 DEF Orderly
  <2> QED BY <2>0, <2>3, <2>6, CleanSave
<1> QED BY <1>7, <1>8, <1>9, <1>10, <1>11, <1>12, <1>13, <1>14, <1>15, <1>16, <1>17

\* handleRestoring touches the workload only before the migration is completed.
LEMMA CleanRestore ==
  ASSUME TypeOK, OrderInv, CleanInv, ApiAnswers, RestoreScaleDown \/ RestoreCreate
  PROVE  CleanInv'
<1>1. UNCHANGED <<versions, m, owner, pinned>>
  BY DEF RestoreScaleDown, RestoreCreate, Cluster, statusVars, specVars, ApiAnswers, Fault
<1>2. server' = server
  BY <1>1 DEF server
<1>3. pc \in RestoreLabels /\ pc' \in {"requeue", "fail"}
  BY DEF RestoreScaleDown, RestoreCreate, Cluster, RestoreLabels
<1>4. server.phase # "Completed"
  <2>1. At("Restoring") /\ StatusTypeOK
    BY <1>3 DEF OrderInv, HandlerInTime, TypeOK
  <2> QED BY <2>1, NotCompleted, ServerIn
<1>5. VersionsInv'
  BY <1>1, <1>2 DEF CleanInv, VersionsInv
<1>6. CopyInv'
  BY <1>1, <1>2, <1>3 DEF CleanInv, CopyInv, PastLabels, LateLabels, CkptLabels, XferLabels,
     RestoreLabels, ReplayLabels, FinLabels
<1>7. /\ Scaled' = Scaled /\ Begun
      /\ Begun' => Begun
  BY <1>1, <1>2, <1>3 DEF Scaled, Begun, PastLabels
<1>8. ScaleInv'
  <2>1. CASE RestoreScaleDown
    <3>1. pc = "restore.scaleDown" /\ replicas' = 0 /\ podSrc' = podSrc
      BY <2>1 DEF RestoreScaleDown, Cluster, Fault, ApiAnswers
    <3> QED BY <1>2, <1>3, <1>7, <3>1 DEF CleanInv, ScaleInv
  <2>2. CASE RestoreCreate
    <3>1. replicas' = replicas /\ (podSrc' = podSrc \/ podSrc = "none")
      BY <2>2 DEF RestoreCreate
    <3> QED BY <1>2, <1>3, <1>7, <3>1 DEF CleanInv, ScaleInv
  <2> QED BY <2>1, <2>2
<1>9. EndInv'
  BY <1>3 DEF EndInv, EndLabels
<1>10. CompletedCleanup'
  BY <1>2, <1>4 DEF CompletedCleanup
<1> QED BY <1>5, <1>6, <1>8, <1>9, <1>10 DEF CleanInv

\* handleFinalizing does its part of the cleanup, in this run or again.
LEMMA CleanFinalize ==
  ASSUME TypeOK, CleanInv, ApiAnswers,
         FinDeleteQueue \/ FinSource \/ FinPin \/ FinRelease \/ FinScaleUp \/ FinClose
  PROVE  CleanInv'
<1>0. m.strategy \in {"Auto", "ShadowPod", "Sequential"} /\ m.orig \in 0 .. Replicas
  BY DEF TypeOK, StatusTypeOK, Statuses
<1>1. UNCHANGED <<versions, m, owner>>
  BY DEF FinDeleteQueue, FinSource, FinPin, FinRelease, FinScaleUp, FinClose, Broker, Cluster,
     statusVars, specVars
<1>2. server' = server
  BY <1>1 DEF server
<1>3. /\ pc \in FinLabels /\ pc' \in {"fin.source"} \cup EndLabels
      /\ pc' = "fin.source" => m.strategy # "Sequential"
  BY DEF FinDeleteQueue, FinSource, FinPin, FinRelease, FinScaleUp, FinClose, Broker, Cluster,
     AfterSource, AfterPin, FinLabels, EndLabels, Sequential, ApiAnswers, Fault
<1>4. Known(m, owner) /\ Counted(m, owner)
  BY <1>3 DEF CleanInv, CopyInv, PastLabels, LateLabels
<1>5. server.strategy = m.strategy
  BY <1>4, ServerKnows DEF CleanInv, Known
<1>6. m.strategy # "Sequential" => replicas = Replicas
  BY <1>5 DEF CleanInv, ScaleInv
<1>7. m.strategy = "Sequential" => owner = "StatefulSet" /\ m.orig = Replicas /\ m.orig > 0
  BY <1>4 DEF Counted
<1>8. /\ replicas' = replicas \/ (pc = "fin.scaleUp" /\ pc' = "fin.close")
      /\ replicas' # replicas => replicas' = m.orig /\ replicas < m.orig
  BY DEF FinDeleteQueue, FinSource, FinPin, FinRelease, FinScaleUp, FinClose, Broker, Cluster,
     podVars
<1>9. replicas' \in {replicas, Replicas}
  BY <1>0, <1>6, <1>7, <1>8 DEF CleanInv, ScaleInv
<1>10. VersionsInv'
  BY <1>1, <1>2 DEF CleanInv, VersionsInv
<1>11. CopyInv'
  BY <1>1, <1>2, <1>3, <1>4 DEF CleanInv, CopyInv, PastLabels, LateLabels, CkptLabels,
     XferLabels, RestoreLabels, ReplayLabels, FinLabels, EndLabels
<1>12. /\ podSrc' = podSrc \/ (pc = "fin.source" /\ podSrc' # "source")
       /\ owned' = owned \/ ~owned'
       /\ pinned' = pinned \/ pinned'
  BY DEF FinDeleteQueue, FinSource, FinPin, FinRelease, FinScaleUp, FinClose, Broker, Cluster,
     podVars
<1>13. ScaleInv'
  <2>1. Scaled' = Scaled /\ Begun
    BY <1>1, <1>2, <1>3 DEF Scaled, Begun, PastLabels, LateLabels
  <2>2. pc = "fin.source" => server.strategy # "Sequential"
    BY <1>5 DEF CleanInv, CopyInv
  <2>3. pc' \notin {"restore.scaleDown", "restore.orig", "pending.detect", "pending.record"}
    BY <1>3 DEF EndLabels
  <2> QED BY <1>2, <1>9, <1>12, <2>1, <2>2, <2>3 DEF CleanInv, ScaleInv
<1>14. CompletedCleanup'
  BY <1>1, <1>2, <1>9, <1>12 DEF CleanInv, CompletedCleanup
<1>15. EndInv'
  <2>1. pc' \in EndLabels /\ m.strategy = "ShadowPod" /\ owner # "StatefulSet"
          => podSrc' # "source"
    BY DEF FinDeleteQueue, FinSource, FinPin, FinRelease, FinScaleUp, FinClose, Broker, Cluster,
       podVars, AfterSource, AfterPin, EndLabels, Sequential, ApiAnswers, Fault, CleanInv, EndInv
  <2>2. pc' \in EndLabels \ {"fin.pin"} /\ m.deploy => pinned'
    BY DEF FinDeleteQueue, FinSource, FinPin, FinRelease, FinScaleUp, FinClose, Broker, Cluster,
       podVars, AfterSource, AfterPin, EndLabels, Sequential, ApiAnswers, Fault, CleanInv, EndInv
  <2>3. pc' \in {"fin.scaleUp", "fin.close", "fin.complete"} /\ m.strategy = "Sequential"
          => ~owned'
    BY <1>7 DEF FinDeleteQueue, FinSource, FinPin, FinRelease, FinScaleUp, FinClose, Broker,
       Cluster, podVars, AfterSource, AfterPin, Sequential, ApiAnswers, Fault, CleanInv, EndInv
  <2>4. pc' \in {"fin.close", "fin.complete"} /\ owner = "StatefulSet" => replicas' = Replicas
    <3>1. CASE m.strategy # "Sequential"
      BY <1>6, <1>9, <3>1
    <3>2. CASE m.strategy = "Sequential"
      <4>1. pc' \in {"fin.close", "fin.complete"} => FinScaleUp \/ FinClose
        BY <1>7, <3>2 DEF FinDeleteQueue, FinSource, FinPin, FinRelease, Broker, Cluster,
           AfterSource, AfterPin, Sequential, ApiAnswers, Fault
      <4>2. CASE FinScaleUp
        <5>1. replicas' = IF replicas < m.orig THEN m.orig ELSE replicas
          BY <4>2 DEF FinScaleUp, Cluster, ApiAnswers, Fault
        <5> QED BY <1>7, <3>2, <5>1 DEF CleanInv, ScaleInv
      <4>3. CASE FinClose
        BY <4>3 DEF FinClose, podVars, CleanInv, EndInv
      <4> QED BY <4>1, <4>2, <4>3
    <3> QED BY <3>1, <3>2
  <2> QED BY <1>1, <2>1, <2>2, <2>3, <2>4 DEF EndInv
<1> QED BY <1>10, <1>11, <1>13, <1>14, <1>15 DEF CleanInv

\* A reconcile begins with the cached version, the cache catches up, the controller
\* restarts.
LEMMA CleanReads ==
  ASSUME TypeOK, CleanInv, Reconcile \/ Refetch \/ CacheSync \/ Crash
  PROVE  CleanInv'
<1>0. StatusTypeOK /\ server \in Statuses /\ cached \in Statuses
  BY VersionTypes DEF TypeOK
<1>1. /\ Len(versions) \in 1 .. Len(versions) /\ server = versions[Len(versions)]
      /\ 1 \in 1 .. Len(versions) /\ cached = versions[1]
  BY <1>0, ServerIn
<1>2. VersionOK(server, server, owner) /\ VersionOK(cached, server, owner)
  BY <1>1 DEF CleanInv, VersionsInv
<1>3. UNCHANGED <<owner, podSrc, owned, replicas, pinned>>
  BY DEF Reconcile, Refetch, Fetch, CacheSync, Crash, podVars, specVars
<1>4. ASSUME server' = server,
             \A j \in 1 .. Len(versions') :
               \E i \in 1 .. Len(versions) : versions'[j] = versions[i],
             CopyInv',
             pc' \in EndLabels \cup {"restore.scaleDown", "restore.orig", "pending.detect",
                                     "pending.record"} => pc' = pc /\ m' = m,
             pc' \in PastLabels => Begun
      PROVE  CleanInv'
  <2>1. VersionsInv'
    BY <1>3, <1>4 DEF CleanInv, VersionsInv
  <2>2. Scaled' = Scaled /\ (Begun' => Begun)
    BY <1>3, <1>4 DEF Scaled, Begun
  <2>3. ScaleInv'
    BY <1>3, <1>4, <2>2 DEF CleanInv, ScaleInv
  <2>4. EndInv'
    BY <1>3, <1>4 DEF CleanInv, EndInv, EndLabels
  <2>5. CompletedCleanup'
    BY <1>3, <1>4 DEF CleanInv, CompletedCleanup
  <2> QED BY <1>4, <2>1, <2>3, <2>4, <2>5 DEF CleanInv
<1> USE DEF PastLabels, LateLabels, CkptLabels, XferLabels, RestoreLabels, ReplayLabels,
            FinLabels, EndLabels
<1>5. CASE Reconcile \/ Refetch
  <2>1. m' = cached /\ pc' = Entry(cached) /\ versions' = versions /\ server' = server
    BY <1>5 DEF Reconcile, Refetch, Fetch, server
  <2>2. /\ pc' \in PastLabels => cached.phase \in Past
        /\ pc' \in LateLabels => cached.phase \in Late
        /\ pc' \notin EndLabels \cup {"restore.scaleDown", "restore.orig", "restore.status",
                                      "pending.detect", "pending.record", "fin.source"}
    BY <2>1 DEF Entry, Past, Late
  <2>3. CopyInv'
    BY <1>2, <1>3, <2>1, <2>2 DEF CopyInv, VersionOK
  <2>4. pc' \in PastLabels => Begun
    BY <1>1, <2>2 DEF Begun
  <2> QED BY <1>4, <2>1, <2>2, <2>3, <2>4
<1>6. CASE CacheSync
  <2>1. /\ versions \in Seq(Statuses) /\ Len(versions) \in Nat /\ Len(versions) > 1
        /\ versions' = Tail(versions) /\ pc' = pc /\ m' = m
    BY <1>0, <1>6 DEF CacheSync, StatusTypeOK
  <2>2. /\ Len(versions') = Len(versions) - 1
        /\ \A j \in 1 .. Len(versions') : j + 1 \in 1 .. Len(versions)
                                          /\ versions'[j] = versions[j + 1]
    BY <2>1
  <2>3. server' = server
    BY <2>1, <2>2 DEF server
  <2>4. CopyInv'
    BY <1>3, <2>1, <2>3 DEF CleanInv, CopyInv
  <2>5. pc' \in PastLabels => Begun
    BY <2>1 DEF Begun
  <2> QED BY <1>4, <2>1, <2>2, <2>3, <2>4, <2>5
<1>7. CASE Crash
  <2>1. versions' = <<server>> /\ pc' = "idle" /\ m' = server
    BY <1>7 DEF Crash
  <2>2. Len(versions') = 1 /\ versions'[1] = server /\ server' = server
    BY <2>1 DEF server
  <2>3. CopyInv'
    BY <1>2, <1>3, <2>1, <2>2 DEF CopyInv, VersionOK
  <2> QED BY <1>1, <1>4, <2>1, <2>2, <2>3
<1> QED BY <1>5, <1>6, <1>7

\* The rest of the cluster and the consumers.
LEMMA CleanOthers ==
  ASSUME TypeOK, CleanInv,
         \/ Tick \/ JobEnds \/ PodStarts \/ PodGone \/ StaleGone \/ StsDeletes \/ StsCreates
         \/ ConnectionLost \/ Traffic \/ Done \/ UNCHANGED vars
  PROVE  CleanInv'
<1>1. CASE \/ Tick \/ JobEnds \/ StaleGone \/ ConnectionLost \/ Traffic \/ Done
           \/ UNCHANGED vars
  <2>1. Calm /\ pc' = pc
    BY <1>1 DEF Tick, JobEnds, StaleGone, ConnectionLost, Traffic, Done, Idle, Calm, vars,
       statusVars, podVars, specVars
  <2> QED BY <2>1, CleanCalm
<1>2. CASE PodStarts \/ PodGone \/ StsDeletes \/ StsCreates
  <2>1. UNCHANGED <<versions, m, owner, pc, owned, replicas, pinned>>
    BY <1>2 DEF PodStarts, PodGone, StsDeletes, StsCreates, Idle, statusVars, specVars
  <2>2. server' = server /\ Scaled' = Scaled /\ Begun' = Begun
    BY <2>1 DEF server, Scaled, Begun
  <2>3. /\ podSrc' = "source" => podSrc = "source" \/ owner = "StatefulSet"
        /\ podSrc = "source" => podSrc' = "source" \/ replicas = 0
    BY <1>2 DEF PodStarts, PodGone, StsDeletes, StsCreates
  <2>4. VersionsInv' /\ CopyInv'
    BY <2>1, <2>2 DEF CleanInv, VersionsInv, CopyInv
  <2>5. ScaleInv'
    BY <2>1, <2>2, <2>3 DEF CleanInv, ScaleInv
  <2>6. EndInv' /\ CompletedCleanup'
    BY <2>1, <2>2, <2>3 DEF CleanInv, EndInv, CompletedCleanup
  <2> QED BY <2>4, <2>5, <2>6 DEF CleanInv
<1> QED BY <1>1, <1>2

\* Nothing is recorded at the start.
LEMMA CleanInit == Init => CleanInv
<1> SUFFICES ASSUME Init PROVE CleanInv
  OBVIOUS
<1>1. PICK k \in Strategies :
        versions = <<[phase |-> "New", strategy |-> k, deploy |-> FALSE, ckpt |-> NoImage,
                      orig |-> 0, timers |-> {}, last |-> NoDepth]>>
  BY DEF Init
<1>2. /\ Len(versions) = 1 /\ m = versions[1] /\ server = versions[1]
      /\ server.phase = "New" /\ server.deploy = FALSE /\ server.orig = 0
  BY <1>1 DEF Init, server
<1>3. pc = "idle" /\ replicas = Replicas
  BY DEF Init
<1> USE DEF PastLabels, LateLabels, CkptLabels, XferLabels, RestoreLabels, ReplayLabels,
            FinLabels, EndLabels, Past, Late
<1>4. VersionsInv /\ CopyInv
  BY <1>2, <1>3 DEF VersionsInv, VersionOK, CopyInv, Accurate, Grown
<1>5. ScaleInv
  BY <1>2, <1>3 DEF ScaleInv, Begun
<1>6. EndInv /\ CompletedCleanup
  BY <1>2, <1>3 DEF EndInv, CompletedCleanup
<1> QED BY <1>4, <1>5, <1>6 DEF CleanInv

\* CompletedCleanup holds in every reachable state when API calls do not fail, for every
\* lag of the cache, any number of restarts, broker faults and failed Jobs, and although
\* handleFinalizing may run again after Completed: the replica count is back, the target
\* is released, the Deployment is pinned and the replaced source is deleted.  With API
\* faults it does not hold: the four writes of handleFinalizing (797-879) only log theirs.
THEOREM CompletedAlwaysClean ==
  ASSUME "api" \notin FaultKinds
  PROVE  Spec => []CompletedCleanup
<1>1. ApiAnswers
  BY DEF ApiAnswers
<1>2. TypeOK /\ OrderInv /\ [Next]_vars => OrderInv'
  BY OrderNext DEF Kept
<1>3. TypeOK /\ OrderInv /\ CleanInv /\ [Next]_vars => CleanInv'
  BY <1>1, CleanPatches, CleanCalls, CleanRestore, CleanFinalize, CleanReads, CleanOthers
     DEF Next, Handlers, Environment
<1>4. CleanInv => CompletedCleanup
  BY DEF CleanInv
<1> QED BY <1>2, <1>3, <1>4, OrderInit, CleanInit, TypeCorrect, PTL DEF Spec

\* No process starts or stops.
SameProcesses == \A p \in Procs : on'[p] = "off" <=> on[p] = "off"

\* No broker call starts or ends a process.
LEMMA ClientProcesses ==
  ASSUME MessagingTypeOK, ClientStep
  PROVE  SameProcesses
<1>1. Effect
  BY ClientEffect
<1>2. ASSUME NEW q \in Queues, Delete(q) PROVE SameProcesses
  BY <1>2 DEF Delete, SameProcesses, Queues
<1>3. CASE on' = on
  BY <1>3 DEF SameProcesses
<1> QED BY <1>1, <1>2, <1>3 DEF Effect, topoVars, CreateSecondary, Unbind, Bind, DeclareBind,
           Post

\* A consumer may change its queue; none starts or ends.
LEMMA TrafficProcesses ==
  ASSUME MessagingTypeOK, Traffic
  PROVE  SameProcesses
<1>1. CASE on' = on
  BY <1>1 DEF SameProcesses
<1>2. ASSUME NEW p \in Procs, ReadControl(p) PROVE SameProcesses
  <2> DEFINE msgs == ctrl[PodName(p)]
             target == msgs[Len(msgs)].queue
  <2>1. PodName(p) \in Names
    BY DEF PodName, Names
  <2>2. msgs \in Seq(ControlMsgs) /\ msgs # <<>>
    BY <1>2, <2>1 DEF MessagingTypeOK, ReadControl
  <2>3. msgs[Len(msgs)] \in ControlMsgs
    BY <2>2
  <2>4. target # "off"
    BY <2>3 DEF ControlMsgs, EndReplay, StartReplay
  <2>5. on[p] # "off" /\ (on' = on \/ on' = [on EXCEPT ![p] = target])
    BY <1>2 DEF ReadControl
  <2> HIDE DEF target
  <2> QED BY <2>4, <2>5 DEF MessagingTypeOK, SameProcesses
<1> QED BY <1>1, <1>2 DEF Traffic, Publish, Deliver, Process
==============================================================================
