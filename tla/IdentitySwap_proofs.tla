------------------------- MODULE IdentitySwap_proofs -------------------------
(***************************************************************************)
(* Proofs about the identity swap: its types, and what it keeps for every  *)
(* number of messages, every prefetch, any number of faults of any kind    *)
(* and either swap mode, unless a theorem says otherwise.                  *)
(***************************************************************************)
EXTENDS IdentitySwap, Messaging_types

USE MessagingAssumption, SwapAssumption

-----------------------------------------------------------------------------
(***************************************************************************)
(* The steps of the whole system, one part of the type invariant at a      *)
(* time.                                                                   *)
(***************************************************************************)
LEMMA StartType == Start(sub) \in Labels
BY DEF Start, Labels

\* Every broker call of a handler is a call of the client.
LEMMA HandlerCalls ==
  ASSUME TypeOK,
         \/ FinEndReplay \/ FinDeleteQueue \/ FinClose \/ PrepConnect \/ PrepCreateQueue
         \/ MiniUnbind \/ MiniStart \/ MiniPoll \/ TsEnd \/ TsDeleteQueue
         \/ PreDepth \/ PreStart \/ PrePoll \/ PrePrimary \/ PreUnbind
         \/ FencePrimaryDepth \/ FenceSwapDepth \/ FenceBuffer \/ FenceUnbindPrimary
         \/ FenceUnbindSwap \/ DrainPrimary \/ DrainSwap
         \/ RbBindPrimary \/ RbBindSwap \/ RbDepth \/ RbUnbindBuffer \/ RbDeleteBuffer
         \/ CutBindPrimary \/ CutUnbindBuffer \/ CutStats \/ CutStart \/ CutEnd
         \/ CutDeleteSwap \/ CutDeleteBuffer
  PROVE  ClientStep /\ UNCHANGED trafficVars
<1> USE DEF Broker, ClientStep, Queues, Names, ControlMsgs
<1>1. tgt \in Names
  BY DEF TypeOK, StatusTypeOK
<1>2. CASE FinEndReplay
  BY <1>1, <1>2 DEF FinEndReplay
<1>3. CASE FinDeleteQueue \/ FinClose \/ PrepConnect \/ PrepCreateQueue
  BY <1>3 DEF FinDeleteQueue, FinClose, PrepConnect, PrepCreateQueue
<1>4. CASE MiniUnbind \/ MiniStart \/ MiniPoll \/ TsEnd \/ TsDeleteQueue
  BY <1>4 DEF MiniUnbind, MiniStart, MiniPoll, TsEnd, TsDeleteQueue
<1>5. CASE PreDepth \/ PreStart \/ PrePoll \/ PrePrimary \/ PreUnbind
  BY <1>5 DEF PreDepth, PreStart, PrePoll, PrePrimary, PreUnbind
<1>6. CASE \/ FencePrimaryDepth \/ FenceSwapDepth \/ FenceBuffer \/ FenceUnbindPrimary
           \/ FenceUnbindSwap \/ DrainPrimary \/ DrainSwap
  BY <1>6 DEF FencePrimaryDepth, FenceSwapDepth, FenceBuffer, FenceUnbindPrimary,
     FenceUnbindSwap, DrainPrimary, DrainSwap
<1>7. CASE RbBindPrimary \/ RbBindSwap \/ RbDepth \/ RbUnbindBuffer \/ RbDeleteBuffer
  BY <1>7 DEF RbBindPrimary, RbBindSwap, RbDepth, RbUnbindBuffer, RbDeleteBuffer
<1>8. CASE \/ CutBindPrimary \/ CutUnbindBuffer \/ CutStats \/ CutStart \/ CutEnd
           \/ CutDeleteSwap \/ CutDeleteBuffer
  BY <1>8 DEF CutBindPrimary, CutUnbindBuffer, CutStats, CutStart, CutEnd,
     CutDeleteSwap, CutDeleteBuffer
<1> QED BY <1>2, <1>3, <1>4, <1>5, <1>6, <1>7, <1>8

\* The other steps of the controller only talk to the API server and the agents.
LEMMA HandlerApi ==
  ASSUME \/ Reconcile \/ Dispatch \/ FinComplete \/ PrepScaleDown \/ PrepDeleteSource
         \/ PrepStatus \/ ReCheckpoint \/ SwapTransfer \/ CreateGet \/ CreateScaleDown
         \/ CreateDeleteSource \/ CreateScaleUp \/ CreateRecord \/ CreateRunning
         \/ MiniMark \/ MiniStatus \/ TsDeleteShadow \/ TsScaleUp \/ TsStatus
         \/ PreMark \/ PreToCutoff \/ PreToFence \/ FenceStatus \/ DrainStatus \/ RbStatus
         \/ CutDeleteShadow \/ CutMark \/ CutScaleUp \/ CutStatus
  PROVE  ApiStep
<1> USE DEF ApiStep, Patch, PatchIgnored, NoFault, Kinds, mqVars, mqRest, consumerVars
<1>1. CASE Reconcile \/ Dispatch \/ FinComplete \/ PrepScaleDown \/ PrepStatus
  BY <1>1 DEF Reconcile, Dispatch, FinComplete, PrepScaleDown, PrepStatus
<1>2. CASE ReCheckpoint \/ SwapTransfer
  BY <1>2 DEF ReCheckpoint, CkptCall, CkptStatus, CkptFallback, SwapTransfer, XferLoad,
     XferStatus
<1>3. CASE CreateGet \/ CreateScaleDown \/ CreateScaleUp \/ CreateRecord \/ CreateRunning
  BY <1>3 DEF CreateGet, CreateScaleDown, CreateScaleUp, ScaleUpTo, CreateRecord,
     CreateRunning
<1>4. CASE MiniMark \/ MiniStatus \/ TsScaleUp \/ TsStatus \/ CutScaleUp
  BY <1>4 DEF MiniMark, MiniStatus, TsScaleUp, CutScaleUp, FinalScaleUp, ScaleUpTo, TsStatus
<1>6. CASE PrepDeleteSource \/ CreateDeleteSource \/ TsDeleteShadow \/ CutDeleteShadow
  BY <1>6 DEF PrepDeleteSource, CreateDeleteSource, DeleteSource, TsDeleteShadow,
     CutDeleteShadow, DeleteShadow
<1>5. CASE \/ PreMark \/ PreToCutoff \/ PreToFence \/ FenceStatus \/ DrainStatus
           \/ RbStatus \/ CutMark \/ CutStatus
  BY <1>5 DEF PreMark, PreToCutoff, PreToFence, FenceStatus, DrainStatus, RbStatus,
     CutMark, CutStatus
<1> QED BY <1>1, <1>2, <1>3, <1>4, <1>5, <1>6

\* Every step keeps the types of the broker and the consumers.
LEMMA MessagingTypes ==
  ASSUME TypeOK, Next
  PROVE  MessagingTypeOK'
<1>0. MessagingTypeOK
  BY DEF TypeOK
<1>1. CASE StsScaleDown
  BY <1>0, <1>1, TrafficTypes DEF StsScaleDown, Procs
<1>3. CASE KubeletKill
  BY <1>0, <1>3, TrafficTypes DEF KubeletKill, Procs
<1>4. CASE KubeletStart
  <2>1. RestoreImage.state \in SUBSET Msgs /\ RestoreImage.want \in Queues
    BY DEF TypeOK, ClusterTypeOK, RestoreImage, Images, Queues
  <2> QED BY <1>0, <1>4, <2>1, TrafficTypes DEF KubeletStart, Procs
<1>5. CASE JobEnds
  BY <1>0, <1>5, ApiTypes DEF JobEnds, ApiStep, NoFault, Kinds
<1>6. CASE Producer \/ \E p \in Procs : Consumer(p)
  BY <1>0, <1>6, TrafficTypes DEF Producer, Consumer
<1>7. CASE Crash
  BY <1>0, <1>7 DEF Crash, Fault, topoVars, trafficVars, consumerVars, MessagingTypeOK
<1>8. CASE OtherMigration
  BY <1>0, <1>8, ClientTypes DEF OtherMigration, ClientStep
<1>9. CASE Tick \/ Done
  BY <1>0, <1>9 DEF Tick, Done, vars, mqVars, MessagingTypeOK
<1>10. CASE Controller
  <2> USE DEF Controller, Finalize, Prepare, CreateReplacement, MiniReplay, TrafficSwitch,
              PreFenceDrain, ExchangeFence, ParallelDrain, Rollback, FenceCutover
  <2>1. (ClientStep /\ UNCHANGED trafficVars) \/ ApiStep
    BY <1>10, HandlerCalls, HandlerApi
  <2> QED BY <1>0, <2>1, ClientTypes, ApiTypes
<1> QED BY <1>1, <1>3, <1>4, <1>5, <1>6, <1>7, <1>8, <1>9, <1>10 DEF Next, Cluster

\* The status of the migration changes in the status patches of the handlers.
LEMMA StatusTypes ==
  ASSUME TypeOK, Next
  PROVE  StatusTypeOK'
<1>0. StatusTypeOK
  BY DEF TypeOK
<1>1. CASE UNCHANGED statusVars
  BY <1>0, <1>1 DEF StatusTypeOK, statusVars
<1>2. CASE FinComplete \/ CkptStatus \/ CkptFallback \/ XferStatus
  BY <1>0, <1>1, <1>2 DEF FinComplete, CkptStatus, CkptFallback, XferStatus, Patch,
     StatusTypeOK, SubPhases
<1>3. CASE PrepStatus
  <2>1. mOrig \in 0 .. Replicas
    BY DEF TypeOK, ControllerTypeOK
  <2> QED BY <1>0, <1>1, <1>3, <2>1 DEF PrepStatus, Patch, StatusTypeOK, SubPhases
<1>4. CASE CreateScaleDown
  <2>1. replicas \in 0 .. Replicas
    BY DEF TypeOK, ClusterTypeOK
  <2> QED BY <1>0, <1>4, <2>1 DEF CreateScaleDown, StatusTypeOK
<1>5. CASE CreateRecord \/ CreateRunning \/ TsStatus
  BY <1>0, <1>1, <1>5 DEF CreateRecord, CreateRunning, TsStatus, Patch, StatusTypeOK,
     SubPhases, Names
<1>6. CASE MiniMark \/ MiniStatus \/ CutMark \/ CutStatus
  BY <1>0, <1>1, <1>6 DEF MiniMark, MiniStatus, CutMark, CutStatus, Patch, PatchIgnored,
     StartTimer, ClearTimers, StatusTypeOK, SubPhases, TimerKeys, Names
<1>7. CASE PreMark
  <2>1. depth \in 0 .. MaxMsgs
    BY DEF TypeOK, ControllerTypeOK
  <2> QED BY <1>0, <1>1, <1>7, <2>1 DEF PreMark, PatchIgnored, StartTimer, StatusTypeOK,
             TimerKeys
<1>8. CASE PreToCutoff \/ PreToFence
  <2>1. 0 \in 0 .. MaxMsgs
    OBVIOUS
  <2>2. CASE PreToCutoff
    BY <1>0, <1>1, <2>1, <2>2 DEF PreToCutoff, Patch, StatusTypeOK, SubPhases, TimerKeys
  <2>3. CASE PreToFence
    BY <1>0, <1>1, <2>1, <2>3 DEF PreToFence, Patch, ClearTimers, StatusTypeOK, SubPhases
  <2> QED BY <1>8, <2>2, <2>3
<1>9. CASE FenceStatus \/ DrainStatus \/ RbStatus
  BY <1>0, <1>1, <1>9 DEF FenceStatus, DrainStatus, RbStatus, Patch, ClearTimers,
     StatusTypeOK, SubPhases, TimerKeys
<1>10. CASE Tick
  BY <1>0, <1>10 DEF Tick, StatusTypeOK
<1>11. CASE Finalize \/ Prepare \/ ReCheckpoint \/ SwapTransfer \/ CreateReplacement
  BY <1>1, <1>2, <1>3, <1>4, <1>5, <1>11 DEF Finalize, Reconcile, Dispatch, FinEndReplay,
     FinDeleteQueue, FinClose, Prepare, PrepConnect, PrepCreateQueue, PrepScaleDown,
     PrepDeleteSource, DeleteSource, ReCheckpoint, CkptCall, SwapTransfer, XferLoad,
     CreateReplacement, CreateGet, CreateDeleteSource, CreateScaleUp, Broker
<1>12. CASE MiniReplay \/ TrafficSwitch \/ PreFenceDrain
  BY <1>1, <1>5, <1>6, <1>7, <1>8, <1>12 DEF MiniReplay, MiniUnbind, MiniStart, MiniPoll,
     TrafficSwitch, TsEnd, TsDeleteQueue, TsDeleteShadow, DeleteShadow, TsScaleUp,
     FinalScaleUp, PreFenceDrain, PreDepth, PreStart, PrePoll, PrePrimary, PreUnbind, Broker
<1>13. CASE ExchangeFence \/ ParallelDrain \/ Rollback
  BY <1>1, <1>9, <1>13 DEF ExchangeFence, FencePrimaryDepth, FenceSwapDepth, FenceBuffer,
     FenceUnbindPrimary, FenceUnbindSwap, ParallelDrain, DrainPrimary, DrainSwap, Rollback,
     RbBindPrimary, RbBindSwap, RbDepth, RbUnbindBuffer, RbDeleteBuffer, Broker
<1>14. CASE FenceCutover
  BY <1>1, <1>6, <1>14 DEF FenceCutover, CutDeleteShadow, DeleteShadow, CutBindPrimary,
     CutUnbindBuffer, CutStats, CutStart, CutEnd, CutDeleteSwap, CutDeleteBuffer, CutScaleUp,
     FinalScaleUp, Broker
<1>15. CASE Crash \/ OtherMigration \/ Cluster \/ Producer \/ Done \/ \E p \in Procs : Consumer(p)
  BY <1>1, <1>15 DEF Crash, OtherMigration, Cluster, StsScaleDown, KubeletKill, KubeletStart,
     JobEnds, Producer, Done, Consumer, vars
<1> QED BY <1>10, <1>11, <1>12, <1>13, <1>14, <1>15 DEF Next, Controller

\* Pods, replica counts and images: replica counts stay between 0 and Replicas.
LEMMA ClusterTypes ==
  ASSUME TypeOK, Next
  PROVE  ClusterTypeOK'
<1>0. ClusterTypeOK
  BY DEF TypeOK
<1>1. CASE UNCHANGED podVars
  BY <1>0, <1>1 DEF ClusterTypeOK, podVars
<1>2. CASE PrepScaleDown \/ CreateScaleDown
  BY <1>0, <1>2 DEF PrepScaleDown, CreateScaleDown, ClusterTypeOK
<1>3. CASE CreateScaleUp \/ TsScaleUp \/ CutScaleUp
  <2>1. orig \in 0 .. Replicas
    BY DEF TypeOK, StatusTypeOK
  <2> QED BY <1>0, <1>3, <2>1 DEF CreateScaleUp, TsScaleUp, CutScaleUp, FinalScaleUp,
             ScaleUpTo, ClusterTypeOK
<1>4. CASE CkptCall
  <2>1. applied["shadow"] \in SUBSET Msgs /\ want["shadow"] \in Queues
    BY DEF TypeOK, MessagingTypeOK, Procs
  <2> QED BY <1>0, <1>4, <2>1 DEF CkptCall, ClusterTypeOK, Images
<1>5. CASE \/ PrepDeleteSource \/ CreateDeleteSource \/ TsDeleteShadow \/ CutDeleteShadow
           \/ XferLoad \/ CreateGet \/ Cluster
  BY <1>0, <1>1, <1>5 DEF PrepDeleteSource, CreateDeleteSource, DeleteSource, TsDeleteShadow,
     CutDeleteShadow, DeleteShadow, XferLoad, CreateGet, Cluster, StsScaleDown, KubeletKill,
     KubeletStart, JobEnds, ClusterTypeOK
<1>6. CASE Finalize \/ Prepare \/ ReCheckpoint \/ SwapTransfer \/ CreateReplacement
  BY <1>1, <1>2, <1>3, <1>4, <1>5, <1>6 DEF Finalize, Reconcile, Dispatch, FinEndReplay,
     FinDeleteQueue, FinClose, FinComplete, Prepare, PrepConnect, PrepCreateQueue, PrepStatus,
     ReCheckpoint, CkptStatus, CkptFallback, SwapTransfer, XferStatus, CreateReplacement,
     CreateRecord, CreateRunning, Broker, Patch
<1>7. CASE MiniReplay \/ TrafficSwitch \/ PreFenceDrain
  BY <1>1, <1>3, <1>5, <1>7 DEF MiniReplay, MiniUnbind, MiniStart, MiniMark, MiniPoll,
     MiniStatus, TrafficSwitch, TsEnd, TsDeleteQueue, TsStatus, PreFenceDrain, PreDepth,
     PreStart, PreMark, PrePoll, PrePrimary, PreUnbind, PreToCutoff, PreToFence, Broker,
     Patch, PatchIgnored
<1>8. CASE ExchangeFence \/ ParallelDrain \/ Rollback
  BY <1>1, <1>8 DEF ExchangeFence, FencePrimaryDepth, FenceSwapDepth, FenceBuffer,
     FenceUnbindPrimary, FenceUnbindSwap, FenceStatus, ParallelDrain, DrainPrimary, DrainSwap,
     DrainStatus, Rollback, RbBindPrimary, RbBindSwap, RbDepth, RbUnbindBuffer,
     RbDeleteBuffer, RbStatus, Broker, Patch
<1>9. CASE FenceCutover
  BY <1>1, <1>3, <1>5, <1>9 DEF FenceCutover, CutBindPrimary, CutUnbindBuffer, CutStats,
     CutStart, CutMark, CutEnd, CutDeleteSwap, CutDeleteBuffer, CutStatus, Broker, Patch,
     PatchIgnored
<1>10. CASE Crash \/ OtherMigration \/ Tick \/ Producer \/ Done \/ \E p \in Procs : Consumer(p)
  BY <1>1, <1>10 DEF Crash, OtherMigration, Tick, Producer, Done, Consumer, vars
<1> QED BY <1>5, <1>6, <1>7, <1>8, <1>9, <1>10 DEF Next, Controller

\* The controller's own variables and the history variables.
LEMMA ControllerTypes ==
  ASSUME TypeOK, Next
  PROVE  ControllerTypeOK'
<1>0. ControllerTypeOK
  BY DEF TypeOK
<1>1. ASSUME pc' \in Labels, UNCHANGED <<localVars, histVars>>
      PROVE  ControllerTypeOK'
  BY <1>0, <1>1 DEF ControllerTypeOK, localVars, histVars
<1>2. ASSUME pc' \in Labels, UNCHANGED <<localVars, swapFrom, outlived>>, lossy' \in BOOLEAN
      PROVE  ControllerTypeOK'
  BY <1>0, <1>2 DEF ControllerTypeOK, localVars
<1>3. lossy \in BOOLEAN /\ 0 \in 0 .. Replicas /\ 0 \in 0 .. MaxMsgs
  BY <1>0 DEF ControllerTypeOK
<1>4. CASE Reconcile \/ Dispatch
  <2>1. pc' \in Labels
    BY <1>4, StartType DEF Reconcile, Dispatch, Labels
  <2> QED BY <1>0, <1>3, <1>4, <2>1 DEF Reconcile, Dispatch, ControllerTypeOK, histVars
<1>5. CASE FinEndReplay \/ FinDeleteQueue \/ FinClose \/ FinComplete
  <2>1. CASE FinDeleteQueue
    <3>1. pc' = Start(sub) /\ UNCHANGED <<localVars, histVars>>
      BY <2>1 DEF FinDeleteQueue, Broker
    <3> QED BY <1>1, <3>1, StartType
  <2>2. CASE FinEndReplay \/ FinClose \/ FinComplete
    BY <1>1, <2>2 DEF FinEndReplay, FinClose, FinComplete, Broker, Patch, Labels, histVars
  <2> QED BY <1>5, <2>1, <2>2
<1>6. CASE PrepCreateQueue
  <2>1. published \in 0 .. MaxMsgs
    BY DEF TypeOK, MessagingTypeOK
  <2> QED BY <1>0, <1>6, <2>1 DEF PrepCreateQueue, ControllerTypeOK, Labels, localVars
<1>7. CASE PrepScaleDown
  <2>1. orig \in 0 .. Replicas /\ replicas \in 0 .. Replicas
    BY DEF TypeOK, StatusTypeOK, ClusterTypeOK
  <2> QED BY <1>0, <1>7, <2>1 DEF PrepScaleDown, ControllerTypeOK, Labels, histVars
<1>8. CASE PreDepth \/ PrePoll
  <2>1. Depth("replay") \in 0 .. MaxMsgs
    BY DepthType DEF TypeOK, Queues
  <2> QED BY <1>0, <1>8, <2>1 DEF PreDepth, PrePoll, ControllerTypeOK, Labels, histVars
<1>9. CASE PrePrimary \/ DrainSwap \/ CutStats
  <2>1. pc' \in Labels
    BY <1>9 DEF PrePrimary, Decisions, DrainSwap, CutStats, Labels
  <2>2. lossy' \in BOOLEAN
    BY <1>3, <1>9 DEF PrePrimary, DrainSwap, CutStats
  <2> QED BY <1>2, <1>9, <2>1, <2>2 DEF PrePrimary, DrainSwap, CutStats
<1>10. CASE CreateRunning
  <2>1. lossy' \in BOOLEAN
    BY <1>3, <1>10 DEF CreateRunning, Patch
  <2> QED BY <1>2, <1>10, <2>1 DEF CreateRunning, Patch, Labels
<1>11. CASE PrepConnect \/ PrepDeleteSource \/ PrepStatus \/ ReCheckpoint \/ SwapTransfer
  BY <1>1, <1>11 DEF PrepConnect, PrepDeleteSource, DeleteSource, PrepStatus, ReCheckpoint,
     CkptCall, CkptStatus, CkptFallback, SwapTransfer, XferLoad, XferStatus, Broker, Patch,
     Labels, histVars
<1>12. CASE CreateGet \/ CreateScaleDown \/ CreateDeleteSource \/ CreateScaleUp \/ CreateRecord
  BY <1>1, <1>12 DEF CreateGet, CreateScaleDown, CreateDeleteSource, DeleteSource,
     CreateScaleUp, CreateRecord, Patch, Labels, histVars
<1>13. CASE MiniReplay \/ TrafficSwitch
  BY <1>1, <1>13 DEF MiniReplay, MiniUnbind, MiniStart, MiniMark, MiniPoll, MiniStatus,
     TrafficSwitch, TsEnd, TsDeleteQueue, TsDeleteShadow, DeleteShadow, TsScaleUp,
     FinalScaleUp, TsStatus, Broker, Patch, PatchIgnored, Labels, histVars
<1>14. CASE PreStart \/ PreMark \/ PreUnbind \/ PreToCutoff \/ PreToFence
  BY <1>1, <1>14 DEF PreStart, PreMark, PreUnbind, PreToCutoff, PreToFence, Broker, Patch,
     PatchIgnored, Labels, histVars
<1>15. CASE ExchangeFence \/ DrainPrimary \/ DrainStatus
  BY <1>1, <1>15 DEF ExchangeFence, FencePrimaryDepth, FenceSwapDepth, FenceBuffer,
     FenceUnbindPrimary, FenceUnbindSwap, FenceStatus, DrainPrimary, DrainStatus, Broker,
     Patch, Labels, histVars
<1>16. CASE Rollback
  BY <1>1, <1>16 DEF Rollback, RbBindPrimary, RbBindSwap, RbDepth, RbUnbindBuffer,
     RbDeleteBuffer, RbStatus, Broker, Patch, Labels, histVars
<1>17. CASE \/ CutDeleteShadow \/ CutBindPrimary \/ CutUnbindBuffer \/ CutStart \/ CutMark
            \/ CutEnd \/ CutDeleteSwap \/ CutDeleteBuffer \/ CutScaleUp \/ CutStatus
  BY <1>1, <1>17 DEF CutDeleteShadow, DeleteShadow, CutBindPrimary, CutUnbindBuffer,
     CutStart, CutMark, CutEnd, CutDeleteSwap, CutDeleteBuffer, CutScaleUp, FinalScaleUp,
     CutStatus, Broker, Patch, PatchIgnored, Labels, histVars
<1>18. CASE Crash \/ OtherMigration
  BY <1>0, <1>3, <1>18 DEF Crash, OtherMigration, ControllerTypeOK, Labels, histVars
<1>19. CASE Tick \/ Cluster \/ Producer \/ Done
  BY <1>0, <1>1, <1>19 DEF Tick, Cluster, StsScaleDown, KubeletKill, KubeletStart, JobEnds,
     Producer, Done, vars, ControllerTypeOK
<1>20. ASSUME NEW p \in Procs, Consumer(p) PROVE ControllerTypeOK'
  <2>1. inflight[p] \in SUBSET Msgs
    BY DEF TypeOK, MessagingTypeOK
  <2> QED BY <1>0, <1>20, <2>1 DEF Consumer, localVars, ControllerTypeOK
<1> QED
  BY <1>4, <1>5, <1>6, <1>7, <1>8, <1>9, <1>10, <1>11, <1>12, <1>13, <1>14, <1>15, <1>16,
     <1>17, <1>18, <1>19, <1>20 DEF Next, Controller, Finalize, Prepare, CreateReplacement,
     PreFenceDrain, ParallelDrain, FenceCutover

\* TypeOK holds initially, in every instance.
LEMMA InitTypes == Init => TypeOK
<1> SUFFICES ASSUME Init PROVE TypeOK
  OBVIOUS
<1>0. /\ 0 \in 0 .. MaxMsgs /\ 0 \in 0 .. MaxFaults /\ 0 \in 0 .. MaxOther
      /\ 0 \in 0 .. Replicas /\ Replicas \in 0 .. Replicas /\ -1 \in -1 .. MaxMsgs
  OBVIOUS
<1>1. MessagingTypeOK
  <2>1. ctrl \in [Names -> Seq(ControlMsgs)]
    <3>1. <<>> \in Seq(ControlMsgs)
      OBVIOUS
    <3>2. ctrl = [n \in Names |-> <<>>]
      BY DEF Init
    <3> QED BY <3>1, <3>2, Zenon
  <2>2. \A p \in Procs : on[p] \in Positions
    BY DEF Init, Positions, Queues, Procs
  <2>3. on \in [Procs -> Positions]
    BY <2>2, Zenon DEF Init
  <2> QED BY <1>0, <2>1, <2>3 DEF Init, MessagingTypeOK, Queues
<1>2. StatusTypeOK
  BY <1>0 DEF Init, StatusTypeOK, SubPhases, Names
<1>3. ClusterTypeOK
  BY <1>0 DEF Init, ClusterTypeOK, Images, Queues
<1>4. ControllerTypeOK
  BY <1>0 DEF Init, ControllerTypeOK, Labels
<1> QED BY <1>1, <1>2, <1>3, <1>4 DEF TypeOK

\* Every state of the identity swap is well typed, for all values of the constants:
\* queue depths and replica counts stay in their ranges, in the status as well as in
\* the reconcile that is about to patch them (handleSwapPrepare, handleSwapPreFenceDrain).
THEOREM TypeCorrect == Spec => []TypeOK
<1>1. TypeOK /\ [Next]_vars => TypeOK'
  <2> SUFFICES ASSUME TypeOK, [Next]_vars PROVE TypeOK'
    OBVIOUS
  <2>1. CASE Next
    BY <2>1, MessagingTypes, StatusTypes, ClusterTypes, ControllerTypes DEF TypeOK
  <2>2. CASE UNCHANGED vars
    BY <2>2 DEF vars, mqVars, statusVars, podVars, localVars, histVars, TypeOK,
       MessagingTypeOK, StatusTypeOK, ClusterTypeOK, ControllerTypeOK
  <2> QED BY <2>1, <2>2
<1> QED BY <1>1, InitTypes, PTL DEF Spec

-----------------------------------------------------------------------------
(***************************************************************************)
(* The route of new messages.  RouteOpen is not inductive: that unbinding  *)
(* the primary queue is safe depends on the buffer having been bound       *)
(* earlier in the same reconcile, and that unbinding or deleting the       *)
(* buffer is safe on the primary queue having been rebound - or, in the    *)
(* rollback, which goes on after a failed rebind, on the channel being     *)
(* down, so that the later calls do nothing either.                        *)
(***************************************************************************)
CutoverLabels  == {"cut.unbindBuffer", "cut.stats", "cut.end", "cut.deleteSwap",
                   "cut.deleteBuffer"}
RollbackLabels == {"rb.bindSwap", "rb.depth", "rb.unbindBuffer", "rb.deleteBuffer"}

RouteInv ==
  /\ RouteOpen
  /\ pc = "fence.unbindPrimary" => "buffer" \in bound
  /\ pc \in CutoverLabels => "primary" \in bound
  /\ pc \in RollbackLabels => "primary" \in bound \/ chan = "closed"

\* The labels whose handlers rely on a fact about the route.
Guarded == {"fence.unbindPrimary"} \cup CutoverLabels \cup RollbackLabels

\* A step that leaves the bindings alone and does not enter a guarded label
\* keeps the invariant.
LEMMA RouteUnchanged ==
  ASSUME RouteInv, bound' = bound, pc' \notin Guarded
  PROVE  RouteInv'
BY DEF RouteInv, RouteOpen, Guarded, CutoverLabels, RollbackLabels

\* No reconcile begins at a label that relies on calls made before it.
LEMMA StartNotGuarded == Start(sub) \notin Guarded
BY DEF Start, Guarded, CutoverLabels, RollbackLabels

\* Every reconcile step of handleFinalizing and of the sub-phases before the
\* fence keeps the invariant: they unbind and delete the replay queue only.
LEMMA RouteBeforeFence ==
  ASSUME RouteInv,
         Finalize \/ Prepare \/ ReCheckpoint \/ SwapTransfer \/ CreateReplacement
  PROVE  RouteInv'
<1> USE DEF Guarded, CutoverLabels, RollbackLabels, Broker, Patch, trafficVars, mqVars,
            mqRest, topoVars, clientVars, Fault, Succeeds, Fails
<1>1. CASE Reconcile \/ Dispatch
  BY <1>1, StartNotGuarded, RouteUnchanged DEF Reconcile, Dispatch, Start
<1>2. CASE FinEndReplay
  BY <1>2, RouteUnchanged DEF FinEndReplay, SendControlMessage, SendControlMessageErr, Post
<1>3. CASE FinDeleteQueue
  BY <1>3, StartNotGuarded DEF FinDeleteQueue, DeleteSecondaryQueue,
     DeleteSecondaryQueueErr, Delete, Unbind, RouteInv, RouteOpen
<1>4. CASE FinClose \/ FinComplete
  BY <1>4, RouteUnchanged DEF FinClose, Close, FinComplete
<1>5. CASE Prepare
  <2>1. CASE PrepCreateQueue
    BY <2>1 DEF PrepCreateQueue, CreateSecondaryQueue, CreateSecondaryQueueErr,
       CreateSecondary, RouteInv, RouteOpen
  <2>2. CASE PrepConnect \/ PrepScaleDown \/ PrepDeleteSource \/ PrepStatus
    BY <2>2, RouteUnchanged DEF PrepConnect, Connect, ConnectErr, PrepScaleDown,
       PrepDeleteSource, DeleteSource, Stop, PrepStatus
  <2> QED BY <1>5, <2>1, <2>2 DEF Prepare
<1>6. CASE ReCheckpoint \/ SwapTransfer
  BY <1>6, RouteUnchanged DEF ReCheckpoint, CkptCall, CkptStatus, CkptFallback,
     SwapTransfer, XferLoad, XferStatus
<1>7. CASE CreateReplacement
  BY <1>7, RouteUnchanged DEF CreateReplacement, CreateGet, CreateScaleDown,
     CreateDeleteSource, DeleteSource, Stop, CreateScaleUp, CreateRecord,
     CreateRunning
<1> QED BY <1>1, <1>2, <1>3, <1>4, <1>5, <1>6, <1>7 DEF Finalize

\* The Cutoff path and the choice of the path touch the replay queue only.
LEMMA RouteCutoff ==
  ASSUME RouteInv, MiniReplay \/ TrafficSwitch \/ PreFenceDrain
  PROVE  RouteInv'
<1> USE DEF Guarded, CutoverLabels, RollbackLabels, Broker, Patch, PatchIgnored,
            trafficVars, mqVars, mqRest, topoVars, clientVars, Fault, Succeeds, Fails,
            SendControlMessage, SendControlMessageErr, Post, Inspect, InspectErr, NotFound
<1>1. CASE MiniUnbind \/ PreUnbind
  BY <1>1 DEF MiniUnbind, PreUnbind, UnbindQueue, UnbindQueueErr, Unbind,
     RouteInv, RouteOpen
<1>2. CASE MiniStart \/ MiniMark \/ MiniPoll \/ MiniStatus
  BY <1>2, RouteUnchanged DEF MiniStart, MiniMark, MiniPoll, MiniStatus
<1>3. CASE TsDeleteQueue
  BY <1>3 DEF TsDeleteQueue, DeleteSecondaryQueue, DeleteSecondaryQueueErr, Delete,
     Unbind, RouteInv, RouteOpen
<1>4. CASE TsEnd \/ TsDeleteShadow \/ TsScaleUp \/ TsStatus
  BY <1>4, RouteUnchanged DEF TsEnd, TsDeleteShadow, DeleteShadow, Stop,
     TsScaleUp, FinalScaleUp, TsStatus
<1>5. CASE PreDepth \/ PreStart \/ PreMark \/ PrePoll \/ PreToCutoff \/ PreToFence
  BY <1>5, RouteUnchanged DEF PreDepth, PreStart, PreMark, PrePoll, PreToCutoff, PreToFence
<1>6. CASE PrePrimary
  BY <1>6, RouteUnchanged DEF PrePrimary, Decisions
<1> QED
  BY <1>1, <1>2, <1>3, <1>4, <1>5, <1>6 DEF MiniReplay, TrafficSwitch, PreFenceDrain

\* The fence: the buffer is bound before the primary queue is unbound.
LEMMA RouteFence ==
  ASSUME RouteInv, ExchangeFence \/ ParallelDrain
  PROVE  RouteInv'
<1> USE DEF Guarded, CutoverLabels, RollbackLabels, Broker, Patch, trafficVars, mqVars,
            mqRest, topoVars, clientVars, Fault, Succeeds, Fails, Inspect, InspectErr,
            NotFound
<1>1. CASE FenceBuffer
  BY <1>1 DEF FenceBuffer, DeclareAndBindQueue, DeclareAndBindQueueErr, DeclareBind,
     RouteInv, RouteOpen
<1>2. CASE FenceUnbindPrimary \/ FenceUnbindSwap
  BY <1>2 DEF FenceUnbindPrimary, FenceUnbindSwap, UnbindQueue, UnbindQueueErr, Unbind,
     RouteInv, RouteOpen
<1>3. CASE FencePrimaryDepth \/ FenceSwapDepth \/ FenceStatus
  BY <1>3, RouteUnchanged DEF FencePrimaryDepth, FenceSwapDepth, FenceStatus
<1>4. CASE ParallelDrain
  BY <1>4, RouteUnchanged DEF ParallelDrain, DrainPrimary, DrainSwap, DrainStatus
<1> QED BY <1>1, <1>2, <1>3, <1>4 DEF ExchangeFence

\* The rollback and the cutover: the buffer is given up only when the primary
\* queue is bound, or by a call that cannot reach the broker.
LEMMA RouteRestore ==
  ASSUME RouteInv, Rollback \/ FenceCutover
  PROVE  RouteInv'
<1> USE DEF Guarded, CutoverLabels, RollbackLabels, Broker, Patch, PatchIgnored,
            trafficVars, mqVars, mqRest, topoVars, clientVars, Fault, Succeeds, Fails,
            SendControlMessage, SendControlMessageErr, Post, Inspect, InspectErr, NotFound,
            RouteInv, RouteOpen
<1>1. CASE Rollback
  <2>1. CASE RbBindPrimary \/ RbBindSwap
    BY <2>1 DEF RbBindPrimary, RbBindSwap, BindQueue, BindQueueErr, Bind
  <2>2. CASE RbDepth
    BY <2>2 DEF RbDepth
  <2>3. CASE RbUnbindBuffer
    BY <2>3 DEF RbUnbindBuffer, UnbindQueue, UnbindQueueErr, Unbind
  <2>4. CASE RbDeleteBuffer
    BY <2>4 DEF RbDeleteBuffer, DeleteQueue, DeleteQueueErr, Delete
  <2>5. CASE RbStatus
    BY <2>5 DEF RbStatus
  <2> QED BY <1>1, <2>1, <2>2, <2>3, <2>4, <2>5 DEF Rollback
<1>2. CASE FenceCutover
  <2>1. CASE CutDeleteShadow
    BY <2>1 DEF CutDeleteShadow, DeleteShadow, Stop
  <2>2. CASE CutBindPrimary
    BY <2>2 DEF CutBindPrimary, BindQueue, BindQueueErr, Bind
  <2>3. CASE CutUnbindBuffer
    BY <2>3 DEF CutUnbindBuffer, UnbindQueue, UnbindQueueErr, Unbind
  <2>4. CASE CutStats \/ CutStart \/ CutMark \/ CutEnd
    BY <2>4 DEF CutStats, CutStart, CutMark, CutEnd
  <2>5. CASE CutDeleteSwap
    BY <2>5 DEF CutDeleteSwap, DeleteSecondaryQueue, DeleteSecondaryQueueErr, Delete, Unbind
  <2>6. CASE CutDeleteBuffer
    BY <2>6 DEF CutDeleteBuffer, DeleteQueue, DeleteQueueErr, Delete
  <2>7. CASE CutScaleUp \/ CutStatus
    BY <2>7 DEF CutScaleUp, FinalScaleUp, CutStatus
  <2> QED BY <1>2, <2>1, <2>2, <2>3, <2>4, <2>5, <2>6, <2>7 DEF FenceCutover
<1> QED BY <1>1, <1>2

\* The other processes never touch the bindings, and a crash leaves every label.
LEMMA RouteEnvironment ==
  ASSUME RouteInv,
         \/ Crash \/ OtherMigration \/ Tick \/ Cluster \/ Producer \/ Done
         \/ \E p \in Procs : Consumer(p)
         \/ UNCHANGED vars
  PROVE  RouteInv'
<1> USE DEF RouteInv, RouteOpen, Guarded, CutoverLabels, RollbackLabels, trafficVars,
            mqVars, mqRest, topoVars, clientVars, Fault
<1>1. CASE Crash \/ OtherMigration \/ Tick
  BY <1>1 DEF Crash, OtherMigration, Connect, Close, Tick
<1>2. CASE Cluster
  BY <1>2 DEF Cluster, StsScaleDown, Stop, KubeletKill, KubeletStart, Restore, JobEnds
<1>3. CASE Producer
  BY <1>3 DEF Producer, Publish
<1>4. ASSUME NEW p \in Procs, Consumer(p) PROVE RouteInv'
  BY <1>4 DEF Consumer, Deliver, Process, ReadControl
<1>5. CASE Done \/ UNCHANGED vars
  BY <1>5 DEF Done, vars
<1> QED BY <1>1, <1>2, <1>3, <1>4, <1>5

\* RouteOpen holds in every reachable state: at no point of the identity swap,
\* with any interleaving, connection loss, failed call or restart, is a published
\* message routed to no queue.
THEOREM RouteAlwaysOpen == Spec => []RouteOpen
<1>1. Init => RouteInv
  BY DEF Init, RouteInv, RouteOpen, CutoverLabels, RollbackLabels
<1>2. RouteInv /\ [Next]_vars => RouteInv'
  BY RouteBeforeFence, RouteCutoff, RouteFence, RouteRestore, RouteEnvironment
  DEF Next, Controller
<1>3. RouteInv => RouteOpen
  BY DEF RouteInv
<1> QED BY <1>1, <1>2, <1>3, PTL DEF Spec

-----------------------------------------------------------------------------
(***************************************************************************)
(* The identity of the source and the service.  The scale-up of the Cutoff *)
(* path and of the cutover, and the deletion of the shadow pod, are safe   *)
(* because their sub-phases are entered only once the replacement runs:    *)
(* the invariant carries that fact in the sub-phase and in the label.      *)
(***************************************************************************)
LateSubs == {"MiniReplay", "TrafficSwitch", "PreFenceDrain", "ExchangeFence",
             "ParallelDrain", "FenceCutover"}
EarlyLabels ==
  {"idle", "dispatch", "fin.endReplay", "fin.deleteQueue", "fin.close", "fin.complete",
   "prep.connect", "prep.createQueue", "prep.scaleDown", "prep.deleteSource",
   "prep.status", "ckpt.call", "ckpt.status", "ckpt.fallback", "xfer.load",
   "xfer.status", "create.get", "create.scaleDown", "create.deleteSource",
   "create.scaleUp", "create.record"}

IdentityInv ==
  /\ IdentityReserved
  /\ ServiceUp
  /\ ~shadowPod => podSrc = "running"
  /\ sub \in LateSubs => podSrc = "running"
  /\ pc \notin EarlyLabels => podSrc = "running"
  /\ pc \in {"prep.deleteSource", "create.deleteSource"} => replicas = 0
  /\ pc = "create.scaleUp" => podSrc \in {"pending", "running"}

\* A handler runs late only in a late sub-phase.
LEMMA StartLate == Start(sub) \notin EarlyLabels => sub \in LateSubs
BY DEF Start, EarlyLabels, LateSubs

\* No reconcile begins at a label that deletes or scales up.
LEMMA StartKeepsOrder ==
  Start(sub) \notin {"prep.deleteSource", "create.deleteSource", "create.scaleUp"}
BY DEF Start

\* A step that leaves the pods and the StatefulSet alone, enters none of the
\* labels that scale or delete, and advances only where the replacement runs.
LEMMA IdentityUnchanged ==
  ASSUME IdentityInv,
         UNCHANGED <<podSrc, shadowPod, replicas>>,
         sub' = sub \/ sub' \notin LateSubs \/ podSrc = "running",
         pc' \in EarlyLabels \/ podSrc = "running",
         pc' \notin {"prep.deleteSource", "create.deleteSource", "create.scaleUp"}
  PROVE  IdentityInv'
BY DEF IdentityInv, IdentityReserved, ServiceUp

\* The handlers up to the creation of the replacement keep the identity invariant.
LEMMA IdentityEarly ==
  ASSUME IdentityInv,
         Finalize \/ Prepare \/ ReCheckpoint \/ SwapTransfer \/ CreateReplacement
  PROVE  IdentityInv'
<1> USE DEF Broker, Patch, podVars, statusVars, EarlyLabels, LateSubs
<1>1. CASE Reconcile \/ Dispatch \/ FinDeleteQueue
  <2>1. UNCHANGED <<podSrc, shadowPod, replicas, sub>>
    BY <1>1 DEF Reconcile, Dispatch, FinDeleteQueue
  <2>2. pc' \in {"idle", "fin.endReplay", Start(sub)}
    BY <1>1 DEF Reconcile, Dispatch, FinDeleteQueue
  <2>3. pc' \in EarlyLabels \/ podSrc = "running"
    BY <2>2, StartLate DEF IdentityInv
  <2>4. pc' \notin {"prep.deleteSource", "create.deleteSource", "create.scaleUp"}
    BY <2>2, StartKeepsOrder
  <2> QED BY <2>1, <2>3, <2>4, IdentityUnchanged
<1>2. CASE FinEndReplay \/ FinClose \/ FinComplete
  BY <1>2, IdentityUnchanged DEF FinEndReplay, FinClose, FinComplete
<1>3. CASE PrepConnect \/ PrepCreateQueue \/ PrepStatus
  BY <1>3, IdentityUnchanged DEF PrepConnect, PrepCreateQueue, PrepStatus
<1>4. CASE PrepScaleDown
  BY <1>4 DEF PrepScaleDown, IdentityInv, IdentityReserved, ServiceUp
<1>5. CASE PrepDeleteSource \/ CreateDeleteSource
  BY <1>5 DEF PrepDeleteSource, CreateDeleteSource, DeleteSource, IdentityInv,
     IdentityReserved, ServiceUp
<1>6. CASE ReCheckpoint \/ SwapTransfer
  BY <1>6, IdentityUnchanged DEF ReCheckpoint, CkptCall, CkptStatus, CkptFallback,
     SwapTransfer, XferLoad, XferStatus
<1>7. CASE CreateGet \/ CreateScaleDown
  BY <1>7 DEF CreateGet, CreateScaleDown, IdentityInv, IdentityReserved, ServiceUp
<1>8. CASE CreateScaleUp
  BY <1>8 DEF CreateScaleUp, ScaleUpTo, IdentityInv, IdentityReserved, ServiceUp
<1>9. CASE CreateRecord \/ CreateRunning
  BY <1>9, IdentityUnchanged DEF CreateRecord, CreateRunning, IdentityInv
<1> QED
  BY <1>1, <1>2, <1>3, <1>4, <1>5, <1>6, <1>7, <1>8, <1>9
  DEF Finalize, Prepare, CreateReplacement

\* What the steps of the late sub-phases have in common.
LateStep == MiniReplay \/ TrafficSwitch \/ PreFenceDrain \/ ExchangeFence \/ ParallelDrain
            \/ Rollback \/ FenceCutover

\* The later handlers leave the source's pod alone and go to none of the deleting labels.
LEMMA LateStepShape ==
  ASSUME LateStep
  PROVE  /\ pc \notin EarlyLabels
         /\ podSrc' = podSrc
         /\ pc' \notin {"prep.deleteSource", "create.deleteSource"}
BY DEF LateStep, MiniReplay, MiniUnbind, MiniStart, MiniMark, MiniPoll, MiniStatus,
   TrafficSwitch, TsEnd, TsDeleteQueue, TsDeleteShadow, TsScaleUp, TsStatus,
   PreFenceDrain, PreDepth, PreStart, PreMark, PrePoll, PrePrimary, PreUnbind,
   PreToCutoff, PreToFence, ExchangeFence, FencePrimaryDepth, FenceSwapDepth,
   FenceBuffer, FenceUnbindPrimary, FenceUnbindSwap, FenceStatus,
   ParallelDrain, DrainPrimary, DrainSwap, DrainStatus,
   Rollback, RbBindPrimary, RbBindSwap, RbDepth, RbUnbindBuffer, RbDeleteBuffer, RbStatus,
   FenceCutover, CutDeleteShadow, CutBindPrimary, CutUnbindBuffer, CutStats, CutStart,
   CutMark, CutEnd, CutDeleteSwap, CutDeleteBuffer, CutScaleUp, CutStatus,
   Broker, Patch, PatchIgnored, DeleteShadow, FinalScaleUp, Decisions, EarlyLabels, podVars

\* From MiniReplay or PreFenceDrain on the replacement runs, whatever is done.
LEMMA IdentityLate ==
  ASSUME IdentityInv, LateStep
  PROVE  IdentityInv'
<1>1. podSrc = "running" /\ podSrc' = "running"
  BY LateStepShape DEF IdentityInv
<1> QED BY <1>1, LateStepShape DEF IdentityInv, IdentityReserved, ServiceUp

\* Restarts, other migrations, the cluster and the workload keep the identity invariant.
LEMMA IdentityEnvironment ==
  ASSUME IdentityInv,
         \/ Crash \/ OtherMigration \/ Tick \/ Cluster \/ Producer \/ Done
         \/ \E p \in Procs : Consumer(p)
         \/ UNCHANGED vars
  PROVE  IdentityInv'
<1> USE DEF podVars, statusVars, EarlyLabels, IdentityInv, IdentityReserved, ServiceUp
<1>1. CASE Crash \/ OtherMigration \/ Tick
  BY <1>1 DEF Crash, OtherMigration, Tick
<1>2. CASE Cluster
  BY <1>2 DEF Cluster, StsScaleDown, KubeletKill, KubeletStart, JobEnds
<1>3. CASE Producer \/ \E p \in Procs : Consumer(p)
  BY <1>3 DEF Producer, Consumer
<1>4. CASE Done \/ UNCHANGED vars
  BY <1>4 DEF Done, vars
<1> QED BY <1>1, <1>2, <1>3, <1>4

\* The identity invariant holds in every reachable state.
LEMMA IdentityAlways == Spec => []IdentityInv
<1>1. Init => IdentityInv
  BY DEF Init, IdentityInv, IdentityReserved, ServiceUp, EarlyLabels, LateSubs
<1>2. IdentityInv /\ [Next]_vars => IdentityInv'
  BY IdentityEarly, IdentityLate, IdentityEnvironment DEF Next, Controller, LateStep
<1> QED BY <1>1, <1>2, PTL DEF Spec

\* IdentityReserved holds in every reachable state: the slot of the replacement is
\* never open to the StatefulSet controller, whatever calls fail and whenever the
\* controller restarts.
THEOREM IdentityAlwaysReserved == Spec => []IdentityReserved
<1>1. IdentityInv => IdentityReserved
  BY DEF IdentityInv
<1> QED BY <1>1, IdentityAlways, PTL

\* ServiceUp holds in every reachable state: the last serving pod is never deleted,
\* whatever calls fail and whenever the controller restarts.
THEOREM ServiceAlwaysUp == Spec => []ServiceUp
<1>1. IdentityInv => ServiceUp
  BY DEF IdentityInv
<1> QED BY <1>1, IdentityAlways, PTL

-----------------------------------------------------------------------------
(***************************************************************************)
(* The swap queue.  Three calls delete it; none of them is made in a       *)
(* sub-phase that still needs it, because a handler's labels are only      *)
(* reached in its own sub-phase.                                           *)
(***************************************************************************)
ReplaySubs == {"ReCheckpoint", "SwapTransfer", "CreateReplacement", "MiniReplay",
               "PreFenceDrain", "ExchangeFence", "ParallelDrain"}

FirstLabels  == {"fin.endReplay", "fin.deleteQueue", "prep.connect", "prep.createQueue",
                 "prep.scaleDown", "prep.deleteSource", "prep.status"}
SwitchLabels == {"ts.end", "ts.deleteQueue", "ts.deleteShadow", "ts.scaleUp", "ts.status"}
CutLabels    == {"cut.deleteShadow", "cut.bindPrimary", "cut.unbindBuffer", "cut.stats",
                 "cut.start", "cut.mark", "cut.end", "cut.deleteSwap", "cut.deleteBuffer",
                 "cut.scaleUp", "cut.status"}
FreeLabels   == {"idle", "dispatch", "fin.close", "fin.complete"}

QueueInv ==
  /\ SwapQueueAlive
  /\ sub \in SubPhases
  /\ pc \in FirstLabels => sub = ""
  /\ pc \in SwitchLabels => sub = "TrafficSwitch"
  /\ pc \in CutLabels => sub = "FenceCutover"
  /\ pc \notin FreeLabels \cup FirstLabels \cup SwitchLabels \cup CutLabels
       => sub \in ReplaySubs
  /\ pc \in {"prep.scaleDown", "prep.deleteSource", "prep.status"} => "replay" \in exists

\* The handler a sub-phase starts has the labels of that sub-phase.
LEMMA StartInSub ==
  ASSUME sub \in SubPhases
  PROVE  /\ Start(sub) \in FirstLabels => sub = ""
         /\ Start(sub) \in SwitchLabels => sub = "TrafficSwitch"
         /\ Start(sub) \in CutLabels => sub = "FenceCutover"
         /\ Start(sub) \notin FreeLabels \cup FirstLabels \cup SwitchLabels \cup CutLabels
              => sub \in ReplaySubs
         /\ Start(sub) \notin {"prep.scaleDown", "prep.deleteSource", "prep.status"}
BY DEF SubPhases, Start, FreeLabels, FirstLabels, SwitchLabels, CutLabels, ReplaySubs

\* Steps that keep the swap queue and the sub-phase, within one handler or out of it.
LEMMA QueueKept ==
  ASSUME QueueInv, sub' = sub, exists \subseteq exists',
         \/ pc' \in FreeLabels
         \/ pc' = pc
         \/ pc \in SwitchLabels /\ pc' \in SwitchLabels
         \/ pc \in CutLabels /\ pc' \in CutLabels
         \/ /\ pc \notin FreeLabels \cup FirstLabels \cup SwitchLabels \cup CutLabels
            /\ pc' \notin FirstLabels \cup SwitchLabels \cup CutLabels
  PROVE  QueueInv'
BY DEF QueueInv, SwapQueueAlive, ReplaySubs, FreeLabels, FirstLabels, SwitchLabels, CutLabels

\* handleFinalizing and handleSwapPrepare keep the queue invariant.
LEMMA QueueFinalize ==
  ASSUME QueueInv, Finalize \/ Prepare
  PROVE  QueueInv'
<1> USE DEF Broker, Patch, mqVars, mqRest, topoVars, clientVars, Fault, Succeeds, Fails,
            statusVars
<1>1. CASE Reconcile \/ Dispatch
  <2>1. sub' = sub /\ exists' = exists /\ pc' \in {"idle", "fin.endReplay", Start(sub)}
        /\ (pc' = "fin.endReplay" => sub = "" \/ Start(sub) = "fin.endReplay")
    BY <1>1 DEF Reconcile, Dispatch
  <2> QED
    BY <2>1, StartInSub DEF QueueInv, SwapQueueAlive, ReplaySubs, FreeLabels,
       FirstLabels, SwitchLabels, CutLabels
<1>2. CASE FinDeleteQueue
  <2>1. sub = "" /\ sub' = sub /\ pc' = Start(sub)
    BY <1>2 DEF FinDeleteQueue, QueueInv, FirstLabels
  <2> QED
    BY <2>1, StartInSub DEF QueueInv, SwapQueueAlive, ReplaySubs, FreeLabels,
       FirstLabels, SwitchLabels, CutLabels
<1>3. CASE FinEndReplay
  BY <1>3 DEF FinEndReplay, SendControlMessage, SendControlMessageErr, Post, QueueInv,
     SwapQueueAlive, ReplaySubs, FreeLabels, FirstLabels, SwitchLabels, CutLabels
<1>4. CASE FinClose
  BY <1>4, QueueKept DEF FinClose, Close, FreeLabels
<1>5. CASE FinComplete
  BY <1>5 DEF FinComplete, QueueInv, SubPhases, SwapQueueAlive, FreeLabels, FirstLabels,
     SwitchLabels, CutLabels
<1>6. CASE PrepConnect \/ PrepCreateQueue
  <2>1. sub = "" /\ sub' = sub /\ pc' \in {"idle", "prep.createQueue", "prep.scaleDown"}
    BY <1>6 DEF PrepConnect, PrepCreateQueue, QueueInv, FirstLabels
  <2>2. pc' = "prep.scaleDown" => "replay" \in exists'
    BY <1>6 DEF PrepConnect, PrepCreateQueue, CreateSecondaryQueue, CreateSecondary
  <2> QED
    BY <2>1, <2>2 DEF QueueInv, SwapQueueAlive, ReplaySubs, FreeLabels, FirstLabels,
       SwitchLabels, CutLabels
<1>7. CASE PrepScaleDown \/ PrepDeleteSource
  BY <1>7 DEF PrepScaleDown, PrepDeleteSource, DeleteSource, Stop, QueueInv,
     SwapQueueAlive, ReplaySubs, FreeLabels, FirstLabels, SwitchLabels, CutLabels
<1>8. CASE PrepStatus
  BY <1>8 DEF PrepStatus, QueueInv, SubPhases, SwapQueueAlive, ReplaySubs, FreeLabels,
     FirstLabels, SwitchLabels, CutLabels
<1> QED BY <1>1, <1>2, <1>3, <1>4, <1>5, <1>6, <1>7, <1>8 DEF Finalize, Prepare

\* The sub-phases that replay: they never delete the swap queue, and each moves
\* on to a sub-phase that replays or is past the replay.
LEMMA QueueReplay ==
  ASSUME QueueInv,
         ReCheckpoint \/ SwapTransfer \/ CreateReplacement \/ MiniReplay \/ PreFenceDrain
         \/ ExchangeFence \/ ParallelDrain \/ Rollback
  PROVE  QueueInv'
<1> USE DEF Broker, Patch, PatchIgnored, mqVars, mqRest, topoVars, clientVars, Fault,
            Succeeds, Fails, statusVars
<1>1. CASE \/ CkptStatus \/ CkptFallback \/ XferStatus \/ CreateRecord \/ CreateRunning
           \/ MiniStatus \/ PreToCutoff \/ PreToFence \/ FenceStatus \/ DrainStatus
           \/ RbStatus
  <2>1. exists' = exists /\ pc' \in {"idle", "dispatch"} /\ sub \in ReplaySubs
    BY <1>1 DEF CkptStatus, CkptFallback, XferStatus, CreateRecord, CreateRunning,
       MiniStatus, PreToCutoff, PreToFence, FenceStatus, DrainStatus, RbStatus, QueueInv,
       FreeLabels, FirstLabels, SwitchLabels, CutLabels
  <2>2. sub' \in SubPhases
    BY <1>1 DEF CkptStatus, CkptFallback, XferStatus, CreateRecord, CreateRunning,
       MiniStatus, PreToCutoff, PreToFence, FenceStatus, DrainStatus, RbStatus, QueueInv,
       SubPhases
  <2> QED
    BY <2>1, <2>2 DEF QueueInv, SwapQueueAlive, ReplaySubs, FreeLabels, FirstLabels,
       SwitchLabels, CutLabels
<1>2. CASE CkptCall \/ XferLoad \/ CreateGet \/ CreateScaleDown \/ CreateScaleUp
  BY <1>2, QueueKept DEF CkptCall, XferLoad, CreateGet, CreateScaleDown, CreateScaleUp,
     FreeLabels, FirstLabels, SwitchLabels, CutLabels
<1>3. CASE CreateDeleteSource
  BY <1>3, QueueKept DEF CreateDeleteSource, DeleteSource, Stop, FreeLabels
<1>4. CASE \/ MiniUnbind \/ MiniStart \/ MiniMark \/ MiniPoll \/ PreUnbind
  BY <1>4, QueueKept DEF MiniUnbind, MiniStart, MiniMark, MiniPoll, PreUnbind,
     UnbindQueue, UnbindQueueErr, Unbind, SendControlMessage, SendControlMessageErr, Post,
     Inspect, InspectErr, NotFound, FreeLabels, FirstLabels, SwitchLabels, CutLabels
<1>5. CASE PreDepth \/ PreStart \/ PreMark \/ PrePoll \/ PrePrimary
  BY <1>5, QueueKept DEF PreDepth, PreStart, PreMark, PrePoll, PrePrimary, Decisions,
     SendControlMessage, SendControlMessageErr, Post, Inspect, InspectErr, NotFound,
     FreeLabels, FirstLabels, SwitchLabels, CutLabels
<1>6. CASE \/ FencePrimaryDepth \/ FenceSwapDepth \/ FenceBuffer \/ FenceUnbindPrimary
           \/ FenceUnbindSwap
  BY <1>6, QueueKept DEF FencePrimaryDepth, FenceSwapDepth, FenceBuffer,
     FenceUnbindPrimary, FenceUnbindSwap, DeclareAndBindQueue, DeclareAndBindQueueErr,
     DeclareBind, UnbindQueue, UnbindQueueErr, Unbind, Inspect, InspectErr, NotFound,
     FreeLabels, FirstLabels, SwitchLabels, CutLabels
<1>7. CASE DrainPrimary \/ DrainSwap \/ RbBindPrimary \/ RbBindSwap \/ RbDepth
           \/ RbUnbindBuffer
  BY <1>7, QueueKept DEF DrainPrimary, DrainSwap, RbBindPrimary, RbBindSwap, RbDepth,
     RbUnbindBuffer, BindQueue, BindQueueErr, Bind, UnbindQueue, UnbindQueueErr, Unbind,
     Inspect, InspectErr, NotFound, FreeLabels, FirstLabels, SwitchLabels, CutLabels
<1>8. CASE RbDeleteBuffer
  <2>1. sub' = sub /\ pc = "rb.deleteBuffer" /\ pc' = "rb.status"
    BY <1>8 DEF RbDeleteBuffer
  <2>2. "replay" \in exists => "replay" \in exists'
    BY <1>8 DEF RbDeleteBuffer, DeleteQueue, DeleteQueueErr, Delete
  <2> QED
    BY <2>1, <2>2 DEF QueueInv, SwapQueueAlive, ReplaySubs, FreeLabels, FirstLabels,
       SwitchLabels, CutLabels
<1> QED
  BY <1>1, <1>2, <1>3, <1>4, <1>5, <1>6, <1>7, <1>8 DEF ReCheckpoint, SwapTransfer,
     CreateReplacement, MiniReplay, PreFenceDrain, ExchangeFence, ParallelDrain, Rollback

\* The sub-phases past the replay delete the swap queue and need it no more.
LEMMA QueueSwitch ==
  ASSUME QueueInv, TrafficSwitch \/ FenceCutover
  PROVE  QueueInv'
<1> USE DEF QueueInv, FreeLabels, FirstLabels, SwitchLabels, CutLabels, SubPhases,
            SwapQueueAlive
<1>1. CASE TrafficSwitch
  <2>1. sub = "TrafficSwitch" /\ sub' \in {sub, ""}
    BY <1>1 DEF TrafficSwitch, TsEnd, TsDeleteQueue, TsDeleteShadow, DeleteShadow,
       TsScaleUp, FinalScaleUp, TsStatus, Broker, Patch, statusVars
  <2>2. (pc' \in SwitchLabels /\ sub' = sub) \/ pc' \in {"idle", "fin.close"}
    BY <1>1 DEF TrafficSwitch, TsEnd, TsDeleteQueue, TsDeleteShadow, DeleteShadow,
       TsScaleUp, FinalScaleUp, TsStatus, Broker, Patch, statusVars
  <2> QED BY <2>1, <2>2
<1>2. CASE FenceCutover
  <2>1. sub = "FenceCutover" /\ sub' \in {sub, ""}
    BY <1>2 DEF FenceCutover, CutDeleteShadow, CutBindPrimary, CutUnbindBuffer, CutStats,
       CutStart, CutMark, CutEnd, CutDeleteSwap, CutDeleteBuffer, CutScaleUp, CutStatus,
       DeleteShadow, FinalScaleUp, Broker, Patch, PatchIgnored, statusVars
  <2>2. (pc' \in CutLabels /\ sub' = sub) \/ pc' \in {"idle", "fin.close"}
    BY <1>2 DEF FenceCutover, CutDeleteShadow, CutBindPrimary, CutUnbindBuffer, CutStats,
       CutStart, CutMark, CutEnd, CutDeleteSwap, CutDeleteBuffer, CutScaleUp, CutStatus,
       DeleteShadow, FinalScaleUp, Broker, Patch, PatchIgnored, statusVars
  <2> QED BY <2>1, <2>2
<1> QED BY <1>1, <1>2

\* Restarts, other migrations, the cluster and the workload keep the queue invariant.
LEMMA QueueEnvironment ==
  ASSUME QueueInv,
         \/ Crash \/ OtherMigration \/ Tick \/ Cluster \/ Producer \/ Done
         \/ \E p \in Procs : Consumer(p)
         \/ UNCHANGED vars
  PROVE  QueueInv'
<1> USE QueueKept DEF FreeLabels, mqVars, mqRest, topoVars, Fault, statusVars
<1>1. CASE Crash \/ OtherMigration \/ Tick
  BY <1>1 DEF Crash, OtherMigration, Connect, Close, Tick
<1>2. CASE Cluster
  BY <1>2 DEF Cluster, StsScaleDown, Stop, KubeletKill, KubeletStart, Restore, JobEnds
<1>3. CASE Producer
  BY <1>3 DEF Producer, Publish
<1>4. ASSUME NEW p \in Procs, Consumer(p) PROVE QueueInv'
  BY <1>4 DEF Consumer, Deliver, Process, ReadControl
<1>5. CASE Done \/ UNCHANGED vars
  BY <1>5 DEF Done, vars
<1> QED BY <1>1, <1>2, <1>3, <1>4, <1>5

\* The queue invariant holds in every reachable state.
LEMMA QueueAlways == Spec => []QueueInv
<1>1. Init => QueueInv
  BY DEF Init, QueueInv, SwapQueueAlive, SubPhases, FreeLabels, FirstLabels, SwitchLabels,
     CutLabels
<1>2. QueueInv /\ [Next]_vars => QueueInv'
  BY QueueFinalize, QueueReplay, QueueSwitch, QueueEnvironment DEF Next, Controller
<1> QED BY <1>1, <1>2, PTL DEF Spec

\* SwapQueueAlive holds in every reachable state: no retry of handleFinalizing, no
\* rollback and no restart deletes the swap queue while a sub-phase needs it.
THEOREM SwapQueueAlwaysAlive == Spec => []SwapQueueAlive
<1>1. QueueInv => SwapQueueAlive
  BY DEF QueueInv
<1> QED BY <1>1, QueueAlways, PTL

-----------------------------------------------------------------------------
(***************************************************************************)
(* The control of the swap.  Every handler runs in its own sub-phase, the  *)
(* first handlers before a replacement is recorded and the last ones after *)
(* it.  The proofs below use this whatever calls fail and whenever the     *)
(* controller restarts.                                                    *)
(***************************************************************************)
PrepLabels == {"prep.connect", "prep.createQueue", "prep.scaleDown", "prep.deleteSource",
               "prep.status"}
RbLabels   == {"rb.bindPrimary", "rb.bindSwap", "rb.depth", "rb.unbindBuffer",
               "rb.deleteBuffer", "rb.status"}

CkptLabels   == {"ckpt.call", "ckpt.status", "ckpt.fallback"}
XferLabels   == {"xfer.load", "xfer.status"}
CreateLabels == {"create.get", "create.scaleDown", "create.deleteSource", "create.scaleUp",
                 "create.record", "create.running"}
MiniLabels   == {"mini.unbind", "mini.start", "mini.mark", "mini.poll", "mini.status"}
PreLabels    == {"pre.depth", "pre.start", "pre.mark", "pre.poll", "pre.primary",
                 "pre.unbind", "pre.toCutoff", "pre.toFence"}
FenceLabels  == {"fence.primaryDepth", "fence.swapDepth", "fence.buffer",
                 "fence.unbindPrimary", "fence.unbindSwap", "fence.status"}
DrainLabels  == {"drain.primary", "drain.swap", "drain.status"} \cup RbLabels

\* The handler at label l runs in its own sub-phase.
AtHome(l) ==
  /\ l \in FirstLabels => sub = ""
  /\ l \in CkptLabels => sub = "ReCheckpoint"
  /\ l \in XferLabels => sub = "SwapTransfer"
  /\ l \in CreateLabels => sub = "CreateReplacement"
  /\ l \in MiniLabels => sub = "MiniReplay"
  /\ l \in SwitchLabels => sub = "TrafficSwitch"
  /\ l \in PreLabels => sub = "PreFenceDrain"
  /\ l \in FenceLabels => sub = "ExchangeFence"
  /\ l \in DrainLabels => sub = "ParallelDrain"
  /\ l \in CutLabels => sub = "FenceCutover"

ControlInv ==
  /\ sub \in SubPhases
  /\ repl \in BOOLEAN
  /\ AtHome(pc)
  /\ pc \in {"fin.close", "fin.complete"} => sub = "" /\ repl
  /\ pc \in PrepLabels => ~repl
  /\ sub \in LateSubs => repl
  /\ pc = "dispatch" => sub # ""
  /\ phase = "Completed" => sub = "" /\ repl /\ pc = "idle"

\* The handler each sub-phase starts.
LEMMA StartIs ==
  /\ sub = "" => Start(sub) = IF repl THEN "fin.close" ELSE "prep.connect"
  /\ sub = "ReCheckpoint" => Start(sub) = "ckpt.call"
  /\ sub = "SwapTransfer" => Start(sub) = "xfer.load"
  /\ sub = "CreateReplacement" => Start(sub) = "create.get"
  /\ sub = "MiniReplay" =>
       Start(sub) = IF "MiniReplay" \in timers THEN "mini.poll" ELSE "mini.unbind"
  /\ sub = "TrafficSwitch" => Start(sub) = "ts.end"
  /\ sub = "PreFenceDrain" =>
       Start(sub) = IF "PreFence" \in timers THEN "pre.poll" ELSE "pre.depth"
  /\ sub = "ExchangeFence" =>
       Start(sub) = IF "Fence" \in timers THEN "fence.status" ELSE "fence.primaryDepth"
  /\ sub = "ParallelDrain" => Start(sub) = "drain.primary"
  /\ sub = "FenceCutover" => Start(sub) = "cut.deleteShadow"
BY DEF Start

\* A reconcile begins in the handler of the sub-phase, or ends the swap.
LEMMA StartControl ==
  ASSUME ControlInv
  PROVE  /\ AtHome(Start(sub))
         /\ Start(sub) \notin {"idle", "dispatch", "fin.complete"}
         /\ Start(sub) = "fin.close" => sub = "" /\ repl
         /\ Start(sub) \in PrepLabels => ~repl
BY StartIs DEF ControlInv, SubPhases, AtHome, FirstLabels, CkptLabels, XferLabels,
   CreateLabels, MiniLabels, PreLabels, FenceLabels, DrainLabels, SwitchLabels, CutLabels,
   RbLabels, PrepLabels

\* handleFinalizing and the handlers up to the creation keep the control invariant.
LEMMA ControlEarly ==
  ASSUME ControlInv, phase \in {"Finalizing", "Completed"},
         Finalize \/ Prepare \/ ReCheckpoint \/ SwapTransfer \/ CreateReplacement
  PROVE  ControlInv'
<1> USE DEF ControlInv, Broker, Patch, statusVars, AtHome, FirstLabels, CkptLabels,
            XferLabels, CreateLabels, MiniLabels, PreLabels, FenceLabels, DrainLabels,
            SwitchLabels, CutLabels, RbLabels, PrepLabels, SubPhases, LateSubs
<1>1. CASE Reconcile \/ Dispatch \/ FinDeleteQueue
  <2>1. /\ UNCHANGED <<phase, sub, repl>>
        /\ phase = "Finalizing"
        /\ pc' \in {"idle", Start(sub)} \/ (sub = "" /\ pc' = "fin.endReplay")
    BY <1>1 DEF Reconcile, Dispatch, FinDeleteQueue
  <2>2. CASE pc' = Start(sub)
    BY <2>1, <2>2, StartControl
  <2>3. CASE pc' = "idle" \/ (sub = "" /\ pc' = "fin.endReplay")
    BY <2>1, <2>3
  <2> QED BY <2>1, <2>2, <2>3
<1>2. CASE FinEndReplay \/ FinClose \/ FinComplete
  BY <1>2 DEF FinEndReplay, FinClose, FinComplete
<1>3. CASE Prepare
  <2>1. CASE PrepConnect \/ PrepCreateQueue \/ PrepScaleDown \/ PrepDeleteSource
    <3>1. UNCHANGED <<phase, sub, repl>> /\ pc \in PrepLabels
          /\ pc' \in PrepLabels \cup {"idle"}
      BY <2>1 DEF PrepConnect, PrepCreateQueue, PrepScaleDown, PrepDeleteSource, DeleteSource
    <3> QED BY <3>1
  <2>2. CASE PrepStatus
    BY <2>2 DEF PrepStatus
  <2> QED BY <1>3, <2>1, <2>2 DEF Prepare
<1>4. CASE ReCheckpoint \/ SwapTransfer
  BY <1>4 DEF ReCheckpoint, CkptCall, CkptStatus, CkptFallback, SwapTransfer, XferLoad,
     XferStatus
<1>5. CASE CreateReplacement
  BY <1>5 DEF CreateReplacement, CreateGet, CreateScaleDown, CreateDeleteSource,
     DeleteSource, CreateScaleUp, CreateRecord, CreateRunning
<1> QED BY <1>1, <1>2, <1>3, <1>4, <1>5 DEF Finalize

\* So do the handlers after it.
LEMMA ControlLate ==
  ASSUME ControlInv, LateStep
  PROVE  ControlInv'
<1> USE DEF ControlInv, Broker, Patch, PatchIgnored, statusVars, AtHome, FirstLabels,
            CkptLabels, XferLabels, CreateLabels, MiniLabels, PreLabels, FenceLabels,
            DrainLabels, SwitchLabels, CutLabels, RbLabels, PrepLabels, SubPhases, LateSubs
<1>1. CASE MiniReplay
  BY <1>1 DEF MiniReplay, MiniUnbind, MiniStart, MiniMark, MiniPoll, MiniStatus
<1>2. CASE TrafficSwitch
  BY <1>2 DEF TrafficSwitch, TsEnd, TsDeleteQueue, TsDeleteShadow, DeleteShadow,
     TsScaleUp, FinalScaleUp, TsStatus
<1>3. CASE PreFenceDrain
  BY <1>3 DEF PreFenceDrain, PreDepth, PreStart, PreMark, PrePoll, PrePrimary, Decisions,
     PreUnbind, PreToCutoff, PreToFence
<1>4. CASE ExchangeFence
  BY <1>4 DEF ExchangeFence, FencePrimaryDepth, FenceSwapDepth, FenceBuffer,
     FenceUnbindPrimary, FenceUnbindSwap, FenceStatus
<1>5. CASE ParallelDrain \/ Rollback
  BY <1>5 DEF ParallelDrain, DrainPrimary, DrainSwap, DrainStatus, Rollback,
     RbBindPrimary, RbBindSwap, RbDepth, RbUnbindBuffer, RbDeleteBuffer, RbStatus
<1>6. CASE FenceCutover
  BY <1>6 DEF FenceCutover, CutDeleteShadow, DeleteShadow, CutBindPrimary,
     CutUnbindBuffer, CutStats, CutStart, CutMark, CutEnd, CutDeleteSwap, CutDeleteBuffer,
     CutScaleUp, FinalScaleUp, CutStatus
<1> QED BY <1>1, <1>2, <1>3, <1>4, <1>5, <1>6 DEF LateStep

\* Restarts, other migrations, the cluster and the workload keep the control invariant.
LEMMA ControlEnvironment ==
  ASSUME ControlInv,
         \/ Crash \/ OtherMigration \/ Tick \/ Cluster \/ Producer \/ Done
         \/ \E p \in Procs : Consumer(p)
         \/ UNCHANGED vars
  PROVE  ControlInv'
<1>1. UNCHANGED <<phase, sub, repl>> /\ pc' \in {pc, "idle"}
  BY DEF Crash, OtherMigration, Tick, Cluster, StsScaleDown, KubeletKill, KubeletStart,
     JobEnds, Producer, Consumer, Done, vars, statusVars
<1> QED BY <1>1 DEF ControlInv, AtHome, FirstLabels, CkptLabels, XferLabels, CreateLabels,
     MiniLabels, PreLabels, FenceLabels, DrainLabels, RbLabels, SwitchLabels, CutLabels,
     PrepLabels

\* In every reachable state the handler that runs is the one of its sub-phase.
LEMMA ControlAlways == Spec => []ControlInv
<1>1. Init => ControlInv
  BY DEF Init, ControlInv, AtHome, SubPhases, LateSubs, FirstLabels, CkptLabels,
     XferLabels, CreateLabels, MiniLabels, PreLabels, FenceLabels, DrainLabels, RbLabels,
     SwitchLabels, CutLabels, PrepLabels
<1>2. TypeOK /\ ControlInv /\ [Next]_vars => ControlInv'
  BY ControlEarly, ControlLate, ControlEnvironment
  DEF Next, Controller, LateStep, TypeOK, StatusTypeOK
<1> QED BY <1>1, <1>2, TypeCorrect, PTL DEF Spec

-----------------------------------------------------------------------------
(***************************************************************************)
(* Live routing at the end.  Outside the fence the primary queue is bound. *)
(* A rollback that could not rebind it lost the channel, and without       *)
(* another migration nothing opens the channel again before the swap ends: *)
(* MiniReplay, which must read a depth to go on, stays where it is.        *)
(***************************************************************************)
FencedSubs == {"ExchangeFence", "ParallelDrain", "FenceCutover"}
AfterBind  == {"cut.unbindBuffer", "cut.stats", "cut.start", "cut.mark", "cut.end",
               "cut.deleteSwap", "cut.deleteBuffer", "cut.scaleUp", "cut.status"}

RoutedInv ==
  other = 0 =>
    /\ sub \notin FencedSubs \cup {"MiniReplay"} => "primary" \in bound
    /\ pc \in {"mini.status"} \cup AfterBind => "primary" \in bound
    /\ sub = "MiniReplay" \/ pc \in RbLabels \ {"rb.bindPrimary"}
         => "primary" \in bound \/ chan = "closed"

\* No reconcile begins at a label that relies on the primary queue being bound.
LEMMA StartRouted == Start(sub) \notin {"mini.status"} \cup AfterBind \cup RbLabels
BY DEF Start, AfterBind, RbLabels

\* A step that leaves sub-phase, bindings and channel alone and enters no label that
\* relies on the primary queue.
LEMMA RoutedUnchanged ==
  ASSUME RoutedInv, UNCHANGED <<sub, bound, chan, other>>,
         pc' = pc \/ pc' \notin {"mini.status"} \cup AfterBind \cup RbLabels
  PROVE  RoutedInv'
BY DEF RoutedInv, RbLabels

\* Before the fence the primary queue is never unbound.
LEMMA RoutedEarly ==
  ASSUME RoutedInv, ControlInv,
         Finalize \/ Prepare \/ ReCheckpoint \/ SwapTransfer \/ CreateReplacement
  PROVE  RoutedInv'
<1> USE DEF Broker, Patch, statusVars, localVars, trafficVars, mqVars, mqRest, topoVars,
            clientVars, Fault, Succeeds, Fails
<1>1. CASE Reconcile \/ Dispatch
  <2>1. UNCHANGED <<sub, bound, chan, other>> /\ pc' \in {"idle", "fin.endReplay", Start(sub)}
    BY <1>1 DEF Reconcile, Dispatch
  <2> QED BY <2>1, StartRouted, RoutedUnchanged DEF AfterBind, RbLabels
<1>2. CASE FinEndReplay \/ FinClose \/ FinDeleteQueue \/ Prepare
  <2>1. sub = "" /\ sub' \in {"", "ReCheckpoint"} /\ other' = other
    BY <1>2 DEF FinEndReplay, FinClose, FinDeleteQueue, Prepare, PrepConnect,
       PrepCreateQueue, PrepScaleDown, PrepDeleteSource, DeleteSource, PrepStatus,
       ControlInv, AtHome, FirstLabels
  <2>2. "primary" \in bound => "primary" \in bound'
    BY <1>2 DEF FinEndReplay, FinClose, FinDeleteQueue, Prepare, PrepConnect,
       PrepCreateQueue, PrepScaleDown, PrepDeleteSource, DeleteSource, PrepStatus,
       SendControlMessage, SendControlMessageErr, Post, Close, DeleteSecondaryQueue,
       DeleteSecondaryQueueErr, Delete, Unbind, Connect, ConnectErr, CreateSecondaryQueue,
       CreateSecondaryQueueErr, CreateSecondary, Stop
  <2> QED BY <2>1, <2>2 DEF RoutedInv, FencedSubs
<1>3. CASE FinComplete \/ ReCheckpoint \/ SwapTransfer \/ CreateReplacement
  <2>1. sub \notin FencedSubs \cup {"MiniReplay"}
    BY <1>3 DEF FinComplete, ReCheckpoint, CkptCall, CkptStatus, CkptFallback,
       SwapTransfer, XferLoad, XferStatus, CreateReplacement, CreateGet, CreateScaleDown,
       CreateDeleteSource, DeleteSource, CreateScaleUp, CreateRecord, CreateRunning,
       ControlInv, AtHome, CkptLabels, XferLabels, CreateLabels, FencedSubs
  <2>2. UNCHANGED <<bound, other>>
    BY <1>3 DEF FinComplete, ReCheckpoint, CkptCall, CkptStatus, CkptFallback,
       SwapTransfer, XferLoad, XferStatus, CreateReplacement, CreateGet, CreateScaleDown,
       CreateDeleteSource, DeleteSource, Stop, CreateScaleUp, CreateRecord,
       CreateRunning
  <2> QED BY <2>1, <2>2 DEF RoutedInv
<1> QED BY <1>1, <1>2, <1>3 DEF Finalize

\* The Cutoff path: MiniReplay goes on only over an open channel.
LEMMA RoutedCutoff ==
  ASSUME RoutedInv, ControlInv, MiniReplay \/ TrafficSwitch \/ PreFenceDrain
  PROVE  RoutedInv'
<1> USE DEF Broker, Patch, PatchIgnored, statusVars, localVars, trafficVars, mqVars, mqRest,
            topoVars, clientVars, Fault, Succeeds, Fails, RoutedInv, FencedSubs, AfterBind,
            RbLabels
<1>1. CASE MiniReplay
  <2>1. sub = "MiniReplay"
    BY <1>1 DEF MiniReplay, MiniUnbind, MiniStart, MiniMark, MiniPoll, MiniStatus,
       ControlInv, AtHome, MiniLabels
  <2>2. CASE MiniUnbind \/ MiniStart
    BY <2>1, <2>2 DEF MiniUnbind, UnbindQueue, UnbindQueueErr, Unbind, MiniStart,
       SendControlMessage, SendControlMessageErr, Post
  <2>3. CASE MiniMark \/ MiniStatus
    BY <2>1, <2>3 DEF MiniMark, MiniStatus
  <2>4. CASE MiniPoll
    BY <2>1, <2>4 DEF MiniPoll, Inspect, InspectErr, NotFound
  <2> QED BY <1>1, <2>2, <2>3, <2>4 DEF MiniReplay
<1>2. CASE TrafficSwitch
  <2>1. sub = "TrafficSwitch" /\ sub' \in {"", "TrafficSwitch"} /\ other' = other
    BY <1>2 DEF TrafficSwitch, TsEnd, TsDeleteQueue, TsDeleteShadow, DeleteShadow,
       TsScaleUp, FinalScaleUp, TsStatus, ControlInv, AtHome, SwitchLabels
  <2>2. "primary" \in bound => "primary" \in bound'
    BY <1>2 DEF TrafficSwitch, TsEnd, TsDeleteQueue, TsDeleteShadow, DeleteShadow,
       Stop, TsScaleUp, FinalScaleUp, TsStatus, SendControlMessage, SendControlMessageErr,
       Post, DeleteSecondaryQueue, DeleteSecondaryQueueErr, Delete, Unbind
  <2> QED BY <2>1, <2>2
<1>3. CASE PreFenceDrain
  <2>1. sub = "PreFenceDrain" /\ other' = other
        /\ pc' \notin {"mini.status"} \cup AfterBind \cup RbLabels
    BY <1>3 DEF PreFenceDrain, PreDepth, PreStart, PreMark, PrePoll, PrePrimary, Decisions,
       PreUnbind, PreToCutoff, PreToFence, ControlInv, AtHome, PreLabels
  <2>2. "primary" \in bound => "primary" \in bound'
    BY <1>3 DEF PreFenceDrain, PreDepth, PreStart, PreMark, PrePoll, PrePrimary, PreUnbind,
       PreToCutoff, PreToFence, Inspect, InspectErr, NotFound, SendControlMessage,
       SendControlMessageErr, Post, UnbindQueue, UnbindQueueErr, Unbind
  <2> QED BY <2>1, <2>2
<1> QED BY <1>1, <1>2, <1>3

\* The fence, the drain, the rollback and the cutover.
LEMMA RoutedFence ==
  ASSUME RoutedInv, ControlInv, ExchangeFence \/ ParallelDrain \/ Rollback \/ FenceCutover
  PROVE  RoutedInv'
<1> USE DEF Broker, Patch, PatchIgnored, statusVars, localVars, trafficVars, mqVars, mqRest,
            topoVars, clientVars, Fault, Succeeds, Fails, RoutedInv, FencedSubs, AfterBind,
            RbLabels, ControlInv, AtHome
<1>1. CASE ExchangeFence
  <2>1. sub \in FencedSubs /\ sub' \in FencedSubs
        /\ pc' \notin {"mini.status"} \cup AfterBind \cup RbLabels
    BY <1>1 DEF ExchangeFence, FencePrimaryDepth, FenceSwapDepth, FenceBuffer,
       FenceUnbindPrimary, FenceUnbindSwap, FenceStatus, FenceLabels
  <2> QED BY <2>1
<1>2. CASE ParallelDrain
  <2>1. sub \in FencedSubs /\ sub' \in FencedSubs
        /\ pc' \notin {"mini.status"} \cup AfterBind \cup (RbLabels \ {"rb.bindPrimary"})
    BY <1>2 DEF ParallelDrain, DrainPrimary, DrainSwap, DrainStatus, DrainLabels
  <2> QED BY <2>1
<1>3. CASE Rollback
  <2>1. sub = "ParallelDrain" /\ other' = other
        /\ pc' \notin {"mini.status"} \cup AfterBind
    BY <1>3 DEF Rollback, RbBindPrimary, RbBindSwap, RbDepth, RbUnbindBuffer,
       RbDeleteBuffer, RbStatus, DrainLabels
  <2>2. CASE RbBindPrimary \/ RbBindSwap
    BY <2>1, <2>2 DEF RbBindPrimary, RbBindSwap, BindQueue, BindQueueErr, Bind, NotFound
  <2>3. CASE RbDepth \/ RbUnbindBuffer
    BY <2>1, <2>3 DEF RbDepth, Inspect, InspectErr, NotFound, RbUnbindBuffer, UnbindQueue,
       UnbindQueueErr, Unbind
  <2>4. CASE RbDeleteBuffer
    BY <2>1, <2>4 DEF RbDeleteBuffer, DeleteQueue, DeleteQueueErr, Delete
  <2>5. CASE RbStatus
    BY <2>1, <2>5 DEF RbStatus
  <2> QED BY <1>3, <2>2, <2>3, <2>4, <2>5 DEF Rollback
<1>4. CASE FenceCutover
  <2>1. sub = "FenceCutover" /\ other' = other /\ sub' \in {"", "FenceCutover"}
        /\ pc' \notin {"mini.status"} \cup RbLabels
    BY <1>4 DEF FenceCutover, CutDeleteShadow, DeleteShadow, CutBindPrimary,
       CutUnbindBuffer, CutStats, CutStart, CutMark, CutEnd, CutDeleteSwap,
       CutDeleteBuffer, CutScaleUp, FinalScaleUp, CutStatus, CutLabels
  <2>2. CASE CutDeleteShadow \/ CutBindPrimary
    BY <2>1, <2>2 DEF CutDeleteShadow, DeleteShadow, CutBindPrimary, BindQueue,
       BindQueueErr, Bind, NotFound
  <2>3. CASE CutUnbindBuffer \/ CutStats \/ CutStart \/ CutMark \/ CutEnd
    BY <2>1, <2>3 DEF CutUnbindBuffer, CutStats, CutStart, CutMark, CutEnd, UnbindQueue,
       UnbindQueueErr, Unbind, Inspect, InspectErr, NotFound, SendControlMessage,
       SendControlMessageErr, Post
  <2>4. CASE CutDeleteSwap \/ CutDeleteBuffer \/ CutScaleUp \/ CutStatus
    BY <2>1, <2>4 DEF CutDeleteSwap, CutDeleteBuffer, DeleteSecondaryQueue,
       DeleteSecondaryQueueErr, DeleteQueue, DeleteQueueErr, Delete, Unbind, CutScaleUp,
       FinalScaleUp, CutStatus
  <2> QED BY <1>4, <2>2, <2>3, <2>4 DEF FenceCutover
<1> QED BY <1>1, <1>2, <1>3, <1>4

\* Only another migration opens the channel behind the controller's back.
LEMMA RoutedEnvironment ==
  ASSUME RoutedInv, TypeOK,
         \/ Crash \/ OtherMigration \/ Tick \/ Cluster \/ Producer \/ Done
         \/ \E p \in Procs : Consumer(p)
         \/ UNCHANGED vars
  PROVE  RoutedInv'
<1> USE RoutedUnchanged DEF statusVars, localVars, trafficVars, mqVars, mqRest, topoVars,
        clientVars, Fault, AfterBind, RbLabels
<1>1. CASE Crash
  BY <1>1 DEF Crash, RoutedInv
<1>2. CASE OtherMigration
  BY <1>2 DEF OtherMigration, RoutedInv, TypeOK, ControllerTypeOK
<1>3. CASE Tick \/ Cluster
  BY <1>3 DEF Tick, Cluster, StsScaleDown, Stop, KubeletKill, KubeletStart,
     Restore, JobEnds
<1>4. CASE Producer
  BY <1>4 DEF Producer, Publish
<1>5. ASSUME NEW p \in Procs, Consumer(p) PROVE RoutedInv'
  BY <1>5 DEF Consumer, Deliver, Process, ReadControl
<1>6. CASE Done \/ UNCHANGED vars
  BY <1>6 DEF Done, vars
<1> QED BY <1>1, <1>2, <1>3, <1>4, <1>5, <1>6

\* The routing invariant holds in every reachable state.
LEMMA RoutedAlways == Spec => []RoutedInv
<1>1. Init => RoutedInv
  BY DEF Init, RoutedInv, FencedSubs, AfterBind, RbLabels
<1>2. TypeOK /\ ControlInv /\ RoutedInv /\ [Next]_vars => RoutedInv'
  BY RoutedEarly, RoutedCutoff, RoutedFence, RoutedEnvironment DEF Next, Controller
<1> QED BY <1>1, <1>2, TypeCorrect, ControlAlways, PTL DEF Spec

\* CompletedRouting holds in every reachable state: whatever calls of the fence, the
\* rollback and the cutover failed, a migration that completes while no other one
\* uses the client leaves the primary queue bound to the exchange.
THEOREM CompletedAlwaysRouted == Spec => []CompletedRouting
<1>1. ControlInv /\ RoutedInv => CompletedRouting
  BY DEF ControlInv, RoutedInv, CompletedRouting, FencedSubs
<1> QED BY <1>1, ControlAlways, RoutedAlways, PTL

-----------------------------------------------------------------------------
(***************************************************************************)
(* MiniReplay of the Cutoff path.  The unbind of the swap queue is passed  *)
(* over when it fails, but then the channel is down, the START_REPLAY that *)
(* follows fails too and the handler begins again: the timer is started    *)
(* only after an unbind that worked.                                       *)
(***************************************************************************)
MiniInv ==
  /\ sub \notin FencedSubs \cup {"PreFenceDrain"}
  /\ pc = "mini.start" => "replay" \notin bound \/ chan = "closed"
  /\ pc \in {"mini.mark", "mini.poll", "mini.status"} => "replay" \notin bound
  /\ "MiniReplay" \in timers => "replay" \notin bound /\ repl

\* The Cutoff path leads through none of the handlers of the fence.
LEMMA MiniStep ==
  ASSUME ControlInv, MiniInv, Next
  PROVE  ~(PreFenceDrain \/ ExchangeFence \/ ParallelDrain \/ Rollback \/ FenceCutover)
<1> USE DEF MiniInv, FencedSubs, ControlInv, AtHome, Broker, Patch, PatchIgnored
<1>1. ~PreFenceDrain
  BY DEF PreFenceDrain, PreDepth, PreStart, PreMark, PrePoll, PrePrimary, PreUnbind,
     PreToCutoff, PreToFence, PreLabels
<1>2. ~ExchangeFence
  BY DEF ExchangeFence, FencePrimaryDepth, FenceSwapDepth, FenceBuffer,
     FenceUnbindPrimary, FenceUnbindSwap, FenceStatus, FenceLabels
<1>3. ~(ParallelDrain \/ Rollback)
  BY DEF ParallelDrain, DrainPrimary, DrainSwap, DrainStatus, Rollback, RbBindPrimary,
     RbBindSwap, RbDepth, RbUnbindBuffer, RbDeleteBuffer, RbStatus, DrainLabels, RbLabels
<1>4. ~FenceCutover
  BY DEF FenceCutover, CutDeleteShadow, DeleteShadow, CutBindPrimary, CutUnbindBuffer,
     CutStats, CutStart, CutMark, CutEnd, CutDeleteSwap, CutDeleteBuffer, CutScaleUp,
     FinalScaleUp, CutStatus, CutLabels
<1> QED BY <1>1, <1>2, <1>3, <1>4

\* The handlers of the Cutoff path keep the invariant.
LEMMA MiniController ==
  ASSUME SwapMode = "Cutoff", ControlInv, MiniInv,
         Finalize \/ Prepare \/ ReCheckpoint \/ SwapTransfer \/ CreateReplacement
         \/ MiniReplay \/ TrafficSwitch
  PROVE  MiniInv'
<1> USE DEF Broker, Patch, PatchIgnored, statusVars, localVars, trafficVars, mqVars, mqRest,
            topoVars, clientVars, Fault, Succeeds, Fails, MiniInv, FencedSubs
<1>1. CASE Reconcile \/ Dispatch
  <2>1. UNCHANGED <<sub, bound, chan, timers, repl>>
        /\ pc' \in {"idle", "fin.endReplay", Start(sub)}
    BY <1>1 DEF Reconcile, Dispatch
  <2>2. Start(sub) = "mini.poll" => "MiniReplay" \in timers
    BY StartIs DEF ControlInv, SubPhases
  <2>3. Start(sub) \notin {"mini.start", "mini.mark", "mini.status"}
    BY DEF Start
  <2> QED BY <2>1, <2>2, <2>3
<1>2. CASE FinDeleteQueue
  <2>1. UNCHANGED <<sub, timers, repl>> /\ pc' = Start(sub) /\ bound' \subseteq bound
    BY <1>2 DEF FinDeleteQueue, DeleteSecondaryQueue, DeleteSecondaryQueueErr, Delete, Unbind
  <2>2. sub = ""
    BY <1>2 DEF FinDeleteQueue, ControlInv, AtHome, FirstLabels
  <2>3. Start(sub) \in {"fin.close", "prep.connect"}
    BY <2>2, StartIs
  <2> QED BY <2>1, <2>3
<1>3. CASE FinEndReplay \/ FinClose \/ FinComplete
  BY <1>3 DEF FinEndReplay, SendControlMessage, SendControlMessageErr, Post, FinClose,
     Close, FinComplete
<1>4. CASE Prepare
  <2>1. ~repl /\ repl' = repl /\ timers' = timers
    BY <1>4 DEF Prepare, PrepConnect, PrepCreateQueue, PrepScaleDown, PrepDeleteSource,
       DeleteSource, PrepStatus, ControlInv, PrepLabels
  <2>2. sub' \in {sub, "ReCheckpoint"}
        /\ pc' \in {"idle", "dispatch", "prep.createQueue", "prep.scaleDown",
                    "prep.deleteSource", "prep.status"}
    BY <1>4 DEF Prepare, PrepConnect, PrepCreateQueue, PrepScaleDown, PrepDeleteSource,
       DeleteSource, PrepStatus
  <2> QED BY <2>1, <2>2
<1>5. CASE ReCheckpoint \/ SwapTransfer
  BY <1>5 DEF ReCheckpoint, CkptCall, CkptStatus, CkptFallback, SwapTransfer, XferLoad,
     XferStatus
<1>6. CASE CreateReplacement
  BY <1>6 DEF CreateReplacement, CreateGet, CreateScaleDown, CreateDeleteSource,
     DeleteSource, Stop, CreateScaleUp, CreateRecord, CreateRunning
<1>7. CASE MiniReplay
  <2>1. repl
    BY <1>7 DEF MiniReplay, MiniUnbind, MiniStart, MiniMark, MiniPoll, MiniStatus,
       ControlInv, AtHome, MiniLabels, LateSubs
  <2>2. CASE MiniUnbind
    BY <2>2 DEF MiniUnbind, UnbindQueue, UnbindQueueErr, Unbind
  <2>3. CASE MiniStart
    BY <2>3 DEF MiniStart, SendControlMessage, SendControlMessageErr, Post
  <2>4. CASE MiniMark \/ MiniStatus
    BY <2>1, <2>4 DEF MiniMark, StartTimer, MiniStatus, ClearTimers
  <2>5. CASE MiniPoll
    BY <2>5 DEF MiniPoll, Inspect, InspectErr, NotFound
  <2> QED BY <1>7, <2>2, <2>3, <2>4, <2>5 DEF MiniReplay
<1>8. CASE TrafficSwitch
  BY <1>8 DEF TrafficSwitch, TsEnd, TsDeleteQueue, TsDeleteShadow, DeleteShadow,
     Stop, TsScaleUp, FinalScaleUp, TsStatus, SendControlMessage, SendControlMessageErr,
     Post, DeleteSecondaryQueue, DeleteSecondaryQueueErr, Delete, Unbind
<1> QED BY <1>1, <1>2, <1>3, <1>4, <1>5, <1>6, <1>7, <1>8 DEF Finalize

\* Another migration touches the channel only between reconciles, and the bindings never.
LEMMA MiniEnvironment ==
  ASSUME MiniInv,
         \/ Crash \/ OtherMigration \/ Tick \/ Cluster \/ Producer \/ Done
         \/ \E p \in Procs : Consumer(p)
         \/ UNCHANGED vars
  PROVE  MiniInv'
<1> USE DEF statusVars, trafficVars, mqVars, mqRest, topoVars, Fault, MiniInv
<1>1. CASE Crash \/ OtherMigration \/ Tick
  BY <1>1 DEF Crash, OtherMigration, Connect, Close, Tick
<1>2. CASE Cluster
  BY <1>2 DEF Cluster, StsScaleDown, Stop, KubeletKill, KubeletStart, Restore, JobEnds
<1>3. CASE Producer
  BY <1>3 DEF Producer, Publish
<1>4. ASSUME NEW p \in Procs, Consumer(p) PROVE MiniInv'
  BY <1>4 DEF Consumer, Deliver, Process, ReadControl
<1>5. CASE Done \/ UNCHANGED vars
  BY <1>5 DEF Done, vars
<1> QED BY <1>1, <1>2, <1>3, <1>4, <1>5

\* MiniReplayFixedSet holds in every reachable state of a Cutoff swap: whatever calls
\* fail, handleSwapMiniReplay never goes on to the switch while the swap queue is
\* still fed.
THEOREM MiniReplayDrainsFixedSet ==
  ASSUME SwapMode = "Cutoff"
  PROVE  Spec => []MiniReplayFixedSet
<1>1. Init => MiniInv
  BY DEF Init, MiniInv, FencedSubs
<1>2. ControlInv /\ MiniInv /\ [Next]_vars => MiniInv'
  BY MiniStep, MiniController, MiniEnvironment DEF Next, Controller
<1>3. MiniInv => MiniReplayFixedSet
  BY DEF MiniInv, MiniReplayFixedSet
<1> QED BY <1>1, <1>2, <1>3, ControlAlways, PTL DEF Spec

-----------------------------------------------------------------------------
(***************************************************************************)
(* The parallel drain.  DrainIsFinite relies on the three rebinding calls  *)
(* of the fence having been made in this order in one reconcile, and on    *)
(* the fence's own timer not being there when ExchangeFence begins, which  *)
(* would skip them.  A rollback whose status patch fails, or that a        *)
(* restart interrupts, leaves the drain with the primary queue rebound, so *)
(* the statement is about runs in which API calls do not fail.             *)
(***************************************************************************)
DrainInv ==
  /\ pc \in {"fence.unbindPrimary", "fence.unbindSwap"} => "buffer" \in bound
  /\ pc = "fence.unbindSwap" => "primary" \notin bound
  /\ pc = "fence.status" => bound = {"buffer"}
  /\ "Fence" \in timers => sub = "ParallelDrain"
  /\ DrainIsFinite

ApiReliable == FaultKinds \cap {"api", "crash"} = {}

\* A step outside the fence that keeps the sub-phase and the bindings.
LEMMA DrainKept ==
  ASSUME DrainInv, ControlInv, sub # "ParallelDrain", sub' # "ParallelDrain",
         pc' \notin {"fence.unbindPrimary", "fence.unbindSwap", "fence.status"},
         "Fence" \in timers' => "Fence" \in timers
  PROVE  DrainInv'
BY DEF DrainInv, DrainIsFinite

\* Every handler but the fence and the drain.
LEMMA DrainOutside ==
  ASSUME DrainInv, ControlInv,
         Finalize \/ Prepare \/ ReCheckpoint \/ SwapTransfer \/ CreateReplacement
         \/ MiniReplay \/ TrafficSwitch \/ PreFenceDrain \/ FenceCutover
  PROVE  DrainInv'
<1> USE DEF Broker, Patch, PatchIgnored, statusVars, ControlInv, AtHome
<1>1. CASE Reconcile \/ Dispatch
  <2>1. UNCHANGED <<sub, bound, timers>> /\ pc' \in {"idle", "fin.endReplay", Start(sub)}
    BY <1>1 DEF Reconcile, Dispatch, mqVars, mqRest
  <2>2. Start(sub) \notin {"fence.unbindPrimary", "fence.unbindSwap", "rb.bindSwap",
                           "rb.depth", "rb.unbindBuffer", "rb.deleteBuffer", "rb.status"}
    BY DEF Start
  <2>3. Start(sub) # "fence.status"
    BY StartIs DEF DrainInv, SubPhases
  <2>4. pc \in {"idle", "dispatch"}
    BY <1>1 DEF Reconcile, Dispatch
  <2> QED BY <2>1, <2>2, <2>3, <2>4 DEF DrainInv, DrainIsFinite
<1>2. CASE FinDeleteQueue
  <2>1. sub = "" /\ UNCHANGED <<sub, timers>> /\ pc' \in {"fin.close", "prep.connect"}
    BY <1>2, StartIs DEF FinDeleteQueue, FirstLabels
  <2> QED BY <2>1, DrainKept
<1>3. CASE FinEndReplay \/ FinClose \/ FinComplete \/ Prepare
  BY <1>3, DrainKept DEF FinEndReplay, FinClose, FinComplete, Prepare, PrepConnect,
     PrepCreateQueue, PrepScaleDown, PrepDeleteSource, DeleteSource, PrepStatus, FirstLabels
<1>4. CASE ReCheckpoint \/ SwapTransfer \/ CreateReplacement
  BY <1>4, DrainKept DEF ReCheckpoint, CkptCall, CkptStatus, CkptFallback, SwapTransfer,
     XferLoad, XferStatus, CreateReplacement, CreateGet, CreateScaleDown,
     CreateDeleteSource, DeleteSource, CreateScaleUp, CreateRecord, CreateRunning,
     CkptLabels, XferLabels, CreateLabels
<1>5. CASE MiniReplay \/ TrafficSwitch
  BY <1>5, DrainKept DEF MiniReplay, MiniUnbind, MiniStart, MiniMark, StartTimer, MiniPoll,
     MiniStatus, ClearTimers, TrafficSwitch, TsEnd, TsDeleteQueue, TsDeleteShadow,
     DeleteShadow, TsScaleUp, FinalScaleUp, TsStatus, MiniLabels, SwitchLabels
<1>6. CASE PreFenceDrain
  BY <1>6, DrainKept DEF PreFenceDrain, PreDepth, PreStart, PreMark, StartTimer, PrePoll,
     PrePrimary, Decisions, PreUnbind, PreToCutoff, PreToFence, ClearTimers, PreLabels
<1>7. CASE FenceCutover
  BY <1>7, DrainKept DEF FenceCutover, CutDeleteShadow, DeleteShadow, CutBindPrimary,
     CutUnbindBuffer, CutStats, CutStart, CutMark, StartTimer, CutEnd, CutDeleteSwap,
     CutDeleteBuffer, CutScaleUp, FinalScaleUp, CutStatus, ClearTimers, CutLabels
<1> QED BY <1>1, <1>2, <1>3, <1>4, <1>5, <1>6, <1>7 DEF Finalize

\* The fence binds the buffer, then unbinds the primary and the swap queue; the
\* drain leaves the bindings alone until it succeeds or rolls back.
LEMMA DrainFence ==
  ASSUME ApiReliable, TypeOK, DrainInv, ControlInv, ExchangeFence \/ ParallelDrain \/ Rollback
  PROVE  DrainInv'
<1> USE DEF Broker, Patch, PatchIgnored, statusVars, trafficVars, mqVars, mqRest, topoVars,
            clientVars, Fault, Succeeds, Fails, ControlInv, AtHome, DrainInv, DrainIsFinite,
            ApiReliable
<1>1. CASE ExchangeFence
  <2>1. sub = "ExchangeFence" /\ "Fence" \notin timers
    BY <1>1 DEF ExchangeFence, FencePrimaryDepth, FenceSwapDepth, FenceBuffer,
       FenceUnbindPrimary, FenceUnbindSwap, FenceStatus, FenceLabels
  <2>2. CASE FencePrimaryDepth \/ FenceSwapDepth
    BY <2>1, <2>2 DEF FencePrimaryDepth, FenceSwapDepth
  <2>3. CASE FenceBuffer
    BY <2>1, <2>3 DEF FenceBuffer, DeclareAndBindQueue, DeclareBind
  <2>4. CASE FenceUnbindPrimary
    BY <2>1, <2>4 DEF FenceUnbindPrimary, UnbindQueue, Unbind
  <2>5. CASE FenceUnbindSwap
    <3>1. CASE pc' = "idle"
      BY <2>1, <2>5, <3>1 DEF FenceUnbindSwap
    <3>2. CASE pc' = "fence.status"
      <4>1. bound' = bound \ {"replay"}
        BY <2>5, <3>2 DEF FenceUnbindSwap, UnbindQueue, Unbind
      <4>2. bound \subseteq {"primary", "replay", "buffer"}
        BY DEF TypeOK, MessagingTypeOK, Queues
      <4>3. "primary" \notin bound /\ "buffer" \in bound
        BY <2>5 DEF FenceUnbindSwap
      <4>4. bound' = {"buffer"}
        BY <4>1, <4>2, <4>3
      <4>5. UNCHANGED <<sub, timers>>
        BY <2>5 DEF FenceUnbindSwap
      <4> QED BY <2>1, <3>2, <4>4, <4>5
    <3> QED BY <2>5, <3>1, <3>2 DEF FenceUnbindSwap
  <2>6. CASE FenceStatus
    BY <2>1, <2>6 DEF FenceStatus
  <2> QED BY <1>1, <2>2, <2>3, <2>4, <2>5, <2>6 DEF ExchangeFence
<1>2. CASE ParallelDrain
  <2>1. sub = "ParallelDrain"
    BY <1>2 DEF ParallelDrain, DrainPrimary, DrainSwap, DrainStatus, DrainLabels
  <2>2. CASE DrainPrimary \/ DrainSwap
    BY <2>1, <2>2 DEF DrainPrimary, DrainSwap, Inspect, InspectErr, NotFound
  <2>3. CASE DrainStatus
    BY <2>1, <2>3 DEF DrainStatus, ClearTimers
  <2> QED BY <1>2, <2>2, <2>3 DEF ParallelDrain
<1>3. CASE Rollback
  <2>1. sub = "ParallelDrain"
    BY <1>3 DEF Rollback, RbBindPrimary, RbBindSwap, RbDepth, RbUnbindBuffer,
       RbDeleteBuffer, RbStatus, DrainLabels, RbLabels
  <2>2. CASE RbStatus
    BY <2>1, <2>2 DEF RbStatus
  <2>3. CASE RbBindPrimary \/ RbBindSwap \/ RbDepth \/ RbUnbindBuffer \/ RbDeleteBuffer
    BY <2>1, <2>3 DEF RbBindPrimary, RbBindSwap, RbDepth, RbUnbindBuffer, RbDeleteBuffer
  <2> QED BY <1>3, <2>2, <2>3 DEF Rollback
<1> QED BY <1>1, <1>2, <1>3

\* The other processes leave the bindings and the controller's place alone.
LEMMA DrainEnvironment ==
  ASSUME ApiReliable, DrainInv,
         \/ Crash \/ OtherMigration \/ Tick \/ Cluster \/ Producer \/ Done
         \/ \E p \in Procs : Consumer(p)
         \/ UNCHANGED vars
  PROVE  DrainInv'
<1>1. ~Crash
  BY DEF Crash, Fault, ApiReliable
<1>2. UNCHANGED <<pc, sub, timers>>
  BY <1>1 DEF OtherMigration, Tick, Cluster, StsScaleDown, KubeletKill, KubeletStart,
     JobEnds, Producer, Consumer, Done, vars, statusVars
<1>3. bound' = bound
  <2> USE DEF mqVars, mqRest, topoVars
  <2>1. CASE OtherMigration \/ Tick \/ Done \/ UNCHANGED vars
    BY <2>1 DEF OtherMigration, Connect, Close, Tick, Done, vars
  <2>2. CASE Cluster
    BY <2>2 DEF Cluster, StsScaleDown, Stop, KubeletKill, KubeletStart, Restore, JobEnds
  <2>3. CASE Producer
    BY <2>3 DEF Producer, Publish
  <2>4. ASSUME NEW p \in Procs, Consumer(p) PROVE bound' = bound
    BY <2>4 DEF Consumer, Deliver, Process, ReadControl
  <2> QED BY <1>1, <2>1, <2>2, <2>3, <2>4
<1> QED BY <1>2, <1>3 DEF DrainInv, DrainIsFinite

\* In every reachable state the fence is built in order: buffer, primary, swap queue.
LEMMA DrainAlways ==
  ASSUME ApiReliable
  PROVE  Spec => []DrainInv
<1>1. Init => DrainInv
  BY DEF Init, DrainInv, DrainIsFinite
<1>2. TypeOK /\ ControlInv /\ DrainInv /\ [Next]_vars => DrainInv'
  BY DrainOutside, DrainFence, DrainEnvironment DEF Next, Controller
<1> QED BY <1>1, <1>2, TypeCorrect, ControlAlways, PTL DEF Spec

\* DrainIsFinite holds in every reachable state unless an API call fails or the
\* controller restarts in the middle of a rollback: lost connections, failed Jobs and
\* other migrations on the client do not break it.
THEOREM DrainAlwaysFinite ==
  ASSUME ApiReliable
  PROVE  Spec => []DrainIsFinite
<1>1. DrainInv => DrainIsFinite
  BY DEF DrainInv
<1> QED BY <1>1, DrainAlways, PTL

-----------------------------------------------------------------------------
(***************************************************************************)
(* The replica count.  It is kept in memory, then in the status, and comes *)
(* back with the creation of the replacement or with the final scale-up.   *)
(* Losing it takes a fault and losing a scale-up takes another: the        *)
(* invariant charges each to the faults that happened.  A count that was   *)
(* lost is replaced by 1, which is right for one replica only.             *)
(***************************************************************************)
Charged(n) == faults >= n /\ ~ApiReliable
Settled    == replicas = Replicas \/ Charged(2) \/ (Replicas > 1 /\ Charged(1))

\* The count is known: in the status, or in memory on its way there.
Kept ==
  \/ orig = Replicas
  \/ Charged(1)
  \/ mOrig = Replicas /\ pc \in {"prep.deleteSource", "prep.status"}

ReplicasInv ==
  /\ orig \in {0, Replicas} /\ mOrig \in {0, Replicas}
  /\ podSrc \in {"source", "none"} => replicas \in {0, Replicas}
  /\ sub \in {"ReCheckpoint", "SwapTransfer"} \/ (sub = "" /\ ~repl)
       => podSrc \in {"source", "none"}
  /\ pc \in {"create.scaleDown", "create.deleteSource"} => podSrc \in {"source", "none"}
  /\ replicas = 0 /\ podSrc \in {"source", "none"} => Kept
  /\ pc = "create.scaleUp" => replicas = 0 /\ (orig = Replicas \/ Charged(1))
  /\ podSrc \in {"pending", "running"} /\ pc # "create.scaleUp"
       => Settled \/ (orig = Replicas /\ Charged(1))
  /\ pc \in {"ts.status", "cut.status"} \/ (sub = "" /\ repl) => Settled

\* A failed API call is a fault that counts.
LEMMA ChargeApi ==
  ASSUME TypeOK, Fault("api") \/ Fault("crash")
  PROVE  /\ ~ApiReliable
         /\ faults' = faults + 1
         /\ Charged(1)'
         /\ Charged(1) => Charged(2)'
BY DEF TypeOK, MessagingTypeOK, Fault, Charged, ApiReliable

\* Faults are never forgotten.
LEMMA ChargeStays ==
  ASSUME TypeOK, faults' = faults \/ \E k \in Kinds : Fault(k)
  PROVE  /\ faults' >= faults
         /\ Charged(1) => Charged(1)'
         /\ Charged(2) => Charged(2)'
BY DEF TypeOK, MessagingTypeOK, Fault, Charged, ApiReliable

\* Every step of the system leaves the count of faults or adds to it.
LEMMA FaultsGrow ==
  ASSUME [Next]_vars
  PROVE  faults' = faults \/ \E k \in Kinds : Fault(k)
<1> USE DEF Kinds, Broker, Patch, PatchIgnored, Succeeds, Fails, NotFound, clientVars,
            mqVars, mqRest, NoFault
<1>1. CASE Finalize
  BY <1>1 DEF Finalize, Reconcile, Dispatch, FinEndReplay, SendControlMessage,
     SendControlMessageErr, FinDeleteQueue, DeleteSecondaryQueue, DeleteSecondaryQueueErr,
     FinClose, Close, FinComplete
<1>2. CASE Prepare \/ ReCheckpoint \/ SwapTransfer
  BY <1>2 DEF Prepare, PrepConnect, Connect, ConnectErr, PrepCreateQueue,
     CreateSecondaryQueue, CreateSecondaryQueueErr, PrepScaleDown, PrepDeleteSource,
     DeleteSource, Stop, PrepStatus, ReCheckpoint, CkptCall, CkptStatus,
     CkptFallback, SwapTransfer, XferLoad, XferStatus
<1>3. CASE CreateReplacement
  BY <1>3 DEF CreateReplacement, CreateGet, CreateScaleDown, CreateDeleteSource,
     DeleteSource, Stop, CreateScaleUp, ScaleUpTo, CreateRecord, CreateRunning
<1>4. CASE MiniReplay \/ TrafficSwitch
  BY <1>4 DEF MiniReplay, MiniUnbind, UnbindQueue, UnbindQueueErr, MiniStart,
     SendControlMessage, SendControlMessageErr, MiniMark, MiniPoll, Inspect, InspectErr,
     MiniStatus, TrafficSwitch, TsEnd, TsDeleteQueue, DeleteSecondaryQueue,
     DeleteSecondaryQueueErr, TsDeleteShadow, DeleteShadow, Stop, TsScaleUp,
     FinalScaleUp, ScaleUpTo, TsStatus
<1>5. CASE PreFenceDrain
  BY <1>5 DEF PreFenceDrain, PreDepth, PreStart, SendControlMessage, SendControlMessageErr,
     PreMark, PrePoll, PrePrimary, Inspect, InspectErr, PreUnbind, UnbindQueue,
     UnbindQueueErr, PreToCutoff, PreToFence
<1>6. CASE ExchangeFence \/ ParallelDrain
  BY <1>6 DEF ExchangeFence, FencePrimaryDepth, FenceSwapDepth, Inspect, InspectErr,
     FenceBuffer, DeclareAndBindQueue, DeclareAndBindQueueErr, FenceUnbindPrimary,
     FenceUnbindSwap, UnbindQueue, UnbindQueueErr, FenceStatus, ParallelDrain,
     DrainPrimary, DrainSwap, DrainStatus
<1>7. CASE Rollback
  BY <1>7 DEF Rollback, RbBindPrimary, RbBindSwap, BindQueue, BindQueueErr, RbDepth,
     Inspect, InspectErr, RbUnbindBuffer, UnbindQueue, UnbindQueueErr, RbDeleteBuffer,
     DeleteQueue, DeleteQueueErr, RbStatus
<1>8. CASE FenceCutover
  BY <1>8 DEF FenceCutover, CutDeleteShadow, DeleteShadow, Stop, CutBindPrimary,
     BindQueue, BindQueueErr, CutUnbindBuffer, UnbindQueue, UnbindQueueErr, CutStats,
     Inspect, InspectErr, CutStart, CutEnd, SendControlMessage, SendControlMessageErr,
     CutMark, CutDeleteSwap, DeleteSecondaryQueue, DeleteSecondaryQueueErr,
     CutDeleteBuffer, DeleteQueue, DeleteQueueErr, CutScaleUp, FinalScaleUp, ScaleUpTo,
     CutStatus
<1>9. CASE Crash \/ OtherMigration \/ Tick \/ Cluster \/ Producer \/ Done \/ UNCHANGED vars
  BY <1>9 DEF Crash, OtherMigration, Connect, Close, Tick, Cluster, StsScaleDown,
     Stop, KubeletKill, KubeletStart, Restore, JobEnds, Producer, Publish, Done, vars
<1>10. ASSUME NEW p \in Procs, Consumer(p) PROVE faults' = faults
  BY <1>10 DEF Consumer, Deliver, Process, ReadControl
<1> QED BY <1>1, <1>2, <1>3, <1>4, <1>5, <1>6, <1>7, <1>8, <1>9, <1>10 DEF Next, Controller

\* A step that leaves the counts and the pod alone, keeps the count in memory while
\* it is needed, and enters no label that says something about the counts.
LEMMA ReplicasQuiet ==
  ASSUME TypeOK, ReplicasInv, [Next]_vars,
         UNCHANGED <<replicas, orig, podSrc>>,
         mOrig' \in {mOrig, 0},
         \/ pc \notin {"prep.deleteSource", "prep.status", "create.scaleUp"}
         \/ Charged(1)' /\ (Charged(1) => Charged(2)')
         \/ pc' = pc /\ mOrig' = mOrig,
         \/ pc' = pc
         \/ pc' \notin {"prep.deleteSource", "create.scaleDown", "create.deleteSource",
                        "create.scaleUp", "ts.status", "cut.status"},
         \/ UNCHANGED <<sub, repl>>
         \/ sub' \in {"ReCheckpoint", "SwapTransfer"} /\ podSrc \in {"source", "none"}
         \/ sub' \notin {"", "ReCheckpoint", "SwapTransfer"}
         \/ sub' = "" /\ repl' /\ Settled
  PROVE  ReplicasInv'
<1>1. /\ Charged(1) => Charged(1)'
      /\ Charged(2) => Charged(2)'
  BY FaultsGrow, ChargeStays
<1> HIDE DEF Charged
<1>2. Settled => Settled'
  BY <1>1 DEF Settled
<1>3. replicas = 0 /\ podSrc \in {"source", "none"} => Kept'
  BY <1>1 DEF ReplicasInv, Kept
<1>4. podSrc \in {"pending", "running"} /\ pc # "create.scaleUp"
         => Settled' \/ (orig' = Replicas /\ Charged(1)')
  BY <1>1, <1>2 DEF ReplicasInv
<1>5. podSrc \in {"pending", "running"} /\ pc = "create.scaleUp" /\ pc' # "create.scaleUp"
         => Settled' \/ (orig' = Replicas /\ Charged(1)')
  BY <1>1, <1>2 DEF ReplicasInv, Settled
<1>6. pc' \in {"ts.status", "cut.status"} \/ (sub' = "" /\ repl') => Settled'
  BY <1>2 DEF ReplicasInv
<1>7. pc' = "create.scaleUp" => replicas' = 0 /\ (orig' = Replicas \/ Charged(1)')
  BY <1>1 DEF ReplicasInv
<1>8. /\ orig' \in {0, Replicas} /\ mOrig' \in {0, Replicas}
      /\ podSrc' \in {"source", "none"} => replicas' \in {0, Replicas}
  BY DEF ReplicasInv
<1>9. /\ sub' \in {"ReCheckpoint", "SwapTransfer"} \/ (sub' = "" /\ ~repl')
           => podSrc' \in {"source", "none"}
      /\ pc' \in {"create.scaleDown", "create.deleteSource"}
           => podSrc' \in {"source", "none"}
  BY DEF ReplicasInv
<1>10. podSrc' \in {"pending", "running"} /\ pc' # "create.scaleUp"
         => Settled' \/ (orig' = Replicas /\ Charged(1)')
  BY <1>4, <1>5
<1> QED BY <1>3, <1>6, <1>7, <1>8, <1>9, <1>10 DEF ReplicasInv

\* handleFinalizing and handleSwapPrepare.
LEMMA ReplicasFinalize ==
  ASSUME TypeOK, ControlInv, IdentityInv, ReplicasInv, Finalize \/ Prepare
  PROVE  ReplicasInv'
<1>0. [Next]_vars
  BY DEF Next, Controller
<1> USE DEF Broker, Patch, statusVars, podVars, localVars
<1>1. CASE Reconcile \/ Dispatch \/ FinDeleteQueue
  <2>1. /\ UNCHANGED <<replicas, orig, podSrc, sub, repl>>
        /\ mOrig' \in {mOrig, 0}
        /\ pc \in {"idle", "dispatch", "fin.deleteQueue"}
        /\ pc' \in {"idle", "fin.endReplay", Start(sub)}
    BY <1>1 DEF Reconcile, Dispatch, FinDeleteQueue
  <2>2. Start(sub) \notin {"prep.deleteSource", "create.scaleDown", "create.deleteSource",
                          "create.scaleUp", "ts.status", "cut.status"}
    BY DEF Start
  <2> QED BY <1>0, <2>1, <2>2, ReplicasQuiet
<1>2. CASE FinEndReplay \/ FinClose
  BY <1>0, <1>2, ReplicasQuiet DEF FinEndReplay, FinClose
<1>3. CASE FinComplete
  <2>1. sub = "" /\ repl
    BY <1>3 DEF FinComplete, ControlInv
  <2>2. UNCHANGED <<replicas, orig, podSrc, sub, repl, mOrig>> /\ pc' = "idle"
        /\ pc = "fin.complete"
    BY <1>3, <2>1 DEF FinComplete
  <2> QED BY <1>0, <2>2, ReplicasQuiet
<1>4. CASE PrepConnect \/ PrepCreateQueue
  BY <1>0, <1>4, ReplicasQuiet DEF PrepConnect, PrepCreateQueue
<1>5. CASE PrepScaleDown
  <2>1. sub = "" /\ ~repl /\ UNCHANGED <<sub, repl, orig, podSrc>>
    BY <1>5 DEF PrepScaleDown, ControlInv, AtHome, FirstLabels, PrepLabels
  <2>2. podSrc \in {"source", "none"} /\ replicas \in {0, Replicas}
    BY <2>1 DEF ReplicasInv
  <2>3. CASE Fault("api")
    <3>1. Charged(1)'
      BY <2>3, ChargeApi
    <3>2. UNCHANGED replicas \/ replicas' = 0
      BY <1>5 DEF PrepScaleDown
    <3>3. mOrig' \in {0, Replicas} /\ pc' \in {"prep.deleteSource", "prep.status"}
      BY <1>5, <2>2 DEF PrepScaleDown, ReplicasInv
    <3> QED BY <2>1, <2>2, <3>1, <3>2, <3>3 DEF ReplicasInv, Kept
  <2>4. CASE replicas > 0 /\ NoFault /\ replicas' = 0
             /\ mOrig' = (IF orig = 0 THEN replicas ELSE orig) /\ pc' = "prep.deleteSource"
    <3>1. mOrig' = Replicas
      <4>1. replicas = Replicas
        BY <2>2, <2>4
      <4> QED BY <2>4, <4>1 DEF ReplicasInv
    <3> QED BY <2>1, <2>2, <2>4, <3>1 DEF ReplicasInv, Kept
  <2>5. CASE replicas = 0 /\ NoFault /\ pc' = "prep.status" /\ UNCHANGED <<replicas, mOrig>>
    BY <1>0, <1>5, <2>1, <2>5, ReplicasQuiet DEF PrepScaleDown
  <2> QED BY <1>5, <2>3, <2>4, <2>5 DEF PrepScaleDown
<1>6. CASE PrepDeleteSource
  <2>1. sub = "" /\ ~repl /\ UNCHANGED <<sub, repl, orig, replicas, mOrig>>
    BY <1>6 DEF PrepDeleteSource, DeleteSource, ControlInv, AtHome, FirstLabels, PrepLabels
  <2>2. podSrc \in {"source", "none"} /\ podSrc' \in {"source", "none"}
    BY <1>6, <2>1 DEF PrepDeleteSource, DeleteSource, ReplicasInv
  <2>3. pc = "prep.deleteSource" /\ pc' = "prep.status"
    BY <1>6 DEF PrepDeleteSource, DeleteSource
  <2>4. Charged(1) => Charged(1)'
    BY <1>0, FaultsGrow, ChargeStays
  <2> QED BY <2>1, <2>2, <2>3, <2>4 DEF ReplicasInv, Kept
<1>7. CASE PrepStatus
  <2>1. sub = "" /\ ~repl /\ UNCHANGED <<repl, replicas, mOrig, podSrc>> /\ pc = "prep.status"
    BY <1>7 DEF PrepStatus, ControlInv, AtHome, FirstLabels, PrepLabels
  <2>2. podSrc \in {"source", "none"}
    BY <2>1 DEF ReplicasInv
  <2>3. CASE Fault("api") /\ pc' = "idle" /\ UNCHANGED statusVars
    <3>1. Charged(1)'
      BY <2>3, ChargeApi
    <3>2. sub' = sub /\ orig' = orig /\ pc' = "idle"
      BY <2>3
    <3> QED BY <2>1, <2>2, <3>1, <3>2 DEF ReplicasInv, Kept
  <2>4. CASE sub' = "ReCheckpoint" /\ orig' = (IF mOrig # 0 THEN mOrig ELSE orig)
             /\ pc' = "dispatch" /\ UNCHANGED faults
    <3>1. orig' \in {0, Replicas} /\ (orig = Replicas \/ mOrig = Replicas => orig' = Replicas)
      BY <2>4, SwapAssumption DEF ReplicasInv
    <3> QED BY <2>1, <2>2, <2>4, <3>1 DEF ReplicasInv, Kept, Charged
  <2> QED BY <1>7, <2>3, <2>4 DEF PrepStatus
<1> QED BY <1>1, <1>2, <1>3, <1>4, <1>5, <1>6, <1>7 DEF Finalize, Prepare

\* The re-checkpoint and the transfer leave the counts alone.
LEMMA ReplicasCheckpoint ==
  ASSUME TypeOK, ControlInv, ReplicasInv, ReCheckpoint \/ SwapTransfer
  PROVE  ReplicasInv'
<1>0. [Next]_vars
  BY DEF Next, Controller
<1>1. sub \in {"ReCheckpoint", "SwapTransfer"}
  BY DEF ReCheckpoint, CkptCall, CkptStatus, CkptFallback, SwapTransfer, XferLoad,
     XferStatus, Patch, ControlInv, AtHome, CkptLabels, XferLabels
<1>2. podSrc \in {"source", "none"}
  BY <1>1 DEF ReplicasInv
<1>3. UNCHANGED <<replicas, orig, podSrc, mOrig, repl>> /\ pc \in CkptLabels \cup XferLabels
      /\ pc' \in CkptLabels \cup XferLabels \cup {"idle", "dispatch"}
  BY DEF ReCheckpoint, CkptCall, CkptStatus, CkptFallback, SwapTransfer, XferLoad,
     XferStatus, Patch, statusVars, podVars, localVars, CkptLabels, XferLabels
<1>4. sub' \in {sub, "SwapTransfer", "CreateReplacement"}
  BY DEF ReCheckpoint, CkptCall, CkptStatus, CkptFallback, SwapTransfer, XferLoad,
     XferStatus, Patch, statusVars
<1> QED BY <1>0, <1>1, <1>2, <1>3, <1>4, ReplicasQuiet DEF CkptLabels, XferLabels

\* The creation of the replacement brings the count back, or is charged a fault.
LEMMA ReplicasCreate ==
  ASSUME TypeOK, ControlInv, IdentityInv, ReplicasInv, CreateReplacement
  PROVE  ReplicasInv'
<1>0. [Next]_vars
  BY DEF Next, Controller
<1> USE DEF Patch, statusVars, podVars, localVars
<1>a. sub = "CreateReplacement"
  BY DEF CreateReplacement, CreateGet, CreateScaleDown, CreateDeleteSource, DeleteSource,
     CreateScaleUp, CreateRecord, CreateRunning, ControlInv, AtHome, CreateLabels
<1>b. /\ faults' >= faults
      /\ Charged(1) => Charged(1)'
      /\ Charged(2) => Charged(2)'
  BY <1>0, FaultsGrow, ChargeStays
<1>c. replicas \in 0 .. Replicas
  BY DEF TypeOK, ClusterTypeOK
<1>1. CASE CreateGet
  <2>1. UNCHANGED <<replicas, orig, mOrig, sub, repl>> /\ pc = "create.get"
    BY <1>1 DEF CreateGet
  <2>2. CASE podSrc = "none" /\ pc' = "create.scaleUp" /\ podSrc' = "pending"
    <3>1. replicas = 0
      BY <2>2 DEF IdentityInv, IdentityReserved
    <3>2. orig = Replicas \/ Charged(1)
      BY <2>1, <2>2, <3>1 DEF ReplicasInv, Kept
    <3> QED BY <1>a, <1>b, <2>1, <2>2, <3>1, <3>2 DEF ReplicasInv
  <2>3. CASE podSrc = "source" /\ pc' = "create.scaleDown" /\ UNCHANGED podSrc
    BY <1>a, <1>b, <2>1, <2>3 DEF ReplicasInv, Kept
  <2>4. CASE pc' \in {"idle", "create.running"} /\ UNCHANGED podSrc
    BY <1>0, <2>1, <2>4, ReplicasQuiet
  <2> QED BY <1>1, <2>2, <2>3, <2>4 DEF CreateGet
<1>2. CASE CreateScaleDown
  <2>1. UNCHANGED <<mOrig, sub, repl, podSrc>> /\ pc = "create.scaleDown"
        /\ pc' \in {"create.deleteSource", "idle"}
    BY <1>2 DEF CreateScaleDown
  <2>2. podSrc \in {"source", "none"} /\ replicas \in {0, Replicas}
    BY <2>1 DEF ReplicasInv
  <2>3. orig' \in {0, Replicas} /\ replicas' \in {0, Replicas} /\ (orig # 0 => orig' = orig)
    BY <1>2, <2>2 DEF CreateScaleDown, ReplicasInv
  <2>4. replicas' = 0 => orig' = Replicas \/ Charged(1)'
    <3>1. CASE Fault("api")
      BY <3>1, ChargeApi
    <3>2. CASE replicas = 0 /\ UNCHANGED <<replicas, orig>>
      BY <1>b, <2>1, <2>2, <3>2 DEF ReplicasInv, Kept
    <3>3. CASE replicas > 0 /\ orig' = (IF orig = 0 THEN replicas ELSE orig)
      <4>1. replicas = Replicas
        BY <2>2, <3>3
      <4> QED BY <3>3, <4>1 DEF ReplicasInv
    <3> QED BY <1>2, <3>1, <3>2, <3>3 DEF CreateScaleDown
  <2> QED BY <1>a, <2>1, <2>2, <2>3, <2>4 DEF ReplicasInv, Kept
<1>3. CASE CreateDeleteSource
  <2>1. UNCHANGED <<mOrig, sub, repl, orig, replicas>> /\ pc = "create.deleteSource"
        /\ pc' = "idle" /\ podSrc' \in {podSrc, "none"}
    BY <1>3 DEF CreateDeleteSource, DeleteSource
  <2> QED BY <1>a, <1>b, <2>1 DEF ReplicasInv, Kept
<1>4. CASE CreateScaleUp
  <2>1. UNCHANGED <<mOrig, sub, repl, orig, podSrc>> /\ pc = "create.scaleUp"
        /\ pc' = "create.record"
    BY <1>4 DEF CreateScaleUp
  <2>2. podSrc \in {"pending", "running"} /\ replicas = 0 /\ (orig = Replicas \/ Charged(1))
    BY <2>1 DEF IdentityInv, ReplicasInv
  <2>3. CASE Fault("api") /\ UNCHANGED replicas
    <3>1. Charged(1)' /\ (Charged(1) => Charged(2)')
      BY <2>3, ChargeApi
    <3> QED BY <1>a, <2>1, <2>2, <2>3, <3>1 DEF ReplicasInv, Settled
  <2>4. CASE replicas' = IF orig = 0 THEN 1 ELSE orig
    <3>1. CASE orig = Replicas
      <4>1. replicas' = Replicas
        BY <2>4, <3>1, SwapAssumption
      <4> QED BY <1>a, <2>1, <2>2, <4>1 DEF ReplicasInv, Settled
    <3>2. CASE orig = 0
      <4>1. replicas' = 1 /\ Charged(1)'
        BY <1>b, <2>2, <2>4, <3>2, SwapAssumption
      <4>2. Replicas = 1 \/ Replicas > 1
        BY SwapAssumption
      <4>3. Settled'
        BY <4>1, <4>2 DEF Settled
      <4> QED BY <1>a, <2>1, <2>2, <4>3 DEF ReplicasInv
    <3> QED BY <3>1, <3>2 DEF ReplicasInv
  <2>5. orig \in Nat /\ (orig # 0 => 0 < orig)
    BY DEF TypeOK, StatusTypeOK
  <2> QED BY <1>4, <2>2, <2>3, <2>4, <2>5 DEF CreateScaleUp, ScaleUpTo
<1>5. CASE CreateRecord \/ CreateRunning
  <2>1. UNCHANGED <<replicas, orig, podSrc, mOrig>> /\ pc \in {"create.record", "create.running"}
        /\ pc' \in {"idle", "dispatch"}
    BY <1>5 DEF CreateRecord, CreateRunning
  <2>2. sub' \in {sub, "PreFenceDrain", "MiniReplay"}
    BY <1>5 DEF CreateRecord, CreateRunning
  <2> QED BY <1>0, <1>a, <2>1, <2>2, ReplicasQuiet
<1> QED BY <1>1, <1>2, <1>3, <1>4, <1>5 DEF CreateReplacement

\* The later handlers change the count in the final scale-up only.
LEMMA ReplicasLate ==
  ASSUME TypeOK, ControlInv, IdentityInv, ReplicasInv, LateStep
  PROVE  ReplicasInv'
<1>0. [Next]_vars
  BY DEF Next, Controller, LateStep
<1>a. podSrc = "running" /\ podSrc' = "running" /\ pc \notin EarlyLabels
  BY LateStepShape DEF IdentityInv
<1>b. Settled \/ (orig = Replicas /\ Charged(1))
  BY <1>a DEF ReplicasInv, EarlyLabels
<1>1. CASE TsScaleUp \/ CutScaleUp
  <2>1. UNCHANGED <<orig, mOrig, sub, repl>> /\ sub # ""
        /\ pc' \in {"ts.status", "cut.status", "idle"}
    BY <1>1 DEF TsScaleUp, CutScaleUp, FinalScaleUp, statusVars, localVars, ControlInv,
       AtHome, SwitchLabels, CutLabels
  <2>2. /\ Charged(1) => Charged(1)'
        /\ Charged(2) => Charged(2)'
    BY <1>0, FaultsGrow, ChargeStays
  <2>3. orig \in {0, Replicas} /\ replicas \in 0 .. Replicas
    BY DEF ReplicasInv, TypeOK, ClusterTypeOK
  <2>4. Settled'
    <3>1. CASE Fault("api") /\ UNCHANGED replicas
      <4>1. Charged(1) => Charged(2)'
        BY <3>1, ChargeApi
      <4> QED BY <1>b, <2>2, <3>1, <4>1 DEF Settled
    <3>2. CASE orig > 0 /\ replicas' = IF replicas < orig THEN orig ELSE replicas
      <4>1. replicas' = Replicas
        BY <2>3, <3>2
      <4> QED BY <4>1 DEF Settled
    <3>3. CASE orig = 0 /\ UNCHANGED replicas
      <4>1. Settled
        BY <1>b, <3>3, SwapAssumption
      <4> QED BY <2>2, <3>3, <4>1 DEF Settled
    <3> QED
      BY <1>1, <3>1, <3>2, <3>3 DEF TsScaleUp, CutScaleUp, FinalScaleUp, ScaleUpTo
  <2> QED BY <1>a, <2>1, <2>3, <2>4 DEF ReplicasInv
<1>2. CASE TsStatus \/ CutStatus
  <2>1. UNCHANGED <<replicas, orig, mOrig, repl>> /\ sub' \in {sub, ""}
        /\ pc' \in {"idle", "fin.close"} /\ pc \in {"ts.status", "cut.status"}
    BY <1>2 DEF TsStatus, CutStatus, Patch, statusVars, podVars, localVars
  <2>2. Settled /\ repl /\ sub # ""
    BY <1>a, <2>1 DEF ReplicasInv, ControlInv, AtHome, SwitchLabels, CutLabels, LateSubs
  <2>3. repl' /\ podSrc' = podSrc
    BY <1>a, <2>1, <2>2
  <2>4. UNCHANGED <<sub, repl>> \/ (sub' = "" /\ repl' /\ Settled)
    BY <2>1, <2>2, <2>3
  <2> QED BY <1>0, <2>1, <2>3, <2>4, ReplicasQuiet
<1>3. CASE ~(TsScaleUp \/ CutScaleUp \/ TsStatus \/ CutStatus)
  <2>1. UNCHANGED <<replicas, orig, mOrig, repl, podSrc>>
    BY <1>a, <1>3 DEF LateStep, MiniReplay, MiniUnbind, MiniStart, MiniMark, MiniPoll,
       MiniStatus, TrafficSwitch, TsEnd, TsDeleteQueue, TsDeleteShadow, PreFenceDrain,
       PreDepth, PreStart, PreMark, PrePoll, PrePrimary, PreUnbind, PreToCutoff, PreToFence,
       ExchangeFence, FencePrimaryDepth, FenceSwapDepth, FenceBuffer, FenceUnbindPrimary,
       FenceUnbindSwap, FenceStatus, ParallelDrain, DrainPrimary, DrainSwap, DrainStatus,
       Rollback, RbBindPrimary, RbBindSwap, RbDepth, RbUnbindBuffer, RbDeleteBuffer,
       RbStatus, FenceCutover, CutDeleteShadow, CutBindPrimary, CutUnbindBuffer, CutStats,
       CutStart, CutMark, CutEnd, CutDeleteSwap, CutDeleteBuffer, DeleteShadow, Broker,
       Patch, PatchIgnored, statusVars, podVars, localVars
  <2>2. pc' \notin {"prep.deleteSource", "create.scaleDown", "create.deleteSource",
                   "create.scaleUp", "ts.status", "cut.status"}
    BY <1>3 DEF LateStep, MiniReplay, MiniUnbind, MiniStart, MiniMark, MiniPoll,
       MiniStatus, TrafficSwitch, TsEnd, TsDeleteQueue, TsDeleteShadow, PreFenceDrain,
       PreDepth, PreStart, PreMark, PrePoll, PrePrimary, Decisions, PreUnbind, PreToCutoff,
       PreToFence, ExchangeFence, FencePrimaryDepth, FenceSwapDepth, FenceBuffer,
       FenceUnbindPrimary, FenceUnbindSwap, FenceStatus, ParallelDrain, DrainPrimary,
       DrainSwap, DrainStatus, Rollback, RbBindPrimary, RbBindSwap, RbDepth,
       RbUnbindBuffer, RbDeleteBuffer, RbStatus, FenceCutover, CutDeleteShadow,
       CutBindPrimary, CutUnbindBuffer, CutStats, CutStart, CutMark, CutEnd, CutDeleteSwap,
       CutDeleteBuffer, DeleteShadow, Broker, Patch, PatchIgnored
  <2>3. sub' \in {sub, "TrafficSwitch", "MiniReplay", "ExchangeFence", "ParallelDrain",
                 "FenceCutover"}
    BY <1>3 DEF LateStep, MiniReplay, MiniUnbind, MiniStart, MiniMark, MiniPoll,
       MiniStatus, TrafficSwitch, TsEnd, TsDeleteQueue, TsDeleteShadow, PreFenceDrain,
       PreDepth, PreStart, PreMark, PrePoll, PrePrimary, PreUnbind, PreToCutoff, PreToFence,
       ExchangeFence, FencePrimaryDepth, FenceSwapDepth, FenceBuffer, FenceUnbindPrimary,
       FenceUnbindSwap, FenceStatus, ParallelDrain, DrainPrimary, DrainSwap, DrainStatus,
       Rollback, RbBindPrimary, RbBindSwap, RbDepth, RbUnbindBuffer, RbDeleteBuffer,
       RbStatus, FenceCutover, CutDeleteShadow, CutBindPrimary, CutUnbindBuffer, CutStats,
       CutStart, CutMark, CutEnd, CutDeleteSwap, CutDeleteBuffer, DeleteShadow, Broker,
       Patch, PatchIgnored, statusVars
  <2>4. pc \notin {"prep.deleteSource", "prep.status", "create.scaleUp"}
    BY <1>a DEF EarlyLabels
  <2> QED BY <1>0, <2>1, <2>2, <2>3, <2>4, ReplicasQuiet
<1> QED BY <1>1, <1>2, <1>3

\* A restart forgets the count in memory and is charged for it.
LEMMA ReplicasEnvironment ==
  ASSUME TypeOK, ReplicasInv,
         \/ Crash \/ OtherMigration \/ Tick \/ Cluster \/ Producer \/ Done
         \/ \E p \in Procs : Consumer(p)
         \/ UNCHANGED vars
  PROVE  ReplicasInv'
<1>0. [Next]_vars
  BY DEF Next
<1> USE DEF statusVars, podVars, localVars
<1>1. CASE Crash
  <2>1. UNCHANGED <<replicas, orig, podSrc, sub, repl>> /\ mOrig' = 0 /\ pc' = "idle"
    BY <1>1 DEF Crash
  <2>2. Charged(1)' /\ (Charged(1) => Charged(2)')
    BY <1>1, ChargeApi DEF Crash
  <2> QED BY <1>0, <2>1, <2>2, ReplicasQuiet
<1>2. CASE OtherMigration \/ Tick \/ Producer \/ Done \/ (\E p \in Procs : Consumer(p))
           \/ UNCHANGED vars
  <2>1. UNCHANGED <<replicas, orig, podSrc, sub, repl, mOrig, pc>>
    BY <1>2 DEF OtherMigration, Tick, Producer, Consumer, Done, vars
  <2> QED BY <1>0, <2>1, ReplicasQuiet
<1>3. CASE StsScaleDown \/ KubeletStart
  <2>1. UNCHANGED <<replicas, orig, sub, repl, mOrig, pc>>
        /\ \/ podSrc = "source" /\ podSrc' = "none"
           \/ podSrc = "pending" /\ podSrc' = "running"
    BY <1>3 DEF StsScaleDown, KubeletStart
  <2>2. /\ Charged(1) => Charged(1)'
        /\ Charged(2) => Charged(2)'
    BY <1>0, <1>3, FaultsGrow, ChargeStays
  <2> QED BY <2>1, <2>2 DEF ReplicasInv, Kept, Settled
<1>4. CASE KubeletKill \/ JobEnds
  <2>1. UNCHANGED <<replicas, orig, podSrc, sub, repl, mOrig, pc>>
    BY <1>4 DEF KubeletKill, JobEnds
  <2> QED BY <1>0, <2>1, ReplicasQuiet
<1> QED BY <1>1, <1>2, <1>3, <1>4 DEF Cluster

\* ReplicasRestored holds in every reachable state when API calls are reliable, and
\* for a StatefulSet of one replica also when one of them fails or the controller
\* restarts once, at any point.  Two such faults, or one with more replicas, lose the
\* count: the retries keep no other copy of it.
THEOREM ReplicasAlwaysRestored ==
  ASSUME ApiReliable \/ MaxFaults = 0 \/ (Replicas = 1 /\ MaxFaults = 1)
  PROVE  Spec => []ReplicasRestored
<1>1. Init => ReplicasInv
  BY DEF Init, ReplicasInv, Settled, Kept
<1>2. TypeOK /\ ControlInv /\ IdentityInv /\ ReplicasInv /\ [Next]_vars => ReplicasInv'
  BY ReplicasFinalize, ReplicasCheckpoint, ReplicasCreate, ReplicasLate,
     ReplicasEnvironment DEF Next, Controller, LateStep
<1>3. TypeOK /\ ControlInv /\ ReplicasInv => ReplicasRestored
  <2>1. ASSUME TypeOK, ControlInv, ReplicasInv, phase = "Completed" PROVE replicas = Replicas
    <3>1. Settled
      BY <2>1 DEF ControlInv, ReplicasInv
    <3>2. faults \in 0 .. MaxFaults
      BY <2>1 DEF TypeOK, MessagingTypeOK
    <3> QED BY <3>1, <3>2 DEF Settled, Charged
  <2> QED BY <2>1 DEF ReplicasRestored
<1> QED BY <1>1, <1>2, <1>3, TypeCorrect, ControlAlways, IdentityAlways, PTL DEF Spec
==============================================================================
