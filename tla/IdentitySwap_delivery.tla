------------------------ MODULE IdentitySwap_delivery ------------------------
(***************************************************************************)
(* What the identity swap promises about messages and about the            *)
(* replacement while the broker connection, the API server and the         *)
(* controller are up and no other migration uses the broker client.        *)
(***************************************************************************)
EXTENDS IdentitySwap_proofs

\* No call fails, nothing restarts, and the client is the migration's own.  The
\* transfer Job may fail.
Calm == FaultKinds \subseteq {"job"} /\ MaxOther = 0

-----------------------------------------------------------------------------
(***************************************************************************)
(* The channel and the queues.  No call meets a missing queue, so the      *)
(* channel stays open until the swap is over.                              *)
(***************************************************************************)
FreshLabels == {"idle", "fin.endReplay", "fin.deleteQueue", "prep.connect",
                "prep.createQueue"}
Over == sub = "" /\ repl

\* The places where the fence buffer is declared.
BufferNeeded ==
  \/ pc \in {"fence.unbindPrimary", "fence.unbindSwap", "fence.status"}
  \/ sub = "ParallelDrain" /\ pc # "rb.status"
  \/ sub = "FenceCutover" /\ pc \notin {"cut.scaleUp", "cut.status"}

CalmInv ==
  /\ swapFrom = -1 <=> (sub = "" /\ ~repl /\ pc \in FreshLabels)
  /\ Over => pc \in {"fin.close", "fin.complete"} \/ phase = "Completed"
  /\ Over \/ (tgt = "shadow" /\ chan = "open")
  /\ "primary" \in exists
  /\ BufferNeeded => "buffer" \in exists
  /\ "Fence" \in timers => sub = "ParallelDrain"

\* handleFinalizing and handleSwapPrepare.
LEMMA CalmFinalize ==
  ASSUME Calm, TypeOK, ControlInv, CalmInv, Finalize \/ Prepare
  PROVE  CalmInv'
<1> USE DEF Calm, Broker, Patch, statusVars, histVars, trafficVars, mqVars, mqRest,
            topoVars, clientVars, Fault, Succeeds, Fails
<1>1. CASE Reconcile \/ Dispatch
  <2>1. UNCHANGED <<swapFrom, sub, repl, phase, tgt, chan, exists, timers>>
        /\ pc' \in {"fin.endReplay", Start(sub)} /\ (pc' = "fin.endReplay" => sub = "")
    BY <1>1, StartControl
    DEF Reconcile, Dispatch, AtHome, FirstLabels
  <2>2. pc \in {"idle", "dispatch"} /\ (pc = "idle" => phase = "Finalizing")
    BY <1>1 DEF Reconcile, Dispatch
  <2>3. ~Over
    BY <2>2 DEF CalmInv, ControlInv, Over
  <2>4. BufferNeeded' => BufferNeeded
    <3>1. Start(sub) \notin {"fence.unbindPrimary", "fence.unbindSwap"}
      BY DEF Start
    <3>2. Start(sub) # "fence.status"
      BY StartIs DEF CalmInv, ControlInv, SubPhases
    <3> QED BY <2>1, <2>2, <3>1, <3>2 DEF BufferNeeded
  <2>5. (sub = "" /\ ~repl) => pc = "idle" /\ pc' \in FreshLabels
    BY <2>1, <2>2, StartIs DEF FreshLabels, ControlInv
  <2> QED BY <2>1, <2>3, <2>4, <2>5 DEF CalmInv, Over, FreshLabels
<1>2. CASE FinEndReplay \/ FinDeleteQueue
  <2>1. sub = "" /\ ~Over
    BY <1>2 DEF FinEndReplay, FinDeleteQueue, CalmInv, ControlInv, AtHome, FirstLabels, Over
  <2>2. UNCHANGED <<swapFrom, sub, repl, phase, tgt, timers>>
        /\ pc' \in {"fin.deleteQueue", Start(sub)}
    BY <1>2 DEF FinEndReplay, FinDeleteQueue
  <2>3. chan' = chan /\ ("primary" \in exists => "primary" \in exists')
    BY <1>2, <2>1 DEF FinEndReplay, FinDeleteQueue, SendControlMessage,
       SendControlMessageErr, Post, DeleteSecondaryQueue, DeleteSecondaryQueueErr, Delete,
       CalmInv
  <2>4. pc' \in FreshLabels
    BY <2>1, <2>2, StartIs DEF FreshLabels, Over
  <2> QED BY <1>2, <2>1, <2>2, <2>3, <2>4 DEF CalmInv, BufferNeeded, Over, FreshLabels,
          FinEndReplay, FinDeleteQueue
<1>3. CASE FinClose \/ FinComplete
  BY <1>3 DEF FinClose, Close, FinComplete, CalmInv, ControlInv, BufferNeeded, Over, FreshLabels
<1>4. CASE Prepare
  <2>1. sub = "" /\ ~repl /\ chan = "open"
    BY <1>4 DEF Prepare, PrepConnect, PrepCreateQueue, PrepScaleDown, PrepDeleteSource,
       DeleteSource, PrepStatus, CalmInv, ControlInv, AtHome, FirstLabels, PrepLabels, Over
  <2>2. CASE PrepConnect
    BY <2>1, <2>2 DEF PrepConnect, Connect, ConnectErr, CalmInv, BufferNeeded, Over,
       FreshLabels
  <2>3. CASE PrepCreateQueue
    <3>1. swapFrom = -1
      BY <2>1, <2>3 DEF PrepCreateQueue, CalmInv, FreshLabels
    <3>2. swapFrom' = published /\ pc' = "prep.scaleDown"
          /\ UNCHANGED <<sub, repl, phase, tgt, timers, chan>>
          /\ ("primary" \in exists => "primary" \in exists')
      BY <2>1, <2>3, <3>1 DEF PrepCreateQueue, CreateSecondaryQueue,
         CreateSecondaryQueueErr, CreateSecondary
    <3>3. published # -1
      BY DEF TypeOK, MessagingTypeOK
    <3> QED BY <2>1, <3>2, <3>3 DEF CalmInv, BufferNeeded, Over, FreshLabels
  <2>4. CASE PrepScaleDown \/ PrepDeleteSource \/ PrepStatus
    <3>1. UNCHANGED <<swapFrom, repl, phase, tgt, timers, chan, exists>>
      BY <2>4 DEF PrepScaleDown, PrepDeleteSource, DeleteSource, Stop, PrepStatus
    <3>2. /\ pc \in {"prep.scaleDown", "prep.deleteSource", "prep.status"}
          /\ \/ sub' = sub /\ pc' \in {"prep.deleteSource", "prep.status"}
             \/ sub' = "ReCheckpoint" /\ pc' = "dispatch"
      BY <2>4 DEF PrepScaleDown, PrepDeleteSource, DeleteSource, PrepStatus
    <3> QED BY <2>1, <3>1, <3>2 DEF CalmInv, BufferNeeded, Over, FreshLabels
  <2> QED BY <1>4, <2>2, <2>3, <2>4 DEF Prepare
<1> QED BY <1>1, <1>2, <1>3, <1>4 DEF Finalize

\* The handlers from the re-checkpoint to the choice of the path.
LEMMA CalmReplay ==
  ASSUME Calm, TypeOK, ControlInv, QueueInv, CalmInv,
         ReCheckpoint \/ SwapTransfer \/ CreateReplacement \/ MiniReplay \/ PreFenceDrain
  PROVE  CalmInv'
<1> USE DEF Calm, Broker, Patch, PatchIgnored, statusVars, histVars, trafficVars, mqVars,
            mqRest, topoVars, clientVars, Fault, Succeeds, Fails
<1>1. sub \in ReplaySubs \ {"ExchangeFence", "ParallelDrain"} /\ chan = "open"
      /\ "replay" \in exists
  BY DEF ReCheckpoint, CkptCall, CkptStatus, CkptFallback, SwapTransfer, XferLoad,
     XferStatus, CreateReplacement, CreateGet, CreateScaleDown, CreateDeleteSource,
     DeleteSource, CreateScaleUp, CreateRecord, CreateRunning, MiniReplay, MiniUnbind,
     MiniStart, MiniMark, MiniPoll, MiniStatus, PreFenceDrain, PreDepth, PreStart, PreMark,
     PrePoll, PrePrimary, PreUnbind, PreToCutoff, PreToFence, ControlInv, AtHome,
     CkptLabels, XferLabels, CreateLabels, MiniLabels, PreLabels, QueueInv,
     SwapQueueAlive, ReplaySubs, CalmInv, Over
<1>2. UNCHANGED <<swapFrom, phase, tgt, exists>> /\ ("Fence" \in timers' => "Fence" \in timers)
  BY DEF ReCheckpoint, CkptCall, CkptStatus, CkptFallback, SwapTransfer, XferLoad,
     XferStatus, CreateReplacement, CreateGet, CreateScaleDown, CreateDeleteSource,
     DeleteSource, Stop, CreateScaleUp, CreateRecord, CreateRunning, MiniReplay,
     MiniUnbind, UnbindQueue, UnbindQueueErr, Unbind, MiniStart, SendControlMessage,
     SendControlMessageErr, Post, MiniMark, StartTimer, MiniPoll, Inspect, InspectErr,
     NotFound, MiniStatus, ClearTimers, PreFenceDrain, PreDepth, PreStart, PreMark,
     PrePoll, PrePrimary, PreUnbind, PreToCutoff, PreToFence
<1>3. chan' = "open"
  BY <1>1 DEF ReCheckpoint, CkptCall, CkptStatus, CkptFallback, SwapTransfer, XferLoad,
     XferStatus, CreateReplacement, CreateGet, CreateScaleDown, CreateDeleteSource,
     DeleteSource, Stop, CreateScaleUp, CreateRecord, CreateRunning, MiniReplay,
     MiniUnbind, UnbindQueue, UnbindQueueErr, MiniStart, SendControlMessage,
     SendControlMessageErr, MiniMark, MiniPoll, Inspect, InspectErr,
     NotFound, MiniStatus, PreFenceDrain, PreDepth, PreStart, PreMark,
     PrePoll, PrePrimary, PreUnbind, PreToCutoff, PreToFence, CalmInv
<1>4. sub' \in (ReplaySubs \ {"ParallelDrain"}) \cup {"TrafficSwitch"}
  BY <1>1 DEF ReCheckpoint, CkptCall, CkptStatus, CkptFallback, SwapTransfer, XferLoad,
     XferStatus, CreateReplacement, CreateGet, CreateScaleDown, CreateDeleteSource,
     DeleteSource, CreateScaleUp, CreateRecord, CreateRunning, MiniReplay, MiniUnbind,
     MiniStart, MiniMark, MiniPoll, MiniStatus, PreFenceDrain, PreDepth, PreStart, PreMark,
     PrePoll, PrePrimary, PreUnbind, PreToCutoff, PreToFence, ReplaySubs
<1>5. pc' \notin {"fence.unbindPrimary", "fence.unbindSwap", "fence.status"}
  BY DEF ReCheckpoint, CkptCall, CkptStatus, CkptFallback, SwapTransfer, XferLoad,
     XferStatus, CreateReplacement, CreateGet, CreateScaleDown, CreateDeleteSource,
     DeleteSource, CreateScaleUp, CreateRecord, CreateRunning, MiniReplay, MiniUnbind,
     MiniStart, MiniMark, MiniPoll, MiniStatus, PreFenceDrain, PreDepth, PreStart, PreMark,
     PrePoll, PrePrimary, Decisions, PreUnbind, PreToCutoff, PreToFence
<1> QED BY <1>1, <1>2, <1>3, <1>4, <1>5 DEF CalmInv, Over, BufferNeeded, ReplaySubs

\* The fence, the drain and the rollback.
LEMMA CalmFence ==
  ASSUME Calm, TypeOK, ControlInv, QueueInv, CalmInv,
         ExchangeFence \/ ParallelDrain \/ Rollback
  PROVE  CalmInv'
<1> USE DEF Calm, Broker, Patch, PatchIgnored, statusVars, histVars, trafficVars, mqVars,
            mqRest, topoVars, clientVars, Fault, Succeeds, Fails
<1>1. sub \in {"ExchangeFence", "ParallelDrain"} /\ chan = "open" /\ "replay" \in exists
      /\ "primary" \in exists
  BY DEF ExchangeFence, FencePrimaryDepth, FenceSwapDepth, FenceBuffer, FenceUnbindPrimary,
     FenceUnbindSwap, FenceStatus, ParallelDrain, DrainPrimary, DrainSwap, DrainStatus,
     Rollback, RbBindPrimary, RbBindSwap, RbDepth, RbUnbindBuffer, RbDeleteBuffer, RbStatus,
     ControlInv, AtHome, FenceLabels, DrainLabels, RbLabels, QueueInv, SwapQueueAlive,
     ReplaySubs, CalmInv, Over
<1> USE <1>1 DEF CalmInv, Over, BufferNeeded, FreshLabels, ControlInv, AtHome
<1>2. CASE FencePrimaryDepth \/ FenceSwapDepth
  BY <1>2 DEF FencePrimaryDepth, FenceSwapDepth, Inspect, InspectErr, NotFound, FenceLabels
<1>3. CASE FenceBuffer
  BY <1>3 DEF FenceBuffer, DeclareAndBindQueue, DeclareAndBindQueueErr, DeclareBind,
     FenceLabels
<1>4. CASE FenceUnbindPrimary \/ FenceUnbindSwap
  BY <1>4 DEF FenceUnbindPrimary, FenceUnbindSwap, UnbindQueue, UnbindQueueErr, Unbind,
     FenceLabels
<1>5. CASE FenceStatus
  BY <1>5 DEF FenceStatus
<1>6. CASE DrainPrimary \/ DrainSwap
  BY <1>6 DEF DrainPrimary, DrainSwap, Inspect, InspectErr, NotFound, DrainLabels
<1>7. CASE DrainStatus
  BY <1>7 DEF DrainStatus, ClearTimers, DrainLabels
<1>8. CASE RbBindPrimary \/ RbBindSwap
  BY <1>8 DEF RbBindPrimary, RbBindSwap, BindQueue, BindQueueErr, Bind, NotFound,
     DrainLabels, RbLabels
<1>9. CASE RbDepth \/ RbUnbindBuffer
  BY <1>9 DEF RbDepth, Inspect, InspectErr, NotFound, RbUnbindBuffer, UnbindQueue,
     UnbindQueueErr, Unbind, DrainLabels, RbLabels
<1>10. CASE RbDeleteBuffer
  BY <1>10 DEF RbDeleteBuffer, DeleteQueue, DeleteQueueErr, Delete, DrainLabels, RbLabels
<1>11. CASE RbStatus
  BY <1>11 DEF RbStatus
<1> QED BY <1>2, <1>3, <1>4, <1>5, <1>6, <1>7, <1>8, <1>9, <1>10, <1>11
        DEF ExchangeFence, ParallelDrain, Rollback

\* The switch and the cutover.
LEMMA CalmSwitch ==
  ASSUME Calm, TypeOK, ControlInv, CalmInv, TrafficSwitch \/ FenceCutover
  PROVE  CalmInv'
<1> USE DEF Calm, Broker, Patch, PatchIgnored, statusVars, histVars, trafficVars, mqVars,
            mqRest, topoVars, clientVars, Fault, Succeeds, Fails
<1>1. CASE TrafficSwitch
  <2>1. sub = "TrafficSwitch" /\ chan = "open" /\ repl
    BY <1>1 DEF TrafficSwitch, TsEnd, TsDeleteQueue, TsDeleteShadow, DeleteShadow,
       TsScaleUp, FinalScaleUp, TsStatus, ControlInv, AtHome, SwitchLabels, CalmInv, Over,
       LateSubs
  <2>2. CASE TsStatus
    BY <2>1, <2>2 DEF TsStatus, CalmInv, Over, BufferNeeded
  <2>3. CASE TsEnd \/ TsDeleteQueue \/ TsDeleteShadow \/ TsScaleUp
    <3>1. UNCHANGED <<swapFrom, sub, repl, phase, tgt, timers>>
          /\ pc' \in {"ts.deleteQueue", "ts.deleteShadow", "ts.scaleUp", "ts.status", "idle"}
      BY <2>3 DEF TsEnd, TsDeleteQueue, TsDeleteShadow, DeleteShadow, TsScaleUp, FinalScaleUp
    <3>2. chan' = "open" /\ ("primary" \in exists => "primary" \in exists')
      BY <2>1, <2>3 DEF TsEnd, TsDeleteQueue, TsDeleteShadow, DeleteShadow, Stop,
         TsScaleUp, FinalScaleUp, SendControlMessage, SendControlMessageErr, Post,
         DeleteSecondaryQueue, DeleteSecondaryQueueErr, Delete
    <3> QED BY <2>1, <3>1, <3>2 DEF CalmInv, Over, BufferNeeded
  <2> QED BY <1>1, <2>2, <2>3 DEF TrafficSwitch
<1>2. CASE FenceCutover
  <2>1. sub = "FenceCutover" /\ chan = "open" /\ repl /\ "primary" \in exists
        /\ pc \in CutLabels
    BY <1>2 DEF FenceCutover, CutDeleteShadow, DeleteShadow, CutBindPrimary,
       CutUnbindBuffer, CutStats, CutStart, CutMark, CutEnd, CutDeleteSwap,
       CutDeleteBuffer, CutScaleUp, FinalScaleUp, CutStatus, ControlInv, AtHome, CutLabels,
       CalmInv, Over, LateSubs
  <2> USE <2>1 DEF CalmInv, Over, BufferNeeded
  <2>2. CASE CutDeleteShadow
    BY <2>2 DEF CutDeleteShadow, DeleteShadow, Stop
  <2>3. CASE CutBindPrimary \/ CutUnbindBuffer
    BY <2>3 DEF CutBindPrimary, BindQueue, BindQueueErr, Bind, NotFound, CutUnbindBuffer,
       UnbindQueue, UnbindQueueErr, Unbind
  <2>4. CASE CutStats
    BY <2>4 DEF CutStats, Inspect, InspectErr, NotFound
  <2>5. CASE CutStart \/ CutEnd
    BY <2>5 DEF CutStart, CutEnd, SendControlMessage, SendControlMessageErr, Post
  <2>6. CASE CutMark
    BY <2>6 DEF CutMark, StartTimer
  <2>7. CASE CutDeleteSwap \/ CutDeleteBuffer
    BY <2>7 DEF CutDeleteSwap, CutDeleteBuffer, DeleteSecondaryQueue,
       DeleteSecondaryQueueErr, DeleteQueue, DeleteQueueErr, Delete
  <2>8. CASE CutScaleUp \/ CutStatus
    BY <2>8 DEF CutScaleUp, FinalScaleUp, ClearTimers, CutStatus
  <2> QED BY <1>2, <2>2, <2>3, <2>4, <2>5, <2>6, <2>7, <2>8 DEF FenceCutover
<1> QED BY <1>1, <1>2

\* The environment declares queues and never removes one.
LEMMA CalmEnvironment ==
  ASSUME Calm, TypeOK, CalmInv,
         \/ Crash \/ OtherMigration \/ Tick \/ Cluster \/ Producer \/ Done
         \/ \E p \in Procs : Consumer(p)
         \/ UNCHANGED vars
  PROVE  CalmInv'
<1>1. ~Crash /\ ~OtherMigration
  BY DEF Crash, OtherMigration, Fault, Calm, TypeOK, ControllerTypeOK
<1>2. UNCHANGED <<pc, sub, repl, phase, tgt, timers, swapFrom>>
  BY <1>1 DEF Tick, Cluster, StsScaleDown, KubeletKill, KubeletStart,
     JobEnds, Producer, Consumer, Done, vars, statusVars, histVars
<1>3. chan' = chan /\ exists \subseteq exists'
  <2> USE DEF mqVars, mqRest
  <2>1. CASE Tick \/ Done \/ UNCHANGED vars
    BY <2>1 DEF Tick, Done, vars
  <2>2. CASE Cluster
    BY <2>2 DEF Cluster, StsScaleDown, Stop, KubeletKill, KubeletStart, Restore, JobEnds
  <2>3. CASE Producer
    BY <2>3 DEF Producer, Publish
  <2>4. ASSUME NEW p \in Procs, Consumer(p) PROVE chan' = chan /\ exists \subseteq exists'
    BY <2>4 DEF Consumer, Deliver, Process, ReadControl
  <2> QED BY <1>1, <2>1, <2>2, <2>3, <2>4
<1> QED BY <1>2, <1>3 DEF CalmInv, Over, BufferNeeded

\* In a calm run the channel is open and every queue is there when it is needed.
LEMMA CalmAlways ==
  ASSUME Calm
  PROVE  Spec => []CalmInv
<1>1. Init => CalmInv
  BY DEF Init, CalmInv, Over, BufferNeeded, FreshLabels
<1>2. TypeOK /\ ControlInv /\ QueueInv /\ CalmInv /\ [Next]_vars => CalmInv'
  BY CalmFinalize, CalmReplay, CalmFence, CalmSwitch, CalmEnvironment DEF Next, Controller
<1> QED BY <1>1, <1>2, TypeCorrect, ControlAlways, QueueAlways, PTL DEF Spec

-----------------------------------------------------------------------------
(***************************************************************************)
(* The processes.  The replacement inherits the source's control queue,    *)
(* and the shadow the name of a queue that is deleted and declared again   *)
(* for the swap: neither the source nor the shadow may end up on the       *)
(* replacement's queues.                                                   *)
(***************************************************************************)
ProcInv ==
  /\ on["source"] \in {"primary", "off"}
  /\ podSrc = "running" => on["source"] = "off" /\ on["replacement"] # "off"
  /\ podSrc # "running" => on["replacement"] = "off" /\ ctrl["src"] = <<>>
  /\ \A i \in 1 .. Len(ctrl["shadow"]) : ctrl["shadow"][i] = EndReplay
  /\ on["shadow"] \in {"primary", "replay", "none", "off"}
  /\ swapFrom # -1 \/ pc \in {"prep.connect", "prep.createQueue"} => on["shadow"] # "replay"

\* A step that touches neither the processes nor their control queues.
LEMMA ProcQuiet ==
  ASSUME ProcInv, UNCHANGED <<on, ctrl, podSrc, shadowPod>>,
         \/ swapFrom' = swapFrom \/ pc = "prep.createQueue",
         \/ pc' \notin {"prep.connect", "prep.createQueue"}
         \/ pc' = pc
         \/ pc = "prep.connect"
  PROVE  ProcInv'
BY DEF ProcInv

\* The calls of the controller that touch neither.
LEMMA ProcApi ==
  ASSUME Calm, TypeOK, ControlInv, CalmInv, ProcInv,
         \/ Reconcile \/ Dispatch \/ FinClose \/ FinComplete \/ PrepConnect
         \/ PrepCreateQueue \/ PrepScaleDown \/ PrepStatus \/ ReCheckpoint \/ SwapTransfer
         \/ CreateScaleDown \/ CreateScaleUp \/ CreateRecord \/ CreateRunning
  PROVE  ProcInv'
<1> USE DEF Calm, Broker, Patch, statusVars, histVars, podVars, trafficVars, mqVars, mqRest,
            topoVars, clientVars, Fault, Succeeds, Fails
<1>1. CASE Reconcile \/ Dispatch
  <2>1. UNCHANGED <<on, ctrl, podSrc, shadowPod, swapFrom>>
    BY <1>1 DEF Reconcile, Dispatch
  <2>2. pc' \notin {"prep.connect", "prep.createQueue"}
    <3>1. sub = "" => pc' = "fin.endReplay"
      BY <1>1 DEF Reconcile, Dispatch, ControlInv
    <3>2. sub # "" => pc' = Start(sub) /\ Start(sub) \notin {"prep.connect", "prep.createQueue"}
      BY <1>1, StartControl DEF Reconcile, Dispatch, AtHome, FirstLabels
    <3> QED BY <3>1, <3>2
  <2> QED BY <2>1, <2>2, ProcQuiet
<1>2. CASE FinClose \/ FinComplete \/ PrepConnect
  BY <1>2, ProcQuiet DEF FinClose, Close, FinComplete, PrepConnect, Connect, ConnectErr
<1>3. CASE PrepCreateQueue
  <2>1. chan = "open"
    BY <1>3 DEF PrepCreateQueue, CalmInv, Over, ControlInv, PrepLabels
  <2> QED BY <1>3, <2>1, ProcQuiet DEF PrepCreateQueue, CreateSecondaryQueue,
          CreateSecondaryQueueErr, CreateSecondary
<1>4. CASE PrepScaleDown \/ PrepStatus
  BY <1>4, ProcQuiet DEF PrepScaleDown, PrepStatus
<1>5. CASE ReCheckpoint \/ SwapTransfer
  BY <1>5, ProcQuiet DEF ReCheckpoint, CkptCall, CkptStatus, CkptFallback, SwapTransfer,
     XferLoad, XferStatus
<1>6. CASE CreateScaleDown \/ CreateScaleUp \/ CreateRecord \/ CreateRunning
  BY <1>6, ProcQuiet DEF CreateScaleDown, CreateScaleUp, CreateRecord, CreateRunning
<1> QED BY <1>1, <1>2, <1>3, <1>4, <1>5, <1>6

\* END_REPLAY goes to the shadow, and the deletion of the replay queue throws it off.
LEMMA ProcFinalize ==
  ASSUME Calm, TypeOK, ControlInv, CalmInv, ProcInv, FinEndReplay \/ FinDeleteQueue
  PROVE  ProcInv'
<1> USE DEF Calm, Broker, statusVars, histVars, podVars, trafficVars, mqVars, mqRest,
            topoVars, clientVars, Fault, Succeeds, Fails
<1>1. tgt = "shadow" /\ chan = "open" /\ sub = "" /\ ~repl
  BY DEF FinEndReplay, FinDeleteQueue, CalmInv, Over, ControlInv, AtHome, FirstLabels
<1>2. CASE FinEndReplay
  <2>1. ctrl' = [ctrl EXCEPT !["shadow"] = Append(@, EndReplay)]
        /\ UNCHANGED <<on, podSrc, shadowPod, swapFrom>> /\ pc' = "fin.deleteQueue"
    BY <1>1, <1>2 DEF FinEndReplay, SendControlMessage, SendControlMessageErr, Post
  <2>2. ctrl \in [Names -> Seq(ControlMsgs)]
    BY DEF TypeOK, MessagingTypeOK
  <2>3. ctrl'["src"] = ctrl["src"] /\ ctrl'["shadow"] = Append(ctrl["shadow"], EndReplay)
    BY <2>1, <2>2 DEF Names
  <2>4. \A i \in 1 .. Len(ctrl'["shadow"]) : ctrl'["shadow"][i] = EndReplay
    BY <2>2, <2>3 DEF ProcInv, Names
  <2> QED BY <2>1, <2>3, <2>4 DEF ProcInv
<1>3. CASE FinDeleteQueue
  <2>1. on' = [p \in Procs |-> IF on[p] = "replay" THEN "none" ELSE on[p]]
        /\ UNCHANGED <<ctrl, podSrc, shadowPod, swapFrom>>
    BY <1>1, <1>3 DEF FinDeleteQueue, DeleteSecondaryQueue, DeleteSecondaryQueueErr, Delete
  <2>2. /\ on'["source"] = on["source"]
        /\ on'["shadow"] = IF on["shadow"] = "replay" THEN "none" ELSE on["shadow"]
        /\ on'["replacement"] = "off" <=> on["replacement"] = "off"
    BY <2>1 DEF Procs, ProcInv
  <2> QED BY <2>1, <2>2 DEF ProcInv
<1> QED BY <1>2, <1>3

\* The deletion of the source and the creation of the replacement.
LEMMA ProcCreate ==
  ASSUME TypeOK, ProcInv, PrepDeleteSource \/ CreateDeleteSource \/ CreateGet
  PROVE  ProcInv'
<1> USE DEF statusVars, histVars, podVars, mqVars, mqRest
<1>2. CASE PrepDeleteSource \/ CreateDeleteSource
  <2>1. UNCHANGED <<ctrl, on, shadowPod, swapFrom>>
        /\ pc' \notin {"prep.connect", "prep.createQueue"}
    BY <1>2 DEF PrepDeleteSource, CreateDeleteSource, DeleteSource
  <2>2. podSrc' = podSrc \/ (podSrc = "source" /\ podSrc' = "none")
    BY <1>2 DEF PrepDeleteSource, CreateDeleteSource, DeleteSource
  <2> QED BY <2>1, <2>2 DEF ProcInv
<1>3. CASE CreateGet
  BY <1>3 DEF CreateGet, ProcInv
<1> QED BY <1>2, <1>3

\* The late handlers: control messages go to the replacement, the shadow is deleted,
\* and only the replacement may lose its queue.
LEMMA ProcLate ==
  ASSUME TypeOK, IdentityInv, ProcInv, LateStep
  PROVE  ProcInv'
<1>1. podSrc = "running" /\ podSrc' = "running"
  BY LateStepShape DEF IdentityInv
<1>2. swapFrom' = swapFrom /\ pc' \notin {"prep.connect", "prep.createQueue"}
  BY DEF LateStep, MiniReplay, MiniUnbind, MiniStart, MiniMark, MiniPoll, MiniStatus,
     TrafficSwitch, TsEnd, TsDeleteQueue, TsDeleteShadow, TsScaleUp, TsStatus,
     PreFenceDrain, PreDepth, PreStart, PreMark, PrePoll, PrePrimary, PreUnbind,
     PreToCutoff, PreToFence, ExchangeFence, FencePrimaryDepth, FenceSwapDepth,
     FenceBuffer, FenceUnbindPrimary, FenceUnbindSwap, FenceStatus,
     ParallelDrain, DrainPrimary, DrainSwap, DrainStatus,
     Rollback, RbBindPrimary, RbBindSwap, RbDepth, RbUnbindBuffer, RbDeleteBuffer, RbStatus,
     FenceCutover, CutDeleteShadow, CutBindPrimary, CutUnbindBuffer, CutStats, CutStart,
     CutMark, CutEnd, CutDeleteSwap, CutDeleteBuffer, CutScaleUp, CutStatus,
     Broker, Patch, PatchIgnored, DeleteShadow, FinalScaleUp, Decisions, histVars
<1>3. on \in [Procs -> Positions] /\ ctrl \in [Names -> Seq(ControlMsgs)]
  BY DEF TypeOK, MessagingTypeOK
<1> USE DEF Broker, Patch, PatchIgnored, podVars, mqVars, mqRest, topoVars, clientVars, Fault,
            Succeeds, Fails
<1>4. CASE MiniStart \/ PreStart \/ TsEnd \/ CutStart \/ CutEnd
  <2>1. UNCHANGED <<on, shadowPod>>
        /\ (ctrl' = ctrl \/ \E msg : ctrl' = [ctrl EXCEPT !["src"] = Append(@, msg)])
    BY <1>4 DEF MiniStart, PreStart, TsEnd, CutStart, CutEnd, SendControlMessage,
       SendControlMessageErr, Post
  <2>2. ctrl'["shadow"] = ctrl["shadow"]
    BY <1>3, <2>1 DEF Names
  <2> QED BY <1>1, <1>2, <2>1, <2>2 DEF ProcInv
<1>5. CASE TsDeleteQueue \/ CutDeleteSwap \/ RbDeleteBuffer \/ CutDeleteBuffer
  <2>1. UNCHANGED <<ctrl, shadowPod>>
        /\ \/ on' = on
           \/ \E q \in {"replay", "buffer"} :
                on' = [p \in Procs |-> IF on[p] = q THEN "none" ELSE on[p]]
    BY <1>5 DEF TsDeleteQueue, CutDeleteSwap, RbDeleteBuffer, CutDeleteBuffer,
       DeleteSecondaryQueue, DeleteSecondaryQueueErr, DeleteQueue, DeleteQueueErr, Delete,
       Unbind
  <2>2. /\ on'["source"] = on["source"]
        /\ on'["shadow"] \in {on["shadow"], "none"}
        /\ on["shadow"] = "off" => on'["shadow"] = "off"
        /\ on'["replacement"] = "off" <=> on["replacement"] = "off"
    BY <2>1 DEF Procs, ProcInv
  <2> QED BY <1>1, <1>2, <2>1, <2>2 DEF ProcInv
<1>6. CASE TsDeleteShadow \/ CutDeleteShadow
  <2>1. UNCHANGED <<ctrl, on>>
    BY <1>6 DEF TsDeleteShadow, CutDeleteShadow, DeleteShadow
  <2> QED BY <1>1, <1>2, <2>1 DEF ProcInv
<1>7. CASE /\ LateStep
           /\ ~(MiniStart \/ PreStart \/ TsEnd \/ CutStart \/ CutEnd)
           /\ ~(TsDeleteQueue \/ CutDeleteSwap \/ RbDeleteBuffer \/ CutDeleteBuffer)
           /\ ~(TsDeleteShadow \/ CutDeleteShadow)
  <2>1. UNCHANGED <<on, ctrl, shadowPod>>
    <3>1. CASE MiniReplay \/ TrafficSwitch \/ PreFenceDrain
      BY <1>7, <3>1 DEF MiniReplay, MiniUnbind, MiniMark, MiniPoll, MiniStatus,
         TrafficSwitch, TsScaleUp, TsStatus, PreFenceDrain, PreDepth, PreMark, PrePoll,
         PrePrimary, PreUnbind, PreToCutoff, PreToFence, UnbindQueue, UnbindQueueErr,
         Unbind, Inspect, InspectErr, NotFound, FinalScaleUp
    <3>2. CASE ExchangeFence \/ ParallelDrain
      BY <1>7, <3>2 DEF ExchangeFence, FencePrimaryDepth, FenceSwapDepth, FenceBuffer,
         FenceUnbindPrimary, FenceUnbindSwap, FenceStatus, ParallelDrain, DrainPrimary,
         DrainSwap, DrainStatus, UnbindQueue, UnbindQueueErr, Unbind, Inspect, InspectErr,
         NotFound, DeclareAndBindQueue, DeclareAndBindQueueErr, DeclareBind
    <3>3. CASE Rollback \/ FenceCutover
      BY <1>7, <3>3 DEF Rollback, RbBindPrimary, RbBindSwap, RbDepth, RbUnbindBuffer,
         RbStatus, FenceCutover, CutBindPrimary, CutUnbindBuffer, CutStats, CutMark,
         CutScaleUp, CutStatus, BindQueue, BindQueueErr, Bind, UnbindQueue,
         UnbindQueueErr, Unbind, Inspect, InspectErr, NotFound, FinalScaleUp
    <3> QED BY <1>7, <3>1, <3>2, <3>3 DEF LateStep
  <2> QED BY <1>1, <1>2, <2>1 DEF ProcInv
<1> QED BY <1>4, <1>5, <1>6, <1>7

\* The processes themselves and the cluster.
LEMMA ProcEnvironment ==
  ASSUME Calm, TypeOK, ProcInv,
         \/ Crash \/ OtherMigration \/ Tick \/ Cluster \/ Producer \/ Done
         \/ \E p \in Procs : Consumer(p)
         \/ UNCHANGED vars
  PROVE  ProcInv'
<1>1. ~Crash /\ ~OtherMigration
  BY DEF Crash, OtherMigration, Fault, Calm, TypeOK, ControllerTypeOK
<1>2. on \in [Procs -> Positions] /\ ctrl \in [Names -> Seq(ControlMsgs)]
  BY DEF TypeOK, MessagingTypeOK
<1> USE DEF podVars, mqVars, mqRest, statusVars, histVars
<1>3. CASE Tick \/ Producer \/ JobEnds \/ Done \/ UNCHANGED vars
  BY <1>3, ProcQuiet DEF Tick, Producer, Publish, JobEnds, Done, vars
<1>4. CASE StsScaleDown
  <2>1. UNCHANGED <<ctrl, shadowPod, swapFrom, pc>> /\ podSrc = "source" /\ podSrc' = "none"
        /\ (on' = on \/ on' = [on EXCEPT !["source"] = "off"])
    BY <1>4 DEF StsScaleDown, Stop
  <2> QED BY <1>2, <2>1 DEF ProcInv, Procs
<1>5. CASE KubeletKill
  <2>1. UNCHANGED <<ctrl, shadowPod, swapFrom, pc, podSrc>>
        /\ (on' = [on EXCEPT !["source"] = "off"] \/ on' = [on EXCEPT !["shadow"] = "off"])
    BY <1>5 DEF KubeletKill, Stop
  <2> QED BY <1>2, <2>1 DEF ProcInv, Procs
<1>6. CASE KubeletStart
  <2>1. /\ UNCHANGED <<ctrl, shadowPod, swapFrom, pc>>
        /\ podSrc = "pending" /\ podSrc' = "running" /\ on["source"] = "off"
        /\ \E q \in Queues \cup {"wait"} : on' = [on EXCEPT !["replacement"] = q]
    <3>1. RestoreImage.want \in Queues
      BY DEF RestoreImage, TypeOK, ClusterTypeOK, Images, Queues
    <3> QED BY <1>6, <3>1 DEF KubeletStart, Restore
  <2> QED BY <1>2, <2>1 DEF ProcInv, Procs, Queues
<1>7. ASSUME NEW p \in Procs, Consumer(p) PROVE ProcInv'
  <2>1. UNCHANGED <<podSrc, shadowPod, swapFrom, pc>>
    BY <1>7 DEF Consumer
  <2>2. CASE Deliver(p) \/ Process(p)
    BY <2>1, <2>2, ProcQuiet DEF Deliver, Process
  <2>3. CASE ReadControl(p)
    <3> DEFINE last == ctrl[PodName(p)][Len(ctrl[PodName(p)])].queue
    <3>1. on[p] # "off" /\ ctrl[PodName(p)] # <<>>
      BY <2>3 DEF ReadControl
    <3>5. ctrl' = [ctrl EXCEPT ![PodName(p)] = <<>>]
          /\ (on' = on \/ on' = [on EXCEPT ![p] = last])
      BY <2>3 DEF ReadControl
    <3> HIDE DEF last
    <3>2. p # "source"
      BY <3>1 DEF ProcInv, PodName
    <3>3. CASE p = "shadow"
      <4>1. PodName(p) = "shadow" /\ ctrl["shadow"] \in Seq(ControlMsgs)
        BY <1>2, <3>3 DEF PodName, Names
      <4>2. Len(ctrl["shadow"]) \in 1 .. Len(ctrl["shadow"])
        BY <3>1, <4>1
      <4>3. ctrl["shadow"][Len(ctrl["shadow"])].queue = "primary"
        BY <4>2 DEF ProcInv, EndReplay
      <4>6. last = "primary"
        BY <4>1, <4>3 DEF last
      <4>4. ctrl' = [ctrl EXCEPT !["shadow"] = <<>>]
            /\ (on' = on \/ on' = [on EXCEPT !["shadow"] = "primary"])
        BY <3>3, <3>5, <4>1, <4>6
      <4>5. ctrl'["shadow"] = <<>> /\ ctrl'["src"] = ctrl["src"]
        BY <1>2, <4>4 DEF Names
      <4> QED BY <1>2, <2>1, <3>1, <3>3, <4>4, <4>5 DEF ProcInv, Procs
    <3>4. CASE p = "replacement"
      <4>1. PodName(p) = "src" /\ ctrl["src"] \in Seq(ControlMsgs) /\ ctrl["src"] # <<>>
        BY <1>2, <3>1, <3>4 DEF PodName, Names
      <4>2. ctrl["src"][Len(ctrl["src"])] \in ControlMsgs
        BY <4>1
      <4>3. ctrl["src"][Len(ctrl["src"])].queue \in Queues
        BY <4>2 DEF ControlMsgs, EndReplay, StartReplay, Queues
      <4>6. last \in Queues
        BY <4>1, <4>3 DEF last
      <4>4. ctrl' = [ctrl EXCEPT !["src"] = <<>>]
            /\ (on' = on \/ \E q \in Queues : on' = [on EXCEPT !["replacement"] = q])
        BY <3>4, <3>5, <4>1, <4>6
      <4>5. ctrl'["src"] = <<>> /\ ctrl'["shadow"] = ctrl["shadow"]
        BY <1>2, <4>4 DEF Names
      <4> QED BY <1>2, <2>1, <3>1, <3>4, <4>4, <4>5 DEF ProcInv, Procs, Queues
    <3> QED BY <3>2, <3>3, <3>4 DEF Procs
  <2> QED BY <1>7, <2>2, <2>3 DEF Consumer
<1> QED BY <1>1, <1>3, <1>4, <1>5, <1>6, <1>7 DEF Cluster

\* The source never reads a message meant for the replacement, and the shadow never
\* consumes the swap queue or the fence buffer.
LEMMA ProcAlways ==
  ASSUME Calm
  PROVE  Spec => []ProcInv
<1>1. Init => ProcInv
  <2>1. ASSUME Init PROVE ProcInv
    <3>1. on["source"] = "primary" /\ on["shadow"] = "replay" /\ on["replacement"] = "off"
      BY <2>1 DEF Init, Procs
    <3>2. ctrl["src"] = <<>> /\ ctrl["shadow"] = <<>>
      BY <2>1 DEF Init, Names
    <3>3. swapFrom = -1 /\ shadowPod /\ podSrc = "source" /\ pc = "idle"
      BY <2>1 DEF Init
    <3> QED BY <3>1, <3>2, <3>3 DEF ProcInv
  <2> QED BY <2>1
<1>2. /\ TypeOK /\ ControlInv /\ IdentityInv /\ CalmInv /\ ProcInv
      /\ [Next]_vars
      => ProcInv'
  BY ProcApi, ProcFinalize, ProcCreate, ProcLate, ProcEnvironment
  DEF Next, Controller, LateStep, Finalize, Prepare, CreateReplacement
<1> QED BY <1>1, <1>2, CalmAlways, TypeCorrect, ControlAlways, IdentityAlways, PTL DEF Spec

-----------------------------------------------------------------------------
(***************************************************************************)
(* Delivery.  Where the swap may have given up a message, lossy says so:   *)
(* the Cutoff path and the rollback are never entered without it, and the  *)
(* handlers before the replacement runs never set it.                      *)
(***************************************************************************)
LossInv ==
  /\ sub \in {"MiniReplay", "TrafficSwitch"} => lossy
  /\ pc \in RbLabels \cup {"pre.unbind", "pre.toCutoff"} => lossy
  /\ sub \in {"ReCheckpoint", "SwapTransfer", "CreateReplacement"} => ~lossy
  /\ sub = "" /\ ~repl => ~lossy

\* No reconcile begins in the middle of a rollback.
LEMMA LossStart == Start(sub) \notin RbLabels \cup {"pre.unbind", "pre.toCutoff"}
BY DEF Start, RbLabels

\* The handlers keep the meaning of lossy.
LEMMA LossController ==
  ASSUME TypeOK, ControlInv, LossInv, Controller
  PROVE  LossInv'
<1>0. lossy \in BOOLEAN /\ repl \in BOOLEAN
  BY DEF TypeOK, StatusTypeOK, ControllerTypeOK
<1> USE <1>0 DEF Broker, Patch, PatchIgnored, statusVars, histVars, LossInv, RbLabels
<1>1. CASE Reconcile \/ Dispatch \/ FinDeleteQueue
  <2>1. UNCHANGED <<sub, repl, lossy>> /\ pc' \in {"idle", "fin.endReplay", Start(sub)}
    BY <1>1 DEF Reconcile, Dispatch, FinDeleteQueue
  <2> QED BY <2>1, LossStart
<1>2. CASE FinEndReplay \/ FinClose \/ FinComplete
  <2>1. UNCHANGED <<repl, lossy>> /\ pc' \in {"fin.deleteQueue", "fin.complete", "idle"}
        /\ (sub' = sub \/ (sub' = "" /\ pc = "fin.complete"))
    BY <1>2 DEF FinEndReplay, FinClose, FinComplete
  <2>2. sub' = sub \/ (sub' = "" /\ repl)
    BY <2>1 DEF ControlInv
  <2> QED BY <2>1, <2>2
<1>3. CASE Prepare
  <2>1. /\ UNCHANGED <<repl, lossy>>
        /\ pc \in PrepLabels /\ pc' \in PrepLabels \cup {"idle", "dispatch"}
        /\ (sub' = sub \/ sub' = "ReCheckpoint")
    BY <1>3 DEF Prepare, PrepConnect, PrepCreateQueue, PrepScaleDown, PrepDeleteSource,
       DeleteSource, PrepStatus, PrepLabels
  <2>2. sub = "" /\ ~repl
    BY <2>1 DEF ControlInv, PrepLabels, AtHome, FirstLabels
  <2> QED BY <2>1, <2>2 DEF PrepLabels
<1>4. CASE ReCheckpoint \/ SwapTransfer
  <2>1. UNCHANGED <<repl, lossy>> /\ pc \in CkptLabels \cup XferLabels
        /\ pc' \in CkptLabels \cup XferLabels \cup {"idle", "dispatch"}
        /\ sub' \in {sub, "SwapTransfer", "CreateReplacement"}
    BY <1>4 DEF ReCheckpoint, CkptCall, CkptStatus, CkptFallback, SwapTransfer, XferLoad,
       XferStatus, CkptLabels, XferLabels
  <2>2. sub \in {"ReCheckpoint", "SwapTransfer"}
    BY <2>1 DEF ControlInv, AtHome, CkptLabels, XferLabels
  <2> QED BY <2>1, <2>2 DEF CkptLabels, XferLabels
<1>5. CASE CreateReplacement
  <2>1. pc \in CreateLabels /\ pc' \in CreateLabels \cup {"idle", "dispatch"}
        /\ \/ UNCHANGED <<sub, lossy>>
           \/ /\ sub' = IF SwapMode = "ExchangeFence" THEN "PreFenceDrain" ELSE "MiniReplay"
              /\ lossy' = (SwapMode # "ExchangeFence")
    BY <1>5 DEF CreateReplacement, CreateGet, CreateScaleDown, CreateDeleteSource,
       DeleteSource, CreateScaleUp, CreateRecord, CreateRunning, CreateLabels
  <2>2. sub = "CreateReplacement"
    BY <2>1 DEF ControlInv, AtHome, CreateLabels
  <2>3. CASE UNCHANGED <<sub, lossy>>
    BY <2>1, <2>2, <2>3 DEF CreateLabels
  <2>4. CASE /\ sub' = IF SwapMode = "ExchangeFence" THEN "PreFenceDrain" ELSE "MiniReplay"
             /\ lossy' = (SwapMode # "ExchangeFence")
    BY <2>1, <2>4 DEF CreateLabels
  <2> QED BY <2>1, <2>3, <2>4
<1>6. CASE MiniReplay \/ TrafficSwitch
  BY <1>6 DEF MiniReplay, MiniUnbind, MiniStart, MiniMark, MiniPoll, MiniStatus,
     TrafficSwitch, TsEnd, TsDeleteQueue, TsDeleteShadow, DeleteShadow, TsScaleUp,
     FinalScaleUp, TsStatus, ControlInv, AtHome, MiniLabels, SwitchLabels, LateSubs
<1>7. CASE PreFenceDrain
  BY <1>7 DEF PreFenceDrain, PreDepth, PreStart, PreMark, PrePoll, PrePrimary, Decisions,
     PreUnbind, PreToCutoff, PreToFence, ControlInv, AtHome, PreLabels
<1>8. CASE ExchangeFence
  BY <1>8 DEF ExchangeFence, FencePrimaryDepth, FenceSwapDepth, FenceBuffer,
     FenceUnbindPrimary, FenceUnbindSwap, FenceStatus, ControlInv, AtHome, FenceLabels
<1>9. CASE ParallelDrain
  BY <1>9 DEF ParallelDrain, DrainPrimary, DrainSwap, DrainStatus, ControlInv, AtHome,
     DrainLabels
<1>10. CASE Rollback
  BY <1>10 DEF Rollback, RbBindPrimary, RbBindSwap, RbDepth, RbUnbindBuffer,
     RbDeleteBuffer, RbStatus, ControlInv, AtHome, DrainLabels
<1>11. CASE FenceCutover
  BY <1>11 DEF FenceCutover, CutDeleteShadow, DeleteShadow, CutBindPrimary,
     CutUnbindBuffer, CutStats, CutStart, CutMark, CutEnd, CutDeleteSwap, CutDeleteBuffer,
     CutScaleUp, FinalScaleUp, CutStatus, ControlInv, AtHome, CutLabels, LateSubs
<1> QED BY <1>1, <1>2, <1>3, <1>4, <1>5, <1>6, <1>7, <1>8, <1>9, <1>10, <1>11
        DEF Controller, Finalize

\* lossy means what it says, whatever fails.
LEMMA LossAlways == Spec => []LossInv
<1>1. Init => LossInv
  BY DEF Init, LossInv, RbLabels
<1>2. TypeOK /\ ControlInv /\ LossInv /\ [Next]_vars => LossInv'
  <2>1. ASSUME LossInv,
               \/ Crash \/ OtherMigration \/ Tick \/ Cluster \/ Producer \/ Done
               \/ \E p \in Procs : Consumer(p)
               \/ UNCHANGED vars
        PROVE  LossInv'
    <3>1. UNCHANGED <<sub, repl, lossy>> /\ pc' \in {pc, "idle"}
      BY <2>1 DEF Crash, OtherMigration, Tick, Cluster, StsScaleDown, KubeletKill,
         KubeletStart, JobEnds, Producer, Consumer, Done, vars, statusVars, histVars
    <3> QED BY <2>1, <3>1 DEF LossInv, RbLabels
  <2> QED BY <2>1, LossController DEF Next
<1> QED BY <1>1, <1>2, TypeCorrect, ControlAlways, PTL DEF Spec

-----------------------------------------------------------------------------
(***************************************************************************)
(* The feed.  Until the swap is over some queue of the replacement is      *)
(* bound to the exchange, and a queue is deleted only when it can no       *)
(* longer fill and holds nothing but what was put back into it: the swap   *)
(* queue is unbound and drained before the cutover, the buffer is unbound  *)
(* before its depth is read.                                               *)
(***************************************************************************)
FeedInv ==
  /\ swapFrom # -1 /\ ~lossy =>
       \/ "replay" \in bound
       \/ "buffer" \in bound
       \/ "primary" \in bound /\ ~shadowPod
  /\ swapFrom # -1 /\ podSrc # "running" => "replay" \in bound
  /\ sub \in {"ParallelDrain", "FenceCutover"} /\ ~lossy => "replay" \notin bound
  /\ (pc = "drain.status" \/ sub = "FenceCutover") /\ ~lossy
       => ready["replay"] \subseteq returned
  /\ pc \in AfterBind \cup {"cut.bindPrimary"} => ~shadowPod
  /\ pc \in {"cut.stats", "cut.end", "cut.deleteSwap", "cut.deleteBuffer"}
       => "buffer" \notin bound
  /\ pc \in {"cut.end", "cut.deleteSwap", "cut.deleteBuffer"} /\ ~lossy
       => ready["buffer"] \subseteq returned

\* The messages the replacement must get.
New == {m \in Msgs : m > swapFrom /\ m <= published}

\* The messages the replacement has, or will be given.
Held == applied["replacement"] \cup inflight["replacement"] \cup ready["replay"]
        \cup ready["buffer"] \cup InPrimary

\* What became of them.  A replacement that starts on the primary queue gives what it
\* took from it back to the shadow when START_REPLAY moves it, so until then the swap
\* queue and the buffer must hold everything; and no END_REPLAY may take it back to
\* the primary queue before the shadow pod is gone.
DeliverInv ==
  swapFrom # -1 /\ ~lossy =>
    /\ podSrc # "running" => New \subseteq ready["replay"]
    /\ podSrc = "running" => New \subseteq Held \cup returned \cup outlived
    /\ shadowPod /\ on["replacement"] = "primary"
         => New \subseteq ready["replay"] \cup ready["buffer"]
    /\ shadowPod => \A i \in 1 .. Len(ctrl["src"]) : ctrl["src"][i] # EndReplay

\* The labels that rely on what the cutover has done so far.
WatchedLabels == AfterBind \cup {"cut.bindPrimary", "drain.status"}

\* No reconcile begins at one of them.
LEMMA StartUnwatched == Start(sub) \notin WatchedLabels
BY DEF Start, AfterBind, WatchedLabels

\* Only processes put messages back or outlive their pod.
LEMMA ControllerKeeps ==
  ASSUME TypeOK, Controller
  PROVE  UNCHANGED <<returned, outlived>>
<1>1. returned' = returned
  <2>1. UNCHANGED trafficVars \/ UNCHANGED mqRest
    BY HandlerCalls, HandlerApi DEF ApiStep, Controller, Finalize, Prepare,
       CreateReplacement, MiniReplay, TrafficSwitch, PreFenceDrain, ExchangeFence,
       ParallelDrain, Rollback, FenceCutover
  <2> QED BY <2>1 DEF trafficVars, mqRest, consumerVars
<1>2. outlived' = outlived
  <2> USE DEF Broker, Patch, PatchIgnored, histVars
  <2>1. CASE Finalize \/ Prepare
    BY <2>1 DEF Finalize, Reconcile, Dispatch, FinEndReplay, FinDeleteQueue, FinClose,
       FinComplete, Prepare, PrepConnect, PrepCreateQueue, PrepScaleDown,
       PrepDeleteSource, DeleteSource, PrepStatus
  <2>2. CASE ReCheckpoint \/ SwapTransfer \/ CreateReplacement
    BY <2>2 DEF ReCheckpoint, CkptCall, CkptStatus, CkptFallback, SwapTransfer, XferLoad,
       XferStatus, CreateReplacement, CreateGet, CreateScaleDown, CreateDeleteSource,
       DeleteSource, CreateScaleUp, CreateRecord, CreateRunning
  <2>3. CASE MiniReplay \/ TrafficSwitch \/ PreFenceDrain
    BY <2>3 DEF MiniReplay, MiniUnbind, MiniStart, MiniMark, MiniPoll, MiniStatus,
       TrafficSwitch, TsEnd, TsDeleteQueue, TsDeleteShadow, DeleteShadow, TsScaleUp,
       FinalScaleUp, TsStatus, PreFenceDrain, PreDepth, PreStart, PreMark, PrePoll,
       PrePrimary, PreUnbind, PreToCutoff, PreToFence
  <2>4. CASE ExchangeFence \/ ParallelDrain \/ Rollback
    BY <2>4 DEF ExchangeFence, FencePrimaryDepth, FenceSwapDepth, FenceBuffer,
       FenceUnbindPrimary, FenceUnbindSwap, FenceStatus, ParallelDrain, DrainPrimary,
       DrainSwap, DrainStatus, Rollback, RbBindPrimary, RbBindSwap, RbDepth,
       RbUnbindBuffer, RbDeleteBuffer, RbStatus
  <2>5. CASE FenceCutover
    BY <2>5 DEF FenceCutover, CutDeleteShadow, DeleteShadow, CutBindPrimary,
       CutUnbindBuffer, CutStats, CutStart, CutMark, CutEnd, CutDeleteSwap,
       CutDeleteBuffer, CutScaleUp, FinalScaleUp, CutStatus
  <2> QED BY <2>1, <2>2, <2>3, <2>4, <2>5 DEF Controller
<1> QED BY <1>1, <1>2

\* A step that moves no message and changes no binding.
LEMMA FeedUnchanged ==
  ASSUME FeedInv,
         UNCHANGED <<swapFrom, bound, shadowPod, podSrc, ready, returned>>,
         lossy => lossy',
         sub' = sub \/ sub' \notin {"ParallelDrain", "FenceCutover"},
         pc' = pc \/ pc' \notin WatchedLabels
  PROVE  FeedInv'
BY DEF FeedInv, WatchedLabels, AfterBind

\* The depth of a queue is zero exactly when it is empty.
LEMMA DepthZero ==
  ASSUME TypeOK, NEW q \in Queues, Depth(q) = 0
  PROVE  ready[q] = {}
<1>1. ready[q] \in SUBSET Msgs
  BY DEF TypeOK, MessagingTypeOK
<1>2. IsFiniteSet(Msgs)
  BY FS_Interval, MessagingAssumption DEF Msgs
<1>3. IsFiniteSet(ready[q])
  BY <1>1, <1>2, FS_Subset
<1> QED BY <1>3, FS_EmptySet DEF Depth

\* All three calls of CreateSecondaryQueue leave the swap queue bound.
LEMMA CreateSecondaryBinds == CreateSecondary(3) => "replay" \in bound'
BY DEF CreateSecondary

\* handleFinalizing and the handlers up to the creation.
LEMMA FeedEarly ==
  ASSUME Calm, TypeOK, ControlInv, IdentityInv, CalmInv, LossInv, FeedInv,
         Finalize \/ Prepare \/ ReCheckpoint \/ SwapTransfer \/ CreateReplacement
  PROVE  FeedInv'
<1>0. returned' = returned
  BY ControllerKeeps DEF Controller
<1> USE <1>0 DEF Calm, Broker, Patch, statusVars, histVars, podVars, trafficVars, mqVars, mqRest,
            topoVars, clientVars, Fault, Succeeds, Fails
<1>1. CASE Reconcile \/ Dispatch
  <2>1. UNCHANGED <<swapFrom, bound, shadowPod, podSrc, ready, lossy, sub>>
        /\ pc' \in {"idle", "fin.endReplay", Start(sub)}
    BY <1>1 DEF Reconcile, Dispatch
  <2> QED BY <2>1, StartUnwatched, FeedUnchanged DEF WatchedLabels, AfterBind
<1>2. CASE FinEndReplay \/ FinClose \/ FinComplete
  <2>1. UNCHANGED <<swapFrom, bound, shadowPod, podSrc, ready, lossy>> /\ sub' \in {sub, ""}
        /\ pc' \in {"fin.deleteQueue", "fin.complete", "idle"}
    BY <1>2 DEF FinEndReplay, FinClose, FinComplete, SendControlMessage,
       SendControlMessageErr, Post, Close
  <2> QED BY <2>1, FeedUnchanged DEF WatchedLabels, AfterBind
<1>3. CASE FinDeleteQueue \/ PrepConnect
  <2>1. swapFrom = -1 /\ sub = ""
    BY <1>3 DEF FinDeleteQueue, PrepConnect, CalmInv, ControlInv, AtHome, FirstLabels,
       FreshLabels, PrepLabels, Over
  <2>2. swapFrom' = -1 /\ sub' = "" /\ pc' \in {"idle", "prep.createQueue", Start(sub)}
    BY <1>3, <2>1 DEF FinDeleteQueue, PrepConnect
  <2> QED BY <2>1, <2>2, StartUnwatched DEF FeedInv, WatchedLabels, AfterBind
<1>4. CASE PrepCreateQueue
  <2>1. chan = "open" /\ sub = ""
    BY <1>4 DEF PrepCreateQueue, CalmInv, ControlInv, AtHome, FirstLabels, PrepLabels, Over
  <2>2. CreateSecondary(3) /\ sub' = "" /\ pc' = "prep.scaleDown"
    BY <1>4, <2>1 DEF PrepCreateQueue, CreateSecondaryQueue, CreateSecondaryQueueErr
  <2>3. "replay" \in bound'
    BY <2>2, CreateSecondaryBinds
  <2> QED BY <2>2, <2>3 DEF FeedInv, WatchedLabels, AfterBind
<1>5. CASE PrepScaleDown \/ PrepStatus \/ ReCheckpoint \/ SwapTransfer
  <2>1. UNCHANGED <<swapFrom, bound, shadowPod, podSrc, ready, lossy>>
        /\ sub' \in {sub, "ReCheckpoint", "SwapTransfer", "CreateReplacement"}
    BY <1>5 DEF PrepScaleDown, PrepStatus, ReCheckpoint, CkptCall, CkptStatus, CkptFallback,
       SwapTransfer, XferLoad, XferStatus
  <2>2. pc' \in PrepLabels \cup CkptLabels \cup XferLabels \cup {"idle", "dispatch"}
    BY <1>5 DEF PrepScaleDown, PrepStatus, ReCheckpoint, CkptCall, CkptStatus, CkptFallback,
       SwapTransfer, XferLoad, XferStatus, PrepLabels, CkptLabels, XferLabels
  <2> QED BY <2>1, <2>2, FeedUnchanged DEF WatchedLabels, AfterBind, PrepLabels, CkptLabels,
          XferLabels
<1>6. CASE PrepDeleteSource \/ CreateDeleteSource
  <2>1. sub \in {"", "CreateReplacement"}
    BY <1>6 DEF PrepDeleteSource, CreateDeleteSource, DeleteSource, ControlInv, AtHome,
       FirstLabels, CreateLabels
  <2>2. UNCHANGED <<swapFrom, bound, shadowPod, lossy, sub>> /\ pc' \in {"prep.status", "idle"}
        /\ (podSrc' = podSrc \/ (podSrc = "source" /\ podSrc' = "none"))
    BY <1>6 DEF PrepDeleteSource, CreateDeleteSource, DeleteSource, Stop
  <2> QED BY <2>1, <2>2 DEF FeedInv, WatchedLabels, AfterBind
<1>7. CASE CreateGet
  <2>1. UNCHANGED <<swapFrom, bound, shadowPod, lossy, sub, ready>>
        /\ pc' \in CreateLabels \cup {"idle"}
        /\ (podSrc' = podSrc \/ (podSrc = "none" /\ podSrc' = "pending"))
    BY <1>7 DEF CreateGet, CreateLabels
  <2> QED BY <2>1 DEF FeedInv, WatchedLabels, AfterBind, CreateLabels
<1>8. CASE CreateScaleDown \/ CreateScaleUp \/ CreateRecord \/ CreateRunning
  <2>1. UNCHANGED <<swapFrom, bound, shadowPod, podSrc, ready>>
        /\ sub' \in {sub, "PreFenceDrain", "MiniReplay"}
        /\ pc' \in CreateLabels \cup {"idle", "dispatch"}
    BY <1>8 DEF CreateScaleDown, CreateScaleUp, CreateRecord, CreateRunning, CreateLabels
  <2>2. ~lossy
    BY <1>8 DEF CreateScaleDown, CreateScaleUp, CreateRecord, CreateRunning, CreateLabels,
       ControlInv, AtHome, LossInv
  <2> QED BY <2>1, <2>2, FeedUnchanged DEF WatchedLabels, AfterBind, CreateLabels
<1> QED BY <1>1, <1>2, <1>3, <1>4, <1>5, <1>6, <1>7, <1>8 DEF Finalize, Prepare,
        CreateReplacement

\* The Cutoff path and the rollback, where lossy holds.
LEMMA FeedLossy ==
  ASSUME TypeOK, ControlInv, IdentityInv, LossInv, FeedInv,
         MiniReplay \/ TrafficSwitch \/ Rollback \/ PreUnbind \/ PreToCutoff
  PROVE  FeedInv' /\ lossy /\ lossy'
<1> USE DEF Broker, Patch, PatchIgnored, statusVars, histVars, podVars
<1>1. lossy
  BY DEF MiniReplay, MiniUnbind, MiniStart, MiniMark, MiniPoll, MiniStatus, TrafficSwitch,
     TsEnd, TsDeleteQueue, TsDeleteShadow, DeleteShadow, TsScaleUp, FinalScaleUp, TsStatus,
     Rollback, RbBindPrimary, RbBindSwap, RbDepth, RbUnbindBuffer, RbDeleteBuffer, RbStatus,
     PreUnbind, PreToCutoff, ControlInv, AtHome, MiniLabels, SwitchLabels, LossInv, RbLabels
<1>2. lossy' = lossy /\ pc' \notin WatchedLabels
  BY DEF MiniReplay, MiniUnbind, MiniStart, MiniMark, MiniPoll, MiniStatus, TrafficSwitch,
     TsEnd, TsDeleteQueue, TsDeleteShadow, DeleteShadow, TsScaleUp, FinalScaleUp, TsStatus,
     Rollback, RbBindPrimary, RbBindSwap, RbDepth, RbUnbindBuffer, RbDeleteBuffer, RbStatus,
     PreUnbind, PreToCutoff, WatchedLabels, AfterBind
<1>3. podSrc' = "running"
  BY LateStepShape DEF LateStep, PreFenceDrain, IdentityInv
<1> QED BY <1>1, <1>2, <1>3 DEF FeedInv, WatchedLabels, AfterBind

\* The choice of the path and the fence: the buffer is bound before anything is unbound.
LEMMA FeedFence ==
  ASSUME Calm, TypeOK, ControlInv, IdentityInv, CalmInv, LossInv, DrainInv, FeedInv,
         PreFenceDrain \/ ExchangeFence
  PROVE  FeedInv'
<1>0. returned' = returned
  BY ControllerKeeps DEF Controller
<1> USE <1>0 DEF Calm, Broker, Patch, PatchIgnored, statusVars, histVars, podVars, trafficVars,
            mqVars, mqRest, topoVars, clientVars, Fault, Succeeds, Fails
<1>1. CASE PreUnbind \/ PreToCutoff
  BY <1>1, FeedLossy
<1>2. CASE PreDepth \/ PreStart \/ PreMark \/ PrePoll \/ PrePrimary \/ PreToFence
  <2>1. UNCHANGED <<swapFrom, bound, shadowPod, podSrc, ready>> /\ (lossy => lossy')
        /\ sub' \in {sub, "ExchangeFence"}
    <3>1. CASE PrePrimary
      BY <1>2, <3>1 DEF PrePrimary, Inspect, InspectErr, NotFound
    <3>2. CASE PreDepth \/ PrePoll
      BY <1>2, <3>2 DEF PreDepth, PrePoll, Inspect, InspectErr, NotFound
    <3>3. CASE PreStart \/ PreMark \/ PreToFence
      BY <1>2, <3>3 DEF PreStart, PreMark, PreToFence, SendControlMessage,
         SendControlMessageErr, Post
    <3> QED BY <1>2, <3>1, <3>2, <3>3
  <2>2. pc' \in PreLabels \cup {"idle", "dispatch"}
    BY <1>2 DEF PreDepth, PreStart, PreMark, PrePoll, PrePrimary, Decisions, PreToFence,
       PreLabels
  <2> QED BY <2>1, <2>2, FeedUnchanged DEF WatchedLabels, AfterBind, PreLabels
<1>3. CASE FencePrimaryDepth \/ FenceSwapDepth
  <2>1. UNCHANGED <<swapFrom, bound, shadowPod, podSrc, ready, lossy, sub>>
        /\ pc' \in {"fence.swapDepth", "fence.buffer", "idle"}
    BY <1>3 DEF FencePrimaryDepth, FenceSwapDepth, Inspect, InspectErr, NotFound
  <2> QED BY <2>1, FeedUnchanged DEF WatchedLabels, AfterBind
<1>4. CASE FenceBuffer \/ FenceUnbindPrimary \/ FenceUnbindSwap
  <2>1. sub = "ExchangeFence" /\ podSrc = "running" /\ chan = "open"
        /\ (pc # "fence.buffer" => "buffer" \in bound)
    BY <1>4 DEF FenceBuffer, FenceUnbindPrimary, FenceUnbindSwap, ControlInv, AtHome,
       FenceLabels, IdentityInv, LateSubs, CalmInv, Over, DrainInv
  <2>2. UNCHANGED <<sub, podSrc>> /\ pc' \in FenceLabels \cup {"idle"}
    BY <1>4 DEF FenceBuffer, FenceUnbindPrimary, FenceUnbindSwap, FenceLabels
  <2>3. "buffer" \in bound'
    BY <1>4, <2>1 DEF FenceBuffer, FenceUnbindPrimary, FenceUnbindSwap,
       DeclareAndBindQueue, DeclareAndBindQueueErr, DeclareBind, UnbindQueue,
       UnbindQueueErr, Unbind
  <2> QED BY <2>1, <2>2, <2>3 DEF FeedInv, AfterBind, FenceLabels
<1>5. CASE FenceStatus
  <2>1. bound = {"buffer"} /\ podSrc = "running"
    BY <1>5 DEF FenceStatus, DrainInv, ControlInv, AtHome, FenceLabels, IdentityInv,
       LateSubs
  <2>2. UNCHANGED <<bound, podSrc>> /\ sub' = "ParallelDrain" /\ pc' = "dispatch"
    BY <1>5 DEF FenceStatus
  <2> QED BY <2>1, <2>2 DEF FeedInv, AfterBind
<1> QED BY <1>1, <1>2, <1>3, <1>4, <1>5 DEF PreFenceDrain, ExchangeFence

\* The parallel drain ends with an empty swap queue that nothing fills.
LEMMA FeedDrain ==
  ASSUME Calm, TypeOK, ControlInv, IdentityInv, CalmInv, LossInv, FeedInv, ParallelDrain
  PROVE  FeedInv'
<1>0. returned' = returned
  BY ControllerKeeps DEF Controller
<1> USE <1>0 DEF Calm, Broker, Patch, statusVars, histVars, podVars, trafficVars,
            mqVars, mqRest, topoVars, clientVars, Fault, Succeeds, Fails
<1>1. sub = "ParallelDrain"
  BY DEF ParallelDrain, DrainPrimary, DrainSwap, DrainStatus, ControlInv, AtHome, DrainLabels
<1>2. CASE DrainPrimary
  <2>1. UNCHANGED <<swapFrom, bound, shadowPod, podSrc, ready, lossy, sub>>
        /\ pc' \in {"drain.swap", "idle"}
    BY <1>2 DEF DrainPrimary, Inspect, InspectErr, NotFound
  <2> QED BY <2>1, FeedUnchanged DEF WatchedLabels, AfterBind
<1>3. CASE DrainSwap
  <2>1. UNCHANGED <<swapFrom, bound, shadowPod, podSrc, ready, sub>> /\ (lossy => lossy')
        /\ pc' \in {"drain.status", "rb.bindPrimary", "idle"}
        /\ (pc' = "drain.status" => Depth("replay") = 0)
    BY <1>3 DEF DrainSwap, Inspect, InspectErr, NotFound
  <2>2. pc' = "drain.status" => ready["replay"] = {}
    BY <2>1, DepthZero DEF Queues
  <2> QED BY <1>1, <2>1, <2>2 DEF FeedInv, AfterBind
<1>4. CASE DrainStatus
  <2>1. UNCHANGED <<swapFrom, bound, shadowPod, podSrc, ready, lossy>>
        /\ sub' = "FenceCutover" /\ pc' = "dispatch" /\ pc = "drain.status"
    BY <1>4 DEF DrainStatus
  <2> QED BY <1>1, <2>1 DEF FeedInv, AfterBind
<1> QED BY <1>2, <1>3, <1>4 DEF ParallelDrain

\* The cutover: primary is bound before the buffer is unbound, the buffer is unbound
\* before its depth is read, and both secondary queues were empty then.
LEMMA FeedCutover ==
  ASSUME Calm, TypeOK, ControlInv, IdentityInv, RoutedInv, CalmInv, ProcInv, FeedInv,
         FenceCutover
  PROVE  FeedInv'
<1>0. returned' = returned
  BY ControllerKeeps DEF Controller
<1> USE <1>0 DEF Calm, Broker, Patch, PatchIgnored, statusVars, histVars, podVars, trafficVars,
            mqVars, mqRest, topoVars, clientVars, Fault, Succeeds, Fails
<1>1. /\ sub = "FenceCutover" /\ chan = "open" /\ podSrc = "running" /\ swapFrom # -1
      /\ "primary" \in exists
  BY DEF FenceCutover, CutDeleteShadow, DeleteShadow, CutBindPrimary, CutUnbindBuffer,
     CutStats, CutStart, CutMark, CutEnd, CutDeleteSwap, CutDeleteBuffer, CutScaleUp,
     FinalScaleUp, CutStatus, ControlInv, AtHome, CutLabels, CalmInv, Over, IdentityInv,
     LateSubs
<1>2. pc \in AfterBind => "primary" \in bound
  BY DEF RoutedInv, TypeOK, ControllerTypeOK
<1>3. ready \in [Queues -> SUBSET Msgs] /\ on \in [Procs -> Positions]
      /\ lossy \in BOOLEAN
  BY DEF TypeOK, MessagingTypeOK, ControllerTypeOK
<1>4. CASE CutDeleteShadow
  <2>1. UNCHANGED <<swapFrom, bound, podSrc, lossy, sub, ready>> /\ ~shadowPod'
        /\ pc' = "cut.bindPrimary"
    BY <1>4 DEF CutDeleteShadow, DeleteShadow
  <2> QED BY <1>1, <2>1 DEF FeedInv, AfterBind
<1>5. CASE CutBindPrimary
  <2>1. UNCHANGED <<swapFrom, shadowPod, podSrc, lossy, sub, ready>>
        /\ pc' = "cut.unbindBuffer" /\ bound' = bound \cup {"primary"}
    BY <1>1, <1>5 DEF CutBindPrimary, BindQueue, BindQueueErr, Bind, NotFound
  <2>2. pc = "cut.bindPrimary"
    BY <1>5 DEF CutBindPrimary
  <2> QED BY <1>1, <2>1, <2>2 DEF FeedInv, AfterBind
<1>6. CASE CutUnbindBuffer
  <2>1. UNCHANGED <<swapFrom, shadowPod, podSrc, lossy, sub, ready>>
        /\ pc' = "cut.stats" /\ bound' = bound \ {"buffer"}
    BY <1>1, <1>6 DEF CutUnbindBuffer, UnbindQueue, UnbindQueueErr, Unbind
  <2>2. pc = "cut.unbindBuffer" /\ "primary" \in bound
    BY <1>2, <1>6 DEF CutUnbindBuffer, AfterBind
  <2> QED BY <1>1, <2>1, <2>2 DEF FeedInv, AfterBind
<1>7. CASE CutStats
  <2>1. "buffer" \in exists /\ pc = "cut.stats"
    BY <1>1, <1>7 DEF CutStats, CalmInv, BufferNeeded
  <2>2. UNCHANGED <<swapFrom, shadowPod, podSrc, sub, ready, bound>>
        /\ pc' \in {"cut.end", "cut.start", "idle"}
        /\ lossy' = (lossy \/ (Depth("buffer") # 0 /\ pc' = "cut.end"))
    BY <1>1, <1>7, <2>1 DEF CutStats, Inspect, InspectErr, NotFound
  <2>3. pc' = "cut.end" /\ ~lossy' => ready["buffer"] = {}
    BY <2>2, DepthZero DEF Queues
  <2> QED BY <1>1, <2>1, <2>2, <2>3 DEF FeedInv, AfterBind
<1>8. CASE CutStart \/ CutMark \/ CutEnd \/ CutScaleUp
  <2>1. UNCHANGED <<swapFrom, shadowPod, podSrc, lossy, sub, ready, bound>>
        /\ pc \in AfterBind /\ pc' \in AfterBind \cup {"idle"}
        /\ pc' \notin {"cut.stats", "cut.end", "cut.deleteBuffer"}
        /\ (pc' = "cut.deleteSwap" => pc = "cut.end")
    BY <1>8 DEF CutStart, CutMark, CutEnd, CutScaleUp, FinalScaleUp, SendControlMessage,
       SendControlMessageErr, Post, AfterBind
  <2> QED BY <1>1, <2>1 DEF FeedInv, AfterBind
<1>9. CASE CutDeleteSwap
  <2>1. UNCHANGED <<swapFrom, shadowPod, podSrc, lossy, sub>> /\ pc = "cut.deleteSwap"
        /\ pc' = "cut.deleteBuffer" /\ Delete("replay")
    BY <1>1, <1>9 DEF CutDeleteSwap, DeleteSecondaryQueue, DeleteSecondaryQueueErr
  <2>2. ready'["replay"] = {} /\ ready'["buffer"] = ready["buffer"]
        /\ bound' = bound \ {"replay"} /\ "primary" \in bound
    BY <1>2, <1>3, <2>1 DEF Delete, Queues, AfterBind
  <2> QED BY <1>1, <2>1, <2>2 DEF FeedInv, AfterBind
<1>10. CASE CutDeleteBuffer
  <2>1. UNCHANGED <<swapFrom, shadowPod, podSrc, lossy, sub>> /\ pc = "cut.deleteBuffer"
        /\ pc' = "cut.scaleUp" /\ Delete("buffer")
    BY <1>1, <1>10 DEF CutDeleteBuffer, DeleteQueue, DeleteQueueErr
  <2>2. ready'["replay"] = ready["replay"] /\ bound' = bound \ {"buffer"}
        /\ "primary" \in bound
    BY <1>2, <1>3, <2>1 DEF Delete, Queues, AfterBind
  <2> QED BY <1>1, <2>1, <2>2 DEF FeedInv, AfterBind
<1>11. CASE CutStatus
  <2>1. UNCHANGED <<swapFrom, bound, shadowPod, podSrc, ready, lossy>> /\ sub' = ""
        /\ pc' = "fin.close"
    BY <1>11 DEF CutStatus
  <2> QED BY <2>1, FeedUnchanged DEF WatchedLabels, AfterBind
<1> QED BY <1>4, <1>5, <1>6, <1>7, <1>8, <1>9, <1>10, <1>11 DEF FenceCutover

-----------------------------------------------------------------------------
\* What a step outside the controller leaves alone in a calm run.
LEMMA OutsideStep ==
  ASSUME Calm, TypeOK,
         \/ Crash \/ OtherMigration \/ Tick \/ Cluster \/ Producer \/ Done
         \/ \E p \in Procs : Consumer(p)
         \/ UNCHANGED vars
  PROVE  /\ ~Crash /\ ~OtherMigration
         /\ UNCHANGED <<sub, pc, swapFrom, lossy, shadowPod, bound>>
         /\ podSrc' # "running" => podSrc # "running"
<1>1. ~Crash /\ ~OtherMigration
  BY DEF Crash, OtherMigration, Fault, Calm, TypeOK, ControllerTypeOK
<1> USE DEF mqVars, mqRest, statusVars, histVars, podVars
<1>2. CASE Tick \/ Done \/ Producer \/ UNCHANGED vars
  BY <1>2, <1>1 DEF Tick, Done, Producer, Publish, vars
<1>3. CASE Cluster
  BY <1>3, <1>1 DEF Cluster, StsScaleDown, Stop, KubeletKill, KubeletStart, Restore,
     JobEnds
<1>4. ASSUME NEW p \in Procs, Consumer(p)
      PROVE  UNCHANGED <<sub, pc, swapFrom, lossy, shadowPod, bound, podSrc>>
  BY <1>4 DEF Consumer, Deliver, Process, ReadControl
<1> QED BY <1>1, <1>2, <1>3, <1>4

\* The source and the shadow return what they hold to the primary queue only.
LEMMA StopReturns ==
  ASSUME TypeOK, ProcInv, swapFrom # -1, NEW p \in {"source", "shadow"}, Stop(p)
  PROVE  /\ ready'["replay"] = ready["replay"] /\ ready'["buffer"] = ready["buffer"]
         /\ UNCHANGED <<applied, ctrl, returned>>
         /\ inflight'["replacement"] = inflight["replacement"]
         /\ on'["replacement"] = on["replacement"]
         /\ shadowPod' = shadowPod => InPrimary \subseteq InPrimary'
<1>1. ready \in [Queues -> SUBSET Msgs] /\ on \in [Procs -> Positions]
      /\ inflight \in [Procs -> SUBSET Msgs]
  BY DEF TypeOK, MessagingTypeOK
<1>2. on[p] \notin {"replay", "buffer"}
  BY DEF ProcInv
<1>3. ready' = ready \/ ready' = [ready EXCEPT !["primary"] = @ \cup inflight[p]]
  BY <1>2 DEF Stop, Returned, Queues
<1>4. ready'["replay"] = ready["replay"] /\ ready'["buffer"] = ready["buffer"]
      /\ ready["primary"] \subseteq ready'["primary"]
  BY <1>1, <1>3 DEF Queues
<1>5. inflight'["replacement"] = inflight["replacement"]
      /\ on'["replacement"] = on["replacement"]
  BY <1>1 DEF Stop, Procs
<1>6. on["shadow"] = "primary"
        => \/ inflight["shadow"] \subseteq ready'["primary"]
           \/ on'["shadow"] = "primary" /\ inflight'["shadow"] = inflight["shadow"]
  BY <1>1 DEF Stop, Returned, Procs, Queues
<1>7. shadowPod' = shadowPod => InPrimary \subseteq InPrimary'
  BY <1>4, <1>6 DEF InPrimary
<1> QED BY <1>4, <1>5, <1>7 DEF Stop

\* A consumer that switches puts what it holds back where it came from, and
\* returned has what it took from another queue than the primary one.
LEMMA SwitchReturns ==
  ASSUME TypeOK, NEW p \in Procs, ReadControl(p)
  PROVE  /\ UNCHANGED <<applied, published>> /\ returned \subseteq returned'
         /\ \A q \in Queues : ready[q] \subseteq ready'[q]
         /\ \A q \in {"replay", "buffer"} : ready'[q] \subseteq ready[q] \cup returned'
         /\ \A r \in Procs \ {p} : inflight'[r] = inflight[r] /\ on'[r] = on[r]
         /\ \/ inflight'[p] = inflight[p] /\ on'[p] = on[p]
            \/ on[p] = "primary" /\ inflight[p] \subseteq ready'["primary"]
            \/ on[p] # "primary" /\ inflight[p] \subseteq returned'
         /\ on'[p] \in {on[p], ctrl[PodName(p)][Len(ctrl[PodName(p)])].queue}
         /\ ctrl' = [ctrl EXCEPT ![PodName(p)] = <<>>] /\ ctrl[PodName(p)] # <<>>
<1>1. ready \in [Queues -> SUBSET Msgs] /\ on \in [Procs -> Positions]
      /\ inflight \in [Procs -> SUBSET Msgs]
  BY DEF TypeOK, MessagingTypeOK
<1> DEFINE last == ctrl[PodName(p)][Len(ctrl[PodName(p)])].queue
<1>2. /\ \/ UNCHANGED <<ready, inflight, on, returned>>
         \/ /\ ready' = Returned(p) /\ inflight' = [inflight EXCEPT ![p] = {}]
            /\ on' = [on EXCEPT ![p] = last]
            /\ returned' = IF on[p] = "primary" THEN returned ELSE returned \cup inflight[p]
      /\ UNCHANGED <<applied, published>>
      /\ ctrl' = [ctrl EXCEPT ![PodName(p)] = <<>>] /\ ctrl[PodName(p)] # <<>>
  BY DEF ReadControl
<1> HIDE DEF last
<1>3. CASE UNCHANGED <<ready, inflight, on, returned>>
  BY <1>2, <1>3 DEF last, Queues
<1>4. CASE /\ ready' = Returned(p) /\ inflight' = [inflight EXCEPT ![p] = {}]
           /\ on' = [on EXCEPT ![p] = last]
           /\ returned' = IF on[p] = "primary" THEN returned ELSE returned \cup inflight[p]
  <2>1. returned \subseteq returned' /\ (on[p] # "primary" => inflight[p] \subseteq returned')
    BY <1>4
  <2>2. \A q \in Queues : /\ ready[q] \subseteq ready'[q]
                          /\ on[p] # q => ready'[q] = ready[q]
                          /\ on[p] = q => ready'[q] = ready[q] \cup inflight[p]
    BY <1>1, <1>4 DEF Returned
  <2>3. \A r \in Procs \ {p} : inflight'[r] = inflight[r] /\ on'[r] = on[r]
    BY <1>1, <1>4
  <2>4. on'[p] = last
    BY <1>1, <1>4
  <2>5. \A q \in {"replay", "buffer"} : ready'[q] \subseteq ready[q] \cup returned'
    BY <2>1, <2>2 DEF Queues
  <2>6. on[p] = "primary" => inflight[p] \subseteq ready'["primary"]
    BY <2>2 DEF Queues
  <2> QED BY <1>2, <2>1, <2>2, <2>3, <2>4, <2>5, <2>6 DEF last
<1> QED BY <1>2, <1>3, <1>4

\* Nothing outside the controller fills an unbound swap queue or buffer, but for what
\* the replacement puts back.
LEMMA DrainedStays ==
  ASSUME Calm, TypeOK, ProcInv, swapFrom # -1,
         NEW q \in {"replay", "buffer"}, q \notin bound, ready[q] \subseteq returned,
         \/ Crash \/ OtherMigration \/ Tick \/ Cluster \/ Producer \/ Done
         \/ \E p \in Procs : Consumer(p)
         \/ UNCHANGED vars
  PROVE  ready'[q] \subseteq returned'
<1>1. ready \in [Queues -> SUBSET Msgs] /\ q \in Queues
  BY DEF TypeOK, MessagingTypeOK, Queues
<1>2. CASE Tick \/ Done \/ UNCHANGED vars
  BY <1>2 DEF Tick, Done, vars, mqVars
<1>3. CASE Producer
  BY <1>1, <1>3 DEF Producer, Publish, consumerVars
<1>4. CASE Cluster
  <2>1. CASE KubeletStart \/ JobEnds
    BY <2>1 DEF KubeletStart, Restore, JobEnds, mqRest, consumerVars
  <2>2. CASE StsScaleDown \/ KubeletKill
    BY <2>2, StopReturns DEF StsScaleDown, KubeletKill
  <2> QED BY <1>4, <2>1, <2>2 DEF Cluster
<1>5. ASSUME NEW p \in Procs, Consumer(p) PROVE ready'[q] \subseteq returned'
  <2>1. CASE Deliver(p)
    <3>1. PICK m : ready' = [ready EXCEPT ![on[p]] = @ \ {m}]
      BY <2>1 DEF Deliver
    <3>2. returned' = returned
      BY <2>1 DEF Deliver
    <3> QED BY <1>1, <3>1, <3>2
  <2>2. CASE Process(p)
    BY <2>2 DEF Process
  <2>3. CASE ReadControl(p)
    BY <2>3, SwitchReturns
  <2> QED BY <1>5, <2>1, <2>2, <2>3 DEF Consumer
<1> QED BY <1>2, <1>3, <1>4, <1>5, OutsideStep

\* The environment keeps the feed.
LEMMA FeedEnvironment ==
  ASSUME Calm, TypeOK, ControlInv, CalmInv, ProcInv, FeedInv,
         \/ Crash \/ OtherMigration \/ Tick \/ Cluster \/ Producer \/ Done
         \/ \E p \in Procs : Consumer(p)
         \/ UNCHANGED vars
  PROVE  FeedInv'
<1>1. UNCHANGED <<sub, pc, swapFrom, lossy, shadowPod, bound>>
      /\ (podSrc' # "running" => podSrc # "running")
  BY OutsideStep
<1>2. (pc = "drain.status" \/ sub = "FenceCutover") /\ ~lossy
        => ready'["replay"] \subseteq returned'
  <2>1. ASSUME pc = "drain.status" \/ sub = "FenceCutover", ~lossy
        PROVE  ready'["replay"] \subseteq returned'
    <3>1. sub \in {"ParallelDrain", "FenceCutover"}
      BY <2>1 DEF ControlInv, AtHome, DrainLabels
    <3>2. swapFrom # -1
      BY <3>1 DEF CalmInv
    <3>3. "replay" \notin bound /\ ready["replay"] \subseteq returned
      BY <2>1, <3>1 DEF FeedInv
    <3> QED BY <3>2, <3>3, DrainedStays
  <2> QED BY <2>1
<1>3. pc \in {"cut.end", "cut.deleteSwap", "cut.deleteBuffer"} /\ ~lossy
        => ready'["buffer"] \subseteq returned'
  <2>1. ASSUME pc \in {"cut.end", "cut.deleteSwap", "cut.deleteBuffer"}, ~lossy
        PROVE  ready'["buffer"] \subseteq returned'
    <3>1. swapFrom # -1
      BY <2>1 DEF CalmInv, FreshLabels
    <3>2. "buffer" \notin bound /\ ready["buffer"] \subseteq returned
      BY <2>1 DEF FeedInv
    <3> QED BY <3>1, <3>2, DrainedStays
  <2> QED BY <2>1
<1> QED BY <1>1, <1>2, <1>3 DEF FeedInv, AfterBind

\* In a calm run the replacement's feed is never cut, and no message is deleted that
\* was not put back.
LEMMA FeedAlways ==
  ASSUME Calm
  PROVE  Spec => []FeedInv
<1>1. Init => FeedInv
  BY DEF Init, FeedInv, AfterBind
<1>2. /\ TypeOK /\ ControlInv /\ IdentityInv /\ RoutedInv /\ CalmInv /\ ProcInv /\ LossInv
      /\ DrainInv /\ FeedInv /\ [Next]_vars
      => FeedInv'
  BY FeedEarly, FeedLossy, FeedFence, FeedDrain, FeedCutover, FeedEnvironment
  DEF Next, Controller
<1>3. ApiReliable
  BY DEF Calm, ApiReliable
<1> QED BY <1>1, <1>2, <1>3, TypeCorrect, ControlAlways, IdentityAlways, RoutedAlways,
        CalmAlways, ProcAlways, LossAlways, DrainAlways, PTL DEF Spec

-----------------------------------------------------------------------------
\* There is no replacement before the swap queue is bound.
FreshInv == swapFrom = -1 => podSrc \in {"none", "source"}

LEMMA FreshAlways ==
  ASSUME Calm
  PROVE  Spec => []FreshInv
<1>1. Init => FreshInv
  BY DEF Init, FreshInv
<1>2. TypeOK /\ ControlInv /\ IdentityInv /\ CalmInv /\ FreshInv /\ [Next]_vars => FreshInv'
  <2> SUFFICES ASSUME TypeOK, ControlInv, IdentityInv, CalmInv, FreshInv, [Next]_vars
               PROVE  FreshInv'
    OBVIOUS
  <2> USE DEF Broker, Patch, podVars, histVars
  <2>1. CASE Finalize \/ ReCheckpoint \/ SwapTransfer
    <3>1. UNCHANGED <<swapFrom, podSrc>>
      BY <2>1 DEF Finalize, Reconcile, Dispatch, FinEndReplay, FinDeleteQueue, FinClose,
         FinComplete, ReCheckpoint, CkptCall, CkptStatus, CkptFallback, SwapTransfer,
         XferLoad, XferStatus
    <3> QED BY <3>1 DEF FreshInv
  <2>2. CASE Prepare
    <3>1. podSrc' \in {podSrc, "none"} /\ (swapFrom' = -1 => swapFrom = -1)
      <4>1. published # -1
        BY DEF TypeOK, MessagingTypeOK
      <4> QED BY <2>2, <4>1 DEF Prepare, PrepConnect, PrepCreateQueue, PrepScaleDown,
              PrepDeleteSource, DeleteSource, PrepStatus
    <3> QED BY <3>1 DEF FreshInv
  <2>3. CASE CreateReplacement
    <3>1. sub = "CreateReplacement" /\ swapFrom' = swapFrom
      BY <2>3 DEF CreateReplacement, CreateGet, CreateScaleDown, CreateDeleteSource,
         DeleteSource, CreateScaleUp, CreateRecord, CreateRunning, ControlInv, AtHome,
         CreateLabels
    <3> QED BY <3>1 DEF FreshInv, CalmInv
  <2>4. CASE LateStep
    <3>1. swapFrom # -1
      BY <2>4, LateStepShape DEF CalmInv, FreshLabels, EarlyLabels
    <3>2. swapFrom' = swapFrom
      BY <2>4 DEF LateStep, MiniReplay, MiniUnbind, MiniStart, MiniMark, MiniPoll,
         MiniStatus, TrafficSwitch, TsEnd, TsDeleteQueue, TsDeleteShadow, DeleteShadow,
         TsScaleUp, FinalScaleUp, TsStatus, PreFenceDrain, PreDepth, PreStart, PreMark,
         PrePoll, PrePrimary, PreUnbind, PreToCutoff, PreToFence, ExchangeFence,
         FencePrimaryDepth, FenceSwapDepth, FenceBuffer, FenceUnbindPrimary,
         FenceUnbindSwap, FenceStatus, ParallelDrain, DrainPrimary, DrainSwap, DrainStatus,
         Rollback, RbBindPrimary, RbBindSwap, RbDepth, RbUnbindBuffer, RbDeleteBuffer,
         RbStatus, FenceCutover, CutDeleteShadow, CutBindPrimary, CutUnbindBuffer,
         CutStats, CutStart, CutMark, CutEnd, CutDeleteSwap, CutDeleteBuffer, CutScaleUp,
         CutStatus, PatchIgnored
    <3> QED BY <3>1, <3>2 DEF FreshInv
  <2>5. CASE \/ Crash \/ OtherMigration \/ Tick \/ Cluster \/ Producer \/ Done
             \/ \E p \in Procs : Consumer(p)
             \/ UNCHANGED vars
    <3>1. swapFrom' = swapFrom
      BY <2>5, OutsideStep
    <3>2. podSrc' \in {podSrc, "none"} \/ podSrc = "pending"
      BY <2>5 DEF Crash, OtherMigration, Tick, Cluster, StsScaleDown, KubeletKill,
         KubeletStart, JobEnds, Producer, Done, Consumer, vars
    <3> QED BY <3>1, <3>2 DEF FreshInv
  <2> QED BY <2>1, <2>2, <2>3, <2>4, <2>5 DEF Next, Controller, LateStep
<1> QED BY <1>1, <1>2, TypeCorrect, ControlAlways, IdentityAlways, CalmAlways, PTL DEF Spec

\* A step that moves no message.
LEMMA DeliverQuiet ==
  ASSUME DeliverInv,
         UNCHANGED <<ready, applied, inflight, on, published, swapFrom, shadowPod, returned,
                     outlived>>,
         ctrl'["src"] = ctrl["src"] \/ ~shadowPod,
         podSrc' = podSrc \/ (podSrc # "running" /\ podSrc' # "running"),
         lossy => lossy'
  PROVE  DeliverInv'
<1>1. New' = New /\ Held' = Held
  BY DEF New, Held, InPrimary
<1> QED BY <1>1 DEF DeliverInv

\* A step after which every message is accounted for if it was before.
LEMMA DeliverGrows ==
  ASSUME DeliverInv, swapFrom # -1, ~lossy,
         UNCHANGED <<published, swapFrom, podSrc, lossy>>,
         returned \subseteq returned', outlived \subseteq outlived',
         podSrc # "running" => ready["replay"] \subseteq ready'["replay"],
         podSrc = "running" => Held \subseteq Held' \cup returned' \cup outlived',
         shadowPod' => shadowPod,
         shadowPod' /\ on'["replacement"] = "primary"
           => /\ on["replacement"] = "primary"
              /\ ready["replay"] \subseteq ready'["replay"]
              /\ ready["buffer"] \subseteq ready'["buffer"],
         ctrl'["src"] = ctrl["src"] \/ ctrl'["src"] = <<>> \/ ~shadowPod'
  PROVE  DeliverInv'
<1>1. New' = New
  BY DEF New
<1>2. podSrc' # "running" => New' \subseteq ready'["replay"]
  BY <1>1 DEF DeliverInv
<1>3. podSrc' = "running" => New' \subseteq Held' \cup returned' \cup outlived'
  BY <1>1 DEF DeliverInv
<1>4. shadowPod' /\ on'["replacement"] = "primary"
        => New' \subseteq ready'["replay"] \cup ready'["buffer"]
  BY <1>1 DEF DeliverInv
<1>5. shadowPod' => \A i \in 1 .. Len(ctrl'["src"]) : ctrl'["src"][i] # EndReplay
  BY DEF DeliverInv
<1> QED BY <1>2, <1>3, <1>4, <1>5 DEF DeliverInv

\* The handlers up to the creation: the swap queue collects every message from the
\* moment it is bound.
LEMMA DeliverEarly ==
  ASSUME Calm, TypeOK, ControlInv, CalmInv, ProcInv, LossInv, FreshInv, DeliverInv,
         Finalize \/ Prepare \/ ReCheckpoint \/ SwapTransfer \/ CreateReplacement
  PROVE  DeliverInv'
<1>0. UNCHANGED <<returned, outlived>>
  BY ControllerKeeps DEF Controller
<1> USE DEF Calm, Broker, Patch, statusVars, histVars, podVars, trafficVars, consumerVars,
            mqVars, mqRest, topoVars, clientVars, Fault, Succeeds, Fails
<1>1. CASE Reconcile \/ Dispatch \/ FinClose \/ FinComplete
  <2>1. UNCHANGED <<ready, applied, inflight, on, published, swapFrom, podSrc, lossy,
                    shadowPod, ctrl>>
    BY <1>1 DEF Reconcile, Dispatch, FinClose, FinComplete, Close
  <2> QED BY <1>0, <2>1, DeliverQuiet
<1>2. CASE FinEndReplay \/ FinDeleteQueue \/ PrepConnect
  <2>1. swapFrom = -1
    BY <1>2 DEF FinEndReplay, FinDeleteQueue, PrepConnect, CalmInv, ControlInv, AtHome,
       FirstLabels, FreshLabels, PrepLabels, Over
  <2>2. swapFrom' = -1
    BY <1>2, <2>1 DEF FinEndReplay, FinDeleteQueue, PrepConnect
  <2> QED BY <2>2 DEF DeliverInv
<1>3. CASE PrepCreateQueue
  <2>1. chan = "open" /\ swapFrom = -1
    BY <1>3 DEF PrepCreateQueue, CalmInv, ControlInv, AtHome, FirstLabels, FreshLabels,
       PrepLabels, Over
  <2>2. swapFrom' = published /\ published' = published /\ ctrl' = ctrl
        /\ podSrc' = podSrc
    BY <1>3, <2>1 DEF PrepCreateQueue, CreateSecondaryQueue, CreateSecondaryQueueErr,
       CreateSecondary
  <2>3. published \in Int
    BY DEF TypeOK, MessagingTypeOK
  <2>4. New' = {}
    BY <2>2, <2>3 DEF New, Msgs
  <2>5. podSrc # "running"
    BY <2>1 DEF FreshInv
  <2>6. ctrl'["src"] = <<>>
    BY <2>2, <2>5 DEF ProcInv
  <2> QED BY <2>4, <2>6 DEF DeliverInv
<1>4. CASE PrepScaleDown \/ PrepStatus \/ ReCheckpoint \/ SwapTransfer
  <2>1. UNCHANGED <<ready, applied, inflight, on, published, swapFrom, podSrc, lossy,
                    shadowPod, ctrl>>
    BY <1>4 DEF PrepScaleDown, PrepStatus, ReCheckpoint, CkptCall, CkptStatus, CkptFallback,
       SwapTransfer, XferLoad, XferStatus
  <2> QED BY <1>0, <2>1, DeliverQuiet
<1>5. CASE PrepDeleteSource \/ CreateDeleteSource
  <2>1. UNCHANGED <<ready, applied, inflight, on, published, swapFrom, lossy, shadowPod,
                    ctrl>>
        /\ (podSrc' = podSrc \/ (podSrc # "running" /\ podSrc' # "running"))
    BY <1>5 DEF PrepDeleteSource, CreateDeleteSource, DeleteSource
  <2> QED BY <1>0, <2>1, DeliverQuiet
<1>6. CASE CreateGet \/ CreateScaleDown \/ CreateScaleUp \/ CreateRecord \/ CreateRunning
  <2>1. UNCHANGED <<ready, applied, inflight, on, published, swapFrom, shadowPod, ctrl>>
        /\ (podSrc' = podSrc \/ (podSrc # "running" /\ podSrc' # "running"))
    BY <1>6 DEF CreateGet, CreateScaleDown, CreateScaleUp, CreateRecord, CreateRunning
  <2>2. ~lossy
    BY <1>6 DEF CreateGet, CreateScaleDown, CreateScaleUp, CreateRecord, CreateRunning,
       ControlInv, AtHome, CreateLabels, LossInv
  <2> QED BY <1>0, <2>1, <2>2, DeliverQuiet
<1> QED BY <1>1, <1>2, <1>3, <1>4, <1>5, <1>6 DEF Finalize, Prepare, CreateReplacement

\* The handlers after it, while lossy does not hold.
LEMMA DeliverLate ==
  ASSUME Calm, TypeOK, ControlInv, IdentityInv, CalmInv, ProcInv, LossInv, FeedInv,
         DeliverInv, PreFenceDrain \/ ExchangeFence \/ ParallelDrain \/ FenceCutover
  PROVE  DeliverInv'
<1>0. lossy \in BOOLEAN /\ UNCHANGED <<returned, outlived>>
  BY ControllerKeeps DEF Controller, TypeOK, ControllerTypeOK
<1> USE DEF Calm, Broker, Patch, PatchIgnored, statusVars, histVars, podVars, trafficVars,
            consumerVars, mqVars, mqRest, topoVars, clientVars, Fault, Succeeds, Fails
<1>1. CASE PreFenceDrain
  <2>1. CASE PrePrimary
    BY <1>0, <2>1, DeliverQuiet DEF PrePrimary, Inspect, InspectErr, NotFound
  <2>2. CASE PreStart
    <3>1. UNCHANGED <<ready, applied, inflight, on, published, swapFrom, shadowPod, podSrc,
                      lossy>>
      BY <2>2 DEF PreStart, SendControlMessage, SendControlMessageErr, Post
    <3>2. ctrl' = ctrl \/ ctrl' = [ctrl EXCEPT !["src"] = Append(@, StartReplay("replay"))]
      BY <2>2 DEF PreStart, SendControlMessage, SendControlMessageErr, Post
    <3>3. ctrl \in [Names -> Seq(ControlMsgs)] /\ StartReplay("replay") \in ControlMsgs
          /\ StartReplay("replay") # EndReplay
      BY DEF TypeOK, MessagingTypeOK, ControlMsgs, StartReplay, EndReplay
    <3>4. ctrl'["src"] = ctrl["src"]
          \/ ctrl'["src"] = Append(ctrl["src"], StartReplay("replay"))
      BY <3>2, <3>3 DEF Names
    <3>5. (\A i \in 1 .. Len(ctrl["src"]) : ctrl["src"][i] # EndReplay)
            => \A i \in 1 .. Len(ctrl'["src"]) : ctrl'["src"][i] # EndReplay
      <4>1. ctrl["src"] \in Seq(ControlMsgs)
        BY <3>3 DEF Names
      <4>2. \A i \in 1 .. Len(ctrl["src"]) + 1 :
              Append(ctrl["src"], StartReplay("replay"))[i] =
                IF i = Len(ctrl["src"]) + 1 THEN StartReplay("replay") ELSE ctrl["src"][i]
        BY <3>3, <4>1
      <4>3. Len(Append(ctrl["src"], StartReplay("replay"))) = Len(ctrl["src"]) + 1
            /\ Len(ctrl["src"]) \in Nat
        BY <3>3, <4>1
      <4>4. CASE ctrl'["src"] = ctrl["src"]
        BY <4>4
      <4>5. CASE ctrl'["src"] = Append(ctrl["src"], StartReplay("replay"))
        <5> HIDE DEF StartReplay, EndReplay
        <5> QED BY <3>3, <4>2, <4>3, <4>5
      <4> QED BY <3>4, <4>4, <4>5
    <3>6. New' = New /\ Held' = Held
      BY <1>0, <3>1 DEF New, Held, InPrimary
    <3> QED BY <1>0, <3>1, <3>5, <3>6 DEF DeliverInv
  <2>3. CASE PreFenceDrain /\ ~PrePrimary /\ ~PreStart
    BY <1>0, <2>3, DeliverQuiet DEF PreFenceDrain, PreDepth, PreMark, PrePoll, PreUnbind,
       PreToCutoff, PreToFence, Inspect, InspectErr, NotFound, UnbindQueue, UnbindQueueErr,
       Unbind
  <2> QED BY <1>1, <2>1, <2>2, <2>3
<1>2. CASE ExchangeFence
  BY <1>0, <1>2, DeliverQuiet DEF ExchangeFence, FencePrimaryDepth, FenceSwapDepth,
     FenceBuffer, FenceUnbindPrimary, FenceUnbindSwap, FenceStatus, Inspect, InspectErr,
     NotFound, DeclareAndBindQueue, DeclareAndBindQueueErr, DeclareBind, UnbindQueue,
     UnbindQueueErr, Unbind
<1>3. CASE ParallelDrain
  <2>1. CASE DrainSwap
    <3>1. UNCHANGED <<ready, applied, inflight, on, published, swapFrom, podSrc, shadowPod,
                      ctrl>>
      BY <2>1 DEF DrainSwap, Inspect, InspectErr, NotFound
    <3>2. lossy => lossy'
      BY <2>1 DEF DrainSwap
    <3> QED BY <1>0, <3>1, <3>2, DeliverQuiet
  <2>2. CASE DrainPrimary \/ DrainStatus
    BY <1>0, <2>2, DeliverQuiet DEF DrainPrimary, DrainStatus, Inspect, InspectErr, NotFound
  <2> QED BY <1>3, <2>1, <2>2 DEF ParallelDrain
<1>4. CASE CutBindPrimary \/ CutUnbindBuffer \/ CutStart \/ CutMark \/ CutEnd
           \/ CutScaleUp \/ CutStatus
  <2>1. CASE CutBindPrimary \/ CutUnbindBuffer
    BY <1>0, <2>1, DeliverQuiet DEF CutBindPrimary, CutUnbindBuffer, BindQueue, BindQueueErr,
       Bind, NotFound, UnbindQueue, UnbindQueueErr, Unbind
  <2>2. CASE CutStart \/ CutMark \/ CutEnd
    <3>1. UNCHANGED <<ready, applied, inflight, on, published, swapFrom, podSrc, shadowPod,
                      lossy>>
      BY <2>2 DEF CutStart, CutMark, CutEnd, SendControlMessage, SendControlMessageErr, Post
    <3>2. ~shadowPod
      BY <2>2 DEF CutStart, CutMark, CutEnd, FeedInv, AfterBind
    <3> QED BY <1>0, <3>1, <3>2, DeliverQuiet
  <2>3. CASE CutScaleUp \/ CutStatus
    <3>1. UNCHANGED <<ready, applied, inflight, on, published, swapFrom, podSrc, lossy,
                      shadowPod, ctrl>>
      BY <2>3 DEF CutScaleUp, FinalScaleUp, CutStatus
    <3> QED BY <1>0, <3>1, DeliverQuiet
  <2> QED BY <1>4, <2>1, <2>2, <2>3
<1>5. CASE CutStats
  BY <1>0, <1>5, DeliverQuiet DEF CutStats, Inspect, InspectErr, NotFound
<1>6. CASE CutDeleteShadow
  <2>1. UNCHANGED <<ready, applied, inflight, on, published, swapFrom, podSrc, lossy, ctrl>>
        /\ shadowPod' = FALSE
    BY <1>6 DEF CutDeleteShadow, DeleteShadow
  <2>2. InPrimary \subseteq InPrimary'
    BY <2>1 DEF InPrimary
  <2>3. Held \subseteq Held'
    BY <2>1, <2>2 DEF Held
  <2>4. CASE swapFrom = -1 \/ lossy
    BY <2>1, <2>4 DEF DeliverInv
  <2>5. CASE swapFrom # -1 /\ ~lossy
    BY <1>0, <2>1, <2>3, <2>5, DeliverGrows
  <2> QED BY <2>4, <2>5
<1>7. ASSUME NEW q \in {"replay", "buffer"}, Delete(q), ~lossy => ready[q] \subseteq returned,
             ~shadowPod, podSrc = "running",
             UNCHANGED <<applied, inflight, published, swapFrom, podSrc, lossy, shadowPod>>
      PROVE  DeliverInv'
  <2>1. ready \in [Queues -> SUBSET Msgs] /\ on \in [Procs -> Positions]
    BY DEF TypeOK, MessagingTypeOK
  <2>2. \A r \in Queues \ {q} : ready'[r] = ready[r]
    BY <1>7, <2>1 DEF Delete
  <2>3. on["shadow"] = "primary" <=> on'["shadow"] = "primary"
    BY <1>7, <2>1 DEF Delete, Procs
  <2>4. InPrimary' = InPrimary
    BY <1>7, <2>2, <2>3 DEF InPrimary, Queues
  <2>5. Held \subseteq Held' \cup ready[q]
    BY <1>7, <2>2, <2>4 DEF Held, Queues
  <2>6. CASE swapFrom = -1 \/ lossy
    BY <1>7, <2>6 DEF DeliverInv
  <2>7. CASE swapFrom # -1 /\ ~lossy
    <3>1. Held \subseteq Held' \cup returned' \cup outlived'
      BY <1>0, <1>7, <2>5, <2>7
    <3> QED BY <1>0, <1>7, <2>7, <3>1, DeliverGrows
  <2> QED BY <2>6, <2>7
<1>8. CASE CutDeleteSwap \/ CutDeleteBuffer
  <2>1. pc \in {"cut.deleteSwap", "cut.deleteBuffer"}
    BY <1>8 DEF CutDeleteSwap, CutDeleteBuffer
  <2>2. sub = "FenceCutover"
    BY <2>1 DEF ControlInv, AtHome, CutLabels
  <2>3. podSrc = "running" /\ chan = "open" /\ ~shadowPod
    BY <2>1, <2>2 DEF IdentityInv, LateSubs, CalmInv, Over, FeedInv, AfterBind
  <2>4. UNCHANGED <<applied, inflight, published, swapFrom, podSrc, lossy, shadowPod>>
        /\ (Delete("replay") \/ (Delete("buffer") /\ pc = "cut.deleteBuffer"))
    BY <1>8, <2>3 DEF CutDeleteSwap, DeleteSecondaryQueue, DeleteSecondaryQueueErr,
       CutDeleteBuffer, DeleteQueue, DeleteQueueErr
  <2>5. ~lossy => ready["replay"] \subseteq returned
    BY <2>2 DEF FeedInv
  <2>6. ~lossy /\ pc = "cut.deleteBuffer" => ready["buffer"] \subseteq returned
    BY DEF FeedInv
  <2> QED BY <1>7, <2>3, <2>4, <2>5, <2>6
<1> QED BY <1>1, <1>2, <1>3, <1>4, <1>5, <1>6, <1>8 DEF FenceCutover

\* A message is published where the replacement will find it.
LEMMA DeliverPublish ==
  ASSUME TypeOK, ProcInv, FeedInv, DeliverInv, Producer
  PROVE  DeliverInv'
<1>1. /\ ready' = [q \in Queues |-> IF q \in bound THEN ready[q] \cup {published + 1}
                                                   ELSE ready[q]]
      /\ published' = published + 1
      /\ UNCHANGED <<bound, on, applied, inflight, swapFrom, lossy, podSrc, shadowPod,
                     ctrl, returned, outlived>>
  BY DEF Producer, Publish, consumerVars, podVars, histVars
<1>2. New' \subseteq New \cup {published + 1}
  <2>1. published \in Int
    BY DEF TypeOK, MessagingTypeOK
  <2> QED BY <1>1, <2>1 DEF New, Msgs
<1>3. \A q \in Queues : /\ ready[q] \subseteq ready'[q]
                         /\ q \in bound => published + 1 \in ready'[q]
  BY <1>1
<1>4. CASE swapFrom # -1 /\ ~lossy
  <2>1. podSrc # "running" => "replay" \in bound
    BY <1>4 DEF FeedInv
  <2>2. \/ "replay" \in bound
        \/ "buffer" \in bound
        \/ "primary" \in bound /\ ~shadowPod
    BY <1>4 DEF FeedInv
  <2>3. InPrimary \subseteq InPrimary'
    BY <1>1, <1>3 DEF InPrimary, Queues
  <2>4. Held \subseteq Held'
    BY <1>1, <1>3, <2>3 DEF Held, Queues
  <2>5. published + 1 \in Held'
    BY <1>1, <1>3, <2>2 DEF Held, InPrimary, Queues
  <2>6. podSrc' # "running" => New' \subseteq ready'["replay"]
    BY <1>1, <1>2, <1>3, <1>4, <2>1 DEF DeliverInv, Queues
  <2>7. podSrc' = "running" => New' \subseteq Held' \cup returned' \cup outlived'
    BY <1>1, <1>2, <1>4, <2>4, <2>5 DEF DeliverInv
  <2>8. shadowPod' /\ on'["replacement"] = "primary"
          => New' \subseteq ready'["replay"] \cup ready'["buffer"]
    BY <1>1, <1>2, <1>3, <1>4, <2>2 DEF DeliverInv, Queues
  <2> QED BY <1>1, <1>4, <2>6, <2>7, <2>8 DEF DeliverInv
<1> QED BY <1>1, <1>4 DEF DeliverInv

\* A consumer takes the oldest message of its queue.
LEMMA DeliverTakes ==
  ASSUME TypeOK, ProcInv, DeliverInv, swapFrom # -1, ~lossy,
         UNCHANGED <<swapFrom, lossy, podSrc, shadowPod, outlived>>,
         NEW p \in Procs, Deliver(p)
  PROVE  DeliverInv'
<1>1. ready \in [Queues -> SUBSET Msgs] /\ inflight \in [Procs -> SUBSET Msgs]
  BY DEF TypeOK, MessagingTypeOK
<1>2. PICK m \in ready[on[p]] :
        /\ ready' = [ready EXCEPT ![on[p]] = @ \ {m}]
        /\ inflight' = [inflight EXCEPT ![p] = @ \cup {m}]
  BY DEF Deliver, Oldest
<1>3. on[p] \in Queues /\ UNCHANGED <<published, applied, on, ctrl, returned>>
  BY DEF Deliver
<1>4. /\ \A q \in Queues : ready[q] \subseteq ready'[q] \cup {m}
      /\ \A q \in Queues : q # on[p] => ready'[q] = ready[q]
      /\ \A r \in Procs : inflight[r] \subseteq inflight'[r]
      /\ m \in inflight'[p]
  BY <1>1, <1>2, <1>3
<1>5. CASE p = "replacement"
  <2>1. podSrc = "running"
    BY <1>3, <1>5 DEF ProcInv, Queues
  <2>2. InPrimary \subseteq InPrimary' \cup {m}
    BY <1>3, <1>4 DEF InPrimary, Queues, Procs
  <2>3. Held \subseteq Held'
    BY <1>3, <1>4, <1>5, <2>2 DEF Held, Queues, Procs
  <2>4. on'["replacement"] = "primary"
          => ready'["replay"] = ready["replay"] /\ ready'["buffer"] = ready["buffer"]
    BY <1>3, <1>4, <1>5 DEF Queues
  <2> QED BY <1>3, <2>1, <2>3, <2>4, DeliverGrows
<1>6. CASE p # "replacement"
  <2>1. on[p] = "primary"
    BY <1>3, <1>6 DEF ProcInv, Procs, Queues
  <2>2. ready'["replay"] = ready["replay"] /\ ready'["buffer"] = ready["buffer"]
    BY <1>4, <2>1 DEF Queues
  <2>3. podSrc = "running" => p = "shadow"
    BY <1>6, <2>1 DEF ProcInv, Procs
  <2>4. podSrc = "running" => InPrimary \subseteq InPrimary'
    BY <1>3, <1>4, <2>1, <2>3 DEF InPrimary, Queues, Procs
  <2>5. podSrc = "running" => Held \subseteq Held'
    BY <1>3, <1>4, <2>2, <2>4 DEF Held, Procs
  <2> QED BY <1>3, <2>2, <2>5, DeliverGrows
<1> QED BY <1>5, <1>6

\* A consumer that switches puts back what it holds.  The source reads no control
\* message, and the replacement does not return to the primary queue while the shadow
\* pod is there.
LEMMA DeliverSwitches ==
  ASSUME TypeOK, ProcInv, DeliverInv, swapFrom # -1, ~lossy,
         UNCHANGED <<swapFrom, lossy, podSrc, shadowPod, outlived>>,
         NEW p \in Procs, ReadControl(p)
  PROVE  DeliverInv'
<1>1. ctrl \in [Names -> Seq(ControlMsgs)] /\ on[p] # "off"
  BY DEF TypeOK, MessagingTypeOK, ReadControl
<1>2. /\ UNCHANGED <<applied, published>> /\ returned \subseteq returned'
      /\ \A q \in Queues : ready[q] \subseteq ready'[q]
      /\ \A r \in Procs \ {p} : inflight'[r] = inflight[r] /\ on'[r] = on[r]
      /\ \/ inflight'[p] = inflight[p] /\ on'[p] = on[p]
         \/ on[p] = "primary" /\ inflight[p] \subseteq ready'["primary"]
         \/ on[p] # "primary" /\ inflight[p] \subseteq returned'
      /\ on'[p] \in {on[p], ctrl[PodName(p)][Len(ctrl[PodName(p)])].queue}
      /\ ctrl' = [ctrl EXCEPT ![PodName(p)] = <<>>] /\ ctrl[PodName(p)] # <<>>
  BY SwitchReturns
<1>3. p # "source"
  BY <1>1, <1>2 DEF ProcInv, PodName
<1>4. CASE p = "shadow"
  <2>1. ctrl'["src"] = ctrl["src"]
    BY <1>1, <1>2, <1>4 DEF PodName, Names
  <2>2. InPrimary \subseteq InPrimary'
    BY <1>2, <1>4 DEF InPrimary, Queues
  <2>3. Held \subseteq Held' /\ on'["replacement"] = on["replacement"]
    BY <1>2, <1>4, <2>2 DEF Held, Queues, Procs
  <2> QED BY <1>2, <2>1, <2>3, DeliverGrows DEF Queues
<1>5. CASE p = "replacement"
  <2>1. podSrc = "running"
    BY <1>1, <1>5 DEF ProcInv
  <2>2. ctrl'["src"] = <<>>
    BY <1>1, <1>2, <1>5 DEF PodName, Names
  <2>3. shadowPod /\ on'["replacement"] = "primary" => on["replacement"] = "primary"
    <3>1. ASSUME shadowPod, on'["replacement"] = "primary", on["replacement"] # "primary"
          PROVE  FALSE
      <4>1. ctrl["src"] \in Seq(ControlMsgs) /\ ctrl["src"] # <<>>
        BY <1>1, <1>2, <1>5 DEF PodName, Names
      <4>2. Len(ctrl["src"]) \in 1 .. Len(ctrl["src"])
        BY <4>1
      <4>3. ctrl["src"][Len(ctrl["src"])] \in ControlMsgs
        BY <4>1, <4>2
      <4>4. ctrl["src"][Len(ctrl["src"])].queue = "primary"
        BY <1>2, <1>5, <3>1 DEF PodName
      <4>5. ctrl["src"][Len(ctrl["src"])] = EndReplay
        BY <4>3, <4>4 DEF ControlMsgs, StartReplay
      <4> QED BY <3>1, <4>2, <4>5 DEF DeliverInv
    <3> QED BY <3>1
  <2>4. InPrimary \subseteq InPrimary'
    BY <1>2, <1>5 DEF InPrimary, Queues, Procs
  <2>5. CASE on["replacement"] = "primary" /\ shadowPod
    <3>1. New \subseteq ready["replay"] \cup ready["buffer"] /\ New' = New
      BY <1>2, <2>5 DEF DeliverInv, New
    <3>2. New' \subseteq ready'["replay"] \cup ready'["buffer"]
      BY <1>2, <3>1 DEF Queues
    <3> QED BY <2>1, <2>2, <3>2 DEF DeliverInv, Held
  <2>6. CASE ~(on["replacement"] = "primary" /\ shadowPod)
    <3>1. inflight["replacement"] \subseteq inflight'["replacement"] \cup InPrimary'
                                            \cup returned'
      BY <1>2, <1>5, <2>6 DEF InPrimary
    <3>2. Held \subseteq Held' \cup returned' \cup outlived'
      BY <1>2, <2>4, <3>1 DEF Held, Queues
    <3> QED BY <1>2, <2>1, <2>2, <2>3, <2>6, <3>2, DeliverGrows
  <2> QED BY <2>5, <2>6
<1> QED BY <1>3, <1>4, <1>5 DEF Procs

\* The processes: what the replacement takes from a queue it holds, and what it holds it
\* processes; what the shadow processes after its deletion it takes from the replacement.
LEMMA DeliverConsume ==
  ASSUME TypeOK, ProcInv, DeliverInv, NEW p \in Procs, Consumer(p)
  PROVE  DeliverInv'
<1>1. UNCHANGED <<swapFrom, lossy, podSrc, shadowPod>>
  BY DEF Consumer, podVars
<1>2. CASE swapFrom = -1 \/ lossy
  BY <1>1, <1>2 DEF DeliverInv
<1>3. CASE swapFrom # -1 /\ ~lossy
  <2>1. CASE Process(p) /\ outlived' = IF p = "shadow" /\ ~shadowPod
               THEN outlived \cup (inflight[p] \ inflight'[p]) ELSE outlived
    <3>1. inflight \in [Procs -> SUBSET Msgs] /\ applied \in [Procs -> SUBSET Msgs]
      BY DEF TypeOK, MessagingTypeOK
    <3>2. PICK m :
            /\ applied' = [applied EXCEPT ![p] = @ \cup {m}]
            /\ inflight' = [inflight EXCEPT ![p] = @ \ {m}]
      BY <2>1 DEF Process
    <3>3. UNCHANGED <<ready, published, on, ctrl, returned>>
      BY <2>1 DEF Process
    <3>4. applied["replacement"] \cup inflight["replacement"]
            \subseteq applied'["replacement"] \cup inflight'["replacement"]
      BY <3>1, <3>2 DEF Procs
    <3>5. outlived \subseteq outlived'
          /\ (~shadowPod => inflight["shadow"] \subseteq inflight'["shadow"] \cup outlived')
      BY <2>1, <3>1, <3>2 DEF Procs
    <3>6. InPrimary \subseteq InPrimary' \cup outlived'
      BY <1>1, <3>3, <3>5 DEF InPrimary
    <3>7. Held \subseteq Held' \cup returned' \cup outlived'
      BY <3>3, <3>4, <3>6 DEF Held
    <3> QED BY <1>1, <1>3, <3>3, <3>5, <3>7, DeliverGrows
  <2>2. CASE Deliver(p) /\ UNCHANGED outlived
    BY <1>1, <1>3, <2>2, DeliverTakes
  <2>3. CASE ReadControl(p) /\ UNCHANGED outlived
    BY <1>1, <1>3, <2>3, DeliverSwitches
  <2> QED BY <2>1, <2>2, <2>3 DEF Consumer
<1> QED BY <1>2, <1>3

\* The cluster: a process that ends returns what it holds, and the replacement starts
\* with the swap queue as it is.
LEMMA DeliverCluster ==
  ASSUME TypeOK, ProcInv, DeliverInv, Cluster
  PROVE  DeliverInv'
<1> USE DEF mqVars, mqRest, podVars, histVars
<1>1. UNCHANGED <<swapFrom, lossy, published, shadowPod, returned, outlived>>
  BY DEF Cluster, StsScaleDown, Stop, KubeletKill, KubeletStart, Restore, JobEnds,
     consumerVars
<1>2. CASE swapFrom = -1 \/ lossy
  BY <1>1, <1>2 DEF DeliverInv
<1>3. CASE (StsScaleDown \/ KubeletKill) /\ swapFrom # -1 /\ ~lossy
  <2>1. PICK p \in {"source", "shadow"} : Stop(p)
    BY <1>3 DEF StsScaleDown, KubeletKill
  <2>2. podSrc' = podSrc \/ (podSrc # "running" /\ podSrc' # "running")
    BY <1>3 DEF StsScaleDown, KubeletKill
  <2>3. /\ ready'["replay"] = ready["replay"] /\ ready'["buffer"] = ready["buffer"]
        /\ UNCHANGED <<applied, ctrl>>
        /\ inflight'["replacement"] = inflight["replacement"]
        /\ on'["replacement"] = on["replacement"]
        /\ InPrimary \subseteq InPrimary'
    BY <1>1, <1>3, <2>1, StopReturns
  <2>4. New' = New /\ Held \subseteq Held'
    BY <1>1, <2>3 DEF New, Held
  <2> QED BY <1>1, <1>3, <2>2, <2>3, <2>4 DEF DeliverInv
<1>4. CASE KubeletStart /\ swapFrom # -1 /\ ~lossy
  <2>1. podSrc # "running" /\ podSrc' = "running" /\ ready' = ready /\ ctrl' = ctrl
    BY <1>4 DEF KubeletStart, Restore
  <2>2. New' = New /\ New \subseteq ready'["replay"] /\ ctrl'["src"] = <<>>
    BY <1>1, <1>4, <2>1 DEF DeliverInv, New, ProcInv
  <2> QED BY <2>1, <2>2 DEF DeliverInv, Held
<1>5. CASE JobEnds
  BY <1>1, <1>5, DeliverQuiet DEF JobEnds, consumerVars
<1> QED BY <1>2, <1>3, <1>4, <1>5 DEF Cluster

\* NothingForgotten holds in every reachable state of a calm run, in both modes and
\* for any number of messages, any prefetch and any image: a message published since
\* the swap queue was bound reaches the replacement, was put back into a queue by the
\* consumer that left it, or was taken by the shadow's process after its pod was
\* deleted, as long as the swap did not give up completeness.
THEOREM NothingEverForgotten ==
  ASSUME Calm
  PROVE  Spec => []NothingForgotten
<1>1. Init => DeliverInv
  BY DEF Init, DeliverInv
<1>2. /\ TypeOK /\ ControlInv /\ IdentityInv /\ CalmInv /\ ProcInv /\ LossInv /\ FeedInv
      /\ FreshInv /\ DeliverInv /\ [Next]_vars
      => DeliverInv'
  <2>1. ASSUME TypeOK, ControlInv, IdentityInv, CalmInv, ProcInv, LossInv, FeedInv, DeliverInv,
               MiniReplay \/ TrafficSwitch \/ Rollback
        PROVE  DeliverInv'
    BY <2>1, FeedLossy DEF DeliverInv
  <2>2. ASSUME DeliverInv, Tick \/ Done \/ UNCHANGED vars
        PROVE  DeliverInv'
    BY <2>2, DeliverQuiet DEF Tick, Done, vars, mqVars, podVars, histVars, consumerVars
  <2> QED BY <2>1, <2>2, DeliverEarly, DeliverLate, DeliverPublish, DeliverConsume,
          DeliverCluster, OutsideStep DEF Next, Controller
<1>3. ProcInv /\ DeliverInv => NothingForgotten
  BY DEF NothingForgotten, SwapMsgs, DeliverInv, New, Held, Reaches
<1> QED BY <1>1, <1>2, <1>3, TypeCorrect, ControlAlways, IdentityAlways, CalmAlways,
        ProcAlways, LossAlways, FeedAlways, FreshAlways, PTL DEF Spec

-----------------------------------------------------------------------------
(***************************************************************************)
(* Release.  The replacement is released when it consumes the primary      *)
(* queue with nothing left to read, or END_REPLAY is the last message it   *)
(* will read.  A replacement restored in restore mode ignores END_REPLAY   *)
(* unless START_REPLAY is read with it or before it, so the order in which *)
(* the handlers send the two is what the invariant is about.               *)
(***************************************************************************)
EndLabels == {"ts.deleteQueue", "ts.deleteShadow", "ts.scaleUp", "ts.status",
              "cut.deleteSwap", "cut.deleteBuffer", "cut.scaleUp", "cut.status"}

\* END_REPLAY has been sent to the replacement.
Ended == pc \in EndLabels \/ Over

\* START_REPLAY has been sent to the replacement.
Started ==
  \/ sub \in {"ExchangeFence", "ParallelDrain", "FenceCutover", "TrafficSwitch"}
  \/ sub = "PreFenceDrain"
     /\ ("PreFence" \in timers \/ pc \in PreLabels \ {"pre.depth", "pre.start"})
  \/ sub = "MiniReplay"
     /\ ("MiniReplay" \in timers \/ pc \in MiniLabels \ {"mini.unbind", "mini.start"})
  \/ Over

\* The timers that make a handler skip START_REPLAY are not left over, and the swap
\* ends with the replacement running.
StageInv ==
  /\ sub \in {"ReCheckpoint", "SwapTransfer", "CreateReplacement"} => timers = {}
  /\ sub = "" /\ ~repl => timers = {}
  /\ Over => podSrc = "running"

StartSent == \E i \in 1 .. Len(ctrl["src"]) : ctrl["src"][i].type = "START_REPLAY"
EndLast   == ctrl["src"] # <<>> /\ ctrl["src"][Len(ctrl["src"])] = EndReplay

ReleaseInv ==
  /\ on["replacement"] \in Queues => want["replacement"] = on["replacement"]
  /\ on["replacement"] = "none" => want["replacement"] # "primary"
  /\ Started /\ on["replacement"] = "wait" => StartSent
  /\ Ended => (on["replacement"] = "primary" /\ ctrl["src"] = <<>>) \/ EndLast

-----------------------------------------------------------------------------
\* The handlers keep the stage.
LEMMA StageController ==
  ASSUME TypeOK, ControlInv, IdentityInv, StageInv, Controller
  PROVE  StageInv'
<1>0. repl \in BOOLEAN
  BY DEF ControlInv
<1> USE <1>0 DEF Broker, Patch, PatchIgnored, statusVars, podVars, Over
<1>1. CASE Reconcile \/ Dispatch \/ FinDeleteQueue \/ FinEndReplay \/ FinClose
  <2>1. UNCHANGED <<sub, repl, timers, podSrc>>
    BY <1>1 DEF Reconcile, Dispatch, FinDeleteQueue, FinEndReplay, FinClose
  <2> QED BY <2>1 DEF StageInv
<1>2. CASE FinComplete
  <2>1. UNCHANGED <<repl, timers, podSrc>> /\ sub' \in {sub, ""} /\ sub = "" /\ repl
    BY <1>2 DEF FinComplete, ControlInv
  <2> QED BY <2>1 DEF StageInv
<1>3. CASE Prepare
  <2>1. UNCHANGED <<repl, timers>> /\ sub' \in {sub, "ReCheckpoint"} /\ pc \in PrepLabels
    BY <1>3 DEF Prepare, PrepConnect, PrepCreateQueue, PrepScaleDown, PrepDeleteSource,
       DeleteSource, PrepStatus, PrepLabels
  <2>2. sub = "" /\ ~repl
    BY <2>1 DEF ControlInv, PrepLabels, AtHome, FirstLabels
  <2> QED BY <2>1, <2>2 DEF StageInv
<1>4. CASE ReCheckpoint \/ SwapTransfer \/ CreateReplacement
  <2>1. timers' = timers /\ sub' \in {sub, "SwapTransfer", "CreateReplacement",
                                      "PreFenceDrain", "MiniReplay"}
        /\ pc \in CkptLabels \cup XferLabels \cup CreateLabels
    BY <1>4 DEF ReCheckpoint, CkptCall, CkptStatus, CkptFallback, SwapTransfer, XferLoad,
       XferStatus, CreateReplacement, CreateGet, CreateScaleDown, CreateDeleteSource,
       DeleteSource, CreateScaleUp, CreateRecord, CreateRunning, CkptLabels, XferLabels,
       CreateLabels
  <2>2. sub \in {"ReCheckpoint", "SwapTransfer", "CreateReplacement"}
    BY <2>1 DEF ControlInv, AtHome, CkptLabels, XferLabels, CreateLabels
  <2> QED BY <2>1, <2>2 DEF StageInv
<1>5. CASE LateStep
  <2>1. podSrc' = "running"
    BY <1>5, LateStepShape DEF IdentityInv
  <2>2. sub \in LateSubs /\ repl
    <3>1. pc \in MiniLabels \cup SwitchLabels \cup PreLabels \cup FenceLabels
               \cup DrainLabels \cup CutLabels
      BY <1>5 DEF LateStep, MiniReplay, MiniUnbind, MiniStart, MiniMark, MiniPoll,
         MiniStatus, TrafficSwitch, TsEnd, TsDeleteQueue, TsDeleteShadow, DeleteShadow,
         TsScaleUp, FinalScaleUp, TsStatus, PreFenceDrain, PreDepth, PreStart, PreMark,
         PrePoll, PrePrimary, PreUnbind, PreToCutoff, PreToFence, ExchangeFence,
         FencePrimaryDepth, FenceSwapDepth, FenceBuffer, FenceUnbindPrimary,
         FenceUnbindSwap, FenceStatus, ParallelDrain, DrainPrimary, DrainSwap, DrainStatus,
         Rollback, RbBindPrimary, RbBindSwap, RbDepth, RbUnbindBuffer, RbDeleteBuffer,
         RbStatus, FenceCutover, CutDeleteShadow, CutBindPrimary, CutUnbindBuffer,
         CutStats, CutStart, CutMark, CutEnd, CutDeleteSwap, CutDeleteBuffer, CutScaleUp,
         CutStatus, MiniLabels, SwitchLabels, PreLabels, FenceLabels, DrainLabels,
         RbLabels, CutLabels
    <3> QED BY <3>1 DEF ControlInv, AtHome, LateSubs
  <2>3. repl' = repl /\ sub' \in {sub, ""} \cup LateSubs
    BY <1>5 DEF LateStep, MiniReplay, MiniUnbind, MiniStart, MiniMark, MiniPoll,
       MiniStatus, TrafficSwitch, TsEnd, TsDeleteQueue, TsDeleteShadow, DeleteShadow,
       TsScaleUp, FinalScaleUp, TsStatus, PreFenceDrain, PreDepth, PreStart, PreMark,
       PrePoll, PrePrimary, PreUnbind, PreToCutoff, PreToFence, ExchangeFence,
       FencePrimaryDepth, FenceSwapDepth, FenceBuffer, FenceUnbindPrimary,
       FenceUnbindSwap, FenceStatus, ParallelDrain, DrainPrimary, DrainSwap, DrainStatus,
       Rollback, RbBindPrimary, RbBindSwap, RbDepth, RbUnbindBuffer, RbDeleteBuffer,
       RbStatus, FenceCutover, CutDeleteShadow, CutBindPrimary, CutUnbindBuffer,
       CutStats, CutStart, CutMark, CutEnd, CutDeleteSwap, CutDeleteBuffer, CutScaleUp,
       CutStatus, LateSubs
  <2> QED BY <2>1, <2>2, <2>3 DEF StageInv, LateSubs
<1> QED BY <1>1, <1>2, <1>3, <1>4, <1>5 DEF Controller, Finalize, LateStep

\* The stage holds in every reachable state, whatever fails.
LEMMA StageAlways == Spec => []StageInv
<1>1. Init => StageInv
  BY DEF Init, StageInv, Over
<1>2. TypeOK /\ ControlInv /\ IdentityInv /\ StageInv /\ [Next]_vars => StageInv'
  <2>1. ASSUME ControlInv, StageInv,
               \/ Crash \/ OtherMigration \/ Tick \/ Cluster \/ Producer \/ Done
               \/ \E p \in Procs : Consumer(p)
               \/ UNCHANGED vars
        PROVE  StageInv'
    <3>1. UNCHANGED <<sub, repl, timers>> /\ (podSrc = "running" => podSrc' = "running")
      BY <2>1 DEF Crash, OtherMigration, Tick, Cluster, StsScaleDown, KubeletKill,
         KubeletStart, JobEnds, Producer, Consumer, Done, vars, statusVars, podVars
    <3> QED BY <2>1, <3>1 DEF StageInv, Over, ControlInv
  <2> QED BY <2>1, StageController DEF Next
<1> QED BY <1>1, <1>2, TypeCorrect, ControlAlways, IdentityAlways, PTL DEF Spec

-----------------------------------------------------------------------------
\* A step that sends nothing to the replacement and leaves it alone.
LEMMA ReleaseQuiet ==
  ASSUME ReleaseInv, ctrl'["src"] = ctrl["src"],
         on'["replacement"] = on["replacement"], want'["replacement"] = want["replacement"],
         Started' => Started \/ on["replacement"] = "off",
         Ended' => Ended
  PROVE  ReleaseInv'
BY DEF ReleaseInv, StartSent, EndLast

\* A replacement whose queue is deleted still has to be told to change queue.
LEMMA ReleaseDelete ==
  ASSUME TypeOK, ReleaseInv, NEW q \in {"replay", "buffer"},
         on' = [p \in Procs |-> IF on[p] = q THEN "none" ELSE on[p]],
         UNCHANGED <<ctrl, want>>,
         Started' => Started, Ended' => Ended
  PROVE  ReleaseInv'
<1>1. on'["replacement"] = IF on["replacement"] = q THEN "none" ELSE on["replacement"]
  BY DEF Procs
<1> QED BY <1>1 DEF ReleaseInv, StartSent, EndLast, Queues

\* No reconcile begins after END_REPLAY, or after START_REPLAY unless it was sent before.
LEMMA StartRelease ==
  ASSUME ControlInv
  PROVE  /\ Start(sub) \notin EndLabels
         /\ Start(sub) \in PreLabels \ {"pre.depth", "pre.start"} => "PreFence" \in timers
         /\ Start(sub) \in MiniLabels \ {"mini.unbind", "mini.start"} => "MiniReplay" \in timers
BY StartIs DEF ControlInv, SubPhases, EndLabels, PreLabels, MiniLabels

\* handleFinalizing and the handlers up to the creation.
LEMMA ReleaseEarly ==
  ASSUME Calm, TypeOK, ControlInv, IdentityInv, CalmInv, ProcInv, StageInv, ReleaseInv,
         Finalize \/ Prepare \/ ReCheckpoint \/ SwapTransfer \/ CreateReplacement
  PROVE  ReleaseInv'
<1>0. repl \in BOOLEAN /\ ctrl \in [Names -> Seq(ControlMsgs)] /\ on \in [Procs -> Positions]
  BY DEF TypeOK, StatusTypeOK, MessagingTypeOK
<1> USE DEF Calm, Broker, Patch, statusVars, podVars, trafficVars, consumerVars,
            mqVars, mqRest, topoVars, clientVars, Fault, Succeeds, Fails
<1>1. CASE Reconcile \/ Dispatch
  <2>1. UNCHANGED <<ctrl, on, want, sub, repl, timers>>
        /\ pc' \in {"fin.endReplay", Start(sub)}
    BY <1>1 DEF Reconcile, Dispatch
  <2>2. Ended' => Ended
    BY <2>1, StartRelease DEF Ended, Over, EndLabels
  <2>3. Started' => Started
    BY <2>1, StartRelease DEF Started, Over, PreLabels, MiniLabels
  <2> QED BY <2>1, <2>2, <2>3, ReleaseQuiet
<1>2. CASE FinEndReplay \/ FinDeleteQueue
  <2>1. sub = "" /\ ~repl /\ tgt = "shadow" /\ chan = "open"
    BY <1>2 DEF FinEndReplay, FinDeleteQueue, CalmInv, ControlInv, AtHome, FirstLabels, Over
  <2>2. UNCHANGED <<sub, repl, want>> /\ pc' \in {"fin.deleteQueue", Start(sub)}
    BY <1>2 DEF FinEndReplay, FinDeleteQueue
  <2>3. ~Ended' /\ ~Started'
    BY <2>1, <2>2, StartRelease DEF Ended, Started, Over, EndLabels
  <2>4. CASE FinEndReplay
    <3>1. ctrl' = [ctrl EXCEPT !["shadow"] = Append(@, EndReplay)] /\ on' = on
      BY <2>1, <2>4 DEF FinEndReplay, SendControlMessage, SendControlMessageErr, Post
    <3>2. ctrl'["src"] = ctrl["src"]
      BY <1>0, <3>1 DEF Names
    <3> QED BY <2>2, <2>3, <3>1, <3>2, ReleaseQuiet
  <2>5. CASE FinDeleteQueue
    <3>1. ctrl' = ctrl /\ on' = [p \in Procs |-> IF on[p] = "replay" THEN "none" ELSE on[p]]
      BY <2>1, <2>5 DEF FinDeleteQueue, DeleteSecondaryQueue, DeleteSecondaryQueueErr, Delete
    <3> QED BY <2>2, <2>3, <3>1, ReleaseDelete
  <2> QED BY <1>2, <2>4, <2>5
<1>3. CASE FinClose \/ FinComplete
  <2>1. UNCHANGED <<ctrl, on, want, repl, timers>> /\ pc' \in {"fin.complete", "idle"}
        /\ sub = "" /\ repl
    BY <1>3 DEF FinClose, Close, FinComplete, ControlInv
  <2>2. Ended /\ Started
    BY <2>1 DEF Ended, Started, Over
  <2> QED BY <2>1, <2>2, ReleaseQuiet
<1>4. CASE Prepare
  <2>1. UNCHANGED <<repl, ctrl, want>> /\ sub' \in {sub, "ReCheckpoint"} /\ pc \in PrepLabels
        /\ pc' \in PrepLabels \cup {"idle", "dispatch"}
    BY <1>4 DEF Prepare, PrepConnect, Connect, ConnectErr, PrepCreateQueue,
       CreateSecondaryQueue, CreateSecondaryQueueErr, CreateSecondary, PrepScaleDown,
       PrepDeleteSource, DeleteSource, Stop, PrepStatus, PrepLabels
  <2>2. sub = "" /\ ~repl
    BY <2>1 DEF ControlInv, PrepLabels, AtHome, FirstLabels
  <2>3. ~Ended' /\ ~Started'
    BY <2>1, <2>2 DEF Ended, Started, Over, EndLabels, PrepLabels
  <2>4. on'["replacement"] = on["replacement"]
    <3>1. on' = on \/ on' = [on EXCEPT !["source"] = "off"]
      BY <1>4 DEF Prepare, PrepConnect, Connect, ConnectErr, PrepCreateQueue,
         CreateSecondaryQueue, CreateSecondaryQueueErr, CreateSecondary, PrepScaleDown,
         PrepDeleteSource, DeleteSource, Stop, PrepStatus
    <3> QED BY <1>0, <3>1 DEF Procs
  <2> QED BY <2>1, <2>3, <2>4, ReleaseQuiet
<1>5. CASE ReCheckpoint \/ SwapTransfer
  <2>1. UNCHANGED <<ctrl, want, on>> /\ sub' \in {sub, "SwapTransfer", "CreateReplacement"}
        /\ pc \in CkptLabels \cup XferLabels
        /\ pc' \in CkptLabels \cup XferLabels \cup {"idle", "dispatch"}
    BY <1>5 DEF ReCheckpoint, CkptCall, CkptStatus, CkptFallback, SwapTransfer, XferLoad,
       XferStatus, CkptLabels, XferLabels
  <2>2. sub \in {"ReCheckpoint", "SwapTransfer"}
    BY <2>1 DEF ControlInv, AtHome, CkptLabels, XferLabels
  <2>3. ~Ended' /\ ~Started'
    BY <2>1, <2>2 DEF Ended, Started, Over, EndLabels, CkptLabels, XferLabels
  <2> QED BY <2>1, <2>3, ReleaseQuiet
<1>6. CASE CreateReplacement
  <2>1. UNCHANGED <<ctrl, want, timers>> /\ sub' \in {sub, "PreFenceDrain", "MiniReplay"}
        /\ pc \in CreateLabels /\ pc' \in CreateLabels \cup {"idle", "dispatch"}
    BY <1>6 DEF CreateReplacement, CreateGet, CreateScaleDown, CreateDeleteSource,
       DeleteSource, Stop, CreateScaleUp, CreateRecord, CreateRunning, CreateLabels
  <2>2. sub = "CreateReplacement" /\ timers = {}
    BY <2>1 DEF ControlInv, AtHome, CreateLabels, StageInv
  <2>3. ~Ended' /\ ~Started'
    BY <2>1, <2>2 DEF Ended, Started, Over, EndLabels, CreateLabels, PreLabels, MiniLabels
  <2>4. on'["replacement"] = on["replacement"]
    <3>1. on' = on \/ on' = [on EXCEPT !["source"] = "off"]
      BY <1>6 DEF CreateReplacement, CreateGet, CreateScaleDown, CreateDeleteSource,
         DeleteSource, Stop, CreateScaleUp, CreateRecord, CreateRunning
    <3> QED BY <1>0, <3>1 DEF Procs
  <2> QED BY <2>1, <2>3, <2>4, ReleaseQuiet
<1> QED BY <1>1, <1>2, <1>3, <1>4, <1>5, <1>6 DEF Finalize

\* Only two calls send START_REPLAY for the first time, and only two END_REPLAY.
LEMMA LateProgress ==
  ASSUME ControlInv, LateStep
  PROVE  /\ ~(MiniStart \/ PreStart) => (Started' => Started)
         /\ ~(TsEnd \/ CutEnd) => (Ended' => Ended)
<1> USE DEF Broker, Patch, PatchIgnored, statusVars, ControlInv, AtHome, Over, EndLabels,
            Started, Ended
<1>1. CASE MiniReplay
  BY <1>1 DEF MiniReplay, MiniUnbind, MiniStart, MiniMark, MiniPoll, MiniStatus, MiniLabels
<1>2. CASE TrafficSwitch
  <2>1. sub = "TrafficSwitch"
    BY <1>2 DEF TrafficSwitch, TsEnd, TsDeleteQueue, TsDeleteShadow, DeleteShadow,
       TsScaleUp, FinalScaleUp, TsStatus, SwitchLabels
  <2>2. CASE TsEnd
    BY <2>1, <2>2 DEF TsEnd
  <2>3. CASE TsDeleteQueue \/ TsDeleteShadow \/ TsScaleUp \/ TsStatus
    BY <2>1, <2>3 DEF TsDeleteQueue, TsDeleteShadow, DeleteShadow, TsScaleUp, FinalScaleUp,
       TsStatus
  <2> QED BY <1>2, <2>2, <2>3 DEF TrafficSwitch
<1>3. CASE PreFenceDrain
  BY <1>3 DEF PreFenceDrain, PreDepth, PreStart, PreMark, PrePoll, PrePrimary, Decisions,
     PreUnbind, PreToCutoff, PreToFence, PreLabels
<1>4. CASE ExchangeFence
  BY <1>4 DEF ExchangeFence, FencePrimaryDepth, FenceSwapDepth, FenceBuffer,
     FenceUnbindPrimary, FenceUnbindSwap, FenceStatus, FenceLabels
<1>5. CASE ParallelDrain \/ Rollback
  BY <1>5 DEF ParallelDrain, DrainPrimary, DrainSwap, DrainStatus, Rollback,
     RbBindPrimary, RbBindSwap, RbDepth, RbUnbindBuffer, RbDeleteBuffer, RbStatus,
     DrainLabels, RbLabels
<1>6. CASE FenceCutover
  BY <1>6 DEF FenceCutover, CutDeleteShadow, DeleteShadow, CutBindPrimary,
     CutUnbindBuffer, CutStats, CutStart, CutMark, CutEnd, CutDeleteSwap, CutDeleteBuffer,
     CutScaleUp, FinalScaleUp, CutStatus, CutLabels
<1> QED BY <1>1, <1>2, <1>3, <1>4, <1>5, <1>6 DEF LateStep

\* The handlers after the creation.
LEMMA ReleaseLate ==
  ASSUME Calm, TypeOK, ControlInv, CalmInv, ReleaseInv, LateStep
  PROVE  ReleaseInv'
<1>0. /\ ctrl \in [Names -> Seq(ControlMsgs)] /\ on \in [Procs -> Positions]
      /\ ctrl["src"] \in Seq(ControlMsgs)
  BY DEF TypeOK, MessagingTypeOK, Names
<1> USE DEF Calm, Broker, Patch, PatchIgnored, statusVars, podVars, trafficVars, consumerVars,
            mqVars, mqRest, topoVars, clientVars, Fault, Succeeds, Fails
<1>1. ASSUME NEW msg, ctrl' = [ctrl EXCEPT !["src"] = Append(@, msg)]
      PROVE  /\ ctrl'["src"] = Append(ctrl["src"], msg)
             /\ StartSent => StartSent'
             /\ msg = StartReplay("replay") => StartSent'
             /\ msg = EndReplay => EndLast'
  <2>1. ctrl'["src"] = Append(ctrl["src"], msg)
    BY <1>0, <1>1 DEF Names
  <2>2. Len(ctrl'["src"]) = Len(ctrl["src"]) + 1 /\ Len(ctrl["src"]) \in Nat
        /\ ctrl'["src"][Len(ctrl["src"]) + 1] = msg
        /\ \A i \in 1 .. Len(ctrl["src"]) : ctrl'["src"][i] = ctrl["src"][i]
    BY <1>0, <2>1
  <2>3. msg = StartReplay("replay") => StartSent'
    BY <2>2 DEF StartSent, StartReplay
  <2>4. StartSent => StartSent'
    BY <2>2 DEF StartSent
  <2>5. msg = EndReplay => EndLast'
    BY <2>2 DEF EndLast
  <2> QED BY <2>1, <2>3, <2>4, <2>5
<1>2. CASE MiniStart \/ PreStart
  <2>1. sub \in {"MiniReplay", "PreFenceDrain"} /\ chan = "open"
    BY <1>2 DEF MiniStart, PreStart, ControlInv, AtHome, MiniLabels, PreLabels, CalmInv, Over
  <2>2. UNCHANGED <<on, want, sub>> /\ pc' \in {"mini.mark", "pre.mark"}
        /\ ctrl' = [ctrl EXCEPT !["src"] = Append(@, StartReplay("replay"))]
    BY <1>2, <2>1 DEF MiniStart, PreStart, SendControlMessage, SendControlMessageErr, Post
  <2>3. StartSent' /\ ~Ended'
    BY <1>1, <2>1, <2>2 DEF Ended, Over, EndLabels
  <2> QED BY <2>2, <2>3 DEF ReleaseInv
<1>3. CASE TsEnd \/ CutEnd
  <2>1. sub \in {"TrafficSwitch", "FenceCutover"} /\ chan = "open"
    BY <1>3 DEF TsEnd, CutEnd, ControlInv, AtHome, SwitchLabels, CutLabels, CalmInv, Over
  <2>2. UNCHANGED <<on, want>> /\ ctrl' = [ctrl EXCEPT !["src"] = Append(@, EndReplay)]
    BY <1>3, <2>1 DEF TsEnd, CutEnd, SendControlMessage, SendControlMessageErr, Post
  <2>3. EndLast' /\ (StartSent => StartSent') /\ Started
    BY <1>1, <2>1, <2>2 DEF Started
  <2> QED BY <2>2, <2>3 DEF ReleaseInv
<1>4. CASE CutStart
  <2>1. sub = "FenceCutover" /\ chan = "open"
    BY <1>4 DEF CutStart, ControlInv, AtHome, CutLabels, CalmInv, Over
  <2>2. UNCHANGED <<on, want, sub>> /\ pc' = "cut.mark"
        /\ ctrl' = [ctrl EXCEPT !["src"] = Append(@, StartReplay("buffer"))]
    BY <1>4, <2>1 DEF CutStart, SendControlMessage, SendControlMessageErr, Post
  <2>3. (StartSent => StartSent') /\ ~Ended' /\ Started
    BY <1>1, <2>1, <2>2 DEF Started, Ended, Over, EndLabels
  <2> QED BY <2>2, <2>3 DEF ReleaseInv
<1>5. CASE TsDeleteQueue \/ CutDeleteSwap \/ RbDeleteBuffer \/ CutDeleteBuffer
  <2>1. chan = "open" /\ ~(MiniStart \/ PreStart) /\ ~(TsEnd \/ CutEnd)
    BY <1>5 DEF TsDeleteQueue, CutDeleteSwap, RbDeleteBuffer, CutDeleteBuffer, MiniStart,
       PreStart, TsEnd, CutEnd, ControlInv, AtHome, SwitchLabels, CutLabels, DrainLabels,
       RbLabels, CalmInv, Over
  <2>2. UNCHANGED <<ctrl, want>>
        /\ \E q \in {"replay", "buffer"} :
             on' = [p \in Procs |-> IF on[p] = q THEN "none" ELSE on[p]]
    BY <1>5, <2>1 DEF TsDeleteQueue, CutDeleteSwap, RbDeleteBuffer, CutDeleteBuffer,
       DeleteSecondaryQueue, DeleteSecondaryQueueErr, DeleteQueue, DeleteQueueErr, Delete
  <2> QED BY <2>1, <2>2, LateProgress, ReleaseDelete
<1>6. CASE TsDeleteShadow \/ CutDeleteShadow
  <2>1. UNCHANGED <<ctrl, want>> /\ (on' = on \/ on' = [on EXCEPT !["shadow"] = "off"])
        /\ pc \in {"ts.deleteShadow", "cut.deleteShadow"}
    BY <1>6 DEF TsDeleteShadow, CutDeleteShadow, DeleteShadow, Stop
  <2>2. ~(MiniStart \/ PreStart) /\ ~(TsEnd \/ CutEnd)
    BY <2>1 DEF MiniStart, PreStart, TsEnd, CutEnd
  <2>3. on'["replacement"] = on["replacement"]
    BY <1>0, <2>1 DEF Procs
  <2> QED BY <2>1, <2>2, <2>3, LateProgress, ReleaseQuiet
<1>7. CASE /\ LateStep
           /\ ~(MiniStart \/ PreStart \/ TsEnd \/ CutStart \/ CutEnd)
           /\ ~(TsDeleteQueue \/ CutDeleteSwap \/ RbDeleteBuffer \/ CutDeleteBuffer)
           /\ ~(TsDeleteShadow \/ CutDeleteShadow)
  <2>1. UNCHANGED <<on, ctrl, want>>
    <3>1. CASE MiniReplay \/ TrafficSwitch \/ PreFenceDrain
      BY <1>7, <3>1 DEF MiniReplay, MiniUnbind, MiniMark, MiniPoll, MiniStatus,
         TrafficSwitch, TsScaleUp, TsStatus, PreFenceDrain, PreDepth, PreMark, PrePoll,
         PrePrimary, PreUnbind, PreToCutoff, PreToFence, UnbindQueue, UnbindQueueErr,
         Unbind, Inspect, InspectErr, NotFound, FinalScaleUp
    <3>2. CASE ExchangeFence \/ ParallelDrain
      BY <1>7, <3>2 DEF ExchangeFence, FencePrimaryDepth, FenceSwapDepth, FenceBuffer,
         FenceUnbindPrimary, FenceUnbindSwap, FenceStatus, ParallelDrain, DrainPrimary,
         DrainSwap, DrainStatus, UnbindQueue, UnbindQueueErr, Unbind, Inspect, InspectErr,
         NotFound, DeclareAndBindQueue, DeclareAndBindQueueErr, DeclareBind
    <3>3. CASE Rollback \/ FenceCutover
      BY <1>7, <3>3 DEF Rollback, RbBindPrimary, RbBindSwap, RbDepth, RbUnbindBuffer,
         RbStatus, FenceCutover, CutBindPrimary, CutUnbindBuffer, CutStats, CutMark,
         CutScaleUp, CutStatus, BindQueue, BindQueueErr, Bind, UnbindQueue,
         UnbindQueueErr, Unbind, Inspect, InspectErr, NotFound, FinalScaleUp
    <3> QED BY <1>7, <3>1, <3>2, <3>3 DEF LateStep
  <2> QED BY <1>7, <2>1, LateProgress, ReleaseQuiet
<1> QED BY <1>2, <1>3, <1>4, <1>5, <1>6, <1>7

\* The replacement reads its control queue: after END_REPLAY it is on the primary queue.
LEMMA ReleaseRead ==
  ASSUME TypeOK, ReleaseInv, ReadControl("replacement"), UNCHANGED <<pc, sub, repl, timers>>,
         Ended => Started
  PROVE  ReleaseInv'
<1> DEFINE msgs   == ctrl["src"]
           target == msgs[Len(msgs)].queue
           waits  == on["replacement"] = "wait"
                     /\ \A i \in 1 .. Len(msgs) : msgs[i].type = "END_REPLAY"
<1>1. /\ ctrl \in [Names -> Seq(ControlMsgs)] /\ on \in [Procs -> Positions]
      /\ want \in [Procs -> Queues]
  BY DEF TypeOK, MessagingTypeOK
<1>2. /\ on["replacement"] # "off" /\ msgs # <<>>
      /\ ctrl' = [ctrl EXCEPT !["src"] = <<>>]
      /\ want' = [want EXCEPT !["replacement"] = target]
      /\ IF ~waits /\ (on["replacement"] = "wait" \/ target # want["replacement"])
         THEN on' = [on EXCEPT !["replacement"] = target]
         ELSE on' = on
  BY DEF ReadControl, PodName
<1>3. msgs \in Seq(ControlMsgs) /\ Len(msgs) \in 1 .. Len(msgs)
  BY <1>1, <1>2 DEF Names
<1>4. msgs[Len(msgs)] \in ControlMsgs
  BY <1>3
<1>5. target \in Queues
  BY <1>4 DEF ControlMsgs, EndReplay, StartReplay, Queues
<1>6. on["replacement"] = "wait" /\ Started => ~waits
  BY DEF ReleaseInv, StartSent
<1>7. EndLast => target = "primary"
  BY DEF EndLast, EndReplay
<1> HIDE DEF target, waits
<1>8. ctrl'["src"] = <<>> /\ want'["replacement"] = target
  BY <1>1, <1>2, <1>5 DEF Names, Procs
<1>9. CASE ~waits /\ (on["replacement"] = "wait" \/ target # want["replacement"])
  <2>1. on'["replacement"] = target
    BY <1>1, <1>2, <1>9 DEF Procs
  <2>2. Ended' => Ended
    BY DEF Ended, Over
  <2>3. Ended => target = "primary"
    BY <1>2, <1>7 DEF ReleaseInv
  <2> QED BY <1>5, <1>8, <2>1, <2>2, <2>3 DEF ReleaseInv, Queues
<1>10. CASE ~(~waits /\ (on["replacement"] = "wait" \/ target # want["replacement"]))
  <2>1. on' = on
    BY <1>2, <1>10
  <2>2. CASE waits
    <3>1. on["replacement"] = "wait" /\ ~Started
      BY <1>6, <2>2 DEF waits
    <3>2. ~Started' /\ ~Ended'
      BY <3>1 DEF Started, Ended, Over
    <3> QED BY <2>1, <3>1, <3>2 DEF ReleaseInv, Queues
  <2>3. CASE ~waits
    <3>1. on["replacement"] # "wait" /\ target = want["replacement"]
      BY <1>10, <2>3
    <3>2. Ended' => on["replacement"] = "primary"
      <4>1. Ended' => Ended
        BY DEF Ended, Over
      <4>2. Ended => want["replacement"] = "primary"
        BY <1>2, <1>7, <3>1 DEF ReleaseInv
      <4>3. on["replacement"] \in Queues \cup {"none"}
        BY <1>1, <1>2, <3>1 DEF Positions, Procs
      <4> QED BY <4>1, <4>2, <4>3 DEF ReleaseInv
    <3> QED BY <1>8, <2>1, <3>1, <3>2 DEF ReleaseInv
  <2> QED BY <2>2, <2>3
<1> QED BY <1>9, <1>10

\* The workload and the cluster.
LEMMA ReleaseEnvironment ==
  ASSUME Calm, TypeOK, ControlInv, IdentityInv, ProcInv, StageInv, ReleaseInv,
         \/ Crash \/ OtherMigration \/ Tick \/ Cluster \/ Producer \/ Done
         \/ \E p \in Procs : Consumer(p)
         \/ UNCHANGED vars
  PROVE  ReleaseInv'
<1>0. /\ ctrl \in [Names -> Seq(ControlMsgs)] /\ on \in [Procs -> Positions]
      /\ want \in [Procs -> Queues]
  BY DEF TypeOK, MessagingTypeOK
<1>1. ~Crash /\ ~OtherMigration
  BY OutsideStep
<1>2. UNCHANGED <<pc, sub, repl, timers>>
  BY <1>1 DEF Tick, Cluster, StsScaleDown, KubeletKill, KubeletStart,
     JobEnds, Producer, Consumer, Done, vars, statusVars
<1>3. (Started' <=> Started) /\ (Ended' <=> Ended)
  BY <1>2 DEF Started, Ended, Over
<1>4. Started \/ Ended => podSrc = "running"
  BY DEF Started, Ended, EndLabels, StageInv, IdentityInv, LateSubs, EarlyLabels
<1>5. Ended => Started
  BY DEF Started, Ended, EndLabels, ControlInv, AtHome, SwitchLabels, CutLabels
<1> USE DEF mqVars, mqRest, consumerVars
<1>6. CASE Tick \/ Producer \/ JobEnds \/ Done \/ UNCHANGED vars
  <2>1. UNCHANGED <<ctrl, on, want>>
    BY <1>6 DEF Tick, Producer, Publish, JobEnds, Done, vars
  <2> QED BY <1>3, <2>1, ReleaseQuiet
<1>7. CASE StsScaleDown \/ KubeletKill
  <2>1. UNCHANGED <<ctrl, want>>
        /\ \/ on' = on
           \/ on' = [on EXCEPT !["source"] = "off"]
           \/ on' = [on EXCEPT !["shadow"] = "off"]
    BY <1>7 DEF StsScaleDown, KubeletKill, Stop
  <2>2. on'["replacement"] = on["replacement"]
    BY <1>0, <2>1 DEF Procs
  <2> QED BY <1>3, <2>1, <2>2, ReleaseQuiet
<1>8. CASE KubeletStart
  <2>1. ~Started' /\ ~Ended'
    BY <1>3, <1>4, <1>8 DEF KubeletStart
  <2>2. PICK q : /\ want' = [want EXCEPT !["replacement"] = q]
                 /\ \/ on' = [on EXCEPT !["replacement"] = "wait"]
                    \/ on' = [on EXCEPT !["replacement"] = q]
                 /\ q \in Queues
    <3>1. RestoreImage.want \in Queues
      BY DEF RestoreImage, TypeOK, ClusterTypeOK, Images, Queues
    <3> QED BY <1>8, <3>1 DEF KubeletStart, Restore
  <2>3. want'["replacement"] = q /\ on'["replacement"] \in {"wait", q}
    BY <1>0, <2>2 DEF Procs
  <2> QED BY <2>1, <2>2, <2>3 DEF ReleaseInv, Queues
<1>9. ASSUME NEW p \in Procs, Consumer(p) PROVE ReleaseInv'
  <2>1. CASE Deliver(p) \/ Process(p)
    BY <1>3, <2>1, ReleaseQuiet DEF Deliver, Process
  <2>2. CASE ReadControl(p) /\ p = "replacement"
    BY <1>2, <1>5, <2>2, ReleaseRead
  <2>3. CASE ReadControl(p) /\ p = "source"
    BY <2>3 DEF ReadControl, PodName, ProcInv
  <2>4. CASE ReadControl(p) /\ p = "shadow"
    <3>1. ctrl' = [ctrl EXCEPT !["shadow"] = <<>>]
          /\ \E q : want' = [want EXCEPT !["shadow"] = q]
                    /\ (on' = on \/ on' = [on EXCEPT !["shadow"] = q])
      BY <2>4 DEF ReadControl, PodName
    <3>2. ctrl'["src"] = ctrl["src"] /\ on'["replacement"] = on["replacement"]
          /\ want'["replacement"] = want["replacement"]
      BY <1>0, <3>1 DEF Names, Procs
    <3> QED BY <1>3, <3>2, ReleaseQuiet
  <2> QED BY <1>9, <2>1, <2>2, <2>3, <2>4 DEF Consumer, Procs
<1> QED BY <1>1, <1>6, <1>7, <1>8, <1>9 DEF Cluster

\* ReplacementReleased holds in every reachable state of a calm run, in both modes,
\* after a rollback too, however the kills lag and whatever the consumers do with the
\* messages they hold: a Completed migration has told the replacement to go to the
\* primary queue in a way it obeys.
THEOREM ReplacementAlwaysReleased ==
  ASSUME Calm
  PROVE  Spec => []ReplacementReleased
<1>1. Init => ReleaseInv
  <2>1. ASSUME Init PROVE ReleaseInv
    <3>1. on["replacement"] = "off"
      BY <2>1 DEF Init, Procs
    <3>2. ~Ended
      BY <2>1 DEF Init, Ended, Over, EndLabels
    <3> QED BY <3>1, <3>2 DEF ReleaseInv, Queues
  <2> QED BY <2>1
<1>2. /\ TypeOK /\ ControlInv /\ IdentityInv /\ CalmInv /\ ProcInv /\ StageInv /\ ReleaseInv
      /\ [Next]_vars
      => ReleaseInv'
  BY ReleaseEarly, ReleaseLate, ReleaseEnvironment DEF Next, Controller, LateStep
<1>3. ControlInv /\ ReleaseInv => ReplacementReleased
  BY DEF ControlInv, ReleaseInv, ReplacementReleased, Ended, Over, EndLast
<1> QED BY <1>1, <1>2, <1>3, TypeCorrect, ControlAlways, IdentityAlways, CalmAlways,
        ProcAlways, StageAlways, PTL DEF Spec
==============================================================================
