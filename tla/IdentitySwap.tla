---------------------------- MODULE IdentitySwap -----------------------------
(***************************************************************************)
(* handleFinalizing and the identity swap of a ShadowPod migration of a    *)
(* StatefulSet pod: the controller re-checkpoints the shadow pod, creates  *)
(* a replacement pod under the source's name, lets it replay the messages  *)
(* buffered meanwhile and switches traffic to it, by the Exchange-Fence    *)
(* protocol or by the Cutoff path.                                         *)
(*                                                                         *)
(* Reconciles are serialized, so the controller is one process.  pc names  *)
(* its next call to the broker or to the API server; between two calls the *)
(* producer, the consumers, the kubelet and the StatefulSet controller may *)
(* take steps, the connection may break and the controller may crash.      *)
(***************************************************************************)
EXTENDS Messaging

CONSTANTS
  SwapMode,   \* spec.identitySwapMode
  Replicas,   \* the StatefulSet's replica count before the migration
  Loaders,    \* who may load the image in SwapTransfer: an agent, when the target
              \* node has one, or a Job
  MaxOther    \* bound: Connect/Close calls of other migrations on the shared client

ASSUME SwapAssumption ==
  /\ SwapMode \in {"ExchangeFence", "Cutoff"}
  /\ Replicas \in Nat \ {0}
  /\ Loaders \in {{"agent"}, {"job"}, {"agent", "job"}}
  /\ MaxOther \in Nat

VARIABLES
  \* status of the StatefulMigration, as the API server holds it
  phase, sub,   \* status.phase, status.swapSubPhase
  repl,         \* status.replacementPod is set
  tgt,          \* status.targetPod
  orig,         \* status.originalReplicas
  fallback,     \* phaseTimings["Swap.ReCheckpoint.fallback"]
  timers,       \* the start-time keys present in phaseTimings
  initDepth,    \* phaseTimings["Swap.PreFence.initialDepth"]
  expired,      \* the time limit measured from the running timer has passed
  \* the rest of the cluster
  podSrc,       \* the pod with the source's name
  shadowPod,    \* the shadow pod exists
  replicas,     \* spec.replicas of the StatefulSet
  job,          \* the swap-transfer Job
  image,        \* the latest re-checkpoint of the shadow pod
  \* the controller
  pc,           \* next call of the reconcile in progress, "idle" between reconciles
  mOrig,        \* OriginalReplicas set in memory and not yet patched
  depth,        \* queue depth read earlier in this handler
  other,        \* calls other migrations made on the shared client
  \* history
  swapFrom,     \* messages published when the swap queue was bound; -1: not yet
  lossy,        \* the swap gave up completeness: Cutoff path, rollback or buffer timeout
  outlived      \* messages the shadow processed after its pod was deleted

statusVars == <<phase, sub, repl, tgt, orig, fallback, timers, initDepth, expired>>
podVars    == <<podSrc, shadowPod, replicas, job, image>>
localVars  == <<mOrig, depth, other>>
histVars   == <<swapFrom, lossy, outlived>>
vars == <<mqVars, statusVars, podVars, pc, localVars, histVars>>

SubPhases == {"", "ReCheckpoint", "SwapTransfer", "CreateReplacement", "MiniReplay",
              "TrafficSwitch", "PreFenceDrain", "ExchangeFence", "ParallelDrain",
              "FenceCutover"}
TimerKeys == {"PreFence", "MiniReplay", "Fence", "BufferDrain"}
Images == [state : SUBSET Msgs, want : Queues]
Labels ==
  {"idle", "dispatch", "fin.endReplay", "fin.deleteQueue", "fin.close", "fin.complete",
   "prep.connect", "prep.createQueue", "prep.scaleDown", "prep.deleteSource",
   "prep.status", "ckpt.call", "ckpt.status", "ckpt.fallback", "xfer.load",
   "xfer.status", "create.get", "create.scaleDown", "create.deleteSource",
   "create.scaleUp", "create.record", "create.running", "mini.unbind", "mini.start",
   "mini.mark", "mini.poll", "mini.status", "ts.end", "ts.deleteQueue",
   "ts.deleteShadow", "ts.scaleUp", "ts.status", "pre.depth", "pre.start", "pre.mark",
   "pre.poll", "pre.primary", "pre.unbind", "pre.toCutoff", "pre.toFence",
   "fence.primaryDepth", "fence.swapDepth", "fence.buffer", "fence.unbindPrimary",
   "fence.unbindSwap", "fence.status", "drain.primary", "drain.swap", "drain.status",
   "rb.bindPrimary", "rb.bindSwap", "rb.depth", "rb.unbindBuffer", "rb.deleteBuffer",
   "rb.status", "cut.deleteShadow", "cut.bindPrimary", "cut.unbindBuffer", "cut.stats",
   "cut.start", "cut.mark", "cut.end", "cut.deleteSwap", "cut.deleteBuffer",
   "cut.scaleUp", "cut.status"}

StatusTypeOK ==
  /\ phase \in {"Finalizing", "Completed"}
  /\ sub \in SubPhases
  /\ repl \in BOOLEAN
  /\ tgt \in Names
  /\ orig \in 0 .. Replicas
  /\ fallback \in BOOLEAN
  /\ timers \in SUBSET TimerKeys
  /\ initDepth \in 0 .. MaxMsgs
  /\ expired \in BOOLEAN

ClusterTypeOK ==
  /\ podSrc \in {"none", "source", "pending", "running"}
  /\ shadowPod \in BOOLEAN
  /\ replicas \in 0 .. Replicas
  /\ job \in {"none", "active", "succeeded", "failed"}
  /\ image \in Images

ControllerTypeOK ==
  /\ pc \in Labels
  /\ mOrig \in 0 .. Replicas
  /\ depth \in 0 .. MaxMsgs
  /\ other \in 0 .. MaxOther
  /\ swapFrom \in -1 .. MaxMsgs
  /\ lossy \in BOOLEAN
  /\ outlived \in SUBSET Msgs

TypeOK == MessagingTypeOK /\ StatusTypeOK /\ ClusterTypeOK /\ ControllerTypeOK

\* Replaying has just handed over to Finalizing: the source consumes the primary
\* queue, the shadow the replay queue, and both are bound and drained.
Init ==
  /\ chan = "open"
  /\ exists = {"primary", "replay"}
  /\ bound = {"primary", "replay"}
  /\ ready = [q \in Queues |-> {}]
  /\ published = 0
  /\ ctrl = [n \in Names |-> <<>>]
  /\ on = [p \in Procs |-> CASE p = "source" -> "primary"
                             [] p = "shadow" -> "replay"
                             [] OTHER -> "off"]
  /\ want = [p \in Procs |-> IF p = "shadow" THEN "replay" ELSE "primary"]
  /\ inflight = [p \in Procs |-> {}]
  /\ applied = [p \in Procs |-> {}]
  /\ dups = {} /\ returned = {}
  /\ faults = 0
  /\ phase = "Finalizing" /\ sub = "" /\ repl = FALSE /\ tgt = "shadow" /\ orig = 0
  /\ fallback = FALSE /\ timers = {} /\ initDepth = 0 /\ expired = FALSE
  /\ podSrc = "source" /\ shadowPod = TRUE /\ replicas = Replicas /\ job = "none"
  /\ image = [state |-> {}, want |-> "primary"]
  /\ pc = "idle" /\ mOrig = 0 /\ depth = 0 /\ other = 0
  /\ swapFrom = -1 /\ lossy = FALSE /\ outlived = {}

-----------------------------------------------------------------------------
(***************************************************************************)
(* How a handler makes a call.  A call that fails ends the reconcile, or   *)
(* is logged and passed over, as the code of each handler says.            *)
(***************************************************************************)
\* A broker call ok/err at label l, and nothing else.
Broker(l, ok, next, err, onErr) ==
  /\ pc = l
  /\ \/ ok /\ pc' = next
     \/ err /\ pc' = onErr
  /\ UNCHANGED <<trafficVars, statusVars, podVars, localVars, histVars>>

\* A status patch at label l: E is the change to the status.  A patch that
\* fails ends the reconcile and leaves the status as it was.
Patch(l, E, next) ==
  /\ pc = l
  /\ \/ E /\ pc' = next /\ UNCHANGED faults
     \/ Fault("api") /\ pc' = "idle" /\ UNCHANGED <<statusVars, lossy>>
  /\ UNCHANGED <<mqRest, podVars, localVars, swapFrom, outlived>>

\* A status patch whose error the code ignores (_ = r.Status().Patch).
PatchIgnored(l, E, next) ==
  /\ pc = l
  /\ \/ E /\ UNCHANGED faults
     \/ Fault("api") /\ UNCHANGED statusVars
  /\ pc' = next
  /\ UNCHANGED <<mqRest, podVars, localVars, histVars>>

StartTimer(k)   == timers' = timers \cup {k} /\ expired' = FALSE
ClearTimers(ks) == timers' = timers \ ks /\ expired' = FALSE

NoFault == UNCHANGED faults

\* The first call of the sub-phase handler that handleIdentitySwap selects.
Start(s) ==
  CASE s = ""                  -> IF repl THEN "fin.close" ELSE "prep.connect"
    [] s = "ReCheckpoint"      -> "ckpt.call"
    [] s = "SwapTransfer"      -> "xfer.load"
    [] s = "CreateReplacement" -> "create.get"
    [] s = "MiniReplay"        -> IF "MiniReplay" \in timers THEN "mini.poll"
                                                             ELSE "mini.unbind"
    [] s = "TrafficSwitch"     -> "ts.end"
    [] s = "PreFenceDrain"     -> IF "PreFence" \in timers THEN "pre.poll" ELSE "pre.depth"
    [] s = "ExchangeFence"     -> IF "Fence" \in timers THEN "fence.status"
                                                        ELSE "fence.primaryDepth"
    [] s = "ParallelDrain"     -> "drain.primary"
    [] s = "FenceCutover"      -> "cut.deleteShadow"
    [] OTHER                   -> "fin.close"

-----------------------------------------------------------------------------
(***************************************************************************)
(* Faulty variants of operations defined below.  None is part of Next: each *)
(* takes the place of its original to show that a property notices the bug. *)
(***************************************************************************)
\* handleFinalizing without its SwapSubPhase == "" guard.
ReconcileUnguarded ==
  /\ pc = "idle" /\ phase = "Finalizing"
  /\ pc' = "fin.endReplay"
  /\ mOrig' = 0 /\ depth' = 0
  /\ UNCHANGED <<mqVars, statusVars, podVars, other, histVars>>

\* The early scale-down deletes the source pod although scaling failed.
PrepScaleDownUnchecked ==
  /\ pc = "prep.scaleDown"
  /\ pc' = "prep.deleteSource"
  /\ \/ replicas' = 0 /\ NoFault
     \/ UNCHANGED replicas /\ Fault("api")
  /\ mOrig' = IF orig = 0 THEN replicas ELSE orig
  /\ UNCHANGED <<mqRest, statusVars, podSrc, shadowPod, job, image, depth, other, histVars>>

\* A replacement that is not running yet counts as running.
CreateGetHasty ==
  /\ pc = "create.get"
  /\ \/ podSrc \in {"running", "pending"} /\ pc' = "create.running" /\ UNCHANGED podSrc
     \/ podSrc = "source" /\ pc' = "create.scaleDown" /\ UNCHANGED podSrc
     \/ podSrc = "none" /\ pc' = "create.scaleUp" /\ podSrc' = "pending"
  /\ UNCHANGED <<mqVars, statusVars, shadowPod, replicas, job, image, localVars, histVars>>

\* Scaling up adds to spec.replicas.
ScaleUpBy(n) == replicas' = replicas + n /\ NoFault

\* No default for an OriginalReplicas that was lost.
CreateScaleUpNoDefault ==
  /\ pc = "create.scaleUp"
  /\ replicas' = (IF replicas < orig THEN orig ELSE replicas) /\ NoFault
  /\ pc' = "create.record"
  /\ UNCHANGED <<mqRest, statusVars, podSrc, shadowPod, job, image, localVars, histVars>>

\* MiniReplay unbinds the wrong queue.
MiniUnbindWrong ==
  Broker("mini.unbind", UnbindQueue("buffer"), "mini.start",
                        UnbindQueueErr("buffer"), "mini.start")

\* Control messages for the replacement go to status.targetPod, still the shadow.
MiniStartWrong ==
  Broker("mini.start", SendControlMessage(tgt, StartReplay("replay")), "mini.mark",
                       SendControlMessageErr(tgt, StartReplay("replay")), "idle")

PreStartWrong ==
  Broker("pre.start", SendControlMessage(tgt, StartReplay("replay")), "pre.mark",
                      SendControlMessageErr(tgt, StartReplay("replay")), "idle")

CutEndWrong ==
  Broker("cut.end", SendControlMessage(tgt, EndReplay), "cut.deleteSwap",
                    SendControlMessageErr(tgt, EndReplay), "cut.deleteSwap")

\* The fence leaves the swap queue bound.
FenceUnbindSwapWrong ==
  Broker("fence.unbindSwap", UnbindQueue("primary"), "fence.status",
                             UnbindQueueErr("primary"), "idle")

\* ParallelDrain looks at the primary queue instead of the swap queue.
DrainSwapWrong ==
  Broker("drain.swap", Inspect("primary"),
         IF Depth("primary") = 0 THEN "drain.status" ELSE "idle",
         InspectErr("primary"), "idle")

\* The cutover unbinds the buffer before it rebinds the primary queue.
CutBindPrimaryLate ==
  Broker("cut.bindPrimary", UnbindQueue("buffer"), "cut.unbindBuffer",
                            UnbindQueueErr("buffer"), "idle")

\* A failed rebind of the primary queue is passed over.
CutBindPrimaryUnchecked ==
  Broker("cut.bindPrimary", BindQueue("primary"), "cut.unbindBuffer",
                            BindQueueErr("primary"), "cut.unbindBuffer")

-----------------------------------------------------------------------------
(***************************************************************************)
(* handleFinalizing.                                                       *)
(***************************************************************************)
\* END_REPLAY and the teardown of the replay queue belong to the first entry only.
Reconcile ==
  /\ pc = "idle"
  /\ phase = "Finalizing"
  /\ pc' = IF sub = "" THEN "fin.endReplay" ELSE Start(sub)
  /\ mOrig' = 0 /\ depth' = 0
  /\ UNCHANGED <<mqVars, statusVars, podVars, other, histVars>>

FinEndReplay ==
  Broker("fin.endReplay", SendControlMessage(tgt, EndReplay), "fin.deleteQueue",
                          SendControlMessageErr(tgt, EndReplay), "fin.deleteQueue")

FinDeleteQueue ==
  Broker("fin.deleteQueue", DeleteSecondaryQueue, Start(sub),
                            DeleteSecondaryQueueErr, Start(sub))

FinClose ==
  /\ pc = "fin.close"
  /\ Close
  /\ pc' = "fin.complete"
  /\ UNCHANGED <<trafficVars, statusVars, podVars, localVars, histVars>>

FinComplete ==
  Patch("fin.complete",
        /\ phase' = "Completed" /\ sub' = ""
        /\ UNCHANGED <<repl, tgt, orig, fallback, timers, initDepth, expired, lossy>>,
        "idle")

\* handleIdentitySwap: re-fetch the migration and run the next sub-phase.
Dispatch ==
  /\ pc = "dispatch"
  /\ \/ pc' = Start(sub) /\ NoFault
     \/ pc' = "idle" /\ Fault("api")
  /\ mOrig' = 0 /\ depth' = 0
  /\ UNCHANGED <<mqRest, statusVars, podVars, other, histVars>>

-----------------------------------------------------------------------------
(***************************************************************************)
(* handleSwapPrepare.                                                      *)
(***************************************************************************)
PrepConnect == Broker("prep.connect", Connect, "prep.createQueue", ConnectErr, "idle")

PrepCreateQueue ==
  /\ pc = "prep.createQueue"
  /\ \/ /\ CreateSecondaryQueue
        /\ pc' = "prep.scaleDown"
        /\ swapFrom' = IF swapFrom # -1 /\ "replay" \in bound THEN swapFrom ELSE published
     \/ CreateSecondaryQueueErr /\ pc' = "idle" /\ UNCHANGED swapFrom
  /\ UNCHANGED <<trafficVars, statusVars, podVars, localVars, lossy, outlived>>

\* Early scale-down.  It saves OriginalReplicas in memory; the status patch at
\* the end of the handler persists it.  Errors are passed over.
PrepScaleDown ==
  /\ pc = "prep.scaleDown"
  /\ \/ /\ replicas > 0 /\ NoFault
        /\ replicas' = 0
        /\ mOrig' = IF orig = 0 THEN replicas ELSE orig
        /\ pc' = "prep.deleteSource"
     \/ /\ replicas = 0 /\ NoFault
        /\ pc' = "prep.status"
        /\ UNCHANGED <<replicas, mOrig>>
     \/ /\ Fault("api")
        /\ pc' = "prep.status"
        /\ mOrig' \in {mOrig, IF orig = 0 THEN replicas ELSE orig}
        /\ UNCHANGED replicas
  /\ UNCHANGED <<mqRest, statusVars, podSrc, shadowPod, job, image, depth, other, histVars>>

\* Force-delete the source pod; a failure is logged.  A deletion with grace period 0
\* removes the API object at once and waits for nothing: the process runs on until
\* the kubelet kills it.
DeleteSource(l, next) ==
  /\ pc = l
  /\ \/ podSrc' = (IF podSrc = "source" THEN "none" ELSE podSrc) /\ NoFault
     \/ Fault("api") /\ UNCHANGED podSrc
  /\ pc' = next
  /\ UNCHANGED <<mqRest, statusVars, shadowPod, replicas, job, image, localVars, histVars>>

PrepDeleteSource == DeleteSource("prep.deleteSource", "prep.status")

PrepStatus ==
  Patch("prep.status",
        /\ sub' = "ReCheckpoint"
        /\ orig' = IF mOrig # 0 THEN mOrig ELSE orig
        /\ UNCHANGED <<phase, repl, tgt, fallback, timers, initDepth, expired, lossy>>,
        "dispatch")

-----------------------------------------------------------------------------
(***************************************************************************)
(* handleSwapReCheckpoint and handleSwapTransfer.                          *)
(***************************************************************************)
\* CRIU may refuse to checkpoint a restored process: then the original image is used.
\* An answer that names no archive leaves the sub-phase as it is.
CkptCall ==
  /\ pc = "ckpt.call"
  /\ \/ /\ image' = [state |-> applied["shadow"], want |-> want["shadow"]]
        /\ pc' = "ckpt.status" /\ NoFault
     \/ pc' = "ckpt.fallback" /\ UNCHANGED image /\ NoFault
     \/ pc' = "dispatch" /\ UNCHANGED image /\ Fault("api")
  /\ UNCHANGED <<mqRest, statusVars, podSrc, shadowPod, replicas, job, localVars, histVars>>

CkptStatus ==
  Patch("ckpt.status",
        sub' = "SwapTransfer"
        /\ UNCHANGED <<phase, repl, tgt, orig, fallback, timers, initDepth, expired, lossy>>,
        "dispatch")

CkptFallback ==
  Patch("ckpt.fallback",
        sub' = "CreateReplacement" /\ fallback' = TRUE
        /\ UNCHANGED <<phase, repl, tgt, orig, timers, initDepth, expired, lossy>>,
        "dispatch")

\* The agent on the target node loads the image, or the call fails and is
\* retried; without an agent a Job does it, which is polled until it succeeded.
XferLoad ==
  /\ pc = "xfer.load"
  /\ \/ "agent" \in Loaders /\ pc' = "xfer.status" /\ UNCHANGED job /\ NoFault
     \/ /\ "job" \in Loaders
        /\ \/ job = "none" /\ job' = "active" /\ pc' = "idle"
           \/ job = "succeeded" /\ pc' = "xfer.status" /\ UNCHANGED job
           \/ job \in {"active", "failed"} /\ pc' = "idle" /\ UNCHANGED job
        /\ NoFault
     \/ Fault("api") /\ pc' = "idle" /\ UNCHANGED job
  /\ UNCHANGED <<mqRest, statusVars, podSrc, shadowPod, replicas, image, localVars, histVars>>

XferStatus ==
  Patch("xfer.status",
        sub' = "CreateReplacement"
        /\ UNCHANGED <<phase, repl, tgt, orig, fallback, timers, initDepth, expired, lossy>>,
        "dispatch")

-----------------------------------------------------------------------------
(***************************************************************************)
(* handleSwapCreateReplacement.                                            *)
(***************************************************************************)
\* What to do depends on the pod that has the source's name now; when there is
\* none, the replacement is created on the target node.
CreateGet ==
  /\ pc = "create.get"
  /\ \/ podSrc = "running" /\ pc' = "create.running" /\ UNCHANGED podSrc /\ NoFault
     \/ podSrc = "pending" /\ pc' = "idle" /\ UNCHANGED podSrc /\ NoFault
     \/ podSrc = "source" /\ pc' = "create.scaleDown" /\ UNCHANGED podSrc /\ NoFault
     \/ podSrc = "none" /\ pc' = "create.scaleUp" /\ podSrc' = "pending" /\ NoFault
     \/ Fault("api") /\ pc' = "idle" /\ UNCHANGED podSrc
  /\ UNCHANGED <<mqRest, statusVars, shadowPod, replicas, job, image, localVars, histVars>>

\* The original pod is still there: scale down, persisting OriginalReplicas first
\* if the patch succeeds, which the code does not check.
CreateScaleDown ==
  /\ pc = "create.scaleDown"
  /\ \/ replicas = 0 /\ pc' = "create.deleteSource" /\ UNCHANGED <<replicas, orig>> /\ NoFault
     \/ /\ replicas > 0
        /\ replicas' = 0
        /\ pc' = "create.deleteSource"
        /\ \/ orig' = (IF orig = 0 THEN replicas ELSE orig) /\ NoFault
           \/ orig = 0 /\ UNCHANGED orig /\ Fault("api")
     \/ /\ Fault("api")
        /\ pc' = "idle"
        /\ orig' \in {orig, IF orig = 0 THEN replicas ELSE orig}
        /\ UNCHANGED replicas
  /\ UNCHANGED <<mqRest, phase, sub, repl, tgt, fallback, timers, initDepth, expired,
                 podSrc, shadowPod, job, image, localVars, histVars>>

CreateDeleteSource == DeleteSource("create.deleteSource", "idle")

\* Raise spec.replicas to n if it is lower; a failed patch is logged.
ScaleUpTo(n) ==
  \/ replicas' = (IF replicas < n THEN n ELSE replicas) /\ NoFault
  \/ Fault("api") /\ UNCHANGED replicas

CreateScaleUp ==
  /\ pc = "create.scaleUp"
  /\ ScaleUpTo(IF orig = 0 THEN 1 ELSE orig)
  /\ pc' = "create.record"
  /\ UNCHANGED <<mqRest, statusVars, podSrc, shadowPod, job, image, localVars, histVars>>

CreateRecord ==
  Patch("create.record",
        repl' = TRUE
        /\ UNCHANGED <<phase, sub, tgt, orig, fallback, timers, initDepth, expired, lossy>>,
        "idle")

CreateRunning ==
  Patch("create.running",
        /\ repl' = TRUE
        /\ sub' = IF SwapMode = "ExchangeFence" THEN "PreFenceDrain" ELSE "MiniReplay"
        /\ lossy' = (SwapMode # "ExchangeFence")
        /\ UNCHANGED <<phase, tgt, orig, fallback, timers, initDepth, expired>>,
        "dispatch")

-----------------------------------------------------------------------------
(***************************************************************************)
(* handleSwapMiniReplay and handleSwapTrafficSwitch: the Cutoff path.      *)
(***************************************************************************)
MiniUnbind ==
  Broker("mini.unbind", UnbindQueue("replay"), "mini.start",
                        UnbindQueueErr("replay"), "mini.start")

MiniStart ==
  Broker("mini.start", SendControlMessage("src", StartReplay("replay")), "mini.mark",
                       SendControlMessageErr("src", StartReplay("replay")), "idle")

MiniMark ==
  PatchIgnored("mini.mark",
               StartTimer("MiniReplay")
               /\ UNCHANGED <<phase, sub, repl, tgt, orig, fallback, initDepth>>,
               "mini.poll")

\* Drained (no ready message) or past the cutoff: go on; otherwise poll again.
MiniPoll ==
  Broker("mini.poll", Inspect("replay"),
         IF Depth("replay") = 0 \/ expired THEN "mini.status" ELSE "idle",
         InspectErr("replay"), "idle")

MiniStatus ==
  Patch("mini.status",
        /\ ClearTimers({"MiniReplay"})
        /\ sub' = "TrafficSwitch"
        /\ UNCHANGED <<phase, repl, tgt, orig, fallback, initDepth, lossy>>,
        "dispatch")

TsEnd ==
  Broker("ts.end", SendControlMessage("src", EndReplay), "ts.deleteQueue",
                   SendControlMessageErr("src", EndReplay), "ts.deleteQueue")

TsDeleteQueue ==
  Broker("ts.deleteQueue", DeleteSecondaryQueue, "ts.deleteShadow",
                           DeleteSecondaryQueueErr, "ts.deleteShadow")

\* Force-delete the shadow pod, as above; a failed Delete is logged, onErr is what
\* a failed Get does.
DeleteShadow(l, next, onErr) ==
  /\ pc = l
  /\ \/ shadowPod' = FALSE /\ NoFault /\ pc' = next
     \/ Fault("api") /\ pc' \in {next, onErr} /\ UNCHANGED shadowPod
  /\ UNCHANGED <<mqRest, statusVars, podSrc, replicas, job, image, localVars, histVars>>

TsDeleteShadow == DeleteShadow("ts.deleteShadow", "ts.scaleUp", "idle")

\* Scale the StatefulSet up for adoption, if OriginalReplicas is known.
FinalScaleUp(l, next, onErr) ==
  /\ pc = l
  /\ \/ orig > 0 /\ ScaleUpTo(orig) /\ pc' = next
     \/ orig = 0 /\ UNCHANGED replicas /\ NoFault /\ pc' = next
     \/ orig > 0 /\ Fault("api") /\ UNCHANGED replicas /\ pc' = onErr
  /\ UNCHANGED <<mqRest, statusVars, podSrc, shadowPod, job, image, localVars, histVars>>

TsScaleUp == FinalScaleUp("ts.scaleUp", "ts.status", "idle")

TsStatus ==
  Patch("ts.status",
        tgt' = "src" /\ sub' = ""
        /\ UNCHANGED <<phase, repl, orig, fallback, timers, initDepth, expired, lossy>>,
        "fin.close")

-----------------------------------------------------------------------------
(***************************************************************************)
(* handleSwapPreFenceDrain: choose Exchange-Fence or the Cutoff path.      *)
(***************************************************************************)
PreDepth ==
  /\ pc = "pre.depth"
  /\ \/ Inspect("replay") /\ depth' = Depth("replay") /\ pc' = "pre.start"
     \/ InspectErr("replay") /\ UNCHANGED depth /\ pc' = "idle"
  /\ UNCHANGED <<trafficVars, statusVars, podVars, mOrig, other, histVars>>

PreStart ==
  Broker("pre.start", SendControlMessage("src", StartReplay("replay")), "pre.mark",
                      SendControlMessageErr("src", StartReplay("replay")), "idle")

PreMark ==
  PatchIgnored("pre.mark",
               /\ StartTimer("PreFence")
               /\ initDepth' = depth
               /\ UNCHANGED <<phase, sub, repl, tgt, orig, fallback>>,
               "pre.poll")

\* Nothing is decided before the observation window has passed.
PrePoll ==
  /\ pc = "pre.poll"
  /\ \/ /\ Inspect("replay")
        /\ IF expired THEN depth' = Depth("replay") /\ pc' = "pre.primary"
                      ELSE UNCHANGED depth /\ pc' = "idle"
     \/ InspectErr("replay") /\ UNCHANGED depth /\ pc' = "idle"
  /\ UNCHANGED <<trafficVars, statusVars, podVars, mOrig, other, histVars>>

\* The adaptive decision: the fence is used when the swap queue shrank and the
\* larger queue is estimated to drain in time.  The estimate depends on the
\* elapsed seconds, so either answer is possible when that queue is not empty.
Decisions(initial, current, primary) ==
  IF current >= initial THEN {"pre.unbind"}
  ELSE IF current = 0 /\ primary = 0 THEN {"pre.toFence"}
  ELSE {"pre.toFence", "pre.unbind"}

\* A primary depth that cannot be read counts as 0.
PrePrimary ==
  /\ pc = "pre.primary"
  /\ \/ Inspect("primary") /\ pc' \in Decisions(initDepth, depth, Depth("primary"))
     \/ InspectErr("primary") /\ pc' \in Decisions(initDepth, depth, 0)
  /\ lossy' = (lossy \/ pc' = "pre.unbind")
  /\ UNCHANGED <<trafficVars, statusVars, podVars, localVars, swapFrom, outlived>>

PreUnbind ==
  Broker("pre.unbind", UnbindQueue("replay"), "pre.toCutoff",
                       UnbindQueueErr("replay"), "pre.toCutoff")

\* MiniReplay.start is set here, so MiniReplay skips its own first steps.
PreToCutoff ==
  Patch("pre.toCutoff",
        /\ timers' = (timers \ {"PreFence"}) \cup {"MiniReplay"}
        /\ expired' = FALSE /\ initDepth' = 0 /\ sub' = "MiniReplay"
        /\ UNCHANGED <<phase, repl, tgt, orig, fallback, lossy>>,
        "dispatch")

PreToFence ==
  Patch("pre.toFence",
        /\ ClearTimers({"PreFence"})
        /\ initDepth' = 0 /\ sub' = "ExchangeFence"
        /\ UNCHANGED <<phase, repl, tgt, orig, fallback, lossy>>,
        "dispatch")

-----------------------------------------------------------------------------
(***************************************************************************)
(* handleSwapExchangeFence, handleSwapParallelDrain, handleSwapFenceRollback. *)
(***************************************************************************)
FencePrimaryDepth ==
  Broker("fence.primaryDepth", Inspect("primary"), "fence.swapDepth",
                               InspectErr("primary"), "idle")

FenceSwapDepth ==
  Broker("fence.swapDepth", Inspect("replay"), "fence.buffer", InspectErr("replay"), "idle")

FenceBuffer ==
  Broker("fence.buffer", DeclareAndBindQueue("buffer"), "fence.unbindPrimary",
                         DeclareAndBindQueueErr("buffer"), "idle")

FenceUnbindPrimary ==
  Broker("fence.unbindPrimary", UnbindQueue("primary"), "fence.unbindSwap",
                                UnbindQueueErr("primary"), "idle")

FenceUnbindSwap ==
  Broker("fence.unbindSwap", UnbindQueue("replay"), "fence.status",
                             UnbindQueueErr("replay"), "idle")

FenceStatus ==
  Patch("fence.status",
        /\ timers' = timers \cup {"Fence"}
        /\ expired' = ("Fence" \in timers /\ expired)
        /\ sub' = "ParallelDrain"
        /\ UNCHANGED <<phase, repl, tgt, orig, fallback, initDepth, lossy>>,
        "dispatch")

DrainPrimary ==
  Broker("drain.primary", Inspect("primary"), "drain.swap", InspectErr("primary"), "idle")

\* Only the swap queue's depth decides; a stall or the timeout rolls the fence back.
DrainSwap ==
  /\ pc = "drain.swap"
  /\ \/ /\ Inspect("replay")
        /\ pc' = IF Depth("replay") = 0 THEN "drain.status"
                 ELSE IF expired THEN "rb.bindPrimary" ELSE "idle"
     \/ InspectErr("replay") /\ pc' = "idle"
  /\ lossy' = (lossy \/ pc' = "rb.bindPrimary")
  /\ UNCHANGED <<trafficVars, statusVars, podVars, localVars, swapFrom, outlived>>

DrainStatus ==
  Patch("drain.status",
        /\ ClearTimers({"Fence"})
        /\ sub' = "FenceCutover"
        /\ UNCHANGED <<phase, repl, tgt, orig, fallback, initDepth, lossy>>,
        "dispatch")

\* Every broker error of the rollback is logged and passed over.
RbBindPrimary ==
  Broker("rb.bindPrimary", BindQueue("primary"), "rb.bindSwap",
                           BindQueueErr("primary"), "rb.bindSwap")

RbBindSwap ==
  Broker("rb.bindSwap", BindQueue("replay"), "rb.depth", BindQueueErr("replay"), "rb.depth")

RbDepth ==
  Broker("rb.depth", Inspect("buffer"), "rb.unbindBuffer",
                     InspectErr("buffer"), "rb.unbindBuffer")

RbUnbindBuffer ==
  Broker("rb.unbindBuffer", UnbindQueue("buffer"), "rb.deleteBuffer",
                            UnbindQueueErr("buffer"), "rb.deleteBuffer")

RbDeleteBuffer ==
  Broker("rb.deleteBuffer", DeleteQueue("buffer"), "rb.status",
                            DeleteQueueErr("buffer"), "rb.status")

RbStatus ==
  Patch("rb.status",
        /\ timers' = (timers \ {"Fence"}) \cup {"MiniReplay"}
        /\ expired' = FALSE /\ sub' = "MiniReplay"
        /\ UNCHANGED <<phase, repl, tgt, orig, fallback, initDepth, lossy>>,
        "dispatch")

-----------------------------------------------------------------------------
(***************************************************************************)
(* handleSwapFenceCutover.                                                 *)
(***************************************************************************)
CutDeleteShadow == DeleteShadow("cut.deleteShadow", "cut.bindPrimary", "cut.bindPrimary")

\* Rebind primary, then unbind the buffer: both bound for a moment, never neither.
CutBindPrimary ==
  Broker("cut.bindPrimary", BindQueue("primary"), "cut.unbindBuffer",
                            BindQueueErr("primary"), "idle")

CutUnbindBuffer ==
  Broker("cut.unbindBuffer", UnbindQueue("buffer"), "cut.stats",
                             UnbindQueueErr("buffer"), "cut.stats")

\* A buffer whose depth cannot be read counts as empty.  A buffer that does not
\* drain in time is given up.
CutStats ==
  /\ pc = "cut.stats"
  /\ \/ /\ Inspect("buffer")
        /\ pc' = IF Depth("buffer") = 0 THEN "cut.end"
                 ELSE IF "BufferDrain" \notin timers THEN "cut.start"
                 ELSE IF expired THEN "cut.end" ELSE "idle"
        /\ lossy' = (lossy \/ (Depth("buffer") # 0 /\ pc' = "cut.end"))
     \/ InspectErr("buffer") /\ pc' = "cut.end" /\ UNCHANGED lossy
  /\ UNCHANGED <<trafficVars, statusVars, podVars, localVars, swapFrom, outlived>>

CutStart ==
  Broker("cut.start", SendControlMessage("src", StartReplay("buffer")), "cut.mark",
                      SendControlMessageErr("src", StartReplay("buffer")), "cut.mark")

CutMark ==
  PatchIgnored("cut.mark",
               StartTimer("BufferDrain")
               /\ UNCHANGED <<phase, sub, repl, tgt, orig, fallback, initDepth>>,
               "idle")

CutEnd ==
  Broker("cut.end", SendControlMessage("src", EndReplay), "cut.deleteSwap",
                    SendControlMessageErr("src", EndReplay), "cut.deleteSwap")

CutDeleteSwap ==
  Broker("cut.deleteSwap", DeleteSecondaryQueue, "cut.deleteBuffer",
                           DeleteSecondaryQueueErr, "cut.deleteBuffer")

CutDeleteBuffer ==
  Broker("cut.deleteBuffer", DeleteQueue("buffer"), "cut.scaleUp",
                             DeleteQueueErr("buffer"), "cut.scaleUp")

CutScaleUp == FinalScaleUp("cut.scaleUp", "cut.status", "cut.status")

CutStatus ==
  Patch("cut.status",
        /\ tgt' = "src" /\ sub' = ""
        /\ ClearTimers({"BufferDrain"})
        /\ UNCHANGED <<phase, repl, orig, fallback, initDepth, lossy>>,
        "fin.close")

-----------------------------------------------------------------------------
(***************************************************************************)
(* The environment of the controller.                                      *)
(***************************************************************************)
\* The controller process restarts: the reconcile and the channel are gone.
Crash ==
  /\ Fault("crash")
  /\ phase = "Finalizing"
  /\ pc' = "idle" /\ chan' = "closed"
  /\ mOrig' = 0 /\ depth' = 0
  /\ UNCHANGED <<topoVars, trafficVars, statusVars, podVars, other, histVars>>

\* Reconciles of other migrations open and close the client they all share.
OtherMigration ==
  /\ pc = "idle"
  /\ other < MaxOther
  /\ other' = other + 1
  /\ Connect \/ Close
  /\ UNCHANGED <<trafficVars, statusVars, podVars, pc, mOrig, depth, histVars>>

\* The time limit of the timer that runs passes.
Tick ==
  /\ timers # {} /\ ~expired
  /\ expired' = TRUE
  /\ UNCHANGED <<mqVars, phase, sub, repl, tgt, orig, fallback, timers, initDepth,
                 podVars, pc, localVars, histVars>>

\* The StatefulSet controller removes the source pod of a set scaled to zero, with
\* the grace period: the pod is gone when its process has ended.  It leaves the
\* replacement alone until the set is scaled up again.
StsScaleDown ==
  /\ replicas = 0
  /\ podSrc = "source"
  /\ podSrc' = "none"
  /\ Stop("source")
  /\ UNCHANGED <<statusVars, shadowPod, replicas, job, image, pc, localVars, histVars>>

\* The kubelet kills the process of a force-deleted pod at some point.
KubeletKill ==
  /\ \/ podSrc # "source" /\ on["source"] # "off" /\ Stop("source")
     \/ ~shadowPod /\ on["shadow"] # "off" /\ Stop("shadow")
  /\ UNCHANGED <<statusVars, podVars, pc, localVars, histVars>>

\* The image the replacement pod is created from.
RestoreImage == IF fallback THEN [state |-> {}, want |-> "primary"] ELSE image

\* The kubelet starts the replacement.  The source's process has ended by then:
\* fetching and restoring a checkpoint image takes longer than a forced kill.
KubeletStart ==
  /\ podSrc = "pending"
  /\ on["source"] = "off"
  /\ Restore("replacement", RestoreImage.state, RestoreImage.want)
  /\ podSrc' = "running"
  /\ UNCHANGED <<statusVars, shadowPod, replicas, job, image, pc, localVars, histVars>>

JobEnds ==
  /\ job = "active"
  /\ \/ job' = "succeeded" /\ NoFault
     \/ job' = "failed" /\ Fault("job")
  /\ UNCHANGED <<mqRest, statusVars, podSrc, shadowPod, replicas, image, pc, localVars,
                 histVars>>

Producer == Publish /\ UNCHANGED <<statusVars, podVars, pc, localVars, histVars>>

Consumer(p) ==
  /\ \/ Process(p)
        /\ outlived' = IF p = "shadow" /\ ~shadowPod
                       THEN outlived \cup (inflight[p] \ inflight'[p]) ELSE outlived
     \/ (Deliver(p) \/ ReadControl(p)) /\ UNCHANGED outlived
  /\ UNCHANGED <<statusVars, podVars, pc, localVars, swapFrom, lossy>>

-----------------------------------------------------------------------------
Finalize == Reconcile \/ Dispatch \/ FinEndReplay \/ FinDeleteQueue \/ FinClose
            \/ FinComplete
Prepare == PrepConnect \/ PrepCreateQueue \/ PrepScaleDown \/ PrepDeleteSource \/ PrepStatus
ReCheckpoint == CkptCall \/ CkptStatus \/ CkptFallback
SwapTransfer == XferLoad \/ XferStatus
CreateReplacement == CreateGet \/ CreateScaleDown \/ CreateDeleteSource \/ CreateScaleUp
                     \/ CreateRecord \/ CreateRunning
MiniReplay == MiniUnbind \/ MiniStart \/ MiniMark \/ MiniPoll \/ MiniStatus
TrafficSwitch == TsEnd \/ TsDeleteQueue \/ TsDeleteShadow \/ TsScaleUp \/ TsStatus
PreFenceDrain == PreDepth \/ PreStart \/ PreMark \/ PrePoll \/ PrePrimary \/ PreUnbind
                 \/ PreToCutoff \/ PreToFence
ExchangeFence == FencePrimaryDepth \/ FenceSwapDepth \/ FenceBuffer \/ FenceUnbindPrimary
                 \/ FenceUnbindSwap \/ FenceStatus
ParallelDrain == DrainPrimary \/ DrainSwap \/ DrainStatus
Rollback == RbBindPrimary \/ RbBindSwap \/ RbDepth \/ RbUnbindBuffer \/ RbDeleteBuffer
            \/ RbStatus
FenceCutover == CutDeleteShadow \/ CutBindPrimary \/ CutUnbindBuffer \/ CutStats
                \/ CutStart \/ CutMark \/ CutEnd \/ CutDeleteSwap \/ CutDeleteBuffer
                \/ CutScaleUp \/ CutStatus

Controller == Finalize \/ Prepare \/ ReCheckpoint \/ SwapTransfer \/ CreateReplacement
              \/ MiniReplay \/ TrafficSwitch \/ PreFenceDrain \/ ExchangeFence
              \/ ParallelDrain \/ Rollback \/ FenceCutover

Cluster == StsScaleDown \/ KubeletKill \/ KubeletStart \/ JobEnds

\* Everything is over: nothing is left to publish, to consume or to reconcile.
Done ==
  /\ phase = "Completed"
  /\ UNCHANGED vars

Next == Controller \/ Crash \/ OtherMigration \/ Tick \/ Cluster \/ Producer \/ Done
        \/ \E p \in Procs : Consumer(p)

Spec == Init /\ [][Next]_vars

\* The controller requeues until the migration ends, timers run out, and the
\* processes and controllers of the cluster keep running.
Fairness ==
  /\ WF_vars(Controller)
  /\ WF_vars(Tick)
  /\ WF_vars(Cluster)
  /\ \A p \in Procs : WF_vars(Consumer(p))

FairSpec == Spec /\ Fairness

-----------------------------------------------------------------------------
(***************************************************************************)
(* Properties.                                                             *)
(***************************************************************************)
\* At every moment the exchange feeds the primary queue or the fence buffer, so
\* no published message falls between the rebinding steps of handleSwapExchangeFence,
\* handleSwapFenceCutover and handleSwapFenceRollback, whatever call fails there.
RouteOpen == "primary" \in bound \/ "buffer" \in bound

\* Between handleSwapPrepare and the end of the replay the swap queue exists: a
\* retry or restart of handleFinalizing never tears down the queue that buffers
\* the messages of the swap (the SwapSubPhase == "" guard of handleFinalizing).
SwapQueueAlive ==
  sub \in {"ReCheckpoint", "SwapTransfer", "CreateReplacement", "MiniReplay",
           "PreFenceDrain", "ExchangeFence", "ParallelDrain"} => "replay" \in exists

\* While no pod has the source's name the StatefulSet is scaled to zero, so its
\* controller cannot fill the slot of the replacement with a fresh pod
\* (handleSwapPrepare and handleSwapCreateReplacement scale down before they delete).
IdentityReserved == podSrc = "none" => replicas = 0

\* Some pod of the service is there at every moment of the swap: the shadow pod is
\* deleted (handleSwapTrafficSwitch, handleSwapFenceCutover) only after the
\* replacement runs.
ServiceUp == shadowPod \/ podSrc \in {"source", "running"}

\* When the migration is Completed the StatefulSet has its replica count back,
\* although the count is kept in a status patch that may fail and the scale-up
\* calls of handleSwapCreateReplacement and handleSwapFenceCutover only log errors.
\* Around a fault this is about sets of one replica, for which a lost count is replaced
\* by the right default: with two, one restart between scale-down and patch loses it.
ReplicasRestored == phase = "Completed" => replicas = Replicas

\* When the migration is Completed the primary queue is bound to the exchange:
\* handleSwapFenceRollback and handleSwapFenceCutover restored live routing.  It
\* holds while no other migration uses the client: a Connect by another one in the
\* middle of a rollback whose rebinding failed lets the rollback carry on without it.
CompletedRouting == phase = "Completed" /\ other = 0 => "primary" \in bound

\* Before the replacement starts: the messages its image holds, or will hold.
InImage ==
  IF on["replacement"] # "off" THEN {}
  ELSE IF sub \in {"", "ReCheckpoint"} THEN applied["shadow"] \cup inflight["shadow"]
  ELSE RestoreImage.state

\* Once the shadow pod is deleted the primary queue is the replacement's; what the
\* shadow's process holds of it goes back when the kubelet kills it.
InPrimary ==
  IF shadowPod THEN {}
  ELSE ready["primary"] \cup (IF on["shadow"] = "primary" THEN inflight["shadow"] ELSE {})

\* The messages the replacement has processed, holds, or will still be given.
Reaches ==
  InImage \cup applied["replacement"] \cup inflight["replacement"] \cup ready["replay"]
  \cup ready["buffer"] \cup InPrimary

\* The messages of an Exchange-Fence swap: published since the swap queue was bound,
\* as long as no Cutoff path, rollback or buffer timeout gave up completeness.
SwapMsgs == {m \in Msgs : swapFrom # -1 /\ ~lossy /\ swapFrom < m /\ m <= published}

\* Exchange-Fence forgets a message in two ways only: every message of the swap
\* reaches the replacement, across the fence, the parallel drain and the cutover,
\* unless a consumer put it back into a queue it was leaving (the queue is deleted
\* with it), or the shadow's process consumed it from the primary queue after
\* handleSwapFenceCutover had deleted its pod.
NothingForgotten == SwapMsgs \subseteq Reaches \cup returned \cup outlived

\* "Exchange-Fence provides zero state gap": a completed swap has given the
\* replacement every message of the swap that was not put back into a queue.
\* handleSwapFenceCutover deletes the shadow pod and rebinds the primary queue
\* without waiting for the shadow's process to end.
ZeroStateGap == phase = "Completed" => SwapMsgs \subseteq Reaches \cup returned

\* The swap queue that handleSwapParallelDrain found drained stays drained, so the
\* cutover may delete it ("when GetQueueStats returns (0, 0, nil) the queue is fully
\* drained").
DrainedStaysDrained == sub = "FenceCutover" /\ ~lossy => ready["replay"] = {}

\* During ParallelDrain new messages go to the buffer alone, so the primary and the
\* swap queue hold a finite set to drain (handleSwapExchangeFence).
DrainIsFinite ==
  (sub = "ParallelDrain" /\ pc \notin {"rb.bindSwap", "rb.depth", "rb.unbindBuffer",
                                       "rb.deleteBuffer", "rb.status"})
    => bound = {"buffer"}

\* A Completed migration has released the replacement: it consumes the primary
\* queue or END_REPLAY is the last control message waiting for it.
ReplacementReleased ==
  phase = "Completed" =>
    \/ on["replacement"] = "primary"
    \/ ctrl["src"] # <<>> /\ ctrl["src"][Len(ctrl["src"])] = EndReplay

\* handleSwapMiniReplay drains a fixed set: when it finds the swap queue drained,
\* or cuts off, the queue is no longer bound to the exchange.
MiniReplayFixedSet == pc = "mini.status" => "replay" \notin bound

\* A migration completed by the Exchange-Fence path let the replacement process no
\* message twice (handleSwapExchangeFence to handleSwapFenceCutover).
ZeroDuplicates == (phase = "Completed" /\ ~lossy) => dups = {}

\* The swap ends: the migration is Completed and the replacement has consumed
\* everything that was published to the primary queue.
Converges ==
  <>[](/\ phase = "Completed"
       /\ on["replacement"] = "primary"
       /\ ready["primary"] = {} /\ inflight["replacement"] = {})

\* The migration is Completed in the end, also when the controller restarts mid-swap.
EventuallyCompleted == <>(phase = "Completed")
=============================================================================
