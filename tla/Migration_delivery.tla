------------------------- MODULE Migration_delivery -------------------------
(***************************************************************************)
(* Nothing gets lost, however far the cache is behind and whatever fails:  *)
(* neither the state of the pod nor, in Sequential, a message.             *)
(***************************************************************************)
EXTENDS Migration_lag

USE MessagingAssumption, MigrationAssumption

-----------------------------------------------------------------------------
(***************************************************************************)
(* The state survives, however far the cache is behind and whatever fails. *)
(* A migration that has begun has its source until an image is published,  *)
(* and from the end of handleRestoring on its target.  The StatefulSet     *)
(* controller must not adopt the released target: at zero replicas it      *)
(* would delete it.                                                        *)
(***************************************************************************)
Saved       == {"Transferring", "Restoring", "Replaying", "Finalizing", "Completed"}
Imaged      == {"Restoring", "Replaying", "Finalizing", "Completed"}
SavedLabels == XferLabels \cup RestoreLabels \cup LateLabels
ImagedLabels == {"xfer.status"} \cup RestoreLabels \cup LateLabels
BegunLabels  == {"pending.detect", "pending.record"} \cup PastLabels

\* Version v, when the API server holds w: strategy and checkpoint are recorded for good,
\* and before the phases that need them.
Settled(v, w) ==
  /\ v.strategy # "Auto" => w.strategy = v.strategy
  /\ v.ckpt.ok => w.ckpt.ok
  /\ v.phase \in Past => v.strategy # "Auto"
  /\ v.phase \in Saved => v.ckpt.ok

SettledInv ==
  /\ \A i \in 1 .. Len(versions) : Settled(versions[i], server)
  /\ m.strategy # "Auto" => server.strategy = m.strategy
  /\ pc = "pending.detect" => m.strategy = "Auto"
  /\ pc \in {"pending.record"} \cup PastLabels => m.strategy # "Auto"
  /\ pc \in {"ckpt.status"} \cup XferLabels => m.ckpt.ok
  /\ pc \in SavedLabels => server.ckpt.ok

Reached(P) == \E i \in 1 .. Len(versions) : versions[i].phase \in P

\* Something has been done, or is about to be, that relies on the source.
Underway ==
  \/ pc \in BegunLabels \/ Reached(Past)
  \/ \E i \in 1 .. Len(versions) : versions[i].ckpt.ok

ImageInv ==
  /\ podSrc = "source" => on["source"] # "off"
  /\ job # "none" => upload.ok
  /\ pc \in ImagedLabels \/ Reached(Imaged) \/ replicas = 0 => image.ok
  /\ job = "succeeded" => image.ok
  /\ Underway => image.ok \/ podSrc = "source"

TargetRuns == IF server.strategy = "Sequential" THEN podSrc = "running"
                                                ELSE podShadow = "running"

TargetInv ==
  /\ pc = "restore.create" /\ m.strategy # "Sequential" => podShadow = "none"
  /\ pc = "fin.source" => m.strategy # "Sequential"
  /\ pc \in {"restore.status"} \cup LateLabels \/ Reached(Late) => TargetRuns

SurvivalInv == SettledInv /\ ImageInv /\ TargetInv

\* A write that keeps strategy and checkpoint, by a handler that has made sure of what
\* the new phase and the next label need.
Prudent(s) ==
  /\ server.strategy # "Auto" => s.strategy = server.strategy
  /\ server.ckpt.ok => s.ckpt.ok
  /\ s.phase \in Past \/ pc' \in {"pending.record"} \cup PastLabels => s.strategy # "Auto"
  /\ s.phase \in Saved \/ pc' \in SavedLabels => s.ckpt.ok
  /\ s.phase \in Past \/ s.ckpt.ok \/ pc' \in BegunLabels => Underway
  /\ s.phase \in Imaged \/ pc' \in ImagedLabels => pc \in ImagedLabels \/ Reached(Imaged)
  /\ s.phase \in Late \/ pc' \in LateLabels
       => pc \in {"restore.status"} \cup LateLabels \/ Reached(Late)
  /\ pc' \notin {"pending.detect", "ckpt.status", "restore.create", "restore.status",
                 "fin.source"}

LEMMA SurvivalSave ==
  ASSUME TypeOK, SurvivalInv, NEW s \in Statuses, Save(s), UNCHANGED <<specVars, podVars, on>>,
         Prudent(s)
  PROVE  SurvivalInv'
<1>0. StatusTypeOK
  BY DEF TypeOK
<1>1. server' = s /\ m' = s /\ Among(s)
  BY <1>0, SaveTypes, SaveAmong DEF Save
<1>2. UNCHANGED <<podSrc, podShadow, replicas, job, upload, image, on>>
  BY DEF podVars
<1>3. SettledInv'
  <2>1. ASSUME NEW j \in 1 .. Len(versions') PROVE Settled(versions'[j], s)
    <3>1. CASE versions'[j] = s
      BY <3>1 DEF Prudent, Settled
    <3>2. CASE \E i \in 1 .. Len(versions) : versions'[j] = versions[i]
      <4>1. PICK i \in 1 .. Len(versions) : versions'[j] = versions[i]
        BY <3>2
      <4>2. Settled(versions[i], server)
        BY DEF SurvivalInv, SettledInv
      <4> QED BY <4>1, <4>2 DEF Settled, Prudent
    <3> QED BY <1>1, <2>1, <3>1, <3>2 DEF Among
  <2>2. /\ pc' \in {"pending.record"} \cup PastLabels => s.strategy # "Auto"
        /\ pc' \in {"ckpt.status"} \cup XferLabels => s.ckpt.ok
        /\ pc' \in SavedLabels => s.ckpt.ok
        /\ pc' # "pending.detect"
    BY DEF Prudent, SavedLabels
  <2> QED BY <1>1, <2>1, <2>2 DEF SettledInv
<1>4. \A P : Reached(P)' => Reached(P) \/ s.phase \in P
  BY <1>1 DEF Reached, Among
<1>5. Underway' => Underway
  BY <1>1, <1>4 DEF Underway, Prudent, Among
<1>6. ImageInv'
  <2>1. pc' \in ImagedLabels \/ Reached(Imaged)' => pc \in ImagedLabels \/ Reached(Imaged)
    BY <1>4 DEF Prudent
  <2> QED BY <1>2, <1>5, <2>1 DEF SurvivalInv, ImageInv
<1>7. TargetInv'
  <2>1. pc' \in {"restore.status"} \cup LateLabels \/ Reached(Late)'
          => pc \in {"restore.status"} \cup LateLabels \/ Reached(Late)
    BY <1>4 DEF Prudent
  <2>2. Reached(Late) => server.strategy # "Auto"
    BY DEF Reached, SurvivalInv, SettledInv, Settled, Late, Past
  <2>3. pc \in {"restore.status"} \cup LateLabels => server.strategy # "Auto"
    BY DEF SurvivalInv, SettledInv, PastLabels, RestoreLabels
  <2>4. server.strategy # "Auto" /\ TargetRuns => TargetRuns'
    BY <1>1, <1>2 DEF TargetRuns, Prudent
  <2> QED BY <2>1, <2>2, <2>3, <2>4 DEF SurvivalInv, TargetInv, Prudent
<1> QED BY <1>3, <1>6, <1>7 DEF SurvivalInv

\* A step that writes no version and takes nothing away that is still needed.
Keeps ==
  /\ UNCHANGED versions /\ m'.strategy = m.strategy
  /\ TargetRuns => TargetRuns'
  /\ podSrc = "source" => podSrc' = "source" \/ image'.ok
  /\ podSrc' = "source" => on'["source"] # "off"
  /\ podShadow = "none" => podShadow' = "none" \/ pc' # "restore.create"
  /\ image.ok => image'.ok
  /\ replicas' = 0 => image'.ok
  /\ job' # "none" => upload'.ok
  /\ job' = "succeeded" => image'.ok

\* Where such a step may lead.
Onward ==
  /\ pc' \in BegunLabels => pc \in BegunLabels \/ podSrc = "source"
  /\ pc' \in PastLabels => pc \in PastLabels
  /\ pc' = "pending.detect" => m.strategy = "Auto"
  /\ pc' = "pending.record" => m.strategy # "Auto"
  /\ pc' \in {"ckpt.status"} \cup XferLabels => m'.ckpt.ok
  /\ pc' \in SavedLabels => pc \in SavedLabels
  /\ pc' \in ImagedLabels => image'.ok
  /\ pc' = "restore.create" /\ m.strategy # "Sequential" => podShadow = "none"
  /\ pc' = "fin.source" => m.strategy # "Sequential"
  /\ pc' \in {"restore.status"} \cup LateLabels => pc \in LateLabels \/ TargetRuns

LEMMA SurvivalKeeps ==
  ASSUME SurvivalInv, Keeps, (pc' = pc /\ m' = m) \/ Onward
  PROVE  SurvivalInv'
<1>0. server' = server
  BY DEF Keeps, server
<1>1. SettledInv'
  BY <1>0 DEF SurvivalInv, SettledInv, Keeps, Onward
<1>2. \A P : Reached(P)' = Reached(P)
  BY DEF Reached, Keeps
<1>3. Underway' => Underway \/ podSrc = "source"
  BY <1>2 DEF Underway, Keeps, Onward
<1>4. ImageInv'
  <2>1. pc' \in ImagedLabels \/ Reached(Imaged)' => image'.ok
    BY <1>2 DEF SurvivalInv, ImageInv, Keeps, Onward
  <2>2. Underway' => image'.ok \/ podSrc' = "source"
    BY <1>3 DEF SurvivalInv, ImageInv, Keeps
  <2> QED BY <2>1, <2>2 DEF ImageInv, Keeps
<1>5. TargetInv'
  <2>1. pc' = "restore.create" /\ m'.strategy # "Sequential" => podShadow' = "none"
    BY DEF SurvivalInv, TargetInv, Keeps, Onward
  <2>2. pc' \in {"restore.status"} \cup LateLabels \/ Reached(Late)' => TargetRuns'
    BY <1>2 DEF SurvivalInv, TargetInv, Keeps, Onward
  <2>3. pc' = "fin.source" => m'.strategy # "Sequential"
    BY DEF SurvivalInv, TargetInv, Keeps, Onward
  <2> QED BY <2>1, <2>2, <2>3 DEF TargetInv
<1> QED BY <1>1, <1>4, <1>5 DEF SurvivalInv

\* The first and the last version are versions.
LEMMA SurvivalServer ==
  ASSUME TypeOK, SurvivalInv
  PROVE  /\ Settled(server, server) /\ Settled(cached, server)
         /\ \A P : server.phase \in P \/ cached.phase \in P => Reached(P)
         /\ server.ckpt.ok => Underway
<1>1. /\ Len(versions) \in 1 .. Len(versions) /\ server = versions[Len(versions)]
      /\ 1 \in 1 .. Len(versions) /\ cached = versions[1]
  BY ServerIn DEF TypeOK
<1> QED BY <1>1 DEF SurvivalInv, SettledInv, Reached, Underway

\* A patch that is prudent when it succeeds, and leads on when it fails.
LEMMA SurvivalPatch ==
  ASSUME TypeOK, SurvivalInv, NEW l, NEW s \in Statuses, NEW next, NEW onErr,
         Patch(l, s, next, onErr), Save(s) /\ pc' = next => Prudent(s),
         m' = m /\ image' = image /\ pc' = onErr => Onward
  PROVE  SurvivalInv'
<1>1. UNCHANGED <<specVars, podVars, on>>
  BY DEF Patch, mqRest
<1>2. CASE Save(s) /\ pc' = next
  BY <1>1, <1>2, SurvivalSave
<1>3. CASE UNCHANGED statusVars /\ pc' = onErr
  <2>1. Keeps
    BY <1>1, <1>3 DEF Keeps, TargetRuns, server, statusVars, podVars, SurvivalInv, ImageInv
  <2>2. m' = m /\ image' = image
    BY <1>1, <1>3 DEF statusVars, podVars
  <2> QED BY <1>3, <2>1, <2>2, SurvivalKeeps
<1> QED BY <1>2, <1>3 DEF Patch

\* The patches of the status.
LEMMA SurvivalPatches ==
  ASSUME TypeOK, SurvivalInv,
         \/ Accept \/ FailMigration \/ PendingDetect \/ PendingRecord \/ CkptStatus
         \/ XferMark \/ XferStatus \/ RestoreMark \/ RestoreOrig \/ RestoreStatus
         \/ ReplayMark \/ ReplayCheck \/ ReplayStatus \/ FinMark \/ FinComplete
  PROVE  SurvivalInv'
<1>0. server \in Statuses /\ m \in Statuses
  BY VersionTypes DEF TypeOK, StatusTypeOK
<1> DEFINE Same(s) == s.strategy = server.strategy /\ s.ckpt = server.ckpt
<1> USE DEF PastLabels, LateLabels, CkptLabels, XferLabels, RestoreLabels, ReplayLabels,
            FinLabels, SavedLabels, ImagedLabels, BegunLabels, Past, Late, Saved, Imaged
<1>1. /\ server.phase \in Past => server.strategy # "Auto" /\ Underway
      /\ server.phase \in Saved => server.ckpt.ok
      /\ server.phase \in Imaged => Reached(Imaged)
      /\ server.phase \in Late => Reached(Late)
      /\ server.ckpt.ok => Underway
      /\ pc \in BegunLabels => Underway
  BY SurvivalServer DEF Settled, Underway
<1>2. /\ pc \in {"pending.record"} \cup PastLabels => server.strategy # "Auto"
      /\ pc \in SavedLabels => server.ckpt.ok
      /\ pc \in ImagedLabels => image.ok
      /\ pc \in {"ckpt.status"} \cup XferLabels => m.ckpt.ok
  BY DEF SurvivalInv, SettledInv, ImageInv
\* The phase stays, moves on by one from a handler of that phase, or ends.
<1>3. ASSUME NEW s \in Statuses, Same(s), NEW l, NEW next, NEW onErr,
             Patch(l, s, next, onErr),
             next \in {"requeue", "idle", "refetch"} \/ next = onErr,
             onErr \in {"requeue", "xfer.create", "restore.get", "restore.scaleDown",
                        "replay.poll", "fin.endReplay"},
             \/ s.phase \in {"Pending", "Failed"}
             \/ s.phase = "Checkpointing" /\ pc = "pending.record"
             \/ s.phase = "Restoring" /\ pc = "xfer.status"
             \/ s.phase = "Replaying" /\ pc = "restore.status"
             \/ s.phase = "Finalizing" /\ pc \in ReplayLabels
             \/ s.phase = "Completed" /\ pc \in FinLabels
             \/ s.phase = server.phase,
             onErr = "xfer.create" => pc = "xfer.mark",
             onErr \in {"restore.get", "restore.scaleDown"} => pc \in RestoreLabels,
             onErr \in {"replay.poll", "fin.endReplay"} => pc \in LateLabels
      PROVE  SurvivalInv'
  <2>1. Save(s) /\ pc' = next => Prudent(s)
    BY <1>1, <1>2, <1>3 DEF Prudent
  <2>2. m' = m /\ image' = image /\ pc' = onErr => Onward
    BY <1>2, <1>3 DEF Onward
  <2> QED BY <1>3, <2>1, <2>2, SurvivalPatch
<1>4. CASE Accept \/ FailMigration \/ FinComplete
  <2>1. PICK p \in {"Pending", "Failed", "Completed"} :
               \E l \in {"accept", "fail", "fin.complete"} : \E next \in {"requeue", "idle"} :
                 /\ Patch(l, [server EXCEPT !.phase = p], next, "requeue")
                 /\ p = "Completed" => l = "fin.complete"
    BY <1>4 DEF Accept, FailMigration, FinComplete
  <2> DEFINE s == [server EXCEPT !.phase = p]
  <2>2. s \in Statuses
    BY Written DEF Phases
  <2>3. Same(s) /\ s.phase = p
    BY <1>0 DEF Statuses
  <2>4. p = "Completed" => pc \in FinLabels
    BY <2>1 DEF Patch
  <2> HIDE DEF s
  <2>5. PICK l \in {"accept", "fail", "fin.complete"}, next \in {"requeue", "idle"} :
          Patch(l, s, next, "requeue")
    BY <2>1 DEF s
  <2> QED BY <1>3, <2>2, <2>3, <2>4, <2>5
<1>5. CASE PendingDetect
  <2> DEFINE k == IF owner = "StatefulSet" THEN "Sequential" ELSE "ShadowPod"
             s == [server EXCEPT !.strategy = k]
  <2>1. s \in Statuses
    BY Written
  <2>2. s.phase = server.phase /\ s.strategy = k /\ k # "Auto" /\ s.ckpt = server.ckpt
    BY <1>0 DEF Statuses
  <2>3. pc = "pending.detect" /\ UNCHANGED <<specVars, podVars, on>> /\ m.strategy = "Auto"
    BY <1>5 DEF PendingDetect, mqRest, SurvivalInv, SettledInv
  <2>4. CASE Save(s) /\ m = server /\ pc' \in {"pending.record", "requeue"}
    <3> HIDE DEF s, k
    <3>1. Prudent(s)
      BY <1>1, <2>2, <2>3, <2>4 DEF Prudent
    <3> QED BY <2>1, <2>3, <2>4, <3>1, SurvivalSave
  <2>5. CASE pc' = "requeue" /\ UNCHANGED statusVars
    <3>1. Keeps /\ Onward
      BY <2>3, <2>5 DEF Keeps, Onward, TargetRuns, server, statusVars, podVars, SurvivalInv,
         ImageInv
    <3> QED BY <3>1, SurvivalKeeps
  <2> QED BY <1>5, <2>4, <2>5 DEF PendingDetect
<1>6. CASE PendingRecord
  <2>1. PICK b \in BOOLEAN :
          \/ Patch("pending.record",
                   [server EXCEPT !.phase = "Checkpointing", !.deploy = @ \/ b],
                   "refetch", "requeue")
          \/ /\ Save([server EXCEPT !.phase = "Checkpointing"]) /\ pc' = "refetch"
             /\ pc = "pending.record" /\ UNCHANGED <<specVars, podVars, on>>
    BY <1>6 DEF PendingRecord, Transition, mqRest
  <2>2. CASE Patch("pending.record",
                   [server EXCEPT !.phase = "Checkpointing", !.deploy = @ \/ b],
                   "refetch", "requeue")
    <3> DEFINE s == [server EXCEPT !.phase = "Checkpointing", !.deploy = @ \/ b]
    <3>1. s \in Statuses
      BY Written DEF Phases
    <3>2. Same(s) /\ s.phase = "Checkpointing" /\ pc = "pending.record"
      BY <1>0, <2>2 DEF Statuses, Patch
    <3>3. Patch("pending.record", s, "refetch", "requeue")
      BY <2>2
    <3> HIDE DEF s
    <3> QED BY <1>3, <3>1, <3>2, <3>3
  <2>3. CASE /\ Save([server EXCEPT !.phase = "Checkpointing"]) /\ pc' = "refetch"
             /\ pc = "pending.record" /\ UNCHANGED <<specVars, podVars, on>>
    <3> DEFINE s == [server EXCEPT !.phase = "Checkpointing"]
    <3>1. s \in Statuses
      BY Written DEF Phases
    <3>2. Same(s) /\ s.phase = "Checkpointing"
      BY <1>0 DEF Statuses
    <3>3. Save(s)
      BY <2>3
    <3> HIDE DEF s
    <3>4. Prudent(s)
      BY <1>1, <1>2, <2>3, <3>2 DEF Prudent
    <3> QED BY <2>3, <3>1, <3>3, <3>4, SurvivalSave
  <2> QED BY <2>1, <2>2, <2>3
<1>7. CASE CkptStatus
  <2> DEFINE s == [server EXCEPT !.phase = "Transferring", !.ckpt = m.ckpt]
  <2>1. s \in Statuses
    BY Written DEF Phases
  <2>2. s.phase = "Transferring" /\ s.strategy = server.strategy /\ s.ckpt = m.ckpt
    BY <1>0 DEF Statuses
  <2>3. Patch("ckpt.status", s, "refetch", "requeue")
    BY <1>7 DEF CkptStatus, Transition
  <2> HIDE DEF s
  <2>4. pc = "ckpt.status"
    BY <2>3 DEF Patch
  <2>5. pc' = "refetch" => Prudent(s)
    BY <1>1, <1>2, <2>2, <2>4 DEF Prudent
  <2>6. pc' = "requeue" => Onward
    BY DEF Onward
  <2> QED BY <2>1, <2>3, <2>5, <2>6, SurvivalPatch
<1>8. CASE XferStatus \/ RestoreStatus
  <2>1. PICK p \in {"Restoring", "Replaying"}, k \in {"Transferring", "Restoring"},
             l \in {"xfer.status", "restore.status"} :
          /\ Patch(l, [server EXCEPT !.phase = p, !.timers = @ \ {k}], "refetch", "requeue")
          /\ p = "Restoring" => l = "xfer.status"
          /\ p = "Replaying" => l = "restore.status"
    BY <1>8 DEF XferStatus, RestoreStatus, Transition
  <2> DEFINE s == [server EXCEPT !.phase = p, !.timers = @ \ {k}]
  <2>2. s \in Statuses
    BY Written DEF Phases, StartKeys
  <2>3. Same(s) /\ s.phase = p
    BY <1>0 DEF Statuses
  <2>4. Patch(l, s, "refetch", "requeue")
    BY <2>1
  <2> HIDE DEF s
  <2>5. pc = l
    BY <2>4 DEF Patch
  <2> QED BY <1>3, <2>1, <2>2, <2>3, <2>4, <2>5
<1>9. CASE ReplayStatus
  <2> DEFINE s == [server EXCEPT !.phase = "Finalizing", !.timers = @ \ {"Replaying"},
                                 !.last = NoDepth]
  <2>1. s \in Statuses
    BY Written DEF Phases, StartKeys
  <2>2. Same(s) /\ s.phase = "Finalizing"
    BY <1>0 DEF Statuses
  <2>3. Patch("replay.status", s, "refetch", "requeue")
    BY <1>9 DEF ReplayStatus, Transition
  <2> HIDE DEF s
  <2>4. pc = "replay.status"
    BY <2>3 DEF Patch
  <2> QED BY <1>3, <2>1, <2>2, <2>3, <2>4
<1>10. CASE XferMark \/ RestoreMark \/ ReplayMark \/ FinMark
  <2>1. PICK k \in StartKeys, l \in {"xfer.mark", "restore.mark", "replay.mark", "fin.mark"},
             next \in {"xfer.create", "restore.get", "replay.poll", "fin.endReplay"} :
          /\ Mark(l, k, next)
          /\ next = "xfer.create" => l = "xfer.mark"
          /\ next = "restore.get" => l = "restore.mark"
          /\ next \in {"replay.poll", "fin.endReplay"} => l \in {"replay.mark", "fin.mark"}
    BY <1>10 DEF XferMark, RestoreMark, ReplayMark, FinMark, StartKeys
  <2> DEFINE s == [server EXCEPT !.timers = @ \cup {k}]
  <2>2. s \in Statuses
    BY Written
  <2>3. Same(s) /\ s.phase = server.phase
    BY <1>0 DEF Statuses
  <2>4. Patch(l, s, next, next)
    BY <2>1 DEF Mark
  <2> HIDE DEF s
  <2>5. pc = l
    BY <2>4 DEF Patch
  <2> QED BY <1>3, <2>1, <2>2, <2>3, <2>4, <2>5
<1>11. CASE RestoreOrig
  <2> DEFINE s == [server EXCEPT !.orig = replicas]
  <2>1. s \in Statuses
    BY Written
  <2>2. Same(s) /\ s.phase = server.phase
    BY <1>0 DEF Statuses
  <2>3. Patch("restore.orig", s, "restore.scaleDown", "restore.scaleDown")
    BY <1>11 DEF RestoreOrig
  <2> HIDE DEF s
  <2>4. pc = "restore.orig"
    BY <2>3 DEF Patch
  <2> QED BY <1>3, <2>1, <2>2, <2>3, <2>4
<1>12. CASE ReplayCheck
  <2>1. CASE Patch("replay.check", [server EXCEPT !.last = depth], "requeue", "requeue")
    <3> DEFINE s == [server EXCEPT !.last = depth]
    <3>1. s \in Statuses
      BY Written
    <3>2. Same(s) /\ s.phase = server.phase
      BY <1>0 DEF Statuses
    <3>3. Patch("replay.check", s, "requeue", "requeue")
      BY <2>1
    <3> HIDE DEF s
    <3> QED BY <1>3, <3>1, <3>2, <3>3
  <2>2. CASE pc' = "fail" /\ UNCHANGED <<mqVars, statusVars, podVars, specVars>>
    <3>1. Keeps /\ Onward
      BY <2>2 DEF Keeps, Onward, TargetRuns, server, statusVars, podVars, mqVars, SurvivalInv,
         ImageInv
    <3> QED BY <3>1, SurvivalKeeps
  <2> QED BY <1>12, <2>1, <2>2 DEF ReplayCheck
<1> QED BY <1>4, <1>5, <1>6, <1>7, <1>8, <1>9, <1>10, <1>11, <1>12

\* Calls that change neither the migration nor a workload.
LEMMA SurvivalCalls ==
  ASSUME TypeOK, SurvivalInv,
         \/ Requeue \/ PendingGet \/ CkptConnect \/ CkptQueue \/ CkptCall \/ XferLoad
         \/ XferCreate \/ RestoreGet \/ ReplayUnbind \/ ReplayStart \/ ReplayPoll
         \/ FinEndReplay \/ FinDeleteQueue \/ FinReadError \/ FinClose
  PROVE  SurvivalInv'
<1> USE DEF PastLabels, LateLabels, CkptLabels, XferLabels, RestoreLabels, ReplayLabels,
            FinLabels, SavedLabels, ImagedLabels, BegunLabels
<1>1. /\ pc \in ImagedLabels => image.ok
      /\ pc \in XferLabels => m.ckpt.ok
      /\ pc \in PastLabels => m.strategy = server.strategy
  BY DEF SurvivalInv, SettledInv, ImageInv
<1>2. ASSUME UNCHANGED <<versions, podVars>>, m'.strategy = m.strategy,
             on["source"] # "off" => on'["source"] # "off"
      PROVE  Keeps
  BY <1>2 DEF Keeps, podVars, TargetRuns, server, SurvivalInv, ImageInv
<1>3. CASE \/ CkptConnect \/ CkptQueue \/ ReplayUnbind \/ ReplayStart \/ ReplayPoll
           \/ FinEndReplay \/ FinDeleteQueue \/ FinClose
  <2>1. PodName(Target) \in Names /\ StartReplay("replay") \in ControlMsgs
        /\ EndReplay \in ControlMsgs /\ "replay" \in Queues
    BY DEF PodName, Names, ControlMsgs, Queues
  <2>2. ClientStep
    BY <1>3, <2>1 DEF CkptConnect, CkptQueue, ReplayUnbind, ReplayStart, ReplayPoll,
       FinEndReplay, FinDeleteQueue, FinClose, Broker, ClientStep
  <2>3. SameProcesses
    BY <2>2, ClientProcesses DEF TypeOK
  <2>4. UNCHANGED <<versions, m, podVars>>
    BY <1>3 DEF CkptConnect, CkptQueue, ReplayUnbind, ReplayStart, ReplayPoll, FinEndReplay,
       FinDeleteQueue, FinClose, Broker, statusVars
  <2>5. Keeps
    BY <1>2, <2>3, <2>4 DEF SameProcesses, Procs
  <2>6. CASE CkptConnect \/ CkptQueue
    <3>1. Onward
      BY <2>6 DEF CkptConnect, CkptQueue, Broker, Onward
    <3> QED BY <2>5, <3>1, SurvivalKeeps
  <2>7. CASE ReplayUnbind \/ ReplayStart \/ ReplayPoll \/ FinEndReplay \/ FinDeleteQueue
             \/ FinClose
    <3>1. /\ pc \in LateLabels /\ pc' \in LateLabels \cup {"fail", "requeue"}
          /\ pc' = "fin.source" => m.strategy # "Sequential"
      BY <2>7 DEF ReplayUnbind, ReplayStart, ReplayPoll, FinEndReplay, FinDeleteQueue,
         FinClose, Broker, AfterSource, AfterPin, Sequential
    <3>2. Onward
      BY <1>1, <2>4, <3>1 DEF Onward, podVars
    <3> QED BY <2>5, <3>2, SurvivalKeeps
  <2> QED BY <1>3, <2>6, <2>7
<1>4. CASE Requeue \/ FinReadError
  <2>1. Keeps
    BY <1>2, <1>4 DEF Requeue, FinReadError, mqVars, mqRest, statusVars
  <2>2. Onward
    BY <1>4 DEF Requeue, FinReadError, Onward
  <2> QED BY <2>1, <2>2, SurvivalKeeps
<1>5. CASE PendingGet
  <2>1. Keeps
    BY <1>2, <1>5 DEF PendingGet, Read, mqRest, statusVars
  <2>2. Onward
    BY <1>5 DEF PendingGet, Read, Onward
  <2> QED BY <2>1, <2>2, SurvivalKeeps
<1>6. CASE CkptCall
  <2>1. m \in Statuses
    BY DEF TypeOK, StatusTypeOK
  <2>2. m'.strategy = m.strategy /\ (pc' = "ckpt.status" => m'.ckpt.ok)
    BY <1>6, <2>1 DEF CkptCall, Statuses
  <2>3. Keeps
    BY <1>2, <1>6, <2>2 DEF CkptCall, mqRest
  <2>4. Onward
    BY <1>6, <2>2 DEF CkptCall, Onward
  <2> QED BY <2>3, <2>4, SurvivalKeeps
<1>7. CASE XferLoad
  <2>1. pc = "xfer.load" /\ m.ckpt.ok /\ UNCHANGED <<versions, m, on>>
    BY <1>1, <1>7 DEF XferLoad, Push, Read, mqRest, statusVars
  <2>2. UNCHANGED <<podSrc, podShadow, replicas, job, upload>> /\ image' \in {image, m.ckpt}
    BY <1>7 DEF XferLoad, Push, Read, podVars
  <2>3. Keeps
    BY <2>1, <2>2 DEF Keeps, TargetRuns, server, SurvivalInv, ImageInv
  <2>4. pc' \in {"xfer.status", "xfer.create", "xfer.mark", "requeue", "fail"}
        /\ (pc' = "xfer.status" => image'.ok)
    BY <1>7, <2>1 DEF XferLoad, Push, Read, podVars, SurvivalInv, ImageInv
  <2>5. Onward
    BY <2>1, <2>4 DEF Onward
  <2> QED BY <2>3, <2>5, SurvivalKeeps
<1>8. CASE XferCreate
  <2>1. pc = "xfer.create" /\ m.ckpt.ok /\ UNCHANGED <<versions, m, on>>
    BY <1>1, <1>8 DEF XferCreate, Cluster, mqRest, statusVars
  <2>2. /\ UNCHANGED <<podSrc, podShadow, replicas, image>>
        /\ UNCHANGED <<job, upload>> \/ (job' = "active" /\ upload' = m.ckpt)
    BY <1>8 DEF XferCreate, Cluster, podVars
  <2>3. Keeps
    BY <2>1, <2>2 DEF Keeps, TargetRuns, server, SurvivalInv, ImageInv
  <2>4. Onward
    BY <1>8 DEF XferCreate, Cluster, Onward
  <2> QED BY <2>3, <2>4, SurvivalKeeps
<1>9. CASE RestoreGet
  <2>1. pc = "restore.get" /\ UNCHANGED <<versions, m, on, podVars>>
    BY <1>9 DEF RestoreGet, Read, mqRest, statusVars
  <2>2. Keeps
    BY <1>2, <2>1
  <2>3. /\ pc' \in {"restore.create", "restore.status", "restore.orig", "requeue"}
        /\ pc' = "restore.create" /\ m.strategy # "Sequential" => podShadow = "none"
        /\ pc' = "restore.status"
             => IF m.strategy = "Sequential" THEN podSrc = "running" ELSE podShadow = "running"
    BY <1>9 DEF RestoreGet, Read, Sequential
  <2>4. Onward
    BY <1>1, <2>1, <2>3 DEF Onward, TargetRuns, podVars
  <2> QED BY <2>2, <2>4, SurvivalKeeps
<1> QED BY <1>3, <1>4, <1>5, <1>6, <1>7, <1>8, <1>9

\* The calls to the workload: the source goes only once there is an image, and no
\* running target is replaced.
LEMMA SurvivalWorkload ==
  ASSUME TypeOK, SurvivalInv,
         \/ RestoreScaleDown \/ RestoreCreate \/ FinSource \/ FinPin \/ FinRelease
         \/ FinScaleUp
  PROVE  SurvivalInv'
<1> USE DEF PastLabels, LateLabels, CkptLabels, XferLabels, RestoreLabels, ReplayLabels,
            FinLabels, SavedLabels, ImagedLabels, BegunLabels
<1>1. UNCHANGED <<versions, m, on, job, upload, image>> /\ server' = server
  BY DEF RestoreScaleDown, RestoreCreate, FinSource, FinPin, FinRelease, FinScaleUp, Cluster,
     statusVars, mqRest, podVars, server
<1>2. pc \in RestoreLabels \cup LateLabels
  BY DEF RestoreScaleDown, RestoreCreate, FinSource, FinPin, FinRelease, FinScaleUp, Cluster
<1>3. image.ok /\ m.strategy = server.strategy
  BY <1>2 DEF SurvivalInv, SettledInv, ImageInv
<1>4. Onward
  <2>1. CASE RestoreScaleDown \/ RestoreCreate
    <3>1. pc' \in {"requeue", "fail"}
      BY <2>1 DEF RestoreScaleDown, RestoreCreate, Cluster
    <3> QED BY <3>1 DEF Onward
  <2>2. CASE FinSource \/ FinPin \/ FinRelease \/ FinScaleUp
    <3>1. pc \in LateLabels /\ pc' \in {"fin.pin", "fin.release", "fin.scaleUp", "fin.close"}
      BY <2>2 DEF FinSource, FinPin, FinRelease, FinScaleUp, Cluster, AfterSource, AfterPin
    <3> QED BY <1>1, <1>3, <3>1 DEF Onward
  <2> QED BY <2>1, <2>2
<1>5. TargetRuns => TargetRuns'
  <2>1. CASE RestoreScaleDown \/ FinPin \/ FinRelease \/ FinScaleUp
    BY <1>1, <2>1 DEF RestoreScaleDown, FinPin, FinRelease, FinScaleUp, Cluster, podVars,
       TargetRuns
  <2>2. CASE RestoreCreate
    BY <1>1, <1>3, <2>2 DEF RestoreCreate, TargetRuns, SurvivalInv, TargetInv, Sequential
  <2>3. CASE FinSource
    BY <1>1, <1>3, <2>3 DEF FinSource, Cluster, podVars, TargetRuns, SurvivalInv, TargetInv
  <2> QED BY <2>1, <2>2, <2>3
<1>6. podSrc' = "source" => podSrc = "source"
  BY DEF RestoreScaleDown, RestoreCreate, FinSource, FinPin, FinRelease, FinScaleUp, Cluster,
     podVars
<1>7. pc' # "restore.create"
  BY DEF RestoreScaleDown, RestoreCreate, FinSource, FinPin, FinRelease, FinScaleUp, Cluster,
     AfterSource, AfterPin
<1>8. Keeps
  BY <1>1, <1>3, <1>5, <1>6, <1>7 DEF Keeps, SurvivalInv, ImageInv
<1> QED BY <1>4, <1>8, SurvivalKeeps

\* The rest of the cluster and the consumers.
LEMMA SurvivalOthers ==
  ASSUME TypeOK, SurvivalInv, Adopts = FALSE,
         \/ Tick \/ JobEnds \/ PodStarts \/ PodGone \/ StaleGone \/ StsDeletes \/ StsCreates
         \/ ConnectionLost \/ Traffic \/ Done \/ UNCHANGED vars
  PROVE  SurvivalInv'
<1>1. UNCHANGED <<versions, m, pc, replicas>> /\ server' = server
  BY DEF Tick, JobEnds, PodStarts, PodGone, StaleGone, StsDeletes, StsCreates, ConnectionLost,
     Traffic, Done, Idle, vars, statusVars, podVars, server
<1>2. ASSUME Keeps PROVE SurvivalInv'
  BY <1>1, <1>2, SurvivalKeeps
<1>3. CASE Tick \/ ConnectionLost \/ Done \/ UNCHANGED vars
  <2>1. UNCHANGED <<podVars, on>>
    BY <1>3 DEF Tick, ConnectionLost, Done, vars, mqVars, topoVars
  <2> QED BY <1>1, <1>2, <2>1 DEF Keeps, TargetRuns, podVars, SurvivalInv, ImageInv
<1>4. CASE Traffic
  <2>1. SameProcesses /\ UNCHANGED podVars
    BY <1>4, TrafficProcesses DEF TypeOK, Traffic
  <2>2. on["source"] # "off" => on'["source"] # "off"
    BY <2>1 DEF SameProcesses, Procs
  <2> QED BY <1>1, <1>2, <2>1, <2>2 DEF Keeps, TargetRuns, podVars, SurvivalInv, ImageInv
<1>5. CASE JobEnds
  <2>1. /\ UNCHANGED <<podSrc, podShadow, upload, on>> /\ job = "active"
        /\ job' \in {"succeeded", "failed"}
        /\ image' = upload \/ (image' = image /\ job' = "failed")
    BY <1>5 DEF JobEnds, mqRest
  <2> QED BY <1>1, <1>2, <2>1 DEF Keeps, TargetRuns, SurvivalInv, ImageInv
<1>6. CASE StaleGone \/ StsDeletes
  <2>1. /\ UNCHANGED <<on, job, upload, image>>
        /\ podShadow' = podShadow \/ (podShadow = "stale" /\ podShadow' = "none")
        /\ podSrc' = podSrc \/ (podSrc = "source" /\ podSrc' = "terminating" /\ replicas = 0)
    BY <1>6 DEF StaleGone, StsDeletes, mqVars
  <2> QED BY <1>1, <1>2, <2>1 DEF Keeps, TargetRuns, SurvivalInv, ImageInv
<1>7. CASE PodStarts
  <2>1. UNCHANGED <<job, upload, image>> /\ on'["source"] = on["source"]
    BY <1>7 DEF PodStarts, Restore, TypeOK, MessagingTypeOK, Procs
  <2>2. /\ podSrc' = podSrc \/ (podSrc = "starting" /\ podSrc' = "running")
        /\ podShadow' = podShadow \/ (podShadow = "starting" /\ podShadow' = "running")
    BY <1>7 DEF PodStarts
  <2> QED BY <1>1, <1>2, <2>1, <2>2 DEF Keeps, TargetRuns, SurvivalInv, ImageInv
<1>8. CASE PodGone
  <2>1. /\ UNCHANGED <<podShadow, job, upload, image>>
        /\ podSrc = "terminating" /\ podSrc' = "none"
    BY <1>8 DEF PodGone
  <2> QED BY <1>1, <1>2, <2>1 DEF Keeps, TargetRuns, SurvivalInv, ImageInv
<1>9. CASE StsCreates
  <2>1. /\ UNCHANGED <<podShadow, job, upload, image>>
        /\ podSrc = "none" /\ podSrc' = "source"
    BY <1>9 DEF StsCreates
  <2>2. on'["source"] = "primary"
    BY <1>9 DEF StsCreates, TypeOK, MessagingTypeOK, Procs
  <2> QED BY <1>1, <1>2, <2>1, <2>2 DEF Keeps, TargetRuns, SurvivalInv, ImageInv
<1> QED BY <1>3, <1>4, <1>5, <1>6, <1>7, <1>8, <1>9

\* A reconcile begins with the cached version, the cache catches up, the controller
\* restarts.
LEMMA SurvivalReads ==
  ASSUME TypeOK, SurvivalInv, Reconcile \/ Refetch \/ CacheSync \/ Crash
  PROVE  SurvivalInv'
<1>0. StatusTypeOK
  BY DEF TypeOK
<1>1. UNCHANGED <<podSrc, podShadow, replicas, job, upload, image, on>>
  BY DEF Reconcile, Refetch, Fetch, CacheSync, Crash, podVars, mqVars, topoVars
<1> USE DEF PastLabels, LateLabels, CkptLabels, XferLabels, RestoreLabels, ReplayLabels,
            FinLabels, SavedLabels, ImagedLabels, BegunLabels
<1>2. ASSUME server' = server,
             \A j \in 1 .. Len(versions') :
               \E i \in 1 .. Len(versions) : versions'[j] = versions[i],
             \/ pc' = pc /\ m' = m
             \/ /\ Settled(m', server)
                /\ pc' \in PastLabels => m'.phase \in Past /\ Reached(Past)
                /\ pc' \in SavedLabels => m'.phase \in Saved
                /\ pc' \in ImagedLabels => Reached(Imaged)
                /\ pc' \in LateLabels => Reached(Late)
                /\ pc' \notin {"pending.detect", "pending.record", "ckpt.status",
                               "restore.create", "restore.status", "fin.source"}
      PROVE  SurvivalInv'
  <2>1. \A P : Reached(P)' => Reached(P)
    BY <1>2 DEF Reached
  <2>2. SettledInv'
    <3>1. \A j \in 1 .. Len(versions') : Settled(versions'[j], server')
      BY <1>2 DEF SurvivalInv, SettledInv
    <3>2. CASE pc' = pc /\ m' = m
      BY <1>2, <3>1, <3>2 DEF SurvivalInv, SettledInv
    <3>3. CASE /\ Settled(m', server)
               /\ pc' \in PastLabels => m'.phase \in Past
               /\ pc' \in SavedLabels => m'.phase \in Saved
               /\ pc' \notin {"pending.detect", "pending.record", "ckpt.status"}
      <4>1. /\ m'.strategy # "Auto" => server.strategy = m'.strategy
            /\ pc' \in PastLabels => m'.strategy # "Auto"
            /\ pc' \in SavedLabels => m'.ckpt.ok /\ server.ckpt.ok
        BY <3>3 DEF Settled
      <4> QED BY <1>2, <3>1, <3>3, <4>1 DEF SettledInv
    <3> QED BY <1>2, <3>2, <3>3
  <2>3. Underway' => Underway
    BY <1>2, <2>1 DEF Underway
  <2>4. ImageInv'
    BY <1>1, <1>2, <2>1, <2>3 DEF SurvivalInv, ImageInv
  <2>5. TargetInv'
    BY <1>1, <1>2, <2>1 DEF SurvivalInv, TargetInv, TargetRuns
  <2> QED BY <2>2, <2>4, <2>5 DEF SurvivalInv
<1>3. CASE Reconcile \/ Refetch
  <2>1. m' = cached /\ pc' = Entry(cached) /\ versions' = versions /\ server' = server
    BY <1>3 DEF Reconcile, Refetch, Fetch, server
  <2>2. /\ pc' \in PastLabels => cached.phase \in Past
        /\ pc' \in SavedLabels => cached.phase \in Saved
        /\ pc' \in ImagedLabels => cached.phase \in Imaged
        /\ pc' \in LateLabels => cached.phase \in Late
        /\ pc' \notin {"pending.detect", "pending.record", "ckpt.status", "restore.create",
                       "restore.status", "fin.source"}
    BY <2>1 DEF Entry, Past, Saved, Imaged, Late
  <2>3. Settled(cached, server) /\ \A P : cached.phase \in P => Reached(P)
    BY SurvivalServer
  <2> QED BY <1>2, <2>1, <2>2, <2>3
<1>4. CASE CacheSync
  <2>1. /\ versions \in Seq(Statuses) /\ Len(versions) \in Nat /\ Len(versions) > 1
        /\ versions' = Tail(versions) /\ pc' = pc /\ m' = m
    BY <1>0, <1>4 DEF CacheSync, StatusTypeOK
  <2>2. /\ Len(versions') = Len(versions) - 1
        /\ \A j \in 1 .. Len(versions') : j + 1 \in 1 .. Len(versions)
                                          /\ versions'[j] = versions[j + 1]
    BY <2>1
  <2>3. server' = server
    BY <2>1, <2>2 DEF server
  <2> QED BY <1>2, <2>1, <2>2, <2>3
<1>5. CASE Crash
  <2>1. versions' = <<server>> /\ pc' = "idle" /\ m' = server
    BY <1>5 DEF Crash
  <2>2. Len(versions') = 1 /\ versions'[1] = server /\ server' = server
    BY <2>1 DEF server
  <2>3. Len(versions) \in 1 .. Len(versions) /\ server = versions[Len(versions)]
    BY <1>0, ServerIn
  <2>4. Settled(server, server)
    BY SurvivalServer
  <2> QED BY <1>2, <2>1, <2>2, <2>3, <2>4
<1> QED BY <1>3, <1>4, <1>5

\* A new migration has done nothing, and its source pod runs if it is there.
LEMMA SurvivalInit == Init => SurvivalInv
<1> SUFFICES ASSUME Init PROVE SurvivalInv
  OBVIOUS
<1>1. PICK k \in Strategies :
        versions = <<[phase |-> "New", strategy |-> k, deploy |-> FALSE, ckpt |-> NoImage,
                      orig |-> 0, timers |-> {}, last |-> NoDepth]>>
  BY DEF Init
<1>2. /\ Len(versions) = 1 /\ m = versions[1] /\ server = versions[1]
      /\ server.phase = "New" /\ server.ckpt = NoImage /\ ~NoImage.ok
  BY <1>1 DEF Init, server, NoImage
<1>3. /\ pc = "idle" /\ replicas = Replicas /\ job = "none"
      /\ podSrc = "source" => on["source"] # "off"
  BY DEF Init, Procs
<1> USE DEF PastLabels, LateLabels, CkptLabels, XferLabels, RestoreLabels, ReplayLabels,
            FinLabels, SavedLabels, ImagedLabels, BegunLabels, Past, Late, Saved, Imaged
<1>4. SettledInv
  BY <1>2, <1>3 DEF SettledInv, Settled
<1>5. ImageInv
  BY <1>2, <1>3 DEF ImageInv, Underway, Reached
<1>6. TargetInv
  BY <1>2, <1>3 DEF TargetInv, Reached
<1> QED BY <1>4, <1>5, <1>6 DEF SurvivalInv

LEMMA SurvivalNext ==
  ASSUME Adopts = FALSE
  PROVE  TypeOK /\ SurvivalInv /\ [Next]_vars => SurvivalInv'
BY SurvivalPatches, SurvivalCalls, SurvivalWorkload, SurvivalReads, SurvivalOthers
   DEF Next, Handlers, Environment

\* StateSurvives holds in every reachable state, for every lag of the cache and whatever
\* fails: at every moment after the checkpoint the source runs or an image can be pulled,
\* and from Replaying on the target runs, although a handler may act on a version of the
\* migration that is several writes old.  The StatefulSet controller must leave the
\* released target alone: where it adopts the pod, the scale-down of a handler that
\* works from an old version deletes it.
THEOREM StateAlwaysSurvives ==
  ASSUME Adopts = FALSE
  PROVE  Spec => []StateSurvives
<1>1. TypeOK /\ SurvivalInv /\ [Next]_vars => SurvivalInv'
  BY SurvivalNext
<1>2. TypeOK /\ SurvivalInv => StateSurvives
  <2> SUFFICES ASSUME TypeOK, SurvivalInv PROVE StateSurvives
    OBVIOUS
  <2>1. server.ckpt.ok => on["source"] # "off" \/ image.ok
    BY SurvivalServer DEF SurvivalInv, ImageInv
  <2>2. server.phase \in {"Replaying", "Finalizing", "Completed"}
          => podSrc = "running" \/ podShadow = "running"
    BY SurvivalServer DEF SurvivalInv, TargetInv, TargetRuns, Late
  <2> QED BY <2>1, <2>2 DEF StateSurvives, Lifecycle!StateSurvives
<1> QED BY <1>1, <1>2, SurvivalInit, TypeCorrect, PTL DEF Spec

-----------------------------------------------------------------------------
(***************************************************************************)
(* Sequential: no message is skipped.  Until the target runs, the replay   *)
(* queue has them all, and nobody consumes it.  From then on nobody but    *)
(* the target consumes the primary queue, so a message is in the replay    *)
(* queue or held for the target; and when Replaying ends it is held.       *)
(***************************************************************************)
EndPhases   == {"Finalizing", "Completed"}
EndedLabels == {"replay.status"} \cup FinLabels

\* Replaying has ended, or is about to end, for some version of the migration.
Ended == pc \in EndedLabels \/ Reached(EndPhases)

\* Which process runs, and what it may consume.
PodsInv ==
  /\ podSrc \in {"starting", "running"} => server.strategy = "Sequential"
  /\ podShadow \in {"starting", "running"} => server.strategy = "ShadowPod"
  /\ on["source"] # "off" => podSrc \in {"source", "terminating"}
  /\ on["source"] \in {"primary", "off"}
  /\ on["shadow"] # "off" => podShadow = "running"
  /\ on["replacement"] # "off" => podSrc = "running"
  /\ ctrl["src"] # <<>> => podSrc = "running"

SinceBound == since + 1 .. published
Held       == ready["primary"] \cup inflight["replacement"] \cup applied["replacement"]
              \cup returned

Watched == server.strategy = "Sequential" /\ since # -1 /\ ~lossy

FlowInv ==
  /\ "primary" \in bound
  /\ since # -1 => server.strategy # "Auto"
  /\ Watched => /\ podSrc # "running" => "replay" \in bound /\ SinceBound \subseteq ready["replay"]
                /\ SinceBound \subseteq ready["replay"] \cup Held
                /\ Ended => SinceBound \subseteq Held

DeliveryInv == PodsInv /\ FlowInv

\* The strategy is for good, and nothing ends Replaying.
Steady ==
  /\ server.strategy # "Auto" => server'.strategy = server.strategy
  /\ Ended' => Ended

\* Where Replaying has ended in Sequential, the target runs.
LEMMA EndedRuns ==
  ASSUME SurvivalInv, pc \in LateLabels \/ Ended, server.strategy = "Sequential"
  PROVE  podSrc = "running"
<1>1. Reached(EndPhases) => Reached(Late)
  BY DEF Reached, EndPhases, Late
<1>2. pc \in EndedLabels => pc \in LateLabels
  BY DEF EndedLabels, LateLabels, ReplayLabels
<1> QED BY <1>1, <1>2 DEF Ended, SurvivalInv, TargetInv, TargetRuns

LEMMA SteadySave ==
  ASSUME TypeOK, NEW s \in Statuses, Save(s), UNCHANGED specVars,
         server.strategy # "Auto" => s.strategy = server.strategy,
         s.phase \in EndPhases \/ pc' \in EndedLabels => Ended
  PROVE  Steady
<1>0. StatusTypeOK
  BY DEF TypeOK
<1>1. server' = s /\ Among(s)
  BY <1>0, SaveTypes, SaveAmong
<1>2. Reached(EndPhases)' => Reached(EndPhases) \/ s.phase \in EndPhases
  BY <1>1 DEF Reached, Among
<1> QED BY <1>1, <1>2 DEF Steady, Ended

LEMMA SteadySame ==
  ASSUME versions' = versions, pc' \in EndedLabels => Ended
  PROVE  Steady
BY DEF Steady, Ended, Reached, server

\* The patches of the status.
LEMMA SteadyPatches ==
  ASSUME TypeOK, SurvivalInv,
         \/ Accept \/ FailMigration \/ PendingDetect \/ PendingRecord \/ CkptStatus
         \/ XferMark \/ XferStatus \/ RestoreMark \/ RestoreOrig \/ RestoreStatus
         \/ ReplayMark \/ ReplayCheck \/ ReplayStatus \/ FinMark \/ FinComplete
  PROVE  Steady
<1>0. server \in Statuses /\ m \in Statuses
  BY VersionTypes DEF TypeOK, StatusTypeOK
<1> USE DEF FinLabels, EndedLabels, EndPhases
<1>1. server.phase \in EndPhases => Ended
  BY SurvivalServer DEF Ended
<1>2. ASSUME NEW s \in Statuses, NEW l, NEW next, NEW onErr, Patch(l, s, next, onErr),
             s.strategy = server.strategy,
             s.phase \in EndPhases => s.phase = server.phase \/ l \in EndedLabels,
             next \in EndedLabels \/ onErr \in EndedLabels => l \in EndedLabels
      PROVE  Steady
  <2>1. pc = l /\ UNCHANGED specVars
    BY <1>2 DEF Patch
  <2>2. CASE Save(s) /\ pc' = next
    <3>1. s.phase \in EndPhases \/ pc' \in EndedLabels => Ended
      BY <1>1, <1>2, <2>1, <2>2 DEF Ended
    <3> QED BY <1>2, <2>1, <2>2, <3>1, SteadySave
  <2>3. CASE UNCHANGED statusVars /\ pc' = onErr
    <3>1. versions' = versions /\ (pc' \in EndedLabels => Ended)
      BY <1>2, <2>1, <2>3 DEF statusVars, Ended
    <3> QED BY <3>1, SteadySame
  <2> QED BY <1>2, <2>2, <2>3 DEF Patch
<1>3. CASE Accept \/ FailMigration \/ FinComplete
  <2>1. PICK p \in {"Pending", "Failed", "Completed"},
             l \in {"accept", "fail", "fin.complete"}, next \in {"requeue", "idle"} :
          /\ Patch(l, [server EXCEPT !.phase = p], next, "requeue")
          /\ p = "Completed" => l = "fin.complete"
    BY <1>3 DEF Accept, FailMigration, FinComplete
  <2> DEFINE s == [server EXCEPT !.phase = p]
  <2>2. s \in Statuses
    BY Written DEF Phases
  <2>3. s.strategy = server.strategy /\ s.phase = p
    BY <1>0 DEF Statuses
  <2>4. Patch(l, s, next, "requeue")
    BY <2>1
  <2> HIDE DEF s
  <2> QED BY <1>2, <2>1, <2>2, <2>3, <2>4
<1>4. CASE PendingDetect
  <2> DEFINE k == IF owner = "StatefulSet" THEN "Sequential" ELSE "ShadowPod"
             s == [server EXCEPT !.strategy = k]
  <2>1. s \in Statuses
    BY Written
  <2>2. s.phase = server.phase
    BY <1>0 DEF Statuses
  <2>3. pc = "pending.detect" /\ UNCHANGED specVars /\ m.strategy = "Auto"
    BY <1>4 DEF PendingDetect, SurvivalInv, SettledInv
  <2>4. CASE Save(s) /\ m = server /\ pc' \in {"pending.record", "requeue"}
    <3> HIDE DEF s, k
    <3> QED BY <1>1, <2>1, <2>2, <2>3, <2>4, SteadySave
  <2>5. CASE pc' = "requeue" /\ UNCHANGED statusVars
    BY <2>5, SteadySame DEF statusVars
  <2> QED BY <1>4, <2>4, <2>5 DEF PendingDetect
<1>5. CASE PendingRecord
  <2>1. PICK b \in BOOLEAN :
          \/ Patch("pending.record",
                   [server EXCEPT !.phase = "Checkpointing", !.deploy = @ \/ b],
                   "refetch", "requeue")
          \/ /\ Save([server EXCEPT !.phase = "Checkpointing"]) /\ pc' = "refetch"
             /\ UNCHANGED specVars
    BY <1>5 DEF PendingRecord, Transition
  <2>2. CASE Patch("pending.record",
                   [server EXCEPT !.phase = "Checkpointing", !.deploy = @ \/ b],
                   "refetch", "requeue")
    <3> DEFINE s == [server EXCEPT !.phase = "Checkpointing", !.deploy = @ \/ b]
    <3>1. s \in Statuses
      BY Written DEF Phases
    <3>2. s.strategy = server.strategy /\ s.phase = "Checkpointing"
      BY <1>0 DEF Statuses
    <3>3. Patch("pending.record", s, "refetch", "requeue")
      BY <2>2
    <3> HIDE DEF s
    <3> QED BY <1>2, <3>1, <3>2, <3>3
  <2>3. CASE Save([server EXCEPT !.phase = "Checkpointing"]) /\ pc' = "refetch"
             /\ UNCHANGED specVars
    <3> DEFINE s == [server EXCEPT !.phase = "Checkpointing"]
    <3>1. s \in Statuses
      BY Written DEF Phases
    <3>2. s.strategy = server.strategy /\ s.phase = "Checkpointing"
      BY <1>0 DEF Statuses
    <3>3. Save(s)
      BY <2>3
    <3> HIDE DEF s
    <3> QED BY <2>3, <3>1, <3>2, <3>3, SteadySave
  <2> QED BY <2>1, <2>2, <2>3
<1>6. CASE CkptStatus
  <2> DEFINE s == [server EXCEPT !.phase = "Transferring", !.ckpt = m.ckpt]
  <2>1. s \in Statuses
    BY Written DEF Phases
  <2>2. s.phase = "Transferring" /\ s.strategy = server.strategy
    BY <1>0 DEF Statuses
  <2>3. Patch("ckpt.status", s, "refetch", "requeue")
    BY <1>6 DEF CkptStatus, Transition
  <2> HIDE DEF s
  <2> QED BY <1>2, <2>1, <2>2, <2>3
<1>7. CASE XferStatus \/ RestoreStatus
  <2>1. PICK p \in {"Restoring", "Replaying"}, k \in {"Transferring", "Restoring"},
             l \in {"xfer.status", "restore.status"} :
          Patch(l, [server EXCEPT !.phase = p, !.timers = @ \ {k}], "refetch", "requeue")
    BY <1>7 DEF XferStatus, RestoreStatus, Transition
  <2> DEFINE s == [server EXCEPT !.phase = p, !.timers = @ \ {k}]
  <2>2. s \in Statuses
    BY Written DEF Phases, StartKeys
  <2>3. s.strategy = server.strategy /\ s.phase = p
    BY <1>0 DEF Statuses
  <2>4. Patch(l, s, "refetch", "requeue")
    BY <2>1
  <2> HIDE DEF s
  <2> QED BY <1>2, <2>2, <2>3, <2>4
<1>8. CASE ReplayStatus
  <2> DEFINE s == [server EXCEPT !.phase = "Finalizing", !.timers = @ \ {"Replaying"},
                                 !.last = NoDepth]
  <2>1. s \in Statuses
    BY Written DEF Phases, StartKeys
  <2>2. s.strategy = server.strategy
    BY <1>0 DEF Statuses
  <2>3. Patch("replay.status", s, "refetch", "requeue")
    BY <1>8 DEF ReplayStatus, Transition
  <2> HIDE DEF s
  <2> QED BY <1>2, <2>1, <2>2, <2>3
<1>9. CASE XferMark \/ RestoreMark \/ ReplayMark \/ FinMark
  <2>1. PICK k \in StartKeys, l \in {"xfer.mark", "restore.mark", "replay.mark", "fin.mark"},
             next \in {"xfer.create", "restore.get", "replay.poll", "fin.endReplay"} :
          Mark(l, k, next) /\ (next = "fin.endReplay" => l = "fin.mark")
    BY <1>9 DEF XferMark, RestoreMark, ReplayMark, FinMark, StartKeys
  <2> DEFINE s == [server EXCEPT !.timers = @ \cup {k}]
  <2>2. s \in Statuses
    BY Written
  <2>3. s.strategy = server.strategy /\ s.phase = server.phase
    BY <1>0 DEF Statuses
  <2>4. Patch(l, s, next, next)
    BY <2>1 DEF Mark
  <2> HIDE DEF s
  <2> QED BY <1>2, <2>1, <2>2, <2>3, <2>4
<1>10. CASE RestoreOrig
  <2> DEFINE s == [server EXCEPT !.orig = replicas]
  <2>1. s \in Statuses
    BY Written
  <2>2. s.strategy = server.strategy /\ s.phase = server.phase
    BY <1>0 DEF Statuses
  <2>3. Patch("restore.orig", s, "restore.scaleDown", "restore.scaleDown")
    BY <1>10 DEF RestoreOrig
  <2> HIDE DEF s
  <2> QED BY <1>2, <2>1, <2>2, <2>3
<1>11. CASE ReplayCheck
  <2>1. CASE Patch("replay.check", [server EXCEPT !.last = depth], "requeue", "requeue")
    <3> DEFINE s == [server EXCEPT !.last = depth]
    <3>1. s \in Statuses
      BY Written
    <3>2. s.strategy = server.strategy /\ s.phase = server.phase
      BY <1>0 DEF Statuses
    <3>3. Patch("replay.check", s, "requeue", "requeue")
      BY <2>1
    <3> HIDE DEF s
    <3> QED BY <1>2, <3>1, <3>2, <3>3
  <2>2. CASE pc' = "fail" /\ UNCHANGED statusVars
    BY <2>2, SteadySame DEF statusVars
  <2> QED BY <1>11, <2>1, <2>2 DEF ReplayCheck
<1> QED BY <1>3, <1>4, <1>5, <1>6, <1>7, <1>8, <1>9, <1>10, <1>11

\* A reconcile begins with the cached version, the cache catches up, the controller
\* restarts.
LEMMA SteadyReads ==
  ASSUME TypeOK, SurvivalInv, Reconcile \/ Refetch \/ CacheSync \/ Crash
  PROVE  Steady
<1>0. StatusTypeOK
  BY DEF TypeOK
<1> USE DEF FinLabels, EndedLabels, EndPhases
<1>1. CASE Reconcile \/ Refetch
  <2>1. versions' = versions /\ (pc' \in EndedLabels => cached.phase \in EndPhases)
    BY <1>1 DEF Reconcile, Refetch, Fetch, Entry
  <2>2. cached.phase \in EndPhases => Ended
    BY SurvivalServer DEF Ended
  <2> QED BY <2>1, <2>2, SteadySame
<1>2. CASE CacheSync
  <2>1. /\ versions \in Seq(Statuses) /\ Len(versions) \in Nat /\ Len(versions) > 1
        /\ versions' = Tail(versions) /\ pc' = pc
    BY <1>0, <1>2 DEF CacheSync, StatusTypeOK
  <2>2. /\ Len(versions') = Len(versions) - 1
        /\ \A j \in 1 .. Len(versions') : j + 1 \in 1 .. Len(versions)
                                          /\ versions'[j] = versions[j + 1]
    BY <2>1
  <2>3. server' = server
    BY <2>1, <2>2 DEF server
  <2> QED BY <2>1, <2>2, <2>3 DEF Steady, Ended, Reached
<1>3. CASE Crash
  <2>1. versions' = <<server>> /\ pc' = "idle"
    BY <1>3 DEF Crash
  <2>2. Len(versions') = 1 /\ versions'[1] = server /\ server' = server
    BY <2>1 DEF server
  <2>3. server.phase \in EndPhases => Ended
    BY SurvivalServer DEF Ended
  <2> QED BY <2>1, <2>2, <2>3 DEF Steady, Ended, Reached
<1> QED BY <1>1, <1>2, <1>3

\* Messages and consumers stay where they are.
Still ==
  UNCHANGED <<bound, ready, published, ctrl, on, inflight, applied, returned, since, lossy>>
  /\ Steady

LEMMA FlowStill ==
  ASSUME DeliveryInv, Still, podSrc' = "running" <=> podSrc = "running"
  PROVE  FlowInv'
<1>1. Watched' => Watched
  BY DEF Watched, DeliveryInv, FlowInv, Still, Steady
<1>2. SinceBound' = SinceBound /\ Held' = Held
  BY DEF SinceBound, Held, Still
<1>3. since' # -1 => server'.strategy # "Auto"
  BY DEF DeliveryInv, FlowInv, Still, Steady
<1> QED BY <1>1, <1>2, <1>3 DEF DeliveryInv, FlowInv, Still, Steady

LEMMA PodsStill ==
  ASSUME DeliveryInv, Still, podSrc' = podSrc, podShadow' \in {podShadow, "none"},
         podShadow' # podShadow => podShadow = "stale"
  PROVE  DeliveryInv'
<1>1. PodsInv'
  BY DEF DeliveryInv, PodsInv, Still, Steady
<1> QED BY <1>1, FlowStill DEF DeliveryInv

\* Steps that touch neither the broker nor the pods.
LEMMA DeliveryStill ==
  ASSUME TypeOK, SurvivalInv, DeliveryInv,
         \/ Accept \/ FailMigration \/ PendingDetect \/ PendingRecord \/ CkptStatus
         \/ XferMark \/ XferStatus \/ RestoreMark \/ RestoreOrig \/ RestoreStatus
         \/ ReplayMark \/ ReplayCheck \/ ReplayStatus \/ FinMark \/ FinComplete
         \/ Reconcile \/ Refetch \/ CacheSync \/ Crash
         \/ Requeue \/ PendingGet \/ CkptConnect \/ CkptCall \/ XferLoad \/ XferCreate
         \/ RestoreGet \/ RestoreScaleDown \/ FinPin \/ FinRelease \/ FinScaleUp
         \/ FinReadError \/ FinClose
         \/ Tick \/ JobEnds \/ StaleGone \/ ConnectionLost \/ Done \/ UNCHANGED vars
  PROVE  DeliveryInv'
<1> DEFINE Flow == <<bound, ready, published, ctrl, on, inflight, applied, returned, since,
                     lossy, podSrc>>
<1>1. ASSUME UNCHANGED <<Flow, podShadow>>, Steady PROVE DeliveryInv'
  BY <1>1, PodsStill DEF Still
<1>2. CASE \/ Accept \/ FailMigration \/ PendingDetect \/ PendingRecord \/ CkptStatus
           \/ XferMark \/ XferStatus \/ RestoreMark \/ RestoreOrig \/ RestoreStatus
           \/ ReplayMark \/ ReplayCheck \/ ReplayStatus \/ FinMark \/ FinComplete
  <2>1. CASE Accept \/ FailMigration \/ PendingDetect \/ PendingRecord \/ CkptStatus
    <3>1. UNCHANGED <<Flow, podShadow>>
      BY <2>1 DEF Accept, FailMigration, PendingDetect, PendingRecord, CkptStatus, Transition,
         Patch, mqRest, consumerVars, podVars, histVars
    <3> QED BY <1>1, <2>1, <3>1, SteadyPatches
  <2>2. CASE XferMark \/ XferStatus \/ RestoreMark \/ RestoreOrig \/ RestoreStatus
    <3>1. UNCHANGED <<Flow, podShadow>>
      BY <2>2 DEF XferMark, XferStatus, RestoreMark, RestoreOrig, RestoreStatus, Transition,
         Mark, Patch, mqRest, consumerVars, podVars, histVars
    <3> QED BY <1>1, <2>2, <3>1, SteadyPatches
  <2>3. CASE ReplayMark \/ ReplayCheck \/ ReplayStatus \/ FinMark \/ FinComplete
    <3>1. UNCHANGED <<Flow, podShadow>>
      BY <2>3 DEF ReplayMark, ReplayCheck, ReplayStatus, FinMark, FinComplete, Transition,
         Mark, Patch, mqRest, mqVars, consumerVars, podVars, histVars
    <3> QED BY <1>1, <2>3, <3>1, SteadyPatches
  <2> QED BY <1>2, <2>1, <2>2, <2>3
<1>3. CASE Reconcile \/ Refetch \/ CacheSync \/ Crash
  <2>1. UNCHANGED <<Flow, podShadow>>
    BY <1>3 DEF Reconcile, Refetch, Fetch, CacheSync, Crash, mqVars, topoVars, trafficVars,
       consumerVars, podVars, histVars
  <2> QED BY <1>1, <1>3, <2>1, SteadyReads
<1>4. CASE Requeue \/ PendingGet \/ CkptConnect \/ CkptCall \/ XferLoad \/ XferCreate
  <2>1. UNCHANGED <<Flow, podShadow>>
    BY <1>4 DEF Requeue, PendingGet, CkptConnect, CkptCall, XferLoad, XferCreate, Read, Broker,
       Connect, ConnectErr, Cluster, Push, mqRest, mqVars, topoVars, trafficVars, consumerVars,
       podVars, histVars
  <2>2. versions' = versions /\ pc' \notin EndedLabels
    BY <1>4 DEF Requeue, PendingGet, CkptConnect, CkptCall, XferLoad, XferCreate, Read, Broker,
       Cluster, Push, statusVars, EndedLabels, FinLabels
  <2> QED BY <1>1, <2>1, <2>2, SteadySame
<1>5. CASE RestoreGet \/ RestoreScaleDown
  <2>1. UNCHANGED <<Flow, podShadow>>
    BY <1>5 DEF RestoreGet, RestoreScaleDown, Read, Cluster, mqRest, consumerVars, podVars,
       histVars
  <2>2. versions' = versions /\ pc' \notin EndedLabels
    BY <1>5 DEF RestoreGet, RestoreScaleDown, Read, Cluster, statusVars, EndedLabels, FinLabels
  <2> QED BY <1>1, <2>1, <2>2, SteadySame
<1>6. CASE FinPin \/ FinRelease \/ FinScaleUp \/ FinReadError \/ FinClose
  <2>1. UNCHANGED <<Flow, podShadow>>
    BY <1>6 DEF FinPin, FinRelease, FinScaleUp, FinReadError, FinClose, Close, Cluster, mqRest,
       topoVars, trafficVars, consumerVars, podVars, histVars
  <2>2. versions' = versions /\ Ended
    BY <1>6 DEF FinPin, FinRelease, FinScaleUp, FinReadError, FinClose, Cluster, statusVars,
       Ended, EndedLabels, FinLabels
  <2> QED BY <1>1, <2>1, <2>2, SteadySame
<1>7. CASE Tick \/ JobEnds \/ StaleGone \/ ConnectionLost \/ Done \/ UNCHANGED vars
  <2>1. UNCHANGED <<versions, pc, Flow>>
    BY <1>7 DEF Tick, JobEnds, StaleGone, ConnectionLost, Done, Idle, vars, mqRest, mqVars,
       topoVars, trafficVars, consumerVars, podVars, histVars, statusVars
  <2>2. Steady
    BY <2>1, SteadySame DEF Ended
  <2>3. podShadow' = podShadow \/ (podShadow = "stale" /\ podShadow' = "none")
    BY <1>7 DEF Tick, JobEnds, StaleGone, ConnectionLost, Done, vars, podVars
  <2> QED BY <2>1, <2>2, <2>3, PodsStill DEF Still
<1> QED BY <1>2, <1>3, <1>4, <1>5, <1>6, <1>7

\* The pods that a handler or the StatefulSet controller deletes or creates.
LEMMA DeliveryPods ==
  ASSUME TypeOK, SurvivalInv, DeliveryInv, Adopts = FALSE,
         RestoreCreate \/ FinSource \/ StsDeletes
  PROVE  DeliveryInv'
<1>1. UNCHANGED <<bound, ready, published, ctrl, on, inflight, applied, returned, since,
                  lossy, versions>>
  BY DEF RestoreCreate, FinSource, StsDeletes, Cluster, Idle, mqRest, mqVars, consumerVars,
     statusVars, histVars
<1>2. Steady
  <2>1. pc' \in EndedLabels => Ended
    BY DEF RestoreCreate, FinSource, StsDeletes, Cluster, Idle, Ended, EndedLabels, FinLabels
  <2> QED BY <1>1, <2>1, SteadySame
<1>3. pc \in PastLabels => m.strategy = server.strategy /\ m.strategy # "Auto"
  BY DEF SurvivalInv, SettledInv
<1>4. server.strategy \in {"Auto", "ShadowPod", "Sequential"} /\ server' = server
  BY <1>1, VersionTypes DEF TypeOK, Statuses, server
<1>5. CASE StsDeletes
  <2>1. podSrc = "source" /\ podSrc' = "terminating" /\ podShadow' = podShadow
    BY <1>5 DEF StsDeletes
  <2>2. PodsInv'
    BY <1>1, <1>4, <2>1 DEF DeliveryInv, PodsInv
  <2> QED BY <1>1, <1>2, <2>1, <2>2, FlowStill DEF DeliveryInv, Still
<1>6. CASE FinSource
  <2>1. pc = "fin.source" /\ podShadow' = podShadow
        /\ (podSrc' = podSrc \/ (podSrc # "none" /\ podSrc' = "terminating"))
    BY <1>6 DEF FinSource, Cluster, podVars
  <2>2. podSrc \notin {"starting", "running"}
    BY <1>3, <2>1 DEF SurvivalInv, TargetInv, DeliveryInv, PodsInv, PastLabels, LateLabels,
       FinLabels
  <2>3. PodsInv'
    BY <1>1, <1>4, <2>1, <2>2 DEF DeliveryInv, PodsInv
  <2> QED BY <1>1, <1>2, <2>1, <2>2, <2>3, FlowStill DEF DeliveryInv, Still
<1>7. CASE RestoreCreate
  <2>1. /\ pc = "restore.create" /\ m.strategy = server.strategy /\ m.strategy # "Auto"
        /\ m.strategy # "Sequential" => podShadow = "none"
    BY <1>3, <1>7 DEF RestoreCreate, SurvivalInv, TargetInv, PastLabels, RestoreLabels
  <2>2. \/ UNCHANGED <<podSrc, podShadow>>
        \/ /\ m.strategy = "Sequential" /\ podSrc = "none" /\ podSrc' = "starting"
           /\ podShadow' = podShadow
        \/ m.strategy # "Sequential" /\ podShadow' = "starting" /\ podSrc' = podSrc
    BY <1>7 DEF RestoreCreate, Sequential
  <2>3. PodsInv'
    BY <1>1, <1>4, <2>1, <2>2 DEF DeliveryInv, PodsInv
  <2>4. podSrc' = "running" <=> podSrc = "running"
    BY <2>2
  <2> QED BY <1>1, <1>2, <2>3, <2>4, FlowStill DEF DeliveryInv, Still
<1> QED BY <1>5, <1>6, <1>7

\* The processes that start and end with their pods.
LEMMA DeliveryProcesses ==
  ASSUME TypeOK, SurvivalInv, DeliveryInv, PodStarts \/ PodGone \/ StsCreates
  PROVE  DeliveryInv'
<1>0. MessagingTypeOK
  BY DEF TypeOK
<1>1. UNCHANGED <<bound, published, ctrl, since, lossy, versions, pc>> /\ server' = server
  BY DEF PodStarts, PodGone, StsCreates, Restore, Stop, Idle, statusVars, histVars, server
<1>2. Ended' = Ended /\ SinceBound' = SinceBound /\ Watched' = Watched
  BY <1>1 DEF Ended, Reached, SinceBound, Watched
<1>3. CASE PodStarts
  <2>1. CASE podSrc = "starting" /\ podSrc' = "running"
             /\ Restore("replacement", image.state, image.want) /\ UNCHANGED podShadow
    <3>1. UNCHANGED <<ready, inflight>> /\ on' \in [Procs -> Positions \cup {image.want}]
          /\ on'["source"] = on["source"] /\ on'["shadow"] = on["shadow"]
      BY <1>0, <2>1 DEF Restore, MessagingTypeOK, Procs, Positions
    <3>2. PodsInv'
      BY <1>1, <2>1, <3>1 DEF DeliveryInv, PodsInv
    <3>3. Watched => ~Ended /\ SinceBound \subseteq ready["replay"]
      BY <2>1, EndedRuns DEF Watched, DeliveryInv, FlowInv
    <3>4. FlowInv'
      BY <1>1, <1>2, <2>1, <3>1, <3>3 DEF DeliveryInv, FlowInv
    <3> QED BY <3>2, <3>4 DEF DeliveryInv
  <2>2. CASE podShadow = "starting" /\ podShadow' = "running"
             /\ Restore("shadow", image.state, image.want) /\ UNCHANGED podSrc
    <3>1. /\ UNCHANGED <<ready, inflight, returned>> /\ applied'["replacement"] = applied["replacement"]
          /\ on'["source"] = on["source"] /\ on'["replacement"] = on["replacement"]
      BY <1>0, <2>2 DEF Restore, MessagingTypeOK, Procs
    <3>2. PodsInv'
      BY <1>1, <2>2, <3>1 DEF DeliveryInv, PodsInv
    <3>3. Held' = Held
      BY <3>1 DEF Held
    <3>4. FlowInv'
      BY <1>1, <1>2, <2>2, <3>1, <3>3 DEF DeliveryInv, FlowInv
    <3> QED BY <3>2, <3>4 DEF DeliveryInv
  <2> QED BY <1>3, <2>1, <2>2 DEF PodStarts
<1>4. CASE PodGone
  <2>1. podSrc = "terminating" /\ podSrc' = "none" /\ podShadow' = podShadow
    BY <1>4 DEF PodGone
  <2>2. on["source"] = "primary" /\ Stop("source")
    BY <1>4, <2>1 DEF PodGone, DeliveryInv, PodsInv
  <2>3. /\ on'["source"] = "off" /\ on'["shadow"] = on["shadow"]
        /\ on'["replacement"] = on["replacement"]
        /\ UNCHANGED <<applied, returned>> /\ inflight'["replacement"] = inflight["replacement"]
        /\ ready'["replay"] = ready["replay"] /\ ready["primary"] \subseteq ready'["primary"]
    BY <1>0, <2>2 DEF Stop, Returned, MessagingTypeOK, Procs, Queues
  <2>4. PodsInv'
    BY <1>1, <2>1, <2>3 DEF DeliveryInv, PodsInv
  <2>5. Held \subseteq Held'
    BY <2>3 DEF Held
  <2>6. FlowInv'
    BY <1>1, <1>2, <2>1, <2>3, <2>5 DEF DeliveryInv, FlowInv
  <2> QED BY <2>4, <2>6 DEF DeliveryInv
<1>5. CASE StsCreates
  <2>1. /\ podSrc = "none" /\ podSrc' = "source" /\ podShadow' = podShadow
        /\ UNCHANGED <<ready, inflight, returned>>
    BY <1>5 DEF StsCreates
  <2>2. /\ on'["source"] = "primary" /\ on'["shadow"] = on["shadow"]
        /\ on'["replacement"] = on["replacement"]
        /\ applied'["replacement"] = applied["replacement"]
    BY <1>0, <1>5 DEF StsCreates, MessagingTypeOK, Procs
  <2>3. PodsInv'
    BY <1>1, <2>1, <2>2 DEF DeliveryInv, PodsInv
  <2>4. Held' = Held
    BY <2>1, <2>2 DEF Held
  <2>5. FlowInv'
    BY <1>1, <1>2, <2>1, <2>4 DEF DeliveryInv, FlowInv
  <2> QED BY <2>3, <2>5 DEF DeliveryInv
<1> QED BY <1>3, <1>4, <1>5

\* The calls to the broker.
LEMMA DeliveryCalls ==
  ASSUME TypeOK, SurvivalInv, DeliveryInv,
         \/ CkptQueue \/ ReplayUnbind \/ ReplayStart \/ ReplayPoll \/ FinEndReplay
         \/ FinDeleteQueue
  PROVE  DeliveryInv'
<1>0. MessagingTypeOK
  BY DEF TypeOK
<1>1. UNCHANGED <<published, inflight, applied, returned, versions, m, podSrc, podShadow>>
      /\ server' = server
  BY DEF CkptQueue, ReplayUnbind, ReplayStart, ReplayPoll, FinEndReplay, FinDeleteQueue, Broker,
     trafficVars, consumerVars, statusVars, podVars, server
<1>2. CASE CkptQueue
  <2>1. UNCHANGED <<ready, ctrl, on, lossy>> /\ bound \subseteq bound' /\ "primary" \in bound'
    BY <1>2 DEF CkptQueue, CreateSecondaryQueue, CreateSecondaryQueueErr, Succeeds, Fails,
       CreateSecondary, topoVars, DeliveryInv, FlowInv
  <2>2. \/ since' = since
        \/ since' = published /\ "replay" \in bound'
    BY <1>2 DEF CkptQueue, CreateSecondaryQueue, Succeeds, CreateSecondary
  <2>3. server.strategy # "Auto" /\ pc' \notin EndedLabels
    BY <1>2 DEF CkptQueue, SurvivalInv, SettledInv, PastLabels, CkptLabels, EndedLabels,
       FinLabels
  <2>4. Ended' => Ended
    BY <1>1, <2>3 DEF Ended, Reached
  <2>5. PodsInv'
    BY <1>1, <2>1 DEF DeliveryInv, PodsInv
  <2>6. Held' = Held
    BY <1>1, <2>1 DEF Held
  <2>7. CASE since' = since
    <3>1. SinceBound' = SinceBound /\ Watched' = Watched
      BY <1>1, <2>1, <2>7 DEF SinceBound, Watched
    <3>2. FlowInv'
      BY <1>1, <2>1, <2>3, <2>4, <2>6, <3>1 DEF DeliveryInv, FlowInv
    <3> QED BY <2>5, <3>2 DEF DeliveryInv
  <2>8. CASE since' = published /\ "replay" \in bound'
    <3>1. SinceBound' = {}
      BY <1>0, <1>1, <2>8 DEF SinceBound, MessagingTypeOK
    <3>2. FlowInv'
      BY <1>1, <2>1, <2>3, <2>8, <3>1 DEF FlowInv
    <3> QED BY <2>5, <3>2 DEF DeliveryInv
  <2> QED BY <2>2, <2>7, <2>8
<1>3. CASE ReplayPoll
  <2>1. UNCHANGED <<bound, ready, ctrl, on, since>>
    BY <1>3 DEF ReplayPoll, Inspect, InspectErr, Succeeds, Fails, NotFound, topoVars
  <2>2. pc = "replay.poll" /\ (lossy => lossy')
    BY <1>3 DEF ReplayPoll, TypeOK, ControllerTypeOK
  <2>3. pc' \in EndedLabels /\ ~lossy' => Depth("replay") = 0
    BY <1>3 DEF ReplayPoll, EndedLabels, FinLabels, TypeOK, ControllerTypeOK
  <2>4. Depth("replay") = 0 => ready["replay"] = {}
    <3>1. ready["replay"] \in SUBSET (1 .. MaxMsgs)
      BY <1>0 DEF MessagingTypeOK, Queues, Msgs
    <3>2. IsFiniteSet(1 .. MaxMsgs)
      BY FS_Interval
    <3>3. IsFiniteSet(ready["replay"])
      BY <3>1, <3>2, FS_Subset
    <3> QED BY <3>3, FS_EmptySet DEF Depth
  <2>5. PodsInv'
    BY <1>1, <2>1 DEF DeliveryInv, PodsInv
  <2>6. SinceBound' = SinceBound /\ Held' = Held
    BY <1>1, <2>1 DEF SinceBound, Held
  <2>7. Watched' => Watched
    BY <1>1, <2>1, <2>2 DEF Watched
  <2>8. Ended' /\ ~Ended /\ ~lossy' => ready["replay"] = {}
    BY <1>1, <2>3, <2>4 DEF Ended, Reached
  <2>9. Watched' => ~lossy'
    BY DEF Watched
  <2>10. FlowInv'
    BY <1>1, <2>1, <2>6, <2>7, <2>8, <2>9 DEF DeliveryInv, FlowInv
  <2> QED BY <2>5, <2>10 DEF DeliveryInv
<1>4. CASE ReplayUnbind \/ ReplayStart \/ FinEndReplay \/ FinDeleteQueue
  <2>1. /\ pc \in LateLabels /\ UNCHANGED <<since, lossy>>
        /\ pc' \in EndedLabels => Ended
    BY <1>4 DEF ReplayUnbind, ReplayStart, FinEndReplay, FinDeleteQueue, Broker, histVars,
       LateLabels, ReplayLabels, FinLabels, Ended, EndedLabels
  <2>2. server.strategy = "Sequential" => podSrc = "running"
    BY <2>1, EndedRuns
  <2>3. Ended' => Ended
    BY <1>1, <2>1 DEF Ended, Reached
  <2>4. SinceBound' = SinceBound /\ Watched' = Watched
    BY <1>1, <2>1 DEF SinceBound, Watched
  <2>5. CASE ReplayUnbind
    <3>1. UNCHANGED <<ready, ctrl, on>> /\ "primary" \in bound'
      BY <2>5 DEF ReplayUnbind, Broker, UnbindQueue, UnbindQueueErr, Succeeds, Fails, Unbind,
         topoVars, DeliveryInv, FlowInv
    <3>2. PodsInv'
      BY <1>1, <3>1 DEF DeliveryInv, PodsInv
    <3>3. Held' = Held
      BY <1>1, <3>1 DEF Held
    <3>4. FlowInv'
      BY <1>1, <2>1, <2>2, <2>3, <2>4, <3>1, <3>3 DEF DeliveryInv, FlowInv, Watched
    <3> QED BY <3>2, <3>4 DEF DeliveryInv
  <2>6. CASE ReplayStart \/ FinEndReplay
    <3>1. PICK msg \in ControlMsgs :
            \/ UNCHANGED topoVars
            \/ Post(PodName(Target), msg)
      BY <2>6 DEF ReplayStart, FinEndReplay, Broker, SendControlMessage, SendControlMessageErr,
         Succeeds, Fails, ControlMsgs
    <3>2. UNCHANGED <<bound, ready, on>>
      BY <3>1 DEF Post, topoVars
    <3>3. ctrl'["src"] # <<>> => podSrc = "running"
      <4>1. CASE m.strategy = "Sequential"
        BY <2>1, <2>2, <4>1 DEF SurvivalInv, SettledInv
      <4>2. CASE m.strategy # "Sequential"
        <5>1. PodName(Target) = "shadow"
          BY <4>2 DEF PodName, Target, Sequential
        <5>2. ctrl'["src"] = ctrl["src"]
          BY <1>0, <3>1, <5>1 DEF Post, topoVars, MessagingTypeOK, Names
        <5> QED BY <5>2 DEF DeliveryInv, PodsInv
      <4> QED BY <4>1, <4>2
    <3>4. PodsInv'
      BY <1>1, <3>2, <3>3 DEF DeliveryInv, PodsInv
    <3>5. Held' = Held
      BY <1>1, <3>2 DEF Held
    <3>6. FlowInv'
      BY <1>1, <2>1, <2>3, <2>4, <3>2, <3>5 DEF DeliveryInv, FlowInv
    <3> QED BY <3>4, <3>6 DEF DeliveryInv
  <2>7. CASE FinDeleteQueue
    <3>1. UNCHANGED topoVars \/ Unbind("replay") \/ Delete("replay")
      BY <2>7 DEF FinDeleteQueue, Broker, DeleteSecondaryQueue, DeleteSecondaryQueueErr,
         Succeeds, Fails
    <3>2. /\ ready'["primary"] = ready["primary"] /\ "primary" \in bound' /\ ctrl' = ctrl
          /\ on'["source"] = on["source"]
          /\ \A p \in Procs : on'[p] # "off" => on[p] # "off"
      BY <1>0, <3>1 DEF Unbind, Delete, topoVars, MessagingTypeOK, Queues, Procs, DeliveryInv,
         FlowInv, PodsInv
    <3>3. PodsInv'
      BY <1>1, <3>2 DEF DeliveryInv, PodsInv, Procs
    <3>4. Held' = Held /\ Ended
      BY <1>1, <2>7, <3>2 DEF Held, FinDeleteQueue, Broker, Ended, EndedLabels, FinLabels
    <3>5. FlowInv'
      BY <1>1, <2>1, <2>2, <2>4, <3>2, <3>4 DEF DeliveryInv, FlowInv, Watched
    <3> QED BY <3>3, <3>5 DEF DeliveryInv
  <2> QED BY <1>4, <2>5, <2>6, <2>7
<1> QED BY <1>2, <1>3, <1>4

\* The producer and the consumers.
LEMMA DeliveryTraffic ==
  ASSUME TypeOK, SurvivalInv, DeliveryInv, Traffic
  PROVE  DeliveryInv'
<1>0. MessagingTypeOK
  BY DEF TypeOK
<1>1. UNCHANGED <<since, lossy, versions, pc, podSrc, podShadow, bound>> /\ server' = server
  BY DEF Traffic, Publish, Deliver, Process, ReadControl, Idle, podVars, statusVars, histVars,
     server
<1>2. Ended' = Ended /\ Watched' = Watched
  BY <1>1 DEF Ended, Reached, Watched
<1>3. CASE Publish
  <2>1. UNCHANGED <<ctrl, on, inflight, applied, returned>> /\ published' = published + 1
    BY <1>3 DEF Publish, consumerVars
  <2>2. /\ ready'["primary"] = ready["primary"] \cup {published + 1}
        /\ "replay" \in bound => ready'["replay"] = ready["replay"] \cup {published + 1}
        /\ ready["replay"] \subseteq ready'["replay"]
    BY <1>0, <1>3 DEF Publish, MessagingTypeOK, Queues, DeliveryInv, FlowInv
  <2>3. since \in Int /\ published \in Nat
    BY <1>0 DEF TypeOK, ControllerTypeOK, MessagingTypeOK
  <2>4. SinceBound' \subseteq SinceBound \cup {published + 1}
    BY <1>1, <2>1, <2>3 DEF SinceBound
  <2>5. Held' = Held \cup {published + 1}
    BY <2>1, <2>2 DEF Held
  <2>6. PodsInv'
    BY <1>1, <2>1 DEF DeliveryInv, PodsInv
  <2>7. FlowInv'
    BY <1>1, <1>2, <2>2, <2>4, <2>5 DEF DeliveryInv, FlowInv
  <2> QED BY <2>6, <2>7 DEF DeliveryInv
<1>4. ASSUME NEW p \in Procs, Deliver(p) PROVE DeliveryInv'
  <2>1. UNCHANGED <<ctrl, on, applied, returned, published>>
    BY <1>4 DEF Deliver
  <2>2. PodsInv' /\ SinceBound' = SinceBound
    BY <1>1, <2>1 DEF DeliveryInv, PodsInv, SinceBound
  <2>3. PICK msg : /\ ready' = [ready EXCEPT ![on[p]] = @ \ {msg}]
                   /\ inflight' = [inflight EXCEPT ![p] = @ \cup {msg}]
                   /\ on[p] \in Queues
    BY <1>4 DEF Deliver
  <2>4. CASE p = "source"
    <3>1. on[p] = "primary" /\ podSrc # "running"
      BY <2>3, <2>4 DEF DeliveryInv, PodsInv, Queues
    <3>2. ready'["replay"] = ready["replay"]
      BY <1>0, <2>3, <3>1 DEF MessagingTypeOK, Queues
    <3>3. Watched => ~Ended
      BY <3>1, EndedRuns DEF Watched
    <3>4. FlowInv'
      BY <1>1, <1>2, <2>2, <3>1, <3>2, <3>3 DEF DeliveryInv, FlowInv
    <3> QED BY <2>2, <3>4 DEF DeliveryInv
  <2>5. CASE p = "shadow"
    <3>1. ~Watched
      BY <2>3, <2>5 DEF DeliveryInv, PodsInv, Watched, Queues
    <3>2. FlowInv'
      BY <1>1, <1>2, <3>1 DEF DeliveryInv, FlowInv
    <3> QED BY <2>2, <3>2 DEF DeliveryInv
  <2>6. CASE p = "replacement"
    <3>1. podSrc = "running"
      BY <2>3, <2>6 DEF DeliveryInv, PodsInv, Queues
    <3>2. /\ inflight'["replacement"] = inflight["replacement"] \cup {msg}
          /\ \A q \in {"primary", "replay"} : ready[q] \subseteq ready'[q] \cup {msg}
      BY <1>0, <2>3, <2>6 DEF MessagingTypeOK, Queues, Procs
    <3>3. /\ Held \subseteq Held'
          /\ ready["replay"] \cup Held \subseteq ready'["replay"] \cup Held'
      BY <2>1, <3>2 DEF Held
    <3>4. FlowInv'
      BY <1>1, <1>2, <2>2, <3>1, <3>3 DEF DeliveryInv, FlowInv
    <3> QED BY <2>2, <3>4 DEF DeliveryInv
  <2> QED BY <2>4, <2>5, <2>6 DEF Procs
<1>5. ASSUME NEW p \in Procs, Process(p) PROVE DeliveryInv'
  <2>1. UNCHANGED <<ctrl, on, ready, returned, published>>
    BY <1>5 DEF Process
  <2>2. PodsInv' /\ SinceBound' = SinceBound
    BY <1>1, <2>1 DEF DeliveryInv, PodsInv, SinceBound
  <2>3. PICK msg : /\ applied' = [applied EXCEPT ![p] = @ \cup {msg}]
                   /\ inflight' = [inflight EXCEPT ![p] = @ \ {msg}]
    BY <1>5 DEF Process
  <2>4. inflight["replacement"] \cup applied["replacement"]
          \subseteq inflight'["replacement"] \cup applied'["replacement"]
    BY <1>0, <2>3 DEF MessagingTypeOK, Procs
  <2>5. Held \subseteq Held'
    BY <2>1, <2>4 DEF Held
  <2>6. FlowInv'
    BY <1>1, <1>2, <2>1, <2>2, <2>5 DEF DeliveryInv, FlowInv
  <2> QED BY <2>2, <2>6 DEF DeliveryInv
<1>6. ASSUME NEW p \in Procs, ReadControl(p) PROVE DeliveryInv'
  <2>1. /\ on[p] # "off" /\ ctrl[PodName(p)] # <<>>
        /\ UNCHANGED <<applied, published>>
        /\ ctrl' = [ctrl EXCEPT ![PodName(p)] = <<>>]
    BY <1>6 DEF ReadControl
  <2>2. p # "source"
    BY <2>1 DEF PodName, DeliveryInv, PodsInv
  <2>3. \/ UNCHANGED <<ready, inflight, on, returned>>
        \/ /\ ready' = Returned(p) /\ inflight' = [inflight EXCEPT ![p] = {}]
           /\ \E target : on' = [on EXCEPT ![p] = target]
           /\ returned' = IF on[p] = "primary" THEN returned ELSE returned \cup inflight[p]
    BY <1>6 DEF ReadControl
  <2>4. /\ \A q \in Queues : ready[q] \subseteq ready'[q]
        /\ \A r \in Procs : inflight[r] \subseteq inflight'[r] \cup ready'["primary"]
                                                \cup returned'
        /\ returned \subseteq returned'
    <3>1. inflight \in [Procs -> SUBSET Msgs] /\ ready \in [Queues -> SUBSET Msgs]
      BY <1>0 DEF MessagingTypeOK
    <3>2. CASE UNCHANGED <<ready, inflight, on, returned>>
      BY <3>2
    <3>3. CASE /\ ready' = Returned(p) /\ inflight' = [inflight EXCEPT ![p] = {}]
               /\ returned' = IF on[p] = "primary" THEN returned ELSE returned \cup inflight[p]
      <4>1. \A q \in Queues : /\ ready[q] \subseteq ready'[q]
                              /\ on[p] = q => inflight[p] \subseteq ready'[q]
        BY <3>1, <3>3 DEF Returned
      <4>2. \A r \in Procs \ {p} : inflight'[r] = inflight[r]
        BY <3>1, <3>3
      <4>3. inflight[p] \subseteq ready'["primary"] \cup returned'
        BY <3>3, <4>1 DEF Queues
      <4> QED BY <3>3, <4>1, <4>2, <4>3
    <3> QED BY <2>3, <3>2, <3>3
  <2>5. \A q \in Procs \ {p} : on'[q] = on[q]
    BY <1>0, <2>3 DEF MessagingTypeOK
  <2>6. ctrl'["src"] # <<>> => ctrl["src"] # <<>>
    BY <1>0, <2>1 DEF MessagingTypeOK, Names
  <2>7. PodsInv'
    BY <1>1, <2>1, <2>2, <2>5, <2>6 DEF DeliveryInv, PodsInv, Procs
  <2>8. SinceBound' = SinceBound /\ Held \subseteq Held' /\ ready["replay"] \subseteq ready'["replay"]
    BY <1>1, <2>1, <2>4 DEF SinceBound, Held, Procs, Queues
  <2>9. FlowInv'
    BY <1>1, <1>2, <2>8 DEF DeliveryInv, FlowInv
  <2> QED BY <2>7, <2>9 DEF DeliveryInv
<1> QED BY <1>3, <1>4, <1>5, <1>6 DEF Traffic

\* Only the source runs at the start, and the replay queue is not bound.
LEMMA DeliveryInit == Init => DeliveryInv
<1> SUFFICES ASSUME Init PROVE DeliveryInv
  OBVIOUS
<1>1. PodsInv
  BY DEF Init, PodsInv, Procs, Names
<1>2. FlowInv
  BY DEF Init, FlowInv, Watched
<1> QED BY <1>1, <1>2 DEF DeliveryInv

\* NothingSkipped holds in every reachable state, for any number of messages, every lag of
\* the cache and whatever fails: in Sequential, every message published since
\* CreateSecondaryQueue bound the replay queue is in the target's state or on its way to
\* it, unless the cutoff ended the replay or a consumer put it back into the replay queue
\* when it left it.  A StatefulSet controller that adopts the released target would
\* delete it.
THEOREM NothingEverSkipped ==
  ASSUME Adopts = FALSE
  PROVE  Spec => []NothingSkipped
<1>1. TypeOK /\ SurvivalInv /\ [Next]_vars => SurvivalInv'
  BY SurvivalNext
<1>2. TypeOK /\ SurvivalInv /\ DeliveryInv /\ [Next]_vars => DeliveryInv'
  BY DeliveryStill, DeliveryPods, DeliveryProcesses, DeliveryCalls, DeliveryTraffic
     DEF Next, Handlers, Environment
<1>3. TypeOK /\ SurvivalInv /\ DeliveryInv => NothingSkipped
  <2> SUFFICES ASSUME TypeOK, SurvivalInv, DeliveryInv, Watched,
                      NEW msg \in since + 1 .. published
               PROVE  msg \in Reachable("replacement") \cup returned
    BY DEF NothingSkipped, Watched
  <2>1. msg \in ready["replay"] \cup Held /\ (Ended => msg \in Held)
    BY DEF DeliveryInv, FlowInv, SinceBound
  <2>2. server.phase \in EndPhases => Ended
    BY SurvivalServer DEF Ended
  <2> QED BY <2>1, <2>2 DEF Reachable, Held, EndPhases
<1> QED BY <1>1, <1>2, <1>3, SurvivalInit, DeliveryInit, TypeCorrect, PTL DEF Spec
=============================================================================
