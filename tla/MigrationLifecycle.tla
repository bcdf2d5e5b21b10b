------------------------- MODULE MigrationLifecycle -------------------------
(***************************************************************************)
(* What a migration promises, whatever happens inside its phases: the      *)
(* phases of the life cycle in their order, an end that is an end, and at  *)
(* every moment a copy of the pod's state from which the service can go    *)
(* on - a running process that has it, or an image a process can be        *)
(* restored from.                                                          *)
(***************************************************************************)
EXTENDS TLAPS

VARIABLES
  phase,   \* status.phase
  kind,    \* the strategy; "Auto" until it is detected
  saved,   \* a checkpoint is recorded
  image,   \* its image can be pulled
  source,  \* the source process runs
  target   \* the target process runs

vars == <<phase, kind, saved, image, source, target>>

Init ==
  /\ phase = "New"
  /\ kind \in {"Auto", "ShadowPod", "Sequential"}
  /\ source \in BOOLEAN
  /\ saved = FALSE /\ image = FALSE /\ target = FALSE

Moves(from, to) == phase = from /\ phase' = to

Accept == Moves("New", "Pending") /\ UNCHANGED <<kind, saved, image, source, target>>

Detect ==
  /\ phase = "Pending" /\ kind = "Auto"
  /\ kind' \in {"ShadowPod", "Sequential"}
  /\ UNCHANGED <<phase, saved, image, source, target>>

Validate == /\ Moves("Pending", "Checkpointing") /\ kind # "Auto"
            /\ UNCHANGED <<kind, saved, image, source, target>>

Checkpoint == /\ Moves("Checkpointing", "Transferring") /\ source /\ saved' = TRUE
              /\ UNCHANGED <<kind, image, source, target>>

\* Also after the migration failed: a Job nobody waits for any more.
Publish == /\ phase \in {"Transferring", "Failed"} /\ saved /\ image' = TRUE
           /\ UNCHANGED <<phase, kind, saved, source, target>>

Transfer == /\ Moves("Transferring", "Restoring") /\ image
            /\ UNCHANGED <<kind, saved, image, source, target>>

\* The target starts next to the source, or in its place.
StartTarget == /\ phase = "Restoring" /\ image /\ target' = TRUE
               /\ kind = "Sequential" => ~source
               /\ UNCHANGED <<phase, kind, saved, image, source>>

Restore == /\ Moves("Restoring", "Replaying") /\ target
           /\ UNCHANGED <<kind, saved, image, source, target>>

Replay == /\ Moves("Replaying", "Finalizing")
          /\ UNCHANGED <<kind, saved, image, source, target>>

Complete == /\ Moves("Finalizing", "Completed")
            /\ UNCHANGED <<kind, saved, image, source, target>>

Fail == /\ phase \in {"Pending", "Checkpointing", "Transferring", "Restoring", "Replaying"}
        /\ phase' = "Failed"
        /\ UNCHANGED <<kind, saved, image, source, target>>

\* The source stops on behalf of the migration in Restoring (Sequential) or once
\* the target has caught up (ShadowPod); its owner may then start an empty one.
\* Before the checkpoint the pod is its owner's business alone.
SourceChanges ==
  /\ \/ ~saved
     \/ kind = "Sequential" /\ phase = "Restoring" /\ source
     \/ kind = "ShadowPod" /\ phase \in {"Finalizing", "Completed"} /\ target
  /\ source' = ~source
  /\ UNCHANGED <<phase, kind, saved, image, target>>

Next ==
  \/ Accept \/ Detect \/ Validate \/ Checkpoint \/ Publish \/ Transfer \/ StartTarget
  \/ Restore \/ Replay \/ Complete \/ Fail \/ SourceChanges

Spec == Init /\ [][Next]_vars

-----------------------------------------------------------------------------
\* Once a checkpoint is recorded there is the source process or an image to restore
\* from, also after a failure; from Replaying on the target runs.
StateSurvives ==
  /\ saved => source \/ image
  /\ phase \in {"Replaying", "Finalizing", "Completed"} => target

-----------------------------------------------------------------------------
Early == {"New", "Pending", "Checkpointing"}
Late  == {"Restoring", "Replaying", "Finalizing", "Completed"}

\* The phase says how far the state has got: no checkpoint before Transferring, an
\* image from Restoring on; and there is no target without an image.
Progress ==
  /\ saved \in BOOLEAN /\ image \in BOOLEAN /\ source \in BOOLEAN /\ target \in BOOLEAN
  /\ phase \in Early => ~saved
  /\ phase \in Late => image
  /\ target => image

\* At every moment after the checkpoint the pod's state is in a running source or in an
\* image that can be pulled (handleCheckpointing to handleFinalizing), and a migration
\* that has left Restoring has a running target.
THEOREM Survival == Spec => []StateSurvives
<1> DEFINE Inv == Progress /\ StateSurvives
<1>1. Init => Inv
  BY DEF Init, Progress, StateSurvives, Early, Late
<1>2. Inv /\ [Next]_vars => Inv'
  <2> SUFFICES ASSUME Inv, [Next]_vars PROVE Inv'
    OBVIOUS
  <2> USE DEF Progress, StateSurvives, Early, Late, Moves
  <2>0. CASE Checkpoint
    <3>1. saved' = TRUE /\ source' /\ UNCHANGED <<image, source, target>>
          /\ phase' = "Transferring"
      BY <2>0 DEF Checkpoint
    <3> QED BY <3>1
  <2>1. CASE Accept \/ Detect \/ Validate
    BY <2>1 DEF Accept, Detect, Validate
  <2>2. CASE Publish \/ Transfer \/ StartTarget \/ Restore
    BY <2>2 DEF Publish, Transfer, StartTarget, Restore
  <2>3. CASE Replay \/ Complete \/ Fail
    BY <2>3 DEF Replay, Complete, Fail
  <2>4. CASE SourceChanges
    BY <2>4 DEF SourceChanges
  <2>5. CASE UNCHANGED vars
    BY <2>5 DEF vars
  <2> QED BY <2>0, <2>1, <2>2, <2>3, <2>4, <2>5 DEF Next
<1>3. Inv => StateSurvives
  OBVIOUS
<1> QED BY <1>1, <1>2, <1>3, PTL DEF Spec
=============================================================================
