------------------------------ MODULE Transfer ------------------------------
(***************************************************************************)
(* How a checkpoint becomes an image the target node can start: the        *)
(* controller's Transferring phase, the ms2m-agents, the checkpoint-       *)
(* transfer Job and the places images are kept, for several migrations at  *)
(* once.                                                                   *)
(*                                                                         *)
(* An archive is named by its migration.  Work is what a transfer program  *)
(* is doing with an archive: a pod of the Job, or an agent serving a       *)
(* request.  An agent does not notice that its client has gone.            *)
(***************************************************************************)
EXTENDS Integers, FiniteSets

CONSTANTS
  Migs,        \* migrations
  Nodes,
  AgentNodes,  \* nodes with an ms2m-agent pod
  Direct,      \* migrations with transferMode Direct; the others use the registry
  SourceNode, TargetNode,  \* of each migration
  Pod,         \* the source pod of each migration
  Container,   \* the container checkpointed in it
  None,        \* no archive
  MaxTries,    \* bound: pods the Job runs before it fails (backoffLimit + 1)
  MaxFaults    \* bound: errors, lost answers and timeouts in a behaviour

ASSUME TransferAssumption ==
  /\ Direct \subseteq Migs
  /\ AgentNodes \subseteq Nodes
  /\ SourceNode \in [Migs -> Nodes] /\ TargetNode \in [Migs -> Nodes]
  /\ None \notin Migs /\ IsFiniteSet(Migs)
  /\ MaxTries \in Nat \ {0} /\ MaxFaults \in Nat

VARIABLES
  ctl,       \* ctl[g]: the controller's view of migration g
  job,       \* job[g]: the transfer Job
  tries,     \* tries[g]: pods of the Job so far
  work,      \* work in progress
  up,        \* nodes whose agent is running
  registry,  \* registry[p]: archive behind <repository>/<p>:checkpoint
  store,     \* store[n][c]: archive behind localhost/checkpoint/<c>:latest on node n
  files,     \* files[n]: uploads left in the agent's storage directory
  restored,  \* restored[g]: the archive the target pod was started from
  faults     \* faults so far

vars == <<ctl, job, tries, work, up, registry, store, files, restored, faults>>

Pods       == {Pod[g] : g \in Migs}
Containers == {Container[g] : g \in Migs}
Archives   == [mig : Migs, whole : BOOLEAN]
NoArchive  == [mig |-> None, whole |-> FALSE]

\* via: the program and the request it serves.  client: who waits for the end.
Works ==
  [mig : Migs, via : {"upload", "push", "jobPush"}, node : Nodes,
   step : {"receive", "build", "store", "ok", "error"}, whole : BOOLEAN,
   client : {"controller", "job", "gone"}, id : 0 .. MaxTries]

TypeOK ==
  /\ ctl \in [Migs -> {"new", "transferring", "calling", "restoring", "failed"}]
  /\ job \in [Migs -> {"none", "active", "succeeded", "failed"}]
  /\ tries \in [Migs -> 0 .. MaxTries]
  /\ work \in SUBSET Works
  /\ up \in SUBSET AgentNodes
  /\ registry \in [Pods -> Archives \cup {NoArchive}]
  /\ store \in [Nodes -> [Containers -> Archives \cup {NoArchive}]]
  /\ files \in [Nodes -> SUBSET (Migs \X (0 .. MaxTries))]
  /\ restored \in [Migs -> Archives \cup {NoArchive}]
  /\ faults \in 0 .. MaxFaults

Init ==
  /\ ctl = [g \in Migs |-> "new"]
  /\ job = [g \in Migs |-> "none"]
  /\ tries = [g \in Migs |-> 0]
  /\ work = {}
  /\ up = AgentNodes
  /\ registry = [p \in Pods |-> NoArchive]
  /\ store = [n \in Nodes |-> [c \in Containers |-> NoArchive]]
  /\ files = [n \in Nodes |-> {}]
  /\ restored = [g \in Migs |-> NoArchive]
  /\ faults = 0

Fault == faults < MaxFaults /\ faults' = faults + 1

-----------------------------------------------------------------------------
(***************************************************************************)
(* The controller.                                                         *)
(***************************************************************************)
Begin(g) ==
  /\ ctl[g] = "new"
  /\ ctl' = [ctl EXCEPT ![g] = "transferring"]
  /\ UNCHANGED <<job, tries, work, up, registry, store, files, restored, faults>>

HasAgent(g) == g \notin Direct /\ SourceNode[g] \in up

\* The Job is the fallback when findAgentPodIP finds no agent, or cannot list the pods.
FallsBack(g) == IF HasAgent(g) THEN Fault ELSE UNCHANGED faults

\* findAgentPodIP and callAgentRegistryPush
CallAgent(g) ==
  /\ ctl[g] = "transferring" /\ HasAgent(g)
  /\ ctl' = [ctl EXCEPT ![g] = "calling"]
  /\ work' = work \cup {[mig |-> g, via |-> "push", node |-> SourceNode[g], step |-> "build",
                         whole |-> TRUE, client |-> "controller", id |-> 0]}
  /\ UNCHANGED <<job, tries, up, registry, store, files, restored, faults>>

\* The call ends with the agent's answer, or after 60 seconds without one.
AgentAnswers(g) ==
  /\ ctl[g] = "calling"
  /\ \E w \in work :
       /\ w.mig = g /\ w.client = "controller" /\ w.step \in {"ok", "error"}
       /\ ctl' = [ctl EXCEPT ![g] = IF w.step = "ok" THEN "restoring" ELSE "failed"]
       /\ work' = work \ {w}
  /\ UNCHANGED <<job, tries, up, registry, store, files, restored, faults>>

HangUp(g) == {IF w.mig = g /\ w.client = "controller" THEN [w EXCEPT !.client = "gone"] ELSE w
              : w \in work}

AgentTimeout(g) ==
  /\ ctl[g] = "calling"
  /\ Fault
  /\ ctl' = [ctl EXCEPT ![g] = "failed"]
  /\ work' = HangUp(g)
  /\ UNCHANGED <<job, tries, up, registry, store, files, restored>>

\* The controller restarts during the call, and begins the phase again.
Restart(g) ==
  /\ ctl[g] = "calling"
  /\ Fault
  /\ ctl' = [ctl EXCEPT ![g] = "transferring"]
  /\ work' = HangUp(g)
  /\ UNCHANGED <<job, tries, up, registry, store, files, restored>>

\* A variant of CreateJob with a bug: a failed Job is replaced by a new one, for ever.
CreateJobAgain(g) ==
  /\ ctl[g] = "transferring" /\ job[g] \in {"none", "failed"} /\ FallsBack(g)
  /\ job' = [job EXCEPT ![g] = "active"]
  /\ UNCHANGED <<ctl, tries, work, up, registry, store, files, restored>>

\* A Get that fails, or a Create that finds the Job there, is tried again.
CreateJob(g) ==
  /\ ctl[g] = "transferring" /\ job[g] = "none" /\ FallsBack(g)
  /\ job' = [job EXCEPT ![g] = "active"]
  /\ UNCHANGED <<ctl, tries, work, up, registry, store, files, restored>>

\* Any other error of Create fails the migration.
CreateJobFails(g) ==
  /\ ctl[g] = "transferring" /\ job[g] = "none"
  /\ Fault
  /\ ctl' = [ctl EXCEPT ![g] = "failed"]
  /\ UNCHANGED <<job, tries, work, up, registry, store, files, restored>>

\* A variant of JobSucceeded with a bug: it waits for the Job's last pod.
JobSucceededLast(g) ==
  /\ ctl[g] = "transferring" /\ job[g] = "succeeded" /\ FallsBack(g) /\ tries[g] = MaxTries
  /\ ctl' = [ctl EXCEPT ![g] = "restoring"]
  /\ UNCHANGED <<job, tries, work, up, registry, store, files, restored>>

\* A failed Job is never looked at: the controller goes on waiting.
JobSucceeded(g) ==
  /\ ctl[g] = "transferring" /\ job[g] = "succeeded" /\ FallsBack(g)
  /\ ctl' = [ctl EXCEPT ![g] = "restoring"]
  /\ UNCHANGED <<job, tries, work, up, registry, store, files, restored>>

\* The target pod: PullAlways from the registry, or PullNever from the node's store.
Pulled(g) == IF g \in Direct THEN store[TargetNode[g]][Container[g]] ELSE registry[Pod[g]]

StartPod(g) ==
  /\ ctl[g] = "restoring" /\ restored[g] = NoArchive /\ Pulled(g) # NoArchive
  /\ restored' = [restored EXCEPT ![g] = Pulled(g)]
  /\ UNCHANGED <<ctl, job, tries, work, up, registry, store, files, faults>>

-----------------------------------------------------------------------------
(***************************************************************************)
(* The Job and its pods, one at a time, which run checkpoint-transfer.     *)
(***************************************************************************)
Waiting(g) == {w \in work : w.mig = g /\ w.client = "job"}

\* directTransfer posts to the name of the Service, which stands for any agent.
\* A read error in the middle ends the body without its closing boundary.
JobPod(g) ==
  /\ job[g] = "active" /\ Waiting(g) = {}
  /\ g \in Direct => up # {}
  /\ tries' = [tries EXCEPT ![g] = @ + 1]
  /\ IF g \in Direct
     THEN \E n \in up, whole \in BOOLEAN :
            /\ IF whole THEN UNCHANGED faults ELSE Fault
            /\ work' = work \cup {[mig |-> g, via |-> "upload", node |-> n, step |-> "receive",
                                   whole |-> whole, client |-> "job", id |-> tries[g] + 1]}
     ELSE /\ work' = work \cup {[mig |-> g, via |-> "jobPush", node |-> SourceNode[g],
                                 step |-> "build", whole |-> TRUE, client |-> "job",
                                 id |-> tries[g] + 1]}
          /\ UNCHANGED faults
  /\ UNCHANGED <<ctl, job, up, registry, store, files, restored>>

\* No agent answers under the name of the Service.
JobPodRefused(g) ==
  /\ job[g] = "active" /\ Waiting(g) = {}
  /\ g \in Direct /\ up = {}
  /\ tries' = [tries EXCEPT ![g] = @ + 1]
  /\ job' = IF tries'[g] = MaxTries THEN [job EXCEPT ![g] = "failed"] ELSE job
  /\ UNCHANGED <<ctl, work, up, registry, store, files, restored, faults>>

\* The pod exits with the outcome of its push or with the agent's answer.
JobPodExits(g) ==
  /\ \E w \in Waiting(g) :
       /\ w.step \in {"ok", "error"}
       /\ work' = work \ {w}
       /\ job' = IF w.step = "ok" THEN [job EXCEPT ![g] = "succeeded"]
                 ELSE IF tries[g] = MaxTries THEN [job EXCEPT ![g] = "failed"] ELSE job
  /\ UNCHANGED <<ctl, tries, up, registry, store, files, restored, faults>>

\* The pod is killed or loses its connection.  An agent keeps what it received.
JobPodLost(g) ==
  /\ Fault
  /\ \E w \in Waiting(g) :
       work' = (work \ {w}) \cup
               (IF w.via = "jobPush" \/ w.step \in {"receive", "ok", "error"} THEN {}
                ELSE {[w EXCEPT !.client = "gone"]})
  /\ job' = IF tries[g] = MaxTries THEN [job EXCEPT ![g] = "failed"] ELSE job
  /\ UNCHANGED <<ctl, tries, up, registry, store, files, restored>>

-----------------------------------------------------------------------------
(***************************************************************************)
(* The steps of ServeHTTP, registryPush and registryTransfer.              *)
(***************************************************************************)
Progress(w, step) == work' = (work \ {w}) \cup {[w EXCEPT !.step = step]}
Stays == UNCHANGED <<ctl, job, tries, up, restored>>

\* A variant of Receive with a bug: a truncated body is accepted.
ReceiveTruncated(w) ==
  /\ w \in work /\ w.step = "receive"
  /\ Progress(w, "build") /\ files' = [files EXCEPT ![w.node] = @ \cup {<<w.mig, w.id>>}]
  /\ UNCHANGED <<registry, store, faults>> /\ Stays

\* ParseMultipartForm refuses a truncated body; the file is written after it.
Receive(w) ==
  /\ w \in work /\ w.step = "receive"
  /\ IF w.whole
     THEN Progress(w, "build") /\ files' = [files EXCEPT ![w.node] = @ \cup {<<w.mig, w.id>>}]
     ELSE Progress(w, "error") /\ UNCHANGED files
  /\ UNCHANGED <<registry, store, faults>> /\ Stays

Build(w) ==
  /\ w \in work /\ w.step = "build"
  /\ Progress(w, "store")
  /\ UNCHANGED <<registry, store, files, faults>> /\ Stays

Archive(w) == [mig |-> w.mig, whole |-> w.whole]

\* A variant of Store with a bug: the uploaded file is not removed.
StoreLeaky(w) ==
  /\ w \in work /\ w.step = "store"
  /\ Progress(w, "ok")
  /\ IF w.via = "upload"
     THEN store' = [store EXCEPT ![w.node][Container[w.mig]] = Archive(w)] /\ UNCHANGED registry
     ELSE registry' = [registry EXCEPT ![Pod[w.mig]] = Archive(w)] /\ UNCHANGED store
  /\ UNCHANGED <<files, faults>> /\ Stays

\* crane.Push, or skopeo copy into the store of the agent's own node, after which
\* the uploaded file is removed.
Store(w) ==
  /\ w \in work /\ w.step = "store"
  /\ Progress(w, "ok")
  /\ IF w.via = "upload"
     THEN /\ store' = [store EXCEPT ![w.node][Container[w.mig]] = Archive(w)]
          /\ files' = [files EXCEPT ![w.node] = @ \ {<<w.mig, w.id>>}]
          /\ UNCHANGED registry
     ELSE /\ registry' = [registry EXCEPT ![Pod[w.mig]] = Archive(w)]
          /\ UNCHANGED <<store, files>>
  /\ UNCHANGED faults /\ Stays

\* Any step may fail.  The error return leaves an uploaded file where it is, and one
\* that was only written in part.
StepFails(w) ==
  /\ w \in work /\ w.step \in {"receive", "build", "store"}
  /\ Fault
  /\ Progress(w, "error")
  /\ files' \in {files} \cup (IF w.step # "receive" THEN {}
                             ELSE {[files EXCEPT ![w.node] = @ \cup {<<w.mig, w.id>>}]})
  /\ UNCHANGED <<registry, store>> /\ Stays

\* An agent whose client has gone comes to its end all the same.
Abandoned(w) ==
  /\ w \in work /\ w.client = "gone" /\ w.step \in {"ok", "error"}
  /\ work' = work \ {w}
  /\ UNCHANGED <<registry, store, files, faults>> /\ Stays

\* An agent's pod stops, with all it is working on, and is started again.
AgentStops(n) ==
  /\ n \in up
  /\ Fault
  /\ up' = up \ {n}
  /\ work' = {IF w.node = n /\ w.via # "jobPush" THEN [w EXCEPT !.step = "error"] ELSE w
              : w \in work}
  /\ UNCHANGED <<ctl, job, tries, registry, store, files, restored>>

AgentStarts(n) ==
  /\ n \in AgentNodes \ up
  /\ up' = up \cup {n}
  /\ UNCHANGED <<ctl, job, tries, work, registry, store, files, restored, faults>>

-----------------------------------------------------------------------------
Controller(g) ==
  Begin(g) \/ CallAgent(g) \/ AgentAnswers(g) \/ CreateJob(g) \/ JobSucceeded(g) \/ StartPod(g)
JobRuns(g) == JobPod(g) \/ JobPodRefused(g) \/ JobPodExits(g)
Agents == \E w \in work : Receive(w) \/ Build(w) \/ Store(w) \/ Abandoned(w)

Done ==
  /\ \A g \in Migs : ctl[g] = "failed" \/ restored[g] # NoArchive \/ job[g] = "failed"
                     \/ ctl[g] = "restoring"
  /\ UNCHANGED vars

Next ==
  \/ \E g \in Migs : \/ Controller(g) \/ AgentTimeout(g) \/ Restart(g) \/ CreateJobFails(g)
                     \/ JobRuns(g) \/ JobPodLost(g)
  \/ Agents
  \/ \E w \in work : StepFails(w)
  \/ \E n \in AgentNodes : AgentStops(n) \/ AgentStarts(n)
  \/ Done

Spec == Init /\ [][Next]_vars

\* The controller and the Job controller go on, and every program goes on to its end.
FairSpec ==
  /\ Spec
  /\ \A g \in Migs : WF_vars(Controller(g)) /\ WF_vars(JobRuns(g))
  /\ WF_vars(Agents)
  /\ \A n \in AgentNodes : WF_vars(AgentStarts(n))

-----------------------------------------------------------------------------
(***************************************************************************)
(* Properties.                                                             *)
(***************************************************************************)
Own(g) == [mig |-> g, whole |-> TRUE]

\* No other migration publishes under the tag g's image has.
Sole(g) ==
  \A h \in Migs \ {g} :
    IF g \in Direct THEN h \notin Direct \/ Container[h] # Container[g]
                    ELSE h \in Direct \/ Pod[h] # Pod[g]

\* When the phase ends in success the whole checkpoint has been published, whatever
\* attempts failed, were cut short or lost their answer before; and what the target
\* pod was started from is the migration's own checkpoint.
OwnImage ==
  \A g \in Migs : Sole(g) =>
    /\ ctl[g] = "restoring" =>
         IF g \in Direct THEN \E n \in AgentNodes : store[n][Container[g]] = Own(g)
                         ELSE registry[Pod[g]] = Own(g)
    /\ restored[g] \in {NoArchive, Own(g)}

\* An agent's storage holds the uploads it works on and one file for each upload
\* that failed; those nobody removes (the error returns of ServeHTTP).  A fault fails
\* at most one upload of each migration: an agent that stops takes down all it serves.
FilesAccounted ==
  Cardinality(UNION {{<<n, f>> : f \in files[n]} : n \in Nodes})
    <= Cardinality({w \in work : w.via = "upload"}) + Cardinality(Direct) * faults

\* Direct mode loads the checkpoint on the target node (README.md:54).
TargetHasImage ==
  \A g \in Direct : ctl[g] = "restoring" => store[TargetNode[g]][Container[g]] # NoArchive

\* A Direct upload ended on the node of another agent, so that the target pod, which
\* pulls from its own node's store only, does not find it.
Misplaced(g) ==
  g \in Direct /\ ctl[g] = "restoring" /\ store[TargetNode[g]][Container[g]] = NoArchive

\* A migration that began gets its target pod started, or fails, with two exceptions
\* the controller does not notice: its Job failed (handleTransferringViaJob only looks
\* at Succeeded), or an agent of another node took the upload posted to the Service
\* (TargetHasImage).
TransferEnds ==
  \A g \in Migs :
    ctl[g] = "transferring"
      ~> (\/ ctl[g] = "failed" \/ restored[g] # NoArchive
          \/ job[g] = "failed" \/ Misplaced(g))
=============================================================================
