-------------------------- MODULE Transfer_proofs ---------------------------
(***************************************************************************)
(* What the checkpoint transfer guarantees for any number of migrations,   *)
(* nodes, agents, Job pods and faults.                                     *)
(***************************************************************************)
EXTENDS Transfer, FiniteSetTheorems, TLAPS

Steps == {"receive", "build", "store", "ok", "error"}

\* What an action does to one piece of work.
LEMMA WorkFields ==
  ASSUME NEW w \in Works
  PROVE  /\ w.mig \in Migs /\ w.via \in {"upload", "push", "jobPush"} /\ w.node \in Nodes
         /\ w.step \in Steps /\ w.whole \in BOOLEAN /\ w.id \in 0 .. MaxTries
         /\ w.client \in {"controller", "job", "gone"}
BY DEF Works, Steps

LEMMA StepTo ==
  ASSUME NEW w \in Works, NEW s \in Steps
  PROVE  /\ [w EXCEPT !.step = s] \in Works
         /\ [w EXCEPT !.step = s].step = s
         /\ [w EXCEPT !.step = s].mig = w.mig /\ [w EXCEPT !.step = s].via = w.via
         /\ [w EXCEPT !.step = s].node = w.node /\ [w EXCEPT !.step = s].whole = w.whole
         /\ [w EXCEPT !.step = s].client = w.client /\ [w EXCEPT !.step = s].id = w.id
BY DEF Works, Steps

LEMMA ClientGone ==
  ASSUME NEW w \in Works
  PROVE  /\ [w EXCEPT !.client = "gone"] \in Works
         /\ [w EXCEPT !.client = "gone"].client = "gone"
         /\ [w EXCEPT !.client = "gone"].mig = w.mig /\ [w EXCEPT !.client = "gone"].via = w.via
         /\ [w EXCEPT !.client = "gone"].node = w.node
         /\ [w EXCEPT !.client = "gone"].whole = w.whole
         /\ [w EXCEPT !.client = "gone"].step = w.step /\ [w EXCEPT !.client = "gone"].id = w.id
BY DEF Works

-----------------------------------------------------------------------------
(***************************************************************************)
(* Types.  The Job starts a pod only while pods are left: a pod that ends  *)
(* badly as the last one makes the Job fail.                               *)
(***************************************************************************)
JobInv ==
  \A g \in Migs :
    /\ job[g] = "none" => tries[g] = 0
    /\ job[g] = "active" /\ Waiting(g) = {} => tries[g] < MaxTries

TypeInv == TypeOK /\ JobInv

\* A program that goes on stays the work of its client.
LEMMA ProgressTypes ==
  ASSUME TypeOK, NEW w \in work, NEW s \in Steps, Progress(w, s)
  PROVE  /\ work' \in SUBSET Works
         /\ \A g \in Migs : Waiting(g)' = {} => Waiting(g) = {}
<1>1. work \in SUBSET Works /\ w \in Works
  BY DEF TypeOK
<1>2. work' = (work \ {w}) \cup {[w EXCEPT !.step = s]}
  BY DEF Progress
<1>3. work' \in SUBSET Works
  BY <1>1, <1>2, StepTo
<1>4. ASSUME NEW g \in Migs, Waiting(g) # {} PROVE Waiting(g)' # {}
  <2>1. PICK v \in work : v.mig = g /\ v.client = "job"
    BY <1>4 DEF Waiting
  <2>2. CASE v = w
    <3>1. [w EXCEPT !.step = s] \in work'
      BY <1>2
    <3>2. [w EXCEPT !.step = s].mig = g /\ [w EXCEPT !.step = s].client = "job"
      BY <1>1, <2>1, <2>2, StepTo
    <3> QED BY <3>1, <3>2 DEF Waiting
  <2>3. CASE v # w
    BY <1>2, <2>1, <2>3 DEF Waiting
  <2> QED BY <2>2, <2>3
<1> QED BY <1>3, <1>4

\* The controller.
LEMMA TypesController ==
  ASSUME TypeInv, NEW g \in Migs,
         Controller(g) \/ AgentTimeout(g) \/ Restart(g) \/ CreateJobFails(g)
  PROVE  TypeInv'
<1> USE TransferAssumption DEF TypeInv
<1>1. CASE Begin(g)
  BY <1>1 DEF Begin, TypeOK, JobInv, Waiting
<1>2. CASE CallAgent(g)
  <2> DEFINE v == [mig |-> g, via |-> "push", node |-> SourceNode[g], step |-> "build",
                   whole |-> TRUE, client |-> "controller", id |-> 0]
  <2>1. work' = work \cup {v} /\ ctl' = [ctl EXCEPT ![g] = "calling"]
        /\ UNCHANGED <<job, tries, up, registry, store, files, restored, faults>>
    BY <1>2 DEF CallAgent
  <2>2. v \in Works
    BY DEF Works
  <2>3. v.client # "job"
    OBVIOUS
  <2> HIDE DEF v
  <2>4. TypeOK'
    BY <2>1, <2>2 DEF TypeOK
  <2> QED BY <2>1, <2>4 DEF JobInv, Waiting
<1>3. CASE AgentAnswers(g)
  <2>1. PICK w \in work :
          /\ w.client = "controller" /\ work' = work \ {w}
          /\ ctl' = [ctl EXCEPT ![g] = IF w.step = "ok" THEN "restoring" ELSE "failed"]
    BY <1>3 DEF AgentAnswers
  <2>2. UNCHANGED <<job, tries, up, registry, store, files, restored, faults>>
    BY <1>3 DEF AgentAnswers
  <2>3. TypeOK'
    BY <2>1, <2>2 DEF TypeOK
  <2> QED BY <2>1, <2>2, <2>3 DEF JobInv, Waiting
<1>4. CASE AgentTimeout(g) \/ Restart(g)
  <2>1. /\ ctl' = [ctl EXCEPT ![g] = "failed"] \/ ctl' = [ctl EXCEPT ![g] = "transferring"]
        /\ work' = HangUp(g) /\ faults < MaxFaults /\ faults' = faults + 1
        /\ UNCHANGED <<job, tries, up, registry, store, files, restored>>
    BY <1>4 DEF AgentTimeout, Restart, Fault
  <2>2. work' \in SUBSET Works
    BY <2>1, ClientGone DEF HangUp, TypeOK
  <2>3. \A h \in Migs : Waiting(h)' = {} => Waiting(h) = {}
    BY <2>1 DEF Waiting, HangUp
  <2>4. ctl' \in [Migs -> {"new", "transferring", "calling", "restoring", "failed"}]
    BY <2>1 DEF TypeOK
  <2>5. faults' \in 0 .. MaxFaults
    BY <2>1 DEF TypeOK
  <2>6. TypeOK'
    BY <2>1, <2>2, <2>4, <2>5 DEF TypeOK
  <2> QED BY <2>1, <2>3, <2>6 DEF JobInv
<1>5. CASE CreateJob(g) \/ CreateJobFails(g) \/ JobSucceeded(g)
  <2>1. /\ job' = [job EXCEPT ![g] = "active"] \/ job' = job
        /\ \/ ctl' = ctl \/ ctl' = [ctl EXCEPT ![g] = "restoring"]
           \/ ctl' = [ctl EXCEPT ![g] = "failed"]
        /\ UNCHANGED <<tries, work, up, registry, store, files, restored>>
        /\ job[g] # "failed"
    BY <1>5 DEF CreateJob, CreateJobFails, JobSucceeded
  <2>2. faults' = faults \/ (faults < MaxFaults /\ faults' = faults + 1)
    BY <1>5 DEF CreateJob, CreateJobFails, JobSucceeded, FallsBack, Fault
  <2>3. faults' \in 0 .. MaxFaults
    BY <2>2 DEF TypeOK
  <2>4. TypeOK'
    BY <2>1, <2>3 DEF TypeOK
  <2>5. JobInv'
    BY <1>5, <2>1 DEF CreateJob, CreateJobFails, JobSucceeded, TypeOK, JobInv, Waiting
  <2> QED BY <2>4, <2>5
<1>6. CASE StartPod(g)
  <2>1. Pulled(g) \in Archives \cup {NoArchive}
    <3>1. Pod[g] \in Pods /\ Container[g] \in Containers /\ TargetNode[g] \in Nodes
      BY DEF Pods, Containers
    <3>2. registry[Pod[g]] \in Archives \cup {NoArchive}
      BY <3>1 DEF TypeOK
    <3>3. store[TargetNode[g]][Container[g]] \in Archives \cup {NoArchive}
      BY <3>1 DEF TypeOK
    <3> QED BY <3>2, <3>3 DEF Pulled
  <2> QED BY <1>6, <2>1 DEF StartPod, TypeOK, JobInv, Waiting
<1> QED BY <1>1, <1>2, <1>3, <1>4, <1>5, <1>6 DEF Controller

\* The Job.
LEMMA TypesJob ==
  ASSUME TypeInv, NEW g \in Migs, JobRuns(g) \/ JobPodLost(g)
  PROVE  TypeInv'
<1> USE TransferAssumption DEF TypeInv
<1>1. CASE JobPod(g)
  <2>1. tries[g] \in 0 .. MaxTries /\ tries[g] < MaxTries /\ job[g] = "active"
    BY <1>1 DEF JobPod, JobInv, TypeOK
  <2>2. PICK v \in Works : v.mig = g /\ v.client = "job" /\ work' = work \cup {v}
    <3>1. CASE g \in Direct
      <4>1. PICK n \in up, whole \in BOOLEAN :
              work' = work \cup {[mig |-> g, via |-> "upload", node |-> n, step |-> "receive",
                                  whole |-> whole, client |-> "job", id |-> tries[g] + 1]}
        BY <1>1, <3>1 DEF JobPod
      <4>2. n \in Nodes
        BY DEF TypeOK
      <4>3. [mig |-> g, via |-> "upload", node |-> n, step |-> "receive",
             whole |-> whole, client |-> "job", id |-> tries[g] + 1] \in Works
        BY <2>1, <4>2 DEF Works
      <4> QED BY <4>1, <4>3
    <3>2. CASE g \notin Direct
      <4>1. work' = work \cup {[mig |-> g, via |-> "jobPush", node |-> SourceNode[g],
                                step |-> "build", whole |-> TRUE, client |-> "job",
                                id |-> tries[g] + 1]}
        BY <1>1, <3>2 DEF JobPod
      <4>2. [mig |-> g, via |-> "jobPush", node |-> SourceNode[g], step |-> "build",
             whole |-> TRUE, client |-> "job", id |-> tries[g] + 1] \in Works
        BY <2>1 DEF Works
      <4> QED BY <4>1, <4>2
    <3> QED BY <3>1, <3>2
  <2>3. /\ tries' = [tries EXCEPT ![g] = @ + 1]
        /\ faults' = faults \/ (faults < MaxFaults /\ faults' = faults + 1)
        /\ UNCHANGED <<ctl, job, up, registry, store, files, restored>>
    BY <1>1 DEF JobPod, Fault
  <2>4. TypeOK'
    BY <2>1, <2>2, <2>3 DEF TypeOK
  <2>5. Waiting(g)' # {} /\ \A h \in Migs : Waiting(h)' = {} => Waiting(h) = {}
    BY <2>2 DEF Waiting
  <2> QED BY <2>1, <2>3, <2>4, <2>5 DEF JobInv, TypeOK
<1>2. CASE JobPodRefused(g)
  <2>1. tries[g] \in 0 .. MaxTries /\ tries[g] < MaxTries /\ job[g] = "active"
    BY <1>2 DEF JobPodRefused, JobInv, TypeOK
  <2>2. tries' = [tries EXCEPT ![g] = @ + 1]
        /\ job' = (IF tries[g] + 1 = MaxTries THEN [job EXCEPT ![g] = "failed"] ELSE job)
        /\ UNCHANGED <<ctl, work, up, registry, store, files, restored, faults>>
    BY <1>2 DEF JobPodRefused, TypeOK
  <2>3. TypeOK'
    BY <2>1, <2>2 DEF TypeOK
  <2>4. \A h \in Migs : Waiting(h)' = Waiting(h)
    BY <2>2 DEF Waiting
  <2>5. /\ job'[g] # "none"
        /\ job'[g] = "active" => tries'[g] < MaxTries
        /\ \A h \in Migs \ {g} : job'[h] = job[h] /\ tries'[h] = tries[h]
    <3>1. job \in [Migs -> {"none", "active", "succeeded", "failed"}]
          /\ tries \in [Migs -> 0 .. MaxTries]
      BY DEF TypeOK
    <3>2. tries'[g] = tries[g] + 1 /\ tries[g] + 1 <= MaxTries
      BY <2>1, <2>2, <3>1
    <3>3. CASE tries[g] + 1 = MaxTries
      BY <2>2, <3>1, <3>3
    <3>4. CASE tries[g] + 1 # MaxTries
      BY <2>1, <2>2, <3>1, <3>2, <3>4
    <3> QED BY <3>3, <3>4
  <2>6. JobInv'
    BY <2>4, <2>5 DEF JobInv
  <2> QED BY <2>3, <2>6
<1>3. CASE JobPodExits(g) \/ JobPodLost(g)
  <2>1. /\ \/ job' = [job EXCEPT ![g] = "succeeded"]
           \/ job' = IF tries[g] = MaxTries THEN [job EXCEPT ![g] = "failed"] ELSE job
        /\ faults' = faults \/ (faults < MaxFaults /\ faults' = faults + 1)
        /\ UNCHANGED <<ctl, tries, up, registry, store, files, restored>>
    BY <1>3 DEF JobPodExits, JobPodLost, Fault
  <2>2. PICK w \in Waiting(g) : work' = work \ {w}
                                \/ work' = (work \ {w}) \cup {[w EXCEPT !.client = "gone"]}
    BY <1>3 DEF JobPodExits, JobPodLost
  <2>3. w \in Works /\ w.mig = g /\ w.client = "job"
    BY DEF Waiting, TypeOK
  <2>4. work' \in SUBSET Works
    BY <2>2, <2>3, ClientGone DEF TypeOK
  <2>5. TypeOK'
    <3>1. job' \in [Migs -> {"none", "active", "succeeded", "failed"}]
      BY <2>1 DEF TypeOK
    <3>2. faults' \in 0 .. MaxFaults
      BY <2>1 DEF TypeOK
    <3> QED BY <2>1, <2>4, <3>1, <3>2 DEF TypeOK
  <2>6. \A h \in Migs \ {g} : Waiting(h)' = {} => Waiting(h) = {}
    BY <2>2, <2>3 DEF Waiting
  <2>7. job'[g] = "active" => tries[g] # MaxTries
    BY <2>1 DEF TypeOK
  <2>8. tries'[g] \in 0 .. MaxTries /\ \A h \in Migs \ {g} : job'[h] = job[h]
    BY <2>1 DEF TypeOK
  <2>9. job'[g] = "none" => job[g] = "none"
    BY <2>1 DEF TypeOK
  <2> QED BY <2>1, <2>5, <2>6, <2>7, <2>8, <2>9 DEF JobInv
<1> QED BY <1>1, <1>2, <1>3 DEF JobRuns

\* The agents.
LEMMA TypesAgents ==
  ASSUME TypeInv,
         \/ Agents
         \/ \E w \in work : StepFails(w)
         \/ \E n \in AgentNodes : AgentStops(n) \/ AgentStarts(n)
  PROVE  TypeInv'
<1> USE TransferAssumption DEF TypeInv, Stays
<1>1. ASSUME NEW w \in work, Receive(w) \/ Build(w) \/ Store(w) \/ StepFails(w)
      PROVE  TypeInv'
  <2>1. w \in Works /\ w.mig \in Migs /\ w.node \in Nodes /\ w.id \in 0 .. MaxTries
        /\ w.whole \in BOOLEAN
    BY WorkFields DEF TypeOK
  <2>2. PICK s \in Steps : Progress(w, s)
    BY <1>1 DEF Receive, Build, Store, StepFails, Steps
  <2>3. UNCHANGED <<ctl, job, tries, up, restored>>
        /\ (faults' = faults \/ (faults < MaxFaults /\ faults' = faults + 1))
    BY <1>1 DEF Receive, Build, Store, StepFails, Fault
  <2>4. \/ files' = files
        \/ files' = [files EXCEPT ![w.node] = @ \cup {<<w.mig, w.id>>}]
        \/ files' = [files EXCEPT ![w.node] = @ \ {<<w.mig, w.id>>}]
    BY <1>1 DEF Receive, Build, Store, StepFails
  <2>5. files' \in [Nodes -> SUBSET (Migs \X (0 .. MaxTries))]
    <3> DEFINE P == Migs \X (0 .. MaxTries)
               f == <<w.mig, w.id>>
    <3>1. f \in P /\ files \in [Nodes -> SUBSET P]
      BY <2>1 DEF TypeOK
    <3>2. files' \in {files, [files EXCEPT ![w.node] = @ \cup {f}],
                     [files EXCEPT ![w.node] = @ \ {f}]}
      BY <2>4
    <3> HIDE DEF P, f
    <3>3. files' \in [Nodes -> SUBSET P]
      BY <2>1, <3>1, <3>2
    <3> QED BY <3>3 DEF P
  <2>6. /\ registry' = registry \/ registry' = [registry EXCEPT ![Pod[w.mig]] = Archive(w)]
        /\ store' = store
           \/ store' = [store EXCEPT ![w.node][Container[w.mig]] = Archive(w)]
    BY <1>1 DEF Receive, Build, Store, StepFails
  <2>7. Archive(w) \in Archives
    BY <2>1 DEF Archive, Archives
  <2>8. registry' \in [Pods -> Archives \cup {NoArchive}]
    BY <2>6, <2>7 DEF TypeOK
  <2>9. store' \in [Nodes -> [Containers -> Archives \cup {NoArchive}]]
    <3>1. store \in [Nodes -> [Containers -> Archives \cup {NoArchive}]]
      BY DEF TypeOK
    <3>2. [store[w.node] EXCEPT ![Container[w.mig]] = Archive(w)]
            \in [Containers -> Archives \cup {NoArchive}]
      BY <2>1, <2>7, <3>1
    <3>3. [store EXCEPT ![w.node][Container[w.mig]] = Archive(w)]
            \in [Nodes -> [Containers -> Archives \cup {NoArchive}]]
      BY <2>1, <3>1, <3>2
    <3> QED BY <2>6, <3>1, <3>3
  <2>10. TypeOK'
    BY <2>2, <2>3, <2>5, <2>8, <2>9, ProgressTypes DEF TypeOK
  <2> QED BY <2>2, <2>3, <2>10, ProgressTypes DEF JobInv
<1>2. ASSUME NEW w \in work, Abandoned(w) PROVE TypeInv'
  BY <1>2 DEF Abandoned, TypeOK, JobInv, Waiting
<1>3. ASSUME NEW n \in AgentNodes, AgentStops(n) PROVE TypeInv'
  <2>1. /\ up' = up \ {n} /\ faults < MaxFaults /\ faults' = faults + 1
        /\ work' = {IF w.node = n /\ w.via # "jobPush" THEN [w EXCEPT !.step = "error"] ELSE w
                    : w \in work}
        /\ UNCHANGED <<ctl, job, tries, registry, store, files, restored>>
    BY <1>3 DEF AgentStops, Fault
  <2>2. work' \in SUBSET Works
    <3>1. \A w \in work : w \in Works /\ [w EXCEPT !.step = "error"] \in Works
      BY StepTo DEF TypeOK, Steps
    <3> QED BY <2>1, <3>1
  <2>3. TypeOK'
    BY <2>1, <2>2 DEF TypeOK
  <2>4. ASSUME NEW g \in Migs, Waiting(g) # {} PROVE Waiting(g)' # {}
    <3>1. PICK w \in work : w.mig = g /\ w.client = "job"
      BY <2>4 DEF Waiting
    <3>2. w \in Works
      BY DEF TypeOK
    <3>3. [w EXCEPT !.step = "error"].mig = g /\ [w EXCEPT !.step = "error"].client = "job"
      BY <3>1, <3>2, StepTo DEF Steps
    <3> QED BY <2>1, <3>1, <3>3 DEF Waiting
  <2> QED BY <2>1, <2>3, <2>4 DEF JobInv
<1>4. ASSUME NEW n \in AgentNodes, AgentStarts(n) PROVE TypeInv'
  BY <1>4 DEF AgentStarts, TypeOK, JobInv, Waiting
<1> QED BY <1>1, <1>2, <1>3, <1>4 DEF Agents

\* Types and the Job's budget of pods.
LEMMA TypeStep ==
  ASSUME TypeInv, [Next]_vars
  PROVE  TypeInv'
<1>1. CASE UNCHANGED vars
  BY <1>1 DEF vars, TypeInv, TypeOK, JobInv, Waiting
<1> QED BY <1>1, TypesController, TypesJob, TypesAgents DEF Next, Done

LEMMA TypeAlways == Spec => []TypeInv
<1>1. Init => TypeInv
  BY TransferAssumption DEF Init, TypeInv, TypeOK, JobInv, Waiting
<1>2. TypeInv /\ [Next]_vars => TypeInv'
  BY TypeStep
<1> QED BY <1>1, <1>2, PTL DEF Spec

\* TypeOK holds in every reachable state, for every set of migrations, nodes and agents
\* and every bound: in particular a Job never runs more pods than its backoff limit
\* allows, however its pods end.
THEOREM TypeCorrect == Spec => []TypeOK
<1>1. TypeInv => TypeOK
  BY DEF TypeInv
<1> QED BY <1>1, TypeAlways, PTL

-----------------------------------------------------------------------------
(***************************************************************************)
(* The image of a migration.  A work that got past its first step has the  *)
(* whole archive, the tag of a migration that shares it with no other only *)
(* ever stands for its own archive, and every sign of success on the way   *)
(* to the controller (an agent's answer, a pod's exit, the Job's status)   *)
(* comes after the image was published.                                    *)
(***************************************************************************)
WorkInv ==
  \A w \in work :
    /\ w.via = "upload" <=> w.mig \in Direct
    /\ w.via = "upload" => w.node \in AgentNodes
    /\ w.step \in {"build", "store", "ok"} => w.whole = TRUE

Published(g) == IF g \in Direct THEN \E n \in AgentNodes : store[n][Container[g]] = Own(g)
                                ELSE registry[Pod[g]] = Own(g)
Tagged(g) == IF g \in Direct THEN \A n \in Nodes : store[n][Container[g]] \in {NoArchive, Own(g)}
                             ELSE registry[Pod[g]] \in {NoArchive, Own(g)}
Answered(g) == \E w \in work : w.mig = g /\ w.step = "ok"

ImageInv(g) ==
  /\ Tagged(g) /\ restored[g] \in {NoArchive, Own(g)}
  /\ ctl[g] = "restoring" \/ job[g] = "succeeded" \/ Answered(g) => Published(g)

OwnInv == TypeInv /\ WorkInv /\ \A g \in Migs : Sole(g) => ImageInv(g)

\* Work of which a part ended, failed or lost its client.
Loses ==
  \A v \in work' : \E w \in work :
    /\ v.mig = w.mig /\ v.via = w.via /\ v.node = w.node /\ v.whole = w.whole
    /\ v.step \in {w.step, "error"}

LEMMA LosesWork ==
  ASSUME WorkInv, Loses
  PROVE  WorkInv' /\ \A g \in Migs : Answered(g)' => Answered(g)
BY DEF WorkInv, Loses, Answered

\* The controller hangs up, and an agent stops.
LEMMA HangUpLoses ==
  ASSUME TypeOK, NEW g \in Migs, work' = HangUp(g)
  PROVE  Loses
<1> SUFFICES ASSUME NEW v \in work'
             PROVE  \E w \in work : /\ v.mig = w.mig /\ v.via = w.via /\ v.node = w.node
                                    /\ v.whole = w.whole /\ v.step \in {w.step, "error"}
  BY DEF Loses
<1>1. PICK w \in work : v = w \/ v = [w EXCEPT !.client = "gone"]
  BY DEF HangUp
<1>2. w \in Works
  BY DEF TypeOK
<1>3. /\ v.mig = w.mig /\ v.via = w.via /\ v.node = w.node
      /\ v.whole = w.whole /\ v.step = w.step
  BY <1>1, <1>2, ClientGone
<1> QED BY <1>3

LEMMA StopLoses ==
  ASSUME TypeOK, NEW n \in AgentNodes, AgentStops(n)
  PROVE  Loses
<1> SUFFICES ASSUME NEW v \in work'
             PROVE  \E w \in work : /\ v.mig = w.mig /\ v.via = w.via /\ v.node = w.node
                                    /\ v.whole = w.whole /\ v.step \in {w.step, "error"}
  BY DEF Loses
<1>1. PICK w \in work : v = w \/ v = [w EXCEPT !.step = "error"]
  BY DEF AgentStops
<1>2. w \in Works
  BY DEF TypeOK
<1>3. CASE v = w
  BY <1>3
<1>4. CASE v = [w EXCEPT !.step = "error"]
  <2>1. /\ v.mig = w.mig /\ v.via = w.via /\ v.node = w.node
        /\ v.whole = w.whole /\ v.step = "error"
    BY <1>2, <1>4, StepTo DEF Steps
  <2> QED BY <2>1
<1> QED BY <1>1, <1>3, <1>4

\* A program that goes on: its work's other fields stay, the other works too.
LEMMA ProgressWork ==
  ASSUME TypeOK, WorkInv, NEW w \in work, NEW s \in Steps, Progress(w, s),
         s = "error" \/ w.whole = TRUE
  PROVE  /\ WorkInv'
         /\ \A g \in Migs : Answered(g)' => Answered(g) \/ (g = w.mig /\ s = "ok")
<1>1. w \in Works
  BY DEF TypeOK
<1> DEFINE u == [w EXCEPT !.step = s]
<1>2. u.mig = w.mig /\ u.via = w.via /\ u.node = w.node /\ u.whole = w.whole /\ u.step = s
  BY <1>1, StepTo
<1>3. work' = (work \ {w}) \cup {u}
  BY DEF Progress
<1> HIDE DEF u
<1> QED BY <1>2, <1>3 DEF WorkInv, Answered

\* What Store does to the tag of a migration that shares it with no other.
LEMMA StorePublishes ==
  ASSUME TypeInv, WorkInv, NEW w \in work, Store(w), NEW g \in Migs, Sole(g), Tagged(g)
  PROVE  Tagged(g)' /\ (Published(g) \/ w.mig = g => Published(g)')
<1> USE TransferAssumption
<1>1. w \in Works /\ w.mig \in Migs /\ w.node \in Nodes
  BY WorkFields DEF TypeInv, TypeOK
<1>2. /\ w.via = "upload" <=> w.mig \in Direct
      /\ w.via = "upload" => w.node \in AgentNodes
      /\ Archive(w) = Own(w.mig)
  BY DEF WorkInv, Store, Archive, Own
<1>3. /\ Container[g] \in Containers /\ Container[w.mig] \in Containers
      /\ Pod[g] \in Pods /\ Pod[w.mig] \in Pods
  BY <1>1 DEF Containers, Pods
<1>4. CASE w.via = "upload"
  <2>1. store' = [store EXCEPT ![w.node][Container[w.mig]] = Own(w.mig)] /\ registry' = registry
    BY <1>2, <1>4 DEF Store
  <2>2. store \in [Nodes -> [Containers -> Archives \cup {NoArchive}]]
    BY DEF TypeInv, TypeOK
  <2>3. \A n \in Nodes :
          store'[n][Container[g]] = IF n = w.node /\ Container[g] = Container[w.mig]
                                    THEN Own(w.mig) ELSE store[n][Container[g]]
    BY <1>1, <1>3, <2>1, <2>2
  <2>4. CASE g \notin Direct
    BY <1>2, <1>4, <2>1, <2>4 DEF Tagged, Published
  <2>5. CASE g \in Direct /\ w.mig # g
    <3>1. Container[g] # Container[w.mig]
      BY <1>1, <1>2, <1>4, <2>5 DEF Sole
    <3>2. \A n \in Nodes : store'[n][Container[g]] = store[n][Container[g]]
      BY <2>3, <3>1
    <3> QED BY <2>5, <3>2 DEF Tagged, Published
  <2>6. CASE g \in Direct /\ w.mig = g
    <3>1. store'[w.node][Container[g]] = Own(g) /\ w.node \in AgentNodes
      BY <1>1, <1>2, <1>4, <2>3, <2>6
    <3>2. \A n \in Nodes : store'[n][Container[g]] \in {store[n][Container[g]], Own(g)}
      BY <2>3, <2>6
    <3> QED BY <2>6, <3>1, <3>2 DEF Tagged, Published
  <2> QED BY <2>4, <2>5, <2>6
<1>5. CASE w.via # "upload"
  <2>1. registry' = [registry EXCEPT ![Pod[w.mig]] = Own(w.mig)] /\ store' = store
    BY <1>2, <1>5 DEF Store
  <2>2. registry \in [Pods -> Archives \cup {NoArchive}]
    BY DEF TypeInv, TypeOK
  <2>3. registry'[Pod[g]] = IF Pod[g] = Pod[w.mig] THEN Own(w.mig) ELSE registry[Pod[g]]
    BY <1>3, <2>1, <2>2
  <2>4. CASE g \in Direct
    BY <1>2, <1>5, <2>1, <2>4 DEF Tagged, Published
  <2>5. CASE g \notin Direct /\ w.mig # g
    <3>1. Pod[g] # Pod[w.mig]
      BY <1>1, <1>2, <1>5, <2>5 DEF Sole
    <3> QED BY <2>3, <2>5, <3>1 DEF Tagged, Published
  <2>6. CASE g \notin Direct /\ w.mig = g
    BY <2>3, <2>6 DEF Tagged, Published
  <2> QED BY <2>4, <2>5, <2>6
<1> QED BY <1>4, <1>5

\* The tags stay, and what is taken for success was a success before.
LEMMA ImageKept ==
  ASSUME NEW g \in Migs, ImageInv(g), UNCHANGED <<registry, store>>,
         restored'[g] = restored[g],
         (ctl[g] = "restoring" \/ job[g] = "succeeded" \/ Answered(g))'
           => ctl[g] = "restoring" \/ job[g] = "succeeded" \/ Answered(g)
  PROVE  ImageInv(g)'
BY DEF ImageInv, Tagged, Published

LEMMA OwnController ==
  ASSUME OwnInv, TypeInv', NEW g \in Migs,
         Controller(g) \/ AgentTimeout(g) \/ Restart(g) \/ CreateJobFails(g)
  PROVE  OwnInv'
<1> USE TransferAssumption DEF OwnInv
<1>0. /\ TypeOK
      /\ ctl \in [Migs -> {"new", "transferring", "calling", "restoring", "failed"}]
      /\ restored \in [Migs -> Archives \cup {NoArchive}]
  BY DEF TypeInv, TypeOK
<1>1. CASE Begin(g) \/ CreateJob(g) \/ CreateJobFails(g) \/ JobSucceeded(g)
  <2>1. UNCHANGED <<work, registry, store, restored>>
    BY <1>1 DEF Begin, CreateJob, CreateJobFails, JobSucceeded
  <2>2. \A h \in Migs : ctl'[h] = "restoring" \/ job'[h] = "succeeded"
                         => ctl[h] = "restoring" \/ job[h] = "succeeded"
    BY <1>0, <1>1 DEF Begin, CreateJob, CreateJobFails, JobSucceeded, TypeOK
  <2>3. WorkInv' /\ \A h \in Migs : Answered(h)' = Answered(h)
    BY <2>1 DEF WorkInv, Answered
  <2> QED BY <2>1, <2>2, <2>3, ImageKept
<1>2. CASE CallAgent(g)
  <2> DEFINE v == [mig |-> g, via |-> "push", node |-> SourceNode[g], step |-> "build",
                   whole |-> TRUE, client |-> "controller", id |-> 0]
  <2>1. work' = work \cup {v} /\ ctl' = [ctl EXCEPT ![g] = "calling"] /\ g \notin Direct
        /\ UNCHANGED <<job, registry, store, restored>>
    BY <1>2 DEF CallAgent, HasAgent
  <2>2. v.mig = g /\ v.via = "push" /\ v.step = "build" /\ v.whole = TRUE
    OBVIOUS
  <2> HIDE DEF v
  <2>3. WorkInv' /\ \A h \in Migs : Answered(h)' => Answered(h)
    BY <2>1, <2>2 DEF WorkInv, Answered
  <2>4. \A h \in Migs : ctl'[h] = "restoring" => ctl[h] = "restoring"
    BY <1>0, <2>1
  <2> QED BY <2>1, <2>3, <2>4, ImageKept
<1>3. CASE AgentAnswers(g)
  <2>1. PICK w \in work :
          /\ w.mig = g /\ work' = work \ {w}
          /\ ctl' = [ctl EXCEPT ![g] = IF w.step = "ok" THEN "restoring" ELSE "failed"]
    BY <1>3 DEF AgentAnswers
  <2>2. UNCHANGED <<job, registry, store, restored>>
    BY <1>3 DEF AgentAnswers
  <2>3. WorkInv' /\ \A h \in Migs : Answered(h)' => Answered(h)
    BY <2>1 DEF WorkInv, Answered
  <2>4. \A h \in Migs : ctl'[h] = "restoring" => ctl[h] = "restoring" \/ Answered(h)
    BY <1>0, <2>1 DEF Answered
  <2> QED BY <2>2, <2>3, <2>4, ImageKept
<1>4. CASE AgentTimeout(g) \/ Restart(g)
  <2>1. /\ ctl' = [ctl EXCEPT ![g] = "failed"] \/ ctl' = [ctl EXCEPT ![g] = "transferring"]
        /\ work' = HangUp(g) /\ UNCHANGED <<job, registry, store, restored>>
    BY <1>4 DEF AgentTimeout, Restart
  <2>2. WorkInv' /\ \A h \in Migs : Answered(h)' => Answered(h)
    BY <1>0, <2>1, HangUpLoses, LosesWork
  <2>3. \A h \in Migs : ctl'[h] = "restoring" => ctl[h] = "restoring"
    BY <1>0, <2>1
  <2> QED BY <2>1, <2>2, <2>3, ImageKept
<1>5. CASE StartPod(g)
  <2>1. /\ restored' = [restored EXCEPT ![g] = Pulled(g)]
        /\ UNCHANGED <<ctl, job, work, registry, store>>
    BY <1>5 DEF StartPod
  <2>2. WorkInv' /\ \A h \in Migs : Answered(h)' = Answered(h)
    BY <2>1 DEF WorkInv, Answered
  <2>3. ASSUME NEW h \in Migs, Sole(h) PROVE ImageInv(h)'
    <3>1. CASE h # g
      <4>1. restored'[h] = restored[h]
        BY <1>0, <2>1, <3>1
      <4> QED BY <2>1, <2>2, <2>3, <4>1, ImageKept
    <3>2. CASE h = g
      <4>1. ImageInv(g)
        BY <2>3, <3>2
      <4>2. Pulled(g) \in {NoArchive, Own(g)}
        BY <4>1 DEF ImageInv, Tagged, Pulled
      <4>3. restored'[g] = Pulled(g)
        BY <1>0, <2>1
      <4> QED BY <2>1, <2>2, <3>2, <4>1, <4>2, <4>3 DEF ImageInv, Tagged, Published
    <3> QED BY <3>1, <3>2
  <2> QED BY <2>2, <2>3
<1> QED BY <1>1, <1>2, <1>3, <1>4, <1>5 DEF Controller

LEMMA OwnJob ==
  ASSUME OwnInv, TypeInv', NEW g \in Migs, JobRuns(g) \/ JobPodLost(g)
  PROVE  OwnInv'
<1> USE TransferAssumption DEF OwnInv
<1>0. TypeOK /\ job \in [Migs -> {"none", "active", "succeeded", "failed"}]
  BY DEF TypeInv, TypeOK
<1>1. CASE JobPod(g)
  <2>1. PICK v : /\ work' = work \cup {v} /\ v.mig = g /\ v.step \in {"receive", "build"}
                 /\ v.step = "build" => v.whole = TRUE
                 /\ v.via = "upload" <=> g \in Direct
                 /\ v.via = "upload" => v.node \in AgentNodes
    <3>1. CASE g \in Direct
      <4>1. PICK n \in up, whole \in BOOLEAN :
              work' = work \cup {[mig |-> g, via |-> "upload", node |-> n, step |-> "receive",
                                  whole |-> whole, client |-> "job", id |-> tries[g] + 1]}
        BY <1>1, <3>1 DEF JobPod
      <4>2. n \in AgentNodes
        BY <1>0 DEF TypeOK
      <4> DEFINE v == [mig |-> g, via |-> "upload", node |-> n, step |-> "receive",
                       whole |-> whole, client |-> "job", id |-> tries[g] + 1]
      <4>3. v.mig = g /\ v.step = "receive" /\ v.via = "upload" /\ v.node = n
        OBVIOUS
      <4>4. work' = work \cup {v}
        BY <4>1
      <4> HIDE DEF v
      <4> QED BY <3>1, <4>2, <4>3, <4>4
    <3>2. CASE g \notin Direct
      <4>1. work' = work \cup {[mig |-> g, via |-> "jobPush", node |-> SourceNode[g],
                                step |-> "build", whole |-> TRUE, client |-> "job",
                                id |-> tries[g] + 1]}
        BY <1>1, <3>2 DEF JobPod
      <4> DEFINE v == [mig |-> g, via |-> "jobPush", node |-> SourceNode[g], step |-> "build",
                       whole |-> TRUE, client |-> "job", id |-> tries[g] + 1]
      <4>2. v.mig = g /\ v.step = "build" /\ v.via = "jobPush" /\ v.whole = TRUE
        OBVIOUS
      <4>3. work' = work \cup {v}
        BY <4>1
      <4> HIDE DEF v
      <4> QED BY <3>2, <4>2, <4>3
    <3> QED BY <3>1, <3>2
  <2>2. UNCHANGED <<ctl, job, registry, store, restored>>
    BY <1>1 DEF JobPod
  <2>3. WorkInv' /\ \A h \in Migs : Answered(h)' => Answered(h)
    BY <2>1 DEF WorkInv, Answered
  <2> QED BY <2>2, <2>3, ImageKept
<1>2. CASE JobPodRefused(g)
  <2>1. UNCHANGED <<ctl, work, registry, store, restored>>
        /\ (job' = job \/ job' = [job EXCEPT ![g] = "failed"])
    BY <1>2 DEF JobPodRefused
  <2>2. \A h \in Migs : job'[h] = "succeeded" => job[h] = "succeeded"
    BY <1>0, <2>1
  <2>3. WorkInv' /\ \A h \in Migs : Answered(h)' = Answered(h)
    BY <2>1 DEF WorkInv, Answered
  <2> QED BY <2>1, <2>2, <2>3, ImageKept
<1>3. CASE JobPodExits(g)
  <2>1. PICK w \in work :
          /\ w.mig = g /\ work' = work \ {w}
          /\ w.step # "ok" => job' = job \/ job' = [job EXCEPT ![g] = "failed"]
          /\ w.step = "ok" => job' = [job EXCEPT ![g] = "succeeded"]
    BY <1>3 DEF JobPodExits, Waiting
  <2>2. UNCHANGED <<ctl, registry, store, restored>>
    BY <1>3 DEF JobPodExits
  <2>3. WorkInv' /\ \A h \in Migs : Answered(h)' => Answered(h)
    BY <2>1 DEF WorkInv, Answered
  <2>4. \A h \in Migs : job'[h] = "succeeded" => job[h] = "succeeded" \/ Answered(h)
    BY <1>0, <2>1 DEF Answered
  <2> QED BY <2>2, <2>3, <2>4, ImageKept
<1>4. CASE JobPodLost(g)
  <2>1. PICK w \in work : work' = work \ {w}
                          \/ work' = (work \ {w}) \cup {[w EXCEPT !.client = "gone"]}
    BY <1>4 DEF JobPodLost, Waiting
  <2>2. UNCHANGED <<ctl, registry, store, restored>>
        /\ (job' = job \/ job' = [job EXCEPT ![g] = "failed"])
    BY <1>4 DEF JobPodLost
  <2>3. Loses
    <3>1. w \in Works
      BY <1>0 DEF TypeOK
    <3> DEFINE u == [w EXCEPT !.client = "gone"]
    <3>2. /\ u.mig = w.mig /\ u.via = w.via /\ u.node = w.node /\ u.whole = w.whole
          /\ u.step = w.step
      BY <3>1, ClientGone
    <3>3. work' \subseteq work \cup {u}
      BY <2>1
    <3> HIDE DEF u
    <3> QED BY <3>2, <3>3 DEF Loses
  <2>4. \A h \in Migs : job'[h] = "succeeded" => job[h] = "succeeded"
    BY <1>0, <2>2
  <2> QED BY <2>2, <2>3, <2>4, ImageKept, LosesWork
<1> QED BY <1>1, <1>2, <1>3, <1>4 DEF JobRuns

LEMMA OwnAgents ==
  ASSUME OwnInv, TypeInv',
         \/ Agents
         \/ \E w \in work : StepFails(w)
         \/ \E n \in AgentNodes : AgentStops(n) \/ AgentStarts(n)
  PROVE  OwnInv'
<1> USE TransferAssumption DEF OwnInv, Stays
<1>0. TypeOK
  BY DEF TypeInv
<1>1. ASSUME NEW w \in work, Receive(w) \/ Build(w) \/ StepFails(w) PROVE OwnInv'
  <2>1. w.whole \in BOOLEAN
    BY <1>0, WorkFields DEF TypeOK
  <2>2. PICK s \in {"build", "store", "error"} :
          Progress(w, s) /\ (s = "error" \/ w.whole = TRUE)
    BY <1>1, <2>1 DEF Receive, Build, StepFails, WorkInv
  <2>3. WorkInv' /\ \A h \in Migs : Answered(h)' => Answered(h)
    BY <1>0, <2>2, ProgressWork DEF Steps
  <2>4. UNCHANGED <<ctl, job, registry, store, restored>>
    BY <1>1 DEF Receive, Build, StepFails
  <2> QED BY <2>3, <2>4, ImageKept
<1>2. ASSUME NEW w \in work, Store(w) PROVE OwnInv'
  <2>1. Progress(w, "ok") /\ w.whole = TRUE /\ UNCHANGED <<ctl, job, restored>>
    BY <1>2 DEF Store, WorkInv
  <2>2. WorkInv' /\ \A h \in Migs : Answered(h)' => Answered(h) \/ h = w.mig
    BY <1>0, <2>1, ProgressWork DEF Steps
  <2>3. ASSUME NEW h \in Migs, Sole(h) PROVE ImageInv(h)'
    <3>1. ImageInv(h)
      BY <2>3
    <3>2. Tagged(h)' /\ (Published(h) \/ w.mig = h => Published(h)')
      BY <1>2, <2>3, <3>1, StorePublishes DEF ImageInv
    <3> QED BY <2>1, <2>2, <3>1, <3>2 DEF ImageInv
  <2> QED BY <2>2, <2>3
<1>3. ASSUME NEW w \in work, Abandoned(w) PROVE OwnInv'
  <2>1. work' = work \ {w} /\ UNCHANGED <<ctl, job, registry, store, restored>>
    BY <1>3 DEF Abandoned
  <2>2. WorkInv' /\ \A h \in Migs : Answered(h)' => Answered(h)
    BY <2>1 DEF WorkInv, Answered
  <2> QED BY <2>1, <2>2, ImageKept
<1>4. ASSUME NEW n \in AgentNodes, AgentStops(n) PROVE OwnInv'
  <2>1. UNCHANGED <<ctl, job, registry, store, restored>>
    BY <1>4 DEF AgentStops
  <2> QED BY <1>0, <1>4, <2>1, StopLoses, LosesWork, ImageKept
<1>5. ASSUME NEW n \in AgentNodes, AgentStarts(n) PROVE OwnInv'
  <2>1. UNCHANGED <<ctl, job, work, registry, store, restored>>
    BY <1>5 DEF AgentStarts
  <2>2. WorkInv' /\ \A h \in Migs : Answered(h)' = Answered(h)
    BY <2>1 DEF WorkInv, Answered
  <2> QED BY <2>1, <2>2, ImageKept
<1> QED BY <1>1, <1>2, <1>3, <1>4, <1>5 DEF Agents

LEMMA OwnAlways == Spec => []OwnInv
<1>1. Init => OwnInv
  <2> SUFFICES ASSUME Init PROVE OwnInv
    OBVIOUS
  <2>1. TypeInv
    BY TransferAssumption DEF Init, TypeInv, TypeOK, JobInv, Waiting
  <2>2. WorkInv /\ \A g \in Migs : ~Answered(g)
    BY DEF Init, WorkInv, Answered
  <2>3. ASSUME NEW g \in Migs PROVE ImageInv(g)
    <3>1. Container[g] \in Containers /\ Pod[g] \in Pods
      BY DEF Containers, Pods
    <3>2. ctl[g] = "new" /\ job[g] = "none" /\ restored[g] = NoArchive
      BY DEF Init
    <3>3. Tagged(g)
      BY <3>1 DEF Init, Tagged
    <3> QED BY <2>2, <3>2, <3>3 DEF ImageInv
  <2> QED BY <2>1, <2>2, <2>3 DEF OwnInv
<1>2. OwnInv /\ [Next]_vars => OwnInv'
  <2> SUFFICES ASSUME OwnInv, [Next]_vars PROVE OwnInv'
    OBVIOUS
  <2>1. TypeInv'
    BY TypeStep DEF OwnInv
  <2>2. CASE UNCHANGED vars
    BY <2>1, <2>2 DEF vars, OwnInv, WorkInv, ImageInv, Tagged, Published, Answered
  <2> QED BY <2>1, <2>2, OwnController, OwnJob, OwnAgents DEF Next, Done
<1> QED BY <1>1, <1>2, PTL DEF Spec

\* Whatever transfers fail, are cut short, lose their answer or are tried again, and
\* whatever agents stop: when the controller goes on to Restoring the whole checkpoint is
\* published, and the target pod starts from the migration's own checkpoint or not yet.
\* The condition in OwnImage, Sole, is needed: two migrations of pods whose containers
\* have the same name share a tag on an agent's node (localhost/checkpoint/<container>).
THEOREM ImageAlwaysOwn == Spec => []OwnImage
<1>1. OwnInv => OwnImage
  BY DEF OwnInv, ImageInv, Published, OwnImage
<1> QED BY <1>1, OwnAlways, PTL

-----------------------------------------------------------------------------
(***************************************************************************)
(* The files of an agent.  A file is there for an upload that is being     *)
(* built or stored, or it is an orphan.  Each orphan, and each upload that *)
(* goes on although its client has gone, is owed to a fault, and a fault   *)
(* is owed at most one of them for each migration: the Job has one pod at  *)
(* a time.                                                                 *)
(***************************************************************************)
UploadInv ==
  /\ \A w \in work :
       /\ w.via = "upload" => w.client # "controller"
       /\ w.step = "receive" => w.via = "upload" /\ w.client = "job"
  /\ \A v, w \in work : v.client = "job" /\ w.client = "job" /\ v.mig = w.mig => v = w

Written == UNION {{<<n, f>> : f \in files[n]} : n \in Nodes}
FileOf(w) == <<w.node, <<w.mig, w.id>>>>
Holds(w) == w.via = "upload" /\ w.step \in {"build", "store"}
Holding == {w \in work : Holds(w)}
Orphans == Written \ {FileOf(w) : w \in Holding}
Unheard == {w \in Holding : w.client = "gone"}

DebtInv ==
  /\ IsFiniteSet(work) /\ IsFiniteSet(Written)
  /\ Cardinality(Orphans) + Cardinality(Unheard) <= Cardinality(Direct) * faults

FileInv == TypeInv /\ WorkInv /\ UploadInv /\ DebtInv

\* The image of a finite set is no larger.
LEMMA ImageCount ==
  ASSUME NEW S, NEW T, NEW f, IsFiniteSet(S), T = {f[x] : x \in S}, f \in [S -> T]
  PROVE  IsFiniteSet(T) /\ Cardinality(T) <= Cardinality(S)
<1>1. f \in Surjection(S, T)
  BY DEF Surjection
<1> QED BY <1>1, FS_Surjection

\* Cardinalities are numbers, and faults pay for what a step adds.
LEMMA Counts ==
  ASSUME FileInv
  PROVE  /\ IsFiniteSet(Orphans) /\ Cardinality(Orphans) \in Nat
         /\ IsFiniteSet(Unheard) /\ Cardinality(Unheard) \in Nat
         /\ IsFiniteSet(Holding)
         /\ IsFiniteSet(Direct) /\ Cardinality(Direct) \in Nat /\ faults \in Nat
<1>1. IsFiniteSet(Orphans) /\ IsFiniteSet(Holding) /\ IsFiniteSet(Unheard)
  <2>1. Orphans \subseteq Written /\ Holding \subseteq work /\ Unheard \subseteq work
    BY DEF Orphans, Unheard, Holding
  <2> QED BY <2>1, FS_Subset DEF FileInv, DebtInv
<1>2. IsFiniteSet(Direct)
  BY TransferAssumption, FS_Subset
<1>3. faults \in Nat
  BY TransferAssumption DEF FileInv, TypeInv, TypeOK
<1> QED BY <1>1, <1>2, <1>3, FS_CardinalityType

LEMMA DebtPaid ==
  ASSUME FileInv, IsFiniteSet(work'), IsFiniteSet(Written'), NEW a \in Int, NEW b \in Int,
         Cardinality(Orphans') <= Cardinality(Orphans) + a,
         Cardinality(Unheard') <= Cardinality(Unheard) + b,
         \/ a + b <= 0 /\ faults' = faults
         \/ a + b <= Cardinality(Direct) /\ faults' = faults + 1
  PROVE  DebtInv'
<1>1. /\ Cardinality(Orphans) \in Nat /\ Cardinality(Unheard) \in Nat
      /\ Cardinality(Direct) \in Nat /\ faults \in Nat
      /\ Cardinality(Orphans) + Cardinality(Unheard) <= Cardinality(Direct) * faults
  BY Counts DEF FileInv, DebtInv
<1>2. Cardinality(Orphans') \in Nat /\ Cardinality(Unheard') \in Nat
  <2>1. Orphans' \subseteq Written' /\ Unheard' \subseteq work'
    BY DEF Orphans, Unheard, Holding
  <2> QED BY <2>1, FS_Subset, FS_CardinalityType
<1>3. Cardinality(Direct) * (faults + 1) = Cardinality(Direct) * faults + Cardinality(Direct)
  BY <1>1
<1>4. Cardinality(Direct) * faults \in Nat
  BY <1>1
<1>5. Cardinality(Orphans') + Cardinality(Unheard') <= Cardinality(Direct) * faults'
  BY <1>1, <1>2, <1>3, <1>4
<1> QED BY <1>5 DEF DebtInv

\* Steps that add no file and leave the uploads that hold one alone.
LEMMA DebtKept ==
  ASSUME FileInv, IsFiniteSet(work'), files' = files, Holding' = Holding,
         faults' = faults \/ faults' = faults + 1
  PROVE  DebtInv'
<1>1. Written' = Written /\ IsFiniteSet(Written)
  BY DEF Written, FileInv, DebtInv
<1>2. Orphans' = Orphans /\ Unheard' = Unheard
  BY <1>1 DEF Orphans, Unheard
<1> QED BY <1>1, <1>2, Counts, DebtPaid

\* A program that goes on, by a step that is not one to "receive".
LEMMA ProgressUploads ==
  ASSUME FileInv, NEW w \in work, NEW s \in Steps, s # "receive", Progress(w, s)
  PROVE  /\ UploadInv' /\ IsFiniteSet(work')
         /\ LET u == [w EXCEPT !.step = s]
            IN  /\ FileOf(u) = FileOf(w) /\ u.client = w.client /\ u.via = w.via /\ u.step = s
                /\ Holding' = (Holding \ {w}) \cup {x \in {u} : Holds(x)}
<1> DEFINE u == [w EXCEPT !.step = s]
<1>1. w \in Works
  BY DEF FileInv, TypeInv, TypeOK
<1>2. /\ u.mig = w.mig /\ u.via = w.via /\ u.node = w.node /\ u.client = w.client /\ u.id = w.id
      /\ u.step = s
  BY <1>1, StepTo
<1>3. work' = (work \ {w}) \cup {u}
  BY DEF Progress
<1> HIDE DEF u
<1>4. UploadInv'
  BY <1>2, <1>3 DEF FileInv, UploadInv
<1>5. IsFiniteSet(work')
  BY <1>3, FS_RemoveElement, FS_AddElement DEF FileInv, DebtInv
<1>6. FileOf(u) = FileOf(w)
  BY <1>2 DEF FileOf
<1>7. Holding' = (Holding \ {w}) \cup {x \in {u} : Holds(x)}
  BY <1>3 DEF Holding
<1> QED BY <1>2, <1>4, <1>5, <1>6, <1>7 DEF u

\* What a written or a removed file does to the set of all.
LEMMA WrittenAdd ==
  ASSUME TypeOK, NEW w \in Works, files' = [files EXCEPT ![w.node] = @ \cup {<<w.mig, w.id>>}]
  PROVE  Written' = Written \cup {FileOf(w)}
<1>1. w.node \in Nodes
  BY WorkFields
<1> DEFINE f == <<w.mig, w.id>>
<1>2. files'[w.node] = files[w.node] \cup {f}
      /\ \A n \in Nodes \ {w.node} : files'[n] = files[n]
  BY <1>1 DEF TypeOK
<1> HIDE DEF f
<1>3. Written' = Written \cup {<<w.node, f>>}
  BY <1>1, <1>2 DEF Written
<1> QED BY <1>3 DEF FileOf, f

LEMMA WrittenRemove ==
  ASSUME TypeOK, NEW w \in Works, files' = [files EXCEPT ![w.node] = @ \ {<<w.mig, w.id>>}]
  PROVE  Written' = Written \ {FileOf(w)}
<1>1. w.node \in Nodes
  BY WorkFields
<1> DEFINE f == <<w.mig, w.id>>
<1>2. files'[w.node] = files[w.node] \ {f}
      /\ \A n \in Nodes \ {w.node} : files'[n] = files[n]
  BY <1>1 DEF TypeOK
<1> HIDE DEF f
<1>3. Written' = Written \ {<<w.node, f>>}
  BY <1>1, <1>2 DEF Written
<1> QED BY <1>3 DEF FileOf, f

\* The controller and the Job start and end works that hold no file, ...
LEMMA FilesController ==
  ASSUME FileInv, NEW g \in Migs,
         Controller(g) \/ AgentTimeout(g) \/ Restart(g) \/ CreateJobFails(g)
  PROVE  UploadInv' /\ DebtInv'
<1> USE DEF FileInv
<1>0. IsFiniteSet(work) /\ work \subseteq Works
  BY DEF DebtInv, TypeInv, TypeOK
<1>1. CASE Begin(g) \/ CreateJob(g) \/ CreateJobFails(g) \/ JobSucceeded(g) \/ StartPod(g)
  <2>1. UNCHANGED <<work, files>> /\ (faults' = faults \/ faults' = faults + 1)
    BY <1>1 DEF Begin, CreateJob, CreateJobFails, JobSucceeded, StartPod, FallsBack, Fault
  <2>2. UploadInv' /\ Holding' = Holding
    BY <2>1 DEF UploadInv, Holding
  <2> QED BY <1>0, <2>1, <2>2, DebtKept
<1>2. CASE CallAgent(g)
  <2> DEFINE v == [mig |-> g, via |-> "push", node |-> SourceNode[g], step |-> "build",
                   whole |-> TRUE, client |-> "controller", id |-> 0]
  <2>1. work' = work \cup {v} /\ UNCHANGED <<files, faults>>
    BY <1>2 DEF CallAgent
  <2>2. v.via = "push" /\ v.step = "build" /\ v.client = "controller"
    OBVIOUS
  <2> HIDE DEF v
  <2>3. UploadInv' /\ Holding' = Holding
    BY <2>1, <2>2 DEF UploadInv, Holding, Holds
  <2>4. IsFiniteSet(work')
    BY <1>0, <2>1, FS_AddElement
  <2> QED BY <2>1, <2>3, <2>4, DebtKept
<1>3. CASE AgentAnswers(g)
  <2>1. PICK w \in work : w.step \in {"ok", "error"} /\ work' = work \ {w}
    BY <1>3 DEF AgentAnswers
  <2>2. UNCHANGED <<files, faults>>
    BY <1>3 DEF AgentAnswers
  <2>3. UploadInv' /\ Holding' = Holding
    BY <2>1 DEF UploadInv, Holding, Holds
  <2>4. IsFiniteSet(work')
    BY <1>0, <2>1, FS_RemoveElement
  <2> QED BY <2>2, <2>3, <2>4, DebtKept
<1>4. CASE AgentTimeout(g) \/ Restart(g)
  <2>1. work' = HangUp(g) /\ files' = files /\ faults' = faults + 1
    BY <1>4 DEF AgentTimeout, Restart, Fault
  <2> DEFINE h == [w \in work |-> IF w.mig = g /\ w.client = "controller"
                                  THEN [w EXCEPT !.client = "gone"] ELSE w]
  <2>2. work' = {h[w] : w \in work} /\ h \in [work -> work']
    BY <2>1 DEF HangUp
  <2>3. \A w \in work : \/ h[w] = w
                        \/ /\ w.client = "controller" /\ h[w].client = "gone"
                           /\ h[w].via = w.via /\ h[w].step = w.step
    BY <1>0, ClientGone
  <2>4. \A w \in work : w.client # "controller" => h[w] = w
    OBVIOUS
  <2> HIDE DEF h
  <2>5. IsFiniteSet(work')
    BY <1>0, <2>2, ImageCount
  <2>6. UploadInv'
    BY <2>2, <2>3 DEF UploadInv
  <2>7. Holding' = Holding
    <3>1. \A w \in Holding : h[w] = w
      BY <2>4 DEF Holding, Holds, UploadInv
    <3>2. Holding \subseteq Holding'
      BY <2>2, <3>1 DEF Holding
    <3>3. ASSUME NEW v \in Holding' PROVE v \in Holding
      <4>1. PICK w \in work : v = h[w]
        BY <2>2 DEF Holding
      <4>2. v = w
        BY <2>3, <4>1 DEF Holding, Holds, UploadInv
      <4> QED BY <4>1, <4>2 DEF Holding
    <3> QED BY <3>2, <3>3
  <2> QED BY <2>1, <2>5, <2>6, <2>7, DebtKept
<1> QED BY <1>1, <1>2, <1>3, <1>4 DEF Controller

\* ... except that a pod of the Job may be lost while the agent builds or stores.
LEMMA FilesJob ==
  ASSUME FileInv, NEW g \in Migs, JobRuns(g) \/ JobPodLost(g)
  PROVE  UploadInv' /\ DebtInv'
<1> USE DEF FileInv
<1>0. IsFiniteSet(work) /\ work \subseteq Works
  BY DEF DebtInv, TypeInv, TypeOK
<1>1. CASE JobPod(g)
  <2>1. PICK v : /\ work' = work \cup {v} /\ v.mig = g /\ v.client = "job"
                 /\ \/ v.via = "upload" /\ v.step = "receive"
                    \/ v.via = "jobPush" /\ v.step = "build"
    <3>1. CASE g \in Direct
      <4>1. PICK n \in up, whole \in BOOLEAN :
              work' = work \cup {[mig |-> g, via |-> "upload", node |-> n, step |-> "receive",
                                  whole |-> whole, client |-> "job", id |-> tries[g] + 1]}
        BY <1>1, <3>1 DEF JobPod
      <4> DEFINE v == [mig |-> g, via |-> "upload", node |-> n, step |-> "receive",
                       whole |-> whole, client |-> "job", id |-> tries[g] + 1]
      <4>2. v.mig = g /\ v.step = "receive" /\ v.via = "upload" /\ v.client = "job"
        OBVIOUS
      <4>3. work' = work \cup {v}
        BY <4>1
      <4> HIDE DEF v
      <4> QED BY <4>2, <4>3
    <3>2. CASE g \notin Direct
      <4> DEFINE v == [mig |-> g, via |-> "jobPush", node |-> SourceNode[g], step |-> "build",
                       whole |-> TRUE, client |-> "job", id |-> tries[g] + 1]
      <4>1. v.mig = g /\ v.step = "build" /\ v.via = "jobPush" /\ v.client = "job"
        OBVIOUS
      <4>2. work' = work \cup {v}
        BY <1>1, <3>2 DEF JobPod
      <4> HIDE DEF v
      <4> QED BY <4>1, <4>2
    <3> QED BY <3>1, <3>2
  <2>2. files' = files /\ (faults' = faults \/ faults' = faults + 1) /\ Waiting(g) = {}
    BY <1>1 DEF JobPod, Fault
  <2>3. Holding' = Holding
    BY <2>1 DEF Holding, Holds
  <2>4. UploadInv'
    BY <2>1, <2>2 DEF UploadInv, Waiting
  <2>5. IsFiniteSet(work')
    BY <1>0, <2>1, FS_AddElement
  <2> QED BY <2>2, <2>3, <2>4, <2>5, DebtKept
<1>2. CASE JobPodRefused(g)
  <2>1. UNCHANGED <<work, files, faults>>
    BY <1>2 DEF JobPodRefused
  <2>2. UploadInv' /\ Holding' = Holding
    BY <2>1 DEF UploadInv, Holding
  <2> QED BY <1>0, <2>1, <2>2, DebtKept
<1>3. CASE JobPodExits(g)
  <2>1. PICK w \in work : w.step \in {"ok", "error"} /\ work' = work \ {w}
    BY <1>3 DEF JobPodExits, Waiting
  <2>2. UNCHANGED <<files, faults>>
    BY <1>3 DEF JobPodExits
  <2>3. UploadInv' /\ Holding' = Holding
    BY <2>1 DEF UploadInv, Holding, Holds
  <2>4. IsFiniteSet(work')
    BY <1>0, <2>1, FS_RemoveElement
  <2> QED BY <2>2, <2>3, <2>4, DebtKept
<1>4. CASE JobPodLost(g)
  <2>1. files' = files /\ faults' = faults + 1
    BY <1>4 DEF JobPodLost, Fault
  <2>2. PICK w \in work :
          /\ w.mig = g /\ w.client = "job"
          /\ work' = (work \ {w}) \cup
                     (IF w.via = "jobPush" \/ w.step \in {"receive", "ok", "error"} THEN {}
                      ELSE {[w EXCEPT !.client = "gone"]})
    BY <1>4 DEF JobPodLost, Waiting
  <2>3. w \in Works /\ w.step \in Steps /\ w.via \in {"upload", "push", "jobPush"}
    BY <1>0, WorkFields
  <2> DEFINE u == [w EXCEPT !.client = "gone"]
  <2>4. /\ u.mig = w.mig /\ u.via = w.via /\ u.node = w.node /\ u.step = w.step
        /\ u.client = "gone" /\ u.id = w.id
    BY <2>3, ClientGone
  <2>5. \/ work' = work \ {w} /\ ~Holds(w)
        \/ work' = (work \ {w}) \cup {u} /\ w.step \in {"build", "store"}
    BY <2>2, <2>3 DEF Steps, Holds
  <2> HIDE DEF u
  <2>6. UploadInv'
    BY <2>4, <2>5 DEF UploadInv
  <2>7. IsFiniteSet(work')
    <3>1. IsFiniteSet(work \ {w})
      BY <1>0, FS_RemoveElement
    <3>2. IsFiniteSet((work \ {w}) \cup {u})
      BY <3>1, FS_AddElement
    <3> QED BY <2>5, <3>1, <3>2
  <2>8. CASE ~Holds(w)
    <3>1. Holding' = Holding
      BY <2>4, <2>5, <2>8 DEF Holding, Holds
    <3> QED BY <2>1, <2>6, <2>7, <3>1, DebtKept
  <2>9. CASE Holds(w)
    <3>1. Holding' = (Holding \ {w}) \cup {u} /\ w \in Holding
      BY <2>4, <2>5, <2>9 DEF Holding, Holds
    <3>2. FileOf(u) = FileOf(w)
      BY <2>4 DEF FileOf
    <3>3. Written' = Written /\ IsFiniteSet(Written)
      BY <2>1 DEF Written, DebtInv
    <3>4. Orphans' = Orphans
      <4>1. {FileOf(v) : v \in Holding'} = {FileOf(v) : v \in Holding}
        BY <3>1, <3>2
      <4> QED BY <3>3, <4>1 DEF Orphans
    <3>5. Unheard' = Unheard \cup {u}
      BY <2>2, <2>4, <3>1 DEF Unheard
    <3>6. IsFiniteSet(Unheard) /\ Cardinality(Unheard) \in Nat /\ Cardinality(Orphans) \in Nat
          /\ IsFiniteSet(Direct) /\ Cardinality(Direct) \in Nat
      BY Counts
    <3>7. Cardinality(Unheard') <= Cardinality(Unheard) + 1
      <4>1. Cardinality(Unheard \cup {u}) \in {Cardinality(Unheard), Cardinality(Unheard) + 1}
        BY <3>6, FS_AddElement
      <4> QED BY <3>5, <3>6, <4>1
    <3>8. Cardinality(Direct) >= 1
      <4>1. Direct # {}
        BY <2>9 DEF WorkInv, Holds
      <4> QED BY <3>6, <4>1, FS_EmptySet
    <3>9. DebtInv'
      BY <2>1, <2>7, <3>3, <3>4, <3>6, <3>7, <3>8, DebtPaid
    <3> QED BY <2>6, <3>9
  <2> QED BY <2>8, <2>9
<1> QED BY <1>1, <1>2, <1>3, <1>4 DEF JobRuns

\* The agents write, hold, remove and orphan files.
LEMMA FilesReceive ==
  ASSUME FileInv, NEW w \in work, Receive(w)
  PROVE  UploadInv' /\ DebtInv'
<1> USE DEF FileInv
<1> DEFINE u(s) == [w EXCEPT !.step = s]
<1>1. /\ w \in Works /\ w.step = "receive" /\ w.via = "upload" /\ w.client = "job"
      /\ w \notin Holding
  BY DEF Receive, UploadInv, TypeInv, TypeOK, Holding, Holds
<1>2. CASE w.whole
  <2>1. /\ Progress(w, "build") /\ faults' = faults
        /\ files' = [files EXCEPT ![w.node] = @ \cup {<<w.mig, w.id>>}]
    BY <1>2 DEF Receive
  <2>2. /\ UploadInv' /\ IsFiniteSet(work')
        /\ FileOf(u("build")) = FileOf(w) /\ u("build").client = w.client
        /\ u("build").via = w.via /\ u("build").step = "build"
        /\ Holding' = (Holding \ {w}) \cup {x \in {u("build")} : Holds(x)}
    BY <2>1, ProgressUploads DEF Steps
  <2> HIDE DEF u
  <2>3. Holding' = Holding \cup {u("build")}
    BY <1>1, <2>2 DEF Holds
  <2>4. Written' = Written \cup {FileOf(w)} /\ IsFiniteSet(Written)
    BY <1>1, <2>1, WrittenAdd DEF TypeInv, DebtInv
  <2>5. IsFiniteSet(Written')
    BY <2>4, FS_AddElement
  <2>6. Orphans' \subseteq Orphans
    BY <2>2, <2>3, <2>4 DEF Orphans
  <2>7. Unheard' \subseteq Unheard
    BY <1>1, <2>2, <2>3 DEF Unheard
  <2>8. /\ Cardinality(Orphans') <= Cardinality(Orphans)
        /\ Cardinality(Unheard') <= Cardinality(Unheard)
    BY <2>6, <2>7, Counts, FS_Subset
  <2>9. Cardinality(Orphans) \in Nat /\ Cardinality(Unheard) \in Nat
    BY Counts
  <2>10. /\ Cardinality(Orphans') <= Cardinality(Orphans) + 0
         /\ Cardinality(Unheard') <= Cardinality(Unheard) + 0
    BY <2>8, <2>9
  <2>11. DebtInv'
    BY <2>1, <2>2, <2>5, <2>10, DebtPaid
  <2> QED BY <2>2, <2>11
<1>3. CASE ~w.whole
  <2>1. Progress(w, "error") /\ UNCHANGED <<files, faults>>
    BY <1>3 DEF Receive
  <2>2. /\ UploadInv' /\ IsFiniteSet(work') /\ u("error").step = "error"
        /\ Holding' = (Holding \ {w}) \cup {x \in {u("error")} : Holds(x)}
    BY <2>1, ProgressUploads DEF Steps
  <2> HIDE DEF u
  <2>3. Holding' = Holding
    BY <1>1, <2>2 DEF Holds
  <2> QED BY <2>1, <2>2, <2>3, DebtKept
<1> QED BY <1>2, <1>3

LEMMA FilesBuild ==
  ASSUME FileInv, NEW w \in work, Build(w)
  PROVE  UploadInv' /\ DebtInv'
<1> USE DEF FileInv
<1> DEFINE u == [w EXCEPT !.step = "store"]
<1>1. w.step = "build" /\ Progress(w, "store") /\ UNCHANGED <<files, faults>>
  BY DEF Build
<1>2. /\ UploadInv' /\ IsFiniteSet(work')
      /\ FileOf(u) = FileOf(w) /\ u.client = w.client /\ u.via = w.via /\ u.step = "store"
      /\ Holding' = (Holding \ {w}) \cup {x \in {u} : Holds(x)}
  BY <1>1, ProgressUploads DEF Steps
<1> HIDE DEF u
<1>3. CASE w.via # "upload"
  <2>1. Holding' = Holding
    BY <1>2, <1>3 DEF Holding, Holds
  <2> QED BY <1>1, <1>2, <2>1, DebtKept
<1>4. CASE w.via = "upload"
  <2>1. w \in Holding /\ Holding' = (Holding \ {w}) \cup {u}
    BY <1>1, <1>2, <1>4 DEF Holding, Holds
  <2>2. Written' = Written /\ IsFiniteSet(Written)
    BY <1>1 DEF Written, DebtInv
  <2>3. Orphans' = Orphans
    <3>1. {FileOf(v) : v \in Holding'} = {FileOf(v) : v \in Holding}
      BY <1>2, <2>1
    <3> QED BY <2>2, <3>1 DEF Orphans
  <2>4. /\ IsFiniteSet(Unheard) /\ Cardinality(Unheard) \in Nat /\ Cardinality(Orphans) \in Nat
    BY Counts
  <2>5. Cardinality(Unheard') <= Cardinality(Unheard)
    <3>1. CASE w.client # "gone"
      <4>1. Unheard' = Unheard
        BY <1>2, <2>1, <3>1 DEF Unheard
      <4> QED BY <2>4, <4>1
    <3>2. CASE w.client = "gone"
      <4>1. w \in Unheard /\ Unheard' = (Unheard \ {w}) \cup {u}
        BY <1>2, <2>1, <3>2 DEF Unheard
      <4>2. IsFiniteSet(Unheard \ {w}) /\ Cardinality(Unheard \ {w}) = Cardinality(Unheard) - 1
        BY <2>4, <4>1, FS_RemoveElement
      <4>3. Cardinality((Unheard \ {w}) \cup {u})
              \in {Cardinality(Unheard \ {w}), Cardinality(Unheard \ {w}) + 1}
        BY <4>2, FS_AddElement
      <4> QED BY <2>4, <4>1, <4>2, <4>3
    <3> QED BY <3>1, <3>2
  <2>6. /\ Cardinality(Orphans') <= Cardinality(Orphans) + 0
        /\ Cardinality(Unheard') <= Cardinality(Unheard) + 0
    BY <2>3, <2>4, <2>5
  <2>7. DebtInv'
    BY <1>1, <1>2, <2>2, <2>6, DebtPaid
  <2> QED BY <1>2, <2>7
<1> QED BY <1>3, <1>4

LEMMA FilesStore ==
  ASSUME FileInv, NEW w \in work, Store(w)
  PROVE  UploadInv' /\ DebtInv'
<1> USE DEF FileInv
<1> DEFINE u == [w EXCEPT !.step = "ok"]
<1>1. w \in Works /\ w.step = "store" /\ Progress(w, "ok") /\ faults' = faults
  BY DEF Store, TypeInv, TypeOK
<1>2. /\ UploadInv' /\ IsFiniteSet(work') /\ u.step = "ok"
      /\ Holding' = (Holding \ {w}) \cup {x \in {u} : Holds(x)}
  BY <1>1, ProgressUploads DEF Steps
<1> HIDE DEF u
<1>3. CASE w.via # "upload"
  <2>1. files' = files
    BY <1>3 DEF Store
  <2>2. Holding' = Holding
    BY <1>2, <1>3 DEF Holding, Holds
  <2> QED BY <1>1, <1>2, <2>1, <2>2, DebtKept
<1>4. CASE w.via = "upload"
  <2>1. w \in Holding /\ Holding' = Holding \ {w}
    BY <1>1, <1>2, <1>4 DEF Holding, Holds
  <2>2. Written' = Written \ {FileOf(w)} /\ IsFiniteSet(Written)
    BY <1>1, <1>4, WrittenRemove DEF Store, TypeInv, DebtInv
  <2>3. IsFiniteSet(Written')
    BY <2>2, FS_RemoveElement
  <2>4. Orphans' \subseteq Orphans /\ Unheard' \subseteq Unheard
    BY <2>1, <2>2 DEF Orphans, Unheard
  <2>5. Cardinality(Orphans) \in Nat /\ Cardinality(Unheard) \in Nat
    BY Counts
  <2>6. /\ Cardinality(Orphans') <= Cardinality(Orphans)
        /\ Cardinality(Unheard') <= Cardinality(Unheard)
    BY <2>4, Counts, FS_Subset
  <2>7. /\ Cardinality(Orphans') <= Cardinality(Orphans) + 0
        /\ Cardinality(Unheard') <= Cardinality(Unheard) + 0
    BY <2>5, <2>6
  <2>8. DebtInv'
    BY <1>1, <1>2, <2>3, <2>7, DebtPaid
  <2> QED BY <1>2, <2>8
<1> QED BY <1>3, <1>4

LEMMA FilesFail ==
  ASSUME FileInv, NEW w \in work, StepFails(w)
  PROVE  UploadInv' /\ DebtInv'
<1> USE DEF FileInv
<1> DEFINE u == [w EXCEPT !.step = "error"]
<1>1. /\ w \in Works /\ w.step \in {"receive", "build", "store"}
      /\ Progress(w, "error") /\ faults' = faults + 1
      /\ \/ files' = files
         \/ /\ w.step = "receive"
            /\ files' = [files EXCEPT ![w.node] = @ \cup {<<w.mig, w.id>>}]
  BY DEF StepFails, Fault, TypeInv, TypeOK
<1>2. /\ UploadInv' /\ IsFiniteSet(work') /\ u.step = "error"
      /\ Holding' = (Holding \ {w}) \cup {x \in {u} : Holds(x)}
  BY <1>1, ProgressUploads DEF Steps
<1> HIDE DEF u
<1>3. Holding' = Holding \ {w}
  BY <1>2 DEF Holds
<1>4. CASE w.via # "upload"
  <2>1. files' = files /\ Holding' = Holding
    BY <1>1, <1>3, <1>4 DEF UploadInv, Holding, Holds
  <2> QED BY <1>1, <1>2, <2>1, DebtKept
<1>5. CASE w.via = "upload"
  <2>1. IsFiniteSet(Written) /\ (Written' = Written \/ Written' = Written \cup {FileOf(w)})
    <3>1. CASE files' = files
      BY <3>1 DEF Written, DebtInv
    <3>2. CASE files' = [files EXCEPT ![w.node] = @ \cup {<<w.mig, w.id>>}]
      BY <1>1, <3>2, WrittenAdd DEF TypeInv, DebtInv
    <3> QED BY <1>1, <3>1, <3>2
  <2>2. IsFiniteSet(Written')
    BY <2>1, FS_AddElement
  <2>3. Orphans' \subseteq Orphans \cup {FileOf(w)} /\ Unheard' \subseteq Unheard
    BY <1>3, <2>1 DEF Orphans, Unheard
  <2>4. /\ IsFiniteSet(Orphans) /\ Cardinality(Orphans) \in Nat
        /\ IsFiniteSet(Unheard) /\ Cardinality(Unheard) \in Nat
        /\ IsFiniteSet(Direct) /\ Cardinality(Direct) \in Nat
    BY Counts
  <2>5. Cardinality(Orphans') <= Cardinality(Orphans) + 1
    <3>1. IsFiniteSet(Orphans \cup {FileOf(w)})
          /\ Cardinality(Orphans \cup {FileOf(w)})
               \in {Cardinality(Orphans), Cardinality(Orphans) + 1}
      BY <2>4, FS_AddElement
    <3>2. IsFiniteSet(Orphans') /\ Cardinality(Orphans') <= Cardinality(Orphans \cup {FileOf(w)})
      BY <2>3, <3>1, FS_Subset
    <3>3. Cardinality(Orphans') \in Nat
      BY <3>2, FS_CardinalityType
    <3> QED BY <2>4, <3>1, <3>2, <3>3
  <2>6. Cardinality(Unheard') <= Cardinality(Unheard)
    BY <2>3, <2>4, FS_Subset
  <2>7. Cardinality(Unheard') <= Cardinality(Unheard) + 0
    BY <2>4, <2>6
  <2>8. Cardinality(Direct) >= 1
    <3>1. Direct # {}
      BY <1>5 DEF WorkInv
    <3> QED BY <2>4, <3>1, FS_EmptySet
  <2>9. DebtInv'
    BY <1>1, <1>2, <2>2, <2>4, <2>5, <2>7, <2>8, DebtPaid
  <2> QED BY <1>2, <2>9
<1> QED BY <1>4, <1>5

\* A union is no larger than its parts together.
LEMMA UnionCount ==
  ASSUME NEW S, NEW T, IsFiniteSet(S), IsFiniteSet(T)
  PROVE  IsFiniteSet(S \cup T) /\ Cardinality(S \cup T) <= Cardinality(S) + Cardinality(T)
<1>1. /\ Cardinality(S) \in Nat /\ Cardinality(T) \in Nat
      /\ IsFiniteSet(S \cap T) /\ IsFiniteSet(S \cup T)
  BY FS_CardinalityType, FS_Subset, FS_Union
<1>2. Cardinality(S \cap T) \in Nat
  BY <1>1, FS_CardinalityType
<1>3. Cardinality(S \cup T) = Cardinality(S) + Cardinality(T) - Cardinality(S \cap T)
  BY FS_Union
<1> QED BY <1>1, <1>2, <1>3

\* An agent that stops orphans the files of all it worked on: of its clients, one for
\* each migration at most, and of those whose client had gone.
LEMMA FilesStop ==
  ASSUME FileInv, NEW n \in AgentNodes, AgentStops(n)
  PROVE  UploadInv' /\ DebtInv'
<1> USE DEF FileInv
<1> DEFINE h == [w \in work |-> IF w.node = n /\ w.via # "jobPush"
                                THEN [w EXCEPT !.step = "error"] ELSE w]
           J == {w \in Holding : w.node = n /\ w.client = "job"}
           L == {w \in Unheard : w.node = n}
           Dropped == {FileOf(w) : w \in J \cup L}
<1>0. IsFiniteSet(work) /\ work \subseteq Works
  BY DEF DebtInv, TypeInv, TypeOK
<1>1. files' = files /\ faults' = faults + 1
  BY DEF AgentStops, Fault
<1>2. work' = {h[w] : w \in work} /\ h \in [work -> work']
  BY DEF AgentStops
<1>3. \A w \in work :
        /\ h[w].mig = w.mig /\ h[w].via = w.via /\ h[w].node = w.node /\ h[w].client = w.client
        /\ w.node = n /\ w.via # "jobPush" => h[w].step = "error"
        /\ ~(w.node = n /\ w.via # "jobPush") => h[w] = w
  BY <1>0, StepTo DEF Steps
<1> HIDE DEF h
<1>4. IsFiniteSet(work')
  BY <1>0, <1>2, ImageCount
<1>5. UploadInv'
  <2>1. ASSUME NEW v \in work'
        PROVE  /\ v.via = "upload" => v.client # "controller"
               /\ v.step = "receive" => v.via = "upload" /\ v.client = "job"
    <3>1. PICK w \in work : v = h[w]
      BY <1>2
    <3> QED BY <1>3, <3>1 DEF UploadInv
  <2>2. ASSUME NEW v1 \in work', NEW v2 \in work',
               v1.client = "job", v2.client = "job", v1.mig = v2.mig
        PROVE  v1 = v2
    <3>1. PICK w1 \in work : v1 = h[w1]
      BY <1>2
    <3>2. PICK w2 \in work : v2 = h[w2]
      BY <1>2
    <3> QED BY <1>3, <2>2, <3>1, <3>2 DEF UploadInv
  <2> QED BY <2>1, <2>2 DEF UploadInv
<1>6. Holding' = {w \in Holding : w.node # n}
  <2>1. ASSUME NEW v \in Holding' PROVE v \in Holding /\ v.node # n
    <3>1. PICK w \in work : v = h[w]
      BY <1>2 DEF Holding
    <3>2. w.node # n /\ v = w
      BY <1>3, <3>1 DEF Holding, Holds
    <3> QED BY <3>2 DEF Holding
  <2>2. ASSUME NEW w \in Holding, w.node # n PROVE w \in Holding'
    <3>1. h[w] = w /\ w \in work
      BY <1>3, <2>2 DEF Holding
    <3>2. w \in work'
      BY <1>2, <3>1
    <3> QED BY <3>2 DEF Holding
  <2> QED BY <2>1, <2>2
<1>7. Written' = Written /\ IsFiniteSet(Written)
  BY <1>1 DEF Written, DebtInv
<1>8. /\ IsFiniteSet(Orphans) /\ Cardinality(Orphans) \in Nat
      /\ IsFiniteSet(Unheard) /\ Cardinality(Unheard) \in Nat /\ IsFiniteSet(Holding)
      /\ IsFiniteSet(Direct) /\ Cardinality(Direct) \in Nat
  BY Counts
<1>9. IsFiniteSet(J) /\ IsFiniteSet(L) /\ Cardinality(J) \in Nat /\ Cardinality(L) \in Nat
  BY <1>8, FS_Subset, FS_CardinalityType
<1>10. Cardinality(J) <= Cardinality(Direct)
  <2> DEFINE m == [w \in J |-> w.mig]
  <2>1. \A w \in J : w.mig \in Direct
    BY DEF Holding, Holds, WorkInv
  <2>2. \A v, w \in J : v.mig = w.mig => v = w
    BY DEF Holding, UploadInv
  <2>3. m \in [J -> Direct] /\ \A v, w \in J : m[v] = m[w] => v = w
    BY <2>1, <2>2
  <2>4. m \in Injection(J, Direct)
    BY <2>3 DEF Injection, IsInjective
  <2> HIDE DEF m, J
  <2> QED BY <1>8, <2>4, FS_Injection
<1>11. \A w \in Holding : w.node = n => w \in J \cup L
  <2>1. \A w \in work : w.via = "upload" => w.client \in {"job", "gone"}
    BY <1>0, WorkFields DEF UploadInv
  <2> QED BY <2>1 DEF Holding, Holds, Unheard
<1>12. Orphans' \subseteq Orphans \cup Dropped
  <2>1. \A w \in Holding : w \in Holding' \/ FileOf(w) \in Dropped
    BY <1>6, <1>11
  <2> QED BY <1>7, <2>1 DEF Orphans
<1>13. Unheard' = Unheard \ L
  BY <1>6 DEF Unheard
<1>14. Cardinality(Unheard') = Cardinality(Unheard) - Cardinality(L)
  <2>1. Unheard \cap L = L
    OBVIOUS
  <2> HIDE DEF L, J, Dropped
  <2>2. Cardinality(Unheard \ L) = Cardinality(Unheard) - Cardinality(Unheard \cap L)
    BY <1>8, FS_Difference
  <2> QED BY <1>13, <2>1, <2>2
<1>15. IsFiniteSet(Dropped) /\ Cardinality(Dropped) <= Cardinality(J) + Cardinality(L)
  <2>1. IsFiniteSet(J \cup L) /\ Cardinality(J \cup L) <= Cardinality(J) + Cardinality(L)
    BY <1>9, UnionCount
  <2> DEFINE S == J \cup L
             f == [w \in S |-> FileOf(w)]
  <2>2. Dropped = {f[w] : w \in S} /\ f \in [S -> Dropped]
    OBVIOUS
  <2>3. IsFiniteSet(S) /\ Cardinality(S) <= Cardinality(J) + Cardinality(L)
    BY <2>1
  <2> HIDE DEF S, f, Dropped, J, L
  <2>4. IsFiniteSet(Dropped) /\ Cardinality(Dropped) <= Cardinality(S)
    BY <2>2, <2>3, ImageCount
  <2>5. Cardinality(Dropped) \in Nat /\ Cardinality(S) \in Nat
    BY <2>3, <2>4, FS_CardinalityType
  <2> QED BY <1>9, <2>3, <2>4, <2>5
<1> HIDE DEF J, L, Dropped
<1>16. Cardinality(Orphans') <= Cardinality(Orphans) + (Cardinality(J) + Cardinality(L))
  <2>1. /\ IsFiniteSet(Orphans \cup Dropped)
        /\ Cardinality(Orphans \cup Dropped) <= Cardinality(Orphans) + Cardinality(Dropped)
    BY <1>8, <1>15, UnionCount
  <2>2. IsFiniteSet(Orphans') /\ Cardinality(Orphans') <= Cardinality(Orphans \cup Dropped)
    BY <1>12, <2>1, FS_Subset
  <2>3. /\ Cardinality(Orphans') \in Nat /\ Cardinality(Orphans \cup Dropped) \in Nat
        /\ Cardinality(Dropped) \in Nat
    BY <1>15, <2>1, <2>2, FS_CardinalityType
  <2> QED BY <1>8, <1>9, <1>15, <2>1, <2>2, <2>3
<1>17. DebtInv'
  <2>1. Cardinality(Unheard') <= Cardinality(Unheard) + (0 - Cardinality(L))
    BY <1>8, <1>9, <1>14
  <2>2. /\ Cardinality(J) + Cardinality(L) \in Int /\ 0 - Cardinality(L) \in Int
        /\ (Cardinality(J) + Cardinality(L)) + (0 - Cardinality(L)) <= Cardinality(Direct)
    BY <1>8, <1>9, <1>10
  <2>3. IsFiniteSet(Written')
    BY <1>7
  <2> QED BY <1>1, <1>4, <1>16, <2>1, <2>2, <2>3, DebtPaid
<1> QED BY <1>5, <1>17

LEMMA FilesAgents ==
  ASSUME FileInv,
         \/ Agents
         \/ \E w \in work : StepFails(w)
         \/ \E n \in AgentNodes : AgentStops(n) \/ AgentStarts(n)
  PROVE  UploadInv' /\ DebtInv'
<1>1. ASSUME NEW w \in work, Abandoned(w) PROVE UploadInv' /\ DebtInv'
  <2>1. w.step \in {"ok", "error"} /\ work' = work \ {w} /\ UNCHANGED <<files, faults>>
    BY <1>1 DEF Abandoned
  <2>2. UploadInv' /\ Holding' = Holding
    BY <2>1 DEF FileInv, UploadInv, Holding, Holds
  <2>3. IsFiniteSet(work')
    BY <2>1, FS_RemoveElement DEF FileInv, DebtInv
  <2> QED BY <2>1, <2>2, <2>3, DebtKept
<1>2. ASSUME NEW n \in AgentNodes, AgentStarts(n) PROVE UploadInv' /\ DebtInv'
  <2>1. UNCHANGED <<work, files, faults>>
    BY <1>2 DEF AgentStarts
  <2>2. UploadInv' /\ Holding' = Holding /\ IsFiniteSet(work')
    BY <2>1 DEF FileInv, UploadInv, Holding, DebtInv
  <2> QED BY <2>1, <2>2, DebtKept
<1> QED BY <1>1, <1>2, FilesReceive, FilesBuild, FilesStore, FilesFail, FilesStop DEF Agents

LEMMA FilesAlways == Spec => []FileInv
<1>1. Init => UploadInv /\ DebtInv
  <2> SUFFICES ASSUME Init PROVE UploadInv /\ DebtInv
    OBVIOUS
  <2>1. work = {} /\ faults = 0 /\ Written = {}
    BY DEF Init, Written
  <2>2. Orphans = {} /\ Unheard = {}
    BY <2>1 DEF Orphans, Unheard, Holding
  <2>3. Cardinality(Direct) \in Nat
    BY TransferAssumption, FS_Subset, FS_CardinalityType
  <2>4. IsFiniteSet({}) /\ Cardinality({}) = 0
    BY FS_EmptySet
  <2>5. Cardinality(Orphans) + Cardinality(Unheard) <= Cardinality(Direct) * faults
    BY <2>1, <2>2, <2>3, <2>4
  <2> QED BY <2>1, <2>4, <2>5 DEF UploadInv, DebtInv
<1>2. OwnInv => TypeInv /\ WorkInv
  BY DEF OwnInv
<1>3. /\ TypeInv /\ WorkInv /\ UploadInv /\ DebtInv /\ [Next]_vars
      => UploadInv' /\ DebtInv'
  <2> SUFFICES ASSUME FileInv, [Next]_vars PROVE UploadInv' /\ DebtInv'
    BY DEF FileInv
  <2>1. CASE UNCHANGED vars
    <3>1. UNCHANGED <<work, files, faults>>
      BY <2>1 DEF vars
    <3>2. UploadInv' /\ Holding' = Holding /\ IsFiniteSet(work')
      BY <3>1 DEF FileInv, UploadInv, Holding, DebtInv
    <3> QED BY <3>1, <3>2, DebtKept
  <2> QED BY <2>1, FilesController, FilesJob, FilesAgents DEF Next, Done
<1>4. TypeInv /\ WorkInv /\ UploadInv /\ DebtInv => FileInv
  BY DEF FileInv
<1> QED BY <1>1, <1>2, <1>3, <1>4, OwnAlways, PTL DEF Spec

\* The files in the agents' storage directories are those of the uploads at work and, for
\* each fault so far, at most one more for each migration in Direct mode, for any number
\* of migrations, agents and Job pods: an upload whose client was lost, whose step failed
\* or whose agent stopped leaves no more than its own file behind (the error returns of
\* ServeHTTP).
THEOREM FilesAlwaysAccounted == Spec => []FilesAccounted
<1>1. FileInv => FilesAccounted
  <2> SUFFICES ASSUME FileInv PROVE FilesAccounted
    OBVIOUS
  <2> DEFINE Held == {FileOf(w) : w \in Holding}
             f == [w \in Holding |-> FileOf(w)]
             U == {w \in work : w.via = "upload"}
  <2>1. /\ IsFiniteSet(Orphans) /\ Cardinality(Orphans) \in Nat /\ Cardinality(Unheard) \in Nat
        /\ IsFiniteSet(Holding) /\ Cardinality(Direct) \in Nat /\ faults \in Nat
    BY Counts
  <2>2. Held = {f[w] : w \in Holding} /\ f \in [Holding -> Held]
    OBVIOUS
  <2>3. Holding \subseteq U /\ IsFiniteSet(U)
    BY FS_Subset DEF FileInv, DebtInv, Holding, Holds
  <2>4. Written \subseteq Orphans \cup Held
    BY DEF Orphans
  <2> HIDE DEF Held, f, U
  <2>5. IsFiniteSet(Held) /\ Cardinality(Held) <= Cardinality(Holding)
    BY <2>1, <2>2, ImageCount
  <2>6. Cardinality(Holding) <= Cardinality(U)
    BY <2>3, FS_Subset
  <2>7. /\ IsFiniteSet(Orphans \cup Held)
        /\ Cardinality(Orphans \cup Held) <= Cardinality(Orphans) + Cardinality(Held)
    BY <2>1, <2>5, UnionCount
  <2>8. IsFiniteSet(Written) /\ Cardinality(Written) <= Cardinality(Orphans \cup Held)
    BY <2>4, <2>7, FS_Subset
  <2>9. /\ Cardinality(Written) \in Nat /\ Cardinality(Orphans \cup Held) \in Nat
        /\ Cardinality(Held) \in Nat /\ Cardinality(Holding) \in Nat /\ Cardinality(U) \in Nat
    BY <2>1, <2>3, <2>5, <2>7, <2>8, FS_CardinalityType
  <2>10. Cardinality(Orphans) + Cardinality(Unheard) <= Cardinality(Direct) * faults
    BY DEF FileInv, DebtInv
  <2>11. Cardinality(Direct) * faults \in Nat
    BY <2>1
  <2>12. Cardinality(Written) <= Cardinality(U) + Cardinality(Direct) * faults
    BY <2>1, <2>5, <2>6, <2>7, <2>8, <2>9, <2>10, <2>11
  <2> QED BY <2>12 DEF FilesAccounted, Written, U
<1> QED BY <1>1, FilesAlways, PTL
==============================================================================
