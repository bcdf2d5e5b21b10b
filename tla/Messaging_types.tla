---------------------------- MODULE Messaging_types ----------------------------
(***************************************************************************)
(* The calls of the broker client, the producer, the consumers and the     *)
(* kubelet keep the types of the broker's state.  The type proofs of the   *)
(* modules that use the broker rest on these lemmas.                       *)
(***************************************************************************)
EXTENDS Messaging, FiniteSetTheorems, TLAPS

USE MessagingAssumption

\* A queue never holds more messages than were published: its depth is a number
\* the status can record.
LEMMA DepthType ==
  ASSUME MessagingTypeOK, NEW q \in Queues
  PROVE  Depth(q) \in 0 .. MaxMsgs
<1>1. IsFiniteSet(Msgs) /\ Cardinality(Msgs) = MaxMsgs
  BY FS_Interval DEF Msgs
<1>2. ready[q] \subseteq Msgs
  BY DEF MessagingTypeOK
<1> QED BY <1>1, <1>2, FS_Subset, FS_CardinalityType DEF Depth

\* Every call of the broker client, and its failure.
ClientStep ==
  \/ CreateSecondaryQueue \/ CreateSecondaryQueueErr
  \/ DeleteSecondaryQueue \/ DeleteSecondaryQueueErr
  \/ Connect \/ ConnectErr \/ Close
  \/ \E q \in Queues :
       \/ UnbindQueue(q) \/ UnbindQueueErr(q)
       \/ BindQueue(q) \/ BindQueueErr(q)
       \/ DeleteQueue(q) \/ DeleteQueueErr(q)
       \/ DeclareAndBindQueue(q) \/ DeclareAndBindQueueErr(q)
       \/ Inspect(q) \/ InspectErr(q)
  \/ \E n \in Names, msg \in ControlMsgs :
       SendControlMessage(n, msg) \/ SendControlMessageErr(n, msg)

\* What a call may do to the broker.
Effect ==
  \/ UNCHANGED topoVars
  \/ \E k \in 1 .. 3 : CreateSecondary(k)
  \/ \E q \in Queues :
       \/ Unbind(q) \/ Bind(q) \/ Delete(q) \/ DeclareBind(q)
       \/ exists' = exists \cup {q} /\ UNCHANGED <<bound, ready, ctrl, on>>
  \/ \E n \in Names, msg \in ControlMsgs : Post(n, msg)

\* Whatever a client method does, it does one of the broker's effects, or none.
LEMMA ClientEffect ==
  ASSUME MessagingTypeOK, ClientStep
  PROVE  Effect /\ chan' \in {"open", "closed"} /\ faults' \in 0 .. MaxFaults
<1> USE DEF MessagingTypeOK, Effect, Succeeds, Fails, Fault, NotFound, topoVars, clientVars,
            Queues
<1>1. CASE CreateSecondaryQueue \/ CreateSecondaryQueueErr
  BY <1>1 DEF CreateSecondaryQueue, CreateSecondaryQueueErr
<1>2. CASE DeleteSecondaryQueue \/ DeleteSecondaryQueueErr
  BY <1>2 DEF DeleteSecondaryQueue, DeleteSecondaryQueueErr
<1>3. CASE Connect \/ ConnectErr \/ Close
  BY <1>3 DEF Connect, ConnectErr, Close
<1>4. ASSUME NEW q \in Queues,
             UnbindQueue(q) \/ UnbindQueueErr(q) \/ BindQueue(q) \/ BindQueueErr(q)
      PROVE  Effect /\ chan' \in {"open", "closed"} /\ faults' \in 0 .. MaxFaults
  BY <1>4 DEF UnbindQueue, UnbindQueueErr, BindQueue, BindQueueErr
<1>5. ASSUME NEW q \in Queues,
             DeleteQueue(q) \/ DeleteQueueErr(q) \/ Inspect(q) \/ InspectErr(q)
      PROVE  Effect /\ chan' \in {"open", "closed"} /\ faults' \in 0 .. MaxFaults
  BY <1>5 DEF DeleteQueue, DeleteQueueErr, Inspect, InspectErr
<1>6. ASSUME NEW q \in Queues, DeclareAndBindQueue(q) \/ DeclareAndBindQueueErr(q)
      PROVE  Effect /\ chan' \in {"open", "closed"} /\ faults' \in 0 .. MaxFaults
  BY <1>6 DEF DeclareAndBindQueue, DeclareAndBindQueueErr
<1>7. ASSUME NEW n \in Names, NEW msg \in ControlMsgs,
             SendControlMessage(n, msg) \/ SendControlMessageErr(n, msg)
      PROVE  Effect /\ chan' \in {"open", "closed"} /\ faults' \in 0 .. MaxFaults
  BY <1>7 DEF SendControlMessage, SendControlMessageErr
<1> QED BY <1>1, <1>2, <1>3, <1>4, <1>5, <1>6, <1>7 DEF ClientStep

\* The broker's effects keep its types.
LEMMA EffectTypes ==
  ASSUME MessagingTypeOK, Effect,
         chan' \in {"open", "closed"}, faults' \in 0 .. MaxFaults, UNCHANGED trafficVars
  PROVE  MessagingTypeOK'
<1> USE DEF MessagingTypeOK, trafficVars, consumerVars
<1>1. CASE UNCHANGED topoVars
  BY <1>1 DEF topoVars
<1>2. ASSUME NEW k \in 1 .. 3, CreateSecondary(k) PROVE MessagingTypeOK'
  BY <1>2 DEF CreateSecondary, Queues
<1>3. ASSUME NEW q \in Queues,
             \/ Unbind(q) \/ Bind(q) \/ DeclareBind(q)
             \/ exists' = exists \cup {q} /\ UNCHANGED <<bound, ready, ctrl, on>>
      PROVE  MessagingTypeOK'
  BY <1>3 DEF Unbind, Bind, DeclareBind
<1>4. ASSUME NEW q \in Queues, Delete(q) PROVE MessagingTypeOK'
  BY <1>4 DEF Delete, Positions
<1>5. ASSUME NEW n \in Names, NEW msg \in ControlMsgs, Post(n, msg) PROVE MessagingTypeOK'
  BY <1>5 DEF Post
<1> QED BY <1>1, <1>2, <1>3, <1>4, <1>5 DEF Effect

\* So do the client's methods.
LEMMA ClientTypes ==
  ASSUME MessagingTypeOK, ClientStep, UNCHANGED trafficVars
  PROVE  MessagingTypeOK'
BY ClientEffect, EffectTypes

-----------------------------------------------------------------------------
\* Messages a process holds are requeued.
LEMMA ReturnedType ==
  ASSUME MessagingTypeOK, NEW p \in Procs
  PROVE  Returned(p) \in [Queues -> SUBSET Msgs]
BY DEF MessagingTypeOK, Returned

\* A consumer that reads a control message keeps the types.
LEMMA ReadControlTypes ==
  ASSUME MessagingTypeOK, NEW p \in Procs, ReadControl(p)
  PROVE  MessagingTypeOK'
<1> DEFINE msgs == ctrl[PodName(p)]
           target == msgs[Len(msgs)].queue
<1>1. PodName(p) \in Names
  BY DEF PodName, Names
<1>2. msgs \in Seq(ControlMsgs) /\ msgs # <<>>
  BY <1>1 DEF MessagingTypeOK, ReadControl
<1>3. msgs[Len(msgs)] \in ControlMsgs
  BY <1>2
<1>4. target \in Queues
  BY <1>3 DEF ControlMsgs, EndReplay, StartReplay, Queues
<1>5. ctrl' = [ctrl EXCEPT ![PodName(p)] = <<>>] /\ want' = [want EXCEPT ![p] = target]
      /\ UNCHANGED <<chan, bound, published, applied, dups, faults>>
  BY DEF ReadControl
<1>6. \/ UNCHANGED <<ready, inflight, on, exists, returned>>
      \/ /\ ready' = Returned(p)
         /\ inflight' = [inflight EXCEPT ![p] = {}]
         /\ on' = [on EXCEPT ![p] = target]
         /\ exists' = exists \cup {target}
         /\ returned' \in {returned, returned \cup inflight[p]}
  BY DEF ReadControl
<1>7. ctrl' \in [Names -> Seq(ControlMsgs)]
  BY <1>1, <1>5 DEF MessagingTypeOK
<1> HIDE DEF target
<1>8. CASE UNCHANGED <<ready, inflight, on, exists, returned>>
  BY <1>4, <1>5, <1>7, <1>8 DEF MessagingTypeOK
<1>9. CASE ~UNCHANGED <<ready, inflight, on, exists, returned>>
  <2>1. ready' \in [Queues -> SUBSET Msgs]
    BY <1>6, <1>9, ReturnedType
  <2>2. inflight' = [inflight EXCEPT ![p] = {}] /\ on' = [on EXCEPT ![p] = target]
        /\ exists' = exists \cup {target}
        /\ returned' \in {returned, returned \cup inflight[p]}
    BY <1>6, <1>9
  <2> QED BY <1>4, <1>5, <1>7, <2>1, <2>2 DEF MessagingTypeOK, Positions
<1> QED BY <1>8, <1>9

\* The producer, the consumers and the kubelet keep the types.
LEMMA TrafficTypes ==
  ASSUME MessagingTypeOK,
         \/ Publish
         \/ \E p \in Procs : Deliver(p) \/ Process(p) \/ ReadControl(p) \/ Stop(p)
         \/ \E p \in Procs, S \in SUBSET Msgs, q \in Queues : Restore(p, S, q)
  PROVE  MessagingTypeOK'
<1>1. CASE Publish
  BY <1>1 DEF Publish, MessagingTypeOK, consumerVars, Msgs
<1>2. ASSUME NEW p \in Procs, Deliver(p) PROVE MessagingTypeOK'
  BY <1>2 DEF Deliver, Oldest, MessagingTypeOK
<1>3. ASSUME NEW p \in Procs, Process(p) PROVE MessagingTypeOK'
  BY <1>3 DEF Process, Oldest, MessagingTypeOK
<1>4. ASSUME NEW p \in Procs, Stop(p) PROVE MessagingTypeOK'
  BY <1>4, ReturnedType DEF Stop, MessagingTypeOK, Positions
<1>5. ASSUME NEW p \in Procs, NEW S \in SUBSET Msgs, NEW q \in Queues, Restore(p, S, q)
      PROVE  MessagingTypeOK'
  BY <1>5 DEF Restore, MessagingTypeOK, Positions
<1> QED BY <1>1, <1>2, <1>3, <1>4, <1>5, ReadControlTypes

\* An API call leaves the broker alone; it may count a fault.
ApiStep == UNCHANGED mqRest /\ (faults' = faults \/ \E k \in Kinds : Fault(k))

\* A call to the API server leaves the broker alone but for the count of faults.
LEMMA ApiTypes ==
  ASSUME MessagingTypeOK, ApiStep
  PROVE  MessagingTypeOK'
BY DEF ApiStep, mqRest, consumerVars, Fault, MessagingTypeOK
=============================================================================
