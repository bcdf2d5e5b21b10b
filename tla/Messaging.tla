------------------------------ MODULE Messaging ------------------------------
(***************************************************************************)
(* The message broker as the operator uses it: the RabbitMQ client of      *)
(* internal/messaging, the fanout exchange and its queues, the control     *)
(* queues, the producer, and the consumers that follow the control         *)
(* protocol.                                                               *)
(*                                                                         *)
(* Messages are the numbers 1..MaxMsgs in publication order.  A queue is   *)
(* the SET of messages it holds: a fanout exchange publishes in increasing *)
(* order and RabbitMQ puts a requeued message back at its old place, so    *)
(* the head of a queue is always its least element.                        *)
(***************************************************************************)
EXTENDS Integers, FiniteSets, Sequences

CONSTANTS
  MaxMsgs,     \* bound: messages the producer publishes
  Prefetch,    \* bound: unacknowledged messages a consumer may hold
  MaxFaults,   \* bound: faults of any kind in a behaviour
  FaultKinds   \* the kinds of fault that may happen

Kinds == {"broker", "api", "crash", "job"}

ASSUME MessagingAssumption ==
  /\ MaxMsgs \in Nat
  /\ Prefetch \in Nat \ {0}
  /\ MaxFaults \in Nat
  /\ FaultKinds \subseteq Kinds

VARIABLES
  chan,       \* the client's AMQP channel; "closed" is nil or broken: every call errs
  exists,     \* declared queues
  bound,      \* queues bound to the fanout exchange
  ready,      \* ready[q]: messages of q not delivered to a consumer
  published,  \* messages published so far
  ctrl,       \* ctrl[n]: control queue ms2m.control.<n>
  on,         \* on[p]: the queue process p consumes, or why it consumes none
  want,       \* want[p]: p's replay_state ("primary" when replay is not active)
  inflight,   \* inflight[p]: messages delivered to p and not acknowledged
  applied,    \* applied[p]: messages processed into p's in-memory state
  dups,       \* history: messages the replacement processed more than once
  returned,   \* history: messages a consumer put back when it left another queue
              \* than the primary one
  faults      \* faults so far

topoVars  == <<exists, bound, ready, ctrl, on>>
clientVars == <<chan, faults>>
consumerVars == <<want, inflight, applied, dups, returned>>
trafficVars == <<published, consumerVars>>
mqRest == <<chan, exists, bound, ready, published, ctrl, on, consumerVars>>
mqVars == <<chan, exists, bound, ready, published, ctrl, on, want, inflight,
            applied, dups, returned, faults>>

-----------------------------------------------------------------------------
Msgs   == 1 .. MaxMsgs
Queues == {"primary", "replay", "buffer"}
Procs  == {"source", "shadow", "replacement"}
Names  == {"src", "shadow"}

\* The replacement takes the source's pod name, and so its control queue.
PodName(p) == IF p = "shadow" THEN "shadow" ELSE "src"

\* "wait": restore mode; "none": its queue was deleted under it; "off": not running
Positions == Queues \cup {"wait", "none", "off"}

StartReplay(q) == [type |-> "START_REPLAY", queue |-> q]
EndReplay      == [type |-> "END_REPLAY", queue |-> "primary"]
ControlMsgs    == {EndReplay} \cup {StartReplay(q) : q \in {"replay", "buffer"}}

MessagingTypeOK ==
  /\ chan \in {"open", "closed"}
  /\ exists \in SUBSET Queues
  /\ bound \in SUBSET Queues
  /\ ready \in [Queues -> SUBSET Msgs]
  /\ published \in 0 .. MaxMsgs
  /\ ctrl \in [Names -> Seq(ControlMsgs)]
  /\ on \in [Procs -> Positions]
  /\ want \in [Procs -> Queues]
  /\ inflight \in [Procs -> SUBSET Msgs]
  /\ applied \in [Procs -> SUBSET Msgs]
  /\ dups \in SUBSET Msgs
  /\ returned \in SUBSET Msgs
  /\ faults \in 0 .. MaxFaults

-----------------------------------------------------------------------------
(***************************************************************************)
(* The client's methods.  A call succeeds with its effect E, or fails: at  *)
(* once when the channel is down, or because the connection breaks during  *)
(* the call, after any part of E reached the broker.                       *)
(***************************************************************************)
Fault(kind) ==
  /\ kind \in FaultKinds
  /\ faults < MaxFaults
  /\ faults' = faults + 1

Succeeds(E) == chan = "open" /\ E /\ UNCHANGED clientVars

Fails(E) ==
  \/ chan = "closed" /\ UNCHANGED clientVars /\ UNCHANGED topoVars
  \/ /\ chan = "open"
     /\ Fault("broker")
     /\ chan' = "closed"
     /\ E \/ UNCHANGED topoVars

\* queue.inspect and queue.bind on a missing queue: 404, which closes the channel
NotFound(q) ==
  /\ chan = "open"
  /\ q \notin exists
  /\ chan' = "closed"
  /\ UNCHANGED <<faults, topoVars>>

DeclareBind(q) ==
  /\ exists' = exists \cup {q}
  /\ bound' = bound \cup {q}
  /\ UNCHANGED <<ready, ctrl, on>>

\* CreateSecondaryQueue: declare the replay queue, bind primary, bind replay.
\* k is the number of these calls that reached the broker.
CreateSecondary(k) ==
  /\ exists' = IF k > 0 THEN exists \cup {"replay"} ELSE exists
  /\ bound' = bound \cup (IF k > 1 THEN {"primary"} ELSE {})
                    \cup (IF k > 2 THEN {"replay"} ELSE {})
  /\ UNCHANGED <<ready, ctrl, on>>

CreateSecondaryQueue    == Succeeds(CreateSecondary(3))
CreateSecondaryQueueErr == Fails(\E k \in 1 .. 3 : CreateSecondary(k))

Unbind(q) == bound' = bound \ {q} /\ UNCHANGED <<exists, ready, ctrl, on>>

UnbindQueue(q)    == Succeeds(Unbind(q))
UnbindQueueErr(q) == Fails(Unbind(q))

Bind(q) == bound' = bound \cup {q} /\ UNCHANGED <<exists, ready, ctrl, on>>

BindQueue(q)    == q \in exists /\ Succeeds(Bind(q))
BindQueueErr(q) == NotFound(q) \/ Fails(q \in exists /\ Bind(q))

\* The broker drops the queue's messages and bindings and cancels its consumers.
Delete(q) ==
  /\ exists' = exists \ {q}
  /\ bound' = bound \ {q}
  /\ ready' = [ready EXCEPT ![q] = {}]
  /\ on' = [p \in Procs |-> IF on[p] = q THEN "none" ELSE on[p]]
  /\ UNCHANGED ctrl

DeleteQueue(q)    == Succeeds(Delete(q))
DeleteQueueErr(q) == Fails(Delete(q))

DeleteSecondaryQueue    == Succeeds(Delete("replay"))
DeleteSecondaryQueueErr == Fails(Unbind("replay") \/ Delete("replay"))

DeclareAndBindQueue(q) == Succeeds(DeclareBind(q))
DeclareAndBindQueueErr(q) ==
  Fails(\/ DeclareBind(q)
        \/ exists' = exists \cup {q} /\ UNCHANGED <<bound, ready, ctrl, on>>)

\* GetQueueDepth and GetQueueStats count the ready messages only
\* (GetQueueStats reports no message as unacknowledged).
Depth(q) == Cardinality(ready[q])

Inspect(q)    == q \in exists /\ Succeeds(UNCHANGED topoVars)
InspectErr(q) == NotFound(q) \/ Fails(UNCHANGED topoVars)

Post(n, msg) ==
  ctrl' = [ctrl EXCEPT ![n] = Append(@, msg)] /\ UNCHANGED <<exists, bound, ready, on>>

\* Publishing is not confirmed: a message may be lost with the connection
\* although the call reports success.
SendControlMessage(n, msg) ==
  \/ Succeeds(Post(n, msg))
  \/ /\ chan = "open"
     /\ Fault("broker")
     /\ chan' = "closed"
     /\ UNCHANGED topoVars
SendControlMessageErr(n, msg) == Fails(Post(n, msg))

Connect == chan' = "open" /\ UNCHANGED <<faults, topoVars>>
ConnectErr == Fault("broker") /\ chan' = "closed" /\ UNCHANGED topoVars
Close   == chan' = "closed" /\ UNCHANGED <<faults, topoVars>>

-----------------------------------------------------------------------------
(***************************************************************************)
(* The producer and the consumers.                                         *)
(***************************************************************************)
\* A fanout exchange copies a message to every queue bound to it.
Publish ==
  /\ published < MaxMsgs
  /\ published' = published + 1
  /\ ready' = [q \in Queues |-> IF q \in bound THEN ready[q] \cup {published + 1}
                                               ELSE ready[q]]
  /\ UNCHANGED <<chan, exists, bound, ctrl, on, faults, consumerVars>>

Oldest(S) == {m \in S : \A n \in S : m <= n}

Deliver(p) ==
  /\ on[p] \in Queues
  /\ Cardinality(inflight[p]) < Prefetch
  /\ \E m \in Oldest(ready[on[p]]) :
       /\ ready' = [ready EXCEPT ![on[p]] = @ \ {m}]
       /\ inflight' = [inflight EXCEPT ![p] = @ \cup {m}]
  /\ UNCHANGED <<chan, exists, bound, published, ctrl, on, want, applied, dups, returned,
                 faults>>

\* The callback: update the in-memory state, then acknowledge.
Process(p) ==
  /\ on[p] # "off"
  /\ \E m \in Oldest(inflight[p]) :
       /\ applied' = [applied EXCEPT ![p] = @ \cup {m}]
       /\ inflight' = [inflight EXCEPT ![p] = @ \ {m}]
       /\ dups' = IF p = "replacement" /\ m \in applied[p] THEN dups \cup {m} ELSE dups
  /\ UNCHANGED <<chan, exists, bound, ready, published, ctrl, on, want, returned, faults>>

\* Messages p holds go back to the queue they came from, if it is still there.
Returned(p) ==
  IF on[p] \in Queues THEN [ready EXCEPT ![on[p]] = @ \cup inflight[p]] ELSE ready

\* check_control_messages reads everything pending, the last message counts;
\* then the consumer switches queue if its replay state changed.  basic_cancel
\* gives the deliveries it has not dispatched yet back to the queue they came
\* from; a consumer that has dispatched them all holds none.
ReadControl(p) ==
  LET msgs   == ctrl[PodName(p)]
      target == msgs[Len(msgs)].queue
      waits  == on[p] = "wait" /\ \A i \in 1 .. Len(msgs) : msgs[i].type = "END_REPLAY"
      moves  == ~waits /\ (on[p] = "wait" \/ target # want[p])
  IN
  /\ on[p] # "off"
  /\ msgs # <<>>
  /\ ctrl' = [ctrl EXCEPT ![PodName(p)] = <<>>]
  /\ want' = [want EXCEPT ![p] = target]
  /\ IF moves
     THEN /\ ready' = Returned(p)
          /\ inflight' = [inflight EXCEPT ![p] = {}]
          /\ on' = [on EXCEPT ![p] = target]
          /\ exists' = exists \cup {target}
          /\ returned' = IF on[p] = "primary" THEN returned ELSE returned \cup inflight[p]
     ELSE UNCHANGED <<ready, inflight, on, exists, returned>>
  /\ UNCHANGED <<chan, bound, published, applied, dups, faults>>

\* The process ends and the broker requeues what it had not acknowledged.
Stop(p) ==
  /\ ready' = Returned(p)
  /\ on' = [on EXCEPT ![p] = "off"]
  /\ inflight' = [inflight EXCEPT ![p] = {}]
  /\ UNCHANGED <<chan, exists, bound, published, ctrl, want, applied, dups, returned, faults>>

\* A process restored from a checkpoint that had processed S and wanted q.
\* Restore mode holds it until START_REPLAY; a process whose memory came back
\* from the checkpoint did not read the new environment and consumes at once.
Restore(p, S, q) ==
  /\ on[p] = "off"
  /\ applied' = [applied EXCEPT ![p] = S]
  /\ want' = [want EXCEPT ![p] = q]
  /\ \/ on' = [on EXCEPT ![p] = "wait"] /\ UNCHANGED exists
     \/ on' = [on EXCEPT ![p] = q] /\ exists' = exists \cup {q}
  /\ UNCHANGED <<chan, bound, ready, published, ctrl, inflight, dups, returned, faults>>
=============================================================================
