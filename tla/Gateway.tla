------------------------------- MODULE Gateway -------------------------------
(***************************************************************************)
(* From a Slack event to its answer: SlackSocketModeService._process_event *)
(* (integrations/slack.py), AgentGateway.handle (gateway/service.py) with  *)
(* the durable deduplicator over the gateway_requests table                *)
(* (gateway/dedup.py, storage/sqlite.py), task creation and queueing       *)
(* (application/adapters.py), and the delivery of the answer (Delivery).   *)
(*                                                                         *)
(* A handler is the background task of one delivery of an event; Slack     *)
(* delivers an event again when it likes, so several handlers may carry    *)
(* the same event.  The event is its idempotency key, and its answer is    *)
(* the GatewayCode, which is also the text that is delivered.              *)
(***************************************************************************)
EXTENDS Delivery

VARIABLES kind,      \* kind[k]: what an event asks for, fixed when it is sent
          request,   \* request[k]: none, reserved, or the remembered code
          stored,    \* tasks in the store: their id and the event they came from
          gw         \* gw[h]: state of each handler

gatewayVars == <<kind, request, stored, gw>>
vars == <<deliveryVars, gatewayVars>>

\* dev: a task for a registered project; astray: one for an unregistered one;
\* other: help, status, task, tasks, stop; rejected: refused before the
\* deduplication (unparsable, unauthorized, or with credential material).
Kind == {"dev", "astray", "other", "rejected"}

\* Codes that are released for a retry, and codes that are remembered.
Transient == {"unavailable", "internal-error"}
Lasting   == {"accepted", "ok", "not-found", "conflict"}

ASSUME TextAssumption ==
    Lasting \cup Transient \cup {"duplicate", "invalid-request"} \subseteq Text

NoHandler == [pc |-> "idle", key |-> "none", code |-> "none"]

Init ==
    /\ DeliveryInit
    /\ kind \in [DeliveryId -> Kind]
    /\ request = [k \in DeliveryId |-> "none"]
    /\ stored = {}
    /\ gw = [h \in Deliverer |-> NoHandler]

GwAt(h, pc) == gw[h].pc = pc

Goto(h, pc) == gw' = [gw EXCEPT ![h].pc = pc]

\* The handler has its answer and goes on to `pc`.
Answer(h, code, pc) == gw' = [gw EXCEPT ![h].pc = pc, ![h].code = code]

\* The handler has ended, or there is none.
Over(h) == GwAt(h, "idle") \/ (GwAt(h, "deliver") /\ dl[h].pc \in Finished)

GatewayFrame == UNCHANGED <<receipt, posted, dl, up, kind>>

-----------------------------------------------------------------------------
(* handle.                                                                 *)

\* accept_event schedules a handler; parsing, authorization and the credential
\* test come first and touch no state.
accept_event(h, k) ==
    /\ up
    /\ Over(h)
    /\ gw' = [gw EXCEPT ![h] =
                IF kind[k] = "rejected"
                THEN [pc |-> "respond", key |-> k, code |-> "invalid-request"]
                ELSE [pc |-> "get", key |-> k, code |-> "none"]]
    /\ dl' = [dl EXCEPT ![h] = NoCall]
    /\ UNCHANGED <<kind, request, stored, mishapVars, receipt, posted, up>>

\* deduplicator.get: a remembered answer is given again.
get(h) ==
    /\ GwAt(h, "get")
    /\ IF request[gw[h].key] \in Lasting
       THEN Answer(h, request[gw[h].key], "respond")
       ELSE Goto(h, "reserve")
    /\ UNCHANGED <<request, stored, mishapVars>>

\* Mutant of reserve: an existing reservation is taken over.
reserve_Shared(h) ==
    /\ GwAt(h, "reserve")
    /\ request' = [request EXCEPT ![gw[h].key] =
                     IF @ = "none" THEN "reserved" ELSE @]
    /\ Goto(h, "dispatch")
    /\ UNCHANGED <<stored, mishapVars>>

\* reserve_gateway_request inserts unless there is a row, remembered or not.
reserve(h) ==
    /\ GwAt(h, "reserve")
    /\ IF request[gw[h].key] = "none"
       THEN /\ request' = [request EXCEPT ![gw[h].key] = "reserved"]
            /\ Goto(h, "dispatch")
       ELSE /\ Answer(h, "duplicate", "respond")
            /\ UNCHANGED request
    /\ UNCHANGED <<stored, mishapVars>>

\* Mutant of new_task_id: a random id per request.
new_task_id_Random(h) == <<gw[h].key, h>>

\* UuidTaskIdFactory.new: the id is a function of the idempotency key alone.
new_task_id(h) == <<gw[h].key>>

\* Mutant of create_task: a failing insert is swallowed.
create_task_Swallow(h) ==
    /\ GwAt(h, "dispatch")
    /\ kind[gw[h].key] \in {"dev", "astray"}
    /\ Goto(h, "enqueue")
    /\ UNCHANGED <<stored, request, mishapVars>>

\* GatewayTaskAdapter.create_task: a task of the same content is adopted, an
\* unregistered project is not found.  The registries stay as they are over a
\* restart, so that a repeated event has the content of its task.
create_task(h) ==
    /\ GwAt(h, "dispatch")
    /\ kind[gw[h].key] \in {"dev", "astray"}
    /\ IF kind[gw[h].key] = "astray"
       THEN /\ Answer(h, "not-found", "remember")
            /\ UNCHANGED stored
       ELSE /\ stored' = stored \cup {[id |-> new_task_id(h), key |-> gw[h].key]}
            /\ Goto(h, "enqueue")
    /\ UNCHANGED <<request, mishapVars>>

\* The other commands read the store or cancel a task.
dispatch_other(h) ==
    /\ GwAt(h, "dispatch")
    /\ kind[gw[h].key] = "other"
    /\ \E code \in {"ok", "not-found", "conflict"} : Answer(h, code, "remember")
    /\ UNCHANGED <<request, stored, mishapVars>>

\* DurableTaskEnqueuer.enqueue_task; the orchestrator is woken.
enqueue_task(h) ==
    /\ GwAt(h, "enqueue")
    /\ Answer(h, "accepted", "remember")
    /\ UNCHANGED <<request, stored, mishapVars>>

\* remember_gateway_response fills the reservation; it raises when there is
\* none, or another answer.
remember(h) ==
    /\ GwAt(h, "remember")
    /\ IF request[gw[h].key] \in {"reserved", gw[h].code}
       THEN /\ request' = [request EXCEPT ![gw[h].key] = gw[h].code]
            /\ Goto(h, "respond")
       ELSE /\ Answer(h, "unavailable", "respond")
            /\ UNCHANGED request
    /\ UNCHANGED <<stored, mishapVars>>

\* Mutant of release: a transient answer is remembered like any other.
release_Remember(h) ==
    /\ GwAt(h, "release")
    /\ request' = [request EXCEPT ![gw[h].key] = gw[h].code]
    /\ Goto(h, "respond")
    /\ UNCHANGED <<stored, mishapVars>>

\* release_gateway_request after a transient answer; a remembered answer stays.
release(h) ==
    /\ GwAt(h, "release")
    /\ request' = [request EXCEPT ![gw[h].key] = IF @ \in Lasting THEN @ ELSE "none"]
    /\ Goto(h, "respond")
    /\ UNCHANGED <<stored, mishapVars>>

\* A store call fails: no deduplication is an answer of its own, a failing
\* command is transient, and the failures of remember and release leave the
\* reservation in place.
handle_fault(h) ==
    /\ CallFails
    /\ \/ gw[h].pc \in {"get", "reserve", "remember"} /\ Answer(h, "unavailable", "respond")
       \/ GwAt(h, "dispatch") /\ \E code \in Transient : Answer(h, code, "release")
       \/ GwAt(h, "enqueue") /\ Answer(h, "unavailable", "release")
       \/ GwAt(h, "release") /\ Goto(h, "respond")
    /\ UNCHANGED <<request, stored>>

\* The answer of every delivery of an event has the same delivery id.
respond(h) ==
    /\ GwAt(h, "respond")
    /\ deliver(h, gw[h].key, gw[h].code)
    /\ Goto(h, "deliver")
    /\ UNCHANGED <<receipt, posted, up, mishapVars, kind, request, stored>>

Handle(h) ==
    /\ \/ get(h) \/ reserve(h) \/ create_task(h) \/ dispatch_other(h)
       \/ enqueue_task(h) \/ remember(h) \/ release(h)
    /\ GatewayFrame

Answering(h) == respond(h) \/ (DeliverStep(h) /\ UNCHANGED gatewayVars)

-----------------------------------------------------------------------------
(* Crash and restart.                                                      *)

crash ==
    /\ CallsLost
    /\ gw' = [h \in Deliverer |-> NoHandler]
    /\ UNCHANGED <<kind, request, stored>>

\* Mutant of reconcile_incomplete_gateway_requests: reservations stay.
reconcile_incomplete_gateway_requests_None == UNCHANGED request

reconcile_incomplete_gateway_requests ==
    request' = [k \in DeliveryId |->
                  IF request[k] = "reserved" THEN "none" ELSE request[k]]

\* initialize: receipts, then requests, before Slack is connected.
initialize ==
    /\ ReceiptsReconciled
    /\ reconcile_incomplete_gateway_requests
    /\ UNCHANGED <<kind, stored, gw>>

Next ==
    \/ \E h \in Deliverer :
         \/ \E k \in DeliveryId : accept_event(h, k)
         \/ Handle(h)
         \/ handle_fault(h) /\ GatewayFrame
         \/ Answering(h)
    \/ crash \/ initialize

\* Coroutines run, launchd restarts the hub; events and mishaps are not due.
Spec == Init /\ [][Next]_vars

FairSpec == /\ Spec
            /\ WF_vars(initialize)
            /\ \A h \in Deliverer : WF_vars(Handle(h)) /\ WF_vars(Answering(h))

-----------------------------------------------------------------------------
(* Properties.                                                             *)

HandlerState == [pc : {"idle", "get", "reserve", "dispatch", "enqueue",
                       "remember", "release", "respond", "deliver"},
                 key : DeliveryId \cup {"none"},
                 code : Lasting \cup Transient
                          \cup {"none", "duplicate", "invalid-request"}]

\* Every variable has its type.
TypeInvariant ==
    /\ DeliveryTypeOK
    /\ kind \in [DeliveryId -> Kind]
    /\ request \in [DeliveryId -> {"none", "reserved"} \cup Lasting]
    /\ gw \in [Deliverer -> HandlerState]

\* However often an event is delivered, retried or cut off by a crash, it makes
\* at most one task (handle, UuidTaskIdFactory, create_task).
OneTaskPerEvent == \A s, u \in stored : s.key = u.key => s = u

\* The user is told that a task was created only if it is stored, and a
\* remembered answer says what happened: accepted iff a task was made.
AnswersAreTrue ==
    \A k \in DeliveryId :
      /\ ("accepted" \in {posted[k][i] : i \in DOMAIN posted[k]}
            \/ request[k] = "accepted") => \E s \in stored : s.key = k
      /\ request[k] \in {"ok", "not-found", "conflict"} => \A s \in stored : s.key # k

Busy(h) == gw[h].pc \in {"dispatch", "enqueue", "remember", "release"}

\* A command is carried out by one handler at a time.
OneDispatcher ==
    \A g, h \in Deliverer : Busy(g) /\ Busy(h) /\ gw[g].key = gw[h].key => g = h

\* A reservation does not outlive its handler: unless a store call fails, it
\* turns into an answer or is released, over a crash too, so that the event can
\* be processed again (remember, release, the reconciliation at the start).
ReservationEnds ==
    \A k \in DeliveryId :
      request[k] = "reserved" ~> (request[k] # "reserved" \/ failed > 0)

\* The answers of all deliveries of an event share one delivery id, so that each
\* may suppress the others; still they do not suppress one another altogether.
\* Once every handler of a processed event is through, and nothing went wrong, one
\* message was posted for it: its remembered answer, or the notice that another
\* delivery of it is being processed (handle, _process_event, reserve_delivery).
AnsweredOnce ==
    \A k \in DeliveryId :
      Mishaps = 0 /\ request[k] \in Lasting /\ (\A h \in Deliverer : Over(h))
        => posted[k] \in {<<request[k]>>, <<"duplicate">>}
=============================================================================
