---------------------------- MODULE GatewayProofs ----------------------------
(***************************************************************************)
(* Proofs about Gateway: what the answers of the hub are worth however     *)
(* often an event is delivered, for every number of handlers, events,      *)
(* attempts and mishaps.                                                   *)
(***************************************************************************)
EXTENDS Gateway, DeliveryProofs

USE TextAssumption

-----------------------------------------------------------------------------
(* The inductive invariant.                                                *)

Refusal == {"ok", "not-found", "conflict"}

HasTask(k) == \E s \in stored : s.key = k

\* What a handler knows and holds: its event, the reservation while it carries
\* out the command, the task behind what it is about to promise, and the call of
\* deliver once it has got there.
HandlerOK(h) ==
    /\ gw[h].pc # "idle" => up /\ gw[h].key \in DeliveryId
    /\ Busy(h) => request[gw[h].key] = "reserved"
    /\ gw[h].pc \in {"remember", "release", "respond", "deliver"} => gw[h].code # "none"
    /\ gw[h].pc = "enqueue" \/ gw[h].code = "accepted" => HasTask(gw[h].key)
    /\ gw[h].pc = "remember" =>
         gw[h].code = "accepted" \/ (gw[h].code \in Refusal /\ kind[gw[h].key] # "dev")
    /\ gw[h].pc # "deliver" => dl[h].pc = "idle"
    /\ dl[h].pc # "idle" /\ dl[h].text = "accepted" => HasTask(dl[h].id)

\* What was said about an event is true.
EventOK(k) ==
    /\ (\E i \in DOMAIN posted[k] : posted[k][i] = "accepted") => HasTask(k)
    /\ request[k] = "accepted" => HasTask(k)
    /\ request[k] \in Refusal => kind[k] # "dev"

\* A task is named after its event, which asked for it.
StoredOK ==
    \A s \in stored : s = [id |-> <<s.key>>, key |-> s.key] /\ kind[s.key] = "dev"

GatewayTypeOK ==
    /\ kind \in [DeliveryId -> Kind]
    /\ request \in [DeliveryId -> {"none", "reserved"} \cup Lasting]
    /\ gw \in [Deliverer -> HandlerState]

GatewayInv ==
    /\ DeliveryInv
    /\ GatewayTypeOK
    /\ \A h \in Deliverer : HandlerOK(h)
    /\ \A k \in DeliveryId : EventOK(k)
    /\ StoredOK
    /\ OneDispatcher

\* The invariant implies the properties.
LEMMA GatewayInvImplies ==
  ASSUME GatewayInv
  PROVE  /\ TypeInvariant /\ OneTaskPerEvent /\ OneDispatcher /\ AnswersAreTrue
         /\ OneSender /\ DeliveredWasPosted /\ CopiesArePaidFor
<1>1. TypeInvariant
  BY DEF GatewayInv, GatewayTypeOK, DeliveryInv, TypeInvariant
<1>2. OneTaskPerEvent
  BY DEF GatewayInv, StoredOK, OneTaskPerEvent
<1>3. AnswersAreTrue
  BY DEF GatewayInv, StoredOK, EventOK, HasTask, Refusal, AnswersAreTrue
<1> QED
  BY <1>1, <1>2, <1>3, DeliveryInvImplies DEF GatewayInv, DeliveryInv

\* Nothing has happened yet.
LEMMA GatewayInitInv == Init => GatewayInv
<1> SUFFICES ASSUME Init PROVE GatewayInv
  OBVIOUS
<1>1. DeliveryInv
  BY NothingSentInv DEF Init, DeliveryInit
<1>2. GatewayTypeOK
  BY DEF Init, GatewayTypeOK, HandlerState, NoHandler
<1>3. ASSUME NEW h \in Deliverer PROVE HandlerOK(h) /\ ~Busy(h)
  BY DEF Init, NoHandler, HandlerOK, Busy, DeliveryInit, NothingSent, NoCall
<1>4. ASSUME NEW k \in DeliveryId PROVE EventOK(k)
  BY DEF Init, EventOK, Refusal, DeliveryInit, NothingSent
<1>5. StoredOK
  BY DEF Init, StoredOK
<1> QED
  BY <1>1, <1>2, <1>3, <1>4, <1>5 DEF GatewayInv, OneDispatcher

-----------------------------------------------------------------------------
(* Steps of a handler.                                                     *)

\* Only the handler h moves.
OnlyHandler(h) ==
    /\ gw' \in [Deliverer -> HandlerState]
    /\ \A g \in Deliverer : g # h => gw'[g] = gw[g]

\* The handler goes on to p.
LEMMA GotoMoves ==
  ASSUME GatewayTypeOK, NEW h \in Deliverer, NEW p, Goto(h, p),
         p \in {"idle", "get", "reserve", "dispatch", "enqueue", "remember",
                "release", "respond", "deliver"}
  PROVE  /\ OnlyHandler(h)
         /\ gw'[h].pc = p /\ gw'[h].key = gw[h].key /\ gw'[h].code = gw[h].code
<1> DEFINE c == [gw[h] EXCEPT !.pc = p]
<1>1. gw \in [Deliverer -> HandlerState]
  BY DEF GatewayTypeOK
<1>2. c \in HandlerState /\ c.pc = p /\ c.key = gw[h].key /\ c.code = gw[h].code
  BY <1>1 DEF HandlerState
<1>3. gw' = [gw EXCEPT ![h] = c]
  BY DEF Goto
<1> QED
  BY <1>1, <1>2, <1>3 DEF OnlyHandler

\* The handler has its answer.
LEMMA AnswerMoves ==
  ASSUME GatewayTypeOK, NEW h \in Deliverer, NEW p, NEW c, Answer(h, c, p),
         p \in {"remember", "release", "respond"},
         c \in Lasting \cup Transient \cup {"duplicate"}
  PROVE  OnlyHandler(h) /\ gw'[h].pc = p /\ gw'[h].key = gw[h].key /\ gw'[h].code = c
<1> DEFINE r == [gw[h] EXCEPT !.pc = p, !.code = c]
<1>1. gw \in [Deliverer -> HandlerState]
  BY DEF GatewayTypeOK
<1>2. r \in HandlerState /\ r.pc = p /\ r.key = gw[h].key /\ r.code = c
  BY <1>1 DEF HandlerState
<1>3. gw' = [gw EXCEPT ![h] = r]
  BY DEF Answer
<1> QED
  BY <1>1, <1>2, <1>3 DEF OnlyHandler

\* A step of h disturbs no other handler: the request it changes is the one it has
\* reserved, or one that nobody has, and no task goes away.
LEMMA HandlerStep ==
  ASSUME GatewayInv, NEW h \in Deliverer, OnlyHandler(h), UNCHANGED <<kind, up>>,
         \A g \in Deliverer : g # h => dl'[g] = dl[g],
         request' \in [DeliveryId -> {"none", "reserved"} \cup Lasting],
         \A k \in DeliveryId : request'[k] = request[k] \/
           (k = gw[h].key /\ (Busy(h) \/ request[k] = "none")),
         Busy(h)' => gw'[h].key = gw[h].key /\ (Busy(h) \/ request[gw[h].key] = "none"),
         stored \subseteq stored',
         DeliveryInv', HandlerOK(h)', \A k \in DeliveryId : EventOK(k)', StoredOK'
  PROVE  GatewayInv'
<1>1. GatewayTypeOK'
  BY DEF GatewayInv, GatewayTypeOK, OnlyHandler
<1>2. ASSUME NEW g \in Deliverer, g # h
      PROVE  /\ Busy(g)' <=> Busy(g)
             /\ Busy(g) => ~(Busy(h) /\ gw[h].key = gw[g].key)
             /\ Busy(g) => request[gw[g].key] = "reserved" /\ gw[g].key \in DeliveryId
  BY <1>2 DEF OnlyHandler, Busy, GatewayInv, OneDispatcher, HandlerOK
<1>3. ASSUME NEW g \in Deliverer, g # h
      PROVE  HandlerOK(g)'
  <2>1. gw'[g] = gw[g] /\ dl'[g] = dl[g] /\ HandlerOK(g)
    BY <1>3 DEF OnlyHandler, GatewayInv
  <2>2. \A k : HasTask(k) => HasTask(k)'
    BY DEF HasTask
  <2>3. Busy(g)' => request'[gw'[g].key] = "reserved"
    BY <1>2, <1>3, <2>1
  <2> QED
    BY <2>1, <2>2, <2>3 DEF HandlerOK
<1>4. OneDispatcher'
  <2>1. \A g \in Deliverer : g # h /\ Busy(g)' /\ Busy(h)' => gw'[g].key # gw'[h].key
    BY <1>2 DEF OnlyHandler
  <2>2. \A f, g \in Deliverer : f # h /\ g # h /\ Busy(f)' /\ Busy(g)'
                                  /\ gw'[f].key = gw'[g].key => f = g
    BY <1>2 DEF OnlyHandler, GatewayInv, OneDispatcher
  <2> QED
    BY <2>1, <2>2 DEF OneDispatcher
<1> QED
  BY <1>1, <1>3, <1>4 DEF GatewayInv

\* What a step of handle may do to its handler h and its event k before the
\* answer is delivered.
HandleMove(h, k) ==
    /\ OnlyHandler(h) /\ gw'[h].key = k
    /\ gw[h].pc \notin {"idle", "deliver"} /\ gw'[h].pc \notin {"idle", "deliver"}
    /\ request' \in [DeliveryId -> {"none", "reserved"} \cup Lasting]
    /\ \A j \in DeliveryId : request'[j] = request[j] \/
         (j = k /\ (Busy(h) \/ request[j] = "none"))
    /\ Busy(h)' => (Busy(h) \/ request[k] = "none") /\ request'[k] = "reserved"
    /\ stored \subseteq stored' /\ StoredOK'
    /\ gw'[h].pc \in {"remember", "release", "respond"} => gw'[h].code # "none"
    /\ gw'[h].pc = "enqueue" \/ gw'[h].code = "accepted" => HasTask(k)'
    /\ gw'[h].pc = "remember" =>
         gw'[h].code = "accepted" \/ (gw'[h].code \in Refusal /\ kind[k] # "dev")
    /\ \/ request'[k] \in {request[k], "none", "reserved"}
       \/ request'[k] = gw[h].code /\ gw[h].pc = "remember"

\* Such a step preserves the invariant.
LEMMA HandleStep ==
  ASSUME GatewayInv, NEW h \in Deliverer, NEW k, k = gw[h].key, GatewayFrame,
         UNCHANGED mishapVars \/ CallFails, HandleMove(h, k)
  PROVE  GatewayInv'
<1> USE DEF HandleMove
<1>1. DeliveryInv'
  BY ElsewhereInv DEF GatewayInv, GatewayFrame
<1>2. /\ receipt' = receipt /\ posted' = posted /\ dl' = dl /\ up' = up /\ kind' = kind
      /\ \A j : HasTask(j) => HasTask(j)'
      /\ HandlerOK(h) /\ up /\ k \in DeliveryId
  BY DEF GatewayFrame, HasTask, GatewayInv, HandlerOK
<1>3. HandlerOK(h)'
  BY <1>2 DEF HandlerOK
<1>4. ASSUME NEW j \in DeliveryId PROVE EventOK(j)'
  <2>1. EventOK(j)
    BY DEF GatewayInv
  <2>2. CASE request'[j] = request[j]
    BY <1>2, <2>1, <2>2 DEF EventOK
  <2>3. CASE request'[j] # request[j]
    <3>1. j = k
      BY <2>3
    <3>2. CASE request'[j] \in {"none", "reserved"}
      BY <1>2, <2>1, <3>2 DEF EventOK, Refusal
    <3>3. CASE request'[j] = gw[h].code /\ gw[h].pc = "remember"
      BY <1>2, <2>1, <3>1, <3>3 DEF EventOK, HandlerOK, Refusal
    <3> QED
      BY <2>3, <3>1, <3>2, <3>3
  <2> QED
    BY <2>2, <2>3
<1> QED
  BY <1>1, <1>2, <1>3, <1>4, HandlerStep

\* A remembered answer is given again.
LEMMA GetInv ==
  ASSUME GatewayInv, NEW h \in Deliverer, get(h), GatewayFrame
  PROVE  GatewayInv'
<1>inv. GatewayTypeOK /\ StoredOK /\ HandlerOK(h) /\ \A j \in DeliveryId : EventOK(j)
  BY DEF GatewayInv
<1>key. PICK k : k = gw[h].key
  OBVIOUS
<1>1. /\ gw[h].pc = "get" /\ request' = request /\ stored' = stored /\ kind' = kind
      /\ UNCHANGED mishapVars
  BY DEF get, GwAt, GatewayFrame
<1>2. HandlerOK(h) /\ k \in DeliveryId /\ EventOK(k)
  BY <1>inv, <1>key, <1>1 DEF HandlerOK
<1>3. StoredOK' /\ (\A j : HasTask(j) => HasTask(j)')
  BY <1>inv, <1>1 DEF StoredOK, HasTask
<1>4. CASE request[k] \in Lasting
  <2>1. Answer(h, request[k], "respond")
    BY <1>key, <1>4 DEF get
  <2>2. OnlyHandler(h) /\ gw'[h].pc = "respond" /\ gw'[h].key = k /\ gw'[h].code = request[k]
    BY <1>inv, <1>key, <2>1, <1>4, AnswerMoves
  <2>3. ~Busy(h)' /\ request[k] # "none"
    BY <2>2, <1>4 DEF Busy, Lasting
  <2>move. HandleMove(h, k)
    BY <1>inv, <1>1, <1>2, <1>3, <2>2, <2>3 DEF HandleMove, GatewayTypeOK, EventOK
  <2> QED
    BY <1>key, <1>1, <2>move, HandleStep
<1>5. CASE request[k] \notin Lasting
  <2>1. Goto(h, "reserve")
    BY <1>key, <1>5 DEF get
  <2>2. OnlyHandler(h) /\ gw'[h].pc = "reserve" /\ gw'[h].key = k /\ gw'[h].code = gw[h].code
    BY <1>inv, <1>key, <2>1, GotoMoves
  <2>3. ~Busy(h)'
    BY <2>2 DEF Busy
  <2>move. HandleMove(h, k)
    BY <1>inv, <1>key, <1>1, <1>2, <1>3, <2>2, <2>3 DEF HandleMove, GatewayTypeOK, HandlerOK
  <2> QED
    BY <1>key, <1>1, <2>move, HandleStep
<1> QED
  BY <1>4, <1>5

\* reserve_gateway_request gives the event to one handler.
LEMMA ReserveInv ==
  ASSUME GatewayInv, NEW h \in Deliverer, reserve(h), GatewayFrame
  PROVE  GatewayInv'
<1>inv. GatewayTypeOK /\ StoredOK /\ HandlerOK(h) /\ \A j \in DeliveryId : EventOK(j)
  BY DEF GatewayInv
<1>key. PICK k : k = gw[h].key
  OBVIOUS
<1>1. gw[h].pc = "reserve" /\ stored' = stored /\ kind' = kind /\ UNCHANGED mishapVars
  BY DEF reserve, GwAt, GatewayFrame
<1>2. HandlerOK(h) /\ k \in DeliveryId
  BY <1>inv, <1>key, <1>1 DEF HandlerOK
<1>3. StoredOK' /\ (\A j : HasTask(j) => HasTask(j)')
  BY <1>inv, <1>1 DEF StoredOK, HasTask
<1>4. CASE request[k] = "none"
  <2>1. Goto(h, "dispatch") /\ request' = [request EXCEPT ![k] = "reserved"]
    BY <1>key, <1>4 DEF reserve
  <2>2. OnlyHandler(h) /\ gw'[h].pc = "dispatch" /\ gw'[h].key = k /\ gw'[h].code = gw[h].code
    BY <1>inv, <1>key, <2>1, GotoMoves
  <2>3. /\ request' \in [DeliveryId -> {"none", "reserved"} \cup Lasting]
        /\ request'[k] = "reserved"
        /\ \A j \in DeliveryId : j # k => request'[j] = request[j]
    BY <1>inv, <1>2, <2>1 DEF GatewayTypeOK
  <2>move. HandleMove(h, k)
    BY <1>key, <1>1, <1>2, <1>3, <1>4, <2>2, <2>3 DEF HandleMove, GatewayTypeOK, HandlerOK
  <2> QED
    BY <1>key, <1>1, <2>move, HandleStep
<1>5. CASE request[k] # "none"
  <2>1. Answer(h, "duplicate", "respond") /\ request' = request
    BY <1>key, <1>5 DEF reserve
  <2>2. OnlyHandler(h) /\ gw'[h].pc = "respond" /\ gw'[h].key = k /\ gw'[h].code = "duplicate"
    BY <1>inv, <1>key, <2>1, AnswerMoves
  <2>3. ~Busy(h)'
    BY <2>2 DEF Busy
  <2>move. HandleMove(h, k)
    BY <1>inv, <1>1, <1>2, <1>3, <2>1, <2>2, <2>3 DEF HandleMove, GatewayTypeOK
  <2> QED
    BY <1>key, <1>1, <2>move, HandleStep
<1> QED
  BY <1>4, <1>5

\* A task is created under the id of its event, or the project is unknown.
LEMMA CreateTaskInv ==
  ASSUME GatewayInv, NEW h \in Deliverer, create_task(h), GatewayFrame
  PROVE  GatewayInv'
<1>inv. GatewayTypeOK /\ StoredOK /\ HandlerOK(h) /\ \A j \in DeliveryId : EventOK(j)
  BY DEF GatewayInv
<1>key. PICK k : k = gw[h].key
  OBVIOUS
<1>1. /\ gw[h].pc = "dispatch" /\ request' = request /\ kind' = kind
      /\ kind[k] \in {"dev", "astray"} /\ UNCHANGED mishapVars
  BY <1>key DEF create_task, GwAt, GatewayFrame
<1>2. HandlerOK(h) /\ k \in DeliveryId /\ Busy(h) /\ request'[k] = "reserved"
  BY <1>inv, <1>key, <1>1 DEF HandlerOK, Busy
<1>3. CASE kind[k] = "astray"
  <2>1. Answer(h, "not-found", "remember") /\ stored' = stored
    BY <1>key, <1>3 DEF create_task
  <2>2. OnlyHandler(h) /\ gw'[h].pc = "remember" /\ gw'[h].key = k /\ gw'[h].code = "not-found"
    BY <1>inv, <1>key, <2>1, AnswerMoves DEF Lasting
  <2>3. StoredOK'
    BY <1>inv, <1>1, <2>1 DEF StoredOK
  <2>move. HandleMove(h, k)
    BY <1>inv, <1>1, <1>2, <1>3, <2>1, <2>2, <2>3 DEF HandleMove, GatewayTypeOK, Refusal
  <2> QED
    BY <1>key, <1>1, <2>move, HandleStep
<1>4. CASE kind[k] = "dev"
  <2> DEFINE s == [id |-> <<k>>, key |-> k]
  <2>1. Goto(h, "enqueue") /\ stored' = stored \cup {s}
    BY <1>key, <1>4 DEF create_task, new_task_id
  <2>2. OnlyHandler(h) /\ gw'[h].pc = "enqueue" /\ gw'[h].key = k /\ gw'[h].code = gw[h].code
    BY <1>inv, <1>key, <2>1, GotoMoves
  <2>3. StoredOK'
    <3>1. s = [id |-> <<s.key>>, key |-> s.key] /\ s.key = k
      OBVIOUS
    <3> HIDE DEF s
    <3> QED
      BY <1>inv, <1>1, <1>4, <2>1, <3>1 DEF StoredOK
  <2>4. HasTask(k)'
    <3>1. s \in stored' /\ s.key = k
      BY <2>1
    <3> HIDE DEF s
    <3> QED
      BY <3>1 DEF HasTask
  <2>move. HandleMove(h, k)
    BY <1>inv, <1>1, <1>2, <2>1, <2>2, <2>3, <2>4 DEF HandleMove, GatewayTypeOK
  <2> QED
    BY <1>key, <1>1, <2>move, HandleStep
<1> QED
  BY <1>1, <1>3, <1>4

\* The other commands, and the queueing, have an answer to remember.
LEMMA AnsweredInv ==
  ASSUME GatewayInv, NEW h \in Deliverer, dispatch_other(h) \/ enqueue_task(h), GatewayFrame
  PROVE  GatewayInv'
<1>inv. GatewayTypeOK /\ StoredOK /\ HandlerOK(h) /\ \A j \in DeliveryId : EventOK(j)
  BY DEF GatewayInv
<1>key. PICK k : k = gw[h].key
  OBVIOUS
<1>1. /\ gw[h].pc \in {"dispatch", "enqueue"} /\ request' = request /\ kind' = kind
      /\ stored' = stored /\ UNCHANGED mishapVars
  BY DEF dispatch_other, enqueue_task, GwAt, GatewayFrame
<1>2. HandlerOK(h) /\ k \in DeliveryId /\ Busy(h) /\ request'[k] = "reserved"
  BY <1>inv, <1>key, <1>1 DEF HandlerOK, Busy
<1>3. StoredOK' /\ (\A j : HasTask(j) => HasTask(j)')
  BY <1>inv, <1>1 DEF StoredOK, HasTask
<1>4. CASE dispatch_other(h)
  <2>1. PICK c \in Refusal : Answer(h, c, "remember")
    BY <1>4 DEF dispatch_other, Refusal
  <2>2. OnlyHandler(h) /\ gw'[h].pc = "remember" /\ gw'[h].key = k /\ gw'[h].code = c
    BY <1>inv, <1>key, <2>1, AnswerMoves DEF Lasting, Refusal
  <2>3. kind[k] # "dev"
    BY <1>key, <1>4 DEF dispatch_other
  <2>move. HandleMove(h, k)
    BY <1>inv, <1>1, <1>2, <1>3, <2>2, <2>3 DEF HandleMove, GatewayTypeOK, Refusal
  <2> QED
    BY <1>key, <1>1, <2>move, HandleStep
<1>5. CASE enqueue_task(h)
  <2>1. gw[h].pc = "enqueue" /\ Answer(h, "accepted", "remember")
    BY <1>5 DEF enqueue_task, GwAt
  <2>2. OnlyHandler(h) /\ gw'[h].pc = "remember" /\ gw'[h].key = k /\ gw'[h].code = "accepted"
    BY <1>inv, <1>key, <2>1, AnswerMoves DEF Lasting
  <2>3. HasTask(k)'
    BY <1>key, <1>2, <1>3, <2>1 DEF HandlerOK
  <2>move. HandleMove(h, k)
    BY <1>inv, <1>1, <1>2, <1>3, <2>2, <2>3 DEF HandleMove, GatewayTypeOK
  <2> QED
    BY <1>key, <1>1, <2>move, HandleStep
<1> QED
  BY <1>4, <1>5

\* remember_gateway_response finds the reservation of its own handler.
LEMMA RememberInv ==
  ASSUME GatewayInv, NEW h \in Deliverer, remember(h), GatewayFrame
  PROVE  GatewayInv'
<1>inv. GatewayTypeOK /\ StoredOK /\ HandlerOK(h) /\ \A j \in DeliveryId : EventOK(j)
  BY DEF GatewayInv
<1>key. PICK k : k = gw[h].key
  OBVIOUS
<1>1. gw[h].pc = "remember" /\ stored' = stored /\ kind' = kind /\ UNCHANGED mishapVars
  BY DEF remember, GwAt, GatewayFrame
<1>2. HandlerOK(h) /\ k \in DeliveryId /\ Busy(h) /\ request[k] = "reserved"
  BY <1>inv, <1>key, <1>1 DEF HandlerOK, Busy
<1>3. StoredOK' /\ (\A j : HasTask(j) => HasTask(j)')
  BY <1>inv, <1>1 DEF StoredOK, HasTask
<1>4. Goto(h, "respond") /\ request' = [request EXCEPT ![k] = gw[h].code]
  BY <1>key, <1>2 DEF remember
<1>5. OnlyHandler(h) /\ gw'[h].pc = "respond" /\ gw'[h].key = k /\ gw'[h].code = gw[h].code
  BY <1>inv, <1>key, <1>4, GotoMoves
<1>6. gw[h].code \in Lasting
  BY <1>1, <1>2 DEF HandlerOK, Refusal, Lasting
<1>7. /\ request' \in [DeliveryId -> {"none", "reserved"} \cup Lasting]
      /\ request'[k] = gw[h].code
      /\ \A j \in DeliveryId : j # k => request'[j] = request[j]
  BY <1>inv, <1>2, <1>4, <1>6 DEF GatewayTypeOK
<1>8. ~Busy(h)'
  BY <1>5 DEF Busy
<1>move. HandleMove(h, k)
  BY <1>key, <1>1, <1>2, <1>3, <1>5, <1>7, <1>8 DEF HandleMove, GatewayTypeOK, HandlerOK
<1> QED
  BY <1>key, <1>1, <1>move, HandleStep

\* release_gateway_request drops the reservation of its own handler.
LEMMA ReleaseInv ==
  ASSUME GatewayInv, NEW h \in Deliverer, release(h), GatewayFrame
  PROVE  GatewayInv'
<1>inv. GatewayTypeOK /\ StoredOK /\ HandlerOK(h) /\ \A j \in DeliveryId : EventOK(j)
  BY DEF GatewayInv
<1>key. PICK k : k = gw[h].key
  OBVIOUS
<1>1. gw[h].pc = "release" /\ stored' = stored /\ kind' = kind /\ UNCHANGED mishapVars
  BY DEF release, GwAt, GatewayFrame
<1>2. HandlerOK(h) /\ k \in DeliveryId /\ Busy(h) /\ request[k] = "reserved"
  BY <1>inv, <1>key, <1>1 DEF HandlerOK, Busy
<1>3. StoredOK' /\ (\A j : HasTask(j) => HasTask(j)')
  BY <1>inv, <1>1 DEF StoredOK, HasTask
<1>4. Goto(h, "respond") /\ request' = [request EXCEPT ![k] = "none"]
  BY <1>key, <1>2 DEF release, Lasting
<1>5. OnlyHandler(h) /\ gw'[h].pc = "respond" /\ gw'[h].key = k /\ gw'[h].code = gw[h].code
  BY <1>inv, <1>key, <1>4, GotoMoves
<1>6. /\ request' \in [DeliveryId -> {"none", "reserved"} \cup Lasting]
      /\ request'[k] = "none"
      /\ \A j \in DeliveryId : j # k => request'[j] = request[j]
  BY <1>inv, <1>2, <1>4 DEF GatewayTypeOK
<1>7. ~Busy(h)'
  BY <1>5 DEF Busy
<1>move. HandleMove(h, k)
  BY <1>key, <1>1, <1>2, <1>3, <1>5, <1>6, <1>7 DEF HandleMove, GatewayTypeOK, HandlerOK
<1> QED
  BY <1>key, <1>1, <1>move, HandleStep

\* A failing store call leads to a transient answer.
LEMMA HandleFaultInv ==
  ASSUME GatewayInv, NEW h \in Deliverer, handle_fault(h), GatewayFrame
  PROVE  GatewayInv'
<1>inv. GatewayTypeOK /\ StoredOK /\ HandlerOK(h) /\ \A j \in DeliveryId : EventOK(j)
  BY DEF GatewayInv
<1>key. PICK k : k = gw[h].key
  OBVIOUS
<1>1. /\ CallFails /\ request' = request /\ stored' = stored /\ kind' = kind
      /\ gw[h].pc \in {"get", "reserve", "remember", "dispatch", "enqueue", "release"}
  BY DEF handle_fault, GwAt, GatewayFrame
<1>2. HandlerOK(h) /\ k \in DeliveryId
  BY <1>inv, <1>key, <1>1 DEF HandlerOK
<1>3. StoredOK' /\ (\A j : HasTask(j) => HasTask(j)')
  BY <1>inv, <1>1 DEF StoredOK, HasTask
<1>4. /\ OnlyHandler(h) /\ gw'[h].key = k
      /\ gw'[h].pc = "respond" \/ (gw'[h].pc = "release" /\ Busy(h))
      /\ gw'[h].code \in Transient \/ (gw[h].pc = "release" /\ gw'[h].code = gw[h].code)
  <2>1. ASSUME gw[h].pc \in {"get", "reserve", "remember"}, Answer(h, "unavailable", "respond")
        PROVE  <1>4!:
    BY <1>inv, <1>key, <2>1, AnswerMoves DEF Transient
  <2>2. ASSUME gw[h].pc = "dispatch", NEW c \in Transient, Answer(h, c, "release")
        PROVE  <1>4!:
    BY <1>inv, <1>key, <2>2, AnswerMoves DEF Busy
  <2>3. ASSUME gw[h].pc = "enqueue", Answer(h, "unavailable", "release")
        PROVE  <1>4!:
    BY <1>inv, <1>key, <2>3, AnswerMoves DEF Transient, Busy
  <2>4. ASSUME gw[h].pc = "release", Goto(h, "respond")
        PROVE  <1>4!:
    BY <1>inv, <1>key, <2>4, GotoMoves
  <2> QED
    BY <2>1, <2>2, <2>3, <2>4 DEF handle_fault, GwAt
<1>5. Busy(h)' => Busy(h) /\ request'[k] = "reserved"
  BY <1>key, <1>1, <1>2, <1>4 DEF Busy, HandlerOK
<1>6. gw'[h].code # "none" /\ (gw'[h].code = "accepted" => HasTask(k)')
  BY <1>key, <1>2, <1>3, <1>4 DEF HandlerOK, Transient
<1>move. HandleMove(h, k)
  BY <1>inv, <1>1, <1>2, <1>3, <1>4, <1>5, <1>6 DEF HandleMove, GatewayTypeOK
<1> QED
  BY <1>key, <1>1, <1>move, HandleStep

\* A step of handle, or one of its store calls failing.
LEMMA HandleInv ==
  ASSUME GatewayInv, NEW h \in Deliverer, Handle(h) \/ (handle_fault(h) /\ GatewayFrame)
  PROVE  GatewayInv'
BY GetInv, ReserveInv, CreateTaskInv, AnsweredInv, RememberInv, ReleaseInv, HandleFaultInv
DEF Handle

-----------------------------------------------------------------------------
(* Events and answers.                                                     *)

\* A new handler, at a place whose last one has ended.
LEMMA AcceptEventInv ==
  ASSUME GatewayInv, NEW h \in Deliverer, NEW k \in DeliveryId, accept_event(h, k)
  PROVE  GatewayInv'
<1>1. /\ up /\ up' = up /\ kind' = kind /\ request' = request /\ stored' = stored
      /\ receipt' = receipt /\ posted' = posted
      /\ dl' = [dl EXCEPT ![h] = NoCall]
      /\ UNCHANGED <<receipt, posted, up, mishapVars>>
  BY DEF accept_event
<1>2. dl[h].pc \in Finished \cup {"idle"}
  BY DEF accept_event, Over, GwAt, GatewayInv, HandlerOK
<1>3. DeliveryInv'
  BY <1>1, <1>2, DropInv DEF GatewayInv
<1> DEFINE c == IF kind[k] = "rejected"
                THEN [pc |-> "respond", key |-> k, code |-> "invalid-request"]
                ELSE [pc |-> "get", key |-> k, code |-> "none"]
<1>4. /\ c \in HandlerState /\ c.pc \in {"respond", "get"} /\ c.key = k
      /\ c.code \in {"invalid-request", "none"} /\ (c.pc = "respond" => c.code # "none")
  BY DEF HandlerState
<1>5. gw \in [Deliverer -> HandlerState] /\ gw' = [gw EXCEPT ![h] = c]
  BY DEF accept_event, GatewayInv, GatewayTypeOK
<1> HIDE DEF c
<1>6. OnlyHandler(h) /\ gw'[h] = c
  BY <1>4, <1>5 DEF OnlyHandler
<1>7. dl \in [Deliverer -> Call]
  BY DEF GatewayInv, DeliveryInv, DeliveryTypeOK, Call
<1>8. dl'[h].pc = "idle" /\ \A g \in Deliverer : g # h => dl'[g] = dl[g]
  BY <1>1, <1>7 DEF NoCall
<1>9. ~Busy(h)'
  BY <1>4, <1>6 DEF Busy
<1>10. HandlerOK(h)'
  BY <1>1, <1>4, <1>6, <1>8, <1>9 DEF HandlerOK
<1>11. StoredOK' /\ \A j \in DeliveryId : EventOK(j)'
  BY <1>1 DEF GatewayInv, StoredOK, EventOK, HasTask
<1>12. request' \in [DeliveryId -> {"none", "reserved"} \cup Lasting]
  BY <1>1 DEF GatewayInv, GatewayTypeOK
<1> QED
  BY <1>1, <1>3, <1>6, <1>8, <1>9, <1>10, <1>11, <1>12, HandlerStep

\* The answer is handed to deliver under the id of the event.
LEMMA RespondInv ==
  ASSUME GatewayInv, NEW h \in Deliverer, respond(h)
  PROVE  GatewayInv'
<1>0. PICK k, c : k = gw[h].key /\ c = gw[h].code
  OBVIOUS
<1>1. /\ gw[h].pc = "respond" /\ deliver(h, k, c) /\ Goto(h, "deliver")
      /\ UNCHANGED <<receipt, posted, up, mishapVars, kind, request, stored>>
  BY <1>0 DEF respond, GwAt
<1>2. HandlerOK(h) /\ up /\ k \in DeliveryId /\ dl[h].pc = "idle"
  BY <1>0, <1>1 DEF GatewayInv, HandlerOK
<1>3. c \in Text
  <2>1. gw[h] \in HandlerState
    BY DEF GatewayInv, GatewayTypeOK
  <2>2. c # "none"
    BY <1>0, <1>1, <1>2 DEF HandlerOK
  <2> QED
    BY <1>0, <2>1, <2>2 DEF HandlerState
<1>4. DeliveryInv'
  BY <1>1, <1>2, <1>3, DeliverInv DEF GatewayInv
<1>5. OnlyHandler(h) /\ gw'[h].pc = "deliver" /\ gw'[h].key = k /\ gw'[h].code = c
  BY <1>0, <1>1, GotoMoves DEF GatewayInv
<1>6. dl \in [Deliverer -> Call]
  BY DEF GatewayInv, DeliveryInv, DeliveryTypeOK, Call
<1>7. /\ dl'[h] = [pc |-> "check", id |-> k, text |-> c, attempt |-> 1]
      /\ \A g \in Deliverer : g # h => dl'[g] = dl[g]
  BY <1>1, <1>6 DEF deliver
<1>8. ~Busy(h)'
  BY <1>5 DEF Busy
<1>9. (\A j : HasTask(j) => HasTask(j)') /\ (c = "accepted" => HasTask(k)) /\ c # "none"
  BY <1>0, <1>1, <1>2 DEF HasTask, HandlerOK
<1>10. HandlerOK(h)'
  BY <1>1, <1>2, <1>5, <1>7, <1>8, <1>9 DEF HandlerOK
<1>11. StoredOK' /\ \A j \in DeliveryId : EventOK(j)'
  BY <1>1 DEF GatewayInv, StoredOK, EventOK, HasTask
<1>12. request' \in [DeliveryId -> {"none", "reserved"} \cup Lasting]
  BY <1>1 DEF GatewayInv, GatewayTypeOK
<1> QED
  BY <1>1, <1>4, <1>5, <1>7, <1>8, <1>10, <1>11, <1>12, HandlerStep

\* What is new in an extended sequence is the appended element.
LEMMA AppendedElement ==
  ASSUME NEW S, NEW s \in Seq(S), NEW e, NEW i \in DOMAIN Append(s, e), i \notin DOMAIN s
  PROVE  Append(s, e)[i] = e
OBVIOUS

\* The elements of the sequence stay where they are.
LEMMA AppendedPrefix ==
  ASSUME NEW S, NEW s \in Seq(S), NEW e, NEW i \in DOMAIN s
  PROVE  Append(s, e)[i] = s[i]
OBVIOUS

\* A step of deliver posts what its handler was told.
LEMMA AnsweringInv ==
  ASSUME GatewayInv, NEW h \in Deliverer, DeliverStep(h), UNCHANGED gatewayVars
  PROVE  GatewayInv'
<1>0. PICK k, c : k = dl[h].id /\ c = dl[h].text
  OBVIOUS
<1>1. DeliveryInv'
  BY DeliverStepInv DEF GatewayInv
<1>2. /\ dl[h].pc # "idle" /\ OnlyMoves(h) /\ dl'[h].id = k /\ dl'[h].text = c
      /\ Post(h) \/ UNCHANGED posted
      /\ UNCHANGED up
  BY <1>0, DeliverStepFrame DEF GatewayInv
<1>3. kind' = kind /\ request' = request /\ stored' = stored /\ gw' = gw
  BY DEF gatewayVars
<1>4. /\ GatewayTypeOK /\ StoredOK /\ HandlerOK(h)
      /\ gw[h].pc = "deliver" /\ (c = "accepted" => HasTask(k))
  BY <1>0, <1>2 DEF GatewayInv, HandlerOK
<1>5. OnlyHandler(h) /\ (Busy(h)' <=> Busy(h)) /\ ~Busy(h)
  BY <1>3, <1>4 DEF OnlyHandler, Busy, GatewayTypeOK
<1>6. \A j : HasTask(j)' <=> HasTask(j)
  BY <1>3 DEF HasTask
<1>7. HandlerOK(h)'
  BY <1>2, <1>3, <1>4, <1>5, <1>6 DEF HandlerOK
<1>8. ASSUME NEW j \in DeliveryId PROVE EventOK(j)'
  <2>1. EventOK(j) /\ posted[j] \in Seq(Text)
    BY DEF GatewayInv, DeliveryInv, DeliveryTypeOK
  <2>2. ASSUME NEW i \in DOMAIN posted'[j], posted'[j][i] = "accepted"
        PROVE  HasTask(j)
    <3>1. CASE posted'[j] = posted[j]
      BY <2>1, <2>2, <3>1 DEF EventOK
    <3>2. CASE posted'[j] # posted[j]
      <4>1. j = k /\ posted'[j] = Append(posted[j], c)
        BY <1>0, <1>2, <2>1, <3>2 DEF Post, GatewayInv, DeliveryInv, DeliveryTypeOK
      <4>2. CASE i \in DOMAIN posted[j]
        BY <2>1, <2>2, <4>1, <4>2, AppendedPrefix DEF EventOK
      <4>3. CASE i \notin DOMAIN posted[j]
        BY <1>4, <2>1, <2>2, <4>1, <4>3, AppendedElement
      <4> QED
        BY <4>2, <4>3
    <3> QED
      BY <3>1, <3>2
  <2> QED
    BY <1>3, <1>6, <2>1, <2>2 DEF EventOK
<1>9. StoredOK'
  BY <1>3, <1>4 DEF StoredOK
<1>10. request' \in [DeliveryId -> {"none", "reserved"} \cup Lasting]
  BY <1>3, <1>4 DEF GatewayTypeOK
<1>11. \A g \in Deliverer : g # h => dl'[g] = dl[g]
  BY <1>2 DEF OnlyMoves
<1> QED
  BY <1>1, <1>2, <1>3, <1>5, <1>7, <1>8, <1>9, <1>10, <1>11, HandlerStep

-----------------------------------------------------------------------------
(* Crash and restart.                                                      *)

\* A crash ends the handlers; the reservations stay behind.
LEMMA CrashInv ==
  ASSUME GatewayInv, crash
  PROVE  GatewayInv'
<1>1. DeliveryInv'
  BY CallsLostInv DEF crash, GatewayInv
<1>2. /\ kind' = kind /\ request' = request /\ stored' = stored /\ posted' = posted
      /\ gw' = [h \in Deliverer |-> NoHandler] /\ dl' = [h \in Deliverer |-> NoCall]
  BY DEF crash, CallsLost
<1>3. GatewayTypeOK'
  BY <1>2 DEF GatewayInv, GatewayTypeOK, HandlerState, NoHandler
<1>4. ASSUME NEW h \in Deliverer PROVE HandlerOK(h)' /\ ~Busy(h)'
  BY <1>2 DEF HandlerOK, Busy, NoHandler, NoCall
<1>5. StoredOK' /\ \A k \in DeliveryId : EventOK(k)'
  BY <1>2 DEF GatewayInv, StoredOK, EventOK, HasTask
<1> QED
  BY <1>1, <1>3, <1>4, <1>5 DEF GatewayInv, OneDispatcher

\* The reconciliation drops reservations that no handler holds.
LEMMA InitializeInv ==
  ASSUME GatewayInv, initialize
  PROVE  GatewayInv'
<1>1. DeliveryInv'
  BY ReceiptsReconciledInv DEF initialize, GatewayInv
<1>2. /\ ~up /\ up' = TRUE /\ kind' = kind /\ stored' = stored /\ gw' = gw
      /\ posted' = posted /\ dl' = dl
      /\ request' = [k \in DeliveryId |->
                       IF request[k] = "reserved" THEN "none" ELSE request[k]]
  BY DEF initialize, ReceiptsReconciled, reconcile_incomplete_gateway_requests
<1>3. GatewayTypeOK'
  BY <1>2 DEF GatewayInv, GatewayTypeOK
<1>4. ASSUME NEW h \in Deliverer PROVE HandlerOK(h)' /\ ~Busy(h)'
  BY <1>2 DEF GatewayInv, HandlerOK, Busy, HasTask
<1>5. StoredOK' /\ \A k \in DeliveryId : EventOK(k)'
  BY <1>2 DEF GatewayInv, StoredOK, EventOK, HasTask, Refusal
<1> QED
  BY <1>1, <1>3, <1>4, <1>5 DEF GatewayInv, OneDispatcher

-----------------------------------------------------------------------------
(* The specification.                                                      *)

\* Every step of the gateway preserves the invariant.
LEMMA GatewayNextInv ==
  ASSUME GatewayInv, [Next]_vars
  PROVE  GatewayInv'
<1>1. CASE UNCHANGED vars
  <2>1. /\ UNCHANGED <<receipt, posted, dl, up>> /\ UNCHANGED mishapVars
        /\ UNCHANGED <<kind, request, stored, gw>>
    BY <1>1 DEF vars, deliveryVars, gatewayVars
  <2>2. DeliveryInv'
    BY <2>1, ElsewhereInv DEF GatewayInv
  <2> QED
    BY <2>1, <2>2
    DEF GatewayInv, GatewayTypeOK, HandlerOK, Busy, HasTask, EventOK, StoredOK, OneDispatcher
<1>2. CASE Next
  BY <1>2, AcceptEventInv, HandleInv, RespondInv, AnsweringInv, CrashInv, InitializeInv
  DEF Next, Answering
<1> QED
  BY <1>1, <1>2

\* However often Slack delivers an event, whichever of its handlers fails or is
\* cut off by a crash: an event makes at most one task, one handler carries it
\* out, what the user is told and what is remembered is true, and its answer is
\* delivered by the rules of Delivery.
THEOREM GatewaySafe ==
  Spec => [](/\ TypeInvariant /\ OneTaskPerEvent /\ OneDispatcher /\ AnswersAreTrue
             /\ OneSender /\ DeliveredWasPosted /\ CopiesArePaidFor)
<1>1. Init => GatewayInv
  BY GatewayInitInv
<1>2. GatewayInv /\ [Next]_vars => GatewayInv'
  BY GatewayNextInv
<1>3. GatewayInv => /\ TypeInvariant /\ OneTaskPerEvent /\ OneDispatcher /\ AnswersAreTrue
                    /\ OneSender /\ DeliveredWasPosted /\ CopiesArePaidFor
  BY GatewayInvImplies
<1> QED
  BY <1>1, <1>2, <1>3, PTL DEF Spec

\* A delivered answer is final for the gateway as well.
LEMMA GatewayNextFinal ==
  ASSUME GatewayInv, [Next]_vars
  PROVE  [FinalStep]_deliveryVars
<1>1. CASE UNCHANGED vars
  BY <1>1 DEF vars
<1>2. ASSUME NEW h \in Deliverer,
             \/ \E k \in DeliveryId : accept_event(h, k)
             \/ Handle(h)
             \/ handle_fault(h) /\ GatewayFrame
             \/ respond(h)
      PROVE  FinalStep
  BY <1>2 DEF accept_event, Handle, GatewayFrame, respond, FinalStep
<1>3. ASSUME NEW h \in Deliverer, DeliverStep(h)
      PROVE  FinalStep
  BY <1>3, DeliverStepFinal DEF GatewayInv
<1>4. CASE crash \/ initialize
  BY <1>4, RestartFinal DEF crash, initialize, GatewayInv
<1> QED
  BY <1>1, <1>2, <1>3, <1>4 DEF Next, Answering

\* Once an answer is delivered, no later delivery of the event posts another one.
THEOREM GatewayFinal == Spec => DeliveredIsFinal
<1>1. Init => GatewayInv
  BY GatewayInitInv
<1>2. GatewayInv /\ [Next]_vars => GatewayInv'
  BY GatewayNextInv
<1>3. GatewayInv /\ [Next]_vars
        => [\A d \in DeliveryId : receipt[d] = "delivered" =>
              receipt'[d] = "delivered" /\ posted'[d] = posted[d]]_deliveryVars
  BY GatewayNextFinal DEF FinalStep
<1> QED
  BY <1>1, <1>2, <1>3, PTL DEF Spec, DeliveredIsFinal
=============================================================================
