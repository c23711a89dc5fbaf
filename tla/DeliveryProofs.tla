---------------------------- MODULE DeliveryProofs ----------------------------
(***************************************************************************)
(* Proofs about Delivery, for every set of callers, ids and texts and for  *)
(* every number of attempts and mishaps.  The lemmas take one step of a    *)
(* delivery at a time, so that the modules that compose Delivery with its  *)
(* callers can use them.                                                   *)
(***************************************************************************)
EXTENDS Delivery, TLAPS

USE MaxAttemptsAssumption, MaxMishapsAssumption

-----------------------------------------------------------------------------
(* The inductive invariant.                                                *)

\* A call has an id and a text.
CallsNamed ==
    \A x \in Deliverer :
      dl[x].pc # "idle" => dl[x].id \in DeliveryId /\ dl[x].text \in Text

\* Who sends has the reservation.
SenderReserved ==
    \A x \in Deliverer : Sending(x) => receipt[dl[x].id] = "reserved"

\* What is about to be marked was posted.
MarkedWasPosted ==
    \A x \in Deliverer : DlAt(x, "mark") => posted[dl[x].id] # <<>>

\* The copy that no mishap pays for is the one that is delivered, or that a call
\* is about to mark.
FirstCopy(d) ==
    receipt[d] = "delivered" \/ \E x \in Deliverer : DlAt(x, "mark") /\ dl[x].id = d

CopiesCounted ==
    \A d \in DeliveryId :
      Len(posted[d]) <= IF FirstCopy(d) THEN 1 + Mishaps ELSE Mishaps

\* Without a process there are no calls.
DownIsIdle == ~up => \A x \in Deliverer : DlAt(x, "idle")

DeliveryInv ==
    /\ DeliveryTypeOK
    /\ CallsNamed
    /\ SenderReserved
    /\ OneSender
    /\ MarkedWasPosted
    /\ DeliveredWasPosted
    /\ CopiesCounted
    /\ DownIsIdle

\* The invariant implies the properties.
LEMMA DeliveryInvImplies == DeliveryInv => CopiesArePaidFor
BY DEF DeliveryInv, CopiesCounted, CopiesArePaidFor, DeliveryTypeOK, Mishaps

-----------------------------------------------------------------------------
(* One lemma per step.                                                     *)

\* Before the first call nothing has been sent.
LEMMA NothingSentInv ==
  ASSUME NothingSent, up \in BOOLEAN
  PROVE  DeliveryInv
<1>1. \A x \in Deliverer : dl[x].pc = "idle"
  BY DEF NothingSent, NoCall
<1>2. DeliveryTypeOK
  <2>1. posted \in [DeliveryId -> Seq(Text)]
    BY DEF NothingSent
  <2>2. dl \in [Deliverer -> [pc : DlPc, id : DeliveryId \cup {"none"},
                             text : Text \cup {"none"}, attempt : 0..MaxAttempts]]
    BY DEF NothingSent, NoCall, DlPc
  <2> QED
    BY <2>1, <2>2 DEF NothingSent, DeliveryTypeOK, Mishaps
<1>3. CopiesCounted
  BY <1>1 DEF NothingSent, CopiesCounted, Mishaps, FirstCopy, DlAt
<1> QED
  BY <1>1, <1>2, <1>3
  DEF NothingSent, DeliveryInv, CallsNamed, SenderReserved, OneSender, Sending,
      MarkedWasPosted, DeliveredWasPosted, DownIsIdle, DlAt

\* The state of a call.
Call == [pc : DlPc, id : DeliveryId \cup {"none"}, text : Text \cup {"none"},
         attempt : 0..MaxAttempts]

\* Only the call x moves.
OnlyMoves(x) ==
    /\ dl' \in [Deliverer -> Call]
    /\ \A y \in Deliverer : y # x => dl'[y] = dl[y]

\* Mishaps are counted, and bounded.
MishapsGrow ==
    /\ failed' \in Nat /\ crashed' \in Nat
    /\ Mishaps <= Mishaps' /\ Mishaps' <= MaxMishaps

\* What Step does to a call (the assignments to its place in deliver).
LEMMA StepMoves ==
  ASSUME DeliveryTypeOK, NEW x \in Deliverer, NEW p \in DlPc, Step(x, p)
  PROVE  /\ OnlyMoves(x)
         /\ dl'[x].pc = p /\ dl'[x].id = dl[x].id /\ dl'[x].text = dl[x].text
<1> DEFINE c == [dl[x] EXCEPT !.pc = p]
<1>1. dl \in [Deliverer -> Call]
  BY DEF DeliveryTypeOK, Call
<1>2. c \in Call /\ c.pc = p /\ c.id = dl[x].id /\ c.text = dl[x].text
  BY <1>1 DEF Call
<1>3. dl' = [dl EXCEPT ![x] = c]
  BY DEF Step
<1> QED
  BY <1>1, <1>2, <1>3 DEF OnlyMoves

\* What Retry does to a call.
LEMMA RetryMoves ==
  ASSUME DeliveryTypeOK, NEW x \in Deliverer, Retry(x)
  PROVE  /\ OnlyMoves(x)
         /\ dl'[x].pc = dl[x].pc /\ dl'[x].id = dl[x].id /\ dl'[x].text = dl[x].text
<1> DEFINE c == [dl[x] EXCEPT !.attempt = @ + 1]
<1>1. dl \in [Deliverer -> Call]
  BY DEF DeliveryTypeOK, Call
<1>2. dl[x].attempt \in 0..MaxAttempts /\ dl[x].attempt < MaxAttempts
  BY <1>1 DEF Call, Retry
<1>3. dl[x].attempt + 1 \in 0..MaxAttempts
  BY <1>2
<1>4. c \in Call /\ c.pc = dl[x].pc /\ c.id = dl[x].id /\ c.text = dl[x].text
  BY <1>1, <1>3 DEF Call
<1>5. dl' = [dl EXCEPT ![x] = c]
  BY DEF Retry
<1> QED
  BY <1>1, <1>4, <1>5 DEF OnlyMoves

\* The sum of two counts is a count.
LEMMA CountSum == \A m, n \in Nat : m + n \in Nat
OBVIOUS

\* No mishap, or one more (CallFails).
LEMMA MishapsCounted ==
  ASSUME DeliveryTypeOK, UNCHANGED mishapVars \/ CallFails \/ HubDies
  PROVE  /\ MishapsGrow
         /\ CallFails \/ HubDies => Mishaps' = Mishaps + 1
         /\ Mishaps \in Nat
BY DEF DeliveryTypeOK, mishapVars, CallFails, HubDies, MishapsGrow, Mishaps

\* A step of x that leaves the receipts and Slack alone preserves the invariant:
\* x neither starts to send nor gets to the mark, and if it gives up the mark
\* then because of a mishap.
LEMMA QuietStep ==
  ASSUME DeliveryInv, NEW x \in Deliverer, OnlyMoves(x), MishapsGrow,
         UNCHANGED <<receipt, posted, up>>,
         dl'[x].pc # "idle" =>
           up /\ dl'[x].id \in DeliveryId /\ dl'[x].text \in Text,
         Sending(x)' => Sending(x) /\ dl'[x].id = dl[x].id,
         DlAt(x, "mark")' => DlAt(x, "mark"),
         DlAt(x, "mark") => DlAt(x, "mark")' \/ Mishaps' = Mishaps + 1
  PROVE  DeliveryInv'
<1>1. DeliveryTypeOK'
  BY DEF DeliveryInv, DeliveryTypeOK, OnlyMoves, Call, MishapsGrow
<1>2. \A y \in Deliverer : Sending(y)' => Sending(y) /\ dl'[y].id = dl[y].id
  BY DEF OnlyMoves, Sending
<1>3. CallsNamed'
  BY DEF DeliveryInv, CallsNamed, OnlyMoves
<1>4. SenderReserved' /\ OneSender'
  BY <1>2 DEF DeliveryInv, SenderReserved, OneSender
<1>5. MarkedWasPosted'
  <2>1. \A y \in Deliverer : DlAt(y, "mark")' => DlAt(y, "mark") /\ dl'[y].id = dl[y].id
    BY <1>2 DEF OnlyMoves, DlAt, Sending
  <2> QED
    BY <2>1 DEF DeliveryInv, MarkedWasPosted
<1>6. CopiesCounted'
  <2> SUFFICES ASSUME NEW d \in DeliveryId
               PROVE  (Len(posted[d]) <= IF FirstCopy(d) THEN 1 + Mishaps ELSE Mishaps)'
    BY DEF CopiesCounted
  <2>0. posted' = posted /\ receipt' = receipt
    OBVIOUS
  <2>1. Len(posted[d]) \in Nat /\ Mishaps \in Nat /\ Mishaps' \in Nat
    <3>1. posted[d] \in Seq(Text)
      BY DEF DeliveryInv, DeliveryTypeOK
    <3>2. Mishaps \in Nat /\ Mishaps' \in Nat
      BY <1>1, CountSum DEF DeliveryInv, DeliveryTypeOK, Mishaps
    <3> QED
      BY <3>1, <3>2
  <2>2. Len(posted[d]) <= IF FirstCopy(d) THEN 1 + Mishaps ELSE Mishaps
    BY DEF DeliveryInv, CopiesCounted
  <2>3. FirstCopy(d) => FirstCopy(d)' \/ Mishaps' = Mishaps + 1
    <3>1. CASE DlAt(x, "mark") /\ ~DlAt(x, "mark")'
      BY <3>1
    <3>2. CASE DlAt(x, "mark") /\ DlAt(x, "mark")'
      <4>1. dl'[x].id = dl[x].id
        BY <3>2 DEF DlAt, Sending
      <4> QED
        BY <4>1, <3>2, <2>0 DEF FirstCopy, OnlyMoves, DlAt
    <3>3. CASE ~DlAt(x, "mark")
      BY <3>3, <2>0 DEF FirstCopy, OnlyMoves, DlAt
    <3> QED
      BY <3>1, <3>2, <3>3
  <2> QED
    BY <2>0, <2>1, <2>2, <2>3 DEF MishapsGrow
<1>7. DownIsIdle'
  BY DEF DeliveryInv, DownIsIdle, OnlyMoves, DlAt
<1>8. DeliveredWasPosted'
  BY DEF DeliveryInv, DeliveredWasPosted
<1> QED
  BY <1>1, <1>3, <1>4, <1>5, <1>6, <1>7, <1>8 DEF DeliveryInv

\* A call that is not idle is named, and the hub is up.
LEMMA CallIsLive ==
  ASSUME DeliveryInv, NEW x \in Deliverer, dl[x].pc # "idle"
  PROVE  up /\ dl[x].id \in DeliveryId /\ dl[x].text \in Text
BY DEF DeliveryInv, CallsNamed, DownIsIdle, DlAt

\* A new call of deliver, at a place that has none under way.
LEMMA DeliverInv ==
  ASSUME DeliveryInv, NEW x \in Deliverer, NEW d \in DeliveryId, NEW t \in Text,
         up, dl[x].pc \in Finished \cup {"idle"}, deliver(x, d, t),
         UNCHANGED <<receipt, posted, up, mishapVars>>
  PROVE  DeliveryInv'
<1>1. OnlyMoves(x) /\ dl'[x] = [pc |-> "check", id |-> d, text |-> t, attempt |-> 1]
  BY DEF DeliveryInv, DeliveryTypeOK, deliver, OnlyMoves, Call, DlPc
<1>2. MishapsGrow
  BY MishapsCounted DEF DeliveryInv
<1>3. ~DlAt(x, "mark") /\ ~DlAt(x, "mark")' /\ ~Sending(x)'
  BY <1>1 DEF DlAt, Sending, Finished
<1> QED
  BY <1>1, <1>2, <1>3, QuietStep

\* A finished call is dropped.
LEMMA DropInv ==
  ASSUME DeliveryInv, NEW x \in Deliverer,
         dl[x].pc \in Finished \cup {"idle"}, dl' = [dl EXCEPT ![x] = NoCall],
         UNCHANGED <<receipt, posted, up>>, UNCHANGED mishapVars \/ CallFails
  PROVE  DeliveryInv'
<1>1. OnlyMoves(x) /\ dl'[x].pc = "idle"
  BY DEF DeliveryInv, DeliveryTypeOK, OnlyMoves, Call, DlPc, NoCall
<1>2. MishapsGrow
  BY MishapsCounted DEF DeliveryInv
<1>3. ~DlAt(x, "mark") /\ ~DlAt(x, "mark")' /\ ~Sending(x)'
  BY <1>1 DEF DlAt, Sending, Finished
<1> QED
  BY <1>1, <1>2, <1>3, QuietStep

\* Nothing moves, or a call outside of deliver fails, or another process dies.
LEMMA ElsewhereInv ==
  ASSUME DeliveryInv, UNCHANGED <<receipt, posted, dl, up>>,
         UNCHANGED mishapVars \/ CallFails \/ HubDies
  PROVE  DeliveryInv'
<1>1. MishapsGrow /\ Mishaps \in Nat
  BY MishapsCounted DEF DeliveryInv
<1>2. Mishaps' \in Nat
  BY <1>1, CountSum DEF MishapsGrow, Mishaps
<1>3. DeliveryTypeOK'
  BY <1>1 DEF DeliveryInv, DeliveryTypeOK, MishapsGrow
<1>4. CopiesCounted'
  <2> SUFFICES ASSUME NEW d \in DeliveryId
               PROVE  (Len(posted[d]) <= IF FirstCopy(d) THEN 1 + Mishaps ELSE Mishaps)'
    BY DEF CopiesCounted
  <2>1. posted[d] \in Seq(Text)
    BY DEF DeliveryInv, DeliveryTypeOK
  <2>2. Len(posted[d]) \in Nat
    BY <2>1
  <2>3. FirstCopy(d)' <=> FirstCopy(d)
    BY DEF FirstCopy, DlAt
  <2>4. Len(posted[d]) <= IF FirstCopy(d) THEN 1 + Mishaps ELSE Mishaps
    BY DEF DeliveryInv, CopiesCounted
  <2> QED
    BY <1>1, <1>2, <2>2, <2>3, <2>4 DEF MishapsGrow
<1> QED
  BY <1>3, <1>4
  DEF DeliveryInv, CallsNamed, SenderReserved, OneSender, Sending, MarkedWasPosted,
      DeliveredWasPosted, DownIsIdle, DlAt

\* is_delivered only looks at the receipt.
LEMMA IsDeliveredInv ==
  ASSUME DeliveryInv, NEW x \in Deliverer, is_delivered(x)
  PROVE  DeliveryInv'
<1> DEFINE p == IF receipt[dl[x].id] = "delivered" THEN "duplicate" ELSE "reserve"
<1>1. p \in DlPc /\ p \notin {"mark", "send", "release"}
  BY DEF DlPc, Finished
<1>2. Step(x, p) /\ DlAt(x, "check") /\ UNCHANGED <<receipt, posted, up, mishapVars>>
  BY DEF is_delivered
<1> HIDE DEF p
<1>3. OnlyMoves(x) /\ dl'[x].pc = p /\ dl'[x].id = dl[x].id /\ dl'[x].text = dl[x].text
  BY <1>1, <1>2, StepMoves DEF DeliveryInv
<1>4. MishapsGrow
  BY <1>2, MishapsCounted DEF DeliveryInv
<1>5. up /\ dl[x].id \in DeliveryId /\ dl[x].text \in Text
  BY <1>2, CallIsLive DEF DlAt
<1>6. ~Sending(x)' /\ ~DlAt(x, "mark")' /\ ~DlAt(x, "mark")
  BY <1>1, <1>2, <1>3 DEF Sending, DlAt
<1> QED
  BY <1>2, <1>3, <1>4, <1>5, <1>6, QuietStep

\* A failing store call ends the call, or sends it from the mark to the release.
LEMMA ReceiptFaultInv ==
  ASSUME DeliveryInv, NEW x \in Deliverer, receipt_fault(x)
  PROVE  DeliveryInv'
<1> DEFINE p == IF DlAt(x, "mark") THEN "release" ELSE "failed"
<1>1. p \in DlPc /\ p # "mark" /\ p # "idle"
  BY DEF DlPc, Finished
<1>2. /\ Step(x, p) /\ dl[x].pc \in {"check", "reserve", "mark", "release"}
      /\ CallFails /\ UNCHANGED <<receipt, posted, up>>
  BY DEF receipt_fault
<1>3. p \in {"send", "mark", "release"} => Sending(x)
  BY DEF Sending, DlAt
<1> HIDE DEF p
<1>4. OnlyMoves(x) /\ dl'[x].pc = p /\ dl'[x].id = dl[x].id /\ dl'[x].text = dl[x].text
  BY <1>1, <1>2, StepMoves DEF DeliveryInv
<1>5. MishapsGrow /\ Mishaps' = Mishaps + 1
  BY <1>2, MishapsCounted DEF DeliveryInv
<1>6. up /\ dl[x].id \in DeliveryId /\ dl[x].text \in Text
  BY <1>2, CallIsLive
<1>7. (Sending(x)' => Sending(x)) /\ ~DlAt(x, "mark")'
  BY <1>1, <1>3, <1>4 DEF Sending, DlAt
<1> QED
  BY <1>2, <1>4, <1>5, <1>6, <1>7, QuietStep

\* The receipt of d changes, and only x moves; the counts of the other ids stay.
LEMMA OthersCounted ==
  ASSUME DeliveryInv, NEW x \in Deliverer, OnlyMoves(x), MishapsGrow,
         NEW d \in DeliveryId, d # dl[x].id, d # dl'[x].id,
         posted'[d] = posted[d], receipt'[d] = receipt[d]
  PROVE  (Len(posted[d]) <= IF FirstCopy(d) THEN 1 + Mishaps ELSE Mishaps)'
<1>1. posted[d] \in Seq(Text)
  BY DEF DeliveryInv, DeliveryTypeOK
<1>2. Len(posted[d]) \in Nat
  BY <1>1
<1>3. FirstCopy(d)' <=> FirstCopy(d)
  BY DEF FirstCopy, DlAt, OnlyMoves
<1>4. Len(posted[d]) <= IF FirstCopy(d) THEN 1 + Mishaps ELSE Mishaps
  BY DEF DeliveryInv, CopiesCounted
<1>5. Mishaps \in Nat /\ Mishaps' \in Nat
  BY CountSum DEF DeliveryInv, DeliveryTypeOK, MishapsGrow, Mishaps
<1> QED
  BY <1>2, <1>3, <1>4, <1>5 DEF MishapsGrow

\* reserve_delivery gives the reservation to one call.
LEMMA ReserveDeliveryInv ==
  ASSUME DeliveryInv, NEW x \in Deliverer, reserve_delivery(x)
  PROVE  DeliveryInv'
<1> USE DEF DeliveryInv
<1>1. up /\ dl[x].id \in DeliveryId /\ dl[x].text \in Text
  BY CallIsLive DEF reserve_delivery, DlAt
<1>2. MishapsGrow /\ Mishaps' = Mishaps
  BY MishapsCounted DEF reserve_delivery, mishapVars, Mishaps
<1>3. CASE receipt[dl[x].id] # "none"
  <2>1. Step(x, "in-progress") /\ DlAt(x, "reserve") /\ UNCHANGED <<receipt, posted, up>>
    BY <1>3 DEF reserve_delivery
  <2>2. /\ OnlyMoves(x)
        /\ dl'[x].pc = "in-progress" /\ dl'[x].id = dl[x].id /\ dl'[x].text = dl[x].text
    BY <2>1, StepMoves DEF DlPc, Finished
  <2>3. ~Sending(x)' /\ ~DlAt(x, "mark")' /\ ~DlAt(x, "mark")
    BY <2>1, <2>2 DEF Sending, DlAt
  <2> QED
    BY <1>1, <1>2, <2>1, <2>2, <2>3, QuietStep
<1>4. CASE receipt[dl[x].id] = "none"
  <2>1. /\ Step(x, "send") /\ DlAt(x, "reserve") /\ UNCHANGED <<posted, up>>
        /\ receipt' = [receipt EXCEPT ![dl[x].id] = "reserved"]
    BY <1>4 DEF reserve_delivery
  <2>2. /\ OnlyMoves(x)
        /\ dl'[x].pc = "send" /\ dl'[x].id = dl[x].id /\ dl'[x].text = dl[x].text
    BY <2>1, StepMoves DEF DlPc
  <2>3. /\ receipt' \in [DeliveryId -> {"none", "reserved", "delivered"}]
        /\ receipt'[dl[x].id] = "reserved"
        /\ \A d \in DeliveryId : d # dl[x].id => receipt'[d] = receipt[d]
    BY <1>1, <2>1 DEF DeliveryTypeOK
  <2>4. \A y \in Deliverer : Sending(y) => dl[y].id # dl[x].id
    BY <1>4 DEF SenderReserved
  <2>5. \A y \in Deliverer : y # x => (Sending(y)' <=> Sending(y))
    BY <2>2 DEF OnlyMoves, Sending
  <2>6. DeliveryTypeOK'
    BY <1>2, <2>1, <2>2, <2>3 DEF DeliveryTypeOK, OnlyMoves, Call, MishapsGrow
  <2>7. CallsNamed'
    BY <1>1, <2>2 DEF CallsNamed, OnlyMoves
  <2>8. SenderReserved'
    <3>1. \A y \in Deliverer : Sending(y) => dl[y].id \in DeliveryId
      BY DEF CallsNamed, Sending
    <3> QED
      BY <2>2, <2>3, <2>4, <2>5, <3>1 DEF SenderReserved, OnlyMoves
  <2>9. OneSender'
    BY <2>2, <2>4, <2>5 DEF OneSender, OnlyMoves
  <2>10. MarkedWasPosted'
    BY <2>1, <2>2 DEF MarkedWasPosted, OnlyMoves, DlAt
  <2>11. DeliveredWasPosted'
    BY <2>1, <2>3 DEF DeliveredWasPosted
  <2>12. CopiesCounted'
    <3> SUFFICES ASSUME NEW d \in DeliveryId
                 PROVE  (Len(posted[d]) <= IF FirstCopy(d) THEN 1 + Mishaps ELSE Mishaps)'
      BY DEF CopiesCounted
    <3>1. CASE d # dl[x].id
      BY <1>2, <2>1, <2>2, <2>3, <3>1, OthersCounted
    <3>2. CASE d = dl[x].id
      <4>1. ~FirstCopy(d)
        BY <1>4, <2>4, <3>2 DEF FirstCopy, DlAt, Sending
      <4>2. Len(posted[d]) <= Mishaps
        BY <4>1 DEF CopiesCounted
      <4>3. ~FirstCopy(d)'
        BY <2>2, <2>3, <4>1, <3>2 DEF FirstCopy, OnlyMoves, DlAt
      <4> QED
        BY <1>2, <2>1, <4>2, <4>3
    <3> QED
      BY <3>1, <3>2
  <2>13. DownIsIdle'
    BY <1>1, <2>1 DEF DownIsIdle
  <2> QED
    BY <2>6, <2>7, <2>8, <2>9, <2>10, <2>11, <2>12, <2>13
<1> QED
  BY <1>3, <1>4

\* One more copy of d is posted, if at all.
LEMMA PostAppends ==
  ASSUME DeliveryInv, NEW x \in Deliverer, dl[x].id \in DeliveryId, dl[x].text \in Text,
         Post(x)
  PROVE  /\ posted' \in [DeliveryId -> Seq(Text)]
         /\ posted'[dl[x].id] # <<>>
         /\ Len(posted'[dl[x].id]) = Len(posted[dl[x].id]) + 1
         /\ \A d \in DeliveryId : d # dl[x].id => posted'[d] = posted[d]
<1> DEFINE q == posted[dl[x].id]
           r == Append(q, dl[x].text)
<1>1. posted \in [DeliveryId -> Seq(Text)]
  BY DEF DeliveryInv, DeliveryTypeOK
<1>2. q \in Seq(Text)
  BY <1>1
<1>3. posted' = [posted EXCEPT ![dl[x].id] = r]
  BY DEF Post
<1> HIDE DEF q
<1>4. r \in Seq(Text) /\ Len(r) = Len(q) + 1 /\ r # <<>>
  BY <1>2
<1> HIDE DEF r
<1>5. posted' \in [DeliveryId -> Seq(Text)]
  BY <1>1, <1>3, <1>4
<1>6. posted'[dl[x].id] = r /\ \A d \in DeliveryId : d # dl[x].id => posted'[d] = posted[d]
  BY <1>1, <1>3
<1> QED
  BY <1>4, <1>5, <1>6 DEF q

\* The sender posts its message, or not, and goes on sending, to the mark or to
\* the release: a copy is new only at the mark, or with a mishap.
LEMMA SenderStep ==
  ASSUME DeliveryInv, NEW x \in Deliverer, DlAt(x, "send"), OnlyMoves(x), MishapsGrow,
         Post(x) \/ UNCHANGED posted, UNCHANGED <<receipt, up>>,
         Sending(x)', dl'[x].id = dl[x].id, dl'[x].text = dl[x].text,
         DlAt(x, "mark")' => Post(x),
         DlAt(x, "mark")' \/ Mishaps' = Mishaps + 1
  PROVE  DeliveryInv'
<1> USE DEF DeliveryInv
<1> DEFINE i == dl[x].id
<1>1. up /\ i \in DeliveryId /\ dl[x].text \in Text
  BY CallIsLive DEF DlAt
<1>2. receipt[i] = "reserved"
  BY DEF SenderReserved, Sending, DlAt
<1>3. \A y \in Deliverer : Sending(y)' => Sending(y) /\ dl'[y].id = dl[y].id
  BY DEF OnlyMoves, Sending, DlAt
<1>4. posted[i] \in Seq(Text) /\ Len(posted[i]) \in Nat
  <2>1. posted[i] \in Seq(Text)
    BY <1>1 DEF DeliveryTypeOK
  <2> QED
    BY <2>1
<1>5. /\ posted' \in [DeliveryId -> Seq(Text)]
      /\ Post(x) => posted'[i] # <<>>
      /\ Len(posted'[i]) <= Len(posted[i]) + 1
      /\ \A d \in DeliveryId : d # i => posted'[d] = posted[d]
  <2>1. CASE Post(x)
    BY <1>1, <1>4, <2>1, PostAppends
  <2>2. CASE UNCHANGED posted /\ ~Post(x)
    BY <1>4, <2>2 DEF DeliveryTypeOK
  <2> QED
    BY <2>1, <2>2
<1>6. \A y \in Deliverer : y # x /\ Sending(y) => dl[y].id # i
  BY DEF OneSender, Sending, DlAt
<1>7. DeliveryTypeOK'
  BY <1>5 DEF DeliveryTypeOK, OnlyMoves, Call, MishapsGrow
<1>8. CallsNamed'
  BY <1>1 DEF CallsNamed, OnlyMoves
<1>9. SenderReserved' /\ OneSender'
  BY <1>3 DEF SenderReserved, OneSender
<1>10. MarkedWasPosted'
  <2>1. \A y \in Deliverer : y # x /\ DlAt(y, "mark") => dl[y].id # i /\ dl[y].id \in DeliveryId
    BY <1>6 DEF DlAt, Sending, CallsNamed
  <2>2. DlAt(x, "mark")' => posted'[dl'[x].id] # <<>>
    BY <1>5
  <2>3. ASSUME NEW y \in Deliverer, y # x, DlAt(y, "mark")'
        PROVE  posted'[dl'[y].id] # <<>>
    BY <1>5, <2>1, <2>3 DEF MarkedWasPosted, OnlyMoves, DlAt
  <2> QED
    BY <2>2, <2>3 DEF MarkedWasPosted
<1>11. DeliveredWasPosted'
  BY <1>2, <1>5 DEF DeliveredWasPosted
<1>12. CopiesCounted'
  <2> SUFFICES ASSUME NEW d \in DeliveryId
               PROVE  (Len(posted[d]) <= IF FirstCopy(d) THEN 1 + Mishaps ELSE Mishaps)'
    BY DEF CopiesCounted
  <2>1. CASE d # i
    BY <1>5, <2>1, OthersCounted
  <2>2. CASE d = i
    <3>1. ~FirstCopy(i)
      BY <1>2, <1>6 DEF FirstCopy, DlAt, Sending
    <3>2. Len(posted[i]) <= Mishaps
      BY <1>1, <3>1 DEF CopiesCounted
    <3>3. Mishaps \in Nat /\ Mishaps' \in Nat
      BY CountSum DEF DeliveryTypeOK, MishapsGrow, Mishaps
    <3>4. Len(posted'[i]) \in Nat
      BY <1>1, <1>5
    <3>5. CASE DlAt(x, "mark")'
      <4>1. FirstCopy(i)'
        BY <3>5 DEF FirstCopy
      <4> QED
        BY <1>4, <1>5, <2>2, <3>2, <3>3, <3>4, <4>1 DEF MishapsGrow
    <3>6. CASE Mishaps' = Mishaps + 1
      BY <1>4, <1>5, <2>2, <3>2, <3>3, <3>4, <3>6
    <3> QED
      BY <3>5, <3>6
  <2> QED
    BY <2>1, <2>2
<1>13. DownIsIdle'
  BY <1>1 DEF DownIsIdle
<1> QED
  BY <1>7, <1>8, <1>9, <1>10, <1>11, <1>12, <1>13

\* A send that succeeds.
LEMMA SendOkInv ==
  ASSUME DeliveryInv, NEW x \in Deliverer, send_ok(x)
  PROVE  DeliveryInv'
<1>1. /\ DlAt(x, "send") /\ Post(x) /\ Step(x, "mark")
      /\ UNCHANGED <<receipt, up, mishapVars>>
  BY DEF send_ok
<1>2. OnlyMoves(x) /\ dl'[x].pc = "mark" /\ dl'[x].id = dl[x].id /\ dl'[x].text = dl[x].text
  BY <1>1, StepMoves DEF DeliveryInv, DlPc
<1>3. MishapsGrow
  BY <1>1, MishapsCounted DEF DeliveryInv
<1>4. Sending(x)' /\ DlAt(x, "mark")'
  BY <1>2 DEF Sending, DlAt
<1> QED
  BY <1>1, <1>2, <1>3, <1>4, SenderStep

\* A send that reports an error, for a message that was posted or not.
LEMMA SendErrorInv ==
  ASSUME DeliveryInv, NEW x \in Deliverer, send_error(x)
  PROVE  DeliveryInv'
<1>1. /\ DlAt(x, "send") /\ CallFails
      /\ Post(x) \/ UNCHANGED posted
      /\ Retry(x) \/ Step(x, "release")
      /\ UNCHANGED <<receipt, up>>
  BY DEF send_error
<1>2. /\ OnlyMoves(x) /\ dl'[x].pc \in {"send", "release"}
      /\ dl'[x].id = dl[x].id /\ dl'[x].text = dl[x].text
  <2>1. CASE Step(x, "release")
    BY <2>1, StepMoves DEF DeliveryInv, DlPc
  <2>2. CASE Retry(x)
    BY <1>1, <2>2, RetryMoves DEF DeliveryInv, DlAt
  <2> QED
    BY <1>1, <2>1, <2>2
<1>3. MishapsGrow /\ Mishaps' = Mishaps + 1
  BY <1>1, MishapsCounted DEF DeliveryInv
<1>4. Sending(x)' /\ ~DlAt(x, "mark")'
  BY <1>2 DEF Sending, DlAt
<1> QED
  BY <1>1, <1>2, <1>3, <1>4, SenderStep

\* The sender gives its reservation up: for a delivered receipt at the mark, for
\* none at the release.
LEMMA SenderEnds ==
  ASSUME DeliveryInv, NEW x \in Deliverer, Sending(x), NEW r \in {"none", "delivered"},
         NEW p \in Finished, Step(x, p), receipt' = [receipt EXCEPT ![dl[x].id] = r],
         UNCHANGED <<posted, up, mishapVars>>,
         DlAt(x, "mark") <=> r = "delivered"
  PROVE  DeliveryInv'
<1> USE DEF DeliveryInv
<1> DEFINE i == dl[x].id
<1>1. up /\ i \in DeliveryId /\ dl[x].text \in Text
  BY CallIsLive DEF Sending
<1>2. OnlyMoves(x) /\ dl'[x].pc = p /\ dl'[x].id = i /\ dl'[x].text = dl[x].text
  BY StepMoves DEF DlPc
<1>3. /\ receipt' \in [DeliveryId -> {"none", "reserved", "delivered"}]
      /\ receipt'[i] = r
      /\ \A d \in DeliveryId : d # i => receipt'[d] = receipt[d]
  BY <1>1 DEF DeliveryTypeOK
<1>4. MishapsGrow /\ Mishaps' = Mishaps
  BY MishapsCounted DEF mishapVars, Mishaps
<1>5. \A y \in Deliverer : Sending(y)' => y # x /\ Sending(y) /\ dl'[y] = dl[y] /\ dl[y].id # i
  <2>1. ~Sending(x)'
    BY <1>2 DEF Sending, Finished
  <2> QED
    BY <1>2, <2>1 DEF OnlyMoves, OneSender, Sending
<1>6. DeliveryTypeOK'
  BY <1>2, <1>3, <1>4 DEF DeliveryTypeOK, OnlyMoves, Call, MishapsGrow
<1>7. CallsNamed'
  BY <1>1, <1>2 DEF CallsNamed, OnlyMoves
<1>8. SenderReserved' /\ OneSender'
  <2>1. \A y \in Deliverer : Sending(y) => dl[y].id \in DeliveryId
    BY DEF CallsNamed, Sending
  <2> QED
    BY <1>3, <1>5, <2>1 DEF SenderReserved, OneSender
<1>9. MarkedWasPosted'
  <2>1. \A y \in Deliverer : DlAt(y, "mark")' => DlAt(y, "mark") /\ dl'[y] = dl[y]
    BY <1>5 DEF DlAt, Sending
  <2> QED
    BY <2>1 DEF MarkedWasPosted
<1>10. DeliveredWasPosted'
  BY <1>3 DEF DeliveredWasPosted, MarkedWasPosted
<1>11. CopiesCounted'
  <2> SUFFICES ASSUME NEW d \in DeliveryId
               PROVE  (Len(posted[d]) <= IF FirstCopy(d) THEN 1 + Mishaps ELSE Mishaps)'
    BY DEF CopiesCounted
  <2>1. CASE d # i
    BY <1>2, <1>3, <1>4, <2>1, OthersCounted
  <2>2. CASE d = i
    <3>1. Len(posted[d]) <= IF FirstCopy(d) THEN 1 + Mishaps ELSE Mishaps
      BY DEF CopiesCounted
    <3>2. receipt[d] = "reserved"
      BY <2>2 DEF SenderReserved
    <3>3. CASE r = "delivered"
      <4>1. FirstCopy(d) /\ FirstCopy(d)'
        BY <1>3, <2>2, <3>3 DEF FirstCopy
      <4> QED
        BY <1>4, <3>1, <4>1
    <3>4. CASE r = "none"
      <4>1. ~FirstCopy(d)
        BY <2>2, <3>2, <3>4 DEF FirstCopy, OneSender, Sending, DlAt
      <4>2. ~FirstCopy(d)'
        BY <1>3, <1>5, <2>2, <3>4 DEF FirstCopy, Sending, DlAt
      <4> QED
        BY <1>4, <3>1, <4>1, <4>2
    <3> QED
      BY <3>3, <3>4
  <2> QED
    BY <2>1, <2>2
<1>12. DownIsIdle'
  BY <1>1 DEF DownIsIdle
<1> QED
  BY <1>6, <1>7, <1>8, <1>9, <1>10, <1>11, <1>12

\* mark_delivery_delivered finds the reservation of its own call.
LEMMA MarkDeliveredInv ==
  ASSUME DeliveryInv, NEW x \in Deliverer, mark_delivered(x)
  PROVE  DeliveryInv'
<1>1. Sending(x) /\ DlAt(x, "mark")
  BY DEF mark_delivered, Sending, DlAt
<1>2. receipt[dl[x].id] = "reserved"
  BY <1>1 DEF DeliveryInv, SenderReserved
<1>3. /\ receipt' = [receipt EXCEPT ![dl[x].id] = "delivered"] /\ Step(x, "sent")
      /\ UNCHANGED <<posted, up, mishapVars>>
  BY <1>2 DEF mark_delivered
<1> QED
  BY <1>1, <1>3, SenderEnds DEF Finished

\* release_delivery drops the reservation of its own call.
LEMMA ReleaseDeliveryInv ==
  ASSUME DeliveryInv, NEW x \in Deliverer, release_delivery(x)
  PROVE  DeliveryInv'
<1>1. Sending(x) /\ ~DlAt(x, "mark")
  BY DEF release_delivery, Sending, DlAt
<1>2. receipt[dl[x].id] = "reserved"
  BY <1>1 DEF DeliveryInv, SenderReserved
<1>3. /\ receipt' = [receipt EXCEPT ![dl[x].id] = "none"] /\ Step(x, "failed")
      /\ UNCHANGED <<posted, up, mishapVars>>
  BY <1>2 DEF release_delivery
<1> QED
  BY <1>1, <1>3, SenderEnds DEF Finished

\* Every step of a call preserves the invariant.
LEMMA DeliverStepInv ==
  ASSUME DeliveryInv, NEW x \in Deliverer, DeliverStep(x)
  PROVE  DeliveryInv'
BY IsDeliveredInv, ReserveDeliveryInv, SendOkInv, SendErrorInv, MarkDeliveredInv,
   ReleaseDeliveryInv, ReceiptFaultInv DEF DeliverStep

\* A step of a call moves that call alone, which keeps its id and its text, and
\* posts that text or nothing.
LEMMA DeliverStepFrame ==
  ASSUME DeliveryInv, NEW x \in Deliverer, DeliverStep(x)
  PROVE  /\ dl[x].pc # "idle"
         /\ OnlyMoves(x) /\ dl'[x].id = dl[x].id /\ dl'[x].text = dl[x].text
         /\ Post(x) \/ UNCHANGED posted
         /\ UNCHANGED up
<1>1. /\ dl[x].pc # "idle"
      /\ Post(x) \/ UNCHANGED posted
      /\ UNCHANGED up
      /\ Retry(x) \/ \E p \in DlPc : Step(x, p)
  <2>1. CASE is_delivered(x)
    BY <2>1 DEF is_delivered, DlAt, DlPc, Finished
  <2>2. CASE reserve_delivery(x)
    BY <2>2 DEF reserve_delivery, DlAt, DlPc, Finished
  <2>3. CASE send_ok(x) \/ send_error(x)
    BY <2>3 DEF send_ok, send_error, DlAt, DlPc
  <2>4. CASE mark_delivered(x)
    BY <2>4 DEF mark_delivered, DlAt, DlPc, Finished
  <2>5. CASE release_delivery(x) \/ receipt_fault(x)
    BY <2>5 DEF release_delivery, receipt_fault, DlAt, DlPc, Finished
  <2> QED
    BY <2>1, <2>2, <2>3, <2>4, <2>5 DEF DeliverStep
<1> QED
  BY <1>1, StepMoves, RetryMoves DEF DeliveryInv

-----------------------------------------------------------------------------
(* Crash and restart.                                                      *)

\* The end of the process ends the calls, and is the mishap that pays for the copy
\* they posted; reservations may be released with it.
LEMMA CallsGoneInv ==
  ASSUME DeliveryInv, HubDies, up' = FALSE, posted' = posted,
         dl' = [x \in Deliverer |-> NoCall],
         receipt' \in [DeliveryId -> {"none", "reserved", "delivered"}],
         \A d \in DeliveryId : receipt'[d] = "delivered" <=> receipt[d] = "delivered"
  PROVE  DeliveryInv'
<1> USE DEF DeliveryInv
<1>1. MishapsGrow /\ Mishaps' = Mishaps + 1 /\ Mishaps \in Nat
  BY MishapsCounted
<1>2. dl' \in [Deliverer -> Call] /\ \A x \in Deliverer : dl'[x].pc = "idle"
  BY DEF NoCall, Call, DlPc
<1>3. DeliveryTypeOK'
  BY <1>1, <1>2 DEF DeliveryTypeOK, Call, MishapsGrow
<1>4. CopiesCounted'
  <2> SUFFICES ASSUME NEW d \in DeliveryId
               PROVE  (Len(posted[d]) <= IF FirstCopy(d) THEN 1 + Mishaps ELSE Mishaps)'
    BY DEF CopiesCounted
  <2>1. posted[d] \in Seq(Text)
    BY DEF DeliveryTypeOK
  <2>2. Len(posted[d]) \in Nat
    BY <2>1
  <2>3. Len(posted[d]) <= IF FirstCopy(d) THEN 1 + Mishaps ELSE Mishaps
    BY DEF CopiesCounted
  <2> QED
    BY <1>1, <2>1, <2>2, <2>3
<1> QED
  BY <1>2, <1>3, <1>4
  DEF CallsNamed, SenderReserved, OneSender, Sending, MarkedWasPosted,
      DeliveredWasPosted, DownIsIdle, DlAt

\* A crash leaves the table alone.
LEMMA CallsLostInv ==
  ASSUME DeliveryInv, CallsLost
  PROVE  DeliveryInv'
BY CallsGoneInv DEF CallsLost, DeliveryInv, DeliveryTypeOK

\* The reconciliation drops reservations that no call holds.
LEMMA ReceiptsReconciledInv ==
  ASSUME DeliveryInv, ReceiptsReconciled
  PROVE  DeliveryInv'
<1> USE DEF DeliveryInv
<1>1. \A x \in Deliverer : dl[x].pc = "idle"
  BY DEF ReceiptsReconciled, DownIsIdle, DlAt
<1>2. /\ receipt' \in [DeliveryId -> {"none", "reserved", "delivered"}]
      /\ \A d \in DeliveryId : receipt'[d] = "delivered" <=> receipt[d] = "delivered"
  BY DEF ReceiptsReconciled, reconcile_reserved_deliveries, DeliveryTypeOK
<1>3. posted' = posted /\ dl' = dl /\ up' = TRUE /\ failed' = failed /\ crashed' = crashed
  BY DEF ReceiptsReconciled, mishapVars
<1>4. DeliveryTypeOK'
  BY <1>2, <1>3 DEF DeliveryTypeOK, Mishaps
<1>5. \A d \in DeliveryId : FirstCopy(d)' <=> FirstCopy(d)
  BY <1>2, <1>3 DEF FirstCopy, DlAt
<1>6. CopiesCounted'
  BY <1>3, <1>5 DEF CopiesCounted, Mishaps
<1> QED
  BY <1>1, <1>2, <1>3, <1>4, <1>6
  DEF CallsNamed, SenderReserved, OneSender, Sending, MarkedWasPosted,
      DeliveredWasPosted, DownIsIdle, DlAt

-----------------------------------------------------------------------------
(* The action property, step by step.                                      *)

\* What DeliveredIsFinal says of one step.
FinalStep ==
    \A d \in DeliveryId : receipt[d] = "delivered" =>
      receipt'[d] = "delivered" /\ posted'[d] = posted[d]

\* A sender holds a reservation, so it leaves a delivered id alone.
LEMMA DeliverStepFinal ==
  ASSUME DeliveryInv, NEW x \in Deliverer, DeliverStep(x)
  PROVE  FinalStep
<1>1. receipt \in [DeliveryId -> {"none", "reserved", "delivered"}]
      /\ posted \in [DeliveryId -> Seq(Text)]
  BY DEF DeliveryInv, DeliveryTypeOK
<1>2. Sending(x) => receipt[dl[x].id] = "reserved"
  BY DEF DeliveryInv, SenderReserved
<1>3. CASE is_delivered(x) \/ receipt_fault(x)
  BY <1>3 DEF is_delivered, receipt_fault, FinalStep
<1>4. CASE reserve_delivery(x)
  BY <1>1, <1>4 DEF reserve_delivery, FinalStep
<1>5. CASE send_ok(x) \/ send_error(x)
  BY <1>1, <1>2, <1>5 DEF send_ok, send_error, Post, FinalStep, Sending, DlAt
<1>6. CASE mark_delivered(x)
  BY <1>1, <1>2, <1>6 DEF mark_delivered, FinalStep, Sending, DlAt
<1>7. CASE release_delivery(x)
  BY <1>1, <1>2, <1>7 DEF release_delivery, FinalStep, Sending, DlAt
<1> QED
  BY <1>3, <1>4, <1>5, <1>6, <1>7 DEF DeliverStep

\* A restart keeps the delivered receipts.
LEMMA RestartFinal ==
  ASSUME DeliveryInv, CallsLost \/ ReceiptsReconciled
  PROVE  FinalStep
BY DEF DeliveryInv, DeliveryTypeOK, CallsLost, ReceiptsReconciled,
       reconcile_reserved_deliveries, FinalStep

-----------------------------------------------------------------------------
(* Delivery on its own: callers that call at any time.                     *)

\* Every step of DeliveryNext preserves the invariant and is final.
LEMMA DeliveryNextInv ==
  ASSUME DeliveryInv, [DeliveryNext]_deliveryVars
  PROVE  DeliveryInv' /\ FinalStep
<1>1. CASE UNCHANGED deliveryVars
  <2>1. UNCHANGED <<receipt, posted, dl, up>> /\ UNCHANGED mishapVars
    BY <1>1 DEF deliveryVars
  <2> QED
    BY <2>1, ElsewhereInv DEF FinalStep
<1>2. ASSUME NEW x \in Deliverer, up, dl[x].pc \in Finished \cup {"idle"},
             NEW d \in DeliveryId, NEW t \in Text, deliver(x, d, t),
             UNCHANGED <<receipt, posted, up, mishapVars>>
      PROVE  DeliveryInv' /\ FinalStep
  BY <1>2, DeliverInv DEF FinalStep
<1>3. ASSUME NEW x \in Deliverer, DeliverStep(x)
      PROVE  DeliveryInv' /\ FinalStep
  BY <1>3, DeliverStepInv, DeliverStepFinal
<1>4. CASE CallsLost \/ ReceiptsReconciled
  BY <1>4, CallsLostInv, ReceiptsReconciledInv, RestartFinal
<1> QED
  BY <1>1, <1>2, <1>3, <1>4 DEF DeliveryNext

\* RetryingSlackDelivery over the receipts of SQLiteStore, for callers that call
\* at any time: one call sends a message at a time, a delivered receipt stands
\* for a posted message, and every copy but one is paid for by a mishap.
THEOREM DeliverySafe ==
  DeliverySpec => [](DeliveryTypeOK /\ OneSender /\ DeliveredWasPosted /\ CopiesArePaidFor)
<1>1. DeliveryInit => DeliveryInv
  BY NothingSentInv DEF DeliveryInit
<1>2. DeliveryInv /\ [DeliveryNext]_deliveryVars => DeliveryInv'
  BY DeliveryNextInv
<1>3. DeliveryInv => DeliveryTypeOK /\ OneSender /\ DeliveredWasPosted /\ CopiesArePaidFor
  BY DeliveryInvImplies DEF DeliveryInv
<1> QED
  BY <1>1, <1>2, <1>3, PTL DEF DeliverySpec

\* Once a receipt is delivered nothing is posted under its id again, and it stays
\* delivered over every restart.
THEOREM DeliveryFinal == DeliverySpec => DeliveredIsFinal
<1>1. DeliveryInit => DeliveryInv
  BY NothingSentInv DEF DeliveryInit
<1>2. DeliveryInv /\ [DeliveryNext]_deliveryVars => DeliveryInv'
  BY DeliveryNextInv
<1>3. DeliveryInv /\ [DeliveryNext]_deliveryVars
        => [\A d \in DeliveryId : receipt[d] = "delivered" =>
              receipt'[d] = "delivered" /\ posted'[d] = posted[d]]_deliveryVars
  BY DeliveryNextInv DEF FinalStep
<1> QED
  BY <1>1, <1>2, <1>3, PTL DEF DeliverySpec, DeliveredIsFinal
=============================================================================
