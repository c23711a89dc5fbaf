------------------------------- MODULE Delivery -------------------------------
(***************************************************************************)
(* Delivery of messages to Slack: RetryingSlackDelivery                    *)
(* (integrations/slack.py) over the delivery_receipts table of SQLiteStore *)
(* (storage/sqlite.py).                                                    *)
(*                                                                         *)
(* A deliverer is one call of deliver: it tests the receipt, reserves it,  *)
(* sends with a bounded number of attempts and marks the receipt; any      *)
(* exception releases the reservation.  Slack is external: a send posts    *)
(* the message or not, and reports success or an error, and the error may  *)
(* be reported for a message that was posted.                              *)
(***************************************************************************)
EXTENDS Integers, FiniteSets, Sequences

CONSTANTS Deliverer,     \* concurrent calls of deliver
          DeliveryId,    \* delivery ids, stable over retries and restarts
          Text,          \* message texts
          MaxAttempts,   \* max_attempts
          MaxMishaps     \* bound: failed sends and store calls, crashes

ASSUME MaxAttemptsAssumption == MaxAttempts \in Nat \ {0}
ASSUME MaxMishapsAssumption == MaxMishaps \in Nat

VARIABLES receipt,   \* receipt[d]: none, reserved or delivered
          posted,    \* posted[d]: the texts Slack has posted for d, in order
          dl,        \* dl[x]: state of each deliver call
          up,        \* is the hub running?
          failed,    \* how many sends and store calls have failed
          crashed    \* how often the hub has crashed

mishapVars   == <<failed, crashed>>
deliveryVars == <<receipt, posted, dl, up, mishapVars>>

\* What has gone wrong so far.
Mishaps == failed + crashed

NoCall == [pc |-> "idle", id |-> "none", text |-> "none", attempt |-> 0]

NothingSent ==
    /\ receipt = [d \in DeliveryId |-> "none"]
    /\ posted = [d \in DeliveryId |-> <<>>]
    /\ dl = [x \in Deliverer |-> NoCall]
    /\ failed = 0 /\ crashed = 0

DeliveryInit == NothingSent /\ up = TRUE

DlAt(x, pc) == dl[x].pc = pc

Step(x, pc) == dl' = [dl EXCEPT ![x].pc = pc]

\* One more thing goes wrong: a call raises, or the hub dies.
CallFails == Mishaps < MaxMishaps /\ failed' = failed + 1 /\ UNCHANGED crashed
HubDies   == Mishaps < MaxMishaps /\ crashed' = crashed + 1 /\ UNCHANGED failed

-----------------------------------------------------------------------------
(* deliver.                                                                *)

\* A new call of deliver.
deliver(x, d, text) ==
    dl' = [dl EXCEPT ![x] = [pc |-> "check", id |-> d, text |-> text, attempt |-> 1]]

\* is_delivered: DeliveryOutcome.DUPLICATE ends the call.
is_delivered(x) ==
    /\ DlAt(x, "check")
    /\ Step(x, IF receipt[dl[x].id] = "delivered" THEN "duplicate" ELSE "reserve")
    /\ UNCHANGED <<receipt, posted, up, mishapVars>>

\* Mutant of reserve_delivery: an existing reservation is taken over.
reserve_delivery_Shared(x) ==
    /\ DlAt(x, "reserve")
    /\ receipt' = [receipt EXCEPT ![dl[x].id] = "reserved"]
    /\ Step(x, "send")
    /\ UNCHANGED <<posted, up, mishapVars>>

\* Mutant of reserve_delivery: only a reservation counts, not a delivery.
reserve_delivery_Again(x) ==
    /\ DlAt(x, "reserve")
    /\ IF receipt[dl[x].id] # "reserved"
       THEN /\ receipt' = [receipt EXCEPT ![dl[x].id] = "reserved"]
            /\ Step(x, "send")
       ELSE /\ Step(x, "in-progress")
            /\ UNCHANGED receipt
    /\ UNCHANGED <<posted, up, mishapVars>>

\* reserve_delivery inserts unless there is a receipt already (IN_PROGRESS).
reserve_delivery(x) ==
    /\ DlAt(x, "reserve")
    /\ IF receipt[dl[x].id] = "none"
       THEN /\ receipt' = [receipt EXCEPT ![dl[x].id] = "reserved"]
            /\ Step(x, "send")
       ELSE /\ Step(x, "in-progress")
            /\ UNCHANGED receipt
    /\ UNCHANGED <<posted, up, mishapVars>>

Post(x) == posted' = [posted EXCEPT ![dl[x].id] = Append(@, dl[x].text)]

send_ok(x) ==
    /\ DlAt(x, "send")
    /\ Post(x)
    /\ Step(x, "mark")
    /\ UNCHANGED <<receipt, up, mishapVars>>

\* Sleep and try again: not after the last attempt.
Retry(x) ==
    /\ dl[x].attempt < MaxAttempts
    /\ dl' = [dl EXCEPT ![x].attempt = @ + 1]

\* An error is reported, for a message that was posted or not: retried, or, if
\* it is permanent or the attempts are used up, raised as SlackDeliveryFailed.
send_error(x) ==
    /\ DlAt(x, "send")
    /\ CallFails
    /\ Post(x) \/ UNCHANGED posted
    /\ Retry(x) \/ Step(x, "release")
    /\ UNCHANGED <<receipt, up>>

\* mark_delivery_delivered needs the reservation; without it it raises.
mark_delivered(x) ==
    /\ DlAt(x, "mark")
    /\ IF receipt[dl[x].id] = "none"
       THEN Step(x, "release") /\ UNCHANGED receipt
       ELSE /\ receipt' = [receipt EXCEPT ![dl[x].id] = "delivered"]
            /\ Step(x, "sent")
    /\ UNCHANGED <<posted, up, mishapVars>>

\* Mutant of release_delivery: a failed delivery is closed for good.
release_delivery_Close(x) ==
    /\ DlAt(x, "release")
    /\ receipt' = [receipt EXCEPT ![dl[x].id] = "delivered"]
    /\ Step(x, "failed")
    /\ UNCHANGED <<posted, up, mishapVars>>

\* release_delivery: a delivered receipt is never released.
release_delivery(x) ==
    /\ DlAt(x, "release")
    /\ receipt' = [receipt EXCEPT ![dl[x].id] = IF @ = "delivered" THEN @ ELSE "none"]
    /\ Step(x, "failed")
    /\ UNCHANGED <<posted, up, mishapVars>>

\* A receipt call fails: before the reservation it ends the call, at mark it
\* leads to the release, at the release the reservation stays.
receipt_fault(x) ==
    /\ dl[x].pc \in {"check", "reserve", "mark", "release"}
    /\ CallFails
    /\ Step(x, IF DlAt(x, "mark") THEN "release" ELSE "failed")
    /\ UNCHANGED <<receipt, posted, up>>

Finished == {"duplicate", "in-progress", "sent", "failed"}

DeliverStep(x) ==
    \/ is_delivered(x) \/ reserve_delivery(x) \/ send_ok(x) \/ send_error(x)
    \/ mark_delivered(x) \/ release_delivery(x) \/ receipt_fault(x)

-----------------------------------------------------------------------------
(* Crash and restart.                                                      *)

\* The calls in flight are gone; the table stays.
CallsLost ==
    /\ up
    /\ HubDies
    /\ up' = FALSE
    /\ dl' = [x \in Deliverer |-> NoCall]
    /\ UNCHANGED <<receipt, posted>>

\* Mutants of reconcile_reserved_deliveries: every receipt is dropped, or none.
reconcile_reserved_deliveries_All ==
    receipt' = [d \in DeliveryId |-> "none"]

reconcile_reserved_deliveries_Keep == UNCHANGED receipt

\* Reservations without a process are released, delivered receipts stay.
reconcile_reserved_deliveries ==
    receipt' = [d \in DeliveryId |->
                  IF receipt[d] = "reserved" THEN "none" ELSE receipt[d]]

ReceiptsReconciled ==
    /\ ~up
    /\ reconcile_reserved_deliveries
    /\ up' = TRUE
    /\ UNCHANGED <<posted, dl, mishapVars>>

\* Calls come at any time, for an id that was delivered before included.
DeliveryNext ==
    \/ \E x \in Deliverer :
         \/ /\ up
            /\ dl[x].pc \in Finished \cup {"idle"}
            /\ \E d \in DeliveryId, text \in Text : deliver(x, d, text)
            /\ UNCHANGED <<receipt, posted, up, mishapVars>>
         \/ DeliverStep(x)
    \/ CallsLost
    \/ ReceiptsReconciled

DeliverySpec == DeliveryInit /\ [][DeliveryNext]_deliveryVars

-----------------------------------------------------------------------------
(* Properties.                                                             *)

DlPc == {"idle", "check", "reserve", "send", "mark", "release"} \cup Finished

\* Every variable has its type.
DeliveryTypeOK ==
    /\ receipt \in [DeliveryId -> {"none", "reserved", "delivered"}]
    /\ posted \in [DeliveryId -> Seq(Text)]
    /\ dl \in [Deliverer -> [pc : DlPc, id : DeliveryId \cup {"none"},
                             text : Text \cup {"none"}, attempt : 0..MaxAttempts]]
    /\ up \in BOOLEAN
    /\ failed \in Nat /\ crashed \in Nat /\ Mishaps <= MaxMishaps

Sending(x) == dl[x].pc \in {"send", "mark", "release"}

\* The receipt serialises the calls: at most one of them is sending a given
\* message, whatever was released or reconciled in between.
OneSender ==
    \A x, y \in Deliverer :
      Sending(x) /\ Sending(y) /\ dl[x].id = dl[y].id => x = y

\* A delivered receipt suppresses every later call, so it must stand for a
\* message that Slack has posted.
DeliveredWasPosted ==
    \A d \in DeliveryId : receipt[d] = "delivered" => posted[d] # <<>>

\* A message is posted again only because something went wrong: each further
\* copy is paid for by a send that reported an error, a failed store call or a
\* crash.
CopiesArePaidFor == \A d \in DeliveryId : Len(posted[d]) <= 1 + Mishaps

\* Once delivered, nothing is posted under the same id again and the receipt
\* stays, over restarts too.
DeliveredIsFinal ==
    [][\A d \in DeliveryId : receipt[d] = "delivered" =>
         receipt'[d] = "delivered" /\ posted'[d] = posted[d]]_deliveryVars
=============================================================================
