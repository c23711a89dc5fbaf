\* Two handlers at a time for one event of any kind, three mishaps.
CONSTANTS
    Deliverer = {h1, h2}
    DeliveryId = {"e"}
    Text = {"accepted", "ok", "not-found", "conflict", "duplicate", "unavailable", "internal-error", "invalid-request"}
    MaxAttempts = 2
    MaxMishaps = 3
SPECIFICATION FairSpec
INVARIANTS TypeInvariant OneTaskPerEvent OneDispatcher AnswersAreTrue AnsweredOnce
INVARIANTS OneSender DeliveredWasPosted CopiesArePaidFor
PROPERTIES DeliveredIsFinal ReservationEnds
