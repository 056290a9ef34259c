----------------------------- MODULE SharedStore -----------------------------
(***************************************************************************)
(* The Redis keys that the nodes of one architecture share, and how what   *)
(* becomes of them looks to TicketStore: as attempts and resets.           *)
(***************************************************************************)
EXTENDS RedisBackend

VARIABLE
    db          \* the Redis keys

\* What the ledger says of a purchase is what every store answers.
AnswersGiven == [p \in Purchases |-> {Outcome(db, p)} \ {"nil"}]

\* The clock is TicketStore's own subject: here it stands still, and the
\* metrics are never cleared on their own.
Store == INSTANCE TicketStore WITH
            Deliveries <- Nat, MaxClock <- 0, clock <- 0,
            answers <- AnswersGiven, forgotten <- {}, slipped <- FALSE

\* A system of nodes is to the store what TicketStore calls attempts and
\* resets, whatever is redelivered, retried and run again: all that is shown
\* of TicketStore holds of it (redis_backend.py:8-12, 16-18).
ImplementsStore == Store!Spec
=============================================================================
