---------------------------- MODULE EventDelivery ----------------------------
(***************************************************************************)
(* What the transactional outbox promises the consumers of domain events,  *)
(* without relays, rows or attempts: an event reaches the endpoint only    *)
(* after the transaction that produced it committed, it may reach it more  *)
(* than once, and it is retired only after it reached it at least once.    *)
(* Outbox.tla is shown to implement this module.                           *)
(***************************************************************************)

CONSTANT Events       \* identifiers of the domain events

VARIABLES accepted,   \* events whose producing transaction committed
          received,   \* events the endpoint has received at least once
          retired     \* events the sender no longer intends to send

deliveryVars == <<accepted, received, retired>>

Init ==
  /\ accepted = {}
  /\ received = {}
  /\ retired = {}

\* A domain transaction commits together with its event.
Accept(e) ==
  /\ e \notin accepted
  /\ accepted' = accepted \union {e}
  /\ UNCHANGED <<received, retired>>

\* The endpoint receives an event; a repetition changes nothing here.
Receive(e) ==
  /\ e \in accepted \ retired
  /\ received' = received \union {e}
  /\ UNCHANGED <<accepted, retired>>

\* The sender concludes that the event arrived: it must have.
Retire(e) ==
  /\ e \in received
  /\ retired' = retired \union {e}
  /\ UNCHANGED <<accepted, received>>

\* The sender loses the conclusion it had drawn and will send again.
Reopen(e) ==
  /\ e \in retired
  /\ retired' = retired \ {e}
  /\ UNCHANGED <<accepted, received>>

Next == \E e \in Events : Accept(e) \/ Receive(e) \/ Retire(e) \/ Reopen(e)

Spec == Init /\ [][Next]_deliveryVars
=============================================================================
