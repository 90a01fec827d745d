----------------------------- MODULE OrderLedger -----------------------------
(***************************************************************************)
(* What payment and refund of orders promise (internal/order, pe01/v1):    *)
(* money moves at WeChat Pay, the books follow it and never run ahead, the *)
(* refunds that are asked for are covered by what was paid, and the buyer  *)
(* owns the product while the order is paid and not fully refunded.        *)
(* OrderSettlement implements it.                                          *)
(***************************************************************************)
EXTENDS Naturals, FiniteSets, FiniteSetsExt

CONSTANTS Order, Refund, Price, NoOrder

VARIABLES
  claim,   \* the order and amount of each refund that is or may be carried out
  moved,   \* the orders and refunds whose money has moved at WeChat Pay
  booked,  \* those the books show as settled
  owned    \* the orders whose buyer owns the product

vars == <<claim, moved, booked, owned>>

NoClaim == [order |-> NoOrder, amount |-> 0]

ClaimedOf(o, R) ==
  MapThenSumSet(LAMBDA r : claim[r].amount, {r \in R : claim[r].order = o})

Init ==
  /\ claim = [r \in Refund |-> NoClaim]
  /\ moved = {}
  /\ booked = {}
  /\ owned = {}

\* A refund is asked for against what was paid and is not claimed yet.
Request(r, o, amount) ==
  /\ claim[r] = NoClaim
  /\ o \in booked
  /\ ClaimedOf(o, Refund) + amount <= Price
  /\ claim' = [claim EXCEPT ![r] = [order |-> o, amount |-> amount]]
  /\ UNCHANGED <<moved, booked, owned>>

\* A refund that WeChat Pay refused gives its claim back.
Drop(r) ==
  /\ claim[r] # NoClaim
  /\ r \notin moved
  /\ claim' = [claim EXCEPT ![r] = NoClaim]
  /\ UNCHANGED <<moved, booked, owned>>

Charge(o) ==
  /\ o \notin moved
  /\ moved' = moved \union {o}
  /\ UNCHANGED <<claim, booked, owned>>

Return(r) ==
  /\ r \notin moved
  /\ claim[r] # NoClaim
  /\ moved' = moved \union {r}
  /\ UNCHANGED <<claim, booked, owned>>

\* The payment is booked and the product handed over, in one step.
BookPayment(o) ==
  /\ o \in moved \ booked
  /\ booked' = booked \union {o}
  /\ owned' = owned \union {o}
  /\ UNCHANGED <<claim, moved>>

\* The refund is booked; the one that returns the last of the price also takes
\* the product back.
BookRefund(r) ==
  /\ r \in moved \ booked
  /\ booked' = booked \union {r}
  /\ owned' = IF ClaimedOf(claim[r].order, (booked \intersect Refund) \union {r}) = Price
              THEN owned \ {claim[r].order} ELSE owned
  /\ UNCHANGED <<claim, moved>>

Next ==
  \/ \E o \in Order : Charge(o) \/ BookPayment(o)
  \/ \E r \in Refund : Return(r) \/ BookRefund(r) \/ Drop(r)
  \/ \E r \in Refund, o \in Order, amount \in 1..Price : Request(r, o, amount)

Spec == Init /\ [][Next]_vars
=============================================================================
