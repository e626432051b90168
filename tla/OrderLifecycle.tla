--------------------------- MODULE OrderLifecycle ---------------------------
(***************************************************************************)
(* The order state machine as data: the statuses, the transition graph,    *)
(* the order-type filter on it, and the transitions that need a reason.    *)
(* Constant-level only, so that the abstract and the detailed              *)
(* specification of an order share one definition of what is legal.        *)
(* Source: internal/modules/order/order.go, internal/model/order.go.       *)
(***************************************************************************)
EXTENDS Naturals

OrderTypes == {"TAKE_AWAY", "DELIVERY"}

AllStatuses ==
  {"ORDER_DRAFT", "WAITING_PAYMENT", "PAID", "WAITING_STORE_CONFIRMATION",
   "STORE_ACCEPTED", "STORE_REJECTED", "SEARCHING_DRIVER", "DRIVER_ASSIGNED",
   "ON_THE_WAY", "DELIVERED", "COMPLETED", "CANCELED"}

\* What a client may send as "status": a known one or anything else.
UnknownStatus == "UNKNOWN"

Terminal == {"COMPLETED", "CANCELED", "STORE_REJECTED"}

Courier == {"SEARCHING_DRIVER", "DRIVER_ASSIGNED", "ON_THE_WAY", "DELIVERED"}

Transitions ==
  [s \in AllStatuses |->
     CASE s = "ORDER_DRAFT"            -> {"WAITING_PAYMENT", "CANCELED"}
       [] s = "WAITING_PAYMENT"  -> {"PAID", "CANCELED"}
       [] s = "PAID"             -> {"WAITING_STORE_CONFIRMATION", "CANCELED"}
       [] s = "WAITING_STORE_CONFIRMATION" ->
                                    {"STORE_ACCEPTED", "STORE_REJECTED", "CANCELED"}
       [] s = "STORE_ACCEPTED"   -> {"SEARCHING_DRIVER", "COMPLETED", "CANCELED"}
       [] s = "SEARCHING_DRIVER" -> {"DRIVER_ASSIGNED", "CANCELED"}
       [] s = "DRIVER_ASSIGNED"  -> {"ON_THE_WAY"}
       [] s = "ON_THE_WAY"       -> {"DELIVERED"}
       [] s = "DELIVERED"        -> {"COMPLETED"}
       [] OTHER                  -> {}]

\* Mutant of allowedFor: the order type is not looked at.
allowedFor_AnyType(current, next, orderType) == TRUE

\* Delivery and take-away share every edge except the two out of
\* STORE_ACCEPTED that this filter separates.
allowedFor(current, next, orderType) ==
  current = "STORE_ACCEPTED" =>
    /\ next = "SEARCHING_DRIVER" => orderType = "DELIVERY"
    /\ next = "COMPLETED"        => orderType = "TAKE_AWAY"

\* What the screen renders as buttons.
NextStatuses(current, orderType) ==
  {next \in Transitions[current] : allowedFor(current, next, orderType)}

\* What the validator accepts.
CanTransition(current, next, orderType) ==
  \E candidate \in Transitions[current] :
     candidate = next /\ allowedFor(current, next, orderType)

ReasonRequired(status) == status \in {"CANCELED", "STORE_REJECTED"}

IsKnownStatus(raw) == raw \in AllStatuses

-----------------------------------------------------------------------------
(* Reference definition, used by the properties and the proofs only: the   *)
(* distance of a status from ORDER_DRAFT along the longest path.                 *)

Rank ==
  [s \in AllStatuses |->
     CASE s = "ORDER_DRAFT"            -> 0
       [] s = "WAITING_PAYMENT"  -> 1
       [] s = "PAID"             -> 2
       [] s = "WAITING_STORE_CONFIRMATION" -> 3
       [] s = "STORE_ACCEPTED"   -> 4
       [] s = "SEARCHING_DRIVER" -> 5
       [] s = "DRIVER_ASSIGNED"  -> 6
       [] s = "ON_THE_WAY"       -> 7
       [] s = "DELIVERED"        -> 8
       [] OTHER                  -> 9]
=============================================================================
