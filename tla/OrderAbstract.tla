---------------------------- MODULE OrderAbstract ----------------------------
(***************************************************************************)
(* What the order module promises: an order has a status and an audit      *)
(* trail, both change in one indivisible step, that step follows the       *)
(* lifecycle, and it is justified where a justification is demanded.       *)
(* No operators, requests, transactions or failures appear here; they are  *)
(* in OrderService, which implements this specification.                   *)
(***************************************************************************)
EXTENDS OrderLifecycle, Sequences

CONSTANTS
  Orders,    \* the orders
  Staff,     \* the people who may move one
  typeOf     \* typeOf[o]: TAKE_AWAY or DELIVERY, fixed when o is placed

VARIABLES
  status,    \* orders.status
  history    \* order_status_histories, oldest first

Reasons == {"blank", "given", "too_long"}

Entry == [from: AllStatuses, to: AllStatuses, reason: Reasons, actor: Staff]

avars == <<status, history>>

\* Orders are placed by another service, in whatever status it writes, and
\* the trail starts empty.
AInit ==
  /\ status \in [Orders -> AllStatuses]
  /\ history = [o \in Orders |-> <<>>]

Move(o, to, reason, actor) ==
  /\ CanTransition(status[o], to, typeOf[o])
  /\ reason # "too_long"
  /\ ReasonRequired(to) => reason = "given"
  /\ status'  = [status EXCEPT ![o] = to]
  /\ history' = [history EXCEPT ![o] =
                   Append(@, [from |-> status[o], to |-> to,
                              reason |-> reason, actor |-> actor])]

ANext == \E o \in Orders, to \in AllStatuses, reason \in Reasons, actor \in Staff :
            Move(o, to, reason, actor)

ASpec == AInit /\ [][ANext]_avars
=============================================================================
