--------------------------- MODULE MCOrderService ---------------------------
(* Small instances of OrderService for TLC.                                *)
EXTENDS OrderService, TLC

CONSTANTS o1, o2, s1, s2, c1, shopA

\* One delivery order, with two requests about it: the window of the lifecycle in which
\* its two ways out compete.
DeliveryOnly == (o1 :> "DELIVERY")
OneShop      == (o1 :> shopA)
OneOwner     == (o1 :> c1)

\* One order of each type in one shop.
BothTypes  == (o1 :> "DELIVERY") @@ (o2 :> "TAKE_AWAY")
BothShops  == (o1 :> shopA) @@ (o2 :> shopA)
BothOwners == (o1 :> c1) @@ (o2 :> c1)

AnyTarget == AllStatuses \cup {UnknownStatus}
=============================================================================
