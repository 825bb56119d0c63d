--------------------------- MODULE Notifications ---------------------------
(***************************************************************************)
(* The rows NotificationsService.create inserts for the other services.    *)
(***************************************************************************)
EXTENDS Platform

VARIABLE notification   \* table notifications, per order they point to, in the order they commit

\* Every order notification goes to the buyer or to the seller of the order.
Party == {"buyer", "seller"}
NoticeType == {"NEW_ORDER", "ORDER_ACCEPTED", "ORDER_PREPARING", "ORDER_DELIVERED",
               "ORDER_CANCELLED", "PAYMENT_UPDATE"}
Notice == [type : NoticeType, to : Party]

NoNotices == [o \in OrderId |-> <<>>]

\* NotificationsService.create, deep-linked to order o.
Inform(o, type, to) ==
    notification' = [notification EXCEPT ![o] = Append(@, [type |-> type, to |-> to])]

=============================================================================
