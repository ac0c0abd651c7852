--------------------------- MODULE MCNotification ---------------------------
(* Three threads that wait and two that notify. *)
EXTENDS Notification

CONSTANTS w1, w2, w3, n1, n2

MCWaiters == {w1, w2, w3}
MCNotifiers == {n1, n2}
=============================================================================
