----------------------- MODULE MCNotificationDispatch -----------------------
(***************************************************************************)
(* Small instances of NotificationDispatch.                                *)
(***************************************************************************)
EXTENDS NotificationDispatch

CONSTANTS n1, n2, d1, d2

=============================================================================
