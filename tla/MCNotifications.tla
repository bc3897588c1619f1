---------------------------- MODULE MCNotifications ----------------------------
(* Notifications on a small instance: two managers, of whom one reads, and two incidents. *)
EXTENDS Notifications
===============================================================================
