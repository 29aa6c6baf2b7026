------------------------------- MODULE NoValue -------------------------------
(* The value of a pointer that is NULL, shared by modules that are composed. *)
CONSTANT None
===============================================================================
