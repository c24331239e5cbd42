------------------------------- MODULE MCHealer -----------------------------
(***************************************************************************)
(* Healer with two calls, two jobs, three ranks, a counter of four values: *)
(* two shrinks by two wrap it.  Three requests are enough for a job that   *)
(* is registered anew under a playbook, and for a call that meets another  *)
(* between the two shrinks of a playbook.                                  *)
(***************************************************************************)
EXTENDS Healer

MCAmount   == {2}
MCPlaybook == {<<"shrink", "log", "shrink">>}
=============================================================================
