---------------------------- MODULE MCHealingLoop ---------------------------
(***************************************************************************)
(* HealingLoop with a channel smaller than the events published, so that   *)
(* subscribers lag, and a counter of three values.                         *)
(***************************************************************************)
EXTENDS HealingLoop

CONSTANTS h1, healer

MCHook       == {h1}
MCSubscriber == {h1, healer}
MCEvent      == {"high", "low"}
MCAmount     == {0, 1}
=============================================================================
