--------------------------- MODULE MCTopologyDsl ----------------------------
(***************************************************************************)
(* Texts such as TP2_NVL6+PP2|DP4, with the malformed words next to them.  *)
(***************************************************************************)
EXTENDS TopologyDsl

W(form, kw, num) == [form |-> form, kw |-> kw, num |-> num]

MCWords ==
    {W("dim", "TP", {2}), W("dim", "PP", {3}), W("dim", "TP", {}), W("dim", "XP", {1}),
     W("dim", "DP", {16}),
     W("constraint", "NVL", {6}), W("constraint", "IB", {1}), W("constraint", "NUMA", {}),
     W("constraint", "IB", {}),
     W("op", "Plus", {}), W("op", "Pipe", {}), W("other", "?", {})}
=============================================================================
