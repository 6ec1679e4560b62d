--------------------------- MODULE MCMatchingEngine ---------------------------
(* Orders 1, 2, ... and users 1, 2, ..., to check liveness without TLC's    *)
(* symmetry, which it does not support there.                              *)
EXTENDS MatchingEngine, TLC

(* Orders are submitted as 1, 2, ..., and the first one is of user 1.       *)
(* Orders and users are interchangeable, so every behaviour is one of these *)
(* after a renaming; a Submit owes nothing, so none is cut off from         *)
(* something that fairness promises.                                        *)
Canonical ==
  /\ \A o \in DOMAIN order : 1..o \subseteq DOMAIN order
  /\ 1 \in DOMAIN order => order[1].user = 1

(* Bound: at most one order of more than one unit, so that a call can make  *)
(* two trades.                                                              *)
OneLarge == Cardinality({o \in DOMAIN order : order[o].qty > 1}) <= 1

Explored == Canonical /\ OneLarge
===============================================================================
