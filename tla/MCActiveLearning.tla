-------------------------- MODULE MCActiveLearning --------------------------
(* A small instance of ActiveLearning for TLC; its values are in the cfgs.  *)
EXTENDS ActiveLearning
=============================================================================
