----------------------------- MODULE MCEngine -----------------------------
(* Instances of the worker pool for TLC. *)
EXTENDS Engine

(* Consumers that keep receiving. *)
DrainedSpec == Spec /\ EngineFairness /\ ConsumerFairness
============================================================================
