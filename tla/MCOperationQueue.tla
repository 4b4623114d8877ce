-------------------------- MODULE MCOperationQueue --------------------------
(***************************************************************************)
(* Operations for the model of OperationQueue: what the main thread slices *)
(* into realOperationQueue_ carries the provider's serial numbers, what an *)
(* application creates itself carries 0 (OwbClientOperation's init).       *)
(***************************************************************************)
EXTENDS OperationQueue, TLC

SlicedOps == {[id |-> -n, serial |-> n] : n \in 1 .. 3}
CreatedOps == {[id |-> -n, serial |-> 0] : n \in 1 .. 1}

\* Two threads that only dequeue may change places.
DequeuerSymmetry == Permutations(Dequeuers)
=============================================================================
