-------------------------- MODULE MCPagedAllocator --------------------------
(* TLC instance of PagedAllocator. *)
EXTENDS PagedAllocator
=============================================================================
