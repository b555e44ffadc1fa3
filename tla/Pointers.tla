------------------------------ MODULE Pointers ------------------------------
(***************************************************************************)
(* What modules about pointers and pages share.                            *)
(***************************************************************************)
CONSTANT NULL   \* the null pointer, and what an allocator returns in vain
=============================================================================
