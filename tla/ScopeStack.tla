------------------------------ MODULE ScopeStack ------------------------------
(***************************************************************************)
(* What relq promises of nested transaction handles, whatever the driver:  *)
(* the handles of one connection are nested scopes.  A new scope opens     *)
(* inside every open one; closing a scope closes every scope opened inside *)
(* it and none around it; a closed scope never opens again.                *)
(***************************************************************************)
EXTENDS Naturals

VARIABLES
  made,  \* scopes opened so far; they are numbered in that order
  open   \* scopes that are open

ScopeInit == made = 0 /\ open = {}

OpenScope == made' = made + 1 /\ open' = open \union {made + 1}

CloseFrom(s) == open' = {o \in open : o < s} /\ UNCHANGED made

ScopeNext == OpenScope \/ \E s \in 1 .. made : CloseFrom(s)

Spec == ScopeInit /\ [][ScopeNext]_<<made, open>>
=============================================================================
