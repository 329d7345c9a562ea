------------------------------ MODULE WorkScopes ------------------------------
(***************************************************************************)
(* What relq promises of the WRITES made through nested handles of one     *)
(* connection: there is one real transaction.  Completing a scope closes   *)
(* the scopes inside it.  Keeping a scope keeps its writes for the scope   *)
(* around it, and only keeping the outermost scope makes them durable, all *)
(* together; undoing a scope discards what was written since it opened.    *)
(* An operation that returns has done what it is for.  One that raises has *)
(* done nothing, or given the whole transaction up, or done all it is for  *)
(* (its report was interrupted), but never a part of it.  Nothing is       *)
(* promised once the database has ended the transaction by itself.         *)
(***************************************************************************)
EXTENDS Naturals

CONSTANT Write   \* the writes that can be made

VARIABLES
  made,     \* scopes opened so far; they are numbered in that order
  open,     \* scopes that are open
  base,     \* base[s]: the pending writes that were there before scope s
  pending,  \* writes of the open transaction
  durable,  \* writes that are committed
  said,     \* whether the last operation returned or raised
  whole     \* the database has not ended the transaction by itself

vars == <<made, open, base, pending, durable, said, whole>>

Init ==
  /\ made = 0 /\ open = {} /\ base = <<>>
  /\ pending = {} /\ durable = {}
  /\ said = "returned" /\ whole = TRUE

\* The report to the caller may fail after the work is done.
Says == said' \in {"returned", "raised"}

Outermost(s) == s \in open /\ \A o \in open : s <= o

\* The scopes left are the ones opened before s, and s itself if it stays.
LeaveScopes(S) == open' = S /\ base' = [s \in S |-> base[s]] /\ UNCHANGED made

Commits == durable' = durable \union pending /\ pending' = {}

Open ==
  /\ made' = made + 1
  /\ open' = open \union {made'}
  /\ base' = [s \in open' |-> IF s # made' THEN base[s]
                              ELSE IF open = {} THEN {} ELSE pending]
  /\ said' = "returned"
  /\ UNCHANGED <<pending, durable>>

Refuse == said' = "raised" /\ UNCHANGED <<made, open, base, pending, durable>>

\* A write outside every scope may be its own transaction.
Writes(w) ==
  /\ \/ pending' = pending \union {w} /\ UNCHANGED durable
     \/ open = {} /\ durable' = durable \union {w} /\ UNCHANGED pending
  /\ Says
  /\ UNCHANGED <<made, open, base>>

Keep(s) ==
  /\ s \in open
  /\ LeaveScopes({o \in open : o < s})
  /\ IF Outermost(s) THEN Commits ELSE UNCHANGED <<pending, durable>>
  /\ Says

Undo(s) ==
  /\ s \in open
  /\ LeaveScopes({o \in open : o < s})
  /\ pending' = base[s] /\ UNCHANGED durable
  /\ Says

UndoTo(s) ==
  /\ s \in open /\ ~Outermost(s)
  /\ LeaveScopes({o \in open : o <= s})
  /\ pending' = base[s] /\ UNCHANGED durable
  /\ Says

\* The transaction is given up: no scope is left.  If the failing operation
\* was a commit, the database may have done it, but never a part of it.
Abort ==
  /\ LeaveScopes({})
  /\ Commits \/ (pending' \subseteq pending /\ UNCHANGED durable)
  /\ said' = "raised"

\* Outside every scope the transaction is the caller's.
CallerEnds ==
  /\ open = {}
  /\ Commits \/ (pending' = {} /\ UNCHANGED durable)
  /\ said' = "returned"
  /\ UNCHANGED <<made, open, base>>

Next ==
  \/ Open \/ Refuse \/ Abort \/ CallerEnds
  \/ \E w \in Write : Writes(w)
  \/ \E s \in open : Keep(s) \/ Undo(s) \/ UndoTo(s)

Spec == Init /\ [][Next \/ ~whole']_vars
=============================================================================
