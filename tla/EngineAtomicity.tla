--------------------------- MODULE EngineAtomicity ---------------------------
(***************************************************************************)
(* The goroutines of MatchingEngine against the atomic calls of            *)
(* EngineCalls: a history variable keeps the book and the heap as they     *)
(* were when the mutex was last taken.                                     *)
(***************************************************************************)
EXTENDS MatchingEngine, EngineCalls

VARIABLES
  before,     \* book, heap and trades when the mutex was last taken
  done        \* trades of the holder of the mutex, when it was last released

allVars == <<vars, before, done>>

ASnapshot == [book |-> book, heap |-> order, made |-> Len(trades)]

AInit == Init /\ before = ASnapshot /\ done = <<>>

ANext ==
  /\ Next
  /\ before' = IF mu = NoOne /\ mu' # NoOne THEN ASnapshot ELSE before
  /\ done' = IF mu # NoOne /\ mu' = NoOne
             THEN SubSeq(trades, before.made + 1, Len(trades)) ELSE done

ASpec == AInit /\ [][ANext]_allVars

\* PlaceOrder is atomic: when a call lets go of the mutex, the book, the orders
\* and the trades it leaves are those of one PlaceCall on what it found when it
\* took the mutex, whatever was submitted meanwhile (engine.go:81-105).
CallsAreAtomic ==
  [][mu # NoOne /\ mu' = NoOne =>
       LET call == PlaceCall(before.book, before.heap, mu)
       IN  /\ book' = call.book
           /\ done' = call.trades
           /\ \A o \in DOMAIN before.heap : order'[o] = call.heap[o]]_allVars

=============================================================================
