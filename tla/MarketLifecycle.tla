--------------------------- MODULE MarketLifecycle ---------------------------
(***************************************************************************)
(* What market-svc promises of a market: it appears with its outcomes, and *)
(* every row it gets is one valid transition away from a row that a call   *)
(* still in flight can have read, so from its own row when no other call   *)
(* is in flight.  A resolution flags the winner in the same step.          *)
(***************************************************************************)
EXTENDS Integers

CONSTANTS Markets, MaxOutcomes

VARIABLES
  row,       \* row[m]: status and winning outcome, 0 when there is none
  outcomes,  \* outcomes[m]: 1..outcomes[m] are the outcomes of m
  flags,     \* flags[m]: the outcomes with is_winner
  readable   \* readable[m]: rows of m that a call in flight can have read

vars == <<row, outcomes, flags, readable>>

NoRow == [status |-> "none", winner |-> 0]
Draft == [status |-> "draft", winner |-> 0]

Follows == {<<"draft", "open">>, <<"open", "closed">>, <<"closed", "cancelled">>}

Init ==
  /\ readable = [m \in Markets |-> {row[m]}]
  /\ \A m \in Markets : /\ flags[m] = {row[m].winner} \ {0}
                        /\ row[m] # NoRow => outcomes[m] \in 2..MaxOutcomes
                        /\ row[m].status = "resolved" <=> row[m].winner # 0

\* The row becomes r, and older rows are forgotten or are not.
Become(m, r) ==
  /\ row' = [row EXCEPT ![m] = r]
  /\ readable' = [readable EXCEPT ![m] = readable'[m]]
  /\ r \in readable'[m] /\ readable'[m] \subseteq readable[m] \cup {r}

Create(m) ==
  /\ row[m] = NoRow
  /\ \E n \in 2..MaxOutcomes : outcomes' = [outcomes EXCEPT ![m] = n]
  /\ Become(m, Draft)
  /\ UNCHANGED flags

Move(m) ==
  /\ \E r \in readable[m] :
       \E to \in {f[2] : f \in {g \in Follows : g[1] = r.status}} :
         Become(m, [status |-> to, winner |-> 0])
  /\ UNCHANGED <<outcomes, flags>>

Resolve(m, k) ==
  /\ \E r \in readable[m] : r.status = "closed"
  /\ Become(m, [status |-> "resolved", winner |-> k])
  /\ flags' = [flags EXCEPT ![m] = @ \cup {k}]
  /\ UNCHANGED outcomes

Forget(m) ==
  /\ readable' = [readable EXCEPT ![m] = {row[m]}]
  /\ UNCHANGED <<row, outcomes, flags>>

Next == \E m \in Markets : \/ Create(m) \/ Move(m) \/ Forget(m)
                           \/ \E k \in 1..outcomes[m] : Resolve(m, k)

Spec == Init /\ [][Next]_vars

=============================================================================
