------------------------------ MODULE Accounts ------------------------------
(***************************************************************************)
(* What signing in promises: a wallet has one account, made at its first   *)
(* login and kept for ever, and every session is one of the account of the *)
(* wallet that signed in.                                                  *)
(***************************************************************************)
CONSTANTS Wallets, Ids

VARIABLES
  account,  \* account[w]: the ids of wallet w's accounts
  session   \* the logins that succeeded: <<wallet, id>>

avars == <<account, session>>

AInit == account = [w \in Wallets |-> {}] /\ session = {}

\* The first login of a wallet makes its account.
Register(w, id) ==
  /\ account[w] = {}
  /\ \A v \in Wallets : id \notin account[v]
  /\ account' = [account EXCEPT ![w] = {id}]

SignIn(w, id) == session' = session \cup {<<w, id>>}

ANext ==
  \E w \in Wallets, id \in Ids :
    \/ Register(w, id) /\ (SignIn(w, id) \/ UNCHANGED session)
    \/ account[w] = {id} /\ SignIn(w, id) /\ UNCHANGED account

ASpec == AInit /\ [][ANext]_avars

=============================================================================
