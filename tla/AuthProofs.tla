----------------------------- MODULE AuthProofs -----------------------------
(***************************************************************************)
(* Facts about the auth service that hold for every number of calls,       *)
(* wallets and nonces, and every order of their commands: above all, that  *)
(* it implements Accounts.                                                 *)
(***************************************************************************)
EXTENDS Auth, SequenceTheorems, WellFoundedInduction, TLAPS

CallType == LoginCall \cup Session \cup OtherCall
KeyType == [user : Calls, prefix : Prefixes, active : BOOLEAN]
LoginPcs == {"get", "delete", "lookup", "create"}

\* What TypeOK says of one call.
CallOK(r, given, rows) ==
  /\ r \in CallType
  /\ r.pc \in LoginPcs \cup {"in"} => r.nonce \in given
  /\ r.pc \in {"user", "revoke", "revoked"} => r.key \in rows

LEMMA TypeOKByCall ==
  TypeOK <=> /\ now \in 0..MaxTime /\ faults \in 0..MaxFaults
             /\ DOMAIN expiry \subseteq issued /\ issued \subseteq Nonces /\ slips \subseteq Nonces
             /\ users \subseteq [id : Calls, wallet : Wallets]
             /\ keys \in Seq(KeyType)
             /\ call = [c \in Calls |-> call[c]]
             /\ \A c \in Calls : CallOK(call[c], issued, DOMAIN keys)
BY DEF TypeOK, CallOK, CallType, KeyType, LoginPcs

-----------------------------------------------------------------------------
(* Types                                                                   *)

LEMMA InitType == Init => TypeOK
<1> SUFFICES ASSUME Init PROVE TypeOK  OBVIOUS
<1>1. keys \in Seq(KeyType) /\ DOMAIN expiry = {}  BY EmptySeq DEF Init
<1>2. \A c \in Calls : CallOK(call[c], issued, DOMAIN keys)
  BY DEF Init, CallOK, CallType, OtherCall, LoginPcs
<1> QED BY <1>1, <1>2, TypeOKByCall, AuthAssumption DEF Init

\* A step of one call, which leaves the other calls and the rows they know.
LEMMA TypeOfCallStep ==
  ASSUME TypeOK, NEW c \in Calls, NEW r, call' = [call EXCEPT ![c] = r],
         issued' = issued, keys' \in Seq(KeyType), DOMAIN keys \subseteq DOMAIN keys',
         CallOK(r, issued, DOMAIN keys'),
         users' \subseteq [id : Calls, wallet : Wallets], DOMAIN expiry' \subseteq issued,
         slips' \subseteq Nonces, now' \in 0..MaxTime, faults' \in 0..MaxFaults
  PROVE  TypeOK'
<1>1. \A d \in Calls : CallOK(call[d], issued, DOMAIN keys)
  BY TypeOKByCall
<1>2. \A d \in Calls : call'[d] = IF d = c THEN r ELSE call[d]
  BY TypeOKByCall
<1>3. \A d \in Calls : CallOK(call'[d], issued, DOMAIN keys')
  BY <1>1, <1>2 DEF CallOK
<1>4. call' = [d \in Calls |-> call'[d]]  BY TypeOKByCall
<1>5. issued \subseteq Nonces  BY DEF TypeOK
<1> QED
  BY <1>3, <1>4, <1>5 DEF TypeOK, CallOK, CallType, KeyType, LoginPcs

\* The same when only the call changes.
LEMMA TypeOfOwnStep ==
  ASSUME TypeOK, NEW c \in Calls, NEW r, call' = [call EXCEPT ![c] = r],
         CallOK(r, issued, DOMAIN keys), UNCHANGED <<now, stores, faults, issued>>,
         slips' \subseteq Nonces
  PROVE  TypeOK'
<1>1. UNCHANGED <<now, faults, users, keys, expiry, issued>>  BY DEF stores
<1> QED BY <1>1, TypeOfCallStep, TypeOKByCall

\* The types tell the logins in progress and the sessions from other calls.
LEMMA PcTypes ==
  ASSUME TypeOK, NEW c \in Calls
  PROVE  /\ call[c] \in CallType
         /\ call[c].pc \in LoginPcs => call[c] \in LoginCall /\ call[c].nonce \in issued
         /\ call[c].pc = "in" => call[c] \in Session
         /\ call[c].pc = "new" => call[c] \in [pc : {"new", "done", "refused"}]
         /\ call[c].pc = "user" =>
              call[c] \in [pc : {"user", "valid", "refused"}, key : Nat, dead : BOOLEAN]
         /\ call[c].pc = "revoke" =>
              /\ call[c].key \in DOMAIN keys
              /\ call[c] \in [pc : {"revoke", "revoked", "refused"}, key : Nat,
                              listed : SUBSET Nat]
BY DEF TypeOK, CallType, LoginCall, Session, OtherCall, LoginPcs

\* Moving on keeps a call's type.
LEMMA MovesOn ==
  ASSUME TypeOK, NEW c \in Calls, NEW p,
         \/ call[c].pc \in LoginPcs /\ p \in {"delete", "lookup", "create", "refused"}
         \/ call[c].pc = "new" /\ p = "done"
         \/ call[c].pc = "user" /\ p \in {"valid", "refused"}
         \/ call[c].pc = "revoke" /\ p \in {"revoked", "refused"}
  PROVE  CallOK([call[c] EXCEPT !.pc = p], issued, DOMAIN keys)
<1> DEFINE r == [call[c] EXCEPT !.pc = p]
<1>1. CASE call[c].pc \in LoginPcs /\ p \in {"delete", "lookup", "create", "refused"}
  <2>1. call[c] \in LoginCall /\ call[c].nonce \in issued  BY <1>1, PcTypes
  <2>2. r \in LoginCall /\ r.nonce = call[c].nonce /\ r.pc = p  BY <1>1, <2>1 DEF LoginCall
  <2> QED BY <1>1, <2>1, <2>2 DEF CallOK, CallType
<1>2. CASE call[c].pc = "new" /\ p = "done"
  <2>1. r \in [pc : {"new", "done", "refused"}] /\ r.pc = p  BY <1>2, PcTypes
  <2> QED BY <1>2, <2>1 DEF CallOK, CallType, OtherCall, LoginPcs
<1>3. CASE call[c].pc = "user" /\ p \in {"valid", "refused"}
  <2>1. r \in [pc : {"user", "valid", "refused"}, key : Nat, dead : BOOLEAN] /\ r.pc = p
    BY <1>3, PcTypes
  <2> QED BY <1>3, <2>1 DEF CallOK, CallType, OtherCall, LoginPcs
<1>4. CASE call[c].pc = "revoke" /\ p \in {"revoked", "refused"}
  <2>1. /\ r \in [pc : {"revoke", "revoked", "refused"}, key : Nat, listed : SUBSET Nat]
        /\ r.pc = p /\ r.key = call[c].key /\ call[c].key \in DOMAIN keys
    BY <1>4, PcTypes
  <2> QED BY <1>4, <2>1 DEF CallOK, CallType, OtherCall, LoginPcs
<1> QED BY <1>1, <1>2, <1>3, <1>4

LEMMA SessionType ==
  ASSUME TypeOK, NEW c \in Calls, call[c].pc \in LoginPcs, NEW id \in Calls
  PROVE  CallOK([pc |-> "in", wallet |-> call[c].wallet, nonce |-> call[c].nonce,
                 good |-> call[c].good, user |-> id, exp |-> now + TokenTTL],
                issued, DOMAIN keys)
<1>1. call[c] \in LoginCall /\ call[c].nonce \in issued  BY PcTypes
<1>2. now + TokenTTL \in Nat  BY AuthAssumption DEF TypeOK
<1> QED BY <1>1, <1>2 DEF CallOK, CallType, LoginCall, Session, LoginPcs

LEMMA BeginType ==
  ASSUME TypeOK, NEW c \in Calls, NEW r, CallOK(r, issued, DOMAIN keys), Begin(c, r)
  PROVE  TypeOK'
BY TypeOfOwnStep, TypeOKByCall DEF Begin

\* A set of positions that is not empty has a last one.
LEMMA NewestExists ==
  ASSUME NEW n \in Nat, NEW S, S \subseteq 1..n, S # {}
  PROVE  Newest(S) \in S /\ \A j \in S : j <= Newest(S)
<1> DEFINE T == {n - k : k \in S}
<1>1. T \subseteq Nat /\ T # {}
  <2>1. \A k \in S : n - k \in Nat  OBVIOUS
  <2>2. PICK k \in S : TRUE  OBVIOUS
  <2>3. n - k \in T  OBVIOUS
  <2> QED BY <2>1, <2>3
<1>2. PICK m \in T : \A t \in T : ~ (<<t, m>> \in OpToRel(<, Nat))
  BY <1>1, NatLessThanWellFounded, WFMin
<1>3. PICK k \in S : m = n - k  BY <1>2
<1>4. ASSUME NEW j \in S PROVE j <= k
  <2>1. n - j \in T /\ n - j \in Nat /\ m \in Nat  BY <1>1
  <2>2. ~ (n - j < m)  BY <1>2, <2>1 DEF OpToRel
  <2> QED BY <1>3, <2>1, <2>2
<1> QED BY <1>3, <1>4 DEF Newest

LEMMA NewCallType ==
  ASSUME TypeOK, NEW c \in Calls, NewCall(c)
  PROVE  TypeOK'
<1>0. issued \subseteq Nonces /\ keys \in Seq(KeyType)  BY TypeOKByCall
<1>1. ASSUME NEW w \in Wallets, NEW n \in issued \cup {NoNonce}, NEW good \in BOOLEAN,
             VerifySIWE(c, w, n, good)
      PROVE  TypeOK'
  <2> DEFINE r == [pc |-> IF n = NoNonce THEN "refused" ELSE "get",
                   wallet |-> w, nonce |-> n, good |-> good]
  <2>1. CallOK(r, issued, DOMAIN keys)
    BY <1>0, <1>1 DEF CallOK, CallType, LoginCall, LoginPcs
  <2> QED BY <1>1, <2>1, BeginType DEF VerifySIWE
<1>2. ASSUME NEW d \in Calls, ValidateToken(c, d) PROVE TypeOK'
  <2> DEFINE r == [pc |-> IF Unexpired(call[d]) /\ GetByID(call[d].user) # {}
                          THEN "valid" ELSE "refused",
                   token |-> d]
  <2>1. CallOK(r, issued, DOMAIN keys)
    BY DEF CallOK, CallType, OtherCall, LoginPcs
  <2> QED BY <1>2, <2>1, BeginType DEF ValidateToken
<1>3. ASSUME NEW u \in users, NEW p \in Prefixes, CreateAPIKey(c, u, p) PROVE TypeOK'
  <2> DEFINE row == [user |-> u.id, prefix |-> p, active |-> TRUE]
  <2>1. row \in KeyType  BY DEF TypeOK, KeyType
  <2>2. keys' \in Seq(KeyType) /\ DOMAIN keys \subseteq DOMAIN keys'
    BY <1>0, <1>3, <2>1, AppendProperties DEF CreateAPIKey
  <2>3. CallOK([call[c] EXCEPT !.pc = "done"], issued, DOMAIN keys)
    BY <1>3, MovesOn DEF CreateAPIKey
  <2>4. CallOK([call[c] EXCEPT !.pc = "done"], issued, DOMAIN keys')
    BY <2>2, <2>3 DEF CallOK
  <2> QED BY <1>3, <2>2, <2>4, TypeOfCallStep, TypeOKByCall DEF CreateAPIKey, Goto
<1>4. ASSUME NEW u \in users, NEW p \in Prefixes, RevokeAPIKey(c, u, p) PROVE TypeOK'
  <2> DEFINE found == Matching(u.id, p)
  <2>1. found \subseteq DOMAIN keys /\ DOMAIN keys \subseteq Nat
    BY <1>0, LenProperties DEF Matching
  <2>2. CASE found = {}
    <3>1. CallOK([pc |-> "refused"], issued, DOMAIN keys)
      BY DEF CallOK, CallType, OtherCall, LoginPcs
    <3> QED BY <1>4, <2>2, <3>1, BeginType DEF RevokeAPIKey
  <2>3. CASE found # {} /\ Newest(found) \in found
    <3> DEFINE r == [pc |-> "revoke", key |-> Newest(found), listed |-> found]
    <3>1. CallOK(r, issued, DOMAIN keys)
      BY <2>1, <2>3 DEF CallOK, CallType, OtherCall, LoginPcs
    <3> QED BY <1>4, <2>3, <3>1, BeginType DEF RevokeAPIKey
  <2>4. found # {} => Newest(found) \in found
    <3>1. Len(keys) \in Nat /\ DOMAIN keys = 1..Len(keys)  BY <1>0, LenProperties
    <3> QED BY <2>1, <3>1, NewestExists
  <2> QED BY <2>2, <2>3, <2>4
<1>5. ASSUME NEW k \in DOMAIN keys, ValidateAPIKey(c, k) PROVE TypeOK'
  <2> DEFINE r == [pc |-> IF IsActive(k) THEN "user" ELSE "refused", key |-> k,
                   dead |-> ~keys[k].active]
  <2>1. DOMAIN keys \subseteq Nat  BY <1>0, LenProperties
  <2>2. CallOK(r, issued, DOMAIN keys)
    BY <2>1 DEF CallOK, CallType, OtherCall, LoginPcs
  <2> QED BY <1>5, <2>2, BeginType DEF ValidateAPIKey
<1> QED
  BY <1>1, <1>2, <1>3, <1>4, <1>5 DEF NewCall, Verify, CreateAgentUser

LEMMA LoginStepType ==
  ASSUME TypeOK, NEW c \in Calls, LoginStep(c)
  PROVE  TypeOK'
<1>0. TypeOK => slips \subseteq Nonces /\ issued \subseteq Nonces /\ DOMAIN expiry \subseteq issued
  BY DEF TypeOK
<1>1. ASSUME call[c].pc \in LoginPcs, NEW p \in {"delete", "lookup", "create", "refused"}
      PROVE  CallOK([call[c] EXCEPT !.pc = p], issued, DOMAIN keys)
  BY <1>1, MovesOn
<1>2. ASSUME call[c].pc \in LoginPcs PROVE call[c].nonce \in issued
  BY <1>2, PcTypes
<1>3. CASE GetNonce(c)
  <2>1. slips' \subseteq Nonces  BY <1>0, <1>2, <1>3 DEF GetNonce, LoginPcs
  <2> QED BY <1>1, <1>3, <2>1, TypeOfOwnStep DEF GetNonce, Goto, LoginPcs
<1>4. CASE DeleteNonce(c)
  <2>1. DOMAIN expiry' \subseteq issued  BY <1>0, <1>4 DEF DeleteNonce
  <2>2. AfterDelete(c) \in {"lookup", "refused"}  BY DEF AfterDelete
  <2> QED BY <1>1, <1>4, <2>1, <2>2, TypeOfCallStep, TypeOKByCall DEF DeleteNonce, Goto, LoginPcs
<1>5. CASE DeleteIsLost(c)
  <2>1. slips' \subseteq Nonces /\ faults' \in 0..MaxFaults
    BY <1>0, <1>2, <1>5, AuthAssumption DEF DeleteIsLost, LoginPcs, TypeOK
  <2>2. AfterDelete(c) \in {"lookup", "refused"}  BY DEF AfterDelete
  <2>3. UNCHANGED <<now, expiry, users, keys, issued>>  BY <1>5 DEF DeleteIsLost, stores
  <2> QED BY <1>1, <1>5, <2>1, <2>2, <2>3, TypeOfCallStep, TypeOKByCall
      DEF DeleteIsLost, Goto, LoginPcs
<1>6. CASE LookUp(c)
  <2>1. CASE Goto(c, "create")
    BY <1>0, <1>1, <1>6, <2>1, TypeOfOwnStep DEF LookUp, Goto, LoginPcs
  <2>2. ASSUME NEW u \in users, Login(c, u.id) PROVE TypeOK'
    <3>1. u.id \in Calls  BY DEF TypeOK
    <3> QED BY <1>0, <1>6, <2>2, <3>1, SessionType, TypeOfOwnStep DEF LookUp, Login, LoginPcs
  <2> QED BY <1>6, <2>1, <2>2 DEF LookUp, GetByWallet
<1>7. CASE CreateUser(c)
  <2>1. call[c] \in LoginCall  BY <1>7, PcTypes DEF CreateUser, LoginPcs
  <2>2. users' \subseteq [id : Calls, wallet : Wallets]
    BY <1>7, <2>1 DEF CreateUser, TypeOK, LoginCall
  <2> QED BY <1>7, <2>2, SessionType, TypeOfCallStep, TypeOKByCall DEF CreateUser, Login, LoginPcs
<1>8. CASE LoseCreate(c)
  BY <1>0, <1>1, <1>8, TypeOfOwnStep DEF LoseCreate, Refuse, Goto, LoginPcs
<1> QED BY <1>3, <1>4, <1>5, <1>6, <1>7, <1>8 DEF LoginStep

LEMMA KeyStepType ==
  ASSUME TypeOK, NEW c \in Calls, KeyStep(c)
  PROVE  TypeOK'
<1>0. slips \subseteq Nonces /\ keys \in Seq(KeyType)  BY TypeOKByCall
<1>1. CASE ReadUser(c)
  BY <1>0, <1>1, MovesOn, TypeOfOwnStep DEF ReadUser, Goto
<1>2. CASE SetInactive(c)
  <2>1. call[c].key \in DOMAIN keys  BY <1>2, PcTypes DEF SetInactive
  <2> DEFINE k == call[c].key
             row == [keys[k] EXCEPT !.active = FALSE]
  <2>2. keys[k] \in KeyType  BY <1>0, <2>1, ElementOfSeq
  <2>3. row \in KeyType  BY <2>2 DEF KeyType
  <2>4. keys' = [keys EXCEPT ![k] = row]  BY <1>2 DEF SetInactive
  <2> HIDE DEF row
  <2>5. keys' \in Seq(KeyType) /\ DOMAIN keys' = DOMAIN keys
    <3>1. k \in 1..Len(keys)  BY <1>0, <2>1, LenProperties
    <3> HIDE DEF k
    <3> QED BY <1>0, <2>3, <2>4, <3>1, ExceptSeq
  <2>6. CallOK([call[c] EXCEPT !.pc = "revoked"], issued, DOMAIN keys')
    BY <1>2, <2>5, MovesOn DEF SetInactive
  <2> QED BY <1>2, <2>5, <2>6, TypeOfCallStep, TypeOKByCall DEF SetInactive, Goto
<1> QED BY <1>1, <1>2 DEF KeyStep

LEMMA FailType ==
  ASSUME TypeOK, NEW c \in Calls, Fail(c)
  PROVE  TypeOK'
<1>1. CallOK([call[c] EXCEPT !.pc = "refused"], issued, DOMAIN keys)
  BY MovesOn DEF Fail, Busy, LoginPcs
<1>2. users' \subseteq [id : Calls, wallet : Wallets]
  <2>1. call[c].pc = "create" => call[c] \in LoginCall  BY PcTypes DEF LoginPcs
  <2> QED BY <2>1 DEF Fail, TypeOK, LoginCall
<1>3. faults' \in 0..MaxFaults  BY AuthAssumption DEF Fail, TypeOK
<1> QED BY <1>1, <1>2, <1>3, TypeOfCallStep, TypeOKByCall DEF Fail, Refuse, Goto

LEMMA NextType == TypeOK /\ [Next]_vars => TypeOK'
<1> SUFFICES ASSUME TypeOK, [Next]_vars PROVE TypeOK'  OBVIOUS
<1>1. CASE UNCHANGED vars
  BY <1>1 DEF vars, stores, TypeOK
<1>2. ASSUME NEW n \in Nonces, GenerateNonce(n) PROVE TypeOK'
  <2>1. DOMAIN expiry' \subseteq issued' /\ issued' \subseteq Nonces /\ issued \subseteq issued'
    BY <1>2 DEF GenerateNonce, TypeOK
  <2> QED BY <1>2, <2>1 DEF GenerateNonce, TypeOK
<1>3. CASE Tick
  <2>1. now' \in 0..MaxTime  BY <1>3, AuthAssumption DEF Tick, TypeOK
  <2> QED BY <1>3, <2>1 DEF Tick, stores, TypeOK
<1> QED BY <1>1, <1>2, <1>3, NewCallType, LoginStepType, KeyStepType, FailType DEF Next

\* The stores and the calls keep their types: a nonce in use was given out,
\* and a key that is read, or revoked, is a row.
THEOREM AuthTypeCorrect == Spec => []TypeOK
<1> QED BY InitType, NextType, PTL DEF Spec

-----------------------------------------------------------------------------
(* Accounts                                                                *)

\* Two rows have neither the wallet nor the id in common.
RowsAreDistinct ==
  \A u, v \in users : (u.wallet = v.wallet \/ u.id = v.id) => u = v

\* A call whose user is not written yet has not written one.
WrittenByItsCall ==
  \A u \in users : call[u.id].pc \notin LoginPcs \cup {"new"}

SessionsHaveRows ==
  \A c \in LoggedIn : [id |-> call[c].user, wallet |-> call[c].wallet] \in users

\* Inductive with TypeOK: the index alone does not say that an id is fresh
\* when a row is written, nor that a session's account is still the wallet's.
AccountsInv == RowsAreDistinct /\ WrittenByItsCall /\ SessionsHaveRows

LEMMA InitAccounts == Init => AccountsInv
BY DEF Init, AccountsInv, RowsAreDistinct, WrittenByItsCall, SessionsHaveRows, LoggedIn

\* A step of a call that neither writes a row nor logs in.
LEMMA QuietStep ==
  ASSUME TypeOK, AccountsInv, NEW c \in Calls, NEW r, call' = [call EXCEPT ![c] = r],
         users' = users, r.pc \notin {"new", "in"}, call[c].pc # "in",
         r.pc \in LoginPcs => call[c].pc \in LoginPcs \cup {"new"}
  PROVE  AccountsInv' /\ UNCHANGED <<[w \in Wallets |-> AccountOf(w)], Sessions>>
<1>1. \A d \in Calls : call'[d] = IF d = c THEN r ELSE call[d]  BY DEF TypeOK
<1>2. RowsAreDistinct'  BY DEF AccountsInv, RowsAreDistinct
<1>3. WrittenByItsCall'
  BY <1>1 DEF AccountsInv, WrittenByItsCall, TypeOK
<1>4. LoggedIn' = LoggedIn /\ \A d \in LoggedIn : call'[d] = call[d]
  BY <1>1 DEF LoggedIn
<1>5. SessionsHaveRows'
  BY <1>4 DEF AccountsInv, SessionsHaveRows
<1>6. Sessions' = Sessions  BY <1>4 DEF Sessions
<1>7. UNCHANGED [w \in Wallets |-> AccountOf(w)]  BY DEF AccountOf, GetByWallet
<1> QED BY <1>2, <1>3, <1>5, <1>6, <1>7 DEF AccountsInv

\* Moving on is such a step.
LEMMA QuietGoto ==
  ASSUME TypeOK, AccountsInv, NEW c \in Calls, NEW p, Goto(c, p), users' = users,
         \/ call[c].pc \in LoginPcs /\ p \in {"delete", "lookup", "create", "refused"}
         \/ call[c].pc = "new" /\ p = "done"
         \/ call[c].pc = "user" /\ p \in {"valid", "refused"}
         \/ call[c].pc = "revoke" /\ p \in {"revoked", "refused"}
  PROVE  AccountsInv' /\ UNCHANGED <<[w \in Wallets |-> AccountOf(w)], Sessions>>
<1> DEFINE r == [call[c] EXCEPT !.pc = p]
<1>1. r.pc = p
  BY PcTypes DEF LoginCall, LoginPcs
<1>2. call' = [call EXCEPT ![c] = r]  BY DEF Goto
<1> QED BY <1>1, <1>2, QuietStep DEF LoginPcs

\* The first login of a wallet writes its row, and may log in.
LEMMA RowStep ==
  ASSUME TypeOK, AccountsInv, NEW c \in Calls, call[c].pc = "create",
         UniqueWallet(call[c].wallet),
         users' = users \cup {[id |-> c, wallet |-> call[c].wallet]},
         NEW r, call' = [call EXCEPT ![c] = r], r.wallet = call[c].wallet,
         r.pc = "refused" \/ (r.pc = "in" /\ r.user = c)
  PROVE  AccountsInv' /\ accounts!ANext
<1> DEFINE w == call[c].wallet
           row == [id |-> c, wallet |-> w]
<1>1. \A d \in Calls : call'[d] = IF d = c THEN r ELSE call[d]  BY DEF TypeOK
<1>2. w \in Wallets  BY PcTypes DEF LoginPcs, LoginCall
<1>3. \A u \in users : u.id \in Calls /\ u.id # c /\ u.wallet # w
  BY DEF AccountsInv, WrittenByItsCall, UniqueWallet, GetByWallet, TypeOK, LoginPcs
<1>4. RowsAreDistinct'
  <2>1. row.id = c /\ row.wallet = w  OBVIOUS
  <2> HIDE DEF row
  <2>2. users' = users \cup {row}  BY DEF row
  <2> QED BY <1>3, <2>1, <2>2 DEF AccountsInv, RowsAreDistinct
<1>5. WrittenByItsCall'
  <2> SUFFICES ASSUME NEW u \in users'
               PROVE  call'[u.id].pc \notin LoginPcs \cup {"new"}
    BY DEF WrittenByItsCall
  <2>1. CASE u \in users
    BY <1>1, <1>3, <2>1 DEF AccountsInv, WrittenByItsCall
  <2>2. CASE u = row  BY <1>1, <2>2 DEF LoginPcs
  <2> QED BY <2>1, <2>2
<1>6. /\ r.pc = "in" => LoggedIn' = LoggedIn \cup {c}
      /\ r.pc = "refused" => LoggedIn' = LoggedIn
      /\ c \notin LoggedIn
  BY <1>1 DEF LoggedIn
<1>7. \A d \in LoggedIn : call'[d] = call[d]  BY <1>1 DEF LoggedIn
<1>8. SessionsHaveRows'
  BY <1>1, <1>6, <1>7 DEF AccountsInv, SessionsHaveRows
<1>9. AccountOf(w) = {}  BY DEF AccountOf, UniqueWallet
<1>10. \A v \in Wallets : c \notin AccountOf(v)  BY <1>3 DEF AccountOf, GetByWallet
<1>11. \A v \in Wallets : AccountOf(v)' = IF v = w THEN {c} ELSE AccountOf(v)
  <2> TAKE v \in Wallets
  <2>1. row.id = c /\ row.wallet = w /\ users' = users \cup {row}  OBVIOUS
  <2> HIDE DEF row
  <2>2. GetByWallet(v)' = GetByWallet(v) \cup (IF v = w THEN {row} ELSE {})
    BY <2>1 DEF GetByWallet
  <2>3. CASE v # w  BY <2>2, <2>3 DEF AccountOf
  <2>4. CASE v = w
    <3>1. GetByWallet(v)' = {row}  BY <1>9, <2>2, <2>4 DEF AccountOf
    <3> QED BY <2>1, <2>4, <3>1 DEF AccountOf
  <2> QED BY <2>3, <2>4
<1> DEFINE account == [v \in Wallets |-> AccountOf(v)]
<1>12. account' = [account EXCEPT ![w] = {c}]  BY <1>2, <1>11
<1>13. r.pc = "in" => Sessions' = Sessions \cup {<<w, c>>}
  <2> SUFFICES ASSUME r.pc = "in" PROVE Sessions' = Sessions \cup {<<w, c>>}  OBVIOUS
  <2>1. Sessions' = {<<call'[d].wallet, call'[d].user>> : d \in LoggedIn \cup {c}}
    BY <1>6 DEF Sessions
  <2>2. call'[c].wallet = w /\ call'[c].user = c  BY <1>1
  <2> QED BY <1>7, <2>1, <2>2 DEF Sessions
<1>14. r.pc = "refused" => Sessions' = Sessions  BY <1>6, <1>7 DEF Sessions
<1>15. accounts!Register(w, c)
  BY <1>2, <1>9, <1>10, <1>12 DEF accounts!Register
<1>16. accounts!ANext
  BY <1>2, <1>13, <1>14, <1>15 DEF accounts!ANext, accounts!SignIn
<1> QED BY <1>4, <1>5, <1>8, <1>16 DEF AccountsInv

\* A later login signs in to the account of its wallet.
LEMMA SignInStep ==
  ASSUME TypeOK, AccountsInv, NEW c \in Calls, call[c].pc = "lookup",
         NEW u \in GetByWallet(call[c].wallet), Login(c, u.id), users' = users
  PROVE  AccountsInv' /\ accounts!ANext
<1> DEFINE w == call[c].wallet
<1>1. \A d \in Calls \ {c} : call'[d] = call[d]  BY DEF TypeOK, Login
<1>2. call'[c].pc = "in" /\ call'[c].wallet = w /\ call'[c].user = u.id
  BY DEF TypeOK, Login
<1>3. w \in Wallets  BY PcTypes DEF LoginPcs, LoginCall
<1>4. u \in users /\ u.wallet = w /\ u.id \in Calls /\ u = [id |-> u.id, wallet |-> w]
  BY DEF GetByWallet, TypeOK
<1>5. RowsAreDistinct'  BY DEF AccountsInv, RowsAreDistinct
<1>6. WrittenByItsCall'
  BY <1>1, <1>2 DEF AccountsInv, WrittenByItsCall, TypeOK, LoginPcs
<1>7. LoggedIn' = LoggedIn \cup {c} /\ c \notin LoggedIn  BY <1>1, <1>2 DEF LoggedIn
<1>8. \A d \in LoggedIn : call'[d] = call[d]  BY <1>1, <1>7 DEF LoggedIn
<1>9. SessionsHaveRows'
  BY <1>2, <1>4, <1>7, <1>8 DEF AccountsInv, SessionsHaveRows
<1>10. AccountOf(w) = {u.id}
  <2>1. GetByWallet(w) = {u}
    BY <1>4 DEF GetByWallet, AccountsInv, RowsAreDistinct
  <2> QED BY <2>1 DEF AccountOf
<1>11. UNCHANGED [v \in Wallets |-> AccountOf(v)]  BY DEF AccountOf, GetByWallet
<1>12. Sessions' = Sessions \cup {<<w, u.id>>}
  <2>1. Sessions' = {<<call'[d].wallet, call'[d].user>> : d \in LoggedIn \cup {c}}
    BY <1>7 DEF Sessions
  <2> QED BY <1>2, <1>8, <2>1 DEF Sessions
<1>13. accounts!ANext
  BY <1>3, <1>4, <1>10, <1>11, <1>12 DEF accounts!ANext, accounts!SignIn
<1> QED BY <1>5, <1>6, <1>9, <1>13 DEF AccountsInv

LEMMA NextAccounts ==
  TypeOK /\ AccountsInv /\ [Next]_vars => AccountsInv' /\ [accounts!ANext]_(accounts!avars)
<1> SUFFICES ASSUME TypeOK, AccountsInv, [Next]_vars
             PROVE  AccountsInv' /\ [accounts!ANext]_(accounts!avars)
  OBVIOUS
<1> DEFINE Stutter == UNCHANGED <<[w \in Wallets |-> AccountOf(w)], Sessions>>
<1>0. Stutter => UNCHANGED accounts!avars  BY DEF accounts!avars
<1>1. ASSUME UNCHANGED <<users, call>> PROVE AccountsInv' /\ Stutter
  BY <1>1 DEF AccountsInv, RowsAreDistinct, WrittenByItsCall, SessionsHaveRows, LoggedIn,
              AccountOf, GetByWallet, Sessions
<1>2. ASSUME NEW c \in Calls, NEW r, r.pc \notin {"new", "in"}, Begin(c, r)
      PROVE  AccountsInv' /\ Stutter
  BY <1>2, QuietStep DEF Begin, stores
<1>3. ASSUME NEW c \in Calls, NewCall(c) PROVE AccountsInv' /\ Stutter
  <2>1. ASSUME NEW w, NEW n, NEW good, VerifySIWE(c, w, n, good) PROVE AccountsInv' /\ Stutter
    BY <1>2, <2>1 DEF VerifySIWE
  <2>2. ASSUME NEW d \in Calls, ValidateToken(c, d) PROVE AccountsInv' /\ Stutter
    BY <1>2, <2>2 DEF ValidateToken
  <2>3. ASSUME NEW u \in users, NEW p \in Prefixes, CreateAPIKey(c, u, p)
        PROVE  AccountsInv' /\ Stutter
    BY <2>3, QuietGoto DEF CreateAPIKey
  <2>4. ASSUME NEW u \in users, NEW p \in Prefixes, RevokeAPIKey(c, u, p)
        PROVE  AccountsInv' /\ Stutter
    BY <1>2, <2>4 DEF RevokeAPIKey
  <2>5. ASSUME NEW k \in DOMAIN keys, ValidateAPIKey(c, k) PROVE AccountsInv' /\ Stutter
    BY <1>2, <2>5 DEF ValidateAPIKey
  <2> QED BY <1>3, <2>1, <2>2, <2>3, <2>4, <2>5 DEF NewCall, Verify, CreateAgentUser
<1>4. ASSUME NEW c \in Calls, LoginStep(c) PROVE AccountsInv' /\ [accounts!ANext]_(accounts!avars)
  <2>1. CASE GetNonce(c)  BY <1>0, <2>1, QuietGoto DEF GetNonce, stores, LoginPcs
  <2>2. CASE DeleteNonce(c) \/ DeleteIsLost(c)
    BY <1>0, <2>2, QuietGoto DEF DeleteNonce, DeleteIsLost, AfterDelete, stores, LoginPcs
  <2>3. CASE LookUp(c)
    <3>1. users' = users /\ call[c].pc = "lookup"  BY <2>3 DEF LookUp, stores
    <3>2. CASE Goto(c, "create")  BY <1>0, <3>1, <3>2, QuietGoto DEF LoginPcs
    <3>3. CASE \E u \in GetByWallet(call[c].wallet) : Login(c, u.id)
      BY <3>1, <3>3, SignInStep
    <3> QED BY <2>3, <3>2, <3>3 DEF LookUp
  <2>4. CASE CreateUser(c)
    <3> DEFINE r == [pc |-> "in", wallet |-> call[c].wallet, nonce |-> call[c].nonce,
                     good |-> call[c].good, user |-> c, exp |-> now + TokenTTL]
    <3>1. call' = [call EXCEPT ![c] = r]  BY <2>4 DEF CreateUser, Login
    <3>2. r.pc = "in" /\ r.user = c /\ r.wallet = call[c].wallet  OBVIOUS
    <3> HIDE DEF r
    <3> QED BY <2>4, <3>1, <3>2, RowStep DEF CreateUser
  <2>5. CASE LoseCreate(c)
    BY <1>0, <2>5, QuietGoto DEF LoseCreate, Refuse, stores, LoginPcs
  <2> QED BY <1>4, <2>1, <2>2, <2>3, <2>4, <2>5 DEF LoginStep
<1>5. ASSUME NEW c \in Calls, KeyStep(c) PROVE AccountsInv' /\ Stutter
  BY <1>5, QuietGoto DEF KeyStep, ReadUser, SetInactive, stores
<1>6. ASSUME NEW c \in Calls, Fail(c) PROVE AccountsInv' /\ [accounts!ANext]_(accounts!avars)
  <2>1. CASE users' = users
    BY <1>0, <1>6, <2>1, QuietGoto DEF Fail, Refuse, Busy, LoginPcs
  <2>2. CASE users' # users
    <3>1. call[c].pc = "create" /\ UniqueWallet(call[c].wallet)
          /\ users' = users \cup {[id |-> c, wallet |-> call[c].wallet]}
      BY <1>6, <2>2 DEF Fail
    <3> DEFINE r == [call[c] EXCEPT !.pc = "refused"]
    <3>2. call' = [call EXCEPT ![c] = r]  BY <1>6 DEF Fail, Refuse, Goto
    <3>3. r.pc = "refused" /\ r.wallet = call[c].wallet
      BY <3>1, PcTypes DEF LoginPcs, LoginCall
    <3> HIDE DEF r
    <3> QED BY <3>1, <3>2, <3>3, RowStep
  <2> QED BY <2>1, <2>2
<1>7. CASE (\E n \in Nonces : GenerateNonce(n)) \/ Tick \/ UNCHANGED vars
  BY <1>0, <1>1, <1>7 DEF GenerateNonce, Tick, vars, stores
<1> QED BY <1>0, <1>3, <1>4, <1>5, <1>6, <1>7 DEF Next

\* Signing in keeps its promise for every number of wallets and of logins
\* that overlap: one account each, and sessions of that account only
\* (auth.go:92-116).
THEOREM AuthImplementsAccounts == Spec => ImplementsAccounts
<1>1. Init => accounts!AInit
  <2> SUFFICES ASSUME Init PROVE accounts!AInit  OBVIOUS
  <2>1. \A w \in Wallets : AccountOf(w) = {}  BY DEF Init, AccountOf, GetByWallet
  <2>2. Sessions = {}  BY DEF Init, Sessions, LoggedIn
  <2> QED BY <2>1, <2>2 DEF accounts!AInit
<1> QED
  BY <1>1, InitType, NextType, InitAccounts, NextAccounts, PTL
  DEF Spec, ImplementsAccounts, accounts!ASpec

-----------------------------------------------------------------------------
(* Nonces                                                                  *)

\* The calls that have a nonce and have used it up.
Used(c) == call[c].pc \in {"lookup", "create", "in"}

\* Inductive: a nonce that did not slip has one call at most that read it and
\* did not fail, and once that call has deleted it, it is not stored.
NonceInv ==
  \A c \in Calls : (call[c].pc = "delete" \/ Used(c)) /\ call[c].nonce \notin slips =>
    /\ Used(c) => call[c].nonce \notin DOMAIN expiry
    /\ \A d \in Calls : (call[d].pc = "delete" \/ Used(d)) /\ call[d].nonce = call[c].nonce
                        => d = c

LEMMA InitNonce == Init => NonceInv
BY DEF Init, NonceInv, Used

\* A step of a call whose nonce stays unread, or that gives it up.
LEMMA NonceQuiet ==
  ASSUME TypeOK, NonceInv, NEW c \in Calls, NEW r, call' = [call EXCEPT ![c] = r],
         r.pc \notin {"delete", "lookup", "create", "in"}, slips \subseteq slips',
         expiry' = expiry
  PROVE  NonceInv'
<1>1. \A d \in Calls : call'[d] = IF d = c THEN r ELSE call[d]  BY DEF TypeOK
<1> QED BY <1>1 DEF NonceInv, Used

\* A step of a call that goes on with its nonce, stored or not.
LEMMA NonceKept ==
  ASSUME TypeOK, NonceInv, NEW c \in Calls, NEW r, call' = [call EXCEPT ![c] = r],
         r.nonce = call[c].nonce, call[c].pc = "delete" \/ Used(c), slips \subseteq slips',
         DOMAIN expiry' \subseteq DOMAIN expiry,
         Used(c) \/ r.nonce \notin DOMAIN expiry' \/ r.nonce \in slips'
  PROVE  NonceInv'
<1>1. \A d \in Calls : call'[d] = IF d = c THEN r ELSE call[d]  BY DEF TypeOK
<1>2. \A d \in Calls : call'[d].pc = "delete" \/ Used(d)' =>
        (call[d].pc = "delete" \/ Used(d)) /\ call'[d].nonce = call[d].nonce
  BY <1>1 DEF Used
<1> SUFFICES ASSUME NEW d \in Calls, call'[d].pc = "delete" \/ Used(d)',
                    call'[d].nonce \notin slips'
             PROVE  /\ Used(d)' => call'[d].nonce \notin DOMAIN expiry'
                    /\ \A e \in Calls : /\ call'[e].pc = "delete" \/ Used(e)'
                                       /\ call'[e].nonce = call'[d].nonce
                                       => e = d
  BY DEF NonceInv
<1>3. \A e \in Calls : (call'[e].pc = "delete" \/ Used(e)') /\ call'[e].nonce = call'[d].nonce
                        => e = d
  BY <1>2 DEF NonceInv
<1>4. ASSUME Used(d)' PROVE call'[d].nonce \notin DOMAIN expiry'
  <2>1. CASE d = c  BY <1>1, <1>2, <2>1 DEF NonceInv
  <2>2. CASE d # c
    <3>1. Used(d) /\ call[d].nonce \notin slips  BY <1>1, <1>2, <1>4, <2>2 DEF Used
    <3> QED BY <1>2, <3>1 DEF NonceInv
  <2> QED BY <2>1, <2>2
<1> QED BY <1>3, <1>4

LEMMA GetNonceInv ==
  ASSUME TypeOK, NonceInv, NEW c \in Calls, GetNonce(c)
  PROVE  NonceInv'
<1> DEFINE n == call[c].nonce
<1>1. call[c] \in LoginCall  BY PcTypes DEF GetNonce, LoginPcs
<1>2. expiry' = expiry  BY DEF GetNonce, stores
<1>3. CASE ~Alive(n)
  <2> DEFINE r == [call[c] EXCEPT !.pc = "refused"]
  <2>1. call' = [call EXCEPT ![c] = r] /\ slips' = slips  BY <1>3 DEF GetNonce, Goto
  <2>2. r.pc = "refused"  BY <1>1 DEF LoginCall
  <2> QED BY <1>2, <2>1, <2>2, NonceQuiet
<1>4. CASE Alive(n)
  <2> DEFINE r == [call[c] EXCEPT !.pc = "delete"]
  <2>1. call' = [call EXCEPT ![c] = r]  BY <1>4 DEF GetNonce, Goto
  <2>2. r.pc = "delete" /\ r.nonce = n  BY <1>1 DEF LoginCall
  <2>3. \A d \in Calls : call'[d] = IF d = c THEN r ELSE call[d]  BY <2>1 DEF TypeOK
  <2>4. n \in DOMAIN expiry  BY <1>4 DEF Alive
  <2>5. slips \subseteq slips'  BY DEF GetNonce
  <2>6. ASSUME NEW d \in Calls, d # c, call[d].pc = "delete" \/ Used(d), call[d].nonce = n
        PROVE  n \in slips'
    <3>1. CASE call[d].pc = "delete"  BY <1>4, <2>6, <3>1 DEF GetNonce
    <3>2. CASE Used(d)
      <4>1. n \in slips  BY <2>4, <2>6, <3>2 DEF NonceInv
      <4> QED BY <2>5, <4>1
    <3> QED BY <2>6, <3>1, <3>2
  <2>7. ~Used(c)'  BY <2>2, <2>3 DEF Used
  <2> HIDE DEF r
  <2>8. \A d \in Calls \ {c} : Used(d)' <=> Used(d)  BY <2>3 DEF Used
  <2> QED BY <1>2, <2>2, <2>3, <2>5, <2>6, <2>7, <2>8 DEF NonceInv
<1> QED BY <1>3, <1>4

LEMMA NextNonce == TypeOK /\ NonceInv /\ [Next]_vars => NonceInv'
<1> SUFFICES ASSUME TypeOK, NonceInv, [Next]_vars PROVE NonceInv'  OBVIOUS
<1>1. ASSUME UNCHANGED <<call, slips>>, DOMAIN expiry' = DOMAIN expiry PROVE NonceInv'
  BY <1>1 DEF NonceInv, Used
<1>2. ASSUME NEW n \in Nonces, GenerateNonce(n) PROVE NonceInv'
  <2>1. \A c \in Calls : call[c].pc = "delete" \/ Used(c) => call[c].nonce # n
    BY <1>2 DEF GenerateNonce, TypeOK, Used
  <2>2. DOMAIN expiry' = DOMAIN expiry \cup {n} /\ UNCHANGED <<call, slips>>
    BY <1>2 DEF GenerateNonce
  <2> QED BY <2>1, <2>2 DEF NonceInv, Used
<1>3. ASSUME NEW c \in Calls, NEW r, r.pc \notin {"delete", "lookup", "create", "in"},
             Begin(c, r)
      PROVE  NonceInv'
  BY <1>3, NonceQuiet DEF Begin, stores
<1>4. ASSUME NEW c \in Calls, NEW p \in {"refused", "done", "valid", "revoked"}, Goto(c, p),
             expiry' = expiry, slips' = slips, call[c].pc \in LoginPcs \cup {"new", "user", "revoke"}
      PROVE  NonceInv'
  <2> DEFINE r == [call[c] EXCEPT !.pc = p]
  <2>1. call' = [call EXCEPT ![c] = r]  BY <1>4 DEF Goto
  <2>2. r.pc = p  BY <1>4, PcTypes DEF LoginCall
  <2> QED BY <1>4, <2>1, <2>2, NonceQuiet
<1>5. ASSUME NEW c \in Calls, NewCall(c) PROVE NonceInv'
  <2>1. ASSUME NEW w, NEW n, NEW good, VerifySIWE(c, w, n, good) PROVE NonceInv'
    BY <1>3, <2>1 DEF VerifySIWE
  <2>2. ASSUME NEW d \in Calls, ValidateToken(c, d) PROVE NonceInv'
    BY <1>3, <2>2 DEF ValidateToken
  <2>3. ASSUME NEW u \in users, NEW p \in Prefixes, CreateAPIKey(c, u, p) PROVE NonceInv'
    BY <1>4, <2>3 DEF CreateAPIKey
  <2>4. ASSUME NEW u \in users, NEW p \in Prefixes, RevokeAPIKey(c, u, p) PROVE NonceInv'
    BY <1>3, <2>4 DEF RevokeAPIKey
  <2>5. ASSUME NEW k \in DOMAIN keys, ValidateAPIKey(c, k) PROVE NonceInv'
    BY <1>3, <2>5 DEF ValidateAPIKey
  <2> QED BY <1>5, <2>1, <2>2, <2>3, <2>4, <2>5 DEF NewCall, Verify, CreateAgentUser
<1>6. ASSUME NEW c \in Calls, call[c].pc = "delete", NEW p \in {"lookup", "refused"}, Goto(c, p),
             slips \subseteq slips', DOMAIN expiry' \subseteq DOMAIN expiry,
             call[c].nonce \notin DOMAIN expiry' \/ call[c].nonce \in slips'
      PROVE  NonceInv'
  <2> DEFINE r == [call[c] EXCEPT !.pc = p]
  <2>1. call' = [call EXCEPT ![c] = r]  BY <1>6 DEF Goto
  <2>2. r.nonce = call[c].nonce  BY <1>6, PcTypes DEF LoginPcs, LoginCall
  <2> QED BY <1>6, <2>1, <2>2, NonceKept
<1>7. ASSUME NEW c \in Calls, Used(c), NEW r, r.nonce = call[c].nonce,
             call' = [call EXCEPT ![c] = r], expiry' = expiry, slips' = slips
      PROVE  NonceInv'
  BY <1>7, NonceKept
<1>8. ASSUME NEW c \in Calls, LoginStep(c) PROVE NonceInv'
  <2>1. CASE GetNonce(c)  BY <2>1, GetNonceInv
  <2>2. CASE DeleteNonce(c)  BY <1>6, <2>2 DEF DeleteNonce, AfterDelete
  <2>3. CASE DeleteIsLost(c)  BY <1>6, <2>3 DEF DeleteIsLost, AfterDelete, stores
  <2>4. CASE LookUp(c)
    <3>1. call[c] \in LoginCall /\ Used(c) /\ expiry' = expiry /\ slips' = slips
      BY <2>4, PcTypes DEF LookUp, LoginPcs, Used, stores
    <3>2. CASE Goto(c, "create")
      <4> DEFINE r == [call[c] EXCEPT !.pc = "create"]
      <4>1. r.nonce = call[c].nonce  BY <3>1 DEF LoginCall
      <4> QED BY <1>7, <3>1, <3>2, <4>1 DEF Goto
    <3>3. CASE \E id : Login(c, id)
      BY <1>7, <3>1, <3>3 DEF Login
    <3> QED BY <2>4, <3>2, <3>3 DEF LookUp
  <2>5. CASE CreateUser(c)
    BY <1>7, <2>5 DEF CreateUser, Login, Used
  <2>6. CASE LoseCreate(c)
    BY <1>4, <2>6 DEF LoseCreate, Refuse, LoginPcs, stores
  <2> QED BY <1>8, <2>1, <2>2, <2>3, <2>4, <2>5, <2>6 DEF LoginStep
<1>9. ASSUME NEW c \in Calls, KeyStep(c) \/ Fail(c) PROVE NonceInv'
  BY <1>4, <1>9 DEF KeyStep, ReadUser, SetInactive, Fail, Refuse, Busy, LoginPcs, stores
<1>10. CASE Tick \/ UNCHANGED vars
  BY <1>1, <1>10 DEF Tick, vars, stores
<1> QED BY <1>2, <1>5, <1>8, <1>9, <1>10 DEF Next

\* A nonce serves one login for every number of logins, unless its deletion
\* failed or two logins read it before either deleted it (auth.go:77-83).
THEOREM OneLoginPerNonce == Spec => []NonceServesOnce
<1>1. NonceInv => NonceServesOnce
  BY DEF NonceInv, NonceServesOnce, LoggedIn, Used
<1> QED BY <1>1, InitType, NextType, InitNonce, NextNonce, PTL DEF Spec

-----------------------------------------------------------------------------
(* API keys                                                                *)

\* What a call knows of a key: it revokes the newest of those it listed, which
\* is inactive once the call has returned, and it goes on with none that it
\* read as inactive.
KeyOK(r, rows) ==
  /\ r.pc \in {"revoke", "revoked"} => r.key \in r.listed /\ \A j \in r.listed : j <= r.key
  /\ r.pc = "revoked" => ~rows[r.key].active
  /\ r.pc = "user" \/ (r.pc = "valid" /\ "key" \in DOMAIN r) => ~r.dead

\* Inductive, because no step makes a key active again.
KeysInv == \A c \in Calls : KeyOK(call[c], keys)

LEMMA InitKeys == Init => KeysInv
BY DEF Init, KeysInv, KeyOK

\* A step of one call that reactivates no key.
LEMMA KeysKept ==
  ASSUME TypeOK, KeysInv, NEW c \in Calls, NEW r, call' = [call EXCEPT ![c] = r],
         KeyOK(r, keys'), \A k \in DOMAIN keys : keys'[k].active => keys[k].active
  PROVE  KeysInv'
<1>1. \A d \in Calls : call'[d] = IF d = c THEN r ELSE call[d]  BY DEF TypeOK
<1>2. ASSUME NEW d \in Calls, d # c  PROVE KeyOK(call[d], keys')
  <2>1. KeyOK(call[d], keys)  BY DEF KeysInv
  <2>2. call[d].pc = "revoked" => call[d].key \in DOMAIN keys  BY DEF TypeOK
  <2> QED BY <2>1, <2>2 DEF KeyOK
<1> QED BY <1>1, <1>2 DEF KeysInv

\* Such a step of a call that has nothing to do with a key, or no more.
LEMMA KeysQuiet ==
  ASSUME TypeOK, KeysInv, NEW c \in Calls, NEW r, call' = [call EXCEPT ![c] = r],
         r.pc \notin {"revoke", "revoked", "user", "valid"},
         \A k \in DOMAIN keys : keys'[k].active => keys[k].active
  PROVE  KeysInv'
<1>1. KeyOK(r, keys')  BY DEF KeyOK
<1> QED BY <1>1, KeysKept

LEMMA KeysGoto ==
  ASSUME TypeOK, KeysInv, NEW c \in Calls, NEW p \in LoginPcs \cup {"refused", "done"},
         Goto(c, p), call[c].pc \in LoginPcs \cup {"new", "user", "revoke"},
         \A k \in DOMAIN keys : keys'[k].active => keys[k].active
  PROVE  KeysInv'
<1> DEFINE r == [call[c] EXCEPT !.pc = p]
<1>1. call' = [call EXCEPT ![c] = r]  BY DEF Goto
<1>2. r.pc = p  BY PcTypes DEF LoginCall
<1> HIDE DEF r
<1> QED BY <1>1, <1>2, KeysQuiet DEF LoginPcs

LEMMA NewCallKeys ==
  ASSUME TypeOK, KeysInv, NEW c \in Calls, NewCall(c)
  PROVE  KeysInv'
<1>0. keys \in Seq(KeyType)  BY TypeOKByCall
<1>1. ASSUME NEW w, NEW n, NEW good, VerifySIWE(c, w, n, good)  PROVE KeysInv'
  BY <1>1, KeysQuiet DEF VerifySIWE, Begin, stores
<1>2. ASSUME NEW d \in Calls, ValidateToken(c, d)  PROVE KeysInv'
  <2> DEFINE r == [pc |-> IF Unexpired(call[d]) /\ GetByID(call[d].user) # {}
                          THEN "valid" ELSE "refused",
                   token |-> d]
  <2>1. KeyOK(r, keys')  BY DEF KeyOK
  <2> QED BY <1>2, <2>1, KeysKept DEF ValidateToken, Begin, stores
<1>3. ASSUME NEW u \in users, NEW p \in Prefixes, CreateAPIKey(c, u, p)  PROVE KeysInv'
  <2> DEFINE row == [user |-> u.id, prefix |-> p, active |-> TRUE]
  <2>1. call[c].pc = "new" /\ Goto(c, "done") /\ keys' = Append(keys, row)
    BY <1>3 DEF CreateAPIKey
  <2> HIDE DEF row
  <2>2. \A k \in DOMAIN keys : keys'[k] = keys[k]
    <3>1. DOMAIN keys = 1..Len(keys)  BY <1>0, LenProperties
    <3> QED BY <1>0, <2>1, <3>1
  <2> QED BY <2>1, <2>2, KeysGoto
<1>4. ASSUME NEW u \in users, NEW p \in Prefixes, RevokeAPIKey(c, u, p)  PROVE KeysInv'
  <2> DEFINE found == Matching(u.id, p)
  <2>1. CASE found = {}
    <3>1. Begin(c, [pc |-> "refused"])  BY <1>4, <2>1 DEF RevokeAPIKey
    <3> QED BY <3>1, KeysQuiet DEF Begin, stores
  <2>2. CASE found # {}
    <3> DEFINE r == [pc |-> "revoke", key |-> Newest(found), listed |-> found]
    <3>1. Begin(c, r)  BY <1>4, <2>2 DEF RevokeAPIKey
    <3>2. Newest(found) \in found /\ \A j \in found : j <= Newest(found)
      <4>1. Len(keys) \in Nat /\ found \subseteq 1..Len(keys)
        BY <1>0, LenProperties DEF Matching
      <4> HIDE DEF found
      <4> QED BY ONLY <2>2, <4>1, NewestExists
    <3>3. KeyOK(r, keys')  BY <3>2 DEF KeyOK
    <3> QED BY <3>1, <3>3, KeysKept DEF Begin, stores
  <2> QED BY <2>1, <2>2
<1>5. ASSUME NEW k \in DOMAIN keys, ValidateAPIKey(c, k)  PROVE KeysInv'
  <2> DEFINE r == [pc |-> IF IsActive(k) THEN "user" ELSE "refused", key |-> k,
                   dead |-> ~keys[k].active]
  <2>1. KeyOK(r, keys')  BY DEF KeyOK, IsActive
  <2> QED BY <1>5, <2>1, KeysKept DEF ValidateAPIKey, Begin, stores
<1> QED
  BY <1>1, <1>2, <1>3, <1>4, <1>5 DEF NewCall, Verify, CreateAgentUser

LEMMA KeyStepKeys ==
  ASSUME TypeOK, KeysInv, NEW c \in Calls, KeyStep(c)
  PROVE  KeysInv'
<1>0. KeyOK(call[c], keys)  BY DEF KeysInv
<1>1. CASE ReadUser(c)
  <2> DEFINE p == IF GetByID(keys[call[c].key].user) # {} THEN "valid" ELSE "refused"
             r == [call[c] EXCEPT !.pc = p]
  <2>1. call[c].pc = "user" /\ call' = [call EXCEPT ![c] = r] /\ keys' = keys
    BY <1>1 DEF ReadUser, Goto, stores
  <2>2. r.pc \in {"valid", "refused"} /\ r.dead = call[c].dead
    BY <2>1, PcTypes
  <2>3. KeyOK(r, keys')  BY <1>0, <2>1, <2>2 DEF KeyOK
  <2> QED BY <2>1, <2>3, KeysKept
<1>2. CASE SetInactive(c)
  <2> DEFINE k == call[c].key
             r == [call[c] EXCEPT !.pc = "revoked"]
  <2>1. /\ call[c].pc = "revoke" /\ call' = [call EXCEPT ![c] = r]
        /\ keys' = [keys EXCEPT ![k].active = FALSE]
    BY <1>2 DEF SetInactive, Goto
  <2>2. /\ r.pc = "revoked" /\ r.key = k /\ r.listed = call[c].listed
        /\ k \in DOMAIN keys
    BY <2>1, PcTypes
  <2>3. keys[k] \in KeyType  BY <2>2, TypeOKByCall, ElementOfSeq
  <2>4. /\ keys'[k].active = FALSE
        /\ \A j \in DOMAIN keys \ {k} : keys'[j] = keys[j]
    BY <2>1, <2>2, <2>3 DEF KeyType
  <2> HIDE DEF k, r
  <2>5. KeyOK(r, keys')
    <3>1. k \in call[c].listed /\ \A j \in call[c].listed : j <= k
      BY <1>0, <2>1 DEF KeyOK, k
    <3> QED BY <2>2, <2>4, <3>1 DEF KeyOK
  <2>6. \A j \in DOMAIN keys : keys'[j].active => keys[j].active  BY <2>4
  <2> QED BY <2>1, <2>5, <2>6, KeysKept
<1> QED BY <1>1, <1>2 DEF KeyStep

LEMMA NextKeys == TypeOK /\ KeysInv /\ [Next]_vars => KeysInv'
<1> SUFFICES ASSUME TypeOK, KeysInv, [Next]_vars PROVE KeysInv'  OBVIOUS
<1>1. ASSUME UNCHANGED <<call, keys>>  PROVE KeysInv'
  BY <1>1 DEF KeysInv
<1>2. ASSUME NEW c \in Calls, NewCall(c)  PROVE KeysInv'  BY <1>2, NewCallKeys
<1>3. ASSUME NEW c \in Calls, LoginStep(c)  PROVE KeysInv'
  <2>1. keys' = keys
    BY <1>3 DEF LoginStep, GetNonce, DeleteNonce, DeleteIsLost, LookUp, CreateUser,
                LoseCreate, stores
  <2>2. ASSUME NEW id, Login(c, id)  PROVE KeysInv'
    BY <2>1, <2>2, KeysQuiet DEF Login
  <2>3. ASSUME NEW p \in LoginPcs \cup {"refused"}, Goto(c, p), call[c].pc \in LoginPcs
        PROVE  KeysInv'
    BY <2>1, <2>3, KeysGoto
  <2>4. AfterDelete(c) \in LoginPcs \cup {"refused"}  BY DEF AfterDelete, LoginPcs
  <2>5. CASE GetNonce(c)  BY <2>3, <2>5 DEF GetNonce, LoginPcs
  <2>6. CASE DeleteNonce(c) \/ DeleteIsLost(c)
    BY <2>3, <2>4, <2>6 DEF DeleteNonce, DeleteIsLost, LoginPcs
  <2>7. CASE LookUp(c)  BY <2>2, <2>3, <2>7 DEF LookUp, LoginPcs
  <2>8. CASE CreateUser(c)  BY <2>2, <2>8 DEF CreateUser
  <2>9. CASE LoseCreate(c)  BY <2>3, <2>9 DEF LoseCreate, Refuse, LoginPcs
  <2> QED BY <1>3, <2>5, <2>6, <2>7, <2>8, <2>9 DEF LoginStep
<1>4. ASSUME NEW c \in Calls, KeyStep(c)  PROVE KeysInv'  BY <1>4, KeyStepKeys
<1>5. ASSUME NEW c \in Calls, Fail(c)  PROVE KeysInv'
  BY <1>5, KeysGoto DEF Fail, Refuse, Busy, LoginPcs
<1>6. CASE (\E n \in Nonces : GenerateNonce(n)) \/ Tick \/ UNCHANGED vars
  BY <1>1, <1>6 DEF GenerateNonce, Tick, vars, stores
<1> QED BY <1>2, <1>3, <1>4, <1>5, <1>6 DEF Next

\* For every number of keys, and of revocations and validations that overlap: a
\* revocation that returned has revoked the newest of the keys it listed, which
\* stays revoked, and no key that was read as revoked validates
\* (apikey.go:89, 105-133).
THEOREM RevokedKeysAreRefused == Spec => []RevokedIsRefused
<1>1. KeysInv => RevokedIsRefused
  <2> SUFFICES ASSUME KeysInv PROVE RevokedIsRefused  OBVIOUS
  <2>1. \A c \in Calls : KeyOK(call[c], keys)  BY DEF KeysInv
  <2> QED BY ONLY <2>1 DEF KeyOK, RevokedIsRefused
<1> QED BY <1>1, InitType, NextType, InitKeys, NextKeys, PTL DEF Spec

=============================================================================
