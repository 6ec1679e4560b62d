-------------------------------- MODULE Auth --------------------------------
(***************************************************************************)
(* The auth service (services/auth-svc): nonces in Redis, users and API    *)
(* keys in PostgreSQL, tokens that carry a user and an expiry.  A call is  *)
(* a program of commands to the two stores; calls interleave command by    *)
(* command, and any command can fail.                                      *)
(***************************************************************************)
EXTENDS Integers, Sequences, FiniteSets

CONSTANTS
  Calls,      \* calls, each made at most once; a row's id is the call that wrote it
  Wallets,
  Nonces,
  Prefixes,   \* prefixes of API keys: two keys can have the same
  NonceTTL,   \* ticks that a nonce can be used (five minutes)
  TokenTTL,   \* ticks that a token is valid (24 hours)
  MaxTime,    \* bound on time
  MaxFaults   \* bound on failing commands

ASSUME AuthAssumption ==
  /\ NonceTTL \in Nat \ {0} /\ TokenTTL \in Nat
  /\ MaxTime \in Nat /\ MaxFaults \in Nat

NoNonce == "no nonce"                    \* a message without a line "Nonce: "
ASSUME NonceAssumption == NoNonce \notin Nonces

VARIABLES
  now,
  expiry,   \* Redis: expiry[n] of the nonces that are stored
  users,    \* rows of users: [id, wallet]
  keys,     \* rows of api_keys, oldest first: [user, prefix, active]
  call,     \* program counter and registers of each call
  faults,
  issued,   \* history: nonces given out
  slips     \* history: nonces whose deletion failed, or came after another read

stores == <<expiry, users, keys>>
vars   == <<now, stores, call, faults, issued, slips>>

-----------------------------------------------------------------------------
(* The stores                                                              *)

Alive(n) == n \in DOMAIN expiry /\ now < expiry[n]
GetByWallet(w) == {u \in users : u.wallet = w}
GetByID(id) == {u \in users : u.id = id}

AnyWallet(w) == TRUE                     \* mutated form: no unique index
\* The unique index on wallet_address.
UniqueWallet(w) == GetByWallet(w) = {}

-----------------------------------------------------------------------------
(* Calls                                                                   *)

Goto(c, pc) == call' = [call EXCEPT ![c].pc = pc]
Refuse(c) == Goto(c, "refused")

Begin(c, r) ==
  /\ call[c].pc = "new"
  /\ call' = [call EXCEPT ![c] = r]
  /\ UNCHANGED <<now, stores, faults, issued, slips>>

\* GenerateNonce: 32 random bytes, stored with a time to live.
GenerateNonce(n) ==
  /\ n \notin issued
  /\ issued' = issued \cup {n}
  /\ expiry' = [m \in DOMAIN expiry \cup {n} |-> IF m = n THEN now + NonceTTL ELSE expiry[m]]
  /\ UNCHANGED <<now, users, keys, call, faults, slips>>

\* The line "Nonce: " of the message, without which the call is over.
VerifySIWE(c, w, n, good) ==
  Begin(c, [pc |-> IF n = NoNonce THEN "refused" ELSE "get",
            wallet |-> w, nonce |-> n, good |-> good])

\* POST /auth/verify.
Verify(c, w, n, good) == VerifySIWE(c, w, n, good)

\* POST /admin/agent-users: neither message nor signature.
CreateAgentUser(c, w) == VerifySIWE(c, w, NoNonce, FALSE)

GetNonce(c) ==
  /\ call[c].pc = "get"
  /\ Goto(c, IF Alive(call[c].nonce) THEN "delete" ELSE "refused")
  /\ slips' = IF /\ Alive(call[c].nonce)
                 /\ \E d \in Calls : call[d].pc = "delete" /\ call[d].nonce = call[c].nonce
              THEN slips \cup {call[c].nonce} ELSE slips
  /\ UNCHANGED <<now, stores, faults, issued>>

AfterDelete(c) == IF call[c].good THEN "lookup" ELSE "refused"

KeepNonce(c) ==                          \* mutated form: the nonce is not deleted
  /\ call[c].pc = "delete"
  /\ Goto(c, AfterDelete(c))
  /\ UNCHANGED <<now, stores, faults, issued, slips>>

\* The deletion, whose error is ignored, and the check of the signature.
DeleteNonce(c) ==
  /\ call[c].pc = "delete"
  /\ expiry' = [m \in DOMAIN expiry \ {call[c].nonce} |-> expiry[m]]
  /\ Goto(c, AfterDelete(c))
  /\ UNCHANGED <<now, users, keys, faults, issued, slips>>

DeleteIsLost(c) ==
  /\ call[c].pc = "delete"
  /\ faults < MaxFaults
  /\ faults' = faults + 1
  /\ slips' = slips \cup {call[c].nonce}
  /\ Goto(c, AfterDelete(c))
  /\ UNCHANGED <<now, stores, issued>>

\* The answer to a login: the user and a token.
Login(c, id) ==
  call' = [call EXCEPT ![c] = [pc |-> "in", wallet |-> @.wallet, nonce |-> @.nonce,
                               good |-> @.good, user |-> id, exp |-> now + TokenTTL]]

LookUp(c) ==
  /\ call[c].pc = "lookup"
  /\ \/ GetByWallet(call[c].wallet) = {} /\ Goto(c, "create")
     \/ \E u \in GetByWallet(call[c].wallet) : Login(c, u.id)
  /\ UNCHANGED <<now, stores, faults, issued, slips>>

\* The first login of a wallet; the index refuses a second row.
CreateUser(c) ==
  /\ call[c].pc = "create"
  /\ UniqueWallet(call[c].wallet)
  /\ users' = users \cup {[id |-> c, wallet |-> call[c].wallet]}
  /\ Login(c, c)
  /\ UNCHANGED <<now, expiry, keys, faults, issued, slips>>

LoseCreate(c) ==
  /\ call[c].pc = "create"
  /\ ~UniqueWallet(call[c].wallet)
  /\ Refuse(c)
  /\ UNCHANGED <<now, stores, faults, issued, slips>>

\* The token is not expired, and its user is read again.
Unexpired(t) == now <= t.exp
ValidateToken(c, d) ==
  /\ call[d].pc = "in"
  /\ Begin(c, [pc |-> IF Unexpired(call[d]) /\ GetByID(call[d].user) # {}
                      THEN "valid" ELSE "refused",
               token |-> d])

-----------------------------------------------------------------------------
(* API keys                                                                *)

\* POST /auth/api-key of an authenticated user.
CreateAPIKey(c, u, p) ==
  /\ call[c].pc = "new"
  /\ keys' = Append(keys, [user |-> u.id, prefix |-> p, active |-> TRUE])
  /\ Goto(c, "done")
  /\ UNCHANGED <<now, expiry, users, faults, issued, slips>>

AnyState(k) == TRUE                      \* mutated form: the flag is not checked
IsActive(k) == keys[k].active

\* GetByHash and the flag, then the user.
ValidateAPIKey(c, k) ==
  Begin(c, [pc |-> IF IsActive(k) THEN "user" ELSE "refused", key |-> k,
            dead |-> ~keys[k].active])

ReadUser(c) ==
  /\ call[c].pc = "user"
  /\ Goto(c, IF GetByID(keys[call[c].key].user) # {} THEN "valid" ELSE "refused")
  /\ UNCHANGED <<now, stores, faults, issued, slips>>

Matching(u, p) == {k \in DOMAIN keys : keys[k].user = u /\ keys[k].prefix = p}

\* ListByUser returns the newest first: the first with the prefix is revoked.
Oldest(S) == CHOOSE k \in S : \A j \in S : k <= j   \* mutated form: oldest first
Newest(S) == CHOOSE k \in S : \A j \in S : j <= k

RevokeAPIKey(c, u, p) ==
  LET found == Matching(u.id, p)
  IN  Begin(c, IF found = {} THEN [pc |-> "refused"]
               ELSE [pc |-> "revoke", key |-> Newest(found), listed |-> found])

SetInactive(c) ==
  /\ call[c].pc = "revoke"
  /\ keys' = [keys EXCEPT ![call[c].key].active = FALSE]
  /\ Goto(c, "revoked")
  /\ UNCHANGED <<now, expiry, users, faults, issued, slips>>

-----------------------------------------------------------------------------
(* Faults and time                                                         *)

Busy == {"get", "delete", "lookup", "create", "user", "revoke"}

\* A command fails or the service stops: the call is over.  The row of a user
\* can have been written when the answer is lost.
Fail(c) ==
  /\ call[c].pc \in Busy
  /\ faults < MaxFaults
  /\ faults' = faults + 1
  /\ Refuse(c)
  /\ \/ users' = users
     \/ /\ call[c].pc = "create" /\ UniqueWallet(call[c].wallet)
        /\ users' = users \cup {[id |-> c, wallet |-> call[c].wallet]}
  /\ UNCHANGED <<now, expiry, keys, issued, slips>>

Tick ==
  /\ now < MaxTime
  /\ now' = now + 1
  /\ UNCHANGED <<stores, call, faults, issued, slips>>

-----------------------------------------------------------------------------

Init ==
  /\ now = 0 /\ faults = 0
  /\ expiry = <<>>
  /\ users = {} /\ keys = <<>>
  /\ call = [c \in Calls |-> [pc |-> "new"]]
  /\ issued = {} /\ slips = {}

LoginStep(c) == \/ GetNonce(c) \/ DeleteNonce(c) \/ DeleteIsLost(c)
                \/ LookUp(c) \/ CreateUser(c) \/ LoseCreate(c)
KeyStep(c) == ReadUser(c) \/ SetInactive(c)

NewCall(c) ==
  \/ \E w \in Wallets :
       \/ \E n \in issued \cup {NoNonce}, good \in BOOLEAN : Verify(c, w, n, good)
       \/ CreateAgentUser(c, w)
  \/ \E d \in Calls : ValidateToken(c, d)
  \/ \E u \in users, p \in Prefixes : CreateAPIKey(c, u, p) \/ RevokeAPIKey(c, u, p)
  \/ \E k \in DOMAIN keys : ValidateAPIKey(c, k)

Next ==
  \/ \E n \in Nonces : GenerateNonce(n)
  \/ \E c \in Calls : NewCall(c) \/ LoginStep(c) \/ KeyStep(c) \/ Fail(c)
  \/ Tick

Spec == Init /\ [][Next]_vars

-----------------------------------------------------------------------------
(* Properties                                                              *)

LoginCall == [pc : {"get", "delete", "lookup", "create", "refused"},
              wallet : Wallets, nonce : Nonces \cup {NoNonce}, good : BOOLEAN]
Session == [pc : {"in"}, wallet : Wallets, nonce : Nonces \cup {NoNonce}, good : BOOLEAN,
            user : Calls, exp : Nat]
OtherCall == [pc : {"new", "done", "refused"}]
             \cup [pc : {"valid", "refused"}, token : Calls]
             \cup [pc : {"user", "valid", "refused"}, key : Nat, dead : BOOLEAN]
             \cup [pc : {"revoke", "revoked", "refused"}, key : Nat, listed : SUBSET Nat]

\* The rows and registers have their types; a login in progress has a nonce
\* that was given out, and a call on a key a row of api_keys.
TypeOK ==
  /\ now \in 0..MaxTime /\ faults \in 0..MaxFaults
  /\ DOMAIN expiry \subseteq issued /\ issued \subseteq Nonces /\ slips \subseteq Nonces
  /\ users \subseteq [id : Calls, wallet : Wallets]
  /\ keys \in Seq([user : Calls, prefix : Prefixes, active : BOOLEAN])
  /\ call \in [Calls -> LoginCall \cup Session \cup OtherCall]
  /\ \A c \in Calls :
       /\ call[c].pc \in {"get", "delete", "lookup", "create", "in"} => call[c].nonce \in issued
       /\ call[c].pc \in {"user", "revoke", "revoked"} => call[c].key \in DOMAIN keys

LoggedIn == {c \in Calls : call[c].pc = "in"}

\* One account for each wallet, whatever first logins overlap, and every
\* session is one of its wallet's account (auth.go:92-116).
AccountOf(w) == {u.id : u \in GetByWallet(w)}
Sessions == {<<call[c].wallet, call[c].user>> : c \in LoggedIn}

accounts == INSTANCE Accounts
  WITH Ids <- Calls, account <- [w \in Wallets |-> AccountOf(w)], session <- Sessions

ImplementsAccounts == accounts!ASpec

\* A nonce serves one login, unless its deletion failed or two logins read it
\* before either deleted it (auth.go:77-83).
NonceServesOnce ==
  \A c, d \in LoggedIn :
    (call[c].nonce = call[d].nonce /\ call[c].nonce \notin slips) => c = d

\* A revocation that returned has revoked the newest key with the prefix, and
\* no key becomes active again: keys revoked are refused from then on
\* (apikey.go:89, 105-133).
RevokedIsRefused ==
  /\ \A c \in Calls : call[c].pc = "revoked" =>
       \E k \in call[c].listed :
         ~keys[k].active /\ \A j \in call[c].listed : j <= k
  /\ \A c \in Calls : (call[c].pc = "valid" /\ "key" \in DOMAIN call[c]) => ~call[c].dead

-----------------------------------------------------------------------------
(* What the documentation says and the code does not do.                   *)

\* "The auth-svc is responsible for recognising this pattern and creating an
\* agent-type user" (services/gateway/internal/handler/admin.go:289): a call
\* without a message makes a user.
AgentsAreCreated ==
  \A c \in Calls : (call[c].pc = "refused" /\ "nonce" \in DOMAIN call[c] /\ faults = 0)
                     => call[c].nonce # NoNonce

=============================================================================
