----------------------------- MODULE JWTSigner -----------------------------
(***************************************************************************)
(* The provider token signer of apns2 (auth.go): concurrent calls of       *)
(* GetToken share a cached token.  A call reads the time once, at its      *)
(* start; it looks at the cache without the lock, and if the token it      *)
(* finds is not good for that time, takes the lock, looks again, and makes *)
(* the next token with the time it started at.                             *)
(*                                                                         *)
(* A load or a store of the cache and a critical section's parts are steps *)
(* of their own.  Time is a number that only grows; the signature and the  *)
(* claims of a token are left out but for the two times.                   *)
(***************************************************************************)
EXTENDS Integers

CONSTANTS
    Callers,               \* goroutines that sign requests, in call after call
    TokenLifeSpan,         \* JWTSigner.TokenLifeSpan: 0 if not configured
    DefaultTokenLifeSpan,  \* the package's default
    MaxTime,               \* bound: the time at which the clock stops
    NoToken,               \* currentToken holds nothing
    Nobody                 \* mu is free

ASSUME LifeSpanAssumption ==
    /\ TokenLifeSpan \in Nat
    /\ DefaultTokenLifeSpan \in Nat \ {0}
ASSUME TimeAssumption == MaxTime \in Nat
ASSUME SignerNamesAssumption ==
    /\ Nobody \notin Callers
    /\ NoToken \notin [iat : Nat, exp : Nat]

VARIABLES
    clock,          \* what time.Now returns
    currentToken,   \* JWTSigner.currentToken
    tokenLifeSpan,  \* JWTSigner.tokenLifeSpan: 0 until the first token is made
    mu,             \* who holds JWTSigner.mu
    gpc,            \* progress of each caller's GetToken
    now,            \* the time each call read at its start
    res             \* the token each caller's last call returned

svars == <<clock, currentToken, tokenLifeSpan, mu, gpc, now, res>>

Token == [iat : Nat, exp : Nat]

GetTokenPC == {"idle", "load", "lock", "check", "sign", "served", "failed"}

SignerInit ==
    /\ clock = 0
    /\ currentToken = NoToken
    /\ tokenLifeSpan = 0
    /\ mu = Nobody
    /\ gpc = [c \in Callers |-> "idle"]
    /\ now = [c \in Callers |-> 0]
    /\ res = [c \in Callers |-> NoToken]

-----------------------------------------------------------------------------
\* GetToken is entered: now := time.Now()
GetToken(c) ==
    /\ gpc[c] \in {"idle", "served", "failed"}
    /\ now' = [now EXCEPT ![c] = clock]
    /\ gpc' = [gpc EXCEPT ![c] = "load"]
    /\ UNCHANGED <<clock, currentToken, tokenLifeSpan, mu, res>>

\* res != nil && res.(*JWT).ExpiresAt.After(now)
ValidFor(c) == currentToken # NoToken /\ currentToken.exp > now[c]

Return(c) ==
    /\ gpc' = [gpc EXCEPT ![c] = "served"]
    /\ res' = [res EXCEPT ![c] = currentToken]

\* The first look, without the lock.
Load(c) ==
    /\ gpc[c] = "load"
    /\ IF ValidFor(c)
       THEN Return(c)
       ELSE gpc' = [gpc EXCEPT ![c] = "lock"] /\ UNCHANGED res
    /\ UNCHANGED <<clock, currentToken, tokenLifeSpan, mu, now>>

\* Mutant: the mutex is forgotten.
LockFree(c) ==
    /\ gpc[c] = "lock"
    /\ gpc' = [gpc EXCEPT ![c] = "check"]
    /\ UNCHANGED <<clock, currentToken, tokenLifeSpan, mu, now, res>>

Lock(c) ==
    /\ gpc[c] = "lock" /\ mu = Nobody
    /\ mu' = c
    /\ gpc' = [gpc EXCEPT ![c] = "check"]
    /\ UNCHANGED <<clock, currentToken, tokenLifeSpan, now, res>>

\* Mutant: "in case someone else got here first" is not checked.
CheckSkipped(c) ==
    /\ gpc[c] = "check"
    /\ gpc' = [gpc EXCEPT ![c] = "sign"]
    /\ tokenLifeSpan' = IF tokenLifeSpan # 0 THEN tokenLifeSpan
                        ELSE IF TokenLifeSpan > 0 THEN TokenLifeSpan
                        ELSE DefaultTokenLifeSpan
    /\ UNCHANGED <<clock, currentToken, mu, now, res>>

\* The second look, with the lock; if that fails too the defaults are
\* settled, once for the life of the signer.
Check(c) ==
    /\ gpc[c] = "check"
    /\ IF ValidFor(c)
       THEN Return(c) /\ mu' = Nobody /\ UNCHANGED tokenLifeSpan
       ELSE /\ gpc' = [gpc EXCEPT ![c] = "sign"]
            /\ tokenLifeSpan' = IF tokenLifeSpan # 0 THEN tokenLifeSpan
                                ELSE IF TokenLifeSpan > 0 THEN TokenLifeSpan
                                ELSE DefaultTokenLifeSpan
            /\ UNCHANGED <<mu, res>>
    /\ UNCHANGED <<clock, currentToken, now>>

\* The token is signed, stored and returned, and mu is unlocked.
Sign(c) ==
    LET tkn == [iat |-> now[c], exp |-> now[c] + tokenLifeSpan]
    IN  /\ gpc[c] = "sign"
        /\ currentToken' = tkn
        /\ gpc' = [gpc EXCEPT ![c] = "served"]
        /\ res' = [res EXCEPT ![c] = tkn]
        /\ mu' = Nobody
        /\ UNCHANGED <<clock, tokenLifeSpan, now>>

\* SignedString fails.
SignFails(c) ==
    /\ gpc[c] = "sign"
    /\ gpc' = [gpc EXCEPT ![c] = "failed"]
    /\ mu' = Nobody
    /\ UNCHANGED <<clock, currentToken, tokenLifeSpan, now, res>>

TimePasses ==
    /\ clock' \in (clock + 1)..MaxTime
    /\ UNCHANGED <<currentToken, tokenLifeSpan, mu, gpc, now, res>>

\* The steps of a call that has been made.
InGetToken(c) == Load(c) \/ Lock(c) \/ Check(c) \/ Sign(c) \/ SignFails(c)

SignerNext ==
    TimePasses \/ \E c \in Callers : GetToken(c) \/ InGetToken(c)

SignerSpec == SignerInit /\ [][SignerNext]_svars

-----------------------------------------------------------------------------
SignerTypeOK ==
    /\ clock \in Nat
    /\ currentToken \in Token \cup {NoToken}
    /\ tokenLifeSpan \in Nat
    /\ mu \in Callers \cup {Nobody}
    /\ gpc \in [Callers -> GetTokenPC]
    /\ now \in [Callers -> Nat]
    /\ res \in [Callers -> Token \cup {NoToken}]

\* Two tokens are never valid at the same time: a token is replaced only by one
\* made at a time at which it had expired, although callers make tokens with
\* times they read before they waited for the lock.  The service rejects
\* providers that update their token too often.
TokensSpaced ==
    [][ currentToken' # currentToken =>
          \/ currentToken = NoToken
          \/ currentToken'.iat >= currentToken.exp ]_svars

LifeSpan == IF TokenLifeSpan > 0 THEN TokenLifeSpan ELSE DefaultTokenLifeSpan

\* A call that is anywhere between its start and its return is waiting.
Abstract == INSTANCE TokenSource WITH
    token <- currentToken,
    call <- [c \in Callers |->
               IF gpc[c] \in {"load", "lock", "check", "sign"} THEN "waiting"
               ELSE gpc[c]],
    at <- now,
    given <- res

\* Concurrent calls of GetToken, with their two looks at the cache, do what calls
\* that take effect one at a time would do: each returns a token that is valid
\* at the time of the call, and a new one is made only when there is none.
ImplementsTokenSource == Abstract!Spec

=============================================================================
