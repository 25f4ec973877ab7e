---------------------------- MODULE TokenSource ----------------------------
(***************************************************************************)
(* What GetToken promises (auth.go: "guaranteed to be valid at the time of *)
(* the call", "do it cleanly and not annoy APN servers"): every call takes *)
(* effect in one step, in which it is given the current token if that is   *)
(* valid at the time of the call, and makes the next token only if not.    *)
(***************************************************************************)
EXTENDS Integers

CONSTANTS
    Callers,   \* goroutines that sign requests
    LifeSpan,  \* how long a token is considered valid
    NoToken    \* no token has been made

VARIABLES
    clock,  \* the time
    token,  \* the current token
    call,   \* progress of each caller's last call
    at,     \* the time of that call
    given   \* the token it returned

tvars == <<clock, token, call, at, given>>

Made(t) == [iat |-> t, exp |-> t + LifeSpan]

\* The current token is good for a call made at time t.
Good(t) == token # NoToken /\ token.exp > t

Init ==
    /\ clock = 0
    /\ token = NoToken
    /\ call = [c \in Callers |-> "idle"]
    /\ at = [c \in Callers |-> 0]
    /\ given = [c \in Callers |-> NoToken]

Ask(c) ==
    /\ call[c] # "waiting"
    /\ call' = [call EXCEPT ![c] = "waiting"]
    /\ at' = [at EXCEPT ![c] = clock]
    /\ UNCHANGED <<clock, token, given>>

Reuse(c) ==
    /\ call[c] = "waiting" /\ Good(at[c])
    /\ call' = [call EXCEPT ![c] = "served"]
    /\ given' = [given EXCEPT ![c] = token]
    /\ UNCHANGED <<clock, token, at>>

Issue(c) ==
    /\ call[c] = "waiting" /\ ~Good(at[c])
    /\ token' = Made(at[c])
    /\ call' = [call EXCEPT ![c] = "served"]
    /\ given' = [given EXCEPT ![c] = Made(at[c])]
    /\ UNCHANGED <<clock, at>>

\* Signing fails: the cached token stays as it is.
Refuse(c) ==
    /\ call[c] = "waiting" /\ ~Good(at[c])
    /\ call' = [call EXCEPT ![c] = "failed"]
    /\ UNCHANGED <<clock, token, at, given>>

Pass ==
    /\ clock' \in Int /\ clock' > clock
    /\ UNCHANGED <<token, call, at, given>>

Next == Pass \/ \E c \in Callers : Ask(c) \/ Reuse(c) \/ Issue(c) \/ Refuse(c)

Spec == Init /\ [][Next]_tvars

=============================================================================
