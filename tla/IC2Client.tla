------------------------------- MODULE IC2Client -------------------------------
(***************************************************************************)
(* IC2Client (peplink_ic2/client.py): the client of InControl 2, shared by *)
(* the threads that call it.  Like the device client it takes its lock to  *)
(* test the access token and to obtain another one, and reads the token    *)
(* without the lock when it builds a request.  A token is obtained with    *)
(* the refresh token, if there is one, and with the client credentials if  *)
(* there is none or the service refuses it; a transport error or a rate    *)
(* limit repeats each of the two exchanges, and leaves the grant when it   *)
(* persists.                                                               *)
(*                                                                         *)
(* An operator defined just before another with the same parameters is a   *)
(* fault of the code that the properties are tested against; the           *)
(* specification does not use it.                                          *)
(***************************************************************************)
EXTENDS Integers, FiniteSets

CONSTANTS
    Threads,        \* threads that share the client
    Tokens,         \* access tokens the service may issue, by number
    RefreshTokens,  \* refresh tokens it may issue, by number
    None,           \* the Python None of an absent token or lock holder
    MaxAttempts     \* MAX_ATTEMPTS of the code

ASSUME ThreadsAssumption == None \notin Threads
ASSUME TokensAssumption == Tokens \subseteq Nat /\ None \notin Tokens
ASSUME RefreshTokensAssumption == RefreshTokens \subseteq Nat /\ None \notin RefreshTokens
ASSUME AttemptsAssumption == MaxAttempts \in Nat \ {0}

VARIABLES
    lock,         \* the thread holding self._lock
    token,        \* self._access_token
    refresh,      \* self._refresh_token
    fresh,        \* time.monotonic() < self._token_expires_at
    pc,           \* where the thread is
    attempt,      \* the loop variable of request()
    rescue,       \* ensure_authenticated() was called by request()'s handler
    postTry,      \* the loop variable of _post_token()
    sent,         \* the token copied into the request in flight
    reply,        \* what the service made of that request
    error,        \* the exception on its way up, or the call's outcome
    \* history, read only by the properties
    applied,      \* times the service carried the running call out
    unconfirmed,  \* of those, the ones whose answer was lost
    rejected,     \* tokens the service answered 401 to, by running call
    denied,       \* the service refused the client credentials to that call
    refused       \* refresh tokens the service refused

shared == <<lock, token, refresh, fresh>>
progress == <<attempt, rescue, postTry>>
exchange == <<sent, reply>>
history == <<applied, unconfirmed, rejected, denied>>
vars == <<shared, pc, progress, exchange, error, history, refused>>

\* "refreshing" and "granting" are the two exchanges of _grant_token().
Posting == {"refreshing", "granting"}

Locations == {"idle", "ensure", "attach", "sending", "served", "raised", "returned"}
                \cup Posting

\* IC2ConnectionError, IC2RateLimitError, IC2APIError, IC2AuthError.
Errors == {"conn", "rate", "api", "auth"}

Replies == [kind : {"ok"} \cup Errors, applied : BOOLEAN]

Tries == 0 .. MaxAttempts - 1

NoReply == [kind |-> "conn", applied |-> FALSE]

\* A request that is rate-limited, refused for its token or sent with the text
\* "Bearer None" has no effect; of one that gets no usable answer nobody knows.
PossibleReplies(t) ==
    { r \in Replies :
        /\ r.kind = "ok" => r.applied
        /\ r.kind \in {"rate", "auth"} => ~r.applied
        /\ sent[t] = None => r.kind \in {"conn", "rate", "auth"} /\ ~r.applied }

\* The service issues the lowest token nobody remembers, so that runs which
\* differ in the names of tokens are one run.
Lowest(S) == { c \in S : \A d \in S : c <= d }
Issued ==
    Lowest(Tokens \ ({token} \cup {sent[t] : t \in Threads} \cup UNION {rejected[t] : t \in Threads}))
IssuedRefresh == Lowest(RefreshTokens \ (refused \cup {refresh}))

\* auth.refresh_token is configured or not.
Init ==
    /\ lock = None
    /\ token = None
    /\ refresh \in {None} \cup Lowest(RefreshTokens)
    /\ fresh = FALSE
    /\ pc = [t \in Threads |-> "idle"]
    /\ attempt = [t \in Threads |-> 0]
    /\ rescue = [t \in Threads |-> FALSE]
    /\ postTry = [t \in Threads |-> 0]
    /\ sent = [t \in Threads |-> None]
    /\ reply = [t \in Threads |-> NoReply]
    /\ error = [t \in Threads |-> "none"]
    /\ applied = [t \in Threads |-> 0]
    /\ unconfirmed = [t \in Threads |-> 0]
    /\ rejected = [t \in Threads |-> {}]
    /\ denied = [t \in Threads |-> FALSE]
    /\ refused = {}

-----------------------------------------------------------------------------
(* Helpers of the handlers.                                                *)

\* The test ensure_authenticated() makes under the lock.
NeverHeld == FALSE
Usable == token # None /\ fresh

\* _clear_auth(): the refresh token stays.
KeepAuth == UNCHANGED <<token, fresh>>
ClearAuth == token' = None /\ fresh' = FALSE

HasMoreAttempts(t) == attempt[t] < MaxAttempts - 1

\* The except clauses of request() catch IC2ConnectionError and
\* IC2RateLimitError, and nothing of what the handler itself calls.
RetriesAnyError(t) == ~rescue[t] /\ error[t] # "auth"
Retries(t) == ~rescue[t] /\ error[t] \in {"conn", "rate"}

Goto(t, location) == pc' = [pc EXCEPT ![t] = location]

KeepLock == UNCHANGED lock
ReleaseLock == lock' = None

EndExchange(t) ==
    /\ sent' = [sent EXCEPT ![t] = None]
    /\ reply' = [reply EXCEPT ![t] = NoReply]

ResetPostTry(t) == postTry' = [postTry EXCEPT ![t] = 0]

Raise(t, e) ==
    /\ error' = [error EXCEPT ![t] = e]
    /\ Goto(t, "raised")

Caught(t) == error' = [error EXCEPT ![t] = "none"]

SameAttempt(t) ==
    /\ rescue' = [rescue EXCEPT ![t] = FALSE]
    /\ Goto(t, "ensure")
    /\ UNCHANGED attempt

NextAttempt(t) ==
    /\ attempt' = [attempt EXCEPT ![t] = @ + 1]
    /\ rescue' = [rescue EXCEPT ![t] = FALSE]
    /\ Goto(t, "ensure")

\* The call returns or raises to its caller; its locals are gone.
Leave(t) ==
    /\ Goto(t, "returned")
    /\ attempt' = [attempt EXCEPT ![t] = 0]
    /\ rescue' = [rescue EXCEPT ![t] = FALSE]

\* The login of the handler does not cost its attempt.
HandlerUncounted(t) ==
    IF rescue[t]
    THEN SameAttempt(t)
    ELSE Goto(t, "attach") /\ UNCHANGED <<attempt, rescue>>

\* ensure_authenticated() returned to _raw_request() or to request()'s handler.
Authenticated(t) ==
    IF rescue[t]
    THEN NextAttempt(t)
    ELSE Goto(t, "attach") /\ UNCHANGED <<attempt, rescue>>

-----------------------------------------------------------------------------
(* The start and the end of a call.                                        *)

Request(t) ==
    /\ pc[t] = "idle"
    /\ Goto(t, "ensure")
    /\ UNCHANGED <<shared, progress, exchange, error, history, refused>>

\* The caller has the outcome.
Return(t) ==
    /\ pc[t] = "returned"
    /\ Goto(t, "idle")
    /\ Caught(t)
    /\ applied' = [applied EXCEPT ![t] = 0]
    /\ unconfirmed' = [unconfirmed EXCEPT ![t] = 0]
    /\ rejected' = [rejected EXCEPT ![t] = {}]
    /\ denied' = [denied EXCEPT ![t] = FALSE]
    /\ UNCHANGED <<shared, progress, exchange, refused>>

-----------------------------------------------------------------------------
(* ensure_authenticated(), _grant_token() and _post_token().               *)

\* The lock is taken, a usable token is found, the lock is released.
EnsureFindsToken(t) ==
    /\ pc[t] = "ensure"
    /\ lock = None
    /\ Usable
    /\ Authenticated(t)
    /\ UNCHANGED <<shared, postTry, exchange, error, history, refused>>

\* The lock is taken and kept until the grant is over.
EnsureStartsGrant(t) ==
    /\ pc[t] = "ensure"
    /\ lock = None
    /\ ~Usable
    /\ lock' = t
    /\ Goto(t, IF refresh # None THEN "refreshing" ELSE "granting")
    /\ UNCHANGED <<token, refresh, fresh, progress, exchange, error, history, refused>>

\* A token is stored, and a refresh token if the answer has one.
StoreTokens ==
    /\ token' \in Issued
    /\ refresh' \in {refresh} \cup IssuedRefresh

Granted(t) ==
    /\ pc[t] \in Posting
    /\ StoreTokens
    /\ fresh' = TRUE
    /\ ReleaseLock
    /\ Authenticated(t)
    /\ ResetPostTry(t)
    /\ UNCHANGED <<exchange, error, history, refused>>

\* An expires_in that is no number raises ValueError once the tokens are
\* stored; nothing catches it, as nothing catches an IC2APIError.
GrantedWithoutExpiry(t) ==
    /\ pc[t] \in Posting
    /\ StoreTokens
    /\ ReleaseLock
    /\ Raise(t, "api")
    /\ ResetPostTry(t)
    /\ UNCHANGED <<fresh, attempt, rescue, exchange, history, refused>>

\* No answer, HTTP 429 or 5xx: the same form is posted again.
PostRepeated(t) ==
    /\ pc[t] \in Posting
    /\ postTry[t] < MaxAttempts - 1
    /\ postTry' = [postTry EXCEPT ![t] = @ + 1]
    /\ UNCHANGED <<shared, pc, attempt, rescue, exchange, error, history, refused>>

\* The refresh token is refused (HTTP 400, 401, 403, or no token in the
\* answer): it is dropped and the client credentials are posted.
KeepRefresh == UNCHANGED refresh
DropRefresh == refresh' = None

RefreshRefused(t) ==
    /\ pc[t] = "refreshing"
    /\ DropRefresh
    /\ refused' = refused \cup {refresh}
    /\ Goto(t, "granting")
    /\ ResetPostTry(t)
    /\ UNCHANGED <<lock, token, fresh, attempt, rescue, exchange, error, history>>

\* What leaves _grant_token(): the last of several transport errors or rate
\* limits of either exchange, or a refusal of the client credentials.
RefusalsToo(t) == Errors \ {"api"}
GrantErrors(t) ==
    { e \in {"conn", "rate", "auth"} :
        IF e = "auth" THEN pc[t] = "granting" ELSE postTry[t] = MaxAttempts - 1 }

GrantFailed(t) ==
    /\ pc[t] \in Posting
    /\ \E e \in GrantErrors(t) :
        /\ Raise(t, e)
        /\ denied' = [denied EXCEPT ![t] = @ \/ (e = "auth" /\ pc[t] = "granting")]
    /\ ReleaseLock
    /\ ResetPostTry(t)
    /\ UNCHANGED <<token, refresh, fresh, attempt, rescue, exchange,
                   applied, unconfirmed, rejected, refused>>

-----------------------------------------------------------------------------
(* _raw_request(): the token is read without the lock.                     *)

AttachToken(t) ==
    /\ pc[t] = "attach"
    /\ sent' = [sent EXCEPT ![t] = token]
    /\ Goto(t, "sending")
    /\ UNCHANGED <<shared, progress, reply, error, history, refused>>

Serve(t) ==
    /\ pc[t] = "sending"
    /\ \E r \in PossibleReplies(t) :
        /\ reply' = [reply EXCEPT ![t] = r]
        /\ applied' = [applied EXCEPT ![t] = IF r.applied THEN @ + 1 ELSE @]
    /\ Goto(t, "served")
    /\ UNCHANGED <<shared, progress, sent, error, unconfirmed, rejected, denied, refused>>

\* The envelope holds a success code, or data and no code.
ReceiveSuccess(t) ==
    /\ pc[t] = "served"
    /\ reply[t].kind = "ok"
    /\ Leave(t)
    /\ error' = [error EXCEPT ![t] = "ok"]
    /\ EndExchange(t)
    /\ UNCHANGED <<shared, postTry, history, refused>>

\* HTTP 401: the token held now is dropped, whichever it is.
ReceiveRejection(t) ==
    /\ pc[t] = "served"
    /\ reply[t].kind = "auth"
    /\ ClearAuth
    /\ Raise(t, "auth")
    /\ rejected' = [rejected EXCEPT ![t] = @ \cup ({sent[t]} \ {None})]
    /\ EndExchange(t)
    /\ UNCHANGED <<lock, refresh, progress, applied, unconfirmed, denied, refused>>

\* HTTP 429; no answer, HTTP 5xx or no JSON; an envelope that reports a
\* failure.  Only the last is the service's word on what it did.
ReceiveFailure(t) ==
    /\ pc[t] = "served"
    /\ reply[t].kind \in {"conn", "rate", "api"}
    /\ Raise(t, reply[t].kind)
    /\ unconfirmed' = [unconfirmed EXCEPT ![t] =
                          IF reply[t].kind = "api" THEN @ ELSE applied[t]]
    /\ EndExchange(t)
    /\ UNCHANGED <<shared, progress, applied, rejected, denied, refused>>

-----------------------------------------------------------------------------
(* The except clauses of request().                                        *)

\* except IC2AuthError: clear, give up on the last attempt, else authenticate.
HandleAuthError(t) ==
    /\ pc[t] = "raised"
    /\ ~rescue[t]
    /\ error[t] = "auth"
    /\ ClearAuth
    /\ IF HasMoreAttempts(t)
       THEN /\ rescue' = [rescue EXCEPT ![t] = TRUE]
            /\ Caught(t)
            /\ Goto(t, "ensure")
            /\ UNCHANGED attempt
       ELSE Leave(t) /\ UNCHANGED error
    /\ UNCHANGED <<lock, refresh, postTry, exchange, history, refused>>

\* except (IC2ConnectionError, IC2RateLimitError).
HandleTransientError(t) ==
    /\ pc[t] = "raised"
    /\ Retries(t)
    /\ IF HasMoreAttempts(t)
       THEN NextAttempt(t) /\ Caught(t)
       ELSE Leave(t) /\ UNCHANGED error
    /\ UNCHANGED <<shared, postTry, exchange, history, refused>>

\* Not caught: an API error, and whatever the handler's own call raises.
Propagate(t) ==
    /\ pc[t] = "raised"
    /\ ~Retries(t)
    /\ rescue[t] \/ error[t] # "auth"
    /\ Leave(t)
    /\ UNCHANGED <<shared, postTry, exchange, error, history, refused>>

-----------------------------------------------------------------------------
(* Time: the token's local expiry passes.                                  *)
Expire ==
    /\ fresh
    /\ fresh' = FALSE
    /\ UNCHANGED <<lock, token, refresh, pc, progress, exchange, error, history, refused>>

\* What a thread does by itself once it is inside a call.
Advance(t) ==
    \/ EnsureFindsToken(t)
    \/ EnsureStartsGrant(t)
    \/ Granted(t)
    \/ GrantedWithoutExpiry(t)
    \/ PostRepeated(t)
    \/ RefreshRefused(t)
    \/ GrantFailed(t)
    \/ AttachToken(t)
    \/ Serve(t)
    \/ ReceiveSuccess(t)
    \/ ReceiveRejection(t)
    \/ ReceiveFailure(t)
    \/ HandleAuthError(t)
    \/ HandleTransientError(t)
    \/ Propagate(t)
    \/ Return(t)

Next ==
    \/ \E t \in Threads : Request(t) \/ Advance(t)
    \/ Expire

Spec == Init /\ [][Next]_vars

\* Every exchange ends, because httpx gives up after self.timeout.
FairSpec == Spec /\ \A t \in Threads : WF_vars(Advance(t))

-----------------------------------------------------------------------------
(* Properties.                                                             *)

TypeOK ==
    /\ lock \in Threads \cup {None}
    /\ token \in Tokens \cup {None}
    /\ refresh \in RefreshTokens \cup {None}
    /\ fresh \in BOOLEAN
    /\ pc \in [Threads -> Locations]
    /\ attempt \in [Threads -> Tries]
    /\ rescue \in [Threads -> BOOLEAN]
    /\ postTry \in [Threads -> Tries]
    /\ sent \in [Threads -> Tokens \cup {None}]
    /\ reply \in [Threads -> Replies]
    /\ error \in [Threads -> Errors \cup {"ok", "none"}]
    /\ applied \in [Threads -> Nat]
    /\ unconfirmed \in [Threads -> Nat]
    /\ rejected \in [Threads -> SUBSET Tokens]
    /\ denied \in [Threads -> BOOLEAN]
    /\ refused \subseteq RefreshTokens

\* The grant of ensure_authenticated() runs under the lock, in one thread, only
\* while no unexpired token is held, and every way out of it gives the lock back.
SingleFlight ==
    \A t \in Threads :
        /\ pc[t] \in Posting <=> lock = t
        /\ pc[t] \in Posting => ~(token # None /\ fresh)

\* _grant_token() exchanges a refresh token only if it holds one and the service
\* never refused it, whichever thread was told so: the client does not get stuck
\* on a dead refresh token, and a service that stops issuing them is still served
\* by the client credentials.
RefusedRefreshTokenDropped ==
    /\ refresh \notin refused
    /\ \A t \in Threads : pc[t] = "refreshing" => refresh # None

\* A token the service answered 401 to is never sent again by that call of
\* request(), whatever other threads obtain or clear meanwhile.
NeverResendRejected ==
    \A t \in Threads : pc[t] = "sending" => sent[t] \notin rejected[t]

\* Every call of request() returns: the loops of request(), of its handler and
\* of the two exchanges of a grant end, wherever the service stops cooperating.
CallReturns == \A t \in Threads : pc[t] # "idle" ~> pc[t] = "idle"

\* Steps the running call may still take by itself: each of its attempts counts
\* down from the "ensure" of _raw_request() to the exception that leaves the
\* handler; `posts' are those _post_token() has left for the exchange under way.
StepsPerAttempt == 4 * MaxAttempts + 8

StepsInAttempt(t) ==
    LET posts == MaxAttempts - postTry[t] IN
    CASE pc[t] = "raised" /\ rescue[t]      -> 2
      [] pc[t] = "granting" /\ rescue[t]    -> 2 + posts
      [] pc[t] = "refreshing" /\ rescue[t]  -> MaxAttempts + 2 + posts
      [] pc[t] = "ensure" /\ rescue[t]      -> 2 * MaxAttempts + 3
      [] pc[t] = "raised" /\ ~rescue[t]     -> 2 * MaxAttempts + 4
      [] pc[t] = "served"                   -> 2 * MaxAttempts + 5
      [] pc[t] = "sending"                  -> 2 * MaxAttempts + 6
      [] pc[t] = "attach"                   -> 2 * MaxAttempts + 7
      [] pc[t] = "granting" /\ ~rescue[t]   -> 2 * MaxAttempts + 7 + posts
      [] pc[t] = "refreshing" /\ ~rescue[t] -> 3 * MaxAttempts + 7 + posts
      [] pc[t] = "ensure" /\ ~rescue[t]     -> StepsPerAttempt

StepsLeft(t) ==
    CASE pc[t] = "idle"     -> 0
      [] pc[t] = "returned" -> 1
      [] OTHER -> (MaxAttempts - 1 - attempt[t]) * StepsPerAttempt + StepsInAttempt(t)

\* Where a call stands in the loops of request() and _post_token() and in the
\* grant of the handler of a 401.
Position(t) == <<pc[t], attempt[t], rescue[t], postTry[t]>>

\* No call of request() goes round for ever, however often others clear its
\* token.  Whatever moves a call brings it nearer to its end, the change of
\* exchange after a refused refresh token and the token of another thread found in
\* the handler of a 401 included; what the other threads do never moves it.
CallsRunDown ==
    [][\A t \in Threads :
          pc[t] # "idle" /\ Position(t)' # Position(t)
              => StepsLeft(t)' \in 0 .. StepsLeft(t) - 1]_vars

\* Every behaviour of the client is one of the abstract remote call.  To a
\* caller who asks whether the call took effect, a persisting rate limit says no
\* more than a lost connection.
Phase(t) ==
    CASE pc[t] = "idle" -> "idle"
      [] pc[t] = "returned" -> IF error[t] = "rate" THEN "conn" ELSE error[t]
      [] OTHER -> "pending"

Abstract == INSTANCE RemoteCall WITH
    phase <- [t \in Threads |-> Phase(t)],
    effects <- applied

ImplementsRemoteCall == Abstract!Spec
=============================================================================
