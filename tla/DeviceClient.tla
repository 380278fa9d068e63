----------------------------- MODULE DeviceClient -----------------------------
(***************************************************************************)
(* PeplinkDeviceClient (peplink_core/client.py): one credential tier of    *)
(* one device, shared by the threads that call it.  A call loops over up   *)
(* to MaxAttempts raw requests; each first makes sure, under the client's  *)
(* lock, that a token (client credentials) or a session cookie (user and   *)
(* password) is held, granting one if not, then reads the credential       *)
(* without the lock, sends the request and classifies the answer.          *)
(*                                                                         *)
(* A step is what one thread does between two points where another thread  *)
(* can run: taking the lock, a round trip to the device, each unlocked     *)
(* read of the credential, each clearing of it.  The device is external:   *)
(* it may carry a request out and lose the answer, answer "Internal        *)
(* Error", refuse the credential at any time, or fail the call.            *)
(***************************************************************************)
EXTENDS Integers, FiniteSets

CONSTANTS
    Threads,      \* threads that share the client
    Credentials,  \* tokens and session cookies the device may hand out, by number
    None,         \* the Python None of an absent credential or lock holder
    AuthKinds,    \* subset of {"client_credentials", "userpass"}
    MaxAttempts   \* MAX_ATTEMPTS of the code

ASSUME ThreadsAssumption == None \notin Threads
ASSUME CredentialsAssumption == Credentials \subseteq Nat /\ None \notin Credentials
ASSUME KindsAssumption == AuthKinds \subseteq {"client_credentials", "userpass"}
ASSUME AttemptsAssumption == MaxAttempts \in Nat \ {0}

VARIABLES
    kind,         \* the type of self.auth: fixed when the client is built
    lock,         \* the thread holding self._lock
    credential,   \* self._access_token, or self._cookie_name and _cookie_value
    fresh,        \* time.monotonic() < self._token_expires_at
    pc,           \* where the thread is
    authed,       \* request(), not request_unauthenticated()
    attempt,      \* the loop variable of request()
    rescue,       \* ensure_authenticated() was called by request()'s handler
    grantTry,     \* the loop variable of _grant_token()
    sent,         \* the credential copied into the request in flight
    reply,        \* what the device made of that request
    error,        \* the exception on its way up, or the call's outcome
    \* history of the running call, read only by the properties
    applied,      \* times the device carried the request out
    unconfirmed,  \* of those, the ones whose answer was lost
    rejected      \* credentials the device answered 401 to

shared == <<kind, lock, credential, fresh>>
progress == <<authed, attempt, rescue, grantTry>>
exchange == <<sent, reply>>
history == <<applied, unconfirmed, rejected>>
vars == <<shared, pc, progress, exchange, error, history>>

Locations == {"idle", "ensure", "posting", "build", "attach",
              "sending", "served", "raised", "returned"}

Errors == {"conn", "internal", "api", "auth"}

Replies == [kind : {"ok"} \cup Errors, applied : BOOLEAN]

\* The values of the loop variables of request() and _grant_token().
Tries == 0 .. MaxAttempts - 1

NoReply == [kind |-> "conn", applied |-> FALSE]

(***************************************************************************)
(* A request made without a credential, or refused for the one it carries, *)
(* has no effect.  A confirmed request has taken effect; any other answer  *)
(* leaves the caller in doubt.                                             *)
(***************************************************************************)
PossibleReplies(t) ==
    { r \in Replies :
        /\ r.kind = "ok" => r.applied
        /\ r.kind = "auth" => authed[t] /\ ~r.applied
        /\ authed[t] /\ sent[t] = None => r.kind \in {"auth", "conn"} /\ ~r.applied }

\* Credentials somebody still remembers.  The device issues the lowest of the
\* others, so that runs which differ in the names of credentials are one run.
InUse == {credential} \cup {sent[t] : t \in Threads} \cup UNION {rejected[t] : t \in Threads}

Unused == Credentials \ InUse

Init ==
    /\ kind \in AuthKinds
    /\ lock = None
    /\ credential = None
    /\ fresh = FALSE
    /\ pc = [t \in Threads |-> "idle"]
    /\ authed = [t \in Threads |-> TRUE]
    /\ attempt = [t \in Threads |-> 0]
    /\ rescue = [t \in Threads |-> FALSE]
    /\ grantTry = [t \in Threads |-> 0]
    /\ sent = [t \in Threads |-> None]
    /\ reply = [t \in Threads |-> NoReply]
    /\ error = [t \in Threads |-> "none"]
    /\ applied = [t \in Threads |-> 0]
    /\ unconfirmed = [t \in Threads |-> 0]
    /\ rejected = [t \in Threads |-> {}]

-----------------------------------------------------------------------------
(* Helpers of the handlers.  An operator defined just before another with  *)
(* the same parameters is a fault of the code that the properties are      *)
(* tested against; the specification does not use it.                      *)

\* The test ensure_authenticated() makes under the lock.
NeverHeld == FALSE
AlwaysHeld == TRUE
Usable == credential # None /\ fresh

KeepAuth == UNCHANGED <<credential, fresh>>
ClearAuth == credential' = None /\ fresh' = FALSE

\* _is_transient_error(exc).
AnyError(e) == TRUE
IsTransient(e) == e \in {"conn", "internal"}

OneAttemptMore(t) == attempt[t] < MaxAttempts
HasMoreAttempts(t) == attempt[t] < MaxAttempts - 1

Goto(t, location) == pc' = [pc EXCEPT ![t] = location]

KeepLock == UNCHANGED lock
ReleaseLock == lock' = None

\* Only the loop of request() catches, and not what its handler calls.
UncaughtOutsideLoop(t) == ~authed[t]
Uncaught(t) == ~authed[t] \/ rescue[t]

\* The request in flight is over: what was copied for it is gone.
EndExchange(t) ==
    /\ sent' = [sent EXCEPT ![t] = None]
    /\ reply' = [reply EXCEPT ![t] = NoReply]

\* The loop of _grant_token() is left, or not entered yet.
ResetGrantTry(t) == grantTry' = [grantTry EXCEPT ![t] = 0]

\* An exception leaves the running code of the thread, or is caught.
Caught(t) == error' = [error EXCEPT ![t] = "none"]

Raise(t, e) ==
    /\ error' = [error EXCEPT ![t] = e]
    /\ Goto(t, "raised")

SameAttempt(t) ==
    /\ rescue' = [rescue EXCEPT ![t] = FALSE]
    /\ Goto(t, "ensure")
    /\ UNCHANGED attempt

NextAttempt(t) ==
    /\ attempt' = [attempt EXCEPT ![t] = @ + 1]
    /\ rescue' = [rescue EXCEPT ![t] = FALSE]
    /\ Goto(t, "ensure")

\* The call returns or raises to its caller; its locals are gone.
Leave(t) ==
    /\ Goto(t, "returned")
    /\ authed' = [authed EXCEPT ![t] = TRUE]
    /\ attempt' = [attempt EXCEPT ![t] = 0]
    /\ rescue' = [rescue EXCEPT ![t] = FALSE]

\* The login of the handler does not cost its attempt.
HandlerUncounted(t) ==
    IF rescue[t]
    THEN SameAttempt(t)
    ELSE Goto(t, "build") /\ UNCHANGED <<attempt, rescue>>

\* ensure_authenticated() returned to _raw_request() or to request()'s handler.
Authenticated(t) ==
    IF rescue[t]
    THEN NextAttempt(t)
    ELSE Goto(t, "build") /\ UNCHANGED <<attempt, rescue>>

-----------------------------------------------------------------------------
(* The start and the end of a call.                                        *)

Request(t) ==
    /\ pc[t] = "idle"
    /\ authed' = [authed EXCEPT ![t] = TRUE]
    /\ Goto(t, "ensure")
    /\ UNCHANGED <<shared, attempt, rescue, grantTry, exchange, error, history>>

RequestUnauthenticated(t) ==
    /\ pc[t] = "idle"
    /\ authed' = [authed EXCEPT ![t] = FALSE]
    /\ Goto(t, "sending")
    /\ UNCHANGED <<shared, attempt, rescue, grantTry, exchange, error, history>>

\* The caller has the outcome.
Return(t) ==
    /\ pc[t] = "returned"
    /\ Goto(t, "idle")
    /\ error' = [error EXCEPT ![t] = "none"]
    /\ applied' = [applied EXCEPT ![t] = 0]
    /\ unconfirmed' = [unconfirmed EXCEPT ![t] = 0]
    /\ rejected' = [rejected EXCEPT ![t] = {}]
    /\ UNCHANGED <<shared, progress, exchange>>

-----------------------------------------------------------------------------
(* ensure_authenticated(), _grant_token() and _login().                    *)

\* The lock is taken, a usable credential is found, the lock is released.
EnsureFindsCredential(t) ==
    /\ pc[t] = "ensure"
    /\ lock = None
    /\ Usable
    /\ Authenticated(t)
    /\ UNCHANGED <<shared, authed, grantTry, exchange, error, history>>

\* The lock is taken and kept for the whole grant or login.
EnsureStartsGrant(t) ==
    /\ pc[t] = "ensure"
    /\ lock = None
    /\ ~Usable
    /\ lock' = t
    /\ ResetGrantTry(t)
    /\ Goto(t, "posting")
    /\ UNCHANGED <<kind, credential, fresh, authed, attempt, rescue, exchange, error, history>>

Granted(t) ==
    /\ pc[t] = "posting"
    /\ \E c \in Unused : (\A d \in Unused : c <= d) /\ credential' = c
    /\ fresh' = TRUE
    /\ ReleaseLock
    /\ Authenticated(t)
    /\ ResetGrantTry(t)
    /\ UNCHANGED <<kind, authed, exchange, error, history>>

\* _grant_token() repeats a grant the device answered with "Internal Error".
\* A transport error is no PeplinkAPIError and leaves its loop at once, and
\* _login() posts a single time.
GrantRepeated(t) ==
    /\ pc[t] = "posting"
    /\ kind = "client_credentials"
    /\ grantTry[t] < MaxAttempts - 1
    /\ grantTry' = [grantTry EXCEPT ![t] = @ + 1]
    /\ UNCHANGED <<shared, pc, authed, attempt, rescue, exchange, error, history>>

\* What the grant or the login may raise.  A refused grant is stat=fail
\* ("api"); a grant without accessToken and every refused login are "auth".
PostErrors(t) ==
    CASE kind = "userpass" -> {"conn", "auth"}
      [] grantTry[t] < MaxAttempts - 1 -> {"conn", "api", "auth"}
      [] OTHER -> Errors

PostFailed(t) ==
    /\ pc[t] = "posting"
    /\ \E e \in PostErrors(t) : Raise(t, e)
    /\ ReleaseLock
    /\ ResetGrantTry(t)
    /\ UNCHANGED <<kind, credential, fresh, authed, attempt, rescue, exchange, history>>

-----------------------------------------------------------------------------
(* _build_url(), _auth_query() and _auth_headers(): the credential is      *)
(* tested and then read again, both without the lock.                      *)

TestCredential(t) ==
    /\ pc[t] = "build"
    /\ IF credential = None
       THEN Raise(t, "auth")
       ELSE Goto(t, "attach") /\ UNCHANGED error
    /\ UNCHANGED <<shared, progress, exchange, history>>

AttachCredential(t) ==
    /\ pc[t] = "attach"
    /\ sent' = [sent EXCEPT ![t] = credential]
    /\ Goto(t, "sending")
    /\ UNCHANGED <<shared, progress, reply, error, history>>

-----------------------------------------------------------------------------
(* The exchange with the device, and the classification of its answer.     *)

Serve(t) ==
    /\ pc[t] = "sending"
    /\ \E r \in PossibleReplies(t) :
        /\ reply' = [reply EXCEPT ![t] = r]
        /\ applied' = [applied EXCEPT ![t] = IF r.applied THEN @ + 1 ELSE @]
    /\ Goto(t, "served")
    /\ UNCHANGED <<shared, progress, sent, error, unconfirmed, rejected>>

ReceiveSuccess(t) ==
    /\ pc[t] = "served"
    /\ reply[t].kind = "ok"
    /\ Leave(t)
    /\ error' = [error EXCEPT ![t] = "ok"]
    /\ EndExchange(t)
    /\ UNCHANGED <<shared, grantTry, history>>

\* HTTP 401 or code 401: the credential held is dropped before the raise.
ReceiveRejection(t) ==
    /\ pc[t] = "served"
    /\ reply[t].kind = "auth"
    /\ ClearAuth
    /\ Raise(t, "auth")
    /\ rejected' = [rejected EXCEPT ![t] = @ \cup ({sent[t]} \ {None})]
    /\ EndExchange(t)
    /\ UNCHANGED <<kind, lock, progress, applied, unconfirmed>>

\* No answer, HTTP 5xx, not JSON ("conn"); stat=fail ("internal", "api").
\* Only the last is the device's own word on what it did with the request.
ReceiveFailure(t) ==
    /\ pc[t] = "served"
    /\ reply[t].kind \in {"conn", "internal", "api"}
    /\ Raise(t, reply[t].kind)
    /\ unconfirmed' = [unconfirmed EXCEPT ![t] =
                          IF reply[t].kind = "api" THEN @ ELSE applied[t]]
    /\ EndExchange(t)
    /\ UNCHANGED <<shared, progress, applied, rejected>>

-----------------------------------------------------------------------------
(* The except clauses of request().                                        *)

\* except PeplinkAuthError: clear, give up on the last attempt, else log in.
HandleAuthError(t) ==
    /\ pc[t] = "raised"
    /\ ~Uncaught(t)
    /\ error[t] = "auth"
    /\ ClearAuth
    /\ IF HasMoreAttempts(t)
       THEN /\ rescue' = [rescue EXCEPT ![t] = TRUE]
            /\ Caught(t)
            /\ Goto(t, "ensure")
            /\ UNCHANGED <<authed, attempt>>
       ELSE Leave(t) /\ UNCHANGED error
    /\ UNCHANGED <<kind, lock, grantTry, exchange, history>>

\* except (PeplinkConnectionError, PeplinkAPIError): again if transient.
HandleOtherError(t) ==
    /\ pc[t] = "raised"
    /\ ~Uncaught(t)
    /\ error[t] # "auth"
    /\ IF IsTransient(error[t]) /\ HasMoreAttempts(t)
       THEN NextAttempt(t) /\ Caught(t) /\ UNCHANGED authed
       ELSE Leave(t) /\ UNCHANGED error
    /\ UNCHANGED <<shared, grantTry, exchange, history>>

\* Nothing catches what ensure_authenticated() raises inside the handler, nor
\* what request_unauthenticated() raises.
Propagate(t) ==
    /\ pc[t] = "raised"
    /\ Uncaught(t)
    /\ Leave(t)
    /\ UNCHANGED <<shared, grantTry, exchange, error, history>>

-----------------------------------------------------------------------------
(* Time: the local expiry of a token passes.  A cookie has none.           *)
Expire ==
    /\ kind = "client_credentials"
    /\ fresh
    /\ fresh' = FALSE
    /\ UNCHANGED <<kind, lock, credential, pc, progress, exchange, error, history>>

\* What a thread does by itself once it is inside a call.
Advance(t) ==
    \/ EnsureFindsCredential(t)
    \/ EnsureStartsGrant(t)
    \/ Granted(t)
    \/ GrantRepeated(t)
    \/ PostFailed(t)
    \/ TestCredential(t)
    \/ AttachCredential(t)
    \/ Serve(t)
    \/ ReceiveSuccess(t)
    \/ ReceiveRejection(t)
    \/ ReceiveFailure(t)
    \/ HandleAuthError(t)
    \/ HandleOtherError(t)
    \/ Propagate(t)
    \/ Return(t)

Next ==
    \/ \E t \in Threads : Request(t) \/ RequestUnauthenticated(t) \/ Advance(t)
    \/ Expire

Spec == Init /\ [][Next]_vars

-----------------------------------------------------------------------------
(* Properties.                                                             *)

TypeOK ==
    /\ kind \in AuthKinds
    /\ lock \in Threads \cup {None}
    /\ credential \in Credentials \cup {None}
    /\ fresh \in BOOLEAN
    /\ pc \in [Threads -> Locations]
    /\ authed \in [Threads -> BOOLEAN]
    /\ attempt \in [Threads -> Tries]
    /\ rescue \in [Threads -> BOOLEAN]
    /\ grantTry \in [Threads -> Tries]
    /\ sent \in [Threads -> Credentials \cup {None}]
    /\ reply \in [Threads -> Replies]
    /\ error \in [Threads -> Errors \cup {"ok", "none"}]
    /\ applied \in [Threads -> Nat]
    /\ unconfirmed \in [Threads -> Nat]
    /\ rejected \in [Threads -> SUBSET Credentials]

\* The lock and the test repeated under it (ensure_authenticated): at most one
\* grant or login is in flight, none while an unexpired credential is held, even
\* when another thread granted one while this thread waited for the lock, and
\* whatever the grant or the login raises gives the lock back.
SingleFlight ==
    \A t \in Threads :
        /\ pc[t] = "posting" <=> lock = t
        /\ pc[t] = "posting" => ~(credential # None /\ fresh)

\* A credential the device answered 401 to is never sent again by that call:
\* the retry after a 401 (_raw_request, request) carries another credential,
\* whatever other threads grant or clear meanwhile.
NeverResendRejected ==
    \A t \in Threads : pc[t] = "sending" => sent[t] \notin rejected[t]

\* Steps the running call may still take by itself.  Each of its attempts counts
\* down from the "ensure" of _raw_request() to the exception that leaves the
\* handler; `grants' are the posts _grant_token() has left.
StepsPerAttempt == 2 * MaxAttempts + 9

StepsInAttempt(t) ==
    LET grants == MaxAttempts - grantTry[t] IN
    CASE pc[t] = "raised" /\ rescue[t]   -> 2
      [] pc[t] = "posting" /\ rescue[t]  -> 2 + grants
      [] pc[t] = "ensure" /\ rescue[t]   -> MaxAttempts + 3
      [] pc[t] = "raised" /\ ~rescue[t]  -> MaxAttempts + 4
      [] pc[t] = "served"                -> MaxAttempts + 5
      [] pc[t] = "sending"               -> MaxAttempts + 6
      [] pc[t] = "attach"                -> MaxAttempts + 7
      [] pc[t] = "build"                 -> MaxAttempts + 8
      [] pc[t] = "posting" /\ ~rescue[t] -> MaxAttempts + 8 + grants
      [] pc[t] = "ensure" /\ ~rescue[t]  -> StepsPerAttempt

StepsLeft(t) ==
    CASE pc[t] = "idle"     -> 0
      [] pc[t] = "returned" -> 1
      [] OTHER -> (MaxAttempts - 1 - attempt[t]) * StepsPerAttempt + StepsInAttempt(t)

\* Where a call stands in the three loops: those of request() and _grant_token(),
\* and the login in the handler of a 401.
Position(t) == <<pc[t], attempt[t], rescue[t], grantTry[t]>>

\* No call of request() goes round for ever, however often the others clear the
\* credential it has just been granted.  Whatever moves a call brings it nearer to
\* its end: its own steps, finding in the handler of a 401 the credential another
\* thread was granted (from "ensure" to the "ensure" of the next attempt)
\* included; what the other threads do never moves it, so never sets it back.
CallsRunDown ==
    [][\A t \in Threads :
          pc[t] # "idle" /\ Position(t)' # Position(t)
              => StepsLeft(t)' \in 0 .. StepsLeft(t) - 1]_vars

\* Whatever the client does is a behaviour of the abstract remote call: a
\* repeated request, POST included, takes effect again only when the answer to
\* the previous effect was lost, and success is only reported for a confirmed
\* effect.
Phase(t) ==
    CASE pc[t] = "idle" -> "idle"
      [] pc[t] = "returned" -> error[t]
      [] OTHER -> "pending"

Abstract == INSTANCE RemoteCall WITH
    phase <- [t \in Threads |-> Phase(t)],
    effects <- applied,
    unconfirmed <- unconfirmed

ImplementsRemoteCall == Abstract!Spec
=============================================================================
