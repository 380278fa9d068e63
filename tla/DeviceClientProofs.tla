-------------------------- MODULE DeviceClientProofs --------------------------
(***************************************************************************)
(* Proofs about DeviceClient and DeviceCallBudget for any number of        *)
(* threads and attempts.                                                   *)
(***************************************************************************)
EXTENDS DeviceCallBudget, TLAPS

\* The loop variables start inside their range, and the test the loops make
\* before they go on keeps them inside.
LEMMA TriesFacts ==
    /\ MaxAttempts \in Int
    /\ Tries \subseteq Int
    /\ 0 \in Tries
    /\ \A n \in Tries : n < MaxAttempts - 1 => n + 1 \in Tries
BY AttemptsAssumption DEF Tries

\* request()'s handler calls ensure_authenticated() only when an attempt is
\* left, so the attempt that follows stays below MAX_ATTEMPTS.
TypeInv ==
    /\ TypeOK
    /\ \A t \in Threads : rescue[t] => attempt[t] < MaxAttempts - 1

\* The loop of request() goes on only when an attempt is left.
LEMMA NextAttemptTyped ==
    ASSUME NEW t \in Threads, TypeInv, attempt[t] < MaxAttempts - 1, NextAttempt(t)
    PROVE  /\ attempt' \in [Threads -> Tries]
           /\ rescue' \in [Threads -> BOOLEAN]
           /\ pc' \in [Threads -> Locations]
           /\ \A u \in Threads : rescue'[u] => attempt'[u] < MaxAttempts - 1
<1>1. attempt[t] + 1 \in Tries
  BY TriesFacts DEF TypeInv, TypeOK
<1>2. QED
  BY <1>1 DEF TypeInv, TypeOK, NextAttempt, Goto, Locations

\* The locals of every call of request() stay in their sets, and the attempt
\* counters below MAX_ATTEMPTS.
THEOREM TypeInvariant == Spec => []TypeInv
<1>1. Init => TypeInv
  <2>. SUFFICES ASSUME Init PROVE TypeInv
    OBVIOUS
  <2>1. reply \in [Threads -> Replies]
    BY DEF Init, Replies, NoReply, Errors
  <2>2. /\ attempt \in [Threads -> Tries]
        /\ grantTry \in [Threads -> Tries]
        /\ \A t \in Threads : ~rescue[t]
    BY TriesFacts DEF Init
  <2>3. /\ pc \in [Threads -> Locations]
        /\ authed \in [Threads -> BOOLEAN]
        /\ rescue \in [Threads -> BOOLEAN]
        /\ sent \in [Threads -> Credentials \cup {None}]
        /\ error \in [Threads -> Errors \cup {"ok", "none"}]
    BY DEF Init, Locations
  <2>4. /\ applied \in [Threads -> Nat]
        /\ unconfirmed \in [Threads -> Nat]
        /\ rejected \in [Threads -> SUBSET Credentials]
    BY DEF Init
  <2>5. /\ kind \in AuthKinds
        /\ lock \in Threads \cup {None}
        /\ credential \in Credentials \cup {None}
        /\ fresh \in BOOLEAN
    BY DEF Init
  <2>6. QED
    BY <2>1, <2>2, <2>3, <2>4, <2>5 DEF TypeInv, TypeOK
<1>2. TypeInv /\ [Next]_vars => TypeInv'
  <2>. SUFFICES ASSUME TypeInv, [Next]_vars PROVE TypeInv'
    OBVIOUS
  <2>. USE ThreadsAssumption, CredentialsAssumption, TriesFacts DEF TypeInv,
       TypeOK, Locations, Errors, Replies, NoReply, Goto, shared, progress,
       exchange, history
  <2>1. ASSUME NEW t \in Threads, Request(t) PROVE TypeInv'
    BY <2>1 DEF Request
  <2>2. ASSUME NEW t \in Threads, RequestUnauthenticated(t) PROVE TypeInv'
    BY <2>2 DEF RequestUnauthenticated
  <2>3. ASSUME NEW t \in Threads, EnsureFindsCredential(t) PROVE TypeInv'
    <3>1. CASE rescue[t]
      BY <2>3, <3>1, NextAttemptTyped DEF EnsureFindsCredential, Authenticated
    <3>2. CASE ~rescue[t]
      BY <2>3, <3>2 DEF EnsureFindsCredential, Authenticated
    <3>3. QED
      BY <3>1, <3>2
  <2>4. ASSUME NEW t \in Threads, EnsureStartsGrant(t) PROVE TypeInv'
    BY <2>4 DEF EnsureStartsGrant, ResetGrantTry
  <2>5. ASSUME NEW t \in Threads, Granted(t) PROVE TypeInv'
    <3>1. CASE rescue[t]
      BY <2>5, <3>1, NextAttemptTyped DEF Granted, Authenticated, ReleaseLock,
         ResetGrantTry, Unused
    <3>2. CASE ~rescue[t]
      BY <2>5, <3>2 DEF Granted, Authenticated, ReleaseLock,
         ResetGrantTry, Unused
    <3>3. QED
      BY <3>1, <3>2
  <2>6. ASSUME NEW t \in Threads, GrantRepeated(t) PROVE TypeInv'
    BY <2>6 DEF GrantRepeated
  <2>7. ASSUME NEW t \in Threads, PostFailed(t) PROVE TypeInv'
    BY <2>7 DEF PostFailed, Raise, ReleaseLock, ResetGrantTry,
       PostErrors, Errors
  <2>8. ASSUME NEW t \in Threads, TestCredential(t) PROVE TypeInv'
    BY <2>8 DEF TestCredential, Raise
  <2>9. ASSUME NEW t \in Threads, AttachCredential(t) PROVE TypeInv'
    BY <2>9 DEF AttachCredential
  <2>10. ASSUME NEW t \in Threads, Serve(t) PROVE TypeInv'
    BY <2>10 DEF Serve, PossibleReplies
  <2>11. ASSUME NEW t \in Threads, ReceiveSuccess(t) PROVE TypeInv'
    BY <2>11 DEF ReceiveSuccess, Leave, EndExchange
  <2>12. ASSUME NEW t \in Threads, ReceiveRejection(t) PROVE TypeInv'
    BY <2>12 DEF ReceiveRejection, ClearAuth, Raise, EndExchange
  <2>13. ASSUME NEW t \in Threads, ReceiveFailure(t) PROVE TypeInv'
    BY <2>13 DEF ReceiveFailure, Raise, EndExchange
  <2>14. ASSUME NEW t \in Threads, HandleAuthError(t) PROVE TypeInv'
    <3>1. CASE HasMoreAttempts(t)
      <4>1. /\ rescue' = [rescue EXCEPT ![t] = TRUE]
            /\ attempt' = attempt
            /\ attempt[t] < MaxAttempts - 1
        BY <2>14, <3>1 DEF HandleAuthError, HasMoreAttempts
      <4>2. \A u \in Threads : rescue'[u] => attempt'[u] < MaxAttempts - 1
        BY <4>1
      <4>3. QED
        BY <2>14, <3>1, <4>1, <4>2 DEF HandleAuthError, ClearAuth, Caught
    <3>2. CASE ~HasMoreAttempts(t)
      <4>1. Leave(t) /\ UNCHANGED error
        BY <2>14, <3>2 DEF HandleAuthError, HasMoreAttempts
      <4>2. ClearAuth /\ UNCHANGED <<kind, lock, grantTry, exchange, history>>
        BY <2>14 DEF HandleAuthError
      <4>3. QED
        BY <4>1, <4>2 DEF Leave, ClearAuth
    <3>3. QED
      BY <3>1, <3>2
  <2>15. ASSUME NEW t \in Threads, HandleOtherError(t) PROVE TypeInv'
    <3>1. CASE IsTransient(error[t]) /\ HasMoreAttempts(t)
      <4>1. NextAttempt(t) /\ attempt[t] < MaxAttempts - 1
        BY <2>15, <3>1 DEF HandleOtherError, HasMoreAttempts
      <4>2. QED
        BY <2>15, <3>1, <4>1, NextAttemptTyped DEF HandleOtherError, Caught
    <3>2. CASE ~(IsTransient(error[t]) /\ HasMoreAttempts(t))
      <4>1. Leave(t) /\ UNCHANGED error
        BY <2>15, <3>2 DEF HandleOtherError, IsTransient, HasMoreAttempts
      <4>2. UNCHANGED <<shared, grantTry, exchange, history>>
        BY <2>15 DEF HandleOtherError
      <4>3. QED
        BY <4>1, <4>2 DEF Leave
    <3>3. QED
      BY <3>1, <3>2
  <2>16. ASSUME NEW t \in Threads, Propagate(t) PROVE TypeInv'
    BY <2>16 DEF Propagate, Leave
  <2>17. ASSUME NEW t \in Threads, Return(t) PROVE TypeInv'
    BY <2>17 DEF Return
  <2>18. CASE Expire
    BY <2>18 DEF Expire
  <2>19. CASE UNCHANGED vars
    BY <2>19 DEF vars
  <2>20. QED
    BY <2>1, <2>2, <2>3, <2>4, <2>5, <2>6, <2>7, <2>8, <2>9, <2>10,
       <2>11, <2>12, <2>13, <2>14, <2>15, <2>16, <2>17, <2>18, <2>19 DEF
       Next, Advance
<1>3. QED
  BY <1>1, <1>2, PTL DEF Spec

\* The type invariant of DeviceClient.
THEOREM Typing == Spec => []TypeOK
<1>1. TypeInv => TypeOK
  BY DEF TypeInv
<1>2. QED
  BY <1>1, TypeInvariant, PTL

\* ensure_authenticated(): the lock and the test made under it keep the grants
\* and logins of any number of threads from overlapping, and none starts while
\* an unexpired credential is held.
THEOREM OneGrantInFlight == Spec => []SingleFlight
<1>1. Init => SingleFlight
  BY ThreadsAssumption, CredentialsAssumption DEF Init, SingleFlight,
     TypeOK, Locations
<1>2. SingleFlight /\ TypeOK /\ [Next]_vars => SingleFlight'
  <2>. SUFFICES ASSUME SingleFlight, TypeOK, [Next]_vars PROVE SingleFlight'
    OBVIOUS
  <2>. USE ThreadsAssumption, CredentialsAssumption DEF SingleFlight,
       TypeOK, Locations, Goto, shared, progress, exchange, history, Usable
  <2>1. ASSUME NEW t \in Threads, Request(t) PROVE SingleFlight'
    BY <2>1 DEF Request
  <2>2. ASSUME NEW t \in Threads, RequestUnauthenticated(t) PROVE SingleFlight'
    BY <2>2 DEF RequestUnauthenticated
  <2>3. ASSUME NEW t \in Threads, EnsureFindsCredential(t) PROVE SingleFlight'
    BY <2>3 DEF EnsureFindsCredential, Authenticated, NextAttempt
  <2>4. ASSUME NEW t \in Threads, EnsureStartsGrant(t) PROVE SingleFlight'
    BY <2>4 DEF EnsureStartsGrant, ResetGrantTry
  <2>5. ASSUME NEW t \in Threads, Granted(t) PROVE SingleFlight'
    BY <2>5 DEF Granted, Authenticated, NextAttempt, ReleaseLock,
       ResetGrantTry, Unused
  <2>6. ASSUME NEW t \in Threads, GrantRepeated(t) PROVE SingleFlight'
    BY <2>6 DEF GrantRepeated
  <2>7. ASSUME NEW t \in Threads, PostFailed(t) PROVE SingleFlight'
    BY <2>7 DEF PostFailed, Raise, ReleaseLock, ResetGrantTry,
       PostErrors, Errors
  <2>8. ASSUME NEW t \in Threads, TestCredential(t) PROVE SingleFlight'
    BY <2>8 DEF TestCredential, Raise
  <2>9. ASSUME NEW t \in Threads, AttachCredential(t) PROVE SingleFlight'
    BY <2>9 DEF AttachCredential
  <2>10. ASSUME NEW t \in Threads, Serve(t) PROVE SingleFlight'
    BY <2>10 DEF Serve, PossibleReplies
  <2>11. ASSUME NEW t \in Threads, ReceiveSuccess(t) PROVE SingleFlight'
    BY <2>11 DEF ReceiveSuccess, Leave, EndExchange
  <2>12. ASSUME NEW t \in Threads, ReceiveRejection(t) PROVE SingleFlight'
    BY <2>12 DEF ReceiveRejection, ClearAuth, Raise, EndExchange
  <2>13. ASSUME NEW t \in Threads, ReceiveFailure(t) PROVE SingleFlight'
    BY <2>13 DEF ReceiveFailure, Raise, EndExchange
  <2>14. ASSUME NEW t \in Threads, HandleAuthError(t) PROVE SingleFlight'
    BY <2>14 DEF HandleAuthError, ClearAuth, Leave, Caught
  <2>15. ASSUME NEW t \in Threads, HandleOtherError(t) PROVE SingleFlight'
    BY <2>15 DEF HandleOtherError, NextAttempt, Caught, Leave
  <2>16. ASSUME NEW t \in Threads, Propagate(t) PROVE SingleFlight'
    BY <2>16 DEF Propagate, Leave
  <2>17. ASSUME NEW t \in Threads, Return(t) PROVE SingleFlight'
    BY <2>17 DEF Return
  <2>18. CASE Expire
    BY <2>18 DEF Expire
  <2>19. CASE UNCHANGED vars
    BY <2>19 DEF vars
  <2>20. QED
    BY <2>1, <2>2, <2>3, <2>4, <2>5, <2>6, <2>7, <2>8, <2>9, <2>10,
       <2>11, <2>12, <2>13, <2>14, <2>15, <2>16, <2>17, <2>18, <2>19 DEF
       Next, Advance
<1>3. QED
  BY <1>1, <1>2, Typing, PTL DEF Spec

\* The strengthening of NeverResendRejected: the credential held is one no
\* running call was refused with, and so is the one copied into a request, up
\* to the moment its own refusal arrives.
RejectedInv ==
    \A t \in Threads :
        /\ credential \notin rejected[t]
        /\ pc[t] # "served" => sent[t] \notin rejected[t]

\* A refusal clears what is held (_clear_auth) before the refused credential
\* is remembered, and a grant brings one nobody remembers.
THEOREM RejectedInvariant == Spec => []RejectedInv
<1>1. Init => RejectedInv
  BY ThreadsAssumption, CredentialsAssumption DEF Init, RejectedInv,
     TypeOK, Locations
<1>2. RejectedInv /\ TypeOK /\ [Next]_vars => RejectedInv'
  <2>. SUFFICES ASSUME RejectedInv, TypeOK, [Next]_vars PROVE RejectedInv'
    OBVIOUS
  <2>. USE ThreadsAssumption, CredentialsAssumption DEF RejectedInv, TypeOK,
       Locations, Goto, shared, progress, exchange, history
  <2>1. ASSUME NEW t \in Threads, Request(t) PROVE RejectedInv'
    BY <2>1 DEF Request
  <2>2. ASSUME NEW t \in Threads, RequestUnauthenticated(t) PROVE RejectedInv'
    BY <2>2 DEF RequestUnauthenticated
  <2>3. ASSUME NEW t \in Threads, EnsureFindsCredential(t) PROVE RejectedInv'
    BY <2>3 DEF EnsureFindsCredential, Authenticated, NextAttempt
  <2>4. ASSUME NEW t \in Threads, EnsureStartsGrant(t) PROVE RejectedInv'
    BY <2>4 DEF EnsureStartsGrant, ResetGrantTry
  <2>5. ASSUME NEW t \in Threads, Granted(t) PROVE RejectedInv'
    BY <2>5 DEF Granted, Authenticated, NextAttempt, ReleaseLock,
       ResetGrantTry, Unused, InUse
  <2>6. ASSUME NEW t \in Threads, GrantRepeated(t) PROVE RejectedInv'
    BY <2>6 DEF GrantRepeated
  <2>7. ASSUME NEW t \in Threads, PostFailed(t) PROVE RejectedInv'
    BY <2>7 DEF PostFailed, Raise, ReleaseLock, ResetGrantTry,
       PostErrors, Errors
  <2>8. ASSUME NEW t \in Threads, TestCredential(t) PROVE RejectedInv'
    BY <2>8 DEF TestCredential, Raise
  <2>9. ASSUME NEW t \in Threads, AttachCredential(t) PROVE RejectedInv'
    BY <2>9 DEF AttachCredential
  <2>10. ASSUME NEW t \in Threads, Serve(t) PROVE RejectedInv'
    BY <2>10 DEF Serve, PossibleReplies
  <2>11. ASSUME NEW t \in Threads, ReceiveSuccess(t) PROVE RejectedInv'
    BY <2>11 DEF ReceiveSuccess, Leave, EndExchange
  <2>12. ASSUME NEW t \in Threads, ReceiveRejection(t) PROVE RejectedInv'
    BY <2>12 DEF ReceiveRejection, ClearAuth, Raise, EndExchange
  <2>13. ASSUME NEW t \in Threads, ReceiveFailure(t) PROVE RejectedInv'
    BY <2>13 DEF ReceiveFailure, Raise, EndExchange
  <2>14. ASSUME NEW t \in Threads, HandleAuthError(t) PROVE RejectedInv'
    BY <2>14 DEF HandleAuthError, ClearAuth, Leave, Caught
  <2>15. ASSUME NEW t \in Threads, HandleOtherError(t) PROVE RejectedInv'
    BY <2>15 DEF HandleOtherError, NextAttempt, Caught, Leave
  <2>16. ASSUME NEW t \in Threads, Propagate(t) PROVE RejectedInv'
    BY <2>16 DEF Propagate, Leave
  <2>17. ASSUME NEW t \in Threads, Return(t) PROVE RejectedInv'
    BY <2>17 DEF Return
  <2>18. CASE Expire
    BY <2>18 DEF Expire
  <2>19. CASE UNCHANGED vars
    BY <2>19 DEF vars
  <2>20. QED
    BY <2>1, <2>2, <2>3, <2>4, <2>5, <2>6, <2>7, <2>8, <2>9, <2>10,
       <2>11, <2>12, <2>13, <2>14, <2>15, <2>16, <2>17, <2>18, <2>19 DEF
       Next, Advance
<1>3. QED
  BY <1>1, <1>2, Typing, PTL DEF Spec

\* request(): the retry after a 401 carries another credential than any the
\* call was refused with, whatever the other threads do.
THEOREM RejectedNeverResent == Spec => []NeverResendRejected
<1>1. RejectedInv => NeverResendRejected
  BY DEF RejectedInv, NeverResendRejected
<1>2. QED
  BY <1>1, RejectedInvariant, PTL

\* What the retry loop knows of the effects of its call.  Between two attempts
\* every effect is unconfirmed and there are at most as many as attempts made;
\* once an answer is there, the last effect is confirmed or not with it.
EffectInv ==
    \A t \in Threads :
        /\ pc[t] = "idle" => applied[t] = 0 /\ unconfirmed[t] = 0
        /\ pc[t] \in {"ensure", "posting", "build", "attach", "sending"} =>
              applied[t] = unconfirmed[t] /\ applied[t] <= attempt[t]
        /\ pc[t] = "served" =>
              /\ reply[t].kind = "ok" => reply[t].applied
              /\ reply[t].kind = "auth" => ~reply[t].applied
              /\ reply[t].applied => applied[t] = unconfirmed[t] + 1
              /\ ~reply[t].applied => applied[t] = unconfirmed[t]
              /\ unconfirmed[t] <= attempt[t]
        /\ pc[t] = "raised" =>
              /\ error[t] \in Errors
              /\ error[t] # "api" => applied[t] = unconfirmed[t]
              /\ error[t] = "auth" => applied[t] <= attempt[t]
              /\ error[t] \in {"conn", "internal"} => applied[t] <= attempt[t] + 1
        /\ pc[t] = "returned" => error[t] \in Errors \cup {"ok"}

\* The loop variables are numbers below MAX_ATTEMPTS.
LEMMA TriesBounds == \A n \in Tries : n \in Nat /\ n < MaxAttempts
BY AttemptsAssumption DEF Tries

\* The bookkeeping behind the refinement below.
THEOREM EffectInvariant == Spec => []EffectInv
<1>1. Init => EffectInv
  BY TriesBounds DEF Init, EffectInv, TypeOK, Locations, Errors, Replies
<1>2. EffectInv /\ TypeOK /\ [Next]_vars => EffectInv'
  <2>. SUFFICES ASSUME EffectInv, TypeOK, [Next]_vars PROVE EffectInv'
    OBVIOUS
  <2>. USE TriesBounds DEF EffectInv, TypeOK, Locations, Errors, Replies,
       Goto, shared, progress, exchange, history
  <2>1. ASSUME NEW t \in Threads, Request(t) PROVE EffectInv'
    BY <2>1 DEF Request
  <2>2. ASSUME NEW t \in Threads, RequestUnauthenticated(t) PROVE EffectInv'
    BY <2>2 DEF RequestUnauthenticated
  <2>3. ASSUME NEW t \in Threads, EnsureFindsCredential(t) PROVE EffectInv'
    BY <2>3 DEF EnsureFindsCredential, Authenticated, NextAttempt
  <2>4. ASSUME NEW t \in Threads, EnsureStartsGrant(t) PROVE EffectInv'
    BY <2>4 DEF EnsureStartsGrant, ResetGrantTry
  <2>5. ASSUME NEW t \in Threads, Granted(t) PROVE EffectInv'
    BY <2>5 DEF Granted, Authenticated, NextAttempt, ReleaseLock,
       ResetGrantTry, Unused
  <2>6. ASSUME NEW t \in Threads, GrantRepeated(t) PROVE EffectInv'
    BY <2>6 DEF GrantRepeated
  <2>7. ASSUME NEW t \in Threads, PostFailed(t) PROVE EffectInv'
    BY <2>7 DEF PostFailed, Raise, ReleaseLock, ResetGrantTry,
       PostErrors, Errors
  <2>8. ASSUME NEW t \in Threads, TestCredential(t) PROVE EffectInv'
    BY <2>8 DEF TestCredential, Raise
  <2>9. ASSUME NEW t \in Threads, AttachCredential(t) PROVE EffectInv'
    BY <2>9 DEF AttachCredential
  <2>10. ASSUME NEW t \in Threads, Serve(t) PROVE EffectInv'
    BY <2>10 DEF Serve, PossibleReplies
  <2>11. ASSUME NEW t \in Threads, ReceiveSuccess(t) PROVE EffectInv'
    BY <2>11 DEF ReceiveSuccess, Leave, EndExchange
  <2>12. ASSUME NEW t \in Threads, ReceiveRejection(t) PROVE EffectInv'
    BY <2>12 DEF ReceiveRejection, ClearAuth, Raise, EndExchange
  <2>13. ASSUME NEW t \in Threads, ReceiveFailure(t) PROVE EffectInv'
    BY <2>13 DEF ReceiveFailure, Raise, EndExchange
  <2>14. ASSUME NEW t \in Threads, HandleAuthError(t) PROVE EffectInv'
    BY <2>14 DEF HandleAuthError, ClearAuth, Leave, Caught,
       HasMoreAttempts
  <2>15. ASSUME NEW t \in Threads, HandleOtherError(t) PROVE EffectInv'
    BY <2>15 DEF HandleOtherError, NextAttempt, Caught, Leave,
       HasMoreAttempts, IsTransient
  <2>16. ASSUME NEW t \in Threads, Propagate(t) PROVE EffectInv'
    BY <2>16 DEF Propagate, Leave
  <2>17. ASSUME NEW t \in Threads, Return(t) PROVE EffectInv'
    BY <2>17 DEF Return
  <2>18. CASE Expire
    BY <2>18 DEF Expire
  <2>19. CASE UNCHANGED vars
    BY <2>19 DEF vars
  <2>20. QED
    BY <2>1, <2>2, <2>3, <2>4, <2>5, <2>6, <2>7, <2>8, <2>9, <2>10,
       <2>11, <2>12, <2>13, <2>14, <2>15, <2>16, <2>17, <2>18, <2>19 DEF
       Next, Advance
<1>3. QED
  BY <1>1, <1>2, Typing, PTL DEF Spec

\* The abstract phase of every thread: the refinement mapping of phase.
Phases == [t \in Threads |-> Phase(t)]

\* A step of one thread moves the abstract phase of that thread only.
LEMMA PhaseOfOneThread ==
    ASSUME NEW t \in Threads, TypeOK, TypeOK',
           \A u \in Threads \ {t} : pc'[u] = pc[u] /\ error'[u] = error[u]
    PROVE  Phases' = [Phases EXCEPT ![t] = Phase(t)']
BY DEF Phases, Phase

\* A step inside a call, which neither the caller nor the device sees.
LEMMA Stutter ==
    ASSUME NEW t \in Threads, TypeOK, TypeOK',
           \A u \in Threads \ {t} : pc'[u] = pc[u] /\ error'[u] = error[u],
           pc[t] \notin {"idle", "returned"}, pc'[t] \notin {"idle", "returned"},
           UNCHANGED <<applied, unconfirmed>>
    PROVE  UNCHANGED Abstract!vars
BY DEF Phase, Abstract!vars

\* A step that takes a call to its end with an exception.
LEMMA FailedCall ==
    ASSUME NEW t \in Threads, TypeOK, TypeOK',
           \A u \in Threads \ {t} : pc'[u] = pc[u] /\ error'[u] = error[u],
           pc[t] = "raised", pc'[t] = "returned", error'[t] = error[t],
           error[t] \in Errors, UNCHANGED <<applied, unconfirmed>>
    PROVE  Abstract!Next
<1>1. Phase(t) = "pending" /\ Phase(t)' = error[t]
  BY DEF Phase
<1>2. Abstract!Fail(t, error[t])
  BY <1>1, PhaseOfOneThread DEF Phases, Abstract!Fail
<1>3. QED
  BY <1>2 DEF Abstract!Next, Abstract!Failures, Errors

\* DeviceClient implements RemoteCall: repeating requests after lost answers,
\* "Internal Error" and refused credentials never lets a call take effect more
\* than MAX_ATTEMPTS times, nor again after a confirmed effect, nor succeed
\* without one.
THEOREM Refinement == Spec => ImplementsRemoteCall
<1>1. Init => Abstract!Init
  BY DEF Init, Abstract!Init, Phase
<1>2. /\ TypeOK /\ TypeOK' /\ EffectInv /\ EffectInv'
      /\ [Next]_vars
      => [Abstract!Next]_(Abstract!vars)
  <2>. SUFFICES ASSUME TypeOK, TypeOK', EffectInv, EffectInv', [Next]_vars
                PROVE  [Abstract!Next]_(Abstract!vars)
    OBVIOUS
  <2>. USE DEF shared, progress, exchange, history, Goto
  <2>1. ASSUME NEW t \in Threads, Request(t)
        PROVE  [Abstract!Next]_(Abstract!vars)
    <3>1. /\ \A u \in Threads \ {t} : pc'[u] = pc[u] /\ error'[u] = error[u]
          /\ Phase(t) = "idle" /\ Phase(t)' = "pending"
      BY <2>1 DEF Request, Phase, TypeOK, Locations
    <3>2. Abstract!Begin(t)
      BY <2>1, <3>1, PhaseOfOneThread DEF Request, Phases, EffectInv,
         TypeOK, Abstract!Begin
    <3>3. QED
      BY <3>2 DEF Abstract!Next
  <2>2. ASSUME NEW t \in Threads, RequestUnauthenticated(t)
        PROVE  [Abstract!Next]_(Abstract!vars)
    <3>1. /\ \A u \in Threads \ {t} : pc'[u] = pc[u] /\ error'[u] = error[u]
          /\ Phase(t) = "idle" /\ Phase(t)' = "pending"
      BY <2>2 DEF RequestUnauthenticated, Phase, TypeOK, Locations
    <3>2. Abstract!Begin(t)
      BY <2>2, <3>1, PhaseOfOneThread DEF RequestUnauthenticated,
         Phases, EffectInv, TypeOK, Abstract!Begin
    <3>3. QED
      BY <3>2 DEF Abstract!Next
  <2>3. ASSUME NEW t \in Threads, EnsureFindsCredential(t)
        PROVE  [Abstract!Next]_(Abstract!vars)
    <3>1. /\ \A u \in Threads \ {t} : pc'[u] = pc[u] /\ error'[u] = error[u]
          /\ pc[t] \notin {"idle", "returned"}
          /\ pc'[t] \notin {"idle", "returned"}
          /\ UNCHANGED <<applied, unconfirmed>>
      BY <2>3 DEF EnsureFindsCredential, Authenticated, NextAttempt,
         TypeOK, Locations
    <3>2. QED
      BY <3>1, Stutter
  <2>4. ASSUME NEW t \in Threads, EnsureStartsGrant(t)
        PROVE  [Abstract!Next]_(Abstract!vars)
    <3>1. /\ \A u \in Threads \ {t} : pc'[u] = pc[u] /\ error'[u] = error[u]
          /\ pc[t] \notin {"idle", "returned"}
          /\ pc'[t] \notin {"idle", "returned"}
          /\ UNCHANGED <<applied, unconfirmed>>
      BY <2>4 DEF EnsureStartsGrant, ResetGrantTry, TypeOK, Locations
    <3>2. QED
      BY <3>1, Stutter
  <2>5. ASSUME NEW t \in Threads, Granted(t)
        PROVE  [Abstract!Next]_(Abstract!vars)
    <3>1. /\ \A u \in Threads \ {t} : pc'[u] = pc[u] /\ error'[u] = error[u]
          /\ pc[t] \notin {"idle", "returned"}
          /\ pc'[t] \notin {"idle", "returned"}
          /\ UNCHANGED <<applied, unconfirmed>>
      BY <2>5 DEF Granted, Authenticated, NextAttempt, ReleaseLock,
         ResetGrantTry, Unused, TypeOK, Locations
    <3>2. QED
      BY <3>1, Stutter
  <2>6. ASSUME NEW t \in Threads, GrantRepeated(t)
        PROVE  [Abstract!Next]_(Abstract!vars)
    <3>1. /\ \A u \in Threads \ {t} : pc'[u] = pc[u] /\ error'[u] = error[u]
          /\ pc[t] \notin {"idle", "returned"}
          /\ pc'[t] \notin {"idle", "returned"}
          /\ UNCHANGED <<applied, unconfirmed>>
      BY <2>6 DEF GrantRepeated, TypeOK, Locations
    <3>2. QED
      BY <3>1, Stutter
  <2>7. ASSUME NEW t \in Threads, PostFailed(t)
        PROVE  [Abstract!Next]_(Abstract!vars)
    <3>1. /\ \A u \in Threads \ {t} : pc'[u] = pc[u] /\ error'[u] = error[u]
          /\ pc[t] \notin {"idle", "returned"}
          /\ pc'[t] \notin {"idle", "returned"}
          /\ UNCHANGED <<applied, unconfirmed>>
      BY <2>7 DEF PostFailed, Raise, ReleaseLock, ResetGrantTry,
         PostErrors, Errors, TypeOK, Locations
    <3>2. QED
      BY <3>1, Stutter
  <2>8. ASSUME NEW t \in Threads, TestCredential(t)
        PROVE  [Abstract!Next]_(Abstract!vars)
    <3>1. /\ \A u \in Threads \ {t} : pc'[u] = pc[u] /\ error'[u] = error[u]
          /\ pc[t] \notin {"idle", "returned"}
          /\ pc'[t] \notin {"idle", "returned"}
          /\ UNCHANGED <<applied, unconfirmed>>
      BY <2>8 DEF TestCredential, Raise, TypeOK, Locations
    <3>2. QED
      BY <3>1, Stutter
  <2>9. ASSUME NEW t \in Threads, AttachCredential(t)
        PROVE  [Abstract!Next]_(Abstract!vars)
    <3>1. /\ \A u \in Threads \ {t} : pc'[u] = pc[u] /\ error'[u] = error[u]
          /\ pc[t] \notin {"idle", "returned"}
          /\ pc'[t] \notin {"idle", "returned"}
          /\ UNCHANGED <<applied, unconfirmed>>
      BY <2>9 DEF AttachCredential, TypeOK, Locations
    <3>2. QED
      BY <3>1, Stutter
  <2>10. ASSUME NEW t \in Threads, Serve(t)
        PROVE  [Abstract!Next]_(Abstract!vars)
    <3>1. /\ \A u \in Threads \ {t} : pc'[u] = pc[u] /\ error'[u] = error[u]
          /\ pc[t] = "sending" /\ pc'[t] = "served"
          /\ unconfirmed' = unconfirmed
          /\ reply'[t] \in PossibleReplies(t)
          /\ applied' = [applied EXCEPT ![t] =
                            IF reply'[t].applied THEN @ + 1 ELSE @]
      BY <2>10 DEF Serve, TypeOK, Locations
    <3>2. CASE ~reply'[t].applied
      <4>1. applied' = applied
        BY <3>1, <3>2 DEF TypeOK
      <4>2. QED
        BY <3>1, <4>1, Stutter
    <3>3. CASE reply'[t].applied
      <4>1. Phase(t) = "pending" /\ Phase(t)' = "pending" /\ Phases' = Phases
        BY <3>1, PhaseOfOneThread DEF Phase, Phases
      <4>2. applied[t] = unconfirmed[t] /\ applied[t] < MaxAttempts
        BY <3>1, AttemptsAssumption DEF EffectInv, TypeOK, Tries
      <4>3. Abstract!TakeEffect(t)
        BY <3>1, <3>3, <4>1, <4>2 DEF Phases, Abstract!TakeEffect
      <4>4. QED
        BY <4>3 DEF Abstract!Next
    <3>4. QED
      BY <3>1, <3>2, <3>3
  <2>11. ASSUME NEW t \in Threads, ReceiveSuccess(t)
        PROVE  [Abstract!Next]_(Abstract!vars)
    <3>1. /\ \A u \in Threads \ {t} : pc'[u] = pc[u] /\ error'[u] = error[u]
          /\ Phase(t) = "pending" /\ Phase(t)' = "ok"
      BY <2>11 DEF ReceiveSuccess, Leave, EndExchange, Phase, TypeOK,
         Locations
    <3>2. Abstract!Succeed(t)
      BY <2>11, <3>1, PhaseOfOneThread DEF ReceiveSuccess, Phases,
         EffectInv, TypeOK, Abstract!Succeed
    <3>3. QED
      BY <3>2 DEF Abstract!Next
  <2>12. ASSUME NEW t \in Threads, ReceiveRejection(t)
        PROVE  [Abstract!Next]_(Abstract!vars)
    <3>1. /\ \A u \in Threads \ {t} : pc'[u] = pc[u] /\ error'[u] = error[u]
          /\ pc[t] \notin {"idle", "returned"}
          /\ pc'[t] \notin {"idle", "returned"}
          /\ UNCHANGED <<applied, unconfirmed>>
      BY <2>12 DEF ReceiveRejection, ClearAuth, Raise, EndExchange,
         TypeOK, Locations
    <3>2. QED
      BY <3>1, Stutter
  <2>13. ASSUME NEW t \in Threads, ReceiveFailure(t)
        PROVE  [Abstract!Next]_(Abstract!vars)
    <3>1. /\ \A u \in Threads \ {t} : pc'[u] = pc[u] /\ error'[u] = error[u]
          /\ pc[t] = "served" /\ pc'[t] = "raised"
          /\ applied' = applied
          /\ unconfirmed' = [unconfirmed EXCEPT ![t] =
                                IF reply[t].kind = "api" THEN @ ELSE applied[t]]
      BY <2>13 DEF ReceiveFailure, Raise, EndExchange, TypeOK, Locations
    <3>2. CASE reply[t].kind = "api"
      <4>1. unconfirmed' = unconfirmed
        BY <3>1, <3>2 DEF TypeOK
      <4>2. QED
        BY <3>1, <4>1, Stutter
    <3>3. CASE reply[t].kind # "api"
      <4>1. Phase(t) = "pending" /\ Phase(t)' = "pending" /\ Phases' = Phases
        BY <3>1, PhaseOfOneThread DEF Phase, Phases
      <4>2. Abstract!LoseAnswer(t)
        BY <3>1, <3>3, <4>1 DEF Phases, Abstract!LoseAnswer
      <4>3. QED
        BY <4>2 DEF Abstract!Next
    <3>4. QED
      BY <3>1, <3>2, <3>3
  <2>14. ASSUME NEW t \in Threads, HandleAuthError(t)
        PROVE  [Abstract!Next]_(Abstract!vars)
    <3>1. /\ pc[t] = "raised" /\ error[t] \in Errors
          /\ UNCHANGED <<applied, unconfirmed>>
      BY <2>14 DEF HandleAuthError, EffectInv
    <3>2. CASE HasMoreAttempts(t)
      <4>1. /\ \A u \in Threads \ {t} : pc'[u] = pc[u] /\ error'[u] = error[u]
            /\ pc'[t] = "ensure"
        BY <2>14, <3>2 DEF HandleAuthError, Caught, HasMoreAttempts, TypeOK, Locations
      <4>2. QED
        BY <3>1, <4>1, Stutter
    <3>3. CASE ~(HasMoreAttempts(t))
      <4>1. Leave(t) /\ UNCHANGED error
        BY <2>14, <3>3 DEF HandleAuthError, HasMoreAttempts
      <4>2. /\ \A u \in Threads \ {t} : pc'[u] = pc[u] /\ error'[u] = error[u]
            /\ pc'[t] = "returned" /\ error'[t] = error[t]
        BY <4>1 DEF Leave, TypeOK, Locations
      <4>3. QED
        BY <3>1, <4>2, FailedCall
    <3>4. QED
      BY <3>2, <3>3
  <2>15. ASSUME NEW t \in Threads, HandleOtherError(t)
        PROVE  [Abstract!Next]_(Abstract!vars)
    <3>1. /\ pc[t] = "raised" /\ error[t] \in Errors
          /\ UNCHANGED <<applied, unconfirmed>>
      BY <2>15 DEF HandleOtherError, EffectInv
    <3>2. CASE IsTransient(error[t]) /\ HasMoreAttempts(t)
      <4>1. /\ \A u \in Threads \ {t} : pc'[u] = pc[u] /\ error'[u] = error[u]
            /\ pc'[t] = "ensure"
        BY <2>15, <3>2 DEF HandleOtherError, NextAttempt, Caught, HasMoreAttempts, IsTransient, TypeOK, Locations
      <4>2. QED
        BY <3>1, <4>1, Stutter
    <3>3. CASE ~(IsTransient(error[t]) /\ HasMoreAttempts(t))
      <4>1. Leave(t) /\ UNCHANGED error
        BY <2>15, <3>3 DEF HandleOtherError, HasMoreAttempts, IsTransient
      <4>2. /\ \A u \in Threads \ {t} : pc'[u] = pc[u] /\ error'[u] = error[u]
            /\ pc'[t] = "returned" /\ error'[t] = error[t]
        BY <4>1 DEF Leave, TypeOK, Locations
      <4>3. QED
        BY <3>1, <4>2, FailedCall
    <3>4. QED
      BY <3>2, <3>3
  <2>16. ASSUME NEW t \in Threads, Propagate(t)
        PROVE  [Abstract!Next]_(Abstract!vars)
    <3>1. /\ \A u \in Threads \ {t} : pc'[u] = pc[u] /\ error'[u] = error[u]
          /\ pc[t] = "raised" /\ error[t] \in Errors
          /\ pc'[t] = "returned" /\ error'[t] = error[t]
          /\ UNCHANGED <<applied, unconfirmed>>
      BY <2>16 DEF Propagate, Leave, TypeOK, Locations, EffectInv
    <3>2. QED
      BY <3>1, FailedCall
  <2>17. ASSUME NEW t \in Threads, Return(t)
        PROVE  [Abstract!Next]_(Abstract!vars)
    <3>1. /\ \A u \in Threads \ {t} : pc'[u] = pc[u] /\ error'[u] = error[u]
          /\ Phase(t) = error[t] /\ Phase(t)' = "idle"
      BY <2>17 DEF Return, Phase, TypeOK, Locations
    <3>2. Abstract!Forget(t)
      BY <2>17, <3>1, PhaseOfOneThread DEF Return, Phases, EffectInv,
         TypeOK, Abstract!Forget, Abstract!Failures, Errors
    <3>3. QED
      BY <3>2 DEF Abstract!Next
  <2>18. CASE Expire
    BY <2>18 DEF Expire, Phase, Abstract!vars
  <2>19. CASE UNCHANGED vars
    BY <2>19 DEF vars, Phase, Abstract!vars
  <2>20. QED
    BY <2>1, <2>2, <2>3, <2>4, <2>5, <2>6, <2>7, <2>8, <2>9, <2>10,
       <2>11, <2>12, <2>13, <2>14, <2>15, <2>16, <2>17, <2>18, <2>19 DEF
       Next, Advance
<1>3. QED
  BY <1>1, <1>2, Typing, EffectInvariant, PTL
     DEF Spec, ImplementsRemoteCall, Abstract!Spec

-----------------------------------------------------------------------------
(* The steps a call may still take.                                        *)

\* What n attempts take.
StepsOf(n) == n * StepsPerAttempt

LEMMA StepsFacts ==
    /\ MaxAttempts \in Nat /\ MaxAttempts >= 1
    /\ StepsPerAttempt = 2 * MaxAttempts + 9
    /\ \A n \in Nat : StepsOf(n) \in Nat /\ StepsOf(n + 1) = StepsOf(n) + StepsPerAttempt
<1>1. MaxAttempts \in Nat /\ MaxAttempts >= 1
  BY AttemptsAssumption
<1>2. StepsPerAttempt = 2 * MaxAttempts + 9 /\ StepsPerAttempt \in Nat
  BY <1>1 DEF StepsPerAttempt
<1>. HIDE DEF StepsPerAttempt
<1>3. \A n \in Nat : n * StepsPerAttempt \in Nat
                     /\ (n + 1) * StepsPerAttempt = n * StepsPerAttempt + StepsPerAttempt
  BY <1>2
<1>. QED  BY <1>1, <1>2, <1>3 DEF StepsOf

\* The arms of StepsInAttempt exclude one another.
StepsByPlace ==
    \A t \in Threads :
        /\ pc[t] = "raised" => StepsInAttempt(t) = IF rescue[t] THEN 2 ELSE MaxAttempts + 4
        /\ pc[t] = "posting" =>
            StepsInAttempt(t) = (IF rescue[t] THEN 2 ELSE MaxAttempts + 8)
                                    + (MaxAttempts - grantTry[t])
        /\ pc[t] = "ensure" =>
            StepsInAttempt(t) = IF rescue[t] THEN MaxAttempts + 3 ELSE StepsPerAttempt
        /\ pc[t] = "served" => StepsInAttempt(t) = MaxAttempts + 5
        /\ pc[t] = "sending" => StepsInAttempt(t) = MaxAttempts + 6
        /\ pc[t] = "attach" => StepsInAttempt(t) = MaxAttempts + 7
        /\ pc[t] = "build" => StepsInAttempt(t) = MaxAttempts + 8

LEMMA StepsPlaced == StepsByPlace
<1>. SUFFICES ASSUME NEW t \in Threads
              PROVE  StepsByPlace!(t)
  BY DEF StepsByPlace
<1>. USE DEF StepsInAttempt
<1>1. CASE pc[t] = "raised"
  <2>1. CASE rescue[t]  BY <1>1, <2>1
  <2>2. CASE ~rescue[t]  BY <1>1, <2>2
  <2>. QED  BY <2>1, <2>2
<1>2. CASE pc[t] = "posting"
  <2>1. CASE rescue[t]  BY <1>2, <2>1
  <2>2. CASE ~rescue[t]  BY <1>2, <2>2
  <2>. QED  BY <2>1, <2>2
<1>3. CASE pc[t] = "ensure"
  <2>1. CASE rescue[t]  BY <1>3, <2>1
  <2>2. CASE ~rescue[t]  BY <1>3, <2>2
  <2>. QED  BY <2>1, <2>2
<1>4. CASE pc[t] = "served"  BY <1>4
<1>5. CASE pc[t] = "sending"  BY <1>5
<1>6. CASE pc[t] = "attach"  BY <1>6
<1>7. CASE pc[t] = "build"  BY <1>7
<1>. QED  BY <1>1, <1>2, <1>3, <1>4, <1>5, <1>6, <1>7

LEMMA StepsPlacedNext == StepsByPlace'
BY StepsPlaced, PTL

\* Inside a call the count is that of the attempts to come and that of the
\* running one.
StepsInsideCall ==
    \A t \in Threads : pc[t] \notin {"idle", "returned"} =>
        /\ MaxAttempts - 1 - attempt[t] \in Nat
        /\ StepsLeft(t) = StepsOf(MaxAttempts - 1 - attempt[t]) + StepsInAttempt(t)
        /\ StepsOf(MaxAttempts - 1 - attempt[t]) \in Nat
        /\ StepsInAttempt(t) \in 2 .. StepsPerAttempt

LEMMA StepsTyped == TypeInv => StepsInsideCall
<1>. SUFFICES ASSUME TypeInv, NEW t \in Threads, pc[t] \notin {"idle", "returned"}
              PROVE  /\ MaxAttempts - 1 - attempt[t] \in Nat
                     /\ StepsLeft(t) = StepsOf(MaxAttempts - 1 - attempt[t]) + StepsInAttempt(t)
                     /\ StepsOf(MaxAttempts - 1 - attempt[t]) \in Nat
                     /\ StepsInAttempt(t) \in 2 .. StepsPerAttempt
  BY DEF StepsInsideCall
<1>1. MaxAttempts - 1 - attempt[t] \in Nat
  BY StepsFacts DEF TypeInv, TypeOK, Tries
<1>2. StepsLeft(t) = StepsOf(MaxAttempts - 1 - attempt[t]) + StepsInAttempt(t)
  BY DEF StepsLeft, StepsOf
<1>3. MaxAttempts - grantTry[t] \in 1 .. MaxAttempts
  BY StepsFacts DEF TypeInv, TypeOK, Tries
<1>4. pc[t] \in {"ensure", "posting", "build", "attach", "sending", "served", "raised"}
      /\ rescue[t] \in BOOLEAN
  BY DEF TypeInv, TypeOK, Locations
<1>5. StepsInAttempt(t) \in 2 .. StepsPerAttempt
  BY <1>3, <1>4, StepsPlaced, StepsFacts DEF StepsByPlace
<1>. QED  BY <1>1, <1>2, <1>5, StepsFacts

LEMMA StepsTypedNext == TypeInv' => StepsInsideCall'
BY StepsTyped, PTL

\* What the others do gives a call no steps, what it does takes some.
RunsDown(t) ==
    /\ \A u \in Threads \ {t} : Position(u)' = Position(u)
    /\ pc[t] # "idle" => StepsLeft(t)' \in 0 .. StepsLeft(t) - 1

LEMMA SameAttemptRunsDown ==
    ASSUME NEW t \in Threads, TypeInv, TypeInv',
           \A u \in Threads \ {t} : Position(u)' = Position(u),
           pc[t] \notin {"idle", "returned"}, pc'[t] \notin {"idle", "returned"},
           attempt'[t] = attempt[t], StepsInAttempt(t)' < StepsInAttempt(t)
    PROVE  RunsDown(t)
<1>1. /\ StepsLeft(t) = StepsOf(MaxAttempts - 1 - attempt[t]) + StepsInAttempt(t)
      /\ StepsOf(MaxAttempts - 1 - attempt[t]) \in Nat
      /\ StepsInAttempt(t) \in 2 .. StepsPerAttempt
  BY StepsTyped DEF StepsInsideCall
<1>2. /\ StepsLeft(t)' = StepsOf(MaxAttempts - 1 - attempt'[t]) + StepsInAttempt(t)'
      /\ StepsInAttempt(t)' \in 2 .. StepsPerAttempt
  BY StepsTypedNext DEF StepsInsideCall
<1>. QED  BY <1>1, <1>2, StepsFacts DEF RunsDown

LEMMA NextAttemptRunsDown ==
    ASSUME NEW t \in Threads, TypeInv,
           \A u \in Threads \ {t} : Position(u)' = Position(u),
           pc[t] \notin {"idle", "returned"}, attempt[t] < MaxAttempts - 1, NextAttempt(t)
    PROVE  RunsDown(t)
<1>1. /\ StepsLeft(t) = StepsOf(MaxAttempts - 1 - attempt[t]) + StepsInAttempt(t)
      /\ StepsInAttempt(t) \in 2 .. StepsPerAttempt
  BY StepsTyped DEF StepsInsideCall
<1>2. /\ pc'[t] = "ensure" /\ ~rescue'[t] /\ attempt'[t] = attempt[t] + 1
      /\ attempt[t] \in Nat
  BY DEF NextAttempt, Goto, TypeInv, TypeOK, Tries
<1>3. StepsLeft(t)' = StepsOf(MaxAttempts - 1 - (attempt[t] + 1)) + StepsPerAttempt
  <2>1. StepsInAttempt(t)' = StepsPerAttempt
    BY <1>2 DEF StepsInAttempt
  <2>. QED  BY <1>2, <2>1 DEF StepsLeft, StepsOf
<1>4. DEFINE n == MaxAttempts - 1 - (attempt[t] + 1)
<1>5. n \in Nat /\ n + 1 = MaxAttempts - 1 - attempt[t]
  BY <1>2, StepsFacts
<1>6. StepsOf(n) \in Nat /\ StepsOf(n + 1) = StepsOf(n) + StepsPerAttempt
  BY <1>5, StepsFacts
<1>. QED  BY <1>1, <1>3, <1>5, <1>6, StepsFacts DEF RunsDown

LEMMA LeaveRunsDown ==
    ASSUME NEW t \in Threads, TypeInv,
           \A u \in Threads \ {t} : Position(u)' = Position(u),
           pc[t] \notin {"idle", "returned"}, pc'[t] = "returned"
    PROVE  RunsDown(t)
<1>1. /\ StepsLeft(t) = StepsOf(MaxAttempts - 1 - attempt[t]) + StepsInAttempt(t)
      /\ StepsOf(MaxAttempts - 1 - attempt[t]) \in Nat
      /\ StepsInAttempt(t) \in 2 .. StepsPerAttempt
  BY StepsTyped DEF StepsInsideCall
<1>2. StepsLeft(t)' = 1
  BY DEF StepsLeft
<1>. QED  BY <1>1, <1>2, StepsFacts DEF RunsDown

LEMMA EveryStepRunsDown ==
    ASSUME NEW t \in Threads, TypeInv, TypeInv',
           Request(t) \/ RequestUnauthenticated(t) \/ Advance(t)
    PROVE  RunsDown(t)
<1>. USE StepsPlaced, StepsPlacedNext, StepsFacts DEF StepsByPlace, Position, Goto, shared, progress
<1>. DEFINE OthersKeep == \A u \in Threads \ {t} : Position(u)' = Position(u)
<1>t. /\ pc \in [Threads -> Locations] /\ pc[t] \in Locations
      /\ attempt \in [Threads -> Tries] /\ attempt[t] \in Int
      /\ rescue \in [Threads -> BOOLEAN] /\ rescue[t] \in BOOLEAN
      /\ grantTry \in [Threads -> Tries] /\ grantTry[t] \in 0 .. MaxAttempts - 1
      /\ rescue[t] => attempt[t] < MaxAttempts - 1
  BY DEF TypeInv, TypeOK, Tries
<1>1. CASE Request(t)
  BY <1>1, <1>t DEF Request, RunsDown
<1>2. CASE RequestUnauthenticated(t)
  BY <1>2, <1>t DEF RequestUnauthenticated, RunsDown
<1>3. CASE EnsureFindsCredential(t)
  <2>1. OthersKeep /\ pc[t] = "ensure"
    BY <1>3, <1>t DEF EnsureFindsCredential, Authenticated, NextAttempt
  <2>2. CASE rescue[t]
    BY <1>3, <1>t, <2>1, <2>2, NextAttemptRunsDown DEF EnsureFindsCredential, Authenticated
  <2>3. CASE ~rescue[t]
    <3>1. pc'[t] = "build" /\ attempt' = attempt /\ rescue' = rescue
      BY <1>3, <1>t, <2>3 DEF EnsureFindsCredential, Authenticated
    <3>. QED  BY <1>t, <2>1, <2>3, <3>1, SameAttemptRunsDown
  <2>. QED  BY <2>2, <2>3
<1>4. CASE EnsureStartsGrant(t)
  <2>1. /\ OthersKeep /\ pc[t] = "ensure" /\ pc'[t] = "posting" /\ grantTry'[t] = 0
        /\ attempt' = attempt /\ rescue' = rescue
    BY <1>4, <1>t DEF EnsureStartsGrant, ResetGrantTry
  <2>. QED  BY <1>t, <2>1, SameAttemptRunsDown
<1>5. CASE Granted(t)
  <2>1. OthersKeep /\ pc[t] = "posting"
    BY <1>5, <1>t DEF Granted, Authenticated, NextAttempt, ResetGrantTry
  <2>2. CASE rescue[t]
    BY <1>5, <1>t, <2>1, <2>2, NextAttemptRunsDown DEF Granted, Authenticated
  <2>3. CASE ~rescue[t]
    <3>1. pc'[t] = "build" /\ attempt' = attempt /\ rescue' = rescue
      BY <1>5, <1>t, <2>3 DEF Granted, Authenticated
    <3>. QED  BY <1>t, <2>1, <2>3, <3>1, SameAttemptRunsDown
  <2>. QED  BY <2>2, <2>3
<1>6. CASE GrantRepeated(t)
  <2>1. /\ OthersKeep /\ pc[t] = "posting" /\ pc'[t] = "posting"
        /\ grantTry'[t] = grantTry[t] + 1 /\ attempt' = attempt /\ rescue' = rescue
    BY <1>6, <1>t DEF GrantRepeated
  <2>. QED  BY <1>t, <2>1, SameAttemptRunsDown
<1>7. CASE PostFailed(t)
  <2>1. /\ OthersKeep /\ pc[t] = "posting" /\ pc'[t] = "raised"
        /\ attempt' = attempt /\ rescue' = rescue
    BY <1>7, <1>t DEF PostFailed, Raise, ResetGrantTry
  <2>. QED  BY <1>t, <2>1, SameAttemptRunsDown
<1>8. CASE TestCredential(t)
  <2>1. /\ OthersKeep /\ pc[t] = "build" /\ pc'[t] \in {"raised", "attach"}
        /\ attempt' = attempt /\ rescue' = rescue
    BY <1>8, <1>t DEF TestCredential, Raise
  <2>. QED  BY <1>t, <2>1, SameAttemptRunsDown
<1>9. CASE AttachCredential(t)
  <2>1. /\ OthersKeep /\ pc[t] = "attach" /\ pc'[t] = "sending"
        /\ attempt' = attempt /\ rescue' = rescue
    BY <1>9, <1>t DEF AttachCredential
  <2>. QED  BY <1>t, <2>1, SameAttemptRunsDown
<1>10. CASE Serve(t)
  <2>1. /\ OthersKeep /\ pc[t] = "sending" /\ pc'[t] = "served"
        /\ attempt' = attempt /\ rescue' = rescue
    BY <1>10, <1>t DEF Serve
  <2>. QED  BY <1>t, <2>1, SameAttemptRunsDown
<1>11. CASE ReceiveSuccess(t)
  BY <1>11, <1>t, LeaveRunsDown DEF ReceiveSuccess, Leave
<1>12. CASE ReceiveRejection(t) \/ ReceiveFailure(t)
  <2>1. /\ OthersKeep /\ pc[t] = "served" /\ pc'[t] = "raised"
        /\ attempt' = attempt /\ rescue' = rescue
    BY <1>12, <1>t DEF ReceiveRejection, ReceiveFailure, Raise
  <2>. QED  BY <1>t, <2>1, SameAttemptRunsDown
<1>13. CASE HandleAuthError(t)
  <2>1. OthersKeep /\ pc[t] = "raised" /\ ~rescue[t]
    BY <1>13, <1>t DEF HandleAuthError, Uncaught, Leave
  <2>2. CASE HasMoreAttempts(t)
    <3>1. pc'[t] = "ensure" /\ rescue'[t] /\ attempt' = attempt
      BY <1>13, <1>t, <2>2 DEF HandleAuthError
    <3>. QED  BY <1>t, <2>1, <3>1, SameAttemptRunsDown
  <2>3. CASE ~HasMoreAttempts(t)
    BY <1>13, <1>t, <2>1, <2>3, LeaveRunsDown DEF HandleAuthError, Leave
  <2>. QED  BY <2>2, <2>3
<1>14. CASE HandleOtherError(t)
  <2>1. OthersKeep /\ pc[t] = "raised"
    BY <1>14, <1>t DEF HandleOtherError, NextAttempt, Leave
  <2>2. CASE IsTransient(error[t]) /\ HasMoreAttempts(t)
    BY <1>14, <1>t, <2>1, <2>2, NextAttemptRunsDown DEF HandleOtherError, HasMoreAttempts
  <2>3. CASE ~(IsTransient(error[t]) /\ HasMoreAttempts(t))
    BY <1>14, <1>t, <2>1, <2>3, LeaveRunsDown DEF HandleOtherError, Leave
  <2>. QED  BY <2>2, <2>3
<1>15. CASE Propagate(t)
  BY <1>15, <1>t, LeaveRunsDown DEF Propagate, Leave
<1>16. CASE Return(t)
  BY <1>16, <1>t DEF Return, RunsDown, StepsLeft
<1>. QED
  BY <1>1, <1>2, <1>3, <1>4, <1>5, <1>6, <1>7, <1>8, <1>9, <1>10, <1>11, <1>12,
     <1>13, <1>14, <1>15, <1>16 DEF Advance

\* request() and request_unauthenticated() come to an end after a number of their
\* own steps fixed beforehand, whatever the device answers and however the threads
\* that share the client interleave.
THEOREM CallsFinite == Spec => CallsRunDown
<1>1. TypeInv /\ TypeInv' /\ [Next]_vars
      => [\A t \in Threads :
            pc[t] # "idle" /\ Position(t)' # Position(t)
                => StepsLeft(t)' \in 0 .. StepsLeft(t) - 1]_vars
  <2>. SUFFICES ASSUME TypeInv, TypeInv', Next, NEW t \in Threads,
                       pc[t] # "idle", Position(t)' # Position(t)
                PROVE  StepsLeft(t)' \in 0 .. StepsLeft(t) - 1
    OBVIOUS
  <2>1. CASE Expire
    BY <2>1 DEF Expire, Position, progress
  <2>2. ASSUME NEW u \in Threads, Request(u) \/ RequestUnauthenticated(u) \/ Advance(u)
        PROVE  StepsLeft(t)' \in 0 .. StepsLeft(t) - 1
    <3>1. RunsDown(u)
      BY <2>2, EveryStepRunsDown
    <3>2. u = t
      BY <3>1 DEF RunsDown
    <3>. QED  BY <3>1, <3>2 DEF RunsDown
  <2>. QED  BY <2>1, <2>2 DEF Next
<1>. QED  BY <1>1, TypeInvariant, PTL DEF Spec, CallsRunDown

-----------------------------------------------------------------------------
(* What a call posts to the grant or login endpoint.                       *)

\* The two counters restrict nothing.
LEMMA BudgetIsClient == BudgetSpec => Spec
<1>1. BudgetInit => Init
  BY DEF BudgetInit
<1>2. [BudgetNext]_budgetVars => [Next]_vars
  BY DEF BudgetNext, budgetVars
<1>. QED  BY <1>1, <1>2, PTL DEF BudgetSpec, Spec

\* What n calls of ensure_authenticated() post at most.
PostsOf(n) == MaxAttempts * n

LEMMA AttemptsFacts ==
    MaxAttempts \in Nat /\ MaxAttempts >= 1 /\ 2 * MaxAttempts - 1 \in Nat
BY AttemptsAssumption

LEMMA PostsFacts ==
    /\ PostsOf(0) = 0
    /\ \A n \in Nat : PostsOf(n) \in Nat /\ PostsOf(n + 1) = PostsOf(n) + MaxAttempts
    /\ \A m, n \in Nat : m <= n => PostsOf(m) <= PostsOf(n)
<1>1. MaxAttempts \in Nat /\ MaxAttempts >= 1
  BY AttemptsFacts
<1>2. \A n \in Nat : MaxAttempts * n \in Nat /\ MaxAttempts * (n + 1) = MaxAttempts * n + MaxAttempts
  BY <1>1
<1>3. ASSUME NEW m \in Nat, NEW n \in Nat, m <= n
      PROVE  MaxAttempts * m <= MaxAttempts * n
  <2>1. n - m \in Nat /\ MaxAttempts * (n - m) \in Nat
    BY <1>1, <1>2, <1>3
  <2>2. MaxAttempts * n = MaxAttempts * m + MaxAttempts * (n - m)
    BY <1>1, <1>3
  <2>. QED  BY <1>1, <1>2, <2>1, <2>2
<1>. QED  BY <1>1, <1>2, <1>3 DEF PostsOf

\* Calls of ensure_authenticated() that were over before the running one, or
\* that are over when none runs: two for each attempt that is over, and one when
\* the running attempt got past its own.
GrantsOver(t) ==
    2 * attempt[t]
        + (IF rescue[t] THEN 1 ELSE 0)
        + (IF pc[t] \in {"ensure", "posting"} THEN 0 ELSE 1)

\* Each of them posted MAX_ATTEMPTS times at most, the running one once for each
\* round of its loop that is over.
PostsHere(t) ==
    /\ pc[t] = "idle" => posts[t] = 0
    /\ pc[t] = "returned" => posts[t] <= PostsOf(2 * MaxAttempts - 1)
    /\ pc[t] \notin {"idle", "returned"} =>
          posts[t] <= PostsOf(GrantsOver(t)) + (IF pc[t] = "posting" THEN grantTry[t] ELSE 0)

PostInv == \A t \in Threads : PostsHere(t)

PostsTyped == posts \in [Threads -> Nat] /\ denied \in [Threads -> Nat]

LEMMA PostsAreTyped == BudgetSpec => []PostsTyped
<1>1. BudgetInit => PostsTyped
  BY DEF BudgetInit, PostsTyped
<1>2. PostsTyped /\ [BudgetNext]_budgetVars => PostsTyped'
  BY DEF PostsTyped, BudgetNext, budgetVars, Count
<1>. QED  BY <1>1, <1>2, PTL DEF BudgetSpec

\* Calls over are fewer than the budget allows as long as the call goes on.
GrantsByPlace ==
    \A t \in Threads :
        /\ pc[t] \in {"ensure", "posting"} =>
              GrantsOver(t) = 2 * attempt[t] + (IF rescue[t] THEN 1 ELSE 0)
        /\ pc[t] \notin {"ensure", "posting"} =>
              GrantsOver(t) = 2 * attempt[t] + (IF rescue[t] THEN 1 ELSE 0) + 1
        /\ GrantsOver(t) \in 0 .. 2 * MaxAttempts - 1

LEMMA GrantsCounted == TypeInv => GrantsByPlace
<1>. SUFFICES ASSUME TypeInv, NEW t \in Threads
              PROVE  GrantsByPlace!(t)
  BY DEF GrantsByPlace
<1>1. /\ attempt[t] \in 0 .. MaxAttempts - 1 /\ rescue[t] \in BOOLEAN
      /\ rescue[t] => attempt[t] < MaxAttempts - 1
  BY DEF TypeInv, TypeOK, Tries
<1>2. MaxAttempts \in Nat /\ MaxAttempts >= 1
  BY AttemptsFacts
<1>3. GrantsOver(t) = 2 * attempt[t] + (IF rescue[t] THEN 1 ELSE 0)
                        + (IF pc[t] \in {"ensure", "posting"} THEN 0 ELSE 1)
  BY DEF GrantsOver
<1>4. CASE pc[t] \in {"ensure", "posting"}
  <2>1. GrantsOver(t) = 2 * attempt[t] + (IF rescue[t] THEN 1 ELSE 0)
    BY <1>1, <1>3, <1>4
  <2>. QED  BY <1>1, <1>2, <1>4, <2>1
<1>5. CASE pc[t] \notin {"ensure", "posting"}
  <2>1. GrantsOver(t) = 2 * attempt[t] + (IF rescue[t] THEN 1 ELSE 0) + 1
    BY <1>1, <1>3, <1>5
  <2>. QED  BY <1>1, <1>2, <1>5, <2>1
<1>. QED  BY <1>4, <1>5

LEMMA GrantsCountedNext == TypeInv' => GrantsByPlace'
BY GrantsCounted, PTL

\* What the others do leaves the place of a call alone.
OthersStay(t) ==
    \A u \in Threads \ {t} :
        /\ pc'[u] = pc[u] /\ attempt'[u] = attempt[u] /\ rescue'[u] = rescue[u]
        /\ grantTry'[u] = grantTry[u] /\ authed'[u] = authed[u] /\ error'[u] = error[u]

LEMMA OthersStayPut ==
    ASSUME NEW t \in Threads, TypeInv,
           Request(t) \/ RequestUnauthenticated(t) \/ Advance(t)
    PROVE  OthersStay(t)
<1>. USE DEF OthersStay, Goto, shared, progress, TypeInv, TypeOK
<1>1. CASE Request(t) \/ RequestUnauthenticated(t)
  BY <1>1 DEF Request, RequestUnauthenticated
<1>2. CASE EnsureFindsCredential(t) \/ Granted(t)
  BY <1>2 DEF EnsureFindsCredential, Granted, Authenticated, NextAttempt, ResetGrantTry
<1>3. CASE EnsureStartsGrant(t) \/ GrantRepeated(t)
  BY <1>3 DEF EnsureStartsGrant, GrantRepeated, ResetGrantTry
<1>4. CASE PostFailed(t) \/ TestCredential(t)
  BY <1>4 DEF PostFailed, TestCredential, Raise, ResetGrantTry
<1>5. CASE AttachCredential(t) \/ Serve(t)
  BY <1>5 DEF AttachCredential, Serve
<1>6. CASE ReceiveSuccess(t) \/ Propagate(t) \/ Return(t)
  BY <1>6 DEF ReceiveSuccess, Propagate, Return, Leave
<1>7. CASE ReceiveRejection(t) \/ ReceiveFailure(t)
  BY <1>7 DEF ReceiveRejection, ReceiveFailure, Raise
<1>8. CASE HandleAuthError(t)
  BY <1>8 DEF HandleAuthError, Leave, Caught
<1>9. CASE HandleOtherError(t)
  BY <1>9 DEF HandleOtherError, NextAttempt, Leave, Caught
<1>. QED
  BY <1>1, <1>2, <1>3, <1>4, <1>5, <1>6, <1>7, <1>8, <1>9 DEF Advance

\* A step that ends no post.
LEMMA PostsStay ==
    ASSUME NEW t \in Threads, TypeInv, TypeInv', PostsTyped, PostsHere(t),
           pc[t] \notin {"idle", "returned", "posting"}, pc'[t] \notin {"idle", "returned"},
           GrantsOver(t)' >= GrantsOver(t), posts'[t] = posts[t]
    PROVE  PostsHere(t)'
<1>1. GrantsOver(t) \in Nat /\ GrantsOver(t)' \in Nat
  BY GrantsCounted, GrantsCountedNext DEF GrantsByPlace
<1>2. PostsOf(GrantsOver(t)) \in Nat /\ PostsOf(GrantsOver(t)') \in Nat
      /\ PostsOf(GrantsOver(t)) <= PostsOf(GrantsOver(t)')
  BY <1>1, PostsFacts
<1>3. posts[t] \in Nat /\ grantTry'[t] \in Nat
  BY DEF PostsTyped, TypeInv, TypeOK, Tries
<1>. QED  BY <1>2, <1>3 DEF PostsHere

\* A step that ends the last post of a grant or login.
LEMMA PostsCounted ==
    ASSUME NEW t \in Threads, TypeInv, TypeInv', PostsTyped, PostsHere(t),
           pc[t] = "posting", pc'[t] \notin {"idle", "returned"},
           GrantsOver(t)' >= GrantsOver(t) + 1, posts'[t] = posts[t] + 1
    PROVE  PostsHere(t)'
<1>1. GrantsOver(t) \in Nat /\ GrantsOver(t)' \in Nat
  BY GrantsCounted, GrantsCountedNext DEF GrantsByPlace
<1>2. PostsOf(GrantsOver(t)) \in Nat /\ PostsOf(GrantsOver(t)') \in Nat
      /\ PostsOf(GrantsOver(t)) + MaxAttempts <= PostsOf(GrantsOver(t)')
  <2>1. PostsOf(GrantsOver(t) + 1) = PostsOf(GrantsOver(t)) + MaxAttempts
        /\ PostsOf(GrantsOver(t) + 1) <= PostsOf(GrantsOver(t)')
    BY <1>1, PostsFacts
  <2>. QED  BY <1>1, <2>1, PostsFacts
<1>3. posts[t] \in Nat /\ grantTry'[t] \in Nat /\ grantTry[t] \in 0 .. MaxAttempts - 1
  BY DEF PostsTyped, TypeInv, TypeOK, Tries
<1>. QED  BY <1>2, <1>3, AttemptsFacts DEF PostsHere

\* A step that ends the call.
LEMMA PostsAtTheEnd ==
    ASSUME NEW t \in Threads, TypeInv, PostsTyped, PostsHere(t),
           pc[t] \notin {"idle", "returned", "posting"}, pc'[t] = "returned",
           posts'[t] = posts[t]
    PROVE  PostsHere(t)'
<1>1. GrantsOver(t) \in Nat /\ GrantsOver(t) <= 2 * MaxAttempts - 1
  BY GrantsCounted, AttemptsFacts DEF GrantsByPlace
<1>2. PostsOf(GrantsOver(t)) \in Nat /\ PostsOf(2 * MaxAttempts - 1) \in Nat
      /\ PostsOf(GrantsOver(t)) <= PostsOf(2 * MaxAttempts - 1)
  BY <1>1, AttemptsFacts, PostsFacts
<1>3. posts[t] \in Nat
  BY DEF PostsTyped
<1>. QED  BY <1>2, <1>3 DEF PostsHere

LEMMA PostsOfOneThread ==
    ASSUME NEW t \in Threads, TypeInv, TypeInv', PostsTyped, PostsHere(t),
           Request(t) \/ RequestUnauthenticated(t) \/ Advance(t),
           posts'[t] = Count(posts, t, PostAnswered(t))
    PROVE  PostsHere(t)'
<1>. USE GrantsCounted, GrantsCountedNext DEF GrantsByPlace, Goto, shared, progress
<1>t. /\ pc \in [Threads -> Locations] /\ pc[t] \in Locations
      /\ attempt \in [Threads -> Tries] /\ attempt[t] \in Int
      /\ rescue \in [Threads -> BOOLEAN] /\ rescue[t] \in BOOLEAN
      /\ grantTry \in [Threads -> Tries] /\ grantTry[t] \in 0 .. MaxAttempts - 1
      /\ posts[t] \in Nat
      /\ posts'[t] = IF pc'[t] = "idle" THEN 0
                     ELSE IF pc[t] = "posting" /\ (pc'[t] # "posting" \/ grantTry'[t] # grantTry[t])
                          THEN posts[t] + 1 ELSE posts[t]
  BY DEF TypeInv, TypeOK, Tries, PostsTyped, Count, PostAnswered
<1>1. CASE Request(t) \/ RequestUnauthenticated(t)
  <2>1. /\ pc[t] = "idle" /\ pc'[t] \in {"ensure", "sending"}
        /\ posts'[t] = 0 /\ grantTry' = grantTry
    BY <1>1, <1>t DEF Request, RequestUnauthenticated, PostsHere
  <2>2. PostsOf(GrantsOver(t)') \in Nat
    BY PostsFacts
  <2>. QED  BY <2>1, <2>2 DEF PostsHere
<1>2. CASE EnsureFindsCredential(t)
  <2>1. /\ pc[t] = "ensure" /\ pc'[t] \in {"ensure", "build"}
        /\ rescue[t] => pc'[t] = "ensure" /\ attempt'[t] = attempt[t] + 1 /\ ~rescue'[t]
        /\ ~rescue[t] => pc'[t] = "build" /\ attempt'[t] = attempt[t] /\ ~rescue'[t]
    BY <1>2, <1>t DEF EnsureFindsCredential, Authenticated, NextAttempt
  <2>2. GrantsOver(t)' >= GrantsOver(t)
    BY <1>t, <2>1
  <2>. QED  BY <1>t, <2>1, <2>2, PostsStay
<1>3. CASE Granted(t)
  <2>1. /\ pc[t] = "posting" /\ pc'[t] \in {"ensure", "build"}
        /\ rescue[t] => pc'[t] = "ensure" /\ attempt'[t] = attempt[t] + 1 /\ ~rescue'[t]
        /\ ~rescue[t] => pc'[t] = "build" /\ attempt'[t] = attempt[t] /\ ~rescue'[t]
    BY <1>3, <1>t DEF Granted, Authenticated, NextAttempt
  <2>2. GrantsOver(t)' >= GrantsOver(t) + 1
    BY <1>t, <2>1
  <2>. QED  BY <1>t, <2>1, <2>2, PostsCounted
<1>4. CASE EnsureStartsGrant(t)
  <2>1. pc[t] = "ensure" /\ pc'[t] = "posting" /\ UNCHANGED <<attempt, rescue>>
    BY <1>4, <1>t DEF EnsureStartsGrant
  <2>2. GrantsOver(t)' >= GrantsOver(t)
    BY <1>t, <2>1
  <2>. QED  BY <1>t, <2>1, <2>2, PostsStay
<1>5. CASE GrantRepeated(t)
  <2>1. /\ pc[t] = "posting" /\ pc'[t] = "posting" /\ UNCHANGED <<attempt, rescue>>
        /\ grantTry'[t] = grantTry[t] + 1
    BY <1>5, <1>t DEF GrantRepeated
  <2>2. GrantsOver(t)' = GrantsOver(t) /\ PostsOf(GrantsOver(t)) \in Nat
    BY <1>t, <2>1, PostsFacts
  <2>3. posts'[t] = posts[t] + 1
    BY <1>t, <2>1
  <2>. QED  BY <1>t, <2>1, <2>2, <2>3 DEF PostsHere
<1>6. CASE PostFailed(t)
  <2>1. pc[t] = "posting" /\ pc'[t] = "raised" /\ UNCHANGED <<attempt, rescue>>
    BY <1>6, <1>t DEF PostFailed, Raise
  <2>2. GrantsOver(t)' >= GrantsOver(t) + 1
    BY <1>t, <2>1
  <2>. QED  BY <1>t, <2>1, <2>2, PostsCounted
<1>7. CASE TestCredential(t) \/ AttachCredential(t) \/ Serve(t)
           \/ ReceiveRejection(t) \/ ReceiveFailure(t)
  <2>1. /\ pc[t] \in {"build", "attach", "sending", "served"}
        /\ pc'[t] \in {"raised", "attach", "sending", "served"}
        /\ UNCHANGED <<attempt, rescue>>
    BY <1>7, <1>t DEF TestCredential, AttachCredential, Serve, ReceiveRejection,
       ReceiveFailure, Raise
  <2>2. GrantsOver(t)' >= GrantsOver(t)
    BY <1>t, <2>1
  <2>. QED  BY <1>t, <2>1, <2>2, PostsStay
<1>8. CASE ReceiveSuccess(t) \/ Propagate(t)
  <2>1. pc[t] \in {"served", "raised"} /\ pc'[t] = "returned"
    BY <1>8, <1>t DEF ReceiveSuccess, Propagate, Leave
  <2>. QED  BY <1>t, <2>1, PostsAtTheEnd
<1>9. CASE HandleAuthError(t)
  <2>1. pc[t] = "raised" /\ ~rescue[t] /\ pc'[t] \in {"ensure", "returned"}
    BY <1>9, <1>t DEF HandleAuthError, Uncaught, Leave
  <2>2. CASE pc'[t] = "ensure"
    <3>1. attempt' = attempt /\ rescue'[t]
      BY <1>9, <1>t, <2>2 DEF HandleAuthError, Leave
    <3>2. GrantsOver(t)' >= GrantsOver(t)
      BY <1>t, <2>1, <2>2, <3>1
    <3>. QED  BY <1>t, <2>1, <2>2, <3>2, PostsStay
  <2>3. CASE pc'[t] = "returned"
    BY <1>t, <2>1, <2>3, PostsAtTheEnd
  <2>. QED  BY <2>1, <2>2, <2>3
<1>10. CASE HandleOtherError(t)
  <2>1. pc[t] = "raised" /\ ~rescue[t] /\ pc'[t] \in {"ensure", "returned"}
    BY <1>10, <1>t DEF HandleOtherError, Uncaught, NextAttempt, Leave
  <2>2. CASE pc'[t] = "ensure"
    <3>1. attempt'[t] = attempt[t] + 1 /\ ~rescue'[t]
      BY <1>10, <1>t, <2>2 DEF HandleOtherError, NextAttempt, Leave
    <3>2. GrantsOver(t)' >= GrantsOver(t)
      BY <1>t, <2>1, <2>2, <3>1
    <3>. QED  BY <1>t, <2>1, <2>2, <3>2, PostsStay
  <2>3. CASE pc'[t] = "returned"
    BY <1>t, <2>1, <2>3, PostsAtTheEnd
  <2>. QED  BY <2>1, <2>2, <2>3
<1>11. CASE Return(t)
  <2>1. pc'[t] = "idle"
    BY <1>11, <1>t DEF Return
  <2>. QED  BY <1>t, <2>1 DEF PostsHere
<1>. QED
  BY <1>1, <1>2, <1>3, <1>4, <1>5, <1>6, <1>7, <1>8, <1>9, <1>10, <1>11 DEF Advance

LEMMA PostInvariant == BudgetSpec => []PostInv
<1>1. BudgetInit => PostInv
  BY DEF BudgetInit, Init, PostInv, PostsHere
<1>2. TypeInv /\ TypeInv' /\ PostsTyped /\ PostInv /\ [BudgetNext]_budgetVars => PostInv'
  <2>. SUFFICES ASSUME TypeInv, TypeInv', PostsTyped, PostInv, [BudgetNext]_budgetVars,
                       NEW t \in Threads
                PROVE  PostsHere(t)'
    BY DEF PostInv
  <2>1. PostsHere(t)
    BY DEF PostInv
  <2>2. CASE UNCHANGED budgetVars
    BY <2>1, <2>2 DEF budgetVars, vars, progress, PostsHere, GrantsOver
  <2>3. CASE BudgetNext
    <3>1. posts'[t] = Count(posts, t, PostAnswered(t))
      BY <2>3 DEF BudgetNext
    <3>2. CASE Expire
      <4>1. UNCHANGED <<pc, progress>>
        BY <3>2 DEF Expire
      <4>2. posts'[t] = posts[t]
        BY <2>1, <3>1, <4>1 DEF Count, PostAnswered, PostsHere, progress
      <4>. QED  BY <2>1, <4>1, <4>2 DEF PostsHere, GrantsOver, progress
    <3>3. ASSUME NEW u \in Threads, Request(u) \/ RequestUnauthenticated(u) \/ Advance(u)
          PROVE  PostsHere(t)'
      <4>1. CASE u = t
        BY <2>1, <3>1, <3>3, <4>1, PostsOfOneThread
      <4>2. CASE u # t
        <5>1. /\ pc'[t] = pc[t] /\ attempt'[t] = attempt[t] /\ rescue'[t] = rescue[t]
              /\ grantTry'[t] = grantTry[t]
          BY <3>3, <4>2, OthersStayPut DEF OthersStay
        <5>2. posts'[t] = posts[t]
          BY <2>1, <3>1, <5>1 DEF Count, PostAnswered, PostsHere
        <5>. QED  BY <2>1, <5>1, <5>2 DEF PostsHere, GrantsOver
      <4>. QED  BY <4>1, <4>2
    <3>. QED  BY <2>3, <3>2, <3>3 DEF BudgetNext, Next
  <2>. QED  BY <2>2, <2>3
<1>3. BudgetSpec => []TypeInv
  BY BudgetIsClient, TypeInvariant, PTL
<1>. QED  BY <1>1, <1>2, <1>3, PostsAreTyped, PTL DEF BudgetSpec

\* The grants nested in request(), in its handler and in _grant_token() add up to
\* a fixed number of requests, for every MAX_ATTEMPTS and any number of threads.
THEOREM PostsBounded == BudgetSpec => []PostBudget
<1>1. TypeInv /\ PostsTyped /\ PostInv => PostBudget
  <2>. SUFFICES ASSUME TypeInv, PostsTyped, PostInv, NEW t \in Threads
                PROVE  posts[t] <= PostsOf(2 * MaxAttempts - 1)
    BY DEF PostBudget, PostsOf
  <2>1. posts[t] \in Nat /\ PostsOf(2 * MaxAttempts - 1) \in Nat
    BY AttemptsFacts, PostsFacts DEF PostsTyped
  <2>2. PostsHere(t)
    BY DEF PostInv
  <2>3. CASE pc[t] \in {"idle", "returned"}
    BY <2>1, <2>2, <2>3 DEF PostsHere
  <2>4. CASE pc[t] = "posting"
    <3>1. GrantsOver(t) \in Nat /\ GrantsOver(t) + 1 <= 2 * MaxAttempts - 1
      <4>1. /\ attempt[t] \in 0 .. MaxAttempts - 1 /\ rescue[t] \in BOOLEAN
            /\ rescue[t] => attempt[t] < MaxAttempts - 1
        BY DEF TypeInv, TypeOK, Tries
      <4>2. GrantsOver(t) = 2 * attempt[t] + (IF rescue[t] THEN 1 ELSE 0)
        BY <2>4, GrantsCounted DEF GrantsByPlace
      <4>. QED  BY <4>1, <4>2, AttemptsFacts
    <3>2. PostsOf(GrantsOver(t)) + MaxAttempts <= PostsOf(2 * MaxAttempts - 1)
      <4>1. /\ PostsOf(GrantsOver(t) + 1) = PostsOf(GrantsOver(t)) + MaxAttempts
            /\ PostsOf(GrantsOver(t) + 1) <= PostsOf(2 * MaxAttempts - 1)
        BY <3>1, AttemptsFacts, PostsFacts
      <4>. QED  BY <4>1
    <3>3. grantTry[t] \in 0 .. MaxAttempts - 1 /\ PostsOf(GrantsOver(t)) \in Nat
      BY <3>1, PostsFacts DEF TypeInv, TypeOK, Tries
    <3>4. posts[t] <= PostsOf(GrantsOver(t)) + grantTry[t]
      BY <2>2, <2>4 DEF PostsHere
    <3>. QED  BY <2>1, <3>2, <3>3, <3>4, AttemptsFacts
  <2>5. CASE pc[t] \notin {"idle", "returned", "posting"}
    <3>1. GrantsOver(t) \in Nat /\ GrantsOver(t) <= 2 * MaxAttempts - 1
      BY GrantsCounted, AttemptsFacts DEF GrantsByPlace
    <3>2. PostsOf(GrantsOver(t)) <= PostsOf(2 * MaxAttempts - 1) /\ PostsOf(GrantsOver(t)) \in Nat
      BY <3>1, AttemptsFacts, PostsFacts
    <3>. QED  BY <2>1, <2>2, <2>5, <3>2 DEF PostsHere
  <2>. QED  BY <2>3, <2>4, <2>5
<1>2. BudgetSpec => []TypeInv
  BY BudgetIsClient, TypeInvariant, PTL
<1>. QED  BY <1>1, <1>2, PostsAreTyped, PostInvariant, PTL

-----------------------------------------------------------------------------
(* Who is to blame for an authentication error.                            *)

\* What the others do leaves the exchange of a call alone.
ExchangeStays(t) ==
    /\ sent'[t] = sent[t] /\ reply'[t] = reply[t] /\ rejected'[t] = rejected[t]

LEMMA OthersExchangesStay ==
    ASSUME NEW t \in Threads, NEW u \in Threads \ {t}, TypeInv,
           Request(t) \/ RequestUnauthenticated(t) \/ Advance(t)
    PROVE  ExchangeStays(u)
<1>. USE DEF ExchangeStays, exchange, history, TypeInv, TypeOK
<1>1. CASE Request(t) \/ RequestUnauthenticated(t)
  BY <1>1 DEF Request, RequestUnauthenticated
<1>2. CASE EnsureFindsCredential(t) \/ Granted(t) \/ EnsureStartsGrant(t) \/ GrantRepeated(t)
  BY <1>2 DEF EnsureFindsCredential, Granted, EnsureStartsGrant, GrantRepeated
<1>3. CASE PostFailed(t) \/ TestCredential(t) \/ AttachCredential(t) \/ Serve(t)
  BY <1>3 DEF PostFailed, TestCredential, AttachCredential, Serve
<1>4. CASE ReceiveSuccess(t) \/ ReceiveRejection(t) \/ ReceiveFailure(t)
  BY <1>4 DEF ReceiveSuccess, ReceiveRejection, ReceiveFailure, EndExchange
<1>5. CASE HandleAuthError(t) \/ HandleOtherError(t) \/ Propagate(t) \/ Return(t)
  BY <1>5 DEF HandleAuthError, HandleOtherError, Propagate, Return
<1>. QED  BY <1>1, <1>2, <1>3, <1>4, <1>5 DEF Advance

\* The credential a call tested under the lock is there when it builds its request,
\* unless another thread cleared it meanwhile; so an authentication error on its
\* way up, or out, stands for a refusal or for that.
BlameHere(t) ==
    /\ pc[t] \in {"build", "attach"} => credential # None \/ disturbed[t]
    /\ pc[t] \in {"sending", "served"} /\ authed[t] => sent[t] # None \/ disturbed[t]
    /\ pc[t] = "served" /\ reply[t].kind = "auth" => authed[t]
    /\ pc[t] \in {"raised", "returned"} /\ error[t] = "auth"
          => rejected[t] # {} \/ denied[t] > 0 \/ disturbed[t]

BlameInv == \A t \in Threads : BlameHere(t)

\* The history variables of one call.
LEMMA HistoryOfCall ==
    ASSUME NEW t \in Threads, BudgetNext
    PROVE  /\ denied'[t] = IF pc'[t] = "idle" THEN 0
                           ELSE IF PostRefused(t) THEN denied[t] + 1 ELSE denied[t]
           /\ disturbed'[t] =
                 (pc'[t] \notin {"idle", "ensure"} /\ (disturbed[t] \/ Disturbed(t)))
BY DEF BudgetNext, Count

\* A step of another thread: it may clear the credential, and is blamed for it.
LEMMA BlameOfOthers ==
    ASSUME NEW t \in Threads, NEW u \in Threads \ {t}, TypeInv, BudgetNext, BlameHere(t),
           Request(u) \/ RequestUnauthenticated(u) \/ Advance(u)
    PROVE  BlameHere(t)'
<1>1. /\ pc'[t] = pc[t] /\ authed'[t] = authed[t] /\ error'[t] = error[t]
      /\ grantTry'[t] = grantTry[t]
  BY OthersStayPut DEF OthersStay
<1>2. ExchangeStays(t)
  BY OthersExchangesStay
<1>3. pc[t] # "idle" => denied'[t] = denied[t]
  BY <1>1, HistoryOfCall DEF PostRefused
<1>4. pc[t] \notin {"idle", "ensure"} => disturbed'[t] = (disturbed[t] \/ Disturbed(t))
  BY <1>1, HistoryOfCall
<1>5. pc[t] \in {"build", "attach"} => credential' # None \/ disturbed'[t]
  BY <1>1, <1>4 DEF Disturbed, BlameHere
<1>. QED  BY <1>1, <1>2, <1>3, <1>4, <1>5 DEF BlameHere, ExchangeStays

\* A step of the thread itself.
LEMMA BlameOfOneself ==
    ASSUME NEW t \in Threads, TypeInv, PostsTyped, BudgetNext, BlameHere(t),
           Request(t) \/ RequestUnauthenticated(t) \/ Advance(t)
    PROVE  BlameHere(t)'
<1>t. /\ pc \in [Threads -> Locations] /\ sent \in [Threads -> Credentials \cup {None}]
      /\ authed \in [Threads -> BOOLEAN] /\ error \in [Threads -> Errors \cup {"ok", "none"}]
      /\ reply \in [Threads -> Replies] /\ rejected \in [Threads -> SUBSET Credentials]
      /\ denied[t] \in Nat
  BY DEF TypeInv, TypeOK, PostsTyped
<1>d. denied'[t] = IF pc'[t] = "idle" THEN 0 ELSE IF PostRefused(t) THEN denied[t] + 1 ELSE denied[t]
  BY HistoryOfCall
<1>b. pc'[t] \notin {"idle", "ensure"} /\ disturbed[t] => disturbed'[t]
  BY HistoryOfCall
<1>. USE <1>t, ThreadsAssumption, CredentialsAssumption
     DEF BlameHere, Goto, shared, progress, exchange, history
<1>1. CASE Request(t) \/ RequestUnauthenticated(t)
  BY <1>1 DEF Request, RequestUnauthenticated
<1>2. CASE EnsureFindsCredential(t)
  BY <1>2 DEF EnsureFindsCredential, Authenticated, NextAttempt, Usable
<1>3. CASE EnsureStartsGrant(t) \/ GrantRepeated(t)
  BY <1>3 DEF EnsureStartsGrant, GrantRepeated
<1>4. CASE Granted(t)
  BY <1>4 DEF Granted, Authenticated, NextAttempt, Unused
<1>5. CASE PostFailed(t)
  <2>1. pc[t] = "posting" /\ pc'[t] = "raised"
    BY <1>5 DEF PostFailed, Raise
  <2>2. error'[t] = "auth" => denied'[t] > 0
    BY <1>d, <2>1 DEF PostRefused
  <2>. QED  BY <2>1, <2>2
<1>6. CASE TestCredential(t)
  BY <1>6, <1>b DEF TestCredential, Raise
<1>7. CASE AttachCredential(t)
  BY <1>7, <1>b DEF AttachCredential
<1>8. CASE Serve(t)
  BY <1>8, <1>b DEF Serve, PossibleReplies
<1>9. CASE ReceiveSuccess(t)
  BY <1>9 DEF ReceiveSuccess, Leave
<1>10. CASE ReceiveRejection(t)
  <2>1. pc'[t] = "raised" /\ pc[t] = "served" /\ reply[t].kind = "auth"
        /\ rejected'[t] = rejected[t] \cup ({sent[t]} \ {None})
    BY <1>10 DEF ReceiveRejection, Raise
  <2>2. sent[t] # None \/ disturbed'[t]
    BY <1>b, <2>1
  <2>. QED  BY <2>1, <2>2
<1>11. CASE ReceiveFailure(t)
  BY <1>11 DEF ReceiveFailure, Raise
<1>12. CASE HandleAuthError(t) \/ HandleOtherError(t) \/ Propagate(t)
  <2>1. /\ pc[t] = "raised" /\ pc'[t] \in {"ensure", "returned"} /\ rejected' = rejected
        /\ pc'[t] = "returned" => error'[t] = error[t]
    BY <1>12 DEF HandleAuthError, HandleOtherError, Propagate, NextAttempt, Leave
  <2>2. denied'[t] = denied[t]
    BY <1>d, <2>1 DEF PostRefused
  <2>. QED  BY <1>b, <2>1, <2>2
<1>13. CASE Return(t)
  BY <1>13 DEF Return
<1>. QED
  BY <1>1, <1>2, <1>3, <1>4, <1>5, <1>6, <1>7, <1>8, <1>9, <1>10, <1>11, <1>12, <1>13 DEF Advance

LEMMA BlameInvariant == BudgetSpec => []BlameInv
<1>1. BudgetInit => BlameInv
  BY DEF BudgetInit, Init, BlameInv, BlameHere
<1>2. TypeInv /\ PostsTyped /\ BlameInv /\ [BudgetNext]_budgetVars => BlameInv'
  <2>. SUFFICES ASSUME TypeInv, PostsTyped, BlameInv, [BudgetNext]_budgetVars, NEW t \in Threads
                PROVE  BlameHere(t)'
    BY DEF BlameInv
  <2>s. BlameHere(t)
    BY DEF BlameInv
  <2>1. CASE UNCHANGED budgetVars
    BY <2>s, <2>1 DEF budgetVars, vars, shared, progress, exchange, history, BlameHere
  <2>2. CASE BudgetNext /\ Expire
    <3>1. UNCHANGED <<credential, pc, authed, sent, reply, error, rejected>>
      BY <2>2 DEF Expire, progress, exchange, history
    <3>2. /\ pc[t] # "idle" => denied'[t] = denied[t]
          /\ pc[t] \notin {"idle", "ensure"} /\ disturbed[t] => disturbed'[t]
      BY <2>2, <3>1, HistoryOfCall DEF PostRefused
    <3>. QED  BY <2>s, <3>1, <3>2 DEF BlameHere
  <2>3. ASSUME BudgetNext, NEW u \in Threads,
               Request(u) \/ RequestUnauthenticated(u) \/ Advance(u)
        PROVE  BlameHere(t)'
    <3>1. CASE u = t
      BY <2>s, <2>3, <3>1, BlameOfOneself
    <3>2. CASE u # t
      BY <2>s, <2>3, <3>2, BlameOfOthers
    <3>. QED  BY <3>1, <3>2
  <2>. QED  BY <2>1, <2>2, <2>3 DEF BudgetNext, Next
<1>3. BudgetSpec => []TypeInv
  BY BudgetIsClient, TypeInvariant, PTL
<1>. QED  BY <1>1, <1>2, <1>3, PostsAreTyped, PTL DEF BudgetSpec

\* Whatever threads share the client, PeplinkAuthError means that the device
\* refused a login, a grant or a credential of that very call, or that another thread
\* cleared the credential between its test and its use in the last attempt.
THEOREM AuthFailuresJustified == BudgetSpec => []AuthFailureJustified
<1>1. BlameInv => AuthFailureJustified
  BY DEF BlameInv, BlameHere, AuthFailureJustified
<1>. QED  BY <1>1, BlameInvariant, PTL

-----------------------------------------------------------------------------
(* A client that one thread uses.                                          *)

\* Logins refused to the running call.  A session cookie has no expiry, so in
\* _raw_request() a login is needed only as long as none succeeded and, the first
\* refusal being the end of that attempt, none was refused; a second is refused
\* in the handler, where nothing catches it.
DeniedHere(t) ==
    /\ pc[t] \in {"idle", "build", "attach", "sending", "served", "returned"} => ~rescue[t]
    /\ pc[t] = "idle" => denied[t] = 0
    /\ pc[t] = "posting" /\ ~rescue[t] => denied[t] = 0
    /\ pc[t] \in {"ensure", "build", "attach", "sending", "served"} /\ ~rescue[t] /\ ~Usable
          => denied[t] = 0
    /\ pc[t] = "raised" /\ ~rescue[t] /\ error[t] # "auth" /\ ~Usable => denied[t] = 0
    /\ pc[t] \in {"raised", "returned"} => denied[t] <= 2
    /\ pc[t] # "returned" /\ ~(pc[t] = "raised" /\ rescue[t]) => denied[t] <= 1

DeniedInv == kind = "userpass" => \A t \in Threads : DeniedHere(t)

LEMMA DeniedInvariant ==
    ASSUME \A t, u \in Threads : t = u
    PROVE  BudgetSpec => []DeniedInv
<1>1. BudgetInit => DeniedInv
  BY DEF BudgetInit, Init, DeniedInv, DeniedHere
<1>2. TypeInv /\ PostsTyped /\ DeniedInv /\ [BudgetNext]_budgetVars => DeniedInv'
  <2>. SUFFICES ASSUME TypeInv, PostsTyped, DeniedInv, [BudgetNext]_budgetVars,
                       kind' = "userpass", NEW t \in Threads
                PROVE  DeniedHere(t)'
    BY DEF DeniedInv
  <2>k. kind' = kind
    BY DEF budgetVars, vars, shared, BudgetNext, Next, Advance, Request, RequestUnauthenticated,
       EnsureFindsCredential, EnsureStartsGrant, Granted, GrantRepeated, PostFailed,
       TestCredential, AttachCredential, Serve, ReceiveSuccess, ReceiveRejection,
       ReceiveFailure, HandleAuthError, HandleOtherError, Propagate, Return, Expire
  <2>t. /\ pc \in [Threads -> Locations] /\ pc[t] \in Locations
        /\ rescue \in [Threads -> BOOLEAN] /\ authed \in [Threads -> BOOLEAN]
        /\ error \in [Threads -> Errors \cup {"ok", "none"}]
        /\ denied[t] \in Nat
    BY DEF TypeInv, TypeOK, PostsTyped
  <2>s. DeniedHere(t)
    BY <2>k DEF DeniedInv
  <2>1. CASE UNCHANGED budgetVars
    BY <2>s, <2>1 DEF budgetVars, vars, shared, progress, DeniedHere, Usable
  <2>2. CASE BudgetNext
    <3>. USE <2>t, <2>s, ThreadsAssumption, CredentialsAssumption
         DEF DeniedHere, Usable, Locations, Goto, shared, progress
    <3>d. denied'[t] = IF pc'[t] = "idle" THEN 0 ELSE IF PostRefused(t) THEN denied[t] + 1 ELSE denied[t]
      BY <2>2 DEF BudgetNext, Count
    <3>e. pc[t] # "posting" /\ pc'[t] # "idle" => denied'[t] = denied[t]
      BY <3>d DEF PostRefused
    <3>1. ~Expire
      BY <2>k DEF Expire
    <3>2. CASE Request(t) \/ RequestUnauthenticated(t)
      <4>1. /\ pc[t] = "idle" /\ pc'[t] \in {"ensure", "sending"}
            /\ UNCHANGED <<shared, rescue>>
        BY <3>2 DEF Request, RequestUnauthenticated
      <4>. QED  BY <3>e, <4>1
    <3>3. CASE EnsureFindsCredential(t)
      <4>1. /\ pc[t] = "ensure" /\ pc'[t] \in {"ensure", "build"} /\ ~rescue'[t]
            /\ Usable /\ UNCHANGED shared
        BY <3>3 DEF EnsureFindsCredential, Authenticated, NextAttempt
      <4>. QED  BY <3>e, <4>1
    <3>4. CASE EnsureStartsGrant(t)
      <4>1. /\ pc[t] = "ensure" /\ pc'[t] = "posting" /\ UNCHANGED <<credential, fresh, rescue>>
            /\ ~Usable
        BY <3>4 DEF EnsureStartsGrant
      <4>. QED  BY <3>e, <4>1
    <3>5. CASE Granted(t)
      <4>1. /\ pc[t] = "posting" /\ pc'[t] \in {"ensure", "build"} /\ ~rescue'[t] /\ Usable'
        BY <3>5 DEF Granted, Authenticated, NextAttempt, Unused
      <4>2. denied'[t] = denied[t]
        BY <3>d, <4>1 DEF PostRefused
      <4>. QED  BY <4>1, <4>2
    <3>6. ~GrantRepeated(t)
      BY <2>k DEF GrantRepeated
    <3>7. CASE PostFailed(t)
      <4>1. /\ pc[t] = "posting" /\ pc'[t] = "raised" /\ UNCHANGED <<credential, fresh, rescue>>
            /\ error'[t] # "none"
        BY <3>7 DEF PostFailed, Raise, PostErrors, Errors
      <4>2. /\ error'[t] = "auth" => denied'[t] = denied[t] + 1
            /\ error'[t] # "auth" => denied'[t] = denied[t]
        BY <3>d, <4>1 DEF PostRefused
      <4>. QED  BY <4>1, <4>2
    <3>8. CASE TestCredential(t)
      <4>1. /\ pc[t] = "build" /\ pc'[t] \in {"raised", "attach"}
            /\ pc'[t] = "raised" => error'[t] = "auth"
            /\ UNCHANGED <<shared, rescue>>
        BY <3>8 DEF TestCredential, Raise
      <4>. QED  BY <3>e, <4>1
    <3>9. CASE AttachCredential(t) \/ Serve(t)
      <4>1. /\ pc[t] \in {"attach", "sending"} /\ pc'[t] \in {"sending", "served"}
            /\ UNCHANGED <<shared, rescue>>
        BY <3>9 DEF AttachCredential, Serve
      <4>. QED  BY <3>e, <4>1
    <3>10. CASE ReceiveSuccess(t) \/ Propagate(t)
      <4>1. pc[t] \in {"served", "raised"} /\ pc'[t] = "returned" /\ ~rescue'[t]
        BY <3>10 DEF ReceiveSuccess, Propagate, Leave
      <4>. QED  BY <3>e, <4>1
    <3>11. CASE ReceiveRejection(t)
      <4>1. pc[t] = "served" /\ pc'[t] = "raised" /\ error'[t] = "auth" /\ UNCHANGED rescue
        BY <3>11 DEF ReceiveRejection, Raise
      <4>. QED  BY <3>e, <4>1
    <3>12. CASE ReceiveFailure(t)
      <4>1. pc[t] = "served" /\ pc'[t] = "raised" /\ UNCHANGED <<shared, rescue>>
        BY <3>12 DEF ReceiveFailure, Raise
      <4>. QED  BY <3>e, <4>1
    <3>13. CASE HandleAuthError(t)
      <4>1. /\ pc[t] = "raised" /\ ~rescue[t]
            /\ \/ pc'[t] = "ensure" /\ rescue'[t] = TRUE
               \/ pc'[t] = "returned" /\ ~rescue'[t]
        BY <3>13 DEF HandleAuthError, Uncaught, Leave
      <4>. QED  BY <3>e, <4>1
    <3>14. CASE HandleOtherError(t)
      <4>1. /\ pc[t] = "raised" /\ ~rescue[t] /\ error[t] # "auth" /\ UNCHANGED shared
            /\ pc'[t] \in {"ensure", "returned"} /\ ~rescue'[t]
        BY <3>14 DEF HandleOtherError, Uncaught, NextAttempt, Leave
      <4>. QED  BY <3>e, <4>1
    <3>15. CASE Return(t)
      <4>1. pc[t] = "returned" /\ pc'[t] = "idle" /\ UNCHANGED rescue
        BY <3>15 DEF Return
      <4>. QED  BY <3>d, <4>1
    <3>. QED
      BY <2>2, <3>1, <3>2, <3>3, <3>4, <3>5, <3>6, <3>7, <3>8, <3>9, <3>10, <3>11, <3>12,
         <3>13, <3>14, <3>15 DEF BudgetNext, Next, Advance
  <2>. QED  BY <2>1, <2>2
<1>3. BudgetSpec => []TypeInv
  BY BudgetIsClient, TypeInvariant, PTL
<1>. QED  BY <1>1, <1>2, <1>3, PostsAreTyped, PTL DEF BudgetSpec

\* A wrong password is sent at most twice by one call of request(), whatever the
\* number of attempts: the account is not locked by the retry loop.
THEOREM LoginsRefusedTwice ==
    ASSUME \A t, u \in Threads : t = u
    PROVE  BudgetSpec => []LoginRefusedTwiceAtMost
<1>1. PostsTyped /\ DeniedInv => LoginRefusedTwiceAtMost
  <2>. SUFFICES ASSUME PostsTyped, DeniedInv, kind = "userpass", NEW t \in Threads
                PROVE  denied[t] <= 2
    BY DEF LoginRefusedTwiceAtMost
  <2>. QED  BY DEF PostsTyped, DeniedInv, DeniedHere
<1>. QED  BY <1>1, DeniedInvariant, PostsAreTyped, PTL
=============================================================================
