--------------------------- MODULE IC2ClientProofs ---------------------------
(***************************************************************************)
(* Proofs about IC2Client and IC2CallBlame for any number of threads,      *)
(* tokens and attempts.                                                    *)
(***************************************************************************)
EXTENDS IC2CallBlame, TLAPS

\* The loop variables start inside their range, and the test the loops make
\* before they go on keeps them inside.
LEMMA TriesFacts ==
    /\ MaxAttempts \in Int
    /\ Tries \subseteq Int
    /\ 0 \in Tries
    /\ \A n \in Tries : n < MaxAttempts - 1 => n + 1 \in Tries
BY AttemptsAssumption DEF Tries

\* request()'s handler calls ensure_authenticated() only when an attempt is
\* left, so the attempt that follows stays below MAX_ATTEMPTS; and what is
\* refused as a refresh token is one, because the lock keeps another thread from
\* dropping it during the exchange.
CallInv ==
    \A t \in Threads :
        /\ rescue[t] => attempt[t] < MaxAttempts - 1
        /\ pc[t] \in Posting => lock = t
        /\ pc[t] = "refreshing" => refresh # None

TypeInv == TypeOK /\ CallInv

\* The loop of request() goes on only when an attempt is left.
LEMMA NextAttemptTyped ==
    ASSUME NEW t \in Threads, TypeOK, attempt[t] < MaxAttempts - 1, NextAttempt(t)
    PROVE  /\ attempt' \in [Threads -> Tries]
           /\ rescue' \in [Threads -> BOOLEAN]
           /\ pc' \in [Threads -> Locations]
<1>1. attempt[t] + 1 \in Tries
  BY TriesFacts DEF TypeOK
<1>2. QED
  BY <1>1 DEF TypeOK, NextAttempt, Goto, Locations

\* The locals of every call of request() stay in their sets, and the attempt
\* counters below MAX_ATTEMPTS.
THEOREM TypeInvariant == Spec => []TypeInv
<1>1. Init => TypeInv
  <2>. SUFFICES ASSUME Init PROVE TypeInv
    OBVIOUS
  <2>1. reply \in [Threads -> Replies]
    BY DEF Init, Replies, NoReply, Errors
  <2>2. /\ attempt \in [Threads -> Tries]
        /\ postTry \in [Threads -> Tries]
        /\ \A t \in Threads : ~rescue[t] /\ pc[t] \notin Posting
    BY TriesFacts DEF Init, Posting
  <2>3. /\ pc \in [Threads -> Locations]
        /\ rescue \in [Threads -> BOOLEAN]
        /\ sent \in [Threads -> Tokens \cup {None}]
        /\ error \in [Threads -> Errors \cup {"ok", "none"}]
        /\ denied \in [Threads -> BOOLEAN]
    BY DEF Init, Locations
  <2>4. /\ applied \in [Threads -> Nat]
        /\ unconfirmed \in [Threads -> Nat]
        /\ rejected \in [Threads -> SUBSET Tokens]
    BY DEF Init
  <2>5. /\ lock \in Threads \cup {None}
        /\ token \in Tokens \cup {None}
        /\ refresh \in RefreshTokens \cup {None}
        /\ refused \subseteq RefreshTokens
        /\ fresh \in BOOLEAN
    BY DEF Init, Lowest
  <2>6. QED
    BY <2>1, <2>2, <2>3, <2>4, <2>5 DEF TypeInv, CallInv, TypeOK, Posting
<1>2. TypeInv /\ [Next]_vars => TypeOK'
  <2>. SUFFICES ASSUME TypeOK, CallInv, [Next]_vars PROVE TypeOK'
    BY DEF TypeInv
  <2>. USE ThreadsAssumption, TokensAssumption, RefreshTokensAssumption, TriesFacts
       DEF TypeOK, Locations, Posting, Errors, Replies, NoReply, Goto,
       shared, progress, exchange, history
  <2>1. ASSUME NEW t \in Threads, Request(t) PROVE TypeOK'
    BY <2>1 DEF Request
  <2>2. ASSUME NEW t \in Threads, EnsureFindsToken(t) PROVE TypeOK'
    <3>1. CASE rescue[t]
      BY <2>2, <3>1, NextAttemptTyped DEF EnsureFindsToken, Authenticated,
         CallInv
    <3>2. CASE ~rescue[t]
      BY <2>2, <3>2 DEF EnsureFindsToken, Authenticated
    <3>3. QED
      BY <3>1, <3>2
  <2>3. ASSUME NEW t \in Threads, EnsureStartsGrant(t) PROVE TypeOK'
    BY <2>3 DEF EnsureStartsGrant
  <2>4. ASSUME NEW t \in Threads, Granted(t) PROVE TypeOK'
    <3>1. CASE rescue[t]
      BY <2>4, <3>1, NextAttemptTyped DEF Granted, Authenticated, CallInv,
         StoreTokens, Issued, IssuedRefresh, Lowest, ReleaseLock,
         ResetPostTry
    <3>2. CASE ~rescue[t]
      BY <2>4, <3>2 DEF Granted, Authenticated, StoreTokens, Issued,
         IssuedRefresh, Lowest, ReleaseLock, ResetPostTry
    <3>3. QED
      BY <3>1, <3>2
  <2>5. ASSUME NEW t \in Threads, GrantedWithoutExpiry(t) PROVE TypeOK'
    BY <2>5 DEF GrantedWithoutExpiry, StoreTokens, Issued, IssuedRefresh,
       Lowest, Raise, ReleaseLock, ResetPostTry
  <2>6. ASSUME NEW t \in Threads, PostRepeated(t) PROVE TypeOK'
    BY <2>6 DEF PostRepeated
  <2>7. ASSUME NEW t \in Threads, RefreshRefused(t) PROVE TypeOK'
    <3>1. refresh \in RefreshTokens
      BY <2>7 DEF RefreshRefused, CallInv
    <3>2. QED
      BY <2>7, <3>1 DEF RefreshRefused, DropRefresh, ResetPostTry
  <2>8. ASSUME NEW t \in Threads, GrantFailed(t) PROVE TypeOK'
    BY <2>8 DEF GrantFailed, GrantErrors, Raise, ReleaseLock, ResetPostTry
  <2>9. ASSUME NEW t \in Threads, AttachToken(t) PROVE TypeOK'
    BY <2>9 DEF AttachToken
  <2>10. ASSUME NEW t \in Threads, Serve(t) PROVE TypeOK'
    BY <2>10 DEF Serve, PossibleReplies
  <2>11. ASSUME NEW t \in Threads, ReceiveSuccess(t) PROVE TypeOK'
    BY <2>11 DEF ReceiveSuccess, Leave, EndExchange
  <2>12. ASSUME NEW t \in Threads, ReceiveRejection(t) PROVE TypeOK'
    BY <2>12 DEF ReceiveRejection, ClearAuth, Raise, EndExchange
  <2>13. ASSUME NEW t \in Threads, ReceiveFailure(t) PROVE TypeOK'
    BY <2>13 DEF ReceiveFailure, Raise, EndExchange
  <2>14. ASSUME NEW t \in Threads, HandleAuthError(t) PROVE TypeOK'
    <3>1. CASE HasMoreAttempts(t)
      BY <2>14, <3>1 DEF HandleAuthError, HasMoreAttempts, ClearAuth, Caught
    <3>2. CASE ~HasMoreAttempts(t)
      <4>1. Leave(t) /\ UNCHANGED error
        BY <2>14, <3>2 DEF HandleAuthError, HasMoreAttempts
      <4>2. ClearAuth /\ UNCHANGED <<lock, refresh, postTry, exchange, history, refused>>
        BY <2>14 DEF HandleAuthError
      <4>3. QED
        BY <4>1, <4>2 DEF Leave, ClearAuth
    <3>3. QED
      BY <3>1, <3>2
  <2>15. ASSUME NEW t \in Threads, HandleTransientError(t) PROVE TypeOK'
    <3>1. CASE HasMoreAttempts(t)
      <4>1. NextAttempt(t) /\ attempt[t] < MaxAttempts - 1
        BY <2>15, <3>1 DEF HandleTransientError, HasMoreAttempts
      <4>2. QED
        BY <2>15, <3>1, <4>1, NextAttemptTyped DEF HandleTransientError, Caught
    <3>2. CASE ~HasMoreAttempts(t)
      <4>1. Leave(t) /\ UNCHANGED <<shared, postTry, exchange, error, history, refused>>
        BY <2>15, <3>2 DEF HandleTransientError, HasMoreAttempts
      <4>2. QED
        BY <4>1 DEF Leave
    <3>3. QED
      BY <3>1, <3>2
  <2>16. ASSUME NEW t \in Threads, Propagate(t) PROVE TypeOK'
    BY <2>16 DEF Propagate, Leave
  <2>17. ASSUME NEW t \in Threads, Return(t) PROVE TypeOK'
    BY <2>17 DEF Return, Caught
  <2>18. CASE Expire
    BY <2>18 DEF Expire
  <2>19. CASE UNCHANGED vars
    BY <2>19 DEF vars
  <2>20. QED
    BY <2>1, <2>2, <2>3, <2>4, <2>5, <2>6, <2>7, <2>8, <2>9, <2>10, <2>11,
       <2>12, <2>13, <2>14, <2>15, <2>16, <2>17, <2>18, <2>19 DEF Next,
       Advance
<1>3. TypeInv /\ [Next]_vars => CallInv'
  <2>. SUFFICES ASSUME TypeOK, CallInv, [Next]_vars PROVE CallInv'
    BY DEF TypeInv
  <2>. USE ThreadsAssumption, RefreshTokensAssumption, TriesFacts
       DEF TypeOK, CallInv, Locations, Posting, Goto, shared, progress,
       exchange, history
  <2>1. ASSUME NEW t \in Threads, Request(t) PROVE CallInv'
    BY <2>1 DEF Request
  <2>2. ASSUME NEW t \in Threads, EnsureFindsToken(t) PROVE CallInv'
    BY <2>2 DEF EnsureFindsToken, Authenticated, NextAttempt
  <2>3. ASSUME NEW t \in Threads, EnsureStartsGrant(t) PROVE CallInv'
    BY <2>3 DEF EnsureStartsGrant
  <2>4. ASSUME NEW t \in Threads, Granted(t) PROVE CallInv'
    BY <2>4 DEF Granted, StoreTokens, Issued, IssuedRefresh, Lowest,
       Authenticated, NextAttempt, ReleaseLock, ResetPostTry
  <2>5. ASSUME NEW t \in Threads, GrantedWithoutExpiry(t) PROVE CallInv'
    BY <2>5 DEF GrantedWithoutExpiry, StoreTokens, Issued, IssuedRefresh,
       Lowest, Raise, ReleaseLock, ResetPostTry
  <2>6. ASSUME NEW t \in Threads, PostRepeated(t) PROVE CallInv'
    BY <2>6 DEF PostRepeated
  <2>7. ASSUME NEW t \in Threads, RefreshRefused(t) PROVE CallInv'
    BY <2>7 DEF RefreshRefused, DropRefresh, ResetPostTry
  <2>8. ASSUME NEW t \in Threads, GrantFailed(t) PROVE CallInv'
    BY <2>8 DEF GrantFailed, GrantErrors, Raise, ReleaseLock, ResetPostTry
  <2>9. ASSUME NEW t \in Threads, AttachToken(t) PROVE CallInv'
    BY <2>9 DEF AttachToken
  <2>10. ASSUME NEW t \in Threads, Serve(t) PROVE CallInv'
    BY <2>10 DEF Serve, PossibleReplies
  <2>11. ASSUME NEW t \in Threads, ReceiveSuccess(t) PROVE CallInv'
    BY <2>11 DEF ReceiveSuccess, Leave, EndExchange
  <2>12. ASSUME NEW t \in Threads, ReceiveRejection(t) PROVE CallInv'
    BY <2>12 DEF ReceiveRejection, ClearAuth, Raise, EndExchange
  <2>13. ASSUME NEW t \in Threads, ReceiveFailure(t) PROVE CallInv'
    BY <2>13 DEF ReceiveFailure, Raise, EndExchange
  <2>14. ASSUME NEW t \in Threads, HandleAuthError(t) PROVE CallInv'
    BY <2>14 DEF HandleAuthError, ClearAuth, HasMoreAttempts, Caught, Leave
  <2>15. ASSUME NEW t \in Threads, HandleTransientError(t) PROVE CallInv'
    BY <2>15 DEF HandleTransientError, HasMoreAttempts, Retries,
       NextAttempt, Caught, Leave
  <2>16. ASSUME NEW t \in Threads, Propagate(t) PROVE CallInv'
    BY <2>16 DEF Propagate, Leave
  <2>17. ASSUME NEW t \in Threads, Return(t) PROVE CallInv'
    BY <2>17 DEF Return, Caught
  <2>18. CASE Expire
    BY <2>18 DEF Expire
  <2>19. CASE UNCHANGED vars
    BY <2>19 DEF vars
  <2>20. QED
    BY <2>1, <2>2, <2>3, <2>4, <2>5, <2>6, <2>7, <2>8, <2>9, <2>10, <2>11,
       <2>12, <2>13, <2>14, <2>15, <2>16, <2>17, <2>18, <2>19 DEF Next,
       Advance
<1>4. QED
  BY <1>1, <1>2, <1>3, PTL DEF Spec, TypeInv

\* The type invariant of IC2Client.
THEOREM Typing == Spec => []TypeOK
<1>1. TypeInv => TypeOK
  BY DEF TypeInv
<1>2. QED
  BY <1>1, TypeInvariant, PTL

\* ensure_authenticated(): the lock and the test made under it keep the grants
\* of any number of threads from overlapping, none starts while an unexpired
\* token is held, and every way out of a grant gives the lock back.
THEOREM OneGrantInFlight == Spec => []SingleFlight
<1>1. Init => SingleFlight
  BY ThreadsAssumption, TokensAssumption, RefreshTokensAssumption DEF Init, SingleFlight,
     Locations, Posting
<1>2. SingleFlight /\ TypeOK /\ [Next]_vars => SingleFlight'
  <2>. SUFFICES ASSUME SingleFlight, TypeOK, [Next]_vars PROVE SingleFlight'
    OBVIOUS
  <2>. USE ThreadsAssumption, TokensAssumption, RefreshTokensAssumption
       DEF SingleFlight, TypeOK, Locations, Posting, Goto, shared, progress,
       exchange, history, Usable
  <2>1. ASSUME NEW t \in Threads, Request(t) PROVE SingleFlight'
    BY <2>1 DEF Request
  <2>2. ASSUME NEW t \in Threads, EnsureFindsToken(t) PROVE SingleFlight'
    BY <2>2 DEF EnsureFindsToken, Authenticated, NextAttempt
  <2>3. ASSUME NEW t \in Threads, EnsureStartsGrant(t) PROVE SingleFlight'
    BY <2>3 DEF EnsureStartsGrant
  <2>4. ASSUME NEW t \in Threads, Granted(t) PROVE SingleFlight'
    BY <2>4 DEF Granted, StoreTokens, Issued, IssuedRefresh, Lowest,
       Authenticated, NextAttempt, ReleaseLock, ResetPostTry
  <2>5. ASSUME NEW t \in Threads, GrantedWithoutExpiry(t) PROVE SingleFlight'
    BY <2>5 DEF GrantedWithoutExpiry, StoreTokens, Issued, IssuedRefresh,
       Lowest, Raise, ReleaseLock, ResetPostTry
  <2>6. ASSUME NEW t \in Threads, PostRepeated(t) PROVE SingleFlight'
    BY <2>6 DEF PostRepeated
  <2>7. ASSUME NEW t \in Threads, RefreshRefused(t) PROVE SingleFlight'
    BY <2>7 DEF RefreshRefused, DropRefresh, ResetPostTry
  <2>8. ASSUME NEW t \in Threads, GrantFailed(t) PROVE SingleFlight'
    BY <2>8 DEF GrantFailed, GrantErrors, Raise, ReleaseLock, ResetPostTry
  <2>9. ASSUME NEW t \in Threads, AttachToken(t) PROVE SingleFlight'
    BY <2>9 DEF AttachToken
  <2>10. ASSUME NEW t \in Threads, Serve(t) PROVE SingleFlight'
    BY <2>10 DEF Serve, PossibleReplies
  <2>11. ASSUME NEW t \in Threads, ReceiveSuccess(t) PROVE SingleFlight'
    BY <2>11 DEF ReceiveSuccess, Leave, EndExchange
  <2>12. ASSUME NEW t \in Threads, ReceiveRejection(t) PROVE SingleFlight'
    BY <2>12 DEF ReceiveRejection, ClearAuth, Raise, EndExchange
  <2>13. ASSUME NEW t \in Threads, ReceiveFailure(t) PROVE SingleFlight'
    BY <2>13 DEF ReceiveFailure, Raise, EndExchange
  <2>14. ASSUME NEW t \in Threads, HandleAuthError(t) PROVE SingleFlight'
    BY <2>14 DEF HandleAuthError, ClearAuth, HasMoreAttempts, Caught, Leave
  <2>15. ASSUME NEW t \in Threads, HandleTransientError(t) PROVE SingleFlight'
    BY <2>15 DEF HandleTransientError, HasMoreAttempts, Retries,
       NextAttempt, Caught, Leave
  <2>16. ASSUME NEW t \in Threads, Propagate(t) PROVE SingleFlight'
    BY <2>16 DEF Propagate, Leave
  <2>17. ASSUME NEW t \in Threads, Return(t) PROVE SingleFlight'
    BY <2>17 DEF Return, Caught
  <2>18. CASE Expire
    BY <2>18 DEF Expire
  <2>19. CASE UNCHANGED vars
    BY <2>19 DEF vars
  <2>20. QED
    BY <2>1, <2>2, <2>3, <2>4, <2>5, <2>6, <2>7, <2>8, <2>9, <2>10, <2>11,
       <2>12, <2>13, <2>14, <2>15, <2>16, <2>17, <2>18, <2>19 DEF Next,
       Advance
<1>3. QED
  BY <1>1, <1>2, Typing, PTL DEF Spec

\* _grant_token(): a refused refresh token is dropped by the thread that was told
\* so before any thread, that one included, can exchange it again.
THEOREM RefusedNeverExchanged == Spec => []RefusedRefreshTokenDropped
<1>1. Init => RefusedRefreshTokenDropped
  BY ThreadsAssumption, TokensAssumption, RefreshTokensAssumption DEF Init, RefusedRefreshTokenDropped,
     Lowest
<1>2. RefusedRefreshTokenDropped /\ TypeOK /\ SingleFlight /\ [Next]_vars => RefusedRefreshTokenDropped'
  <2>. SUFFICES ASSUME RefusedRefreshTokenDropped, TypeOK, SingleFlight, [Next]_vars PROVE RefusedRefreshTokenDropped'
    OBVIOUS
  <2>. USE ThreadsAssumption, TokensAssumption, RefreshTokensAssumption
       DEF RefusedRefreshTokenDropped, SingleFlight, TypeOK, Locations, Posting,
       Goto, shared, progress, exchange, history
  <2>1. ASSUME NEW t \in Threads, Request(t) PROVE RefusedRefreshTokenDropped'
    BY <2>1 DEF Request
  <2>2. ASSUME NEW t \in Threads, EnsureFindsToken(t) PROVE RefusedRefreshTokenDropped'
    BY <2>2 DEF EnsureFindsToken, Authenticated, NextAttempt
  <2>3. ASSUME NEW t \in Threads, EnsureStartsGrant(t) PROVE RefusedRefreshTokenDropped'
    BY <2>3 DEF EnsureStartsGrant
  <2>4. ASSUME NEW t \in Threads, Granted(t) PROVE RefusedRefreshTokenDropped'
    BY <2>4 DEF Granted, StoreTokens, Issued, IssuedRefresh, Lowest,
       Authenticated, NextAttempt, ReleaseLock, ResetPostTry
  <2>5. ASSUME NEW t \in Threads, GrantedWithoutExpiry(t) PROVE RefusedRefreshTokenDropped'
    BY <2>5 DEF GrantedWithoutExpiry, StoreTokens, Issued, IssuedRefresh,
       Lowest, Raise, ReleaseLock, ResetPostTry
  <2>6. ASSUME NEW t \in Threads, PostRepeated(t) PROVE RefusedRefreshTokenDropped'
    BY <2>6 DEF PostRepeated
  <2>7. ASSUME NEW t \in Threads, RefreshRefused(t) PROVE RefusedRefreshTokenDropped'
    BY <2>7 DEF RefreshRefused, DropRefresh, ResetPostTry
  <2>8. ASSUME NEW t \in Threads, GrantFailed(t) PROVE RefusedRefreshTokenDropped'
    BY <2>8 DEF GrantFailed, GrantErrors, Raise, ReleaseLock, ResetPostTry
  <2>9. ASSUME NEW t \in Threads, AttachToken(t) PROVE RefusedRefreshTokenDropped'
    BY <2>9 DEF AttachToken
  <2>10. ASSUME NEW t \in Threads, Serve(t) PROVE RefusedRefreshTokenDropped'
    BY <2>10 DEF Serve, PossibleReplies
  <2>11. ASSUME NEW t \in Threads, ReceiveSuccess(t) PROVE RefusedRefreshTokenDropped'
    BY <2>11 DEF ReceiveSuccess, Leave, EndExchange
  <2>12. ASSUME NEW t \in Threads, ReceiveRejection(t) PROVE RefusedRefreshTokenDropped'
    BY <2>12 DEF ReceiveRejection, ClearAuth, Raise, EndExchange
  <2>13. ASSUME NEW t \in Threads, ReceiveFailure(t) PROVE RefusedRefreshTokenDropped'
    BY <2>13 DEF ReceiveFailure, Raise, EndExchange
  <2>14. ASSUME NEW t \in Threads, HandleAuthError(t) PROVE RefusedRefreshTokenDropped'
    BY <2>14 DEF HandleAuthError, ClearAuth, HasMoreAttempts, Caught, Leave
  <2>15. ASSUME NEW t \in Threads, HandleTransientError(t) PROVE RefusedRefreshTokenDropped'
    BY <2>15 DEF HandleTransientError, HasMoreAttempts, Retries,
       NextAttempt, Caught, Leave
  <2>16. ASSUME NEW t \in Threads, Propagate(t) PROVE RefusedRefreshTokenDropped'
    BY <2>16 DEF Propagate, Leave
  <2>17. ASSUME NEW t \in Threads, Return(t) PROVE RefusedRefreshTokenDropped'
    BY <2>17 DEF Return, Caught
  <2>18. CASE Expire
    BY <2>18 DEF Expire
  <2>19. CASE UNCHANGED vars
    BY <2>19 DEF vars
  <2>20. QED
    BY <2>1, <2>2, <2>3, <2>4, <2>5, <2>6, <2>7, <2>8, <2>9, <2>10, <2>11,
       <2>12, <2>13, <2>14, <2>15, <2>16, <2>17, <2>18, <2>19 DEF Next,
       Advance
<1>3. QED
  BY <1>1, <1>2, Typing, OneGrantInFlight, PTL DEF Spec

\* The strengthening of NeverResendRejected: the token held is one no running
\* call was refused with, and so is the one copied into a request, up to the
\* moment its own refusal arrives.
RejectedInv ==
    \A t \in Threads :
        /\ token \notin rejected[t]
        /\ pc[t] # "served" => sent[t] \notin rejected[t]

\* A refusal clears what is held (_clear_auth) before the refused token is
\* remembered, and a grant brings one nobody remembers.
THEOREM RejectedInvariant == Spec => []RejectedInv
<1>1. Init => RejectedInv
  BY ThreadsAssumption, TokensAssumption, RefreshTokensAssumption DEF Init, RejectedInv,
     Locations
<1>2. RejectedInv /\ TypeOK /\ [Next]_vars => RejectedInv'
  <2>. SUFFICES ASSUME RejectedInv, TypeOK, [Next]_vars PROVE RejectedInv'
    OBVIOUS
  <2>. USE ThreadsAssumption, TokensAssumption, RefreshTokensAssumption
       DEF RejectedInv, TypeOK, Locations, Posting, Goto, shared, progress,
       exchange, history
  <2>1. ASSUME NEW t \in Threads, Request(t) PROVE RejectedInv'
    BY <2>1 DEF Request
  <2>2. ASSUME NEW t \in Threads, EnsureFindsToken(t) PROVE RejectedInv'
    BY <2>2 DEF EnsureFindsToken, Authenticated, NextAttempt
  <2>3. ASSUME NEW t \in Threads, EnsureStartsGrant(t) PROVE RejectedInv'
    BY <2>3 DEF EnsureStartsGrant
  <2>4. ASSUME NEW t \in Threads, Granted(t) PROVE RejectedInv'
    BY <2>4 DEF Granted, StoreTokens, Issued, IssuedRefresh, Lowest,
       Authenticated, NextAttempt, ReleaseLock, ResetPostTry
  <2>5. ASSUME NEW t \in Threads, GrantedWithoutExpiry(t) PROVE RejectedInv'
    BY <2>5 DEF GrantedWithoutExpiry, StoreTokens, Issued, IssuedRefresh,
       Lowest, Raise, ReleaseLock, ResetPostTry
  <2>6. ASSUME NEW t \in Threads, PostRepeated(t) PROVE RejectedInv'
    BY <2>6 DEF PostRepeated
  <2>7. ASSUME NEW t \in Threads, RefreshRefused(t) PROVE RejectedInv'
    BY <2>7 DEF RefreshRefused, DropRefresh, ResetPostTry
  <2>8. ASSUME NEW t \in Threads, GrantFailed(t) PROVE RejectedInv'
    BY <2>8 DEF GrantFailed, GrantErrors, Raise, ReleaseLock, ResetPostTry
  <2>9. ASSUME NEW t \in Threads, AttachToken(t) PROVE RejectedInv'
    BY <2>9 DEF AttachToken
  <2>10. ASSUME NEW t \in Threads, Serve(t) PROVE RejectedInv'
    BY <2>10 DEF Serve, PossibleReplies
  <2>11. ASSUME NEW t \in Threads, ReceiveSuccess(t) PROVE RejectedInv'
    BY <2>11 DEF ReceiveSuccess, Leave, EndExchange
  <2>12. ASSUME NEW t \in Threads, ReceiveRejection(t) PROVE RejectedInv'
    BY <2>12 DEF ReceiveRejection, ClearAuth, Raise, EndExchange
  <2>13. ASSUME NEW t \in Threads, ReceiveFailure(t) PROVE RejectedInv'
    BY <2>13 DEF ReceiveFailure, Raise, EndExchange
  <2>14. ASSUME NEW t \in Threads, HandleAuthError(t) PROVE RejectedInv'
    BY <2>14 DEF HandleAuthError, ClearAuth, HasMoreAttempts, Caught, Leave
  <2>15. ASSUME NEW t \in Threads, HandleTransientError(t) PROVE RejectedInv'
    BY <2>15 DEF HandleTransientError, HasMoreAttempts, Retries,
       NextAttempt, Caught, Leave
  <2>16. ASSUME NEW t \in Threads, Propagate(t) PROVE RejectedInv'
    BY <2>16 DEF Propagate, Leave
  <2>17. ASSUME NEW t \in Threads, Return(t) PROVE RejectedInv'
    BY <2>17 DEF Return, Caught
  <2>18. CASE Expire
    BY <2>18 DEF Expire
  <2>19. CASE UNCHANGED vars
    BY <2>19 DEF vars
  <2>20. QED
    BY <2>1, <2>2, <2>3, <2>4, <2>5, <2>6, <2>7, <2>8, <2>9, <2>10, <2>11,
       <2>12, <2>13, <2>14, <2>15, <2>16, <2>17, <2>18, <2>19 DEF Next,
       Advance
<1>3. QED
  BY <1>1, <1>2, Typing, PTL DEF Spec

\* request(): the retry after a 401 carries another token than any the call was
\* refused with, whatever the other threads do.
THEOREM RejectedNeverResent == Spec => []NeverResendRejected
<1>1. RejectedInv => NeverResendRejected
  BY DEF RejectedInv, NeverResendRejected
<1>2. QED
  BY <1>1, RejectedInvariant, PTL

\* What the retry loop knows of the effects of its call.  Between two attempts
\* every effect is unconfirmed and there are at most as many as attempts made;
\* once an answer is there, the last effect is confirmed or not with it.
EffectInv ==
    \A t \in Threads :
        /\ pc[t] = "idle" => applied[t] = 0 /\ unconfirmed[t] = 0
        /\ pc[t] \in {"ensure", "refreshing", "granting", "attach", "sending"} =>
              applied[t] = unconfirmed[t] /\ applied[t] <= attempt[t]
        /\ pc[t] = "served" =>
              /\ reply[t].kind = "ok" => reply[t].applied
              /\ reply[t].kind \in {"auth", "rate"} => ~reply[t].applied
              /\ reply[t].applied => applied[t] = unconfirmed[t] + 1
              /\ ~reply[t].applied => applied[t] = unconfirmed[t]
              /\ unconfirmed[t] <= attempt[t]
        /\ pc[t] = "raised" =>
              /\ error[t] \in Errors
              /\ error[t] # "api" => applied[t] = unconfirmed[t]
              /\ error[t] = "auth" => applied[t] <= attempt[t]
              /\ error[t] \in {"conn", "rate"} => applied[t] <= attempt[t] + 1
        /\ pc[t] = "returned" => error[t] \in Errors \cup {"ok"}

\* The loop variables are numbers below MAX_ATTEMPTS.
LEMMA TriesBounds == \A n \in Tries : n \in Nat /\ n < MaxAttempts
BY AttemptsAssumption DEF Tries

\* The bookkeeping behind the refinement below.
THEOREM EffectInvariant == Spec => []EffectInv
<1>1. Init => EffectInv
  BY ThreadsAssumption, TokensAssumption, RefreshTokensAssumption DEF Init, EffectInv,
     Locations, Errors
<1>2. EffectInv /\ TypeOK /\ [Next]_vars => EffectInv'
  <2>. SUFFICES ASSUME EffectInv, TypeOK, [Next]_vars PROVE EffectInv'
    OBVIOUS
  <2>. USE TriesBounds
       DEF EffectInv, TypeOK, Locations, Posting, Errors, Replies, Goto,
       shared, progress, exchange, history
  <2>1. ASSUME NEW t \in Threads, Request(t) PROVE EffectInv'
    BY <2>1 DEF Request
  <2>2. ASSUME NEW t \in Threads, EnsureFindsToken(t) PROVE EffectInv'
    BY <2>2 DEF EnsureFindsToken, Authenticated, NextAttempt
  <2>3. ASSUME NEW t \in Threads, EnsureStartsGrant(t) PROVE EffectInv'
    BY <2>3 DEF EnsureStartsGrant
  <2>4. ASSUME NEW t \in Threads, Granted(t) PROVE EffectInv'
    BY <2>4 DEF Granted, StoreTokens, Issued, IssuedRefresh, Lowest,
       Authenticated, NextAttempt, ReleaseLock, ResetPostTry
  <2>5. ASSUME NEW t \in Threads, GrantedWithoutExpiry(t) PROVE EffectInv'
    BY <2>5 DEF GrantedWithoutExpiry, StoreTokens, Issued, IssuedRefresh,
       Lowest, Raise, ReleaseLock, ResetPostTry
  <2>6. ASSUME NEW t \in Threads, PostRepeated(t) PROVE EffectInv'
    BY <2>6 DEF PostRepeated
  <2>7. ASSUME NEW t \in Threads, RefreshRefused(t) PROVE EffectInv'
    BY <2>7 DEF RefreshRefused, DropRefresh, ResetPostTry
  <2>8. ASSUME NEW t \in Threads, GrantFailed(t) PROVE EffectInv'
    BY <2>8 DEF GrantFailed, GrantErrors, Raise, ReleaseLock, ResetPostTry
  <2>9. ASSUME NEW t \in Threads, AttachToken(t) PROVE EffectInv'
    BY <2>9 DEF AttachToken
  <2>10. ASSUME NEW t \in Threads, Serve(t) PROVE EffectInv'
    BY <2>10 DEF Serve, PossibleReplies
  <2>11. ASSUME NEW t \in Threads, ReceiveSuccess(t) PROVE EffectInv'
    BY <2>11 DEF ReceiveSuccess, Leave, EndExchange
  <2>12. ASSUME NEW t \in Threads, ReceiveRejection(t) PROVE EffectInv'
    BY <2>12 DEF ReceiveRejection, ClearAuth, Raise, EndExchange
  <2>13. ASSUME NEW t \in Threads, ReceiveFailure(t) PROVE EffectInv'
    BY <2>13 DEF ReceiveFailure, Raise, EndExchange
  <2>14. ASSUME NEW t \in Threads, HandleAuthError(t) PROVE EffectInv'
    BY <2>14 DEF HandleAuthError, ClearAuth, HasMoreAttempts, Caught, Leave
  <2>15. ASSUME NEW t \in Threads, HandleTransientError(t) PROVE EffectInv'
    BY <2>15 DEF HandleTransientError, HasMoreAttempts, Retries,
       NextAttempt, Caught, Leave
  <2>16. ASSUME NEW t \in Threads, Propagate(t) PROVE EffectInv'
    BY <2>16 DEF Propagate, Leave
  <2>17. ASSUME NEW t \in Threads, Return(t) PROVE EffectInv'
    BY <2>17 DEF Return, Caught
  <2>18. CASE Expire
    BY <2>18 DEF Expire
  <2>19. CASE UNCHANGED vars
    BY <2>19 DEF vars
  <2>20. QED
    BY <2>1, <2>2, <2>3, <2>4, <2>5, <2>6, <2>7, <2>8, <2>9, <2>10, <2>11,
       <2>12, <2>13, <2>14, <2>15, <2>16, <2>17, <2>18, <2>19 DEF Next,
       Advance
<1>3. QED
  BY <1>1, <1>2, Typing, PTL DEF Spec

\* The abstract phase of every thread: the refinement mapping of phase.
Phases == [t \in Threads |-> Phase(t)]

\* A step of one thread moves the abstract phase of that thread only.
LEMMA PhaseOfOneThread ==
    ASSUME NEW t \in Threads, TypeOK, TypeOK',
           \A u \in Threads \ {t} : pc'[u] = pc[u] /\ error'[u] = error[u]
    PROVE  Phases' = [Phases EXCEPT ![t] = Phase(t)']
BY DEF Phases, Phase

\* A step inside a call, which neither the caller nor the service sees.
LEMMA Stutter ==
    ASSUME NEW t \in Threads, TypeOK, TypeOK',
           \A u \in Threads \ {t} : pc'[u] = pc[u] /\ error'[u] = error[u],
           pc[t] \notin {"idle", "returned"}, pc'[t] \notin {"idle", "returned"},
           UNCHANGED <<applied, unconfirmed>>
    PROVE  UNCHANGED Abstract!vars
BY DEF Phase, Abstract!vars

\* A step that takes a call to its end with an exception.
LEMMA FailedCall ==
    ASSUME NEW t \in Threads, TypeOK, TypeOK',
           \A u \in Threads \ {t} : pc'[u] = pc[u] /\ error'[u] = error[u],
           pc[t] = "raised", pc'[t] = "returned", error'[t] = error[t],
           error[t] \in Errors, UNCHANGED <<applied, unconfirmed>>
    PROVE  Abstract!Next
<1>. DEFINE failure == IF error[t] = "rate" THEN "conn" ELSE error[t]
<1>1. Phase(t) = "pending" /\ Phase(t)' = failure
  BY DEF Phase
<1>2. Abstract!Fail(t, failure)
  BY <1>1, PhaseOfOneThread DEF Phases, Abstract!Fail
<1>3. failure \in Abstract!Failures
  BY DEF Abstract!Failures, Errors
<1>4. QED
  BY <1>2, <1>3 DEF Abstract!Next

\* IC2Client implements RemoteCall: repeating requests after lost answers, rate
\* limits and refused tokens never lets a call take effect more than
\* MAX_ATTEMPTS times, nor again after a confirmed effect, nor succeed without
\* one.
THEOREM Refinement == Spec => ImplementsRemoteCall
<1>1. Init => Abstract!Init
  BY DEF Init, Abstract!Init, Phase
<1>2. /\ TypeOK /\ TypeOK' /\ EffectInv /\ EffectInv'
      /\ [Next]_vars
      => [Abstract!Next]_(Abstract!vars)
  <2>. SUFFICES ASSUME TypeOK, TypeOK', EffectInv, EffectInv', [Next]_vars
                PROVE  [Abstract!Next]_(Abstract!vars)
    OBVIOUS
  <2>. USE DEF shared, progress, exchange, history, Goto
  <2>1. ASSUME NEW t \in Threads, Request(t)
        PROVE  [Abstract!Next]_(Abstract!vars)
    <3>1. /\ \A u \in Threads \ {t} : pc'[u] = pc[u] /\ error'[u] = error[u]
          /\ Phase(t) = "idle" /\ Phase(t)' = "pending"
      BY <2>1 DEF Request, Phase, TypeOK, Locations
    <3>2. Abstract!Begin(t)
      BY <2>1, <3>1, PhaseOfOneThread DEF Request, Phases, EffectInv,
         TypeOK, Abstract!Begin
    <3>3. QED
      BY <3>2 DEF Abstract!Next
  <2>2. ASSUME NEW t \in Threads, EnsureFindsToken(t)
        PROVE  [Abstract!Next]_(Abstract!vars)
    <3>1. /\ \A u \in Threads \ {t} : pc'[u] = pc[u] /\ error'[u] = error[u]
          /\ pc[t] \notin {"idle", "returned"}
          /\ pc'[t] \notin {"idle", "returned"}
          /\ UNCHANGED <<applied, unconfirmed>>
      BY <2>2 DEF EnsureFindsToken, Authenticated, NextAttempt, Posting,
         TypeOK, Locations
    <3>2. QED
      BY <3>1, Stutter
  <2>3. ASSUME NEW t \in Threads, EnsureStartsGrant(t)
        PROVE  [Abstract!Next]_(Abstract!vars)
    <3>1. /\ \A u \in Threads \ {t} : pc'[u] = pc[u] /\ error'[u] = error[u]
          /\ pc[t] \notin {"idle", "returned"}
          /\ pc'[t] \notin {"idle", "returned"}
          /\ UNCHANGED <<applied, unconfirmed>>
      BY <2>3 DEF EnsureStartsGrant, Posting, TypeOK, Locations
    <3>2. QED
      BY <3>1, Stutter
  <2>4. ASSUME NEW t \in Threads, Granted(t)
        PROVE  [Abstract!Next]_(Abstract!vars)
    <3>1. /\ \A u \in Threads \ {t} : pc'[u] = pc[u] /\ error'[u] = error[u]
          /\ pc[t] \notin {"idle", "returned"}
          /\ pc'[t] \notin {"idle", "returned"}
          /\ UNCHANGED <<applied, unconfirmed>>
      BY <2>4 DEF Granted, StoreTokens, Authenticated, NextAttempt,
         ReleaseLock, ResetPostTry, Posting, TypeOK, Locations
    <3>2. QED
      BY <3>1, Stutter
  <2>5. ASSUME NEW t \in Threads, GrantedWithoutExpiry(t)
        PROVE  [Abstract!Next]_(Abstract!vars)
    <3>1. /\ \A u \in Threads \ {t} : pc'[u] = pc[u] /\ error'[u] = error[u]
          /\ pc[t] \notin {"idle", "returned"}
          /\ pc'[t] \notin {"idle", "returned"}
          /\ UNCHANGED <<applied, unconfirmed>>
      BY <2>5 DEF GrantedWithoutExpiry, StoreTokens, Raise, ReleaseLock,
         ResetPostTry, Posting, TypeOK, Locations
    <3>2. QED
      BY <3>1, Stutter
  <2>6. ASSUME NEW t \in Threads, PostRepeated(t)
        PROVE  [Abstract!Next]_(Abstract!vars)
    <3>1. /\ \A u \in Threads \ {t} : pc'[u] = pc[u] /\ error'[u] = error[u]
          /\ pc[t] \notin {"idle", "returned"}
          /\ pc'[t] \notin {"idle", "returned"}
          /\ UNCHANGED <<applied, unconfirmed>>
      BY <2>6 DEF PostRepeated, Posting, TypeOK, Locations
    <3>2. QED
      BY <3>1, Stutter
  <2>7. ASSUME NEW t \in Threads, RefreshRefused(t)
        PROVE  [Abstract!Next]_(Abstract!vars)
    <3>1. /\ \A u \in Threads \ {t} : pc'[u] = pc[u] /\ error'[u] = error[u]
          /\ pc[t] \notin {"idle", "returned"}
          /\ pc'[t] \notin {"idle", "returned"}
          /\ UNCHANGED <<applied, unconfirmed>>
      BY <2>7 DEF RefreshRefused, DropRefresh, ResetPostTry, Posting,
         TypeOK, Locations
    <3>2. QED
      BY <3>1, Stutter
  <2>8. ASSUME NEW t \in Threads, GrantFailed(t)
        PROVE  [Abstract!Next]_(Abstract!vars)
    <3>1. /\ \A u \in Threads \ {t} : pc'[u] = pc[u] /\ error'[u] = error[u]
          /\ pc[t] \notin {"idle", "returned"}
          /\ pc'[t] \notin {"idle", "returned"}
          /\ UNCHANGED <<applied, unconfirmed>>
      BY <2>8 DEF GrantFailed, GrantErrors, Raise, ReleaseLock,
         ResetPostTry, Posting, TypeOK, Locations
    <3>2. QED
      BY <3>1, Stutter
  <2>9. ASSUME NEW t \in Threads, AttachToken(t)
        PROVE  [Abstract!Next]_(Abstract!vars)
    <3>1. /\ \A u \in Threads \ {t} : pc'[u] = pc[u] /\ error'[u] = error[u]
          /\ pc[t] \notin {"idle", "returned"}
          /\ pc'[t] \notin {"idle", "returned"}
          /\ UNCHANGED <<applied, unconfirmed>>
      BY <2>9 DEF AttachToken, Posting, TypeOK, Locations
    <3>2. QED
      BY <3>1, Stutter
  <2>10. ASSUME NEW t \in Threads, Serve(t)
        PROVE  [Abstract!Next]_(Abstract!vars)
    <3>1. /\ \A u \in Threads \ {t} : pc'[u] = pc[u] /\ error'[u] = error[u]
          /\ pc[t] = "sending" /\ pc'[t] = "served"
          /\ unconfirmed' = unconfirmed
          /\ reply'[t] \in PossibleReplies(t)
          /\ applied' = [applied EXCEPT ![t] =
                            IF reply'[t].applied THEN @ + 1 ELSE @]
      BY <2>10 DEF Serve, TypeOK, Locations
    <3>2. CASE ~reply'[t].applied
      <4>1. applied' = applied
        BY <3>1, <3>2 DEF TypeOK
      <4>2. QED
        BY <3>1, <4>1, Stutter
    <3>3. CASE reply'[t].applied
      <4>1. Phase(t) = "pending" /\ Phase(t)' = "pending" /\ Phases' = Phases
        BY <3>1, PhaseOfOneThread DEF Phase, Phases
      <4>2. applied[t] = unconfirmed[t] /\ applied[t] < MaxAttempts
        BY <3>1, AttemptsAssumption DEF EffectInv, TypeOK, Tries
      <4>3. Abstract!TakeEffect(t)
        BY <3>1, <3>3, <4>1, <4>2 DEF Phases, Abstract!TakeEffect
      <4>4. QED
        BY <4>3 DEF Abstract!Next
    <3>4. QED
      BY <3>1, <3>2, <3>3
  <2>11. ASSUME NEW t \in Threads, ReceiveSuccess(t)
        PROVE  [Abstract!Next]_(Abstract!vars)
    <3>1. /\ \A u \in Threads \ {t} : pc'[u] = pc[u] /\ error'[u] = error[u]
          /\ Phase(t) = "pending" /\ Phase(t)' = "ok"
      BY <2>11 DEF ReceiveSuccess, Leave, EndExchange, Phase, TypeOK, Locations
    <3>2. Abstract!Succeed(t)
      BY <2>11, <3>1, PhaseOfOneThread DEF ReceiveSuccess, Phases,
         EffectInv, TypeOK, Abstract!Succeed
    <3>3. QED
      BY <3>2 DEF Abstract!Next
  <2>12. ASSUME NEW t \in Threads, ReceiveRejection(t)
        PROVE  [Abstract!Next]_(Abstract!vars)
    <3>1. /\ \A u \in Threads \ {t} : pc'[u] = pc[u] /\ error'[u] = error[u]
          /\ pc[t] \notin {"idle", "returned"}
          /\ pc'[t] \notin {"idle", "returned"}
          /\ UNCHANGED <<applied, unconfirmed>>
      BY <2>12 DEF ReceiveRejection, ClearAuth, Raise, EndExchange, Posting,
         TypeOK, Locations
    <3>2. QED
      BY <3>1, Stutter
  <2>13. ASSUME NEW t \in Threads, ReceiveFailure(t)
        PROVE  [Abstract!Next]_(Abstract!vars)
    <3>1. /\ \A u \in Threads \ {t} : pc'[u] = pc[u] /\ error'[u] = error[u]
          /\ pc[t] = "served" /\ pc'[t] = "raised"
          /\ applied' = applied
          /\ unconfirmed' = [unconfirmed EXCEPT ![t] =
                                IF reply[t].kind = "api" THEN @ ELSE applied[t]]
      BY <2>13 DEF ReceiveFailure, Raise, EndExchange, TypeOK, Locations
    <3>2. CASE reply[t].kind = "api"
      <4>1. unconfirmed' = unconfirmed
        BY <3>1, <3>2 DEF TypeOK
      <4>2. QED
        BY <3>1, <4>1, Stutter
    <3>3. CASE reply[t].kind # "api"
      <4>1. Phase(t) = "pending" /\ Phase(t)' = "pending" /\ Phases' = Phases
        BY <3>1, PhaseOfOneThread DEF Phase, Phases
      <4>2. Abstract!LoseAnswer(t)
        BY <3>1, <3>3, <4>1 DEF Phases, Abstract!LoseAnswer
      <4>3. QED
        BY <4>2 DEF Abstract!Next
    <3>4. QED
      BY <3>1, <3>2, <3>3
  <2>14. ASSUME NEW t \in Threads, HandleAuthError(t)
        PROVE  [Abstract!Next]_(Abstract!vars)
    <3>1. /\ pc[t] = "raised" /\ error[t] \in Errors
          /\ UNCHANGED <<applied, unconfirmed>>
      BY <2>14 DEF HandleAuthError, EffectInv
    <3>2. CASE HasMoreAttempts(t)
      <4>1. /\ \A u \in Threads \ {t} : pc'[u] = pc[u] /\ error'[u] = error[u]
            /\ pc'[t] = "ensure"
        BY <2>14, <3>2 DEF HandleAuthError, HasMoreAttempts, Caught, TypeOK, Locations
      <4>2. QED
        BY <3>1, <4>1, Stutter
    <3>3. CASE ~HasMoreAttempts(t)
      <4>1. Leave(t) /\ UNCHANGED error
        BY <2>14, <3>3 DEF HandleAuthError, HasMoreAttempts
      <4>2. /\ \A u \in Threads \ {t} : pc'[u] = pc[u] /\ error'[u] = error[u]
            /\ pc'[t] = "returned" /\ error'[t] = error[t]
        BY <4>1 DEF Leave, TypeOK, Locations
      <4>3. QED
        BY <3>1, <4>2, FailedCall
    <3>4. QED
      BY <3>2, <3>3
  <2>15. ASSUME NEW t \in Threads, HandleTransientError(t)
        PROVE  [Abstract!Next]_(Abstract!vars)
    <3>1. /\ pc[t] = "raised" /\ error[t] \in Errors
          /\ UNCHANGED <<applied, unconfirmed>>
      BY <2>15 DEF HandleTransientError, EffectInv
    <3>2. CASE HasMoreAttempts(t)
      <4>1. /\ \A u \in Threads \ {t} : pc'[u] = pc[u] /\ error'[u] = error[u]
            /\ pc'[t] = "ensure"
        BY <2>15, <3>2 DEF HandleTransientError, NextAttempt, HasMoreAttempts, Caught, TypeOK, Locations
      <4>2. QED
        BY <3>1, <4>1, Stutter
    <3>3. CASE ~HasMoreAttempts(t)
      <4>1. Leave(t) /\ UNCHANGED error
        BY <2>15, <3>3 DEF HandleTransientError, HasMoreAttempts
      <4>2. /\ \A u \in Threads \ {t} : pc'[u] = pc[u] /\ error'[u] = error[u]
            /\ pc'[t] = "returned" /\ error'[t] = error[t]
        BY <4>1 DEF Leave, TypeOK, Locations
      <4>3. QED
        BY <3>1, <4>2, FailedCall
    <3>4. QED
      BY <3>2, <3>3
  <2>16. ASSUME NEW t \in Threads, Propagate(t)
        PROVE  [Abstract!Next]_(Abstract!vars)
    <3>1. /\ \A u \in Threads \ {t} : pc'[u] = pc[u] /\ error'[u] = error[u]
          /\ pc[t] = "raised" /\ error[t] \in Errors
          /\ pc'[t] = "returned" /\ error'[t] = error[t]
          /\ UNCHANGED <<applied, unconfirmed>>
      BY <2>16 DEF Propagate, Leave, TypeOK, Locations, EffectInv
    <3>2. QED
      BY <3>1, FailedCall
  <2>17. ASSUME NEW t \in Threads, Return(t)
        PROVE  [Abstract!Next]_(Abstract!vars)
    <3>1. /\ \A u \in Threads \ {t} : pc'[u] = pc[u] /\ error'[u] = error[u]
          /\ Phase(t) \in {"ok"} \cup Abstract!Failures /\ Phase(t)' = "idle"
      BY <2>17 DEF Return, Caught, Phase, TypeOK, Locations, EffectInv, Errors,
         Abstract!Failures
    <3>2. Abstract!Forget(t)
      BY <2>17, <3>1, PhaseOfOneThread DEF Return, Phases, EffectInv,
         TypeOK, Abstract!Forget
    <3>3. QED
      BY <3>2 DEF Abstract!Next
  <2>18. CASE Expire
    BY <2>18 DEF Expire, Phase, Abstract!vars
  <2>19. CASE UNCHANGED vars
    BY <2>19 DEF vars, Phase, Abstract!vars
  <2>20. QED
    BY <2>1, <2>2, <2>3, <2>4, <2>5, <2>6, <2>7, <2>8, <2>9, <2>10, <2>11,
       <2>12, <2>13, <2>14, <2>15, <2>16, <2>17, <2>18, <2>19 DEF Next,
       Advance
<1>3. QED
  BY <1>1, <1>2, Typing, EffectInvariant, PTL
     DEF Spec, ImplementsRemoteCall, Abstract!Spec

-----------------------------------------------------------------------------
(* Who is to blame for an authentication error.                            *)

\* The history variable restricts nothing.
LEMMA BlameIsClient == BlameSpec => Spec
<1>1. BlameInit => Init
  BY DEF BlameInit
<1>2. [BlameNext]_blameVars => [Next]_vars
  BY DEF BlameNext, blameVars
<1>. QED  BY <1>1, <1>2, PTL DEF BlameSpec, Spec

\* What the others do leaves a call alone.
CallStays(t) ==
    /\ pc'[t] = pc[t] /\ error'[t] = error[t] /\ sent'[t] = sent[t]
    /\ rejected'[t] = rejected[t] /\ denied'[t] = denied[t]

LEMMA OthersStayPut ==
    ASSUME NEW t \in Threads, NEW u \in Threads \ {t}, TypeOK, Request(t) \/ Advance(t)
    PROVE  CallStays(u)
<1>. USE DEF CallStays, Goto, exchange, history, TypeOK
<1>1. CASE Request(t) \/ EnsureStartsGrant(t) \/ PostRepeated(t) \/ RefreshRefused(t)
  BY <1>1 DEF Request, EnsureStartsGrant, PostRepeated, RefreshRefused
<1>2. CASE EnsureFindsToken(t) \/ Granted(t)
  BY <1>2 DEF EnsureFindsToken, Granted, Authenticated, NextAttempt
<1>3. CASE GrantedWithoutExpiry(t) \/ GrantFailed(t)
  BY <1>3 DEF GrantedWithoutExpiry, GrantFailed, Raise
<1>4. CASE AttachToken(t) \/ Serve(t) \/ Return(t)
  BY <1>4 DEF AttachToken, Serve, Return, Caught
<1>5. CASE ReceiveSuccess(t) \/ Propagate(t)
  BY <1>5 DEF ReceiveSuccess, Propagate, Leave, EndExchange
<1>6. CASE ReceiveRejection(t) \/ ReceiveFailure(t)
  BY <1>6 DEF ReceiveRejection, ReceiveFailure, Raise, EndExchange
<1>7. CASE HandleAuthError(t) \/ HandleTransientError(t)
  BY <1>7 DEF HandleAuthError, HandleTransientError, NextAttempt, Leave, Caught
<1>. QED  BY <1>1, <1>2, <1>3, <1>4, <1>5, <1>6, <1>7 DEF Advance

\* The token a call tested under the lock is there when it builds its request, unless
\* another thread cleared it meanwhile; so an authentication error on its way up,
\* or out, stands for a refusal or for that.
BlameHere(t) ==
    /\ pc[t] = "attach" => token # None \/ disturbed[t]
    /\ pc[t] \in {"sending", "served"} => sent[t] # None \/ disturbed[t]
    /\ pc[t] \in {"raised", "returned"} /\ error[t] = "auth"
          => rejected[t] # {} \/ denied[t] \/ disturbed[t]

BlameInv == \A t \in Threads : BlameHere(t)

LEMMA DisturbanceOfCall ==
    ASSUME NEW t \in Threads, BlameNext
    PROVE  disturbed'[t] = (pc'[t] \notin {"idle", "ensure"} /\ (disturbed[t] \/ Disturbed(t)))
BY DEF BlameNext

\* A step of another thread: it may clear the token, and is blamed for it.
LEMMA BlameOfOthers ==
    ASSUME NEW t \in Threads, NEW u \in Threads \ {t}, TypeOK, BlameNext, BlameHere(t),
           Request(u) \/ Advance(u)
    PROVE  BlameHere(t)'
<1>1. CallStays(t)
  BY OthersStayPut
<1>2. pc[t] \notin {"idle", "ensure"} => disturbed'[t] = (disturbed[t] \/ Disturbed(t))
  BY <1>1, DisturbanceOfCall DEF CallStays
<1>3. pc[t] = "attach" => token' # None \/ disturbed'[t]
  BY <1>1, <1>2 DEF CallStays, Disturbed, BlameHere
<1>. QED  BY <1>1, <1>2, <1>3 DEF BlameHere, CallStays

\* A step of the thread itself.
LEMMA BlameOfOneself ==
    ASSUME NEW t \in Threads, TypeOK, BlameNext, BlameHere(t), Request(t) \/ Advance(t)
    PROVE  BlameHere(t)'
<1>t. /\ pc \in [Threads -> Locations] /\ sent \in [Threads -> Tokens \cup {None}]
      /\ error \in [Threads -> Errors \cup {"ok", "none"}]
      /\ reply \in [Threads -> Replies] /\ rejected \in [Threads -> SUBSET Tokens]
      /\ denied \in [Threads -> BOOLEAN]
  BY DEF TypeOK
<1>b. pc'[t] \notin {"idle", "ensure"} /\ disturbed[t] => disturbed'[t]
  BY DisturbanceOfCall
<1>. USE <1>t, ThreadsAssumption, TokensAssumption
     DEF BlameHere, Goto, shared, progress, exchange, history
<1>1. CASE Request(t)
  BY <1>1 DEF Request
<1>2. CASE EnsureFindsToken(t)
  BY <1>2 DEF EnsureFindsToken, Authenticated, NextAttempt, Usable
<1>3. CASE EnsureStartsGrant(t)
  BY <1>3 DEF EnsureStartsGrant
<1>4. CASE PostRepeated(t) \/ RefreshRefused(t)
  <2>1. pc[t] \in Posting /\ pc'[t] \in Posting
    BY <1>4 DEF PostRepeated, RefreshRefused, Posting
  <2>. QED  BY <2>1 DEF Posting
<1>5. CASE Granted(t)
  <2>1. token' # None /\ pc'[t] \in {"ensure", "attach"}
    BY <1>5 DEF Granted, StoreTokens, Issued, Lowest, Authenticated, NextAttempt
  <2>. QED  BY <2>1
<1>6. CASE GrantedWithoutExpiry(t)
  BY <1>6 DEF GrantedWithoutExpiry, Raise
<1>7. CASE GrantFailed(t)
  BY <1>7 DEF GrantFailed, GrantErrors, Raise
<1>8. CASE AttachToken(t)
  BY <1>8, <1>b DEF AttachToken
<1>9. CASE Serve(t)
  BY <1>9, <1>b DEF Serve
<1>10. CASE ReceiveSuccess(t)
  BY <1>10 DEF ReceiveSuccess, Leave
<1>11. CASE ReceiveRejection(t)
  <2>1. pc[t] = "served" /\ pc'[t] = "raised"
        /\ rejected'[t] = rejected[t] \cup ({sent[t]} \ {None})
    BY <1>11 DEF ReceiveRejection, Raise
  <2>2. sent[t] # None \/ disturbed'[t]
    BY <1>b, <2>1
  <2>. QED  BY <2>1, <2>2
<1>12. CASE ReceiveFailure(t)
  BY <1>12 DEF ReceiveFailure, Raise
<1>13. CASE HandleAuthError(t) \/ HandleTransientError(t) \/ Propagate(t)
  <2>1. /\ pc[t] = "raised" /\ pc'[t] \in {"ensure", "returned"}
        /\ rejected' = rejected /\ denied' = denied
        /\ pc'[t] = "returned" => error'[t] = error[t]
    BY <1>13 DEF HandleAuthError, HandleTransientError, Propagate, NextAttempt, Leave
  <2>. QED  BY <1>b, <2>1
<1>14. CASE Return(t)
  BY <1>14 DEF Return
<1>. QED
  BY <1>1, <1>2, <1>3, <1>4, <1>5, <1>6, <1>7, <1>8, <1>9, <1>10, <1>11, <1>12, <1>13, <1>14
     DEF Advance

LEMMA BlameInvariant == BlameSpec => []BlameInv
<1>1. BlameInit => BlameInv
  BY DEF BlameInit, Init, BlameInv, BlameHere
<1>2. TypeOK /\ BlameInv /\ [BlameNext]_blameVars => BlameInv'
  <2>. SUFFICES ASSUME TypeOK, BlameInv, [BlameNext]_blameVars, NEW t \in Threads
                PROVE  BlameHere(t)'
    BY DEF BlameInv
  <2>s. BlameHere(t)
    BY DEF BlameInv
  <2>1. CASE UNCHANGED blameVars
    BY <2>s, <2>1 DEF blameVars, vars, shared, progress, exchange, history, BlameHere
  <2>2. CASE BlameNext /\ Expire
    <3>1. UNCHANGED <<token, pc, sent, error, rejected, denied>>
      BY <2>2 DEF Expire, exchange, history
    <3>2. pc[t] \notin {"idle", "ensure"} /\ disturbed[t] => disturbed'[t]
      BY <2>2, <3>1, DisturbanceOfCall
    <3>. QED  BY <2>s, <3>1, <3>2 DEF BlameHere
  <2>3. ASSUME BlameNext, NEW u \in Threads, Request(u) \/ Advance(u)
        PROVE  BlameHere(t)'
    <3>1. CASE u = t
      BY <2>s, <2>3, <3>1, BlameOfOneself
    <3>2. CASE u # t
      BY <2>s, <2>3, <3>2, BlameOfOthers
    <3>. QED  BY <3>1, <3>2
  <2>. QED  BY <2>1, <2>2, <2>3 DEF BlameNext, Next
<1>3. BlameSpec => []TypeOK
  BY BlameIsClient, Typing, PTL
<1>. QED  BY <1>1, <1>2, <1>3, PTL DEF BlameSpec

\* Whatever threads share the client, IC2AuthError means that the service refused an
\* access token or the client credentials to that very call, or that another
\* thread cleared the token between its test and its use in the last attempt; and a
\* request goes out without a token in that case only.
THEOREM AuthFailuresJustified == BlameSpec => []AuthFailureJustified
<1>1. BlameInv => AuthFailureJustified
  BY DEF BlameInv, BlameHere, AuthFailureJustified
<1>. QED  BY <1>1, BlameInvariant, PTL

-----------------------------------------------------------------------------
(* The steps a call may still take.                                        *)

\* What n attempts take.
StepsOf(n) == n * StepsPerAttempt

LEMMA StepsFacts ==
    /\ MaxAttempts \in Nat /\ MaxAttempts >= 1
    /\ StepsPerAttempt = 4 * MaxAttempts + 8
    /\ \A n \in Nat : StepsOf(n) \in Nat /\ StepsOf(n + 1) = StepsOf(n) + StepsPerAttempt
<1>1. MaxAttempts \in Nat /\ MaxAttempts >= 1
  BY AttemptsAssumption
<1>2. StepsPerAttempt = 4 * MaxAttempts + 8 /\ StepsPerAttempt \in Nat
  BY <1>1 DEF StepsPerAttempt
<1>. HIDE DEF StepsPerAttempt
<1>3. \A n \in Nat : n * StepsPerAttempt \in Nat
                     /\ (n + 1) * StepsPerAttempt = n * StepsPerAttempt + StepsPerAttempt
  BY <1>2
<1>. QED  BY <1>1, <1>2, <1>3 DEF StepsOf

\* The arms of StepsInAttempt exclude one another.
StepsByPlace ==
    \A t \in Threads :
        /\ pc[t] = "raised" => StepsInAttempt(t) = IF rescue[t] THEN 2 ELSE 2 * MaxAttempts + 4
        /\ pc[t] = "granting" =>
              StepsInAttempt(t) = (IF rescue[t] THEN 2 ELSE 2 * MaxAttempts + 7)
                                      + (MaxAttempts - postTry[t])
        /\ pc[t] = "refreshing" =>
              StepsInAttempt(t) = (IF rescue[t] THEN MaxAttempts + 2 ELSE 3 * MaxAttempts + 7)
                                      + (MaxAttempts - postTry[t])
        /\ pc[t] = "ensure" =>
              StepsInAttempt(t) = IF rescue[t] THEN 2 * MaxAttempts + 3 ELSE StepsPerAttempt
        /\ pc[t] = "served" => StepsInAttempt(t) = 2 * MaxAttempts + 5
        /\ pc[t] = "sending" => StepsInAttempt(t) = 2 * MaxAttempts + 6
        /\ pc[t] = "attach" => StepsInAttempt(t) = 2 * MaxAttempts + 7

LEMMA StepsPlaced == StepsByPlace
<1>. SUFFICES ASSUME NEW t \in Threads
              PROVE  StepsByPlace!(t)
  BY DEF StepsByPlace
<1>. USE DEF StepsInAttempt
<1>1. CASE pc[t] = "raised"
  <2>1. CASE rescue[t]  BY <1>1, <2>1
  <2>2. CASE ~rescue[t]  BY <1>1, <2>2
  <2>. QED  BY <2>1, <2>2
<1>2. CASE pc[t] = "granting"
  <2>1. CASE rescue[t]  BY <1>2, <2>1
  <2>2. CASE ~rescue[t]  BY <1>2, <2>2
  <2>. QED  BY <2>1, <2>2
<1>3. CASE pc[t] = "refreshing"
  <2>1. CASE rescue[t]  BY <1>3, <2>1
  <2>2. CASE ~rescue[t]  BY <1>3, <2>2
  <2>. QED  BY <2>1, <2>2
<1>4. CASE pc[t] = "ensure"
  <2>1. CASE rescue[t]  BY <1>4, <2>1
  <2>2. CASE ~rescue[t]  BY <1>4, <2>2
  <2>. QED  BY <2>1, <2>2
<1>5. CASE pc[t] = "served"  BY <1>5
<1>6. CASE pc[t] = "sending"  BY <1>6
<1>7. CASE pc[t] = "attach"  BY <1>7
<1>. QED  BY <1>1, <1>2, <1>3, <1>4, <1>5, <1>6, <1>7

LEMMA StepsPlacedNext == StepsByPlace'
BY StepsPlaced, PTL

\* Inside a call the count is that of the attempts to come and that of the
\* running one.
StepsInsideCall ==
    \A t \in Threads : pc[t] \notin {"idle", "returned"} =>
        /\ MaxAttempts - 1 - attempt[t] \in Nat
        /\ StepsLeft(t) = StepsOf(MaxAttempts - 1 - attempt[t]) + StepsInAttempt(t)
        /\ StepsOf(MaxAttempts - 1 - attempt[t]) \in Nat
        /\ StepsInAttempt(t) \in 2 .. StepsPerAttempt

LEMMA StepsTyped == TypeOK => StepsInsideCall
<1>. SUFFICES ASSUME TypeOK, NEW t \in Threads, pc[t] \notin {"idle", "returned"}
              PROVE  /\ MaxAttempts - 1 - attempt[t] \in Nat
                     /\ StepsLeft(t) = StepsOf(MaxAttempts - 1 - attempt[t]) + StepsInAttempt(t)
                     /\ StepsOf(MaxAttempts - 1 - attempt[t]) \in Nat
                     /\ StepsInAttempt(t) \in 2 .. StepsPerAttempt
  BY DEF StepsInsideCall
<1>1. MaxAttempts - 1 - attempt[t] \in Nat
  BY StepsFacts DEF TypeOK, Tries
<1>2. StepsLeft(t) = StepsOf(MaxAttempts - 1 - attempt[t]) + StepsInAttempt(t)
  BY DEF StepsLeft, StepsOf
<1>3. MaxAttempts - postTry[t] \in 1 .. MaxAttempts
  BY StepsFacts DEF TypeOK, Tries
<1>4. /\ pc[t] \in {"ensure", "refreshing", "granting", "attach", "sending", "served", "raised"}
      /\ rescue[t] \in BOOLEAN
  BY DEF TypeOK, Locations, Posting
<1>5. StepsInAttempt(t) \in 2 .. StepsPerAttempt
  BY <1>3, <1>4, StepsPlaced, StepsFacts DEF StepsByPlace
<1>. QED  BY <1>1, <1>2, <1>5, StepsFacts

LEMMA StepsTypedNext == TypeOK' => StepsInsideCall'
BY StepsTyped, PTL

\* What the others do gives a call no steps, what it does takes some.
RunsDown(t) ==
    /\ \A u \in Threads \ {t} : Position(u)' = Position(u)
    /\ pc[t] # "idle" => StepsLeft(t)' \in 0 .. StepsLeft(t) - 1

LEMMA SameAttemptRunsDown ==
    ASSUME NEW t \in Threads, TypeOK, TypeOK',
           \A u \in Threads \ {t} : Position(u)' = Position(u),
           pc[t] \notin {"idle", "returned"}, pc'[t] \notin {"idle", "returned"},
           attempt'[t] = attempt[t], StepsInAttempt(t)' < StepsInAttempt(t)
    PROVE  RunsDown(t)
<1>1. /\ StepsLeft(t) = StepsOf(MaxAttempts - 1 - attempt[t]) + StepsInAttempt(t)
      /\ StepsOf(MaxAttempts - 1 - attempt[t]) \in Nat
      /\ StepsInAttempt(t) \in 2 .. StepsPerAttempt
  BY StepsTyped DEF StepsInsideCall
<1>2. /\ StepsLeft(t)' = StepsOf(MaxAttempts - 1 - attempt'[t]) + StepsInAttempt(t)'
      /\ StepsInAttempt(t)' \in 2 .. StepsPerAttempt
  BY StepsTypedNext DEF StepsInsideCall
<1>. QED  BY <1>1, <1>2, StepsFacts DEF RunsDown

LEMMA NextAttemptRunsDown ==
    ASSUME NEW t \in Threads, TypeOK,
           \A u \in Threads \ {t} : Position(u)' = Position(u),
           pc[t] \notin {"idle", "returned"}, attempt[t] < MaxAttempts - 1, NextAttempt(t)
    PROVE  RunsDown(t)
<1>1. /\ StepsLeft(t) = StepsOf(MaxAttempts - 1 - attempt[t]) + StepsInAttempt(t)
      /\ StepsInAttempt(t) \in 2 .. StepsPerAttempt
  BY StepsTyped DEF StepsInsideCall
<1>2. /\ pc'[t] = "ensure" /\ ~rescue'[t] /\ attempt'[t] = attempt[t] + 1
      /\ attempt[t] \in Nat
  BY DEF NextAttempt, Goto, TypeOK, Tries
<1>3. StepsLeft(t)' = StepsOf(MaxAttempts - 1 - (attempt[t] + 1)) + StepsPerAttempt
  <2>1. StepsInAttempt(t)' = StepsPerAttempt
    BY <1>2 DEF StepsInAttempt
  <2>. QED  BY <1>2, <2>1 DEF StepsLeft, StepsOf
<1>4. DEFINE n == MaxAttempts - 1 - (attempt[t] + 1)
<1>5. n \in Nat /\ n + 1 = MaxAttempts - 1 - attempt[t]
  BY <1>2, StepsFacts
<1>6. StepsOf(n) \in Nat /\ StepsOf(n + 1) = StepsOf(n) + StepsPerAttempt
  BY <1>5, StepsFacts
<1>. QED  BY <1>1, <1>3, <1>5, <1>6, StepsFacts DEF RunsDown

LEMMA LeaveRunsDown ==
    ASSUME NEW t \in Threads, TypeOK,
           \A u \in Threads \ {t} : Position(u)' = Position(u),
           pc[t] \notin {"idle", "returned"}, pc'[t] = "returned"
    PROVE  RunsDown(t)
<1>1. /\ StepsLeft(t) = StepsOf(MaxAttempts - 1 - attempt[t]) + StepsInAttempt(t)
      /\ StepsOf(MaxAttempts - 1 - attempt[t]) \in Nat
      /\ StepsInAttempt(t) \in 2 .. StepsPerAttempt
  BY StepsTyped DEF StepsInsideCall
<1>2. StepsLeft(t)' = 1
  BY DEF StepsLeft
<1>. QED  BY <1>1, <1>2, StepsFacts DEF RunsDown

LEMMA EveryStepRunsDown ==
    ASSUME NEW t \in Threads, TypeInv, TypeInv', Request(t) \/ Advance(t)
    PROVE  RunsDown(t)
<1>. USE StepsPlaced, StepsPlacedNext, StepsFacts DEF StepsByPlace, Position, Goto, shared, progress, TypeInv
<1>. DEFINE OthersKeep == \A u \in Threads \ {t} : Position(u)' = Position(u)
<1>t. /\ pc \in [Threads -> Locations] /\ pc[t] \in Locations
      /\ attempt \in [Threads -> Tries] /\ attempt[t] \in Int
      /\ rescue \in [Threads -> BOOLEAN] /\ rescue[t] \in BOOLEAN
      /\ postTry \in [Threads -> Tries] /\ postTry[t] \in 0 .. MaxAttempts - 1
      /\ rescue[t] => attempt[t] < MaxAttempts - 1
  BY DEF CallInv, TypeOK, Tries
<1>1. CASE Request(t)
  BY <1>1, <1>t DEF Request, RunsDown
<1>2. CASE EnsureFindsToken(t)
  <2>1. OthersKeep /\ pc[t] = "ensure"
    BY <1>2, <1>t DEF EnsureFindsToken, Authenticated, NextAttempt
  <2>2. CASE rescue[t]
    BY <1>2, <1>t, <2>1, <2>2, NextAttemptRunsDown DEF EnsureFindsToken, Authenticated
  <2>3. CASE ~rescue[t]
    <3>1. pc'[t] = "attach" /\ attempt' = attempt /\ rescue' = rescue
      BY <1>2, <1>t, <2>3 DEF EnsureFindsToken, Authenticated
    <3>. QED  BY <1>t, <2>1, <2>3, <3>1, SameAttemptRunsDown
  <2>. QED  BY <2>2, <2>3
<1>3. CASE EnsureStartsGrant(t)
  <2>1. /\ OthersKeep /\ pc[t] = "ensure" /\ pc'[t] \in Posting /\ postTry' = postTry
        /\ attempt' = attempt /\ rescue' = rescue
    BY <1>3, <1>t DEF EnsureStartsGrant, Posting
  <2>. QED  BY <1>t, <2>1, SameAttemptRunsDown DEF Posting
<1>4. CASE Granted(t)
  <2>1. OthersKeep /\ pc[t] \in {"refreshing", "granting"}
    BY <1>4, <1>t DEF Granted, Authenticated, NextAttempt, ResetPostTry, Posting
  <2>2. CASE rescue[t]
    BY <1>4, <1>t, <2>1, <2>2, NextAttemptRunsDown DEF Granted, Authenticated
  <2>3. CASE ~rescue[t]
    <3>1. pc'[t] = "attach" /\ attempt' = attempt /\ rescue' = rescue
      BY <1>4, <1>t, <2>3 DEF Granted, Authenticated
    <3>. QED  BY <1>t, <2>1, <2>3, <3>1, SameAttemptRunsDown
  <2>. QED  BY <2>2, <2>3
<1>5. CASE GrantedWithoutExpiry(t) \/ GrantFailed(t)
  <2>1. /\ OthersKeep /\ pc[t] \in {"refreshing", "granting"} /\ pc'[t] = "raised"
        /\ attempt' = attempt /\ rescue' = rescue
    BY <1>5, <1>t DEF GrantedWithoutExpiry, GrantFailed, Raise, ResetPostTry, Posting
  <2>. QED  BY <1>t, <2>1, SameAttemptRunsDown
<1>6. CASE PostRepeated(t)
  <2>1. /\ OthersKeep /\ pc[t] \in {"refreshing", "granting"} /\ pc'[t] = pc[t]
        /\ postTry'[t] = postTry[t] + 1 /\ attempt' = attempt /\ rescue' = rescue
    BY <1>6, <1>t DEF PostRepeated, Posting
  <2>. QED  BY <1>t, <2>1, SameAttemptRunsDown
<1>7. CASE RefreshRefused(t)
  <2>1. /\ OthersKeep /\ pc[t] = "refreshing" /\ pc'[t] = "granting" /\ postTry'[t] = 0
        /\ attempt' = attempt /\ rescue' = rescue
    BY <1>7, <1>t DEF RefreshRefused, ResetPostTry
  <2>. QED  BY <1>t, <2>1, SameAttemptRunsDown
<1>8. CASE AttachToken(t)
  <2>1. /\ OthersKeep /\ pc[t] = "attach" /\ pc'[t] = "sending"
        /\ attempt' = attempt /\ rescue' = rescue
    BY <1>8, <1>t DEF AttachToken
  <2>. QED  BY <1>t, <2>1, SameAttemptRunsDown
<1>9. CASE Serve(t)
  <2>1. /\ OthersKeep /\ pc[t] = "sending" /\ pc'[t] = "served"
        /\ attempt' = attempt /\ rescue' = rescue
    BY <1>9, <1>t DEF Serve
  <2>. QED  BY <1>t, <2>1, SameAttemptRunsDown
<1>10. CASE ReceiveSuccess(t)
  BY <1>10, <1>t, LeaveRunsDown DEF ReceiveSuccess, Leave
<1>11. CASE ReceiveRejection(t) \/ ReceiveFailure(t)
  <2>1. /\ OthersKeep /\ pc[t] = "served" /\ pc'[t] = "raised"
        /\ attempt' = attempt /\ rescue' = rescue
    BY <1>11, <1>t DEF ReceiveRejection, ReceiveFailure, Raise
  <2>. QED  BY <1>t, <2>1, SameAttemptRunsDown
<1>12. CASE HandleAuthError(t)
  <2>1. OthersKeep /\ pc[t] = "raised" /\ ~rescue[t]
    BY <1>12, <1>t DEF HandleAuthError, Leave
  <2>2. CASE HasMoreAttempts(t)
    <3>1. pc'[t] = "ensure" /\ rescue'[t] /\ attempt' = attempt
      BY <1>12, <1>t, <2>2 DEF HandleAuthError
    <3>. QED  BY <1>t, <2>1, <3>1, SameAttemptRunsDown
  <2>3. CASE ~HasMoreAttempts(t)
    BY <1>12, <1>t, <2>1, <2>3, LeaveRunsDown DEF HandleAuthError, Leave
  <2>. QED  BY <2>2, <2>3
<1>13. CASE HandleTransientError(t)
  <2>1. OthersKeep /\ pc[t] = "raised"
    BY <1>13, <1>t DEF HandleTransientError, NextAttempt, Leave
  <2>2. CASE HasMoreAttempts(t)
    BY <1>13, <1>t, <2>1, <2>2, NextAttemptRunsDown DEF HandleTransientError, HasMoreAttempts
  <2>3. CASE ~HasMoreAttempts(t)
    BY <1>13, <1>t, <2>1, <2>3, LeaveRunsDown DEF HandleTransientError, Leave
  <2>. QED  BY <2>2, <2>3
<1>14. CASE Propagate(t)
  BY <1>14, <1>t, LeaveRunsDown DEF Propagate, Leave
<1>15. CASE Return(t)
  BY <1>15, <1>t DEF Return, RunsDown, StepsLeft
<1>. QED
  BY <1>1, <1>2, <1>3, <1>4, <1>5, <1>6, <1>7, <1>8, <1>9, <1>10, <1>11, <1>12,
     <1>13, <1>14, <1>15 DEF Advance

\* request() comes to an end after a number of its own steps fixed beforehand,
\* whatever the service answers and however the threads that share the client
\* interleave.
THEOREM CallsFinite == Spec => CallsRunDown
<1>1. TypeInv /\ TypeInv' /\ [Next]_vars
      => [\A t \in Threads :
            pc[t] # "idle" /\ Position(t)' # Position(t)
                => StepsLeft(t)' \in 0 .. StepsLeft(t) - 1]_vars
  <2>. SUFFICES ASSUME TypeInv, TypeInv', Next, NEW t \in Threads,
                       pc[t] # "idle", Position(t)' # Position(t)
                PROVE  StepsLeft(t)' \in 0 .. StepsLeft(t) - 1
    OBVIOUS
  <2>1. CASE Expire
    BY <2>1 DEF Expire, Position, progress
  <2>2. ASSUME NEW u \in Threads, Request(u) \/ Advance(u)
        PROVE  StepsLeft(t)' \in 0 .. StepsLeft(t) - 1
    <3>1. RunsDown(u)
      BY <2>2, EveryStepRunsDown
    <3>2. u = t
      BY <3>1 DEF RunsDown
    <3>. QED  BY <3>1, <3>2 DEF RunsDown
  <2>. QED  BY <2>1, <2>2 DEF Next
<1>. QED  BY <1>1, TypeInvariant, PTL DEF Spec, CallsRunDown
=============================================================================
