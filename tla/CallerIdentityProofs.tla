------------------------- MODULE CallerIdentityProofs -------------------------
(***************************************************************************)
(* Theorems about CallerIdentity, for every number of requests, sessions   *)
(* and keys.  A process runs only with keys whose secrets differ, so the   *)
(* principal a request is bound to is that of the one entry with its       *)
(* token; the invariant follows it from the middleware through the server  *)
(* task to the tool, and over stdio from the environment to the tool.      *)
(***************************************************************************)
EXTENDS CallerIdentity, TLAPS

\* The principal is that of an entry with this secret.
Holds(principal, secret) ==
    \E i \in DOMAIN keys : keys[i].secret = secret /\ principal = PrincipalOf(keys[i])

\* What the environment entitles the local client to.
Entitled(principal) ==
    IF environment.key = None
    THEN environment.tier \in Tiers /\ principal.tier = environment.tier
    ELSE Holds(principal, environment.key)

Started ==
    /\ environment.transport = "http" => root = None
    /\ server = "running" =>
        /\ ValidKeys
        /\ environment.transport = "http" => keys # <<>>
        /\ environment.transport = "stdio" => root \in Principals /\ Entitled(root)

OnlyRunningServes == \A r \in Requests : pc[r] # "none" => server = "running"

\* What the middleware let through, where it went, and what it ran.
HttpRequest(r) ==
    /\ pc[r] \in {"passed", "dispatched"} /\ ~public[r] => Holds(bound[r], token[r])
    /\ pc[r] = "dispatched" => Holds(task[r], token[r])
    /\ ran[r] # None => /\ pc[r] = "answered"
                        /\ Holds(task[r], token[r])
                        /\ Rank(task[r].tier) >= Rank(ran[r])

StdioRequest(r) ==
    /\ token[r] = None
    /\ pc[r] \in {"none", "answered"}
    /\ ran[r] # None => pc[r] = "answered" /\ Rank(root.tier) >= Rank(ran[r])

OnItsTransport ==
    \A r \in Requests :
        IF environment.transport = "http" THEN HttpRequest(r) ELSE StdioRequest(r)

IInv ==
    /\ TypeOK
    /\ Started
    /\ OnlyRunningServes
    /\ OnItsTransport

-----------------------------------------------------------------------------
(* The key store.                                                          *)

LEMMA KeysTyped ==
    ASSUME TypeOK
    PROVE  keys \in Seq(Keys) /\ environment \in EnvironmentRecords
  BY KeyListsAssumption, EnvironmentsAssumption DEF TypeOK

\* Secrets differ, so the last entry that matches is the only one.
LEMMA VerifyFinds ==
    ASSUME TypeOK, ValidKeys, NEW secret, Verify(secret) # None
    PROVE  Verify(secret) \in Principals /\ Holds(Verify(secret), secret)
  <1>. DEFINE matches == { i \in DOMAIN keys : keys[i].secret = secret }
              last == CHOOSE i \in matches : \A j \in matches : j <= i
  <1>1. Verify(secret) = PrincipalOf(keys[last])
    BY DEF Verify
  <1>2. PICK i \in matches : TRUE
    BY DEF Verify
  <1>3. \A j \in matches : j = i
    BY <1>2 DEF ValidKeys
  <1>4. i \in Int /\ DOMAIN keys \subseteq Int
    BY KeysTyped
  <1>5. \A j \in matches : j <= i
    BY <1>3, <1>4
  <1>6. last \in matches
    BY <1>2, <1>5
  <1>7. keys[last] \in Keys
    BY <1>6, KeysTyped
  <1>8. PrincipalOf(keys[last]) \in Principals
    BY <1>7 DEF PrincipalOf, Keys, Principals
  <1>9. last \in DOMAIN keys /\ keys[last].secret = secret
    BY <1>6
  <1>. HIDE DEF last, matches
  <1>. QED  BY <1>1, <1>8, <1>9 DEF Holds

\* The principal of a local server is one its environment entitles it to.
LEMMA StdioEntitled ==
    ASSUME TypeOK, ValidKeys, StdioPrincipal # None
    PROVE  StdioPrincipal \in Principals /\ Entitled(StdioPrincipal)
  <1>1. CASE environment.key # None
    BY <1>1, VerifyFinds DEF StdioPrincipal, Entitled
  <1>2. CASE environment.key = None
    BY <1>2 DEF StdioPrincipal, Entitled, Principals
  <1>. QED  BY <1>1, <1>2

-----------------------------------------------------------------------------

LEMMA InitInv == Init => IInv
  BY KeyListsAssumption, EnvironmentsAssumption, NoneAssumption
     DEF Init, IInv, TypeOK, Started, OnlyRunningServes, OnItsTransport, HttpRequest,
         StdioRequest, EnvironmentRecords

\* A start, refused or not, and the start after it.
LEMMA ServerStep ==
    ASSUME IInv, Start \/ StartAgain
    PROVE  IInv'
  <1>1. UNCHANGED <<environment, keys, pc, request, bound, task, opener, ran>>
    BY DEF Start, StartAgain
  <1>2. ~(server = "running") /\ \A r \in Requests : pc[r] = "none"
    BY DEF Start, StartAgain, IInv, OnlyRunningServes
  <1>3. TypeOK' /\ Started'
    <2>1. CASE Start /\ MayServe
      <3>1. ValidKeys /\ (environment.transport = "http" => keys # <<>>)
        BY <2>1 DEF MayServe
      <3>2. environment.transport = "stdio" =>
                StdioPrincipal \in Principals /\ Entitled(StdioPrincipal)
        BY <2>1, <3>1, StdioEntitled DEF MayServe, IInv
      <3>3. server' = "running" /\ root' = IF environment.transport = "stdio" THEN StdioPrincipal ELSE None
        BY <2>1 DEF Start
      <3>4. environment.transport \in {"stdio", "http"}
        BY KeysTyped DEF IInv, EnvironmentRecords
      <3>5. TypeOK'
        BY <1>1, <3>2, <3>3, <3>4 DEF IInv, TypeOK, request
      <3>6. ValidKeys'
        BY <1>1, <3>1 DEF ValidKeys
      <3>7. environment.transport = "stdio" => Entitled(root)'
        BY <1>1, <3>2, <3>3 DEF Entitled, Holds, PrincipalOf
      <3>. QED  BY <1>1, <3>1, <3>2, <3>3, <3>4, <3>5, <3>6, <3>7 DEF Started
    <2>2. CASE (Start /\ ~MayServe) \/ StartAgain
      <3>1. server' \in {"refused", "starting"} /\ root' = root
        BY <2>2 DEF Start, StartAgain
      <3>. QED  BY <1>1, <3>1 DEF IInv, TypeOK, Started, request
    <2>. QED  BY <2>1, <2>2
  <1>4. OnlyRunningServes'
    BY <1>1, <1>2 DEF OnlyRunningServes
  <1>5. OnItsTransport'
    BY <1>1, <1>2 DEF IInv, OnItsTransport, HttpRequest, StdioRequest, request
  <1>. QED  BY <1>3, <1>4, <1>5 DEF IInv

\* What a step of a request leaves alone.
LEMMA StartedKept ==
    ASSUME IInv, UNCHANGED start
    PROVE  /\ Started'
           /\ \A p, s : Holds(p, s) <=> Holds(p, s)'
  BY DEF IInv, Started, start, ValidKeys, Entitled, Holds, PrincipalOf

LEMMA HttpSteps ==
    ASSUME IInv, NEW r \in Requests,
           \/ \E t \in Secrets \cup {Unknown, None}, s \in Sessions, p \in BOOLEAN :
                Arrive(r, t, s, p)
           \/ Authenticate(r) \/ Health(r) \/ Dispatch(r)
           \/ \E tool \in ToolKinds : CallTool(r, tool)
    PROVE  IInv'
  <1>. USE NoneAssumption DEF IInv
  <1>1. environment.transport = "http" /\ server = "running"
    <2>1. pc[r] # "none" => server = "running"
      BY DEF OnlyRunningServes
    <2>2. pc[r] \notin {"none", "answered"} => environment.transport = "http"
      BY DEF OnItsTransport, StdioRequest
    <2>. QED  BY <2>1, <2>2 DEF Arrive, Serving, Authenticate, Health, Dispatch, CallTool
  <1>2. UNCHANGED start
    BY DEF Arrive, Authenticate, Health, Dispatch, CallTool
  <1>3. ValidKeys
    BY <1>1 DEF Started
  <1>4. HttpRequest(r)
    BY <1>1 DEF OnItsTransport
  <1>5. TypeOK' /\ HttpRequest(r)'
    <2>1. CASE \E t \in Secrets \cup {Unknown, None}, s \in Sessions, p \in BOOLEAN :
                    Arrive(r, t, s, p)
      BY <2>1, <1>4 DEF Arrive, TypeOK, start, HttpRequest
    <2>2. CASE Authenticate(r)
      <3>1. CASE public[r]
        BY <2>2, <3>1, <1>4 DEF Authenticate, TypeOK, start, request, HttpRequest
      <3>2. CASE ~public[r] /\ Verify(token[r]) # None
        <4>1. Verify(token[r]) \in Principals /\ Holds(Verify(token[r]), token[r])
          BY <3>2, <1>3, VerifyFinds
        <4>2. /\ pc' = [pc EXCEPT ![r] = "passed"]
              /\ bound' = [bound EXCEPT ![r] = Verify(token[r])]
              /\ UNCHANGED <<start, request, task, opener, ran>>
          BY <2>2, <3>2 DEF Authenticate, TypeOK
        <4>3. TypeOK'
          BY <4>1, <4>2 DEF TypeOK, start, request
        <4>4. Holds(bound[r], token[r])'
          BY <4>1, <4>2 DEF TypeOK, start, request, Holds, PrincipalOf
        <4>. QED  BY <4>2, <4>3, <4>4, <1>4, <2>2 DEF TypeOK, HttpRequest, Authenticate
      <3>3. CASE ~public[r] /\ Verify(token[r]) = None
        BY <2>2, <3>3, <1>4 DEF Authenticate, TypeOK, start, request, HttpRequest
      <3>. QED  BY <3>1, <3>2, <3>3
    <2>3. CASE Health(r)
      BY <2>3, <1>4 DEF Health, TypeOK, start, request, HttpRequest
    <2>4. CASE Dispatch(r)
      BY <2>4, <1>4 DEF Dispatch, TaskContext, TypeOK, start, request, HttpRequest, Holds, PrincipalOf
    <2>5. CASE \E tool \in ToolKinds : CallTool(r, tool)
      BY <2>5, <1>4 DEF CallTool, MayRun, Allowed, Rank, TypeOK, start, request, HttpRequest, Holds, PrincipalOf
    <2>. QED  BY <2>1, <2>2, <2>3, <2>4, <2>5
  <1>6. \A q \in Requests \ {r} :
            /\ pc'[q] = pc[q] /\ token'[q] = token[q] /\ public'[q] = public[q]
            /\ bound'[q] = bound[q] /\ task'[q] = task[q] /\ ran'[q] = ran[q]
    BY DEF Arrive, Authenticate, Health, Dispatch, CallTool, TypeOK, request
  <1>7. \A q \in Requests \ {r} : HttpRequest(q)'
    BY <1>1, <1>2, <1>6 DEF OnItsTransport, HttpRequest, Holds, PrincipalOf, start
  <1>8. OnItsTransport'
    BY <1>1, <1>2, <1>5, <1>7 DEF OnItsTransport, start
  <1>9. OnlyRunningServes'
    BY <1>1, <1>2 DEF OnlyRunningServes, start
  <1>. QED  BY <1>2, <1>5, <1>8, <1>9, StartedKept

\* A call over stdio, and the end of a request of either kind.
LEMMA OtherSteps ==
    ASSUME IInv, NEW r \in Requests,
           End(r) \/ \E tool \in ToolKinds : StdioCall(r, tool)
    PROVE  IInv'
  <1>. USE NoneAssumption DEF IInv
  <1>1. UNCHANGED start
    BY DEF End, StdioCall
  <1>2. server = "running"
    BY DEF End, StdioCall, Serving, OnlyRunningServes
  <1>3. TypeOK'
    <2>1. CASE End(r)
      BY <2>1 DEF End, TypeOK, start
    <2>2. CASE \E tool \in ToolKinds : StdioCall(r, tool)
      BY <2>2 DEF StdioCall, TypeOK, start, request
    <2>. QED  BY <2>1, <2>2
  <1>4. OnItsTransport'
    <2>1. CASE End(r)
      BY <2>1 DEF End, TypeOK, OnItsTransport, HttpRequest, StdioRequest, start, Holds, PrincipalOf
    <2>2. CASE \E tool \in ToolKinds : StdioCall(r, tool)
      BY <2>2 DEF StdioCall, Serving, MayRun, Allowed, Rank, TypeOK, OnItsTransport, StdioRequest, start, request
    <2>. QED  BY <2>1, <2>2
  <1>5. OnlyRunningServes'
    BY <1>1, <1>2 DEF OnlyRunningServes, start
  <1>. QED  BY <1>1, <1>3, <1>4, <1>5, StartedKept

LEMMA NextInv == IInv /\ [Next]_vars => IInv'
  <1>. SUFFICES ASSUME IInv, [Next]_vars PROVE IInv'
    OBVIOUS
  <1>1. CASE UNCHANGED vars
    BY <1>1 DEF vars, start, request, IInv, TypeOK, Started, ValidKeys, Entitled, Holds,
                PrincipalOf, OnlyRunningServes, OnItsTransport, HttpRequest, StdioRequest
  <1>. QED  BY <1>1, ServerStep, HttpSteps, OtherSteps DEF Next

LEMMA Invariant == Spec => []IInv
  BY InitInv, NextInv, PTL DEF Spec

-----------------------------------------------------------------------------

\* Every variable keeps its type; no principal is made up.
THEOREM TypesKept == Spec => []TypeOK
  BY Invariant, PTL DEF IInv

\* Over HTTP no tool runs for a request without a key of its own, nor one that asks
\* for a tier with another's, for every interleaving of requests and sessions.
THEOREM RunsAsRequester == Spec => []ToolRunsAsRequester
  <1>1. IInv => ToolRunsAsRequester
    <2>. SUFFICES ASSUME IInv, environment.transport = "http",
                         NEW r \in Requests, ran[r] # None
                  PROVE  \E i \in DOMAIN keys :
                            keys[i].secret = token[r] /\ Rank(keys[i].tier) >= Rank(ran[r])
      BY DEF ToolRunsAsRequester
    <2>1. Holds(task[r], token[r]) /\ Rank(task[r].tier) >= Rank(ran[r])
      BY DEF IInv, OnItsTransport, HttpRequest
    <2>2. PICK i \in DOMAIN keys :
                keys[i].secret = token[r] /\ task[r] = PrincipalOf(keys[i])
      BY <2>1 DEF Holds
    <2>3. task[r].tier = keys[i].tier
      BY <2>2 DEF PrincipalOf
    <2>. QED  BY <2>1, <2>2, <2>3
  <1>. QED  BY <1>1, Invariant, PTL

\* Two entries of mcp_keys never share a caller.
THEOREM OneTier == Spec => []OneTierPerToken
  <1>1. IInv => OneTierPerToken
    BY DEF IInv, OneTierPerToken, OnItsTransport, HttpRequest, StdioRequest, Holds,
           OnlyRunningServes, Started, ValidKeys
  <1>. QED  BY <1>1, Invariant, PTL

\* A running server has keys to ask for, or a client its environment vouches for.
THEOREM FailsClosed == Spec => []ServesOnlyAuthorized
  <1>1. IInv => ServesOnlyAuthorized
    <2>. SUFFICES ASSUME IInv, server = "running" PROVE ServesOnlyAuthorized
      BY DEF ServesOnlyAuthorized
    <2>1. CASE environment.transport = "http"
      <3>1. keys \in Seq(Keys) /\ keys # <<>>
        BY <2>1, KeysTyped DEF IInv, Started
      <3>2. Len(keys) > 0
        BY <3>1
      <3>. QED  BY <2>1, <3>2 DEF IInv, Started, ServesOnlyAuthorized
    <2>2. CASE environment.transport = "stdio"
      <3>1. \A r \in Requests : ran[r] = "admin" => root.tier = "admin"
        BY <2>2, NoneAssumption DEF IInv, OnItsTransport, StdioRequest, Rank, ToolKinds, Tiers
      <3>2. Entitled(root)
        BY <2>2 DEF IInv, Started
      <3>. QED  BY <2>2, <3>1, <3>2 DEF ServesOnlyAuthorized, Entitled, Holds, PrincipalOf
    <2>. QED  BY <2>1, <2>2, KeysTyped DEF IInv, EnvironmentRecords
  <1>. QED  BY <1>1, Invariant, PTL
=============================================================================
