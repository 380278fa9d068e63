---------------------------- MODULE CallerIdentity ----------------------------
(***************************************************************************)
(* With whose tier a tool runs: the key store and the context variable of  *)
(* mcp_keys.py, the bearer middleware (auth_middleware.py) and the two     *)
(* transports of runtime.py.  Over HTTP every request is a task of its     *)
(* own, whose context holds the principal of its key; the MCP library      *)
(* hands the request to a server task, which runs the tool.  In its        *)
(* stateless mode, which the server asks for, that task is started by the  *)
(* request and inherits its context; otherwise it would be the task of the *)
(* request that opened the session.  Over stdio one principal is bound     *)
(* before the server runs.                                                 *)
(*                                                                         *)
(* An operator defined just before another with the same parameters is a   *)
(* fault of the code that the properties are tested against; the           *)
(* specification does not use it.                                          *)
(***************************************************************************)
EXTENDS Integers, Sequences, FiniteSets

CONSTANTS
    Requests,    \* HTTP requests in flight, each in its task
    Sessions,    \* session ids a client may send along
    Ids,         \* ids of mcp_keys entries
    Secrets,     \* the secrets in secrets.yaml, long enough to be accepted
    Unknown,     \* a bearer token that is no secret of the file
    None,
    KeyLists,    \* what mcp_keys may hold: sequences of Keys
    Environments \* what the process may be started with

Tiers == {"read_only", "admin"}

\* What a tool asks its caller for before it runs: the tools of runtime.py and the
\* cloud reads ask for nothing ("open"), a read through a manifest tool for
\* read_only, a privileged tool and every write for admin.
ToolKinds == Tiers \cup {"open"}

\* An entry of mcp_keys; its secret is None when key_ref leads nowhere, or to
\* something that is too short.
Keys == [id : Ids, secret : Secrets \cup {None}, tier : Tiers]

Principals == [key_id : Ids \cup {"stdio-local"}, tier : Tiers]

\* The transport, PEPLINK_MCP_KEY and PEPLINK_MCP_TIER (read_only when unset).
EnvironmentRecords ==
    [transport : {"stdio", "http"}, key : Secrets \cup {Unknown, None},
     tier : Tiers \cup {"other"}]

ASSUME NoneAssumption == None \notin Secrets \cup {Unknown} \cup Sessions \cup Principals \cup ToolKinds
ASSUME KeyListsAssumption == \A keys \in KeyLists : keys \in Seq(Keys)
ASSUME EnvironmentsAssumption == Environments \subseteq EnvironmentRecords

VARIABLES
    environment,  \* how the process was started
    keys,         \* mcp_keys of the configuration, in order
    server,       \* "starting", "refused" (it raised) or "running"
    root,         \* the principal bound in the main context
    pc,           \* where each request is
    token,        \* the bearer token it carries
    session,      \* the session id it carries
    public,       \* its path is one of public_paths
    bound,        \* the principal bound in its context
    task,         \* the principal in the context of its server task
    opener,       \* history: the principal whose request used a session first
    ran           \* the kind of the tool it ran, if any

start == <<environment, keys, server, root>>
request == <<token, session, public>>
vars == <<start, pc, request, bound, task, opener, ran>>

Init ==
    /\ environment \in Environments
    /\ keys \in KeyLists
    /\ server = "starting"
    /\ root = None
    /\ pc = [r \in Requests |-> "none"]
    /\ token = [r \in Requests |-> None]
    /\ session = [r \in Requests |-> None]
    /\ public = [r \in Requests |-> FALSE]
    /\ bound = [r \in Requests |-> None]
    /\ task = [r \in Requests |-> None]
    /\ opener = [s \in Sessions |-> None]
    /\ ran = [r \in Requests |-> None]

-----------------------------------------------------------------------------
(* McpKeyStore.                                                            *)

\* from_fleet() raises nothing.
UniqueIds ==
    /\ \A i \in DOMAIN keys : keys[i].secret # None
    /\ \A i, j \in DOMAIN keys : i # j => keys[i].id # keys[j].id
ValidKeys ==
    /\ \A i \in DOMAIN keys : keys[i].secret # None
    /\ \A i, j \in DOMAIN keys :
        i # j => keys[i].id # keys[j].id /\ keys[i].secret # keys[j].secret

PrincipalOf(key) == [key_id |-> key.id, tier |-> key.tier]

\* verify(): every record is compared, and the last that matches counts.
Verify(secret) ==
    LET matches == { i \in DOMAIN keys : keys[i].secret = secret } IN
    IF secret = None \/ matches = {} THEN None
    ELSE PrincipalOf(keys[CHOOSE i \in matches : \A j \in matches : j <= i])

Rank(tier) == IF tier = "admin" THEN 1 ELSE 0

\* require_tier() raises nothing.
Allowed(principal, required) ==
    principal # None /\ Rank(principal.tier) >= Rank(required)

\* A tool runs for the principal of its context: only the gates of
\* manifest_tools.py and ic2_tools.py call require_tier().
MayRun(principal, tool) == tool = "open" \/ Allowed(principal, tool)

-----------------------------------------------------------------------------
(* create_server(), _resolve_stdio_principal() and _run_http().            *)

StdioPrincipal ==
    CASE environment.key # None -> Verify(environment.key)
      [] environment.key = None /\ environment.tier \in Tiers ->
            [key_id |-> "stdio-local", tier |-> environment.tier]
      [] OTHER -> None

\* A server on the network without a key is refused, and so is an unknown key
\* or tier in the environment of a local one.
ServeAnyway == ValidKeys
MayServe ==
    /\ ValidKeys
    /\ environment.transport = "http" => keys # <<>>
    /\ environment.transport = "stdio" => StdioPrincipal # None

Start ==
    /\ server = "starting"
    /\ IF MayServe
       THEN /\ server' = "running"
            /\ root' = IF environment.transport = "stdio" THEN StdioPrincipal ELSE None
       ELSE server' = "refused" /\ UNCHANGED root
    /\ UNCHANGED <<environment, keys, pc, request, bound, task, opener, ran>>

\* A process that ended is started again with the same files (docs/docker.md).
StartAgain ==
    /\ server = "refused"
    /\ server' = "starting"
    /\ UNCHANGED <<environment, keys, root, pc, request, bound, task, opener, ran>>

-----------------------------------------------------------------------------
(* A request over HTTP; over stdio every request comes from the one client *)
(* and is handled in the main context.                                     *)

Serving(transport) == server = "running" /\ environment.transport = transport

Arrive(r, t, s, p) ==
    /\ Serving("http")
    /\ pc[r] = "none"
    /\ pc' = [pc EXCEPT ![r] = "arrived"]
    /\ token' = [token EXCEPT ![r] = t]
    /\ session' = [session EXCEPT ![r] = s]
    /\ public' = [public EXCEPT ![r] = p]
    /\ bound' = [bound EXCEPT ![r] = root]
    /\ UNCHANGED <<start, task, opener, ran>>

\* A stranger is let through without a principal, as on a public path.
LetStrangersIn(r) ==
    /\ pc[r] = "arrived"
    /\ pc' = [pc EXCEPT ![r] = "passed"]
    /\ bound' = [bound EXCEPT ![r] = IF public[r] THEN @ ELSE Verify(token[r])]
    /\ UNCHANGED <<start, request, task, opener, ran>>

\* BearerKeyMiddleware: a public path goes on without a principal, an unknown
\* or missing key is answered 401.
Authenticate(r) ==
    /\ pc[r] = "arrived"
    /\ LET principal == Verify(token[r]) IN
       IF public[r] \/ principal # None
       THEN /\ pc' = [pc EXCEPT ![r] = "passed"]
            /\ bound' = [bound EXCEPT ![r] = IF public[r] THEN @ ELSE principal]
       ELSE pc' = [pc EXCEPT ![r] = "answered"] /\ UNCHANGED bound
    /\ UNCHANGED <<start, request, task, opener, ran>>

\* The health route answers a public path; any other is handed to a server task.
Health(r) ==
    /\ pc[r] = "passed"
    /\ public[r]
    /\ pc' = [pc EXCEPT ![r] = "answered"]
    /\ UNCHANGED <<start, request, bound, task, opener, ran>>

\* stateless_http=True: the task is started in the context of the request.
SessionContext(r) == IF opener[session[r]] = None THEN bound[r] ELSE opener[session[r]]
TaskContext(r) == bound[r]

Dispatch(r) ==
    /\ pc[r] = "passed"
    /\ ~public[r]
    /\ pc' = [pc EXCEPT ![r] = "dispatched"]
    /\ task' = [task EXCEPT ![r] = TaskContext(r)]
    /\ opener' = [opener EXCEPT ![session[r]] = IF @ = None THEN bound[r] ELSE @]
    /\ UNCHANGED <<start, request, bound, ran>>

\* The tool asks for its tier, if it has one, and runs; it does not give way to
\* other requests.  Nothing but the middleware keeps a stranger from an open one.
CallTool(r, tool) ==
    /\ pc[r] = "dispatched"
    /\ pc' = [pc EXCEPT ![r] = "answered"]
    /\ ran' = [ran EXCEPT ![r] = IF MayRun(task[r], tool) THEN tool ELSE None]
    /\ UNCHANGED <<start, request, bound, task, opener>>

\* bind_principal() restores, and the task ends.
End(r) ==
    /\ pc[r] = "answered"
    /\ pc' = [pc EXCEPT ![r] = "none"]
    /\ token' = [token EXCEPT ![r] = None]
    /\ session' = [session EXCEPT ![r] = None]
    /\ public' = [public EXCEPT ![r] = FALSE]
    /\ bound' = [bound EXCEPT ![r] = None]
    /\ task' = [task EXCEPT ![r] = None]
    /\ ran' = [ran EXCEPT ![r] = None]
    /\ UNCHANGED <<start, opener>>

\* A call over stdio.
StdioCall(r, tool) ==
    /\ Serving("stdio")
    /\ pc[r] = "none"
    /\ pc' = [pc EXCEPT ![r] = "answered"]
    /\ task' = [task EXCEPT ![r] = root]
    /\ ran' = [ran EXCEPT ![r] = IF MayRun(root, tool) THEN tool ELSE None]
    /\ UNCHANGED <<start, request, bound, opener>>

Next ==
    \/ Start
    \/ StartAgain
    \/ \E r \in Requests :
        \/ \E t \in Secrets \cup {Unknown, None}, s \in Sessions, p \in BOOLEAN :
            Arrive(r, t, s, p)
        \/ Authenticate(r)
        \/ Health(r)
        \/ Dispatch(r)
        \/ \E tool \in ToolKinds : CallTool(r, tool) \/ StdioCall(r, tool)
        \/ End(r)

Spec == Init /\ [][Next]_vars

-----------------------------------------------------------------------------
(* Properties.                                                             *)

TypeOK ==
    /\ environment \in Environments
    /\ keys \in KeyLists
    /\ server \in {"starting", "refused", "running"}
    /\ root \in Principals \cup {None}
    /\ pc \in [Requests -> {"none", "arrived", "passed", "dispatched", "answered"}]
    /\ token \in [Requests -> Secrets \cup {Unknown, None}]
    /\ session \in [Requests -> Sessions \cup {None}]
    /\ public \in [Requests -> BOOLEAN]
    /\ bound \in [Requests -> Principals \cup {None}]
    /\ task \in [Requests -> Principals \cup {None}]
    /\ opener \in [Sessions -> Principals \cup {None}]
    /\ ran \in [Requests -> ToolKinds \cup {None}]

\* Over HTTP every tool, also one that asks for nothing, runs only for a request
\* whose own bearer token is the secret of a key, and a tool that asks for a tier
\* only if that key has it, whatever other requests are in flight and whichever
\* session ids the clients send.
ToolRunsAsRequester ==
    environment.transport = "http" =>
        \A r \in Requests : ran[r] # None =>
            \E i \in DOMAIN keys :
                keys[i].secret = token[r] /\ Rank(keys[i].tier) >= Rank(ran[r])

\* One secret stands for one key: no caller gets the tier of another entry of
\* mcp_keys because the file gives both the same secret (from_fleet raises).
OneTierPerToken ==
    \A r \in Requests : ran[r] # None /\ token[r] # None =>
        \A i \in DOMAIN keys : keys[i].secret = token[r] => task[r] = PrincipalOf(keys[i])

\* Fail closed: a server that is running on the network has a key to ask for,
\* and a local one runs admin tools only if its environment says admin or holds
\* the secret of an admin key.
ServesOnlyAuthorized ==
    server = "running" =>
        IF environment.transport = "http" THEN root = None /\ Len(keys) > 0
        ELSE \A r \in Requests : ran[r] = "admin" =>
                IF environment.key = None THEN environment.tier = "admin"
                ELSE \E i \in DOMAIN keys :
                        keys[i].secret = environment.key /\ keys[i].tier = "admin"
=============================================================================
