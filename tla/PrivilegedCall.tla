----------------------------- MODULE PrivilegedCall -----------------------------
(***************************************************************************)
(* What the operator of the server is promised about a tool call that may  *)
(* change something (policy.py, audit.py), whichever tool it came through  *)
(* and whichever plane it is routed to: before anything is sent the call   *)
(* is committed to one way out, once and for all, which it only gets when  *)
(* it is cleared, and which the audit log then names; a call that was      *)
(* denied is closed and has none.  WriteTools implements this              *)
(* specification.                                                          *)
(***************************************************************************)
EXTENDS Integers

CONSTANTS Clients,      \* the ways out: one client per credential
          Names,        \* what the audit log may call a target
          MaxAttempts,  \* most requests a client sends for one call
          None

VARIABLES state,    \* "idle", "open" or "closed"
          request,  \* what is asked for
          via,      \* the client the call is committed to
          log,      \* what the audit log says of the call
          effects   \* how often a request was carried out, by client

vars == <<state, request, via, log, effects>>

\* Whether the call must be in the log, whether the gates let it through, the
\* clients it may be sent by, each with the name the log has for its target.
Routes == [client : Clients, name : Names]
Requests == [audited : BOOLEAN, cleared : BOOLEAN, routes : SUBSET Routes]

NoRequest == [audited |-> FALSE, cleared |-> FALSE, routes |-> {}]

NothingSent == [c \in Clients |-> 0]

Logged(decision, name) == log' = log \cup {[decision |-> decision, device |-> name]}

Init ==
    /\ state = "idle"
    /\ request = NoRequest
    /\ via = None
    /\ log = {}
    /\ effects = NothingSent

Ask ==
    /\ state = "idle"
    /\ state' = "open"
    /\ request' \in Requests
    /\ UNCHANGED <<via, log, effects>>

Deny(name) ==
    /\ state = "open"
    /\ via = None
    /\ Logged("deny", name)
    /\ state' = "closed"
    /\ UNCHANGED <<request, via, effects>>

Commit(route) ==
    /\ state = "open"
    /\ via = None
    /\ request.cleared
    /\ route \in request.routes
    /\ via' = route.client
    /\ IF request.audited THEN Logged("allow", route.name) ELSE UNCHANGED log
    /\ UNCHANGED <<state, request, effects>>

Apply ==
    /\ state = "open"
    /\ via # None
    /\ effects[via] < MaxAttempts
    /\ effects' = [effects EXCEPT ![via] = @ + 1]
    /\ UNCHANGED <<state, request, via, log>>

\* An answer, or an exception at any point.
Close ==
    /\ state = "open"
    /\ state' = "closed"
    /\ UNCHANGED <<request, via, log, effects>>

Forget ==
    /\ state = "closed"
    /\ state' = "idle"
    /\ request' = NoRequest
    /\ via' = None
    /\ log' = {}
    /\ effects' = NothingSent

Next ==
    \/ Ask
    \/ \E name \in Names : Deny(name)
    \/ \E route \in request.routes : Commit(route)
    \/ Apply
    \/ Close
    \/ Forget

Spec == Init /\ [][Next]_vars
=============================================================================
