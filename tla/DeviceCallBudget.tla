--------------------------- MODULE DeviceCallBudget ---------------------------
(***************************************************************************)
(* DeviceClient with three more history variables: two count what a call   *)
(* sends to the grant or login endpoint, one remembers what other threads  *)
(* did to it.  They restrict nothing.                                      *)
(***************************************************************************)
EXTENDS DeviceClient

VARIABLES
    posts,     \* requests of the running call to the grant or login endpoint
    denied,    \* of those, the ones refused
    disturbed  \* another thread cleared the credential in the running attempt

budgetVars == <<vars, posts, denied, disturbed>>

PostAnswered(t) ==
    pc[t] = "posting" /\ (pc'[t] # "posting" \/ grantTry'[t] # grantTry[t])

PostRefused(t) == pc[t] = "posting" /\ pc'[t] = "raised" /\ error'[t] = "auth"

\* The credential is cleared between its test under the lock and the request
\* that copies it, and not by the thread itself.
Disturbed(t) ==
    /\ pc[t] \in {"build", "attach"}
    /\ pc'[t] = pc[t]
    /\ credential # None
    /\ credential' = None

Count(counter, t, event) ==
    IF pc'[t] = "idle" THEN 0 ELSE IF event THEN counter[t] + 1 ELSE counter[t]

BudgetInit ==
    /\ Init
    /\ posts = [t \in Threads |-> 0]
    /\ denied = [t \in Threads |-> 0]
    /\ disturbed = [t \in Threads |-> FALSE]

BudgetNext ==
    /\ Next
    /\ posts' = [t \in Threads |-> Count(posts, t, PostAnswered(t))]
    /\ denied' = [t \in Threads |-> Count(denied, t, PostRefused(t))]
    /\ disturbed' = [t \in Threads |->
                        pc'[t] \notin {"idle", "ensure"} /\ (disturbed[t] \/ Disturbed(t))]

\* Every exchange ends: httpx gives up after self.timeout, and the code
\* between two exchanges runs on.
BudgetSpec ==
    /\ BudgetInit
    /\ [][BudgetNext]_budgetVars
    /\ \A t \in Threads : WF_budgetVars(Advance(t) /\ BudgetNext)

-----------------------------------------------------------------------------
(* Properties.                                                             *)

\* request() raises PeplinkAuthError only if the device refused a request or a
\* login of that very call, or if another thread cleared the credential in its
\* last attempt, between the test under the lock and the unlocked read: without
\* that the "not authenticated" raised by _auth_query and _auth_headers never
\* surfaces, whatever other threads do at any other moment.
AuthFailureJustified ==
    \A t \in Threads :
        pc[t] = "returned" /\ error[t] = "auth"
            => rejected[t] # {} \/ denied[t] > 0 \/ disturbed[t]

\* One call of request() sends a bounded number of requests to the grant
\* endpoint, although grants are repeated inside _grant_token(), inside the
\* handler of request() and by each of its attempts.
PostBudget ==
    \A t \in Threads : posts[t] <= MaxAttempts * (2 * MaxAttempts - 1)

\* When one thread uses the client, a login the device refuses is sent at most
\* twice by one call of request():
\* the refusal raised inside the handler leaves the loop.
LoginRefusedTwiceAtMost ==
    kind = "userpass" => \A t \in Threads : denied[t] <= 2

\* Every call of request() returns: nested retries of grants and requests end.
CallReturns == \A t \in Threads : pc[t] # "idle" ~> pc[t] = "idle"
=============================================================================
