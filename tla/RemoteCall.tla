------------------------------ MODULE RemoteCall ------------------------------
(***************************************************************************)
(* What a caller of PeplinkDeviceClient may rely on, whatever the login,   *)
(* the lock and the retry loop do: a call takes effect on the device at    *)
(* most MaxAttempts times, it takes effect again only when the answer to   *)
(* the previous effect was lost, and "ok" is returned only for an effect   *)
(* the device confirmed.  DeviceClient implements this specification.      *)
(***************************************************************************)
EXTENDS Integers

CONSTANTS Threads,      \* callers of one client object
          MaxAttempts   \* most requests one call may send

VARIABLES phase,        \* where each thread's call is
          effects,      \* how often the device carried the call out
          unconfirmed   \* effects whose answer never reached the client

vars == <<phase, effects, unconfirmed>>

Failures == {"conn", "internal", "api", "auth"}

Phases == {"idle", "pending", "ok"} \cup Failures

Init ==
    /\ phase = [t \in Threads |-> "idle"]
    /\ effects = [t \in Threads |-> 0]
    /\ unconfirmed = [t \in Threads |-> 0]

Begin(t) ==
    /\ phase[t] = "idle"
    /\ phase' = [phase EXCEPT ![t] = "pending"]
    /\ UNCHANGED <<effects, unconfirmed>>

TakeEffect(t) ==
    /\ phase[t] = "pending"
    /\ effects[t] = unconfirmed[t]
    /\ effects[t] < MaxAttempts
    /\ effects' = [effects EXCEPT ![t] = @ + 1]
    /\ UNCHANGED <<phase, unconfirmed>>

LoseAnswer(t) ==
    /\ phase[t] = "pending"
    /\ unconfirmed' = [unconfirmed EXCEPT ![t] = effects[t]]
    /\ UNCHANGED <<phase, effects>>

Succeed(t) ==
    /\ phase[t] = "pending"
    /\ effects[t] = unconfirmed[t] + 1
    /\ phase' = [phase EXCEPT ![t] = "ok"]
    /\ UNCHANGED <<effects, unconfirmed>>

Fail(t, failure) ==
    /\ phase[t] = "pending"
    /\ phase' = [phase EXCEPT ![t] = failure]
    /\ UNCHANGED <<effects, unconfirmed>>

Forget(t) ==
    /\ phase[t] \in {"ok"} \cup Failures
    /\ phase' = [phase EXCEPT ![t] = "idle"]
    /\ effects' = [effects EXCEPT ![t] = 0]
    /\ unconfirmed' = [unconfirmed EXCEPT ![t] = 0]

Next ==
    \E t \in Threads :
        \/ Begin(t)
        \/ TakeEffect(t)
        \/ LoseAnswer(t)
        \/ Succeed(t)
        \/ \E failure \in Failures : Fail(t, failure)
        \/ Forget(t)

Spec == Init /\ [][Next]_vars
=============================================================================
