----------------------------- MODULE IC2CallBlame -----------------------------
(***************************************************************************)
(* IC2Client with one more history variable, which remembers what other    *)
(* threads did to a call.  It restricts nothing.                           *)
(***************************************************************************)
EXTENDS IC2Client

VARIABLE disturbed  \* another thread cleared the token in the running attempt

blameVars == <<vars, disturbed>>

\* The token is cleared between its test under the lock and the request that
\* copies it, and not by the thread itself.
Disturbed(t) ==
    /\ pc[t] = "attach"
    /\ pc'[t] = pc[t]
    /\ token # None
    /\ token' = None

BlameInit == Init /\ disturbed = [t \in Threads |-> FALSE]

BlameNext ==
    /\ Next
    /\ disturbed' = [t \in Threads |->
                        pc'[t] \notin {"idle", "ensure"} /\ (disturbed[t] \/ Disturbed(t))]

BlameSpec == BlameInit /\ [][BlameNext]_blameVars

\* request() raises IC2AuthError only if the service refused, to that very call,
\* an access token or the client credentials, or if another thread cleared the
\* token in its last attempt, between the test under the lock and the unlocked
\* read.  Only then does a request go out with the text "Bearer None".  A refused
\* refresh token alone fails no call.
AuthFailureJustified ==
    \A t \in Threads :
        /\ pc[t] = "returned" /\ error[t] = "auth"
              => rejected[t] # {} \/ denied[t] \/ disturbed[t]
        /\ pc[t] = "sending" /\ sent[t] = None => disturbed[t]
=============================================================================
