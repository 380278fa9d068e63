--------------------------- MODULE MCCallerIdentity ---------------------------
(***************************************************************************)
(* CallerIdentity for TLC: lists of at most two keys, whose ids, secrets   *)
(* and tiers may coincide.                                                 *)
(***************************************************************************)
EXTENDS CallerIdentity

MCKeyLists == {<<>>} \cup { <<k>> : k \in Keys } \cup { <<k, l>> : k, l \in Keys }

\* The environment matters to stdio only.
MCEnvironments ==
    { e \in EnvironmentRecords :
        e.transport = "http" => e.key = None /\ e.tier = "read_only" }
=============================================================================
