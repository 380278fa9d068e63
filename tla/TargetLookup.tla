----------------------------- MODULE TargetLookup -----------------------------
(***************************************************************************)
(* What a tool may rely on when it asks for the InControl 2 target of a    *)
(* device (resolve_ic2_target()), however many requests, organisations and *)
(* cached answers that takes: a device with explicit ids is answered by    *)
(* them, one with a serial by the place where that unit is at the moment   *)
(* it is found; "not found" is said only of a unit that is in no group or  *)
(* moved since it was asked for; and what was answered once is answered    *)
(* again, unread, until the server reads its mapping anew.  IC2Mapping     *)
(* implements this specification.                                          *)
(***************************************************************************)
CONSTANTS Devices,   \* devices the mapping has
          Units,     \* units registered with the service
          Orgs, Groups,
          None

VARIABLES mapping,   \* of each device: explicit ids, serial, or neither
          place,     \* the service: where each unit is registered
          known,     \* the targets answered so far
          asked,     \* the device whose unit is being looked for, or None
          strayed,   \* that unit moved since then
          reply      \* the last answer

vars == <<mapping, place, known, asked, strayed, reply>>

Places == [org : Orgs, group : Groups \cup {None}]
Targets == [org : Orgs, group : Groups, unit : Units]
Mappings == [pinned : Targets \cup {None}, serial : Units \cup {None}]

Reply(d, target, failure) == [device |-> d, target |-> target, failure |-> failure]

NoReply == Reply(None, None, None)

NothingKnown == [d \in Devices |-> None]

Init ==
    /\ mapping \in [Devices -> Mappings]
    /\ place \in [Units -> Places]
    /\ known = NothingKnown
    /\ asked = None
    /\ strayed = FALSE
    /\ reply = NoReply

-----------------------------------------------------------------------------

\* Nothing is being looked for, and nothing is known of the device.
Open(d) == asked = None /\ known[d] = None

Done == asked' = None /\ strayed' = FALSE /\ UNCHANGED <<mapping, place>>

Learn(d, target) ==
    /\ known' = [known EXCEPT ![d] = target]
    /\ reply' = Reply(d, target, None)
    /\ Done

Recall(d) ==
    /\ asked = None
    /\ known[d] # None
    /\ reply' = Reply(d, known[d], None)
    /\ UNCHANGED <<mapping, place, known, asked, strayed>>

AnswerPinned(d) ==
    /\ Open(d)
    /\ mapping[d].pinned # None
    /\ Learn(d, mapping[d].pinned)

Ask(d) ==
    /\ Open(d)
    /\ mapping[d].pinned = None
    /\ mapping[d].serial # None
    /\ asked' = d
    /\ strayed' = FALSE
    /\ reply' = NoReply
    /\ UNCHANGED <<mapping, place, known>>

\* The unit looked for.
Wanted == mapping[asked].serial

Find ==
    /\ asked # None
    /\ place[Wanted].group # None
    /\ Learn(asked, [org |-> place[Wanted].org, group |-> place[Wanted].group, unit |-> Wanted])

Miss ==
    /\ asked # None
    /\ strayed \/ place[Wanted].group = None
    /\ reply' = Reply(asked, None, "not found")
    /\ Done
    /\ UNCHANGED known

GiveUp ==
    /\ asked # None
    /\ reply' = Reply(asked, None, "not reached")
    /\ Done
    /\ UNCHANGED known

\* The server starts again, with the mapping its file then has.
Reload ==
    /\ mapping' \in [Devices -> Mappings]
    /\ known' = NothingKnown
    /\ asked' = None
    /\ strayed' = FALSE
    /\ reply' = NoReply
    /\ UNCHANGED place

Move(unit, to) ==
    /\ place' = [place EXCEPT ![unit] = to]
    /\ strayed' = (strayed \/ (asked # None /\ unit = Wanted))
    /\ UNCHANGED <<mapping, known, asked, reply>>

Next ==
    \/ \E d \in Devices : Recall(d) \/ AnswerPinned(d) \/ Ask(d)
    \/ Find
    \/ Miss
    \/ GiveUp
    \/ Reload
    \/ \E unit \in Units, to \in Places : Move(unit, to)

Spec == Init /\ [][Next]_vars
=============================================================================
