--------------------------- MODULE ProviderCalls ---------------------------
(***************************************************************************)
(* What the worker expects of the calls of a ProviderAdapter               *)
(* (crates/core/src/provider.rs): a call takes effect at once, at some     *)
(* moments between its start and its answer, in a zone that others change  *)
(* too.                                                                    *)
(*                                                                         *)
(*  - a write that answers "ok" has taken effect, or, for a delete, the    *)
(*    key was absent at some moment of the call;                           *)
(*  - a listing that answers "ok" gives each key one content that it had   *)
(*    at some moment of the call, not all at the same moment;              *)
(*  - "error" says nothing.                                                *)
(***************************************************************************)
CONSTANTS
    Callers,   \* the calls that can be open at the same time
    Keys,      \* the keys of the zone
    Contents,  \* what a key can hold
    Absent,    \* a key holds nothing
    Shown,     \* per key and content, the record a listing shows for it
    Requests   \* per caller, the calls it makes

VARIABLES
    zone,      \* what each key holds
    calls      \* per caller: whether its call is closed, open, or open and has
               \* taken effect ("done"); the request, what each key has held
               \* while it was open, and the answer

vars == <<zone, calls>>

Holds == Contents \union {Absent}

Init ==
    /\ zone \in [Keys -> Holds]
    /\ calls \in [Callers -> [stage : {"closed"}, request : {Absent},
                              answer : {"none"}, shows : {{}},
                              held : {[k \in Keys |-> {}]}]]

IsOpen(p) == calls[p].stage # "closed"

Begin(p, request) ==
    /\ UNCHANGED zone
    /\ ~ IsOpen(p)
    /\ calls' = [calls EXCEPT ![p] =
                    [stage |-> "open", request |-> request,
                     answer |-> "none", shows |-> {},
                     held |-> [k \in Keys |-> {zone[k]}]]]

\* k comes to hold c, because of the call p or of somebody else (p = Absent).
Change(p, k, c) ==
    /\ zone' = [zone EXCEPT ![k] = c]
    /\ calls' = [q \in Callers |->
                    IF IsOpen(q)
                    THEN [calls[q] EXCEPT !.held  = [calls[q].held EXCEPT ![k] = @ \union {c}],
                                          !.stage = IF q = p THEN "done" ELSE @]
                    ELSE calls[q]]

Others(k, c) == Change(Absent, k, c)

TakesEffect(p) ==
    /\ IsOpen(p)
    /\ \/ /\ calls[p].request.op = "upsert"
          /\ \E c \in calls[p].request.contents : Change(p, calls[p].request.key, c)
       \/ /\ calls[p].request.op = "delete"
          /\ Change(p, calls[p].request.key, Absent)

Closed(p, verdict, shows) ==
    calls' = [calls EXCEPT ![p] =
                 [stage |-> "closed", request |-> Absent, answer |-> verdict, shows |-> shows,
                  held |-> IF @.request.op = "list" THEN @.held
                                                    ELSE [k \in Keys |-> {}]]]

Errs(p) ==
    /\ UNCHANGED zone
    /\ IsOpen(p)
    /\ Closed(p, "error", {})

Writes(p) ==
    /\ UNCHANGED zone
    /\ IsOpen(p)
    /\ \/ calls[p].request.op = "upsert" /\ calls[p].stage = "done"
       \/ /\ calls[p].request.op = "delete"
          /\ Absent \in calls[p].held[calls[p].request.key]
    /\ Closed(p, "ok", {})

\* The ways to choose for each key one content that it had during the call.
Picks(seen) == {pick \in [Keys -> UNION {seen[k] : k \in Keys}] :
                   \A k \in Keys : pick[k] \in seen[k]}

Lists(p) ==
    /\ UNCHANGED zone
    /\ IsOpen(p)
    /\ calls[p].request.op = "list"
    /\ \E pick \in Picks(calls[p].held) :
          Closed(p, "ok", {Shown[k][pick[k]] : k \in Keys} \ {Absent})

Next ==
    \/ \E p \in Callers :
          \/ \E request \in Requests[p] : Begin(p, request)
          \/ TakesEffect(p)
          \/ Errs(p) \/ Writes(p) \/ Lists(p)
    \/ \E k \in Keys, c \in Holds : Others(k, c)

Spec == Init /\ [][Next]_vars

=============================================================================
