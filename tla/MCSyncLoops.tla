---------------------------- MODULE MCSyncLoops ----------------------------
(***************************************************************************)
(* Instances of SyncLoops for TLC: one zone; the desired content of r1 is  *)
(* a value a provider can hold, that of r2 has a TTL the worker refuses.   *)
(***************************************************************************)
EXTENDS SyncLoops

CONSTANTS r1, r2, b1, b2, z1, k1, k2, good, bad

MCRecordZone == [r \in Records |-> z1]
MCBindingZone == [b \in Bindings |-> z1]
MCKey == [r \in Records |-> IF r = r1 THEN k1 ELSE k2]
MCDesired == [r \in Records |-> IF r = r1 THEN good ELSE Unparsable]

\* The zones are empty at the start.
MCContents == {[k \in Keys |-> Absent]}

-----------------------------------------------------------------------------
(* Behaviours of Spec in which r1 and both bindings exist, b1 refuses every *)
(* listing, and the tickers fire as the code sets them: every 60 s and     *)
(* every 300 s.  All calls return at once except list_records of b2, which *)
(* may keep the observe loop for any time.                                 *)

RetryPeriod == 60
ObservePeriod == 300

Held == observer.pc = "list" /\ observer.binding = b2

\* The tick of a loop falls on this time, and the loop has not used it.
PassIsDue ==
    LET row == rows[<<r1, b2>>] IN
    /\ observer.pc = "tick"
    /\ clock % ObservePeriod = 0
    /\ row # NoRow => row.at < clock

TimePasses ==
    /\ retrier.pc = "tick"
    /\ \A p \in Pairs : rows[p] # NoRow /\ rows[p].status = "sync_failed" => ~Due(rows[p])
    /\ Held \/ (observer.pc = "tick" /\ ~PassIsDue)

PeriodicNext ==
    /\ clock' = clock \/ (TimePasses /\ clock' = clock + RetryPeriod)
    /\ IF reachable = Bindings THEN reachable' = {b2}
                               ELSE UNCHANGED <<reachable, provider>>
    /\ Next
    /\ observer' # observer => retrier.pc = "tick" /\ (observer.pc = "tick" => PassIsDue)
    /\ retrier' # retrier => observer.pc = "tick" \/ Held

PeriodicSpec == Init /\ [][PeriodicNext]_vars
=============================================================================
