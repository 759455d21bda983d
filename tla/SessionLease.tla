---------------------------- MODULE SessionLease ----------------------------
(***************************************************************************)
(* What the session manager promises its testers, without its records: the *)
(* non-default diagnostic session is a lease.  At most one tester holds    *)
(* it, only its holder prolongs it or gives it back, and it expires when   *)
(* its holder has been silent for more than Limit units of time.           *)
(***************************************************************************)
EXTENDS Naturals

CONSTANTS Testers,   \* the addresses a request can come from
          NoTester,  \* a value that is no tester
          Limit      \* the silence after which the lease expires

VARIABLES holder,    \* the tester in a non-default session, or NoTester
          quiet,     \* time since the holder was last heard, 0 without one
          event      \* what the last step was, and on whose behalf

vars == <<holder, quiet, event>>

Happened(kind, t) == event' = [kind |-> kind, by |-> t]

Init == /\ holder = NoTester
        /\ quiet = 0
        /\ event = [kind |-> "none", by |-> NoTester]

(* A tester asks for a non-default session nobody else is in.              *)
Claim(t) == /\ holder \in {NoTester, t}
            /\ holder' = t
            /\ quiet' = 0
            /\ Happened("claimed", t)

Renew(t) == /\ holder = t
            /\ quiet' = 0
            /\ UNCHANGED holder
            /\ Happened("renewed", t)

(* A tester goes back to the default session, which is also granted to one *)
(* that is there already.                                                  *)
Yield(t) == /\ holder \in {NoTester, t}
            /\ holder' = NoTester
            /\ quiet' = 0
            /\ Happened("yielded", t)

Refuse(t) == /\ holder \notin {NoTester, t}
             /\ UNCHANGED <<holder, quiet>>
             /\ Happened("refused", t)

Expire == /\ holder # NoTester
          /\ quiet > Limit
          /\ holder' = NoTester
          /\ quiet' = 0
          /\ Happened("expired", NoTester)

(* The service is shut down or reset: no tester asked for it.              *)
Revoke == /\ holder' = NoTester
          /\ quiet' = 0
          /\ Happened("revoked", NoTester)

(* A request or a check that does not concern the lease.                   *)
Ignore == /\ UNCHANGED <<holder, quiet>>
          /\ Happened("none", NoTester)

(* Time passes; beyond the limit nobody counts it any more.                *)
Pass == /\ holder # NoTester
        /\ quiet <= Limit
        /\ quiet' = quiet + 1
        /\ UNCHANGED holder
        /\ Happened("none", NoTester)

Next == \/ \E t \in Testers : Claim(t) \/ Renew(t) \/ Yield(t) \/ Refuse(t)
        \/ Expire \/ Revoke \/ Ignore \/ Pass

Spec == Init /\ [][Next]_vars

(* An overdue lease is taken back.                                         *)
FairSpec == Spec /\ WF_vars(Expire)

=============================================================================
