------------------------ MODULE SessionManagerProofs ------------------------
(***************************************************************************)
(* Theorems about SessionManager, for every set of testers and every       *)
(* timeout.  The inductive invariant is SessionInv: the type invariant and *)
(* the agreement of the session's timer with its holder's silence.         *)
(***************************************************************************)
EXTENDS SessionManager, TLAPS

Calls == [op   : {"none", "switch_session", "handle_tester_present",
                  "construct", "check_s3_timeout", "release_session",
                  "reset_to_default", "tick"},
          src  : Testers \cup {NoTester},
          type : RequestedTypes \cup {"none"},
          code : {"SUCCESS", "SESSION_STATE_NOT_ALLOWED",
                  "INVALID_REQUEST_FORMAT", "TIMED_OUT"}]

SessionInv == TypeOK /\ TimerFollowsHolder /\ call \in Calls

-----------------------------------------------------------------------------
(* The saturating clock stays in its range.                                *)
LEMMA LaterInRange ==
    ASSUME NEW n \in 0 .. SilenceCap
    PROVE  Later(n) \in 0 .. SilenceCap
  BY SessionAssumption DEF Later, SilenceCap

(* No tester has the address NoTester.                                     *)
LEMMA NoTesterIsNone == NoTester \notin Testers \cup {0}
  BY SessionAssumption DEF NoTester

(* A new session is typed.                                                 *)
LEMMA NewSessionTyped ==
    NewSession \in [source_address    : Testers \cup {0},
                    session_type      : SessionTypes,
                    state             : {"IDLE", "ACTIVE"},
                    security_unlocked : BOOLEAN,
                    silence           : 0 .. SilenceCap]
  BY SessionAssumption DEF NewSession, SessionTypes, SilenceCap

(* switch_session keeps the invariant, granted or not.                     *)
LEMMA SwitchKeepsInv ==
    ASSUME SessionInv, NEW src \in Testers, NEW type \in RequestedTypes,
           switch_session(type, src)
    PROVE  SessionInv'
<1>1. CASE SwitchCode(session, type, src) = "SUCCESS"
  <2>1. type \in SessionTypes /\ session' = Switched(session, type, src)
    BY <1>1 DEF switch_session, SwitchCode, Occupied
  <2>2. /\ session'.source_address = src
        /\ session'.session_type = type
        /\ session'.state = "ACTIVE"
        /\ session'.silence = 0
    BY <1>1, <2>1 DEF Switched
  <2>3. quiet' = [quiet EXCEPT ![src] = 0]
    BY <1>1 DEF switch_session, Heard
  <2>4. TypeOK'
    BY <1>1, <2>1, <2>3, SessionAssumption
    DEF SessionInv, TypeOK, Switched, SilenceCap
  <2>5. TimerFollowsHolder'
    BY <2>2, <2>3, SessionAssumption
    DEF SessionInv, TypeOK, TimerFollowsHolder, Holder, NoTester
  <2>6. call' \in Calls
    BY <1>1 DEF switch_session, Returns, Calls
  <2>7. QED  BY <2>4, <2>5, <2>6 DEF SessionInv
<1>2. CASE SwitchCode(session, type, src) # "SUCCESS"
  <2>1. UNCHANGED <<session, quiet>>
    BY <1>2 DEF switch_session, Switched, Heard
  <2>2. SwitchCode(session, type, src)
            \in {"SUCCESS", "SESSION_STATE_NOT_ALLOWED", "INVALID_REQUEST_FORMAT"}
    BY DEF SwitchCode
  <2>3. call' \in Calls
    BY <2>2 DEF switch_session, Returns, Calls
  <2>4. QED
    BY <2>1, <2>3 DEF SessionInv, TypeOK, TimerFollowsHolder, Holder
<1>3. QED  BY <1>1, <1>2

(* Tester present restarts the holder's timer, and nobody else's.          *)
LEMMA PresentKeepsInv ==
    ASSUME SessionInv, NEW src \in Testers, handle_tester_present(src)
    PROVE  SessionInv'
<1>1. CASE PresentCode(session, src) = "SUCCESS"
  <2>1. /\ session.source_address = src
        /\ session' = [session EXCEPT !.silence = 0]
        /\ quiet' = [quiet EXCEPT ![src] = 0]
    BY <1>1 DEF handle_tester_present, PresentCode, Present, Heard
  <2>2. TypeOK'
    BY <2>1, SessionAssumption DEF SessionInv, TypeOK, SilenceCap
  <2>3. TimerFollowsHolder'
    BY <2>1, SessionAssumption
    DEF SessionInv, TypeOK, TimerFollowsHolder, Holder, NoTester
  <2>4. call' \in Calls
    BY <1>1 DEF handle_tester_present, Returns, Calls
  <2>5. QED  BY <2>2, <2>3, <2>4 DEF SessionInv
<1>2. CASE PresentCode(session, src) # "SUCCESS"
  <2>1. UNCHANGED <<session, quiet>>
    BY <1>2 DEF handle_tester_present, Present, Heard
  <2>2. call' \in Calls
    BY <1>2 DEF handle_tester_present, PresentCode, Returns, Calls
  <2>3. QED
    BY <2>1, <2>2 DEF SessionInv, TypeOK, TimerFollowsHolder, Holder
<1>3. QED  BY <1>1, <1>2

(* The administrative calls leave the default session.                     *)
LEMMA AdministrationEndsSession ==
    ASSUME SessionInv, construct \/ release_session \/ reset_to_default
    PROVE  session'.session_type = "DEFAULT"
<1>1. CASE construct
  BY <1>1 DEF construct, NewSession
<1>2. CASE release_session
  BY <1>2 DEF SessionInv, TypeOK, release_session, Released
<1>3. CASE reset_to_default
  BY <1>3 DEF SessionInv, TypeOK, reset_to_default, ResetSession
<1>4. QED  BY <1>1, <1>2, <1>3

(* The calls that can only end a session.                                  *)
LEMMA EndingKeepsInv ==
    ASSUME SessionInv,
           construct \/ check_s3_timeout \/ release_session \/ reset_to_default
    PROVE  SessionInv'
<1>1. call' \in Calls
  BY DEF construct, check_s3_timeout, release_session, reset_to_default, Returns, Calls
<1>2. TypeOK'
  <2>1. CASE check_s3_timeout
    <3>1. CASE TimedOut(session)
      BY <2>1, <3>1 DEF SessionInv, TypeOK, check_s3_timeout, S3Checked, SessionTypes
    <3>2. CASE ~TimedOut(session)
      BY <2>1, <3>2 DEF SessionInv, TypeOK, check_s3_timeout, S3Checked
    <3>3. QED  BY <3>1, <3>2
  <2>2. CASE release_session
    BY <2>2 DEF SessionInv, TypeOK, release_session, Released, SessionTypes
  <2>3. CASE reset_to_default
    <3>1. 0 \in 0 .. SilenceCap
      BY SessionAssumption DEF SilenceCap
    <3>2. session' = [source_address    |-> session.source_address,
                      session_type      |-> "DEFAULT",
                      state             |-> "ACTIVE",
                      security_unlocked |-> FALSE,
                      silence           |-> 0]
      BY <2>3 DEF SessionInv, TypeOK, reset_to_default, ResetSession
    <3>3. session.source_address \in Testers \cup {0}
      BY DEF SessionInv, TypeOK
    <3>4. quiet' \in [Testers -> 0 .. SilenceCap]
      BY <2>3 DEF SessionInv, TypeOK, reset_to_default
    <3>5. QED  BY <3>1, <3>2, <3>3, <3>4 DEF TypeOK, SessionTypes
  <2>4. CASE construct
    BY <2>4, NewSessionTyped DEF SessionInv, TypeOK, construct
  <2>5. QED  BY <2>1, <2>2, <2>3, <2>4
<1>3. TimerFollowsHolder'
  <2>1. CASE check_s3_timeout
    BY <2>1 DEF SessionInv, TypeOK, TimerFollowsHolder, Holder,
                check_s3_timeout, S3Checked
  <2>2. CASE construct \/ release_session \/ reset_to_default
    BY <2>2, AdministrationEndsSession DEF TimerFollowsHolder, Holder
  <2>3. QED  BY <2>1, <2>2
<1>4. QED  BY <1>1, <1>2, <1>3 DEF SessionInv

(* Silence and timer grow together, up to the same cap.                    *)
LEMMA TickKeepsInv ==
    ASSUME SessionInv, Tick
    PROVE  SessionInv'
<1>1. call' \in Calls
  BY DEF Tick, Returns, Calls
<1>2. session.silence \in 0 .. SilenceCap
  BY DEF SessionInv, TypeOK
<1>3. TypeOK'
  BY <1>2, LaterInRange DEF SessionInv, TypeOK, Tick, Aged
<1>4. TimerFollowsHolder'
  BY DEF SessionInv, TypeOK, TimerFollowsHolder, Holder, Tick, Aged
<1>5. QED  BY <1>1, <1>3, <1>4 DEF SessionInv

(* SessionInv is inductive.                                                *)
THEOREM SessionInvariant == Spec => []SessionInv
<1>1. Init => SessionInv
  <2> SUFFICES ASSUME Init PROVE SessionInv
    OBVIOUS
  <2>1. TypeOK
    BY SessionAssumption
    DEF Init, NewSession, TypeOK, SessionTypes, SilenceCap
  <2>2. TimerFollowsHolder
    BY DEF Init, NewSession, TimerFollowsHolder, Holder
  <2>3. call \in Calls
    BY DEF Init, Calls
  <2>4. QED  BY <2>1, <2>2, <2>3 DEF SessionInv
<1>2. SessionInv /\ [Next]_vars => SessionInv'
  <2> SUFFICES ASSUME SessionInv, [Next]_vars PROVE SessionInv'
    OBVIOUS
  <2>1. ASSUME NEW src \in Testers, NEW type \in RequestedTypes,
               switch_session(type, src)
        PROVE  SessionInv'
    BY <2>1, SwitchKeepsInv
  <2>2. ASSUME NEW src \in Testers, handle_tester_present(src)
        PROVE  SessionInv'
    BY <2>2, PresentKeepsInv
  <2>3. CASE construct \/ check_s3_timeout \/ release_session \/ reset_to_default
    BY <2>3, EndingKeepsInv
  <2>4. CASE Tick
    BY <2>4, TickKeepsInv
  <2>5. CASE UNCHANGED vars
    BY <2>5 DEF vars, SessionInv, TypeOK, TimerFollowsHolder, Holder
  <2>6. QED
    BY <2>1, <2>2, <2>3, <2>4, <2>5 DEF Next
<1>3. QED
  BY <1>1, <1>2, PTL DEF Spec

(* Type correctness: in particular the session's owner is always a tester  *)
(* or the address 0.                                                       *)
THEOREM SessionTypeOK == Spec => []TypeOK
  BY SessionInvariant, PTL DEF SessionInv

(* The S3 timer of a non-default session measures its holder's silence.    *)
THEOREM SessionTimer == Spec => []TimerFollowsHolder
  BY SessionInvariant, PTL DEF SessionInv

-----------------------------------------------------------------------------
(* A session passes from one tester to another only through the default    *)
(* session.                                                                *)
THEOREM SessionExclusive == Spec => LeaseExclusion
<1>1. ASSUME SessionInv, [Next]_vars
      PROVE  [Holder # NoTester /\ Holder' # NoTester => Holder' = Holder]_vars
  <2> SUFFICES ASSUME Next, Holder # NoTester, Holder' # NoTester
               PROVE  Holder' = Holder
    BY <1>1
  <2>1. ASSUME NEW src \in Testers, NEW type \in RequestedTypes,
               switch_session(type, src)
        PROVE  Holder' = Holder
    <3>1. session.state = "ACTIVE" /\ session.session_type # "DEFAULT"
      BY <1>1 DEF SessionInv, TimerFollowsHolder, Holder
    <3>2. CASE session.source_address = src
      BY <2>1, <3>1, <3>2 DEF Holder, switch_session, Switched
    <3>3. CASE session.source_address # src
      <4>1. session' = session
        BY <2>1, <3>1, <3>3 DEF switch_session, Switched, SwitchCode, Occupied
      <4>2. QED  BY <4>1 DEF Holder
    <3>4. QED  BY <3>2, <3>3
  <2>2. ASSUME NEW src \in Testers, handle_tester_present(src)
        PROVE  Holder' = Holder
    BY <1>1, <2>2
    DEF SessionInv, TypeOK, Holder, handle_tester_present, Present
  <2>3. CASE check_s3_timeout
    BY <1>1, <2>3 DEF SessionInv, TypeOK, Holder, check_s3_timeout, S3Checked
  <2>4. CASE construct \/ release_session \/ reset_to_default
    <3>1. session'.session_type = "DEFAULT"
      BY <1>1, <2>4, AdministrationEndsSession
    <3>2. QED  BY <3>1 DEF Holder
  <2>5. CASE Tick
    BY <1>1, <2>5 DEF SessionInv, TypeOK, Holder, Tick, Aged
  <2>6. QED
    BY <2>1, <2>2, <2>3, <2>4, <2>5 DEF Next
<1>2. QED
  BY <1>1, SessionInvariant, PTL DEF Spec, LeaseExclusion

(* The service takes a session from its holder only after more than        *)
(* S3_DEFAULT of silence.                                                  *)
THEOREM SessionNotCutShort == Spec => NoPrematureExpiry
<1> DEFINE Fair == \/ call'.op = "switch_session" /\ call'.src = Holder
                   \/ call'.op \in {"construct", "release_session",
                                   "reset_to_default"}
                   \/ quiet[Holder] > S3_DEFAULT
<1>1. ASSUME SessionInv, [Next]_vars
      PROVE  [Holder # NoTester /\ Holder' = NoTester => Fair]_vars
  <2> SUFFICES ASSUME Next, Holder # NoTester, Holder' = NoTester
               PROVE  Fair
    BY <1>1
  <2>1. ASSUME NEW src \in Testers, NEW type \in RequestedTypes,
               switch_session(type, src)
        PROVE  Fair
    <3>1. src \in Nat /\ session.state = "ACTIVE"
      BY <1>1, SessionAssumption DEF SessionInv, TimerFollowsHolder
    <3>2. CASE src = Holder
      BY <2>1, <3>2 DEF switch_session, Returns
    <3>3. CASE src # Holder
      BY <2>1, <3>1, <3>3
      DEF Holder, switch_session, Switched, SwitchCode, Occupied
    <3>4. QED  BY <3>2, <3>3
  <2>2. ASSUME NEW src \in Testers, handle_tester_present(src)
        PROVE  FALSE
    BY <1>1, <2>2
    DEF SessionInv, TypeOK, Holder, handle_tester_present, Present
  <2>3. CASE check_s3_timeout
    BY <1>1, <2>3
    DEF SessionInv, TimerFollowsHolder, Holder, check_s3_timeout, S3Checked,
        TimedOut
  <2>4. CASE construct \/ release_session \/ reset_to_default
    BY <2>4 DEF construct, release_session, reset_to_default, Returns
  <2>5. CASE Tick
    BY <1>1, <2>5 DEF SessionInv, TypeOK, Holder, Tick, Aged
  <2>6. QED
    BY <2>1, <2>2, <2>3, <2>4, <2>5 DEF Next
<1>2. QED
  BY <1>1, SessionInvariant, PTL DEF Spec, NoPrematureExpiry

-----------------------------------------------------------------------------
(* The refinement.  Each method is mapped to the step of SessionLease that *)
(* its result announces.                                                   *)

LeaseQuiet == IF Holder = NoTester THEN 0 ELSE session.silence

LeaseCall == [kind |-> LeaseEvent,
              by   |-> IF LeaseEvent = "none" THEN NoTester ELSE call.src]

(* A switch grants, renews, yields or refuses a lease.                     *)
LEMMA SwitchRefines ==
    ASSUME SessionInv, NEW src \in Testers, NEW type \in RequestedTypes,
           switch_session(type, src)
    PROVE  Lease!Next
<1>1. /\ src \in Nat
      /\ src # NoTester
      /\ call' = [op |-> "switch_session", src |-> src, type |-> type,
                  code |-> SwitchCode(session, type, src)]
  BY SessionAssumption DEF switch_session, Returns, NoTester
<1>2. Holder # NoTester => session.state = "ACTIVE"
  BY DEF SessionInv, TimerFollowsHolder
<1>3. CASE SwitchCode(session, type, src) = "SUCCESS"
  <2>1. /\ session'.source_address = src
        /\ session'.session_type = type
        /\ session'.silence = 0
    BY <1>3 DEF switch_session, Switched
  <2>2. Holder \in {NoTester, src}
    BY <1>2, <1>3 DEF SwitchCode, Occupied, Holder
  <2>3. CASE type = "DEFAULT"
    <3>1. Holder' = NoTester /\ LeaseQuiet' = 0
      BY <2>1, <2>3 DEF Holder, LeaseQuiet
    <3>2. LeaseCall' = [kind |-> "yielded", by |-> src]
      BY <1>1, <1>3, <2>3 DEF LeaseCall, LeaseEvent
    <3>3. Lease!Yield(src)
      BY <2>2, <3>1, <3>2 DEF Lease!Yield, Lease!Happened, LeaseQuiet, LeaseCall
    <3>4. QED  BY <3>3 DEF Lease!Next
  <2>4. CASE type # "DEFAULT"
    <3>1. Holder' = src /\ LeaseQuiet' = 0
      BY <2>1, <2>4, <1>1 DEF Holder, LeaseQuiet
    <3>2. LeaseCall' = [kind |-> "claimed", by |-> src]
      BY <1>1, <1>3, <2>4 DEF LeaseCall, LeaseEvent
    <3>3. Lease!Claim(src)
      BY <2>2, <3>1, <3>2 DEF Lease!Claim, Lease!Happened, LeaseQuiet, LeaseCall
    <3>4. QED  BY <3>3 DEF Lease!Next
  <2>5. QED  BY <2>3, <2>4
<1>4. CASE SwitchCode(session, type, src) # "SUCCESS"
  <2>1. session' = session /\ Holder' = Holder /\ LeaseQuiet' = LeaseQuiet
    BY <1>4 DEF switch_session, Switched, Holder, LeaseQuiet
  <2>2. CASE Occupied(session, src)
    <3>1. Holder \notin {NoTester, src}
      BY <2>2, <1>1, SessionAssumption
      DEF SessionInv, TypeOK, Occupied, Holder, NoTester
    <3>2. LeaseCall' = [kind |-> "refused", by |-> src]
      BY <1>1, <2>2 DEF LeaseCall, LeaseEvent, SwitchCode
    <3>3. Lease!Refuse(src)
      BY <2>1, <3>1, <3>2 DEF Lease!Refuse, Lease!Happened, LeaseQuiet, LeaseCall
    <3>4. QED  BY <3>3 DEF Lease!Next
  <2>3. CASE ~Occupied(session, src)
    <3>1. LeaseCall' = [kind |-> "none", by |-> NoTester]
      BY <1>1, <1>4, <2>3 DEF LeaseCall, LeaseEvent, SwitchCode
    <3>2. Lease!Ignore
      BY <2>1, <3>1 DEF Lease!Ignore, Lease!Happened, LeaseQuiet, LeaseCall
    <3>3. QED  BY <3>2 DEF Lease!Next
  <2>4. QED  BY <2>2, <2>3
<1>5. QED  BY <1>3, <1>4

(* Tester present renews the lease of its holder, or changes nothing.      *)
LEMMA PresentRefines ==
    ASSUME SessionInv, NEW src \in Testers, handle_tester_present(src)
    PROVE  Lease!Next
<1>1. /\ src # NoTester
      /\ call' = [op |-> "handle_tester_present", src |-> src,
                  type |-> "none", code |-> PresentCode(session, src)]
  BY SessionAssumption DEF handle_tester_present, Returns, NoTester
<1>2. Holder' = Holder
  BY DEF SessionInv, TypeOK, Holder, handle_tester_present, Present
<1>3. Holder # NoTester => session.state = "ACTIVE"
  BY DEF SessionInv, TimerFollowsHolder
<1>4. CASE Holder = NoTester
  <2>1. LeaseQuiet' = LeaseQuiet
    BY <1>2, <1>4 DEF LeaseQuiet
  <2>2. LeaseCall' = [kind |-> "none", by |-> NoTester]
    BY <1>1, <1>2, <1>4 DEF LeaseCall, LeaseEvent
  <2>3. Lease!Ignore
    BY <1>2, <2>1, <2>2 DEF Lease!Ignore, Lease!Happened, LeaseQuiet, LeaseCall
  <2>4. QED  BY <2>3 DEF Lease!Next
<1>5. CASE Holder # NoTester /\ PresentCode(session, src) = "SUCCESS"
  <2>1. Holder = src
    BY <1>5 DEF PresentCode, Holder
  <2>2. LeaseQuiet' = 0
    BY <1>5 DEF SessionInv, TypeOK, LeaseQuiet, handle_tester_present, Present
  <2>3. LeaseCall' = [kind |-> "renewed", by |-> src]
    BY <1>1, <1>2, <1>5 DEF LeaseCall, LeaseEvent
  <2>4. Lease!Renew(src)
    BY <1>2, <2>1, <2>2, <2>3
    DEF Lease!Renew, Lease!Happened, LeaseQuiet, LeaseCall
  <2>5. QED  BY <2>4 DEF Lease!Next
<1>6. CASE Holder # NoTester /\ PresentCode(session, src) # "SUCCESS"
  <2>1. Holder # src
    BY <1>3, <1>6 DEF PresentCode, Holder
  <2>2. LeaseQuiet' = LeaseQuiet
    BY <1>2, <1>6 DEF LeaseQuiet, handle_tester_present, Present
  <2>3. LeaseCall' = [kind |-> "refused", by |-> src]
    BY <1>1, <1>2, <1>6 DEF LeaseCall, LeaseEvent
  <2>4. Lease!Refuse(src)
    BY <1>2, <1>6, <2>1, <2>2, <2>3
    DEF Lease!Refuse, Lease!Happened, LeaseQuiet, LeaseCall
  <2>5. QED  BY <2>4 DEF Lease!Next
<1>7. QED  BY <1>4, <1>5, <1>6

(* The S3 check ends a lease that is overdue, and no other.                *)
LEMMA CheckRefines ==
    ASSUME SessionInv, check_s3_timeout
    PROVE  Lease!Next
<1>1. CASE TimedOut(session)
  <2>1. /\ Holder # NoTester
        /\ LeaseQuiet > S3_DEFAULT
    BY <1>1, SessionAssumption
    DEF SessionInv, TypeOK, TimedOut, Holder, LeaseQuiet, NoTester
  <2>2. Holder' = NoTester /\ LeaseQuiet' = 0
    BY <1>1 DEF SessionInv, TypeOK, check_s3_timeout, S3Checked, Holder, LeaseQuiet
  <2>3. LeaseCall' = [kind |-> "expired", by |-> NoTester]
    BY <1>1 DEF check_s3_timeout, Returns, LeaseCall, LeaseEvent
  <2>4. Lease!Expire
    BY <2>1, <2>2, <2>3 DEF Lease!Expire, Lease!Happened, LeaseQuiet, LeaseCall
  <2>5. QED  BY <2>4 DEF Lease!Next
<1>2. CASE ~TimedOut(session)
  <2>1. Holder' = Holder /\ LeaseQuiet' = LeaseQuiet
    BY <1>2 DEF check_s3_timeout, S3Checked, Holder, LeaseQuiet
  <2>2. LeaseCall' = [kind |-> "none", by |-> NoTester]
    BY <1>2 DEF check_s3_timeout, Returns, LeaseCall, LeaseEvent
  <2>3. Lease!Ignore
    BY <2>1, <2>2 DEF Lease!Ignore, Lease!Happened, LeaseQuiet, LeaseCall
  <2>4. QED  BY <2>3 DEF Lease!Next
<1>3. QED  BY <1>1, <1>2

(* The service takes the lease away.                                       *)
LEMMA RevokeRefines ==
    ASSUME SessionInv, construct \/ release_session \/ reset_to_default
    PROVE  Lease!Next
<1>1. Holder' = NoTester /\ LeaseQuiet' = 0
  BY AdministrationEndsSession DEF Holder, LeaseQuiet
<1>2. LeaseCall' = [kind |-> "revoked", by |-> NoTester]
  BY DEF construct, release_session, reset_to_default, Returns, LeaseCall,
         LeaseEvent
<1>3. Lease!Revoke
  BY <1>1, <1>2 DEF Lease!Revoke, Lease!Happened, LeaseQuiet, LeaseCall
<1>4. QED  BY <1>3 DEF Lease!Next

(* Time passes for the lease as it does for the session.                   *)
LEMMA TickRefines ==
    ASSUME SessionInv, Tick
    PROVE  Lease!Next
<1>1. /\ Holder' = Holder
      /\ session'.silence = Later(session.silence)
      /\ session.silence \in 0 .. SilenceCap
  BY DEF SessionInv, TypeOK, Holder, Tick, Aged
<1>2. LeaseCall' = [kind |-> "none", by |-> NoTester]
  BY DEF Tick, Returns, LeaseCall, LeaseEvent
<1>3. CASE Holder # NoTester /\ session.silence < SilenceCap
  <2>1. LeaseQuiet <= S3_DEFAULT /\ LeaseQuiet' = LeaseQuiet + 1
    BY <1>1, <1>3, SessionAssumption DEF LeaseQuiet, Later, SilenceCap
  <2>2. Lease!Pass
    BY <1>1, <1>2, <1>3, <2>1
    DEF Lease!Pass, Lease!Happened, LeaseQuiet, LeaseCall
  <2>3. QED  BY <2>2 DEF Lease!Next
<1>4. CASE Holder = NoTester \/ ~(session.silence < SilenceCap)
  <2>1. LeaseQuiet' = LeaseQuiet
    BY <1>1, <1>4 DEF LeaseQuiet, Later
  <2>2. Lease!Ignore
    BY <1>1, <1>2, <2>1 DEF Lease!Ignore, Lease!Happened, LeaseQuiet, LeaseCall
  <2>3. QED  BY <2>2 DEF Lease!Next
<1>5. QED  BY <1>3, <1>4

(* The session manager implements the safety of the lease.                 *)
THEOREM SessionRefinesLease == Spec => Lease!Spec
<1>1. Init => Lease!Init
  BY DEF Init, NewSession, Lease!Init, Holder, LeaseEvent
<1>2. SessionInv /\ [Next]_vars => [Lease!Next]_(Lease!vars)
  <2> SUFFICES ASSUME SessionInv, [Next]_vars
               PROVE  Lease!Next \/ UNCHANGED Lease!vars
    OBVIOUS
  <2>1. CASE UNCHANGED vars
    BY <2>1 DEF vars, Lease!vars, Holder, LeaseEvent
  <2>2. CASE Next
    BY <2>2, SwitchRefines, PresentRefines, CheckRefines, RevokeRefines,
       TickRefines DEF Next
  <2>3. QED  BY <2>1, <2>2
<1>3. QED
  BY <1>1, <1>2, SessionInvariant, PTL DEF Spec, Lease!Spec

=============================================================================
