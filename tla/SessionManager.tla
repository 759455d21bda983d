--------------------------- MODULE SessionManager ---------------------------
(***************************************************************************)
(* src/session_manager.cpp: the one diagnostic session of the service,     *)
(* its occupancy by a tester and its S3 timer.                             *)
(*                                                                         *)
(* Every method of the class locks mutex_ for its whole body, so each one  *)
(* is one action.  The code keeps the time point last_tester_present_at    *)
(* and only ever compares its distance from now with S3_DEFAULT; the model *)
(* keeps that distance, session.silence, which stops growing once the      *)
(* comparison can no longer change.  transport and session_started_at are  *)
(* written and never read, and are left out.                               *)
(***************************************************************************)
EXTENDS Integers

CONSTANTS Testers,     \* source addresses of requests (uint16_t)
          S3_DEFAULT   \* Timing::S3_DEFAULT, in units of Tick

ASSUME SessionAssumption == /\ Testers \subseteq Nat
                            /\ S3_DEFAULT \in Nat

VARIABLES session,     \* session_
          call,        \* the last call and what it returned
          quiet        \* history: per tester, the time since the last request
                       \* of its own that was granted; nothing reads it

vars == <<session, call, quiet>>

SessionTypes == {"DEFAULT", "PROGRAMMING", "EXTENDED"}

(* What the tester asks for: a session type, or a byte that is none.       *)
RequestedTypes == SessionTypes \cup {"UNKNOWN"}

NoTester == -1

SilenceCap == S3_DEFAULT + 1

Later(ticks) == IF ticks < SilenceCap THEN ticks + 1 ELSE ticks

-----------------------------------------------------------------------------
(* The methods, as functions of the session they find.                     *)

NewSession == [source_address    |-> 0,
               session_type      |-> "DEFAULT",
               state             |-> "IDLE",
               security_unlocked |-> FALSE,
               silence           |-> 0]

OccupiedWhileProgramming(s, src) ==
    s.source_address # src /\ s.session_type = "PROGRAMMING"

Occupied(s, src) == /\ s.state = "ACTIVE"
                    /\ s.source_address # src
                    /\ s.session_type # "DEFAULT"

SwitchCodeAnyType(s, type, src) ==
    IF Occupied(s, src) THEN "SESSION_STATE_NOT_ALLOWED" ELSE "SUCCESS"

(* The occupancy check comes first: an unknown type asked for by a stranger *)
(* is refused as a conflict, not as a malformed request.                   *)
SwitchCode(s, type, src) ==
    CASE Occupied(s, src)         -> "SESSION_STATE_NOT_ALLOWED"
      [] ~Occupied(s, src) /\ type \notin SessionTypes
                                  -> "INVALID_REQUEST_FORMAT"
      [] OTHER                    -> "SUCCESS"

Switched(s, type, src) ==
    IF SwitchCode(s, type, src) # "SUCCESS" THEN s
    ELSE [source_address    |-> src,
          session_type      |-> type,
          state             |-> "ACTIVE",
          security_unlocked |-> s.security_unlocked /\ type # "DEFAULT",
          silence           |-> 0]

PresentCode(s, src) ==
    IF s.state = "ACTIVE" /\ s.source_address = src
    THEN "SUCCESS" ELSE "SESSION_STATE_NOT_ALLOWED"

PresentFromAnyone(s, src) ==
    IF s.state = "ACTIVE" THEN [s EXCEPT !.silence = 0] ELSE s

Present(s, src) ==
    IF PresentCode(s, src) = "SUCCESS" THEN [s EXCEPT !.silence = 0] ELSE s

TimedOutOneEarly(s) ==
    s.session_type # "DEFAULT" /\ s.silence >= S3_DEFAULT

TimedOutOnlyProgramming(s) ==
    s.session_type = "PROGRAMMING" /\ s.silence > S3_DEFAULT

TimedOut(s) == s.session_type # "DEFAULT" /\ s.silence > S3_DEFAULT

(* The owner's address and the time of its last sign of life are kept.     *)
S3Checked(s) ==
    IF TimedOut(s)
    THEN [s EXCEPT !.session_type = "DEFAULT",
                   !.state = "ACTIVE",
                   !.security_unlocked = FALSE]
    ELSE s

Released(s) == [s EXCEPT !.source_address = 0,
                         !.session_type = "DEFAULT",
                         !.state = "IDLE",
                         !.security_unlocked = FALSE]

ResetSession(s) == [s EXCEPT !.session_type = "DEFAULT",
                             !.state = "ACTIVE",
                             !.security_unlocked = FALSE,
                             !.silence = 0]

Aged(s) == [s EXCEPT !.silence = Later(s.silence)]

-----------------------------------------------------------------------------
(* The state machine: any caller, any order of calls.                      *)

Init == /\ session = NewSession
        /\ call = [op |-> "none", src |-> NoTester, type |-> "none",
                   code |-> "SUCCESS"]
        /\ quiet = [t \in Testers |-> 0]

Returns(op, src, type, code) ==
    call' = [op |-> op, src |-> src, type |-> type, code |-> code]

Heard(src, code) ==
    quiet' = IF code = "SUCCESS" THEN [quiet EXCEPT ![src] = 0] ELSE quiet

(* A new SessionManager, when the service is initialised again.            *)
construct ==
    /\ session' = NewSession
    /\ Returns("construct", NoTester, "none", "SUCCESS")
    /\ UNCHANGED quiet

switch_session(type, src) ==
    LET code == SwitchCode(session, type, src) IN
    /\ session' = Switched(session, type, src)
    /\ Returns("switch_session", src, type, code)
    /\ Heard(src, code)

handle_tester_present(src) ==
    LET code == PresentCode(session, src) IN
    /\ session' = Present(session, src)
    /\ Returns("handle_tester_present", src, "none", code)
    /\ Heard(src, code)

check_s3_timeout ==
    /\ session' = S3Checked(session)
    /\ Returns("check_s3_timeout", NoTester, "none",
               IF TimedOut(session) THEN "TIMED_OUT" ELSE "SUCCESS")
    /\ UNCHANGED quiet

release_session ==
    /\ session' = Released(session)
    /\ Returns("release_session", NoTester, "none", "SUCCESS")
    /\ UNCHANGED quiet

reset_to_default ==
    /\ session' = ResetSession(session)
    /\ Returns("reset_to_default", NoTester, "none", "SUCCESS")
    /\ UNCHANGED quiet

(* The steady clock advances.                                              *)
Tick == /\ session' = Aged(session)
        /\ quiet' = [t \in Testers |-> Later(quiet[t])]
        /\ Returns("tick", NoTester, "none", "SUCCESS")

Next == \/ \E src \in Testers :
              \/ \E type \in RequestedTypes : switch_session(type, src)
              \/ handle_tester_present(src)
        \/ construct
        \/ check_s3_timeout
        \/ release_session
        \/ reset_to_default
        \/ Tick

Spec == Init /\ [][Next]_vars

(* The main loop calls process_pending_requests, and with it               *)
(* check_s3_timeout, every 10 ms; time does not stop.                      *)
FairSpec == Spec /\ WF_vars(check_s3_timeout) /\ WF_vars(Tick)

-----------------------------------------------------------------------------
TypeOK ==
    /\ session \in [source_address    : Testers \cup {0},
                    session_type      : SessionTypes,
                    state             : {"IDLE", "ACTIVE"},
                    security_unlocked : BOOLEAN,
                    silence           : 0 .. SilenceCap]
    /\ quiet \in [Testers -> 0 .. SilenceCap]

(* The tester in a non-default session.                                    *)
Holder == IF session.session_type = "DEFAULT" THEN NoTester
          ELSE session.source_address

(* A non-default session belongs to a tester, is ACTIVE (the occupancy     *)
(* check looks at state as well as type, so an IDLE one would be up for    *)
(* grabs), and its timer measures exactly how long that tester has been    *)
(* silent: no refused request, no other tester and no timeout check moves  *)
(* it.                                                                     *)
TimerFollowsHolder ==
    Holder # NoTester => /\ Holder \in Testers
                         /\ session.state = "ACTIVE"
                         /\ session.silence = quiet[Holder]

(* A non-default session never passes from one tester straight to another: *)
(* it goes through the default session first.                              *)
LeaseExclusion ==
    [][Holder # NoTester /\ Holder' # NoTester => Holder' = Holder]_vars

(* A tester that is still talking keeps its session: it ends by its own    *)
(* request to leave, because the service is shut down, reset or set up     *)
(* anew, or after the tester was not heard for more than S3_DEFAULT.       *)
NoPrematureExpiry ==
    [][Holder # NoTester /\ Holder' = NoTester =>
          \/ call'.op = "switch_session" /\ call'.src = Holder
          \/ call'.op \in {"construct", "release_session", "reset_to_default"}
          \/ quiet[Holder] > S3_DEFAULT]_vars

-----------------------------------------------------------------------------
(* The session manager implements the lease.                               *)

(* What the last call means for the lease, from its result and the session *)
(* it left.                                                                *)
LeaseEvent ==
    CASE call.op = "switch_session" /\ call.code = "SUCCESS" ->
            IF call.type = "DEFAULT" THEN "yielded" ELSE "claimed"
      [] call.op = "switch_session" /\ call.code = "SESSION_STATE_NOT_ALLOWED" ->
            "refused"
      [] call.op = "handle_tester_present" /\ Holder # NoTester ->
            IF call.code = "SUCCESS" THEN "renewed" ELSE "refused"
      [] call.op = "check_s3_timeout" /\ call.code = "TIMED_OUT" -> "expired"
      [] call.op \in {"construct", "release_session", "reset_to_default"} ->
            "revoked"
      [] OTHER -> "none"

Lease == INSTANCE SessionLease
    WITH NoTester <- NoTester,
         Limit    <- S3_DEFAULT,
         holder   <- Holder,
         quiet    <- IF Holder = NoTester THEN 0 ELSE session.silence,
         event    <- [kind |-> LeaseEvent,
                      by   |-> IF LeaseEvent = "none" THEN NoTester ELSE call.src]

(* Every step of the class is a step of the lease or of nothing it knows,  *)
(* and an overdue session is taken back.                                   *)
ImplementsLease == Lease!FairSpec

=============================================================================
