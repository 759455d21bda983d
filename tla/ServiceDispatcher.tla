-------------------------- MODULE ServiceDispatcher --------------------------
(***************************************************************************)
(* src/service_dispatcher.cpp: what a UDS request does, once its           *)
(* bytes are decoded.  A handler is an action: the call it makes to the     *)
(* session manager or to the security access (SM and SA below), and the     *)
(* response that follows from what that call returned.                     *)
(*                                                                         *)
(* SEC and PROV are other processes.  What the one downstream call of a    *)
(* request comes to is its outcome, chosen by the environment.  Response   *)
(* codes are the names of namespace Nrc, or "POSITIVE".                    *)
(***************************************************************************)
EXTENDS Integers

CONSTANTS Testers, S3_DEFAULT,                \* SessionManager
          MaxLevel, MAX_ATTEMPTS, LOCKOUT     \* SecurityAccess

ASSUME DispatcherAssumption ==
    /\ Testers \subseteq Nat
    /\ S3_DEFAULT \in Nat
    /\ MaxLevel \in Nat /\ MaxLevel >= 2
    /\ MAX_ATTEMPTS \in Nat \ {0}
    /\ LOCKOUT \in Nat \ {0}

VARIABLES session, call, quiet,                   \* session_mgr_
          states, sec_up, reply, judged, watch,   \* security_access_ and sec_
          prov_up,                                \* prov_->is_available()
          response                                \* the last DiagResponse

SM == INSTANCE SessionManager
SA == INSTANCE SecurityAccess

sessionVars == <<session, call, quiet>>
securityVars == <<states, sec_up, reply, judged, watch>>

LEVEL_1 == 1

CertificateRoutines == {"GENERATE_KEY_PAIR", "READ_CSR", "INJECT_CERTIFICATE"}

Routines == CertificateRoutines \cup {"WRITE_VIN_ROUTINE", "UNKNOWN"}

(* A payload is told apart by what the two routines that take one check:   *)
(* nothing, less than the 17 bytes of a VIN, or enough for one.            *)
RoutineRequests ==
    [sid : {"ROUTINE_CONTROL"}, rid : {"WRITE_VIN_ROUTINE", "INJECT_CERTIFICATE"},
     payload : {"empty", "short", "full"}]
    \cup [sid : {"ROUTINE_CONTROL"}, rid : Routines, payload : {"empty"}]

(* Sub-functions of 0x27 after masking bit 7: seed, key, and one that is   *)
(* neither.                                                                *)
Requests ==
    [sid : {"SESSION_CONTROL"}, type : SM!RequestedTypes]
    \cup [sid : {"TESTER_PRESENT", "UNKNOWN"}]
    \cup [sid : {"SECURITY_ACCESS"}, sub : {LEVEL_1, LEVEL_1 + 1, LEVEL_1 + 2}]
    \cup RoutineRequests
    \cup [sid : {"READ_DATA"}, did : {"VIN", "BINDING_STATE", "UNKNOWN"}]

(* The downstream call succeeds, the peer does not answer, it refuses, it  *)
(* is in the wrong provisioning state, or it finds the certificate bad.    *)
Outcomes == {"ok", "no_answer", "refused", "not_allowed", "bad_certificate"}

Verdict(outcome) == CASE outcome = "ok"        -> "accepted"
                      [] outcome = "no_answer" -> "no_answer"
                      [] OTHER                 -> "rejected"

(* work is the downstream operation the request reached, if any.           *)
Respond(who, req, nrc, work) ==
    response' = [to |-> who, sid |-> req.sid, nrc |-> nrc, work |-> work]

Reject(who, req, nrc) == /\ Respond(who, req, nrc, "none")
                         /\ UNCHANGED <<sessionVars, securityVars>>

-----------------------------------------------------------------------------
handle_session_control(who, src, req) ==
    /\ SM!switch_session(req.type, src)
    /\ Respond(who, req,
               CASE call'.code = "SUCCESS" -> "POSITIVE"
                 [] call'.code = "SESSION_STATE_NOT_ALLOWED" ->
                       "CONDITIONS_NOT_CORRECT"
                 [] OTHER -> "INCORRECT_MESSAGE_LENGTH",
               "none")
    /\ UNCHANGED securityVars

handle_tester_present(who, src, req) ==
    /\ SM!handle_tester_present(src)
    /\ Respond(who, req,
               IF call'.code = "SUCCESS" THEN "POSITIVE"
               ELSE "CONDITIONS_NOT_CORRECT",
               "none")
    /\ UNCHANGED securityVars

(* Who asks for a seed, and who answers with a key, is not looked at.      *)
handle_security_access(who, req, outcome) ==
    \/ /\ req.sub \notin {LEVEL_1, LEVEL_1 + 1}
       /\ Reject(who, req, "SUB_FUNCTION_NOT_SUPPORTED")
    \/ /\ req.sub = LEVEL_1
       /\ SA!request_seed(req.sub, outcome = "ok")
       /\ Respond(who, req,
                  CASE reply'.code = "SUCCESS" -> "POSITIVE"
                    [] reply'.code = "SEC_UNAVAILABLE" -> "CONDITIONS_NOT_CORRECT"
                    [] OTHER -> "SECURITY_ACCESS_DENIED",
                  "none")
       /\ UNCHANGED sessionVars
    \/ /\ req.sub = LEVEL_1 + 1
       /\ SA!send_key(req.sub, Verdict(outcome))
       /\ Respond(who, req,
                  CASE reply'.code = "SUCCESS" -> "POSITIVE"
                    [] reply'.code = "SEC_UNAVAILABLE" -> "CONDITIONS_NOT_CORRECT"
                    [] OTHER -> "INVALID_KEY",
                  "none")
       /\ UNCHANGED sessionVars

(* The first check a routine fails, in the order of the code, or "none".   *)
(* The certificate routines look at the session before the lock, the VIN   *)
(* routine at the lock only; an unknown routine is told so last.           *)
RoutineBarrierNoLock(req) ==
    IF req.rid \in CertificateRoutines /\ session.session_type # "PROGRAMMING"
    THEN "SERVICE_NOT_SUPPORTED_IN_SESSION"
    ELSE IF req.rid # "WRITE_VIN_ROUTINE" /\ ~SA!Unlocked(states, LEVEL_1)
    THEN "SECURITY_ACCESS_DENIED"
    ELSE IF req.rid = "UNKNOWN" THEN "REQUEST_OUT_OF_RANGE"
    ELSE "none"

RoutineBarrier(req) ==
    LET certificate == req.rid \in CertificateRoutines IN
    IF certificate /\ session.session_type # "PROGRAMMING"
    THEN "SERVICE_NOT_SUPPORTED_IN_SESSION"
    ELSE IF ~SA!Unlocked(states, LEVEL_1)
    THEN "SECURITY_ACCESS_DENIED"
    ELSE IF (certificate /\ ~sec_up) \/ (~certificate /\ ~prov_up)
    THEN "CONDITIONS_NOT_CORRECT"
    ELSE IF \/ req.rid = "INJECT_CERTIFICATE" /\ req.payload = "empty"
            \/ req.rid = "WRITE_VIN_ROUTINE" /\ req.payload # "full"
    THEN "INCORRECT_MESSAGE_LENGTH"
    ELSE IF req.rid = "UNKNOWN"
    THEN "REQUEST_OUT_OF_RANGE"
    ELSE "none"

(* Only a failed injection is told apart by its reason.                    *)
FailureNrc(rid, outcome) ==
    CASE rid = "INJECT_CERTIFICATE" /\ outcome = "no_answer" ->
            "CONDITIONS_NOT_CORRECT"
      [] rid = "INJECT_CERTIFICATE" /\ outcome = "not_allowed" ->
            "REQUEST_SEQUENCE_ERROR"
      [] rid = "INJECT_CERTIFICATE" /\ outcome = "bad_certificate" ->
            "REQUEST_OUT_OF_RANGE"
      [] OTHER -> "GENERAL_PROGRAMMING_FAILURE"

handle_routine_control(who, req, outcome) ==
    \/ /\ RoutineBarrier(req) # "none"
       /\ Reject(who, req, RoutineBarrier(req))
    \/ /\ RoutineBarrier(req) = "none"
       /\ Respond(who, req,
                  IF outcome = "ok" THEN "POSITIVE" ELSE FailureNrc(req.rid, outcome),
                  req.rid)
       /\ UNCHANGED <<sessionVars, securityVars>>

(* Reading needs no session and no lock.                                   *)
handle_read_data_by_identifier(who, req, outcome) ==
    \/ /\ req.did = "UNKNOWN"
       /\ Reject(who, req, "REQUEST_OUT_OF_RANGE")
    \/ /\ req.did # "UNKNOWN" /\ ~prov_up
       /\ Reject(who, req, "CONDITIONS_NOT_CORRECT")
    \/ /\ req.did # "UNKNOWN" /\ prov_up
       /\ Respond(who, req,
                  IF outcome = "ok" THEN "POSITIVE" ELSE "CONDITIONS_NOT_CORRECT",
                  "read_vin")
       /\ UNCHANGED <<sessionVars, securityVars>>

dispatch(who, src, req, outcome) ==
    \/ req.sid = "SESSION_CONTROL" /\ handle_session_control(who, src, req)
    \/ req.sid = "TESTER_PRESENT" /\ handle_tester_present(who, src, req)
    \/ req.sid = "SECURITY_ACCESS" /\ handle_security_access(who, req, outcome)
    \/ req.sid = "ROUTINE_CONTROL" /\ handle_routine_control(who, req, outcome)
    \/ req.sid = "READ_DATA" /\ handle_read_data_by_identifier(who, req, outcome)
    \/ req.sid = "UNKNOWN" /\ Reject(who, req, "SERVICE_NOT_SUPPORTED")

=============================================================================
