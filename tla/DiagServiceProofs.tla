-------------------------- MODULE DiagServiceProofs --------------------------
(***************************************************************************)
(* Theorems about DiagService.  Its steps are steps of its components, so  *)
(* what is proved of SessionManager and SecurityAccess holds of the        *)
(* service; with it, no routine gets past the lock, and no certificate     *)
(* routine past the session.                                               *)
(***************************************************************************)
EXTENDS DiagService, TLAPS

SMP == INSTANCE SessionManagerProofs
SAP == INSTANCE SecurityAccessProofs

-----------------------------------------------------------------------------
(* The components' assumptions follow from the service's.                  *)
LEMMA SessionAssumptionHolds == SMP!SessionAssumption
  BY DispatcherAssumption DEF SMP!SessionAssumption

(* The dispatcher's constants satisfy what the security access assumes.    *)
LEMMA SecurityAssumptionHolds == SAP!SecurityAssumption
  BY DispatcherAssumption DEF SAP!SecurityAssumption

(* SA and SAP name the same specification, as do SM and SMP.               *)
LEMMA SameSecurityInit == SA!Init <=> SAP!Init
  BY DEF SA!Init, SAP!Init, SA!NewStates, SAP!NewStates, SA!NewState,
         SAP!NewState, SA!Levels, SAP!Levels, SA!Stopped, SAP!Stopped

(* The steps, too, are the same under both names.                          *)
LEMMA SameSecurityNext == SA!Next <=> SAP!Next
  BY Zenon
  DEF SA!Next, SA!request_seed, SA!send_key, SA!lock, SA!reset,
      SA!SecComesAndGoes, SA!Tick, SA!NewStates, SA!NewState, SA!Levels,
      SA!Stopped, SA!Verdicts, SA!SeedCode, SA!LockedOut, SA!Seeded,
      SA!Challenged, SA!Keyed, SA!KeyIsTried, SA!KeyCode, SA!Accepted,
      SA!Refused, SA!Counted, SA!Locked, SA!Elapsed, SA!SeedLevel,
      SA!Watched, SA!Running, SA!Returns,
      SAP!Next, SAP!request_seed, SAP!send_key, SAP!lock, SAP!reset,
      SAP!SecComesAndGoes, SAP!Tick, SAP!NewStates, SAP!NewState, SAP!Levels,
      SAP!Stopped, SAP!Verdicts, SAP!SeedCode, SAP!LockedOut, SAP!Seeded,
      SAP!Challenged, SAP!Keyed, SAP!KeyIsTried, SAP!KeyCode, SAP!Accepted,
      SAP!Refused, SAP!Counted, SAP!Locked, SAP!Elapsed, SAP!SeedLevel,
      SAP!Watched, SAP!Running, SAP!Returns

(* The session manager starts alike under both names.                      *)
LEMMA SameSessionInit == SM!Init <=> SMP!Init
  BY Zenon DEF SM!Init, SM!NewSession, SM!NoTester,
               SMP!Init, SMP!NewSession, SMP!NoTester

(* And its steps are the same.                                             *)
LEMMA SameSessionNext == SM!Next <=> SMP!Next
  BY Zenon
  DEF SM!Next, SM!construct, SM!switch_session, SM!handle_tester_present,
      SM!check_s3_timeout, SM!release_session, SM!reset_to_default, SM!Tick,
      SM!RequestedTypes, SM!SessionTypes, SM!NewSession, SM!SwitchCode,
      SM!Occupied, SM!Switched, SM!PresentCode, SM!Present, SM!TimedOut,
      SM!S3Checked, SM!Released, SM!ResetSession, SM!Aged, SM!Later,
      SM!SilenceCap, SM!NoTester, SM!Returns, SM!Heard,
      SMP!Next, SMP!construct, SMP!switch_session, SMP!handle_tester_present,
      SMP!check_s3_timeout, SMP!release_session, SMP!reset_to_default,
      SMP!Tick, SMP!RequestedTypes, SMP!SessionTypes, SMP!NewSession,
      SMP!SwitchCode, SMP!Occupied, SMP!Switched, SMP!PresentCode,
      SMP!Present, SMP!TimedOut, SMP!S3Checked, SMP!Released,
      SMP!ResetSession, SMP!Aged, SMP!Later, SMP!SilenceCap, SMP!NoTester,
      SMP!Returns, SMP!Heard

-----------------------------------------------------------------------------
(* The request being served comes from a known address.                    *)
Serving == /\ job.phase = "checked"
           /\ job.src \in Testers
           /\ job.req \in Requests

JobInv == /\ job \in {NoJob, Activating} \/ job.phase = "receiving" \/ Serving
          /\ ~initialized => job = NoJob
          /\ job.phase = "receiving" => wire \in WireTesters
          /\ wire \in WireTesters \cup {Nobody}

(* The phase of a job tells what is known of it.                           *)
LEMMA JobPhases ==
    ASSUME JobInv
    PROVE  /\ job.phase = "none" <=> job = NoJob
           /\ job.phase = "checked" <=> Serving
  BY DEF JobInv, NoJob, Activating, Serving

(* The fields that the handlers of 0x10 and 0x27 read are in range.        *)
LEMMA RequestFields ==
    ASSUME NEW req \in Requests
    PROVE  /\ req.sid = "SESSION_CONTROL" => req.type \in SM!RequestedTypes
           /\ req.sid = "SECURITY_ACCESS" => req.sub \in {1, 2, 3}
<1>1. CASE req \in [sid : {"SESSION_CONTROL"}, type : SM!RequestedTypes]
  BY <1>1
<1>2. CASE req \in [sid : {"TESTER_PRESENT", "UNKNOWN"}]
  BY <1>2
<1>3. CASE req \in [sid : {"SECURITY_ACCESS"},
                   sub : {LEVEL_1, LEVEL_1 + 1, LEVEL_1 + 2}]
  BY <1>3 DEF LEVEL_1
<1>4. CASE req \in RoutineRequests
  BY <1>4 DEF RoutineRequests
<1>5. CASE req \in [sid : {"READ_DATA"}, did : {"VIN", "BINDING_STATE", "UNKNOWN"}]
  BY <1>5
<1>6. QED  BY <1>1, <1>2, <1>3, <1>4, <1>5 DEF Requests

(* diag_service.cpp:96-175: a job is nothing, a round that waits, or a     *)
(* request that passed the S3 check of an initialised service.             *)
LEMMA JobInvariant == Spec => []JobInv
<1>1. Init => JobInv
  BY DEF Init, JobInv, NoJob
<1>2. JobInv /\ [Next]_vars => JobInv'
  <2> SUFFICES ASSUME JobInv, [Next]_vars PROVE JobInv'
    OBVIOUS
  <2>1. CASE initialize
    BY <2>1, JobPhases DEF initialize, Free, JobInv, NoJob
  <2>2. CASE \/ shutdown \/ initialize_fails \/ set_sec \/ set_transport
    BY <2>2, JobPhases
    DEF shutdown, initialize_fails, set_sec, set_transport, Free, serviceVars,
        JobInv, NoJob
  <2>3. ASSUME NEW src \in Testers, NEW req \in Requests,
               process_request(src, req)
        PROVE  JobInv'
    BY <2>3 DEF process_request, JobInv, Serving, NoJob
  <2>4. ASSUME NEW src \in Testers, NEW req \in Requests,
               process_request_uninitialized(src, req)
        PROVE  JobInv'
    BY <2>4 DEF process_request_uninitialized, serviceVars, JobInv, Serving
  <2>5. CASE process_pending_requests
    BY <2>5, JobPhases
    DEF process_pending_requests, Free, JobInv, NoJob, Activating, Receiving
  <2>6. ASSUME NEW req \in Requests, receive_request(req)
        PROVE  JobInv'
    BY <2>6, JobPhases, ServiceAssumption
    DEF receive_request, JobInv, Serving, WireAddress, NoJob
  <2>7. CASE receive_nothing \/ activate
    BY <2>7, JobPhases
    DEF receive_nothing, activate, JobInv, NoJob, Activating
  <2>8. ASSUME NEW outcome \in Outcomes, serve(outcome)
        PROVE  JobInv'
    BY <2>8 DEF serve, JobInv, NoJob
  <2>9. CASE PeersComeAndGo
    BY <2>9 DEF PeersComeAndGo, serviceVars, JobInv, Serving
  <2>10. CASE Tick
    BY <2>10 DEF Tick, serviceVars, JobInv, Serving
  <2>11. CASE UNCHANGED vars
    BY <2>11 DEF vars, serviceVars, JobInv, Serving
  <2>12. QED
    BY <2>1, <2>2, <2>3, <2>4, <2>5, <2>6, <2>7, <2>8, <2>9, <2>10, <2>11
    DEF Next
<1>3. QED  BY <1>1, <1>2, PTL DEF Spec

-----------------------------------------------------------------------------
(* What a request does to the session and to the levels, handler by        *)
(* handler.                                                                *)
LEMMA DispatchSession ==
    ASSUME NEW who, NEW src \in Testers, NEW req \in Requests, NEW outcome,
           dispatch(who, src, req, outcome)
    PROVE  SM!Next \/ UNCHANGED sessionVars
<1>1. CASE /\ req.sid = "SESSION_CONTROL"
           /\ handle_session_control(who, src, req)
  BY <1>1, RequestFields DEF handle_session_control, SM!Next
<1>2. CASE /\ req.sid = "TESTER_PRESENT"
           /\ handle_tester_present(who, src, req)
  BY <1>2 DEF handle_tester_present, SM!Next
<1>3. CASE handle_security_access(who, req, outcome)
  BY <1>3 DEF handle_security_access, Reject
<1>4. CASE handle_routine_control(who, req, outcome)
  BY <1>4 DEF handle_routine_control, Reject
<1>5. CASE handle_read_data_by_identifier(who, req, outcome)
  BY <1>5 DEF handle_read_data_by_identifier, Reject
<1>6. CASE Reject(who, req, "SERVICE_NOT_SUPPORTED")
  BY <1>6 DEF Reject
<1>7. QED  BY <1>1, <1>2, <1>3, <1>4, <1>5, <1>6 DEF dispatch

(* service_dispatcher.cpp: a request takes one step of the security        *)
(* access, or none.                                                        *)
LEMMA DispatchSecurity ==
    ASSUME NEW who, NEW src, NEW req \in Requests, NEW outcome,
           dispatch(who, src, req, outcome)
    PROVE  SA!Next \/ UNCHANGED securityVars
<1>1. CASE handle_session_control(who, src, req)
  BY <1>1 DEF handle_session_control
<1>2. CASE handle_tester_present(who, src, req)
  BY <1>2 DEF handle_tester_present
<1>3. CASE /\ req.sid = "SECURITY_ACCESS"
           /\ handle_security_access(who, req, outcome)
  <2>1. LEVEL_1 \in SA!Levels /\ LEVEL_1 + 1 \in SA!Levels
    BY DispatcherAssumption DEF SA!Levels, LEVEL_1
  <2>2. (outcome = "ok") \in BOOLEAN
    OBVIOUS
  <2>3. Verdict(outcome) \in SA!Verdicts
    BY DEF Verdict, SA!Verdicts
  <2>4. CASE req.sub = LEVEL_1 /\ SA!request_seed(req.sub, outcome = "ok")
    BY <2>1, <2>2, <2>4 DEF SA!Next
  <2>5. CASE req.sub = LEVEL_1 + 1 /\ SA!send_key(req.sub, Verdict(outcome))
    BY <2>1, <2>3, <2>5 DEF SA!Next
  <2>6. CASE UNCHANGED securityVars
    BY <2>6
  <2>7. QED  BY <1>3, <2>4, <2>5, <2>6 DEF handle_security_access, Reject
<1>4. CASE handle_routine_control(who, req, outcome)
  BY <1>4 DEF handle_routine_control, Reject
<1>5. CASE handle_read_data_by_identifier(who, req, outcome)
  BY <1>5 DEF handle_read_data_by_identifier, Reject
<1>6. CASE Reject(who, req, "SERVICE_NOT_SUPPORTED")
  BY <1>6 DEF Reject
<1>7. QED  BY <1>1, <1>2, <1>3, <1>4, <1>5, <1>6 DEF dispatch

(* Every step of the service is a step of the session manager, or one it   *)
(* does not notice.                                                        *)
LEMMA StepOfSession ==
    ASSUME JobInv, [Next]_vars
    PROVE  SM!Next \/ UNCHANGED sessionVars
<1>1. CASE initialize
  BY <1>1 DEF initialize, SM!Next
<1>2. CASE \/ shutdown \/ initialize_fails \/ set_sec \/ set_transport
  BY <1>2 DEF shutdown, initialize_fails, set_sec, set_transport, SM!Next
<1>3. ASSUME NEW src \in Testers, NEW req \in Requests,
             process_request(src, req)
      PROVE  SM!Next
  BY <1>3 DEF process_request, SM!Next
<1>4. ASSUME NEW src \in Testers, NEW req \in Requests,
             process_request_uninitialized(src, req)
      PROVE  UNCHANGED sessionVars
  BY <1>4 DEF process_request_uninitialized
<1>5. CASE process_pending_requests
  BY <1>5 DEF process_pending_requests, SM!Next
<1>6. ASSUME NEW req \in Requests, receive_request(req)
      PROVE  UNCHANGED sessionVars
  BY <1>6 DEF receive_request
<1>7. CASE receive_nothing \/ activate
  BY <1>7 DEF receive_nothing, activate
<1>8. ASSUME NEW outcome \in Outcomes, serve(outcome)
      PROVE  SM!Next \/ UNCHANGED sessionVars
  <2>1. job.src \in Testers /\ job.req \in Requests
    BY <1>8, JobPhases DEF serve, Serving
  <2>2. QED  BY <1>8, <2>1, DispatchSession DEF serve
<1>9. CASE PeersComeAndGo
  BY <1>9 DEF PeersComeAndGo
<1>10. CASE Tick
  BY <1>10 DEF Tick, SM!Next
<1>11. CASE UNCHANGED vars
  BY <1>11 DEF vars
<1>12. QED
  BY <1>1, <1>2, <1>3, <1>4, <1>5, <1>6, <1>7, <1>8, <1>9, <1>10, <1>11
  DEF Next

(* The same of every step of the service.                                  *)
LEMMA StepOfSecurity ==
    ASSUME JobInv, [Next]_vars
    PROVE  SA!Next \/ UNCHANGED securityVars
<1>1. CASE initialize
  BY <1>1 DEF initialize, SA!Next
<1>2. CASE \/ shutdown \/ initialize_fails \/ set_sec \/ set_transport
  BY <1>2 DEF shutdown, initialize_fails, set_sec, set_transport, SA!Next
<1>3. ASSUME NEW src \in Testers, NEW req \in Requests,
             \/ process_request(src, req)
             \/ process_request_uninitialized(src, req)
      PROVE  UNCHANGED securityVars
  BY <1>3 DEF process_request, process_request_uninitialized
<1>5. CASE process_pending_requests
  BY <1>5 DEF process_pending_requests
<1>6. ASSUME NEW req \in Requests, receive_request(req)
      PROVE  UNCHANGED securityVars
  BY <1>6 DEF receive_request
<1>7. CASE receive_nothing \/ activate
  BY <1>7 DEF receive_nothing, activate
<1>8. ASSUME NEW outcome \in Outcomes, serve(outcome)
      PROVE  SA!Next \/ UNCHANGED securityVars
  <2>1. job.src \in Testers /\ job.req \in Requests
    BY <1>8, JobPhases DEF serve, Serving
  <2>2. QED  BY <1>8, <2>1, DispatchSecurity DEF serve
<1>9. CASE PeersComeAndGo
  BY <1>9 DEF PeersComeAndGo, SA!Next
<1>10. CASE Tick
  BY <1>10 DEF Tick, SA!Next
<1>11. CASE UNCHANGED vars
  BY <1>11 DEF vars
<1>12. QED
  BY <1>1, <1>2, <1>3, <1>5, <1>6, <1>7, <1>8, <1>9, <1>10, <1>11
  DEF Next

(* The session of the service behaves as a session manager does.           *)
THEOREM ServiceRunsSession == Spec => SMP!Spec
<1>1. Init => SMP!Init
  BY SameSessionInit DEF Init
<1>2. JobInv /\ [Next]_vars => [SMP!Next]_(SMP!vars)
  BY StepOfSession, SameSessionNext DEF sessionVars, SMP!vars
<1>3. QED  BY <1>1, <1>2, JobInvariant, PTL DEF Spec, SMP!Spec

(* Its security levels behave as the security access does.                 *)
THEOREM ServiceRunsSecurity == Spec => SAP!Spec
<1>1. Init => SAP!Init
  BY SameSecurityInit DEF Init
<1>2. JobInv /\ [Next]_vars => [SAP!Next]_(SAP!vars)
  BY StepOfSecurity, SameSecurityNext DEF securityVars, SAP!vars
<1>3. QED  BY <1>1, <1>2, JobInvariant, PTL DEF Spec, SAP!Spec

(* Through every dispatch, timeout, shutdown and new start, the service's  *)
(* session is a lease that one tester holds, and that ends only by its own *)
(* silence or the service's doing (diag_service.cpp calls nothing else).   *)
THEOREM ServiceSessionIsLease == Spec => SMP!Lease!Spec
<1>1. SMP!Spec => SMP!Lease!Spec
  BY SessionAssumptionHolds, SMP!SessionRefinesLease
<1> QED  BY <1>1, ServiceRunsSession, PTL

(* No tester of the service, whatever else it asks for between its keys,   *)
(* and whoever asks besides, has more than MAX_ATTEMPTS keys refused while *)
(* a LOCKOUT passes, nor a key judged during one.                          *)
THEOREM ServiceGuessRate == Spec => [](SAP!GuessRate /\ SAP!LockoutMeansLocked)
<1>1. SAP!Spec => []SAP!GuessRate
  BY SecurityAssumptionHolds, SAP!SecurityGuessRate
<1>2. SAP!Spec => []SAP!LockoutMeansLocked
  BY SecurityAssumptionHolds, SAP!SecurityLockout
<1> QED  BY <1>1, <1>2, ServiceRunsSecurity, PTL

(* So what is proved of the components holds in the service.               *)
LEMMA ComponentsInv == Spec => [](SMP!SessionInv /\ SAP!SecurityInv)
<1>1. SMP!Spec => []SMP!SessionInv
  BY SessionAssumptionHolds, SMP!SessionInvariant
<1>2. SAP!Spec => []SAP!SecurityInv
  BY SecurityAssumptionHolds, SAP!SecurityInvariant
<1>3. QED  BY <1>1, <1>2, ServiceRunsSession, ServiceRunsSecurity, PTL

(* SecurityAccess's theorem about seeds, of the one inside the service.    *)
LEMMA KeyBehindUnlock == Spec => []SAP!SeedSpentOnce
<1>1. SAP!Spec => []SAP!SeedSpentOnce
  BY SecurityAssumptionHolds, SAP!SecuritySeedSpentOnce
<1>2. QED  BY <1>1, ServiceRunsSecurity, PTL

-----------------------------------------------------------------------------
(* A routine that was carried out answers for nothing but an accepted key, *)
(* and the last answer is gone when a request is being served.             *)
ResponseInv ==
    /\ job.phase # "none" => response.work = "none"
    /\ response.work \in ProtectedWork =>
          judged[LEVEL_1] = "accepted" /\ initialized

(* What the dispatcher sees of an unlocked level.                          *)
LEMMA UnlockedMeansAccepted ==
    ASSUME SAP!SeedSpentOnce, SA!Unlocked(states, LEVEL_1)
    PROVE  judged[LEVEL_1] = "accepted"
<1>1. LEVEL_1 \in SAP!Levels
  BY DispatcherAssumption DEF SAP!Levels, LEVEL_1
<1>2. SA!StateKey(LEVEL_1) = LEVEL_1
  BY DEF SA!StateKey, LEVEL_1
<1>3. QED  BY <1>1, <1>2 DEF SAP!SeedSpentOnce, SA!Unlocked

(* The routine a response tells of got past the whole barrier.             *)
LEMMA ProtectedWorkPassed ==
    ASSUME NEW who, NEW src, NEW req \in Requests, NEW outcome,
           dispatch(who, src, req, outcome),
           response'.work \in ProtectedWork
    PROVE  /\ SA!Unlocked(states, LEVEL_1)
           /\ response'.work \in CertificateRoutines =>
                 session.session_type = "PROGRAMMING"
           /\ UNCHANGED <<sessionVars, securityVars>>
<1>1. "none" \notin ProtectedWork /\ "read_vin" \notin ProtectedWork
  BY DEF ProtectedWork, Routines, CertificateRoutines
<1>2. ASSUME NEW nrc PROVE ~Respond(who, req, nrc, "none")
  BY <1>1 DEF Respond
<1>3. ASSUME NEW nrc PROVE ~Respond(who, req, nrc, "read_vin")
  BY <1>1 DEF Respond
<1>4. ~handle_session_control(who, src, req)
  BY <1>2 DEF handle_session_control
<1>5. ~handle_tester_present(who, src, req)
  BY <1>2 DEF handle_tester_present
<1>6. ~handle_security_access(who, req, outcome)
  BY <1>2 DEF handle_security_access, Reject
<1>7. ~handle_read_data_by_identifier(who, req, outcome)
  BY <1>2, <1>3 DEF handle_read_data_by_identifier, Reject
<1>8. /\ handle_routine_control(who, req, outcome)
      /\ RoutineBarrier(req) = "none"
      /\ response'.work = req.rid
      /\ UNCHANGED <<sessionVars, securityVars>>
  BY <1>2, <1>4, <1>5, <1>6, <1>7
  DEF dispatch, handle_routine_control, Reject, Respond
<1>9. QED  BY <1>8 DEF RoutineBarrier

(* The response and what it says of downstream work, in every state.       *)
LEMMA ResponseInvariant == Spec => []ResponseInv
<1>1. Init => ResponseInv
  BY DEF Init, ResponseInv, NoJob, NoResponse, ProtectedWork, Routines,
         CertificateRoutines
<1>2. JobInv /\ SAP!SeedSpentOnce /\ ResponseInv /\ [Next]_vars => ResponseInv'
  <2> SUFFICES ASSUME JobInv, SAP!SeedSpentOnce, ResponseInv, [Next]_vars
               PROVE  ResponseInv'
    OBVIOUS
  <2>1. NoResponse.work = "none" /\ "none" \notin ProtectedWork
    BY DEF NoResponse, ProtectedWork, Routines, CertificateRoutines
  <2>2. CASE response' = NoResponse
    BY <2>1, <2>2 DEF ResponseInv
  <2>3. ASSUME NEW src \in Testers, NEW req \in Requests,
               process_request_uninitialized(src, req)
        PROVE  ResponseInv'
    BY <2>1, <2>3
    DEF process_request_uninitialized, Respond, ResponseInv
  <2>4. CASE \/ \E req \in Requests : receive_request(req)
             \/ receive_nothing \/ activate
    <3>1. response.work = "none" /\ response' = response
      BY <2>4
      DEF receive_request, receive_nothing, activate, ResponseInv, Activating
    <3>2. QED  BY <2>1, <3>1 DEF ResponseInv
  <2>5. ASSUME NEW outcome \in Outcomes, serve(outcome)
        PROVE  ResponseInv'
    <3>1. Serving /\ initialized
      BY <2>5, JobPhases DEF serve, JobInv, NoJob
    <3>2. job' = NoJob /\ initialized' = initialized
      BY <2>5 DEF serve
    <3>3. ASSUME response'.work \in ProtectedWork
          PROVE  judged'[LEVEL_1] = "accepted"
      <4>1. /\ SA!Unlocked(states, LEVEL_1)
            /\ UNCHANGED securityVars
        BY <2>5, <3>1, <3>3, ProtectedWorkPassed DEF serve, Serving
      <4>2. QED  BY <4>1, UnlockedMeansAccepted DEF securityVars
    <3>4. QED  BY <3>1, <3>2, <3>3 DEF ResponseInv, NoJob
  <2>6. CASE PeersComeAndGo
    BY <2>6 DEF PeersComeAndGo, serviceVars, securityVars, ResponseInv,
                SA!SecComesAndGoes
  <2>7. CASE UNCHANGED vars
    BY <2>7 DEF vars, serviceVars, securityVars, ResponseInv
  <2>8. QED
    BY <2>2, <2>3, <2>4, <2>5, <2>6, <2>7
    DEF Next, initialize, initialize_fails, shutdown, set_sec, set_transport,
        process_request, process_pending_requests, Tick
<1>3. QED  BY <1>1, <1>2, JobInvariant, KeyBehindUnlock, PTL DEF Spec

(* No routine reaches PROV or SEC unless SEC accepted the key for the last *)
(* seed it issued (ServiceDispatcher::handle_routine_control).             *)
THEOREM ServiceRoutinesNeedKey == Spec => RoutinesNeedAcceptedKey
<1>1. /\ JobInv /\ SAP!SeedSpentOnce /\ ResponseInv /\ ResponseInv'
      /\ [Next]_vars
      => [response'.work \in ProtectedWork =>
             judged[LEVEL_1] = "accepted" /\ initialized]_vars
  <2> SUFFICES ASSUME JobInv, SAP!SeedSpentOnce, ResponseInv, Next,
                      response'.work \in ProtectedWork
               PROVE  judged[LEVEL_1] = "accepted" /\ initialized
    OBVIOUS
  <2>1. NoResponse.work \notin ProtectedWork /\ "none" \notin ProtectedWork
    BY DEF NoResponse, ProtectedWork, Routines, CertificateRoutines
  <2>2. CASE response' = response
    BY <2>2 DEF ResponseInv
  <2>3. ASSUME NEW outcome \in Outcomes, serve(outcome)
        PROVE  judged[LEVEL_1] = "accepted" /\ initialized
    <3>1. Serving /\ initialized
      BY <2>3, JobPhases DEF serve, JobInv, NoJob
    <3>2. SA!Unlocked(states, LEVEL_1)
      BY <2>3, <3>1, ProtectedWorkPassed DEF serve, Serving
    <3>3. QED  BY <3>1, <3>2, UnlockedMeansAccepted
  <2>4. ASSUME NEW src \in Testers, NEW req \in Requests
        PROVE  ~process_request_uninitialized(src, req)
    BY <2>1 DEF process_request_uninitialized, Respond
  <2>5. QED
    BY <2>1, <2>2, <2>3, <2>4
    DEF Next, initialize, initialize_fails, shutdown, set_sec, set_transport,
        process_request, process_pending_requests, Tick, activate,
        receive_request, receive_nothing, PeersComeAndGo
<1>2. QED
  BY <1>1, JobInvariant, KeyBehindUnlock, ResponseInvariant, PTL
  DEF Spec, RoutinesNeedAcceptedKey

-----------------------------------------------------------------------------
(* The session is what the S3 check of the round found it to be: nobody    *)
(* else gets to it before the request of that round is served.             *)
FoundInv ==
    job.phase \in {"receiving", "checked"} =>
        /\ job.found = [holder  |-> SM!Holder,
                        type    |-> session.session_type,
                        in_time |-> TRUE]
        /\ job \in [phase : {"receiving"}, found : Findings]
                  \cup [phase : {"checked"}, path : {"call", "wire"},
                        who : Testers \cup WireTesters,
                        src : Testers, req : Requests, found : Findings]

(* What an S3 check leaves is in time: an overdue session has ended, and   *)
(* the timer of another is its holder's silence.                           *)
LEMMA CheckedInTime ==
    ASSUME SMP!SessionInv, SM!check_s3_timeout
    PROVE  /\ Found' = [holder  |-> SM!Holder',
                        type    |-> session'.session_type,
                        in_time |-> TRUE]
           /\ Found' \in Findings
<1>1. SM!Holder' # SM!NoTester =>
         /\ session' = session /\ SM!Holder' = SMP!Holder
         /\ ~SM!TimedOut(session) /\ session.session_type # "DEFAULT"
  BY DEF SM!check_s3_timeout, SM!S3Checked, SM!Holder, SM!TimedOut, SMP!Holder,
         SMP!SessionInv, SMP!TypeOK
<1>2. SM!Holder' # SM!NoTester => quiet'[SM!Holder'] <= S3_DEFAULT
  <2> SUFFICES ASSUME SM!Holder' # SM!NoTester
               PROVE  quiet'[SM!Holder'] <= S3_DEFAULT
    OBVIOUS
  <2>1. session.silence <= S3_DEFAULT
    BY <1>1, DispatcherAssumption
    DEF SM!TimedOut, SMP!SessionInv, SMP!TypeOK, SMP!SilenceCap
  <2>2. session.silence = quiet[SMP!Holder]
    BY <1>1 DEF SMP!SessionInv, SMP!TimerFollowsHolder, SM!NoTester, SMP!NoTester
  <2>3. quiet' = quiet
    BY DEF SM!check_s3_timeout
  <2> QED  BY <1>1, <2>1, <2>2, <2>3
<1>3. session'.session_type \in SM!SessionTypes
  BY DEF SM!check_s3_timeout, SM!S3Checked, SM!SessionTypes, SMP!SessionInv,
         SMP!TypeOK, SMP!SessionTypes
<1>4. SM!Holder' \in Testers \cup {SM!NoTester}
  BY <1>1 DEF SMP!SessionInv, SMP!TimerFollowsHolder, SM!NoTester, SMP!NoTester
<1> QED  BY <1>2, <1>3, <1>4 DEF Found, Findings

(* diag_service.cpp:96-175: mutex_ is held from the S3 check to the        *)
(* response, so what the check found still stands when the request is      *)
(* served, whatever recv or a reconnect waits for meanwhile.               *)
LEMMA FoundInvariant == Spec => []FoundInv
<1>1. Init => FoundInv
  BY DEF Init, FoundInv, NoJob
<1>2. JobInv /\ SMP!SessionInv /\ FoundInv /\ [Next]_vars => FoundInv'
  <2> SUFFICES ASSUME JobInv, SMP!SessionInv, FoundInv, [Next]_vars
               PROVE  FoundInv'
    OBVIOUS
  <2>1. CASE job'.phase \notin {"receiving", "checked"}
    BY <2>1 DEF FoundInv
  <2>2. ASSUME job' = job, SM!Holder' = SM!Holder,
               session'.session_type = session.session_type
        PROVE  FoundInv'
    BY <2>2 DEF FoundInv
  <2>3. ASSUME NEW src \in Testers, NEW req \in Requests,
               process_request(src, req)
        PROVE  FoundInv'
    <3>1. SM!check_s3_timeout
      BY <2>3 DEF process_request
    <3>2. job' = [phase |-> "checked", path |-> "call", who |-> src,
                  src |-> src, req |-> req, found |-> Found']
      BY <2>3 DEF process_request
    <3> QED  BY <3>1, <3>2, CheckedInTime DEF FoundInv
  <2>4. CASE process_pending_requests
    <3>1. SM!check_s3_timeout
      BY <2>4 DEF process_pending_requests
    <3>2. job' \in {NoJob, Activating, Receiving(Found')}
      BY <2>4 DEF process_pending_requests
    <3>3. CASE job' = Receiving(Found')
      BY <3>1, <3>3, CheckedInTime DEF FoundInv, Receiving
    <3> QED  BY <2>1, <3>2, <3>3 DEF NoJob, Activating
  <2>5. ASSUME NEW req \in Requests, receive_request(req)
        PROVE  FoundInv'
    <3>1. /\ job.phase = "receiving"
          /\ job' = [phase |-> "checked", path |-> "wire", who |-> wire,
                     src |-> WireAddress, req |-> req, found |-> job.found]
          /\ session' = session
      BY <2>5 DEF receive_request, sessionVars
    <3>2. /\ job.found \in Findings
          /\ job.found = [holder  |-> SM!Holder,
                          type    |-> session.session_type,
                          in_time |-> TRUE]
      BY <3>1 DEF FoundInv
    <3>3. wire \in WireTesters /\ WireAddress \in Testers
      BY <3>1, ServiceAssumption DEF JobInv, WireAddress
    <3>4. SM!Holder' = SM!Holder
      BY <3>1 DEF SM!Holder
    <3> QED  BY <3>1, <3>2, <3>3, <3>4 DEF FoundInv
  <2>6. CASE Tick
    <3>1. session' = SM!Aged(session) /\ job' = job
      BY <2>6 DEF Tick, SM!Tick, serviceVars
    <3>2. /\ session'.session_type = session.session_type
          /\ session'.source_address = session.source_address
      BY <3>1 DEF SM!Aged, SMP!SessionInv, SMP!TypeOK
    <3> QED  BY <2>2, <3>1, <3>2 DEF SM!Holder
  <2>7. CASE \/ initialize \/ initialize_fails \/ shutdown
             \/ set_sec \/ set_transport \/ activate \/ receive_nothing
             \/ \E outcome \in Outcomes : serve(outcome)
    BY <2>1, <2>7, JobPhases
    DEF initialize, initialize_fails, shutdown, set_sec, set_transport, activate,
        receive_nothing, serve, serviceVars, Free, NoJob
  <2>8. CASE \/ PeersComeAndGo \/ UNCHANGED vars
             \/ \E src \in Testers, req \in Requests :
                   process_request_uninitialized(src, req)
    BY <2>2, <2>8
    DEF PeersComeAndGo, vars, sessionVars, serviceVars, SM!Holder,
        process_request_uninitialized
  <2> QED  BY <2>3, <2>4, <2>5, <2>6, <2>7, <2>8 DEF Next
<1>3. QED  BY <1>1, <1>2, JobInvariant, ComponentsInv, PTL DEF Spec

(* A certificate routine is carried out in the programming session that    *)
(* the S3 check of its request found in time, and for no other holder.     *)
THEOREM ServiceCertificateInSession == Spec => CertificateWorkInSession
<1> DEFINE Kept == /\ session.session_type = "PROGRAMMING"
                   /\ job.found = [holder  |-> session.source_address,
                                   type    |-> "PROGRAMMING",
                                   in_time |-> TRUE]
           Step == response'.work \in CertificateRoutines /\ job.phase = "checked"
                      => Kept
<1>1. /\ JobInv /\ ResponseInv /\ FoundInv /\ [Next]_vars
      => [Step]_vars
  <2> SUFFICES ASSUME JobInv, ResponseInv, FoundInv, Next,
                      response'.work \in CertificateRoutines,
                      job.phase = "checked"
               PROVE  Kept
    OBVIOUS
  <2>1. response'.work \in ProtectedWork
    BY DEF ProtectedWork, Routines, CertificateRoutines
  <2>2. response.work \notin CertificateRoutines
    BY DEF ResponseInv, CertificateRoutines
  <2>3. PICK outcome \in Outcomes : serve(outcome)
    BY <2>1, <2>2
    DEF Next, initialize, initialize_fails, shutdown, set_sec, set_transport,
        process_request, process_pending_requests, Tick, activate,
        receive_request, receive_nothing, PeersComeAndGo, Free,
        process_request_uninitialized, Activating, NoResponse, ProtectedWork,
        Routines, CertificateRoutines
  <2>4. Serving
    BY JobPhases
  <2>5. session.session_type = "PROGRAMMING"
    BY <2>1, <2>3, <2>4, ProtectedWorkPassed DEF serve, Serving
  <2>6. SM!Holder = session.source_address
    BY <2>5 DEF SM!Holder
  <2> QED  BY <2>5, <2>6 DEF FoundInv
<1>2. QED
  BY <1>1, JobInvariant, ResponseInvariant, FoundInvariant, PTL
  DEF Spec, CertificateWorkInSession

-----------------------------------------------------------------------------
(* A service that is not initialised has no session and no unlocked level. *)
THEOREM ServiceStartsClean == Spec => []NothingSurvivesShutdown
<1> DEFINE Clean == ~initialized => /\ session.session_type = "DEFAULT"
                                    /\ states = SA!NewStates
<1>1. Init => Clean
  BY DEF Init, SM!Init, SM!NewSession, SA!Init
<1>2. JobInv /\ Clean /\ [Next]_vars => Clean'
  <2> SUFFICES ASSUME JobInv, Clean, [Next]_vars PROVE Clean'
    OBVIOUS
  <2>1. CASE initialized'
    BY <2>1
  <2>2. CASE \/ shutdown \/ initialize_fails \/ set_sec \/ set_transport
    <3>1. CASE shutdown
      BY <3>1 DEF shutdown, SM!release_session, SM!Released, SA!reset
    <3>2. CASE initialize_fails
      <4>1. SM!NewSession.session_type = "DEFAULT"
        BY DEF SM!NewSession
      <4>2. QED
        BY <3>2, <4>1
        DEF initialize_fails, SM!construct, SA!reset, securityVars, serviceVars
    <3>3. CASE set_sec
      BY <3>3 DEF set_sec, SA!reset, sessionVars, serviceVars
    <3>4. CASE set_transport
      BY <3>4 DEF set_transport, sessionVars, securityVars
    <3>5. QED  BY <2>2, <3>1, <3>2, <3>3, <3>4
  <2>3. CASE Tick
    <3>1. SM!Aged(session).session_type = session.session_type
      BY DEF SM!Aged
    <3>2. SA!Elapsed(SA!NewStates) = SA!NewStates
      <4>1. [SA!NewState EXCEPT !.lock_left = 0] = SA!NewState
        BY DEF SA!NewState
      <4>2. ASSUME NEW l \in SA!Levels
            PROVE  [SA!NewStates[l] EXCEPT !.lock_left =
                       IF SA!NewStates[l].lock_left > 0
                       THEN SA!NewStates[l].lock_left - 1 ELSE 0] = SA!NewState
        <5>1. SA!NewStates[l] = SA!NewState /\ SA!NewState.lock_left = 0
          BY DEF SA!NewStates, SA!NewState
        <5>2. QED  BY <4>1, <5>1
      <4>3. QED  BY <4>2 DEF SA!Elapsed, SA!NewStates
    <3>3. QED
      BY <2>3, <3>1, <3>2 DEF Tick, SM!Tick, SA!Tick, serviceVars
  <2>4. CASE session' = session /\ states' = states /\ initialized' = initialized
    BY <2>4
  <2>5. CASE PeersComeAndGo
    BY <2>4, <2>5
    DEF PeersComeAndGo, sessionVars, securityVars, serviceVars,
        SA!SecComesAndGoes
  <2>6. ASSUME NEW src \in Testers, NEW req \in Requests,
               process_request_uninitialized(src, req)
        PROVE  Clean'
    BY <2>4, <2>6
    DEF process_request_uninitialized, sessionVars, securityVars, serviceVars
  <2>7. CASE UNCHANGED vars
    BY <2>4, <2>7 DEF vars, sessionVars, securityVars, serviceVars
  <2>8. CASE \/ initialize \/ process_pending_requests \/ receive_nothing
             \/ activate
             \/ \E src \in Testers, req \in Requests : process_request(src, req)
             \/ \E req \in Requests : receive_request(req)
             \/ \E outcome \in Outcomes : serve(outcome)
    <3>1. initialized'
      BY <2>8, JobPhases
      DEF initialize, process_pending_requests, receive_nothing, activate,
          process_request, receive_request, serve, JobInv, NoJob, Activating
    <3>2. QED  BY <2>1, <3>1
  <2>9. QED
    BY <2>2, <2>3, <2>5, <2>6, <2>7, <2>8 DEF Next
<1>3. Clean => NothingSurvivesShutdown
  BY DEF NothingSurvivesShutdown, SM!Holder, SA!NewStates
<1>4. QED  BY <1>1, <1>2, <1>3, JobInvariant, PTL DEF Spec

-----------------------------------------------------------------------------
(* The types of the service are those of its session, its levels and the   *)
(* request it serves.                                                      *)
THEOREM ServiceTypeOK == Spec => []TypeOK
<1> DEFINE Flags == prov_up \in BOOLEAN /\ initialized \in BOOLEAN
<1>1. Init => Flags
  BY DEF Init
<1>2. Flags /\ [Next]_vars => Flags'
  BY DEF Next, vars, serviceVars, initialize, initialize_fails, shutdown,
         set_sec, set_transport, process_request,
         process_request_uninitialized, process_pending_requests, activate,
         receive_request, receive_nothing, serve, PeersComeAndGo, Tick
<1>3. SMP!SessionInv => SM!TypeOK
  BY Zenon DEF SMP!SessionInv, SMP!TypeOK, SM!TypeOK, SMP!SessionTypes,
               SM!SessionTypes, SMP!SilenceCap, SM!SilenceCap
<1>4. Spec => []SAP!TypeOK
  <2>1. SAP!Spec => []SAP!TypeOK
    BY SecurityAssumptionHolds, SAP!SecurityTypeOK
  <2> QED  BY <2>1, ServiceRunsSecurity, PTL
<1>5. SAP!TypeOK => SA!TypeOK
  BY Zenon DEF SAP!TypeOK, SA!TypeOK, SAP!Levels, SA!Levels
<1>6. JobInv /\ FoundInv =>
        /\ wire \in WireTesters \cup {Nobody}
        /\ \/ job \in {NoJob, Activating}
           \/ job \in [phase : {"receiving"}, found : Findings]
           \/ job \in [phase : {"checked"}, path : {"call", "wire"},
                       who : Testers \cup WireTesters,
                       src : Testers \cup {WireAddress}, req : Requests,
                       found : Findings]
  BY DEF JobInv, Serving, FoundInv
<1>7. Flags /\ SM!TypeOK /\ SA!TypeOK /\ JobInv /\ FoundInv => TypeOK
  BY <1>6 DEF TypeOK
<1> QED  BY <1>1, <1>2, <1>3, <1>4, <1>5, <1>7, JobInvariant, FoundInvariant,
            ComponentsInv, PTL
         DEF Spec

(* A tester that is told SEC is not available still has its attempts, and  *)
(* the seed it was given: neither request_seed nor send_key has touched    *)
(* its level.                                                              *)
THEOREM ServiceUnavailableCostsNothing == Spec => UnavailableCostsNothing
<1> DEFINE Told == /\ response'.sid = "SECURITY_ACCESS"
                   /\ response'.nrc = "CONDITIONS_NOT_CORRECT"
<1>1. ASSUME NEW who, NEW src, NEW req \in Requests, NEW outcome,
             dispatch(who, src, req, outcome), Told
      PROVE  UNCHANGED states
  <2>1. ASSUME NEW nrc, NEW work, Respond(who, req, nrc, work)
        PROVE  /\ req.sid = "SECURITY_ACCESS"
               /\ nrc = "CONDITIONS_NOT_CORRECT"
    BY <1>1, <2>1 DEF Respond
  <2>2. req.sid = "SECURITY_ACCESS" => handle_security_access(who, req, outcome)
    BY <1>1 DEF dispatch
  <2>3. CASE handle_security_access(who, req, outcome)
    <3>1. CASE Reject(who, req, "SUB_FUNCTION_NOT_SUPPORTED")
      BY <3>1 DEF Reject, securityVars
    <3>2. CASE /\ SA!request_seed(req.sub, outcome = "ok")
               /\ reply'.code = "SEC_UNAVAILABLE"
      BY <3>2 DEF SA!request_seed, SA!Seeded, SA!Returns
    <3>3. CASE /\ SA!send_key(req.sub, Verdict(outcome))
               /\ reply'.code = "SEC_UNAVAILABLE"
      <4>1. ~sec_up
        BY <3>3 DEF SA!send_key, SA!KeyCode, SA!Returns
      <4> QED  BY <3>3, <4>1 DEF SA!send_key, SA!Keyed, SA!KeyIsTried
    <3>4. ASSUME Respond(who, req,
                     CASE reply'.code = "SUCCESS" -> "POSITIVE"
                       [] reply'.code = "SEC_UNAVAILABLE" ->
                             "CONDITIONS_NOT_CORRECT"
                       [] OTHER -> "SECURITY_ACCESS_DENIED",
                     "none")
          PROVE  reply'.code = "SEC_UNAVAILABLE"
      BY <2>1, <3>4
    <3>5. ASSUME Respond(who, req,
                     CASE reply'.code = "SUCCESS" -> "POSITIVE"
                       [] reply'.code = "SEC_UNAVAILABLE" ->
                             "CONDITIONS_NOT_CORRECT"
                       [] OTHER -> "INVALID_KEY",
                     "none")
          PROVE  reply'.code = "SEC_UNAVAILABLE"
      BY <2>1, <3>5
    <3> QED  BY <2>3, <3>1, <3>2, <3>3, <3>4, <3>5 DEF handle_security_access
  <2>4. CASE req.sid # "SECURITY_ACCESS"
    BY <1>1, <2>1, <2>4
    DEF dispatch, handle_session_control, handle_tester_present, securityVars,
        handle_routine_control, handle_read_data_by_identifier, Reject
  <2> QED  BY <2>2, <2>3, <2>4
<1>2. JobInv /\ [Next]_vars => [Told => UNCHANGED states]_vars
  <2> SUFFICES ASSUME JobInv, Next, Told PROVE UNCHANGED states
    OBVIOUS
  <2>1. response' # NoResponse
    BY DEF NoResponse
  <2>2. ASSUME NEW outcome \in Outcomes, serve(outcome)
        PROVE  UNCHANGED states
    <3>1. job.req \in Requests
      BY <2>2, JobPhases DEF serve, Serving
    <3> QED  BY <1>1, <2>2, <3>1 DEF serve
  <2>3. CASE PeersComeAndGo
    BY <2>3 DEF PeersComeAndGo, SA!SecComesAndGoes, securityVars
  <2> QED
    BY <2>1, <2>2, <2>3
    DEF Next, initialize, initialize_fails, shutdown, set_sec, set_transport,
        process_request, process_request_uninitialized, securityVars,
        process_pending_requests, Tick, activate, receive_request,
        receive_nothing
<1> QED  BY <1>2, JobInvariant, PTL DEF Spec, UnavailableCostsNothing

=============================================================================
