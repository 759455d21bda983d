----------------------------- MODULE DiagService -----------------------------
(***************************************************************************)
(* src/diag_service.cpp: the service that serves requests.  Two            *)
(* threads of control reach the dispatcher, both under mutex_: the main    *)
(* loop, which polls the transport (process_pending_requests), and callers *)
(* of process_request in the same process.  The mutex is held from the S3  *)
(* check to the response, so job, the request being served, is also the    *)
(* mutex: it is free when job.phase is "none".                             *)
(*                                                                         *)
(* The wire is one tester's connection.  A request from it reaches the     *)
(* dispatcher with the source address 0, whoever sent it: the decoder does *)
(* not fill source_address and process_pending_requests does not either.   *)
(***************************************************************************)
EXTENDS ServiceDispatcher

CONSTANTS WireTesters,   \* testers that connect over the wire
          Nobody         \* no tester is connected

(* The wire's address is one of the addresses requests come from.          *)
ASSUME ServiceAssumption == /\ 0 \in Testers
                            /\ Nobody \notin WireTesters

VARIABLES initialized,   \* initialized_
          wire,          \* the tester transport_ is connected to, or Nobody
          job            \* the request being served under mutex_

serviceVars == <<initialized, wire, job>>

vars == <<sessionVars, securityVars, prov_up, response, serviceVars>>

WireAddress == 0

NoJob == [phase |-> "none"]
Activating == [phase |-> "activating"]

(* History: the session that an S3 check leaves, and whether its tester    *)
(* was heard in time.  Each job carries what the check before it found.    *)
Found == [holder  |-> SM!Holder,
          type    |-> session.session_type,
          in_time |-> SM!Holder # SM!NoTester => quiet[SM!Holder] <= S3_DEFAULT]

Receiving(found) == [phase |-> "receiving", found |-> found]

NoResponse == [to |-> Nobody, sid |-> "none", nrc |-> "none", work |-> "none"]

Free == job.phase = "none"

Init == /\ SM!Init
        /\ SA!Init
        /\ prov_up = TRUE
        /\ response = NoResponse
        /\ initialized = FALSE
        /\ wire = Nobody
        /\ job = NoJob

-----------------------------------------------------------------------------
(* A second initialize finds the service initialised and changes nothing.  *)
initialize ==
    /\ Free
    /\ ~initialized
    /\ initialized' = TRUE
    /\ SM!construct
    /\ SA!reset
    /\ response' = NoResponse
    /\ UNCHANGED <<prov_up, wire, job>>

(* Without a configuration nothing is set up; without SEC the session      *)
(* manager is, without PROV the security access is, too.                   *)
initialize_fails ==
    /\ Free
    /\ ~initialized
    /\ SM!construct
    /\ SA!reset \/ UNCHANGED securityVars
    /\ response' = NoResponse
    /\ UNCHANGED <<prov_up, serviceVars>>

(* The caller gets the mutex; an overdue session ends before its request   *)
(* is looked at.                                                           *)
ProcessRequestUnchecked(src, req) ==
    /\ Free
    /\ initialized
    /\ job' = [phase |-> "checked", path |-> "call", who |-> src, src |-> src,
               req |-> req, found |-> Found]
    /\ response' = NoResponse
    /\ UNCHANGED <<sessionVars, securityVars, prov_up, initialized, wire>>

process_request(src, req) ==
    /\ Free
    /\ initialized
    /\ SM!check_s3_timeout
    /\ job' = [phase |-> "checked", path |-> "call", who |-> src, src |-> src,
               req |-> req, found |-> Found']
    /\ response' = NoResponse
    /\ UNCHANGED <<securityVars, prov_up, initialized, wire>>

process_request_uninitialized(src, req) ==
    /\ Free
    /\ ~initialized
    /\ Respond(src, req, "CONDITIONS_NOT_CORRECT", "none")
    /\ UNCHANGED <<sessionVars, securityVars, prov_up, serviceVars>>

(* One round of the main loop.  Without a transport it is over at once.    *)
(* Without a connection it waits accept_timeout_ms for one, and if one     *)
(* comes starts to read its routing activation; with one, it finds nothing *)
(* to read or starts to read a frame.  Until recv has read what it waits   *)
(* for, the mutex is held.                                                 *)
process_pending_requests ==
    /\ Free
    /\ initialized
    /\ SM!check_s3_timeout
    /\ response' = NoResponse
    /\ job' \in {NoJob,
                 IF wire = Nobody THEN Activating ELSE Receiving(Found')}
    /\ UNCHANGED <<securityVars, prov_up, initialized, wire>>

(* The tester activates its route, or the handshake fails.                 *)
activate ==
    /\ job = Activating
    /\ job' = NoJob
    /\ wire' \in WireTesters \cup {Nobody}
    /\ UNCHANGED <<sessionVars, securityVars, prov_up, response, initialized>>

receive_request(req) ==
    /\ job.phase = "receiving"
    /\ job' = [phase |-> "checked", path |-> "wire", who |-> wire,
               src |-> WireAddress, req |-> req, found |-> job.found]
    /\ UNCHANGED <<sessionVars, securityVars, prov_up, response, initialized,
                   wire>>

(* The frame is no request (receive or decode returns nothing), or the     *)
(* connection is gone.  The session is not told of either.                 *)
receive_nothing ==
    /\ job.phase = "receiving"
    /\ job' = NoJob
    /\ wire' \in {wire, Nobody}
    /\ UNCHANGED <<sessionVars, securityVars, prov_up, response,
                   initialized>>

(* The request is served and the mutex released.  A response the transport *)
(* fails to send is logged, and nothing is undone.                         *)
serve(outcome) ==
    /\ job.phase = "checked"
    /\ dispatch(job.who, job.src, job.req, outcome)
    /\ job' = NoJob
    /\ UNCHANGED <<prov_up, initialized, wire>>

ShutdownKeepsLevels ==
    /\ Free
    /\ SM!release_session
    /\ wire' = Nobody
    /\ initialized' = FALSE
    /\ response' = NoResponse
    /\ UNCHANGED <<securityVars, prov_up, job>>

shutdown ==
    /\ Free
    /\ SM!release_session
    /\ SA!reset
    /\ wire' = Nobody
    /\ initialized' = FALSE
    /\ response' = NoResponse
    /\ UNCHANGED <<prov_up, job>>

(* Another SEC client comes with a new SecurityAccess; another transport   *)
(* starts without a tester, and the session does not notice.               *)
set_sec ==
    /\ Free
    /\ SA!reset
    /\ response' = NoResponse
    /\ UNCHANGED <<sessionVars, prov_up, serviceVars>>

set_transport ==
    /\ Free
    /\ wire' = Nobody
    /\ response' = NoResponse
    /\ UNCHANGED <<sessionVars, securityVars, prov_up, initialized, job>>

(* The connections to SEC and PROV come and go.                            *)
PeersComeAndGo ==
    /\ \/ SA!SecComesAndGoes /\ UNCHANGED prov_up
       \/ prov_up' = ~prov_up /\ UNCHANGED securityVars
    /\ UNCHANGED <<sessionVars, response, serviceVars>>

(* Time passes in every phase of a job: recv waits for a tester, and       *)
(* between the S3 check and the response a request may wait for            *)
(* connect_mutex_, for a reconnect (connect_timeout_ms) and for the answer *)
(* of SEC or PROV (receive_timeout_ms), each long against S3_DEFAULT.      *)
Tick ==
    /\ SM!Tick
    /\ SA!Tick
    /\ response' = NoResponse
    /\ UNCHANGED <<prov_up, serviceVars>>

Next == \/ initialize
        \/ initialize_fails
        \/ shutdown
        \/ set_sec
        \/ set_transport
        \/ \E src \in Testers, req \in Requests :
              process_request(src, req) \/ process_request_uninitialized(src, req)
        \/ process_pending_requests
        \/ activate
        \/ \E req \in Requests : receive_request(req)
        \/ receive_nothing
        \/ \E outcome \in Outcomes : serve(outcome)
        \/ PeersComeAndGo
        \/ Tick

Spec == Init /\ [][Next]_vars

(* The service's own threads keep running, and get the mutex whenever it   *)
(* is free often enough; time does not stop.  Nothing is assumed of the    *)
(* testers.                                                                *)
FairSpec == /\ Spec
            /\ SF_vars(process_pending_requests)
            /\ WF_vars(\E outcome \in Outcomes : serve(outcome))
            /\ WF_vars(Tick)

(* Testers that send the frames they begin.                                *)
TalkingSpec == /\ FairSpec
               /\ WF_vars(activate)
               /\ WF_vars(receive_nothing \/ \E req \in Requests : receive_request(req))

-----------------------------------------------------------------------------
Findings == [holder : Testers \cup {SM!NoTester}, type : SM!SessionTypes,
             in_time : BOOLEAN]

TypeOK ==
    /\ SM!TypeOK
    /\ SA!TypeOK
    /\ prov_up \in BOOLEAN
    /\ initialized \in BOOLEAN
    /\ wire \in WireTesters \cup {Nobody}
    /\ \/ job \in {NoJob, Activating}
       \/ job \in [phase : {"receiving"}, found : Findings]
       \/ job \in [phase : {"checked"}, path : {"call", "wire"},
                   who : Testers \cup WireTesters,
                   src : Testers \cup {WireAddress}, req : Requests,
                   found : Findings]

ProtectedWork == Routines \ {"UNKNOWN"}

(* No routine reaches PROV or SEC unless SEC itself accepted the key for   *)
(* the last seed it issued, and nothing has locked the level since.        *)
RoutinesNeedAcceptedKey ==
    [][response'.work \in ProtectedWork =>
          judged[LEVEL_1] = "accepted" /\ initialized]_vars

(* A certificate routine reaches SEC in the programming session that the   *)
(* S3 check of its own request found, held by the same tester, which had   *)
(* been heard in time then.  However long the request took from there, in  *)
(* recv or in reconnects, nobody has opened, taken or left the session in  *)
(* between.  (That the tester is still in time is not promised.)           *)
CertificateWorkInSession ==
    [][response'.work \in CertificateRoutines /\ job.phase = "checked" =>
          /\ session.session_type = "PROGRAMMING"
          /\ job.found = [holder  |-> session.source_address,
                          type    |-> "PROGRAMMING",
                          in_time |-> TRUE]]_vars

(* A tester that is told SEC is not available has not spent an attempt nor *)
(* its seed.                                                               *)
UnavailableCostsNothing ==
    [][/\ response'.sid = "SECURITY_ACCESS"
       /\ response'.nrc = "CONDITIONS_NOT_CORRECT"
       => UNCHANGED states]_vars

(* A service that is not initialised has no session and no unlocked level: *)
(* nothing of the last run is left to the next.                            *)
NothingSurvivesShutdown ==
    ~initialized => /\ SM!Holder = SM!NoTester
                    /\ \A l \in SA!Levels : states[l] = SA!NewState

(* The session of a silent tester ends, or the tester is heard again.      *)
SilentSessionEnds ==
    \A t \in Testers :
        (SM!Holder = t /\ quiet[t] > 0) ~> (SM!Holder # t \/ quiet[t] = 0)

=============================================================================
