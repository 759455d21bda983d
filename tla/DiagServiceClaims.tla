-------------------------- MODULE DiagServiceClaims --------------------------
(***************************************************************************)
(* What the documents, the comments and the shipped configuration say of   *)
(* the service, as properties of DiagService.  opener watches the service: *)
(* it remembers which tester, not which address, opened the session.       *)
(***************************************************************************)
EXTENDS MCDiagService

VARIABLE opener   \* who opened the non-default session, or Nobody

claimVars == <<vars, opener>>

ClaimsInit == Init /\ opener = Nobody

ClaimsNext ==
    /\ Next
    /\ opener' = CASE SM!Holder' = SM!NoTester -> Nobody
                   [] SM!Holder = SM!NoTester /\ SM!Holder' # SM!NoTester -> job.who
                   [] OTHER -> opener

ClaimsSpec == ClaimsInit /\ [][ClaimsNext]_claimVars

-----------------------------------------------------------------------------
Granted(sid) == /\ job.phase = "checked"
                /\ response'.sid = sid
                /\ response'.nrc = "POSITIVE"

(* src/session_manager.cpp:62: "Reset security when switching to           *)
(* default".                                                               *)
SwitchToDefaultResetsSecurity ==
    [][Granted("SESSION_CONTROL") /\ job.req.type = "DEFAULT" =>
          ~SA!Unlocked(states', LEVEL_1)]_claimVars

(* README.md:9: the session manager keeps all testers but one out of a     *)
(* session.  Requests about it are granted to the one that opened it.      *)
SingleTester ==
    [][/\ Granted("SESSION_CONTROL") \/ Granted("TESTER_PRESENT")
       /\ opener \in WireTesters
       /\ job.path = "wire"
       => job.who = opener]_claimVars

=============================================================================
