------------------------------ MODULE DiagClient ------------------------------
(***************************************************************************)
(* src/diag_client.cpp and src/diag_retry_policy.cpp: the library through  *)
(* which other processes query the service, against the server of          *)
(* DiagIpcServer.  Each caller has one DiagClient and calls it from one    *)
(* thread.                                                                 *)
(*                                                                         *)
(* The framework's client is not in the repository: its call connects and  *)
(* tries once more when an attempt fails, its callOnce does not            *)
(* (tests/test_real_prov_reconnect.cpp:6, tests/test_sec_ipc_adapter.cpp:5, *)
(* src/diag_client.cpp:85), and after the last failure it is not connected *)
(* any more.  An attempt fails when its connection is lost or no answer    *)
(* comes in time; a connection that is lost between two calls is only      *)
(* noticed by the next one.  A new connection has a new thread at the      *)
(* server, while that of the old one may still be at work.                 *)
(***************************************************************************)
EXTENDS DiagIpcServer

CONSTANT Callers     \* processes with a DiagClient

ASSUME ClientAssumption == None \notin Callers

VARIABLES caller,    \* where each caller's thread is
          link,      \* its connection: "up", "broken" unnoticed, or "down"
          conn       \* which connection that is, or None

clientVars == <<caller, link, conn>>

allVars == <<vars, clientVars>>

(* left is how many attempts remain, lost how many have been lost, counted *)
(* to 2, and got what the last query has returned.                         *)
Resting == [at |-> "resting", method |-> "none", left |-> 0, lost |-> 0,
            got |-> "none"]

ClientInit == /\ Init
              /\ caller = [k \in Callers |-> Resting]
              /\ link = [k \in Callers |-> "down"]
              /\ conn = [k \in Callers |-> None]

(* Connections that no caller holds and whose thread has gone.             *)
Unused == {c \in Clients : thread[c] = Away /\ \A k \in Callers : conn[k] # c}

is_connected(k) == link[k] # "down"

ShouldRetryMost(method) == method \in Methods \ {"IS_TESTER_CONNECTED"}

(* Every method of the client is of the category kReadOnly.                *)
should_retry(method) == method \in Methods

-----------------------------------------------------------------------------
(* The caller's side.                                                      *)

Connected(k, c) == /\ link' = [link EXCEPT ![k] = "up"]
                   /\ conn' = [conn EXCEPT ![k] = c]

Disconnected(k) == /\ link' = [link EXCEPT ![k] = "down"]
                   /\ conn' = [conn EXCEPT ![k] = None]

Returns(k, result) ==
    caller' = [caller EXCEPT ![k] = [Resting EXCEPT !.got = result]]

connect(k) ==
    /\ caller[k].at = "resting" /\ ~is_connected(k)
    /\ server = "running"
    /\ \E c \in Unused : Connected(k, c)
    /\ UNCHANGED <<vars, caller>>

disconnect(k) ==
    /\ caller[k].at = "resting" /\ is_connected(k)
    /\ Disconnected(k)
    /\ UNCHANGED <<vars, caller>>

query_not_connected(k) ==
    /\ caller[k].at = "resting" /\ ~is_connected(k)
    /\ Returns(k, "NOT_CONNECTED")
    /\ UNCHANGED <<vars, link, conn>>

send_request(k, method) ==
    /\ caller[k].at = "resting" /\ is_connected(k)
    /\ caller' = [caller EXCEPT ![k] =
          [at     |-> "sending",
           method |-> method,
           left   |-> IF should_retry(method) THEN 1 ELSE 0,
           lost   |-> IF link[k] = "broken" THEN 1 ELSE 0,
           got    |-> "none"]]
    /\ UNCHANGED <<vars, link, conn>>

FailedTriesForever(k) ==
    /\ caller[k].at # "resting" /\ link[k] = "broken"
    /\ IF server = "running"
       THEN /\ \E c \in Unused : Connected(k, c)
            /\ caller' = [caller EXCEPT ![k].at = "sending"]
       ELSE Disconnected(k) /\ Returns(k, "CONNECTION_FAILED")
    /\ UNCHANGED vars

(* The attempt has failed.  There is another one if the method allows it   *)
(* and the server can be reached.                                          *)
failed(k) ==
    /\ caller[k].at # "resting" /\ link[k] = "broken"
    /\ IF caller[k].left > 0 /\ server = "running"
       THEN /\ \E c \in Unused : Connected(k, c)
            /\ caller' = [caller EXCEPT ![k].at = "sending", ![k].left = @ - 1]
       ELSE Disconnected(k) /\ Returns(k, "CONNECTION_FAILED")
    /\ UNCHANGED vars

-----------------------------------------------------------------------------
(* Connection and server.                                                  *)

(* The connection is lost, the server closes it, or the answer is too late. *)
Breaks(k) ==
    /\ link[k] = "up"
    /\ link' = [link EXCEPT ![k] = "broken"]
    /\ IF caller[k].at = "resting" \/ caller[k].lost = 2 THEN UNCHANGED caller
       ELSE caller' = [caller EXCEPT ![k].lost = @ + 1]
    /\ UNCHANGED <<vars, conn>>

(* The request comes to the server.                                        *)
Arrives(k) ==
    /\ caller[k].at = "sending" /\ link[k] = "up"
    /\ dispatch(conn[k], caller[k].method)
    /\ caller' = [caller EXCEPT ![k].at = "waiting"]
    /\ UNCHANGED <<link, conn>>

Awaited(c) == {k \in Callers : /\ conn[k] = c /\ link[k] = "up"
                               /\ caller[k].at = "waiting"}

(* The answer comes back to the caller, if it still waits for it.  A VIN   *)
(* that cannot be put into JSON makes it one with an error in its status.  *)
Replies(c) ==
    /\ make_json_response(c)
    /\ IF Awaited(c) = {} THEN UNCHANGED caller
       ELSE \E k \in Awaited(c) :
              \/ Returns(k, "SUCCESS")
              \/ /\ thread[c].method = "GET_VEHICLE_INFO"
                 /\ Returns(k, "SERVICE_ERROR")
    /\ UNCHANGED <<link, conn>>

(* Other processes use the framework's client themselves.                  *)
StrangerAsks(c) ==
    /\ c \in Unused
    /\ unknown_method(c) \/ \E method \in Methods : dispatch(c, method)
    /\ UNCHANGED clientVars

Serves(c) == \/ (Locks(c) \/ vehicle_info(c)) /\ UNCHANGED clientVars
             \/ Replies(c)

Runs == MainStep /\ UNCHANGED clientVars

ClientNext == \/ Runs
              \/ signal_handler /\ UNCHANGED clientVars
              \/ \E c \in Clients : Serves(c) \/ StrangerAsks(c)
              \/ \E k \in Callers :
                    \/ connect(k) \/ disconnect(k) \/ query_not_connected(k)
                    \/ \E method \in Methods : send_request(k, method)
                    \/ failed(k) \/ Breaks(k) \/ Arrives(k)

ClientSpec == ClientInit /\ [][ClientNext]_allVars

(* No thread of the service stops for ever, a round of the loop ends, PROV *)
(* answers or its client gives up, and the loop's sleep between two rounds *)
(* lets those that wait have the mutex.  A caller's thread goes on, what   *)
(* is sent arrives or breaks, and a server that has stopped closes its     *)
(* connections.                                                            *)
FairClientSpec ==
    /\ ClientSpec
    /\ SF_allVars(Runs)
    /\ \A c \in Clients : /\ WF_allVars(Serves(c))
                          /\ SF_allVars(Locks(c) /\ UNCHANGED clientVars)
    /\ \A k \in Callers : /\ SF_allVars(failed(k))
                          /\ WF_allVars(Arrives(k))
                          /\ WF_allVars(server # "running" /\ Breaks(k))

-----------------------------------------------------------------------------
(* diag_client.cpp:77-105: every query returns, whatever becomes of its    *)
(* connections and of the service meanwhile.                               *)
QueriesReturn ==
    \A k \in Callers : caller[k].at # "resting" ~> caller[k].at = "resting"

(* diag_retry_policy.cpp: "read-only, idempotent: one retry allowed".  As  *)
(* long as the service runs, the loss of one connection, in a query or     *)
(* since the last one, does not make the query fail.                       *)
OneLossIsHidden ==
    [][\A k \in Callers :
          caller[k].at # "resting" /\ caller'[k].got = "CONNECTION_FAILED" =>
              caller[k].lost = 2 \/ server # "running"]_allVars

=============================================================================
