---------------------------- MODULE DiagIpcServer ----------------------------
(***************************************************************************)
(* The life of the process (src/main.cpp) and the queries that other       *)
(* processes send it meanwhile: each client's connection has a thread of   *)
(* the framework's server, which calls the dispatcher of                   *)
(* src/diag_ipc_dispatcher.cpp, which reads the service under mutex_.      *)
(* The status takes the mutex twice.                                       *)
(*                                                                         *)
(* The framework's server is not in the repository: its stop waits for the *)
(* threads to come back from the dispatcher, as diag_service.cpp:306 says, *)
(* and lets no request begin meanwhile.                                    *)
(***************************************************************************)
EXTENDS Naturals

CONSTANTS Clients,   \* connections to the server
          Main,      \* the main thread
          None       \* not a thread

ASSUME ServerAssumption == Main \notin Clients /\ None \notin Clients /\ Main # None

VARIABLES initialized,  \* initialized_
          server,       \* fw_ipc_server_: "none", "running" or in "stop"
          dispatcher,   \* ipc_dispatcher_ exists
          owner,        \* of mutex_
          main,         \* where the main thread is
          g_running,    \* no signal has come
          thread        \* where the thread of each connection is

vars == <<initialized, server, dispatcher, owner, main, g_running, thread>>

Methods == {"GET_SERVICE_STATUS", "GET_VEHICLE_INFO", "IS_TESTER_CONNECTED"}

(* seen is what is_initialized has returned.                               *)
Away == [at |-> "away", method |-> "none", seen |-> FALSE]

Init == /\ initialized = FALSE
        /\ server = "none"
        /\ dispatcher = FALSE
        /\ owner = None
        /\ main = "begin"
        /\ g_running = TRUE
        /\ thread = [c \in Clients |-> Away]

-----------------------------------------------------------------------------
(* The main thread.  A step that fails ends the process.                   *)

initialize ==
    /\ main = "begin"
    /\ owner = None
    /\ \/ initialized' = TRUE /\ main' = "initialized"
       \/ main' = "exited" /\ UNCHANGED initialized
    /\ UNCHANGED <<server, dispatcher, owner, g_running, thread>>

start_ipc_server ==
    /\ main = "initialized"
    /\ \/ dispatcher' = TRUE /\ server' = "running" /\ main' = "loop"
       \/ main' = "exited" /\ UNCHANGED <<server, dispatcher>>
    /\ UNCHANGED <<initialized, owner, g_running, thread>>

signal_handler ==
    /\ g_running' = FALSE
    /\ UNCHANGED <<initialized, server, dispatcher, owner, main, thread>>

(* One round of the loop holds the mutex from its start to its end.        *)
process_pending_requests ==
    /\ main = "loop"
    /\ g_running
    /\ owner = None
    /\ owner' = Main
    /\ main' = "round"
    /\ UNCHANGED <<initialized, server, dispatcher, g_running, thread>>

round_over ==
    /\ main = "round"
    /\ owner' = None
    /\ main' = "loop"
    /\ UNCHANGED <<initialized, server, dispatcher, g_running, thread>>

StopHoldsMutex ==
    /\ main = "loop"
    /\ ~g_running
    /\ owner = None
    /\ owner' = Main
    /\ server' = "stop"
    /\ main' = "stopping"
    /\ UNCHANGED <<initialized, dispatcher, g_running, thread>>

StopDestroysFirst ==
    /\ main = "loop"
    /\ ~g_running
    /\ server' = "stop"
    /\ dispatcher' = FALSE
    /\ main' = "stopping"
    /\ UNCHANGED <<initialized, owner, g_running, thread>>

(* Server::stop is called without the mutex.                               *)
stop_ipc_server ==
    /\ main = "loop"
    /\ ~g_running
    /\ server' = "stop"
    /\ main' = "stopping"
    /\ UNCHANGED <<initialized, dispatcher, owner, g_running, thread>>

ServerStoppedAtOnce ==
    /\ main = "stopping"
    /\ server' = "none"
    /\ dispatcher' = FALSE
    /\ main' = "stopped"
    /\ UNCHANGED <<initialized, owner, g_running, thread>>

(* The threads are back: server and dispatcher are destroyed.              *)
ipc_server_stopped ==
    /\ main = "stopping"
    /\ \A c \in Clients : thread[c] = Away
    /\ server' = "none"
    /\ dispatcher' = FALSE
    /\ main' = "stopped"
    /\ UNCHANGED <<initialized, owner, g_running, thread>>

(* shutdown stops the server, which is stopped, and takes the mutex.       *)
shutdown ==
    /\ main = "stopped"
    /\ owner = None
    /\ initialized' = FALSE
    /\ main' = "exited"
    /\ UNCHANGED <<server, dispatcher, owner, g_running, thread>>

-----------------------------------------------------------------------------
(* The thread of a client's connection.                                    *)

At(c, place) == thread[c].at = place

Goes(c, place) == thread' = [thread EXCEPT ![c].at = place]

dispatch(c, method) ==
    /\ server = "running"
    /\ thread[c] = Away
    /\ thread' = [thread EXCEPT ![c] = [at |-> "called", method |-> method,
                                        seen |-> FALSE]]
    /\ UNCHANGED <<initialized, server, dispatcher, owner, main, g_running>>

(* is_initialized, under the mutex; get_current_session comes later, under *)
(* the mutex again.                                                        *)
is_initialized(c) ==
    /\ At(c, "called") /\ thread[c].method = "GET_SERVICE_STATUS"
    /\ owner = None
    /\ thread' = [thread EXCEPT ![c].at = "between", ![c].seen = initialized]
    /\ UNCHANGED <<initialized, server, dispatcher, owner, main, g_running>>

get_current_session(c) ==
    /\ At(c, "between")
    /\ owner = None
    /\ Goes(c, "answered")
    /\ UNCHANGED <<initialized, server, dispatcher, owner, main, g_running>>

is_tester_connected(c) ==
    /\ At(c, "called") /\ thread[c].method = "IS_TESTER_CONNECTED"
    /\ owner = None
    /\ Goes(c, "answered")
    /\ UNCHANGED <<initialized, server, dispatcher, owner, main, g_running>>

(* PROV is asked for the VIN while the mutex is held.                      *)
get_vehicle_info(c) ==
    /\ At(c, "called") /\ thread[c].method = "GET_VEHICLE_INFO"
    /\ owner = None
    /\ owner' = c
    /\ Goes(c, "asking")
    /\ UNCHANGED <<initialized, server, dispatcher, main, g_running>>

vehicle_info(c) ==
    /\ At(c, "asking")
    /\ owner' = None
    /\ Goes(c, "answered")
    /\ UNCHANGED <<initialized, server, dispatcher, main, g_running>>

(* An unknown method needs nothing of the service.                         *)
unknown_method(c) ==
    /\ server = "running"
    /\ thread[c] = Away
    /\ thread' = [thread EXCEPT ![c] = [at |-> "answered", method |-> "none",
                                        seen |-> FALSE]]
    /\ UNCHANGED <<initialized, server, dispatcher, owner, main, g_running>>

make_json_response(c) ==
    /\ At(c, "answered")
    /\ thread' = [thread EXCEPT ![c] = Away]
    /\ UNCHANGED <<initialized, server, dispatcher, owner, main, g_running>>

Locks(c) == \/ is_initialized(c) \/ get_current_session(c)
            \/ is_tester_connected(c) \/ get_vehicle_info(c)

Handler(c) == Locks(c) \/ vehicle_info(c) \/ make_json_response(c)

MainStep == \/ initialize \/ start_ipc_server \/ process_pending_requests
            \/ round_over \/ stop_ipc_server \/ ipc_server_stopped \/ shutdown

Next == \/ MainStep
        \/ signal_handler
        \/ \E c \in Clients :
              \/ \E method \in Methods : dispatch(c, method)
              \/ unknown_method(c)
              \/ Handler(c)

Spec == Init /\ [][Next]_vars

-----------------------------------------------------------------------------
(* diag_service.cpp:306-307: no handler is running when the dispatcher is  *)
(* destroyed, nor begins after.                                            *)
DispatcherOutlivesHandlers ==
    \A c \in Clients : thread[c] # Away => dispatcher

(* The two halves of a status answer, read under the mutex one after the   *)
(* other, are the state of one moment: no shutdown comes between them.     *)
StatusIsOneMoment ==
    [][\A c \in Clients : At(c, "between") /\ ~At(c, "between")' =>
          thread[c].seen = initialized]_vars

(* After SIGTERM the process comes to its end, whatever is asked of it.    *)
ShutdownCompletes == ~g_running ~> main = "exited"

=============================================================================
