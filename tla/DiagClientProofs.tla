--------------------------- MODULE DiagClientProofs ---------------------------
(***************************************************************************)
(* Theorems about the IPC server and its clients.  For any number of       *)
(* clients no handler runs without its dispatcher, and a status answer is  *)
(* the state of one moment: both follow from where the main thread is      *)
(* while a handler runs.  The clients of DiagClient use the server as      *)
(* DiagIpcServer specifies it, which carries that over to the composition, *)
(* and the loss of one connection is hidden from the caller.               *)
(***************************************************************************)
EXTENDS DiagClient, TLAPS

-----------------------------------------------------------------------------
(* The server (DiagIpcServer).                                             *)
Threads == [at : {"away", "called", "between", "asking", "answered"},
            method : Methods \cup {"none"},
            seen : BOOLEAN]

ThreadsTyped == thread \in [Clients -> Threads]

(* The server takes requests while the main thread is in its loop.         *)
ServesInLoop == server = "running" => main \in {"loop", "round"}

(* From the start of the loop to the end of stop the service is            *)
(* initialised and the dispatcher exists.                                  *)
Serving == {"loop", "round", "stopping"}

ServingIsReady == main \in Serving => initialized = TRUE /\ dispatcher = TRUE

InitializedBefore == main = "initialized" => initialized = TRUE

(* A handler runs only then, and what it has seen is so.                   *)
HandlersInTime ==
    \A c \in Clients : /\ thread[c] # Away => main \in Serving
                       /\ At(c, "between") => thread[c].seen = TRUE

IInv == /\ ThreadsTyped /\ ServesInLoop /\ ServingIsReady
        /\ InitializedBefore /\ HandlersInTime

-----------------------------------------------------------------------------
(* Every step keeps the threads in their places: main.cpp's order of       *)
(* start, stop and shutdown is what the invariant is about.                *)
THEOREM ServerInvariant == Spec => []IInv
<1>1. Init => IInv
  BY DEF Init, IInv, ThreadsTyped, Threads, Away, ServesInLoop,
         ServingIsReady, Serving, InitializedBefore, HandlersInTime, At
<1>2. IInv /\ [Next]_vars => IInv'
  <2> SUFFICES ASSUME IInv, [Next]_vars PROVE IInv'
    OBVIOUS
  <2> USE DEF IInv, ThreadsTyped, ServesInLoop, ServingIsReady, Serving,
              InitializedBefore, HandlersInTime, At
  <2>1. CASE initialize
    BY <2>1 DEF initialize
  <2>2. CASE start_ipc_server
    BY <2>2 DEF start_ipc_server
  <2>3. CASE signal_handler
    BY <2>3 DEF signal_handler
  <2>4. CASE process_pending_requests
    BY <2>4 DEF process_pending_requests
  <2>5. CASE round_over
    BY <2>5 DEF round_over
  <2>6. CASE stop_ipc_server
    BY <2>6 DEF stop_ipc_server
  <2>7. CASE ipc_server_stopped
    BY <2>7 DEF ipc_server_stopped
  <2>8. CASE shutdown
    BY <2>8 DEF shutdown
  <2>9. ASSUME NEW c \in Clients, NEW method \in Methods, dispatch(c, method)
        PROVE  IInv'
    BY <2>9 DEF dispatch, Threads, Away
  <2>10. ASSUME NEW c \in Clients, unknown_method(c) PROVE IInv'
    BY <2>10 DEF unknown_method, Threads, Away
  <2>11. ASSUME NEW c \in Clients, Handler(c) PROVE IInv'
    <3>1. CASE is_initialized(c)
      <4>1. thread[c] # Away
        BY <3>1 DEF is_initialized, Away
      <4>2. initialized = TRUE
        BY <4>1
      <4>3. /\ UNCHANGED <<initialized, server, dispatcher, main>>
            /\ thread' = [thread EXCEPT ![c].at = "between", ![c].seen = TRUE]
        BY <3>1, <4>2 DEF is_initialized
      <4>4. ThreadsTyped'
        BY <4>3 DEF Threads
      <4>5. HandlersInTime'
        <5>1. thread'[c].seen = TRUE
          BY <4>3 DEF Threads
        <5>2. \A d \in Clients : d # c => thread'[d] = thread[d]
          BY <4>3
        <5> QED BY <4>1, <4>3, <5>1, <5>2
      <4> QED BY <4>3, <4>4, <4>5
    <3>2. CASE get_current_session(c)
      BY <3>2 DEF get_current_session, Goes, Threads, Away
    <3>3. CASE is_tester_connected(c)
      BY <3>3 DEF is_tester_connected, Goes, Threads, Away
    <3>4. CASE get_vehicle_info(c)
      BY <3>4 DEF get_vehicle_info, Goes, Threads, Away
    <3>5. CASE vehicle_info(c)
      BY <3>5 DEF vehicle_info, Goes, Threads, Away
    <3>6. CASE make_json_response(c)
      BY <3>6 DEF make_json_response, Threads, Away
    <3> QED BY <2>11, <3>1, <3>2, <3>3, <3>4, <3>5, <3>6 DEF Handler, Locks
  <2>12. CASE UNCHANGED vars
    BY <2>12 DEF vars
  <2> QED
    BY <2>1, <2>2, <2>3, <2>4, <2>5, <2>6, <2>7, <2>8, <2>9, <2>10, <2>11,
       <2>12 DEF Next, MainStep
<1> QED BY <1>1, <1>2, PTL DEF Spec

(* diag_service.cpp:306-307: the server stops before the dispatcher is     *)
(* destroyed, so no handler of any client runs without it.                 *)
THEOREM ServerDispatcherOutlives == Spec => []DispatcherOutlivesHandlers
<1>1. IInv => DispatcherOutlivesHandlers
  BY DEF IInv, HandlersInTime, ServingIsReady, DispatcherOutlivesHandlers
<1> QED BY <1>1, ServerInvariant, PTL

(* diag_ipc_dispatcher.cpp:130-132: although the mutex is free between the *)
(* two reads of a status, the service is as initialised at the second as   *)
(* it was at the first.                                                    *)
THEOREM ServerStatusOneMoment == Spec => StatusIsOneMoment
<1>1. IInv /\ [Next]_vars =>
        [\A c \in Clients : At(c, "between") /\ ~At(c, "between")' =>
            thread[c].seen = initialized]_vars
  <2> SUFFICES ASSUME IInv, NEW c \in Clients, At(c, "between")
               PROVE  thread[c].seen = initialized
    OBVIOUS
  <2>1. thread[c].seen = TRUE
    BY DEF IInv, HandlersInTime
  <2>2. thread[c] # Away
    BY DEF At, Away
  <2>3. initialized = TRUE
    BY <2>2 DEF IInv, HandlersInTime, ServingIsReady
  <2> QED BY <2>1, <2>3
<1> QED BY <1>1, ServerInvariant, PTL DEF Spec, StatusIsOneMoment

-----------------------------------------------------------------------------
(* The clients (DiagClient).                                               *)
CallerStates == [at     : {"resting", "sending", "waiting"},
                 method : Methods \cup {"none"},
                 left   : {0, 1},
                 lost   : {0, 1, 2},
                 got    : {"none", "SUCCESS", "SERVICE_ERROR",
                           "CONNECTION_FAILED", "NOT_CONNECTED"}]

ClientTypeOK == /\ caller \in [Callers -> CallerStates]
                /\ link \in [Callers -> {"up", "broken", "down"}]
                /\ conn \in [Callers -> Clients \cup {None}]

(* A query is made on a connection of the caller's.                        *)
QueriesOnConnections ==
    \A k \in Callers :
        /\ link[k] # "down" => conn[k] \in Clients
        /\ caller[k].at # "resting" => /\ link[k] # "down"
                                       /\ caller[k].method \in Methods
                                       /\ caller[k].got = "none"

(* An attempt that has been used up was lost, and so was the one on a      *)
(* broken connection.                                                      *)
LossesCounted ==
    \A k \in Callers :
        caller[k].at # "resting" =>
            /\ caller[k].left = 0 \/ link[k] = "broken" => caller[k].lost # 0
            /\ caller[k].left = 0 /\ link[k] = "broken" => caller[k].lost = 2

ClientInv == ClientTypeOK /\ QueriesOnConnections /\ LossesCounted

-----------------------------------------------------------------------------
(* Callers that rest and no connections: the invariant to begin with.      *)
LEMMA ClientInvInit == ClientInit => ClientInv
  BY DEF ClientInit, ClientInv, ClientTypeOK, CallerStates, Resting,
         QueriesOnConnections, LossesCounted

(* The steps of a caller k, one by one, and the answer it gets.            *)
LEMMA ClientInvNext == ClientInv /\ [ClientNext]_allVars => ClientInv'
<1> SUFFICES ASSUME ClientInv, [ClientNext]_allVars PROVE ClientInv'
  OBVIOUS
<1> USE DEF ClientInv, ClientTypeOK, CallerStates, QueriesOnConnections,
            LossesCounted
<1>1. ASSUME UNCHANGED clientVars PROVE ClientInv'
  BY <1>1 DEF clientVars
<1>2. ASSUME NEW k \in Callers, connect(k) PROVE ClientInv'
  BY <1>2 DEF connect, Connected, Unused, is_connected
<1>3. ASSUME NEW k \in Callers, disconnect(k) PROVE ClientInv'
  BY <1>3 DEF disconnect, Disconnected, is_connected
<1>4. ASSUME NEW k \in Callers, query_not_connected(k) PROVE ClientInv'
  BY <1>4 DEF query_not_connected, Returns, Resting, is_connected
<1>5. ASSUME NEW k \in Callers, NEW method \in Methods, send_request(k, method)
      PROVE  ClientInv'
  BY <1>5 DEF send_request, is_connected, should_retry
<1>6. ASSUME NEW k \in Callers, failed(k) PROVE ClientInv'
  <2>1. CASE caller[k].left > 0 /\ server = "running"
    <3>1. /\ link' = [link EXCEPT ![k] = "up"]
          /\ caller' = [caller EXCEPT ![k].at = "sending", ![k].left = @ - 1]
      BY <1>6, <2>1 DEF failed, Connected
    <3>2. PICK c \in Clients : conn' = [conn EXCEPT ![k] = c]
      BY <1>6, <2>1 DEF failed, Connected, Unused
    <3>3. caller[k].left = 1 /\ caller[k].lost # 0
      BY <1>6, <2>1 DEF failed
    <3>4. caller' = [caller EXCEPT ![k].at = "sending", ![k].left = 0]
      BY <3>1, <3>3
    <3>5. ClientTypeOK'
      BY <3>1, <3>2, <3>4
    <3>6. QueriesOnConnections'
      BY <1>6, <3>1, <3>2, <3>4 DEF failed
    <3>7. LossesCounted'
      BY <3>1, <3>3, <3>4
    <3> QED BY <3>5, <3>6, <3>7
  <2>2. CASE ~(caller[k].left > 0 /\ server = "running")
    <3>1. Disconnected(k) /\ Returns(k, "CONNECTION_FAILED")
      BY <1>6, <2>2 DEF failed
    <3> QED BY <3>1 DEF Disconnected, Returns, Resting
  <2> QED BY <2>1, <2>2
<1>7. ASSUME NEW k \in Callers, Breaks(k) PROVE ClientInv'
  BY <1>7 DEF Breaks
<1>8. ASSUME NEW k \in Callers, Arrives(k) PROVE ClientInv'
  BY <1>8 DEF Arrives
<1>9. ASSUME NEW c \in Clients, Replies(c) PROVE ClientInv'
  <2>1. UNCHANGED <<link, conn>>
    BY <1>9 DEF Replies
  <2>2. CASE UNCHANGED caller
    BY <2>1, <2>2
  <2>3. ASSUME NEW k \in Callers,
               Returns(k, "SUCCESS") \/ Returns(k, "SERVICE_ERROR")
        PROVE  ClientInv'
    BY <2>1, <2>3 DEF Returns, Resting
  <2> QED BY <1>9, <2>2, <2>3 DEF Replies, Awaited
<1>10. CASE UNCHANGED allVars
  BY <1>1, <1>10 DEF allVars
<1> QED
  BY <1>1, <1>2, <1>3, <1>4, <1>5, <1>6, <1>7, <1>8, <1>9, <1>10
     DEF ClientNext, Runs, Serves, StrangerAsks

(* The invariant of callers, connections and threads.                      *)
LEMMA ClientInvariant == ClientSpec => []ClientInv
  BY ClientInvInit, ClientInvNext, PTL DEF ClientSpec

-----------------------------------------------------------------------------
(* Every step of the composition is one of the server and its threads, or  *)
(* changes nothing of theirs: no client can make the server do what        *)
(* DiagIpcServer does not allow.                                           *)
THEOREM ClientsUseServer == ClientSpec => Spec
<1>1. ClientInit => Init
  BY DEF ClientInit
<1>2. ClientInv /\ [ClientNext]_allVars => [Next]_vars
  <2> SUFFICES ASSUME ClientInv, [ClientNext]_allVars PROVE [Next]_vars
    OBVIOUS
  <2>1. CASE Runs
    BY <2>1 DEF Runs, Next
  <2>2. CASE signal_handler /\ UNCHANGED clientVars
    BY <2>2 DEF Next
  <2>3. ASSUME NEW c \in Clients, Serves(c) PROVE Next
    <3>1. Handler(c)
      BY <2>3 DEF Serves, Replies, Handler
    <3> QED BY <3>1 DEF Next
  <2>4. ASSUME NEW c \in Clients, StrangerAsks(c) PROVE Next
    BY <2>4 DEF StrangerAsks, Next
  <2>5. ASSUME NEW k \in Callers, Arrives(k) PROVE Next
    <3>1. conn[k] \in Clients /\ caller[k].method \in Methods
      BY <2>5 DEF Arrives, ClientInv, QueriesOnConnections
    <3> QED BY <2>5, <3>1 DEF Arrives, Next
  <2>6. ASSUME NEW k \in Callers,
               \/ connect(k) \/ disconnect(k) \/ query_not_connected(k)
               \/ (\E method \in Methods : send_request(k, method))
               \/ failed(k) \/ Breaks(k)
        PROVE  UNCHANGED vars
    BY <2>6 DEF connect, disconnect, query_not_connected, send_request,
                failed, Breaks
  <2>7. CASE UNCHANGED allVars
    BY <2>7 DEF allVars
  <2> QED
    BY <2>1, <2>2, <2>3, <2>4, <2>5, <2>6, <2>7 DEF ClientNext
<1> QED BY <1>1, <1>2, ClientInvariant, PTL DEF ClientSpec, Spec

(* With any number of clients that lose connections and ask again, no      *)
(* handler runs without its dispatcher.                                    *)
THEOREM ClientsDispatcherOutlives == ClientSpec => []DispatcherOutlivesHandlers
  BY ClientsUseServer, ServerDispatcherOutlives, PTL

(* diag_retry_policy.cpp: for any number of callers, a query fails only    *)
(* after two connections were lost or when the server does not run.        *)
THEOREM ClientsOneLossIsHidden == ClientSpec => OneLossIsHidden
<1>1. ClientInv /\ [ClientNext]_allVars =>
        [\A k \in Callers :
            caller[k].at # "resting" /\ caller'[k].got = "CONNECTION_FAILED" =>
                caller[k].lost = 2 \/ server # "running"]_allVars
  <2> SUFFICES ASSUME ClientInv, ClientNext, NEW k \in Callers,
                      caller[k].at # "resting",
                      caller'[k].got = "CONNECTION_FAILED"
               PROVE  caller[k].lost = 2 \/ server # "running"
    OBVIOUS
  <2>1. caller[k].got = "none" /\ caller \in [Callers -> CallerStates]
    BY DEF ClientInv, QueriesOnConnections, ClientTypeOK
  <2>2. ASSUME NEW j \in Callers, failed(j)
        PROVE  caller[k].lost = 2 \/ server # "running"
    <3>1. j = k
      BY <2>1, <2>2 DEF failed, Returns, CallerStates
    <3>2. caller[k].left \in {0, 1} /\ link[k] = "broken"
      BY <2>1, <2>2, <3>1 DEF failed, CallerStates
    <3>3. ~(caller[k].left > 0 /\ server = "running")
      BY <2>1, <2>2, <3>1 DEF failed, CallerStates
    <3>4. CASE caller[k].left = 0
      BY <3>2, <3>4 DEF ClientInv, LossesCounted
    <3>5. CASE caller[k].left = 1
      BY <3>3, <3>5
    <3> QED BY <3>2, <3>4, <3>5
  <2>3. ASSUME UNCHANGED caller PROVE FALSE
    BY <2>1, <2>3
  <2>4. ASSUME NEW c \in Clients, Replies(c) PROVE FALSE
    BY <2>1, <2>4 DEF Replies, Returns, Resting, CallerStates
  <2>5. ASSUME NEW j \in Callers,
               \/ query_not_connected(j)
               \/ (\E method \in Methods : send_request(j, method))
               \/ Breaks(j) \/ Arrives(j)
        PROVE  FALSE
    BY <2>1, <2>5 DEF query_not_connected, send_request, Breaks, Arrives,
                      Returns, Resting, CallerStates
  <2>6. ASSUME NEW j \in Callers, connect(j) \/ disconnect(j) PROVE FALSE
    BY <2>3, <2>6 DEF connect, disconnect
  <2>7. ASSUME UNCHANGED clientVars PROVE FALSE
    BY <2>3, <2>7 DEF clientVars
  <2> QED
    BY <2>2, <2>4, <2>5, <2>6, <2>7
       DEF ClientNext, Runs, Serves, StrangerAsks
<1> QED BY <1>1, ClientInvariant, PTL DEF ClientSpec, OneLossIsHidden

=============================================================================
