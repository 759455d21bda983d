--------------------------- MODULE RealProvAdapter ---------------------------
(***************************************************************************)
(* src/real_prov.cpp: how a request to write or to read the VIN reaches    *)
(* PROV, from the dispatcher's look at the connection to the answer the    *)
(* tester gets.  tbox-diag and diag_cli are processes with a connection    *)
(* each to the same PROV; within a process DiagService::mutex_ lets one     *)
(* request at a time through, so that a look at the connection is one step *)
(* here.                                                                   *)
(*                                                                         *)
(* prov::ProvClient, the connection and PROV are not in the repository:    *)
(* link and stored are what the adapter's comments and tests say of them.  *)
(* Those disagree on writes: include/real_prov.h:23-26 says that a write   *)
(* is never sent again, tests/test_real_prov_reconnect.cpp:6-8 that the    *)
(* client reconnects and sends every call once more.  Both are allowed.    *)
(***************************************************************************)
EXTENDS Naturals

CONSTANTS Processes,
          Vins,
          Empty,      \* not a VIN
          Writes,     \* the requests to write that testers make
          INTERVAL    \* kReconnectMinInterval, in Ticks

(* A configuration is named by the VIN of the vehicle it is for.           *)
ASSUME ProvAssumption ==
    /\ Empty \notin Vins
    /\ Writes \subseteq [op : {"write"}, vin : Vins, config : BOOLEAN]
    /\ INTERVAL \in Nat \ {0}

VARIABLES link,         \* of each process: "up"; "stale", lost and not yet
                        \* noticed; "down"
          since,        \* time since last_connect_attempt_, or INTERVAL
          pc,           \* what each process is doing
          prov_up,      \* PROV is there to connect to
          write_retry,  \* the client sends a write again after a reconnect
          stored,       \* the VIN and the configuration PROV has
          reached,      \* history: a write of the request got to PROV
          disturbed     \* history: another process wrote since it began

vars == <<link, since, pc, prov_up, write_retry, stored, reached, disturbed>>

Requests == Writes \cup [op : {"read"}, vin : {Empty}, config : {FALSE}]

NoRequest == [op |-> "none", vin |-> Empty, config |-> FALSE]

(* What has been read: whether there is a VIN, and the provisioning state. *)
NotRead == [vin |-> FALSE, state |-> "UNKNOWN"]

Resting == [at |-> "rest", req |-> NoRequest, again |-> FALSE,
            got |-> NotRead, answer |-> "none"]

Init == /\ link = [p \in Processes |-> "up"]
        /\ since = [p \in Processes |-> INTERVAL]
        /\ pc = [p \in Processes |-> Resting]
        /\ prov_up = TRUE
        /\ write_retry \in BOOLEAN
        /\ stored = [vin |-> Empty, config |-> Empty]
        /\ reached = [p \in Processes |-> FALSE]
        /\ disturbed = [p \in Processes |-> FALSE]

At(p, place) == pc[p].at = place

Writing(p) == pc[p].at \in {"write_vin", "write_config"}

Calling(p) == ~At(p, "rest")

ProvisionState == IF stored.vin = Empty THEN "NONE" ELSE "VIN_WRITTEN"

Goes(p, place) == pc' = [pc EXCEPT ![p].at = place, ![p].again = FALSE]

Answers(p, answer) ==
    pc' = [pc EXCEPT ![p].at = "rest", ![p].again = FALSE, ![p].answer = answer]

-----------------------------------------------------------------------------
(* is_available: a lost connection is made again, at most once per         *)
(* kReconnectMinInterval.                                                  *)
OnlyIsConnected(p) == UNCHANGED <<link, since>>

ensure_connected(p) ==
    IF link[p] # "down" \/ since[p] < INTERVAL
    THEN UNCHANGED <<link, since>>
    ELSE /\ since' = [since EXCEPT ![p] = 0]
         /\ link' = [link EXCEPT ![p] = IF prov_up THEN "up" ELSE "down"]

(* A request finds PROV available, or is turned down.  The dispatcher      *)
(* looks, and the adapter looks again, at what cannot have become "down"   *)
(* in between; for get_vehicle_info of the IPC server the adapter alone    *)
(* does.                                                                   *)
begin(p, req) ==
    /\ At(p, "rest")
    /\ ensure_connected(p)
    /\ LET begun == [Resting EXCEPT !.req = req] IN
       pc' = [pc EXCEPT ![p] =
                IF link'[p] = "down"
                THEN [begun EXCEPT !.answer = "CONDITIONS_NOT_CORRECT"]
                ELSE [begun EXCEPT
                        !.at = IF req.op = "write" THEN "write_vin" ELSE "read_vin"]]
    /\ reached' = [reached EXCEPT ![p] = FALSE]
    /\ disturbed' = [disturbed EXCEPT ![p] = FALSE]
    /\ UNCHANGED <<prov_up, write_retry, stored>>

(* A write leaves its mark at PROV, whatever becomes of the answer.        *)
Written(p) ==
    /\ stored' = IF At(p, "write_vin")
                 THEN [stored EXCEPT !.vin = pc[p].req.vin]
                 ELSE [stored EXCEPT !.config = pc[p].req.vin]
    /\ reached' = [reached EXCEPT ![p] = TRUE]
    /\ disturbed' = [q \in Processes |->
                        disturbed[q] \/ (q # p /\ pc[q].req.op = "write")]

NothingWritten == UNCHANGED <<stored, reached, disturbed>>

(* What the adapter makes of a call that succeeded: the configuration is   *)
(* written after the VIN, if the request has one; the state of the         *)
(* provisioning is read after the VIN.                                     *)
SucceededStateFirst(p) ==
    CASE At(p, "write_vin") /\ pc[p].req.config -> Goes(p, "write_config")
      [] Writing(p) /\ ~(At(p, "write_vin") /\ pc[p].req.config) ->
            Answers(p, "POSITIVE")
      [] At(p, "read_vin") ->
            pc' = [pc EXCEPT ![p].at = "read_state", ![p].again = FALSE,
                             ![p].got.state = ProvisionState]
      [] At(p, "read_state") ->
            pc' = [pc EXCEPT ![p].at = "rest", ![p].again = FALSE,
                             ![p].got.vin = (stored.vin # Empty), ![p].answer = "POSITIVE"]

Succeeded(p) ==
    CASE At(p, "write_vin") /\ pc[p].req.config -> Goes(p, "write_config")
      [] Writing(p) /\ ~(At(p, "write_vin") /\ pc[p].req.config) ->
            Answers(p, "POSITIVE")
      [] At(p, "read_vin") ->
            pc' = [pc EXCEPT ![p].at = "read_state", ![p].again = FALSE,
                             ![p].got.vin = (stored.vin # Empty)]
      [] At(p, "read_state") ->
            pc' = [pc EXCEPT ![p].at = "rest", ![p].again = FALSE,
                             ![p].got.state = ProvisionState,
                             ![p].answer = "POSITIVE"]

(* And of one that failed.  The reason reaches the tester in no case, and  *)
(* a read goes on with an empty VIN, or a state UNKNOWN, and is valid.     *)
FailedConfigIgnored(p) ==
    CASE At(p, "write_vin") -> Answers(p, "GENERAL_PROGRAMMING_FAILURE")
      [] At(p, "read_vin") -> Goes(p, "read_state")
      [] OTHER -> Answers(p, "POSITIVE")

FailedIsUnavailable(p) ==
    CASE Writing(p) -> Answers(p, "CONDITIONS_NOT_CORRECT")
      [] At(p, "read_vin") -> Goes(p, "read_state")
      [] At(p, "read_state") -> Answers(p, "POSITIVE")

Failed(p) ==
    CASE Writing(p) -> Answers(p, "GENERAL_PROGRAMMING_FAILURE")
      [] At(p, "read_vin") -> Goes(p, "read_state")
      [] At(p, "read_state") -> Answers(p, "POSITIVE")

(* PROV does what it is asked for, and the answer arrives.                 *)
accepted(p) ==
    /\ Calling(p)
    /\ link[p] = "up"
    /\ IF Writing(p) THEN Written(p) ELSE NothingWritten
    /\ Succeeded(p)
    /\ UNCHANGED <<link, since, prov_up, write_retry>>

(* It refuses, be it after it has written and read back something else.    *)
refused(p) ==
    /\ Calling(p)
    /\ link[p] = "up"
    /\ NothingWritten \/ (Writing(p) /\ Written(p))
    /\ Failed(p)
    /\ UNCHANGED <<link, since, prov_up, write_retry>>

(* The client finds the connection gone.  A call it may send again, it     *)
(* does, once, if it can connect.                                          *)
Disconnected(p) ==
    LET again == ~pc[p].again /\ (Writing(p) => write_retry) IN
    IF again /\ prov_up
    THEN /\ link' = [link EXCEPT ![p] = "up"]
         /\ pc' = [pc EXCEPT ![p].again = TRUE]
    ELSE /\ link' = [link EXCEPT ![p] = "down"]
         /\ Failed(p)

unanswered(p) ==
    /\ Calling(p)
    /\ link[p] = "up"
    /\ IF Writing(p) THEN Written(p) ELSE NothingWritten
    /\ Disconnected(p)
    /\ UNCHANGED <<since, prov_up, write_retry>>

unsent(p) ==
    /\ Calling(p)
    /\ link[p] # "up"
    /\ NothingWritten
    /\ Disconnected(p)
    /\ UNCHANGED <<since, prov_up, write_retry>>

-----------------------------------------------------------------------------
(* PROV drops an idle connection: one that no request of the process is    *)
(* about to use or uses.                                                   *)
ProvDropsIdle(p) ==
    /\ At(p, "rest")
    /\ link[p] = "up"
    /\ link' = [link EXCEPT ![p] = "stale"]
    /\ UNCHANGED <<since, pc, prov_up, write_retry, stored, reached, disturbed>>

(* What PROV has stored outlives it.                                       *)
ProvStops ==
    /\ prov_up
    /\ prov_up' = FALSE
    /\ link' = [p \in Processes |-> IF link[p] = "up" THEN "stale" ELSE link[p]]
    /\ UNCHANGED <<since, pc, write_retry, stored, reached, disturbed>>

ProvStarts ==
    /\ ~prov_up
    /\ prov_up' = TRUE
    /\ UNCHANGED <<link, since, pc, write_retry, stored, reached, disturbed>>

LaterUnbounded(n) == n + 1

Later(n) == IF n < INTERVAL THEN n + 1 ELSE n

Tick ==
    /\ since' = [p \in Processes |-> Later(since[p])]
    /\ UNCHANGED <<link, pc, prov_up, write_retry, stored, reached, disturbed>>

Goings(p) == accepted(p) \/ refused(p) \/ unanswered(p) \/ unsent(p)

Next == \/ \E p \in Processes : \/ Goings(p) \/ ProvDropsIdle(p)
                                \/ \E req \in Requests : begin(p, req)
        \/ ProvStops \/ ProvStarts \/ Tick

Spec == Init /\ [][Next]_vars

(* A request that is begun goes on; time does not stop; and PROV, asked    *)
(* again and again to write, at some time does and its answer arrives.     *)
FairSpec ==
    /\ Spec
    /\ \A p \in Processes : /\ WF_vars(Goings(p))
                            /\ SF_vars(At(p, "write_vin") /\ accepted(p))
                            /\ SF_vars(At(p, "write_config") /\ accepted(p))
    /\ WF_vars(Tick)

-----------------------------------------------------------------------------
TypeOK ==
    /\ link \in [Processes -> {"up", "stale", "down"}]
    /\ since \in [Processes -> 0 .. INTERVAL]
    /\ pc \in [Processes ->
                 [at : {"rest", "write_vin", "write_config", "read_vin",
                        "read_state"},
                  req : Requests \cup {NoRequest},
                  again : BOOLEAN,
                  got : [vin : BOOLEAN,
                         state : {"NONE", "VIN_WRITTEN", "UNKNOWN"}],
                  answer : {"none", "POSITIVE", "CONDITIONS_NOT_CORRECT",
                            "GENERAL_PROGRAMMING_FAILURE"}]]
    /\ prov_up \in BOOLEAN
    /\ write_retry \in BOOLEAN
    /\ stored \in [vin : Vins \cup {Empty}, config : Vins \cup {Empty}]
    /\ reached \in [Processes -> BOOLEAN]
    /\ disturbed \in [Processes -> BOOLEAN]

Answered(p, op, answer) ==
    At(p, "rest") /\ pc[p].req.op = op /\ pc[p].answer = answer

(* A tester told that its VIN is written finds it at PROV, and with it the *)
(* configuration it sent, until another process writes: neither a refusal, *)
(* a lost answer, a retry nor a restart of PROV in between makes one of    *)
(* the two calls pass for both.                                            *)
WrittenWhenPositive ==
    \A p \in Processes :
        Answered(p, "write", "POSITIVE") /\ ~disturbed[p] =>
            /\ stored.vin = pc[p].req.vin
            /\ pc[p].req.config => stored.config = pc[p].req.vin

(* CONDITIONS_NOT_CORRECT is said of a write only if nothing of it got to  *)
(* PROV: a tester may take it as never made.                               *)
UnavailableWroteNothing ==
    \A p \in Processes :
        Answered(p, "write", "CONDITIONS_NOT_CORRECT") => ~reached[p]

(* The VIN and the state are read by two calls, between which another      *)
(* process may write.  Still no vehicle is shown with a VIN and the state  *)
(* NONE: the VIN is read first and never taken away.                       *)
VinIsNeverUnprovisioned ==
    \A p \in Processes :
        At(p, "rest") /\ pc[p].got.vin => pc[p].got.state # "NONE"

(* If PROV is there for good, a process that is asked again and again for  *)
(* nothing but writes with a configuration gets one through: it is not     *)
(* told for ever that PROV is disconnected, the fault that                 *)
(* tests/test_real_prov_reconnect.cpp:10-12 tells of.                      *)
WriteGetsThrough ==
    \A p \in Processes :
        /\ <>[]prov_up
        /\ []<><<\E req \in Requests : begin(p, req)>>_vars
        /\ <>[]pc[p].req.config
        => []<>Answered(p, "write", "POSITIVE")

=============================================================================
