---------------------------- MODULE DiagPrograms ----------------------------
(***************************************************************************)
(* The two programs that run the service.  tbox-diag (src/main.cpp) has    *)
(* testers on the wire: their frames are decoded into requests, and the    *)
(* responses encoded (process_pending_requests with UdsCodec).  diag_cli   *)
(* (src/diag_cli.cpp) makes one command out of its arguments: a script of  *)
(* requests to a service of its own, which is gone with the process.  The  *)
(* module adds the bytes and the scripts to DiagService, and one process   *)
(* after another runs it.                                                  *)
(***************************************************************************)
EXTENDS DiagService, UdsCodec

CONSTANTS Frames,      \* the frames that testers send, or give to "raw"
          Arguments    \* VINs, keys and certificates given to the CLI

(* source_address of every request of the CLI                              *)
CliAddress == 3712

ASSUME ProgramsAssumption == /\ CliAddress \in Testers
                             /\ Frames \subseteq Seq(Byte)
                             /\ Arguments \subseteq Seq(Byte)

VARIABLES program,   \* the program that runs, or "none"
          script,    \* the requests of the command
          step,      \* which of them is made next
          heard,     \* the frame the request being served came in
          asked,     \* the last DiagRequest
          said,      \* the frame the last step answered with
          excused    \* history: SEC or PROV let the process down

programVars == <<program, script, step, heard, asked, said, excused>>

allVars == <<vars, programVars>>

ProgramsInit == /\ Init
                /\ program = "none"
                /\ script = <<>>
                /\ step = 1
                /\ heard = <<>>
                /\ asked = NewRequest
                /\ said = <<>>
                /\ excused = FALSE

-----------------------------------------------------------------------------
(* What the dispatcher and the session manager tell apart of a request.    *)
SessionType(sub) == CASE sub % 128 = 1 -> "DEFAULT"
                      [] sub % 128 = 2 -> "PROGRAMMING"
                      [] sub % 128 = 3 -> "EXTENDED"
                      [] OTHER -> "UNKNOWN"

WRITE_VIN_ROUTINE == 65280
GENERATE_KEY_PAIR == 65281
READ_CSR == 65282
INJECT_CERTIFICATE == 65283

RoutineName(rid) == CASE rid = WRITE_VIN_ROUTINE -> "WRITE_VIN_ROUTINE"
                      [] rid = GENERATE_KEY_PAIR -> "GENERATE_KEY_PAIR"
                      [] rid = READ_CSR -> "READ_CSR"
                      [] rid = INJECT_CERTIFICATE -> "INJECT_CERTIFICATE"
                      [] OTHER -> "UNKNOWN"

VIN == 61840
BINDING_STATE == 61841

DataName(did) == CASE did = VIN -> "VIN"
                   [] did = BINDING_STATE -> "BINDING_STATE"
                   [] OTHER -> "UNKNOWN"

PayloadSize(request) ==
    IF \/ RoutineName(request.did_or_rid)
             \notin {"WRITE_VIN_ROUTINE", "INJECT_CERTIFICATE"}
       \/ request.payload = <<>>
    THEN "empty"
    ELSE IF Len(request.payload) < 17 THEN "short" ELSE "full"

Meaning(request) ==
    LET sid == request.service_id IN
    CASE sid = DIAGNOSTIC_SESSION_CONTROL ->
            [sid |-> "SESSION_CONTROL", type |-> SessionType(request.sub_function)]
      [] sid = TESTER_PRESENT -> [sid |-> "TESTER_PRESENT"]
      [] sid = SECURITY_ACCESS ->
            [sid |-> "SECURITY_ACCESS",
             sub |-> IF request.sub_function % 128 \in {LEVEL_1, LEVEL_1 + 1}
                     THEN request.sub_function % 128 ELSE LEVEL_1 + 2]
      [] sid = ROUTINE_CONTROL ->
            [sid |-> "ROUTINE_CONTROL", rid |-> RoutineName(request.did_or_rid),
             payload |-> PayloadSize(request)]
      [] sid = READ_DATA_BY_IDENTIFIER ->
            [sid |-> "READ_DATA", did |-> DataName(request.did_or_rid)]
      [] OTHER -> [sid |-> "UNKNOWN"]

NrcCode(nrc) == CASE nrc = "SERVICE_NOT_SUPPORTED" -> 17
                  [] nrc = "SUB_FUNCTION_NOT_SUPPORTED" -> 18
                  [] nrc = "INCORRECT_MESSAGE_LENGTH" -> 19
                  [] nrc = "CONDITIONS_NOT_CORRECT" -> 34
                  [] nrc = "REQUEST_SEQUENCE_ERROR" -> 36
                  [] nrc = "REQUEST_OUT_OF_RANGE" -> 49
                  [] nrc = "SECURITY_ACCESS_DENIED" -> 51
                  [] nrc = "INVALID_KEY" -> 53
                  [] nrc = "GENERAL_PROGRAMMING_FAILURE" -> 114
                  [] nrc = "SERVICE_NOT_SUPPORTED_IN_SESSION" -> 127

DiagResponse(request, nrc) ==
    IF nrc = "POSITIVE" THEN PositiveResponse(request)
    ELSE NegativeResponse(request, NrcCode(nrc))

-----------------------------------------------------------------------------
(* The commands of the CLI, as the requests they make.  The steps of       *)
(* write_vin are taken until one is refused; the other commands have one   *)
(* step, but "init" and "status", which have none.                         *)
Asks(sid, sub, id, payload) ==
    [service_id |-> sid, sub_function |-> sub, did_or_rid |-> id,
     payload |-> payload]

StartRoutine(rid, payload) == Asks(ROUTINE_CONTROL, 1, rid, payload)

WriteVinUnlocksLevelOneTwice(vin, key) ==
    <<Asks(DIAGNOSTIC_SESSION_CONTROL, 3, 0, <<>>),
      Asks(SECURITY_ACCESS, 1, 0, <<>>),
      Asks(SECURITY_ACCESS, 1 + 128, 0, key),
      StartRoutine(WRITE_VIN_ROUTINE, vin)>>

write_vin(vin, key) ==
    <<Asks(DIAGNOSTIC_SESSION_CONTROL, 3, 0, <<>>),
      Asks(SECURITY_ACCESS, 1, 0, <<>>),
      Asks(SECURITY_ACCESS, 2 + 128, 0, key),
      StartRoutine(WRITE_VIN_ROUTINE, vin)>>

(* level | 0x80 is what send_key asks with, whatever level is meant.       *)
send_key(level, key) == <<Asks(SECURITY_ACCESS, (level % 128) + 128, 0, key)>>

SimpleCommands ==
    {<<Asks(DIAGNOSTIC_SESSION_CONTROL, type, 0, <<>>)>> : type \in 1 .. 3}
    \cup {<<Asks(TESTER_PRESENT, 0, 0, <<>>)>>}
    \cup {<<Asks(SECURITY_ACCESS, level, 0, <<>>)>> : level \in 1 .. 3}
    \cup {send_key(level, key) : level \in 1 .. 3, key \in Arguments}
    \cup {<<Asks(READ_DATA_BY_IDENTIFIER, 0, did, <<>>)>> :
             did \in {VIN, BINDING_STATE}}

RoutineCommands ==
    {<<StartRoutine(rid, <<>>)>> : rid \in {GENERATE_KEY_PAIR, READ_CSR}}
    \cup {<<StartRoutine(INJECT_CERTIFICATE, cert)>> : cert \in Arguments}

RawCommands == {<<RawCommand(raw)>> : raw \in Frames \ {<<>>}}

Commands == {<<>>} \cup SimpleCommands \cup RoutineCommands \cup RawCommands
            \cup {write_vin(vin, key) : vin, key \in Arguments}

-----------------------------------------------------------------------------
(* A program connects to SEC and PROV and initialises its service; if it   *)
(* cannot, it is over.                                                     *)
start(name, command) ==
    /\ program = "none"
    /\ sec_up /\ prov_up
    /\ initialize
    /\ program' = name
    /\ script' = command
    /\ step' = 1
    /\ excused' = FALSE
    /\ said' = <<>>
    /\ UNCHANGED <<heard, asked>>

(* All state is the process's own, and nothing outlives it.                *)
TakesNextCommand ==
    /\ Free
    /\ program = "diag_cli"
    /\ step > Len(script)
    /\ script' \in Commands
    /\ step' = 1
    /\ said' = <<>>
    /\ response' = NoResponse
    /\ UNCHANGED <<sessionVars, securityVars, prov_up, serviceVars, program,
                   heard, asked, excused>>

exit ==
    /\ program = "tbox-diag" \/ (program = "diag_cli" /\ step > Len(script))
    /\ shutdown
    /\ program' = "none"
    /\ script' = <<>> /\ step' = 1
    /\ heard' = <<>> /\ asked' = NewRequest /\ said' = <<>>
    /\ UNCHANGED excused

(* The CLI makes the next request of its command.                          *)
ask ==
    /\ step <= Len(script)
    /\ process_request(CliAddress, Meaning(script[step]))
    /\ asked' = script[step]
    /\ said' = <<>>
    /\ UNCHANGED <<program, script, step, heard, excused>>

(* The daemon decodes a frame into a request that is new in each round.    *)
(* What is no request is dropped: receive found none, or decode does not   *)
(* know it.                                                                *)
RequestOfLastRound == asked

RequestOfRound == NewRequest

receive(raw) ==
    /\ program = "tbox-diag"
    /\ IF Decodes(raw)
       THEN LET request == Decoded(raw, RequestOfRound) IN
            /\ receive_request(Meaning(request))
            /\ asked' = request
            /\ heard' = raw
       ELSE /\ receive_nothing
            /\ UNCHANGED <<asked, heard>>
    /\ said' = <<>>
    /\ UNCHANGED <<program, script, step, excused>>

(* The response is encoded for the tester, or read by the CLI, which goes  *)
(* on if it is positive.                                                   *)
answer(outcome) ==
    /\ serve(outcome)
    /\ said' = Encode(DiagResponse(asked, response'.nrc))
    /\ excused' = (excused \/ outcome # "ok" \/ ~sec_up \/ ~prov_up)
    /\ step' = IF program = "tbox-diag" THEN step
               ELSE IF response'.nrc = "POSITIVE" THEN step + 1
               ELSE Len(script) + 1
    /\ heard' = <<>>
    /\ UNCHANGED <<program, script, asked>>

(* The rest of the daemon's main loop, and what happens around a process.  *)
Around ==
    /\ \/ program = "tbox-diag" /\ (process_pending_requests \/ activate)
       \/ PeersComeAndGo
       \/ Tick
    /\ said' = <<>>
    /\ UNCHANGED <<program, script, step, heard, asked, excused>>

ProgramsNext ==
    \/ start("tbox-diag", <<>>)
    \/ \E command \in Commands : start("diag_cli", command)
    \/ exit
    \/ ask
    \/ \E raw \in Frames : receive(raw)
    \/ \E outcome \in Outcomes : answer(outcome)
    \/ Around

ProgramsSpec == ProgramsInit /\ [][ProgramsNext]_allVars

-----------------------------------------------------------------------------
(* Where ISO 14229 puts the fields of a request.                           *)
Layout(request) ==
    LET sid == request.service_id IN
    IF sid = READ_DATA_BY_IDENTIFIER THEN <<sid>> \o Bytes(request.did_or_rid)
    ELSE <<sid, request.sub_function>>
         \o (IF sid = ROUTINE_CONTROL THEN Bytes(request.did_or_rid) ELSE <<>>)
         \o request.payload

TakesAll(sid) == sid \in {SECURITY_ACCESS, ROUTINE_CONTROL}

(* A request from the wire is what its frame says, byte for byte and where *)
(* the standard has it, and nothing of an earlier frame is in it.  Of the  *)
(* services without a payload the bytes that are too many are dropped.     *)
RequestIsItsFrame ==
    program = "tbox-diag" /\ job.phase = "checked" /\ Len(heard) > 1 =>
        LET laid == Layout(asked) IN
        /\ Len(laid) <= Len(heard)
        /\ laid = SubSeq(heard, 1, Len(laid))
        /\ TakesAll(heard[1]) => laid = heard

(* A tester can tell from the answer alone what was asked and whether it   *)
(* was granted: 0x7F and the service of the request, or the service + 0x40 *)
(* and the identifier or the sub-function of the request.                  *)
AnswerNamesItsRequest ==
    [][heard # <<>> /\ said' # <<>> =>
          IF response'.nrc # "POSITIVE"
          THEN Len(said') = 3 /\ said'[1] = NEGATIVE_RESPONSE /\ said'[2] = heard[1]
          ELSE /\ said'[1] = heard[1] + 64
               /\ CASE heard[1] = READ_DATA_BY_IDENTIFIER ->
                          SubSeq(said', 2, 3) = SubSeq(heard, 2, 3)
                    [] heard[1] = ROUTINE_CONTROL ->
                          SubSeq(said', 2, 4) = SubSeq(heard, 2, 4)
                    [] OTHER -> said'[2] % 128 = heard[2] % 128]_allVars

(* diag_cli write_vin with a whole VIN fails only if SEC or PROV was away  *)
(* or said no: its four requests, made of bytes and addresses of its own,  *)
(* pass every check between them, however long each of them takes.         *)
CleanWriteSucceeds ==
    [][/\ \E vin, key \in Arguments : script = write_vin(vin, key) /\ Len(vin) = 17
       /\ response'.sid # "none"
       => response'.nrc = "POSITIVE" \/ excused']_allVars

(* What one process of the CLI unlocked is not unlocked for the next: its  *)
(* certificate commands, one to a process, never reach SEC.                *)
CertificateCommandsRefused ==
    [][program = "diag_cli" => response'.work \notin CertificateRoutines]_allVars

=============================================================================
