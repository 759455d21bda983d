------------------------- MODULE DiagProgramsProofs -------------------------
(***************************************************************************)
(* Theorems about DiagPrograms.  The programs use the service as           *)
(* DiagService specifies it, so that module's theorems hold of them; a     *)
(* request is its frame, an answer names it, and the two commands of the   *)
(* CLI that depend on what an earlier request left behind come out as they *)
(* do for every frame, VIN, key and certificate.                           *)
(***************************************************************************)
EXTENDS DiagPrograms, DiagServiceProofs, SequenceTheorems

-----------------------------------------------------------------------------
(* The services, one by one.                                               *)
LEMMA MeaningByService ==
    ASSUME NEW request
    PROVE  LET sid == request.service_id IN
           /\ sid = 16 => Meaning(request) =
                [sid |-> "SESSION_CONTROL", type |-> SessionType(request.sub_function)]
           /\ sid = 62 => Meaning(request) = [sid |-> "TESTER_PRESENT"]
           /\ sid = 39 => Meaning(request) =
                [sid |-> "SECURITY_ACCESS",
                 sub |-> IF request.sub_function % 128 \in {1, 2}
                         THEN request.sub_function % 128 ELSE 3]
           /\ sid = 49 => Meaning(request) =
                [sid |-> "ROUTINE_CONTROL", rid |-> RoutineName(request.did_or_rid),
                 payload |-> PayloadSize(request)]
           /\ sid = 34 => Meaning(request) =
                [sid |-> "READ_DATA", did |-> DataName(request.did_or_rid)]
           /\ sid \notin {16, 62, 39, 49, 34} => Meaning(request) = [sid |-> "UNKNOWN"]
<1> DEFINE sid == request.service_id
           sub == request.sub_function
<1>0. /\ DIAGNOSTIC_SESSION_CONTROL = 16 /\ TESTER_PRESENT = 62
      /\ SECURITY_ACCESS = 39 /\ ROUTINE_CONTROL = 49
      /\ READ_DATA_BY_IDENTIFIER = 34 /\ LEVEL_1 = 1 /\ 1 + 1 = 2 /\ 1 + 2 = 3
  BY DEF DIAGNOSTIC_SESSION_CONTROL, TESTER_PRESENT, SECURITY_ACCESS,
         ROUTINE_CONTROL, READ_DATA_BY_IDENTIFIER, LEVEL_1
<1>1. Meaning(request) =
        CASE sid = 16 -> [sid |-> "SESSION_CONTROL", type |-> SessionType(sub)]
          [] sid = 62 -> [sid |-> "TESTER_PRESENT"]
          [] sid = 39 -> [sid |-> "SECURITY_ACCESS",
                          sub |-> IF sub % 128 \in {1, 2} THEN sub % 128 ELSE 3]
          [] sid = 49 -> [sid |-> "ROUTINE_CONTROL",
                          rid |-> RoutineName(request.did_or_rid),
                          payload |-> PayloadSize(request)]
          [] sid = 34 -> [sid |-> "READ_DATA",
                          did |-> DataName(request.did_or_rid)]
          [] OTHER -> [sid |-> "UNKNOWN"]
  BY Zenon, <1>0 DEF Meaning
<1> HIDE DEF sid, sub
<1> QED  BY <1>1 DEF sid, sub

(* Whatever the bytes are, the dispatcher knows what to make of them.      *)
LEMMA MeaningIsRequest == \A request : Meaning(request) \in Requests
<1> SUFFICES ASSUME NEW request PROVE Meaning(request) \in Requests
  OBVIOUS
<1> DEFINE sid == request.service_id
<1>1. SessionType(request.sub_function) \in SM!RequestedTypes
  BY DEF SessionType, SM!RequestedTypes, SM!SessionTypes
<1>2. DataName(request.did_or_rid) \in {"VIN", "BINDING_STATE", "UNKNOWN"}
  BY DEF DataName
<1>3. RoutineName(request.did_or_rid) \in Routines
  BY DEF RoutineName, Routines, CertificateRoutines
<1>4. /\ PayloadSize(request) \in {"empty", "short", "full"}
      /\ RoutineName(request.did_or_rid)
            \notin {"WRITE_VIN_ROUTINE", "INJECT_CERTIFICATE"}
         => PayloadSize(request) = "empty"
  BY DEF PayloadSize
<1>5. CASE sid = 16
  BY <1>1, <1>5, MeaningByService DEF Requests
<1>6. CASE sid \notin {16, 39, 49, 34}
  BY <1>6, MeaningByService DEF Requests
<1>7. CASE sid = 39
  BY <1>7, MeaningByService DEF Requests, LEVEL_1
<1>8. CASE sid = 49
  BY <1>3, <1>4, <1>8, MeaningByService DEF RoutineRequests, Requests
<1>9. CASE sid = 34
  BY <1>2, <1>9, MeaningByService DEF Requests
<1> QED  BY <1>5, <1>6, <1>7, <1>8, <1>9

(* A step of a program is one of the service, or one it does not notice.   *)
LEMMA StepOfService == [ProgramsNext]_allVars => [Next]_vars
<1> SUFFICES ASSUME [ProgramsNext]_allVars PROVE [Next]_vars
  OBVIOUS
<1>1. ASSUME NEW name, NEW command, start(name, command) PROVE Next
  BY <1>1 DEF start, Next
<1>2. CASE exit
  BY <1>2 DEF exit, Next
<1>3. CASE ask
  BY <1>3, MeaningIsRequest, ProgramsAssumption DEF ask, Next
<1>4. ASSUME NEW raw \in Frames, receive(raw) PROVE Next
  BY <1>4, MeaningIsRequest DEF receive, Next
<1>5. ASSUME NEW outcome \in Outcomes, answer(outcome) PROVE Next
  BY <1>5 DEF answer, Next
<1>6. CASE Around
  BY <1>6 DEF Around, Next
<1>7. CASE UNCHANGED allVars
  BY <1>7 DEF allVars
<1> QED  BY <1>1, <1>2, <1>3, <1>4, <1>5, <1>6, <1>7 DEF ProgramsNext

(* main.cpp and diag_cli.cpp use the service as diag_service.cpp lets them *)
(* use it: ProgramsSpec implies DiagService's Spec.                        *)
THEOREM ProgramsUseService == ProgramsSpec => Spec
<1>1. ProgramsInit => Init
  BY DEF ProgramsInit
<1> QED  BY <1>1, StepOfService, PTL DEF ProgramsSpec, Spec

(* So no frame and no command, whichever process it goes to and in         *)
(* whichever order, gets a routine past the lock or a certificate routine  *)
(* past the session that its S3 check found in time.                       *)
THEOREM ProgramsKeepTheLock ==
    ProgramsSpec => RoutinesNeedAcceptedKey /\ CertificateWorkInSession
  BY ProgramsUseService, ServiceRoutinesNeedKey, ServiceCertificateInSession, PTL

-----------------------------------------------------------------------------
(* A process has a service of its own, and only a process of the CLI a     *)
(* command.                                                                *)
ProcessInv ==
    /\ program \in {"none", "tbox-diag", "diag_cli"}
    /\ program = "none" <=> ~initialized
    /\ program # "diag_cli" => script = <<>>
    /\ script \in Commands
    /\ step \in 1 .. Len(script) + 1
    /\ program = "diag_cli" /\ job.phase # "none" =>
          job.phase = "checked" /\ step <= Len(script)

(* The request being served is the one that was heard, or the next of the  *)
(* command, and the dispatcher is given what it means.                     *)
ServesAsked ==
    /\ job.phase = "checked" =>
          /\ job.req = Meaning(asked)
          /\ program = "tbox-diag" =>
                /\ heard \in Frames
                /\ Decodes(heard)
                /\ asked = Decoded(heard, NewRequest)
          /\ program = "diag_cli" =>
                /\ job.src = CliAddress
                /\ asked = script[step]
    /\ heard # <<>> => job.phase = "checked" /\ program = "tbox-diag"

(* A process of the CLI that has had no answer yet has unlocked nothing,   *)
(* and none of its answers tells of a certificate.                         *)
CertificatesOutOfReach ==
    program = "diag_cli" =>
        /\ step = 1 => ~states[LEVEL_1].unlocked
        /\ response.work \notin CertificateRoutines

(* How far write_vin has come unless SEC or PROV let it down: the session, *)
(* the seed, the key, and in its last step the VIN.                        *)
WriteInv ==
    /\ \E vin, key \in Arguments : script = write_vin(vin, key) /\ Len(vin) = 17
    /\ ~excused
    =>  /\ step = 1 => session.session_type = "DEFAULT"
        /\ states[LEVEL_1].attempt_count = 0
        /\ step = 3 => states[LEVEL_1].seed_requested
        /\ step = 4 => states[LEVEL_1].unlocked
        /\ response.sid # "none" => response.nrc = "POSITIVE"

-----------------------------------------------------------------------------
(* A command has one step at most, or is write_vin.                        *)
LEMMA CommandShapes ==
    ASSUME NEW command \in Commands
    PROVE  \/ Len(command) \in {0, 1}
           \/ \E vin, key \in Arguments : command = write_vin(vin, key)
<1>1. ASSUME NEW request PROVE Len(<<request>>) = 1
  OBVIOUS
<1>2. command \in SimpleCommands => Len(command) = 1
  BY <1>1 DEF SimpleCommands, send_key
<1>3. command \in RoutineCommands \cup RawCommands => Len(command) = 1
  BY <1>1 DEF RoutineCommands, RawCommands
<1> QED  BY <1>2, <1>3 DEF Commands

(* diag_cli.cpp:297-357: the four requests of write_vin, as bytes.         *)
LEMMA WriteSteps ==
    ASSUME NEW vin \in Arguments, NEW key \in Arguments
    PROVE  /\ Len(write_vin(vin, key)) = 4
           /\ write_vin(vin, key)[1] = Asks(16, 3, 0, <<>>)
           /\ write_vin(vin, key)[2] = Asks(39, 1, 0, <<>>)
           /\ write_vin(vin, key)[3] = Asks(39, 130, 0, key)
           /\ write_vin(vin, key)[4] = Asks(49, 1, 65280, vin)
  BY DEF write_vin, StartRoutine, DIAGNOSTIC_SESSION_CONTROL, SECURITY_ACCESS,
         ROUTINE_CONTROL, WRITE_VIN_ROUTINE

(* Every command is a finite script.                                       *)
LEMMA CommandLength == \A command \in Commands : Len(command) \in Nat
  BY CommandShapes, WriteSteps

-----------------------------------------------------------------------------
(* What a process is and how far its script is, in every state.            *)
LEMMA ProcessInvariant == ProgramsSpec => []ProcessInv
<1>1. ProgramsInit => ProcessInv
  BY DEF ProgramsInit, Init, ProcessInv, Commands, NoJob
<1>2. JobInv /\ ProcessInv /\ [ProgramsNext]_allVars => ProcessInv'
  <2> SUFFICES ASSUME JobInv, ProcessInv, [ProgramsNext]_allVars PROVE ProcessInv'
    OBVIOUS
  <2> USE DEF ProcessInv
  <2>0. Len(<<>>) = 0 /\ <<>> \in Commands
    BY DEF Commands
  <2>1. ASSUME NEW name \in {"tbox-diag", "diag_cli"}, NEW command \in Commands,
               name = "tbox-diag" => command = <<>>, start(name, command)
        PROVE  ProcessInv'
    BY <2>1, CommandLength DEF start, initialize, Free
  <2>2. CASE exit
    BY <2>0, <2>2 DEF exit, shutdown
  <2>3. CASE ask
    BY <2>3 DEF ask, process_request
  <2>4. ASSUME NEW raw \in Frames, receive(raw) PROVE ProcessInv'
    BY <2>4 DEF receive, receive_request, receive_nothing
  <2>5. ASSUME NEW outcome \in Outcomes, answer(outcome) PROVE ProcessInv'
    <3>1. /\ UNCHANGED <<program, script, initialized>>
          /\ job'.phase = "none"
      BY <2>5 DEF answer, serve, NoJob
    <3>2. step' \in 1 .. Len(script) + 1
      <4>1. Len(script) \in Nat
        BY CommandLength
      <4>2. CASE program = "tbox-diag"
        BY <2>5, <4>2 DEF answer
      <4>3. CASE program = "diag_cli"
        <5>1. step <= Len(script)
          BY <2>5, <4>3 DEF answer, serve
        <5>2. step' \in {step + 1, Len(script) + 1}
          BY <2>5, <4>3 DEF answer
        <5> QED  BY <4>1, <5>1, <5>2
      <4>4. program # "none"
        BY <2>5, JobPhases DEF answer, serve, JobInv, NoJob
      <4> QED  BY <4>2, <4>3, <4>4
    <3> QED  BY <3>1, <3>2
  <2>6. CASE Around
    <3>1. /\ UNCHANGED <<program, script, step, initialized>>
          /\ program = "diag_cli" => job' = job
      BY <2>6
      DEF Around, process_pending_requests, activate, PeersComeAndGo, Tick,
          serviceVars
    <3> QED  BY <3>1
  <2>7. CASE UNCHANGED allVars
    BY <2>7 DEF allVars, vars, serviceVars, programVars
  <2> QED
    BY <2>0, <2>1, <2>2, <2>3, <2>4, <2>5, <2>6, <2>7 DEF ProgramsNext
<1> QED  BY <1>1, <1>2, ProgramsUseService, JobInvariant, PTL DEF ProgramsSpec

(* Between the S3 check and the answer nobody changes the request, in the  *)
(* daemon or in the CLI.                                                   *)
LEMMA ServesAskedInvariant == ProgramsSpec => []ServesAsked
<1>1. ProgramsInit => ServesAsked
  BY DEF ProgramsInit, Init, ServesAsked, NoJob
<1>2. JobInv /\ ProcessInv /\ ServesAsked /\ [ProgramsNext]_allVars
      => ServesAsked'
  <2> SUFFICES ASSUME JobInv, ProcessInv, ServesAsked, [ProgramsNext]_allVars
               PROVE  ServesAsked'
    OBVIOUS
  <2> USE DEF ServesAsked
  <2>1. ASSUME job'.phase # "checked", heard' \in {heard, <<>>},
               heard # <<>> /\ job.phase = "checked" => heard' = <<>>
        PROVE  ServesAsked'
    BY <2>1
  <2>2. ASSUME NEW name, NEW command, start(name, command) PROVE ServesAsked'
    <3>1. job'.phase = "none" /\ heard' = heard
      BY <2>2 DEF start, initialize, Free
    <3> QED  BY <2>1, <2>2, <3>1 DEF start, initialize, Free
  <2>3. CASE exit
    BY <2>1, <2>3 DEF exit, shutdown, Free
  <2>4. CASE ask
    <3>1. program = "diag_cli" /\ heard = <<>>
      <4>1. program # "none"
        BY <2>4 DEF ask, process_request, ProcessInv
      <4>2. program # "tbox-diag"
        BY <2>4 DEF ask, ProcessInv
      <4>3. job.phase = "none"
        BY <2>4 DEF ask, process_request, Free
      <4> QED  BY <4>1, <4>2, <4>3 DEF ProcessInv
    <3> QED  BY <2>4, <3>1 DEF ask, process_request
  <2>5. ASSUME NEW raw \in Frames, receive(raw) PROVE ServesAsked'
    <3>1. CASE Decodes(raw)
      BY <2>5, <3>1 DEF receive, receive_request, RequestOfRound
    <3>2. CASE ~Decodes(raw)
      BY <2>1, <2>5, <3>2
      DEF receive, receive_nothing, NoJob
    <3> QED  BY <3>1, <3>2
  <2>6. ASSUME NEW outcome \in Outcomes, answer(outcome) PROVE ServesAsked'
    BY <2>1, <2>6 DEF answer, serve, NoJob
  <2>7. CASE Around
    <3>1. heard' = heard /\ UNCHANGED <<program, script, step, asked>>
      BY <2>7 DEF Around
    <3>2. \/ job' = job
          \/ job.phase # "checked" /\ job'.phase # "checked"
      BY <2>7
      DEF Around, process_pending_requests, activate, PeersComeAndGo, Tick,
          serviceVars, Free, NoJob, Activating, Receiving
    <3> QED  BY <2>1, <3>1, <3>2
  <2>8. CASE UNCHANGED allVars
    BY <2>8 DEF allVars, vars, serviceVars, programVars
  <2> QED
    BY <2>2, <2>3, <2>4, <2>5, <2>6, <2>7, <2>8 DEF ProgramsNext
<1> QED
  BY <1>1, <1>2, ProgramsUseService, JobInvariant, ProcessInvariant, PTL
  DEF ProgramsSpec

-----------------------------------------------------------------------------
(* What the bytes of a frame are, and what Decoded makes of them.          *)
LEMMA FrameBytes ==
    ASSUME NEW raw \in Frames
    PROVE  /\ raw \in Seq(Byte)
           /\ Len(raw) \in Nat
           /\ \A i \in 1 .. Len(raw) : raw[i] \in 0 .. 255
<1>1. raw \in Seq(Byte)
  BY ProgramsAssumption
<1>2. Len(raw) \in Nat /\ \A i \in 1 .. Len(raw) : raw[i] \in Byte
  BY <1>1
<1> QED  BY <1>1, <1>2 DEF Byte

(* Two bytes made into a number and back are the two bytes.                *)
LEMMA BytesOfWord ==
    ASSUME NEW high \in 0 .. 255, NEW low \in 0 .. 255
    PROVE  Bytes(Word(high, low)) = <<high, low>>
<1>1. (high * 256 + low) \div 256 = high /\ (high * 256 + low) % 256 = low
  OBVIOUS
<1> QED  BY <1>1 DEF Bytes, Word

(* The services, one by one.                                               *)
LEMMA DecodedByService ==
    ASSUME NEW raw \in Frames, Decodes(raw)
    PROVE  LET sid == raw[1]
               request == Decoded(raw, NewRequest) IN
           /\ Len(raw) >= 1
           /\ request.service_id = sid
           /\ sid \in {16, 62} => /\ Len(raw) >= 2
                                  /\ request.sub_function = raw[2]
                                  /\ request.payload = <<>>
           /\ sid = 34 => /\ Len(raw) >= 3
                          /\ request.did_or_rid = Word(raw[2], raw[3])
           /\ sid = 49 => /\ Len(raw) >= 4
                          /\ request.sub_function = raw[2]
                          /\ request.did_or_rid = Word(raw[3], raw[4])
                          /\ request.payload = From(raw, 5)
           /\ sid \notin {16, 62, 34, 49} /\ Len(raw) > 1 =>
                 /\ request.sub_function = raw[2]
                 /\ request.payload = From(raw, 3)
           /\ sid = 39 => Len(raw) >= 2
<1> DEFINE sid == raw[1]
           request == Decoded(raw, NewRequest)
<1>1. Len(raw) \in Nat /\ raw \in Seq(Byte) /\ raw # <<>>
  BY FrameBytes DEF Decodes
<1>2. Len(raw) >= 1
  BY <1>1
<1> USE DEF DIAGNOSTIC_SESSION_CONTROL, TESTER_PRESENT, SECURITY_ACCESS,
            READ_DATA_BY_IDENTIFIER, ROUTINE_CONTROL
<1>3. ASSUME NEW i \in Nat, i > Len(raw) PROVE From(raw, i) = <<>>
  BY <1>1, <1>3 DEF From
<1> DEFINE named == [service_id |-> sid, sub_function |-> 0, did_or_rid |-> 0,
                     payload |-> <<>>]
<1>n. [NewRequest EXCEPT !.service_id = raw[1]] = named
  BY DEF NewRequest
<1>d. request =
        CASE sid \in {16, 62} -> [named EXCEPT !.sub_function = raw[2]]
          [] sid = 34 -> [named EXCEPT !.did_or_rid = Word(raw[2], raw[3])]
          [] sid = 49 ->
                [named EXCEPT !.sub_function = raw[2],
                              !.did_or_rid = Word(raw[3], raw[4]),
                              !.payload = IF Len(raw) > 4 THEN From(raw, 5) ELSE @]
          [] OTHER ->
                [named EXCEPT !.sub_function = IF Len(raw) > 1 THEN raw[2] ELSE @,
                              !.payload = IF Len(raw) > 2 THEN From(raw, 3) ELSE @]
  BY Zenon, <1>n DEF Decoded
<1> DEFINE Reads ==
      /\ Len(raw) >= 1
      /\ request.service_id = sid
      /\ sid \in {16, 62} => /\ Len(raw) >= 2
                             /\ request.sub_function = raw[2]
                             /\ request.payload = <<>>
      /\ sid = 34 => /\ Len(raw) >= 3
                     /\ request.did_or_rid = Word(raw[2], raw[3])
      /\ sid = 49 => /\ Len(raw) >= 4
                     /\ request.sub_function = raw[2]
                     /\ request.did_or_rid = Word(raw[3], raw[4])
                     /\ request.payload = From(raw, 5)
      /\ sid \notin {16, 62, 34, 49} /\ Len(raw) > 1 =>
            /\ request.sub_function = raw[2]
            /\ request.payload = From(raw, 3)
      /\ sid = 39 => Len(raw) >= 2
<1> SUFFICES Reads
  OBVIOUS
<1> HIDE DEF request
<1>4. CASE sid \in {16, 62}
  <2>1. request = [named EXCEPT !.sub_function = raw[2]]
    BY <1>4, <1>d
  <2>2. Len(raw) >= 2
    BY <1>4 DEF Decodes
  <2> QED  BY <1>2, <1>4, <2>1, <2>2
<1>5. CASE sid = 34
  <2>1. request = [named EXCEPT !.did_or_rid = Word(raw[2], raw[3])]
    BY <1>5, <1>d
  <2>2. Len(raw) >= 3
    BY <1>5 DEF Decodes
  <2> QED  BY <1>2, <1>5, <2>1, <2>2
<1>6. CASE sid = 49
  <2> DEFINE rest == IF Len(raw) > 4 THEN From(raw, 5) ELSE named.payload
  <2>1. request = [named EXCEPT !.sub_function = raw[2],
                                !.did_or_rid = Word(raw[3], raw[4]),
                                !.payload = rest]
    BY <1>6, <1>d
  <2>2. Len(raw) >= 4
    BY <1>6 DEF Decodes
  <2>3. rest = From(raw, 5)
    BY <1>1, <1>3, <2>2
  <2> HIDE DEF rest
  <2> QED  BY <1>2, <1>6, <2>1, <2>2, <2>3
<1>7. CASE sid \notin {16, 62, 34, 49}
  <2> DEFINE sub == IF Len(raw) > 1 THEN raw[2] ELSE named.sub_function
             rest == IF Len(raw) > 2 THEN From(raw, 3) ELSE named.payload
  <2>1. request = [named EXCEPT !.sub_function = sub, !.payload = rest]
    BY <1>7, <1>d
  <2>2. rest = From(raw, 3)
    BY <1>1, <1>2, <1>3
  <2>3. Len(raw) > 1 => sub = raw[2]
    OBVIOUS
  <2>4. sid = 39 => Len(raw) >= 2
    BY DEF Decodes
  <2> HIDE DEF sub, rest
  <2> QED  BY <1>2, <1>7, <2>1, <2>2, <2>3, <2>4
<1> QED  BY <1>4, <1>5, <1>6, <1>7

(* A sequence of length two, by its members.                               *)
LEMMA PairOfSeq ==
    ASSUME NEW S, NEW s \in Seq(S), Len(s) = 2
    PROVE  s = <<s[1], s[2]>>
<1> DEFINE t == <<s[1], s[2]>>
<1>1. s[1] \in S /\ s[2] \in S
  BY ElementOfSeq
<1>2. t \in Seq(S) /\ Len(t) = 2 /\ t[1] = s[1] /\ t[2] = s[2]
  BY <1>1
<1> HIDE DEF t
<1>3. \A i \in 1 .. 2 : i = 1 \/ i = 2
  OBVIOUS
<1>4. s = t
  BY <1>2, <1>3, SeqEqual
<1> QED  BY <1>4 DEF t

(* Two bytes in a row.                                                     *)
LEMMA TwoBytes ==
    ASSUME NEW S, NEW s \in Seq(S), NEW i \in 1 .. Len(s),
           NEW j \in 1 .. Len(s), j = i + 1
    PROVE  SubSeq(s, i, j) = <<s[i], s[j]>>
<1>1. /\ i \in Int /\ j \in Int /\ i <= j /\ j - i + 1 = 2
      /\ \A k \in i .. j : s[k] \in S
  BY ElementOfSeq, LenProperties
<1>2. /\ SubSeq(s, i, j) \in Seq(S)
      /\ Len(SubSeq(s, i, j)) = 2
      /\ \A k \in 1 .. 2 : SubSeq(s, i, j)[k] = s[i + k - 1]
  BY <1>1, SubSeqProperties
<1>3. SubSeq(s, i, j)[1] = s[i] /\ SubSeq(s, i, j)[2] = s[j]
  <2>1. i + 1 - 1 = i /\ i + 2 - 1 = j /\ 1 \in 1 .. 2 /\ 2 \in 1 .. 2
    BY <1>1
  <2> QED  BY <1>2, <2>1
<1> QED  BY <1>2, <1>3, PairOfSeq

(* The first two, three and four bytes of a frame, as Layout puts them.    *)
LEMMA Beginnings ==
    ASSUME NEW raw \in Frames
    PROVE  /\ Len(raw) >= 2 => SubSeq(raw, 1, 2) = <<raw[1], raw[2]>>
           /\ Len(raw) >= 3 =>
                SubSeq(raw, 1, 3) = <<raw[1]>> \o <<raw[2], raw[3]>>
           /\ Len(raw) >= 4 =>
                SubSeq(raw, 1, 4) = <<raw[1], raw[2]>> \o <<raw[3], raw[4]>>
<1>1. raw \in Seq(Byte) /\ Len(raw) \in Nat
  BY FrameBytes
<1>2. ASSUME Len(raw) >= 2 PROVE SubSeq(raw, 1, 2) = <<raw[1], raw[2]>>
  BY <1>1, <1>2, TwoBytes
<1>3. ASSUME Len(raw) >= 3
      PROVE  SubSeq(raw, 1, 3) = <<raw[1]>> \o <<raw[2], raw[3]>>
  <2>1. SubSeq(raw, 2, 3) = <<raw[2], raw[3]>>
    BY <1>1, <1>3, TwoBytes
  <2>2. SubSeq(raw, 1, 3) = <<raw[1]>> \o SubSeq(raw, 1 + 1, 3)
    <3>1. 1 \in 1 .. Len(raw) /\ 3 \in 1 .. Len(raw)
      BY <1>1, <1>3
    <3> QED  BY <1>1, <3>1, SubSeqRecursiveFirst
  <2> QED  BY <2>1, <2>2
<1>4. ASSUME Len(raw) >= 4
      PROVE  SubSeq(raw, 1, 4) = <<raw[1], raw[2]>> \o <<raw[3], raw[4]>>
  <2>1. /\ SubSeq(raw, 1, 2) = <<raw[1], raw[2]>>
        /\ SubSeq(raw, 3, 4) = <<raw[3], raw[4]>>
    BY <1>1, <1>4, TwoBytes
  <2>2. SubSeq(raw, 1, 2) \o SubSeq(raw, 2 + 1, 4) = SubSeq(raw, 1, 4)
    <3>1. /\ 1 \in 1 .. Len(raw) + 1 /\ 2 \in 1 - 1 .. Len(raw)
          /\ 4 \in 2 .. Len(raw)
      BY <1>1, <1>4
    <3> QED  BY <1>1, <3>1, ConcatAdjacentSubSeq
  <2> QED  BY <2>1, <2>2
<1> QED  BY <1>2, <1>3, <1>4

(* A frame is its first n bytes and what From takes after them.            *)
LEMMA BeginningAndRest ==
    ASSUME NEW raw \in Frames, NEW n \in 1 .. Len(raw)
    PROVE  SubSeq(raw, 1, n) \o From(raw, n + 1) = raw
<1>1. raw \in Seq(Byte) /\ Len(raw) \in Nat
  BY FrameBytes
<1>2. SubSeq(raw, 1, n) \o SubSeq(raw, n + 1, Len(raw))
        = SubSeq(raw, 1, Len(raw))
  <2>1. /\ 1 \in 1 .. Len(raw) + 1 /\ n \in 1 - 1 .. Len(raw)
        /\ Len(raw) \in n .. Len(raw)
    BY <1>1
  <2> QED  BY <1>1, <2>1, ConcatAdjacentSubSeq
<1> QED  BY <1>1, <1>2, SubSeqFull DEF From

(* uds_codec.cpp:44-101: a request laid out as the standard has it is its  *)
(* frame, or, of a service without a payload, the beginning of it.         *)
LEMMA LaidOut ==
    ASSUME NEW raw \in Frames, Decodes(raw), Len(raw) > 1
    PROVE  LET laid == Layout(Decoded(raw, NewRequest)) IN
           /\ raw[1] \in {16, 62} => laid = SubSeq(raw, 1, 2) /\ Len(raw) >= 2
           /\ raw[1] = 34 => laid = SubSeq(raw, 1, 3) /\ Len(raw) >= 3
           /\ raw[1] \notin {16, 62, 34} => laid = raw
<1> DEFINE request == Decoded(raw, NewRequest)
           laid == Layout(request)
           Laid == /\ raw[1] \in {16, 62} =>
                        laid = SubSeq(raw, 1, 2) /\ Len(raw) >= 2
                   /\ raw[1] = 34 => laid = SubSeq(raw, 1, 3) /\ Len(raw) >= 3
                   /\ raw[1] \notin {16, 62, 34} => laid = raw
<1> SUFFICES Laid
  OBVIOUS
<1>1. raw \in Seq(Byte) /\ Len(raw) \in Nat
  BY FrameBytes
<1>2. request.service_id = raw[1]
  BY DecodedByService
<1> HIDE DEF request
<1>3. laid = IF raw[1] = 34 THEN <<34>> \o Bytes(request.did_or_rid)
             ELSE <<raw[1], request.sub_function>>
                  \o (IF raw[1] = 49 THEN Bytes(request.did_or_rid) ELSE <<>>)
                  \o request.payload
  BY <1>2 DEF Layout, READ_DATA_BY_IDENTIFIER, ROUTINE_CONTROL
<1> HIDE DEF laid
<1>4. CASE raw[1] \in {16, 62}
  <2>1. Len(raw) >= 2 /\ request.sub_function = raw[2] /\ request.payload = <<>>
    BY <1>4, DecodedByService DEF request
  <2>2. raw[1] # 34 /\ raw[1] # 49
    BY <1>4
  <2>3. laid = <<raw[1], raw[2]>> \o <<>> \o <<>>
    BY <1>3, <2>1, <2>2, Zenon
  <2>4. laid = <<raw[1], raw[2]>>
    BY <2>3
  <2> QED  BY <1>4, <2>1, <2>4, Beginnings
<1>5. CASE raw[1] = 34
  <2>1. Len(raw) >= 3 /\ request.did_or_rid = Word(raw[2], raw[3])
    BY <1>5, DecodedByService DEF request
  <2>2. Bytes(request.did_or_rid) = <<raw[2], raw[3]>>
    <3>1. raw[2] \in 0 .. 255 /\ raw[3] \in 0 .. 255
      BY <1>1, <2>1, FrameBytes
    <3> QED  BY <2>1, <3>1, BytesOfWord, Zenon
  <2>3. laid = <<raw[1]>> \o <<raw[2], raw[3]>>
    BY <1>3, <1>5, <2>2
  <2>4. laid = SubSeq(raw, 1, 3)
    BY <2>1, <2>3, Beginnings, Zenon
  <2> QED  BY <1>5, <2>1, <2>4
<1>6. CASE raw[1] = 49
  <2>1. /\ Len(raw) >= 4 /\ request.sub_function = raw[2]
        /\ request.did_or_rid = Word(raw[3], raw[4])
        /\ request.payload = From(raw, 5)
    BY <1>6, DecodedByService DEF request
  <2>2. Bytes(request.did_or_rid) = <<raw[3], raw[4]>>
    <3>1. raw[3] \in 0 .. 255 /\ raw[4] \in 0 .. 255
      BY <1>1, <2>1, FrameBytes
    <3> QED  BY <2>1, <3>1, BytesOfWord, Zenon
  <2>3. laid = <<raw[1], raw[2]>> \o <<raw[3], raw[4]>> \o From(raw, 5)
    BY <1>3, <1>6, <2>1, <2>2
  <2>4. <<raw[1], raw[2]>> \o <<raw[3], raw[4]>> = SubSeq(raw, 1, 4)
    BY <1>1, <2>1, Beginnings
  <2>5. SubSeq(raw, 1, 4) \o From(raw, 5) = raw
    <3>1. 4 \in 1 .. Len(raw) /\ 4 + 1 = 5
      BY <1>1, <2>1
    <3>2. SubSeq(raw, 1, 4) \o From(raw, 4 + 1) = raw
      BY <3>1, BeginningAndRest, ZenonT(30)
    <3> QED  BY <3>1, <3>2, Zenon
  <2> QED  BY <1>6, <2>3, <2>4, <2>5
<1>7. CASE raw[1] \notin {16, 62, 34, 49}
  <2>1. request.sub_function = raw[2] /\ request.payload = From(raw, 3)
    BY <1>7, DecodedByService DEF request
  <2>2. laid = <<raw[1], raw[2]>> \o <<>> \o From(raw, 3)
    BY <1>3, <1>7, <2>1
  <2>3. <<raw[1], raw[2]>> \o <<>> = SubSeq(raw, 1, 2)
    BY <1>1, Beginnings
  <2>4. SubSeq(raw, 1, 2) \o From(raw, 3) = raw
    <3>1. 2 \in 1 .. Len(raw) /\ 2 + 1 = 3
      BY <1>1
    <3>2. SubSeq(raw, 1, 2) \o From(raw, 2 + 1) = raw
      BY <3>1, BeginningAndRest, ZenonT(30)
    <3> QED  BY <3>1, <3>2, Zenon
  <2> QED  BY <1>7, <2>2, <2>3, <2>4
<1> QED  BY <1>4, <1>5, <1>6, <1>7

(* For all frames: what the dispatcher is given is what the tester sent,   *)
(* and nothing of an earlier frame is in it.                               *)
THEOREM ProgramsRequestIsItsFrame == ProgramsSpec => []RequestIsItsFrame
<1>1. ServesAsked => RequestIsItsFrame
  <2> SUFFICES ASSUME ServesAsked, program = "tbox-diag",
                      job.phase = "checked", Len(heard) > 1
               PROVE  LET laid == Layout(asked) IN
                      /\ Len(laid) <= Len(heard)
                      /\ laid = SubSeq(heard, 1, Len(laid))
                      /\ TakesAll(heard[1]) => laid = heard
    BY DEF RequestIsItsFrame
  <2> DEFINE laid == Layout(asked)
  <2>1. /\ heard \in Frames /\ Decodes(heard)
        /\ asked = Decoded(heard, NewRequest)
    BY DEF ServesAsked
  <2>2. heard \in Seq(Byte) /\ Len(heard) \in Nat
    BY <2>1, FrameBytes
  <2>3. CASE heard[1] \in {16, 62}
    BY <2>1, <2>2, <2>3, LaidOut
    DEF TakesAll, SECURITY_ACCESS, ROUTINE_CONTROL
  <2>4. CASE heard[1] = 34
    BY <2>1, <2>2, <2>4, LaidOut
    DEF TakesAll, SECURITY_ACCESS, ROUTINE_CONTROL
  <2>5. CASE heard[1] \notin {16, 62, 34}
    BY <2>1, <2>2, <2>5, LaidOut, SubSeqFull
  <2> QED  BY <2>3, <2>4, <2>5
<1> QED  BY <1>1, ServesAskedInvariant, PTL

-----------------------------------------------------------------------------
(* What comes after one byte, and after two.                               *)
LEMMA SecondPart ==
    ASSUME NEW S, NEW s \in Seq(S), NEW t \in Seq(S), Len(t) > 0
    PROVE  SubSeq(s \o t, Len(s) + 1, Len(s) + Len(t)) = t
<1> DEFINE i == Len(s) + 1
           k == Len(s) + Len(t)
<1>1. /\ i \in Len(s) + 1 .. Len(s) + Len(t)
      /\ k \in Len(s) + 1 .. Len(s) + Len(t)
      /\ i - Len(s) = 1 /\ k - Len(s) = Len(t)
  OBVIOUS
<1>2. SubSeq(t, 1, Len(t)) = t
  BY SubSeqFull
<1> SUFFICES SubSeq(s \o t, i, k) = t
  OBVIOUS
<1> HIDE DEF i, k
<1>3. SubSeq(s \o t, i, k) = SubSeq(t, i - Len(s), k - Len(s))
  BY <1>1, SubSeqOfConcat2
<1> QED  BY <1>1, <1>2, <1>3

(* One byte and two more: the identifier after a service.                  *)
LEMMA HeadAndRest ==
    ASSUME NEW S, NEW s \in Seq(S), NEW t \in Seq(S), Len(s) = 1, Len(t) = 2
    PROVE  SubSeq(s \o t, 2, 3) = t /\ (s \o t)[1] = s[1]
<1>1. Len(s) + 1 = 2 /\ Len(s) + Len(t) = 3 /\ Len(t) > 0
  OBVIOUS
<1>2. SubSeq(s \o t, 2, 3) = t
  <2>1. SubSeq(s \o t, Len(s) + 1, Len(s) + Len(t)) = t
    BY <1>1, SecondPart
  <2> QED  BY <1>1, <2>1, Zenon
<1>3. (s \o t)[1] = s[1]
  BY ConcatProperties
<1> QED  BY <1>2, <1>3

(* Two bytes and two more: the identifier after a sub-function.            *)
LEMMA TwoAndRest ==
    ASSUME NEW S, NEW s \in Seq(S), NEW t \in Seq(S), Len(s) = 2, Len(t) = 2
    PROVE  SubSeq(s \o t, 2, 4) = <<s[2]>> \o t /\ (s \o t)[1] = s[1]
<1>1. s \o t \in Seq(S) /\ Len(s \o t) = 4 /\ (s \o t)[1] = s[1] /\ (s \o t)[2] = s[2]
  <2>1. /\ s \o t \in Seq(S) /\ Len(s \o t) = Len(s) + Len(t)
        /\ \A i \in 1 .. Len(s) + Len(t) :
              (s \o t)[i] = IF i <= Len(s) THEN s[i] ELSE t[i - Len(s)]
    BY ConcatProperties, Zenon
  <2>2. /\ 1 \in 1 .. Len(s) + Len(t) /\ 2 \in 1 .. Len(s) + Len(t)
        /\ 1 <= Len(s) /\ 2 <= Len(s) /\ Len(s) + Len(t) = 4
    OBVIOUS
  <2> QED  BY <2>1, <2>2, Zenon
<1>2. SubSeq(s \o t, 3, 4) = t
  <2>1. Len(s) + 1 = 3 /\ Len(s) + Len(t) = 4 /\ Len(t) > 0
    OBVIOUS
  <2>2. SubSeq(s \o t, Len(s) + 1, Len(s) + Len(t)) = t
    BY <2>1, SecondPart
  <2> QED  BY <2>1, <2>2, Zenon
<1>4. SubSeq(s \o t, 2, 4) = <<(s \o t)[2]>> \o SubSeq(s \o t, 2 + 1, 4)
  <2>1. 2 \in 1 .. Len(s \o t) /\ 4 \in 2 .. Len(s \o t)
    BY <1>1
  <2> QED  BY <1>1, <2>1, SubSeqRecursiveFirst
<1>5. 2 + 1 = 3
  OBVIOUS
<1> QED  BY <1>1, <1>2, <1>4, <1>5, Zenon

(* What is cut to seven bits stays so.                                     *)
LEMMA CutTwice ==
    ASSUME NEW n \in 0 .. 255
    PROVE  (n % 128) % 128 = n % 128
  OBVIOUS

(* uds_codec.cpp:108-137: what a response shows of its request.            *)
LEMMA PositiveNames ==
    ASSUME NEW raw \in Frames, Decodes(raw), raw[1] \in {16, 62, 39, 34, 49}
    PROVE  LET bytes == Encode(PositiveResponse(Decoded(raw, NewRequest))) IN
           /\ bytes[1] = raw[1] + 64
           /\ raw[1] = 34 => SubSeq(bytes, 2, 3) = SubSeq(raw, 2, 3)
           /\ raw[1] = 49 => SubSeq(bytes, 2, 4) = SubSeq(raw, 2, 4)
           /\ raw[1] \in {16, 62, 39} => bytes[2] % 128 = raw[2] % 128
<1> DEFINE request == Decoded(raw, NewRequest)
           bytes == Encode(PositiveResponse(request))
           Names == /\ bytes[1] = raw[1] + 64
                    /\ raw[1] = 34 => SubSeq(bytes, 2, 3) = SubSeq(raw, 2, 3)
                    /\ raw[1] = 49 => SubSeq(bytes, 2, 4) = SubSeq(raw, 2, 4)
                    /\ raw[1] \in {16, 62, 39} => bytes[2] % 128 = raw[2] % 128
<1> SUFFICES Names
  OBVIOUS
<1>1. raw \in Seq(Byte) /\ Len(raw) \in Nat
  BY FrameBytes
<1>2. request.service_id = raw[1]
  BY DecodedByService
<1> HIDE DEF request
<1> DEFINE echo == IF raw[1] = 16 THEN request.sub_function % 128
                   ELSE IF raw[1] = 34 THEN 0 ELSE request.sub_function
           named == IF raw[1] \in {34, 49} THEN Bytes(request.did_or_rid) ELSE <<>>
<1>3. bytes = (IF raw[1] = 34 THEN <<98>> ELSE <<raw[1] + 64, echo>>) \o named
  <2> DEFINE response_of == PositiveResponse(request)
  <2>1. /\ response_of.positive = TRUE
        /\ response_of.service_id = raw[1] + 64
        /\ response_of.sub_function = echo
        /\ response_of.payload = named
    BY <1>2
    DEF PositiveResponse, DIAGNOSTIC_SESSION_CONTROL, READ_DATA_BY_IDENTIFIER,
        ROUTINE_CONTROL
  <2> HIDE DEF echo, named, response_of
  <2>2. raw[1] + 64 = 34 + 64 <=> raw[1] = 34
    OBVIOUS
  <2>3. 34 + 64 = 98
    OBVIOUS
  <2>4. bytes = (IF raw[1] + 64 = 34 + 64 THEN <<raw[1] + 64>>
                 ELSE <<raw[1] + 64, echo>>) \o named
    BY <2>1, Zenon DEF Encode, READ_DATA_BY_IDENTIFIER, response_of
  <2> QED  BY <2>2, <2>3, <2>4, Zenon
<1> HIDE DEF bytes
<1>4. CASE raw[1] \in {16, 62, 39}
  <2>1. Len(raw) >= 2 /\ request.sub_function = raw[2] /\ raw[2] \in 0 .. 255
    <3>1. Len(raw) >= 2 /\ request.sub_function = raw[2]
      BY <1>1, <1>4, DecodedByService DEF request
    <3> QED  BY <1>1, <3>1, FrameBytes
  <2>2. named = <<>>
    BY <1>4
  <2>e. echo = raw[2] \/ echo = raw[2] % 128
    BY <1>4, <2>1
  <2> HIDE DEF named, echo
  <2>3. bytes = <<raw[1] + 64, echo>> \o <<>>
    BY <1>3, <1>4, <2>2
  <2>4. bytes[1] = raw[1] + 64 /\ bytes[2] = echo
    BY <2>3
  <2>5. echo % 128 = raw[2] % 128
    <3>1. CASE echo = raw[2]
      BY <3>1
    <3>2. CASE echo = raw[2] % 128
      <4>1. (raw[2] % 128) % 128 = raw[2] % 128
        BY <2>1, CutTwice, Zenon
      <4> QED  BY <3>2, <4>1, Zenon
    <3> QED  BY <2>e, <3>1, <3>2
  <2> QED  BY <1>4, <2>4, <2>5
<1>5. CASE raw[1] = 34
  <2>1. Len(raw) >= 3 /\ request.did_or_rid = Word(raw[2], raw[3])
    BY <1>5, DecodedByService DEF request
  <2>2. raw[2] \in 0 .. 255 /\ raw[3] \in 0 .. 255
    BY <1>1, <2>1, FrameBytes
  <2>3. named = <<raw[2], raw[3]>>
    BY <1>5, <2>1, <2>2, BytesOfWord, Zenon
  <2>4. SubSeq(raw, 2, 3) = <<raw[2], raw[3]>>
    BY <1>1, <2>1, TwoBytes
  <2> HIDE DEF named, echo
  <2> DEFINE head == <<98>>
  <2>5. head \in Seq(Nat) /\ Len(head) = 1 /\ head[1] = 98
    OBVIOUS
  <2>6. named \in Seq(Nat) /\ Len(named) = 2
    BY <2>2, <2>3
  <2>7. bytes = head \o named
    BY <1>3, <1>5
  <2> HIDE DEF head
  <2>8. SubSeq(head \o named, 2, 3) = named /\ (head \o named)[1] = head[1]
    BY <2>5, <2>6, HeadAndRest
  <2>9. /\ bytes[1] = raw[1] + 64
        /\ SubSeq(bytes, 2, 3) = SubSeq(raw, 2, 3)
    <3>1. raw[1] + 64 = 98
      BY <1>5
    <3> QED  BY <2>3, <2>4, <2>5, <2>7, <2>8, <3>1, Zenon
  <2>10. raw[1] # 49 /\ raw[1] \notin {16, 62, 39}
    BY <1>5
  <2> QED  BY <2>9, <2>10, Zenon
<1>6. CASE raw[1] = 49
  <2>1. /\ Len(raw) >= 4 /\ request.did_or_rid = Word(raw[3], raw[4])
        /\ request.sub_function = raw[2]
    BY <1>6, DecodedByService DEF request
  <2>2. raw[2] \in 0 .. 255 /\ raw[3] \in 0 .. 255 /\ raw[4] \in 0 .. 255
    BY <1>1, <2>1, FrameBytes
  <2>3. named = <<raw[3], raw[4]>>
    <3>1. Bytes(Word(raw[3], raw[4])) = <<raw[3], raw[4]>>
      BY <2>2, BytesOfWord, ZenonT(30)
    <3> QED  BY <1>6, <2>1, <3>1
  <2>4. /\ SubSeq(raw, 3, 4) = <<raw[3], raw[4]>>
        /\ SubSeq(raw, 2, 4) = <<raw[2]>> \o SubSeq(raw, 2 + 1, 4)
    <3>1. 2 \in 1 .. Len(raw) /\ 3 \in 1 .. Len(raw) /\ 4 \in 2 .. Len(raw)
      BY <1>1, <2>1
    <3>2. SubSeq(raw, 3, 4) = <<raw[3], raw[4]>>
      BY <1>1, <2>1, TwoBytes
    <3>3. SubSeq(raw, 2, 4) = <<raw[2]>> \o SubSeq(raw, 2 + 1, 4)
      BY <1>1, <3>1, SubSeqRecursiveFirst
    <3> QED  BY <3>2, <3>3
  <2>5. echo = raw[2]
    BY <1>6, <2>1
  <2> HIDE DEF named, echo
  <2> DEFINE head == <<113, raw[2]>>
  <2>6. /\ head \in Seq(Nat) /\ Len(head) = 2
        /\ head[1] = 113 /\ head[2] = raw[2]
    BY <2>2
  <2>7. named \in Seq(Nat) /\ Len(named) = 2
    BY <2>2, <2>3
  <2>8. bytes = head \o named
    BY <1>3, <1>6, <2>5
  <2> HIDE DEF head
  <2>9. /\ SubSeq(head \o named, 2, 4) = <<head[2]>> \o named
        /\ (head \o named)[1] = head[1]
    <3>1. head \in Seq(Nat) /\ Len(head) = 2
      BY <2>6
    <3> QED  BY <2>7, <3>1, TwoAndRest
  <2>10. /\ bytes[1] = raw[1] + 64
         /\ SubSeq(bytes, 2, 4) = SubSeq(raw, 2, 4)
    <3>1. raw[1] + 64 = 113 /\ 2 + 1 = 3
      BY <1>6
    <3> QED  BY <2>3, <2>4, <2>6, <2>8, <2>9, <3>1, Zenon
  <2>11. raw[1] # 34 /\ raw[1] \notin {16, 62, 39}
    BY <1>6
  <2> QED  BY <2>10, <2>11, Zenon
<1> QED  BY <1>4, <1>5, <1>6

(* A service the dispatcher does not know is answered negatively.          *)
LEMMA UnknownIsRefused ==
    ASSUME NEW who, NEW src, NEW request, NEW outcome,
           dispatch(who, src, Meaning(request), outcome),
           request.service_id \notin {16, 62, 39, 49, 34}
    PROVE  response'.nrc # "POSITIVE"
<1>1. Meaning(request) = [sid |-> "UNKNOWN"]
  BY MeaningByService
<1>2. Meaning(request).sid = "UNKNOWN"
  BY <1>1
<1>3. Reject(who, Meaning(request), "SERVICE_NOT_SUPPORTED")
  BY <1>2 DEF dispatch
<1> QED  BY <1>3 DEF Reject, Respond

(* For all frames: the first bytes of an answer say what was asked and     *)
(* whether it was granted.                                                 *)
THEOREM ProgramsAnswerNamesRequest == ProgramsSpec => AnswerNamesItsRequest
<1> DEFINE Named ==
      IF response'.nrc # "POSITIVE"
      THEN Len(said') = 3 /\ said'[1] = NEGATIVE_RESPONSE /\ said'[2] = heard[1]
      ELSE /\ said'[1] = heard[1] + 64
           /\ CASE heard[1] = READ_DATA_BY_IDENTIFIER ->
                      SubSeq(said', 2, 3) = SubSeq(heard, 2, 3)
                [] heard[1] = ROUTINE_CONTROL ->
                      SubSeq(said', 2, 4) = SubSeq(heard, 2, 4)
                [] OTHER -> said'[2] % 128 = heard[2] % 128
<1>1. ServesAsked /\ [ProgramsNext]_allVars
      => [heard # <<>> /\ said' # <<>> => Named]_allVars
  <2> SUFFICES ASSUME ServesAsked, ProgramsNext, heard # <<>>, said' # <<>>
               PROVE  Named
    OBVIOUS
  <2>1. /\ job.phase = "checked" /\ heard \in Frames /\ Decodes(heard)
        /\ asked = Decoded(heard, NewRequest) /\ job.req = Meaning(asked)
    BY DEF ServesAsked
  <2>2. PICK outcome \in Outcomes : answer(outcome)
    BY <2>1
    DEF ProgramsNext, start, initialize, exit, shutdown, ask, process_request,
        receive, Around, Free
  <2>3. /\ dispatch(job.who, job.src, Meaning(asked), outcome)
        /\ said' = Encode(DiagResponse(asked, response'.nrc))
    BY <2>1, <2>2 DEF answer, serve
  <2>4. asked.service_id = heard[1]
    BY <2>1, DecodedByService
  <2>5. CASE response'.nrc # "POSITIVE"
    <3> DEFINE code == NrcCode(response'.nrc)
    <3>1. said' = Encode(NegativeResponse(asked, code))
      BY <2>3, <2>5 DEF DiagResponse
    <3> HIDE DEF code
    <3>2. said' = <<NEGATIVE_RESPONSE, asked.service_id, code>>
      BY <3>1 DEF Encode, NegativeResponse
    <3>3. Len(said') = 3 /\ said'[1] = NEGATIVE_RESPONSE /\ said'[2] = asked.service_id
      BY <3>2
    <3> QED  BY <2>4, <2>5, <3>3
  <2>6. CASE response'.nrc = "POSITIVE"
    <3>1. heard[1] \in {16, 62, 39, 34, 49}
      BY <2>3, <2>4, <2>6, UnknownIsRefused
    <3>2. said' = Encode(PositiveResponse(Decoded(heard, NewRequest)))
      BY <2>1, <2>3, <2>6 DEF DiagResponse
    <3>3. /\ said'[1] = heard[1] + 64
          /\ heard[1] = 34 => SubSeq(said', 2, 3) = SubSeq(heard, 2, 3)
          /\ heard[1] = 49 => SubSeq(said', 2, 4) = SubSeq(heard, 2, 4)
          /\ heard[1] \in {16, 62, 39} => said'[2] % 128 = heard[2] % 128
      BY <2>1, <3>1, <3>2, PositiveNames
    <3> QED
      BY <2>6, <3>1, <3>3 DEF READ_DATA_BY_IDENTIFIER, ROUTINE_CONTROL
  <2> QED  BY <2>5, <2>6
<1> QED
  BY <1>1, ServesAskedInvariant, PTL DEF ProgramsSpec, AnswerNamesItsRequest

-----------------------------------------------------------------------------
(* The level the CLI works with, as the steps around a request leave it.   *)
LEMMA LevelOne == LEVEL_1 \in SA!Levels /\ LEVEL_1 = 1
  BY DispatcherAssumption DEF SA!Levels, LEVEL_1

SameLock(s, t) == /\ s.unlocked = t.unlocked
                  /\ s.seed_requested = t.seed_requested
                  /\ s.attempt_count = t.attempt_count

(* Time changes nothing of a level but its lockout.                        *)
LEMMA LockAges ==
    ASSUME SA!TypeOK
    PROVE  SameLock(SA!Elapsed(states)[LEVEL_1], states[LEVEL_1])
<1>1. states[LEVEL_1] \in [seed_requested : BOOLEAN, unlocked : BOOLEAN,
                           attempt_count : 0 .. MAX_ATTEMPTS,
                           lock_left : 0 .. LOCKOUT]
  BY LevelOne DEF SA!TypeOK
<1>2. SA!Elapsed(states)[LEVEL_1] =
        [states[LEVEL_1] EXCEPT !.lock_left =
            IF states[LEVEL_1].lock_left > 0
            THEN states[LEVEL_1].lock_left - 1 ELSE 0]
  BY LevelOne DEF SA!Elapsed
<1> QED  BY <1>1, <1>2 DEF SameLock

(* The main loop, the peers and time leave lock, answer and script alone.  *)
LEMMA AroundKeepsLock ==
    ASSUME TypeOK, Around
    PROVE  /\ SameLock(states'[LEVEL_1], states[LEVEL_1])
           /\ response' \in {response, NoResponse}
           /\ UNCHANGED <<program, script, step, excused>>
<1>1. CASE process_pending_requests \/ activate
  BY <1>1 DEF Around, process_pending_requests, activate, securityVars, SameLock
<1>2. CASE PeersComeAndGo
  BY <1>2
  DEF Around, PeersComeAndGo, SA!SecComesAndGoes, securityVars, SameLock
<1>3. CASE Tick
  BY <1>3, LockAges DEF Around, Tick, SA!Tick, TypeOK
<1> QED  BY <1>1, <1>2, <1>3 DEF Around

(* No request but that for a routine has the routine's work done.          *)
LEMMA WorkOfRequest ==
    ASSUME NEW who, NEW src, NEW req, NEW outcome,
           dispatch(who, src, req, outcome),
           response'.work \notin {"none", "read_vin"}
    PROVE  req.sid = "ROUTINE_CONTROL" /\ response'.work = req.rid
<1>1. ASSUME NEW nrc PROVE ~Respond(who, req, nrc, "none")
  BY DEF Respond
<1>2. ASSUME NEW nrc PROVE ~Respond(who, req, nrc, "read_vin")
  BY DEF Respond
<1>3. /\ ~handle_session_control(who, src, req)
      /\ ~handle_tester_present(who, src, req)
  BY <1>1 DEF handle_session_control, handle_tester_present
<1>4. ~handle_security_access(who, req, outcome)
  BY <1>1 DEF handle_security_access, Reject
<1>5. ~handle_read_data_by_identifier(who, req, outcome)
  BY <1>1, <1>2 DEF handle_read_data_by_identifier, Reject
<1>6. ~Reject(who, req, "SERVICE_NOT_SUPPORTED")
  BY <1>1 DEF Reject
<1>7. /\ req.sid = "ROUTINE_CONTROL"
      /\ handle_routine_control(who, req, outcome)
  BY <1>3, <1>4, <1>5, <1>6 DEF dispatch
<1>8. ASSUME NEW nrc, Respond(who, req, nrc, req.rid)
      PROVE  response'.work = req.rid
  BY <1>8 DEF Respond
<1> QED  BY <1>1, <1>7, <1>8 DEF handle_routine_control, Reject

(* What the steps of write_vin mean to the dispatcher.                     *)
LEMMA MeaningOfWrite ==
    ASSUME NEW vin \in Arguments, NEW key \in Arguments
    PROVE  LET script_of == write_vin(vin, key) IN
           /\ Meaning(script_of[1]) = [sid |-> "SESSION_CONTROL", type |-> "EXTENDED"]
           /\ Meaning(script_of[2]) = [sid |-> "SECURITY_ACCESS", sub |-> 1]
           /\ Meaning(script_of[3]) = [sid |-> "SECURITY_ACCESS", sub |-> 2]
           /\ Meaning(script_of[4]) =
                [sid |-> "ROUTINE_CONTROL", rid |-> "WRITE_VIN_ROUTINE",
                 payload |-> IF Len(vin) >= 17 THEN "full"
                             ELSE IF vin = <<>> THEN "empty" ELSE "short"]
<1>1. vin \in Seq(Byte) /\ Len(vin) \in Nat
  BY ProgramsAssumption
<1> DEFINE s1 == Asks(16, 3, 0, <<>>)
           s2 == Asks(39, 1, 0, <<>>)
           s3 == Asks(39, 130, 0, key)
           s4 == Asks(49, 1, 65280, vin)
<1>2. /\ s1.service_id = 16 /\ s1.sub_function = 3
      /\ s2.service_id = 39 /\ s2.sub_function = 1
      /\ s3.service_id = 39 /\ s3.sub_function = 130
      /\ s4.service_id = 49 /\ s4.did_or_rid = 65280 /\ s4.payload = vin
  BY DEF Asks
<1> HIDE DEF s1, s2, s3, s4
<1>3. Meaning(s1) = [sid |-> "SESSION_CONTROL", type |-> "EXTENDED"]
  <2>1. SessionType(3) = "EXTENDED"
    BY DEF SessionType
  <2> QED  BY <1>2, <2>1, MeaningByService
<1>4. Meaning(s2) = [sid |-> "SECURITY_ACCESS", sub |-> 1]
  <2>1. 1 % 128 = 1
    OBVIOUS
  <2> QED  BY <1>2, <2>1, MeaningByService
<1>5. Meaning(s3) = [sid |-> "SECURITY_ACCESS", sub |-> 2]
  <2>1. 130 % 128 = 2
    OBVIOUS
  <2> QED  BY <1>2, <2>1, MeaningByService
<1>6. Meaning(s4) =
        [sid |-> "ROUTINE_CONTROL", rid |-> "WRITE_VIN_ROUTINE",
         payload |-> IF Len(vin) >= 17 THEN "full"
                     ELSE IF vin = <<>> THEN "empty" ELSE "short"]
  <2>1. RoutineName(65280) = "WRITE_VIN_ROUTINE"
    BY DEF RoutineName, WRITE_VIN_ROUTINE, GENERATE_KEY_PAIR, READ_CSR,
           INJECT_CERTIFICATE
  <2>2. PayloadSize(s4) = IF Len(vin) >= 17 THEN "full"
                          ELSE IF vin = <<>> THEN "empty" ELSE "short"
    BY <1>1, <1>2, <2>1 DEF PayloadSize
  <2> QED  BY <1>2, <2>1, <2>2, MeaningByService
<1> QED  BY <1>3, <1>4, <1>5, <1>6, WriteSteps DEF s1, s2, s3, s4

(* A certificate command is the only request of its process.               *)
LEMMA CertificateRefused ==
    ASSUME JobInv, ProcessInv, ServesAsked, CertificatesOutOfReach,
           NEW outcome \in Outcomes, answer(outcome), program = "diag_cli"
    PROVE  response'.work \notin CertificateRoutines
<1> SUFFICES ASSUME response'.work \in CertificateRoutines PROVE FALSE
  OBVIOUS
<1>1. /\ dispatch(job.who, job.src, job.req, outcome)
      /\ job.phase = "checked"
  BY DEF answer, serve
<1>2. job.req \in Requests /\ job.req = Meaning(asked)
  BY <1>1, JobPhases DEF Serving, ServesAsked
<1>3. response'.work \in ProtectedWork /\ response'.work \notin {"none", "read_vin"}
  BY DEF ProtectedWork, Routines, CertificateRoutines
<1>4. states[LEVEL_1].unlocked
  BY <1>1, <1>2, <1>3, ProtectedWorkPassed, LevelOne DEF SA!Unlocked, SA!StateKey
<1>5. step # 1 /\ step \in 1 .. Len(script) /\ asked = script[step]
  BY <1>1, <1>4, CommandLength DEF CertificatesOutOfReach, ProcessInv, ServesAsked
<1>6. PICK vin \in Arguments, key \in Arguments : script = write_vin(vin, key)
  BY <1>5, CommandShapes DEF ProcessInv
<1>7. step \in {2, 3, 4}
  BY <1>5, <1>6, WriteSteps
<1>8. Meaning(asked).sid = "ROUTINE_CONTROL" /\ response'.work = Meaning(asked).rid
  BY <1>1, <1>2, <1>3, WorkOfRequest
<1> DEFINE script_of == write_vin(vin, key)
<1>9. /\ Meaning(script_of[2]).sid = "SECURITY_ACCESS"
      /\ Meaning(script_of[3]).sid = "SECURITY_ACCESS"
      /\ Meaning(script_of[4]).rid = "WRITE_VIN_ROUTINE"
  <2>1. \E payload :
          /\ Meaning(script_of[2]) = [sid |-> "SECURITY_ACCESS", sub |-> 1]
          /\ Meaning(script_of[3]) = [sid |-> "SECURITY_ACCESS", sub |-> 2]
          /\ Meaning(script_of[4]) =
               [sid |-> "ROUTINE_CONTROL", rid |-> "WRITE_VIN_ROUTINE",
                payload |-> payload]
    BY MeaningOfWrite, Zenon
  <2> HIDE DEF script_of
  <2> QED  BY <2>1
<1>10. asked \in {script_of[2], script_of[3], script_of[4]}
  BY <1>5, <1>6, <1>7
<1> HIDE DEF script_of
<1> QED  BY <1>8, <1>9, <1>10 DEF CertificateRoutines

(* main.cpp and diag_cli.cpp start each process with a service of its own: *)
(* what it has unlocked, it unlocked itself.                               *)
LEMMA CertificatesInvariant == ProgramsSpec => []CertificatesOutOfReach
<1>1. ProgramsInit => CertificatesOutOfReach
  BY DEF ProgramsInit, CertificatesOutOfReach
<1>2. /\ TypeOK /\ JobInv /\ ProcessInv /\ ServesAsked /\ CertificatesOutOfReach
      /\ [ProgramsNext]_allVars
      => CertificatesOutOfReach'
  <2> SUFFICES ASSUME TypeOK, JobInv, ProcessInv, ServesAsked,
                      CertificatesOutOfReach, [ProgramsNext]_allVars
               PROVE  CertificatesOutOfReach'
    OBVIOUS
  <2>0. NoResponse.work \notin CertificateRoutines
    BY DEF NoResponse, CertificateRoutines
  <2>1. ASSUME NEW name, NEW command, start(name, command)
        PROVE  CertificatesOutOfReach'
    BY <2>0, <2>1, LevelOne
    DEF start, initialize, SA!reset, SA!NewStates, SA!NewState,
        CertificatesOutOfReach
  <2>2. CASE exit
    BY <2>2 DEF exit, CertificatesOutOfReach
  <2>3. CASE ask
    BY <2>0, <2>3
    DEF ask, process_request, securityVars, CertificatesOutOfReach
  <2>4. ASSUME NEW raw \in Frames, receive(raw) PROVE CertificatesOutOfReach'
    BY <2>4 DEF receive, CertificatesOutOfReach
  <2>5. ASSUME NEW outcome \in Outcomes, answer(outcome)
        PROVE  CertificatesOutOfReach'
    <3>1. program' = program
      BY <2>5 DEF answer
    <3>2. CASE program = "diag_cli"
      <4>1. response'.work \notin CertificateRoutines
        BY <2>5, <3>2, CertificateRefused
      <4>2. step \in Nat /\ step >= 1 /\ Len(script) \in Nat /\ step <= Len(script)
        BY <2>5, <3>2, CommandLength DEF ProcessInv, answer, serve
      <4>3. step' \in {step + 1, Len(script) + 1}
        BY <2>5, <3>2 DEF answer
      <4>4. step' # 1
        BY <4>2, <4>3
      <4> QED  BY <4>1, <4>4 DEF CertificatesOutOfReach
    <3> QED  BY <3>1, <3>2 DEF CertificatesOutOfReach
  <2>6. CASE Around
    BY <2>0, <2>6, AroundKeepsLock DEF SameLock, CertificatesOutOfReach
  <2>7. CASE UNCHANGED allVars
    BY <2>7
    DEF allVars, vars, securityVars, programVars, CertificatesOutOfReach
  <2> QED
    BY <2>1, <2>2, <2>3, <2>4, <2>5, <2>6, <2>7 DEF ProgramsNext
<1> QED
  BY <1>1, <1>2, ProgramsUseService, ServiceTypeOK, JobInvariant,
     ProcessInvariant, ServesAskedInvariant, PTL
  DEF ProgramsSpec

(* diag_cli.cpp: for all keys and certificates, no command of a process    *)
(* reaches SEC with a certificate routine.                                 *)
THEOREM ProgramsRefuseCertificates == ProgramsSpec => CertificateCommandsRefused
<1>1. CertificatesOutOfReach' /\ [ProgramsNext]_allVars
      => [program = "diag_cli" => response'.work \notin CertificateRoutines]_allVars
  <2> SUFFICES ASSUME CertificatesOutOfReach', ProgramsNext, program = "diag_cli"
               PROVE  response'.work \notin CertificateRoutines
    OBVIOUS
  <2>1. CASE exit
    BY <2>1 DEF exit, shutdown, NoResponse, CertificateRoutines
  <2>2. CASE program' = program
    BY <2>2 DEF CertificatesOutOfReach
  <2> QED  BY <2>1, <2>2 DEF ProgramsNext, start, ask, receive, answer, Around
<1> QED
  BY <1>1, CertificatesInvariant, PTL DEF ProgramsSpec, CertificateCommandsRefused

-----------------------------------------------------------------------------
(* The four steps of write_vin, each granted after the one before it.      *)
LEMMA SessionGranted ==
    ASSUME NEW who, NEW src, NEW req,
           req = [sid |-> "SESSION_CONTROL", type |-> "EXTENDED"],
           dispatch(who, src, req, "ok"),
           session.session_type = "DEFAULT"
    PROVE  response'.nrc = "POSITIVE" /\ UNCHANGED states
<1>1. req.sid = "SESSION_CONTROL" /\ req.type = "EXTENDED"
  OBVIOUS
<1>2. handle_session_control(who, src, req)
  BY <1>1 DEF dispatch
<1>3. SM!SwitchCode(session, "EXTENDED", src) = "SUCCESS"
  BY DEF SM!SwitchCode, SM!Occupied, SM!SessionTypes
<1>4. call'.code = "SUCCESS"
  BY <1>1, <1>2, <1>3 DEF handle_session_control, SM!switch_session, SM!Returns
<1> QED  BY <1>2, <1>4 DEF handle_session_control, Respond, securityVars

(* Step 2: no lockout can stand in the way of the seed.                    *)
LEMMA SeedGranted ==
    ASSUME NEW who, NEW src, NEW req,
           req = [sid |-> "SECURITY_ACCESS", sub |-> 1],
           dispatch(who, src, req, "ok"),
           TypeOK, sec_up, states[LEVEL_1].attempt_count = 0
    PROVE  /\ response'.nrc = "POSITIVE"
           /\ states'[LEVEL_1].seed_requested
           /\ states'[LEVEL_1].attempt_count = 0
<1>1. req.sid = "SECURITY_ACCESS" /\ req.sub = 1
  OBVIOUS
<1>2. handle_security_access(who, req, "ok")
  BY <1>1 DEF dispatch
<1>3. /\ SA!request_seed(1, TRUE)
      /\ Respond(who, req,
                 CASE reply'.code = "SUCCESS" -> "POSITIVE"
                   [] reply'.code = "SEC_UNAVAILABLE" -> "CONDITIONS_NOT_CORRECT"
                   [] OTHER -> "SECURITY_ACCESS_DENIED",
                 "none")
  <2>1. req.sub = LEVEL_1 /\ req.sub # LEVEL_1 + 1
        /\ req.sub \in {LEVEL_1, LEVEL_1 + 1}
    BY <1>1, LevelOne
  <2>2. /\ SA!request_seed(req.sub, "ok" = "ok")
        /\ Respond(who, req,
                   CASE reply'.code = "SUCCESS" -> "POSITIVE"
                     [] reply'.code = "SEC_UNAVAILABLE" -> "CONDITIONS_NOT_CORRECT"
                     [] OTHER -> "SECURITY_ACCESS_DENIED",
                   "none")
    BY <1>2, <2>1, ZenonT(30) DEF handle_security_access
  <2>3. ("ok" = "ok") = TRUE
    OBVIOUS
  <2> QED  BY <1>1, <2>2, <2>3, ZenonT(30)
<1>4. SA!SeedCode(states, sec_up, 1, TRUE) = "SUCCESS"
  <2>1. ~SA!LockedOut(states[1])
    BY LevelOne, DispatcherAssumption DEF SA!LockedOut
  <2> QED  BY <2>1 DEF SA!SeedCode
<1>5. reply'.code = "SUCCESS"
  BY <1>3, <1>4 DEF SA!request_seed, SA!Returns
<1>6. states' = [states EXCEPT ![1] = SA!Challenged(states[1])]
  BY <1>3, <1>4 DEF SA!request_seed, SA!Seeded
<1>7. /\ states[1] \in [seed_requested : BOOLEAN, unlocked : BOOLEAN,
                       attempt_count : 0 .. MAX_ATTEMPTS,
                       lock_left : 0 .. LOCKOUT]
      /\ 1 \in DOMAIN states
  BY LevelOne DEF TypeOK, SA!TypeOK
<1>8. states'[1] = SA!Challenged(states[1])
  BY <1>6, <1>7
<1>9. states'[1].seed_requested /\ states'[1].attempt_count = 0
  BY <1>7, <1>8, LevelOne DEF SA!Challenged
<1> QED  BY <1>3, <1>5, <1>9, LevelOne DEF Respond

(* Step 3: sub-function 0x82 is a key for level 1, judged because its seed *)
(* is open.                                                                *)
LEMMA KeyGranted ==
    ASSUME NEW who, NEW src, NEW req,
           req = [sid |-> "SECURITY_ACCESS", sub |-> 2],
           dispatch(who, src, req, "ok"),
           TypeOK, sec_up, states[LEVEL_1].attempt_count = 0,
           states[LEVEL_1].seed_requested
    PROVE  /\ response'.nrc = "POSITIVE"
           /\ states'[LEVEL_1].unlocked
           /\ states'[LEVEL_1].attempt_count = 0
<1>1. req.sid = "SECURITY_ACCESS" /\ req.sub = 2 /\ Verdict("ok") = "accepted"
  BY DEF Verdict
<1>2. handle_security_access(who, req, "ok")
  BY <1>1 DEF dispatch
<1>3. /\ SA!send_key(2, "accepted")
      /\ Respond(who, req,
                 CASE reply'.code = "SUCCESS" -> "POSITIVE"
                   [] reply'.code = "SEC_UNAVAILABLE" -> "CONDITIONS_NOT_CORRECT"
                   [] OTHER -> "INVALID_KEY",
                 "none")
  <2>1. req.sub = LEVEL_1 + 1 /\ req.sub # LEVEL_1
        /\ req.sub \in {LEVEL_1, LEVEL_1 + 1}
    BY <1>1, LevelOne
  <2>2. /\ SA!send_key(req.sub, Verdict("ok"))
        /\ Respond(who, req,
                   CASE reply'.code = "SUCCESS" -> "POSITIVE"
                     [] reply'.code = "SEC_UNAVAILABLE" -> "CONDITIONS_NOT_CORRECT"
                     [] OTHER -> "INVALID_KEY",
                   "none")
    BY <1>2, <2>1, ZenonT(30) DEF handle_security_access
  <2> QED  BY <1>1, <2>2, ZenonT(30)
<1>4. SA!SeedLevel(2) = 1
  BY DEF SA!SeedLevel
<1>5. SA!KeyIsTried(states, sec_up, 2)
  <2>1. ~SA!LockedOut(states[1])
    BY LevelOne, DispatcherAssumption DEF SA!LockedOut
  <2> QED  BY <1>4, <2>1, LevelOne DEF SA!KeyIsTried
<1>6. reply'.code = "SUCCESS"
  BY <1>3, <1>5 DEF SA!send_key, SA!Returns, SA!KeyCode
<1>7. states' = [states EXCEPT ![1] = SA!Accepted(states[1])]
  BY <1>3, <1>4, <1>5 DEF SA!send_key, SA!Keyed
<1>8. /\ states[1] \in [seed_requested : BOOLEAN, unlocked : BOOLEAN,
                       attempt_count : 0 .. MAX_ATTEMPTS,
                       lock_left : 0 .. LOCKOUT]
      /\ 1 \in DOMAIN states
  BY LevelOne DEF TypeOK, SA!TypeOK
<1>9. states'[1] = SA!Accepted(states[1])
  BY <1>7, <1>8
<1>10. states'[1].unlocked /\ states'[1].attempt_count = 0
  BY <1>8, <1>9 DEF SA!Accepted
<1> QED  BY <1>3, <1>6, <1>10, LevelOne DEF Respond

(* Step 4: the level is unlocked, and the VIN is whole.                    *)
LEMMA WriteGranted ==
    ASSUME NEW who, NEW src, NEW req,
           req = [sid |-> "ROUTINE_CONTROL", rid |-> "WRITE_VIN_ROUTINE",
                  payload |-> "full"],
           dispatch(who, src, req, "ok"),
           prov_up, states[LEVEL_1].unlocked
    PROVE  response'.nrc = "POSITIVE" /\ UNCHANGED states
<1>1. /\ req.sid = "ROUTINE_CONTROL" /\ req.rid = "WRITE_VIN_ROUTINE"
      /\ req.payload = "full"
  OBVIOUS
<1>2. handle_routine_control(who, req, "ok")
  BY <1>1 DEF dispatch
<1>3. RoutineBarrier(req) = "none"
  BY <1>1, LevelOne
  DEF RoutineBarrier, CertificateRoutines, SA!Unlocked, SA!StateKey
<1>4. Respond(who, req, "POSITIVE", req.rid) /\ UNCHANGED securityVars
  BY <1>2, <1>3 DEF handle_routine_control
<1> QED  BY <1>4 DEF Respond, securityVars

(* The script of a write, and how far it is.                               *)
LEMMA CleanAnswer ==
    ASSUME TypeOK, JobInv, ProcessInv, ServesAsked, WriteInv,
           NEW vin \in Arguments, NEW key \in Arguments,
           script = write_vin(vin, key), Len(vin) = 17,
           NEW outcome \in Outcomes, answer(outcome), ~excused'
    PROVE  WriteInv' /\ response'.nrc = "POSITIVE"
<1>1. /\ ~excused /\ outcome = "ok" /\ sec_up /\ prov_up
      /\ dispatch(job.who, job.src, job.req, "ok")
      /\ job.phase = "checked" /\ script' = script
  BY DEF answer, serve
<1>2. Len(script) = 4 /\ program = "diag_cli"
  <2>1. Len(script) = 4
    BY WriteSteps
  <2>2. Len(<<>>) = 0 /\ 0 # 4
    OBVIOUS
  <2>3. script # <<>>
    BY <2>1, <2>2, Zenon
  <2> QED  BY <2>1, <2>3 DEF ProcessInv
<1>3. /\ step \in 1 .. 4 /\ asked = script[step] /\ job.req = Meaning(asked)
      /\ step' = IF response'.nrc = "POSITIVE" THEN step + 1 ELSE 5
  BY <1>1, <1>2 DEF ProcessInv, ServesAsked, answer
<1>4. /\ step = 1 => session.session_type = "DEFAULT"
      /\ states[LEVEL_1].attempt_count = 0
      /\ step = 3 => states[LEVEL_1].seed_requested
      /\ step = 4 => states[LEVEL_1].unlocked
  BY <1>1 DEF WriteInv
<1>5. ASSUME response'.nrc = "POSITIVE",
             states'[LEVEL_1].attempt_count = 0,
             step + 1 = 3 => states'[LEVEL_1].seed_requested,
             step + 1 = 4 => states'[LEVEL_1].unlocked
      PROVE  WriteInv' /\ response'.nrc = "POSITIVE"
  BY <1>3, <1>5 DEF WriteInv
<1>6. CASE step = 1
  <2>1. job.req = [sid |-> "SESSION_CONTROL", type |-> "EXTENDED"]
    BY <1>3, <1>6, MeaningOfWrite
  <2>2. response'.nrc = "POSITIVE" /\ UNCHANGED states
    BY <1>1, <1>4, <1>6, <2>1, SessionGranted
  <2> QED  BY <1>4, <1>5, <1>6, <2>2
<1>7. CASE step = 2
  <2>1. job.req = [sid |-> "SECURITY_ACCESS", sub |-> 1]
    BY <1>3, <1>7, MeaningOfWrite
  <2> QED  BY <1>1, <1>4, <1>5, <1>7, <2>1, SeedGranted
<1>8. CASE step = 3
  <2>1. job.req = [sid |-> "SECURITY_ACCESS", sub |-> 2]
    BY <1>3, <1>8, MeaningOfWrite
  <2> QED  BY <1>1, <1>4, <1>5, <1>8, <2>1, KeyGranted
<1>9. CASE step = 4
  <2>1. job.req = [sid |-> "ROUTINE_CONTROL", rid |-> "WRITE_VIN_ROUTINE",
                   payload |-> "full"]
    <3>1. job.req = Meaning(write_vin(vin, key)[4])
      BY <1>3, <1>9
    <3>2. 17 >= 17
      OBVIOUS
    <3>3. Len(vin) >= 17
      BY <3>2
    <3>4. Meaning(write_vin(vin, key)[4]) =
            [sid |-> "ROUTINE_CONTROL", rid |-> "WRITE_VIN_ROUTINE",
             payload |-> IF Len(vin) >= 17 THEN "full"
                         ELSE IF vin = <<>> THEN "empty" ELSE "short"]
      BY MeaningOfWrite, Zenon
    <3> QED  BY <3>1, <3>3, <3>4
  <2>2. response'.nrc = "POSITIVE" /\ UNCHANGED states
    BY <1>1, <1>4, <1>9, <2>1, WriteGranted
  <2> QED  BY <1>4, <1>5, <1>9, <2>2
<1> QED  BY <1>3, <1>6, <1>7, <1>8, <1>9

(* Each request of a write that was not let down finds what the one before *)
(* it left.                                                                *)
LEMMA WriteInvariant == ProgramsSpec => []WriteInv
<1>1. ProgramsInit => WriteInv
  <2>1. ASSUME NEW vin \in Arguments, NEW key \in Arguments
        PROVE  write_vin(vin, key) # <<>>
    BY DEF write_vin
  <2> QED  BY <2>1 DEF ProgramsInit, WriteInv
<1>2. /\ TypeOK /\ JobInv /\ ProcessInv /\ ServesAsked /\ WriteInv
      /\ [ProgramsNext]_allVars
      => WriteInv'
  <2> SUFFICES ASSUME TypeOK, JobInv, ProcessInv, ServesAsked, WriteInv,
                      [ProgramsNext]_allVars,
                      NEW vin \in Arguments, NEW key \in Arguments,
                      script' = write_vin(vin, key), Len(vin) = 17, ~excused'
               PROVE  WriteInv'
    BY DEF WriteInv
  <2>0. NoResponse.sid = "none"
    BY DEF NoResponse
  <2>1. ASSUME NEW name, NEW command, start(name, command) PROVE WriteInv'
    <3>1. /\ step' = 1 /\ session' = SM!NewSession /\ response' = NoResponse
          /\ states'[LEVEL_1] = SA!NewState
      BY <2>1, LevelOne
      DEF start, initialize, SM!construct, SA!reset, SA!NewStates
    <3> QED  BY <2>0, <3>1 DEF SM!NewSession, SA!NewState, WriteInv
  <2>2. CASE exit
    <3>1. write_vin(vin, key) # <<>>
      BY DEF write_vin
    <3> QED  BY <2>2, <3>1 DEF exit
  <2>3. CASE ask
    <3>1. /\ UNCHANGED <<script, step, excused, states>> /\ response' = NoResponse
          /\ session' = SM!S3Checked(session)
      BY <2>3 DEF ask, process_request, SM!check_s3_timeout, securityVars
    <3>2. session.session_type = "DEFAULT" => session' = session
      BY <3>1 DEF SM!S3Checked, SM!TimedOut
    <3> QED  BY <2>0, <3>1, <3>2 DEF WriteInv
  <2>4. ASSUME NEW raw \in Frames, receive(raw) PROVE WriteInv'
    <3>1. UNCHANGED <<script, step, excused, session, states, response>>
      BY <2>4
      DEF receive, receive_request, receive_nothing, sessionVars, securityVars
    <3> QED  BY <3>1 DEF WriteInv
  <2>5. ASSUME NEW outcome \in Outcomes, answer(outcome) PROVE WriteInv'
    <3>1. script = write_vin(vin, key)
      BY <2>5 DEF answer
    <3> QED  BY <2>5, <3>1, CleanAnswer
  <2>6. CASE Around
    <3>1. program = "diag_cli"
      <4>1. script = write_vin(vin, key)
        BY <2>6 DEF Around
      <4>2. script # <<>>
        BY <4>1 DEF write_vin
      <4> QED  BY <4>2 DEF ProcessInv
    <3>2. session'.session_type = session.session_type
      BY <2>6, <3>1
      DEF Around, PeersComeAndGo, Tick, SM!Tick, SM!Aged, sessionVars, TypeOK,
          SM!TypeOK
    <3> QED  BY <2>0, <2>6, <3>2, AroundKeepsLock DEF SameLock, WriteInv
  <2>7. CASE UNCHANGED allVars
    BY <2>7 DEF allVars, vars, sessionVars, securityVars, programVars, WriteInv
  <2> QED
    BY <2>1, <2>2, <2>3, <2>4, <2>5, <2>6, <2>7 DEF ProgramsNext
<1> QED
  BY <1>1, <1>2, ProgramsUseService, ServiceTypeOK, JobInvariant,
     ProcessInvariant, ServesAskedInvariant, PTL
  DEF ProgramsSpec

(* diag_cli.cpp:297-357: for every whole VIN and every key, write_vin gets *)
(* through unless SEC or PROV lets it down, and however long it takes.     *)
THEOREM ProgramsWriteSucceeds == ProgramsSpec => CleanWriteSucceeds
<1> DEFINE Clean == \E vin, key \in Arguments :
                       script = write_vin(vin, key) /\ Len(vin) = 17
<1>1. WriteInv' /\ [ProgramsNext]_allVars
      => [Clean /\ response'.sid # "none" =>
             response'.nrc = "POSITIVE" \/ excused']_allVars
  <2> SUFFICES ASSUME WriteInv', ProgramsNext, Clean, response'.sid # "none",
                      ~excused'
               PROVE  response'.nrc = "POSITIVE"
    OBVIOUS
  <2>1. CASE exit \/ \E name, command : start(name, command)
    BY <2>1 DEF exit, shutdown, start, initialize, NoResponse
  <2>2. CASE script' = script
    BY <2>2 DEF WriteInv
  <2> QED  BY <2>1, <2>2 DEF ProgramsNext, ask, receive, answer, Around
<1> QED
  BY <1>1, WriteInvariant, PTL DEF ProgramsSpec, CleanWriteSucceeds

=============================================================================
