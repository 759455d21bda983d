------------------------------ MODULE UdsCodec ------------------------------
(***************************************************************************)
(* src/uds_codec.cpp: which bytes of a frame are which field of a request, *)
(* and how a response becomes bytes; src/diag_cli.cpp has a parser of its  *)
(* own for the command "raw".  A byte is a number, a frame a sequence of   *)
(* them; the fields are those of DiagRequest and DiagResponse.             *)
(***************************************************************************)
EXTENDS Integers, Sequences

(* namespace UdsService                                                    *)
DIAGNOSTIC_SESSION_CONTROL == 16
READ_DATA_BY_IDENTIFIER == 34
SECURITY_ACCESS == 39
ROUTINE_CONTROL == 49
TESTER_PRESENT == 62

NEGATIVE_RESPONSE == 127

Byte == 0 .. 255

Word(high, low) == high * 256 + low

Bytes(word) == <<word \div 256, word % 256>>

From(raw, i) == SubSeq(raw, i, Len(raw))

(* A DiagRequest that nothing has been decoded into.                       *)
NewRequest ==
    [service_id |-> 0, sub_function |-> 0, did_or_rid |-> 0, payload |-> <<>>]

(* The frames that are long enough for their service.                      *)
Decodes(raw) ==
    /\ raw # <<>>
    /\ Len(raw) >= CASE raw[1] \in {DIAGNOSTIC_SESSION_CONTROL, TESTER_PRESENT,
                                    SECURITY_ACCESS} -> 2
                     [] raw[1] = READ_DATA_BY_IDENTIFIER -> 3
                     [] raw[1] = ROUTINE_CONTROL -> 4
                     [] OTHER -> 1

(* What decode makes of request: a field it does not find keeps the value  *)
(* the caller's request has.                                               *)
Decoded(raw, request) ==
    LET named == [request EXCEPT !.service_id = raw[1]] IN
    CASE raw[1] \in {DIAGNOSTIC_SESSION_CONTROL, TESTER_PRESENT} ->
            [named EXCEPT !.sub_function = raw[2]]
      [] raw[1] = READ_DATA_BY_IDENTIFIER ->
            [named EXCEPT !.did_or_rid = Word(raw[2], raw[3])]
      [] raw[1] = ROUTINE_CONTROL ->
            [named EXCEPT !.sub_function = raw[2],
                          !.did_or_rid = Word(raw[3], raw[4]),
                          !.payload = IF Len(raw) > 4 THEN From(raw, 5) ELSE @]
      [] OTHER ->
            [named EXCEPT !.sub_function = IF Len(raw) > 1 THEN raw[2] ELSE @,
                          !.payload = IF Len(raw) > 2 THEN From(raw, 3) ELSE @]

(* The command "raw" takes every frame for one of ROUTINE_CONTROL.         *)
RawCommand(raw) ==
    [service_id |-> raw[1],
     sub_function |-> IF Len(raw) > 1 THEN raw[2] ELSE 0,
     did_or_rid |-> IF Len(raw) > 3 THEN Word(raw[3], raw[4]) ELSE 0,
     payload |-> IF Len(raw) > 4 THEN From(raw, 5) ELSE <<>>]

(* create_positive_response: the request's sub-function, without bit 7 if  *)
(* it is a session type, and the identifier are echoed.  The data that     *)
(* follows is left out.                                                    *)
PositiveResponse(request) ==
    LET sid == request.service_id IN
    [positive |-> TRUE,
     service_id |-> sid + 64,
     sub_function |-> CASE sid = DIAGNOSTIC_SESSION_CONTROL ->
                              request.sub_function % 128
                        [] sid = READ_DATA_BY_IDENTIFIER -> 0
                        [] OTHER -> request.sub_function,
     payload |-> IF sid \in {READ_DATA_BY_IDENTIFIER, ROUTINE_CONTROL}
                 THEN Bytes(request.did_or_rid) ELSE <<>>,
     nrc |-> 0]

NegativeResponse(request, nrc) ==
    [positive |-> FALSE, service_id |-> NEGATIVE_RESPONSE,
     sub_function |-> request.service_id, payload |-> <<>>, nrc |-> nrc]

EncodeSubFunctionAlways(response) ==
    IF response.positive
    THEN <<response.service_id, response.sub_function>> \o response.payload
    ELSE <<NEGATIVE_RESPONSE, response.sub_function, response.nrc>>

Encode(response) ==
    IF response.positive
    THEN (IF response.service_id = READ_DATA_BY_IDENTIFIER + 64
          THEN <<response.service_id>>
          ELSE <<response.service_id, response.sub_function>>)
         \o response.payload
    ELSE <<NEGATIVE_RESPONSE, response.sub_function, response.nrc>>

=============================================================================
