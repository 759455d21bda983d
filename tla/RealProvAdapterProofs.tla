------------------------ MODULE RealProvAdapterProofs ------------------------
(***************************************************************************)
(* For any processes, VINs and requests: what a tester is told of a write, *)
(* or shown of the vehicle, is what PROV has.  The invariant says of each  *)
(* process what is so in the place it is in, also between the two calls of *)
(* a request; a step of another process can only disturb it by a write.    *)
(***************************************************************************)
EXTENDS RealProvAdapter, TLAPS

(* A request is where requests of its kind are.                            *)
InPlace(p) ==
    /\ Writing(p) => pc[p].req \in Writes
    /\ At(p, "write_config") => pc[p].req.config
    /\ Calling(p) /\ ~Writing(p) => pc[p].req.op = "read"

(* Between the two writes the VIN is at PROV, after them both are.         *)
WriteIsThere(p) ==
    ~disturbed[p] =>
        /\ At(p, "write_config") => stored.vin = pc[p].req.vin
        /\ Answered(p, "write", "POSITIVE") =>
              /\ stored.vin = pc[p].req.vin
              /\ pc[p].req.config => stored.config = pc[p].req.vin

UnavailableUntouched(p) ==
    Answered(p, "write", "CONDITIONS_NOT_CORRECT") => ~reached[p]

(* A VIN that was read is still there, and the state is read after it.     *)
VinStays(p) ==
    /\ pc[p].got.vin => stored.vin # Empty
    /\ Calling(p) => pc[p].got.state = "UNKNOWN"
    /\ At(p, "rest") /\ pc[p].got.vin => pc[p].got.state # "NONE"

Fits(p) ==
    InPlace(p) /\ WriteIsThere(p) /\ UnavailableUntouched(p) /\ VinStays(p)

IInv == TypeOK /\ \A p \in Processes : Fits(p)

-----------------------------------------------------------------------------
Got == [vin : BOOLEAN, state : {"NONE", "VIN_WRITTEN", "UNKNOWN"}]

Places == [at : {"rest", "write_vin", "write_config", "read_vin", "read_state"},
           req : Requests \cup {NoRequest},
           again : BOOLEAN,
           got : Got,
           answer : {"none", "POSITIVE", "CONDITIONS_NOT_CORRECT",
                     "GENERAL_PROGRAMMING_FAILURE"}]

(* The fields of a request to write.                                       *)
LEMMA WritesAreRequests ==
    ASSUME NEW req \in Writes
    PROVE  /\ req.op = "write" /\ req.vin \in Vins /\ req.vin # Empty
           /\ req.config \in BOOLEAN /\ req \in Requests
  BY ProvAssumption DEF Requests

(* A process is at one of the places.                                      *)
LEMMA PlaceTypes ==
    ASSUME IInv, NEW q \in Processes
    PROVE  pc[q] \in Places
  BY DEF IInv, TypeOK, Places, Got

(* A request writes or reads.                                              *)
LEMMA RequestsToWrite ==
    ASSUME NEW req \in Requests
    PROVE  IF req.op = "write" THEN req \in Writes ELSE req.op = "read"
  BY ProvAssumption DEF Requests

(* A write, of the VIN or of the configuration, is of a request to write.  *)
LEMMA WrittenType ==
    ASSUME IInv, NEW q \in Processes,
           NothingWritten \/ (Writing(q) /\ Written(q))
    PROVE  /\ stored' \in [vin : Vins \cup {Empty}, config : Vins \cup {Empty}]
           /\ reached' \in [Processes -> BOOLEAN]
           /\ disturbed' \in [Processes -> BOOLEAN]
           /\ stored.vin # Empty => stored'.vin # Empty
<1>1. CASE NothingWritten
  BY <1>1 DEF NothingWritten, IInv, TypeOK
<1>2. CASE Writing(q) /\ Written(q)
  <2>1. pc[q].req \in Writes
    BY <1>2 DEF IInv, Fits, InPlace
  <2>2. pc[q].req.vin \in Vins /\ pc[q].req.vin # Empty
    BY <2>1, WritesAreRequests
  <2> QED BY <1>2, <2>2 DEF Written, IInv, TypeOK
<1> QED BY <1>1, <1>2

(* What a process makes of it when another one writes.                     *)
LEMMA OthersFit ==
    ASSUME IInv, NEW q \in Processes, NEW p \in Processes, p # q,
           pc'[p] = pc[p],
           NothingWritten \/ (Writing(q) /\ Written(q))
    PROVE  Fits(p)'
<1>1. InPlace(p)'
  BY DEF IInv, Fits, InPlace, Writing, Calling, At
<1>2. VinStays(p)'
  BY WrittenType DEF IInv, Fits, VinStays, Calling, At
<1>3. CASE NothingWritten
  BY <1>1, <1>2, <1>3
     DEF NothingWritten, IInv, Fits, WriteIsThere, UnavailableUntouched,
         Answered, At
<1>4. CASE Writing(q) /\ Written(q)
  <2>1. reached'[p] = reached[p]
    BY <1>4 DEF Written, IInv, TypeOK
  <2>2. disturbed'[p] = (disturbed[p] \/ pc[p].req.op = "write")
    BY <1>4 DEF Written
  <2>3. UnavailableUntouched(p)'
    BY <2>1 DEF IInv, Fits, UnavailableUntouched, Answered, At
  <2>4. At(p, "write_config") => pc[p].req.op = "write"
    BY WritesAreRequests DEF IInv, Fits, InPlace, Writing, At
  <2>5. WriteIsThere(p)'
    BY <2>2, <2>4 DEF WriteIsThere, Answered, At
  <2> QED BY <1>1, <1>2, <2>3, <2>5 DEF Fits
<1> QED BY <1>3, <1>4

(* So a step of process q preserves the invariant if q itself fits after   *)
(* it.                                                                     *)
LEMMA OneSteps ==
    ASSUME IInv, NEW q \in Processes, NEW place \in Places,
           pc' = [pc EXCEPT ![q] = place],
           NothingWritten \/ (Writing(q) /\ Written(q)),
           link' \in [Processes -> {"up", "stale", "down"}],
           since' = since, UNCHANGED <<prov_up, write_retry>>,
           Fits(q)'
    PROVE  IInv'
<1>1. TypeOK'
  BY WrittenType DEF IInv, TypeOK, Places, Got
<1>2. ASSUME NEW p \in Processes, p # q PROVE Fits(p)'
  BY <1>2, OthersFit DEF IInv, TypeOK
<1> QED BY <1>1, <1>2 DEF IInv

-----------------------------------------------------------------------------
(* A call that failed.                                                     *)
LEMMA FailedFits ==
    ASSUME IInv, NEW q \in Processes, Calling(q), Failed(q),
           NothingWritten \/ (Writing(q) /\ Written(q))
    PROVE  /\ \E place \in Places : pc' = [pc EXCEPT ![q] = place]
           /\ Fits(q)'
<1>1. PICK place \in Places :
        /\ pc' = [pc EXCEPT ![q] = place]
        /\ place.req = pc[q].req /\ place.got = pc[q].got
        /\ IF Writing(q)
           THEN place.at = "rest" /\ place.answer = "GENERAL_PROGRAMMING_FAILURE"
           ELSE place.at \in {"rest", "read_state"}
  <2>1. CASE Writing(q)
    <3> DEFINE r == [pc[q] EXCEPT !.at = "rest", !.again = FALSE,
                                  !.answer = "GENERAL_PROGRAMMING_FAILURE"]
    <3>1. pc' = [pc EXCEPT ![q] = r]
      BY <2>1 DEF Failed, Answers, Writing, At, IInv, TypeOK
    <3>2. r \in Places
      BY PlaceTypes DEF Places, Got
    <3>3. r.req = pc[q].req /\ r.got = pc[q].got /\ r.at = "rest"
          /\ r.answer = "GENERAL_PROGRAMMING_FAILURE"
      BY DEF IInv, TypeOK
    <3> QED BY <2>1, <3>1, <3>2, <3>3
  <2>2. CASE At(q, "read_vin")
    <3> DEFINE r == [pc[q] EXCEPT !.at = "read_state", !.again = FALSE]
    <3>1. pc' = [pc EXCEPT ![q] = r]
      BY <2>2 DEF Failed, Goes, Writing, At, IInv, TypeOK
    <3>2. r \in Places
      BY PlaceTypes DEF Places, Got
    <3>3. r.req = pc[q].req /\ r.got = pc[q].got /\ r.at = "read_state"
      BY DEF IInv, TypeOK
    <3> QED BY <2>2, <3>1, <3>2, <3>3 DEF Writing, At
  <2>3. CASE At(q, "read_state")
    <3> DEFINE r == [pc[q] EXCEPT !.at = "rest", !.again = FALSE,
                                  !.answer = "POSITIVE"]
    <3>1. pc' = [pc EXCEPT ![q] = r]
      BY <2>3 DEF Failed, Answers, Writing, At, IInv, TypeOK
    <3>2. r \in Places
      BY PlaceTypes DEF Places, Got
    <3>3. r.req = pc[q].req /\ r.got = pc[q].got /\ r.at = "rest"
      BY DEF IInv, TypeOK
    <3> QED BY <2>3, <3>1, <3>2, <3>3 DEF Writing, At
  <2> QED BY <2>1, <2>2, <2>3 DEF Calling, Writing, At, IInv, TypeOK
<1>2. pc'[q] = place
  BY <1>1 DEF IInv, TypeOK
<1>3. InPlace(q)'
  BY <1>1, <1>2 DEF IInv, Fits, InPlace, Writing, Calling, At
<1>4. VinStays(q)'
  BY <1>1, <1>2, WrittenType DEF IInv, Fits, VinStays, Calling, At
<1>5. ~Writing(q) => pc[q].req.op = "read"
  BY DEF IInv, Fits, InPlace
<1>6. WriteIsThere(q)' /\ UnavailableUntouched(q)'
  BY <1>1, <1>2, <1>5 DEF WriteIsThere, UnavailableUntouched, Answered, At
<1> QED BY <1>1, <1>3, <1>4, <1>6 DEF Fits

(* A call that is made again.                                              *)
LEMMA AgainFits ==
    ASSUME IInv, NEW q \in Processes, Calling(q),
           pc' = [pc EXCEPT ![q].again = TRUE],
           NothingWritten \/ (Writing(q) /\ Written(q))
    PROVE  /\ \E place \in Places : pc' = [pc EXCEPT ![q] = place]
           /\ Fits(q)'
<1> DEFINE r == [pc[q] EXCEPT !.again = TRUE]
<1>1. pc' = [pc EXCEPT ![q] = r]
  OBVIOUS
<1>2. r \in Places
  BY PlaceTypes DEF Places, Got
<1>3. /\ pc'[q].at = pc[q].at /\ pc'[q].req = pc[q].req
      /\ pc'[q].got = pc[q].got
  BY DEF IInv, TypeOK
<1>4. InPlace(q)'
  BY <1>3 DEF IInv, Fits, InPlace, Writing, Calling, At
<1>5. VinStays(q)'
  BY <1>3, WrittenType DEF IInv, Fits, VinStays, Calling, At
<1>6. UnavailableUntouched(q)'
  BY <1>3 DEF UnavailableUntouched, Answered, Calling, At
<1>7. WriteIsThere(q)'
  <2>1. CASE NothingWritten
    BY <1>3, <2>1 DEF NothingWritten, IInv, Fits, WriteIsThere, Answered,
                      Calling, At
  <2>2. CASE Written(q)
    <3>1. disturbed'[q] = disturbed[q]
      BY <2>2 DEF Written, IInv, TypeOK
    <3>2. At(q, "write_config") => stored'.vin = stored.vin
      BY <2>2 DEF Written, IInv, TypeOK, At
    <3> QED BY <1>3, <3>1, <3>2 DEF IInv, Fits, WriteIsThere, Answered,
                                    Calling, At
  <2> QED BY <2>1, <2>2
<1> QED BY <1>1, <1>2, <1>4, <1>5, <1>6, <1>7 DEF Fits

(* A call that succeeded.                                                  *)
LEMMA SucceededFits ==
    ASSUME IInv, NEW q \in Processes, Calling(q), Succeeded(q),
           IF Writing(q) THEN Written(q) ELSE NothingWritten
    PROVE  /\ \E place \in Places : pc' = [pc EXCEPT ![q] = place]
           /\ Fits(q)'
<1>1. CASE At(q, "write_vin")
  <2>1. pc[q].req \in Writes /\ pc[q].req.vin # Empty
    BY <1>1, WritesAreRequests DEF IInv, Fits, InPlace, Writing, At
  <2>2. Writing(q) /\ Written(q)
    BY <1>1 DEF Writing, At
  <2>3. stored'.vin = pc[q].req.vin /\ disturbed'[q] = disturbed[q]
    BY <1>1, <2>2 DEF Written, IInv, TypeOK
  <2> DEFINE r == IF pc[q].req.config
                  THEN [pc[q] EXCEPT !.at = "write_config", !.again = FALSE]
                  ELSE [pc[q] EXCEPT !.at = "rest", !.again = FALSE,
                                     !.answer = "POSITIVE"]
  <2>4. pc' = [pc EXCEPT ![q] = r]
    BY <1>1, <2>2 DEF Succeeded, Goes, Answers, At, IInv, TypeOK
  <2>5. r \in Places
    BY PlaceTypes DEF Places, Got
  <2>6. /\ r.req = pc[q].req /\ r.got = pc[q].got
        /\ IF pc[q].req.config THEN r.at = "write_config"
           ELSE r.at = "rest" /\ r.answer = "POSITIVE"
    BY DEF IInv, TypeOK
  <2>7. pc'[q] = r
    BY <2>4 DEF IInv, TypeOK
  <2> HIDE DEF r
  <2>8. InPlace(q)'
    BY <2>1, <2>6, <2>7 DEF InPlace, Writing, Calling, At
  <2>9. VinStays(q)'
    BY <2>6, <2>7, <2>2, WrittenType DEF IInv, Fits, VinStays, Calling, At
  <2>10. WriteIsThere(q)' /\ UnavailableUntouched(q)'
    BY <2>3, <2>6, <2>7 DEF WriteIsThere, UnavailableUntouched, Answered, At
  <2> QED BY <2>4, <2>5, <2>8, <2>9, <2>10 DEF Fits
<1>2. CASE At(q, "write_config")
  <2>1. Writing(q) /\ Written(q)
    BY <1>2 DEF Writing, At
  <2>2. /\ stored'.vin = stored.vin /\ stored'.config = pc[q].req.vin
        /\ disturbed'[q] = disturbed[q]
    BY <1>2, <2>1 DEF Written, IInv, TypeOK, At
  <2> DEFINE r == [pc[q] EXCEPT !.at = "rest", !.again = FALSE,
                                !.answer = "POSITIVE"]
  <2>3. pc' = [pc EXCEPT ![q] = r]
    BY <1>2, <2>1 DEF Succeeded, Answers, At, IInv, TypeOK
  <2>4. r \in Places
    BY PlaceTypes DEF Places, Got
  <2>5. /\ r.req = pc[q].req /\ r.got = pc[q].got
        /\ r.at = "rest" /\ r.answer = "POSITIVE"
    BY DEF IInv, TypeOK
  <2>6. pc'[q] = r
    BY <2>3 DEF IInv, TypeOK
  <2> HIDE DEF r
  <2>7. InPlace(q)'
    BY <2>5, <2>6 DEF InPlace, Writing, Calling, At
  <2>8. VinStays(q)'
    BY <1>2, <2>2, <2>5, <2>6 DEF IInv, Fits, VinStays, Calling, At
  <2>9. WriteIsThere(q)' /\ UnavailableUntouched(q)'
    BY <1>2, <2>2, <2>5, <2>6 DEF IInv, Fits, WriteIsThere,
       UnavailableUntouched, Answered, At
  <2> QED BY <2>3, <2>4, <2>7, <2>8, <2>9 DEF Fits
<1>3. CASE At(q, "read_vin")
  <2>1. NothingWritten /\ ~Writing(q) /\ pc[q].req.op = "read"
    BY <1>3 DEF Writing, At, IInv, Fits, InPlace, Calling
  <2> DEFINE r == [pc[q] EXCEPT !.at = "read_state", !.again = FALSE,
                                !.got.vin = (stored.vin # Empty)]
  <2>2. pc' = [pc EXCEPT ![q] = r]
    <3>1. pc' = [pc EXCEPT ![q].at = "read_state", ![q].again = FALSE,
                           ![q].got.vin = (stored.vin # Empty)]
      BY <1>3, <2>1 DEF Succeeded, Writing, At
    <3> QED BY <3>1, Zenon
  <2>a. /\ pc[q].got \in Got /\ pc[q] \in Places
        /\ (stored.vin # Empty) \in BOOLEAN
    BY PlaceTypes DEF Places, Got
  <2> DEFINE got == [pc[q].got EXCEPT !.vin = (stored.vin # Empty)]
  <2>b. /\ got \in Got
        /\ got.vin = (stored.vin # Empty) /\ got.state = pc[q].got.state
    BY <2>a DEF Got
  <2>c. r = [pc[q] EXCEPT !.at = "read_state", !.again = FALSE, !.got = got]
    BY Zenon
  <2> HIDE DEF got, r
  <2>3. r \in Places
    BY <2>a, <2>b, <2>c DEF Places, Got
  <2>4. /\ r.req = pc[q].req /\ r.at = "read_state"
        /\ r.got.vin = (stored.vin # Empty) /\ r.got.state = pc[q].got.state
    BY <2>a, <2>b, <2>c DEF Places, Got
  <2>5. pc'[q] = r
    BY <2>2 DEF IInv, TypeOK
  <2> HIDE DEF r
  <2>6. InPlace(q)'
    BY <2>1, <2>4, <2>5 DEF InPlace, Writing, Calling, At
  <2>7. VinStays(q)'
    BY <2>1, <2>4, <2>5
       DEF NothingWritten, IInv, Fits, VinStays, Calling, At
  <2>8. WriteIsThere(q)' /\ UnavailableUntouched(q)'
    BY <2>4, <2>5 DEF WriteIsThere, UnavailableUntouched, Answered, At
  <2> QED BY <2>2, <2>3, <2>6, <2>7, <2>8 DEF Fits
<1>4. CASE At(q, "read_state")
  <2>1. NothingWritten /\ ~Writing(q) /\ pc[q].req.op = "read"
    BY <1>4 DEF Writing, At, IInv, Fits, InPlace, Calling
  <2> DEFINE r == [pc[q] EXCEPT !.at = "rest", !.again = FALSE,
                                !.got.state = ProvisionState,
                                !.answer = "POSITIVE"]
  <2>2. pc' = [pc EXCEPT ![q] = r]
    <3>1. pc' = [pc EXCEPT ![q].at = "rest", ![q].again = FALSE,
                           ![q].got.state = ProvisionState,
                           ![q].answer = "POSITIVE"]
      BY <1>4, <2>1 DEF Succeeded, Writing, At
    <3> QED BY <3>1, Zenon
  <2>a. /\ pc[q].got \in Got /\ pc[q] \in Places
        /\ ProvisionState \in {"NONE", "VIN_WRITTEN", "UNKNOWN"}
    BY PlaceTypes DEF Places, Got, ProvisionState
  <2> DEFINE got == [pc[q].got EXCEPT !.state = ProvisionState]
  <2>b. got \in Got /\ got.vin = pc[q].got.vin /\ got.state = ProvisionState
    BY <2>a DEF Got
  <2>c. r = [pc[q] EXCEPT !.at = "rest", !.again = FALSE, !.got = got,
                          !.answer = "POSITIVE"]
    BY Zenon
  <2> HIDE DEF got, r
  <2>3. r \in Places
    BY <2>a, <2>b, <2>c DEF Places, Got
  <2>4. /\ r.req = pc[q].req /\ r.at = "rest"
        /\ r.got.vin = pc[q].got.vin /\ r.got.state = ProvisionState
    BY <2>a, <2>b, <2>c DEF Places, Got
  <2>5. pc'[q] = r
    BY <2>2 DEF IInv, TypeOK
  <2> HIDE DEF r
  <2>6. InPlace(q)'
    BY <2>4, <2>5 DEF InPlace, Writing, Calling, At
  <2>7. VinStays(q)'
    BY <2>1, <2>4, <2>5
       DEF NothingWritten, IInv, Fits, VinStays, Calling, At, ProvisionState
  <2>8. WriteIsThere(q)' /\ UnavailableUntouched(q)'
    BY <2>1, <2>4, <2>5 DEF WriteIsThere, UnavailableUntouched, Answered, At
  <2> QED BY <2>2, <2>3, <2>6, <2>7, <2>8 DEF Fits
<1> QED BY <1>1, <1>2, <1>3, <1>4 DEF Calling, At, IInv, TypeOK

-----------------------------------------------------------------------------
(* Handing over an answer keeps the invariant.                             *)
LEMMA Answering ==
    ASSUME IInv, NEW q \in Processes, Goings(q)
    PROVE  IInv'
<1>1. /\ NothingWritten \/ (Writing(q) /\ Written(q))
      /\ since' = since /\ UNCHANGED <<prov_up, write_retry>>
      /\ Calling(q)
  BY DEF Goings, accepted, refused, unanswered, unsent
<1>2. link' \in [Processes -> {"up", "stale", "down"}]
  BY DEF Goings, accepted, refused, unanswered, unsent, Disconnected, IInv,
         TypeOK
<1>3. /\ \E place \in Places : pc' = [pc EXCEPT ![q] = place]
      /\ Fits(q)'
  <2>1. CASE accepted(q)
    BY <2>1, SucceededFits DEF accepted
  <2>2. CASE refused(q)
    BY <2>2, FailedFits DEF refused
  <2>3. ASSUME Disconnected(q)
        PROVE  /\ \E place \in Places : pc' = [pc EXCEPT ![q] = place]
               /\ Fits(q)'
    <3>1. Failed(q) \/ pc' = [pc EXCEPT ![q].again = TRUE]
      BY <2>3 DEF Disconnected
    <3> QED BY <1>1, <3>1, FailedFits, AgainFits
  <2> QED BY <2>1, <2>2, <2>3 DEF Goings, unanswered, unsent
<1> QED BY <1>1, <1>2, <1>3, OneSteps

(* A process nothing was done to, and nothing done to PROV: it fits as     *)
(* before.                                                                 *)
LEMMA SameFits ==
    ASSUME IInv, NEW p \in Processes, pc'[p] = pc[p], stored' = stored,
           reached'[p] = reached[p], disturbed'[p] = disturbed[p]
    PROVE  Fits(p)'
  BY DEF IInv, Fits, InPlace, WriteIsThere, UnavailableUntouched, VinStays,
         Answered, Writing, Calling, At

(* A new request has reached nothing and is disturbed by nobody.           *)
LEMMA Beginning ==
    ASSUME IInv, NEW q \in Processes, NEW req \in Requests, begin(q, req)
    PROVE  IInv'
<1> DEFINE begun == [Resting EXCEPT !.req = req]
           r == IF link'[q] = "down"
                THEN [begun EXCEPT !.answer = "CONDITIONS_NOT_CORRECT"]
                ELSE [begun EXCEPT !.at = IF req.op = "write" THEN "write_vin"
                                          ELSE "read_vin"]
<1>1. pc' = [pc EXCEPT ![q] = r]
  BY DEF begin
<1>2. r \in Places
  BY DEF Places, Got, Resting, NotRead
<1>3. /\ r.req = req /\ r.got = NotRead
      /\ IF link'[q] = "down"
         THEN r.at = "rest" /\ r.answer = "CONDITIONS_NOT_CORRECT"
         ELSE r.at = IF req.op = "write" THEN "write_vin" ELSE "read_vin"
  BY DEF Resting
<1>4. pc'[q] = r
  BY <1>1 DEF IInv, TypeOK
<1> HIDE DEF r
<1>5. /\ stored' = stored /\ UNCHANGED <<prov_up, write_retry>>
      /\ reached' = [reached EXCEPT ![q] = FALSE]
      /\ disturbed' = [disturbed EXCEPT ![q] = FALSE]
  BY DEF begin
<1>6. TypeOK'
  <2>1. /\ link' \in [Processes -> {"up", "stale", "down"}]
        /\ since' \in [Processes -> 0 .. INTERVAL]
    BY ProvAssumption DEF begin, ensure_connected, IInv, TypeOK
  <2> QED BY <1>1, <1>2, <1>5, <2>1 DEF IInv, TypeOK, Places, Got
<1>7. Fits(q)'
  <2>1. InPlace(q)'
    BY <1>3, <1>4, RequestsToWrite DEF InPlace, Writing, Calling, At
  <2>2. reached'[q] = FALSE
    BY <1>5 DEF IInv, TypeOK
  <2> QED BY <1>3, <1>4, <2>1, <2>2
       DEF Fits, WriteIsThere, UnavailableUntouched, VinStays, Answered,
           Calling, At, NotRead
<1>8. ASSUME NEW p \in Processes, p # q PROVE Fits(p)'
  <2>1. /\ pc'[p] = pc[p] /\ reached'[p] = reached[p]
        /\ disturbed'[p] = disturbed[p]
    BY <1>1, <1>5, <1>8 DEF IInv, TypeOK
  <2> QED BY <1>5, <2>1, SameFits
<1> QED BY <1>6, <1>7, <1>8 DEF IInv

(* Nobody is at work and PROV holds what it held.                          *)
LEMMA InvInit == Init => IInv
<1> SUFFICES ASSUME Init PROVE IInv
  OBVIOUS
<1>1. TypeOK
  BY ProvAssumption DEF Init, TypeOK, Resting, NotRead
<1>2. ASSUME NEW p \in Processes PROVE Fits(p)
  BY DEF Init, Fits, InPlace, WriteIsThere, UnavailableUntouched, VinStays,
         Answered, Writing, Calling, At, Resting, NotRead
<1> QED BY <1>1, <1>2 DEF IInv

(* Every step of a process, of PROV and of time keeps the invariant.       *)
LEMMA InvNext == IInv /\ [Next]_vars => IInv'
<1> SUFFICES ASSUME IInv, [Next]_vars PROVE IInv'
  OBVIOUS
<1>1. ASSUME UNCHANGED <<pc, stored, reached, disturbed>>, TypeOK' PROVE IInv'
  BY <1>1, SameFits DEF IInv
<1>2. ASSUME NEW p \in Processes, ProvDropsIdle(p) PROVE IInv'
  <2>1. TypeOK'
    BY <1>2 DEF ProvDropsIdle, IInv, TypeOK
  <2> QED BY <1>1, <1>2, <2>1 DEF ProvDropsIdle
<1>3. CASE ProvStops
  <2>1. TypeOK'
    BY <1>3 DEF ProvStops, IInv, TypeOK
  <2> QED BY <1>1, <1>3, <2>1 DEF ProvStops
<1>4. CASE ProvStarts
  <2>1. TypeOK'
    BY <1>4 DEF ProvStarts, IInv, TypeOK
  <2> QED BY <1>1, <1>4, <2>1 DEF ProvStarts
<1>5. CASE Tick
  <2>1. TypeOK'
    BY <1>5, ProvAssumption DEF Tick, Later, IInv, TypeOK
  <2> QED BY <1>1, <1>5, <2>1 DEF Tick
<1>6. CASE UNCHANGED vars
  <2>1. TypeOK'
    BY <1>6 DEF vars, IInv, TypeOK
  <2> QED BY <1>1, <1>6, <2>1 DEF vars
<1> QED BY <1>2, <1>3, <1>4, <1>5, <1>6, Answering, Beginning DEF Next

(* The invariant of processes and PROV.                                    *)
LEMMA Invariant == Spec => []IInv
  BY InvInit, InvNext, PTL DEF Spec

-----------------------------------------------------------------------------
(* For any processes, VINs, requests and intervals, the state is typed.    *)
THEOREM ProvTypeOK == Spec => []TypeOK
<1>1. IInv => TypeOK
  BY DEF IInv
<1> QED BY <1>1, Invariant, PTL

(* real_prov.cpp:34-76: a tester told that its VIN is written finds it at  *)
(* PROV, with its configuration, until another process writes.             *)
THEOREM ProvWrittenWhenPositive == Spec => []WrittenWhenPositive
<1>1. IInv => WrittenWhenPositive
  BY DEF IInv, Fits, WriteIsThere, WrittenWhenPositive
<1> QED BY <1>1, Invariant, PTL

(* real_prov.cpp:14-25: a write that is refused as unavailable has not got *)
(* to PROV in part.                                                        *)
THEOREM ProvUnavailableWroteNothing == Spec => []UnavailableWroteNothing
<1>1. IInv => UnavailableWroteNothing
  BY DEF IInv, Fits, UnavailableUntouched, UnavailableWroteNothing
<1> QED BY <1>1, Invariant, PTL

(* real_prov.cpp:99-147: the VIN is read before the state, so no vehicle   *)
(* is shown with a VIN and the state NONE, whoever writes in between.      *)
THEOREM ProvVinIsNeverUnprovisioned == Spec => []VinIsNeverUnprovisioned
<1>1. IInv => VinIsNeverUnprovisioned
  BY DEF IInv, Fits, VinStays, VinIsNeverUnprovisioned
<1> QED BY <1>1, Invariant, PTL

=============================================================================
