------------------------- MODULE SecIpcAdapterProofs -------------------------
(***************************************************************************)
(* For any number of threads and any kReconnectMinInterval: what a call to *)
(* SEC may cost.  The invariant says of each thread how often SEC may have *)
(* been asked where the thread is, and that one whose second attempt finds *)
(* no connection has an excuse.                                            *)
(***************************************************************************)
EXTENDS SecIpcAdapter, TLAPS

(* The thread that reconnects holds the mutex.                             *)
HoldsMutex(t) ==
    At(t, "locked") \/ At(t, "attempt") \/ At(t, "connect") <=> owner = t

(* A call comes before its answer, and only a seed is asked for again.     *)
AskedSoFar(t) ==
    /\ Busy(t) => pc[t].op \in Ops
    /\ At(t, "call") => pc[t].op # "is_available"
    /\ pc[t].again => pc[t].op = "get_seed"
    /\ Busy(t) /\ ~pc[t].again => asked[t] = 0
    /\ Busy(t) /\ pc[t].again => asked[t] <= 1
    /\ pc[t].op \in OneShot => asked[t] <= 1

(* While a thread is busy SEC does not stop without its knowing, and the   *)
(* connection it reconnected for is not lost without an excuse.            *)
ExcusedSoFar(t) ==
    /\ Busy(t) /\ ~sec_up => excused[t]
    /\ Busy(t) /\ pc[t].again /\ link = "stale" => excused[t]
    /\ At(t, "call") /\ pc[t].again /\ link # "up" => excused[t]
    /\ /\ At(t, "rest") /\ pc[t].op = "get_seed"
       /\ pc[t].result \in {"failed", "unavailable"}
       => excused[t]

Fits(t) == HoldsMutex(t) /\ AskedSoFar(t) /\ ExcusedSoFar(t)

(* The throttle's clock runs since the last attempt; while one has not     *)
(* been written yet, the time that its thread has read does.               *)
ClockInv == /\ \A t \in Threads : At(t, "attempt") => gap = now[t]
            /\ (\A t \in Threads : ~At(t, "attempt")) => gap = since

IInv == /\ TypeOK
        /\ ClockInv
        /\ \A t \in Threads : Fits(t)

-----------------------------------------------------------------------------
Places == [at     : {"rest", "ensure", "lock", "locked", "attempt", "connect",
                     "call"},
           op     : Ops \cup {"none"},
           again  : BOOLEAN,
           result : {"none", "ok", "refused", "failed", "unavailable"}]

(* The adapter before its first call.                                      *)
LEMMA InvInit == Init => IInv
<1> SUFFICES ASSUME Init PROVE IInv
  OBVIOUS
<1>1. TypeOK /\ ClockInv
  BY AdapterAssumption DEF Init, TypeOK, Resting, Ops, OneShot, ClockInv, At
<1>2. ASSUME NEW t \in Threads PROVE Fits(t)
  BY AdapterAssumption
     DEF Init, Fits, HoldsMutex, AskedSoFar, ExcusedSoFar, At, Busy, Resting,
         OneShot
<1> QED BY <1>1, <1>2 DEF IInv

(* A step of a thread before or after its attempt leaves the clocks alone. *)
LEMMA ClocksKept ==
    ASSUME IInv, NEW t \in Threads, UNCHANGED <<since, now, gap>>,
           \A p \in Threads \ {t} : pc'[p] = pc[p],
           ~At(t, "attempt"), ~At(t, "attempt")'
    PROVE  ClockInv'
<1>1. \A p \in Threads : At(p, "attempt")' <=> At(p, "attempt")
  BY DEF At
<1> QED BY <1>1 DEF IInv, ClockInv

(* Threads that a step leaves where they are.                              *)
LEMMA OthersFit ==
    ASSUME IInv, NEW p \in Threads,
           pc'[p] = pc[p], asked'[p] = asked[p],
           owner' = p <=> owner = p,
           excused[p] => excused'[p],
           Busy(p) /\ ~sec_up' => excused'[p],
           \/ link' = link
           \/ link' = "up"
           \/ link' = "down" /\ link # "up"
           \/ Busy(p) /\ pc[p].again => excused'[p]
    PROVE  Fits(p)'
<1>1. HoldsMutex(p)' /\ AskedSoFar(p)'
  BY DEF IInv, Fits, HoldsMutex, AskedSoFar, At, Busy
<1>2. ExcusedSoFar(p)'
  BY DEF IInv, TypeOK, Fits, ExcusedSoFar, At, Busy
<1> QED BY <1>1, <1>2 DEF Fits

-----------------------------------------------------------------------------
(* The steps of a thread t.                                                *)
LEMMA Beginning ==
    ASSUME IInv, NEW t \in Threads, NEW op \in Ops, begin(t, op)
    PROVE  IInv'
<1> USE DEF begin
<1>1. TypeOK'
  BY DEF IInv, TypeOK
<1>2. Fits(t)'
  <2>1. /\ pc'[t] = [at |-> "ensure", op |-> op, again |-> FALSE,
                     result |-> "none"]
        /\ asked'[t] = 0 /\ excused'[t] = ~sec_up
    BY DEF IInv, TypeOK
  <2>2. owner # t
    BY DEF IInv, Fits, HoldsMutex, At
  <2>3. HoldsMutex(t)'
    BY <2>1, <2>2 DEF HoldsMutex, At
  <2>4. AskedSoFar(t)'
    BY <2>1 DEF AskedSoFar, At, Busy
  <2>5. ExcusedSoFar(t)'
    <3>1. sec_up' = sec_up
      OBVIOUS
    <3>2. ~sec_up => excused'[t]
      BY <2>1, Zenon
    <3> QED BY <2>1, <3>1, <3>2 DEF ExcusedSoFar, At, Busy
  <2> QED BY <2>3, <2>4, <2>5 DEF Fits
<1>3. ASSUME NEW p \in Threads, p # t PROVE Fits(p)'
  <2>1. pc'[p] = pc[p] /\ asked'[p] = asked[p] /\ excused'[p] = excused[p]
    BY <1>3 DEF IInv, TypeOK
  <2>2. Busy(p) /\ ~sec_up => excused[p]
    BY DEF IInv, Fits, ExcusedSoFar
  <2> QED BY <2>1, <2>2, OthersFit
<1>4. ClockInv'
  BY ClocksKept DEF IInv, TypeOK, At
<1> QED BY <1>1, <1>2, <1>3, <1>4 DEF IInv

(* Where a thread may go, and what becomes of its operation.               *)
Moved(t, place, result, again) ==
    /\ pc' \in [Threads -> Places]
    /\ pc'[t].at = place /\ pc'[t].op = pc[t].op
    /\ pc'[t].result = result /\ pc'[t].again = again
    /\ \A p \in Threads \ {t} : pc'[p] = pc[p]

(* A thread that goes to another place of its call, and nothing else.      *)
LEMMA Going ==
    ASSUME IInv, NEW t \in Threads,
           NEW place \in {"ensure", "lock", "locked", "attempt", "connect",
                        "call"},
           Goes(t, place)
    PROVE  Moved(t, place, pc[t].result, pc[t].again)
  BY DEF IInv, TypeOK, Goes, Moved, Places

(* A thread that returns, and nothing else.                                *)
LEMMA Returning ==
    ASSUME IInv, NEW t \in Threads,
           NEW result \in {"ok", "refused", "failed", "unavailable"},
           Returns(t, result)
    PROVE  Moved(t, "rest", result, pc[t].again)
  BY DEF IInv, TypeOK, Returns, Moved, Places

(* A thread that finds a connection makes its call, or says so.            *)
LEMMA EnsuredTrue ==
    ASSUME IInv, NEW t \in Threads, Ensured(t, TRUE)
    PROVE  \/ /\ pc[t].op # "is_available"
              /\ Moved(t, "call", pc[t].result, pc[t].again)
           \/ /\ pc[t].op = "is_available"
              /\ Moved(t, "rest", "ok", pc[t].again)
  BY Going, Returning DEF Ensured

(* A thread that finds none returns.                                       *)
LEMMA EnsuredFalse ==
    ASSUME IInv, NEW t \in Threads, Ensured(t, FALSE)
    PROVE  Moved(t, "rest", "unavailable", pc[t].again)
  BY Returning DEF Ensured

(* A seed that was not asked for again is; anything else has failed.       *)
LEMMA Failing ==
    ASSUME IInv, NEW t \in Threads, Failed(t)
    PROVE  \/ /\ pc[t].op = "get_seed" /\ ~pc[t].again
              /\ Moved(t, "ensure", pc[t].result, TRUE)
           \/ Moved(t, "rest", "failed", pc[t].again)
<1>1. CASE pc[t].op = "get_seed" /\ ~pc[t].again
  BY <1>1 DEF Failed, IInv, TypeOK, Moved, Places
<1>2. CASE ~(pc[t].op = "get_seed" /\ ~pc[t].again)
  BY <1>2, Returning DEF Failed
<1> QED BY <1>1, <1>2

(* A step of thread t preserves the invariant if t fits after it, and the  *)
(* others are not deprived of anything.                                    *)
LEMMA ThreadSteps ==
    ASSUME IInv, NEW t \in Threads, pc' \in [Threads -> Places],
           \A p \in Threads \ {t} : pc'[p] = pc[p],
           sec_up' = sec_up, ClockInv',
           since' \in 0 .. INTERVAL, gap' \in 0 .. INTERVAL,
           now' \in [Threads -> 0 .. INTERVAL],
           link' \in {"up", "stale", "down"},
           link' = link \/ link' = "up" \/ (link' = "down" /\ link # "up")
              \/ excused' = [p \in Threads |-> TRUE] \/ ~sec_up,
           owner' = owner \/ {owner, owner'} = {t, None},
           \/ excused' = excused \/ excused' = [excused EXCEPT ![t] = TRUE]
           \/ excused' = [p \in Threads |-> TRUE],
           asked' \in [Threads -> 0 .. 2],
           \A p \in Threads \ {t} : asked'[p] = asked[p],
           Fits(t)'
    PROVE  IInv'
<1>1. excused' \in [Threads -> BOOLEAN]
  BY DEF IInv, TypeOK
<1>2. owner' \in Threads \cup {None}
  BY DEF IInv, TypeOK
<1>3. TypeOK'
  BY <1>1, <1>2 DEF IInv, TypeOK, Places
<1>4. ASSUME NEW p \in Threads, p # t PROVE Fits(p)'
  <2>1. owner' = p <=> owner = p
    BY <1>4, AdapterAssumption
  <2>2. excused[p] => excused'[p]
    <3>1. CASE excused' = excused
      BY <3>1
    <3>2. CASE excused' = [excused EXCEPT ![t] = TRUE]
      BY <1>4, <3>2 DEF IInv, TypeOK
    <3>3. CASE excused' = [q \in Threads |-> TRUE]
      BY <3>3
    <3> QED BY <3>1, <3>2, <3>3
  <2>3. Busy(p) /\ ~sec_up' => excused'[p]
    BY <2>2 DEF IInv, Fits, ExcusedSoFar
  <2> QED BY <1>4, <2>1, <2>2, <2>3, OthersFit
<1> QED BY <1>3, <1>4 DEF IInv

(* Where a thread may be after a step that does not ask SEC.               *)
LEMMA Unasked ==
    ASSUME IInv, NEW t \in Threads, Busy(t),
           NEW place, NEW result, Moved(t, place, result, pc[t].again),
           place = "call" => pc[t].op # "is_available",
           asked' = asked
    PROVE  AskedSoFar(t)'
<1>1. asked'[t] = asked[t] /\ asked[t] \in 0 .. 2
  BY DEF IInv, TypeOK
<1> QED BY <1>1 DEF IInv, Fits, AskedSoFar, Moved, At, Busy

(* sec_ipc_adapter.cpp:118: the look without the mutex.                    *)
LEMMA Ensure ==
    ASSUME IInv, NEW t \in Threads, ensure_connected(t)
    PROVE  IInv'
<1> USE DEF ensure_connected
<1>1. At(t, "ensure") /\ Busy(t) /\ owner # t
  BY DEF IInv, Fits, HoldsMutex, At, Busy
<1>2. PICK place \in {"call", "rest", "lock"}, result \in {"ok", pc[t].result} :
        /\ Moved(t, place, result, pc[t].again)
        /\ place = "call" => pc[t].op # "is_available" /\ link # "down"
        /\ place = "rest" => result = "ok"
  BY Going, EnsuredTrue
<1>3. AskedSoFar(t)'
  BY <1>1, <1>2, Unasked
<1>4. HoldsMutex(t)'
  BY <1>1, <1>2 DEF Moved, HoldsMutex, At
<1>5. excused'[t] = excused[t] /\ link' = link /\ sec_up' = sec_up
  OBVIOUS
<1>6. place = "call" /\ pc[t].again /\ link # "up" => link = "stale"
  BY <1>2 DEF IInv, TypeOK
<1>7. ExcusedSoFar(t)'
  BY <1>1, <1>2, <1>5, <1>6 DEF IInv, Fits, ExcusedSoFar, Moved, At, Busy
<1>8. Fits(t)'
  BY <1>3, <1>4, <1>7 DEF Fits
<1>clocks. ClockInv'
  BY <1>1, <1>2, ClocksKept DEF Moved, At
<1> QED BY <1>clocks, <1>2, <1>8, ThreadSteps DEF Moved, IInv, TypeOK

(* sec_ipc_adapter.cpp:122: taking the mutex.                              *)
LEMMA Lock ==
    ASSUME IInv, NEW t \in Threads, lock(t)
    PROVE  IInv'
<1> USE DEF lock
<1>1. At(t, "lock") /\ Busy(t)
  BY DEF At, Busy
<1>2. Moved(t, "locked", pc[t].result, pc[t].again)
  BY Going
<1>3. AskedSoFar(t)'
  BY <1>1, <1>2, Unasked
<1>4. HoldsMutex(t)'
  BY <1>2 DEF Moved, HoldsMutex, At
<1>5. ExcusedSoFar(t)'
  BY <1>1, <1>2 DEF IInv, Fits, ExcusedSoFar, Moved, At, Busy
<1>6. Fits(t)'
  BY <1>3, <1>4, <1>5 DEF Fits
<1>clocks. ClockInv'
  BY <1>1, <1>2, ClocksKept DEF Moved, At
<1> QED BY <1>clocks, <1>2, <1>6, ThreadSteps DEF Moved, IInv, TypeOK

(* The throttle excuses the thread it sends away.                          *)
LEMMA TryConnect ==
    ASSUME IInv, NEW t \in Threads, try_connect(t)
    PROVE  IInv'
<1>1. At(t, "locked") /\ Busy(t) /\ owner = t /\ t # None
  BY AdapterAssumption DEF try_connect, IInv, Fits, HoldsMutex, At, Busy
<1>2. UNCHANGED <<link, sec_up, since, asked>>
  BY DEF try_connect
<1>3. CASE link = "down" /\ since < INTERVAL
  <2>1. /\ Ensured(t, FALSE) /\ owner' = None /\ Excuse(t)
        /\ UNCHANGED <<now, gap>>
    BY <1>3 DEF try_connect
  <2>2. Moved(t, "rest", "unavailable", pc[t].again)
    BY <2>1, EnsuredFalse
  <2>3. excused'[t] = TRUE
    BY <2>1 DEF Excuse, IInv, TypeOK
  <2>4. AskedSoFar(t)'
    BY <1>1, <1>2, <2>2, Unasked
  <2>5. Fits(t)'
    BY <1>1, <2>1, <2>2, <2>3, <2>4
       DEF Fits, HoldsMutex, ExcusedSoFar, Moved, At
  <2>clocks. ClockInv'
    BY <1>1, <1>2, <2>1, <2>2, ClocksKept DEF Moved, At
  <2> QED BY <2>clocks, <1>1, <1>2, <2>1, <2>2, <2>5, ThreadSteps
         DEF Moved, Excuse, IInv, TypeOK
<1>4. CASE link # "down"
  <2>1. /\ Ensured(t, TRUE) /\ owner' = None
        /\ UNCHANGED <<now, gap, excused>>
    BY <1>4 DEF try_connect
  <2>2. PICK place \in {"call", "rest"}, result \in {"ok", pc[t].result} :
          /\ Moved(t, place, result, pc[t].again)
          /\ place = "call" => pc[t].op # "is_available"
          /\ place = "rest" => result = "ok"
    BY <2>1, EnsuredTrue
  <2>3. AskedSoFar(t)'
    BY <1>1, <1>2, <2>2, Unasked
  <2>4. pc[t].again /\ link # "up" => link = "stale"
    BY <1>4 DEF IInv, TypeOK
  <2>5. ExcusedSoFar(t)'
    BY <1>1, <1>2, <2>1, <2>2, <2>4
       DEF IInv, Fits, ExcusedSoFar, Moved, At, Busy
  <2>6. Fits(t)'
    BY <1>1, <2>1, <2>2, <2>3, <2>5 DEF Fits, HoldsMutex, Moved, At
  <2>clocks. ClockInv'
    BY <1>1, <1>2, <2>1, <2>2, ClocksKept DEF Moved, At
  <2> QED BY <2>clocks, <1>1, <1>2, <2>1, <2>2, <2>6, ThreadSteps DEF Moved, IInv, TypeOK
<1>5. CASE link = "down" /\ ~(since < INTERVAL)
  <2>1. /\ Goes(t, "attempt") /\ gap' = 0 /\ now' = [now EXCEPT ![t] = 0]
        /\ UNCHANGED <<owner, excused>>
    BY <1>5 DEF try_connect
  <2>2. Moved(t, "attempt", pc[t].result, pc[t].again)
    BY <2>1, Going
  <2>3. AskedSoFar(t)'
    BY <1>1, <1>2, <2>2, Unasked
  <2>4. ExcusedSoFar(t)'
    BY <1>1, <1>2, <2>1, <2>2 DEF IInv, Fits, ExcusedSoFar, Moved, At, Busy
  <2>5. Fits(t)'
    BY <1>1, <2>1, <2>2, <2>3, <2>4 DEF Fits, HoldsMutex, Moved, At
  <2>6. ClockInv'
    <3>1. ASSUME NEW p \in Threads, p # t PROVE ~At(p, "attempt")'
      BY <1>1, <2>2, <3>1 DEF IInv, Fits, HoldsMutex, Moved, At
    <3>2. At(t, "attempt")' /\ now'[t] = 0
      BY <2>1, <2>2 DEF Moved, At, IInv, TypeOK
    <3> QED BY <2>1, <3>1, <3>2 DEF ClockInv
  <2>7. gap' \in 0 .. INTERVAL /\ now' \in [Threads -> 0 .. INTERVAL]
    BY <2>1, AdapterAssumption DEF IInv, TypeOK
  <2> QED BY <1>2, <2>1, <2>2, <2>5, <2>6, <2>7, ThreadSteps
          DEF Moved, IInv, TypeOK
<1> QED BY <1>3, <1>4, <1>5

(* sec_ipc_adapter.cpp:133: the attempt is written, with the time at which *)
(* it passed the throttle.                                                 *)
LEMMA Noting ==
    ASSUME IInv, NEW t \in Threads, note_attempt(t)
    PROVE  IInv'
<1>1. At(t, "attempt") /\ Busy(t) /\ owner = t /\ t # None
  BY AdapterAssumption DEF note_attempt, IInv, Fits, HoldsMutex, At, Busy
<1>2. /\ UNCHANGED <<link, sec_up, owner, now, asked, excused, gap>>
      /\ since' = now[t]
  BY DEF note_attempt
<1>3. Moved(t, "connect", pc[t].result, pc[t].again)
  BY Going DEF note_attempt
<1>4. AskedSoFar(t)'
  BY <1>1, <1>2, <1>3, Unasked
<1>5. ExcusedSoFar(t)'
  BY <1>1, <1>2, <1>3 DEF IInv, Fits, ExcusedSoFar, Moved, At, Busy
<1>6. Fits(t)'
  BY <1>1, <1>2, <1>3, <1>4, <1>5 DEF Fits, HoldsMutex, Moved, At
<1>7. ClockInv'
  <2>1. ASSUME NEW p \in Threads PROVE ~At(p, "attempt")'
    BY <1>1, <1>3, <2>1 DEF IInv, Fits, HoldsMutex, Moved, At
  <2>2. gap' = since'
    BY <1>1, <1>2 DEF IInv, ClockInv
  <2> QED BY <2>1, <2>2 DEF ClockInv
<1>8. since' \in 0 .. INTERVAL
  BY <1>2 DEF IInv, TypeOK
<1> QED BY <1>2, <1>3, <1>6, <1>7, <1>8, ThreadSteps DEF Moved, IInv, TypeOK

(* sec_ipc_adapter.cpp:138: the attempt, and what it makes of the          *)
(* connection.                                                             *)
LEMMA Connecting ==
    ASSUME IInv, NEW t \in Threads, connect(t)
    PROVE  IInv'
<1>1. At(t, "connect") /\ Busy(t) /\ owner = t /\ t # None
  BY AdapterAssumption DEF connect, IInv, Fits, HoldsMutex, At, Busy
<1>2. /\ UNCHANGED <<sec_up, since, now, asked, excused, gap>> /\ owner' = None
      /\ link' = IF sec_up THEN "up" ELSE "down"
      /\ Ensured(t, sec_up)
  BY DEF connect
<1>3. PICK place \in {"call", "rest"},
           result \in {"ok", "unavailable", pc[t].result} :
        /\ Moved(t, place, result, pc[t].again)
        /\ place = "call" => pc[t].op # "is_available" /\ link' = "up"
        /\ place = "rest" /\ sec_up => result = "ok"
  <2>1. CASE sec_up = TRUE
    BY <1>2, <2>1, EnsuredTrue
  <2>2. CASE sec_up = FALSE
    BY <1>2, <2>2, EnsuredFalse
  <2> QED BY <2>1, <2>2 DEF IInv, TypeOK
<1>4. AskedSoFar(t)'
  BY <1>1, <1>2, <1>3, Unasked
<1>5. ~sec_up => excused[t]
  BY <1>1 DEF IInv, Fits, ExcusedSoFar
<1>6. ExcusedSoFar(t)'
  BY <1>1, <1>2, <1>3, <1>5 DEF ExcusedSoFar, Moved, At, Busy
<1>7. Fits(t)'
  BY <1>1, <1>2, <1>3, <1>4, <1>6 DEF Fits, HoldsMutex, Moved, At
<1>clocks. ClockInv'
  BY <1>1, <1>2, <1>3, ClocksKept DEF Moved, At
<1> QED BY <1>clocks, <1>1, <1>2, <1>3, <1>7, ThreadSteps DEF Moved, IInv, TypeOK

(* SEC is asked, and answers.                                              *)
LEMMA Calling ==
    ASSUME IInv, NEW t \in Threads, call(t)
    PROVE  IInv'
<1>1. /\ At(t, "call") /\ Busy(t) /\ owner # t /\ link = "up"
      /\ asked' = [asked EXCEPT ![t] = asked[t] + 1]
      /\ UNCHANGED <<link, sec_up, owner, since, now, excused, gap>>
  BY DEF call, IInv, Fits, HoldsMutex, At, Busy
<1>2. PICK result \in {"ok", "refused"} : Moved(t, "rest", result, pc[t].again)
  BY Returning DEF call
<1>3. /\ asked[t] <= 1 /\ (pc[t].op \in OneShot => asked[t] = 0)
      /\ asked[t] \in 0 .. 2
  BY <1>1 DEF IInv, TypeOK, Fits, AskedSoFar, OneShot
<1>4. asked'[t] = asked[t] + 1 /\ asked' \in [Threads -> 0 .. 2]
      /\ \A p \in Threads \ {t} : asked'[p] = asked[p]
  BY <1>1, <1>3 DEF IInv, TypeOK
<1>5. AskedSoFar(t)'
  BY <1>1, <1>2, <1>3, <1>4 DEF IInv, Fits, AskedSoFar, Moved, At, Busy
<1>6. Fits(t)'
  BY <1>1, <1>2, <1>5 DEF Fits, HoldsMutex, ExcusedSoFar, Moved, At, Busy
<1>clocks. ClockInv'
  BY <1>1, <1>2, ClocksKept DEF Moved, At
<1> QED BY <1>clocks, <1>1, <1>2, <1>4, <1>6, ThreadSteps DEF Moved, IInv, TypeOK

(* A call that fails where everybody is excused.                           *)
LEMMA CallingUnanswered ==
    ASSUME IInv, NEW t \in Threads, call_unanswered(t)
    PROVE  IInv'
<1>1. /\ At(t, "call") /\ Busy(t) /\ owner # t /\ link' = "down"
      /\ asked' = [asked EXCEPT ![t] = asked[t] + 1]
      /\ excused' = [p \in Threads |-> TRUE]
      /\ UNCHANGED <<sec_up, owner, since, now, gap>>
  BY DEF call_unanswered, ExcuseAll, IInv, Fits, HoldsMutex, At, Busy
<1>2. \/ /\ pc[t].op = "get_seed" /\ ~pc[t].again
         /\ Moved(t, "ensure", pc[t].result, TRUE)
      \/ Moved(t, "rest", "failed", pc[t].again)
  BY Failing, Returning DEF call_unanswered
<1>3. /\ asked[t] <= 1 /\ (pc[t].op \in OneShot => asked[t] = 0)
      /\ asked[t] \in 0 .. 2
  BY <1>1 DEF IInv, TypeOK, Fits, AskedSoFar, OneShot
<1>4. asked'[t] = asked[t] + 1 /\ asked' \in [Threads -> 0 .. 2]
      /\ \A p \in Threads \ {t} : asked'[p] = asked[p]
  BY <1>1, <1>3 DEF IInv, TypeOK
<1>5. AskedSoFar(t)'
  BY <1>1, <1>2, <1>3, <1>4
     DEF IInv, Fits, AskedSoFar, Moved, At, Busy, Ops, OneShot
<1>6. excused'[t] = TRUE
  BY <1>1
<1>7. Fits(t)'
  BY <1>1, <1>2, <1>5, <1>6 DEF Fits, HoldsMutex, ExcusedSoFar, Moved, At, Busy
<1>clocks. ClockInv'
  BY <1>1, <1>2, ClocksKept DEF Moved, At
<1> QED BY <1>clocks, <1>1, <1>2, <1>4, <1>7, ThreadSteps DEF Moved, IInv, TypeOK

(* A call that finds no connection: the first of a seed is made again, and *)
(* a second one has its excuse.                                            *)
LEMMA CallingUnsent ==
    ASSUME IInv, NEW t \in Threads, call_unsent(t)
    PROVE  IInv'
<1>1. /\ At(t, "call") /\ Busy(t) /\ owner # t /\ link # "up" /\ link' = "down"
      /\ UNCHANGED <<sec_up, owner, since, now, asked, excused, gap>>
  BY DEF call_unsent, IInv, Fits, HoldsMutex, At, Busy
<1>2. \/ /\ pc[t].op = "get_seed" /\ ~pc[t].again
         /\ Moved(t, "ensure", pc[t].result, TRUE)
      \/ Moved(t, "rest", "failed", pc[t].again)
         /\ (pc[t].op = "get_seed" => pc[t].again)
  <2>1. Failed(t)
    BY DEF call_unsent
  <2>2. CASE pc[t].op = "get_seed" /\ ~pc[t].again
    BY <2>1, <2>2 DEF Failed, IInv, TypeOK, Moved, Places
  <2>3. CASE ~(pc[t].op = "get_seed" /\ ~pc[t].again)
    BY <2>1, <2>3, Returning DEF Failed
  <2> QED BY <2>2, <2>3
<1>3. asked'[t] = asked[t] /\ asked[t] \in 0 .. 2
  BY <1>1 DEF IInv, TypeOK
<1>4. AskedSoFar(t)'
  BY <1>1, <1>2, <1>3
     DEF IInv, Fits, AskedSoFar, Moved, At, Busy, Ops, OneShot
<1>5. pc[t].again => excused[t]
  BY <1>1 DEF IInv, Fits, ExcusedSoFar
<1>6. Busy(t) /\ ~sec_up => excused[t]
  BY DEF IInv, Fits, ExcusedSoFar
<1>7. ExcusedSoFar(t)'
  BY <1>1, <1>2, <1>5, <1>6 DEF ExcusedSoFar, Moved, At, Busy
<1>8. Fits(t)'
  BY <1>1, <1>2, <1>4, <1>7 DEF Fits, HoldsMutex, Moved, At
<1>clocks. ClockInv'
  BY <1>1, <1>2, ClocksKept DEF Moved, At
<1> QED BY <1>clocks, <1>1, <1>2, <1>8, ThreadSteps DEF Moved, IInv, TypeOK

-----------------------------------------------------------------------------
(* Steps of SEC and of time.                                               *)
LEMMA Environment ==
    ASSUME IInv, SecDropsIdle \/ SecStops \/ SecStarts \/ Tick \/ UNCHANGED vars
    PROVE  IInv'
<1>1. CASE SecDropsIdle
  <2>1. TypeOK' /\ ClockInv'
    BY <1>1 DEF SecDropsIdle, IInv, TypeOK, ClockInv, At
  <2>2. ASSUME NEW p \in Threads PROVE Fits(p)'
    <3>1. excused'[p] = (excused[p] \/ pc[p].again)
      BY <1>1 DEF SecDropsIdle
    <3>2. Busy(p) /\ ~sec_up => excused[p]
      BY DEF IInv, Fits, ExcusedSoFar
    <3>3. /\ UNCHANGED <<sec_up, owner, pc, asked>>
      BY <1>1 DEF SecDropsIdle
    <3> QED BY <3>1, <3>2, <3>3, OthersFit
  <2> QED BY <2>1, <2>2 DEF IInv
<1>2. CASE SecStops
  <2>1. TypeOK' /\ ClockInv'
    BY <1>2 DEF SecStops, ExcuseAll, IInv, TypeOK, ClockInv, At
  <2>2. ASSUME NEW p \in Threads PROVE Fits(p)'
    BY <1>2, OthersFit DEF SecStops, ExcuseAll
  <2> QED BY <2>1, <2>2 DEF IInv
<1>3. CASE SecStarts
  <2>1. TypeOK' /\ ClockInv'
    BY <1>3 DEF SecStarts, IInv, TypeOK, ClockInv, At
  <2>2. ASSUME NEW p \in Threads PROVE Fits(p)'
    BY <1>3, OthersFit DEF SecStarts
  <2> QED BY <2>1, <2>2 DEF IInv
<1>4. ASSUME UNCHANGED <<link, sec_up, owner, pc, asked, excused>>,
             TypeOK', ClockInv'
      PROVE  IInv'
  <2>1. ASSUME NEW p \in Threads PROVE Fits(p)'
    BY <1>4 DEF IInv, Fits, HoldsMutex, AskedSoFar, ExcusedSoFar, At, Busy
  <2> QED BY <1>4, <2>1 DEF IInv
<1>5. CASE Tick
  <2>1. TypeOK'
    BY <1>5, AdapterAssumption DEF Tick, Later, IInv, TypeOK
  <2>2. ClockInv'
    BY <1>5 DEF Tick, IInv, TypeOK, ClockInv, At
  <2> QED BY <1>4, <1>5, <2>1, <2>2 DEF Tick
<1>6. CASE UNCHANGED vars
  <2>1. TypeOK' /\ ClockInv'
    BY <1>6 DEF vars, IInv, TypeOK, ClockInv, At
  <2> QED BY <1>4, <1>6, <2>1 DEF vars
<1> QED BY <1>1, <1>2, <1>3, <1>5, <1>6

(* Every step of a thread and of SEC keeps the invariant.                  *)
LEMMA InvNext == IInv /\ [Next]_vars => IInv'
  BY Beginning, Ensure, Lock, TryConnect, Noting, Connecting, Calling,
     CallingUnanswered, CallingUnsent, Environment DEF Next, Goings

(* The invariant of threads, mutex and clock.                              *)
LEMMA Invariant == Spec => []IInv
  BY InvInit, InvNext, PTL DEF Spec

-----------------------------------------------------------------------------
(* For any threads and any interval, the state is typed; what is asked of  *)
(* SEC in one operation is at most two calls.                              *)
THEOREM SecTypeOK == Spec => []TypeOK
<1>1. IInv => TypeOK
  BY DEF IInv
<1> QED BY <1>1, Invariant, PTL

(* sec_ipc_adapter.cpp:73-112: no key is sent twice in one verify_key, nor *)
(* what a routine carries, although threads share the connection.          *)
THEOREM SecNoKeySentTwice == Spec => []NoKeySentTwice
<1>1. IInv => NoKeySentTwice
  BY DEF IInv, Fits, AskedSoFar, NoKeySentTwice
<1> QED BY <1>1, Invariant, PTL

(* sec_ipc_adapter.cpp:26-47: a connection that was idle too long costs    *)
(* nobody a seed, however many threads find it gone.                       *)
THEOREM SecSeedSurvivesIdleDrop == Spec => []SeedSurvivesIdleDrop
<1>1. IInv => SeedSurvivesIdleDrop
  BY DEF IInv, Fits, ExcusedSoFar, SeedSurvivesIdleDrop
<1> QED BY <1>1, Invariant, PTL

(* sec_ipc_adapter.cpp:118-134: two threads never pass the throttle within *)
(* kReconnectMinInterval, for the mutex is held from the comparison until  *)
(* the attempt is written.                                                 *)
THEOREM SecReconnectsApart == Spec => ReconnectsApart
<1>1. IInv /\ [Next]_vars =>
        [(\E t \in Threads : ~At(t, "attempt") /\ At(t, "attempt")') =>
            gap >= INTERVAL]_vars
  <2> SUFFICES ASSUME IInv, Next, NEW t \in Threads,
                      ~At(t, "attempt"), At(t, "attempt")'
               PROVE  gap >= INTERVAL
    OBVIOUS
  <2>1. pc \in [Threads -> Places] /\ since \in 0 .. INTERVAL
    BY DEF IInv, TypeOK, Places
  <2>2. ASSUME NEW u \in Threads, try_connect(u) PROVE gap >= INTERVAL
    <3>1. CASE link # "down" \/ since < INTERVAL
      <4>1. Ensured(u, link # "down")
        BY <2>2, <3>1 DEF try_connect
      <4> QED BY <2>1, <4>1 DEF Ensured, Goes, Returns, At, Places
    <3>2. CASE ~(link # "down" \/ since < INTERVAL)
      <4>1. owner = u /\ ~At(u, "attempt")
        BY <2>2 DEF try_connect, IInv, Fits, HoldsMutex, At
      <4>2. \A p \in Threads : ~At(p, "attempt")
        BY <4>1 DEF IInv, Fits, HoldsMutex
      <4>3. gap = since
        BY <4>2 DEF IInv, ClockInv
      <4> QED BY <2>1, <3>2, <4>3, AdapterAssumption
    <3> QED BY <3>1, <3>2
  <2>3. ASSUME NEW u \in Threads,
               \/ ensure_connected(u) \/ lock(u) \/ note_attempt(u) \/ connect(u)
               \/ (\E op \in Ops : begin(u, op))
        PROVE  FALSE
    BY <2>1, <2>3 DEF ensure_connected, lock, note_attempt, connect, begin,
                      Ensured, Goes, Returns, At, Places
  <2>4. ASSUME NEW u \in Threads,
               call(u) \/ call_unanswered(u) \/ call_unsent(u)
        PROVE  FALSE
    BY <2>1, <2>4 DEF call, call_unanswered, call_unsent, Failed, Returns, At,
                      Places
  <2>5. ASSUME SecDropsIdle \/ SecStops \/ SecStarts \/ Tick PROVE FALSE
    BY <2>5 DEF SecDropsIdle, SecStops, SecStarts, Tick, At
  <2> QED BY <2>2, <2>3, <2>4, <2>5 DEF Next, Goings
<1> QED BY <1>1, Invariant, PTL DEF Spec, ReconnectsApart

=============================================================================
