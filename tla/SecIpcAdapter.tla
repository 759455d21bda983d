---------------------------- MODULE SecIpcAdapter ----------------------------
(***************************************************************************)
(* src/sec_ipc_adapter.cpp: DIAG's side of the connection to SEC, which    *)
(* drops it when it has been idle or goes away.  The client notices only   *)
(* when a call fails.  The adapter reconnects when it is asked for         *)
(* something, at most once per kReconnectMinInterval, and calls again once *)
(* where that does no harm.  Threads may call it at the same time;         *)
(* connect_mutex_ is held while one of them reconnects.                    *)
(*                                                                         *)
(* sec::SecClient and the connection are not in the repository: link is    *)
(* what the adapter's comments and its tests say of them.                  *)
(***************************************************************************)
EXTENDS Naturals

CONSTANTS Threads,
          None,       \* not a thread
          INTERVAL    \* kReconnectMinInterval, in Ticks

ASSUME AdapterAssumption == /\ None \notin Threads
                            /\ INTERVAL \in Nat \ {0}

VARIABLES link,     \* "up"; "stale", dropped by SEC and not noticed; "down"
          sec_up,   \* SEC is there to connect to
          owner,    \* of connect_mutex_
          since,    \* time since last_connect_attempt_, or INTERVAL
          now,      \* of a thread at its attempt: time since it read the clock
          pc,       \* what each thread is doing
          asked,    \* history: times SEC was asked in the call of a thread
          excused,  \* history: SEC or its connection let a thread's call down
          gap       \* history: time since a thread read the clock and was let
                    \* past the throttle, or INTERVAL

vars == <<link, sec_up, owner, since, now, pc, asked, excused, gap>>

(* Operations that call SEC once; the routines differ in what they carry.  *)
OneShot == {"verify_key", "routine"}

Ops == OneShot \cup {"get_seed", "is_available"}

Resting == [at |-> "rest", op |-> "none", again |-> FALSE, result |-> "none"]

Init == /\ link = "up"
        /\ sec_up = TRUE
        /\ owner = None
        /\ since = INTERVAL
        /\ now = [t \in Threads |-> 0]
        /\ pc = [t \in Threads |-> Resting]
        /\ asked = [t \in Threads |-> 0]
        /\ excused = [t \in Threads |-> FALSE]
        /\ gap = INTERVAL

At(t, place) == pc[t].at = place

Goes(t, place) == pc' = [pc EXCEPT ![t].at = place]

Returns(t, result) == pc' = [pc EXCEPT ![t].at = "rest", ![t].result = result]

Excuse(t) == excused' = [excused EXCEPT ![t] = TRUE]

ExcuseAll == excused' = [t \in Threads |-> TRUE]

Busy(t) == ~At(t, "rest")

-----------------------------------------------------------------------------
(* A thread begins an operation; each of them begins with is_available.    *)
begin(t, op) ==
    /\ At(t, "rest")
    /\ pc' = [pc EXCEPT ![t] = [at |-> "ensure", op |-> op, again |-> FALSE,
                                result |-> "none"]]
    /\ asked' = [asked EXCEPT ![t] = 0]
    /\ excused' = [excused EXCEPT ![t] = ~sec_up]
    /\ UNCHANGED <<link, sec_up, owner, since, now, gap>>

(* What becomes of the operation when ensure_connected has returned.       *)
Ensured(t, ok) ==
    IF ok /\ pc[t].op # "is_available" THEN Goes(t, "call")
    ELSE Returns(t, IF ok THEN "ok" ELSE "unavailable")

NeverReconnects(t) ==
    /\ At(t, "ensure")
    /\ Ensured(t, link # "down")
    /\ UNCHANGED <<link, sec_up, owner, since, now, asked, excused, gap>>

(* The first look at the connection is not under the mutex.                *)
ensure_connected(t) ==
    /\ At(t, "ensure")
    /\ IF link # "down" THEN Ensured(t, TRUE) ELSE Goes(t, "lock")
    /\ UNCHANGED <<link, sec_up, owner, since, now, asked, excused, gap>>

LockForgotten(t) ==
    /\ At(t, "lock")
    /\ Goes(t, "locked")
    /\ UNCHANGED <<link, sec_up, owner, since, now, asked, excused, gap>>

lock(t) ==
    /\ At(t, "lock")
    /\ owner = None
    /\ owner' = t
    /\ Goes(t, "locked")
    /\ UNCHANGED <<link, sec_up, since, now, asked, excused, gap>>

(* The second look; then the clock is read, and compared with the last     *)
(* attempt.                                                                *)
try_connect(t) ==
    /\ At(t, "locked")
    /\ IF link # "down" \/ since < INTERVAL
       THEN /\ Ensured(t, link # "down")
            /\ owner' = None
            /\ IF link = "down" THEN Excuse(t) ELSE UNCHANGED excused
            /\ UNCHANGED <<now, gap>>
       ELSE /\ Goes(t, "attempt")
            /\ now' = [now EXCEPT ![t] = 0]
            /\ gap' = 0
            /\ UNCHANGED <<owner, excused>>
    /\ UNCHANGED <<link, sec_up, since, asked>>

(* Only now does the attempt show, with the time that was read.            *)
note_attempt(t) ==
    /\ At(t, "attempt")
    /\ since' = now[t]
    /\ Goes(t, "connect")
    /\ UNCHANGED <<link, sec_up, owner, now, asked, excused, gap>>

connect(t) ==
    /\ At(t, "connect")
    /\ link' = IF sec_up THEN "up" ELSE "down"
    /\ owner' = None
    /\ Ensured(t, sec_up)
    /\ UNCHANGED <<sec_up, since, now, asked, excused, gap>>

(* A call that fails is tried again after a reconnect if it asks for a     *)
(* seed: the key is not sent twice, lest its failure count twice.          *)
FailedRetriesAll(t) ==
    IF ~pc[t].again
    THEN pc' = [pc EXCEPT ![t].at = "ensure", ![t].again = TRUE]
    ELSE Returns(t, "failed")

FailedRetriesForever(t) ==
    IF pc[t].op = "get_seed"
    THEN pc' = [pc EXCEPT ![t].at = "ensure", ![t].again = TRUE]
    ELSE Returns(t, "failed")

FailedRetriesNone(t) == Returns(t, "failed")

Failed(t) ==
    IF pc[t].op = "get_seed" /\ ~pc[t].again
    THEN pc' = [pc EXCEPT ![t].at = "ensure", ![t].again = TRUE]
    ELSE Returns(t, "failed")

(* The call reaches SEC, and its answer the adapter.                       *)
call(t) ==
    /\ At(t, "call")
    /\ link = "up"
    /\ asked' = [asked EXCEPT ![t] = asked[t] + 1]
    /\ \E result \in {"ok", "refused"} : Returns(t, result)
    /\ UNCHANGED <<link, sec_up, owner, since, now, excused, gap>>

(* The call reaches SEC, and its answer is lost with the connection; the   *)
(* client says CONNECTION_FAILED, or something else, which is not retried. *)
call_unanswered(t) ==
    /\ At(t, "call")
    /\ link = "up"
    /\ asked' = [asked EXCEPT ![t] = asked[t] + 1]
    /\ link' = "down"
    /\ ExcuseAll
    /\ Failed(t) \/ Returns(t, "failed")
    /\ UNCHANGED <<sec_up, owner, since, now, gap>>

(* The call finds out that there is no connection.                         *)
call_unsent(t) ==
    /\ At(t, "call")
    /\ link # "up"
    /\ link' = "down"
    /\ Failed(t)
    /\ UNCHANGED <<sec_up, owner, since, now, asked, excused, gap>>

-----------------------------------------------------------------------------
(* SEC drops an idle connection; one that a thread calls over is not idle. *)
SecDropsIdle ==
    /\ link = "up"
    /\ link' = "stale"
    /\ excused' = [t \in Threads |-> excused[t] \/ pc[t].again]
    /\ UNCHANGED <<sec_up, owner, since, now, pc, asked, gap>>

SecStops ==
    /\ sec_up
    /\ sec_up' = FALSE
    /\ link' = IF link = "up" THEN "stale" ELSE link
    /\ ExcuseAll
    /\ UNCHANGED <<owner, since, now, pc, asked, gap>>

SecStarts ==
    /\ ~sec_up
    /\ sec_up' = TRUE
    /\ UNCHANGED <<link, owner, since, now, pc, asked, excused, gap>>

Later(n) == IF n < INTERVAL THEN n + 1 ELSE n

Tick ==
    /\ since' = Later(since)
    /\ gap' = Later(gap)
    /\ now' = [t \in Threads |-> IF At(t, "attempt") THEN Later(now[t]) ELSE now[t]]
    /\ UNCHANGED <<link, sec_up, owner, pc, asked, excused>>

Goings(t) == \/ ensure_connected(t) \/ lock(t) \/ try_connect(t)
             \/ note_attempt(t) \/ connect(t)
             \/ call(t) \/ call_unanswered(t) \/ call_unsent(t)

Next == \/ \E t \in Threads :
              Goings(t) \/ \E op \in Ops : begin(t, op)
        \/ SecDropsIdle \/ SecStops \/ SecStarts \/ Tick

Spec == Init /\ [][Next]_vars

(* Threads go on with what they began and get the mutex they wait for;     *)
(* SEC is asked about again and again, as by the dispatcher's requests;    *)
(* time does not stop.                                                     *)
FairSpec ==
    /\ Spec
    /\ \A t \in Threads : /\ WF_vars(Goings(t)) /\ SF_vars(lock(t))
                          /\ WF_vars(begin(t, "is_available"))
    /\ WF_vars(Tick)

-----------------------------------------------------------------------------
TypeOK ==
    /\ link \in {"up", "stale", "down"}
    /\ sec_up \in BOOLEAN
    /\ owner \in Threads \cup {None}
    /\ since \in 0 .. INTERVAL /\ gap \in 0 .. INTERVAL
    /\ now \in [Threads -> 0 .. INTERVAL]
    /\ pc \in [Threads -> [at : {"rest", "ensure", "lock", "locked", "attempt",
                                 "connect", "call"},
                           op : Ops \cup {"none"},
                           again : BOOLEAN,
                           result : {"none", "ok", "refused", "failed",
                                     "unavailable"}]]
    /\ asked \in [Threads -> 0 .. 2]
    /\ excused \in [Threads -> BOOLEAN]

(* However many threads find the connection gone together, the times at    *)
(* which two of them are let past the throttle are at least INTERVAL       *)
(* apart: nobody compares with last_connect_attempt_ while another, which  *)
(* has compared, has yet to write it.                                      *)
ReconnectsApart ==
    [][(\E t \in Threads : ~At(t, "attempt") /\ At(t, "attempt")') =>
          gap >= INTERVAL]_vars

(* A key reaches SEC at most once per verify_key, even if its answer is    *)
(* lost; a request for a seed at most twice.                               *)
NoKeySentTwice ==
    \A t \in Threads : pc[t].op \in OneShot => asked[t] <= 1

(* A connection that SEC dropped while it was idle costs nobody a seed:    *)
(* get_seed fails only if SEC was away, an answer was lost, the throttle   *)
(* held the reconnect back, or the new connection was dropped, too.        *)
SeedSurvivesIdleDrop ==
    \A t \in Threads :
        /\ At(t, "rest") /\ pc[t].op = "get_seed"
        /\ pc[t].result \in {"failed", "unavailable"}
        => excused[t]

(* The adapter does not stay cut off: if SEC is there for good, the        *)
(* connection that is lost is made again (the fault that                   *)
(* include/sec_ipc_adapter.h:22-26 tells of).                              *)
Reconnects == <>[]sec_up => []<>(link # "down")

=============================================================================
