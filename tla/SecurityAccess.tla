--------------------------- MODULE SecurityAccess ---------------------------
(***************************************************************************)
(* src/security_access.cpp: the seed and key exchange of service 0x27,     *)
(* per security level, with its attempt counter and its lockout.           *)
(*                                                                         *)
(* Every public method locks mutex_ for its whole body, so each one is one *)
(* action; the calls it makes to SEC happen inside it.  states_ is a map   *)
(* whose missing entries behave like default ones: here it is total.  Of   *)
(* locked_until only its distance from now is kept, lock_left, since       *)
(* nothing but now < locked_until is ever asked, and attempt_count stops   *)
(* at MAX_ATTEMPTS, since nothing but attempt_count >= MAX_ATTEMPTS is.    *)
(* requested_seed is written and never read: the seed is SEC's business.   *)
(***************************************************************************)
EXTENDS Integers

CONSTANTS MaxLevel,      \* level bytes are 0 .. MaxLevel
          MAX_ATTEMPTS,  \* SecurityConfig::MAX_ATTEMPTS
          LOCKOUT        \* SecurityConfig::LOCKOUT_DURATION_MS, in Ticks

ASSUME SecurityAssumption == /\ MaxLevel \in Nat
                             /\ MAX_ATTEMPTS \in Nat \ {0}
                             /\ LOCKOUT \in Nat \ {0}

VARIABLES states,    \* states_
          sec_up,    \* sec_ is set and sec_->is_available()
          reply,     \* the last call and what it returned
          judged,    \* history: SEC's verdict on the last seed it issued for
                     \* a level, "pending" until it was asked
          watch      \* history: per level, a stopwatch someone may start at a
                     \* refused key, and the refusals it has seen

vars == <<states, sec_up, reply, judged, watch>>

Levels == 0 .. MaxLevel

(* What asking SEC about a key comes to: verify_key is false when SEC says *)
(* no and when it does not answer at all.                                  *)
Verdicts == {"accepted", "rejected", "no_answer"}

NewState == [seed_requested |-> FALSE,
             unlocked       |-> FALSE,
             attempt_count  |-> 0,
             lock_left      |-> 0]

NewStates == [l \in Levels |-> NewState]

-----------------------------------------------------------------------------
(* The methods, as functions of the states they find.                      *)

(* sendKey levels are even and follow their requestSeed level.             *)
SeedLevel(level) == IF level > 0 THEN level - 1 ELSE level

(* is_unlocked looks a level up under its requestSeed level.               *)
StateKey(level) == IF level % 2 = 0 /\ level > 0 THEN level - 1 ELSE level

LockedOutAfterOneMore(s) == s.attempt_count > MAX_ATTEMPTS /\ s.lock_left > 0

LockedOutForEver(s) == s.attempt_count >= MAX_ATTEMPTS

LockedOut(s) == s.attempt_count >= MAX_ATTEMPTS /\ s.lock_left > 0

SeedCodeNoLockout(st, up, level, got) ==
    IF up /\ got THEN "SUCCESS" ELSE "SEC_UNAVAILABLE"

SeedCode(st, up, level, got) ==
    CASE ~up                                    -> "SEC_UNAVAILABLE"
      [] up /\ LockedOut(st[level])             -> "SECURITY_ACCESS_DENIED"
      [] up /\ ~LockedOut(st[level]) /\ ~got    -> "SEC_UNAVAILABLE"
      [] OTHER                                  -> "SUCCESS"

ChallengedStaysOpen(s) == [s EXCEPT !.seed_requested = TRUE]

Challenged(s) == [s EXCEPT !.seed_requested = TRUE, !.unlocked = FALSE]

KeyIsTriedWithoutSec(st, up, level) ==
    LET s == st[SeedLevel(level)] IN ~LockedOut(s) /\ s.seed_requested

(* SEC is asked about the key only then.                                   *)
KeyIsTried(st, up, level) ==
    LET s == st[SeedLevel(level)] IN up /\ ~LockedOut(s) /\ s.seed_requested

KeyCode(st, up, level, verdict) ==
    CASE ~up -> "SEC_UNAVAILABLE"
      [] KeyIsTried(st, up, level) /\ verdict = "accepted" -> "SUCCESS"
      [] OTHER -> "SECURITY_ACCESS_DENIED"

Counted(n) == IF n < MAX_ATTEMPTS THEN n + 1 ELSE n

RefusedKeepsSeed(s) ==
    [s EXCEPT !.attempt_count = Counted(s.attempt_count),
              !.lock_left = IF s.attempt_count + 1 >= MAX_ATTEMPTS
                            THEN LOCKOUT ELSE s.lock_left]

RefusedLocksLonger(s) ==
    [s EXCEPT !.attempt_count = Counted(s.attempt_count),
              !.seed_requested = FALSE,
              !.lock_left = IF s.attempt_count + 1 >= MAX_ATTEMPTS
                            THEN s.attempt_count * LOCKOUT ELSE s.lock_left]

(* A failure is counted whether SEC rejected the key or did not answer.    *)
(* The counter is not reset when a lockout runs out: the next failure      *)
(* starts another one.                                                     *)
Refused(s) ==
    [s EXCEPT !.attempt_count = Counted(s.attempt_count),
              !.seed_requested = FALSE,
              !.lock_left = IF s.attempt_count + 1 >= MAX_ATTEMPTS
                            THEN LOCKOUT ELSE s.lock_left]

Accepted(s) == [s EXCEPT !.unlocked = TRUE,
                         !.seed_requested = FALSE,
                         !.attempt_count = 0]

Locked(s) == [s EXCEPT !.unlocked = FALSE, !.seed_requested = FALSE]

Seeded(st, up, level, got) ==
    IF SeedCode(st, up, level, got) = "SUCCESS"
    THEN [st EXCEPT ![level] = Challenged(st[level])] ELSE st

Keyed(st, up, level, verdict) ==
    LET l == SeedLevel(level) IN
    IF ~KeyIsTried(st, up, level) THEN st
    ELSE [st EXCEPT ![l] = IF verdict = "accepted" THEN Accepted(st[l])
                           ELSE Refused(st[l])]

Unlocked(st, level) == st[StateKey(level)].unlocked

Elapsed(st) ==
    [l \in Levels |->
        [st[l] EXCEPT !.lock_left = IF st[l].lock_left > 0
                                    THEN st[l].lock_left - 1 ELSE 0]]

-----------------------------------------------------------------------------
(* The state machine.                                                      *)

(* A stopwatch that shows LOCKOUT is not running.                          *)
Stopped == [age |-> LOCKOUT, count |-> 0]

Running(w) == w.age < LOCKOUT

Init == /\ states = NewStates
        /\ sec_up = TRUE
        /\ reply = [op |-> "none", level |-> 0, code |-> "SUCCESS"]
        /\ judged = [l \in Levels |-> "none"]
        /\ watch = [l \in Levels |-> Stopped]

Returns(op, level, code) ==
    reply' = [op |-> op, level |-> level, code |-> code]

request_seed(level, got) ==
    LET code == SeedCode(states, sec_up, level, got) IN
    /\ states' = Seeded(states, sec_up, level, got)
    /\ judged' = IF code = "SUCCESS" THEN [judged EXCEPT ![level] = "pending"]
                 ELSE judged
    /\ Returns("request_seed", level, code)
    /\ UNCHANGED <<sec_up, watch>>

(* The stopwatch may be started, or started afresh, at a refusal, which it *)
(* then counts.  An accepted key ends the row of failures it is about.     *)
Watched(w, verdict, begin) ==
    CASE verdict = "accepted" -> Stopped
      [] verdict # "accepted" /\ begin -> [age |-> 0, count |-> 1]
      [] verdict # "accepted" /\ ~begin /\ Running(w) ->
            [w EXCEPT !.count = w.count + 1]
      [] OTHER -> w

send_key(level, verdict) ==
    LET l == SeedLevel(level) IN
    /\ states' = Keyed(states, sec_up, level, verdict)
    /\ Returns("send_key", level, KeyCode(states, sec_up, level, verdict))
    /\ IF KeyIsTried(states, sec_up, level)
       THEN /\ judged' = [judged EXCEPT ![l] =
                            IF verdict = "accepted" /\ judged[l] = "pending"
                            THEN "accepted" ELSE "spent"]
            /\ \E begin \in BOOLEAN :
                  watch' = [watch EXCEPT ![l] = Watched(watch[l], verdict, begin)]
       ELSE UNCHANGED <<judged, watch>>
    /\ UNCHANGED sec_up

lock(level) ==
    /\ states' = [states EXCEPT ![level] = Locked(states[level])]
    /\ Returns("lock", level, "SUCCESS")
    /\ UNCHANGED <<sec_up, judged, watch>>

(* Called by shutdown: counters and lockouts are forgotten with the rest.  *)
reset ==
    /\ states' = NewStates
    /\ Returns("reset", 0, "SUCCESS")
    /\ judged' = [l \in Levels |-> "none"]
    /\ watch' = [l \in Levels |-> Stopped]
    /\ UNCHANGED sec_up

(* The connection to SEC comes and goes.                                   *)
SecComesAndGoes ==
    /\ sec_up' = ~sec_up
    /\ UNCHANGED <<states, reply, judged, watch>>

Tick ==
    /\ states' = Elapsed(states)
    /\ watch' = [l \in Levels |->
                    IF watch[l].age + 1 < LOCKOUT
                    THEN [watch[l] EXCEPT !.age = watch[l].age + 1]
                    ELSE Stopped]
    /\ UNCHANGED <<sec_up, reply, judged>>

Next == \/ \E level \in Levels :
              \/ \E got \in BOOLEAN : request_seed(level, got)
              \/ \E verdict \in Verdicts : send_key(level, verdict)
              \/ lock(level)
        \/ reset
        \/ SecComesAndGoes
        \/ Tick

Spec == Init /\ [][Next]_vars

(* The steady clock does not stop.                                         *)
FairSpec == Spec /\ WF_vars(Tick)

-----------------------------------------------------------------------------
TypeOK ==
    /\ states \in [Levels -> [seed_requested : BOOLEAN,
                              unlocked       : BOOLEAN,
                              attempt_count  : 0 .. MAX_ATTEMPTS,
                              lock_left      : 0 .. LOCKOUT]]
    /\ sec_up \in BOOLEAN
    /\ judged \in [Levels -> {"none", "pending", "accepted", "spent"}]
    /\ watch \in [Levels -> [age : 0 .. LOCKOUT, count : Nat]]

(* A level under lockout is neither unlocked nor waiting for a key.        *)
LockoutMeansLocked ==
    \A l \in Levels :
        LockedOut(states[l]) => ~states[l].unlocked /\ ~states[l].seed_requested

(* SEC is asked about a key at most once per seed it issued, and a level   *)
(* is unlocked only by the key SEC accepted for the last one.              *)
SeedSpentOnce ==
    \A l \in Levels :
        /\ states[l].seed_requested => judged[l] = "pending"
        /\ states[l].unlocked => judged[l] = "accepted"

(* Whenever one starts to watch, no more than MAX_ATTEMPTS keys in a row   *)
(* fail at a level before LOCKOUT has passed.                              *)
GuessRate ==
    \A l \in Levels : watch[l].count <= MAX_ATTEMPTS

(* No lockout is for ever.                                                 *)
LockoutEnds ==
    \A l \in Levels : LockedOut(states[l]) ~> ~LockedOut(states[l])

=============================================================================
