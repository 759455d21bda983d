------------------------ MODULE SecurityAccessProofs ------------------------
(***************************************************************************)
(* Theorems about SecurityAccess, for any number of levels, attempts and   *)
(* any lockout.  A level's state depends on no other level, so the         *)
(* inductive invariant is one predicate, LevelInv, of what the code and    *)
(* the history know of a level, and each method has a lemma saying that it *)
(* takes LevelInv to LevelInv.                                             *)
(***************************************************************************)
EXTENDS SecurityAccess, TLAPS

StateType == [seed_requested : BOOLEAN,
              unlocked       : BOOLEAN,
              attempt_count  : 0 .. MAX_ATTEMPTS,
              lock_left      : 0 .. LOCKOUT]

WatchType == [age : 0 .. LOCKOUT, count : Nat]

JudgedType == {"none", "pending", "accepted", "spent"}

(* An outstanding seed belongs to a locked level and to no lockout.        *)
SeedInv(s, j) == /\ s.seed_requested => ~s.unlocked /\ ~LockedOut(s)
                 /\ LockedOut(s) => ~s.unlocked
                 /\ s.seed_requested => j = "pending"
                 /\ s.unlocked => j = "accepted"

(* What a stopwatch has counted is on the attempt counter too, until that  *)
(* reaches the limit; from then on the lockout outlasts the stopwatch.     *)
WatchInv(s, w) == /\ ~Running(w) => w.count = 0
                  /\ s.attempt_count < MAX_ATTEMPTS => w.count <= s.attempt_count
                  /\ s.attempt_count >= MAX_ATTEMPTS /\ w.count > 0 =>
                        /\ w.count <= MAX_ATTEMPTS
                        /\ s.lock_left + w.age >= LOCKOUT

LevelInv(s, j, w) == /\ s \in StateType
                     /\ j \in JudgedType
                     /\ w \in WatchType
                     /\ SeedInv(s, j)
                     /\ WatchInv(s, w)

SecurityInv ==
    /\ states \in [Levels -> StateType]
    /\ judged \in [Levels -> JudgedType]
    /\ watch \in [Levels -> WatchType]
    /\ sec_up \in BOOLEAN
    /\ \A l \in Levels : LevelInv(states[l], judged[l], watch[l])

-----------------------------------------------------------------------------
(* The seed level of a level is a level.                                   *)
LEMMA SeedLevelIsLevel ==
    ASSUME NEW level \in Levels
    PROVE  SeedLevel(level) \in Levels
  BY SecurityAssumption DEF Levels, SeedLevel

(* A new level satisfies the invariant.                                    *)
LEMMA FreshLevel == LevelInv(NewState, "none", Stopped)
  BY SecurityAssumption
  DEF LevelInv, NewState, Stopped, StateType, JudgedType, WatchType, SeedInv,
      WatchInv, LockedOut, Running

(* A seed opens the level for one key.                                     *)
LEMMA ChallengedKeepsInv ==
    ASSUME NEW s, NEW j, NEW w, LevelInv(s, j, w), ~LockedOut(s)
    PROVE  LevelInv(Challenged(s), "pending", w)
<1>1. /\ Challenged(s) \in StateType
      /\ Challenged(s).seed_requested = TRUE
      /\ Challenged(s).unlocked = FALSE
      /\ Challenged(s).attempt_count = s.attempt_count
      /\ Challenged(s).lock_left = s.lock_left
  BY DEF LevelInv, StateType, Challenged
<1>2. SeedInv(Challenged(s), "pending") /\ WatchInv(Challenged(s), w)
  BY <1>1 DEF LevelInv, SeedInv, WatchInv, LockedOut
<1>3. QED  BY <1>1, <1>2 DEF LevelInv, JudgedType

(* Locking only takes away.                                                *)
LEMMA LockedKeepsInv ==
    ASSUME NEW s, NEW j, NEW w, LevelInv(s, j, w)
    PROVE  LevelInv(Locked(s), j, w)
<1>1. /\ Locked(s) \in StateType
      /\ Locked(s).seed_requested = FALSE
      /\ Locked(s).unlocked = FALSE
      /\ Locked(s).attempt_count = s.attempt_count
      /\ Locked(s).lock_left = s.lock_left
  BY DEF LevelInv, StateType, Locked
<1>2. SeedInv(Locked(s), j) /\ WatchInv(Locked(s), w)
  BY <1>1 DEF LevelInv, SeedInv, WatchInv, LockedOut
<1>3. QED  BY <1>1, <1>2 DEF LevelInv

(* An accepted key ends the count of failures.                             *)
LEMMA AcceptedKeepsInv ==
    ASSUME NEW s, NEW j, NEW w, LevelInv(s, j, w)
    PROVE  LevelInv(Accepted(s), "accepted", Stopped)
<1>1. /\ Accepted(s) \in StateType
      /\ Accepted(s).seed_requested = FALSE
      /\ Accepted(s).attempt_count = 0
  <2>1. 0 \in 0 .. MAX_ATTEMPTS
    BY SecurityAssumption
  <2>2. Accepted(s) = [seed_requested |-> FALSE,
                       unlocked       |-> TRUE,
                       attempt_count  |-> 0,
                       lock_left      |-> s.lock_left]
    <3>1. s \in StateType
      BY DEF LevelInv
    <3>2. Accepted(s) = [s EXCEPT !.unlocked = TRUE, !.seed_requested = FALSE,
                                  !.attempt_count = 0]
      BY Zenon DEF Accepted
    <3>3. QED  BY <3>1, <3>2 DEF StateType
  <2>3. s.lock_left \in 0 .. LOCKOUT
    BY DEF LevelInv, StateType
  <2>4. QED  BY <2>1, <2>2, <2>3 DEF StateType
<1>2. /\ Stopped \in WatchType
      /\ Stopped.count = 0
  BY SecurityAssumption DEF Stopped, WatchType
<1>3. SeedInv(Accepted(s), "accepted") /\ WatchInv(Accepted(s), Stopped)
  BY <1>1, <1>2, SecurityAssumption DEF SeedInv, WatchInv, LockedOut
<1>4. QED  BY <1>1, <1>2, <1>3 DEF LevelInv, JudgedType

(* The counting argument behind GuessRate: SEC is asked only outside a     *)
(* lockout, so a level at the limit has no running stopwatch with a count. *)
LEMMA RefusedKeepsInv ==
    ASSUME NEW s, NEW j, NEW w, LevelInv(s, j, w),
           ~LockedOut(s), s.seed_requested,
           NEW v \in {"rejected", "no_answer"}, NEW begin \in BOOLEAN
    PROVE  LevelInv(Refused(s), "spent", Watched(w, v, begin))
<1> DEFINE w2 == Watched(w, v, begin)
<1>1. /\ s \in StateType
      /\ w \in WatchType
      /\ SeedInv(s, j)
      /\ WatchInv(s, w)
  BY DEF LevelInv
<1>2. /\ Refused(s) \in StateType
      /\ Refused(s).seed_requested = FALSE
      /\ Refused(s).unlocked = s.unlocked
      /\ Refused(s).attempt_count = Counted(s.attempt_count)
      /\ Refused(s).lock_left = IF s.attempt_count + 1 >= MAX_ATTEMPTS
                                THEN LOCKOUT ELSE s.lock_left
  <2> DEFINE left == IF s.attempt_count + 1 >= MAX_ATTEMPTS
                     THEN LOCKOUT ELSE s.lock_left
  <2>1. left \in 0 .. LOCKOUT /\ Counted(s.attempt_count) \in 0 .. MAX_ATTEMPTS
    BY <1>1, SecurityAssumption DEF StateType, Counted
  <2>2. s.unlocked \in BOOLEAN
    BY <1>1 DEF StateType
  <2>3. Refused(s) = [s EXCEPT !.attempt_count = Counted(s.attempt_count),
                               !.seed_requested = FALSE,
                               !.lock_left = left]
    BY Zenon DEF Refused
  <2> HIDE DEF left
  <2>4. Refused(s) = [seed_requested |-> FALSE,
                      unlocked       |-> s.unlocked,
                      attempt_count  |-> Counted(s.attempt_count),
                      lock_left      |-> left]
    BY <1>1, <2>3 DEF StateType
  <2>5. Refused(s) \in StateType
    BY <2>1, <2>2, <2>4 DEF StateType
  <2>6. QED  BY <2>4, <2>5 DEF left
<1>3. s.unlocked = FALSE
  BY <1>1 DEF SeedInv, StateType
<1>4. /\ w2 \in WatchType
      /\ ~Running(w2) => w2.count = 0
      /\ w2.count <= w.count + 1
      /\ w.count = 0 => w2.count <= 1
  <2>1. CASE begin
    <3>1. w2 = [age |-> 0, count |-> 1]
      BY <2>1 DEF Watched
    <3>2. QED  BY <3>1, <1>1, SecurityAssumption DEF WatchType, Running
  <2>2. CASE ~begin /\ Running(w)
    <3>1. w2 = [w EXCEPT !.count = w.count + 1]
      BY <2>2 DEF Watched
    <3>2. w.count + 1 \in Nat /\ w.count \in Nat /\ w.age \in 0 .. LOCKOUT
      BY <1>1 DEF WatchType
    <3>3. w2.age = w.age /\ w2.count = w.count + 1 /\ w2 \in WatchType
      BY <3>1, <3>2, <1>1 DEF WatchType
    <3>4. QED  BY <3>2, <3>3, <2>2 DEF Running
  <2>3. CASE ~begin /\ ~Running(w)
    <3>1. w2 = w
      BY <2>3 DEF Watched
    <3>2. QED  BY <3>1, <1>1 DEF WatchType, WatchInv
  <2>4. QED  BY <2>1, <2>2, <2>3
<1>5. s.attempt_count >= MAX_ATTEMPTS => w.count = 0
  <2>1. s.attempt_count >= MAX_ATTEMPTS => s.lock_left = 0
    BY <1>1 DEF LockedOut, StateType
  <2>2. w.age \in 0 .. LOCKOUT /\ w.count \in Nat
    BY <1>1 DEF WatchType
  <2>3. ASSUME s.attempt_count >= MAX_ATTEMPTS, w.count > 0
        PROVE  FALSE
    <3>1. w.age >= LOCKOUT
      BY <1>1, <2>1, <2>2, <2>3, SecurityAssumption DEF WatchInv
    <3>2. QED  BY <1>1, <2>2, <2>3, <3>1, SecurityAssumption DEF WatchInv, Running
  <2>4. QED  BY <2>2, <2>3
<1>6. WatchInv(Refused(s), w2)
  <2>1. /\ s.attempt_count \in 0 .. MAX_ATTEMPTS
        /\ w.count \in Nat
        /\ w2.count \in Nat
        /\ w2.age \in 0 .. LOCKOUT
        /\ s.attempt_count < MAX_ATTEMPTS => w.count <= s.attempt_count
    BY <1>1, <1>4 DEF StateType, WatchType, WatchInv
  <2>2. w2.count <= MAX_ATTEMPTS
    BY <2>1, <1>4, <1>5, SecurityAssumption
  <2>3. QED
    BY <2>1, <2>2, <1>2, <1>4, SecurityAssumption DEF WatchInv, Counted
<1>7. SeedInv(Refused(s), "spent")
  BY <1>2, <1>3 DEF SeedInv
<1>8. QED  BY <1>2, <1>4, <1>6, <1>7 DEF LevelInv, JudgedType

Aging(s) == [s EXCEPT !.lock_left = IF s.lock_left > 0 THEN s.lock_left - 1 ELSE 0]

WatchAging(w) == IF w.age + 1 < LOCKOUT THEN [w EXCEPT !.age = w.age + 1]
                 ELSE Stopped

(* Lockout and stopwatch run at the same pace.                             *)
LEMMA AgingKeepsInv ==
    ASSUME NEW s, NEW j, NEW w, LevelInv(s, j, w)
    PROVE  LevelInv(Aging(s), j, WatchAging(w))
<1> DEFINE left == IF s.lock_left > 0 THEN s.lock_left - 1 ELSE 0
           a    == Aging(s)
           w2   == WatchAging(w)
<1>1. s \in StateType /\ w \in WatchType /\ SeedInv(s, j) /\ WatchInv(s, w)
  BY DEF LevelInv
<1>2. /\ s.lock_left \in 0 .. LOCKOUT
      /\ s.attempt_count \in 0 .. MAX_ATTEMPTS
      /\ w.age \in 0 .. LOCKOUT
      /\ w.count \in Nat
  BY <1>1 DEF StateType, WatchType
<1>3. left \in 0 .. LOCKOUT /\ left <= s.lock_left /\ left >= s.lock_left - 1
  BY <1>2, SecurityAssumption
<1>4. /\ a \in StateType
      /\ a.seed_requested = s.seed_requested
      /\ a.unlocked = s.unlocked
      /\ a.attempt_count = s.attempt_count
      /\ a.lock_left = left
  <2>1. a = [s EXCEPT !.lock_left = left]
    BY Zenon DEF Aging
  <2> HIDE DEF a, left
  <2>2. QED  BY <1>1, <1>3, <2>1 DEF StateType
<1> HIDE DEF a, left
<1>5. SeedInv(a, j)
  BY <1>1, <1>2, <1>3, <1>4 DEF SeedInv, LockedOut
<1>6. WatchInv(a, w2) /\ w2 \in WatchType
  <2>1. CASE w.age + 1 < LOCKOUT
    <3>1. w2 = [w EXCEPT !.age = w.age + 1]
      BY <2>1 DEF WatchAging
    <3>2. w2 \in WatchType /\ w2.age = w.age + 1 /\ w2.count = w.count
      BY <1>1, <1>2, <2>1, <3>1, SecurityAssumption DEF WatchType
    <3>3. Running(w2) /\ Running(w)
      BY <1>2, <2>1, <3>2, SecurityAssumption DEF Running
    <3>4. s.attempt_count >= MAX_ATTEMPTS /\ w.count > 0 =>
              a.lock_left + w2.age >= LOCKOUT
      BY <1>1, <1>2, <1>3, <1>4, <3>2, SecurityAssumption DEF WatchInv
    <3>5. QED
      BY <1>1, <1>4, <3>2, <3>3, <3>4 DEF WatchInv
  <2>2. CASE ~(w.age + 1 < LOCKOUT)
    <3>1. w2 = Stopped
      BY <2>2 DEF WatchAging
    <3>2. QED
      BY <1>2, <1>4, <3>1, SecurityAssumption DEF WatchInv, WatchType, Stopped
  <2>3. QED  BY <2>1, <2>2
<1>7. QED  BY <1>4, <1>5, <1>6 DEF LevelInv, a

-----------------------------------------------------------------------------
(* From the invariant of a level to the invariant of the class: a step that *)
(* changes one level only.                                                 *)
LEMMA OneLevelStep ==
    ASSUME SecurityInv, NEW l \in Levels, NEW s, NEW j, NEW w,
           LevelInv(s, j, w),
           states' = [states EXCEPT ![l] = s],
           judged' = [judged EXCEPT ![l] = j],
           watch' = [watch EXCEPT ![l] = w],
           UNCHANGED sec_up
    PROVE  SecurityInv'
<1>1. s \in StateType /\ j \in JudgedType /\ w \in WatchType
  BY DEF LevelInv
<1>2. /\ states' \in [Levels -> StateType]
      /\ judged' \in [Levels -> JudgedType]
      /\ watch' \in [Levels -> WatchType]
      /\ sec_up' \in BOOLEAN
  BY <1>1 DEF SecurityInv
<1>3. ASSUME NEW k \in Levels
      PROVE  LevelInv(states'[k], judged'[k], watch'[k])
  <2>1. CASE k = l
    BY <2>1 DEF SecurityInv
  <2>2. CASE k # l
    <3>1. states'[k] = states[k] /\ judged'[k] = judged[k] /\ watch'[k] = watch[k]
      BY <2>2 DEF SecurityInv
    <3>2. QED  BY <3>1 DEF SecurityInv
  <2>3. QED  BY <2>1, <2>2
<1>4. QED  BY <1>2, <1>3 DEF SecurityInv

(* request_seed changes the seed's level only, and keeps it.               *)
LEMMA SeedKeepsInv ==
    ASSUME SecurityInv, NEW level \in Levels, NEW got \in BOOLEAN,
           request_seed(level, got)
    PROVE  SecurityInv'
<1>1. LevelInv(states[level], judged[level], watch[level])
  BY DEF SecurityInv
<1>2. CASE SeedCode(states, sec_up, level, got) = "SUCCESS"
  <2>1. ~LockedOut(states[level])
    BY <1>2 DEF SeedCode
  <2>2. LevelInv(Challenged(states[level]), "pending", watch[level])
    BY <1>1, <2>1, ChallengedKeepsInv
  <2>3. /\ states' = [states EXCEPT ![level] = Challenged(states[level])]
        /\ judged' = [judged EXCEPT ![level] = "pending"]
        /\ watch' = [watch EXCEPT ![level] = watch[level]]
        /\ UNCHANGED sec_up
    BY <1>2 DEF request_seed, Seeded, SecurityInv
  <2>4. QED  BY <2>2, <2>3, OneLevelStep
<1>3. CASE SeedCode(states, sec_up, level, got) # "SUCCESS"
  BY <1>3 DEF request_seed, Seeded, SecurityInv
<1>4. QED  BY <1>2, <1>3

(* send_key keeps the invariant, whatever SEC's verdict is.                *)
LEMMA KeyKeepsInv ==
    ASSUME SecurityInv, NEW level \in Levels, NEW verdict \in Verdicts,
           send_key(level, verdict)
    PROVE  SecurityInv'
<1> DEFINE l == SeedLevel(level)
<1>1. l \in Levels
  BY SeedLevelIsLevel
<1>2. LevelInv(states[l], judged[l], watch[l])
  BY <1>1 DEF SecurityInv
<1>3. CASE KeyIsTried(states, sec_up, level)
  <2>1. ~LockedOut(states[l]) /\ states[l].seed_requested
    BY <1>3 DEF KeyIsTried
  <2>2. judged[l] = "pending"
    BY <1>2, <2>1 DEF LevelInv, SeedInv
  <2>3. UNCHANGED sec_up
    BY DEF send_key
  <2>4. PICK begin \in BOOLEAN :
            watch' = [watch EXCEPT ![l] = Watched(watch[l], verdict, begin)]
    BY <1>3 DEF send_key
  <2>5. CASE verdict = "accepted"
    <3>1. /\ states' = [states EXCEPT ![l] = Accepted(states[l])]
          /\ judged' = [judged EXCEPT ![l] = "accepted"]
          /\ watch' = [watch EXCEPT ![l] = Stopped]
      BY <1>3, <2>2, <2>4, <2>5 DEF send_key, Keyed, Watched
    <3>2. LevelInv(Accepted(states[l]), "accepted", Stopped)
      BY <1>2, AcceptedKeepsInv
    <3>3. QED  BY <1>1, <2>3, <3>1, <3>2, OneLevelStep
  <2>6. CASE verdict # "accepted"
    <3>1. /\ states' = [states EXCEPT ![l] = Refused(states[l])]
          /\ judged' = [judged EXCEPT ![l] = "spent"]
          /\ verdict \in {"rejected", "no_answer"}
      BY <1>3, <2>6 DEF send_key, Keyed, Verdicts
    <3>2. LevelInv(Refused(states[l]), "spent", Watched(watch[l], verdict, begin))
      BY <1>2, <2>1, <3>1, RefusedKeepsInv
    <3>3. QED  BY <1>1, <2>3, <2>4, <3>1, <3>2, OneLevelStep
  <2>7. QED  BY <2>5, <2>6
<1>4. CASE ~KeyIsTried(states, sec_up, level)
  BY <1>4 DEF send_key, Keyed, SecurityInv
<1>5. QED  BY <1>3, <1>4

(* And so does time.                                                       *)
LEMMA TickKeepsInv ==
    ASSUME SecurityInv, Tick
    PROVE  SecurityInv'
<1>1. ASSUME NEW k \in Levels
      PROVE  /\ states'[k] = Aging(states[k])
             /\ judged'[k] = judged[k]
             /\ watch'[k] = WatchAging(watch[k])
             /\ LevelInv(states'[k], judged'[k], watch'[k])
  <2>1. states'[k] = Aging(states[k])
    BY Zenon DEF Tick, Elapsed, Aging
  <2>2. watch'[k] = WatchAging(watch[k]) /\ judged'[k] = judged[k]
    BY Zenon DEF Tick, WatchAging
  <2>3. QED  BY <2>1, <2>2, AgingKeepsInv DEF SecurityInv
<1>2. /\ states' = [k \in Levels |-> states'[k]]
      /\ watch' = [k \in Levels |-> watch'[k]]
      /\ UNCHANGED <<judged, sec_up>>
  BY DEF Tick, Elapsed
<1>3. states' \in [Levels -> StateType] /\ watch' \in [Levels -> WatchType]
  BY <1>1, <1>2 DEF LevelInv
<1>4. QED  BY <1>1, <1>2, <1>3 DEF SecurityInv

(* SecurityInv is inductive.                                               *)
THEOREM SecurityInvariant == Spec => []SecurityInv
<1>1. Init => SecurityInv
  BY FreshLevel, SecurityAssumption
  DEF Init, NewStates, SecurityInv, LevelInv, JudgedType
<1>2. SecurityInv /\ [Next]_vars => SecurityInv'
  <2> SUFFICES ASSUME SecurityInv, [Next]_vars PROVE SecurityInv'
    OBVIOUS
  <2>1. ASSUME NEW level \in Levels, NEW got \in BOOLEAN,
               request_seed(level, got)
        PROVE  SecurityInv'
    BY <2>1, SeedKeepsInv
  <2>2. ASSUME NEW level \in Levels, NEW verdict \in Verdicts,
               send_key(level, verdict)
        PROVE  SecurityInv'
    BY <2>2, KeyKeepsInv
  <2>3. ASSUME NEW level \in Levels, lock(level)
        PROVE  SecurityInv'
    <3>1. LevelInv(Locked(states[level]), judged[level], watch[level])
      BY LockedKeepsInv DEF SecurityInv
    <3>2. /\ judged' = [judged EXCEPT ![level] = judged[level]]
          /\ watch' = [watch EXCEPT ![level] = watch[level]]
          /\ states' = [states EXCEPT ![level] = Locked(states[level])]
          /\ UNCHANGED sec_up
      BY <2>3 DEF lock, SecurityInv
    <3>3. QED  BY <3>1, <3>2, OneLevelStep
  <2>4. CASE reset
    BY <2>4, FreshLevel
    DEF reset, NewStates, SecurityInv, LevelInv, JudgedType
  <2>5. CASE SecComesAndGoes
    BY <2>5 DEF SecComesAndGoes, SecurityInv
  <2>6. CASE Tick
    BY <2>6, TickKeepsInv
  <2>7. CASE UNCHANGED vars
    BY <2>7 DEF vars, SecurityInv
  <2>8. QED
    BY <2>1, <2>2, <2>3, <2>4, <2>5, <2>6, <2>7 DEF Next
<1>3. QED  BY <1>1, <1>2, PTL DEF Spec

(* Every counter, timer and history variable stays in its type.            *)
THEOREM SecurityTypeOK == Spec => []TypeOK
<1>1. SecurityInv => TypeOK
  BY DEF SecurityInv, TypeOK, StateType, JudgedType, WatchType
<1>2. QED  BY <1>1, SecurityInvariant, PTL

(* A level under lockout is not unlocked and waits for no key.             *)
THEOREM SecurityLockout == Spec => []LockoutMeansLocked
<1>1. SecurityInv => LockoutMeansLocked
  BY DEF SecurityInv, LevelInv, SeedInv, LockoutMeansLocked
<1>2. QED  BY <1>1, SecurityInvariant, PTL

(* A seed is good for one key, and only an accepted key unlocks.           *)
THEOREM SecuritySeedSpentOnce == Spec => []SeedSpentOnce
<1>1. SecurityInv => SeedSpentOnce
  BY DEF SecurityInv, LevelInv, SeedInv, SeedSpentOnce
<1>2. QED  BY <1>1, SecurityInvariant, PTL

(* At most MAX_ATTEMPTS failures in a row in any period of LOCKOUT.        *)
THEOREM SecurityGuessRate == Spec => []GuessRate
<1>1. SecurityInv => GuessRate
  <2> SUFFICES ASSUME SecurityInv, NEW l \in Levels
               PROVE  watch[l].count <= MAX_ATTEMPTS
    BY DEF GuessRate
  <2>1. /\ WatchInv(states[l], watch[l])
        /\ states[l].attempt_count \in 0 .. MAX_ATTEMPTS
        /\ watch[l].count \in Nat
    BY DEF SecurityInv, LevelInv, StateType, WatchType
  <2>2. QED  BY <2>1, SecurityAssumption DEF WatchInv
<1>2. QED  BY <1>1, SecurityInvariant, PTL

=============================================================================
