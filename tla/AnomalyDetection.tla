-------------------------- MODULE AnomalyDetection --------------------------
(***************************************************************************)
(* AnomalyDetectionService: the risk score of a login, from the user's last *)
(* logins, a counter of attempts and the reputation of the IP address       *)
(* (IpReputation: any of its values may be read).  A provider that no use   *)
(* case calls yet.                                                          *)
(*                                                                         *)
(* One user.  Analyses run concurrently, one Redis command per step.  The   *)
(* clock counts hours; a login names a place, and two different places are  *)
(* FarKm apart.  Redis answers: what becomes of a counter whose EXPIRE      *)
(* fails is the subject of RequestLimits.                                   *)
(***************************************************************************)
EXTENDS Integers, FiniteSets, Sequences, SequencesExt

CONSTANTS AnReqs, Places,
          Devices,           \* pairs of a user agent and a fingerprint
          HistorySize,       \* LOGIN_HISTORY_SIZE
          MaxPerWindow,      \* MAX_ATTEMPTS_PER_WINDOW
          FarKm,
          HabitSize,         \* logins that make a habit
          HabitHours,        \* hours off the habit that are unusual
          MaxHour, MaxCount  \* bounds: the clock (within a day), the counter

ASSUME AnomalyAssumption ==
  /\ HistorySize \in Nat \ {0} /\ MaxPerWindow \in Nat
  /\ FarKm \in Nat /\ HabitSize \in Nat \ {0} /\ HabitHours \in Nat /\ MaxHour \in Nat /\ MaxCount \in Nat

VARIABLES
  logins,      \* user:<id>:login_history, newest first
  velocity,    \* velocity:<id>, with its window running or not
  hour,
  anPc, anReq

anomalyVars == <<logins, velocity, hour, anPc, anReq>>

Unknown == "unknown"     \* no location, no fingerprint
LoginAttempts == [device : Devices, place : Places \cup {Unknown}, hour : 0 .. MaxHour]
NoAttempts == [n |-> 0, ttl |-> FALSE]
AnIdle == [device |-> <<Unknown, Unknown>>, place |-> Unknown, hour |-> 0,
           past |-> <<>>, n |-> 0, bad |-> 0]

AnomalyInit ==
  /\ logins = <<>> /\ velocity = NoAttempts
  /\ hour = 0
  /\ anPc = [r \in AnReqs |-> "idle"] /\ anReq = [r \in AnReqs |-> AnIdle]
-----------------------------------------------------------------------------
(* The signals *)

AttemptOf(q) == [device |-> q.device, place |-> q.place, hour |-> q.hour]

IsNewDevice(q) == q.past # <<>> /\ \A k \in DOMAIN q.past : q.past[k].device[1] # q.device[1]

IsNewFingerprint(q) ==
  /\ q.device[2] # Unknown /\ q.past # <<>>
  /\ \A k \in DOMAIN q.past : q.past[k].device[2] # q.device[2]

\* A login without a location in the history is a location of its own: undefined.
IsNewLocation(q) ==
  /\ q.place # Unknown /\ q.past # <<>>
  /\ \A k \in DOMAIN q.past : q.past[k].place # q.place

\* Speed 800 km/h; a login that was read late may be "before" the last one, and
\* then no distance is possible.
IsImpossibleTravel(q) ==
  /\ q.place # Unknown /\ q.past # <<>>
  /\ LET last == Head(q.past)
         km == IF last.place = q.place THEN 0 ELSE FarKm
     IN last.place # Unknown /\ km > 500 /\ km > 800 * (q.hour - last.hour)

\* More than HabitHours from the average hour, either way around the clock.
IsUnusualTime(q) ==
  LET n == Len(q.past)
      sum == FoldLeft(LAMBDA t, h : t + h.hour, 0, q.past)
      off == q.hour * n - sum
      dist == IF off < 0 THEN -off ELSE off
  IN n >= HabitSize /\ dist > HabitHours * n /\ dist < (24 - HabitHours) * n

\* The weights of analyzeLoginAttempt.
Score(q) ==
  (IF q.n > MaxPerWindow THEN 40 ELSE 0) + (IF IsNewDevice(q) THEN 20 ELSE 0)
  + (IF IsNewLocation(q) THEN 15 ELSE 0) + (IF IsImpossibleTravel(q) THEN 50 ELSE 0)
  + (IF IsUnusualTime(q) THEN 10 ELSE 0) + q.bad + (IF IsNewFingerprint(q) THEN 15 ELSE 0)
\* Mutant: the threshold itself blocks.
ShouldBlockFrom(q) == Score(q) >= 60
ShouldBlock(q) == Score(q) > 60
\* Mutant: the lower threshold is left out.
ShouldRequireMFAUpTo(q) == Score(q) <= 60
ShouldRequireMFA(q) == Score(q) > 30 /\ Score(q) <= 60
-----------------------------------------------------------------------------
AnGoto(r, step) == anPc' = [anPc EXCEPT ![r] = step]
AnEnds(r) == AnGoto(r, "idle") /\ anReq' = [anReq EXCEPT ![r] = AnIdle]
Incr(c) == [c EXCEPT !.n = IF @ < MaxCount THEN @ + 1 ELSE @]

\* getLoginHistory: the newest HistorySize entries.
GetLoginHistory == SubSeq(logins, 1, IF Len(logins) < HistorySize THEN Len(logins) ELSE HistorySize)

AnalyzeLoginAttempt(r) ==
  /\ anPc[r] = "idle"
  /\ \E d \in Devices, p \in Places \cup {Unknown} :
       anReq' = [anReq EXCEPT ![r] = [AnIdle EXCEPT !.device = d, !.place = p,
                   !.hour = hour, !.past = GetLoginHistory]]
  /\ AnGoto(r, "velocity")
  /\ UNCHANGED <<logins, velocity, hour>>

\* checkVelocity: INCR, and EXPIRE for the first of a window.
CheckVelocity(r) ==
  /\ anPc[r] = "velocity"
  /\ velocity' = Incr(velocity)
  /\ anReq' = [anReq EXCEPT ![r].n = velocity'.n]
  /\ AnGoto(r, IF velocity'.n = 1 THEN "window" ELSE "address")
  /\ UNCHANGED <<logins, hour>>
StartWindow(r) ==
  /\ anPc[r] = "window"
  /\ velocity' = [velocity EXCEPT !.ttl = velocity.n > 0]
  /\ AnGoto(r, "address")
  /\ UNCHANGED <<logins, hour, anReq>>

CheckIPReputation(r) ==
  /\ anPc[r] = "address"
  /\ \E bad \in {0, 30, 60} : anReq' = [anReq EXCEPT ![r].bad = bad]
  /\ AnGoto(r, "push")
  /\ UNCHANGED <<logins, velocity, hour>>

\* storeLoginAttempt: LPUSH, then LTRIM (its EXPIRE only renews 30 days).
PushLogin(r) ==
  /\ anPc[r] = "push"
  /\ logins' = <<AttemptOf(anReq[r])>> \o logins
  /\ AnGoto(r, "trim")
  /\ UNCHANGED <<velocity, hour, anReq>>

TrimLogins(r) ==
  /\ anPc[r] = "trim"
  /\ logins' = GetLoginHistory
  /\ AnEnds(r)
  /\ UNCHANGED <<velocity, hour>>
-----------------------------------------------------------------------------
HourPasses ==
  /\ hour < MaxHour /\ hour' = hour + 1
  /\ UNCHANGED <<logins, velocity, anPc, anReq>>
VelocityEnds ==
  /\ velocity.ttl /\ velocity' = NoAttempts
  /\ UNCHANGED <<logins, hour, anPc, anReq>>

AnomalyNext ==
  \/ \E r \in AnReqs : \/ AnalyzeLoginAttempt(r) \/ CheckVelocity(r) \/ StartWindow(r)
                       \/ CheckIPReputation(r) \/ PushLogin(r) \/ TrimLogins(r)
  \/ HourPasses \/ VelocityEnds

AnomalySpec == AnomalyInit /\ [][AnomalyNext]_anomalyVars
-----------------------------------------------------------------------------
(* Properties *)

AnomalyTypeOK ==
  /\ \A k \in DOMAIN logins : logins[k] \in LoginAttempts
  /\ velocity.n \in 0 .. MaxCount

\* A login like one of the user's last ones, below the limit of attempts and from a
\* clean address, is never asked for more, unless it comes from too far to be true.
UsualLoginsPass ==
  \A r \in AnReqs : LET q == anReq[r] IN
    /\ anPc[r] = "trim"
    /\ \E k \in DOMAIN q.past : q.past[k].device = q.device /\ q.past[k].place = q.place
    /\ q.n <= MaxPerWindow /\ q.bad = 0 /\ ~IsImpossibleTravel(q)
    => ~ShouldBlock(q) /\ ~ShouldRequireMFA(q)

Signals(q) ==
  Cardinality({k \in 1 .. 7 :
    <<q.n > MaxPerWindow, IsNewDevice(q), IsNewLocation(q), IsImpossibleTravel(q),
      IsUnusualTime(q), q.bad > 0, IsNewFingerprint(q)>>[k]})
\* No single signal blocks a login: that takes two.
OneSignalNeverBlocks ==
  \A r \in AnReqs : anPc[r] = "trim" /\ ShouldBlock(anReq[r]) => Signals(anReq[r]) >= 2

\* The weights fit the thresholds from both sides.
ScoresAreProportionate == UsualLoginsPass /\ OneSignalNeverBlocks
=============================================================================
