--------------------------- MODULE CoolingFanProofs ---------------------------
(***************************************************************************)
(* The reversal of the cooling fan, for every clock width, every setting   *)
(* of its times and every bound on the turns: the stages run in order and  *)
(* the direction is switched at standstill.                                *)
(***************************************************************************)
EXTENDS CoolingFan, TLAPS

\* A speed command is always one of the cooling demands, so that the slope
\* computed from it covers it exactly.
ExactCommand == \E k \in 0 .. MaxDemand : cf.cmd = Speed(k)

\* What is left of the speed can be covered in what is left of the time.
SlowingDown ==
  out = 0 \/ out + cf.slope * Elapsed(now, cf.downStart) <= cf.slope * RampTime

\* A fan that was at its commanded speed is slowing down in time, stands when
\* the stopped stage begins, and a ramp down is always begun from a run.
RampBacked == atSpeed =>
  /\ cf.stage = "rampDown" => cf.prev \in {"runFwd", "runRev", "rampDown"}
  /\ cf.stage = "rampDown" /\ cf.prev = "rampDown" => cf.cmd = 0 /\ SlowingDown
  /\ cf.stage = "stopped" /\ cf.prev = "rampDown" => cf.cmd = 0 /\ out = 0
  /\ cf.stage = "runFwd" /\ ~cf.cleanout => cf.prev = "runFwd"

\* The time stamp of the forward run never claims a longer run than there was.
SinceTruthful == Saturate(Elapsed(now, cf.fwdStart), AutoCycle) <= since

\* What is left of a cleanout: the stage the fan is in has its limit, less
\* what has passed since it took its time stamp, and a turn to be left in; one
\* that is not entered yet has all of its limit and two turns.  The stages
\* after it follow from the direction the fan will run in next.
Limit(stage) == IF stage = "stopped" THEN StopTime
                ELSE IF stage = "runRev" THEN PurgeTime ELSE RampTime
Whole(stage) == Limit(stage) + 2 * MaxCycle
Return == Whole("rampDown") + Whole("stopped") + Whole("rampUp")

Entered(f) == IF f.stage = "rampDown" THEN f.prev \notin {"runFwd", "runRev"}
                                      ELSE f.prev = f.stage
StampOf(f) == IF f.stage = "rampDown" THEN f.downStart ELSE f.stageStart
StageLeft(f, t) == IF Entered(f) THEN Limit(f.stage) - Elapsed(t, StampOf(f)) + MaxCycle
                                 ELSE Whole(f.stage)

SwitchAhead(f) ==
  \/ f.stage = "rampDown"
  \/ f.stage = "stopped" /\ f.prev = "rampDown"
WillReverse(f) == IF SwitchAhead(f) THEN ~f.reverse ELSE f.reverse
Reversal(f) == IF WillReverse(f) THEN Whole("runRev") + Return ELSE 0
Ahead(f) == CASE f.stage = "rampDown" -> Whole("stopped") + Whole("rampUp") + Reversal(f)
              [] f.stage = "stopped"  -> Whole("rampUp") + Reversal(f)
              [] f.stage = "rampUp"   -> Reversal(f)
              [] OTHER                -> Return

TimeLeft(f, t) == IF f.stage = "runFwd" THEN 0 ELSE StageLeft(f, t) + Ahead(f)

\* A stage that has been entered is still within its limit, and a cleanout
\* within its time.
StageInTime(f, t) ==
  f.stage # "runFwd" /\ Entered(f) => Elapsed(t, StampOf(f)) <= Limit(f.stage)
CleanoutBacked == cf.cleanout =>
  /\ StageInTime(cf, now)
  /\ cleaning + TimeLeft(cf, now) <= CleanoutTime

IInv == TypeOK /\ StagesEntered /\ ExactCommand /\ RampBacked /\ SinceTruthful
        /\ CleanoutBacked

USE TimeModAssumption, CoolingFanAssumption

\* The wrapping clock ages a time stamp by at most the time that passed.
LEMMA ClockLemma ==
  ASSUME NEW t \in Time, NEW s \in Time, NEW d \in 0 .. MaxCycle
  PROVE  /\ Later(t, d) \in Time
         /\ Elapsed(t, s) \in Nat
         /\ Elapsed(t, t) = 0
         /\ Elapsed(Later(t, d), s) <= Elapsed(t, s) + d
         /\ Elapsed(t, s) + d < TimeMod => Elapsed(Later(t, d), s) = Elapsed(t, s) + d
  BY DEF Later, Elapsed, Time

\* A demand asks for a speed, and the slope that covers it is the demand.
LEMMA SpeedLemma ==
  ASSUME NEW k \in 0 .. MaxDemand
  PROVE  /\ Speed(k) \in Speeds
         /\ Speed(k) \div RampTime = k
<1>1. k * RampTime \in Nat /\ MaxDemand * RampTime \in Nat
  OBVIOUS
<1>2. k * RampTime <= MaxDemand * RampTime
  BY Z3
<1>3. (k * RampTime) \div RampTime = k
  BY Z3
<1> QED
  BY <1>1, <1>2, <1>3 DEF Speed, Speeds

\* A ramp stays between where it is and where it goes.
LEMMA ApproachLemma ==
  ASSUME NEW from \in Speeds, NEW to \in Speeds, NEW step \in Nat
  PROVE  /\ Approach(from, to, step) \in Speeds
         /\ to = 0 => \/ Approach(from, to, step) = 0
                      \/ Approach(from, to, step) = from - step
         /\ to = 0 => Approach(from, to, step) <= from
<1>1. Speed(MaxDemand) \in Nat
  BY DEF Speed
<1> QED
  BY <1>1 DEF Approach, Speeds

\* The fan structure a stage is run with: after the demand calculation and
\* the cleanout requests.
Starts(t, tooHot, demand, purge, moving) ==
  CleanoutDue(calc_coolingDemand(cf, tooHot, demand), t, purge, moving)
Requested(t, tooHot, demand, purge, moving) ==
  LET calculated == calc_coolingDemand(cf, tooHot, demand)
  IN IF Starts(t, tooHot, demand, purge, moving)
     THEN StartCleanout(calculated) ELSE calculated

\* What that structure may be: the old one with a new demand, the safe state,
\* or the beginning of a cleanout.
IsRequested(r, starts, t, tooHot, purge) ==
  /\ r \in CoolingFanState
  /\ r.prev = cf.prev /\ r.slope = cf.slope
  /\ r.fwdStart = cf.fwdStart /\ r.downStart = cf.downStart
  /\ r.stageStart = cf.stageStart
  /\ \E k \in 0 .. MaxDemand : r.cmd = Speed(k)
  /\ ~tooHot => r.cmd = cf.cmd
  /\ \/ ~starts /\ ~tooHot /\ r.stage = cf.stage /\ r.cleanout = cf.cleanout
                           /\ r.reverse = cf.reverse
     \/ ~starts /\ tooHot /\ r.stage = "runFwd" /\ ~r.cleanout /\ ~r.reverse
     \/ /\ starts /\ r.stage = "rampDown" /\ r.cleanout /\ ~r.reverse
        /\ ~tooHot => cf.stage = "runFwd" /\ ~cf.cleanout
        /\ purge \/ Elapsed(t, cf.fwdStart) >= AutoCycle

LEMMA RequestedLemma ==
  ASSUME IInv, NEW t \in Time, NEW tooHot \in BOOLEAN, NEW purge \in BOOLEAN,
         NEW moving \in BOOLEAN, NEW demand \in 0 .. MaxDemand
  PROVE  IsRequested(Requested(t, tooHot, demand, purge, moving),
                     Starts(t, tooHot, demand, purge, moving), t, tooHot, purge)
<1> DEFINE r == Requested(t, tooHot, demand, purge, moving)
<1> USE DEF IsRequested
<1> USE DEF IInv
<1> DEFINE c == calc_coolingDemand(cf, tooHot, demand)
<1>1. /\ c \in CoolingFanState
      /\ c.prev = cf.prev /\ c.slope = cf.slope
      /\ c.fwdStart = cf.fwdStart /\ c.downStart = cf.downStart
      /\ c.stageStart = cf.stageStart
      /\ \E k \in 0 .. MaxDemand : c.cmd = Speed(k)
      /\ ~tooHot => /\ c.cmd = cf.cmd /\ c.stage = cf.stage
                    /\ c.cleanout = cf.cleanout /\ c.reverse = cf.reverse
      /\ tooHot => c.stage = "runFwd" /\ ~c.cleanout /\ ~c.reverse
  <2>1. Speed(SafeDemand) \in Speeds
    BY SpeedLemma
  <2>2. CASE tooHot
    BY <2>1, <2>2 DEF calc_coolingDemand, set_fanSafeState, TypeOK,
                      CoolingFanState, Stages
  <2>3. CASE ~tooHot
    BY <2>3 DEF calc_coolingDemand, TypeOK, CoolingFanState, ExactCommand
  <2> QED
    BY <2>2, <2>3
<1>2. CASE CleanoutDue(c, t, purge, moving)
  <2>1. /\ ~c.cleanout
        /\ purge \/ Elapsed(t, cf.fwdStart) >= AutoCycle
    BY <1>1, <1>2 DEF CleanoutDue
  <2>2. r = [c EXCEPT !.stage = "rampDown", !.cleanout = TRUE]
    BY <1>2 DEF Requested, Starts, StartCleanout
  <2>3. ~tooHot => cf.stage = "runFwd" /\ ~cf.reverse /\ ~cf.cleanout
    BY <1>1, <2>1 DEF StagesEntered
  <2> HIDE DEF c
  <2>4. /\ r.stage = "rampDown" /\ r.cleanout /\ r.reverse = c.reverse
        /\ r.prev = c.prev /\ r.slope = c.slope /\ r.cmd = c.cmd
        /\ r.fwdStart = c.fwdStart /\ r.downStart = c.downStart
        /\ r.stageStart = c.stageStart
    BY <1>1, <2>2 DEF CoolingFanState
  <2>5. r \in CoolingFanState
    BY <1>1, <2>2 DEF CoolingFanState, Stages
  <2> QED
    BY <1>1, <1>2, <2>1, <2>3, <2>4, <2>5 DEF Starts, c
<1>3. CASE ~CleanoutDue(c, t, purge, moving)
  <2>1. r = c
    BY <1>3 DEF Requested, Starts
  <2>2. ~Starts(t, tooHot, demand, purge, moving)
    BY <1>3 DEF Starts
  <2> HIDE DEF c
  <2> QED
    BY <1>1, <2>1, <2>2
<1> QED
  BY <1>2, <1>3

\* Every stage leaves a well-typed structure and a command that is a demand.
LEMMA StageType ==
  ASSUME NEW r \in CoolingFanState, NEW t \in Time,
         \E k \in 0 .. MaxDemand : r.cmd = Speed(k)
  PROVE  /\ RunStage(r, t) \in CoolingFanState
         /\ \E k \in 0 .. MaxDemand : RunStage(r, t).cmd = Speed(k)
<1> USE DEF CoolingFanState, Stages
<1>0. 0 \in Speeds /\ 0 = Speed(0) /\ 0 \in 0 .. MaxDemand
  BY SpeedLemma DEF Speed
<1>1. Speed(r.demand) \in Speeds /\ r.demand \in 0 .. MaxDemand
  BY SpeedLemma
<1>2. r.cmd \div RampTime \in Nat
  BY SpeedLemma
<1>3. CASE r.stage = "runFwd"
  BY <1>1, <1>3 DEF RunStage, RunFwd, EnterRunFwd
<1>4. CASE r.stage = "rampDown"
  BY <1>0, <1>2, <1>4 DEF RunStage, EnterRampDown, LeaveRampDown, BeginsRampDown
<1>5. CASE r.stage = "stopped"
  BY <1>5 DEF RunStage, EnterStopped, LeaveStopped
<1>6. CASE r.stage = "rampUp"
  <2> DEFINE e == EnterRampUp(r, t)
  <2>1. e \in CoolingFanState /\ \E k \in 0 .. MaxDemand : e.cmd = Speed(k)
    <3>1. CASE r.prev = "stopped"
      <4>1. e = [r EXCEPT !.stageStart = t, !.cmd = Speed(r.demand),
                          !.slope = r.demand, !.prev = "rampUp"]
        BY <3>1 DEF EnterRampUp
      <4> HIDE DEF e
      <4>2. e \in CoolingFanState
        <5>1. "rampUp" \in Stages /\ Speed(r.demand) \in Speeds /\ r.demand \in Nat
          BY <1>1
        <5>2. e = [stage |-> r.stage, prev |-> "rampUp", cleanout |-> r.cleanout,
                   reverse |-> r.reverse, cmd |-> Speed(r.demand),
                   demand |-> r.demand, slope |-> r.demand, fwdStart |-> r.fwdStart,
                   downStart |-> r.downStart, stageStart |-> t]
          BY <4>1
        <5> QED
          BY <5>1, <5>2
      <4>3. e.cmd = Speed(r.demand)
        BY <4>1
      <4> QED
        BY <1>1, <4>2, <4>3
    <3>2. CASE r.prev # "stopped"
      BY <3>2 DEF EnterRampUp
    <3> QED
      BY <3>1, <3>2
  <2>2. LeaveRampUp(e, t) \in CoolingFanState /\ LeaveRampUp(e, t).cmd = e.cmd
    <3> HIDE DEF e
    <3> QED
      BY <2>1 DEF LeaveRampUp
  <2> QED
    BY <1>6, <2>1, <2>2 DEF RunStage
<1>7. CASE r.stage = "runRev"
  BY <1>7 DEF RunStage, EnterRunRev, LeaveRunRev
<1> QED
  BY <1>3, <1>4, <1>5, <1>6, <1>7

\* The stages run in order, whatever the stage is run with.
LEMMA StageOrder ==
  ASSUME NEW r \in CoolingFanState, NEW t \in Time, NEW f, f = RunStage(r, t),
         r.stage = "stopped" => r.prev \in {"rampDown", "stopped"},
         r.stage = "rampUp" => r.prev \in {"stopped", "rampUp"},
         r.stage = "runRev" => r.prev \in {"rampUp", "runRev"} /\ r.reverse,
         r.stage # "runFwd" => r.cleanout,
         r.stage = "runFwd" => ~r.reverse
  PROVE  /\ f.stage = "stopped" => f.prev \in {"rampDown", "stopped"}
         /\ f.stage = "rampUp" => f.prev \in {"stopped", "rampUp"}
         /\ f.stage = "runRev" => f.prev \in {"rampUp", "runRev"} /\ f.reverse
         /\ f.stage # "runFwd" => f.cleanout
         /\ f.stage = "runFwd" => ~f.reverse
<1> USE DEF CoolingFanState, Stages, RunStage
<1>1. CASE r.stage = "runFwd"
  BY <1>1 DEF RunFwd, EnterRunFwd
<1>2. CASE r.stage = "rampDown"
  BY <1>2 DEF EnterRampDown, LeaveRampDown, BeginsRampDown
<1>3. CASE r.stage = "stopped"
  BY <1>3 DEF EnterStopped, LeaveStopped
<1>4. CASE r.stage = "rampUp"
  BY <1>4 DEF EnterRampUp, LeaveRampUp
<1>5. CASE r.stage = "runRev"
  BY <1>5 DEF EnterRunRev, LeaveRunRev
<1> QED
  BY <1>1, <1>2, <1>3, <1>4, <1>5

\* What the entry of the forward run does to its time stamp.
LEMMA StageForwardStart ==
  ASSUME NEW r \in CoolingFanState, NEW t \in Time, NEW f, f = RunStage(r, t)
  PROVE  f.fwdStart = IF r.stage = "runFwd" /\ r.prev # "runFwd" THEN t ELSE r.fwdStart
<1> USE DEF CoolingFanState, Stages, RunStage
<1>1. CASE r.stage = "runFwd"
  BY <1>1 DEF RunFwd, EnterRunFwd
<1>2. CASE r.stage = "rampDown"
  BY <1>2 DEF EnterRampDown, LeaveRampDown, BeginsRampDown
<1>3. CASE r.stage \in {"stopped", "rampUp", "runRev"}
  BY <1>3 DEF EnterStopped, LeaveStopped, EnterRampUp, LeaveRampUp, EnterRunRev, LeaveRunRev
<1> QED
  BY <1>1, <1>2, <1>3

\* No stage starts a cleanout.
LEMMA StageCleanout ==
  ASSUME NEW r \in CoolingFanState, NEW t \in Time, RunStage(r, t).cleanout
  PROVE  r.cleanout
<1> USE DEF CoolingFanState, Stages, RunStage
<1>1. CASE r.stage = "runFwd"
  BY <1>1 DEF RunFwd, EnterRunFwd
<1>2. CASE r.stage = "rampDown"
  BY <1>2 DEF EnterRampDown, LeaveRampDown, BeginsRampDown
<1>3. CASE r.stage \in {"stopped", "rampUp", "runRev"}
  BY <1>3 DEF EnterStopped, LeaveStopped, EnterRampUp, LeaveRampUp, EnterRunRev, LeaveRunRev
<1> QED
  BY <1>1, <1>2, <1>3

\* The first turn of a ramp down.
LEMMA RampDownBegins ==
  ASSUME NEW r \in CoolingFanState, NEW t \in Time, BeginsRampDown(r),
         NEW f, f = RunStage(r, t)
  PROVE  /\ f.stage = "rampDown" /\ f.prev = "rampDown" /\ f.cmd = 0
         /\ f.slope = r.cmd \div RampTime /\ f.downStart = t
         /\ f.reverse = r.reverse
<1>1. Elapsed(t, t) = 0
  BY DEF Elapsed, Time
<1> QED
  BY <1>1 DEF RunStage, EnterRampDown, LeaveRampDown, BeginsRampDown, CoolingFanState

\* The other turns of a ramp down.
LEMMA RampDownGoesOn ==
  ASSUME NEW r \in CoolingFanState, NEW t \in Time, r.stage = "rampDown",
         ~BeginsRampDown(r), NEW f, f = RunStage(r, t)
  PROVE  /\ f.cmd = r.cmd /\ f.slope = r.slope /\ f.downStart = r.downStart
         /\ f.reverse = r.reverse
         /\ \/ /\ f.stage = "rampDown" /\ f.prev = r.prev
               /\ ~(Elapsed(t, r.downStart) > RampTime)
            \/ /\ f.stage = "stopped" /\ f.prev = "rampDown"
               /\ Elapsed(t, r.downStart) > RampTime
  BY DEF RunStage, EnterRampDown, LeaveRampDown, CoolingFanState

\* No other stage leads into the middle of a ramp down.
LEMMA OtherStages ==
  ASSUME NEW r \in CoolingFanState, NEW t \in Time, r.stage # "rampDown",
         r.stage = "runRev" => r.prev \in {"rampUp", "runRev"},
         r.stage = "stopped" => r.prev \in {"rampDown", "stopped"},
         r.stage = "rampUp" => r.prev \in {"stopped", "rampUp"} /\ r.cleanout,
         NEW f, f = RunStage(r, t)
  PROVE  /\ f.stage = "rampDown" => f.prev = "runRev"
         /\ f.stage = "stopped" => f.prev # "rampDown"
         /\ f.stage = "runFwd" /\ ~f.cleanout => f.prev = "runFwd"
         /\ r.stage # "stopped" => f.reverse = r.reverse
         /\ r.stage = "stopped" => f.cmd = r.cmd
         /\ r.stage = "stopped" /\ f.reverse # r.reverse => r.prev = "rampDown"
<1> USE DEF CoolingFanState, Stages, RunStage
<1>1. CASE r.stage = "runFwd"
  BY <1>1 DEF RunFwd, EnterRunFwd
<1>3. CASE r.stage = "stopped"
  BY <1>3 DEF EnterStopped, LeaveStopped
<1>4. CASE r.stage = "rampUp"
  BY <1>4 DEF EnterRampUp, LeaveRampUp
<1>5. CASE r.stage = "runRev"
  BY <1>5 DEF EnterRunRev, LeaveRunRev
<1> QED
  BY <1>1, <1>3, <1>4, <1>5

\* One turn of the ramp.
LEMMA RampLemma ==
  ASSUME NEW f \in CoolingFanState, NEW d \in 0 .. MaxCycle, out \in Speeds
  PROVE  /\ rampCalc(f, d) \in Speeds
         /\ f.cmd = 0 => rampCalc(f, d) <= out
         /\ f.cmd = 0 /\ now # 0 => \/ rampCalc(f, d) = 0
                                   \/ rampCalc(f, d) = out - f.slope * d
<1> DEFINE step == IF now = 0 THEN 0 ELSE f.slope * d
<1>1. f.cmd \in Speeds /\ f.slope \in Nat
  BY DEF CoolingFanState
<1>2. step \in Nat
  BY <1>1
<1>3. rampCalc(f, d) = Approach(out, f.cmd, step)
  BY DEF rampCalc
<1> HIDE DEF step
<1>4. /\ rampCalc(f, d) \in Speeds
      /\ f.cmd = 0 => rampCalc(f, d) <= out
      /\ f.cmd = 0 => rampCalc(f, d) = 0 \/ rampCalc(f, d) = out - step
  BY <1>1, <1>2, <1>3, ApproachLemma
<1> QED
  BY <1>4 DEF step

\* A turn without an entry of the forward run ages its time stamp truthfully.
LEMMA SinceLemma ==
  ASSUME TypeOK, SinceTruthful, NEW d \in 0 .. MaxCycle, now' = Later(now, d),
         cf'.fwdStart = cf.fwdStart, since' = Saturate(since + d, AutoCycle)
  PROVE  SinceTruthful'
<1>1. /\ Elapsed(now, cf.fwdStart) \in Nat /\ Elapsed(now', cf.fwdStart) \in Nat
      /\ Elapsed(now', cf.fwdStart) <= Elapsed(now, cf.fwdStart) + d
  BY ClockLemma DEF TypeOK, CoolingFanState
<1> QED
  BY <1>1 DEF SinceTruthful, Saturate, TypeOK

\* A turn of the ramp towards 0 covers what the clock says has passed.
LEMMA SlowingLemma ==
  ASSUME TypeOK, SlowingDown, now # 0, NEW d \in 0 .. MaxCycle,
         now' = Later(now, d), out' = rampCalc(cf', d), cf' \in CoolingFanState,
         cf'.cmd = 0, cf'.slope = cf.slope, cf'.downStart = cf.downStart
  PROVE  SlowingDown'
<1> DEFINE e == Elapsed(now, cf.downStart)
           f == Elapsed(now', cf.downStart)
           s == cf.slope
<1>1. e \in Nat /\ f \in Nat /\ f <= e + d /\ s \in Nat
  BY ClockLemma DEF TypeOK, CoolingFanState
<1>2. out' = 0 \/ out' = out - s * d
  BY RampLemma DEF TypeOK
<1>3. out \in Nat /\ out' <= out /\ out' \in Nat
  BY RampLemma DEF TypeOK, Speeds
<1>4. out = 0 \/ out + s * e <= s * RampTime
  BY DEF SlowingDown
<1>5. ASSUME out' = 0 \/ out' + s * f <= s * RampTime
      PROVE  SlowingDown'
  BY <1>5 DEF SlowingDown
<1> HIDE DEF e, f, s
<1>6. s * f <= s * (e + d) /\ s * (e + d) = s * e + s * d
  BY <1>1, Z3
<1>7. s * f \in Nat /\ s * e \in Nat /\ s * d \in Nat /\ s * RampTime \in Nat
  BY <1>1
<1> DEFINE se == s * e
           sf == s * f
           sd == s * d
           sr == s * RampTime
<1>8. sf <= se + sd /\ {sf, se, sd, sr} \subseteq Nat
  BY <1>6, <1>7
<1>9. (out = 0 \/ out + se <= sr) /\ (out' = 0 \/ out' = out - sd)
  BY <1>2, <1>4
<1> HIDE DEF se, sf, sd, sr
<1>10. out' = 0 \/ out' + sf <= sr
  BY <1>3, <1>8, <1>9
<1> QED
  BY <1>5, <1>10 DEF sf, sr

\* Once the time is over the fan stands.
LEMMA StandsLemma ==
  ASSUME NEW o \in Nat, NEW s \in Nat, NEW e \in Nat, e > RampTime,
         o = 0 \/ o + s * e <= s * RampTime
  PROVE  o = 0
<1>1. s * RampTime <= s * e /\ s * e \in Nat /\ s * RampTime \in Nat
  BY Z3
<1> QED
  BY <1>1

\* A regular turn, given the structure its stage is run with.
Turn(d, tooHot, purge, starts, r) ==
  /\ now' = Later(now, d)
  /\ seen' = [fault |-> FALSE, hot |-> tooHot, purge |-> purge]
  /\ cf' = RunStage(r, Later(now, d))
  /\ out' = rampCalc(cf', d)
  /\ since' = IF r.stage = "runFwd" /\ cf.prev # "runFwd" THEN 0
              ELSE Saturate(since + d, AutoCycle)
  /\ atSpeed' = /\ now # 0
                /\ IF BeginsRampDown(r) THEN out = r.cmd ELSE atSpeed /\ ~tooHot
  /\ cleaning' = IF cf'.cleanout /\ ~starts
                 THEN Saturate(cleaning + d, CleanoutTime + 1) ELSE 0

LEMMA TurnLemma ==
  ASSUME ControlTurn
  PROVE  \E d \in 0 .. MaxCycle, tooHot \in BOOLEAN, purge \in BOOLEAN,
            moving \in BOOLEAN, demand \in 0 .. MaxDemand :
           Turn(d, tooHot, purge, Starts(Later(now, d), tooHot, demand, purge, moving),
                Requested(Later(now, d), tooHot, demand, purge, moving))
  BY Zenon DEF ControlTurn, Starts, Requested, Turn

\* What is left of a cleanout is a time.
LEMMA TimeLeftType ==
  ASSUME NEW f \in CoolingFanState, NEW t \in Time
  PROVE  /\ TimeLeft(f, t) \in Int
         /\ StageInTime(f, t) => TimeLeft(f, t) >= 0
<1>1. /\ {RampTime, StopTime, PurgeTime, MaxCycle} \subseteq Nat
      /\ Elapsed(t, StampOf(f)) \in Nat
  BY DEF Elapsed, Time, StampOf, CoolingFanState
<1> QED
  BY <1>1 DEF StageInTime, TimeLeft, StageLeft, Limit, Whole, Return, Ahead, Reversal

\* The same, stage by stage.
LEMMA TimeLeftByStage ==
  ASSUME NEW f \in CoolingFanState, NEW t \in Time
  PROVE  /\ f.stage = "runFwd" => TimeLeft(f, t) = 0
         /\ f.stage = "rampDown" => TimeLeft(f, t) =
              (IF f.prev \in {"runFwd", "runRev"} THEN RampTime + 2 * MaxCycle
               ELSE RampTime - Elapsed(t, f.downStart) + MaxCycle)
              + (Whole("stopped") + Whole("rampUp"))
              + (IF f.reverse THEN 0 ELSE Whole("runRev") + Return)
         /\ f.stage = "stopped" /\ f.prev = "rampDown" => TimeLeft(f, t) =
              StopTime + 2 * MaxCycle
              + Whole("rampUp") + (IF f.reverse THEN 0 ELSE Whole("runRev") + Return)
         /\ f.stage = "stopped" /\ f.prev = "stopped" => TimeLeft(f, t) =
              StopTime - Elapsed(t, f.stageStart) + MaxCycle
              + Whole("rampUp") + (IF f.reverse THEN Whole("runRev") + Return ELSE 0)
         /\ f.stage = "rampUp" => TimeLeft(f, t) =
              (IF f.prev = "rampUp" THEN RampTime - Elapsed(t, f.stageStart) + MaxCycle
               ELSE RampTime + 2 * MaxCycle)
              + (IF f.reverse THEN Whole("runRev") + Return ELSE 0)
         /\ f.stage = "runRev" => TimeLeft(f, t) =
              (IF f.prev = "runRev" THEN PurgeTime - Elapsed(t, f.stageStart) + MaxCycle
               ELSE PurgeTime + 2 * MaxCycle) + Return
         /\ Whole("stopped") = StopTime + 2 * MaxCycle
         /\ Whole("rampUp") = RampTime + 2 * MaxCycle
         /\ Whole("runRev") = PurgeTime + 2 * MaxCycle
         /\ Return = RampTime + 2 * MaxCycle + Whole("stopped") + Whole("rampUp")
<1> USE DEF TimeLeft, StageLeft, Ahead, Reversal, WillReverse, SwitchAhead, Entered, StampOf
<1> DEFINE St == Whole("stopped")
           Up == Whole("rampUp")
           Rev == Whole("runRev")
           e == Elapsed(t, f.stageStart)
           g == Elapsed(t, f.downStart)
<1>1. /\ St = StopTime + 2 * MaxCycle /\ Up = RampTime + 2 * MaxCycle
      /\ Rev = PurgeTime + 2 * MaxCycle /\ Whole("rampDown") = RampTime + 2 * MaxCycle
      /\ {RampTime, StopTime, PurgeTime, MaxCycle} \subseteq Nat
      /\ Return = Whole("rampDown") + St + Up
      /\ e \in Nat /\ g \in Nat
      /\ Limit("stopped") = StopTime /\ Limit("rampUp") = RampTime
      /\ Limit("runRev") = PurgeTime /\ Limit("rampDown") = RampTime
  BY DEF Whole, Limit, Return, Elapsed, Time, CoolingFanState
<1> HIDE DEF St, Up, Rev, e, g
<1>2. f.stage = "runFwd" => TimeLeft(f, t) = 0
  OBVIOUS
<1>3. CASE f.stage = "rampDown"
  BY <1>1, <1>3 DEF e, g, St, Up, Rev
<1>4. CASE f.stage = "stopped"
  BY <1>1, <1>4 DEF e, g, St, Up, Rev
<1>5. CASE f.stage = "rampUp"
  BY <1>1, <1>5 DEF e, g, St, Up, Rev
<1>6. CASE f.stage = "runRev"
  BY <1>1, <1>6 DEF e, g, St, Up, Rev
<1> QED
  BY <1>1, <1>2, <1>3, <1>4, <1>5, <1>6 DEF e, g, St, Up, Rev, CoolingFanState, Stages

\* The stages are timed by stamps of their own: a stage that is neither left
\* nor entered has used up the time of the turn, one that is left has used up
\* no more than a turn beyond its limit.
LEMMA StageTimed ==
  ASSUME NEW r \in CoolingFanState, NEW t \in Time, NEW d \in 0 .. MaxCycle,
         NEW n \in Time, n = Later(t, d), r.stage # "runFwd", StageInTime(r, t),
         r.stage = "stopped" => r.prev \in {"rampDown", "stopped"},
         r.stage = "rampUp" => r.prev \in {"stopped", "rampUp"},
         r.stage = "runRev" => r.prev \in {"rampUp", "runRev"} /\ r.reverse,
         NEW f \in CoolingFanState, f = RunStage(r, n)
  PROVE  /\ StageInTime(f, n)
         /\ d + TimeLeft(f, n) <= TimeLeft(r, t)
<1>1. /\ Elapsed(n, n) = 0
      /\ {RampTime, StopTime, PurgeTime, MaxCycle, d} \subseteq Nat /\ d <= MaxCycle
      /\ Elapsed(n, r.stageStart) \in Nat /\ Elapsed(n, r.downStart) \in Nat
      /\ Elapsed(t, r.stageStart) \in Nat /\ Elapsed(t, r.downStart) \in Nat
  BY ClockLemma DEF CoolingFanState
<1>2. Entered(r) => LET e == Elapsed(t, StampOf(r)) IN
        e <= Limit(r.stage) /\ Elapsed(n, StampOf(r)) = e + d
  <2>1. StampOf(r) \in Time
    BY DEF CoolingFanState, StampOf
  <2>2. Limit(r.stage) + MaxCycle < TimeMod /\ Limit(r.stage) \in Nat
    BY DEF Limit
  <2> QED
    BY <2>1, <2>2, ClockLemma DEF StageInTime
<1> DEFINE tl == TimeLeft(r, t)
           fl == TimeLeft(f, n)
           St == Whole("stopped")
           Up == Whole("rampUp")
           Rev == Whole("runRev")
<1>3. /\ St = StopTime + 2 * MaxCycle /\ Up = RampTime + 2 * MaxCycle
      /\ Rev = PurgeTime + 2 * MaxCycle
      /\ Return = RampTime + 2 * MaxCycle + St + Up
  BY TimeLeftByStage
<1> HIDE DEF tl, fl, St, Up, Rev
<1> USE DEF StageInTime, Entered, StampOf, Limit
<1>4. CASE r.stage = "rampDown"
  <2>1. CASE BeginsRampDown(r)
    <3>1. /\ f.stage = "rampDown" /\ f.prev = "rampDown" /\ f.downStart = n
          /\ f.reverse = r.reverse /\ r.prev \in {"runFwd", "runRev"}
      BY <2>1, RampDownBegins DEF BeginsRampDown
    <3>2. /\ tl = RampTime + 2 * MaxCycle + (St + Up)
                   + (IF r.reverse THEN 0 ELSE Rev + Return)
          /\ fl = RampTime - 0 + MaxCycle + (St + Up)
                   + (IF r.reverse THEN 0 ELSE Rev + Return)
      BY <1>1, <1>4, <3>1, TimeLeftByStage DEF tl, fl, St, Up, Rev
    <3> QED
      BY <1>1, <1>3, <3>1, <3>2 DEF tl, fl
  <2>2. CASE ~BeginsRampDown(r)
    <3>1. /\ f.downStart = r.downStart /\ f.reverse = r.reverse
          /\ r.prev \notin {"runFwd", "runRev"}
          /\ \/ /\ f.stage = "rampDown" /\ f.prev = r.prev
                /\ ~(Elapsed(n, r.downStart) > RampTime)
             \/ f.stage = "stopped" /\ f.prev = "rampDown"
      BY <1>4, <2>2, RampDownGoesOn DEF BeginsRampDown
    <3>2. tl = RampTime - Elapsed(t, r.downStart) + MaxCycle + (St + Up)
               + (IF r.reverse THEN 0 ELSE Rev + Return)
      BY <1>4, <3>1, TimeLeftByStage DEF tl, St, Up, Rev
    <3>3. /\ Elapsed(t, r.downStart) <= RampTime
          /\ Elapsed(n, r.downStart) = Elapsed(t, r.downStart) + d
      BY <1>2, <1>4, <3>1
    <3>4. CASE f.stage = "rampDown"
      <4>1. fl = RampTime - Elapsed(n, r.downStart) + MaxCycle + (St + Up)
                 + (IF r.reverse THEN 0 ELSE Rev + Return)
        BY <3>1, <3>4, TimeLeftByStage DEF fl, St, Up, Rev
      <4> QED
        BY <1>1, <1>3, <3>1, <3>2, <3>3, <3>4, <4>1 DEF tl, fl
    <3>5. CASE f.stage = "stopped"
      <4>1. fl = StopTime + 2 * MaxCycle + Up + (IF r.reverse THEN 0 ELSE Rev + Return)
        BY <3>1, <3>5, TimeLeftByStage DEF fl, St, Up, Rev
      <4> QED
        BY <1>1, <1>3, <3>1, <3>2, <3>3, <3>5, <4>1 DEF tl, fl
    <3> QED
      BY <3>1, <3>4, <3>5
  <2> QED
    BY <2>1, <2>2
<1>5. CASE r.stage = "stopped"
  <2>1. CASE r.prev = "rampDown"
    <3>1. /\ f.prev = "stopped" /\ f.reverse = ~r.reverse /\ f.stageStart = n
          /\ f.stage = "rampUp" \/ f.stage = "stopped"
      BY <1>5, <2>1 DEF RunStage, EnterStopped, LeaveStopped, CoolingFanState, Stages
    <3>2. tl = StopTime + 2 * MaxCycle + Up + (IF r.reverse THEN 0 ELSE Rev + Return)
      BY <1>5, <2>1, TimeLeftByStage DEF tl, St, Up, Rev
    <3>3. \/ fl = StopTime - 0 + MaxCycle + Up + (IF r.reverse THEN 0 ELSE Rev + Return)
          \/ fl = RampTime + 2 * MaxCycle + (IF r.reverse THEN 0 ELSE Rev + Return)
      BY <1>1, <3>1, TimeLeftByStage DEF fl, St, Up, Rev, CoolingFanState
    <3> QED
      BY <1>1, <1>3, <3>1, <3>2, <3>3 DEF tl, fl
  <2>2. CASE r.prev = "stopped"
    <3>1. /\ f.prev = "stopped" /\ f.reverse = r.reverse /\ f.stageStart = r.stageStart
          /\ \/ f.stage = "rampUp"
             \/ f.stage = "stopped" /\ ~(Elapsed(n, r.stageStart) >= StopTime)
      BY <1>5, <2>2 DEF RunStage, EnterStopped, LeaveStopped, CoolingFanState, Stages
    <3>2. tl = StopTime - Elapsed(t, r.stageStart) + MaxCycle + Up
               + (IF r.reverse THEN Rev + Return ELSE 0)
      BY <1>5, <2>2, TimeLeftByStage DEF tl, St, Up, Rev
    <3>3. /\ Elapsed(t, r.stageStart) <= StopTime
          /\ Elapsed(n, r.stageStart) = Elapsed(t, r.stageStart) + d
      BY <1>2, <1>5, <2>2
    <3>4. CASE f.stage = "stopped"
      <4>1. fl = StopTime - Elapsed(n, r.stageStart) + MaxCycle + Up
                 + (IF r.reverse THEN Rev + Return ELSE 0)
        BY <3>1, <3>4, TimeLeftByStage DEF fl, St, Up, Rev
      <4> QED
        BY <1>1, <1>3, <3>1, <3>2, <3>3, <3>4, <4>1 DEF tl, fl
    <3>5. CASE f.stage = "rampUp"
      <4>1. fl = RampTime + 2 * MaxCycle + (IF r.reverse THEN Rev + Return ELSE 0)
        BY <3>1, <3>5, TimeLeftByStage DEF fl, St, Up, Rev
      <4> QED
        BY <1>1, <1>3, <3>1, <3>2, <3>3, <3>5, <4>1 DEF tl, fl
    <3> QED
      BY <3>1, <3>4, <3>5
  <2> QED
    BY <1>5, <2>1, <2>2
<1>6. CASE r.stage = "rampUp"
  <2>1. CASE r.prev = "stopped"
    <3>1. /\ f.stage = "rampUp" /\ f.prev = "rampUp" /\ f.stageStart = n
          /\ f.reverse = r.reverse
      BY <1>1, <1>6, <2>1 DEF RunStage, EnterRampUp, LeaveRampUp, CoolingFanState, Stages
    <3>2. /\ tl = RampTime + 2 * MaxCycle + (IF r.reverse THEN Rev + Return ELSE 0)
          /\ fl = RampTime - 0 + MaxCycle + (IF r.reverse THEN Rev + Return ELSE 0)
      BY <1>1, <1>6, <2>1, <3>1, TimeLeftByStage DEF tl, fl, Rev
    <3> QED
      BY <1>1, <1>3, <3>1, <3>2 DEF tl, fl
  <2>2. CASE r.prev = "rampUp"
    <3>1. /\ f.prev = "rampUp" /\ f.reverse = r.reverse /\ f.stageStart = r.stageStart
          /\ \/ f.stage = "rampUp" /\ ~(Elapsed(n, r.stageStart) > RampTime)
             \/ f.stage = IF r.reverse THEN "runRev" ELSE "runFwd"
      BY <1>6, <2>2 DEF RunStage, EnterRampUp, LeaveRampUp, CoolingFanState, Stages
    <3>2. tl = RampTime - Elapsed(t, r.stageStart) + MaxCycle
               + (IF r.reverse THEN Rev + Return ELSE 0)
      BY <1>6, <2>2, TimeLeftByStage DEF tl, Rev
    <3>3. /\ Elapsed(t, r.stageStart) <= RampTime
          /\ Elapsed(n, r.stageStart) = Elapsed(t, r.stageStart) + d
      BY <1>2, <1>6, <2>2
    <3>4. CASE f.stage = "rampUp"
      <4>1. fl = RampTime - Elapsed(n, r.stageStart) + MaxCycle
                 + (IF r.reverse THEN Rev + Return ELSE 0)
        BY <3>1, <3>4, TimeLeftByStage DEF fl, Rev
      <4> QED
        BY <1>1, <1>3, <3>1, <3>2, <3>3, <3>4, <4>1 DEF tl, fl
    <3>5. CASE f.stage # "rampUp"
      <4>1. fl = IF r.reverse THEN PurgeTime + 2 * MaxCycle + Return ELSE 0
        BY <3>1, <3>5, TimeLeftByStage DEF fl, CoolingFanState
      <4> QED
        BY <1>1, <1>3, <3>1, <3>2, <3>3, <3>5, <4>1 DEF tl, fl, CoolingFanState
    <3> QED
      BY <3>4, <3>5
  <2> QED
    BY <1>6, <2>1, <2>2
<1>7. CASE r.stage = "runRev"
  <2>1. CASE r.prev = "rampUp"
    <3>1. f.prev = "runRev" /\ (f.stage = "runRev" \/ f.stage = "rampDown")
          /\ f.stageStart = n /\ f.reverse
      BY <1>7, <2>1 DEF RunStage, EnterRunRev, LeaveRunRev, CoolingFanState, Stages
    <3>2. f.stage = "runRev"
      BY <1>1, <1>7, <2>1 DEF RunStage, EnterRunRev, LeaveRunRev, CoolingFanState, Stages
    <3>3. tl = PurgeTime + 2 * MaxCycle + Return /\ fl = PurgeTime - 0 + MaxCycle + Return
      BY <1>1, <1>7, <2>1, <3>1, <3>2, TimeLeftByStage DEF tl, fl
    <3> QED
      BY <1>1, <1>3, <3>1, <3>2, <3>3 DEF tl, fl
  <2>2. CASE r.prev = "runRev"
    <3>1. /\ f.prev = "runRev" /\ f.reverse /\ f.stageStart = r.stageStart
          /\ \/ f.stage = "runRev" /\ ~(Elapsed(n, r.stageStart) > PurgeTime)
             \/ f.stage = "rampDown"
      BY <1>7, <2>2 DEF RunStage, EnterRunRev, LeaveRunRev, CoolingFanState, Stages
    <3>2. tl = PurgeTime - Elapsed(t, r.stageStart) + MaxCycle + Return
      BY <1>7, <2>2, TimeLeftByStage DEF tl
    <3>3. /\ Elapsed(t, r.stageStart) <= PurgeTime
          /\ Elapsed(n, r.stageStart) = Elapsed(t, r.stageStart) + d
      BY <1>2, <1>7, <2>2
    <3>4. CASE f.stage = "runRev"
      <4>1. fl = PurgeTime - Elapsed(n, r.stageStart) + MaxCycle + Return
        BY <3>1, <3>4, TimeLeftByStage DEF fl
      <4> QED
        BY <1>1, <1>3, <3>1, <3>2, <3>3, <3>4, <4>1 DEF tl, fl
    <3>5. CASE f.stage = "rampDown"
      <4>1. fl = RampTime + 2 * MaxCycle + (St + Up) + 0
        BY <3>1, <3>5, TimeLeftByStage DEF fl, St, Up
      <4> QED
        BY <1>1, <1>3, <3>1, <3>2, <3>3, <3>5, <4>1 DEF tl, fl
    <3> QED
      BY <3>1, <3>4, <3>5
  <2> QED
    BY <1>7, <2>1, <2>2
<1> QED
  BY <1>4, <1>5, <1>6, <1>7 DEF CoolingFanState, Stages

\* A cleanout begins with a ramp down timed afresh, or with a stale stamp that
\* lets it take no longer.
LEMMA CleanoutBegins ==
  ASSUME NEW r \in CoolingFanState, NEW t \in Time, r.stage = "rampDown", ~r.reverse,
         NEW f, f = RunStage(r, t)
  PROVE  StageInTime(f, t) /\ TimeLeft(f, t) <= CleanoutTime
<1> USE DEF StageInTime, TimeLeft, StageLeft, Limit, Whole, Return, Ahead, Reversal,
            WillReverse, SwitchAhead, Entered, StampOf
<1>1. /\ Elapsed(t, t) = 0
      /\ {RampTime, StopTime, PurgeTime, MaxCycle} \subseteq Nat
  BY DEF Elapsed, Time
<1>2. CASE BeginsRampDown(r)
  <2>1. /\ f.stage = "rampDown" /\ f.prev = "rampDown" /\ f.downStart = t /\ ~f.reverse
    BY <1>2, RampDownBegins
  <2> QED
    BY <1>1, <2>1 DEF CleanoutTime
<1>3. CASE ~BeginsRampDown(r)
  <2>1. /\ f.downStart = r.downStart /\ ~f.reverse /\ Elapsed(t, r.downStart) \in Nat
        /\ \/ /\ f.stage = "rampDown" /\ f.prev = r.prev
              /\ ~(Elapsed(t, r.downStart) > RampTime)
           \/ f.stage = "stopped" /\ f.prev = "rampDown"
    BY <1>3, RampDownGoesOn DEF CoolingFanState, Elapsed, Time
  <2> QED
    BY <1>1, <1>3, <2>1 DEF BeginsRampDown, CleanoutTime
<1> QED
  BY <1>2, <1>3

LEMMA CleanoutGoesOn ==
  ASSUME IInv, NEW d \in 0 .. MaxCycle, NEW tooHot \in BOOLEAN, NEW purge \in BOOLEAN,
         NEW starts, NEW r, Turn(d, tooHot, purge, starts, r),
         now' = Later(now, d), now' \in Time, cf' \in CoolingFanState,
         IsRequested(r, starts, Later(now, d), tooHot, purge)
  PROVE  CleanoutBacked'
<1> SUFFICES ASSUME cf'.cleanout
             PROVE  /\ StageInTime(cf', now')
                    /\ cleaning' + TimeLeft(cf', now') <= CleanoutTime
  BY DEF CleanoutBacked
<1>1. cf' = RunStage(r, now') /\ r \in CoolingFanState
  BY DEF Turn, IsRequested
<1>2. r.cleanout
  BY <1>1, StageCleanout
<1>3. CASE starts
  <2>1. r.stage = "rampDown" /\ ~r.reverse
    BY <1>3 DEF IsRequested
  <2>2. cleaning' = 0
    BY <1>3 DEF Turn
  <2>3. StageInTime(cf', now') /\ TimeLeft(cf', now') <= CleanoutTime
    BY <1>1, <2>1, CleanoutBegins
  <2>4. TimeLeft(cf', now') \in Int
    BY TimeLeftType
  <2> QED
    BY <2>2, <2>3, <2>4 DEF CleanoutTime
<1>4. CASE ~starts
  <2>1. /\ r.stage = cf.stage /\ r.prev = cf.prev /\ r.reverse = cf.reverse /\ cf.cleanout
        /\ r.downStart = cf.downStart /\ r.stageStart = cf.stageStart
    BY <1>2, <1>4 DEF IsRequested
  <2>2. /\ StageInTime(r, now) <=> StageInTime(cf, now)
        /\ TimeLeft(r, now) = TimeLeft(cf, now)
    BY <2>1 DEF StageInTime, TimeLeft, StageLeft, Ahead, Reversal, WillReverse,
                SwitchAhead, Entered, StampOf
  <2>3. StageInTime(r, now) /\ cleaning + TimeLeft(r, now) <= CleanoutTime
    BY <2>1, <2>2 DEF IInv, CleanoutBacked
  <2>4. r.stage # "runFwd"
    BY <1>1 DEF RunStage, RunFwd, EnterRunFwd, CoolingFanState
  <2>5. /\ StageInTime(cf', now')
        /\ d + TimeLeft(cf', now') <= TimeLeft(r, now)
    BY <1>1, <2>1, <2>3, <2>4, StageTimed DEF IInv, TypeOK, StagesEntered
  <2>6. cleaning' <= cleaning + d /\ cleaning' \in Nat /\ cleaning \in Nat
    BY <1>4 DEF Turn, Saturate, IInv, TypeOK, CleanoutTime
  <2>7. TimeLeft(cf', now') \in Int /\ TimeLeft(r, now) \in Int
    BY <1>1, TimeLeftType DEF IInv, TypeOK
  <2> QED
    BY <2>3, <2>5, <2>6, <2>7 DEF CleanoutTime
<1> QED
  BY <1>3, <1>4

LEMMA SafeTurnKeepsIInv == IInv /\ SafeTurn => IInv'
<1> SUFFICES ASSUME IInv, NEW d \in 0 .. MaxCycle,
                    now' = Later(now, d),
                    cf' = set_fanSafeState(cf),
                    out' = rampCalc(cf', d),
                    since' = Saturate(since + d, AutoCycle),
                    atSpeed' = FALSE,
                    cleaning' = 0,
                    seen' = [NoInputs EXCEPT !.fault = TRUE]
             PROVE  IInv'
  BY DEF SafeTurn
<1> USE DEF IInv
<1>1. Speed(SafeDemand) \in Speeds /\ SafeDemand \in 0 .. MaxDemand
  BY SpeedLemma
<1>2. /\ cf' \in CoolingFanState /\ cf'.cmd = Speed(SafeDemand)
      /\ cf'.stage = "runFwd" /\ ~cf'.reverse /\ cf'.fwdStart = cf.fwdStart
  BY <1>1 DEF set_fanSafeState, TypeOK, CoolingFanState, Stages
<1>3. TypeOK'
  <2>1. now' \in Time
    BY ClockLemma DEF TypeOK
  <2>2. out' \in Speeds
    BY <1>1, <1>2, RampLemma DEF TypeOK
  <2>3. seen' \in Inputs
    BY DEF NoInputs, Inputs
  <2>4. since' \in 0 .. AutoCycle
    BY DEF TypeOK, Saturate
  <2>5. atSpeed' \in BOOLEAN
    OBVIOUS
  <2>6. cleaning' \in 0 .. CleanoutTime + 1
    BY DEF CleanoutTime
  <2> QED
    BY <1>2, <2>1, <2>2, <2>3, <2>4, <2>5, <2>6 DEF TypeOK
<1>4. StagesEntered'
  BY <1>2 DEF StagesEntered
<1>5. ExactCommand'
  BY <1>1, <1>2 DEF ExactCommand
<1>6. RampBacked'
  BY DEF RampBacked
<1>7. SinceTruthful'
  BY <1>2, SinceLemma
<1>8. CleanoutBacked'
  BY DEF CleanoutBacked, set_fanSafeState, TypeOK, CoolingFanState
<1> QED
  BY <1>3, <1>4, <1>5, <1>6, <1>7, <1>8

LEMMA ControlTurnKeepsIInv == IInv /\ ControlTurn => IInv'
<1> SUFFICES ASSUME IInv, ControlTurn PROVE IInv'
  OBVIOUS
<1>1. PICK d \in 0 .. MaxCycle, tooHot \in BOOLEAN, purge \in BOOLEAN,
           moving \in BOOLEAN, demand \in 0 .. MaxDemand :
        Turn(d, tooHot, purge, Starts(Later(now, d), tooHot, demand, purge, moving),
             Requested(Later(now, d), tooHot, demand, purge, moving))
  BY TurnLemma
<1> DEFINE starts == Starts(Later(now, d), tooHot, demand, purge, moving)
           r == Requested(Later(now, d), tooHot, demand, purge, moving)
<1>2. now' \in Time /\ now' = Later(now, d) /\ Later(now, d) \in Time
      /\ Turn(d, tooHot, purge, starts, r)
  BY <1>1, ClockLemma DEF Turn, TypeOK, IInv
<1>3. IsRequested(r, starts, Later(now, d), tooHot, purge)
  BY <1>2, RequestedLemma
<1> HIDE DEF starts, r
<1> USE DEF IInv, IsRequested
<1>4. /\ cf' = RunStage(r, now')
      /\ cf' \in CoolingFanState
      /\ \E k \in 0 .. MaxDemand : cf'.cmd = Speed(k)
  BY <1>2, <1>3, StageType DEF Turn
<1>5. TypeOK'
  <2>1. out' \in Speeds
    BY <1>2, <1>4, RampLemma DEF Turn, TypeOK
  <2>2. seen' \in Inputs
    BY <1>2 DEF Turn, Inputs
  <2>3. since' \in 0 .. AutoCycle
    BY <1>2 DEF Turn, TypeOK, Saturate
  <2>4. atSpeed' \in BOOLEAN
    BY <1>2 DEF Turn, TypeOK, BeginsRampDown
  <2>5. cleaning' \in 0 .. CleanoutTime + 1
    BY <1>2 DEF Turn, TypeOK, Saturate, CleanoutTime
  <2> QED
    BY <1>2, <1>4, <2>1, <2>2, <2>3, <2>4, <2>5 DEF TypeOK
<1>6. StagesEntered'
  BY <1>2, <1>3, <1>4, StageOrder DEF StagesEntered
<1>7. ExactCommand'
  BY <1>4 DEF ExactCommand
<1>8. RampBacked'
  <2> SUFFICES ASSUME atSpeed'
               PROVE  /\ cf'.stage = "rampDown" =>
                           cf'.prev \in {"runFwd", "runRev", "rampDown"}
                      /\ cf'.stage = "rampDown" /\ cf'.prev = "rampDown" =>
                           cf'.cmd = 0 /\ SlowingDown'
                      /\ cf'.stage = "stopped" /\ cf'.prev = "rampDown" =>
                           cf'.cmd = 0 /\ out' = 0
                      /\ cf'.stage = "runFwd" /\ ~cf'.cleanout => cf'.prev = "runFwd"
    BY DEF RampBacked
  <2>1. CASE BeginsRampDown(r)
    <3>1. /\ cf'.stage = "rampDown" /\ cf'.prev = "rampDown" /\ cf'.cmd = 0
          /\ cf'.slope = r.cmd \div RampTime /\ cf'.downStart = now'
      BY <1>2, <1>3, <1>4, <2>1, RampDownBegins
    <3>2. out = r.cmd
      BY <1>2, <2>1 DEF Turn
    <3>3. out = cf'.slope * RampTime
      BY <1>3, <3>1, <3>2, SpeedLemma DEF Speed
    <3>4. out' <= out
      BY <1>2, <1>4, <3>1, RampLemma DEF Turn, TypeOK
    <3>5. Elapsed(now', cf'.downStart) = 0
      BY <1>2, <3>1, ClockLemma DEF TypeOK
    <3>6. cf'.slope * Elapsed(now', cf'.downStart) = 0
      BY <1>4, <3>5 DEF CoolingFanState
    <3> QED
      BY <1>5, <3>1, <3>3, <3>4, <3>6 DEF SlowingDown, TypeOK, Speeds
  <2>2. CASE ~BeginsRampDown(r)
    <3>1. atSpeed /\ ~tooHot /\ now # 0
      BY <1>2, <2>2 DEF Turn
    <3>2. CASE r.stage = "rampDown"
      <4>1. cf.stage = "rampDown" /\ cf.prev = "rampDown" /\ r.prev = "rampDown"
        BY <1>3, <2>2, <3>1, <3>2 DEF RampBacked, BeginsRampDown
      <4>2. cf.cmd = 0 /\ SlowingDown
        BY <3>1, <4>1 DEF RampBacked
      <4>3. /\ cf'.cmd = 0 /\ cf'.slope = cf.slope /\ cf'.downStart = cf.downStart
            /\ \/ cf'.stage = "rampDown" /\ cf'.prev = "rampDown"
               \/ cf'.stage = "stopped" /\ Elapsed(now', cf'.downStart) > RampTime
        BY <1>2, <1>3, <1>4, <2>2, <3>1, <3>2, <4>1, <4>2, RampDownGoesOn
      <4>4. SlowingDown'
        BY <1>2, <1>4, <3>1, <4>2, <4>3, SlowingLemma DEF Turn
      <4>5. Elapsed(now', cf'.downStart) > RampTime => out' = 0
        <5>1. out' = 0 \/ out' + cf'.slope * Elapsed(now', cf'.downStart) <= cf'.slope * RampTime
          BY <4>4 DEF SlowingDown
        <5>2. out' \in Nat /\ cf'.slope \in Nat /\ Elapsed(now', cf'.downStart) \in Nat
          <6>1. cf'.downStart \in Time /\ cf'.slope \in Nat
            BY <1>4 DEF CoolingFanState
          <6>2. Elapsed(now', cf'.downStart) \in Nat
            BY <1>2, <6>1 DEF Elapsed, Time
          <6> QED
            BY <1>5, <6>1, <6>2 DEF TypeOK, Speeds
        <5> QED
          BY <5>1, <5>2, StandsLemma
      <4> QED
        BY <4>3, <4>4, <4>5
    <3>3. CASE r.stage # "rampDown"
      <4>1. r.stage = cf.stage /\ r.prev = cf.prev /\ r.cleanout = cf.cleanout
        BY <1>3, <3>1, <3>3
      <4>2. /\ r.stage = "runRev" => r.prev \in {"rampUp", "runRev"}
            /\ r.stage = "stopped" => r.prev \in {"rampDown", "stopped"}
            /\ r.stage = "rampUp" => r.prev \in {"stopped", "rampUp"} /\ r.cleanout
        BY <4>1 DEF StagesEntered
      <4> QED
        BY <1>2, <1>3, <1>4, <3>3, <4>2, OtherStages
    <3> QED
      BY <3>2, <3>3
  <2> QED
    BY <2>1, <2>2
<1>9. SinceTruthful'
  <2>1. cf'.fwdStart = IF r.stage = "runFwd" /\ r.prev # "runFwd" THEN now' ELSE cf.fwdStart
    BY <1>2, <1>3, <1>4, StageForwardStart
  <2>2. CASE r.stage = "runFwd" /\ cf.prev # "runFwd"
    <3>1. since' = 0 /\ Elapsed(now', cf'.fwdStart) = 0
      BY <1>2, <1>3, <2>1, <2>2, ClockLemma DEF Turn
    <3> QED
      BY <3>1 DEF SinceTruthful, Saturate
  <2>3. CASE ~(r.stage = "runFwd" /\ cf.prev # "runFwd")
    BY <1>2, <1>3, <2>1, <2>3, SinceLemma DEF Turn
  <2> QED
    BY <2>2, <2>3
<1>10. CleanoutBacked'
  BY <1>2, <1>3, <1>4, CleanoutGoesOn
<1> QED
  BY <1>5, <1>6, <1>7, <1>8, <1>9, <1>10

LEMMA InitIInv == Init => IInv
<1> SUFFICES ASSUME Init PROVE IInv
  OBVIOUS
<1> USE DEF Init
<1>1. 0 \in Time /\ Elapsed(0, 0) = 0
  BY DEF Time, Elapsed
<1>2. Speed(SafeDemand) \in Speeds /\ Speed(0) \in Speeds /\ Speed(0) = 0
  BY SpeedLemma DEF Speed
<1>3. cf \in CoolingFanState
  BY <1>1, <1>2 DEF init_coolingFanControl, CoolingFanState, Stages
<1>4. TypeOK
  <2>1. seen \in Inputs
    BY DEF NoInputs, Inputs
  <2>2. since \in 0 .. AutoCycle
    OBVIOUS
  <2>3. now \in Time
    BY <1>1
  <2>4. out \in Speeds
    BY <1>2
  <2>5. atSpeed \in BOOLEAN
    OBVIOUS
  <2>6. cleaning \in 0 .. CleanoutTime + 1
    BY DEF CleanoutTime
  <2> QED
    BY <1>3, <2>1, <2>2, <2>3, <2>4, <2>5, <2>6 DEF TypeOK
<1>5. StagesEntered /\ RampBacked /\ CleanoutBacked
  BY DEF StagesEntered, RampBacked, CleanoutBacked, init_coolingFanControl
<1>6. ExactCommand
  BY <1>2 DEF ExactCommand, init_coolingFanControl
<1>7. SinceTruthful
  BY <1>1 DEF SinceTruthful, Saturate, init_coolingFanControl
<1> QED
  BY <1>4, <1>5, <1>6, <1>7 DEF IInv

LEMMA NextKeepsIInv == IInv /\ [Next]_vars => IInv'
<1>1. IInv /\ UNCHANGED vars => IInv'
  BY DEF vars, IInv, TypeOK, StagesEntered, ExactCommand, RampBacked, SlowingDown,
         SinceTruthful, CleanoutBacked
<1> QED
  BY <1>1, SafeTurnKeepsIInv, ControlTurnKeepsIInv DEF Next

LEMMA Invariance == Spec => []IInv
  BY InitIInv, NextKeepsIInv, PTL DEF Spec

\* The state of the cooling fan keeps its type, for every setting of its times
\* and speeds.
THEOREM TypeCorrect == Spec => []TypeOK
<1>1. IInv => TypeOK
  BY DEF IInv
<1> QED
  BY <1>1, Invariance, PTL

\* For every setting the state keeps its type and the stages run in order:
\* each is entered from its predecessor and timed by its own time stamp, the
\* fan is in reverse only in a cleanout (cooling_fan_control.c 342-457).
THEOREM StagesInOrder == Spec => [](TypeOK /\ StagesEntered)
<1>1. IInv => TypeOK /\ StagesEntered
  BY DEF IInv
<1> QED
  BY <1>1, Invariance, PTL

\* For every setting of the ramp times and every bound on its turns the
\* direction is switched at standstill, if the fan was at its commanded speed
\* when the ramp down began (cooling_fan_control.c lines 365-398).
THEOREM DirectionSafe == Spec => ReversesAtStandstill
<1> DEFINE Switch == cf'.reverse # cf.reverse /\ cf'.prev = "stopped" /\ atSpeed'
           Safe == Switch => out = 0 /\ out' = 0
<1>1. IInv /\ ControlTurn => Safe
  <2> SUFFICES ASSUME IInv, ControlTurn, Switch PROVE out = 0 /\ out' = 0
    OBVIOUS
  <2>1. PICK d \in 0 .. MaxCycle, tooHot \in BOOLEAN, purge \in BOOLEAN,
             moving \in BOOLEAN, demand \in 0 .. MaxDemand :
          Turn(d, tooHot, purge, Starts(Later(now, d), tooHot, demand, purge, moving),
             Requested(Later(now, d), tooHot, demand, purge, moving))
    BY TurnLemma
  <2> DEFINE starts == Starts(Later(now, d), tooHot, demand, purge, moving)
             r == Requested(Later(now, d), tooHot, demand, purge, moving)
  <2>2. now' \in Time /\ now' = Later(now, d) /\ Turn(d, tooHot, purge, starts, r)
    BY <2>1, ClockLemma DEF Turn, TypeOK, IInv
  <2>3. IsRequested(r, starts, now', tooHot, purge)
    BY <2>2, RequestedLemma
  <2> HIDE DEF starts, r
  <2> USE DEF IInv, IsRequested
  <2>4. cf' = RunStage(r, now')
    BY <2>2 DEF Turn
  <2>5. ~BeginsRampDown(r)
    BY <2>2, <2>3, <2>4, RampDownBegins
  <2>6. atSpeed /\ ~tooHot
    BY <2>2, <2>5 DEF Turn
  <2>7. r.stage # "rampDown"
    <3> SUFFICES ASSUME r.stage = "rampDown" PROVE FALSE
      OBVIOUS
    <3>1. cf'.reverse = r.reverse /\ (cf'.prev = r.prev \/ cf'.prev = "rampDown")
      BY <2>2, <2>3, <2>4, <2>5, RampDownGoesOn
    <3>2. cf.stage = "rampDown" /\ cf.prev = "rampDown"
      BY <2>3, <2>5, <2>6 DEF RampBacked, BeginsRampDown
    <3> QED
      BY <2>3, <3>1, <3>2
  <2>8. r.stage = cf.stage /\ r.prev = cf.prev /\ r.cleanout = cf.cleanout /\ r.reverse = cf.reverse
    BY <2>3, <2>6, <2>7
  <2>9. r.stage = "stopped" /\ r.prev = "rampDown" /\ cf'.cmd = r.cmd
    BY <2>2, <2>3, <2>4, <2>7, <2>8, OtherStages DEF StagesEntered
  <2>10. out = 0 /\ cf'.cmd = 0
    BY <2>3, <2>6, <2>8, <2>9 DEF RampBacked
  <2>11. out' \in Nat /\ out' <= out
    <3>1. cf' \in CoolingFanState
      BY <2>2, <2>3, <2>4, StageType
    <3> QED
      BY <2>2, <2>10, <3>1, RampLemma DEF Turn, TypeOK, Speeds
  <2> QED
    BY <2>10, <2>11
<1>2. IInv /\ [Next]_vars => [Safe]_vars
  BY <1>1 DEF Next, SafeTurn
<1> QED
  BY <1>2, Invariance, PTL DEF Spec, ReversesAtStandstill

\* For every setting an automatic cleanout starts only after the configured
\* time in the forward run, however the clock wraps (line 334).
THEOREM CleanoutNotEarly == Spec => NoEarlyCleanout
<1> DEFINE Early == ~cf.cleanout /\ cf'.cleanout /\ ~seen'.purge
<1>1. IInv /\ ControlTurn => (Early => since' >= AutoCycle)
  <2> SUFFICES ASSUME IInv, ControlTurn, Early PROVE since' >= AutoCycle
    OBVIOUS
  <2>1. PICK d \in 0 .. MaxCycle, tooHot \in BOOLEAN, purge \in BOOLEAN,
             moving \in BOOLEAN, demand \in 0 .. MaxDemand :
          Turn(d, tooHot, purge, Starts(Later(now, d), tooHot, demand, purge, moving),
             Requested(Later(now, d), tooHot, demand, purge, moving))
    BY TurnLemma
  <2> DEFINE starts == Starts(Later(now, d), tooHot, demand, purge, moving)
             r == Requested(Later(now, d), tooHot, demand, purge, moving)
  <2>2. now' \in Time /\ now' = Later(now, d) /\ Turn(d, tooHot, purge, starts, r)
    BY <2>1, ClockLemma DEF Turn, TypeOK, IInv
  <2>3. IsRequested(r, starts, now', tooHot, purge)
    BY <2>2, RequestedLemma
  <2> HIDE DEF starts, r
  <2> USE DEF IInv, IsRequested
  <2>4. ~purge /\ since' = (IF r.stage = "runFwd" /\ cf.prev # "runFwd" THEN 0
                            ELSE Saturate(since + d, AutoCycle))
    BY <2>2 DEF Turn
  <2>5. r.cleanout
    BY <2>2, <2>3, StageCleanout DEF Turn
  <2>6. r.stage = "rampDown" /\ Elapsed(now', cf.fwdStart) >= AutoCycle
    BY <2>3, <2>4, <2>5
  <2>7. /\ Elapsed(now, cf.fwdStart) \in Nat /\ Elapsed(now', cf.fwdStart) \in Nat
        /\ Elapsed(now', cf.fwdStart) <= Elapsed(now, cf.fwdStart) + d
    BY <2>2, ClockLemma DEF TypeOK, CoolingFanState
  <2> QED
    BY <2>4, <2>6, <2>7 DEF SinceTruthful, Saturate, TypeOK
<1>2. IInv /\ SafeTurn => ~Early
  BY DEF SafeTurn, set_fanSafeState, IInv, TypeOK, CoolingFanState
<1>3. IInv /\ [Next]_vars => [Early => since' >= AutoCycle]_vars
  BY <1>1, <1>2 DEF Next
<1> QED
  BY <1>3, Invariance, PTL DEF Spec, NoEarlyCleanout

\* For every setting of the stage times and every bound on the turns a cleanout
\* is over in time, purge requests and stale time stamps notwithstanding.
THEOREM CleanoutIsTimed == Spec => []CleanoutInTime
<1>1. IInv => CleanoutInTime
  <2> SUFFICES ASSUME IInv, cf.cleanout PROVE cleaning <= CleanoutTime
    BY DEF CleanoutInTime
  <2>1. TimeLeft(cf, now) \in Int /\ TimeLeft(cf, now) >= 0
    BY TimeLeftType DEF IInv, TypeOK, CleanoutBacked
  <2> QED
    BY <2>1 DEF IInv, CleanoutBacked, TypeOK, CleanoutTime
<1> QED
  BY <1>1, Invariance, PTL
=============================================================================
