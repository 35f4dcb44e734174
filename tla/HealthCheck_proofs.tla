------------------------- MODULE HealthCheck_proofs -------------------------
(***************************************************************************)
(* The breaker's safety, proved for every set of callers, every limit and  *)
(* every interleaving of traffic, health check and administration.  The    *)
(* three invariants are inductive together: which step can leave the       *)
(* half-open state depends on the probe flag, and the flag on the state.   *)
(***************************************************************************)
EXTENDS HealthCheck, TLAPS

IInv == TypeOK /\ FlagsMatchState /\ ProbeUnderWay

USE DEF CircuitState, Call, Upstream, MaxWarmUps

-----------------------------------------------------------------------------
(* The methods of the breaker, each alone: what holds of it afterwards.    *)

BreakerOK ==
    /\ state \in CircuitState
    /\ consecutiveFailures \in 0..MaxFailures
    /\ halfOpenProbeInFlight \in BOOLEAN
    /\ sinceChange \in 0..(ResetTimeout + 1)
    /\ FlagsMatchState

\* A closed breaker admits without any change; an open one becomes half-open
\* with its probe; a half-open one, its probe being out, admits nothing.
LEMMA AllowRequestStep ==
    ASSUME BreakerOK, AllowRequest
    PROVE  /\ BreakerOK'
           /\ \/ state = "closed" /\ state' = "closed"
              \/ state = "open" /\ state' = "half_open" /\ sinceChange > ResetTimeout
  <1>1. state = "half_open" => halfOpenProbeInFlight
    BY DEF BreakerOK, FlagsMatchState
  <1>2. \/ state = "closed" /\ state' = "closed"
        \/ state = "open" /\ state' = "half_open" /\ sinceChange > ResetTimeout
    BY <1>1 DEF AllowRequest, Allowed
  <1>3. halfOpenProbeInFlight' \in BOOLEAN
    BY DEF BreakerOK, AllowRequest
  <1>4. halfOpenProbeInFlight' <=> state' = "half_open"
    BY <1>2, Zenon DEF BreakerOK, FlagsMatchState, AllowRequest
  <1>5. /\ consecutiveFailures' \in 0..MaxFailures
        /\ sinceChange' \in 0..(ResetTimeout + 1)
        /\ state' = "closed" => consecutiveFailures' < MaxFailures
    BY <1>2, BreakerAssumption DEF BreakerOK, FlagsMatchState, AllowRequest
  <1> QED
    BY <1>2, <1>3, <1>4, <1>5 DEF BreakerOK, FlagsMatchState

\* A recorded success closes a half-open breaker and changes no other state.
LEMMA RecordSuccessStep ==
    ASSUME BreakerOK, RecordSuccess
    PROVE  /\ BreakerOK'
           /\ state' # "half_open"
           /\ state = "open" => state' = "open"
  <1>1. /\ state' \in {"closed", "open"}
        /\ state = "open" => state' = "open"
        /\ sinceChange' \in 0..(ResetTimeout + 1)
    BY BreakerAssumption DEF BreakerOK, RecordSuccess, transitionTo
  <1>2. /\ consecutiveFailures' = 0
        /\ ~halfOpenProbeInFlight' /\ halfOpenProbeInFlight' \in BOOLEAN
    BY DEF RecordSuccess
  <1> QED
    BY <1>1, <1>2, BreakerAssumption DEF BreakerOK, FlagsMatchState

\* A recorded failure opens a half-open breaker and leaves an open one open.
LEMMA RecordFailureStep ==
    ASSUME BreakerOK, RecordFailure
    PROVE  /\ BreakerOK'
           /\ state' # "half_open"
           /\ state = "open" => state' = "open"
  <1>1. state' = "closed" => consecutiveFailures' < MaxFailures
    BY BreakerAssumption
       DEF BreakerOK, FlagsMatchState, RecordFailure, Opens, transitionTo
  <1>2. state' \in {"closed", "open"} /\ (state = "open" => state' = "open")
    BY DEF BreakerOK, RecordFailure, Opens, transitionTo
  <1>3. /\ consecutiveFailures' \in 0..MaxFailures
        /\ halfOpenProbeInFlight' = FALSE
        /\ sinceChange' \in 0..(ResetTimeout + 1)
    BY BreakerAssumption DEF BreakerOK, RecordFailure, transitionTo
  <1> QED
    BY <1>1, <1>2, <1>3 DEF BreakerOK, FlagsMatchState

LEMMA RecordStep ==
    ASSUME BreakerOK, NEW o \in Outcomes, Record(o)
    PROVE  /\ BreakerOK'
           /\ state' # "half_open"
           /\ state = "open" => state' = "open"
  BY RecordSuccessStep, RecordFailureStep DEF Record

-----------------------------------------------------------------------------
(* Every step preserves the invariant.                                     *)

LEMMA InitIInv == Init => IInv
  <1> SUFFICES ASSUME Init PROVE IInv
    OBVIOUS
  <1>1. /\ upstream \in Upstream /\ isHealthy \in BOOLEAN
        /\ ~halfOpenProbeInFlight /\ halfOpenProbeInFlight \in BOOLEAN
    BY DEF Init, CBInit
  <1>2. state = "closed" /\ consecutiveFailures = 0 /\ sinceChange = 0
    BY DEF Init, CBInit
  <1>3. call \in [Requests -> Call]
    BY DEF Init, CBInit
  <1>4. checkPc = "idle" /\ prevState = "closed" /\ failedChecks = 0 /\ warmUps = 0
    BY DEF Init
  <1> QED
    BY <1>1, <1>2, <1>3, <1>4, BreakerAssumption, HealthAssumption
       DEF IInv, TypeOK, CBTypeOK, FlagsMatchState, ProbeUnderWay

LEMMA TrafficStep ==
    ASSUME IInv, CBNext, UNCHANGED hcVars
    PROVE  IInv' /\ (state = "open" /\ state' # "open" =>
                        \/ state' = "half_open" /\ sinceChange > ResetTimeout
                        \/ Reset)
  <1> USE DEF IInv, TypeOK, CBTypeOK, hcVars
  <1>0. BreakerOK
    BY DEF BreakerOK
  <1>1. CASE \E r \in Requests : Begin(r)
    <2> PICK r \in Requests : Begin(r)
      BY <1>1
    <2>1. AllowRequest
      BY DEF Begin
    <2>2. /\ BreakerOK'
          /\ \/ state = "closed" /\ state' = "closed"
             \/ state = "open" /\ state' = "half_open" /\ sinceChange > ResetTimeout
      BY <1>0, <2>1, AllowRequestStep
    <2>3. state' = "half_open" => call'[r] = "probe"
      BY <2>2 DEF Begin
    <2> QED
      BY <2>2, <2>3 DEF Begin, BreakerOK, ProbeUnderWay
  <1>2. CASE \E r \in Requests, o \in Outcomes : Complete(r, o)
    <2> PICK r \in Requests, o \in Outcomes : Complete(r, o)
      BY <1>2
    <2>1. BreakerOK' /\ state' # "half_open" /\ (state = "open" => state' = "open")
      BY <1>0, RecordStep DEF Complete
    <2> QED
      BY <2>1 DEF Complete, BreakerOK, ProbeUnderWay
  <1>3. CASE Reset
    <2>1. ~halfOpenProbeInFlight' /\ halfOpenProbeInFlight' \in BOOLEAN
      BY <1>3 DEF Reset
    <2>2. state' = "closed" /\ consecutiveFailures' = 0
      BY <1>3 DEF Reset, transitionTo
    <2>3. sinceChange' \in 0..(ResetTimeout + 1)
      BY <1>3, BreakerAssumption DEF Reset, transitionTo
    <2> QED
      BY <1>3, <2>1, <2>2, <2>3, BreakerAssumption
         DEF Reset, FlagsMatchState, ProbeUnderWay
  <1>4. CASE Tick
    BY <1>4, BreakerAssumption DEF Tick, FlagsMatchState, ProbeUnderWay
  <1>5. CASE UpstreamChanges
    <2>1. upstream' \in Upstream
      BY <1>5 DEF UpstreamChanges
    <2> QED
      BY <1>5, <2>1 DEF UpstreamChanges, breaker, FlagsMatchState, ProbeUnderWay
  <1> QED
    BY <1>1, <1>2, <1>3, <1>4, <1>5 DEF CBNext

LEMMA CheckStep ==
    ASSUME IInv, Check
    PROVE  IInv' /\ (state = "open" /\ state' # "open" =>
                        state' = "half_open" /\ sinceChange > ResetTimeout)
  <1> USE DEF IInv, TypeOK, CBTypeOK
  <1>0. BreakerOK
    BY DEF BreakerOK
  <1>s. ASSUME NEW healthy \in BOOLEAN, updateStatus(healthy)
        PROVE  isHealthy' \in BOOLEAN /\ failedChecks' \in 0..FailureThreshold
    BY <1>s, HealthAssumption DEF updateStatus
  <1>1. CASE CheckReadsState
    BY <1>1 DEF CheckReadsState, GetState, cbVars, breaker, FlagsMatchState, ProbeUnderWay
  <1>2. CASE CheckAllowed
    <2>1. /\ BreakerOK'
          /\ \/ state = "closed" /\ state' = "closed"
             \/ state = "open" /\ state' = "half_open" /\ sinceChange > ResetTimeout
      BY <1>0, <1>2, AllowRequestStep DEF CheckAllowed
    <2> QED
      BY <1>2, <2>1 DEF CheckAllowed, BreakerOK, ProbeUnderWay
  <1>3. CASE CheckRefused
    BY <1>3, <1>s DEF CheckRefused, cbVars, breaker, FlagsMatchState, ProbeUnderWay
  <1>4. CASE CheckFails
    <2>1. BreakerOK' /\ state' # "half_open" /\ (state = "open" => state' = "open")
      BY <1>0, <1>4, RecordFailureStep DEF CheckFails
    <2> QED
      BY <1>4, <1>s, <2>1 DEF CheckFails, BreakerOK, ProbeUnderWay
  <1>5. CASE CheckSucceeds
    <2>1. BreakerOK' /\ state' # "half_open" /\ (state = "open" => state' = "open")
      BY <1>0, <1>5, RecordSuccessStep DEF CheckSucceeds
    <2> QED
      BY <1>5, <1>s, <2>1 DEF CheckSucceeds, BreakerOK, ProbeUnderWay
  <1>6. CASE CheckEnds
    BY <1>6 DEF CheckEnds, cbVars, breaker, FlagsMatchState, ProbeUnderWay
  <1> QED
    BY <1>1, <1>2, <1>3, <1>4, <1>5, <1>6 DEF Check

LEMMA NextIInv == IInv /\ [Next]_vars => IInv'
  <1> SUFFICES ASSUME IInv, [Next]_vars PROVE IInv'
    OBVIOUS
  <1>1. CASE CBNext /\ UNCHANGED hcVars
    BY <1>1, TrafficStep
  <1>2. CASE Check
    BY <1>2, CheckStep
  <1>3. CASE WarmUp
    BY <1>3 DEF WarmUp, IInv, TypeOK, CBTypeOK, cbVars, breaker, FlagsMatchState,
                ProbeUnderWay
  <1>4. CASE UNCHANGED vars
    BY <1>4 DEF vars, cbVars, hcVars, breaker, IInv, TypeOK, CBTypeOK,
                FlagsMatchState, ProbeUnderWay
  <1> QED
    BY <1>1, <1>2, <1>3, <1>4 DEF Next

LEMMA Invariance == Spec => []IInv
  BY InitIInv, NextIInv, PTL DEF Spec

-----------------------------------------------------------------------------

\* Every variable keeps its type.
THEOREM TypeCorrect == Spec => []TypeOK
  BY Invariance, PTL DEF IInv

\* The failure count stays under the limit while closed, and the probe flag
\* is up exactly in the half-open state.
THEOREM FlagsAlwaysMatch == Spec => []FlagsMatchState
  BY Invariance, PTL DEF IInv

\* A half-open breaker is always waiting for a result that is still to come.
THEOREM HalfOpenIsNeverStale == Spec => []ProbeUnderWay
  BY Invariance, PTL DEF IInv

\* An open breaker is left only through a probe after ResetTimeout, or Reset.
THEOREM OpenBreakerHolds == Spec => OpenHolds
  <1>1. IInv /\ [Next]_vars =>
            [state = "open" /\ state' # "open" =>
                \/ state' = "half_open" /\ sinceChange > ResetTimeout
                \/ Reset]_cbVars
    <2> SUFFICES ASSUME IInv, [Next]_vars, state = "open", state' # "open"
                 PROVE  \/ state' = "half_open" /\ sinceChange > ResetTimeout
                        \/ Reset
      OBVIOUS
    <2>1. CASE CBNext /\ UNCHANGED hcVars
      BY <2>1, TrafficStep
    <2>2. CASE Check
      BY <2>2, CheckStep
    <2>3. CASE WarmUp \/ UNCHANGED vars
      BY <2>3 DEF WarmUp, vars, cbVars, breaker
    <2> QED
      BY <2>1, <2>2, <2>3 DEF Next
  <1> QED
    BY <1>1, Invariance, PTL DEF Spec, OpenHolds

\* A half-open breaker refuses every call until its one probe is recorded, so
\* the branch of AllowRequest that would admit a further probe once
\* ProbeInterval has passed is never taken.
THEOREM ProbeIntervalNeverApplies == Spec => [](state = "half_open" => ~Allowed)
  <1>1. FlagsMatchState => (state = "half_open" => ~Allowed)
    BY DEF FlagsMatchState, Allowed
  <1> QED
    BY <1>1, FlagsAlwaysMatch, PTL
=============================================================================
