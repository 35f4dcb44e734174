---------------------------- MODULE HealthCheck -----------------------------
(***************************************************************************)
(* HealthCheckService (internal/proxy/health_check.go) for one proxy       *)
(* repository: the periodic check shares the repository's breaker with the *)
(* traffic of CircuitBreaker, keeps the health status, and triggers the    *)
(* cache warm-up (OnRecovery) when a check closed the breaker.             *)
(*                                                                         *)
(* checkRepoHealth reads the breaker twice and records to it once, each    *)
(* under cb.mu only, so traffic interleaves between any two of its steps.  *)
(***************************************************************************)
EXTENDS CircuitBreaker

CONSTANT FailureThreshold   \* failed checks that make IsHealthy false

ASSUME HealthAssumption == FailureThreshold \in Nat \ {0}

VARIABLES
    checkPc,        \* where checkRepoHealth is
    prevState,      \* the breaker's state read before the check
    isHealthy,      \* status.IsHealthy
    failedChecks,   \* status.ConsecutiveFailures, saturating at the threshold
    warmUps         \* OnRecovery goroutines started and not yet finished

hcVars == <<checkPc, prevState, isHealthy, failedChecks, warmUps>>
vars == <<cbVars, hcVars>>

MaxWarmUps == 1   \* bound: warm-ups under way that are told apart

TypeOK ==
    /\ CBTypeOK
    /\ checkPc \in {"idle", "allow", "calling", "recorded"}
    /\ prevState \in CircuitState
    /\ isHealthy \in BOOLEAN
    /\ failedChecks \in 0..FailureThreshold
    /\ warmUps \in 0..MaxWarmUps

Init ==
    /\ CBInit
    /\ checkPc = "idle"
    /\ prevState = "closed"
    /\ isHealthy = FALSE
    /\ failedChecks = 0
    /\ warmUps = 0

-----------------------------------------------------------------------------

\* updateStatus
updateStatus(healthy) ==
    /\ isHealthy' = healthy
    /\ failedChecks' = CASE healthy -> 0
                         [] failedChecks < FailureThreshold -> failedChecks + 1
                         [] OTHER -> failedChecks

\* The ticker fires: the state before the check is read.
CheckReadsState ==
    /\ checkPc = "idle"
    /\ prevState' = GetState
    /\ checkPc' = "allow"
    /\ UNCHANGED <<cbVars, isHealthy, failedChecks, warmUps>>

CheckAllowed ==
    /\ checkPc = "allow"
    /\ AllowRequest
    /\ checkPc' = "calling"
    /\ UNCHANGED <<call, upstream, prevState, isHealthy, failedChecks, warmUps>>

\* The breaker refused: the repository is unhealthy without being asked.
CheckRefused ==
    /\ checkPc = "allow"
    /\ ~Allowed
    /\ updateStatus(FALSE)
    /\ checkPc' = "idle"
    /\ UNCHANGED <<cbVars, prevState, warmUps>>

CheckFails ==
    /\ checkPc = "calling"
    /\ upstream # "up"
    /\ RecordFailure
    /\ updateStatus(FALSE)
    /\ checkPc' = "idle"
    /\ UNCHANGED <<call, upstream, prevState, warmUps>>

\* 2xx, 3xx and 4xx answers are all healthy.
CheckSucceeds ==
    /\ checkPc = "calling"
    /\ upstream # "down"
    /\ RecordSuccess
    /\ updateStatus(TRUE)
    /\ checkPc' = "recorded"
    /\ UNCHANGED <<call, upstream, prevState, warmUps>>

\* The second GetState: OnRecovery starts only if the breaker is closed now
\* and was not when the check began.
Recovered == prevState \in {"open", "half_open"} /\ GetState = "closed"

CheckEnds ==
    /\ checkPc = "recorded"
    /\ warmUps' = IF Recovered THEN MaxWarmUps ELSE warmUps
    /\ checkPc' = "idle"
    /\ UNCHANGED <<cbVars, prevState, isHealthy, failedChecks>>

\* main.go's OnRecovery: WarmUp drops the repository's cached failures.
WarmUp ==
    /\ warmUps > 0
    /\ warmUps' = warmUps - 1
    /\ UNCHANGED <<cbVars, checkPc, prevState, isHealthy, failedChecks>>

Check == CheckReadsState \/ CheckAllowed \/ CheckRefused \/ CheckFails
             \/ CheckSucceeds \/ CheckEnds

Next ==
    \/ CBNext /\ UNCHANGED hcVars
    \/ Check
    \/ WarmUp

\* The ticker keeps checking, goroutines run, clocks advance and every call
\* returns (all of them carry timeouts).  Nothing makes traffic arrive, an
\* administrator act or the upstream change.
Fairness ==
    /\ WF_vars(Check)
    /\ WF_vars(WarmUp)
    /\ WF_vars(Tick /\ UNCHANGED hcVars)
    /\ \A r \in Requests :
           WF_vars((\E o \in Outcomes : Complete(r, o)) /\ UNCHANGED hcVars)

Spec == Init /\ [][Next]_vars /\ Fairness

-----------------------------------------------------------------------------

\* IsHealthy
IsHealthy == isHealthy /\ failedChecks < FailureThreshold

\* The half-open breaker's probe is under way, as traffic or as the check
\* itself: whichever of them got it will record a result.
ProbeUnderWay ==
    state = "half_open" =>
        checkPc = "calling" \/ \E r \in Requests : call[r] = "probe"

NoClientGoesAway == [][\A r \in Requests : ~Complete(r, "cancelled")]_vars

\* However the results of old calls are ordered, once the upstream answers
\* every call for good and no client cuts its call short any more, the breaker
\* closes and stays closed, and the repository is reported healthy.  Neither
\* hypothesis can go: a 4xx answer and a cancelled client are recorded as
\* failures, and each of them can be the half-open breaker's one probe while
\* the health check, refused meanwhile, never gets to report its success.
RecoversForGood ==
    <>[](upstream = "up") /\ <>NoClientGoesAway
        => <>[](state = "closed" /\ IsHealthy)
=============================================================================
