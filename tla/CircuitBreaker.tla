--------------------------- MODULE CircuitBreaker ---------------------------
(***************************************************************************)
(* One upstream's circuit breaker (internal/proxy/circuit_breaker.go) and  *)
(* the calls the runtime makes through its decorators                      *)
(* (internal/core/runtime/circuit_breaker.go).  Every method of the        *)
(* breaker runs under cb.mu, so each is one step; a decorated call is two  *)
(* steps, AllowRequest before the upstream is called and one Record*       *)
(* after it returned, with anything in between.                            *)
(*                                                                         *)
(* Time is the age of lastStateChange, in ticks, saturating one tick past  *)
(* ResetTimeout: no guard tells larger ages apart.  consecutiveFailures    *)
(* saturates at MaxFailures for the same reason.                           *)
(***************************************************************************)
EXTENDS Naturals

CONSTANTS
    Requests,       \* the goroutines that may call the upstream
    MaxFailures,    \* consecutive failures that open the breaker
    ResetTimeout,   \* ticks an open breaker stays open
    ProbeInterval   \* ticks between two probes of a half-open breaker

ASSUME BreakerAssumption ==
    /\ MaxFailures \in Nat \ {0}
    /\ ResetTimeout \in Nat
    /\ ProbeInterval \in 0..ResetTimeout

VARIABLES
    state,                  \* cb.state
    consecutiveFailures,    \* cb.consecutiveFailures
    halfOpenProbeInFlight,  \* cb.halfOpenProbeInFlight
    sinceChange,            \* time.Since(cb.lastStateChange)
    call,                   \* per goroutine: what it was admitted as
    upstream                \* how the upstream answers (its environment)

breaker == <<state, consecutiveFailures, halfOpenProbeInFlight, sinceChange>>
cbVars == <<breaker, call, upstream>>

CircuitState == {"closed", "open", "half_open"}

\* "up": every answer is a success or a 404, and in time.  "down": no answer,
\* or only too late.  "mixed": anything, a 401, 403, 429 or 5xx included, to
\* the calls and to the health check independently.
Upstream == {"up", "mixed", "down"}

\* "traffic" was admitted by a closed breaker, "probe" by any other.
Call == {"none", "traffic", "probe"}

CBTypeOK ==
    /\ state \in CircuitState
    /\ consecutiveFailures \in 0..MaxFailures
    /\ halfOpenProbeInFlight \in BOOLEAN
    /\ sinceChange \in 0..(ResetTimeout + 1)
    /\ call \in [Requests -> Call]
    /\ upstream \in Upstream

CBInit ==
    /\ state = "closed"
    /\ consecutiveFailures = 0
    /\ halfOpenProbeInFlight = FALSE
    /\ sinceChange = 0
    /\ call = [r \in Requests |-> "none"]
    /\ upstream \in Upstream

-----------------------------------------------------------------------------
(* The breaker's methods.                                                  *)

\* transitionTo: nothing happens when the state is already the new one.
transitionTo(new) ==
    /\ state' = new
    /\ sinceChange' = IF state = new THEN sinceChange ELSE 0

\* AllowRequest's answer ...
Allowed ==
    \/ state = "closed"
    \/ state = "open" /\ sinceChange > ResetTimeout
    \/ /\ state = "half_open"
       /\ ~halfOpenProbeInFlight
       /\ sinceChange >= ProbeInterval

\* ... and what it does when the answer is yes.
AllowRequest ==
    /\ Allowed
    /\ state' = IF state = "open" THEN "half_open" ELSE state
    /\ halfOpenProbeInFlight' = IF state = "closed" THEN halfOpenProbeInFlight ELSE TRUE
    /\ sinceChange' = IF state = "closed" THEN sinceChange ELSE 0
    /\ UNCHANGED consecutiveFailures

\* The mutant closes an open breaker on a success that was only late.
RecordSuccessClosesAlways ==
    /\ consecutiveFailures' = 0
    /\ halfOpenProbeInFlight' = FALSE
    /\ transitionTo("closed")

RecordSuccess ==
    /\ consecutiveFailures' = 0
    /\ halfOpenProbeInFlight' = FALSE
    /\ transitionTo(IF state = "half_open" THEN "closed" ELSE state)

\* RecordFailure and RecordTimeout differ in a statistic only.  The mutant
\* opens one failure too late.
OpensOneTooLate(failures) ==
    \/ state = "half_open"
    \/ state = "closed" /\ failures > MaxFailures

Opens(failures) ==
    \/ state = "half_open"
    \/ state = "closed" /\ failures >= MaxFailures

\* The mutant counts one failure twice.
RecordFailureTwice ==
    /\ consecutiveFailures' = consecutiveFailures + 2
    /\ halfOpenProbeInFlight' = FALSE
    /\ transitionTo(IF Opens(consecutiveFailures + 2) THEN "open" ELSE state)

RecordFailure ==
    LET failures == consecutiveFailures + 1 IN
    /\ consecutiveFailures' =
           IF failures > MaxFailures THEN MaxFailures ELSE failures
    /\ halfOpenProbeInFlight' = FALSE
    /\ transitionTo(IF Opens(failures) THEN "open" ELSE state)

\* Reset, called by the administration API.
Reset ==
    /\ transitionTo("closed")
    /\ consecutiveFailures' = 0
    /\ halfOpenProbeInFlight' = FALSE
    /\ UNCHANGED <<call, upstream>>

\* GetState reports an open breaker whose timeout has passed as half-open.
GetState ==
    IF state = "open" /\ sinceChange > ResetTimeout THEN "half_open" ELSE state

-----------------------------------------------------------------------------
(* The decorated calls.                                                    *)

\* A refused call returns CircuitOpenError and changes nothing.
Begin(r) ==
    /\ call[r] = "none"
    /\ AllowRequest
    /\ call' = [call EXCEPT ![r] = IF state = "closed" THEN "traffic" ELSE "probe"]
    /\ UNCHANGED upstream

\* "rejected" is a 4xx other than 404, "cancelled" the client that went away:
\* its context ends the upstream call with an error.
Outcomes == {"ok", "notfound", "rejected", "timeout", "error", "cancelled"}

\* The client may go away whatever the upstream does.  Open passes any status
\* on as a success, so "ok" does not need an upstream that works.
PossibleOutcome(o) ==
    \/ o = "cancelled"
    \/ upstream = "up"    /\ o \in {"ok", "notfound"}
    \/ upstream = "down"  /\ o \in {"timeout", "error"}
    \/ upstream = "mixed"

\* The mutant leaves a 404 unrecorded, as FetchMetadata's comment still says.
RecordExceptNotFound(o) ==
    CASE o = "ok"       -> RecordSuccess
      [] o = "notfound" -> UNCHANGED breaker
      [] OTHER          -> RecordFailure

\* A 404 is the answer of a working upstream; every other error, the 4xx and
\* the client's own cancellation included, goes through recordFailure.
Record(o) ==
    IF o \in {"ok", "notfound"} THEN RecordSuccess ELSE RecordFailure

Complete(r, o) ==
    /\ call[r] # "none"
    /\ PossibleOutcome(o)
    /\ Record(o)
    /\ call' = [call EXCEPT ![r] = "none"]
    /\ UNCHANGED upstream

-----------------------------------------------------------------------------
(* The environment.                                                        *)

Tick ==
    /\ sinceChange <= ResetTimeout
    /\ sinceChange' = sinceChange + 1
    /\ UNCHANGED <<state, consecutiveFailures, halfOpenProbeInFlight, call, upstream>>

UpstreamChanges ==
    /\ upstream' \in Upstream
    /\ UNCHANGED <<breaker, call>>

CBNext ==
    \/ \E r \in Requests : Begin(r)
    \/ \E r \in Requests, o \in Outcomes : Complete(r, o)
    \/ Reset
    \/ Tick
    \/ UpstreamChanges

CBSpec == CBInit /\ [][CBNext]_cbVars

-----------------------------------------------------------------------------
(* Safety.                                                                 *)

\* A closed breaker has not yet seen MaxFailures failures in a row, and the
\* probe flag is up exactly in the half-open state: results of calls admitted
\* before the last state change arrive at any time and must not break this.
FlagsMatchState ==
    /\ state = "closed" => consecutiveFailures < MaxFailures
    /\ halfOpenProbeInFlight <=> state = "half_open"

\* An open breaker stays open for ResetTimeout; it then admits one probe.
\* Only an administrator's Reset closes it directly, never the late success
\* of a call that was admitted before it opened.
OpenHolds ==
    [][state = "open" /\ state' # "open" =>
          \/ state' = "half_open" /\ sinceChange > ResetTimeout
          \/ Reset]_cbVars
=============================================================================
