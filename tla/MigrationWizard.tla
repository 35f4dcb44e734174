--------------------------- MODULE MigrationWizard ----------------------------
(***************************************************************************)
(* src/web/src/views/MigrationWizardPage.vue and the service it drives.  A *)
(* handler runs to its next await; asks holds the requests that handlers   *)
(* wait for.  Leaving the page clears its intervals, not its handlers: one *)
(* that is still waiting goes on, on the refs of the page that is gone,    *)
(* and an interval it starts then has nobody to clear it.                  *)
(***************************************************************************)
EXTENDS MigrationService, Sequences, SequencesExt

CONSTANTS Visits,      \* bound: times the page is opened
          MaxAsks,     \* bound: requests in flight
          MaxClicks,   \* bound: clicks that send a request, and calls of others
          MaxFaults    \* bound: lost answers, crashes and failed writes
VARIABLES
    pages,       \* the refs of the page on each visit
    current,     \* the visit under way; None when the page is not open
    asks,
    clicks, faults

pageVars == <<pages, current, asks, clicks, faults>>
vars == <<serviceVars, pageVars>>

\* seen is currentPlan: its status, and whether it is at the scan; None before
\* there is one.  listed: the page holds conflicts.  timers: its intervals.
\* History: backed, the user has walked back from the result; astray, the page
\* was used out of turn (see Astray) or found at its conflicts that the plan runs.
Fresh == [step |-> 0, seen |-> None, listed |-> FALSE, timers |-> {},
          backed |-> FALSE, astray |-> FALSE]
isScanning(p) == p.seen # None /\ p.seen.status = "scanning"
scanFailed(p) == p.seen # None /\ p.seen.status = "failed" /\ p.seen.scanned
isRunning(p) == p.seen # None /\ p.seen.status \in {"running", "verifying"}
isPaused(p) == p.seen # None /\ p.seen.status = "paused"

\* The types of a page and of a request.  An answer tells the plan's state
\* (reply) or whether it has conflicts (found).
Plan == [status : PlanStatus, scanned : BOOLEAN]
Page == [step : 0..5, seen : Plan \cup {None}, listed : BOOLEAN,
         timers : SUBSET {"scan", "exec"}, backed : BOOLEAN, astray : BOOLEAN]
Ops == {"listPlans", "loadScan", "loadRun", "load", "conflicts", "readyConflicts",
        "createPlan", "scanPlan", "rescan", "scan", "scanData", "precheck", "newConflicts",
        "start", "applyRefresh", "policies", "applyStart", "pause", "refresh", "resume",
        "cancel", "cancelRefresh", "exec", "execData"}
Request == [op : Ops, visit : Visits, st : {"sent", "held", "ok", "err"},
            reply : Plan \cup {None}, found : BOOLEAN]

ASSUME WizardAssumption ==
    /\ None \notin Visits /\ None \notin Page
    /\ MaxAsks \in Nat /\ MaxClicks \in Nat /\ MaxFaults \in Nat

Ask(op, v) == [op |-> op, visit |-> v, st |-> "sent", reply |-> None, found |-> FALSE]
Asked(v, ops) == [k \in DOMAIN ops |-> Ask(ops[k], v)]

------------------------------------------------------------------------------
\* The mutant: the first step has a way back.
SetupOffersBack(p) ==
    CASE p.step = 0 -> {"prevStep", "nextStep"}
      [] p.step = 1 -> {"prevStep", "createPlan"}
      [] OTHER -> {}

\* What the steps offer; no button waits for the answer of the last click.
SetupOffers(p) ==
    CASE p.step = 0 -> {"nextStep"}     \* after a test of the connection
      [] p.step = 1 -> {"prevStep", "createPlan"}
      [] OTHER -> {}

RunOffers(p) ==
    CASE p.step = 2 -> (IF isScanning(p) THEN {} ELSE {"prevStep"})
                       \cup (IF scanFailed(p) THEN {"rescan"}
                             ELSE IF isScanning(p) THEN {} ELSE {"precheck"})
      [] p.step = 3 -> {"prevStep", "applyRefresh"}
      [] p.step = 4 -> (IF isPaused(p) THEN {"resume"} ELSE {})
                       \cup (IF isRunning(p) THEN {"pause"} ELSE {})
                       \cup (IF isRunning(p) \/ isPaused(p) THEN {"cancel"} ELSE {})
      [] p.step = 5 -> {"prevStep", "resetWizard"}
      [] OTHER -> {}

\* Requests of the visit that an interval has sent, and those of other handlers.
Ticking == {"scan", "scanData", "exec", "execData"}
Waits(v) == \E n \in DOMAIN asks : asks[n].visit = v
Busy(v) == \E n \in DOMAIN asks : asks[n].visit = v /\ asks[n].op \notin Ticking

\* Clicks nobody is kept from: a second one before the first is answered, one
\* that starts a plan over while something is still to come back, and one that
\* takes the plan further while the page still polls its scan.
Astray(v, e) ==
    \/ e = "resetWizard" /\ Waits(v)
    \/ e \notin {"prevStep", "nextStep", "resetWizard"} /\ Busy(v)
    \/ e \in {"precheck", "applyRefresh"} /\ "scan" \in pages[v].timers

Moved(p, e) ==
    CASE e = "prevStep" -> [p EXCEPT !.step = @ - 1, !.backed = @ \/ p.step = 5]
      [] e = "nextStep" -> [p EXCEPT !.step = @ + 1]
      [] e = "resetWizard" -> [Fresh EXCEPT !.astray = p.astray]  \* stops both intervals
      [] OTHER -> p

\* Clicks that send a request count.  Without a plan a handler that needs one
\* returns at once.
Click ==
    /\ current # None
    /\ LET p == pages[current] IN
       \E e \in SetupOffers(p) \cup RunOffers(p) :
         /\ pages' = [pages EXCEPT ![current] =
                         [Moved(p, e) EXCEPT !.astray = @ \/ Astray(current, e)]]
         /\ IF e \in {"prevStep", "nextStep", "resetWizard"}
            THEN UNCHANGED <<asks, clicks>>
            ELSE /\ p.seen # None \/ e = "createPlan"
                 /\ Len(asks) < MaxAsks /\ clicks < MaxClicks
                 /\ asks' = asks \o Asked(current, <<e>>)
                 /\ clicks' = clicks + 1
    /\ UNCHANGED <<serviceVars, current, faults>>

TickOps == [scan |-> {"scan", "scanData"}, exec |-> {"exec", "execData"}]
\* An interval ticks until it is cleared.  Bound: it waits for its last tick.
Tick(v, t) ==
    /\ t \in pages[v].timers /\ pages[v].seen # None
    /\ Len(asks) < MaxAsks
    /\ \A n \in DOMAIN asks : asks[n].visit # v \/ asks[n].op \notin TickOps[t]
    /\ asks' = asks \o Asked(v, <<t>>)
    /\ UNCHANGED <<serviceVars, pages, current, clicks, faults>>

Unmount ==
    /\ current # None
    /\ pages' = [pages EXCEPT ![current].timers = {}]
    /\ current' = None
    /\ UNCHANGED <<serviceVars, asks, clicks, faults>>

Mount ==
    /\ current = None /\ Len(asks) < MaxAsks
    /\ \E v \in Visits : /\ pages[v] = None
                         /\ \A w \in Visits : pages[w] = None => v <= w
                         /\ pages' = [pages EXCEPT ![v] = Fresh]
                         /\ current' = v
                         /\ asks' = asks \o Asked(v, <<"listPlans">>)
    /\ UNCHANGED <<serviceVars, clicks, faults>>

------------------------------------------------------------------------------
\* The service performs the operation, and its answer comes or is lost; or
\* it turns the operation down, or cannot be reached.  A precheck is held until
\* it has found what it writes.  A lost write of the service is a success here.
Operation(op, ok) ==
    CASE op = "createPlan" -> CreateDraftPlan
      [] op \in {"scanPlan", "rescan"} -> ScanPlan(ok)
      [] op = "precheck" -> PrecheckFinds(ok)
      [] op = "policies" -> ApplyConflictPolicies(ok)
      [] op \in {"start", "applyStart"} -> StartPlan
      [] op = "pause" -> PausePlan(ok)
      [] op = "resume" -> ResumePlan
      [] op = "cancel" -> CancelPlan(ok)
      [] OTHER -> UNCHANGED <<rows, tasks, run, active>>

Writing == {"scanPlan", "rescan", "precheck", "policies", "pause", "cancel"}

TurnsDown(op) ==
    \/ op \in {"scanPlan", "rescan"} /\ status \notin {"draft", "failed"}
    \/ op = "precheck" /\ status # "prechecking"
    \/ op = "policies" /\ status \notin {"precheck_failed", "ready"}
    \/ op \in {"start", "applyStart"} /\ status # "ready"
    \/ op = "pause" /\ active = None
    \/ op = "resume" /\ status # "paused"

TellsConflicts == {"conflicts", "newConflicts", "readyConflicts"}
TellsPlan == {"listPlans", "createPlan", "scan", "exec", "refresh", "cancelRefresh", "applyRefresh"}
\* What of the answer the handler uses.  The conflicts of a plan are some or
\* none; a precheck fails only on conflicts.
Finds(op) == IF op \in TellsConflicts THEN {c \in BOOLEAN : status = "precheck_failed" => c}
             ELSE {FALSE}
Tells(op) == IF op \in TellsPlan THEN [status |-> status', scanned |-> stage' = "scan"]
             ELSE None

Held(n) ==
    /\ asks[n].st = "sent" /\ asks[n].op = "precheck" /\ server = "up"
    /\ \A m \in DOMAIN asks : asks[m].st # "held"
    /\ PrecheckPlan
    /\ asks' = [asks EXCEPT ![n].st = "held"]
    /\ UNCHANGED <<server, pages, current, clicks, faults>>

Answered(n) ==
    \E c \in Finds(asks[n].op) :
        asks' = [asks EXCEPT ![n].st = "ok", ![n].found = c, ![n].reply = Tells(asks[n].op)]

Served(n) ==
    /\ asks[n].st = (IF asks[n].op = "precheck" THEN "held" ELSE "sent") /\ server = "up"
    /\ \/ Operation(asks[n].op, TRUE) /\ Answered(n) /\ UNCHANGED faults
       \/ /\ faults < MaxFaults /\ faults' = faults + 1
          /\ \/ Operation(asks[n].op, TRUE) /\ asks' = [asks EXCEPT ![n].st = "err"]
             \/ asks[n].op \in Writing /\ Operation(asks[n].op, FALSE) /\ Answered(n)
    /\ UNCHANGED <<server, pages, current, clicks>>

\* A precheck that failed, or that a crash has ended, comes back as an error.
Refused(n) ==
    /\ \/ asks[n].st = "sent" /\ (server # "up" \/ TurnsDown(asks[n].op))
       \/ asks[n].st = "held" /\ (server # "up" \/ scan # "checking")
    /\ asks' = [asks EXCEPT ![n].st = "err"]
    /\ UNCHANGED <<serviceVars, pages, current, clicks, faults>>

\* The operations that the wizard has no button for.
Elsewhere ==
    /\ server = "up" /\ clicks < MaxClicks
    /\ \/ (RetryFailedJobs(TRUE) \/ DeletePlan) /\ UNCHANGED faults
       \/ RetryFailedJobs(FALSE) /\ faults < MaxFaults /\ faults' = faults + 1
    /\ clicks' = clicks + 1
    /\ UNCHANGED <<server, pages, current, asks>>

------------------------------------------------------------------------------
\* A handler goes on: the page becomes p, and it asks for ops next.
Goes(n, p, ops) ==
    /\ pages' = [pages EXCEPT ![asks[n].visit] = p]
    /\ asks' = RemoveAt(asks, n) \o Asked(asks[n].visit, ops)

Ok(n) == asks[n].st = "ok"
On(n) == pages[asks[n].visit]
Op(n, O) == asks[n].op \in O
\* refreshPlan keeps the old plan when it fails.
refreshPlan(n) ==
    IF Ok(n) THEN [On(n) EXCEPT !.seen = asks[n].reply]
    ELSE On(n)
listing(p, c) == [p EXCEPT !.listed = c]
toStep(p, k) == [p EXCEPT !.step = k]
startPolling(p, t) == [p EXCEPT !.timers = @ \cup {t}]
stopPolling(p, t) == [p EXCEPT !.timers = @ \ {t}]
\* What a handler asks next, if the plan is still there.
OnPlan(n, op) == IF On(n).seen = None THEN <<>> ELSE <<op>>

\* loadRecentPlan: where a plan stands decides the step, and what else is
\* loaded before an interval may start.
loadRecentPlan(n) ==
    LET p == refreshPlan(n)
        At(k) == toStep(p, k)
        st == p.seen.status
    IN \/ st = "none" /\ Goes(n, On(n), <<>>)
       \/ st = "draft" /\ Goes(n, At(1), <<>>)
       \/ st = "scanning" /\ Goes(n, At(2), <<"loadScan">>)
       \/ st = "prechecking" /\ Goes(n, At(2), <<"load">>)
       \/ st = "precheck_failed" /\ Goes(n, At(3), <<"conflicts">>)
       \/ st = "ready" /\ Goes(n, p, <<"readyConflicts">>)
       \/ st \in {"running", "verifying"} /\ Goes(n, At(4), <<"loadRun">>)
       \/ st = "paused" /\ Goes(n, At(4), <<"load">>)
       \/ st \in Over /\ Goes(n, At(IF p.seen.scanned THEN 2 ELSE 5), <<"load">>)

\* The mutant: a failing load of a running plan's data ends the handler too.
RecentBackOrNothing(n) ==
    \/ Op(n, {"listPlans"}) /\ Ok(n) /\ loadRecentPlan(n)
    \/ Op(n, {"loadScan"}) /\ Ok(n) /\ Goes(n, startPolling(On(n), "scan"), <<>>)
    \/ Op(n, {"loadRun"}) /\ Goes(n, IF Ok(n) THEN startPolling(On(n), "exec") ELSE On(n), <<>>)
    \/ Op(n, {"load"}) /\ Goes(n, On(n), <<>>)
    \/ Op(n, {"conflicts"}) /\ Ok(n)
       /\ Goes(n, listing(On(n), asks[n].found), <<>>)

\* loadPlanData swallows its errors; the other loads end the handler.
RecentBack(n) ==
    \/ Op(n, {"listPlans"}) /\ Ok(n) /\ loadRecentPlan(n)
    \/ Op(n, {"loadScan"}) /\ Ok(n) /\ Goes(n, startPolling(On(n), "scan"), <<>>)
    \/ Op(n, {"loadRun"}) /\ Goes(n, startPolling(On(n), "exec"), <<>>)
    \/ Op(n, {"load"}) /\ Goes(n, On(n), <<>>)
    \/ Op(n, {"conflicts"}) /\ Ok(n)
       /\ Goes(n, listing(On(n), asks[n].found), <<>>)

\* createAndScan, retryScan and the tick of the scan's interval.  After an
\* await the plan may be gone from the page (resetWizard).
ScanBack(n) ==
    \/ Op(n, {"createPlan"}) /\ Ok(n) /\ Goes(n, toStep(refreshPlan(n), 2), <<"scanPlan">>)
    \/ Op(n, {"scanPlan", "rescan"}) /\ Ok(n) /\ Goes(n, startPolling(On(n), "scan"), <<>>)
    \/ Op(n, {"scan"}) /\ Goes(n, refreshPlan(n), IF refreshPlan(n).seen = None THEN <<>>
                                                  ELSE <<"scanData">>)
    \/ Op(n, {"scanData"})
       /\ Goes(n, IF On(n).seen # None /\ On(n).seen.status \in {"prechecking", "failed"}
                  THEN stopPolling(On(n), "scan") ELSE On(n), <<>>)

\* runPrecheck and applyConflicts: without conflicts the plan starts at once.
PrecheckBack(n) ==
    LET p == On(n) IN
       \/ Op(n, {"precheck"}) /\ Ok(n) /\ Goes(n, p, OnPlan(n, "newConflicts"))
       \/ Op(n, {"newConflicts", "readyConflicts"}) /\ Ok(n)
          /\ LET c == asks[n].found
                 q == toStep(listing(p, c), IF c THEN 3 ELSE 4)
             IN Goes(n, q, IF c THEN <<>> ELSE OnPlan(n, "start"))
       \/ Op(n, {"start"}) /\ Ok(n) /\ Goes(n, startPolling(p, "exec"), <<>>)
       \/ Op(n, {"applyRefresh"})
          /\ LET q == [refreshPlan(n) EXCEPT !.astray = @ \/ isRunning(refreshPlan(n))]
             IN Goes(n, q, IF q.seen = None THEN <<>>
                           ELSE IF q.listed THEN <<"policies">> ELSE <<"applyStart">>)
       \/ Op(n, {"policies"}) /\ Ok(n) /\ Goes(n, p, OnPlan(n, "applyStart"))
       \/ Op(n, {"applyStart"}) /\ Ok(n) /\ Goes(n, startPolling(toStep(p, 4), "exec"), <<>>)

\* Whether the run's interval has seen the end; the mutant knows one end only.
SeenDone(p) == p.seen # None /\ p.seen.status = "completed"
SeenOver(p) == p.seen # None /\ p.seen.status \in Over

\* pausePlan, resumePlan, cancelPlan and the tick of the run's interval.
ExecBack(n) ==
    LET p == On(n) IN
       \/ Op(n, {"pause"}) /\ Ok(n) /\ Goes(n, p, OnPlan(n, "refresh"))
       \/ Op(n, {"refresh"}) /\ Goes(n, refreshPlan(n), <<>>)
       \/ Op(n, {"resume"}) /\ Ok(n) /\ Goes(n, startPolling(p, "exec"), <<>>)
       \/ Op(n, {"cancel"}) /\ Ok(n)
          /\ LET q == stopPolling(p, "exec")
             IN IF q.seen = None THEN Goes(n, toStep(q, 5), <<>>)
                ELSE Goes(n, q, <<"cancelRefresh">>)
       \/ Op(n, {"cancelRefresh"}) /\ Goes(n, toStep(refreshPlan(n), 5), <<>>)
       \/ Op(n, {"exec"}) /\ Goes(n, refreshPlan(n), IF refreshPlan(n).seen = None THEN <<>>
                                                     ELSE <<"execData">>)
       \/ Op(n, {"execData"})
          /\ Goes(n, IF SeenOver(p) THEN toStep(stopPolling(p, "exec"), 5) ELSE p, <<>>)

\* What only shows a message.
Fails(n) ==
    /\ ~Ok(n)
    /\ ~Op(n, {"load", "loadRun", "scan", "scanData", "applyRefresh", "refresh",
               "cancelRefresh", "exec", "execData"})
    /\ Goes(n, On(n), <<>>)

Back(n) ==
    /\ asks[n].st \in {"ok", "err"}
    /\ RecentBack(n) \/ ScanBack(n) \/ PrecheckBack(n) \/ ExecBack(n) \/ Fails(n)
    /\ UNCHANGED <<serviceVars, current, clicks, faults>>

------------------------------------------------------------------------------
Init ==
    /\ ServiceInit
    /\ pages = [v \in Visits |-> None]
    /\ current = None
    /\ asks = <<>>
    /\ clicks = 0 /\ faults = 0

Answers == \E n \in DOMAIN asks : Held(n) \/ Served(n) \/ Refused(n)
Handlers == \E n \in DOMAIN asks : Back(n)
Ticks == \E v \in Visits : pages[v] # None /\ \E t \in {"scan", "exec"} : Tick(v, t)

Next ==
    \/ Background /\ UNCHANGED pageVars
    \/ Failures /\ faults < MaxFaults /\ faults' = faults + 1
                /\ UNCHANGED <<pages, current, asks, clicks>>
    \/ Click \/ Ticks \/ Mount \/ Unmount \/ Elsewhere \/ Answers \/ Handlers

Spec == Init /\ [][Next]_vars /\ ServiceFairness
        /\ WF_vars(Ticks) /\ WF_vars(Answers) /\ WF_vars(Handlers)

------------------------------------------------------------------------------
\* The page's refs and the requests have their types: the steps stay within the
\* six there are, and a page that shows a plan shows one that was created.
WizardTypeOK ==
    /\ pages \in [Visits -> Page \cup {None}]
    /\ \A v \in Visits : pages[v] # None =>
          pages[v].seen = None \/ pages[v].seen.status # "none"
    /\ current \in Visits \cup {None} /\ (current # None => pages[current] # None)
    /\ asks \in Seq(Request) /\ Len(asks) <= MaxAsks
    /\ clicks \in 0..MaxClicks /\ faults \in 0..MaxFaults

\* A page that shows a running plan keeps watching it: whichever way it came to
\* the running step (a start, a resume, a plan found when the page opened, a
\* refused or lost request in between), the run's interval is on, or a handler
\* of its own is still on the way.  Not for a user who has walked back from the
\* result or gone astray: there the page does end up with nobody watching.
WatchedWhileRunning ==
    current # None =>
        LET p == pages[current] IN
        p.step = 4 /\ isRunning(p) /\ ~p.backed /\ ~p.astray =>
            "exec" \in p.timers \/ Busy(current)

\* The page notices the end: it does not for ever show a plan that is over as
\* running, or poll it, unless the user has walked back from the result.
Unaware ==
    /\ current # None /\ status \in Over
    /\ LET p == pages[current]
       IN /\ ~p.backed /\ p.seen # None
          /\ (p.step = 4 /\ isRunning(p)) \/ "exec" \in p.timers
OverIsNoticed == Unaware ~> ~Unaware
==============================================================================
