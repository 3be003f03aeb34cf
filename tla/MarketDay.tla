------------------------------ MODULE MarketDay ------------------------------
(***************************************************************************)
(* The days of the markets: a daily session is created for every market,   *)
(* tasks move it through its phases, administrators lock, unlock, cancel   *)
(* and edit, results are declared, the session is settled, and at each     *)
(* instant bets are admitted or not.                                       *)
(*                                                                         *)
(* Time is a number of instants, a day is DayLength of them.  Requests and *)
(* task handlers read a document and write it in two steps; the session of *)
(* a market is created in a transaction, its tasks are stored before the   *)
(* transaction commits and whether or not it does.                         *)
(***************************************************************************)
EXTENDS Integers, Sequences, FiniteSets

CONSTANTS
    Markets,
    Offered,        \* of a market: [open, close, active, days] it is created with
    Edits,          \* changes of a market asked for, records of some of its fields
    Days,           \* 1 .. the last day
    DayLength, Grace,
    Runs,           \* runs of the task runner that may overlap
    MaxRequests,    \* bound: requests of the administration
    MaxInFlight,    \* bound: requests between reading and writing
    MaxJobs,        \* bound: starts of a creation job
    MaxFaults       \* bound: tasks not stored, transactions aborted, handlers failed,
                    \* deaths of the process

VARIABLES
    now,
    market,         \* the document of a market, NoMarket before it is created
    sessions,       \* of all markets and days, in the order of their ids
    processing,     \* the sessions whose settlementStatus is PROCESSING
    tasks,
    jobs,           \* the markets each creation job still has to create a session for
    runs,           \* what a run of the task runner has fetched and is doing
    requests,       \* requests that have read and not yet written
    count           \* [requests, jobs, faults] so far

vars == <<now, market, sessions, processing, tasks, jobs, runs, requests, count>>

ASSUME DayAssumption ==
    /\ DayLength \in Nat \ {0} /\ Grace \in Nat
    /\ Days = 1 .. Cardinality(Days) /\ Cardinality(Days) \in Nat \ {0}
    /\ \A m \in Markets : /\ {"open", "close"} \subseteq DOMAIN Offered[m]
                          /\ Offered[m].open \in Int /\ Offered[m].close \in Int
    /\ \A fields \in Edits : \A f \in {"open", "close"} \intersect DOMAIN fields : fields[f] \in Int

Modes == {"open", "close"}
Running == {"open_running", "close_running"}
Never == 0
NoMarket == [active |-> FALSE]
Idle == [todo |-> {}, doing |-> 0, target |-> "none"]
JobNames == {"cron", "admin"}

Init ==
    /\ now = 0
    /\ market = [m \in Markets |-> NoMarket]
    /\ sessions = <<>>
    /\ processing = {}
    /\ tasks = <<>>
    /\ jobs = [j \in JobNames |-> {}]
    /\ runs = [r \in Runs |-> Idle]
    /\ requests = {}
    /\ count = [requests |-> 0, jobs |-> 0, faults |-> 0]

SessionDate == now \div DayLength + 1
BuildTime(day, t) == (day - 1) * DayLength + t

\* Bound: a creation job and its transactions end within an instant.
Tick ==
    /\ now + 1 < Cardinality(Days) * DayLength
    /\ \A j \in JobNames : jobs[j] = {}
    /\ \A nr \in DOMAIN sessions : sessions[nr].stored # "no"
    /\ now' = now + 1
    /\ UNCHANGED <<market, sessions, processing, tasks, jobs, runs, requests, count>>

Fault ==
    /\ count.faults < MaxFaults
    /\ count' = [count EXCEPT !.faults = @ + 1]

-----------------------------------------------------------------------------
(* Markets *)

ValidTiming(doc) == doc.open < doc.close

CreateMarket(m) ==
    /\ market[m] = NoMarket
    /\ ValidTiming(Offered[m])
    /\ market' = [market EXCEPT ![m] = Offered[m]]
    /\ UNCHANGED <<now, processing, sessions, tasks, jobs, runs, requests, count>>

DeleteMarket(m) ==
    /\ market[m] # NoMarket
    /\ count.requests < MaxRequests
    /\ count' = [count EXCEPT !.requests = @ + 1]
    /\ market' = [market EXCEPT ![m].active = FALSE]
    /\ UNCHANGED <<now, processing, sessions, tasks, jobs, runs, requests>>

Ask(request) ==
    /\ count.requests < MaxRequests
    /\ Cardinality(requests) < MaxInFlight
    /\ request \notin requests
    /\ count' = [count EXCEPT !.requests = @ + 1]
    /\ requests' = requests \union {request}
    /\ UNCHANGED <<now, processing, market, sessions, tasks, jobs, runs>>

Overridden(doc, fields) ==
    [f \in DOMAIN doc |-> IF f \in DOMAIN fields THEN fields[f] ELSE doc[f]]

AskEditMarket(m) ==
    \E fields \in Edits :
       LET next == Overridden(market[m], fields)
       IN  /\ market[m] # NoMarket
           /\ {"open", "close"} \intersect DOMAIN fields # {} => ValidTiming(next)
           /\ Ask([kind |-> "edit", market |-> m,
                   was |-> market[m], next |-> next])

\* Saving a document writes the fields that differ from what was read.
SaveMarket(q) ==
    /\ market' = [market EXCEPT ![q.market] =
                    [f \in DOMAIN @ |-> IF q.next[f] # q.was[f] THEN q.next[f] ELSE @[f]]]
    /\ UNCHANGED sessions

-----------------------------------------------------------------------------
(* Creation of the sessions of a day *)

Stored == {nr \in DOMAIN sessions : sessions[nr].stored = "yes"}
SessionsOf(m, day) == {nr \in Stored : sessions[nr].market = m /\ sessions[nr].day = day}

Declared(nr, mode) == sessions[nr].declared[mode] # Never

\* Sessions of any day whose results are still awaited; today's are among them.
Awaited == {nr \in Stored : /\ sessions[nr].status = "active"
                            /\ sessions[nr].till >= now
                            /\ \E mode \in Modes : ~Declared(nr, mode)}

AllDeclared == Awaited = {}

\* The cron job waits for results, the request of an administrator does not.
StartJob(j) ==
    /\ jobs[j] = {}
    /\ count.jobs < MaxJobs
    /\ j = "cron" => AllDeclared
    /\ jobs' = [jobs EXCEPT ![j] =
                  {[market |-> m, doc |-> market[m]] : m \in {x \in Markets : market[x].active}}]
    /\ count' = [count EXCEPT !.jobs = @ + 1]
    /\ UNCHANGED <<now, processing, market, sessions, tasks, runs, requests>>

NoTimingCheck(doc) == TRUE                                      \* Mutant
CanRun(doc) == doc.open > 0 /\ doc.close > doc.open

SkipMarket(j, e) ==
    /\ \/ SessionsOf(e.market, SessionDate) # {}
       \/ ~e.doc.days[SessionDate]
       \/ ~CanRun(e.doc)
    /\ jobs' = [jobs EXCEPT ![j] = @ \ {e}]
    /\ UNCHANGED <<now, processing, market, sessions, tasks, runs, requests, count>>

NewSession(e) ==
    LET close == BuildTime(SessionDate, e.doc.close)
    IN  [market |-> e.market, day |-> SessionDate, stored |-> "no",
         open |-> BuildTime(SessionDate, e.doc.open), close |-> close, till |-> close + Grace,
         status |-> "active", phase |-> "open_running", declared |-> [m \in Modes |-> Never]]

NewTask(type, nr, at) ==
    [type |-> type, nr |-> nr, at |-> at, status |-> "pending", attempts |-> 0]

\* Up to the commit; a task that cannot be stored is left out.
InsertSession(j, e) ==
    LET nr  == Len(sessions) + 1
        new == NewSession(e)
        two == <<NewTask("phase", nr, new.open), NewTask("lock", nr, new.close)>>
    IN  /\ SessionsOf(e.market, SessionDate) = {}
        /\ e.doc.days[SessionDate]
        /\ CanRun(e.doc)
        /\ sessions' = Append(sessions, new)
        /\ jobs' = [jobs EXCEPT ![j] = @ \ {e}]
        /\ \/ tasks' = tasks \o two /\ UNCHANGED count
           \/ \E i \in 1 .. 2 : tasks' = Append(tasks, two[i]) /\ Fault
        /\ UNCHANGED <<now, processing, market, runs, requests>>

\* The unique index on market and day.
NoIndex(s) == FALSE                                             \* Mutant
Duplicate(s) == SessionsOf(s.market, s.day) # {}

CommitSession(nr) ==
    /\ sessions[nr].stored = "no"
    /\ ~Duplicate(sessions[nr])
    /\ sessions' = [sessions EXCEPT ![nr].stored = "yes"]
    /\ UNCHANGED <<now, processing, market, tasks, jobs, runs, requests, count>>

AbortSession(nr) ==
    /\ sessions[nr].stored = "no"
    /\ IF Duplicate(sessions[nr]) THEN UNCHANGED count ELSE Fault
    /\ sessions' = [sessions EXCEPT ![nr].stored = "aborted"]
    /\ UNCHANGED <<now, processing, market, tasks, jobs, runs, requests>>

-----------------------------------------------------------------------------
(* Phases *)

IsActive(nr) == nr \in Stored /\ sessions[nr].status = "active"

UnlocksToClose(nr) == "close_running"                           \* Mutant
UnlockedPhase(nr) == IF now < sessions[nr].open THEN "open_running" ELSE "close_running"

\* The phase a lock would move the session to: a closed market is opened again.
LockTarget(nr) ==
    CASE ~IsActive(nr) -> "none"
      [] sessions[nr].phase = "market_closed" -> UnlockedPhase(nr)
      [] sessions[nr].phase \in Running -> "market_closed"
      [] OTHER -> "none"

PhaseUnfiltered(nr, phase) ==                                   \* Mutant
    [sessions EXCEPT ![nr].phase = phase]
PhaseSet(nr, phase) ==
    IF phase = "none" \/ ~IsActive(nr) THEN sessions
    ELSE [sessions EXCEPT ![nr].phase = phase]

AskLock(nr) ==
    /\ LockTarget(nr) # "none"
    /\ Ask([kind |-> "lock", session |-> nr, phase |-> LockTarget(nr)])

WriteLock(q) ==
    /\ sessions' = PhaseSet(q.session, q.phase)
    /\ UNCHANGED market

\* No cancellation while a settlement is processing.
AskCancel(nr) ==
    /\ nr \in Stored
    /\ sessions[nr].status # "cancelled"
    /\ nr \notin processing
    /\ Ask([kind |-> "cancel", session |-> nr,
            phase |-> IF sessions[nr].status = "settled" THEN sessions[nr].phase
                      ELSE "market_closed"])

WriteCancel(q) ==
    /\ sessions' = IF sessions[q.session].status = "cancelled" THEN sessions
                   ELSE [sessions EXCEPT ![q.session].status = "cancelled",
                                         ![q.session].phase = q.phase]
    /\ UNCHANGED market

-----------------------------------------------------------------------------
(* Tasks *)

MaxAttempts(type) == IF type = "phase" THEN 2 ELSE 3

Due == {i \in DOMAIN tasks : tasks[i].status = "pending" /\ tasks[i].at <= now}

InTurn(i, j) == tasks[i].at < tasks[j].at \/ (tasks[i].at = tasks[j].at /\ i < j)

Fetch(r) ==
    /\ runs[r] = Idle
    /\ Due # {}
    /\ runs' = [runs EXCEPT ![r].todo = {[task |-> i, attempts |-> tasks[i].attempts] : i \in Due}]
    /\ UNCHANGED <<now, processing, market, sessions, tasks, jobs, requests, count>>

Fetched(r) == {e.task : e \in runs[r].todo}

\* The first that is left is claimed, whatever another run has done with it, and
\* its handler reads.
Take(r) ==
    /\ runs[r].doing = 0
    /\ \E i \in Fetched(r) :
          /\ \A j \in Fetched(r) \ {i} : InTurn(i, j)
          /\ tasks' = [tasks EXCEPT ![i].status = "processing"]
          /\ runs' = [runs EXCEPT ![r].doing = i, ![r].target =
                         IF tasks[i].type = "phase" THEN "close_running"
                         ELSE LockTarget(tasks[i].nr)]
    /\ UNCHANGED <<now, processing, market, sessions, jobs, requests, count>>

Rest(r) == [Idle EXCEPT !.todo = {e \in runs[r].todo : e.task # runs[r].doing}]

Finish(r) ==
    /\ runs[r].doing # 0
    /\ LET i == runs[r].doing
       IN  /\ sessions' = PhaseSet(tasks[i].nr, runs[r].target)
           /\ tasks' = [tasks EXCEPT ![i].status = "completed"]
    /\ runs' = [runs EXCEPT ![r] = Rest(r)]
    /\ UNCHANGED <<now, processing, market, jobs, requests, count>>

GiveUpAtOnce(type, attempts) == "failed"                        \* Mutant
AfterFailure(type, attempts) == IF attempts >= MaxAttempts(type) THEN "failed" ELSE "pending"

Fail(r) ==
    /\ runs[r].doing # 0
    /\ Fault
    /\ \E e \in runs[r].todo :
          LET i == e.task
              n == e.attempts + 1
          IN  /\ i = runs[r].doing
              /\ tasks' = [tasks EXCEPT ![i].attempts = n, ![i].status = AfterFailure(tasks[i].type, n)]
    /\ runs' = [runs EXCEPT ![r] = Rest(r)]
    /\ UNCHANGED <<now, processing, market, sessions, jobs, requests>>

\* The process dies: its jobs, runs and requests with it, open transactions
\* abort, a claimed task stays claimed; a settlement is a stored task.
Crash ==
    /\ Fault
    /\ sessions' = [nr \in DOMAIN sessions |->
                      IF sessions[nr].stored = "no" THEN [sessions[nr] EXCEPT !.stored = "aborted"]
                      ELSE sessions[nr]]
    /\ jobs' = [j \in JobNames |-> {}]
    /\ runs' = [r \in Runs |-> Idle]
    /\ requests' = {q \in requests : q.kind = "settle"}
    /\ UNCHANGED <<now, processing, market, tasks>>

-----------------------------------------------------------------------------
(* Results and bets *)

AnyTime(nr, mode) == TRUE                                       \* Mutant
PhaseEnded(nr, mode) == now >= sessions[nr][mode]

DeclarationPhases(mode) ==
    IF mode = "open" THEN Running \union {"market_closed"} ELSE {"close_running", "market_closed"}

\* One transaction; the settlement of the close result starts with it.
DeclareResult(nr, mode) ==
    /\ IsActive(nr)
    /\ sessions[nr].phase \in DeclarationPhases(mode)
    /\ ~Declared(nr, mode)
    /\ mode = "close" => Declared(nr, "open")
    /\ PhaseEnded(nr, mode)
    /\ sessions' = [sessions EXCEPT ![nr].declared[mode] = now]
    /\ requests' = requests \union
         IF mode = "close" THEN {[kind |-> "settle", session |-> nr]} ELSE {}
    /\ processing' = processing \union {nr}
    /\ UNCHANGED <<now, market, tasks, jobs, runs, count>>

\* The settlement of the open result is completed, or that of the close result
\* is, before it closes the session, or one of them fails.
EndPass(nr) ==
    /\ nr \in processing
    /\ processing' = processing \ {nr}
    /\ UNCHANGED <<now, market, sessions, tasks, jobs, runs, requests, count>>

\* markSettled: whatever the status has become, but only one time.
WriteSettled(q) ==
    /\ q.session \notin processing
    /\ sessions' = IF sessions[q.session].phase = "settled" THEN sessions
                   ELSE [sessions EXCEPT ![q.session].status = "settled",
                                         ![q.session].phase = "settled"]
    /\ UNCHANGED market

Write(q) ==
    /\ CASE q.kind = "edit" -> SaveMarket(q)
         [] q.kind = "lock" -> WriteLock(q)
         [] q.kind = "cancel" -> WriteCancel(q)
         [] OTHER -> WriteSettled(q)
    /\ requests' = requests \ {q}
    /\ UNCHANGED <<now, processing, tasks, jobs, runs, count>>

\* Whether a bet is admitted.
Eligible(nr, mode) ==
    /\ IsActive(nr)
    /\ sessions[nr].phase \in Running
    /\ mode = "open" => ~Declared(nr, "open")
    /\ now <= sessions[nr][mode]

-----------------------------------------------------------------------------
(* What users and administrators are shown *)

Today(m) == SessionsOf(m, SessionDate)

\* The list of markets shows a market as taking open bets.
CanPlaceOpenBets(m) ==
    /\ market[m].active
    /\ \E nr \in Today(m) :
          /\ sessions[nr].status = "active"
          /\ sessions[nr].phase = "open_running"
          /\ ~Declared(nr, "open")

\* The session the status of a market is read from.
MarketStatus(m) == {nr \in Today(m) : market[m].active /\ IsActive(nr)}

\* What the summary of the markets says of a session, from the clock.
SummaryStatus(nr) ==
    CASE sessions[nr].phase = "settled" -> "settled"
      [] now > sessions[nr].close -> "locked"
      [] now > sessions[nr].open -> "in-close"
      [] OTHER -> "in-open"

\* The list of today's sessions: one that is not active is shown as closed.
UserStatus(nr) == IF IsActive(nr) THEN "active" ELSE "close"

ResultStatus(nr) ==
    CASE sessions[nr].phase = "settled" -> "SETTLED"
      [] \A mode \in Modes : Declared(nr, mode) -> "FULL_DECLARED"
      [] Declared(nr, "open") -> "OPEN_ONLY"
      [] OTHER -> "NOT_DECLARED"

\* The results of a day, and those of today with the phase.
GameResults(day) == [nr \in {x \in Stored : sessions[x].day = day /\ IsActive(x)} |-> ResultStatus(nr)]
TodaysResults == [nr \in DOMAIN GameResults(SessionDate) |-> sessions[nr].phase]

\* For the administration: active markets with today's session, if it is there.
AdminOverview == [m \in {x \in Markets : market[x].active} |-> Today(m)]
IsOpen(nr) == IsActive(nr) /\ sessions[nr].phase \in Running

-----------------------------------------------------------------------------

CreatorStep ==
    \/ \E j \in JobNames : \E e \in jobs[j] : SkipMarket(j, e) \/ InsertSession(j, e)
    \/ \E nr \in DOMAIN sessions : CommitSession(nr) \/ AbortSession(nr)

RunnerStep(r) == Fetch(r) \/ Take(r) \/ Finish(r)

Next ==
    \/ Tick
    \/ \E m \in Markets : CreateMarket(m) \/ DeleteMarket(m) \/ AskEditMarket(m)
    \/ \E j \in JobNames : StartJob(j)
    \/ CreatorStep
    \/ \E nr \in DOMAIN sessions : AskLock(nr) \/ AskCancel(nr) \/ EndPass(nr)
    \/ \E nr \in DOMAIN sessions, mode \in Modes : DeclareResult(nr, mode)
    \/ \E q \in requests : Write(q)
    \/ \E r \in Runs : RunnerStep(r) \/ Fail(r)
    \/ Crash

Spec == Init /\ [][Next]_vars

\* Time passes, creation jobs go on, and the task runner is started again and
\* again by its cron job; no request has to be made, nor written.
FairSpec == Spec /\ WF_vars(Tick) /\ WF_vars(CreatorStep) /\ \A r \in Runs : WF_vars(RunnerStep(r))

-----------------------------------------------------------------------------
(* Properties *)

\* Types of the variables; a stored session opens before it closes, although
\* two edits at once can leave a market that does not.
TypeOK ==
    /\ now \in 0 .. Cardinality(Days) * DayLength - 1
    /\ \A nr \in DOMAIN sessions :
         /\ sessions[nr].status \in {"active", "settled", "cancelled"}
         /\ sessions[nr].phase \in Running \union {"market_closed", "settled"}
         /\ sessions[nr].open < sessions[nr].close
    /\ \A i \in DOMAIN tasks : tasks[i].attempts <= MaxAttempts(tasks[i].type)
    /\ \A r \in Runs : runs[r].doing \in {0} \union DOMAIN tasks

\* A market has one session a day, although the cron job and the request of an
\* administrator create sessions at the same time.
OneSessionPerDay ==
    \A i, j \in Stored :
       <<sessions[i].market, sessions[i].day>> = <<sessions[j].market, sessions[j].day>> => i = j

\* No bet is admitted on a result that was declared at an earlier instant,
\* whatever is edited, locked, unlocked or retried.
AdmittedBlind ==
    \A nr \in Stored, mode \in Modes :
       (Eligible(nr, mode) /\ Declared(nr, mode)) => sessions[nr].declared[mode] = now

\* A bet that would be admitted is one the user is offered: on the open result
\* by the list of markets, except at the very instant of the open time, and on
\* either result by the summary of the day and the list of today's sessions.  The
\* results do not show it as decided, unless that was declared at this instant,
\* and the administration sees the session of a market on offer as open.
EligibleIsListed ==
    \A m \in Markets : \A nr \in Today(m) :
       /\ (Eligible(nr, "open") /\ market[m].active /\ now # sessions[nr].open)
            => CanPlaceOpenBets(m)
       /\ Eligible(nr, "open") =>
            SummaryStatus(nr) = "in-open" /\ GameResults(SessionDate)[nr] = "NOT_DECLARED"
       /\ Eligible(nr, "close") =>
            /\ SummaryStatus(nr) \in {"in-open", "in-close"}
            /\ GameResults(SessionDate)[nr] = "FULL_DECLARED" => sessions[nr].declared["close"] = now
            /\ UserStatus(nr) = "active" /\ TodaysResults[nr] \in Running
            /\ market[m].active => nr \in MarketStatus(m) \intersect AdminOverview[m] /\ IsOpen(nr)

\* A session that is settled or cancelled never becomes active or runs again,
\* whatever lock, unlock or task was under way.
EndedStaysEnded ==
    [][\A nr \in Stored : sessions[nr].status # "active" =>
          sessions'[nr].status # "active" /\ sessions'[nr].phase \notin Running]_vars

\* A claimed task that no run is working on: nothing fetches it again.
Abandoned(i) == tasks[i].status = "processing" /\ \A r \in Runs : runs[r].doing # i

\* A session that is created before its open time and has its task enters the
\* close phase or ends, although a handler fails once, unless the process dies
\* in the middle of the task.
ReachesClosePhase ==
    \A m \in Markets, day \in Days :
       (\E nr \in SessionsOf(m, day) :
           /\ now < sessions[nr].open
           /\ \E i \in DOMAIN tasks : tasks[i].nr = nr /\ tasks[i].type = "phase")
       ~> (\E nr \in SessionsOf(m, day) :
              \/ sessions[nr].phase = "close_running"
              \/ sessions[nr].status # "active"
              \/ \E i \in DOMAIN tasks : tasks[i].nr = nr /\ Abandoned(i))
=============================================================================
