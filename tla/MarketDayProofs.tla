--------------------------- MODULE MarketDayProofs ---------------------------
(***************************************************************************)
(* What holds of the days of any number of markets: one session a day, no  *)
(* bet on a result that is already declared, no way back from the end of a *)
(* session, and no bet admitted that is not offered, whatever requests,    *)
(* tasks and creation jobs overtake each other and wherever the process    *)
(* dies.                                                                   *)
(***************************************************************************)
EXTENDS MarketDay, TLAPS

Phases == Running \union {"market_closed", "settled"}

Session ==
    [market : Markets, day : Int, stored : {"no", "yes", "aborted"},
     open : Int, close : Int, till : Int, status : {"active", "settled", "cancelled"},
     phase : Phases, declared : [Modes -> Nat]]

\* An ended session does not run, and no result was declared before its time.
SessionOK(s, time) ==
    /\ s.status # "active" => s.phase \notin Running
    /\ \A mode \in Modes : s.declared[mode] # Never =>
          s[mode] <= s.declared[mode] /\ s.declared[mode] <= time

HasTimes(doc) == {"open", "close"} \subseteq DOMAIN doc /\ doc.open \in Int /\ doc.close \in Int

MarketsOK ==
    /\ market = [m \in Markets |-> market[m]]
    /\ \A m \in Markets : market[m] = NoMarket \/ HasTimes(market[m])

JobsOK ==
    /\ jobs = [j \in JobNames |-> jobs[j]]
    /\ \A j \in JobNames : \A e \in jobs[j] : e.market \in Markets /\ HasTimes(e.doc)

RunsOK ==
    /\ runs = [r \in Runs |-> runs[r]]
    /\ \A r \in Runs : runs[r] \in [todo : {runs[r].todo}, doing : {runs[r].doing},
                                    target : Phases \union {"none"}]

\* A cancellation that is under way does not let the session run again.
RequestOK(q) ==
    /\ q.kind = "edit" => /\ q.market \in Markets /\ HasTimes(market[q.market])
                          /\ HasTimes(q.was) /\ HasTimes(q.next)
    /\ q.kind = "lock" => q.phase \in Phases
    /\ q.kind = "cancel" => q.phase \in Phases \ Running
    /\ q.kind \notin {"edit", "lock"} => q.session \in DOMAIN sessions

SessionsInv ==
    /\ sessions \in Seq(Session)
    /\ \A i \in DOMAIN sessions : SessionOK(sessions[i], now)
    /\ OneSessionPerDay

RequestsOK == \A q \in requests : RequestOK(q)

DayInv == now \in Nat /\ MarketsOK /\ JobsOK /\ RunsOK /\ RequestsOK /\ SessionsInv

\* What EndedStaysEnded says of a step.
EndStep ==
    \A nr \in Stored : sessions[nr].status # "active" =>
       sessions'[nr].status # "active" /\ sessions'[nr].phase \notin Running

-----------------------------------------------------------------------------

LEMMA DayInit == Init => DayInv
<1> SUFFICES ASSUME Init PROVE DayInv
    OBVIOUS
<1>1. MarketsOK /\ JobsOK /\ RequestsOK /\ now \in Nat
    BY DEF Init, MarketsOK, JobsOK, RequestsOK
<1>2. RunsOK
    BY DEF Init, RunsOK, Idle
<1>3. SessionsInv
    BY DEF Init, SessionsInv, OneSessionPerDay, Stored
<1> QED BY <1>1, <1>2, <1>3 DEF DayInv

\* Sessions that a step leaves alone, while time may pass.
LEMMA SessionsStay ==
    ASSUME DayInv, UNCHANGED sessions, now' \in Nat, now <= now'
    PROVE  SessionsInv' /\ EndStep
<1>1. SessionsInv'
    <2>1. ASSUME NEW i \in DOMAIN sessions
          PROVE  SessionOK(sessions[i], now')
        <3>1. /\ sessions[i] \in Session /\ SessionOK(sessions[i], now)
              /\ now \in Nat /\ now' \in Nat /\ now <= now'
            BY DEF DayInv, SessionsInv
        <3>2. \A mode \in Modes : sessions[i].declared[mode] \in Nat
            BY <3>1 DEF Session
        <3> QED BY <3>1, <3>2 DEF SessionOK
    <2>2. OneSessionPerDay'
        BY DEF DayInv, SessionsInv, OneSessionPerDay, Stored
    <2> QED BY <2>1, <2>2 DEF DayInv, SessionsInv
<1>2. EndStep
    BY DEF EndStep, DayInv, SessionsInv, SessionOK, Stored
<1> QED BY <1>1, <1>2

\* A write to one session that moves neither its market nor its day, does not
\* store it and does not bring it back.
LEMMA SessionChanges ==
    ASSUME DayInv, NEW nr \in DOMAIN sessions, NEW s \in Session,
           sessions' = [sessions EXCEPT ![nr] = s], now' = now,
           SessionOK(s, now),
           s.market = sessions[nr].market, s.day = sessions[nr].day,
           s.stored = "yes" => sessions[nr].stored = "yes",
           sessions[nr].status # "active" => s.status # "active"
    PROVE  SessionsInv' /\ EndStep
<1>1. sessions \in Seq(Session) /\ sessions' \in Seq(Session) /\ DOMAIN sessions' = DOMAIN sessions
    BY DEF DayInv, SessionsInv
<1>2. \A i \in DOMAIN sessions : sessions'[i] = IF i = nr THEN s ELSE sessions[i]
    BY <1>1
<1>3. \A i \in DOMAIN sessions' : SessionOK(sessions'[i], now')
    BY <1>1, <1>2 DEF DayInv, SessionsInv
<1>4. Stored' \subseteq Stored
    BY <1>1, <1>2 DEF Stored
<1>5. \A i \in Stored' : /\ sessions'[i].market = sessions[i].market
                         /\ sessions'[i].day = sessions[i].day
    BY <1>1, <1>2, <1>4 DEF Stored
<1>6. OneSessionPerDay'
    BY <1>4, <1>5 DEF OneSessionPerDay, DayInv, SessionsInv
<1>7. EndStep
    BY <1>2, <1>3 DEF EndStep, Stored, DayInv, SessionsInv, SessionOK
<1> QED BY <1>1, <1>3, <1>6, <1>7 DEF SessionsInv

\* The conjuncts other than the sessions', which only grow in number.
LEMMA OthersStay ==
    ASSUME DayInv, UNCHANGED market, DOMAIN sessions \subseteq DOMAIN sessions',
           jobs' = jobs, runs' = runs, requests' \subseteq requests
    PROVE  MarketsOK' /\ JobsOK' /\ RunsOK' /\ RequestsOK'
BY DEF DayInv, MarketsOK, JobsOK, RunsOK, RequestsOK, RequestOK

LEMMA LockTargetIsPhase ==
    ASSUME NEW nr PROVE LockTarget(nr) \in Phases \union {"none"}
BY DEF LockTarget, UnlockedPhase, Phases, Running

\* Setting the phase leaves a session that has ended alone.
LEMMA PhaseSetKeeps ==
    ASSUME DayInv, NEW nr, NEW phase \in Phases \union {"none"},
           sessions' = PhaseSet(nr, phase), now' = now
    PROVE  SessionsInv' /\ EndStep /\ DOMAIN sessions' = DOMAIN sessions
<1>1. CASE phase = "none" \/ ~IsActive(nr)
    <2>1. sessions' = sessions
        BY <1>1 DEF PhaseSet
    <2> QED BY <2>1, SessionsStay DEF DayInv
<1>2. CASE phase # "none" /\ IsActive(nr)
    <2> PICK s : s = [sessions[nr] EXCEPT !.phase = phase]
        OBVIOUS
    <2>1. nr \in DOMAIN sessions /\ sessions[nr].status = "active" /\ sessions \in Seq(Session)
        BY <1>2 DEF IsActive, Stored, DayInv, SessionsInv
    <2>2. sessions[nr] \in Session /\ SessionOK(sessions[nr], now)
        BY <2>1 DEF DayInv, SessionsInv
    <2>3. /\ s \in Session /\ s.status = "active" /\ s.stored = sessions[nr].stored
          /\ s.market = sessions[nr].market /\ s.day = sessions[nr].day
          /\ s.open = sessions[nr].open /\ s.close = sessions[nr].close
          /\ s.declared = sessions[nr].declared
        BY <1>2, <2>1, <2>2 DEF Session
    <2>4. SessionOK(s, now)
        BY <2>2, <2>3 DEF SessionOK, Modes
    <2>5. sessions' = [sessions EXCEPT ![nr] = s]
        BY <1>2, <2>1 DEF PhaseSet
    <2>6. SessionsInv' /\ EndStep
        BY <2>1, <2>3, <2>4, <2>5, SessionChanges
    <2> QED BY <2>1, <2>5, <2>6
<1> QED BY <1>1, <1>2

-----------------------------------------------------------------------------
(* Steps *)

LEMMA TickKeeps == ASSUME DayInv, Tick PROVE DayInv' /\ EndStep
<1>1. now' \in Nat /\ now <= now'
    BY DEF Tick, DayInv
<1>2. MarketsOK' /\ JobsOK' /\ RunsOK' /\ RequestsOK'
    BY OthersStay DEF Tick
<1> QED BY <1>1, <1>2, SessionsStay DEF Tick, DayInv

LEMMA CreateMarketKeeps ==
    ASSUME DayInv, NEW m \in Markets, CreateMarket(m) PROVE DayInv' /\ EndStep
<1>1. UNCHANGED <<now, sessions, jobs, runs, requests>> /\ now \in Nat
    BY DEF CreateMarket, DayInv
<1>2. market' = [market EXCEPT ![m] = Offered[m]] /\ HasTimes(Offered[m])
    BY DayAssumption DEF CreateMarket, HasTimes
<1>3. MarketsOK'
    BY <1>2 DEF DayInv, MarketsOK
<1>4. RequestsOK'
    BY <1>1, <1>2 DEF DayInv, MarketsOK, RequestsOK, RequestOK
<1>5. JobsOK' /\ RunsOK'
    BY <1>1 DEF DayInv, JobsOK, RunsOK
<1> QED BY <1>1, <1>3, <1>4, <1>5, SessionsStay DEF DayInv

LEMMA DeleteMarketKeeps ==
    ASSUME DayInv, NEW m \in Markets, DeleteMarket(m) PROVE DayInv' /\ EndStep
<1>1. UNCHANGED <<now, sessions, jobs, runs, requests>> /\ now \in Nat
    BY DEF DeleteMarket, DayInv
<1>2. HasTimes(market[m])
    BY DEF DeleteMarket, DayInv, MarketsOK
<1> PICK doc : doc = [market[m] EXCEPT !.active = FALSE]
    OBVIOUS
<1>3. HasTimes(doc)
    BY <1>2 DEF HasTimes
<1>4. market' = [market EXCEPT ![m] = doc]
    BY DEF DeleteMarket
<1>5. MarketsOK'
    BY <1>3, <1>4 DEF DayInv, MarketsOK
<1>6. RequestsOK'
    BY <1>1, <1>3, <1>4 DEF DayInv, MarketsOK, RequestsOK, RequestOK
<1>7. JobsOK' /\ RunsOK'
    BY <1>1 DEF DayInv, JobsOK, RunsOK
<1> QED BY <1>1, <1>5, <1>6, <1>7, SessionsStay DEF DayInv

\* A request that has read; it is such as its write may follow.
LEMMA AskKeeps ==
    ASSUME DayInv, NEW request, Ask(request), RequestOK(request) PROVE DayInv' /\ EndStep
<1>1. UNCHANGED <<now, market, sessions, jobs, runs>> /\ now \in Nat
      /\ requests' = requests \union {request}
    BY DEF Ask, DayInv
<1>2. MarketsOK' /\ JobsOK' /\ RunsOK'
    BY <1>1 DEF DayInv, MarketsOK, JobsOK, RunsOK
<1>3. RequestsOK'
    BY <1>1 DEF DayInv, RequestsOK, RequestOK
<1> QED BY <1>1, <1>2, <1>3, SessionsStay DEF DayInv

LEMMA AskEditKeeps ==
    ASSUME DayInv, NEW m \in Markets, AskEditMarket(m) PROVE DayInv' /\ EndStep
<1> PICK fields \in Edits :
       /\ market[m] # NoMarket
       /\ Ask([kind |-> "edit", market |-> m,
               was |-> market[m], next |-> Overridden(market[m], fields)])
    BY DEF AskEditMarket
<1>1. HasTimes(market[m])
    BY DEF DayInv, MarketsOK
<1>2. HasTimes(Overridden(market[m], fields))
    BY <1>1, DayAssumption DEF HasTimes, Overridden
<1> PICK q : q = [kind |-> "edit", market |-> m,
                  was |-> market[m], next |-> Overridden(market[m], fields)]
    OBVIOUS
<1>3. RequestOK(q) /\ Ask(q)
    BY <1>1, <1>2 DEF RequestOK
<1> QED BY <1>3, AskKeeps

LEMMA AskLockKeeps ==
    ASSUME DayInv, NEW nr \in DOMAIN sessions, AskLock(nr) PROVE DayInv' /\ EndStep
<1> PICK q : q = [kind |-> "lock", session |-> nr, phase |-> LockTarget(nr)]
    OBVIOUS
<1>1. LockTarget(nr) \in Phases
    BY LockTargetIsPhase DEF AskLock
<1>2. RequestOK(q) /\ Ask(q)
    BY <1>1 DEF AskLock, RequestOK
<1> QED BY <1>2, AskKeeps

LEMMA AskCancelKeeps ==
    ASSUME DayInv, NEW nr \in DOMAIN sessions, AskCancel(nr) PROVE DayInv' /\ EndStep
<1> PICK phase : phase = IF sessions[nr].status = "settled" THEN sessions[nr].phase
                         ELSE "market_closed"
    OBVIOUS
<1>1. phase \in Phases \ Running
    <2>1. sessions[nr] \in Session /\ SessionOK(sessions[nr], now)
        BY DEF DayInv, SessionsInv
    <2> QED BY <2>1 DEF SessionOK, Session, Phases, Running
<1> PICK q : q = [kind |-> "cancel", session |-> nr, phase |-> phase]
    OBVIOUS
<1>2. RequestOK(q) /\ Ask(q)
    BY <1>1 DEF AskCancel, RequestOK
<1> QED BY <1>2, AskKeeps

LEMMA EndPassKeeps ==
    ASSUME DayInv, NEW nr \in DOMAIN sessions, EndPass(nr) PROVE DayInv' /\ EndStep
<1>1. UNCHANGED <<now, market, sessions, jobs, runs, requests>> /\ now \in Nat
    BY DEF EndPass, DayInv
<1>2. MarketsOK' /\ JobsOK' /\ RunsOK' /\ RequestsOK'
    BY <1>1, OthersStay
<1> QED BY <1>1, <1>2, SessionsStay DEF DayInv

LEMMA StartJobKeeps ==
    ASSUME DayInv, NEW j \in JobNames, StartJob(j) PROVE DayInv' /\ EndStep
<1> DEFINE docs == {[market |-> m, doc |-> market[m]] : m \in {x \in Markets : market[x].active}}
<1>1. UNCHANGED <<now, market, sessions, runs, requests>> /\ now \in Nat
      /\ jobs' = [jobs EXCEPT ![j] = docs]
    BY DEF StartJob, DayInv
<1>2. \A e \in docs : e.market \in Markets /\ HasTimes(e.doc)
    BY DEF DayInv, MarketsOK, NoMarket
<1> HIDE DEF docs
<1>3. JobsOK'
    BY <1>1, <1>2 DEF DayInv, JobsOK
<1>4. MarketsOK' /\ RunsOK' /\ RequestsOK'
    BY <1>1 DEF DayInv, MarketsOK, RunsOK, RequestsOK, RequestOK
<1> QED BY <1>1, <1>3, <1>4, SessionsStay DEF DayInv

LEMMA SkipMarketKeeps ==
    ASSUME DayInv, NEW j \in JobNames, NEW e \in jobs[j], SkipMarket(j, e)
    PROVE  DayInv' /\ EndStep
<1>1. UNCHANGED <<now, market, sessions, runs, requests>> /\ now \in Nat
      /\ jobs' = [jobs EXCEPT ![j] = @ \ {e}]
    BY DEF SkipMarket, DayInv
<1>2. JobsOK'
    BY <1>1 DEF DayInv, JobsOK
<1>3. MarketsOK' /\ RunsOK' /\ RequestsOK'
    BY <1>1 DEF DayInv, MarketsOK, RunsOK, RequestsOK, RequestOK
<1> QED BY <1>1, <1>2, <1>3, SessionsStay DEF DayInv

\* A new session is one more, and not stored yet.
LEMMA InsertKeeps ==
    ASSUME DayInv, NEW j \in JobNames, NEW e \in jobs[j], InsertSession(j, e)
    PROVE  DayInv' /\ EndStep
<1>1. UNCHANGED <<now, market, runs, requests>> /\ now \in Nat
      /\ jobs' = [jobs EXCEPT ![j] = @ \ {e}]
    BY DEF InsertSession, DayInv
<1> PICK new : new = NewSession(e)
    OBVIOUS
<1>2. sessions' = Append(sessions, new)
    BY DEF InsertSession
<1>3. SessionDate \in Int
    <2>1. DayLength \in Nat \ {0} /\ now \in Nat
        BY <1>1, DayAssumption
    <2> QED BY <2>1 DEF SessionDate
<1>4. \A t \in Int : BuildTime(SessionDate, t) \in Int
    <2>1. DayLength \in Int /\ SessionDate \in Int
        BY <1>3, DayAssumption
    <2> QED BY <2>1 DEF BuildTime
<1>5. /\ new \in Session /\ new.stored = "no" /\ new.status = "active"
      /\ \A mode \in Modes : new.declared[mode] = Never
    <2> DEFINE open == BuildTime(SessionDate, e.doc.open)
               close == BuildTime(SessionDate, e.doc.close)
               till == close + Grace
    <2>1. e.market \in Markets /\ e.doc.open \in Int /\ e.doc.close \in Int
        BY DEF DayInv, JobsOK, HasTimes
    <2>2. open \in Int /\ close \in Int
        BY <1>4, <2>1
    <2>3. till \in Int
        BY <2>2, DayAssumption
    <2>4. new = [market |-> e.market, day |-> SessionDate, stored |-> "no",
                 open |-> open, close |-> close, till |-> till, status |-> "active",
                 phase |-> "open_running", declared |-> [m \in Modes |-> Never]]
        BY DEF NewSession
    <2> HIDE DEF open, close, till
    <2> QED BY <1>3, <2>1, <2>2, <2>3, <2>4 DEF Session, Phases, Running, Never
<1>6. sessions \in Seq(Session) /\ Len(sessions) \in Nat
    BY DEF DayInv, SessionsInv
<1>7. /\ sessions' \in Seq(Session)
      /\ DOMAIN sessions' = 1 .. Len(sessions) + 1
      /\ \A i \in DOMAIN sessions : sessions'[i] = sessions[i]
      /\ sessions'[Len(sessions) + 1] = new
    BY <1>2, <1>5, <1>6
<1>8. \A i \in DOMAIN sessions' : i \in DOMAIN sessions \/ i = Len(sessions) + 1
    BY <1>6, <1>7
<1>9. SessionOK(new, now)
    BY <1>5 DEF SessionOK
<1>10. \A i \in DOMAIN sessions' : SessionOK(sessions'[i], now')
    BY <1>1, <1>7, <1>8, <1>9 DEF DayInv, SessionsInv
<1>11. Stored' = Stored
    BY <1>5, <1>6, <1>7, <1>8 DEF Stored
<1>12. OneSessionPerDay'
    BY <1>7, <1>11 DEF OneSessionPerDay, DayInv, SessionsInv, Stored
<1>13. EndStep
    BY <1>7 DEF EndStep, Stored, DayInv, SessionsInv, SessionOK
<1>14. JobsOK'
    BY <1>1 DEF DayInv, JobsOK
<1>15. DOMAIN sessions \subseteq DOMAIN sessions'
    BY <1>6, <1>7
<1>16. MarketsOK' /\ RunsOK' /\ RequestsOK'
    BY <1>1, <1>15 DEF DayInv, MarketsOK, RunsOK, RequestsOK, RequestOK
<1> QED BY <1>1, <1>7, <1>10, <1>12, <1>13, <1>14, <1>16 DEF DayInv, SessionsInv

\* The unique index: only a commit stores a session, and none of its market and day is.
LEMMA CommitKeeps ==
    ASSUME DayInv, NEW nr \in DOMAIN sessions, CommitSession(nr) PROVE DayInv' /\ EndStep
<1>1. /\ UNCHANGED <<now, market, jobs, runs, requests>> /\ now \in Nat
      /\ sessions \in Seq(Session)
      /\ sessions' = [sessions EXCEPT ![nr].stored = "yes"]
    BY DEF CommitSession, DayInv, SessionsInv
<1> PICK s : s = [sessions[nr] EXCEPT !.stored = "yes"]
    OBVIOUS
<1>2. sessions[nr] \in Session /\ SessionOK(sessions[nr], now)
    BY DEF DayInv, SessionsInv
<1>3. /\ s \in Session /\ s.market = sessions[nr].market /\ s.day = sessions[nr].day
      /\ s.open = sessions[nr].open /\ s.close = sessions[nr].close
      /\ s.declared = sessions[nr].declared
      /\ s.status = sessions[nr].status /\ s.phase = sessions[nr].phase
    BY <1>2 DEF Session
<1>4. /\ sessions' \in Seq(Session) /\ DOMAIN sessions' = DOMAIN sessions
      /\ \A i \in DOMAIN sessions : sessions'[i] = IF i = nr THEN s ELSE sessions[i]
    BY <1>1, <1>3
<1>5. SessionOK(s, now)
    BY <1>2, <1>3 DEF SessionOK, Modes
<1>6. \A i \in DOMAIN sessions' : SessionOK(sessions'[i], now')
    BY <1>1, <1>4, <1>5 DEF DayInv, SessionsInv
<1>7. \A i \in DOMAIN sessions : /\ sessions'[i].market = sessions[i].market
                                /\ sessions'[i].day = sessions[i].day
    BY <1>3, <1>4
<1>8. Stored' \subseteq Stored \union {nr} /\ Stored \subseteq DOMAIN sessions
    BY <1>4 DEF Stored
<1>9. \A i \in Stored : ~(/\ sessions[i].market = sessions[nr].market
                         /\ sessions[i].day = sessions[nr].day)
    BY DEF CommitSession, Duplicate, SessionsOf
<1>10. OneSessionPerDay'
    <2> SUFFICES ASSUME NEW i \in Stored', NEW j \in Stored',
                        sessions'[i].market = sessions'[j].market,
                        sessions'[i].day = sessions'[j].day
                 PROVE  i = j
        BY DEF OneSessionPerDay
    <2>1. i \in DOMAIN sessions /\ j \in DOMAIN sessions
        BY <1>8
    <2>2. sessions[i].market = sessions[j].market /\ sessions[i].day = sessions[j].day
        BY <1>7, <2>1
    <2>3. CASE i = nr \/ j = nr
        BY <1>8, <1>9, <2>2, <2>3
    <2>4. CASE i \in Stored /\ j \in Stored
        BY <2>2, <2>4 DEF DayInv, SessionsInv, OneSessionPerDay
    <2> QED BY <1>8, <2>3, <2>4
<1>11. EndStep
    BY <1>2, <1>3, <1>4, <1>6 DEF EndStep, Stored, DayInv, SessionsInv, SessionOK
<1>12. MarketsOK' /\ JobsOK' /\ RunsOK' /\ RequestsOK'
    BY <1>1, <1>4, OthersStay
<1> QED BY <1>1, <1>4, <1>6, <1>10, <1>11, <1>12 DEF DayInv, SessionsInv

LEMMA AbortKeeps ==
    ASSUME DayInv, NEW nr \in DOMAIN sessions, AbortSession(nr) PROVE DayInv' /\ EndStep
<1>1. /\ UNCHANGED <<now, market, jobs, runs, requests>> /\ now \in Nat
      /\ sessions \in Seq(Session)
      /\ sessions' = [sessions EXCEPT ![nr].stored = "aborted"]
    BY DEF AbortSession, DayInv, SessionsInv
<1> PICK s : s = [sessions[nr] EXCEPT !.stored = "aborted"]
    OBVIOUS
<1>2. sessions[nr] \in Session /\ SessionOK(sessions[nr], now)
    BY DEF DayInv, SessionsInv
<1>3. /\ s \in Session /\ s.stored = "aborted"
      /\ s.market = sessions[nr].market /\ s.day = sessions[nr].day
      /\ s.open = sessions[nr].open /\ s.close = sessions[nr].close
      /\ s.declared = sessions[nr].declared
      /\ s.status = sessions[nr].status /\ s.phase = sessions[nr].phase
    BY <1>2 DEF Session
<1>4. SessionOK(s, now)
    BY <1>2, <1>3 DEF SessionOK, Modes
<1>5. sessions' = [sessions EXCEPT ![nr] = s]
    BY <1>1
<1>6. SessionsInv' /\ EndStep
    BY <1>1, <1>3, <1>4, <1>5, SessionChanges
<1>7. MarketsOK' /\ JobsOK' /\ RunsOK' /\ RequestsOK'
    BY <1>1, <1>5, OthersStay
<1> QED BY <1>1, <1>6, <1>7 DEF DayInv

\* A run of the task runner that writes no session.
LEMMA RunKeeps ==
    ASSUME DayInv, NEW r \in Runs, NEW run, runs' = [runs EXCEPT ![r] = run],
           run \in [todo : {run.todo}, doing : {run.doing}, target : Phases \union {"none"}],
           UNCHANGED <<now, market, sessions, jobs, requests>>
    PROVE  DayInv' /\ EndStep
<1>1. RunsOK'
    BY DEF DayInv, RunsOK
<1>2. MarketsOK' /\ JobsOK' /\ RequestsOK' /\ now \in Nat
    BY DEF DayInv, MarketsOK, JobsOK, RequestsOK, RequestOK
<1> QED BY <1>1, <1>2, SessionsStay DEF DayInv

LEMMA FetchKeeps == ASSUME DayInv, NEW r \in Runs, Fetch(r) PROVE DayInv' /\ EndStep
<1> PICK todo : runs' = [runs EXCEPT ![r].todo = todo]
    BY DEF Fetch
<1> PICK run : run = [runs[r] EXCEPT !.todo = todo]
    OBVIOUS
<1>1. run \in [todo : {run.todo}, doing : {run.doing}, target : Phases \union {"none"}]
    BY DEF DayInv, RunsOK
<1>2. runs' = [runs EXCEPT ![r] = run]
    OBVIOUS
<1>3. UNCHANGED <<now, market, sessions, jobs, requests>>
    BY DEF Fetch
<1> QED BY <1>1, <1>2, <1>3, RunKeeps

LEMMA TakeKeeps == ASSUME DayInv, NEW r \in Runs, Take(r) PROVE DayInv' /\ EndStep
<1> PICK i, target :
       /\ runs' = [runs EXCEPT ![r].doing = i, ![r].target = target]
       /\ target \in Phases \union {"none"}
    BY LockTargetIsPhase DEF Take, Phases, Running
<1> PICK busy : busy = [runs[r] EXCEPT !.doing = i]
    OBVIOUS
<1> PICK run : run = [busy EXCEPT !.target = target]
    OBVIOUS
<1>1. run \in [todo : {run.todo}, doing : {run.doing}, target : Phases \union {"none"}]
    <2>1. busy \in [todo : {busy.todo}, doing : {busy.doing}, target : Phases \union {"none"}]
        BY DEF DayInv, RunsOK
    <2> QED BY <2>1
<1>2. runs' = [runs EXCEPT ![r] = run]
    <2>1. runs' = [[runs EXCEPT ![r].doing = i] EXCEPT ![r].target = target]
        BY Zenon
    <2> QED BY <2>1
<1>3. UNCHANGED <<now, market, sessions, jobs, requests>>
    BY DEF Take
<1> QED BY <1>1, <1>2, <1>3, RunKeeps

LEMMA RestIsRun ==
    ASSUME NEW r, NEW run, run = Rest(r)
    PROVE  run \in [todo : {run.todo}, doing : {run.doing}, target : Phases \union {"none"}]
BY DEF Rest, Idle

LEMMA FinishKeeps == ASSUME DayInv, NEW r \in Runs, Finish(r) PROVE DayInv' /\ EndStep
<1> PICK run : run = Rest(r)
    OBVIOUS
<1>1. /\ UNCHANGED <<now, market, jobs, requests>> /\ now \in Nat
      /\ runs' = [runs EXCEPT ![r] = run]
      /\ sessions' = PhaseSet(tasks[runs[r].doing].nr, runs[r].target)
    BY DEF Finish, DayInv
<1>2. runs[r].target \in Phases \union {"none"}
    BY DEF DayInv, RunsOK
<1>3. SessionsInv' /\ EndStep /\ DOMAIN sessions' = DOMAIN sessions
    BY <1>1, <1>2, PhaseSetKeeps
<1>4. RunsOK'
    BY <1>1, RestIsRun DEF DayInv, RunsOK
<1>5. MarketsOK' /\ JobsOK' /\ RequestsOK'
    BY <1>1, <1>3 DEF DayInv, MarketsOK, JobsOK, RequestsOK, RequestOK
<1> QED BY <1>1, <1>3, <1>4, <1>5 DEF DayInv

LEMMA FailKeeps == ASSUME DayInv, NEW r \in Runs, Fail(r) PROVE DayInv' /\ EndStep
<1> PICK run : run = Rest(r)
    OBVIOUS
<1>1. UNCHANGED <<now, market, sessions, jobs, requests>> /\ runs' = [runs EXCEPT ![r] = run]
    BY DEF Fail
<1> QED BY <1>1, RestIsRun, RunKeeps

\* A restart leaves no session half stored, and stores none.
LEMMA CrashKeeps == ASSUME DayInv, Crash PROVE DayInv' /\ EndStep
<1>1. /\ UNCHANGED <<now, market>> /\ now \in Nat /\ requests' \subseteq requests
      /\ jobs' = [j \in JobNames |-> {}] /\ runs' = [r \in Runs |-> Idle]
      /\ sessions \in Seq(Session)
    BY DEF Crash, DayInv, SessionsInv
<1> DEFINE aborted(nr) == [sessions[nr] EXCEPT !.stored = "aborted"]
<1>2. sessions' = [nr \in DOMAIN sessions |->
                     IF sessions[nr].stored = "no" THEN aborted(nr) ELSE sessions[nr]]
    BY DEF Crash
<1>3. ASSUME NEW nr \in DOMAIN sessions
      PROVE  /\ aborted(nr) \in Session /\ aborted(nr).stored = "aborted"
             /\ aborted(nr).market = sessions[nr].market /\ aborted(nr).day = sessions[nr].day
             /\ aborted(nr).open = sessions[nr].open /\ aborted(nr).close = sessions[nr].close
             /\ aborted(nr).declared = sessions[nr].declared
             /\ aborted(nr).status = sessions[nr].status /\ aborted(nr).phase = sessions[nr].phase
    <2>1. sessions[nr] \in Session
        BY <1>1
    <2> QED BY <2>1 DEF Session
<1> HIDE DEF aborted
<1>4. /\ sessions' \in Seq(Session) /\ DOMAIN sessions' = DOMAIN sessions
      /\ \A i \in DOMAIN sessions :
            sessions'[i] = IF sessions[i].stored = "no" THEN aborted(i) ELSE sessions[i]
    <2>1. \A i \in DOMAIN sessions : sessions'[i] \in Session
        BY <1>1, <1>2, <1>3
    <2>2. DOMAIN sessions = 1 .. Len(sessions) /\ Len(sessions) \in Nat
        BY <1>1
    <2>3. sessions' \in [1 .. Len(sessions) -> Session]
        BY <1>2, <2>1, <2>2
    <2> QED BY <1>2, <2>2, <2>3
<1>5. \A i \in DOMAIN sessions' : SessionOK(sessions'[i], now')
    BY <1>1, <1>3, <1>4 DEF DayInv, SessionsInv, SessionOK, Modes
<1>6. Stored' \subseteq Stored
    BY <1>3, <1>4 DEF Stored
<1>7. OneSessionPerDay'
    BY <1>3, <1>4, <1>6 DEF OneSessionPerDay, DayInv, SessionsInv, Stored
<1>8. EndStep
    BY <1>4, <1>5, <1>3 DEF EndStep, Stored, DayInv, SessionsInv, SessionOK
<1>9. MarketsOK' /\ JobsOK' /\ RunsOK' /\ RequestsOK'
    BY <1>1, <1>4 DEF DayInv, MarketsOK, JobsOK, RunsOK, RequestsOK, RequestOK, Idle
<1> QED BY <1>1, <1>4, <1>5, <1>7, <1>8, <1>9 DEF DayInv, SessionsInv

\* A result is declared when its time has come.
LEMMA DeclareKeeps ==
    ASSUME DayInv, NEW nr \in DOMAIN sessions, NEW mode \in Modes, DeclareResult(nr, mode)
    PROVE  DayInv' /\ EndStep
<1>1. /\ UNCHANGED <<now, market, jobs, runs>> /\ now \in Nat
      /\ sessions \in Seq(Session) /\ sessions[nr] \in Session /\ SessionOK(sessions[nr], now)
      /\ sessions' = [sessions EXCEPT ![nr].declared[mode] = now]
    BY DEF DeclareResult, DayInv, SessionsInv
<1> PICK declared : declared = [sessions[nr].declared EXCEPT ![mode] = now]
    OBVIOUS
<1> PICK s : s = [sessions[nr] EXCEPT !.declared = declared]
    OBVIOUS
<1>2. sessions' = [sessions EXCEPT ![nr] = s]
    BY <1>1
<1>3. declared \in [Modes -> Nat]
    BY <1>1 DEF Session
<1>4. /\ s \in Session /\ s.stored = sessions[nr].stored
      /\ s.market = sessions[nr].market /\ s.day = sessions[nr].day
      /\ s.open = sessions[nr].open /\ s.close = sessions[nr].close
      /\ s.declared = declared
      /\ s.status = sessions[nr].status /\ s.phase = sessions[nr].phase
    BY <1>1, <1>3 DEF Session
<1>5. now >= sessions[nr][mode]
    BY DEF DeclareResult, PhaseEnded
<1>6. SessionOK(s, now)
    <2>1. \A m \in Modes : s[m] = sessions[nr][m] /\ s[m] \in Int
        BY <1>1, <1>4 DEF Modes, Session
    <2>2. \A m \in Modes : declared[m] = IF m = mode THEN now ELSE sessions[nr].declared[m]
        BY <1>1 DEF Session
    <2>3. ASSUME NEW m \in Modes, declared[m] # Never
          PROVE  s[m] <= declared[m] /\ declared[m] <= now
        <3>1. CASE m = mode
            <4>1. declared[m] = now /\ s[m] \in Int /\ now >= s[m] /\ now \in Nat
                BY <1>1, <1>5, <2>1, <2>2, <3>1
            <4> QED BY <4>1
        <3>2. CASE m # mode
            <4>1. declared[m] = sessions[nr].declared[m] /\ s[m] = sessions[nr][m]
                BY <2>1, <2>2, <3>2
            <4> QED BY <1>1, <2>3, <4>1 DEF SessionOK
        <3> QED BY <3>1, <3>2
    <2> QED BY <1>1, <1>4, <2>3 DEF SessionOK
<1>7. SessionsInv' /\ EndStep
    BY <1>1, <1>2, <1>4, <1>6, SessionChanges
<1>8. MarketsOK' /\ JobsOK' /\ RunsOK'
    BY <1>1 DEF DayInv, MarketsOK, JobsOK, RunsOK
<1>9. RequestsOK'
    <2> PICK settle : settle = [kind |-> "settle", session |-> nr]
        OBVIOUS
    <2>1. requests' \subseteq requests \union {settle}
        BY DEF DeclareResult
    <2>2. DOMAIN sessions' = DOMAIN sessions
        BY <1>2
    <2> QED BY <1>1, <2>1, <2>2 DEF DayInv, RequestsOK, RequestOK
<1> QED BY <1>1, <1>7, <1>8, <1>9 DEF DayInv

\* The writes of the four kinds of requests.
LEMMA SaveMarketKeeps ==
    ASSUME DayInv, NEW q \in requests, q.kind = "edit", SaveMarket(q),
           UNCHANGED <<now, jobs, runs>>, requests' \subseteq requests
    PROVE  DayInv' /\ EndStep
<1>1. /\ q.market \in Markets /\ HasTimes(market[q.market])
      /\ HasTimes(q.was) /\ HasTimes(q.next)
    BY DEF DayInv, RequestsOK, RequestOK
<1> PICK doc : doc = [f \in DOMAIN market[q.market] |->
                        IF q.next[f] # q.was[f] THEN q.next[f] ELSE market[q.market][f]]
    OBVIOUS
<1>2. HasTimes(doc)
    BY <1>1 DEF HasTimes
<1>3. market' = [market EXCEPT ![q.market] = doc] /\ UNCHANGED sessions
    BY DEF SaveMarket
<1>4. MarketsOK'
    BY <1>2, <1>3 DEF DayInv, MarketsOK
<1>5. RequestsOK'
    BY <1>2, <1>3 DEF DayInv, MarketsOK, RequestsOK, RequestOK
<1>6. JobsOK' /\ RunsOK' /\ now \in Nat
    BY DEF DayInv, JobsOK, RunsOK
<1> QED BY <1>3, <1>4, <1>5, <1>6, SessionsStay DEF DayInv

LEMMA WriteLockKeeps ==
    ASSUME DayInv, NEW q \in requests, q.kind = "lock", WriteLock(q),
           UNCHANGED <<now, jobs, runs>>, requests' \subseteq requests
    PROVE  DayInv' /\ EndStep
<1>1. q.phase \in Phases
    BY DEF DayInv, RequestsOK, RequestOK
<1>2. SessionsInv' /\ EndStep /\ DOMAIN sessions' = DOMAIN sessions
    BY <1>1, PhaseSetKeeps DEF WriteLock
<1>3. MarketsOK' /\ JobsOK' /\ RunsOK' /\ RequestsOK'
    BY <1>2, OthersStay DEF WriteLock
<1> QED BY <1>2, <1>3 DEF DayInv

\* A session that ends, or has ended, with a phase in which it does not run.
LEMMA EndingKeeps ==
    ASSUME DayInv, NEW nr \in DOMAIN sessions, NEW status \in {"settled", "cancelled"},
           NEW phase \in Phases \ Running,
           sessions' = [sessions EXCEPT ![nr].status = status, ![nr].phase = phase],
           UNCHANGED <<now, market, jobs, runs>>, requests' \subseteq requests
    PROVE  DayInv' /\ EndStep
<1> PICK ended : ended = [sessions[nr] EXCEPT !.status = status]
    OBVIOUS
<1> PICK s : s = [ended EXCEPT !.phase = phase]
    OBVIOUS
<1>1. sessions[nr] \in Session /\ SessionOK(sessions[nr], now) /\ sessions \in Seq(Session)
    BY DEF DayInv, SessionsInv
<1>2. /\ ended \in Session /\ ended.stored = sessions[nr].stored /\ ended.status = status
      /\ ended.market = sessions[nr].market /\ ended.day = sessions[nr].day
      /\ ended.open = sessions[nr].open /\ ended.close = sessions[nr].close
      /\ ended.declared = sessions[nr].declared
    BY <1>1 DEF Session
<1>3. /\ s \in Session /\ s.stored = sessions[nr].stored /\ s.status = status
      /\ s.market = sessions[nr].market /\ s.day = sessions[nr].day
      /\ s.open = sessions[nr].open /\ s.close = sessions[nr].close
      /\ s.declared = sessions[nr].declared /\ s.phase = phase
    BY <1>2 DEF Session
<1>4. SessionOK(s, now)
    BY <1>1, <1>3 DEF SessionOK, Modes
<1>5. sessions' = [sessions EXCEPT ![nr] = s]
    <2>1. sessions' = [[sessions EXCEPT ![nr].status = status] EXCEPT ![nr].phase = phase]
        BY Zenon
    <2> QED BY <1>1, <2>1
<1>6. SessionsInv' /\ EndStep
    BY <1>1, <1>3, <1>4, <1>5, SessionChanges
<1>7. MarketsOK' /\ JobsOK' /\ RunsOK' /\ RequestsOK'
    BY <1>5, OthersStay
<1> QED BY <1>6, <1>7 DEF DayInv

LEMMA WriteCancelKeeps ==
    ASSUME DayInv, NEW q \in requests, q.kind = "cancel", WriteCancel(q),
           UNCHANGED <<now, jobs, runs>>, requests' \subseteq requests
    PROVE  DayInv' /\ EndStep
<1>1. q.session \in DOMAIN sessions /\ q.phase \in Phases \ Running
    BY DEF DayInv, RequestsOK, RequestOK
<1>2. CASE sessions[q.session].status = "cancelled"
    <2>1. UNCHANGED <<market, sessions>>
        BY <1>2 DEF WriteCancel
    <2>2. MarketsOK' /\ JobsOK' /\ RunsOK' /\ RequestsOK'
        BY <2>1, OthersStay
    <2> QED BY <2>1, <2>2, SessionsStay DEF DayInv
<1>3. CASE sessions[q.session].status # "cancelled"
    BY <1>1, <1>3, EndingKeeps DEF WriteCancel
<1> QED BY <1>2, <1>3

LEMMA WriteSettledKeeps ==
    ASSUME DayInv, NEW q \in requests, q.kind \notin {"edit", "lock"}, WriteSettled(q),
           UNCHANGED <<now, jobs, runs>>, requests' \subseteq requests
    PROVE  DayInv' /\ EndStep
<1>1. q.session \in DOMAIN sessions /\ "settled" \in Phases \ Running
    BY DEF DayInv, RequestsOK, RequestOK, Phases, Running
<1>2. CASE sessions[q.session].phase = "settled"
    <2>1. UNCHANGED <<market, sessions>>
        BY <1>2 DEF WriteSettled
    <2>2. MarketsOK' /\ JobsOK' /\ RunsOK' /\ RequestsOK'
        BY <2>1, OthersStay
    <2> QED BY <2>1, <2>2, SessionsStay DEF DayInv
<1>3. CASE sessions[q.session].phase # "settled"
    BY <1>1, <1>3, EndingKeeps DEF WriteSettled
<1> QED BY <1>2, <1>3

LEMMA WriteKeeps == ASSUME DayInv, NEW q \in requests, Write(q) PROVE DayInv' /\ EndStep
<1>1. UNCHANGED <<now, jobs, runs>> /\ requests' \subseteq requests
    BY DEF Write
<1>2. CASE q.kind = "edit"
    BY <1>1, <1>2, SaveMarketKeeps DEF Write
<1>3. CASE q.kind = "lock"
    BY <1>1, <1>3, WriteLockKeeps DEF Write
<1>4. CASE q.kind = "cancel"
    BY <1>1, <1>4, WriteCancelKeeps DEF Write
<1>5. CASE q.kind \notin {"edit", "lock", "cancel"}
    BY <1>1, <1>5, WriteSettledKeeps DEF Write
<1> QED BY <1>2, <1>3, <1>4, <1>5

LEMMA DayStep == ASSUME DayInv, [Next]_vars PROVE DayInv' /\ EndStep
<1>1. CASE Tick
    BY <1>1, TickKeeps
<1>2. CASE \E m \in Markets : CreateMarket(m) \/ DeleteMarket(m) \/ AskEditMarket(m)
    BY <1>2, CreateMarketKeeps, DeleteMarketKeeps, AskEditKeeps
<1>3. CASE \E j \in JobNames : StartJob(j)
    BY <1>3, StartJobKeeps
<1>4. CASE CreatorStep
    BY <1>4, SkipMarketKeeps, InsertKeeps, CommitKeeps, AbortKeeps DEF CreatorStep
<1>5. CASE \E nr \in DOMAIN sessions : AskLock(nr) \/ AskCancel(nr) \/ EndPass(nr)
    BY <1>5, AskLockKeeps, AskCancelKeeps, EndPassKeeps
<1>6. CASE \E nr \in DOMAIN sessions, mode \in Modes : DeclareResult(nr, mode)
    BY <1>6, DeclareKeeps
<1>7. CASE \E q \in requests : Write(q)
    BY <1>7, WriteKeeps
<1>8. CASE \E r \in Runs : RunnerStep(r) \/ Fail(r)
    BY <1>8, FetchKeeps, TakeKeeps, FinishKeeps, FailKeeps DEF RunnerStep
<1>9. CASE Crash
    BY <1>9, CrashKeeps
<1>10. CASE UNCHANGED vars
    <2>1. UNCHANGED <<now, market, sessions, jobs, runs, requests>> /\ now \in Nat
        BY <1>10 DEF vars, DayInv
    <2>2. MarketsOK' /\ JobsOK' /\ RunsOK' /\ RequestsOK'
        BY <2>1, OthersStay
    <2> QED BY <2>1, <2>2, SessionsStay DEF DayInv
<1> QED BY <1>1, <1>2, <1>3, <1>4, <1>5, <1>6, <1>7, <1>8, <1>9, <1>10 DEF Next

\* A bet is admitted up to the time of its result, a result declared from then on.
LEMMA BlindFollows == DayInv => AdmittedBlind
<1> SUFFICES ASSUME DayInv, NEW nr \in Stored, NEW mode \in Modes,
                    Eligible(nr, mode), Declared(nr, mode)
             PROVE  sessions[nr].declared[mode] = now
    BY DEF AdmittedBlind
<1>1. sessions[nr] \in Session /\ SessionOK(sessions[nr], now) /\ now \in Nat
    BY DEF Stored, DayInv, SessionsInv
<1>2. sessions[nr].declared[mode] \in Nat /\ sessions[nr][mode] \in Int
    BY <1>1 DEF Session, Modes
<1>3. now <= sessions[nr][mode]
    BY DEF Eligible
<1>4. sessions[nr][mode] <= sessions[nr].declared[mode] /\ sessions[nr].declared[mode] <= now
    BY <1>1 DEF SessionOK, Declared
<1> QED BY <1>1, <1>2, <1>3, <1>4

-----------------------------------------------------------------------------
(* Theorems *)

LEMMA AlwaysDayInv == Spec => []DayInv
BY DayInit, DayStep, PTL DEF Spec

\* A market never has two sessions on a day, however many creation jobs overlap
\* and wherever one of them is cut off.
THEOREM OneSession == Spec => []OneSessionPerDay
<1>1. DayInv => OneSessionPerDay
    BY DEF DayInv, SessionsInv
<1> QED BY <1>1, AlwaysDayInv, PTL

\* No bet is admitted on a result that was declared at an earlier instant.
THEOREM BetsAreBlind == Spec => []AdmittedBlind
BY BlindFollows, AlwaysDayInv, PTL

\* A session that has ended stays so, whatever lock, unlock, cancellation or
\* task was under way.
THEOREM EndIsFinal == Spec => EndedStaysEnded
<1>1. DayInv /\ [Next]_vars =>
        [\A nr \in Stored : sessions[nr].status # "active" =>
            sessions'[nr].status # "active" /\ sessions'[nr].phase \notin Running]_vars
    BY DayStep DEF EndStep
<1> QED BY <1>1, AlwaysDayInv, PTL DEF Spec, EndedStaysEnded

-----------------------------------------------------------------------------
(* What is offered *)

\* A task is stored with its session and failed less often than it may while it
\* is pending; the phase of a session changes at its open time.
Task ==
    [type : {"phase", "lock"}, nr : Nat, at : Int,
     status : {"pending", "processing", "completed", "failed"}, attempts : Nat]

TaskOK(t) ==
    /\ t.nr \in DOMAIN sessions
    /\ t.type = "phase" => t.at = sessions[t.nr].open
    /\ t.attempts <= MaxAttempts(t.type)
    /\ t.status = "pending" => t.attempts < MaxAttempts(t.type)

TasksOK == tasks \in Seq(Task) /\ \A i \in DOMAIN tasks : TaskOK(tasks[i])

\* What a run has fetched was due and pending, and it moves no session to the
\* close phase before its open time.
TurnOK(run) ==
    /\ \A e \in run.todo : /\ e.task \in DOMAIN tasks /\ e.attempts \in Nat
                           /\ tasks[e.task].at <= now
                           /\ e.attempts < MaxAttempts(tasks[e.task].type)
    /\ run.doing \in {0} \union {e.task : e \in run.todo}
    /\ run.doing # 0 /\ run.target = "close_running" =>
          sessions[tasks[run.doing].nr].open <= now

\* A session opens before it closes, and is in the close phase from its open time.
TimesOK(s) ==
    /\ s.open < s.close
    /\ s.phase = "close_running" => s.open <= now

LockOK(q) ==
    q.kind = "lock" => /\ q.session \in DOMAIN sessions
                       /\ q.phase = "close_running" => sessions[q.session].open <= now

OfferInv ==
    /\ now + 1 <= Cardinality(Days) * DayLength
    /\ TasksOK
    /\ \A r \in Runs : TurnOK(runs[r])
    /\ \A nr \in DOMAIN sessions : TimesOK(sessions[nr])
    /\ \A q \in requests : LockOK(q)

\* What no step takes back: a session keeps its times, and a task what it is for.
SessionsGrow ==
    /\ DOMAIN sessions \subseteq DOMAIN sessions'
    /\ \A nr \in DOMAIN sessions : /\ sessions'[nr].open = sessions[nr].open
                                   /\ sessions'[nr].close = sessions[nr].close

TasksGrow ==
    /\ DOMAIN tasks \subseteq DOMAIN tasks'
    /\ \A i \in DOMAIN tasks : /\ tasks'[i].type = tasks[i].type
                               /\ tasks'[i].nr = tasks[i].nr
                               /\ tasks'[i].at = tasks[i].at

LEMMA OfferInit == Init => OfferInv
<1> SUFFICES ASSUME Init PROVE OfferInv
    OBVIOUS
<1>1. now + 1 <= Cardinality(Days) * DayLength
    <2> PICK n, d : n = Cardinality(Days) /\ d = DayLength
        OBVIOUS
    <2>1. n \in Nat /\ d \in Nat /\ n >= 1 /\ d >= 1
        BY DayAssumption
    <2>2. n * d >= 1
        BY <2>1
    <2> QED BY <2>1, <2>2 DEF Init
<1>2. TasksOK
    BY DEF Init, TasksOK
<1>3. \A r \in Runs : TurnOK(runs[r])
    BY DEF Init, Idle, TurnOK
<1> QED BY <1>1, <1>2, <1>3 DEF Init, OfferInv

\* A step that keeps the times of the sessions, and of the tasks.
LEMMA OfferStays ==
    ASSUME DayInv, OfferInv, SessionsGrow, now' \in Nat, now <= now',
           now' + 1 <= Cardinality(Days) * DayLength,
           \A nr \in DOMAIN sessions' : TimesOK(sessions[nr])',
           \/ UNCHANGED tasks
           \/ TasksGrow /\ TasksOK',
           \A r \in Runs : runs'[r] = runs[r] \/ TurnOK(runs[r])',
           \A q \in requests' : q \in requests \/ LockOK(q)'
    PROVE  OfferInv'
<1>0. /\ now \in Nat /\ TasksOK
      /\ \A nr \in DOMAIN sessions : sessions[nr].open \in Int
    <2>1. \A nr \in DOMAIN sessions : sessions[nr] \in Session
        BY DEF DayInv, SessionsInv
    <2> QED BY <2>1 DEF DayInv, OfferInv, Session
<1>1. \A i \in DOMAIN tasks : tasks[i] \in Task /\ TaskOK(tasks[i])
    BY <1>0 DEF TasksOK
<1>2. TasksOK' /\ TasksGrow
    <2>1. CASE UNCHANGED tasks
        <3>1. TasksGrow
            BY <2>1 DEF TasksGrow
        <3>2. \A i \in DOMAIN tasks : TaskOK(tasks[i])'
            BY <1>1, <2>1 DEF TaskOK, SessionsGrow
        <3> QED BY <1>0, <2>1, <3>1, <3>2 DEF TasksOK
    <2> QED BY <2>1
<1>3. ASSUME NEW r \in Runs PROVE TurnOK(runs[r])'
    <2>1. CASE runs'[r] = runs[r]
        <3> PICK run : run = runs[r]
            OBVIOUS
        <3>1. TurnOK(run)
            BY DEF OfferInv
        <3>2. \A e \in run.todo : /\ e.task \in DOMAIN tasks' /\ e.attempts \in Nat
                                  /\ tasks'[e.task].at <= now'
                                  /\ e.attempts < MaxAttempts(tasks'[e.task].type)
            <4> TAKE e \in run.todo
            <4>1. e.task \in DOMAIN tasks /\ tasks[e.task].at <= now /\ e.attempts \in Nat
                  /\ e.attempts < MaxAttempts(tasks[e.task].type)
                BY <3>1 DEF TurnOK
            <4>2. tasks[e.task].at \in Int
                BY <1>1, <4>1 DEF Task
            <4> QED BY <1>0, <1>2, <4>1, <4>2 DEF TasksGrow
        <3>3. ASSUME run.doing # 0, run.target = "close_running"
              PROVE  sessions'[tasks'[run.doing].nr].open <= now'
            <4>1. run.doing \in DOMAIN tasks /\ sessions[tasks[run.doing].nr].open <= now
                BY <3>1, <3>3 DEF TurnOK
            <4> PICK nr : nr = tasks[run.doing].nr
                OBVIOUS
            <4>2. nr \in DOMAIN sessions /\ tasks'[run.doing].nr = nr
                BY <1>1, <1>2, <4>1 DEF TaskOK, TasksGrow
            <4> QED BY <1>0, <4>1, <4>2 DEF SessionsGrow
        <3>4. TurnOK(run)'
            BY <3>1, <3>2, <3>3 DEF TurnOK
        <3> QED BY <2>1, <3>4
    <2> QED BY <2>1
<1>4. ASSUME NEW q \in requests' PROVE LockOK(q)'
    <2>1. CASE q \in requests
        <3>1. LockOK(q)
            BY <2>1 DEF OfferInv
        <3> QED BY <1>0, <3>1 DEF LockOK, SessionsGrow
    <2> QED BY <2>1
<1> QED BY <1>2, <1>3, <1>4 DEF OfferInv

\* One session is written, which keeps its times and enters the close phase only
\* from its open time.
LEMMA TimesStay ==
    ASSUME DayInv, OfferInv, NEW nr \in DOMAIN sessions, NEW s,
           sessions' = [sessions EXCEPT ![nr] = s], now' = now,
           s.open = sessions[nr].open, s.close = sessions[nr].close,
           s.phase = "close_running" =>
              sessions[nr].phase = "close_running" \/ sessions[nr].open <= now
    PROVE  SessionsGrow /\ \A i \in DOMAIN sessions' : TimesOK(sessions[i])'
<1>1. /\ DOMAIN sessions' = DOMAIN sessions
      /\ \A i \in DOMAIN sessions : sessions'[i] = IF i = nr THEN s ELSE sessions[i]
    BY DEF DayInv, SessionsInv
<1>2. \A i \in DOMAIN sessions : TimesOK(sessions[i])
    BY DEF OfferInv
<1> QED BY <1>1, <1>2 DEF SessionsGrow, TimesOK

\* Sessions that a step leaves alone.
LEMMA TimesOfSame ==
    ASSUME DayInv, OfferInv, UNCHANGED sessions, now' \in Nat, now <= now'
    PROVE  SessionsGrow /\ \A i \in DOMAIN sessions' : TimesOK(sessions[i])'
<1>1. \A i \in DOMAIN sessions : TimesOK(sessions[i]) /\ sessions[i] \in Session
    BY DEF OfferInv, DayInv, SessionsInv
<1>2. now \in Nat /\ \A i \in DOMAIN sessions : sessions[i].open \in Int
    BY <1>1 DEF DayInv, Session
<1> QED BY <1>1, <1>2 DEF SessionsGrow, TimesOK

\* A step that writes no session, task or run.
LEMMA OfferOfSame ==
    ASSUME DayInv, OfferInv, UNCHANGED <<now, sessions, tasks, runs>>,
           \A q \in requests' : q \in requests \/ LockOK(q)'
    PROVE  OfferInv'
<1>1. now \in Nat /\ now' \in Nat /\ now <= now' /\ now' + 1 <= Cardinality(Days) * DayLength
    BY DEF DayInv, OfferInv
<1>2. SessionsGrow /\ \A i \in DOMAIN sessions' : TimesOK(sessions[i])'
    BY <1>1, TimesOfSame
<1> QED BY <1>1, <1>2, OfferStays

\* A step that writes one session, and no task or run.
LEMMA OfferOfOne ==
    ASSUME DayInv, OfferInv, NEW nr \in DOMAIN sessions, NEW s,
           sessions' = [sessions EXCEPT ![nr] = s], UNCHANGED <<now, tasks, runs>>,
           s.open = sessions[nr].open, s.close = sessions[nr].close,
           s.phase = "close_running" =>
              sessions[nr].phase = "close_running" \/ sessions[nr].open <= now,
           \A q \in requests' : q \in requests \/ LockOK(q)'
    PROVE  OfferInv'
<1>1. now \in Nat /\ now' \in Nat /\ now <= now' /\ now' + 1 <= Cardinality(Days) * DayLength
    BY DEF DayInv, OfferInv
<1>2. SessionsGrow /\ \A i \in DOMAIN sessions' : TimesOK(sessions[i])'
    BY TimesStay
<1> QED BY <1>1, <1>2, OfferStays

\* Setting a phase: the close phase only from the open time on.
LEMMA PhaseSetOffers ==
    ASSUME DayInv, OfferInv, NEW nr, NEW phase,
           sessions' = PhaseSet(nr, phase), now' = now,
           IsActive(nr) /\ phase = "close_running" => sessions[nr].open <= now
    PROVE  SessionsGrow /\ \A i \in DOMAIN sessions' : TimesOK(sessions[i])'
<1>1. CASE phase = "none" \/ ~IsActive(nr)
    <2>1. sessions' = sessions /\ now \in Nat
        BY <1>1 DEF PhaseSet, DayInv
    <2> QED BY <2>1, TimesOfSame
<1>2. CASE phase # "none" /\ IsActive(nr)
    <2> PICK s : s = [sessions[nr] EXCEPT !.phase = phase]
        OBVIOUS
    <2>1. nr \in DOMAIN sessions /\ sessions[nr] \in Session
        BY <1>2 DEF IsActive, Stored, DayInv, SessionsInv
    <2>2. s.open = sessions[nr].open /\ s.close = sessions[nr].close /\ s.phase = phase
        BY <2>1 DEF Session
    <2>3. sessions' = [sessions EXCEPT ![nr] = s]
        BY <1>2, <2>1 DEF PhaseSet
    <2> QED BY <1>2, <2>1, <2>2, <2>3, TimesStay
<1> QED BY <1>1, <1>2

\* A lock, and the lock task, open a market again in the close phase from its
\* open time on.
LEMMA LockTargetInTime ==
    ASSUME DayInv, NEW nr \in DOMAIN sessions, LockTarget(nr) = "close_running"
    PROVE  sessions[nr].open <= now
<1>1. sessions[nr] \in Session
    BY DEF DayInv, SessionsInv
<1>2. now \in Nat /\ sessions[nr].open \in Int
    BY <1>1 DEF DayInv, Session
<1> QED BY <1>2 DEF LockTarget, UnlockedPhase

LEMMA MarketStepsOffer ==
    ASSUME DayInv, OfferInv, NEW m \in Markets,
           CreateMarket(m) \/ DeleteMarket(m) \/ AskEditMarket(m)
    PROVE  OfferInv'
<1>1. UNCHANGED <<now, sessions, tasks, runs>>
    BY DEF CreateMarket, DeleteMarket, AskEditMarket, Ask
<1>2. \A q \in requests' : q \in requests \/ LockOK(q)'
    <2>1. CASE CreateMarket(m) \/ DeleteMarket(m)
        BY <2>1 DEF CreateMarket, DeleteMarket
    <2>2. CASE AskEditMarket(m)
        <3> PICK next : Ask([kind |-> "edit", market |-> m, was |-> market[m], next |-> next])
            BY <2>2 DEF AskEditMarket
        <3> QED BY DEF Ask, LockOK
    <2> QED BY <2>1, <2>2
<1> QED BY <1>1, <1>2, OfferOfSame

LEMMA AsksOffer ==
    ASSUME DayInv, OfferInv, NEW nr \in DOMAIN sessions,
           AskLock(nr) \/ AskCancel(nr) \/ EndPass(nr)
    PROVE  OfferInv'
<1>1. CASE AskLock(nr)
    <2> PICK q : q = [kind |-> "lock", session |-> nr, phase |-> LockTarget(nr)]
        OBVIOUS
    <2>1. UNCHANGED <<now, sessions, tasks, runs>> /\ requests' = requests \union {q}
        BY <1>1 DEF AskLock, Ask
    <2>2. LockOK(q)
        BY LockTargetInTime DEF LockOK
    <2>3. LockOK(q)'
        BY <2>1, <2>2 DEF LockOK
    <2> QED BY <2>1, <2>3, OfferOfSame
<1>2. CASE AskCancel(nr)
    <2> PICK phase : Ask([kind |-> "cancel", session |-> nr, phase |-> phase])
        BY <1>2 DEF AskCancel
    <2>1. UNCHANGED <<now, sessions, tasks, runs>>
          /\ requests' = requests \union {[kind |-> "cancel", session |-> nr, phase |-> phase]}
        BY DEF Ask
    <2>2. \A q \in requests' : q \in requests \/ LockOK(q)'
        BY <2>1 DEF LockOK
    <2> QED BY <2>1, <2>2, OfferOfSame
<1>3. CASE EndPass(nr)
    <2>1. UNCHANGED <<now, sessions, tasks, runs, requests>>
        BY <1>3 DEF EndPass
    <2> QED BY <2>1, OfferOfSame
<1> QED BY <1>1, <1>2, <1>3

LEMMA TickOffers == ASSUME DayInv, OfferInv, Tick PROVE OfferInv'
<1>1. /\ now \in Nat /\ now' = now + 1 /\ UNCHANGED <<sessions, tasks, runs, requests>>
      /\ now' < Cardinality(Days) * DayLength
    BY DEF Tick, DayInv
<1> PICK n : n = Cardinality(Days) * DayLength
    OBVIOUS
<1>2. n \in Nat
    <2> PICK c, d : c = Cardinality(Days) /\ d = DayLength
        OBVIOUS
    <2>1. c \in Nat /\ d \in Nat
        BY DayAssumption
    <2> QED BY <2>1
<1>3. now' \in Nat /\ now <= now' /\ now' + 1 <= n
    BY <1>1, <1>2
<1>4. SessionsGrow /\ \A i \in DOMAIN sessions' : TimesOK(sessions[i])'
    BY <1>1, <1>3, TimesOfSame
<1> QED BY <1>1, <1>3, <1>4, OfferStays

LEMMA CreatorOffers ==
    ASSUME DayInv, OfferInv,
           \/ \E j \in JobNames : StartJob(j) \/ \E e \in jobs[j] : SkipMarket(j, e)
           \/ \E nr \in DOMAIN sessions : CommitSession(nr) \/ AbortSession(nr)
    PROVE  OfferInv'
<1>1. ASSUME NEW j \in JobNames, StartJob(j) \/ \E e \in jobs[j] : SkipMarket(j, e)
      PROVE  OfferInv'
    <2>1. UNCHANGED <<now, sessions, tasks, runs, requests>>
        BY <1>1 DEF StartJob, SkipMarket
    <2> QED BY <2>1, OfferOfSame
<1>2. ASSUME NEW nr \in DOMAIN sessions, NEW stored,
             sessions' = [sessions EXCEPT ![nr].stored = stored],
             UNCHANGED <<now, tasks, runs, requests>>
      PROVE  OfferInv'
    <2> PICK s : s = [sessions[nr] EXCEPT !.stored = stored]
        OBVIOUS
    <2>1. sessions[nr] \in Session
        BY DEF DayInv, SessionsInv
    <2>2. s.open = sessions[nr].open /\ s.close = sessions[nr].close
          /\ s.phase = sessions[nr].phase
        BY <2>1 DEF Session
    <2>3. sessions' = [sessions EXCEPT ![nr] = s]
        BY <1>2
    <2> QED BY <1>2, <2>2, <2>3, OfferOfOne
<1>3. ASSUME NEW nr \in DOMAIN sessions, CommitSession(nr) \/ AbortSession(nr)
      PROVE  OfferInv'
    BY <1>2, <1>3 DEF CommitSession, AbortSession
<1> QED BY <1>1, <1>3

\* A session that a market may run opens before it closes, and its tasks are new.
LEMMA InsertOffers ==
    ASSUME DayInv, OfferInv, NEW j \in JobNames, NEW e \in jobs[j], InsertSession(j, e)
    PROVE  OfferInv'
<1> PICK new, nr : new = NewSession(e) /\ nr = Len(sessions) + 1
    OBVIOUS
<1> PICK a, b : a = NewTask("phase", nr, new.open) /\ b = NewTask("lock", nr, new.close)
    OBVIOUS
<1>1. /\ UNCHANGED <<now, market, runs, requests>> /\ sessions' = Append(sessions, new)
      /\ tasks' \in {tasks \o <<a, b>>, Append(tasks, a), Append(tasks, b)}
    BY DEF InsertSession
<1>2. /\ now \in Nat /\ sessions \in Seq(Session) /\ Len(sessions) \in Nat /\ tasks \in Seq(Task)
      /\ Len(tasks) \in Nat
    BY DEF DayInv, SessionsInv, OfferInv, TasksOK
<1>3. /\ new.open \in Int /\ new.close \in Int /\ new.open < new.close
      /\ new.phase = "open_running"
    <2>1. e.doc.open \in Int /\ e.doc.close \in Int /\ e.doc.open < e.doc.close
        BY DEF DayInv, JobsOK, HasTimes, InsertSession, CanRun
    <2> PICK from : from = (SessionDate - 1) * DayLength
        OBVIOUS
    <2>2. from \in Int
        <3>1. DayLength \in Nat \ {0} /\ now \in Nat
            BY <1>2, DayAssumption
        <3>2. SessionDate \in Int
            BY <3>1 DEF SessionDate
        <3> PICK day : day = SessionDate
            OBVIOUS
        <3> QED BY <3>1, <3>2
    <2>3. new.open = from + e.doc.open /\ new.close = from + e.doc.close
          /\ new.phase = "open_running"
        BY DEF NewSession, BuildTime
    <2> QED BY <2>1, <2>2, <2>3
<1>4. /\ DOMAIN sessions' = DOMAIN sessions \union {nr} /\ nr \in Nat
      /\ \A i \in DOMAIN sessions : sessions'[i] = sessions[i]
      /\ sessions'[nr] = new
    BY <1>1, <1>2
<1>5. SessionsGrow
    BY <1>4 DEF SessionsGrow
<1>6. \A i \in DOMAIN sessions' : TimesOK(sessions[i])'
    BY <1>1, <1>3, <1>4 DEF OfferInv, TimesOK
<1>7. a \in Task /\ b \in Task
    BY <1>3, <1>4 DEF NewTask, Task
<1>8. TaskOK(a)' /\ TaskOK(b)'
    BY <1>4 DEF NewTask, TaskOK, MaxAttempts
<1>9. /\ tasks' \in Seq(Task)
      /\ DOMAIN tasks \subseteq DOMAIN tasks' /\ \A i \in DOMAIN tasks : tasks'[i] = tasks[i]
      /\ \A i \in DOMAIN tasks' : i \in DOMAIN tasks \/ tasks'[i] \in {a, b}
    <2>1. CASE tasks' = Append(tasks, a) \/ tasks' = Append(tasks, b)
        BY <1>2, <1>7, <2>1
    <2>2. CASE tasks' = tasks \o <<a, b>>
        <3>1. <<a, b>> \in Seq(Task) /\ Len(<<a, b>>) = 2
            BY <1>7
        <3> QED BY <1>2, <2>2, <3>1
    <2> QED BY <1>1, <2>1, <2>2
<1>10. \A i \in DOMAIN tasks : TaskOK(tasks[i])
    BY DEF OfferInv, TasksOK
<1>11. \A i \in DOMAIN tasks' : TaskOK(tasks[i])'
    BY <1>5, <1>8, <1>9, <1>10 DEF TaskOK, SessionsGrow
<1>12. TasksOK' /\ TasksGrow
    BY <1>9, <1>11 DEF TasksOK, TasksGrow
<1>13. now' \in Nat /\ now <= now' /\ now' + 1 <= Cardinality(Days) * DayLength
    BY <1>1, <1>2 DEF OfferInv
<1> QED BY <1>1, <1>5, <1>6, <1>12, <1>13, OfferStays

\* A result is declared; the settlement that starts with it locks nothing.
LEMMA DeclareOffers ==
    ASSUME DayInv, OfferInv, NEW nr \in DOMAIN sessions, NEW mode \in Modes,
           DeclareResult(nr, mode)
    PROVE  OfferInv'
<1> PICK declared : declared = [sessions[nr].declared EXCEPT ![mode] = now]
    OBVIOUS
<1> PICK s : s = [sessions[nr] EXCEPT !.declared = declared]
    OBVIOUS
<1>1. /\ UNCHANGED <<now, tasks, runs>>
      /\ requests' \subseteq requests \union {[kind |-> "settle", session |-> nr]}
      /\ sessions' = [sessions EXCEPT ![nr].declared[mode] = now]
    BY DEF DeclareResult
<1>2. sessions[nr] \in Session
    BY DEF DayInv, SessionsInv
<1>3. s.open = sessions[nr].open /\ s.close = sessions[nr].close /\ s.phase = sessions[nr].phase
    BY <1>2 DEF Session
<1>4. sessions' = [sessions EXCEPT ![nr] = s]
    BY <1>1
<1>5. \A q \in requests' : q \in requests \/ LockOK(q)'
    BY <1>1 DEF LockOK
<1> QED BY <1>1, <1>3, <1>4, <1>5, OfferOfOne

\* A session that ends leaves the phases in which it runs.
LEMMA EndingOffers ==
    ASSUME DayInv, OfferInv, NEW nr \in DOMAIN sessions, NEW status,
           NEW phase \in Phases \ Running,
           sessions' = [sessions EXCEPT ![nr].status = status, ![nr].phase = phase],
           UNCHANGED <<now, tasks, runs>>, requests' \subseteq requests
    PROVE  OfferInv'
<1> PICK ended : ended = [sessions[nr] EXCEPT !.status = status]
    OBVIOUS
<1> PICK s : s = [ended EXCEPT !.phase = phase]
    OBVIOUS
<1>1. sessions[nr] \in Session /\ sessions \in Seq(Session)
    BY DEF DayInv, SessionsInv
<1>2. /\ s.open = sessions[nr].open /\ s.close = sessions[nr].close /\ s.phase = phase
    BY <1>1 DEF Session
<1>3. sessions' = [sessions EXCEPT ![nr] = s]
    <2>1. sessions' = [[sessions EXCEPT ![nr].status = status] EXCEPT ![nr].phase = phase]
        BY Zenon
    <2> QED BY <1>1, <2>1
<1>4. s.phase # "close_running"
    BY <1>2 DEF Running
<1> QED BY <1>2, <1>3, <1>4, OfferOfOne

LEMMA WriteOffers == ASSUME DayInv, OfferInv, NEW q \in requests, Write(q) PROVE OfferInv'
<1>1. UNCHANGED <<now, tasks, jobs, runs>> /\ requests' \subseteq requests
    BY DEF Write
<1>2. RequestOK(q) /\ LockOK(q)
    BY DEF DayInv, RequestsOK, OfferInv
<1>3. now \in Nat /\ now' \in Nat /\ now <= now' /\ now' + 1 <= Cardinality(Days) * DayLength
    BY <1>1 DEF DayInv, OfferInv
<1>4. CASE q.kind = "edit"
    <2>1. UNCHANGED sessions
        BY <1>4 DEF Write, SaveMarket
    <2> QED BY <1>1, <2>1, OfferOfSame
<1>5. CASE q.kind = "lock"
    <2>1. sessions' = PhaseSet(q.session, q.phase)
        BY <1>5 DEF Write, WriteLock
    <2>2. SessionsGrow /\ \A i \in DOMAIN sessions' : TimesOK(sessions[i])'
        BY <1>1, <1>2, <1>5, <2>1, PhaseSetOffers DEF LockOK
    <2> QED BY <1>1, <1>3, <2>2, OfferStays
<1>6. CASE q.kind = "cancel"
    <2>1. WriteCancel(q) /\ q.session \in DOMAIN sessions /\ q.phase \in Phases \ Running
        BY <1>2, <1>6 DEF Write, RequestOK
    <2>2. CASE sessions[q.session].status = "cancelled"
        <3>1. UNCHANGED sessions
            BY <2>1, <2>2 DEF WriteCancel
        <3> QED BY <1>1, <3>1, OfferOfSame
    <2>3. CASE sessions[q.session].status # "cancelled"
        <3>1. sessions' = [sessions EXCEPT ![q.session].status = "cancelled",
                                           ![q.session].phase = q.phase]
            BY <2>1, <2>3 DEF WriteCancel
        <3> QED BY <1>1, <2>1, <3>1, EndingOffers
    <2> QED BY <2>2, <2>3
<1>7. CASE q.kind \notin {"edit", "lock", "cancel"}
    <2>1. WriteSettled(q) /\ q.session \in DOMAIN sessions
        BY <1>2, <1>7 DEF Write, RequestOK
    <2>2. "settled" \in Phases \ Running
        BY DEF Phases, Running
    <2>3. CASE sessions[q.session].phase = "settled"
        <3>1. UNCHANGED sessions
            BY <2>1, <2>3 DEF WriteSettled
        <3> QED BY <1>1, <3>1, OfferOfSame
    <2>4. CASE sessions[q.session].phase # "settled"
        <3>1. sessions' = [sessions EXCEPT ![q.session].status = "settled",
                                           ![q.session].phase = "settled"]
            BY <2>1, <2>4 DEF WriteSettled
        <3> QED BY <1>1, <2>1, <2>2, <3>1, EndingOffers
    <2> QED BY <2>3, <2>4
<1> QED BY <1>4, <1>5, <1>6, <1>7

\* What a run fetches is due.
LEMMA FetchOffers == ASSUME DayInv, OfferInv, NEW r \in Runs, Fetch(r) PROVE OfferInv'
<1> PICK todo : todo = {[task |-> i, attempts |-> tasks[i].attempts] : i \in Due}
    OBVIOUS
<1> PICK run : run = [Idle EXCEPT !.todo = todo]
    OBVIOUS
<1>1. /\ runs[r] = Idle /\ runs' = [runs EXCEPT ![r].todo = todo]
      /\ UNCHANGED <<now, sessions, tasks, requests>> /\ now \in Nat
    BY DEF Fetch, DayInv
<1>2. \A x \in Runs : runs'[x] = IF x = r THEN run ELSE runs[x]
    BY <1>1 DEF DayInv, RunsOK
<1>3. run.todo = todo /\ run.doing = 0
    BY DEF Idle
<1>4. \A i \in DOMAIN tasks : tasks[i] \in Task /\ TaskOK(tasks[i])
    BY DEF OfferInv, TasksOK
<1>5. TurnOK(run)
    <2> SUFFICES ASSUME NEW e \in todo
                 PROVE  /\ e.task \in DOMAIN tasks /\ e.attempts \in Nat
                        /\ tasks[e.task].at <= now
                        /\ e.attempts < MaxAttempts(tasks[e.task].type)
        BY <1>3 DEF TurnOK
    <2> PICK i \in Due : e.task = i /\ e.attempts = tasks[i].attempts
        OBVIOUS
    <2>1. i \in DOMAIN tasks /\ tasks[i].status = "pending" /\ tasks[i].at <= now
        BY DEF Due
    <2> QED BY <1>4, <2>1 DEF TaskOK, Task
<1>6. TurnOK(run)'
    BY <1>1, <1>5 DEF TurnOK
<1>7. SessionsGrow /\ (\A i \in DOMAIN sessions' : TimesOK(sessions[i])')
      /\ now' \in Nat /\ now <= now' /\ now' + 1 <= Cardinality(Days) * DayLength
    BY <1>1, TimesOfSame DEF OfferInv
<1>8. \A x \in Runs : runs'[x] = runs[x] \/ TurnOK(runs[x])'
    BY <1>2, <1>6
<1> QED BY <1>1, <1>7, <1>8, OfferStays

\* A task changes its status or the number of its failures.
LEMMA TaskWritten ==
    ASSUME OfferInv, NEW i \in DOMAIN tasks, NEW t \in Task,
           tasks' = [tasks EXCEPT ![i] = t], SessionsGrow,
           t.type = tasks[i].type, t.nr = tasks[i].nr, t.at = tasks[i].at,
           t.attempts <= MaxAttempts(t.type),
           t.status = "pending" => t.attempts < MaxAttempts(t.type)
    PROVE  TasksGrow /\ TasksOK'
<1>1. tasks \in Seq(Task) /\ \A j \in DOMAIN tasks : TaskOK(tasks[j])
    BY DEF OfferInv, TasksOK
<1>2. /\ tasks' \in Seq(Task) /\ DOMAIN tasks' = DOMAIN tasks
      /\ \A j \in DOMAIN tasks : tasks'[j] = IF j = i THEN t ELSE tasks[j]
    BY <1>1
<1>3. \A j \in DOMAIN tasks : TaskOK(tasks[j])'
    BY <1>1, <1>2 DEF TaskOK, SessionsGrow
<1> QED BY <1>2, <1>3 DEF TasksGrow, TasksOK

\* A run takes the first task it has fetched: its phase task is due at the open
\* time, and a lock task opens no market before.
LEMMA TakeOffers == ASSUME DayInv, OfferInv, NEW r \in Runs, Take(r) PROVE OfferInv'
<1> PICK i, target :
       /\ i \in Fetched(r)
       /\ tasks' = [tasks EXCEPT ![i].status = "processing"]
       /\ runs' = [runs EXCEPT ![r].doing = i, ![r].target = target]
       /\ target = IF tasks[i].type = "phase" THEN "close_running" ELSE LockTarget(tasks[i].nr)
    BY DEF Take
<1>1. UNCHANGED <<now, sessions, requests>> /\ now \in Nat
    BY DEF Take, DayInv
<1> PICK old : old = runs[r]
    OBVIOUS
<1> PICK busy : busy = [old EXCEPT !.doing = i]
    OBVIOUS
<1> PICK run : run = [busy EXCEPT !.target = target]
    OBVIOUS
<1> PICK t : t = [tasks[i] EXCEPT !.status = "processing"]
    OBVIOUS
<1>2. old \in [todo : {old.todo}, doing : {old.doing}, target : Phases \union {"none"}]
      /\ TurnOK(old)
    BY DEF DayInv, RunsOK, OfferInv
<1>3. run.todo = old.todo /\ run.doing = i /\ run.target = target
    BY <1>2
<1>4. \A x \in Runs : runs'[x] = IF x = r THEN run ELSE runs[x]
    <2>1. runs' = [[runs EXCEPT ![r].doing = i] EXCEPT ![r].target = target]
        BY Zenon
    <2> QED BY <2>1 DEF DayInv, RunsOK
<1>5. PICK e \in old.todo : e.task = i
    BY DEF Fetched
<1>6. i \in DOMAIN tasks /\ tasks[i].at <= now /\ i # 0
      /\ tasks[i] \in Task /\ TaskOK(tasks[i]) /\ tasks \in Seq(Task)
    BY <1>2, <1>5 DEF TurnOK, OfferInv, TasksOK
<1>7. target = "close_running" => sessions[tasks[i].nr].open <= now
    <2>1. CASE tasks[i].type = "phase"
        BY <1>6, <2>1 DEF TaskOK
    <2>2. CASE tasks[i].type # "phase"
        BY <1>6, <2>2, LockTargetInTime DEF TaskOK
    <2> QED BY <2>1, <2>2
<1>8. /\ t \in Task /\ t.type = tasks[i].type /\ t.nr = tasks[i].nr /\ t.at = tasks[i].at
      /\ t.attempts = tasks[i].attempts /\ t.status = "processing"
    BY <1>6 DEF Task
<1>9. tasks' = [tasks EXCEPT ![i] = t]
    OBVIOUS
<1>10. SessionsGrow /\ (\A x \in DOMAIN sessions' : TimesOK(sessions[x])')
       /\ now' \in Nat /\ now <= now' /\ now' + 1 <= Cardinality(Days) * DayLength
    BY <1>1, TimesOfSame DEF OfferInv
<1>11. TasksGrow /\ TasksOK'
    BY <1>1, <1>6, <1>8, <1>9, <1>10, TaskWritten DEF TaskOK
<1>12. TurnOK(run)'
    <2>1. \A x \in run.todo : /\ x.task \in DOMAIN tasks' /\ x.attempts \in Nat
                              /\ tasks'[x.task].at <= now'
                              /\ x.attempts < MaxAttempts(tasks'[x.task].type)
        BY <1>1, <1>2, <1>3, <1>11 DEF TurnOK, TasksGrow
    <2>2. run.target = "close_running" => sessions'[tasks'[i].nr].open <= now'
        BY <1>1, <1>3, <1>6, <1>7, <1>11 DEF TasksGrow
    <2> QED BY <1>3, <1>5, <2>1, <2>2 DEF TurnOK
<1>13. \A x \in Runs : runs'[x] = runs[x] \/ TurnOK(runs[x])'
    BY <1>4, <1>12
<1> QED BY <1>1, <1>10, <1>11, <1>13, OfferStays

LEMMA RestOffers ==
    ASSUME NEW r \in Runs, TurnOK(runs[r]), DayInv, OfferInv, TasksGrow, now' = now,
           DOMAIN tasks' = DOMAIN tasks, runs' = [runs EXCEPT ![r] = Rest(r)]
    PROVE  \A x \in Runs : runs'[x] = runs[x] \/ TurnOK(runs[x])'
<1> PICK run, old : run = Rest(r) /\ old = runs[r]
    OBVIOUS
<1>1. run.todo \subseteq old.todo /\ run.doing = 0
    BY DEF Rest, Idle
<1>2. \A e \in run.todo : /\ e.task \in DOMAIN tasks /\ e.attempts \in Nat
                          /\ tasks[e.task].at <= now
                          /\ e.attempts < MaxAttempts(tasks[e.task].type)
    BY <1>1 DEF TurnOK
<1>3. TurnOK(run)'
    BY <1>1, <1>2 DEF TurnOK, TasksGrow
<1>4. \A x \in Runs : runs'[x] = IF x = r THEN run ELSE runs[x]
    BY DEF DayInv, RunsOK
<1> QED BY <1>3, <1>4

LEMMA FinishOffers == ASSUME DayInv, OfferInv, NEW r \in Runs, Finish(r) PROVE OfferInv'
<1> PICK i : i = runs[r].doing
    OBVIOUS
<1> PICK t : t = [tasks[i] EXCEPT !.status = "completed"]
    OBVIOUS
<1>1. /\ i # 0 /\ UNCHANGED <<now, requests>> /\ now \in Nat
      /\ sessions' = PhaseSet(tasks[i].nr, runs[r].target)
      /\ tasks' = [tasks EXCEPT ![i].status = "completed"]
      /\ runs' = [runs EXCEPT ![r] = Rest(r)]
    BY DEF Finish, DayInv
<1>2. TurnOK(runs[r])
    BY DEF OfferInv
<1>3. i \in DOMAIN tasks
    BY <1>1, <1>2 DEF TurnOK
<1>4. tasks[i] \in Task /\ TaskOK(tasks[i]) /\ tasks \in Seq(Task)
    BY <1>3 DEF OfferInv, TasksOK
<1>5. /\ t \in Task /\ t.type = tasks[i].type /\ t.nr = tasks[i].nr /\ t.at = tasks[i].at
      /\ t.attempts = tasks[i].attempts /\ t.status = "completed"
    BY <1>4 DEF Task
<1>6. tasks' = [tasks EXCEPT ![i] = t]
    BY <1>1
<1>7. SessionsGrow /\ \A x \in DOMAIN sessions' : TimesOK(sessions[x])'
    BY <1>1, <1>2, PhaseSetOffers DEF TurnOK
<1>8. TasksGrow /\ TasksOK'
    BY <1>3, <1>4, <1>5, <1>6, <1>7, TaskWritten DEF TaskOK
<1>9. \A x \in Runs : runs'[x] = runs[x] \/ TurnOK(runs[x])'
    BY <1>1, <1>2, <1>6, <1>8, RestOffers
<1>10. now' \in Nat /\ now <= now' /\ now' + 1 <= Cardinality(Days) * DayLength
    BY <1>1 DEF OfferInv
<1> QED BY <1>1, <1>7, <1>8, <1>9, <1>10, OfferStays

LEMMA FailOffers == ASSUME DayInv, OfferInv, NEW r \in Runs, Fail(r) PROVE OfferInv'
<1> PICK e \in runs[r].todo :
       /\ e.task = runs[r].doing
       /\ tasks' = [tasks EXCEPT ![e.task].attempts = e.attempts + 1,
                      ![e.task].status = AfterFailure(tasks[e.task].type, e.attempts + 1)]
    BY DEF Fail
<1> PICK i, n : i = e.task /\ n = e.attempts + 1
    OBVIOUS
<1> PICK status : status = AfterFailure(tasks[i].type, n)
    OBVIOUS
<1> PICK failed : failed = [tasks[i] EXCEPT !.attempts = n]
    OBVIOUS
<1> PICK t : t = [failed EXCEPT !.status = status]
    OBVIOUS
<1>1. /\ UNCHANGED <<now, sessions, requests>> /\ now \in Nat
      /\ runs' = [runs EXCEPT ![r] = Rest(r)]
    BY DEF Fail, DayInv
<1>2. TurnOK(runs[r])
    BY DEF OfferInv
<1>3. /\ i \in DOMAIN tasks /\ n \in Nat /\ n <= MaxAttempts(tasks[i].type)
    BY <1>2 DEF TurnOK, MaxAttempts
<1>4. tasks[i] \in Task /\ TaskOK(tasks[i]) /\ tasks \in Seq(Task)
    BY <1>3 DEF OfferInv, TasksOK
<1>5. status \in {"failed", "pending"} /\ (status = "pending" => n < MaxAttempts(tasks[i].type))
    BY <1>3 DEF AfterFailure, MaxAttempts
<1>6. /\ failed \in Task /\ failed.type = tasks[i].type /\ failed.nr = tasks[i].nr
      /\ failed.at = tasks[i].at /\ failed.attempts = n
    BY <1>3, <1>4 DEF Task
<1>7. /\ t \in Task /\ t.type = tasks[i].type /\ t.nr = tasks[i].nr /\ t.at = tasks[i].at
      /\ t.attempts = n /\ t.status = status
    BY <1>5, <1>6 DEF Task
<1>8. tasks' = [tasks EXCEPT ![i] = t]
    <2>1. tasks' = [[tasks EXCEPT ![i].attempts = n] EXCEPT ![i].status = status]
        BY Zenon
    <2> QED BY <1>4, <2>1
<1>9. SessionsGrow /\ (\A x \in DOMAIN sessions' : TimesOK(sessions[x])')
      /\ now' \in Nat /\ now <= now' /\ now' + 1 <= Cardinality(Days) * DayLength
    BY <1>1, TimesOfSame DEF OfferInv
<1>10. TasksGrow /\ TasksOK'
    <2>1. /\ t.attempts <= MaxAttempts(t.type)
          /\ t.status = "pending" => t.attempts < MaxAttempts(t.type)
        BY <1>3, <1>5, <1>7
    <2> QED BY <1>3, <1>7, <1>8, <1>9, <2>1, TaskWritten
<1>11. \A x \in Runs : runs'[x] = runs[x] \/ TurnOK(runs[x])'
    BY <1>1, <1>2, <1>8, <1>10, RestOffers
<1> QED BY <1>1, <1>9, <1>10, <1>11, OfferStays

LEMMA CrashOffers == ASSUME DayInv, OfferInv, Crash PROVE OfferInv'
<1>1. /\ UNCHANGED <<now, tasks>> /\ now \in Nat /\ requests' \subseteq requests
      /\ runs' = [r \in Runs |-> Idle]
    BY DEF Crash, DayInv
<1>2. /\ DOMAIN sessions' = DOMAIN sessions
      /\ \A nr \in DOMAIN sessions : /\ sessions'[nr].open = sessions[nr].open
                                     /\ sessions'[nr].close = sessions[nr].close
                                     /\ sessions'[nr].phase = sessions[nr].phase
    <2>1. \A nr \in DOMAIN sessions : sessions[nr] \in Session
        BY DEF DayInv, SessionsInv
    <2> QED BY <2>1 DEF Crash, Session
<1>3. SessionsGrow
    BY <1>2 DEF SessionsGrow
<1>4. \A nr \in DOMAIN sessions' : TimesOK(sessions[nr])'
    BY <1>1, <1>2 DEF OfferInv, TimesOK
<1>5. \A r \in Runs : TurnOK(runs[r])'
    BY <1>1 DEF Idle, TurnOK
<1>6. now' \in Nat /\ now <= now' /\ now' + 1 <= Cardinality(Days) * DayLength
    BY <1>1 DEF OfferInv
<1> QED BY <1>1, <1>3, <1>4, <1>5, <1>6, OfferStays

LEMMA OfferStep == ASSUME DayInv, OfferInv, [Next]_vars PROVE OfferInv'
<1>1. CASE \E j \in JobNames : StartJob(j)
    BY <1>1, CreatorOffers
<1>2. CASE CreatorStep
    BY <1>2, CreatorOffers, InsertOffers DEF CreatorStep
<1>3. CASE \E r \in Runs : RunnerStep(r) \/ Fail(r)
    BY <1>3, FetchOffers, TakeOffers, FinishOffers, FailOffers DEF RunnerStep
<1>4. CASE UNCHANGED vars
    <2>1. UNCHANGED <<now, sessions, tasks, runs, requests>>
        BY <1>4 DEF vars
    <2> QED BY <2>1, OfferOfSame
<1> QED BY <1>1, <1>2, <1>3, <1>4, TickOffers, MarketStepsOffer, AsksOffer, DeclareOffers,
         WriteOffers, CrashOffers DEF Next

LEMMA AlwaysOfferInv == Spec => [](DayInv /\ OfferInv)
<1>1. DayInv /\ OfferInv /\ [Next]_vars => DayInv' /\ OfferInv'
    BY DayStep, OfferStep
<1> QED BY <1>1, DayInit, OfferInit, PTL DEF Spec

\* Time stays within the days, sessions open before they close, and no task is
\* tried more often than it may, for any number of markets, days, and runs of the
\* task runner that overlap.
THEOREM DayTypeCorrect == Spec => []TypeOK
<1>1. ASSUME DayInv, OfferInv PROVE TypeOK
    <2> PICK n : n = Cardinality(Days) * DayLength
        OBVIOUS
    <2>1. n \in Nat
        <3> PICK c, d : c = Cardinality(Days) /\ d = DayLength
            OBVIOUS
        <3>1. c \in Nat /\ d \in Nat
            BY DayAssumption
        <3> QED BY <3>1
    <2>2. now \in 0 .. n - 1
        BY <1>1, <2>1 DEF DayInv, OfferInv
    <2>3. ASSUME NEW nr \in DOMAIN sessions
          PROVE  /\ sessions[nr].status \in {"active", "settled", "cancelled"}
                 /\ sessions[nr].phase \in Running \union {"market_closed", "settled"}
                 /\ sessions[nr].open < sessions[nr].close
        <3>1. sessions[nr] \in Session /\ TimesOK(sessions[nr])
            BY <1>1 DEF DayInv, SessionsInv, OfferInv
        <3> QED BY <3>1 DEF Session, Phases, TimesOK
    <2>4. \A i \in DOMAIN tasks : tasks[i].attempts <= MaxAttempts(tasks[i].type)
        BY <1>1 DEF OfferInv, TasksOK, TaskOK
    <2>5. \A r \in Runs : runs[r].doing \in {0} \union DOMAIN tasks
        BY <1>1 DEF OfferInv, TurnOK
    <2> QED BY <2>2, <2>3, <2>4, <2>5 DEF TypeOK
<1> QED BY <1>1, AlwaysOfferInv, PTL

\* A bet that would be admitted is one that the lists and the summary offer.
LEMMA ListedFollows == ASSUME DayInv, OfferInv PROVE EligibleIsListed
<1> SUFFICES ASSUME NEW m \in Markets, NEW nr \in Today(m)
             PROVE
       /\ (Eligible(nr, "open") /\ market[m].active /\ now # sessions[nr].open)
            => CanPlaceOpenBets(m)
       /\ Eligible(nr, "open") =>
            SummaryStatus(nr) = "in-open" /\ GameResults(SessionDate)[nr] = "NOT_DECLARED"
       /\ Eligible(nr, "close") =>
            /\ SummaryStatus(nr) \in {"in-open", "in-close"}
            /\ GameResults(SessionDate)[nr] = "FULL_DECLARED" => sessions[nr].declared["close"] = now
            /\ UserStatus(nr) = "active" /\ TodaysResults[nr] \in Running
            /\ market[m].active => nr \in MarketStatus(m) \intersect AdminOverview[m] /\ IsOpen(nr)
    BY DEF EligibleIsListed
<1>1. /\ nr \in Stored /\ nr \in DOMAIN sessions
      /\ sessions[nr].market = m /\ sessions[nr].day = SessionDate
    BY DEF Today, SessionsOf, Stored
<1>2. sessions[nr] \in Session /\ TimesOK(sessions[nr])
    BY <1>1 DEF DayInv, SessionsInv, OfferInv
<1>3. now \in Nat /\ sessions[nr].open \in Int /\ sessions[nr].close \in Int
      /\ sessions[nr].open < sessions[nr].close
    BY <1>2 DEF DayInv, Session, TimesOK
<1>4. ASSUME IsActive(nr)
      PROVE  /\ GameResults(SessionDate)[nr] = ResultStatus(nr)
             /\ TodaysResults[nr] = sessions[nr].phase
    BY <1>1, <1>4 DEF GameResults, TodaysResults
<1>5. ASSUME Eligible(nr, "open"), market[m].active, now # sessions[nr].open
      PROVE  CanPlaceOpenBets(m)
    <2>1. sessions[nr].phase # "close_running"
        BY <1>2, <1>3, <1>5 DEF Eligible, TimesOK
    <2> QED BY <1>5, <2>1 DEF Eligible, IsActive, Running, CanPlaceOpenBets
<1>6. ASSUME Eligible(nr, "open")
      PROVE  SummaryStatus(nr) = "in-open" /\ GameResults(SessionDate)[nr] = "NOT_DECLARED"
    <2>1. /\ IsActive(nr) /\ sessions[nr].phase \in Running /\ ~Declared(nr, "open")
          /\ now <= sessions[nr].open
        BY <1>6 DEF Eligible
    <2>2. SummaryStatus(nr) = "in-open"
        BY <1>3, <2>1 DEF SummaryStatus, Running
    <2>3. ResultStatus(nr) = "NOT_DECLARED"
        BY <2>1 DEF ResultStatus, Running, Modes
    <2> QED BY <1>4, <2>1, <2>2, <2>3
<1>7. ASSUME Eligible(nr, "close")
      PROVE  /\ SummaryStatus(nr) \in {"in-open", "in-close"}
             /\ GameResults(SessionDate)[nr] = "FULL_DECLARED" => sessions[nr].declared["close"] = now
             /\ UserStatus(nr) = "active" /\ TodaysResults[nr] \in Running
             /\ market[m].active => nr \in MarketStatus(m) \intersect AdminOverview[m] /\ IsOpen(nr)
    <2>1. IsActive(nr) /\ sessions[nr].phase \in Running /\ now <= sessions[nr].close
        BY <1>7 DEF Eligible
    <2>2. SummaryStatus(nr) \in {"in-open", "in-close"}
        BY <1>3, <2>1 DEF SummaryStatus, Running
    <2>3. ResultStatus(nr) = "FULL_DECLARED" => Declared(nr, "close")
        BY <2>1 DEF ResultStatus, Running, Modes
    <2>4. Declared(nr, "close") => sessions[nr].declared["close"] = now
        BY <1>1, <1>7, BlindFollows DEF AdmittedBlind, Modes
    <2>5. UserStatus(nr) = "active" /\ TodaysResults[nr] \in Running
        BY <1>4, <2>1 DEF UserStatus
    <2>6. market[m].active => nr \in MarketStatus(m) \intersect AdminOverview[m] /\ IsOpen(nr)
        BY <2>1 DEF MarketStatus, AdminOverview, IsOpen
    <2> QED BY <1>4, <2>1, <2>2, <2>3, <2>4, <2>5, <2>6
<1> QED BY <1>5, <1>6, <1>7

\* What is admitted is offered: the lists, the summary and the results agree with
\* the admission of bets, for any number of markets, of requests and of task runs
\* that overlap.
THEOREM AdmittedIsListed == Spec => []EligibleIsListed
BY ListedFollows, AlwaysOfferInv, PTL
=============================================================================
