---------------------------- MODULE AccountsProofs ----------------------------
(***************************************************************************)
(* What holds of the accounts and the devices for any number of users,     *)
(* tokens, messages and requests in flight: a session that was ended stays *)
(* so unless a request was overtaken, a device that can be reached is not  *)
(* switched off unless the provider finds fault with a message, a phone    *)
(* has one account, and the bank details of a user are in order unless a   *)
(* request on them was overtaken by another.                               *)
(***************************************************************************)
EXTENDS Accounts, SumLemmas, TLAPS

Account ==
    [phone : Phones \union {"none"}, status : {"active", "banned", "none"},
     token : Nat, reset : Nat]

\* A request that opens a session was made after the sessions were last ended,
\* or is known to be overtaken.
RequestOK(r) ==
    /\ r \in [kind : {r.kind}, nr : 1 .. asked, user : {r.user}, more : {r.more}]
    /\ r.kind = "issue" => /\ r.user \in UserIds
                           /\ r.nr \in stale \/ r.nr > ended[r.user]
    /\ r.kind = "register" => r.more \in Phones

UsersOK ==
    /\ asked \in Nat
    /\ users \in [UserIds -> Account]
    /\ ended \in [UserIds -> Nat]
    /\ \A u \in UserIds : ended[u] <= asked
    /\ \A u \in UserIds : u \notin DOMAIN wallets => users[u] = NoUser /\ ended[u] = 0

UsersInv == UsersOK /\ (\A r \in inflight : RequestOK(r)) /\ SessionsStayEnded

SendOK(s) ==
    /\ s \in [nr : {s.nr}, left : SUBSET Tokens, invalid : SUBSET Tokens]
    /\ "device" \notin disturbed => s.invalid \intersect live = {}

\* What a message calls invalid cannot be reached while nothing is disturbed.
DevicesInv ==
    /\ devices = [t \in Tokens |-> devices[t]]
    /\ wanted = [t \in Tokens |-> wanted[t]]
    /\ live \subseteq Tokens
    /\ \A s \in sends : SendOK(s)
    /\ DevicesReachable

-----------------------------------------------------------------------------
(* Sessions *)

LEMMA UsersInit == Init => UsersInv
<1> SUFFICES ASSUME Init PROVE UsersInv
    OBVIOUS
<1> PICK phone \in Phones :
       users = [u \in UserIds |-> IF u = 1 THEN NewUser(phone) ELSE NoUser]
    BY DEF Init
<1>1. NewUser(phone) \in Account /\ NoUser \in Account
    BY DEF NewUser, NoUser, Account
<1>2. \A u \in UserIds : users[u].token = 0
    BY DEF NewUser, NoUser
<1>3. UsersOK
    BY <1>1 DEF Init, UsersOK
<1>4. SessionsStayEnded
    BY <1>2 DEF SessionsStayEnded, Existing
<1> QED BY <1>3, <1>4 DEF Init, UsersInv

\* A step that writes no account.
LEMMA UsersStay ==
    ASSUME UsersInv, UNCHANGED <<users, wallets, ended, stale>>,
           asked' \in {asked, asked + 1}, disturbed \subseteq disturbed',
           \A r \in inflight' : r \in inflight \/ RequestOK(r)'
    PROVE  UsersInv'
<1>1. asked \in Nat /\ asked' \in Nat /\ asked <= asked'
    BY DEF UsersInv, UsersOK
<1>2. UsersOK'
    BY <1>1 DEF UsersInv, UsersOK
<1>3. \A r \in inflight : RequestOK(r)'
    BY <1>1 DEF UsersInv, RequestOK
<1>4. SessionsStayEnded'
    BY DEF UsersInv, SessionsStayEnded, Existing
<1> QED BY <1>2, <1>3, <1>4 DEF UsersInv

LEMMA AskIsQuiet ==
    ASSUME UsersInv, NEW kind, NEW u, NEW more, kind = "issue" => u \in UserIds,
           kind = "register" => more \in Phones, Ask(kind, u, more)
    PROVE  UsersInv'
<1> PICK r : r = [kind |-> kind, nr |-> asked + 1, user |-> u, more |-> more]
    OBVIOUS
<1>1. /\ UNCHANGED <<users, wallets, ended, stale, disturbed>>
      /\ asked' = asked + 1 /\ asked \in Nat
      /\ inflight' = inflight \union {r}
    BY DEF Ask, CountRequest, userVars, bankVars, deviceVars, UsersInv, UsersOK
<1>2. r.nr = asked + 1 /\ r.kind = kind /\ r.user = u /\ r.more = more
      /\ r \in [kind : {r.kind}, nr : 1 .. asked + 1, user : {r.user}, more : {r.more}]
    BY <1>1
<1>3. kind = "issue" => u \in UserIds /\ asked + 1 > ended[u]
    BY <1>1 DEF UsersInv, UsersOK
<1>4. RequestOK(r)'
    BY <1>1, <1>2, <1>3 DEF RequestOK
<1> QED BY <1>1, <1>4, UsersStay

\* A request that goes on to a step that opens no session, or is finished.
LEMMA GoingOnIsQuiet ==
    ASSUME UsersInv, NEW r \in inflight, NEW next,
           UNCHANGED <<users, wallets, ended, stale, asked>>, disturbed \subseteq disturbed',
           inflight' \subseteq inflight \union {next},
           next \in [kind : {next.kind}, nr : {r.nr}, user : {next.user}, more : {next.more}],
           next.kind \notin {"issue", "register"}
    PROVE  UsersInv'
<1>1. RequestOK(r)
    BY DEF UsersInv
<1>2. RequestOK(next)'
    BY <1>1 DEF RequestOK
<1> QED BY <1>2, UsersStay

LEMMA FinishingIsQuiet ==
    ASSUME UsersInv, UNCHANGED <<users, wallets, ended, stale>>,
           asked' \in {asked, asked + 1}, disturbed \subseteq disturbed',
           inflight' \subseteq inflight
    PROVE  UsersInv'
BY UsersStay

\* The account of a user changes, and those who have read it are overtaken; the
\* sessions of the user may be ended as of this moment.
LEMMA AccountChanges ==
    ASSUME UsersInv, NEW u \in UserIds, NEW account \in Account,
           u \in DOMAIN wallets, UNCHANGED wallets,
           users' = [users EXCEPT ![u] = account], Overtakes(u),
           asked' \in {asked, asked + 1}, disturbed \subseteq disturbed',
           ended' = ended \/ ended' = [ended EXCEPT ![u] = asked'],
           \A r \in inflight' : \/ r \in inflight
                                \/ r.kind # "issue" /\ RequestOK(r)',
           "user" \notin disturbed' => account.token = 0 \/ account.token > ended'[u]
    PROVE  UsersInv'
<1>1. asked \in Nat /\ asked' \in Nat /\ asked <= asked'
    BY DEF UsersInv, UsersOK
<1>2. \A v \in UserIds : ended'[v] = IF v = u /\ ended' # ended THEN asked' ELSE ended[v]
    BY DEF UsersInv, UsersOK
<1>3. UsersOK'
    <2>1. users' \in [UserIds -> Account]
        BY DEF UsersInv, UsersOK
    <2>2. ended' \in [UserIds -> Nat]
        BY <1>1 DEF UsersInv, UsersOK
    <2>3. \A v \in UserIds : ended'[v] <= asked'
        BY <1>1, <1>2 DEF UsersInv, UsersOK
    <2>4. \A v \in UserIds : v \notin DOMAIN wallets => users'[v] = NoUser /\ ended'[v] = 0
        BY <1>2 DEF UsersInv, UsersOK
    <2> QED BY <1>1, <2>1, <2>2, <2>3, <2>4 DEF UsersOK
<1>4. ASSUME NEW r \in inflight PROVE RequestOK(r)'
    <2>1. RequestOK(r)
        BY DEF UsersInv
    <2>2. r \in [kind : {r.kind}, nr : 1 .. asked', user : {r.user}, more : {r.more}]
        BY <1>1, <2>1 DEF RequestOK
    <2>3. ASSUME r.kind = "issue" PROVE r.nr \in stale' \/ r.nr > ended'[r.user]
        <3>1. CASE r.user = u
            BY <2>3, <3>1 DEF Overtakes
        <3>2. CASE r.user # u
            BY <1>2, <2>1, <2>3, <3>2 DEF RequestOK, Overtakes
        <3> QED BY <3>1, <3>2
    <2> QED BY <2>1, <2>2, <2>3 DEF RequestOK
<1>5. SessionsStayEnded'
    <2> SUFFICES ASSUME "user" \notin disturbed', NEW v \in Existing'
                 PROVE  users'[v].token = 0 \/ users'[v].token > ended'[v]
        BY DEF SessionsStayEnded
    <2>1. v \in UserIds
        BY DEF Existing
    <2>2. CASE v = u
        BY <2>2 DEF UsersInv, UsersOK
    <2>3. CASE v # u
        <3>1. users'[v] = users[v] /\ ended'[v] = ended[v]
            BY <1>2, <2>1, <2>3 DEF UsersInv, UsersOK
        <3>2. v \in Existing /\ "user" \notin disturbed
            BY <2>1, <3>1 DEF Existing
        <3> QED BY <3>1, <3>2 DEF UsersInv, SessionsStayEnded
    <2> QED BY <2>2, <2>3
<1> QED BY <1>3, <1>4, <1>5 DEF UsersInv

\* A write by the account's number, without an earlier read.
LEMMA WriteKeeps ==
    ASSUME UsersInv, NEW u \in Existing, NEW account \in Account, Write(u, account),
           \/ ended' = ended /\ account.token \in {0, users[u].token}
           \/ EndSessions(u) /\ account.token = 0
    PROVE  UsersInv'
<1>1. u \in UserIds /\ u \in DOMAIN wallets
    BY DEF Existing, UsersInv, UsersOK
<1>2. /\ users' = [users EXCEPT ![u] = account] /\ Overtakes(u)
      /\ UNCHANGED <<wallets, inflight, disturbed>> /\ asked' = asked + 1
    BY DEF Write, CountRequest
<1>3. ended' = ended \/ ended' = [ended EXCEPT ![u] = asked']
    BY <1>2 DEF EndSessions
<1>4. "user" \notin disturbed' => account.token = 0 \/ account.token > ended'[u]
    BY <1>2 DEF UsersInv, SessionsStayEnded
<1> QED BY <1>1, <1>2, <1>3, <1>4, AccountChanges

LEMMA UserWritesKeep ==
    ASSUME UsersInv, NEW u \in Existing,
           \/ Logout(u) \/ BlockUser(u) \/ UnblockUser(u) \/ ForgotPassword(u)
           \/ DeleteAccount(u) \/ \E phone \in Phones : UpdateProfile(u, phone)
    PROVE  UsersInv'
<1>1. users[u] \in Account /\ asked \in Nat
    BY DEF Existing, UsersInv, UsersOK
<1>2. CASE Logout(u)
    <2> PICK account : account = [users[u] EXCEPT !.token = 0]
        OBVIOUS
    <2>1. account \in Account /\ account.token = 0
        BY <1>1 DEF Account
    <2> QED BY <1>2, <2>1, WriteKeeps DEF Logout
<1>3. CASE BlockUser(u)
    <2> PICK banned : banned = [users[u] EXCEPT !.status = "banned"]
        OBVIOUS
    <2> PICK account : account = [banned EXCEPT !.token = 0]
        OBVIOUS
    <2>1. banned \in Account
        BY <1>1 DEF Account
    <2>2. account \in Account /\ account.token = 0
        BY <2>1 DEF Account
    <2>3. account = Blocked(u)
        BY Zenon DEF Blocked
    <2> QED BY <1>3, <2>2, <2>3, WriteKeeps DEF BlockUser
<1>4. CASE UnblockUser(u)
    <2> PICK account : account = [users[u] EXCEPT !.status = "active"]
        OBVIOUS
    <2>1. account \in Account /\ account.token = users[u].token
        BY <1>1 DEF Account
    <2> QED BY <1>4, <2>1, WriteKeeps DEF UnblockUser
<1>5. CASE ForgotPassword(u)
    <2> PICK account : account = [users[u] EXCEPT !.reset = asked + 1]
        OBVIOUS
    <2>1. account \in Account /\ account.token = users[u].token
        BY <1>1 DEF Account
    <2> QED BY <1>5, <2>1, WriteKeeps DEF ForgotPassword
<1>6. CASE DeleteAccount(u)
    <2>1. NoUser \in Account /\ NoUser.token = 0
        BY DEF NoUser, Account
    <2> QED BY <1>6, <2>1, WriteKeeps DEF DeleteAccount
<1>7. ASSUME NEW phone \in Phones, UpdateProfile(u, phone) PROVE UsersInv'
    <2> PICK account : account = [users[u] EXCEPT !.phone = phone]
        OBVIOUS
    <2>1. account \in Account /\ account.token = users[u].token
        BY <1>1 DEF Account
    <2> QED BY <1>7, <2>1, WriteKeeps DEF UpdateProfile
<1> QED BY <1>2, <1>3, <1>4, <1>5, <1>6, <1>7

\* A new account takes a number that was never used.
LEMMA RegisterKeeps ==
    ASSUME UsersInv, NEW r \in inflight, CommitRegister(r) PROVE UsersInv'
<1> PICK u \in UserIds \ DOMAIN wallets :
       /\ users' = [users EXCEPT ![u] = NewUser(r.more)]
       /\ wallets' = [v \in DOMAIN wallets \union {u} |-> IF v = u THEN Bonus ELSE wallets[v]]
       /\ Proceed(r, [r EXCEPT !.kind = "issue", !.user = u])
    BY DEF CommitRegister
<1>1. UNCHANGED <<stale, ended, asked, disturbed>> /\ r.kind = "register"
    BY DEF CommitRegister
<1>2. users[u] = NoUser /\ ended[u] = 0 /\ RequestOK(r) /\ asked \in Nat
    BY DEF UsersInv, UsersOK
<1> PICK known : known = [r EXCEPT !.kind = "issue"]
    OBVIOUS
<1> PICK next : next = [known EXCEPT !.user = u]
    OBVIOUS
<1>3. inflight' \subseteq inflight \union {next}
    <2>1. next = [r EXCEPT !.kind = "issue", !.user = u]
        BY Zenon
    <2> QED BY <2>1 DEF Proceed
<1>4. next \in [kind : {next.kind}, nr : {r.nr}, user : {u}, more : {next.more}]
    <2>1. known \in [kind : {known.kind}, nr : {r.nr}, user : {known.user}, more : {known.more}]
        BY <1>2 DEF RequestOK
    <2> QED BY <2>1
<1>5. RequestOK(next)'
    BY <1>1, <1>2, <1>4 DEF RequestOK
<1>6. NewUser(r.more) \in Account /\ NewUser(r.more).token = 0
    BY <1>1, <1>2 DEF RequestOK, NewUser, Account
<1>7. DOMAIN wallets' = DOMAIN wallets \union {u}
    OBVIOUS
<1>8. UsersOK'
    BY <1>1, <1>2, <1>6, <1>7 DEF UsersInv, UsersOK
<1>9. \A q \in inflight : RequestOK(q)'
    BY <1>1 DEF UsersInv, RequestOK
<1>10. SessionsStayEnded'
    <2> SUFFICES ASSUME "user" \notin disturbed', NEW v \in Existing'
                 PROVE  users'[v].token = 0 \/ users'[v].token > ended'[v]
        BY DEF SessionsStayEnded
    <2>1. CASE v = u
        BY <1>6, <2>1 DEF UsersInv, UsersOK
    <2>2. CASE v # u
        <3>1. users'[v] = users[v] /\ ended'[v] = ended[v] /\ v \in Existing
            BY <1>1, <2>2 DEF Existing, UsersInv, UsersOK
        <3> QED BY <1>1, <3>1 DEF UsersInv, SessionsStayEnded
    <2> QED BY <2>1, <2>2
<1> QED BY <1>3, <1>5, <1>8, <1>9, <1>10 DEF UsersInv

LEMMA IssueKeeps == ASSUME UsersInv, NEW r \in inflight, IssueTokens(r) PROVE UsersInv'
<1> PICK account : account = [users[r.user] EXCEPT !.token = r.nr]
    OBVIOUS
<1>1. /\ r.user \in Existing /\ users' = [users EXCEPT ![r.user] = account]
      /\ Overtakes(r.user) /\ UNCHANGED <<wallets, asked, ended>>
      /\ disturbed' = disturbed \union (IF r.nr \in stale THEN {"user"} ELSE {})
      /\ inflight' \subseteq inflight /\ r.kind = "issue"
    BY DEF IssueTokens, WriteLate, Done
<1>2. RequestOK(r) /\ r.user \in UserIds /\ r.user \in DOMAIN wallets
    BY <1>1 DEF Existing, UsersInv, UsersOK
<1>3. account \in Account /\ account.token = r.nr
    BY <1>2 DEF UsersInv, UsersOK, RequestOK, Account
<1>4. "user" \notin disturbed' => account.token > ended'[r.user]
    BY <1>1, <1>2, <1>3 DEF RequestOK
<1> QED BY <1>1, <1>2, <1>3, <1>4, AccountChanges

LEMMA PasswordKeeps == ASSUME UsersInv, NEW r \in inflight, UpdatePassword(r) PROVE UsersInv'
<1> PICK out : out = [users[r.user] EXCEPT !.token = 0]
    OBVIOUS
<1> PICK account : account = [out EXCEPT !.reset = 0]
    OBVIOUS
<1> PICK next : next = [r EXCEPT !.kind = "clear"]
    OBVIOUS
<1>1. /\ r.user \in Existing /\ users' = [users EXCEPT ![r.user] = account]
      /\ Overtakes(r.user) /\ UNCHANGED <<wallets, asked>>
      /\ disturbed \subseteq disturbed' /\ inflight' \subseteq inflight \union {next}
      /\ ended' = [ended EXCEPT ![r.user] = asked]
    <2>1. account = [users[r.user] EXCEPT !.token = 0, !.reset = 0]
        BY Zenon
    <2> QED BY <2>1 DEF UpdatePassword, WriteLate, Proceed
<1>2. RequestOK(r) /\ r.user \in UserIds /\ r.user \in DOMAIN wallets
    BY <1>1 DEF Existing, UsersInv, UsersOK
<1>3. account \in Account /\ account.token = 0
    <2>1. out \in Account /\ out.token = 0
        BY <1>2 DEF UsersInv, UsersOK, Account
    <2> QED BY <2>1 DEF Account
<1>4. next.kind = "clear" /\ RequestOK(next)'
    BY <1>1, <1>2 DEF RequestOK
<1> QED BY <1>1, <1>2, <1>3, <1>4, AccountChanges

LEMMA ClearKeeps == ASSUME UsersInv, NEW r \in inflight, ClearRefreshToken(r) PROVE UsersInv'
<1> PICK account : account = [users[r.user] EXCEPT !.token = 0]
    OBVIOUS
<1> PICK unread : unread = [r EXCEPT !.nr = 0]
    OBVIOUS
<1>1. RequestOK(r)
    BY DEF UsersInv
<1>2. unread.user = r.user
    BY <1>1 DEF RequestOK
<1>3. WriteLate(unread, account) /\ inflight' \subseteq inflight /\ UNCHANGED ended
    BY DEF ClearRefreshToken, Done
<1>4. /\ r.user \in Existing /\ users' = [users EXCEPT ![r.user] = account]
      /\ Overtakes(r.user) /\ UNCHANGED <<wallets, asked>> /\ disturbed \subseteq disturbed'
    BY <1>2, <1>3 DEF WriteLate
<1>5. r.user \in UserIds /\ r.user \in DOMAIN wallets
    BY <1>4 DEF Existing, UsersInv, UsersOK
<1>6. account \in Account /\ account.token = 0
    BY <1>5 DEF UsersInv, UsersOK, Account
<1> QED BY <1>3, <1>4, <1>5, <1>6, AccountChanges

\* Bank and UPI accounts: no account of a user is written.
LEMMA BankStepsKeep ==
    ASSUME UsersInv, NEW r \in inflight,
           \/ ClearDefaults(r) \/ (\E upi \in BOOLEAN : InsertBank(r, upi)) \/ SaveUpi(r)
           \/ DeleteBank(r) \/ FindFirst(r) \/ PromoteFirst(r) \/ Withdraw(r) \/ Abandon(r)
    PROVE  UsersInv'
<1> USE DEF userVars, bankVars, deviceVars
<1>1. RequestOK(r)
    BY DEF UsersInv
<1>2. CASE ClearDefaults(r)
    <2> PICK seen : inflight' = (inflight \ {r}) \union
                      {[r EXCEPT !.more.clears = FALSE, !.more.seen = seen]}
        BY <1>2 DEF ClearDefaults, Proceed
    <2> PICK cleared : cleared = [r EXCEPT !.more.clears = FALSE]
        OBVIOUS
    <2> PICK next : next = [cleared EXCEPT !.more.seen = seen]
        OBVIOUS
    <2>1. inflight' \subseteq inflight \union {next}
        <3>1. next = [r EXCEPT !.more.clears = FALSE, !.more.seen = seen]
            BY Zenon
        <3> QED BY <3>1
    <2>2. /\ next.kind \notin {"issue", "register"}
          /\ next \in [kind : {next.kind}, nr : {r.nr}, user : {next.user}, more : {next.more}]
        BY <1>1, <1>2 DEF RequestOK, ClearDefaults
    <2>3. UNCHANGED <<users, wallets, ended, stale, asked>> /\ disturbed \subseteq disturbed'
        BY <1>2 DEF ClearDefaults, WriteBank
    <2> QED BY <2>1, <2>2, <2>3, GoingOnIsQuiet
<1>3. CASE \E upi \in BOOLEAN : InsertBank(r, upi)
    <2>1. /\ UNCHANGED <<users, wallets, ended, stale, asked>> /\ disturbed \subseteq disturbed'
          /\ inflight' \subseteq inflight
        BY <1>3 DEF InsertBank, WriteBank, Done
    <2> QED BY <2>1, FinishingIsQuiet
<1>4. CASE SaveUpi(r)
    <2>1. /\ UNCHANGED <<users, wallets, ended, stale, asked>> /\ disturbed \subseteq disturbed'
          /\ inflight' \subseteq inflight
        BY <1>4 DEF SaveUpi, WriteBank, Done
    <2> QED BY <2>1, FinishingIsQuiet
<1>5. CASE DeleteBank(r)
    <2> PICK named : named = [r EXCEPT !.kind = "promote"]
        OBVIOUS
    <2> PICK next : next = [named EXCEPT !.more = "none"]
        OBVIOUS
    <2>1. inflight' \subseteq inflight \union {next}
        <3>1. next = [r EXCEPT !.kind = "promote", !.more = "none"]
            BY Zenon
        <3> QED BY <1>5, <3>1 DEF DeleteBank, Proceed, Done
    <2>2. /\ next.kind \notin {"issue", "register"}
          /\ next \in [kind : {next.kind}, nr : {r.nr}, user : {next.user}, more : {next.more}]
        <3>1. /\ named.kind = "promote"
              /\ named \in [kind : {named.kind}, nr : {r.nr}, user : {named.user}, more : {named.more}]
            BY <1>1 DEF RequestOK
        <3> QED BY <3>1
    <2>3. UNCHANGED <<users, wallets, ended, stale, asked>> /\ disturbed \subseteq disturbed'
        BY <1>5 DEF DeleteBank
    <2> QED BY <2>1, <2>2, <2>3, GoingOnIsQuiet
<1>6. CASE FindFirst(r)
    <2> PICK more : inflight' = (inflight \ {r}) \union {[r EXCEPT !.kind = "first", !.more = more]}
        BY <1>6 DEF FindFirst, Proceed
    <2> PICK named : named = [r EXCEPT !.kind = "first"]
        OBVIOUS
    <2> PICK next : next = [named EXCEPT !.more = more]
        OBVIOUS
    <2>1. inflight' \subseteq inflight \union {next}
        <3>1. next = [r EXCEPT !.kind = "first", !.more = more]
            BY Zenon
        <3> QED BY <3>1
    <2>2. /\ next.kind \notin {"issue", "register"}
          /\ next \in [kind : {next.kind}, nr : {r.nr}, user : {next.user}, more : {next.more}]
        <3>1. /\ named.kind = "first"
              /\ named \in [kind : {named.kind}, nr : {r.nr}, user : {named.user}, more : {named.more}]
            BY <1>1 DEF RequestOK
        <3> QED BY <3>1
    <2>3. UNCHANGED <<users, wallets, ended, stale, asked, disturbed>>
        BY <1>6 DEF FindFirst
    <2> QED BY <2>1, <2>2, <2>3, GoingOnIsQuiet
<1>7. CASE PromoteFirst(r)
    <2>1. /\ UNCHANGED <<users, wallets, ended, stale, asked>> /\ disturbed \subseteq disturbed'
          /\ inflight' \subseteq inflight
        BY <1>7 DEF PromoteFirst, WriteBank, Done
    <2> QED BY <2>1, FinishingIsQuiet
<1>8. CASE Withdraw(r) \/ Abandon(r)
    <2>1. /\ UNCHANGED <<users, wallets, ended, stale, asked>> /\ disturbed \subseteq disturbed'
          /\ inflight' \subseteq inflight
        BY <1>8 DEF Withdraw, Abandon, Done
    <2> QED BY <2>1, FinishingIsQuiet
<1> QED BY <1>2, <1>3, <1>4, <1>5, <1>6, <1>7, <1>8

\* What a request reads and checks before it is stored as one in flight.
LEMMA AsksKeep ==
    ASSUME UsersInv, NEW u \in Existing,
           \/ AskLogin(u) \/ AskRefresh(u) \/ AskResetPassword(u) \/ AskChangePassword(u)
           \/ \E choice \in {"yes", "no", "unset"} :
                 CreateBankAccount(u, choice) \/ UpsertUserUpiAccount(u, choice)
           \/ \E b \in BankIds : AskDeleteBank(u, b) \/ AskWithdraw(u, b)
    PROVE  UsersInv'
<1>1. PICK kind, more : Ask(kind, u, more) /\ kind # "register"
    <2>1. CASE AskLogin(u) \/ AskRefresh(u) \/ AskResetPassword(u) \/ AskChangePassword(u)
        BY <2>1 DEF AskLogin, AskRefresh, AskResetPassword, AskChangePassword
    <2>2. ASSUME NEW choice \in {"yes", "no", "unset"}, CreateBankAccount(u, choice)
          PROVE  \E kind, more : Ask(kind, u, more) /\ kind # "register"
        BY <2>2 DEF CreateBankAccount
    <2>3. ASSUME NEW choice \in {"yes", "no", "unset"}, UpsertUserUpiAccount(u, choice)
          PROVE  \E kind, more : Ask(kind, u, more) /\ kind # "register"
        BY <2>3 DEF UpsertUserUpiAccount
    <2>4. ASSUME NEW b \in BankIds, AskDeleteBank(u, b) \/ AskWithdraw(u, b)
          PROVE  \E kind, more : Ask(kind, u, more) /\ kind # "register"
        BY <2>4 DEF AskDeleteBank, AskWithdraw
    <2> QED BY <2>1, <2>2, <2>3, <2>4
<1>2. u \in UserIds
    BY DEF Existing
<1> QED BY <1>1, <1>2, AskIsQuiet

\* The steps of the devices, as far as the accounts are concerned.
LEMMA DevicesAreApart ==
    ASSUME UsersInv, NEW existing, NEW active, DevicesNext(existing, active)
    PROVE  /\ asked' \in {asked, asked + 1} /\ disturbed \subseteq disturbed'
BY DEF DevicesNext, RegisterDevice, RemoveDevice, UpdateDeviceToken, TokenDies, SendToUsers,
       SendToMarketSubscribers, Send, BatchAnswered, BatchFailed, BatchRefused, CleanUp,
       SendDropped, Continue, CountRequest, NoteDevice

LEMMA UsersStep == ASSUME UsersInv, [Next]_vars PROVE UsersInv'
<1>1. ASSUME NEW phone \in Phones, AskRegister(phone) PROVE UsersInv'
    BY <1>1, AskIsQuiet DEF AskRegister
<1>2. ASSUME NEW u \in Existing, UserStep(u) PROVE UsersInv'
    BY <1>2, AsksKeep, UserWritesKeep DEF UserStep, SignedInStep
<1>3. ASSUME NEW r \in inflight, RequestStep(r) PROVE UsersInv'
    BY <1>3, RegisterKeeps, IssueKeeps, PasswordKeeps, ClearKeeps, BankStepsKeep DEF RequestStep
<1>4. ASSUME NEW b \in BankIds, PayoutEnds(b) PROVE UsersInv'
    BY <1>4, FinishingIsQuiet DEF PayoutEnds, userVars
<1>5. ASSUME DevicesNext(Existing, {u \in Existing : Authenticated(u)}),
             UNCHANGED <<userVars, bankVars, inflight>>
      PROVE  UsersInv'
    <2>1. asked' \in {asked, asked + 1} /\ disturbed \subseteq disturbed'
        BY <1>5, DevicesAreApart
    <2> QED BY <1>5, <2>1, FinishingIsQuiet DEF userVars
<1>6. CASE UNCHANGED vars
    BY <1>6, FinishingIsQuiet DEF vars
<1> QED BY <1>1, <1>2, <1>3, <1>4, <1>5, <1>6 DEF Next

\* A session that was ended stays ended, for any number of users and of requests
\* in flight that log in, refresh, change passwords, block and delete, as long as
\* none wrote an account that had been written since it read it.
THEOREM SessionsEndForGood == Spec => []SessionsStayEnded
<1>1. Init => UsersInv
    BY UsersInit
<1>2. UsersInv /\ [Next]_vars => UsersInv'
    BY UsersStep
<1>3. UsersInv => SessionsStayEnded
    BY DEF UsersInv
<1> QED BY <1>1, <1>2, <1>3, PTL DEF Spec

-----------------------------------------------------------------------------
(* Devices *)

LEMMA DevicesStart == Init => DevicesInv
BY DEF Init, DevicesInit, DevicesInv, DevicesReachable

\* A step that leaves the devices alone; it may note what else was overtaken.
LEMMA DevicesStay ==
    ASSUME DevicesInv, UNCHANGED deviceVars,
           "device" \notin disturbed' => "device" \notin disturbed
    PROVE  DevicesInv'
BY DEF deviceVars, DevicesInv, DevicesReachable, SendOK

\* A user registers a token, anew or in place of another one.
LEMMA TokensChange ==
    ASSUME DevicesInv, NEW u, NEW t \in Tokens,
           NEW old \in Tokens,
           RegisterDevice(u, t) \/ RemoveDevice(u, t) \/ UpdateDeviceToken(u, old, t)
    PROVE  DevicesInv'
<1>1. CASE RegisterDevice(u, t)
    <2>1. \A s \in sends' : SendOK(s)'
        BY <1>1 DEF RegisterDevice, NoteDevice, DevicesInv, SendOK
    <2>2. DevicesReachable'
        BY <1>1 DEF RegisterDevice, NoteDevice, DevicesInv, DevicesReachable
    <2> QED BY <1>1, <2>1, <2>2 DEF RegisterDevice, DevicesInv
<1>2. CASE RemoveDevice(u, t)
    <2>1. \A s \in sends' : SendOK(s)'
        BY <1>2 DEF RemoveDevice, DevicesInv, SendOK
    <2>2. DevicesReachable'
        BY <1>2 DEF RemoveDevice, DevicesInv, DevicesReachable
    <2> QED BY <1>2, <2>1, <2>2 DEF RemoveDevice, DevicesInv
<1>3. CASE UpdateDeviceToken(u, old, t)
    <2>1. \A s \in sends' : SendOK(s)'
        BY <1>3 DEF UpdateDeviceToken, NoteDevice, DevicesInv, SendOK
    <2>2. DevicesReachable'
        BY <1>3 DEF UpdateDeviceToken, NoteDevice, DevicesInv, DevicesReachable
    <2> QED BY <1>3, <2>1, <2>2 DEF UpdateDeviceToken, DevicesInv
<1> QED BY <1>1, <1>2, <1>3

\* A message goes on to its next batch, with the tokens it will deactivate.
LEMMA ContinueKeeps ==
    ASSUME DevicesInv, NEW s \in sends, NEW batch \in SUBSET s.left, NEW invalid,
           Continue(s, batch, invalid), invalid \subseteq batch,
           disturbed \subseteq disturbed',
           "device" \notin disturbed' => invalid \intersect live = {}
    PROVE  DevicesInv'
<1> PICK sent : sent = [s EXCEPT !.left = s.left \ batch]
    OBVIOUS
<1> PICK next : next = [sent EXCEPT !.invalid = s.invalid \union invalid]
    OBVIOUS
<1>1. SendOK(s)
    BY DEF DevicesInv
<1>2. sent \in [nr : {s.nr}, left : SUBSET Tokens, invalid : SUBSET Tokens]
    BY <1>1 DEF SendOK
<1>3. /\ next \in [nr : {next.nr}, left : SUBSET Tokens, invalid : SUBSET Tokens]
      /\ next.invalid = s.invalid \union invalid
    BY <1>1, <1>2 DEF SendOK
<1>4. sends' = (sends \ {s}) \union {next}
    <2>1. next = [s EXCEPT !.left = s.left \ batch, !.invalid = s.invalid \union invalid]
        BY Zenon
    <2> QED BY <2>1 DEF Continue
<1>5. UNCHANGED <<devices, live, wanted>>
    BY DEF Continue
<1>6. \A x \in sends' : SendOK(x)'
    BY <1>1, <1>3, <1>4, <1>5 DEF DevicesInv, SendOK
<1>7. DevicesReachable'
    BY <1>5 DEF DevicesInv, DevicesReachable
<1> QED BY <1>5, <1>6, <1>7 DEF DevicesInv

LEMMA SendingKeeps ==
    ASSUME DevicesInv, NEW s \in sends,
           \/ BatchAnswered(s) \/ BatchFailed(s) \/ BatchRefused(s)
           \/ CleanUp(s) \/ SendDropped(s)
    PROVE  DevicesInv'
<1>1. \A batch \in BatchOf(s) : batch \in SUBSET s.left
    BY DEF BatchOf
<1>2. CASE BatchAnswered(s)
    <2> PICK batch \in BatchOf(s) : \E busy \in SUBSET (batch \intersect live) :
           Continue(s, batch, InvalidTokens(batch, busy))
        BY <1>2 DEF BatchAnswered
    <2> PICK busy : Continue(s, batch, InvalidTokens(batch, busy))
        OBVIOUS
    <2> PICK invalid : invalid = InvalidTokens(batch, busy)
        OBVIOUS
    <2>1. invalid \subseteq batch /\ invalid \intersect live = {}
        BY DEF InvalidTokens
    <2> QED BY <1>1, <1>2, <2>1, ContinueKeeps DEF BatchAnswered
<1>3. CASE BatchFailed(s)
    BY <1>1, <1>3, ContinueKeeps DEF BatchFailed
<1>4. CASE BatchRefused(s)
    BY <1>1, <1>4, ContinueKeeps DEF BatchRefused
<1>5. CASE CleanUp(s)
    <2>1. \A x \in sends' : SendOK(x)'
        BY <1>5 DEF CleanUp, DevicesInv, SendOK
    <2>2. SendOK(s) /\ sends' \subseteq sends
        BY <1>5 DEF CleanUp, DevicesInv
    <2>3. DevicesReachable'
        BY <1>5, <2>2 DEF CleanUp, DevicesInv, DevicesReachable, SendOK
    <2> QED BY <1>5, <2>1, <2>3 DEF CleanUp, DevicesInv
<1>6. CASE SendDropped(s)
    BY <1>6 DEF SendDropped, DevicesInv, DevicesReachable, SendOK
<1> QED BY <1>2, <1>3, <1>4, <1>5, <1>6

LEMMA DevicesNextKeeps ==
    ASSUME DevicesInv, NEW existing, NEW active, DevicesNext(existing, active)
    PROVE  DevicesInv'
<1>1. ASSUME NEW t \in Tokens, TokenDies(t) PROVE DevicesInv'
    BY <1>1 DEF TokenDies, DevicesInv, DevicesReachable, SendOK
<1>2. ASSUME NEW tokens \in SUBSET Tokens, Send(tokens) PROVE DevicesInv'
    <2> PICK message : message = [nr |-> asked, left |-> tokens, invalid |-> {}]
        OBVIOUS
    <2>1. /\ sends' = sends \union {message}
          /\ UNCHANGED <<devices, live, wanted, disturbed>>
        BY <1>2 DEF Send
    <2>2. SendOK(message)'
        BY DEF SendOK
    <2> QED BY <2>1, <2>2 DEF DevicesInv, DevicesReachable, SendOK
<1>3. ActiveTokens \subseteq Tokens /\ \A S : ActiveTokensOf(S) \subseteq Tokens
    BY DEF ActiveTokens, ActiveTokensOf
<1>4. ASSUME SendToMarketSubscribers \/ \E S \in SUBSET existing : SendToUsers(S)
      PROVE  DevicesInv'
    BY <1>2, <1>3, <1>4 DEF SendToMarketSubscribers, SendToUsers
<1> QED BY <1>1, <1>4, TokensChange, SendingKeeps DEF DevicesNext

\* The steps of the accounts note what they overtook, of a user or a bank detail.
LEMMA AccountsAreApart ==
    ASSUME NEW r, RequestStep(r)
    PROVE  UNCHANGED deviceVars /\ ("device" \notin disturbed' => "device" \notin disturbed)
BY DEF RequestStep, CommitRegister, IssueTokens, UpdatePassword, ClearRefreshToken, WriteLate,
       ClearDefaults, InsertBank, SaveUpi, WriteBank, DeleteBank, FindFirst, PromoteFirst,
       Withdraw, Abandon

LEMMA DevicesStep == ASSUME DevicesInv, [Next]_vars PROVE DevicesInv'
<1>1. ASSUME NEW kind, NEW u, NEW more, Ask(kind, u, more) PROVE DevicesInv'
    BY <1>1, DevicesStay DEF Ask
<1>2. ASSUME NEW u, NEW account, Write(u, account) PROVE DevicesInv'
    BY <1>2, DevicesStay DEF Write
<1>3. ASSUME NEW u \in Existing, UserStep(u) PROVE DevicesInv'
    <2>1. ASSUME NEW choice, CreateBankAccount(u, choice) PROVE DevicesInv'
        BY <1>1, <2>1 DEF CreateBankAccount
    <2>2. ASSUME NEW choice, UpsertUserUpiAccount(u, choice) PROVE DevicesInv'
        BY <1>1, <2>2 DEF UpsertUserUpiAccount
    <2>3. ASSUME NEW b, AskDeleteBank(u, b) \/ AskWithdraw(u, b) PROVE DevicesInv'
        BY <1>1, <2>3 DEF AskDeleteBank, AskWithdraw
    <2>4. ASSUME NEW phone, UpdateProfile(u, phone) PROVE DevicesInv'
        BY <1>2, <2>4 DEF UpdateProfile
    <2>5. CASE AskLogin(u) \/ AskRefresh(u) \/ AskResetPassword(u) \/ AskChangePassword(u)
        BY <1>1, <2>5 DEF AskLogin, AskRefresh, AskResetPassword, AskChangePassword
    <2>6. CASE Logout(u) \/ BlockUser(u) \/ UnblockUser(u) \/ ForgotPassword(u) \/ DeleteAccount(u)
        BY <1>2, <2>6 DEF Logout, BlockUser, UnblockUser, ForgotPassword, DeleteAccount
    <2> QED BY <1>3, <2>1, <2>2, <2>3, <2>4, <2>5, <2>6 DEF UserStep, SignedInStep
<1>4. CASE \E phone \in Phones : AskRegister(phone)
    BY <1>1, <1>4 DEF AskRegister
<1>5. CASE \E r \in inflight : RequestStep(r)
    BY <1>5, AccountsAreApart, DevicesStay
<1>6. CASE \E b \in BankIds : PayoutEnds(b)
    BY <1>6, DevicesStay DEF PayoutEnds
<1>7. CASE UNCHANGED vars
    BY <1>7, DevicesStay DEF vars, deviceVars
<1> QED BY <1>3, <1>4, <1>5, <1>6, <1>7, DevicesNextKeeps DEF Next

\* A device that is registered, was not removed and can be reached stays switched
\* on for the user who registered it last, for any number of tokens, of messages
\* sent at once and of batches that fail, until the provider finds fault with a
\* message or a token is registered again while it is being cleaned up.
THEOREM DevicesStaySwitchedOn == Spec => []DevicesReachable
<1>1. Init => DevicesInv
    BY DevicesStart
<1>2. DevicesInv /\ [Next]_vars => DevicesInv'
    BY DevicesStep
<1>3. DevicesInv => DevicesReachable
    BY DEF DevicesInv
<1> QED BY <1>1, <1>2, <1>3, PTL DEF Spec

-----------------------------------------------------------------------------
(* Accounts, phones and wallets *)

\* Each write of an account keeps its phone, takes one that is free or deletes
\* the account, and a session it stores belongs to a request that was made.
WritesAccount ==
    \E u \in UserIds, account \in Account :
       /\ users' = [users EXCEPT ![u] = account]
       /\ account.token \in 0 .. asked'
       /\ \/ account = NoUser \/ PhoneFree(account.phone)
          \/ u \in Existing /\ account.phone = users[u].phone

LEMMA AccountWrites ==
    ASSUME UsersInv, NEW u \in Existing, users[u].token <= asked,
           \/ Logout(u) \/ BlockUser(u) \/ UnblockUser(u) \/ ForgotPassword(u)
           \/ DeleteAccount(u) \/ \E phone \in Phones : UpdateProfile(u, phone)
    PROVE  WritesAccount
<1>1. users[u] \in Account /\ asked \in Nat /\ u \in UserIds /\ users[u].token \in 0 .. asked + 1
    BY DEF Existing, UsersInv, UsersOK, Account
<1>2. asked' = asked + 1
    BY DEF Logout, BlockUser, UnblockUser, ForgotPassword, DeleteAccount, UpdateProfile, Write,
       CountRequest
<1>3. CASE Logout(u)
    <2> PICK account : account = [users[u] EXCEPT !.token = 0]
        OBVIOUS
    <2>1. account \in Account /\ account.token = 0 /\ account.phone = users[u].phone
        BY <1>1 DEF Account
    <2>2. users' = [users EXCEPT ![u] = account]
        BY <1>3 DEF Logout, Write
    <2>3. account.token \in 0 .. asked'
        BY <1>1, <1>2, <2>1
    <2> QED BY <1>1, <2>1, <2>2, <2>3 DEF WritesAccount
<1>4. CASE BlockUser(u)
    <2> PICK banned : banned = [users[u] EXCEPT !.status = "banned"]
        OBVIOUS
    <2> PICK account : account = [banned EXCEPT !.token = 0]
        OBVIOUS
    <2>1. banned \in Account /\ banned.phone = users[u].phone
        BY <1>1 DEF Account
    <2>2. account \in Account /\ account.token = 0 /\ account.phone = users[u].phone
        BY <2>1 DEF Account
    <2>3. account = Blocked(u)
        BY Zenon DEF Blocked
    <2>4. users' = [users EXCEPT ![u] = account]
        BY <1>4, <2>3 DEF BlockUser, Write
    <2>5. account.token \in 0 .. asked'
        BY <1>1, <1>2, <2>2
    <2> QED BY <1>1, <2>2, <2>4, <2>5 DEF WritesAccount
<1>5. CASE UnblockUser(u)
    <2> PICK account : account = [users[u] EXCEPT !.status = "active"]
        OBVIOUS
    <2>1. /\ account \in Account /\ account.token = users[u].token
          /\ account.phone = users[u].phone
        BY <1>1 DEF Account
    <2>2. users' = [users EXCEPT ![u] = account]
        BY <1>5 DEF UnblockUser, Write
    <2> QED BY <1>1, <1>2, <2>1, <2>2 DEF WritesAccount
<1>6. CASE ForgotPassword(u)
    <2> PICK account : account = [users[u] EXCEPT !.reset = asked + 1]
        OBVIOUS
    <2>1. /\ account \in Account /\ account.token = users[u].token
          /\ account.phone = users[u].phone
        BY <1>1 DEF Account
    <2>2. users' = [users EXCEPT ![u] = account]
        BY <1>6 DEF ForgotPassword, Write
    <2> QED BY <1>1, <1>2, <2>1, <2>2 DEF WritesAccount
<1>7. CASE DeleteAccount(u)
    <2>1. NoUser \in Account /\ NoUser.token = 0
        BY DEF NoUser, Account
    <2>2. users' = [users EXCEPT ![u] = NoUser]
        BY <1>7 DEF DeleteAccount, Write
    <2>3. NoUser.token \in 0 .. asked'
        BY <1>1, <1>2, <2>1
    <2> QED BY <1>1, <2>1, <2>2, <2>3 DEF WritesAccount
<1>8. ASSUME NEW phone \in Phones, UpdateProfile(u, phone) PROVE WritesAccount
    <2> PICK account : account = [users[u] EXCEPT !.phone = phone]
        OBVIOUS
    <2>1. account \in Account /\ account.token = users[u].token /\ account.phone = phone
        BY <1>1 DEF Account
    <2>2. users' = [users EXCEPT ![u] = account] /\ PhoneFree(phone)
        BY <1>8 DEF UpdateProfile, Write
    <2> QED BY <1>1, <1>2, <2>1, <2>2 DEF WritesAccount
<1> QED BY <1>3, <1>4, <1>5, <1>6, <1>7, <1>8

LEMMA RequestWrites ==
    ASSUME UsersInv, NEW r \in inflight,
           CommitRegister(r) \/ IssueTokens(r) \/ UpdatePassword(r) \/ ClearRefreshToken(r)
    PROVE  WritesAccount
<1>1. RequestOK(r) /\ asked \in Nat /\ asked' = asked
    BY DEF UsersInv, UsersOK, CommitRegister, IssueTokens, UpdatePassword, ClearRefreshToken,
       WriteLate
<1>2. CASE CommitRegister(r)
    <2> PICK u \in UserIds \ DOMAIN wallets : users' = [users EXCEPT ![u] = NewUser(r.more)]
        BY <1>2 DEF CommitRegister
    <2> PICK account : account = NewUser(r.more)
        OBVIOUS
    <2>1. r.more \in Phones /\ PhoneFree(r.more)
        BY <1>1, <1>2 DEF CommitRegister, RequestOK
    <2>2. account \in Account /\ account.token = 0 /\ account.phone = r.more
        BY <2>1 DEF NewUser, Account
    <2>3. account.token \in 0 .. asked'
        BY <1>1, <2>2
    <2> QED BY <2>1, <2>2, <2>3 DEF WritesAccount
<1>3. CASE IssueTokens(r)
    <2> PICK account : account = [users[r.user] EXCEPT !.token = r.nr]
        OBVIOUS
    <2>1. r.user \in Existing /\ users' = [users EXCEPT ![r.user] = account]
        BY <1>3 DEF IssueTokens, WriteLate
    <2>2. r.user \in UserIds /\ users[r.user] \in Account
        BY <2>1 DEF Existing, UsersInv, UsersOK
    <2>3. /\ account \in Account /\ account.token = r.nr
          /\ account.phone = users[r.user].phone
        BY <1>1, <2>2 DEF RequestOK, Account
    <2>4. account.token \in 0 .. asked'
        BY <1>1, <2>3 DEF RequestOK
    <2> QED BY <2>1, <2>2, <2>3, <2>4 DEF WritesAccount
<1>4. CASE UpdatePassword(r)
    <2> PICK out : out = [users[r.user] EXCEPT !.token = 0]
        OBVIOUS
    <2> PICK account : account = [out EXCEPT !.reset = 0]
        OBVIOUS
    <2>1. r.user \in Existing /\ users' = [users EXCEPT ![r.user] = account]
        <3>1. account = [users[r.user] EXCEPT !.token = 0, !.reset = 0]
            BY Zenon
        <3> QED BY <1>4, <3>1 DEF UpdatePassword, WriteLate
    <2>2. r.user \in UserIds /\ users[r.user] \in Account
        BY <2>1 DEF Existing, UsersInv, UsersOK
    <2>3. out \in Account /\ out.token = 0 /\ out.phone = users[r.user].phone
        BY <2>2 DEF Account
    <2>4. account \in Account /\ account.token = 0 /\ account.phone = users[r.user].phone
        BY <2>3 DEF Account
    <2>5. account.token \in 0 .. asked'
        BY <1>1, <2>4
    <2> QED BY <2>1, <2>2, <2>4, <2>5 DEF WritesAccount
<1>5. CASE ClearRefreshToken(r)
    <2> PICK account : account = [users[r.user] EXCEPT !.token = 0]
        OBVIOUS
    <2>1. r.user \in Existing /\ users' = [users EXCEPT ![r.user] = account]
        <3> PICK unread : unread = [r EXCEPT !.nr = 0]
            OBVIOUS
        <3>1. unread.user = r.user
            BY <1>1 DEF RequestOK
        <3>2. WriteLate(unread, account)
            BY <1>5 DEF ClearRefreshToken
        <3> QED BY <3>1, <3>2 DEF WriteLate
    <2>2. r.user \in UserIds /\ users[r.user] \in Account
        BY <2>1 DEF Existing, UsersInv, UsersOK
    <2>3. /\ account \in Account /\ account.token = 0
          /\ account.phone = users[r.user].phone
        BY <2>2 DEF Account
    <2>4. account.token \in 0 .. asked'
        BY <1>1, <2>3
    <2> QED BY <2>1, <2>2, <2>3, <2>4 DEF WritesAccount
<1> QED BY <1>2, <1>3, <1>4, <1>5

\* One account for a phone, and no session of a request that was never made.
AccountsInOrder ==
    /\ \A u, v \in Existing : users[u].phone = users[v].phone => u = v
    /\ \A u \in UserIds : users[u].token <= asked

Notes == {"user", "bank", "device"}

PhonesInv == UsersInv /\ AccountsInOrder /\ disturbed \subseteq Notes

LEMMA OrderAfterWrite ==
    ASSUME PhonesInv, asked' \in {asked, asked + 1}, WritesAccount
    PROVE  AccountsInOrder'
<1>0. /\ users \in [UserIds -> Account] /\ asked \in Nat /\ asked <= asked' /\ asked' \in Nat
      /\ AccountsInOrder
    BY DEF PhonesInv, UsersInv, UsersOK
<1> PICK u \in UserIds, account \in Account :
       /\ users' = [users EXCEPT ![u] = account]
       /\ account.token \in 0 .. asked'
       /\ \/ account = NoUser \/ PhoneFree(account.phone)
          \/ u \in Existing /\ account.phone = users[u].phone
    BY DEF WritesAccount
<1>1. \A v \in UserIds : users'[v] = IF v = u THEN account ELSE users[v]
    BY <1>0
<1>2. \A v \in UserIds : users'[v].token <= asked'
    <2> SUFFICES ASSUME NEW v \in UserIds PROVE users'[v].token <= asked'
        OBVIOUS
    <2>1. CASE v = u
        <3>1. account.token <= asked'
            BY <1>0
        <3> QED BY <1>1, <2>1, <3>1
    <2>2. CASE v # u
        <3>1. users[v].token \in Nat /\ users[v].token <= asked
            BY <1>0 DEF AccountsInOrder, Account
        <3>2. users[v].token <= asked'
            BY <1>0, <3>1
        <3> QED BY <1>1, <2>2, <3>2
    <2> QED BY <2>1, <2>2
<1>3. ASSUME NEW v \in Existing', NEW w \in Existing', users'[v].phone = users'[w].phone
      PROVE  v = w
    <2>1. v \in UserIds /\ w \in UserIds /\ users'[v] # NoUser /\ users'[w] # NoUser
        BY DEF Existing
    <2>2. ASSUME NEW x \in UserIds, x # u, users'[x] # NoUser,
                 account # NoUser, account.phone = users'[x].phone
          PROVE  FALSE
        <3>1. x \in Existing /\ users'[x] = users[x]
            BY <1>1, <2>2 DEF Existing
        <3> QED BY <1>0, <2>2, <3>1 DEF PhoneFree, AccountsInOrder
    <2>3. CASE v = u
        BY <1>1, <1>3, <2>1, <2>2, <2>3
    <2>4. CASE w = u
        BY <1>1, <1>3, <2>1, <2>2, <2>4
    <2>5. CASE v # u /\ w # u
        <3>1. v \in Existing /\ w \in Existing /\ users[v].phone = users[w].phone
            BY <1>1, <1>3, <2>1, <2>5 DEF Existing
        <3> QED BY <1>0, <3>1 DEF AccountsInOrder
    <2> QED BY <2>3, <2>4, <2>5
<1> QED BY <1>2, <1>3 DEF AccountsInOrder

LEMMA OrderStays ==
    ASSUME PhonesInv, asked' \in {asked, asked + 1}, UNCHANGED users
    PROVE  AccountsInOrder'
<1>1. asked \in Nat /\ asked <= asked' /\ asked' \in Nat /\ AccountsInOrder
    BY DEF PhonesInv, UsersInv, UsersOK
<1>2. \A u \in UserIds : users[u].token \in Nat
    BY DEF PhonesInv, UsersInv, UsersOK, Account
<1> QED BY <1>1, <1>2 DEF AccountsInOrder, Existing

LEMMA BankStepsAreApart ==
    ASSUME NEW r,
           \/ ClearDefaults(r) \/ (\E upi \in BOOLEAN : InsertBank(r, upi)) \/ SaveUpi(r)
           \/ DeleteBank(r) \/ FindFirst(r) \/ PromoteFirst(r) \/ Withdraw(r) \/ Abandon(r)
    PROVE  UNCHANGED <<users, asked>>
BY DEF ClearDefaults, InsertBank, SaveUpi, WriteBank, DeleteBank, FindFirst, PromoteFirst,
       Withdraw, Abandon, userVars

LEMMA NotesAreKnown ==
    ASSUME disturbed \subseteq Notes, [Next]_vars PROVE disturbed' \subseteq Notes
<1> USE DEF Notes
<1>1. ASSUME NEW u \in Existing, UserStep(u) PROVE disturbed' = disturbed
    BY <1>1 DEF UserStep, SignedInStep, AskLogin, AskRefresh, ForgotPassword, AskResetPassword,
       BlockUser, UnblockUser, Logout, AskChangePassword, DeleteAccount, UpdateProfile, Write,
       CreateBankAccount, UpsertUserUpiAccount, AskDeleteBank, AskWithdraw, Ask
<1>2. ASSUME NEW r \in inflight, RequestStep(r) PROVE disturbed' \subseteq Notes
    BY <1>2 DEF RequestStep, CommitRegister, IssueTokens, UpdatePassword, ClearRefreshToken,
       WriteLate, ClearDefaults, InsertBank, SaveUpi, WriteBank, DeleteBank, FindFirst,
       PromoteFirst, Withdraw, Abandon
<1>3. ASSUME NEW existing, NEW active, DevicesNext(existing, active)
      PROVE  disturbed' \subseteq Notes
    BY <1>3 DEF DevicesNext, RegisterDevice, RemoveDevice, UpdateDeviceToken, TokenDies,
       SendToUsers, SendToMarketSubscribers, Send, BatchAnswered, BatchFailed, BatchRefused,
       CleanUp, SendDropped, Continue, NoteDevice
<1>4. CASE \E phone \in Phones : AskRegister(phone)
    BY <1>4 DEF AskRegister, Ask
<1>5. CASE (\E b \in BankIds : PayoutEnds(b)) \/ UNCHANGED vars
    BY <1>5 DEF PayoutEnds, vars
<1> QED BY <1>1, <1>2, <1>3, <1>4, <1>5 DEF Next

LEMMA AsksWriteNoAccount ==
    ASSUME NEW kind, NEW u, NEW more, Ask(kind, u, more)
    PROVE  UNCHANGED users /\ asked' = asked + 1
BY DEF Ask, CountRequest, userVars

LEMMA PhonesStep == ASSUME PhonesInv, [Next]_vars PROVE PhonesInv'
<1>0. UsersInv /\ UsersInv' /\ disturbed' \subseteq Notes
    BY UsersStep, NotesAreKnown DEF PhonesInv
<1> SUFFICES AccountsInOrder'
    BY <1>0 DEF PhonesInv
<1>1. ASSUME NEW u \in Existing, UserStep(u) PROVE AccountsInOrder'
    <2>1. CASE \/ Logout(u) \/ BlockUser(u) \/ UnblockUser(u) \/ ForgotPassword(u)
               \/ DeleteAccount(u) \/ \E phone \in Phones : UpdateProfile(u, phone)
        <3>1. asked' = asked + 1
            BY <2>1 DEF Logout, BlockUser, UnblockUser, ForgotPassword, DeleteAccount,
               UpdateProfile, Write, CountRequest
        <3>2. users[u].token <= asked
            BY DEF PhonesInv, AccountsInOrder, Existing
        <3> QED BY <1>0, <2>1, <3>1, <3>2, AccountWrites, OrderAfterWrite
    <2>2. CASE \/ AskLogin(u) \/ AskRefresh(u) \/ AskResetPassword(u) \/ AskChangePassword(u)
               \/ \E choice \in {"yes", "no", "unset"} :
                     CreateBankAccount(u, choice) \/ UpsertUserUpiAccount(u, choice)
               \/ \E b \in BankIds : AskDeleteBank(u, b) \/ AskWithdraw(u, b)
        <3>1. UNCHANGED users /\ asked' = asked + 1
            BY <2>2, AsksWriteNoAccount DEF AskLogin, AskRefresh, AskResetPassword,
               AskChangePassword, CreateBankAccount, UpsertUserUpiAccount, AskDeleteBank,
               AskWithdraw
        <3> QED BY <3>1, OrderStays
    <2> QED BY <1>1, <2>1, <2>2 DEF UserStep, SignedInStep
<1>2. ASSUME NEW r \in inflight, RequestStep(r) PROVE AccountsInOrder'
    <2>1. CASE CommitRegister(r) \/ IssueTokens(r) \/ UpdatePassword(r) \/ ClearRefreshToken(r)
        <3>1. asked' = asked
            BY <2>1 DEF CommitRegister, IssueTokens, UpdatePassword, ClearRefreshToken, WriteLate
        <3> QED BY <1>0, <2>1, <3>1, RequestWrites, OrderAfterWrite
    <2>2. CASE \/ ClearDefaults(r) \/ (\E upi \in BOOLEAN : InsertBank(r, upi)) \/ SaveUpi(r) \/ DeleteBank(r)
               \/ FindFirst(r) \/ PromoteFirst(r) \/ Withdraw(r) \/ Abandon(r)
        BY <2>2, BankStepsAreApart, OrderStays
    <2> QED BY <1>2, <2>1, <2>2 DEF RequestStep
<1>3. CASE \E phone \in Phones : AskRegister(phone)
    <2>1. UNCHANGED users /\ asked' = asked + 1
        BY <1>3, AsksWriteNoAccount DEF AskRegister
    <2> QED BY <2>1, OrderStays
<1>4. CASE /\ DevicesNext(Existing, {u \in Existing : Authenticated(u)})
           /\ UNCHANGED <<userVars, bankVars, inflight>>
    <2>1. UNCHANGED users
        BY <1>4 DEF userVars
    <2>2. asked' \in {asked, asked + 1}
        BY <1>0, <1>4, DevicesAreApart
    <2> QED BY <2>1, <2>2, OrderStays
<1>5. CASE (\E b \in BankIds : PayoutEnds(b)) \/ UNCHANGED vars
    <2>1. UNCHANGED <<users, asked>>
        BY <1>5 DEF PayoutEnds, vars, userVars
    <2> QED BY <2>1, OrderStays
<1> QED BY <1>1, <1>2, <1>3, <1>4, <1>5 DEF Next

LEMMA PhonesInit == Init => PhonesInv
<1> SUFFICES ASSUME Init PROVE PhonesInv
    OBVIOUS
<1> PICK phone \in Phones :
       users = [u \in UserIds |-> IF u = 1 THEN NewUser(phone) ELSE NoUser]
    BY DEF Init
<1>1. \A u \in Existing : u = 1
    BY DEF Existing
<1>2. \A u \in UserIds : users[u].token = 0
    BY DEF NewUser, NoUser
<1>3. asked = 0 /\ disturbed = {}
    BY DEF Init
<1> QED BY <1>1, <1>2, <1>3, UsersInit DEF PhonesInv, AccountsInOrder

-----------------------------------------------------------------------------
(* Bank and UPI accounts *)

Detail == [user : UserIds \union {0}, full : BOOLEAN, upi : BOOLEAN, primary : BOOLEAN]

BanksOK ==
    /\ created \in Nat
    /\ banks \in [BankIds -> Detail]
    /\ \A b \in BankIds : banks[b] # NoBank => banks[b].user \in UserIds /\ b \in 1 .. created
    /\ payouts \subseteq BankIds

\* What a request that is not overtaken knows of the details it has seen: none is
\* primary any more when it will make one so, there is room for one more bank
\* account, there is none when it inserts the first, or only the one it promotes
\* may be primary.
SeenWell(kind, more) ==
    /\ kind \in {"bank", "upi"} /\ ~more.clears /\ more.primary = "yes" =>
         \A b \in DOMAIN more.seen : ~more.seen[b].primary
    /\ kind = "bank" =>
         Cardinality({b \in DOMAIN more.seen : more.seen[b].full}) < MaxBankAccounts
    /\ kind = "upi" /\ more.target = {} /\ more.primary = "unset" => DOMAIN more.seen = {}
    /\ kind = "first" =>
         \A b \in DOMAIN more.seen : more.seen[b].primary => b = more.bank

BankRequestOK(r) ==
    /\ r.kind \in {"bank", "upi", "delete", "promote", "first"} => r.user \in UserIds
    /\ r.kind \in {"bank", "upi"} =>
         r.more \in [primary : {"yes", "no", "unset"}, clears : BOOLEAN,
                     target : {r.more.target}, was : {r.more.was}, seen : {r.more.seen}]
    /\ r.kind \in {"delete", "withdraw", "first"} => r.more.bank \in BankIds
    /\ "bank" \notin disturbed => SeenWell(r.kind, r.more)

BanksInv == BanksOK /\ (\A r \in inflight : BankRequestOK(r)) /\ BanksInOrder

LEMMA BanksInit == Init => BanksInv
<1> SUFFICES ASSUME Init PROVE BanksInv
    OBVIOUS
<1>1. /\ banks = [b \in BankIds |-> NoBank] /\ created = 0 /\ payouts = {} /\ inflight = {}
    BY DEF Init
<1>2. NoBank \in Detail
    BY DEF NoBank, Detail
<1>3. BanksOK
    BY <1>1, <1>2 DEF BanksOK
<1>4. \A u \in UserIds : BanksOf(u) = {} /\ FullOf(u) = {}
    BY <1>1, UsersAssumption DEF BanksOf, FullOf, NoBank
<1>5. \A u \in UserIds : Cardinality(FullOf(u)) <= MaxBankAccounts
    BY <1>4, BanksAssumption, FS_EmptySet
<1>6. BanksInOrder
    BY <1>1, <1>4, <1>5 DEF BanksInOrder
<1> QED BY <1>1, <1>3, <1>6 DEF BanksInv

\* The details of a user are finitely many, and none is NoBank.
LEMMA DetailsOfUser ==
    ASSUME BanksOK, NEW u \in UserIds
    PROVE  /\ BanksOf(u) \subseteq BankIds /\ FullOf(u) \subseteq BanksOf(u)
           /\ \A b \in BanksOf(u) : banks[b] # NoBank
           /\ IsFiniteSet(BanksOf(u)) /\ IsFiniteSet(FullOf(u))
<1>1. BanksOf(u) \subseteq BankIds /\ FullOf(u) \subseteq BanksOf(u)
    BY DEF BanksOf, FullOf
<1>2. \A b \in BanksOf(u) : banks[b] # NoBank
    BY UsersAssumption DEF BanksOf, NoBank
<1>3. BanksOf(u) \subseteq 1 .. created /\ created \in Nat
    BY <1>1, <1>2 DEF BanksOK
<1>4. IsFiniteSet(BanksOf(u))
    <2>1. 1 \in Int /\ created \in Int
        BY <1>3
    <2>2. IsFiniteSet(1 .. created)
        BY <2>1, FS_Interval
    <2> QED BY <1>3, <2>2, FS_Subset
<1>5. IsFiniteSet(FullOf(u))
    BY <1>1, <1>4, FS_Subset
<1> QED BY <1>1, <1>2, <1>4, <1>5

\* Of any details there are, one is found first.
LEMMA OneIsFirst ==
    ASSUME BanksOK, NEW S \in SUBSET BankIds, IsFiniteSet(S), S # {}
    PROVE  FirstOf(S) # {}
<1> DEFINE Bad == {T \in SUBSET S : T # {} /\ FirstOf(T) = {}}
<1> SUFFICES ASSUME Bad # {} PROVE FALSE
    BY DEF Bad
<1>1. PICK T \in Bad : \A U \in SUBSET T : U # T => U \notin Bad
    <2>1. Bad \in SUBSET (SUBSET S)
        OBVIOUS
    <2> HIDE DEF Bad
    <2> QED BY <2>1, SmallestSet
<1> PICK x : x \in T
    BY <1>1
<1>2. T \subseteq Nat /\ \A b \in T : banks[b].primary \in BOOLEAN
    BY <1>1, BanksAssumption DEF BanksOK, Detail
<1>3. FirstOf(T) = {}
    BY <1>1
<1>4. CASE T \ {x} = {}
    <2>1. x \in FirstOf(T)
        BY <1>4 DEF FirstOf
    <2> QED BY <1>3, <2>1
<1>5. CASE T \ {x} # {}
    <2>1. T \ {x} \in SUBSET T /\ T \ {x} # T /\ T \ {x} \in SUBSET S
        BY <1>1
    <2>2. FirstOf(T \ {x}) # {}
        BY <1>1, <1>5, <2>1
    <2>3. PICK y \in T \ {x} : \A a \in (T \ {x}) \ {y} : Before(y, a)
        BY <2>2 DEF FirstOf
    <2>4. CASE Before(x, y)
        <3>1. \A a \in T \ {x} : Before(x, a)
            <4> SUFFICES ASSUME NEW a \in T \ {x}, a # y PROVE Before(x, a)
                BY <2>4
            <4>1. Before(y, a)
                BY <2>3
            <4> QED BY <1>2, <2>4, <4>1 DEF Before
        <3>2. x \in FirstOf(T)
            BY <3>1 DEF FirstOf
        <3> QED BY <1>3, <3>2
    <2>5. CASE ~Before(x, y)
        <3>1. Before(y, x)
            BY <1>2, <2>5 DEF Before
        <3>2. y \in FirstOf(T)
            BY <2>3, <3>1 DEF FirstOf
        <3> QED BY <1>3, <3>2
    <2> QED BY <2>4, <2>5
<1> QED BY <1>4, <1>5

\* A detail of a user is inserted or changed: it becomes primary only when no
\* other one is, and a bank account only when there is room.
LEMMA DetailWritten ==
    ASSUME BanksOK, BanksInOrder, NEW u \in UserIds, NEW b \in BankIds, NEW detail \in Detail,
           detail.user = u, banks[b] = NoBank \/ banks[b].user = u,
           banks' = [banks EXCEPT ![b] = detail], payouts' = payouts,
           created' \in Nat, created <= created', b \in 1 .. created',
           disturbed \subseteq disturbed',
           "bank" \notin disturbed' =>
              /\ detail.primary => \A a \in BanksOf(u) : banks[a].primary => a = b
              /\ detail.full => b \in FullOf(u) \/ Cardinality(FullOf(u)) < MaxBankAccounts
    PROVE  BanksOK' /\ BanksInOrder'
<1>1. \A a \in BankIds : banks'[a] = IF a = b THEN detail ELSE banks[a]
    BY DEF BanksOK
<1>2. detail # NoBank
    BY UsersAssumption DEF NoBank
<1>3. BanksOK'
    <2>1. banks' \in [BankIds -> Detail]
        BY DEF BanksOK
    <2>2. ASSUME NEW a \in BankIds, banks'[a] # NoBank
          PROVE  banks'[a].user \in UserIds /\ a \in 1 .. created'
        <3>1. CASE a = b
            BY <1>1, <3>1
        <3>2. CASE a # b
            <4>1. banks'[a] = banks[a] /\ banks[a] # NoBank
                BY <1>1, <2>2, <3>2
            <4>2. banks[a].user \in UserIds /\ a \in 1 .. created
                BY <4>1 DEF BanksOK
            <4> QED BY <4>1, <4>2 DEF BanksOK
        <3> QED BY <3>1, <3>2
    <2> QED BY <2>1, <2>2 DEF BanksOK
<1>4. \A v \in UserIds : v # u => BanksOf(v)' = BanksOf(v) /\ FullOf(v)' = FullOf(v)
    <2> SUFFICES ASSUME NEW v \in UserIds, v # u
                 PROVE  BanksOf(v)' = BanksOf(v) /\ FullOf(v)' = FullOf(v)
        OBVIOUS
    <2>1. banks[b].user # v /\ banks'[b].user # v
        BY <1>1, UsersAssumption DEF NoBank
    <2>2. BanksOf(v)' = BanksOf(v)
        BY <1>1, <2>1 DEF BanksOf
    <2>3. b \notin BanksOf(v) /\ BanksOf(v) \subseteq BankIds
        BY <2>1 DEF BanksOf
    <2> QED BY <1>1, <2>2, <2>3 DEF FullOf
<1>5. BanksOf(u)' = BanksOf(u) \union {b}
    BY <1>1 DEF BanksOf
<1>6. FullOf(u)' \subseteq FullOf(u) \union (IF detail.full THEN {b} ELSE {})
    <2> SUFFICES ASSUME NEW a \in FullOf(u)', a # b \/ ~detail.full PROVE a \in FullOf(u)
        OBVIOUS
    <2>1. a \in BankIds /\ banks'[a].user = u /\ banks'[a].full
        BY DEF FullOf, BanksOf
    <2>2. a # b
        BY <1>1, <2>1
    <2> QED BY <1>1, <2>1, <2>2 DEF FullOf, BanksOf
<1> SUFFICES ASSUME "bank" \notin disturbed'
             PROVE  /\ \A v \in UserIds : \A a, c \in BanksOf(v)' :
                          banks'[a].primary /\ banks'[c].primary => a = c
                    /\ \A v \in UserIds : Cardinality(FullOf(v)') <= MaxBankAccounts
                    /\ \A a \in payouts' : banks'[a] # NoBank
    BY <1>3 DEF BanksInOrder
<1>7. /\ \A v \in UserIds : \A a, c \in BanksOf(v) :
            banks[a].primary /\ banks[c].primary => a = c
      /\ \A v \in UserIds : Cardinality(FullOf(v)) <= MaxBankAccounts
      /\ \A a \in payouts : banks[a] # NoBank
    BY DEF BanksInOrder
<1>8. ASSUME NEW v \in UserIds, NEW a \in BanksOf(v)', NEW c \in BanksOf(v)',
             banks'[a].primary, banks'[c].primary
      PROVE  a = c
    <2>1. CASE v = u
        <3>1. \A d \in BanksOf(u) : d \in BankIds
            BY DEF BanksOf
        <3>2. \A d \in BanksOf(u)' : d # b => d \in BanksOf(u) /\ banks'[d] = banks[d]
            BY <1>1, <1>5, <3>1
        <3>3. banks'[b] = detail
            BY <1>1
        <3>4. CASE a # b /\ c # b
            BY <1>7, <1>8, <2>1, <3>2, <3>4
        <3>5. CASE a = b /\ c # b
            BY <1>8, <2>1, <3>2, <3>3, <3>5
        <3>6. CASE a # b /\ c = b
            BY <1>8, <2>1, <3>2, <3>3, <3>6
        <3> QED BY <3>4, <3>5, <3>6
    <2>2. CASE v # u
        <3>1. a \in BanksOf(v) /\ c \in BanksOf(v) /\ b \notin BanksOf(v)
            BY <1>4, <2>2, UsersAssumption DEF BanksOf, NoBank
        <3>2. banks'[a] = banks[a] /\ banks'[c] = banks[c]
            BY <1>1, <3>1 DEF BanksOf
        <3> QED BY <1>7, <1>8, <3>1, <3>2
    <2> QED BY <2>1, <2>2
<1>9. ASSUME NEW v \in UserIds PROVE Cardinality(FullOf(v)') <= MaxBankAccounts
    <2>1. CASE v # u
        BY <1>4, <1>7, <2>1
    <2>2. CASE v = u
        <3> PICK F, G : F = FullOf(u) /\ G = FullOf(u)'
            OBVIOUS
        <3>1. IsFiniteSet(F) /\ Cardinality(F) \in Nat /\ Cardinality(F) <= MaxBankAccounts
            BY <1>7, DetailsOfUser, FS_CardinalityType
        <3>2. CASE G \subseteq F
            <4>1. Cardinality(G) <= Cardinality(F) /\ Cardinality(G) \in Nat
                BY <3>1, <3>2, FS_Subset, FS_CardinalityType
            <4> QED BY <2>2, <3>1, <4>1, BanksAssumption
        <3>3. CASE ~(G \subseteq F)
            <4>1. detail.full /\ b \notin F /\ G \subseteq F \union {b}
                BY <1>6, <3>3
            <4>2. Cardinality(F) < MaxBankAccounts
                BY <4>1
            <4>3. IsFiniteSet(F \union {b}) /\ Cardinality(F \union {b}) = Cardinality(F) + 1
                BY <3>1, <4>1, FS_AddElement
            <4>4. Cardinality(G) <= Cardinality(F \union {b}) /\ Cardinality(G) \in Nat
                BY <4>1, <4>3, FS_Subset, FS_CardinalityType
            <4> QED BY <2>2, <3>1, <4>2, <4>3, <4>4, BanksAssumption
        <3> QED BY <3>2, <3>3
    <2> QED BY <2>1, <2>2
<1>10. \A a \in payouts' : banks'[a] # NoBank
    BY <1>1, <1>2, <1>7 DEF BanksOK
<1> QED BY <1>8, <1>9, <1>10

\* A step that writes no detail; a withdrawal may end.
LEMMA BanksStay ==
    ASSUME BanksInv, UNCHANGED <<banks, created>>, payouts' \subseteq payouts,
           disturbed \subseteq disturbed',
           \A r \in inflight' : r \in inflight \/ BankRequestOK(r)'
    PROVE  BanksInv'
<1>1. BanksOK'
    BY DEF BanksInv, BanksOK
<1>2. \A r \in inflight' : BankRequestOK(r)'
    BY DEF BanksInv, BankRequestOK
<1>3. BanksInOrder'
    BY DEF BanksInv, BanksInOrder, BanksOf, FullOf
<1> QED BY <1>1, <1>2, <1>3 DEF BanksInv

\* A request is stored with what it has seen.
LEMMA AskKeepsBanks ==
    ASSUME BanksInv, NEW kind, NEW u, NEW more, Ask(kind, u, more),
           kind \in {"bank", "upi", "delete", "promote", "first"} => u \in UserIds,
           kind \in {"bank", "upi"} =>
              more \in [primary : {"yes", "no", "unset"}, clears : BOOLEAN,
                        target : {more.target}, was : {more.was}, seen : {more.seen}],
           kind \in {"delete", "withdraw", "first"} => more.bank \in BankIds,
           SeenWell(kind, more)
    PROVE  BanksInv'
<1> PICK r : r = [kind |-> kind, nr |-> asked + 1, user |-> u, more |-> more]
    OBVIOUS
<1>1. UNCHANGED <<banks, created, payouts, disturbed>> /\ inflight' = inflight \union {r}
    BY DEF Ask, bankVars
<1>2. r.kind = kind /\ r.user = u /\ r.more = more
    OBVIOUS
<1>3. BankRequestOK(r)'
    BY <1>1, <1>2 DEF BankRequestOK
<1> QED BY <1>1, <1>3, BanksStay

LEMMA BankAsksKeep ==
    ASSUME BanksInv, NEW u \in Existing,
           \/ \E choice \in {"yes", "no", "unset"} :
                 CreateBankAccount(u, choice) \/ UpsertUserUpiAccount(u, choice)
           \/ \E b \in BankIds : AskDeleteBank(u, b) \/ AskWithdraw(u, b)
    PROVE  BanksInv'
<1>0. u \in UserIds
    BY DEF Existing
<1>1. ASSUME NEW choice \in {"yes", "no", "unset"}, CreateBankAccount(u, choice)
      PROVE  BanksInv'
    <2> PICK primary \in {"yes", "no"} :
           /\ Cardinality(FullOf(u)) < MaxBankAccounts
           /\ Ask("bank", u, Bank(u, primary, {}, 1))
        BY <1>1 DEF CreateBankAccount
    <2> PICK more : more = Bank(u, primary, {}, 1)
        OBVIOUS
    <2>1. /\ more.primary = primary /\ more.clears = (primary = "yes") /\ more.seen = Seen(u)
          /\ more \in [primary : {"yes", "no", "unset"}, clears : BOOLEAN,
                       target : {more.target}, was : {more.was}, seen : {more.seen}]
        BY DEF Bank
    <2>2. {b \in DOMAIN more.seen : more.seen[b].full} = FullOf(u)
        BY <2>1 DEF Seen, FullOf
    <2>3. SeenWell("bank", more)
        BY <2>1, <2>2 DEF SeenWell
    <2> QED BY <1>0, <2>1, <2>3, AskKeepsBanks
<1>2. ASSUME NEW choice \in {"yes", "no", "unset"}, UpsertUserUpiAccount(u, choice)
      PROVE  BanksInv'
    <2> DEFINE preferred == {b \in BanksOf(u) : banks[b].upi}
               some      == IF preferred = {} THEN BanksOf(u) ELSE preferred
    <2> PICK target, b : target = FirstOf(some) /\ Ask("upi", u, Bank(u, choice, target, b))
        BY <1>2 DEF UpsertUserUpiAccount
    <2> PICK more : more = Bank(u, choice, target, b)
        OBVIOUS
    <2>1. /\ more.primary = choice /\ more.clears = (choice = "yes") /\ more.seen = Seen(u)
          /\ more.target = target
          /\ more \in [primary : {"yes", "no", "unset"}, clears : BOOLEAN,
                       target : {more.target}, was : {more.was}, seen : {more.seen}]
        BY DEF Bank
    <2>2. target = {} => BanksOf(u) = {}
        <3>1. BanksOK /\ BanksOf(u) \subseteq BankIds /\ IsFiniteSet(BanksOf(u))
            BY <1>0, DetailsOfUser DEF BanksInv
        <3>2. some \in SUBSET BankIds /\ some \in SUBSET BanksOf(u)
              /\ (some = {} => BanksOf(u) = {})
            BY <3>1
        <3>3. IsFiniteSet(some)
            BY <3>1, <3>2, FS_Subset
        <3> HIDE DEF some
        <3> QED BY <3>1, <3>2, <3>3, OneIsFirst
    <2>3. DOMAIN more.seen = BanksOf(u)
        BY <2>1 DEF Seen
    <2>4. SeenWell("upi", more)
        BY <2>1, <2>2, <2>3 DEF SeenWell
    <2> QED BY <1>0, <2>1, <2>4, AskKeepsBanks
<1>3. ASSUME NEW b \in BankIds, AskDeleteBank(u, b) PROVE BanksInv'
    <2> PICK more : more = [bank |-> b, seen |-> Seen(u)]
        OBVIOUS
    <2>1. more.bank = b /\ SeenWell("delete", more)
        BY DEF SeenWell
    <2>2. Ask("delete", u, more)
        BY <1>3 DEF AskDeleteBank
    <2> QED BY <1>0, <2>1, <2>2, AskKeepsBanks
<1>4. ASSUME NEW b \in BankIds, AskWithdraw(u, b) PROVE BanksInv'
    <2> PICK more : more = [bank |-> b]
        OBVIOUS
    <2>1. more.bank = b /\ SeenWell("withdraw", more)
        BY DEF SeenWell
    <2>2. Ask("withdraw", u, more)
        BY <1>4 DEF AskWithdraw
    <2> QED BY <1>0, <2>1, <2>2, AskKeepsBanks
<1> QED BY <1>1, <1>2, <1>3, <1>4

\* A request goes on to a step for which it has seen nothing, or is finished.
LEMMA BanksGoOn ==
    ASSUME BanksInv, NEW next, UNCHANGED <<banks, created>>, payouts' \subseteq payouts,
           disturbed \subseteq disturbed', inflight' \subseteq inflight \union {next},
           next.kind \in {"issue", "clear"}
    PROVE  BanksInv'
<1>1. BankRequestOK(next)'
    BY DEF BankRequestOK, SeenWell
<1> QED BY <1>1, BanksStay

LEMMA AccountWritesKeepBanks ==
    ASSUME BanksInv, UsersInv, NEW r \in inflight,
           CommitRegister(r) \/ IssueTokens(r) \/ UpdatePassword(r) \/ ClearRefreshToken(r)
    PROVE  BanksInv'
<1>1. RequestOK(r)
    BY DEF UsersInv
<1>2. CASE CommitRegister(r)
    <2> PICK u : Proceed(r, [r EXCEPT !.kind = "issue", !.user = u])
        BY <1>2 DEF CommitRegister
    <2> PICK known : known = [r EXCEPT !.kind = "issue"]
        OBVIOUS
    <2> PICK next : next = [known EXCEPT !.user = u]
        OBVIOUS
    <2>1. next.kind = "issue"
        <3>1. /\ known.kind = "issue"
              /\ known \in [kind : {known.kind}, nr : {known.nr}, user : {known.user},
                            more : {known.more}]
            BY <1>1 DEF RequestOK
        <3> QED BY <3>1
    <2>2. inflight' \subseteq inflight \union {next}
        <3>1. next = [r EXCEPT !.kind = "issue", !.user = u]
            BY Zenon
        <3> QED BY <3>1 DEF Proceed
    <2>3. UNCHANGED <<banks, created, payouts, disturbed>>
        BY <1>2 DEF CommitRegister, bankVars
    <2> QED BY <2>1, <2>2, <2>3, BanksGoOn
<1>3. CASE UpdatePassword(r)
    <2> PICK next : next = [r EXCEPT !.kind = "clear"]
        OBVIOUS
    <2>1. next.kind = "clear"
        BY <1>1 DEF RequestOK
    <2>2. /\ UNCHANGED <<banks, created, payouts>> /\ disturbed \subseteq disturbed'
          /\ inflight' \subseteq inflight \union {next}
        BY <1>3 DEF UpdatePassword, WriteLate, Proceed, bankVars
    <2> QED BY <2>1, <2>2, BanksGoOn
<1>4. CASE IssueTokens(r) \/ ClearRefreshToken(r)
    <2>1. /\ UNCHANGED <<banks, created, payouts>> /\ disturbed \subseteq disturbed'
          /\ inflight' \subseteq inflight
        BY <1>4 DEF IssueTokens, ClearRefreshToken, WriteLate, Done, bankVars
    <2> QED BY <2>1, BanksStay
<1> QED BY <1>2, <1>3, <1>4

\* Making what a request has seen secondary leaves it as well seen.
MadeSecondary(m, n) ==
    /\ n.primary = m.primary /\ n.target = m.target /\ DOMAIN n.seen = DOMAIN m.seen
    /\ \A b \in DOMAIN n.seen : ~n.seen[b].primary /\ n.seen[b].full = m.seen[b].full

LEMMA SeenAsSecondary ==
    ASSUME NEW kind \in {"bank", "upi"}, NEW m, NEW n, SeenWell(kind, m), MadeSecondary(m, n)
    PROVE  SeenWell(kind, n)
<1> USE DEF MadeSecondary
<1>1. {b \in DOMAIN n.seen : n.seen[b].full} = {b \in DOMAIN m.seen : m.seen[b].full}
    OBVIOUS
<1> QED BY <1>1 DEF SeenWell

\* The details of a user are made secondary before one is made primary.
LEMMA ClearKeepsBanks ==
    ASSUME BanksInv, UsersInv, NEW r \in inflight, ClearDefaults(r) PROVE BanksInv'
<1> PICK u : u = r.user
    OBVIOUS
<1> PICK after : after = [b \in BankIds |-> IF b \in BanksOf(u)
                            THEN [banks[b] EXCEPT !.primary = FALSE] ELSE banks[b]]
    OBVIOUS
<1> PICK seen : seen = [b \in BanksOf(u) |-> after[b]]
    OBVIOUS
<1> PICK cleared : cleared = [r EXCEPT !.more.clears = FALSE]
    OBVIOUS
<1> PICK next : next = [cleared EXCEPT !.more.seen = seen]
    OBVIOUS
<1>1. /\ banks' = after /\ r.kind \in {"bank", "upi"}
      /\ disturbed' = disturbed \union IF Seen(u) = r.more.seen THEN {} ELSE {"bank"}
      /\ UNCHANGED <<created, payouts>>
    BY DEF ClearDefaults, WriteBank, Defaults
<1>2. inflight' = (inflight \ {r}) \union {next}
    <2>1. next = [r EXCEPT !.more.clears = FALSE, !.more.seen = seen]
        BY Zenon
    <2> DEFINE undone == [b \in BankIds |-> IF b \in BanksOf(r.user)
                            THEN [banks[b] EXCEPT !.primary = FALSE] ELSE banks[b]]
    <2>2. Proceed(r, [r EXCEPT !.more.clears = FALSE,
                               !.more.seen = [b \in BanksOf(r.user) |-> undone[b]]])
        BY Zenon DEF ClearDefaults, Defaults
    <2>3. undone = after
        OBVIOUS
    <2>4. seen = [b \in BanksOf(r.user) |-> undone[b]]
        BY <2>3
    <2> HIDE DEF undone
    <2> QED BY <2>1, <2>2, <2>4, Zenon DEF Proceed
<1>3. RequestOK(r) /\ BankRequestOK(r) /\ BanksOK
    BY DEF UsersInv, BanksInv
<1>4. u \in UserIds
    BY <1>1, <1>3 DEF BankRequestOK
<1>5. BanksOf(u) \subseteq BankIds /\ \A b \in BanksOf(u) : banks[b] # NoBank
    BY <1>3, <1>4, DetailsOfUser
<1>6. \A b \in BankIds : /\ after[b] \in Detail /\ after[b].user = banks[b].user
                         /\ after[b].full = banks[b].full
                         /\ after[b].primary => b \notin BanksOf(u) /\ banks[b].primary
                         /\ b \in BanksOf(u) => ~after[b].primary
                         /\ b \notin BanksOf(u) => after[b] = banks[b]
    BY <1>3 DEF BanksOK, Detail
<1>7. \A b \in BankIds : after[b] = NoBank <=> banks[b] = NoBank
    <2> SUFFICES ASSUME NEW b \in BanksOf(u) PROVE after[b] # NoBank /\ banks[b] # NoBank
        BY <1>6
    <2>1. after[b].user = u
        BY <1>5, <1>6 DEF BanksOf
    <2> QED BY <1>4, <1>5, <2>1, UsersAssumption DEF NoBank
<1>8. \A v : BanksOf(v)' = BanksOf(v) /\ FullOf(v)' = FullOf(v)
    BY <1>1, <1>6 DEF BanksOf, FullOf
<1>9. BanksOK'
    BY <1>1, <1>3, <1>6, <1>7 DEF BanksOK
<1>10. BanksInOrder'
    <2>1. disturbed \subseteq disturbed'
        BY <1>1
    <2>2. \A v : BanksOf(v) \subseteq BankIds
        BY DEF BanksOf
    <2>3. payouts \subseteq BankIds
        BY <1>3 DEF BanksOK
    <2> QED BY <1>1, <1>6, <1>7, <1>8, <2>1, <2>2, <2>3 DEF BanksInv, BanksInOrder
<1>11. BankRequestOK(next)'
    <2> PICK m : m = r.more
        OBVIOUS
    <2>1. m \in [primary : {"yes", "no", "unset"}, clears : BOOLEAN,
                 target : {m.target}, was : {m.was}, seen : {m.seen}]
        BY <1>1, <1>3 DEF BankRequestOK
    <2> PICK m1 : m1 = [m EXCEPT !.clears = FALSE]
        OBVIOUS
    <2>2. /\ m1.primary = m.primary /\ ~m1.clears /\ m1.target = m.target
          /\ m1 \in [primary : {"yes", "no", "unset"}, clears : BOOLEAN,
                     target : {m1.target}, was : {m1.was}, seen : {m1.seen}]
        BY <2>1
    <2> PICK m2 : m2 = [m1 EXCEPT !.seen = seen]
        OBVIOUS
    <2>3. /\ m2.primary = m.primary /\ ~m2.clears /\ m2.target = m.target /\ m2.seen = seen
          /\ m2 \in [primary : {"yes", "no", "unset"}, clears : BOOLEAN,
                     target : {m2.target}, was : {m2.was}, seen : {m2.seen}]
        BY <2>2
    <2>4. cleared.kind = r.kind /\ cleared.user = u /\ cleared.more = m1
          /\ cleared \in [kind : {cleared.kind}, nr : {cleared.nr}, user : {cleared.user},
                          more : {cleared.more}]
        BY <1>3 DEF RequestOK
    <2>5. next.kind = r.kind /\ next.user = u /\ next.more = m2
        BY <2>4
    <2>6. ASSUME "bank" \notin disturbed' PROVE SeenWell(r.kind, m2)
        <3>1. "bank" \notin disturbed /\ Seen(u) = m.seen
            BY <1>1, <2>6
        <3>2. SeenWell(r.kind, m)
            BY <1>3, <3>1 DEF BankRequestOK
        <3>3. DOMAIN seen = DOMAIN m.seen /\ DOMAIN seen = BanksOf(u)
            BY <3>1 DEF Seen
        <3>4. \A b \in BanksOf(u) : ~seen[b].primary /\ seen[b].full = m.seen[b].full
            BY <1>5, <1>6, <3>1 DEF Seen
        <3>5. MadeSecondary(m, m2)
            BY <2>3, <3>3, <3>4 DEF MadeSecondary
        <3> QED BY <1>1, <3>2, <3>5, SeenAsSecondary
    <2> QED BY <1>1, <1>4, <2>3, <2>5, <2>6 DEF BankRequestOK
<1>12. \A q \in inflight : BankRequestOK(q)'
    BY <1>1 DEF BanksInv, BankRequestOK
<1> QED BY <1>2, <1>9, <1>10, <1>11, <1>12 DEF BanksInv

\* One detail is written, and the request is finished.
LEMMA WrittenAndDone ==
    ASSUME BanksInv, NEW u \in UserIds, NEW b \in BankIds, NEW detail \in Detail,
           detail.user = u, banks[b] = NoBank \/ banks[b].user = u,
           banks' = [banks EXCEPT ![b] = detail], payouts' = payouts,
           created' \in Nat, created <= created', b \in 1 .. created',
           disturbed \subseteq disturbed', inflight' \subseteq inflight,
           "bank" \notin disturbed' =>
              /\ detail.primary => \A a \in BanksOf(u) : banks[a].primary => a = b
              /\ detail.full => b \in FullOf(u) \/ Cardinality(FullOf(u)) < MaxBankAccounts
    PROVE  BanksInv'
<1>1. BanksOK' /\ BanksInOrder'
    BY DetailWritten DEF BanksInv
<1>2. \A r \in inflight' : BankRequestOK(r)'
    BY DEF BanksInv, BankRequestOK
<1> QED BY <1>1, <1>2 DEF BanksInv

LEMMA InsertKeepsBanks ==
    ASSUME BanksInv, NEW r \in inflight, NEW upi \in BOOLEAN, InsertBank(r, upi) PROVE BanksInv'
<1> PICK u, b : u = r.user /\ b = created + 1
    OBVIOUS
<1> PICK detail : detail =
       [user |-> u, full |-> r.kind = "bank", upi |-> upi,
        primary |-> IF r.kind = "bank" THEN r.more.primary = "yes" ELSE r.more.primary # "no"]
    OBVIOUS
<1>1. /\ r.kind \in {"bank", "upi"} /\ ~r.more.clears /\ r.more.target = {}
      /\ b \in BankIds /\ created' = b /\ payouts' = payouts
      /\ disturbed' = disturbed \union IF Seen(u) = r.more.seen THEN {} ELSE {"bank"}
      /\ inflight' \subseteq inflight
    BY DEF InsertBank, WriteBank, Done
<1>2. banks' = [banks EXCEPT ![b] = detail]
    BY DEF InsertBank, WriteBank
<1>3. BankRequestOK(r) /\ BanksOK /\ created \in Nat
    BY DEF BanksInv, BanksOK
<1>4. u \in UserIds
    BY <1>1, <1>3 DEF BankRequestOK
<1>5. /\ detail \in Detail /\ detail.user = u /\ detail.full = (r.kind = "bank")
      /\ detail.primary => r.more.primary = "yes" \/ (r.kind = "upi" /\ r.more.primary # "no")
    BY <1>1, <1>4 DEF Detail
<1>6. banks[b] = NoBank
    <2>1. b \notin 1 .. created
        BY <1>3
    <2> QED BY <1>1, <1>3, <2>1 DEF BanksOK
<1>7. ASSUME "bank" \notin disturbed'
      PROVE  /\ detail.primary => \A a \in BanksOf(u) : ~banks[a].primary
             /\ detail.full => Cardinality(FullOf(u)) < MaxBankAccounts
    <2>1. SeenWell(r.kind, r.more) /\ Seen(u) = r.more.seen
        BY <1>1, <1>3, <1>7 DEF BankRequestOK
    <2>2. DOMAIN r.more.seen = BanksOf(u) /\ \A a \in BanksOf(u) : r.more.seen[a] = banks[a]
        BY <2>1 DEF Seen
    <2>3. {a \in DOMAIN r.more.seen : r.more.seen[a].full} = FullOf(u)
        BY <2>2 DEF FullOf
    <2>4. r.more.primary \in {"yes", "no", "unset"}
        BY <1>1, <1>3 DEF BankRequestOK
    <2>5. detail.primary => \A a \in BanksOf(u) : ~banks[a].primary
        BY <1>1, <1>5, <2>1, <2>2, <2>4 DEF SeenWell
    <2>6. detail.full => Cardinality(FullOf(u)) < MaxBankAccounts
        BY <1>5, <2>1, <2>3 DEF SeenWell
    <2> QED BY <2>5, <2>6
<1>8. created' \in Nat /\ created <= created' /\ b \in 1 .. created' /\ disturbed \subseteq disturbed'
    BY <1>1, <1>3
<1> QED BY <1>1, <1>2, <1>4, <1>5, <1>6, <1>7, <1>8, WrittenAndDone

LEMMA SaveKeepsBanks ==
    ASSUME BanksInv, NEW r \in inflight, r.kind = "upi", SaveUpi(r) PROVE BanksInv'
<1> PICK u : u = r.user
    OBVIOUS
<1> PICK wish \in BOOLEAN, kept \in BOOLEAN :
       /\ wish = (r.more.primary = "yes")
       /\ kept = (r.more.primary = "unset" \/ wish = r.more.was)
    OBVIOUS
<1>0. PICK b \in r.more.target :
       /\ ~r.more.clears /\ b \in BanksOf(u)
       /\ WriteBank(r, [banks EXCEPT ![b].upi = TRUE,
                                     ![b].primary = IF kept THEN @ ELSE wish])
       /\ Done(r)
       /\ UNCHANGED <<created, payouts>>
    BY DEF SaveUpi
<1> PICK known : known = [banks[b] EXCEPT !.upi = TRUE]
    OBVIOUS
<1> PICK detail : detail = [known EXCEPT !.primary = IF kept THEN @ ELSE wish]
    OBVIOUS
<1>1. BankRequestOK(r) /\ BanksOK /\ created \in Nat
    BY DEF BanksInv, BanksOK
<1>2. u \in UserIds
    BY <1>1 DEF BankRequestOK
<1>3. b \in BankIds /\ banks[b] \in Detail /\ banks[b].user = u /\ banks[b] # NoBank
      /\ b \in 1 .. created
    BY <1>0, <1>1, <1>2, DetailsOfUser DEF BanksOf, BanksOK
<1>4. known \in Detail /\ known.user = u /\ known.full = banks[b].full
      /\ known.primary = banks[b].primary
    BY <1>3 DEF Detail
<1>5. /\ detail \in Detail /\ detail.user = u /\ detail.full = banks[b].full
      /\ detail.primary => banks[b].primary \/ wish
    BY <1>4 DEF Detail
<1>6. banks' = [banks EXCEPT ![b] = detail]
    <2> PICK between : between = [banks EXCEPT ![b].upi = TRUE]
        OBVIOUS
    <2>1. banks' = [between EXCEPT ![b].primary = IF kept THEN @ ELSE wish]
        BY <1>0, Zenon DEF WriteBank
    <2>2. between = [banks EXCEPT ![b] = known]
        OBVIOUS
    <2>3. between[b] = known /\ between \in [BankIds -> Detail]
        BY <1>1, <1>3, <1>4, <2>2 DEF BanksOK
    <2>4. banks' = [between EXCEPT ![b] = detail]
        BY <2>1, <2>3
    <2>5. \A a \in BankIds : banks'[a] = IF a = b THEN detail ELSE banks[a]
        BY <1>1, <2>2, <2>3, <2>4 DEF BanksOK
    <2>6. banks' = [a \in BankIds |-> banks'[a]]
        BY <2>3, <2>4
    <2> QED BY <1>1, <2>5, <2>6 DEF BanksOK
<1>7. /\ disturbed' = disturbed \union IF Seen(u) = r.more.seen THEN {} ELSE {"bank"}
      /\ inflight' \subseteq inflight
    BY <1>0 DEF WriteBank, Done
<1>8. ASSUME "bank" \notin disturbed', detail.primary, NEW a \in BanksOf(u), banks[a].primary
      PROVE  a = b
    <2>1. CASE banks[b].primary
        BY <1>0, <1>2, <1>7, <1>8, <2>1 DEF BanksInv, BanksInOrder
    <2>2. CASE wish
        <3>1. SeenWell(r.kind, r.more) /\ Seen(u) = r.more.seen
            BY <1>1, <1>7, <1>8 DEF BankRequestOK
        <3> QED BY <1>0, <1>8, <2>2, <3>1 DEF SeenWell, Seen
    <2> QED BY <1>5, <1>8, <2>1, <2>2
<1>9. detail.full => b \in FullOf(u)
    BY <1>0, <1>5 DEF FullOf
<1>10. created' = created /\ payouts' = payouts /\ disturbed \subseteq disturbed'
    BY <1>0, <1>7
<1>11. created' \in Nat /\ created <= created' /\ b \in 1 .. created'
    BY <1>1, <1>3, <1>10
<1>12. "bank" \notin disturbed' =>
          /\ detail.primary => \A a \in BanksOf(u) : banks[a].primary => a = b
          /\ detail.full => b \in FullOf(u) \/ Cardinality(FullOf(u)) < MaxBankAccounts
    BY <1>8, <1>9
<1> QED BY <1>2, <1>3, <1>5, <1>6, <1>7, <1>10, <1>11, <1>12, WrittenAndDone

LEMMA PromoteKeepsBanks ==
    ASSUME BanksInv, NEW r \in inflight, PromoteFirst(r) PROVE BanksInv'
<1> PICK u, b : u = r.user /\ b = r.more.bank
    OBVIOUS
<1> PICK detail : detail = [banks[b] EXCEPT !.primary = TRUE]
    OBVIOUS
<1>1. /\ r.kind = "first" /\ b \in BanksOf(u) /\ UNCHANGED <<created, payouts>>
      /\ disturbed' = disturbed \union IF Seen(u) = r.more.seen THEN {} ELSE {"bank"}
      /\ inflight' \subseteq inflight /\ disturbed \subseteq disturbed'
    BY DEF PromoteFirst, WriteBank, Done
<1>2. banks' = [banks EXCEPT ![b] = detail]
    BY DEF PromoteFirst, WriteBank
<1>3. BankRequestOK(r) /\ BanksOK /\ created \in Nat
    BY DEF BanksInv, BanksOK
<1>4. u \in UserIds
    BY <1>1, <1>3 DEF BankRequestOK
<1>5. b \in BankIds /\ banks[b] \in Detail /\ banks[b].user = u /\ b \in 1 .. created
    BY <1>1, <1>3, <1>4, DetailsOfUser DEF BanksOf, BanksOK
<1>6. detail \in Detail /\ detail.user = u /\ detail.full = banks[b].full
    BY <1>5 DEF Detail
<1>7. ASSUME "bank" \notin disturbed', NEW a \in BanksOf(u), banks[a].primary PROVE a = b
    <2>1. SeenWell(r.kind, r.more) /\ Seen(u) = r.more.seen
        BY <1>1, <1>3, <1>7 DEF BankRequestOK
    <2> QED BY <1>1, <1>7, <2>1 DEF SeenWell, Seen
<1>8. detail.full => b \in FullOf(u)
    BY <1>1, <1>6 DEF FullOf
<1>9. created' \in Nat /\ created <= created' /\ b \in 1 .. created' /\ payouts' = payouts
    BY <1>1, <1>3, <1>5
<1> QED BY <1>1, <1>2, <1>4, <1>5, <1>6, <1>7, <1>8, <1>9, WrittenAndDone

\* A detail that goes leaves no other one primary that was not.
LEMMA DeleteKeepsBanks ==
    ASSUME BanksInv, UsersInv, NEW r \in inflight, DeleteBank(r) PROVE BanksInv'
<1> PICK u, b : u = r.user /\ b = r.more.bank
    OBVIOUS
<1> PICK named : named = [r EXCEPT !.kind = "promote"]
    OBVIOUS
<1> PICK next : next = [named EXCEPT !.more = "none"]
    OBVIOUS
<1>1. /\ r.kind = "delete" /\ b \in BanksOf(u) /\ UNCHANGED <<created, payouts>>
      /\ disturbed' = disturbed \union IF b \in payouts THEN {"bank"} ELSE {}
      /\ banks' = [banks EXCEPT ![b] = NoBank] /\ disturbed \subseteq disturbed'
    BY DEF DeleteBank
<1>2. inflight' \subseteq inflight \union {next}
    <2>1. next = [r EXCEPT !.kind = "promote", !.more = "none"]
        BY Zenon
    <2> QED BY <2>1 DEF DeleteBank, Proceed, Done
<1>3. RequestOK(r) /\ BankRequestOK(r) /\ BanksOK
    BY DEF UsersInv, BanksInv
<1>4. u \in UserIds
    BY <1>1, <1>3 DEF BankRequestOK
<1>5. next.kind = "promote" /\ next.user = u
    <2>1. named.user = u
          /\ named \in [kind : {"promote"}, nr : {named.nr}, user : {u}, more : {named.more}]
        BY <1>3 DEF RequestOK
    <2> QED BY <2>1
<1>6. \A q \in inflight' : BankRequestOK(q)'
    <2>1. BankRequestOK(next)'
        BY <1>4, <1>5 DEF BankRequestOK, SeenWell
    <2> QED BY <1>1, <1>2, <2>1 DEF BanksInv, BankRequestOK
<1>7. /\ NoBank \in Detail /\ b \in BankIds
      /\ \A a \in BankIds : banks'[a] = IF a = b THEN NoBank ELSE banks[a]
    BY <1>1, <1>3 DEF BanksOK, BanksOf, NoBank, Detail
<1>8. BanksOK'
    <2>1. banks' \in [BankIds -> Detail]
        BY <1>1, <1>3, <1>7 DEF BanksOK
    <2> QED BY <1>1, <1>3, <1>7, <2>1 DEF BanksOK
<1>9. \A v \in UserIds : BanksOf(v)' \subseteq BanksOf(v) \ {b}
    BY <1>7, UsersAssumption DEF BanksOf, NoBank
<1>10. \A v \in UserIds : FullOf(v)' \subseteq FullOf(v)
    <2> SUFFICES ASSUME NEW v \in UserIds, NEW a \in FullOf(v)' PROVE a \in FullOf(v)
        OBVIOUS
    <2>1. a \in BanksOf(v)' /\ banks'[a].full
        BY DEF FullOf
    <2>2. a \in BanksOf(v) /\ a # b /\ a \in BankIds
        BY <1>9, <2>1 DEF BanksOf
    <2> QED BY <1>7, <2>1, <2>2 DEF FullOf
<1>11. BanksInOrder'
    <2> SUFFICES ASSUME "bank" \notin disturbed'
                 PROVE  /\ \A v \in UserIds : \A a, c \in BanksOf(v)' :
                              banks'[a].primary /\ banks'[c].primary => a = c
                        /\ \A v \in UserIds : Cardinality(FullOf(v)') <= MaxBankAccounts
                        /\ \A a \in payouts' : banks'[a] # NoBank
        BY DEF BanksInOrder
    <2>1. "bank" \notin disturbed /\ b \notin payouts
        BY <1>1
    <2>2. /\ \A v \in UserIds : \A a, c \in BanksOf(v) :
                banks[a].primary /\ banks[c].primary => a = c
          /\ \A v \in UserIds : Cardinality(FullOf(v)) <= MaxBankAccounts
          /\ \A a \in payouts : banks[a] # NoBank
        BY <2>1 DEF BanksInv, BanksInOrder
    <2>3. ASSUME NEW v \in UserIds, NEW a \in BanksOf(v)', NEW c \in BanksOf(v)',
                 banks'[a].primary, banks'[c].primary
          PROVE  a = c
        <3>1. a \in BanksOf(v) \ {b} /\ c \in BanksOf(v) \ {b}
            BY <1>9
        <3>2. banks'[a] = banks[a] /\ banks'[c] = banks[c]
            BY <1>7, <3>1 DEF BanksOf
        <3> QED BY <2>2, <2>3, <3>1, <3>2
    <2>4. ASSUME NEW v \in UserIds PROVE Cardinality(FullOf(v)') <= MaxBankAccounts
        <3> PICK F, G : F = FullOf(v) /\ G = FullOf(v)'
            OBVIOUS
        <3>1. IsFiniteSet(F) /\ Cardinality(F) \in Nat /\ Cardinality(F) <= MaxBankAccounts
            BY <1>3, <2>2, DetailsOfUser, FS_CardinalityType
        <3>2. G \subseteq F
            BY <1>10
        <3>3. Cardinality(G) <= Cardinality(F) /\ Cardinality(G) \in Nat
            BY <3>1, <3>2, FS_Subset, FS_CardinalityType
        <3> QED BY <3>1, <3>3, BanksAssumption
    <2>5. \A a \in payouts' : banks'[a] # NoBank
        BY <1>1, <1>3, <1>7, <2>1, <2>2 DEF BanksOK
    <2> QED BY <2>3, <2>4, <2>5
<1> QED BY <1>6, <1>8, <1>11 DEF BanksInv

\* What is found first is the primary one, if there is one.
LEMMA FindKeepsBanks ==
    ASSUME BanksInv, UsersInv, NEW r \in inflight, FindFirst(r) PROVE BanksInv'
<1> PICK u : u = r.user
    OBVIOUS
<1> PICK b \in FirstOf(BanksOf(u)) :
       Proceed(r, [r EXCEPT !.kind = "first", !.more = [bank |-> b, seen |-> Seen(u)]])
    BY DEF FindFirst
<1> PICK more : more = [bank |-> b, seen |-> Seen(u)]
    OBVIOUS
<1> PICK named : named = [r EXCEPT !.kind = "first"]
    OBVIOUS
<1> PICK next : next = [named EXCEPT !.more = more]
    OBVIOUS
<1>1. r.kind = "promote" /\ UNCHANGED <<banks, created, payouts, disturbed>>
    BY DEF FindFirst, bankVars
<1>2. inflight' = (inflight \ {r}) \union {next}
    <2>1. next = [r EXCEPT !.kind = "first", !.more = more]
        BY Zenon
    <2> QED BY <2>1 DEF Proceed
<1>3. RequestOK(r) /\ BankRequestOK(r) /\ BanksOK
    BY DEF UsersInv, BanksInv
<1>4. u \in UserIds
    BY <1>1, <1>3 DEF BankRequestOK
<1>5. next.kind = "first" /\ next.user = u /\ next.more = more
    <2>1. named.user = u
          /\ named \in [kind : {"first"}, nr : {named.nr}, user : {u}, more : {named.more}]
        BY <1>3 DEF RequestOK
    <2> QED BY <2>1
<1>6. b \in BanksOf(u) /\ b \in BankIds /\ \A a \in BanksOf(u) \ {b} : Before(b, a)
    BY DEF FirstOf, BanksOf
<1>7. ASSUME "bank" \notin disturbed PROVE SeenWell("first", more)
    <2>1. \A a, c \in BanksOf(u) : banks[a].primary /\ banks[c].primary => a = c
        BY <1>4, <1>7 DEF BanksInv, BanksInOrder
    <2>2. \A a \in BanksOf(u) : banks[a].primary \in BOOLEAN
        BY <1>3 DEF BanksOK, BanksOf, Detail
    <2>3. \A a \in BanksOf(u) : banks[a].primary => a = b
        BY <1>6, <2>1, <2>2 DEF Before
    <2> QED BY <2>3 DEF SeenWell, Seen
<1>8. BankRequestOK(next)'
    BY <1>1, <1>4, <1>5, <1>6, <1>7 DEF BankRequestOK
<1> QED BY <1>1, <1>2, <1>8, BanksStay

LEMMA WithdrawKeepsBanks ==
    ASSUME BanksInv, NEW r \in inflight, Withdraw(r) PROVE BanksInv'
<1>1. /\ r.kind = "withdraw" /\ UNCHANGED <<banks, created>>
      /\ payouts' = payouts \union {r.more.bank}
      /\ disturbed' = disturbed \union IF banks[r.more.bank] = NoBank THEN {"bank"} ELSE {}
      /\ inflight' \subseteq inflight /\ disturbed \subseteq disturbed'
    BY DEF Withdraw, Done
<1>2. r.more.bank \in BankIds
    BY <1>1 DEF BanksInv, BankRequestOK
<1>3. BanksOK'
    BY <1>1, <1>2 DEF BanksInv, BanksOK
<1>4. \A q \in inflight' : BankRequestOK(q)'
    BY <1>1 DEF BanksInv, BankRequestOK
<1>5. \A v : BanksOf(v)' = BanksOf(v) /\ FullOf(v)' = FullOf(v)
    BY <1>1 DEF BanksOf, FullOf
<1>6. BanksInOrder'
    BY <1>1, <1>5 DEF BanksInv, BanksInOrder
<1> QED BY <1>3, <1>4, <1>6 DEF BanksInv

LEMMA BanksStep == ASSUME BanksInv, UsersInv, [Next]_vars PROVE BanksInv'
<1>1. ASSUME NEW kind \in {"register", "issue", "password"}, NEW u, NEW more,
             Ask(kind, u, more)
      PROVE  BanksInv'
    <2>1. SeenWell(kind, more)
        BY DEF SeenWell
    <2> QED BY <1>1, <2>1, AskKeepsBanks
<1>2. ASSUME NEW u \in Existing, UserStep(u) PROVE BanksInv'
    <2>1. CASE AskLogin(u) \/ AskRefresh(u) \/ AskResetPassword(u) \/ AskChangePassword(u)
        BY <1>1, <2>1 DEF AskLogin, AskRefresh, AskResetPassword, AskChangePassword
    <2>2. CASE \/ Logout(u) \/ BlockUser(u) \/ UnblockUser(u) \/ ForgotPassword(u)
               \/ DeleteAccount(u) \/ \E phone \in Phones : UpdateProfile(u, phone)
        <3>1. UNCHANGED <<banks, created, payouts, inflight, disturbed>>
            BY <2>2 DEF Logout, BlockUser, UnblockUser, ForgotPassword, DeleteAccount,
               UpdateProfile, Write, bankVars
        <3> QED BY <3>1, BanksStay
    <2> QED BY <1>2, <2>1, <2>2, BankAsksKeep DEF UserStep, SignedInStep
<1>3. ASSUME NEW r \in inflight, Abandon(r) PROVE BanksInv'
    <2>1. UNCHANGED <<banks, created, payouts, disturbed>> /\ inflight' \subseteq inflight
        BY <1>3 DEF Abandon, Done, bankVars
    <2> QED BY <2>1, BanksStay
<1>4. ASSUME NEW r \in inflight, RequestStep(r) PROVE BanksInv'
    BY <1>3, <1>4, AccountWritesKeepBanks, ClearKeepsBanks, InsertKeepsBanks, SaveKeepsBanks,
       DeleteKeepsBanks, FindKeepsBanks, PromoteKeepsBanks, WithdrawKeepsBanks DEF RequestStep
<1>5. CASE \E phone \in Phones : AskRegister(phone)
    BY <1>1, <1>5 DEF AskRegister
<1>6. CASE \E b \in BankIds : PayoutEnds(b)
    <2>1. /\ UNCHANGED <<banks, created, inflight, disturbed>> /\ payouts' \subseteq payouts
        BY <1>6 DEF PayoutEnds
    <2> QED BY <2>1, BanksStay
<1>7. CASE /\ DevicesNext(Existing, {u \in Existing : Authenticated(u)})
           /\ UNCHANGED <<userVars, bankVars, inflight>>
    <2>1. disturbed \subseteq disturbed'
        BY <1>7, DevicesAreApart
    <2>2. UNCHANGED <<banks, created, payouts, inflight>>
        BY <1>7 DEF bankVars
    <2> QED BY <2>1, <2>2, BanksStay
<1>8. CASE UNCHANGED vars
    <2>1. UNCHANGED <<banks, created, payouts, inflight, disturbed>>
        BY <1>8 DEF vars
    <2> QED BY <2>1, BanksStay
<1> QED BY <1>2, <1>4, <1>5, <1>6, <1>7, <1>8 DEF Next

\* A phone has one account and an account a wallet, its session belongs to a
\* request that was made, and a bank detail to a user, for any number of users and
\* of requests in flight.
THEOREM AccountsTypeCorrect == Spec => []TypeOK
<1>1. Init => PhonesInv /\ BanksInv
    BY PhonesInit, BanksInit
<1>2. PhonesInv /\ BanksInv /\ [Next]_vars => PhonesInv' /\ BanksInv'
    BY PhonesStep, BanksStep DEF PhonesInv
<1>3. ASSUME PhonesInv, BanksInv PROVE TypeOK
    <2>1. \A u \in Existing : u \in DOMAIN wallets /\ users[u].token \in 0 .. asked
        <3> SUFFICES ASSUME NEW u \in Existing
                     PROVE  u \in DOMAIN wallets /\ users[u].token \in 0 .. asked
            OBVIOUS
        <3>1. u \in UserIds /\ users[u] # NoUser
            BY DEF Existing
        <3>2. u \in DOMAIN wallets /\ users[u].token \in Nat /\ asked \in Nat
            BY <1>3, <3>1 DEF PhonesInv, UsersInv, UsersOK, Account
        <3>3. users[u].token <= asked
            BY <1>3, <3>1 DEF PhonesInv, AccountsInOrder
        <3> QED BY <3>2, <3>3
    <2>2. \A b \in BankIds : banks[b] # NoBank => b <= created /\ banks[b].user \in UserIds
        BY <1>3 DEF BanksInv, BanksOK
    <2> QED BY <1>3, <2>1, <2>2 DEF PhonesInv, AccountsInOrder, TypeOK, Notes
<1> QED BY <1>1, <1>2, <1>3, PTL DEF Spec

\* While no request on bank details is overtaken by another, a user has one primary
\* detail at most, no more bank accounts than allowed, and those that pending
\* withdrawals name, for any number of users, of details and of requests in flight.
THEOREM BankDetailsInOrder == Spec => []BanksInOrder
<1>1. Init => UsersInv /\ BanksInv
    BY UsersInit, BanksInit
<1>2. UsersInv /\ BanksInv /\ [Next]_vars => UsersInv' /\ BanksInv'
    BY UsersStep, BanksStep
<1>3. BanksInv => BanksInOrder
    BY DEF BanksInv
<1> QED BY <1>1, <1>2, <1>3, PTL DEF Spec

=============================================================================
