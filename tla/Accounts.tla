------------------------------ MODULE Accounts ------------------------------
(***************************************************************************)
(* The accounts of the users: registration, sessions and passwords, the    *)
(* bank and UPI accounts money is withdrawn to, and the devices.           *)
(*                                                                         *)
(* A request reads and checks first and writes later, mostly without a     *)
(* database transaction; each write is a step.  A user is known by a       *)
(* number, and a refresh or reset token by the request it was issued to.   *)
(***************************************************************************)
EXTENDS Devices

CONSTANTS
    Phones,         \* phone numbers, and with each a username
    Bonus,          \* welcome bonus
    MaxBankAccounts,
    BankIds,        \* numbers of bank details, in the order of their creation
    MaxInFlight     \* bound: requests between their steps

ASSUME BanksAssumption == BankIds \subseteq Nat /\ MaxBankAccounts \in Nat

VARIABLES
    users,          \* by number: an account, or NoUser
    wallets,        \* by number: the bonus of a wallet that exists
    banks,          \* bank details: [user, full, upi, primary], or NoBank
    created,        \* number of bank details ever created
    payouts,        \* bank details a pending withdrawal names
    inflight,       \* requests that have read and are not finished
    stale,          \* history: those whose account was written since they read it
    ended           \* history: the number of requests when sessions were last ended

userVars == <<users, wallets, stale, ended>>
bankVars == <<banks, created, payouts>>
vars == <<users, wallets, banks, created, payouts, inflight, stale, ended,
          devices, live, sends, asked, wanted, disturbed>>

NoUser == [phone |-> "none", status |-> "none", token |-> 0, reset |-> 0]
NoBank == [user |-> 0, full |-> FALSE, upi |-> FALSE, primary |-> FALSE]
NewUser(phone) == [phone |-> phone, status |-> "active", token |-> 0, reset |-> 0]
Existing == {u \in UserIds : users[u] # NoUser}

\* One user is registered.
Init ==
    /\ \E phone \in Phones : users = [u \in UserIds |-> IF u = 1 THEN NewUser(phone) ELSE NoUser]
    /\ wallets = [u \in {1} |-> Bonus]
    /\ banks = [b \in BankIds |-> NoBank]
    /\ created = 0
    /\ payouts = {}
    /\ inflight = {}
    /\ stale = {}
    /\ ended = [u \in UserIds |-> 0]
    /\ asked = 0
    /\ disturbed = {}
    /\ DevicesInit

Ask(kind, u, more) ==
    /\ Cardinality(inflight) < MaxInFlight
    /\ CountRequest
    /\ inflight' = inflight \union {[kind |-> kind, nr |-> asked + 1, user |-> u, more |-> more]}
    /\ UNCHANGED <<userVars, bankVars, deviceVars, disturbed>>

Proceed(r, next) == inflight' = (inflight \ {r}) \union {next}
Done(r) == inflight' = inflight \ {r}

-----------------------------------------------------------------------------
(* Accounts and sessions *)

Unindexed(phone) == TRUE                                        \* Mutant
PhoneFree(phone) == \A u \in Existing : users[u].phone # phone

AskRegister(phone) ==
    /\ PhoneFree(phone)
    /\ Ask("register", 0, phone)

\* One transaction: account, role, wallet and bonus; the phone is a unique index.
CommitRegister(r) ==
    /\ r.kind = "register" /\ PhoneFree(r.more)
    /\ \E u \in UserIds \ DOMAIN wallets :
          /\ \A v \in UserIds : v < u => v \in DOMAIN wallets
          /\ users' = [users EXCEPT ![u] = NewUser(r.more)]
          /\ wallets' = [v \in DOMAIN wallets \union {u} |-> IF v = u THEN Bonus ELSE wallets[v]]
          /\ Proceed(r, [r EXCEPT !.kind = "issue", !.user = u])
    /\ UNCHANGED <<stale, ended, bankVars, deviceVars, asked, disturbed>>

\* A session is opened by the password, or by the refresh token that is stored.
AskLogin(u) ==
    /\ users[u].status = "active"
    /\ Ask("issue", u, "none")

AskRefresh(u) ==
    /\ users[u].token # 0
    /\ Ask("issue", u, "none")

\* Those that have read the account before this write.
Overtakes(u) ==
    stale' = stale \union {r.nr : r \in {x \in inflight : x.user = u /\ x.kind # "clear"}}

\* A write of a request that has read the account earlier.
WriteLate(r, account) ==
    /\ r.user \in Existing
    /\ users' = [users EXCEPT ![r.user] = account]
    /\ Overtakes(r.user)
    /\ disturbed' = disturbed \union IF r.nr \in stale THEN {"user"} ELSE {}
    /\ UNCHANGED <<wallets, bankVars, deviceVars, asked>>

IssueTokens(r) ==
    /\ r.kind = "issue"
    /\ WriteLate(r, [users[r.user] EXCEPT !.token = r.nr])
    /\ Done(r)
    /\ UNCHANGED ended

\* A write that needs no earlier read: the account is found and changed at once.
Write(u, account) ==
    /\ CountRequest
    /\ users' = [users EXCEPT ![u] = account]
    /\ Overtakes(u)
    /\ UNCHANGED <<wallets, bankVars, deviceVars, inflight, disturbed>>

EndSessions(u) == ended' = [ended EXCEPT ![u] = asked + 1]

Logout(u) ==
    /\ Write(u, [users[u] EXCEPT !.token = 0])
    /\ EndSessions(u)

StatusOnly(u) == [users[u] EXCEPT !.status = "banned"]          \* Mutant
Blocked(u) == [users[u] EXCEPT !.status = "banned", !.token = 0]

BlockUser(u) ==
    /\ Write(u, Blocked(u))
    /\ EndSessions(u)

UnblockUser(u) ==
    /\ Write(u, [users[u] EXCEPT !.status = "active"])
    /\ UNCHANGED ended

ForgotPassword(u) ==
    /\ Write(u, [users[u] EXCEPT !.reset = asked + 1])
    /\ UNCHANGED ended

UpdateProfile(u, phone) ==
    /\ PhoneFree(phone)
    /\ Write(u, [users[u] EXCEPT !.phone = phone])
    /\ UNCHANGED ended

\* The wallet, the bets, the bank details and the devices stay behind.
DeleteAccount(u) ==
    /\ Write(u, NoUser)
    /\ UNCHANGED ended

\* A new password is allowed by a reset token that has not expired, or by the old one.
AskResetPassword(u) ==
    /\ users[u].reset # 0
    /\ Ask("password", u, "none")

AskChangePassword(u) == Ask("password", u, "none")

UpdatePassword(r) ==
    /\ r.kind = "password"
    /\ WriteLate(r, [users[r.user] EXCEPT !.token = 0, !.reset = 0])
    /\ ended' = [ended EXCEPT ![r.user] = asked]
    /\ Proceed(r, [r EXCEPT !.kind = "clear"])

ClearRefreshToken(r) ==
    /\ r.kind = "clear"
    /\ WriteLate([r EXCEPT !.nr = 0], [users[r.user] EXCEPT !.token = 0])
    /\ Done(r)
    /\ UNCHANGED ended

-----------------------------------------------------------------------------
(* Bank and UPI accounts *)

BanksOf(u) == {b \in BankIds : banks[b].user = u}
Seen(u) == [b \in BanksOf(u) |-> banks[b]]
FullOf(u) == {b \in BanksOf(u) : banks[b].full}

\* The order in which the details of a user are found: primary ones, newest first.
Before(a, b) == \/ banks[a].primary /\ ~banks[b].primary
                \/ banks[a].primary = banks[b].primary /\ a > b
FirstOf(S) == {b \in S : \A a \in S \ {b} : Before(b, a)}

\* What a request sees is remembered, to tell whether it is overtaken.
Bank(u, primary, target, b) ==
    [primary |-> primary, clears |-> primary = "yes", target |-> target,
     was |-> banks[b].primary, seen |-> Seen(u)]

CreateBankAccount(u, choice) ==
    LET count == Cardinality(FullOf(u))
        first == count = 0 /\ choice # "no"
    IN  /\ count < MaxBankAccounts
        /\ Ask("bank", u, Bank(u, IF choice = "yes" \/ first THEN "yes" ELSE "no", {}, 1))

\* The detail that has a UPI id is preferred; else any is taken.
UpsertUserUpiAccount(u, choice) ==
    LET preferred == {b \in BanksOf(u) : banks[b].upi}
        target    == FirstOf(IF preferred = {} THEN BanksOf(u) ELSE preferred)
    IN  \E b \in IF target = {} THEN {1} ELSE target :
           Ask("upi", u, Bank(u, choice, target, b))

WriteBank(r, after) ==
    /\ banks' = after
    /\ disturbed' = disturbed \union IF Seen(r.user) = r.more.seen THEN {} ELSE {"bank"}
    /\ UNCHANGED <<userVars, deviceVars, asked>>

BankAccountsOnly(u) == FullOf(u)                                \* Mutant
Defaults(u) == BanksOf(u)

ClearDefaults(r) ==
    LET after == [b \in BankIds |-> IF b \in Defaults(r.user)
                                    THEN [banks[b] EXCEPT !.primary = FALSE] ELSE banks[b]]
    IN  /\ r.kind \in {"bank", "upi"} /\ r.more.clears
        /\ WriteBank(r, after)
        /\ Proceed(r, [r EXCEPT !.more.clears = FALSE,
                                !.more.seen = [b \in BanksOf(r.user) |-> after[b]]])
        /\ UNCHANGED <<created, payouts>>

\* A UPI id may be given along with a bank account.
InsertBank(r, upi) ==
    /\ r.kind \in {"bank", "upi"} /\ ~r.more.clears /\ r.more.target = {}
    /\ r.kind = "upi" => upi
    /\ created + 1 \in BankIds
    /\ created' = created + 1
    /\ WriteBank(r, [banks EXCEPT ![created + 1] =
          [user |-> r.user, full |-> r.kind = "bank", upi |-> upi,
           primary |-> IF r.kind = "bank" THEN r.more.primary = "yes" ELSE r.more.primary # "no"]])
    /\ Done(r)
    /\ UNCHANGED payouts

\* Saving a detail writes what differs from the detail that was read.
SaveUpi(r) ==
    \E b \in r.more.target :
       /\ ~r.more.clears /\ b \in BanksOf(r.user)
       /\ LET wish == r.more.primary = "yes"
              kept == r.more.primary = "unset" \/ wish = r.more.was
          IN  WriteBank(r, [banks EXCEPT ![b].upi = TRUE,
                                         ![b].primary = IF kept THEN @ ELSE wish])
       /\ Done(r)
       /\ UNCHANGED <<created, payouts>>

AskDeleteBank(u, b) ==
    /\ b \in BanksOf(u) /\ b \notin payouts
    /\ Ask("delete", u, [bank |-> b, seen |-> Seen(u)])

\* What was found to have no pending withdrawal is deleted.
DeleteBank(r) ==
    /\ r.kind = "delete" /\ r.more.bank \in BanksOf(r.user)
    /\ banks' = [banks EXCEPT ![r.more.bank] = NoBank]
    /\ disturbed' = disturbed \union IF r.more.bank \in payouts THEN {"bank"} ELSE {}
    /\ IF banks[r.more.bank].primary
       THEN Proceed(r, [r EXCEPT !.kind = "promote", !.more = "none"])
       ELSE Done(r)
    /\ UNCHANGED <<userVars, created, payouts, deviceVars, asked>>

\* The first of the details that are left becomes the primary one.
FindFirst(r) ==
    /\ r.kind = "promote"
    /\ \E b \in FirstOf(BanksOf(r.user)) :
          Proceed(r, [r EXCEPT !.kind = "first", !.more = [bank |-> b, seen |-> Seen(r.user)]])
    /\ UNCHANGED <<userVars, bankVars, deviceVars, asked, disturbed>>

PromoteFirst(r) ==
    /\ r.kind = "first" /\ r.more.bank \in BanksOf(r.user)
    /\ WriteBank(r, [banks EXCEPT ![r.more.bank].primary = TRUE])
    /\ Done(r)
    /\ UNCHANGED <<created, payouts>>

AskWithdraw(u, b) ==
    /\ b \in BanksOf(u)
    /\ Ask("withdraw", u, [bank |-> b])

\* The withdrawal names the bank detail it has read and keeps a copy of it.
Withdraw(r) ==
    /\ r.kind = "withdraw"
    /\ payouts' = payouts \union {r.more.bank}
    /\ disturbed' = disturbed \union IF banks[r.more.bank] = NoBank THEN {"bank"} ELSE {}
    /\ Done(r)
    /\ UNCHANGED <<userVars, banks, created, deviceVars, asked>>

PayoutEnds(b) ==
    /\ b \in payouts
    /\ payouts' = payouts \ {b}
    /\ UNCHANGED <<userVars, banks, created, inflight, deviceVars, asked, disturbed>>

-----------------------------------------------------------------------------

\* An error or a restart between the steps: what is written stays written.
Abandon(r) ==
    /\ Done(r)
    /\ UNCHANGED <<userVars, bankVars, deviceVars, asked, disturbed>>

\* A request with an access token is let through while its account is active.
Authenticated(u) == users[u].status = "active"

SignedInStep(u) ==
    /\ Authenticated(u)
    /\ \/ Logout(u) \/ AskChangePassword(u) \/ DeleteAccount(u)
       \/ \E phone \in Phones : UpdateProfile(u, phone)
       \/ \E choice \in {"yes", "no", "unset"} :
             CreateBankAccount(u, choice) \/ UpsertUserUpiAccount(u, choice)
       \/ \E b \in BankIds : AskDeleteBank(u, b) \/ AskWithdraw(u, b)

UserStep(u) ==
    \/ AskLogin(u) \/ AskRefresh(u) \/ ForgotPassword(u) \/ AskResetPassword(u)
    \/ BlockUser(u) \/ UnblockUser(u)
    \/ SignedInStep(u)

RequestStep(r) ==
    \/ CommitRegister(r) \/ IssueTokens(r) \/ UpdatePassword(r) \/ ClearRefreshToken(r)
    \/ ClearDefaults(r)
    \/ \E upi \in BOOLEAN : InsertBank(r, upi)
    \/ r.kind = "upi" /\ SaveUpi(r)
    \/ DeleteBank(r) \/ FindFirst(r) \/ PromoteFirst(r) \/ Withdraw(r)
    \/ Abandon(r)

Next ==
    \/ \E phone \in Phones : AskRegister(phone)
    \/ \E u \in Existing : UserStep(u)
    \/ \E r \in inflight : RequestStep(r)
    \/ \E b \in BankIds : PayoutEnds(b)
    \/ DevicesNext(Existing, {u \in Existing : Authenticated(u)}) /\ UNCHANGED <<userVars, bankVars, inflight>>

Spec == Init /\ [][Next]_vars

-----------------------------------------------------------------------------
(* Properties *)

\* Every phone number has one account, and every account a wallet, whatever
\* registrations and changes of the profile overtake each other.
TypeOK ==
    /\ \A u, v \in Existing : users[u].phone = users[v].phone => u = v
    /\ \A u \in Existing : u \in DOMAIN wallets /\ users[u].token \in 0 .. asked
    /\ \A b \in BankIds : banks[b] # NoBank => b <= created /\ banks[b].user \in UserIds
    /\ disturbed \subseteq {"user", "bank", "device"}

\* As long as no request was overtaken by a write of the account it has read, the
\* session that is stored was asked for after the last logout, new password or
\* block, however these follow each other.
SessionsStayEnded ==
    "user" \notin disturbed =>
       \A u \in Existing : users[u].token = 0 \/ users[u].token > ended[u]

\* As long as no request was overtaken by another on the details of its user, a
\* user has one primary detail at most, no more bank accounts than are allowed,
\* and those a pending withdrawal names.
BanksInOrder ==
    "bank" \notin disturbed =>
       /\ \A u \in UserIds : \A a, b \in BanksOf(u) :
             banks[a].primary /\ banks[b].primary => a = b
       /\ \A u \in UserIds : Cardinality(FullOf(u)) <= MaxBankAccounts
       /\ \A b \in payouts : banks[b] # NoBank
=============================================================================
