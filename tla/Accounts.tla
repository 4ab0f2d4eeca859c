------------------------------ MODULE Accounts ------------------------------
(***************************************************************************)
(* Accounts, sessions and second factors (core/account.go, twofactor.go,   *)
(* email_verification.go, captcha.go, their stores, httpapi/auth.go,       *)
(* twofactor.go and middleware.go) and what a user keeps of their own      *)
(* (signatures, login rules, files: projections/mutations.go).             *)
(*                                                                         *)
(* A request runs on one Handler.  What it does in one statement or        *)
(* one transaction is one step; what it has read before is in handling, so *)
(* other requests come between.  A process may stop between two steps.     *)
(***************************************************************************)
EXTENDS Integers, FiniteSets, FiniteSetsExt, Functions

CONSTANTS
    Handlers,      \* the goroutines that serve requests
    People,        \* those who may have an account, under their own name or an alias
    Alias,
    Deleted,       \* the account that the posts of deleted accounts go to
    Passwords,
    CodeTTL,       \* seconds for which a code, a token or a challenge is good
    MaxSignatures, MaxFiles,
    MaxSecond, MaxRequests      \* bounds: the clock, the requests started

VARIABLES
    site,        \* the tables, and the tokens that were given out
    handling,    \* what each caller has read, and does next
    served,      \* requests so far
    second,      \* the clock
    spent,       \* history: how often each code, challenge or request has paid
    endedAt,     \* history: when the sessions of a user were last ended
    overlapped,  \* history: two deletions of accounts ran at the same time
    stopped      \* history: what was left undone by processes that stopped

accountVars == <<site, handling, served, second, spent, endedAt, overlapped, stopped>>

ASSUME AccountAssumption == CodeTTL \in Nat /\ MaxSignatures \in Nat \ {0} /\ MaxFiles \in Nat \ {0}

NoRow == [x \in {} |-> 0]
WithRow(f, x, y) == [z \in DOMAIN f \cup {x} |-> IF z = x THEN y ELSE f[z]]
Without(f, S) == [z \in DOMAIN f \ S |-> f[z]]

NoSecret == 0
NoCode == [code |-> 0, expires |-> 0]
NoFactors == [pending |-> NoSecret, secret |-> NoSecret, lastStep |-> 0, email |-> FALSE,
              mailed |-> NoCode, backup |-> {}]
NoBody == ""
Guest == ""
NoSignature == -1
NewPersonal == [sigs |-> NoRow, selected |-> NoSignature, random |-> FALSE, signature |-> NoBody,
                aclOn |-> FALSE, rules |-> NoRow, files |-> NoRow, mail |-> FALSE]
NewAccount(u, role, status, password) ==
    [name |-> u, role |-> role, status |-> status, closed |-> FALSE, password |-> password,
     changedAt |-> 0, validAfter |-> 0, verified |-> TRUE]

\* Fields of site: accounts (the users table), approval (of registrations is
\* required), verifying (of addresses is), staff2FA (so are second factors), records (threads of the newcomers and Goodbye boards and their
\* authors), tokens, tickets (captcha challenges, tokens of verification
\* mails), factors (second factors), recoveries (requests for a new password),
\* personal (profile, signatures, login rules, files).
EmptySite == [accounts |-> NoRow, approval |-> FALSE, verifying |-> FALSE, staff2FA |-> FALSE, records |-> NoRow,
              tokens |-> {}, tickets |-> NoRow, factors |-> [u \in People |-> NoFactors],
              recoveries |-> NoRow, personal |-> [u \in People |-> NewPersonal]]

NoRequest == [op |-> "idle"]

Exists(u) == u \in DOMAIN site.accounts
Account(u) == site.accounts[u]

---------------------------------------------------------------------------
\* Requests.  What follows the first step is decided by what was read.

Begins(c, work) ==
    /\ handling[c] = NoRequest /\ served < MaxRequests
    /\ handling' = [handling EXCEPT ![c] = work]
    /\ served' = served + 1

Goes(c, work) == handling' = [handling EXCEPT ![c] = work] /\ UNCHANGED served
Ends(c) == Goes(c, NoRequest)

\* A request of one step.
Serves == served < MaxRequests /\ served' = served + 1 /\ UNCHANGED handling

\* Only the tables change besides the requests, or only one history.
Plainly == UNCHANGED <<second, spent, endedAt, overlapped, stopped>>
Paid(key) == WithRow(spent, key, IF key \in DOMAIN spent THEN spent[key] + 1 ELSE 1)
Pays(key) == spent' = Paid(key) /\ UNCHANGED <<second, endedAt, overlapped, stopped>>
EndsSessions(u) == endedAt' = [endedAt EXCEPT ![u] = second] /\ UNCHANGED <<second, spent, overlapped, stopped>>

\* Mutant: signing out everywhere is forgotten by whoever has changed the password.
tokenIssuedAfterRevocation_Either(t, a) ==
    LET cutoff == IF a.changedAt > 0 THEN a.changedAt ELSE a.validAfter IN
    cutoff <= 0 \/ t.iat >= cutoff

tokenIssuedAfterRevocation(t, a) ==
    LET cutoff == IF a.validAfter > a.changedAt THEN a.validAfter ELSE a.changedAt IN
    cutoff <= 0 \/ t.iat >= cutoff

requireAuth(t) ==
    /\ t.typ = "session" /\ Exists(t.user)
    /\ tokenIssuedAfterRevocation(t, Account(t.user))
    /\ ~Account(t.user).closed /\ Account(t.user).status = "approved"

\* Where no session is needed, who has none, or one that is refused, is a guest.
resolveOptionalUser(t) ==
    IF /\ t.typ = "session" /\ Exists(t.user)
       /\ tokenIssuedAfterRevocation(t, Account(t.user))
       /\ ~Account(t.user).closed /\ Account(t.user).status = "approved"
    THEN t.user ELSE Guest

\* Who can send an authenticated request.
SignedIn == {t.user : t \in {s \in site.tokens : requireAuth(s)}}
Admins == {u \in DOMAIN site.accounts : Account(u).role = "admin"}

mintToken(u) == [user |-> u, typ |-> "session", iat |-> second]
mintChallengeToken(u) == [user |-> u, typ |-> "2fa", iat |-> second]
parseChallengeToken(t) == t.typ = "2fa" /\ second <= t.iat + CodeTTL

---------------------------------------------------------------------------
\* Challenges and tokens that are good for one use.  To claim one is to delete
\* its row: of the requests that have read it, one finds it still there.

InsertTicket(s, key, u) == [s EXCEPT !.tickets = WithRow(@, key, [user |-> u, expires |-> second + CodeTTL])]

IssueCaptchaChallenge(s) ==
    LET pruned == [s EXCEPT !.tickets =
                      Without(@, {k \in DOMAIN @ : k[1] = "captcha" /\ @[k].expires < second})] IN
    InsertTicket(pruned, <<"captcha", served>>, Deleted)

handleCaptchaChallenge == Serves /\ site' = IssueCaptchaChallenge(site) /\ Plainly

ClaimTicket(key) == key \in DOMAIN site.tickets

\* The account is not verified any more, and its earlier tokens go.
StartEmailVerification(s, u) ==
    InsertTicket([s EXCEPT !.accounts[u].verified = FALSE, !.personal[u].mail = TRUE,
                           !.tickets = Without(@, {k \in DOMAIN @ : k[1] = "verify" /\ @[k].user = u})],
                 <<"verify", served>>, u)

ResendEmailVerification(s, u) ==
    IF s.accounts[u].verified \/ ~s.personal[u].mail THEN s ELSE StartEmailVerification(s, u)

handleResendVerification(u) ==
    /\ Exists(u)
    /\ Serves /\ site' = ResendEmailVerification(site, u) /\ Plainly

handleVerifyEmail(c, key) ==
    /\ key \in DOMAIN site.tickets /\ key[1] = "verify"
    /\ Begins(c, [op |-> "verify", key |-> key, row |-> site.tickets[key]])
    /\ UNCHANGED site /\ Plainly

VerifyEmailToken(c) ==
    LET h == handling[c] IN
    /\ h.op = "verify"
    /\ \/ /\ ClaimTicket(h.key) /\ h.row.expires >= second
          /\ Goes(c, [op |-> "verified", user |-> h.row.user]) /\ Pays(h.key)
       \/ /\ ~ClaimTicket(h.key) \/ h.row.expires < second
          /\ Ends(c) /\ Plainly
    /\ site' = [site EXCEPT !.tickets = Without(@, {h.key})]

MarkVerified(c) ==
    LET u == handling[c].user IN
    /\ handling[c].op = "verified"
    /\ site' = IF Exists(u) THEN [site EXCEPT !.accounts[u].verified = TRUE] ELSE site
    /\ Ends(c) /\ Plainly

---------------------------------------------------------------------------
\* Registration, its review, and the end of an account.

\* The thread of a record has the id of the account: it is written once.
appendAccountLifecycleRecordTx(s, kind, u) ==
    IF <<kind, u>> \in DOMAIN s.records THEN s ELSE [s EXCEPT !.records = WithRow(@, <<kind, u>>, u)]

NameFree(s, name) == \A v \in DOMAIN s.accounts : s.accounts[v].name # name

CreateRegisteredUserTx(s, u, role, status, password) ==
    [s EXCEPT !.accounts = WithRow(@, u, NewAccount(u, role, status, password)),
              !.personal[u] = NewPersonal]

FirstUser(s) == DOMAIN s.accounts = {}
RegistrationStatus(s) == IF ~FirstUser(s) /\ s.approval THEN "pending" ELSE "approved"

\* The gate makes the transactions of registrations follow one another.
RegisterUser(s, u, password) ==
    LET t == CreateRegisteredUserTx(s, u, IF FirstUser(s) THEN "admin" ELSE "user",
                                    RegistrationStatus(s), password) IN
    IF RegistrationStatus(s) = "approved" THEN appendAccountLifecycleRecordTx(t, "newcomer", u) ELSE t

handleRegister(c, u, key) ==
    /\ ~Exists(u) /\ key \in DOMAIN site.tickets /\ key[1] = "captcha"
    /\ Begins(c, [op |-> "captcha", user |-> u, key |-> key, row |-> site.tickets[key]])
    /\ UNCHANGED site /\ Plainly

verifyNativeCaptcha(c) ==
    LET h == handling[c] IN
    /\ h.op = "captcha"
    /\ \/ /\ ClaimTicket(h.key) /\ h.row.expires >= second
          /\ Goes(c, [op |-> "register", user |-> h.user]) /\ Pays(h.key)
       \/ /\ ~ClaimTicket(h.key) \/ h.row.expires < second
          /\ Ends(c) /\ Plainly
    /\ site' = [site EXCEPT !.tickets = Without(@, {h.key})]

RegisterInTx(c, password) ==
    LET u == handling[c].user IN
    /\ handling[c].op = "register"
    /\ \/ /\ ~Exists(u) /\ NameFree(site, u)
          /\ site' = RegisterUser(site, u, password)
          /\ Goes(c, [op |-> "registered", user |-> u, status |-> RegistrationStatus(site)])
       \/ (Exists(u) \/ ~NameFree(site, u)) /\ Ends(c) /\ UNCHANGED site
    /\ Plainly

\* What follows the registration is not part of its transaction: the mail that
\* verifies the address or, where none is wanted, the first session.
AfterRegistration(c) ==
    LET u == handling[c].user IN
    /\ handling[c].op = "registered" /\ Exists(u)
    /\ site' = IF site.verifying THEN StartEmailVerification(site, u)
               ELSE IF handling[c].status = "pending" THEN site
               ELSE [site EXCEPT !.tokens = @ \cup {mintToken(u)}]
    /\ Ends(c) /\ Plainly

SetAccountRegistrationSettings(s, approval) == [s EXCEPT !.approval = approval]

handleSetAccountRegistrationSettings(by, approval) ==
    /\ by \in SignedIn \cap Admins
    /\ Serves /\ site' = SetAccountRegistrationSettings(site, approval) /\ Plainly

ReviewAccountRegistration(s, u, decision) == [s EXCEPT !.accounts[u].status = decision]

\* The review is committed; the record of an approved newcomer follows in a
\* transaction of its own.
handleReviewAccountRegistration(c, by, u, decision) ==
    /\ by \in SignedIn \cap Admins /\ Exists(u) /\ Account(u).status = "pending"
    /\ Begins(c, IF decision = "approved" THEN [op |-> "welcome", user |-> u] ELSE NoRequest)
    /\ site' = ReviewAccountRegistration(site, u, decision) /\ Plainly

RecordNewcomer(c) ==
    LET u == handling[c].user IN
    /\ handling[c].op = "welcome"
    /\ site' = IF Exists(u) THEN appendAccountLifecycleRecordTx(site, "newcomer", u) ELSE site
    /\ Ends(c) /\ Plainly

handleDeactivateAccount(c, u, password) ==
    /\ u \in SignedIn /\ ~Account(u).closed /\ Account(u).password = password
    /\ Begins(c, [op |-> "close", user |-> u])
    /\ UNCHANGED site /\ Plainly

DeactivateAccount(s, u) ==
    appendAccountLifecycleRecordTx(IF u \in DOMAIN s.accounts THEN [s EXCEPT !.accounts[u].closed = TRUE] ELSE s,
                                   "goodbye", u)

CloseInTx(c) ==
    /\ handling[c].op = "close"
    /\ site' = DeactivateAccount(site, handling[c].user)
    /\ Ends(c) /\ Plainly

\* Posts and threads go to the tombstone, everything the user owns is deleted.
PurgeUserTx(s, u) ==
    [s EXCEPT !.records = [r \in DOMAIN @ |-> IF @[r] = u THEN Deleted ELSE @[r]],
              !.recoveries = Without(@, {r \in DOMAIN @ : @[r].user = u}),
              !.personal[u] = NewPersonal]

\* The rows that refer to the user with ON DELETE CASCADE go with it.
DeleteUserTx(s, u) ==
    [s EXCEPT !.accounts = Without(@, {u}), !.factors[u] = NoFactors,
              !.tickets = Without(@, {k \in DOMAIN @ : @[k].user = u})]

OtherAdminCountTx(u) == Cardinality(Admins \ {u})

\* The session is an administrator's, and the account is looked up by its name.
handleDeleteUser(c, by, u) ==
    /\ by \in SignedIn \cap Admins /\ Exists(u) /\ u \notin {by, Deleted}
    /\ Begins(c, [op |-> "remove", user |-> u, by |-> by])
    /\ UNCHANGED site /\ Plainly

\* Mutant: whoever the session was made for is still an administrator.
MayDelete_Session(by, u) == Exists(u)

MayDelete(by, u) == by \in Admins /\ Exists(u) /\ (u \in Admins => OtherAdminCountTx(u) > 0)

\* The transaction reads both accounts and counts administrators; nothing is
\* locked, so that another may do the same before this one writes.
DeleteUserReads(c) ==
    LET h == handling[c]
        may == MayDelete(h.by, h.user) IN
    /\ h.op = "remove"
    /\ Goes(c, IF may THEN [op |-> "delete", user |-> h.user] ELSE NoRequest)
    /\ overlapped' = (overlapped \/ (may /\ \E d \in Handlers \ {c} : handling[d].op = "delete"))
    /\ UNCHANGED <<site, second, spent, endedAt, stopped>>

DeleteInTx(c) ==
    LET u == handling[c].user IN
    /\ handling[c].op = "delete"
    /\ site' = IF Exists(u) THEN DeleteUserTx(PurgeUserTx(site, u), u) ELSE site
    /\ Ends(c) /\ Plainly

\* The name is changed wherever it is kept; the id stays.
TransferUserID(s, u, name) ==
    IF \E v \in DOMAIN s.accounts \ {u} : s.accounts[v].name = name THEN s
    ELSE [s EXCEPT !.accounts[u].name = name]

handleTransferUserID(by, u, name) ==
    /\ by \in SignedIn \cap Admins /\ Exists(u)
    /\ Serves /\ site' = TransferUserID(site, u, name) /\ Plainly

---------------------------------------------------------------------------
\* Passwords and the end of sessions.

handleChangePassword(c, u, current, new) ==
    /\ u \in SignedIn /\ Account(u).password = current
    /\ Begins(c, [op |-> "password", user |-> u, new |-> new])
    /\ UNCHANGED site /\ Plainly

UpdatePassword(s, u, new) == [s EXCEPT !.accounts[u].password = new, !.accounts[u].changedAt = second]

ChangePassword(c) ==
    LET h == handling[c] IN
    /\ h.op = "password"
    /\ IF Exists(h.user) THEN site' = UpdatePassword(site, h.user, h.new) /\ EndsSessions(h.user)
                         ELSE UNCHANGED site /\ Plainly
    /\ Ends(c)

RevokeUserSessions(s, u) == [s EXCEPT !.accounts[u].validAfter = second]

handleLogoutAll(u) ==
    /\ u \in SignedIn
    /\ Serves /\ site' = RevokeUserSessions(site, u) /\ EndsSessions(u)

CreatePasswordRecoveryRequest(s, u) ==
    [s EXCEPT !.recoveries = WithRow(@, served, [user |-> u, status |-> "pending"])]

handleRequestPasswordRecovery(u) ==
    /\ Exists(u)
    /\ Serves /\ site' = CreatePasswordRecoveryRequest(site, u) /\ Plainly

handleReviewPasswordRecoveryRequest(c, by, r, decision, new) ==
    /\ by \in SignedIn \cap Admins /\ r \in DOMAIN site.recoveries /\ site.recoveries[r].status = "pending"
    /\ Begins(c, [op |-> "recover", request |-> r, decision |-> decision, new |-> new])
    /\ UNCHANGED site /\ Plainly

StillPending(r) == r \in DOMAIN site.recoveries /\ site.recoveries[r].status = "pending"

\* The password is set and the request closed in one transaction, which is
\* rolled back if the request is not pending any more.
ReviewPasswordRecoveryRequest(c) ==
    LET h == handling[c]
        u == site.recoveries[h.request].user IN
    /\ h.op = "recover"
    /\ \/ /\ StillPending(h.request) /\ h.decision = "reset"
          /\ site' = UpdatePassword([site EXCEPT !.recoveries[h.request].status = "resolved"], u, h.new)
          /\ spent' = Paid(<<"recovery", h.request>>) /\ endedAt' = [endedAt EXCEPT ![u] = second]
          /\ UNCHANGED <<second, overlapped, stopped>>
       \/ /\ StillPending(h.request) /\ h.decision = "rejected"
          /\ site' = [site EXCEPT !.recoveries[h.request].status = "rejected"] /\ Plainly
       \/ ~StillPending(h.request) /\ UNCHANGED site /\ Plainly
    /\ Ends(c)

---------------------------------------------------------------------------
\* Signing in.

emailVerified(u) == Exists(u) /\ Account(u).verified

loginACLPatternMatches(host, pattern) == pattern \in {host, "*"}

LoginACLAllows(p, host) ==
    ~p.aclOn \/ \E r \in DOMAIN p.rules : p.rules[r].active /\ loginACLPatternMatches(host, p.rules[r].pattern)

UserLoginAllowed(u, host) == LoginACLAllows(site.personal[u], host)

Enrolled(f) == f.secret # NoSecret \/ f.email

TwoFactorRequiredForLogin(u, role) ==
    role \in {"admin", "moderator"} /\ site.staff2FA /\ Enrolled(site.factors[u])

\* The user is looked up by name; the password is compared with what was read.
AuthenticateUser(u, password) ==
    Exists(u) /\ ~Account(u).closed /\ Account(u).status = "approved" /\ Account(u).password = password

handleLogin(c, u, password, host) ==
    /\ AuthenticateUser(u, password)
    /\ Begins(c, [op |-> "login", user |-> u, role |-> Account(u).role, host |-> host])
    /\ UNCHANGED site /\ Plainly

FinishLogin(c) ==
    LET h == handling[c] IN
    /\ h.op = "login"
    /\ site' = IF ~emailVerified(h.user) \/ ~UserLoginAllowed(h.user, h.host) THEN site
               ELSE IF TwoFactorRequiredForLogin(h.user, h.role)
                    THEN [site EXCEPT !.tokens = @ \cup {mintChallengeToken(h.user)}]
                    ELSE [site EXCEPT !.tokens = @ \cup {mintToken(h.user)}]
    /\ Ends(c) /\ Plainly

\* A session for who has a challenge and has spent a code.
SignsIn(s, u) == IF Exists(u) THEN [s EXCEPT !.tokens = @ \cup {mintToken(u)}] ELSE s

\* A code of the authenticator stands for a step of the clock; the code of the
\* step before and of the next one are good, too.
ValidateAt(secret, step) == secret # NoSecret /\ step \in (second - 1)..(second + 1)

VerifyTOTP(c, t, step) ==
    LET f == site.factors[t.user] IN
    /\ t \in site.tokens /\ parseChallengeToken(t) /\ ValidateAt(f.secret, step) /\ step > f.lastStep
    /\ Begins(c, [op |-> "totp", user |-> t.user, step |-> step])
    /\ UNCHANGED site /\ Plainly

\* Mutant: the step was compared when it was read, and is not compared again.
StepFree_Read(u, step) == Exists(u)

StepFree(u, step) == Exists(u) /\ site.factors[u].lastStep < step

ClaimTOTPStep(c) ==
    LET h == handling[c] IN
    /\ h.op = "totp"
    /\ \/ /\ StepFree(h.user, h.step)
          /\ site' = SignsIn([site EXCEPT !.factors[h.user].lastStep = h.step], h.user)
          /\ Pays(<<"totp", h.user, h.step>>)
       \/ ~StepFree(h.user, h.step) /\ UNCHANGED site /\ Plainly
    /\ Ends(c)

\* A new code replaces the one that was mailed before.
StoreEmailCode(s, u) ==
    [s EXCEPT !.factors[u].mailed = [code |-> served + 1, expires |-> second + CodeTTL]]

SendEmail2FACode(s, u) == IF s.factors[u].email /\ s.personal[u].mail THEN StoreEmailCode(s, u) ELSE s

handleRequestEmail2FACode(t) ==
    /\ t \in site.tokens /\ parseChallengeToken(t)
    /\ Serves /\ site' = SendEmail2FACode(site, t.user) /\ Plainly

\* The code is compared with what was read; one that has expired is deleted,
\* whichever code is there by then.
VerifyEmail2FACode(c, t) ==
    LET m == site.factors[t.user].mailed IN
    /\ t \in site.tokens /\ parseChallengeToken(t) /\ m # NoCode
    /\ Begins(c, [op |-> IF second > m.expires THEN "dropcode" ELSE "mailed", user |-> t.user, code |-> m.code])
    /\ UNCHANGED site /\ Plainly

ClaimEmailCode(c) ==
    LET h == handling[c]
        claimed == site.factors[h.user].mailed.code = h.code
        gone == [site EXCEPT !.factors[h.user].mailed = NoCode] IN
    /\ \/ h.op = "mailed" /\ claimed /\ site' = SignsIn(gone, h.user) /\ Pays(<<"mailed", h.user, h.code>>)
       \/ h.op = "mailed" /\ ~claimed /\ UNCHANGED site /\ Plainly
       \/ h.op = "dropcode" /\ site' = gone /\ Plainly
    /\ Ends(c)

\* One statement marks the code as used.
VerifyBackupCode(t, code) ==
    /\ t \in site.tokens /\ parseChallengeToken(t) /\ code \in site.factors[t.user].backup
    /\ Serves
    /\ site' = SignsIn([site EXCEPT !.factors[t.user].backup = @ \ {code}], t.user)
    /\ Pays(<<"backup", t.user, code>>)

---------------------------------------------------------------------------
\* Second factors.

handleSetSecuritySettings(by, required) ==
    /\ by \in SignedIn \cap Admins
    /\ Serves /\ site' = [site EXCEPT !.staff2FA = required] /\ Plainly

BeginTOTPEnrollment(s, u) == [s EXCEPT !.factors[u].pending = served + 1]

handleInitTOTP(u) ==
    /\ u \in SignedIn
    /\ Serves /\ site' = BeginTOTPEnrollment(site, u) /\ Plainly

handleConfirmTOTP(c, u) ==
    /\ u \in SignedIn /\ site.factors[u].pending # NoSecret
    /\ Begins(c, [op |-> "confirm", user |-> u, secret |-> site.factors[u].pending])
    /\ UNCHANGED site /\ Plainly

\* The step of the last code stays: no code is good for a second secret either.
ActivatePendingTOTP(s, u, secret) ==
    IF Exists(u) THEN [s EXCEPT !.factors[u].secret = secret, !.factors[u].pending = NoSecret] ELSE s

\* The secret that was read is activated, whatever is pending by then.
ConfirmTOTPEnrollment(c) ==
    /\ handling[c].op = "confirm"
    /\ site' = ActivatePendingTOTP(site, handling[c].user, handling[c].secret)
    /\ Ends(c) /\ Plainly

DisableTOTP(s, u) == [s EXCEPT !.factors[u].secret = NoSecret, !.factors[u].pending = NoSecret]

handleDisableTOTP(c, u) ==
    /\ u \in SignedIn
    /\ site' = DisableTOTP(site, u)
    /\ Begins(c, [op |-> "disabled", user |-> u]) /\ Plainly

EnableEmail2FA(s, u) == IF s.personal[u].mail THEN [s EXCEPT !.factors[u].email = TRUE] ELSE s

handleEnableEmail2FA(u) ==
    /\ u \in SignedIn
    /\ Serves /\ site' = EnableEmail2FA(site, u) /\ Plainly

DisableEmail2FA(s, u) == [s EXCEPT !.factors[u].email = FALSE]

handleDisableEmail2FA(c, u) ==
    /\ u \in SignedIn
    /\ site' = DisableEmail2FA(site, u)
    /\ Begins(c, [op |-> "disabled", user |-> u]) /\ Plainly

\* Whether any factor is left is read; the codes are deleted afterwards.
ClearBackupCodesIfUnenrolled(c) ==
    LET h == handling[c] IN
    /\ \/ h.op = "disabled" /\ UNCHANGED site
          /\ Goes(c, IF Enrolled(site.factors[h.user]) THEN NoRequest ELSE [op |-> "clear", user |-> h.user])
       \/ h.op = "clear" /\ site' = [site EXCEPT !.factors[h.user].backup = {}] /\ Ends(c)
    /\ Plainly

handleGenerateBackupCodes(c, u) ==
    /\ u \in SignedIn /\ Enrolled(site.factors[u])
    /\ Begins(c, [op |-> "generate", user |-> u, code |-> served + 1])
    /\ UNCHANGED site /\ Plainly

\* The codes of before are replaced; one stands for all that are made.
ReplaceBackupCodes(s, u, codes) == IF Exists(u) THEN [s EXCEPT !.factors[u].backup = codes] ELSE s

GenerateBackupCodes(c) ==
    /\ handling[c].op = "generate"
    /\ site' = ReplaceBackupCodes(site, handling[c].user, {handling[c].code})
    /\ Ends(c) /\ Plainly

---------------------------------------------------------------------------
\* What a user keeps: p is the user's row of personal, at the time of the change.

Signable(p) == {i \in DOMAIN p.sigs : p.sigs[i].active /\ p.sigs[i].body # NoBody}

\* ORDER BY position, updated_at.
Before(p, i, j) ==
    \/ p.sigs[i].pos < p.sigs[j].pos
    \/ p.sigs[i].pos = p.sigs[j].pos /\ p.sigs[i].at < p.sigs[j].at
FirstSignable(p) ==
    IF Signable(p) = {} THEN NoBody
    ELSE p.sigs[CHOOSE i \in Signable(p) : \A j \in Signable(p) \ {i} : Before(p, i, j)].body
Selected(p) ==
    IF p.selected \in DOMAIN p.sigs /\ p.sigs[p.selected].active THEN p.sigs[p.selected].body ELSE NoBody

refreshCurrentProfileSignatureTx(p) ==
    [p EXCEPT !.signature = IF Selected(p) # NoBody THEN Selected(p) ELSE FirstSignable(p)]

\* What a post of the user may be signed with.
CurrentPostSignature(p) ==
    IF p.random /\ Signable(p) # {} THEN {p.sigs[i].body : i \in Signable(p)}
    ELSE IF Selected(p) # NoBody THEN {Selected(p)}
    ELSE IF FirstSignable(p) # NoBody THEN {FirstSignable(p)}
    ELSE {p.signature}

SelectIfNone(p, id) == IF p.selected = NoSignature /\ p.sigs[id].active THEN [p EXCEPT !.selected = id] ELSE p

ProfileSignature == 0

\* The signature of the profile is one of the bank; it is not counted.
upsertProfileSignatureTx(p, body, at) ==
    LET pos == IF ProfileSignature \in DOMAIN p.sigs THEN p.sigs[ProfileSignature].pos ELSE 0
        row == [body |-> body, pos |-> pos, active |-> body # NoBody, at |-> at] IN
    SelectIfNone([p EXCEPT !.sigs = WithRow(@, ProfileSignature, row)], ProfileSignature)

UpdateUserProfile(p, body, at) ==
    refreshCurrentProfileSignatureTx(upsertProfileSignatureTx([p EXCEPT !.signature = body], body, at))

UpsertUserSignature(p, id, body, position, active, at) ==
    LET old == id \in DOMAIN p.sigs
        pos == IF position >= 0 THEN position
               ELSE IF old THEN p.sigs[id].pos
               ELSE Max({p.sigs[i].pos : i \in DOMAIN p.sigs} \cup {-1}) + 1
        row == [body |-> body, pos |-> pos, active |-> active /\ body # NoBody, at |-> at] IN
    IF ~old /\ Cardinality(DOMAIN p.sigs) >= MaxSignatures THEN p
    ELSE refreshCurrentProfileSignatureTx(SelectIfNone([p EXCEPT !.sigs = WithRow(@, id, row)], id))

DeleteUserSignature(p, id) ==
    IF id \notin DOMAIN p.sigs THEN p
    ELSE refreshCurrentProfileSignatureTx(
            [p EXCEPT !.sigs = Without(@, {id}), !.selected = IF @ = id THEN NoSignature ELSE @])

SetUserSignatureSettings(p, id, random) ==
    IF id # NoSignature /\ (id \notin DOMAIN p.sigs \/ ~p.sigs[id].active) THEN p
    ELSE refreshCurrentProfileSignatureTx([p EXCEPT !.selected = id, !.random = random])

\* A selection that cannot be used is given up.
RecountUserSignatures(p) ==
    refreshCurrentProfileSignatureTx(IF p.selected \in Signable(p) THEN p ELSE [p EXCEPT !.selected = NoSignature])

UpsertUserLoginACLRule(p, id, pattern, active) ==
    [p EXCEPT !.rules = WithRow(@, id, [pattern |-> pattern, active |-> active])]
DeleteUserLoginACLRule(p, id) == [p EXCEPT !.rules = Without(@, {id})]
ActiveRules(p) == {r \in DOMAIN p.rules : p.rules[r].active}

SaveUserPersonalFile(p, name, public) ==
    IF name \notin DOMAIN p.files /\ Cardinality(DOMAIN p.files) >= MaxFiles THEN p
    ELSE [p EXCEPT !.files = WithRow(@, name, public)]
DeleteUserPersonalFile(p, name) == [p EXCEPT !.files = Without(@, {name})]
UpdateUserPrivateProfile(p, mail) == [p EXCEPT !.mail = mail]

\* A request of one transaction that changes what u keeps to p.
Keeps(u, p) == u \in SignedIn /\ Serves /\ site' = [site EXCEPT !.personal[u] = p] /\ Plainly

Own(u) == site.personal[u]
SignatureIds == 1..MaxSignatures

handleUpdateOwnProfile(u, body) == Keeps(u, UpdateUserProfile(Own(u), body, served))
handleCreateOwnSignature(u, body, pos, active) ==
    \E id \in SignatureIds \ DOMAIN Own(u).sigs : Keeps(u, UpsertUserSignature(Own(u), id, body, pos, active, served))
handleUpdateOwnSignature(u, id, body, pos, active) ==
    id \in DOMAIN Own(u).sigs /\ Keeps(u, UpsertUserSignature(Own(u), id, body, pos, active, served))
handleDeleteOwnSignature(u, id) == Keeps(u, DeleteUserSignature(Own(u), id))
handleSetOwnSignatureSettings(u, id, random) == Keeps(u, SetUserSignatureSettings(Own(u), id, random))
handleRecountOwnSignatures(u) == Keeps(u, RecountUserSignatures(Own(u)))
handleCreateOwnLoginACLRule(u, id, pattern, active) ==
    id \notin DOMAIN Own(u).rules /\ Keeps(u, UpsertUserLoginACLRule(Own(u), id, pattern, active))
handleUpdateOwnLoginACLRule(u, id, pattern, active) ==
    id \in DOMAIN Own(u).rules /\ Keeps(u, UpsertUserLoginACLRule(Own(u), id, pattern, active))
handleDeleteOwnLoginACLRule(u, id) == Keeps(u, DeleteUserLoginACLRule(Own(u), id))
handleSaveOwnPersonalFile(u, name, public) == Keeps(u, SaveUserPersonalFile(Own(u), name, public))
handleDeleteOwnPersonalFile(u, name) == Keeps(u, DeleteUserPersonalFile(Own(u), name))
handleUpdateOwnPrivateProfile(u, mail) == Keeps(u, UpdateUserPrivateProfile(Own(u), mail))

handleSetOwnLoginACLSettings(c, u, on) ==
    /\ u \in SignedIn /\ on => ActiveRules(site.personal[u]) # {}
    /\ Begins(c, [op |-> "acl", user |-> u, on |-> on])
    /\ UNCHANGED site /\ Plainly

SetUserLoginACLSettings(c) ==
    /\ handling[c].op = "acl"
    /\ site' = [site EXCEPT !.personal[handling[c].user].aclOn = handling[c].on]
    /\ Ends(c) /\ Plainly

---------------------------------------------------------------------------
\* The clock, and a process that stops: what it would have done is not done.

SecondPasses == second < MaxSecond /\ second' = second + 1
        /\ UNCHANGED <<site, handling, served, spent, endedAt, overlapped, stopped>>

Stops(c) ==
    /\ handling[c] # NoRequest
    /\ stopped' = IF handling[c].op = "welcome" THEN stopped \cup {handling[c].user} ELSE stopped
    /\ Ends(c) /\ UNCHANGED <<site, second, spent, endedAt, overlapped>>

\* No request is running, and none is made.
Quiet == (\A c \in Handlers : handling[c] = NoRequest) /\ UNCHANGED accountVars

\* n of the requests were served before.
AccountInit(s, n) ==
    /\ site = s
    /\ handling = [c \in Handlers |-> NoRequest] /\ served = n /\ second = 1
    /\ spent = NoRow /\ endedAt = [u \in People |-> 0] /\ overlapped = FALSE /\ stopped = {}

\* Every one of P is an administrator, signed in and recorded as a newcomer.
SignedUp(P) ==
    [EmptySite EXCEPT
        !.accounts = [u \in P |-> NewAccount(u, "admin", "approved", CHOOSE x \in Passwords : TRUE)],
        !.records = [r \in {"newcomer"} \X P |-> r[2]],
        !.tokens = {[user |-> u, typ |-> "session", iat |-> 1] : u \in P}]

\* Registration: of the first user, or under the eyes of an administrator.
SignupInit ==
    \E P \in {{}, {CHOOSE u \in People : TRUE}}, approval, verifying \in BOOLEAN :
        AccountInit([SignedUp(P) EXCEPT !.approval = approval, !.verifying = verifying], 0)

SignupNext ==
    \/ handleCaptchaChallenge
    \/ \E c \in Handlers, u \in People, key \in DOMAIN site.tickets : handleRegister(c, u, key)
    \/ \E c \in Handlers : verifyNativeCaptcha(c)
    \/ \E c \in Handlers, password \in Passwords : RegisterInTx(c, password)
    \/ \E c \in Handlers : AfterRegistration(c)
    \/ \E u \in People : handleResendVerification(u)
    \/ \E c \in Handlers, key \in DOMAIN site.tickets : handleVerifyEmail(c, key)
    \/ \E c \in Handlers : VerifyEmailToken(c)
    \/ \E c \in Handlers : MarkVerified(c)
    \/ \E by \in People, approval \in BOOLEAN : handleSetAccountRegistrationSettings(by, approval)
    \/ \E c \in Handlers, by, u \in People, decision \in {"approved", "rejected"} :
          handleReviewAccountRegistration(c, by, u, decision)
    \/ \E c \in Handlers : RecordNewcomer(c)
    \/ \E by, u \in People, name \in {Alias} \cup People : handleTransferUserID(by, u, name)
    \/ \E c \in Handlers, u \in People, password \in Passwords : handleDeactivateAccount(c, u, password)
    \/ \E c \in Handlers : CloseInTx(c)
    \/ \E c \in Handlers : Stops(c)
    \/ SecondPasses \/ Quiet

\* Sessions, passwords and the deletion of accounts, among administrators.
SessionInit == AccountInit(SignedUp(People), 1)

SessionNext ==
    \/ \E c \in Handlers, u \in People, password \in Passwords : handleLogin(c, u, password, "home")
    \/ \E c \in Handlers : FinishLogin(c)
    \/ \E c \in Handlers, u \in People, current, new \in Passwords : handleChangePassword(c, u, current, new)
    \/ \E c \in Handlers : ChangePassword(c)
    \/ \E u \in People : handleLogoutAll(u)
    \/ \E u \in People : handleRequestPasswordRecovery(u)
    \/ \E c \in Handlers, by \in People, r \in DOMAIN site.recoveries, new \in Passwords,
          decision \in {"reset", "rejected"} :
          handleReviewPasswordRecoveryRequest(c, by, r, decision, new)
    \/ \E c \in Handlers : ReviewPasswordRecoveryRequest(c)
    \/ \E c \in Handlers, by, u \in People : handleDeleteUser(c, by, u)
    \/ \E c \in Handlers : DeleteUserReads(c)
    \/ \E c \in Handlers : DeleteInTx(c)
    \/ \E c \in Handlers : Stops(c)
    \/ SecondPasses \/ Quiet

\* The second factors of one administrator.
FactorInit ==
    LET u == CHOOSE x \in People : TRUE IN
    \E secret \in {NoSecret, 9}, challenged \in BOOLEAN :
        AccountInit([SignedUp({u}) EXCEPT
            !.staff2FA = TRUE, !.personal[u].mail = TRUE,
            !.factors[u].secret = secret, !.factors[u].email = TRUE, !.factors[u].backup = {MaxRequests + 1},
            !.tokens = IF challenged THEN {[user |-> u, typ |-> "2fa", iat |-> 1]} ELSE @], 1)

FactorNext ==
    \/ \E c \in Handlers, u \in People, password \in Passwords : handleLogin(c, u, password, "home")
    \/ \E c \in Handlers : FinishLogin(c)
    \/ \E c \in Handlers, t \in site.tokens, step \in 0..MaxSecond + 1 : VerifyTOTP(c, t, step)
    \/ \E c \in Handlers : ClaimTOTPStep(c)
    \/ \E t \in site.tokens : handleRequestEmail2FACode(t)
    \/ \E c \in Handlers, t \in site.tokens : VerifyEmail2FACode(c, t)
    \/ \E c \in Handlers : ClaimEmailCode(c)
    \/ \E t \in site.tokens : \E code \in site.factors[t.user].backup : VerifyBackupCode(t, code)
    \/ \E by \in People, required \in BOOLEAN : handleSetSecuritySettings(by, required)
    \/ \E u \in People : handleInitTOTP(u) \/ handleEnableEmail2FA(u)
    \/ \E c \in Handlers, u \in People :
          handleConfirmTOTP(c, u) \/ handleDisableTOTP(c, u) \/ handleDisableEmail2FA(c, u)
          \/ handleGenerateBackupCodes(c, u)
    \/ \E c \in Handlers :
          ConfirmTOTPEnrollment(c) \/ ClearBackupCodesIfUnenrolled(c) \/ GenerateBackupCodes(c)
    \/ SecondPasses \/ Quiet

\* What one user keeps.
SignatureInit == AccountInit(SignedUp({CHOOSE u \in People : TRUE}), 0)

SignatureNext ==
    \/ \E u \in SignedIn, body \in {NoBody, "a"} : handleUpdateOwnProfile(u, body)
    \/ \E u \in SignedIn, body \in {NoBody, "b"}, pos \in {-1, 0}, active \in BOOLEAN :
          \/ handleCreateOwnSignature(u, body, pos, active)
          \/ \E id \in DOMAIN Own(u).sigs : handleUpdateOwnSignature(u, id, body, pos, active)
    \/ \E u \in SignedIn : \E id \in DOMAIN Own(u).sigs : handleDeleteOwnSignature(u, id)
    \/ \E u \in SignedIn : \E id \in {NoSignature} \cup DOMAIN Own(u).sigs, random \in BOOLEAN :
          handleSetOwnSignatureSettings(u, id, random)
    \/ \E u \in SignedIn : handleRecountOwnSignatures(u)
    \/ Quiet

RuleNext ==
    \/ \E u \in SignedIn, pattern \in {"home", "*"}, active \in BOOLEAN :
          \/ handleCreateOwnLoginACLRule(u, 1, pattern, active)
          \/ handleUpdateOwnLoginACLRule(u, 1, pattern, active)
    \/ \E u \in SignedIn : handleDeleteOwnLoginACLRule(u, 1)
    \/ \E u \in SignedIn, name \in {"plan", "notes"}, public \in BOOLEAN : handleSaveOwnPersonalFile(u, name, public)
    \/ \E u \in SignedIn : handleDeleteOwnPersonalFile(u, "plan")
    \/ \E u \in SignedIn, mail \in BOOLEAN : handleUpdateOwnPrivateProfile(u, mail)
    \/ \E c \in Handlers, u \in SignedIn, on \in BOOLEAN : handleSetOwnLoginACLSettings(c, u, on)
    \/ \E c \in Handlers : SetUserLoginACLSettings(c)
    \/ \E c \in Handlers, u \in People, password \in Passwords, host \in {"home", "away"} :
          handleLogin(c, u, password, host)
    \/ \E c \in Handlers : FinishLogin(c)
    \/ Quiet

---------------------------------------------------------------------------
\* A captcha challenge, a verification token, a code of a second factor and a
\* request for a new password are each accepted once, however many requests
\* have read them before one is accepted (captcha.go, email_verification.go,
\* twofactor.go, ReviewPasswordRecoveryRequest).
SpentOnce == \A key \in DOMAIN spent : spent[key] = 1

\* A session token made in an earlier second than the last change of the
\* user's password, or the last signing out everywhere, is refused for good,
\* and read as a guest's where none is needed: neither of the two undoes what
\* the other has cut off (middleware.go).
SignedOutStaysOut ==
    \A t \in site.tokens : t.typ = "session" /\ t.iat < endedAt[t.user] =>
        ~requireAuth(t) /\ resolveOptionalUser(t) = Guest

\* A post is signed with a signature of its author that is active at the time,
\* and unless the author wants a random one, with the one the profile shows
\* (CurrentPostSignature, refreshCurrentProfileSignatureTx).
SignsWithActive(p) ==
    /\ CurrentPostSignature(p) \subseteq {NoBody} \cup {p.sigs[i].body : i \in Signable(p)}
    /\ ~p.random => CurrentPostSignature(p) = {p.signature}

\* The accounts and the records of them agree: an account is closed if and only
\* if the Goodbye board says so, and it is approved if and only if the
\* newcomers board says so, but for an approval whose process has yet to write
\* the record or has stopped before it did.  Posts are signed with active
\* signatures.  Once somebody has signed up an administrator remains, unless
\* two deletions have overlapped (account.go, signatures.go).
AccountsKept ==
    /\ \A u \in DOMAIN site.accounts :
          /\ Account(u).closed <=> <<"goodbye", u>> \in DOMAIN site.records
          /\ <<"newcomer", u>> \in DOMAIN site.records => Account(u).status = "approved"
          /\ Account(u).status = "approved" =>
                \/ <<"newcomer", u>> \in DOMAIN site.records
                \/ u \in stopped \/ \E c \in Handlers : handling[c] = [op |-> "welcome", user |-> u]
          /\ SignsWithActive(site.personal[u])
    /\ Admins # {} \/ overlapped \/ DOMAIN site.records = {}
=============================================================================
