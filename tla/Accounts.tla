------------------------------ MODULE Accounts ------------------------------
(***************************************************************************)
(* One account, the sessions opened for it and its second factor: the      *)
(* handlers of auth.service.ts and users.service.ts, await by await, and   *)
(* the browser cookie in which the site keeps a session's two tokens.      *)
(*                                                                         *)
(* A session is a row of the table with its access token and its refresh   *)
(* token: the three are made together. A password is the number of         *)
(* changes that led to it. Requests carry the account as they read it.     *)
(***************************************************************************)
EXTENDS Naturals

CONSTANTS
    Sessions,     \* sessions that may be created (a bound)
    Links,        \* links that may be mailed (a bound)
    Batches,      \* sets of backup codes that may be generated (a bound)
    Requests,     \* requests in progress at once (a bound)
    MaxPasswords, \* changes of the password (a bound)
    HandStatuses, \* statuses that administrators write by hand (a bound)
    Mixes,        \* operations that are called beside each other (a bound)
    None

Codes == UNION Batches

AccountStatuses == {"PENDING_VERIFICATION", "ACTIVE", "SUSPENDED", "INACTIVE"}

Operations ==
    {"create", "register", "google", "login", "forgot", "reset", "change",
     "verify", "resend", "refresh", "logout", "signout", "setup", "confirm",
     "disable", "update", "deactivate", "time", "throw"}

ASSUME NoneAssumption == None \notin Sessions \cup Links
ASSUME BatchesAssumption ==
    \A b, c \in Batches : b # c => b \cap c = {}
ASSUME HandStatusesAssumption == HandStatuses \subseteq AccountStatuses
ASSUME MixesAssumption == Mixes \subseteq SUBSET Operations
ASSUME MaxPasswordsAssumption == MaxPasswords \in Nat

VARIABLES
    account, \* the users row
    row,     \* row[s]: the sessions row of s, and what it was created on
    token,   \* token[s]: how the backend takes the access token of s
    cookie,  \* cookie[f]: the session in the cookie of the browser that f began in
    link,    \* link[l]: a mailed link, stored in Redis
    setup,   \* is a two-factor secret stored in Redis?
    req,     \* req[r]: the request r serves and its local variables
    calls,   \* the operations called in this behaviour
    history  \* what happened, for the properties only

vars == <<account, row, token, cookie, link, setup, req, calls, history>>

-----------------------------------------------------------------------------
TokenStates == {"unused", "valid", "revoked", "tolerated", "expired"}

LinkStates == {"unused", "reset", "verify", "gone"}

PCs == {"idle", "create", "register_create", "register_link",
        "register_session", "google_create", "login_code", "login_session",
        "forgot_link", "reset_write", "reset_spend", "reset_sweep",
        "change_read", "change_write", "change_sweep",
        "verify_write", "verify_spend", "resend_link",
        "refresh_find", "refresh_user", "refresh_session", "refresh_delete",
        "reply", "logout", "logout_delete", "logout_revoke",
        "setup", "confirm_read", "confirm_write", "confirm_clear",
        "disable_read", "disable_write",
        "update_write", "deactivate_write"}

NoAccount == [status |-> "ABSENT", verified |-> FALSE, removed |-> FALSE,
              password |-> 0, twoFactor |-> FALSE, codes |-> {}]

NoRow == [state |-> "unused", family |-> None, password |-> 0, late |-> FALSE]

\* session: the session that asks or is refreshed; fresh: the one created.
\* late: sessions were deleted since the request read the account.
Idle == [pc |-> "idle", session |-> None, fresh |-> None, link |-> None,
         password |-> 0, codes |-> {}, late |-> FALSE]

Account == [status: AccountStatuses \cup {"ABSENT"}, verified: BOOLEAN,
            removed: BOOLEAN, password: 0..MaxPasswords, twoFactor: BOOLEAN,
            codes: SUBSET Codes]

Row == [state: {"unused", "live", "over", "gone"}, family: Sessions \cup {None},
        password: 0..MaxPasswords, late: BOOLEAN]

Call == [pc: PCs, session: Sessions \cup {None}, fresh: Sessions \cup {None},
         link: Links \cup {None}, password: 0..MaxPasswords,
         codes: SUBSET Codes, late: BOOLEAN]

\* ended: families that lost a row to a logout, a change of password or time;
\* broken: families of which two refreshes overlapped, or the answer to one was
\* lost; unfinished: a password was changed by a request that stopped before it
\* deleted sessions; shown: the backup codes last given out; issued, spent:
\* codes ever given out and used; clash: codes were written over codes that the
\* writer had not read.
History == [ended: SUBSET Sessions, broken: SUBSET Sessions, unfinished: BOOLEAN,
            shown: SUBSET Codes, issued: SUBSET Codes, spent: SUBSET Codes,
            clash: BOOLEAN]

TypeOK ==
    /\ account \in Account
    /\ row \in [Sessions -> Row]
    /\ token \in [Sessions -> TokenStates]
    /\ cookie \in [Sessions -> Sessions \cup {None}]
    /\ link \in [Links -> LinkStates]
    /\ setup \in BOOLEAN
    /\ req \in [Requests -> Call]
    /\ calls \in Mixes
    /\ history \in History

Init ==
    /\ account = NoAccount
    /\ row = [s \in Sessions |-> NoRow]
    /\ token = [s \in Sessions |-> "unused"]
    /\ cookie = [s \in Sessions |-> None]
    /\ link = [l \in Links |-> "unused"]
    /\ setup = FALSE
    /\ req = [r \in Requests |-> Idle]
    /\ calls \in Mixes
    /\ history = [ended |-> {}, broken |-> {}, unfinished |-> FALSE, shown |-> {},
                  issued |-> {}, spent |-> {}, clash |-> FALSE]

Exists == account.status # "ABSENT"

Begin(r, operation, call) ==
    /\ operation \in calls
    /\ req[r] = Idle
    /\ req' = [req EXCEPT ![r] = call]

Goto(r, pc) == req' = [req EXCEPT ![r].pc = pc]

Return(r) == req' = [req EXCEPT ![r] = Idle]

\* The user that a handler has read, in its local variable.
Reads(pc) == [Idle EXCEPT !.pc = pc, !.password = account.password,
                          !.codes = account.codes]

\* context.ts: the call carries the access token of s, which is accepted for
\* 60 s after its expiry, when the record of its revocation has expired.
Authenticated(s) ==
    /\ token[s] \in {"valid", "tolerated"}
    /\ account.status = "ACTIVE"

-----------------------------------------------------------------------------
(* New accounts. *)

\* users.create, by an administrator.
CreateRead(r) ==
    /\ ~Exists
    /\ Begin(r, "create", [Idle EXCEPT !.pc = "create"])
    /\ UNCHANGED <<account, row, token, cookie, link, setup, calls, history>>

\* The unique column email: of two creations that both found nothing, one is
\* refused.
Insert(r, pc, next, status, verified) ==
    /\ req[r].pc = pc
    /\ IF Exists
       THEN Return(r) /\ UNCHANGED account
       ELSE /\ account' = [NoAccount EXCEPT !.status = status, !.verified = verified]
            /\ Goto(r, next)
    /\ UNCHANGED <<row, token, cookie, link, setup, calls, history>>

Create(r) == Insert(r, "create", "idle", "ACTIVE", TRUE)

RegisterRead(r) ==
    /\ ~Exists
    /\ Begin(r, "register", [Idle EXCEPT !.pc = "register_create"])
    /\ UNCHANGED <<account, row, token, cookie, link, setup, calls, history>>

RegisterCreate(r) ==
    Insert(r, "register_create", "register_link", "PENDING_VERIFICATION", FALSE)

\* sendVerificationEmail: the token in Redis, then the mail.
SendLink(r, pc, next, kind, l) ==
    /\ req[r].pc = pc
    /\ link[l] = "unused"
    /\ link' = [link EXCEPT ![l] = kind]
    /\ Goto(r, next)
    /\ UNCHANGED <<account, row, token, cookie, setup, calls, history>>

RegisterLink(r, l) == SendLink(r, "register_link", "register_session", "verify", l)

\* loginWithGoogle: only SUSPENDED is refused.
GoogleRead(r) ==
    /\ account.status # "SUSPENDED"
    /\ Begin(r, "google", Reads(IF Exists THEN "login_session" ELSE "google_create"))
    /\ UNCHANGED <<account, row, token, cookie, link, setup, calls, history>>

GoogleCreate(r) == Insert(r, "google_create", "login_session", "ACTIVE", TRUE)

-----------------------------------------------------------------------------
(* Sessions: login, refresh, logout. *)

\* INACTIVE is not refused here; its tokens are, by context.ts.
LoginRead(r) ==
    /\ account.status \in {"ACTIVE", "INACTIVE"}
    /\ Begin(r, "login",
             Reads(IF account.twoFactor THEN "login_code" ELSE "login_session"))
    /\ UNCHANGED <<account, row, token, cookie, link, setup, calls, history>>

\* Faulty variant: a backup code that was used is not taken out of the row.
LoginCodeKept(r) ==
    /\ req[r].pc = "login_code"
    /\ \/ (Goto(r, "login_session") \/ Return(r)) /\ UNCHANGED history
       \/ \E c \in req[r].codes :
             /\ history' = [history EXCEPT !.spent = @ \cup {c}]
             /\ Goto(r, "login_session")
    /\ UNCHANGED <<account, row, token, cookie, link, setup, calls>>

\* verifyLoginTwoFactorCode: a code of the authenticator, a wrong code, or a
\* backup code of the user as it was read; what is left of that reading is
\* written.
LoginCode(r) ==
    /\ req[r].pc = "login_code"
    /\ \/ (Goto(r, "login_session") \/ Return(r)) /\ UNCHANGED <<account, history>>
       \/ \E c \in req[r].codes :
             /\ account' = [account EXCEPT !.codes = req[r].codes \ {c}]
             /\ history' = [history EXCEPT !.spent = @ \cup {c},
                                !.clash = @ \/ account.codes # req[r].codes]
             /\ Goto(r, "login_session")
    /\ UNCHANGED <<row, token, cookie, link, setup, calls>>

\* Access token, refresh token and row of one session. A refresh continues the
\* family, and the proof of the password, of the session it was given.
NewSession(r, s, next) ==
    LET parent == req[r].session IN
    /\ row[s].state = "unused"
    /\ row' = [row EXCEPT ![s] =
                  [state |-> "live",
                   family |-> IF parent = None THEN s ELSE row[parent].family,
                   password |-> req[r].password, late |-> req[r].late]]
    /\ token' = [token EXCEPT ![s] = "valid"]
    /\ req' = [req EXCEPT ![r] = [@ EXCEPT !.pc = next, !.fresh = s]]
    /\ UNCHANGED <<account, cookie, link, setup, calls, history>>

\* The registration page drops the tokens it is sent.
RegisterSession(r, s) ==
    /\ req[r].pc = "register_session"
    /\ row[s].state = "unused"
    /\ row' = [row EXCEPT ![s] = [state |-> "live", family |-> s,
                                  password |-> req[r].password,
                                  late |-> req[r].late]]
    /\ token' = [token EXCEPT ![s] = "valid"]
    /\ Return(r)
    /\ UNCHANGED <<account, cookie, link, setup, calls, history>>

LoginSession(r, s) ==
    /\ req[r].pc = "login_session"
    /\ NewSession(r, s, "reply")

RefreshPCs == {"refresh_find", "refresh_user", "refresh_session", "refresh_delete"}

\* Is q a refresh for the browser of f, whose answer has still to arrive?
Refreshes(q, f) ==
    /\ req[q].pc \in RefreshPCs \cup {"reply"}
    /\ req[q].session # None
    /\ row[req[q].session].family = f

\* The jwt callback of lib/auth.ts, from the cookie as the request carried it.
RefreshBegin(r, f) ==
    /\ cookie[f] # None
    /\ Begin(r, "refresh", [Idle EXCEPT !.pc = "refresh_find", !.session = cookie[f]])
    /\ history' = [history EXCEPT !.broken = @ \cup
          {g \in {f} : \E q \in Requests : Refreshes(q, f)}]
    /\ UNCHANGED <<account, row, token, cookie, link, setup, calls>>

\* A refused refresh answers with the session that it was given.
RefreshFind(r) ==
    LET s == req[r].session IN
    /\ req[r].pc = "refresh_find"
    /\ IF row[s].state = "live"
       THEN req' = [req EXCEPT ![r] = [@ EXCEPT !.pc = "refresh_user",
                                          !.password = row[s].password,
                                          !.late = row[s].late]]
       ELSE Goto(r, "reply")
    /\ UNCHANGED <<account, row, token, cookie, link, setup, calls, history>>

\* Faulty variant: the old row is deleted before the new one is created.
RefreshUserDeletes(r) ==
    LET s == req[r].session IN
    /\ req[r].pc = "refresh_user"
    /\ account.status = "ACTIVE"
    /\ row' = [row EXCEPT ![s].state = "gone"]
    /\ Goto(r, "refresh_session")
    /\ UNCHANGED <<account, token, cookie, link, setup, calls, history>>

RefreshUser(r) ==
    /\ req[r].pc = "refresh_user"
    /\ Goto(r, IF account.status = "ACTIVE" THEN "refresh_session" ELSE "reply")
    /\ UNCHANGED <<account, row, token, cookie, link, setup, calls, history>>

RefreshSession(r, s) ==
    /\ req[r].pc = "refresh_session"
    /\ NewSession(r, s, "refresh_delete")

Deleted(s) == IF row[s].state \in {"live", "over"} THEN "gone" ELSE row[s].state

RefreshDelete(r) ==
    LET s == req[r].session IN
    /\ req[r].pc = "refresh_delete"
    /\ row' = [row EXCEPT ![s].state = Deleted(s)]
    /\ Goto(r, "reply")
    /\ UNCHANGED <<account, token, cookie, link, setup, calls, history>>

\* Faulty variant: the tokens that were refreshed are not put in the cookie.
ReplyKept(r) ==
    LET s == IF req[r].session = None THEN req[r].fresh ELSE req[r].session IN
    /\ req[r].pc = "reply"
    /\ cookie' = [cookie EXCEPT ![row[s].family] = s]
    /\ Return(r)
    /\ UNCHANGED <<account, row, token, link, setup, calls, history>>

\* NextAuth answers with the cookie of the browser, whatever it holds by now.
Reply(r) ==
    LET s == IF req[r].fresh = None THEN req[r].session ELSE req[r].fresh IN
    /\ req[r].pc = "reply"
    /\ cookie' = [cookie EXCEPT ![row[s].family] = s]
    /\ Return(r)
    /\ UNCHANGED <<account, row, token, link, setup, calls, history>>

\* The user menu: NextAuth's own sign-out, which calls no handler.
SignOut(f) ==
    /\ "signout" \in calls
    /\ cookie[f] # None
    /\ cookie' = [cookie EXCEPT ![f] = None]
    /\ UNCHANGED <<account, row, token, link, setup, req, calls, history>>

LogoutBegin(r, s) ==
    /\ Authenticated(s)
    /\ Begin(r, "logout", [Idle EXCEPT !.pc = "logout", !.session = s])
    /\ UNCHANGED <<account, row, token, cookie, link, setup, calls, history>>

\* Promise.all: the two halves end in any order.
LogoutDelete(r) ==
    LET s == req[r].session IN
    /\ req[r].pc \in {"logout", "logout_delete"}
    /\ row' = [row EXCEPT ![s].state = Deleted(s)]
    /\ history' = [history EXCEPT !.ended = @ \cup {row[s].family}]
    /\ IF req[r].pc = "logout" THEN Goto(r, "logout_revoke") ELSE Return(r)
    /\ UNCHANGED <<account, token, cookie, link, setup, calls>>

\* revokeAccessToken: nothing is kept past the token's own expiry, and a
\* failure of Redis is swallowed.
LogoutRevoke(r) ==
    LET s == req[r].session IN
    /\ req[r].pc \in {"logout", "logout_revoke"}
    /\ token' \in {token, [token EXCEPT ![s] = IF @ = "valid" THEN "revoked" ELSE @]}
    /\ IF req[r].pc = "logout" THEN Goto(r, "logout_delete") ELSE Return(r)
    /\ UNCHANGED <<account, row, cookie, link, setup, calls, history>>

-----------------------------------------------------------------------------
(* Passwords. *)

ForgotRead(r) ==
    /\ Exists
    /\ Begin(r, "forgot", [Idle EXCEPT !.pc = "forgot_link"])
    /\ UNCHANGED <<account, row, token, cookie, link, setup, calls, history>>

ForgotLink(r, l) == SendLink(r, "forgot_link", "idle", "reset", l)

ResetRead(r, l) ==
    /\ link[l] = "reset"
    /\ Begin(r, "reset", [Idle EXCEPT !.pc = "reset_write", !.link = l])
    /\ UNCHANGED <<account, row, token, cookie, link, setup, calls, history>>

WritePassword(r, pc, next) ==
    /\ req[r].pc = pc
    /\ account.password < MaxPasswords
    /\ account' = [account EXCEPT !.password = @ + 1]
    /\ req' = [req EXCEPT ![r] = [@ EXCEPT !.pc = next,
                                   !.password = account.password + 1]]
    /\ UNCHANGED <<row, token, cookie, link, setup, calls, history>>

ResetWrite(r) == WritePassword(r, "reset_write", "reset_spend")

\* The link is deleted from Redis: a second use of it may be in progress.
Spend(r, pc, next) ==
    /\ req[r].pc = pc
    /\ link' = [link EXCEPT ![req[r].link] = "gone"]
    /\ Goto(r, next)
    /\ UNCHANGED <<account, row, token, cookie, setup, calls, history>>

\* Faulty variant: the sessions are not deleted.
ResetSpendOnly(r) == Spend(r, "reset_spend", "idle")

ResetSpend(r) == Spend(r, "reset_spend", "reset_sweep")

\* deleteUserSessions: every row but the one of the session kept, whose owner
\* has proved the password that was written. The requests in progress go on.
Sweep(r, pc, kept) ==
    LET Swept == [s \in Sessions |->
                     IF s = kept
                     THEN [row[s] EXCEPT !.password =
                              IF @ < req[r].password THEN req[r].password ELSE @]
                     ELSE [row[s] EXCEPT !.state = Deleted(s)]]
    IN
    /\ req[r].pc = pc
    /\ row' = Swept
    /\ history' = [history EXCEPT !.ended =
          @ \cup {row[s].family : s \in {t \in Sessions \ {kept} : row[t].state = "live"}}]
    /\ req' = [q \in Requests |->
                  IF q = r \/ req[q] = Idle THEN Idle ELSE [req[q] EXCEPT !.late = TRUE]]
    /\ UNCHANGED <<account, token, cookie, link, setup, calls>>

ResetSweep(r) == Sweep(r, "reset_sweep", None)

ChangeBegin(r, s) ==
    /\ Authenticated(s)
    /\ Begin(r, "change", [Idle EXCEPT !.pc = "change_read", !.session = s])
    /\ UNCHANGED <<account, row, token, cookie, link, setup, calls, history>>

\* The current password is compared with the user as it is read here.
ChangeRead(r) ==
    /\ req[r].pc = "change_read"
    /\ Goto(r, "change_write") \/ Return(r)
    /\ UNCHANGED <<account, row, token, cookie, link, setup, calls, history>>

ChangeWrite(r) == WritePassword(r, "change_write", "change_sweep")

ChangeSweep(r) == Sweep(r, "change_sweep", req[r].session)

-----------------------------------------------------------------------------
(* The address, and what administrators write. *)

VerifyRead(r, l) ==
    /\ link[l] = "verify"
    /\ Begin(r, "verify", [Idle EXCEPT !.pc = "verify_write", !.link = l])
    /\ UNCHANGED <<account, row, token, cookie, link, setup, calls, history>>

VerifyWrite(r) ==
    /\ req[r].pc = "verify_write"
    /\ account' = [account EXCEPT !.verified = TRUE]
    /\ Goto(r, "verify_spend")
    /\ UNCHANGED <<row, token, cookie, link, setup, calls, history>>

VerifySpend(r) == Spend(r, "verify_spend", "idle")

ResendRead(r) ==
    /\ Exists /\ ~account.verified
    /\ Begin(r, "resend", [Idle EXCEPT !.pc = "resend_link"])
    /\ UNCHANGED <<account, row, token, cookie, link, setup, calls, history>>

ResendLink(r, l) == SendLink(r, "resend_link", "idle", "verify", l)

AdministratorReads(r, operation, pc) ==
    /\ Exists /\ ~account.removed
    /\ Begin(r, operation, [Idle EXCEPT !.pc = pc])
    /\ UNCHANGED <<account, row, token, cookie, link, setup, calls, history>>

UpdateRead(r) == AdministratorReads(r, "update", "update_write")

UpdateWrite(r, status) ==
    /\ req[r].pc = "update_write"
    /\ account' = [account EXCEPT !.status = status]
    /\ Return(r)
    /\ UNCHANGED <<row, token, cookie, link, setup, calls, history>>

DeactivateRead(r) == AdministratorReads(r, "deactivate", "deactivate_write")

\* Faulty variant: a status that the enum does not have.
DeactivateDeletes(r) ==
    /\ req[r].pc = "deactivate_write"
    /\ account' = [account EXCEPT !.status = "DELETED", !.removed = TRUE]
    /\ Return(r)
    /\ UNCHANGED <<row, token, cookie, link, setup, calls, history>>

DeactivateWrite(r) ==
    /\ req[r].pc = "deactivate_write"
    /\ account' = [account EXCEPT !.status = "INACTIVE", !.removed = TRUE]
    /\ Return(r)
    /\ UNCHANGED <<row, token, cookie, link, setup, calls, history>>

-----------------------------------------------------------------------------
(* The second factor. *)

TwoFactorBegin(r, s, operation, pc) ==
    /\ Authenticated(s)
    /\ Begin(r, operation, [Idle EXCEPT !.pc = pc, !.session = s])
    /\ UNCHANGED <<account, row, token, cookie, link, setup, calls, history>>

SetupBegin(r, s) == TwoFactorBegin(r, s, "setup", "setup")

\* startTwoFactorSetup: a later secret replaces an earlier one.
Setup(r) ==
    /\ req[r].pc = "setup"
    /\ setup' = TRUE
    /\ Return(r)
    /\ UNCHANGED <<account, row, token, cookie, link, calls, history>>

ConfirmBegin(r, s) == TwoFactorBegin(r, s, "confirm", "confirm_read")

ConfirmRead(r) ==
    /\ req[r].pc = "confirm_read"
    /\ (setup /\ Goto(r, "confirm_write")) \/ Return(r)
    /\ UNCHANGED <<account, row, token, cookie, link, setup, calls, history>>

\* Fresh backup codes, hashed into the row and given to the user.
ConfirmWrite(r, batch) ==
    /\ req[r].pc = "confirm_write"
    /\ batch \cap history.issued = {}
    /\ account' = [account EXCEPT !.twoFactor = TRUE, !.codes = batch]
    /\ history' = [history EXCEPT !.shown = batch, !.issued = @ \cup batch]
    /\ Goto(r, "confirm_clear")
    /\ UNCHANGED <<row, token, cookie, link, setup, calls>>

ConfirmClear(r) ==
    /\ req[r].pc = "confirm_clear"
    /\ setup' = FALSE
    /\ Return(r)
    /\ UNCHANGED <<account, row, token, cookie, link, calls, history>>

DisableBegin(r, s) == TwoFactorBegin(r, s, "disable", "disable_read")

DisableRead(r) ==
    /\ req[r].pc = "disable_read"
    /\ Goto(r, "disable_write") \/ Return(r)
    /\ UNCHANGED <<account, row, token, cookie, link, setup, calls, history>>

DisableWrite(r) ==
    /\ req[r].pc = "disable_write"
    /\ account' = [account EXCEPT !.twoFactor = FALSE, !.codes = {}]
    /\ Return(r)
    /\ UNCHANGED <<row, token, cookie, link, setup, calls, history>>

-----------------------------------------------------------------------------
(* Time and failure. *)

\* An access token passes its 15 minutes, then the 60 s of clock tolerance.
TokenAges(s) ==
    /\ "time" \in calls
    /\ token[s] \in {"valid", "revoked", "tolerated"}
    /\ token' = [token EXCEPT ![s] = IF @ = "tolerated" THEN "expired" ELSE "tolerated"]
    /\ UNCHANGED <<account, row, cookie, link, setup, req, calls, history>>

\* Seven days: the row stays, and is refused.
SessionEnds(s) ==
    /\ "time" \in calls
    /\ row[s].state = "live"
    /\ row' = [row EXCEPT ![s].state = "over"]
    /\ history' = [history EXCEPT !.ended = @ \cup {row[s].family}]
    /\ UNCHANGED <<account, token, cookie, link, setup, req, calls>>

EntryEnds(l) ==
    /\ "time" \in calls
    /\ link[l] \in {"reset", "verify"}
    /\ link' = [link EXCEPT ![l] = "gone"]
    /\ UNCHANGED <<account, row, token, cookie, setup, req, calls, history>>

SetupEnds ==
    /\ "time" \in calls
    /\ setup
    /\ setup' = FALSE
    /\ UNCHANGED <<account, row, token, cookie, link, req, calls, history>>

\* An await fails, the unique column refreshToken refuses a row (two tokens of
\* one second are equal), or the server dies; jwt catches what a refresh throws.
Throw(r) ==
    /\ "throw" \in calls
    /\ req[r] # Idle
    /\ IF req[r].pc \in RefreshPCs
       THEN req' = [req EXCEPT ![r] = [@ EXCEPT !.pc = "reply", !.fresh = None]]
       ELSE Return(r)
    /\ history' = [history EXCEPT
          !.unfinished = @ \/ req[r].pc \in {"reset_spend", "reset_sweep", "change_sweep"},
          !.broken = @ \cup {f \in Sessions : req[r].pc = "reply" /\ Refreshes(r, f)}]
    /\ UNCHANGED <<account, row, token, cookie, link, setup, calls>>

-----------------------------------------------------------------------------
Step(r) ==
    \/ CreateRead(r) \/ Create(r)
    \/ RegisterRead(r) \/ RegisterCreate(r)
    \/ GoogleRead(r) \/ GoogleCreate(r)
    \/ LoginRead(r) \/ LoginCode(r)
    \/ RefreshFind(r) \/ RefreshUser(r) \/ RefreshDelete(r) \/ Reply(r)
    \/ LogoutDelete(r) \/ LogoutRevoke(r)
    \/ ForgotRead(r) \/ ResetWrite(r) \/ ResetSpend(r) \/ ResetSweep(r)
    \/ ChangeRead(r) \/ ChangeWrite(r) \/ ChangeSweep(r)
    \/ VerifyWrite(r) \/ VerifySpend(r) \/ ResendRead(r)
    \/ UpdateRead(r) \/ DeactivateRead(r) \/ DeactivateWrite(r)
    \/ Setup(r) \/ ConfirmRead(r) \/ ConfirmClear(r)
    \/ DisableRead(r) \/ DisableWrite(r)
    \/ Throw(r)

SessionStep(r, s) ==
    \/ RegisterSession(r, s) \/ LoginSession(r, s)
    \/ RefreshBegin(r, s) \/ RefreshSession(r, s)
    \/ LogoutBegin(r, s) \/ ChangeBegin(r, s)
    \/ SetupBegin(r, s) \/ ConfirmBegin(r, s) \/ DisableBegin(r, s)

LinkStep(r, l) ==
    \/ RegisterLink(r, l) \/ ForgotLink(r, l) \/ ResetRead(r, l)
    \/ VerifyRead(r, l) \/ ResendLink(r, l)

Next ==
    \/ \E r \in Requests :
          \/ Step(r)
          \/ \E s \in Sessions : SessionStep(r, s)
          \/ \E l \in Links : LinkStep(r, l)
          \/ \E status \in HandStatuses : UpdateWrite(r, status)
          \/ \E batch \in Batches : ConfirmWrite(r, batch)
    \/ \E s \in Sessions : SignOut(s) \/ TokenAges(s) \/ SessionEnds(s)
    \/ \E l \in Links : EntryEnds(l)
    \/ SetupEnds

Spec == Init /\ [][Next]_vars

-----------------------------------------------------------------------------
\* A changed password signs the other devices out: a session that goes back to
\* an older password is one that a change has still to delete (or failed to),
\* or one that was being opened while a change deleted the others.
OldPasswordsEnd ==
    \A s \in Sessions :
        /\ row[s].state = "live"
        /\ row[s].password < account.password
        => \/ row[s].late
           \/ history.unfinished
           \/ \E r \in Requests :
                 req[r].pc \in {"reset_spend", "reset_sweep", "change_sweep"}

\* Whoever signed in stays signed in: a refresh that fails or is repeated
\* never leaves a family without a session, until it is signed out, ends or
\* is deleted for a new password.
FamilyIsKept ==
    \A s \in Sessions :
        /\ row[s].state # "unused"
        /\ row[s].family \notin history.ended
        => \E t \in Sessions :
              row[t].state = "live" /\ row[t].family = row[s].family

\* The row holds the codes last given out, less those that were used, in
\* whatever order logins, setups and disablings follow each other: none comes
\* back, none is taken that was not used. Only a login that writes codes over
\* codes that it had not read undoes it: CodesAreSingleUse has no exception.
CodesMatchShown ==
    account.twoFactor /\ ~history.clash
    => account.codes = history.shown \ history.spent

\* The cookie of a browser that is signed in holds a session that still exists
\* once its refresh is answered, however the backend fails on the way. Two
\* refreshes at once, of two tabs, and an answer that is lost may leave the
\* older session in it: AlwaysCurrent has neither exception.
CookieIsCurrent ==
    \A f \in Sessions :
        /\ cookie[f] # None
        /\ f \notin history.ended \cup history.broken
        /\ \A r \in Requests : ~Refreshes(r, f)
        => row[cookie[f]].state = "live"

\* The refreshes that have found their session live, and will go on from it.
FindingPCs == {"refresh_user", "refresh_session"}

\* A family that was opened, of which no row is live and none is being refreshed.
Dead(f) ==
    /\ row[f].state # "unused"
    /\ \A s \in Sessions : row[s].family = f => row[s].state # "live"
    /\ \A r \in Requests :
          req[r].pc \in FindingPCs => row[req[r].session].family # f

\* Signed out is signed out: no refresh, reply or login ever opens a session of
\* a family again that has none, once the refreshes that had passed their check
\* have ended. What a logout can leave behind is only what they still create.
DeadFamiliesStay == [][\A f \in Sessions : Dead(f) => Dead(f)']_vars

-----------------------------------------------------------------------------
(* What comments and messages of the code say, and the code does not do. *)

\* "Please verify your email before logging in": whoever has verified the
\* address is not asked to verify it again.
VerifiedCanLogIn ==
    account.verified => account.status # "PENDING_VERIFICATION"

\* "Backup codes are single-use by design": a code that was used is not in the
\* row any more.
CodesAreSingleUse == account.codes \cap history.spent = {}

\* "Changing the password invalidates every existing session - force re-login
\* everywhere": after a reset no session lives that continues one opened before
\* by a refresh, rather than by a new login.
ResetForcesLogin ==
    \A s \in Sessions :
        /\ row[s].state = "live"
        /\ row[s].family # s
        /\ row[s].password < account.password
        => \E r \in Requests : req[r].pc \in {"reset_spend", "reset_sweep"}

\* "so this always has a current token": the session in the cookie exists, when
\* nobody signed out or changed the password and no refresh is in progress.
AlwaysCurrent ==
    \A f \in Sessions :
        /\ cookie[f] # None
        /\ f \notin history.ended
        /\ \A r \in Requests : ~Refreshes(r, f)
        => row[cookie[f]].state = "live"
=============================================================================
