--------------------------- MODULE AccountsProofs ---------------------------
(***************************************************************************)
(* The account and its sessions keep their promises for any number of      *)
(* sessions, links, backup codes and requests.                             *)
(***************************************************************************)
EXTENDS Accounts, TLAPS

-----------------------------------------------------------------------------
(* Types. *)

Used(s) == s \in Sessions /\ row[s].state # "unused"

\* The steps of a request that rest on the session it came with.
SessionPCs == RefreshPCs \cup {"logout", "logout_delete", "logout_revoke"}

LoginPCs == {"google_create", "login_code", "login_session"}

\* Whoever holds a session holds one that has been created, with its family.
RowInv ==
    /\ \A s \in Sessions : Used(s) => row[s].family \in Sessions
    /\ \A s \in Sessions : token[s] # "unused" => Used(s)

HolderInv ==
    /\ \A f \in Sessions :
          cookie[f] # None => Used(cookie[f]) /\ row[cookie[f]].family = f
    /\ \A r \in Requests :
          /\ req[r].session # None => Used(req[r].session)
          /\ req[r].fresh # None => Used(req[r].fresh)
          /\ req[r].pc \in SessionPCs => req[r].session # None
          /\ req[r].pc \in LoginPCs => req[r].session = None

LEMMA IdleTyped == Idle \in Call
  BY MaxPasswordsAssumption DEF Idle, Call, PCs

LEMMA IdleFields ==
  Idle.pc = "idle" /\ Idle.session = None /\ Idle.fresh = None /\ Idle.codes = {}
  BY DEF Idle

LEMMA NoAccountTyped == NoAccount \in Account
  BY MaxPasswordsAssumption DEF NoAccount, Account

LEMMA GotoTyped ==
  ASSUME TypeOK, NEW r \in Requests, NEW pc \in PCs, Goto(r, pc)
  PROVE  req' \in [Requests -> Call]
<1>1. [req[r] EXCEPT !.pc = pc] \in Call
  BY DEF TypeOK, Call
<1>2. QED
  BY <1>1 DEF TypeOK, Goto

LEMMA ReturnTyped ==
  ASSUME TypeOK, NEW r \in Requests, Return(r)
  PROVE  req' \in [Requests -> Call]
  BY IdleTyped DEF TypeOK, Return

LEMMA BeginTyped ==
  ASSUME TypeOK, NEW r \in Requests, NEW operation, NEW call \in Call,
         Begin(r, operation, call)
  PROVE  req' \in [Requests -> Call]
  BY DEF TypeOK, Begin

\* What requests begin with.
LEMMA IdleAt == ASSUME NEW pc \in PCs PROVE [Idle EXCEPT !.pc = pc] \in Call
  BY IdleTyped DEF Call

LEMMA IdleOf ==
  ASSUME NEW pc \in PCs, NEW s \in Sessions \cup {None}
  PROVE  [Idle EXCEPT !.pc = pc, !.session = s] \in Call
  BY IdleTyped DEF Call

LEMMA IdleWith ==
  ASSUME NEW pc \in PCs, NEW l \in Links
  PROVE  [Idle EXCEPT !.pc = pc, !.link = l] \in Call
  BY IdleTyped DEF Call

LEMMA ReadsTyped == ASSUME TypeOK, NEW pc \in PCs PROVE Reads(pc) \in Call
  BY IdleTyped DEF Call, Reads, TypeOK, Account

LEMMA InitTyped == Init => TypeOK
<1> SUFFICES ASSUME Init PROVE TypeOK
  OBVIOUS
<1> USE MaxPasswordsAssumption DEF Init
<1>1. account \in Account
  BY NoAccountTyped
<1>2. row \in [Sessions -> Row]
  BY DEF NoRow, Row
<1>3. req \in [Requests -> Call]
  BY IdleTyped
<1>4. history \in History
  BY DEF History
<1>5. QED
  BY <1>1, <1>2, <1>3, <1>4 DEF TypeOK, TokenStates, LinkStates

\* The steps of one request that touch no session.
LEMMA RequestTyped ==
  ASSUME TypeOK, NEW r \in Requests,
         \/ CreateRead(r) \/ Create(r) \/ RegisterRead(r) \/ RegisterCreate(r)
         \/ GoogleRead(r) \/ GoogleCreate(r) \/ LoginRead(r)
         \/ RefreshUser(r) \/ ForgotRead(r) \/ ChangeRead(r)
         \/ VerifyWrite(r) \/ ResendRead(r)
         \/ UpdateRead(r) \/ DeactivateRead(r) \/ DeactivateWrite(r)
         \/ Setup(r) \/ ConfirmRead(r) \/ ConfirmClear(r)
         \/ DisableRead(r) \/ DisableWrite(r)
         \/ (\E status \in HandStatuses : UpdateWrite(r, status))
  PROVE  TypeOK'
<1>1. CASE CreateRead(r) \/ RegisterRead(r) \/ ForgotRead(r) \/ ResendRead(r)
           \/ UpdateRead(r) \/ DeactivateRead(r)
  <2>1. req' \in [Requests -> Call]
    BY <1>1, BeginTyped, IdleAt
       DEF CreateRead, RegisterRead, ForgotRead, ResendRead, UpdateRead,
           DeactivateRead, AdministratorReads, PCs
  <2>2. QED
    BY <1>1, <2>1
       DEF CreateRead, RegisterRead, ForgotRead, ResendRead, UpdateRead,
           DeactivateRead, AdministratorReads, TypeOK
<1>2. CASE Create(r) \/ RegisterCreate(r) \/ GoogleCreate(r)
  <2>1. PICK pc, next \in PCs, status \in AccountStatuses, verified \in BOOLEAN :
            Insert(r, pc, next, status, verified)
    BY <1>2 DEF Create, RegisterCreate, GoogleCreate, PCs, AccountStatuses
  <2>2. req' \in [Requests -> Call]
    BY <2>1, GotoTyped, ReturnTyped DEF Insert
  <2>3. [NoAccount EXCEPT !.status = status, !.verified = verified] \in Account
    BY NoAccountTyped DEF Account
  <2>4. \/ account' = [NoAccount EXCEPT !.status = status, !.verified = verified]
        \/ account' = account
    BY <2>1 DEF Insert
  <2>5. account' \in Account
    BY <2>3, <2>4 DEF TypeOK
  <2>6. QED
    BY <2>1, <2>2, <2>5 DEF Insert, TypeOK
<1>3. CASE GoogleRead(r) \/ LoginRead(r)
  <2>1. req' \in [Requests -> Call]
    BY <1>3, BeginTyped, ReadsTyped DEF GoogleRead, LoginRead, PCs
  <2>2. QED
    BY <1>3, <2>1 DEF GoogleRead, LoginRead, TypeOK
<1>4. CASE RefreshUser(r) \/ ChangeRead(r) \/ ConfirmRead(r) \/ DisableRead(r)
           \/ Setup(r) \/ ConfirmClear(r)
  <2>1. req' \in [Requests -> Call]
    BY <1>4, GotoTyped, ReturnTyped
       DEF RefreshUser, ChangeRead, ConfirmRead, DisableRead, Setup, ConfirmClear, PCs
  <2>2. QED
    BY <1>4, <2>1
       DEF RefreshUser, ChangeRead, ConfirmRead, DisableRead, Setup, ConfirmClear, TypeOK
<1>5. CASE VerifyWrite(r) \/ DeactivateWrite(r) \/ DisableWrite(r)
           \/ (\E status \in HandStatuses : UpdateWrite(r, status))
  <2>1. req' \in [Requests -> Call]
    BY <1>5, GotoTyped, ReturnTyped
       DEF VerifyWrite, DeactivateWrite, DisableWrite, UpdateWrite, PCs
  <2>2. account' \in Account
    BY <1>5, HandStatusesAssumption
       DEF VerifyWrite, DeactivateWrite, DisableWrite, UpdateWrite, TypeOK,
           Account, AccountStatuses
  <2>3. QED
    BY <1>5, <2>1, <2>2
       DEF VerifyWrite, DeactivateWrite, DisableWrite, UpdateWrite, TypeOK
<1>6. QED
  BY <1>1, <1>2, <1>3, <1>4, <1>5

-----------------------------------------------------------------------------
LEMMA AccountTyped ==
  ASSUME TypeOK, NEW r \in Requests,
         \/ LoginCode(r) \/ ResetWrite(r) \/ ChangeWrite(r)
         \/ (\E batch \in Batches : ConfirmWrite(r, batch))
  PROVE  TypeOK'
<1>1. CASE LoginCode(r)
  <2>1. req' \in [Requests -> Call]
    BY <1>1, GotoTyped, ReturnTyped DEF LoginCode, PCs
  <2>2. req[r].codes \subseteq Codes
    BY DEF TypeOK, Call
  <2>3. CASE UNCHANGED <<account, history>>
    BY <1>1, <2>1, <2>3 DEF LoginCode, TypeOK
  <2>4. ASSUME NEW c \in req[r].codes,
               account' = [account EXCEPT !.codes = req[r].codes \ {c}],
               history' = [history EXCEPT !.spent = @ \cup {c},
                              !.clash = @ \/ account.codes # req[r].codes]
        PROVE  TypeOK'
    <3>1. account' \in Account
      BY <2>2, <2>4 DEF TypeOK, Account
    <3>2. (history.clash \/ account.codes # req[r].codes) \in BOOLEAN
      OBVIOUS
    <3>3. history' \in History
      BY <2>2, <2>4, <3>2 DEF TypeOK, History
    <3>4. QED
      BY <1>1, <2>1, <3>1, <3>3 DEF LoginCode, TypeOK
  <2>5. QED
    BY <1>1, <2>3, <2>4 DEF LoginCode
<1>2. ASSUME NEW pc, NEW next \in PCs, WritePassword(r, pc, next)
      PROVE  TypeOK'
  <2>1. account.password + 1 \in 0..MaxPasswords
    BY <1>2, MaxPasswordsAssumption DEF WritePassword, TypeOK, Account
  <2>2. account' \in Account
    BY <1>2, <2>1 DEF WritePassword, TypeOK, Account
  <2>3. [req[r] EXCEPT !.pc = next, !.password = account.password + 1] \in Call
    BY <2>1 DEF TypeOK, Call
  <2>4. QED
    BY <1>2, <2>2, <2>3 DEF WritePassword, TypeOK
<1>3. ASSUME NEW batch \in Batches, ConfirmWrite(r, batch)
      PROVE  TypeOK'
  <2>1. batch \subseteq Codes
    BY DEF Codes
  <2>2. req' \in [Requests -> Call]
    BY <1>3, GotoTyped DEF ConfirmWrite, PCs
  <2>3. account' \in Account
    BY <1>3, <2>1 DEF ConfirmWrite, TypeOK, Account
  <2>4. history' \in History
    BY <1>3, <2>1 DEF ConfirmWrite, TypeOK, History
  <2>5. QED
    BY <1>3, <2>2, <2>3, <2>4 DEF ConfirmWrite, TypeOK
<1>4. QED
  BY <1>1, <1>2, <1>3 DEF ResetWrite, ChangeWrite, PCs

\* A row of which the state alone is written.
LEMMA StateTyped ==
  ASSUME TypeOK, NEW s \in Sessions, NEW state \in {"live", "over", "gone", "unused"}
  PROVE  [row[s] EXCEPT !.state = state] \in Row
  BY DEF TypeOK, Row

LEMMA RowTyped ==
  ASSUME TypeOK, NEW s
  PROVE  [row EXCEPT ![s].state = Deleted(s)] \in [Sessions -> Row]
<1>1. CASE s \in Sessions
  <2>1. Deleted(s) \in {"live", "over", "gone", "unused"}
    BY <1>1 DEF Deleted, TypeOK, Row
  <2>2. QED
    BY <1>1, <2>1, StateTyped DEF TypeOK
<1>2. CASE s \notin Sessions
  BY <1>2 DEF TypeOK
<1>3. QED
  BY <1>1, <1>2

LEMMA NewSessionTyped ==
  ASSUME TypeOK, NEW r \in Requests, NEW s \in Sessions, NEW next \in PCs,
         NewSession(r, s, next)
  PROVE  TypeOK'
<1> DEFINE new == [state |-> "live",
                   family |-> IF req[r].session = None THEN s
                              ELSE row[req[r].session].family,
                   password |-> req[r].password, late |-> req[r].late]
<1>1. /\ req[r].session \in Sessions \cup {None}
      /\ req[r].password \in 0..MaxPasswords
      /\ req[r].late \in BOOLEAN
  BY DEF TypeOK, Call
<1>2. new.family \in Sessions \cup {None}
  BY <1>1 DEF TypeOK, Row
<1>3. new \in Row
  BY <1>1, <1>2 DEF Row
<1>4. row' = [row EXCEPT ![s] = new]
  BY DEF NewSession
<1>5. [req[r] EXCEPT !.pc = next, !.fresh = s] \in Call
  BY DEF TypeOK, Call
<1>6. QED
  BY <1>3, <1>4, <1>5 DEF NewSession, TypeOK, TokenStates

LEMMA SessionTyped ==
  ASSUME TypeOK, NEW r \in Requests, NEW s \in Sessions, SessionStep(r, s)
  PROVE  TypeOK'
<1>1. CASE RegisterSession(r, s)
  <2>1. [state |-> "live", family |-> s, password |-> req[r].password,
         late |-> req[r].late] \in Row
    BY DEF TypeOK, Call, Row
  <2>2. QED
    BY <1>1, <2>1, ReturnTyped DEF RegisterSession, TypeOK, TokenStates
<1>2. CASE LoginSession(r, s) \/ RefreshSession(r, s)
  BY <1>2, NewSessionTyped DEF LoginSession, RefreshSession, PCs
<1>3. CASE RefreshBegin(r, s)
  <2>1. cookie[s] \in Sessions \cup {None}
    BY DEF TypeOK
  <2>2. req' \in [Requests -> Call]
    BY <1>3, <2>1, BeginTyped, IdleOf DEF RefreshBegin, PCs
  <2>3. history' \in History
    BY <1>3 DEF RefreshBegin, TypeOK, History
  <2>4. QED
    BY <1>3, <2>2, <2>3 DEF RefreshBegin, TypeOK
<1>4. CASE LogoutBegin(r, s) \/ ChangeBegin(r, s) \/ SetupBegin(r, s)
           \/ ConfirmBegin(r, s) \/ DisableBegin(r, s)
  <2>1. req' \in [Requests -> Call]
    BY <1>4, BeginTyped, IdleOf
       DEF LogoutBegin, ChangeBegin, SetupBegin, ConfirmBegin, DisableBegin,
           TwoFactorBegin, PCs
  <2>2. QED
    BY <1>4, <2>1
       DEF LogoutBegin, ChangeBegin, SetupBegin, ConfirmBegin, DisableBegin,
           TwoFactorBegin, TypeOK
<1>5. QED
  BY <1>1, <1>2, <1>3, <1>4 DEF SessionStep

LEMMA LinkTyped ==
  ASSUME TypeOK, NEW r \in Requests, NEW l \in Links, LinkStep(r, l)
  PROVE  TypeOK'
<1>1. CASE ResetRead(r, l) \/ VerifyRead(r, l)
  <2>1. req' \in [Requests -> Call]
    BY <1>1, BeginTyped, IdleWith DEF ResetRead, VerifyRead, PCs
  <2>2. QED
    BY <1>1, <2>1 DEF ResetRead, VerifyRead, TypeOK
<1>2. CASE RegisterLink(r, l) \/ ForgotLink(r, l) \/ ResendLink(r, l)
  <2>1. req' \in [Requests -> Call]
    BY <1>2, GotoTyped DEF RegisterLink, ForgotLink, ResendLink, SendLink, PCs
  <2>2. QED
    BY <1>2, <2>1
       DEF RegisterLink, ForgotLink, ResendLink, SendLink, TypeOK, LinkStates
<1>3. QED
  BY <1>1, <1>2 DEF LinkStep

LEMMA StepTyped ==
  ASSUME TypeOK, RowInv, HolderInv, NEW r \in Requests,
         \/ RefreshFind(r) \/ RefreshDelete(r) \/ Reply(r)
         \/ LogoutDelete(r) \/ LogoutRevoke(r)
         \/ ResetSpend(r) \/ VerifySpend(r) \/ ResetSweep(r) \/ ChangeSweep(r)
         \/ Throw(r)
  PROVE  TypeOK'
<1> DEFINE s == req[r].session
<1>s. /\ s \in Sessions \cup {None}
      /\ req[r].fresh \in Sessions \cup {None}
      /\ req[r].pc \in SessionPCs => s \in Sessions /\ row[s].family \in Sessions
  BY DEF TypeOK, Call, RowInv, HolderInv, Used
<1>1. CASE RefreshFind(r)
  <2>1. CASE row[s].state = "live"
    <3>0. /\ row[s].password \in 0..MaxPasswords
          /\ row[s].late \in BOOLEAN
      BY <1>1, <1>s DEF RefreshFind, SessionPCs, RefreshPCs, TypeOK, Row
    <3>p. "refresh_user" \in PCs
      BY DEF PCs
    <3>1. [req[r] EXCEPT !.pc = "refresh_user", !.password = row[s].password,
                         !.late = row[s].late] \in Call
      BY <3>0, <3>p DEF TypeOK, Call
    <3>2. QED
      BY <1>1, <2>1, <3>1 DEF RefreshFind, TypeOK
  <2>2. CASE row[s].state # "live"
    <3>1. req' \in [Requests -> Call]
      BY <1>1, <2>2, GotoTyped DEF RefreshFind, PCs
    <3>2. QED
      BY <1>1, <3>1 DEF RefreshFind, TypeOK
  <2>3. QED
    BY <2>1, <2>2
<1>2. CASE RefreshDelete(r)
  <2>1. req' \in [Requests -> Call]
    BY <1>2, GotoTyped DEF RefreshDelete, PCs
  <2>2. row' \in [Sessions -> Row]
    BY <1>2, RowTyped DEF RefreshDelete
  <2>3. QED
    BY <1>2, <2>1, <2>2 DEF RefreshDelete, TypeOK
<1>3. CASE Reply(r)
  <2>1. QED
    BY <1>3, <1>s, ReturnTyped DEF Reply, TypeOK
<1>4. CASE LogoutDelete(r)
  <2>1. req' \in [Requests -> Call]
    BY <1>4, GotoTyped, ReturnTyped DEF LogoutDelete, PCs
  <2>2. row' \in [Sessions -> Row]
    BY <1>4, RowTyped DEF LogoutDelete
  <2>3. history' \in History
    BY <1>4, <1>s DEF LogoutDelete, SessionPCs, TypeOK, History
  <2>4. QED
    BY <1>4, <2>1, <2>2, <2>3 DEF LogoutDelete, TypeOK
<1>5. CASE LogoutRevoke(r)
  <2>1. req' \in [Requests -> Call]
    BY <1>5, GotoTyped, ReturnTyped DEF LogoutRevoke, PCs
  <2>2. token' \in [Sessions -> TokenStates]
    BY <1>5 DEF LogoutRevoke, TypeOK, TokenStates
  <2>3. QED
    BY <1>5, <2>1, <2>2 DEF LogoutRevoke, TypeOK
<1>6. CASE ResetSpend(r) \/ VerifySpend(r)
  <2>1. req' \in [Requests -> Call]
    BY <1>6, GotoTyped DEF ResetSpend, VerifySpend, Spend, PCs
  <2>2. QED
    BY <1>6, <2>1 DEF ResetSpend, VerifySpend, Spend, TypeOK, LinkStates
<1>7. ASSUME NEW pc, NEW kept \in Sessions \cup {None}, Sweep(r, pc, kept)
      PROVE  TypeOK'
  <2> DEFINE Swept == [t \in Sessions |->
                 IF t = kept
                 THEN [row[t] EXCEPT !.password =
                          IF @ < req[r].password THEN req[r].password ELSE @]
                 ELSE [row[t] EXCEPT !.state = Deleted(t)]]
  <2>1. row' = Swept
    BY <1>7 DEF Sweep
  <2>2. ASSUME NEW t \in Sessions PROVE Swept[t] \in Row
    <3>0. row[t] \in Row /\ req[r].password \in 0..MaxPasswords
      BY DEF TypeOK, Call
    <3>1. [row[t] EXCEPT !.password =
             IF @ < req[r].password THEN req[r].password ELSE @] \in Row
      BY <3>0 DEF Row
    <3>2. [row[t] EXCEPT !.state = Deleted(t)] \in Row
      BY DEF TypeOK, Row, Deleted
    <3>3. QED
      BY <3>1, <3>2
  <2>3. row' \in [Sessions -> Row]
    BY <2>1, <2>2
  <2>4. ASSUME NEW q \in Requests PROVE [req[q] EXCEPT !.late = TRUE] \in Call
    BY DEF TypeOK, Call
  <2>5. req' \in [Requests -> Call]
    BY <1>7, <2>4, IdleTyped DEF Sweep, TypeOK
  <2>6. {row[t].family : t \in {u \in Sessions \ {kept} : row[u].state = "live"}}
           \subseteq Sessions
    BY DEF RowInv, Used
  <2>7. history' \in History
    BY <1>7, <2>6 DEF Sweep, TypeOK, History
  <2>8. QED
    BY <1>7, <2>3, <2>5, <2>7 DEF Sweep, TypeOK
<1>8. CASE Throw(r)
  <2>p. "reply" \in PCs
    BY DEF PCs
  <2>1. [req[r] EXCEPT !.pc = "reply", !.fresh = None] \in Call
    BY <2>p DEF TypeOK, Call
  <2>2. req' \in [Requests -> Call]
    <3>1. CASE req[r].pc \in RefreshPCs
      BY <1>8, <2>1, <3>1 DEF Throw, TypeOK
    <3>2. CASE req[r].pc \notin RefreshPCs
      BY <1>8, <3>2, ReturnTyped DEF Throw
    <3>3. QED
      BY <3>1, <3>2
  <2>3. (history.unfinished \/ req[r].pc \in {"reset_spend", "reset_sweep", "change_sweep"})
           \in BOOLEAN
    OBVIOUS
  <2>4. history' \in History
    BY <1>8, <2>3 DEF Throw, TypeOK, History
  <2>5. QED
    BY <1>8, <2>2, <2>4 DEF Throw, TypeOK
<1>9. QED
  BY <1>1, <1>2, <1>3, <1>4, <1>5, <1>6, <1>7, <1>8, <1>s DEF ResetSweep, ChangeSweep

LEMMA NextTyped ==
  ASSUME TypeOK, RowInv, HolderInv, [Next]_vars
  PROVE  TypeOK'
<1>1. CASE UNCHANGED vars
  BY <1>1 DEF vars, TypeOK
<1>2. ASSUME NEW r \in Requests, Step(r) PROVE TypeOK'
  BY <1>2, RequestTyped, AccountTyped, StepTyped DEF Step
<1>3. ASSUME NEW s \in Sessions, SessionEnds(s) PROVE TypeOK'
  <2>1. row' \in [Sessions -> Row]
    BY <1>3, StateTyped DEF SessionEnds, TypeOK
  <2>2. history' \in History
    BY <1>3 DEF SessionEnds, RowInv, Used, TypeOK, History
  <2>3. QED
    BY <1>3, <2>1, <2>2 DEF SessionEnds, TypeOK
<1>4. ASSUME NEW s \in Sessions, SignOut(s) \/ TokenAges(s) PROVE TypeOK'
  BY <1>4 DEF SignOut, TokenAges, TypeOK, TokenStates
<1>5. CASE SetupEnds \/ \E l \in Links : EntryEnds(l)
  BY <1>5 DEF SetupEnds, EntryEnds, TypeOK, LinkStates
<1>6. QED
  BY <1>1, <1>2, <1>3, <1>4, <1>5, RequestTyped, AccountTyped, SessionTyped, LinkTyped
     DEF Next

-----------------------------------------------------------------------------
(* Quiet steps: most of the program writes no row, no cookie and no         *)
(* password. They are told apart once, and kept out of what follows.        *)

\* A password was written, and the sessions are still to be deleted.
PendingPCs == {"reset_spend", "reset_sweep", "change_sweep"}

\* On the way to a session, with the account as it was read.
OpeningPCs == {"register_link", "register_session", "login_code", "login_session",
               "refresh_user", "refresh_session"}

SensitivePCs == RefreshPCs \cup PendingPCs \cup {"reply"}

Turns(r, c) ==
    /\ c \in Call
    /\ req' = [req EXCEPT ![r] = c]
    /\ req[r].pc \notin SensitivePCs /\ c.pc \notin SensitivePCs
    /\ c.session # None => Used(c.session)
    /\ c.fresh # None => Used(c.fresh)
    /\ c.pc \in SessionPCs => c.session # None
    /\ c.pc \in LoginPCs => c.session = None
    /\ c.pc \in OpeningPCs =>
          \/ c.password >= account'.password
          \/ /\ req[r].pc \in OpeningPCs
             /\ c.password = req[r].password /\ c.late = req[r].late

Quiet ==
    /\ UNCHANGED <<row, cookie>>
    /\ \A s \in Sessions : token[s] = "unused" => token'[s] = "unused"
    /\ account'.password \in {account.password, 0}
    /\ history'.ended = history.ended
    /\ history'.broken = history.broken
    /\ history'.unfinished = history.unfinished
    /\ UNCHANGED req \/ \E r \in Requests, c \in Call : Turns(r, c)

LEMMA ReturnTurns ==
  ASSUME TypeOK, NEW r \in Requests, Return(r), req[r].pc \notin SensitivePCs
  PROVE  \E c \in Call : Turns(r, c)
<1>1. Idle.pc = "idle" /\ Idle.session = None /\ Idle.fresh = None
  BY DEF Idle
<1>2. Turns(r, Idle)
  BY <1>1, IdleTyped
     DEF Turns, Return, SensitivePCs, RefreshPCs, PendingPCs, SessionPCs, LoginPCs, OpeningPCs
<1>3. QED
  BY <1>2, IdleTyped

LEMMA GotoTurns ==
  ASSUME TypeOK, HolderInv, NEW r \in Requests, NEW pc \in PCs, Goto(r, pc),
         req[r].pc \notin SensitivePCs, pc \notin SensitivePCs,
         pc \in SessionPCs => req[r].pc \in SessionPCs,
         pc \in LoginPCs => req[r].pc \in LoginPCs,
         pc \in OpeningPCs => req[r].pc \in OpeningPCs \/ account'.password = 0
  PROVE  \E c \in Call : Turns(r, c)
<1> DEFINE c == [req[r] EXCEPT !.pc = pc]
<1>1. /\ c \in Call
      /\ c.pc = pc /\ c.session = req[r].session /\ c.fresh = req[r].fresh
      /\ c.password = req[r].password /\ c.late = req[r].late
      /\ c.password \in Nat
  BY MaxPasswordsAssumption DEF TypeOK, Call
<1>2. req' = [req EXCEPT ![r] = c]
  BY DEF Goto
<1> HIDE DEF c
<1>3. Turns(r, c)
  BY <1>1, <1>2 DEF Turns, HolderInv
<1>4. QED
  BY <1>1, <1>3

LEMMA BeginTurns ==
  ASSUME TypeOK, NEW r \in Requests, NEW operation, NEW call \in Call,
         Begin(r, operation, call), call.pc \notin SensitivePCs,
         call.session # None => Used(call.session), call.fresh = None,
         call.pc \in SessionPCs => call.session # None,
         call.pc \in LoginPCs => call.session = None,
         call.pc \in OpeningPCs => call.password >= account'.password
  PROVE  \E c \in Call : Turns(r, c)
<1>1. Idle.pc \notin SensitivePCs
  BY DEF Idle, SensitivePCs, RefreshPCs, PendingPCs
<1>2. Turns(r, call)
  BY <1>1 DEF Turns, Begin
<1>3. QED
  BY <1>2

\* How requests begin.
LEMMA TurnsAt ==
  ASSUME TypeOK, NEW r \in Requests, NEW operation, NEW pc \in {"create", "register_create", "forgot_link", "resend_link",
                    "update_write", "deactivate_write"},
         Begin(r, operation, [Idle EXCEPT !.pc = pc])
  PROVE  \E c \in Call : Turns(r, c)
<1> DEFINE call == [Idle EXCEPT !.pc = pc]
<1> USE DEF PCs, SensitivePCs, RefreshPCs, PendingPCs, SessionPCs, LoginPCs, OpeningPCs
<1>1. call \in Call
  BY IdleAt
<1>2. call.pc = pc /\ call.session = None /\ call.fresh = None
  BY DEF Idle
<1>3. Begin(r, operation, call)
  OBVIOUS
<1> HIDE DEF call
<1>4. QED
  BY <1>1, <1>2, <1>3, NoneAssumption, BeginTurns DEF Used

LEMMA TurnsOf ==
  ASSUME TypeOK, NEW r \in Requests, NEW operation, NEW s,
         NEW pc \in {"logout", "change_read", "setup", "confirm_read", "disable_read"},
         Used(s), Begin(r, operation, [Idle EXCEPT !.pc = pc, !.session = s])
  PROVE  \E c \in Call : Turns(r, c)
<1> DEFINE call == [Idle EXCEPT !.pc = pc, !.session = s]
<1> USE DEF PCs, SensitivePCs, RefreshPCs, PendingPCs, SessionPCs, LoginPCs, OpeningPCs
<1>1. call \in Call
  BY IdleOf DEF Used
<1>2. call.pc = pc /\ call.session = s /\ call.fresh = None
  BY DEF Idle
<1>3. Begin(r, operation, call)
  OBVIOUS
<1> HIDE DEF call
<1>4. QED
  BY <1>1, <1>2, <1>3, NoneAssumption, BeginTurns DEF Used

LEMMA TurnsWith ==
  ASSUME TypeOK, NEW r \in Requests, NEW operation, NEW l \in Links,
         NEW pc \in {"reset_write", "verify_write"},
         Begin(r, operation, [Idle EXCEPT !.pc = pc, !.link = l])
  PROVE  \E c \in Call : Turns(r, c)
<1> DEFINE call == [Idle EXCEPT !.pc = pc, !.link = l]
<1> USE DEF PCs, SensitivePCs, RefreshPCs, PendingPCs, SessionPCs, LoginPCs, OpeningPCs
<1>1. call \in Call
  BY IdleWith
<1>2. call.pc = pc /\ call.session = None /\ call.fresh = None
  BY DEF Idle
<1>3. Begin(r, operation, call)
  OBVIOUS
<1> HIDE DEF call
<1>4. QED
  BY <1>1, <1>2, <1>3, NoneAssumption, BeginTurns DEF Used

LEMMA TurnsReading ==
  ASSUME TypeOK, NEW r \in Requests, NEW operation, NEW pc \in {"login_session", "google_create", "login_code"},
         account' = account, Begin(r, operation, Reads(pc))
  PROVE  \E c \in Call : Turns(r, c)
<1> DEFINE call == Reads(pc)
<1> USE DEF PCs, SensitivePCs, RefreshPCs, PendingPCs, SessionPCs, LoginPCs, OpeningPCs
<1>1. call \in Call
  BY ReadsTyped
<1>2. /\ call.pc = pc /\ call.session = None /\ call.fresh = None
      /\ call.password >= account'.password
  BY MaxPasswordsAssumption DEF Reads, Idle, TypeOK, Account
<1>3. Begin(r, operation, call)
  OBVIOUS
<1> HIDE DEF call
<1>4. QED
  BY <1>1, <1>2, <1>3, NoneAssumption, BeginTurns DEF Used

LEMMA QuietReads ==
  ASSUME TypeOK, NEW r \in Requests,
         \/ CreateRead(r) \/ RegisterRead(r) \/ GoogleRead(r) \/ LoginRead(r)
         \/ ForgotRead(r) \/ ResendRead(r) \/ UpdateRead(r) \/ DeactivateRead(r)
  PROVE  Quiet
<1>1. \E c \in Call : Turns(r, c)
  <2>1. CASE CreateRead(r)
    BY <2>1, TurnsAt DEF CreateRead
  <2>2. CASE RegisterRead(r)
    BY <2>2, TurnsAt DEF RegisterRead
  <2>3. CASE ForgotRead(r)
    BY <2>3, TurnsAt DEF ForgotRead
  <2>4. CASE ResendRead(r)
    BY <2>4, TurnsAt DEF ResendRead
  <2>5. CASE UpdateRead(r)
    BY <2>5, TurnsAt DEF UpdateRead, AdministratorReads
  <2>6. CASE DeactivateRead(r)
    BY <2>6, TurnsAt DEF DeactivateRead, AdministratorReads
  <2>7. CASE GoogleRead(r)
    BY <2>7, TurnsReading DEF GoogleRead
  <2>8. CASE LoginRead(r)
    BY <2>8, TurnsReading DEF LoginRead
  <2>9. QED
    BY <2>1, <2>2, <2>3, <2>4, <2>5, <2>6, <2>7, <2>8
<1>2. UNCHANGED <<account, row, cookie, token, history>>
  BY DEF CreateRead, RegisterRead, GoogleRead, LoginRead, ForgotRead, ResendRead,
         UpdateRead, DeactivateRead, AdministratorReads
<1>3. QED
  BY <1>1, <1>2 DEF Quiet

LEMMA QuietMoves ==
  ASSUME TypeOK, HolderInv, NEW r \in Requests,
         \/ Create(r) \/ RegisterCreate(r) \/ GoogleCreate(r) \/ LoginCode(r)
         \/ ChangeRead(r) \/ VerifyWrite(r) \/ VerifySpend(r)
         \/ DeactivateWrite(r) \/ Setup(r) \/ ConfirmRead(r) \/ ConfirmClear(r)
         \/ DisableRead(r) \/ DisableWrite(r)
         \/ (\E status \in HandStatuses : UpdateWrite(r, status))
         \/ (\E batch \in Batches : ConfirmWrite(r, batch))
  PROVE  Quiet
<1> USE DEF PCs, SensitivePCs, RefreshPCs, PendingPCs, SessionPCs, LoginPCs, OpeningPCs
<1>a. [account EXCEPT !.codes = {}].password = account.password
  BY DEF TypeOK, Account
<1>1. CASE Create(r) \/ RegisterCreate(r) \/ GoogleCreate(r)
  <2>1. PICK pc \in {"create", "register_create", "google_create"},
             next \in {"idle", "register_link", "login_session"},
             status \in AccountStatuses, verified \in BOOLEAN :
            /\ Insert(r, pc, next, status, verified)
            /\ next = "login_session" => pc = "google_create"
    BY <1>1 DEF Create, RegisterCreate, GoogleCreate, AccountStatuses
  <2>2. NoAccount.password = 0
    BY DEF NoAccount
  <2>3. CASE Exists
    BY <2>1, <2>3, ReturnTurns DEF Insert, Quiet
  <2>4. CASE ~Exists
    <3>1. account'.password = 0
      BY <2>1, <2>4 DEF Insert, NoAccount
    <3>2. QED
      BY <2>1, <2>4, <3>1, GotoTurns DEF Insert, Quiet
  <2>5. QED
    BY <2>3, <2>4
<1>2. CASE LoginCode(r) \/ (\E batch \in Batches : ConfirmWrite(r, batch))
  <2>1. \E c \in Call : Turns(r, c)
    BY <1>2, GotoTurns, ReturnTurns DEF LoginCode, ConfirmWrite
  <2>2. /\ account'.password = account.password
        /\ history'.ended = history.ended
        /\ history'.broken = history.broken
        /\ history'.unfinished = history.unfinished
    BY <1>2 DEF LoginCode, ConfirmWrite, TypeOK, Account, History
  <2>3. QED
    BY <1>2, <2>1, <2>2 DEF LoginCode, ConfirmWrite, Quiet
<1>3. CASE VerifyWrite(r) \/ DeactivateWrite(r) \/ DisableWrite(r)
           \/ (\E status \in HandStatuses : UpdateWrite(r, status))
  <2>1. account'.password = account.password
    BY <1>3 DEF VerifyWrite, DeactivateWrite, DisableWrite, UpdateWrite, TypeOK, Account
  <2>2. \E c \in Call : Turns(r, c)
    BY <1>3, GotoTurns, ReturnTurns
       DEF VerifyWrite, DeactivateWrite, DisableWrite, UpdateWrite
  <2>3. QED
    BY <1>3, <2>1, <2>2
       DEF VerifyWrite, DeactivateWrite, DisableWrite, UpdateWrite, Quiet
<1>4. CASE ChangeRead(r) \/ VerifySpend(r) \/ Setup(r) \/ ConfirmRead(r)
           \/ ConfirmClear(r) \/ DisableRead(r)
  <2>1. \E c \in Call : Turns(r, c)
    BY <1>4, GotoTurns, ReturnTurns
       DEF ChangeRead, VerifySpend, Spend, Setup, ConfirmRead, ConfirmClear, DisableRead
  <2>2. QED
    BY <1>4, <2>1
       DEF ChangeRead, VerifySpend, Spend, Setup, ConfirmRead, ConfirmClear, DisableRead,
           Quiet
<1>5. QED
  BY <1>1, <1>2, <1>3, <1>4

LEMMA QuietLinks ==
  ASSUME TypeOK, HolderInv, NEW r \in Requests, NEW l \in Links, LinkStep(r, l)
  PROVE  Quiet
<1> USE DEF PCs, SensitivePCs, RefreshPCs, PendingPCs, SessionPCs, LoginPCs, OpeningPCs
<1>1. CASE ResetRead(r, l) \/ VerifyRead(r, l)
  <2>1. CASE ResetRead(r, l)
    BY <2>1, TurnsWith DEF ResetRead, Quiet
  <2>2. CASE VerifyRead(r, l)
    BY <2>2, TurnsWith DEF VerifyRead, Quiet
  <2>3. QED
    BY <1>1, <2>1, <2>2
<1>2. CASE RegisterLink(r, l) \/ ForgotLink(r, l) \/ ResendLink(r, l)
  <2>1. \E c \in Call : Turns(r, c)
    BY <1>2, GotoTurns DEF RegisterLink, ForgotLink, ResendLink, SendLink
  <2>2. QED
    BY <1>2, <2>1 DEF RegisterLink, ForgotLink, ResendLink, SendLink, Quiet
<1>3. QED
  BY <1>1, <1>2 DEF LinkStep

LEMMA QuietSessions ==
  ASSUME TypeOK, RowInv, HolderInv, NEW r \in Requests, NEW s \in Sessions,
         \/ LogoutBegin(r, s) \/ ChangeBegin(r, s) \/ SetupBegin(r, s)
         \/ ConfirmBegin(r, s) \/ DisableBegin(r, s)
  PROVE  Quiet
<1>1. Used(s)
  BY DEF LogoutBegin, ChangeBegin, SetupBegin, ConfirmBegin, DisableBegin, TwoFactorBegin,
         Authenticated, RowInv
<1>2. \E c \in Call : Turns(r, c)
  <2>1. CASE LogoutBegin(r, s)
    BY <1>1, <2>1, TurnsOf DEF LogoutBegin
  <2>2. CASE ChangeBegin(r, s)
    BY <1>1, <2>2, TurnsOf DEF ChangeBegin
  <2>3. CASE SetupBegin(r, s)
    BY <1>1, <2>3, TurnsOf DEF SetupBegin, TwoFactorBegin
  <2>4. CASE ConfirmBegin(r, s)
    BY <1>1, <2>4, TurnsOf DEF ConfirmBegin, TwoFactorBegin
  <2>5. CASE DisableBegin(r, s)
    BY <1>1, <2>5, TurnsOf DEF DisableBegin, TwoFactorBegin
  <2>6. QED
    BY <2>1, <2>2, <2>3, <2>4, <2>5
<1>3. QED
  BY <1>2
     DEF LogoutBegin, ChangeBegin, SetupBegin, ConfirmBegin, DisableBegin, TwoFactorBegin,
         Quiet

LEMMA QuietRest ==
  ASSUME TypeOK, HolderInv, NEW r \in Requests,
         LogoutRevoke(r) \/ (Throw(r) /\ req[r].pc \notin SensitivePCs)
  PROVE  Quiet
<1> USE DEF PCs, SensitivePCs, RefreshPCs, PendingPCs, SessionPCs, LoginPCs, OpeningPCs
<1>1. CASE LogoutRevoke(r)
  <2>1. \E c \in Call : Turns(r, c)
    BY <1>1, GotoTurns, ReturnTurns DEF LogoutRevoke
  <2>2. \A s \in Sessions : token[s] = "unused" => token'[s] = "unused"
    BY <1>1 DEF LogoutRevoke, TypeOK
  <2>3. QED
    BY <1>1, <2>1, <2>2 DEF LogoutRevoke, Quiet
<1>2. CASE Throw(r) /\ req[r].pc \notin SensitivePCs
  <2>1. \E c \in Call : Turns(r, c)
    BY <1>2, ReturnTurns DEF Throw
  <2>2. /\ history'.ended = history.ended
        /\ history'.broken = history.broken
        /\ history'.unfinished = history.unfinished
    BY <1>2 DEF Throw, TypeOK, History
  <2>3. QED
    BY <1>2, <2>1, <2>2 DEF Throw, Quiet
<1>3. QED
  BY <1>1, <1>2

LEMMA QuietTime ==
  ASSUME TypeOK,
         \/ UNCHANGED vars \/ SetupEnds \/ (\E l \in Links : EntryEnds(l))
         \/ (\E s \in Sessions : TokenAges(s))
  PROVE  Quiet
  BY DEF vars, SetupEnds, EntryEnds, TokenAges, TypeOK, Quiet

\* What is left once the quiet steps are set aside.
Loud(r) ==
    \/ RefreshFind(r) \/ RefreshUser(r) \/ RefreshDelete(r) \/ Reply(r)
    \/ LogoutDelete(r) \/ ResetWrite(r) \/ ChangeWrite(r) \/ ResetSpend(r)
    \/ ResetSweep(r) \/ ChangeSweep(r)
    \/ Throw(r) /\ req[r].pc \in SensitivePCs
    \/ \E s \in Sessions : \/ RegisterSession(r, s) \/ LoginSession(r, s)
                           \/ RefreshBegin(r, s) \/ RefreshSession(r, s)

LEMMA QuietOrLoud ==
  ASSUME TypeOK, RowInv, HolderInv, [Next]_vars
  PROVE  \/ Quiet
         \/ \E r \in Requests : Loud(r)
         \/ \E s \in Sessions : SignOut(s) \/ SessionEnds(s)
<1>1. ASSUME NEW r \in Requests, Step(r) PROVE Quiet \/ Loud(r)
  BY <1>1, QuietReads, QuietMoves, QuietRest DEF Step, Loud
<1>2. ASSUME NEW r \in Requests, NEW s \in Sessions, SessionStep(r, s)
      PROVE  Quiet \/ Loud(r)
  BY <1>2, QuietSessions DEF SessionStep, Loud
<1>3. QED
  BY <1>1, <1>2, QuietMoves, QuietLinks, QuietTime DEF Next

-----------------------------------------------------------------------------
(* Sessions that are held exist, and keep their family.                     *)

RowsKept == \A s \in Sessions :
    Used(s) => row'[s].state # "unused" /\ row'[s].family = row[s].family

LEMMA HoldersKept ==
  ASSUME TypeOK, HolderInv, RowsKept, cookie' = cookie,
         NEW r \in Requests, NEW c \in Call, req' = [req EXCEPT ![r] = c],
         c.session # None => c.session \in Sessions /\ row'[c.session].state # "unused",
         c.fresh # None => c.fresh \in Sessions /\ row'[c.fresh].state # "unused",
         c.pc \in SessionPCs => c.session # None,
         c.pc \in LoginPCs => c.session = None
  PROVE  HolderInv'
<1>1. ASSUME NEW f \in Sessions, cookie[f] # None
      PROVE  Used(cookie[f])' /\ row'[cookie[f]].family = f
  BY <1>1 DEF HolderInv, RowsKept, Used
<1>2. ASSUME NEW q \in Requests
      PROVE  /\ req'[q].session # None => Used(req[q].session)'
             /\ req'[q].fresh # None => Used(req[q].fresh)'
             /\ req'[q].pc \in SessionPCs => req'[q].session # None
             /\ req'[q].pc \in LoginPCs => req'[q].session = None
  <2>1. CASE q = r
    BY <2>1 DEF TypeOK, Used
  <2>2. CASE q # r
    <3>1. req'[q] = req[q]
      BY <2>2 DEF TypeOK
    <3>2. QED
      BY <3>1 DEF HolderInv, RowsKept, Used
  <2>3. QED
    BY <2>1, <2>2
<1>3. QED
  BY <1>1, <1>2 DEF HolderInv, Used

LEMMA QuietHolds ==
  ASSUME TypeOK, RowInv, HolderInv, Quiet
  PROVE  RowInv' /\ HolderInv' /\ RowsKept
<1>1. RowInv' /\ RowsKept
  BY DEF Quiet, RowInv, RowsKept, Used
<1>2. ASSUME UNCHANGED req PROVE HolderInv'
  <2>1. row' = row /\ cookie' = cookie /\ req' = req
    BY <1>2 DEF Quiet
  <2>2. QED
    BY <2>1 DEF HolderInv, Used
<1>3. ASSUME NEW r \in Requests, NEW c \in Call, Turns(r, c) PROVE HolderInv'
  BY <1>1, <1>3, HoldersKept DEF Turns, Quiet, Used
<1>4. QED
  BY <1>1, <1>2, <1>3 DEF Quiet

LEMMA NewHolds ==
  ASSUME TypeOK, RowInv, HolderInv, NEW r \in Requests, NEW s \in Sessions,
         NEW next \in PCs, NewSession(r, s, next),
         next \in SessionPCs => req[r].session # None, next \notin LoginPCs
  PROVE  RowInv' /\ HolderInv' /\ RowsKept
<1> DEFINE parent == req[r].session
           c == [req[r] EXCEPT !.pc = next, !.fresh = s]
<1>1. /\ row[s].state = "unused"
      /\ row'[s].state # "unused"
      /\ row'[s].family = IF parent = None THEN s ELSE row[parent].family
      /\ \A t \in Sessions \ {s} : row'[t] = row[t]
  BY DEF NewSession, TypeOK
<1>2. /\ parent # None => Used(parent) /\ row[parent].family \in Sessions
      /\ token' = [token EXCEPT ![s] = "valid"]
  BY DEF NewSession, HolderInv, RowInv, Used
<1>3. RowsKept
  BY <1>1 DEF RowsKept, Used
<1>4. RowInv'
  BY <1>1, <1>2 DEF RowInv, TypeOK, Used
<1>5. /\ c \in Call /\ c.pc = next /\ c.fresh = s /\ c.session = parent
      /\ c.fresh = s
  BY DEF TypeOK, Call
<1>6. /\ c.session # None => c.session \in Sessions /\ row'[c.session].state # "unused"
      /\ row'[c.fresh].state # "unused"
  BY <1>1, <1>2, <1>3, <1>5 DEF RowsKept, Used
<1>7. req' = [req EXCEPT ![r] = c] /\ cookie' = cookie
  BY DEF NewSession
<1> HIDE DEF c
<1>8. HolderInv'
  BY <1>3, <1>5, <1>6, <1>7, HoldersKept
<1>9. QED
  BY <1>3, <1>4, <1>8

\* A row changes its state, and a request moves on.
LEMMA StateHolds ==
  ASSUME TypeOK, RowInv, token' = token,
         \A t \in Sessions : row'[t].family = row[t].family,
         \A t \in Sessions : row'[t].state = "unused" <=> row[t].state = "unused"
  PROVE  RowInv' /\ RowsKept
  BY DEF RowInv, RowsKept, Used

LEMMA GotoHolds ==
  ASSUME TypeOK, HolderInv, RowsKept, cookie' = cookie,
         NEW r \in Requests, NEW pc \in PCs, Goto(r, pc),
         pc \in SessionPCs => req[r].pc \in SessionPCs, pc \notin LoginPCs
  PROVE  HolderInv'
<1> DEFINE c == [req[r] EXCEPT !.pc = pc]
<1>1. /\ c \in Call /\ c.pc = pc /\ c.session = req[r].session /\ c.fresh = req[r].fresh
      /\ req' = [req EXCEPT ![r] = c]
  BY DEF TypeOK, Call, Goto
<1> HIDE DEF c
<1>2. /\ c.session # None => c.session \in Sessions /\ row'[c.session].state # "unused"
      /\ c.fresh # None => c.fresh \in Sessions /\ row'[c.fresh].state # "unused"
      /\ c.pc \in SessionPCs => c.session # None
  BY <1>1 DEF HolderInv, RowsKept, Used
<1>3. QED
  BY <1>1, <1>2, HoldersKept

LEMMA ReturnHolds ==
  ASSUME TypeOK, HolderInv, RowsKept, cookie' = cookie, NEW r \in Requests, Return(r)
  PROVE  HolderInv'
<1>1. /\ Idle \in Call /\ Idle.session = None /\ Idle.fresh = None
      /\ Idle.pc \notin SessionPCs \cup LoginPCs
  BY IdleTyped DEF Idle, SessionPCs, RefreshPCs, LoginPCs
<1>2. QED
  BY <1>1, HoldersKept DEF Return

\* The other steps leave the families of the rows, and each row that is in use.
LEMMA FamiliesStay ==
  ASSUME TypeOK, NEW s,
         row' = [row EXCEPT ![s].state = Deleted(s)]
  PROVE  \A t \in Sessions : /\ row'[t].family = row[t].family
                             /\ row'[t].state = "unused" <=> row[t].state = "unused"
<1> SUFFICES ASSUME NEW t \in Sessions
             PROVE  /\ row'[t].family = row[t].family
                    /\ row'[t].state = "unused" <=> row[t].state = "unused"
  OBVIOUS
<1>1. CASE t = s
  <2>1. row'[t] = [row[t] EXCEPT !.state = Deleted(t)]
    BY <1>1 DEF TypeOK
  <2>2. QED
    BY <2>1 DEF Deleted, TypeOK, Row
<1>2. CASE t # s
  BY <1>2 DEF TypeOK
<1>3. QED
  BY <1>1, <1>2

LEMMA SweptRows ==
  ASSUME TypeOK, NEW r \in Requests, NEW pc, NEW kept, Sweep(r, pc, kept)
  PROVE  \A t \in Sessions :
            /\ row'[t].family = row[t].family
            /\ row'[t].late = row[t].late
            /\ row'[t].state = "unused" <=> row[t].state = "unused"
            /\ t # kept => row'[t].state = Deleted(t) /\ row'[t].state # "live"
            /\ t = kept => /\ row'[t].state = row[t].state
                           /\ row'[t].password = IF row[t].password < req[r].password
                                                 THEN req[r].password ELSE row[t].password
<1> SUFFICES ASSUME NEW t \in Sessions
             PROVE  /\ row'[t].family = row[t].family
                    /\ row'[t].late = row[t].late
                    /\ row'[t].state = "unused" <=> row[t].state = "unused"
                    /\ t # kept => row'[t].state = Deleted(t) /\ row'[t].state # "live"
                    /\ t = kept =>
                          /\ row'[t].state = row[t].state
                          /\ row'[t].password = IF row[t].password < req[r].password
                                                THEN req[r].password ELSE row[t].password
  OBVIOUS
<1>1. row'[t] = IF t = kept
                THEN [row[t] EXCEPT !.password =
                         IF @ < req[r].password THEN req[r].password ELSE @]
                ELSE [row[t] EXCEPT !.state = Deleted(t)]
  BY DEF Sweep
<1>2. row[t] \in Row
  BY DEF TypeOK
<1>3. CASE t = kept
  BY <1>1, <1>2, <1>3 DEF Row
<1>4. CASE t # kept
  BY <1>1, <1>2, <1>4 DEF Row, Deleted
<1>5. QED
  BY <1>3, <1>4

LEMMA ThrowMoves ==
  ASSUME TypeOK, NEW r \in Requests, Throw(r)
  PROVE  \/ req[r].pc \notin RefreshPCs /\ Return(r)
         \/ \E c \in Call :
               /\ req[r].pc \in RefreshPCs
               /\ req' = [req EXCEPT ![r] = c]
               /\ c = [req[r] EXCEPT !.pc = "reply", !.fresh = None]
               /\ c.pc = "reply" /\ c.session = req[r].session /\ c.fresh = None
               /\ c.codes = req[r].codes
<1>1. CASE req[r].pc \in RefreshPCs
  <2> DEFINE c == [req[r] EXCEPT !.pc = "reply", !.fresh = None]
  <2>1. "reply" \in PCs
    BY DEF PCs
  <2>2. c \in Call
    BY <2>1 DEF TypeOK, Call
  <2>3. c.pc = "reply" /\ c.session = req[r].session /\ c.fresh = None
        /\ c.codes = req[r].codes
    BY DEF TypeOK, Call
  <2>4. req' = [req EXCEPT ![r] = c]
    BY <1>1 DEF Throw
  <2>5. QED
    BY <1>1, <2>2, <2>3, <2>4
<1>2. CASE req[r].pc \notin RefreshPCs
  BY <1>2 DEF Throw
<1>3. QED
  BY <1>1, <1>2

\* A refresh begins, and finds the row of its session.
LEMMA RefreshMoves ==
  ASSUME TypeOK, RowInv, HolderInv, NEW r \in Requests, NEW f \in Sessions,
         RefreshBegin(r, f)
  PROVE  \E c \in Call :
            /\ req[r] = Idle
            /\ req' = [req EXCEPT ![r] = c]
            /\ c.pc = "refresh_find" /\ c.session = cookie[f] /\ c.fresh = None
            /\ c.codes = {}
<1> DEFINE c == [Idle EXCEPT !.pc = "refresh_find", !.session = cookie[f]]
<1>1. "refresh_find" \in PCs /\ cookie[f] \in Sessions \cup {None}
  BY DEF PCs, TypeOK
<1>2. c \in Call
  BY <1>1, IdleOf
<1>3. c.pc = "refresh_find" /\ c.session = cookie[f] /\ c.fresh = None /\ c.codes = {}
  BY DEF Idle
<1>4. req[r] = Idle /\ req' = [req EXCEPT ![r] = c]
  BY DEF RefreshBegin, Begin
<1>5. QED
  BY <1>2, <1>3, <1>4

LEMMA FindMoves ==
  ASSUME TypeOK, RowInv, HolderInv, NEW r \in Requests, RefreshFind(r),
         row[req[r].session].state = "live"
  PROVE  \E c \in Call :
            /\ req' = [req EXCEPT ![r] = c]
            /\ c.pc = "refresh_user" /\ c.session = req[r].session
            /\ c.fresh = req[r].fresh /\ c.codes = req[r].codes
            /\ c.password = row[req[r].session].password
            /\ c.late = row[req[r].session].late
<1> DEFINE s == req[r].session
           c == [req[r] EXCEPT !.pc = "refresh_user", !.password = row[s].password,
                               !.late = row[s].late]
<1>1. s \in Sessions
  BY DEF RefreshFind, HolderInv, SessionPCs, RefreshPCs, Used
<1>2. "refresh_user" \in PCs /\ row[s].password \in 0..MaxPasswords /\ row[s].late \in BOOLEAN
  BY <1>1 DEF TypeOK, Row, PCs
<1>3. c \in Call
  BY <1>2 DEF TypeOK, Call
<1>4. /\ c.pc = "refresh_user" /\ c.session = s /\ c.fresh = req[r].fresh
      /\ c.codes = req[r].codes
      /\ c.password = row[s].password /\ c.late = row[s].late
  BY DEF TypeOK, Call
<1>5. req' = [req EXCEPT ![r] = c]
  BY DEF RefreshFind
<1>6. QED
  BY <1>3, <1>4, <1>5

LEMMA WriteMoves ==
  ASSUME TypeOK, NEW r \in Requests, NEW pc, NEW next \in PCs,
         WritePassword(r, pc, next)
  PROVE  \E c \in Call :
            /\ req' = [req EXCEPT ![r] = c]
            /\ c.pc = next /\ c.session = req[r].session /\ c.fresh = req[r].fresh
            /\ c.codes = req[r].codes
            /\ c.password = account.password + 1
            /\ account'.password = account.password + 1
            /\ account'.codes = account.codes /\ account'.twoFactor = account.twoFactor
<1> DEFINE c == [req[r] EXCEPT !.pc = next, !.password = account.password + 1]
<1>1. account.password + 1 \in 0..MaxPasswords
  BY MaxPasswordsAssumption DEF WritePassword, TypeOK, Account
<1>2. c \in Call
  BY <1>1 DEF TypeOK, Call
<1>3. /\ c.pc = next /\ c.session = req[r].session /\ c.fresh = req[r].fresh
      /\ c.codes = req[r].codes
      /\ c.password = account.password + 1
  BY DEF TypeOK, Call
<1>4. /\ account'.password = account.password + 1
      /\ account'.codes = account.codes /\ account'.twoFactor = account.twoFactor
  BY DEF WritePassword, TypeOK, Account
<1>5. req' = [req EXCEPT ![r] = c]
  BY DEF WritePassword
<1>6. QED
  BY <1>2, <1>3, <1>4, <1>5

\* A sweep marks the other requests, and moves none.
LEMMA SweptRequests ==
  ASSUME TypeOK, NEW r \in Requests, NEW pc, NEW kept, Sweep(r, pc, kept)
  PROVE  \A q \in Requests :
            \/ (q = r \/ req[q] = Idle) /\ req'[q] = Idle
            \/ /\ q # r /\ req[q] # Idle
               /\ req'[q].pc = req[q].pc /\ req'[q].session = req[q].session
               /\ req'[q].fresh = req[q].fresh /\ req'[q].codes = req[q].codes
               /\ req'[q].password = req[q].password /\ req'[q].late = TRUE
<1> SUFFICES ASSUME NEW q \in Requests, q # r, req[q] # Idle
             PROVE  /\ req'[q].pc = req[q].pc /\ req'[q].session = req[q].session
                    /\ req'[q].fresh = req[q].fresh /\ req'[q].codes = req[q].codes
                    /\ req'[q].password = req[q].password /\ req'[q].late = TRUE
  BY DEF Sweep
<1>1. req'[q] = [req[q] EXCEPT !.late = TRUE]
  BY DEF Sweep
<1>2. QED
  BY <1>1 DEF TypeOK, Call

LEMMA SweepHolds ==
  ASSUME TypeOK, RowInv, HolderInv, NEW r \in Requests, NEW pc, NEW kept,
         Sweep(r, pc, kept)
  PROVE  RowInv' /\ HolderInv' /\ RowsKept
<1>1. RowInv' /\ RowsKept
  <2>1. token' = token
    BY DEF Sweep
  <2>2. QED
    BY <2>1, SweptRows, StateHolds
<1>2. ASSUME NEW f \in Sessions, cookie[f] # None
      PROVE  Used(cookie[f])' /\ row'[cookie[f]].family = f
  BY <1>1, <1>2 DEF Sweep, HolderInv, RowsKept, Used
<1>3. ASSUME NEW q \in Requests
      PROVE  /\ req'[q].session # None => Used(req[q].session)'
             /\ req'[q].fresh # None => Used(req[q].fresh)'
             /\ req'[q].pc \in SessionPCs => req'[q].session # None
             /\ req'[q].pc \in LoginPCs => req'[q].session = None
  <2>1. CASE req'[q] = Idle
    BY <2>1, IdleFields DEF Used, SessionPCs, RefreshPCs, LoginPCs
  <2>2. CASE /\ req'[q].pc = req[q].pc /\ req'[q].session = req[q].session
             /\ req'[q].fresh = req[q].fresh
    BY <1>1, <2>2 DEF HolderInv, RowsKept, Used
  <2>3. QED
    BY <2>1, <2>2, SweptRequests
<1>4. cookie' = cookie
  BY DEF Sweep
<1>5. QED
  BY <1>1, <1>2, <1>3, <1>4 DEF HolderInv, Used

LEMMA LoudHolds ==
  ASSUME TypeOK, RowInv, HolderInv, NEW r \in Requests, Loud(r)
  PROVE  RowInv' /\ HolderInv' /\ RowsKept
<1> DEFINE s == req[r].session
<1> USE DEF PCs, SensitivePCs, RefreshPCs, PendingPCs, SessionPCs, LoginPCs
<1>a. ASSUME row' = row, token' = token PROVE RowInv' /\ RowsKept
  BY <1>a DEF RowInv, RowsKept, Used
<1>b. /\ s # None => Used(s)
      /\ req[r].fresh # None => Used(req[r].fresh)
      /\ req[r].pc \in SessionPCs => s # None
  BY DEF HolderInv
<1>1. CASE RefreshFind(r) /\ row[s].state = "live"
  <2>1. row' = row /\ token' = token /\ cookie' = cookie
    BY <1>1 DEF RefreshFind
  <2>2. s # None
    BY <1>1, <1>b DEF RefreshFind
  <2>3. PICK c \in Call : /\ req' = [req EXCEPT ![r] = c]
                          /\ c.pc = "refresh_user" /\ c.session = s
                          /\ c.fresh = req[r].fresh
    BY <1>1, FindMoves
  <2>4. QED
    BY <1>a, <1>b, <2>1, <2>2, <2>3, HoldersKept DEF Used
<1>2. CASE (RefreshFind(r) /\ row[s].state # "live") \/ RefreshUser(r) \/ ResetSpend(r)
  <2>1. row' = row /\ token' = token /\ cookie' = cookie
    BY <1>2 DEF RefreshFind, RefreshUser, ResetSpend, Spend
  <2>2. QED
    BY <1>2, <1>a, <2>1, GotoHolds DEF RefreshFind, RefreshUser, ResetSpend, Spend
<1>3. CASE RefreshDelete(r) \/ LogoutDelete(r)
  <2>1. /\ row' = [row EXCEPT ![s].state = Deleted(s)]
        /\ token' = token /\ cookie' = cookie
    BY <1>3 DEF RefreshDelete, LogoutDelete
  <2>2. s \in Sessions
    BY <1>3, <1>b DEF RefreshDelete, LogoutDelete, Used
  <2>3. RowInv' /\ RowsKept
    BY <2>1, <2>2, FamiliesStay, StateHolds
  <2>4. QED
    BY <1>3, <2>1, <2>3, GotoHolds, ReturnHolds DEF RefreshDelete, LogoutDelete
<1>4. CASE Reply(r)
  <2> DEFINE t == IF req[r].fresh = None THEN s ELSE req[r].fresh
  <2>1. row' = row /\ token' = token /\ cookie' = [cookie EXCEPT ![row[t].family] = t]
    BY <1>4 DEF Reply
  <2>2. t # None => Used(t)
    BY <1>b
  <2> HIDE DEF t
  <2>3. RowInv' /\ RowsKept
    BY <1>a, <2>1
  <2>4. ASSUME NEW f \in Sessions, cookie'[f] # None
        PROVE  Used(cookie[f])' /\ row'[cookie'[f]].family = f
    BY <2>1, <2>2, <2>4 DEF TypeOK, HolderInv, Used
  <2>5. req' = [req EXCEPT ![r] = Idle]
    BY <1>4 DEF Reply, Return
  <2>6. ASSUME NEW q \in Requests
        PROVE  /\ req'[q].session # None => Used(req[q].session)'
               /\ req'[q].fresh # None => Used(req[q].fresh)'
               /\ req'[q].pc \in SessionPCs => req'[q].session # None
               /\ req'[q].pc \in LoginPCs => req'[q].session = None
    <3>1. CASE q = r
      BY <2>5, <3>1, IdleFields DEF TypeOK
    <3>2. CASE q # r
      <4>1. req'[q] = req[q]
        BY <2>5, <3>2 DEF TypeOK
      <4>2. QED
        BY <2>1, <4>1 DEF HolderInv, Used
    <3>3. QED
      BY <3>1, <3>2
  <2>7. QED
    BY <2>3, <2>4, <2>6 DEF HolderInv, Used
<1>5. ASSUME NEW pc, NEW next \in {"reset_spend", "change_sweep"},
             WritePassword(r, pc, next)
      PROVE  RowInv' /\ HolderInv' /\ RowsKept
  <2>2. row' = row /\ token' = token /\ cookie' = cookie
    BY <1>5 DEF WritePassword
  <2>3. PICK c \in Call : /\ req' = [req EXCEPT ![r] = c]
                          /\ c.pc = next /\ c.session = s /\ c.fresh = req[r].fresh
    BY <1>5, WriteMoves
  <2>4. QED
    BY <1>a, <1>b, <2>2, <2>3, HoldersKept DEF Used
<1>6. CASE ResetSweep(r) \/ ChangeSweep(r)
  BY <1>6, SweepHolds DEF ResetSweep, ChangeSweep
<1>7. CASE Throw(r)
  <2>1. row' = row /\ token' = token /\ cookie' = cookie
    BY <1>7 DEF Throw
  <2>2. CASE Return(r)
    BY <1>a, <2>1, <2>2, ReturnHolds
  <2>3. CASE \E c \in Call :
               /\ req[r].pc \in RefreshPCs
               /\ req' = [req EXCEPT ![r] = c]
               /\ c.pc = "reply" /\ c.session = req[r].session /\ c.fresh = None
    BY <1>a, <1>b, <2>1, <2>3, HoldersKept DEF Used
  <2>4. QED
    BY <1>7, <2>2, <2>3, ThrowMoves
<1>8. ASSUME NEW u \in Sessions, RegisterSession(r, u)
      PROVE  RowInv' /\ HolderInv' /\ RowsKept
  <2>1. /\ row[u].state = "unused" /\ row'[u].state # "unused" /\ row'[u].family = u
        /\ \A v \in Sessions \ {u} : row'[v] = row[v]
        /\ token' = [token EXCEPT ![u] = "valid"] /\ cookie' = cookie
    BY <1>8 DEF RegisterSession, TypeOK
  <2>2. RowInv' /\ RowsKept
    <3>1. RowsKept
      BY <2>1 DEF RowsKept, Used
    <3>2. ASSUME NEW v \in Sessions
          PROVE  /\ Used(v)' => row'[v].family \in Sessions
                 /\ token'[v] # "unused" => Used(v)'
      BY <2>1 DEF RowInv, Used, TypeOK
    <3>3. QED
      BY <3>1, <3>2 DEF RowInv
  <2>3. QED
    BY <1>8, <2>1, <2>2, ReturnHolds DEF RegisterSession
<1>9. ASSUME NEW u \in Sessions, LoginSession(r, u) \/ RefreshSession(r, u)
      PROVE  RowInv' /\ HolderInv' /\ RowsKept
  BY <1>9, <1>b, NewHolds DEF LoginSession, RefreshSession
<1>10. ASSUME NEW f \in Sessions, RefreshBegin(r, f)
       PROVE  RowInv' /\ HolderInv' /\ RowsKept
  <2>1. row' = row /\ token' = token /\ cookie' = cookie
    BY <1>10 DEF RefreshBegin
  <2>2. PICK c \in Call : /\ req' = [req EXCEPT ![r] = c]
                          /\ c.pc = "refresh_find" /\ c.session = cookie[f]
                          /\ c.fresh = None
    BY <1>10, RefreshMoves
  <2>3. cookie[f] # None /\ Used(cookie[f])
    BY <1>10 DEF RefreshBegin, HolderInv
  <2>4. QED
    BY <1>a, <2>1, <2>2, <2>3, HoldersKept DEF Used
<1>11. QED
  BY <1>1, <1>2, <1>3, <1>4, <1>5, <1>6, <1>7, <1>8, <1>9, <1>10
     DEF Loud, ResetWrite, ChangeWrite

LEMMA RestHolds ==
  ASSUME TypeOK, RowInv, HolderInv, NEW s \in Sessions, SignOut(s) \/ SessionEnds(s)
  PROVE  RowInv' /\ HolderInv' /\ RowsKept
<1>1. /\ token' = token /\ req' = req
      /\ \A t \in Sessions : /\ row'[t].family = row[t].family
                             /\ row'[t].state = "unused" <=> row[t].state = "unused"
      /\ \A f \in Sessions : cookie'[f] # None => cookie'[f] = cookie[f]
  <2>1. CASE SignOut(s)
    BY <2>1 DEF SignOut, TypeOK
  <2>2. CASE SessionEnds(s)
    <3>1. row' = [row EXCEPT ![s] = [row[s] EXCEPT !.state = "over"]]
      BY <2>2 DEF SessionEnds, TypeOK
    <3>2. [row[s] EXCEPT !.state = "over"].family = row[s].family
      BY DEF TypeOK, Row
    <3>3. [row[s] EXCEPT !.state = "over"].state = "over"
      BY DEF TypeOK, Row
    <3>4. QED
      BY <2>2, <3>1, <3>2, <3>3 DEF SessionEnds, TypeOK
  <2>3. QED
    BY <2>1, <2>2
<1>2. RowInv' /\ RowsKept
  BY <1>1, StateHolds
<1>3. QED
  BY <1>1, <1>2 DEF HolderInv, RowsKept, Used

BaseInv == TypeOK /\ RowInv /\ HolderInv

LEMMA InitBase == Init => BaseInv
<1> SUFFICES ASSUME Init PROVE BaseInv
  OBVIOUS
<1>1. RowInv
  BY DEF Init, NoRow, RowInv, Used
<1>2. HolderInv
  BY IdleFields DEF Init, HolderInv, SessionPCs, RefreshPCs, LoginPCs
<1>3. QED
  BY <1>1, <1>2, InitTyped DEF BaseInv

LEMMA BaseStep ==
  ASSUME BaseInv, [Next]_vars
  PROVE  BaseInv' /\ RowsKept
  BY NextTyped, QuietOrLoud, QuietHolds, LoudHolds, RestHolds DEF BaseInv

-----------------------------------------------------------------------------
(* Backup codes: a code of the row was given out, and one that was used is  *)
(* known to have been.                                                      *)

CodesInv ==
    /\ history.shown \subseteq history.issued
    /\ history.spent \subseteq history.issued
    /\ account.codes \subseteq history.issued
    /\ \A r \in Requests : req[r].codes \subseteq history.issued
    /\ CodesMatchShown

\* What the steps that write no code leave, and what requests read.
CodesKept ==
    /\ history'.shown = history.shown /\ history'.issued = history.issued
    /\ history'.spent = history.spent /\ history'.clash = history.clash
    /\ \/ account'.codes = account.codes /\ account'.twoFactor = account.twoFactor
       \/ account'.codes = {} /\ account'.twoFactor = FALSE
    /\ \A r \in Requests :
          req'[r].codes \in {req[r].codes, account.codes, {}}

LEMMA KeptCodes == ASSUME CodesInv, CodesKept PROVE CodesInv'
  BY DEF CodesInv, CodesKept, CodesMatchShown

CallsKept == \A q \in Requests : req'[q].codes \in {req[q].codes, account.codes, {}}

LEMMA CodesOf ==
  ASSUME TypeOK, NEW r \in Requests, NEW c, req' = [req EXCEPT ![r] = c],
         c.codes \in {req[r].codes, account.codes, {}}
  PROVE  CallsKept
  BY DEF CallsKept, TypeOK

LEMMA GotoCodes ==
  ASSUME TypeOK, NEW r \in Requests, NEW pc, Goto(r, pc) PROVE CallsKept
<1>1. [req[r] EXCEPT !.pc = pc].codes = req[r].codes
  BY DEF TypeOK, Call
<1>2. QED
  BY <1>1, CodesOf DEF Goto

LEMMA ReturnCodes == ASSUME TypeOK, NEW r \in Requests, Return(r) PROVE CallsKept
  BY CodesOf, IdleFields DEF Return

LEMMA BeginCodes ==
  ASSUME TypeOK, NEW r \in Requests, NEW operation, NEW call, Begin(r, operation, call),
         call.codes \in {account.codes, {}}
  PROVE  CallsKept
  BY CodesOf DEF Begin

LEMMA BeginsCodes ==
  /\ \A pc : [Idle EXCEPT !.pc = pc].codes = {}
  /\ \A pc, s : [Idle EXCEPT !.pc = pc, !.session = s].codes = {}
  /\ \A pc, l : [Idle EXCEPT !.pc = pc, !.link = l].codes = {}
  /\ \A pc : Reads(pc).codes = account.codes
  BY DEF Idle, Reads

LEMMA StepCalls ==
  ASSUME TypeOK, RowInv, HolderInv, NEW r \in Requests, Step(r)
  PROVE  CallsKept
<1>1. CASE CreateRead(r) \/ RegisterRead(r) \/ ForgotRead(r) \/ ResendRead(r)
           \/ UpdateRead(r) \/ DeactivateRead(r)
  BY <1>1, BeginCodes, BeginsCodes
     DEF CreateRead, RegisterRead, ForgotRead, ResendRead, UpdateRead, DeactivateRead,
         AdministratorReads
<1>2. CASE GoogleRead(r) \/ LoginRead(r)
  BY <1>2, BeginCodes, BeginsCodes DEF GoogleRead, LoginRead
<1>3. CASE Create(r) \/ RegisterCreate(r) \/ GoogleCreate(r)
  BY <1>3, GotoCodes, ReturnCodes DEF Create, RegisterCreate, GoogleCreate, Insert
<1>4. CASE LoginCode(r) \/ RefreshUser(r) \/ RefreshDelete(r) \/ Reply(r)
           \/ LogoutDelete(r) \/ LogoutRevoke(r) \/ ResetSpend(r) \/ VerifySpend(r)
  BY <1>4, GotoCodes, ReturnCodes
     DEF LoginCode, RefreshUser, RefreshDelete, Reply, LogoutDelete, LogoutRevoke,
         ResetSpend, VerifySpend, Spend
<1>5. CASE ChangeRead(r) \/ VerifyWrite(r) \/ DeactivateWrite(r) \/ Setup(r)
           \/ ConfirmRead(r) \/ ConfirmClear(r) \/ DisableRead(r) \/ DisableWrite(r)
  BY <1>5, GotoCodes, ReturnCodes
     DEF ChangeRead, VerifyWrite, DeactivateWrite, Setup, ConfirmRead, ConfirmClear,
         DisableRead, DisableWrite
<1>6. CASE RefreshFind(r) /\ row[req[r].session].state = "live"
  BY <1>6, FindMoves, CodesOf
<1>7. CASE RefreshFind(r) /\ row[req[r].session].state # "live"
  BY <1>7, GotoCodes DEF RefreshFind
<1>8. CASE ResetWrite(r) \/ ChangeWrite(r)
  BY <1>8, WriteMoves, CodesOf DEF ResetWrite, ChangeWrite, PCs
<1>9. CASE ResetSweep(r) \/ ChangeSweep(r)
  BY <1>9, SweptRequests, IdleFields DEF ResetSweep, ChangeSweep, CallsKept
<1>10. CASE Throw(r)
  BY <1>10, ThrowMoves, ReturnCodes, CodesOf
<1>11. QED
  BY <1>1, <1>2, <1>3, <1>4, <1>5, <1>6, <1>7, <1>8, <1>9, <1>10 DEF Step

LEMMA OtherCalls ==
  ASSUME TypeOK, RowInv, HolderInv, NEW r \in Requests,
         \/ \E s \in Sessions : SessionStep(r, s)
         \/ \E l \in Links : LinkStep(r, l)
         \/ \E status \in HandStatuses : UpdateWrite(r, status)
         \/ \E batch \in Batches : ConfirmWrite(r, batch)
  PROVE  CallsKept
<1>1. ASSUME NEW s \in Sessions, SessionStep(r, s) PROVE CallsKept
  <2>1. CASE RefreshBegin(r, s)
    BY <2>1, RefreshMoves, CodesOf
  <2>2. CASE \/ LogoutBegin(r, s) \/ ChangeBegin(r, s) \/ SetupBegin(r, s)
             \/ ConfirmBegin(r, s) \/ DisableBegin(r, s)
    BY <2>2, BeginCodes, BeginsCodes
       DEF LogoutBegin, ChangeBegin, SetupBegin, ConfirmBegin, DisableBegin, TwoFactorBegin
  <2>3. CASE RegisterSession(r, s)
    BY <2>3, ReturnCodes DEF RegisterSession
  <2>4. ASSUME NEW next, NewSession(r, s, next) PROVE CallsKept
    <3>1. [req[r] EXCEPT !.pc = next, !.fresh = s].codes = req[r].codes
      BY DEF TypeOK, Call
    <3>2. QED
      BY <2>4, <3>1, CodesOf DEF NewSession
  <2>5. QED
    BY <1>1, <2>1, <2>2, <2>3, <2>4 DEF SessionStep, LoginSession, RefreshSession
<1>2. ASSUME NEW l \in Links, LinkStep(r, l) PROVE CallsKept
  <2>1. CASE ResetRead(r, l) \/ VerifyRead(r, l)
    BY <2>1, BeginCodes, BeginsCodes DEF ResetRead, VerifyRead
  <2>2. CASE RegisterLink(r, l) \/ ForgotLink(r, l) \/ ResendLink(r, l)
    BY <2>2, GotoCodes DEF RegisterLink, ForgotLink, ResendLink, SendLink
  <2>3. QED
    BY <1>2, <2>1, <2>2 DEF LinkStep
<1>3. QED
  BY <1>1, <1>2, GotoCodes, ReturnCodes DEF UpdateWrite, ConfirmWrite

\* No step but these two writes codes down.
LEMMA NothingWritten ==
  ASSUME TypeOK, RowInv, HolderInv, [Next]_vars,
         \A r \in Requests : /\ ~LoginCode(r)
                             /\ \A batch \in Batches : ~ConfirmWrite(r, batch)
  PROVE  /\ history'.shown = history.shown /\ history'.issued = history.issued
         /\ history'.spent = history.spent /\ history'.clash = history.clash
         /\ \/ account'.codes = account.codes /\ account'.twoFactor = account.twoFactor
            \/ account'.codes = {} /\ account'.twoFactor = FALSE
<1> DEFINE Same == /\ history'.shown = history.shown /\ history'.issued = history.issued
                   /\ history'.spent = history.spent /\ history'.clash = history.clash
           Row2 == \/ /\ account'.codes = account.codes
                      /\ account'.twoFactor = account.twoFactor
                   \/ account'.codes = {} /\ account'.twoFactor = FALSE
           Goal == Same /\ Row2
<1>0. UNCHANGED <<account, history>> => Goal
  OBVIOUS
<1>1. ASSUME NEW r \in Requests, Create(r) \/ RegisterCreate(r) \/ GoogleCreate(r)
      PROVE  Goal
  <2>1. PICK pc, next \in PCs, status \in AccountStatuses, verified \in BOOLEAN :
            Insert(r, pc, next, status, verified)
    BY <1>1 DEF Create, RegisterCreate, GoogleCreate, PCs, AccountStatuses
  <2>2. history' = history
    BY <2>1 DEF Insert
  <2>3. account' = account
           \/ account' = [NoAccount EXCEPT !.status = status, !.verified = verified]
    BY <2>1 DEF Insert
  <2>4. QED
    BY <2>2, <2>3 DEF NoAccount
<1>2. ASSUME NEW r \in Requests,
             \/ VerifyWrite(r) \/ DeactivateWrite(r) \/ DisableWrite(r)
             \/ \E status \in HandStatuses : UpdateWrite(r, status)
      PROVE  Goal
  BY <1>2 DEF VerifyWrite, DeactivateWrite, DisableWrite, UpdateWrite, TypeOK, Account
<1>3. ASSUME NEW r \in Requests, ResetWrite(r) \/ ChangeWrite(r) PROVE Goal
  <2>1. history' = history
    BY <1>3 DEF ResetWrite, ChangeWrite, WritePassword
  <2>2. QED
    BY <1>3, <2>1, WriteMoves DEF ResetWrite, ChangeWrite, PCs
<1>4. ASSUME NEW r \in Requests, LogoutDelete(r) PROVE Goal
  BY <1>4 DEF LogoutDelete, TypeOK, History
<1>6. ASSUME NEW r \in Requests, NEW f \in Sessions, RefreshBegin(r, f) PROVE Goal
  BY <1>6 DEF RefreshBegin, TypeOK, History
<1>7. ASSUME NEW r \in Requests, ResetSweep(r) \/ ChangeSweep(r) PROVE Goal
  BY <1>7 DEF ResetSweep, ChangeSweep, Sweep, TypeOK, History
<1>8. ASSUME NEW r \in Requests, Throw(r) PROVE Goal
  BY <1>8 DEF Throw, TypeOK, History
<1>9. ASSUME NEW s \in Sessions, SessionEnds(s) PROVE Goal
  BY <1>9 DEF SessionEnds, TypeOK, History
<1>10. ASSUME NEW r \in Requests,
              \/ CreateRead(r) \/ RegisterRead(r) \/ ForgotRead(r) \/ ResendRead(r)
              \/ UpdateRead(r) \/ DeactivateRead(r) \/ GoogleRead(r) \/ LoginRead(r)
              \/ RefreshFind(r) \/ RefreshUser(r) \/ RefreshDelete(r) \/ Reply(r)
              \/ LogoutRevoke(r) \/ ResetSpend(r) \/ VerifySpend(r) \/ ChangeRead(r)
              \/ Setup(r) \/ ConfirmRead(r) \/ ConfirmClear(r) \/ DisableRead(r)
       PROVE  UNCHANGED <<account, history>>
  BY <1>10
     DEF CreateRead, RegisterRead, ForgotRead, ResendRead, UpdateRead, DeactivateRead,
         AdministratorReads, GoogleRead, LoginRead, RefreshFind, RefreshUser,
         RefreshDelete, Reply, LogoutRevoke, ResetSpend, VerifySpend, Spend, ChangeRead,
         Setup, ConfirmRead, ConfirmClear, DisableRead
<1>11. ASSUME NEW r \in Requests, NEW s \in Sessions, SessionStep(r, s), ~RefreshBegin(r, s)
       PROVE  UNCHANGED <<account, history>>
  BY <1>11
     DEF SessionStep, RegisterSession, LoginSession, RefreshSession, NewSession,
         LogoutBegin, ChangeBegin, SetupBegin, ConfirmBegin, DisableBegin, TwoFactorBegin
<1>12. ASSUME NEW r \in Requests, NEW l \in Links, LinkStep(r, l)
       PROVE  UNCHANGED <<account, history>>
  BY <1>12
     DEF LinkStep, ResetRead, VerifyRead, RegisterLink, ForgotLink, ResendLink, SendLink
<1>13. ASSUME \/ UNCHANGED vars \/ SetupEnds \/ (\E l \in Links : EntryEnds(l))
              \/ \E s \in Sessions : SignOut(s) \/ TokenAges(s)
       PROVE  Goal
  BY <1>13 DEF vars, SetupEnds, EntryEnds, SignOut, TokenAges
<1> HIDE DEF Goal
<1>14. ASSUME NEW r \in Requests, Step(r) PROVE Goal
  BY <1>14, <1>0, <1>1, <1>2, <1>3, <1>4, <1>7, <1>8, <1>10 DEF Step
<1>15. ASSUME NEW r \in Requests, NEW s \in Sessions, SessionStep(r, s) PROVE Goal
  BY <1>15, <1>0, <1>6, <1>11
<1>16. ASSUME NEW r \in Requests, NEW l \in Links, LinkStep(r, l) PROVE Goal
  BY <1>16, <1>0, <1>12
<1>17. Goal
  BY <1>2, <1>9, <1>13, <1>14, <1>15, <1>16 DEF Next
<1>18. QED
  BY <1>17 DEF Goal

LEMMA CodesStep ==
  ASSUME BaseInv, CodesInv, [Next]_vars
  PROVE  CodesInv'
<1> USE DEF BaseInv
<1>1. ASSUME NEW r \in Requests, LoginCode(r) PROVE CodesInv'
  <2>1. CallsKept
    BY <1>1, StepCalls DEF Step
  <2>2. CASE UNCHANGED <<account, history>>
    BY <2>1, <2>2, KeptCodes DEF CodesKept, CallsKept
  <2>3. ASSUME NEW c \in req[r].codes,
               account' = [account EXCEPT !.codes = req[r].codes \ {c}],
               history' = [history EXCEPT !.spent = @ \cup {c},
                              !.clash = @ \/ account.codes # req[r].codes]
        PROVE  CodesInv'
    <3>1. /\ account'.codes = req[r].codes \ {c}
          /\ account'.twoFactor = account.twoFactor
      BY <2>3 DEF TypeOK, Account
    <3>2. /\ history'.shown = history.shown /\ history'.issued = history.issued
          /\ history'.spent = history.spent \cup {c}
          /\ history'.clash = (history.clash \/ account.codes # req[r].codes)
      BY <2>3 DEF TypeOK, History
    <3>3. CodesMatchShown'
      BY <3>1, <3>2 DEF CodesInv, CodesMatchShown
    <3>4. QED
      BY <2>1, <3>1, <3>2, <3>3 DEF CodesInv, CallsKept
  <2>4. QED
    BY <1>1, <2>2, <2>3 DEF LoginCode
<1>2. ASSUME NEW r \in Requests, NEW batch \in Batches, ConfirmWrite(r, batch)
      PROVE  CodesInv'
  <2>1. CallsKept
    BY <1>2, OtherCalls
  <2>2. /\ account'.codes = batch /\ account'.twoFactor = TRUE
        /\ history'.shown = batch /\ history'.issued = history.issued \cup batch
        /\ history'.spent = history.spent /\ history'.clash = history.clash
    BY <1>2 DEF ConfirmWrite, TypeOK, Account, History
  <2>3. batch \cap history.issued = {}
    BY <1>2 DEF ConfirmWrite
  <2>4. CodesMatchShown'
    BY <2>2, <2>3 DEF CodesInv, CodesMatchShown
  <2>5. QED
    BY <2>1, <2>2, <2>4 DEF CodesInv, CallsKept
<1>3. CallsKept
  <2>1. CASE \/ UNCHANGED vars \/ SetupEnds \/ (\E l \in Links : EntryEnds(l))
             \/ \E s \in Sessions : SignOut(s) \/ TokenAges(s) \/ SessionEnds(s)
    BY <2>1 DEF vars, SetupEnds, EntryEnds, SignOut, TokenAges, SessionEnds, CallsKept
  <2>2. QED
    BY <2>1, StepCalls, OtherCalls DEF Next
<1>4. CASE \A r \in Requests : /\ ~LoginCode(r)
                               /\ \A batch \in Batches : ~ConfirmWrite(r, batch)
  BY <1>3, <1>4, NothingWritten, KeptCodes DEF CodesKept, CallsKept
<1>5. QED
  BY <1>1, <1>2, <1>4

-----------------------------------------------------------------------------
(* Passwords: an older one is in use only until the request that wrote the  *)
(* present one has deleted the sessions, or by a session opened meanwhile.  *)

Awaited ==
    \/ history.unfinished
    \/ \E r \in Requests :
          req[r].pc \in PendingPCs /\ req[r].password = account.password

OldRows ==
    \A s \in Sessions :
        row[s].state = "live" /\ row[s].password < account.password
        => row[s].late \/ Awaited

OldCalls ==
    \A r \in Requests :
        req[r].pc \in OpeningPCs /\ req[r].password < account.password
        => req[r].late \/ Awaited

OldInv == OldRows /\ OldCalls

\* A request moves, and the rows are no older for it.
LEMMA OldMoves ==
  ASSUME TypeOK, OldInv, NEW r \in Requests, NEW c \in Call,
         req' = [req EXCEPT ![r] = c],
         account'.password = account.password,
         history.unfinished => history'.unfinished,
         \/ req[r].pc \notin PendingPCs
         \/ history'.unfinished
         \/ c.pc \in PendingPCs /\ c.password = req[r].password,
         \A s \in Sessions :
            row'[s].state = "live" /\ row'[s].password < account.password
            => row'[s].late \/ Awaited,
         c.pc \in OpeningPCs /\ c.password < account.password => c.late \/ Awaited
  PROVE  OldInv'
<1>1. Awaited => Awaited'
  <2>1. CASE history.unfinished \/ history'.unfinished
    BY <2>1 DEF Awaited
  <2>2. ASSUME NEW q \in Requests, req[q].pc \in PendingPCs,
               req[q].password = account.password, ~history'.unfinished
        PROVE  Awaited'
    <3>1. req'[q] = IF q = r THEN c ELSE req[q]
      BY DEF TypeOK
    <3>2. req'[q].pc \in PendingPCs /\ req'[q].password = account'.password
      BY <2>2, <3>1
    <3>3. QED
      BY <3>2 DEF Awaited
  <2>3. QED
    BY <2>1, <2>2 DEF Awaited
<1>2. OldRows'
  BY <1>1 DEF OldRows
<1>3. ASSUME NEW q \in Requests, req'[q].pc \in OpeningPCs,
             req'[q].password < account'.password
      PROVE  req'[q].late \/ Awaited'
  <2>1. req'[q] = IF q = r THEN c ELSE req[q]
    BY DEF TypeOK
  <2>2. QED
    BY <1>1, <1>3, <2>1 DEF OldInv, OldCalls
<1>4. QED
  BY <1>2, <1>3 DEF OldInv, OldCalls

LEMMA OldStays ==
  ASSUME OldInv, req' = req, account'.password = account.password,
         history'.unfinished = history.unfinished,
         \A s \in Sessions : row'[s].state = "live" => row'[s] = row[s]
  PROVE  OldInv'
<1>1. Awaited <=> Awaited'
  BY DEF Awaited
<1>2. QED
  BY <1>1 DEF OldInv, OldRows, OldCalls

LEMMA OldQuiet ==
  ASSUME TypeOK, TypeOK', OldInv, Quiet
  PROVE  OldInv'
<1>1. CASE account'.password = 0
  <2>1. /\ \A s \in Sessions : ~(row'[s].password < 0)
        /\ \A r \in Requests : ~(req'[r].password < 0)
    BY MaxPasswordsAssumption DEF TypeOK, Row, Call
  <2>2. QED
    BY <1>1, <2>1 DEF OldInv, OldRows, OldCalls
<1>2. CASE account'.password = account.password /\ UNCHANGED req
  BY <1>2, OldStays DEF Quiet
<1>3. ASSUME account'.password = account.password,
             NEW r \in Requests, NEW c \in Call, Turns(r, c)
      PROVE  OldInv'
  <2>1. \A s \in Sessions :
            row'[s].state = "live" /\ row'[s].password < account.password
            => row'[s].late \/ Awaited
    BY DEF Quiet, OldInv, OldRows
  <2>2. c.password \in Nat /\ account.password \in Nat
    BY MaxPasswordsAssumption DEF TypeOK, Call, Account
  <2>3. c.pc \in OpeningPCs /\ c.password < account.password => c.late \/ Awaited
    BY <1>3, <2>2 DEF Turns, OldInv, OldCalls
  <2>4. req[r].pc \notin PendingPCs
    BY <1>3 DEF Turns, SensitivePCs
  <2>5. QED
    BY <1>3, <2>1, <2>3, <2>4, OldMoves DEF Turns, Quiet
<1>4. QED
  BY <1>1, <1>2, <1>3 DEF Quiet

LEMMA OldSweep ==
  ASSUME TypeOK, OldInv, NEW r \in Requests, NEW pc \in PendingPCs, NEW kept,
         Sweep(r, pc, kept)
  PROVE  OldInv'
<1>1. account' = account /\ history'.unfinished = history.unfinished
  BY DEF Sweep, TypeOK, History
<1>2. ASSUME history.unfinished \/ \E q \in Requests \ {r} :
                 req[q].pc \in PendingPCs /\ req[q].password = account.password
      PROVE  Awaited'
  <2>1. CASE history.unfinished
    BY <1>1, <2>1 DEF Awaited
  <2>2. ASSUME NEW q \in Requests \ {r}, req[q].pc \in PendingPCs,
               req[q].password = account.password
        PROVE  Awaited'
    <3>1. req[q] # Idle
      BY <2>2, IdleFields DEF PendingPCs
    <3>2. req'[q].pc = req[q].pc /\ req'[q].password = req[q].password
      BY <3>1, SweptRequests
    <3>3. QED
      BY <1>1, <2>2, <3>2 DEF Awaited
  <2>3. QED
    BY <1>2, <2>1, <2>2
<1>3. ASSUME NEW s \in Sessions, row'[s].state = "live",
             row'[s].password < account'.password
      PROVE  row'[s].late \/ Awaited'
  <2>1. /\ s = kept /\ row[s].state = "live" /\ row'[s].late = row[s].late
        /\ row'[s].password = IF row[s].password < req[r].password
                              THEN req[r].password ELSE row[s].password
    BY <1>3, SweptRows
  <2>2. /\ row[s].password \in Nat /\ req[r].password \in Nat /\ account.password \in Nat
    BY MaxPasswordsAssumption DEF TypeOK, Row, Call, Account
  <2>3. row[s].password < account.password /\ req[r].password # account.password
    BY <1>1, <1>3, <2>1, <2>2
  <2>4. row[s].late \/ Awaited
    BY <2>1, <2>3 DEF OldInv, OldRows
  <2>5. QED
    BY <1>2, <2>1, <2>3, <2>4 DEF Awaited
<1>4. ASSUME NEW q \in Requests, req'[q].pc \in OpeningPCs
      PROVE  req'[q].late \/ Awaited'
  BY <1>4, SweptRequests, IdleFields DEF OpeningPCs
<1>5. QED
  BY <1>3, <1>4 DEF OldInv, OldRows, OldCalls

\* The common case: the request goes on, or ends, and no row is added.
LEMMA OldGoto ==
  ASSUME TypeOK, OldInv, NEW r \in Requests, NEW pc \in PCs, Goto(r, pc) \/ Return(r),
         account' = account, history'.unfinished = history.unfinished,
         req[r].pc \in PendingPCs => Goto(r, pc) /\ pc \in PendingPCs,
         pc \in OpeningPCs => req[r].pc \in OpeningPCs,
         \A s \in Sessions : row'[s].state = "live" => row'[s] = row[s]
  PROVE  OldInv'
<1>1. \A s \in Sessions :
          row'[s].state = "live" /\ row'[s].password < account.password
          => row'[s].late \/ Awaited
  BY DEF OldInv, OldRows
<1>2. CASE Goto(r, pc)
  <2> DEFINE c == [req[r] EXCEPT !.pc = pc]
  <2>1. /\ c \in Call /\ c.pc = pc /\ c.password = req[r].password
        /\ c.late = req[r].late /\ req' = [req EXCEPT ![r] = c]
    BY <1>2 DEF TypeOK, Call, Goto
  <2> HIDE DEF c
  <2>2. c.pc \in OpeningPCs /\ c.password < account.password => c.late \/ Awaited
    BY <2>1 DEF OldInv, OldCalls
  <2>3. QED
    BY <1>1, <2>1, <2>2, OldMoves
<1>3. CASE Return(r) /\ req[r].pc \notin PendingPCs
  <2>1. Idle \in Call /\ Idle.pc \notin OpeningPCs /\ req' = [req EXCEPT ![r] = Idle]
    BY <1>3, IdleTyped, IdleFields DEF Return, OpeningPCs
  <2>2. QED
    BY <1>1, <1>3, <2>1, OldMoves
<1>4. QED
  BY <1>2, <1>3

LEMMA DeletedRows ==
  ASSUME TypeOK, NEW s, row' = [row EXCEPT ![s].state = Deleted(s)]
  PROVE  /\ \A t \in Sessions : row'[t].state = "live" => row'[t] = row[t]
         /\ \A t \in Sessions \ {s} : row'[t] = row[t]
<1>1. \A t \in Sessions \ {s} : row'[t] = row[t]
  BY DEF TypeOK
<1>2. ASSUME s \in Sessions PROVE row'[s].state # "live"
  <2>1. row'[s] = [row[s] EXCEPT !.state = Deleted(s)]
    BY <1>2 DEF TypeOK
  <2>2. QED
    BY <1>2, <2>1 DEF Deleted, TypeOK, Row
<1>3. QED
  BY <1>1, <1>2

\* The row that is added is the only one that differs.
LEMMA AddedRow ==
  ASSUME TypeOK, NEW r \in Requests, NEW s \in Sessions,
         RegisterSession(r, s) \/ \E next : NewSession(r, s, next)
  PROVE  /\ row[s].state = "unused" /\ row'[s].state = "live"
         /\ row'[s].password = req[r].password /\ row'[s].late = req[r].late
         /\ \A t \in Sessions \ {s} : row'[t] = row[t]
<1>1. PICK family : /\ row[s].state = "unused"
                    /\ row' = [row EXCEPT ![s] =
                                [state |-> "live", family |-> family,
                                 password |-> req[r].password, late |-> req[r].late]]
  BY DEF RegisterSession, NewSession
<1>2. row'[s] = [state |-> "live", family |-> family,
                 password |-> req[r].password, late |-> req[r].late]
  BY <1>1 DEF TypeOK
<1>3. QED
  BY <1>1, <1>2 DEF TypeOK

LEMMA NewMoves ==
  ASSUME TypeOK, NEW r \in Requests, NEW s \in Sessions, NEW next \in PCs,
         NewSession(r, s, next)
  PROVE  \E c \in Call : /\ req' = [req EXCEPT ![r] = c]
                         /\ c.pc = next /\ c.session = req[r].session /\ c.fresh = s
<1> DEFINE c == [req[r] EXCEPT !.pc = next, !.fresh = s]
<1>1. c \in Call
  BY DEF TypeOK, Call
<1>2. c.pc = next /\ c.session = req[r].session /\ c.fresh = s
  BY DEF TypeOK, Call
<1>3. req' = [req EXCEPT ![r] = c]
  BY DEF NewSession
<1>4. QED
  BY <1>1, <1>2, <1>3

LEMMA OldLoud ==
  ASSUME BaseInv, OldInv, NEW r \in Requests, Loud(r)
  PROVE  OldInv'
<1> DEFINE s == req[r].session
<1> USE DEF BaseInv
<1>a. ASSUME row' = row
      PROVE  /\ \A t \in Sessions : row'[t].state = "live" => row'[t] = row[t]
             /\ \A t \in Sessions :
                   row'[t].state = "live" /\ row'[t].password < account.password
                   => row'[t].late \/ Awaited
  BY <1>a DEF OldInv, OldRows
<1>1. CASE RefreshFind(r) /\ row[s].state = "live"
  <2>1. PICK c \in Call : /\ req' = [req EXCEPT ![r] = c]
                          /\ c.pc = "refresh_user"
                          /\ c.password = row[s].password /\ c.late = row[s].late
    BY <1>1, FindMoves
  <2>2. /\ s \in Sessions /\ req[r].pc \notin PendingPCs
        /\ row' = row /\ account' = account /\ history' = history
    BY <1>1 DEF RefreshFind, HolderInv, SessionPCs, RefreshPCs, PendingPCs, Used
  <2>3. c.password < account.password => c.late \/ Awaited
    BY <1>1, <2>1, <2>2 DEF OldInv, OldRows
  <2>4. QED
    BY <1>a, <2>1, <2>2, <2>3, OldMoves
<1>2. CASE (RefreshFind(r) /\ row[s].state # "live") \/ RefreshUser(r) \/ ResetSpend(r)
           \/ Reply(r)
  <2>1. row' = row /\ account' = account /\ history' = history
    BY <1>2 DEF RefreshFind, RefreshUser, ResetSpend, Spend, Reply
  <2>2. QED
    BY <1>2, <1>a, <2>1, OldGoto
       DEF RefreshFind, RefreshUser, ResetSpend, Spend, Reply, PendingPCs, OpeningPCs, PCs
<1>3. CASE RefreshDelete(r) \/ LogoutDelete(r)
  <2>1. /\ row' = [row EXCEPT ![s].state = Deleted(s)]
        /\ account' = account /\ history'.unfinished = history.unfinished
    BY <1>3 DEF RefreshDelete, LogoutDelete, TypeOK, History
  <2>2. QED
    BY <1>3, <2>1, DeletedRows, OldGoto
       DEF RefreshDelete, LogoutDelete, PendingPCs, OpeningPCs, PCs
<1>4. ASSUME NEW pc, NEW next \in {"reset_spend", "change_sweep"},
             WritePassword(r, pc, next)
      PROVE  OldInv'
  <2>1. PICK c \in Call : /\ req' = [req EXCEPT ![r] = c]
                          /\ c.pc = next /\ c.password = account'.password
    BY <1>4, WriteMoves DEF PCs
  <2>2. req'[r] = c
    BY <2>1 DEF TypeOK
  <2>3. Awaited'
    BY <2>1, <2>2 DEF Awaited, PendingPCs
  <2>4. QED
    BY <2>3 DEF OldInv, OldRows, OldCalls
<1>5. CASE ResetSweep(r) \/ ChangeSweep(r)
  BY <1>5, OldSweep DEF ResetSweep, ChangeSweep, PendingPCs
<1>6. CASE Throw(r)
  <2>1. /\ row' = row /\ account' = account
        /\ history.unfinished => history'.unfinished
        /\ req[r].pc \in PendingPCs => history'.unfinished
    BY <1>6 DEF Throw, TypeOK, History, PendingPCs
  <2>2. CASE Return(r)
    <3>1. Idle \in Call /\ Idle.pc \notin OpeningPCs /\ req' = [req EXCEPT ![r] = Idle]
      BY <2>2, IdleTyped, IdleFields DEF Return, OpeningPCs
    <3>2. QED
      BY <1>a, <2>1, <3>1, OldMoves
  <2>3. ASSUME NEW c \in Call, req' = [req EXCEPT ![r] = c], c.pc = "reply"
        PROVE  OldInv'
    BY <1>a, <2>1, <2>3, OldMoves DEF OpeningPCs
  <2>4. QED
    BY <1>6, <2>2, <2>3, ThrowMoves
<1>7. ASSUME NEW u \in Sessions,
             RegisterSession(r, u) \/ LoginSession(r, u) \/ RefreshSession(r, u)
      PROVE  OldInv'
  <2>1. /\ req[r].pc \in OpeningPCs /\ req[r].pc \notin PendingPCs
        /\ account' = account /\ history' = history
    BY <1>7 DEF RegisterSession, LoginSession, RefreshSession, NewSession, OpeningPCs,
           PendingPCs
  <2>2. /\ row'[u].password = req[r].password /\ row'[u].late = req[r].late
        /\ \A t \in Sessions \ {u} : row'[t] = row[t]
    BY <1>7, AddedRow DEF LoginSession, RefreshSession
  <2>3. \A t \in Sessions :
            row'[t].state = "live" /\ row'[t].password < account.password
            => row'[t].late \/ Awaited
    BY <2>1, <2>2 DEF OldInv, OldRows, OldCalls
  <2>4. \E c \in Call : req' = [req EXCEPT ![r] = c] /\ c.pc \notin OpeningPCs
    <3>1. CASE RegisterSession(r, u)
      BY <3>1, IdleTyped, IdleFields DEF RegisterSession, Return, OpeningPCs
    <3>2. CASE LoginSession(r, u) \/ RefreshSession(r, u)
      BY <3>2, NewMoves DEF LoginSession, RefreshSession, OpeningPCs, PCs
    <3>3. QED
      BY <1>7, <3>1, <3>2
  <2>5. QED
    BY <2>1, <2>3, <2>4, OldMoves
<1>8. ASSUME NEW f \in Sessions, RefreshBegin(r, f) PROVE OldInv'
  <2>1. /\ row' = row /\ account' = account /\ history'.unfinished = history.unfinished
    BY <1>8 DEF RefreshBegin, TypeOK, History
  <2>2. PICK c \in Call : /\ req[r] = Idle /\ req' = [req EXCEPT ![r] = c]
                          /\ c.pc = "refresh_find"
    BY <1>8, RefreshMoves
  <2>3. QED
    BY <1>a, <2>1, <2>2, OldMoves, IdleFields DEF PendingPCs, OpeningPCs
<1>9. QED
  BY <1>1, <1>2, <1>3, <1>4, <1>5, <1>6, <1>7, <1>8 DEF Loud, ResetWrite, ChangeWrite

LEMMA OldStep ==
  ASSUME BaseInv, BaseInv', OldInv, [Next]_vars
  PROVE  OldInv'
<1>1. ASSUME NEW s \in Sessions, SignOut(s) \/ SessionEnds(s) PROVE OldInv'
  <2>1. /\ req' = req /\ account' = account /\ history'.unfinished = history.unfinished
    BY <1>1 DEF SignOut, SessionEnds, BaseInv, TypeOK, History
  <2>2. \A t \in Sessions : row'[t].state = "live" => row'[t] = row[t]
    <3>1. CASE SessionEnds(s)
      <4>1. row'[s] = [row[s] EXCEPT !.state = "over"]
        BY <3>1 DEF SessionEnds, BaseInv, TypeOK
      <4>2. row'[s].state = "over"
        BY <4>1 DEF BaseInv, TypeOK, Row
      <4>3. \A t \in Sessions \ {s} : row'[t] = row[t]
        BY <3>1 DEF SessionEnds, BaseInv, TypeOK
      <4>4. QED
        BY <4>2, <4>3
    <3>2. QED
      BY <1>1, <3>1 DEF SignOut
  <2>3. QED
    BY <2>1, <2>2, OldStays
<1>2. QED
  BY <1>1, QuietOrLoud, OldQuiet, OldLoud DEF BaseInv

-----------------------------------------------------------------------------
(* Families: one of the sessions of a family is not about to be deleted.    *)

Stays(t) ==
    /\ row[t].state = "live"
    /\ \A q \in Requests : req[q].pc = "refresh_delete" => req[q].session # t

FamilyInv ==
    \A s \in Sessions :
        Used(s) =>
           /\ Used(row[s].family)
           /\ row[s].family \notin history.ended =>
                 \E t \in Sessions : Stays(t) /\ row[t].family = row[s].family

\* What is kept by the steps that add no row.
LEMMA FamilyMoves ==
  ASSUME FamilyInv, history.ended \subseteq history'.ended,
         \A s \in Sessions : /\ row'[s].state = "unused" <=> row[s].state = "unused"
                             /\ row'[s].family = row[s].family,
         \A t \in Sessions :
            Stays(t) /\ row[t].family \notin history'.ended => row'[t].state = "live",
         \A q \in Requests :
            req'[q].pc = "refresh_delete"
            => req[q].pc = "refresh_delete" /\ req'[q].session = req[q].session
  PROVE  FamilyInv'
<1> SUFFICES ASSUME NEW s \in Sessions, Used(s)'
             PROVE  /\ Used(row[s].family)'
                    /\ row'[s].family \notin history'.ended =>
                          \E t \in Sessions : Stays(t)' /\ row'[t].family = row'[s].family
  BY DEF FamilyInv
<1>1. Used(s) /\ Used(row[s].family)' /\ row'[s].family = row[s].family
  BY DEF FamilyInv, Used
<1>2. ASSUME row'[s].family \notin history'.ended
      PROVE  \E t \in Sessions : Stays(t)' /\ row'[t].family = row'[s].family
  <2>1. PICK t \in Sessions : Stays(t) /\ row[t].family = row[s].family
    BY <1>1, <1>2 DEF FamilyInv
  <2>2. Stays(t)'
    BY <1>1, <1>2, <2>1 DEF Stays
  <2>3. QED
    BY <1>1, <2>1, <2>2
<1>3. QED
  BY <1>1, <1>2

\* The steps that add a row: it is live, and begins or continues a family.
LEMMA FamilyGrows ==
  ASSUME BaseInv, FamilyInv, NEW s \in Sessions, history' = history,
         row[s].state = "unused", row'[s].state = "live",
         \A t \in Sessions \ {s} : row'[t] = row[t],
         row'[s].family = s \/ \E t \in Sessions : Used(t) /\ row'[s].family = row[t].family,
         \A q \in Requests :
            req'[q].pc = "refresh_delete" =>
               /\ req'[q].session # s
               /\ \/ req[q].pc = "refresh_delete" /\ req'[q].session = req[q].session
                  \/ /\ Used(req'[q].session)
                     /\ row'[s].family = row[req'[q].session].family
  PROVE  FamilyInv'
<1>1. Stays(s)'
  BY DEF Stays
<1>2. ASSUME NEW u \in Sessions, Used(u)
      PROVE  /\ Used(row[u].family)'
             /\ row'[u].family \notin history'.ended =>
                   \E t \in Sessions : Stays(t)' /\ row'[t].family = row'[u].family
  <2>1. u # s /\ row'[u] = row[u] /\ Used(row[u].family)
    BY <1>2 DEF FamilyInv, Used
  <2>2. Used(row[u].family)'
    BY <2>1 DEF Used
  <2>3. CASE row[u].family = row'[s].family
    BY <1>1, <2>1, <2>2, <2>3
  <2>4. ASSUME row[u].family # row'[s].family, row[u].family \notin history.ended
        PROVE  \E t \in Sessions : Stays(t)' /\ row'[t].family = row'[u].family
    <3>1. PICK t \in Sessions : Stays(t) /\ row[t].family = row[u].family
      BY <1>2, <2>4 DEF FamilyInv
    <3>2. t # s /\ row'[t] = row[t]
      BY <3>1 DEF Stays
    <3>3. Stays(t)'
      BY <2>4, <3>1, <3>2 DEF Stays
    <3>4. QED
      BY <2>1, <3>1, <3>2, <3>3
  <2>5. QED
    BY <2>1, <2>2, <2>3, <2>4
<1>3. Used(row[s].family)'
  BY <1>2 DEF Used
<1>4. QED
  BY <1>1, <1>2, <1>3 DEF FamilyInv, Used

\* The requests that are about to delete a row, after the quiet moves.
LEMMA SameDeletes ==
  ASSUME TypeOK, NEW r \in Requests, NEW c, req' = [req EXCEPT ![r] = c],
         c.pc = "refresh_delete" => /\ req[r].pc = "refresh_delete"
                                    /\ c.session = req[r].session
  PROVE  \A q \in Requests :
            req'[q].pc = "refresh_delete"
            => req[q].pc = "refresh_delete" /\ req'[q].session = req[q].session
  BY DEF TypeOK

LEMMA FamilyRows ==
  ASSUME row' = row
  PROVE  /\ \A s \in Sessions : /\ row'[s].state = "unused" <=> row[s].state = "unused"
                                /\ row'[s].family = row[s].family
         /\ \A t \in Sessions : Stays(t) => row'[t].state = "live"
  BY DEF Stays

LEMMA FamilyQuiet == ASSUME BaseInv, FamilyInv, Quiet PROVE FamilyInv'
<1>1. row' = row /\ history'.ended = history.ended
  BY DEF Quiet
<1>2. \A q \in Requests :
          req'[q].pc = "refresh_delete"
          => req[q].pc = "refresh_delete" /\ req'[q].session = req[q].session
  <2>1. ASSUME NEW r \in Requests, NEW c \in Call, Turns(r, c)
        PROVE  \A q \in Requests :
                  req'[q].pc = "refresh_delete"
                  => req[q].pc = "refresh_delete" /\ req'[q].session = req[q].session
    BY <2>1, SameDeletes DEF Turns, SensitivePCs, RefreshPCs, BaseInv
  <2>2. QED
    BY <2>1 DEF Quiet
<1>3. QED
  BY <1>1, <1>2, FamilyRows, FamilyMoves

LEMMA GotoDeletes ==
  ASSUME TypeOK, NEW r \in Requests, NEW pc, Goto(r, pc) \/ Return(r),
         pc # "refresh_delete"
  PROVE  \A q \in Requests :
            req'[q].pc = "refresh_delete"
            => req[q].pc = "refresh_delete" /\ req'[q].session = req[q].session
<1>1. CASE Goto(r, pc)
  <2> DEFINE c == [req[r] EXCEPT !.pc = pc]
  <2>1. c.pc = pc /\ req' = [req EXCEPT ![r] = c]
    BY <1>1 DEF TypeOK, Call, Goto
  <2> HIDE DEF c
  <2>2. QED
    BY <2>1, SameDeletes
<1>2. CASE Return(r)
  <2>1. Idle.pc # "refresh_delete"
    BY IdleFields
  <2>2. QED
    BY <1>2, <2>1, SameDeletes DEF Return
<1>3. QED
  BY <1>1, <1>2

LEMMA FamilyLoud ==
  ASSUME BaseInv, FamilyInv, NEW r \in Requests, Loud(r)
  PROVE  FamilyInv'
<1> DEFINE s == req[r].session
           Deletes == \A q \in Requests :
                         req'[q].pc = "refresh_delete"
                         => req[q].pc = "refresh_delete" /\ req'[q].session = req[q].session
<1> USE DEF BaseInv
<1>0. ASSUME row' = row, history'.ended = history.ended, Deletes PROVE FamilyInv'
  BY <1>0, FamilyRows, FamilyMoves
<1>1. ASSUME NEW c \in Call, req' = [req EXCEPT ![r] = c], c.pc # "refresh_delete"
      PROVE  Deletes
  BY <1>1, SameDeletes
<1>2. CASE RefreshFind(r)
  <2>1. row' = row /\ history' = history
    BY <1>2 DEF RefreshFind
  <2>2. Deletes
    <3>1. CASE row[s].state = "live"
      BY <1>1, <1>2, <3>1, FindMoves
    <3>2. CASE row[s].state # "live"
      BY <1>2, <3>2, GotoDeletes DEF RefreshFind
    <3>3. QED
      BY <3>1, <3>2
  <2>3. QED
    BY <1>0, <2>1, <2>2
<1>3. CASE RefreshUser(r) \/ ResetSpend(r) \/ Reply(r)
  <2>1. row' = row /\ history' = history
    BY <1>3 DEF RefreshUser, ResetSpend, Spend, Reply
  <2>2. Deletes
    BY <1>3, GotoDeletes DEF RefreshUser, ResetSpend, Spend, Reply
  <2>3. QED
    BY <1>0, <2>1, <2>2
<1>4. CASE RefreshDelete(r) \/ LogoutDelete(r)
  <2>1. row' = [row EXCEPT ![s].state = Deleted(s)]
    BY <1>4 DEF RefreshDelete, LogoutDelete
  <2>2. /\ history.ended \subseteq history'.ended
        /\ RefreshDelete(r) \/ row[s].family \in history'.ended
    BY <1>4 DEF RefreshDelete, LogoutDelete, TypeOK, History
  <2>3. Deletes
    BY <1>4, GotoDeletes DEF RefreshDelete, LogoutDelete
  <2>4. ASSUME NEW t \in Sessions, Stays(t), row[t].family \notin history'.ended
        PROVE  row'[t].state = "live"
    <3>1. t # s
      BY <2>2, <2>4 DEF Stays, RefreshDelete
    <3>2. QED
      BY <2>1, <2>4, <3>1, DeletedRows DEF Stays
  <2>5. QED
    BY <2>1, <2>2, <2>3, <2>4, FamiliesStay, FamilyMoves
<1>5. ASSUME NEW pc, NEW next \in {"reset_spend", "change_sweep"},
             WritePassword(r, pc, next)
      PROVE  FamilyInv'
  <2>1. row' = row /\ history' = history
    BY <1>5 DEF WritePassword
  <2>2. Deletes
    BY <1>1, <1>5, WriteMoves DEF PCs
  <2>3. QED
    BY <1>0, <2>1, <2>2
<1>6. ASSUME NEW pc, NEW kept, Sweep(r, pc, kept) PROVE FamilyInv'
  <2>1. /\ history.ended \subseteq history'.ended
        /\ \A t \in Sessions \ {kept} :
              row[t].state = "live" => row[t].family \in history'.ended
    BY <1>6 DEF Sweep, TypeOK, History
  <2>2. Deletes
    BY <1>6, SweptRequests, IdleFields
  <2>3. QED
    BY <1>6, <2>1, <2>2, SweptRows, FamilyMoves DEF Stays
<1>7. CASE Throw(r)
  <2>1. row' = row /\ history'.ended = history.ended
    BY <1>7 DEF Throw, TypeOK, History
  <2>2. Deletes
    BY <1>1, <1>7, ThrowMoves, GotoDeletes
  <2>3. QED
    BY <1>0, <2>1, <2>2
<1>8. ASSUME NEW u \in Sessions, RegisterSession(r, u) PROVE FamilyInv'
  <2>1. /\ row'[u].family = u /\ history' = history
    BY <1>8 DEF RegisterSession, TypeOK
  <2>2. Deletes
    BY <1>8, GotoDeletes DEF RegisterSession
  <2>3. \A q \in Requests : req[q].pc = "refresh_delete" => req[q].session # u
    BY <1>8, NoneAssumption DEF RegisterSession, HolderInv, SessionPCs, RefreshPCs, Used
  <2>4. QED
    BY <1>8, <2>1, <2>2, <2>3, AddedRow, FamilyGrows
<1>9. ASSUME NEW u \in Sessions, LoginSession(r, u) \/ RefreshSession(r, u)
      PROVE  FamilyInv'
  <2>1. PICK next \in {"reply", "refresh_delete"} :
            /\ NewSession(r, u, next)
            /\ next = "refresh_delete" => req[r].pc = "refresh_session"
    BY <1>9 DEF LoginSession, RefreshSession
  <2>2. /\ history' = history
        /\ row'[u].family = IF s = None THEN u ELSE row[s].family
        /\ s # None => Used(s)
        /\ next = "refresh_delete" => s # None
    BY <2>1 DEF NewSession, TypeOK, HolderInv, SessionPCs, RefreshPCs
  <2>3. PICK c \in Call : /\ req' = [req EXCEPT ![r] = c]
                          /\ c.pc = next /\ c.session = s
    BY <2>1, NewMoves DEF PCs
  <2>4. row[u].state = "unused"
    BY <2>1, AddedRow
  <2>5. ASSUME NEW q \in Requests, req'[q].pc = "refresh_delete"
        PROVE  /\ req'[q].session # u
               /\ \/ req[q].pc = "refresh_delete" /\ req'[q].session = req[q].session
                  \/ /\ Used(req'[q].session)
                     /\ row'[u].family = row[req'[q].session].family
    <3>1. CASE q = r
      <4>1. req'[q] = c
        BY <2>3, <3>1 DEF TypeOK
      <4>2. QED
        BY <2>2, <2>3, <2>4, <2>5, <4>1 DEF Used
    <3>2. CASE q # r
      <4>1. req'[q] = req[q]
        BY <2>3, <3>2 DEF TypeOK
      <4>2. QED
        BY <2>4, <2>5, <4>1, NoneAssumption DEF HolderInv, SessionPCs, RefreshPCs, Used
    <3>3. QED
      BY <3>1, <3>2
  <2>6. row'[u].family = u \/ \E t \in Sessions : Used(t) /\ row'[u].family = row[t].family
    BY <2>2 DEF Used
  <2>7. QED
    BY <2>1, <2>2, <2>4, <2>5, <2>6, AddedRow, FamilyGrows
<1>10. ASSUME NEW f \in Sessions, RefreshBegin(r, f) PROVE FamilyInv'
  <2>1. row' = row /\ history'.ended = history.ended
    BY <1>10 DEF RefreshBegin, TypeOK, History
  <2>2. Deletes
    BY <1>1, <1>10, RefreshMoves
  <2>3. QED
    BY <1>0, <2>1, <2>2
<1>11. QED
  BY <1>2, <1>3, <1>4, <1>5, <1>6, <1>7, <1>8, <1>9, <1>10
     DEF Loud, ResetWrite, ChangeWrite, ResetSweep, ChangeSweep

LEMMA FamilyStep == ASSUME BaseInv, FamilyInv, [Next]_vars PROVE FamilyInv'
<1>1. ASSUME NEW s \in Sessions, SignOut(s) PROVE FamilyInv'
  BY <1>1, FamilyRows, FamilyMoves DEF SignOut
<1>2. ASSUME NEW s \in Sessions, SessionEnds(s) PROVE FamilyInv'
  <2>1. /\ row'[s] = [row[s] EXCEPT !.state = "over"]
        /\ \A t \in Sessions \ {s} : row'[t] = row[t]
        /\ req' = req /\ row[s].state = "live"
    BY <1>2 DEF SessionEnds, BaseInv, TypeOK
  <2>2. row'[s].family = row[s].family /\ row'[s].state = "over"
    BY <2>1 DEF BaseInv, TypeOK, Row
  <2>3. history.ended \subseteq history'.ended /\ row[s].family \in history'.ended
    BY <1>2 DEF SessionEnds, BaseInv, TypeOK, History
  <2>4. QED
    BY <2>1, <2>2, <2>3, FamilyMoves DEF Stays
<1>3. QED
  BY <1>1, <1>2, QuietOrLoud, FamilyQuiet, FamilyLoud DEF BaseInv

-----------------------------------------------------------------------------
(* Cookies: of each family at most one request is on its way, and what it    *)
(* brings is live.                                                          *)

AnswerPCs == RefreshPCs \cup {"reply"}

\* The answer to a login is on its way to the browser of f.
Signing(r, f) ==
    /\ req[r].pc = "reply" /\ req[r].session = None /\ req[r].fresh # None
    /\ row[req[r].fresh].family = f

Busy(r, f) == Refreshes(r, f) \/ Signing(r, f)

Brings(r, f) ==
    /\ Signing(r, f) => cookie[f] = None /\ row[req[r].fresh].state = "live"
    /\ Refreshes(r, f) =>
          /\ req[r].pc = "refresh_delete" => req[r].fresh # None
          /\ req[r].fresh # None => /\ row[req[r].fresh].state = "live"
                                    /\ row[req[r].fresh].family = f
                                    /\ req[r].fresh # req[r].session
          /\ req[r].pc \in RefreshPCs \/ req[r].fresh = None
                => row[req[r].session].state = "live"

CookieOf(f) ==
    /\ \A q, r \in Requests : Busy(q, f) /\ Busy(r, f) => q = r
    /\ \A r \in Requests : Brings(r, f)
    /\ (\A r \in Requests : ~Busy(r, f)) =>
          cookie[f] = None \/ row[cookie[f]].state = "live"

CookieInv ==
    \A f \in Sessions : f \notin history.ended \cup history.broken => CookieOf(f)

\* Rows of the family of f that are live stay so.
LiveStay(f) ==
    \A t \in Sessions :
        row[t].state = "live" /\ row[t].family = f => row'[t].state = "live"

\* A request that has the same part in f as before, or none.
SamePart(q, f) ==
    \/ /\ req'[q].pc = req[q].pc /\ req'[q].session = req[q].session
       /\ req'[q].fresh = req[q].fresh
    \/ ~Busy(q, f) /\ ~Busy(q, f)'

LEMMA PartKept ==
  ASSUME HolderInv, RowsKept, NEW q \in Requests, NEW f,
         req'[q].pc = req[q].pc, req'[q].session = req[q].session,
         req'[q].fresh = req[q].fresh
  PROVE  /\ Refreshes(q, f)' <=> Refreshes(q, f)
         /\ Signing(q, f)' <=> Signing(q, f)
         /\ Busy(q, f)' <=> Busy(q, f)
<1>1. /\ req[q].session # None =>
            /\ req[q].session \in Sessions
            /\ row'[req[q].session].family = row[req[q].session].family
      /\ req[q].fresh # None =>
            /\ req[q].fresh \in Sessions
            /\ row'[req[q].fresh].family = row[req[q].fresh].family
  BY DEF HolderInv, RowsKept, Used
<1>2. Refreshes(q, f)' <=> Refreshes(q, f)
  BY <1>1 DEF Refreshes
<1>3. Signing(q, f)' <=> Signing(q, f)
  BY <1>1 DEF Signing
<1>4. QED
  BY <1>2, <1>3 DEF Busy

LEMMA BringsKept ==
  ASSUME HolderInv, RowsKept, NEW q \in Requests, NEW f, LiveStay(f), Brings(q, f),
         cookie'[f] \in {cookie[f], None},
         req'[q].pc = req[q].pc, req'[q].session = req[q].session,
         req'[q].fresh = req[q].fresh
  PROVE  Brings(q, f)'
<1>1. /\ req[q].session # None => Used(req[q].session)
      /\ req[q].fresh # None => Used(req[q].fresh)
  BY DEF HolderInv
<1>2. ASSUME Signing(q, f)
      PROVE  cookie'[f] = None /\ row'[req[q].fresh].state = "live"
  BY <1>1, <1>2 DEF Brings, Signing, LiveStay, Used
<1>3. ASSUME Refreshes(q, f)
      PROVE  /\ req[q].pc = "refresh_delete" => req[q].fresh # None
             /\ req[q].fresh # None => /\ row'[req[q].fresh].state = "live"
                                       /\ row'[req[q].fresh].family = f
                                       /\ req[q].fresh # req[q].session
             /\ req[q].pc \in RefreshPCs \/ req[q].fresh = None
                   => row'[req[q].session].state = "live"
  BY <1>1, <1>3 DEF Brings, Refreshes, LiveStay, RowsKept, Used
<1>4. QED
  BY <1>2, <1>3, PartKept DEF Brings

LEMMA CookieKept ==
  ASSUME HolderInv, RowsKept, NEW f \in Sessions, CookieOf(f), LiveStay(f),
         cookie'[f] \in {cookie[f], None},
         \A q \in Requests : SamePart(q, f)
  PROVE  CookieOf(f)'
<1>1. \A q \in Requests : Busy(q, f)' <=> Busy(q, f)
  BY PartKept DEF SamePart
<1>2. ASSUME NEW q \in Requests PROVE Brings(q, f)'
  <2>1. CASE ~Busy(q, f)'
    BY <2>1 DEF Brings, Busy
  <2>2. CASE /\ req'[q].pc = req[q].pc /\ req'[q].session = req[q].session
             /\ req'[q].fresh = req[q].fresh
    BY <2>2, BringsKept DEF CookieOf
  <2>3. QED
    BY <2>1, <2>2 DEF SamePart
<1>3. ASSUME \A r \in Requests : ~Busy(r, f)', cookie'[f] # None
      PROVE  row'[cookie'[f]].state = "live"
  <2>1. cookie'[f] = cookie[f] /\ row[cookie[f]].state = "live"
    BY <1>1, <1>3 DEF CookieOf
  <2>2. cookie[f] \in Sessions /\ row[cookie[f]].family = f
    BY <1>3, <2>1 DEF HolderInv, Used
  <2>3. QED
    BY <2>1, <2>2 DEF LiveStay
<1>4. QED
  BY <1>1, <1>2, <1>3 DEF CookieOf

LEMMA NotBusy ==
  ASSUME NEW q \in Requests, NEW f
  PROVE  /\ req[q].pc \notin AnswerPCs => ~Busy(q, f)
         /\ req'[q].pc \notin AnswerPCs => ~Busy(q, f)'
  BY DEF Busy, Refreshes, Signing, AnswerPCs

\* The request of f goes on, and is the only one of f.
LEMMA CookieMoves ==
  ASSUME TypeOK, HolderInv, RowsKept, NEW f \in Sessions, NEW r \in Requests, NEW c,
         req' = [req EXCEPT ![r] = c],
         \A q \in Requests : q # r => ~Busy(q, f),
         Brings(r, f)',
         ~Busy(r, f)' => cookie'[f] = None \/ row'[cookie'[f]].state = "live"
  PROVE  CookieOf(f)'
<1>1. ASSUME NEW q \in Requests, q # r PROVE ~Busy(q, f)'
  <2>1. req'[q] = req[q]
    BY <1>1 DEF TypeOK
  <2>2. QED
    BY <1>1, <2>1, PartKept
<1>2. \A q \in Requests : q # r => Brings(q, f)'
  BY <1>1 DEF Brings, Busy
<1>3. QED
  BY <1>1, <1>2 DEF CookieOf

\* The session that a refresh was given and the one it makes are of one family.
PairInv ==
    \A r \in Requests :
        /\ req[r].pc \in AnswerPCs
        /\ req[r].session # None /\ req[r].fresh # None
        => row[req[r].session].family = row[req[r].fresh].family

LEMMA PairMoves ==
  ASSUME TypeOK, HolderInv, RowsKept, PairInv, NEW r \in Requests, NEW c,
         req' = [req EXCEPT ![r] = c],
         c.pc \in AnswerPCs /\ c.session # None /\ c.fresh # None
         => row'[c.session].family = row'[c.fresh].family
  PROVE  PairInv'
<1> SUFFICES ASSUME NEW q \in Requests, req'[q].pc \in AnswerPCs,
                    req'[q].session # None, req'[q].fresh # None
             PROVE  row'[req'[q].session].family = row'[req'[q].fresh].family
  BY DEF PairInv
<1>1. CASE q = r
  BY <1>1 DEF TypeOK
<1>2. CASE q # r
  <2>1. req'[q] = req[q]
    BY <1>2 DEF TypeOK
  <2>2. Used(req[q].session) /\ Used(req[q].fresh)
    BY <2>1 DEF HolderInv
  <2>3. QED
    BY <2>1, <2>2 DEF PairInv, RowsKept, Used
<1>3. QED
  BY <1>1, <1>2

\* What is shared by the steps of a refresh that write no row and no cookie.
LEMMA CookiePasses ==
  ASSUME BaseInv, PairInv, CookieInv, row' = row, cookie' = cookie,
         history.ended \subseteq history'.ended, history.broken \subseteq history'.broken,
         NEW r \in Requests, NEW c \in Call, req' = [req EXCEPT ![r] = c],
         req[r].pc \in RefreshPCs, c.pc \in AnswerPCs \ {"refresh_delete"},
         c.session = req[r].session, c.fresh \in {req[r].fresh, None}
  PROVE  PairInv' /\ CookieInv'
<1> USE DEF BaseInv
<1>1. RowsKept
  BY DEF RowsKept, Used
<1>2. req[r].session # None /\ req[r].pc \in AnswerPCs /\ req'[r] = c
  BY DEF HolderInv, SessionPCs, AnswerPCs, TypeOK
<1>3. PairInv'
  BY <1>1, <1>2, PairMoves DEF PairInv
<1>4. ASSUME NEW f \in Sessions, f \notin history'.ended \cup history'.broken
      PROVE  CookieOf(f)'
  <2>0. CookieOf(f)
    BY <1>4 DEF CookieInv
  <2>1. CASE row[req[r].session].family = f
    <3>1. Refreshes(r, f) /\ Refreshes(r, f)'
      BY <1>2, <2>1 DEF Refreshes, AnswerPCs
    <3>2. \A q \in Requests : q # r => ~Busy(q, f)
      BY <2>0, <3>1 DEF CookieOf, Busy
    <3>3. Brings(r, f)
      BY <2>0 DEF CookieOf
    <3>4. ~Signing(r, f)'
      BY <1>2 DEF Signing
    <3>5. Brings(r, f)'
      BY <1>2, <3>1, <3>3, <3>4 DEF Brings
    <3>6. QED
      BY <1>1, <3>1, <3>2, <3>5, CookieMoves DEF Busy
  <2>2. CASE row[req[r].session].family # f
    <3>1. ~Busy(r, f) /\ ~Busy(r, f)'
      BY <1>2, <2>2 DEF Busy, Refreshes, Signing
    <3>2. \A q \in Requests : SamePart(q, f)
      BY <3>1 DEF SamePart, TypeOK
    <3>3. LiveStay(f)
      BY DEF LiveStay
    <3>4. QED
      BY <1>1, <2>0, <3>2, <3>3, CookieKept
  <2>3. QED
    BY <2>1, <2>2
<1>5. QED
  BY <1>3, <1>4 DEF CookieInv

\* The steps that have no part in any answer.
LEMMA CookieAside ==
  ASSUME BaseInv, PairInv, CookieInv, RowsKept,
         history.ended \subseteq history'.ended, history.broken \subseteq history'.broken,
         \A f \in Sessions : cookie'[f] \in {cookie[f], None},
         \A f \in Sessions : f \notin history'.ended => LiveStay(f),
         \A q \in Requests :
            \/ /\ req'[q].pc = req[q].pc /\ req'[q].session = req[q].session
               /\ req'[q].fresh = req[q].fresh
            \/ req[q].pc \notin AnswerPCs /\ req'[q].pc \notin AnswerPCs
  PROVE  PairInv' /\ CookieInv'
<1> USE DEF BaseInv
<1>1. PairInv'
  <2> SUFFICES ASSUME NEW q \in Requests, req'[q].pc \in AnswerPCs,
                      req'[q].session # None, req'[q].fresh # None
               PROVE  row'[req'[q].session].family = row'[req'[q].fresh].family
    BY DEF PairInv
  <2>1. /\ req'[q].pc = req[q].pc /\ req'[q].session = req[q].session
        /\ req'[q].fresh = req[q].fresh
    OBVIOUS
  <2>2. Used(req[q].session) /\ Used(req[q].fresh)
    BY <2>1 DEF HolderInv
  <2>3. QED
    BY <2>1, <2>2 DEF PairInv, RowsKept, Used
<1>2. ASSUME NEW f \in Sessions, f \notin history'.ended \cup history'.broken
      PROVE  CookieOf(f)'
  <2>1. CookieOf(f) /\ LiveStay(f)
    BY <1>2 DEF CookieInv
  <2>2. \A q \in Requests : SamePart(q, f)
    BY NotBusy DEF SamePart
  <2>3. QED
    BY <2>1, <2>2, CookieKept
<1>3. QED
  BY <1>1, <1>2 DEF CookieInv

LEMMA Aside ==
  ASSUME TypeOK, NEW r \in Requests, NEW c, req' = [req EXCEPT ![r] = c],
         req[r].pc \notin AnswerPCs, c.pc \notin AnswerPCs
  PROVE  \A q \in Requests :
            \/ /\ req'[q].pc = req[q].pc /\ req'[q].session = req[q].session
               /\ req'[q].fresh = req[q].fresh
            \/ req[q].pc \notin AnswerPCs /\ req'[q].pc \notin AnswerPCs
  BY DEF TypeOK

LEMMA LiveRows == ASSUME row' = row PROVE RowsKept /\ \A f \in Sessions : LiveStay(f)
  BY DEF RowsKept, LiveStay, Used

LEMMA CookieQuiet ==
  ASSUME BaseInv, PairInv, CookieInv, Quiet
  PROVE  PairInv' /\ CookieInv'
<1>1. /\ row' = row /\ cookie' = cookie
      /\ history'.ended = history.ended /\ history'.broken = history.broken
  BY DEF Quiet
<1>2. \A q \in Requests :
          \/ /\ req'[q].pc = req[q].pc /\ req'[q].session = req[q].session
             /\ req'[q].fresh = req[q].fresh
          \/ req[q].pc \notin AnswerPCs /\ req'[q].pc \notin AnswerPCs
  <2>1. CASE UNCHANGED req
    BY <2>1
  <2>2. ASSUME NEW r \in Requests, NEW c \in Call, Turns(r, c)
        PROVE  \A q \in Requests :
                  \/ /\ req'[q].pc = req[q].pc /\ req'[q].session = req[q].session
                     /\ req'[q].fresh = req[q].fresh
                  \/ req[q].pc \notin AnswerPCs /\ req'[q].pc \notin AnswerPCs
    BY <2>2, Aside DEF Turns, SensitivePCs, AnswerPCs, BaseInv
  <2>3. QED
    BY <2>1, <2>2 DEF Quiet
<1>3. QED
  BY <1>1, <1>2, LiveRows, CookieAside

LEMMA CookieSweep ==
  ASSUME BaseInv, PairInv, CookieInv, NEW r \in Requests, NEW pc \in PendingPCs, NEW kept,
         Sweep(r, pc, kept)
  PROVE  PairInv' /\ CookieInv'
<1> USE DEF BaseInv
<1>1. /\ history.ended \subseteq history'.ended /\ history'.broken = history.broken
      /\ \A t \in Sessions \ {kept} :
            row[t].state = "live" => row[t].family \in history'.ended
      /\ cookie' = cookie /\ req[r].pc = pc
  BY DEF Sweep, TypeOK, History
<1>2. \A f \in Sessions : f \notin history'.ended => LiveStay(f)
  BY <1>1, SweptRows DEF LiveStay
<1>3. RowsKept
  BY SweepHolds
<1>4. pc \notin AnswerPCs /\ Idle.pc \notin AnswerPCs
  BY IdleFields DEF PendingPCs, AnswerPCs, RefreshPCs
<1>5. \A q \in Requests :
          \/ /\ req'[q].pc = req[q].pc /\ req'[q].session = req[q].session
             /\ req'[q].fresh = req[q].fresh
          \/ req[q].pc \notin AnswerPCs /\ req'[q].pc \notin AnswerPCs
  BY <1>1, <1>4, SweptRequests
<1>6. QED
  BY <1>1, <1>2, <1>3, <1>5, CookieAside

LEMMA CookieBegin ==
  ASSUME BaseInv, PairInv, CookieInv, NEW r \in Requests, NEW g \in Sessions,
         RefreshBegin(r, g)
  PROVE  PairInv' /\ CookieInv'
<1> USE DEF BaseInv
<1>1. /\ row' = row /\ cookie' = cookie /\ history'.ended = history.ended
      /\ history'.broken = history.broken \cup {f \in {g} : \E q \in Requests : Refreshes(q, f)}
      /\ cookie[g] # None /\ Used(cookie[g]) /\ row[cookie[g]].family = g
  BY DEF RefreshBegin, TypeOK, History, HolderInv
<1>2. PICK c \in Call : /\ req[r] = Idle /\ req' = [req EXCEPT ![r] = c]
                        /\ c.pc = "refresh_find" /\ c.session = cookie[g]
                        /\ c.fresh = None
  BY RefreshMoves
<1>3. RowsKept /\ \A f \in Sessions : LiveStay(f)
  BY <1>1, LiveRows
<1>4. PairInv'
  BY <1>2, <1>3, PairMoves
<1>5. req'[r] = c /\ req[r].pc \notin AnswerPCs
  BY <1>2, IdleFields DEF TypeOK, AnswerPCs, RefreshPCs
<1>6. ASSUME NEW f \in Sessions, f \notin history'.ended \cup history'.broken
      PROVE  CookieOf(f)'
  <2>0. CookieOf(f)
    BY <1>1, <1>6 DEF CookieInv
  <2>1. CASE f = g
    <3>1. \A q \in Requests : ~Refreshes(q, f)
      BY <1>1, <1>6, <2>1
    <3>2. \A q \in Requests : ~Signing(q, f)
      BY <1>1, <2>0, <2>1 DEF CookieOf, Brings
    <3>3. row[cookie[g]].state = "live"
      BY <1>1, <2>0, <2>1, <3>1, <3>2 DEF CookieOf, Busy
    <3>4. Brings(r, f)'
      BY <1>1, <1>2, <1>5, <3>3 DEF Brings, Signing
    <3>5. Busy(r, f)'
      BY <1>1, <1>2, <1>5, <2>1 DEF Busy, Refreshes, RefreshPCs
    <3>6. QED
      BY <1>2, <1>3, <3>1, <3>2, <3>4, <3>5, CookieMoves DEF Busy
  <2>2. CASE f # g
    <3>1. ~Busy(r, f)'
      BY <1>1, <1>2, <1>5, <2>2 DEF Busy, Refreshes, Signing
    <3>2. ~Busy(r, f)
      BY <1>5, NotBusy
    <3>3. \A q \in Requests : SamePart(q, f)
      BY <1>2, <3>1, <3>2 DEF SamePart, TypeOK
    <3>4. QED
      BY <1>1, <1>3, <2>0, <3>3, CookieKept
  <2>3. QED
    BY <2>1, <2>2
<1>7. QED
  BY <1>4, <1>6 DEF CookieInv

LEMMA CookieNew ==
  ASSUME BaseInv, FamilyInv, PairInv, CookieInv, NEW r \in Requests, NEW u \in Sessions,
         LoginSession(r, u) \/ RefreshSession(r, u)
  PROVE  PairInv' /\ CookieInv'
<1> DEFINE s == req[r].session
           g == IF s = None THEN u ELSE row[s].family
<1> USE DEF BaseInv
<1>1. PICK next \in {"reply", "refresh_delete"} :
          /\ NewSession(r, u, next)
          /\ next = "refresh_delete" => req[r].pc = "refresh_session"
          /\ next = "reply" => req[r].pc = "login_session"
  BY DEF LoginSession, RefreshSession
<1>2. /\ history' = history /\ cookie' = cookie
      /\ row'[u].family = g
      /\ s # None => Used(s)
      /\ next = "refresh_delete" <=> s # None
  BY <1>1 DEF NewSession, TypeOK, HolderInv, SessionPCs, LoginPCs, RefreshPCs
<1>3. /\ row[u].state = "unused" /\ row'[u].state = "live"
      /\ \A t \in Sessions \ {u} : row'[t] = row[t]
  BY <1>1, AddedRow
<1>4. PICK c \in Call : /\ req' = [req EXCEPT ![r] = c]
                        /\ c.pc = next /\ c.session = s /\ c.fresh = u
  BY <1>1, NewMoves DEF PCs
<1>5. RowsKept /\ req'[r] = c
  BY <1>3, <1>4 DEF RowsKept, Used, TypeOK
<1>6. /\ s # None => s \in Sessions /\ s # u /\ row'[s] = row[s]
      /\ u # None
  BY <1>2, <1>3, NoneAssumption DEF Used
<1> HIDE DEF s
<1>7. PairInv'
  BY <1>2, <1>4, <1>5, <1>6, PairMoves
<1>8. ASSUME NEW f \in Sessions, f \notin history'.ended \cup history'.broken
      PROVE  CookieOf(f)'
  <2>0. CookieOf(f)
    BY <1>2, <1>8 DEF CookieInv
  <2>1. CASE f = g /\ s # None
    <3>1. Refreshes(r, f)
      BY <1>1, <1>2, <2>1 DEF Refreshes, RefreshPCs, s
    <3>2. \A q \in Requests : q # r => ~Busy(q, f)
      BY <2>0, <3>1 DEF CookieOf, Busy
    <3>3. row[s].state = "live"
      BY <1>1, <1>2, <2>0, <2>1, <3>1 DEF CookieOf, Brings, RefreshPCs, s
    <3>4. Brings(r, f)'
      BY <1>2, <1>3, <1>4, <1>5, <1>6, <2>1, <3>3 DEF Brings, Signing
    <3>5. Busy(r, f)'
      BY <1>2, <1>4, <1>5, <1>6, <2>1 DEF Busy, Refreshes, RefreshPCs
    <3>6. QED
      BY <1>4, <1>5, <3>2, <3>4, <3>5, CookieMoves
  <2>2. CASE f = g /\ s = None
    <3>1. \A t \in Sessions : Used(t) => row[t].family # f
      BY <1>3, <2>2 DEF FamilyInv, Used
    <3>2. \A q \in Requests : ~Busy(q, f)
      BY <3>1 DEF Busy, Refreshes, Signing, HolderInv, Used
    <3>3. cookie[f] = None
      BY <3>1 DEF HolderInv, Used
    <3>4. Brings(r, f)'
      BY <1>2, <1>3, <1>4, <1>5, <1>6, <2>2, <3>3 DEF Brings, Signing, Refreshes
    <3>5. QED
      BY <1>2, <1>4, <1>5, <3>2, <3>3, <3>4, CookieMoves
  <2>3. CASE f # g
    <3>1. ~Busy(r, f)'
      BY <1>2, <1>4, <1>5, <1>6, <2>3 DEF Busy, Refreshes, Signing
    <3>2. ~Busy(r, f)
      BY <1>1, <1>2, <2>3 DEF Busy, Refreshes, Signing, AnswerPCs, RefreshPCs, s
    <3>3. \A q \in Requests : SamePart(q, f)
      BY <1>4, <3>1, <3>2 DEF SamePart, TypeOK
    <3>4. LiveStay(f)
      BY <1>3 DEF LiveStay
    <3>5. QED
      BY <1>2, <1>5, <2>0, <3>3, <3>4, CookieKept
  <2>4. QED
    BY <2>1, <2>2, <2>3
<1>9. QED
  BY <1>7, <1>8 DEF CookieInv

LEMMA CookieDelete ==
  ASSUME BaseInv, PairInv, CookieInv, NEW r \in Requests, RefreshDelete(r)
  PROVE  PairInv' /\ CookieInv'
<1> DEFINE s == req[r].session
           c == [req[r] EXCEPT !.pc = "reply"]
<1> USE DEF BaseInv
<1>1. /\ row' = [row EXCEPT ![s].state = Deleted(s)]
      /\ cookie' = cookie /\ history' = history /\ req[r].pc = "refresh_delete"
  BY DEF RefreshDelete
<1>2. /\ s # None /\ Used(s)
      /\ req[r].fresh # None => Used(req[r].fresh)
  BY <1>1 DEF HolderInv, SessionPCs, RefreshPCs
<1>3. /\ c.pc = "reply" /\ c.session = s /\ c.fresh = req[r].fresh
      /\ req' = [req EXCEPT ![r] = c]
  BY DEF RefreshDelete, Goto, TypeOK, Call
<1> HIDE DEF c
<1>4. /\ \A t \in Sessions : /\ row'[t].family = row[t].family
                             /\ row'[t].state = "unused" <=> row[t].state = "unused"
      /\ \A t \in Sessions \ {s} : row'[t] = row[t]
  BY <1>1, FamiliesStay, DeletedRows
<1>5. RowsKept /\ req'[r] = c
  BY <1>3, <1>4 DEF RowsKept, Used, TypeOK
<1>6. PairInv'
  <2>1. c.fresh # None => row'[c.session].family = row'[c.fresh].family
    BY <1>1, <1>2, <1>3, <1>4 DEF PairInv, AnswerPCs, RefreshPCs, Used
  <2>2. QED
    BY <1>3, <1>5, <2>1, PairMoves
<1>7. ASSUME NEW f \in Sessions, f \notin history'.ended \cup history'.broken
      PROVE  CookieOf(f)'
  <2>0. CookieOf(f)
    BY <1>1, <1>7 DEF CookieInv
  <2>1. CASE row[s].family = f
    <3>1. Refreshes(r, f)
      BY <1>1, <1>2, <2>1 DEF Refreshes, RefreshPCs
    <3>2. \A q \in Requests : q # r => ~Busy(q, f)
      BY <2>0, <3>1 DEF CookieOf, Busy
    <3>3. /\ req[r].fresh # None /\ req[r].fresh # s
          /\ row[req[r].fresh].state = "live" /\ row[req[r].fresh].family = f
      BY <1>1, <2>0, <3>1 DEF CookieOf, Brings
    <3>4. row'[req[r].fresh] = row[req[r].fresh]
      BY <1>2, <1>4, <3>3 DEF Used
    <3>5. Brings(r, f)'
      BY <1>2, <1>3, <1>5, <3>3, <3>4 DEF Brings, Signing, RefreshPCs
    <3>6. Busy(r, f)'
      BY <1>2, <1>3, <1>4, <1>5, <2>1 DEF Busy, Refreshes, Used
    <3>7. QED
      BY <1>3, <1>5, <3>2, <3>5, <3>6, CookieMoves
  <2>2. CASE row[s].family # f
    <3>1. ~Busy(r, f) /\ ~Busy(r, f)'
      BY <1>2, <1>3, <1>4, <1>5, <2>2 DEF Busy, Refreshes, Signing, Used
    <3>2. \A q \in Requests : SamePart(q, f)
      BY <1>3, <3>1 DEF SamePart, TypeOK
    <3>3. LiveStay(f)
      BY <1>4, <2>2 DEF LiveStay
    <3>4. QED
      BY <1>1, <1>5, <2>0, <3>2, <3>3, CookieKept
  <2>3. QED
    BY <2>1, <2>2
<1>8. QED
  BY <1>6, <1>7 DEF CookieInv

\* The request ends, and with it its part in the family.
LEMMA CookieReply ==
  ASSUME BaseInv, PairInv, CookieInv, NEW r \in Requests, Reply(r)
  PROVE  PairInv' /\ CookieInv'
<1> DEFINE s == req[r].session
           t == IF req[r].fresh = None THEN s ELSE req[r].fresh
<1> USE DEF BaseInv
<1>1. /\ row' = row /\ cookie' = [cookie EXCEPT ![row[t].family] = t]
      /\ history' = history /\ req[r].pc = "reply" /\ req' = [req EXCEPT ![r] = Idle]
  BY DEF Reply, Return
<1>2. RowsKept /\ req'[r] = Idle /\ \A f \in Sessions : LiveStay(f)
  BY <1>1, LiveRows DEF TypeOK
<1>3. Idle.pc \notin AnswerPCs
  BY IdleFields DEF AnswerPCs, RefreshPCs
<1>4. PairInv'
  BY <1>1, <1>2, <1>3, PairMoves
<1>5. ASSUME NEW f \in Sessions, f \notin history'.ended \cup history'.broken
      PROVE  CookieOf(f)'
  <2>0. CookieOf(f)
    BY <1>1, <1>5 DEF CookieInv
  <2>1. ~Busy(r, f)'
    BY <1>2, <1>3, NotBusy
  <2>2. Brings(r, f)'
    BY <2>1 DEF Brings, Busy
  <2>3. CASE t # None /\ row[t].family = f
    <3>1. Busy(r, f)
      BY <1>1, <2>3 DEF Busy, Refreshes, Signing, PairInv, AnswerPCs
    <3>2. \A q \in Requests : q # r => ~Busy(q, f)
      BY <2>0, <3>1 DEF CookieOf
    <3>3. row[t].state = "live"
      BY <1>1, <2>0, <2>3, <3>1 DEF CookieOf, Brings, Busy, Refreshes, Signing
    <3>4. cookie'[f] = t
      BY <1>1, <2>3 DEF TypeOK
    <3>5. QED
      BY <1>1, <1>2, <2>2, <3>2, <3>3, <3>4, CookieMoves
  <2>4. CASE ~(t # None /\ row[t].family = f)
    <3>1. ~Busy(r, f)
      BY <1>1, <2>4 DEF Busy, Refreshes, Signing, PairInv, AnswerPCs
    <3>2. cookie'[f] \in {cookie[f], None}
      BY <1>1, <2>4 DEF TypeOK
    <3>3. \A q \in Requests : SamePart(q, f)
      BY <1>1, <2>1, <3>1 DEF SamePart, TypeOK
    <3>4. QED
      BY <1>2, <2>0, <3>2, <3>3, CookieKept
  <2>5. QED
    BY <2>3, <2>4
<1>6. QED
  BY <1>4, <1>5 DEF CookieInv

LEMMA CookieThrow ==
  ASSUME BaseInv, PairInv, CookieInv, NEW r \in Requests, Throw(r)
  PROVE  PairInv' /\ CookieInv'
<1> USE DEF BaseInv
<1>1. /\ row' = row /\ cookie' = cookie /\ history'.ended = history.ended
      /\ history'.broken = history.broken \cup
            {f \in Sessions : req[r].pc = "reply" /\ Refreshes(r, f)}
  BY DEF Throw, TypeOK, History
<1>2. RowsKept /\ \A f \in Sessions : LiveStay(f)
  BY <1>1, LiveRows
<1>3. Idle.pc \notin AnswerPCs
  BY IdleFields DEF AnswerPCs, RefreshPCs
<1>4. ASSUME NEW c \in Call, req[r].pc \in RefreshPCs, req' = [req EXCEPT ![r] = c],
             c.pc = "reply", c.session = req[r].session, c.fresh = None
      PROVE  PairInv' /\ CookieInv'
  BY <1>1, <1>4, CookiePasses DEF AnswerPCs
<1>5. CASE Return(r) /\ req[r].pc \notin AnswerPCs
  <2>1. req' = [req EXCEPT ![r] = Idle]
    BY <1>5 DEF Return
  <2>2. QED
    BY <1>1, <1>2, <1>3, <1>5, <2>1, Aside, CookieAside
<1>6. CASE Return(r) /\ req[r].pc = "reply"
  <2>1. req' = [req EXCEPT ![r] = Idle] /\ req'[r] = Idle
    BY <1>6 DEF Return, TypeOK
  <2>2. PairInv'
    BY <1>2, <1>3, <2>1, PairMoves
  <2>3. ASSUME NEW f \in Sessions, f \notin history'.ended \cup history'.broken
        PROVE  CookieOf(f)'
    <3>0. CookieOf(f)
      BY <1>1, <2>3 DEF CookieInv
    <3>1. ~Busy(r, f)' /\ ~Refreshes(r, f)
      BY <1>1, <1>3, <1>6, <2>1, <2>3, NotBusy
    <3>2. Brings(r, f)'
      BY <3>1 DEF Brings, Busy
    <3>3. CASE Signing(r, f)
      <4>1. \A q \in Requests : q # r => ~Busy(q, f)
        BY <3>0, <3>3 DEF CookieOf, Busy
      <4>2. cookie'[f] = None
        BY <1>1, <3>0, <3>3 DEF CookieOf, Brings
      <4>3. QED
        BY <1>2, <2>1, <3>2, <4>1, <4>2, CookieMoves
    <3>4. CASE ~Signing(r, f)
      <4>1. \A q \in Requests : SamePart(q, f)
        BY <2>1, <3>1, <3>4 DEF SamePart, Busy, TypeOK
      <4>2. QED
        BY <1>1, <1>2, <3>0, <4>1, CookieKept
    <3>5. QED
      BY <3>3, <3>4
  <2>4. QED
    BY <2>2, <2>3 DEF CookieInv
<1>7. QED
  BY <1>4, <1>5, <1>6, ThrowMoves DEF AnswerPCs

LEMMA CookieRest ==
  ASSUME BaseInv, PairInv, CookieInv, NEW r \in Requests,
         \/ RefreshFind(r) \/ RefreshUser(r) \/ LogoutDelete(r) \/ ResetSpend(r)
         \/ ResetWrite(r) \/ ChangeWrite(r)
         \/ \E u \in Sessions : RegisterSession(r, u)
  PROVE  PairInv' /\ CookieInv'
<1> DEFINE s == req[r].session
           Others == \A q \in Requests :
                \/ /\ req'[q].pc = req[q].pc /\ req'[q].session = req[q].session
                   /\ req'[q].fresh = req[q].fresh
                \/ req[q].pc \notin AnswerPCs /\ req'[q].pc \notin AnswerPCs
<1> USE DEF BaseInv
<1>g. ASSUME NEW pc \in PCs, Goto(r, pc)
      PROVE  \E c \in Call : /\ req' = [req EXCEPT ![r] = c]
                             /\ c.pc = pc /\ c.session = s /\ c.fresh = req[r].fresh
  <2>1. /\ [req[r] EXCEPT !.pc = pc] \in Call
        /\ [req[r] EXCEPT !.pc = pc].pc = pc
        /\ [req[r] EXCEPT !.pc = pc].session = s
        /\ [req[r] EXCEPT !.pc = pc].fresh = req[r].fresh
    BY DEF TypeOK, Call
  <2>2. QED
    BY <1>g, <2>1 DEF Goto
<1>i. Return(r) => req' = [req EXCEPT ![r] = Idle] /\ Idle.pc \notin AnswerPCs
  BY IdleFields DEF Return, AnswerPCs, RefreshPCs
<1>1. CASE RefreshFind(r) \/ RefreshUser(r)
  <2>1. row' = row /\ cookie' = cookie /\ history' = history /\ req[r].pc \in RefreshPCs
    BY <1>1 DEF RefreshFind, RefreshUser, RefreshPCs
  <2>2. PICK c \in Call : /\ req' = [req EXCEPT ![r] = c]
                          /\ c.pc \in {"refresh_user", "refresh_session", "reply"}
                          /\ c.session = s /\ c.fresh = req[r].fresh
    <3>1. CASE RefreshFind(r) /\ row[s].state = "live"
      BY <3>1, FindMoves
    <3>2. CASE RefreshFind(r) /\ row[s].state # "live"
      BY <3>2, <1>g DEF RefreshFind, PCs
    <3>3. CASE RefreshUser(r)
      BY <3>3, <1>g DEF RefreshUser, PCs
    <3>4. QED
      BY <1>1, <3>1, <3>2, <3>3
  <2>3. QED
    BY <2>1, <2>2, CookiePasses DEF AnswerPCs, RefreshPCs
<1>2. CASE LogoutDelete(r)
  <2>1. /\ row' = [row EXCEPT ![s].state = Deleted(s)]
        /\ cookie' = cookie /\ history'.broken = history.broken
        /\ history'.ended = history.ended \cup {row[s].family}
    BY <1>2 DEF LogoutDelete, TypeOK, History
  <2>2. /\ \A t \in Sessions : /\ row'[t].family = row[t].family
                               /\ row'[t].state = "unused" <=> row[t].state = "unused"
        /\ \A t \in Sessions \ {s} : row'[t] = row[t]
    BY <2>1, FamiliesStay, DeletedRows
  <2>3. RowsKept /\ \A f \in Sessions : f \notin history'.ended => LiveStay(f)
    BY <2>1, <2>2 DEF RowsKept, LiveStay, Used
  <2>4. Others
    BY <1>2, <1>g, <1>i, Aside DEF LogoutDelete, AnswerPCs, RefreshPCs, PCs
  <2>5. QED
    BY <2>1, <2>3, <2>4, CookieAside
<1>3. CASE ResetSpend(r)
  <2>1. row' = row /\ cookie' = cookie /\ history' = history
    BY <1>3 DEF ResetSpend, Spend
  <2>2. Others
    BY <1>3, <1>g, Aside DEF ResetSpend, Spend, AnswerPCs, RefreshPCs, PCs
  <2>3. QED
    BY <2>1, <2>2, LiveRows, CookieAside
<1>4. ASSUME NEW pc \in {"reset_write", "change_write"},
             NEW next \in {"reset_spend", "change_sweep"}, WritePassword(r, pc, next)
      PROVE  PairInv' /\ CookieInv'
  <2>1. row' = row /\ cookie' = cookie /\ history' = history /\ req[r].pc = pc
    BY <1>4 DEF WritePassword
  <2>2. Others
    BY <1>4, <2>1, WriteMoves, Aside DEF AnswerPCs, RefreshPCs, PCs
  <2>3. QED
    BY <2>1, <2>2, LiveRows, CookieAside
<1>5. ASSUME NEW u \in Sessions, RegisterSession(r, u) PROVE PairInv' /\ CookieInv'
  <2>1. /\ cookie' = cookie /\ history' = history
        /\ row[u].state = "unused" /\ \A t \in Sessions \ {u} : row'[t] = row[t]
    BY <1>5, AddedRow DEF RegisterSession
  <2>2. RowsKept /\ \A f \in Sessions : LiveStay(f)
    BY <2>1 DEF RowsKept, LiveStay, Used
  <2>3. Others
    BY <1>5, <1>i, Aside DEF RegisterSession, AnswerPCs, RefreshPCs
  <2>4. QED
    BY <2>1, <2>2, <2>3, CookieAside
<1>6. QED
  BY <1>1, <1>2, <1>3, <1>4, <1>5 DEF ResetWrite, ChangeWrite

LEMMA CookieStep ==
  ASSUME BaseInv, FamilyInv, PairInv, CookieInv, [Next]_vars
  PROVE  PairInv' /\ CookieInv'
<1> USE DEF BaseInv
<1>1. ASSUME NEW s \in Sessions, SignOut(s) PROVE PairInv' /\ CookieInv'
  <2>1. /\ row' = row /\ history' = history /\ req' = req
        /\ \A f \in Sessions : cookie'[f] \in {cookie[f], None}
    BY <1>1 DEF SignOut, TypeOK
  <2>2. QED
    BY <2>1, LiveRows, CookieAside
<1>2. ASSUME NEW s \in Sessions, SessionEnds(s) PROVE PairInv' /\ CookieInv'
  <2>1. /\ row'[s] = [row[s] EXCEPT !.state = "over"]
        /\ \A t \in Sessions \ {s} : row'[t] = row[t]
        /\ cookie' = cookie /\ req' = req
    BY <1>2 DEF SessionEnds, TypeOK
  <2>2. row'[s].family = row[s].family /\ row'[s].state = "over"
    BY <2>1 DEF TypeOK, Row
  <2>3. /\ history.ended \subseteq history'.ended /\ row[s].family \in history'.ended
        /\ history'.broken = history.broken
    BY <1>2 DEF SessionEnds, TypeOK, History
  <2>4. RowsKept /\ \A f \in Sessions : f \notin history'.ended => LiveStay(f)
    BY <2>1, <2>2, <2>3 DEF RowsKept, LiveStay, Used
  <2>5. QED
    BY <2>1, <2>3, <2>4, CookieAside
<1>3. ASSUME NEW r \in Requests, ResetSweep(r) \/ ChangeSweep(r)
      PROVE  PairInv' /\ CookieInv'
  BY <1>3, CookieSweep DEF ResetSweep, ChangeSweep, PendingPCs
<1>4. ASSUME NEW r \in Requests, Loud(r) PROVE PairInv' /\ CookieInv'
  BY <1>4, <1>3, CookieRest, CookieDelete, CookieReply, CookieThrow, CookieBegin, CookieNew
     DEF Loud
<1>5. QED
  BY <1>1, <1>2, <1>4, QuietOrLoud, CookieQuiet

-----------------------------------------------------------------------------
(* Dead families: a refresh goes on only from a row that it found live.      *)

\* The requests that go on from a live row, after the moves that are none.
SameFinds == \A q \in Requests :
    req'[q].pc \in FindingPCs
    => req[q].pc \in FindingPCs /\ req'[q].session = req[q].session

LEMMA FindsKept ==
  ASSUME TypeOK, NEW r \in Requests, NEW c, req' = [req EXCEPT ![r] = c],
         c.pc \in FindingPCs => /\ req[r].pc \in FindingPCs
                                /\ c.session = req[r].session
  PROVE  SameFinds
BY DEF TypeOK, SameFinds

LEMMA GotoFinds ==
  ASSUME TypeOK, NEW r \in Requests, NEW pc, Goto(r, pc) \/ Return(r),
         pc \in FindingPCs => req[r].pc \in FindingPCs
  PROVE  SameFinds
<1>1. CASE Goto(r, pc)
  <2> DEFINE c == [req[r] EXCEPT !.pc = pc]
  <2>1. c.pc = pc /\ c.session = req[r].session /\ req' = [req EXCEPT ![r] = c]
    BY <1>1 DEF TypeOK, Call, Goto
  <2> HIDE DEF c
  <2>2. QED
    BY <2>1, FindsKept
<1>2. CASE Return(r)
  <2>1. Idle.pc \notin FindingPCs
    BY IdleFields DEF FindingPCs
  <2>2. QED
    BY <1>2, <2>1, FindsKept DEF Return
<1>3. QED
  BY <1>1, <1>2

\* What a step must keep for a dead family to stay dead.
LEMMA DeadMoves ==
  ASSUME BaseInv, RowsKept, NEW f \in Sessions, Dead(f),
         \A s \in Sessions : row'[s].state = "live" => row'[s].family # f,
         \A q \in Requests :
            req'[q].pc \in FindingPCs
            => Used(req'[q].session) /\ row[req'[q].session].family # f
  PROVE  Dead(f)'
BY DEF Dead, RowsKept, Used

\* A family stays dead by a step that makes no row live and finds none live.
LEMMA DeadAside ==
  ASSUME BaseInv, RowsKept, SameFinds, NEW f \in Sessions, Dead(f),
         \A s \in Sessions : row'[s].state = "live"
            => row[s].state = "live" /\ row'[s].family = row[s].family
  PROVE  Dead(f)'
<1>1. \A s \in Sessions : row'[s].state = "live" => row'[s].family # f
  BY DEF Dead
<1>2. ASSUME NEW q \in Requests, req'[q].pc \in FindingPCs
      PROVE  Used(req'[q].session) /\ row[req'[q].session].family # f
  <2>1. req[q].pc \in FindingPCs /\ req'[q].session = req[q].session
    BY <1>2 DEF SameFinds
  <2>2. Used(req[q].session)
    BY <2>1 DEF BaseInv, HolderInv, FindingPCs, SessionPCs, RefreshPCs
  <2>3. QED
    BY <2>1, <2>2 DEF Dead
<1>3. QED
  BY <1>1, <1>2, DeadMoves

LEMMA DeadQuiet ==
  ASSUME BaseInv, Quiet, NEW f \in Sessions, Dead(f)
  PROVE  Dead(f)'
<1>1. row' = row /\ RowsKept
  BY DEF Quiet, RowsKept, Used
<1>2. SameFinds
  <2>1. ASSUME NEW r \in Requests, NEW c \in Call, Turns(r, c) PROVE SameFinds
    BY <2>1, FindsKept DEF Turns, SensitivePCs, RefreshPCs, FindingPCs, BaseInv
  <2>2. CASE UNCHANGED req
    BY <2>2 DEF SameFinds
  <2>3. QED
    BY <2>1, <2>2 DEF Quiet
<1>3. QED
  BY <1>1, <1>2, DeadAside

\* A new row is live: it opens a family of its own, or continues one that the
\* refresh has found live.
LEMMA DeadGrows ==
  ASSUME BaseInv, RowsKept, SameFinds, NEW f \in Sessions, Dead(f),
         NEW u \in Sessions, row[u].state = "unused",
         \A t \in Sessions \ {u} : row'[t] = row[t],
         row'[u].family = u
         \/ \E q \in Requests : /\ req[q].pc \in FindingPCs
                                /\ row'[u].family = row[req[q].session].family
  PROVE  Dead(f)'
<1>1. row'[u].family # f
  BY DEF Dead
<1>2. \A s \in Sessions : row'[s].state = "live" => row'[s].family # f
  BY <1>1 DEF Dead
<1>3. ASSUME NEW q \in Requests, req'[q].pc \in FindingPCs
      PROVE  Used(req'[q].session) /\ row[req'[q].session].family # f
  <2>1. req[q].pc \in FindingPCs /\ req'[q].session = req[q].session
    BY <1>3 DEF SameFinds
  <2>2. Used(req[q].session)
    BY <2>1 DEF BaseInv, HolderInv, FindingPCs, SessionPCs, RefreshPCs
  <2>3. QED
    BY <2>1, <2>2 DEF Dead
<1>4. QED
  BY <1>2, <1>3, DeadMoves

LEMMA DeadLoud ==
  ASSUME BaseInv, NEW r \in Requests, Loud(r), NEW f \in Sessions, Dead(f)
  PROVE  Dead(f)'
<1> DEFINE s == req[r].session
<1> USE DEF BaseInv
<1>0. RowsKept
  BY LoudHolds
<1>1. ASSUME row' = row, SameFinds PROVE Dead(f)'
  BY <1>0, <1>1, DeadAside
<1>2. ASSUME NEW c, req' = [req EXCEPT ![r] = c], c.pc \notin FindingPCs
      PROVE  SameFinds
  BY <1>2, FindsKept
<1>3. CASE RefreshFind(r)
  <2>1. row' = row
    BY <1>3 DEF RefreshFind
  <2>2. CASE row[s].state = "live"
    <3>1. PICK c \in Call : /\ req' = [req EXCEPT ![r] = c]
                            /\ c.pc = "refresh_user" /\ c.session = s
      BY <1>3, <2>2, FindMoves
    <3>2. Used(s)
      BY <1>3 DEF RefreshFind, HolderInv, SessionPCs, RefreshPCs
    <3>3. row[s].family # f
      BY <2>2, <3>2 DEF Dead, Used
    <3>4. ASSUME NEW q \in Requests, req'[q].pc \in FindingPCs
          PROVE  Used(req'[q].session) /\ row[req'[q].session].family # f
      <4>1. CASE q = r
        BY <3>1, <3>2, <3>3, <4>1 DEF TypeOK
      <4>2. CASE q # r
        <5>1. req'[q] = req[q]
          BY <3>1, <4>2 DEF TypeOK
        <5>2. QED
          BY <3>4, <5>1 DEF Dead, HolderInv, FindingPCs, SessionPCs, RefreshPCs
      <4>3. QED
        BY <4>1, <4>2
    <3>5. \A t \in Sessions : row'[t].state = "live" => row'[t].family # f
      BY <2>1 DEF Dead
    <3>6. QED
      BY <1>0, <3>4, <3>5, DeadMoves
  <2>3. CASE row[s].state # "live"
    <3>1. Goto(r, "reply")
      BY <1>3, <2>3 DEF RefreshFind
    <3>2. SameFinds
      BY <3>1, GotoFinds DEF FindingPCs
    <3>3. QED
      BY <1>1, <2>1, <3>2
  <2>4. QED
    BY <2>2, <2>3
<1>4. CASE RefreshUser(r) \/ ResetSpend(r) \/ Reply(r)
  <2>1. row' = row
    BY <1>4 DEF RefreshUser, ResetSpend, Spend, Reply
  <2>2. SameFinds
    BY <1>4, GotoFinds DEF RefreshUser, ResetSpend, Spend, Reply, FindingPCs
  <2>3. QED
    BY <1>1, <2>1, <2>2
<1>5. CASE RefreshDelete(r) \/ LogoutDelete(r)
  <2>1. row' = [row EXCEPT ![s].state = Deleted(s)]
    BY <1>5 DEF RefreshDelete, LogoutDelete
  <2>2. SameFinds
    BY <1>5, GotoFinds DEF RefreshDelete, LogoutDelete, FindingPCs
  <2>3. s \in Sessions
    BY <1>5 DEF RefreshDelete, LogoutDelete, HolderInv, SessionPCs, RefreshPCs, Used
  <2>4. \A t \in Sessions : row'[t].state = "live"
           => row[t].state = "live" /\ row'[t].family = row[t].family
    BY <2>1, <2>3, DeletedRows, FamiliesStay
  <2>5. QED
    BY <1>0, <2>2, <2>4, DeadAside
<1>6. ASSUME NEW pc, NEW next \in {"reset_spend", "change_sweep"},
             WritePassword(r, pc, next)
      PROVE  Dead(f)'
  <2>1. row' = row
    BY <1>6 DEF WritePassword
  <2>2. SameFinds
    BY <1>2, <1>6, WriteMoves DEF PCs, FindingPCs
  <2>3. QED
    BY <1>1, <2>1, <2>2
<1>7. ASSUME NEW pc, NEW kept, Sweep(r, pc, kept) PROVE Dead(f)'
  <2>1. SameFinds
    BY <1>7, SweptRequests, IdleFields DEF SameFinds, FindingPCs
  <2>2. QED
    BY <1>0, <1>7, <2>1, SweptRows, DeadAside
<1>8. CASE Throw(r)
  <2>1. row' = row
    BY <1>8 DEF Throw
  <2>2. SameFinds
    <3>1. CASE Return(r)
      BY <3>1, IdleFields, <1>2 DEF Return, FindingPCs
    <3>2. CASE \E c \in Call : req' = [req EXCEPT ![r] = c] /\ c.pc = "reply"
      BY <3>2, <1>2 DEF FindingPCs
    <3>3. QED
      BY <1>8, <3>1, <3>2, ThrowMoves
  <2>3. QED
    BY <1>1, <2>1, <2>2
<1>9. ASSUME NEW u \in Sessions, RegisterSession(r, u) PROVE Dead(f)'
  <2>1. row'[u].family = u
    BY <1>9 DEF RegisterSession, TypeOK
  <2>2. SameFinds
    BY <1>9, IdleFields, <1>2 DEF RegisterSession, Return, FindingPCs
  <2>3. QED
    BY <1>0, <1>9, <2>1, <2>2, AddedRow, DeadGrows
<1>10. ASSUME NEW u \in Sessions, LoginSession(r, u) \/ RefreshSession(r, u)
       PROVE  Dead(f)'
  <2>1. PICK next \in {"reply", "refresh_delete"} : NewSession(r, u, next)
    BY <1>10 DEF LoginSession, RefreshSession
  <2>2. row'[u].family = IF s = None THEN u ELSE row[s].family
    BY <2>1 DEF NewSession, TypeOK
  <2>3. s = None \/ req[r].pc \in FindingPCs
    BY <1>10 DEF LoginSession, RefreshSession, HolderInv, LoginPCs, FindingPCs
  <2>4. SameFinds
    <3>1. PICK c \in Call : req' = [req EXCEPT ![r] = c] /\ c.pc = next
      BY <2>1, NewMoves DEF PCs
    <3>2. QED
      BY <1>2, <3>1 DEF FindingPCs
  <2>5. QED
    BY <1>0, <2>1, <2>2, <2>3, <2>4, AddedRow, DeadGrows
<1>11. ASSUME NEW g \in Sessions, RefreshBegin(r, g) PROVE Dead(f)'
  <2>1. row' = row
    BY <1>11 DEF RefreshBegin
  <2>2. SameFinds
    BY <1>2, <1>11, RefreshMoves DEF FindingPCs
  <2>3. QED
    BY <1>1, <2>1, <2>2
<1>12. QED
  BY <1>3, <1>4, <1>5, <1>6, <1>7, <1>8, <1>9, <1>10, <1>11
     DEF Loud, ResetWrite, ChangeWrite, ResetSweep, ChangeSweep

LEMMA DeadStep ==
  ASSUME BaseInv, [Next]_vars, NEW f \in Sessions, Dead(f)
  PROVE  Dead(f)'
<1>1. ASSUME NEW s \in Sessions, SignOut(s) \/ SessionEnds(s) PROVE Dead(f)'
  <2>1. SameFinds
    BY <1>1 DEF SignOut, SessionEnds, SameFinds
  <2>2. \A t \in Sessions : row'[t].state = "live"
           => row[t].state = "live" /\ row'[t].family = row[t].family
    <3>1. CASE SignOut(s)
      BY <3>1 DEF SignOut
    <3>2. CASE SessionEnds(s)
      <4>1. /\ row'[s] = [row[s] EXCEPT !.state = "over"]
            /\ \A t \in Sessions \ {s} : row'[t] = row[t]
        BY <3>2 DEF SessionEnds, BaseInv, TypeOK
      <4>2. row'[s].state = "over"
        BY <4>1 DEF BaseInv, TypeOK, Row
      <4>3. QED
        BY <4>1, <4>2
    <3>3. QED
      BY <1>1, <3>1, <3>2
  <2>3. QED
    BY <2>1, <2>2, BaseStep, DeadAside
<1>2. QED
  BY <1>1, QuietOrLoud, DeadQuiet, DeadLoud DEF BaseInv

-----------------------------------------------------------------------------
IInv ==
    /\ BaseInv
    /\ CodesInv
    /\ OldInv
    /\ FamilyInv
    /\ PairInv
    /\ CookieInv

LEMMA InitIInv == Init => IInv
<1> SUFFICES ASSUME Init PROVE IInv
  OBVIOUS
<1>1. /\ \A r \in Requests : req[r] = Idle
      /\ \A s \in Sessions : row[s].state = "unused" /\ row[s].password = 0
      /\ \A f \in Sessions : cookie[f] = None
      /\ account.password = 0 /\ account.codes = {} /\ account.twoFactor = FALSE
  BY DEF Init, NoRow, NoAccount
<1>2. CodesInv
  BY <1>1, IdleFields DEF Init, CodesInv, CodesMatchShown
<1>3. OldInv
  BY <1>1, IdleFields DEF OldInv, OldRows, OldCalls, OpeningPCs
<1>4. FamilyInv
  BY <1>1 DEF FamilyInv, Used
<1>5. \A q \in Requests, f \in Sessions : ~Busy(q, f)
  BY <1>1, IdleFields, NotBusy DEF AnswerPCs, RefreshPCs
<1>6. CookieInv
  BY <1>1, <1>5 DEF CookieInv, CookieOf, Brings, Busy
<1>7. PairInv
  BY <1>1, IdleFields DEF PairInv, AnswerPCs, RefreshPCs
<1>8. QED
  BY <1>2, <1>3, <1>4, <1>6, <1>7, InitBase DEF IInv

LEMMA Always == Spec => []IInv
<1>1. Init => IInv
  BY InitIInv
<1>2. IInv /\ [Next]_vars => IInv'
  BY BaseStep, CodesStep, OldStep, FamilyStep, CookieStep DEF IInv
<1>3. QED
  BY <1>1, <1>2, PTL DEF Spec

\* Every variable has its type in every state that can be reached.
THEOREM AccountsTyped == Spec => []TypeOK
<1>1. IInv => TypeOK
  BY DEF IInv, BaseInv
<1>2. QED
  BY <1>1, Always, PTL

\* verifyLoginTwoFactorCode and confirmTwoFactorSetup: a code that was used is
\* no longer in the row.
THEOREM CodesMatch == Spec => []CodesMatchShown
<1>1. IInv => CodesMatchShown
  BY DEF IInv, CodesInv
<1>2. QED
  BY <1>1, Always, PTL

\* resetPassword and changePassword: a session proved with an older password
\* does not outlive the request that changed it, but by the races named.
THEOREM OldPasswords == Spec => []OldPasswordsEnd
<1>1. IInv => OldPasswordsEnd
  <2> SUFFICES ASSUME IInv, NEW s \in Sessions,
                      row[s].state = "live", row[s].password < account.password
               PROVE  \/ row[s].late
                      \/ history.unfinished
                      \/ \E r \in Requests :
                            req[r].pc \in {"reset_spend", "reset_sweep", "change_sweep"}
    BY DEF OldPasswordsEnd
  <2>1. row[s].late \/ Awaited
    BY DEF IInv, OldInv, OldRows
  <2>2. QED
    BY <2>1 DEF Awaited, PendingPCs
<1>2. QED
  BY <1>1, Always, PTL

\* refresh: however refreshes overlap or fail, one session of each family
\* stays until it is signed out, ends or is deleted for a new password.
THEOREM FamiliesKept == Spec => []FamilyIsKept
<1>1. IInv => FamilyIsKept
  BY DEF IInv, FamilyInv, FamilyIsKept, Stays, Used
<1>2. QED
  BY <1>1, Always, PTL

\* The jwt callback of lib/auth.ts: the cookie holds a session that exists,
\* once the refresh is answered, unless the login was signed out or ended, two
\* refreshes of it overlapped, or the answer to one was lost.
THEOREM CookiesCurrent == Spec => []CookieIsCurrent
<1>1. IInv => CookieIsCurrent
  <2> SUFFICES ASSUME IInv, NEW f \in Sessions, cookie[f] # None,
                      f \notin history.ended \cup history.broken,
                      \A r \in Requests : ~Refreshes(r, f)
               PROVE  row[cookie[f]].state = "live"
    BY DEF CookieIsCurrent
  <2>1. CookieOf(f)
    BY DEF IInv, CookieInv
  <2>2. \A r \in Requests : ~Busy(r, f)
    BY <2>1 DEF CookieOf, Brings, Busy
  <2>3. QED
    BY <2>1, <2>2 DEF CookieOf
<1>2. QED
  BY <1>1, Always, PTL

\* logout, deleteUserSessions and the end of a session: a family that has lost
\* its last row, with no refresh past its check, has none ever again, whatever
\* refreshes, replies, logins and failures follow.
THEOREM DeadStayDead == Spec => DeadFamiliesStay
<1>1. IInv /\ [Next]_vars => [\A f \in Sessions : Dead(f) => Dead(f)']_vars
  BY DeadStep DEF IInv
<1>2. QED
  BY <1>1, Always, PTL DEF Spec, DeadFamiliesStay
=============================================================================
