-------------------------------- MODULE Auth --------------------------------
(***************************************************************************)
(* Who enters the program: passwords and their lockout, the second factor  *)
(* with its recovery codes, recovery tokens, and the users screen.         *)
(*                                                                         *)
(* The login runs in a worker thread with a connection of its own: it      *)
(* reads the user's row, spends a long time in PBKDF2, and writes from     *)
(* what it read.  A change of password, the redemption of a token, the use *)
(* of a recovery code and the confirmation of a second factor also read    *)
(* first and write later, without a transaction around both, and all cajas *)
(* share the table.  The users screen writes in single statements.         *)
(***************************************************************************)
EXTENDS Integers, FiniteSets

CONSTANTS
    Terminals,      \* the cajas
    Users,
    Admin,          \* the user that is neither blocked nor deleted
    Passwords,
    Codes,          \* the recovery codes of a user's second factor
    Tokens,         \* recovery tokens
    Nobody,
    MaxAttempts     \* bound: failed_attempts

MaxFailedAttempts == 3

VARIABLES
    users,          \* the row of users of each name
    tokens,         \* the row of recovery_tokens of each token
    session,        \* AuthController's members, per caja
    job,            \* the handler of each caja between its read and its write
    (* histories *)
    lastSet,        \* the password somebody last chose for a user, and who did
    fails,          \* wrong passwords since the last success, unlock or expiry
    accepted,       \* codes accepted from the user's current set
    redeemed,       \* how often each token was accepted
    overlapped      \* handlers of one kind that have overlapped on one user

vars == <<users, tokens, session, job, lastSet, fails, accepted, redeemed, overlapped>>
histories == <<lastSet, fails, accepted, redeemed>>

(* locked: locked_until is empty, ahead or behind the clock.  totp: no secret,
   a secret not confirmed, totp_enabled. *)
NoRow == [exists |-> FALSE, active |-> FALSE, pass |-> Nobody, legacy |-> FALSE,
          must |-> FALSE, attempts |-> 0, locked |-> "no", totp |-> "off", codes |-> {}]
NoToken == [user |-> Nobody, state |-> "none"]
NoSession == [user |-> Nobody, must |-> FALSE, pending |-> Nobody, pendingMust |-> FALSE]
NoJob == [op |-> "none", user |-> Nobody, pass |-> Nobody, good |-> FALSE,
          legacy |-> FALSE, attempts |-> 0, on |-> FALSE, must |-> FALSE,
          token |-> Nobody, code |-> Nobody, codes |-> {}]

Busy(t) == job[t] # NoJob
LoggedOut(t) == session[t] = NoSession /\ ~Busy(t)

Starts(t, j) ==
    /\ ~Busy(t)
    /\ job' = [job EXCEPT ![t] = j]
    /\ overlapped' = IF \E c \in Terminals : job[c].user = j.user /\ job[c].op = j.op
                     THEN overlapped \cup {<<j.user, j.op>>} ELSE overlapped

Ends(t, op) == job[t].op = op /\ job' = [job EXCEPT ![t] = NoJob]

(* A password is set, perhaps while a login is about to store the old one in
   the new format. *)
Sets(u, p, who) ==
    /\ lastSet' = [lastSet EXCEPT ![u] = [pass |-> p, by |-> who]]
    /\ overlapped' = IF \E c \in Terminals : job[c].user = u /\ job[c].legacy
                     THEN overlapped \cup {<<u, "set">>} ELSE overlapped

Forgiven(u) == fails' = [fails EXCEPT ![u] = 0]

SetRow(u, row) == users' = [users EXCEPT ![u] = row]

(* UPDATE ... WHERE username = u: no row, no change, and no error. *)
UpdateRow(u, row) == users' = IF users[u].exists THEN [users EXCEPT ![u] = row] ELSE users

Unlocked(row) == [row EXCEPT !.attempts = 0, !.locked = "no"]

-----------------------------------------------------------------------------
(* login *)

Verifies_Anything(row, p) == TRUE
Verifies(row, p) == row.pass = p

(* An expired lock is lifted at once; the count written after a wrong
   password still comes from the row as it was read. *)
LoginStart(t, u, p) ==
    LET row == users[u] IN
    /\ LoggedOut(t)
    /\ row.exists /\ row.active /\ row.locked # "yes"
    /\ row.attempts < MaxAttempts
    /\ Starts(t, [NoJob EXCEPT !.op = "login", !.user = u, !.pass = p,
                     !.good = Verifies(row, p), !.legacy = row.legacy,
                     !.attempts = row.attempts, !.on = row.totp = "on",
                     !.must = row.must])
    /\ IF row.locked = "over"
       THEN SetRow(u, Unlocked(row)) /\ Forgiven(u)
       ELSE UNCHANGED <<users, fails>>
    /\ UNCHANGED <<tokens, session, lastSet, accepted, redeemed>>

(* A password stored in an old format is stored again in the new one. *)
Entered(row, j) ==
    IF j.legacy THEN [Unlocked(row) EXCEPT !.pass = j.pass, !.legacy = FALSE]
    ELSE Unlocked(row)

LoginGood(t) ==
    LET j == job[t] IN
    /\ j.good /\ Ends(t, "login")
    /\ UpdateRow(j.user, Entered(users[j.user], j))
    /\ Forgiven(j.user)
    /\ session' = [session EXCEPT ![t] =
                      IF j.on THEN [NoSession EXCEPT !.pending = j.user,
                                                     !.pendingMust = j.must]
                      ELSE [NoSession EXCEPT !.user = j.user, !.must = j.must]]
    /\ UNCHANGED <<tokens, lastSet, accepted, redeemed, overlapped>>

Failed_Same(row, n) == [row EXCEPT !.attempts = n - 1,
                            !.locked = IF n > MaxFailedAttempts THEN "yes" ELSE "no"]
Failed(row, n) == [row EXCEPT !.attempts = n,
                       !.locked = IF n >= MaxFailedAttempts THEN "yes" ELSE "no"]

LoginBad(t) ==
    LET j == job[t] IN
    /\ ~j.good /\ Ends(t, "login")
    /\ UpdateRow(j.user, Failed(users[j.user], j.attempts + 1))
    /\ fails' = [fails EXCEPT ![j.user] = IF users[j.user].exists THEN @ + 1 ELSE @]
    /\ UNCHANGED <<tokens, session, lastSet, accepted, redeemed, overlapped>>

(* The write of any handler fails, or its process dies before it: fail closed. *)
Denied(t) ==
    /\ Busy(t)
    /\ job' = [job EXCEPT ![t] = NoJob]
    /\ UNCHANGED <<users, tokens, session, histories, overlapped>>

(* logout, checkIdle after half an hour, and the death of the process. *)
Logout(t) ==
    /\ session[t] # NoSession /\ ~Busy(t)
    /\ session' = [session EXCEPT ![t] = NoSession]
    /\ UNCHANGED <<users, tokens, job, histories, overlapped>>

-----------------------------------------------------------------------------
(* verifyTotp: the code of the moment, or one recovery code *)

SecondFactorGiven(t) ==
    session' = [session EXCEPT ![t] = [NoSession EXCEPT !.user = session[t].pending,
                                                        !.must = session[t].pendingMust]]

TotpGood(t) ==
    LET u == session[t].pending IN
    /\ u # Nobody /\ ~Busy(t)
    /\ users[u].exists /\ users[u].totp # "off"
    /\ SecondFactorGiven(t)
    /\ UNCHANGED <<users, tokens, job, histories, overlapped>>

CodeStart(t, c) ==
    LET u == session[t].pending IN
    /\ u # Nobody
    /\ users[u].exists /\ c \in users[u].codes
    /\ Starts(t, [NoJob EXCEPT !.op = "code", !.user = u, !.code = c,
                                !.codes = users[u].codes])
    /\ UNCHANGED <<users, tokens, session, histories>>

(* The list read before is written back without the code. *)
Spent_Kept(j) == j.codes
Spent(j) == j.codes \ {j.code}

CodeFinish(t) ==
    LET j == job[t] IN
    /\ Ends(t, "code")
    /\ UpdateRow(j.user, [users[j.user] EXCEPT !.codes = Spent(j)])
    /\ accepted' = [accepted EXCEPT ![j.user] = @ \cup {j.code}]
    /\ SecondFactorGiven(t)
    /\ UNCHANGED <<tokens, lastSet, fails, redeemed, overlapped>>

-----------------------------------------------------------------------------
(* The own password *)

(* changePassword, in the dialog that a password set by somebody else opens. *)
ChangeStart(t, current, new) ==
    LET u == session[t].user IN
    /\ u # Nobody /\ session[t].must /\ new # current
    /\ users[u].exists /\ Verifies(users[u], current)
    /\ Starts(t, [NoJob EXCEPT !.op = "change", !.user = u, !.pass = new])
    /\ UNCHANGED <<users, tokens, session, histories>>

Chosen(row, p) == [Unlocked(row) EXCEPT !.pass = p, !.legacy = FALSE, !.must = FALSE]

ChangeFinish(t) ==
    LET j == job[t] IN
    /\ Ends(t, "change")
    /\ users[j.user].exists
    /\ SetRow(j.user, Chosen(users[j.user], j.pass))
    /\ Sets(j.user, j.pass, "user") /\ Forgiven(j.user)
    /\ session' = [session EXCEPT ![t].must = FALSE]
    /\ UNCHANGED <<tokens, accepted, redeemed>>

RequestRecovery(u, k) ==
    /\ users[u].exists /\ tokens[k].state = "none"
    /\ tokens' = [tokens EXCEPT ![k] = [user |-> u, state |-> "valid"]]
    /\ UNCHANGED <<users, session, job, histories, overlapped>>

Redeemable_Used(k) == tokens[k].state \in {"valid", "used"}
Redeemable(k) == tokens[k].state = "valid"

RedeemStart(t, k, new) ==
    /\ LoggedOut(t)
    /\ Redeemable(k)
    /\ Starts(t, [NoJob EXCEPT !.op = "redeem", !.user = tokens[k].user,
                                !.pass = new, !.token = k])
    /\ UNCHANGED <<users, tokens, session, histories>>

(* Both updates in one transaction; the state of the token is not asked again. *)
RedeemFinish(t) ==
    LET j == job[t] IN
    /\ Ends(t, "redeem")
    /\ users[j.user].exists
    /\ SetRow(j.user, Chosen(users[j.user], j.pass))
    /\ tokens' = [tokens EXCEPT ![j.token].state = "used"]
    /\ Sets(j.user, j.pass, "user") /\ Forgiven(j.user)
    /\ redeemed' = [redeemed EXCEPT ![j.token] = @ + 1]
    /\ UNCHANGED <<session, accepted>>

-----------------------------------------------------------------------------
(* The users screen; resetPassword and updateUser differ in the count only. *)

Imposed_Settled(row, p) == [row EXCEPT !.pass = p, !.legacy = FALSE]
Imposed(row, p) == [row EXCEPT !.pass = p, !.legacy = FALSE, !.must = TRUE]

AddUser(u, p) ==
    /\ ~users[u].exists
    /\ SetRow(u, Imposed([NoRow EXCEPT !.exists = TRUE, !.active = TRUE], p))
    /\ Sets(u, p, "admin") /\ Forgiven(u)
    /\ accepted' = [accepted EXCEPT ![u] = {}]
    /\ UNCHANGED <<tokens, session, job, redeemed>>

ResetPassword(u, p) ==
    /\ users[u].exists
    /\ SetRow(u, Imposed(Unlocked(users[u]), p))
    /\ Sets(u, p, "admin") /\ Forgiven(u)
    /\ UNCHANGED <<tokens, session, job, accepted, redeemed>>

UpdateUser(u, p) ==
    /\ users[u].exists
    /\ SetRow(u, Imposed(users[u], p))
    /\ Sets(u, p, "admin")
    /\ UNCHANGED <<tokens, session, job, fails, accepted, redeemed>>

SetUserActive(u, active) ==
    /\ users[u].exists /\ (u = Admin => active)
    /\ SetRow(u, [Unlocked(users[u]) EXCEPT !.active = active])
    /\ Forgiven(u)
    /\ UNCHANGED <<tokens, session, job, lastSet, accepted, redeemed, overlapped>>

DeleteUser(u) ==
    /\ users[u].exists /\ u # Admin
    /\ SetRow(u, NoRow)
    /\ UNCHANGED <<tokens, session, job, histories, overlapped>>

(* A new secret switches the second factor off until it is confirmed; the
   codes of the former one stay. *)
Enable2fa(u) ==
    /\ users[u].exists
    /\ SetRow(u, [users[u] EXCEPT !.totp = "secret"])
    /\ UNCHANGED <<tokens, session, job, histories, overlapped>>

ConfirmStart(t, u) ==
    /\ users[u].exists /\ users[u].totp # "off"
    /\ session[t].user # Nobody
    /\ Starts(t, [NoJob EXCEPT !.op = "confirm", !.user = u])
    /\ UNCHANGED <<users, tokens, session, histories>>

NewCodes(u) ==
    /\ UpdateRow(u, [users[u] EXCEPT !.totp = "on", !.codes = Codes])
    /\ accepted' = [accepted EXCEPT ![u] = {}]

ConfirmFinish(t) ==
    /\ Ends(t, "confirm")
    /\ NewCodes(job[t].user)
    /\ UNCHANGED <<tokens, session, lastSet, fails, redeemed, overlapped>>

RegenerateRecoveryCodes(u) ==
    /\ users[u].exists /\ users[u].totp = "on"
    /\ NewCodes(u)
    /\ UNCHANGED <<tokens, session, job, lastSet, fails, redeemed, overlapped>>

Disable2fa(u) ==
    /\ users[u].exists
    /\ SetRow(u, [users[u] EXCEPT !.totp = "off", !.codes = {}])
    /\ UNCHANGED <<tokens, session, job, histories, overlapped>>

(* Time: a lock or a token expires. *)
LockExpires(u) ==
    /\ users[u].locked = "yes"
    /\ SetRow(u, [users[u] EXCEPT !.locked = "over"])
    /\ UNCHANGED <<tokens, session, job, histories, overlapped>>

TokenExpires(k) ==
    /\ tokens[k].state = "valid"
    /\ tokens' = [tokens EXCEPT ![k].state = "expired"]
    /\ UNCHANGED <<users, session, job, histories, overlapped>>

-----------------------------------------------------------------------------
(* A database of an earlier version: passwords in an old format. *)
Init ==
    \E p \in Passwords :
        /\ users = [u \in Users |-> [NoRow EXCEPT !.exists = TRUE, !.active = TRUE,
                                                  !.pass = p, !.legacy = TRUE]]
        /\ lastSet = [u \in Users |-> [pass |-> p, by |-> "user"]]
        /\ tokens = [k \in Tokens |-> NoToken]
        /\ session = [t \in Terminals |-> NoSession]
        /\ job = [t \in Terminals |-> NoJob]
        /\ fails = [u \in Users |-> 0]
        /\ accepted = [u \in Users |-> {}]
        /\ redeemed = [k \in Tokens |-> 0]
        /\ overlapped = {}

Enter(t) ==
    \/ \E u \in Users, p \in Passwords : LoginStart(t, u, p)
    \/ LoginGood(t) \/ LoginBad(t)
    \/ TotpGood(t) \/ (\E c \in Codes : CodeStart(t, c)) \/ CodeFinish(t)
    \/ Denied(t) \/ Logout(t)

OwnPassword(t) ==
    \/ \E p, q \in Passwords : ChangeStart(t, p, q)
    \/ ChangeFinish(t)
    \/ \E k \in Tokens, p \in Passwords : RedeemStart(t, k, p)
    \/ RedeemFinish(t)

UsersScreen(u) ==
    \/ \E p \in Passwords : AddUser(u, p) \/ ResetPassword(u, p) \/ UpdateUser(u, p)
    \/ \E active \in BOOLEAN : SetUserActive(u, active)
    \/ DeleteUser(u)
    \/ Enable2fa(u) \/ Disable2fa(u) \/ RegenerateRecoveryCodes(u)
    \/ \E t \in Terminals : ConfirmStart(t, u)

Next ==
    \/ \E t \in Terminals : Enter(t) \/ OwnPassword(t) \/ ConfirmFinish(t)
    \/ \E u \in Users : UsersScreen(u) \/ LockExpires(u)
    \/ \E u \in Users, k \in Tokens : RequestRecovery(u, k)
    \/ \E k \in Tokens : TokenExpires(k)

Spec == Init /\ [][Next]_vars

-----------------------------------------------------------------------------
(* A user's password is the one somebody last set for the user, unless it was
   set while a login was about to store the former one in the new format. *)
PasswordAsSet ==
    \A u \in Users : <<u, "set">> \notin overlapped =>
        (users[u].exists => users[u].pass = lastSet[u].pass)

(* "Clave puesta por un admin: el usuario debe personalizarla al entrar": the
   flag says who chose the password, whatever handlers overlap. *)
MustChangeTellsWho ==
    \A u \in Users : users[u].exists => (users[u].must <=> lastSet[u].by = "admin")

(* "3 intentos fallidos -> 5 min": three wrong passwords in a row lock a user
   of whom no two logins overlapped. *)
ThreeFailuresLock ==
    \A u \in Users : users[u].exists /\ <<u, "login">> \notin overlapped =>
        /\ fails[u] <= users[u].attempts
        /\ fails[u] >= MaxFailedAttempts => users[u].locked # "no"

(* "Codigo de recuperacion (un solo uso: se consume)": a code that was accepted
   is not in the list again. *)
CodesAreSingleUse ==
    \A u \in Users : <<u, "code">> \notin overlapped =>
        users[u].codes \cap accepted[u] = {}

(* "Recovery: token 6-hex, 30 min, 1 uso." *)
TokensAreSingleUse ==
    \A k \in Tokens : <<tokens[k].user, "redeem">> \notin overlapped => redeemed[k] <= 1
=============================================================================
