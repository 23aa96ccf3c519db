------------------------------ MODULE AuthProofs ------------------------------
(***************************************************************************)
(* What the tables of users and tokens promise although every handler that *)
(* checks a secret reads first and writes later, for any cajas, users,     *)
(* passwords, codes and tokens.                                            *)
(*                                                                         *)
(* Each promise is inductive together with one fact about the handlers     *)
(* that run: what a handler carries is still as good as what it read, or   *)
(* another handler of its kind has overlapped it.                          *)
(***************************************************************************)
EXTENDS Auth, TLAPS

Row == [exists : BOOLEAN, active : BOOLEAN, pass : Passwords \cup {Nobody},
        legacy : BOOLEAN, must : BOOLEAN, attempts : Nat,
        locked : {"no", "yes", "over"}, totp : {"off", "secret", "on"},
        codes : SUBSET Codes]

Token == [user : Users \cup {Nobody}, state : {"none", "valid", "used", "expired"}]

Job == [op : {"none", "login", "code", "change", "redeem", "confirm"},
        user : Users \cup {Nobody}, pass : Passwords \cup {Nobody},
        good : BOOLEAN, legacy : BOOLEAN, attempts : Nat, on : BOOLEAN,
        must : BOOLEAN, token : Tokens \cup {Nobody}, code : Codes \cup {Nobody},
        codes : SUBSET Codes]

Session == [user : Users \cup {Nobody}, must : BOOLEAN,
            pending : Users \cup {Nobody}, pendingMust : BOOLEAN]

LastSet == [pass : Passwords \cup {Nobody}, by : {"user", "admin"}]

UsersType ==
    /\ users \in [Users -> Row] /\ lastSet \in [Users -> LastSet]
    /\ fails \in [Users -> Nat] /\ accepted \in [Users -> SUBSET (Codes \cup {Nobody})]

TokensType == tokens \in [Tokens -> Token] /\ redeemed \in [Tokens -> Nat]

TypeOK ==
    /\ UsersType /\ TokensType
    /\ session \in [Terminals -> Session] /\ job \in [Terminals -> Job]

(* The promises about a user; a name that was deleted has no codes. *)
UserOK(u) == LET row == users[u] IN
    /\ ~row.exists => row.codes = {}
    /\ row.exists => (row.must <=> lastSet[u].by = "admin")
    /\ row.exists /\ <<u, "set">> \notin overlapped => row.pass = lastSet[u].pass
    /\ row.exists /\ <<u, "login">> \notin overlapped =>
          /\ fails[u] <= row.attempts
          /\ fails[u] >= MaxFailedAttempts => row.locked # "no"
    /\ <<u, "code">> \notin overlapped => row.codes \cap accepted[u] = {}

(* A token that was not used was not redeemed. *)
TokenOK(k) == LET token == tokens[k] IN
    /\ token.state # "none" => token.user \in Users
    /\ token.state \in {"none", "valid"} => redeemed[k] = 0
    /\ <<token.user, "redeem">> \notin overlapped => redeemed[k] <= 1

(* A login carries the password last set, if it is to store it again, and a
   count that is not behind the failures there were; a use of a code, a list
   without the codes that were accepted; a redemption, a token nobody redeemed. *)
JobOK(t) == LET j == job[t]
                u == job[t].user
            IN
    /\ j.op # "none" => u \in Users
    /\ j.legacy => j.op = "login"
    /\ j.op = "login" /\ j.good /\ j.legacy /\ users[u].exists
          /\ <<u, "set">> \notin overlapped => j.pass = lastSet[u].pass
    /\ j.op = "login" /\ users[u].exists /\ <<u, "login">> \notin overlapped
          => fails[u] <= j.attempts
    /\ j.op = "code" /\ <<u, "code">> \notin overlapped
          => j.codes \cap accepted[u] = {}
    /\ j.op = "redeem" =>
          /\ j.token \in Tokens
          /\ tokens[j.token].user = u /\ tokens[j.token].state # "none"
          /\ <<u, "redeem">> \notin overlapped => redeemed[j.token] = 0

(* Two handlers of one kind at work on one user have overlapped. *)
PairsOverlap ==
    \A t, c \in Terminals :
        t # c /\ job[t].op # "none" /\ job[c].op = job[t].op /\ job[c].user = job[t].user
            => <<job[t].user, job[t].op>> \in overlapped

AuthInv ==
    /\ TypeOK /\ PairsOverlap
    /\ \A u \in Users : UserOK(u)
    /\ \A k \in Tokens : TokenOK(k)
    /\ \A t \in Terminals : JobOK(t)

-----------------------------------------------------------------------------
(* What each handler makes of a row. *)

Same(row, new) == new.exists = row.exists /\ new.must = row.must /\ new.codes = row.codes

LEMMA NoRowType == NoRow \in Row /\ ~NoRow.exists /\ NoRow.codes = {}
  BY DEF NoRow, Row

LEMMA UnlockedRow ==
  ASSUME NEW row \in Row
  PROVE  /\ Unlocked(row) \in Row /\ Same(row, Unlocked(row))
         /\ Unlocked(row).pass = row.pass /\ Unlocked(row).legacy = row.legacy
         /\ Unlocked(row).attempts = 0 /\ Unlocked(row).locked = "no"
  BY DEF Row, Unlocked, Same

LEMMA FailedRow ==
  ASSUME NEW row \in Row, NEW n \in Nat
  PROVE  /\ Failed(row, n) \in Row /\ Same(row, Failed(row, n))
         /\ Failed(row, n).pass = row.pass /\ Failed(row, n).attempts = n
         /\ n >= MaxFailedAttempts => Failed(row, n).locked # "no"
  BY DEF Row, Failed, Same

LEMMA RewrittenRow ==
  ASSUME NEW row \in Row, NEW p \in Passwords \cup {Nobody}
  PROVE  LET new == [row EXCEPT !.pass = p, !.legacy = FALSE] IN
         /\ new \in Row /\ Same(row, new) /\ new.pass = p /\ new.attempts = row.attempts
  BY DEF Row, Same

LEMMA SettledRow ==
  ASSUME NEW row \in Row, NEW p \in Passwords \cup {Nobody}
  PROVE  LET new == [row EXCEPT !.pass = p, !.legacy = FALSE, !.must = FALSE] IN
         /\ new \in Row /\ new.exists = row.exists /\ ~new.must /\ new.codes = row.codes
         /\ new.pass = p /\ new.attempts = row.attempts
  BY DEF Row

LEMMA EnteredRow ==
  ASSUME NEW row \in Row, NEW j \in Job
  PROVE  /\ Entered(row, j) \in Row /\ Same(row, Entered(row, j))
         /\ Entered(row, j).pass = IF j.legacy THEN j.pass ELSE row.pass
         /\ Entered(row, j).attempts = 0
<1>1. Unlocked(row) \in Row /\ Same(row, Unlocked(row)) /\ Unlocked(row).attempts = 0
      /\ Unlocked(row).pass = row.pass
  BY UnlockedRow
<1>2. CASE j.legacy
  <2>1. /\ Entered(row, j) \in Row /\ Same(Unlocked(row), Entered(row, j))
        /\ Entered(row, j).pass = j.pass /\ Entered(row, j).attempts = Unlocked(row).attempts
    <3>1. Entered(row, j) = [Unlocked(row) EXCEPT !.pass = j.pass, !.legacy = FALSE]
      BY <1>2 DEF Entered
    <3>2. j.pass \in Passwords \cup {Nobody}
      BY DEF Job
    <3> QED  BY <1>1, <3>1, <3>2, RewrittenRow
  <2> QED  BY <2>1, <1>1, <1>2 DEF Same
<1>3. CASE ~j.legacy
  BY <1>1, <1>3 DEF Entered
<1> QED  BY <1>2, <1>3

LEMMA ChosenRow ==
  ASSUME NEW row \in Row, NEW p \in Passwords \cup {Nobody}
  PROVE  /\ Chosen(row, p) \in Row
         /\ Chosen(row, p).exists = row.exists /\ ~Chosen(row, p).must
         /\ Chosen(row, p).codes = row.codes /\ Chosen(row, p).pass = p
         /\ Chosen(row, p).attempts = 0
<1>1. Unlocked(row) \in Row /\ Same(row, Unlocked(row)) /\ Unlocked(row).attempts = 0
  BY UnlockedRow
<1> QED  BY <1>1, SettledRow DEF Chosen, Same

LEMMA ImposedRow ==
  ASSUME NEW row \in Row, NEW p \in Passwords
  PROVE  /\ Imposed(row, p) \in Row
         /\ Imposed(row, p).exists = row.exists /\ Imposed(row, p).must
         /\ Imposed(row, p).codes = row.codes /\ Imposed(row, p).pass = p
         /\ Imposed(row, p).attempts = row.attempts
         /\ Imposed(row, p).locked = row.locked
  BY DEF Row, Imposed

-----------------------------------------------------------------------------
(* What a step leaves alone stays as good as it was. *)

SameUser(u) == /\ users'[u] = users[u] /\ lastSet'[u] = lastSet[u]
               /\ fails'[u] = fails[u] /\ accepted'[u] = accepted[u]

SameToken(k) == tokens'[k] = tokens[k] /\ redeemed'[k] = redeemed[k]

LEMMA UserStays ==
  ASSUME NEW u \in Users, UserOK(u), SameUser(u), overlapped \subseteq overlapped'
  PROVE  UserOK(u)'
  BY DEF UserOK, SameUser

LEMMA TokenStays ==
  ASSUME NEW k \in Tokens, TokenOK(k), SameToken(k), overlapped \subseteq overlapped'
  PROVE  TokenOK(k)'
  BY DEF TokenOK, SameToken

LEMMA JobStays ==
  ASSUME NEW t \in Terminals, JobOK(t), job'[t] = job[t], overlapped \subseteq overlapped',
         job[t].op # "none" => SameUser(job[t].user),
         job[t].op = "redeem" => SameToken(job[t].token)
  PROVE  JobOK(t)'
  BY DEF JobOK, SameUser, SameToken

LEMMA NoJobOK ==
  ASSUME NEW t \in Terminals, job'[t] = NoJob
  PROVE  JobOK(t)'
  BY DEF JobOK, NoJob

LEMMA NoJobType == NoJob \in Job /\ NoJob.op = "none"
  BY DEF NoJob, Job

(* A handler that ends makes no new pair. *)
LEMMA EndingPairs ==
  ASSUME PairsOverlap, overlapped \subseteq overlapped',
         \A t \in Terminals : job'[t] = job[t] \/ job'[t] = NoJob
  PROVE  PairsOverlap'
  BY NoJobType DEF PairsOverlap

LEMMA StartingPairs ==
  ASSUME TypeOK, PairsOverlap, NEW t \in Terminals, NEW j \in Job, Starts(t, j), j.op # "none"
  PROVE  /\ PairsOverlap' /\ job' \in [Terminals -> Job]
         /\ overlapped \subseteq overlapped' /\ job'[t] = j
         /\ \A c \in Terminals \ {t} : job'[c] = job[c]
         /\ \A c \in Terminals \ {t} : job[c].user = j.user /\ job[c].op = j.op
                => <<j.user, j.op>> \in overlapped'
<1>1. /\ job' = [job EXCEPT ![t] = j]
      /\ overlapped' = IF \E c \in Terminals : job[c].user = j.user /\ job[c].op = j.op
                       THEN overlapped \cup {<<j.user, j.op>>} ELSE overlapped
  BY DEF Starts
<1>2. job' \in [Terminals -> Job] /\ job'[t] = j /\ \A c \in Terminals \ {t} : job'[c] = job[c]
  BY <1>1 DEF TypeOK
<1>3. overlapped \subseteq overlapped'
  BY <1>1
<1>4. \A c \in Terminals \ {t} : job[c].user = j.user /\ job[c].op = j.op
                => <<j.user, j.op>> \in overlapped'
  BY <1>1
<1>5. PairsOverlap'
  <2> SUFFICES ASSUME NEW a \in Terminals, NEW b \in Terminals, a # b,
                      job'[a].op # "none", job'[b].op = job'[a].op, job'[b].user = job'[a].user
               PROVE  <<job'[a].user, job'[a].op>> \in overlapped'
    BY DEF PairsOverlap
  <2>1. CASE a = t
    BY <2>1, <1>2, <1>4
  <2>2. CASE b = t
    BY <2>2, <1>2, <1>4
  <2>3. CASE a # t /\ b # t
    BY <2>3, <1>2, <1>3 DEF PairsOverlap
  <2> QED  BY <2>1, <2>2, <2>3
<1> QED  BY <1>2, <1>3, <1>4, <1>5

(* What a step has to show. *)
LEMMA AStep ==
  ASSUME AuthInv, TypeOK', PairsOverlap', overlapped \subseteq overlapped',
         \A v \in Users : SameUser(v) \/ UserOK(v)',
         \A k \in Tokens : SameToken(k) \/ TokenOK(k)',
         \A c \in Terminals :
             \/ JobOK(c)'
             \/ /\ job'[c] = job[c]
                /\ job[c].op # "none" => SameUser(job[c].user)
                /\ job[c].op = "redeem" => SameToken(job[c].token)
  PROVE  AuthInv'
<1>1. ASSUME NEW v \in Users PROVE UserOK(v)'
  BY UserStays DEF AuthInv
<1>2. ASSUME NEW k \in Tokens PROVE TokenOK(k)'
  BY TokenStays DEF AuthInv
<1>3. ASSUME NEW c \in Terminals PROVE JobOK(c)'
  BY JobStays DEF AuthInv
<1> QED  BY <1>1, <1>2, <1>3 DEF AuthInv

(* What has ended leaves its terminal without a handler. *)
LEMMA Ending ==
  ASSUME TypeOK, PairsOverlap, NEW t \in Terminals, job' = [job EXCEPT ![t] = NoJob],
         overlapped \subseteq overlapped'
  PROVE  /\ job' \in [Terminals -> Job] /\ PairsOverlap' /\ JobOK(t)'
         /\ \A c \in Terminals \ {t} : job'[c] = job[c]
<1>1. /\ job' \in [Terminals -> Job] /\ job'[t] = NoJob
      /\ \A c \in Terminals \ {t} : job'[c] = job[c]
  BY NoJobType DEF TypeOK
<1> QED  BY <1>1, EndingPairs, NoJobOK

(* Whoever sets a password meets the logins that carry an old one. *)
LEMMA Setting ==
  ASSUME NEW u \in Users, NEW p \in Passwords \cup {Nobody}, NEW who \in {"user", "admin"},
         TypeOK, Sets(u, p, who)
  PROVE  /\ lastSet' \in [Users -> LastSet]
         /\ lastSet'[u].pass = p /\ lastSet'[u].by = who
         /\ \A v \in Users \ {u} : lastSet'[v] = lastSet[v]
         /\ overlapped \subseteq overlapped'
         /\ \A t \in Terminals : job[t].user = u /\ job[t].legacy
                => <<u, "set">> \in overlapped'
  BY DEF TypeOK, UsersType, LastSet, Sets

(* What a running handler carries of a user is as good after the step as it
   was, or the step has overlapped it. *)
Carries(c, u) ==
    /\ users'[u].exists /\ job[c].legacy =>
          \/ <<u, "set">> \in overlapped'
          \/ users[u].exists /\ lastSet'[u] = lastSet[u]
    /\ users'[u].exists /\ job[c].op = "login" =>
          \/ <<u, "login">> \in overlapped'
          \/ fails'[u] = 0
          \/ users[u].exists /\ fails'[u] = fails[u]
    /\ job[c].op = "code" =>
          <<u, "code">> \in overlapped' \/ accepted'[u] \subseteq accepted[u]
    /\ job[c].op = "redeem" =>
          \/ SameToken(job[c].token)
          \/ /\ <<u, "redeem">> \in overlapped'
             /\ tokens'[job[c].token].user = u /\ tokens'[job[c].token].state # "none"

LEMMA CarriedStays ==
  ASSUME NEW c \in Terminals, NEW u \in Users, TypeOK, TypeOK', JobOK(c), job'[c] = job[c],
         job[c].user = u, overlapped \subseteq overlapped', Carries(c, u)
  PROVE  JobOK(c)'
<1>1. job[c] \in Job /\ job[c].attempts \in Nat
  BY DEF TypeOK, Job
<1> QED  BY <1>1 DEF JobOK, SameToken, Carries

(* A handler starts and nothing else changes. *)
LEMMA OneStart ==
  ASSUME AuthInv, NEW t \in Terminals, NEW j \in Job, j.op # "none", Starts(t, j),
         UNCHANGED <<users, tokens, session, histories>>,
         JobOK(t)'
  PROVE  AuthInv'
<1>1. UNCHANGED <<users, tokens, session, lastSet, fails, accepted, redeemed>>
  BY DEF histories
<1>2. /\ PairsOverlap' /\ job' \in [Terminals -> Job] /\ overlapped \subseteq overlapped'
      /\ \A c \in Terminals \ {t} : job'[c] = job[c]
  BY StartingPairs DEF AuthInv
<1>3. TypeOK' /\ (\A v : SameUser(v)) /\ \A k : SameToken(k)
  BY <1>1, <1>2 DEF AuthInv, TypeOK, UsersType, TokensType, SameUser, SameToken
<1> QED  BY <1>2, <1>3, AStep

(* The users screen, the clock: what is known of one user changes. *)
LEMMA OneUser ==
  ASSUME AuthInv, NEW u \in Users, UsersType', UNCHANGED <<tokens, session, job, redeemed>>,
         overlapped \subseteq overlapped', \A v \in Users \ {u} : SameUser(v),
         UserOK(u)', \A c \in Terminals : job[c].user = u => Carries(c, u)
  PROVE  AuthInv'
<1>1. TypeOK' /\ \A k : SameToken(k)
  BY DEF AuthInv, TypeOK, TokensType, SameToken
<1>2. PairsOverlap'
  BY EndingPairs DEF AuthInv
<1>3. ASSUME NEW c \in Terminals, job[c].user = u PROVE JobOK(c)'
  BY <1>1, <1>3, CarriedStays DEF AuthInv
<1>4. ASSUME NEW c \in Terminals, job[c].user # u, job[c].op # "none"
      PROVE  SameUser(job[c].user)
  BY <1>4 DEF AuthInv, JobOK
<1> QED  BY <1>1, <1>2, <1>3, <1>4, AStep

(* The same by a handler, that ends. *)
LEMMA OneWrite ==
  ASSUME AuthInv, NEW t \in Terminals, NEW u \in Users, job' = [job EXCEPT ![t] = NoJob],
         UsersType', TokensType', session' \in [Terminals -> Session],
         overlapped \subseteq overlapped', \A v \in Users \ {u} : SameUser(v),
         UserOK(u)',
         \A k \in Tokens : SameToken(k) \/ (TokenOK(k)' /\ tokens[k].user = u),
         \A c \in Terminals \ {t} : job[c].user = u => Carries(c, u)
  PROVE  AuthInv'
<1>1. TypeOK /\ PairsOverlap
  BY DEF AuthInv
<1>2. /\ job' \in [Terminals -> Job] /\ PairsOverlap' /\ JobOK(t)'
      /\ \A c \in Terminals \ {t} : job'[c] = job[c]
  BY <1>1, Ending
<1>3. TypeOK'
  BY <1>2 DEF TypeOK
<1>4. ASSUME NEW c \in Terminals \ {t}, job[c].user = u PROVE JobOK(c)'
  BY <1>1, <1>2, <1>3, <1>4, CarriedStays DEF AuthInv
<1>5. ASSUME NEW c \in Terminals \ {t}, job[c].user # u
      PROVE  /\ job[c].op # "none" => SameUser(job[c].user)
             /\ job[c].op = "redeem" => SameToken(job[c].token)
  BY <1>5 DEF AuthInv, JobOK
<1> QED  BY <1>2, <1>3, <1>4, <1>5, AStep

(* The user a handler works for, and the handlers of the same kind. *)
LEMMA Handler ==
  ASSUME AuthInv, NEW t \in Terminals, job[t].op # "none"
  PROVE  /\ job[t] \in Job /\ JobOK(t) /\ job[t].user \in Users
         /\ UserOK(job[t].user) /\ users[job[t].user] \in Row
         /\ \A c \in Terminals \ {t} : job[c].op = job[t].op /\ job[c].user = job[t].user
                => <<job[t].user, job[t].op>> \in overlapped
<1>1. job[t] \in Job /\ JobOK(t) /\ job[t].user \in Users
  BY DEF AuthInv, TypeOK, JobOK
<1>2. UserOK(job[t].user) /\ users[job[t].user] \in Row
  BY <1>1 DEF AuthInv, TypeOK, UsersType
<1> QED  BY <1>1, <1>2 DEF AuthInv, PairsOverlap

(* A write that finds no row changes none. *)
LEMMA RowWritten ==
  ASSUME TypeOK, NEW u \in Users, NEW row \in Row, UpdateRow(u, row)
  PROVE  /\ users' \in [Users -> Row] /\ \A v \in Users \ {u} : users'[v] = users[v]
         /\ users'[u] = IF users[u].exists THEN row ELSE users[u]
  BY DEF TypeOK, UsersType, UpdateRow

-----------------------------------------------------------------------------
(* The login *)

LEMMA LoginGoodKeeps ==
  ASSUME AuthInv, NEW t \in Terminals, LoginGood(t)
  PROVE  AuthInv'
<1>1. /\ job[t].good /\ job[t].op = "login" /\ job' = [job EXCEPT ![t] = NoJob]
      /\ UNCHANGED <<lastSet, accepted, overlapped, tokens, redeemed>>
      /\ UpdateRow(job[t].user, Entered(users[job[t].user], job[t]))
      /\ fails' = [fails EXCEPT ![job[t].user] = 0]
  BY DEF LoginGood, Ends, Forgiven
<1>2. PICK u \in Users, j \in Job : u = j.user /\ j = job[t]
  BY <1>1, Handler
<1>3. TypeOK /\ JobOK(t) /\ UserOK(u) /\ users[u] \in Row
  BY <1>1, <1>2, Handler DEF AuthInv
<1>4. PICK row \in Row : /\ row = Entered(users[u], j) /\ Same(users[u], row)
                         /\ row.attempts = 0
                         /\ row.pass = IF j.legacy THEN j.pass ELSE users[u].pass
  BY <1>3, EnteredRow
<1>5. /\ users' \in [Users -> Row] /\ \A v \in Users \ {u} : users'[v] = users[v]
      /\ users'[u] = IF users[u].exists THEN row ELSE users[u]
  BY <1>1, <1>2, <1>3, <1>4, RowWritten
<1>6. /\ UsersType' /\ TokensType' /\ fails'[u] = 0
      /\ (\A v \in Users \ {u} : SameUser(v)) /\ \A k : SameToken(k)
  BY <1>1, <1>2, <1>3, <1>5 DEF TypeOK, UsersType, TokensType, SameUser, SameToken
<1>7. session' \in [Terminals -> Session]
  BY <1>1, <1>2, <1>3 DEF LoginGood, TypeOK, Session, NoSession, Job
<1>8. UserOK(u)'
  <2>1. <<u, "set">> \notin overlapped /\ users[u].exists => row.pass = lastSet[u].pass
    BY <1>1, <1>2, <1>3, <1>4 DEF UserOK, JobOK
  <2> QED
    BY <1>1, <1>3, <1>4, <1>5, <1>6, <2>1 DEF UserOK, Same, MaxFailedAttempts
<1>9. ASSUME NEW c \in Terminals \ {t}, job[c].user = u PROVE Carries(c, u)
  BY <1>1, <1>4, <1>5, <1>6 DEF Carries, Same, SameToken
<1> QED  BY <1>1, <1>2, <1>6, <1>7, <1>8, <1>9, OneWrite

LEMMA LoginBadKeeps ==
  ASSUME AuthInv, NEW t \in Terminals, LoginBad(t)
  PROVE  AuthInv'
<1>1. /\ job[t].op = "login" /\ job' = [job EXCEPT ![t] = NoJob]
      /\ UNCHANGED <<lastSet, accepted, overlapped, tokens, redeemed, session>>
      /\ UpdateRow(job[t].user, Failed(users[job[t].user], job[t].attempts + 1))
      /\ fails' = [fails EXCEPT ![job[t].user] =
                      IF users[job[t].user].exists THEN @ + 1 ELSE @]
  BY DEF LoginBad, Ends
<1>2. PICK u \in Users, j \in Job : u = j.user /\ j = job[t]
  BY <1>1, Handler
<1>3. TypeOK /\ JobOK(t) /\ UserOK(u) /\ users[u] \in Row /\ fails[u] \in Nat
  BY <1>1, <1>2, Handler DEF AuthInv, TypeOK, UsersType
<1>4. PICK n \in Nat : n = j.attempts + 1
  BY DEF Job
<1>5. PICK row \in Row : /\ row = Failed(users[u], n) /\ Same(users[u], row)
                         /\ row.pass = users[u].pass /\ row.attempts = n
                         /\ n >= MaxFailedAttempts => row.locked # "no"
  BY <1>3, FailedRow
<1>6. /\ users' \in [Users -> Row] /\ \A v \in Users \ {u} : users'[v] = users[v]
      /\ users'[u] = IF users[u].exists THEN row ELSE users[u]
  BY <1>1, <1>2, <1>3, <1>4, <1>5, RowWritten
<1>7. /\ UsersType' /\ TokensType' /\ session' \in [Terminals -> Session]
      /\ fails'[u] = IF users[u].exists THEN fails[u] + 1 ELSE fails[u]
      /\ (\A v \in Users \ {u} : SameUser(v)) /\ \A k : SameToken(k)
  BY <1>1, <1>2, <1>3, <1>6 DEF TypeOK, UsersType, TokensType, SameUser, SameToken
<1>8. UserOK(u)'
  <2>1. users[u].exists /\ <<u, "login">> \notin overlapped => fails[u] + 1 <= n
    BY <1>1, <1>2, <1>3, <1>4 DEF JobOK, Job
  <2> QED
    BY <1>1, <1>3, <1>5, <1>6, <1>7, <2>1 DEF UserOK, Same, MaxFailedAttempts
<1>9. ASSUME NEW c \in Terminals \ {t}, job[c].user = u PROVE Carries(c, u)
  <2>1. job[c].op = "login" => <<u, "login">> \in overlapped
    BY <1>1, <1>2, <1>9, Handler
  <2> QED  BY <1>1, <1>5, <1>6, <1>7, <2>1 DEF Carries, Same, SameToken
<1> QED  BY <1>1, <1>2, <1>7, <1>8, <1>9, OneWrite

LEMMA LoginStartKeeps ==
  ASSUME AuthInv, NEW t \in Terminals, NEW u \in Users, NEW p \in Passwords,
         LoginStart(t, u, p)
  PROVE  AuthInv'
<1>1. TypeOK /\ PairsOverlap /\ UserOK(u) /\ users[u] \in Row /\ fails[u] \in Nat
  BY DEF AuthInv, TypeOK, UsersType
<1>2. /\ users[u].exists /\ UNCHANGED <<tokens, session, lastSet, accepted, redeemed>>
      /\ IF users[u].locked = "over"
         THEN users' = [users EXCEPT ![u] = Unlocked(users[u])] /\ fails' = [fails EXCEPT ![u] = 0]
         ELSE UNCHANGED <<users, fails>>
  BY DEF LoginStart, SetRow, Forgiven
<1>3. PICK j \in Job :
        /\ Starts(t, j) /\ j.op = "login" /\ j.user = u /\ j.pass = p
        /\ j.good => users[u].pass = p
        /\ j.legacy = users[u].legacy /\ j.attempts = users[u].attempts
  <2> DEFINE good == Verifies(users[u], p)
             on == users[u].totp = "on"
  <2>1. good \in BOOLEAN /\ on \in BOOLEAN /\ (good => users[u].pass = p)
    BY DEF Verifies
  <2>2. PICK j : /\ Starts(t, j)
                 /\ j = [NoJob EXCEPT !.op = "login", !.user = u, !.pass = p, !.good = good,
                            !.legacy = users[u].legacy, !.attempts = users[u].attempts,
                            !.on = on, !.must = users[u].must]
    BY DEF LoginStart
  <2> HIDE DEF good, on
  <2>3. /\ j \in Job /\ j.op = "login" /\ j.user = u /\ j.pass = p
        /\ j.good = good
        /\ j.legacy = users[u].legacy /\ j.attempts = users[u].attempts
    BY <1>1, <2>1, <2>2 DEF NoJob, Job, Row
  <2> QED  BY <2>1, <2>2, <2>3
<1>4. /\ PairsOverlap' /\ job' \in [Terminals -> Job] /\ overlapped \subseteq overlapped'
      /\ job'[t] = j /\ \A c \in Terminals \ {t} : job'[c] = job[c]
      /\ \A c \in Terminals \ {t} : job[c].user = u /\ job[c].op = "login"
             => <<u, "login">> \in overlapped'
  BY <1>1, <1>3, StartingPairs
<1>5. /\ UsersType' /\ Same(users[u], users'[u]) /\ users'[u].pass = users[u].pass
      /\ \/ fails'[u] = 0 /\ users'[u].attempts = 0
         \/ fails'[u] = fails[u] /\ users'[u] = users[u]
      /\ \A v \in Users \ {u} : SameUser(v)
  <2>1. CASE users[u].locked = "over"
    <3>1. PICK row \in Row : /\ row = Unlocked(users[u]) /\ Same(users[u], row)
                             /\ row.pass = users[u].pass /\ row.attempts = 0
      BY <1>1, UnlockedRow
    <3> QED  BY <1>1, <1>2, <2>1, <3>1 DEF TypeOK, UsersType, SameUser
  <2>2. CASE users[u].locked # "over"
    BY <1>1, <1>2, <2>2 DEF TypeOK, UsersType, SameUser, Same
  <2> QED  BY <2>1, <2>2
<1>6. TypeOK' /\ \A k : SameToken(k)
  BY <1>1, <1>2, <1>4, <1>5 DEF TypeOK, TokensType, SameToken
<1>7. UserOK(u)'
  BY <1>1, <1>2, <1>4, <1>5 DEF UserOK, Same, MaxFailedAttempts
<1>8. JobOK(t)'
  <2>1. j.good /\ <<u, "set">> \notin overlapped' => j.pass = lastSet'[u].pass
    BY <1>1, <1>2, <1>3, <1>4 DEF UserOK
  <2>2. <<u, "login">> \notin overlapped' => fails'[u] <= j.attempts
    BY <1>1, <1>2, <1>3, <1>4, <1>5 DEF UserOK, Row
  <2> QED  BY <1>3, <1>4, <2>1, <2>2 DEF JobOK
<1>9. ASSUME NEW c \in Terminals \ {t}, job[c].user = u PROVE JobOK(c)'
  <2>1. Carries(c, u)
    BY <1>2, <1>4, <1>5, <1>6, <1>9 DEF Carries
  <2> QED  BY <2>1, <1>1, <1>4, <1>6, <1>9, CarriedStays DEF AuthInv
<1>10. ASSUME NEW c \in Terminals, job[c].user # u, job[c].op # "none"
       PROVE  SameUser(job[c].user)
  BY <1>5, <1>10 DEF AuthInv, JobOK
<1> QED  BY <1>4, <1>5, <1>6, <1>7, <1>8, <1>9, <1>10, AStep

(* Nothing of users, tokens and what was promised of them. *)
LEMMA Quiet ==
  ASSUME AuthInv, session' \in [Terminals -> Session], NEW t \in Terminals,
         job' = job \/ job' = [job EXCEPT ![t] = NoJob],
         UNCHANGED <<users, tokens, histories, overlapped>>
  PROVE  AuthInv'
<1>1. UNCHANGED <<users, tokens, lastSet, fails, accepted, redeemed>>
  BY DEF histories
<1>2. /\ PairsOverlap' /\ job' \in [Terminals -> Job]
      /\ \A c \in Terminals : job'[c] = job[c] \/ JobOK(c)'
  <2>1. CASE job' = job
    BY <2>1, EndingPairs DEF AuthInv, TypeOK
  <2>2. CASE job' = [job EXCEPT ![t] = NoJob]
    BY <2>2, Ending DEF AuthInv
  <2> QED  BY <2>1, <2>2
<1>3. TypeOK' /\ (\A v : SameUser(v)) /\ \A k : SameToken(k)
  BY <1>1, <1>2 DEF AuthInv, TypeOK, UsersType, TokensType, SameUser, SameToken
<1> QED  BY <1>2, <1>3, AStep

LEMMA SecondFactorType ==
  ASSUME TypeOK, NEW t \in Terminals, SecondFactorGiven(t)
  PROVE  session' \in [Terminals -> Session]
  BY DEF TypeOK, SecondFactorGiven, Session, NoSession

LEMMA QuietSteps ==
  ASSUME AuthInv, NEW t \in Terminals, Denied(t) \/ Logout(t) \/ TotpGood(t)
  PROVE  AuthInv'
<1>1. session' \in [Terminals -> Session]
  <2>1. CASE Denied(t)
    BY <2>1 DEF Denied, AuthInv, TypeOK
  <2>2. CASE Logout(t)
    BY <2>2 DEF Logout, AuthInv, TypeOK, Session, NoSession
  <2>3. CASE TotpGood(t)
    BY <2>3, SecondFactorType DEF TotpGood, AuthInv
  <2> QED  BY <2>1, <2>2, <2>3
<1> QED  BY <1>1, Quiet DEF Denied, Logout, TotpGood

-----------------------------------------------------------------------------
(* Recovery codes *)

LEMMA CodeStartKeeps ==
  ASSUME AuthInv, NEW t \in Terminals, NEW c \in Codes, CodeStart(t, c)
  PROVE  AuthInv'
<1>1. PICK u \in Users : u = session[t].pending
  BY DEF CodeStart, AuthInv, TypeOK, Session
<1>2. UserOK(u) /\ users[u].codes \in SUBSET Codes
  BY DEF AuthInv, TypeOK, UsersType, Row
<1>3. PICK j \in Job : /\ Starts(t, j) /\ j.op = "code" /\ j.user = u /\ ~j.legacy
                       /\ j.codes = users[u].codes
  <2>1. PICK j : /\ Starts(t, j)
                 /\ j = [NoJob EXCEPT !.op = "code", !.user = u, !.code = c,
                                       !.codes = users[u].codes]
    BY <1>1 DEF CodeStart
  <2>2. j \in Job /\ j.op = "code" /\ j.user = u /\ ~j.legacy /\ j.codes = users[u].codes
    BY <1>2, <2>1 DEF NoJob, Job
  <2> QED  BY <2>1, <2>2
<1>4. UNCHANGED <<users, tokens, session, histories>> /\ UNCHANGED accepted
  BY DEF CodeStart, histories
<1>5. overlapped \subseteq overlapped' /\ job'[t] = j
  BY <1>3, StartingPairs DEF AuthInv
<1>6. JobOK(t)'
  BY <1>2, <1>3, <1>4, <1>5 DEF JobOK, UserOK
<1> QED  BY <1>3, <1>4, <1>6, OneStart

LEMMA CodesRow ==
  ASSUME NEW row \in Row, NEW codes \in SUBSET Codes
  PROVE  LET new == [row EXCEPT !.codes = codes] IN
         /\ new \in Row /\ new.exists = row.exists /\ new.must = row.must
         /\ new.pass = row.pass /\ new.attempts = row.attempts /\ new.locked = row.locked
         /\ new.codes = codes
  BY DEF Row

LEMMA CodeFinishKeeps ==
  ASSUME AuthInv, NEW t \in Terminals, CodeFinish(t)
  PROVE  AuthInv'
<1>1. /\ job[t].op = "code" /\ job' = [job EXCEPT ![t] = NoJob]
      /\ UNCHANGED <<lastSet, fails, overlapped, tokens, redeemed>>
      /\ UpdateRow(job[t].user, [users[job[t].user] EXCEPT !.codes = Spent(job[t])])
      /\ accepted' = [accepted EXCEPT ![job[t].user] = @ \cup {job[t].code}]
  BY DEF CodeFinish, Ends
<1>2. PICK u \in Users, j \in Job : u = j.user /\ j = job[t]
  BY <1>1, Handler
<1>3. TypeOK /\ JobOK(t) /\ UserOK(u) /\ users[u] \in Row
  BY <1>1, <1>2, Handler DEF AuthInv
<1>4. Spent(j) \in SUBSET Codes /\ j.code \in Codes \cup {Nobody}
  BY DEF Spent, Job
<1>5. PICK row \in Row :
        /\ row = [users[u] EXCEPT !.codes = Spent(j)]
        /\ row.exists = users[u].exists /\ row.must = users[u].must
        /\ row.pass = users[u].pass /\ row.attempts = users[u].attempts
        /\ row.locked = users[u].locked /\ row.codes = Spent(j)
  BY <1>3, <1>4, CodesRow
<1>6. /\ users' \in [Users -> Row] /\ \A v \in Users \ {u} : users'[v] = users[v]
      /\ users'[u] = IF users[u].exists THEN row ELSE users[u]
  BY <1>1, <1>2, <1>3, <1>5, RowWritten
<1>7. /\ UsersType' /\ TokensType' /\ accepted'[u] = accepted[u] \cup {j.code}
      /\ (\A v \in Users \ {u} : SameUser(v)) /\ \A k : SameToken(k)
  BY <1>1, <1>2, <1>3, <1>4, <1>6 DEF TypeOK, UsersType, TokensType, SameUser, SameToken
<1>8. session' \in [Terminals -> Session]
  BY <1>3, SecondFactorType DEF CodeFinish
<1>9. UserOK(u)'
  <2>1. <<u, "code">> \notin overlapped => Spent(j) \cap accepted'[u] = {}
    BY <1>1, <1>2, <1>3, <1>7 DEF JobOK, Spent
  <2> QED  BY <1>1, <1>3, <1>5, <1>6, <1>7, <2>1 DEF UserOK
<1>10. ASSUME NEW c \in Terminals \ {t}, job[c].user = u PROVE Carries(c, u)
  <2>1. job[c].op = "code" => <<u, "code">> \in overlapped
    BY <1>1, <1>2, <1>10, Handler
  <2> QED  BY <1>1, <1>5, <1>6, <1>7, <2>1 DEF Carries
<1> QED  BY <1>1, <1>2, <1>7, <1>8, <1>9, <1>10, OneWrite

-----------------------------------------------------------------------------
(* Passwords that are set, and the rest of a row. *)

Written(u, row) ==
    /\ users' \in [Users -> Row] /\ users'[u] = row
    /\ \A v \in Users \ {u} : users'[v] = users[v]

LEMMA RowSet ==
  ASSUME TypeOK, NEW u \in Users, NEW row \in Row, SetRow(u, row)
  PROVE  Written(u, row)
  BY DEF TypeOK, UsersType, SetRow, Written

(* What setting a password, or touching a row, does to the user. *)
Kept(u) ==
    /\ UsersType' /\ UserOK(u)' /\ overlapped \subseteq overlapped'
    /\ \A v \in Users \ {u} : SameUser(v)

LEMMA PasswordWritten ==
  ASSUME AuthInv, NEW u \in Users, NEW row \in Row,
         NEW p \in Passwords \cup {Nobody}, NEW who \in {"user", "admin"},
         row.exists, row.pass = p, row.must <=> who = "admin",
         Written(u, row), Sets(u, p, who),
         \/ fails' = [fails EXCEPT ![u] = 0]
         \/ /\ fails' = fails /\ users[u].exists
            /\ row.attempts = users[u].attempts /\ row.locked = users[u].locked,
         \/ accepted' = accepted /\ row.codes = users[u].codes
         \/ accepted' = [accepted EXCEPT ![u] = {}]
  PROVE  /\ Kept(u)
         /\ \A c \in Terminals :
               /\ job[c].user = u
               /\ job[c].op = "redeem" =>
                     \/ SameToken(job[c].token)
                     \/ /\ <<u, "redeem">> \in overlapped'
                        /\ tokens'[job[c].token].user = u
                        /\ tokens'[job[c].token].state # "none"
               => Carries(c, u)
<1>1. TypeOK /\ UserOK(u) /\ users[u] \in Row /\ fails[u] \in Nat
  BY DEF AuthInv, TypeOK, UsersType
<1>2. /\ lastSet' \in [Users -> LastSet] /\ lastSet'[u].pass = p /\ lastSet'[u].by = who
      /\ \A v \in Users \ {u} : lastSet'[v] = lastSet[v]
      /\ overlapped \subseteq overlapped'
      /\ \A c \in Terminals : job[c].user = u /\ job[c].legacy => <<u, "set">> \in overlapped'
  BY <1>1, Setting
<1>3. /\ fails' \in [Users -> Nat] /\ \A v \in Users \ {u} : fails'[v] = fails[v]
      /\ \/ fails'[u] = 0
         \/ /\ fails'[u] = fails[u] /\ users[u].exists
            /\ row.attempts = users[u].attempts /\ row.locked = users[u].locked
  BY <1>1 DEF TypeOK, UsersType
<1>4. /\ accepted' \in [Users -> SUBSET (Codes \cup {Nobody})]
      /\ \A v \in Users \ {u} : accepted'[v] = accepted[v]
      /\ \/ accepted'[u] = accepted[u] /\ row.codes = users[u].codes
         \/ accepted'[u] = {}
  BY <1>1 DEF TypeOK, UsersType
<1>5. UsersType' /\ \A v \in Users \ {u} : SameUser(v)
  BY <1>2, <1>3, <1>4 DEF UsersType, SameUser, Written
<1>6. UserOK(u)'
  <2>1. <<u, "login">> \notin overlapped' =>
           fails'[u] <= row.attempts /\ (fails'[u] >= MaxFailedAttempts => row.locked # "no")
    BY <1>1, <1>2, <1>3 DEF UserOK, MaxFailedAttempts, Row
  <2>2. <<u, "code">> \notin overlapped' => row.codes \cap accepted'[u] = {}
    BY <1>1, <1>2, <1>4 DEF UserOK
  <2> QED  BY <1>2, <2>1, <2>2 DEF UserOK, Written
<1>7. ASSUME NEW c \in Terminals, job[c].user = u,
             job[c].op = "redeem" =>
                 \/ SameToken(job[c].token)
                 \/ /\ <<u, "redeem">> \in overlapped'
                    /\ tokens'[job[c].token].user = u
                    /\ tokens'[job[c].token].state # "none"
      PROVE  Carries(c, u)
  BY <1>2, <1>3, <1>4, <1>7 DEF Carries
<1> QED  BY <1>2, <1>5, <1>6, <1>7 DEF Kept

LEMMA RowTouched ==
  ASSUME AuthInv, NEW u \in Users, NEW row \in Row, Written(u, row),
         row.exists = users[u].exists, row.must = users[u].must, row.pass = users[u].pass,
         ~row.exists => row.codes = {},
         UNCHANGED <<tokens, redeemed, lastSet, overlapped>>,
         \/ fails' = [fails EXCEPT ![u] = 0]
         \/ /\ fails' = fails /\ row.attempts = users[u].attempts
            /\ users[u].locked # "no" => row.locked # "no",
         \/ accepted' = accepted /\ row.codes \subseteq users[u].codes
         \/ accepted' = [accepted EXCEPT ![u] = {}]
  PROVE  Kept(u) /\ \A c : Carries(c, u)
<1>1. TypeOK /\ UserOK(u) /\ users[u] \in Row /\ fails[u] \in Nat
  BY DEF AuthInv, TypeOK, UsersType
<1>2. /\ fails' \in [Users -> Nat] /\ \A v \in Users \ {u} : fails'[v] = fails[v]
      /\ \/ fails'[u] = 0
         \/ /\ fails'[u] = fails[u] /\ row.attempts = users[u].attempts
            /\ users[u].locked # "no" => row.locked # "no"
  BY <1>1 DEF TypeOK, UsersType
<1>3. /\ accepted' \in [Users -> SUBSET (Codes \cup {Nobody})]
      /\ \A v \in Users \ {u} : accepted'[v] = accepted[v]
      /\ \/ accepted'[u] = accepted[u] /\ row.codes \subseteq users[u].codes
         \/ accepted'[u] = {}
  BY <1>1 DEF TypeOK, UsersType
<1>4. UsersType' /\ \A v \in Users \ {u} : SameUser(v)
  BY <1>1, <1>2, <1>3 DEF TypeOK, UsersType, SameUser, Written
<1>5. UserOK(u)'
  <2>1. users[u].exists /\ <<u, "login">> \notin overlapped =>
           fails'[u] <= row.attempts /\ (fails'[u] >= MaxFailedAttempts => row.locked # "no")
    BY <1>1, <1>2 DEF UserOK, MaxFailedAttempts, Row
  <2>2. <<u, "code">> \notin overlapped => row.codes \cap accepted'[u] = {}
    BY <1>1, <1>3 DEF UserOK
  <2> QED  BY <1>1, <2>1, <2>2 DEF UserOK, Written
<1>6. ASSUME NEW c PROVE Carries(c, u)
  BY <1>2, <1>3 DEF Carries, SameToken, Written
<1> QED  BY <1>4, <1>5, <1>6 DEF Kept

LEMMA ChangeStartKeeps ==
  ASSUME AuthInv, NEW t \in Terminals, NEW p \in Passwords, NEW q \in Passwords,
         ChangeStart(t, p, q)
  PROVE  AuthInv'
<1>1. PICK u \in Users : u = session[t].user
  BY DEF ChangeStart, AuthInv, TypeOK, Session
<1>2. PICK j : Starts(t, j) /\ j = [NoJob EXCEPT !.op = "change", !.user = u, !.pass = q]
  BY <1>1 DEF ChangeStart
<1>3. j \in Job /\ j.op = "change" /\ j.user = u /\ ~j.legacy
  BY <1>2 DEF NoJob, Job
<1>4. job'[t] = j
  BY <1>2, <1>3, StartingPairs DEF AuthInv
<1>5. JobOK(t)'
  BY <1>3, <1>4 DEF JobOK
<1> QED  BY <1>2, <1>3, <1>5, OneStart DEF ChangeStart

LEMMA ChangeFinishKeeps ==
  ASSUME AuthInv, NEW t \in Terminals, ChangeFinish(t)
  PROVE  AuthInv'
<1>1. /\ job[t].op = "change" /\ job' = [job EXCEPT ![t] = NoJob]
      /\ users[job[t].user].exists
      /\ SetRow(job[t].user, Chosen(users[job[t].user], job[t].pass))
      /\ Sets(job[t].user, job[t].pass, "user")
      /\ fails' = [fails EXCEPT ![job[t].user] = 0]
      /\ session' = [session EXCEPT ![t].must = FALSE]
      /\ UNCHANGED <<tokens, accepted, redeemed>>
  BY DEF ChangeFinish, Ends, Forgiven
<1>2. PICK u \in Users, p \in Passwords \cup {Nobody} : u = job[t].user /\ p = job[t].pass
  BY <1>1, Handler DEF Job
<1>3. TypeOK /\ users[u] \in Row
  BY DEF AuthInv, TypeOK, UsersType
<1>4. PICK row \in Row :
        /\ row = Chosen(users[u], p) /\ row.exists = users[u].exists /\ ~row.must
        /\ row.codes = users[u].codes /\ row.pass = p
  BY <1>3, ChosenRow
<1>5. Written(u, row)
  BY <1>1, <1>2, <1>3, <1>4, RowSet
<1>6. /\ Kept(u)
      /\ \A c \in Terminals :
            job[c].user = u /\ (job[c].op = "redeem" => SameToken(job[c].token)) => Carries(c, u)
  BY <1>1, <1>2, <1>4, <1>5, PasswordWritten
<1>7. TokensType' /\ session' \in [Terminals -> Session] /\ \A k : SameToken(k)
  BY <1>1, <1>3 DEF TypeOK, TokensType, SameToken, Session
<1> QED  BY <1>1, <1>2, <1>6, <1>7, OneWrite DEF Kept

-----------------------------------------------------------------------------
(* Recovery tokens *)

LEMMA OneToken ==
  ASSUME AuthInv, NEW k \in Tokens, NEW token \in Token,
         tokens' = [tokens EXCEPT ![k] = token],
         UNCHANGED <<users, session, job, histories, overlapped>>,
         TokenOK(k)',
         tokens[k].state # "none" => token.user = tokens[k].user /\ token.state # "none"
  PROVE  AuthInv'
<1>1. UNCHANGED <<lastSet, fails, accepted, redeemed>> /\ TypeOK
  BY DEF histories, AuthInv
<1>2. /\ tokens' \in [Tokens -> Token] /\ tokens'[k] = token
      /\ \A i \in Tokens \ {k} : tokens'[i] = tokens[i]
  BY <1>1 DEF TypeOK, TokensType
<1>3. /\ TypeOK' /\ (\A v : SameUser(v)) /\ \A i \in Tokens \ {k} : SameToken(i)
  BY <1>1, <1>2 DEF TypeOK, UsersType, TokensType, SameUser, SameToken
<1>4. PairsOverlap'
  BY EndingPairs DEF AuthInv
<1>5. ASSUME NEW c \in Terminals PROVE JobOK(c)'
  <2>1. JobOK(c)
    BY DEF AuthInv
  <2> QED  BY <1>1, <1>2, <2>1 DEF JobOK
<1> QED  BY <1>3, <1>4, <1>5, AStep

LEMMA RequestRecoveryKeeps ==
  ASSUME AuthInv, NEW u \in Users, NEW k \in Tokens, RequestRecovery(u, k)
  PROVE  AuthInv'
<1>1. PICK token \in Token : token = [user |-> u, state |-> "valid"]
  BY DEF Token
<1>2. /\ tokens[k].state = "none" /\ tokens' = [tokens EXCEPT ![k] = token]
      /\ UNCHANGED redeemed
  BY <1>1 DEF RequestRecovery, histories
<1>3. tokens'[k] = token /\ TokenOK(k)
  BY <1>2 DEF AuthInv, TypeOK, TokensType
<1>4. TokenOK(k)'
  BY <1>1, <1>2, <1>3 DEF TokenOK
<1> QED  BY <1>1, <1>2, <1>4, OneToken DEF RequestRecovery

LEMMA TokenExpiresKeeps ==
  ASSUME AuthInv, NEW k \in Tokens, TokenExpires(k)
  PROVE  AuthInv'
<1>1. tokens[k] \in Token /\ TokenOK(k) /\ tokens \in [Tokens -> Token]
  BY DEF AuthInv, TypeOK, TokensType
<1>2. PICK token \in Token :
         /\ token = [tokens[k] EXCEPT !.state = "expired"]
         /\ token.user = tokens[k].user /\ token.state = "expired"
  <2>1. PICK token : token = [tokens[k] EXCEPT !.state = "expired"]
    OBVIOUS
  <2> QED  BY <1>1, <2>1 DEF Token
<1>3. /\ tokens[k].state = "valid" /\ tokens' = [tokens EXCEPT ![k] = token]
      /\ UNCHANGED <<redeemed, overlapped>>
  BY <1>2 DEF TokenExpires, histories
<1>4. TokenOK(k)'
  BY <1>1, <1>2, <1>3 DEF TokenOK
<1> QED  BY <1>2, <1>3, <1>4, OneToken DEF TokenExpires

LEMMA RedeemStartKeeps ==
  ASSUME AuthInv, NEW t \in Terminals, NEW k \in Tokens, NEW p \in Passwords,
         RedeemStart(t, k, p)
  PROVE  AuthInv'
<1>1. TokenOK(k) /\ tokens[k].state = "valid"
  BY DEF AuthInv, RedeemStart, Redeemable
<1>2. PICK u \in Users : u = tokens[k].user
  BY <1>1 DEF TokenOK
<1>3. PICK j : /\ Starts(t, j)
               /\ j = [NoJob EXCEPT !.op = "redeem", !.user = u, !.pass = p, !.token = k]
  BY <1>2 DEF RedeemStart
<1>4. j \in Job /\ j.op = "redeem" /\ j.user = u /\ ~j.legacy /\ j.token = k
  BY <1>3 DEF NoJob, Job
<1>5. job'[t] = j
  BY <1>3, <1>4, StartingPairs DEF AuthInv
<1>6. UNCHANGED <<tokens, redeemed>>
  BY DEF RedeemStart, histories
<1>7. JobOK(t)'
  BY <1>1, <1>2, <1>4, <1>5, <1>6 DEF JobOK, TokenOK
<1> QED  BY <1>3, <1>4, <1>7, OneStart DEF RedeemStart

LEMMA RedeemFinishKeeps ==
  ASSUME AuthInv, NEW t \in Terminals, RedeemFinish(t)
  PROVE  AuthInv'
<1>1. /\ job[t].op = "redeem" /\ job' = [job EXCEPT ![t] = NoJob]
      /\ users[job[t].user].exists
      /\ SetRow(job[t].user, Chosen(users[job[t].user], job[t].pass))
      /\ tokens' = [tokens EXCEPT ![job[t].token].state = "used"]
      /\ redeemed' = [redeemed EXCEPT ![job[t].token] = @ + 1]
      /\ Sets(job[t].user, job[t].pass, "user")
      /\ fails' = [fails EXCEPT ![job[t].user] = 0]
      /\ UNCHANGED <<session, accepted>>
  BY DEF RedeemFinish, Ends, Forgiven
<1>2. PICK u \in Users, p \in Passwords \cup {Nobody} : u = job[t].user /\ p = job[t].pass
  BY <1>1, Handler DEF Job
<1>3. PICK k \in Tokens : k = job[t].token
  BY <1>1, Handler DEF JobOK
<1>4. /\ TypeOK /\ TokenOK(k) /\ users[u] \in Row
      /\ tokens[k] \in Token /\ redeemed[k] \in Nat
      /\ tokens[k].user = u /\ tokens[k].state # "none"
      /\ <<u, "redeem">> \notin overlapped => redeemed[k] = 0
  BY <1>1, <1>2, <1>3, Handler DEF AuthInv, TypeOK, UsersType, TokensType, JobOK
<1>5. PICK row \in Row :
        /\ row = Chosen(users[u], p) /\ row.exists = users[u].exists /\ ~row.must
        /\ row.codes = users[u].codes /\ row.pass = p
  BY <1>4, ChosenRow
<1>6. Written(u, row)
  BY <1>1, <1>2, <1>4, <1>5, RowSet
<1>7. /\ TokensType'
      /\ tokens'[k].user = u /\ tokens'[k].state = "used" /\ redeemed'[k] = redeemed[k] + 1
      /\ \A i \in Tokens \ {k} : SameToken(i)
  BY <1>1, <1>3, <1>4 DEF TypeOK, TokensType, SameToken, Token
<1>8. /\ Kept(u)
      /\ \A c \in Terminals :
            /\ job[c].user = u
            /\ job[c].op = "redeem" =>
                  \/ SameToken(job[c].token)
                  \/ /\ <<u, "redeem">> \in overlapped'
                     /\ tokens'[job[c].token].user = u
                     /\ tokens'[job[c].token].state # "none"
            => Carries(c, u)
  BY <1>1, <1>2, <1>5, <1>6, PasswordWritten
<1>9. TokenOK(k)'
  BY <1>4, <1>7, <1>8 DEF TokenOK, Kept
<1>10. ASSUME NEW c \in Terminals \ {t}, job[c].user = u PROVE Carries(c, u)
  <2>1. CASE job[c].op = "redeem" /\ job[c].token = k
    <3>1. <<u, "redeem">> \in overlapped'
      BY <1>1, <1>2, <1>8, <1>10, <2>1, Handler DEF Kept
    <3> QED  BY <1>7, <1>8, <1>10, <2>1, <3>1
  <2>2. CASE job[c].op = "redeem" /\ job[c].token # k
    <3>1. SameToken(job[c].token)
      BY <1>7, <2>2 DEF AuthInv, JobOK
    <3> QED  BY <1>8, <1>10, <3>1
  <2>3. CASE job[c].op # "redeem"
    BY <1>8, <1>10, <2>3
  <2> QED  BY <2>1, <2>2, <2>3
<1>11. session' \in [Terminals -> Session]
  BY <1>1, <1>4 DEF TypeOK
<1> QED  BY <1>1, <1>2, <1>4, <1>7, <1>8, <1>9, <1>10, <1>11, OneWrite DEF Kept

-----------------------------------------------------------------------------
(* The users screen *)

LEMMA PasswordImposed ==
  ASSUME AuthInv, NEW u \in Users, NEW p \in Passwords,
         AddUser(u, p) \/ ResetPassword(u, p) \/ UpdateUser(u, p)
  PROVE  AuthInv'
<1>1. TypeOK /\ UserOK(u) /\ users[u] \in Row
  BY DEF AuthInv, TypeOK, UsersType
<1>2. Sets(u, p, "admin") /\ UNCHANGED <<tokens, session, job, redeemed>>
  BY DEF AddUser, ResetPassword, UpdateUser
<1>3. PICK base \in Row :
        /\ base.exists /\ SetRow(u, Imposed(base, p))
        /\ \/ fails' = [fails EXCEPT ![u] = 0]
           \/ /\ fails' = fails /\ users[u].exists
              /\ base.attempts = users[u].attempts /\ base.locked = users[u].locked
        /\ \/ accepted' = accepted /\ base.codes = users[u].codes
           \/ accepted' = [accepted EXCEPT ![u] = {}]
  <2>1. CASE AddUser(u, p)
    <3>1. PICK base : base = [NoRow EXCEPT !.exists = TRUE, !.active = TRUE]
      OBVIOUS
    <3>2. base \in Row /\ base.exists
      BY <3>1 DEF NoRow, Row
    <3> QED  BY <2>1, <3>1, <3>2 DEF AddUser, Forgiven
  <2>2. CASE ResetPassword(u, p)
    <3>1. PICK base \in Row : base = Unlocked(users[u]) /\ Same(users[u], base)
      BY <1>1, UnlockedRow
    <3> QED  BY <2>2, <3>1 DEF ResetPassword, Forgiven, Same
  <2>3. CASE UpdateUser(u, p)
    BY <1>1, <2>3 DEF UpdateUser
  <2> QED  BY <2>1, <2>2, <2>3
<1>4. PICK row \in Row :
        /\ row = Imposed(base, p) /\ row.exists /\ row.must /\ row.codes = base.codes
        /\ row.pass = p /\ row.attempts = base.attempts /\ row.locked = base.locked
  BY <1>3, ImposedRow
<1>5. Written(u, row)
  BY <1>1, <1>3, <1>4, RowSet
<1>6. \A c : SameToken(job[c].token)
  BY <1>2 DEF SameToken
<1>7. Kept(u) /\ \A c \in Terminals : job[c].user = u => Carries(c, u)
  BY <1>2, <1>3, <1>4, <1>5, <1>6, PasswordWritten
<1> QED  BY <1>2, <1>7, OneUser DEF Kept

(* What the steps that leave the password alone make of a row. *)
LEMMA TouchedRow ==
  ASSUME NEW row \in Row, NEW active \in BOOLEAN, NEW totp \in {"off", "secret", "on"}
  PROVE  /\ LET new == [Unlocked(row) EXCEPT !.active = active] IN
              new \in Row /\ Same(row, new) /\ new.pass = row.pass
         /\ LET new == [row EXCEPT !.totp = totp] IN
              /\ new \in Row /\ Same(row, new) /\ new.pass = row.pass
              /\ new.attempts = row.attempts /\ new.locked = row.locked
         /\ LET new == [row EXCEPT !.locked = "over"] IN
              /\ new \in Row /\ Same(row, new) /\ new.pass = row.pass
              /\ new.attempts = row.attempts /\ new.locked = "over"
<1>1. LET new == [Unlocked(row) EXCEPT !.active = active] IN
        new \in Row /\ Same(row, new) /\ new.pass = row.pass
  <2>1. PICK open \in Row : open = Unlocked(row) /\ Same(row, open) /\ open.pass = row.pass
    BY UnlockedRow
  <2>2. LET new == [open EXCEPT !.active = active] IN
          new \in Row /\ Same(row, new) /\ new.pass = row.pass
    BY <2>1 DEF Row, Same
  <2> QED  BY <2>1, <2>2
<1>2. LET new == [row EXCEPT !.totp = totp] IN
        /\ new \in Row /\ Same(row, new) /\ new.pass = row.pass
        /\ new.attempts = row.attempts /\ new.locked = row.locked
  BY DEF Row, Same
<1>3. LET new == [row EXCEPT !.locked = "over"] IN
        /\ new \in Row /\ Same(row, new) /\ new.pass = row.pass
        /\ new.attempts = row.attempts /\ new.locked = "over"
  BY DEF Row, Same
<1> QED  BY <1>1, <1>2, <1>3

LEMMA RowTouchedKeeps ==
  ASSUME AuthInv, NEW u \in Users,
         \/ \E active \in BOOLEAN : SetUserActive(u, active)
         \/ Enable2fa(u) \/ Disable2fa(u) \/ RegenerateRecoveryCodes(u) \/ LockExpires(u)
  PROVE  AuthInv'
<1>1. TypeOK /\ UserOK(u) /\ users[u] \in Row
  BY DEF AuthInv, TypeOK, UsersType
<1>2. UNCHANGED <<tokens, session, job, redeemed, lastSet, overlapped>>
  BY DEF SetUserActive, Enable2fa, Disable2fa, RegenerateRecoveryCodes, LockExpires, histories
<1>3. PICK row \in Row :
        /\ Written(u, row)
        /\ row.exists = users[u].exists /\ row.must = users[u].must
        /\ row.pass = users[u].pass /\ (~row.exists => row.codes = {})
        /\ \/ fails' = [fails EXCEPT ![u] = 0]
           \/ /\ fails' = fails /\ row.attempts = users[u].attempts
              /\ users[u].locked # "no" => row.locked # "no"
        /\ \/ accepted' = accepted /\ row.codes \subseteq users[u].codes
           \/ accepted' = [accepted EXCEPT ![u] = {}]
  <2>1. ASSUME NEW active \in BOOLEAN, SetUserActive(u, active)
        PROVE  \E row \in Row :
                  /\ Written(u, row) /\ Same(users[u], row) /\ row.pass = users[u].pass
                  /\ users[u].exists /\ UNCHANGED accepted
                  /\ fails' = [fails EXCEPT ![u] = 0]
    <3>1. PICK row \in Row : /\ row = [Unlocked(users[u]) EXCEPT !.active = active]
                             /\ Same(users[u], row) /\ row.pass = users[u].pass
      BY <1>1, TouchedRow
    <3> QED  BY <1>1, <2>1, <3>1, RowSet DEF SetUserActive, Forgiven
  <2>2. CASE Enable2fa(u)
    <3>1. PICK row \in Row :
             /\ row = [users[u] EXCEPT !.totp = "secret"] /\ Same(users[u], row)
             /\ row.pass = users[u].pass /\ row.attempts = users[u].attempts
             /\ row.locked = users[u].locked
      BY <1>1, TouchedRow
    <3>2. Written(u, row) /\ UNCHANGED <<fails, accepted>>
      BY <1>1, <2>2, <3>1, RowSet DEF Enable2fa, histories
    <3> QED  BY <1>1, <2>2, <3>1, <3>2 DEF Same, UserOK
  <2>3. CASE Disable2fa(u)
    <3>1. PICK row : row = [users[u] EXCEPT !.totp = "off", !.codes = {}]
      OBVIOUS
    <3>2. /\ row \in Row /\ row.exists = users[u].exists /\ row.must = users[u].must
          /\ row.pass = users[u].pass /\ row.codes = {}
          /\ row.attempts = users[u].attempts /\ row.locked = users[u].locked
      BY <1>1, <3>1 DEF Row
    <3>3. Written(u, row) /\ UNCHANGED <<fails, accepted>>
      BY <1>1, <2>3, <3>1, <3>2, RowSet DEF Disable2fa, histories
    <3> QED  BY <3>2, <3>3
  <2>4. CASE RegenerateRecoveryCodes(u)
    <3>1. PICK row : row = [users[u] EXCEPT !.totp = "on", !.codes = Codes]
      OBVIOUS
    <3>2. /\ row \in Row /\ row.exists = users[u].exists /\ row.must = users[u].must
          /\ row.pass = users[u].pass /\ row.codes = Codes
          /\ row.attempts = users[u].attempts /\ row.locked = users[u].locked
      BY <1>1, <3>1 DEF Row
    <3>3. /\ users[u].exists /\ SetRow(u, row)
          /\ fails' = fails /\ accepted' = [accepted EXCEPT ![u] = {}]
      BY <2>4, <3>1 DEF RegenerateRecoveryCodes, NewCodes, UpdateRow, SetRow
    <3> QED  BY <1>1, <3>2, <3>3, RowSet
  <2>5. CASE LockExpires(u)
    <3>1. PICK row \in Row :
             /\ row = [users[u] EXCEPT !.locked = "over"] /\ Same(users[u], row)
             /\ row.pass = users[u].pass /\ row.attempts = users[u].attempts
             /\ row.locked = "over"
      BY <1>1, TouchedRow
    <3>2. Written(u, row) /\ UNCHANGED <<fails, accepted>>
      BY <1>1, <2>5, <3>1, RowSet DEF LockExpires, histories
    <3> QED  BY <1>1, <3>1, <3>2 DEF Same, UserOK
  <2> QED  BY <2>1, <2>2, <2>3, <2>4, <2>5 DEF Same
<1>4. Kept(u) /\ \A c : Carries(c, u)
  BY <1>2, <1>3, RowTouched
<1> QED  BY <1>2, <1>4, OneUser DEF Kept

LEMMA DeleteUserKeeps ==
  ASSUME AuthInv, NEW u \in Users, DeleteUser(u)
  PROVE  AuthInv'
<1>1. /\ users' = [users EXCEPT ![u] = NoRow]
      /\ UNCHANGED <<tokens, session, job, lastSet, fails, accepted, redeemed, overlapped>>
  BY DEF DeleteUser, SetRow, histories
<1>2. Written(u, NoRow)
  BY <1>1, NoRowType, RowSet DEF SetRow, AuthInv
<1>3. UsersType' /\ \A v \in Users \ {u} : SameUser(v)
  BY <1>1, <1>2 DEF AuthInv, TypeOK, UsersType, SameUser, Written
<1>4. UserOK(u)'
  BY <1>2, NoRowType DEF UserOK, Written
<1>5. \A c : Carries(c, u)
  BY <1>1, <1>2, NoRowType DEF Carries, SameToken, Written
<1> QED  BY <1>1, <1>3, <1>4, <1>5, OneUser

LEMMA ConfirmStartKeeps ==
  ASSUME AuthInv, NEW t \in Terminals, NEW u \in Users, ConfirmStart(t, u)
  PROVE  AuthInv'
<1>1. PICK j : Starts(t, j) /\ j = [NoJob EXCEPT !.op = "confirm", !.user = u]
  BY DEF ConfirmStart
<1>2. j \in Job /\ j.op = "confirm" /\ j.user = u /\ ~j.legacy
  BY <1>1 DEF NoJob, Job
<1>3. job'[t] = j
  BY <1>1, <1>2, StartingPairs DEF AuthInv
<1>4. JobOK(t)'
  BY <1>2, <1>3 DEF JobOK
<1> QED  BY <1>1, <1>2, <1>4, OneStart DEF ConfirmStart

LEMMA ConfirmFinishKeeps ==
  ASSUME AuthInv, NEW t \in Terminals, ConfirmFinish(t)
  PROVE  AuthInv'
<1>1. /\ job[t].op = "confirm" /\ job' = [job EXCEPT ![t] = NoJob]
      /\ NewCodes(job[t].user)
      /\ UNCHANGED <<tokens, session, lastSet, fails, redeemed, overlapped>>
  BY DEF ConfirmFinish, Ends
<1>2. PICK u \in Users : u = job[t].user
  BY <1>1, Handler
<1>3. TypeOK /\ UserOK(u) /\ users[u] \in Row
  BY DEF AuthInv, TypeOK, UsersType
<1>4. PICK new : new = [users[u] EXCEPT !.totp = "on", !.codes = Codes]
  OBVIOUS
<1>5. /\ new \in Row /\ new.exists = users[u].exists /\ new.must = users[u].must
      /\ new.pass = users[u].pass
      /\ new.attempts = users[u].attempts /\ new.locked = users[u].locked
  BY <1>3, <1>4 DEF Row
<1>6. UpdateRow(u, new) /\ accepted' = [accepted EXCEPT ![u] = {}]
  BY <1>1, <1>2, <1>4 DEF NewCodes
<1>7. PICK row \in Row : row = IF users[u].exists THEN new ELSE users[u]
  BY <1>3, <1>5
<1>8. Written(u, row)
  BY <1>3, <1>5, <1>6, <1>7, RowWritten DEF Written
<1>9. /\ row.exists = users[u].exists /\ row.must = users[u].must /\ row.pass = users[u].pass
      /\ row.attempts = users[u].attempts /\ row.locked = users[u].locked
      /\ ~row.exists => row.codes = {}
  BY <1>3, <1>5, <1>7 DEF UserOK
<1>10. Kept(u) /\ \A c : Carries(c, u)
  BY <1>1, <1>6, <1>8, <1>9, RowTouched
<1>11. TokensType' /\ session' \in [Terminals -> Session] /\ \A k : SameToken(k)
  BY <1>1, <1>3 DEF TypeOK, TokensType, SameToken
<1> QED  BY <1>1, <1>10, <1>11, OneWrite DEF Kept

-----------------------------------------------------------------------------

LEMMA InitKeeps == Init => AuthInv
<1> SUFFICES ASSUME Init PROVE AuthInv
  OBVIOUS
<1>1. PICK p \in Passwords :
        /\ users = [u \in Users |-> [NoRow EXCEPT !.exists = TRUE, !.active = TRUE,
                                                  !.pass = p, !.legacy = TRUE]]
        /\ lastSet = [u \in Users |-> [pass |-> p, by |-> "user"]]
  BY DEF Init
<1>2. /\ tokens = [k \in Tokens |-> NoToken]
      /\ session = [t \in Terminals |-> NoSession] /\ job = [t \in Terminals |-> NoJob]
      /\ fails = [u \in Users |-> 0] /\ accepted = [u \in Users |-> {}]
      /\ redeemed = [k \in Tokens |-> 0]
  BY DEF Init
<1>3. \A u \in Users :
        /\ users[u] \in Row /\ users[u].exists /\ ~users[u].must /\ users[u].pass = p
        /\ users[u].codes = {} /\ users[u].attempts = 0
        /\ lastSet[u] \in LastSet /\ lastSet[u].pass = p /\ lastSet[u].by = "user"
  BY <1>1 DEF NoRow, Row, LastSet
<1>4. UsersType /\ \A u \in Users : UserOK(u)
  BY <1>1, <1>2, <1>3 DEF UsersType, UserOK, MaxFailedAttempts
<1>5. TokensType /\ \A k \in Tokens : TokenOK(k)
  BY <1>2 DEF TokensType, Token, NoToken, TokenOK
<1>6. session \in [Terminals -> Session]
  BY <1>2 DEF Session, NoSession
<1>7. job \in [Terminals -> Job] /\ PairsOverlap /\ \A t \in Terminals : JobOK(t)
  BY <1>2, NoJobType DEF PairsOverlap, JobOK, NoJob
<1> QED  BY <1>4, <1>5, <1>6, <1>7 DEF AuthInv, TypeOK

LEMMA StutterKeeps == AuthInv /\ UNCHANGED vars => AuthInv'
<1> SUFFICES ASSUME AuthInv, UNCHANGED vars PROVE AuthInv'
  OBVIOUS
<1>1. UNCHANGED <<users, tokens, session, job, lastSet, fails, accepted, redeemed, overlapped>>
  BY DEF vars
<1>2. TypeOK' /\ (\A v : SameUser(v)) /\ \A k : SameToken(k)
  BY <1>1 DEF AuthInv, TypeOK, UsersType, TokensType, SameUser, SameToken
<1>3. PairsOverlap'
  BY <1>1, EndingPairs DEF AuthInv
<1> QED  BY <1>1, <1>2, <1>3, AStep

LEMMA NextKeeps == AuthInv /\ Next => AuthInv'
<1> SUFFICES ASSUME AuthInv, Next PROVE AuthInv'
  OBVIOUS
<1>1. ASSUME NEW t \in Terminals, Enter(t) PROVE AuthInv'
  BY <1>1, LoginStartKeeps, LoginGoodKeeps, LoginBadKeeps, QuietSteps, CodeStartKeeps,
     CodeFinishKeeps DEF Enter
<1>2. ASSUME NEW t \in Terminals, OwnPassword(t) PROVE AuthInv'
  BY <1>2, ChangeStartKeeps, ChangeFinishKeeps, RedeemStartKeeps, RedeemFinishKeeps
     DEF OwnPassword
<1>3. ASSUME NEW u \in Users, UsersScreen(u) \/ LockExpires(u) PROVE AuthInv'
  BY <1>3, PasswordImposed, RowTouchedKeeps, DeleteUserKeeps, ConfirmStartKeeps
     DEF UsersScreen
<1> QED
  BY <1>1, <1>2, <1>3, ConfirmFinishKeeps, RequestRecoveryKeeps, TokenExpiresKeeps DEF Next

(* The promises hold in every reachable state, whatever handlers overlap. *)
THEOREM AuthInvariant == Spec => []AuthInv
<1>1. Init => AuthInv
  BY InitKeeps
<1>2. AuthInv /\ [Next]_vars => AuthInv'
  BY StutterKeeps, NextKeeps
<1> QED  BY <1>1, <1>2, PTL DEF Spec

(* A user's password is the one somebody last set for the user, and the flag
   of a password set by somebody else says so: for any number of cajas, with
   logins, changes and redemptions that overlap as they may. *)
THEOREM PasswordsAreAsSet == Spec => [](PasswordAsSet /\ MustChangeTellsWho)
<1>1. AuthInv => PasswordAsSet /\ MustChangeTellsWho
  BY DEF AuthInv, UserOK, PasswordAsSet, MustChangeTellsWho
<1> QED  BY <1>1, AuthInvariant, PTL

(* Three wrong passwords lock a user of whom no two logins overlapped, however
   many other handlers write the row between the read and the write of one. *)
THEOREM FailuresLock == Spec => []ThreeFailuresLock
<1>1. AuthInv => ThreeFailuresLock
  BY DEF AuthInv, UserOK, ThreeFailuresLock
<1> QED  BY <1>1, AuthInvariant, PTL

(* A recovery code, and a recovery token, are accepted once unless two handlers
   that read them overlapped. *)
THEOREM SecretsAreSingleUse == Spec => [](CodesAreSingleUse /\ TokensAreSingleUse)
<1>1. AuthInv => CodesAreSingleUse /\ TokensAreSingleUse
  BY DEF AuthInv, UserOK, TokenOK, CodesAreSingleUse, TokensAreSingleUse
<1> QED  BY <1>1, AuthInvariant, PTL

=============================================================================
