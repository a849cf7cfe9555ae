----------------------------- MODULE Accounts -------------------------------
(***************************************************************************)
(* Accounts of one address (a username with its email): signup, the codes  *)
(* sent by email, login, the rotation of refresh tokens, the changes that  *)
(* end all sessions, and the anonymised row that is left of an account     *)
(* (api/routes/auth.py, api/routes/users.py, services/email_verification.py*)
(* and services/password_reset.py).                                        *)
(*                                                                         *)
(* Every request is a transaction of its own under READ COMMITTED. An      *)
(* UPDATE of many rows sees those committed when it starts (saw), waits    *)
(* for a row that another transaction has updated, and misses the rows     *)
(* that are inserted meanwhile.                                            *)
(***************************************************************************)
EXTENDS Naturals, Sequences

CONSTANTS
    Handlers,      \* request threads
    MAX_ATTEMPTS,  \* wrong tries a code allows (5 in the code)
    MaxUsers,      \* bound: rows of users
    MaxCodes,      \* bound: codes issued
    MaxTokens,     \* bound: refresh tokens issued
    MaxEndings     \* bound: password changes, resets and deletions

ASSUME AccountsAssumption ==
    /\ {MAX_ATTEMPTS, MaxUsers, MaxCodes, MaxTokens, MaxEndings} \subseteq Nat

Users  == 1 .. MaxUsers
Kinds  == {"verify", "reset"}

(* A row of users: an active one holds the address, a deleted one is       *)
(* anonymised, and a signup that is reclaimed leaves none.                 *)
User == [row      : {"none", "active", "deleted", "gone"},
         verified : BOOLEAN,          \* email_verified_at
         ended    : 0 .. MaxEndings]  \* history: the last ending committed

NoUser  == [row |-> "none", verified |-> FALSE, ended |-> 0]
NewUser == [row |-> "active", verified |-> FALSE, ended |-> 0]

(* Rows of email_verifications and of password_resets. Time is free: a     *)
(* code may expire at any moment, and the minute between two requests for  *)
(* a code may have passed at any of them.                                  *)
Code == [user     : Users,
         live     : BOOLEAN,          \* not consumed, not expired
         attempts : 0 .. MAX_ATTEMPTS,
         since    : 0 .. MaxCodes]    \* history: codes when its issue began

(* A row of refresh_tokens; an expired one is like a revoked one.          *)
Token == [user   : Users,
          live   : BOOLEAN,           \* revoked_at IS NULL
          login  : 1 .. MaxTokens,    \* history: the first token of its session
          issued : 0 .. MaxEndings]   \* history: endings begun before it

VARIABLES
    users,     \* rows of users
    codes,     \* rows of the two tables of codes, in order of creation
    tokens,    \* rows of refresh_tokens, in order of creation
    handlers,  \* requests being served
    endings    \* history: endings begun

vars == <<users, codes, tokens, handlers, endings>>

Idle == [pc |-> "idle", user |-> 0, kind |-> "verify", row |-> 0, saw |-> {}, read |-> 0]

HandlerState ==
    [pc    : {"idle", "reclaim", "signup", "insert", "issue", "code", "wrong", "verify",
              "token", "claimed", "resetting", "changing", "deleting"},
     user  : Users \cup {0},
     kind  : Kinds,
     row   : 0 .. MaxCodes + MaxTokens + MaxEndings,  \* code, token or ending
     saw   : SUBSET (1 .. MaxCodes + MaxTokens),      \* rows its UPDATE saw
     read  : 0 .. MAX_ATTEMPTS + MaxEndings]          \* attempts it read, or its ending

Exists(u) == users[u].row \in {"active", "deleted"}

TypeOK ==
    /\ users \in [Users -> User]
    /\ codes \in [Kinds -> Seq(Code)]
    /\ tokens \in Seq(Token)
    /\ handlers \in [Handlers -> HandlerState]
    /\ endings \in 0 .. MaxEndings

Init ==
    /\ users = [u \in Users |-> NoUser]
    /\ codes = [k \in Kinds |-> <<>>]
    /\ tokens = <<>>
    /\ handlers = [h \in Handlers |-> Idle]
    /\ endings = 0

At(h, pc) == handlers[h].pc = pc

Goes(h, state) == handlers' = [handlers EXCEPT ![h] = state]

(* _find_user_by_email, and the query of login: an active row.             *)
Holders == {u \in Users : users[u].row = "active"}

(* The codes of u that can be used, which an issue consumes. (It consumes  *)
(* the expired ones too, which nothing tells from the others afterwards.)  *)
Live(k, u) == {c \in DOMAIN codes[k] : codes[k][c].user = u /\ codes[k][c].live}

NumCodes == Len(codes["verify"]) + Len(codes["reset"])

Spent(code) == [code EXCEPT !.live = FALSE, !.since = 0]

(* The one of them that verify_email and reset_password compare with.      *)
Latest(k, u) == {c \in Live(k, u) : \A d \in Live(k, u) : d <= c}

LiveTokens(u) == {t \in DOMAIN tokens : tokens[t].user = u /\ tokens[t].live}

-----------------------------------------------------------------------------
(* POST /signup                                                            *)

(* _reclaim_stale_unverified: an unverified account whose codes are all    *)
(* used up or expired gives the address back.                              *)
Stale == {u \in Holders : ~users[u].verified /\ Live("verify", u) = {}}

Signup(h) ==
    /\ handlers[h] = Idle
    /\ \/ \E u \in Stale : Goes(h, [Idle EXCEPT !.pc = "reclaim", !.user = u])
       \/ Stale = {} /\ Holders = {} /\ Goes(h, [Idle EXCEPT !.pc = "insert"])
    /\ UNCHANGED <<users, codes, tokens, endings>>

(* The row is deleted by its key, as it is now; codes and tokens cascade   *)
(* (they stay in the sequences as rows that are not live).                 *)
Reclaim(h) ==
    LET u == handlers[h].user IN
    /\ At(h, "reclaim")
    /\ users' = [users EXCEPT ![u].row = "gone"]
    /\ codes' = [k \in Kinds |-> [c \in DOMAIN codes[k] |->
                   IF codes[k][c].user = u THEN Spent(codes[k][c]) ELSE codes[k][c]]]
    /\ tokens' = [t \in DOMAIN tokens |->
                   [tokens[t] EXCEPT !.live = @ /\ tokens[t].user # u]]
    /\ Goes(h, [Idle EXCEPT !.pc = "signup"])
    /\ UNCHANGED endings

(* USERNAME_TAKEN, EMAIL_TAKEN, or a password to hash.                     *)
SignupCheck(h) ==
    /\ At(h, "signup")
    /\ Goes(h, IF Holders = {} THEN [Idle EXCEPT !.pc = "insert"] ELSE Idle)
    /\ UNCHANGED <<users, codes, tokens, endings>>

(* The partial unique indexes on username and on email.                    *)
Unique == Holders = {}

SignupStore(h) ==
    /\ At(h, "insert")
    /\ \/ /\ Unique
          /\ \E u \in Users :
               /\ users[u].row = "none" /\ (\A v \in Users : v < u => users[v].row # "none")
               /\ users' = [users EXCEPT ![u] = NewUser]
               /\ Goes(h, [Idle EXCEPT !.pc = "issue", !.user = u])
       \/ /\ ~Unique
          /\ Goes(h, Idle)
          /\ UNCHANGED users
    /\ UNCHANGED <<codes, tokens, endings>>

-----------------------------------------------------------------------------
(* issue_verification_code and issue_reset_code: the live codes are        *)
(* consumed, the new one is hashed and inserted, in one commit.            *)

(* The UPDATE that consumes the live codes starts.                         *)
Issuing(u, k) ==
    [Idle EXCEPT !.pc = "code", !.user = u, !.kind = k, !.saw = Live(k, u), !.row = Len(codes[k])]

(* POST /email/verify-request and /password/reset-request.                 *)
RequestCode(h, k) ==
    /\ handlers[h] = Idle
    /\ NumCodes < MaxCodes
    /\ \E u \in Holders :
         /\ k = "verify" => ~users[u].verified
         /\ Goes(h, Issuing(u, k))
    /\ UNCHANGED <<users, codes, tokens, endings>>

(* Signup goes on to its first code.                                       *)
SignupIssues(h) ==
    /\ At(h, "issue")
    /\ NumCodes < MaxCodes
    /\ Goes(h, Issuing(handlers[h].user, "verify"))
    /\ UNCHANGED <<users, codes, tokens, endings>>

NewCode(u, since) == [user |-> u, live |-> TRUE, attempts |-> 0, since |-> since]

(* Mutant: the codes before are left alone.                                *)
Consumed_None(table, saw) == table

Consumed(table, saw) ==
    [c \in DOMAIN table |-> IF c \in saw THEN Spent(table[c]) ELSE table[c]]

(* An account that is gone by now breaks the foreign key.                  *)
IssueStore(h) ==
    LET r == handlers[h]
        k == r.kind
    IN  /\ At(h, "code")
        /\ IF Exists(r.user) /\ NumCodes < MaxCodes
           THEN codes' = [codes EXCEPT ![k] =
                            Append(Consumed(@, r.saw), NewCode(r.user, r.row))]
           ELSE UNCHANGED codes
        /\ Goes(h, Idle)
        /\ UNCHANGED <<users, tokens, endings>>

(* Ten minutes have passed.                                                *)
Expire(k, c) ==
    /\ codes[k][c].live
    /\ codes' = [codes EXCEPT ![k][c] = Spent(@)]
    /\ UNCHANGED <<users, tokens, handlers, endings>>

-----------------------------------------------------------------------------
(* POST /email/verify and /password/reset compare with the latest code.    *)

(* Mutant: the count of tries is not looked at.                            *)
Tried_Uncounted(k, u) == Latest(k, u)

(* The code of u a request may still be compared with.                     *)
Tried(k, u) == {c \in Latest(k, u) : codes[k][c].attempts < MAX_ATTEMPTS}

(* The code is wrong, or it verifies the address.                          *)
Try(h, k, right) ==
    /\ handlers[h] = Idle
    /\ right => k = "verify"
    /\ \E u \in Holders : \E c \in Tried(k, u) :
         /\ k = "verify" => ~users[u].verified
         /\ Goes(h, [Idle EXCEPT !.pc = IF right THEN "verify" ELSE "wrong", !.user = u,
                                 !.kind = k, !.row = c, !.read = codes[k][c].attempts])
    /\ UNCHANGED <<users, codes, tokens, endings>>

(* The count that was read plus one; a row that cascaded away is an error. *)
CountTry(h) ==
    LET r == handlers[h] IN
    /\ At(h, "wrong")
    /\ codes' = IF Exists(r.user)
                 THEN [codes EXCEPT ![r.kind][r.row].attempts = r.read + 1]
                 ELSE codes
    /\ Goes(h, Idle)
    /\ UNCHANGED <<users, tokens, endings>>

(* The code and email_verified_at in one commit.                           *)
VerifyStore(h) ==
    LET r == handlers[h] IN
    /\ At(h, "verify")
    /\ IF Exists(r.user)
       THEN /\ codes' = [codes EXCEPT !["verify"][r.row] = Spent(@)]
            /\ users' = [users EXCEPT ![r.user].verified = TRUE]
       ELSE UNCHANGED <<users, codes>>
    /\ Goes(h, Idle)
    /\ UNCHANGED <<tokens, endings>>

-----------------------------------------------------------------------------
(* Sessions: POST /login, /refresh and /logout                             *)

(* Mutant: a login before the address is verified.                         *)
MayLogin_Unverified == Holders

(* The password is right, and then the address must be verified.           *)
MayLogin == {u \in Holders : users[u].verified}

Login(h) ==
    /\ handlers[h] = Idle
    /\ Len(tokens) < MaxTokens
    /\ \E u \in MayLogin : Goes(h, [Idle EXCEPT !.pc = "token", !.user = u])
    /\ UNCHANGED <<users, codes, tokens, endings>>

NewToken(u, login) == [user |-> u, live |-> TRUE, login |-> login, issued |-> endings]

(* _issue_tokens after a login.                                            *)
TokenStore(h) ==
    LET u == handlers[h].user IN
    /\ At(h, "token")
    /\ Len(tokens) < MaxTokens
    /\ tokens' = IF Exists(u) THEN Append(tokens, NewToken(u, Len(tokens) + 1)) ELSE tokens
    /\ Goes(h, Idle)
    /\ UNCHANGED <<users, codes, endings>>

(* The row of token t is locked by a transaction that has updated it.      *)
Locked(t) == \E h \in Handlers :
                \/ At(h, "claimed") /\ handlers[h].row = t
                \/ handlers[h].pc \in {"resetting", "changing", "deleting"} /\ t \in handlers[h].saw

(* Mutant: the token is selected first and revoked later.                  *)
Claimable_Selected(t) == tokens[t].live

(* UPDATE ... WHERE revoked_at IS NULL RETURNING waits for the lock.       *)
Claimable(t) == tokens[t].live /\ ~Locked(t)

RefreshClaim(h) ==
    /\ handlers[h] = Idle
    /\ \E t \in DOMAIN tokens :
         /\ Claimable(t)
         /\ users[tokens[t].user].row = "active"    \* otherwise 401 and a rollback
         /\ Goes(h, [Idle EXCEPT !.pc = "claimed", !.user = tokens[t].user, !.row = t])
    /\ UNCHANGED <<users, codes, tokens, endings>>

(* The claim and the new token in one commit.                              *)
RefreshStore(h) ==
    LET r == handlers[h] IN
    /\ At(h, "claimed")
    /\ Len(tokens) < MaxTokens
    /\ tokens' = IF Exists(r.user)
                  THEN Append([tokens EXCEPT ![r.row].live = FALSE],
                              NewToken(r.user, tokens[r.row].login))
                  ELSE tokens
    /\ Goes(h, Idle)
    /\ UNCHANGED <<users, codes, endings>>

Logout(t) ==
    /\ tokens[t].live /\ ~Locked(t)
    /\ tokens' = [tokens EXCEPT ![t].live = FALSE]
    /\ UNCHANGED <<users, codes, handlers, endings>>

-----------------------------------------------------------------------------
(* POST /password/reset with the right code, PATCH /users/me/password and  *)
(* DELETE /users/me end the sessions of the user.                          *)

(* The UPDATE of every token of the user starts.                           *)
EndBegins(h, u, pc, c) ==
    /\ handlers[h] = Idle
    /\ endings < MaxEndings
    /\ endings' = endings + 1
    /\ Goes(h, [Idle EXCEPT !.pc = pc, !.user = u, !.kind = "reset", !.row = c,
                            !.saw = LiveTokens(u), !.read = endings'])
    /\ UNCHANGED <<users, codes, tokens>>

Reset(h) == \E u \in Holders : \E c \in Tried("reset", u) : EndBegins(h, u, "resetting", c)

(* get_current_user: an access token was issued with a refresh token.      *)
Manage(h, pc) ==
    \E u \in Holders :
        /\ \E t \in DOMAIN tokens : tokens[t].user = u
        /\ EndBegins(h, u, pc, 0)

(* Mutant: the newest session, the one of the request, is kept.            *)
Revoked_OthersOnly(saw) == saw \ {Len(tokens)}

Revoked(saw) == saw

(* What the commit makes of the row of the user.                           *)
Ended(user, pc, own) ==
    [user EXCEPT !.ended = IF own > @ THEN own ELSE @,
                 !.row = IF pc = "deleting" THEN "deleted" ELSE @]

(* The password or the deletion, the revocations and the code of a reset   *)
(* in one commit; it had to wait for the tokens that others had claimed.   *)
EndStore(h) ==
    LET r == handlers[h] IN
    /\ r.pc \in {"resetting", "changing", "deleting"}
    /\ \A g \in Handlers : ~(At(g, "claimed") /\ handlers[g].row \in r.saw)
    /\ IF Exists(r.user)
       THEN /\ users' = [users EXCEPT ![r.user] = Ended(@, r.pc, r.read)]
            /\ tokens' = [t \in DOMAIN tokens |->
                            [tokens[t] EXCEPT !.live = @ /\ t \notin Revoked(r.saw)]]
            /\ codes' = IF r.pc = "resetting"
                         THEN [codes EXCEPT !["reset"][r.row] = Spent(@)]
                         ELSE codes
       ELSE UNCHANGED <<users, tokens, codes>>
    /\ Goes(h, Idle)
    /\ UNCHANGED endings

-----------------------------------------------------------------------------
Next ==
    \/ \E h \in Handlers :
         \/ Signup(h) \/ Reclaim(h) \/ SignupCheck(h) \/ SignupStore(h)
         \/ SignupIssues(h) \/ IssueStore(h)
         \/ CountTry(h) \/ VerifyStore(h)
         \/ Login(h) \/ TokenStore(h) \/ RefreshClaim(h) \/ RefreshStore(h)
         \/ Reset(h) \/ EndStore(h)
         \/ \E k \in Kinds : RequestCode(h, k)
         \/ \E k \in Kinds, right \in BOOLEAN : Try(h, k, right)
         \/ \E what \in {"changing", "deleting"} : Manage(h, what)
    \/ \E k \in Kinds : \E c \in DOMAIN codes[k] : Expire(k, c)
    \/ \E t \in DOMAIN tokens : Logout(t)

Spec == Init /\ [][Next]_vars

-----------------------------------------------------------------------------
(* Rotation (auth.py refresh, "exactly one of two requests succeeds"): one *)
(* login never has two tokens in use, however many requests present the    *)
(* same token at once, are revoked meanwhile or wait for one another.      *)
OneTokenPerLogin ==
    \A t, v \in DOMAIN tokens :
        tokens[t].live /\ tokens[v].live /\ tokens[t].login = tokens[v].login => t = v

(* A password change, a reset and a deletion end the sessions: a token in  *)
(* use was stored after the UPDATE of the last ending of its user began,   *)
(* also when two endings, a login and a refresh overlap.                   *)
SessionsEnded ==
    \A t \in DOMAIN tokens :
        tokens[t].live => tokens[t].issued >= users[tokens[t].user].ended

(* Login is the one place that asks for a verified address (auth.py, "only *)
(* here"): no token is in use for an account that is not verified, or that *)
(* a signup has reclaimed between the login's query and its commit.        *)
SessionsOfVerified ==
    \A t \in DOMAIN tokens :
        tokens[t].live => LET u == tokens[t].user IN Exists(u) /\ users[u].verified

(* One code at a time, as far as it goes (issue_verification_code): an     *)
(* older code is still usable only when it was stored while the newer one  *)
(* was being issued.                                                       *)
OneLiveCode ==
    \A k \in Kinds : \A c, d \in DOMAIN codes[k] :
        /\ c < d /\ codes[k][c].user = codes[k][d].user
        /\ codes[k][c].live /\ codes[k][d].live
        => c > codes[k][d].since

(* "Always at most one usable code for a user" (issue_verification_code).  *)
(* Two issues that overlap leave two: AccountsCodes.cfg.                   *)
AtMostOneCode ==
    \A c, d \in DOMAIN codes["verify"] :
        /\ c < d /\ codes["verify"][c].user = codes["verify"][d].user
        => ~(codes["verify"][c].live /\ codes["verify"][d].live)
=============================================================================
