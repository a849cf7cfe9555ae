--------------------------- MODULE AccountsProofs ---------------------------
(***************************************************************************)
(* Proofs about Accounts, for every set of request threads and any number  *)
(* of accounts, codes, tokens, tries and endings: its types, the rotation  *)
(* of refresh tokens, and what a session in use says of its account.       *)
(***************************************************************************)
EXTENDS Accounts, SequenceTheorems, TLAPS

Endings == {"resetting", "changing", "deleting"}

There(user) == user.row \in {"active", "deleted"}

(* What a request carries to its commit.                                   *)
Carries(h) ==
    LET r == handlers[h] IN
    /\ r.pc \notin {"idle", "signup", "insert"} => r.user \in Users
    /\ r.pc = "wrong" => r.read < MAX_ATTEMPTS
    /\ r.pc = "code" => r.row <= Len(codes[r.kind])
    /\ r.pc = "claimed" => r.row \in DOMAIN tokens /\ tokens[r.row].user = r.user
    /\ r.pc \in Endings => r.read <= endings

TypeInv ==
    /\ TypeOK
    /\ NumCodes <= MaxCodes
    /\ Len(tokens) <= MaxTokens
    /\ \A h \in Handlers : Carries(h)

(* A refresh holds the row it has claimed, alone and in use, unless the    *)
(* account has gone with its tokens; a login starts with its first token.  *)
RotationInv ==
    /\ OneTokenPerLogin
    /\ \A t \in DOMAIN tokens : tokens[t].login <= t
    /\ \A h \in Handlers : At(h, "claimed") =>
         LET r == handlers[h] IN
         /\ There(users[r.user]) => tokens[r.row].live
         /\ \A g \in Handlers : At(g, "claimed") /\ handlers[g].row = r.row => g = h

(* An ending has seen every token of its user that is older than itself.   *)
EndedInv ==
    /\ SessionsEnded
    /\ \A u \in Users : users[u].ended <= endings
    /\ \A h \in Handlers : handlers[h].pc \in Endings =>
         \A t \in DOMAIN tokens :
            /\ tokens[t].live /\ tokens[t].user = handlers[h].user
            /\ t \notin handlers[h].saw
            => tokens[t].issued >= handlers[h].read

(* A request that will insert a token was admitted for a verified address. *)
VerifiedInv ==
    /\ SessionsOfVerified
    /\ \A u \in Users : users[u].verified => users[u].row # "none"
    /\ \A h \in Handlers : handlers[h].pc \in {"token", "claimed"} => users[handlers[h].user].verified

(* An issue has seen every live code that was there when it began.         *)
IssueInv ==
    /\ OneLiveCode
    /\ \A h \in Handlers : At(h, "code") =>
         LET r == handlers[h] IN
         \A c \in DOMAIN codes[r.kind] :
            /\ codes[r.kind][c].live /\ codes[r.kind][c].user = r.user /\ c <= r.row
            => c \in r.saw

-----------------------------------------------------------------------------
(* The tables                                                              *)

LEMMA Constants ==
    /\ MAX_ATTEMPTS \in Nat /\ MaxUsers \in Nat /\ MaxCodes \in Nat
    /\ MaxTokens \in Nat /\ MaxEndings \in Nat
    /\ Idle \in HandlerState
  BY AccountsAssumption DEF Idle, HandlerState, Kinds

LEMMA Tables ==
    ASSUME TypeOK
    PROVE  /\ DOMAIN codes = Kinds
           /\ \A k \in Kinds : /\ codes[k] \in Seq(Code) /\ Len(codes[k]) \in Nat
                               /\ DOMAIN codes[k] = 1 .. Len(codes[k])
                               /\ \A c \in DOMAIN codes[k] : codes[k][c] \in Code
           /\ tokens \in Seq(Token) /\ Len(tokens) \in Nat
           /\ DOMAIN tokens = 1 .. Len(tokens)
           /\ \A t \in DOMAIN tokens : tokens[t] \in Token
<1>1. ASSUME NEW S, NEW s \in Seq(S)
      PROVE  /\ Len(s) \in Nat /\ DOMAIN s = 1 .. Len(s)
             /\ \A i \in DOMAIN s : s[i] \in S
  BY LenProperties, ElementOfSeq
<1>2. tokens \in Seq(Token) /\ codes \in [Kinds -> Seq(Code)]
  BY DEF TypeOK
<1> QED
  BY <1>1, <1>2

(* A table whose rows are mapped one by one is a table as long as before.  *)
LEMMA MappedTable ==
    ASSUME NEW S, NEW s \in Seq(S), NEW f \in [DOMAIN s -> S]
    PROVE  f \in Seq(S) /\ Len(f) = Len(s) /\ DOMAIN f = DOMAIN s
<1>1. Len(s) \in Nat /\ DOMAIN s = 1 .. Len(s)
  BY LenProperties
<1>2. f \in [1 .. Len(s) -> S] /\ DOMAIN f = 1 .. Len(s)
  BY <1>1
<1>3. f \in Seq(S)
  BY <1>1, <1>2, SeqDef
<1>4. Len(f) \in Nat /\ DOMAIN f = 1 .. Len(f)
  BY <1>3, LenProperties
<1> QED
  BY <1>1, <1>2, <1>3, <1>4

LEMMA AppendedRow ==
    ASSUME NEW S, NEW s \in Seq(S), NEW e \in S
    PROVE  LET a == Append(s, e) IN
           /\ a \in Seq(S) /\ Len(a) = Len(s) + 1
           /\ DOMAIN a = 1 .. (Len(s) + 1)
           /\ a[Len(s) + 1] = e
           /\ \A i \in 1 .. Len(s) : a[i] = s[i]
  BY LenProperties

(* What a step may do to the tokens that are there, and to the codes of    *)
(* one kind: the rows stay, and what is not live never becomes so again.   *)
TokensFade(after) ==
    /\ after \in Seq(Token) /\ Len(after) >= Len(tokens)
    /\ \A t \in DOMAIN tokens :
         /\ after[t].user = tokens[t].user /\ after[t].login = tokens[t].login
         /\ after[t].issued = tokens[t].issued
         /\ after[t].live => tokens[t].live

CodesFade(k, after) ==
    /\ after \in Seq(Code) /\ Len(after) >= Len(codes[k])
    /\ \A c \in DOMAIN codes[k] :
         /\ after[c].user = codes[k][c].user
         /\ after[c].live => codes[k][c].live /\ after[c].since = codes[k][c].since

LEMMA Unchanged ==
    ASSUME TypeOK
    PROVE  /\ TokensFade(tokens)
           /\ \A k \in Kinds : CodesFade(k, codes[k])
  BY Tables DEF TokensFade, CodesFade

LEMMA MappedTokens ==
    ASSUME TypeOK, NEW f,
           f \in [DOMAIN tokens -> Token],
           \A t \in DOMAIN tokens :
              /\ f[t].user = tokens[t].user /\ f[t].login = tokens[t].login
              /\ f[t].issued = tokens[t].issued
              /\ f[t].live => tokens[t].live
    PROVE  TokensFade(f) /\ Len(f) = Len(tokens)
<1>1. f \in Seq(Token) /\ Len(f) = Len(tokens) /\ Len(tokens) \in Nat
  BY Tables, MappedTable
<1> QED
  BY <1>1 DEF TokensFade

LEMMA MappedCodes ==
    ASSUME TypeOK, NEW k \in Kinds, NEW f,
           f \in [DOMAIN codes[k] -> Code],
           \A c \in DOMAIN codes[k] :
              /\ f[c].user = codes[k][c].user
              /\ f[c].live => codes[k][c].live /\ f[c].since = codes[k][c].since
    PROVE  CodesFade(k, f) /\ Len(f) = Len(codes[k])
<1>1. f \in Seq(Code) /\ Len(f) = Len(codes[k]) /\ Len(codes[k]) \in Nat
  BY Tables, MappedTable
<1> QED
  BY <1>1 DEF CodesFade

(* A code that is spent, and a token that is revoked.                      *)
LEMMA SpentCode ==
    ASSUME TypeOK, NEW k \in Kinds, NEW c \in DOMAIN codes[k]
    PROVE  /\ Spent(codes[k][c]) \in Code
           /\ Spent(codes[k][c]).user = codes[k][c].user
           /\ ~Spent(codes[k][c]).live
<1>1. codes[k][c] \in Code
  BY Tables
<1>2. \A code \in Code : /\ Spent(code) \in Code
                          /\ Spent(code).user = code.user /\ Spent(code).live = FALSE
  <2> TAKE code \in Code
  <2> DEFINE dead == [code EXCEPT !.live = FALSE]
  <2>1. dead \in Code /\ dead.user = code.user /\ dead.live = FALSE
    BY DEF Code
  <2>2. Spent(code) = [dead EXCEPT !.since = 0]
    BY DEF Spent
  <2>3. 0 \in 0 .. MaxCodes
    BY Constants
  <2> HIDE DEF dead
  <2> QED
    BY <2>1, <2>2, <2>3 DEF Code
<1> QED
  BY <1>1, <1>2

LEMMA CodeSpent ==
    ASSUME TypeOK, NEW k \in Kinds, NEW c
    PROVE  LET after == [codes EXCEPT ![k][c] = Spent(@)] IN
           /\ after \in [Kinds -> Seq(Code)]
           /\ \A j \in Kinds : CodesFade(j, after[j]) /\ Len(after[j]) = Len(codes[j])
<1> DEFINE f == [codes[k] EXCEPT ![c] = Spent(@)]
           after == [codes EXCEPT ![k][c] = Spent(@)]
<1>1. after = [codes EXCEPT ![k] = f]
  OBVIOUS
<1>2. f \in [DOMAIN codes[k] -> Code]
  BY Tables, SpentCode
<1>3. \A d \in DOMAIN codes[k] : f[d] = IF d = c THEN Spent(codes[k][d]) ELSE codes[k][d]
  OBVIOUS
<1> HIDE DEF f
<1>4. CodesFade(k, f) /\ Len(f) = Len(codes[k])
  BY <1>2, <1>3, SpentCode, MappedCodes
<1>5. \A j \in Kinds : after[j] = IF j = k THEN f ELSE codes[j]
  BY <1>1, Tables
<1>6. \A j \in Kinds : CodesFade(j, codes[j]) /\ codes[j] \in Seq(Code)
  BY Unchanged, Tables
<1>7. f \in Seq(Code)
  BY <1>4 DEF CodesFade
<1>8. DOMAIN after = Kinds /\ after = [j \in Kinds |-> after[j]]
  BY <1>1, Tables DEF TypeOK
<1> HIDE DEF after
<1> QED
  BY <1>4, <1>5, <1>6, <1>7, <1>8 DEF after

LEMMA TokenRevoked ==
    ASSUME TypeOK, NEW t
    PROVE  LET after == [tokens EXCEPT ![t].live = FALSE] IN
           /\ TokensFade(after) /\ Len(after) = Len(tokens)
           /\ \A v \in DOMAIN tokens :
                after[v] = IF v = t THEN [tokens[v] EXCEPT !.live = FALSE] ELSE tokens[v]
<1> DEFINE after == [tokens EXCEPT ![t].live = FALSE]
<1>1. \A v \in DOMAIN tokens :
         after[v] = IF v = t THEN [tokens[v] EXCEPT !.live = FALSE] ELSE tokens[v]
  OBVIOUS
<1>2. DOMAIN after = DOMAIN tokens
  OBVIOUS
<1>3. \A v \in DOMAIN tokens : [tokens[v] EXCEPT !.live = FALSE] \in Token
  BY Tables DEF Token
<1>4. after \in [DOMAIN tokens -> Token]
  BY <1>1, <1>2, <1>3, Tables
<1>5. \A v \in DOMAIN tokens :
        /\ after[v].user = tokens[v].user /\ after[v].login = tokens[v].login
        /\ after[v].issued = tokens[v].issued
        /\ after[v].live => tokens[v].live
  BY <1>1, Tables DEF Token
<1> HIDE DEF after
<1>6. TokensFade(after) /\ Len(after) = Len(tokens)
  BY <1>4, <1>5, MappedTokens
<1> QED
  BY <1>1, <1>6 DEF after

-----------------------------------------------------------------------------
(* Types: every step lets the tables fade, and a request carries what its  *)
(* commit needs.                                                           *)

(* An account that is there stays, ends once, and is not made unverified.  *)
AccountsGo ==
    \A u \in Users : users[u].row # "none" =>
        /\ users'[u].row # "none"
        /\ users[u].verified => users'[u].verified
        /\ Exists(u)' => Exists(u)

Fades ==
    /\ users' \in [Users -> User] /\ codes' \in [Kinds -> Seq(Code)]
    /\ endings' \in 0 .. MaxEndings /\ endings <= endings'
    /\ NumCodes' <= MaxCodes /\ Len(tokens') <= MaxTokens
    /\ TokensFade(tokens') /\ \A k \in Kinds : CodesFade(k, codes'[k])
    /\ AccountsGo

LEMMA Rest ==
    ASSUME TypeInv, UNCHANGED <<users, codes, tokens>>,
           endings' \in 0 .. MaxEndings, endings <= endings'
    PROVE  Fades
<1>1. AccountsGo /\ NumCodes' = NumCodes
  BY DEF AccountsGo, Exists, NumCodes
<1>2. TokensFade(tokens') /\ \A k \in Kinds : CodesFade(k, codes'[k])
  BY Unchanged DEF TypeInv
<1> QED
  BY <1>1, <1>2 DEF Fades, TypeInv, TypeOK

LEMMA GoesTo ==
    ASSUME TypeOK, NEW h \in Handlers, NEW state \in HandlerState, Goes(h, state)
    PROVE  /\ handlers' \in [Handlers -> HandlerState]
           /\ handlers'[h] = state
           /\ \A g \in Handlers : g # h => handlers'[g] = handlers[g]
  BY DEF Goes, TypeOK

LEMMA OneStep ==
    ASSUME TypeInv, Fades, NEW h \in Handlers, NEW state \in HandlerState, Goes(h, state),
           state.pc \notin {"idle", "signup", "insert"} => state.user \in Users,
           state.pc = "wrong" => state.read < MAX_ATTEMPTS,
           state.pc = "code" => state.row <= Len(codes[state.kind]),
           state.pc = "claimed" => /\ state.row \in DOMAIN tokens
                                   /\ tokens[state.row].user = state.user,
           state.pc \in Endings => state.read <= endings'
    PROVE  TypeInv'
<1>1. /\ handlers' \in [Handlers -> HandlerState]
      /\ handlers'[h] = state
      /\ \A g \in Handlers : g # h => handlers'[g] = handlers[g]
  BY GoesTo DEF TypeInv
<1>2. TypeOK'
  BY <1>1 DEF TypeOK, Fades, TokensFade
<1>3. \A k \in Kinds : /\ Len(codes[k]) \in Nat /\ Len(codes'[k]) \in Nat
                       /\ Len(codes[k]) <= Len(codes'[k])
  <2>1. ASSUME NEW k \in Kinds
        PROVE  Len(codes[k]) \in Nat /\ codes'[k] \in Seq(Code) /\ Len(codes[k]) <= Len(codes'[k])
    BY Tables DEF TypeInv, Fades, CodesFade
  <2>2. ASSUME NEW k \in Kinds PROVE Len(codes'[k]) \in Nat
    BY <2>1, LenProperties
  <2> QED
    BY <2>1, <2>2
<1>4. \A g \in Handlers : handlers[g] \in HandlerState /\ handlers'[g] \in HandlerState
  BY <1>1 DEF TypeInv, TypeOK
<1>5. \A t \in DOMAIN tokens : t \in DOMAIN tokens' /\ tokens'[t].user = tokens[t].user
  <2>1. /\ DOMAIN tokens = 1 .. Len(tokens) /\ Len(tokens) \in Nat
        /\ tokens' \in Seq(Token) /\ Len(tokens) <= Len(tokens')
    BY Tables DEF TypeInv, Fades, TokensFade
  <2>2. DOMAIN tokens' = 1 .. Len(tokens') /\ Len(tokens') \in Nat
    BY <2>1, LenProperties
  <2> QED
    BY <2>1, <2>2 DEF Fades, TokensFade
<1>6. ASSUME NEW g \in Handlers PROVE Carries(g)'
  <2>1. /\ handlers'[g].kind \in Kinds /\ handlers'[g].row \in Nat /\ handlers'[g].read \in Nat
        /\ handlers[g].kind \in Kinds /\ handlers[g].row \in Nat /\ handlers[g].read \in Nat
    BY <1>4, Constants DEF HandlerState
  <2>2. CASE g = h
    BY <1>1, <1>3, <1>5, <2>1, <2>2 DEF Carries
  <2>3. CASE g # h
    <3>1. handlers'[g] = handlers[g] /\ Carries(g)
      BY <1>1, <2>3 DEF TypeInv
    <3>2. endings \in Nat /\ endings' \in Nat /\ endings <= endings'
      BY DEF TypeInv, TypeOK, Fades
    <3> QED
      BY <1>3, <1>5, <2>1, <3>1, <3>2 DEF Carries
  <2> QED
    BY <2>2, <2>3
<1> QED
  BY <1>2, <1>6 DEF TypeInv, Fades

(* A request that has ended carries nothing.                               *)
LEMMA Answered ==
    ASSUME TypeInv, Fades, NEW h \in Handlers, Goes(h, Idle)
    PROVE  TypeInv'
<1>1. Idle.pc = "idle"
  BY DEF Idle
<1>2. Idle.pc \notin Endings
  BY <1>1 DEF Endings
<1> QED
  BY <1>1, <1>2, Constants, OneStep

LEMMA InitTypeInv == Init => TypeInv
<1> SUFFICES ASSUME Init PROVE TypeInv
  OBVIOUS
<1>1. /\ <<>> \in Seq(Code) /\ <<>> \in Seq(Token) /\ Len(<<>>) = 0
  BY EmptySeq
<1>2. users \in [Users -> User]
  BY Constants DEF Init, NoUser, User
<1>3. \A h \in Handlers : Carries(h)
  <2> TAKE h \in Handlers
  <2>1. handlers[h].pc = "idle"
    BY DEF Init, Idle
  <2> QED
    BY <2>1 DEF Carries, Endings
<1>4. NumCodes = 0
  BY <1>1 DEF Init, NumCodes, Kinds
<1> QED
  BY <1>1, <1>2, <1>3, <1>4, Constants DEF Init, TypeInv, TypeOK

(* Checks read the tables and leave them.                                  *)
Checks(h) ==
    \/ Signup(h) \/ SignupCheck(h) \/ SignupIssues(h) \/ Login(h) \/ RefreshClaim(h) \/ Reset(h)
    \/ \E k \in Kinds : RequestCode(h, k)
    \/ \E k \in Kinds, right \in BOOLEAN : Try(h, k, right)
    \/ \E what \in {"changing", "deleting"} : Manage(h, what)

(* Commits write them and end the request, or its first part.              *)
Commits(h) ==
    \/ Reclaim(h) \/ SignupStore(h) \/ IssueStore(h) \/ CountTry(h) \/ VerifyStore(h)
    \/ TokenStore(h) \/ RefreshStore(h) \/ EndStore(h)

(* What is in the sets an UPDATE saw fits the type of a request.           *)
LEMMA Sights ==
    ASSUME TypeInv, NEW u
    PROVE  /\ LiveTokens(u) \subseteq 1 .. MaxCodes + MaxTokens
           /\ \A k \in Kinds : /\ Live(k, u) \subseteq 1 .. MaxCodes + MaxTokens
                               /\ Len(codes[k]) \in 0 .. MaxCodes
           /\ Len(tokens) \in 0 .. MaxTokens
<1>1. Len(tokens) \in 0 .. MaxTokens /\ DOMAIN tokens = 1 .. Len(tokens)
  BY Tables, Constants DEF TypeInv
<1>2. \A k \in Kinds : Len(codes[k]) \in 0 .. MaxCodes /\ DOMAIN codes[k] = 1 .. Len(codes[k])
  BY Tables, Constants DEF TypeInv, NumCodes, Kinds
<1>3. LiveTokens(u) \subseteq DOMAIN tokens /\ \A k : Live(k, u) \subseteq DOMAIN codes[k]
  BY DEF LiveTokens, Live
<1> QED
  BY <1>1, <1>2, <1>3, Constants

LEMMA IssuingTypes ==
    ASSUME TypeInv, NEW u \in Users, NEW k \in Kinds
    PROVE  /\ Issuing(u, k) \in HandlerState
           /\ Issuing(u, k).pc = "code" /\ Issuing(u, k).user = u /\ Issuing(u, k).kind = k
           /\ Issuing(u, k).row = Len(codes[k]) /\ Issuing(u, k).saw = Live(k, u)
<1>1. Live(k, u) \subseteq 1 .. MaxCodes + MaxTokens /\ Len(codes[k]) \in 0 .. MaxCodes
  BY Sights
<1>2. Len(codes[k]) \in 0 .. MaxCodes + MaxTokens + MaxEndings
  BY <1>1, Constants
<1>3. 0 \in 0 .. MAX_ATTEMPTS + MaxEndings
  BY Constants
<1> QED
  BY <1>1, <1>2, <1>3 DEF Issuing, Idle, HandlerState

(* An ending that begins.                                                  *)
LEMMA BeginsTypes ==
    ASSUME TypeInv, NEW h \in Handlers, NEW u \in Users, NEW pc \in Endings,
           NEW c \in 0 .. MaxCodes, EndBegins(h, u, pc, c)
    PROVE  /\ TypeInv' /\ Fades
           /\ handlers'[h].pc = pc /\ handlers'[h].user = u
           /\ handlers'[h].saw = LiveTokens(u) /\ handlers'[h].read = endings'
           /\ \A g \in Handlers : g # h => handlers'[g] = handlers[g]
<1> DEFINE new == [Idle EXCEPT !.pc = pc, !.user = u, !.kind = "reset", !.row = c,
                               !.saw = LiveTokens(u), !.read = endings']
<1>1. /\ new.pc = pc /\ new.user = u /\ new.saw = LiveTokens(u) /\ new.read = endings'
      /\ pc # "wrong" /\ pc # "code" /\ pc # "claimed"
  BY DEF Idle, Endings
<1>2. endings' \in 0 .. MaxEndings /\ endings <= endings'
  BY Constants DEF EndBegins, TypeInv, TypeOK
<1>3. /\ endings' \in 0 .. MAX_ATTEMPTS + MaxEndings
      /\ c \in 0 .. MaxCodes + MaxTokens + MaxEndings
      /\ LiveTokens(u) \subseteq 1 .. MaxCodes + MaxTokens
  BY <1>2, Sights, Constants
<1>4. new \in HandlerState
  BY <1>3 DEF Idle, HandlerState, Endings, Kinds
<1>5. Goes(h, new)
  BY DEF EndBegins
<1>6. Fades
  BY <1>2, Rest DEF EndBegins
<1>7. new.read <= endings'
  BY <1>1, <1>2, Constants
<1> HIDE DEF new
<1>8. TypeInv'
  BY <1>1, <1>4, <1>5, <1>6, <1>7, OneStep
<1> QED
  BY <1>1, <1>4, <1>5, <1>6, <1>8, GoesTo DEF TypeInv

LEMMA TriedTypes ==
    ASSUME TypeInv, NEW k \in Kinds, NEW u, NEW c \in Tried(k, u)
    PROVE  /\ c \in Live(k, u) /\ c \in DOMAIN codes[k] /\ c \in 0 .. MaxCodes
           /\ codes[k][c].attempts \in 0 .. MAX_ATTEMPTS /\ codes[k][c].attempts < MAX_ATTEMPTS
<1>1. c \in Live(k, u) /\ codes[k][c].attempts < MAX_ATTEMPTS
  BY DEF Tried, Latest
<1>2. c \in DOMAIN codes[k]
  BY <1>1 DEF Live
<1>3. codes[k][c] \in Code /\ c \in 1 .. Len(codes[k]) /\ Len(codes[k]) \in 0 .. MaxCodes
  BY <1>2, Tables, Sights DEF TypeInv
<1> QED
  BY <1>1, <1>2, <1>3, Constants DEF Code

LEMMA CheckTypeInv ==
    ASSUME TypeInv, NEW h \in Handlers, Checks(h) PROVE TypeInv' /\ Fades
<1>1. CASE UNCHANGED <<users, codes, tokens, endings>>
  <2>1. Fades
    BY <1>1, Rest, Constants DEF TypeInv, TypeOK
  <2>2. ASSUME NEW state \in HandlerState, Goes(h, state),
               state.pc \in {"reclaim", "insert", "token"},
               state.pc # "insert" => state.user \in Users
        PROVE  TypeInv'
    <3>1. state.pc \notin Endings /\ state.pc \notin {"wrong", "code"}
      BY <2>2 DEF Endings
    <3> QED
      BY <2>1, <2>2, <3>1, OneStep
  <2>3. ASSUME NEW u \in Users, NEW pc \in {"reclaim", "token"},
               Goes(h, [Idle EXCEPT !.pc = pc, !.user = u])
        PROVE  TypeInv'
    <3> DEFINE new == [Idle EXCEPT !.pc = pc, !.user = u]
    <3>1. new \in HandlerState
      BY Constants DEF Idle, HandlerState
    <3>2. new.pc = pc /\ new.user = u /\ Goes(h, new)
      BY <2>3 DEF Idle
    <3> HIDE DEF new
    <3> QED
      BY <2>2, <3>1, <3>2
  <2>4. CASE Signup(h) \/ SignupCheck(h) \/ Login(h)
    <3>1. CASE Goes(h, [Idle EXCEPT !.pc = "insert"])
      <4> DEFINE new == [Idle EXCEPT !.pc = "insert"]
      <4>1. new \in HandlerState
        BY Constants DEF Idle, HandlerState
      <4>2. new.pc = "insert" /\ Goes(h, new)
        BY <3>1 DEF Idle
      <4> HIDE DEF new
      <4> QED
        BY <2>1, <2>2, <4>1, <4>2
    <3>2. CASE Goes(h, Idle)
      BY <2>1, <3>2, Answered
    <3>3. Stale \subseteq Users /\ MayLogin \subseteq Users
      BY DEF Stale, MayLogin, Holders
    <3>4. CASE \E u \in Users, pc \in {"reclaim", "token"} :
                 Goes(h, [Idle EXCEPT !.pc = pc, !.user = u])
      BY <2>1, <2>3, <3>4
    <3> QED
      BY <2>4, <3>1, <3>2, <3>3, <3>4 DEF Signup, SignupCheck, Login
  <2>5. CASE SignupIssues(h) \/ \E k \in Kinds : RequestCode(h, k)
    <3>1. PICK u \in Users, k \in Kinds : Goes(h, Issuing(u, k))
      <4>1. CASE SignupIssues(h)
        BY <4>1 DEF SignupIssues, At, TypeInv, Carries, Kinds
      <4>2. CASE \E k \in Kinds : RequestCode(h, k)
        BY <4>2 DEF RequestCode, Holders
      <4> QED
        BY <2>5, <4>1, <4>2
    <3>2. Len(codes[k]) <= Len(codes[k])
      BY Sights, Constants
    <3>3. Issuing(u, k).pc \notin Endings
      BY IssuingTypes DEF Endings
    <3> QED
      BY <2>1, <3>1, <3>2, <3>3, IssuingTypes, OneStep
  <2>6. CASE \E k \in Kinds, right \in BOOLEAN : Try(h, k, right)
    <3>0. PICK k \in Kinds, right \in BOOLEAN, u \in Users : \E c \in Tried(k, u) :
            Goes(h, [Idle EXCEPT !.pc = IF right THEN "verify" ELSE "wrong", !.user = u,
                                 !.kind = k, !.row = c, !.read = codes[k][c].attempts])
      BY <2>6 DEF Try, Holders
    <3>1. PICK c \in Tried(k, u) :
            Goes(h, [Idle EXCEPT !.pc = IF right THEN "verify" ELSE "wrong", !.user = u,
                                 !.kind = k, !.row = c, !.read = codes[k][c].attempts])
      BY <3>0
    <3> DEFINE new == [Idle EXCEPT !.pc = IF right THEN "verify" ELSE "wrong", !.user = u,
                                   !.kind = k, !.row = c, !.read = codes[k][c].attempts]
    <3>3. /\ c \in 0 .. MaxCodes + MaxTokens + MaxEndings
          /\ codes[k][c].attempts \in 0 .. MAX_ATTEMPTS + MaxEndings
          /\ codes[k][c].attempts < MAX_ATTEMPTS
      BY TriedTypes, Constants
    <3>4. new \in HandlerState
      BY <3>3 DEF Idle, HandlerState
    <3>5. /\ new.pc \in {"verify", "wrong"} /\ new.user = u
          /\ new.read = codes[k][c].attempts /\ Goes(h, new)
      BY <3>1 DEF Idle
    <3>6. new.pc \notin Endings /\ new.pc # "code"
      BY <3>5 DEF Endings
    <3> HIDE DEF new
    <3> QED
      BY <2>1, <3>3, <3>4, <3>5, <3>6, OneStep
  <2>7. CASE RefreshClaim(h)
    <3>1. PICK t \in DOMAIN tokens :
            Goes(h, [Idle EXCEPT !.pc = "claimed", !.user = tokens[t].user, !.row = t])
      BY <2>7 DEF RefreshClaim
    <3> DEFINE new == [Idle EXCEPT !.pc = "claimed", !.user = tokens[t].user, !.row = t]
    <3>3. tokens[t].user \in Users
      BY Tables DEF TypeInv, Token
    <3>4. t \in 0 .. MaxCodes + MaxTokens + MaxEndings /\ 0 \in 0 .. MAX_ATTEMPTS + MaxEndings
      BY Sights, Tables, Constants DEF TypeInv
    <3>5. new \in HandlerState
      BY <3>3, <3>4 DEF Idle, HandlerState, Kinds
    <3>6. /\ new.pc = "claimed" /\ new.user \in Users /\ Goes(h, new)
          /\ new.row = t /\ new.user = tokens[t].user
      BY <3>1, <3>3 DEF Idle
    <3>7. new.pc \notin Endings
      BY <3>6 DEF Endings
    <3> HIDE DEF new
    <3> QED
      BY <2>1, <3>5, <3>6, <3>7, OneStep
  <2>8. endings' # endings + 1
    BY <1>1 DEF TypeInv, TypeOK
  <2> QED
    BY <2>1, <2>4, <2>5, <2>6, <2>7, <2>8 DEF Checks, Reset, Manage, EndBegins
<1>2. CASE Reset(h) \/ \E what \in {"changing", "deleting"} : Manage(h, what)
  <2>1. \A u \in Users : \A c \in Tried("reset", u) : c \in 0 .. MaxCodes
    BY TriedTypes DEF Kinds
  <2>2. \E u \in Users, pc \in Endings, c \in 0 .. MaxCodes : EndBegins(h, u, pc, c)
    <3>1. 0 \in 0 .. MaxCodes
      BY Constants
    <3> QED
      BY <1>2, <2>1, <3>1 DEF Reset, Manage, Endings, Holders
  <2> QED
    BY <2>2, BeginsTypes
<1> QED
  BY <1>1, <1>2
  DEF Checks, Signup, SignupCheck, SignupIssues, Login, RefreshClaim, RequestCode, Try

-----------------------------------------------------------------------------
(* Commits, and what they make of the tables                               *)

LEMMA GainedToken ==
    ASSUME TypeInv, NEW base, TokensFade(base), Len(base) = Len(tokens),
           Len(tokens) < MaxTokens, NEW u \in Users, NEW login \in 1 .. MaxTokens,
           tokens' = Append(base, NewToken(u, login))
    PROVE  /\ TokensFade(tokens') /\ Len(tokens') = Len(tokens) + 1
           /\ Len(tokens') <= MaxTokens
           /\ tokens'[Len(tokens) + 1] = NewToken(u, login)
           /\ \A t \in DOMAIN tokens : tokens'[t] = base[t]
<1>1. NewToken(u, login) \in Token
  BY DEF NewToken, Token, TypeInv, TypeOK
<1>2. /\ base \in Seq(Token) /\ Len(tokens) \in 0 .. MaxTokens
      /\ DOMAIN tokens = 1 .. Len(tokens)
  BY Sights, Tables DEF TokensFade, TypeInv
<1>3. /\ tokens' \in Seq(Token) /\ Len(tokens') = Len(tokens) + 1
      /\ tokens'[Len(tokens) + 1] = NewToken(u, login)
      /\ \A t \in DOMAIN tokens : tokens'[t] = base[t]
  BY <1>1, <1>2, AppendedRow
<1> QED
  BY <1>2, <1>3, Constants DEF TokensFade

LEMMA SameCodes ==
    ASSUME TypeOK, UNCHANGED codes
    PROVE  /\ codes' \in [Kinds -> Seq(Code)] /\ NumCodes' = NumCodes
           /\ \A k \in Kinds : CodesFade(k, codes'[k])
  BY Unchanged DEF TypeOK, NumCodes

LEMMA SameTokens ==
    ASSUME TypeOK, UNCHANGED tokens PROVE TokensFade(tokens') /\ Len(tokens') = Len(tokens)
  BY Unchanged

LEMMA SameUsers ==
    ASSUME TypeOK, UNCHANGED users PROVE users' \in [Users -> User] /\ AccountsGo
  BY DEF TypeOK, AccountsGo, Exists

(* The codes after a step that leaves their number alone.                  *)
LEMMA AsManyCodes ==
    ASSUME TypeInv, codes' \in [Kinds -> Seq(Code)],
           \A k \in Kinds : Len(codes'[k]) = Len(codes[k])
    PROVE  NumCodes' <= MaxCodes
  BY DEF NumCodes, Kinds, TypeInv

LEMMA Bounds ==
    ASSUME TypeInv, UNCHANGED endings
    PROVE  /\ endings' \in 0 .. MaxEndings /\ endings <= endings'
           /\ \A h \in Handlers : handlers[h] \in HandlerState
  BY Constants DEF TypeInv, TypeOK

LEMMA ReclaimStep ==
    ASSUME TypeInv, NEW h \in Handlers, Reclaim(h)
    PROVE  /\ TypeInv' /\ Fades
           /\ Len(tokens') = Len(tokens) /\ \A k \in Kinds : Len(codes'[k]) = Len(codes[k])
           /\ users' = [users EXCEPT ![handlers[h].user].row = "gone"]
           /\ \A t \in DOMAIN tokens :
                tokens'[t].live <=> tokens[t].live /\ tokens[t].user # handlers[h].user
           /\ handlers'[h].pc = "signup"
           /\ \A g \in Handlers : g # h => handlers'[g] = handlers[g]
<1> DEFINE u == handlers[h].user
<1>1. u \in Users
  BY DEF Reclaim, At, TypeInv, Carries
<1>2. users' \in [Users -> User] /\ AccountsGo
  <2>1. users' = [users EXCEPT ![u].row = "gone"] /\ users \in [Users -> User]
    BY DEF Reclaim, TypeInv, TypeOK
  <2>2. \A v \in Users : users[v] \in User /\ users'[v] = IF v = u THEN [users[u] EXCEPT !.row = "gone"]
                                                          ELSE users[v]
    BY <2>1
  <2>3. [users[u] EXCEPT !.row = "gone"] \in User
    BY <1>1, <2>2 DEF User
  <2> QED
    BY <1>1, <2>1, <2>2, <2>3 DEF AccountsGo, Exists, User
<1>3. \A k \in Kinds : CodesFade(k, codes'[k]) /\ Len(codes'[k]) = Len(codes[k])
  <2> TAKE k \in Kinds
  <2>1. codes'[k] = [c \in DOMAIN codes[k] |->
                       IF codes[k][c].user = u THEN Spent(codes[k][c]) ELSE codes[k][c]]
    BY DEF Reclaim
  <2>2. \A c \in DOMAIN codes[k] : codes[k][c] \in Code
    BY Tables DEF TypeInv
  <2>3. /\ codes'[k] \in [DOMAIN codes[k] -> Code]
        /\ \A c \in DOMAIN codes[k] :
             /\ codes'[k][c].user = codes[k][c].user
             /\ codes'[k][c].live => codes[k][c].live /\ codes'[k][c].since = codes[k][c].since
    BY <2>1, <2>2, SpentCode DEF TypeInv
  <2> QED
    BY <2>3, MappedCodes DEF TypeInv
<1>4. codes' \in [Kinds -> Seq(Code)]
  <2>1. codes' = [k \in Kinds |-> codes'[k]]
    BY DEF Reclaim
  <2> QED
    BY <1>3, <2>1 DEF CodesFade
<1>5. /\ TokensFade(tokens') /\ Len(tokens') = Len(tokens)
      /\ \A t \in DOMAIN tokens : tokens'[t].live <=> tokens[t].live /\ tokens[t].user # u
  <2>1. \A t \in DOMAIN tokens : tokens[t] \in Token
    BY Tables DEF TypeInv
  <2>2. tokens' = [t \in DOMAIN tokens |-> [tokens[t] EXCEPT !.live = tokens[t].live /\ tokens[t].user # u]]
    BY <2>1 DEF Reclaim
  <2>3. ASSUME NEW t \in DOMAIN tokens
        PROVE  /\ tokens'[t] \in Token
               /\ tokens'[t].user = tokens[t].user /\ tokens'[t].login = tokens[t].login
               /\ tokens'[t].issued = tokens[t].issued
               /\ tokens'[t].live => tokens[t].live
               /\ tokens'[t].live <=> tokens[t].live /\ tokens[t].user # u
    <3> DEFINE kept == tokens[t].live /\ tokens[t].user # u
    <3>1. kept \in BOOLEAN /\ (kept => tokens[t].live) /\ (kept <=> tokens[t].live /\ tokens[t].user # u)
      OBVIOUS
    <3>2. tokens'[t] = [tokens[t] EXCEPT !.live = kept]
      BY <2>2
    <3> HIDE DEF kept
    <3> QED
      BY <2>1, <3>1, <3>2 DEF Token
  <2>4. tokens' \in [DOMAIN tokens -> Token]
    BY <2>2, <2>3
  <2> HIDE DEF u
  <2> QED
    BY <2>3, <2>4, MappedTokens DEF TypeInv
<1>6. Fades
  BY <1>2, <1>3, <1>4, <1>5, Bounds, AsManyCodes DEF Fades, Reclaim, TypeInv
<1> DEFINE new == [Idle EXCEPT !.pc = "signup"]
<1>7. new \in HandlerState /\ new.pc = "signup" /\ Goes(h, new)
  BY Constants DEF Idle, HandlerState, Reclaim
<1>8. "signup" \notin Endings
  BY DEF Endings
<1> HIDE DEF new
<1>9. TypeInv'
  BY <1>6, <1>7, <1>8, OneStep
<1>10. users' = [users EXCEPT ![u].row = "gone"]
  BY DEF Reclaim
<1> QED
  BY <1>3, <1>5, <1>6, <1>7, <1>9, <1>10, GoesTo DEF TypeInv

LEMMA SignupStoreStep ==
    ASSUME TypeInv, NEW h \in Handlers, SignupStore(h)
    PROVE  /\ TypeInv' /\ Fades /\ UNCHANGED <<codes, tokens, endings>>
           /\ \/ UNCHANGED users
              \/ \E u \in Users : users[u].row = "none" /\ users' = [users EXCEPT ![u] = NewUser]
           /\ handlers'[h].pc \in {"idle", "issue"}
           /\ \A g \in Handlers : g # h => handlers'[g] = handlers[g]
<1>1. UNCHANGED <<codes, tokens, endings>>
  BY DEF SignupStore
<1>2. /\ codes' \in [Kinds -> Seq(Code)] /\ NumCodes' <= MaxCodes
      /\ \A k \in Kinds : CodesFade(k, codes'[k])
      /\ TokensFade(tokens') /\ Len(tokens') <= MaxTokens
      /\ endings' \in 0 .. MaxEndings /\ endings <= endings'
  BY <1>1, SameCodes, SameTokens, Bounds DEF TypeInv
<1>3. ASSUME NEW u \in Users, users[u].row = "none", users' = [users EXCEPT ![u] = NewUser],
             Goes(h, [Idle EXCEPT !.pc = "issue", !.user = u])
      PROVE  /\ TypeInv' /\ Fades /\ handlers'[h].pc = "issue"
             /\ \A g \in Handlers : g # h => handlers'[g] = handlers[g]
  <2>1. NewUser \in User /\ users \in [Users -> User]
    BY Constants DEF NewUser, User, TypeInv, TypeOK
  <2>2. users' \in [Users -> User] /\ AccountsGo
    BY <1>3, <2>1 DEF AccountsGo, Exists
  <2>3. Fades
    BY <1>2, <2>2 DEF Fades
  <2> DEFINE new == [Idle EXCEPT !.pc = "issue", !.user = u]
  <2>4. new \in HandlerState /\ new.pc = "issue" /\ new.user = u /\ Goes(h, new)
    BY <1>3, Constants DEF Idle, HandlerState
  <2>5. "issue" \notin Endings
    BY DEF Endings
  <2> HIDE DEF new
  <2>6. TypeInv'
    BY <2>3, <2>4, <2>5, OneStep
  <2> QED
    BY <2>3, <2>4, <2>6, GoesTo DEF TypeInv
<1>4. CASE UNCHANGED users /\ Goes(h, Idle)
  <2>1. Fades
    BY <1>2, <1>4, SameUsers DEF Fades, TypeInv
  <2>2. Idle.pc = "idle"
    BY DEF Idle
  <2> QED
    BY <1>1, <1>4, <2>1, <2>2, Answered, Constants, GoesTo DEF TypeInv
<1>5. \/ UNCHANGED users /\ Goes(h, Idle)
      \/ \E u \in Users : /\ users[u].row = "none" /\ users' = [users EXCEPT ![u] = NewUser]
                          /\ Goes(h, [Idle EXCEPT !.pc = "issue", !.user = u])
  BY DEF SignupStore
<1> QED
  BY <1>1, <1>3, <1>4, <1>5

(* The codes an issue has consumed, and the one it has inserted.           *)
LEMMA IssueStoreStep ==
    ASSUME TypeInv, NEW h \in Handlers, IssueStore(h)
    PROVE  /\ TypeInv' /\ Fades /\ UNCHANGED <<users, tokens, endings>>
           /\ handlers'[h].pc = "idle"
           /\ \A g \in Handlers : g # h => handlers'[g] = handlers[g]
           /\ LET r == handlers[h] IN
              \/ UNCHANGED codes
              \/ /\ \A k \in Kinds : k # r.kind => codes'[k] = codes[k]
                 /\ DOMAIN codes'[r.kind] = 1 .. (Len(codes[r.kind]) + 1)
                 /\ codes'[r.kind][Len(codes[r.kind]) + 1] = NewCode(r.user, r.row)
                 /\ \A c \in DOMAIN codes[r.kind] : codes'[r.kind][c].live => c \notin r.saw
<1> DEFINE r == handlers[h]
           k == r.kind
           base == Consumed(codes[k], r.saw)
           code == NewCode(r.user, r.row)
<1>1. /\ r \in HandlerState /\ r.pc = "code" /\ r.user \in Users /\ k \in Kinds
      /\ r.row \in Nat /\ r.row <= Len(codes[k])
  BY Constants DEF IssueStore, At, TypeInv, TypeOK, Carries, HandlerState
<1>2. UNCHANGED <<users, tokens, endings>> /\ Goes(h, Idle)
  BY DEF IssueStore
<1>3. /\ handlers'[h].pc = "idle"
      /\ \A g \in Handlers : g # h => handlers'[g] = handlers[g]
  BY <1>2, GoesTo, Constants DEF TypeInv, Idle
<1>4. /\ users' \in [Users -> User] /\ AccountsGo
      /\ TokensFade(tokens') /\ Len(tokens') <= MaxTokens
      /\ endings' \in 0 .. MaxEndings /\ endings <= endings'
  BY <1>2, SameUsers, SameTokens, Bounds DEF TypeInv
<1>5. CASE UNCHANGED codes
  <2>1. Fades
    BY <1>2, <1>5, Rest, Bounds DEF TypeInv
  <2> QED
    BY <1>2, <1>3, <1>5, <2>1, Answered
<1>6. CASE /\ NumCodes < MaxCodes
           /\ codes' = [codes EXCEPT ![k] = Append(Consumed(codes[k], r.saw), code)]
  <2>1. code \in Code
    <3>1. r.row \in 0 .. MaxCodes
      BY <1>1, Sights, Constants
    <3> QED
      BY <1>1, <3>1, Constants DEF NewCode, Code
  <2>2. \A c \in DOMAIN codes[k] : codes[k][c] \in Code
    BY <1>1, Tables DEF TypeInv
  <2>3. base = [c \in DOMAIN codes[k] |-> IF c \in r.saw THEN Spent(codes[k][c]) ELSE codes[k][c]]
    BY DEF Consumed
  <2>4. /\ base \in [DOMAIN codes[k] -> Code]
        /\ \A c \in DOMAIN codes[k] :
             /\ base[c].user = codes[k][c].user
             /\ base[c].live => codes[k][c].live /\ base[c].since = codes[k][c].since
             /\ base[c].live => c \notin r.saw
    BY <1>1, <2>2, <2>3, SpentCode DEF TypeInv
  <2> HIDE DEF base, code
  <2>5. CodesFade(k, base) /\ Len(base) = Len(codes[k])
    BY <1>1, <2>4, MappedCodes DEF TypeInv
  <2>6. base \in Seq(Code)
    BY <2>5 DEF CodesFade
  <2>7. codes' = [codes EXCEPT ![k] = Append(base, code)]
    BY <1>6 DEF base
  <2>8. /\ codes'[k] = Append(base, code)
        /\ \A j \in Kinds : j # k => codes'[j] = codes[j]
        /\ codes' = [j \in Kinds |-> IF j = k THEN Append(base, code) ELSE codes[j]]
    BY <1>1, <2>7, Tables DEF TypeInv, TypeOK
  <2>9. \A j \in Kinds : Len(codes[j]) \in Nat /\ DOMAIN codes[j] = 1 .. Len(codes[j])
    BY Tables DEF TypeInv
  <2>10. /\ codes'[k] \in Seq(Code) /\ Len(codes'[k]) = Len(codes[k]) + 1
         /\ DOMAIN codes'[k] = 1 .. (Len(codes[k]) + 1)
         /\ codes'[k][Len(codes[k]) + 1] = code
         /\ \A c \in DOMAIN codes[k] : codes'[k][c] = base[c]
    <3> DEFINE a == Append(base, code)
    <3>1. /\ a \in Seq(Code) /\ Len(a) = Len(base) + 1 /\ DOMAIN a = 1 .. (Len(base) + 1)
          /\ a[Len(base) + 1] = code /\ \A i \in 1 .. Len(base) : a[i] = base[i]
      BY <2>1, <2>6, AppendedRow
    <3>2. codes'[k] = a /\ DOMAIN codes[k] = 1 .. Len(base) /\ Len(base) = Len(codes[k])
      BY <1>1, <2>5, <2>8, <2>9
    <3> HIDE DEF a
    <3> QED
      BY <3>1, <3>2
  <2>11. \A j \in Kinds : CodesFade(j, codes'[j])
    <3> TAKE j \in Kinds
    <3>1. CASE j = k
      BY <2>4, <2>9, <2>10, <3>1 DEF CodesFade
    <3>2. CASE j # k
      BY <2>8, <3>2, Unchanged DEF TypeInv
    <3> QED
      BY <3>1, <3>2
  <2>12. codes' \in [Kinds -> Seq(Code)]
    BY <2>8, <2>10, Tables DEF TypeInv
  <2>13. NumCodes' <= MaxCodes
    <3>1. \A j \in Kinds : j # k => Len(codes'[j]) = Len(codes[j])
      BY <2>8
    <3>2. /\ "verify" \in Kinds /\ "reset" \in Kinds
          /\ k = "verify" \/ k = "reset"
      BY <1>1 DEF Kinds
    <3>3. Len(codes["verify"]) \in Nat /\ Len(codes["reset"]) \in Nat
      BY <2>9, <3>2
    <3> HIDE DEF k
    <3> DEFINE v == Len(codes["verify"])
               w == Len(codes["reset"])
               vv == Len(codes'["verify"])
               ww == Len(codes'["reset"])
    <3>4. (vv = v + 1 /\ ww = w) \/ (vv = v /\ ww = w + 1)
      <4>1. CASE k = "verify"
        BY <2>10, <3>1, <3>2, <4>1
      <4>2. CASE k = "reset"
        BY <2>10, <3>1, <3>2, <4>2
      <4> QED
        BY <3>2, <4>1, <4>2
    <3>5. v \in Nat /\ w \in Nat /\ v + w < MaxCodes
      BY <1>6, <3>3 DEF NumCodes
    <3>6. NumCodes' = vv + ww
      BY DEF NumCodes
    <3> HIDE DEF v, w, vv, ww
    <3> QED
      BY <3>4, <3>5, <3>6, Constants
  <2>14. Fades
    BY <1>4, <2>11, <2>12, <2>13 DEF Fades
  <2>15. TypeInv'
    BY <1>2, <2>14, Answered
  <2> QED
    BY <1>2, <1>3, <2>4, <2>8, <2>10, <2>14, <2>15 DEF code
<1> QED
  BY <1>5, <1>6 DEF IssueStore

LEMMA CountTryStep ==
    ASSUME TypeInv, NEW h \in Handlers, CountTry(h)
    PROVE  /\ TypeInv' /\ Fades /\ UNCHANGED <<users, tokens, endings>>
           /\ \A k \in Kinds : Len(codes'[k]) = Len(codes[k])
           /\ handlers'[h].pc = "idle"
           /\ \A g \in Handlers : g # h => handlers'[g] = handlers[g]
<1> DEFINE r == handlers[h]
           k == r.kind
           f == [codes[k] EXCEPT ![r.row].attempts = r.read + 1]
<1>1. k \in Kinds /\ r.read + 1 \in 0 .. MAX_ATTEMPTS
  <2>1. /\ r.kind \in Kinds /\ r.read \in 0 .. MAX_ATTEMPTS + MaxEndings
        /\ r.read < MAX_ATTEMPTS
    BY DEF CountTry, At, TypeInv, TypeOK, Carries, HandlerState
  <2> HIDE DEF r
  <2> QED
    BY <2>1, Constants
<1>2. UNCHANGED <<users, tokens, endings>> /\ Goes(h, Idle)
  BY DEF CountTry
<1>3. /\ handlers'[h].pc = "idle"
      /\ \A g \in Handlers : g # h => handlers'[g] = handlers[g]
  BY <1>2, GoesTo, Constants DEF TypeInv, Idle
<1>4. \A c \in DOMAIN codes[k] : codes[k][c] \in Code
  BY <1>1, Tables DEF TypeInv
<1>5. \A c \in DOMAIN codes[k] :
        f[c] = IF c = r.row THEN [codes[k][c] EXCEPT !.attempts = r.read + 1] ELSE codes[k][c]
  OBVIOUS
<1>6. /\ f \in [DOMAIN codes[k] -> Code]
      /\ \A c \in DOMAIN codes[k] :
           /\ f[c].user = codes[k][c].user
           /\ f[c].live => codes[k][c].live /\ f[c].since = codes[k][c].since
  BY <1>1, <1>4, <1>5 DEF Code
<1>7. CASE codes' = [codes EXCEPT ![k][r.row].attempts = r.read + 1]
  <2>1. codes' = [codes EXCEPT ![k] = f]
    BY <1>7
  <2> HIDE DEF f
  <2>2. f \in Seq(Code) /\ CodesFade(k, f) /\ Len(f) = Len(codes[k])
    BY <1>1, <1>6, MappedCodes DEF CodesFade, TypeInv
  <2>3. \A j \in Kinds : codes'[j] = IF j = k THEN f ELSE codes[j]
    BY <1>1, <2>1 DEF TypeInv, TypeOK
  <2>4. codes' = [j \in Kinds |-> codes'[j]]
    BY <2>1 DEF TypeInv, TypeOK
  <2>5. \A j \in Kinds : CodesFade(j, codes[j]) /\ codes[j] \in Seq(Code)
    BY Unchanged, Tables DEF TypeInv
  <2>6. /\ codes' \in [Kinds -> Seq(Code)]
        /\ \A j \in Kinds : CodesFade(j, codes'[j]) /\ Len(codes'[j]) = Len(codes[j])
    BY <2>2, <2>3, <2>4, <2>5
  <2>7. Fades
    BY <1>2, <2>6, AsManyCodes, SameUsers, SameTokens, Bounds DEF Fades, TypeInv
  <2> QED
    BY <1>2, <1>3, <2>6, <2>7, Answered
<1>8. CASE UNCHANGED codes
  <2>1. Fades
    BY <1>2, <1>8, Rest, Bounds DEF TypeInv
  <2> QED
    BY <1>2, <1>3, <1>8, <2>1, Answered
<1> QED
  BY <1>7, <1>8 DEF CountTry

LEMMA VerifyStoreStep ==
    ASSUME TypeInv, NEW h \in Handlers, VerifyStore(h)
    PROVE  /\ TypeInv' /\ Fades /\ UNCHANGED <<tokens, endings>>
           /\ \A k \in Kinds : Len(codes'[k]) = Len(codes[k])
           /\ \/ UNCHANGED users
              \/ /\ handlers[h].user \in Users /\ Exists(handlers[h].user)
                 /\ users' = [users EXCEPT ![handlers[h].user].verified = TRUE]
           /\ handlers'[h].pc = "idle"
           /\ \A g \in Handlers : g # h => handlers'[g] = handlers[g]
<1> DEFINE u == handlers[h].user
           row == handlers[h].row
<1>1. u \in Users /\ UNCHANGED <<tokens, endings>> /\ Goes(h, Idle)
  BY DEF VerifyStore, At, TypeInv, Carries
<1>2. /\ handlers'[h].pc = "idle"
      /\ \A g \in Handlers : g # h => handlers'[g] = handlers[g]
  BY <1>1, GoesTo, Constants DEF TypeInv, Idle
<1>3. CASE UNCHANGED <<users, codes>>
  <2>1. Fades
    BY <1>1, <1>3, Rest, Bounds DEF TypeInv
  <2> QED
    BY <1>1, <1>2, <1>3, <2>1, Answered
<1>4. CASE /\ Exists(u)
           /\ codes' = [codes EXCEPT !["verify"][row] = Spent(@)]
           /\ users' = [users EXCEPT ![u].verified = TRUE]
  <2>1. /\ codes' \in [Kinds -> Seq(Code)]
        /\ \A j \in Kinds : CodesFade(j, codes'[j]) /\ Len(codes'[j]) = Len(codes[j])
    BY <1>4, CodeSpent DEF Kinds, TypeInv
  <2>2. /\ users \in [Users -> User] /\ users[u] \in User
        /\ \A v \in Users : users'[v] = IF v = u THEN [users[u] EXCEPT !.verified = TRUE]
                                                 ELSE users[v]
    BY <1>1, <1>4 DEF TypeInv, TypeOK
  <2>3. [users[u] EXCEPT !.verified = TRUE] \in User
    BY <2>2 DEF User
  <2>4. users' \in [Users -> User] /\ AccountsGo
    BY <1>4, <2>2, <2>3 DEF AccountsGo, Exists, User
  <2>5. Fades
    BY <1>1, <2>1, <2>4, AsManyCodes, SameTokens, Bounds DEF Fades, TypeInv
  <2> QED
    BY <1>1, <1>2, <1>4, <2>1, <2>5, Answered
<1> QED
  BY <1>3, <1>4 DEF VerifyStore

(* A token that is inserted, or an account that is gone.                   *)
LEMMA TokenStoreStep ==
    ASSUME TypeInv, NEW h \in Handlers, TokenStore(h)
    PROVE  /\ TypeInv' /\ Fades /\ UNCHANGED <<users, codes, endings>>
           /\ LET u == handlers[h].user IN
              \/ UNCHANGED tokens
              \/ /\ u \in Users /\ Exists(u) /\ DOMAIN tokens' = 1 .. (Len(tokens) + 1)
                 /\ tokens'[Len(tokens) + 1] = NewToken(u, Len(tokens) + 1)
                 /\ \A t \in DOMAIN tokens : tokens'[t] = tokens[t]
           /\ handlers'[h].pc = "idle"
           /\ \A g \in Handlers : g # h => handlers'[g] = handlers[g]
<1> DEFINE u == handlers[h].user
           login == Len(tokens) + 1
<1>1. /\ u \in Users /\ Len(tokens) < MaxTokens /\ login \in 1 .. MaxTokens
      /\ UNCHANGED <<users, codes, endings>> /\ Goes(h, Idle)
  BY Sights, Constants DEF TokenStore, At, TypeInv, Carries
<1>2. /\ handlers'[h].pc = "idle"
      /\ \A g \in Handlers : g # h => handlers'[g] = handlers[g]
  BY <1>1, GoesTo, Constants DEF TypeInv, Idle
<1>3. CASE UNCHANGED tokens
  <2>1. Fades
    BY <1>1, <1>3, Rest, Bounds DEF TypeInv
  <2> QED
    BY <1>1, <1>2, <1>3, <2>1, Answered
<1>4. CASE Exists(u) /\ tokens' = Append(tokens, NewToken(u, login))
  <2>1. TokensFade(tokens)
    BY Unchanged DEF TypeInv
  <2>2. /\ TokensFade(tokens') /\ Len(tokens') = login /\ Len(tokens') <= MaxTokens
        /\ tokens'[login] = NewToken(u, login)
        /\ \A t \in DOMAIN tokens : tokens'[t] = tokens[t]
    BY <1>1, <1>4, <2>1, GainedToken
  <2>3. Fades
    BY <1>1, <2>2, SameCodes, SameUsers, Bounds DEF Fades, TypeInv
  <2>4. TypeInv'
    BY <1>1, <2>3, Answered
  <2>5. DOMAIN tokens' = 1 .. login
    BY <2>2, <2>4, LenProperties DEF TypeInv, TypeOK
  <2> QED
    BY <1>1, <1>2, <1>4, <2>2, <2>3, <2>4, <2>5
<1> QED
  BY <1>3, <1>4 DEF TokenStore

LEMMA RefreshStoreStep ==
    ASSUME TypeInv, NEW h \in Handlers, RefreshStore(h)
    PROVE  /\ TypeInv' /\ Fades /\ UNCHANGED <<users, codes, endings>>
           /\ LET r == handlers[h] IN
              \/ UNCHANGED tokens
              \/ /\ r.user \in Users /\ Exists(r.user)
                 /\ DOMAIN tokens' = 1 .. (Len(tokens) + 1)
                 /\ tokens'[Len(tokens) + 1] = NewToken(r.user, tokens[r.row].login)
                 /\ ~tokens'[r.row].live
                 /\ \A t \in DOMAIN tokens : t # r.row => tokens'[t] = tokens[t]
           /\ handlers'[h].pc = "idle"
           /\ \A g \in Handlers : g # h => handlers'[g] = handlers[g]
<1> DEFINE r == handlers[h]
           base == [tokens EXCEPT ![r.row].live = FALSE]
           login == tokens[r.row].login
<1>1. /\ r.user \in Users /\ Len(tokens) < MaxTokens /\ r.row \in DOMAIN tokens
      /\ UNCHANGED <<users, codes, endings>> /\ Goes(h, Idle)
  BY DEF RefreshStore, At, TypeInv, Carries
<1>2. login \in 1 .. MaxTokens
  BY <1>1, Tables DEF TypeInv, Token
<1>3. /\ handlers'[h].pc = "idle"
      /\ \A g \in Handlers : g # h => handlers'[g] = handlers[g]
  BY <1>1, GoesTo, Constants DEF TypeInv, Idle
<1>4. CASE UNCHANGED tokens
  <2>1. Fades
    BY <1>1, <1>4, Rest, Bounds DEF TypeInv
  <2> QED
    BY <1>1, <1>3, <1>4, <2>1, Answered
<1>5. CASE Exists(r.user) /\ tokens' = Append(base, NewToken(r.user, login))
  <2>1. /\ TokensFade(base) /\ Len(base) = Len(tokens)
        /\ \A v \in DOMAIN tokens :
             base[v] = IF v = r.row THEN [tokens[v] EXCEPT !.live = FALSE] ELSE tokens[v]
    BY TokenRevoked DEF TypeInv
  <2>2. tokens[r.row] \in Token
    BY <1>1, Tables DEF TypeInv
  <2>3. ~base[r.row].live
    BY <1>1, <2>1, <2>2 DEF Token
  <2> HIDE DEF base, login
  <2>4. /\ TokensFade(tokens') /\ Len(tokens') = Len(tokens) + 1 /\ Len(tokens') <= MaxTokens
        /\ tokens'[Len(tokens) + 1] = NewToken(r.user, login)
        /\ \A t \in DOMAIN tokens : tokens'[t] = base[t]
    BY <1>1, <1>2, <1>5, <2>1, GainedToken
  <2>5. Fades
    BY <1>1, <2>4, SameCodes, SameUsers, Bounds DEF Fades, TypeInv
  <2>6. TypeInv'
    BY <1>1, <2>5, Answered
  <2>7. DOMAIN tokens' = 1 .. (Len(tokens) + 1)
    BY <2>4, <2>6, LenProperties DEF TypeInv, TypeOK
  <2> QED
    BY <1>1, <1>3, <1>5, <2>1, <2>3, <2>4, <2>5, <2>6, <2>7 DEF login
<1> QED
  BY <1>4, <1>5 DEF RefreshStore

(* An ending revokes what its UPDATE saw.                                  *)
LEMMA EndStoreStep ==
    ASSUME TypeInv, NEW h \in Handlers, EndStore(h)
    PROVE  /\ TypeInv' /\ Fades /\ UNCHANGED endings
           /\ Len(tokens') = Len(tokens) /\ \A k \in Kinds : Len(codes'[k]) = Len(codes[k])
           /\ LET r == handlers[h] IN
              /\ r.pc \in Endings
              /\ \A g \in Handlers : At(g, "claimed") => handlers[g].row \notin r.saw
              /\ \/ UNCHANGED <<users, tokens>>
                 \/ /\ r.user \in Users
                    /\ users' = [users EXCEPT ![r.user] = Ended(@, r.pc, r.read)]
                    /\ \A t \in DOMAIN tokens :
                         tokens'[t].live <=> tokens[t].live /\ t \notin r.saw
           /\ handlers'[h].pc = "idle"
           /\ \A g \in Handlers : g # h => handlers'[g] = handlers[g]
<1> DEFINE r == handlers[h]
<1>1. /\ r.user \in Users /\ r.pc \in Endings /\ UNCHANGED endings /\ Goes(h, Idle)
      /\ r.read \in 0 .. MaxEndings
      /\ \A g \in Handlers : At(g, "claimed") => handlers[g].row \notin r.saw
  <2>1. r.user \in Users /\ r.pc \in Endings /\ r.read <= endings
    BY DEF EndStore, TypeInv, Carries, Endings
  <2>2. r.read \in 0 .. MAX_ATTEMPTS + MaxEndings /\ endings \in 0 .. MaxEndings
    BY DEF TypeInv, TypeOK, HandlerState
  <2>3. r.read \in 0 .. MaxEndings
    BY <2>1, <2>2, Constants
  <2> QED
    BY <2>1, <2>3 DEF EndStore
<1>2. /\ handlers'[h].pc = "idle"
      /\ \A g \in Handlers : g # h => handlers'[g] = handlers[g]
  BY <1>1, GoesTo, Constants DEF TypeInv, Idle
<1>3. CASE UNCHANGED <<users, tokens, codes>>
  <2>1. Fades
    BY <1>1, <1>3, Rest, Bounds DEF TypeInv
  <2> QED
    BY <1>1, <1>2, <1>3, <2>1, Answered
<1>4. CASE ~UNCHANGED <<users, tokens, codes>>
  <2>1. /\ users' = [users EXCEPT ![r.user] = Ended(@, r.pc, r.read)]
        /\ tokens' = [t \in DOMAIN tokens |->
                        [tokens[t] EXCEPT !.live = @ /\ t \notin Revoked(r.saw)]]
        /\ \/ codes' = [codes EXCEPT !["reset"][r.row] = Spent(@)]
           \/ UNCHANGED codes
    BY <1>4 DEF EndStore
  <2>2. users' \in [Users -> User] /\ AccountsGo
    <3>1. /\ users \in [Users -> User] /\ users[r.user] \in User
          /\ \A v \in Users : users'[v] = IF v = r.user THEN Ended(users[r.user], r.pc, r.read)
                                                        ELSE users[v]
      BY <1>1, <2>1 DEF TypeInv, TypeOK
    <3>2. /\ Ended(users[r.user], r.pc, r.read) \in User
          /\ Ended(users[r.user], r.pc, r.read).verified = users[r.user].verified
          /\ Ended(users[r.user], r.pc, r.read).row \in {users[r.user].row, "deleted"}
      BY <1>1, <3>1 DEF Ended, User
    <3>3. Exists(r.user)
      BY <1>4 DEF EndStore
    <3>4. users' \in [Users -> User]
      BY <2>1, <3>1, <3>2
    <3> QED
      BY <3>1, <3>2, <3>3, <3>4 DEF AccountsGo, Exists
  <2>3. /\ codes' \in [Kinds -> Seq(Code)]
        /\ \A k \in Kinds : CodesFade(k, codes'[k]) /\ Len(codes'[k]) = Len(codes[k])
    BY <2>1, CodeSpent, SameCodes DEF Kinds, TypeInv
  <2>4. \A t \in DOMAIN tokens : tokens[t] \in Token
    BY Tables DEF TypeInv
  <2>5. ASSUME NEW t \in DOMAIN tokens
        PROVE  /\ tokens'[t] \in Token
               /\ tokens'[t].user = tokens[t].user /\ tokens'[t].login = tokens[t].login
               /\ tokens'[t].issued = tokens[t].issued
               /\ tokens'[t].live => tokens[t].live
               /\ tokens'[t].live <=> tokens[t].live /\ t \notin r.saw
    <3> DEFINE kept == tokens[t].live /\ t \notin r.saw
    <3>1. kept \in BOOLEAN /\ (kept => tokens[t].live) /\ (kept <=> tokens[t].live /\ t \notin r.saw)
      OBVIOUS
    <3>2. tokens'[t] = [tokens[t] EXCEPT !.live = kept]
      BY <2>1, <2>4 DEF Revoked
    <3> HIDE DEF kept
    <3> QED
      BY <2>4, <3>1, <3>2 DEF Token
  <2>6. tokens' \in [DOMAIN tokens -> Token]
    BY <2>1, <2>5
  <2>7. TokensFade(tokens') /\ Len(tokens') = Len(tokens)
    BY <2>5, <2>6, MappedTokens DEF TypeInv
  <2>8. Fades
    BY <1>1, <2>2, <2>3, <2>7, AsManyCodes, Bounds DEF Fades, TypeInv
  <2>9. TypeInv'
    BY <1>1, <2>8, Answered
  <2> QED
    BY <1>1, <1>2, <2>1, <2>3, <2>5, <2>7, <2>8, <2>9
<1> QED
  BY <1>3, <1>4

(* Time passes, and a session is logged out: no request is kept.           *)
LEMMA AloneStep ==
    ASSUME TypeInv, Fades, UNCHANGED handlers PROVE TypeInv'
<1>1. CASE \E h \in Handlers : TRUE
  <2>1. PICK h \in Handlers : TRUE
    BY <1>1
  <2>2. Goes(h, handlers[h]) /\ handlers[h] \in HandlerState /\ Carries(h)
    BY DEF Goes, TypeInv, TypeOK
  <2>3. handlers[h].pc \in Endings => handlers[h].read <= endings'
    <3>1. /\ handlers[h].read \in Nat /\ endings \in Nat /\ endings' \in Nat /\ endings <= endings'
      BY <2>2, Constants DEF TypeInv, TypeOK, Fades, HandlerState
    <3> QED
      BY <2>2, <3>1 DEF Carries
  <2> QED
    BY <2>2, <2>3, OneStep DEF Carries
<1>2. CASE Handlers = {}
  BY <1>2 DEF TypeInv, TypeOK, Fades, TokensFade
<1> QED
  BY <1>1, <1>2

LEMMA ExpireStep ==
    ASSUME TypeInv, NEW k \in Kinds, NEW c \in DOMAIN codes[k], Expire(k, c)
    PROVE  /\ TypeInv' /\ Fades /\ UNCHANGED <<users, tokens, handlers, endings>>
           /\ \A j \in Kinds : Len(codes'[j]) = Len(codes[j])
<1>1. /\ codes' \in [Kinds -> Seq(Code)]
      /\ \A j \in Kinds : CodesFade(j, codes'[j]) /\ Len(codes'[j]) = Len(codes[j])
  BY CodeSpent DEF Expire, TypeInv
<1>2. UNCHANGED <<users, tokens, handlers, endings>>
  BY DEF Expire
<1>3. Fades
  BY <1>1, <1>2, AsManyCodes, SameUsers, SameTokens, Bounds DEF Fades, TypeInv
<1> QED
  BY <1>1, <1>2, <1>3, AloneStep

LEMMA LogoutStep ==
    ASSUME TypeInv, NEW t \in DOMAIN tokens, Logout(t)
    PROVE  /\ TypeInv' /\ Fades /\ UNCHANGED <<users, codes, handlers, endings>>
           /\ Len(tokens') = Len(tokens) /\ ~Locked(t)
           /\ \A v \in DOMAIN tokens : v # t => tokens'[v] = tokens[v]
<1>1. UNCHANGED <<users, codes, handlers, endings>> /\ ~Locked(t)
  BY DEF Logout
<1>2. /\ TokensFade(tokens') /\ Len(tokens') = Len(tokens)
      /\ \A v \in DOMAIN tokens : v # t => tokens'[v] = tokens[v]
  BY TokenRevoked DEF Logout, TypeInv
<1>3. Fades
  BY <1>1, <1>2, SameUsers, SameCodes, Bounds DEF Fades, TypeInv
<1> QED
  BY <1>1, <1>2, <1>3, AloneStep

(* The steps of Next, as the lemmas about invariants take them.            *)
LEMMA Steps ==
    Next <=> \/ \E h \in Handlers : Checks(h) \/ Commits(h)
             \/ \E k \in Kinds : \E c \in DOMAIN codes[k] : Expire(k, c)
             \/ \E t \in DOMAIN tokens : Logout(t)
  BY DEF Next, Checks, Commits

LEMMA NextTypeInv == TypeInv /\ [Next]_vars => TypeInv' /\ Fades
<1> SUFFICES ASSUME TypeInv, [Next]_vars PROVE TypeInv' /\ Fades
  OBVIOUS
<1>1. ASSUME NEW h \in Handlers, Commits(h) PROVE TypeInv' /\ Fades
  BY <1>1, ReclaimStep, SignupStoreStep, IssueStoreStep, CountTryStep, VerifyStoreStep,
     TokenStoreStep, RefreshStoreStep, EndStoreStep DEF Commits
<1>2. CASE UNCHANGED vars
  <2>1. Fades
    BY <1>2, Rest, Bounds DEF vars, TypeInv
  <2> QED
    BY <1>2, <2>1, AloneStep DEF vars
<1> QED
  BY <1>1, <1>2, Steps, CheckTypeInv, ExpireStep, LogoutStep

LEMMA TypeInvariant == Spec => []TypeInv
  BY InitTypeInv, NextTypeInv, PTL DEF Spec

(* Rows, requests and what they carry have their types, whatever overlaps: *)
(* a count of tries that is written late stays within MAX_ATTEMPTS.        *)
THEOREM TypeCorrect == Spec => []TypeOK
<1>1. TypeInv => TypeOK
  BY DEF TypeInv
<1> QED
  BY <1>1, TypeInvariant, PTL

-----------------------------------------------------------------------------
(* What a check has found when it lets a request go on.                    *)
LEMMA CheckGoes ==
    ASSUME TypeInv, NEW h \in Handlers, Checks(h)
    PROVE  /\ UNCHANGED <<users, codes, tokens>>
           /\ \A g \in Handlers : g # h => handlers'[g] = handlers[g]
           /\ LET r == handlers'[h] IN
              /\ r.pc = "claimed" =>
                   /\ r.row \in DOMAIN tokens /\ Claimable(r.row)
                   /\ users[r.user].row = "active" /\ r.user = tokens[r.row].user
              /\ r.pc = "token" => users[r.user].verified
              /\ r.pc = "code" => r.saw = Live(r.kind, r.user)
              /\ r.pc \in Endings => r.saw = LiveTokens(r.user) /\ r.read = endings'
<1> USE DEF Endings
<1>1. /\ UNCHANGED <<users, codes, tokens>>
      /\ \A g \in Handlers : g # h => handlers'[g] = handlers[g]
  BY DEF Checks, Signup, SignupCheck, SignupIssues, Login, RefreshClaim, Reset, RequestCode,
         Try, Manage, EndBegins, Goes, TypeInv, TypeOK
<1>2. \A state : Goes(h, state) => handlers'[h] = state
  BY DEF Goes, TypeInv, TypeOK
<1>3. CASE Signup(h) \/ SignupCheck(h)
  <2>1. handlers'[h].pc \in {"idle", "reclaim", "insert"}
    <3>1. \/ Goes(h, Idle) \/ Goes(h, [Idle EXCEPT !.pc = "insert"])
          \/ \E u : Goes(h, [Idle EXCEPT !.pc = "reclaim", !.user = u])
      BY <1>3 DEF Signup, SignupCheck
    <3>2. CASE \E u : Goes(h, [Idle EXCEPT !.pc = "reclaim", !.user = u])
      BY <1>2, <3>2 DEF Idle
    <3>3. CASE Goes(h, Idle) \/ Goes(h, [Idle EXCEPT !.pc = "insert"])
      BY <1>2, <3>3 DEF Idle
    <3> QED
      BY <3>1, <3>2, <3>3
  <2> QED
    BY <1>1, <2>1
<1>4. CASE SignupIssues(h) \/ \E k \in Kinds : RequestCode(h, k)
  <2>1. \E u, k : handlers'[h] = Issuing(u, k)
    BY <1>2, <1>4 DEF SignupIssues, RequestCode
  <2>2. PICK u, k : handlers'[h] = Issuing(u, k)
    BY <2>1
  <2>3. /\ Issuing(u, k).pc = "code" /\ Issuing(u, k).kind = k /\ Issuing(u, k).user = u
        /\ Issuing(u, k).saw = Live(k, u)
    BY DEF Issuing, Idle
  <2> QED
    BY <1>1, <2>2, <2>3
<1>5. CASE \E k \in Kinds, right \in BOOLEAN : Try(h, k, right)
  <2>1. handlers'[h].pc \in {"verify", "wrong"}
    BY <1>2, <1>5 DEF Try, Idle
  <2> QED
    BY <1>1, <2>1
<1>6. CASE Login(h)
  <2>1. PICK u \in MayLogin : Goes(h, [Idle EXCEPT !.pc = "token", !.user = u])
    BY <1>6 DEF Login
  <2>2. handlers'[h].pc = "token" /\ handlers'[h].user = u
    BY <1>2, <2>1 DEF Idle
  <2>3. users[u].verified
    BY DEF MayLogin
  <2> QED
    BY <1>1, <2>2, <2>3
<1>7. CASE RefreshClaim(h)
  <2>1. PICK t \in DOMAIN tokens :
          /\ Claimable(t) /\ users[tokens[t].user].row = "active"
          /\ Goes(h, [Idle EXCEPT !.pc = "claimed", !.user = tokens[t].user, !.row = t])
    BY <1>7 DEF RefreshClaim
  <2>2. /\ handlers'[h].pc = "claimed" /\ handlers'[h].user = tokens[t].user
        /\ handlers'[h].row = t
    BY <1>2, <2>1 DEF Idle
  <2> QED
    BY <1>1, <2>1, <2>2
<1>8. CASE Reset(h) \/ \E what \in {"changing", "deleting"} : Manage(h, what)
  <2>1. PICK u \in Users, pc \in Endings : \E c : EndBegins(h, u, pc, c)
    <3>1. CASE Reset(h)
      BY <3>1 DEF Reset, Holders
    <3>2. CASE \E what \in {"changing", "deleting"} : Manage(h, what)
      BY <3>2 DEF Manage, Holders
    <3> QED
      BY <1>8, <3>1, <3>2
  <2>2. PICK c : EndBegins(h, u, pc, c)
    BY <2>1
  <2>3. /\ handlers'[h].pc = pc /\ handlers'[h].user = u
        /\ handlers'[h].saw = LiveTokens(u) /\ handlers'[h].read = endings'
    BY <1>2, <2>2 DEF EndBegins, Idle
  <2> QED
    BY <1>1, <2>3
<1> QED
  BY <1>3, <1>4, <1>5, <1>6, <1>7, <1>8 DEF Checks

(* The tokens after a step: those before, faded, and at most one more.     *)
LEMMA Indices ==
    ASSUME TypeInv, TypeInv'
    PROVE  /\ DOMAIN tokens = 1 .. Len(tokens) /\ DOMAIN tokens' = 1 .. Len(tokens')
           /\ Len(tokens) \in Nat /\ Len(tokens') \in Nat
           /\ \A t \in DOMAIN tokens : tokens[t] \in Token
           /\ \A t \in DOMAIN tokens' : tokens'[t] \in Token
           /\ \A k \in Kinds : /\ DOMAIN codes[k] = 1 .. Len(codes[k]) /\ Len(codes[k]) \in Nat
                               /\ DOMAIN codes'[k] = 1 .. Len(codes'[k]) /\ Len(codes'[k]) \in Nat
<1>1. ASSUME NEW S, NEW s \in Seq(S)
      PROVE  /\ Len(s) \in Nat /\ DOMAIN s = 1 .. Len(s)
             /\ \A i \in DOMAIN s : s[i] \in S
  BY LenProperties, ElementOfSeq
<1>2. /\ tokens \in Seq(Token) /\ tokens' \in Seq(Token)
      /\ \A k \in Kinds : codes[k] \in Seq(Code) /\ codes'[k] \in Seq(Code)
  BY DEF TypeInv, TypeOK
<1> QED
  BY <1>1, <1>2

-----------------------------------------------------------------------------
(* Sessions of verified accounts                                           *)

(* Requests that keep what they carry, and accounts that are not made      *)
(* unverified: the part of the invariant about requests and accounts.      *)
LEMMA AdmittedStay ==
    ASSUME TypeInv, Fades, VerifiedInv,
           \A g \in Handlers : handlers'[g].pc \in {"token", "claimed"} => handlers'[g] = handlers[g]
    PROVE  \A g \in Handlers : handlers'[g].pc \in {"token", "claimed"}
             => users'[handlers'[g].user].verified
<1> SUFFICES ASSUME NEW g \in Handlers, handlers'[g].pc \in {"token", "claimed"}
             PROVE  users'[handlers'[g].user].verified
  OBVIOUS
<1>1. /\ handlers'[g] = handlers[g] /\ handlers[g].user \in Users
      /\ users[handlers[g].user].verified
  BY DEF VerifiedInv, TypeInv, Carries
<1> QED
  BY <1>1 DEF VerifiedInv, Fades, AccountsGo

(* The tokens in use, when no account goes and none is inserted.           *)
LEMMA InUseStay ==
    ASSUME TypeInv, TypeInv', Fades, VerifiedInv, Len(tokens') = Len(tokens),
           \A u \in Users : users[u].verified /\ Exists(u) => Exists(u)' \/
              \A t \in DOMAIN tokens : tokens[t].user = u => ~tokens'[t].live
    PROVE  SessionsOfVerified'
<1> SUFFICES ASSUME NEW t \in DOMAIN tokens', tokens'[t].live
             PROVE  /\ users'[tokens'[t].user].row \in {"active", "deleted"}
                    /\ users'[tokens'[t].user].verified
  BY DEF SessionsOfVerified, Exists
<1>1. /\ t \in DOMAIN tokens /\ tokens[t].live /\ tokens'[t].user = tokens[t].user
      /\ tokens[t].user \in Users
  BY Indices DEF Fades, TokensFade, Token
<1>2. Exists(tokens[t].user) /\ users[tokens[t].user].verified
  BY <1>1 DEF VerifiedInv, SessionsOfVerified
<1>3. users[tokens[t].user].row # "none"
  BY <1>2 DEF Exists
<1>4. users'[tokens[t].user].verified
  BY <1>1, <1>2, <1>3 DEF Fades, AccountsGo
<1>5. users'[tokens[t].user].row \in {"active", "deleted"}
  BY <1>1, <1>2 DEF Exists
<1> QED
  BY <1>1, <1>4, <1>5

(* A token for an account that was verified when the request was admitted. *)
LEMMA InUseGain ==
    ASSUME TypeInv, TypeInv', Fades, VerifiedInv, UNCHANGED users,
           NEW u \in Users, NEW login, Exists(u), users[u].verified,
           DOMAIN tokens' = 1 .. (Len(tokens) + 1),
           tokens'[Len(tokens) + 1] = NewToken(u, login)
    PROVE  SessionsOfVerified'
<1> SUFFICES ASSUME NEW t \in DOMAIN tokens', tokens'[t].live
             PROVE  /\ users[tokens'[t].user].row \in {"active", "deleted"}
                    /\ users[tokens'[t].user].verified
  BY DEF SessionsOfVerified, Exists
<1>1. CASE t = Len(tokens) + 1
  BY <1>1 DEF NewToken, Exists
<1>2. CASE t # Len(tokens) + 1
  <2>1. /\ t \in DOMAIN tokens /\ tokens[t].live /\ tokens'[t].user = tokens[t].user
    BY <1>2, Indices DEF Fades, TokensFade
  <2> QED
    BY <2>1 DEF VerifiedInv, SessionsOfVerified, Exists
<1> QED
  BY <1>1, <1>2

LEMMA InitVerified == Init => VerifiedInv
<1> SUFFICES ASSUME Init PROVE VerifiedInv
  OBVIOUS
<1>1. DOMAIN tokens = {}
  BY DEF Init
<1>2. \A h \in Handlers : handlers[h].pc = "idle"
  BY DEF Init, Idle
<1>3. \A u \in Users : users[u].verified = FALSE
  BY DEF Init, NoUser
<1> QED
  BY <1>1, <1>2, <1>3 DEF VerifiedInv, SessionsOfVerified

LEMMA NextVerified == TypeInv /\ VerifiedInv /\ [Next]_vars => VerifiedInv'
<1> SUFFICES ASSUME TypeInv, VerifiedInv, [Next]_vars PROVE VerifiedInv'
  OBVIOUS
<1>1. TypeInv' /\ Fades
  BY NextTypeInv
<1>2. \A u \in Users : users[u] \in User /\ users'[u] \in User
  BY <1>1 DEF TypeInv, TypeOK
<1>3. ASSUME Len(tokens') = Len(tokens), UNCHANGED users PROVE SessionsOfVerified'
  BY <1>1, <1>3, InUseStay DEF Exists
<1>4. ASSUME UNCHANGED users
      PROVE  \A u \in Users : users'[u].verified => users'[u].row # "none"
  BY <1>4 DEF VerifiedInv
<1>5. ASSUME NEW h \in Handlers, handlers'[h].pc \notin {"token", "claimed"},
             \A g \in Handlers : g # h => handlers'[g] = handlers[g]
      PROVE  \A g \in Handlers : handlers'[g].pc \in {"token", "claimed"}
               => users'[handlers'[g].user].verified
  BY <1>1, <1>5, AdmittedStay
<1>6. ASSUME NEW h \in Handlers, Checks(h) PROVE VerifiedInv'
  <2>1. /\ UNCHANGED <<users, codes, tokens>>
        /\ \A g \in Handlers : g # h => handlers'[g] = handlers[g]
    BY <1>6, CheckGoes
  <2>2. ASSUME handlers'[h].pc = "token" PROVE users[handlers'[h].user].verified
    BY <1>6, <2>2, CheckGoes
  <2>3. ASSUME handlers'[h].pc = "claimed" PROVE users[handlers'[h].user].verified
    <3> DEFINE t == handlers'[h].row
    <3>1. /\ t \in DOMAIN tokens /\ Claimable(t) /\ handlers'[h].user = tokens[t].user
      BY <1>6, <2>3, CheckGoes
    <3> QED
      BY <3>1 DEF Claimable, VerifiedInv, SessionsOfVerified
  <2>4. \A g \in Handlers : handlers'[g].pc \in {"token", "claimed"}
          => users'[handlers'[g].user].verified
    BY <2>1, <2>2, <2>3 DEF VerifiedInv
  <2> QED
    BY <1>3, <1>4, <2>1, <2>4 DEF VerifiedInv
<1>7. ASSUME NEW h \in Handlers, Commits(h) PROVE VerifiedInv'
  <2>1. CASE Reclaim(h)
    <3> DEFINE u == handlers[h].user
    <3>1. /\ Len(tokens') = Len(tokens)
          /\ users' = [users EXCEPT ![u].row = "gone"]
          /\ \A t \in DOMAIN tokens : tokens'[t].live => tokens[t].user # u
          /\ handlers'[h].pc = "signup"
          /\ \A g \in Handlers : g # h => handlers'[g] = handlers[g]
      BY <2>1, ReclaimStep
    <3>2. \A v \in Users : v # u => users'[v] = users[v]
      BY <3>1
    <3>3. \A v \in Users : users[v].verified /\ Exists(v) => Exists(v)' \/
            \A t \in DOMAIN tokens : tokens[t].user = v => ~tokens'[t].live
      BY <3>1, <3>2 DEF Exists
    <3>4. SessionsOfVerified'
      BY <1>1, <3>1, <3>3, InUseStay
    <3>5. users' \in [Users -> User] /\ users \in [Users -> User]
      BY <1>1 DEF TypeInv, TypeOK
    <3>6. \A v \in Users : users'[v].verified => users'[v].row # "none"
      BY <1>2, <3>1, <3>2, <3>5 DEF VerifiedInv, User
    <3> QED
      BY <1>5, <3>1, <3>4, <3>6 DEF VerifiedInv
  <2>2. CASE SignupStore(h)
    <3>1. /\ UNCHANGED tokens
          /\ \/ UNCHANGED users
             \/ \E u \in Users : users[u].row = "none" /\ users' = [users EXCEPT ![u] = NewUser]
          /\ handlers'[h].pc \in {"idle", "issue"}
          /\ \A g \in Handlers : g # h => handlers'[g] = handlers[g]
      BY <2>2, SignupStoreStep
    <3>2. \A v \in Users : \/ users'[v] = users[v]
                           \/ users[v].row = "none" /\ users'[v] = NewUser
      BY <3>1 DEF TypeInv, TypeOK
    <3>3. \A v \in Users : Exists(v) => Exists(v)'
      BY <3>2 DEF Exists
    <3>4. SessionsOfVerified'
      BY <1>1, <3>1, <3>3, InUseStay
    <3>5. \A v \in Users : users'[v].verified => users'[v].row # "none"
      BY <3>2 DEF VerifiedInv, NewUser
    <3> QED
      BY <1>5, <3>1, <3>4, <3>5 DEF VerifiedInv
  <2>3. CASE IssueStore(h)
    BY <1>3, <1>4, <1>5, <2>3, IssueStoreStep DEF VerifiedInv
  <2>4. CASE CountTry(h)
    BY <1>3, <1>4, <1>5, <2>4, CountTryStep DEF VerifiedInv
  <2>5. CASE VerifyStore(h)
    <3> DEFINE u == handlers[h].user
    <3>1. /\ UNCHANGED tokens /\ handlers'[h].pc = "idle"
          /\ \A g \in Handlers : g # h => handlers'[g] = handlers[g]
          /\ \/ UNCHANGED users
             \/ /\ u \in Users /\ Exists(u) /\ users' = [users EXCEPT ![u].verified = TRUE]
      BY <2>5, VerifyStoreStep
    <3>2. \A v \in Users : /\ users'[v].row = users[v].row
                           /\ users'[v].verified => users[v].verified \/ Exists(v)
      <4>1. CASE UNCHANGED users
        BY <4>1
      <4>2. CASE u \in Users /\ Exists(u) /\ users' = [users EXCEPT ![u].verified = TRUE]
        <5>1. \A v \in Users : users'[v] = IF v = u THEN [users[v] EXCEPT !.verified = TRUE]
                                                   ELSE users[v]
          BY <4>2 DEF TypeInv, TypeOK
        <5>2. \A v \in Users : [users[v] EXCEPT !.verified = TRUE].row = users[v].row
          BY <1>2 DEF User
        <5> QED
          BY <4>2, <5>1, <5>2
      <4> QED
        BY <3>1, <4>1, <4>2
    <3>3. \A v \in Users : Exists(v) => Exists(v)'
      BY <3>2 DEF Exists
    <3>4. SessionsOfVerified'
      BY <1>1, <3>1, <3>3, InUseStay
    <3>5. \A v \in Users : users'[v].verified => users'[v].row # "none"
      BY <3>2 DEF VerifiedInv, Exists
    <3> QED
      BY <1>5, <3>1, <3>4, <3>5 DEF VerifiedInv
  <2>6. CASE TokenStore(h)
    <3> DEFINE u == handlers[h].user
    <3>1. /\ UNCHANGED users /\ handlers'[h].pc = "idle" /\ At(h, "token")
          /\ \A g \in Handlers : g # h => handlers'[g] = handlers[g]
          /\ \/ UNCHANGED tokens
             \/ /\ u \in Users /\ Exists(u) /\ DOMAIN tokens' = 1 .. (Len(tokens) + 1)
                /\ tokens'[Len(tokens) + 1] = NewToken(u, Len(tokens) + 1)
      BY <2>6, TokenStoreStep DEF TokenStore
    <3>2. users[u].verified
      BY <3>1 DEF At, VerifiedInv
    <3>3. SessionsOfVerified'
      BY <1>1, <1>3, <3>1, <3>2, InUseGain
    <3> QED
      BY <1>4, <1>5, <3>1, <3>3 DEF VerifiedInv
  <2>7. CASE RefreshStore(h)
    <3> DEFINE r == handlers[h]
    <3>1. /\ UNCHANGED users /\ handlers'[h].pc = "idle" /\ At(h, "claimed")
          /\ \A g \in Handlers : g # h => handlers'[g] = handlers[g]
          /\ \/ UNCHANGED tokens
             \/ /\ r.user \in Users /\ Exists(r.user) /\ DOMAIN tokens' = 1 .. (Len(tokens) + 1)
                /\ tokens'[Len(tokens) + 1] = NewToken(r.user, tokens[r.row].login)
      BY <2>7, RefreshStoreStep DEF RefreshStore
    <3>2. users[r.user].verified
      BY <3>1 DEF At, VerifiedInv
    <3>3. SessionsOfVerified'
      BY <1>1, <1>3, <3>1, <3>2, InUseGain
    <3> QED
      BY <1>4, <1>5, <3>1, <3>3 DEF VerifiedInv
  <2>8. CASE EndStore(h)
    <3> DEFINE r == handlers[h]
    <3>1. /\ Len(tokens') = Len(tokens) /\ handlers'[h].pc = "idle"
          /\ \A g \in Handlers : g # h => handlers'[g] = handlers[g]
          /\ \/ UNCHANGED users
             \/ r.user \in Users /\ users' = [users EXCEPT ![r.user] = Ended(@, r.pc, r.read)]
      BY <2>8, EndStoreStep
    <3>2. \A v \in Users : /\ users'[v].row \in {users[v].row, "deleted"}
                           /\ users'[v].verified = users[v].verified
      <4>1. CASE UNCHANGED users
        BY <4>1
      <4>2. CASE /\ r.user \in Users
                 /\ users' = [users EXCEPT ![r.user] = Ended(@, r.pc, r.read)]
        <5>1. \A v \in Users : users'[v] = IF v = r.user THEN Ended(users[v], r.pc, r.read)
                                                        ELSE users[v]
          BY <4>2 DEF TypeInv, TypeOK
        <5>2. \A v \in Users : /\ Ended(users[v], r.pc, r.read).row \in {users[v].row, "deleted"}
                               /\ Ended(users[v], r.pc, r.read).verified = users[v].verified
          BY <1>2 DEF Ended, User
        <5> QED
          BY <5>1, <5>2
      <4> QED
        BY <3>1, <4>1, <4>2
    <3>3. \A v \in Users : Exists(v) => Exists(v)'
      BY <3>2 DEF Exists
    <3>4. SessionsOfVerified'
      BY <1>1, <3>1, <3>3, InUseStay
    <3>5. \A v \in Users : users'[v].verified => users'[v].row # "none"
      BY <3>2 DEF VerifiedInv
    <3> QED
      BY <1>5, <3>1, <3>4, <3>5 DEF VerifiedInv
  <2> QED
    BY <1>7, <2>1, <2>2, <2>3, <2>4, <2>5, <2>6, <2>7, <2>8 DEF Commits
<1>8. ASSUME UNCHANGED <<users, handlers>>, Len(tokens') = Len(tokens) PROVE VerifiedInv'
  BY <1>3, <1>4, <1>8 DEF VerifiedInv
<1>9. ASSUME NEW k \in Kinds, NEW c \in DOMAIN codes[k], Expire(k, c) PROVE VerifiedInv'
  BY <1>8, <1>9, ExpireStep
<1>10. ASSUME NEW t \in DOMAIN tokens, Logout(t) PROVE VerifiedInv'
  BY <1>8, <1>10, LogoutStep
<1>11. CASE UNCHANGED vars
  BY <1>8, <1>11 DEF vars
<1> QED
  BY <1>6, <1>7, <1>9, <1>10, <1>11, Steps

(* Login is the one place that asks for a verified address: no token is in *)
(* use for an account that is not verified or that a signup has reclaimed, *)
(* whatever overlaps the login, its refreshes and the reclaim.             *)
THEOREM InUseOfVerified == Spec => []SessionsOfVerified
<1>1. Spec => []VerifiedInv
  BY InitVerified, NextVerified, TypeInvariant, PTL DEF Spec
<1>2. VerifiedInv => SessionsOfVerified
  BY DEF VerifiedInv
<1> QED
  BY <1>1, <1>2, PTL

-----------------------------------------------------------------------------
(* Rotation                                                                *)

(* Without a new token: what is live now was, and had its login alone.     *)
LEMMA RotationFades ==
    ASSUME TypeInv, TypeInv', Fades, RotationInv, Len(tokens') = Len(tokens)
    PROVE  OneTokenPerLogin' /\ \A t \in DOMAIN tokens' : tokens'[t].login <= t
<1>1. DOMAIN tokens' = DOMAIN tokens
  BY Indices
<1>2. \A t \in DOMAIN tokens : /\ tokens'[t].login = tokens[t].login
                               /\ tokens'[t].live => tokens[t].live
  BY DEF Fades, TokensFade
<1> QED
  BY <1>1, <1>2 DEF RotationInv, OneTokenPerLogin

(* The claims of the other requests, while nothing they hold is revoked.   *)
LEMMA ClaimsStay ==
    ASSUME TypeInv, TypeInv', Fades, VerifiedInv, RotationInv,
           \A g \in Handlers : At(g, "claimed")' => handlers'[g] = handlers[g],
           \A g \in Handlers : At(g, "claimed") /\ At(g, "claimed")' /\ There(users'[handlers'[g].user])
             /\ tokens[handlers[g].row].live => tokens'[handlers[g].row].live
    PROVE  \A h \in Handlers : At(h, "claimed")' =>
             LET r == handlers'[h] IN
             /\ There(users'[r.user]) => tokens'[r.row].live
             /\ \A g \in Handlers : At(g, "claimed")' /\ handlers'[g].row = r.row => g = h
<1> SUFFICES ASSUME NEW h \in Handlers, At(h, "claimed")'
             PROVE  /\ There(users'[handlers'[h].user]) => tokens'[handlers'[h].row].live
                    /\ \A g \in Handlers : At(g, "claimed")' /\ handlers'[g].row = handlers'[h].row
                                             => g = h
  OBVIOUS
<1>1. handlers'[h] = handlers[h] /\ At(h, "claimed")
  BY DEF At
<1>2. \A g \in Handlers : At(g, "claimed")' => handlers'[g] = handlers[g] /\ At(g, "claimed")
  BY DEF At
<1>3. /\ There(users[handlers[h].user]) => tokens[handlers[h].row].live
      /\ \A g \in Handlers : At(g, "claimed") /\ handlers[g].row = handlers[h].row => g = h
  BY <1>1 DEF RotationInv
<1>4. users[handlers[h].user].row # "none" /\ handlers[h].user \in Users
  BY <1>1 DEF VerifiedInv, At, TypeInv, Carries
<1>5. There(users'[handlers[h].user]) => There(users[handlers[h].user])
  BY <1>1, <1>4 DEF Fades, AccountsGo, Exists, There
<1>6. There(users'[handlers'[h].user]) => tokens'[handlers'[h].row].live
  BY <1>1, <1>3, <1>5
<1>7. \A g \in Handlers : At(g, "claimed")' /\ handlers'[g].row = handlers'[h].row => g = h
  BY <1>1, <1>2, <1>3
<1> QED
  BY <1>6, <1>7

LEMMA InitRotation == Init => RotationInv
<1> SUFFICES ASSUME Init PROVE RotationInv
  OBVIOUS
<1>1. DOMAIN tokens = {}
  BY DEF Init
<1>2. \A h \in Handlers : handlers[h].pc = "idle"
  BY DEF Init, Idle
<1> QED
  BY <1>1, <1>2 DEF RotationInv, OneTokenPerLogin, At

(* A token of a new login, or the successor of the token that was claimed. *)
LEMMA RotationGain ==
    ASSUME TypeInv, TypeInv', Fades, RotationInv, NEW u, NEW login \in 1 .. (Len(tokens) + 1),
           DOMAIN tokens' = 1 .. (Len(tokens) + 1),
           tokens'[Len(tokens) + 1] = NewToken(u, login),
           \A t \in DOMAIN tokens : tokens'[t].live => tokens[t].login # login
    PROVE  OneTokenPerLogin' /\ \A t \in DOMAIN tokens' : tokens'[t].login <= t
<1> DEFINE n == Len(tokens) + 1
<1>1. /\ n \in Nat /\ n \in DOMAIN tokens' /\ tokens'[n].login = login
      /\ \A t \in DOMAIN tokens' : t # n => t \in DOMAIN tokens
  BY Indices DEF NewToken
<1>2. \A t \in DOMAIN tokens : /\ tokens'[t].login = tokens[t].login
                               /\ tokens'[t].live => tokens[t].live
  BY DEF Fades, TokensFade
<1> HIDE DEF n
<1>3. ASSUME NEW t \in DOMAIN tokens', NEW v \in DOMAIN tokens',
             tokens'[t].live, tokens'[v].live, tokens'[t].login = tokens'[v].login
      PROVE  t = v
  <2>1. CASE t = n \/ v = n
    BY <1>1, <1>2, <1>3, <2>1
  <2>2. CASE t # n /\ v # n
    BY <1>1, <1>2, <1>3, <2>2 DEF RotationInv, OneTokenPerLogin
  <2> QED
    BY <2>1, <2>2
<1>4. \A t \in DOMAIN tokens' : tokens'[t].login <= t
  <2> TAKE t \in DOMAIN tokens'
  <2>1. CASE t = n
    BY <1>1, <2>1 DEF n
  <2>2. CASE t # n
    BY <1>1, <1>2, <2>2 DEF RotationInv
  <2> QED
    BY <2>1, <2>2
<1> QED
  BY <1>3, <1>4 DEF OneTokenPerLogin

LEMMA NextRotation == TypeInv /\ VerifiedInv /\ RotationInv /\ [Next]_vars => RotationInv'
<1> SUFFICES ASSUME TypeInv, VerifiedInv, RotationInv, [Next]_vars PROVE RotationInv'
  OBVIOUS
<1>1. TypeInv' /\ Fades
  BY NextTypeInv
<1>2. ASSUME Len(tokens') = Len(tokens)
      PROVE  OneTokenPerLogin' /\ \A t \in DOMAIN tokens' : tokens'[t].login <= t
  BY <1>1, <1>2, RotationFades
<1>3. ASSUME NEW h \in Handlers, handlers'[h].pc # "claimed",
             \A g \in Handlers : g # h => handlers'[g] = handlers[g]
      PROVE  \A g \in Handlers : At(g, "claimed")' => handlers'[g] = handlers[g] /\ g # h
  BY <1>3 DEF At
<1>4. ASSUME NEW h \in Handlers, handlers'[h].pc # "claimed",
             \A g \in Handlers : g # h => handlers'[g] = handlers[g],
             UNCHANGED tokens
      PROVE  RotationInv'
  BY <1>1, <1>2, <1>3, <1>4, ClaimsStay DEF RotationInv
<1>5. ASSUME NEW h \in Handlers, Checks(h) PROVE RotationInv'
  <2>1. /\ UNCHANGED <<users, codes, tokens>>
        /\ \A g \in Handlers : g # h => handlers'[g] = handlers[g]
    BY <1>5, CheckGoes
  <2>2. CASE handlers'[h].pc = "claimed"
    <3> DEFINE t == handlers'[h].row
    <3>1. /\ t \in DOMAIN tokens /\ tokens[t].live /\ ~Locked(t)
      BY <1>5, <2>2, CheckGoes DEF Claimable
    <3>2. \A g \in Handlers : At(g, "claimed") => handlers[g].row # t
      BY <3>1 DEF Locked
    <3>3. \A g \in Handlers : g # h => (At(g, "claimed")' <=> At(g, "claimed"))
      BY <2>1 DEF At
    <3>4. ASSUME NEW g \in Handlers, At(g, "claimed")'
          PROVE  /\ There(users'[handlers'[g].user]) => tokens'[handlers'[g].row].live
                 /\ \A f \in Handlers : At(f, "claimed")' /\ handlers'[f].row = handlers'[g].row
                                          => f = g
      <4>1. CASE g = h
        BY <2>1, <3>1, <3>2, <3>3, <4>1
      <4>2. CASE g # h
        <5>1. At(g, "claimed") /\ handlers'[g] = handlers[g] /\ handlers[g].row # t
          BY <2>1, <3>2, <3>3, <3>4, <4>2
        <5>2. There(users[handlers[g].user]) => tokens[handlers[g].row].live
          BY <5>1 DEF RotationInv
        <5>3. \A f \in Handlers : At(f, "claimed") /\ handlers[f].row = handlers[g].row => f = g
          BY <5>1 DEF RotationInv
        <5> QED
          BY <2>1, <3>3, <5>1, <5>2, <5>3
      <4> QED
        BY <4>1, <4>2
    <3> QED
      BY <1>2, <2>1, <3>4 DEF RotationInv
  <2>3. CASE handlers'[h].pc # "claimed"
    BY <1>4, <2>1, <2>3
  <2> QED
    BY <2>2, <2>3
<1>6. ASSUME NEW h \in Handlers, Commits(h) PROVE RotationInv'
  <2>1. CASE Reclaim(h)
    <3> DEFINE u == handlers[h].user
    <3>1. /\ Len(tokens') = Len(tokens) /\ handlers'[h].pc = "signup"
          /\ users' = [users EXCEPT ![u].row = "gone"] /\ u \in Users
          /\ \A g \in Handlers : g # h => handlers'[g] = handlers[g]
      BY <2>1, ReclaimStep DEF Reclaim, At, TypeInv, Carries
    <3>2. ~There(users'[u])
      <4>1. users \in [Users -> User] /\ users[u] \in User
        BY <3>1 DEF TypeInv, TypeOK
      <4>2. users'[u].row = "gone"
        BY <3>1, <4>1 DEF User
      <4> QED
        BY <4>2 DEF There
    <3>3. \A g \in Handlers : At(g, "claimed") /\ At(g, "claimed")' /\ There(users'[handlers'[g].user])
            /\ tokens[handlers[g].row].live => tokens'[handlers[g].row].live
      <4> SUFFICES ASSUME NEW g \in Handlers, At(g, "claimed"), At(g, "claimed")',
                          There(users'[handlers'[g].user]), tokens[handlers[g].row].live
                   PROVE  tokens'[handlers[g].row].live
        OBVIOUS
      <4>1. handlers'[g] = handlers[g]
        BY <1>3, <3>1
      <4>2. /\ handlers[g].row \in DOMAIN tokens
            /\ tokens[handlers[g].row].user = handlers[g].user
        BY DEF At, TypeInv, Carries
      <4>3. handlers[g].user # u
        BY <3>2, <4>1
      <4> QED
        BY <2>1, <4>2, <4>3, ReclaimStep
    <3>4. handlers'[h].pc # "claimed"
      BY <3>1
    <3> HIDE DEF u
    <3> QED
      BY <1>1, <1>2, <1>3, <3>1, <3>3, <3>4, ClaimsStay DEF RotationInv
  <2>2. CASE SignupStore(h) \/ IssueStore(h) \/ CountTry(h) \/ VerifyStore(h)
    BY <1>4, <2>2, SignupStoreStep, IssueStoreStep, CountTryStep, VerifyStoreStep
  <2>3. CASE TokenStore(h)
    <3>1. /\ handlers'[h].pc = "idle"
          /\ \A g \in Handlers : g # h => handlers'[g] = handlers[g]
      BY <2>3, TokenStoreStep
    <3>2. CASE UNCHANGED tokens
      BY <1>4, <3>1, <3>2
    <3>3. CASE ~UNCHANGED tokens
      <4>1. /\ DOMAIN tokens' = 1 .. (Len(tokens) + 1)
            /\ tokens'[Len(tokens) + 1] = NewToken(handlers[h].user, Len(tokens) + 1)
            /\ \A t \in DOMAIN tokens : tokens'[t] = tokens[t]
        BY <2>3, <3>3, TokenStoreStep
      <4>2. /\ Len(tokens) + 1 \in 1 .. (Len(tokens) + 1)
            /\ \A t \in DOMAIN tokens : tokens[t].login # Len(tokens) + 1
        <5>1. \A t \in DOMAIN tokens : /\ t \in 1 .. Len(tokens) /\ Len(tokens) \in Nat
                                       /\ tokens[t].login \in Nat /\ tokens[t].login <= t
          BY <1>1, Indices, Constants DEF RotationInv, Token
        <5>2. Len(tokens) \in Nat
          BY <1>1, Indices
        <5> QED
          BY <5>1, <5>2
      <4>3. OneTokenPerLogin' /\ \A t \in DOMAIN tokens' : tokens'[t].login <= t
        BY <1>1, <4>1, <4>2, RotationGain
      <4>4. \A g \in Handlers : At(g, "claimed") => handlers[g].row \in DOMAIN tokens
        BY DEF At, TypeInv, Carries
      <4> QED
        BY <1>1, <1>3, <3>1, <4>1, <4>3, <4>4, ClaimsStay DEF RotationInv
    <3> QED
      BY <3>2, <3>3
  <2>4. CASE RefreshStore(h)
    <3> DEFINE r == handlers[h]
    <3>1. /\ handlers'[h].pc = "idle" /\ At(h, "claimed")
          /\ \A g \in Handlers : g # h => handlers'[g] = handlers[g]
      BY <2>4, RefreshStoreStep DEF RefreshStore
    <3>2. CASE UNCHANGED tokens
      BY <1>4, <3>1, <3>2
    <3>3. CASE ~UNCHANGED tokens
      <4>1. /\ DOMAIN tokens' = 1 .. (Len(tokens) + 1) /\ Exists(r.user)
            /\ tokens'[Len(tokens) + 1] = NewToken(r.user, tokens[r.row].login)
            /\ ~tokens'[r.row].live
            /\ \A t \in DOMAIN tokens : t # r.row => tokens'[t] = tokens[t]
        BY <2>4, <3>3, RefreshStoreStep
      <4>2. r.row \in DOMAIN tokens /\ tokens[r.row].live
        BY <3>1, <4>1 DEF At, TypeInv, Carries, RotationInv, Exists, There
      <4>3. \A t \in DOMAIN tokens : tokens'[t].live => tokens[t].login # tokens[r.row].login
        <5> TAKE t \in DOMAIN tokens
        <5>1. tokens'[t].live => t # r.row /\ tokens[t].live
          BY <4>1
        <5> QED
          BY <4>2, <5>1 DEF RotationInv, OneTokenPerLogin
      <4>4. tokens[r.row].login \in 1 .. (Len(tokens) + 1)
        <5>1. /\ r.row \in 1 .. Len(tokens) /\ Len(tokens) \in Nat
              /\ tokens[r.row].login \in Nat \ {0} /\ tokens[r.row].login <= r.row
          BY <1>1, <4>2, Indices, Constants DEF RotationInv, Token
        <5> QED
          BY <5>1
      <4>5. OneTokenPerLogin' /\ \A t \in DOMAIN tokens' : tokens'[t].login <= t
        BY <1>1, <4>1, <4>3, <4>4, RotationGain
      <4>6. \A g \in Handlers : At(g, "claimed") /\ g # h =>
              handlers[g].row \in DOMAIN tokens /\ handlers[g].row # r.row
        BY <3>1 DEF At, TypeInv, Carries, RotationInv
      <4>7. \A g \in Handlers : At(g, "claimed")' => g # h /\ handlers'[g] = handlers[g]
        BY <3>1 DEF At
      <4>8. \A g \in Handlers : At(g, "claimed") /\ At(g, "claimed")' =>
              tokens'[handlers[g].row] = tokens[handlers[g].row]
        BY <4>1, <4>6, <4>7
      <4> QED
        BY <1>1, <4>5, <4>7, <4>8, ClaimsStay DEF RotationInv
    <3> QED
      BY <3>2, <3>3
  <2>5. CASE EndStore(h)
    <3>1. /\ Len(tokens') = Len(tokens) /\ handlers'[h].pc = "idle"
          /\ \A g \in Handlers : g # h => handlers'[g] = handlers[g]
          /\ \A g \in Handlers : At(g, "claimed") => handlers[g].row \notin handlers[h].saw
      BY <2>5, EndStoreStep
    <3>2. \A t \in DOMAIN tokens : tokens[t].live /\ t \notin handlers[h].saw => tokens'[t].live
      BY <2>5, EndStoreStep
    <3>3. \A g \in Handlers : At(g, "claimed") => handlers[g].row \in DOMAIN tokens
      BY DEF At, TypeInv, Carries
    <3> QED
      BY <1>1, <1>2, <1>3, <3>1, <3>2, <3>3, ClaimsStay DEF RotationInv
  <2> QED
    BY <1>6, <2>1, <2>2, <2>3, <2>4, <2>5 DEF Commits
<1>7. ASSUME UNCHANGED <<tokens, handlers>> PROVE RotationInv'
  BY <1>1, <1>2, <1>7, ClaimsStay DEF RotationInv
<1>8. ASSUME NEW k \in Kinds, NEW c \in DOMAIN codes[k], Expire(k, c) PROVE RotationInv'
  BY <1>7, <1>8, ExpireStep
<1>9. ASSUME NEW t \in DOMAIN tokens, Logout(t) PROVE RotationInv'
  <2>1. /\ UNCHANGED handlers /\ Len(tokens') = Len(tokens) /\ ~Locked(t)
        /\ \A v \in DOMAIN tokens : v # t => tokens'[v] = tokens[v]
    BY <1>9, LogoutStep
  <2>2. \A g \in Handlers : At(g, "claimed") =>
          handlers[g].row \in DOMAIN tokens /\ handlers[g].row # t
    BY <2>1 DEF At, TypeInv, Carries, Locked
  <2> QED
    BY <1>1, <1>2, <2>1, <2>2, ClaimsStay DEF RotationInv
<1>10. CASE UNCHANGED vars
  BY <1>7, <1>10 DEF vars
<1> QED
  BY <1>5, <1>6, <1>8, <1>9, <1>10, Steps

(* Rotation (auth.py refresh, "exactly one of two requests succeeds"): of  *)
(* the tokens of one login at most one is in use, for any number of        *)
(* requests that refresh, log out and end sessions at once.                *)
THEOREM RotationKeepsOne == Spec => []OneTokenPerLogin
<1>1. Spec => [](TypeInv /\ VerifiedInv /\ RotationInv)
  BY InitTypeInv, NextTypeInv, InitVerified, NextVerified, InitRotation, NextRotation, PTL DEF Spec
<1>2. RotationInv => OneTokenPerLogin
  BY DEF RotationInv
<1> QED
  BY <1>1, <1>2, PTL

-----------------------------------------------------------------------------
(* Endings                                                                 *)

LEMMA InitEnded == Init => EndedInv
<1> SUFFICES ASSUME Init PROVE EndedInv
  OBVIOUS
<1>1. DOMAIN tokens = {} /\ endings = 0
  BY DEF Init
<1>2. \A h \in Handlers : handlers[h].pc \notin Endings
  BY DEF Init, Idle, Endings
<1>3. \A u \in Users : users[u].ended <= endings
  BY <1>1 DEF Init, NoUser
<1> QED
  BY <1>1, <1>2, <1>3 DEF EndedInv, SessionsEnded

(* A token in use was one before, or it is new and younger than any ending *)
(* that has begun.                                                         *)
InUse ==
    \A t \in DOMAIN tokens' : tokens'[t].live =>
        \/ /\ t \in DOMAIN tokens /\ tokens[t].live
           /\ tokens'[t].user = tokens[t].user /\ tokens'[t].issued = tokens[t].issued
        \/ tokens'[t].issued = endings

LEMMA InUseFades ==
    ASSUME TypeInv, TypeInv', Fades, Len(tokens') = Len(tokens) PROVE InUse
<1>1. DOMAIN tokens' = DOMAIN tokens
  BY Indices
<1> QED
  BY <1>1 DEF InUse, Fades, TokensFade

LEMMA InUseGains ==
    ASSUME TypeInv, TypeInv', Fades, NEW u, NEW login,
           DOMAIN tokens' = 1 .. (Len(tokens) + 1),
           tokens'[Len(tokens) + 1] = NewToken(u, login)
    PROVE  InUse
<1> SUFFICES ASSUME NEW t \in DOMAIN tokens', tokens'[t].live
             PROVE  \/ /\ t \in DOMAIN tokens /\ tokens[t].live
                       /\ tokens'[t].user = tokens[t].user /\ tokens'[t].issued = tokens[t].issued
                    \/ tokens'[t].issued = endings
  BY DEF InUse
<1>1. CASE t = Len(tokens) + 1
  BY <1>1 DEF NewToken
<1>2. CASE t # Len(tokens) + 1
  BY <1>2, Indices DEF Fades, TokensFade
<1> QED
  BY <1>1, <1>2

(* The accounts and the endings under way, when none begins or commits.    *)
LEMMA EndedStays ==
    ASSUME TypeInv, TypeInv', EndedInv, InUse, UNCHANGED endings,
           \A u \in Users : users'[u].ended \in {users[u].ended, 0},
           \A g \in Handlers : handlers'[g].pc \in Endings => handlers'[g] = handlers[g]
    PROVE  EndedInv'
<1>1. /\ endings \in Nat
      /\ \A u \in Users : users[u].ended \in Nat /\ users[u].ended <= endings
      /\ \A t \in DOMAIN tokens : tokens[t] \in Token
      /\ \A t \in DOMAIN tokens' : tokens'[t] \in Token
  BY Indices, Constants DEF TypeInv, TypeOK, User, EndedInv
<1>2. \A t \in DOMAIN tokens' : tokens'[t].user \in Users /\ tokens'[t].issued \in Nat
  BY <1>1, Constants DEF Token
<1>3. ASSUME NEW t \in DOMAIN tokens', tokens'[t].live
      PROVE  tokens'[t].issued >= users'[tokens'[t].user].ended
  <2>1. CASE tokens'[t].issued = endings
    BY <1>1, <1>2, <2>1
  <2>2. CASE /\ t \in DOMAIN tokens /\ tokens[t].live
             /\ tokens'[t].user = tokens[t].user /\ tokens'[t].issued = tokens[t].issued
    BY <1>1, <1>2, <2>2 DEF EndedInv, SessionsEnded
  <2> QED
    BY <1>3, <2>1, <2>2 DEF InUse
<1>4. \A u \in Users : users'[u].ended <= endings'
  BY <1>1
<1>5. ASSUME NEW h \in Handlers, handlers'[h].pc \in Endings, NEW t \in DOMAIN tokens',
             tokens'[t].live, tokens'[t].user = handlers'[h].user, t \notin handlers'[h].saw
      PROVE  tokens'[t].issued >= handlers'[h].read
  <2>1. handlers'[h] = handlers[h] /\ handlers[h].pc \in Endings
    BY <1>5
  <2>2. handlers[h].read <= endings /\ handlers[h].read \in Nat
    BY <2>1, Constants DEF TypeInv, TypeOK, Carries, HandlerState
  <2>3. CASE tokens'[t].issued = endings
    BY <1>1, <2>1, <2>2, <2>3
  <2>4. CASE /\ t \in DOMAIN tokens /\ tokens[t].live
             /\ tokens'[t].user = tokens[t].user /\ tokens'[t].issued = tokens[t].issued
    BY <1>5, <2>1, <2>4 DEF EndedInv
  <2> QED
    BY <1>5, <2>3, <2>4 DEF InUse
<1> QED
  BY <1>3, <1>4, <1>5 DEF EndedInv, SessionsEnded

LEMMA NextEnded == TypeInv /\ EndedInv /\ [Next]_vars => EndedInv'
<1> SUFFICES ASSUME TypeInv, EndedInv, [Next]_vars PROVE EndedInv'
  OBVIOUS
<1>1. TypeInv' /\ Fades
  BY NextTypeInv
<1>2. ASSUME NEW h \in Handlers, handlers'[h].pc \notin Endings,
             \A g \in Handlers : g # h => handlers'[g] = handlers[g]
      PROVE  \A g \in Handlers : handlers'[g].pc \in Endings => handlers'[g] = handlers[g]
  BY <1>2
<1>3. \A u \in Users : users[u] \in User /\ users'[u] \in User
  BY <1>1 DEF TypeInv, TypeOK
<1>4. ASSUME NEW h \in Handlers, Checks(h) PROVE EndedInv'
  <2>1. /\ UNCHANGED <<users, codes, tokens>>
        /\ \A g \in Handlers : g # h => handlers'[g] = handlers[g]
        /\ handlers'[h].pc \in Endings =>
             /\ handlers'[h].saw = LiveTokens(handlers'[h].user)
             /\ handlers'[h].read = endings'
    BY <1>4, CheckGoes
  <2>2. SessionsEnded'
    BY <2>1 DEF EndedInv, SessionsEnded
  <2>3. \A u \in Users : users'[u].ended <= endings'
    <3>1. \A u \in Users : users[u].ended \in Nat /\ users[u].ended <= endings
      BY <1>3, Constants DEF User, EndedInv
    <3>2. endings \in Nat /\ endings' \in Nat /\ endings <= endings'
      BY <1>1 DEF TypeInv, TypeOK, Fades
    <3> QED
      BY <2>1, <3>1, <3>2
  <2>4. ASSUME NEW g \in Handlers, handlers'[g].pc \in Endings, NEW t \in DOMAIN tokens',
               tokens'[t].live, tokens'[t].user = handlers'[g].user, t \notin handlers'[g].saw
        PROVE  tokens'[t].issued >= handlers'[g].read
    <3>1. CASE g = h
      BY <2>1, <2>4, <3>1 DEF LiveTokens
    <3>2. CASE g # h
      BY <2>1, <2>4, <3>2 DEF EndedInv
    <3> QED
      BY <3>1, <3>2
  <2> QED
    BY <2>2, <2>3, <2>4 DEF EndedInv
<1>5. ASSUME NEW h \in Handlers, Commits(h) PROVE EndedInv'
  <2>1. CASE Reclaim(h)
    <3>1. /\ Len(tokens') = Len(tokens) /\ handlers'[h].pc = "signup" /\ UNCHANGED endings
          /\ users' = [users EXCEPT ![handlers[h].user].row = "gone"]
          /\ \A g \in Handlers : g # h => handlers'[g] = handlers[g]
      BY <2>1, ReclaimStep DEF Reclaim
    <3>2. \A u \in Users : users'[u].ended = users[u].ended
      BY <1>3, <3>1 DEF TypeInv, TypeOK, User
    <3>3. handlers'[h].pc \notin Endings
      BY <3>1 DEF Endings
    <3> QED
      BY <1>1, <1>2, <3>1, <3>2, <3>3, InUseFades, EndedStays
  <2>2. CASE SignupStore(h)
    <3>1. /\ UNCHANGED <<tokens, endings>>
          /\ \/ UNCHANGED users
             \/ \E u \in Users : users[u].row = "none" /\ users' = [users EXCEPT ![u] = NewUser]
          /\ handlers'[h].pc \in {"idle", "issue"}
          /\ \A g \in Handlers : g # h => handlers'[g] = handlers[g]
      BY <2>2, SignupStoreStep
    <3>2. \A v \in Users : users'[v].ended \in {users[v].ended, 0}
      BY <3>1 DEF TypeInv, TypeOK, NewUser
    <3>3. handlers'[h].pc \notin Endings
      BY <3>1 DEF Endings
    <3> QED
      BY <1>1, <1>2, <3>1, <3>2, <3>3, InUseFades, EndedStays
  <2>3. CASE IssueStore(h) \/ CountTry(h)
    <3>1. /\ UNCHANGED <<users, tokens, endings>> /\ handlers'[h].pc = "idle"
          /\ \A g \in Handlers : g # h => handlers'[g] = handlers[g]
      BY <2>3, IssueStoreStep, CountTryStep
    <3>2. handlers'[h].pc \notin Endings
      BY <3>1 DEF Endings
    <3> QED
      BY <1>1, <1>2, <3>1, <3>2, InUseFades, EndedStays
  <2>4. CASE VerifyStore(h)
    <3>1. /\ UNCHANGED <<tokens, endings>> /\ handlers'[h].pc = "idle"
          /\ \/ UNCHANGED users
             \/ users' = [users EXCEPT ![handlers[h].user].verified = TRUE]
          /\ \A g \in Handlers : g # h => handlers'[g] = handlers[g]
      BY <2>4, VerifyStoreStep
    <3>2. \A u \in Users : users'[u].ended = users[u].ended
      <4>1. CASE UNCHANGED users
        BY <4>1
      <4>2. CASE users' = [users EXCEPT ![handlers[h].user].verified = TRUE]
        <5>1. \A u \in Users : users'[u] = IF u = handlers[h].user
                                          THEN [users[u] EXCEPT !.verified = TRUE] ELSE users[u]
          BY <4>2 DEF TypeInv, TypeOK
        <5>2. \A u \in Users : [users[u] EXCEPT !.verified = TRUE].ended = users[u].ended
          BY <1>3 DEF User
        <5> QED
          BY <5>1, <5>2
      <4> QED
        BY <3>1, <4>1, <4>2
    <3>3. handlers'[h].pc \notin Endings
      BY <3>1 DEF Endings
    <3> QED
      BY <1>1, <1>2, <3>1, <3>2, <3>3, InUseFades, EndedStays
  <2>5. CASE TokenStore(h) \/ RefreshStore(h)
    <3>1. /\ UNCHANGED <<users, endings>> /\ handlers'[h].pc = "idle"
          /\ \A g \in Handlers : g # h => handlers'[g] = handlers[g]
      BY <2>5, TokenStoreStep, RefreshStoreStep
    <3>2. InUse
      <4>1. CASE UNCHANGED tokens
        BY <1>1, <4>1, InUseFades
      <4>2. CASE ~UNCHANGED tokens
        <5>1. \E u, login : /\ DOMAIN tokens' = 1 .. (Len(tokens) + 1)
                            /\ tokens'[Len(tokens) + 1] = NewToken(u, login)
          BY <2>5, <4>2, TokenStoreStep, RefreshStoreStep
        <5> QED
          BY <1>1, <5>1, InUseGains
      <4> QED
        BY <4>1, <4>2
    <3>3. handlers'[h].pc \notin Endings
      BY <3>1 DEF Endings
    <3> QED
      BY <1>1, <1>2, <3>1, <3>2, <3>3, EndedStays
  <2>6. CASE EndStore(h)
    <3> DEFINE r == handlers[h]
    <3>1. /\ Len(tokens') = Len(tokens) /\ handlers'[h].pc = "idle" /\ UNCHANGED endings
          /\ \A g \in Handlers : g # h => handlers'[g] = handlers[g]
          /\ r.pc \in Endings
      BY <2>6, EndStoreStep
    <3>2. handlers'[h].pc \notin Endings
      BY <3>1 DEF Endings
    <3>3. CASE UNCHANGED users
      BY <1>1, <1>2, <3>1, <3>2, <3>3, InUseFades, EndedStays
    <3>4. CASE ~UNCHANGED users
      <4>1. /\ r.user \in Users
            /\ users' = [users EXCEPT ![r.user] = Ended(@, r.pc, r.read)]
            /\ \A t \in DOMAIN tokens : tokens'[t].live <=> tokens[t].live /\ t \notin r.saw
        BY <2>6, <3>4, EndStoreStep
      <4>2. /\ r.read \in Nat /\ r.read <= endings /\ endings \in Nat
        BY <3>1, Constants DEF TypeInv, TypeOK, Carries, HandlerState
      <4>3. \A u \in Users :
              users'[u].ended = IF u = r.user /\ r.read > users[u].ended THEN r.read ELSE users[u].ended
        <5>1. \A u \in Users : users'[u] = IF u = r.user THEN Ended(users[u], r.pc, r.read)
                                                        ELSE users[u]
          BY <4>1 DEF TypeInv, TypeOK
        <5>2. \A u \in Users : Ended(users[u], r.pc, r.read).ended =
                IF r.read > users[u].ended THEN r.read ELSE users[u].ended
          BY <1>3 DEF Ended, User
        <5> QED
          BY <5>1, <5>2
      <4>4. DOMAIN tokens' = DOMAIN tokens
        BY <1>1, <3>1, Indices
      <4>5. \A t \in DOMAIN tokens : /\ tokens'[t].user = tokens[t].user
                                     /\ tokens'[t].issued = tokens[t].issued
                                     /\ tokens'[t].live => tokens[t].live /\ t \notin r.saw
        BY <1>1, <4>1 DEF Fades, TokensFade
      <4>6. SessionsEnded'
        <5> SUFFICES ASSUME NEW t \in DOMAIN tokens, tokens'[t].live
                     PROVE  tokens[t].issued >= users'[tokens[t].user].ended
          BY <4>4, <4>5 DEF SessionsEnded
        <5>1. tokens[t].live /\ t \notin r.saw /\ tokens[t].user \in Users
          BY <1>1, <4>5, Indices DEF Token
        <5>2. tokens[t].issued >= users[tokens[t].user].ended
          BY <5>1 DEF EndedInv, SessionsEnded
        <5>3. tokens[t].user = r.user => tokens[t].issued >= r.read
          BY <3>1, <5>1 DEF EndedInv
        <5> QED
          BY <4>3, <5>1, <5>2, <5>3
      <4>7. \A u \in Users : users'[u].ended <= endings'
        BY <3>1, <4>2, <4>3 DEF EndedInv
      <4>8. \A g \in Handlers : handlers'[g].pc \in Endings =>
              \A t \in DOMAIN tokens' :
                 /\ tokens'[t].live /\ tokens'[t].user = handlers'[g].user
                 /\ t \notin handlers'[g].saw
                 => tokens'[t].issued >= handlers'[g].read
        BY <1>2, <3>1, <3>2, <4>4, <4>5 DEF EndedInv
      <4> QED
        BY <4>6, <4>7, <4>8 DEF EndedInv
    <3> QED
      BY <3>3, <3>4
  <2> QED
    BY <1>5, <2>1, <2>2, <2>3, <2>4, <2>5, <2>6 DEF Commits
<1>6. ASSUME UNCHANGED <<users, handlers, endings>>, Len(tokens') = Len(tokens) PROVE EndedInv'
  BY <1>1, <1>6, InUseFades, EndedStays
<1>7. ASSUME NEW k \in Kinds, NEW c \in DOMAIN codes[k], Expire(k, c) PROVE EndedInv'
  BY <1>6, <1>7, ExpireStep
<1>8. ASSUME NEW t \in DOMAIN tokens, Logout(t) PROVE EndedInv'
  BY <1>6, <1>8, LogoutStep
<1>9. CASE UNCHANGED vars
  BY <1>6, <1>9 DEF vars
<1> QED
  BY <1>4, <1>5, <1>7, <1>8, <1>9, Steps

(* A password change, a reset and a deletion end the sessions: a token in  *)
(* use was stored after the UPDATE of the last ending of its user began,   *)
(* for any number of endings, logins and refreshes at once.                *)
THEOREM EndingsEnd == Spec => []SessionsEnded
<1>1. Spec => [](TypeInv /\ EndedInv)
  BY InitTypeInv, NextTypeInv, InitEnded, NextEnded, PTL DEF Spec
<1>2. EndedInv => SessionsEnded
  BY DEF EndedInv
<1> QED
  BY <1>1, <1>2, PTL

-----------------------------------------------------------------------------
(* Codes                                                                   *)

LEMMA InitIssue == Init => IssueInv
<1> SUFFICES ASSUME Init PROVE IssueInv
  OBVIOUS
<1>1. \A k \in Kinds : DOMAIN codes[k] = {}
  BY DEF Init
<1>2. \A h \in Handlers : handlers[h].pc = "idle"
  BY DEF Init, Idle
<1> QED
  BY <1>1, <1>2 DEF IssueInv, OneLiveCode, At

(* The issues under way have seen what is live of the codes before them,   *)
(* and a code that is inserted comes after.                                *)
LEMMA SightsStay ==
    ASSUME TypeInv, TypeInv', Fades, IssueInv, NEW h \in Handlers,
           handlers[h].pc = "code", handlers'[h] = handlers[h],
           NEW c \in DOMAIN codes'[handlers[h].kind],
           codes'[handlers[h].kind][c].live,
           codes'[handlers[h].kind][c].user = handlers[h].user, c <= handlers[h].row
    PROVE  c \in handlers[h].saw
<1> DEFINE k == handlers[h].kind
<1>1. /\ k \in Kinds /\ handlers[h].row <= Len(codes[k]) /\ handlers[h].row \in Nat
  BY Constants DEF TypeInv, TypeOK, HandlerState, Carries
<1>2. c \in DOMAIN codes[k]
  BY <1>1, Indices
<1>3. codes[k][c].live /\ codes[k][c].user = handlers[h].user
  BY <1>1, <1>2 DEF Fades, CodesFade
<1> QED
  BY <1>2, <1>3 DEF IssueInv, At

LEMMA IssuesStay ==
    ASSUME TypeInv, TypeInv', Fades, IssueInv,
           \A k \in Kinds : Len(codes'[k]) = Len(codes[k]),
           \A g \in Handlers : handlers'[g].pc = "code" => handlers'[g] = handlers[g]
    PROVE  IssueInv'
<1>1. ASSUME NEW k \in Kinds, NEW c \in DOMAIN codes'[k], NEW d \in DOMAIN codes'[k],
             c < d, codes'[k][c].user = codes'[k][d].user, codes'[k][c].live, codes'[k][d].live
      PROVE  c > codes'[k][d].since
  <2>1. c \in DOMAIN codes[k] /\ d \in DOMAIN codes[k]
    BY Indices
  <2>2. /\ codes[k][c].user = codes[k][d].user /\ codes[k][c].live /\ codes[k][d].live
        /\ codes'[k][d].since = codes[k][d].since
    BY <1>1, <2>1 DEF Fades, CodesFade
  <2> QED
    BY <1>1, <2>1, <2>2 DEF IssueInv, OneLiveCode
<1>2. \A h \in Handlers : At(h, "code")' =>
        \A c \in DOMAIN codes'[handlers'[h].kind] :
           /\ codes'[handlers'[h].kind][c].live
           /\ codes'[handlers'[h].kind][c].user = handlers'[h].user /\ c <= handlers'[h].row
           => c \in handlers'[h].saw
  BY SightsStay DEF At
<1> QED
  BY <1>1, <1>2 DEF IssueInv, OneLiveCode

LEMMA NextIssue == TypeInv /\ IssueInv /\ [Next]_vars => IssueInv'
<1> SUFFICES ASSUME TypeInv, IssueInv, [Next]_vars PROVE IssueInv'
  OBVIOUS
<1>1. TypeInv' /\ Fades
  BY NextTypeInv
<1>2. ASSUME NEW h \in Handlers, handlers'[h].pc # "code",
             \A g \in Handlers : g # h => handlers'[g] = handlers[g],
             \A k \in Kinds : Len(codes'[k]) = Len(codes[k])
      PROVE  IssueInv'
  BY <1>1, <1>2, IssuesStay
<1>3. ASSUME NEW h \in Handlers, Checks(h) PROVE IssueInv'
  <2>1. /\ UNCHANGED <<users, codes, tokens>>
        /\ \A g \in Handlers : g # h => handlers'[g] = handlers[g]
    BY <1>3, CheckGoes
  <2>2. CASE handlers'[h].pc # "code"
    BY <1>2, <2>1, <2>2
  <2>3. CASE handlers'[h].pc = "code"
    <3>1. handlers'[h].saw = Live(handlers'[h].kind, handlers'[h].user)
      BY <1>3, <2>3, CheckGoes
    <3>2. ASSUME NEW g \in Handlers, handlers'[g].pc = "code",
                 NEW c \in DOMAIN codes'[handlers'[g].kind],
                 codes'[handlers'[g].kind][c].live,
                 codes'[handlers'[g].kind][c].user = handlers'[g].user, c <= handlers'[g].row
          PROVE  c \in handlers'[g].saw
      <4>1. CASE g = h
        BY <2>1, <3>1, <3>2, <4>1 DEF Live
      <4>2. CASE g # h
        BY <1>1, <2>1, <3>2, <4>2, SightsStay
      <4> QED
        BY <4>1, <4>2
    <3>3. OneLiveCode'
      BY <2>1 DEF IssueInv, OneLiveCode
    <3> QED
      BY <3>2, <3>3 DEF IssueInv, At
  <2> QED
    BY <2>2, <2>3
<1>4. ASSUME NEW h \in Handlers, Commits(h) PROVE IssueInv'
  <2>1. CASE Reclaim(h)
    BY <1>2, <2>1, ReclaimStep
  <2>2. CASE SignupStore(h)
    BY <1>2, <2>2, SignupStoreStep
  <2>3. CASE CountTry(h) \/ VerifyStore(h)
    BY <1>2, <2>3, CountTryStep, VerifyStoreStep
  <2>4. CASE TokenStore(h) \/ RefreshStore(h)
    BY <1>2, <2>4, TokenStoreStep, RefreshStoreStep
  <2>5. CASE EndStore(h)
    BY <1>2, <2>5, EndStoreStep
  <2>6. CASE IssueStore(h)
    <3> DEFINE r == handlers[h]
               k == r.kind
               n == Len(codes[k]) + 1
    <3>1. /\ handlers'[h].pc = "idle" /\ r.pc = "code" /\ k \in Kinds
          /\ \A g \in Handlers : g # h => handlers'[g] = handlers[g]
      BY <2>6, IssueStoreStep DEF IssueStore, At, TypeInv, TypeOK, HandlerState
    <3>2. CASE UNCHANGED codes
      BY <1>2, <3>1, <3>2
    <3>3. CASE ~UNCHANGED codes
      <4>1. /\ \A j \in Kinds : j # k => codes'[j] = codes[j]
            /\ DOMAIN codes'[k] = 1 .. n
            /\ codes'[k][n] = NewCode(r.user, r.row)
            /\ \A c \in DOMAIN codes[k] : codes'[k][c].live => c \notin r.saw
        BY <2>6, <3>3, IssueStoreStep
      <4>2. /\ Len(codes[k]) \in Nat /\ DOMAIN codes[k] = 1 .. Len(codes[k])
            /\ r.row \in Nat
        <5>1. r.row \in Nat
          BY Constants DEF TypeInv, TypeOK, HandlerState
        <5>2. Len(codes[k]) \in Nat /\ DOMAIN codes[k] = 1 .. Len(codes[k])
          BY <1>1, <3>1, Indices
        <5> QED
          BY <5>1, <5>2
      <4>3. ASSUME NEW j \in Kinds, NEW c \in DOMAIN codes'[j], NEW d \in DOMAIN codes'[j],
                   c < d, codes'[j][c].user = codes'[j][d].user, codes'[j][c].live, codes'[j][d].live
            PROVE  c > codes'[j][d].since
        <5>1. CASE j # k
          BY <4>1, <4>3, <5>1 DEF IssueInv, OneLiveCode
        <5>2. CASE j = k /\ d = n
          <6>1. c \in DOMAIN codes[k]
            BY <4>1, <4>2, <4>3, <5>2
          <6>2. codes'[k][d].since = r.row /\ codes'[k][d].user = r.user
            BY <4>1, <5>2 DEF NewCode
          <6>3. codes[k][c].live /\ codes[k][c].user = r.user
            BY <1>1, <3>1, <4>3, <5>2, <6>1, <6>2 DEF Fades, CodesFade
          <6>4. c \notin r.saw
            BY <4>1, <4>3, <5>2, <6>1
          <6>5. ~(c <= r.row)
            BY <3>1, <6>1, <6>3, <6>4 DEF IssueInv, At
          <6> QED
            BY <4>2, <5>2, <6>1, <6>2, <6>5
        <5>3. CASE j = k /\ d # n
          <6>1. c \in DOMAIN codes[k] /\ d \in DOMAIN codes[k]
            BY <4>1, <4>2, <4>3, <5>3
          <6>2. /\ codes[k][c].user = codes[k][d].user /\ codes[k][c].live /\ codes[k][d].live
                /\ codes'[k][d].since = codes[k][d].since
            BY <1>1, <3>1, <4>3, <5>3, <6>1 DEF Fades, CodesFade
          <6> QED
            BY <3>1, <4>3, <5>3, <6>1, <6>2 DEF IssueInv, OneLiveCode
        <5> QED
          BY <5>1, <5>2, <5>3
      <4>4. \A g \in Handlers : At(g, "code")' =>
              \A c \in DOMAIN codes'[handlers'[g].kind] :
                 /\ codes'[handlers'[g].kind][c].live
                 /\ codes'[handlers'[g].kind][c].user = handlers'[g].user /\ c <= handlers'[g].row
                 => c \in handlers'[g].saw
        BY <1>1, <3>1, SightsStay DEF At
      <4> QED
        BY <4>3, <4>4 DEF IssueInv, OneLiveCode
    <3> QED
      BY <3>2, <3>3
  <2> QED
    BY <1>4, <2>1, <2>2, <2>3, <2>4, <2>5, <2>6 DEF Commits
<1>5. ASSUME UNCHANGED handlers, \A k \in Kinds : Len(codes'[k]) = Len(codes[k]) PROVE IssueInv'
  BY <1>1, <1>5, IssuesStay
<1>6. ASSUME NEW k \in Kinds, NEW c \in DOMAIN codes[k], Expire(k, c) PROVE IssueInv'
  BY <1>5, <1>6, ExpireStep
<1>7. ASSUME NEW t \in DOMAIN tokens, Logout(t) PROVE IssueInv'
  BY <1>5, <1>7, LogoutStep
<1>8. CASE UNCHANGED vars
  BY <1>5, <1>8 DEF vars
<1> QED
  BY <1>3, <1>4, <1>6, <1>7, <1>8, Steps

(* One code at a time (email_verification.py, "at most one"): an older     *)
(* code is still usable only when it was stored while the newer one was    *)
(* being issued, however many requests issue, try and reclaim at once.     *)
THEOREM LatestCodeAlone == Spec => []OneLiveCode
<1>1. Spec => [](TypeInv /\ IssueInv)
  BY InitTypeInv, NextTypeInv, InitIssue, NextIssue, PTL DEF Spec
<1>2. IssueInv => OneLiveCode
  BY DEF IssueInv
<1> QED
  BY <1>1, <1>2, PTL
=============================================================================
