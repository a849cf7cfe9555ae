---------------------------- MODULE TeamsProofs -----------------------------
(***************************************************************************)
(* Proofs about Teams, for every set of request threads, accounts and      *)
(* teams and any number of invitations: its types, that the row lock keeps *)
(* the leader of a team a member of it and the succession by seniority,    *)
(* and that a deleted account is in no team.                               *)
(***************************************************************************)
EXTENDS Teams, SequenceTheorems, TLAPS

Members == {s \in Seq(Users) : IsInjective(s)}

-----------------------------------------------------------------------------
(* Lists of members.                                                       *)

LEMMA WithoutOne ==
    ASSUME NEW s \in Members, NEW u \in Users
    PROVE  /\ Without(s, u) \in Members
           /\ Range(Without(s, u)) = Range(s) \ {u}
<1>1. CASE u \notin Range(s)
  BY <1>1 DEF Without
<1>2. CASE u \in Range(s)
  <2> DEFINE at == CHOOSE i \in DOMAIN s : s[i] = u
             rest == SubSeq(s, 1, at - 1) \o SubSeq(s, at + 1, Len(s))
  <2>1. s \in Seq(Users) /\ DOMAIN s = 1 .. Len(s) /\ Len(s) \in Nat
    BY DEF Members
  <2>2. at \in 1 .. Len(s) /\ s[at] = u
    BY <1>2, <2>1 DEF Range
  <2> HIDE DEF at
  <2>3. /\ rest \in Seq(Users)
        /\ Len(rest) = Len(s) - 1
        /\ \A i \in 1 .. Len(s) - 1 : rest[i] = IF i < at THEN s[i] ELSE s[i + 1]
    <3> DEFINE a == SubSeq(s, 1, at - 1)
               b == SubSeq(s, at + 1, Len(s))
    <3>1. /\ a \in Seq(Users) /\ Len(a) = at - 1
          /\ \A i \in 1 .. at - 1 : a[i] = s[i]
      BY <2>1, <2>2
    <3>2. /\ b \in Seq(Users) /\ Len(b) = Len(s) - at
          /\ \A i \in 1 .. Len(s) - at : b[i] = s[at + i]
      <4>1. at + 1 \in Int /\ Len(s) \in Int /\ \A i \in at + 1 .. Len(s) : s[i] \in Users
        BY <2>1, <2>2
      <4>2. /\ b \in Seq(Users)
            /\ Len(b) = IF at + 1 <= Len(s) THEN Len(s) - (at + 1) + 1 ELSE 0
            /\ \A i \in 1 .. Len(s) - (at + 1) + 1 : b[i] = s[at + 1 + i - 1]
        BY <4>1, SubSeqProperties
      <4> HIDE DEF b
      <4>3. Len(b) = Len(s) - at
        <5>1. CASE at + 1 <= Len(s)
          <6>1. Len(s) - (at + 1) + 1 = Len(s) - at
            BY <2>1, <2>2
          <6> QED
            BY <4>2, <5>1, <6>1
        <5>2. CASE ~(at + 1 <= Len(s))
          <6>1. at \in Int /\ Len(s) \in Int /\ at <= Len(s)
            BY <2>1, <2>2
          <6>2. \A i, n \in Int : i <= n /\ ~(i + 1 <= n) => n - i = 0
            OBVIOUS
          <6>3. Len(s) - at = 0
            BY <5>2, <6>1, <6>2
          <6> QED
            BY <4>2, <5>2, <6>3
        <5> QED
          BY <5>1, <5>2, Zenon
      <4>4. ASSUME NEW i \in 1 .. Len(s) - at PROVE b[i] = s[at + i]
        <5>1. i \in 1 .. Len(s) - (at + 1) + 1 /\ at + 1 + i - 1 = at + i
          BY <2>1, <2>2
        <5> QED
          BY <4>2, <5>1
      <4> QED
        BY <4>2, <4>3, <4>4
    <3> HIDE DEF a, b
    <3>3. /\ a \o b \in Seq(Users)
          /\ Len(a \o b) = Len(a) + Len(b)
          /\ \A i \in 1 .. Len(a) + Len(b) :
                (a \o b)[i] = IF i <= Len(a) THEN a[i] ELSE b[i - Len(a)]
      BY <3>1, <3>2, ConcatProperties
    <3>4. ASSUME NEW i \in 1 .. Len(s) - 1
          PROVE  (a \o b)[i] = IF i < at THEN s[i] ELSE s[i + 1]
      <4>1. CASE i < at
        <5>1. i \in 1 .. Len(a) + Len(b) /\ i <= Len(a) /\ i \in 1 .. at - 1
          BY <2>1, <2>2, <3>1, <3>2, <4>1
        <5> QED
          BY <3>1, <3>3, <4>1, <5>1
      <4>2. CASE i >= at
        <5>1. /\ i \in 1 .. Len(a) + Len(b) /\ ~(i <= Len(a))
              /\ i - Len(a) \in 1 .. Len(s) - at /\ at + (i - Len(a)) = i + 1
              /\ ~(i < at)
          BY <2>1, <2>2, <3>1, <3>2, <4>2
        <5> QED
          BY <3>2, <3>3, <5>1
      <4>3. i < at \/ i >= at
        BY <2>1, <2>2
      <4> QED
        BY <4>1, <4>2, <4>3, Zenon
    <3>5. Len(a \o b) = Len(s) - 1
      BY <2>1, <2>2, <3>1, <3>2, <3>3
    <3> QED
      BY <3>3, <3>4, <3>5 DEF a, b
  <2>4. Without(s, u) = rest
    BY <1>2 DEF Without, RemoveAt, at
  <2> HIDE DEF rest
  <2>5. \A i, j \in 1 .. Len(s) : s[i] = s[j] => i = j
    BY <2>1 DEF Members, IsInjective
  <2>6. DOMAIN rest = 1 .. Len(s) - 1
    BY <2>3
  <2>7. IsInjective(rest)
    <3> SUFFICES ASSUME NEW i \in 1 .. Len(s) - 1, NEW j \in 1 .. Len(s) - 1, rest[i] = rest[j]
                 PROVE  i = j
      BY <2>6 DEF IsInjective
    <3> QED
      BY <2>1, <2>2, <2>3, <2>5
  <2>8. ASSUME NEW i \in 1 .. Len(s) - 1 PROVE rest[i] \in Range(s) \ {u}
    <3>1. PICK k \in 1 .. Len(s) : rest[i] = s[k] /\ k # at
      <4>1. i \in 1 .. Len(s) /\ i + 1 \in 1 .. Len(s)
        BY <2>1
      <4> QED
        BY <2>2, <2>3, <4>1
    <3> QED
      BY <2>1, <2>2, <2>5, <3>1 DEF Range
  <2>9. ASSUME NEW v \in Range(s), v # u PROVE \E i \in 1 .. Len(s) - 1 : rest[i] = v
    <3>1. PICK k \in 1 .. Len(s) : s[k] = v
      BY <2>1 DEF Range
    <3>2. CASE k < at
      BY <2>1, <2>2, <2>3, <3>1, <3>2
    <3>3. CASE k > at
      <4>1. k - 1 \in 1 .. Len(s) - 1 /\ rest[k - 1] = v
        BY <2>1, <2>2, <2>3, <3>1, <3>3
      <4> QED
        BY <4>1
    <3> QED
      BY <2>1, <2>2, <2>9, <3>1, <3>2, <3>3
  <2>10. Range(rest) = Range(s) \ {u}
    BY <2>6, <2>8, <2>9 DEF Range
  <2> QED
    BY <2>3, <2>4, <2>7, <2>10 DEF Members
<1> QED
  BY <1>1, <1>2

LEMMA HeadStays ==
    ASSUME NEW s \in Members, s # <<>>
    PROVE  Head(s) \in Range(s) /\ Head(s) \in Users
<1>1. s \in Seq(Users) /\ 1 \in DOMAIN s
  BY DEF Members
<1> QED
  BY <1>1 DEF Range

LEMMA OneMore ==
    ASSUME NEW s \in Members, NEW u \in Users, u \notin Range(s)
    PROVE  Append(s, u) \in Members /\ Range(Append(s, u)) = Range(s) \cup {u}
<1>1. /\ s \in Seq(Users) /\ Len(s) \in Nat /\ DOMAIN s = 1 .. Len(s)
      /\ \A i, j \in 1 .. Len(s) : s[i] = s[j] => i = j
  BY DEF Members, IsInjective
<1>2. /\ Append(s, u) \in Seq(Users)
      /\ DOMAIN Append(s, u) = 1 .. Len(s) + 1
      /\ Append(s, u)[Len(s) + 1] = u
      /\ \A i \in 1 .. Len(s) : Append(s, u)[i] = s[i] /\ s[i] # u
  BY <1>1 DEF Range
<1>3. IsInjective(Append(s, u))
  BY <1>1, <1>2 DEF IsInjective
<1>4. Range(Append(s, u)) = Range(s) \cup {u}
  BY <1>1, <1>2 DEF Range
<1> QED
  BY <1>2, <1>3, <1>4 DEF Members

LEMMA LoneMember ==
    ASSUME NEW s \in Members, NEW u \in Range(s), Range(s) \ {u} = {}
    PROVE  Len(s) = 1
<1>1. /\ s \in Seq(Users) /\ Len(s) \in Nat /\ DOMAIN s = 1 .. Len(s)
      /\ \A i, j \in 1 .. Len(s) : s[i] = s[j] => i = j
  BY DEF Members, IsInjective
<1>2. \A i \in 1 .. Len(s) : s[i] = u
  BY <1>1 DEF Range
<1>3. \E i \in 1 .. Len(s) : TRUE
  BY <1>1 DEF Range
<1>4. Len(s) # 0
  BY <1>1, <1>3
<1>5. 1 \in 1 .. Len(s) /\ (Len(s) # 1 => 2 \in 1 .. Len(s))
  BY <1>1, <1>4
<1> QED
  BY <1>1, <1>2, <1>5

-----------------------------------------------------------------------------
(* Types.                                                                  *)

LEMMA StatusTypes ==
    /\ NoTeam \in Team /\ GoneTeam \in Team
    /\ Idle \in HandlerState
    /\ \A u \in Users : <<u>> \in Members /\ Range(<<u>>) = {u}
<1>1. <<>> \in {s \in Seq(Users) : IsInjective(s)}
  BY DEF IsInjective
<1>2. NoTeam \in Team /\ GoneTeam \in Team
  BY <1>1 DEF NoTeam, GoneTeam, Team
<1>3. Idle \in HandlerState
  BY TeamsAssumption DEF Idle, HandlerState
<1>4. ASSUME NEW u \in Users PROVE <<u>> \in Members /\ Range(<<u>>) = {u}
  <2>1. <<u>> \in Seq(Users) /\ DOMAIN <<u>> = {1} /\ <<u>>[1] = u
    OBVIOUS
  <2> QED
    BY <2>1 DEF Members, IsInjective, Range
<1> QED
  BY <1>2, <1>3, <1>4

(* What a thread names fits the state it is in.                            *)
Named(r, invs) ==
    /\ r.pc \in {"create", "next", "lock", "remove", "delete", "accept"} => r.user \in Users
    /\ r.pc \in {"lock", "remove", "delete", "accept", "rotate"} => r.team \in Teams
    /\ r.pc = "accept" => r.invite \in 1 .. Len(invs)
    /\ r.pc = "rotate" => r.invite \in 0 .. Len(invs)

(* A thread goes on; the others, and what they name, stay.                 *)
LEMMA GoesTypes ==
    ASSUME TypeInv, NEW h \in Handlers, NEW state \in HandlerState, Goes(h, state),
           Named(state, invites'),
           invites' \in Seq(Invite), Len(invites') <= MaxInvites,
           Len(invites) <= Len(invites')
    PROVE  handlers' \in [Handlers -> HandlerState] /\ ThreadsNamed'
<1>1. /\ handlers' \in [Handlers -> HandlerState]
      /\ handlers'[h] = state
      /\ \A g \in Handlers : g # h => handlers'[g] = handlers[g]
  BY DEF Goes, TypeInv, TypeOK
<1>2. /\ DOMAIN invites = 1 .. Len(invites) /\ Len(invites) \in Nat
      /\ DOMAIN invites' = 1 .. Len(invites') /\ Len(invites') \in Nat
  BY DEF TypeInv, TypeOK
<1>3. ASSUME NEW g \in Handlers PROVE Named(handlers'[g], invites')
  <2>1. CASE g = h
    BY <1>1, <2>1
  <2>2. CASE g # h
    BY <1>1, <1>2, <2>2 DEF TypeInv, ThreadsNamed, Named
  <2> QED
    BY <2>1, <2>2
<1> QED
  BY <1>1, <1>2, <1>3 DEF ThreadsNamed, Named

(* A step of a thread that writes no row.                                  *)
LEMMA GoesOn ==
    ASSUME TypeInv, UNCHANGED <<teams, invites, deleted, late>>,
           NEW h \in Handlers, NEW state \in HandlerState, Goes(h, state),
           Named(state, invites)
    PROVE  TypeInv'
<1>1. /\ invites' \in Seq(Invite) /\ Len(invites') <= MaxInvites
      /\ Len(invites) <= Len(invites') /\ Named(state, invites')
  BY DEF TypeInv, TypeOK, ThreadsNamed
<1>2. handlers' \in [Handlers -> HandlerState] /\ ThreadsNamed'
  BY <1>1, GoesTypes
<1> QED
  BY <1>2 DEF TypeInv, TypeOK

LEMMA InitTypeInv == Init => TypeInv
<1> SUFFICES ASSUME Init PROVE TypeInv
  OBVIOUS
<1>1. Len(invites) = 0 /\ invites \in Seq(Invite)
  BY DEF Init
<1>2. handlers \in [Handlers -> HandlerState] /\ \A h \in Handlers : handlers[h].pc = "idle"
  BY StatusTypes DEF Init, Idle
<1>3. teams \in [Teams -> Team]
  BY StatusTypes DEF Init
<1> QED
  BY <1>1, <1>2, <1>3, TeamsAssumption DEF Init, TypeInv, TypeOK, ThreadsNamed

(* What leave_or_succeed decides is an edit of that team.                  *)
LEMMA LeavingTypes ==
    ASSUME TypeOK, NEW t \in Teams, NEW u \in Users
    PROVE  Leaving(t, u) \in Edit /\ Leaving(t, u).team = t
<1>1. teams[t].members \in Members
  BY DEF TypeOK, Team, Members
<1>2. Rest(t, u) \in Members
  BY <1>1, WithoutOne DEF Rest
<1>3. Rest(t, u) # <<>> => Successor(Rest(t, u)) \in Users
  BY <1>2, HeadStays DEF Successor
<1> QED
  BY <1>3 DEF Leaving, Leads, Kept, Edit

LEMMA InviteTypes ==
    ASSUME TypeInv, invites' \in Seq(Invite), Len(invites') = Len(invites)
    PROVE  Len(invites') <= MaxInvites /\ Len(invites) <= Len(invites')
  BY DEF TypeInv, TypeOK, ThreadsNamed

LEMMA CascadeTypes ==
    ASSUME TypeOK, NEW gone, Cascade(gone)
    PROVE  invites' \in Seq(Invite) /\ Len(invites') = Len(invites)
<1>1. /\ invites \in Seq(Invite) /\ Len(invites) \in Nat
      /\ DOMAIN invites = 1 .. Len(invites)
      /\ \A i \in 1 .. Len(invites) : invites[i] \in Invite
  BY DEF TypeOK
<1>2. invites' = [i \in 1 .. Len(invites) |->
                    [invites[i] EXCEPT !.open = @ /\ invites[i].team \notin gone]]
  BY <1>1 DEF Cascade
<1>3. ASSUME NEW i \in 1 .. Len(invites)
      PROVE  [invites[i] EXCEPT !.open = @ /\ invites[i].team \notin gone] \in Invite
  BY <1>1 DEF Invite
<1> QED
  BY <1>1, <1>2, <1>3

LEMMA ClosedTypes ==
    ASSUME TypeOK, NEW i \in 1 .. Len(invites)
    PROVE  Closed(i) \in Seq(Invite) /\ Len(Closed(i)) = Len(invites)
<1>1. [invites[i] EXCEPT !.open = FALSE] \in Invite
  <2>1. invites[i] \in Invite
    BY DEF TypeOK
  <2> QED
    BY <2>1 DEF Invite
<1> QED
  BY <1>1 DEF TypeOK, Closed

LEMMA JoinsTypes ==
    ASSUME TypeOK, NEW u \in Users, NEW t \in Teams, Joins(u, t)
    PROVE  late' \subseteq Users \X Teams
  BY DEF TypeOK, Joins

(* A request starts; it has no transaction that changed anything.          *)
LEMMA Starts ==
    ASSUME TypeInv, NEW h \in Handlers,
           \/ CreateTeam(h) \/ DeleteTeam(h) \/ DeleteMe(h) \/ RemoveMember(h) \/ Rotate(h)
           \/ Accept(h)
    PROVE  \E state \in HandlerState :
              Goes(h, state) /\ Named(state, invites) /\ state.edits = {}
<1>0. /\ TypeOK /\ Idle \in HandlerState /\ Active \subseteq Users
      /\ handlers[h] \in HandlerState
      /\ Len(invites) \in Nat /\ DOMAIN invites = 1 .. Len(invites)
      /\ Len(invites) <= MaxInvites /\ MaxInvites \in Nat
  BY StatusTypes, TeamsAssumption DEF TypeInv, TypeOK, Active, ThreadsNamed
<1>1. CASE DeleteTeam(h)
  <2>1. PICK u \in Users, t \in Teams :
            Goes(h, [Idle EXCEPT !.pc = "delete", !.user = u, !.team = t])
    BY <1>0, <1>1 DEF DeleteTeam
  <2> DEFINE new == [Idle EXCEPT !.pc = "delete", !.user = u, !.team = t]
  <2>2. new \in HandlerState /\ Named(new, invites) /\ new.edits = {}
    BY <1>0 DEF Idle, HandlerState, Named
  <2>3. Goes(h, new)
    BY <2>1
  <2> HIDE DEF new
  <2> QED
    BY <2>2, <2>3
<1>2. CASE DeleteMe(h)
  <2>1. PICK u \in Users :
            Goes(h, [Idle EXCEPT !.pc = "next", !.user = u, !.account = TRUE,
                                 !.todo = TeamsOf(u)])
    BY <1>0, <1>2 DEF DeleteMe
  <2> DEFINE new == [Idle EXCEPT !.pc = "next", !.user = u, !.account = TRUE,
                                 !.todo = TeamsOf(u)]
  <2>2. new \in HandlerState /\ Named(new, invites) /\ new.edits = {}
    BY <1>0 DEF Idle, HandlerState, Named, TeamsOf
  <2>3. Goes(h, new)
    BY <2>1
  <2> HIDE DEF new
  <2> QED
    BY <2>2, <2>3
<1>3. CASE RemoveMember(h)
  <2>1. PICK v \in Users, t \in Teams :
            Goes(h, [Idle EXCEPT !.pc = "remove", !.user = v, !.team = t])
    BY <1>0, <1>3 DEF RemoveMember
  <2> DEFINE new == [Idle EXCEPT !.pc = "remove", !.user = v, !.team = t]
  <2>2. new \in HandlerState /\ Named(new, invites) /\ new.edits = {}
    BY <1>0 DEF Idle, HandlerState, Named
  <2>3. Goes(h, new)
    BY <2>1
  <2> HIDE DEF new
  <2> QED
    BY <2>2, <2>3
<1>4. CASE Rotate(h)
  <2>1. PICK t \in Teams : \E i \in IF Open(t, "link") = {} THEN {0} ELSE Open(t, "link") :
            Goes(h, [Idle EXCEPT !.pc = "rotate", !.team = t, !.invite = i])
    BY <1>4 DEF Rotate
  <2>2. PICK i \in IF Open(t, "link") = {} THEN {0} ELSE Open(t, "link") :
            Goes(h, [Idle EXCEPT !.pc = "rotate", !.team = t, !.invite = i])
    BY <2>1
  <2> DEFINE new == [Idle EXCEPT !.pc = "rotate", !.team = t, !.invite = i]
  <2>3. i \in 0 .. Len(invites) /\ i \in 0 .. MaxInvites
    BY <1>0, <2>2 DEF Open
  <2>4. new \in HandlerState /\ Named(new, invites) /\ new.edits = {}
    BY <1>0, <2>3 DEF Idle, HandlerState, Named
  <2>5. Goes(h, new)
    BY <2>2
  <2> HIDE DEF new
  <2> QED
    BY <2>4, <2>5
<1>5. CASE Accept(h)
  <2>1. PICK u \in Users, i \in 1 .. Len(invites) :
            Goes(h, [Idle EXCEPT !.pc = "accept", !.user = u, !.team = invites[i].team,
                                 !.invite = i, !.known = Member(invites[i].team, u)])
    BY <1>0, <1>5 DEF Accept
  <2> DEFINE new == [Idle EXCEPT !.pc = "accept", !.user = u, !.team = invites[i].team,
                                 !.invite = i, !.known = Member(invites[i].team, u)]
  <2>2. invites[i].team \in Teams /\ i \in 0 .. MaxInvites
    <3>1. invites[i] \in Invite
      BY <1>0 DEF TypeOK
    <3> QED
      BY <1>0, <3>1 DEF Invite
  <2>3. Member(invites[i].team, u) \in BOOLEAN
    BY DEF Member
  <2>4. new \in HandlerState /\ Named(new, invites) /\ new.edits = {}
    BY <1>0, <2>2, <2>3 DEF Idle, HandlerState, Named
  <2>5. Goes(h, new)
    BY <2>1
  <2> HIDE DEF new
  <2> QED
    BY <2>4, <2>5
<1>6. CASE CreateTeam(h)
  <2>1. PICK u \in Users : Goes(h, [Idle EXCEPT !.pc = "create", !.user = u])
    BY <1>0, <1>6 DEF CreateTeam
  <2> DEFINE new == [Idle EXCEPT !.pc = "create", !.user = u]
  <2>2. new \in HandlerState /\ Named(new, invites) /\ new.edits = {}
    BY <1>0 DEF Idle, HandlerState, Named
  <2>3. Goes(h, new)
    BY <2>1
  <2> HIDE DEF new
  <2> QED
    BY <2>2, <2>3
<1> QED
  BY <1>1, <1>2, <1>3, <1>4, <1>5, <1>6

(* Requests that start, and what they read.                                *)
LEMMA ReadTypeInv ==
    ASSUME TypeInv, NEW h \in Handlers,
           \/ CreateTeam(h) \/ DeleteTeam(h) \/ DeleteMe(h) \/ NextTeam(h) \/ Leave(h)
           \/ LeaveNext(h) \/ RemoveMember(h) \/ RemoveLock(h) \/ Rotate(h) \/ Accept(h)
    PROVE  TypeInv'
<1>0. /\ TypeOK /\ Idle \in HandlerState /\ Active \subseteq Users
      /\ handlers[h] \in HandlerState
      /\ Len(invites) \in Nat /\ DOMAIN invites = 1 .. Len(invites)
      /\ Len(invites) <= MaxInvites /\ MaxInvites \in Nat
  BY StatusTypes, TeamsAssumption DEF TypeInv, TypeOK, Active, ThreadsNamed
<1>1. CASE \/ CreateTeam(h) \/ DeleteTeam(h) \/ DeleteMe(h) \/ RemoveMember(h) \/ Rotate(h)
           \/ Accept(h)
  <2>1. UNCHANGED <<teams, invites, deleted, late>>
    BY <1>1 DEF CreateTeam, DeleteTeam, DeleteMe, RemoveMember, Rotate, Accept
  <2> QED
    BY <1>1, <2>1, Starts, GoesOn
<1>2. CASE NextTeam(h)
  <2>1. PICK t \in handlers[h].todo :
            Goes(h, [handlers[h] EXCEPT !.todo = @ \ {t},
                                        !.pc = IF Exists(t) THEN "lock" ELSE "next",
                                        !.team = t])
    BY <1>2 DEF NextTeam
  <2> DEFINE new == [handlers[h] EXCEPT !.todo = @ \ {t},
                                        !.pc = IF Exists(t) THEN "lock" ELSE "next",
                                        !.team = t]
  <2>2. t \in Teams /\ handlers[h].user \in Users
    BY <1>0, <1>2 DEF NextTeam, TypeInv, ThreadsNamed, HandlerState
  <2>3. new \in HandlerState /\ Named(new, invites)
    BY <1>0, <2>2 DEF HandlerState, Named
  <2>4. Goes(h, new) /\ UNCHANGED <<teams, invites, deleted, late>>
    BY <1>2, <2>1 DEF NextTeam
  <2> HIDE DEF new
  <2> QED
    BY <2>3, <2>4, GoesOn
<1>3. CASE Leave(h)
  <2>1. PICK t \in Teams : \E u \in Users :
            Goes(h, [Idle EXCEPT !.pc = "next", !.user = u, !.edits = {Leaving(t, u)}])
    BY <1>0, <1>3 DEF Leave
  <2>2. PICK u \in Users :
            Goes(h, [Idle EXCEPT !.pc = "next", !.user = u, !.edits = {Leaving(t, u)}])
    BY <2>1
  <2> DEFINE new == [Idle EXCEPT !.pc = "next", !.user = u, !.edits = {Leaving(t, u)}]
  <2>3. Leaving(t, u) \in Edit
    BY <1>0, LeavingTypes
  <2>4. new \in HandlerState /\ Named(new, invites)
    BY <1>0, <2>3 DEF Idle, HandlerState, Named
  <2>5. Goes(h, new) /\ UNCHANGED <<teams, invites, deleted, late>>
    BY <1>3, <2>2 DEF Leave
  <2> HIDE DEF new
  <2> QED
    BY <2>4, <2>5, GoesOn
<1>4. CASE LeaveNext(h)
  <2> DEFINE r   == handlers[h]
             new == [r EXCEPT !.pc = "next", !.edits = @ \cup {Leaving(r.team, r.user)}]
  <2>1. r.team \in Teams /\ r.user \in Users
    BY <1>4 DEF LeaveNext, TypeInv, ThreadsNamed
  <2>2. Leaving(r.team, r.user) \in Edit
    BY <1>0, <2>1, LeavingTypes
  <2>3. new \in HandlerState /\ Named(new, invites)
    BY <1>0, <2>1, <2>2 DEF HandlerState, Named
  <2>4. Named(Idle, invites)
    BY DEF Idle, Named
  <2>5. Goes(h, new) \/ Goes(h, Idle)
    BY <1>4 DEF LeaveNext
  <2>6. UNCHANGED <<teams, invites, deleted, late>>
    BY <1>4 DEF LeaveNext
  <2> HIDE DEF new
  <2> QED
    BY <1>0, <2>3, <2>4, <2>5, <2>6, GoesOn
<1>5. CASE RemoveLock(h)
  <2> DEFINE r   == handlers[h]
             new == [r EXCEPT !.pc = "next", !.edits = {Leaving(r.team, r.user)}]
  <2>1. r.team \in Teams /\ r.user \in Users
    BY <1>5 DEF RemoveLock, TypeInv, ThreadsNamed
  <2>2. Leaving(r.team, r.user) \in Edit
    BY <1>0, <2>1, LeavingTypes
  <2>3. new \in HandlerState /\ Named(new, invites)
    BY <1>0, <2>1, <2>2 DEF HandlerState, Named
  <2>4. Named(Idle, invites)
    BY DEF Idle, Named
  <2>5. Goes(h, new) \/ Goes(h, Idle)
    BY <1>5 DEF RemoveLock
  <2>6. UNCHANGED <<teams, invites, deleted, late>>
    BY <1>5 DEF RemoveLock
  <2> HIDE DEF new
  <2> QED
    BY <1>0, <2>3, <2>4, <2>5, <2>6, GoesOn
<1> QED
  BY <1>1, <1>2, <1>3, <1>4, <1>5

(* A thread that ends its request, whatever it has committed.              *)
LEMMA EndsTypes ==
    ASSUME TypeInv, NEW h \in Handlers, Goes(h, Idle),
           invites' \in Seq(Invite), Len(invites') <= MaxInvites,
           Len(invites) <= Len(invites')
    PROVE  handlers' \in [Handlers -> HandlerState] /\ ThreadsNamed'
<1>1. Idle \in HandlerState /\ Named(Idle, invites')
  BY StatusTypes DEF Idle, Named
<1> QED
  BY <1>1, GoesTypes

(* A step of no thread in particular, which adds or closes an invitation.  *)
LEMMA InvitesTypes ==
    ASSUME TypeInv, UNCHANGED handlers,
           invites' \in Seq(Invite), Len(invites') <= MaxInvites,
           Len(invites) <= Len(invites')
    PROVE  ThreadsNamed'
<1>1. /\ DOMAIN invites = 1 .. Len(invites) /\ Len(invites) \in Nat
      /\ DOMAIN invites' = 1 .. Len(invites') /\ Len(invites') \in Nat
  BY DEF TypeInv, TypeOK
<1> QED
  BY <1>1 DEF TypeInv, ThreadsNamed

LEMMA EditedTypes ==
    ASSUME TypeOK, NEW t \in Teams, NEW e \in Edit
    PROVE  Edited(t, e) \in Team
<1>1. teams[t] \in Team /\ teams[t].members \in Members
  BY DEF TypeOK, Team, Members
<1>2. e.drop \in Users /\ e.leader \in Users \cup {None}
  BY DEF Edit
<1>3. Rest(t, e.drop) \in Members
  BY <1>1, <1>2, WithoutOne DEF Rest
<1>4. [teams[t] EXCEPT !.members = Rest(t, e.drop),
                       !.leader = IF e.kind = "succeed" THEN e.leader ELSE @] \in Team
  BY <1>1, <1>2, <1>3 DEF Team, Members
<1> QED
  BY <1>1, <1>4, StatusTypes DEF Edited

(* Commits.                                                                *)
LEMMA WriteTypeInv ==
    ASSUME TypeInv, NEW h \in Handlers,
           \/ CreateTeamStore(h) \/ DeleteTeamStore(h) \/ LeaveStore(h) \/ InviteEmail(h)
           \/ Close(h) \/ RotateStore(h) \/ AcceptStore(h)
    PROVE  TypeInv'
<1>0. /\ TypeOK /\ Active \subseteq Users
      /\ handlers[h] \in HandlerState
      /\ invites \in Seq(Invite) /\ DOMAIN invites = 1 .. Len(invites)
      /\ Len(invites) \in Nat /\ Len(invites) <= MaxInvites /\ MaxInvites \in Nat
  BY TeamsAssumption DEF TypeInv, TypeOK, Active, ThreadsNamed
<1>1. CASE CreateTeamStore(h)
  <2> DEFINE u == handlers[h].user
  <2>0. u \in Users
    BY <1>1 DEF CreateTeamStore, TypeInv, ThreadsNamed
  <2> HIDE DEF u
  <2>1. PICK t \in Teams :
            /\ teams' = [teams EXCEPT ![t] = [row |-> "row", leader |-> u,
                                               members |-> <<u>>]]
            /\ Joins(u, t)
    BY <1>1 DEF CreateTeamStore, u
  <2>2. [row |-> "row", leader |-> u, members |-> <<u>>] \in Team
    BY <2>0, StatusTypes DEF Team, Members
  <2>3. teams' \in [Teams -> Team] /\ late' \subseteq Users \X Teams
    BY <1>0, <2>0, <2>1, <2>2, JoinsTypes DEF TypeOK
  <2>4. Goes(h, Idle) /\ UNCHANGED <<invites, deleted>>
    BY <1>1 DEF CreateTeamStore
  <2>5. handlers' \in [Handlers -> HandlerState] /\ ThreadsNamed'
    BY <1>0, <2>4, EndsTypes
  <2> QED
    BY <1>0, <2>3, <2>4, <2>5 DEF TypeInv, TypeOK
<1>2. CASE DeleteTeamStore(h)
  <2>1. handlers[h].team \in Teams
    BY <1>2 DEF DeleteTeamStore, TypeInv, ThreadsNamed
  <2>2. teams' \in [Teams -> Team]
    BY <1>0, <1>2, <2>1, StatusTypes DEF DeleteTeamStore, TypeOK
  <2>3. Cascade({handlers[h].team}) /\ Goes(h, Idle) /\ UNCHANGED <<deleted, late>>
    BY <1>2 DEF DeleteTeamStore
  <2>4. invites' \in Seq(Invite) /\ Len(invites') = Len(invites)
    BY <1>0, <2>3, CascadeTypes
  <2>5. handlers' \in [Handlers -> HandlerState] /\ ThreadsNamed'
    BY <2>3, <2>4, InviteTypes, EndsTypes
  <2> QED
    BY <1>0, <2>2, <2>3, <2>4, <2>5 DEF TypeInv, TypeOK
<1>3. CASE LeaveStore(h)
  <2> DEFINE r == handlers[h]
             Of(t) == {e \in r.edits : e.team = t}
             gone == {e.team : e \in {d \in r.edits : d.kind = "delete"}}
  <2>1. r.edits \subseteq Edit /\ r.user \in Users
    BY <1>0, <1>3 DEF LeaveStore, TypeInv, ThreadsNamed, HandlerState
  <2>2. teams' = [t \in Teams |-> IF Of(t) = {} THEN teams[t]
                                  ELSE Edited(t, CHOOSE e \in Of(t) : TRUE)]
    BY <1>3 DEF LeaveStore
  <2>3. ASSUME NEW t \in Teams, Of(t) # {}
        PROVE  Edited(t, CHOOSE e \in Of(t) : TRUE) \in Team
    <3>1. (CHOOSE e \in Of(t) : TRUE) \in Edit
      BY <2>1, <2>3
    <3> QED
      BY <1>0, <3>1, EditedTypes
  <2>4. teams' \in [Teams -> Team]
    BY <1>0, <2>2, <2>3 DEF TypeOK
  <2>5. Cascade(gone) /\ Goes(h, Idle) /\ late' = late
    BY <1>3 DEF LeaveStore
  <2>6. deleted' \subseteq Users
    BY <1>0, <1>3, <2>1 DEF LeaveStore, TypeOK
  <2> HIDE DEF gone
  <2>7. invites' \in Seq(Invite) /\ Len(invites') = Len(invites)
    BY <1>0, <2>5, CascadeTypes
  <2>8. handlers' \in [Handlers -> HandlerState] /\ ThreadsNamed'
    BY <2>5, <2>7, InviteTypes, EndsTypes
  <2> QED
    BY <1>0, <2>4, <2>5, <2>6, <2>7, <2>8 DEF TypeInv, TypeOK
<1>4. CASE InviteEmail(h)
  <2>1. PICK t \in Teams : invites' = Append(invites, NewInvite(t, "email"))
    BY <1>4 DEF InviteEmail
  <2>2. NewInvite(t, "email") \in Invite
    BY DEF NewInvite, Invite
  <2>3. Len(invites) < MaxInvites
    BY <1>4 DEF InviteEmail
  <2>4. /\ invites' \in Seq(Invite) /\ Len(invites') = Len(invites) + 1
        /\ Len(invites') <= MaxInvites /\ Len(invites) <= Len(invites')
    BY <1>0, <2>1, <2>2, <2>3
  <2>5. UNCHANGED <<teams, deleted, handlers, late>>
    BY <1>4 DEF InviteEmail
  <2>6. ThreadsNamed'
    BY <2>4, <2>5, InvitesTypes
  <2> QED
    BY <1>0, <2>4, <2>5, <2>6 DEF TypeInv, TypeOK
<1>5. CASE Close(h)
  <2>1. PICK i \in 1 .. Len(invites) : invites' = Closed(i)
    BY <1>0, <1>5 DEF Close
  <2>2. invites' \in Seq(Invite) /\ Len(invites') = Len(invites)
    BY <1>0, <2>1, ClosedTypes
  <2>3. UNCHANGED <<teams, deleted, handlers, late>>
    BY <1>5 DEF Close
  <2>4. ThreadsNamed'
    BY <2>2, <2>3, InviteTypes, InvitesTypes
  <2> QED
    BY <1>0, <2>2, <2>3, <2>4 DEF TypeInv, TypeOK
<1>6. CASE RotateStore(h)
  <2> DEFINE r   == handlers[h]
             new == NewInvite(r.team, "link")
             old == IF r.invite = 0 THEN invites ELSE Closed(r.invite)
  <2>1. r.team \in Teams /\ r.invite \in 0 .. Len(invites)
    BY <1>6 DEF RotateStore, TypeInv, ThreadsNamed
  <2>2. new \in Invite
    BY <2>1 DEF NewInvite, Invite
  <2>3. old \in Seq(Invite) /\ Len(old) = Len(invites)
    <3>1. CASE r.invite = 0
      BY <1>0, <3>1
    <3>2. CASE r.invite # 0
      <4>1. r.invite \in 1 .. Len(invites)
        BY <1>0, <2>1, <3>2
      <4> QED
        BY <1>0, <3>2, <4>1, ClosedTypes
    <3> QED
      BY <3>1, <3>2
  <2>4. invites' = invites \/ (Len(invites) < MaxInvites /\ invites' = Append(old, new))
    BY <1>6 DEF RotateStore
  <2> HIDE DEF new, old
  <2>5. /\ invites' \in Seq(Invite)
        /\ Len(invites') <= MaxInvites /\ Len(invites) <= Len(invites')
    BY <1>0, <2>2, <2>3, <2>4
  <2>6. Goes(h, Idle) /\ UNCHANGED <<teams, deleted, late>>
    BY <1>6 DEF RotateStore
  <2>7. handlers' \in [Handlers -> HandlerState] /\ ThreadsNamed'
    BY <2>5, <2>6, EndsTypes
  <2> QED
    BY <1>0, <2>5, <2>6, <2>7 DEF TypeInv, TypeOK
<1>7. CASE AcceptStore(h)
  <2> DEFINE r == handlers[h]
  <2>1. r.team \in Teams /\ r.user \in Users /\ r.invite \in 1 .. Len(invites)
    BY <1>0, <1>7 DEF AcceptStore, TypeInv, ThreadsNamed
  <2>2. Goes(h, Idle) /\ deleted' = deleted
    BY <1>7 DEF AcceptStore
  <2>3. invites' = invites \/ invites' = Closed(r.invite)
    BY <1>7 DEF AcceptStore
  <2>4. invites' \in Seq(Invite) /\ Len(invites') = Len(invites)
    BY <1>0, <2>1, <2>3, ClosedTypes
  <2>5. handlers' \in [Handlers -> HandlerState] /\ ThreadsNamed'
    BY <2>2, <2>4, InviteTypes, EndsTypes
  <2>6. late' = late \/ Joins(r.user, r.team)
    BY <1>7 DEF AcceptStore
  <2>7. late' \subseteq Users \X Teams
    BY <1>0, <2>1, <2>6, JoinsTypes DEF TypeOK
  <2>8. \/ teams' = teams
        \/ /\ ~Member(r.team, r.user)
           /\ teams' = [teams EXCEPT ![r.team].members = Append(@, r.user)]
    BY <1>7 DEF AcceptStore, Insertable
  <2>9. teams' \in [Teams -> Team]
    <3>1. CASE teams' = teams
      BY <1>0, <3>1 DEF TypeOK
    <3>2. CASE /\ ~Member(r.team, r.user)
               /\ teams' = [teams EXCEPT ![r.team].members = Append(@, r.user)]
      <4>1. teams[r.team] \in Team /\ teams[r.team].members \in Members
        BY <1>0, <2>1 DEF TypeOK, Team, Members
      <4>2. Append(teams[r.team].members, r.user) \in Members
        BY <2>1, <3>2, <4>1, OneMore DEF Member
      <4>3. [teams[r.team] EXCEPT !.members = Append(@, r.user)] \in Team
        BY <4>1, <4>2 DEF Team, Members
      <4> QED
        BY <1>0, <2>1, <3>2, <4>3 DEF TypeOK
    <3> QED
      BY <2>8, <3>1, <3>2
  <2> QED
    BY <1>0, <2>2, <2>4, <2>5, <2>7, <2>9 DEF TypeInv, TypeOK
<1> QED
  BY <1>1, <1>2, <1>3, <1>4, <1>5, <1>6, <1>7

LEMMA StepTypeInv == TypeInv /\ [Next]_vars => TypeInv'
<1> SUFFICES ASSUME TypeInv, [Next]_vars PROVE TypeInv'
  OBVIOUS
<1>1. ASSUME NEW h \in Handlers,
             \/ CreateTeam(h) \/ DeleteTeam(h) \/ DeleteMe(h) \/ NextTeam(h) \/ Leave(h)
             \/ LeaveNext(h) \/ RemoveMember(h) \/ RemoveLock(h) \/ Rotate(h) \/ Accept(h)
      PROVE  TypeInv'
  BY <1>1, ReadTypeInv
<1>2. ASSUME NEW h \in Handlers,
             \/ CreateTeamStore(h) \/ DeleteTeamStore(h) \/ LeaveStore(h) \/ InviteEmail(h)
             \/ Close(h) \/ RotateStore(h) \/ AcceptStore(h)
      PROVE  TypeInv'
  BY <1>2, WriteTypeInv
<1>3. CASE UNCHANGED vars
  BY <1>3 DEF TypeInv, TypeOK, ThreadsNamed, vars
<1> QED
  BY <1>1, <1>2, <1>3 DEF Next

(* Every reachable state has the types of the tables and the threads.      *)
THEOREM TypeCorrect == Spec => []TypeOK
<1>1. TypeInv => TypeOK
  BY DEF TypeInv
<1> QED
  BY <1>1, InitTypeInv, StepTypeInv, PTL DEF Spec

-----------------------------------------------------------------------------
(* What was decided under a lock stays right until the commit.             *)

(* An edit holds as long as nobody writes its team.                        *)
LEMMA SameTeam ==
    ASSUME NEW e \in Edit, teams'[e.team] = teams[e.team], EditHolds(e)
    PROVE  EditHolds(e)'
  BY DEF EditHolds, Exists, Leaving, Leads, Member, Rest

(* A thread without a transaction goes on.                                 *)
LEMMA EditsOfOthers ==
    ASSUME TypeInv, EditsHold, NEW h \in Handlers, NEW state \in HandlerState,
           Goes(h, state), state.edits = {},
           \A g \in Handlers \ {h} : \A e \in handlers[g].edits :
              teams'[e.team] = teams[e.team]
    PROVE  EditsHold'
<1>1. /\ handlers'[h] = state
      /\ \A g \in Handlers : g # h => handlers'[g] = handlers[g]
      /\ \A g \in Handlers : handlers[g].edits \subseteq Edit
  BY DEF Goes, TypeInv, TypeOK, HandlerState
<1>2. ASSUME NEW g \in Handlers, NEW e \in handlers'[g].edits
      PROVE  handlers'[g].pc \in {"next", "lock"} /\ EditHolds(e)'
  <2>1. g # h /\ e \in handlers[g].edits /\ handlers'[g] = handlers[g]
    BY <1>1, <1>2
  <2>2. e \in Edit /\ EditHolds(e) /\ teams'[e.team] = teams[e.team]
    BY <1>1, <2>1 DEF EditsHold
  <2>3. EditHolds(e)'
    BY <2>2, SameTeam
  <2> QED
    BY <2>1, <2>3 DEF EditsHold
<1>3. \A f, g \in Handlers : f # g =>
          \A e \in handlers'[f].edits : ~ \E d \in handlers'[g].edits : d.team = e.team
  BY <1>1 DEF EditsHold
<1> QED
  BY <1>2, <1>3 DEF EditsHold

(* No thread goes on.                                                      *)
LEMMA EditsOfAll ==
    ASSUME TypeInv, EditsHold, UNCHANGED handlers,
           \A g \in Handlers : \A e \in handlers[g].edits : teams'[e.team] = teams[e.team]
    PROVE  EditsHold'
<1>1. ASSUME NEW g \in Handlers, NEW e \in handlers[g].edits
      PROVE  EditHolds(e)'
  <2>1. e \in Edit /\ EditHolds(e) /\ teams'[e.team] = teams[e.team]
    BY <1>1 DEF EditsHold, TypeInv, TypeOK, HandlerState
  <2> QED
    BY <2>1, SameTeam
<1> QED
  BY <1>1 DEF EditsHold

LEMMA LeavingNames ==
    ASSUME NEW t, NEW u
    PROVE  Leaving(t, u).team = t /\ Leaving(t, u).drop = u
<1>1. \/ ~Member(t, u)
      \/ Member(t, u) /\ teams[t].leader # u
      \/ Leads(t, u) /\ Rest(t, u) = <<>>
      \/ Leads(t, u) /\ Rest(t, u) # <<>>
  BY DEF Leads
<1> QED
  BY <1>1 DEF Leaving, Kept

(* leave_or_succeed decides of the team it has locked.                     *)
LEMMA LeavingHolds ==
    ASSUME NEW t \in Teams, NEW u \in Users, Exists(t)
    PROVE  EditHolds(Leaving(t, u))
<1> DEFINE e == Leaving(t, u)
<1>1. e.team = t /\ e.drop = u
  BY LeavingNames
<1> HIDE DEF e
<1>2. e = Leaving(e.team, e.drop)
  BY <1>1 DEF e
<1>3. EditHolds(e)
  BY <1>1, <1>2 DEF EditHolds
<1> QED
  BY <1>3 DEF e

(* A thread flushes an edit of a team whose row it has locked.             *)
LEMMA EditAdded ==
    ASSUME TypeInv, LeaderInv, UNCHANGED teams, NEW h \in Handlers,
           NEW state \in HandlerState, Goes(h, state), state.pc \in {"next", "lock"},
           NEW t \in Teams, NEW u \in Users, Exists(t), Free(h, t),
           state.edits \subseteq handlers[h].edits \cup {Leaving(t, u)}
    PROVE  EditsHold'
<1>1. /\ handlers'[h] = state
      /\ \A g \in Handlers : g # h => handlers'[g] = handlers[g]
      /\ \A g \in Handlers : handlers[g].edits \subseteq Edit
  BY DEF Goes, TypeInv, TypeOK, HandlerState
<1>2. Leaving(t, u) \in Edit /\ Leaving(t, u).team = t /\ EditHolds(Leaving(t, u))
  BY LeavingTypes, LeavingHolds DEF TypeInv
<1>3. ASSUME NEW g \in Handlers, NEW e \in handlers'[g].edits
      PROVE  handlers'[g].pc \in {"next", "lock"} /\ EditHolds(e)'
  <2>1. e \in handlers[g].edits \/ (g = h /\ e = Leaving(t, u))
    BY <1>1, <1>3
  <2>2. e \in Edit /\ EditHolds(e)
    BY <1>1, <1>2, <2>1 DEF LeaderInv, EditsHold
  <2>3. EditHolds(e)'
    BY <2>2, SameTeam
  <2>4. handlers'[g].pc \in {"next", "lock"}
    BY <1>1, <2>1 DEF LeaderInv, EditsHold
  <2> QED
    BY <2>3, <2>4
<1>4. \A g \in Handlers \ {h} : \A e \in handlers[g].edits : e.team # t
  BY DEF Free, Locked
<1>5. ASSUME NEW f \in Handlers, NEW g \in Handlers, f # g,
             NEW e \in handlers'[f].edits, NEW d \in handlers'[g].edits
      PROVE  d.team # e.team
  <2>1. CASE e \in handlers[f].edits /\ d \in handlers[g].edits
    BY <1>5, <2>1 DEF LeaderInv, EditsHold
  <2>2. CASE f = h /\ e = Leaving(t, u) /\ d \in handlers[g].edits
    BY <1>2, <1>4, <1>5, <2>2
  <2>3. CASE g = h /\ d = Leaving(t, u) /\ e \in handlers[f].edits
    BY <1>2, <1>4, <1>5, <2>3
  <2> QED
    BY <1>1, <1>5, <2>1, <2>2, <2>3
<1> QED
  BY <1>3, <1>5 DEF EditsHold

LEMMA ReadLeaderInv ==
    ASSUME TypeInv, LeaderInv, NEW h \in Handlers,
           \/ CreateTeam(h) \/ DeleteTeam(h) \/ DeleteMe(h) \/ NextTeam(h) \/ Leave(h)
           \/ LeaveNext(h) \/ RemoveMember(h) \/ RemoveLock(h) \/ Rotate(h) \/ Accept(h)
    PROVE  LeaderInv'
<1>0. UNCHANGED teams /\ Active \subseteq Users
  BY DEF CreateTeam, DeleteTeam, DeleteMe, NextTeam, Leave, LeaveNext, RemoveMember, RemoveLock,
         Rotate, Accept, Active
<1>1. handlers' \in [Handlers -> HandlerState]
  BY ReadTypeInv DEF TypeInv, TypeOK
<1>2. LeaderIsMember'
  BY <1>0 DEF LeaderInv, LeaderIsMember, Exists, Member
<1>3. ASSUME NEW state, Goes(h, state), state.edits = {} PROVE EditsHold'
  <2>1. state \in HandlerState
    BY <1>1, <1>3 DEF Goes, TypeInv, TypeOK
  <2> QED
    BY <1>0, <1>3, <2>1, EditsOfOthers DEF LeaderInv
<1>4. ASSUME NEW state, Goes(h, state), state.pc \in {"next", "lock"},
             NEW t \in Teams, NEW u \in Users, Exists(t), Free(h, t),
             state.edits \subseteq handlers[h].edits \cup {Leaving(t, u)}
      PROVE  EditsHold'
  <2>1. state \in HandlerState
    BY <1>1, <1>4 DEF Goes, TypeInv, TypeOK
  <2> QED
    BY <1>0, <1>4, <2>1, EditAdded
<1>5. EditsHold'
  <2>1. CASE \/ CreateTeam(h) \/ DeleteTeam(h) \/ DeleteMe(h) \/ RemoveMember(h)
             \/ Rotate(h) \/ Accept(h)
    BY <1>3, <2>1, Starts
  <2>2. CASE NextTeam(h)
    <3>1. PICK t \in handlers[h].todo :
              Goes(h, [handlers[h] EXCEPT !.todo = @ \ {t},
                                          !.pc = IF Exists(t) THEN "lock" ELSE "next",
                                          !.team = t])
      BY <2>2 DEF NextTeam
    <3>2. /\ handlers'[h].edits = handlers[h].edits
          /\ handlers'[h].pc \in {"next", "lock"}
          /\ \A g \in Handlers : g # h => handlers'[g] = handlers[g]
          /\ handlers[h].edits \subseteq Edit
      BY <3>1 DEF Goes, TypeInv, TypeOK, HandlerState
    <3>3. ASSUME NEW g \in Handlers, NEW e \in handlers'[g].edits
          PROVE  handlers'[g].pc \in {"next", "lock"} /\ EditHolds(e)'
      <4>1. e \in handlers[g].edits /\ e \in Edit /\ EditHolds(e)
        BY <3>2 DEF LeaderInv, EditsHold, TypeInv, TypeOK, HandlerState
      <4> QED
        BY <1>0, <3>2, <4>1, SameTeam DEF LeaderInv, EditsHold
    <3>4. \A f, g \in Handlers : f # g =>
              \A e \in handlers'[f].edits : ~ \E d \in handlers'[g].edits : d.team = e.team
      BY <3>2 DEF LeaderInv, EditsHold
    <3> QED
      BY <3>3, <3>4 DEF EditsHold
  <2>3. CASE Leave(h)
    <3>1. PICK t \in Teams : \E u \in Users :
              /\ Exists(t) /\ Free(h, t)
              /\ Goes(h, [Idle EXCEPT !.pc = "next", !.user = u, !.edits = {Leaving(t, u)}])
      BY <1>0, <2>3 DEF Leave
    <3>2. PICK u \in Users :
              /\ Exists(t) /\ Free(h, t)
              /\ Goes(h, [Idle EXCEPT !.pc = "next", !.user = u, !.edits = {Leaving(t, u)}])
      BY <3>1
    <3> DEFINE new == [Idle EXCEPT !.pc = "next", !.user = u, !.edits = {Leaving(t, u)}]
    <3>3. new.pc = "next" /\ new.edits = {Leaving(t, u)}
      BY DEF Idle
    <3>4. Goes(h, new)
      BY <3>2
    <3> HIDE DEF new
    <3> QED
      BY <1>4, <3>2, <3>3, <3>4
  <2>4. CASE LeaveNext(h)
    <3> DEFINE r   == handlers[h]
               new == [r EXCEPT !.pc = "next", !.edits = @ \cup {Leaving(r.team, r.user)}]
    <3>1. r.team \in Teams /\ r.user \in Users /\ r \in HandlerState /\ Free(h, r.team)
      BY <2>4 DEF LeaveNext, TypeInv, ThreadsNamed, TypeOK
    <3>2. new.pc = "next" /\ new.edits = r.edits \cup {Leaving(r.team, r.user)}
      BY <3>1 DEF HandlerState
    <3>3. Idle.edits = {}
      BY DEF Idle
    <3>4. (Exists(r.team) /\ Goes(h, new)) \/ Goes(h, Idle)
      BY <2>4 DEF LeaveNext
    <3> HIDE DEF new
    <3> QED
      BY <1>3, <1>4, <3>1, <3>2, <3>3, <3>4
  <2>5. CASE RemoveLock(h)
    <3> DEFINE r   == handlers[h]
               new == [r EXCEPT !.pc = "next", !.edits = {Leaving(r.team, r.user)}]
    <3>1. r.team \in Teams /\ r.user \in Users /\ r \in HandlerState /\ Free(h, r.team)
      BY <2>5 DEF RemoveLock, TypeInv, ThreadsNamed, TypeOK
    <3>2. new.pc = "next" /\ new.edits = {Leaving(r.team, r.user)}
      BY <3>1 DEF HandlerState
    <3>3. Idle.edits = {}
      BY DEF Idle
    <3>4. (Exists(r.team) /\ Goes(h, new)) \/ Goes(h, Idle)
      BY <2>5 DEF RemoveLock
    <3> HIDE DEF new
    <3> QED
      BY <1>3, <1>4, <3>1, <3>2, <3>3, <3>4
  <2> QED
    BY <2>1, <2>2, <2>3, <2>4, <2>5
<1> QED
  BY <1>2, <1>5 DEF LeaderInv

(* What an edit that holds makes of its team: who drops out is a member no *)
(* more, the last member takes the team along, and a leader who drops out  *)
(* is succeeded by the senior of those who stay.                           *)
LEMMA EditedTeam ==
    ASSUME TypeInv, NEW t \in Teams, NEW e \in Edit, e.team = t, EditHolds(e)
    PROVE  /\ Range(Edited(t, e).members) = Range(teams[t].members) \ {e.drop}
           /\ Edited(t, e).row # "row" =>
                  Edited(t, e) = GoneTeam /\ Len(teams[t].members) = 1
           /\ Edited(t, e).row = "row" =>
                  \/ Edited(t, e).leader = teams[t].leader
                     /\ (e.drop = teams[t].leader => e.kind = "none")
                  \/ /\ e.drop = teams[t].leader
                     /\ Rest(t, teams[t].leader) # <<>>
                     /\ Edited(t, e).leader = Head(Rest(t, teams[t].leader))
<1> DEFINE u   == e.drop
           new == [teams[t] EXCEPT !.members = Rest(t, u),
                                   !.leader = IF e.kind = "succeed" THEN e.leader ELSE @]
<1>1. /\ teams[t] \in Team /\ teams[t].members \in Members
      /\ Exists(t) /\ teams[t].row = "row" /\ u \in Users
      /\ e = Leaving(t, u)
  BY DEF TypeInv, TypeOK, Team, Members, EditHolds, Exists, Edit
<1>2. Rest(t, u) \in Members /\ Range(Rest(t, u)) = Range(teams[t].members) \ {u}
  BY <1>1, WithoutOne DEF Rest
<1>3. /\ new.members = Rest(t, u) /\ new.row = "row"
      /\ new.leader = IF e.kind = "succeed" THEN e.leader ELSE teams[t].leader
  BY <1>1 DEF Team
<1> HIDE DEF new
<1>4. CASE ~Member(t, u)
  <2>1. e.kind = "none"
    BY <1>1, <1>4 DEF Leaving, Leads, Kept
  <2>2. Edited(t, e) = teams[t]
    BY <2>1 DEF Edited
  <2>3. Range(teams[t].members) = Range(teams[t].members) \ {u}
    BY <1>4 DEF Member
  <2> QED
    BY <1>1, <2>1, <2>2, <2>3
<1>5. CASE Member(t, u) /\ teams[t].leader # u
  <2>1. e.kind = "drop"
    BY <1>1, <1>5 DEF Leaving, Leads, Kept
  <2>2. Edited(t, e) = new
    BY <1>1, <2>1 DEF Edited, new
  <2> QED
    BY <1>2, <1>3, <1>5, <2>1, <2>2
<1>6. CASE Member(t, u) /\ teams[t].leader = u /\ Rest(t, u) = <<>>
  <2>1. e.kind = "delete"
    BY <1>1, <1>6 DEF Leaving, Leads, Kept
  <2>2. Edited(t, e) = GoneTeam
    BY <1>1, <2>1 DEF Edited
  <2>3. Range(<<>>) = {}
    BY DEF Range
  <2>4. Len(teams[t].members) = 1
    BY <1>1, <1>2, <1>6, <2>3, LoneMember DEF Member
  <2> QED
    BY <1>2, <1>6, <2>2, <2>3, <2>4 DEF GoneTeam
<1>7. CASE Member(t, u) /\ teams[t].leader = u /\ Rest(t, u) # <<>>
  <2>1. e.kind = "succeed" /\ e.leader = Head(Rest(t, u))
    BY <1>1, <1>7 DEF Leaving, Leads, Kept, Successor
  <2>2. Edited(t, e) = new
    BY <1>1, <2>1 DEF Edited, new
  <2> QED
    BY <1>2, <1>3, <1>7, <2>1, <2>2
<1> QED
  BY <1>4, <1>5, <1>6, <1>7

(* An edit that holds leaves the team to a member, or to nobody.           *)
LEMMA EditedLed ==
    ASSUME TypeInv, LeaderIsMember, NEW t \in Teams, NEW e \in Edit, e.team = t, EditHolds(e)
    PROVE  Edited(t, e).row = "row" => Edited(t, e).leader \in Range(Edited(t, e).members)
<1> SUFFICES ASSUME Edited(t, e).row = "row"
             PROVE  Edited(t, e).leader \in Range(Edited(t, e).members)
  OBVIOUS
<1>1. /\ teams[t].members \in Members /\ Exists(t)
      /\ teams[t].leader \in Range(teams[t].members) /\ teams[t].leader \in Users
  <2>1. teams[t].members \in Members /\ Exists(t)
    BY DEF TypeInv, TypeOK, Team, Members, EditHolds
  <2>2. teams[t].leader \in Range(teams[t].members)
    BY <2>1 DEF LeaderIsMember, Member
  <2> QED
    BY <2>1, <2>2 DEF Members, Range
<1>2. CASE Edited(t, e).leader = teams[t].leader /\ e.drop # teams[t].leader
  BY <1>1, <1>2, EditedTeam
<1>3. CASE e.kind = "none"
  BY <1>1, <1>3 DEF Edited
<1>4. CASE /\ e.drop = teams[t].leader /\ Rest(t, teams[t].leader) # <<>>
           /\ Edited(t, e).leader = Head(Rest(t, teams[t].leader))
  <2>1. /\ Rest(t, e.drop) \in Members
        /\ Range(Rest(t, e.drop)) = Range(teams[t].members) \ {e.drop}
    BY <1>1, <1>4, WithoutOne DEF Rest
  <2>2. Edited(t, e).leader \in Range(Rest(t, e.drop))
    BY <1>4, <2>1, HeadStays
  <2> QED
    BY <2>1, <2>2, EditedTeam
<1> QED
  BY <1>2, <1>3, <1>4, EditedTeam

LEMMA WriteLeaderInv ==
    ASSUME TypeInv, LeaderInv, NEW h \in Handlers,
           \/ CreateTeamStore(h) \/ DeleteTeamStore(h) \/ LeaveStore(h) \/ InviteEmail(h)
           \/ Close(h) \/ RotateStore(h) \/ AcceptStore(h)
    PROVE  LeaderInv'
<1>0. /\ Idle \in HandlerState /\ Idle.edits = {}
      /\ EditsHold /\ LeaderIsMember
      /\ \A g \in Handlers : handlers[g].edits \subseteq Edit
      /\ teams \in [Teams -> Team] /\ Active \subseteq Users
  BY StatusTypes DEF Idle, LeaderInv, TypeInv, TypeOK, HandlerState, Active
<1>1. CASE CreateTeamStore(h)
  <2>1. PICK u \in Users, t \in Teams :
            /\ teams[t] = NoTeam
            /\ teams' = [teams EXCEPT ![t] = [row |-> "row", leader |-> u,
                                               members |-> <<u>>]]
    BY <1>1 DEF CreateTeamStore, TypeInv, ThreadsNamed
  <2>2. \A g \in Handlers : \A e \in handlers[g].edits : teams'[e.team] = teams[e.team]
    BY <1>0, <2>1 DEF EditsHold, EditHolds, Exists, NoTeam
  <2>3. EditsHold'
    BY <1>0, <1>1, <2>2, EditsOfOthers DEF CreateTeamStore
  <2>4. LeaderIsMember'
    BY <1>0, <2>1, StatusTypes DEF LeaderIsMember, Exists, Member
  <2> QED
    BY <2>3, <2>4 DEF LeaderInv
<1>2. CASE DeleteTeamStore(h)
  <2> DEFINE t == handlers[h].team
  <2>1. /\ ~Locked(h, t) /\ Goes(h, Idle)
        /\ teams' = [teams EXCEPT ![t] = IF Exists(t) THEN GoneTeam ELSE @]
    BY <1>2 DEF DeleteTeamStore
  <2>2. \A g \in Handlers \ {h} : \A e \in handlers[g].edits : teams'[e.team] = teams[e.team]
    BY <1>0, <2>1 DEF Locked, Edit
  <2>3. EditsHold'
    BY <1>0, <2>1, <2>2, EditsOfOthers
  <2>4. LeaderIsMember'
    BY <1>0, <2>1 DEF LeaderIsMember, Exists, Member, GoneTeam
  <2> QED
    BY <2>3, <2>4 DEF LeaderInv
<1>3. CASE LeaveStore(h)
  <2> DEFINE Of(t) == {e \in handlers[h].edits : e.team = t}
  <2>1. /\ Goes(h, Idle)
        /\ teams' = [t \in Teams |-> IF Of(t) = {} THEN teams[t]
                                      ELSE Edited(t, CHOOSE e \in Of(t) : TRUE)]
    BY <1>3 DEF LeaveStore
  <2>2. ASSUME NEW g \in Handlers \ {h}, NEW e \in handlers[g].edits
        PROVE  teams'[e.team] = teams[e.team]
    <3>1. e.team \in Teams /\ Of(e.team) = {}
      BY <1>0 DEF EditsHold, Edit
    <3> QED
      BY <2>1, <3>1
  <2>3. EditsHold'
    BY <1>0, <2>1, <2>2, EditsOfOthers
  <2>4. ASSUME NEW t \in Teams, Exists(t)' PROVE Member(t, teams[t].leader)'
    <3>1. CASE Of(t) = {}
      BY <1>0, <2>1, <2>4, <3>1 DEF LeaderIsMember, Exists, Member
    <3>2. CASE Of(t) # {}
      <4> DEFINE e == CHOOSE d \in Of(t) : TRUE
      <4>1. e \in Of(t)
        BY <3>2
      <4>2. teams'[t] = Edited(t, e)
        BY <2>1, <3>2
      <4> HIDE DEF e
      <4>3. e \in Edit /\ e.team = t /\ EditHolds(e)
        BY <1>0, <4>1 DEF EditsHold
      <4> QED
        BY <1>0, <2>4, <4>2, <4>3, EditedLed DEF Exists, Member
    <3> QED
      BY <3>1, <3>2
  <2> QED
    BY <2>3, <2>4 DEF LeaderInv, LeaderIsMember
<1>4. CASE InviteEmail(h) \/ Close(h)
  <2>1. UNCHANGED <<teams, handlers>>
    BY <1>4 DEF InviteEmail, Close
  <2>2. EditsHold'
    BY <1>0, <2>1, EditsOfAll
  <2> QED
    BY <1>0, <2>1, <2>2 DEF LeaderInv, LeaderIsMember, Exists, Member
<1>5. CASE RotateStore(h)
  <2>1. Goes(h, Idle) /\ UNCHANGED teams
    BY <1>5 DEF RotateStore
  <2>2. EditsHold'
    BY <1>0, <2>1, EditsOfOthers
  <2> QED
    BY <1>0, <2>1, <2>2 DEF LeaderInv, LeaderIsMember, Exists, Member
<1>6. CASE AcceptStore(h)
  <2> DEFINE r == handlers[h]
  <2>1. /\ Goes(h, Idle)
        /\ r.known \/ ~Locked(h, r.team)
        /\ \/ teams' = teams
           \/ /\ ~r.known /\ ~Member(r.team, r.user)
              /\ teams' = [teams EXCEPT ![r.team].members = Append(@, r.user)]
    BY <1>6 DEF AcceptStore, Insertable
  <2>2. r.team \in Teams /\ r.user \in Users
    BY <1>6 DEF AcceptStore, TypeInv, ThreadsNamed
  <2>3. \A g \in Handlers \ {h} : \A e \in handlers[g].edits : teams'[e.team] = teams[e.team]
    BY <1>0, <2>1, <2>2 DEF Locked, Edit
  <2>4. EditsHold'
    BY <1>0, <2>1, <2>3, EditsOfOthers
  <2>5. CASE teams' = teams
    BY <1>0, <2>4, <2>5 DEF LeaderInv, LeaderIsMember, Exists, Member
  <2>6. CASE /\ ~Member(r.team, r.user)
             /\ teams' = [teams EXCEPT ![r.team].members = Append(@, r.user)]
    <3>1. teams[r.team].members \in Members
      BY <1>0, <2>2 DEF Team, Members
    <3>2. Range(Append(teams[r.team].members, r.user))
            = Range(teams[r.team].members) \cup {r.user}
      BY <2>2, <2>6, <3>1, OneMore DEF Member
    <3>3. /\ teams'[r.team].row = teams[r.team].row
          /\ teams'[r.team].leader = teams[r.team].leader
          /\ teams'[r.team].members = Append(teams[r.team].members, r.user)
          /\ \A t \in Teams : t # r.team => teams'[t] = teams[t]
      BY <1>0, <2>2, <2>6 DEF Team
    <3>4. LeaderIsMember'
      BY <1>0, <2>2, <3>2, <3>3 DEF LeaderIsMember, Exists, Member
    <3> QED
      BY <2>4, <3>4 DEF LeaderInv
  <2> QED
    BY <2>1, <2>5, <2>6
<1> QED
  BY <1>1, <1>2, <1>3, <1>4, <1>5, <1>6

LEMMA InitLeaderInv == Init => LeaderInv
<1> SUFFICES ASSUME Init PROVE LeaderInv
  OBVIOUS
<1>1. \A h \in Handlers : handlers[h].edits = {}
  BY DEF Init, Idle
<1> QED
  BY <1>1 DEF Init, LeaderInv, EditsHold, LeaderIsMember, Exists, NoTeam

LEMMA StepLeaderInv == TypeInv /\ LeaderInv /\ [Next]_vars => LeaderInv'
<1> SUFFICES ASSUME TypeInv, LeaderInv, [Next]_vars PROVE LeaderInv'
  OBVIOUS
<1>1. ASSUME NEW h \in Handlers,
             \/ CreateTeam(h) \/ DeleteTeam(h) \/ DeleteMe(h) \/ NextTeam(h) \/ Leave(h)
             \/ LeaveNext(h) \/ RemoveMember(h) \/ RemoveLock(h) \/ Rotate(h) \/ Accept(h)
      PROVE  LeaderInv'
  BY <1>1, ReadLeaderInv
<1>2. ASSUME NEW h \in Handlers,
             \/ CreateTeamStore(h) \/ DeleteTeamStore(h) \/ LeaveStore(h) \/ InviteEmail(h)
             \/ Close(h) \/ RotateStore(h) \/ AcceptStore(h)
      PROVE  LeaderInv'
  BY <1>2, WriteLeaderInv
<1>3. CASE UNCHANGED vars
  BY <1>3 DEF LeaderInv, EditsHold, EditHolds, Leaving, Leads, LeaderIsMember, Exists,
              Member, Rest, vars
<1> QED
  BY <1>1, <1>2, <1>3 DEF Next

(* The leader of a team is a member of it, whatever leaves, removals,      *)
(* deletions of teams and of accounts, and joins meet: what was read under *)
(* the row lock is what the commit changes (team_membership.py,            *)
(* teams_leader_is_member_fk).                                             *)
THEOREM LeaderStaysMember == Spec => []LeaderIsMember
<1>1. LeaderInv => LeaderIsMember
  BY DEF LeaderInv
<1> QED
  BY <1>1, InitLeaderInv, StepLeaderInv, InitTypeInv, StepTypeInv, PTL DEF Spec

-----------------------------------------------------------------------------
(* How a team changes.                                                     *)

(* Somebody founds or joins team t.                                        *)
Joined(t, u) == u \in Users /\ ~Member(t, u) /\ Joins(u, t)

TeamStep(t) ==
    \/ teams'[t] = teams[t]
    \/ \E u \in Users : Joined(t, u) /\ ~Exists(t) /\ Exists(t)'
                         /\ Range(teams'[t].members) = {u}
    \/ \E h \in Handlers : Deletes(h, t) /\ Exists(t) /\ teams'[t] = GoneTeam
    \/ \E h \in Handlers : \E e \in handlers[h].edits :
          LeaveStore(h) /\ e.team = t /\ teams'[t] = Edited(t, e)
    \/ \E u \in Users : /\ Joined(t, u) /\ Exists(t) /\ Exists(t)'
                        /\ teams'[t].leader = teams[t].leader
                        /\ Range(teams'[t].members) = Range(teams[t].members) \cup {u}

LEMMA TeamsStep ==
    ASSUME TypeInv, [Next]_vars, NEW t \in Teams
    PROVE  TeamStep(t)
<1>0. /\ teams \in [Teams -> Team] /\ Active \subseteq Users
      /\ handlers \in [Handlers -> HandlerState]
  BY DEF TypeInv, TypeOK, Active
<1>1. ASSUME NEW h \in Handlers, CreateTeamStore(h) PROVE TeamStep(t)
  <2>1. PICK u \in Users, c \in Teams :
            /\ teams[c] = NoTeam /\ Joins(u, c)
            /\ teams' = [teams EXCEPT ![c] = [row |-> "row", leader |-> u,
                                               members |-> <<u>>]]
    BY <1>1 DEF CreateTeamStore, TypeInv, ThreadsNamed
  <2>2. CASE c # t
    BY <1>0, <2>1, <2>2 DEF TeamStep
  <2>3. CASE c = t
    <3>1. teams'[t].row = "row" /\ teams'[t].members = <<u>>
      BY <1>0, <2>1, <2>3
    <3>2. teams[t].row = "none" /\ teams[t].members = <<>>
      BY <2>1, <2>3 DEF NoTeam
    <3>3. u \notin Range(<<>>) /\ Range(<<u>>) = {u}
      BY StatusTypes DEF Range
    <3> QED
      BY <2>1, <2>3, <3>1, <3>2, <3>3 DEF TeamStep, Joined, Member, Exists
  <2> QED
    BY <2>2, <2>3
<1>2. ASSUME NEW h \in Handlers, DeleteTeamStore(h) PROVE TeamStep(t)
  <2>1. /\ handlers[h].pc = "delete" /\ handlers'[h] = Idle
        /\ teams' = [teams EXCEPT ![handlers[h].team] =
                        IF Exists(handlers[h].team) THEN GoneTeam ELSE @]
    BY <1>0, <1>2 DEF DeleteTeamStore, Goes
  <2> QED
    BY <1>0, <2>1 DEF TeamStep, Deletes
<1>3. ASSUME NEW h \in Handlers, LeaveStore(h) PROVE TeamStep(t)
  <2> DEFINE Of == {e \in handlers[h].edits : e.team = t}
  <2>1. teams'[t] = IF Of = {} THEN teams[t] ELSE Edited(t, CHOOSE e \in Of : TRUE)
    BY <1>3 DEF LeaveStore
  <2>2. CASE Of = {}
    BY <2>1, <2>2 DEF TeamStep
  <2>3. CASE Of # {}
    <3>1. (CHOOSE e \in Of : TRUE) \in Of
      BY <2>3
    <3> QED
      BY <1>3, <2>1, <2>3, <3>1 DEF TeamStep
  <2> QED
    BY <2>2, <2>3
<1>4. ASSUME NEW h \in Handlers, AcceptStore(h) PROVE TeamStep(t)
  <2> DEFINE r == handlers[h]
  <2>1. \/ teams' = teams
        \/ /\ Exists(r.team) /\ ~Member(r.team, r.user) /\ Joins(r.user, r.team)
           /\ teams' = [teams EXCEPT ![r.team].members = Append(@, r.user)]
    BY <1>4 DEF AcceptStore, Insertable
  <2>2. r.team \in Teams /\ r.user \in Users
    BY <1>4 DEF AcceptStore, TypeInv, ThreadsNamed
  <2>3. CASE teams' = teams \/ r.team # t
    BY <1>0, <2>1, <2>3 DEF TeamStep
  <2>4. CASE /\ Exists(t) /\ ~Member(t, r.user) /\ Joins(r.user, t) /\ r.team = t
             /\ teams' = [teams EXCEPT ![t].members = Append(@, r.user)]
    <3>1. teams[t].members \in Members
      BY <1>0 DEF Team, Members
    <3>2. Range(Append(teams[t].members, r.user)) = Range(teams[t].members) \cup {r.user}
      BY <2>2, <2>4, <3>1, OneMore DEF Member
    <3>3. /\ teams'[t].row = teams[t].row
          /\ teams'[t].leader = teams[t].leader
          /\ teams'[t].members = Append(teams[t].members, r.user)
      BY <1>0, <2>4 DEF Team
    <3> QED
      BY <2>2, <2>4, <3>2, <3>3 DEF TeamStep, Joined, Exists
  <2> QED
    BY <2>1, <2>3, <2>4
<1>5. CASE UNCHANGED teams
  BY <1>5 DEF TeamStep
<1> QED
  BY <1>1, <1>2, <1>3, <1>4, <1>5
     DEF Next, CreateTeam, DeleteTeam, Leave, RemoveMember, RemoveLock, DeleteMe, NextTeam,
         LeaveNext, InviteEmail, Close, Rotate, RotateStore, Accept, vars

(* The edits of a commit hold.                                             *)
LEMMA CommittedHolds ==
    ASSUME TypeInv, EditsHold, NEW h \in Handlers, NEW e \in handlers[h].edits
    PROVE  e \in Edit /\ EditHolds(e)
  BY DEF TypeInv, TypeOK, HandlerState, EditsHold

(* A leader is followed by the member who joined first of those who stay,  *)
(* as they are at the commit, and a team disappears with its last member   *)
(* or because its leader deletes it: the lock keeps whoever else leaves,   *)
(* joins or is removed from changing what leave_or_succeed decided.        *)
THEOREM LeadersSucceeded == Spec => Succession
<1> DEFINE Rules == \A t \in Teams : Exists(t) =>
              /\ Exists(t)' /\ teams'[t].leader # teams[t].leader =>
                    LET rest == Rest(t, teams[t].leader) IN
                    rest # <<>> /\ teams'[t].leader = Head(rest)
              /\ ~Exists(t)' /\ (\A h \in Handlers : ~Deletes(h, t)) =>
                    Len(teams[t].members) = 1
<1>1. TypeInv /\ LeaderInv /\ [Next]_vars => Rules
  <2> SUFFICES ASSUME TypeInv, EditsHold, [Next]_vars, NEW t \in Teams, Exists(t)
               PROVE  /\ Exists(t)' /\ teams'[t].leader # teams[t].leader =>
                            /\ Rest(t, teams[t].leader) # <<>>
                            /\ teams'[t].leader = Head(Rest(t, teams[t].leader))
                      /\ ~Exists(t)' /\ (\A h \in Handlers : ~Deletes(h, t)) =>
                            Len(teams[t].members) = 1
    BY DEF LeaderInv
  <2>1. CASE teams'[t] = teams[t]
    BY <2>1 DEF Exists
  <2>2. ASSUME NEW h \in Handlers, Deletes(h, t), teams'[t] = GoneTeam
        PROVE  ~Exists(t)'
    BY <2>2 DEF Exists, GoneTeam
  <2>3. ASSUME NEW h \in Handlers, NEW e \in handlers[h].edits, e.team = t,
               teams'[t] = Edited(t, e)
        PROVE  /\ Exists(t)' /\ teams'[t].leader # teams[t].leader =>
                     /\ Rest(t, teams[t].leader) # <<>>
                     /\ teams'[t].leader = Head(Rest(t, teams[t].leader))
               /\ ~Exists(t)' => Len(teams[t].members) = 1
    BY <2>3, CommittedHolds, EditedTeam DEF Exists
  <2> QED
    BY <2>1, <2>2, <2>3, TeamsStep DEF TeamStep
<1>2. Init => TypeInv /\ LeaderInv
  BY InitTypeInv, InitLeaderInv
<1>3. TypeInv /\ LeaderInv /\ [Next]_vars => (TypeInv /\ LeaderInv)'
  BY StepTypeInv, StepLeaderInv
<1> QED
  BY <1>1, <1>2, <1>3, PTL DEF Spec, Succession

-----------------------------------------------------------------------------
(* A deleted account is in no team.                                        *)

(* The account of u is deleted, or being deleted.                          *)
Closing(u) ==
    u \in deleted \/ \E g \in Handlers : handlers[g].account /\ handlers[g].user = u

(* Memberships only grow by somebody who joins, and a join during or after *)
(* the deletion of the account is recorded.                                *)
LEMMA MembersStep ==
    ASSUME TypeInv, EditsHold, AccountInv, [Next]_vars, NEW t \in Teams
    PROVE  /\ late \subseteq late'
           /\ ~Exists(t)' => teams'[t].members = <<>>
           /\ \A u \in Users : Member(t, u)' =>
                 Member(t, u) \/ (Closing(u) => <<u, t>> \in late')
<1>1. late \subseteq late'
  BY DEF Next, CreateTeam, CreateTeamStore, DeleteTeam, DeleteTeamStore, Leave, RemoveMember,
         RemoveLock, DeleteMe, NextTeam, LeaveNext, LeaveStore, InviteEmail, Close, Rotate,
         RotateStore, Accept, AcceptStore, Joins, vars
<1>2. CASE teams'[t] = teams[t]
  BY <1>1, <1>2 DEF AccountInv, Exists, Member
<1>3. CASE teams'[t] = GoneTeam
  <2>1. Range(<<>>) = {}
    BY DEF Range
  <2> QED
    BY <1>1, <1>3, <2>1 DEF GoneTeam, Member
<1>4. ASSUME NEW h \in Handlers, NEW e \in handlers[h].edits, e.team = t,
             teams'[t] = Edited(t, e)
      PROVE  /\ ~Exists(t)' => teams'[t].members = <<>>
             /\ \A u \in Users : Member(t, u)' => Member(t, u)
  BY <1>4, CommittedHolds, EditedTeam DEF Exists, Member, GoneTeam
<1>5. ASSUME NEW v \in Users, Joined(t, v), Exists(t)',
             Range(teams'[t].members) \subseteq Range(teams[t].members) \cup {v}
      PROVE  \A u \in Users : Member(t, u)' =>
                 Member(t, u) \/ (Closing(u) => <<u, t>> \in late')
  BY <1>5 DEF Joined, Joins, Member, Closing
<1> QED
  BY <1>1, <1>2, <1>3, <1>4, <1>5, TeamsStep DEF TeamStep

(* What LeaveStore leaves of the teams of the account it deletes.          *)
LEMMA AccountLeft ==
    ASSUME TypeInv, EditsHold, AccountInv, [Next]_vars, NEW h \in Handlers, LeaveStore(h),
           handlers[h].account, NEW t \in Teams, NEW u \in Users, u = handlers[h].user,
           Member(t, u)'
    PROVE  <<u, t>> \in late'
<1> DEFINE r == handlers[h]
           Of == {e \in r.edits : e.team = t}
<1>1. /\ r.pc = "next" /\ r.todo = {}
      /\ teams'[t] = IF Of = {} THEN teams[t] ELSE Edited(t, CHOOSE e \in Of : TRUE)
      /\ late' = late
  BY DEF LeaveStore
<1>2. CASE Of = {}
  <2>1. Member(t, u)
    BY <1>1, <1>2 DEF Member
  <2> QED
    BY <1>1, <1>2, <2>1 DEF AccountInv, StillLeaves
<1>3. CASE Of # {}
  <2> DEFINE e == CHOOSE d \in Of : TRUE
  <2>1. e \in Of /\ teams'[t] = Edited(t, e)
    BY <1>1, <1>3
  <2> HIDE DEF e
  <2>2. e \in Edit /\ EditHolds(e) /\ e.team = t /\ e.drop = u
    BY <2>1, CommittedHolds DEF AccountInv
  <2>3. Range(teams'[t].members) = Range(teams[t].members) \ {u}
    BY <2>1, <2>2, EditedTeam
  <2> QED
    BY <2>3 DEF Member
<1> QED
  BY <1>2, <1>3

(* How a deletion of an account goes on.                                   *)
LEMMA AccountGoes ==
    ASSUME TypeInv, AccountInv, [Next]_vars, NEW h \in Handlers, handlers'[h].account
    PROVE  \/ handlers'[h] = handlers[h]
           \/ DeleteMe(h)
           \/ handlers[h].account /\ (NextTeam(h) \/ LeaveNext(h))
<1>0. handlers \in [Handlers -> HandlerState] /\ ~Idle.account
  BY DEF TypeInv, TypeOK, Idle
<1>1. ASSUME NEW g \in Handlers \ {h}, NEW state, Goes(g, state)
      PROVE  handlers'[h] = handlers[h]
  BY <1>0, <1>1 DEF Goes
<1>2. ASSUME NEW state, Goes(h, state) PROVE state.account
  BY <1>0, <1>2 DEF Goes
<1>3. ~CreateTeam(h) /\ ~DeleteTeam(h) /\ ~RemoveMember(h)
  <2>0. CreateTeam(h) => ~handlers'[h].account
    BY <1>0 DEF CreateTeam, Goes, Idle
  <2>1. DeleteTeam(h) => ~handlers'[h].account
    BY <1>0 DEF DeleteTeam, Goes, Idle
  <2>2. RemoveMember(h) => ~handlers'[h].account
    BY <1>0 DEF RemoveMember, Goes, Idle
  <2> QED
    BY <2>0, <2>1, <2>2
<1>4. ~Rotate(h) /\ ~Accept(h) /\ ~Leave(h)
  <2>1. Rotate(h) => ~handlers'[h].account
    BY <1>0 DEF Rotate, Goes, Idle
  <2>2. Accept(h) => ~handlers'[h].account
    BY <1>0 DEF Accept, Goes, Idle
  <2>3. Leave(h) => ~handlers'[h].account
    BY <1>0 DEF Leave, Goes, Idle
  <2> QED
    BY <2>1, <2>2, <2>3
<1>5. ~RemoveLock(h)
  <2> SUFFICES ASSUME RemoveLock(h) PROVE FALSE
    OBVIOUS
  <2> DEFINE new == [handlers[h] EXCEPT !.pc = "next",
                                        !.edits = {Leaving(handlers[h].team, handlers[h].user)}]
  <2>1. handlers[h].pc = "remove" /\ (Goes(h, new) \/ Goes(h, Idle))
    BY DEF RemoveLock
  <2>2. new.account = handlers[h].account
    BY <1>0 DEF HandlerState
  <2> HIDE DEF new
  <2>3. new.account \/ Idle.account
    BY <1>2, <2>1
  <2> QED
    BY <1>0, <2>1, <2>2, <2>3 DEF AccountInv
<1>6. ~(\/ CreateTeamStore(h) \/ DeleteTeamStore(h) \/ LeaveStore(h) \/ RotateStore(h)
        \/ AcceptStore(h))
  BY <1>0, <1>2 DEF CreateTeamStore, DeleteTeamStore, LeaveStore, RotateStore, AcceptStore
<1>7. InviteEmail(h) \/ Close(h) => handlers'[h] = handlers[h]
  BY DEF InviteEmail, Close
<1>8. NextTeam(h) \/ LeaveNext(h) => handlers[h].account
  <2>1. CASE NextTeam(h)
    <3>1. PICK t : Goes(h, [handlers[h] EXCEPT !.todo = @ \ {t},
                                     !.pc = IF Exists(t) THEN "lock" ELSE "next",
                                     !.team = t])
      BY <2>1 DEF NextTeam
    <3>2. handlers'[h].account = handlers[h].account
      BY <1>0, <3>1 DEF Goes, HandlerState
    <3> QED
      BY <3>2
  <2>2. CASE LeaveNext(h)
    <3> DEFINE new == [handlers[h] EXCEPT !.pc = "next",
                          !.edits = @ \cup {Leaving(handlers[h].team, handlers[h].user)}]
    <3>1. Goes(h, new) \/ Goes(h, Idle)
      BY <2>2 DEF LeaveNext
    <3>2. new.account = handlers[h].account
      BY <1>0 DEF HandlerState
    <3> HIDE DEF new
    <3> QED
      BY <1>0, <1>2, <3>1, <3>2
  <2> QED
    BY <2>1, <2>2
<1>9. ASSUME NEW g \in Handlers \ {h},
             \/ CreateTeam(g) \/ CreateTeamStore(g) \/ DeleteTeam(g) \/ DeleteTeamStore(g)
             \/ Leave(g) \/ RemoveMember(g) \/ RemoveLock(g)
             \/ DeleteMe(g) \/ NextTeam(g) \/ LeaveNext(g) \/ LeaveStore(g)
             \/ InviteEmail(g) \/ Close(g) \/ Rotate(g) \/ RotateStore(g)
             \/ Accept(g) \/ AcceptStore(g)
      PROVE  handlers'[h] = handlers[h]
  <2>1. handlers' = handlers \/ \E state : Goes(g, state)
    BY <1>9 DEF CreateTeam, CreateTeamStore, DeleteTeam, DeleteTeamStore, Leave, RemoveMember,
         RemoveLock, DeleteMe, NextTeam, LeaveNext, LeaveStore, InviteEmail, Close, Rotate,
         RotateStore, Accept, AcceptStore
  <2> QED
    BY <1>1, <2>1
<1> QED
  BY <1>3, <1>4, <1>5, <1>6, <1>7, <1>8, <1>9 DEF Next, vars

LEMMA StepAccountInv ==
    TypeInv /\ LeaderInv /\ AccountInv /\ [Next]_vars => AccountInv'
<1> SUFFICES ASSUME TypeInv, EditsHold, AccountInv, [Next]_vars PROVE AccountInv'
  BY DEF LeaderInv
<1>0. /\ handlers \in [Handlers -> HandlerState] /\ teams \in [Teams -> Team]
      /\ deleted \subseteq Users
  BY DEF TypeInv, TypeOK
<1>1. \A t \in Teams : ~Exists(t)' => teams'[t].members = <<>>
  BY MembersStep
<1>3. late \subseteq late'
  BY DEF Next, CreateTeam, CreateTeamStore, DeleteTeam, DeleteTeamStore, Leave, RemoveMember,
         RemoveLock, DeleteMe, NextTeam, LeaveNext, LeaveStore, InviteEmail, Close, Rotate,
         RotateStore, Accept, AcceptStore, Joins, vars
<1> DEFINE Leaves(h) ==
             /\ handlers[h].pc \in {"next", "lock"}
             /\ \A e \in handlers[h].edits : e.drop = handlers[h].user
             /\ \A t \in Teams : Member(t, handlers[h].user) =>
                   StillLeaves(h, t) \/ <<handlers[h].user, t>> \in late
<1>4. ASSUME NEW h \in Handlers, handlers'[h].account PROVE Leaves(h)'
  <2>1. CASE handlers'[h] = handlers[h]
    <3> DEFINE u == handlers[h].user
    <3>1. Leaves(h) /\ handlers[h].account
      BY <1>4, <2>1 DEF AccountInv
    <3>2. u \in Users /\ Closing(u)
      BY <3>1 DEF TypeInv, ThreadsNamed, Closing
    <3>3. \A t \in Teams : StillLeaves(h, t) => StillLeaves(h, t)'
      BY <2>1 DEF StillLeaves
    <3>4. ASSUME NEW t \in Teams, u \in Range(teams'[t].members)
          PROVE  StillLeaves(h, t)' \/ <<u, t>> \in late'
      <4>1. CASE Member(t, u)
        BY <1>3, <3>1, <3>3, <4>1
      <4>2. CASE ~Member(t, u)
        <5>1. <<u, t>> \in late' \/ Member(t, u)
          BY <3>2, <3>4, MembersStep DEF Member
        <5> QED
          BY <4>2, <5>1
      <4> QED
        BY <4>1, <4>2
    <3> QED
      BY <2>1, <3>1, <3>4 DEF Member
  <2>2. CASE DeleteMe(h)
    <3>1. PICK u \in Active : Goes(h, [Idle EXCEPT !.pc = "next", !.user = u,
                                                   !.account = TRUE, !.todo = TeamsOf(u)])
      BY <2>2 DEF DeleteMe
    <3>2. /\ handlers'[h].pc = "next" /\ handlers'[h].user = u
          /\ handlers'[h].todo = TeamsOf(u) /\ handlers'[h].edits = {}
      BY <1>0, <3>1 DEF Goes, Idle
    <3>3. teams' = teams
      BY <2>2 DEF DeleteMe
    <3>4. Range(<<>>) = {}
      BY DEF Range
    <3>5. \A t \in Teams : Member(t, u) => t \in TeamsOf(u)
      BY <3>4 DEF AccountInv, TeamsOf, Member
    <3> QED
      BY <3>2, <3>3, <3>5 DEF StillLeaves, Member
  <2>3. CASE handlers[h].account /\ NextTeam(h)
    <3>1. PICK d \in handlers[h].todo :
              Goes(h, [handlers[h] EXCEPT !.todo = @ \ {d},
                                          !.pc = IF Exists(d) THEN "lock" ELSE "next",
                                          !.team = d])
      BY <2>3 DEF NextTeam
    <3>2. /\ handlers'[h].pc = IF Exists(d) THEN "lock" ELSE "next"
          /\ handlers'[h].todo = handlers[h].todo \ {d}
          /\ handlers'[h].team = d
          /\ handlers'[h].user = handlers[h].user
          /\ handlers'[h].edits = handlers[h].edits
      BY <1>0, <3>1 DEF Goes, HandlerState
    <3>3. Leaves(h) /\ handlers[h].pc = "next" /\ UNCHANGED <<teams, late>>
      BY <2>3 DEF AccountInv, NextTeam
    <3>4. Range(<<>>) = {}
      BY DEF Range
    <3>5. Member(d, handlers[h].user) => Exists(d)
      <4>1. d \in Teams
        BY <1>0 DEF HandlerState
      <4> QED
        BY <3>4, <4>1 DEF AccountInv, Member
    <3>6. ASSUME NEW t \in Teams, StillLeaves(h, t), Member(t, handlers[h].user)
          PROVE  StillLeaves(h, t)'
      BY <3>2, <3>3, <3>5, <3>6 DEF StillLeaves
    <3> QED
      BY <3>2, <3>3, <3>6 DEF Member
  <2>4. CASE handlers[h].account /\ LeaveNext(h)
    <3> DEFINE r   == handlers[h]
               e   == Leaving(r.team, r.user)
               new == [r EXCEPT !.pc = "next", !.edits = @ \cup {e}]
    <3>1. /\ new.pc = "next" /\ new.edits = r.edits \cup {e}
          /\ new.todo = r.todo /\ new.user = r.user
      BY <1>0 DEF HandlerState
    <3>2. e.team = r.team /\ e.drop = r.user
      BY LeavingNames
    <3>3. ~Idle.account
      BY DEF Idle
    <3>4. Goes(h, new) \/ Goes(h, Idle)
      BY <2>4 DEF LeaveNext
    <3> HIDE DEF new, e
    <3>5. handlers'[h] = new
      BY <1>0, <1>4, <3>3, <3>4 DEF Goes
    <3>6. Leaves(h) /\ r.pc = "lock" /\ UNCHANGED <<teams, late>>
      BY <2>4 DEF AccountInv, LeaveNext
    <3>7. ASSUME NEW t \in Teams, StillLeaves(h, t)
          PROVE  StillLeaves(h, t)'
      BY <3>1, <3>2, <3>5, <3>6, <3>7 DEF StillLeaves
    <3> QED
      BY <3>1, <3>2, <3>5, <3>6, <3>7 DEF Member
  <2> QED
    BY <1>4, <2>1, <2>2, <2>3, <2>4, AccountGoes
<1>5. DeletedLeft'
  <2> SUFFICES ASSUME NEW u \in deleted', NEW t \in Teams, Member(t, u)'
               PROVE  <<u, t>> \in late'
    BY DEF DeletedLeft
  <2>1. CASE u \in deleted
    BY <1>0, <1>3, <2>1, MembersStep DEF AccountInv, DeletedLeft, Closing
  <2>2. CASE u \notin deleted
    <3>1. PICK h \in Handlers : LeaveStore(h)
      BY <2>2 DEF Next, CreateTeam, CreateTeamStore, DeleteTeam, DeleteTeamStore, Leave,
            RemoveMember, RemoveLock, DeleteMe, NextTeam, LeaveNext, InviteEmail, Close, Rotate,
            RotateStore, Accept, AcceptStore, vars
    <3>2. handlers[h].account /\ handlers[h].user = u
      BY <2>2, <3>1 DEF LeaveStore
    <3>3. u \in Users
      BY <3>1, <3>2 DEF TypeInv, ThreadsNamed, LeaveStore
    <3> QED
      BY <3>1, <3>2, <3>3, AccountLeft
  <2> QED
    BY <2>1, <2>2
<1> QED
  BY <1>1, <1>4, <1>5 DEF AccountInv

(* A deletion of an account leaves every team: those listed at its start,  *)
(* in whatever state its commit finds them, are all the account was in,    *)
(* unless it joined or founded one while the deletion ran.                 *)
THEOREM DeletedAccountsLeave == Spec => []DeletedLeft
<1>1. Init => AccountInv
  <2> SUFFICES ASSUME Init PROVE AccountInv
    OBVIOUS
  <2>1. (\A h \in Handlers : ~handlers[h].account) /\ deleted = {}
    BY DEF Init, Idle
  <2> QED
    BY <2>1 DEF Init, AccountInv, DeletedLeft, NoTeam
<1>2. AccountInv => DeletedLeft
  BY DEF AccountInv
<1> QED
  BY <1>1, <1>2, InitTypeInv, StepTypeInv, InitLeaderInv, StepLeaderInv, StepAccountInv, PTL
     DEF Spec
=============================================================================
