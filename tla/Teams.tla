------------------------------- MODULE Teams --------------------------------
(***************************************************************************)
(* Teams, their members and their leader, the invitations that bring       *)
(* members in, and the ways out: leaving, being removed, deleting the team *)
(* and deleting the account (api/routes/teams.py, api/routes/invites.py,   *)
(* services/team_membership.py, the guards of api/deps.py and the first    *)
(* part of delete_me in api/routes/users.py).                              *)
(*                                                                         *)
(* leave_or_succeed and remove_member lock the row of the team FOR UPDATE  *)
(* and read on under the lock, until their commit. The insertion of a      *)
(* member waits for that lock too (its foreign key needs the row), and so  *)
(* does the deletion of the team. Everything else was read before.         *)
(***************************************************************************)
EXTENDS Naturals, Sequences, SequencesExt

CONSTANTS
    Handlers,    \* request threads
    Users,       \* accounts
    Teams,       \* teams that may be created
    None,        \* no user
    MaxInvites   \* bound: invitations created

ASSUME TeamsAssumption == None \notin Users /\ MaxInvites \in Nat

(* A row of teams with its rows of team_members, one for a user, in the    *)
(* order of joined_at.                                                     *)
Team == [row : {"none", "row", "gone"}, leader : Users \cup {None},
         members : {s \in Seq(Users) : IsInjective(s)}]

NoTeam   == [row |-> "none", leader |-> None, members |-> <<>>]
GoneTeam == [row |-> "gone", leader |-> None, members |-> <<>>]

(* Rows of team_email_invites and of team_invite_links. A pending invite   *)
(* and an active link are open; accepted, declined, canceled, revoked and  *)
(* cascaded ones are not, and none of them opens again.                    *)
Invite == [team : Teams, kind : {"email", "link"}, open : BOOLEAN]

(* What a transaction has flushed under the lock of a team.                *)
Edit == [team : Teams, kind : {"none", "drop", "succeed", "delete"},
         drop : Users, leader : Users \cup {None}]

HandlerState ==
    [pc      : {"idle", "create", "next", "lock", "remove", "delete", "accept", "rotate"},
     user    : Users \cup {None},
     team    : Teams \cup {None},
     todo    : SUBSET Teams,        \* teams a deleted account still has to leave
     edits   : SUBSET Edit,
     account : BOOLEAN,             \* DELETE /users/me
     invite  : 0 .. MaxInvites,
     known   : BOOLEAN]             \* it has found the user to be a member

Idle == [pc |-> "idle", user |-> None, team |-> None, todo |-> {}, edits |-> {},
         account |-> FALSE, invite |-> 0, known |-> FALSE]

VARIABLES
    teams,     \* rows of teams and of team_members
    invites,   \* rows of invitations, in order of creation
    deleted,   \* anonymised accounts
    handlers,  \* requests being served
    late       \* history: who joined what while the account was deleted

vars == <<teams, invites, deleted, handlers, late>>

TypeOK ==
    /\ teams \in [Teams -> Team]
    /\ invites \in Seq(Invite)
    /\ deleted \subseteq Users
    /\ handlers \in [Handlers -> HandlerState]
    /\ late \subseteq Users \X Teams

Init ==
    /\ teams = [t \in Teams |-> NoTeam]
    /\ invites = <<>>
    /\ deleted = {}
    /\ handlers = [h \in Handlers |-> Idle]
    /\ late = {}

Exists(t)    == teams[t].row = "row"
Member(t, u) == u \in Range(teams[t].members)
Leads(t, u)  == Member(t, u) /\ teams[t].leader = u

(* The members who stay when u goes.                                       *)
Without(s, u) ==
    IF u \in Range(s) THEN RemoveAt(s, CHOOSE i \in DOMAIN s : s[i] = u) ELSE s

Rest(t, u) == Without(teams[t].members, u)

Goes(h, state) == handlers' = [handlers EXCEPT ![h] = state]

(* get_current_user                                                        *)
Active == Users \ deleted

(* The row of t is locked by another transaction.                          *)
Locked(h, t) == \E g \in Handlers \ {h} : \E e \in handlers[g].edits : e.team = t

Joins(u, t) ==
    late' = IF u \in deleted \/ \E g \in Handlers : handlers[g].account /\ handlers[g].user = u
            THEN late \cup {<<u, t>>} ELSE late

-----------------------------------------------------------------------------
(* POST /teams by a user, who may be deleted meanwhile.                    *)
CreateTeam(h) ==
    /\ handlers[h] = Idle
    /\ \E u \in Active : Goes(h, [Idle EXCEPT !.pc = "create", !.user = u])
    /\ UNCHANGED <<teams, invites, deleted, late>>

(* The leader and the first member in one commit.                          *)
CreateTeamStore(h) ==
    LET u == handlers[h].user IN
    /\ handlers[h].pc = "create"
    /\ \E t \in Teams :
         /\ teams[t] = NoTeam
         /\ teams' = [teams EXCEPT ![t] = [row |-> "row", leader |-> u, members |-> <<u>>]]
         /\ Joins(u, t)
    /\ Goes(h, Idle)
    /\ UNCHANGED <<invites, deleted>>

(* DB CASCADE of the invitations.                                          *)
Cascade(gone) ==
    invites' = [i \in DOMAIN invites |->
                  [invites[i] EXCEPT !.open = @ /\ invites[i].team \notin gone]]

(* DELETE /teams/{id}: the leader is checked, and later the row deleted.   *)
DeleteTeam(h) ==
    /\ handlers[h] = Idle
    /\ \E u \in Active, t \in Teams :
         /\ Exists(t) /\ Leads(t, u)
         /\ Goes(h, [Idle EXCEPT !.pc = "delete", !.user = u, !.team = t])
    /\ UNCHANGED <<teams, invites, deleted, late>>

DeleteTeamStore(h) ==
    LET t == handlers[h].team IN
    /\ handlers[h].pc = "delete"
    /\ ~Locked(h, t)
    /\ teams' = [teams EXCEPT ![t] = IF Exists(t) THEN GoneTeam ELSE @]
    /\ Cascade({t})
    /\ Goes(h, Idle)
    /\ UNCHANGED <<deleted, late>>

-----------------------------------------------------------------------------
(* Ways out                                                                *)

(* Mutant: only the teams that a successor must lead.                      *)
TeamsOf_Led(u) == {t \in Teams : teams[t].leader = u}

TeamsOf(u) == {t \in Teams : Exists(t) /\ Member(t, u)}

(* DELETE /users/me lists the teams of the user.                           *)
DeleteMe(h) ==
    /\ handlers[h] = Idle
    /\ \E u \in Active :
         Goes(h, [Idle EXCEPT !.pc = "next", !.user = u, !.account = TRUE, !.todo = TeamsOf(u)])
    /\ UNCHANGED <<teams, invites, deleted, late>>

(* The next of them, unless it is gone by now.                             *)
NextTeam(h) ==
    /\ handlers[h].pc = "next"
    /\ \E t \in handlers[h].todo :
         Goes(h, [handlers[h] EXCEPT !.todo = @ \ {t},
                                     !.pc = IF Exists(t) THEN "lock" ELSE "next",
                                     !.team = t])
    /\ UNCHANGED <<teams, invites, deleted, late>>

Kept(t, u, kind, leader) == [team |-> t, kind |-> kind, drop |-> u, leader |-> leader]

(* Mutant: the last who joined.                                            *)
Successor_Newest(rest) == Last(rest)

(* The member who joined first of those who stay.                          *)
Successor(rest) == Head(rest)

(* leave_or_succeed: a member goes, a leader hands over or is the last.    *)
Leaving(t, u) ==
    CASE ~Member(t, u)                        -> Kept(t, u, "none", None)
      [] Member(t, u) /\ teams[t].leader # u  -> Kept(t, u, "drop", None)
      [] Leads(t, u) /\ Rest(t, u) = <<>>     -> Kept(t, u, "delete", None)
      [] Leads(t, u) /\ Rest(t, u) # <<>>     ->
             Kept(t, u, "succeed", Successor(Rest(t, u)))

(* Mutant: the refresh takes no lock.                                      *)
Free_NoLock(h, t) == TRUE

(* The row can be had: SELECT ... FOR UPDATE.                              *)
Free(h, t) == ~Locked(h, t)

(* POST /teams/{id}/leave by a member: db.refresh(team, with_for_update)   *)
(* and the reads under the lock.                                           *)
Leave(h) ==
    /\ handlers[h] = Idle
    /\ \E t \in Teams : \E u \in Active :
         /\ Exists(t) /\ Member(t, u)
         /\ Free(h, t)
         /\ Goes(h, [Idle EXCEPT !.pc = "next", !.user = u, !.edits = {Leaving(t, u)}])
    /\ UNCHANGED <<teams, invites, deleted, late>>

(* The same for a team of a deleted account; the refresh of a row that is  *)
(* gone is an error, and all is rolled back.                               *)
LeaveNext(h) ==
    LET r == handlers[h] IN
    /\ r.pc = "lock"
    /\ Free(h, r.team)
    /\ Goes(h, IF Exists(r.team)
               THEN [r EXCEPT !.pc = "next", !.edits = @ \cup {Leaving(r.team, r.user)}]
               ELSE Idle)
    /\ UNCHANGED <<teams, invites, deleted, late>>

(* DELETE /teams/{id}/members/{userId} by the leader.                      *)
RemoveMember(h) ==
    /\ handlers[h] = Idle
    /\ \E u \in Active, v \in Users, t \in Teams :
         /\ Exists(t) /\ Leads(t, u)
         /\ Goes(h, [Idle EXCEPT !.pc = "remove", !.user = v, !.team = t])
    /\ UNCHANGED <<teams, invites, deleted, late>>

(* CANNOT_REMOVE_LEADER and MEMBER_NOT_FOUND are decided under the lock.   *)
RemoveLock(h) ==
    LET r == handlers[h]
        t == r.team
    IN  /\ r.pc = "remove"
        /\ Free(h, t)
        /\ Goes(h, IF Exists(t) /\ Member(t, r.user) /\ r.user # teams[t].leader
                   THEN [r EXCEPT !.pc = "next", !.edits = {Leaving(t, r.user)}]
                   ELSE Idle)
        /\ UNCHANGED <<teams, invites, deleted, late>>

(* The row and the members of t after edit e.                              *)
Edited(t, e) ==
    CASE ~Exists(t) \/ e.kind = "none"    -> teams[t]
      [] Exists(t) /\ e.kind = "delete"   -> GoneTeam
      [] OTHER -> [teams[t] EXCEPT !.members = Rest(t, e.drop),
                                   !.leader = IF e.kind = "succeed" THEN e.leader ELSE @]

(* The commit of a leave, a removal or a deletion of the account.          *)
LeaveStore(h) ==
    LET r == handlers[h] IN
    /\ r.pc = "next" /\ r.todo = {}
    /\ teams' = [t \in Teams |->
                   LET es == {e \in r.edits : e.team = t} IN
                   IF es = {} THEN teams[t] ELSE Edited(t, CHOOSE e \in es : TRUE)]
    /\ Cascade({e.team : e \in {d \in r.edits : d.kind = "delete"}})
    /\ deleted' = IF r.account THEN deleted \cup {r.user} ELSE deleted
    /\ Goes(h, Idle)
    /\ UNCHANGED late

-----------------------------------------------------------------------------
(* Invitations                                                             *)

NewInvite(t, kind) == [team |-> t, kind |-> kind, open |-> TRUE]

Open(t, kind) == {i \in DOMAIN invites : invites[i] = NewInvite(t, kind)}

(* POST /teams/{id}/invites of one address; team_email_invites_pending_key *)
(* is what answers INVITE_ALREADY_PENDING.                                 *)
InviteEmail(h) ==
    /\ handlers[h] = Idle
    /\ Len(invites) < MaxInvites
    /\ \E t \in Teams :
         /\ \E u \in Active : Exists(t) /\ Member(t, u)
         /\ Open(t, "email") = {}
         /\ invites' = Append(invites, NewInvite(t, "email"))
    /\ UNCHANGED <<teams, deleted, handlers, late>>

Closed(i) == [invites EXCEPT ![i].open = FALSE]

(* POST /invites/{token}/decline and DELETE /teams/{id}/invites/{inviteId} *)
(* of an email invite, DELETE /teams/{id}/invites/link: what is closed     *)
(* stays closed, whatever else is committed between the read and this.     *)
Close(h) ==
    /\ handlers[h] = Idle
    /\ \E i \in DOMAIN invites : invites[i].open /\ invites' = Closed(i)
    /\ UNCHANGED <<teams, deleted, handlers, late>>

(* POST /teams/{id}/invites/link reads the active link.                    *)
Rotate(h) ==
    /\ handlers[h] = Idle
    /\ Len(invites) < MaxInvites
    /\ \E t \in Teams :
         /\ Exists(t) /\ teams[t].leader \in Active
         /\ \E i \in IF Open(t, "link") = {} THEN {0} ELSE Open(t, "link") :
              Goes(h, [Idle EXCEPT !.pc = "rotate", !.team = t, !.invite = i])
    /\ UNCHANGED <<teams, invites, deleted, late>>

(* The old link is revoked and the new one inserted, unless another        *)
(* rotation has inserted one meanwhile (team_invite_links_active_key).     *)
RotateStore(h) ==
    LET r == handlers[h] IN
    /\ r.pc = "rotate"
    /\ ~Locked(h, r.team)
    /\ invites' = IF /\ Exists(r.team)
                     /\ Len(invites) < MaxInvites
                     /\ Open(r.team, "link") \subseteq {r.invite}
                  THEN Append(IF r.invite = 0 THEN invites ELSE Closed(r.invite),
                              NewInvite(r.team, "link"))
                  ELSE invites
    /\ Goes(h, Idle)
    /\ UNCHANGED <<teams, deleted, late>>

(* POST /invites/{token}/accept: _resolve_token, and whether the user is a *)
(* member yet.                                                             *)
Accept(h) ==
    /\ handlers[h] = Idle
    /\ \E u \in Active, i \in DOMAIN invites :
         /\ invites[i].open
         /\ Goes(h, [Idle EXCEPT !.pc = "accept", !.user = u, !.team = invites[i].team,
                                 !.invite = i, !.known = Member(invites[i].team, u)])
    /\ UNCHANGED <<teams, invites, deleted, late>>

(* Mutant: whoever was no member is inserted.                              *)
Insertable_Stale(r) == TRUE

(* The key of team_members: the user has not become a member meanwhile.    *)
Insertable(r) == ~Member(r.team, r.user)

AcceptStore(h) ==
    LET r == handlers[h] IN
    /\ r.pc = "accept"
    /\ r.known \/ ~Locked(h, r.team)
    /\ IF Exists(r.team) /\ (r.known \/ Insertable(r))
       THEN /\ teams' = IF r.known THEN teams
                        ELSE [teams EXCEPT ![r.team].members = Append(@, r.user)]
            /\ invites' = IF invites[r.invite].kind = "email" THEN Closed(r.invite) ELSE invites
            /\ IF r.known THEN UNCHANGED late ELSE Joins(r.user, r.team)
       ELSE UNCHANGED <<teams, invites, late>>
    /\ Goes(h, Idle)
    /\ UNCHANGED deleted

-----------------------------------------------------------------------------
Next ==
    \E h \in Handlers :
        \/ CreateTeam(h) \/ CreateTeamStore(h) \/ DeleteTeam(h) \/ DeleteTeamStore(h)
        \/ Leave(h) \/ RemoveMember(h) \/ RemoveLock(h)
        \/ DeleteMe(h) \/ NextTeam(h) \/ LeaveNext(h) \/ LeaveStore(h)
        \/ InviteEmail(h) \/ Close(h) \/ Rotate(h) \/ RotateStore(h)
        \/ Accept(h) \/ AcceptStore(h)

Spec == Init /\ [][Next]_vars

-----------------------------------------------------------------------------
(* The lock keeps the deferred foreign key teams_leader_is_member_fk from  *)
(* failing at a commit (team_membership.py 20-22): no order of leaving,    *)
(* removals, deletions and joins makes somebody leader who is no member,   *)
(* although the model lets every commit through.                           *)
LeaderIsMember == \A t \in Teams : Exists(t) => Member(t, teams[t].leader)

Deletes(h, t) == handlers[h].pc = "delete" /\ handlers[h].team = t /\ handlers'[h] = Idle

(* The rules of leave_or_succeed at the commit, not when they were decided:*)
(* the next leader is the senior of those who stay, and nobody else loses  *)
(* a team because the last member left it.                                 *)
Succession ==
    [][\A t \in Teams : Exists(t) =>
          /\ Exists(t)' /\ teams'[t].leader # teams[t].leader =>
                LET rest == Rest(t, teams[t].leader) IN
                rest # <<>> /\ teams'[t].leader = Head(rest)
          /\ ~Exists(t)' /\ (\A h \in Handlers : ~Deletes(h, t)) =>
                Len(teams[t].members) = 1]_vars

(* A deleted account is in no team (delete_me, part 1), unless it joined   *)
(* or created the team while it was being deleted.                         *)
DeletedLeft == \A u \in deleted, t \in Teams : Member(t, u) => <<u, t>> \in late

-----------------------------------------------------------------------------
(* The inductive invariant behind TypeOK: a thread that has begun names    *)
(* what it works on, and invitations are never forgotten.                  *)
ThreadsNamed ==
    /\ Len(invites) <= MaxInvites
    /\ \A h \in Handlers :
          /\ handlers[h].pc \in {"create", "next", "lock", "remove", "delete", "accept"} =>
                handlers[h].user \in Users
          /\ handlers[h].pc \in {"lock", "remove", "delete", "accept", "rotate"} =>
                handlers[h].team \in Teams
          /\ handlers[h].pc = "accept" => handlers[h].invite \in DOMAIN invites
          /\ handlers[h].pc = "rotate" => handlers[h].invite \in 0 .. Len(invites)

TypeInv == TypeOK /\ ThreadsNamed

(* What was decided under a lock is what would be decided at the commit,   *)
(* because no other transaction changes that team or has flushed an edit   *)
(* of it.                                                                  *)
EditHolds(e) == Exists(e.team) /\ e = Leaving(e.team, e.drop)

EditsHold ==
    /\ \A h \in Handlers : \A e \in handlers[h].edits :
          handlers[h].pc \in {"next", "lock"} /\ EditHolds(e)
    /\ \A g, h \in Handlers : g # h =>
          \A e \in handlers[g].edits : ~ \E f \in handlers[h].edits : f.team = e.team

LeaderInv == EditsHold /\ LeaderIsMember

(* A deletion of an account still has t to leave.                          *)
StillLeaves(h, t) ==
    \/ t \in handlers[h].todo
    \/ handlers[h].pc = "lock" /\ handlers[h].team = t
    \/ \E e \in handlers[h].edits : e.team = t

(* The list of teams a deletion began with misses only what was joined     *)
(* since.                                                                  *)
AccountInv ==
    /\ \A t \in Teams : ~Exists(t) => teams[t].members = <<>>
    /\ \A h \in Handlers : handlers[h].account =>
          LET u == handlers[h].user IN
          /\ handlers[h].pc \in {"next", "lock"}
          /\ \A e \in handlers[h].edits : e.drop = u
          /\ \A t \in Teams : Member(t, u) => StillLeaves(h, t) \/ <<u, t>> \in late
    /\ DeletedLeft
=============================================================================
