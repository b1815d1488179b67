------------------------------ MODULE Accounts ------------------------------
(***************************************************************************)
(* User accounts, club memberships and club invites (internal/auth).       *)
(*                                                                         *)
(* A request runs without a transaction: every call of the store is a      *)
(* statement of its own that commits at once, and between the calls other  *)
(* requests run.  What a request has read may be stale when it writes, and *)
(* when it fails half way the statements before stay.  pc names the next   *)
(* call of the store, loc what the request has read so far.                *)
(***************************************************************************)
EXTENDS Naturals, FiniteSets

CONSTANTS Handlers,       \* requests that are handled at the same time
          Emails, Passwords, Clubs,
          UserIds, MemberIds, InviteIds,  \* ids the server generates
          AdminEmail, AdminPassword,      \* the bootstrap configuration
          Requests,       \* requests that clients send
          NoRow,
          InviteDays,     \* days an invite is valid
          MaxDay,         \* bound: days that pass
          MaxRequests,    \* bound: requests received
          MaxRestarts     \* bound: restarts of the server

VARIABLES user, member, invite,  \* the tables
          closed,                \* clubs that are deleted
          today, received, restarts,
          pc, job, loc           \* next call, request and locals of a handler

tables == <<user, member, invite>>
env == <<closed, today, received, restarts>>
vars == <<tables, env, pc, job, loc>>

-----------------------------------------------------------------------------
Roles == {"user", "sys_admin"}
ClubRoles == {"owner", "assistant"}
Days == 0 .. (MaxDay + InviteDays)

Users == [email : Emails, role : Roles, pass : Passwords, active : BOOLEAN]
Members == [user : UserIds, club : Clubs, role : ClubRoles, active : BOOLEAN,
            revoked : BOOLEAN]
Invites == [club : Clubs, inviter : UserIds, email : Emails \cup {NoRow}, role : ClubRoles,
            expires : Days, uses : Nat, acceptedBy : UserIds \cup {NoRow}, revoked : BOOLEAN]
MaxUses == 1   \* every invite is made for one use

Ops == {"accept", "login", "create_user", "set_active", "reset_password", "add_member",
        "remove_member", "create_invite", "revoke_invite"}

(* The server has an administrator to make, and requests have passed the   *)
(* validation of their roles and emails.                                   *)
ASSUME AccountsAssumption ==
    /\ IsFiniteSet(Handlers)
    /\ UserIds # {}
    /\ MaxDay \in Nat /\ InviteDays \in Nat
    /\ AdminEmail \in Emails
    /\ AdminPassword \in Passwords
    /\ NoRow \notin Users \cup Members \cup Invites \cup UserIds \cup Emails
    /\ Requests # {}
    /\ Requests \subseteq
          [op : Ops, actor : UserIds, user : UserIds, email : Emails \cup {NoRow},
           pass : Passwords, role : Roles \cup ClubRoles, active : BOOLEAN, club : Clubs,
           member : MemberIds, invite : InviteIds]
    /\ \A q \in Requests :
          /\ q.op \in {"accept", "login", "create_user"} => q.email \in Emails
          /\ q.op = "create_user" => q.role \in Roles
          /\ q.op \in {"add_member", "create_invite"} => q.role \in ClubRoles

Existing(t) == {x \in DOMAIN t : t[x] # NoRow}
Fresh(t) == CHOOSE x \in DOMAIN t : t[x] = NoRow
HasRoom(t) == \E x \in DOMAIN t : t[x] = NoRow

(* FindUserByEmail, FindMembershipByUserAndClub *)
WithEmail(e) == {u \in Existing(user) : user[u].email = e}
Current(u, c) == {m \in Existing(member) :
                    member[m].user = u /\ member[m].club = c /\ ~member[m].revoked}
FoundOfAnyone(u, c) ==
    IF c \in closed THEN {}
    ELSE {m \in Existing(member) : member[m].club = c /\ ~member[m].revoked}
Found(u, c) == IF c \in closed THEN {} ELSE Current(u, c)

(* The unique indexes on emails and on memberships that are not revoked;   *)
(* the second one does not know of deleted clubs.                          *)
EmailTaken(e) == WithEmail(e) # {}
MemberTakenNot(u, c) == FALSE
MemberTaken(u, c) == Current(u, c) # {}

(* FindActiveClubInviteByTokenHash and validateInviteActive *)
UsableUnlessExpired(i) == invite[i] # NoRow /\ ~invite[i].revoked /\ today <= invite[i].expires
Usable(i) ==
    /\ invite[i] # NoRow
    /\ ~invite[i].revoked
    /\ invite[i].acceptedBy = NoRow
    /\ today <= invite[i].expires
    /\ invite[i].uses < MaxUses

IsOwner(u, c) == \E m \in Found(u, c) : member[m].active /\ member[m].role = "owner"

-----------------------------------------------------------------------------
Nothing == [sys |-> FALSE, user |-> NoRow, invite |-> NoRow]
AnyRequest == CHOOSE q \in Requests : TRUE

(* EnsureBootstrapSysAdmin: one transaction at every start. *)
Bootstrapped(t) ==
    LET u == IF \E v \in Existing(t) : t[v].email = AdminEmail
             THEN CHOOSE v \in Existing(t) : t[v].email = AdminEmail
             ELSE Fresh(t)
    IN [t EXCEPT ![u] = [email |-> AdminEmail, role |-> "sys_admin",
                         pass |-> AdminPassword, active |-> TRUE]]

Init ==
    /\ user = Bootstrapped([u \in UserIds |-> NoRow])
    /\ member = [m \in MemberIds |-> NoRow]
    /\ invite = [i \in InviteIds |-> NoRow]
    /\ closed = {}
    /\ today = 0
    /\ received = 0
    /\ restarts = 0
    /\ pc = [h \in Handlers |-> "idle"]
    /\ job = [h \in Handlers |-> AnyRequest]
    /\ loc = [h \in Handlers |-> Nothing]

Go(h, label) == pc' = [pc EXCEPT ![h] = label] /\ UNCHANGED <<job, loc, env>>
Keep(h, label, l) ==
    /\ pc' = [pc EXCEPT ![h] = label]
    /\ loc' = [loc EXCEPT ![h] = l]
    /\ UNCHANGED <<job, env>>

(* The response, an error or not: what was written before stays. *)
Answer(h) ==
    /\ pc' = [pc EXCEPT ![h] = "idle"]
    /\ job' = [job EXCEPT ![h] = AnyRequest]
    /\ loc' = [loc EXCEPT ![h] = Nothing]
    /\ UNCHANGED env

(* A request arrives: from a user who is signed in, a login, or with the   *)
(* token of an invite.                                                     *)
Begin(h, q) ==
    /\ pc[h] = "idle"
    /\ received < MaxRequests
    /\ q.op \notin {"accept", "login"} => user[q.actor] # NoRow
    /\ received' = received + 1
    /\ pc' = [pc EXCEPT ![h] = CASE q.op = "accept" -> "token"
                                 [] q.op = "login" -> "email"
                                 [] OTHER -> "actor"]
    /\ job' = [job EXCEPT ![h] = q]
    /\ UNCHANGED <<tables, closed, today, restarts, loc>>

(* requireSysAdmin, or for invites FindUserByID and the role it returns.   *)
(* Nobody deactivates oneself.                                             *)
AdminOps == {"create_user", "set_active", "reset_password", "add_member", "remove_member"}

SelfDeactivationNot(q) == FALSE
SelfDeactivation(q) == q.op = "set_active" /\ q.user = q.actor /\ ~q.active

AfterActor(q, sys) ==
    CASE q.op = "create_user" -> "email"
      [] q.op \in {"set_active", "add_member"} -> "target"
      [] q.op = "create_invite" -> IF sys THEN "write" ELSE "owner"
      [] q.op = "revoke_invite" -> "invite"
      [] OTHER -> "write"

CheckActor(h) ==
    /\ pc[h] = "actor"
    /\ LET u == user[job[h].actor]
           sys == u.role = "sys_admin"
       IN IF ~u.active \/ (job[h].op \in AdminOps /\ ~sys) \/ SelfDeactivation(job[h])
          THEN Answer(h)
          ELSE Keep(h, AfterActor(job[h], sys), [loc[h] EXCEPT !.sys = sys])
    /\ UNCHANGED tables

(* FindUserByID on the user the request is about. *)
FindTargetNot(h) ==
    /\ pc[h] = "target"
    /\ IF job[h].op = "add_member"
       THEN Keep(h, "member", [loc[h] EXCEPT !.user = job[h].user])
       ELSE IF user[job[h].user] = NoRow THEN Answer(h) ELSE Go(h, "write")
    /\ UNCHANGED tables
FindTarget(h) ==
    /\ pc[h] = "target"
    /\ IF user[job[h].user] = NoRow THEN Answer(h)
       ELSE IF job[h].op = "set_active" THEN Go(h, "write")
       ELSE Keep(h, "member", [loc[h] EXCEPT !.user = job[h].user])
    /\ UNCHANGED tables

(* CreateClubInvite and RevokeClubInvite by a user who is no administrator *)
(* need an owner of the club, and only for assistants.                     *)
InviteOf(h) == IF job[h].op = "create_invite" THEN job[h] ELSE invite[job[h].invite]

CheckOwner(h) ==
    /\ pc[h] = "owner"
    /\ IF IsOwner(job[h].actor, InviteOf(h).club) /\ InviteOf(h).role = "assistant"
       THEN Go(h, "write")
       ELSE Answer(h)
    /\ UNCHANGED tables

FindInvite(h) ==
    /\ pc[h] = "invite"
    /\ IF invite[job[h].invite] = NoRow THEN Answer(h)
       ELSE Go(h, IF loc[h].sys THEN "write" ELSE "owner")
    /\ UNCHANGED tables

(* The last statement of an administrator's request, then the audit log.   *)
Activated(u, active) == [user EXCEPT ![u].active = active]

SetActive(h) ==
    /\ pc[h] = "write"
    /\ job[h].op = "set_active"
    /\ user' = Activated(job[h].user, job[h].active)
    /\ Go(h, "audit")
    /\ UNCHANGED <<member, invite>>

(* UPDATE users ... WHERE id = $1: no row, no such user. *)
WithPassword(u, pass) == [user EXCEPT ![u].pass = pass]

ResetPassword(h) ==
    /\ pc[h] = "write"
    /\ job[h].op = "reset_password"
    /\ IF user[job[h].user] = NoRow
       THEN Answer(h) /\ UNCHANGED tables
       ELSE /\ user' = WithPassword(job[h].user, job[h].pass)
            /\ Go(h, "audit")
            /\ UNCHANGED <<member, invite>>

(* UPDATE club_memberships ... WHERE id = $1 AND revoked_at IS NULL *)
Removable(m) == member[m] # NoRow /\ ~member[m].revoked

RemoveMember(h) ==
    /\ pc[h] = "write"
    /\ job[h].op = "remove_member"
    /\ IF Removable(job[h].member)
       THEN /\ member' = [member EXCEPT ![job[h].member].revoked = TRUE]
            /\ Go(h, "audit")
            /\ UNCHANGED <<user, invite>>
       ELSE Answer(h) /\ UNCHANGED tables

NewInvite(q) ==
    [club |-> q.club, inviter |-> q.actor, email |-> q.email, role |-> q.role,
     expires |-> today + InviteDays, uses |-> 0, acceptedBy |-> NoRow, revoked |-> FALSE]

InsertInvite(h) ==
    /\ pc[h] = "write"
    /\ job[h].op = "create_invite"
    /\ HasRoom(invite)
    /\ invite' = [invite EXCEPT ![Fresh(invite)] = NewInvite(job[h])]
    /\ Go(h, "audit")
    /\ UNCHANGED <<user, member>>

(* UPDATE ... WHERE revoked_at IS NULL AND accepted_at IS NULL, whatever   *)
(* the request has read of the invite before.                              *)
RevocableOnce(i) == ~invite[i].revoked
Revocable(i) == ~invite[i].revoked /\ invite[i].acceptedBy = NoRow

RevokeInvite(h) ==
    /\ pc[h] = "write"
    /\ job[h].op = "revoke_invite"
    /\ IF Revocable(job[h].invite)
       THEN /\ invite' = [invite EXCEPT ![job[h].invite].revoked = TRUE]
            /\ Go(h, "audit")
            /\ UNCHANGED <<user, member>>
       ELSE Answer(h) /\ UNCHANGED tables

-----------------------------------------------------------------------------
(* AcceptClubInvite: look up the invite by its token ... *)
LookUpInvite(h) ==
    /\ pc[h] = "token"
    /\ IF Usable(job[h].invite) /\ invite[job[h].invite].email \in {NoRow, job[h].email}
       THEN Keep(h, "email", [loc[h] EXCEPT !.invite = invite[job[h].invite]])
       ELSE Answer(h)
    /\ UNCHANGED tables

(* ... and the account by its email, which must be active and have the     *)
(* password of the request, as for Login.  CreateUser wants the email      *)
(* unused.                                                                 *)
FindEmail(h) ==
    /\ pc[h] = "email"
    /\ LET found == WithEmail(job[h].email)
       IN IF found = {}
          THEN IF job[h].op = "login" THEN Answer(h) ELSE Go(h, "insert_user")
          ELSE IF job[h].op = "create_user" THEN Answer(h)
          ELSE LET u == CHOOSE v \in found : TRUE
               IN IF user[u].active /\ user[u].pass = job[h].pass
                  THEN Keep(h, IF job[h].op = "login" THEN "stamp" ELSE "member",
                            [loc[h] EXCEPT !.user = u])
                  ELSE Answer(h)
    /\ UNCHANGED tables

(* INSERT INTO users; the unique index refuses an email that is taken. *)
NewUser(q) ==
    LET accepts == q.op = "accept"
    IN [email |-> q.email, pass |-> q.pass, role |-> IF accepts THEN "user" ELSE q.role,
        active |-> accepts \/ q.active]

InsertUser(h) ==
    /\ pc[h] = "insert_user"
    /\ HasRoom(user)
    /\ IF EmailTaken(job[h].email)
       THEN Answer(h) /\ UNCHANGED tables
       ELSE /\ user' = [user EXCEPT ![Fresh(user)] = NewUser(job[h])]
            /\ IF job[h].op = "accept"
               THEN Keep(h, "member", [loc[h] EXCEPT !.user = Fresh(user)])
               ELSE Go(h, "audit")
            /\ UNCHANGED <<member, invite>>

(* FindMembershipByUserAndClub: an obstacle for AddMembership, while       *)
(* AcceptClubInvite leaves the membership as it is.                        *)
Offered(h) == IF job[h].op = "accept" THEN loc[h].invite ELSE job[h]

FindMember(h) ==
    /\ pc[h] = "member"
    /\ IF Found(loc[h].user, Offered(h).club) = {} THEN Go(h, "insert_member")
       ELSE IF job[h].op = "accept" THEN Go(h, "use")
       ELSE Answer(h)
    /\ UNCHANGED tables

(* INSERT INTO club_memberships, then its audit entry. *)
NewMember(h) ==
    [user |-> loc[h].user, club |-> Offered(h).club, role |-> Offered(h).role,
     active |-> job[h].op = "accept" \/ job[h].active, revoked |-> FALSE]

InsertMember(h) ==
    /\ pc[h] = "insert_member"
    /\ HasRoom(member)
    /\ IF MemberTaken(loc[h].user, Offered(h).club)
       THEN Answer(h) /\ UNCHANGED tables
       ELSE /\ member' = [member EXCEPT ![Fresh(member)] = NewMember(h)]
            /\ Go(h, IF job[h].op = "accept" THEN "audit_member" ELSE "audit")
            /\ UNCHANGED <<user, invite>>

(* UPDATE club_invites SET use_count = use_count + 1, ...: the statement   *)
(* has no condition on the state of the invite.                            *)
UsedBy(i, u) ==
    [i EXCEPT !.uses = @ + 1, !.acceptedBy = IF i.uses + 1 >= MaxUses THEN u ELSE @]

UseInvite(h) ==
    /\ pc[h] = "use"
    /\ invite' = [invite EXCEPT ![job[h].invite] = UsedBy(@, loc[h].user)]
    /\ Go(h, "audit")
    /\ UNCHANGED <<user, member>>

(* writeAuditLog; its text is left out. *)
Audit(h) ==
    /\ \/ pc[h] = "audit_member" /\ Go(h, "use")
       \/ pc[h] = "audit" /\ IF job[h].op = "accept" THEN Go(h, "stamp") ELSE Answer(h)
    /\ UNCHANGED tables

(* UpdateLastLoginAt, before Login and AcceptClubInvite return a token.    *)
Stamp(h) ==
    /\ pc[h] = "stamp"
    /\ Answer(h)
    /\ UNCHANGED tables

(* A lost connection or a cancelled request ends it between two statements. *)
Fail(h) ==
    /\ pc[h] # "idle"
    /\ Answer(h)
    /\ UNCHANGED tables

(* The server stops and starts again. *)
Restart ==
    /\ restarts < MaxRestarts
    /\ \E v \in Existing(user) : user[v].email = AdminEmail
    /\ restarts' = restarts + 1
    /\ user' = Bootstrapped(user)
    /\ pc' = [h \in Handlers |-> "idle"]
    /\ job' = [h \in Handlers |-> AnyRequest]
    /\ loc' = [h \in Handlers |-> Nothing]
    /\ UNCHANGED <<member, invite, closed, today, received>>

(* A day passes; a push deletes a club. *)
NextDay ==
    /\ today < MaxDay
    /\ today' = today + 1
    /\ UNCHANGED <<tables, closed, received, restarts, pc, job, loc>>

CloseClub(c) ==
    /\ closed' = closed \cup {c}
    /\ UNCHANGED <<tables, today, received, restarts, pc, job, loc>>

-----------------------------------------------------------------------------
Step(h) ==
    \/ CheckActor(h) \/ FindTarget(h) \/ CheckOwner(h) \/ FindInvite(h) \/ SetActive(h)
    \/ ResetPassword(h) \/ RemoveMember(h) \/ InsertInvite(h) \/ RevokeInvite(h)
    \/ LookUpInvite(h) \/ FindEmail(h) \/ InsertUser(h) \/ FindMember(h)
    \/ InsertMember(h) \/ UseInvite(h) \/ Audit(h) \/ Stamp(h)

Next ==
    \/ \E h \in Handlers, q \in Requests : Begin(h, q)
    \/ \E h \in Handlers : Step(h)
    \/ \E h \in Handlers : Fail(h)
    \/ Restart
    \/ NextDay
    \/ \E c \in Clubs : CloseClub(c)

Spec == Init /\ [][Next]_vars

-----------------------------------------------------------------------------
(* Properties.                                                             *)

(* The tables are well formed, and every row refers to rows that exist.    *)
TypeOK ==
    /\ user \in [UserIds -> Users \cup {NoRow}]
    /\ member \in [MemberIds -> Members \cup {NoRow}]
    /\ invite \in [InviteIds -> Invites \cup {NoRow}]
    /\ \A m \in Existing(member) : user[member[m].user] # NoRow
    /\ \A i \in Existing(invite) : user[invite[i].inviter] # NoRow
    /\ \A h \in Handlers : loc[h] \in [sys : BOOLEAN, user : UserIds \cup {NoRow},
                                       invite : Invites \cup {NoRow}]

(* A user has at most one current membership in a club, although           *)
(* AddMembership and AcceptClubInvite look for one and insert it in two    *)
(* statements: the permissions of a user are never ambiguous.              *)
OneMembershipPerClub ==
    \A m, n \in Existing(member) :
        /\ member[m].user = member[n].user
        /\ member[m].club = member[n].club
        /\ ~member[m].revoked
        /\ ~member[n].revoked
        => m = n

(* An invite for one use is used more often only by requests that overlap: *)
(* each had looked it up before the first of them had used it.             *)
UsesOverlap == \A i \in Existing(invite) : invite[i].uses <= Cardinality(Handlers)

(* Wherever a request fails, an invite is never used up before its user    *)
(* has the membership it is for (which may have been revoked since).       *)
UsedGivesMembership ==
    \A i \in Existing(invite) :
        invite[i].uses > 0 =>
            \E m \in Existing(member) : /\ member[m].user = invite[i].acceptedBy
                                        /\ member[m].club = invite[i].club

(* An invite that was used is never revoked afterwards, although the       *)
(* request that revokes it may have read it before it was used.            *)
UsedIsFinal ==
    [][\A i \in InviteIds :
          invite[i] # NoRow /\ invite[i].acceptedBy # NoRow /\ ~invite[i].revoked =>
              ~invite'[i].revoked]_vars

ActiveAdmins == {u \in Existing(user) : user[u].active /\ user[u].role = "sys_admin"}

(* "you cannot deactivate your own account": administrators deactivating   *)
(* accounts leave one of them active, unless the one who does it was       *)
(* deactivated after the check.                                            *)
AnAdminStays ==
    [][\A h \in Handlers :
          SetActive(h) /\ user[job[h].actor].active => ActiveAdmins' # {}]_vars
=============================================================================
