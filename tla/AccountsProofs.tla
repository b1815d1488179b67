--------------------------- MODULE AccountsProofs ---------------------------
(***************************************************************************)
(* Theorems about Accounts, for any number of requests, users, clubs and   *)
(* invites.  Requests take no locks: what a handler relies on after a read *)
(* must stay true whatever other handlers do, so the inductive invariant   *)
(* only speaks of what never changes in a row (Kept below).                *)
(***************************************************************************)
EXTENDS Accounts, FiniteSetTheorems, TLAPS

Labels == {"idle", "actor", "target", "owner", "invite", "write", "token", "email",
           "insert_user", "member", "insert_member", "use", "audit", "audit_member", "stamp"}

Locals == [sys : BOOLEAN, user : UserIds \cup {NoRow}, invite : Invites \cup {NoRow}]

StateOK ==
    /\ closed \subseteq Clubs
    /\ today \in 0 .. MaxDay
    /\ pc \in [Handlers -> Labels]
    /\ job \in [Handlers -> Requests]
    /\ loc \in [Handlers -> Locals]

(* A handler between LookUpInvite and the statement that uses the invite.  *)
Accepting(h) ==
    /\ pc[h] \in {"email", "insert_user", "member", "insert_member", "audit_member", "use"}
    /\ job[h].op = "accept"

HasMembership(u, c) ==
    \E m \in MemberIds : member[m] # NoRow /\ member[m].user = u /\ member[m].club = c

(* Which requests get to a call of the store ... *)
PathOf(h) ==
    /\ pc[h] = "target" => job[h].op \in {"set_active", "add_member"}
    /\ pc[h] = "owner" => job[h].op \in {"create_invite", "revoke_invite"}
    /\ pc[h] = "invite" => job[h].op = "revoke_invite"
    /\ pc[h] = "token" => job[h].op = "accept"
    /\ pc[h] = "email" => job[h].op \in {"accept", "login", "create_user"}
    /\ pc[h] = "insert_user" => job[h].op \in {"accept", "create_user"}
    /\ pc[h] \in {"member", "insert_member"} => job[h].op \in {"accept", "add_member"}
    /\ pc[h] \in {"audit_member", "use"} => job[h].op = "accept"

(* ... and the rows they have found by then. *)
FoundBy(h) ==
    /\ pc[h] \in {"actor", "target", "owner", "invite", "write"} => user[job[h].actor] # NoRow
    /\ pc[h] = "write" /\ job[h].op = "set_active" => user[job[h].user] # NoRow
    /\ pc[h] \in {"owner", "write"} /\ job[h].op = "revoke_invite" => invite[job[h].invite] # NoRow
    /\ pc[h] \in {"member", "insert_member", "audit_member", "use"} =>
          loc[h].user \in UserIds /\ user[loc[h].user] # NoRow
    /\ Accepting(h) =>
          /\ loc[h].invite \in Invites
          /\ invite[job[h].invite] # NoRow
          /\ invite[job[h].invite].club = loc[h].invite.club
    /\ pc[h] \in {"audit_member", "use"} => HasMembership(loc[h].user, loc[h].invite.club)
    /\ pc[h] \in {"target", "write"} /\ job[h].op = "set_active" =>
          user[job[h].actor].role = "sys_admin" /\ ~SelfDeactivation(job[h])

HandlerOK(h) == PathOf(h) /\ FoundBy(h)

Tables ==
    /\ user \in [UserIds -> Users \cup {NoRow}]
    /\ member \in [MemberIds -> Members \cup {NoRow}]
    /\ invite \in [InviteIds -> Invites \cup {NoRow}]
    /\ \A m \in MemberIds : member[m] # NoRow => user[member[m].user] # NoRow
    /\ \A i \in InviteIds : invite[i] # NoRow => user[invite[i].inviter] # NoRow

BaseInv == Tables /\ StateOK /\ \A h \in Handlers : HandlerOK(h)

-----------------------------------------------------------------------------
(* What never changes: rows are not removed, an administrator stays one,   *)
(* and memberships and invites stay with their user and club.              *)
Kept ==
    /\ \A u \in UserIds : user[u] # NoRow =>
          user'[u] # NoRow /\ (user[u].role = "sys_admin" => user'[u].role = "sys_admin")
    /\ \A m \in MemberIds : member[m] # NoRow =>
          /\ member'[m] # NoRow
          /\ member'[m].user = member[m].user /\ member'[m].club = member[m].club
    /\ \A i \in InviteIds : invite[i] # NoRow =>
          invite'[i] # NoRow /\ invite'[i].club = invite[i].club

(* A handler that makes no step itself goes on relying on what it found.   *)
LEMMA HandlerKept ==
    ASSUME BaseInv, Kept, NEW h \in Handlers, UNCHANGED <<pc[h], job[h], loc[h]>>
    PROVE  HandlerOK(h)'
<1>1. job[h] \in Requests
  BY DEF BaseInv, StateOK
<1>2. job[h].actor \in UserIds /\ job[h].user \in UserIds /\ job[h].invite \in InviteIds
  BY <1>1, AccountsAssumption
<1>3. PathOf(h)'
  BY DEF BaseInv, HandlerOK, PathOf
<1>4. \A u, c : HasMembership(u, c) => HasMembership(u, c)'
  BY DEF HasMembership, Kept
<1>5. FoundBy(h) => FoundBy(h)'
  BY <1>2, <1>4 DEF FoundBy, Kept, Accepting, SelfDeactivation
<1> QED
  BY <1>3, <1>5 DEF BaseInv, HandlerOK

(* A handler that has answered relies on nothing.                          *)
LEMMA HandlerIdle ==
    ASSUME NEW h \in Handlers, pc'[h] = "idle"
    PROVE  HandlerOK(h)'
  BY DEF HandlerOK, PathOf, FoundBy, Accepting

LEMMA BaseInvStep ==
    ASSUME BaseInv, Tables', StateOK', Kept, NEW h \in Handlers, HandlerOK(h)',
           \A g \in Handlers \ {h} : UNCHANGED <<pc[g], job[g], loc[g]>>
    PROVE  BaseInv'
  BY HandlerKept DEF BaseInv

LEMMA KeptUnchanged == UNCHANGED tables => Kept
  BY DEF tables, Kept

LEMMA TablesUnchanged == Tables /\ UNCHANGED tables => Tables'
  BY DEF tables, Tables

-----------------------------------------------------------------------------
(* The three ways a handler goes on. *)
LEMMA GoFrame ==
    ASSUME StateOK, NEW h \in Handlers, NEW label \in Labels, Go(h, label)
    PROVE  /\ StateOK'
           /\ pc'[h] = label /\ UNCHANGED <<job[h], loc[h]>>
           /\ \A g \in Handlers \ {h} : UNCHANGED <<pc[g], job[g], loc[g]>>
  BY DEF StateOK, Go, env

LEMMA KeepFrame ==
    ASSUME StateOK, NEW h \in Handlers, NEW label \in Labels, NEW l \in Locals,
           Keep(h, label, l)
    PROVE  /\ StateOK'
           /\ pc'[h] = label /\ UNCHANGED job[h] /\ loc'[h] = l
           /\ \A g \in Handlers \ {h} : UNCHANGED <<pc[g], job[g], loc[g]>>
  BY DEF StateOK, Keep, env

LEMMA AnswerFrame ==
    ASSUME StateOK, NEW h \in Handlers, Answer(h)
    PROVE  /\ StateOK'
           /\ pc'[h] = "idle"
           /\ \A g \in Handlers \ {h} : UNCHANGED <<pc[g], job[g], loc[g]>>
<1>1. AnyRequest \in Requests
  BY AccountsAssumption DEF AnyRequest
<1>2. Nothing \in Locals
  BY DEF Nothing, Locals
<1> QED
  BY <1>1, <1>2 DEF StateOK, Answer, env, Labels

(* An answer that writes nothing. *)
LEMMA AnswerStep ==
    ASSUME BaseInv, NEW h \in Handlers, Answer(h), UNCHANGED tables
    PROVE  BaseInv'
  BY AnswerFrame, HandlerIdle, KeptUnchanged, TablesUnchanged, BaseInvStep DEF BaseInv

(* Going on without writing. *)
LEMMA GoStep ==
    ASSUME BaseInv, NEW h \in Handlers, NEW label \in Labels, Go(h, label), UNCHANGED tables,
           HandlerOK(h)'
    PROVE  BaseInv'
  BY GoFrame, KeptUnchanged, TablesUnchanged, BaseInvStep DEF BaseInv

LEMMA KeepStep ==
    ASSUME BaseInv, NEW h \in Handlers, NEW label \in Labels, NEW l \in Locals,
           Keep(h, label, l), UNCHANGED tables, HandlerOK(h)'
    PROVE  BaseInv'
  BY KeepFrame, KeptUnchanged, TablesUnchanged, BaseInvStep DEF BaseInv

(* What the steps need to know of a request. *)
LEMMA RequestType ==
    ASSUME NEW q \in Requests
    PROVE  /\ q.op \in Ops
           /\ q.actor \in UserIds /\ q.user \in UserIds
           /\ q.pass \in Passwords /\ q.active \in BOOLEAN /\ q.club \in Clubs
           /\ q.member \in MemberIds /\ q.invite \in InviteIds
           /\ q.email \in Emails \cup {NoRow}
           /\ q.op \in {"accept", "login", "create_user"} => q.email \in Emails
           /\ q.op = "create_user" => q.role \in Roles
           /\ q.op \in {"add_member", "create_invite"} => q.role \in ClubRoles
  BY AccountsAssumption

-----------------------------------------------------------------------------
LEMMA BaseInit == Init => BaseInv
<1> SUFFICES ASSUME Init PROVE BaseInv
  OBVIOUS
<1>1. AnyRequest \in Requests
  BY AccountsAssumption DEF AnyRequest
<1>2. StateOK
  BY <1>1, AccountsAssumption DEF Init, StateOK, Labels, Locals, Nothing
<1>3. user \in [UserIds -> Users \cup {NoRow}]
  BY AccountsAssumption DEF Init, Bootstrapped, Users, Roles
<1>4. Tables
  BY <1>3 DEF Init, Tables
<1>5. ASSUME NEW h \in Handlers PROVE HandlerOK(h)
  BY DEF Init, HandlerOK, PathOf, FoundBy, Accepting
<1> QED
  BY <1>2, <1>4, <1>5 DEF BaseInv

LEMMA BeginStep ==
    ASSUME BaseInv, NEW h \in Handlers, NEW q \in Requests, Begin(h, q)
    PROVE  BaseInv'
<1>1. UNCHANGED tables /\ StateOK'
  BY RequestType DEF BaseInv, StateOK, Begin, Labels, Ops
<1>2. /\ pc'[h] \in {"token", "email", "actor"} /\ job'[h] = q
      /\ pc'[h] = "token" => q.op = "accept"
      /\ pc'[h] = "email" => q.op = "login"
      /\ pc'[h] = "actor" => user[q.actor] # NoRow
      /\ \A g \in Handlers \ {h} : UNCHANGED <<pc[g], job[g], loc[g]>>
  BY DEF BaseInv, StateOK, Begin
<1>3. HandlerOK(h)'
  BY <1>1, <1>2 DEF HandlerOK, PathOf, FoundBy, Accepting, tables
<1> QED
  BY <1>1, <1>2, <1>3, KeptUnchanged, TablesUnchanged, BaseInvStep DEF BaseInv

LEMMA CheckActorStep ==
    ASSUME BaseInv, NEW h \in Handlers, CheckActor(h)
    PROVE  BaseInv'
<1> DEFINE u == user[job[h].actor]
           sys == u.role = "sys_admin"
           l == [loc[h] EXCEPT !.sys = sys]
           label == AfterActor(job[h], sys)
<1>1. job[h] \in Requests /\ loc[h] \in Locals /\ pc[h] = "actor" /\ UNCHANGED tables
  BY DEF BaseInv, StateOK, CheckActor
<1>2. user[job[h].actor] # NoRow
  BY <1>1 DEF BaseInv, HandlerOK, FoundBy
<1>3. CASE Answer(h)
  BY <1>1, <1>3, AnswerStep
<1>4. CASE Keep(h, label, l) /\ ~(job[h].op \in AdminOps /\ ~sys) /\ ~SelfDeactivation(job[h])
  <2>1. l \in Locals
    BY <1>1 DEF Locals
  <2>2. label \in Labels /\ label \notin {"idle", "actor", "audit", "use", "audit_member",
                                          "member", "insert_member", "insert_user", "token"}
    BY <1>1 DEF AfterActor, Labels
  <2>3. /\ label = "target" => job[h].op \in {"set_active", "add_member"}
        /\ label = "owner" => job[h].op = "create_invite"
        /\ label = "invite" => job[h].op = "revoke_invite"
        /\ label = "email" => job[h].op = "create_user"
        /\ label = "write" => job[h].op \notin {"set_active", "revoke_invite"}
    BY <1>1, RequestType DEF AfterActor, Ops
  <2>4. pc'[h] = label /\ UNCHANGED job[h] /\ loc'[h] = l
    BY <1>4, <2>1, <2>2, KeepFrame DEF BaseInv
  <2>5. HandlerOK(h)'
    BY <1>1, <1>2, <1>4, <2>2, <2>3, <2>4
       DEF HandlerOK, PathOf, FoundBy, Accepting, tables, AdminOps
  <2> QED
    BY <1>1, <1>4, <2>1, <2>2, <2>5, KeepStep
<1> QED
  BY <1>3, <1>4 DEF CheckActor

LEMMA FindTargetStep ==
    ASSUME BaseInv, NEW h \in Handlers, FindTarget(h)
    PROVE  BaseInv'
<1> DEFINE l == [loc[h] EXCEPT !.user = job[h].user]
<1>1. job[h] \in Requests /\ loc[h] \in Locals /\ pc[h] = "target" /\ UNCHANGED tables
  BY DEF BaseInv, StateOK, FindTarget
<1>2. PathOf(h) /\ FoundBy(h)
  BY DEF BaseInv, HandlerOK
<1>3. CASE Answer(h)
  BY <1>1, <1>3, AnswerStep
<1>4. CASE user[job[h].user] # NoRow /\ job[h].op = "set_active" /\ Go(h, "write")
  <2>1. pc'[h] = "write" /\ UNCHANGED <<job[h], loc[h]>>
    BY <1>4, GoFrame DEF BaseInv, Labels
  <2>2. HandlerOK(h)'
    BY <1>1, <1>2, <1>4, <2>1 DEF HandlerOK, PathOf, FoundBy, Accepting, tables
  <2> QED
    BY <1>1, <1>4, <2>2, GoStep DEF Labels
<1>5. CASE user[job[h].user] # NoRow /\ job[h].op # "set_active" /\ Keep(h, "member", l)
  <2>1. l \in Locals /\ l.user = job[h].user /\ job[h].user \in UserIds
    BY <1>1, RequestType DEF Locals
  <2>2. pc'[h] = "member" /\ UNCHANGED job[h] /\ loc'[h] = l
    BY <1>5, <2>1, KeepFrame DEF BaseInv, Labels
  <2>3. HandlerOK(h)'
    BY <1>1, <1>2, <1>5, <2>1, <2>2 DEF HandlerOK, PathOf, FoundBy, Accepting, tables
  <2> QED
    BY <1>1, <1>5, <2>1, <2>3, KeepStep DEF Labels
<1> QED
  BY <1>3, <1>4, <1>5 DEF FindTarget

LEMMA CheckOwnerStep ==
    ASSUME BaseInv, NEW h \in Handlers, CheckOwner(h)
    PROVE  BaseInv'
<1>1. pc[h] = "owner" /\ UNCHANGED tables /\ PathOf(h) /\ FoundBy(h)
  BY DEF BaseInv, HandlerOK, CheckOwner
<1>2. CASE Answer(h)
  BY <1>1, <1>2, AnswerStep
<1>3. CASE Go(h, "write")
  <2>1. pc'[h] = "write" /\ UNCHANGED <<job[h], loc[h]>>
    BY <1>3, GoFrame DEF BaseInv, Labels
  <2>2. HandlerOK(h)'
    BY <1>1, <2>1 DEF HandlerOK, PathOf, FoundBy, Accepting, tables
  <2> QED
    BY <1>1, <1>3, <2>2, GoStep DEF Labels
<1> QED
  BY <1>2, <1>3 DEF CheckOwner

LEMMA FindInviteStep ==
    ASSUME BaseInv, NEW h \in Handlers, FindInvite(h)
    PROVE  BaseInv'
<1>1. pc[h] = "invite" /\ UNCHANGED tables /\ PathOf(h) /\ FoundBy(h)
  BY DEF BaseInv, HandlerOK, FindInvite
<1>2. CASE Answer(h)
  BY <1>1, <1>2, AnswerStep
<1>3. ASSUME NEW label \in {"write", "owner"}, Go(h, label), invite[job[h].invite] # NoRow,
             job[h].op = "revoke_invite"
      PROVE  BaseInv'
  <2>1. pc'[h] = label /\ UNCHANGED <<job[h], loc[h]>>
    BY <1>3, GoFrame DEF BaseInv, Labels
  <2>2. HandlerOK(h)'
    BY <1>1, <1>3, <2>1 DEF HandlerOK, PathOf, FoundBy, Accepting, tables
  <2> QED
    BY <1>1, <1>3, <2>2, GoStep DEF Labels
<1> QED
  BY <1>1, <1>2, <1>3 DEF FindInvite, PathOf

(* The statements that write: the tables stay well formed, and no row      *)
(* loses what others rely on.                                              *)
LEMMA AuditStep ==
    ASSUME BaseInv, NEW h \in Handlers, Tables', Kept, Go(h, "audit")
    PROVE  BaseInv'
<1>1. /\ StateOK' /\ pc'[h] = "audit"
      /\ \A g \in Handlers \ {h} : UNCHANGED <<pc[g], job[g], loc[g]>>
  BY GoFrame DEF BaseInv, Labels
<1>2. HandlerOK(h)'
  BY <1>1 DEF HandlerOK, PathOf, FoundBy, Accepting
<1> QED
  BY <1>1, <1>2, BaseInvStep

LEMMA SetActiveStep ==
    ASSUME BaseInv, NEW h \in Handlers, SetActive(h)
    PROVE  BaseInv' /\ Kept
<1>1. job[h] \in Requests /\ user[job[h].user] # NoRow /\ Tables
  BY DEF BaseInv, StateOK, HandlerOK, FoundBy, SetActive
<1>2. job[h].user \in UserIds /\ job[h].active \in BOOLEAN
  BY <1>1, RequestType
<1>3. user' = [user EXCEPT ![job[h].user].active = job[h].active] /\ UNCHANGED <<member, invite>>
  BY DEF SetActive, Activated
<1>4. user[job[h].user] \in Users
  BY <1>1, <1>2 DEF Tables
<1>5. [user[job[h].user] EXCEPT !.active = job[h].active] \in Users
  BY <1>2, <1>4 DEF Users
<1>6. user' \in [UserIds -> Users \cup {NoRow}]
  BY <1>1, <1>2, <1>3, <1>5 DEF Tables
<1>7. \A u \in UserIds : user[u] # NoRow =>
          user'[u] # NoRow /\ user'[u].role = user[u].role
  BY <1>1, <1>2, <1>3, <1>4, <1>5, AccountsAssumption DEF Tables, Users
<1>8. Tables' /\ Kept
  BY <1>1, <1>3, <1>6, <1>7 DEF Tables, Kept, Members, Invites
<1> QED
  BY <1>8, AuditStep DEF SetActive

LEMMA ResetPasswordStep ==
    ASSUME BaseInv, NEW h \in Handlers, ResetPassword(h)
    PROVE  BaseInv'
<1>1. CASE Answer(h) /\ UNCHANGED tables
  BY <1>1, AnswerStep
<1>2. CASE /\ user[job[h].user] # NoRow
           /\ user' = WithPassword(job[h].user, job[h].pass)
           /\ Go(h, "audit")
           /\ UNCHANGED <<member, invite>>
  <2>1. job[h] \in Requests /\ Tables
    BY DEF BaseInv, StateOK
  <2>2. job[h].user \in UserIds /\ job[h].pass \in Passwords
    BY <2>1, RequestType
  <2>3. user' = [user EXCEPT ![job[h].user].pass = job[h].pass]
    BY <1>2 DEF WithPassword
  <2>4. user[job[h].user] \in Users
    BY <1>2, <2>1, <2>2 DEF Tables
  <2>5. [user[job[h].user] EXCEPT !.pass = job[h].pass] \in Users
    BY <2>2, <2>4 DEF Users
  <2>6. user' \in [UserIds -> Users \cup {NoRow}]
    BY <2>1, <2>2, <2>3, <2>5 DEF Tables
  <2>7. \A u \in UserIds : user[u] # NoRow =>
            user'[u] # NoRow /\ user'[u].role = user[u].role
    BY <2>1, <2>2, <2>3, <2>4, <2>5, AccountsAssumption DEF Tables, Users
  <2>8. Tables' /\ Kept
    BY <1>2, <2>1, <2>6, <2>7 DEF Tables, Kept, Members, Invites
  <2> QED
    BY <1>2, <2>8, AuditStep
<1> QED
  BY <1>1, <1>2 DEF ResetPassword

LEMMA RemoveMemberStep ==
    ASSUME BaseInv, NEW h \in Handlers, RemoveMember(h)
    PROVE  BaseInv' /\ Kept
<1>1. CASE Answer(h) /\ UNCHANGED tables
  BY <1>1, AnswerStep, KeptUnchanged
<1>2. CASE /\ Removable(job[h].member)
           /\ member' = [member EXCEPT ![job[h].member].revoked = TRUE]
           /\ Go(h, "audit")
           /\ UNCHANGED <<user, invite>>
  <2> DEFINE x == job[h].member
  <2>1. x \in MemberIds /\ Tables
    BY RequestType DEF BaseInv, StateOK
  <2>2. member[x] \in Members
    BY <1>2, <2>1 DEF Tables, Removable
  <2>3. [member[x] EXCEPT !.revoked = TRUE] \in Members
    BY <2>2 DEF Members
  <2>4. member' \in [MemberIds -> Members \cup {NoRow}]
    BY <1>2, <2>1, <2>3 DEF Tables
  <2>5. \A m \in MemberIds :
            /\ member[m] # NoRow <=> member'[m] # NoRow
            /\ member'[m].user = member[m].user /\ member'[m].club = member[m].club
    BY <1>2, <2>1, <2>2, <2>3, AccountsAssumption DEF Tables, Members
  <2>6. Tables' /\ Kept
    BY <1>2, <2>1, <2>4, <2>5 DEF Tables, Kept
  <2> QED
    BY <1>2, <2>6, AuditStep
<1> QED
  BY <1>1, <1>2 DEF RemoveMember

LEMMA InsertInviteStep ==
    ASSUME BaseInv, NEW h \in Handlers, InsertInvite(h)
    PROVE  BaseInv'
<1> DEFINE x == Fresh(invite)
           i == NewInvite(job[h])
<1>1. job[h] \in Requests /\ job[h].op = "create_invite" /\ Tables /\ today \in 0 .. MaxDay
  BY DEF BaseInv, StateOK, InsertInvite
<1>2. user[job[h].actor] # NoRow
  BY DEF BaseInv, HandlerOK, FoundBy, InsertInvite
<1>3. x \in InviteIds /\ invite[x] = NoRow
  BY <1>1 DEF Tables, InsertInvite, HasRoom, Fresh
<1>4. today + InviteDays \in Days
  BY <1>1, AccountsAssumption DEF Days
<1>5. i \in Invites /\ i.inviter = job[h].actor
  BY <1>1, <1>4, RequestType DEF NewInvite, Invites
<1>6. invite' = [invite EXCEPT ![x] = i] /\ UNCHANGED <<user, member>> /\ Go(h, "audit")
  BY DEF InsertInvite
<1>7. invite' \in [InviteIds -> Invites \cup {NoRow}]
  BY <1>1, <1>3, <1>5, <1>6 DEF Tables
<1>8. \A j \in InviteIds : invite'[j] = IF j = x THEN i ELSE invite[j]
  BY <1>1, <1>6 DEF Tables
<1>9. Tables' /\ Kept
  BY <1>1, <1>2, <1>3, <1>5, <1>6, <1>7, <1>8 DEF Tables, Kept
<1> QED
  BY <1>6, <1>9, AuditStep

LEMMA RevokeInviteStep ==
    ASSUME BaseInv, NEW h \in Handlers, RevokeInvite(h)
    PROVE  BaseInv'
<1>1. CASE Answer(h) /\ UNCHANGED tables
  BY <1>1, AnswerStep
<1>2. CASE /\ Revocable(job[h].invite)
           /\ invite' = [invite EXCEPT ![job[h].invite].revoked = TRUE]
           /\ Go(h, "audit")
           /\ UNCHANGED <<user, member>>
  <2> DEFINE x == job[h].invite
  <2>1. x \in InviteIds /\ Tables /\ invite[x] # NoRow
    BY RequestType DEF BaseInv, StateOK, HandlerOK, FoundBy, RevokeInvite
  <2>2. invite[x] \in Invites
    BY <2>1 DEF Tables
  <2>3. [invite[x] EXCEPT !.revoked = TRUE] \in Invites
    BY <2>2 DEF Invites
  <2>4. invite' \in [InviteIds -> Invites \cup {NoRow}]
    BY <1>2, <2>1, <2>3 DEF Tables
  <2>5. \A i \in InviteIds :
            /\ invite[i] # NoRow <=> invite'[i] # NoRow
            /\ invite'[i].inviter = invite[i].inviter /\ invite'[i].club = invite[i].club
    BY <1>2, <2>1, <2>2, <2>3, AccountsAssumption DEF Tables, Invites
  <2>6. Tables' /\ Kept
    BY <1>2, <2>1, <2>4, <2>5 DEF Tables, Kept
  <2> QED
    BY <1>2, <2>6, AuditStep
<1> QED
  BY <1>1, <1>2 DEF RevokeInvite

-----------------------------------------------------------------------------
(* AcceptClubInvite and Login. *)
LEMMA LookUpInviteStep ==
    ASSUME BaseInv, NEW h \in Handlers, LookUpInvite(h)
    PROVE  BaseInv'
<1> DEFINE l == [loc[h] EXCEPT !.invite = invite[job[h].invite]]
<1>1. pc[h] = "token" /\ UNCHANGED tables /\ job[h].op = "accept" /\ job[h] \in Requests
      /\ loc[h] \in Locals /\ Tables
  BY DEF BaseInv, StateOK, HandlerOK, PathOf, LookUpInvite
<1>2. CASE Answer(h)
  BY <1>1, <1>2, AnswerStep
<1>3. CASE Usable(job[h].invite) /\ Keep(h, "email", l)
  <2>1. job[h].invite \in InviteIds /\ invite[job[h].invite] # NoRow
    BY <1>1, <1>3, RequestType DEF Usable
  <2>2. invite[job[h].invite] \in Invites
    BY <1>1, <2>1 DEF Tables
  <2>3. l \in Locals /\ l.invite = invite[job[h].invite]
    BY <1>1, <2>2 DEF Locals
  <2>4. pc'[h] = "email" /\ UNCHANGED job[h] /\ loc'[h] = l
    BY <1>3, <2>3, KeepFrame DEF BaseInv, Labels
  <2>5. HandlerOK(h)'
    BY <1>1, <2>1, <2>2, <2>3, <2>4 DEF HandlerOK, PathOf, FoundBy, Accepting, tables
  <2> QED
    BY <1>1, <1>3, <2>3, <2>5, KeepStep DEF Labels
<1> QED
  BY <1>2, <1>3 DEF LookUpInvite

LEMMA FindEmailStep ==
    ASSUME BaseInv, NEW h \in Handlers, FindEmail(h)
    PROVE  BaseInv'
<1> DEFINE found == WithEmail(job[h].email)
           u == CHOOSE v \in found : TRUE
           l == [loc[h] EXCEPT !.user = u]
           label == IF job[h].op = "login" THEN "stamp" ELSE "member"
<1>1. pc[h] = "email" /\ UNCHANGED tables /\ PathOf(h) /\ FoundBy(h) /\ loc[h] \in Locals /\ Tables
  BY DEF BaseInv, StateOK, HandlerOK, FindEmail
<1>2. CASE Answer(h)
  BY <1>1, <1>2, AnswerStep
<1>3. CASE found = {} /\ job[h].op # "login" /\ Go(h, "insert_user")
  <2>1. pc'[h] = "insert_user" /\ UNCHANGED <<job[h], loc[h]>>
    BY <1>3, GoFrame DEF BaseInv, Labels
  <2>2. HandlerOK(h)'
    BY <1>1, <1>3, <2>1 DEF HandlerOK, PathOf, FoundBy, Accepting, tables
  <2> QED
    BY <1>1, <1>3, <2>2, GoStep DEF Labels
<1>4. CASE found # {} /\ job[h].op # "create_user" /\ Keep(h, label, l)
  <2>1. u \in found
    BY <1>4
  <2>2. u \in UserIds /\ user[u] # NoRow
    BY <1>1, <2>1 DEF WithEmail, Existing, Tables
  <2>3. l \in Locals /\ l.user = u /\ l.invite = loc[h].invite
    BY <1>1, <2>2 DEF Locals
  <2>4. pc'[h] = label /\ UNCHANGED job[h] /\ loc'[h] = l /\ label \in {"stamp", "member"}
    BY <1>4, <2>3, KeepFrame DEF BaseInv, Labels
  <2>5. HandlerOK(h)'
    BY <1>1, <1>4, <2>2, <2>3, <2>4 DEF HandlerOK, PathOf, FoundBy, Accepting, tables
  <2> QED
    BY <1>1, <1>4, <2>3, <2>5, KeepStep DEF Labels
<1> QED
  BY <1>2, <1>3, <1>4 DEF FindEmail

(* A statement of AcceptClubInvite that writes. *)
LEMMA WriteGoStep ==
    ASSUME BaseInv, NEW h \in Handlers, NEW label \in Labels, Go(h, label),
           Tables', Kept, HandlerOK(h)'
    PROVE  BaseInv'
  BY GoFrame, BaseInvStep DEF BaseInv

LEMMA InsertUserStep ==
    ASSUME BaseInv, NEW h \in Handlers, InsertUser(h)
    PROVE  BaseInv' /\ Kept
<1> DEFINE x == Fresh(user)
           n == NewUser(job[h])
           l == [loc[h] EXCEPT !.user = x]
<1>1. pc[h] = "insert_user" /\ PathOf(h) /\ FoundBy(h) /\ loc[h] \in Locals /\ job[h] \in Requests
      /\ Tables
  BY DEF BaseInv, StateOK, HandlerOK, InsertUser
<1>2. CASE Answer(h) /\ UNCHANGED tables
  BY <1>2, AnswerStep, KeptUnchanged
<1>3. CASE /\ user' = [user EXCEPT ![x] = n]
           /\ IF job[h].op = "accept" THEN Keep(h, "member", l) ELSE Go(h, "audit")
           /\ UNCHANGED <<member, invite>>
  <2>1. x \in UserIds /\ user[x] = NoRow
    BY <1>1 DEF Tables, InsertUser, HasRoom, Fresh
  <2>2. n \in Users
    BY <1>1, RequestType DEF PathOf, NewUser, Users, Roles
  <2>3. user' \in [UserIds -> Users \cup {NoRow}]
    BY <1>1, <1>3, <2>1, <2>2 DEF Tables
  <2>4. \A u \in UserIds : user'[u] = IF u = x THEN n ELSE user[u]
    BY <1>1, <1>3 DEF Tables
  <2>5. n # NoRow
    BY <2>2, AccountsAssumption
  <2>6. Tables' /\ Kept
    BY <1>1, <1>3, <2>1, <2>3, <2>4, <2>5 DEF Tables, Kept, Members, Invites
  <2>7. CASE job[h].op = "accept" /\ Keep(h, "member", l)
    <3>1. l \in Locals /\ l.user = x /\ l.invite = loc[h].invite
      BY <1>1, <2>1 DEF Locals
    <3>2. /\ StateOK' /\ pc'[h] = "member" /\ UNCHANGED job[h] /\ loc'[h] = l
          /\ \A g \in Handlers \ {h} : UNCHANGED <<pc[g], job[g], loc[g]>>
      BY <2>7, <3>1, KeepFrame DEF BaseInv, Labels
    <3>3. HandlerOK(h)'
      BY <1>1, <1>3, <2>1, <2>4, <2>5, <2>7, <3>1, <3>2 DEF HandlerOK, PathOf, FoundBy, Accepting
    <3> QED
      BY <2>6, <3>2, <3>3, BaseInvStep
  <2>8. CASE job[h].op # "accept" /\ Go(h, "audit")
    BY <2>6, <2>8, AuditStep
  <2> QED
    BY <1>3, <2>6, <2>7, <2>8
<1> QED
  BY <1>2, <1>3 DEF InsertUser

LEMMA FindMemberStep ==
    ASSUME BaseInv, NEW h \in Handlers, FindMember(h)
    PROVE  BaseInv'
<1>1. pc[h] = "member" /\ UNCHANGED tables /\ PathOf(h) /\ FoundBy(h)
  BY DEF BaseInv, HandlerOK, FindMember
<1>2. CASE Answer(h)
  BY <1>1, <1>2, AnswerStep
<1>3. CASE Go(h, "insert_member")
  <2>1. pc'[h] = "insert_member" /\ UNCHANGED <<job[h], loc[h]>>
    BY <1>3, GoFrame DEF BaseInv, Labels
  <2>2. HandlerOK(h)'
    BY <1>1, <2>1 DEF HandlerOK, PathOf, FoundBy, Accepting, tables
  <2> QED
    BY <1>1, <1>3, <2>2, GoStep DEF Labels
<1>4. CASE /\ Found(loc[h].user, Offered(h).club) # {}
           /\ job[h].op = "accept" /\ Go(h, "use")
  <2>1. pc'[h] = "use" /\ UNCHANGED <<job[h], loc[h]>>
    BY <1>4, GoFrame DEF BaseInv, Labels
  <2>2. HasMembership(loc[h].user, loc[h].invite.club)
    BY <1>4 DEF Found, Current, Offered, Existing, HasMembership, BaseInv, Tables
  <2>3. HandlerOK(h)'
    BY <1>1, <1>4, <2>1, <2>2
       DEF HandlerOK, PathOf, FoundBy, Accepting, HasMembership, tables
  <2> QED
    BY <1>1, <1>4, <2>3, GoStep DEF Labels
<1> QED
  BY <1>2, <1>3, <1>4 DEF FindMember

LEMMA InsertMemberStep ==
    ASSUME BaseInv, NEW h \in Handlers, InsertMember(h)
    PROVE  BaseInv' /\ Kept
<1> DEFINE x == Fresh(member)
           n == NewMember(h)
           label == IF job[h].op = "accept" THEN "audit_member" ELSE "audit"
<1>1. /\ pc[h] = "insert_member" /\ PathOf(h) /\ FoundBy(h) /\ job[h] \in Requests
      /\ Tables
  BY DEF BaseInv, StateOK, HandlerOK, InsertMember
<1>2. CASE Answer(h) /\ UNCHANGED tables
  BY <1>2, AnswerStep, KeptUnchanged
<1>3. CASE member' = [member EXCEPT ![x] = n] /\ Go(h, label) /\ UNCHANGED <<user, invite>>
  <2>1. x \in MemberIds /\ member[x] = NoRow
    BY <1>1 DEF Tables, InsertMember, HasRoom, Fresh
  <2>2. Offered(h).role \in ClubRoles /\ Offered(h).club \in Clubs
    BY <1>1, RequestType DEF Offered, PathOf, FoundBy, Accepting, Invites
  <2>3. n \in Members /\ n.user = loc[h].user /\ n.club = Offered(h).club
    BY <1>1, <2>2, RequestType DEF NewMember, Members, FoundBy
  <2>4. n # NoRow
    BY <2>3, AccountsAssumption
  <2>5. member' \in [MemberIds -> Members \cup {NoRow}]
    BY <1>1, <1>3, <2>1, <2>3 DEF Tables
  <2>6. \A m \in MemberIds : member'[m] = IF m = x THEN n ELSE member[m]
    BY <1>1, <1>3 DEF Tables
  <2>7. Tables' /\ Kept
    BY <1>1, <1>3, <2>1, <2>3, <2>4, <2>5, <2>6 DEF Tables, Kept, FoundBy
  <2>8. pc'[h] = label /\ UNCHANGED <<job[h], loc[h]>>
    BY <1>3, GoFrame DEF BaseInv, Labels
  <2>9. job[h].op = "accept" => HasMembership(loc[h].user, loc[h].invite.club)'
    BY <2>1, <2>3, <2>4, <2>6, <2>8 DEF HasMembership, Offered
  <2>10. HandlerOK(h)'
    BY <1>1, <1>3, <2>8, <2>9 DEF HandlerOK, PathOf, FoundBy, Accepting
  <2> QED
    BY <1>3, <2>7, <2>10, WriteGoStep DEF Labels
<1> QED
  BY <1>2, <1>3 DEF InsertMember

(* The invite a handler uses: what the statement makes of it.              *)
LEMMA UsedByType ==
    ASSUME NEW i \in Invites, NEW u \in UserIds
    PROVE  /\ UsedBy(i, u) \in Invites
           /\ UsedBy(i, u) = [i EXCEPT !.uses = i.uses + 1, !.acceptedBy = u]
           /\ UsedBy(i, u).uses = i.uses + 1 /\ UsedBy(i, u).acceptedBy = u
           /\ UsedBy(i, u).club = i.club /\ UsedBy(i, u).inviter = i.inviter
           /\ UsedBy(i, u).revoked = i.revoked
<1>1. i.uses + 1 \in Nat /\ i.uses + 1 >= MaxUses
  BY DEF Invites, MaxUses
<1> QED
  BY <1>1 DEF UsedBy, Invites

LEMMA UseInviteStep ==
    ASSUME BaseInv, NEW h \in Handlers, UseInvite(h)
    PROVE  /\ BaseInv'
           /\ pc[h] = "use" /\ Accepting(h)
           /\ job[h].invite \in InviteIds
           /\ invite[job[h].invite] \in Invites /\ invite[job[h].invite] # NoRow
           /\ invite' = [invite EXCEPT ![job[h].invite] = UsedBy(@, loc[h].user)]
           /\ loc[h].user \in UserIds
<1> DEFINE x == job[h].invite
           u == loc[h].user
<1>1. pc[h] = "use" /\ Accepting(h) /\ Tables /\ FoundBy(h) /\ x \in InviteIds
  BY RequestType DEF BaseInv, StateOK, HandlerOK, PathOf, Accepting, UseInvite
<1>2. u \in UserIds /\ invite[x] # NoRow /\ invite[x] \in Invites
  BY <1>1 DEF FoundBy, Tables
<1>3. invite' = [invite EXCEPT ![x] = UsedBy(invite[x], u)] /\ UNCHANGED <<user, member>>
  BY DEF UseInvite
<1>4. invite' \in [InviteIds -> Invites \cup {NoRow}]
  BY <1>1, <1>2, <1>3, UsedByType DEF Tables
<1>5. \A i \in InviteIds :
          /\ invite[i] # NoRow <=> invite'[i] # NoRow
          /\ invite'[i].inviter = invite[i].inviter /\ invite'[i].club = invite[i].club
  <2>1. \A i \in InviteIds : invite'[i] = IF i = x THEN UsedBy(invite[x], u) ELSE invite[i]
    BY <1>1, <1>3 DEF Tables
  <2>2. /\ UsedBy(invite[x], u) # NoRow
        /\ UsedBy(invite[x], u).inviter = invite[x].inviter
        /\ UsedBy(invite[x], u).club = invite[x].club
    <3>1. UsedBy(invite[x], u) \in Invites
      BY <1>2, UsedByType
    <3>2. NoRow \notin Invites
      BY AccountsAssumption
    <3> QED
      BY <1>2, <3>1, <3>2, UsedByType
  <2> QED
    BY <1>2, <2>1, <2>2
<1>6. Tables' /\ Kept
  BY <1>1, <1>3, <1>4, <1>5 DEF Tables, Kept
<1>7. BaseInv'
  BY <1>6, AuditStep DEF UseInvite
<1> QED
  BY <1>1, <1>2, <1>3, <1>7

LEMMA AuditLogStep ==
    ASSUME BaseInv, NEW h \in Handlers, Audit(h)
    PROVE  BaseInv'
<1>1. UNCHANGED tables /\ PathOf(h) /\ FoundBy(h)
  BY DEF BaseInv, HandlerOK, Audit
<1>2. CASE Answer(h)
  BY <1>1, <1>2, AnswerStep
<1>3. CASE Go(h, "stamp")
  <2>1. pc'[h] = "stamp"
    BY <1>3, GoFrame DEF BaseInv, Labels
  <2>2. HandlerOK(h)'
    BY <2>1 DEF HandlerOK, PathOf, FoundBy, Accepting
  <2> QED
    BY <1>1, <1>3, <2>2, GoStep DEF Labels
<1>4. CASE pc[h] = "audit_member" /\ Go(h, "use")
  <2>1. pc'[h] = "use" /\ UNCHANGED <<job[h], loc[h]>>
    BY <1>4, GoFrame DEF BaseInv, Labels
  <2>2. HandlerOK(h)'
    BY <1>1, <1>4, <2>1 DEF HandlerOK, PathOf, FoundBy, Accepting, HasMembership, tables
  <2> QED
    BY <1>1, <1>4, <2>2, GoStep DEF Labels
<1> QED
  BY <1>2, <1>3, <1>4 DEF Audit

-----------------------------------------------------------------------------
(* EnsureBootstrapSysAdmin changes one row, and leaves an administrator.   *)
LEMMA BootstrapRow ==
    ASSUME Tables, \E v \in Existing(user) : user[v].email = AdminEmail
    PROVE  \E u \in UserIds, n \in Users :
              /\ user[u] # NoRow /\ n.role = "sys_admin"
              /\ Bootstrapped(user) = [user EXCEPT ![u] = n]
<1> DEFINE u == CHOOSE v \in Existing(user) : user[v].email = AdminEmail
           n == [email |-> AdminEmail, role |-> "sys_admin", pass |-> AdminPassword,
                 active |-> TRUE]
<1>1. u \in UserIds /\ user[u] # NoRow
  BY DEF Tables, Existing
<1>2. n \in Users /\ n.role = "sys_admin"
  BY AccountsAssumption DEF Users, Roles
<1>3. Bootstrapped(user) = [user EXCEPT ![u] = n]
  BY DEF Bootstrapped
<1> QED
  BY <1>1, <1>2, <1>3

LEMMA RestartStep ==
    ASSUME BaseInv, Restart
    PROVE  BaseInv'
<1>1. Tables
  BY DEF BaseInv
<1>2. PICK u \in UserIds, n \in Users :
          user[u] # NoRow /\ n.role = "sys_admin" /\ user' = [user EXCEPT ![u] = n]
  BY <1>1, BootstrapRow DEF Restart
<1>3. n # NoRow
  BY AccountsAssumption
<1>4. Tables'
  BY <1>1, <1>2, <1>3 DEF Restart, Tables, Members, Invites
<1>5. AnyRequest \in Requests
  BY AccountsAssumption DEF AnyRequest
<1>6. StateOK'
  BY <1>5 DEF Restart, BaseInv, StateOK, Labels, Locals, Nothing
<1>7. \A h \in Handlers : HandlerOK(h)'
  BY HandlerIdle DEF Restart
<1> QED
  BY <1>4, <1>6, <1>7 DEF BaseInv

(* Steps of the environment. *)
LEMMA OutsideStep ==
    ASSUME BaseInv, NextDay \/ (\E c \in Clubs : CloseClub(c)) \/ UNCHANGED vars
    PROVE  BaseInv'
<1>1. UNCHANGED <<user, member, invite, pc, job, loc>>
  BY DEF NextDay, CloseClub, vars, tables
<1>2. StateOK'
  BY <1>1, AccountsAssumption DEF BaseInv, StateOK, NextDay, CloseClub, vars, env
<1>3. \A h \in Handlers : HandlerOK(h)'
  BY <1>1, KeptUnchanged, HandlerKept DEF tables
<1> QED
  BY <1>1, <1>2, <1>3, TablesUnchanged DEF BaseInv, tables

LEMMA BaseNext == BaseInv /\ [Next]_vars => BaseInv'
<1> SUFFICES ASSUME BaseInv, [Next]_vars PROVE BaseInv'
  OBVIOUS
<1>1. ASSUME NEW h \in Handlers, NEW q \in Requests, Begin(h, q) PROVE BaseInv'
  BY <1>1, BeginStep
<1>2. ASSUME NEW h \in Handlers, Step(h) PROVE BaseInv'
  <2>1. CASE CheckActor(h) \/ FindTarget(h) \/ CheckOwner(h) \/ FindInvite(h)
    BY <2>1, CheckActorStep, FindTargetStep, CheckOwnerStep, FindInviteStep
  <2>2. CASE SetActive(h) \/ ResetPassword(h) \/ RemoveMember(h)
    BY <2>2, SetActiveStep, ResetPasswordStep, RemoveMemberStep
  <2>3. CASE InsertInvite(h) \/ RevokeInvite(h) \/ LookUpInvite(h) \/ FindEmail(h)
    BY <2>3, InsertInviteStep, RevokeInviteStep, LookUpInviteStep, FindEmailStep
  <2>4. CASE InsertUser(h) \/ FindMember(h) \/ InsertMember(h) \/ UseInvite(h)
    BY <2>4, InsertUserStep, FindMemberStep, InsertMemberStep, UseInviteStep
  <2>5. CASE Audit(h) \/ Stamp(h)
    BY <2>5, AuditLogStep, AnswerStep DEF Stamp
  <2> QED
    BY <1>2, <2>1, <2>2, <2>3, <2>4, <2>5 DEF Step
<1>3. ASSUME NEW h \in Handlers, Fail(h) PROVE BaseInv'
  BY <1>3, AnswerStep DEF Fail
<1>4. CASE Restart
  BY <1>4, RestartStep
<1> QED
  BY <1>1, <1>2, <1>3, <1>4, OutsideStep DEF Next

LEMMA BaseSafety == Spec => []BaseInv
  BY BaseInit, BaseNext, PTL DEF Spec

(* The tables and what every request has read of them are well formed, and *)
(* every membership and every invite belongs to users that exist.          *)
THEOREM TypeSafety == Spec => []TypeOK
<1>1. BaseInv => TypeOK
  BY DEF BaseInv, Tables, StateOK, Locals, TypeOK, Existing
<1> QED
  BY <1>1, BaseSafety, PTL

-----------------------------------------------------------------------------
(* Memberships: only two statements write them, and neither takes one away *)
(* from its user.                                                          *)
LEMMA MembersWritten ==
    ASSUME [Next]_vars
    PROVE  UNCHANGED member \/ \E h \in Handlers : InsertMember(h) \/ RemoveMember(h)
<1>1. ASSUME NEW h \in Handlers, Step(h), ~InsertMember(h), ~RemoveMember(h)
      PROVE  UNCHANGED member
  BY <1>1 DEF Step, CheckActor, FindTarget, CheckOwner, FindInvite, SetActive, ResetPassword,
              InsertInvite, RevokeInvite, LookUpInvite, FindEmail, InsertUser, FindMember,
              UseInvite, Audit, Stamp, tables
<1> QED
  BY <1>1 DEF Next, Begin, Fail, Restart, NextDay, CloseClub, vars, tables

LEMMA MembershipsStay ==
    ASSUME BaseInv, [Next]_vars, NEW u, NEW c, HasMembership(u, c)
    PROVE  HasMembership(u, c)'
<1>1. UNCHANGED member \/ Kept
  BY MembersWritten, InsertMemberStep, RemoveMemberStep
<1> QED
  BY <1>1 DEF HasMembership, Kept

LEMMA OneMembershipNext ==
    BaseInv /\ OneMembershipPerClub /\ [Next]_vars => OneMembershipPerClub'
<1> SUFFICES ASSUME BaseInv, OneMembershipPerClub, [Next]_vars PROVE OneMembershipPerClub'
  OBVIOUS
<1>1. member \in [MemberIds -> Members \cup {NoRow}] /\ NoRow \notin Members
  BY AccountsAssumption DEF BaseInv, Tables
<1>2. CASE UNCHANGED member
  BY <1>2 DEF OneMembershipPerClub, Existing
<1>3. ASSUME NEW h \in Handlers, RemoveMember(h) PROVE OneMembershipPerClub'
  <2> DEFINE x == job[h].member
  <2>1. CASE UNCHANGED tables
    BY <1>2, <2>1 DEF tables
  <2>2. CASE Removable(x) /\ member' = [member EXCEPT ![x].revoked = TRUE]
    <3>1. x \in MemberIds /\ member[x] \in Members
      BY <1>1, <2>2, RequestType DEF BaseInv, StateOK, Removable
    <3>2. \A m \in MemberIds :
              member'[m] = IF m = x THEN [member[x] EXCEPT !.revoked = TRUE] ELSE member[m]
      BY <1>1, <2>2
    <3>3. [member[x] EXCEPT !.revoked = TRUE].revoked
      BY <3>1 DEF Members
    <3>4. \A m \in Existing(member)' : ~member'[m].revoked =>
              m \in Existing(member) /\ member'[m] = member[m]
      BY <1>1, <2>2, <3>1, <3>2, <3>3 DEF Existing
    <3> QED
      BY <3>4 DEF OneMembershipPerClub
  <2> QED
    BY <1>3, <2>1, <2>2 DEF RemoveMember
<1>4. ASSUME NEW h \in Handlers, InsertMember(h) PROVE OneMembershipPerClub'
  <2> DEFINE x == Fresh(member)
             n == NewMember(h)
  <2>1. CASE UNCHANGED tables
    BY <1>2, <2>1 DEF tables
  <2>2. CASE ~MemberTaken(loc[h].user, Offered(h).club) /\ member' = [member EXCEPT ![x] = n]
    <3>1. x \in MemberIds /\ member[x] = NoRow
      BY <1>1, <1>4 DEF InsertMember, HasRoom, Fresh
    <3>2. \A m \in MemberIds : member'[m] = IF m = x THEN n ELSE member[m]
      BY <1>1, <2>2
    <3>3. \A m \in Existing(member)' : m = x \/ (m \in Existing(member) /\ member'[m] = member[m])
      BY <1>1, <2>2, <3>1, <3>2 DEF Existing
    <3>4. n.user = loc[h].user /\ n.club = Offered(h).club
      BY DEF NewMember
    <3>5. \A m \in Existing(member) :
              member[m].user = n.user /\ member[m].club = n.club => member[m].revoked
      BY <2>2, <3>4 DEF MemberTaken, Current
    <3>6. member'[x] = n
      BY <3>1, <3>2
    <3> QED
      BY <3>3, <3>5, <3>6 DEF OneMembershipPerClub
  <2> QED
    BY <1>4, <2>1, <2>2 DEF InsertMember
<1> QED
  BY <1>2, <1>3, <1>4, MembersWritten

(* A user has at most one current membership in a club, however the        *)
(* requests that look for one and insert it overlap.                       *)
THEOREM OneMembershipSafety == Spec => []OneMembershipPerClub
<1>1. Init => OneMembershipPerClub
  BY DEF Init, OneMembershipPerClub, Existing
<1> QED
  BY <1>1, OneMembershipNext, BaseSafety, PTL DEF Spec

-----------------------------------------------------------------------------
(* Invites: the statements that write them. *)
LEMMA InvitesWritten ==
    ASSUME [Next]_vars
    PROVE  \/ UNCHANGED invite
           \/ \E h \in Handlers : InsertInvite(h) \/ RevokeInvite(h) \/ UseInvite(h)
<1>1. ASSUME NEW h \in Handlers, Step(h), ~InsertInvite(h), ~RevokeInvite(h), ~UseInvite(h)
      PROVE  UNCHANGED invite
  BY <1>1 DEF Step, CheckActor, FindTarget, CheckOwner, FindInvite, SetActive, ResetPassword,
              RemoveMember, LookUpInvite, FindEmail, InsertUser, FindMember,
              InsertMember, Audit, Stamp, tables
<1> QED
  BY <1>1 DEF Next, Begin, Fail, Restart, NextDay, CloseClub, vars, tables

(* What a step makes of an invite: nothing, a new one, a revoked one that  *)
(* was not used before, or one used once more by an accepting request.     *)
LEMMA InviteChange ==
    ASSUME BaseInv, [Next]_vars, NEW i \in InviteIds
    PROVE  \/ invite'[i] = invite[i]
           \/ invite[i] = NoRow /\ invite'[i] \in Invites /\ invite'[i].uses = 0
           \/ /\ invite[i] \in Invites /\ invite[i].acceptedBy = NoRow
              /\ invite'[i] = [invite[i] EXCEPT !.revoked = TRUE]
           \/ \E h \in Handlers :
                 /\ UseInvite(h) /\ job[h].invite = i
                 /\ invite[i] \in Invites /\ loc[h].user \in UserIds
                 /\ invite'[i] = [invite[i] EXCEPT !.uses = invite[i].uses + 1,
                                              !.acceptedBy = loc[h].user]
<1>1. invite \in [InviteIds -> Invites \cup {NoRow}] /\ NoRow \notin Invites
  BY AccountsAssumption DEF BaseInv, Tables
<1>2. CASE UNCHANGED invite
  BY <1>2
<1>3. ASSUME NEW h \in Handlers, InsertInvite(h)
      PROVE  invite'[i] = invite[i] \/ (invite[i] = NoRow /\ invite'[i] \in Invites
                                          /\ invite'[i].uses = 0)
  <2>1. Fresh(invite) \in InviteIds /\ invite[Fresh(invite)] = NoRow
    BY <1>1, <1>3 DEF InsertInvite, HasRoom, Fresh
  <2>2. invite'[i] = IF i = Fresh(invite) THEN NewInvite(job[h]) ELSE invite[i]
    BY <1>1, <1>3 DEF InsertInvite
  <2>3. NewInvite(job[h]).uses = 0
    BY DEF NewInvite
  <2>4. NewInvite(job[h]) # NoRow
    <3>1. today + InviteDays \in Days /\ job[h] \in Requests /\ job[h].op = "create_invite"
      BY <1>3, AccountsAssumption DEF BaseInv, StateOK, Days, InsertInvite
    <3>2. NewInvite(job[h]) \in Invites
      BY <3>1, RequestType DEF NewInvite, Invites
    <3> QED
      BY <1>1, <3>2
  <2>5. invite' \in [InviteIds -> Invites \cup {NoRow}]
    BY <1>3, InsertInviteStep DEF BaseInv, Tables
  <2> QED
    BY <2>1, <2>2, <2>3, <2>4, <2>5
<1>4. ASSUME NEW h \in Handlers, RevokeInvite(h)
      PROVE  invite'[i] = invite[i] \/ (/\ invite[i] \in Invites /\ invite[i].acceptedBy = NoRow
                                        /\ invite'[i] = [invite[i] EXCEPT !.revoked = TRUE])
  <2> DEFINE x == job[h].invite
  <2>1. x \in InviteIds /\ invite[x] # NoRow
    BY <1>4, RequestType DEF BaseInv, StateOK, HandlerOK, FoundBy, RevokeInvite
  <2>2. CASE UNCHANGED tables
    BY <2>2 DEF tables
  <2>3. CASE Revocable(x) /\ invite' = [invite EXCEPT ![x].revoked = TRUE]
    <3>1. invite'[i] = IF i = x THEN [invite[x] EXCEPT !.revoked = TRUE] ELSE invite[i]
      BY <1>1, <2>3
    <3> QED
      BY <1>1, <2>1, <2>3, <3>1 DEF Revocable
  <2> QED
    BY <1>4, <2>2, <2>3 DEF RevokeInvite
<1>5. ASSUME NEW h \in Handlers, UseInvite(h)
      PROVE  invite'[i] = invite[i] \/ (/\ job[h].invite = i
                                        /\ invite[i] \in Invites /\ loc[h].user \in UserIds
                                        /\ invite'[i] = [invite[i] EXCEPT
                                                           !.uses = invite[i].uses + 1,
                                                           !.acceptedBy = loc[h].user])
  <2>1. /\ job[h].invite \in InviteIds /\ invite[job[h].invite] \in Invites /\ loc[h].user \in UserIds
        /\ invite' = [invite EXCEPT ![job[h].invite] = UsedBy(@, loc[h].user)]
    BY <1>5, UseInviteStep
  <2>2. CASE job[h].invite # i
    BY <1>1, <2>1, <2>2
  <2>3. CASE job[h].invite = i
    <3>1. invite'[i] = UsedBy(invite[i], loc[h].user)
      BY <1>1, <2>1, <2>3
    <3>2. UsedBy(invite[i], loc[h].user) = [invite[i] EXCEPT !.uses = invite[i].uses + 1,
                                                             !.acceptedBy = loc[h].user]
      BY <2>1, <2>3, UsedByType
    <3> QED
      BY <2>1, <2>3, <3>1, <3>2
  <2> QED
    BY <2>2, <2>3
<1> QED
  BY <1>2, <1>3, <1>4, <1>5, InvitesWritten

(* Wherever a request fails, an invite is never used up before its user    *)
(* has the membership it is for: accepting makes the membership first, and *)
(* the handler knows of it when it uses the invite.                        *)
THEOREM UsedGivesMembershipSafety == Spec => []UsedGivesMembership
<1> DEFINE Used == \A i \in InviteIds : invite[i] # NoRow /\ invite[i].uses > 0 =>
                       HasMembership(invite[i].acceptedBy, invite[i].club)
<1>1. Init => Used
  BY DEF Init
<1>2. BaseInv /\ Used /\ [Next]_vars => Used'
  <2> SUFFICES ASSUME BaseInv, Used, [Next]_vars, NEW i \in InviteIds,
                      invite'[i] # NoRow, invite'[i].uses > 0
               PROVE  HasMembership(invite[i].acceptedBy, invite[i].club)'
    OBVIOUS
  <2>1. CASE invite'[i] = invite[i]
    BY <2>1, MembershipsStay DEF HasMembership
  <2>2. CASE invite'[i].uses = 0
    BY <2>2
  <2>3. CASE invite[i] \in Invites /\ invite'[i] = [invite[i] EXCEPT !.revoked = TRUE]
    <3>1. /\ invite'[i].uses = invite[i].uses /\ invite'[i].club = invite[i].club
          /\ invite'[i].acceptedBy = invite[i].acceptedBy /\ invite[i] # NoRow
      BY <2>3, AccountsAssumption DEF Invites
    <3> QED
      BY <3>1, MembershipsStay DEF HasMembership
  <2>4. ASSUME NEW h \in Handlers, UseInvite(h), job[h].invite = i, invite[i] \in Invites,
               loc[h].user \in UserIds,
               invite'[i] = [invite[i] EXCEPT !.uses = invite[i].uses + 1,
                                              !.acceptedBy = loc[h].user]
        PROVE  HasMembership(invite[i].acceptedBy, invite[i].club)'
    <3>1. /\ HasMembership(loc[h].user, loc[h].invite.club)
          /\ invite[i].club = loc[h].invite.club
      BY <2>4, UseInviteStep DEF BaseInv, HandlerOK, FoundBy
    <3>2. invite'[i].acceptedBy = loc[h].user /\ invite'[i].club = invite[i].club
      BY <2>4 DEF Invites
    <3> QED
      BY <3>1, <3>2, MembershipsStay DEF HasMembership
  <2> QED
    BY <2>1, <2>2, <2>3, <2>4, InviteChange
<1>3. BaseInv /\ Used => UsedGivesMembership
  BY DEF BaseInv, Tables, UsedGivesMembership, Existing, HasMembership
<1> QED
  BY <1>1, <1>2, <1>3, BaseSafety, PTL DEF Spec

(* A used invite is not revoked afterwards, whatever its revoker has read. *)
THEOREM UsedStaysUsed == Spec => UsedIsFinal
<1>1. BaseInv /\ [Next]_vars =>
          [\A i \in InviteIds :
              invite[i] # NoRow /\ invite[i].acceptedBy # NoRow /\ ~invite[i].revoked =>
                  ~invite'[i].revoked]_vars
  <2> SUFFICES ASSUME BaseInv, [Next]_vars, NEW i \in InviteIds,
                      invite[i] # NoRow, invite[i].acceptedBy # NoRow, ~invite[i].revoked
               PROVE  ~invite'[i].revoked
    OBVIOUS
  <2>1. CASE invite'[i] = invite[i]
    BY <2>1
  <2>2. ASSUME NEW h \in Handlers, invite[i] \in Invites, loc[h].user \in UserIds,
               invite'[i] = [invite[i] EXCEPT !.uses = invite[i].uses + 1,
                                              !.acceptedBy = loc[h].user]
        PROVE  ~invite'[i].revoked
    BY <2>2 DEF Invites
  <2> QED
    BY <2>1, <2>2, InviteChange
<1> QED
  BY <1>1, BaseSafety, PTL DEF Spec, UsedIsFinal

-----------------------------------------------------------------------------
(* Deactivating: the administrator who does it was one when it was         *)
(* checked, still is one, and cannot be the one deactivated.               *)
THEOREM AdminsRemain == Spec => AnAdminStays
<1>1. ASSUME BaseInv, NEW h \in Handlers, SetActive(h), user[job[h].actor].active
      PROVE  ActiveAdmins' # {}
  <2> DEFINE a == job[h].actor
             x == job[h].user
  <2>1. /\ a \in UserIds /\ x \in UserIds /\ user[a] # NoRow /\ user[x] # NoRow
        /\ user[a].role = "sys_admin" /\ ~SelfDeactivation(job[h])
        /\ pc[h] = "write" /\ job[h].op = "set_active" /\ job[h].active \in BOOLEAN
    BY <1>1, RequestType DEF BaseInv, StateOK, HandlerOK, FoundBy, SetActive
  <2>2. user \in [UserIds -> Users \cup {NoRow}] /\ NoRow \notin Users
    BY <1>1, AccountsAssumption DEF BaseInv, Tables
  <2>3. user'[a] = IF a = x THEN [user[a] EXCEPT !.active = job[h].active] ELSE user[a]
    BY <1>1, <2>1, <2>2 DEF SetActive, Activated
  <2>4. a = x => job[h].active
    BY <2>1 DEF SelfDeactivation
  <2>5. user[a] \in Users
    BY <2>1, <2>2
  <2>6. user'[a].active /\ user'[a].role = "sys_admin"
    BY <1>1, <2>1, <2>3, <2>4, <2>5 DEF Users
  <2>7. user'[a] # NoRow /\ DOMAIN user' = UserIds
    BY <1>1, <2>1, SetActiveStep DEF Kept, BaseInv, Tables
  <2> QED
    BY <2>1, <2>6, <2>7 DEF ActiveAdmins, Existing
<1>2. BaseInv /\ [Next]_vars =>
          [\A h \in Handlers : SetActive(h) /\ user[job[h].actor].active => ActiveAdmins' # {}]_vars
  BY <1>1
<1> QED
  BY <1>2, BaseSafety, PTL DEF Spec, AnAdminStays

-----------------------------------------------------------------------------
(* Requests that accept the same invite.  One joins them only by looking   *)
(* up the invite before it is used; the one that uses it leaves them.      *)
Acceptors(i) == {h \in Handlers : Accepting(h) /\ job[h].invite = i}

LEMMA HandlerFrame ==
    ASSUME StateOK, NEW h \in Handlers, Step(h)
    PROVE  /\ \A g \in Handlers \ {h} : UNCHANGED <<pc[g], job[g]>>
           /\ pc'[h] = "idle" \/ UNCHANGED job[h]
<1>1. ASSUME Answer(h)
      PROVE  pc'[h] = "idle" /\ \A g \in Handlers \ {h} : UNCHANGED <<pc[g], job[g]>>
  BY <1>1, AnswerFrame
<1>2. ASSUME NEW label, Go(h, label) \/ (\E l : Keep(h, label, l))
      PROVE  UNCHANGED job[h] /\ \A g \in Handlers \ {h} : UNCHANGED <<pc[g], job[g]>>
  BY <1>2 DEF Go, Keep, StateOK
<1>3. CASE CheckActor(h) \/ FindTarget(h) \/ CheckOwner(h) \/ FindInvite(h) \/ SetActive(h)
  BY <1>1, <1>2, <1>3 DEF CheckActor, FindTarget, CheckOwner, FindInvite, SetActive
<1>4. CASE ResetPassword(h) \/ RemoveMember(h) \/ InsertInvite(h) \/ RevokeInvite(h)
  BY <1>1, <1>2, <1>4 DEF ResetPassword, RemoveMember, InsertInvite, RevokeInvite
<1>5. CASE LookUpInvite(h) \/ FindEmail(h) \/ InsertUser(h) \/ FindMember(h)
  BY <1>1, <1>2, <1>5 DEF LookUpInvite, FindEmail, InsertUser, FindMember
<1>6. CASE InsertMember(h) \/ UseInvite(h) \/ Audit(h) \/ Stamp(h)
  BY <1>1, <1>2, <1>6 DEF InsertMember, UseInvite, Audit, Stamp
<1> QED
  BY <1>3, <1>4, <1>5, <1>6 DEF Step

LEMMA AcceptorStep ==
    ASSUME BaseInv, NEW h \in Handlers, Step(h), Accepting(h)'
    PROVE  /\ UNCHANGED job[h]
           /\ Accepting(h) \/ (UNCHANGED invite /\ Usable(job[h].invite))
           /\ ~UseInvite(h)
<1> DEFINE Accepts == {"email", "insert_user", "member", "insert_member", "audit_member", "use"}
<1>1. StateOK /\ PathOf(h) /\ pc'[h] \in Accepts /\ job'[h].op = "accept"
  BY DEF BaseInv, HandlerOK, Accepting
<1>2. UNCHANGED job[h]
  BY <1>1, HandlerFrame
<1>3. ~Answer(h)
  BY <1>1, AnswerFrame
<1>4. \A label : Go(h, label) => pc'[h] = label
  BY <1>1 DEF Go, StateOK
<1>5. \A label, l : Keep(h, label, l) => pc'[h] = label
  BY <1>1 DEF Keep, StateOK
<1>6. job[h].op = "accept"
  BY <1>1, <1>2
<1>7. ~CheckActor(h)
  <2>1. \A b : AfterActor(job[h], b) \notin Accepts
    BY <1>6 DEF AfterActor
  <2> QED
    BY <1>1, <1>3, <1>5, <2>1 DEF CheckActor
<1>8. ~FindTarget(h) /\ ~CheckOwner(h) /\ ~FindInvite(h)
  BY <1>1, <1>6 DEF FindTarget, CheckOwner, FindInvite, PathOf
<1>9. ~SetActive(h) /\ ~ResetPassword(h) /\ ~RemoveMember(h) /\ ~InsertInvite(h) /\ ~RevokeInvite(h)
  BY <1>6 DEF SetActive, ResetPassword, RemoveMember, InsertInvite, RevokeInvite
<1>10. ~UseInvite(h) /\ ~Stamp(h)
  BY <1>1, <1>3, <1>4 DEF UseInvite, Stamp
<1>11. LookUpInvite(h) => UNCHANGED invite /\ Usable(job[h].invite)
  BY <1>3 DEF LookUpInvite, tables
<1>12. FindEmail(h) \/ InsertUser(h) \/ FindMember(h) \/ InsertMember(h) => pc[h] \in Accepts
  BY DEF FindEmail, InsertUser, FindMember, InsertMember
<1>13. Audit(h) => pc[h] \in Accepts
  BY <1>1, <1>3, <1>4 DEF Audit
<1> QED
  BY <1>2, <1>6, <1>7, <1>8, <1>9, <1>10, <1>11, <1>12, <1>13 DEF Step, Accepting

(* Once an invite is used, no request joins those that accept it.          *)
LEMMA AcceptorsShrink ==
    ASSUME BaseInv, [Next]_vars, NEW i \in InviteIds,
           invite[i] \in Invites, invite[i].uses > 0
    PROVE  /\ Acceptors(i)' \subseteq Acceptors(i)
           /\ \A h \in Handlers : UseInvite(h) => h \notin Acceptors(i)'
<1> SUFFICES ASSUME NEW g \in Handlers, Accepting(g)', job'[g].invite = i
             PROVE  Accepting(g) /\ job[g].invite = i /\ ~UseInvite(g)
  BY DEF Acceptors
<1>1. ~Usable(i)
  BY DEF Usable, Invites, MaxUses
<1>2. StateOK
  BY DEF BaseInv
<1>3. ASSUME NEW h \in Handlers, Step(h) PROVE Accepting(g) /\ job[g].invite = i
  <2>1. CASE g = h
    BY <1>1, <1>3, <2>1, AcceptorStep
  <2>2. CASE g # h
    BY <1>2, <1>3, <2>2, HandlerFrame DEF Accepting
  <2> QED
    BY <2>1, <2>2
<1>4. ASSUME NEW h \in Handlers, NEW q \in Requests, Begin(h, q)
      PROVE  Accepting(g) /\ job[g].invite = i
  BY <1>2, <1>4 DEF Begin, StateOK, Accepting
<1>5. ASSUME NEW h \in Handlers, Fail(h) PROVE Accepting(g) /\ job[g].invite = i
  BY <1>2, <1>5, AnswerFrame DEF Fail, Answer, StateOK, Accepting
<1>6. ~Restart
  BY DEF Restart, Accepting
<1>7. ASSUME NextDay \/ (\E c \in Clubs : CloseClub(c)) \/ UNCHANGED vars
      PROVE  Accepting(g) /\ job[g].invite = i
  <2>1. UNCHANGED <<pc, job>>
    BY <1>7 DEF NextDay, CloseClub, vars
  <2> QED
    BY <2>1 DEF Accepting
<1>8. ~UseInvite(g)
  <2>1. UseInvite(g) => Step(g)
    BY DEF Step
  <2> QED
    BY <2>1, AcceptorStep
<1> QED
  BY <1>3, <1>4, <1>5, <1>6, <1>7, <1>8 DEF Next

(* The uses of an invite and the requests that may still use it are        *)
(* together no more than the requests that are handled at the same time.   *)
UsesInv ==
    \A i \in InviteIds : invite[i] # NoRow /\ invite[i].uses > 0 =>
        invite[i].uses + Cardinality(Acceptors(i)) <= Cardinality(Handlers)

LEMMA AcceptorsFinite ==
    ASSUME NEW S \in SUBSET Handlers
    PROVE  IsFiniteSet(S) /\ Cardinality(S) \in Nat /\ Cardinality(S) <= Cardinality(Handlers)
  BY AccountsAssumption, FS_Subset, FS_CardinalityType

LEMMA UsesNext == BaseInv /\ UsesInv /\ [Next]_vars => UsesInv'
<1> SUFFICES ASSUME BaseInv, UsesInv, [Next]_vars, NEW i \in InviteIds,
                    invite'[i] # NoRow, invite'[i].uses > 0
             PROVE  invite'[i].uses + Cardinality(Acceptors(i)') <= Cardinality(Handlers)
  BY DEF UsesInv
<1>1. Acceptors(i) \subseteq Handlers /\ Acceptors(i)' \subseteq Handlers
  BY DEF Acceptors
<1>2. Cardinality(Handlers) \in Nat /\ IsFiniteSet(Handlers)
  BY AccountsAssumption, FS_CardinalityType
<1>3. ASSUME invite[i] \in Invites, invite'[i].uses = invite[i].uses
      PROVE  invite'[i].uses + Cardinality(Acceptors(i)') <= Cardinality(Handlers)
  <2>1. Acceptors(i)' \subseteq Acceptors(i) /\ invite[i] # NoRow
    BY <1>3, AcceptorsShrink, AccountsAssumption
  <2>2. Cardinality(Acceptors(i)') <= Cardinality(Acceptors(i))
    BY <1>1, <2>1, AcceptorsFinite, FS_Subset
  <2>3. invite[i].uses \in Nat
    BY <1>3 DEF Invites
  <2>4. /\ Cardinality(Acceptors(i)) \in Nat
        /\ Cardinality(Acceptors(i)') \in Nat
    BY <1>1, AcceptorsFinite
  <2> QED
    BY <1>2, <1>3, <2>1, <2>2, <2>3, <2>4 DEF UsesInv
<1>4. CASE invite'[i] = invite[i]
  BY <1>3, <1>4 DEF BaseInv, Tables
<1>5. CASE invite'[i].uses = 0
  BY <1>5
<1>6. CASE invite[i] \in Invites /\ invite'[i] = [invite[i] EXCEPT !.revoked = TRUE]
  BY <1>3, <1>6 DEF Invites
<1>7. ASSUME NEW h \in Handlers, UseInvite(h), job[h].invite = i, invite[i] \in Invites,
             invite'[i] = [invite[i] EXCEPT !.uses = invite[i].uses + 1,
                                            !.acceptedBy = loc[h].user]
      PROVE  invite'[i].uses + Cardinality(Acceptors(i)') <= Cardinality(Handlers)
  <2>1. invite[i].uses \in Nat /\ invite'[i].uses = invite[i].uses + 1 /\ invite[i] # NoRow
    BY <1>7, AccountsAssumption DEF Invites
  <2>2. h \in Acceptors(i)
    BY <1>7, UseInviteStep DEF Acceptors
  <2>3. h \notin Acceptors(i)'
    <3>1. UseInvite(h) => Step(h)
      BY DEF Step
    <3> QED
      BY <1>7, <3>1, AcceptorStep DEF Acceptors
  <2>4. CASE invite[i].uses = 0
    <3>1. Acceptors(i)' \subseteq Handlers \ {h}
      BY <1>1, <2>3
    <3>2. /\ IsFiniteSet(Handlers \ {h})
          /\ Cardinality(Handlers \ {h}) = Cardinality(Handlers) - 1
      BY <1>2, FS_RemoveElement
    <3>3. Cardinality(Acceptors(i)') <= Cardinality(Handlers) - 1
      BY <3>1, <3>2, FS_Subset
    <3>4. Cardinality(Acceptors(i)') \in Nat
      BY <1>1, AcceptorsFinite
    <3> QED
      BY <1>2, <2>1, <2>4, <3>3, <3>4
  <2>5. CASE invite[i].uses > 0
    <3>1. Acceptors(i)' \subseteq Acceptors(i) \ {h}
      BY <1>7, <2>3, <2>5, AcceptorsShrink
    <3>2. IsFiniteSet(Acceptors(i))
      BY <1>1, AcceptorsFinite
    <3>3. /\ IsFiniteSet(Acceptors(i) \ {h})
          /\ Cardinality(Acceptors(i) \ {h}) = Cardinality(Acceptors(i)) - 1
      BY <2>2, <3>2, FS_RemoveElement
    <3>4. Cardinality(Acceptors(i)') <= Cardinality(Acceptors(i)) - 1
      BY <3>1, <3>3, FS_Subset
    <3>5. Cardinality(Acceptors(i)') \in Nat /\ Cardinality(Acceptors(i)) \in Nat
      BY <1>1, AcceptorsFinite
    <3> QED
      BY <1>2, <2>1, <2>5, <3>4, <3>5 DEF UsesInv
  <2> QED
    BY <2>1, <2>4, <2>5
<1> QED
  BY <1>4, <1>5, <1>6, <1>7, InviteChange

(* An invite for one use is used more often only by requests that overlap: *)
(* all of them had looked it up before the first one used it.              *)
THEOREM UsesOverlapSafety == Spec => []UsesOverlap
<1>1. Init => UsesInv
  BY DEF Init, UsesInv
<1>2. BaseInv /\ UsesInv => UsesOverlap
  <2> SUFFICES ASSUME BaseInv, UsesInv, NEW i \in InviteIds, invite[i] # NoRow
               PROVE  invite[i].uses <= Cardinality(Handlers)
    BY DEF BaseInv, Tables, UsesOverlap, Existing
  <2>1. invite[i].uses \in Nat
    BY DEF BaseInv, Tables, Invites
  <2>2. Acceptors(i) \subseteq Handlers
    BY DEF Acceptors
  <2>3. Cardinality(Acceptors(i)) \in Nat /\ Cardinality(Handlers) \in Nat
    BY <2>2, AcceptorsFinite
  <2> QED
    BY <2>1, <2>3 DEF UsesInv
<1> QED
  BY <1>1, <1>2, UsesNext, BaseSafety, PTL DEF Spec
=============================================================================
