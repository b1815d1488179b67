----------------------------- MODULE MCAccounts -----------------------------
(* A small instance of Accounts: the bootstrap administrator, a second     *)
(* user, one club and one invite at a time.                                *)
EXTENDS Accounts, TLC

CONSTANTS h1, h2,         \* handlers
          u1, u2, u3, m1, m2, i1, i2,
          root, bob,      \* emails
          old, new,       \* passwords
          c               \* a club

HandlerSymmetry == Permutations({h1, h2})

Blank == [op |-> "accept", actor |-> u1, user |-> u2, email |-> bob, pass |-> old,
          role |-> "assistant", active |-> TRUE, club |-> c, member |-> m1, invite |-> i1]

Hire(role) == [Blank EXCEPT !.op = "create_user", !.role = role]
Switch(actor, who, active) ==
    [Blank EXCEPT !.op = "set_active", !.actor = actor, !.user = who, !.active = active]

AllRequests ==
    { Hire("sys_admin"),
      Hire("user"),
      Switch(u1, u2, FALSE),
      Switch(u2, u1, FALSE),
      Switch(u1, u1, FALSE),
      [Blank EXCEPT !.op = "reset_password", !.pass = new],
      [Blank EXCEPT !.op = "add_member", !.role = "owner"],
      [Blank EXCEPT !.op = "remove_member"],
      [Blank EXCEPT !.op = "create_invite", !.email = NoRow],
      [Blank EXCEPT !.op = "create_invite", !.actor = u2, !.email = bob],
      [Blank EXCEPT !.op = "revoke_invite"],
      [Blank EXCEPT !.op = "revoke_invite", !.actor = u2],
      Blank,
      [Blank EXCEPT !.op = "login"],
      [Blank EXCEPT !.email = root] }
=============================================================================
