------------------------------ MODULE Registry -------------------------------
(***************************************************************************)
(* What the services of the accounts promise whoever reads the tables,     *)
(* however their transactions overlap: the tables change by one operation  *)
(* at a time, and each operation finds them, at the moment it changes      *)
(* them, as it needs them.  A login is free when it is given, a role name  *)
(* too; a role is there when somebody is given it, and nobody's when it is *)
(* deleted.  Nothing is promised of what was looked up before.             *)
(***************************************************************************)
CONSTANTS Accessors, Roles, Logins, RoleNames

VARIABLES
  accessor,    \* accessor[a]: an account's login, role and whether it is active
  role         \* role[r]: its name, "none" before it is added, "gone" after

vars == <<accessor, role>>

Row == [login : Logins, role : Roles, active : BOOLEAN]

Live(r) == role[r] \in RoleNames
LoginFree(l) == \A a \in DOMAIN accessor : accessor[a].login # l
NameFree(n) == \A r \in Roles : role[r] # n

(* Any tables the services could have left. *)
Init ==
  /\ DOMAIN accessor \subseteq Accessors
  /\ \A a \in DOMAIN accessor : accessor[a] \in Row /\ Live(accessor[a].role)
  /\ \A a, b \in DOMAIN accessor : accessor[a].login = accessor[b].login => a = b
  /\ role \in [Roles -> RoleNames \cup {"none", "gone"}]
  /\ \A r, q \in Roles : Live(r) /\ role[r] = role[q] => r = q

AddUser(a, row) ==
  /\ a \notin DOMAIN accessor /\ LoginFree(row.login) /\ Live(row.role)
  /\ accessor' = [b \in DOMAIN accessor \cup {a} |-> IF b = a THEN row ELSE accessor[b]]
  /\ UNCHANGED role

ChangeLogin(a, l) ==
  /\ LoginFree(l)
  /\ accessor' = [accessor EXCEPT ![a].login = l]
  /\ UNCHANGED role

GiveRole(a, r) ==
  /\ Live(r)
  /\ accessor' = [accessor EXCEPT ![a].role = r]
  /\ UNCHANGED role

Switch(a, active) ==
  /\ accessor' = [accessor EXCEPT ![a].active = active]
  /\ UNCHANGED role

Name(r, n) ==
  /\ NameFree(n)
  /\ role' = [role EXCEPT ![r] = n]
  /\ UNCHANGED accessor

AddRole(r, n) == role[r] = "none" /\ Name(r, n)
RenameRole(r, n) == Live(r) /\ Name(r, n)

DeleteRole(r) ==
  /\ Live(r) /\ \A a \in DOMAIN accessor : accessor[a].role # r
  /\ role' = [role EXCEPT ![r] = "gone"]
  /\ UNCHANGED accessor

Next ==
  \/ \E a \in Accessors, row \in Row : AddUser(a, row)
  \/ \E a \in DOMAIN accessor :
       \/ \E l \in Logins : ChangeLogin(a, l)
       \/ \E r \in Roles : GiveRole(a, r)
       \/ \E active \in BOOLEAN : Switch(a, active)
  \/ \E r \in Roles : DeleteRole(r) \/ \E n \in RoleNames : AddRole(r, n) \/ RenameRole(r, n)

Spec == Init /\ [][Next]_vars

=============================================================================
