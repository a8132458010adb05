------------------------------- MODULE Accounts -------------------------------
(***************************************************************************)
(* Accounts and roles (core_pkg/dbservices, dbservices_async,              *)
(* dbrepositories, dbmodels) as the user management page works on them     *)
(* (pages/user_management_page.py, utils/ui_helpers.py).  Every service    *)
(* call is a transaction of its own on a thread of its own: it looks at    *)
(* the tables, decides, flushes one statement and commits.  What it has    *)
(* looked at may be out of date when it flushes; PostgreSQL (READ          *)
(* COMMITTED) then makes it wait for the row or the key another            *)
(* transaction holds, refuses what the schema forbids, or times it out.    *)
(*                                                                         *)
(* Of the columns only those are kept that another call or a constraint    *)
(* reads.  A call that writes none of them - a password, a name, a         *)
(* description, a role's permissions - still holds its row.                *)
(***************************************************************************)
EXTENDS Naturals, FiniteSets, Sequences, TLC

CONSTANTS
  Calls,       \* handlers of the page that run at the same time
  Accessors,   \* accessor_id
  Roles,       \* role_id: a serial, never given out twice
  Logins, RoleNames

VARIABLES
  accessor,    \* accessor[a]: the row; its domain, the rows there are
  role,        \* role[r]: the name in the row
  todo,        \* todo[c]: the service calls the handler has still to make
  pc,          \* pc[c]: where the service call is
  found,       \* found[c]: what the statement is to write of what was looked up
  shown,       \* shown[c]: whether the dialog showed the account as active
  alone        \* history, alone[c]: no other call has switched the account
               \*   since the dialog was shown

tables == <<accessor, role>>
vars == <<tables, todo, pc, found, shown, alone>>

None == "none"       \* no row yet, nothing
Gone == "gone"       \* a deleted role

(* Neither of them is a login, a name or a row that somebody could ask for. *)
ASSUME NamesAssumption ==
  {None, Gone} \cap (Accessors \cup Roles \cup Logins \cup RoleNames) = {}

Live(r) == role[r] \in RoleNames

TypeOK ==
  /\ DOMAIN accessor \subseteq Accessors
  /\ \A a \in DOMAIN accessor :
       accessor[a] \in [login : Logins, role : Roles, active : BOOLEAN]
  /\ role \in [Roles -> RoleNames \cup {None, Gone}]
  /\ pc \in [Calls -> {"idle", "look", "flush", "commit"}]
  /\ shown \in [Calls -> BOOLEAN] /\ alone \in [Calls -> BOOLEAN]
  /\ \A c \in Calls : todo[c] = <<>> <=> pc[c] = "idle"

(* The migration's roles and accounts, in short: one account has a role,   *)
(* one role has nobody.                                                    *)
Init ==
  /\ \E a \in Accessors, r, q \in Roles, l \in Logins, n, k \in RoleNames :
       /\ r # q /\ n # k
       /\ accessor = [b \in {a} |-> [login |-> l, role |-> r, active |-> TRUE]]
       /\ role = [s \in Roles |-> CASE s = r -> n [] s = q -> k [] OTHER -> None]
  /\ todo = [c \in Calls |-> <<>>]
  /\ pc = [c \in Calls |-> "idle"]
  /\ found = [c \in Calls |-> {}]
  /\ shown = [c \in Calls |-> FALSE]
  /\ alone = [c \in Calls |-> FALSE]

-----------------------------------------------------------------------------
(* What the page's handlers ask for.                                       *)

Goto(c, label) == pc' = [pc EXCEPT ![c] = label]

Part(op, row, name) == [op |-> op, row |-> row, name |-> name]

Request(c, parts) ==
  /\ pc[c] = "idle"
  /\ todo' = [todo EXCEPT ![c] = parts]
  /\ Goto(c, "look")
  /\ UNCHANGED <<tables, found>>

Plain(c, part) == Request(c, <<part>>) /\ UNCHANGED <<shown, alone>>

(* The bounds on the tables: a serial is left for the row that is asked for. *)
Left(rows, op) ==
  Cardinality({d \in Calls : \E i \in DOMAIN todo[d] : todo[d][i].op = op})
    < Cardinality(rows)

AddUser(c) ==
  /\ Left(Accessors \ DOMAIN accessor, "create")
  /\ \E l \in Logins, n \in RoleNames : Plain(c, Part("create", l, n))

(* Whatever the dialog was opened with, Save sends what has been changed   *)
(* in it, one service call after the other.                                *)
EditUser(c) ==
  \E a \in DOMAIN accessor :
    \E logins \in {<<>>} \cup {<<Part("login", a, l)>> : l \in Logins} :
    \E names \in {<<>>, <<Part("overwrite", a, None)>>} :
    \E roles \in {<<>>} \cup {<<Part("role", a, n)>> : n \in RoleNames} :
      /\ logins \o names \o roles # <<>>
      /\ Request(c, logins \o names \o roles)
      /\ UNCHANGED <<shown, alone>>

(* The user's own password, after the current one; somebody else's. *)
ChangePassword(c) ==
  \E a \in DOMAIN accessor : Plain(c, Part("overwrite", a, None))

ResetPassword(c) ==
  \E a \in DOMAIN accessor : Plain(c, Part("overwrite", a, None))

(* "Are you sure you want to deactivate the user": the dialog shows the    *)
(* account as it was when the handler looked it up.                        *)
ToggleActivation(c) ==
  \E a \in DOMAIN accessor :
    /\ Request(c, <<Part("toggle", a, None)>>)
    /\ shown' = [shown EXCEPT ![c] = accessor[a].active]
    /\ alone' = [alone EXCEPT ![c] = TRUE]

AddRole(c) ==
  /\ Left({r \in Roles : role[r] = None}, "create role")
  /\ \E n \in RoleNames : Plain(c, Part("create role", None, n))

(* The card and the dialog of a role stay when somebody deletes it. *)
Shown == {r \in Roles : role[r] # None}

EditRole(c) ==
  \E r \in Shown, n \in RoleNames : Plain(c, Part("rename", r, n))

ManagePermissions(c) ==
  \E r \in Shown : Plain(c, Part("overwrite", r, None))

DeleteRole(c) ==
  \E r \in Shown : Plain(c, Part("delete", r, None))

-----------------------------------------------------------------------------
(* A service call, up to its statement.                                    *)

Op(c) == Head(todo[c]).op
Row(c) == Head(todo[c]).row
Name(c) == Head(todo[c]).name

LoginExists(l) == \E a \in DOMAIN accessor : accessor[a].login = l
RoleNamed(n) == {r \in Roles : role[r] = n}
NameExists(n) == RoleNamed(n) # {}
UsersOf(r) == {a \in DOMAIN accessor : accessor[a].role = r}

(* Mutant of Finish: the calls that are left stay where they are. *)
FinishEarly(c) ==
  /\ Goto(c, "idle")
  /\ todo' = [todo EXCEPT ![c] = Tail(@)]
  /\ found' = [found EXCEPT ![c] = {}]
  /\ shown' = [shown EXCEPT ![c] = FALSE]
  /\ alone' = [alone EXCEPT ![c] = FALSE]

Finish(c) ==
  /\ Goto(c, "idle")
  /\ todo' = [todo EXCEPT ![c] = <<>>]
  /\ found' = [found EXCEPT ![c] = {}]
  /\ shown' = [shown EXCEPT ![c] = FALSE]
  /\ alone' = [alone EXCEPT ![c] = FALSE]

(* An exception of any kind: the transaction is rolled back, the handler   *)
(* reports it and makes none of the calls it still had to make.            *)
Refuse(c) == Finish(c) /\ UNCHANGED tables

Found(c, values) ==
  /\ found' = [found EXCEPT ![c] = values]
  /\ Goto(c, "flush")
  /\ UNCHANGED <<tables, todo, shown, alone>>

(* What the service refuses after a look at the tables. *)
Refused(c) ==
  CASE Op(c) = "create"      -> LoginExists(Row(c)) \/ ~NameExists(Name(c))
    [] Op(c) = "login"       -> LoginExists(Name(c))
    [] Op(c) = "role"        -> ~NameExists(Name(c))
    [] Op(c) = "create role" -> NameExists(Name(c))
    [] Op(c) = "rename"      -> \/ ~Live(Row(c))
                                \/ role[Row(c)] # Name(c) /\ NameExists(Name(c))
    [] Op(c) = "delete"      -> ~Live(Row(c)) \/ UsersOf(Row(c)) # {}
    [] Op(c) = "overwrite"   -> Row(c) \in Roles /\ ~Live(Row(c))
    [] OTHER                 -> FALSE

(* Refused for that, or because the input is not well formed, or because   *)
(* the database cannot be reached.                                         *)
LookRefuses(c) == pc[c] = "look" /\ Refuse(c)

(* Mutant of LookUp: the new state of the account is not read from it. *)
LookUpOff(c) ==
  /\ pc[c] = "look" /\ ~Refused(c)
  /\ CASE Op(c) \in {"create", "role"} ->
            \E r \in RoleNamed(Name(c)) : Found(c, {r})
       [] Op(c) = "toggle" -> Found(c, {FALSE})
       [] OTHER -> Found(c, {})

LookUp(c) ==
  /\ pc[c] = "look" /\ ~Refused(c)
  /\ CASE Op(c) \in {"create", "role"} ->
            \E r \in RoleNamed(Name(c)) : Found(c, {r})
       [] Op(c) = "toggle" -> Found(c, {~accessor[Row(c)].active})
       [] OTHER -> Found(c, {})

-----------------------------------------------------------------------------
(* The statement: what it locks until the commit, and what the schema      *)
(* makes of it.                                                            *)

(* The row and the unique keys, the row's old one and the one it is given. *)
Locks(c) ==
  ({Row(c)} \cup (IF Op(c) \in {"create", "role"} THEN {} ELSE {Name(c)})
     \cup (IF Op(c) = "login" THEN {accessor[Row(c)].login} ELSE {})
     \cup (IF Op(c) \in {"rename", "delete"} THEN {role[Row(c)]} ELSE {}))
  \ {None, Gone}

(* The role an account is given is locked against losing its key. *)
KeyShared(c) == found[c] \cap Roles
KeyTaken(c) == IF Op(c) \in {"rename", "delete"} THEN {Row(c)} ELSE {}

MustWait(c) ==
  \E d \in Calls \ {c} :
    /\ pc[d] = "commit"
    /\ \/ Locks(c) \cap Locks(d) # {}
       \/ KeyShared(c) \cap KeyTaken(d) # {}
       \/ KeyTaken(c) \cap KeyShared(d) # {}

GoneRole(c) == \E r \in found[c] : ~Live(r)

(* Mutants of Violates: no unique keys, and no foreign key. *)
ViolatesNoUnique(c) ==
  CASE Op(c) \in {"create", "role"} -> GoneRole(c)
    [] Op(c) \in {"rename", "overwrite"} -> Row(c) \in Roles /\ ~Live(Row(c))
    [] Op(c) = "delete" -> UsersOf(Row(c)) # {}
    [] OTHER -> FALSE

ViolatesNoForeignKey(c) ==
  CASE Op(c) = "create" -> LoginExists(Row(c))
    [] Op(c) = "login" -> LoginExists(Name(c))
    [] Op(c) = "create role" -> NameExists(Name(c))
    [] Op(c) = "rename" -> ~Live(Row(c)) \/ RoleNamed(Name(c)) \ {Row(c)} # {}
    [] Op(c) = "overwrite" -> Row(c) \in Roles /\ ~Live(Row(c))
    [] OTHER -> FALSE

(* UNIQUE, REFERENCES and ON DELETE RESTRICT; and an UPDATE that finds no  *)
(* row, which the ORM does not let pass.                                   *)
Violates(c) ==
  CASE Op(c) = "create" -> LoginExists(Row(c)) \/ GoneRole(c)
    [] Op(c) = "login" -> LoginExists(Name(c))
    [] Op(c) = "role" -> GoneRole(c)
    [] Op(c) = "create role" -> NameExists(Name(c))
    [] Op(c) = "rename" -> ~Live(Row(c)) \/ RoleNamed(Name(c)) \ {Row(c)} # {}
    [] Op(c) = "overwrite" -> Row(c) \in Roles /\ ~Live(Row(c))
    [] Op(c) = "delete" -> UsersOf(Row(c)) # {}
    [] OTHER -> FALSE

Flush(c) ==
  /\ pc[c] = "flush" /\ ~MustWait(c) /\ ~Violates(c)
  /\ Goto(c, "commit")
  /\ UNCHANGED <<tables, todo, found, shown, alone>>

IntegrityError(c) ==
  /\ pc[c] = "flush" /\ ~MustWait(c) /\ Violates(c)
  /\ Refuse(c)

LockTimesOut(c) == pc[c] = "flush" /\ MustWait(c) /\ Refuse(c)

Update(c, column, value) ==
  /\ accessor' = [accessor EXCEPT ![Row(c)][column] = value]
  /\ UNCHANGED role

Rename(c, row, name) ==
  /\ role' = [role EXCEPT ![row] = name]
  /\ UNCHANGED accessor

Apply(c) ==
  CASE Op(c) = "create" ->
         /\ \E a \in Accessors \ DOMAIN accessor, r \in found[c], active \in BOOLEAN :
              accessor' = [b \in DOMAIN accessor \cup {a} |->
                 IF b = a THEN [login |-> Row(c), role |-> r, active |-> active]
                 ELSE accessor[b]]
         /\ UNCHANGED role
    [] Op(c) = "login" -> Update(c, "login", Name(c))
    [] Op(c) = "role" -> \E r \in found[c] : Update(c, "role", r)
    [] Op(c) = "toggle" -> \E active \in found[c] : Update(c, "active", active)
    [] Op(c) = "create role" ->
         \E r \in Roles : role[r] = None /\ Rename(c, r, Name(c))
    [] Op(c) = "rename" -> Rename(c, Row(c), Name(c))
    [] Op(c) = "delete" -> Rename(c, Row(c), Gone)
    [] OTHER -> UNCHANGED tables

(* The account of a dialog that is still open, or of its call, has been    *)
(* switched by somebody else.                                              *)
NotAlone(c) ==
  [d \in Calls |-> alone[d] /\ ~(Op(c) = "toggle" /\ Row(d) = Row(c))]

Commit(c) ==
  /\ pc[c] = "commit"
  /\ Apply(c)
  /\ IF Len(todo[c]) > 1
       THEN /\ Goto(c, "look")
            /\ todo' = [todo EXCEPT ![c] = Tail(@)]
            /\ found' = [found EXCEPT ![c] = {}]
            /\ UNCHANGED <<shown, alone>>
       ELSE /\ Goto(c, "idle")
            /\ todo' = [todo EXCEPT ![c] = <<>>]
            /\ found' = [found EXCEPT ![c] = {}]
            /\ shown' = [shown EXCEPT ![c] = FALSE]
            /\ alone' = [NotAlone(c) EXCEPT ![c] = FALSE]

Press(c) ==
  \/ AddUser(c) \/ EditUser(c) \/ ToggleActivation(c)
  \/ ChangePassword(c) \/ ResetPassword(c)
  \/ AddRole(c) \/ EditRole(c) \/ ManagePermissions(c) \/ DeleteRole(c)

CallStep(c) ==
  \/ LookRefuses(c) \/ LookUp(c)
  \/ Flush(c) \/ IntegrityError(c) \/ LockTimesOut(c) \/ Commit(c)

Next == \E c \in Calls : Press(c) \/ CallStep(c)

Spec == Init /\ [][Next]_vars

Symmetry == Permutations(Calls) \cup Permutations(Logins) \cup Permutations(RoleNames)
              \cup Permutations(Accessors) \cup Permutations(Roles)

-----------------------------------------------------------------------------
(* However the calls overlap, no two accounts get the same login, no two   *)
(* roles the same name, and no account is left with a role that is gone:   *)
(* the look at the tables alone would not keep it so.                      *)
TablesAreSound ==
  /\ \A a, b \in DOMAIN accessor :
       a # b => accessor[a].login # accessor[b].login
  /\ \A r, q \in Roles : r # q /\ Live(r) => role[r] # role[q]
  /\ \A a \in DOMAIN accessor : Live(accessor[a].role)

(* A confirmed activation or deactivation does what the dialog said,       *)
(* unless somebody else has switched the same account since the dialog was *)
(* shown.                                                                  *)
ConfirmedWhenAlone ==
  [][\A c \in Calls :
       Commit(c) /\ Op(c) = "toggle" /\ alone[c] =>
         accessor'[Row(c)].active = ~shown[c]]_vars

=============================================================================
