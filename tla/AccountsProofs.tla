---------------------------- MODULE AccountsProofs ----------------------------
(***************************************************************************)
(* The tables stay sound, and a confirmed switch does what its dialog      *)
(* said, for any number of calls at the same time.  What the proof adds to *)
(* the model is what two transactions know of each other between their     *)
(* statement and their commit.                                             *)
(***************************************************************************)
EXTENDS Accounts, SequenceTheorems, TLAPS

(* The calls Save in a user's dialog can be made of, and the single calls. *)
(* A row that is asked for is there, or has been.                          *)
EditParts ==
  [op : {"login"}, row : DOMAIN accessor, name : Logins]
    \cup [op : {"role"}, row : DOMAIN accessor, name : RoleNames]
    \cup [op : {"overwrite"}, row : DOMAIN accessor, name : {None}]

SingleParts ==
  [op : {"create"}, row : Logins, name : RoleNames]
    \cup [op : {"toggle"}, row : DOMAIN accessor, name : {None}]
    \cup [op : {"create role"}, row : {None}, name : RoleNames]
    \cup [op : {"rename"}, row : Shown, name : RoleNames]
    \cup [op : {"overwrite", "delete"}, row : Shown, name : {None}]

PartsOK ==
  /\ DOMAIN todo = Calls
  /\ \A c \in Calls : todo[c] \in Seq(EditParts) \cup {<<p>> : p \in SingleParts}

FoundOK ==
  /\ DOMAIN found = Calls
  /\ \A c \in Calls :
       /\ pc[c] \in {"idle", "look"} => found[c] = {}
       /\ pc[c] # "idle" /\ Op(c) \in {"create", "role"} => found[c] \subseteq Roles
       /\ pc[c] # "idle" /\ Op(c) = "toggle" => found[c] \subseteq BOOLEAN

(* While no other call has switched the account, the dialog shows it as it *)
(* is and the statement turns it round.                                    *)
AloneOK ==
  \A c \in Calls : alone[c] =>
    /\ pc[c] # "idle" /\ Op(c) = "toggle"
    /\ accessor[Row(c)].active = shown[c]
    /\ pc[c] \in {"flush", "commit"} => found[c] = {~shown[c]}

(* The statement goes with the tables as they are. *)
Fits(c) ==
  /\ Op(c) \in {"create", "role"} => ~GoneRole(c)
  /\ Op(c) = "create" => ~LoginExists(Row(c))
  /\ Op(c) = "login" => ~LoginExists(Name(c))
  /\ Op(c) = "create role" => ~NameExists(Name(c))
  /\ Op(c) = "rename" => Live(Row(c)) /\ RoleNamed(Name(c)) \subseteq {Row(c)}
  /\ Op(c) = "overwrite" => (Row(c) \in Roles => Live(Row(c)))
  /\ Op(c) = "delete" => UsersOf(Row(c)) = {}

(* From its statement to its commit a transaction has nothing to fear from *)
(* the tables, nor from another one that has got as far.                   *)
Held ==
  \A c \in Calls : pc[c] = "commit" => Fits(c) /\ ~MustWait(c)

IInv ==
  TypeOK /\ PartsOK /\ FoundOK /\ AloneOK /\ Held /\ TablesAreSound

-----------------------------------------------------------------------------
(* The parts a handler has still to make. *)

Parts == EditParts \cup SingleParts

(* What a service call that is under way has been asked for. *)
LEMMA Asked ==
  ASSUME PartsOK, TypeOK, NEW c \in Calls, pc[c] # "idle"
  PROVE  /\ todo[c] # <<>> /\ Head(todo[c]) \in Parts
         /\ Len(todo[c]) > 1 => Tail(todo[c]) \in Seq(EditParts) /\ Tail(todo[c]) # <<>>
         /\ Op(c) = "toggle" => todo[c] = <<Part("toggle", Row(c), None)>>
<1>1. todo[c] # <<>>
  BY DEF TypeOK
<1>2. CASE todo[c] \in Seq(EditParts)
  <2>1. Head(todo[c]) \in EditParts /\ Tail(todo[c]) \in Seq(EditParts)
        /\ Len(Tail(todo[c])) = Len(todo[c]) - 1 /\ Len(todo[c]) \in Nat
    BY <1>1, <1>2, HeadTailProperties, LenProperties
  <2>2. Op(c) # "toggle"
    BY <2>1 DEF EditParts, Op
  <2>3. Len(todo[c]) > 1 => Tail(todo[c]) # <<>>
    <3>1. Len(<<>>) = 0
      OBVIOUS
    <3> QED
      BY <2>1, <3>1
  <2> QED
    BY <1>1, <2>1, <2>2, <2>3 DEF Parts
<1>3. CASE todo[c] \in {<<p>> : p \in SingleParts}
  <2>1. PICK p \in SingleParts : todo[c] = <<p>>
    BY <1>3
  <2>2. Head(todo[c]) = p /\ Len(todo[c]) = 1
    BY <2>1
  <2>3. p.op = "toggle" => p = Part("toggle", p.row, None)
    BY DEF SingleParts, Part
  <2> QED
    BY <1>1, <2>1, <2>2, <2>3 DEF Parts, Op, Row
<1> QED
  BY <1>2, <1>3 DEF PartsOK

(* The row and the name of each kind of call. *)
LEMMA Kinds ==
  ASSUME PartsOK, TypeOK, NEW c \in Calls, pc[c] # "idle"
  PROVE  \/ Op(c) = "create" /\ Row(c) \in Logins /\ Name(c) \in RoleNames
         \/ Op(c) = "login" /\ Row(c) \in DOMAIN accessor /\ Name(c) \in Logins
         \/ Op(c) = "role" /\ Row(c) \in DOMAIN accessor /\ Name(c) \in RoleNames
         \/ Op(c) = "toggle" /\ Row(c) \in DOMAIN accessor /\ Name(c) = None
         \/ Op(c) = "create role" /\ Row(c) = None /\ Name(c) \in RoleNames
         \/ Op(c) = "rename" /\ Row(c) \in Shown /\ Name(c) \in RoleNames
         \/ Op(c) = "delete" /\ Row(c) \in Shown /\ Name(c) = None
         \/ /\ Op(c) = "overwrite" /\ Row(c) \in DOMAIN accessor \cup Shown
            /\ Name(c) = None
  BY Asked DEF Parts, EditParts, SingleParts, Op, Row, Name

(* The accounts there are and the roles that have been given a name only   *)
(* grow, and with them what can be asked for.                              *)
LEMMA PartsGrow ==
  ASSUME DOMAIN accessor \subseteq DOMAIN accessor', Shown \subseteq Shown',
         NEW parts \in Seq(EditParts) \cup {<<p>> : p \in SingleParts}
  PROVE  parts \in Seq(EditParts') \cup {<<p>> : p \in SingleParts'}
<1>1. EditParts \subseteq EditParts' /\ SingleParts \subseteq SingleParts'
  BY DEF EditParts, SingleParts
<1>2. parts \in Seq(EditParts) => parts \in Seq(EditParts')
  BY <1>1, SeqMonotonic
<1> QED
  BY <1>1, <1>2

-----------------------------------------------------------------------------
(* Steps that leave the tables as they are.                                *)

Labels == {"idle", "look", "flush", "commit"}

(* What another call than c is at stays what it is. *)
OthersStay(c) ==
  \A d \in Calls \ {c} :
    /\ todo'[d] = todo[d] /\ pc'[d] = pc[d] /\ found'[d] = found[d]
    /\ shown'[d] = shown[d] /\ alone'[d] = alone[d]

(* What the schema has no objection to. *)
LEMMA FitsOrViolates ==
  ASSUME NEW c \in Calls
  PROVE  ~Violates(c) <=> Fits(c)
<1>1. CASE Op(c) \in {"create", "role"}
  BY <1>1 DEF Violates, Fits
<1>2. CASE Op(c) = "rename"
  BY <1>2 DEF Violates, Fits
<1>3. CASE Op(c) \in {"login", "create role", "overwrite", "delete"}
  BY <1>3 DEF Violates, Fits
<1>4. CASE Op(c) \notin {"create", "role", "login", "create role", "rename",
                       "overwrite", "delete"}
  BY <1>4 DEF Violates, Fits
<1> QED
  BY <1>1, <1>2, <1>3, <1>4

(* A step of c that only c can tell has to be right for c.                 *)
LEMMA OwnStep ==
  ASSUME IInv, NEW c \in Calls, UNCHANGED tables, OthersStay(c),
         DOMAIN todo' = Calls, DOMAIN found' = Calls,
         pc' \in [Calls -> Labels],
         shown' \in [Calls -> BOOLEAN], alone' \in [Calls -> BOOLEAN],
         todo'[c] = <<>> <=> pc'[c] = "idle",
         todo'[c] \in Seq(EditParts) \cup {<<p>> : p \in SingleParts},
         pc'[c] \in {"idle", "look"} => found'[c] = {},
         pc'[c] # "idle" /\ Op(c)' \in {"create", "role"} => found'[c] \subseteq Roles,
         pc'[c] # "idle" /\ Op(c)' = "toggle" => found'[c] \subseteq BOOLEAN,
         alone'[c] =>
           /\ pc'[c] # "idle" /\ Op(c)' = "toggle"
           /\ accessor[Row(c)'].active = shown'[c]
           /\ pc'[c] \in {"flush", "commit"} => found'[c] = {~shown'[c]},
         pc'[c] = "commit" => Fits(c)' /\ ~MustWait(c)'
  PROVE  IInv'
<1>1. TypeOK'
  BY DEF IInv, TypeOK, Labels, OthersStay, Live, tables
<1>2. PartsOK'
  BY DEF IInv, PartsOK, OthersStay, EditParts, SingleParts, Shown, tables
<1>3. FoundOK'
  BY DEF IInv, FoundOK, OthersStay, Op
<1>4. AloneOK'
  BY DEF IInv, AloneOK, OthersStay, Op, Row, tables
<1>5. Held'
  <2> SUFFICES ASSUME NEW d \in Calls, pc'[d] = "commit", d # c
               PROVE  Fits(d)' /\ ~MustWait(d)'
    BY DEF Held
  <2>1. Fits(d) /\ ~MustWait(d)
    BY DEF IInv, Held, OthersStay
  <2>2. Fits(d)'
    <3>1. Op(d)' = Op(d) /\ Row(d)' = Row(d) /\ Name(d)' = Name(d) /\ found'[d] = found[d]
      BY DEF OthersStay, Op, Row, Name
    <3>2. accessor' = accessor /\ role' = role
      BY DEF tables
    <3> QED
      BY <2>1, <3>1, <3>2
        DEF Fits, LoginExists, GoneRole, NameExists, RoleNamed, UsersOf, Live
  <2>3. \A e \in Calls \ {c} :
          Locks(e)' = Locks(e) /\ KeyShared(e)' = KeyShared(e) /\ KeyTaken(e)' = KeyTaken(e)
    BY DEF OthersStay, Locks, KeyShared, KeyTaken, Op, Row, Name, tables
  <2>4. ~MustWait(d)'
    <3> SUFFICES ASSUME NEW e \in Calls \ {d}, pc'[e] = "commit"
                 PROVE  /\ Locks(d)' \cap Locks(e)' = {}
                        /\ KeyShared(d)' \cap KeyTaken(e)' = {}
                        /\ KeyTaken(d)' \cap KeyShared(e)' = {}
      BY DEF MustWait
    <3>1. CASE e = c
      BY <3>1 DEF MustWait
    <3>2. CASE e # c
      BY <2>1, <2>3, <3>2 DEF MustWait, OthersStay
    <3> QED
      BY <3>1, <3>2
  <2> QED
    BY <2>2, <2>4
<1>6. TablesAreSound'
  BY DEF IInv, TablesAreSound, Live, tables
<1> QED
  BY <1>1, <1>2, <1>3, <1>4, <1>5, <1>6 DEF IInv

-----------------------------------------------------------------------------
(* What the page's handlers ask for. *)

(* A handler starts, with parts that can be asked for. *)
LEMMA Requested ==
  ASSUME IInv, NEW c \in Calls, NEW parts, Request(c, parts), parts # <<>>,
         parts \in Seq(EditParts) \cup {<<p>> : p \in SingleParts},
         OthersStay(c), shown' \in [Calls -> BOOLEAN], alone' \in [Calls -> BOOLEAN],
         alone'[c] => Head(parts).op = "toggle"
                        /\ accessor[Head(parts).row].active = shown'[c]
  PROVE  IInv'
<1>1. /\ todo'[c] = parts /\ pc'[c] = "look" /\ found'[c] = found[c]
      /\ DOMAIN todo' = Calls /\ pc' \in [Calls -> Labels] /\ UNCHANGED tables
  BY DEF IInv, TypeOK, PartsOK, Request, Goto, Labels
<1>2. DOMAIN found' = Calls /\ found[c] = {}
  BY DEF IInv, FoundOK, Request
<1> QED
  BY <1>1, <1>2, OwnStep DEF Op, Row

(* The handlers whose dialogs leave nothing to compare with. *)
LEMMA Plainly ==
  ASSUME IInv, NEW c \in Calls, NEW part, Plain(c, part),
         part \in EditParts \cup SingleParts
  PROVE  IInv'
<1>1. Request(c, <<part>>) /\ ~alone[c]
  BY DEF IInv, AloneOK, Plain, Request
<1>2. OthersStay(c)
  BY DEF IInv, TypeOK, PartsOK, Plain, Request, Goto, OthersStay
<1>3. shown' \in [Calls -> BOOLEAN] /\ alone' \in [Calls -> BOOLEAN] /\ ~alone'[c]
  BY <1>1 DEF IInv, TypeOK, Plain
<1>4. <<part>> \in Seq(EditParts) \cup {<<p>> : p \in SingleParts} /\ <<part>> # <<>>
  OBVIOUS
<1> QED
  BY <1>1, <1>2, <1>3, <1>4, Requested

(* Those handlers ask for what there is. *)
LEMMA PlainPresses ==
  ASSUME IInv, NEW c \in Calls,
         \/ AddUser(c) \/ ChangePassword(c) \/ ResetPassword(c)
         \/ AddRole(c) \/ EditRole(c) \/ ManagePermissions(c) \/ DeleteRole(c)
  PROVE  IInv'
<1>1. PICK part \in EditParts \cup SingleParts : Plain(c, part)
  BY DEF AddUser, ChangePassword, ResetPassword, AddRole, EditRole,
         ManagePermissions, DeleteRole, Part, EditParts, SingleParts
<1> QED
  BY <1>1, Plainly

(* Save: what has been changed in the dialog, one call after the other. *)
LEMMA Edits ==
  ASSUME IInv, NEW c \in Calls, EditUser(c)
  PROVE  IInv'
<1>0. PICK a \in DOMAIN accessor :
        \E logins \in {<<>>} \cup {<<Part("login", a, l)>> : l \in Logins},
           names \in {<<>>, <<Part("overwrite", a, None)>>},
           roles \in {<<>>} \cup {<<Part("role", a, n)>> : n \in RoleNames} :
             /\ logins \o names \o roles # <<>>
             /\ Request(c, logins \o names \o roles)
             /\ UNCHANGED <<shown, alone>>
  BY DEF EditUser
<1>1. PICK logins \in {<<>>} \cup {<<Part("login", a, l)>> : l \in Logins},
           names \in {<<>>, <<Part("overwrite", a, None)>>},
           roles \in {<<>>} \cup {<<Part("role", a, n)>> : n \in RoleNames} :
             /\ logins \o names \o roles # <<>>
             /\ Request(c, logins \o names \o roles)
             /\ UNCHANGED <<shown, alone>>
  BY <1>0
<1>2. /\ \A l \in Logins : Part("login", a, l) \in EditParts
      /\ Part("overwrite", a, None) \in EditParts
      /\ \A n \in RoleNames : Part("role", a, n) \in EditParts
  BY DEF Part, EditParts
<1>3. logins \in Seq(EditParts) /\ names \in Seq(EditParts) /\ roles \in Seq(EditParts)
  <2>1. <<>> \in Seq(EditParts) /\ \A p \in EditParts : <<p>> \in Seq(EditParts)
    BY EmptySeq
  <2>2. logins \in Seq(EditParts)
    BY <1>2, <2>1
  <2>3. names \in Seq(EditParts)
    BY <1>2, <2>1
  <2>4. roles \in Seq(EditParts)
    BY <1>2, <2>1
  <2> QED
    BY <2>2, <2>3, <2>4
<1>4. logins \o names \in Seq(EditParts)
  BY <1>3, ConcatProperties
<1>5. logins \o names \o roles \in Seq(EditParts)
  BY <1>3, <1>4, ConcatProperties
<1>6. OthersStay(c)
  BY <1>1 DEF IInv, TypeOK, PartsOK, Request, Goto, OthersStay
<1>7. shown' \in [Calls -> BOOLEAN] /\ alone' \in [Calls -> BOOLEAN] /\ ~alone'[c]
  BY <1>1 DEF IInv, TypeOK, AloneOK, Request
<1> QED
  BY <1>1, <1>5, <1>6, <1>7, Requested

(* The dialog of a switch shows the account as it is. *)
LEMMA Toggles ==
  ASSUME IInv, NEW c \in Calls, ToggleActivation(c)
  PROVE  IInv'
<1>1. PICK a \in DOMAIN accessor :
        /\ Request(c, <<Part("toggle", a, None)>>)
        /\ shown' = [shown EXCEPT ![c] = accessor[a].active]
        /\ alone' = [alone EXCEPT ![c] = TRUE]
  BY DEF ToggleActivation
<1>2. Part("toggle", a, None) \in SingleParts /\ Part("toggle", a, None).op = "toggle"
      /\ Part("toggle", a, None).row = a
  BY DEF Part, SingleParts
<1>3. OthersStay(c)
  BY <1>1 DEF IInv, TypeOK, PartsOK, Request, Goto, OthersStay
<1>4. accessor[a].active \in BOOLEAN
  BY DEF IInv, TypeOK
<1>5. /\ shown' \in [Calls -> BOOLEAN] /\ alone' \in [Calls -> BOOLEAN]
      /\ accessor[a].active = shown'[c]
  BY <1>1, <1>4 DEF IInv, TypeOK
<1> QED
  BY <1>1, <1>2, <1>3, <1>5, Requested

-----------------------------------------------------------------------------
(* A service call, up to its commit.                                       *)

(* A call that is refused takes the rest of its handler with it. *)
LEMMA Ends ==
  ASSUME IInv, NEW c \in Calls, Refuse(c)
  PROVE  IInv'
<1>1. /\ todo'[c] = <<>> /\ pc'[c] = "idle" /\ found'[c] = {} /\ ~alone'[c]
      /\ DOMAIN todo' = Calls /\ DOMAIN found' = Calls /\ pc' \in [Calls -> Labels]
      /\ shown' \in [Calls -> BOOLEAN] /\ alone' \in [Calls -> BOOLEAN]
      /\ UNCHANGED tables
  BY DEF IInv, TypeOK, PartsOK, FoundOK, Refuse, Finish, Goto, Labels
<1>2. OthersStay(c)
  BY DEF IInv, TypeOK, PartsOK, FoundOK, Refuse, Finish, Goto, OthersStay
<1>3. <<>> \in Seq(EditParts)
  BY EmptySeq
<1> QED
  BY <1>1, <1>2, <1>3, OwnStep

(* What has been found is kept for the statement. *)
LEMMA Finds ==
  ASSUME IInv, NEW c \in Calls, pc[c] = "look", NEW values, Found(c, values),
         Op(c) \in {"create", "role"} => values \subseteq Roles,
         Op(c) = "toggle" => values = {~accessor[Row(c)].active},
         Op(c) = "toggle" => accessor[Row(c)].active \in BOOLEAN
  PROVE  IInv'
<1>1. /\ todo' = todo /\ pc'[c] = "flush" /\ found'[c] = values
      /\ DOMAIN todo' = Calls /\ DOMAIN found' = Calls /\ pc' \in [Calls -> Labels]
      /\ shown' \in [Calls -> BOOLEAN] /\ alone' \in [Calls -> BOOLEAN]
      /\ UNCHANGED tables
  BY DEF IInv, TypeOK, PartsOK, FoundOK, Found, Goto, Labels
<1>2. OthersStay(c) /\ Op(c)' = Op(c) /\ Row(c)' = Row(c)
  BY DEF IInv, TypeOK, PartsOK, FoundOK, Found, Goto, OthersStay, Op, Row
<1>3. todo'[c] # <<>> /\ todo'[c] \in Seq(EditParts) \cup {<<p>> : p \in SingleParts}
  BY <1>1 DEF IInv, TypeOK, PartsOK
<1>4. alone'[c] => /\ Op(c) = "toggle" /\ accessor[Row(c)].active = shown'[c]
                   /\ found'[c] = {~shown'[c]}
  BY <1>1 DEF IInv, AloneOK, Found
<1>5. Op(c) = "toggle" => found'[c] \subseteq BOOLEAN
  BY <1>1
<1> QED
  BY <1>1, <1>2, <1>3, <1>4, <1>5, OwnStep

(* The look at the tables finds what the statement is to write. *)
LEMMA Looks ==
  ASSUME IInv, NEW c \in Calls, LookUp(c)
  PROVE  IInv'
<1>1. pc[c] = "look"
  BY DEF LookUp
<1>2. Op(c) = "toggle" => accessor[Row(c)].active \in BOOLEAN
  BY <1>1, Kinds DEF IInv, TypeOK
<1>3. CASE Op(c) \in {"create", "role"}
  <2>1. PICK r \in RoleNamed(Name(c)) : Found(c, {r})
    BY <1>3 DEF LookUp
  <2>2. {r} \subseteq Roles
    BY DEF RoleNamed
  <2> QED
    BY <1>1, <1>3, <2>1, <2>2, Finds
<1>4. CASE Op(c) = "toggle"
  BY <1>1, <1>2, <1>4, Finds DEF LookUp
<1>5. CASE Op(c) \notin {"create", "role", "toggle"}
  BY <1>1, <1>5, Finds DEF LookUp
<1> QED
  BY <1>3, <1>4, <1>5

(* The statement has not had to wait and has not been refused. *)
LEMMA Flushes ==
  ASSUME IInv, NEW c \in Calls, Flush(c)
  PROVE  IInv'
<1>1. /\ pc[c] = "flush" /\ ~MustWait(c) /\ pc'[c] = "commit" /\ UNCHANGED tables
      /\ todo' = todo /\ found' = found /\ shown' = shown /\ alone' = alone
      /\ DOMAIN todo' = Calls /\ DOMAIN found' = Calls /\ pc' \in [Calls -> Labels]
      /\ shown' \in [Calls -> BOOLEAN] /\ alone' \in [Calls -> BOOLEAN]
  BY DEF IInv, TypeOK, PartsOK, FoundOK, Flush, Goto, Labels
<1>2. OthersStay(c) /\ Op(c)' = Op(c) /\ Row(c)' = Row(c) /\ Name(c)' = Name(c)
  BY <1>1 DEF IInv, TypeOK, Flush, Goto, OthersStay, Op, Row, Name
<1>3. todo'[c] # <<>> /\ todo'[c] \in Seq(EditParts) \cup {<<p>> : p \in SingleParts}
  BY <1>1 DEF IInv, TypeOK, PartsOK
<1>4. /\ Op(c) \in {"create", "role"} => found'[c] \subseteq Roles
      /\ Op(c) = "toggle" => found'[c] \subseteq BOOLEAN
  BY <1>1 DEF IInv, FoundOK
<1>5. alone'[c] => /\ Op(c) = "toggle" /\ accessor[Row(c)].active = shown'[c]
                   /\ found'[c] = {~shown'[c]}
  BY <1>1 DEF IInv, AloneOK
<1>6. Fits(c)'
  <2>1. Fits(c)
    BY FitsOrViolates DEF Flush
  <2> QED
    BY <1>1, <1>2, <2>1
      DEF Fits, LoginExists, GoneRole, NameExists, RoleNamed, UsersOf, Live, tables
<1>7. ~MustWait(c)'
  <2>1. \A e \in Calls :
          Locks(e)' = Locks(e) /\ KeyShared(e)' = KeyShared(e) /\ KeyTaken(e)' = KeyTaken(e)
    BY <1>1 DEF Locks, KeyShared, KeyTaken, Op, Row, Name, tables
  <2> QED
    BY <1>1, <1>2, <2>1 DEF MustWait, OthersStay
<1> QED
  BY <1>1, <1>2, <1>3, <1>4, <1>5, <1>6, <1>7, OwnStep

-----------------------------------------------------------------------------
(* A commit: what it writes, in one form for all the calls.                *)

New == DOMAIN accessor' \ DOMAIN accessor

WritesAccessor(c) ==
  /\ DOMAIN accessor \subseteq DOMAIN accessor' /\ DOMAIN accessor' \subseteq Accessors
  /\ \A a \in New : /\ Op(c) = "create"
                     /\ \E r \in found[c], active \in BOOLEAN :
                          accessor'[a] = [login |-> Row(c), role |-> r, active |-> active]
  /\ \A a, b \in New : a = b
  /\ \A a \in DOMAIN accessor :
       /\ accessor'[a] \in [login : Logins, role : Roles, active : BOOLEAN]
       /\ \/ accessor'[a].login = accessor[a].login
          \/ Op(c) = "login" /\ a = Row(c) /\ accessor'[a].login = Name(c)
       /\ \/ accessor'[a].role = accessor[a].role
          \/ Op(c) = "role" /\ a = Row(c) /\ accessor'[a].role \in found[c]
       /\ \/ accessor'[a].active = accessor[a].active
          \/ Op(c) = "toggle" /\ a = Row(c)

WritesRole(c) ==
  /\ role' \in [Roles -> RoleNames \cup {None, Gone}]
  /\ \A r \in Roles :
       \/ role'[r] = role[r]
       \/ Op(c) = "create role" /\ role[r] = None /\ role'[r] = Name(c)
       \/ Op(c) = "rename" /\ r = Row(c) /\ role'[r] = Name(c)
       \/ Op(c) = "delete" /\ r = Row(c) /\ role'[r] = Gone
  /\ \A r, q \in Roles : role'[r] # role[r] /\ role'[q] # role[q] => r = q

(* The statement of every kind of call, in that form. *)
LEMMA CommitWrites ==
  ASSUME IInv, NEW c \in Calls, Commit(c)
  PROVE  WritesAccessor(c) /\ WritesRole(c)
<1> USE DEF WritesAccessor, WritesRole, New
<1>1. pc[c] = "commit" /\ Apply(c) /\ pc[c] # "idle"
  BY DEF Commit
<1>2. /\ DOMAIN accessor \subseteq Accessors
      /\ \A a \in DOMAIN accessor :
           accessor[a] \in [login : Logins, role : Roles, active : BOOLEAN]
      /\ role \in [Roles -> RoleNames \cup {None, Gone}]
  BY DEF IInv, TypeOK
<1>3. CASE Op(c) = "create"
  <2>1. PICK a \in Accessors \ DOMAIN accessor, r \in found[c], active \in BOOLEAN :
          accessor' = [b \in DOMAIN accessor \cup {a} |->
             IF b = a THEN [login |-> Row(c), role |-> r, active |-> active]
             ELSE accessor[b]]
    BY <1>1, <1>3 DEF Apply
  <2>2. role' = role
    BY <1>1, <1>3 DEF Apply
  <2> QED
    BY <1>2, <1>3, <2>1, <2>2
<1>4. CASE Op(c) = "login"
  <2>1. accessor' = [accessor EXCEPT ![Row(c)]["login"] = Name(c)] /\ role' = role
    BY <1>1, <1>4 DEF Apply, Update
  <2>2. Row(c) \in DOMAIN accessor /\ Name(c) \in Logins
    BY <1>1, <1>4, Kinds DEF IInv
  <2> QED
    BY <1>2, <1>4, <2>1, <2>2
<1>5. CASE Op(c) = "role"
  <2>1. PICK r \in found[c] : accessor' = [accessor EXCEPT ![Row(c)]["role"] = r]
    BY <1>1, <1>5 DEF Apply, Update
  <2>2. role' = role
    BY <1>1, <1>5 DEF Apply, Update
  <2>3. Row(c) \in DOMAIN accessor /\ found[c] \subseteq Roles
    BY <1>1, <1>5, Kinds DEF IInv, FoundOK
  <2> QED
    BY <1>2, <1>5, <2>1, <2>2, <2>3
<1>6. CASE Op(c) = "toggle"
  <2>1. PICK active \in found[c] : accessor' = [accessor EXCEPT ![Row(c)]["active"] = active]
    BY <1>1, <1>6 DEF Apply, Update
  <2>2. role' = role
    BY <1>1, <1>6 DEF Apply, Update
  <2>3. Row(c) \in DOMAIN accessor /\ found[c] \subseteq BOOLEAN
    BY <1>1, <1>6, Kinds DEF IInv, FoundOK
  <2> QED
    BY <1>2, <1>6, <2>1, <2>2, <2>3
<1>7. CASE Op(c) = "create role"
  <2>1. PICK r \in Roles : role[r] = None /\ Rename(c, r, Name(c))
    BY <1>1, <1>7 DEF Apply
  <2>2. Name(c) \in RoleNames
    BY <1>1, <1>7, Kinds DEF IInv
  <2> QED
    BY <1>2, <1>7, <2>1, <2>2 DEF Rename
<1>8. CASE Op(c) \in {"rename", "delete"}
  <2>1. Rename(c, Row(c), IF Op(c) = "rename" THEN Name(c) ELSE Gone)
    BY <1>1, <1>8 DEF Apply
  <2>2. Row(c) \in Roles /\ (Op(c) = "rename" => Name(c) \in RoleNames)
    BY <1>1, <1>8, Kinds DEF IInv, Shown
  <2> QED
    BY <1>2, <1>8, <2>1, <2>2 DEF Rename
<1>9. CASE Op(c) \notin {"create", "login", "role", "toggle", "create role", "rename", "delete"}
  BY <1>1, <1>2, <1>9 DEF Apply, tables
<1> QED
  BY <1>3, <1>4, <1>5, <1>6, <1>7, <1>8, <1>9

(* The call itself is over or goes on with what is left to do. *)
LEMMA CommitGoesOn ==
  ASSUME IInv, NEW c \in Calls, Commit(c)
  PROVE  /\ pc' \in [Calls -> Labels] /\ pc'[c] \in {"idle", "look"}
         /\ DOMAIN todo' = Calls /\ DOMAIN found' = Calls /\ found'[c] = {}
         /\ todo'[c] = <<>> <=> pc'[c] = "idle"
         /\ todo'[c] \in Seq(EditParts)
         /\ shown' \in [Calls -> BOOLEAN] /\ alone' \in [Calls -> BOOLEAN]
         /\ ~alone'[c]
<1>. pc[c] = "commit" /\ pc[c] # "idle"
  BY DEF Commit
<1>1. CASE Len(todo[c]) > 1
  <2>1. todo' = [todo EXCEPT ![c] = Tail(@)] /\ Goto(c, "look")
        /\ found' = [found EXCEPT ![c] = {}] /\ UNCHANGED <<shown, alone>>
    BY <1>1 DEF Commit
  <2>2. Tail(todo[c]) \in Seq(EditParts) /\ Tail(todo[c]) # <<>>
    BY <1>1, Asked DEF IInv
  <2>3. ~alone[c]
    <3> SUFFICES ASSUME alone[c]
                 PROVE  FALSE
      OBVIOUS
    <3>1. todo[c] = <<Part("toggle", Row(c), None)>>
      BY Asked DEF IInv, AloneOK
    <3>2. Len(todo[c]) = 1
      BY <3>1
    <3> QED
      BY <1>1, <3>2
  <2> QED
    BY <2>1, <2>2, <2>3 DEF IInv, TypeOK, PartsOK, FoundOK, Goto, Labels
<1>2. CASE ~(Len(todo[c]) > 1)
  <2>1. /\ todo' = [todo EXCEPT ![c] = <<>>] /\ Goto(c, "idle")
        /\ found' = [found EXCEPT ![c] = {}] /\ shown' = [shown EXCEPT ![c] = FALSE]
        /\ alone' = [NotAlone(c) EXCEPT ![c] = FALSE]
    BY <1>2 DEF Commit
  <2>2. <<>> \in Seq(EditParts)
    BY EmptySeq
  <2>3. NotAlone(c) \in [Calls -> BOOLEAN]
    BY DEF IInv, TypeOK, NotAlone
  <2>4. alone' \in [Calls -> BOOLEAN] /\ ~alone'[c]
    BY <2>1, <2>3
  <2> QED
    BY <2>1, <2>2, <2>4 DEF IInv, TypeOK, PartsOK, FoundOK, Goto, Labels
<1> QED
  BY <1>1, <1>2

(* The others are where they were, and know of a switch. *)
LEMMA CommitElsewhere ==
  ASSUME IInv, NEW c \in Calls, Commit(c), NEW d \in Calls \ {c}
  PROVE  /\ todo'[d] = todo[d] /\ pc'[d] = pc[d] /\ found'[d] = found[d]
         /\ shown'[d] = shown[d]
         /\ alone'[d] => alone[d] /\ ~(Op(c) = "toggle" /\ Row(d) = Row(c))
<1>1. todo'[d] = todo[d] /\ pc'[d] = pc[d] /\ found'[d] = found[d] /\ shown'[d] = shown[d]
  BY DEF IInv, TypeOK, PartsOK, FoundOK, Commit, Goto
<1>2. CASE Len(todo[c]) > 1
  <2>1. Op(c) # "toggle"
    <3> SUFFICES ASSUME Op(c) = "toggle"
                 PROVE  FALSE
      OBVIOUS
    <3>1. todo[c] = <<Part("toggle", Row(c), None)>>
      BY Asked DEF IInv, Commit
    <3>2. Len(todo[c]) = 1
      BY <3>1
    <3> QED
      BY <1>2, <3>2
  <2> QED
    BY <1>1, <1>2, <2>1 DEF Commit
<1>3. CASE ~(Len(todo[c]) > 1)
  <2>1. alone' = [NotAlone(c) EXCEPT ![c] = FALSE]
    BY <1>3 DEF Commit
  <2>2. alone'[d] = NotAlone(c)[d]
    BY <2>1 DEF NotAlone
  <2>3. NotAlone(c)[d] = (alone[d] /\ ~(Op(c) = "toggle" /\ Row(d) = Row(c)))
    BY DEF NotAlone
  <2> QED
    BY <1>1, <2>2, <2>3
<1> QED
  BY <1>2, <1>3

(* Whatever is under way may still be asked for. *)
LEMMA CommitTypes ==
  ASSUME IInv, NEW c \in Calls, Commit(c)
  PROVE  TypeOK' /\ PartsOK' /\ FoundOK'
<1>1. WritesAccessor(c) /\ WritesRole(c)
  BY CommitWrites
<1>2. TypeOK'
  <2>1. \A a \in DOMAIN accessor' :
          accessor'[a] \in [login : Logins, role : Roles, active : BOOLEAN]
    <3> SUFFICES ASSUME NEW a \in New
                 PROVE  accessor'[a] \in [login : Logins, role : Roles, active : BOOLEAN]
      BY <1>1 DEF WritesAccessor, New
    <3>1. Row(c) \in Logins /\ found[c] \subseteq Roles
      BY <1>1, Kinds DEF WritesAccessor, Commit, IInv, FoundOK
    <3>2. PICK r \in found[c], active \in BOOLEAN :
            accessor'[a] = [login |-> Row(c), role |-> r, active |-> active]
      BY <1>1 DEF WritesAccessor
    <3> QED
      BY <3>1, <3>2
  <2>2. \A d \in Calls : todo'[d] = <<>> <=> pc'[d] = "idle"
    BY CommitGoesOn, CommitElsewhere DEF IInv, TypeOK
  <2> QED
    BY <1>1, <2>1, <2>2, CommitGoesOn
      DEF WritesAccessor, WritesRole, TypeOK, Labels
<1>3. PartsOK'
  <2>1. Shown \subseteq Shown'
    <3>1. Op(c) \in {"create role", "rename"} => Name(c) # None
      BY Kinds, NamesAssumption DEF IInv, Commit
    <3>2. Gone # None
      BY DEF None, Gone
    <3> QED
      BY <1>1, <3>1, <3>2 DEF WritesRole, Shown
  <2>2. \A d \in Calls :
          todo'[d] \in Seq(EditParts) \cup {<<p>> : p \in SingleParts}
    BY CommitGoesOn, CommitElsewhere DEF IInv, PartsOK
  <2>3. DOMAIN accessor \subseteq DOMAIN accessor'
    BY <1>1 DEF WritesAccessor
  <2>4. \A d \in Calls :
          todo'[d] \in Seq(EditParts') \cup {<<p>> : p \in SingleParts'}
    BY <2>1, <2>2, <2>3, PartsGrow
  <2> QED
    BY <2>4, CommitGoesOn DEF PartsOK
<1>4. FoundOK'
  BY CommitGoesOn, CommitElsewhere DEF IInv, FoundOK, Op
<1> QED
  BY <1>2, <1>3, <1>4

(* A switch by somebody else is remembered; nothing else touches what the  *)
(* dialog showed.                                                          *)
LEMMA CommitAlone ==
  ASSUME IInv, NEW c \in Calls, Commit(c)
  PROVE  AloneOK'
<1> SUFFICES ASSUME NEW d \in Calls, alone'[d]
             PROVE  /\ pc'[d] # "idle" /\ Op(d)' = "toggle"
                    /\ accessor'[Row(d)'].active = shown'[d]
                    /\ pc'[d] \in {"flush", "commit"} => found'[d] = {~shown'[d]}
  BY DEF AloneOK
<1>1. d # c
  BY CommitGoesOn
<1>2. /\ todo'[d] = todo[d] /\ pc'[d] = pc[d] /\ found'[d] = found[d]
      /\ shown'[d] = shown[d] /\ alone[d] /\ ~(Op(c) = "toggle" /\ Row(d) = Row(c))
  BY <1>1, CommitElsewhere
<1>3. /\ pc[d] # "idle" /\ Op(d) = "toggle" /\ accessor[Row(d)].active = shown[d]
      /\ pc[d] \in {"flush", "commit"} => found[d] = {~shown[d]}
  BY <1>2 DEF IInv, AloneOK
<1>4. Row(d) \in DOMAIN accessor
  BY <1>3, Kinds DEF IInv
<1>5. accessor'[Row(d)].active = accessor[Row(d)].active
  BY <1>2, <1>4, CommitWrites DEF WritesAccessor
<1> QED
  BY <1>2, <1>3, <1>5 DEF Op, Row

(* The statement went with the tables; so does the commit. *)
LEMMA CommitSound ==
  ASSUME IInv, NEW c \in Calls, Commit(c)
  PROVE  TablesAreSound'
<1>1. /\ WritesAccessor(c) /\ WritesRole(c) /\ Fits(c) /\ TablesAreSound
      /\ role \in [Roles -> RoleNames \cup {None, Gone}]
      /\ \A a \in DOMAIN accessor : accessor[a].role \in Roles
  BY CommitWrites DEF IInv, Held, TypeOK, Commit
<1>2. /\ None \notin RoleNames /\ Gone \notin RoleNames
      /\ Op(c) \in {"create", "role"} => found[c] \subseteq Roles
      /\ Op(c) \in {"rename", "create role"} => Name(c) \in RoleNames
      /\ Op(c) \in {"rename", "delete"} => Row(c) \in Roles
  BY NamesAssumption, Kinds DEF IInv, FoundOK, Commit, Shown
<1>0. ASSUME NEW a \in New
      PROVE  Op(c) = "create" /\ accessor'[a].login = Row(c) /\ accessor'[a].role \in found[c]
  <2>1. PICK r \in found[c], active \in BOOLEAN :
          accessor'[a] = [login |-> Row(c), role |-> r, active |-> active]
    BY <1>1 DEF WritesAccessor
  <2> QED
    BY <1>1, <2>1 DEF WritesAccessor
<1>3. ASSUME NEW a \in DOMAIN accessor', NEW b \in DOMAIN accessor', a # b
      PROVE  accessor'[a].login # accessor'[b].login
  <2>1. ASSUME NEW e \in DOMAIN accessor
        PROVE  /\ Op(c) = "create" => accessor[e].login # Row(c)
               /\ Op(c) = "login" => accessor[e].login # Name(c)
    BY <1>1 DEF Fits, LoginExists
  <2>2. ASSUME NEW e \in New, NEW f \in DOMAIN accessor
        PROVE  accessor'[e].login # accessor'[f].login
    <3>1. accessor'[f].login = accessor[f].login
      BY <1>0, <1>1 DEF WritesAccessor
    <3> QED
      BY <1>0, <2>1, <3>1
  <2>3. CASE a \in New /\ b \in New
    BY <1>1, <1>3, <2>3 DEF WritesAccessor
  <2>4. CASE a \in New /\ b \notin New
    BY <2>2, <2>4 DEF New
  <2>5. CASE a \notin New /\ b \in New
    BY <2>2, <2>5 DEF New
  <2>6. CASE a \notin New /\ b \notin New
    <3>1. a \in DOMAIN accessor /\ b \in DOMAIN accessor
      BY <2>6 DEF New
    <3>2. accessor[a].login # accessor[b].login
      BY <1>1, <1>3, <3>1 DEF TablesAreSound
    <3> QED
      BY <1>1, <1>3, <2>1, <3>1, <3>2 DEF WritesAccessor
  <2> QED
    BY <2>3, <2>4, <2>5, <2>6
<1>4. ASSUME NEW r \in Roles, NEW q \in Roles, r # q, role'[r] \in RoleNames
      PROVE  role'[r] # role'[q]
  <2>1. role[r] \in RoleNames \/ role[q] \in RoleNames => role[r] # role[q]
    BY <1>1, <1>4 DEF TablesAreSound, Live
  <2>2. ASSUME NEW s \in Roles
        PROVE  /\ Op(c) = "create role" => role[s] # Name(c)
               /\ Op(c) = "rename" /\ s # Row(c) => role[s] # Name(c)
    BY <1>1 DEF Fits, NameExists, RoleNamed
  <2>3. CASE role'[r] = role[r] /\ role'[q] = role[q]
    BY <1>4, <2>1, <2>3
  <2>4. CASE role'[r] # role[r]
    <3>1. role'[q] = role[q]
      BY <1>1, <1>4, <2>4 DEF WritesRole
    <3>2. role'[r] = Name(c) /\ (Op(c) = "create role" \/ (Op(c) = "rename" /\ q # Row(c)))
      BY <1>1, <1>2, <1>4, <2>4 DEF WritesRole
    <3> QED
      BY <2>2, <3>1, <3>2
  <2>5. CASE role'[q] # role[q]
    <3>1. role'[r] = role[r]
      BY <1>1, <1>4, <2>5 DEF WritesRole
    <3>2. CASE Op(c) = "delete"
      BY <1>1, <1>2, <1>4, <2>5, <3>2 DEF WritesRole
    <3>3. CASE Op(c) # "delete"
      <4>1. role'[q] = Name(c) /\ (Op(c) = "create role" \/ (Op(c) = "rename" /\ r # Row(c)))
        BY <1>1, <1>4, <2>5, <3>3 DEF WritesRole
      <4> QED
        BY <2>2, <3>1, <4>1
    <3> QED
      BY <3>2, <3>3
  <2> QED
    BY <2>3, <2>4, <2>5
<1>5. ASSUME NEW a \in DOMAIN accessor'
      PROVE  role'[accessor'[a].role] \in RoleNames
  <2>1. /\ Op(c) \in {"create", "role"} =>
             found[c] \subseteq Roles /\ \A r \in found[c] : role[r] \in RoleNames
        /\ Op(c) = "delete" => \A e \in DOMAIN accessor : accessor[e].role # Row(c)
        /\ \A e \in DOMAIN accessor : role[accessor[e].role] \in RoleNames
    BY <1>1, <1>2 DEF Fits, GoneRole, UsersOf, Live, TablesAreSound
  <2>2. /\ accessor'[a].role \in Roles /\ role[accessor'[a].role] \in RoleNames
        /\ Op(c) = "delete" => accessor'[a].role # Row(c)
    <3>1. CASE a \in New
      BY <1>0, <2>1, <3>1
    <3>2. CASE a \notin New
      <4>1. a \in DOMAIN accessor
        BY <3>2 DEF New
      <4> QED
        BY <1>1, <2>1, <4>1 DEF WritesAccessor
    <3> QED
      BY <3>1, <3>2
  <2> QED
    BY <1>1, <1>2, <2>2 DEF WritesRole
<1> QED
  BY <1>3, <1>4, <1>5 DEF TablesAreSound, Live

(* Two transactions between statement and commit: neither holds what the   *)
(* other one reads, writes or relies on.                                   *)
LEMMA Apart ==
  ASSUME IInv, NEW c \in Calls, NEW d \in Calls \ {c}, pc[c] = "commit", pc[d] = "commit"
  PROVE  /\ Op(c) # "create role" => Row(c) # Row(d)
         /\ Op(c) = "login" /\ Op(d) = "create" => Name(c) # Row(d)
         /\ Op(c) = "login" /\ Op(d) = "login" => Name(c) # Name(d)
         /\ Op(c) = "create" /\ Op(d) = "login" => Row(c) # Name(d)
         /\ Op(c) \in {"create role", "rename"} /\ Op(d) \in {"create role", "rename"} =>
              Name(c) # Name(d)
         /\ Op(c) \in {"create", "role"} /\ Op(d) \in {"rename", "delete"} =>
              Row(d) \notin found[c]
         /\ Op(c) \in {"rename", "delete"} /\ Op(d) \in {"create", "role"} =>
              Row(c) \notin found[d]
<1>1. /\ Locks(c) \cap Locks(d) = {}
      /\ KeyShared(c) \cap KeyTaken(d) = {} /\ KeyTaken(c) \cap KeyShared(d) = {}
  BY DEF IInv, Held, MustWait
<1>2. ASSUME NEW e \in Calls, pc[e] = "commit"
      PROVE  /\ Op(e) # "create role" => Row(e) \in Locks(e)
             /\ Op(e) \in {"login", "create role", "rename"} => Name(e) \in Locks(e)
  <2>1. Op(e) # "create role" => Row(e) \in Accessors \cup Roles \cup Logins
    BY <1>2, Kinds DEF IInv, TypeOK, Shown
  <2>2. Op(e) \in {"login", "create role", "rename"} => Name(e) \in Logins \cup RoleNames
    BY <1>2, Kinds DEF IInv
  <2> QED
    BY <2>1, <2>2, NamesAssumption DEF Locks
<1>3. \A e \in Calls : pc[e] = "commit" /\ Op(e) \in {"rename", "delete"} => Row(e) \in Roles
  BY Kinds DEF IInv, Shown
<1>4. Op(c) # "create role" => Row(c) # Row(d)
  <2>1. CASE Op(d) = "create role"
    BY <2>1, <1>2, Kinds, NamesAssumption DEF IInv, TypeOK, Shown
  <2>2. CASE Op(d) # "create role"
    BY <2>2, <1>1, <1>2
  <2> QED
    BY <2>1, <2>2
<1>5. /\ Op(c) \in {"create", "role"} /\ Op(d) \in {"rename", "delete"} =>
           Row(d) \notin found[c]
      /\ Op(c) \in {"rename", "delete"} /\ Op(d) \in {"create", "role"} =>
           Row(c) \notin found[d]
  BY <1>1, <1>3 DEF KeyShared, KeyTaken
<1> QED
  BY <1>1, <1>2, <1>4, <1>5

(* So what the commit writes is no obstacle to the other one.              *)
LEMMA CommitHeld ==
  ASSUME IInv, NEW c \in Calls, Commit(c)
  PROVE  Held'
<1>1. pc[c] = "commit" /\ WritesAccessor(c) /\ WritesRole(c) /\ pc'[c] # "commit"
  BY CommitWrites, CommitGoesOn DEF Commit
<1>2. ASSUME NEW d \in Calls, pc'[d] = "commit"
      PROVE  /\ d # c /\ pc[d] = "commit" /\ todo'[d] = todo[d] /\ found'[d] = found[d]
             /\ Op(d)' = Op(d) /\ Row(d)' = Row(d) /\ Name(d)' = Name(d)
  BY <1>1, <1>2, CommitElsewhere DEF Op, Row, Name
<1>3. ASSUME NEW d \in Calls, pc'[d] = "commit"
      PROVE  /\ Op(d) = "login" => accessor'[Row(d)].login = accessor[Row(d)].login
             /\ Op(d) \in {"rename", "delete"} => role'[Row(d)] = role[Row(d)]
  <2>1. /\ d # c /\ pc[d] = "commit"
        /\ Op(d) = "login" => Row(d) \in DOMAIN accessor
        /\ Op(d) \in {"rename", "delete"} => Row(d) \in Roles /\ role[Row(d)] # None
    BY <1>2, <1>3, Kinds DEF IInv, Shown
  <2>2. Op(c) # "create role" => Row(c) # Row(d)
    BY <1>1, <2>1, Apart
  <2> QED
    BY <1>1, <2>1, <2>2 DEF WritesAccessor, WritesRole
<1>4. ASSUME NEW d \in Calls, pc'[d] = "commit"
      PROVE  /\ Locks(d)' = Locks(d) /\ KeyShared(d)' = KeyShared(d)
             /\ KeyTaken(d)' = KeyTaken(d)
  BY <1>2, <1>3, <1>4 DEF Locks, KeyShared, KeyTaken
<1>5. ASSUME NEW d \in Calls, pc'[d] = "commit"
      PROVE  ~MustWait(d)'
  <2>1. ~MustWait(d)
    BY <1>2, <1>5 DEF IInv, Held
  <2> QED
    BY <1>2, <1>4, <1>5, <2>1 DEF MustWait
<1>6. ASSUME NEW d \in Calls, pc'[d] = "commit"
      PROVE  Fits(d)'
  <2>1. d \in Calls \ {c} /\ pc[d] = "commit" /\ Fits(d)
    BY <1>2, <1>6 DEF IInv, Held
  <2>2. /\ Op(d)' = Op(d) /\ Row(d)' = Row(d) /\ Name(d)' = Name(d)
        /\ found'[d] = found[d]
    BY <1>2, <1>6
  <2>3. ASSUME Op(d) \in {"create", "role"}
        PROVE  \A r \in found[d] : role'[r] \in RoleNames
    <3>1. found[d] \subseteq Roles /\ \A r \in found[d] : role[r] \in RoleNames
      BY <2>1, <2>3 DEF Fits, GoneRole, Live, IInv, FoundOK
    <3> QED
      BY <1>1, <2>1, <2>3, <3>1, Apart, Kinds DEF WritesRole, IInv
  <2>4. ASSUME Op(d) \in {"create", "login"}, NEW l, NEW a \in DOMAIN accessor',
               l = IF Op(d) = "create" THEN Row(d) ELSE Name(d)
        PROVE  accessor'[a].login # l
    <3>1. /\ Op(c) = "create" => Row(c) # l
          /\ Op(c) = "login" => Name(c) # l
      BY <1>1, <2>1, <2>4, Apart
    <3>2. \A e \in DOMAIN accessor : accessor[e].login # l
      BY <2>1, <2>4 DEF Fits, LoginExists
    <3>3. CASE a \in DOMAIN accessor
      BY <1>1, <3>1, <3>2, <3>3 DEF WritesAccessor
    <3>4. CASE a \in New
      <4>1. PICK r \in found[c], active \in BOOLEAN :
              accessor'[a] = [login |-> Row(c), role |-> r, active |-> active]
        BY <1>1, <3>4 DEF WritesAccessor
      <4> QED
        BY <1>1, <3>1, <3>4, <4>1 DEF WritesAccessor
    <3> QED
      BY <3>3, <3>4 DEF New
  <2>5. ASSUME Op(d) \in {"create role", "rename"}, NEW r \in Roles, role'[r] = Name(d)
        PROVE  Op(d) = "rename" /\ r = Row(d)
    <3>1. Name(d) # Gone /\ role[r] = Name(d) => Op(d) = "rename" /\ r = Row(d)
      BY <2>1, <2>5 DEF Fits, NameExists, RoleNamed
    <3>2. Name(d) # Gone /\ (Op(c) \in {"create role", "rename"} => Name(c) # Name(d))
      BY <1>1, <2>1, <2>5, Apart, Kinds, NamesAssumption DEF IInv
    <3> QED
      BY <1>1, <2>5, <3>1, <3>2 DEF WritesRole
  <2>6. ASSUME Op(d) \in {"rename", "overwrite"}, Row(d) \in Roles
        PROVE  role'[Row(d)] \in RoleNames
    <3>1. role[Row(d)] \in RoleNames
      BY <2>1, <2>6 DEF Fits, Live
    <3>2. Op(c) # "create role" => Row(c) # Row(d)
      BY <1>1, <2>1, Apart
    <3> QED
      BY <1>1, <2>6, <3>1, <3>2, NamesAssumption DEF WritesRole
  <2>7. ASSUME Op(d) = "delete", NEW a \in DOMAIN accessor'
        PROVE  accessor'[a].role # Row(d)
    <3>1. \A e \in DOMAIN accessor : accessor[e].role # Row(d)
      BY <2>1, <2>7 DEF Fits, UsersOf
    <3>2. Op(c) \in {"create", "role"} => Row(d) \notin found[c]
      BY <1>1, <2>1, <2>7, Apart
    <3>3. CASE a \in DOMAIN accessor
      BY <1>1, <3>1, <3>2, <3>3 DEF WritesAccessor
    <3>4. CASE a \in New
      <4>1. PICK r \in found[c], active \in BOOLEAN :
              accessor'[a] = [login |-> Row(c), role |-> r, active |-> active]
        BY <1>1, <3>4 DEF WritesAccessor
      <4> QED
        BY <1>1, <3>2, <3>4, <4>1 DEF WritesAccessor
    <3> QED
      BY <3>3, <3>4 DEF New
  <2>8. Op(d) = "rename" => Row(d) \in Roles
    BY <2>1, Kinds DEF IInv, Shown
  <2> QED
    BY <2>2, <2>3, <2>4, <2>5, <2>6, <2>7, <2>8
      DEF Fits, GoneRole, Live, LoginExists, NameExists, RoleNamed, UsersOf
<1> QED
  BY <1>5, <1>6 DEF Held

-----------------------------------------------------------------------------
(* The roles and the account of the migration. *)
LEMMA Inits ==
  ASSUME Init
  PROVE  IInv
<1>1. PICK a \in Accessors, r \in Roles, q \in Roles, l \in Logins,
           n \in RoleNames, k \in RoleNames :
        /\ r # q /\ n # k
        /\ accessor = [b \in {a} |-> [login |-> l, role |-> r, active |-> TRUE]]
        /\ role = [s \in Roles |-> CASE s = r -> n [] s = q -> k [] OTHER -> None]
  BY DEF Init
<1>2. /\ todo = [c \in Calls |-> <<>>] /\ pc = [c \in Calls |-> "idle"]
      /\ found = [c \in Calls |-> {}] /\ shown = [c \in Calls |-> FALSE]
      /\ alone = [c \in Calls |-> FALSE]
  BY DEF Init
<1>3. /\ role \in [Roles -> RoleNames \cup {None, Gone}]
      /\ role[r] = n /\ role[q] = k /\ \A s \in Roles \ {r, q} : role[s] = None
  BY <1>1
<1>4. TypeOK
  BY <1>1, <1>2, <1>3 DEF TypeOK
<1>5. PartsOK
  <2>1. <<>> \in Seq(EditParts)
    BY EmptySeq
  <2> QED
    BY <1>2, <2>1 DEF PartsOK
<1>6. FoundOK /\ AloneOK /\ Held
  BY <1>2 DEF FoundOK, AloneOK, Held
<1>7. TablesAreSound
  <2>1. \A s, t \in Roles : s # t /\ Live(s) => role[s] # role[t]
    BY <1>1, <1>3, NamesAssumption DEF Live
  <2> QED
    BY <1>1, <1>3, <2>1 DEF TablesAreSound, Live
<1> QED
  BY <1>4, <1>5, <1>6, <1>7 DEF IInv

(* Time may pass. *)
LEMMA Stutters ==
  ASSUME IInv, UNCHANGED vars
  PROVE  IInv'
<1>1. /\ accessor' = accessor /\ role' = role /\ todo' = todo /\ pc' = pc
      /\ found' = found /\ shown' = shown /\ alone' = alone
  BY DEF vars, tables
<1>2. TypeOK' /\ TablesAreSound'
  BY <1>1 DEF IInv, TypeOK, TablesAreSound, Live
<1>3. PartsOK' /\ FoundOK' /\ AloneOK'
  BY <1>1 DEF IInv, PartsOK, FoundOK, AloneOK, EditParts, SingleParts, Shown, Op, Row
<1>4. \A c \in Calls : Fits(c)' = Fits(c)
  BY <1>1 DEF Fits, GoneRole, Live, LoginExists, NameExists, RoleNamed, UsersOf, Op, Row, Name
<1>5. \A c \in Calls : MustWait(c)' = MustWait(c)
  BY <1>1 DEF MustWait, Locks, KeyShared, KeyTaken, Op, Row, Name
<1>6. Held'
  BY <1>1, <1>4, <1>5 DEF IInv, Held
<1> QED
  BY <1>2, <1>3, <1>6 DEF IInv

(* The inductive invariant holds in every behaviour. *)
THEOREM Invariance == Spec => []IInv
<1>1. Init => IInv
  BY Inits
<1>2. IInv /\ [Next]_vars => IInv'
  <2> SUFFICES ASSUME IInv, [Next]_vars
               PROVE  IInv'
    OBVIOUS
  <2>1. ASSUME NEW c \in Calls, Press(c)
        PROVE  IInv'
    BY <2>1, PlainPresses, Edits, Toggles DEF Press
  <2>2. ASSUME NEW c \in Calls, CallStep(c)
        PROVE  IInv'
    <3>1. CASE LookRefuses(c) \/ IntegrityError(c) \/ LockTimesOut(c)
      BY <3>1, Ends DEF LookRefuses, IntegrityError, LockTimesOut
    <3>2. CASE LookUp(c)
      BY <3>2, Looks
    <3>3. CASE Flush(c)
      BY <3>3, Flushes
    <3>4. CASE Commit(c)
      BY <3>4, CommitTypes, CommitAlone, CommitHeld, CommitSound DEF IInv
    <3> QED
      BY <2>2, <3>1, <3>2, <3>3, <3>4 DEF CallStep
  <2>3. CASE UNCHANGED vars
    BY <2>3, Stutters
  <2> QED
    BY <2>1, <2>2, <2>3 DEF Next
<1> QED
  BY <1>1, <1>2, PTL DEF Spec

(* The tables and the calls have their types, and a call that has nothing  *)
(* left to do is over (ui_helpers.py, the save handlers).                  *)
THEOREM TypeCorrect == Spec => []TypeOK
<1>1. IInv => TypeOK
  BY DEF IInv
<1> QED
  BY <1>1, Invariance, PTL

(* However any number of service calls overlap, logins and role names stay *)
(* unique and no account is left with a role that is gone (tables.py, the  *)
(* constraints; accessor_repository.py, the checks before them).           *)
THEOREM TablesStaySound == Spec => []TablesAreSound
<1>1. IInv => TablesAreSound
  BY DEF IInv
<1> QED
  BY <1>1, Invariance, PTL

(* A confirmed switch of an account does what its dialog said, unless      *)
(* another call has switched the account since (user_management_page.py,   *)
(* the activation dialog; base_dbservice.py, the switch).                  *)
THEOREM SwitchAsConfirmed == Spec => ConfirmedWhenAlone
<1>1. ASSUME IInv, [Next]_vars
      PROVE  [\A c \in Calls :
                Commit(c) /\ Op(c) = "toggle" /\ alone[c] =>
                  accessor'[Row(c)].active = ~shown[c]]_vars
  <2> SUFFICES ASSUME NEW c \in Calls, Commit(c), Op(c) = "toggle", alone[c]
               PROVE  accessor'[Row(c)].active = ~shown[c]
    OBVIOUS
  <2>1. found[c] = {~shown[c]} /\ Apply(c) /\ pc[c] # "idle"
    BY <1>1 DEF IInv, AloneOK, Commit
  <2>2. PICK active \in found[c] : accessor' = [accessor EXCEPT ![Row(c)]["active"] = active]
    BY <2>1 DEF Apply, Update
  <2>3. /\ Row(c) \in DOMAIN accessor
        /\ accessor[Row(c)] \in [login : Logins, role : Roles, active : BOOLEAN]
    BY <1>1, <2>1, Kinds DEF IInv, TypeOK
  <2> QED
    BY <2>1, <2>2, <2>3
<1> QED
  BY <1>1, Invariance, PTL DEF Spec, ConfirmedWhenAlone

-----------------------------------------------------------------------------
(* What a reader of the tables sees of the transactions. *)
Committed == INSTANCE Registry

(* A commit is one operation on the tables as they are at that moment, not *)
(* as the call has seen them: its statement still goes with them.          *)
LEMMA CommitIsAtomic ==
  ASSUME IInv, NEW c \in Calls, Commit(c)
  PROVE  Committed!Next \/ UNCHANGED tables
<1> USE DEF tables, Committed!Next
<1>1. /\ Apply(c) /\ Fits(c) /\ pc[c] # "idle"
      /\ DOMAIN accessor \subseteq Accessors /\ role \in [Roles -> RoleNames \cup {None, Gone}]
  BY DEF Commit, IInv, Held, TypeOK
<1>2. /\ Op(c) \in {"create", "role"} => \A r \in found[c] : r \in Roles /\ Live(r)
      /\ Op(c) = "toggle" => found[c] \subseteq BOOLEAN
  BY <1>1 DEF IInv, FoundOK, Fits, GoneRole
<1>3. CASE Op(c) = "create" /\ Row(c) \in Logins
  <2>1. PICK a \in Accessors \ DOMAIN accessor, r \in found[c], active \in BOOLEAN :
          accessor' = [b \in DOMAIN accessor \cup {a} |->
             IF b = a THEN [login |-> Row(c), role |-> r, active |-> active]
             ELSE accessor[b]]
    BY <1>1, <1>3 DEF Apply
  <2> DEFINE row == [login |-> Row(c), role |-> r, active |-> active]
  <2>2. row \in Committed!Row /\ row.login = Row(c) /\ row.role = r
    BY <1>2, <1>3 DEF Committed!Row
  <2>3. Committed!LoginFree(Row(c)) /\ Committed!Live(r)
    BY <1>1, <1>2, <1>3 DEF Fits, LoginExists, Committed!LoginFree, Committed!Live, Live
  <2>4. Committed!AddUser(a, row)
    BY <1>1, <1>3, <2>1, <2>2, <2>3 DEF Apply, Committed!AddUser
  <2> QED
    BY <2>2, <2>4
<1>4. CASE Op(c) = "login" /\ Row(c) \in DOMAIN accessor /\ Name(c) \in Logins
  <2>1. Committed!ChangeLogin(Row(c), Name(c))
    BY <1>1, <1>4 DEF Apply, Update, Fits, LoginExists, Committed!ChangeLogin,
                      Committed!LoginFree
  <2> QED
    BY <1>4, <2>1
<1>5. CASE Op(c) = "role" /\ Row(c) \in DOMAIN accessor
  <2>1. PICK r \in found[c] : Update(c, "role", r)
    BY <1>1, <1>5 DEF Apply
  <2>2. Committed!GiveRole(Row(c), r)
    BY <1>2, <1>5, <2>1 DEF Update, Committed!GiveRole, Committed!Live, Live
  <2> QED
    BY <1>2, <1>5, <2>2
<1>6. CASE Op(c) = "toggle" /\ Row(c) \in DOMAIN accessor
  <2>1. PICK active \in found[c] : Update(c, "active", active)
    BY <1>1, <1>6 DEF Apply
  <2>2. Committed!Switch(Row(c), active) /\ active \in BOOLEAN
    BY <1>2, <1>6, <2>1 DEF Update, Committed!Switch
  <2> QED
    BY <1>6, <2>2
<1>7. CASE Op(c) = "create role" /\ Name(c) \in RoleNames
  <2>1. PICK r \in Roles : role[r] = None /\ Rename(c, r, Name(c))
    BY <1>1, <1>7 DEF Apply
  <2>2. Committed!NameFree(Name(c))
    BY <1>1, <1>7 DEF Fits, NameExists, RoleNamed, Committed!NameFree
  <2>3. Committed!AddRole(r, Name(c))
    BY <2>1, <2>2 DEF Rename, None, Committed!AddRole, Committed!Name
  <2> QED
    BY <1>7, <2>3
<1>8. CASE Op(c) = "rename" /\ Row(c) \in Shown /\ Name(c) \in RoleNames
  <2>1. Rename(c, Row(c), Name(c)) /\ Live(Row(c)) /\ RoleNamed(Name(c)) \subseteq {Row(c)}
    BY <1>1, <1>8 DEF Apply, Fits
  <2>2. Row(c) \in Roles
    BY <1>8 DEF Shown
  <2>3. CASE role[Row(c)] = Name(c)
    BY <1>1, <2>1, <2>3 DEF Rename
  <2>4. CASE role[Row(c)] # Name(c)
    <3>1. Committed!NameFree(Name(c))
      BY <2>1, <2>4 DEF RoleNamed, Committed!NameFree
    <3>2. Committed!RenameRole(Row(c), Name(c))
      BY <2>1, <3>1 DEF Rename, Live, Committed!RenameRole, Committed!Name, Committed!Live
    <3> QED
      BY <1>8, <2>2, <3>2
  <2> QED
    BY <2>3, <2>4
<1>9. CASE Op(c) = "delete" /\ Row(c) \in Shown
  <2>1. Rename(c, Row(c), Gone) /\ UsersOf(Row(c)) = {}
    BY <1>1, <1>9 DEF Apply, Fits
  <2>2. Row(c) \in Roles /\ role[Row(c)] # None
    BY <1>9 DEF Shown
  <2>3. CASE role[Row(c)] = Gone
    BY <1>1, <2>1, <2>3 DEF Rename
  <2>4. CASE role[Row(c)] # Gone
    <3>1. Live(Row(c))
      BY <1>1, <2>2, <2>4 DEF Live
    <3>2. Committed!DeleteRole(Row(c))
      BY <2>1, <3>1 DEF Rename, Live, UsersOf, Gone, Committed!DeleteRole, Committed!Live
    <3> QED
      BY <2>2, <3>2
  <2> QED
    BY <2>3, <2>4
<1>10. CASE Op(c) = "overwrite"
  BY <1>1, <1>10 DEF Apply
<1> QED
  BY <1>1, <1>3, <1>4, <1>5, <1>6, <1>7, <1>8, <1>9, <1>10, Kinds DEF IInv

(* No other step of a call writes the tables. *)
LEMMA OnlyCommits ==
  ASSUME NEW c \in Calls, Press(c) \/ CallStep(c)
  PROVE  Commit(c) \/ UNCHANGED tables
<1>1. CASE Press(c)
  BY <1>1 DEF Press, AddUser, EditUser, ToggleActivation, ChangePassword, ResetPassword,
              AddRole, EditRole, ManagePermissions, DeleteRole, Plain, Request
<1>2. CASE CallStep(c)
  BY <1>2 DEF CallStep, LookRefuses, LookUp, Flush, IntegrityError, LockTimesOut,
              Refuse, Found
<1> QED
  BY <1>1, <1>2

(* However looks, statements and commits of any number of calls overlap,   *)
(* the tables change as if each operation were made at once, on the tables *)
(* it finds at its commit (base_dbservice.py, the transactions).           *)
THEOREM Refinement == Spec => Committed!Spec
<1>1. Init => Committed!Init
  <2> SUFFICES ASSUME Init PROVE Committed!Init
    OBVIOUS
  <2>1. TypeOK /\ TablesAreSound
    BY Inits DEF IInv
  <2>2. \A a \in DOMAIN accessor : accessor[a] \in Committed!Row /\ Committed!Live(accessor[a].role)
    BY <2>1 DEF TypeOK, TablesAreSound, Live, Committed!Live, Committed!Row
  <2> QED
    BY <2>1, <2>2 DEF TypeOK, TablesAreSound, Live, None, Gone, Committed!Init, Committed!Live
<1>2. IInv /\ [Next]_vars => [Committed!Next]_Committed!vars
  <2> SUFFICES ASSUME IInv, [Next]_vars PROVE Committed!Next \/ UNCHANGED tables
    BY DEF tables, Committed!vars
  <2>1. CASE UNCHANGED vars
    BY <2>1 DEF vars, tables
  <2>2. ASSUME NEW c \in Calls, Press(c) \/ CallStep(c)
        PROVE  Committed!Next \/ UNCHANGED tables
    BY <2>2, OnlyCommits, CommitIsAtomic
  <2> QED
    BY <2>1, <2>2 DEF Next
<1> QED
  BY <1>1, <1>2, Invariance, PTL DEF Spec, Committed!Spec

===============================================================================
