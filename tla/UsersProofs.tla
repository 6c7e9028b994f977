----------------------------- MODULE UsersProofs -----------------------------
(***************************************************************************)
(* Proofs about Users.tla for every number of accounts, badges and logins, *)
(* with and without faults.                                                *)
(***************************************************************************)
EXTENDS Users, FiniteSetTheorems, TLAPS

LoginStep(l) ==
  (\E p \in Profile : Fetch(l, p)) \/ Statement(l) \/ Finish(l) \/ Fault(l)

LEMMA StepsOfLogins == UsersNext <=> \E l \in Login : LoginStep(l)
BY DEF UsersNext, LoginStep

-----------------------------------------------------------------------------
(* Types. *)

TableTypes ==
  /\ users \in [UserId -> UserRow \cup {None}]
  /\ held \in [UserId -> SUBSET Badge]

LocalTypes ==
  /\ pc \in [Login -> PC]
  /\ profile \in [Login -> Profile \cup {NoProfile}]
  /\ user \in [Login -> UserId \cup {None}]
  /\ alone \in [Login -> BOOLEAN]
  /\ broken \in [Account -> 0 .. MaxBroken]

(* What the next statement of l uses has been loaded. *)
Ready(l) ==
  /\ Busy(l) => profile[l] \in Profile
  /\ pc[l] \in {"update", "delete", "add", "done"} => user[l] \in Rows(profile[l].account)

LEMMA TypeParts == UsersTypeOK <=> TableTypes /\ LocalTypes /\ \A l \in Login : Ready(l)
BY DEF UsersTypeOK, TableTypes, LocalTypes, Ready

(* No row is ever deleted or given to another account. *)
RowsStay ==
  \A u \in UserId : users[u] # None => users'[u] # None /\ users'[u].account = users[u].account

(* A step of l leaves the other logins where they are. *)
Spares(l) ==
  \A k \in Login \ {l} : pc'[k] = pc[k] /\ profile'[k] = profile[k] /\ user'[k] = user[k]

LEMMA ReadyByOne ==
  ASSUME NEW l \in Login, \A k \in Login : Ready(k), RowsStay, Spares(l), Ready(l)'
  PROVE  \A k \in Login : Ready(k)'
BY DEF Ready, RowsStay, Spares, Rows, Busy

LEMMA FetchTypes ==
  ASSUME UsersTypeOK, NEW l \in Login, NEW p \in Profile, Fetch(l, p)
  PROVE  TableTypes' /\ LocalTypes' /\ RowsStay /\ Spares(l) /\ Ready(l)'
<1>1. TableTypes' /\ RowsStay /\ Spares(l)
  BY DEF Fetch, UsersTypeOK, TableTypes, RowsStay, Spares
<1>2. LocalTypes'
  BY DEF Fetch, UsersTypeOK, LocalTypes, PC, Of, Busy
<1>3. Ready(l)'
  BY DEF Fetch, UsersTypeOK, Ready, Rows, Busy
<1> QED BY <1>1, <1>2, <1>3

(* Find counts at most one broken result, of its own account. *)
LEMMA BrokenStep ==
  ASSUME UsersTypeOK, NEW l \in Login, Find(l)
  PROVE  broken' \in [Account -> 0 .. MaxBroken]
<1>1. profile[l].account \in Account
  BY DEF Find, UsersTypeOK, Busy, Profile
<1>2. CASE broken' = broken
  BY <1>2 DEF UsersTypeOK
<1>3. CASE /\ broken[profile[l].account] < MaxBroken
           /\ broken' = [broken EXCEPT ![profile[l].account] = @ + 1]
  <2>1. broken[profile[l].account] + 1 \in 0 .. MaxBroken
    BY <1>1, <1>3, UsersSwitches DEF UsersTypeOK
  <2> QED BY <1>1, <1>3, <2>1 DEF UsersTypeOK
<1> QED BY <1>2, <1>3 DEF Find

LEMMA FindTypes ==
  ASSUME UsersTypeOK, NEW l \in Login, Find(l)
  PROVE  TableTypes' /\ LocalTypes' /\ RowsStay /\ Spares(l) /\ Ready(l)'
<1>1. TableTypes' /\ RowsStay
  BY DEF Find, UsersTypeOK, TableTypes, RowsStay
<1>2. PICK u \in UserId \cup {None}, s \in {"update", "insert"} :
        Work(l, u, s) /\ (s = "update" => u \in Rows(profile[l].account))
  BY DEF Find, Rows
<1>3. broken' \in [Account -> 0 .. MaxBroken]
  BY BrokenStep
<1>4. LocalTypes' /\ Spares(l)
  BY <1>2, <1>3 DEF Work, Goto, UsersTypeOK, LocalTypes, Spares, PC
<1>5. Ready(l)'
  BY <1>2 DEF Find, Work, Goto, UsersTypeOK, Ready, Rows, Busy
<1> QED BY <1>1, <1>4, <1>5

LEMMA UpdateTypes ==
  ASSUME UsersTypeOK, NEW l \in Login, Update(l)
  PROVE  TableTypes' /\ LocalTypes' /\ RowsStay /\ Spares(l) /\ Ready(l)'
<1>1. user[l] \in UserId /\ users[user[l]] \in UserRow /\ profile[l].name \in Name
      /\ users[user[l]].account = profile[l].account
  BY DEF Update, UsersTypeOK, Rows, Busy, Profile
<1>2. TableTypes' /\ RowsStay
  BY <1>1, RowAssumption DEF Update, UsersTypeOK, TableTypes, RowsStay, UserRow
<1>3. LocalTypes' /\ Spares(l)
  BY DEF Update, Goto, UsersTypeOK, LocalTypes, Spares, PC
<1>4. Ready(l)'
  BY <1>1, <1>2 DEF Update, Goto, UsersTypeOK, Ready, Rows, Busy, RowsStay
<1> QED BY <1>2, <1>3, <1>4

(* A login that ends needs nothing. *)
LEMMA StopTypes ==
  ASSUME UsersTypeOK, NEW l \in Login, Stop(l), UNCHANGED <<users, held, broken>>
  PROVE  TableTypes' /\ LocalTypes' /\ RowsStay /\ Spares(l) /\ Ready(l)'
<1>1. TableTypes' /\ RowsStay /\ Spares(l)
  BY DEF Stop, UsersTypeOK, TableTypes, RowsStay, Spares
<1>2. LocalTypes'
  BY DEF Stop, UsersTypeOK, LocalTypes, PC
<1>3. Ready(l)'
  BY DEF Stop, UsersTypeOK, Ready, Busy
<1> QED BY <1>1, <1>2, <1>3

LEMMA InsertTypes ==
  ASSUME UsersTypeOK, NEW l \in Login, Insert(l)
  PROVE  TableTypes' /\ LocalTypes' /\ RowsStay /\ Spares(l) /\ Ready(l)'
<1>1. CASE Stop(l) /\ UNCHANGED users
  BY <1>1, StopTypes DEF Insert
<1>2. CASE \E u \in UserId :
             /\ users[u] = None
             /\ users' = [users EXCEPT ![u] = [account |-> profile[l].account, name |-> profile[l].name]]
             /\ Work(l, u, "delete")
  <2>1. PICK u \in UserId :
          /\ users[u] = None
          /\ users' = [users EXCEPT ![u] = [account |-> profile[l].account, name |-> profile[l].name]]
          /\ Work(l, u, "delete")
    BY <1>2
  <2>2. profile[l] \in Profile /\ held' = held /\ broken' = broken
    BY DEF Insert, UsersTypeOK, Busy
  <2>3. [account |-> profile[l].account, name |-> profile[l].name] \in UserRow
    BY <2>2 DEF Profile, UserRow
  <2>4. TableTypes' /\ RowsStay
    BY <2>1, <2>2, <2>3 DEF UsersTypeOK, TableTypes, RowsStay
  <2>5. LocalTypes' /\ Spares(l)
    BY <2>1, <2>2 DEF Work, Goto, UsersTypeOK, LocalTypes, Spares, PC
  <2>6. Ready(l)'
    BY <2>1, <2>2, <2>3, RowAssumption DEF Work, Goto, UsersTypeOK, Ready, Rows, Busy
  <2> QED BY <2>4, <2>5, <2>6
<1> QED BY <1>1, <1>2 DEF Insert

LEMMA DeleteBadgesTypes ==
  ASSUME UsersTypeOK, NEW l \in Login, DeleteBadges(l)
  PROVE  TableTypes' /\ LocalTypes' /\ RowsStay /\ Spares(l) /\ Ready(l)'
<1>1. TableTypes' /\ RowsStay
  BY DEF DeleteBadges, UsersTypeOK, TableTypes, RowsStay
<1>2. LocalTypes' /\ Spares(l)
  BY DEF DeleteBadges, Goto, UsersTypeOK, LocalTypes, Spares, PC
<1>3. Ready(l)'
  BY DEF DeleteBadges, Goto, UsersTypeOK, Ready, Rows, Busy
<1> QED BY <1>1, <1>2, <1>3

LEMMA AddBadgesTypes ==
  ASSUME UsersTypeOK, NEW l \in Login, AddBadges(l)
  PROVE  TableTypes' /\ LocalTypes' /\ RowsStay /\ Spares(l) /\ Ready(l)'
<1>1. TableTypes' /\ RowsStay
  BY DEF AddBadges, UsersTypeOK, TableTypes, RowsStay, Known
<1>2. LocalTypes' /\ Spares(l)
  BY DEF AddBadges, Goto, UsersTypeOK, LocalTypes, Spares, PC
<1>3. Ready(l)'
  BY DEF AddBadges, Goto, UsersTypeOK, Ready, Rows, Busy
<1> QED BY <1>1, <1>2, <1>3

LEMMA StepTypes ==
  ASSUME UsersTypeOK, NEW l \in Login, LoginStep(l)
  PROVE  UsersTypeOK' /\ RowsStay /\ Spares(l)
<1>1. TableTypes' /\ LocalTypes' /\ RowsStay /\ Spares(l) /\ Ready(l)'
  <2>1. CASE \E p \in Profile : Fetch(l, p)
    BY <2>1, FetchTypes
  <2>2. CASE Finish(l) \/ Fault(l)
    BY <2>2, StopTypes DEF Finish, Fault
  <2> QED BY <2>1, <2>2, FindTypes, UpdateTypes, InsertTypes, DeleteBadgesTypes, AddBadgesTypes
          DEF LoginStep, Statement
<1>2. \A k \in Login : Ready(k)
  BY TypeParts
<1>3. \A k \in Login : Ready(k)'
  BY <1>1, <1>2, ReadyByOne
<1>4. UsersTypeOK'
  BY <1>1, <1>3 DEF UsersTypeOK, TableTypes, LocalTypes, Ready
<1> QED BY <1>1, <1>4

LEMMA TypesInit == UsersInit => UsersTypeOK
BY UsersSwitches DEF UsersInit, UsersTypeOK, PC, Busy

LEMMA TypesStutter == UsersTypeOK /\ UNCHANGED imports => UsersTypeOK'
BY DEF UsersTypeOK, imports, Busy, Rows

LEMMA TypesNext == UsersTypeOK /\ [UsersNext]_imports => UsersTypeOK'
BY StepsOfLogins, StepTypes, TypesStutter

(* The tables and what a login has loaded are of their types, and a login  *)
(* past its row has one of its account.                                    *)
THEOREM UsersTypeCorrect == UsersSpec => []UsersTypeOK
BY TypesInit, TypesNext, PTL DEF UsersSpec

-----------------------------------------------------------------------------
(* The number of rows of an account. *)

(* Logins whose next statement inserts a row of a. *)
Inserters(a) == {l \in Login : pc[l] = "insert" /\ profile[l].account = a}

(* DuplicatesBounded is not inductive: the logins about to insert are rows *)
(* to come.  The first of them begins with no row, so rows and inserts to  *)
(* come are never more than the logins and the results that broke off.     *)
CountInv(a) ==
  /\ IsFiniteSet(Rows(a))
  /\ UniqueAccounts => Cardinality(Rows(a)) <= 1
  /\ Cardinality(Rows(a)) + Cardinality(Inserters(a)) <= Cardinality(Login) + broken[a]

LEMMA InsertersCounted ==
  ASSUME NEW a
  PROVE  /\ IsFiniteSet(Inserters(a)) /\ Cardinality(Inserters(a)) \in Nat
         /\ Cardinality(Login) \in Nat
         /\ Cardinality(Inserters(a)) <= Cardinality(Login)
BY LoginAssumption, FS_Subset, FS_CardinalityType, Inserters(a) \subseteq Login DEF Inserters

LEMMA InsertersCountedNext ==
  ASSUME NEW a
  PROVE  /\ IsFiniteSet(Inserters(a)') /\ Cardinality(Inserters(a)') \in Nat
         /\ Cardinality(Inserters(a)') <= Cardinality(Login)
<1>1. Inserters(a)' \subseteq Login
  BY DEF Inserters
<1> QED BY <1>1, LoginAssumption, FS_Subset, FS_CardinalityType

(* What a step may do to the rows of a and to the inserts to come. *)
NoMore(a)  == Rows(a)' = Rows(a) /\ Inserters(a)' \subseteq Inserters(a) /\ broken'[a] = broken[a]
NoRows(a)  == Rows(a) = {} /\ Rows(a)' = {} /\ broken'[a] = broken[a]
Hidden(a)  ==
  /\ Rows(a)' = Rows(a) /\ broken'[a] = broken[a] + 1
  /\ \E l \in Login : Inserters(a)' \subseteq Inserters(a) \cup {l}
OneMore(a) ==
  /\ broken'[a] = broken[a]
  /\ \E u \in UserId, l \in Inserters(a) :
       Rows(a)' = Rows(a) \cup {u} /\ Inserters(a)' \subseteq Inserters(a) \ {l}
  /\ UniqueAccounts => Rows(a) = {}

LEMMA CountByStep ==
  ASSUME NEW a, broken[a] \in Nat, CountInv(a),
         NoMore(a) \/ NoRows(a) \/ Hidden(a) \/ OneMore(a)
  PROVE  CountInv(a)'
<1> DEFINE x == Cardinality(Rows(a))   i == Cardinality(Inserters(a))
           y == Cardinality(Rows(a)')  j == Cardinality(Inserters(a)')
           n == Cardinality(Login)
<1>1. x \in Nat /\ i \in Nat /\ j \in Nat /\ n \in Nat /\ j <= n /\ x + i <= n + broken[a]
  BY InsertersCounted, InsertersCountedNext, FS_CardinalityType DEF CountInv
<1>2. CASE NoMore(a)
  <2>1. j <= i
    BY <1>2, InsertersCounted, FS_Subset DEF NoMore
  <2> QED BY <1>1, <1>2, <2>1 DEF NoMore, CountInv
<1>3. CASE NoRows(a)
  <2>1. y = 0 /\ IsFiniteSet(Rows(a)')
    BY <1>3, FS_EmptySet DEF NoRows
  <2> QED BY <1>1, <1>3, <2>1 DEF NoRows, CountInv
<1>4. CASE Hidden(a)
  <2>1. PICK l \in Login : Inserters(a)' \subseteq Inserters(a) \cup {l}
    BY <1>4 DEF Hidden
  <2>2. /\ IsFiniteSet(Inserters(a) \cup {l})
        /\ Cardinality(Inserters(a) \cup {l}) <= i + 1
    BY InsertersCounted, FS_AddElement
  <2>3. j <= Cardinality(Inserters(a) \cup {l}) /\ Cardinality(Inserters(a) \cup {l}) \in Nat
    BY <2>1, <2>2, FS_Subset, FS_CardinalityType
  <2>4. j <= i + 1
    BY <1>1, <2>2, <2>3
  <2> QED BY <1>1, <1>4, <2>4 DEF Hidden, CountInv
<1>5. CASE OneMore(a)
  <2>1. PICK u \in UserId, l \in Inserters(a) :
          Rows(a)' = Rows(a) \cup {u} /\ Inserters(a)' \subseteq Inserters(a) \ {l}
    BY <1>5 DEF OneMore
  <2>2. IsFiniteSet(Rows(a)') /\ y = IF u \in Rows(a) THEN x ELSE x + 1
    BY <2>1, FS_AddElement DEF CountInv
  <2>3. j <= i - 1
    <3>1. IsFiniteSet(Inserters(a) \ {l}) /\ Cardinality(Inserters(a) \ {l}) = i - 1
      BY InsertersCounted, FS_RemoveElement
    <3> QED BY <2>1, <3>1, FS_Subset
  <2>4. UniqueAccounts => x = 0
    BY <1>5, FS_EmptySet DEF OneMore
  <2> QED BY <1>1, <1>5, <2>2, <2>3, <2>4 DEF OneMore, CountInv
<1> QED BY <1>2, <1>3, <1>4, <1>5

LEMMA CountStep ==
  ASSUME UsersTypeOK, NEW l \in Login, LoginStep(l), NEW a \in Account
  PROVE  NoMore(a) \/ NoRows(a) \/ Hidden(a) \/ OneMore(a)
<1>1. CASE \E p \in Profile : Fetch(l, p)
  BY <1>1 DEF Fetch, UsersTypeOK, NoMore, Rows, Inserters
<1>2. CASE Find(l)
  <2>1. CASE UNCHANGED broken /\ \E u \in Rows(profile[l].account) : Work(l, u, "update")
    BY <1>2, <2>1 DEF Find, Work, Goto, UsersTypeOK, NoMore, Rows, Inserters
  <2>2. CASE UNCHANGED broken /\ Rows(profile[l].account) = {} /\ Work(l, None, "insert")
    BY <1>2, <2>2 DEF Find, Work, Goto, UsersTypeOK, NoMore, NoRows, Rows, Inserters
  <2>3. CASE /\ Work(l, None, "insert")
             /\ broken' = [broken EXCEPT ![profile[l].account] = @ + 1]
    <3>1. Rows(a)' = Rows(a) /\ profile' = profile /\ pc' = [pc EXCEPT ![l] = "insert"]
      BY <1>2, <2>3 DEF Find, Work, Goto, Rows
    <3>2. CASE a = profile[l].account
      <4>1. broken'[a] = broken[a] + 1
        BY <2>3, <3>2 DEF UsersTypeOK
      <4>2. Inserters(a)' \subseteq Inserters(a) \cup {l}
        BY <3>1 DEF UsersTypeOK, Inserters
      <4> QED BY <3>1, <4>1, <4>2 DEF Hidden
    <3>3. CASE a # profile[l].account
      <4>1. broken'[a] = broken[a]
        BY <2>3, <3>3 DEF UsersTypeOK
      <4>2. Inserters(a)' \subseteq Inserters(a)
        BY <3>1, <3>3 DEF UsersTypeOK, Inserters
      <4> QED BY <3>1, <4>1, <4>2 DEF NoMore
    <3> QED BY <3>2, <3>3
  <2> QED BY <1>2, <2>1, <2>2, <2>3 DEF Find
<1>3. CASE Update(l)
  <2>1. user[l] \in UserId /\ users[user[l]] \in UserRow
    BY <1>3 DEF Update, UsersTypeOK, Rows, Busy
  <2>2. Rows(a)' = Rows(a)
    BY <1>3, <2>1, RowAssumption, UpdateTypes DEF Update, UsersTypeOK, Rows, RowsStay, UserRow
  <2>3. Inserters(a)' \subseteq Inserters(a)
    BY <1>3 DEF Update, Goto, UsersTypeOK, Inserters
  <2> QED BY <1>3, <2>2, <2>3 DEF Update, NoMore
<1>4. CASE Insert(l)
  <2>1. CASE Stop(l) /\ UNCHANGED users
    BY <1>4, <2>1 DEF Insert, Stop, UsersTypeOK, NoMore, Rows, Inserters
  <2>2. CASE \E u \in UserId :
               /\ users[u] = None /\ ~(UniqueAccounts /\ Rows(profile[l].account) # {})
               /\ users' = [users EXCEPT ![u] = [account |-> profile[l].account, name |-> profile[l].name]]
               /\ Work(l, u, "delete")
    <3>1. PICK u \in UserId :
            /\ users[u] = None /\ ~(UniqueAccounts /\ Rows(profile[l].account) # {})
            /\ users' = [users EXCEPT ![u] = [account |-> profile[l].account, name |-> profile[l].name]]
            /\ Work(l, u, "delete")
      BY <2>2
    <3>2. pc[l] = "insert" /\ profile[l] \in Profile
      BY <1>4 DEF Insert, UsersTypeOK, Busy
    <3>3. [account |-> profile[l].account, name |-> profile[l].name] # None
      BY <3>2, RowAssumption DEF Profile, UserRow
    <3>4. Inserters(a)' = Inserters(a) \ {l}
      BY <3>1 DEF Work, Goto, UsersTypeOK, Inserters
    <3>7. broken' = broken
      BY <1>4 DEF Insert
    <3>5. CASE a = profile[l].account
      <4>1. Rows(a)' = Rows(a) \cup {u}
        BY <3>1, <3>3, <3>5 DEF UsersTypeOK, Rows
      <4>2. l \in Inserters(a)
        BY <3>2, <3>5 DEF Inserters
      <4> QED BY <3>1, <3>4, <3>5, <3>7, <4>1, <4>2 DEF OneMore
    <3>6. CASE a # profile[l].account
      <4>1. Rows(a)' = Rows(a)
        BY <3>1, <3>3, <3>6 DEF UsersTypeOK, Rows
      <4> QED BY <3>4, <3>7, <4>1 DEF NoMore
    <3> QED BY <3>5, <3>6
  <2> QED BY <1>4, <2>1, <2>2 DEF Insert
<1>5. CASE DeleteBadges(l) \/ AddBadges(l)
  BY <1>5 DEF DeleteBadges, AddBadges, Goto, UsersTypeOK, NoMore, Rows, Inserters
<1>6. CASE Finish(l) \/ Fault(l)
  BY <1>6 DEF Finish, Fault, Stop, UsersTypeOK, NoMore, Rows, Inserters
<1> QED BY <1>1, <1>2, <1>3, <1>4, <1>5, <1>6 DEF LoginStep, Statement

LEMMA CountNext ==
  ASSUME UsersTypeOK, NEW a \in Account, CountInv(a), [UsersNext]_imports
  PROVE  CountInv(a)'
<1>0. broken[a] \in Nat
  BY DEF UsersTypeOK
<1>1. CASE UsersNext
  BY <1>0, <1>1, StepsOfLogins, CountStep, CountByStep
<1>2. CASE UNCHANGED imports
  BY <1>0, <1>2, CountByStep DEF imports, NoMore, Rows, Inserters
<1> QED BY <1>1, <1>2

LEMMA CountInit == ASSUME UsersInit, NEW a \in Account PROVE CountInv(a)
<1>1. Rows(a) = {}
  BY DEF UsersInit, Rows
<1>2. broken[a] = 0
  BY DEF UsersInit
<1> QED BY <1>1, <1>2, FS_EmptySet, InsertersCounted DEF CountInv

DuplicatesInv == \A a \in Account : CountInv(a)

LEMMA CountIsBound == UsersTypeOK /\ DuplicatesInv => DuplicatesBounded
<1> SUFFICES ASSUME UsersTypeOK, NEW a \in Account, CountInv(a)
             PROVE  Cardinality(Rows(a)) <=
                      IF UniqueAccounts THEN 1 ELSE Cardinality(Login) + broken[a]
  BY DEF DuplicatesInv, DuplicatesBounded
<1>1. Cardinality(Rows(a)) \in Nat /\ broken[a] \in Nat
  BY FS_CardinalityType DEF CountInv, UsersTypeOK
<1> QED BY <1>1, InsertersCounted DEF CountInv

(* However many logins of an account overlap, no more rows than logins     *)
(* that can overlap and results that broke off; one row if the schema      *)
(* makes foreign_id unique.                                                *)
THEOREM DuplicatesStayBounded == UsersSpec => []DuplicatesBounded
<1>1. UsersInit => DuplicatesInv
  BY CountInit DEF DuplicatesInv
<1>2. UsersTypeOK /\ DuplicatesInv /\ [UsersNext]_imports => DuplicatesInv'
  BY CountNext DEF DuplicatesInv
<1> QED BY <1>1, <1>2, CountIsBound, UsersTypeCorrect, PTL DEF UsersSpec

-----------------------------------------------------------------------------
(* Logins that nothing overlaps, and badges that stay. *)

(* What the statements of l so far have made of its user. *)
Exact(l) ==
  /\ pc[l] \in {"delete", "add", "done"} => users[user[l]].name = profile[l].name
  /\ pc[l] = "add" => held[user[l]] \subseteq profile[l].badges
  /\ pc[l] = "done" => held[user[l]] = Known(l)

Undisturbed(l) ==
  /\ Busy(l)
  /\ \A k \in Login \ {l} : ~Of(k, profile[l].account)
  /\ Exact(l)

(* AloneLoginIsExact says what holds in the end; the statements before it  *)
(* build that up, and no other login touches the rows of the account.      *)
AloneInv == \A l \in Login : alone[l] => Undisturbed(l)

(* A login changes rows of its own account, or a row that was none.        *)
LEMMA OtherRowsStay ==
  ASSUME UsersTypeOK, NEW l \in Login, LoginStep(l),
         NEW u \in UserId, users[u] # None, users[u].account # profile[l].account
  PROVE  users'[u] = users[u] /\ held'[u] = held[u]
<1>1. pc[l] \in {"update", "delete", "add"} => user[l] # u
  BY DEF UsersTypeOK, Rows
<1>2. CASE Update(l)
  BY <1>1, <1>2 DEF Update, UsersTypeOK
<1>3. CASE Insert(l)
  BY <1>3 DEF Insert, UsersTypeOK
<1>4. CASE DeleteBadges(l) \/ AddBadges(l)
  BY <1>1, <1>4 DEF DeleteBadges, AddBadges, UsersTypeOK
<1> QED BY <1>2, <1>3, <1>4 DEF LoginStep, Statement, Fetch, Find, Finish, Fault

LEMMA AloneOther ==
  ASSUME UsersTypeOK, AloneInv, NEW l \in Login, LoginStep(l), NEW k \in Login \ {l}, alone'[k]
  PROVE  Undisturbed(k)'
<1>1. pc'[k] = pc[k] /\ profile'[k] = profile[k] /\ user'[k] = user[k]
  BY StepTypes DEF Spares
<1>2. /\ alone[k]
      /\ Busy(l)' => profile'[l].account # profile[k].account
      /\ \A j \in Login \ {l} : pc'[j] = pc[j] /\ profile'[j] = profile[j]
  <2>1. CASE \E p \in Profile : Fetch(l, p)
    <3>1. PICK p \in Profile : Fetch(l, p)
      BY <2>1
    <3>2. alone[k] /\ ~Of(k, p.account) /\ profile'[l] = p
      BY <3>1 DEF Fetch, UsersTypeOK
    <3>3. Busy(k)
      BY <3>2 DEF AloneInv, Undisturbed
    <3> QED BY <3>2, <3>3, StepTypes DEF Of, Spares
  <2>2. CASE Statement(l) \/ Finish(l) \/ Fault(l)
    <3>1. /\ Stop(l) \/ (profile' = profile /\ alone' = alone)
          /\ Busy(l)
      BY <2>2 DEF Statement, Find, Update, Insert, DeleteBadges, AddBadges, Finish, Fault, Work, Goto, Busy
    <3>2. alone[k] /\ (Busy(l)' => profile'[l] = profile[l])
      BY <3>1 DEF Stop, UsersTypeOK, Busy
    <3>3. profile[l].account # profile[k].account
      BY <3>1, <3>2 DEF AloneInv, Undisturbed, Of
    <3> QED BY <3>2, <3>3, StepTypes DEF Spares
  <2> QED BY <2>1, <2>2 DEF LoginStep
<1>3. Busy(k)' /\ \A j \in Login \ {k} : ~Of(j, profile[k].account)'
  BY <1>1, <1>2 DEF AloneInv, Undisturbed, Of, Busy
<1>4. Exact(k)'
  <2>1. CASE pc[k] \in {"delete", "add", "done"}
    <3>1. user[k] \in Rows(profile[k].account) /\ Exact(k)
      BY <1>2, <2>1 DEF UsersTypeOK, AloneInv, Undisturbed
    <3>2. CASE \E p \in Profile : Fetch(l, p)
      BY <1>1, <3>1, <3>2 DEF Fetch, Exact, Known
    <3>3. CASE ~ \E p \in Profile : Fetch(l, p)
      <4>1. Busy(l)
        BY <3>3 DEF LoginStep, Statement, Find, Update, Insert, DeleteBadges, AddBadges, Finish, Fault, Busy
      <4>2. profile[l].account # profile[k].account
        BY <1>2, <4>1 DEF AloneInv, Undisturbed, Of
      <4>3. users'[user[k]] = users[user[k]] /\ held'[user[k]] = held[user[k]]
        BY <3>1, <4>2, OtherRowsStay DEF Rows
      <4> QED BY <1>1, <3>1, <4>3 DEF Exact, Known
    <3> QED BY <3>2, <3>3
  <2> QED BY <1>1, <2>1 DEF Exact
<1> QED BY <1>1, <1>3, <1>4 DEF Undisturbed

(* The statements of l build up what Exact says. *)
LEMMA ExactStep ==
  ASSUME UsersTypeOK, NEW l \in Login, Statement(l), Exact(l), Busy(l)'
  PROVE  Exact(l)'
<1>1. CASE Find(l)
  BY <1>1 DEF Find, Work, Goto, UsersTypeOK, Exact
<1>2. CASE Update(l)
  BY <1>2 DEF Update, Goto, UsersTypeOK, Exact, Rows, Busy
<1>3. CASE Insert(l)
  BY <1>3 DEF Insert, Work, Goto, Stop, UsersTypeOK, Exact, Busy
<1>4. CASE DeleteBadges(l)
  <2>1. user[l] \in UserId /\ held[user[l]] \subseteq Badge
    BY <1>4 DEF DeleteBadges, UsersTypeOK, Rows
  <2>2. held'[user[l]] = held[user[l]] \cap profile[l].badges
    BY <1>4, <2>1 DEF DeleteBadges, UsersTypeOK
  <2>3. pc'[l] = (IF profile[l].badges = {} THEN "done" ELSE "add")
        /\ user'[l] = user[l] /\ profile'[l] = profile[l] /\ users' = users
    BY <1>4 DEF DeleteBadges, Goto, UsersTypeOK
  <2>4. users[user[l]].name = profile[l].name
    BY <1>4 DEF DeleteBadges, Exact
  <2> QED BY <2>2, <2>3, <2>4 DEF Exact, Known
<1>5. CASE AddBadges(l)
  <2>1. user[l] \in UserId /\ held[user[l]] \subseteq Badge
    BY <1>5 DEF AddBadges, UsersTypeOK, Rows
  <2>2. held'[user[l]] = held[user[l]] \cup Known(l)
    BY <1>5, <2>1 DEF AddBadges, UsersTypeOK
  <2>3. pc'[l] = "done" /\ user'[l] = user[l] /\ profile'[l] = profile[l] /\ users' = users
    BY <1>5 DEF AddBadges, Goto, UsersTypeOK
  <2>4. users[user[l]].name = profile[l].name /\ held[user[l]] \subseteq profile[l].badges
    BY <1>5 DEF AddBadges, Exact
  <2> QED BY <2>1, <2>2, <2>3, <2>4 DEF Exact, Known
<1> QED BY <1>1, <1>2, <1>3, <1>4, <1>5 DEF Statement

LEMMA AloneSelf ==
  ASSUME UsersTypeOK, AloneInv, NEW l \in Login, LoginStep(l), alone'[l]
  PROVE  Undisturbed(l)'
<1>1. CASE \E p \in Profile : Fetch(l, p)
  BY <1>1 DEF Fetch, UsersTypeOK, Undisturbed, Exact, Of, Busy
<1>2. CASE Finish(l) \/ Fault(l)
  BY <1>2 DEF Finish, Fault, Stop, UsersTypeOK
<1>3. CASE Statement(l)
  <2>1. CASE Stop(l)
    BY <2>1 DEF Stop, UsersTypeOK
  <2>2. CASE profile' = profile /\ alone' = alone /\ Busy(l)'
    <3>1. Undisturbed(l)
      BY <2>2 DEF AloneInv
    <3>2. Exact(l)'
      BY <1>3, <2>2, <3>1, ExactStep DEF Undisturbed
    <3>3. \A k \in Login \ {l} : ~Of(k, profile[l].account)'
      BY <1>3, <2>2, <3>1, StepTypes DEF Undisturbed, Of, Busy, Spares, LoginStep
    <3> QED BY <2>2, <3>2, <3>3 DEF Undisturbed
  <2>3. Stop(l) \/ (profile' = profile /\ alone' = alone /\ Busy(l)')
    BY <1>3 DEF Statement, Find, Update, Insert, DeleteBadges, AddBadges, Work, Goto, Busy, UsersTypeOK
  <2> QED BY <2>1, <2>2, <2>3
<1> QED BY <1>1, <1>2, <1>3 DEF LoginStep

LEMMA AloneNext == UsersTypeOK /\ AloneInv /\ [UsersNext]_imports => AloneInv'
<1>1. ASSUME UsersTypeOK, AloneInv, UNCHANGED imports PROVE AloneInv'
  BY <1>1 DEF imports, AloneInv, Undisturbed, Exact, Of, Busy, Known
<1>2. ASSUME UsersTypeOK, AloneInv, UsersNext PROVE AloneInv'
  <2>1. PICK l \in Login : LoginStep(l)
    BY <1>2, StepsOfLogins
  <2> QED BY <1>2, <2>1, AloneOther, AloneSelf DEF AloneInv
<1> QED BY <1>1, <1>2

(* A login of an account that no other login of it overlaps leaves name    *)
(* and badges exactly as its profile says, from whatever tables.           *)
THEOREM AloneLoginsAreExact == UsersSpec => []AloneLoginIsExact
<1>1. UsersInit => AloneInv
  BY DEF UsersInit, AloneInv
<1>2. AloneInv => AloneLoginIsExact
  BY DEF AloneInv, Undisturbed, Exact, AloneLoginIsExact
<1> QED BY <1>1, <1>2, AloneNext, UsersTypeCorrect, PTL DEF UsersSpec

LEMMA BadgesStayByStep ==
  ASSUME UsersTypeOK, NEW l \in Login, LoginStep(l), NEW u \in UserId, NEW b \in held[u],
         \A k \in Login : Busy(k) /\ user[k] = u => b \in profile[k].badges
  PROVE  b \in held'[u]
<1>1. CASE DeleteBadges(l)
  BY <1>1 DEF DeleteBadges, UsersTypeOK, Busy
<1>2. CASE AddBadges(l)
  BY <1>2 DEF AddBadges, UsersTypeOK
<1> QED BY <1>1, <1>2 DEF LoginStep, Statement, Fetch, Find, Update, Insert, Finish, Fault

(* A badge is taken away only for a profile that lacks it, at every moment *)
(* of a login.                                                             *)
THEOREM BadgesStay == UsersSpec => KeptBadgesStay
<1>1. UsersTypeOK /\ [UsersNext]_imports =>
        [\A u \in UserId : \A b \in held[u] :
           (\A l \in Login : Busy(l) /\ user[l] = u => b \in profile[l].badges)
           => b \in held'[u]]_held
  BY StepsOfLogins, BadgesStayByStep DEF imports
<1> QED BY <1>1, UsersTypeCorrect, PTL DEF UsersSpec, KeptBadgesStay

=============================================================================
